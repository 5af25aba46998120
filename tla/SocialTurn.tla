------------------------------ MODULE SocialTurn ------------------------------
(***************************************************************************)
(* A Social Turn from claim to delivery, with everybody who touches it:    *)
(*                                                                         *)
(*   handlers  one run of processMessage's social loop in a Discord        *)
(*             connector process (connectors/discord/src/index.ts); a      *)
(*             recovery scan may start a second one for the same operation *)
(*   jobs      the turn_jobs row of each step and the worker running it    *)
(*             (turn_jobs.py, api/routes/connectors.py)                    *)
(*   people    a user who cancels the request, a newer human message, an   *)
(*             operator who runs the offline recovery                      *)
(*                                                                         *)
(* All of them act on the ledger of RuntimeLedger.  Requests and responses *)
(* between connector and Core may be lost, either process may crash.       *)
(***************************************************************************)
EXTENDS RuntimeLedger

CONSTANTS
  Handler,      \* runs of the social loop
  Process,      \* connector processes
  ProcOf,       \* the process of each handler
  NoTarget,     \* no step selected
  Proposals,    \* continuations a reply may ask for
  MaxCrash,     \* bound: crashes of either side
  MaxForget,    \* bound: job rows removed by retention
  MaxLost,      \* bound: requests, responses or room access lost
  MaxOpen       \* bound: runs of the loop started

ASSUME TurnAssumption ==
  /\ ProcOf \in [Handler -> Process]
  /\ NoTarget \notin StepId
  /\ {MaxCrash, MaxForget, MaxLost, MaxOpen} \subseteq Nat

VARIABLES
  job,      \* turn_jobs row of each step
  run,      \* worker executing each job
  hand,     \* local state of each handler
  lock,     \* the room's publication lock in each process
  sends,    \* history: Discord sends begun for a step, in order
  effects,  \* history: external mutations executed for a step
  spent,    \* history: generations started for an operation
  faults    \* how many crashes, removed jobs, lost requests and starts happened

vars == <<op, step, slot, job, run, hand, lock, sends, effects, spent, faults>>
history == <<sends, effects, spent>>
actors == <<job, run, hand, lock>>

JobStatus == {"none", "queued", "running", "succeeded", "failed", "timed_out", "cancelled"}
RunPc  == {"idle", "queued", "loaded", "running", "tool", "effected", "stored"}
HandPc == {"idle", "turn", "wait", "lock", "preflight", "saving", "reload", "claim",
           "cas", "send", "ack", "report", "done"}

NoJob == [status |-> "none", required |-> FALSE, cursor |-> NoCursor]
NoRun == [pc |-> "idle", ck |-> NoCursor, call |-> NoCall, required |-> FALSE]
NoHand == [pc |-> "idle", alive |-> TRUE, s |-> NoTarget, cursor |-> NoCursor,
           text |-> 0, nonce |-> NoNonce, seen |-> 0, ids |-> {}, applied |-> FALSE]

Init ==
  /\ LedgerInit
  /\ job = [s \in StepId |-> NoJob]
  /\ run = [s \in StepId |-> NoRun]
  /\ hand = [h \in Handler |-> NoHand]
  /\ lock = [p \in Process |-> FALSE]
  /\ sends = [s \in StepId |-> << >>]
  /\ effects = [s \in StepId |-> 0]
  /\ spent = [o \in Op |-> 0]
  /\ faults = [crash |-> 0, forget |-> 0, lost |-> 0, open |-> 0]

(***************************************************************************)
(* The worker of a job                                                     *)
(***************************************************************************)
\* process_social_turn_step derives the step from the checkpoint it read.
Target(j) == <<j[1], run[j].ck.index, j[3]>>

Working(j) == run[j].pc \in {"running", "tool", "effected"}

FailJob(j) ==
  IF job[j].status \notin {"queued", "running"} THEN job
  ELSE [job EXCEPT ![j].status = "failed"]

Loaded(c) == [pc |-> "loaded", ck |-> c, call |-> NoCall, required |-> FALSE]
Finished(c, required) == [pc |-> "stored", ck |-> c, call |-> NoCall, required |-> required]

\* mark_running, then the checkpoint is read; a job that no longer finds its
\* deployment at the head of it is refused.
Start(j) ==
  LET c  == op[j[1]].cursor
      ok == c.pending # << >> /\ Head(c.pending).dep = j[3]
  IN  /\ run[j].pc = "queued"
      /\ IF job[j].status # "queued"
         THEN run' = [run EXCEPT ![j] = NoRun] /\ UNCHANGED job
         ELSE IF ok THEN /\ c.index \in Index
                         /\ run' = [run EXCEPT ![j] = Loaded(c)]
                         /\ job' = [job EXCEPT ![j].status = "running"]
         ELSE run' = [run EXCEPT ![j] = NoRun] /\ job' = [job EXCEPT ![j].status = "failed"]
      /\ UNCHANGED <<ledger, hand, lock, history, faults>>

\* mark_running of a job whose deadline passed in the queue: only its row changes.
Overdue(j) ==
  /\ run[j].pc = "queued" /\ job[j].status = "queued"
  /\ run' = [run EXCEPT ![j] = NoRun]
  /\ job' = [job EXCEPT ![j].status = "timed_out"]
  /\ UNCHANGED <<ledger, hand, lock, history, faults>>

\* prepare_social_step says execute.
Execute(j) ==
  /\ run[j].pc = "loaded"
  /\ PrepareExecute(Target(j))
  /\ run' = [run EXCEPT ![j].pc = "running"]
  /\ spent' = [spent EXCEPT ![j[1]] = @ + 1]
  /\ UNCHANGED <<job, hand, lock, sends, effects, faults>>

\* prepare_social_step raises on an exhausted interaction.
Exhaust(j) ==
  /\ run[j].pc = "loaded"
  /\ PrepareExhausted(Target(j))
  /\ run' = [run EXCEPT ![j] = NoRun]
  /\ job' = FailJob(j)
  /\ UNCHANGED <<hand, lock, history, faults>>

\* prepare_social_step answers from the ledger: a stored response is the job's
\* result, anything else (a scrubbed response included) fails the job.
Answer(j) ==
  LET t == Target(j)
      stored == Preparation(t) = "replay" /\ step[t].draft > 0
  IN  /\ run[j].pc = "loaded"
      /\ Preparation(t) # "execute"
      /\ run' = IF stored
                THEN [run EXCEPT ![j] = Finished(step[t].cursor, step[t].status # "silent")]
                ELSE [run EXCEPT ![j] = NoRun]
      /\ job' = IF stored THEN job ELSE FailJob(j)
      /\ UNCHANGED <<ledger, hand, lock, history, faults>>

ToolStep(r, pc, c) == [r EXCEPT !.pc = pc, !.call = c]

\* ToolRuntime: the slot is claimed before the tool runs.  A slot in use is
\* answered from the record or refused, and the generation goes on.
ClaimEffect(j, c) ==
  /\ run[j].pc = "running"
  /\ ClaimSlot(Target(j), c)
  /\ run' = [run EXCEPT ![j] = ToolStep(@, "tool", c)]
  /\ UNCHANGED <<job, hand, lock, history, faults>>

\* require_active_turn passes and the tool mutates the outside world.
PerformEffect(j) ==
  /\ run[j].pc = "tool" /\ job[j].status = "running"
  /\ run' = [run EXCEPT ![j].pc = "effected"]
  /\ effects' = [effects EXCEPT ![Target(j)] = @ + 1]
  /\ UNCHANGED <<ledger, job, hand, lock, sends, spent, faults>>

\* The tool was rejected (or its job is no longer active): nothing happened.
RejectEffect(j) ==
  /\ run[j].pc = "tool"
  /\ ReleaseSlot(Target(j))
  /\ run' = [run EXCEPT ![j] = ToolStep(@, "running", NoCall)]
  /\ UNCHANGED <<job, hand, lock, history, faults>>

\* The tool returned, or failed in a way that may have taken effect.
RecordEffect(j) ==
  /\ run[j].pc = "effected"
  /\ CompleteSlot(Target(j))
  /\ run' = [run EXCEPT ![j] = ToolStep(@, "running", NoCall)]
  /\ UNCHANGED <<job, hand, lock, history, faults>>

\* The graph raises: fail_social_step, then the job fails.
Raise(j) ==
  /\ Working(j)
  /\ FailSocialStep(Target(j))
  /\ run' = [run EXCEPT ![j] = NoRun]
  /\ job' = FailJob(j)
  /\ UNCHANGED <<hand, lock, history, faults>>

\* The graph returns a reply: complete_social_step_generation.
Generate(j, visible, proposals) ==
  LET c == Advance(run[j].ck, visible, proposals)
  IN  /\ run[j].pc = "running"
      /\ Admissible(run[j].ck)
      /\ CompleteGeneration(Target(j), c, visible)
      /\ run' = [run EXCEPT ![j] = Finished(c, visible)]
      /\ UNCHANGED <<job, hand, lock, history, faults>>

\* TurnJobRepository.complete, a transaction of its own: a job that was ended in
\* the meantime keeps its status.
StoreResult(j) ==
  /\ run[j].pc = "stored"
  /\ job' = IF job[j].status # "running" THEN job
            ELSE [job EXCEPT ![j] = [status |-> "succeeded", required |-> run[j].required,
                                     cursor |-> run[j].ck]]
  /\ run' = [run EXCEPT ![j] = NoRun]
  /\ UNCHANGED <<ledger, hand, lock, history, faults>>

(***************************************************************************)
(* Ends a job may meet                                                     *)
(***************************************************************************)
\* Turns selected directly carry the operation's own source message; the job of a
\* continuation carries the message it answers, which names no operation.
Direct(j) == j[2] < Len(Chosen) /\ Chosen[j[2] + 1] = j[3]

InterruptJob(j, status) ==
  /\ job[j].status \in {"queued", "running"}
  /\ job' = [job EXCEPT ![j].status = status]
  /\ IF Direct(j) THEN InterruptOperation(j[1]) ELSE UNCHANGED ledger

\* asyncio.wait_for expires, or the service stops: the worker is killed where it is.
Kill(j) ==
  /\ run[j].pc \notin {"idle", "queued"}
  /\ InterruptJob(j, "timed_out")
  /\ run' = [run EXCEPT ![j] = NoRun]
  /\ UNCHANGED <<hand, lock, history, faults>>

\* expire_deadlines, or a poll that finds the deadline passed: only the row changes.
Expire(j) ==
  /\ InterruptJob(j, "timed_out")
  /\ UNCHANGED <<run, hand, lock, history, faults>>

\* cancel_matching_request of the person who asked.
CancelActive(j) ==
  /\ Direct(j)
  /\ InterruptJob(j, "cancelled")
  /\ UNCHANGED <<run, hand, lock, history, faults>>

CancelFinished(j) ==
  /\ Direct(j) /\ job[j].status = "succeeded"
  /\ CancelGeneratedDelivery(j)
  /\ job' = [job EXCEPT ![j] = [NoJob EXCEPT !.status = "cancelled"]]
  /\ UNCHANGED <<run, hand, lock, history, faults>>

\* cleanup: the row outlived its retention (an hour or more, so no handler or
\* worker is still busy with it) and the job may be submitted again.
Forget(j) ==
  /\ faults.forget < MaxForget
  /\ job[j].status \in {"succeeded", "failed", "timed_out", "cancelled"}
  /\ run[j].pc = "idle"
  /\ \A h \in Handler : hand[h].s # j
  /\ job' = [job EXCEPT ![j] = NoJob]
  /\ faults' = [faults EXCEPT !.forget = @ + 1]
  /\ UNCHANGED <<ledger, run, hand, lock, history>>

(***************************************************************************)
(* The connector's social loop                                             *)
(***************************************************************************)
Holding == {"preflight", "saving", "reload", "claim", "cas", "send", "ack", "report"}

\* The lock after h leaves the section it protects (the finally of the loop).
Released(h) ==
  IF hand[h].alive /\ hand[h].pc \in Holding
  THEN [lock EXCEPT ![ProcOf[h]] = FALSE] ELSE lock

Done == [NoHand EXCEPT !.pc = "done"]

\* A throw, or the end of the loop.  A request whose caller is gone leaves nothing.
Leave(h) ==
  /\ hand' = [hand EXCEPT ![h] = IF hand[h].alive THEN Done ELSE NoHand]
  /\ lock' = Released(h)

AtTurn(s, c) == [NoHand EXCEPT !.pc = "turn", !.cursor = c, !.s = s]

\* applyDurableOperation: the loop goes on from checkpoint c of operation o, and
\* ends when no turn is left or the Character is not a candidate (here also: when
\* the step is beyond the bound Index).
Resume(h, o, c) ==
  /\ hand' = [hand EXCEPT ![h] =
                IF ~hand[h].alive THEN NoHand
                ELSE IF c.pending = << >> \/ StepOf(o, c) \notin StepId THEN Done
                ELSE AtTurn(StepOf(o, c), c)]
  /\ lock' = Released(h)

At(h, pc) == hand[h].pc = pc /\ hand[h].alive
Goto(h, pc) == hand' = [hand EXCEPT ![h].pc = pc] /\ UNCHANGED lock

\* A message arrives, or a recovery scan finds the operation unfinished.
Open(h, o) ==
  /\ faults.open < MaxOpen /\ faults' = [faults EXCEPT !.open = @ + 1]
  /\ At(h, "idle") \/ (At(h, "done") /\ Live(o))
  /\ ClaimSocialOperation(o)
  /\ IF op'[o].status \in {"active", "awaiting_delivery"}
     THEN Resume(h, o, op'[o].cursor) ELSE Leave(h)
  /\ UNCHANGED <<job, run, history>>

\* A newer human message: the optional continuation yields.
Yield(h) ==
  /\ At(h, "turn") /\ Head(hand[h].cursor.pending).origin # "selected"
  /\ CancelSocialTurn(hand[h].s[1])
  /\ Leave(h)
  /\ UNCHANGED <<job, run, history, faults>>

\* processSocialTurnStep: an existing job is consumed, never submitted again.
Submit(h) ==
  LET s == hand[h].s
      new == job[s].status = "none"
  IN  /\ At(h, "turn")
      /\ job' = IF new THEN [job EXCEPT ![s].status = "queued"] ELSE job
      /\ run' = IF new THEN [run EXCEPT ![s].pc = "queued"] ELSE run
      /\ Goto(h, "wait")
      /\ UNCHANGED <<ledger, history, faults>>

WithReply(r, pc, text, c) == [r EXCEPT !.pc = pc, !.text = text, !.cursor = c]

\* consumeTurnJob returns: a silent step moves on, a visible one is published.
Consume(h) ==
  LET j == job[hand[h].s]
  IN  /\ At(h, "wait") /\ j.status = "succeeded"
      /\ IF j.required
         THEN /\ hand' = [hand EXCEPT ![h] = WithReply(@, "lock", 0, j.cursor)]
              /\ UNCHANGED lock
         ELSE Resume(h, hand[h].s[1], j.cursor)
      /\ UNCHANGED <<ledger, job, run, history, faults>>

\* Mutant: a job that ended without a result is waited for again.
JobEndedRetry(h) ==
  /\ At(h, "wait")
  /\ job[hand[h].s].status \in {"none", "failed", "timed_out", "cancelled"}
  /\ Goto(h, "turn")
  /\ UNCHANGED <<ledger, job, run, history, faults>>

\* The job is over without a result, or unknown.
JobEnded(h) ==
  /\ At(h, "wait")
  /\ job[hand[h].s].status \in {"none", "failed", "timed_out", "cancelled"}
  /\ Leave(h)
  /\ UNCHANGED <<ledger, job, run, history, faults>>

\* The Character left the room, the queue is full, or the poll budget is spent.
GiveUp(h) ==
  /\ At(h, "turn") \/ At(h, "wait")
  /\ Leave(h)
  /\ UNCHANGED <<ledger, job, run, history, faults>>

\* roomPublications.acquire
Acquire(h) ==
  /\ At(h, "lock") /\ ~lock[ProcOf[h]]
  /\ hand' = [hand EXCEPT ![h].pc = "preflight"]
  /\ lock' = [lock EXCEPT ![ProcOf[h]] = TRUE]
  /\ UNCHANGED <<ledger, job, run, history, faults>>

Preflight(h) ==
  LET s == hand[h].s
  IN  /\ At(h, "preflight")
      /\ \/ PreflightReserve(s) /\ Goto(h, "saving")
         \/ step[s].status = "refreshing" /\ Leave(h) /\ UNCHANGED ledger
         \/ /\ ~Publishable(s) /\ step[s].status # "refreshing"
            /\ Goto(h, "reload") /\ UNCHANGED ledger
      /\ UNCHANGED <<job, run, history, faults>>

\* The evidence is assessed, the draft refreshed if need be, and the verdict saved;
\* a verdict that can no longer be saved is an error for the caller.
SaveKeep(h, refreshed) ==
  LET s == hand[h].s
  IN  /\ hand[h].pc = "saving"
      /\ PreflightKeep(s, refreshed)
      /\ hand' = [hand EXCEPT ![h] =
                    IF ~hand[h].alive THEN NoHand
                    ELSE WithReply(@, "claim", step'[s].text, step'[s].cursor)]
      /\ UNCHANGED <<lock, job, run, history, faults>>

SaveSilence(h) ==
  /\ hand[h].pc = "saving"
  /\ PreflightSilence(hand[h].s)
  /\ hand' = [hand EXCEPT ![h] = IF hand[h].alive THEN [@ EXCEPT !.pc = "reload"] ELSE NoHand]
  /\ UNCHANGED <<lock, job, run, history, faults>>

SaveRefused(h) ==
  /\ hand[h].pc = "saving" /\ ~Savable(hand[h].s)
  /\ Leave(h)
  /\ UNCHANGED <<ledger, job, run, history, faults>>

\* claimSocialTurnOperation after drop, blocked or already_delivered; its status is
\* not looked at.
Reload(h) ==
  LET o == hand[h].s[1]
  IN  /\ At(h, "reload")
      /\ Resume(h, o, op[o].cursor)
      /\ UNCHANGED <<ledger, job, run, history, faults>>

Lose == faults.lost < MaxLost /\ faults' = [faults EXCEPT !.lost = @ + 1]

\* checkRoomAccess finds the room closed after the draft was kept: preflight again.
Recheck(h) ==
  /\ Lose
  /\ At(h, "claim")
  /\ Goto(h, "preflight")
  /\ UNCHANGED <<ledger, job, run, history>>

Fresh(s, n) ==
  /\ step[s].nonce # n
  /\ \A i \in DOMAIN sends[s] : sends[s][i].nonce # n
  /\ \A h \in Handler : hand[h].s = s => hand[h].nonce # n

WithClaim(r, pc, n, seen) == [r EXCEPT !.pc = pc, !.nonce = n, !.seen = seen]

\* claim_delivery of a step that is not, or no longer, generated.
ClaimElse(h, n) ==
  LET s == hand[h].s
  IN  \/ ClaimConflict(s, n) /\ Leave(h)
      \/ /\ step[s].status \in {"delivered", "silent"}
         /\ hand' = [hand EXCEPT ![h] = IF hand[h].alive
                                         THEN WithClaim(@, "reload", NoNonce, 0)
                                         ELSE NoHand]
         /\ UNCHANGED <<lock, ledger>>
      \/ /\ step[s].status \notin {"generated", "delivery_claimed", "delivered", "silent"}
         /\ Leave(h) /\ UNCHANGED ledger

\* claim_delivery reads and validates the draft; validation may also refuse it
\* (check older than 15 s, deployment revoked, source removed).
Claim(h, n) ==
  LET s == hand[h].s
  IN  /\ At(h, "claim") /\ Fresh(s, n)
      /\ \/ /\ Claimable(s)
            /\ hand' = [hand EXCEPT ![h] = WithClaim(@, "cas", n, step[s].draft)]
            /\ UNCHANGED <<lock, ledger>>
         \/ step[s].status = "generated" /\ Leave(h) /\ UNCHANGED ledger
         \/ ClaimElse(h, n)
      /\ UNCHANGED <<job, run, history, faults>>

\* ... and writes its claim if nothing changed meanwhile.
CompareAndSet(h) ==
  LET s == hand[h].s
      n == hand[h].nonce
  IN  /\ hand[h].pc = "cas"
      /\ \/ /\ ClaimGrant(s, n, hand[h].seen)
            /\ hand' = [hand EXCEPT ![h] = IF hand[h].alive
                                            THEN WithClaim(@, "send", n, 0)
                                            ELSE NoHand]
            /\ UNCHANGED lock
         \/ /\ step[s].status = "generated" /\ step[s].draft # hand[h].seen
            /\ Leave(h) /\ UNCHANGED ledger
         \/ ClaimElse(h, n)
      /\ UNCHANGED <<job, run, history, faults>>

Sent(h, ids) ==
  [sends EXCEPT ![hand[h].s] =
     Append(@, [nonce |-> hand[h].nonce, text |-> hand[h].text, ids |-> ids])]

WithOutcome(r, pc, ids, applied) == [r EXCEPT !.pc = pc, !.ids = ids, !.applied = applied]

\* executeSmartOutput: every part is sent, a reaction is applied, or the executor
\* finds nothing it may publish.
SendOk(h, ids, applied) ==
  /\ At(h, "send") /\ ids \in {Part, {}}
  /\ sends' = IF ids # {} \/ applied THEN Sent(h, ids) ELSE sends
  /\ hand' = [hand EXCEPT ![h] = WithOutcome(@, "ack", ids, applied)]
  /\ UNCHANGED <<ledger, job, run, lock, effects, spent, faults>>

\* sendChunks fails with the parts Discord confirmed (delivery.ts).
SendFails(h, ids) ==
  /\ At(h, "send") /\ ids \in SUBSET Part \ {Part}
  /\ sends' = Sent(h, ids)
  /\ hand' = [hand EXCEPT ![h] = WithOutcome(@, "report", ids, FALSE)]
  /\ UNCHANGED <<ledger, job, run, lock, effects, spent, faults>>

\* The error of an acknowledgement carries no message identities: deliveryFailure
\* hands none to the uncertainty report.
Unconfirmed(h) == hand' = [hand EXCEPT ![h] = WithOutcome(@, "report", {}, FALSE)]

Acknowledge(h) ==
  LET r == hand[h]
      o == r.s[1]
  IN  /\ At(h, "ack")
      /\ \/ /\ AcknowledgeDelivery(r.s, r.nonce, r.cursor, r.ids, r.applied)
            /\ Resume(h, o, op'[o].cursor)
         \/ /\ step[r.s].status = "delivered"
            /\ Resume(h, o, op[o].cursor) /\ UNCHANGED ledger
         \/ /\ step[r.s].status # "delivered"
            /\ ~OwnsClaim(r.s, r.nonce) \/ r.cursor # step[r.s].cursor
            /\ Unconfirmed(h) /\ UNCHANGED <<lock, ledger>>
      /\ UNCHANGED <<job, run, history, faults>>

\* markSocialTurnDeliveryUncertain, then the error propagates.
Report(h) ==
  /\ At(h, "report")
  /\ MarkDeliveryUncertain(hand[h].s, hand[h].nonce, hand[h].ids)
  /\ Leave(h)
  /\ UNCHANGED <<job, run, history, faults>>

(***************************************************************************)
(* Lost requests, crashes, offline recovery                                *)
(***************************************************************************)
\* A request that never reaches Core throws; an uncertainty report is only caught.
RequestLost(h) ==
  /\ Lose
  /\ \E pc \in {"preflight", "reload", "claim", "report"} : At(h, pc)
  /\ Leave(h)
  /\ UNCHANGED <<ledger, job, run, history>>

\* The caller stops waiting for a request Core is still serving.
ResponseLost(h) ==
  /\ Lose
  /\ At(h, "saving") \/ At(h, "cas")
  /\ hand' = [hand EXCEPT ![h].alive = FALSE]
  /\ lock' = Released(h)
  /\ UNCHANGED <<ledger, job, run, history>>

\* The acknowledgement is lost on its way, or its answer is, once Core committed it.
AckLost(h) ==
  LET r == hand[h]
  IN  /\ Lose
      /\ At(h, "ack")
      /\ \/ UNCHANGED ledger
         \/ AcknowledgeDelivery(r.s, r.nonce, r.cursor, r.ids, r.applied)
      /\ Unconfirmed(h)
      /\ UNCHANGED <<lock, job, run, history>>

Crash == faults.crash < MaxCrash /\ faults' = [faults EXCEPT !.crash = @ + 1]

\* A connector process dies and restarts; requests Core is serving go on.
ConnectorCrash(p) ==
  /\ Crash
  /\ \E h \in Handler : ProcOf[h] = p /\ hand[h].alive /\ hand[h].pc \notin {"idle", "done"}
  /\ hand' = [h \in Handler |->
                IF ProcOf[h] # p \/ ~hand[h].alive THEN hand[h]
                ELSE IF hand[h].pc \in {"saving", "cas"} THEN [hand[h] EXCEPT !.alive = FALSE]
                ELSE NoHand]
  /\ lock' = [lock EXCEPT ![p] = FALSE]
  /\ UNCHANGED <<ledger, job, run, history>>

\* Core dies and restarts: workers and the in-memory queue are gone, requests being
\* served fail, rows stay as they are (recovery has no startup caller).
CoreCrash ==
  /\ Crash
  /\ \/ \E j \in StepId : run[j].pc # "idle"
     \/ \E h \in Handler : hand[h].pc \in {"saving", "cas"}
  /\ run' = [j \in StepId |-> NoRun]
  /\ hand' = [h \in Handler |->
                IF hand[h].pc \notin {"saving", "cas"} THEN hand[h]
                ELSE IF hand[h].alive THEN Done ELSE NoHand]
  /\ lock' = [p \in Process |->
                lock[p] /\ ~\E h \in Handler : /\ ProcOf[h] = p /\ hand[h].alive
                                               /\ hand[h].pc \in {"saving", "cas"}]
  /\ UNCHANGED <<ledger, job, history>>

\* Mutant: recovery runs beside live workers.
RecoverOnline ==
  /\ RecoverInterrupted
  /\ UNCHANGED <<actors, history, faults>>

\* recover_after_all_workers_stopped
Recover ==
  /\ \A h \in Handler : hand[h].pc \in {"idle", "done"}
  /\ \A j \in StepId : run[j].pc = "idle"
  /\ RecoverInterrupted
  /\ UNCHANGED <<actors, history, faults>>

(***************************************************************************)
(* Specification                                                           *)
(***************************************************************************)
Work(j) ==
  \/ Start(j) \/ Overdue(j) \/ Execute(j) \/ Exhaust(j) \/ Answer(j)
  \/ \E c \in Call : ClaimEffect(j, c)
  \/ PerformEffect(j) \/ RejectEffect(j) \/ RecordEffect(j)
  \/ Raise(j) \/ StoreResult(j)
  \/ \E p \in Proposals : Generate(j, TRUE, p)
  \/ Generate(j, FALSE, << >>)

JobEnd(j) == Kill(j) \/ Expire(j) \/ CancelActive(j) \/ CancelFinished(j) \/ Forget(j)

Advancing(h) ==
  \/ Submit(h) \/ Consume(h) \/ JobEnded(h) \/ GiveUp(h) \/ Acquire(h) \/ Preflight(h)
  \/ \E r \in BOOLEAN : SaveKeep(h, r)
  \/ SaveSilence(h) \/ SaveRefused(h) \/ Reload(h)
  \/ \E n \in Nonce : Claim(h, n)
  \/ CompareAndSet(h)
  \/ SendOk(h, Part, FALSE) \/ SendOk(h, {}, TRUE) \/ SendOk(h, {}, FALSE)
  \/ \E ids \in SUBSET Part : SendFails(h, ids)
  \/ Acknowledge(h) \/ Report(h)

Handle(h) ==
  \/ \E o \in Op : Open(h, o)
  \/ Advancing(h) \/ Yield(h) \/ Recheck(h)
  \/ RequestLost(h) \/ ResponseLost(h) \/ AckLost(h)

Next ==
  \/ \E j \in StepId : Work(j) \/ JobEnd(j)
  \/ \E h \in Handler : Handle(h)
  \/ \E p \in Process : ConnectorCrash(p)
  \/ CoreCrash
  \/ Recover

Spec == Init /\ [][Next]_vars

\* Workers and the social loop keep running.  What people do, and faults, may never
\* happen; a job's own deadline always comes.
FairSpec ==
  /\ Spec
  /\ \A j \in StepId : WF_vars(Work(j)) /\ WF_vars(Expire(j))
  /\ \A h \in Handler : WF_vars(Advancing(h))

(***************************************************************************)
(* Properties                                                              *)
(***************************************************************************)
\* Shapes of the records; what a cursor holds is the business of SpeakersMatch.
IsStep(r) == /\ r = [status |-> r.status, cursor |-> r.cursor, draft |-> r.draft,
                     text |-> r.text, checked |-> r.checked, nonce |-> r.nonce,
                     receipts |-> r.receipts]
             /\ r.status \in StepStatus /\ r.draft \in Nat /\ r.text \in {0, 1}
             /\ r.checked \in BOOLEAN /\ r.nonce \in Nonce \cup {NoNonce}
             /\ r.receipts \subseteq Part
IsOp(r)   == r = [status |-> r.status, cursor |-> r.cursor] /\ r.status \in OpStatus
IsSlot(r) == r \in [status : SlotStatus, call : Call \cup {NoCall}]
IsJob(r)  == /\ r = [status |-> r.status, required |-> r.required, cursor |-> r.cursor]
             /\ r.status \in JobStatus /\ r.required \in BOOLEAN
IsRun(r)  == /\ r = [pc |-> r.pc, ck |-> r.ck, call |-> r.call, required |-> r.required]
             /\ r.pc \in RunPc /\ r.call \in Call \cup {NoCall} /\ r.required \in BOOLEAN
             /\ r.pc \in {"loaded", "running", "tool", "effected"} => r.ck.index \in Index
IsHand(r) == /\ r = [pc |-> r.pc, alive |-> r.alive, s |-> r.s, cursor |-> r.cursor,
                     text |-> r.text, nonce |-> r.nonce, seen |-> r.seen, ids |-> r.ids,
                     applied |-> r.applied]
             /\ r.pc \in HandPc /\ r.alive \in BOOLEAN /\ r.s \in StepId \cup {NoTarget}
             /\ r.pc \notin {"idle", "done"} => r.s \in StepId
             /\ r.text \in {0, 1} /\ r.nonce \in Nonce \cup {NoNonce} /\ r.seen \in Nat
             /\ r.ids \subseteq Part /\ r.applied \in BOOLEAN

OpsOK   == DOMAIN op = Op /\ \A o \in Op : IsOp(op[o])
StepsOK == DOMAIN step = StepId /\ \A s \in StepId : IsStep(step[s])
SlotsOK == DOMAIN slot = StepId /\ \A s \in StepId : IsSlot(slot[s])
JobsOK  == DOMAIN job = StepId /\ \A j \in StepId : IsJob(job[j])
RunsOK  == DOMAIN run = StepId /\ \A j \in StepId : IsRun(run[j])
HandsOK == DOMAIN hand = Handler /\ \A h \in Handler : IsHand(hand[h])
SendsOK == sends \in [StepId -> Seq([nonce : Nonce, text : {0, 1}, ids : SUBSET Part])]
CountsOK == /\ effects \in [StepId -> Nat]
            /\ spent \in [Op -> Nat]
            /\ faults \in [crash : Nat, forget : Nat, lost : Nat, open : Nat]

\* Every record keeps its shape; a draft is refreshed at most once (its text is 0 or
\* 1, source_refresh_count) and whoever is busy with a step knows which one.
TypeOK ==
  /\ OpsOK /\ StepsOK /\ SlotsOK /\ JobsOK /\ RunsOK /\ HandsOK
  /\ lock \in [Process -> BOOLEAN]
  /\ SendsOK /\ CountsOK

\* At most one Discord send is ever begun for a step, whatever handlers, retries,
\* crashes and recoveries do (claim_delivery's promise).
AtMostOnceSend == \A s \in StepId : Len(sends[s]) <= 1

\* At most one external mutation is executed for a step, however often it is
\* generated (claim_side_effect's promise).
SideEffectOnce == \A s \in StepId : effects[s] <= 1

\* While a worker generates a step nobody else decides it: it is generating, or was
\* made uncertain by the end of its job, and holds no delivery claim.
WorkerOwnsStep ==
  \A j \in StepId : Working(j) =>
    /\ step[Target(j)].status \in {"generating", "uncertain"}
    /\ step[Target(j)].nonce = NoNonce

\* Core does not checkpoint past a Discord side effect that was not acknowledged.
CheckpointAfterAck ==
  \A s \in StepId :
    sends[s] # << >> /\ op[s[1]].cursor.index > s[2] => step[s].status = "delivered"

\* A send of unknown outcome keeps its operation uncertain: nothing resumes it.
UncertainBlocks ==
  \A s \in StepId :
    step[s].status = "uncertain" /\ sends[s] # << >> => op[s[1]].status = "uncertain"

\* The Characters a checkpoint counts as having spoken are those whose replies were
\* really delivered, and they stay within the speaking budget.
SpeakersMatch ==
  \A o \in Op : LET c == op[o].cursor IN
    /\ \A d \in Deployment :
         Spoken(c.completed, d) =
           Cardinality({s \in StepId : s[1] = o /\ s[3] = d /\ step[s].status = "delivered"})
    /\ Len(c.completed) <= MaxSpoken
    /\ \A d \in Deployment : Spoken(c.completed, d) <= MaxPerSpeaker

\* What goes to Discord is the wording the ledger holds as claimed, not an earlier
\* draft of it.
SentIsClaimedText ==
  \A s \in StepId : \A i \in DOMAIN sends[s] : sends[s][i].text = step[s].text

\* What Core believes of a conversation agrees with what went to Discord, in every interleaving
\* of two loops, crashes and lost answers (complete_delivery, mark_delivery_uncertain, preflight,
\* the cursor).
DeliveryTrue == CheckpointAfterAck /\ UncertainBlocks /\ SpeakersMatch /\ SentIsClaimedText

\* Once its job is cancelled, no send of that reply begins.
CancelledNeverSent ==
  [][\A s \in StepId : job[s].status = "cancelled" => sends'[s] = sends[s]]_vars

\* The social loop always comes to an end and frees the room.
LoopEnds == \A h \in Handler : hand[h].pc # "idle" ~> hand[h].pc \in {"idle", "done"}

\* A restarted connector that meets a claimed, unacknowledged delivery settles it.
RestartSettlesClaim ==
  \A h \in Handler :
    At(h, "preflight") /\ step[hand[h].s].status = "delivery_claimed"
      ~> (hand[h].pc = "done" \/ \E s \in StepId : step[s].status = "uncertain")

(***************************************************************************)
(* The inductive invariant behind AtMostOnceSend, SideEffectOnce and       *)
(* WorkerOwnsStep                                                          *)
(***************************************************************************)
Settled  == {"delivery_claimed", "delivered", "silent", "uncertain"}
Sending  == {"send", "ack", "report"}
Claiming == Sending \cup {"cas"}

\* A step that was ever claimed never becomes publishable again.
ClaimSettles == \A s \in StepId : step[s].nonce # NoNonce => step[s].status \in Settled

\* No two workers generate the same step.
OneWorker ==
  \A i, j \in StepId : Working(i) /\ Working(j) /\ Target(i) = Target(j) => i = j

\* A handler that sends holds the claim, and nobody else knows its nonce.
NonceHeld ==
  \A h \in Handler :
    /\ hand[h].pc \in Claiming => hand[h].nonce # NoNonce
    /\ hand[h].pc \in Sending => step[hand[h].s].nonce = hand[h].nonce

NoncesDiffer ==
  \A h, k \in Handler :
    h # k /\ hand[h].s = hand[k].s /\ hand[h].nonce # NoNonce => hand[h].nonce # hand[k].nonce

\* Nothing was sent for a step before its claim, nor by the handler about to send.
SendClaimed ==
  /\ \A s \in StepId : sends[s] # << >> => step[s].nonce # NoNonce
  /\ \A h \in Handler : hand[h].pc = "send" => sends[hand[h].s] = << >>

\* A mutation leaves its slot occupied, and a tool about to run has an unused slot.
EffectSlot ==
  /\ \A s \in StepId : effects[s] > 0 => slot[s].status # "none"
  /\ \A j \in StepId : run[j].pc = "tool" =>
       slot[Target(j)].status = "claimed" /\ effects[Target(j)] = 0

IInv ==
  /\ TypeOK /\ ClaimSettles /\ WorkerOwnsStep /\ OneWorker
  /\ NonceHeld /\ NoncesDiffer /\ SendClaimed /\ AtMostOnceSend
  /\ EffectSlot /\ SideEffectOnce
=============================================================================
