------------------------------ MODULE TurnJobs ------------------------------
(***************************************************************************)
(* Asynchronous Character turns.  The Core stores a job per turn, a small  *)
(* pool of workers runs the jobs of its own process, and consumers in the  *)
(* connector (the handler of the message, or a task of the recovery scan)  *)
(* show progress lines, then the reply or one apology.                     *)
(***************************************************************************)
EXTENDS Naturals, Sequences, FiniteSets, SequencesExt

CONSTANTS JobId,         \* job_id, ordered like the scan of the connector
          WorkSlot,      \* tasks of the manager (max_concurrency)
          Handler,       \* handlers of messages, each in its connector process
          Recoverer,     \* recovery tasks, at most one for a job and process
          MaxQueue,      \* max_queue
          MaxLines,      \* publish_progress refuses more (3 in the code)
          MaxFault       \* bound: crashes, stops, lost requests, lost scope

ASSUME TurnJobAssumption ==
    /\ JobId \subseteq Nat \ {0} /\ IsFiniteSet(JobId) /\ Handler \cap Recoverer = {}
    /\ {MaxQueue, MaxLines, MaxFault} \subseteq Nat

VARIABLES job,       \* discord_turn_jobs
          line,      \* discord_turn_job_progress of each job, by ordinal
          up,        \* the manager has workers
          queue,     \* asyncio.Queue
          owned,     \* _owned_job_ids
          slot,      \* job of each worker
          consumer,  \* what each consumer is doing
          asked,     \* jobs a handler has submitted: it handles a message once
          cursor,    \* recoverableTurnJobCursor, 0 when null
          nonces,    \* nonces drawn
          orphan,    \* history: jobs whose process died
          shown,     \* history: how often a line was posted
          said,      \* history: replies and apologies posted for a job
          faults

jobTables == <<job, line>>
jobManager == <<up, queue, owned, slot>>
jobVars == <<jobTables, jobManager, consumer, asked, cursor, nonces, orphan, shown, said, faults>>
-----------------------------------------------------------------------------
Consumer == Handler \cup Recoverer
Open == {"queued", "running"}
Failed == {"failed", "timed_out", "stopped"}
JobStatus == Open \cup Failed \cup {"none", "succeeded", "cancelled", "gone"}
JobRow == [status: JobStatus, due: BOOLEAN, notice: BOOLEAN, scope: BOOLEAN,
           step: {"none", "generated", "claimed", "delivered", "uncertain", "failed"}]
LineRow == [nonce: Nat, acked: BOOLEAN]
NoJobRow == [status |-> "none", due |-> FALSE, notice |-> FALSE, scope |-> TRUE,
             step |-> "none"]
Away == [pc |-> "away", job |-> 0, view |-> "none", ask |-> TRUE, nonce |-> 0, line |-> 0]

TurnJobTypeOK ==
    /\ job \in [JobId -> JobRow]
    /\ line \in [JobId -> Seq(LineRow)] /\ \A j \in JobId : Len(line[j]) <= MaxLines
    /\ up \in BOOLEAN /\ owned \subseteq JobId
    /\ queue \in Seq(JobId) /\ Len(queue) <= MaxQueue
    /\ slot \in [WorkSlot -> JobId \cup {0}]
    /\ consumer \in [Consumer -> [pc: {"away", "drain", "show", "tick", "decide", "notice",
                                       "sorry", "claim", "reply"},
                                  job: JobId \cup {0}, view: JobStatus, ask: BOOLEAN,
                                  nonce: Nat, line: 0..MaxLines]]
    /\ asked \subseteq Handler \X JobId /\ cursor \in JobId \cup {0} /\ orphan \subseteq JobId /\ faults \in 0..MaxFault

TurnJobInit ==
    /\ job = [j \in JobId |-> NoJobRow] /\ line = [j \in JobId |-> << >>]
    /\ up = TRUE /\ queue = << >> /\ owned = {} /\ slot = [w \in WorkSlot |-> 0]
    /\ consumer = [c \in Consumer |-> Away] /\ asked = {} /\ cursor = 0 /\ nonces = 0 /\ orphan = {}
    /\ shown = [j \in JobId |-> [i \in 1..MaxLines |-> 0]]
    /\ said = [j \in JobId |-> 0] /\ faults = 0

Fault == faults < MaxFault /\ faults' = faults + 1
-----------------------------------------------------------------------------
(* Rows *)

\* fail: only a row that is still open, whatever the caller saw before.
FailedRow(row, status) == IF row.status \in Open THEN [row EXCEPT !.status = status] ELSE row
FailRow(j, status) == job' = [job EXCEPT ![j] = FailedRow(job[j], status)]

\* get: a row whose deadline passed is failed before it is shown.
Seen(j) == IF job[j].due THEN FailedRow(job[j], "timed_out") ELSE job[j]

CanAccept == up /\ Len(queue) < MaxQueue

\* The request of a consumer that has to wait for job j, answered with status s.
Wait(c, j, s) == consumer' = [consumer EXCEPT ![c] = [Away EXCEPT !.pc = "drain", !.job = j, !.view = s]]

SubmitTurn(c, j) ==
    /\ consumer[c].pc = "away" /\ job[j].scope /\ <<c, j>> \notin asked
    /\ asked' = asked \cup {<<c, j>>}
    /\ IF job[j].status # "none"
       THEN /\ job' = [job EXCEPT ![j] = Seen(j)] /\ Wait(c, j, Seen(j).status)
            /\ UNCHANGED <<queue, owned>>
       ELSE /\ CanAccept
            /\ job' = [job EXCEPT ![j].status = "queued"]
            /\ queue' = Append(queue, j) /\ owned' = owned \cup {j}
            /\ Wait(c, j, "queued")
    /\ UNCHANGED <<line, up, slot, cursor, nonces, orphan, shown, said, faults>>
-----------------------------------------------------------------------------
(* TurnJobManager *)

\* mark_running and the decision of _worker whether to run the job.
TakeJob(w) ==
    LET j == Head(queue)
        row == IF job[j].status # "queued" THEN job[j]
               ELSE [job[j] EXCEPT !.status = IF job[j].due THEN "timed_out" ELSE "running"]
        runs == job[j].status = "queued" /\ ~job[j].due IN
    /\ up /\ slot[w] = 0 /\ queue # << >>
    /\ queue' = Tail(queue)
    /\ job' = [job EXCEPT ![j] = row]
    /\ slot' = [slot EXCEPT ![w] = IF runs THEN j ELSE 0]
    /\ owned' = IF runs THEN owned ELSE owned \ {j}
    /\ UNCHANGED <<line, up, consumer, asked, cursor, nonces, orphan, shown, said, faults>>

PublishProgress(w) ==
    LET j == slot[w] IN
    /\ j # 0 /\ job[j].status \in Open /\ Len(line[j]) < MaxLines
    /\ line' = [line EXCEPT ![j] = Append(@, [nonce |-> 0, acked |-> FALSE])]
    /\ UNCHANGED <<job, jobManager, consumer, asked, cursor, nonces, orphan, shown, said, faults>>

\* The worker settles its job and forgets it.
EndsWith(w, row) ==
    /\ job' = [job EXCEPT ![slot[w]] = row]
    /\ owned' = owned \ {slot[w]} /\ slot' = [slot EXCEPT ![w] = 0]
    /\ UNCHANGED <<line, up, queue, consumer, asked, cursor, nonces, orphan, shown, said, faults>>

\* complete: a late result times the job out; one that was settled before is dropped.
CompletedRow(row) ==
    IF row.status # "running" THEN row
    ELSE IF row.due THEN [row EXCEPT !.status = "timed_out"]
    ELSE [row EXCEPT !.status = "succeeded", !.step = "generated"]

RunnerReturns(w) == slot[w] # 0 /\ EndsWith(w, CompletedRow(job[slot[w]]))
RunnerRaises(w) == slot[w] # 0 /\ EndsWith(w, FailedRow(job[slot[w]], "failed"))
RunnerTimesOut(w) == slot[w] # 0 /\ job[slot[w]].due /\ EndsWith(w, FailedRow(job[slot[w]], "timed_out"))

\* stop: cancelled workers fail their jobs, then everything still owned is stopped.  The
\* queue is kept: its entries are skipped by the workers of the next start.
StopManager ==
    /\ up /\ Fault /\ up' = FALSE
    /\ job' = [j \in JobId |-> IF j \in owned THEN FailedRow(job[j], "stopped") ELSE job[j]]
    /\ slot' = [w \in WorkSlot |-> 0] /\ owned' = {}
    /\ UNCHANGED <<line, queue, consumer, asked, cursor, nonces, orphan, shown, said>>

CrashManager ==
    /\ up /\ Fault /\ up' = FALSE
    /\ queue' = << >> /\ owned' = {} /\ slot' = [w \in WorkSlot |-> 0]
    /\ orphan' = orphan \cup {j \in JobId : job[j].status \in Open}
    /\ UNCHANGED <<jobTables, consumer, asked, cursor, nonces, shown, said>>

\* expire_deadlines, at start and every minute.
ExpireDeadlines == job' = [j \in JobId |-> Seen(j)]

StartManager ==
    /\ ~up /\ up' = TRUE /\ ExpireDeadlines
    /\ UNCHANGED <<line, queue, owned, slot, consumer, asked, cursor, nonces, orphan, shown, said, faults>>

Maintain ==
    /\ up /\ \E j \in JobId : Seen(j) # job[j]
    /\ ExpireDeadlines
    /\ UNCHANGED <<line, jobManager, consumer, asked, cursor, nonces, orphan, shown, said, faults>>

\* cancel_matching_request: an open job is failed, a finished one only before its delivery.
CancelJob(j) ==
    /\ job[j].scope
    /\ \/ job[j].status \in Open /\ FailRow(j, "cancelled")
       \/ /\ job[j].status = "succeeded" /\ job[j].step = "generated"
          /\ job' = [job EXCEPT ![j].status = "cancelled", ![j].step = "failed"]
    /\ UNCHANGED <<line, jobManager, consumer, asked, cursor, nonces, orphan, shown, said, faults>>

\* cleanup after the retention time, or delete_owner: rows go, workers and consumers remain.
RemoveJob(j) ==
    /\ job[j].status \notin {"none", "gone"} /\ Fault
    /\ job' = [job EXCEPT ![j] = [NoJobRow EXCEPT !.status = "gone", !.scope = FALSE]]
    /\ line' = [line EXCEPT ![j] = << >>]
    /\ UNCHANGED <<jobManager, consumer, asked, cursor, nonces, orphan, shown, said>>

Deadline(j) ==
    /\ job[j].status \in Open /\ ~job[j].due
    /\ job' = [job EXCEPT ![j].due = TRUE]
    /\ UNCHANGED <<line, jobManager, consumer, asked, cursor, nonces, orphan, shown, said, faults>>

ScopeEnds(j) ==
    /\ job[j].scope /\ Fault /\ job' = [job EXCEPT ![j].scope = FALSE]
    /\ UNCHANGED <<line, jobManager, consumer, asked, cursor, nonces, orphan, shown, said>>
-----------------------------------------------------------------------------
(* Consumers: progress *)

At(c, pc) == consumer[c].pc = pc
Goto(c, pc) == consumer' = [consumer EXCEPT ![c].pc = pc]
GoAway(c) == consumer' = [consumer EXCEPT ![c] = Away]
\* An error stops progress for the rest of the wait, not the wait.
NoProgress(c) == consumer' = [consumer EXCEPT ![c].pc = "decide", ![c].ask = FALSE]

Unacked(j) == {i \in DOMAIN line[j] : ~line[j][i].acked}
FirstUnacked(j) == CHOOSE i \in Unacked(j) : \A k \in Unacked(j) : i <= k

\* Mutant of Claimable.
ClaimableAgain(j) == Unacked(j) # {}

\* claim_progress: only the first unacknowledged line, and only if nobody claimed it.
Claimable(j) == Unacked(j) # {} /\ line[j][FirstUnacked(j)].nonce = 0

ClaimProgress(c) ==
    LET j == consumer[c].job
        row == Seen(j) IN
    /\ At(c, "drain")
    /\ job' = [job EXCEPT ![j] = row]
    /\ IF ~(row.scope /\ row.status \in Open \cup {"succeeded"})
       THEN NoProgress(c) /\ UNCHANGED <<line, nonces>>
       ELSE IF ~Claimable(j) THEN Goto(c, "decide") /\ UNCHANGED <<line, nonces>>
       ELSE /\ line' = [line EXCEPT ![j][FirstUnacked(j)].nonce = nonces + 1]
            /\ nonces' = nonces + 1
            /\ consumer' = [consumer EXCEPT ![c].pc = "show", ![c].nonce = nonces + 1,
                                            ![c].line = FirstUnacked(j)]
    /\ UNCHANGED <<jobManager, asked, cursor, orphan, shown, said, faults>>

\* The answer of a claim is lost: the line stays claimed by a nonce nobody holds.
ClaimProgressLost(c) ==
    LET j == consumer[c].job IN
    /\ At(c, "drain") /\ Fault /\ NoProgress(c)
    /\ IF job[j].scope /\ job[j].status \in Open \cup {"succeeded"} /\ Claimable(j)
       THEN line' = [line EXCEPT ![j][FirstUnacked(j)].nonce = nonces + 1] /\ nonces' = nonces + 1
       ELSE UNCHANGED <<line, nonces>>
    /\ UNCHANGED <<job, jobManager, asked, cursor, orphan, shown, said>>

ShowLine(c) ==
    /\ At(c, "show")
    /\ shown' = [shown EXCEPT ![consumer[c].job][consumer[c].line] = @ + 1]
    /\ \/ Goto(c, "tick") /\ UNCHANGED faults
       \/ NoProgress(c) /\ Fault
    /\ UNCHANGED <<jobTables, jobManager, asked, cursor, nonces, orphan, said>>

AcknowledgeProgress(c) ==
    LET j == consumer[c].job
        i == consumer[c].line IN
    /\ At(c, "tick")
    /\ job' = [job EXCEPT ![j] = Seen(j)]
    /\ IF job[j].scope /\ i \in DOMAIN line[j] /\ line[j][i].nonce = consumer[c].nonce
       THEN line' = [line EXCEPT ![j][i].acked = TRUE] /\ (Goto(c, "drain") \/ NoProgress(c))
       ELSE NoProgress(c) /\ UNCHANGED line
    /\ UNCHANGED <<jobManager, asked, cursor, nonces, orphan, shown, said, faults>>
-----------------------------------------------------------------------------
(* Consumers: the end of a turn *)

\* consumeTurnJob looks at the view it got before it asked for progress.
Decide(c) ==
    LET s == consumer[c].view IN
    /\ At(c, "decide") /\ s \notin Open
    /\ CASE s = "succeeded" -> Goto(c, "claim")
         [] s = "cancelled" -> GoAway(c)
         [] OTHER -> Goto(c, "notice")
    /\ UNCHANGED <<jobTables, jobManager, asked, cursor, nonces, orphan, shown, said, faults>>

Poll(c) ==
    LET j == consumer[c].job IN
    /\ At(c, "decide") /\ consumer[c].view \in Open
    /\ job' = [job EXCEPT ![j] = Seen(j)]
    /\ consumer' = [consumer EXCEPT ![c] =
         IF ~job[j].scope THEN Away
         ELSE [@ EXCEPT !.view = Seen(j).status, !.pc = IF consumer[c].ask THEN "drain" ELSE "decide"]]
    /\ UNCHANGED <<line, jobManager, asked, cursor, nonces, orphan, shown, said, faults>>

\* acknowledge_final_notice, before the apology is posted.
ConsumeNotice(c) ==
    LET j == consumer[c].job
        granted == job[j].scope /\ job[j].status \in Failed /\ ~job[j].notice IN
    /\ At(c, "notice")
    /\ IF granted
       THEN /\ job' = [job EXCEPT ![j].notice = TRUE]
            /\ \/ Goto(c, "sorry") /\ UNCHANGED faults
               \/ GoAway(c) /\ Fault
       ELSE GoAway(c) /\ UNCHANGED <<job, faults>>
    /\ UNCHANGED <<line, jobManager, asked, cursor, nonces, orphan, shown, said>>

Apologize(c) ==
    /\ At(c, "sorry") /\ GoAway(c)
    /\ said' = [said EXCEPT ![consumer[c].job] = @ + 1]
    /\ UNCHANGED <<jobTables, jobManager, asked, cursor, nonces, orphan, shown, faults>>

\* claim_delivery of the ledger (external to this module: see RuntimeLedger).
ClaimReply(c) ==
    LET j == consumer[c].job IN
    /\ At(c, "claim")
    /\ IF job[j].step = "generated"
       THEN job' = [job EXCEPT ![j].step = "claimed"] /\ Goto(c, "reply")
       ELSE GoAway(c) /\ UNCHANGED job
    /\ UNCHANGED <<line, jobManager, asked, cursor, nonces, orphan, shown, said, faults>>

PostReply(c) ==
    /\ At(c, "reply") /\ GoAway(c)
    /\ said' = [said EXCEPT ![consumer[c].job] = @ + 1]
    /\ \E s \in {"delivered", "uncertain"} : job' = [job EXCEPT ![consumer[c].job].step = s]
    /\ UNCHANGED <<line, jobManager, asked, cursor, nonces, orphan, shown, faults>>

\* The connector is shut down or dies, a request fails, or the poll budget is used up.
ConsumerEnds(c) ==
    /\ ~At(c, "away") /\ Fault /\ GoAway(c)
    /\ UNCHANGED <<jobTables, jobManager, asked, cursor, nonces, orphan, shown, said>>
-----------------------------------------------------------------------------
(* The recovery scan *)

\* Mutant of Recoverable.
RecoverableReply(j) == job[j].status \in Open \/ (job[j].status = "succeeded" /\ job[j].step = "generated")

Recoverable(j) ==
    \/ job[j].status \in Open
    \/ job[j].status = "succeeded" /\ job[j].step = "generated"
    \/ job[j].status \in Failed /\ ~job[j].notice

\* One page of one job: list_recoverable after the cursor; an empty page ends the round.
Scan(c) ==
    LET page == {j \in JobId : j > cursor /\ Recoverable(j)}
        j == CHOOSE j \in page : \A k \in page : j <= k IN
    /\ At(c, "away") /\ \E k \in JobId : Recoverable(k)
    /\ IF page = {} THEN cursor' = 0 /\ UNCHANGED <<job, consumer>>
       ELSE /\ cursor' = j
            /\ job' = [job EXCEPT ![j] = Seen(j)]
            /\ IF job[j].scope THEN Wait(c, j, Seen(j).status) ELSE UNCHANGED consumer
    /\ UNCHANGED <<line, jobManager, asked, nonces, orphan, shown, said, faults>>
-----------------------------------------------------------------------------
Progress(c) == ClaimProgress(c) \/ ShowLine(c) \/ AcknowledgeProgress(c)
Ending(c) == Decide(c) \/ Poll(c) \/ ConsumeNotice(c) \/ Apologize(c) \/ ClaimReply(c) \/ PostReply(c)
Runner(w) == RunnerReturns(w) \/ RunnerRaises(w) \/ RunnerTimesOut(w)

TurnJobNext ==
    \/ \E c \in Handler, j \in JobId : SubmitTurn(c, j)
    \/ \E c \in Recoverer : Scan(c)
    \/ \E c \in Consumer : Progress(c) \/ Ending(c) \/ ClaimProgressLost(c) \/ ConsumerEnds(c)
    \/ \E w \in WorkSlot : TakeJob(w) \/ PublishProgress(w) \/ Runner(w)
    \/ \E j \in JobId : CancelJob(j) \/ RemoveJob(j) \/ Deadline(j) \/ ScopeEnds(j)
    \/ StopManager \/ CrashManager \/ StartManager \/ Maintain

TurnJobSpec == TurnJobInit /\ [][TurnJobNext]_jobVars
-----------------------------------------------------------------------------
(* Properties *)

\* However many consumers wait for a turn, and whatever requests are lost between them and
\* the Core, a progress line is posted at most once, and the turn ends once at most for the
\* people in the room: with one reply or one apology, never with both (claim_progress, fail,
\* complete, acknowledge_final_notice and the delivery claim).
SpokenOnce ==
    \A j \in JobId : said[j] <= 1 /\ \A i \in 1..MaxLines : shown[j][i] <= 1

\* Every submitted turn is decided, crash of the Core and silent model included, and a turn
\* that failed is apologized for, by its handler or by the scan, as long as its deployment is
\* active there (expire_deadlines, mark_running, get, list_recoverable, the cursor).
TurnEnds ==
    \A j \in JobId :
        /\ (job[j].status \in Open) ~> (job[j].status \notin Open)
        /\ (job[j].status \in Failed) ~> (job[j].notice \/ ~job[j].scope)
=============================================================================
