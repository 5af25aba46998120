--------------------------- MODULE SocialTurnProofs ---------------------------
(***************************************************************************)
(* What holds of SocialTurn for every set of operations, Characters,       *)
(* handlers, processes and nonces, and for every bound: type correctness,  *)
(* at most one Discord send per step, at most one external mutation per    *)
(* step.                                                                   *)
(***************************************************************************)
EXTENDS SocialTurn, TLAPS

(***************************************************************************)
(* The record updates the actions are made of                              *)
(***************************************************************************)
\* A step record put together from well-typed fields.
LEMMA StepFields ==
  ASSUME NEW st \in StepStatus, NEW c, NEW d \in Nat, NEW t \in {0, 1}, NEW k \in BOOLEAN,
         NEW n \in Nonce \cup {NoNonce}, NEW i \in SUBSET Part,
         NEW x, x = [status |-> st, cursor |-> c, draft |-> d, text |-> t, checked |-> k,
                     nonce |-> n, receipts |-> i]
  PROVE  IsStep(x) /\ x.nonce = n /\ x.status = st
  BY DEF IsStep

\* complete_social_step_generation writes a well-formed record and no nonce.
LEMMA StoredIs ==
  ASSUME NEW r, IsStep(r), NEW c, NEW required \in BOOLEAN,
         NEW x, x = Stored(r, c, required)
  PROVE  IsStep(x) /\ x.nonce = r.nonce /\ x.status \in {"generated", "silent"}
<1>1. PICK st \in {"generated", "silent"} : st = (IF required THEN "generated" ELSE "silent")
  OBVIOUS
<1>2. PICK d \in Nat : d = r.draft + 1
  BY DEF IsStep
<1>3. x = [status |-> st, cursor |-> c, draft |-> d, text |-> 0, checked |-> FALSE,
           nonce |-> r.nonce, receipts |-> r.receipts]
  BY <1>1, <1>2 DEF Stored, IsStep
<1> QED BY <1>3, StepFields DEF IsStep, StepStatus

\* So does _save of a draft that is kept ...
LEMMA KeptIs ==
  ASSUME NEW r, IsStep(r), NEW refreshed \in BOOLEAN, NEW d,
         NEW x, x = Kept(r, refreshed, d)
  PROVE  IsStep(x) /\ x.nonce = r.nonce /\ x.status = "generated"
<1>1. PICK t \in {0, 1} : t = (IF refreshed THEN 1 ELSE r.text)
  BY DEF IsStep
<1>2. PICK w \in Nat : w = r.draft + 1
  BY DEF IsStep
<1>3. PICK c : c = (IF refreshed THEN WithoutInvitesOf(r.cursor, d) ELSE r.cursor)
  OBVIOUS
<1>4. x = [status |-> "generated", cursor |-> c, draft |-> w, text |-> t, checked |-> TRUE,
           nonce |-> r.nonce, receipts |-> r.receipts]
  BY <1>1, <1>2, <1>3 DEF Kept, IsStep
<1> QED BY <1>4, StepFields DEF IsStep, StepStatus

\* ... or silenced.
LEMMA SilencedIs ==
  ASSUME NEW r, IsStep(r), NEW c, NEW x, x = Silenced(r, c)
  PROVE  IsStep(x) /\ x.nonce = r.nonce /\ x.status = "silent"
<1>1. PICK w \in Nat : w = r.draft + 1
  BY DEF IsStep
<1>2. x = [status |-> "silent", cursor |-> c, draft |-> w, text |-> r.text,
           checked |-> r.checked, nonce |-> r.nonce, receipts |-> r.receipts]
  BY <1>1 DEF Silenced, IsStep
<1> QED BY <1>2, StepFields DEF IsStep, StepStatus

\* claim_delivery writes the nonce of the claimant.
LEMMA ClaimedIs ==
  ASSUME NEW r, IsStep(r), NEW n \in Nonce, NEW x, x = Claimed(r, n)
  PROVE  IsStep(x) /\ x.nonce = n /\ x.status = "delivery_claimed"
  BY DEF IsStep, Claimed, StepStatus

\* acknowledge_delivery settles the step and keeps the nonce.
LEMMA AckedIs ==
  ASSUME NEW r, IsStep(r), NEW c, NEW ids \in SUBSET Part, NEW applied \in BOOLEAN,
         NEW x, x = Acked(r, c, ids, applied)
  PROVE  IsStep(x) /\ x.nonce = r.nonce /\ x.status \in {"delivered", "silent"}
  BY DEF IsStep, Acked, StepStatus

\* mark_delivery_uncertain keeps the nonce.
LEMMA DoubtedIs ==
  ASSUME NEW r, IsStep(r), NEW ids \in SUBSET Part, NEW x, x = Doubted(r, ids)
  PROVE  IsStep(x) /\ x.nonce = r.nonce /\ x.status = "uncertain"
  BY DEF IsStep, Doubted, StepStatus

\* _cancel_generated_delivery and the recovery of a refreshing step.
LEMMA WithdrawnIs ==
  ASSUME NEW r, IsStep(r), NEW x, x = Withdrawn(r)
  PROVE  IsStep(x) /\ x.nonce = r.nonce /\ x.status = "failed"
  BY DEF IsStep, Withdrawn, StepStatus

\* A step whose status alone is written.
LEMMA StatusIs ==
  ASSUME NEW r, IsStep(r), NEW st \in StepStatus, NEW x, x = [r EXCEPT !.status = st]
  PROVE  IsStep(x) /\ x.nonce = r.nonce /\ x.status = st
  BY DEF IsStep

\* _scrub_completed_operation touches neither status nor nonce.
LEMMA EmptiedIs ==
  ASSUME NEW r, IsStep(r), NEW x, x = [r EXCEPT !.draft = 0]
  PROVE  IsStep(x) /\ x.nonce = r.nonce /\ x.status = r.status
<1>1. x = [status |-> r.status, cursor |-> r.cursor, draft |-> 0, text |-> r.text,
           checked |-> r.checked, nonce |-> r.nonce, receipts |-> r.receipts]
  BY DEF IsStep
<1> QED BY <1>1, StepFields DEF IsStep

LEMMA ScrubbedIs ==
  ASSUME NEW o, NEW c, NEW steps, \A s \in StepId : IsStep(steps[s]),
         NEW t \in StepId
  PROVE  /\ IsStep(Scrubbed(o, c, steps)[t])
         /\ Scrubbed(o, c, steps)[t].nonce = steps[t].nonce
         /\ Scrubbed(o, c, steps)[t].status = steps[t].status
<1>1. PICK r : r = [steps[t] EXCEPT !.draft = 0]
  OBVIOUS
<1>2. IsStep(r) /\ r.nonce = steps[t].nonce /\ r.status = steps[t].status
  BY <1>1, EmptiedIs
<1>3. Scrubbed(o, c, steps)[t] \in {r, steps[t]}
  BY <1>1 DEF Scrubbed
<1> QED BY <1>2, <1>3

\* The records a worker goes through.
LEMMA RunRecords ==
  ASSUME NEW c, NEW required \in BOOLEAN
  PROVE  /\ IsRun(NoRun) /\ NoRun.pc = "idle"
         /\ c.index \in Index => IsRun(Loaded(c))
         /\ Loaded(c).pc = "loaded" /\ Loaded(c).ck = c
         /\ IsRun(Finished(c, required)) /\ Finished(c, required).pc = "stored"
  BY DEF IsRun, NoRun, Loaded, Finished, RunPc

LEMMA ToolStepIs ==
  ASSUME NEW r, IsRun(r), NEW call \in Call \cup {NoCall}, r.ck.index \in Index,
         NEW pc \in {"running", "tool", "effected"},
         NEW x, x = ToolStep(r, pc, call)
  PROVE  IsRun(x) /\ x.pc = pc /\ x.ck = r.ck
  BY DEF IsRun, ToolStep, RunPc

LEMMA RunPcIs ==
  ASSUME NEW r, IsRun(r), NEW pc \in RunPc,
         pc \in {"loaded", "running", "tool", "effected"} => r.ck.index \in Index,
         NEW x, x = [r EXCEPT !.pc = pc]
  PROVE  IsRun(x) /\ x.pc = pc /\ x.ck = r.ck
  BY DEF IsRun

\* The records a handler goes through.
LEMMA NoHandIs == IsHand(NoHand) /\ NoHand.pc = "idle" /\ NoHand.nonce = NoNonce
  BY DEF IsHand, NoHand, HandPc

LEMMA DoneIs == IsHand(Done) /\ Done.pc = "done" /\ Done.nonce = NoNonce
<1>1. PICK r : r = NoHand
  OBVIOUS
<1>2. PICK x : x = [r EXCEPT !.pc = "done"]
  OBVIOUS
<1>3. IsHand(x) /\ x.pc = "done" /\ x.nonce = NoNonce
  BY <1>1, <1>2, NoHandIs DEF IsHand, HandPc
<1> QED BY <1>1, <1>2, <1>3 DEF Done

LEMMA AtTurnIs ==
  ASSUME NEW s \in StepId, NEW c, NEW x, x = AtTurn(s, c)
  PROVE  IsHand(x) /\ x.pc = "turn" /\ x.nonce = NoNonce /\ x.s = s
<1>1. PICK r : r = NoHand
  OBVIOUS
<1>2. x = [r EXCEPT !.pc = "turn", !.cursor = c, !.s = s]
  BY <1>1 DEF AtTurn
<1> QED BY <1>1, <1>2, NoHandIs DEF IsHand, HandPc

LEMMA WithReplyIs ==
  ASSUME NEW r, IsHand(r), r.s \in StepId, NEW pc \in {"lock", "claim"}, NEW text \in {0, 1},
         NEW c, NEW x, x = WithReply(r, pc, text, c)
  PROVE  IsHand(x) /\ x.pc = pc /\ x.nonce = r.nonce /\ x.s = r.s
  BY DEF IsHand, WithReply, HandPc

LEMMA WithClaimIs ==
  ASSUME NEW r, IsHand(r), r.s \in StepId, NEW pc \in {"cas", "send", "reload"},
         NEW n \in Nonce \cup {NoNonce}, NEW seen \in Nat, NEW x, x = WithClaim(r, pc, n, seen)
  PROVE  IsHand(x) /\ x.pc = pc /\ x.nonce = n /\ x.s = r.s
  BY DEF IsHand, WithClaim, HandPc

LEMMA WithOutcomeIs ==
  ASSUME NEW r, IsHand(r), r.s \in StepId, NEW pc \in {"ack", "report"},
         NEW ids \in SUBSET Part, NEW applied \in BOOLEAN,
         NEW x, x = WithOutcome(r, pc, ids, applied)
  PROVE  IsHand(x) /\ x.pc = pc /\ x.nonce = r.nonce /\ x.s = r.s
  BY DEF IsHand, WithOutcome, HandPc

LEMMA HandPcIs ==
  ASSUME NEW r, IsHand(r), r.s \in StepId, NEW pc \in HandPc, NEW x, x = [r EXCEPT !.pc = pc]
  PROVE  IsHand(x) /\ x.pc = pc /\ x.nonce = r.nonce /\ x.s = r.s
  BY DEF IsHand

LEMMA OrphanIs ==
  ASSUME NEW r, IsHand(r), NEW x, x = [r EXCEPT !.alive = FALSE]
  PROVE  IsHand(x) /\ x.pc = r.pc /\ x.nonce = r.nonce /\ x.s = r.s
  BY DEF IsHand

(***************************************************************************)
(* What most actions leave alone                                           *)
(***************************************************************************)
LedgerOK == OpsOK /\ StepsOK /\ SlotsOK
LockOK == lock \in [Process -> BOOLEAN]

\* A worker's step is in no other hands while it has one of these.
Generating == {"generating", "uncertain"}

NoncesKept ==
  \A t \in StepId : /\ step'[t].nonce = step[t].nonce
                    /\ step[t].nonce # NoNonce => step'[t].status \in Settled

GeneratingKept ==
  \A t \in StepId : step[t].status \in Generating /\ step[t].nonce = NoNonce
                      => step'[t].status \in Generating

WorkersKept ==
  \A j \in StepId :
    run'[j].pc \in {"running", "tool", "effected"} => Working(j) /\ run'[j].ck = run[j].ck

ToolsKept == \A j \in StepId : run'[j].pc = "tool" => run[j].pc = "tool" /\ run'[j].ck = run[j].ck

\* A handler's record went from r to x without a new claim.
Quiet(r, x) ==
  /\ x.nonce # NoNonce => x.nonce = r.nonce /\ x.s = r.s
  /\ x.pc \in Claiming => r.pc \in Claiming /\ x.nonce = r.nonce /\ x.s = r.s
  /\ x.pc \in Sending => r.pc \in Sending
  /\ x.pc = "send" => r.pc = "send"

HandsKept == \A h \in Handler : Quiet(hand[h], hand'[h])

(***************************************************************************)
(* One record of a table is replaced                                       *)
(***************************************************************************)
LEMMA SetStep ==
  ASSUME StepsOK, NEW s \in StepId, NEW x, IsStep(x), step' = [step EXCEPT ![s] = x]
  PROVE  /\ StepsOK'
         /\ step'[s] = x
         /\ \A t \in StepId \ {s} : step'[t] = step[t]
  BY DEF StepsOK

LEMMA SetRun ==
  ASSUME RunsOK, NEW j \in StepId, NEW x, IsRun(x), run' = [run EXCEPT ![j] = x]
  PROVE  /\ RunsOK'
         /\ run'[j] = x
         /\ \A i \in StepId \ {j} : run'[i] = run[i]
  BY DEF RunsOK

LEMMA SetHand ==
  ASSUME HandsOK, NEW h \in Handler, NEW x, IsHand(x), hand' = [hand EXCEPT ![h] = x]
  PROVE  /\ HandsOK'
         /\ hand'[h] = x
         /\ \A k \in Handler \ {h} : hand'[k] = hand[k]
  BY DEF HandsOK

\* Tables that do not change.
LEMMA SameStep ==
  ASSUME StepsOK, ClaimSettles, UNCHANGED step
  PROVE  StepsOK' /\ NoncesKept /\ GeneratingKept
  BY DEF StepsOK, ClaimSettles, NoncesKept, GeneratingKept

LEMMA SameRun ==
  ASSUME RunsOK, UNCHANGED run
  PROVE  RunsOK' /\ WorkersKept /\ ToolsKept
  BY DEF RunsOK, WorkersKept, ToolsKept, Working

LEMMA SameHand ==
  ASSUME HandsOK, UNCHANGED hand
  PROVE  HandsOK' /\ HandsKept
  BY DEF HandsOK, HandsKept, Quiet

LEMMA SetOpStatus ==
  ASSUME OpsOK, NEW o \in Op, NEW st \in OpStatus, op' = OpStatusIs(o, st)
  PROVE  OpsOK'
  BY DEF OpsOK, IsOp, OpStatusIs

LEMMA SetOp ==
  ASSUME OpsOK, NEW o \in Op, NEW c, op' = Advanced(o, c)
  PROVE  OpsOK'
  BY DEF OpsOK, IsOp, Advanced, OpStatus

LEMMA SetJobStatus ==
  ASSUME JobsOK, NEW j \in StepId, NEW st \in JobStatus, job' = [job EXCEPT ![j].status = st]
  PROVE  JobsOK'
  BY DEF JobsOK, IsJob

\* A step that changes while nobody generates it, with its nonce kept.
LEMMA StepMoves ==
  ASSUME StepsOK, ClaimSettles, NEW s \in StepId, NEW x, IsStep(x),
         step' = [step EXCEPT ![s] = x], x.nonce = step[s].nonce,
         \/ x.status \in Settled /\ step[s].status \notin Generating
         \/ x.status = "uncertain"
         \/ step[s].status \notin Settled \cup Generating
  PROVE  StepsOK' /\ NoncesKept /\ GeneratingKept
<1>1. StepsOK' /\ step'[s] = x /\ \A t \in StepId \ {s} : step'[t] = step[t]
  BY SetStep
<1> QED BY <1>1 DEF ClaimSettles, NoncesKept, GeneratingKept, Settled, Generating

\* The same, followed by the scrubbing of a completed operation.
LEMMA StepMovesScrubbed ==
  ASSUME StepsOK, ClaimSettles, NEW s \in StepId, NEW x, IsStep(x), NEW o, NEW c,
         step' = Scrubbed(o, c, [step EXCEPT ![s] = x]), x.nonce = step[s].nonce,
         \/ x.status \in Settled /\ step[s].status \notin Generating
         \/ step[s].status \notin Settled \cup Generating
  PROVE  StepsOK' /\ NoncesKept /\ GeneratingKept
<1>1. PICK new : new = [step EXCEPT ![s] = x]
  OBVIOUS
<1>2. \A t \in StepId : IsStep(new[t])
  BY <1>1 DEF StepsOK
<1>3. step' = Scrubbed(o, c, new)
  BY <1>1
<1>4. DOMAIN step' = StepId
  BY <1>3 DEF Scrubbed
<1>5. \A t \in StepId : /\ IsStep(step'[t])
                        /\ step'[t].nonce = new[t].nonce /\ step'[t].status = new[t].status
  BY <1>2, <1>3, ScrubbedIs
<1>6. new[s] = x /\ \A t \in StepId \ {s} : new[t] = step[t]
  BY <1>1 DEF StepsOK
<1>7. StepsOK'
  BY <1>4, <1>5 DEF StepsOK
<1>8. NoncesKept
  <2> SUFFICES ASSUME NEW t \in StepId
               PROVE  /\ step'[t].nonce = step[t].nonce
                      /\ step[t].nonce # NoNonce => step'[t].status \in Settled
    BY DEF NoncesKept
  <2>1. CASE t = s
    BY <2>1, <1>5, <1>6 DEF ClaimSettles, Generating, Settled
  <2>2. CASE t # s
    BY <2>2, <1>5, <1>6 DEF ClaimSettles
  <2> QED BY <2>1, <2>2
<1>9. GeneratingKept
  BY <1>5, <1>6 DEF GeneratingKept, Generating
<1> QED BY <1>7, <1>8, <1>9

(***************************************************************************)
(* The methods of the ledger                                               *)
(***************************************************************************)
\* What a method keeps, when it takes no claim and ends no generation.
Safe == LedgerOK' /\ NoncesKept /\ GeneratingKept

LEMMA SameLedger ==
  ASSUME LedgerOK, ClaimSettles, UNCHANGED ledger
  PROVE  Safe
<1>1. StepsOK' /\ NoncesKept /\ GeneratingKept
  BY SameStep DEF LedgerOK, ledger
<1>2. OpsOK' /\ SlotsOK'
  BY DEF LedgerOK, OpsOK, SlotsOK, ledger
<1> QED BY <1>1, <1>2 DEF Safe, LedgerOK

\* Methods that write the slots only.
LEMMA SlotSafe ==
  ASSUME LedgerOK, ClaimSettles, UNCHANGED <<op, step>>, SlotsOK'
  PROVE  Safe
<1>1. StepsOK' /\ NoncesKept /\ GeneratingKept
  BY SameStep DEF LedgerOK
<1>2. OpsOK'
  BY DEF LedgerOK, OpsOK
<1> QED BY <1>1, <1>2 DEF Safe, LedgerOK

LEMMA ClaimSlotSafe ==
  ASSUME LedgerOK, ClaimSettles, NEW s \in StepId, NEW c \in Call, ClaimSlot(s, c)
  PROVE  Safe
<1>1. SlotsOK'
  BY DEF ClaimSlot, LedgerOK, SlotsOK, IsSlot, SlotStatus
<1> QED BY <1>1, SlotSafe DEF ClaimSlot

LEMMA CompleteSlotSafe ==
  ASSUME LedgerOK, ClaimSettles, NEW s \in StepId, CompleteSlot(s)
  PROVE  Safe
<1>1. SlotsOK'
  BY DEF CompleteSlot, LedgerOK, SlotsOK, IsSlot, SlotStatus
<1> QED BY <1>1, SlotSafe DEF CompleteSlot

LEMMA ReleaseSlotSafe ==
  ASSUME LedgerOK, ClaimSettles, NEW s \in StepId, ReleaseSlot(s)
  PROVE  Safe
<1>1. SlotsOK'
  BY DEF ReleaseSlot, LedgerOK, SlotsOK, IsSlot, SlotStatus, NoSlot
<1> QED BY <1>1, SlotSafe DEF ReleaseSlot

LEMMA ClaimSocialOperationSafe ==
  ASSUME LedgerOK, ClaimSettles, NEW o \in Op, ClaimSocialOperation(o)
  PROVE  Safe
<1>1. OpsOK'
  BY DEF ClaimSocialOperation, LedgerOK, OpsOK, IsOp, OpStatus
<1>2. StepsOK' /\ NoncesKept /\ GeneratingKept
  BY SameStep DEF LedgerOK, ClaimSocialOperation
<1>3. SlotsOK'
  BY DEF LedgerOK, SlotsOK, ClaimSocialOperation
<1> QED BY <1>1, <1>2, <1>3 DEF Safe, LedgerOK

LEMMA PrepareExhaustedSafe ==
  ASSUME LedgerOK, ClaimSettles, NEW s \in StepId, PrepareExhausted(s)
  PROVE  Safe
<1>1. OpsOK'
  BY SetOpStatus DEF PrepareExhausted, LedgerOK, OpStatus, StepId
<1>2. StepsOK' /\ NoncesKept /\ GeneratingKept
  BY SameStep DEF LedgerOK, PrepareExhausted
<1>3. SlotsOK'
  BY DEF LedgerOK, SlotsOK, PrepareExhausted
<1> QED BY <1>1, <1>2, <1>3 DEF Safe, LedgerOK

LEMMA PrepareExecuteSafe ==
  ASSUME LedgerOK, ClaimSettles, NEW s \in StepId, PrepareExecute(s)
  PROVE  /\ Safe
         /\ step[s].status \in {"none", "failed"}
         /\ step'[s].status = "generating" /\ step'[s].nonce = NoNonce
         /\ UNCHANGED slot
<1>1. OpsOK'
  BY DEF PrepareExecute, LedgerOK, OpsOK, IsOp, StepId
<1>2. step[s].status \in {"none", "failed"}
  BY DEF PrepareExecute, Preparation
<1>3. PICK x : x = [step[s] EXCEPT !.status = "generating"]
  OBVIOUS
<1>4. IsStep(x) /\ x.nonce = step[s].nonce /\ x.status = "generating"
  BY <1>3, StatusIs DEF LedgerOK, StepsOK, StepStatus
<1>5. step' = [step EXCEPT ![s] = x]
  BY <1>3 DEF PrepareExecute
<1>6. StepsOK' /\ NoncesKept /\ GeneratingKept
  BY <1>2, <1>4, <1>5, StepMoves DEF LedgerOK, Settled, Generating
<1>7. step'[s] = x
  BY <1>5 DEF LedgerOK, StepsOK
<1>8. step[s].nonce = NoNonce
  BY <1>2 DEF ClaimSettles, Settled
<1>9. SlotsOK' /\ UNCHANGED slot
  BY DEF LedgerOK, SlotsOK, PrepareExecute
<1> QED BY <1>1, <1>2, <1>4, <1>6, <1>7, <1>8, <1>9 DEF Safe, LedgerOK

LEMMA PreflightReserveSafe ==
  ASSUME LedgerOK, ClaimSettles, NEW s \in StepId, PreflightReserve(s)
  PROVE  Safe
<1>1. PICK x : x = [step[s] EXCEPT !.status = "refreshing"]
  OBVIOUS
<1>2. IsStep(x) /\ x.nonce = step[s].nonce /\ x.status = "refreshing"
  BY <1>1, StatusIs DEF LedgerOK, StepsOK, StepStatus
<1>3. step' = [step EXCEPT ![s] = x] /\ step[s].status = "generated"
  BY <1>1 DEF PreflightReserve, Publishable
<1>4. StepsOK' /\ NoncesKept /\ GeneratingKept
  BY <1>2, <1>3, StepMoves DEF LedgerOK, Settled, Generating
<1>5. OpsOK' /\ SlotsOK'
  BY DEF LedgerOK, OpsOK, SlotsOK, PreflightReserve
<1> QED BY <1>4, <1>5 DEF Safe, LedgerOK

LEMMA PreflightKeepSafe ==
  ASSUME LedgerOK, ClaimSettles, NEW s \in StepId, NEW refreshed \in BOOLEAN,
         PreflightKeep(s, refreshed)
  PROVE  Safe
<1>1. PICK x : x = Kept(step[s], refreshed, s[3])
  OBVIOUS
<1>2. IsStep(x) /\ x.nonce = step[s].nonce /\ x.status = "generated"
  BY <1>1, KeptIs DEF LedgerOK, StepsOK
<1>3. step' = [step EXCEPT ![s] = x] /\ step[s].status = "refreshing"
  BY <1>1 DEF PreflightKeep, Savable
<1>4. StepsOK' /\ NoncesKept /\ GeneratingKept
  BY <1>2, <1>3, StepMoves DEF LedgerOK, Settled, Generating
<1>5. OpsOK' /\ SlotsOK'
  BY DEF LedgerOK, OpsOK, SlotsOK, PreflightKeep
<1> QED BY <1>4, <1>5 DEF Safe, LedgerOK

LEMMA PreflightSilenceSafe ==
  ASSUME LedgerOK, ClaimSettles, NEW s \in StepId, PreflightSilence(s)
  PROVE  Safe
<1>1. PICK c : c = [OnlySelected(WithoutInvitesOf(step[s].cursor, s[3]))
                      EXCEPT !.completed = op[s[1]].cursor.completed]
  OBVIOUS
<1>2. PICK x : x = Silenced(step[s], c)
  OBVIOUS
<1>3. IsStep(x) /\ x.nonce = step[s].nonce /\ x.status = "silent"
  BY <1>2, SilencedIs DEF LedgerOK, StepsOK
<1>4. /\ step' = Scrubbed(s[1], c, [step EXCEPT ![s] = x])
      /\ op' = Advanced(s[1], c)
      /\ step[s].status = "refreshing"
      /\ UNCHANGED slot
  BY <1>1, <1>2 DEF PreflightSilence, Savable
<1>5. StepsOK' /\ NoncesKept /\ GeneratingKept
  BY <1>3, <1>4, StepMovesScrubbed DEF LedgerOK, Settled, Generating
<1>6. OpsOK'
  BY <1>4, SetOp DEF LedgerOK, StepId
<1>7. SlotsOK'
  BY <1>4 DEF LedgerOK, SlotsOK
<1> QED BY <1>5, <1>6, <1>7 DEF Safe, LedgerOK

LEMMA ClaimConflictSafe ==
  ASSUME LedgerOK, ClaimSettles, NEW s \in StepId, NEW n, ClaimConflict(s, n)
  PROVE  Safe
<1>1. PICK x : x = [step[s] EXCEPT !.status = "uncertain"]
  OBVIOUS
<1>2. IsStep(x) /\ x.nonce = step[s].nonce /\ x.status = "uncertain"
  BY <1>1, StatusIs DEF LedgerOK, StepsOK, StepStatus
<1>3. step' = [step EXCEPT ![s] = x]
  BY <1>1 DEF ClaimConflict
<1>4. StepsOK' /\ NoncesKept /\ GeneratingKept
  BY <1>2, <1>3, StepMoves DEF LedgerOK
<1>5. OpsOK'
  BY SetOpStatus DEF ClaimConflict, LedgerOK, OpStatus, StepId
<1>6. SlotsOK'
  BY DEF LedgerOK, SlotsOK, ClaimConflict
<1> QED BY <1>4, <1>5, <1>6 DEF Safe, LedgerOK

LEMMA AcknowledgeSafe ==
  ASSUME LedgerOK, ClaimSettles, NEW s \in StepId, NEW n, NEW shown,
         NEW ids \in SUBSET Part, NEW applied \in BOOLEAN,
         AcknowledgeDelivery(s, n, shown, ids, applied)
  PROVE  Safe
<1>1. PICK c : /\ step' = Scrubbed(s[1], c, [step EXCEPT ![s] = Acked(@, c, ids, applied)])
               /\ op' = Advanced(s[1], c)
  BY DEF AcknowledgeDelivery
<1>2. PICK x : x = Acked(step[s], c, ids, applied)
  OBVIOUS
<1>3. IsStep(x) /\ x.nonce = step[s].nonce /\ x.status \in {"delivered", "silent"}
  BY <1>2, AckedIs DEF LedgerOK, StepsOK
<1>4. step' = Scrubbed(s[1], c, [step EXCEPT ![s] = x])
  BY <1>1, <1>2
<1>5. step[s].status = "delivery_claimed" /\ UNCHANGED slot
  BY DEF AcknowledgeDelivery, OwnsClaim
<1>6. StepsOK' /\ NoncesKept /\ GeneratingKept
  BY <1>3, <1>4, <1>5, StepMovesScrubbed DEF LedgerOK, Settled, Generating
<1>7. OpsOK'
  BY <1>1, SetOp DEF LedgerOK, StepId
<1>8. SlotsOK'
  BY <1>5 DEF LedgerOK, SlotsOK
<1> QED BY <1>6, <1>7, <1>8 DEF Safe, LedgerOK

LEMMA MarkUncertainSafe ==
  ASSUME LedgerOK, ClaimSettles, NEW s \in StepId, NEW n, NEW ids \in SUBSET Part,
         MarkDeliveryUncertain(s, n, ids)
  PROVE  Safe
<1>1. CASE UNCHANGED ledger
  BY <1>1, SameLedger
<1>2. CASE ~UNCHANGED ledger
  <2>1. /\ step' = [step EXCEPT ![s] = Doubted(@, ids)]
        /\ op' = OpStatusIs(s[1], "uncertain")
        /\ UNCHANGED slot
    BY <1>2 DEF MarkDeliveryUncertain
  <2>2. PICK x : x = Doubted(step[s], ids)
    OBVIOUS
  <2>3. IsStep(x) /\ x.nonce = step[s].nonce /\ x.status = "uncertain"
    BY <2>2, DoubtedIs DEF LedgerOK, StepsOK
  <2>4. step' = [step EXCEPT ![s] = x]
    BY <2>1, <2>2
  <2>5. StepsOK' /\ NoncesKept /\ GeneratingKept
    BY <2>3, <2>4, StepMoves DEF LedgerOK
  <2>6. OpsOK'
    BY <2>1, SetOpStatus DEF LedgerOK, OpStatus, StepId
  <2>7. SlotsOK'
    BY <2>1 DEF LedgerOK, SlotsOK
  <2> QED BY <2>5, <2>6, <2>7 DEF Safe, LedgerOK
<1> QED BY <1>1, <1>2

LEMMA CancelGeneratedSafe ==
  ASSUME LedgerOK, ClaimSettles, NEW s \in StepId, CancelGeneratedDelivery(s)
  PROVE  Safe
<1>1. PICK x : x = Withdrawn(step[s])
  OBVIOUS
<1>2. IsStep(x) /\ x.nonce = step[s].nonce /\ x.status = "failed"
  BY <1>1, WithdrawnIs DEF LedgerOK, StepsOK
<1>3. step' = [step EXCEPT ![s] = x] /\ step[s].status = "generated"
  BY <1>1 DEF CancelGeneratedDelivery
<1>4. StepsOK' /\ NoncesKept /\ GeneratingKept
  BY <1>2, <1>3, StepMoves DEF LedgerOK, Settled, Generating
<1>5. OpsOK'
  BY SetOpStatus DEF CancelGeneratedDelivery, LedgerOK, OpStatus, StepId
<1>6. SlotsOK'
  BY DEF LedgerOK, SlotsOK, CancelGeneratedDelivery
<1> QED BY <1>4, <1>5, <1>6 DEF Safe, LedgerOK

LEMMA CancelSocialTurnSafe ==
  ASSUME LedgerOK, ClaimSettles, NEW o \in Op, CancelSocialTurn(o)
  PROVE  Safe
<1>1. CASE UNCHANGED ledger
  BY <1>1, SameLedger
<1>2. CASE ~UNCHANGED ledger
  <2>1. PICK c : op' = Advanced(o, c) /\ step' = Scrubbed(o, c, step) /\ UNCHANGED slot
    BY <1>2 DEF CancelSocialTurn
  <2>2. \A t \in StepId : /\ IsStep(step'[t])
                          /\ step'[t].nonce = step[t].nonce
                          /\ step'[t].status = step[t].status
    BY <2>1, ScrubbedIs DEF LedgerOK, StepsOK
  <2>3. DOMAIN step' = StepId
    BY <2>1 DEF Scrubbed
  <2>4. StepsOK'
    BY <2>2, <2>3 DEF StepsOK
  <2>5. NoncesKept /\ GeneratingKept
    BY <2>2 DEF ClaimSettles, NoncesKept, GeneratingKept
  <2>6. OpsOK'
    BY <2>1, SetOp DEF LedgerOK
  <2>7. SlotsOK'
    BY <2>1 DEF LedgerOK, SlotsOK
  <2> QED BY <2>4, <2>5, <2>6, <2>7 DEF Safe, LedgerOK
<1> QED BY <1>1, <1>2

LEMMA InterruptSafe ==
  ASSUME LedgerOK, ClaimSettles, NEW o \in Op, InterruptOperation(o)
  PROVE  Safe
<1>1. OpsOK'
  BY SetOpStatus DEF InterruptOperation, LedgerOK, OpStatus, OpsOK
<1>2. ASSUME NEW t \in StepId
      PROVE  /\ IsStep(step'[t])
             /\ step'[t].nonce = step[t].nonce
             /\ \/ step'[t].status = step[t].status
                \/ step'[t].status = "uncertain"
  <2>1. PICK x : x = [step[t] EXCEPT !.status = "uncertain"]
    OBVIOUS
  <2>2. IsStep(x) /\ x.nonce = step[t].nonce /\ x.status = "uncertain"
    BY <2>1, StatusIs DEF LedgerOK, StepsOK, StepStatus
  <2>3. step'[t] = x \/ step'[t] = step[t]
    BY <2>1 DEF InterruptOperation
  <2>4. IsStep(step[t])
    BY DEF LedgerOK, StepsOK
  <2> QED BY <2>2, <2>3, <2>4
<1>3. DOMAIN step' = StepId
  BY DEF InterruptOperation, LedgerOK, StepsOK
<1>4. StepsOK'
  BY <1>2, <1>3 DEF StepsOK
<1>5. NoncesKept /\ GeneratingKept
  BY <1>2 DEF ClaimSettles, NoncesKept, GeneratingKept, Settled, Generating
<1>6. SlotsOK'
  BY DEF LedgerOK, SlotsOK, InterruptOperation
<1> QED BY <1>1, <1>4, <1>5, <1>6 DEF Safe, LedgerOK

\* The worker of s ends its generation, whatever the outcome.
OthersKept(s) == \A t \in StepId \ {s} : step'[t].status = step[t].status

LEMMA FailSafe ==
  ASSUME LedgerOK, ClaimSettles, NEW s \in StepId, step[s].nonce = NoNonce, FailSocialStep(s)
  PROVE  LedgerOK' /\ NoncesKept /\ OthersKept(s) /\ UNCHANGED slot
<1>1. PICK x : x = [step[s] EXCEPT !.status = "failed"]
  OBVIOUS
<1>2. IsStep(x) /\ x.nonce = step[s].nonce
  BY <1>1, StatusIs DEF LedgerOK, StepsOK, StepStatus
<1>3. step' = [step EXCEPT ![s] = x]
  BY <1>1 DEF FailSocialStep
<1>4. StepsOK' /\ step'[s] = x /\ \A t \in StepId \ {s} : step'[t] = step[t]
  BY <1>2, <1>3, SetStep DEF LedgerOK
<1>5. NoncesKept /\ OthersKept(s)
  BY <1>2, <1>4 DEF ClaimSettles, NoncesKept, OthersKept
<1>6. OpsOK'
  BY SetOpStatus DEF FailSocialStep, LedgerOK, OpStatus, StepId, OpsOK
<1>7. SlotsOK' /\ UNCHANGED slot
  BY DEF LedgerOK, SlotsOK, FailSocialStep
<1> QED BY <1>4, <1>5, <1>6, <1>7 DEF LedgerOK

LEMMA CompleteSafe ==
  ASSUME LedgerOK, ClaimSettles, NEW s \in StepId, step[s].nonce = NoNonce, NEW c,
         NEW required \in BOOLEAN, CompleteGeneration(s, c, required)
  PROVE  LedgerOK' /\ NoncesKept /\ OthersKept(s) /\ UNCHANGED slot
<1>1. PICK x : x = Stored(step[s], c, required)
  OBVIOUS
<1>2. IsStep(x) /\ x.nonce = step[s].nonce
  BY <1>1, StoredIs DEF LedgerOK, StepsOK
<1>3. PICK new : new = [step EXCEPT ![s] = x]
  OBVIOUS
<1>4. /\ DOMAIN new = StepId /\ new[s] = x
      /\ \A t \in StepId \ {s} : new[t] = step[t]
      /\ \A t \in StepId : IsStep(new[t])
  BY <1>2, <1>3 DEF LedgerOK, StepsOK
<1>5. step' = new \/ step' = Scrubbed(s[1], c, new)
  BY <1>1, <1>3 DEF CompleteGeneration
<1>6. DOMAIN step' = StepId
  BY <1>4, <1>5 DEF Scrubbed
<1>7. \A t \in StepId : /\ IsStep(step'[t])
                        /\ step'[t].nonce = new[t].nonce /\ step'[t].status = new[t].status
  BY <1>4, <1>5, ScrubbedIs
<1>8. StepsOK'
  BY <1>6, <1>7 DEF StepsOK
<1>9. NoncesKept /\ OthersKept(s)
  BY <1>2, <1>4, <1>7 DEF ClaimSettles, NoncesKept, OthersKept
<1>10. OpsOK'
  BY SetOpStatus, SetOp DEF CompleteGeneration, LedgerOK, OpStatus, StepId
<1>11. SlotsOK' /\ UNCHANGED slot
  BY DEF LedgerOK, SlotsOK, CompleteGeneration
<1> QED BY <1>8, <1>9, <1>10, <1>11 DEF LedgerOK

\* claim_delivery: only a step nobody ever claimed is granted, to one nonce.
LEMMA GrantSafe ==
  ASSUME LedgerOK, ClaimSettles, NEW s \in StepId, NEW n \in Nonce, NEW seen,
         ClaimGrant(s, n, seen)
  PROVE  /\ LedgerOK' /\ UNCHANGED slot
         /\ step[s].nonce = NoNonce /\ step[s].status = "generated"
         /\ step'[s].nonce = n /\ step'[s].status = "delivery_claimed"
         /\ \A t \in StepId \ {s} : step'[t] = step[t]
<1>1. PICK x : x = Claimed(step[s], n)
  OBVIOUS
<1>2. IsStep(x) /\ x.nonce = n /\ x.status = "delivery_claimed"
  BY <1>1, ClaimedIs DEF LedgerOK, StepsOK
<1>3. step' = [step EXCEPT ![s] = x] /\ step[s].status = "generated"
  BY <1>1 DEF ClaimGrant
<1>4. StepsOK' /\ step'[s] = x /\ \A t \in StepId \ {s} : step'[t] = step[t]
  BY <1>2, <1>3, SetStep DEF LedgerOK
<1>5. step[s].nonce = NoNonce
  BY <1>3 DEF ClaimSettles, Settled
<1>6. OpsOK' /\ SlotsOK' /\ UNCHANGED slot
  BY DEF LedgerOK, OpsOK, SlotsOK, ClaimGrant
<1> QED BY <1>2, <1>3, <1>4, <1>5, <1>6 DEF LedgerOK

\* recover_interrupted keeps every nonce and every occupied slot.
LEMMA RecoverSafe ==
  ASSUME LedgerOK, ClaimSettles, RecoverInterrupted
  PROVE  /\ LedgerOK' /\ NoncesKept
         /\ \A s \in StepId : slot[s].status # "none" => slot'[s].status # "none"
<1>1. ASSUME NEW t \in StepId
      PROVE  /\ IsStep(step'[t]) /\ step'[t].nonce = step[t].nonce
             /\ step[t].status \in Settled => step'[t].status \in Settled
  <2>1. PICK x : x = [step[t] EXCEPT !.status = "failed"]
    OBVIOUS
  <2>2. PICK y : y = [step[t] EXCEPT !.status = "uncertain"]
    OBVIOUS
  <2>3. PICK z : z = Withdrawn(step[t])
    OBVIOUS
  <2>4. IsStep(step[t])
    BY DEF LedgerOK, StepsOK
  <2>5. IsStep(x) /\ x.nonce = step[t].nonce
    BY <2>1, <2>4, StatusIs DEF StepStatus
  <2>6. IsStep(y) /\ y.nonce = step[t].nonce /\ y.status = "uncertain"
    BY <2>2, <2>4, StatusIs DEF StepStatus
  <2>7. IsStep(z) /\ z.nonce = step[t].nonce
    BY <2>3, <2>4, WithdrawnIs
  <2>8. step'[t] = CASE step[t].status = "generating" -> x
                     [] step[t].status = "refreshing" -> z
                     [] step[t].status = "delivery_claimed" -> y
                     [] OTHER -> step[t]
    BY <2>1, <2>2, <2>3 DEF RecoverInterrupted
  <2> QED BY <2>4, <2>5, <2>6, <2>7, <2>8 DEF Settled
<1>2. DOMAIN step' = StepId
  BY DEF RecoverInterrupted
<1>3. StepsOK' /\ NoncesKept
  BY <1>1, <1>2 DEF StepsOK, NoncesKept, ClaimSettles
<1>4. OpsOK'
  BY DEF RecoverInterrupted, LedgerOK, OpsOK, IsOp, OpStatus
<1>5. SlotsOK' /\ \A s \in StepId : slot[s].status # "none" => slot'[s].status # "none"
  BY DEF RecoverInterrupted, LedgerOK, SlotsOK, IsSlot, SlotStatus
<1> QED BY <1>3, <1>4, <1>5 DEF LedgerOK

(***************************************************************************)
(* Handlers and workers                                                    *)
(***************************************************************************)
\* What a move of one handler keeps.
HandsSafe == HandsOK' /\ HandsKept
RunsSafe == RunsOK' /\ WorkersKept /\ ToolsKept

LEMMA QuietHand ==
  ASSUME HandsOK, NEW h \in Handler, NEW x, IsHand(x), hand' = [hand EXCEPT ![h] = x],
         Quiet(hand[h], x)
  PROVE  HandsSafe
<1>1. HandsOK' /\ hand'[h] = x /\ \A k \in Handler \ {h} : hand'[k] = hand[k]
  BY SetHand
<1>2. \A k \in Handler \ {h} : Quiet(hand[k], hand'[k])
  BY <1>1 DEF Quiet
<1> QED BY <1>1, <1>2 DEF HandsSafe, HandsKept

LEMMA QuietRecords ==
  ASSUME NEW r
  PROVE  /\ Quiet(r, NoHand) /\ Quiet(r, Done)
         /\ \A s \in StepId : \A c : Quiet(r, AtTurn(s, c))
  BY NoHandIs, DoneIs, AtTurnIs DEF Quiet, Claiming, Sending

LEMMA ReleasedOK ==
  ASSUME LockOK, NEW h \in Handler, lock' = Released(h)
  PROVE  LockOK'
  BY DEF LockOK, Released

LEMMA LeaveSafe ==
  ASSUME HandsOK, LockOK, NEW h \in Handler, Leave(h)
  PROVE  HandsSafe /\ LockOK'
<1>1. PICK x \in {Done, NoHand} : hand' = [hand EXCEPT ![h] = x]
  BY DEF Leave
<1>2. IsHand(x) /\ Quiet(hand[h], x)
  BY NoHandIs, DoneIs, QuietRecords
<1> QED BY <1>1, <1>2, QuietHand, ReleasedOK DEF Leave

LEMMA ResumeSafe ==
  ASSUME HandsOK, LockOK, NEW h \in Handler, NEW o, NEW c, Resume(h, o, c)
  PROVE  HandsSafe /\ LockOK'
<1>1. PICK x : /\ hand' = [hand EXCEPT ![h] = x]
               /\ \/ x = Done \/ x = NoHand
                  \/ StepOf(o, c) \in StepId /\ x = AtTurn(StepOf(o, c), c)
  BY DEF Resume
<1>2. IsHand(x) /\ Quiet(hand[h], x)
  BY <1>1, NoHandIs, DoneIs, AtTurnIs, QuietRecords
<1> QED BY <1>1, <1>2, QuietHand, ReleasedOK DEF Resume

LEMMA GotoSafe ==
  ASSUME HandsOK, LockOK, NEW h \in Handler, NEW pc \in HandPc \ Claiming,
         hand[h].s \in StepId, Goto(h, pc)
  PROVE  HandsSafe /\ LockOK'
<1>1. PICK x : x = [hand[h] EXCEPT !.pc = pc]
  OBVIOUS
<1>2. IsHand(x) /\ x.pc = pc /\ x.nonce = hand[h].nonce /\ x.s = hand[h].s
  BY <1>1, HandPcIs DEF HandsOK
<1>3. Quiet(hand[h], x)
  BY <1>2 DEF Quiet, Claiming, Sending
<1>4. hand' = [hand EXCEPT ![h] = x]
  BY <1>1 DEF Goto
<1> QED BY <1>2, <1>3, <1>4, QuietHand DEF Goto, LockOK

\* A handler in the middle of something knows its step.
LEMMA BusyHand ==
  ASSUME HandsOK, NEW h \in Handler, hand[h].pc \notin {"idle", "done"}
  PROVE  hand[h].s \in StepId /\ hand[h].s[1] \in Op /\ IsHand(hand[h])
<1>1. hand[h].s \in StepId /\ IsHand(hand[h])
  BY DEF HandsOK, IsHand
<1> QED BY <1>1 DEF StepId

\* So does a worker.
LEMMA BusyRun ==
  ASSUME RunsOK, NEW j \in StepId, run[j].pc \in {"loaded", "running", "tool", "effected"}
  PROVE  Target(j) \in StepId /\ Target(j)[1] \in Op /\ Target(j)[1] = j[1]
         /\ run[j].ck.index \in Index /\ IsRun(run[j])
<1>1. run[j].ck.index \in Index /\ IsRun(run[j])
  BY DEF RunsOK, IsRun
<1> QED BY <1>1 DEF StepId, Target

\* A worker that stops, finishes or has not begun generating.
LEMMA QuietRun ==
  ASSUME RunsOK, NEW j \in StepId, NEW x, IsRun(x), run' = [run EXCEPT ![j] = x],
         x.pc \notin {"running", "tool", "effected"}
  PROVE  RunsSafe /\ ~Working(j)'
<1>1. RunsOK' /\ run'[j] = x /\ \A i \in StepId \ {j} : run'[i] = run[i]
  BY SetRun
<1> QED BY <1>1 DEF RunsSafe, WorkersKept, ToolsKept, Working

LEMMA FailJobOK ==
  ASSUME JobsOK, NEW j \in StepId, job' = FailJob(j)
  PROVE  JobsOK'
  BY SetJobStatus DEF FailJob, JobStatus, JobsOK

(***************************************************************************)
(* Steps that keep the inductive invariant for want of anything new        *)
(***************************************************************************)
SendInv == ClaimSettles /\ NonceHeld /\ NoncesDiffer /\ SendClaimed /\ AtMostOnceSend
WorkInv == WorkerOwnsStep /\ OneWorker
EffectInv == EffectSlot /\ SideEffectOnce

OwnedKept ==
  \A t \in StepId : step[t].status \in Generating /\ step[t].nonce = NoNonce
                      => step'[t].status \in Generating /\ step'[t].nonce = NoNonce

LEMMA SendQuiet ==
  ASSUME HandsOK, HandsOK', SendInv, NoncesKept, HandsKept, UNCHANGED sends
  PROVE  SendInv'
<1>1. \A h \in Handler : hand[h].pc \in Claiming => hand[h].s \in StepId
  BY DEF HandsOK, IsHand, Claiming, Sending
<1>2. \A h \in Handler : Quiet(hand[h], hand'[h])
  BY DEF HandsKept
<1>3. ClaimSettles'
  BY DEF SendInv, ClaimSettles, NoncesKept
<1>4. NonceHeld'
  BY <1>1, <1>2 DEF SendInv, NonceHeld, NoncesKept, Quiet, Claiming
<1>5. NoncesDiffer'
  BY <1>2 DEF SendInv, NoncesDiffer, Quiet
<1>6. SendClaimed'
  BY <1>1, <1>2 DEF SendInv, SendClaimed, NoncesKept, Quiet, Claiming, Sending
<1>7. AtMostOnceSend'
  BY DEF SendInv, AtMostOnceSend
<1> QED BY <1>3, <1>4, <1>5, <1>6, <1>7 DEF SendInv

LEMMA WorkQuiet ==
  ASSUME RunsOK, WorkInv, OwnedKept, WorkersKept
  PROVE  WorkInv'
<1>1. ASSUME NEW j \in StepId, Working(j)'
      PROVE  Working(j) /\ Target(j)' = Target(j) /\ Target(j) \in StepId
  <2>1. Working(j) /\ run'[j].ck = run[j].ck
    BY <1>1 DEF WorkersKept, Working
  <2>2. Target(j) \in StepId
    BY <2>1, BusyRun DEF Working
  <2> QED BY <2>1, <2>2 DEF Target
<1>2. WorkerOwnsStep'
  BY <1>1 DEF WorkInv, WorkerOwnsStep, OwnedKept, Generating
<1>3. OneWorker'
  BY <1>1 DEF WorkInv, OneWorker
<1> QED BY <1>2, <1>3 DEF WorkInv

LEMMA EffectQuiet ==
  ASSUME EffectInv, ToolsKept, UNCHANGED <<slot, effects>>
  PROVE  EffectInv'
<1>1. ASSUME NEW j \in StepId, run'[j].pc = "tool"
      PROVE  run[j].pc = "tool" /\ Target(j)' = Target(j)
  BY <1>1 DEF ToolsKept, Target
<1>2. EffectSlot'
  BY <1>1 DEF EffectInv, EffectSlot
<1>3. SideEffectOnce'
  BY DEF EffectInv, SideEffectOnce
<1> QED BY <1>2, <1>3 DEF EffectInv

LEMMA Parts ==
  IInv <=> /\ LedgerOK /\ JobsOK /\ RunsOK /\ HandsOK /\ LockOK /\ SendsOK /\ CountsOK
           /\ SendInv /\ WorkInv /\ EffectInv
  BY DEF IInv, TypeOK, LedgerOK, LockOK, SendInv, WorkInv, EffectInv

LEMMA Parts2 ==
  IInv' <=> /\ LedgerOK' /\ JobsOK' /\ RunsOK' /\ HandsOK' /\ LockOK' /\ SendsOK' /\ CountsOK'
            /\ SendInv' /\ WorkInv' /\ EffectInv'
  BY DEF IInv, TypeOK, LedgerOK, LockOK, SendInv, WorkInv, EffectInv

LEMMA Owned ==
  ASSUME NoncesKept, GeneratingKept
  PROVE  OwnedKept
  BY DEF NoncesKept, GeneratingKept, OwnedKept

LEMMA QuietStep ==
  ASSUME IInv, Safe, HandsSafe, RunsSafe, JobsOK', LockOK', CountsOK',
         UNCHANGED <<slot, sends, effects>>
  PROVE  IInv'
<1>1. SendInv'
  BY SendQuiet, Parts DEF Safe, HandsSafe
<1>2. WorkInv'
  BY WorkQuiet, Owned, Parts DEF Safe, RunsSafe
<1>3. EffectInv'
  BY EffectQuiet, Parts DEF RunsSafe
<1>4. SendsOK'
  BY Parts DEF SendsOK
<1> QED BY <1>1, <1>2, <1>3, <1>4, Parts2 DEF Safe, HandsSafe, RunsSafe

\* Tables an action does not touch.
LEMMA SameCounts ==
  ASSUME CountsOK, UNCHANGED <<effects, spent, faults>>
  PROVE  CountsOK'
  BY DEF CountsOK

LEMMA SameJob ==
  ASSUME JobsOK, UNCHANGED job
  PROVE  JobsOK'
  BY DEF JobsOK

(***************************************************************************)
(* Workers                                                                 *)
(***************************************************************************)
\* A worker that is not generating, or stops, without a change of the ledger's steps
\* other than a safe one.
LEMMA WorkerStep ==
  ASSUME IInv, Safe, RunsSafe, JobsOK', CountsOK', UNCHANGED <<hand, lock, slot, sends, effects>>
  PROVE  IInv'
<1>1. HandsSafe
  BY SameHand, Parts DEF HandsSafe
<1>2. LockOK'
  BY Parts DEF LockOK
<1> QED BY <1>1, <1>2, QuietStep

LEMMA StartInv ==
  ASSUME IInv, NEW j \in StepId, Start(j)
  PROVE  IInv'
<1>1. Safe
  BY SameLedger, Parts DEF Start, SendInv
<1>2. PICK x : /\ run' = [run EXCEPT ![j] = x]
               /\ \/ x = NoRun
                  \/ op[j[1]].cursor.index \in Index /\ x = Loaded(op[j[1]].cursor)
  BY DEF Start
<1>3. IsRun(x) /\ x.pc \in {"idle", "loaded"}
  BY <1>2, RunRecords, ZenonT(60)
<1>4. RunsSafe
  BY <1>2, <1>3, QuietRun, Parts
<1>5. JobsOK'
  BY Parts, SetJobStatus, SameJob DEF Start, JobStatus
<1>6. CountsOK'
  BY SameCounts, Parts DEF Start, history
<1> QED BY <1>1, <1>4, <1>5, <1>6, WorkerStep DEF Start, ledger, history

LEMMA OverdueInv ==
  ASSUME IInv, NEW j \in StepId, Overdue(j)
  PROVE  IInv'
<1>1. Safe
  BY SameLedger, Parts DEF Overdue, SendInv
<1>2. RunsSafe
  BY QuietRun, RunRecords, Parts DEF Overdue
<1>3. JobsOK'
  BY Parts, SetJobStatus DEF Overdue, JobStatus
<1>4. CountsOK'
  BY SameCounts, Parts DEF Overdue, history
<1> QED BY <1>1, <1>2, <1>3, <1>4, WorkerStep DEF Overdue, ledger, history

LEMMA ExhaustInv ==
  ASSUME IInv, NEW j \in StepId, Exhaust(j)
  PROVE  IInv'
<1>1. Target(j) \in StepId
  BY BusyRun, Parts DEF Exhaust
<1>2. Safe
  BY <1>1, PrepareExhaustedSafe, Parts DEF Exhaust, SendInv
<1>3. RunsSafe
  BY QuietRun, RunRecords, Parts DEF Exhaust
<1>4. JobsOK'
  BY FailJobOK, Parts DEF Exhaust
<1>5. CountsOK'
  BY SameCounts, Parts DEF Exhaust, history
<1> QED BY <1>2, <1>3, <1>4, <1>5, WorkerStep DEF Exhaust, PrepareExhausted, history

LEMMA AnswerInv ==
  ASSUME IInv, NEW j \in StepId, Answer(j)
  PROVE  IInv'
<1>1. Safe
  BY SameLedger, Parts DEF Answer, SendInv
<1>2. PICK b \in BOOLEAN : b = (step[Target(j)].status # "silent")
  OBVIOUS
<1>3. PICK x : /\ run' = [run EXCEPT ![j] = x]
               /\ x = NoRun \/ x = Finished(step[Target(j)].cursor, b)
  BY <1>2 DEF Answer
<1>4. IsRun(x) /\ x.pc \in {"idle", "stored"}
  BY <1>3, RunRecords
<1>5. RunsSafe
  BY <1>3, <1>4, QuietRun, Parts
<1>6. JobsOK'
  BY FailJobOK, SameJob, Parts DEF Answer
<1>7. CountsOK'
  BY SameCounts, Parts DEF Answer, history
<1> QED BY <1>1, <1>5, <1>6, <1>7, WorkerStep DEF Answer, ledger, history

LEMMA StoreResultInv ==
  ASSUME IInv, NEW j \in StepId, StoreResult(j)
  PROVE  IInv'
<1>1. Safe
  BY SameLedger, Parts DEF StoreResult, SendInv
<1>2. RunsSafe
  BY QuietRun, RunRecords, Parts DEF StoreResult
<1>3. run[j].required \in BOOLEAN
  BY Parts DEF RunsOK, IsRun
<1>4. JobsOK'
  BY <1>3, Parts DEF StoreResult, JobsOK, IsJob, JobStatus
<1>5. CountsOK'
  BY SameCounts, Parts DEF StoreResult, history
<1> QED BY <1>1, <1>2, <1>4, <1>5, WorkerStep DEF StoreResult, ledger, history

\* prepare_social_step admits one worker per step: nobody generates a step that is
\* new or failed.
LEMMA ExecuteInv ==
  ASSUME IInv, NEW j \in StepId, Execute(j)
  PROVE  IInv'
<1>1. Target(j) \in StepId /\ run[j].ck.index \in Index /\ IsRun(run[j])
  BY BusyRun, Parts DEF Execute
<1>2. /\ Safe /\ UNCHANGED slot
      /\ step[Target(j)].status \in {"none", "failed"}
      /\ step'[Target(j)].status = "generating" /\ step'[Target(j)].nonce = NoNonce
  BY <1>1, PrepareExecuteSafe, Parts DEF Execute, SendInv
<1>3. PICK x : x = [run[j] EXCEPT !.pc = "running"]
  OBVIOUS
<1>4. IsRun(x) /\ x.pc = "running" /\ x.ck = run[j].ck
  BY <1>1, <1>3, RunPcIs DEF RunPc
<1>5. RunsOK' /\ run'[j] = x /\ \A i \in StepId \ {j} : run'[i] = run[i]
  BY <1>3, <1>4, SetRun, Parts DEF Execute
<1>6. \A i \in StepId : Target(i)' = Target(i)
  BY <1>4, <1>5 DEF Target
<1>7. \A i \in StepId : Working(i) => Target(i) \in StepId /\ Target(i) # Target(j)
  BY <1>2, BusyRun, Parts DEF WorkInv, WorkerOwnsStep, Working
<1>8. \A i \in StepId \ {j} : Working(i)' => Working(i)
  BY <1>5 DEF Working
<1>9. WorkInv'
  <2>1. OwnedKept
    BY <1>2, Owned DEF Safe
  <2>2. WorkerOwnsStep'
    BY <1>2, <1>6, <1>7, <1>8, <2>1, Parts DEF WorkInv, WorkerOwnsStep, OwnedKept, Generating
  <2>3. OneWorker'
    BY <1>6, <1>7, <1>8, Parts DEF WorkInv, OneWorker
  <2> QED BY <2>2, <2>3 DEF WorkInv
<1>10. ToolsKept
  BY <1>4, <1>5 DEF ToolsKept
<1>11. EffectInv'
  BY <1>2, <1>10, EffectQuiet, Parts DEF Execute
<1>12. HandsOK' /\ HandsKept
  BY SameHand, Parts DEF Execute
<1>13. SendInv'
  BY <1>2, <1>12, SendQuiet, Parts DEF Safe, Execute
<1>14. JobsOK' /\ LockOK' /\ SendsOK'
  BY SameJob, Parts DEF Execute, LockOK, SendsOK
<1>15. CountsOK'
  BY Parts DEF Execute, CountsOK, StepId
<1> QED BY <1>2, <1>5, <1>9, <1>11, <1>12, <1>13, <1>14, <1>15, Parts2 DEF Safe

\* The worker of Target(j) is done with it, and nobody else generates it.
LEMMA WorkerEnds ==
  ASSUME RunsOK, WorkInv, NEW j \in StepId, Working(j), NoncesKept, OthersKept(Target(j)),
         WorkersKept, ~Working(j)'
  PROVE  WorkInv'
<1>1. ASSUME NEW i \in StepId, Working(i)'
      PROVE  /\ Working(i) /\ Target(i)' = Target(i)
             /\ Target(i) \in StepId \ {Target(j)}
  <2>1. Working(i) /\ run'[i].ck = run[i].ck /\ i # j
    BY <1>1 DEF WorkersKept, Working
  <2>2. Target(i) \in StepId
    BY <2>1, BusyRun DEF Working
  <2>3. Target(i) # Target(j)
    BY <2>1 DEF WorkInv, OneWorker
  <2> QED BY <2>1, <2>2, <2>3 DEF Target
<1>2. WorkerOwnsStep'
  BY <1>1 DEF WorkInv, WorkerOwnsStep, NoncesKept, OthersKept
<1>3. OneWorker'
  BY <1>1 DEF WorkInv, OneWorker
<1> QED BY <1>2, <1>3 DEF WorkInv

LEMMA RaiseInv ==
  ASSUME IInv, NEW j \in StepId, Raise(j)
  PROVE  IInv'
<1>1. Target(j) \in StepId
  BY BusyRun, Parts DEF Raise, Working
<1>2. step[Target(j)].nonce = NoNonce
  BY Parts DEF Raise, WorkInv, WorkerOwnsStep
<1>3. LedgerOK' /\ NoncesKept /\ OthersKept(Target(j)) /\ UNCHANGED slot
  BY <1>1, <1>2, FailSafe, Parts DEF Raise, SendInv
<1>4. RunsSafe /\ ~Working(j)'
  BY QuietRun, RunRecords, Parts DEF Raise
<1>5. WorkInv'
  BY <1>3, <1>4, WorkerEnds, Parts DEF Raise, RunsSafe
<1>6. EffectInv'
  BY <1>3, <1>4, EffectQuiet, Parts DEF Raise, RunsSafe, history
<1>7. HandsOK' /\ HandsKept
  BY SameHand, Parts DEF Raise
<1>8. SendInv'
  BY <1>3, <1>7, SendQuiet, Parts DEF Raise, history
<1>9. JobsOK'
  BY FailJobOK, Parts DEF Raise
<1>10. LockOK' /\ SendsOK' /\ CountsOK'
  BY SameCounts, Parts DEF Raise, LockOK, SendsOK, history
<1> QED BY <1>3, <1>4, <1>5, <1>6, <1>7, <1>8, <1>9, <1>10, Parts2 DEF RunsSafe

LEMMA GenerateInv ==
  ASSUME IInv, NEW j \in StepId, NEW visible \in BOOLEAN, NEW proposals,
         Generate(j, visible, proposals)
  PROVE  IInv'
<1>1. PICK c : /\ CompleteGeneration(Target(j), c, visible)
               /\ run' = [run EXCEPT ![j] = Finished(c, visible)]
  BY DEF Generate
<1>2. Working(j)
  BY DEF Generate, Working
<1>3. Target(j) \in StepId
  BY <1>2, BusyRun, Parts DEF Working
<1>4. step[Target(j)].nonce = NoNonce
  BY <1>2, Parts DEF WorkInv, WorkerOwnsStep
<1>5. LedgerOK' /\ NoncesKept /\ OthersKept(Target(j)) /\ UNCHANGED slot
  BY <1>1, <1>3, <1>4, CompleteSafe, Parts DEF SendInv
<1>6. RunsSafe /\ ~Working(j)'
  BY <1>1, QuietRun, RunRecords, Parts
<1>7. WorkInv'
  BY <1>2, <1>5, <1>6, WorkerEnds, Parts DEF RunsSafe
<1>8. EffectInv'
  BY <1>5, <1>6, EffectQuiet, Parts DEF Generate, RunsSafe, history
<1>9. HandsOK' /\ HandsKept
  BY SameHand, Parts DEF Generate
<1>10. SendInv'
  BY <1>5, <1>9, SendQuiet, Parts DEF Generate, history
<1>11. JobsOK'
  BY SameJob, Parts DEF Generate
<1>12. LockOK' /\ SendsOK' /\ CountsOK'
  BY SameCounts, Parts DEF Generate, LockOK, SendsOK, history
<1> QED BY <1>5, <1>6, <1>7, <1>8, <1>9, <1>10, <1>11, <1>12, Parts2 DEF RunsSafe

\* A worker and its side-effect slot.
LEMMA ToolStepKeeps ==
  ASSUME IInv, Safe, RunsOK', WorkersKept, EffectInv', CountsOK',
         UNCHANGED <<job, hand, lock, sends>>
  PROVE  IInv'
<1>1. WorkInv'
  BY WorkQuiet, Owned, Parts DEF Safe
<1>2. HandsOK' /\ HandsKept
  BY SameHand, Parts
<1>3. SendInv'
  BY <1>2, SendQuiet, Parts DEF Safe
<1>4. JobsOK' /\ LockOK' /\ SendsOK'
  BY SameJob, Parts DEF LockOK, SendsOK
<1> QED BY <1>1, <1>2, <1>3, <1>4, Parts2 DEF Safe

\* One worker moves on to x without leaving its step.
LEMMA WorkingOn ==
  ASSUME RunsOK, NEW j \in StepId, Working(j), NEW x, IsRun(x), x.ck = run[j].ck,
         run' = [run EXCEPT ![j] = x]
  PROVE  /\ RunsOK' /\ WorkersKept /\ run'[j] = x
         /\ \A i \in StepId \ {j} : run'[i] = run[i]
         /\ \A i \in StepId : Target(i)' = Target(i)
<1>1. RunsOK' /\ run'[j] = x /\ \A i \in StepId \ {j} : run'[i] = run[i]
  BY SetRun
<1> QED BY <1>1 DEF WorkersKept, Working, Target

LEMMA ClaimEffectInv ==
  ASSUME IInv, NEW j \in StepId, NEW c \in Call, ClaimEffect(j, c)
  PROVE  IInv'
<1>1. Working(j) /\ Target(j) \in StepId /\ run[j].ck.index \in Index /\ IsRun(run[j])
  BY BusyRun, Parts DEF ClaimEffect, Working
<1>2. Safe
  BY <1>1, ClaimSlotSafe, Parts DEF ClaimEffect, SendInv
<1>3. PICK x : x = ToolStep(run[j], "tool", c)
  OBVIOUS
<1>4. IsRun(x) /\ x.pc = "tool" /\ x.ck = run[j].ck
  BY <1>1, <1>3, ToolStepIs
<1>5. /\ RunsOK' /\ WorkersKept /\ run'[j] = x
      /\ \A i \in StepId \ {j} : run'[i] = run[i]
      /\ \A i \in StepId : Target(i)' = Target(i)
  BY <1>1, <1>3, <1>4, WorkingOn, Parts DEF ClaimEffect
<1>6. /\ slot[Target(j)].status = "none" /\ slot'[Target(j)].status = "claimed"
      /\ \A t \in StepId \ {Target(j)} : slot'[t] = slot[t]
      /\ UNCHANGED effects
  BY <1>1, Parts DEF ClaimEffect, ClaimSlot, LedgerOK, SlotsOK, history
<1>7. effects[Target(j)] = 0
  BY <1>1, <1>6, Parts DEF EffectInv, EffectSlot, CountsOK
<1>8. \A i \in StepId \ {j} : Working(i) => Target(i) \in StepId \ {Target(j)}
  BY <1>1, BusyRun, Parts DEF WorkInv, OneWorker, Working
<1>9. EffectSlot'
  <2>1. ASSUME NEW i \in StepId, run'[i].pc = "tool"
        PROVE  slot'[Target(i)].status = "claimed" /\ effects'[Target(i)] = 0
    <3>1. CASE i = j
      BY <3>1, <1>6, <1>7
    <3>2. CASE i # j
      BY <2>1, <3>2, <1>5, <1>6, <1>8, Parts DEF EffectInv, EffectSlot, Working
    <3> QED BY <3>1, <3>2
  <2>2. \A t \in StepId : effects'[t] > 0 => slot'[t].status # "none"
    BY <1>6, Parts DEF EffectInv, EffectSlot
  <2> QED BY <1>5, <2>1, <2>2 DEF EffectSlot
<1>10. EffectInv'
  BY <1>6, <1>9, Parts DEF EffectInv, SideEffectOnce
<1>11. CountsOK'
  BY SameCounts, Parts DEF ClaimEffect, history
<1> QED BY <1>2, <1>5, <1>10, <1>11, ToolStepKeeps DEF ClaimEffect, history

\* The mutation happens with the slot occupied and for the first time.
LEMMA PerformEffectInv ==
  ASSUME IInv, NEW j \in StepId, PerformEffect(j)
  PROVE  IInv'
<1>1. Working(j) /\ Target(j) \in StepId /\ run[j].ck.index \in Index /\ IsRun(run[j])
  BY BusyRun, Parts DEF PerformEffect, Working
<1>2. Safe
  BY SameLedger, Parts DEF PerformEffect, SendInv
<1>3. PICK x : x = [run[j] EXCEPT !.pc = "effected"]
  OBVIOUS
<1>4. IsRun(x) /\ x.pc = "effected" /\ x.ck = run[j].ck
  BY <1>1, <1>3, RunPcIs DEF RunPc
<1>5. /\ RunsOK' /\ WorkersKept /\ run'[j] = x
      /\ \A i \in StepId \ {j} : run'[i] = run[i]
      /\ \A i \in StepId : Target(i)' = Target(i)
  BY <1>1, <1>3, <1>4, WorkingOn, Parts DEF PerformEffect
<1>6. effects[Target(j)] = 0 /\ slot[Target(j)].status = "claimed"
  BY Parts DEF EffectInv, EffectSlot, PerformEffect
<1>7. /\ effects'[Target(j)] = 1 /\ UNCHANGED slot
      /\ \A t \in StepId \ {Target(j)} : effects'[t] = effects[t]
  BY <1>1, <1>6, Parts DEF PerformEffect, CountsOK, ledger
<1>8. \A i \in StepId \ {j} : Working(i) => Target(i) \in StepId \ {Target(j)}
  BY <1>1, BusyRun, Parts DEF WorkInv, OneWorker, Working
<1>9. EffectSlot'
  <2>1. ASSUME NEW i \in StepId, run'[i].pc = "tool"
        PROVE  slot'[Target(i)].status = "claimed" /\ effects'[Target(i)] = 0
    <3>1. i # j
      BY <2>1, <1>4, <1>5
    <3> QED BY <2>1, <3>1, <1>5, <1>7, <1>8, Parts DEF EffectInv, EffectSlot, Working
  <2>2. \A t \in StepId : effects'[t] > 0 => slot'[t].status # "none"
    BY <1>6, <1>7, Parts DEF EffectInv, EffectSlot
  <2> QED BY <1>5, <2>1, <2>2 DEF EffectSlot
<1>10. EffectInv'
  BY <1>7, <1>9, Parts DEF EffectInv, SideEffectOnce
<1>11. CountsOK'
  BY <1>1, Parts DEF PerformEffect, CountsOK
<1> QED BY <1>2, <1>5, <1>10, <1>11, ToolStepKeeps DEF PerformEffect

LEMMA RejectEffectInv ==
  ASSUME IInv, NEW j \in StepId, RejectEffect(j)
  PROVE  IInv'
<1>1. Working(j) /\ Target(j) \in StepId /\ run[j].ck.index \in Index /\ IsRun(run[j])
  BY BusyRun, Parts DEF RejectEffect, Working
<1>2. Safe
  BY <1>1, ReleaseSlotSafe, Parts DEF RejectEffect, SendInv
<1>3. PICK x : x = ToolStep(run[j], "running", NoCall)
  OBVIOUS
<1>4. IsRun(x) /\ x.pc = "running" /\ x.ck = run[j].ck
  BY <1>1, <1>3, ToolStepIs
<1>5. /\ RunsOK' /\ WorkersKept /\ run'[j] = x
      /\ \A i \in StepId \ {j} : run'[i] = run[i]
      /\ \A i \in StepId : Target(i)' = Target(i)
  BY <1>1, <1>3, <1>4, WorkingOn, Parts DEF RejectEffect
<1>6. effects[Target(j)] = 0
  BY Parts DEF EffectInv, EffectSlot, RejectEffect
<1>7. /\ UNCHANGED effects
      /\ \A t \in StepId \ {Target(j)} : slot'[t] = slot[t]
  BY <1>1, Parts DEF RejectEffect, ReleaseSlot, LedgerOK, SlotsOK, history
<1>8. \A i \in StepId \ {j} : Working(i) => Target(i) \in StepId \ {Target(j)}
  BY <1>1, BusyRun, Parts DEF WorkInv, OneWorker, Working
<1>9. EffectSlot'
  <2>1. ASSUME NEW i \in StepId, run'[i].pc = "tool"
        PROVE  slot'[Target(i)].status = "claimed" /\ effects'[Target(i)] = 0
    <3>1. i # j
      BY <2>1, <1>4, <1>5
    <3> QED BY <2>1, <3>1, <1>5, <1>7, <1>8, Parts DEF EffectInv, EffectSlot, Working
  <2>2. \A t \in StepId : effects'[t] > 0 => slot'[t].status # "none"
    BY <1>6, <1>7, Parts DEF EffectInv, EffectSlot
  <2> QED BY <1>5, <2>1, <2>2 DEF EffectSlot
<1>10. EffectInv'
  BY <1>7, <1>9, Parts DEF EffectInv, SideEffectOnce
<1>11. CountsOK'
  BY SameCounts, Parts DEF RejectEffect, history
<1> QED BY <1>2, <1>5, <1>10, <1>11, ToolStepKeeps DEF RejectEffect, history

LEMMA RecordEffectInv ==
  ASSUME IInv, NEW j \in StepId, RecordEffect(j)
  PROVE  IInv'
<1>1. Working(j) /\ Target(j) \in StepId /\ run[j].ck.index \in Index /\ IsRun(run[j])
  BY BusyRun, Parts DEF RecordEffect, Working
<1>2. Safe
  BY <1>1, CompleteSlotSafe, Parts DEF RecordEffect, SendInv
<1>3. PICK x : x = ToolStep(run[j], "running", NoCall)
  OBVIOUS
<1>4. IsRun(x) /\ x.pc = "running" /\ x.ck = run[j].ck
  BY <1>1, <1>3, ToolStepIs
<1>5. /\ RunsOK' /\ WorkersKept /\ run'[j] = x
      /\ \A i \in StepId \ {j} : run'[i] = run[i]
      /\ \A i \in StepId : Target(i)' = Target(i)
  BY <1>1, <1>3, <1>4, WorkingOn, Parts DEF RecordEffect
<1>6. /\ UNCHANGED effects
      /\ slot[Target(j)].status # "none" => slot'[Target(j)].status # "none"
      /\ \A t \in StepId \ {Target(j)} : slot'[t] = slot[t]
  BY <1>1, Parts DEF RecordEffect, CompleteSlot, LedgerOK, SlotsOK, IsSlot, history
<1>7. \A i \in StepId \ {j} : Working(i) => Target(i) \in StepId \ {Target(j)}
  BY <1>1, BusyRun, Parts DEF WorkInv, OneWorker, Working
<1>8. EffectSlot'
  <2>1. ASSUME NEW i \in StepId, run'[i].pc = "tool"
        PROVE  slot'[Target(i)].status = "claimed" /\ effects'[Target(i)] = 0
    <3>1. i # j
      BY <2>1, <1>4, <1>5
    <3> QED BY <2>1, <3>1, <1>5, <1>6, <1>7, Parts DEF EffectInv, EffectSlot, Working
  <2>2. \A t \in StepId : effects'[t] > 0 => slot'[t].status # "none"
    BY <1>6, Parts DEF EffectInv, EffectSlot
  <2> QED BY <1>5, <2>1, <2>2 DEF EffectSlot
<1>9. EffectInv'
  BY <1>6, <1>8, Parts DEF EffectInv, SideEffectOnce
<1>10. CountsOK'
  BY SameCounts, Parts DEF RecordEffect, history
<1> QED BY <1>2, <1>5, <1>9, <1>10, ToolStepKeeps DEF RecordEffect, history

(***************************************************************************)
(* Ends of jobs                                                            *)
(***************************************************************************)
LEMMA InterruptJobKeeps ==
  ASSUME IInv, NEW j \in StepId, NEW st \in JobStatus, InterruptJob(j, st)
  PROVE  Safe /\ JobsOK' /\ UNCHANGED slot
<1>1. JobsOK'
  BY SetJobStatus, Parts DEF InterruptJob
<1>2. j[1] \in Op
  BY DEF StepId
<1>3. Safe
  BY <1>2, InterruptSafe, SameLedger, Parts DEF InterruptJob, SendInv
<1> QED BY <1>1, <1>3 DEF InterruptJob, InterruptOperation, ledger

LEMMA JobEndInv ==
  ASSUME IInv, NEW j \in StepId, JobEnd(j)
  PROVE  IInv'
<1>1. CASE Kill(j)
  <2>1. Safe /\ JobsOK' /\ UNCHANGED slot
    BY <1>1, InterruptJobKeeps DEF Kill, JobStatus
  <2>2. RunsSafe
    BY <1>1, QuietRun, RunRecords, Parts DEF Kill
  <2>3. CountsOK'
    BY <1>1, SameCounts, Parts DEF Kill, history
  <2> QED BY <1>1, <2>1, <2>2, <2>3, WorkerStep DEF Kill, history
<1>2. CASE Expire(j) \/ CancelActive(j)
  <2>1. Safe /\ JobsOK' /\ UNCHANGED slot
    BY <1>2, InterruptJobKeeps DEF Expire, CancelActive, JobStatus
  <2>2. UNCHANGED <<run, hand, lock, sends, effects, spent, faults>>
    BY <1>2 DEF Expire, CancelActive, history
  <2>3. RunsSafe /\ CountsOK'
    BY <2>2, SameRun, SameCounts, Parts DEF RunsSafe
  <2> QED BY <2>1, <2>2, <2>3, WorkerStep
<1>3. CASE CancelFinished(j)
  <2>1. Safe /\ UNCHANGED slot
    BY <1>3, CancelGeneratedSafe, Parts DEF CancelFinished, CancelGeneratedDelivery, SendInv
  <2>2. JobsOK'
    <3>1. PICK r : r = NoJob
      OBVIOUS
    <3>2. PICK x : x = [r EXCEPT !.status = "cancelled"]
      OBVIOUS
    <3>3. IsJob(x)
      BY <3>1, <3>2 DEF IsJob, NoJob, JobStatus
    <3>4. job' = [job EXCEPT ![j] = x]
      BY <1>3, <3>1, <3>2 DEF CancelFinished
    <3> QED BY <3>3, <3>4, Parts DEF JobsOK
  <2>3. UNCHANGED <<run, hand, lock, sends, effects, spent, faults>>
    BY <1>3 DEF CancelFinished, history
  <2>4. RunsSafe /\ CountsOK'
    BY <2>3, SameRun, SameCounts, Parts DEF RunsSafe
  <2> QED BY <2>1, <2>2, <2>3, <2>4, WorkerStep
<1>4. CASE Forget(j)
  <2>1. Safe
    BY <1>4, SameLedger, Parts DEF Forget, SendInv
  <2>2. JobsOK'
    BY <1>4, Parts DEF Forget, JobsOK, NoJob, IsJob, JobStatus
  <2>3. UNCHANGED <<slot, run, hand, lock, sends, effects, spent>>
    BY <1>4 DEF Forget, ledger, history
  <2>4. RunsSafe
    BY <2>3, SameRun, Parts DEF RunsSafe
  <2>5. CountsOK'
    BY <1>4, <2>3, Parts DEF Forget, CountsOK
  <2> QED BY <2>1, <2>2, <2>3, <2>4, <2>5, WorkerStep
<1> QED BY <1>1, <1>2, <1>3, <1>4 DEF JobEnd

(***************************************************************************)
(* The social loop                                                         *)
(***************************************************************************)
\* A handler that takes no claim and sends nothing.
LEMMA HandlerStep ==
  ASSUME IInv, Safe, HandsSafe, LockOK', CountsOK', UNCHANGED <<job, run, slot, sends, effects>>
  PROVE  IInv'
<1>1. RunsSafe
  BY SameRun, Parts DEF RunsSafe
<1>2. JobsOK'
  BY SameJob, Parts
<1> QED BY <1>1, <1>2, QuietStep

\* The same, when the counters do not change either.
LEMMA PlainHandlerStep ==
  ASSUME IInv, Safe, HandsSafe, LockOK', UNCHANGED <<job, run, slot, history, faults>>
  PROVE  IInv'
<1>1. CountsOK'
  BY SameCounts, Parts DEF history
<1> QED BY <1>1, HandlerStep DEF history

LEMMA OpenInv ==
  ASSUME IInv, NEW h \in Handler, NEW o \in Op, Open(h, o)
  PROVE  IInv'
<1>1. Safe
  BY ClaimSocialOperationSafe, Parts DEF Open, SendInv
<1>2. HandsSafe /\ LockOK'
  BY ResumeSafe, LeaveSafe, Parts DEF Open
<1>3. CountsOK'
  BY Parts DEF Open, CountsOK, history
<1> QED BY <1>1, <1>2, <1>3, HandlerStep DEF Open, ClaimSocialOperation, history

LEMMA YieldInv ==
  ASSUME IInv, NEW h \in Handler, Yield(h)
  PROVE  IInv'
<1>1. hand[h].s[1] \in Op
  BY BusyHand, Parts DEF Yield, At
<1>2. Safe
  BY <1>1, CancelSocialTurnSafe, Parts DEF Yield, SendInv
<1>3. HandsSafe /\ LockOK'
  BY LeaveSafe, Parts DEF Yield
<1>4. UNCHANGED slot
  BY DEF Yield, CancelSocialTurn, ledger
<1> QED BY <1>2, <1>3, <1>4, PlainHandlerStep DEF Yield

LEMMA SubmitInv ==
  ASSUME IInv, NEW h \in Handler, Submit(h)
  PROVE  IInv'
<1>1. hand[h].s \in StepId
  BY BusyHand, Parts DEF Submit, At
<1>2. Safe
  BY SameLedger, Parts DEF Submit, SendInv
<1>3. HandsSafe /\ LockOK'
  BY <1>1, GotoSafe, Parts DEF Submit, HandPc, Claiming, Sending
<1>4. JobsOK'
  BY <1>1, SetJobStatus, SameJob, Parts DEF Submit, JobStatus
<1>5. RunsSafe
  <2>1. CASE UNCHANGED run
    BY <2>1, SameRun, Parts DEF RunsSafe
  <2>2. CASE run' = [run EXCEPT ![hand[h].s].pc = "queued"]
    <3>1. PICK x : x = [run[hand[h].s] EXCEPT !.pc = "queued"]
      OBVIOUS
    <3>2. IsRun(x) /\ x.pc = "queued"
      BY <1>1, <3>1, RunPcIs, Parts DEF RunsOK, RunPc
    <3>3. run' = [run EXCEPT ![hand[h].s] = x]
      BY <2>2, <3>1
    <3> QED BY <1>1, <3>2, <3>3, QuietRun, Parts
  <2> QED BY <2>1, <2>2 DEF Submit
<1>6. CountsOK'
  BY SameCounts, Parts DEF Submit, history
<1> QED BY <1>2, <1>3, <1>4, <1>5, <1>6, QuietStep DEF Submit, ledger, history

LEMMA ConsumeInv ==
  ASSUME IInv, NEW h \in Handler, Consume(h)
  PROVE  IInv'
<1>1. hand[h].s \in StepId /\ IsHand(hand[h])
  BY BusyHand, Parts DEF Consume, At
<1>2. Safe
  BY SameLedger, Parts DEF Consume, SendInv
<1>3. HandsSafe /\ LockOK'
  <2>1. CASE job[hand[h].s].required
    <3>1. PICK x : x = WithReply(hand[h], "lock", 0, job[hand[h].s].cursor)
      OBVIOUS
    <3>2. IsHand(x) /\ x.pc = "lock" /\ x.nonce = hand[h].nonce /\ x.s = hand[h].s
      BY <1>1, <3>1, WithReplyIs
    <3>3. Quiet(hand[h], x)
      BY <3>2 DEF Quiet, Claiming, Sending
    <3>4. hand' = [hand EXCEPT ![h] = x] /\ UNCHANGED lock
      BY <2>1, <3>1 DEF Consume
    <3> QED BY <3>2, <3>3, <3>4, QuietHand, Parts DEF LockOK
  <2>2. CASE ~job[hand[h].s].required
    BY <2>2, ResumeSafe, Parts DEF Consume
  <2> QED BY <2>1, <2>2
<1> QED BY <1>2, <1>3, PlainHandlerStep DEF Consume, ledger

LEMMA EndOfLoopInv ==
  ASSUME IInv, NEW h \in Handler, JobEnded(h) \/ GiveUp(h) \/ SaveRefused(h)
  PROVE  IInv'
<1>1. Leave(h) /\ UNCHANGED <<ledger, job, run, history, faults>>
  BY DEF JobEnded, GiveUp, SaveRefused
<1>2. Safe
  BY <1>1, SameLedger, Parts DEF SendInv
<1>3. HandsSafe /\ LockOK'
  BY <1>1, LeaveSafe, Parts
<1> QED BY <1>1, <1>2, <1>3, PlainHandlerStep DEF ledger

LEMMA AcquireInv ==
  ASSUME IInv, NEW h \in Handler, Acquire(h)
  PROVE  IInv'
<1>1. hand[h].s \in StepId /\ IsHand(hand[h])
  BY BusyHand, Parts DEF Acquire, At
<1>2. Safe
  BY SameLedger, Parts DEF Acquire, SendInv
<1>3. PICK x : x = [hand[h] EXCEPT !.pc = "preflight"]
  OBVIOUS
<1>4. IsHand(x) /\ x.pc = "preflight" /\ x.nonce = hand[h].nonce /\ x.s = hand[h].s
  BY <1>1, <1>3, HandPcIs DEF HandPc
<1>5. Quiet(hand[h], x)
  BY <1>4 DEF Quiet, Claiming, Sending
<1>6. HandsSafe
  BY <1>3, <1>4, <1>5, QuietHand, Parts DEF Acquire
<1>7. LockOK'
  BY Parts DEF Acquire, LockOK
<1> QED BY <1>2, <1>6, <1>7, PlainHandlerStep DEF Acquire, ledger

LEMMA PreflightInv ==
  ASSUME IInv, NEW h \in Handler, Preflight(h)
  PROVE  IInv'
<1>1. hand[h].s \in StepId
  BY BusyHand, Parts DEF Preflight, At
<1>2. Safe /\ UNCHANGED slot
  BY <1>1, PreflightReserveSafe, SameLedger, Parts
     DEF Preflight, PreflightReserve, SendInv, ledger
<1>3. HandsSafe /\ LockOK'
  BY <1>1, GotoSafe, LeaveSafe, Parts DEF Preflight, HandPc, Claiming, Sending
<1> QED BY <1>2, <1>3, PlainHandlerStep DEF Preflight

LEMMA SaveKeepInv ==
  ASSUME IInv, NEW h \in Handler, NEW refreshed \in BOOLEAN, SaveKeep(h, refreshed)
  PROVE  IInv'
<1>1. hand[h].s \in StepId /\ IsHand(hand[h])
  BY BusyHand, Parts DEF SaveKeep
<1>2. Safe /\ UNCHANGED slot
  BY <1>1, PreflightKeepSafe, Parts DEF SaveKeep, PreflightKeep, SendInv
<1>3. step'[hand[h].s].text \in {0, 1}
  BY <1>1, <1>2 DEF Safe, LedgerOK, StepsOK, IsStep
<1>4. PICK y : y = WithReply(hand[h], "claim", step'[hand[h].s].text, step'[hand[h].s].cursor)
  OBVIOUS
<1>5. IsHand(y) /\ y.pc = "claim" /\ y.nonce = hand[h].nonce /\ y.s = hand[h].s
  BY <1>1, <1>3, <1>4, WithReplyIs
<1>6. PICK x \in {y, NoHand} : hand' = [hand EXCEPT ![h] = x]
  BY <1>4 DEF SaveKeep
<1>7. IsHand(x) /\ Quiet(hand[h], x)
  BY <1>5, NoHandIs, QuietRecords DEF Quiet, Claiming, Sending
<1>8. HandsSafe /\ LockOK'
  BY <1>6, <1>7, QuietHand, Parts DEF SaveKeep, LockOK
<1> QED BY <1>2, <1>8, PlainHandlerStep DEF SaveKeep

LEMMA SaveSilenceInv ==
  ASSUME IInv, NEW h \in Handler, SaveSilence(h)
  PROVE  IInv'
<1>1. hand[h].s \in StepId /\ IsHand(hand[h])
  BY BusyHand, Parts DEF SaveSilence
<1>2. Safe /\ UNCHANGED slot
  BY <1>1, PreflightSilenceSafe, Parts DEF SaveSilence, PreflightSilence, SendInv
<1>3. PICK y : y = [hand[h] EXCEPT !.pc = "reload"]
  OBVIOUS
<1>4. IsHand(y) /\ y.pc = "reload" /\ y.nonce = hand[h].nonce /\ y.s = hand[h].s
  BY <1>1, <1>3, HandPcIs DEF HandPc
<1>5. PICK x \in {y, NoHand} : hand' = [hand EXCEPT ![h] = x]
  BY <1>3 DEF SaveSilence
<1>6. IsHand(x) /\ Quiet(hand[h], x)
  BY <1>4, NoHandIs, QuietRecords DEF Quiet, Claiming, Sending
<1>7. HandsSafe /\ LockOK'
  BY <1>5, <1>6, QuietHand, Parts DEF SaveSilence, LockOK
<1> QED BY <1>2, <1>7, PlainHandlerStep DEF SaveSilence

LEMMA ReloadInv ==
  ASSUME IInv, NEW h \in Handler, Reload(h)
  PROVE  IInv'
<1>1. Safe
  BY SameLedger, Parts DEF Reload, SendInv
<1>2. HandsSafe /\ LockOK'
  BY ResumeSafe, Parts DEF Reload
<1> QED BY <1>1, <1>2, PlainHandlerStep DEF Reload, ledger

LEMMA LoseCounts ==
  ASSUME CountsOK, Lose \/ Crash, UNCHANGED <<effects, spent>>
  PROVE  CountsOK'
  BY DEF CountsOK, Lose, Crash

LEMMA RecheckInv ==
  ASSUME IInv, NEW h \in Handler, Recheck(h)
  PROVE  IInv'
<1>1. hand[h].s \in StepId
  BY BusyHand, Parts DEF Recheck, At
<1>2. Safe
  BY SameLedger, Parts DEF Recheck, SendInv
<1>3. HandsSafe /\ LockOK'
  BY <1>1, GotoSafe, Parts DEF Recheck, HandPc, Claiming, Sending
<1>4. CountsOK'
  BY LoseCounts, Parts DEF Recheck, history
<1> QED BY <1>2, <1>3, <1>4, HandlerStep DEF Recheck, ledger, history

LEMMA ClaimElseKeeps ==
  ASSUME IInv, NEW h \in Handler, NEW n, hand[h].s \in StepId, ClaimElse(h, n)
  PROVE  Safe /\ HandsSafe /\ LockOK' /\ UNCHANGED slot
<1>1. CASE ClaimConflict(hand[h].s, n) /\ Leave(h)
  BY <1>1, ClaimConflictSafe, LeaveSafe, Parts DEF SendInv, ClaimConflict
<1>2. CASE UNCHANGED ledger /\ Leave(h)
  BY <1>2, SameLedger, LeaveSafe, Parts DEF SendInv, ledger
<1>3. CASE /\ hand' = [hand EXCEPT ![h] = IF hand[h].alive THEN WithClaim(@, "reload", NoNonce, 0)
                                           ELSE NoHand]
           /\ UNCHANGED <<lock, ledger>>
  <2>1. PICK y : y = WithClaim(hand[h], "reload", NoNonce, 0)
    OBVIOUS
  <2>2. IsHand(y) /\ y.pc = "reload" /\ y.nonce = NoNonce
    BY <2>1, WithClaimIs, Parts DEF HandsOK
  <2>3. PICK x \in {y, NoHand} : hand' = [hand EXCEPT ![h] = x]
    BY <1>3, <2>1
  <2>4. IsHand(x) /\ Quiet(hand[h], x)
    BY <2>2, NoHandIs, QuietRecords DEF Quiet, Claiming, Sending
  <2>5. HandsSafe /\ LockOK'
    BY <1>3, <2>3, <2>4, QuietHand, Parts DEF LockOK
  <2>6. Safe
    BY <1>3, SameLedger, Parts DEF SendInv
  <2> QED BY <1>3, <2>5, <2>6 DEF ledger
<1> QED BY <1>1, <1>2, <1>3 DEF ClaimElse

\* A new nonce is nobody else's.
LEMMA ClaimInv ==
  ASSUME IInv, NEW h \in Handler, NEW n \in Nonce, Claim(h, n)
  PROVE  IInv'
<1> DEFINE s == hand[h].s
<1>1. s \in StepId /\ IsHand(hand[h]) /\ n # NoNonce
  BY BusyHand, LedgerAssumption, Parts DEF Claim, At
<1>2. CASE ClaimElse(h, n)
  BY <1>1, <1>2, ClaimElseKeeps, PlainHandlerStep DEF Claim
<1>3. CASE Leave(h) /\ UNCHANGED ledger
  <2>1. Safe /\ HandsSafe /\ LockOK'
    BY <1>3, SameLedger, LeaveSafe, Parts DEF SendInv
  <2> QED BY <1>3, <2>1, PlainHandlerStep DEF Claim, ledger
<1>4. CASE /\ hand' = [hand EXCEPT ![h] = WithClaim(@, "cas", n, step[s].draft)]
           /\ UNCHANGED <<lock, ledger>>
  <2>1. PICK x : x = WithClaim(hand[h], "cas", n, step[s].draft)
    OBVIOUS
  <2>2. step[s].draft \in Nat
    BY <1>1, Parts DEF LedgerOK, StepsOK, IsStep
  <2>3. IsHand(x) /\ x.pc = "cas" /\ x.nonce = n /\ x.s = s
    BY <1>1, <2>1, <2>2, WithClaimIs
  <2>4. HandsOK' /\ hand'[h] = x /\ \A k \in Handler \ {h} : hand'[k] = hand[k]
    BY <1>4, <2>1, <2>3, SetHand, Parts
  <2>5. Safe /\ UNCHANGED <<op, step, slot>>
    BY <1>4, SameLedger, Parts DEF SendInv, ledger
  <2>6. \A k \in Handler : hand[k].s = s => hand[k].nonce # n
    BY DEF Claim, Fresh
  <2>7. ClaimSettles' /\ AtMostOnceSend'
    BY <2>5, Parts DEF SendInv, ClaimSettles, AtMostOnceSend, Claim, history
  <2>8. NonceHeld'
    BY <1>1, <2>3, <2>4, <2>5, Parts DEF SendInv, NonceHeld, Claiming, Sending
  <2>9. NoncesDiffer'
    BY <2>3, <2>4, <2>6, Parts DEF SendInv, NoncesDiffer
  <2>10. SendClaimed'
    BY <2>3, <2>4, <2>5, Parts DEF SendInv, SendClaimed, Claim, history
  <2>11. RunsSafe /\ JobsOK' /\ LockOK' /\ SendsOK' /\ CountsOK'
    BY <1>4, SameRun, SameJob, SameCounts, Parts DEF Claim, RunsSafe, LockOK, SendsOK, history
  <2>12. WorkInv'
    BY <2>5, <2>11, WorkQuiet, Owned, Parts DEF Safe, RunsSafe
  <2>13. EffectInv'
    BY <2>5, <2>11, EffectQuiet, Parts DEF RunsSafe, Claim, history
  <2> QED BY <2>4, <2>5, <2>7, <2>8, <2>9, <2>10, <2>11, <2>12, <2>13, Parts2
             DEF Safe, RunsSafe, SendInv
<1> QED BY <1>2, <1>3, <1>4 DEF Claim

\* The conditional write grants a step that was never claimed, hence never sent, and
\* that no worker and no sending handler has.
LEMMA CompareAndSetInv ==
  ASSUME IInv, NEW h \in Handler, CompareAndSet(h)
  PROVE  IInv'
<1> DEFINE s == hand[h].s
<1> DEFINE n == hand[h].nonce
<1>1. s \in StepId /\ IsHand(hand[h]) /\ hand[h].pc = "cas"
  BY BusyHand, Parts DEF CompareAndSet
<1>2. n \in Nonce /\ n # NoNonce
  BY <1>1, Parts DEF SendInv, NonceHeld, Claiming, IsHand
<1>3. CASE ClaimElse(h, n)
  BY <1>1, <1>3, ClaimElseKeeps, PlainHandlerStep DEF CompareAndSet
<1>4. CASE Leave(h) /\ UNCHANGED ledger
  <2>1. Safe /\ HandsSafe /\ LockOK'
    BY <1>4, SameLedger, LeaveSafe, Parts DEF SendInv
  <2> QED BY <1>4, <2>1, PlainHandlerStep DEF CompareAndSet, ledger
<1>5. CASE /\ ClaimGrant(s, n, hand[h].seen)
           /\ hand' = [hand EXCEPT ![h] = IF hand[h].alive THEN WithClaim(@, "send", n, 0)
                                          ELSE NoHand]
           /\ UNCHANGED lock
  <2>1. PICK y : y = WithClaim(hand[h], "send", n, 0)
    OBVIOUS
  <2>2. IsHand(y) /\ y.pc = "send" /\ y.nonce = n /\ y.s = s
    BY <1>1, <1>2, <2>1, WithClaimIs
  <2>3. PICK x \in {y, NoHand} : hand' = [hand EXCEPT ![h] = x]
    BY <1>5, <2>1
  <2>4. HandsOK' /\ hand'[h] = x /\ \A k \in Handler \ {h} : hand'[k] = hand[k]
    BY <2>2, <2>3, NoHandIs, SetHand, Parts
  <2>5. \/ x.pc = "send" /\ x.nonce = n /\ x.s = s
        \/ x.pc = "idle" /\ x.nonce = NoNonce
    BY <2>2, NoHandIs
  <2>6. /\ LedgerOK' /\ UNCHANGED slot
        /\ step[s].nonce = NoNonce /\ step[s].status = "generated"
        /\ step'[s].nonce = n /\ step'[s].status = "delivery_claimed"
        /\ \A t \in StepId \ {s} : step'[t] = step[t]
    BY <1>1, <1>2, <1>5, GrantSafe, Parts DEF SendInv
  <2>7. UNCHANGED <<job, run, sends, effects, spent, faults>>
    BY DEF CompareAndSet, history
  <2>8. sends[s] = << >>
    BY <1>1, <2>6, Parts DEF SendInv, SendClaimed
  <2>9. \A k \in Handler : hand[k].pc \in Sending => hand[k].s \in StepId \ {s}
    <3>1. \A k \in Handler : hand[k].pc \in Sending => hand[k].s \in StepId
      BY Parts DEF HandsOK, IsHand, Sending
    <3> QED BY <2>6, <3>1, Parts DEF SendInv, NonceHeld, Claiming
  <2>10. ClaimSettles' /\ AtMostOnceSend'
    BY <2>6, <2>7, Parts DEF SendInv, ClaimSettles, AtMostOnceSend, Settled
  <2>11. NonceHeld'
    <3>1. ASSUME NEW k \in Handler
          PROVE  /\ hand'[k].pc \in Claiming => hand'[k].nonce # NoNonce
                 /\ hand'[k].pc \in Sending => step'[hand'[k].s].nonce = hand'[k].nonce
      <4>1. CASE k = h
        BY <4>1, <1>2, <2>4, <2>5, <2>6 DEF Claiming, Sending
      <4>2. CASE k # h
        BY <4>2, <2>4, <2>6, <2>9, Parts DEF SendInv, NonceHeld
      <4> QED BY <4>1, <4>2
    <3> QED BY <3>1 DEF NonceHeld
  <2>12. NoncesDiffer'
    BY <2>4, <2>5, Parts DEF SendInv, NoncesDiffer
  <2>13. SendClaimed'
    <3>1. \A t \in StepId : sends'[t] # << >> => step'[t].nonce # NoNonce
      BY <1>2, <2>6, <2>7, Parts DEF SendInv, SendClaimed
    <3>2. \A k \in Handler : hand'[k].pc = "send" => sends'[hand'[k].s] = << >>
      BY <2>4, <2>5, <2>7, <2>8, Parts DEF SendInv, SendClaimed
    <3> QED BY <3>1, <3>2 DEF SendClaimed
  <2>14. RunsSafe /\ JobsOK' /\ LockOK' /\ SendsOK' /\ CountsOK'
    BY <1>5, <2>7, SameRun, SameJob, SameCounts, Parts DEF RunsSafe, LockOK, SendsOK
  <2>15. OwnedKept
    BY <1>1, <2>6 DEF OwnedKept, Generating
  <2>16. WorkInv'
    BY <2>14, <2>15, WorkQuiet, Parts DEF RunsSafe
  <2>17. EffectInv'
    BY <2>6, <2>7, <2>14, EffectQuiet, Parts DEF RunsSafe
  <2> QED BY <2>4, <2>6, <2>10, <2>11, <2>12, <2>13, <2>14, <2>16, <2>17, Parts2
             DEF RunsSafe, SendInv
<1> QED BY <1>3, <1>4, <1>5 DEF CompareAndSet

LEMMA AppendOK ==
  ASSUME NEW S, NEW f \in [StepId -> Seq(S)], NEW s \in StepId, NEW m \in S,
         NEW g, g = [f EXCEPT ![s] = Append(@, m)]
  PROVE  g \in [StepId -> Seq(S)]
  OBVIOUS

\* A send is the first of its step, by the one handler that holds the claim.
LEMMA SendingInv ==
  ASSUME IInv, NEW h \in Handler, At(h, "send"), NEW pc \in {"ack", "report"},
         NEW ids \in SUBSET Part, NEW applied \in BOOLEAN,
         sends' = Sent(h, ids) \/ UNCHANGED sends,
         hand' = [hand EXCEPT ![h] = WithOutcome(@, pc, ids, applied)],
         UNCHANGED <<ledger, job, run, lock, effects, spent, faults>>
  PROVE  IInv'
<1> DEFINE s == hand[h].s
<1> DEFINE n == hand[h].nonce
<1>1. s \in StepId /\ IsHand(hand[h]) /\ hand[h].pc = "send"
  BY BusyHand, Parts DEF At
<1>2. PICK x : x = WithOutcome(hand[h], pc, ids, applied)
  OBVIOUS
<1>3. IsHand(x) /\ x.pc = pc /\ x.nonce = n /\ x.s = s
  BY <1>1, <1>2, WithOutcomeIs
<1>4. HandsOK' /\ hand'[h] = x /\ \A k \in Handler \ {h} : hand'[k] = hand[k]
  BY <1>2, <1>3, SetHand, Parts
<1>5. HandsKept
  BY <1>1, <1>3, <1>4 DEF HandsKept, Quiet, Claiming, Sending
<1>6. Safe
  BY SameLedger, Parts DEF SendInv
<1>7. RunsSafe /\ JobsOK' /\ LockOK' /\ CountsOK'
  BY SameRun, SameJob, SameCounts, Parts DEF RunsSafe, LockOK
<1>8. WorkInv'
  BY <1>6, <1>7, WorkQuiet, Owned, Parts DEF Safe, RunsSafe
<1>9. EffectInv'
  BY <1>7, EffectQuiet, Parts DEF RunsSafe, ledger
<1>10. CASE UNCHANGED sends
  BY <1>4, <1>5, <1>6, <1>7, <1>10, HandlerStep DEF HandsSafe, ledger
<1>11. CASE sends' = Sent(h, ids)
  <2>1. PICK m : m = [nonce |-> n, text |-> hand[h].text, ids |-> ids]
    OBVIOUS
  <2>2. n # NoNonce /\ step[s].nonce = n /\ sends[s] = << >>
    BY <1>1, Parts DEF SendInv, NonceHeld, SendClaimed, Claiming, Sending
  <2>3. m \in [nonce : Nonce, text : {0, 1}, ids : SUBSET Part]
    BY <1>1, <2>1, <2>2 DEF IsHand
  <2>4. sends' = [sends EXCEPT ![s] = Append(@, m)]
    BY <1>11, <2>1 DEF Sent
  <2>5. SendsOK'
    BY <1>1, <2>3, <2>4, AppendOK, Parts DEF SendsOK
  <2>6. sends'[s] = <<m>> /\ \A t \in StepId \ {s} : sends'[t] = sends[t]
    BY <1>1, <2>2, <2>4, Parts DEF SendsOK
  <2>7. \A k \in Handler \ {h} : hand[k].pc = "send" => hand[k].s # s
    BY <1>1, <2>2, Parts DEF SendInv, NonceHeld, NoncesDiffer, Claiming, Sending
  <2>8. AtMostOnceSend'
    <3>1. Len(sends'[s]) <= 1
      BY <2>6
    <3>2. \A t \in StepId \ {s} : Len(sends'[t]) <= 1
      BY <2>6, Parts DEF SendInv, AtMostOnceSend
    <3>3. \A t \in StepId : Len(sends'[t]) <= 1
      BY <3>1, <3>2
    <3> QED BY <3>3 DEF AtMostOnceSend
  <2>9. SendClaimed'
    <3>1. \A t \in StepId : sends'[t] # << >> => step'[t].nonce # NoNonce
      BY <2>2, <2>6, Parts DEF SendInv, SendClaimed, ledger
    <3>2. \A k \in Handler : hand'[k].pc = "send" => /\ hand'[k].s \in StepId \ {s}
                                                     /\ hand'[k] = hand[k]
      BY <1>3, <1>4, <2>7, Parts DEF HandsOK, IsHand
    <3>3. \A k \in Handler : hand'[k].pc = "send" => sends'[hand'[k].s] = << >>
      BY <2>6, <3>2, Parts DEF SendInv, SendClaimed
    <3> QED BY <3>1, <3>3 DEF SendClaimed
  <2>10. ClaimSettles'
    BY Parts DEF SendInv, ClaimSettles, ledger
  <2>11. NonceHeld'
    BY <1>1, <1>3, <1>4, <2>2, Parts DEF SendInv, NonceHeld, Claiming, Sending, ledger
  <2>12. NoncesDiffer'
    BY <1>3, <1>4, Parts DEF SendInv, NoncesDiffer
  <2> QED BY <1>4, <1>6, <1>7, <1>8, <1>9, <2>5, <2>8, <2>9, <2>10, <2>11, <2>12, Parts2
             DEF Safe, RunsSafe, SendInv
<1> QED BY <1>10, <1>11

LEMMA SendOkInv ==
  ASSUME IInv, NEW h \in Handler, NEW ids, NEW applied \in BOOLEAN, SendOk(h, ids, applied)
  PROVE  IInv'
<1>1. ids \in SUBSET Part
  BY DEF SendOk
<1> QED BY <1>1, SendingInv DEF SendOk

LEMMA SendFailsInv ==
  ASSUME IInv, NEW h \in Handler, NEW ids \in SUBSET Part, SendFails(h, ids)
  PROVE  IInv'
  BY SendingInv DEF SendFails

\* A handler that stops being sure of its delivery keeps what it holds.
LEMMA UnconfirmedSafe ==
  ASSUME HandsOK, LockOK, NEW h \in Handler, hand[h].pc = "ack", Unconfirmed(h), UNCHANGED lock
  PROVE  HandsSafe /\ LockOK'
<1>1. PICK x : x = WithOutcome(hand[h], "report", {}, FALSE)
  OBVIOUS
<1>2. IsHand(hand[h]) /\ hand[h].s \in StepId
  BY BusyHand
<1>3. IsHand(x) /\ x.pc = "report" /\ x.nonce = hand[h].nonce /\ x.s = hand[h].s
  BY <1>1, <1>2 DEF IsHand, WithOutcome, HandPc
<1>4. Quiet(hand[h], x)
  BY <1>3 DEF Quiet, Claiming, Sending
<1>5. hand' = [hand EXCEPT ![h] = x]
  BY <1>1 DEF Unconfirmed
<1> QED BY <1>3, <1>4, <1>5, QuietHand DEF LockOK

LEMMA AcknowledgeInv ==
  ASSUME IInv, NEW h \in Handler, Acknowledge(h)
  PROVE  IInv'
<1> DEFINE r == hand[h]
<1>1. r.s \in StepId /\ r.ids \in SUBSET Part /\ r.applied \in BOOLEAN /\ r.pc = "ack"
  BY BusyHand, Parts DEF Acknowledge, At, IsHand
<1>2. CASE /\ AcknowledgeDelivery(r.s, r.nonce, r.cursor, r.ids, r.applied)
           /\ Resume(h, r.s[1], op'[r.s[1]].cursor)
  <2>1. Safe
    BY <1>1, <1>2, AcknowledgeSafe, Parts DEF SendInv
  <2>3. UNCHANGED slot
    BY <1>2 DEF AcknowledgeDelivery
  <2>2. HandsSafe /\ LockOK'
    BY <1>2, ResumeSafe, Parts
  <2> QED BY <2>1, <2>2, <2>3, PlainHandlerStep DEF Acknowledge
<1>3. CASE UNCHANGED ledger /\ Resume(h, r.s[1], op[r.s[1]].cursor)
  <2>1. Safe
    BY <1>3, SameLedger, Parts DEF SendInv
  <2>2. HandsSafe /\ LockOK'
    BY <1>3, ResumeSafe, Parts
  <2> QED BY <1>3, <2>1, <2>2, PlainHandlerStep DEF Acknowledge, ledger
<1>4. CASE Unconfirmed(h) /\ UNCHANGED <<lock, ledger>>
  <2>1. Safe
    BY <1>4, SameLedger, Parts DEF SendInv
  <2>2. HandsSafe /\ LockOK'
    BY <1>1, <1>4, UnconfirmedSafe, Parts
  <2> QED BY <1>4, <2>1, <2>2, PlainHandlerStep DEF Acknowledge, ledger
<1> QED BY <1>2, <1>3, <1>4 DEF Acknowledge

LEMMA ReportInv ==
  ASSUME IInv, NEW h \in Handler, Report(h)
  PROVE  IInv'
<1>1. hand[h].s \in StepId /\ hand[h].ids \in SUBSET Part
  BY BusyHand, Parts DEF Report, At, IsHand
<1>2. Safe
  BY <1>1, MarkUncertainSafe, Parts DEF Report, SendInv
<1>3. HandsSafe /\ LockOK'
  BY LeaveSafe, Parts DEF Report
<1>4. UNCHANGED slot
  BY DEF Report, MarkDeliveryUncertain, ledger
<1> QED BY <1>2, <1>3, <1>4, PlainHandlerStep DEF Report

(***************************************************************************)
(* Faults and the offline recovery                                         *)
(***************************************************************************)
LEMMA RequestLostInv ==
  ASSUME IInv, NEW h \in Handler, RequestLost(h)
  PROVE  IInv'
<1>1. Safe
  BY SameLedger, Parts DEF RequestLost, SendInv
<1>2. HandsSafe /\ LockOK'
  BY LeaveSafe, Parts DEF RequestLost
<1>3. CountsOK'
  BY LoseCounts, Parts DEF RequestLost, history
<1> QED BY <1>1, <1>2, <1>3, HandlerStep DEF RequestLost, ledger, history

\* A request whose caller is gone is the same request.
LEMMA QuietOrphan ==
  ASSUME NEW r, IsHand(r), NEW x, x = [r EXCEPT !.alive = FALSE]
  PROVE  IsHand(x) /\ Quiet(r, x)
  BY OrphanIs DEF Quiet

LEMMA ResponseLostInv ==
  ASSUME IInv, NEW h \in Handler, ResponseLost(h)
  PROVE  IInv'
<1>1. Safe
  BY SameLedger, Parts DEF ResponseLost, SendInv
<1>2. PICK x : x = [hand[h] EXCEPT !.alive = FALSE]
  OBVIOUS
<1>3. IsHand(x) /\ Quiet(hand[h], x)
  BY <1>2, QuietOrphan, Parts DEF HandsOK
<1>4. HandsSafe
  BY <1>2, <1>3, QuietHand, Parts DEF ResponseLost
<1>5. LockOK'
  BY ReleasedOK, Parts DEF ResponseLost
<1>6. CountsOK'
  BY LoseCounts, Parts DEF ResponseLost, history
<1> QED BY <1>1, <1>4, <1>5, <1>6, HandlerStep DEF ResponseLost, ledger, history

LEMMA AckLostInv ==
  ASSUME IInv, NEW h \in Handler, AckLost(h)
  PROVE  IInv'
<1> DEFINE r == hand[h]
<1>0. r.pc = "ack"
  BY DEF AckLost, At
<1>1. r.s \in StepId /\ r.ids \in SUBSET Part /\ r.applied \in BOOLEAN /\ r.pc = "ack"
  BY <1>0, BusyHand, Parts DEF IsHand
<1>2. Safe /\ UNCHANGED slot
  <2>1. CASE UNCHANGED ledger
    BY <2>1, SameLedger, Parts DEF SendInv, ledger
  <2>2. CASE AcknowledgeDelivery(r.s, r.nonce, r.cursor, r.ids, r.applied)
    <3>1. Safe
      BY <1>1, <2>2, AcknowledgeSafe, Parts DEF SendInv
    <3>2. UNCHANGED slot
      BY <2>2 DEF AcknowledgeDelivery
    <3> QED BY <3>1, <3>2
  <2> QED BY <2>1, <2>2 DEF AckLost
<1>3. HandsSafe /\ LockOK'
  BY <1>1, UnconfirmedSafe, Parts DEF AckLost
<1>4. CountsOK'
  BY LoseCounts, Parts DEF AckLost, history
<1> QED BY <1>2, <1>3, <1>4, HandlerStep DEF AckLost, history

\* Every handler's record at once.
LEMMA QuietHands ==
  ASSUME DOMAIN hand' = Handler, \A h \in Handler : IsHand(hand'[h]) /\ Quiet(hand[h], hand'[h])
  PROVE  HandsSafe
  BY DEF HandsSafe, HandsOK, HandsKept

LEMMA ConnectorCrashInv ==
  ASSUME IInv, NEW p \in Process, ConnectorCrash(p)
  PROVE  IInv'
<1>1. Safe
  BY SameLedger, Parts DEF ConnectorCrash, SendInv
<1>2. ASSUME NEW h \in Handler
      PROVE  IsHand(hand'[h]) /\ Quiet(hand[h], hand'[h])
  <2>1. PICK x : x = [hand[h] EXCEPT !.alive = FALSE]
    OBVIOUS
  <2>2. IsHand(hand[h]) /\ IsHand(x) /\ Quiet(hand[h], x)
    BY <2>1, QuietOrphan, Parts DEF HandsOK
  <2>3. hand'[h] \in {hand[h], x, NoHand}
    BY <2>1 DEF ConnectorCrash
  <2> QED BY <2>2, <2>3, NoHandIs, QuietRecords DEF Quiet
<1>3. HandsSafe
  BY <1>2, QuietHands DEF ConnectorCrash
<1>4. LockOK'
  BY Parts DEF ConnectorCrash, LockOK
<1>5. CountsOK'
  BY LoseCounts, Parts DEF ConnectorCrash, history
<1> QED BY <1>1, <1>3, <1>4, <1>5, HandlerStep DEF ConnectorCrash, ledger, history

LEMMA CoreCrashInv ==
  ASSUME IInv, CoreCrash
  PROVE  IInv'
<1>1. Safe /\ UNCHANGED slot
  BY SameLedger, Parts DEF CoreCrash, SendInv, ledger
<1>2. ASSUME NEW h \in Handler
      PROVE  IsHand(hand'[h]) /\ Quiet(hand[h], hand'[h])
  <2>1. IsHand(hand[h])
    BY Parts DEF HandsOK
  <2>2. hand'[h] \in {hand[h], Done, NoHand}
    BY DEF CoreCrash
  <2> QED BY <2>1, <2>2, NoHandIs, DoneIs, QuietRecords DEF Quiet
<1>3. HandsSafe
  BY <1>2, QuietHands DEF CoreCrash
<1>4. LockOK'
  BY Parts DEF CoreCrash, LockOK
<1>5. \A j \in StepId : run'[j] = NoRun
  BY DEF CoreCrash
<1>6. RunsSafe
  BY <1>5, RunRecords DEF CoreCrash, RunsSafe, RunsOK, WorkersKept, ToolsKept
<1>7. JobsOK'
  BY SameJob, Parts DEF CoreCrash
<1>8. CountsOK'
  BY LoseCounts, Parts DEF CoreCrash, history
<1> QED BY <1>1, <1>3, <1>4, <1>6, <1>7, <1>8, QuietStep DEF CoreCrash, history

\* Recovery ends generations, which nobody runs: it needs all workers to be stopped.
LEMMA RecoverInv ==
  ASSUME IInv, Recover
  PROVE  IInv'
<1>1. /\ LedgerOK' /\ NoncesKept
      /\ \A s \in StepId : slot[s].status # "none" => slot'[s].status # "none"
  BY RecoverSafe, Parts DEF Recover, SendInv
<1>2. UNCHANGED <<job, run, hand, lock, sends, effects, spent, faults>>
  BY DEF Recover, actors, history
<1>3. \A j \in StepId : run'[j].pc = "idle"
  BY <1>2 DEF Recover
<1>4. HandsOK' /\ HandsKept
  BY <1>2, SameHand, Parts
<1>5. SendInv'
  BY <1>1, <1>2, <1>4, SendQuiet, Parts
<1>6. WorkInv'
  BY <1>3 DEF WorkInv, WorkerOwnsStep, OneWorker, Working
<1>7. EffectInv'
  BY <1>1, <1>2, <1>3, Parts DEF EffectInv, EffectSlot, SideEffectOnce
<1>8. RunsOK' /\ JobsOK' /\ LockOK' /\ SendsOK' /\ CountsOK'
  BY <1>2, SameRun, SameJob, SameCounts, Parts DEF LockOK, SendsOK
<1> QED BY <1>1, <1>4, <1>5, <1>6, <1>7, <1>8, Parts2
(***************************************************************************)
(* The invariant is inductive                                              *)
(***************************************************************************)
LEMMA InitInv == Init => IInv
<1> SUFFICES ASSUME Init PROVE IInv
  OBVIOUS
<1>1. \A s \in StepId : /\ step[s] = NoStep /\ slot[s] = NoSlot /\ job[s] = NoJob
                        /\ run[s] = NoRun /\ sends[s] = << >> /\ effects[s] = 0
  BY DEF Init, LedgerInit
<1>2. \A h \in Handler : hand[h] = NoHand
  BY DEF Init
<1>3. IsStep(NoStep) /\ NoStep.nonce = NoNonce
  BY DEF IsStep, NoStep, StepStatus
<1>4. LedgerOK
  <2>1. OpsOK
    BY DEF Init, LedgerInit, OpsOK, IsOp, OpStatus
  <2>2. StepsOK
    BY <1>1, <1>3 DEF Init, LedgerInit, StepsOK
  <2>3. SlotsOK
    BY DEF Init, LedgerInit, SlotsOK, IsSlot, NoSlot, SlotStatus
  <2> QED BY <2>1, <2>2, <2>3 DEF LedgerOK
<1>5. JobsOK
  BY DEF Init, JobsOK, IsJob, NoJob, JobStatus
<1>6. RunsOK
  BY <1>1, RunRecords DEF Init, RunsOK
<1>7. HandsOK
  BY <1>2, NoHandIs DEF Init, HandsOK
<1>8. LockOK /\ CountsOK
  BY DEF Init, LockOK, CountsOK
<1>9. SendsOK
  BY DEF Init, SendsOK
<1>10. SendInv
  <2>1. ClaimSettles
    BY <1>1, <1>3 DEF ClaimSettles
  <2>2. NonceHeld /\ NoncesDiffer
    BY <1>2, NoHandIs DEF NonceHeld, NoncesDiffer, Claiming, Sending
  <2>3. SendClaimed
    BY <1>1, <1>2, NoHandIs DEF SendClaimed
  <2>4. AtMostOnceSend
    BY <1>1 DEF AtMostOnceSend
  <2> QED BY <2>1, <2>2, <2>3, <2>4 DEF SendInv
<1>11. WorkInv
  BY <1>1, RunRecords DEF WorkInv, WorkerOwnsStep, OneWorker, Working
<1>12. EffectInv
  <2>1. \A s \in StepId : effects[s] <= 1 /\ ~(effects[s] > 0)
    BY <1>1
  <2>2. \A j \in StepId : run[j].pc # "tool"
    BY <1>1, RunRecords
  <2> QED BY <2>1, <2>2 DEF EffectInv, EffectSlot, SideEffectOnce
<1> QED BY <1>4, <1>5, <1>6, <1>7, <1>8, <1>9, <1>10, <1>11, <1>12, Parts

LEMMA WorkKeeps ==
  ASSUME IInv, NEW j \in StepId, Work(j)
  PROVE  IInv'
<1>1. CASE Start(j) \/ Overdue(j) \/ Execute(j) \/ Exhaust(j) \/ Answer(j)
  BY <1>1, StartInv, OverdueInv, ExecuteInv, ExhaustInv, AnswerInv
<1>2. CASE \/ \E c \in Call : ClaimEffect(j, c)
           \/ PerformEffect(j) \/ RejectEffect(j) \/ RecordEffect(j)
  BY <1>2, ClaimEffectInv, PerformEffectInv, RejectEffectInv, RecordEffectInv
<1>3. CASE Raise(j) \/ StoreResult(j)
  BY <1>3, RaiseInv, StoreResultInv
<1>4. CASE (\E p \in Proposals : Generate(j, TRUE, p)) \/ Generate(j, FALSE, << >>)
  BY <1>4, GenerateInv
<1> QED BY <1>1, <1>2, <1>3, <1>4 DEF Work

LEMMA AdvancingKeeps ==
  ASSUME IInv, NEW h \in Handler, Advancing(h)
  PROVE  IInv'
<1>1. CASE Submit(h) \/ Consume(h) \/ JobEnded(h) \/ GiveUp(h) \/ SaveRefused(h)
  BY <1>1, SubmitInv, ConsumeInv, EndOfLoopInv
<1>2. CASE Acquire(h) \/ Preflight(h) \/ (\E r \in BOOLEAN : SaveKeep(h, r))
           \/ SaveSilence(h) \/ Reload(h)
  BY <1>2, AcquireInv, PreflightInv, SaveKeepInv, SaveSilenceInv, ReloadInv
<1>3. CASE (\E n \in Nonce : Claim(h, n)) \/ CompareAndSet(h)
  BY <1>3, ClaimInv, CompareAndSetInv
<1>4. CASE SendOk(h, Part, FALSE) \/ SendOk(h, {}, TRUE) \/ SendOk(h, {}, FALSE)
  BY <1>4, SendOkInv
<1>5. CASE \E ids \in SUBSET Part : SendFails(h, ids)
  BY <1>5, SendFailsInv
<1>6. CASE Acknowledge(h) \/ Report(h)
  BY <1>6, AcknowledgeInv, ReportInv
<1> QED BY <1>1, <1>2, <1>3, <1>4, <1>5, <1>6 DEF Advancing

LEMMA HandleKeeps ==
  ASSUME IInv, NEW h \in Handler, Handle(h)
  PROVE  IInv'
<1>1. CASE (\E o \in Op : Open(h, o)) \/ Yield(h) \/ Recheck(h)
  BY <1>1, OpenInv, YieldInv, RecheckInv
<1>2. CASE RequestLost(h) \/ ResponseLost(h) \/ AckLost(h)
  BY <1>2, RequestLostInv, ResponseLostInv, AckLostInv
<1> QED BY <1>1, <1>2, AdvancingKeeps DEF Handle

LEMMA StutterKeeps ==
  ASSUME IInv, UNCHANGED vars
  PROVE  IInv'
<1>1. UNCHANGED ledger /\ UNCHANGED <<job, run, hand, lock, history, faults, slot>>
  BY DEF vars, ledger, history
<1>2. Safe /\ HandsSafe /\ LockOK'
  BY <1>1, SameLedger, SameHand, Parts DEF SendInv, HandsSafe, LockOK
<1> QED BY <1>1, <1>2, PlainHandlerStep

LEMMA NextInv == IInv /\ [Next]_vars => IInv'
<1> SUFFICES ASSUME IInv, [Next]_vars PROVE IInv'
  OBVIOUS
<1>1. CASE \E j \in StepId : Work(j) \/ JobEnd(j)
  BY <1>1, WorkKeeps, JobEndInv
<1>2. CASE \E h \in Handler : Handle(h)
  BY <1>2, HandleKeeps
<1>3. CASE (\E p \in Process : ConnectorCrash(p)) \/ CoreCrash \/ Recover
  BY <1>3, ConnectorCrashInv, CoreCrashInv, RecoverInv
<1> QED BY <1>1, <1>2, <1>3, StutterKeeps DEF Next

(***************************************************************************)
(* Theorems                                                                *)
(***************************************************************************)
\* IInv holds in every reachable state: it is true initially and every step of a
\* worker, handler, person, fault or recovery keeps it.
THEOREM Inductive == Spec => []IInv
<1>1. Init => IInv
  BY InitInv
<1>2. IInv /\ [Next]_vars => IInv'
  BY NextInv
<1> QED BY <1>1, <1>2, PTL DEF Spec

\* The tables of the ledger, the jobs and every actor's local state keep their shape.
THEOREM TypeCorrect == Spec => []TypeOK
<1>1. IInv => TypeOK
  BY DEF IInv
<1> QED BY <1>1, Inductive, PTL

\* claim_delivery's promise: no step is ever sent to Discord twice, for any number of
\* connector processes, overlapping handlers, losses, crashes and recoveries.
THEOREM AtMostOnce == Spec => []AtMostOnceSend
<1>1. IInv => AtMostOnceSend
  BY DEF IInv
<1> QED BY <1>1, Inductive, PTL

\* claim_side_effect's promise: a step mutates the outside world at most once, however
\* often it is generated again.
THEOREM MutationOnce == Spec => []SideEffectOnce
<1>1. IInv => SideEffectOnce
  BY DEF IInv
<1> QED BY <1>1, Inductive, PTL

\* prepare_social_step's promise: while a worker generates a step, the step is
\* generating or made uncertain, and nobody holds a delivery claim on it.
THEOREM WorkerOwns == Spec => []WorkerOwnsStep
<1>1. IInv => WorkerOwnsStep
  BY DEF IInv
<1> QED BY <1>1, Inductive, PTL
=============================================================================
