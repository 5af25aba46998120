----------------------------- MODULE RuntimeLedger -----------------------------
(***************************************************************************)
(* The durability ledger of Character Relay Core: one record per operation *)
(* (a Discord event being answered), one per Character step, and one       *)
(* side-effect slot per step.  Every action below is one method of         *)
(* DurableRuntimeRepository, DraftRuntime or TurnJobRepository, that is    *)
(* one database transaction; claim_delivery is two, because it validates   *)
(* what it read before its conditional write.  Who calls them, and when,   *)
(* is in SocialTurn.                                                       *)
(***************************************************************************)
EXTENDS SocialCursor

CONSTANTS
  Op,        \* operation identities, one per Discord source message
  Chosen,    \* initial_deployment_ids of an operation, in order
  Index,     \* step indexes explored (a bound)
  Nonce,     \* delivery claim nonces (random UUIDs)
  NoNonce,   \* an empty delivery_claim_nonce
  Part,      \* Discord messages one visible reply is split into
  Call,      \* external mutations a model may ask for: (tool, arguments)
  NoCall

ASSUME LedgerAssumption ==
  /\ Chosen \in Seq(Deployment)
  /\ Index \subseteq Nat
  /\ NoNonce \notin Nonce
  /\ NoCall \notin Call

VARIABLES
  op,     \* RuntimeOperationRecord of every operation
  step,   \* RuntimeStepRecord of every step
  slot    \* RuntimeSideEffectRecord of every step

ledger == <<op, step, slot>>

StepId == Op \X Index \X Deployment     \* social_step_id(operation, index, deployment)

OpStatus == {"none", "active", "awaiting_delivery", "completed", "uncertain", "failed"}
StepStatus == {"none", "generating", "refreshing", "generated", "delivery_claimed",
               "delivered", "silent", "uncertain", "failed"}
SlotStatus == {"none", "claimed", "completed", "uncertain"}

Live(o) == op[o].status \in {"active", "awaiting_delivery"}

\* A response is known by the number of times it was written (0: "{}"), so that the
\* conditional writes on response_json compare numbers; text tells the original
\* wording (0) from the refreshed one (1).
NoStep == [status |-> "none", cursor |-> NoCursor, draft |-> 0, text |-> 0,
           checked |-> FALSE, nonce |-> NoNonce, receipts |-> {}]
NoSlot == [status |-> "none", call |-> NoCall]

LedgerInit ==
  /\ op   = [o \in Op |-> [status |-> "none", cursor |-> NoCursor]]
  /\ step = [s \in StepId |-> NoStep]
  /\ slot = [s \in StepId |-> NoSlot]

(***************************************************************************)
(* Helpers shared by the methods                                           *)
(***************************************************************************)
\* _advance_operation: the checkpoint becomes c, and an empty one completes.
Advanced(o, c) ==
  [op EXCEPT ![o] = [status |-> IF c.pending = << >> THEN "completed" ELSE "active",
                     cursor |-> c]]

\* _scrub_completed_operation, on the steps a transaction leaves behind.
Scrubbed(o, c, steps) ==
  [s \in StepId |->
     IF c.pending = << >> /\ s[1] = o /\ steps[s].status \in {"delivered", "silent"}
     THEN [steps[s] EXCEPT !.draft = 0] ELSE steps[s]]

OpStatusIs(o, st) == [op EXCEPT ![o].status = st]

\* The head step of a checkpoint.
StepOf(o, c) == <<o, c.index, Head(c.pending).dep>>

(***************************************************************************)
(* Operations and generation                                               *)
(***************************************************************************)
\* claim_social_operation: creates the operation once; later claims only read it.
ClaimSocialOperation(o) ==
  /\ op' = IF op[o].status # "none" THEN op
           ELSE [op EXCEPT ![o] = [status |-> "active", cursor |-> InitialCursor(Chosen)]]
  /\ UNCHANGED <<step, slot>>

\* prepare_social_step, its verdict on a request for s.
Preparation(s) ==
  CASE ~Live(s[1])                                          -> "refused"
    [] Live(s[1]) /\ step[s].status \in {"none", "failed"}  -> "execute"
    [] Live(s[1]) /\ step[s].status \in {"generating", "refreshing"} -> "in_progress"
    [] Live(s[1]) /\ step[s].status = "uncertain"           -> "uncertain"
    [] OTHER                                                -> "replay"

\* _reserve_generation_attempt with budget left: the step starts generating.
PrepareExecute(s) ==
  /\ Preparation(s) = "execute"
  /\ op[s[1]].cursor.attempts < MaxAttempts
  /\ op' = [op EXCEPT ![s[1]].cursor.attempts = @ + 1]
  /\ step' = [step EXCEPT ![s].status = "generating"]
  /\ UNCHANGED slot

\* _reserve_generation_attempt without budget: the operation fails for good.
PrepareExhausted(s) ==
  /\ Preparation(s) = "execute"
  /\ op[s[1]].cursor.attempts >= MaxAttempts
  /\ op' = OpStatusIs(s[1], "failed")
  /\ UNCHANGED <<step, slot>>

\* fail_social_step: no condition on the step it finds.
FailSocialStep(s) ==
  /\ step' = [step EXCEPT ![s].status = "failed"]
  /\ op' = IF op[s[1]].status \in {"completed", "uncertain"} THEN op
           ELSE OpStatusIs(s[1], "active")
  /\ UNCHANGED slot

\* Mutant: the checkpoint advances before the reply is delivered.
CompleteGenerationEager(s, c, required) ==
  /\ step' = [step EXCEPT ![s].status = IF required THEN "generated" ELSE "silent",
                          ![s].cursor = c, ![s].draft = @ + 1]
  /\ op' = Advanced(s[1], c)
  /\ UNCHANGED slot

Stored(r, c, required) ==
  [r EXCEPT !.status = IF required THEN "generated" ELSE "silent", !.cursor = c,
            !.draft = @ + 1, !.text = 0, !.checked = FALSE]

\* complete_social_step_generation: stores the reply and the proposed cursor c; a
\* silent reply advances the checkpoint at once, a visible one awaits delivery.
CompleteGeneration(s, c, required) ==
  LET stored == [step EXCEPT ![s] = Stored(@, c, required)]
  IN  /\ step' = IF required THEN stored ELSE Scrubbed(s[1], c, stored)
      /\ op' = IF required THEN OpStatusIs(s[1], "awaiting_delivery") ELSE Advanced(s[1], c)
      /\ UNCHANGED slot

(***************************************************************************)
(* Publication preflight (draft_runtime.py)                                *)
(***************************************************************************)
\* preflight: the draft may still be published, and _reserve's conditional write.
Publishable(s) == step[s].status = "generated" /\ Live(s[1])

PreflightReserve(s) ==
  /\ Publishable(s)
  /\ step' = [step EXCEPT ![s].status = "refreshing"]
  /\ UNCHANGED <<op, slot>>

\* _save is refused when the reservation is gone or the operation is over.
Savable(s) == step[s].status = "refreshing" /\ Live(s[1])

\* Mutant: nothing limits a draft to one refresh.
PreflightKeepUnlimited(s, refreshed) ==
  /\ Savable(s)
  /\ step' = [step EXCEPT ![s].status = "generated", ![s].draft = @ + 1, ![s].checked = TRUE,
                          ![s].text = IF refreshed THEN @ + 1 ELSE @]
  /\ UNCHANGED <<op, slot>>

Kept(r, refreshed, d) ==
  [r EXCEPT !.status = "generated", !.draft = @ + 1, !.checked = TRUE,
            !.text = IF refreshed THEN 1 ELSE @,
            !.cursor = IF refreshed THEN WithoutInvitesOf(@, d) ELSE @]

\* _save of a draft that stays publishable.  A refresh happens once per draft
\* (source_refresh_count) and takes back the invitations of the old wording.
PreflightKeep(s, refreshed) ==
  /\ Savable(s)
  /\ refreshed => step[s].text = 0
  /\ step' = [step EXCEPT ![s] = Kept(@, refreshed, s[3])]
  /\ UNCHANGED <<op, slot>>

Silenced(r, c) == [r EXCEPT !.status = "silent", !.draft = @ + 1, !.cursor = c]

\* _save of a draft that must not be published: the step is silent, only directly
\* selected turns stay pending, and nobody is counted as having spoken.
PreflightSilence(s) ==
  LET c == [OnlySelected(WithoutInvitesOf(step[s].cursor, s[3]))
              EXCEPT !.completed = op[s[1]].cursor.completed]
      silenced == [step EXCEPT ![s] = Silenced(@, c)]
  IN  /\ Savable(s)
      /\ step' = Scrubbed(s[1], c, silenced)
      /\ op' = Advanced(s[1], c)
      /\ UNCHANGED slot

(***************************************************************************)
(* Delivery                                                                *)
(***************************************************************************)
\* claim_delivery, first half: what _validate_publication insists on.
Claimable(s) == step[s].status = "generated" /\ step[s].checked

Claimed(r, n) == [r EXCEPT !.status = "delivery_claimed", !.nonce = n]

\* Mutant: the write is conditional on the response only.
ClaimGrantAnyStatus(s, n, seen) ==
  /\ step[s].draft = seen
  /\ step' = [step EXCEPT ![s] = Claimed(@, n)]
  /\ UNCHANGED <<op, slot>>

\* claim_delivery, the conditional write on (status, response_json).
ClaimGrant(s, n, seen) ==
  /\ step[s].status = "generated" /\ step[s].draft = seen
  /\ step' = [step EXCEPT ![s] = Claimed(@, n)]
  /\ UNCHANGED <<op, slot>>

\* claim_delivery of a step another nonce holds: nobody knows what was sent.
ClaimConflict(s, n) ==
  /\ step[s].status = "delivery_claimed" /\ step[s].nonce # n
  /\ step' = [step EXCEPT ![s].status = "uncertain"]
  /\ op' = OpStatusIs(s[1], "uncertain")
  /\ UNCHANGED slot

OwnsClaim(s, n) == step[s].status = "delivery_claimed" /\ step[s].nonce = n

Acked(r, c, ids, applied) ==
  [r EXCEPT !.status = IF ids # {} \/ applied THEN "delivered" ELSE "silent",
            !.cursor = c, !.draft = 0, !.receipts = ids]

\* acknowledge_delivery: the cursor the caller shows must be the stored one; what
\* becomes the checkpoint depends on what was really published.
AcknowledgeDelivery(s, n, shown, ids, applied) ==
  LET c == step[s].cursor
      previous == op[s[1]].cursor
      projected ==
        IF ids # {} THEN c
        ELSE IF applied THEN WithoutInvitesOf(c, s[3])
        ELSE [OnlySelected(c) EXCEPT !.completed = previous.completed]
      acked == [step EXCEPT ![s] = Acked(@, projected, ids, applied)]
  IN  /\ OwnsClaim(s, n)
      /\ shown = c
      /\ step' = Scrubbed(s[1], projected, acked)
      /\ op' = Advanced(s[1], projected)
      /\ UNCHANGED slot

Doubted(r, ids) == [r EXCEPT !.status = "uncertain", !.receipts = @ \cup ids]

\* mark_delivery_uncertain: receipts only grow; ignored once the operation is
\* completed, the step is settled or the nonce is not the holder's.
MarkDeliveryUncertain(s, n, ids) ==
  IF /\ op[s[1]].status # "completed"
     /\ step[s].status \in {"delivery_claimed", "uncertain"}
     /\ step[s].nonce = n
  THEN /\ step' = [step EXCEPT ![s] = Doubted(@, ids)]
       /\ op' = OpStatusIs(s[1], "uncertain")
       /\ UNCHANGED slot
  ELSE UNCHANGED ledger

(***************************************************************************)
(* Side-effect slots                                                       *)
(***************************************************************************)
\* Mutant: the slot depends on the tool and its arguments.
ClaimSlotPerCall(s, c) ==
  /\ slot[s].status = "none" \/ slot[s].call # c
  /\ slot' = [slot EXCEPT ![s] = [status |-> "claimed", call |-> c]]
  /\ UNCHANGED <<op, step>>

\* claim_side_effect grants an empty slot; complete_side_effect fills it;
\* release_side_effect_claim empties one that is still only claimed.
ClaimSlot(s, c) ==
  /\ slot[s].status = "none"
  /\ slot' = [slot EXCEPT ![s] = [status |-> "claimed", call |-> c]]
  /\ UNCHANGED <<op, step>>

CompleteSlot(s) ==
  /\ slot' = IF slot[s].status = "none" THEN slot
             ELSE [slot EXCEPT ![s].status = "completed"]
  /\ UNCHANGED <<op, step>>

ReleaseSlot(s) ==
  /\ slot' = IF slot[s].status # "claimed" THEN slot ELSE [slot EXCEPT ![s] = NoSlot]
  /\ UNCHANGED <<op, step>>

(***************************************************************************)
(* Interruption                                                            *)
(***************************************************************************)
\* fail with status timed_out, stopped or cancelled, on the operation the job's
\* source message belongs to (_runtime_operations).
InterruptOperation(o) ==
  /\ op' = IF Live(o) THEN OpStatusIs(o, "uncertain") ELSE op
  /\ step' = IF ~Live(o) THEN step
             ELSE [s \in StepId |->
                     IF s[1] = o /\ step[s].status = "generating"
                     THEN [step[s] EXCEPT !.status = "uncertain"] ELSE step[s]]
  /\ UNCHANGED slot

Withdrawn(r) == [r EXCEPT !.status = "failed", !.draft = 0]

\* Mutant: a claimed delivery can be cancelled too.
CancelClaimedDelivery(s) ==
  /\ step[s].status \in {"generated", "delivery_claimed"} /\ Live(s[1])
  /\ step' = [step EXCEPT ![s] = Withdrawn(@)]
  /\ op' = OpStatusIs(s[1], "failed")
  /\ UNCHANGED slot

\* _cancel_generated_delivery: wins or loses against claim_delivery on the status.
CancelGeneratedDelivery(s) ==
  /\ step[s].status = "generated" /\ Live(s[1])
  /\ step' = [step EXCEPT ![s] = Withdrawn(@)]
  /\ op' = OpStatusIs(s[1], "failed")
  /\ UNCHANGED slot

\* cancel_social_turn_operation: a newer human message ends optional continuations,
\* never a direct request, running work or an unresolved delivery.
Interruptible(o) ==
  /\ op[o].status \in {"active", "failed"}
  /\ LET p == op[o].cursor.pending IN p = << >> \/ Head(p).origin # "selected"
  /\ \A s \in StepId : s[1] = o =>
       step[s].status \notin {"generating", "refreshing", "delivery_claimed"}

CancelSocialTurn(o) ==
  LET c == OnlySelected(op[o].cursor)
  IN  IF Interruptible(o)
      THEN /\ op' = Advanced(o, c)
           /\ step' = Scrubbed(o, c, step)
           /\ UNCHANGED slot
      ELSE UNCHANGED ledger

\* recover_interrupted: the operator runs it while no worker is up.
RecoverInterrupted ==
  LET has(o, st) == \E s \in StepId : s[1] = o /\ step[s].status = st
  IN  /\ step' = [s \in StepId |->
                    CASE step[s].status = "generating" -> [step[s] EXCEPT !.status = "failed"]
                      [] step[s].status = "refreshing" -> Withdrawn(step[s])
                      [] step[s].status = "delivery_claimed" ->
                           [step[s] EXCEPT !.status = "uncertain"]
                      [] OTHER -> step[s]]
      /\ op' = [o \in Op |->
                  IF op[o].status = "completed" THEN op[o]
                  ELSE [op[o] EXCEPT !.status =
                          IF has(o, "delivery_claimed") THEN "uncertain"
                          ELSE IF has(o, "refreshing") THEN "failed" ELSE @]]
      /\ slot' = [s \in StepId |->
                    IF slot[s].status = "claimed" THEN [slot[s] EXCEPT !.status = "uncertain"]
                    ELSE slot[s]]
=============================================================================
