------------------------------- MODULE Reminders -------------------------------
(***************************************************************************)
(* Scheduled reminders and condition watches of one Character deployment.  *)
(*                                                                         *)
(* Two background tasks of the Core process share the reminder table.  The *)
(* delivery loop claims the due reminders in one transaction and then      *)
(* sends them one by one (scheduled_reminder_service.py); the watch loop   *)
(* claims the due watches, lets the Character's model judge each condition *)
(* and queues a reminder for a condition that is met                       *)
(* (condition_watch_service.py, orchestration/condition_watch_graph.py).   *)
(* Meanwhile people create and cancel, time passes, the service restarts.  *)
(*                                                                         *)
(* Instants are abstracted to the comparisons the code makes: due          *)
(* (scheduled_at or next_check_at <= now), stale (claimed 120 s ago or     *)
(* more) and lapsed (expires_at <= now).  The batches of 20 the loops take *)
(* are larger than the sets explored here.                                 *)
(***************************************************************************)
EXTENDS Naturals, FiniteSets

CONSTANTS
  Reminder,      \* reminder identities (random UUIDs)
  Asked,         \* those people may ask for; a watch may queue any
  Watch,         \* condition watch identities
  Nothing,       \* neither a reminder nor a watch
  MaxAttempts,   \* scheduler_max_attempts
  MaxChecks,     \* max_attempts of a watch
  LongRestart,   \* the service stays down for 120 s or more whenever it restarts
  OwnerDoes,     \* bound: whether the owner pauses ("pause"), deletes ("delete") or both
  MaxRestart     \* bound: restarts of the service

ASSUME ReminderAssumption ==
  /\ Nothing \notin Reminder \cup Watch
  /\ Asked \subseteq Reminder
  /\ MaxAttempts \in Nat \ {0}
  /\ MaxChecks \in Nat \ {0}
  /\ LongRestart \in BOOLEAN
  /\ OwnerDoes \subseteq {"pause", "delete"}
  /\ MaxRestart \in Nat

VARIABLES
  reminder,   \* ScheduledReminderRecord of each identity
  watch,      \* ConditionWatchRecord of each identity
  deployment, \* status of the Character deployment
  up,         \* the service runs
  batch,      \* reminders the delivery loop claimed and has not reached yet
  sending,    \* the reminder being delivered, and how far it is
  checks,     \* watches the watch loop claimed and has not reached yet
  checking,   \* the watch being judged, and how far it is
  sent,       \* history: Discord messages posted for a reminder
  recovered,  \* history: how often a reminder was put back by recovery
  restarts

vars == <<reminder, watch, deployment, up, batch, sending, checks, checking,
          sent, recovered, restarts>>
delivery == <<batch, sending>>
judging  == <<checks, checking>>
history  == <<sent, recovered>>

NoReminder == [status |-> "none", attempts |-> 0, due |-> FALSE, stale |-> FALSE,
               watch |-> Nothing]
NoWatch    == [status |-> "none", attempts |-> 0, due |-> FALSE, lapsed |-> FALSE]
Resting    == [of |-> Nothing, stage |-> "idle"]

Init ==
  /\ reminder = [r \in Reminder |-> NoReminder]
  /\ watch = [w \in Watch |-> NoWatch]
  /\ deployment = "active" /\ up = TRUE
  /\ batch = {} /\ sending = Resting
  /\ checks = {} /\ checking = Resting
  /\ sent = [r \in Reminder |-> 0]
  /\ recovered = [r \in Reminder |-> 0]
  /\ restarts = 0

(***************************************************************************)
(* The reminder table                                                      *)
(***************************************************************************)
\* ScheduledReminderRepository.create, for a person (w = Nothing) or for a watch.
Created(r, w, due) ==
  /\ deployment # "gone" /\ reminder[r].status = "none"
  /\ reminder' = [reminder EXCEPT ![r] =
                    [NoReminder EXCEPT !.status = "pending", !.due = due, !.watch = w]]

\* scheduler.remind: the time must be in the future.
Remind(r) ==
  /\ r \in Asked /\ deployment = "active"
  /\ Created(r, Nothing, FALSE)
  /\ UNCHANGED <<watch, deployment, up, delivery, judging, history, restarts>>

\* cancel, from the tool or the portal: a claimed reminder may be cancelled too.
Cancel(r) ==
  /\ reminder[r].status \in {"pending", "processing"}
  /\ reminder' = [reminder EXCEPT ![r].status = "cancelled"]
  /\ UNCHANGED <<watch, deployment, up, delivery, judging, history, restarts>>

(***************************************************************************)
(* The delivery loop                                                       *)
(***************************************************************************)
\* claim_due, once the previous batch is finished.
ClaimDue ==
  LET found == {r \in Reminder : reminder[r].status = "pending" /\ reminder[r].due}
  IN  /\ up /\ batch = {} /\ sending = Resting
      /\ found # {}
      /\ reminder' = [r \in Reminder |->
                        IF r \notin found THEN reminder[r]
                        ELSE [reminder[r] EXCEPT !.status = "processing", !.stale = FALSE,
                                                 !.attempts = @ + 1]]
      /\ batch' = found
      /\ UNCHANGED <<watch, deployment, up, sending, judging, history, restarts>>

\* _deliver of the next record; it carries what claim_due read.
Deliver(r) ==
  /\ r \in batch /\ sending = Resting
  /\ batch' = batch \ {r}
  /\ sending' = [of |-> r, stage |-> IF deployment = "active" THEN "post" ELSE "failed"]
  /\ UNCHANGED <<reminder, watch, deployment, up, judging, history, restarts>>

\* The Discord request: it is answered; it is refused, or no webhook or credential
\* is there; or it is carried out and the answer is lost or unreadable.
Post(posted, stage) ==
  /\ sending.stage = "post"
  /\ sending' = [sending EXCEPT !.stage = stage]
  /\ sent' = IF posted THEN [sent EXCEPT ![sending.of] = @ + 1] ELSE sent
  /\ UNCHANGED <<reminder, watch, deployment, up, batch, judging, recovered, restarts>>

PostAnswered == Post(TRUE, "delivered")
PostRefused  == Post(FALSE, "failed")
PostUnclear  == Post(TRUE, "failed")

\* mark_delivered: whatever the row says now.
MarkDelivered ==
  /\ sending.stage = "delivered"
  /\ reminder' = IF reminder[sending.of].status = "deleted" THEN reminder
                 ELSE [reminder EXCEPT ![sending.of].status = "completed"]
  /\ sending' = Resting
  /\ UNCHANGED <<watch, deployment, up, batch, judging, history, restarts>>

\* Mutant: the attempt budget is never exhausted.
MarkFailureForever ==
  /\ sending.stage = "failed"
  /\ reminder' = IF reminder[sending.of].status = "deleted" THEN reminder
                 ELSE [reminder EXCEPT ![sending.of].status = "pending",
                                       ![sending.of].due = FALSE]
  /\ sending' = Resting
  /\ UNCHANGED <<watch, deployment, up, batch, judging, history, restarts>>

\* mark_failure: retry later while attempts are left, whatever the row says now.
MarkFailure ==
  LET r == sending.of
  IN  /\ sending.stage = "failed"
      /\ reminder' =
           IF reminder[r].status = "deleted" THEN reminder
           ELSE IF reminder[r].attempts >= MaxAttempts
           THEN [reminder EXCEPT ![r].status = "failed"]
           ELSE [reminder EXCEPT ![r].status = "pending", ![r].due = FALSE]
      /\ sending' = Resting
      /\ UNCHANGED <<watch, deployment, up, batch, judging, history, restarts>>

(***************************************************************************)
(* The watch loop                                                          *)
(***************************************************************************)
\* watch.condition
WatchCondition(w) ==
  /\ deployment = "active" /\ watch[w].status = "none"
  /\ watch' = [watch EXCEPT ![w] = [NoWatch EXCEPT !.status = "active"]]
  /\ UNCHANGED <<reminder, deployment, up, delivery, judging, history, restarts>>

\* ConditionWatchRepository.claim_due: lapsed watches expire, due ones are reserved
\* by moving their next check.
ClaimWatches ==
  LET active(w) == watch[w].status = "active"
      lapsed == {w \in Watch : active(w) /\ watch[w].lapsed}
      found  == {w \in Watch : /\ active(w) /\ ~watch[w].lapsed /\ watch[w].due
                               /\ watch[w].attempts < MaxChecks}
  IN  /\ up /\ checks = {} /\ checking = Resting
      /\ lapsed \cup found # {}
      /\ watch' = [w \in Watch |->
                     IF w \in lapsed THEN [watch[w] EXCEPT !.status = "expired"]
                     ELSE IF w \in found
                     THEN [watch[w] EXCEPT !.attempts = @ + 1, !.due = FALSE]
                     ELSE watch[w]]
      /\ checks' = found
      /\ UNCHANGED <<reminder, deployment, up, delivery, checking, history, restarts>>

\* _evaluate_watch: the condition is met, is not met, or cannot be judged.
Evaluate(w, stage) ==
  /\ w \in checks /\ checking = Resting
  /\ stage # "failed" => deployment = "active"
  /\ checks' = checks \ {w}
  /\ checking' = [of |-> w, stage |-> stage]
  /\ UNCHANGED <<reminder, watch, deployment, up, delivery, history, restarts>>

\* _notify_watch: a reminder due at once is queued; the watch is not looked at again.
Notify(r) ==
  /\ checking.stage = "met" /\ deployment = "active"
  /\ Created(r, checking.of, TRUE)
  /\ checking' = [checking EXCEPT !.stage = "notified"]
  /\ UNCHANGED <<watch, deployment, up, delivery, checks, history, restarts>>

NotifyFails ==
  /\ checking.stage = "met" /\ deployment # "active"
  /\ checking' = [checking EXCEPT !.stage = "failed"]
  /\ UNCHANGED <<reminder, watch, deployment, up, delivery, checks, history, restarts>>

\* Mutant: the transition is persisted before the notification is queued.
MarkMetWatch ==
  LET w == checking.of
  IN  /\ checking.stage \in {"met", "notified"}
      /\ watch' = IF watch[w].status # "active" THEN watch
                  ELSE [watch EXCEPT ![w].status = "triggered"]
      /\ checking' = IF checking.stage = "met" THEN checking ELSE Resting
      /\ UNCHANGED <<reminder, deployment, up, delivery, checks, history, restarts>>

\* _mark_triggered: only an active watch changes.
MarkTriggered ==
  LET w == checking.of
  IN  /\ checking.stage = "notified"
      /\ watch' = IF watch[w].status # "active" THEN watch
                  ELSE [watch EXCEPT ![w].status = "triggered"]
      /\ checking' = Resting
      /\ UNCHANGED <<reminder, deployment, up, delivery, checks, history, restarts>>

\* _mark_not_met and _mark_failure: the last check ends the watch.
MarkUnmet ==
  LET w == checking.of
      last == watch[w].status = "active" /\ watch[w].attempts >= MaxChecks
  IN  /\ checking.stage \in {"unmet", "failed"}
      /\ watch' = IF ~last THEN watch
                  ELSE [watch EXCEPT ![w].status =
                          IF checking.stage = "unmet" THEN "expired" ELSE "failed"]
      /\ checking' = Resting
      /\ UNCHANGED <<reminder, deployment, up, delivery, checks, history, restarts>>

(***************************************************************************)
(* Restarts, deletion, time                                                *)
(***************************************************************************)
\* stop cancels both tasks where they are; a crash looks the same to the tables.
Stop ==
  /\ up /\ restarts < MaxRestart
  /\ up' = FALSE /\ restarts' = restarts + 1
  /\ batch' = {} /\ sending' = Resting /\ checks' = {} /\ checking' = Resting
  /\ UNCHANGED <<reminder, watch, deployment, history>>

\* Every row of a table is deleted.
Without(table) ==
  [x \in DOMAIN table |->
     IF table[x].status = "none" THEN table[x] ELSE [table[x] EXCEPT !.status = "deleted"]]

\* Mutant: nothing is recovered.
StartForgetful ==
  /\ ~up
  /\ up' = TRUE
  /\ UNCHANGED <<reminder, watch, deployment, delivery, judging, history, restarts>>

\* start: recover_interrupted puts stale claims back, purge_orphans removes rows
\* whose deployment is gone.
Start ==
  LET stuck == {r \in Reminder : reminder[r].status = "processing" /\ reminder[r].stale}
  IN  /\ ~up
      /\ LongRestart => \A r \in Reminder :
                          reminder[r].status = "processing" => reminder[r].stale
      /\ up' = TRUE
      /\ reminder' = IF deployment = "gone" THEN Without(reminder)
                     ELSE [r \in Reminder |->
                             IF r \in stuck
                             THEN [reminder[r] EXCEPT !.status = "pending", !.stale = FALSE]
                             ELSE reminder[r]]
      /\ watch' = IF deployment = "gone" THEN Without(watch) ELSE watch
      /\ recovered' = [r \in Reminder |-> IF r \in stuck THEN recovered[r] + 1
                                          ELSE recovered[r]]
      /\ UNCHANGED <<deployment, delivery, judging, sent, restarts>>

\* delete_account removes the reminders, then the watches, then the deployment, in
\* transactions of their own; an owner may also delete just the deployment.
DeleteReminders ==
  /\ "delete" \in OwnerDoes /\ deployment # "gone"
  /\ reminder' = Without(reminder)
  /\ UNCHANGED <<watch, deployment, up, delivery, judging, history, restarts>>

DeleteWatches ==
  /\ "delete" \in OwnerDoes /\ deployment # "gone"
  /\ watch' = Without(watch)
  /\ UNCHANGED <<reminder, deployment, up, delivery, judging, history, restarts>>

DeleteDeployment ==
  /\ "delete" \in OwnerDoes /\ deployment # "gone"
  /\ deployment' = "gone"
  /\ UNCHANGED <<reminder, watch, up, delivery, judging, history, restarts>>

\* The owner pauses the deployment, or resumes it.
Pause ==
  /\ "pause" \in OwnerDoes /\ deployment # "gone"
  /\ deployment' = IF deployment = "active" THEN "paused" ELSE "active"
  /\ UNCHANGED <<reminder, watch, up, delivery, judging, history, restarts>>

\* Time: scheduled_at or next_check_at is reached, a claim grows old, a watch ends.
ReminderDue(r) ==
  /\ reminder[r].status = "pending" /\ ~reminder[r].due
  /\ reminder' = [reminder EXCEPT ![r].due = TRUE]
  /\ UNCHANGED <<watch, deployment, up, delivery, judging, history, restarts>>

ClaimAges(r) ==
  /\ reminder[r].status = "processing" /\ ~reminder[r].stale
  /\ reminder' = [reminder EXCEPT ![r].stale = TRUE]
  /\ UNCHANGED <<watch, deployment, up, delivery, judging, history, restarts>>

CheckDue(w) ==
  /\ watch[w].status = "active" /\ ~watch[w].due
  /\ watch' = [watch EXCEPT ![w].due = TRUE]
  /\ UNCHANGED <<reminder, deployment, up, delivery, judging, history, restarts>>

WatchLapses(w) ==
  /\ watch[w].status = "active" /\ ~watch[w].lapsed
  /\ watch' = [watch EXCEPT ![w].lapsed = TRUE]
  /\ UNCHANGED <<reminder, deployment, up, delivery, judging, history, restarts>>

(***************************************************************************)
(* Specification                                                           *)
(***************************************************************************)
Delivering ==
  \/ ClaimDue
  \/ \E r \in Reminder : Deliver(r)
  \/ PostAnswered \/ PostRefused \/ PostUnclear
  \/ MarkDelivered \/ MarkFailure

Judging ==
  \/ ClaimWatches
  \/ \E w \in Watch : \E stage \in {"met", "unmet", "failed"} : Evaluate(w, stage)
  \/ \E r \in Reminder : Notify(r)
  \/ NotifyFails \/ MarkTriggered \/ MarkUnmet

Clock ==
  \/ \E r \in Reminder : ReminderDue(r) \/ ClaimAges(r)
  \/ \E w \in Watch : CheckDue(w) \/ WatchLapses(w)

People ==
  \/ \E r \in Reminder : Remind(r) \/ Cancel(r)
  \/ \E w \in Watch : WatchCondition(w)
  \/ DeleteReminders \/ DeleteWatches \/ DeleteDeployment \/ Pause

Next == Delivering \/ Judging \/ Clock \/ People \/ Stop \/ Start

Spec == Init /\ [][Next]_vars

(***************************************************************************)
(* Properties                                                              *)
(***************************************************************************)
\* Shapes of the tables and of the two loops.
TypeOK ==
  /\ reminder \in [Reminder ->
       [status : {"none", "pending", "processing", "completed", "cancelled", "failed",
                 "deleted"},
        attempts : Nat, due : BOOLEAN, stale : BOOLEAN, watch : Watch \cup {Nothing}]]
  /\ watch \in [Watch ->
       [status : {"none", "active", "triggered", "expired", "failed", "deleted"},
        attempts : 0 .. MaxChecks, due : BOOLEAN, lapsed : BOOLEAN]]
  /\ deployment \in {"active", "paused", "gone"} /\ up \in BOOLEAN
  /\ batch \subseteq Reminder /\ checks \subseteq Watch
  /\ sending \in [of : Reminder, stage : {"post", "delivered", "failed"}] \cup {Resting}
  /\ checking \in [of : Watch, stage : {"met", "unmet", "failed", "notified"}] \cup {Resting}
  /\ sent \in [Reminder -> Nat] /\ recovered \in [Reminder -> Nat]
  /\ restarts \in 0 .. MaxRestart

\* A reminder is posted at most once per attempt of its budget and once more for
\* every time an interruption put it back, whatever cancellations, unclear answers
\* and restarts do in between (mark_failure, recover_interrupted).
RetriesBounded == \A r \in Reminder : sent[r] <= MaxAttempts + recovered[r]

\* A triggered watch has queued its notification, whenever the service stops, and a watch
\* queues no more than one, and one for every interruption between queueing it and recording
\* the transition (the order of _notify_watch and _mark_triggered).
NoticesMatch ==
  \A w \in Watch :
    LET notices == Cardinality({r \in Reminder : reminder[r].watch = w})
    IN  /\ notices <= 1 + restarts
        /\ watch[w].status = "triggered" => notices >= 1

\* Every reminder that becomes due is delivered, given up, cancelled or deleted, and no
\* watch stays active for ever, not even one whose last check was interrupted.
DueSettles ==
  /\ \A r \in Reminder :
       reminder[r].status = "pending"
         ~> reminder[r].status \in {"completed", "failed", "cancelled", "deleted"}
  /\ \A w \in Watch : watch[w].status = "active" ~> watch[w].status # "active"

=============================================================================
