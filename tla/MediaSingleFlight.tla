--------------------------- MODULE MediaSingleFlight ---------------------------
(***************************************************************************)
(* One media-analysis identity shared by the workers of several processes. *)
(*                                                                         *)
(* A worker is the in-flight task of MediaUnderstandingService.analyze in  *)
(* one process (callers of the same process join it).  It claims the       *)
(* record, calls the provider and commits the result, or waits for the     *)
(* worker that does (media_runtime.py).  claim is a transaction of up to   *)
(* four statements - insert, select, conditional update, select - and the  *)
(* record may change between any two of them (media_singleflight.py).      *)
(*                                                                         *)
(* Instants are abstracted to the comparisons the code makes: until tells  *)
(* whether lease_expires_at is null, ahead or past, fresh whether          *)
(* expires_at is ahead.  Identifiers and lease tokens are UUIDs: the       *)
(* number of the claim that made them stands for them.                     *)
(***************************************************************************)
EXTENDS Naturals

CONSTANTS
  Worker,      \* one per process
  Ages,        \* the record may date from an earlier version, and may expire
  MaxStart     \* bound: analyses started

ASSUME MediaAssumption == Ages \in BOOLEAN /\ MaxStart \in Nat

VARIABLES
  record,    \* MediaAnalysisRecord of the identity, or NoRecord
  at,        \* where each worker is
  seen,      \* id of the record a worker read
  token,     \* lease token a worker holds
  lapsed,    \* history: leases that ended before their call
  purging,   \* id purge_expired is about to delete (0: none)
  starts,    \* analyses started
  claims     \* claims granted

mediaVars == <<record, at, seen, token, lapsed, purging, starts, claims>>

Status == {"processing", "ready", "failed"}
Place  == {"idle", "claim", "select", "update", "reread", "wait", "invalidate", "calling", "commit"}

NoRecord == [id |-> 0, status |-> "none", token |-> 0, until |-> "null",
             fresh |-> FALSE, valid |-> FALSE, by |-> 0, owner |-> 0]

\* A result stored by another version of the service may not parse any more.
Old(valid) == [NoRecord EXCEPT !.id = 1, !.status = "ready", !.fresh = TRUE, !.valid = valid]

MediaInit ==
  /\ record \in {NoRecord} \cup (IF Ages THEN {Old(TRUE), Old(FALSE)} ELSE {})
  /\ at = [w \in Worker |-> "idle"]
  /\ seen = [w \in Worker |-> 0]
  /\ token = [w \in Worker |-> 0]
  /\ lapsed = {} /\ purging = 0
  /\ starts = 0 /\ claims = 1

Exists == record.status # "none"
Goto(w, place) == at' = [at EXCEPT ![w] = place]

(***************************************************************************)
(* claim                                                                   *)
(***************************************************************************)
\* analyze: the process has no task for this identity yet.
Analyze(w) ==
  /\ at[w] = "idle" /\ starts < MaxStart
  /\ starts' = starts + 1
  /\ Goto(w, "claim")
  /\ UNCHANGED <<record, seen, token, lapsed, purging, claims>>

\* The loop's deadline, looked at before every claim.
TimedOut(w) ==
  /\ at[w] = "claim"
  /\ Goto(w, "idle")
  /\ UNCHANGED <<record, seen, token, lapsed, purging, starts, claims>>

\* w owns the provider call: record id, three minutes of lease.
Granted(w, id) ==
  LET t == claims + 1
  IN  /\ claims' = t
      /\ record' = [NoRecord EXCEPT !.id = id, !.status = "processing", !.token = t,
                                    !.until = "ahead", !.fresh = TRUE, !.owner = t]
      /\ token' = [token EXCEPT ![w] = t]
      /\ seen' = [seen EXCEPT ![w] = id]
      /\ Goto(w, "calling")

\* The insert succeeds, or meets the unique identity.
Insert(w) ==
  /\ at[w] = "claim"
  /\ IF Exists
     THEN Goto(w, "select") /\ UNCHANGED <<record, seen, token, claims>>
     ELSE Granted(w, claims + 1)
  /\ UNCHANGED <<lapsed, purging, starts>>

\* What a worker does with the record it read, when it may not claim it.
Served(w) == Goto(w, IF record.valid THEN "idle" ELSE "invalidate")

\* The record that was in the way is read: it is ready, in flight, cooling down or
\* free to take; it may also have disappeared, which is an error.
Select(w) ==
  /\ at[w] = "select"
  /\ \/ /\ ~Exists /\ Goto(w, "idle")
     \/ /\ record.status = "ready" /\ record.fresh /\ Served(w)
     \/ /\ record.status = "processing" /\ record.until = "ahead" /\ Goto(w, "wait")
     \/ /\ record.status = "failed" /\ record.until = "ahead" /\ Goto(w, "idle")
     \/ /\ Exists /\ record.until # "ahead" /\ ~(record.status = "ready" /\ record.fresh)
        /\ Goto(w, "update")
  /\ seen' = [seen EXCEPT ![w] = record.id]
  /\ UNCHANGED <<record, token, lapsed, purging, starts, claims>>

\* Where-clause of the conditional update.
Takeable(id) ==
  /\ Exists /\ record.id = id
  /\ record.status = "failed" \/ ~record.fresh \/ record.until \in {"null", "past"}

\* Mutant: a record in flight is taken over whatever its lease.
UpdateAnyway(w) ==
  /\ at[w] = "update"
  /\ IF Exists /\ record.id = seen[w]
     THEN Granted(w, record.id)
     ELSE Goto(w, "reread") /\ UNCHANGED <<record, seen, token, claims>>
  /\ UNCHANGED <<lapsed, purging, starts>>

Update(w) ==
  /\ at[w] = "update"
  /\ IF Takeable(seen[w])
     THEN Granted(w, record.id)
     ELSE Goto(w, "reread") /\ UNCHANGED <<record, seen, token, claims>>
  /\ UNCHANGED <<lapsed, purging, starts>>

\* The update lost: whatever won is read again.
Reread(w) ==
  /\ at[w] = "reread"
  /\ \/ ~Exists /\ Goto(w, "idle")
     \/ record.status = "ready" /\ record.fresh /\ Served(w)
     \/ record.status = "failed" /\ Goto(w, "idle")
     \/ /\ record.status = "processing" \/ (record.status = "ready" /\ ~record.fresh)
        /\ Goto(w, "wait")
  /\ seen' = [seen EXCEPT ![w] = record.id]
  /\ UNCHANGED <<record, token, lapsed, purging, starts, claims>>

(***************************************************************************)
(* The owner of the call, and those who wait                               *)
(***************************************************************************)

\* complete and fail write only for the current lease of the record.
Holds(w) == record.status = "processing" /\ record.id = seen[w] /\ record.token = token[w]

ProviderAnswers(w) ==
  /\ at[w] = "calling"
  /\ Goto(w, "commit")
  /\ UNCHANGED <<record, seen, token, lapsed, purging, starts, claims>>

\* complete; a caller who lost the lease gets an error instead.
Complete(w) ==
  /\ at[w] = "commit"
  /\ record' = IF ~Holds(w) THEN record
               ELSE [record EXCEPT !.status = "ready", !.token = 0, !.until = "null",
                                   !.fresh = TRUE, !.valid = TRUE, !.by = token[w]]
  /\ Goto(w, "idle") /\ token' = [token EXCEPT ![w] = 0]
  /\ UNCHANGED <<seen, lapsed, purging, starts, claims>>

\* fail: the record cools down for thirty seconds.
ProviderFails(w) ==
  /\ at[w] = "calling"
  /\ record' = IF ~Holds(w) THEN record
               ELSE [record EXCEPT !.status = "failed", !.token = 0, !.until = "ahead",
                                   !.fresh = TRUE, !.by = token[w]]
  /\ Goto(w, "idle") /\ token' = [token EXCEPT ![w] = 0]
  /\ UNCHANGED <<seen, lapsed, purging, starts, claims>>

\* Mutant: a waiter joins whatever it finds in flight for good.
PollJoining(w) ==
  /\ at[w] = "wait"
  /\ \/ record.status = "ready" /\ record.fresh /\ Served(w)
     \/ record.status = "ready" /\ ~record.fresh /\ Goto(w, "invalidate")
     \/ record.status = "failed" /\ Goto(w, "idle")
     \/ ~Exists /\ Goto(w, "claim")
  /\ seen' = [seen EXCEPT ![w] = record.id]
  /\ UNCHANGED <<record, token, lapsed, purging, starts, claims>>

\* A waiter polls the record: a result, a recent failure, or another round.
Poll(w) ==
  /\ at[w] = "wait"
  /\ \/ record.status = "ready" /\ record.fresh /\ Served(w)
     \/ record.status = "ready" /\ ~record.fresh /\ Goto(w, "invalidate")
     \/ record.status = "failed" /\ record.until = "ahead" /\ Goto(w, "idle")
     \/ /\ record.status \in {"none", "processing"}
             \/ (record.status = "failed" /\ record.until = "past")
        /\ Goto(w, "claim")
  /\ seen' = [seen EXCEPT ![w] = record.id]
  /\ UNCHANGED <<record, token, lapsed, purging, starts, claims>>

\* invalidate: the record the worker read is deleted, whatever it holds by now.
Invalidate(w) ==
  /\ at[w] = "invalidate"
  /\ record' = IF record.id = seen[w] THEN NoRecord ELSE record
  /\ Goto(w, "claim")
  /\ UNCHANGED <<seen, token, lapsed, purging, starts, claims>>

(***************************************************************************)
(* Purging, time, crashes                                                  *)
(***************************************************************************)
\* purge_expired, after any analysis: expired records are selected, then deleted.
PurgeSelect ==
  /\ purging = 0 /\ Exists /\ ~record.fresh
  /\ purging' = record.id
  /\ UNCHANGED <<record, at, seen, token, lapsed, starts, claims>>

PurgeDelete ==
  /\ purging # 0
  /\ record' = IF record.id = purging THEN NoRecord ELSE record
  /\ purging' = 0
  /\ UNCHANGED <<at, seen, token, lapsed, starts, claims>>

\* The lease or the cooldown ends.
Lapse ==
  /\ record.until = "ahead"
  /\ record' = [record EXCEPT !.until = "past"]
  /\ lapsed' = lapsed \cup ({record.token} \ {0})
  /\ UNCHANGED <<at, seen, token, purging, starts, claims>>

\* Thirty days pass without anybody reading the record.
Expire ==
  /\ Ages /\ Exists /\ record.fresh /\ record.until # "ahead"
  /\ record' = [record EXCEPT !.fresh = FALSE]
  /\ UNCHANGED <<at, seen, token, lapsed, purging, starts, claims>>

\* The process dies; its lease remains.
Crash(w) ==
  /\ at[w] # "idle"
  /\ Goto(w, "idle") /\ token' = [token EXCEPT ![w] = 0]
  /\ UNCHANGED <<record, seen, lapsed, purging, starts, claims>>

(***************************************************************************)
(* Specification                                                           *)
(***************************************************************************)
Proceed(w) ==
  \/ Insert(w) \/ Select(w) \/ Update(w) \/ Reread(w) \/ Poll(w) \/ Invalidate(w) \/ Complete(w)

MediaNext ==
  \/ \E w \in Worker : \/ Analyze(w) \/ TimedOut(w) \/ Proceed(w)
                       \/ ProviderAnswers(w) \/ ProviderFails(w) \/ Crash(w)
  \/ PurgeSelect \/ PurgeDelete
  \/ Lapse \/ Expire

MediaSpec == MediaInit /\ [][MediaNext]_mediaVars

(***************************************************************************)
(* Properties                                                              *)
(***************************************************************************)
\* Shapes of the record and of the workers: a record has a lease token exactly while it
\* is processing, and no lease or cooldown once it is ready.
MediaTypeOK ==
  /\ record \in [id : 1 .. claims, status : Status, token : 0 .. claims,
                 until : {"null", "ahead", "past"}, fresh : BOOLEAN, valid : BOOLEAN,
                 by : 0 .. claims, owner : 0 .. claims] \cup {NoRecord}
  /\ record.token # 0 <=> record.status = "processing"
  /\ record.until = "null" <=> record.status \in {"none", "ready"}
  /\ at \in [Worker -> Place]
  /\ seen \in [Worker -> 0 .. claims] /\ token \in [Worker -> 0 .. claims]
  /\ lapsed \subseteq 1 .. claims /\ purging \in 0 .. claims
  /\ starts \in 0 .. MaxStart /\ claims \in Nat \ {0}

\* A lease that is not over is respected: while a worker calls the provider the record
\* it claimed carries its token, unless the three minutes ran out or the record was deleted
\* (the where-clause of claim, read and updated in different statements); and a stored
\* outcome was written by the last worker that claimed the record (complete, fail).
LeaseRespected ==
  /\ \A w \in Worker :
       /\ at[w] \in {"calling", "commit"}
       /\ record.id = seen[w]
       /\ record.token # token[w]
       => token[w] \in lapsed
  /\ record.by # 0 => record.by = record.owner

\* A worker that died or stalled does not lock the media for ever: whoever waits gets
\* an outcome, or the call.
NotLocked == \A w \in Worker : at[w] = "wait" ~> at[w] \in {"idle", "calling"}
=============================================================================
