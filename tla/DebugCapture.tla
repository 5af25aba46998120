---------------------------- MODULE DebugCapture ----------------------------
(***************************************************************************)
(* The temporary capture of Discord ingress payloads for a Super Admin:    *)
(* the process-memory store of discord_debug_capture.py, the admin         *)
(* endpoints that start, stop, read and clear a session, and the connector *)
(* endpoints that capture a message and later record its outcome.  The     *)
(* store holds each record in four places (the records, one list of all of *)
(* them, one list per session, the keys that make a capture unique) and    *)
(* keeps counters beside them; every method runs under one lock, so a      *)
(* method is a step, and an endpoint that calls two methods is two.        *)
(***************************************************************************)
EXTENDS Naturals, Sequences, FiniteSets, FiniteSetsExt, SequencesExt

CONSTANTS
  Server,            \* connection and guild of a server profile
  CaptureKey,       \* message, deployment, operation and step of an ingress call
  MaxSessionIds,    \* sessions ever started
  MaxRecordIds,     \* records ever captured
  MaxRecordsPer, MaxBytesPer,        \* limits of a session
  MaxRecordsGlobal, MaxBytesGlobal,  \* limits of the process
  MaxSessions,      \* sessions the process keeps
  Ingress,          \* ingress requests under way at one time
  Reviewer          \* admin requests under way at one time

ASSUME CaptureAssumption ==
  \A n \in {MaxRecordsPer, MaxBytesPer, MaxRecordsGlobal, MaxBytesGlobal, MaxSessions} : n \in Nat \ {0}

SessionId == 1 .. MaxSessionIds
RecordId == 1 .. MaxRecordIds

VARIABLES
  store,      \* the dictionaries and lists of InMemoryDiscordDebugCaptureStore
  overdue,    \* sessions whose expires_at has passed
  ingress,    \* the record an ingress request was given, 0 when it was given none
  review,     \* what an admin request has read and not yet acted on
  issued,     \* identifiers handed out: [session, record]
  refused     \* sessions whose start could not be audited

captureVars == <<store, overdue, ingress, review, issued, refused>>

NoReview == [op |-> "none", session |-> 0]

\* DiscordDebugCaptureSession; "stopped" wins over "expired" in status_at.
NewSession(c) == [scope |-> c, stopped |-> FALSE, count |-> 0, bytes |-> 0, evicted |-> 0]
StatusAt(st, s) ==
  CASE st.sessions[s].stopped -> "stopped" [] s \in overdue -> "expired" [] OTHER -> "active"

EmptyStore ==
  [sessions |-> <<>>, records |-> <<>>, all |-> <<>>, of |-> <<>>, keys |-> <<>>, active |-> <<>>]

\* Dictionaries are functions on the identifiers they hold.
With(f, k, v) == [x \in DOMAIN f \cup {k} |-> IF x = k THEN v ELSE f[x]]
Less(f, S) == [x \in DOMAIN f \ S |-> f[x]]
Bytes(st, S) == MapThenSumSet(LAMBDA r : st.records[r].size, S)

----------------------------------------------------------------------------
\* _refresh_session_usage_locked recounts a session from its list.
Refresh(st, s) ==
  [st EXCEPT !.sessions[s].count = Len(st.of[s]), !.sessions[s].bytes = Bytes(st, Range(st.of[s]))]

\* _remove_record_locked takes records out of all four places.
RemoveRecords(st, S) ==
  [st EXCEPT !.records = Less(@, S),
             !.all = SelectSeq(@, LAMBDA r : r \notin S),
             !.of = [s \in DOMAIN @ |-> SelectSeq(@[s], LAMBDA r : r \notin S)],
             !.keys = Less(@, {st.records[r].key : r \in S})]

\* _clear_session_records_locked.
ClearSession(st, s) == Refresh(RemoveRecords(st, Range(st.of[s])), s)

\* _release_scope_locked.
ReleaseScope(st, s) ==
  LET c == st.sessions[s].scope
  IN IF c \in DOMAIN st.active /\ st.active[c] = s THEN [st EXCEPT !.active = Less(@, {c})] ELSE st

ForgetSessions(st, S) == [st EXCEPT !.sessions = Less(@, S), !.of = Less(@, S)]

\* _prune_expired_locked, with which every method but discard_session begins.
PruneExpired(st) ==
  FoldSet(LAMBDA s, acc : ClearSession(ReleaseScope(acc, s), s), st, DOMAIN st.sessions \cap overdue)

\* The records a limit evicts, oldest first: as few as bring the list under it.
Evictions(st, ids, records, bytes) ==
  LET fits(k) == Len(ids) - k <= records /\ Bytes(st, Range(SubSeq(ids, k + 1, Len(ids)))) <= bytes
  IN Range(SubSeq(ids, 1, Min({k \in 0 .. Len(ids) : fits(k)})))

\* _enforce_capacity_locked.
EnforceCapacity(st, s) ==
  LET out == Evictions(st, st.of[s], MaxRecordsPer, MaxBytesPer)
      smaller == Refresh(RemoveRecords(st, out), s)
  IN [smaller EXCEPT !.sessions[s].evicted = @ + Cardinality(out)]

\* Mutant: the sessions that lose records to the process-wide limit are not recounted.
EnforceGlobalUncounted(st) ==
  LET out == Evictions(st, st.all, MaxRecordsGlobal, MaxBytesGlobal)
      lost(s) == Cardinality(out \cap Range(st.of[s]))
      smaller == RemoveRecords(st, out)
  IN [smaller EXCEPT !.sessions = [s \in DOMAIN @ |-> [@[s] EXCEPT !.evicted = @ + lost(s)]]]

\* _enforce_global_capacity_locked.
EnforceGlobalCapacity(st) ==
  LET out == Evictions(st, st.all, MaxRecordsGlobal, MaxBytesGlobal)
      lost(s) == Cardinality(out \cap Range(st.of[s]))
      smaller == FoldSet(LAMBDA s, acc : Refresh(acc, s), RemoveRecords(st, out),
                         {s \in DOMAIN st.sessions : lost(s) > 0})
  IN [smaller EXCEPT !.sessions = [s \in DOMAIN @ |-> [@[s] EXCEPT !.evicted = @ + lost(s)]]]

\* _make_session_slot_locked: only sessions that ran out make room, the oldest first.
SlotMakers(st) ==
  LET old == {s \in DOMAIN st.sessions : StatusAt(st, s) = "expired"}
      surplus == Cardinality(DOMAIN st.sessions) - (MaxSessions - 1)
  IN {s \in old : Cardinality({t \in old : t < s}) < surplus}

----------------------------------------------------------------------------
\* start_session: refused while the scope has an active session; what earlier sessions of the
\* scope captured goes, and they with it.
HasActive(st, c) ==
  c \in DOMAIN st.active /\ st.active[c] \in DOMAIN st.sessions /\ StatusAt(st, st.active[c]) = "active"

OpenSession(c) ==
  LET pruned == PruneExpired(store)
      earlier == {s \in DOMAIN pruned.sessions : pruned.sessions[s].scope = c}
      cleared == ForgetSessions(FoldSet(LAMBDA s, acc : ClearSession(acc, s), pruned, earlier), earlier)
      roomy == ForgetSessions(cleared, SlotMakers(cleared))
      s == issued.session + 1
  IN IF HasActive(pruned, c) THEN store' = pruned /\ UNCHANGED issued
     ELSE IF Cardinality(DOMAIN roomy.sessions) >= MaxSessions THEN store' = roomy /\ UNCHANGED issued
     ELSE /\ issued' = [issued EXCEPT !.session = s]
          /\ store' = [roomy EXCEPT !.sessions = With(@, s, NewSession(c)), !.of = With(@, s, <<>>),
                                    !.active = With(@, c, s)]

\* start_discord_debug_capture_session: the session is open before its start is audited.
StartSession(v, c) ==
  /\ review[v] = NoReview /\ issued.session < MaxSessionIds
  /\ OpenSession(c)
  /\ review' = IF issued'.session = issued.session THEN review
               ELSE [review EXCEPT ![v] = [op |-> "start", session |-> issued'.session]]
  /\ UNCHANGED <<overdue, ingress, refused>>

Holds(v, op) == review[v].op = op
Answered(v) == review' = [review EXCEPT ![v] = NoReview]

AuditStart(v) ==
  /\ Holds(v, "start") /\ Answered(v)
  /\ UNCHANGED <<store, overdue, ingress, issued, refused>>

\* discard_session, when the audit failed: the one method that does not prune.
DiscardSession(v) ==
  LET s == review[v].session IN
  /\ Holds(v, "start") /\ Answered(v)
  /\ store' = IF s \in DOMAIN store.sessions
              THEN ForgetSessions(ClearSession(ReleaseScope(store, s), s), {s}) ELSE store
  /\ refused' = refused \cup {s}
  /\ UNCHANGED <<overdue, ingress, issued>>

\* get_session and list_records, the first half of the stop and clear endpoints; the audit of
\* either comes before its effect and may fail.
ReadSession(v, op) ==
  /\ review[v] = NoReview /\ op \in {"stop", "clear"}
  /\ \E s \in DOMAIN store.sessions :
       /\ store' = PruneExpired(store)
       /\ review' = [review EXCEPT ![v] = [op |-> op, session |-> s]]
  /\ UNCHANGED <<overdue, ingress, issued, refused>>

AuditFails(v) ==
  /\ review[v].op \in {"stop", "clear"} /\ Answered(v)
  /\ UNCHANGED <<store, overdue, ingress, issued, refused>>

\* stop_session.
StopSession(v) ==
  LET s == review[v].session
      pruned == PruneExpired(store)
  IN
  /\ Holds(v, "stop") /\ Answered(v)
  /\ store' = IF s \notin DOMAIN pruned.sessions THEN pruned
              ELSE ReleaseScope([pruned EXCEPT !.sessions[s].stopped = @ \/ s \notin overdue], s)
  /\ UNCHANGED <<overdue, ingress, issued, refused>>

\* clear_records.
ClearRecords(v) ==
  LET s == review[v].session
      pruned == PruneExpired(store)
  IN
  /\ Holds(v, "clear") /\ Answered(v)
  /\ store' = IF s \in DOMAIN pruned.sessions THEN ClearSession(pruned, s) ELSE pruned
  /\ UNCHANGED <<overdue, ingress, issued, refused>>

\* current_session, list_records and get_record change nothing but what they prune.
ReadCaptures ==
  /\ store' = PruneExpired(store)
  /\ UNCHANGED <<overdue, ingress, review, issued, refused>>

----------------------------------------------------------------------------
\* capture, called by the message and durable-step endpoints before the turn.  A call that was
\* captured already is given the record it has.
Added(st, s, r, key, size) ==
  [st EXCEPT !.records = With(@, r, [session |-> s, key |-> key, size |-> size, outcome |-> "pending"]),
             !.all = Append(@, r), !.of[s] = Append(@, r), !.keys = With(@, key, r)]

Capture(i, c, k, size) ==
  LET pruned == PruneExpired(store)
      s == pruned.active[c]
      key == <<s, k>>
      r == issued.record + 1
      added == EnforceGlobalCapacity(EnforceCapacity(Refresh(Added(pruned, s, r, key, size), s), s))
  IN
  /\ ingress[i] = 0
  /\ IF ~HasActive(pruned, c)
     THEN store' = pruned /\ UNCHANGED <<issued, ingress>>
     ELSE IF key \in DOMAIN pruned.keys
     THEN /\ store' = pruned /\ UNCHANGED issued
          /\ ingress' = [ingress EXCEPT ![i] = pruned.keys[key]]
     ELSE /\ r \in RecordId /\ issued' = [issued EXCEPT !.record = r]
          /\ store' = added
          /\ ingress' = [ingress EXCEPT ![i] = IF r \in DOMAIN added.records THEN r ELSE 0]
  /\ UNCHANGED <<overdue, review, refused>>

\* mark_outcome, once the turn has answered: the record may be gone by then.
MarkOutcome(i) ==
  LET pruned == PruneExpired(store) IN
  /\ ingress[i] # 0 /\ ingress' = [ingress EXCEPT ![i] = 0]
  /\ \E o \in {"succeeded", "failed"} :
       store' = IF ingress[i] \in DOMAIN pruned.records
                THEN [pruned EXCEPT !.records[ingress[i]].outcome = o] ELSE pruned
  /\ UNCHANGED <<overdue, review, issued, refused>>

SessionExpires ==
  /\ \E s \in DOMAIN store.sessions \ overdue : overdue' = overdue \cup {s}
  /\ UNCHANGED <<store, ingress, review, issued, refused>>

\* All payloads disappear with the process.
CaptureRestart ==
  /\ store # EmptyStore /\ store' = EmptyStore
  /\ ingress' = [i \in Ingress |-> 0] /\ review' = [v \in Reviewer |-> NoReview]
  /\ UNCHANGED <<overdue, issued, refused>>

CaptureInit ==
  /\ store = EmptyStore /\ overdue = {} /\ refused = {}
  /\ ingress = [i \in Ingress |-> 0] /\ review = [v \in Reviewer |-> NoReview]
  /\ issued = [session |-> 0, record |-> 0]

CaptureNext ==
  \/ \E v \in Reviewer :
       \/ \E c \in Server : StartSession(v, c)
       \/ AuditStart(v) \/ DiscardSession(v) \/ AuditFails(v) \/ StopSession(v) \/ ClearRecords(v)
       \/ \E op \in {"stop", "clear"} : ReadSession(v, op)
  \/ \E i \in Ingress :
       \/ MarkOutcome(i)
       \/ \E c \in Server, k \in CaptureKey, size \in 1 .. 2 : Capture(i, c, k, size)
  \/ ReadCaptures \/ SessionExpires \/ CaptureRestart

----------------------------------------------------------------------------
\* The places a record is held in agree after every method, whatever was evicted, cleared, pruned
\* or discarded in between (InMemoryDiscordDebugCaptureStore): the list of all records, the lists
\* of the sessions and the unique keys name exactly the records there are; the counters of a
\* session are those of its list and within its limits, and the process is within its own; a scope
\* has one session at most that can still be written to, the one _active_scopes names, and a
\* session whose start could not be audited holds nothing once it was discarded.
CaptureBounded ==
  /\ Range(store.all) = DOMAIN store.records /\ Len(store.all) = Cardinality(DOMAIN store.records)
  /\ \A s \in DOMAIN store.of :
       store.of[s] = SelectSeq(store.all, LAMBDA r : store.records[r].session = s)
  /\ \A r \in DOMAIN store.records :
       /\ store.records[r].session \in DOMAIN store.sessions
       /\ store.keys[store.records[r].key] = r
  /\ Cardinality(DOMAIN store.keys) = Cardinality(DOMAIN store.records)
  /\ \A s \in DOMAIN store.sessions :
       /\ store.sessions[s].count = Len(store.of[s]) /\ store.sessions[s].count <= MaxRecordsPer
       /\ store.sessions[s].bytes = Bytes(store, Range(store.of[s])) /\ store.sessions[s].bytes <= MaxBytesPer
  /\ Len(store.all) <= MaxRecordsGlobal /\ Bytes(store, DOMAIN store.records) <= MaxBytesGlobal
  /\ Cardinality(DOMAIN store.sessions) <= MaxSessions
  /\ \A s \in DOMAIN store.sessions :
       StatusAt(store, s) = "active" =>
         /\ store.sessions[s].scope \in DOMAIN store.active
         /\ store.active[store.sessions[s].scope] = s
  /\ refused \cap DOMAIN store.sessions = {}
=============================================================================
