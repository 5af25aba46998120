--------------------------- MODULE BackgroundProofs ---------------------------
(***************************************************************************)
(* Three kinds of work that go on behind the turns.                        *)
(*                                                                         *)
(* The lease of a media analysis, for every set of workers and any number  *)
(* of analyses: whoever calls the provider owns the record unless its      *)
(* lease ended or the record was deleted, and a stored outcome comes from  *)
(* the last worker that claimed the record.                                *)
(*                                                                         *)
(* LeaseRespected is not inductive by itself.  The conditional update of   *)
(* claim looks at the record and not at the workers: what keeps it from    *)
(* taking a running lease is that a lease which is ahead is fresh and has  *)
(* not lapsed (LeaseTrue), and what keeps complete and fail from writing   *)
(* for somebody else is that no two workers hold the same token            *)
(* (TokensApart).                                                          *)
(*                                                                         *)
(* The evaluation matrix: no task is executed by two children at once, for *)
(* any number of tasks, calls of run_matrix, requests, exceptions, stops.  *)
(*                                                                         *)
(* Reminders and condition watches, for every set of them, every attempt   *)
(* budget and any number of restarts: a reminder is not posted more often  *)
(* than its attempts and recoveries allow, and a watch queues one          *)
(* notification and one more per restart at most.  Neither is inductive:   *)
(* RetriesBounded needs the count of the claims in between (Accounted),    *)
(* NoticesMatch needs where the watch loop stands (NoticesAccounted).      *)
(***************************************************************************)
EXTENDS MediaSingleFlight, EvaluationMatrix, Reminders, FiniteSetTheorems, TLAPS

-----------------------------------------------------------------------------
(* The lease of a media analysis                                            *)

\* A worker has a lease token exactly while it calls the provider or commits, together
\* with the identifier of the record it claimed, and no two workers have the same.
TokensApart ==
  /\ \A w \in Worker : token[w] # 0 <=> at[w] \in {"calling", "commit"}
  /\ \A w \in Worker : token[w] # 0 => seen[w] # 0
  /\ \A v, w \in Worker : token[v] # 0 /\ token[v] = token[w] => v = w

\* The lease of the record is running, or it is known to have lapsed; its token is that of
\* the last claim.
LeaseTrue ==
  /\ record.until = "ahead" => record.fresh
  /\ record.token # 0 /\ record.until = "past" => record.token \in lapsed
  /\ record.token # 0 => record.owner = record.token

MediaInv == MediaTypeOK /\ TokensApart /\ LeaseTrue /\ LeaseRespected

\* A record some earlier version of the service left.
LEMMA OldIs ==
  ASSUME NEW v \in BOOLEAN, NEW r, r = Old(v)
  PROVE  r = [id |-> 1, status |-> "ready", token |-> 0, until |-> "null", fresh |-> TRUE,
              valid |-> v, by |-> 0, owner |-> 0]
  BY DEF Old, NoRecord

LEMMA MediaInitInv == MediaInit => MediaInv
<1> SUFFICES ASSUME MediaInit PROVE MediaInv
  OBVIOUS
<1> USE MediaAssumption DEF MediaInit
<1>0. CASE record = NoRecord
  <2>1. MediaTypeOK
    BY <1>0 DEF MediaTypeOK, NoRecord, Place
  <2> QED BY <2>1, <1>0 DEF MediaInv, TokensApart, LeaseTrue, LeaseRespected, NoRecord
<1>1. ASSUME NEW v \in BOOLEAN, record = Old(v) PROVE MediaInv
  <2>1. record = [id |-> 1, status |-> "ready", token |-> 0, until |-> "null", fresh |-> TRUE,
                  valid |-> v, by |-> 0, owner |-> 0]
    BY <1>1, OldIs
  <2>2. record \in [id : 1 .. claims, status : Status, token : 0 .. claims,
                    until : {"null", "ahead", "past"}, fresh : BOOLEAN, valid : BOOLEAN,
                    by : 0 .. claims, owner : 0 .. claims]
    BY <2>1 DEF Status
  <2>3. MediaTypeOK
    BY <2>1, <2>2 DEF MediaTypeOK, Place
  <2> QED BY <2>1, <2>3 DEF MediaInv, TokensApart, LeaseTrue, LeaseRespected
<1> QED BY <1>0, <1>1

\* A claim that is granted: nobody else's lease was running.
LEMMA GrantKeeps ==
  ASSUME MediaInv, NEW w \in Worker, NEW id \in 1 .. claims + 1, Granted(w, id),
         at[w] \in {"claim", "update"},
         (id = claims + 1 /\ ~Exists) \/ Takeable(id),
         UNCHANGED <<lapsed, purging, starts>>
  PROVE  MediaInv'
<1> USE DEF MediaInv, Goto
<1>1. record' = [id |-> id, status |-> "processing", token |-> claims + 1, until |-> "ahead",
                 fresh |-> TRUE, valid |-> FALSE, by |-> 0, owner |-> claims + 1]
  BY DEF Granted, NoRecord
<1>2. claims' = claims + 1 /\ claims \in Nat \ {0}
  BY DEF Granted, MediaTypeOK
<1>3. /\ at' = [at EXCEPT ![w] = "calling"] /\ seen' = [seen EXCEPT ![w] = id]
      /\ token' = [token EXCEPT ![w] = claims + 1]
  BY DEF Granted
<1>4. MediaTypeOK'
  <2>1. record' \in [id : 1 .. claims', status : Status, token : 0 .. claims',
                 until : {"null", "ahead", "past"}, fresh : BOOLEAN, valid : BOOLEAN,
                 by : 0 .. claims', owner : 0 .. claims']
    BY <1>1, <1>2 DEF Status
  <2>2. at' \in [Worker -> Place]
    BY <1>3 DEF MediaTypeOK, Place
  <2>3. seen' \in [Worker -> 0 .. claims'] /\ token' \in [Worker -> 0 .. claims']
    BY <1>2, <1>3 DEF MediaTypeOK
  <2>4. lapsed' \subseteq 1 .. claims' /\ purging' \in 0 .. claims'
    BY <1>2 DEF MediaTypeOK
  <2> QED BY <1>1, <1>2, <2>1, <2>2, <2>3, <2>4 DEF MediaTypeOK
<1>5. TokensApart'
  BY <1>2, <1>3 DEF TokensApart, MediaTypeOK
<1>6. LeaseTrue'
  BY <1>1, <1>2 DEF LeaseTrue
<1>7. LeaseRespected'
  <2> SUFFICES ASSUME NEW v \in Worker, at'[v] \in {"calling", "commit"}, record'.id = seen'[v],
                      record'.token # token'[v]
               PROVE  token'[v] \in lapsed
    BY <1>1 DEF LeaseRespected
  <2>1. v # w /\ seen[v] = id /\ token[v] # 0 /\ token'[v] = token[v]
    BY <1>1, <1>3 DEF TokensApart, MediaTypeOK
  <2>2. Takeable(id)
    BY <2>1 DEF MediaTypeOK
  <2>3. at[v] \in {"calling", "commit"} /\ record.id = seen[v] /\ lapsed' = lapsed
    BY <1>3, <2>1, <2>2 DEF Takeable, MediaTypeOK
  <2>4. CASE record.token # token[v]
    BY <2>1, <2>3, <2>4 DEF LeaseRespected
  <2>5. CASE record.token = token[v]
    <3>1. record.status = "processing" /\ record.until \in {"ahead", "past"}
      BY <2>1, <2>5 DEF MediaTypeOK, NoRecord
    <3>2. record.until = "past"
      BY <2>2, <3>1 DEF Takeable, LeaseTrue
    <3> QED BY <2>1, <2>3, <2>5, <3>2 DEF LeaseTrue
  <2> QED BY <2>4, <2>5
<1> QED BY <1>4, <1>5, <1>6, <1>7

\* A step that leaves the record alone and hands out no token.
LEMMA WorkerMoves ==
  ASSUME MediaInv, NEW w \in Worker, NEW place \in Place \ {"calling", "commit"},
         UNCHANGED <<record, lapsed, claims>>,
         at' = [at EXCEPT ![w] = place],
         seen' = seen \/ (token[w] = 0 /\ seen' = [seen EXCEPT ![w] = record.id]),
         token' = [token EXCEPT ![w] = 0],
         starts' \in 0 .. MaxStart, purging' \in 0 .. claims
  PROVE  MediaInv'
<1> USE DEF MediaInv
<1>0. seen' \in [Worker -> 0 .. claims] /\ \A v \in Worker \ {w} : seen'[v] = seen[v]
  BY DEF MediaTypeOK, NoRecord
<1>1. MediaTypeOK'
  <2>1. at' \in [Worker -> Place] /\ token' \in [Worker -> 0 .. claims]
    BY DEF MediaTypeOK
  <2> QED BY <1>0, <2>1 DEF MediaTypeOK, NoRecord
<1>2. TokensApart'
  BY <1>0 DEF TokensApart, MediaTypeOK
<1>3. LeaseTrue' /\ LeaseRespected'
  BY <1>0 DEF LeaseTrue, LeaseRespected, MediaTypeOK
<1> QED BY <1>1, <1>2, <1>3

\* A record is settled by the holder of its lease, who is then idle.
LEMMA SettleKeeps ==
  ASSUME MediaInv, NEW w \in Worker, Holds(w), token[w] # 0,
         NEW st \in {"ready", "failed"}, NEW until \in {"null", "ahead"}, NEW valid \in BOOLEAN,
         until = "null" <=> st = "ready",
         record' = [id |-> record.id, status |-> st, token |-> 0, until |-> until, fresh |-> TRUE,
                    valid |-> valid, by |-> token[w], owner |-> record.owner],
         at' = [at EXCEPT ![w] = "idle"], token' = [token EXCEPT ![w] = 0],
         UNCHANGED <<seen, lapsed, purging, starts, claims>>
  PROVE  MediaInv'
<1> USE DEF MediaInv
<1>1. record'.token = 0 /\ record'.id = record.id /\ record'.by = token[w]
  OBVIOUS
<1>2. MediaTypeOK'
  <2>1. record' \in [id : 1 .. claims', status : Status, token : 0 .. claims',
                     until : {"null", "ahead", "past"}, fresh : BOOLEAN, valid : BOOLEAN,
                     by : 0 .. claims', owner : 0 .. claims']
    BY DEF MediaTypeOK, Holds, NoRecord, Status
  <2>2. at' \in [Worker -> Place] /\ token' \in [Worker -> 0 .. claims']
    BY DEF MediaTypeOK, Place
  <2> QED BY <2>1, <2>2 DEF MediaTypeOK
<1>3. TokensApart'
  BY DEF TokensApart, MediaTypeOK
<1>4. LeaseTrue'
  BY DEF LeaseTrue
<1>5. LeaseRespected'
  <2>1. record.token = token[w] /\ record'.owner = record.token
    BY DEF Holds, LeaseTrue
  <2>2. ASSUME NEW v \in Worker, at'[v] \in {"calling", "commit"}, record'.id = seen'[v]
        PROVE  token'[v] \in lapsed
    <3>1. v # w /\ token'[v] = token[v] /\ token[v] # 0 /\ at[v] = at'[v]
      BY <2>2 DEF TokensApart, MediaTypeOK
    <3>2. record.token # token[v]
      BY <2>1, <3>1 DEF TokensApart
    <3> QED BY <2>2, <3>1, <3>2 DEF LeaseRespected
  <2> QED BY <1>1, <2>1, <2>2 DEF LeaseRespected
<1> QED BY <1>2, <1>3, <1>4, <1>5

\* A record may be deleted under whoever works on it.
LEMMA DeletionKeeps ==
  ASSUME MediaInv, record' = NoRecord,
         \/ UNCHANGED <<at, token>>
         \/ \E w \in Worker : token[w] = 0 /\ at' = [at EXCEPT ![w] = "claim"] /\ UNCHANGED token,
         UNCHANGED <<seen, lapsed, starts, claims>>,
         purging' \in {0, purging}
  PROVE  MediaInv'
<1> USE DEF MediaInv
<1>1. MediaTypeOK'
  BY DEF MediaTypeOK, NoRecord, Place
<1>2. TokensApart'
  BY DEF TokensApart, MediaTypeOK
<1>3. LeaseTrue' /\ LeaseRespected'
  BY <1>2 DEF LeaseTrue, LeaseRespected, NoRecord, TokensApart
<1> QED BY <1>1, <1>2, <1>3

\* A worker without a token may be written to hold none.
LEMMA Tokenless ==
  ASSUME MediaInv, NEW w \in Worker, at[w] \notin {"calling", "commit"}
  PROVE  token[w] = 0 /\ token = [token EXCEPT ![w] = 0]
  BY DEF MediaInv, TokensApart, MediaTypeOK

LEMMA WorkerStep ==
  ASSUME MediaInv, NEW w \in Worker,
         Analyze(w) \/ TimedOut(w) \/ Select(w) \/ Reread(w) \/ Poll(w) \/ Crash(w)
  PROVE  MediaInv'
<1> USE DEF Goto, Place
<1>1. starts \in 0 .. MaxStart /\ purging \in 0 .. claims /\ MaxStart \in Nat
  BY MediaAssumption DEF MediaInv, MediaTypeOK
<1>2. CASE Analyze(w)
  <2>1. starts' \in 0 .. MaxStart
    BY <1>1, <1>2 DEF Analyze
  <2> QED BY <1>1, <1>2, <2>1, Tokenless, WorkerMoves DEF Analyze
<1>3. CASE TimedOut(w)
  BY <1>1, <1>3, Tokenless, WorkerMoves DEF TimedOut
<1>4. CASE Select(w)
  <2>1. PICK place \in {"idle", "invalidate", "wait", "update"} : at' = [at EXCEPT ![w] = place]
    BY <1>4 DEF Select, Served
  <2> QED BY <1>1, <1>4, <2>1, Tokenless, WorkerMoves DEF Select
<1>5. CASE Reread(w)
  <2>1. PICK place \in {"idle", "invalidate", "wait"} : at' = [at EXCEPT ![w] = place]
    BY <1>5 DEF Reread, Served
  <2> QED BY <1>1, <1>5, <2>1, Tokenless, WorkerMoves DEF Reread
<1>6. CASE Poll(w)
  <2>1. PICK place \in {"idle", "invalidate", "claim"} : at' = [at EXCEPT ![w] = place]
    BY <1>6 DEF Poll, Served
  <2> QED BY <1>1, <1>6, <2>1, Tokenless, WorkerMoves DEF Poll
<1>7. CASE Crash(w)
  BY <1>1, <1>7, WorkerMoves DEF Crash
<1> QED BY <1>2, <1>3, <1>4, <1>5, <1>6, <1>7

LEMMA ClaimStep ==
  ASSUME MediaInv, NEW w \in Worker, Insert(w) \/ Update(w)
  PROVE  MediaInv'
<1>1. /\ starts \in 0 .. MaxStart /\ purging \in 0 .. claims /\ claims \in Nat \ {0}
      /\ seen[w] \in 0 .. claims
      /\ Exists => record.id \in 1 .. claims
  BY DEF MediaInv, MediaTypeOK, Exists, NoRecord
<1>2. CASE at[w] = "claim" /\ ~Exists /\ Granted(w, claims + 1) /\ UNCHANGED <<lapsed, purging, starts>>
  BY <1>1, <1>2, GrantKeeps
<1>3. CASE at[w] = "update" /\ Takeable(seen[w]) /\ Granted(w, record.id)
           /\ UNCHANGED <<lapsed, purging, starts>>
  BY <1>1, <1>3, GrantKeeps DEF Takeable
<1>4. CASE \E place \in {"select", "reread"} :
             /\ at[w] \in {"claim", "update"} /\ Goto(w, place)
             /\ UNCHANGED <<record, seen, token, claims, lapsed, purging, starts>>
  <2>1. PICK place \in {"select", "reread"} : at' = [at EXCEPT ![w] = place]
    BY <1>4 DEF Goto
  <2>2. place \in Place \ {"calling", "commit"}
    BY DEF Place
  <2> QED BY <1>1, <1>4, <2>1, <2>2, Tokenless, WorkerMoves
<1> QED BY <1>2, <1>3, <1>4 DEF Insert, Update

LEMMA OwnerStep ==
  ASSUME MediaInv, NEW w \in Worker,
         ProviderAnswers(w) \/ Complete(w) \/ ProviderFails(w) \/ Invalidate(w)
  PROVE  MediaInv'
<1>0. starts \in 0 .. MaxStart /\ purging \in 0 .. claims
  BY DEF MediaInv, MediaTypeOK
<1>1. CASE ProviderAnswers(w)
  <2>1. MediaTypeOK'
    BY <1>1 DEF ProviderAnswers, Goto, MediaInv, MediaTypeOK, Place, NoRecord
  <2>2. TokensApart'
    BY <1>1 DEF ProviderAnswers, Goto, MediaInv, MediaTypeOK, TokensApart
  <2>3. LeaseTrue' /\ LeaseRespected'
    BY <1>1 DEF ProviderAnswers, Goto, MediaInv, MediaTypeOK, LeaseTrue, LeaseRespected
  <2> QED BY <2>1, <2>2, <2>3 DEF MediaInv
<1>2. CASE (Complete(w) \/ ProviderFails(w)) /\ ~Holds(w)
  BY <1>0, <1>2, WorkerMoves DEF Complete, ProviderFails, Goto, Place
<1>3. CASE Complete(w) /\ Holds(w)
  <2>1. record' = [id |-> record.id, status |-> "ready", token |-> 0, until |-> "null", fresh |-> TRUE,
                   valid |-> TRUE, by |-> token[w], owner |-> record.owner]
    BY <1>3 DEF Complete, Holds, MediaInv, MediaTypeOK, NoRecord
  <2>2. token[w] # 0
    BY <1>3 DEF Complete, MediaInv, TokensApart
  <2> QED BY <1>3, <2>1, <2>2, SettleKeeps DEF Complete, Goto
<1>4. CASE ProviderFails(w) /\ Holds(w)
  <2>1. record' = [id |-> record.id, status |-> "failed", token |-> 0, until |-> "ahead", fresh |-> TRUE,
                   valid |-> record.valid, by |-> token[w], owner |-> record.owner]
    BY <1>4 DEF ProviderFails, Holds, MediaInv, MediaTypeOK, NoRecord
  <2>2. token[w] # 0
    BY <1>4 DEF ProviderFails, MediaInv, TokensApart
  <2>3. record.valid \in BOOLEAN
    BY <1>4 DEF Holds, MediaInv, MediaTypeOK, NoRecord
  <2> QED BY <1>4, <2>1, <2>2, <2>3, SettleKeeps DEF ProviderFails, Goto
<1>5. CASE Invalidate(w)
  <2>1. token[w] = 0
    BY <1>5 DEF Invalidate, MediaInv, TokensApart
  <2>2. CASE record.id = seen[w]
    BY <1>5, <2>1, <2>2, DeletionKeeps DEF Invalidate, Goto
  <2>3. CASE record.id # seen[w]
    BY <1>0, <1>5, <2>1, <2>3, Tokenless, WorkerMoves DEF Invalidate, Goto, Place
  <2> QED BY <2>2, <2>3
<1> QED BY <1>1, <1>2, <1>3, <1>4, <1>5

LEMMA TimeStep ==
  ASSUME MediaInv, PurgeSelect \/ PurgeDelete \/ Lapse \/ Expire
  PROVE  MediaInv'
<1> USE DEF MediaInv
<1>1. CASE PurgeSelect
  BY <1>1 DEF PurgeSelect, MediaTypeOK, TokensApart, LeaseTrue, LeaseRespected, Exists, NoRecord
<1>2. CASE PurgeDelete
  <2>1. CASE record.id = purging
    BY <1>2, <2>1, DeletionKeeps DEF PurgeDelete
  <2>2. CASE record.id # purging
    BY <1>2, <2>2 DEF PurgeDelete, MediaTypeOK, TokensApart, LeaseTrue, LeaseRespected, NoRecord
  <2> QED BY <2>1, <2>2
<1>3. CASE Lapse
  <2>1. record' = [id |-> record.id, status |-> record.status, token |-> record.token, until |-> "past",
                   fresh |-> record.fresh, valid |-> record.valid, by |-> record.by, owner |-> record.owner]
    BY <1>3 DEF Lapse, MediaTypeOK, NoRecord
  <2>2. MediaTypeOK'
    <3>1. record \in [id : 1 .. claims, status : Status, token : 0 .. claims,
                      until : {"null", "ahead", "past"}, fresh : BOOLEAN, valid : BOOLEAN,
                      by : 0 .. claims, owner : 0 .. claims]
      BY <1>3 DEF Lapse, MediaTypeOK, NoRecord
    <3>2. record' \in [id : 1 .. claims, status : Status, token : 0 .. claims,
                       until : {"null", "ahead", "past"}, fresh : BOOLEAN, valid : BOOLEAN,
                       by : 0 .. claims, owner : 0 .. claims]
      BY <2>1, <3>1
    <3>3. lapsed' \subseteq 1 .. claims
      BY <1>3, <3>1 DEF Lapse, MediaTypeOK
    <3> QED BY <1>3, <2>1, <3>2, <3>3 DEF Lapse, MediaTypeOK
  <2>3. TokensApart' /\ LeaseTrue' /\ LeaseRespected'
    BY <1>3, <2>1 DEF Lapse, TokensApart, LeaseTrue, LeaseRespected
  <2> QED BY <2>2, <2>3
<1>4. CASE Expire
  <2>1. record' = [id |-> record.id, status |-> record.status, token |-> record.token, until |-> record.until,
                   fresh |-> FALSE, valid |-> record.valid, by |-> record.by, owner |-> record.owner]
    BY <1>4 DEF Expire, MediaTypeOK, NoRecord
  <2>2. MediaTypeOK'
    <3>1. record \in [id : 1 .. claims, status : Status, token : 0 .. claims,
                      until : {"null", "ahead", "past"}, fresh : BOOLEAN, valid : BOOLEAN,
                      by : 0 .. claims, owner : 0 .. claims]
      BY <1>4 DEF Expire, MediaTypeOK, NoRecord, Exists
    <3>2. record' \in [id : 1 .. claims, status : Status, token : 0 .. claims,
                       until : {"null", "ahead", "past"}, fresh : BOOLEAN, valid : BOOLEAN,
                       by : 0 .. claims, owner : 0 .. claims]
      BY <2>1, <3>1
    <3>3. lapsed' \subseteq 1 .. claims
      BY <1>4, <3>1 DEF Expire, MediaTypeOK
    <3> QED BY <1>4, <2>1, <3>2, <3>3 DEF Expire, MediaTypeOK
  <2>3. TokensApart' /\ LeaseTrue' /\ LeaseRespected'
    BY <1>4, <2>1 DEF Expire, TokensApart, LeaseTrue, LeaseRespected
  <2> QED BY <2>2, <2>3
<1> QED BY <1>1, <1>2, <1>3, <1>4

LEMMA MediaStepInv == MediaInv /\ [MediaNext]_mediaVars => MediaInv'
<1> SUFFICES ASSUME MediaInv, [MediaNext]_mediaVars PROVE MediaInv'
  OBVIOUS
<1>1. CASE UNCHANGED mediaVars
  BY <1>1 DEF mediaVars, MediaInv, MediaTypeOK, TokensApart, LeaseTrue, LeaseRespected, NoRecord
<1>2. CASE MediaNext
  BY <1>2, WorkerStep, ClaimStep, OwnerStep, TimeStep DEF MediaNext, Proceed
<1> QED BY <1>1, <1>2

\* Whoever calls a provider owns the record unless the lease lapsed or the record was deleted,
\* and an outcome is that of the last worker that claimed the record.
THEOREM LeaseKept == MediaSpec => []LeaseRespected
<1>1. MediaInv => LeaseRespected
  BY DEF MediaInv
<1> QED BY <1>1, MediaInitInv, MediaStepInv, PTL DEF MediaSpec

\* The record and the workers keep their shapes: a lease token stands in the record exactly
\* while it is processing, and neither lease nor cooldown once it is ready.
THEOREM MediaTypeCorrect == MediaSpec => []MediaTypeOK
<1>1. MediaInv => MediaTypeOK
  BY DEF MediaInv
<1> QED BY <1>1, MediaInitInv, MediaStepInv, PTL DEF MediaSpec

-----------------------------------------------------------------------------
(* The tasks of an evaluation matrix                                        *)


\* Where a child holds the event loop, and where a call of run_matrix does.
Section == {"mark", "start", "bind", "execute", "begin", "spoiled", "save", "latest", "complete", "fail"}
RunnerSection == {"should", "mark", "pick", "final"}

Executing(c) == child[c] \notin {"idle", "ready", "backoff"}

MatrixShaped ==
  /\ runner = [r \in Runner |-> runner[r]] /\ child = [c \in Calls |-> child[c]]
  /\ task = [t \in Task |-> task[t]]
  /\ \A t \in Task : DOMAIN task[t] = {"status", "attempts", "run"}

\* Whoever is inside a section holds the loop, nobody else is inside one, and a section of
\* run_matrix begins when no child waits for its turn.
OneInTheLoop ==
  /\ \A c \in Calls : Executing(c) => child[c] \in Section \cup {"suite"}
  /\ \A c \in Calls : child[c] \in Section => loop = c
  /\ \A r \in Runner : runner[r] \in RunnerSection =>
       /\ loop = r
       /\ \A c \in Calls : child[c] \notin Section \cup {"ready"}

\* A task in execution is not offered: its row leaves pending and does not return.
NotOffered == \A c \in Calls : Executing(c) /\ child[c] # "mark" =>
                                 task[c[2]].status \in {"running", "cancelled", "none"}

\* Children that wait for their first turn are those of one gather; their tasks are free.
OneGather ==
  \A c, d \in Calls : child[c] = "ready" =>
    /\ child[d] = "ready" => c[1] = d[1]
    /\ c[2] = d[2] => ~Executing(d)

Alone == \A c, d \in Calls : Executing(c) /\ Executing(d) /\ c[2] = d[2] => c = d

\* Nothing runs for a draft, nor without the process.
NothingYet ==
  matrix = "draft" \/ ~serving => /\ \A r \in Runner : runner[r] = "idle"
                                  /\ \A c \in Calls : child[c] = "idle"

MatrixInv == MatrixShaped /\ OneInTheLoop /\ NotOffered /\ OneGather /\ Alone /\ NothingYet
-----------------------------------------------------------------------------
(* The pieces steps are made of *)

\* A call is known by its run and its task.
LEMMA Pairs == \A c, d \in Calls : /\ c = <<c[1], c[2]>> /\ c[1] \in Runner /\ c[2] \in Task
                                   /\ (c[1] = d[1] /\ c[2] = d[2] => c = d)
BY DEF Calls

\* Rows in which no task out of offer comes back to it.
Keeps(rows) ==
  /\ rows = [t \in Task |-> rows[t]]
  /\ \A t \in Task : DOMAIN rows[t] = {"status", "attempts", "run"}
  /\ \A t \in Task : task[t].status \in {"running", "cancelled", "none"}
                       => rows[t].status \in {"running", "cancelled", "none"}

\* What only writes rows and schedules further calls touches no execution.
LEMMA RowsMove ==
  ASSUME MatrixInv, UNCHANGED <<child, loop, serving>>, serving,
         Keeps(task'), matrix' # "draft" \/ (matrix = "draft" /\ UNCHANGED runner),
         runner' = [r \in Runner |-> runner'[r]],
         \A r \in Runner : runner'[r] \in RunnerSection => runner[r] = runner'[r]
  PROVE  MatrixInv'
<1> USE DEF MatrixInv
<1>1. MatrixShaped'
  BY DEF MatrixShaped, Keeps, Calls
<1>2. OneInTheLoop'
  BY DEF OneInTheLoop, Executing, Calls
<1>3. NotOffered'
  BY Pairs DEF NotOffered, Executing, Keeps, Calls
<1>4. OneGather' /\ Alone'
  BY DEF OneGather, Alone, Executing, Calls
<1>5. NothingYet'
  BY DEF NothingYet, Calls
<1> QED BY <1>1, <1>2, <1>3, <1>4, <1>5

\* A call of run_matrix goes on: it keeps the loop, takes it, or leaves it.
LEMMA RunnerMoves ==
  ASSUME MatrixInv, UNCHANGED <<child, task, serving>>,
         NEW r \in Runner, NEW pc, runner' = [runner EXCEPT ![r] = pc], runner[r] # "idle",
         matrix' # "draft",
         pc \in RunnerSection => loop' = r /\ \A c \in Calls : child[c] \notin Section \cup {"ready"},
         (loop = Free \/ (loop = r /\ runner[r] \in RunnerSection)),
         loop' # loop => loop' \in {r, Free}
  PROVE  MatrixInv'
<1> USE DEF MatrixInv
<1>0. serving /\ Free \notin Runner /\ Free \notin Calls
  BY MatrixAssumption DEF NothingYet, Calls
<1>1. MatrixShaped'
  BY DEF MatrixShaped, Calls
<1>2. \A c \in Calls : child[c] \notin Section
  BY <1>0 DEF OneInTheLoop
<1>3. \A s \in Runner : runner[s] \in RunnerSection => s = r
  BY <1>0 DEF OneInTheLoop
<1>4. OneInTheLoop'
  BY <1>1, <1>2, <1>3 DEF OneInTheLoop, MatrixShaped, Executing, Calls
<1>5. NotOffered'
  BY DEF NotOffered, Executing, Calls
<1>6. OneGather' /\ Alone'
  BY DEF OneGather, Alone, Executing, Calls
<1>7. NothingYet'
  BY <1>0 DEF NothingYet, Calls
<1> QED BY <1>1, <1>4, <1>5, <1>6, <1>7

\* A child goes on; one that begins to execute was ready.
LEMMA ChildMoves ==
  ASSUME MatrixInv, UNCHANGED <<serving, matrix>>,
         NEW c \in Calls, NEW pc, child' = [child EXCEPT ![c] = pc], child[c] # "idle",
         pc \in Section \cup {"suite", "idle", "backoff"},
         pc \in Section \cup {"suite"} => Executing(c) \/ child[c] = "ready",
         pc \in Section => loop' = c,
         loop = Free \/ (loop = c /\ child[c] \in Section),
         \A r \in Runner : runner[r] \notin RunnerSection,
         loop' # loop => loop' \in {c, Free},
         runner' = [r \in Runner |-> runner'[r]],
         \A r \in Runner : runner'[r] \notin RunnerSection,
         task' = [t \in Task |-> task'[t]],
         \A t \in Task : t # c[2] => task'[t] = task[t],
         DOMAIN task'[c[2]] = {"status", "attempts", "run"},
         pc \in (Section \ {"mark"}) \cup {"suite"}
            => task'[c[2]].status \in {"running", "cancelled", "none"},
         task'[c[2]] = task[c[2]] \/ Executing(c)
  PROVE  MatrixInv'
<1> USE DEF MatrixInv
<1>0. serving /\ matrix # "draft" /\ Free \notin Runner /\ Free \notin Calls
  BY MatrixAssumption DEF NothingYet, Calls
<1>1. MatrixShaped'
  BY Pairs DEF MatrixShaped, Calls
<1>2. child = [d \in Calls |-> child[d]] /\ child'[c] = pc
  BY DEF MatrixShaped, Calls
<1>3. \A d \in Calls : d # c => child'[d] = child[d] /\ child[d] \notin Section
  BY <1>0, <1>2 DEF OneInTheLoop
<1>4. OneInTheLoop'
  <2>1. \A d \in Calls : Executing(d)' => child'[d] \in Section \cup {"suite"}
    BY <1>2, <1>3 DEF OneInTheLoop, Executing
  <2>2. \A d \in Calls : child'[d] \in Section => loop' = d
    BY <1>2, <1>3
  <2> QED BY <2>1, <2>2 DEF OneInTheLoop, Calls
<1>5. \A d \in Calls : d # c /\ Executing(d) => task'[d[2]] = task[d[2]]
  BY Pairs, <1>0 DEF Alone
<1>6. NotOffered'
  BY <1>2, <1>3, <1>5, Pairs DEF NotOffered, Executing, Section, Calls
<1>7. OneGather'
  BY <1>2, <1>3 DEF OneGather, Executing, Section, Calls
<1>8. Alone'
  BY <1>2, <1>3, Pairs DEF Alone, OneGather, Executing, Section, Calls
<1>9. NothingYet'
  BY <1>0 DEF NothingYet, Calls
<1> QED BY <1>1, <1>4, <1>6, <1>7, <1>8, <1>9
-----------------------------------------------------------------------------
(* The steps *)

LEMMA MatrixInitInv == MatrixInit => MatrixInv
<1> SUFFICES ASSUME MatrixInit PROVE MatrixInv
  OBVIOUS
<1>1. MatrixShaped
  BY DEF MatrixInit, MatrixShaped, NoTask, Calls
<1>2. OneInTheLoop /\ NotOffered /\ OneGather /\ Alone /\ NothingYet
  BY DEF MatrixInit, OneInTheLoop, NotOffered, OneGather, Alone, NothingYet, Executing,
         Section, RunnerSection, Calls
<1> QED BY <1>1, <1>2 DEF MatrixInv

\* The owner writes rows of tasks that are not in execution and schedules further calls.
LEMMA PageStep == ASSUME MatrixInv, OwnerAsks PROVE MatrixInv'
<1>0. serving /\ MatrixShaped /\ Keeps(task)
  BY DEF OwnerAsks, LaunchMatrix, PauseMatrix, ResumeMatrix, RetryFailedTasks, CancelRequest,
         DeleteMatrix, Requested, MatrixInv, MatrixShaped, Keeps
<1>1. ASSUME Scheduled
      PROVE  /\ runner' = [r \in Runner |-> runner'[r]]
             /\ \A r \in Runner : runner'[r] \in RunnerSection => runner[r] = runner'[r]
  BY <1>0, <1>1 DEF Scheduled, MatrixShaped, RunnerSection
<1>2. CASE LaunchMatrix
  <2>1. /\ UNCHANGED <<child, loop, serving>> /\ matrix = "draft" /\ matrix' # "draft"
        /\ \A c \in Calls : child[c] = "idle"
    BY <1>2 DEF LaunchMatrix, MatrixInv, NothingYet
  <2>2. MatrixShaped'
    BY <1>0, <1>1, <1>2, <2>1 DEF LaunchMatrix, CreateTasks, PendingTask, NoTask, MatrixShaped, Calls
  <2>3. OneInTheLoop'
    BY <1>1, <1>2, <2>1 DEF LaunchMatrix, MatrixInv, OneInTheLoop, Executing, Section, Calls
  <2>4. NotOffered' /\ OneGather' /\ Alone' /\ NothingYet'
    BY <1>0, <2>1 DEF NotOffered, OneGather, Alone, NothingYet, Executing, Calls
  <2> QED BY <2>2, <2>3, <2>4 DEF MatrixInv
<1>3. CASE PauseMatrix
  BY <1>0, <1>3, RowsMove DEF PauseMatrix, coroutines, MatrixShaped
<1>4. CASE ResumeMatrix
  BY <1>0, <1>1, <1>4, RowsMove DEF ResumeMatrix
<1>5. CASE RetryFailedTasks
  <2>1. Keeps(task')
    BY <1>0, <1>5 DEF RetryFailedTasks, Retried, Keeps
  <2> QED BY <1>0, <1>1, <1>5, <2>1, RowsMove DEF RetryFailedTasks
<1>6. CASE CancelRequest
  BY <1>0, <1>6, RowsMove DEF CancelRequest, coroutines, matrixRows, MatrixShaped
<1>7. CASE DeleteMatrix
  <2>1. Keeps(task')
    BY <1>7 DEF DeleteMatrix, NoTask, Keeps
  <2> QED BY <1>0, <1>7, <2>1, RowsMove DEF DeleteMatrix, coroutines, MatrixShaped
<1> QED BY <1>2, <1>3, <1>4, <1>5, <1>6, <1>7 DEF OwnerAsks

LEMMA CancelStep == ASSUME MatrixInv, Cancels, serving PROVE MatrixInv'
<1>0. MatrixShaped /\ Keeps(task)
  BY DEF MatrixInv, MatrixShaped, Keeps
<1>1. CASE CancelTrial
  BY <1>0, <1>1, RowsMove DEF CancelTrial, coroutines, MatrixShaped
<1>2. CASE CancelMatrix
  <2>1. Keeps(task')
    BY <1>0, <1>2 DEF CancelMatrix, Keeps
  <2> QED BY <1>0, <1>2, <2>1, RowsMove DEF CancelMatrix, coroutines, MatrixShaped
<1> QED BY <1>1, <1>2 DEF Cancels

LEMMA RunnerStepInv == ASSUME MatrixInv, NEW r \in Runner, RunnerStep(r) PROVE MatrixInv'
<1>0. Free \notin Runner /\ Free \notin Calls
  BY MatrixAssumption DEF Calls
<1>1. /\ runner[r] \in RunnerSection => loop = r /\ \A c \in Calls : child[c] \notin Section \cup {"ready"}
      /\ LoopFree => \A c \in Calls : child[c] \notin Section \cup {"ready"}
      /\ runner[r] # "idle" => matrix # "draft" /\ serving
  BY <1>0 DEF MatrixInv, OneInTheLoop, NothingYet, LoopFree, Started
<1>2. CASE RunMatrix(r)
  BY <1>1, <1>2, RunnerMoves DEF RunMatrix, Onward, Leaves, matrixRows, LoopFree, RunnerSection
<1>3. CASE MatrixShouldRun(r)
  BY <1>1, <1>3, RunnerMoves DEF MatrixShouldRun, Onward, matrixRows, RunnerSection
<1>4. CASE MarkMatrixRunning(r)
  BY <1>1, <1>4, RunnerMoves DEF MarkMatrixRunning, Onward, Leaves, matrixRows, RunnerSection
<1>5. CASE Gathered(r)
  BY <1>1, <1>5, RunnerMoves DEF Gathered, Onward, matrixRows, LoopFree, RunnerSection
<1>6. CASE FinalizeMatrix(r)
  <2>1. matrix' # "draft"
    BY <1>1, <1>6 DEF FinalizeMatrix, FinalStatus, RunnerSection
  <2> QED BY <1>1, <1>6, <2>1, RunnerMoves DEF FinalizeMatrix, Leaves, RunnerSection
<1>7. CASE Gather(r) /\ PendingTasks = {}
  BY <1>1, <1>7, RunnerMoves DEF Gather, Onward, matrixRows, RunnerSection
<1>8. CASE Gather(r) /\ PendingTasks # {}
  <2>1. /\ loop = r /\ loop' = Free /\ runner' = [runner EXCEPT ![r] = "gather"]
        /\ UNCHANGED <<matrix, task, serving>> /\ serving /\ matrix # "draft"
        /\ \A c \in Calls : child[c] \notin Section \cup {"ready"}
    BY <1>1, <1>8 DEF Gather, Onward, matrixRows, RunnerSection
  <2>2. /\ child' = [c \in Calls |-> child'[c]]
        /\ \A c \in Calls : child'[c] = IF c[1] = r /\ c[2] \in PendingTasks THEN "ready" ELSE child[c]
    BY <1>8 DEF Gather
  <2>3. \A t \in PendingTasks : t \in Task /\ task[t].status = "pending"
    BY DEF PendingTasks, InStatus
  <2>4. \A c \in Calls : Executing(c) => child[c] = "suite" /\ c[2] \notin PendingTasks
    BY <2>1, <2>3 DEF MatrixInv, OneInTheLoop, NotOffered, Executing
  <2>5. MatrixShaped'
    BY <2>1, <2>2 DEF MatrixInv, MatrixShaped, Calls
  <2>6. \A c \in Calls : Executing(c)' => Executing(c) /\ child'[c] = child[c]
    BY <2>2 DEF Executing
  <2>7. OneInTheLoop'
    <3>1. \A c \in Calls : child'[c] \notin Section /\ (Executing(c)' => child'[c] = "suite")
      BY <2>1, <2>2, <2>4, <2>6 DEF Section
    <3>2. \A s \in Runner : runner'[s] \notin RunnerSection
      BY <1>0, <2>1 DEF MatrixInv, MatrixShaped, OneInTheLoop, RunnerSection
    <3> QED BY <3>1, <3>2 DEF OneInTheLoop, Calls
  <2>8. NotOffered' /\ Alone'
    BY <2>1, <2>6, Pairs DEF MatrixInv, NotOffered, Alone, Executing, Calls
  <2>9. OneGather'
    <3>1. \A c \in Calls : child'[c] = "ready" => c[1] = r /\ c[2] \in PendingTasks
      BY <2>1, <2>2
    <3>2. \A c \in Calls : Executing(c)' => c[2] \notin PendingTasks
      BY <2>4, <2>6
    <3> QED BY <3>1, <3>2 DEF OneGather, Calls
  <2>10. NothingYet'
    BY <2>1 DEF NothingYet, Calls
  <2> QED BY <2>5, <2>7, <2>8, <2>9, <2>10 DEF MatrixInv
<1> QED BY <1>2, <1>3, <1>4, <1>5, <1>6, <1>7, <1>8 DEF RunnerStep

\* An exception ends the gather it comes from and leaves the other children.
LEMMA EscapeMoves ==
  ASSUME MatrixInv, NEW c \in Calls, Executing(c), Escapes(c), UNCHANGED <<serving, matrix, task>>,
         loop = Free \/ (loop = c /\ child[c] \in Section),
         \A r \in Runner : runner[r] \notin RunnerSection
  PROVE  MatrixInv'
<1>1. /\ child' = [child EXCEPT ![c] = "idle"] /\ loop' = Free
      /\ child[c] # "idle" /\ MatrixShaped
  BY DEF Escapes, ChildAt, Executing, MatrixInv
<1>2. runner' = [r \in Runner |-> runner'[r]] /\ \A r \in Runner : runner'[r] \notin RunnerSection
  BY <1>1 DEF Escapes, Leaves, MatrixShaped, RunnerSection
<1>3. /\ task' = [t \in Task |-> task'[t]] /\ \A t \in Task : DOMAIN task'[t] = {"status", "attempts", "run"}
      /\ \A t \in Task : task'[t] = task[t]
  BY <1>1 DEF MatrixShaped
<1> QED BY <1>1, <1>2, <1>3, ChildMoves, Pairs DEF Section

\* Where a child stands when its step begins.
LEMMA ChildPlace ==
  ASSUME MatrixInv, NEW c \in Calls,
         child[c] \in Section \/ (child[c] \in {"ready", "backoff", "suite"} /\ loop = Free)
  PROVE  /\ c[2] \in Task /\ matrix # "draft" /\ serving /\ MatrixShaped
         /\ loop = Free \/ (loop = c /\ child[c] \in Section)
         /\ \A r \in Runner : runner[r] \notin RunnerSection
         /\ child[c] \in (Section \ {"mark"}) \cup {"suite"}
              => task[c[2]].status \in {"running", "cancelled", "none"}
BY Pairs, MatrixAssumption
   DEF MatrixInv, OneInTheLoop, NothingYet, NotOffered, Executing, Section, Calls

\* A child goes on and writes no row.
LEMMA ChildGoesOn ==
  ASSUME MatrixInv, NEW c \in Calls, NEW pc,
         child[c] \in Section \/ (child[c] \in {"ready", "backoff", "suite"} /\ loop = Free),
         child' = [child EXCEPT ![c] = pc], UNCHANGED <<serving, matrix, task, runner>>,
         \/ pc \in {"idle", "backoff"}
         \/ pc = "mark" /\ child[c] = "ready"
         \/ pc \in (Section \ {"mark"}) \cup {"suite"} /\ child[c] \in (Section \ {"mark"}) \cup {"suite"},
         pc \in Section => loop' = c,
         loop' \in {c, Free, loop}
  PROVE  MatrixInv'
<1>1. /\ c[2] \in Task /\ MatrixShaped
      /\ loop = Free \/ (loop = c /\ child[c] \in Section)
      /\ \A r \in Runner : runner[r] \notin RunnerSection
      /\ child[c] \in (Section \ {"mark"}) \cup {"suite"}
           => task[c[2]].status \in {"running", "cancelled", "none"}
  BY ChildPlace
<1>2. /\ child[c] # "idle" /\ pc \in Section \cup {"suite", "idle", "backoff"}
      /\ pc \in Section \cup {"suite"} => Executing(c) \/ child[c] = "ready"
      /\ pc \in (Section \ {"mark"}) \cup {"suite"} => child[c] \in (Section \ {"mark"}) \cup {"suite"}
  BY DEF Section, Executing
<1>3. /\ task' = [t \in Task |-> task'[t]] /\ \A t \in Task : t # c[2] => task'[t] = task[t]
      /\ DOMAIN task'[c[2]] = {"status", "attempts", "run"} /\ task'[c[2]] = task[c[2]]
      /\ runner' = [r \in Runner |-> runner'[r]] /\ \A r \in Runner : runner'[r] \notin RunnerSection
  BY <1>1 DEF MatrixShaped
<1> QED BY <1>1, <1>2, <1>3, ChildMoves

\* A child that executes goes on and writes the row of its task.
LEMMA ChildWrites ==
  ASSUME MatrixInv, NEW c \in Calls, NEW pc, child[c] \in Section,
         child' = [child EXCEPT ![c] = pc], UNCHANGED <<serving, matrix, runner>>,
         pc \in Section \cup {"idle", "backoff"}, pc # "mark",
         pc \in Section => loop' = c,
         loop' \in {c, Free, loop},
         task' = [t \in Task |-> task'[t]], \A t \in Task : t # c[2] => task'[t] = task[t],
         DOMAIN task'[c[2]] = {"status", "attempts", "run"},
         pc \in Section => task'[c[2]].status \in {"running", "cancelled", "none"}
  PROVE  MatrixInv'
<1>1. /\ MatrixShaped
      /\ loop = Free \/ (loop = c /\ child[c] \in Section)
      /\ \A r \in Runner : runner[r] \notin RunnerSection
  BY ChildPlace
<1>2. child[c] # "idle" /\ Executing(c) /\ (pc \in (Section \ {"mark"}) \cup {"suite"} => pc \in Section)
  BY DEF Section, Executing
<1>3. runner' = [r \in Runner |-> runner'[r]] /\ \A r \in Runner : runner'[r] \notin RunnerSection
  BY <1>1 DEF MatrixShaped
<1> QED BY <1>1, <1>2, <1>3, ChildMoves

LEMMA ChildStepInv ==
  ASSUME MatrixInv, NEW c \in Calls, ChildStep(c) \/ Surprise(c)
  PROVE  MatrixInv'
<1>1. child[c] \in Section \/ (child[c] \in {"ready", "backoff", "suite"} /\ loop = Free)
  BY DEF ChildStep, Surprise, TaskShouldRun, MarkTaskRunning, ExecuteTrial, BeginTrial, SaveResult,
         LatestTask, CompleteTask, FailOrRetryTask, BackoffOver, StartTrial, BindTaskRun, EndSuite,
         LoopFree, Section
<1>2. /\ c[2] \in Task /\ MatrixShaped
      /\ loop = Free \/ (loop = c /\ child[c] \in Section)
      /\ \A r \in Runner : runner[r] \notin RunnerSection
      /\ child[c] \in (Section \ {"mark"}) \cup {"suite"}
           => task[c[2]].status \in {"running", "cancelled", "none"}
  BY <1>1, ChildPlace
<1>3. /\ task = [t \in Task |-> task[t]]
      /\ \A t \in Task : DOMAIN task[t] = {"status", "attempts", "run"}
  BY <1>2 DEF MatrixShaped
<1>4. ASSUME TaskShouldRun(c) PROVE MatrixInv'
  <2>1. CASE Running
    BY <1>1, <1>4, <2>1, ChildGoesOn DEF TaskShouldRun, ChildAt, matrixRows, Section
  <2>2. CASE ~Running
    BY <1>1, <1>4, <2>2, ChildGoesOn DEF TaskShouldRun, ChildAt, matrixRows, Section
  <2> QED BY <2>1, <2>2
<1>5. ASSUME MarkTaskRunning(c) PROVE MatrixInv'
  <2>1. CASE task[c[2]].status = "none"
    BY <1>2, <1>5, <2>1, EscapeMoves DEF MarkTaskRunning, Executing
  <2>2. CASE task[c[2]].status # "none"
    <3>1. PICK row : row = [task[c[2]] EXCEPT !.status = "running", !.attempts = task[c[2]].attempts + 1]
      OBVIOUS
    <3>2. task' = [task EXCEPT ![c[2]] = row]
      BY <1>2, <1>5, <2>2, <3>1 DEF MarkTaskRunning
    <3>3. DOMAIN row = {"status", "attempts", "run"} /\ row.status = "running"
      BY <1>2, <1>3, <3>1
    <3>4. /\ task' = [t \in Task |-> task'[t]] /\ \A t \in Task : t # c[2] => task'[t] = task[t]
          /\ task'[c[2]] = row
      BY <1>2, <1>3, <3>2
    <3>5. /\ child[c] = "mark" /\ child' = [child EXCEPT ![c] = "start"] /\ loop' = loop /\ loop = c
          /\ UNCHANGED <<serving, matrix, runner>>
      BY <1>2, <1>5, <2>2 DEF MarkTaskRunning, ChildAt, MatrixInv, OneInTheLoop, Section
    <3> QED BY <3>3, <3>4, <3>5, ChildWrites DEF Section
  <2> QED BY <2>1, <2>2
<1>6. ASSUME NEW found \in BOOLEAN, StartTrial(c, found) PROVE MatrixInv'
  <2>1. loop' \in {c, Free, loop} /\ UNCHANGED <<serving, matrix, task, runner>> /\ StartTrial(c, found)
    BY <1>6 DEF StartTrial, matrixRows
  <2>2. child[c] \in Section => loop = c
    BY DEF MatrixInv, OneInTheLoop
  <2> QED BY <1>1, <2>1, <2>2, ChildGoesOn DEF StartTrial, ChildAt, Section
<1>7. ASSUME NEW found \in BOOLEAN, BindTaskRun(c, found) PROVE MatrixInv'
  <2>1. /\ task' = [t \in Task |-> task'[t]] /\ \A t \in Task : t # c[2] => task'[t] = task[t]
        /\ DOMAIN task'[c[2]] = {"status", "attempts", "run"} /\ task'[c[2]].status = task[c[2]].status
    BY <1>2, <1>3, <1>7 DEF BindTaskRun
  <2>2. child[c] = "bind" /\ loop = c /\ task[c[2]].status \in {"running", "cancelled", "none"}
    BY <1>2, <1>7 DEF BindTaskRun, MatrixInv, OneInTheLoop, Section
  <2>3. \/ child' = [child EXCEPT ![c] = "fail"]
        \/ child' = [child EXCEPT ![c] = "execute"]
    BY <1>7 DEF BindTaskRun, ChildAt
  <2>4. loop' = loop /\ UNCHANGED <<serving, matrix, runner>>
    BY <1>7 DEF BindTaskRun
  <2> QED BY <2>1, <2>2, <2>3, <2>4, ChildWrites DEF Section
<1>8. ASSUME ExecuteTrial(c) PROVE MatrixInv'
  <2>1. loop' \in {c, Free, loop} /\ UNCHANGED <<serving, matrix, task, runner>> /\ ExecuteTrial(c)
    BY <1>8 DEF ExecuteTrial, matrixRows
  <2>2. child[c] \in Section => loop = c
    BY DEF MatrixInv, OneInTheLoop
  <2> QED BY <1>1, <2>1, <2>2, ChildGoesOn DEF ExecuteTrial, ChildAt, Section
<1>9. ASSUME BeginTrial(c) PROVE MatrixInv'
  <2>1. loop' \in {c, Free, loop} /\ UNCHANGED <<serving, matrix, task, runner>> /\ BeginTrial(c)
    BY <1>9 DEF BeginTrial, matrixRows
  <2>2. child[c] \in Section => loop = c
    BY DEF MatrixInv, OneInTheLoop
  <2> QED BY <1>1, <2>1, <2>2, ChildGoesOn DEF BeginTrial, ChildAt, Section
<1>10. ASSUME NEW good \in BOOLEAN, EndSuite(c, good) PROVE MatrixInv'
  <2>1. loop' \in {c, Free, loop} /\ UNCHANGED <<serving, matrix, task, runner>> /\ EndSuite(c, good)
    BY <1>10 DEF EndSuite, matrixRows
  <2>2. child[c] \in Section => loop = c
    BY DEF MatrixInv, OneInTheLoop
  <2> QED BY <1>1, <2>1, <2>2, ChildGoesOn DEF EndSuite, ChildAt, Section
<1>11. ASSUME SaveResult(c) PROVE MatrixInv'
  <2>1. loop' \in {c, Free, loop} /\ UNCHANGED <<serving, matrix, task, runner>> /\ SaveResult(c)
    BY <1>11 DEF SaveResult, matrixRows
  <2>2. child[c] \in Section => loop = c
    BY DEF MatrixInv, OneInTheLoop
  <2> QED BY <1>1, <2>1, <2>2, ChildGoesOn DEF SaveResult, ChildAt, Section
<1>12. ASSUME LatestTask(c) PROVE MatrixInv'
  <2>1. loop' \in {c, Free, loop} /\ UNCHANGED <<serving, matrix, task, runner>> /\ LatestTask(c)
    BY <1>12 DEF LatestTask, matrixRows
  <2>2. child[c] \in Section => loop = c
    BY DEF MatrixInv, OneInTheLoop
  <2> QED BY <1>1, <2>1, <2>2, ChildGoesOn DEF LatestTask, ChildAt, Section
<1>13. ASSUME CompleteTask(c) PROVE MatrixInv'
  <2>1. /\ task' = [t \in Task |-> task'[t]] /\ \A t \in Task : t # c[2] => task'[t] = task[t]
        /\ DOMAIN task'[c[2]] = {"status", "attempts", "run"}
        /\ task[c[2]].status = "none" => task'[c[2]].status = "none"
    BY <1>2, <1>3, <1>13 DEF CompleteTask
  <2>2. child[c] = "complete" /\ loop = c /\ UNCHANGED <<serving, matrix, runner>>
    BY <1>13 DEF CompleteTask, MatrixInv, OneInTheLoop, Section
  <2>3. \/ child' = [child EXCEPT ![c] = "fail"] /\ loop' = loop /\ task[c[2]].status = "none"
        \/ child' = [child EXCEPT ![c] = "idle"] /\ loop' = Free
    BY <1>13 DEF CompleteTask, ChildAt
  <2> QED BY <2>1, <2>2, <2>3, ChildWrites DEF Section
<1>14. ASSUME FailOrRetryTask(c) PROVE MatrixInv'
  <2>1. CASE task[c[2]].status = "none"
    BY <1>2, <1>14, <2>1, EscapeMoves DEF FailOrRetryTask, Executing
  <2>2. CASE task[c[2]].status # "none"
    <3>1. /\ task' = [t \in Task |-> task'[t]] /\ \A t \in Task : t # c[2] => task'[t] = task[t]
          /\ DOMAIN task'[c[2]] = {"status", "attempts", "run"}
      BY <1>2, <1>3, <1>14, <2>2 DEF FailOrRetryTask
    <3>2. /\ child[c] = "fail" /\ loop' = Free /\ UNCHANGED <<serving, matrix, runner>>
          /\ \/ child' = [child EXCEPT ![c] = "backoff"]
             \/ child' = [child EXCEPT ![c] = "idle"]
      BY <1>14, <2>2 DEF FailOrRetryTask, ChildAt
    <3> QED BY <3>1, <3>2, ChildWrites DEF Section
  <2> QED BY <2>1, <2>2
<1>15. ASSUME BackoffOver(c) PROVE MatrixInv'
  <2>1. loop' \in {c, Free, loop} /\ UNCHANGED <<serving, matrix, task, runner>> /\ BackoffOver(c)
    BY <1>15 DEF BackoffOver, matrixRows
  <2>2. child[c] \in Section => loop = c
    BY DEF MatrixInv, OneInTheLoop
  <2> QED BY <1>1, <2>1, <2>2, ChildGoesOn DEF BackoffOver, ChildAt, Section
<1>16. ASSUME Surprise(c) PROVE MatrixInv'
  BY <1>2, <1>16, EscapeMoves DEF Surprise, Executing, matrixRows, LoopFree
<1> QED BY <1>4, <1>5, <1>6, <1>7, <1>8, <1>9, <1>10, <1>11, <1>12, <1>13, <1>14, <1>15, <1>16
        DEF ChildStep

LEMMA ProcessStep ==
  ASSUME MatrixInv, StopProcess \/ RecoverMatrices \/ StartProcess
  PROVE  MatrixInv'
<1> USE DEF MatrixInv
<1>1. CASE StopProcess
  BY <1>1 DEF StopProcess, matrixRows, MatrixShaped, OneInTheLoop, NotOffered, OneGather, Alone,
              NothingYet, Executing, Section, RunnerSection, Calls
<1>2. CASE RecoverMatrices
  <2>1. /\ ~serving /\ UNCHANGED <<runner, child, loop, serving>>
        /\ \A c \in Calls : child[c] = "idle"
    BY <1>2 DEF RecoverMatrices, coroutines, NothingYet
  <2>2. MatrixShaped'
    BY <1>2, <2>1 DEF RecoverMatrices, MatrixShaped, Calls
  <2>3. OneInTheLoop' /\ NotOffered' /\ OneGather' /\ Alone'
    BY <2>1 DEF OneInTheLoop, NotOffered, OneGather, Alone, Executing, Section, Calls
  <2>4. NothingYet'
    BY <2>1 DEF NothingYet, Calls
  <2> QED BY <2>2, <2>3, <2>4
<1>3. CASE StartProcess
  BY <1>3 DEF StartProcess, matrixRows, coroutines, MatrixShaped, OneInTheLoop, NotOffered, OneGather,
              Alone, NothingYet, Executing, Calls
<1> QED BY <1>1, <1>2, <1>3

LEMMA MatrixStepInv == MatrixInv /\ [MatrixNext]_matrixVars => MatrixInv'
<1> SUFFICES ASSUME MatrixInv, [MatrixNext]_matrixVars PROVE MatrixInv'
  OBVIOUS
<1>1. CASE UNCHANGED matrixVars
  BY <1>1 DEF matrixVars, matrixRows, coroutines, MatrixInv, MatrixShaped, OneInTheLoop, NotOffered,
              OneGather, Alone, NothingYet, Executing, Calls
<1>2. CASE Cancels /\ ~serving
  <2>1. UNCHANGED <<child, loop, serving, runner>> /\ MatrixShaped /\ \A c \in Calls : child[c] = "idle"
    BY <1>2 DEF Cancels, CancelTrial, CancelMatrix, coroutines, MatrixInv, NothingYet
  <2>2. MatrixShaped'
    BY <1>2, <2>1 DEF Cancels, CancelTrial, CancelMatrix, MatrixShaped, Calls
  <2>3. OneInTheLoop' /\ NotOffered' /\ OneGather' /\ Alone'
    BY <2>1 DEF MatrixInv, OneInTheLoop, NotOffered, OneGather, Alone, Executing, Section, Calls
  <2>4. NothingYet'
    BY <1>2, <2>1 DEF MatrixInv, NothingYet, Calls
  <2> QED BY <2>2, <2>3, <2>4 DEF MatrixInv
<1> QED BY <1>1, <1>2, PageStep, CancelStep, RunnerStepInv, ChildStepInv, ProcessStep DEF MatrixNext

LEMMA AtMostOne == ASSUME NEW S, \A x, y \in S : x = y PROVE Cardinality(S) <= 1
<1>1. Cardinality({}) = 0 /\ \A x : Cardinality({x}) = 1
  BY FS_EmptySet, FS_Singleton
<1>2. CASE S = {}
  BY <1>1, <1>2
<1>3. CASE S # {}
  <2>1. PICK x \in S : TRUE
    BY <1>3
  <2>2. S = {x}
    BY <2>1
  <2>3. Cardinality({x}) = 1
    BY <1>1
  <2>4. Cardinality(S) = 1
    BY <2>2, <2>3, Zenon
  <2> QED BY <2>4
<1> QED BY <1>2, <1>3

\* No task is executed twice at the same time, however launch, pause, resume, retry, deletion
\* and a run that ended in an exception overlap.
THEOREM RunsAlone == MatrixSpec => []TaskRunsAlone
<1>1. MatrixInv => TaskRunsAlone
  <2> SUFFICES ASSUME MatrixInv, NEW t \in Task
               PROVE  Cardinality({r \in Runner : child[r, t] \notin {"idle", "ready", "backoff"}}) <= 1
    BY DEF TaskRunsAlone
  <2> DEFINE S == {r \in Runner : child[r, t] \notin {"idle", "ready", "backoff"}}
  <2>1. \A r, s \in S : r = s
    BY DEF MatrixInv, Alone, Executing, Calls
  <2> HIDE DEF S
  <2>2. Cardinality(S) <= 1
    BY <2>1, AtMostOne
  <2> QED BY <2>2 DEF S
<1> QED BY <1>1, MatrixInitInv, MatrixStepInv, PTL DEF MatrixSpec

-----------------------------------------------------------------------------
(* Reminders and condition watches                                          *)

\* Claims are counted in attempts: each is worth one post, and a pending reminder may be
\* claimed once more.
Accounted ==
  \A r \in Reminder :
    /\ sent[r] <= reminder[r].attempts
    /\ reminder[r].attempts <= MaxAttempts + recovered[r]
    /\ reminder[r].status = "pending" => reminder[r].attempts < MaxAttempts + recovered[r]
    /\ r \in batch \/ (sending.of = r /\ sending.stage = "post")
         => sent[r] < reminder[r].attempts

\* What the delivery loop holds is a claimed row that nobody else can create again, and no
\* reminder is both waiting and being sent.
Held ==
  /\ sending.of \notin batch
  /\ \A r \in Reminder : r \in batch \/ sending.of = r => reminder[r].status # "none"
  /\ \A r \in Reminder : reminder[r].status = "none" => reminder[r] = NoReminder

RetryInv == TypeOK /\ Held /\ Accounted

Notices(w) == {r \in Reminder : reminder[r].watch = w}

\* A watch that the loop has claimed and not notified, or that may still be claimed, has a
\* notification to spare; one whose notification was queued has it.
NoticesAccounted ==
  \A w \in Watch :
    /\ IsFiniteSet(Notices(w))
    /\ Cardinality(Notices(w)) <= 1 + restarts
    /\ watch[w].status \in {"none", "active"} /\ ~(checking.of = w /\ checking.stage = "notified")
         => Cardinality(Notices(w)) <= restarts
    /\ w \in checks \/ (checking.of = w /\ checking.stage # "notified")
         => Cardinality(Notices(w)) <= restarts
    /\ watch[w].status = "triggered" \/ (checking.of = w /\ checking.stage = "notified")
         => Notices(w) # {}

\* The watch loop holds watches somebody asked for, each once.
HeldWatches ==
  /\ checking.of \notin checks
  /\ \A w \in Watch : w \in checks \/ checking.of = w => watch[w].status # "none"

NoticeInv == RetryInv /\ HeldWatches /\ NoticesAccounted

(***************************************************************************)
(* Types                                                                   *)
(***************************************************************************)
ReminderRow ==
  [status : {"none", "pending", "processing", "completed", "cancelled", "failed", "deleted"},
   attempts : Nat, due : BOOLEAN, stale : BOOLEAN, watch : Watch \cup {Nothing}]
WatchRow ==
  [status : {"none", "active", "triggered", "expired", "failed", "deleted"},
   attempts : 0 .. MaxChecks, due : BOOLEAN, lapsed : BOOLEAN]

\* What create writes.
LEMMA NewReminder ==
  ASSUME NEW w, NEW due \in BOOLEAN, NEW row,
         row = [NoReminder EXCEPT !.status = "pending", !.due = due, !.watch = w]
  PROVE  row = [status |-> "pending", attempts |-> 0, due |-> due, stale |-> FALSE, watch |-> w]
  BY DEF NoReminder

\* What watch.condition writes.
LEMMA NewWatch ==
  ASSUME NEW row, row = [NoWatch EXCEPT !.status = "active"]
  PROVE  row = [status |-> "active", attempts |-> 0, due |-> FALSE, lapsed |-> FALSE]
  BY DEF NoWatch

\* What claim_due and recover_interrupted make of a row.
LEMMA ClaimedIs ==
  ASSUME NEW x \in ReminderRow, NEW y,
         y = [x EXCEPT !.status = "processing", !.stale = FALSE, !.attempts = @ + 1]
  PROVE  y.status = "processing" /\ y.attempts = x.attempts + 1 /\ y.watch = x.watch
  BY DEF ReminderRow

LEMMA RecoveredIs ==
  ASSUME NEW x \in ReminderRow, NEW y, y = [x EXCEPT !.status = "pending", !.stale = FALSE]
  PROVE  y.status = "pending" /\ y.attempts = x.attempts /\ y.watch = x.watch
  BY DEF ReminderRow

\* What claim_due makes of a watch that lapsed and of one that is due.
LEMMA WatchEdits ==
  ASSUME NEW x \in WatchRow, NEW y
  PROVE  /\ y = [x EXCEPT !.status = "expired"] => y.status = "expired"
         /\ y = [x EXCEPT !.attempts = @ + 1, !.due = FALSE] => y.status = x.status
  BY DEF WatchRow

LEMMA CreatedIs ==
  ASSUME NEW r \in Reminder, NEW w \in Watch \cup {Nothing}, NEW due \in BOOLEAN, TypeOK,
         Created(r, w, due)
  PROVE  /\ reminder'[r] = [status |-> "pending", attempts |-> 0, due |-> due, stale |-> FALSE,
                            watch |-> w]
         /\ \A x \in Reminder \ {r} : reminder'[x] = reminder[x]
         /\ reminder' \in [Reminder -> ReminderRow]
<1>1. PICK row : row = [NoReminder EXCEPT !.status = "pending", !.due = due, !.watch = w]
  OBVIOUS
<1>2. row = [status |-> "pending", attempts |-> 0, due |-> due, stale |-> FALSE, watch |-> w]
  BY <1>1, NewReminder
<1>3. row \in ReminderRow
  BY <1>2 DEF ReminderRow
<1>4. reminder \in [Reminder -> ReminderRow]
  BY DEF TypeOK, ReminderRow
<1>5. reminder' = [reminder EXCEPT ![r] = row]
  BY <1>1 DEF Created
<1> QED BY <1>2, <1>3, <1>4, <1>5

LEMMA TypeStep == TypeOK /\ [Next]_vars => TypeOK'
<1> SUFFICES ASSUME TypeOK, [Next]_vars PROVE TypeOK'
  OBVIOUS
<1> USE ReminderAssumption
<1>1. /\ reminder \in [Reminder -> ReminderRow] /\ watch \in [Watch -> WatchRow]
  BY DEF TypeOK, ReminderRow, WatchRow
<1>2. CASE Delivering
  <2>1. CASE ClaimDue
    <3>0. \A r \in Reminder : reminder[r].attempts + 1 \in Nat
      BY <1>1 DEF ReminderRow
    <3>1. reminder' \in [Reminder -> ReminderRow]
      <4> SUFFICES ASSUME NEW r \in Reminder PROVE reminder'[r] \in ReminderRow
        BY <2>1 DEF ClaimDue
      <4>1. \/ reminder'[r] = reminder[r]
            \/ reminder'[r] = [reminder[r] EXCEPT !.status = "processing", !.stale = FALSE,
                                                  !.attempts = @ + 1]
        BY <2>1 DEF ClaimDue
      <4> QED BY <1>1, <3>0, <4>1 DEF ReminderRow
    <3> QED BY <2>1, <3>1 DEF ClaimDue, TypeOK, ReminderRow, judging, history
  <2>2. ASSUME NEW r \in Reminder, Deliver(r) PROVE TypeOK'
    BY <2>2 DEF Deliver, TypeOK, judging, history, Resting
  <2>3. CASE PostAnswered \/ PostRefused \/ PostUnclear
    <3>1. sending' \in [of : Reminder, stage : {"post", "delivered", "failed"}] /\ sending.of \in Reminder
      BY <2>3 DEF PostAnswered, PostRefused, PostUnclear, Post, TypeOK, Resting
    <3>2. sent' \in [Reminder -> Nat]
      BY <2>3, <3>1 DEF PostAnswered, PostRefused, PostUnclear, Post, TypeOK
    <3> QED BY <2>3, <3>1, <3>2 DEF PostAnswered, PostRefused, PostUnclear, Post, TypeOK, judging
  <2>4. CASE MarkDelivered \/ MarkFailure
    <3>1. reminder' \in [Reminder -> ReminderRow]
      BY <1>1, <2>4 DEF MarkDelivered, MarkFailure, ReminderRow
    <3> QED BY <2>4, <3>1 DEF MarkDelivered, MarkFailure, TypeOK, ReminderRow, judging, history
  <2> QED BY <1>2, <2>1, <2>2, <2>3, <2>4 DEF Delivering
<1>3. CASE Judging
  <2>1. CASE ClaimWatches
    <3>0. \A w \in Watch : watch[w].attempts < MaxChecks => watch[w].attempts + 1 \in 0 .. MaxChecks
      BY <1>1 DEF WatchRow
    <3>1. watch' \in [Watch -> WatchRow]
      BY <1>1, <2>1, <3>0, ZenonT(60) DEF ClaimWatches, WatchRow
    <3> QED BY <2>1, <3>1 DEF ClaimWatches, TypeOK, WatchRow, delivery, history
  <2>2. ASSUME NEW w \in Watch, NEW stage \in {"met", "unmet", "failed"}, Evaluate(w, stage)
        PROVE  TypeOK'
    BY <2>2 DEF Evaluate, TypeOK, delivery, history
  <2>3. ASSUME NEW r \in Reminder, Notify(r) PROVE TypeOK'
    <3>1. checking.of \in Watch /\ checking' \in [of : Watch, stage : {"met", "unmet", "failed", "notified"}]
      BY <2>3 DEF Notify, TypeOK, Resting
    <3>2. reminder' \in [Reminder -> ReminderRow]
      BY <2>3, <3>1, CreatedIs DEF Notify
    <3> QED BY <2>3, <3>1, <3>2 DEF Notify, TypeOK, ReminderRow, delivery, history
  <2>4. CASE NotifyFails
    BY <2>4 DEF NotifyFails, TypeOK, Resting, delivery, history
  <2>5. CASE MarkTriggered \/ MarkUnmet
    <3>1. watch' \in [Watch -> WatchRow]
      BY <1>1, <2>5 DEF MarkTriggered, MarkUnmet, WatchRow
    <3> QED BY <2>5, <3>1 DEF MarkTriggered, MarkUnmet, TypeOK, WatchRow, delivery, history
  <2> QED BY <1>3, <2>1, <2>2, <2>3, <2>4, <2>5 DEF Judging
<1>4. CASE Clock
  <2>1. ASSUME NEW r \in Reminder, ReminderDue(r) \/ ClaimAges(r) PROVE TypeOK'
    <3>1. reminder' \in [Reminder -> ReminderRow]
      <4>1. \/ reminder' = [reminder EXCEPT ![r].due = TRUE]
            \/ reminder' = [reminder EXCEPT ![r].stale = TRUE]
        BY <2>1 DEF ReminderDue, ClaimAges
      <4>2. [reminder EXCEPT ![r].due = TRUE] \in [Reminder -> ReminderRow]
        BY <1>1, ZenonT(60) DEF ReminderRow
      <4>3. [reminder EXCEPT ![r].stale = TRUE] \in [Reminder -> ReminderRow]
        BY <1>1, ZenonT(60) DEF ReminderRow
      <4> QED BY <4>1, <4>2, <4>3
    <3> QED BY <2>1, <3>1 DEF ReminderDue, ClaimAges, TypeOK, ReminderRow, delivery, judging, history
  <2>2. ASSUME NEW w \in Watch, CheckDue(w) \/ WatchLapses(w) PROVE TypeOK'
    <3>1. watch' \in [Watch -> WatchRow]
      <4>1. \/ watch' = [watch EXCEPT ![w].due = TRUE]
            \/ watch' = [watch EXCEPT ![w].lapsed = TRUE]
        BY <2>2 DEF CheckDue, WatchLapses
      <4>2. [watch EXCEPT ![w].due = TRUE] \in [Watch -> WatchRow]
        BY <1>1 DEF WatchRow
      <4>3. [watch EXCEPT ![w].lapsed = TRUE] \in [Watch -> WatchRow]
        BY <1>1 DEF WatchRow
      <4> QED BY <4>1, <4>2, <4>3
    <3> QED BY <2>2, <3>1 DEF CheckDue, WatchLapses, TypeOK, WatchRow, delivery, judging, history
  <2> QED BY <1>4, <2>1, <2>2 DEF Clock
<1>5. CASE People
  <2>1. ASSUME NEW r \in Reminder, Remind(r) PROVE TypeOK'
    <3>1. reminder' \in [Reminder -> ReminderRow]
      BY <2>1, CreatedIs DEF Remind
    <3> QED BY <2>1, <3>1 DEF Remind, TypeOK, ReminderRow, delivery, judging, history
  <2>2. ASSUME NEW r \in Reminder, Cancel(r) PROVE TypeOK'
    <3>1. reminder' \in [Reminder -> ReminderRow]
      BY <1>1, <2>2 DEF Cancel, ReminderRow
    <3> QED BY <2>2, <3>1 DEF Cancel, TypeOK, ReminderRow, delivery, judging, history
  <2>3. ASSUME NEW w \in Watch, WatchCondition(w) PROVE TypeOK'
    <3>1. PICK row : row = [NoWatch EXCEPT !.status = "active"]
      OBVIOUS
    <3>0. 0 \in 0 .. MaxChecks
      OBVIOUS
    <3>2. row = [status |-> "active", attempts |-> 0, due |-> FALSE, lapsed |-> FALSE]
      BY <3>1, NewWatch
    <3>5. row \in WatchRow
      BY <3>0, <3>2 DEF WatchRow
    <3>3. watch' = [watch EXCEPT ![w] = row]
      BY <2>3, <3>1 DEF WatchCondition
    <3>4. watch' \in [Watch -> WatchRow]
      BY <1>1, <3>5, <3>3
    <3> QED BY <2>3, <3>4 DEF WatchCondition, TypeOK, WatchRow, delivery, judging, history
  <2>4. CASE DeleteReminders
    <3>1. reminder' \in [Reminder -> ReminderRow]
      BY <1>1, <2>4 DEF DeleteReminders, Without, ReminderRow
    <3> QED BY <2>4, <3>1 DEF DeleteReminders, TypeOK, ReminderRow, delivery, judging, history
  <2>5. CASE DeleteWatches
    <3>1. watch' \in [Watch -> WatchRow]
      BY <1>1, <2>5 DEF DeleteWatches, Without, WatchRow
    <3> QED BY <2>5, <3>1 DEF DeleteWatches, TypeOK, WatchRow, delivery, judging, history
  <2>6. CASE DeleteDeployment \/ Pause
    BY <2>6 DEF DeleteDeployment, Pause, TypeOK, delivery, judging, history
  <2> QED BY <1>5, <2>1, <2>2, <2>3, <2>4, <2>5, <2>6 DEF People
<1>6. CASE Stop
  <2>1. restarts' \in 0 .. MaxRestart
    BY <1>6 DEF Stop, TypeOK
  <2> QED BY <1>6, <2>1 DEF Stop, TypeOK, history
<1>7. CASE Start
  <2>1. reminder' \in [Reminder -> ReminderRow]
    <3>1. CASE deployment = "gone"
      BY <1>1, <1>7, <3>1 DEF Start, Without, ReminderRow
    <3>2. CASE deployment # "gone"
      <4> SUFFICES ASSUME NEW r \in Reminder PROVE reminder'[r] \in ReminderRow
        BY <1>7, <3>2 DEF Start
      <4>1. \/ reminder'[r] = reminder[r]
            \/ reminder'[r] = [reminder[r] EXCEPT !.status = "pending", !.stale = FALSE]
        BY <1>7, <3>2 DEF Start
      <4> QED BY <1>1, <4>1 DEF ReminderRow
    <3> QED BY <3>1, <3>2
  <2>2. watch' \in [Watch -> WatchRow]
    BY <1>1, <1>7 DEF Start, Without, WatchRow
  <2>3. recovered' \in [Reminder -> Nat]
    <3>1. \A r \in Reminder : recovered[r] + 1 \in Nat
      BY DEF TypeOK
    <3> QED BY <1>7, <3>1 DEF Start, TypeOK
  <2> QED BY <1>7, <2>1, <2>2, <2>3 DEF Start, TypeOK, ReminderRow, WatchRow, delivery, judging
<1>8. CASE UNCHANGED vars
  BY <1>8 DEF TypeOK, vars, delivery, judging, history
<1> QED BY <1>2, <1>3, <1>4, <1>5, <1>6, <1>7, <1>8 DEF Next

(***************************************************************************)
(* RetriesBounded                                                          *)
(***************************************************************************)
LEMMA RetryInit == Init => RetryInv
  BY ReminderAssumption DEF Init, RetryInv, TypeOK, Held, Accounted, NoReminder, NoWatch, Resting

\* Rows change without a claim or a post; what they may become depends on what they were.
LEMMA RetryRows ==
  ASSUME RetryInv, TypeOK', UNCHANGED <<sent, recovered>>, batch' \subseteq batch,
         sending' = sending \/ sending' = Resting,
         \A r \in Reminder :
           \/ reminder'[r] = reminder[r]
           \/ /\ reminder'[r].attempts = reminder[r].attempts
              /\ reminder'[r].status # "none"
              /\ reminder'[r].status = "pending"
                   => reminder[r].attempts < MaxAttempts + recovered[r]
  PROVE  RetryInv'
<1> USE ReminderAssumption DEF RetryInv
<1>1. Held'
  BY DEF Held, TypeOK, Resting
<1>2. Accounted'
  BY DEF Accounted, TypeOK, Resting
<1> QED BY <1>1, <1>2

\* A created row takes the place of an empty one.
LEMMA RetryCreated ==
  ASSUME RetryInv, TypeOK', UNCHANGED <<delivery, history>>,
         NEW r \in Reminder, NEW w \in Watch \cup {Nothing}, NEW due \in BOOLEAN,
         Created(r, w, due)
  PROVE  RetryInv'
<1> USE ReminderAssumption DEF RetryInv
<1>1. reminder[r] = NoReminder
  BY DEF Created, Held
<1>2. reminder[r].attempts = 0
  BY <1>1 DEF NoReminder
<1>a. /\ reminder'[r] = [status |-> "pending", attempts |-> 0, due |-> due, stale |-> FALSE,
                         watch |-> w]
      /\ \A x \in Reminder \ {r} : reminder'[x] = reminder[x]
  BY CreatedIs
<1>3. /\ reminder'[r].attempts = 0 /\ reminder'[r].status = "pending"
      /\ \A x \in Reminder \ {r} : reminder'[x] = reminder[x]
  BY <1>a
<1>4. 0 < MaxAttempts + recovered[r]
  BY DEF TypeOK
<1> QED BY <1>2, <1>3, <1>4, RetryRows DEF delivery, history

LEMMA RetryStep == RetryInv /\ [Next]_vars => RetryInv'
<1> SUFFICES ASSUME RetryInv, [Next]_vars PROVE RetryInv'
  OBVIOUS
<1> USE ReminderAssumption
<1>0. TypeOK /\ TypeOK'
  BY TypeStep DEF RetryInv
<1>1. CASE Delivering
  <2>1. CASE ClaimDue
    <3>1. /\ sending = Resting /\ sending' = Resting /\ batch = {} /\ batch' \subseteq Reminder
          /\ UNCHANGED <<sent, recovered>>
          /\ \A r \in batch' : reminder[r].status = "pending"
      BY <2>1 DEF ClaimDue, history
    <3>2. \A r \in batch' : reminder'[r] = [reminder[r] EXCEPT !.status = "processing",
                                              !.stale = FALSE, !.attempts = @ + 1]
      BY <2>1 DEF ClaimDue
    <3>3. \A r \in batch' : /\ reminder'[r].status = "processing"
                            /\ reminder'[r].attempts = reminder[r].attempts + 1
      <4> SUFFICES ASSUME NEW r \in batch'
                   PROVE  /\ reminder'[r].status = "processing"
                          /\ reminder'[r].attempts = reminder[r].attempts + 1
        OBVIOUS
      <4>1. reminder[r] \in ReminderRow
        BY <1>0, <3>1 DEF TypeOK, ReminderRow
      <4>2. PICK y : y = reminder'[r]
        OBVIOUS
      <4>3. y = [reminder[r] EXCEPT !.status = "processing", !.stale = FALSE, !.attempts = @ + 1]
        BY <3>2, <4>2
      <4> QED BY <4>1, <4>2, <4>3, ClaimedIs, ZenonT(60)
    <3>4. \A r \in Reminder \ batch' : reminder'[r] = reminder[r]
      BY <2>1 DEF ClaimDue
    <3>5. Held'
      BY <1>0, <3>1, <3>3, <3>4 DEF RetryInv, Held, Resting
    <3>6. Accounted'
      BY <1>0, <3>1, <3>3, <3>4 DEF RetryInv, Accounted, TypeOK, Resting
    <3> QED BY <1>0, <3>5, <3>6 DEF RetryInv
  <2>2. ASSUME NEW r \in Reminder, Deliver(r) PROVE RetryInv'
    BY <1>0, <2>2 DEF Deliver, RetryInv, Held, Accounted, TypeOK, Resting, history
  <2>3. CASE PostAnswered \/ PostRefused \/ PostUnclear
    <3>1. /\ sending.of \in Reminder /\ sending.stage = "post"
          /\ sending'.of = sending.of /\ sending'.stage \in {"delivered", "failed"}
          /\ UNCHANGED <<reminder, batch, recovered>>
          /\ sent'[sending.of] \in {sent[sending.of], sent[sending.of] + 1}
          /\ \A r \in Reminder : r # sending.of => sent'[r] = sent[r]
      BY <1>0, <2>3 DEF PostAnswered, PostRefused, PostUnclear, Post, TypeOK, Resting
    <3>2. Held'
      BY <3>1 DEF RetryInv, Held
    <3>3. Accounted'
      BY <1>0, <3>1 DEF RetryInv, Held, Accounted, TypeOK
    <3> QED BY <1>0, <3>2, <3>3 DEF RetryInv
  <2>4. CASE MarkDelivered
    BY <1>0, <2>4, RetryRows DEF MarkDelivered, RetryInv, TypeOK, Resting, history
  <2>5. CASE MarkFailure
    BY <1>0, <2>5, RetryRows, SMTT(60) DEF MarkFailure, RetryInv, TypeOK, Resting, history
  <2> QED BY <1>1, <2>1, <2>2, <2>3, <2>4, <2>5 DEF Delivering
<1>2. CASE Judging
  <2>1. ASSUME NEW r \in Reminder, Notify(r) PROVE RetryInv'
    <3>1. checking.of \in Watch
      BY <1>0, <2>1 DEF Notify, TypeOK, Resting
    <3> QED BY <1>0, <2>1, <3>1, RetryCreated DEF Notify
  <2>2. ASSUME ClaimWatches \/ (\E w \in Watch : \E stage \in {"met", "unmet", "failed"} : Evaluate(w, stage))
                 \/ NotifyFails \/ MarkTriggered \/ MarkUnmet
        PROVE  RetryInv'
    BY <1>0, <2>2, RetryRows
       DEF ClaimWatches, Evaluate, NotifyFails, MarkTriggered, MarkUnmet, delivery, history
  <2> QED BY <1>2, <2>1, <2>2 DEF Judging
<1>3. CASE Clock
  <2>1. ASSUME NEW r \in Reminder, ReminderDue(r) \/ ClaimAges(r) PROVE RetryInv'
    <3>1. reminder[r].status = "pending" => reminder[r].attempts < MaxAttempts + recovered[r]
      BY DEF RetryInv, Accounted
    <3> QED BY <1>0, <2>1, <3>1, RetryRows DEF ReminderDue, ClaimAges, TypeOK, delivery, history
  <2>2. ASSUME NEW w \in Watch, CheckDue(w) \/ WatchLapses(w) PROVE RetryInv'
    BY <1>0, <2>2, RetryRows DEF CheckDue, WatchLapses, delivery, history
  <2> QED BY <1>3, <2>1, <2>2 DEF Clock
<1>4. CASE People
  <2>1. ASSUME NEW r \in Reminder, Remind(r) PROVE RetryInv'
    BY <1>0, <2>1, RetryCreated DEF Remind
  <2>2. ASSUME NEW r \in Reminder, Cancel(r) PROVE RetryInv'
    BY <1>0, <2>2, RetryRows DEF Cancel, TypeOK, delivery, history
  <2>3. CASE DeleteReminders
    BY <1>0, <2>3, RetryRows DEF DeleteReminders, Without, TypeOK, delivery, history
  <2>4. ASSUME (\E w \in Watch : WatchCondition(w)) \/ DeleteWatches \/ DeleteDeployment \/ Pause
        PROVE  RetryInv'
    BY <1>0, <2>4, RetryRows
       DEF WatchCondition, DeleteWatches, DeleteDeployment, Pause, delivery, history
  <2> QED BY <1>4, <2>1, <2>2, <2>3, <2>4 DEF People
<1>5. CASE Stop
  BY <1>0, <1>5, RetryRows DEF Stop, history
<1>6. CASE Start
  <2>1. /\ \A r \in Reminder : \/ reminder'[r] = reminder[r]
                               \/ /\ reminder'[r].attempts = reminder[r].attempts
                                  /\ reminder[r].status # "none"
                                  /\ reminder'[r].status = "deleted"
                               \/ /\ reminder'[r].attempts = reminder[r].attempts
                                  /\ reminder[r].status # "none"
                                  /\ reminder'[r].status = "pending"
                                  /\ recovered'[r] = recovered[r] + 1
        /\ \A r \in Reminder : recovered'[r] \in {recovered[r], recovered[r] + 1}
        /\ UNCHANGED <<batch, sending, sent>>
    <3>1. CASE deployment = "gone"
      BY <1>0, <1>6, <3>1 DEF Start, Without, TypeOK, delivery
    <3>2. CASE deployment # "gone"
      <4>1. \A r \in Reminder :
              \/ reminder'[r] = reminder[r] /\ recovered'[r] = recovered[r]
              \/ /\ reminder[r].status = "processing" /\ recovered'[r] = recovered[r] + 1
                 /\ reminder'[r] = [reminder[r] EXCEPT !.status = "pending", !.stale = FALSE]
        BY <1>6, <3>2 DEF Start
      <4>2. UNCHANGED <<batch, sending, sent>>
        BY <1>6 DEF Start, delivery
      <4>3. \A r \in Reminder : reminder[r] \in ReminderRow
        BY <1>0 DEF TypeOK, ReminderRow
      <4>4. ASSUME NEW r \in Reminder,
                   reminder'[r] = [reminder[r] EXCEPT !.status = "pending", !.stale = FALSE]
            PROVE  reminder'[r].status = "pending" /\ reminder'[r].attempts = reminder[r].attempts
        BY <4>3, <4>4, RecoveredIs
      <4> QED BY <4>1, <4>2, <4>4
    <3> QED BY <3>1, <3>2
  <2>2. Held'
    BY <1>0, <2>1 DEF RetryInv, Held
  <2>3. Accounted'
    BY <1>0, <2>1 DEF RetryInv, Accounted, TypeOK
  <2> QED BY <1>0, <2>2, <2>3 DEF RetryInv
<1>7. CASE UNCHANGED vars
  BY <1>0, <1>7, RetryRows DEF vars, delivery, history
<1> QED BY <1>1, <1>2, <1>3, <1>4, <1>5, <1>6, <1>7 DEF Next

\* A reminder is posted no more often than its attempts and its recoveries allow
\* (mark_failure, recover_interrupted), for any table and any number of restarts.
THEOREM RetriesKept == Spec => []RetriesBounded
<1>1. RetryInv => RetriesBounded
  BY ReminderAssumption DEF RetryInv, Accounted, RetriesBounded, TypeOK
<1> QED BY <1>1, RetryInit, RetryStep, PTL DEF Spec

\* The rows of both tables and the places of both loops keep their shapes.
THEOREM RemindersTypeCorrect == Spec => []TypeOK
<1>1. RetryInv => TypeOK
  BY DEF RetryInv
<1> QED BY <1>1, RetryInit, RetryStep, PTL DEF Spec

(***************************************************************************)
(* NoticesMatch                                                            *)
(***************************************************************************)
LEMMA NoticesInit == Init => NoticeInv
<1> SUFFICES ASSUME Init PROVE NoticeInv
  OBVIOUS
<1> USE ReminderAssumption
<1>1. \A w \in Watch : Notices(w) = {}
  BY DEF Init, Notices, NoReminder
<1>2. HeldWatches
  BY DEF Init, HeldWatches, Resting
<1>3. restarts = 0 /\ checking = Resting /\ checks = {} /\ \A w \in Watch : watch[w].status = "none"
  BY DEF Init, NoWatch
<1>4. NoticesAccounted
  BY <1>1, <1>3, FS_EmptySet DEF NoticesAccounted, Resting
<1> QED BY <1>2, <1>4, RetryInit DEF NoticeInv

\* No reminder is attached to another watch.
LEMMA SameNotices ==
  ASSUME \A r \in Reminder : reminder'[r].watch = reminder[r].watch
  PROVE  \A w \in Watch : Notices(w)' = Notices(w)
  BY DEF Notices

\* A reminder that is created belonged to no watch.
LEMMA CreatedNotices ==
  ASSUME RetryInv, NEW r \in Reminder, NEW v \in Watch \cup {Nothing}, NEW due \in BOOLEAN,
         Created(r, v, due)
  PROVE  /\ \A w \in Watch \ {v} : Notices(w)' = Notices(w)
         /\ v \in Watch => r \notin Notices(v) /\ Notices(v)' = Notices(v) \cup {r}
<1> USE ReminderAssumption
<1>1. reminder[r] = NoReminder
  BY DEF Created, RetryInv, Held
<1>2. reminder[r].watch = Nothing
  BY <1>1 DEF NoReminder
<1>a. /\ reminder'[r] = [status |-> "pending", attempts |-> 0, due |-> due, stale |-> FALSE,
                         watch |-> v]
      /\ \A x \in Reminder \ {r} : reminder'[x] = reminder[x]
  BY CreatedIs DEF RetryInv
<1>3. reminder'[r].watch = v /\ \A x \in Reminder \ {r} : reminder'[x] = reminder[x]
  BY <1>a
<1> QED BY <1>2, <1>3 DEF Notices

\* The watch loop stands still; a watch is asked for, ends or is deleted.
LEMMA NoticesIdle ==
  ASSUME NoticeInv, RetryInv', \A w \in Watch : Notices(w)' = Notices(w),
         UNCHANGED <<checks, checking, restarts>>,
         \A w \in Watch :
           \/ watch'[w].status = watch[w].status
           \/ watch[w].status = "none" /\ watch'[w].status = "active"
           \/ watch[w].status # "none" /\ watch'[w].status \in {"expired", "failed", "deleted"}
  PROVE  NoticeInv'
<1> USE DEF NoticeInv
<1>1. HeldWatches'
  BY DEF HeldWatches
<1>2. NoticesAccounted'
  BY DEF NoticesAccounted
<1> QED BY <1>1, <1>2

LEMMA NoticesStep == NoticeInv /\ [Next]_vars => NoticeInv'
<1> SUFFICES ASSUME NoticeInv, [Next]_vars PROVE NoticeInv'
  OBVIOUS
<1> USE ReminderAssumption
<1>0. /\ RetryInv /\ RetryInv' /\ TypeOK /\ TypeOK'
      /\ \A w \in Watch : /\ IsFiniteSet(Notices(w)) /\ Cardinality(Notices(w)) \in Nat
                          /\ watch[w].status \in {"none", "active", "triggered", "expired",
                                                  "failed", "deleted"}
      /\ restarts \in Nat
  <2>1. RetryInv /\ RetryInv'
    BY RetryStep DEF NoticeInv
  <2>2. TypeOK /\ TypeOK'
    BY <2>1 DEF RetryInv
  <2>3. \A w \in Watch : IsFiniteSet(Notices(w)) /\ Cardinality(Notices(w)) \in Nat
    BY FS_CardinalityType DEF NoticeInv, NoticesAccounted
  <2> QED BY <2>1, <2>2, <2>3 DEF TypeOK
<1>1. CASE Delivering
  <2>1. \A r \in Reminder : reminder'[r].watch = reminder[r].watch
    <3>1. CASE ClaimDue
      <4> SUFFICES ASSUME NEW r \in Reminder PROVE reminder'[r].watch = reminder[r].watch
        OBVIOUS
      <4>1. CASE reminder'[r] = reminder[r]
        BY <4>1
      <4>2. CASE reminder'[r] = [reminder[r] EXCEPT !.status = "processing", !.stale = FALSE,
                                                    !.attempts = @ + 1]
        <5>1. reminder[r] \in ReminderRow
          BY <1>0 DEF TypeOK, ReminderRow
        <5> QED BY <4>2, <5>1, ClaimedIs
      <4> QED BY <3>1, <4>1, <4>2 DEF ClaimDue
    <3>2. CASE MarkDelivered
      BY <1>0, <3>2 DEF MarkDelivered, TypeOK
    <3>4. CASE MarkFailure
      BY <1>0, <3>4 DEF MarkFailure, TypeOK
    <3>3. CASE UNCHANGED reminder
      BY <3>3
    <3> QED BY <1>1, <3>1, <3>2, <3>3, <3>4
            DEF Delivering, Deliver, PostAnswered, PostRefused, PostUnclear, Post
  <2>2. UNCHANGED <<watch, checks, checking, restarts>>
    BY <1>1 DEF Delivering, ClaimDue, Deliver, PostAnswered, PostRefused, PostUnclear, Post,
            MarkDelivered, MarkFailure, judging
  <2> QED BY <1>0, <2>1, <2>2, SameNotices, NoticesIdle
<1>2. CASE Judging
  <2>1. ASSUME NEW r \in Reminder, Notify(r) PROVE NoticeInv'
    <3> DEFINE v == checking.of
    <3>1. /\ v \in Watch /\ checking.stage = "met" /\ Created(r, v, TRUE)
          /\ checking'.of = v /\ checking'.stage = "notified"
          /\ UNCHANGED <<watch, checks, restarts>>
      BY <1>0, <2>1 DEF Notify, TypeOK, Resting
    <3>2. /\ \A w \in Watch \ {v} : Notices(w)' = Notices(w)
          /\ r \notin Notices(v) /\ Notices(v)' = Notices(v) \cup {r}
      BY <1>0, <3>1, CreatedNotices
    <3>3. /\ IsFiniteSet(Notices(v)') /\ Cardinality(Notices(v)') = Cardinality(Notices(v)) + 1
          /\ Notices(v)' # {}
      BY <1>0, <3>1, <3>2, FS_AddElement
    <3>4. HeldWatches'
      BY <3>1 DEF NoticeInv, HeldWatches
    <3>5. Cardinality(Notices(v)) <= restarts /\ v \notin checks
      BY <3>1 DEF NoticeInv, HeldWatches, NoticesAccounted
    <3>6. NoticesAccounted'
      <4> SUFFICES ASSUME NEW w \in Watch
                   PROVE  /\ IsFiniteSet(Notices(w)')
                          /\ Cardinality(Notices(w)') <= 1 + restarts
                          /\ watch[w].status \in {"none", "active"} /\ w # v
                               => Cardinality(Notices(w)') <= restarts
                          /\ w \in checks => Cardinality(Notices(w)') <= restarts
                          /\ watch[w].status = "triggered" \/ w = v => Notices(w)' # {}
        BY <3>1 DEF NoticesAccounted
      <4>1. CASE w = v
        BY <1>0, <3>1, <3>3, <3>5, <4>1
      <4>2. CASE w # v
        BY <3>2, <3>1, <4>2 DEF NoticeInv, NoticesAccounted
      <4> QED BY <4>1, <4>2
    <3> QED BY <1>0, <3>4, <3>6 DEF NoticeInv
  <2>2. ASSUME ~(\E r \in Reminder : Notify(r)) PROVE NoticeInv'
    <3>1. UNCHANGED <<reminder, restarts>>
      BY <1>2, <2>2 DEF Judging, ClaimWatches, Evaluate, NotifyFails, MarkTriggered, MarkUnmet, delivery
    <3>2. \A w \in Watch : Notices(w)' = Notices(w)
      BY <3>1, SameNotices
    <3>3. CASE ClaimWatches
      <4>1. /\ checking = Resting /\ checking' = Resting
            /\ \A w \in checks' : w \in Watch /\ watch[w].status = "active"
            /\ \A w \in Watch : watch'[w].status \in {watch[w].status, "expired"}
            /\ \A w \in Watch : watch[w].status = "none" => watch'[w].status = "none"
            /\ \A w \in checks' : watch'[w].status = "active"
        <5>1. /\ checking = Resting /\ checking' = Resting
              /\ \A w \in checks' : w \in Watch /\ watch[w].status = "active" /\ ~watch[w].lapsed
          BY <3>3 DEF ClaimWatches
        <5>2. \A w \in Watch :
                \/ watch'[w] = watch[w]
                \/ /\ watch[w].status = "active" /\ watch[w].lapsed
                   /\ watch'[w] = [watch[w] EXCEPT !.status = "expired"]
                \/ /\ watch[w].status = "active" /\ ~watch[w].lapsed
                   /\ watch'[w] = [watch[w] EXCEPT !.attempts = @ + 1, !.due = FALSE]
          BY <3>3 DEF ClaimWatches
        <5>3. \A w \in Watch : watch[w] \in WatchRow
          BY <1>0 DEF TypeOK, WatchRow
        <5>4. \A w \in Watch :
                \/ watch'[w].status = watch[w].status
                \/ /\ watch[w].status = "active" /\ watch[w].lapsed
                   /\ watch'[w].status = "expired"
          <6> SUFFICES ASSUME NEW w \in Watch
                       PROVE  \/ watch'[w].status = watch[w].status
                              \/ /\ watch[w].status = "active" /\ watch[w].lapsed
                                 /\ watch'[w].status = "expired"
            OBVIOUS
          <6>1. watch[w] \in WatchRow
            BY <5>3
          <6>2. CASE watch'[w] = [watch[w] EXCEPT !.status = "expired"]
            BY <5>2, <6>1, <6>2, WatchEdits, ZenonT(60)
          <6>3. CASE watch'[w] = [watch[w] EXCEPT !.attempts = @ + 1, !.due = FALSE]
            BY <6>1, <6>3, WatchEdits
          <6> QED BY <5>2, <6>2, <6>3
        <5> QED BY <5>1, <5>4
      <4>2. HeldWatches'
        BY <4>1 DEF HeldWatches, Resting
      <4>3. NoticesAccounted'
        BY <1>0, <3>1, <3>2, <4>1 DEF NoticeInv, NoticesAccounted, Resting
      <4> QED BY <1>0, <4>2, <4>3 DEF NoticeInv
    <3>4. ASSUME NEW w \in Watch, NEW stage \in {"met", "unmet", "failed"}, Evaluate(w, stage)
          PROVE  NoticeInv'
      <4>1. /\ w \in checks /\ checks' = checks \ {w} /\ checking'.of = w /\ checking'.stage = stage
            /\ checking = Resting /\ UNCHANGED watch
        BY <3>4 DEF Evaluate
      <4>2. HeldWatches'
        BY <4>1 DEF NoticeInv, HeldWatches
      <4>3. NoticesAccounted'
        BY <1>0, <3>1, <3>2, <4>1 DEF NoticeInv, NoticesAccounted, Resting
      <4> QED BY <1>0, <4>2, <4>3 DEF NoticeInv
    <3>5. CASE NotifyFails
      <4>1. /\ checking'.of = checking.of /\ checking.stage = "met" /\ checking'.stage = "failed"
            /\ UNCHANGED <<watch, checks>>
        BY <1>0, <3>5 DEF NotifyFails, TypeOK, Resting
      <4>2. HeldWatches'
        BY <4>1 DEF NoticeInv, HeldWatches
      <4>3. NoticesAccounted'
        BY <1>0, <3>1, <3>2, <4>1 DEF NoticeInv, NoticesAccounted
      <4> QED BY <1>0, <4>2, <4>3 DEF NoticeInv
    <3>6. CASE MarkTriggered
      <4>1. /\ checking.of \in Watch /\ checking.stage = "notified" /\ checking' = Resting
            /\ UNCHANGED checks
            /\ \A w \in Watch : \/ watch'[w].status = watch[w].status
                                     /\ (w = checking.of => watch[w].status # "active")
                                \/ w = checking.of /\ watch'[w].status = "triggered"
        BY <1>0, <3>6 DEF MarkTriggered, TypeOK, Resting
      <4>2. HeldWatches'
        BY <1>0, <4>1 DEF NoticeInv, HeldWatches, Resting, TypeOK
      <4>3. NoticesAccounted'
        BY <1>0, <3>1, <3>2, <4>1 DEF NoticeInv, HeldWatches, NoticesAccounted, Resting
      <4> QED BY <1>0, <4>2, <4>3 DEF NoticeInv
    <3>7. CASE MarkUnmet
      <4>1. /\ checking.of \in Watch /\ checking.stage \in {"unmet", "failed"}
            /\ checking' = Resting /\ UNCHANGED checks
            /\ \A w \in Watch : \/ watch'[w].status = watch[w].status
                                \/ watch[w].status = "active" /\ watch'[w].status \in {"expired", "failed"}
        BY <1>0, <3>7 DEF MarkUnmet, TypeOK, Resting
      <4>2. HeldWatches'
        BY <1>0, <4>1 DEF NoticeInv, HeldWatches, Resting, TypeOK
      <4>3. NoticesAccounted'
        BY <1>0, <3>1, <3>2, <4>1 DEF NoticeInv, HeldWatches, NoticesAccounted, Resting
      <4> QED BY <1>0, <4>2, <4>3 DEF NoticeInv
    <3> QED BY <1>2, <2>2, <3>3, <3>4, <3>5, <3>6, <3>7 DEF Judging
  <2> QED BY <2>1, <2>2
<1>3. CASE Clock
  <2>1. ASSUME NEW r \in Reminder, ReminderDue(r) \/ ClaimAges(r) PROVE NoticeInv'
    <3>1. \A x \in Reminder : reminder'[x].watch = reminder[x].watch
      BY <1>0, <2>1 DEF ReminderDue, ClaimAges, TypeOK
    <3> QED BY <1>0, <2>1, <3>1, SameNotices, NoticesIdle DEF ReminderDue, ClaimAges, judging
  <2>2. ASSUME NEW w \in Watch, CheckDue(w) \/ WatchLapses(w) PROVE NoticeInv'
    <3>1. \A x \in Watch : watch'[x].status = watch[x].status
      BY <1>0, <2>2 DEF CheckDue, WatchLapses, TypeOK
    <3> QED BY <1>0, <2>2, <3>1, SameNotices, NoticesIdle DEF CheckDue, WatchLapses, judging
  <2> QED BY <1>3, <2>1, <2>2 DEF Clock
<1>4. CASE People
  <2>1. ASSUME NEW r \in Reminder, Remind(r) PROVE NoticeInv'
    <3>1. Created(r, Nothing, FALSE) /\ UNCHANGED <<watch, checks, checking, restarts>>
      BY <2>1 DEF Remind, judging
    <3>2. \A w \in Watch : Notices(w)' = Notices(w)
      BY <1>0, <3>1, CreatedNotices
    <3> QED BY <1>0, <3>1, <3>2, NoticesIdle
  <2>2. ASSUME NEW r \in Reminder, Cancel(r) PROVE NoticeInv'
    <3>1. \A x \in Reminder : reminder'[x].watch = reminder[x].watch
      BY <1>0, <2>2 DEF Cancel, TypeOK
    <3> QED BY <1>0, <2>2, <3>1, SameNotices, NoticesIdle DEF Cancel, judging
  <2>3. ASSUME NEW w \in Watch, WatchCondition(w) PROVE NoticeInv'
    <3>1. PICK row : row = [NoWatch EXCEPT !.status = "active"]
      OBVIOUS
    <3>2. row = [status |-> "active", attempts |-> 0, due |-> FALSE, lapsed |-> FALSE]
      BY <3>1, NewWatch
    <3>3. watch[w].status = "none" /\ watch' = [watch EXCEPT ![w] = row]
      BY <2>3, <3>1 DEF WatchCondition
    <3>4. \A x \in Watch : \/ watch'[x].status = watch[x].status
                           \/ watch[x].status = "none" /\ watch'[x].status = "active"
      BY <1>0, <3>2, <3>3 DEF TypeOK
    <3> QED BY <1>0, <2>3, <3>4, SameNotices, NoticesIdle DEF WatchCondition, judging
  <2>4. CASE DeleteReminders
    <3>1. \A x \in Reminder : reminder'[x].watch = reminder[x].watch
      BY <1>0, <2>4 DEF DeleteReminders, Without, TypeOK
    <3> QED BY <1>0, <2>4, <3>1, SameNotices, NoticesIdle DEF DeleteReminders, judging
  <2>5. CASE DeleteWatches
    <3>1. \A w \in Watch : \/ watch'[w].status = watch[w].status
                           \/ watch[w].status # "none" /\ watch'[w].status = "deleted"
      BY <1>0, <2>5 DEF DeleteWatches, Without, TypeOK
    <3> QED BY <1>0, <2>5, <3>1, SameNotices, NoticesIdle DEF DeleteWatches, judging
  <2>6. CASE DeleteDeployment \/ Pause
    BY <1>0, <2>6, SameNotices, NoticesIdle DEF DeleteDeployment, Pause, judging
  <2> QED BY <1>4, <2>1, <2>2, <2>3, <2>4, <2>5, <2>6 DEF People
<1>5. CASE Stop
  <2>1. /\ checking' = Resting /\ checks' = {} /\ restarts' = restarts + 1
        /\ UNCHANGED <<reminder, watch>>
    BY <1>5 DEF Stop
  <2>2. \A w \in Watch : Notices(w)' = Notices(w)
    BY <2>1, SameNotices
  <2>3. HeldWatches'
    BY <2>1 DEF HeldWatches, Resting
  <2>4. NoticesAccounted'
    BY <1>0, <2>1, <2>2 DEF NoticeInv, NoticesAccounted, Resting
  <2> QED BY <1>0, <2>3, <2>4 DEF NoticeInv
<1>6. CASE Start
  <2>1. \A r \in Reminder : reminder'[r].watch = reminder[r].watch
    <3>1. CASE deployment = "gone"
      BY <1>0, <1>6, <3>1 DEF Start, Without, TypeOK
    <3>2. CASE deployment # "gone"
      <4>1. ASSUME NEW r \in Reminder,
                   reminder'[r] = [reminder[r] EXCEPT !.status = "pending", !.stale = FALSE]
            PROVE  reminder'[r].watch = reminder[r].watch
        <5>1. reminder[r] \in ReminderRow
          BY <1>0 DEF TypeOK, ReminderRow
        <5> QED BY <4>1, <5>1, RecoveredIs
      <4>2. \A r \in Reminder :
              \/ reminder'[r] = reminder[r]
              \/ reminder'[r] = [reminder[r] EXCEPT !.status = "pending", !.stale = FALSE]
        BY <1>6, <3>2 DEF Start
      <4> QED BY <4>1, <4>2
    <3> QED BY <3>1, <3>2
  <2>2. \A w \in Watch : \/ watch'[w].status = watch[w].status
                         \/ watch[w].status # "none" /\ watch'[w].status = "deleted"
    <3>1. CASE deployment = "gone"
      BY <1>0, <1>6, <3>1 DEF Start, Without, TypeOK
    <3>2. CASE deployment # "gone"
      BY <1>6, <3>2 DEF Start
    <3> QED BY <3>1, <3>2
  <2> QED BY <1>0, <1>6, <2>1, <2>2, SameNotices, NoticesIdle DEF Start, judging
<1>7. CASE UNCHANGED vars
  BY <1>0, <1>7, SameNotices, NoticesIdle DEF vars, judging
<1> QED BY <1>1, <1>2, <1>3, <1>4, <1>5, <1>6, <1>7 DEF Next

\* A triggered watch has queued its notification and a watch queues no more than one and one
\* for every restart (_notify_watch before _mark_triggered), for any tables and restarts.
THEOREM NoticesKept == Spec => []NoticesMatch
<1>1. NoticeInv => NoticesMatch
  <2> SUFFICES ASSUME NoticeInv, NEW w \in Watch
               PROVE  /\ Cardinality(Notices(w)) <= 1 + restarts
                      /\ watch[w].status = "triggered" => Cardinality(Notices(w)) >= 1
    BY DEF NoticesMatch, Notices
  <2>1. IsFiniteSet(Notices(w)) /\ Cardinality(Notices(w)) \in Nat
    BY FS_CardinalityType DEF NoticeInv, NoticesAccounted
  <2>2. Notices(w) # {} => Cardinality(Notices(w)) # 0
    BY <2>1, FS_EmptySet
  <2> QED BY <2>1, <2>2 DEF NoticeInv, NoticesAccounted
<1> QED BY <1>1, NoticesInit, NoticesStep, PTL DEF Spec
=============================================================================
