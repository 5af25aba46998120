----------------------------- MODULE RoomIngress -----------------------------
(***************************************************************************)
(* The way of a Discord message into a turn: admission, a chain of         *)
(* preflights per room, the collector that joins messages into a burst,    *)
(* and the bounded queue of turns.  The code keeps six counters beside     *)
(* these containers; a counter that drifts shuts a room for good.          *)
(***************************************************************************)
EXTENDS Naturals, Sequences, FiniteSets, SequencesExt

CONSTANTS ChatRoom,
          MaxMsg,                      \* bound: messages, numbered as they arrive
          IngressMax, IngressPerRoom,  \* maxPending, maxPendingPerScope
          WorkMax, WorkPerRoom,        \* maximumPending, maximumPerRoom
          Concurrency, ConcurrencyPerRoom,
          BurstMax                     \* maxMessages of a burst

ASSUME IngressAssumption ==
    /\ {IngressMax, IngressPerRoom, WorkMax, WorkPerRoom, Concurrency,
        ConcurrencyPerRoom, BurstMax} \subseteq Nat \ {0}
    /\ ConcurrencyPerRoom <= Concurrency /\ MaxMsg \in Nat

VARIABLES fate,        \* where each message is
          old,         \* messages past maxPreflightAgeMs
          chain,       \* preflightQueues
          burst,       \* pending of the collector
          waiting,     \* works that wait, each [room, items, burst]
          started,     \* works with a slot whose promise has not begun to run
          running,     \* works that run
          pre, col,    \* preflightPendingByScope, collectedPendingByScope
          preAll, colAll,
          roomPending, roomActive, active,
          phase,       \* "open", "closed", "stopped"
          begun,       \* history: messages whose turn began, in order
          home         \* history: room of each message

ingressCounters == <<pre, col, preAll, colAll>>
workVars == <<waiting, started, running, roomPending, roomActive, active>>
ingressVars == <<fate, old, chain, burst, ingressCounters, workVars, phase, begun, home>>

Msg == 1..MaxMsg
Settled == {"done", "merged", "busy", "expired"}
Work == [room: ChatRoom, items: Seq(Msg), burst: BOOLEAN]

IngressTypeOK ==
    /\ fate \in [Msg -> {"none", "direct", "collect", "flushed", "burst", "queued", "running"}
                        \cup Settled]
    /\ chain \in [ChatRoom -> Seq(Msg)] /\ burst \in [ChatRoom -> Seq(Msg)]
    /\ {waiting, started} \subseteq Seq(Work) /\ running \subseteq Work
    /\ preAll + colAll <= IngressMax
    /\ \A r \in ChatRoom : /\ pre[r] + col[r] <= IngressPerRoom /\ Len(burst[r]) < BurstMax
                           /\ roomPending[r] <= WorkPerRoom /\ roomActive[r] <= ConcurrencyPerRoom
    /\ active <= Concurrency /\ active + Len(waiting) <= WorkMax
    /\ phase \in {"open", "closed", "stopped"}

IngressInit ==
    /\ fate = [m \in Msg |-> "none"] /\ old = {}
    /\ chain = [r \in ChatRoom |-> << >>] /\ burst = [r \in ChatRoom |-> << >>]
    /\ waiting = << >> /\ started = << >> /\ running = {}
    /\ pre = [r \in ChatRoom |-> 0] /\ col = [r \in ChatRoom |-> 0]
    /\ preAll = 0 /\ colAll = 0
    /\ roomPending = [r \in ChatRoom |-> 0] /\ roomActive = [r \in ChatRoom |-> 0] /\ active = 0
    /\ phase = "open" /\ begun = << >> /\ home = [m \in Msg |-> CHOOSE r \in ChatRoom : TRUE]
-----------------------------------------------------------------------------
(* RoomWorkQueue *)

\* startAvailable, applied to a waiting list and the counters of running work.  A call finds
\* at most one work to start: before it there was none, and it follows one change.
Eligible(q, ra, a) == {i \in DOMAIN q : a < Concurrency /\ ra[q[i].room] < ConcurrencyPerRoom}
StartAvailable(q, ra, a) ==
    IF Eligible(q, ra, a) = {}
    THEN waiting' = q /\ roomActive' = ra /\ active' = a /\ UNCHANGED started
    ELSE LET i == CHOOSE i \in Eligible(q, ra, a) : \A k \in Eligible(q, ra, a) : i <= k IN
         /\ waiting' = RemoveAt(q, i) /\ started' = Append(started, q[i])
         /\ roomActive' = [ra EXCEPT ![q[i].room] = @ + 1] /\ active' = a + 1

HasRoom(r) == active + Len(waiting) < WorkMax /\ roomPending[r] < WorkPerRoom

\* enqueue, when there is room.
EnqueueWork(w) ==
    /\ roomPending' = [roomPending EXCEPT ![w.room] = @ + 1]
    /\ StartAvailable(Append(waiting, w), roomActive, active)
    /\ UNCHANGED running

ReleaseCollected(r, n) ==
    LET released == IF n < col[r] THEN n ELSE col[r] IN
    /\ col' = [col EXCEPT ![r] = @ - released] /\ colAll' = colAll - released

Mark(ms, s) == [m \in Msg |-> IF m \in ms THEN s ELSE fate[m]]
-----------------------------------------------------------------------------
(* TurnIngressCoordinator and TurnCollector *)

Full(r) == preAll + colAll >= IngressMax \/ pre[r] + col[r] >= IngressPerRoom

\* Messages are numbered by arrival.
SubmitMessage(m, r, collect) ==
    /\ fate[m] = "none" /\ phase = "open" /\ \A k \in 1..(m - 1) : fate[k] # "none"
    /\ IF Full(r)
       THEN fate' = [fate EXCEPT ![m] = "busy"] /\ UNCHANGED <<chain, pre, preAll>>
       ELSE /\ fate' = [fate EXCEPT ![m] = IF collect THEN "collect" ELSE "direct"]
            /\ chain' = [chain EXCEPT ![r] = Append(@, m)]
            /\ pre' = [pre EXCEPT ![r] = @ + 1] /\ preAll' = preAll + 1
    /\ UNCHANGED <<old, burst, col, colAll, workVars, phase, begun>>
    /\ home' = [home EXCEPT ![m] = r]

\* The end of a link of the chain.
PreflightEnds(r) ==
    /\ chain' = [chain EXCEPT ![r] = Tail(@)]
    /\ pre' = [pre EXCEPT ![r] = @ - 1] /\ preAll' = preAll - 1

PreflightExpired(r) ==
    /\ chain[r] # << >> /\ Head(chain[r]) \in old
    /\ fate[Head(chain[r])] \in {"direct", "collect"}
    /\ fate' = [fate EXCEPT ![Head(chain[r])] = "expired"] /\ PreflightEnds(r)
    /\ UNCHANGED <<old, burst, col, colAll, workVars, phase, begun, home>>

\* The handler of a flush, given the fates and counters the step has reached.
Flushed(r, items, f) ==
    IF HasRoom(r)
    THEN /\ EnqueueWork([room |-> r, items |-> items, burst |-> TRUE])
         /\ fate' = [m \in Msg |-> IF m \in ToSet(items) THEN "queued" ELSE f[m]]
         /\ UNCHANGED <<col, colAll>>
    ELSE /\ ReleaseCollected(r, Len(items))
         /\ fate' = [m \in Msg |-> IF m = Last(items) THEN "busy"
                                   ELSE IF m \in ToSet(items) THEN "merged" ELSE f[m]]
         /\ UNCHANGED workVars

\* A quiet window, the longest wait, too many characters or the shutdown.
FlushBurst(r) ==
    /\ burst[r] # << >> /\ Flushed(r, burst[r], fate)
    /\ burst' = [burst EXCEPT ![r] = << >>]
    /\ UNCHANGED <<old, chain, pre, preAll, phase, begun, home>>

\* Mutant of PreflightFlush.
PreflightNoFlush(r) ==
    LET m == Head(chain[r]) IN
    /\ chain[r] # << >> /\ fate[m] = "direct" /\ m \notin old
    /\ fate' = [fate EXCEPT ![m] = "flushed"]
    /\ UNCHANGED <<old, chain, burst, ingressCounters, workVars, phase, begun, home>>

\* A direct message flushes the burst before it, then queues its own turn.
PreflightFlush(r) ==
    LET m == Head(chain[r]) IN
    /\ chain[r] # << >> /\ fate[m] = "direct" /\ m \notin old
    /\ IF burst[r] = << >>
       THEN fate' = [fate EXCEPT ![m] = "flushed"] /\ UNCHANGED <<col, colAll, workVars>>
       ELSE Flushed(r, burst[r], [fate EXCEPT ![m] = "flushed"])
    /\ burst' = [burst EXCEPT ![r] = << >>]
    /\ UNCHANGED <<old, chain, pre, preAll, phase, begun, home>>

PreflightDirect(r) ==
    LET m == Head(chain[r]) IN
    /\ chain[r] # << >> /\ fate[m] = "flushed"
    /\ IF HasRoom(r)
       THEN /\ EnqueueWork([room |-> r, items |-> <<m>>, burst |-> FALSE])
            /\ fate' = [fate EXCEPT ![m] = "queued"]
       ELSE fate' = [fate EXCEPT ![m] = "busy"] /\ UNCHANGED workVars
    /\ PreflightEnds(r)
    /\ UNCHANGED <<old, burst, col, colAll, phase, begun, home>>

\* addCollected, then the collector: a full burst is flushed at once.
PreflightCollect(r) ==
    LET m == Head(chain[r])
        items == Append(burst[r], m) IN
    /\ chain[r] # << >> /\ fate[m] = "collect" /\ m \notin old
    /\ PreflightEnds(r)
    /\ IF Len(items) < BurstMax
       THEN /\ burst' = [burst EXCEPT ![r] = items] /\ fate' = [fate EXCEPT ![m] = "burst"]
            /\ col' = [col EXCEPT ![r] = @ + 1] /\ colAll' = colAll + 1
            /\ UNCHANGED workVars
       ELSE /\ burst' = [burst EXCEPT ![r] = << >>]
            /\ IF HasRoom(r)
               THEN /\ col' = [col EXCEPT ![r] = @ + 1] /\ colAll' = colAll + 1
                    /\ EnqueueWork([room |-> r, items |-> items, burst |-> TRUE])
                    /\ fate' = Mark(ToSet(items), "queued")
               ELSE /\ col' = [col EXCEPT ![r] = @ + 1 - Len(items)]
                    /\ colAll' = colAll + 1 - Len(items)
                    /\ fate' = [Mark(ToSet(items), "merged") EXCEPT ![m] = "busy"]
                    /\ UNCHANGED workVars
    /\ UNCHANGED <<old, phase, begun, home>>

Grow(m) ==
    /\ fate[m] \notin Settled \cup {"none", "running"} /\ m \notin old
    /\ old' = old \cup {m}
    /\ UNCHANGED <<fate, chain, burst, ingressCounters, workVars, phase, begun, home>>
-----------------------------------------------------------------------------
(* Turns *)

\* The promise of a work begins: its messages leave the collector's count, its age is
\* looked at again, and the last message runs the turn for all.
Begin ==
    LET w == Head(started)
        m == Last(w.items) IN
    /\ started # << >>
    /\ IF w.burst THEN ReleaseCollected(w.room, Len(w.items)) ELSE UNCHANGED <<col, colAll>>
    /\ fate' = [Mark(ToSet(w.items), "merged") EXCEPT ![m] = IF m \in old THEN "expired" ELSE "running"]
    /\ begun' = Append(begun, m)
    /\ started' = Tail(started) /\ running' = running \cup {w}
    /\ UNCHANGED <<old, chain, burst, pre, preAll, waiting, roomPending, roomActive, active, phase, home>>

\* Mutant of Finish.
FinishQuietly(w) ==
    LET m == Last(w.items) IN
    /\ w \in running
    /\ running' = running \ {w}
    /\ fate' = [fate EXCEPT ![m] = IF @ = "running" THEN "done" ELSE @]
    /\ roomPending' = [roomPending EXCEPT ![w.room] = @ - 1]
    /\ roomActive' = [roomActive EXCEPT ![w.room] = @ - 1] /\ active' = active - 1
    /\ UNCHANGED <<old, chain, burst, ingressCounters, waiting, started, phase, begun, home>>

\* The turn returns or throws.
Finish(w) ==
    LET m == Last(w.items) IN
    /\ w \in running
    /\ running' = running \ {w}
    /\ fate' = [fate EXCEPT ![m] = IF @ = "running" THEN "done" ELSE @]
    /\ roomPending' = [roomPending EXCEPT ![w.room] = @ - 1]
    /\ StartAvailable(waiting, [roomActive EXCEPT ![w.room] = @ - 1], active - 1)
    /\ UNCHANGED <<old, chain, burst, ingressCounters, phase, begun, home>>
-----------------------------------------------------------------------------
(* shutdown(true), then drain *)

CloseIngress ==
    /\ phase = "open" /\ phase' = "closed"
    /\ UNCHANGED <<fate, old, chain, burst, ingressCounters, workVars, begun, home>>

Drained ==
    /\ phase = "closed" /\ active + Len(waiting) = 0
    /\ \A r \in ChatRoom : chain[r] = << >> /\ burst[r] = << >>
    /\ phase' = "stopped"
    /\ UNCHANGED <<fate, old, chain, burst, ingressCounters, workVars, begun, home>>
-----------------------------------------------------------------------------
Preflight(r) == PreflightExpired(r) \/ PreflightFlush(r) \/ PreflightDirect(r) \/ PreflightCollect(r)
Works == ToSet(waiting) \cup ToSet(started) \cup running

IngressNext ==
    \/ \E m \in Msg, r \in ChatRoom, collect \in BOOLEAN : SubmitMessage(m, r, collect)
    \/ \E r \in ChatRoom : Preflight(r) \/ FlushBurst(r)
    \/ \E m \in Msg : Grow(m)
    \/ Begin \/ \E w \in running : Finish(w)
    \/ CloseIngress \/ Drained

IngressSpec == IngressInit /\ [][IngressNext]_ingressVars
-----------------------------------------------------------------------------
(* Properties *)

WorksOf(r) == {w \in Works : w.room = r}
Unbegun(r) == {m \in Msg : m \in ToSet(burst[r])
                 \/ \E w \in ToSet(waiting) \cup ToSet(started) :
                        w.room = r /\ w.burst /\ m \in ToSet(w.items)}

\* The six counters say what the containers hold, at every turn of the event loop: no path
\* (expiry, refusal of a burst, a failed turn, shutdown) keeps a place that is empty or
\* gives one away twice (submit, releaseCollected, startAvailable).
CountersTrue ==
    /\ \A r \in ChatRoom : /\ pre[r] = Len(chain[r]) /\ col[r] = Cardinality(Unbegun(r))
                           /\ roomPending[r] = Cardinality(WorksOf(r))
                           /\ roomActive[r] = Cardinality(WorksOf(r) \ ToSet(waiting))
    /\ preAll = Cardinality(UNION {ToSet(chain[r]) : r \in ChatRoom})
    /\ colAll = Cardinality(UNION {Unbegun(r) : r \in ChatRoom})
    /\ active = Len(started) + Cardinality(running)

\* Turns of a room begin in the order its messages arrived, collected ones and direct ones
\* alike, although several run at once (collector.flush before a direct turn, findIndex).
RoomOrder ==
    \A i, j \in DOMAIN begun : (i < j /\ home[begun[i]] = home[begun[j]]) => begun[i] < begun[j]

\* The collector and the queue keep their books and their order.
IngressOrderly == CountersTrue /\ RoomOrder

\* Every message that is let in is answered by a turn, joined to a later one, or refused;
\* none is left in a chain, a burst or the queue, and a shutdown that has drained the queue
\* left nothing unanswered, not even what waited when it began (flush timers, drain).
MessageSettles ==
    /\ \A m \in Msg : (fate[m] # "none") ~> (fate[m] \in Settled)
    /\ [](phase = "stopped" => \A m \in Msg : fate[m] \in Settled \cup {"none"})

=============================================================================
