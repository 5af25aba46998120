---------------------------- MODULE ServiceProofs ----------------------------
(***************************************************************************)
(* What the Core promises to those who ask it for something.               *)
(*                                                                         *)
(* Rooms, for any messages, versions, requests, turns and disturbances:    *)
(* reports converge, notes say what the room says now, and a routing       *)
(* request is decided once.                                                *)
(*                                                                         *)
(* Accounts, for any number of them, sessions, devices and requests: an    *)
(* invitation makes one account and an approval one token, and no request  *)
(* is served on a credential that was over before.                         *)
(*                                                                         *)
(* Neither of the two is inductive: a request keeps what it has read while *)
(* others change the tables.  CallSound says what is still true of the     *)
(* rows a request has read at each of its transactions, and it survives    *)
(* because an end is final (Ages): a session, a grant or an account that   *)
(* is over stays over, whoever it belongs to.  The end of an account is    *)
(* final only because nobody acts for an account that was never created    *)
(* (OwnersKnown).  One token per approval needs the row lock:              *)
(* HolderIssues.                                                           *)
(*                                                                         *)
(* What the studio promises an owner, for any number of owners, requests,  *)
(* Cards, drafts and archives: nobody gets past the quota of Characters    *)
(* by asking twice at once, and a draft makes one formal record.           *)
(*                                                                         *)
(* Both rest on the admission lock.  A request that has decided holds it   *)
(* until it writes, so the requests of one owner that are between the two  *)
(* are one at most (DeskInv), and what a request has seen is still true    *)
(* when it writes: there is room for its Cards (RoomLeft), and its owner   *)
(* has not approved the draft it is about to approve (ApprovalOpen).       *)
(*                                                                         *)
(* The lock is one per owner and not one per row.  Whoever takes the local *)
(* workspace over holds its own lock and not that of the local owner, and  *)
(* this is why the local owner appears in both properties.                 *)
(***************************************************************************)
EXTENDS RoomEvidence, Accounts, Authoring, FiniteSetTheorems, TLAPS

(***************************************************************************)
(* Rooms                                                                    *)
(***************************************************************************)
\* Requests in hand carry snapshots, checks and routing requests that exist.
HandlerShaped ==
  /\ handler = [h \in RoomHandler |-> handler[h]]
  /\ \A h \in RoomHandler :
       /\ DOMAIN handler[h] = DOMAIN FreeHandler
       /\ handler[h].pc # "free" =>
            /\ handler[h].item \in Snapshot /\ handler[h].check \in Check /\ handler[h].about \in Message
            /\ handler[h].kind = "route" => handler[h].route \in Route
       /\ handler[h].pc \in {"read", "reserve", "decide", "select", "finish"} => handler[h].kind = "route"

\* A reservation is held by one request until it is decided; a decision is told as it stands.
Holds(h, r) == handler[h].pc \in {"decide", "select", "finish"} /\ handler[h].route = r

RouteTrue(r) ==
  /\ DOMAIN route[r] = {"status", "bound", "result"}
  /\ route[r].status \in {"none", "in_progress", "done"}
  /\ route[r].status = "none" => asked[r] = 0
  /\ route[r].status # "done" => answers[r] = {}
  /\ asked[r] \in {0, 1} /\ answers[r] \subseteq {route[r].result}
  /\ \A h \in RoomHandler : Holds(h, r) =>
       /\ route[r].status = "in_progress"
       /\ handler[h].pc = "decide" => asked[r] = 0
       /\ \A k \in RoomHandler : Holds(k, r) => k = h

RoutingInv ==
  /\ HandlerShaped
  /\ route = [r \in Route |-> route[r]] /\ asked = [r \in Route |-> asked[r]]
  /\ answers = [r \in Route |-> answers[r]]
  /\ \A r \in Route : RouteTrue(r)

\* What is known of a message is what the snapshots that arrived say together.
SourceShaped ==
  /\ source = [m \in Message |-> source[m]] /\ seen = [m \in Message |-> seen[m]]
  /\ \A m \in Message : /\ DOMAIN source[m] = {"known", "item", "revision", "roomRevision"}
                        /\ source[m].known \in BOOLEAN
                        /\ source[m].known => source[m].item \in Snapshot
                        /\ ~source[m].known => source[m].item = NoSource.item

Joined(m) ==
  /\ seen[m] \subseteq Snapshot
  /\ source[m].known <=> seen[m] # {}
  /\ source[m].item.gone <=> \E s \in seen[m] : s.gone
  /\ source[m].known /\ ~source[m].item.gone =>
       /\ \A s \in seen[m] : s.ver <= source[m].item.ver
       /\ \E s \in seen[m] : s.ver = source[m].item.ver
       /\ source[m].item.avail <=> \E s \in seen[m] : s.ver = source[m].item.ver /\ s.avail

AccessTrue ==
  /\ DOMAIN room = {"readable", "time", "revision"} /\ room.readable \in BOOLEAN
  /\ room.time \in 0..MaxCheck /\ checked \subseteq Check
  /\ \A c \in checked : c.time <= room.time
  /\ room.time = 0 \/ \E c \in checked : c.time = room.time
  /\ room.readable <=> \A c \in checked : c.time = room.time => c.readable

\* A member's note quotes its message as it is shown, and carries the fingerprint of it.
NotesTrue ==
  /\ note = [n \in Note |-> note[n]]
  /\ \A n \in Note :
       /\ DOMAIN note[n] = DOMAIN NoNote
       /\ note[n].live /\ ~note[n].authored =>
            /\ note[n].about \in Message /\ Shown(note[n].about)
            /\ note[n].print = Content(note[n].about) /\ note[n].text = note[n].print.text

EvidenceInv == RoutingInv /\ SourceShaped /\ AccessTrue /\ (\A m \in Message : Joined(m)) /\ NotesTrue
-----------------------------------------------------------------------------
(* The requests in hand *)

Claims == {"decide", "select", "finish"}

HandlerOK(x) ==
  /\ DOMAIN x = DOMAIN FreeHandler
  /\ x.pc # "free" => /\ x.item \in Snapshot /\ x.check \in Check /\ x.about \in Message
                      /\ x.kind = "route" => x.route \in Route
  /\ x.pc \in {"read", "reserve"} \cup Claims => x.kind = "route"

\* Who had no reservation has none afterwards, and nobody goes back to the director.
Follows(old, new) ==
  new.pc \in Claims => /\ old.pc \in Claims /\ old.route = new.route
                       /\ new.pc = "decide" => old.pc = "decide"

\* What one request is answered: nothing, or the decision as it stands.
Told(r) == \/ UNCHANGED answers
           \/ /\ route[r].status = "done"
              /\ answers' = [answers EXCEPT ![r] = @ \cup {route[r].result}]

LEMMA HandlerWritten ==
  ASSUME HandlerShaped, NEW h \in RoomHandler, NEW x, HandlerOK(x), handler' = [handler EXCEPT ![h] = x]
  PROVE  /\ HandlerShaped' /\ handler'[h] = x
         /\ \A k \in RoomHandler : k # h => handler'[k] = handler[k]
<1>1. handler'[h] = x /\ \A k \in RoomHandler : k # h => handler'[k] = handler[k]
  BY DEF HandlerShaped
<1>2. handler' = [k \in RoomHandler |-> handler'[k]]
  BY DEF HandlerShaped
<1> QED BY <1>1, <1>2 DEF HandlerShaped, HandlerOK, Claims

LEMMA FreeIsOK == HandlerOK(FreeHandler) /\ FreeHandler.pc = "free"
BY DEF HandlerOK, FreeHandler, Claims

LEMMA HandlerIsOK == ASSUME HandlerShaped, NEW h \in RoomHandler PROVE HandlerOK(handler[h])
BY DEF HandlerShaped, HandlerOK, Claims

\* A request that holds no claim after the step cannot have taken one.
LEMMA HandlerReports ==
  ASSUME HandlerShaped, NEW h \in RoomHandler, NEW x, HandlerOK(x), x.pc \notin Claims,
         handler' = [handler EXCEPT ![h] = x]
  PROVE  HandlerShaped' /\ \A k \in RoomHandler : Follows(handler[k], handler'[k])
<1>1. /\ HandlerShaped' /\ handler'[h] = x
      /\ \A k \in RoomHandler : k # h => handler'[k] = handler[k]
  BY HandlerWritten
<1>2. ASSUME NEW k \in RoomHandler PROVE Follows(handler[k], handler'[k])
  <2>1. CASE k = h
    BY <1>1, <2>1 DEF Follows
  <2>2. CASE k # h
    BY <1>1, <2>2 DEF Follows
  <2> QED BY <2>1, <2>2
<1> QED BY <1>1, <1>2

\* The steps of a request that reserve nothing and decide nothing.
LEMMA ReportSteps ==
  ASSUME HandlerShaped, NEW h \in RoomHandler,
         \/ \E m \in Message, item \in Snapshot, check \in Check :
              \/ ArriveEvent(h, m, item, check, "events", NoRoute)
              \/ ArriveEvent(h, m, item, check, "note", NoRoute)
              \/ \E r \in Route : ArriveEvent(h, m, item, check, "route", r)
         \/ ReportAccess(h) \/ ObserveMessage(h) \/ NoteRequest(h) \/ HandlerDies(h)
  PROVE  /\ HandlerShaped' /\ UNCHANGED <<route, asked, answers>>
         /\ \A k \in RoomHandler : Follows(handler[k], handler'[k])
<1>0. HandlerOK(handler[h]) /\ DOMAIN handler[h] = DOMAIN FreeHandler
  BY HandlerIsOK DEF HandlerOK
<1>1. ASSUME NEW m \in Message, NEW item \in Snapshot, NEW check \in Check, NEW kind, NEW r,
             ArriveEvent(h, m, item, check, kind, r), kind = "route" => r \in Route
      PROVE  \E x : HandlerOK(x) /\ handler' = [handler EXCEPT ![h] = x] /\ x.pc \notin Claims
  <2>1. PICK x : x = [FreeHandler EXCEPT !.pc = "access", !.kind = kind, !.about = m, !.item = item,
                                         !.check = check, !.route = r]
    OBVIOUS
  <2>2. HandlerOK(x) /\ x.pc \notin Claims
    BY <1>1, <2>1 DEF HandlerOK, FreeHandler, Claims
  <2>3. handler' = [handler EXCEPT ![h] = x]
    BY <1>1, <2>1 DEF ArriveEvent
  <2> QED BY <2>2, <2>3
<1>2. CASE ReportAccess(h)
  <2>1. PICK x : x = IF handler[h].check.readable THEN [handler[h] EXCEPT !.pc = "observe"] ELSE FreeHandler
    OBVIOUS
  <2>2. handler[h].pc = "access"
    BY <1>2 DEF ReportAccess
  <2>3. HandlerOK(x) /\ x.pc \notin Claims
    BY <1>0, <2>1, <2>2, FreeIsOK DEF HandlerOK, FreeHandler, Claims
  <2>4. handler' = [handler EXCEPT ![h] = x]
    BY <1>2, <2>1 DEF ReportAccess
  <2>5. UNCHANGED <<route, asked, answers>>
    BY <1>2 DEF ReportAccess
  <2> QED BY <2>3, <2>4, <2>5, HandlerReports
<1>3. CASE ObserveMessage(h)
  <2>1. PICK next : next = CASE handler[h].kind = "route" -> "read" [] handler[h].kind = "note" -> "note"
                             [] OTHER -> "free"
    OBVIOUS
  <2>2. PICK x : x = IF ~room.readable \/ next = "free" THEN FreeHandler ELSE [handler[h] EXCEPT !.pc = next]
    OBVIOUS
  <2>3. handler[h].pc = "observe" /\ UNCHANGED <<route, asked, answers>>
    BY <1>3 DEF ObserveMessage
  <2>4. HandlerOK(x) /\ x.pc \notin Claims
    BY <1>0, <2>1, <2>2, <2>3, FreeIsOK DEF HandlerOK, FreeHandler, Claims
  <2>5. handler' = [handler EXCEPT ![h] = x]
    BY <1>3, <2>1, <2>2 DEF ObserveMessage
  <2> QED BY <2>3, <2>4, <2>5, HandlerReports
<1>4. CASE NoteRequest(h) \/ HandlerDies(h)
  <2>1. handler' = [handler EXCEPT ![h] = FreeHandler] /\ UNCHANGED <<route, asked, answers>>
    <3>1. CASE HandlerDies(h)
      BY <3>1, ZenonT(60) DEF HandlerDies, evTables
    <3>2. CASE RefuseNote(h)
      BY <3>2, ZenonT(60) DEF RefuseNote, evTables
    <3>3. ASSUME NEW n \in Note, NEW text \in Body, NEW version,
                 RememberNote(h, n, text) \/ CorrectNote(h, n, text, version)
          PROVE  handler' = [handler EXCEPT ![h] = FreeHandler] /\ UNCHANGED <<route, asked, answers>>
      BY <3>3, ZenonT(60) DEF RememberNote, CorrectNote
    <3>4. ASSUME NEW n \in Note, NEW version, ForgetNote(h, n, version)
          PROVE  handler' = [handler EXCEPT ![h] = FreeHandler] /\ UNCHANGED <<route, asked, answers>>
      BY <3>4, ZenonT(60) DEF ForgetNote
    <3> QED BY <1>4, <3>1, <3>2, <3>3, <3>4, ZenonT(60) DEF NoteRequest
  <2>2. HandlerOK(FreeHandler) /\ FreeHandler.pc \notin Claims
    BY FreeIsOK DEF Claims
  <2> QED BY <2>1, <2>2, HandlerReports
<1>5. ASSUME NEW m \in Message, NEW item \in Snapshot, NEW check \in Check, NEW kind, NEW r,
             ArriveEvent(h, m, item, check, kind, r), kind = "route" => r \in Route
      PROVE  /\ HandlerShaped' /\ UNCHANGED <<route, asked, answers>>
             /\ \A k \in RoomHandler : Follows(handler[k], handler'[k])
  <2>1. PICK x : HandlerOK(x) /\ handler' = [handler EXCEPT ![h] = x] /\ x.pc \notin Claims
    BY <1>1, <1>5
  <2>2. UNCHANGED <<route, asked, answers>>
    BY <1>5 DEF ArriveEvent, evTables
  <2> QED BY <2>1, <2>2, HandlerReports
<1>6. ASSUME NEW m \in Message, NEW item \in Snapshot, NEW check \in Check,
             \/ ArriveEvent(h, m, item, check, "events", NoRoute)
             \/ ArriveEvent(h, m, item, check, "note", NoRoute)
             \/ \E r \in Route : ArriveEvent(h, m, item, check, "route", r)
      PROVE  /\ HandlerShaped' /\ UNCHANGED <<route, asked, answers>>
             /\ \A k \in RoomHandler : Follows(handler[k], handler'[k])
  <2>1. CASE ArriveEvent(h, m, item, check, "events", NoRoute)
    BY <1>5, <2>1
  <2>2. CASE ArriveEvent(h, m, item, check, "note", NoRoute)
    BY <1>5, <2>2
  <2>3. CASE \E r \in Route : ArriveEvent(h, m, item, check, "route", r)
    BY <1>5, <2>3
  <2> QED BY <1>6, <2>1, <2>2, <2>3
<1> QED BY <1>2, <1>3, <1>4, <1>6

\* resolve_room, step by step.
LEMMA ResolveSteps ==
  ASSUME RoutingInv, NEW h \in RoomHandler, Resolve(h)
  PROVE  RoutingInv'
<1>0. /\ HandlerShaped /\ HandlerOK(handler[h]) /\ DOMAIN handler[h] = DOMAIN FreeHandler
      /\ handler[h].pc \in {"read", "reserve"} \cup Claims
  BY HandlerIsOK DEF RoutingInv, HandlerOK, Resolve, ReadTrigger, ReserveRoute, SelectSpeaker, FinishRoute,
                     Direct, Claims
<1> DEFINE r == handler[h].route
<1>1. r \in Route /\ RouteTrue(r)
  BY <1>0 DEF HandlerOK, RoutingInv, Claims
<1> HIDE DEF r
<1>2. ASSUME NEW x, HandlerOK(x), handler' = [handler EXCEPT ![h] = x], Follows(handler[h], x),
             UNCHANGED <<route, asked>>, Told(r)
      PROVE  RoutingInv'
  <2>1. HandlerShaped' /\ \A k \in RoomHandler : Follows(handler[k], handler'[k])
    BY <1>0, <1>2, HandlerWritten, ZenonT(60) DEF Follows
  <2>2. answers' = [q \in Route |-> answers'[q]]
    BY <1>2 DEF Told, RoutingInv
  <2>3. ASSUME NEW q \in Route PROVE RouteTrue(q)'
    <3>1. RouteTrue(q) /\ \A k \in RoomHandler : Holds(k, q)' =>
            Holds(k, q) /\ (handler'[k].pc = "decide" => handler[k].pc = "decide")
      BY <2>1 DEF RoutingInv, Holds, Follows, Claims
    <3>2. answers'[q] \subseteq {route[q].result} /\ (route[q].status # "done" => answers'[q] = {})
      BY <1>1, <1>2, <3>1 DEF Told, RouteTrue, RoutingInv
    <3> QED BY <1>2, <3>1, <3>2 DEF RouteTrue
  <2> QED BY <1>2, <2>1, <2>2, <2>3 DEF RoutingInv
<1>3. CASE handler' = [handler EXCEPT ![h] = FreeHandler] /\ UNCHANGED <<route, asked>> /\ Told(r)
  BY <1>2, <1>3, FreeIsOK DEF Follows, Claims
<1>4. CASE ReadTrigger(h)
  <2>1. CASE handler' = [handler EXCEPT ![h] = FreeHandler] /\ UNCHANGED answers
    BY <1>3, <1>4, <2>1 DEF ReadTrigger, evTables, Told
  <2>2. CASE room.readable /\ Shown(handler[h].about)
    <3>1. PICK x : x = [handler[h] EXCEPT !.pc = "reserve", !.revision = source[handler[h].about].revision]
      OBVIOUS
    <3>2. handler' = [handler EXCEPT ![h] = x] /\ UNCHANGED <<route, asked, answers>>
      BY <1>4, <2>2, <3>1 DEF ReadTrigger, evTables
    <3>3. HandlerOK(x) /\ x.pc \notin Claims
      BY <1>0, <1>4, <3>1 DEF ReadTrigger, HandlerOK, FreeHandler, Claims
    <3> QED BY <1>2, <3>2, <3>3 DEF Follows, Told
  <2> QED BY <1>4, <2>1, <2>2 DEF ReadTrigger, Answer
<1>5. CASE SelectSpeaker(h)
  <2>1. PICK result : result = IF deployed /\ room.readable /\ Shown(handler[h].about)
                               THEN handler[h].result ELSE "refused"
    OBVIOUS
  <2>2. PICK x : x = [handler[h] EXCEPT !.pc = "finish", !.result = result]
    OBVIOUS
  <2>3. handler' = [handler EXCEPT ![h] = x] /\ UNCHANGED <<route, asked, answers>>
    BY <1>5, <2>1, <2>2 DEF SelectSpeaker
  <2>4. HandlerOK(x) /\ Follows(handler[h], x)
    BY <1>0, <1>5, <2>2 DEF SelectSpeaker, HandlerOK, FreeHandler, Claims, Follows
  <2> QED BY <1>2, <2>3, <2>4 DEF Told
<1>6. CASE \E outcome \in {"decision", "none", "unavailable"} : Direct(h, outcome)
  <2>1. PICK outcome : Direct(h, outcome)
    BY <1>6
  <2>2. PICK x : x = [handler[h] EXCEPT !.pc = IF outcome = "decision" THEN "select" ELSE "finish",
                                        !.result = outcome]
    OBVIOUS
  <2>3. /\ handler' = [handler EXCEPT ![h] = x] /\ UNCHANGED <<route, answers>>
        /\ asked' = [asked EXCEPT ![r] = @ + 1] /\ handler[h].pc = "decide"
    BY <2>1, <2>2 DEF Direct, evTables, r
  <2>4. HandlerOK(x) /\ x.pc \in {"select", "finish"} /\ x.route = r
    BY <1>0, <2>2, <2>3 DEF HandlerOK, FreeHandler, Claims, r
  <2>5. /\ HandlerShaped' /\ handler'[h] = x
        /\ \A k \in RoomHandler : k # h => handler'[k] = handler[k]
    BY <1>0, <2>3, <2>4, HandlerWritten
  <2>6. asked'[r] = asked[r] + 1 /\ \A q \in Route : q # r => asked'[q] = asked[q]
    BY <1>1, <2>3 DEF RoutingInv
  <2>7. asked[r] = 0 /\ route[r].status = "in_progress" /\ \A k \in RoomHandler : Holds(k, r) => k = h
    BY <1>1, <2>3 DEF RouteTrue, Holds, r
  <2>8. ASSUME NEW q \in Route PROVE RouteTrue(q)'
    <3>1. RouteTrue(q) /\ \A k \in RoomHandler : Holds(k, q)' => Holds(k, q)
      BY <2>3, <2>4, <2>5 DEF RoutingInv, Holds, r
    <3>2. CASE q = r
      BY <2>3, <2>4, <2>5, <2>6, <2>7, <3>1, <3>2 DEF RouteTrue, Holds
    <3>3. CASE q # r
      BY <2>3, <2>4, <2>5, <2>6, <3>1, <3>3 DEF RouteTrue, Holds
    <3> QED BY <3>2, <3>3
  <2> QED BY <2>3, <2>5, <2>8 DEF RoutingInv
<1>7. CASE ReserveRoute(h)
  <2>1. CASE \E result : Answer(h, result) /\ UNCHANGED route /\
                  (result \in {"blocked", "pending"} \/ (route[r].status = "done" /\ result = route[r].result))
    BY <1>3, <1>7, <2>1 DEF ReserveRoute, Answer, Told, r
  <2>2. CASE /\ route[r].status = "none"
             /\ route' = [route EXCEPT ![r] = [NoRouteRow EXCEPT !.status = "in_progress", !.bound = handler[h].revision]]
             /\ handler' = [handler EXCEPT ![h].pc = IF r \in Optional THEN "decide" ELSE "select",
                                           ![h].result = "direct"]
             /\ UNCHANGED answers
    <3>1. PICK x : x = [handler[h] EXCEPT !.pc = IF r \in Optional THEN "decide" ELSE "select", !.result = "direct"]
      OBVIOUS
    <3>2. handler' = [handler EXCEPT ![h] = x] /\ UNCHANGED asked /\ handler[h].pc = "reserve"
      BY <1>7, <2>2, <3>1 DEF ReserveRoute
    <3>3. HandlerOK(x) /\ x.pc \in Claims /\ x.route = r
      BY <1>0, <3>1, <3>2 DEF HandlerOK, FreeHandler, Claims, r
    <3>4. /\ HandlerShaped' /\ handler'[h] = x
          /\ \A k \in RoomHandler : k # h => handler'[k] = handler[k]
      BY <1>0, <3>2, <3>3, HandlerWritten
    <3>5. PICK row : row = [NoRouteRow EXCEPT !.status = "in_progress", !.bound = handler[h].revision]
      OBVIOUS
    <3>6. DOMAIN row = {"status", "bound", "result"} /\ row.status = "in_progress"
      BY <3>5 DEF NoRouteRow
    <3>7. /\ route' = [q \in Route |-> route'[q]] /\ route'[r] = row
          /\ \A q \in Route : q # r => route'[q] = route[q]
      BY <1>1, <2>2, <3>5 DEF RoutingInv
    <3>8. asked[r] = 0 /\ answers[r] = {} /\ \A k \in RoomHandler : ~Holds(k, r)
      BY <1>1, <2>2 DEF RouteTrue
    <3>9. ASSUME NEW q \in Route PROVE RouteTrue(q)'
      <4>1. RouteTrue(q) /\ \A k \in RoomHandler : k # h => (Holds(k, q)' <=> Holds(k, q))
        BY <3>4 DEF RoutingInv, Holds
      <4>2. Holds(h, q)' => q = r
        BY <3>3, <3>4 DEF Holds
      <4>3. CASE q = r
        BY <2>2, <3>2, <3>4, <3>6, <3>7, <3>8, <4>1, <4>3 DEF RouteTrue
      <4>4. CASE q # r
        <5>1. \A k \in RoomHandler : Holds(k, q)' => Holds(k, q) /\ handler'[k] = handler[k]
          BY <3>4, <4>1, <4>2, <4>4
        <5>2. route'[q] = route[q] /\ UNCHANGED <<asked, answers>>
          BY <2>2, <3>2, <3>7, <4>4
        <5> QED BY <4>1, <5>1, <5>2 DEF RouteTrue
      <4> QED BY <4>3, <4>4
    <3> QED BY <2>2, <3>2, <3>4, <3>7, <3>9 DEF RoutingInv
  <2>3. CASE ~room.readable
    BY <1>7, <2>1, <2>3 DEF ReserveRoute
  <2>4. CASE room.readable /\ route[r].status # "none"
    <3>1. PICK result : result = IF route[r].bound # handler[h].revision THEN "blocked"
                                 ELSE IF route[r].status = "done" THEN route[r].result ELSE "pending"
      OBVIOUS
    <3>2. Answer(h, result) /\ UNCHANGED route
      BY <1>7, <2>4, <3>1 DEF ReserveRoute, r
    <3>3. result \in {"blocked", "pending"} \/ (route[r].status = "done" /\ result = route[r].result)
      BY <3>1
    <3> QED BY <2>1, <3>2, <3>3
  <2>5. CASE room.readable /\ route[r].status = "none"
    BY <1>7, <2>1, <2>2, <2>5 DEF ReserveRoute, r
  <2> QED BY <2>3, <2>4, <2>5
<1>8. CASE FinishRoute(h)
  <2>1. handler[h].pc = "finish" /\ Holds(h, r)
    BY <1>8 DEF FinishRoute, Holds, r
  <2>2. route[r].status = "in_progress" /\ \A k \in RoomHandler : Holds(k, r) => k = h
    BY <1>1, <2>1 DEF RouteTrue
  <2>3. PICK row : row = [route[r] EXCEPT !.status = "done", !.result = handler[h].result]
    OBVIOUS
  <2>4. /\ route' = [route EXCEPT ![r] = row] /\ handler' = [handler EXCEPT ![h] = FreeHandler]
        /\ UNCHANGED asked
        /\ UNCHANGED answers \/ answers' = [answers EXCEPT ![r] = @ \cup {handler[h].result}]
    BY <1>8, <2>2, <2>3 DEF FinishRoute, Answer, r
  <2>5. DOMAIN row = {"status", "bound", "result"} /\ row.status = "done" /\ row.result = handler[h].result
    BY <1>1, <2>3 DEF RouteTrue
  <2>6. /\ HandlerShaped' /\ handler'[h] = FreeHandler
        /\ \A k \in RoomHandler : k # h => handler'[k] = handler[k]
    BY <1>0, <2>4, FreeIsOK, HandlerWritten
  <2>7. /\ route' = [q \in Route |-> route'[q]] /\ answers' = [q \in Route |-> answers'[q]]
        /\ route'[r] = row /\ answers'[r] \subseteq answers[r] \cup {handler[h].result}
        /\ \A q \in Route : q # r => route'[q] = route[q] /\ answers'[q] = answers[q]
    BY <1>1, <2>4 DEF RoutingInv
  <2>8. answers[r] = {}
    BY <1>1, <2>2 DEF RouteTrue
  <2>9. ASSUME NEW q \in Route PROVE RouteTrue(q)'
    <3>1. RouteTrue(q) /\ (\A k \in RoomHandler : Holds(k, q)' => k # h /\ Holds(k, q))
          /\ \A k \in RoomHandler : k # h => handler'[k] = handler[k]
      BY <2>6, FreeIsOK DEF RoutingInv, Holds
    <3>2. CASE q = r
      <4>1. \A k \in RoomHandler : ~Holds(k, q)'
        BY <2>2, <3>1, <3>2
      <4>2. asked[q] \in {0, 1} /\ answers'[q] \subseteq {row.result}
        BY <2>5, <2>7, <2>8, <3>1, <3>2 DEF RouteTrue
      <4> QED BY <2>4, <2>5, <2>7, <3>2, <4>1, <4>2 DEF RouteTrue
    <3>3. CASE q # r
      BY <2>4, <2>7, <3>1, <3>3 DEF RouteTrue
    <3> QED BY <3>2, <3>3
  <2> QED BY <2>4, <2>6, <2>7, <2>9 DEF RoutingInv
<1> QED BY <1>4, <1>5, <1>6, <1>7, <1>8 DEF Resolve

LEMMA EvidenceInitInv == EvidenceInit => EvidenceInv
<1> SUFFICES ASSUME EvidenceInit PROVE EvidenceInv
  OBVIOUS
<1>1. HandlerShaped
  BY DEF EvidenceInit, HandlerShaped, FreeHandler
<1>2. RoutingInv
  BY <1>1 DEF EvidenceInit, RoutingInv, RouteTrue, Holds, FreeHandler, NoRouteRow
<1>3. SourceShaped /\ NotesTrue /\ \A m \in Message : Joined(m)
  BY DEF EvidenceInit, SourceShaped, NotesTrue, Joined, NoSource, NoNote
<1>4. AccessTrue
  BY EvidenceAssumption DEF EvidenceInit, AccessTrue
<1> QED BY <1>2, <1>3, <1>4 DEF EvidenceInv
-----------------------------------------------------------------------------
(* Messages and permissions *)

LEMMA ReportKeeps ==
  ASSUME EvidenceInv, NEW h \in RoomHandler, ReportAccess(h)
  PROVE  AccessTrue'
<1> DEFINE c == handler[h].check
<1>0. c \in Check /\ c.time \in 1..MaxCheck /\ c.readable \in BOOLEAN /\ AccessTrue /\ MaxCheck \in Nat
  BY EvidenceAssumption DEF EvidenceInv, RoutingInv, HandlerShaped, ReportAccess, Check
<1> HIDE DEF c
<1>1. checked' = checked \cup {c} /\ checked' \subseteq Check
  BY <1>0 DEF ReportAccess, AccessTrue, c
<1>2. CASE TakesCheck(c)
  <2>1. /\ DOMAIN room' = {"readable", "time", "revision"}
        /\ room'.readable = c.readable /\ room'.time = c.time
    BY <1>2 DEF ReportAccess, c
  <2> QED BY <1>0, <1>1, <1>2, <2>1 DEF AccessTrue, TakesCheck, Check
<1>3. CASE ~TakesCheck(c)
  <2>1. room' = room
    BY <1>3 DEF ReportAccess, c
  <2> QED BY <1>0, <1>1, <1>3, <2>1 DEF AccessTrue, TakesCheck, Check
<1> QED BY <1>2, <1>3

\* What a snapshot can be.
LEMMA Snapshots ==
  \A s \in Snapshot : /\ s = [ver |-> s.ver, avail |-> s.avail, gone |-> s.gone] /\ s.ver \in 0..MaxVersion
                      /\ s.avail \in BOOLEAN /\ s.gone \in BOOLEAN
                      /\ s.gone => s.ver = 0 /\ ~s.avail
<1>1. (\A v \in Version : v \in 0..MaxVersion) /\ (\A v \in Hidden : v \in 0..MaxVersion) /\ 0 \in 0..MaxVersion
  BY EvidenceAssumption DEF Version
<1> SUFFICES ASSUME NEW s \in Snapshot
             PROVE  /\ s = [ver |-> s.ver, avail |-> s.avail, gone |-> s.gone] /\ s.ver \in 0..MaxVersion
                    /\ s.avail \in BOOLEAN /\ s.gone \in BOOLEAN
                    /\ s.gone => s.ver = 0 /\ ~s.avail
  OBVIOUS
<1>2. ASSUME s \in [ver: Version, avail: {TRUE}, gone: {FALSE}]
      PROVE  s = [ver |-> s.ver, avail |-> s.avail, gone |-> s.gone] /\ s.ver \in Version /\ s.avail = TRUE /\ s.gone = FALSE
  BY <1>2
<1>3. ASSUME s \in [ver: Hidden, avail: {FALSE}, gone: {FALSE}]
      PROVE  s = [ver |-> s.ver, avail |-> s.avail, gone |-> s.gone] /\ s.ver \in Hidden /\ s.avail = FALSE /\ s.gone = FALSE
  BY <1>3
<1>4. ASSUME s \in [ver: {0}, avail: {FALSE}, gone: {TRUE}]
      PROVE  s = [ver |-> s.ver, avail |-> s.avail, gone |-> s.gone] /\ s.ver = 0 /\ s.avail = FALSE /\ s.gone = TRUE
  BY <1>4
<1>5. CASE s \in [ver: Version, avail: {TRUE}, gone: {FALSE}]
  BY <1>1, <1>2, <1>5
<1>6. CASE s \in [ver: Hidden, avail: {FALSE}, gone: {FALSE}]
  BY <1>1, <1>3, <1>6
<1>7. CASE s \in [ver: {0}, avail: {FALSE}, gone: {TRUE}]
  BY <1>1, <1>4, <1>7
<1> QED BY <1>5, <1>6, <1>7 DEF Snapshot

\* What a set of snapshots says together.
Says(next, all) ==
  /\ next \in Snapshot /\ all \subseteq Snapshot /\ all # {}
  /\ next.gone <=> \E s \in all : s.gone
  /\ ~next.gone =>
       /\ \A s \in all : s.ver <= next.ver
       /\ \E s \in all : s.ver = next.ver
       /\ next.avail <=> \E s \in all : s.ver = next.ver /\ s.avail

\* Merging a snapshot into what is known keeps what all snapshots so far say together.
LEMMA MergeJoins ==
  ASSUME SourceShaped, NEW m \in Message, Joined(m), NEW item \in Snapshot, NEW next, NEW all,
         all = seen[m] \cup {item}, next = Merged(m, item)
  PROVE  Says(next, all)
<1> USE DEF Says
<1>1. MaxVersion \in Nat
  BY EvidenceAssumption
<1>2. seen[m] \subseteq Snapshot /\ (source[m].known => source[m].item \in Snapshot)
      /\ (~source[m].known => seen[m] = {})
  BY DEF SourceShaped, Joined
<1>3. next \in Snapshot
  BY <1>2 DEF Merged
<1>4. CASE ~source[m].known
  BY <1>1, <1>2, <1>3, <1>4, Snapshots DEF Merged
<1>5. CASE source[m].known /\ source[m].item.gone
  BY <1>1, <1>2, <1>3, <1>5, Snapshots DEF Merged, Joined
<1>6. CASE source[m].known /\ ~source[m].item.gone /\ item.gone
  BY <1>1, <1>2, <1>3, <1>6, Snapshots DEF Merged, Joined
<1>7. CASE source[m].known /\ ~source[m].item.gone /\ ~item.gone
  <2> DEFINE old == source[m].item
  <2>1. /\ old \in Snapshot /\ old.ver \in Nat /\ item.ver \in Nat /\ ~\E s \in all : s.gone
        /\ \A s \in all : s.ver \in Nat
    BY <1>1, <1>2, <1>7, Snapshots DEF Joined
  <2>2. CASE item.ver < old.ver \/ (item.ver = old.ver /\ old.avail)
    <3>1. next = old
      BY <1>7, <2>2 DEF Merged
    <3> QED BY <1>2, <1>7, <2>1, <2>2, <3>1 DEF Joined
  <2>3. CASE ~(item.ver < old.ver \/ (item.ver = old.ver /\ old.avail))
    <3>1. next = item
      BY <1>7, <2>3 DEF Merged
    <3> QED BY <1>2, <1>7, <2>1, <2>3, <3>1, Snapshots DEF Joined
  <2> QED BY <2>2, <2>3
<1> QED BY <1>2, <1>3, <1>4, <1>5, <1>6, <1>7

LEMMA Untouched ==
  ASSUME EvidenceInv, UNCHANGED <<source, seen, room, checked, note>>
  PROVE  SourceShaped' /\ AccessTrue' /\ (\A m \in Message : Joined(m)') /\ NotesTrue'
BY ZenonT(60) DEF EvidenceInv, SourceShaped, AccessTrue, Joined, NotesTrue, Shown, Content, ContentOf

\* Notes made from another content go with it, the others stay true.
LEMMA NotesFollow ==
  ASSUME NotesTrue, NEW m \in Message, NEW item, source'[m].item = item, source'[m].known = TRUE,
         \A q \in Message : q # m => source'[q] = source[q],
         \/ note' = NotesAfter(m, ContentOf(item)) /\ (~source[m].known \/ ContentOf(item) # Content(m))
         \/ note' = note /\ source[m].known /\ ContentOf(item) = Content(m)
  PROVE  NotesTrue'
<1>1. \A q \in Message : q # m => (Shown(q)' <=> Shown(q)) /\ Content(q)' = Content(q)
  BY DEF Shown, Content, ContentOf
<1>2. CASE note' = NotesAfter(m, ContentOf(item)) /\ (~source[m].known \/ ContentOf(item) # Content(m))
  <2>1. ASSUME NEW n \in Note, note'[n].live, ~note'[n].authored
        PROVE  note'[n] = note[n] /\ note'[n].about # m
    <3>1. note'[n] = IF note[n].live /\ note[n].about = m /\ ~note[n].authored
                        /\ note[n].print # ContentOf(item) THEN NoNote ELSE note[n]
      BY <1>2 DEF NotesAfter
    <3>2. NoNote.live = FALSE
      BY DEF NoNote
    <3>3. ~(note[n].live /\ note[n].about = m /\ ~note[n].authored /\ note[n].print # ContentOf(item))
          /\ note'[n] = note[n]
      BY <2>1, <3>1, <3>2
    <3>4. note[n].live /\ ~note[n].authored
      BY <2>1, <3>3
    <3>5. CASE note[n].about = m
      <4>1. note[n].print = Content(m) /\ Shown(m) /\ note[n].print = ContentOf(item)
        BY <3>3, <3>4, <3>5 DEF NotesTrue
      <4> QED BY <1>2, <4>1 DEF Shown
    <3> QED BY <3>3, <3>5
  <2>3. note' = [n \in Note |-> note'[n]] /\ \A n \in Note : DOMAIN note'[n] = DOMAIN NoNote
    BY <1>2 DEF NotesTrue, NotesAfter
  <2> QED BY <1>1, <2>1, <2>3 DEF NotesTrue
<1>3. CASE note' = note /\ source[m].known /\ ContentOf(item) = Content(m)
  <2>1. Content(m)' = Content(m)
    BY <1>3 DEF Content
  <2>2. source[m].item.gone = item.gone /\ source[m].item.avail = item.avail
    BY <1>3 DEF Content, ContentOf
  <2>3. Shown(m)' <=> Shown(m)
    BY <1>3, <2>2 DEF Shown
  <2> QED BY <1>1, <1>3, <2>1, <2>3 DEF NotesTrue
<1> QED BY <1>2, <1>3

LEMMA ObserveKeeps ==
  ASSUME EvidenceInv, NEW h \in RoomHandler, ObserveMessage(h)
  PROVE  SourceShaped' /\ AccessTrue' /\ (\A m \in Message : Joined(m)') /\ NotesTrue'
<1>1. CASE ~room.readable
  BY <1>1, Untouched DEF ObserveMessage
<1>2. CASE room.readable
  <2>0. PICK m, got, item : m = handler[h].about /\ got = handler[h].item /\ item = Merged(m, got)
    OBVIOUS
  <2>1. /\ m \in Message /\ got \in Snapshot /\ SourceShaped /\ Joined(m)
        /\ AccessTrue /\ NotesTrue
    BY <2>0 DEF EvidenceInv, RoutingInv, HandlerShaped, ObserveMessage
  <2>2. PICK new : new = IF ~source[m].known \/ ContentOf(item) # Content(m)
                         THEN [known |-> TRUE, item |-> item, revision |-> source[m].revision + 1,
                               roomRevision |-> room.revision + 1]
                         ELSE [source[m] EXCEPT !.item = item]
    OBVIOUS
  <2>3. /\ seen' = [seen EXCEPT ![m] = @ \cup {got}] /\ UNCHANGED checked
        /\ source' = [source EXCEPT ![m] = new]
        /\ room' = room \/ room' = [room EXCEPT !.revision = room.revision + 1]
        /\ \/ note' = NotesAfter(m, ContentOf(item)) /\ (~source[m].known \/ ContentOf(item) # Content(m))
           \/ note' = note /\ source[m].known /\ ContentOf(item) = Content(m)
    BY <1>2, <2>0, <2>2 DEF ObserveMessage
  <2>4. new.known = TRUE /\ new.item = item /\ DOMAIN new = {"known", "item", "revision", "roomRevision"}
    BY <2>1, <2>2 DEF SourceShaped
  <2>5. /\ source' = [q \in Message |-> source'[q]] /\ source'[m] = new
        /\ seen' = [q \in Message |-> seen'[q]] /\ seen'[m] = seen[m] \cup {got}
        /\ \A q \in Message : q # m => seen'[q] = seen[q] /\ source'[q] = source[q]
    BY <2>1, <2>3 DEF SourceShaped
  <2>6. PICK all : all = seen[m] \cup {got}
    OBVIOUS
  <2>7. Says(item, all)
    <3>1. SourceShaped /\ m \in Message /\ Joined(m) /\ got \in Snapshot
          /\ all = seen[m] \cup {got} /\ item = Merged(m, got)
      BY <2>0, <2>1, <2>6
    <3> QED BY <3>1, MergeJoins
  <2>8. SourceShaped'
    BY <2>1, <2>4, <2>5, <2>7 DEF SourceShaped, Says
  <2>9. Joined(m)'
    BY <2>4, <2>5, <2>6, <2>7 DEF Joined, Says
  <2>10. ASSUME NEW q \in Message, q # m PROVE Joined(q)'
    BY <2>5, <2>10 DEF EvidenceInv, Joined
  <2>11. AccessTrue'
    BY <2>1, <2>3 DEF AccessTrue
  <2>12. NotesTrue'
    <3>1. source'[m].item = item /\ source'[m].known = TRUE /\ \A q \in Message : q # m => source'[q] = source[q]
      BY <2>4, <2>5
    <3> QED BY <2>1, <2>3, <3>1, NotesFollow
  <2> QED BY <2>8, <2>9, <2>10, <2>11, <2>12
<1> QED BY <1>1, <1>2
-----------------------------------------------------------------------------
(* Notes *)

NoteWritten(n, x) == note' = [note EXCEPT ![n] = x]

LEMMA NoteKeeps ==
  ASSUME NotesTrue, UNCHANGED source, NEW n \in Note, NEW x, NoteWritten(n, x), DOMAIN x = DOMAIN NoNote,
         x.live /\ ~x.authored => /\ x.about \in Message /\ Shown(x.about)
                                  /\ x.print = Content(x.about) /\ x.text = x.print.text
  PROVE  NotesTrue'
<1>1. \A m \in Message : (Shown(m)' <=> Shown(m)) /\ Content(m)' = Content(m)
  BY DEF Shown, Content, ContentOf
<1>2. /\ note' = [k \in Note |-> note'[k]] /\ note'[n] = x
      /\ \A k \in Note : k # n => note'[k] = note[k]
  BY DEF NotesTrue, NoteWritten
<1>3. ASSUME NEW k \in Note
      PROVE  /\ DOMAIN note'[k] = DOMAIN NoNote
             /\ note'[k].live /\ ~note'[k].authored =>
                  /\ note'[k].about \in Message /\ Shown(note'[k].about)
                  /\ note'[k].print = Content(note'[k].about) /\ note'[k].text = note'[k].print.text
  <2>1. CASE k = n
    BY <1>2, <2>1
  <2>2. CASE k # n
    BY <1>2, <2>2 DEF NotesTrue
  <2> QED BY <2>1, <2>2
<1>4. ASSUME NEW k \in Note, note'[k].about \in Message
      PROVE  (Shown(note[k].about)' <=> Shown(note'[k].about))
             /\ Content(note[k].about)' = Content(note'[k].about)
  BY <1>4, ZenonT(60) DEF Shown, Content, ContentOf
<1> QED BY <1>2, <1>3, <1>4, SMTT(60) DEF NotesTrue

LEMMA NoteSteps ==
  ASSUME EvidenceInv,
         \/ \E h \in RoomHandler : NoteRequest(h)
         \/ \E n \in Note : OperatorEdits(n) \/ AuthorNote(n) \/ OperatorForgets(n)
         \/ DeleteForCard
  PROVE  NotesTrue' /\ UNCHANGED <<source, seen, room, checked>>
<1>0. NotesTrue /\ HandlerShaped
  BY DEF EvidenceInv, RoutingInv
<1>1. UNCHANGED <<source, seen, room, checked>>
  <2>1. ASSUME NEW h \in RoomHandler, NoteRequest(h) PROVE UNCHANGED <<source, seen, room, checked>>
    BY <2>1, ZenonT(60) DEF NoteRequest, RefuseNote, RememberNote, CorrectNote, ForgetNote, evTables
  <2>2. ASSUME NEW n \in Note, OperatorEdits(n) \/ AuthorNote(n) \/ OperatorForgets(n)
        PROVE  UNCHANGED <<source, seen, room, checked>>
    BY <2>2 DEF OperatorEdits, AuthorNote, OperatorForgets
  <2>3. DeleteForCard => UNCHANGED <<source, seen, room, checked>>
    BY DEF DeleteForCard
  <2> QED BY <2>1, <2>2, <2>3
<1>2. ASSUME NEW h \in RoomHandler, NEW n \in Note, NEW text \in Body, RememberNote(h, n, text)
      PROVE  NotesTrue'
  <2>1. PICK x : x = [live |-> TRUE, authored |-> FALSE, text |-> text, about |-> handler[h].about,
                      print |-> Content(handler[h].about), version |-> 1]
    OBVIOUS
  <2>2. NoteWritten(n, x) /\ handler[h].about \in Message /\ Shown(handler[h].about)
        /\ Content(handler[h].about).text = text
    BY <1>0, <1>2, <2>1 DEF RememberNote, NoteWritten, Quotes, HandlerShaped
  <2>3. DOMAIN x = DOMAIN NoNote
    BY <2>1 DEF NoNote
  <2>4. x.about \in Message /\ Shown(x.about) /\ x.print = Content(x.about) /\ x.text = x.print.text
    BY <2>1, <2>2
  <2> QED BY <1>0, <1>1, <2>2, <2>3, <2>4, NoteKeeps
<1>3. ASSUME NEW h \in RoomHandler, NEW n \in Note, NEW text \in Body, NEW version,
             CorrectNote(h, n, text, version)
      PROVE  NotesTrue'
  <2>1. PICK x : x = [note[n] EXCEPT !.text = text, !.about = handler[h].about,
                      !.print = Content(handler[h].about), !.version = version + 1]
    OBVIOUS
  <2>2. NoteWritten(n, x) /\ handler[h].about \in Message /\ Shown(handler[h].about)
        /\ Content(handler[h].about).text = text
    BY <1>0, <1>3, <2>1 DEF CorrectNote, NoteWritten, Quotes, HandlerShaped
  <2>3. DOMAIN x = DOMAIN NoNote
    BY <1>0, <2>1 DEF NotesTrue
  <2>4. x.about \in Message /\ Shown(x.about) /\ x.print = Content(x.about) /\ x.text = x.print.text
    BY <1>0, <2>1, <2>2 DEF NotesTrue, NoNote
  <2> QED BY <1>0, <1>1, <2>2, <2>3, <2>4, NoteKeeps
<1>4. ASSUME NEW n \in Note, NoteWritten(n, NoNote) PROVE NotesTrue'
  BY <1>0, <1>1, <1>4, NoteKeeps DEF NoNote
<1>5. ASSUME NEW n \in Note, OperatorEdits(n) PROVE NotesTrue'
  <2>1. PICK x : x = [note[n] EXCEPT !.authored = TRUE, !.about = NoMessage, !.print = NoPrint,
                                     !.version = note[n].version + 1]
    OBVIOUS
  <2>2. NoteWritten(n, x)
    BY <1>5, <2>1 DEF OperatorEdits, NoteWritten
  <2>3. DOMAIN x = DOMAIN NoNote /\ x.authored
    BY <1>0, <2>1 DEF NotesTrue, NoNote
  <2> QED BY <1>0, <1>1, <2>2, <2>3, NoteKeeps
<1>6. ASSUME NEW n \in Note, AuthorNote(n) PROVE NotesTrue'
  <2>1. PICK x : x = [NoNote EXCEPT !.live = TRUE, !.authored = TRUE, !.version = 1]
    OBVIOUS
  <2>2. NoteWritten(n, x)
    BY <1>6, <2>1 DEF AuthorNote, NoteWritten
  <2>3. DOMAIN x = DOMAIN NoNote /\ x.authored
    BY <2>1 DEF NoNote
  <2> QED BY <1>0, <1>1, <2>2, <2>3, NoteKeeps
<1>7. CASE DeleteForCard
  BY <1>0, <1>7 DEF DeleteForCard, NotesTrue, NoNote
<1>8. ASSUME NEW n \in Note, OperatorForgets(n) PROVE NotesTrue'
  BY <1>4, <1>8 DEF OperatorForgets, NoteWritten
<1>9. ASSUME NEW h \in RoomHandler, RefuseNote(h) PROVE NotesTrue'
  BY <1>0, <1>9 DEF RefuseNote, evTables, NotesTrue, Shown, Content, ContentOf
<1>10. ASSUME NEW h \in RoomHandler, NEW n \in Note, NEW version, ForgetNote(h, n, version) PROVE NotesTrue'
  BY <1>4, <1>10 DEF ForgetNote, NoteWritten
<1>11. ASSUME NEW h \in RoomHandler, NoteRequest(h) PROVE NotesTrue'
  BY <1>2, <1>3, <1>9, <1>10, <1>11 DEF NoteRequest
<1> QED BY <1>1, <1>5, <1>6, <1>7, <1>8, <1>11
-----------------------------------------------------------------------------
(* Every step *)

LEMMA RoutingUntouched ==
  ASSUME RoutingInv, HandlerShaped', UNCHANGED <<route, asked, answers>>,
         \A k \in RoomHandler : Follows(handler[k], handler'[k])
  PROVE  RoutingInv'
<1>1. ASSUME NEW q \in Route PROVE RouteTrue(q)'
  <2>1. RouteTrue(q) /\ \A k \in RoomHandler : Holds(k, q)' =>
          Holds(k, q) /\ (handler'[k].pc = "decide" => handler[k].pc = "decide")
    BY <1>1 DEF RoutingInv, Holds, Follows, Claims
  <2> QED BY <2>1 DEF RouteTrue
<1> QED BY <1>1 DEF RoutingInv

LEMMA EvidenceStep == EvidenceInv /\ [EvidenceNext]_evVars => EvidenceInv'
<1> SUFFICES ASSUME EvidenceInv, [EvidenceNext]_evVars PROVE EvidenceInv'
  OBVIOUS
<1>0. RoutingInv /\ HandlerShaped
  BY DEF EvidenceInv, RoutingInv
<1>1. ASSUME UNCHANGED <<handler, route, asked, answers>> PROVE RoutingInv'
  BY <1>0, <1>1 DEF RoutingInv, HandlerShaped, RouteTrue, Holds
<1>2. CASE UNCHANGED evVars
  BY <1>1, <1>2, Untouched DEF evVars, evTables, EvidenceInv
<1>3. ASSUME NEW h \in RoomHandler,
             \/ \E m \in Message, item \in Snapshot, check \in Check :
                  \/ ArriveEvent(h, m, item, check, "events", NoRoute)
                  \/ ArriveEvent(h, m, item, check, "note", NoRoute)
                  \/ \E r \in Route : ArriveEvent(h, m, item, check, "route", r)
             \/ ReportAccess(h) \/ ObserveMessage(h) \/ NoteRequest(h) \/ HandlerDies(h)
      PROVE  EvidenceInv'
  <2>1. RoutingInv'
    BY <1>0, <1>3, ReportSteps, RoutingUntouched
  <2>2. CASE ReportAccess(h)
    <3>1. UNCHANGED <<source, seen, note>>
      BY <2>2 DEF ReportAccess
    <3>2. SourceShaped' /\ (\A m \in Message : Joined(m)') /\ NotesTrue'
      BY <3>1 DEF EvidenceInv, SourceShaped, Joined, NotesTrue, Shown, Content, ContentOf
    <3> QED BY <2>1, <2>2, <3>2, ReportKeeps DEF EvidenceInv
  <2>3. CASE ObserveMessage(h)
    BY <2>1, <2>3, ObserveKeeps DEF EvidenceInv
  <2>4. CASE NoteRequest(h)
    <3>1. NotesTrue' /\ UNCHANGED <<source, seen, room, checked>>
      BY <2>4, NoteSteps
    <3>2. SourceShaped' /\ AccessTrue' /\ \A m \in Message : Joined(m)'
      BY <3>1 DEF EvidenceInv, SourceShaped, AccessTrue, Joined
    <3> QED BY <2>1, <3>1, <3>2 DEF EvidenceInv
  <2>5. CASE UNCHANGED <<source, seen, room, checked, note>>
    BY <2>1, <2>5, Untouched DEF EvidenceInv
  <2>6. ASSUME NEW m \in Message, NEW item \in Snapshot, NEW check \in Check, NEW kind, NEW r,
               ArriveEvent(h, m, item, check, kind, r)
        PROVE  UNCHANGED <<source, seen, room, checked, note>>
    BY <2>6 DEF ArriveEvent, evTables
  <2>7. HandlerDies(h) => UNCHANGED <<source, seen, room, checked, note>>
    BY DEF HandlerDies, evTables
  <2> QED BY <1>3, <2>2, <2>3, <2>4, <2>5, <2>6, <2>7
<1>4. ASSUME NEW h \in RoomHandler, Resolve(h) PROVE EvidenceInv'
  <2>1. UNCHANGED <<source, seen, room, checked, note>>
    BY <1>4 DEF Resolve, ReadTrigger, ReserveRoute, SelectSpeaker, FinishRoute, Direct, evTables
  <2> QED BY <1>0, <1>4, <2>1, ResolveSteps, Untouched DEF EvidenceInv
<1>5. CASE (\E n \in Note : OperatorEdits(n) \/ AuthorNote(n) \/ OperatorForgets(n)) \/ DeleteForCard
  <2>1. NotesTrue' /\ UNCHANGED <<source, seen, room, checked>>
    BY <1>5, NoteSteps
  <2>2. SourceShaped' /\ AccessTrue' /\ \A m \in Message : Joined(m)'
    BY <2>1 DEF EvidenceInv, SourceShaped, AccessTrue, Joined
  <2>3. UNCHANGED <<handler, route, asked, answers>>
    BY <1>5 DEF OperatorEdits, AuthorNote, OperatorForgets, DeleteForCard
  <2> QED BY <1>1, <2>1, <2>2, <2>3 DEF EvidenceInv
<1>6. CASE \/ EndDeployment \/ CoolDown
           \/ \E k \in Looker, m \in Message : Perceive(k, m) \/ RememberReads(k, m) \/ RememberStores(k, m)
                                               \/ RecallReads(k, m) \/ RecallTells(k, m)
           \/ \E m \in Message : ExpireMedia(m)
  <2>1. UNCHANGED <<source, seen, room, checked, note>> /\ UNCHANGED <<handler, route, asked, answers>>
    BY <1>6 DEF EndDeployment, CoolDown, Perceive, RememberReads, RememberStores, RecallReads, RecallTells,
                ExpireMedia, evTables
  <2> QED BY <1>1, <2>1, Untouched DEF EvidenceInv
<1> QED BY <1>2, <1>3, <1>4, <1>5, <1>6 DEF EvidenceNext

LEMMA AtMostOne == ASSUME NEW S, \A x, y \in S : x = y PROVE Cardinality(S) <= 1
<1>1. Cardinality({}) = 0 /\ \A x : Cardinality({x}) = 1
  BY FS_EmptySet, FS_Singleton
<1>2. CASE S = {}
  BY <1>1, <1>2
<1>3. CASE S # {}
  <2>1. PICK x \in S : TRUE
    BY <1>3
  <2>2. S = {x}
    BY <2>1
  <2>3. Cardinality({x}) = 1
    BY <1>1
  <2>4. Cardinality(S) = 1
    BY <2>2, <2>3, Zenon
  <2> QED BY <2>4
<1> QED BY <1>2, <1>3

\* However often a routing request is retried, the director is asked once for it and
\* everybody who gets a decision gets the same one.
THEOREM RouteDecidedOnce == EvidenceSpec => []RoutedOnce
<1>1. EvidenceInv => RoutedOnce
  <2> SUFFICES ASSUME EvidenceInv, NEW r \in Route PROVE asked[r] <= 1 /\ Cardinality(answers[r]) <= 1
    BY DEF RoutedOnce
  <2>1. asked[r] \in {0, 1} /\ \A x, y \in answers[r] : x = y
    BY DEF EvidenceInv, RoutingInv, RouteTrue
  <2> QED BY <2>1, AtMostOne
<1> QED BY <1>1, EvidenceInitInv, EvidenceStep, PTL DEF EvidenceSpec

\* What the model is told of notes is what the room says now.
THEOREM NotesStayCurrent == EvidenceSpec => []NotesCurrent
<1>1. EvidenceInv => NotesCurrent
  BY DEF EvidenceInv, NotesTrue, NotesCurrent, ListedNotes, Live
<1> QED BY <1>1, EvidenceInitInv, EvidenceStep, PTL DEF EvidenceSpec

\* Whatever the order in which reports arrive, the rows depend only on which arrived.
THEOREM ReportsConverge == EvidenceSpec => []EvidenceConverges
<1>1. EvidenceInv => EvidenceConverges
  <2> SUFFICES ASSUME EvidenceInv PROVE EvidenceConverges
    OBVIOUS
  <2>0. MaxCheck \in Nat /\ MaxVersion \in Nat /\ AccessTrue /\ SourceShaped
    BY EvidenceAssumption DEF EvidenceInv
  <2>1. LastCheck = room.time
    <3>1. \A c \in checked : c.time \in Nat
      BY <2>0 DEF AccessTrue, Check
    <3>2. \A t \in 0..MaxCheck : (\A c \in checked : c.time <= t) /\ (t = 0 \/ \E c \in checked : c.time = t)
                                   <=> t = room.time
      BY <2>0, <3>1 DEF AccessTrue
    <3> QED BY <2>0, <3>2 DEF LastCheck, AccessTrue
  <2>2. room.time = LastCheck /\ (room.readable <=> \A c \in checked : c.time = LastCheck => c.readable)
    BY <2>0, <2>1 DEF AccessTrue
  <2>3. ASSUME NEW m \in Message, seen[m] # {}, ~\E s \in seen[m] : s.gone
        PROVE  source[m].item = [ver |-> Newest(m), gone |-> FALSE,
                                 avail |-> \E s \in seen[m] : s.ver = Newest(m) /\ s.avail]
    <3>1. /\ Joined(m) /\ source[m].known /\ ~source[m].item.gone /\ source[m].item \in Snapshot
      BY <2>0, <2>3 DEF EvidenceInv, Joined, SourceShaped
    <3>2. PICK item : item = source[m].item
      OBVIOUS
    <3>5. item = [ver |-> item.ver, avail |-> item.avail, gone |-> item.gone] /\ item.ver \in 0..MaxVersion
          /\ item.avail \in BOOLEAN /\ item.gone = FALSE /\ \A s \in seen[m] : s.ver \in Nat
      BY <2>0, <3>1, <3>2, Snapshots DEF Joined
    <3>6. item.avail = \E s \in seen[m] : s.ver = item.ver /\ s.avail
      BY <3>1, <3>2, <3>5 DEF Joined
    <3>3. \A v \in 0..MaxVersion : (\A s \in seen[m] : s.ver <= v) /\ (v = 0 \/ \E s \in seen[m] : s.ver = v)
                                     <=> v = item.ver
      BY <2>0, <2>3, <3>1, <3>2, <3>5 DEF Joined
    <3>4. Newest(m) = item.ver
      BY <3>5, <3>3 DEF Newest
    <3> QED BY <3>2, <3>4, <3>5, <3>6
  <2>4. ASSUME NEW m \in Message
        PROVE  (source[m].known <=> seen[m] # {}) /\ (source[m].item.gone <=> \E s \in seen[m] : s.gone)
    <3>1. Joined(m)
      BY DEF EvidenceInv
    <3> QED BY <3>1 DEF Joined
  <2> QED BY <2>2, <2>3, <2>4 DEF EvidenceConverges
<1> QED BY <1>1, EvidenceInitInv, EvidenceStep, PTL DEF EvidenceSpec

(***************************************************************************)
(* Accounts                                                                 *)
(***************************************************************************)
UserRow == [state: {"none", "active", "deleted"}, role: {"user", "admin"}, email: Email \cup {NoEmail}]
SessionRow == [owner: Account \cup {Nobody}, state: {"none", "live", "revoked", "gone"}, over: BOOLEAN]
InvitationRow == [state: {"none", "open", "accepted", "revoked"}, role: {"user", "admin"}, over: BOOLEAN]
DeviceRow == [status: {"none", "pending", "approved", "denied", "redeemed"},
              reviewer: Account \cup {Nobody}, version: Nat, over: BOOLEAN, slow: BOOLEAN,
              holder: Caller \cup {Nobody}]
GrantRow == [owner: Account \cup {Nobody}, state: {"none", "live", "revoked"}, over: BOOLEAN,
             token: BOOLEAN]
CallPc == {"idle", "verify", "fail", "open", "clear", "session", "account", "admit", "act", "owned",
           "delete", "poll", "issue", "snapshot", "again", "served"}
CallOp == AdminOps \cup OwnOps \cup DeviceOps \cup {"none", "login", "register", "poll", "messages"}
CallRow == [pc: CallPc, op: CallOp, as: Account \cup {Nobody}, admin: BOOLEAN,
            with: Session \cup Email \cup {"none"},
            on: Invitation \cup Account \cup Session \cup Device \cup {"none"},
            seen: DeviceRow, late: BOOLEAN]

UsersTyped == user \in [Account -> UserRow]
SessionsTyped == session \in [Session -> SessionRow]
InvitationsTyped == invitation \in [Invitation -> InvitationRow] /\ created \in [Invitation -> Nat]
DevicesTyped == device \in [Device -> DeviceRow] /\ grant \in [Device -> GrantRow] /\ tokens \in [Device -> Nat]
CallsTyped == call \in [Caller -> CallRow]

\* An invitation counts the accounts it made.
InvitationsCounted ==
    \A i \in Invitation : created[i] = IF invitation[i].state = "accepted" THEN 1 ELSE 0

\* A device counts its tokens, and has a grant from its approval on, for its reviewer; its row
\* is held only between an approval and its token.
DevicesCounted ==
    \A d \in Device :
      /\ tokens[d] = IF device[d].status = "redeemed" THEN 1 ELSE 0
      /\ grant[d].state # "none" <=> device[d].status \in {"approved", "redeemed"}
      /\ grant[d].state # "none" => grant[d].owner = device[d].reviewer
      /\ device[d].holder # Nobody => device[d].status = "approved"

\* Who owns a session or a grant has been an account.
Known(a) == a \in Account /\ user[a].state # "none"
OwnersKnown ==
    /\ \A s \in Session : session[s].state # "none" => Known(session[s].owner)
    /\ \A d \in Device : grant[d].state # "none" => Known(grant[d].owner)

\* The request that holds a device is the one that issues its token.
HolderIssues(c) ==
    call[c].pc = "issue" => device[call[c].on].status = "approved" /\ device[call[c].on].holder = c

\* What a request has read, and what became of it.
CallSound(c) ==
    LET q == call[c] IN
    /\ q.pc \in {"session", "account"} => q.with \in Session /\ session[q.with].state # "none"
    /\ q.pc = "session" /\ q.late => ~SessionAlive(q.with)
    /\ q.pc = "account" /\ q.late => ~Active(session[q.with].owner)
    /\ q.pc \in {"open", "admit", "act"} => Known(q.as)
    /\ q.pc \in {"session", "account", "admit", "act"} /\ q.op \in DeviceOps => q.on \in Device
    /\ q.pc \in {"poll", "issue", "snapshot", "again", "served"} => q.on \in Device
    /\ q.pc \in {"snapshot", "again", "served"} => grant[q.on].state # "none"
    /\ q.pc = "again" /\ q.late => ~GrantLives(q.on) \/ ~Active(grant[q.on].owner)
    /\ q.pc \in {"admit", "act", "owned", "delete", "served"} => ~q.late
    /\ HolderIssues(c)

AccountsInv ==
    /\ UsersTyped /\ SessionsTyped /\ InvitationsTyped /\ DevicesTyped /\ CallsTyped
    /\ InvitationsCounted /\ DevicesCounted /\ OwnersKnown
    /\ \A c \in Caller : CallSound(c)

(***************************************************************************)
(* The rows                                                                *)
(***************************************************************************)
LEMMA NoRowsTyped ==
  /\ NoUser \in UserRow /\ NoSession \in SessionRow /\ NoInvitation \in InvitationRow
  /\ NoDevice \in DeviceRow /\ NoGrant \in GrantRow /\ NoCallYet \in CallRow
<1>1. /\ NoUser \in UserRow /\ NoSession \in SessionRow /\ NoInvitation \in InvitationRow
      /\ NoDevice \in DeviceRow /\ NoGrant \in GrantRow
  BY DEF NoUser, UserRow, NoSession, SessionRow, NoInvitation, InvitationRow, NoDevice, DeviceRow,
         NoGrant, GrantRow
<1>2. "idle" \in CallPc /\ "none" \in CallOp
  BY DEF CallPc, CallOp
<1>3. NoCallYet \in CallRow
  BY <1>1, <1>2 DEF NoCallYet, CallRow
<1> QED BY <1>1, <1>3

\* A new call: what it asks for, and with which credential.
LEMMA NewLoginIs ==
  ASSUME NEW op, NEW with, NEW row,
         row = [NoCallYet EXCEPT !.pc = "verify", !.op = op, !.with = with]
  PROVE  row = [pc |-> "verify", op |-> op, as |-> Nobody, admin |-> FALSE, with |-> with,
                on |-> "none", seen |-> NoDevice, late |-> FALSE]
  BY DEF NoCallYet

LEMMA NewPollIs ==
  ASSUME NEW d, NEW read, NEW row,
         row = [NoCallYet EXCEPT !.pc = "poll", !.op = "poll", !.on = d, !.seen = read]
  PROVE  row = [pc |-> "poll", op |-> "poll", as |-> Nobody, admin |-> FALSE, with |-> "none",
                on |-> d, seen |-> read, late |-> FALSE]
  BY DEF NoCallYet

(***************************************************************************)
(* How tables change: an end is final                                      *)
(***************************************************************************)
UsersAge ==
  \A a \in Account : user[a].state # "none" =>
    user'[a].state # "none" /\ (user[a].state # "active" => user'[a].state # "active")

SessionsAge ==
  \A s \in Session : session[s].state # "none" =>
    /\ session'[s].state # "none" /\ session'[s].owner = session[s].owner
    /\ session[s].over => session'[s].over
    /\ session[s].state # "live" => session'[s].state # "live"

GrantsAge ==
  \A d \in Device : grant[d].state # "none" =>
    /\ grant'[d].state # "none" /\ grant'[d].owner = grant[d].owner
    /\ grant[d].over => grant'[d].over
    /\ grant[d].state # "live" => grant'[d].state # "live"

Ages == UsersAge /\ SessionsAge /\ GrantsAge

\* The row of a device that somebody else holds is left alone.
HoldersKept(c) ==
  \A d \in Device : device[d].holder \notin {Nobody, c} =>
    device'[d].status = device[d].status /\ device'[d].holder = device[d].holder

LEMMA TablesSame ==
  ASSUME AccountsInv, NEW c, UNCHANGED <<user, session, invitation, device, grant, created, tokens>>
  PROVE  /\ Ages /\ HoldersKept(c)
         /\ UsersTyped' /\ SessionsTyped' /\ InvitationsTyped' /\ DevicesTyped'
         /\ InvitationsCounted' /\ DevicesCounted' /\ OwnersKnown'
  BY DEF AccountsInv, Ages, UsersAge, SessionsAge, GrantsAge, HoldersKept, UsersTyped, SessionsTyped,
         InvitationsTyped, DevicesTyped, InvitationsCounted, DevicesCounted, OwnersKnown, Known

\* What a request has read is still true of it when others have acted.
LEMMA CallKeeps ==
  ASSUME AccountsInv, NEW x, NEW c \in Caller, x # c, Ages, HoldersKept(x), call'[c] = call[c]
  PROVE  CallSound(c)'
<1>1. CallSound(c) /\ OwnersKnown
  BY DEF AccountsInv
<1>2. \A a : Known(a) => Known(a)' /\ (~Active(a) => ~Active(a)')
  BY DEF Known, Active, Ages, UsersAge
<1>3. \A s \in Session : session[s].state # "none" =>
        /\ session'[s].state # "none" /\ session'[s].owner = session[s].owner
        /\ ~SessionAlive(s) => ~SessionAlive(s)'
  BY <1>1, <1>2 DEF OwnersKnown, SessionAlive, Ages, SessionsAge
<1>4. \A d \in Device : grant[d].state # "none" =>
        /\ grant'[d].state # "none" /\ grant'[d].owner = grant[d].owner
        /\ ~GrantLives(d) => ~GrantLives(d)'
  BY DEF GrantLives, Ages, GrantsAge
<1>5. HolderIssues(c)'
  <2>1. c # Nobody
    BY AccountsAssumption
  <2>2. call[c].pc = "issue" => call[c].on \in Device
    BY <1>1 DEF CallSound
  <2> QED BY <1>1, <2>1, <2>2 DEF CallSound, HolderIssues, HoldersKept
<1>6. ASSUME call[c].pc \in {"session", "account"}
      PROVE  /\ call[c].with \in Session /\ session'[call[c].with].state # "none"
             /\ call[c].pc = "session" /\ call[c].late => ~SessionAlive(call[c].with)'
             /\ call[c].pc = "account" /\ call[c].late => ~Active(session[call[c].with].owner)'
  <2>1. PICK s \in Session : s = call[c].with /\ session[s].state # "none"
    BY <1>1, <1>6 DEF CallSound
  <2>2. Known(session[s].owner)
    BY <1>1, <2>1 DEF OwnersKnown
  <2>3. /\ session'[s].state # "none" /\ session'[s].owner = session[s].owner
        /\ ~SessionAlive(s) => ~SessionAlive(s)'
    BY <1>3, <2>1
  <2>4. call[c].pc = "session" /\ call[c].late => ~SessionAlive(s)'
    BY <1>1, <2>1, <2>3 DEF CallSound
  <2>5. call[c].pc = "account" /\ call[c].late => ~Active(session[s].owner)'
    <3>1. call[c].pc = "account" /\ call[c].late => ~Active(session[s].owner)
      BY <1>1, <2>1 DEF CallSound
    <3>2. PICK a : a = session[s].owner /\ a = session'[s].owner
      BY <2>3
    <3>3. ~Active(a) => ~Active(a)'
      BY <1>2, <2>2, <3>2
    <3>4. ~Active(session[s].owner) => ~Active(session[s].owner)'
      BY <3>2, <3>3 DEF Active
    <3> QED BY <3>1, <3>4
  <2> QED BY <2>1, <2>3, <2>4, <2>5
<1>7. ASSUME call[c].pc \in {"snapshot", "again", "served"}
      PROVE  /\ call[c].on \in Device /\ grant'[call[c].on].state # "none"
             /\ call[c].pc = "again" /\ call[c].late =>
                  ~GrantLives(call[c].on)' \/ ~Active(grant[call[c].on].owner)'
  <2>1. PICK d \in Device : d = call[c].on /\ grant[d].state # "none"
    BY <1>1, <1>7 DEF CallSound
  <2>2. Known(grant[d].owner)
    BY <1>1, <2>1 DEF OwnersKnown
  <2>3. /\ grant'[d].state # "none" /\ grant'[d].owner = grant[d].owner
        /\ ~GrantLives(d) => ~GrantLives(d)'
    BY <1>4, <2>1
  <2>4. call[c].pc = "again" /\ call[c].late => ~GrantLives(d)' \/ ~Active(grant[d].owner)'
    <3>1. call[c].pc = "again" /\ call[c].late => ~GrantLives(d) \/ ~Active(grant[d].owner)
      BY <1>1, <2>1 DEF CallSound
    <3>2. PICK a : a = grant[d].owner /\ a = grant'[d].owner
      BY <2>3
    <3>3. ~Active(a) => ~Active(a)'
      BY <1>2, <2>2, <3>2
    <3>4. ~Active(grant[d].owner) => ~Active(grant[d].owner)'
      BY <3>2, <3>3 DEF Active
    <3> QED BY <2>3, <3>1, <3>4
  <2> QED BY <2>1, <2>3, <2>4
<1>8. call[c].pc \in {"open", "admit", "act"} => Known(call[c].as)'
  BY <1>1, <1>2 DEF CallSound
<1>9. /\ call[c].pc \in {"session", "account", "admit", "act"} /\ call[c].op \in DeviceOps => call[c].on \in Device
      /\ call[c].pc \in {"poll", "issue", "snapshot", "again", "served"} => call[c].on \in Device
      /\ call[c].pc \in {"admit", "act", "owned", "delete", "served"} => ~call[c].late
  BY <1>1 DEF CallSound
<1> QED BY <1>5, <1>6, <1>7, <1>8, <1>9 DEF CallSound

\* A step of request c: the tables are as good as before, and so is its own row.
LEMMA CallerStep ==
  ASSUME AccountsInv, NEW c \in Caller, NEW row \in CallRow, call' = [call EXCEPT ![c] = row],
         Ages, HoldersKept(c), CallSound(c)',
         UsersTyped', SessionsTyped', InvitationsTyped', DevicesTyped',
         InvitationsCounted', DevicesCounted', OwnersKnown'
  PROVE  AccountsInv'
<1>1. CallsTyped'
  BY DEF AccountsInv, CallsTyped
<1>2. ASSUME NEW d \in Caller PROVE CallSound(d)'
  <2>1. CASE d = c
    BY <2>1
  <2>2. CASE d # c
    <3>1. call'[d] = call[d]
      BY <2>2 DEF AccountsInv, CallsTyped
    <3> QED BY <2>2, <3>1, CallKeeps
  <2> QED BY <2>1, <2>2
<1> QED BY <1>1, <1>2 DEF AccountsInv

LEMMA TurnIs ==
  ASSUME CallsTyped, NEW c \in Caller, NEW pc \in CallPc, Turn(c, pc)
  PROVE  \E row \in CallRow :
           /\ call' = [call EXCEPT ![c] = row] /\ call'[c] = row /\ row.pc = pc
           /\ row.op = call[c].op /\ row.as = call[c].as /\ row.with = call[c].with
           /\ row.on = call[c].on /\ row.late = call[c].late
<1>1. PICK row : row = [call[c] EXCEPT !.pc = pc]
  OBVIOUS
<1>2. call[c] \in CallRow
  BY DEF CallsTyped
<1>3. /\ row \in CallRow /\ row.pc = pc
      /\ row.op = call[c].op /\ row.as = call[c].as /\ row.with = call[c].with
      /\ row.on = call[c].on /\ row.late = call[c].late
  BY <1>1, <1>2 DEF CallRow
<1>4. call' = [call EXCEPT ![c] = row] /\ call'[c] = row
  BY <1>1 DEF Turn, CallsTyped
<1> QED BY <1>3, <1>4

\* A request that is over claims nothing.
LEMMA QuitIs ==
  ASSUME CallsTyped, NEW c \in Caller, call' = [call EXCEPT ![c] = NoCallYet]
  PROVE  NoCallYet \in CallRow /\ CallSound(c)'
<1>1. call'[c].pc = "idle"
  BY DEF CallsTyped, NoCallYet
<1> QED BY <1>1, NoRowsTyped DEF CallSound, HolderIssues

LEMMA CallerQuits ==
  ASSUME AccountsInv, NEW c \in Caller, call' = [call EXCEPT ![c] = NoCallYet],
         Ages, HoldersKept(c),
         UsersTyped', SessionsTyped', InvitationsTyped', DevicesTyped',
         InvitationsCounted', DevicesCounted', OwnersKnown'
  PROVE  AccountsInv'
<1>1. NoCallYet \in CallRow /\ CallSound(c)'
  BY QuitIs DEF AccountsInv
<1> QED BY <1>1, CallerStep

LEMMA JustQuits ==
  ASSUME AccountsInv, NEW c \in Caller, call' = [call EXCEPT ![c] = NoCallYet],
         UNCHANGED <<user, session, invitation, device, grant, created, tokens>>
  PROVE  AccountsInv'
  BY TablesSame, CallerQuits

LEMMA InitSound == AccountsInit => AccountsInv
<1> SUFFICES ASSUME AccountsInit PROVE AccountsInv
  OBVIOUS
<1>1. PICK e \in Email : user = [a \in Account |-> IF a = Founder THEN NewUser("admin", e) ELSE NoUser]
  BY DEF AccountsInit, FirstUsers
<1>2. PICK s \in Session : session = [t \in Session |-> IF t = s THEN NewSession(Founder) ELSE NoSession]
  BY DEF AccountsInit, NoRequests
<1>3. NewUser("admin", e) \in UserRow /\ NewSession(Founder) \in SessionRow
  BY AccountsAssumption DEF NewUser, UserRow, NewSession, SessionRow
<1>4. UsersTyped /\ SessionsTyped
  BY <1>1, <1>2, <1>3, NoRowsTyped DEF UsersTyped, SessionsTyped
<1>5. /\ InvitationsTyped /\ DevicesTyped /\ CallsTyped
      /\ \A i \in Invitation : invitation[i] = NoInvitation /\ created[i] = 0
      /\ \A d \in Device : device[d] = NoDevice /\ grant[d] = NoGrant /\ tokens[d] = 0
      /\ \A c \in Caller : call[c] = NoCallYet
  BY NoRowsTyped DEF AccountsInit, NoRequests, InvitationsTyped, DevicesTyped, CallsTyped
<1>6. InvitationsCounted /\ DevicesCounted /\ \A c \in Caller : CallSound(c)
  BY <1>5 DEF InvitationsCounted, DevicesCounted, CallSound, HolderIssues, NoInvitation, NoDevice,
              NoGrant, NoCallYet
<1>7. OwnersKnown
  <2>1. \A t \in Session : session[t].state # "none" => session[t].owner = Founder
    BY <1>2 DEF NoSession, NewSession
  <2>2. user[Founder].state = "active" /\ Founder \in Account
    BY <1>1, AccountsAssumption DEF NewUser
  <2> QED BY <1>5, <2>1, <2>2 DEF OwnersKnown, Known, NoGrant
<1> QED BY <1>4, <1>5, <1>6, <1>7 DEF AccountsInv

(***************************************************************************)
(* Requests that only read                                                 *)
(***************************************************************************)
LEMMA ActiveKnown == \A a : Active(a) => Known(a)
  BY DEF Active, Known

\* A request has read, and goes on with row; what it claims is true of the tables it has read.
LEMMA JustReads ==
  ASSUME AccountsInv, NEW c \in Caller, NEW row \in CallRow, call' = [call EXCEPT ![c] = row],
         UNCHANGED <<user, session, invitation, device, grant, created, tokens>>,
         row.pc \in {"session", "account"} => row.with \in Session /\ session[row.with].state # "none",
         row.pc = "session" /\ row.late => ~SessionAlive(row.with),
         row.pc = "account" /\ row.late => ~Active(session[row.with].owner),
         row.pc \in {"open", "admit", "act"} => Known(row.as),
         row.pc \in {"session", "account", "admit", "act"} /\ row.op \in DeviceOps => row.on \in Device,
         row.pc \in {"poll", "snapshot", "again", "served"} => row.on \in Device,
         row.pc \in {"snapshot", "again", "served"} => grant[row.on].state # "none",
         row.pc = "again" /\ row.late => ~GrantLives(row.on) \/ ~Active(grant[row.on].owner),
         row.pc \in {"admit", "act", "owned", "delete", "served"} => ~row.late,
         row.pc # "issue"
  PROVE  AccountsInv'
<1>1. call'[c] = row
  BY DEF AccountsInv, CallsTyped
<1>2. CallSound(c)'
  BY <1>1 DEF CallSound, HolderIssues, SessionAlive, Active, Known, GrantLives
<1>3. /\ Ages /\ HoldersKept(c)
      /\ UsersTyped' /\ SessionsTyped' /\ InvitationsTyped' /\ DevicesTyped'
      /\ InvitationsCounted' /\ DevicesCounted' /\ OwnersKnown'
  BY TablesSame
<1> QED BY <1>2, <1>3, CallerStep

LEMMA AskSound ==
  ASSUME AccountsInv, NEW c \in Caller, NEW s \in Session, NEW op \in AdminOps \cup OwnOps \cup DeviceOps,
         NEW x, Ask(c, s, op, x)
  PROVE  AccountsInv'
<1>2. PICK late \in BOOLEAN : late = ~SessionAlive(s)
  OBVIOUS
<1>1. PICK row : row = [NoCallYet EXCEPT !.pc = "session", !.op = op, !.with = s, !.on = x,
                                         !.late = late]
  OBVIOUS
<1>3. row = [pc |-> "session", op |-> op, as |-> Nobody, admin |-> FALSE, with |-> s, on |-> x,
             seen |-> NoDevice, late |-> late]
  BY <1>1, Zenon DEF NoCallYet
<1>4. x \in Invitation \cup Account \cup Session \cup Device \cup {"none"}
  BY DEF Ask, Subjects, AdminOps, OwnOps, DeviceOps
<1>5. op \in DeviceOps => x \in Device
  BY DEF Ask, Subjects, AdminOps, OwnOps, DeviceOps
<1>6. "session" \in CallPc /\ op \in CallOp /\ NoDevice \in DeviceRow
  BY NoRowsTyped DEF CallPc, CallOp
<1>7. row \in CallRow
  BY <1>3, <1>4, <1>6 DEF CallRow
<1>8. /\ row.pc = "session" /\ row.with = s /\ row.op = op /\ row.on = x
      /\ row.late => ~SessionAlive(s)
  BY <1>2, <1>3
<1>9. /\ call' = [call EXCEPT ![c] = row] /\ session[s].state # "none"
      /\ UNCHANGED <<user, session, invitation, device, grant, created, tokens>>
  BY <1>1, <1>2 DEF Ask, accountTables
<1> QED BY <1>5, <1>7, <1>8, <1>9, JustReads

\* Register, Login, Poll and CliAsk begin a request too; it has read nothing that can end.
LEMMA LoginBegins ==
  ASSUME NEW op \in {"login", "register"}, NEW e \in Email
  PROVE  \E row \in CallRow : /\ row = [NoCallYet EXCEPT !.pc = "verify", !.op = op, !.with = e]
                              /\ row.pc = "verify" /\ ~row.late
<1>1. PICK row : row = [NoCallYet EXCEPT !.pc = "verify", !.op = op, !.with = e]
  OBVIOUS
<1>2. row = [pc |-> "verify", op |-> op, as |-> Nobody, admin |-> FALSE, with |-> e,
             on |-> "none", seen |-> NoDevice, late |-> FALSE]
  BY <1>1, NewLoginIs
<1>3. "verify" \in CallPc /\ op \in CallOp /\ NoDevice \in DeviceRow
  BY NoRowsTyped DEF CallPc, CallOp
<1>4. row \in CallRow
  BY <1>2, <1>3 DEF CallRow
<1>5. row.pc = "verify" /\ ~row.late
  BY <1>2
<1> QED BY <1>1, <1>4, <1>5

LEMMA LoginSound ==
  ASSUME AccountsInv, NEW c \in Caller, NEW e \in Email, Login(c, e)
  PROVE  AccountsInv'
<1>1. PICK row \in CallRow : /\ row = [NoCallYet EXCEPT !.pc = "verify", !.op = "login", !.with = e]
                             /\ row.pc = "verify" /\ ~row.late
  BY LoginBegins
<1>2. /\ call' = [call EXCEPT ![c] = row]
      /\ UNCHANGED <<user, session, invitation, device, grant, created, tokens>>
  BY <1>1 DEF Login, accountTables
<1> QED BY <1>1, <1>2, JustReads

LEMMA VerifySound ==
  ASSUME AccountsInv, NEW c \in Caller, NEW right \in BOOLEAN, Verify(c, right)
  PROVE  AccountsInv'
<1>0. /\ UNCHANGED <<user, session, invitation, device, grant, created, tokens>>
      /\ CallsTyped /\ call[c] \in CallRow /\ call[c].pc = "verify"
  BY DEF Verify, accountTables, AccountsInv, CallsTyped, At
<1>1. ASSUME NEW a, Active(a), call' = [call EXCEPT ![c].pc = "open", ![c].as = a]
      PROVE  AccountsInv'
  <2>1. PICK row : row = [call[c] EXCEPT !.pc = "open", !.as = a]
    OBVIOUS
  <2>2. a \in Account \cup {Nobody} /\ "open" \in CallPc
    BY <1>1 DEF Active, CallPc
  <2>3. row \in CallRow /\ row.pc = "open" /\ row.as = a
    BY <1>0, <2>1, <2>2 DEF CallRow
  <2>4. call' = [call EXCEPT ![c] = row]
    BY <1>1, <2>1
  <2>5. Known(row.as)
    BY <1>1, <2>3, ActiveKnown
  <2> QED BY <1>0, <2>3, <2>4, <2>5, JustReads
<1>2. CASE Turn(c, "fail")
  <2>1. "fail" \in CallPc
    BY DEF CallPc
  <2>2. PICK row \in CallRow : call' = [call EXCEPT ![c] = row] /\ row.pc = "fail"
    BY <1>0, <1>2, <2>1, TurnIs
  <2> QED BY <1>0, <2>2, JustReads
<1>3. CASE call' = [call EXCEPT ![c] = NoCallYet]
  BY <1>0, <1>3, JustQuits
<1> QED BY <1>1, <1>2, <1>3 DEF Verify

LEMMA RowTaken ==
  ASSUME NEW x \in CallRow, NEW p \in CallPc, NEW u \in Account, NEW b \in BOOLEAN,
         NEW row, row = [x EXCEPT !.pc = p, !.as = u, !.admin = b]
  PROVE  /\ row \in CallRow /\ row.pc = p /\ row.as = u /\ row.op = x.op /\ row.on = x.on
         /\ row.late = x.late
BY DEF CallRow

LEMMA ResolveUserSound ==
  ASSUME AccountsInv, NEW c \in Caller, ResolveUser(c)
  PROVE  AccountsInv'
<1> DEFINE a == session[call[c].with].owner
           pc == IF call[c].op \in DeviceOps THEN "act" ELSE "admit"
           admin == user[a].role = "admin"
<1>0. /\ UNCHANGED <<user, session, invitation, device, grant, created, tokens>>
      /\ CallsTyped /\ call[c] \in CallRow /\ call[c].pc = "account" /\ CallSound(c)
  BY DEF ResolveUser, accountTables, AccountsInv, CallsTyped, At
<1>1. CASE ~Active(a)
  <2>1. call' = [call EXCEPT ![c] = NoCallYet]
    BY <1>1 DEF ResolveUser
  <2> QED BY <1>0, <2>1, JustQuits
<1>2. CASE Active(a)
  <2>1. PICK p \in {"act", "admit"} : p = pc /\ p \in CallPc
    BY DEF CallPc
  <2>2. PICK b \in BOOLEAN : b = admin
    OBVIOUS
  <2>3. PICK u \in Account : u = a
    BY <1>2 DEF Active
  <2>4. PICK row : row = [call[c] EXCEPT !.pc = p, !.as = u, !.admin = b]
    OBVIOUS
  <2>5. /\ row \in CallRow /\ row.pc = p /\ row.as = u /\ row.op = call[c].op /\ row.on = call[c].on
        /\ row.late = call[c].late
    <3>1. call[c] \in CallRow /\ p \in CallPc
      BY <1>0, <2>1
    <3>2. \A x \in CallRow, q \in CallPc, v \in Account, t \in BOOLEAN :
             row = [x EXCEPT !.pc = q, !.as = v, !.admin = t] =>
               /\ row \in CallRow /\ row.pc = q /\ row.as = v /\ row.op = x.op /\ row.on = x.on
               /\ row.late = x.late
      BY RowTaken
    <3> QED BY ONLY <2>4, <3>1, <3>2, u \in Account, b \in BOOLEAN, Zenon
  <2>6. call' = [call EXCEPT ![c] = row]
    BY <1>2, <2>1, <2>2, <2>3, <2>4 DEF ResolveUser
  <2>7. ~call[c].late /\ (call[c].op \in DeviceOps => call[c].on \in Device)
    BY <1>0, <1>2 DEF CallSound
  <2>8. Known(u)
    BY <1>2, <2>3, ActiveKnown
  <2>9. /\ row.pc # "session" /\ row.pc # "account" /\ row.pc # "open" /\ row.pc # "issue"
        /\ row.pc \notin {"poll", "snapshot", "again", "served"}
        /\ Known(row.as) /\ ~row.late /\ (row.op \in DeviceOps => row.on \in Device)
    <3>1. row.pc \in {"act", "admit"} /\ Known(row.as)
      BY <2>5, <2>8, Zenon
    <3>2. ~row.late /\ (row.op \in DeviceOps => row.on \in Device)
      BY <2>5, <2>7, Zenon
    <3> HIDE DEF a, pc, admin
    <3> QED BY <3>1, <3>2
  <2> HIDE DEF a, pc, admin
  <2>10. /\ row \in CallRow /\ call' = [call EXCEPT ![c] = row] /\ AccountsInv
         /\ UNCHANGED <<user, session, invitation, device, grant, created, tokens>>
    BY <1>0, <2>5, <2>6, Zenon
  <2> QED BY ONLY <2>9, <2>10, JustReads, c \in Caller, Zenon
<1> QED BY <1>1, <1>2

LEMMA AdmitSound ==
  ASSUME AccountsInv, NEW c \in Caller, Admit(c) \/ Refuse(c)
  PROVE  AccountsInv'
<1>0. /\ UNCHANGED <<user, session, invitation, device, grant, created, tokens>>
      /\ CallsTyped /\ call[c].pc = "admit" /\ CallSound(c)
  BY DEF Admit, Refuse, accountTables, AccountsInv, At
<1>1. CASE Done(c)
  BY <1>0, <1>1, JustQuits DEF Done
<1>2. CASE Turn(c, "act")
  <2>1. "act" \in CallPc
    BY DEF CallPc
  <2>2. PICK row \in CallRow :
           /\ call' = [call EXCEPT ![c] = row] /\ row.pc = "act" /\ row.as = call[c].as
           /\ row.op = call[c].op /\ row.on = call[c].on /\ row.late = call[c].late
    BY <1>0, <1>2, <2>1, TurnIs
  <2>3. Known(call[c].as) /\ ~call[c].late
    BY <1>0 DEF CallSound
  <2>4. call[c].op \in DeviceOps => call[c].on \in Device
    BY <1>0 DEF CallSound
  <2> QED BY <1>0, <2>2, <2>3, <2>4, JustReads
<1> QED BY <1>1, <1>2 DEF Admit, Refuse

LEMMA ValidateSound ==
  ASSUME AccountsInv, NEW c \in Caller, ValidateDeletion(c)
  PROVE  AccountsInv'
<1>0. /\ UNCHANGED <<user, session, invitation, device, grant, created, tokens>>
      /\ CallsTyped /\ CallSound(c) /\ call[c].pc \in {"act", "owned"}
  BY DEF ValidateDeletion, accountTables, AccountsInv, At
<1>1. CASE Done(c)
  BY <1>0, <1>1, JustQuits DEF Done
<1>2. ASSUME NEW pc \in {"owned", "delete"}, Turn(c, pc)
      PROVE  AccountsInv'
  <2>1. pc \in CallPc
    BY DEF CallPc
  <2>2. PICK row \in CallRow :
           call' = [call EXCEPT ![c] = row] /\ row.pc = pc /\ row.late = call[c].late
    BY <1>0, <1>2, <2>1, TurnIs
  <2>3. ~call[c].late
    BY <1>0 DEF CallSound
  <2> QED BY <1>0, <2>2, <2>3, JustReads
<1> QED BY <1>1, <1>2 DEF ValidateDeletion

LEMMA PollSound ==
  ASSUME AccountsInv, NEW c \in Caller, NEW d \in Device, Poll(c, d)
  PROVE  AccountsInv'
<1>1. PICK row : row = [NoCallYet EXCEPT !.pc = "poll", !.op = "poll", !.on = d, !.seen = device[d]]
  OBVIOUS
<1>2. row = [pc |-> "poll", op |-> "poll", as |-> Nobody, admin |-> FALSE, with |-> "none",
             on |-> d, seen |-> device[d], late |-> FALSE]
  BY <1>1, NewPollIs
<1>3. "poll" \in CallPc /\ "poll" \in CallOp /\ device[d] \in DeviceRow
  BY DEF CallPc, CallOp, AccountsInv, DevicesTyped
<1>4. row \in CallRow
  BY <1>2, <1>3 DEF CallRow
<1>5. row.pc = "poll" /\ row.on = d
  BY <1>2
<1>6. /\ call' = [call EXCEPT ![c] = row]
      /\ UNCHANGED <<user, session, invitation, device, grant, created, tokens>>
  BY <1>1 DEF Poll, accountTables
<1> QED BY <1>4, <1>5, <1>6, JustReads

LEMMA CliAskSound ==
  ASSUME AccountsInv, NEW c \in Caller, NEW d \in Device, NEW op \in {"messages", "revoke"},
         CliAsk(c, d, op)
  PROVE  AccountsInv'
<1>1. PICK p \in {"act", "snapshot"} : p = IF op = "revoke" THEN "act" ELSE "snapshot"
  OBVIOUS
<1>2. PICK o \in {"ungrant", "messages"} : o = IF op = "revoke" THEN "ungrant" ELSE op
  OBVIOUS
<1>3. PICK a \in Account : a = grant[d].owner /\ Known(a) /\ grant[d].state # "none"
  BY ActiveKnown DEF CliAsk, Active, GrantLives
<1>4. PICK row : row = [NoCallYet EXCEPT !.pc = p, !.op = o, !.on = d, !.as = a]
  OBVIOUS
<1>5. row = [pc |-> p, op |-> o, as |-> a, admin |-> FALSE, with |-> "none", on |-> d,
             seen |-> NoDevice, late |-> FALSE]
  BY <1>4, Zenon DEF NoCallYet
<1>6. p \in CallPc /\ o \in CallOp /\ NoDevice \in DeviceRow
  BY NoRowsTyped DEF CallPc, CallOp, DeviceOps
<1>7. row \in CallRow
  BY <1>5, <1>6 DEF CallRow
<1>8. row.pc = p /\ row.on = d /\ row.as = a /\ ~row.late
  BY <1>5
<1>9. /\ call' = [call EXCEPT ![c] = row]
      /\ UNCHANGED <<user, session, invitation, device, grant, created, tokens>>
  BY <1>1, <1>2, <1>3, <1>4 DEF CliAsk, accountTables
<1> QED BY <1>1, <1>3, <1>7, <1>8, <1>9, JustReads

LEMMA ReadGrantedSound ==
  ASSUME AccountsInv, NEW c \in Caller, ReadGranted(c)
  PROVE  AccountsInv'
<1>0. /\ UNCHANGED <<user, session, invitation, device, grant, created, tokens>>
      /\ CallsTyped /\ CallSound(c) /\ call[c] \in CallRow /\ call[c].pc = "snapshot"
  BY DEF ReadGranted, accountTables, AccountsInv, At, CallsTyped
<1>1. CASE call' = [call EXCEPT ![c] = NoCallYet]
  BY <1>0, <1>1, JustQuits
<1>2. CASE call' = [call EXCEPT ![c] = [call[c] EXCEPT !.pc = "again",
              !.late = ~GrantLives(call[c].on) \/ ~Active(grant[call[c].on].owner)]]
  <2>1. PICK late \in BOOLEAN : late = (~GrantLives(call[c].on) \/ ~Active(grant[call[c].on].owner))
    OBVIOUS
  <2>2. PICK row : row = [call[c] EXCEPT !.pc = "again", !.late = late]
    OBVIOUS
  <2>3. "again" \in CallPc
    BY DEF CallPc
  <2>4. row \in CallRow /\ row.pc = "again" /\ row.on = call[c].on /\ row.late = late
    BY <1>0, <2>2, <2>3 DEF CallRow
  <2>5. call' = [call EXCEPT ![c] = row]
    BY <1>2, <2>1, <2>2
  <2>6. call[c].on \in Device /\ grant[call[c].on].state # "none"
    BY <1>0 DEF CallSound
  <2> QED BY <1>0, <2>1, <2>4, <2>5, <2>6, JustReads
<1> QED BY <1>1, <1>2 DEF ReadGranted

LEMMA AnswerSound ==
  ASSUME AccountsInv, NEW c \in Caller,
         ResolveAgain(c) \/ \E again \in BOOLEAN : AnswerCli(c, again)
  PROVE  AccountsInv'
<1>0. /\ UNCHANGED <<user, session, invitation, device, grant, created, tokens>>
      /\ CallsTyped /\ CallSound(c) /\ call[c] \in CallRow /\ call[c].pc \in {"again", "served"}
  BY DEF ResolveAgain, AnswerCli, accountTables, AccountsInv, At, CallsTyped
<1>1. call[c].on \in Device /\ grant[call[c].on].state # "none"
  BY <1>0 DEF CallSound
<1>2. CASE call' = [call EXCEPT ![c] = NoCallYet]
  BY <1>0, <1>2, JustQuits
<1>3. ASSUME NEW pc \in {"snapshot", "served"}, pc = "served" => ~call[c].late,
             call' = [call EXCEPT ![c] = [call[c] EXCEPT !.pc = pc]]
      PROVE  AccountsInv'
  <2>1. pc \in CallPc /\ Turn(c, pc)
    BY <1>3 DEF CallPc, Turn
  <2>2. PICK row \in CallRow :
           /\ call' = [call EXCEPT ![c] = row] /\ row.pc = pc /\ row.late = call[c].late
           /\ row.on = call[c].on
    BY <1>0, <2>1, TurnIs
  <2> QED BY <1>0, <1>1, <1>3, <2>2, JustReads
<1>4. CASE ResolveAgain(c)
  <2>1. GrantAlive(call[c].on) => ~call[c].late
    BY <1>0, <1>4 DEF CallSound, GrantAlive, At, ResolveAgain
  <2> QED BY <1>2, <1>3, <1>4, <2>1 DEF ResolveAgain
<1>5. CASE \E again \in BOOLEAN : AnswerCli(c, again)
  BY <1>2, <1>3, <1>5 DEF AnswerCli
<1> QED BY <1>4, <1>5

(***************************************************************************)
(* Requests that write                                                     *)
(***************************************************************************)
\* Who was known stays known, whoever else becomes an account.
LEMMA KnownStays ==
  ASSUME OwnersKnown, UsersAge, UNCHANGED <<session, grant>>
  PROVE  OwnersKnown'
  BY DEF OwnersKnown, Known, UsersAge

LEMMA BucketSound ==
  ASSUME AccountsInv, NEW c \in Caller, RecordLoginFailure(c) \/ RecordLoginSuccess(c)
  PROVE  AccountsInv'
  BY JustQuits DEF RecordLoginFailure, RecordLoginSuccess

\* claim_invitation_for_registration and the account it makes, in one transaction.
LEMMA RegisterSound ==
  ASSUME AccountsInv, NEW c \in Caller, NEW i \in Invitation, NEW e \in Email, NEW a \in Account,
         Register(c, i, e, a)
  PROVE  AccountsInv'
<1>0. /\ user[a].state = "none" /\ invitation[i].state = "open"
      /\ user' = [user EXCEPT ![a] = NewUser(invitation[i].role, e)]
      /\ invitation' = [invitation EXCEPT ![i].state = "accepted"]
      /\ created' = [created EXCEPT ![i] = created[i] + 1]
      /\ UNCHANGED <<session, device, grant, tokens>>
      /\ UsersTyped /\ SessionsTyped /\ InvitationsTyped /\ DevicesTyped /\ OwnersKnown
      /\ InvitationsCounted /\ DevicesCounted
  BY DEF Register, Claimable, AccountsInv
<1>1. NewUser(invitation[i].role, e) \in UserRow
  <2>1. invitation[i].role \in {"user", "admin"}
    BY <1>0 DEF InvitationsTyped, InvitationRow
  <2> QED BY <2>1 DEF NewUser, UserRow
<1>2. UsersTyped'
  BY <1>0, <1>1 DEF UsersTyped
<1>3. UsersAge
  BY <1>0 DEF UsersAge, UsersTyped
<1>4. created[i] = 0
  BY <1>0 DEF InvitationsCounted
<1>5. /\ invitation' \in [Invitation -> InvitationRow] /\ invitation'[i].state = "accepted"
      /\ \A k \in Invitation \ {i} : invitation'[k] = invitation[k]
  BY <1>0 DEF InvitationsTyped, InvitationRow
<1>6. /\ created' \in [Invitation -> Nat] /\ created'[i] = 1
      /\ \A k \in Invitation \ {i} : created'[k] = created[k]
  BY <1>0, <1>4 DEF InvitationsTyped
<1>7. InvitationsTyped' /\ InvitationsCounted'
  BY <1>0, <1>5, <1>6 DEF InvitationsTyped, InvitationsCounted
<1>8. /\ SessionsTyped' /\ DevicesTyped' /\ DevicesCounted' /\ OwnersKnown'
      /\ Ages /\ HoldersKept(c)
  <2>1. OwnersKnown'
    BY <1>0, <1>3, KnownStays
  <2> QED BY <1>0, <1>3, <2>1 DEF SessionsTyped, DevicesTyped, DevicesCounted, Ages, SessionsAge,
             GrantsAge, HoldersKept
<1>9. PICK row \in CallRow : /\ row = [NoCallYet EXCEPT !.pc = "verify", !.op = "register", !.with = e]
                             /\ row.pc = "verify"
  BY LoginBegins
<1>10. call' = [call EXCEPT ![c] = row] /\ call'[c] = row
  BY <1>9 DEF Register, AccountsInv, CallsTyped
<1>11. CallSound(c)'
  BY <1>9, <1>10 DEF CallSound, HolderIssues
<1> QED BY <1>2, <1>7, <1>8, <1>10, <1>11, CallerStep

\* One table changed: the session rows.
LEMMA SessionsEdited ==
  ASSUME AccountsInv, NEW c, SessionsTyped', SessionsAge,
         \A s \in Session : session'[s].state # "none" /\ session[s].state = "none"
                              => Known(session'[s].owner),
         UNCHANGED <<user, invitation, device, grant, created, tokens>>
  PROVE  /\ Ages /\ HoldersKept(c)
         /\ UsersTyped' /\ SessionsTyped' /\ InvitationsTyped' /\ DevicesTyped'
         /\ InvitationsCounted' /\ DevicesCounted' /\ OwnersKnown'
<1>1. OwnersKnown'
  <2>1. \A s \in Session : session'[s].state # "none" => Known(session'[s].owner)
    BY DEF AccountsInv, OwnersKnown, SessionsAge
  <2>2. \A d \in Device : grant[d].state # "none" => Known(grant[d].owner)
    BY DEF AccountsInv, OwnersKnown
  <2> QED BY <2>1, <2>2 DEF OwnersKnown, Known
<1> QED BY <1>1 DEF AccountsInv, UsersTyped, InvitationsTyped, DevicesTyped, InvitationsCounted,
           DevicesCounted, Ages, UsersAge, GrantsAge, HoldersKept

LEMMA OpenSessionSound ==
  ASSUME AccountsInv, NEW c \in Caller, NEW s \in Session, OpenSession(c, s)
  PROVE  AccountsInv'
<1> DEFINE a == call[c].as
<1>0. /\ session[s].state = "none" /\ session' = [session EXCEPT ![s] = NewSession(a)]
      /\ UNCHANGED <<user, invitation, device, grant, created, tokens>>
      /\ CallsTyped /\ CallSound(c) /\ call[c].pc = "open" /\ SessionsTyped
  BY DEF OpenSession, AccountsInv, At
<1>1. Known(a) /\ a \in Account
  BY <1>0 DEF CallSound, Known
<1>2. NewSession(a) \in SessionRow /\ NewSession(a).owner = a
  BY <1>1 DEF NewSession, SessionRow
<1>3. /\ SessionsTyped' /\ session'[s].owner = a
      /\ \A t \in Session \ {s} : session'[t] = session[t]
  BY <1>0, <1>2 DEF SessionsTyped
<1>4. /\ SessionsAge
      /\ \A t \in Session : session'[t].state # "none" /\ session[t].state = "none"
                              => Known(session'[t].owner)
  BY <1>0, <1>1, <1>3 DEF SessionsAge
<1>5. /\ Ages /\ HoldersKept(c)
      /\ UsersTyped' /\ SessionsTyped' /\ InvitationsTyped' /\ DevicesTyped'
      /\ InvitationsCounted' /\ DevicesCounted' /\ OwnersKnown'
  BY <1>0, <1>3, <1>4, SessionsEdited
<1>6. CASE call' = [call EXCEPT ![c] = NoCallYet]
  BY <1>5, <1>6, CallerQuits
<1>7. CASE call' = [call EXCEPT ![c] = [call[c] EXCEPT !.pc = "clear"]]
  <2>1. Turn(c, "clear") /\ "clear" \in CallPc
    BY <1>7 DEF Turn, CallPc
  <2>2. PICK row \in CallRow : call' = [call EXCEPT ![c] = row] /\ call'[c] = row /\ row.pc = "clear"
    BY <1>0, <2>1, TurnIs
  <2>3. CallSound(c)'
    BY <2>2 DEF CallSound, HolderIssues
  <2> QED BY <1>5, <2>2, <2>3, CallerStep
<1> QED BY <1>6, <1>7 DEF OpenSession

LEMMA RevokedSound ==
  ASSUME AccountsInv, NEW c, NEW s, NEW a, session' = Revoked(s, a) \/ UNCHANGED session,
         UNCHANGED <<user, invitation, device, grant, created, tokens>>
  PROVE  /\ Ages /\ HoldersKept(c)
         /\ UsersTyped' /\ SessionsTyped' /\ InvitationsTyped' /\ DevicesTyped'
         /\ InvitationsCounted' /\ DevicesCounted' /\ OwnersKnown'
<1>1. session \in [Session -> SessionRow]
  BY DEF AccountsInv, SessionsTyped
<1>2. CASE UNCHANGED session
  BY <1>2, TablesSame
<1>3. CASE session[s].state = "live" /\ session' = [session EXCEPT ![s].state = "revoked"]
  <2>1. session' \in [Session -> SessionRow]
    BY <1>1, <1>3 DEF SessionRow
  <2>2. \A t \in Session : /\ session'[t].owner = session[t].owner /\ session'[t].over = session[t].over
                           /\ session'[t] = session[t] \/ (t = s /\ session'[t].state = "revoked")
    BY <1>1, <1>3 DEF SessionRow
  <2>3. SessionsAge
    BY <2>2 DEF SessionsAge
  <2>4. \A t \in Session : ~(session'[t].state # "none" /\ session[t].state = "none")
    BY <1>3, <2>2
  <2> QED BY <2>1, <2>3, <2>4, SessionsEdited DEF SessionsTyped
<1> QED BY <1>2, <1>3 DEF Revoked

LEMMA ResolveSessionSound ==
  ASSUME AccountsInv, NEW c \in Caller, ResolveSession(c)
  PROVE  AccountsInv'
<1> DEFINE s == call[c].with
<1>0. /\ UNCHANGED <<user, invitation, device, grant, created, tokens>>
      /\ CallsTyped /\ CallSound(c) /\ call[c].pc = "session" /\ OwnersKnown
  BY DEF ResolveSession, AccountsInv, At
<1>1. session' = Revoked(s, session[s].owner) \/ UNCHANGED session
  BY DEF ResolveSession
<1>2. /\ Ages /\ HoldersKept(c)
      /\ UsersTyped' /\ SessionsTyped' /\ InvitationsTyped' /\ DevicesTyped'
      /\ InvitationsCounted' /\ DevicesCounted' /\ OwnersKnown'
  BY <1>0, <1>1, RevokedSound
<1>3. CASE call' = [call EXCEPT ![c] = NoCallYet]
  BY <1>2, <1>3, CallerQuits
<1>4. CASE session[s].state = "live" /\ ~session[s].over /\ Turn(c, "account")
  <2>1. "account" \in CallPc
    BY DEF CallPc
  <2>2. PICK row \in CallRow :
           /\ call' = [call EXCEPT ![c] = row] /\ call'[c] = row /\ row.pc = "account"
           /\ row.with = s /\ row.late = call[c].late /\ row.op = call[c].op /\ row.on = call[c].on
    BY <1>0, <1>4, <2>1, TurnIs
  <2>3. s \in Session /\ session[s].state # "none" /\ session' = session
    BY <1>0, <1>4 DEF CallSound, ResolveSession
  <2>4. call[c].late => ~Active(session[s].owner)
    BY <1>0, <1>4 DEF CallSound, SessionAlive
  <2>5. PICK t \in Session : t = call[c].with
    BY <2>3
  <2>6. call[c].late => ~Active(session[t].owner)'
    BY <1>0, <2>3, <2>4, <2>5 DEF Active
  <2>7. call[c].op \in DeviceOps => call[c].on \in Device
    BY <1>0 DEF CallSound
  <2>8. session'[t].state # "none" /\ call'[c].with = t /\ call'[c].late = call[c].late
    BY <2>2, <2>3, <2>5
  <2>9. CallSound(c)'
    <3>1. call'[c].late => ~Active(session[call[c].with].owner)'
      BY <2>6, <2>8
    <3> QED BY <2>2, <2>7, <2>8, <3>1 DEF CallSound, HolderIssues
  <2> QED BY <1>2, <2>2, <2>9, CallerStep
<1> QED BY <1>3, <1>4 DEF ResolveSession

LEMMA RevokeSessionSound ==
  ASSUME AccountsInv, NEW c \in Caller, RevokeSession(c)
  PROVE  AccountsInv'
<1>1. /\ session' = Revoked(call[c].on, call[c].as) /\ call' = [call EXCEPT ![c] = NoCallYet]
      /\ UNCHANGED <<user, invitation, device, grant, created, tokens>>
  BY DEF RevokeSession, Done
<1> QED BY <1>1, RevokedSound, CallerQuits

\* The invitations change, and no account is made.
LEMMA InvitationsEdited ==
  ASSUME AccountsInv, NEW c, NEW i, NEW row \in InvitationRow,
         i \in Invitation => (invitation[i].state = "accepted" <=> row.state = "accepted"),
         invitation' = [invitation EXCEPT ![i] = row],
         UNCHANGED <<user, session, device, grant, created, tokens>>
  PROVE  /\ Ages /\ HoldersKept(c)
         /\ UsersTyped' /\ SessionsTyped' /\ InvitationsTyped' /\ DevicesTyped'
         /\ InvitationsCounted' /\ DevicesCounted' /\ OwnersKnown'
<1>1. InvitationsTyped' /\ InvitationsCounted'
  <2>1. invitation \in [Invitation -> InvitationRow] /\ created \in [Invitation -> Nat] /\ InvitationsCounted
    BY DEF AccountsInv, InvitationsTyped
  <2>2. invitation' \in [Invitation -> InvitationRow]
    BY <2>1
  <2>3. \A k \in Invitation : invitation[k].state = "accepted" <=> invitation'[k].state = "accepted"
    BY <2>1
  <2> QED BY <2>1, <2>2, <2>3 DEF InvitationsTyped, InvitationsCounted
<1> QED BY <1>1 DEF AccountsInv, UsersTyped, SessionsTyped, DevicesTyped, DevicesCounted, OwnersKnown,
           Known, Ages, UsersAge, SessionsAge, GrantsAge, HoldersKept

LEMMA InviteSound ==
  ASSUME AccountsInv, NEW c \in Caller, NEW role \in {"user", "admin"},
         CreateInvitation(c, role) \/ RevokeInvitation(c)
  PROVE  AccountsInv'
<1> DEFINE i == call[c].on
<1>0. /\ call' = [call EXCEPT ![c] = NoCallYet]
      /\ UNCHANGED <<user, session, device, grant, created, tokens>>
      /\ invitation \in [Invitation -> InvitationRow]
  BY DEF CreateInvitation, RevokeInvitation, Done, AccountsInv, InvitationsTyped
<1>1. CASE CreateInvitation(c, role)
  <2>1. PICK row : row = [state |-> "open", role |-> role, over |-> FALSE]
    OBVIOUS
  <2>2. row \in InvitationRow /\ row.state = "open"
    BY <2>1 DEF InvitationRow
  <2>3. invitation[i].state = "none" /\ invitation' = [invitation EXCEPT ![i] = row]
    BY <1>1, <2>1 DEF CreateInvitation
  <2> QED BY <1>0, <2>2, <2>3, InvitationsEdited, CallerQuits
<1>2. CASE RevokeInvitation(c)
  <2>1. CASE UNCHANGED invitation
    BY <1>0, <2>1, JustQuits
  <2>2. CASE invitation[i].state = "open" /\ invitation' = [invitation EXCEPT ![i].state = "revoked"]
    <3>1. CASE i \in Invitation
      <4>1. PICK row : row = [invitation[i] EXCEPT !.state = "revoked"]
        OBVIOUS
      <4>2. row \in InvitationRow /\ row.state = "revoked"
        BY <1>0, <3>1, <4>1 DEF InvitationRow
      <4>3. invitation' = [invitation EXCEPT ![i] = row]
        BY <2>2, <4>1
      <4> QED BY <1>0, <2>2, <4>2, <4>3, InvitationsEdited, CallerQuits
    <3>2. CASE i \notin Invitation
      <4>1. invitation' = invitation
        BY <1>0, <2>2, <3>2
      <4> QED BY <1>0, <4>1, JustQuits
    <3> QED BY <3>1, <3>2
  <2> QED BY <1>2, <2>1, <2>2 DEF RevokeInvitation
<1> QED BY <1>1, <1>2

\* Accounts change, none comes back and none is made.
LEMMA UsersEdited ==
  ASSUME AccountsInv, NEW c, UsersTyped', UsersAge, UNCHANGED <<session, invitation, device, grant, created, tokens>>
  PROVE  /\ Ages /\ HoldersKept(c)
         /\ UsersTyped' /\ SessionsTyped' /\ InvitationsTyped' /\ DevicesTyped'
         /\ InvitationsCounted' /\ DevicesCounted' /\ OwnersKnown'
<1>1. OwnersKnown'
  BY KnownStays DEF AccountsInv
<1> QED BY <1>1 DEF AccountsInv, SessionsTyped, InvitationsTyped, DevicesTyped, InvitationsCounted,
           DevicesCounted, Ages, SessionsAge, GrantsAge, HoldersKept

LEMMA SetRoleSound ==
  ASSUME AccountsInv, NEW c \in Caller, NEW role \in {"user", "admin"}, SetRole(c, role)
  PROVE  AccountsInv'
<1>0. /\ call' = [call EXCEPT ![c] = NoCallYet]
      /\ UNCHANGED <<session, invitation, device, grant, created, tokens>>
      /\ user \in [Account -> UserRow]
  BY DEF SetRole, Done, AccountsInv, UsersTyped
<1>1. CASE UNCHANGED user
  BY <1>0, <1>1, JustQuits
<1>2. CASE user' = [user EXCEPT ![call[c].on].role = role]
  <2>1. user' \in [Account -> UserRow] /\ \A a \in Account : user'[a].state = user[a].state
    BY <1>0, <1>2 DEF UserRow
  <2>2. UsersTyped' /\ UsersAge
    BY <2>1 DEF UsersTyped, UsersAge
  <2> QED BY <1>0, <2>2, UsersEdited, CallerQuits
<1> QED BY <1>1, <1>2 DEF SetRole

LEMMA DeleteSound ==
  ASSUME AccountsInv, NEW c \in Caller, DeleteAccount(c)
  PROVE  AccountsInv'
<1> DEFINE a == Leaving(c)
<1>0. /\ call' = [call EXCEPT ![c] = NoCallYet]
      /\ session' = [s \in Session |-> IF session[s].owner = a /\ session[s].state # "none"
                                       THEN [session[s] EXCEPT !.state = "gone"] ELSE session[s]]
      /\ user' = [user EXCEPT ![a] = DeletedUser]
      /\ UNCHANGED <<invitation, device, grant, created, tokens>>
      /\ user \in [Account -> UserRow] /\ session \in [Session -> SessionRow] /\ OwnersKnown
  BY DEF DeleteAccount, Done, AccountsInv, UsersTyped, SessionsTyped
<1>1. DeletedUser \in UserRow /\ DeletedUser.state = "deleted"
  BY DEF DeletedUser, UserRow
<1> HIDE DEF a
<1>2. UsersTyped' /\ UsersAge
  BY <1>0, <1>1 DEF UsersTyped, UsersAge
<1>3. \A s \in Session :
        /\ session'[s] \in SessionRow /\ session'[s].owner = session[s].owner
        /\ session'[s].over = session[s].over
        /\ \/ session'[s].state = session[s].state
           \/ session[s].state # "none" /\ session'[s].state = "gone"
  <2> SUFFICES ASSUME NEW s \in Session
               PROVE  /\ session'[s] \in SessionRow /\ session'[s].owner = session[s].owner
                      /\ session'[s].over = session[s].over
                      /\ \/ session'[s].state = session[s].state
                         \/ session[s].state # "none" /\ session'[s].state = "gone"
    OBVIOUS
  <2>1. CASE session[s].owner = a /\ session[s].state # "none"
    <3>1. session'[s] = [session[s] EXCEPT !.state = "gone"] /\ session[s] \in SessionRow
      BY <1>0, <2>1
    <3> QED BY <2>1, <3>1 DEF SessionRow
  <2>2. CASE ~(session[s].owner = a /\ session[s].state # "none")
    BY <1>0, <2>2
  <2> QED BY <2>1, <2>2
<1>4. SessionsTyped'
  <2>1. session' = [s \in Session |-> session'[s]]
    BY <1>0
  <2> QED BY <1>3, <2>1 DEF SessionsTyped
<1>5. SessionsAge
  BY <1>3 DEF SessionsAge
<1>6. OwnersKnown'
  <2>1. \A u : Known(u) => Known(u)'
    BY <1>2 DEF Known, UsersAge
  <2>2. \A s \in Session : session'[s].state # "none" => Known(session[s].owner)
    BY <1>0, <1>3 DEF OwnersKnown
  <2>3. ASSUME NEW s \in Session, session'[s].state # "none" PROVE Known(session[s].owner)'
    <3>1. PICK u : u = session[s].owner /\ u = session'[s].owner
      BY <1>3
    <3>2. Known(u)'
      BY <2>1, <2>2, <2>3, <3>1
    <3> QED BY <3>1, <3>2
  <2>4. ASSUME NEW d \in Device, grant'[d].state # "none" PROVE Known(grant[d].owner)'
    <3>1. PICK u : u = grant[d].owner /\ u = grant'[d].owner
      BY <1>0
    <3>2. Known(u)'
      BY <1>0, <2>1, <2>4, <3>1 DEF OwnersKnown
    <3> QED BY <3>1, <3>2
  <2> QED BY <2>3, <2>4 DEF OwnersKnown
<1>7. /\ Ages /\ HoldersKept(c) /\ InvitationsTyped' /\ DevicesTyped'
      /\ InvitationsCounted' /\ DevicesCounted'
  BY <1>0, <1>2, <1>5 DEF Ages, GrantsAge, HoldersKept, AccountsInv, InvitationsTyped, DevicesTyped,
     InvitationsCounted, DevicesCounted
<1> QED BY <1>0, <1>2, <1>4, <1>6, <1>7, CallerQuits

(***************************************************************************)
(* Devices                                                                 *)
(***************************************************************************)
\* Rows that a step of request c may give device d and its grant, with n tokens handed out.
DeviceMay(c, d, drow, grow, n) ==
  /\ drow \in DeviceRow /\ grow \in GrantRow /\ n \in Nat
  /\ n = IF drow.status = "redeemed" THEN 1 ELSE 0
  /\ drow.holder # Nobody => drow.status = "approved"
  /\ grow.state # "none" <=> drow.status \in {"approved", "redeemed"}
  /\ grow.state # "none" => grow.owner = drow.reviewer /\ Known(grow.owner)
  /\ grant[d].state # "none" => /\ grow.state # "none" /\ grow.owner = grant[d].owner
                                /\ grant[d].over => grow.over
                                /\ grant[d].state # "live" => grow.state # "live"
  /\ device[d].holder \notin {Nobody, c} =>
        drow.status = device[d].status /\ drow.holder = device[d].holder

\* One device and its grant change.
LEMMA DeviceEdited ==
  ASSUME AccountsInv, NEW c, NEW d \in Device, NEW drow, NEW grow, NEW n, DeviceMay(c, d, drow, grow, n),
         device' = [device EXCEPT ![d] = drow], grant' = [grant EXCEPT ![d] = grow],
         tokens' = [tokens EXCEPT ![d] = n], UNCHANGED <<user, session, invitation, created>>
  PROVE  /\ Ages /\ HoldersKept(c)
         /\ UsersTyped' /\ SessionsTyped' /\ InvitationsTyped' /\ DevicesTyped'
         /\ InvitationsCounted' /\ DevicesCounted' /\ OwnersKnown'
<1> USE DEF DeviceMay
<1>0. /\ device \in [Device -> DeviceRow] /\ grant \in [Device -> GrantRow]
      /\ tokens \in [Device -> Nat] /\ DevicesCounted /\ OwnersKnown
  BY DEF AccountsInv, DevicesTyped
<1>1. /\ device'[d] = drow /\ grant'[d] = grow /\ tokens'[d] = n
      /\ \A k \in Device \ {d} : device'[k] = device[k] /\ grant'[k] = grant[k] /\ tokens'[k] = tokens[k]
  BY <1>0
<1>2. DevicesTyped'
  BY <1>0 DEF DevicesTyped
<1>3. DevicesCounted'
  <2> SUFFICES ASSUME NEW k \in Device
               PROVE  /\ tokens'[k] = IF device'[k].status = "redeemed" THEN 1 ELSE 0
                      /\ grant'[k].state # "none" <=> device'[k].status \in {"approved", "redeemed"}
                      /\ grant'[k].state # "none" => grant'[k].owner = device'[k].reviewer
                      /\ device'[k].holder # Nobody => device'[k].status = "approved"
    BY DEF DevicesCounted
  <2>1. CASE k = d
    BY <1>1, <2>1
  <2>2. CASE k # d
    BY <1>0, <1>1, <2>2 DEF DevicesCounted
  <2> QED BY <2>1, <2>2
<1>4. OwnersKnown'
  <2>1. \A k \in Device : grant'[k].state # "none" => Known(grant'[k].owner)
    BY <1>0, <1>1 DEF OwnersKnown
  <2>2. \A s \in Session : session[s].state # "none" => Known(session[s].owner)
    BY <1>0 DEF OwnersKnown
  <2> QED BY <2>1, <2>2 DEF OwnersKnown, Known
<1>5. Ages
  <2>1. GrantsAge
    BY <1>1 DEF GrantsAge
  <2> QED BY <2>1 DEF Ages, UsersAge, SessionsAge
<1>6. HoldersKept(c)
  BY <1>1 DEF HoldersKept
<1> QED BY <1>2, <1>3, <1>4, <1>5, <1>6 DEF AccountsInv, UsersTyped, SessionsTyped, InvitationsTyped,
           InvitationsCounted

\* Only the device's own row changes, and neither its status nor, where it has a grant, its
\* reviewer.
LEMMA RowEdited ==
  ASSUME AccountsInv, NEW c, NEW d \in Device, NEW drow \in DeviceRow,
         device' = [device EXCEPT ![d] = drow], drow.status = device[d].status,
         grant[d].state # "none" => drow.reviewer = device[d].reviewer,
         device[d].holder \notin {Nobody, c} => drow.holder = device[d].holder,
         drow.holder \in {device[d].holder, Nobody} \/ drow.status = "approved",
         UNCHANGED <<user, session, invitation, created, grant, tokens>>
  PROVE  /\ Ages /\ HoldersKept(c)
         /\ UsersTyped' /\ SessionsTyped' /\ InvitationsTyped' /\ DevicesTyped'
         /\ InvitationsCounted' /\ DevicesCounted' /\ OwnersKnown'
<1>0. /\ device \in [Device -> DeviceRow] /\ grant \in [Device -> GrantRow]
      /\ tokens \in [Device -> Nat] /\ DevicesCounted /\ OwnersKnown
  BY DEF AccountsInv, DevicesTyped
<1>1. /\ grant[d] \in GrantRow /\ tokens[d] \in Nat
      /\ grant' = [grant EXCEPT ![d] = grant[d]] /\ tokens' = [tokens EXCEPT ![d] = tokens[d]]
  BY <1>0
<1>2. /\ tokens[d] = IF drow.status = "redeemed" THEN 1 ELSE 0
      /\ grant[d].state # "none" <=> drow.status \in {"approved", "redeemed"}
      /\ grant[d].state # "none" => grant[d].owner = drow.reviewer /\ Known(grant[d].owner)
      /\ drow.holder # Nobody => drow.status = "approved"
  BY <1>0 DEF DevicesCounted, OwnersKnown
<1>3. DeviceMay(c, d, drow, grant[d], tokens[d])
  BY <1>1, <1>2 DEF DeviceMay
<1> QED BY <1>1, <1>3, DeviceEdited, Zenon

LEMMA PolledIs ==
  ASSUME NEW r \in DeviceRow, NEW y, y = [r EXCEPT !.version = r.version + 1, !.slow = TRUE]
  PROVE  /\ y \in DeviceRow /\ y.status = r.status /\ y.reviewer = r.reviewer /\ y.holder = r.holder
<1>1. r.version + 1 \in Nat
  BY DEF DeviceRow
<1>2. PICK v \in Nat : v = r.version + 1
  BY <1>1
<1>3. y = [r EXCEPT !.version = v, !.slow = TRUE]
  BY <1>2
<1> QED BY <1>3 DEF DeviceRow

LEMMA ReviewSound ==
  ASSUME AccountsInv, NEW c \in Caller, Review(c)
  PROVE  AccountsInv'
<1> DEFINE d == call[c].on
<1>0. /\ call' = [call EXCEPT ![c] = NoCallYet] /\ call[c] \in CallRow
      /\ UNCHANGED <<user, session, invitation, created, grant, tokens>>
      /\ device \in [Device -> DeviceRow] /\ DevicesCounted
  BY DEF Review, Done, AccountsInv, DevicesTyped, CallsTyped
<1>1. CASE UNCHANGED device
  BY <1>0, <1>1, JustQuits
<1>2. CASE OpenCode(d) /\ device' = [device EXCEPT ![d].reviewer = call[c].as]
  <2>1. d \in Device
    BY DEF Review, Does, At, DeviceOps, AccountsInv, CallSound
  <2>2. PICK row : row = [device[d] EXCEPT !.reviewer = call[c].as]
    OBVIOUS
  <2>3. call[c].as \in Account \cup {Nobody}
    BY <1>0 DEF CallRow
  <2>4. row \in DeviceRow /\ row.status = device[d].status /\ row.holder = device[d].holder
    BY <1>0, <2>1, <2>2, <2>3 DEF DeviceRow
  <2>5. device' = [device EXCEPT ![d] = row] /\ grant[d].state = "none"
    BY <1>0, <1>2, <2>1, <2>2 DEF OpenCode, DevicesCounted
  <2>6. /\ Ages /\ HoldersKept(c)
        /\ UsersTyped' /\ SessionsTyped' /\ InvitationsTyped' /\ DevicesTyped'
        /\ InvitationsCounted' /\ DevicesCounted' /\ OwnersKnown'
    BY <1>0, <2>1, <2>4, <2>5, RowEdited
  <2> QED BY <1>0, <2>6, CallerQuits
<1> QED BY <1>1, <1>2 DEF Review

LEMMA DecideSound ==
  ASSUME AccountsInv, NEW c \in Caller, NEW approve \in BOOLEAN, Decide(c, approve)
  PROVE  AccountsInv'
<1>0. /\ call' = [call EXCEPT ![c] = NoCallYet] /\ call[c] \in CallRow
      /\ UNCHANGED <<user, session, invitation, created, tokens>> /\ device[call[c].on].holder = Nobody
      /\ device \in [Device -> DeviceRow] /\ grant \in [Device -> GrantRow]
      /\ tokens \in [Device -> Nat] /\ DevicesCounted
  BY DEF Decide, Done, AccountsInv, DevicesTyped, CallsTyped
<1>1. CASE UNCHANGED <<device, grant>>
  BY <1>0, <1>1, JustQuits
<1>2. CASE Decides(c, approve)
  <2>1. PICK d \in Device : d = call[c].on
    BY DEF Decide, Does, At, DeviceOps, AccountsInv, CallSound
  <2>2. PICK a \in Account : a = call[c].as /\ Known(a) /\ a = device[d].reviewer
    BY <1>2, <2>1 DEF Decide, Does, At, AccountsInv, CallSound, Known, Decides
  <2>3. /\ device[d].status = "pending" /\ grant[d].state = "none" /\ tokens[d] = 0
    BY <1>0, <1>2, <2>1 DEF Decides, OpenCode, DevicesCounted
  <2>4. PICK st \in {"approved", "denied"} : st = IF approve THEN "approved" ELSE "denied"
    OBVIOUS
  <2>5. PICK row : row = [device[d] EXCEPT !.status = st]
    OBVIOUS
  <2>6. row \in DeviceRow /\ row.status = st /\ row.reviewer = a /\ row.holder = Nobody
    BY <1>0, <2>1, <2>2, <2>5 DEF DeviceRow
  <2>7. device' = [device EXCEPT ![d] = row]
    BY <1>2, <2>1, <2>4, <2>5 DEF Decide
  <2>8. PICK grow \in GrantRow :
          /\ grant' = [grant EXCEPT ![d] = grow]
          /\ grow.state # "none" <=> approve
          /\ approve => grow.owner = a
    <3>1. CASE approve
      <4>1. PICK g : g = NewGrant(a)
        OBVIOUS
      <4>2. g = [owner |-> a, state |-> "live", over |-> FALSE, token |-> FALSE]
        BY <4>1 DEF NewGrant, NoGrant
      <4>3. g \in GrantRow /\ g.state = "live" /\ g.owner = a
        BY <4>2 DEF GrantRow
      <4>4. grant' = [grant EXCEPT ![d] = g]
        BY <1>2, <2>1, <2>2, <3>1, <4>1 DEF Decide
      <4> QED BY <3>1, <4>3, <4>4
    <3>2. CASE ~approve
      <4>1. grant' = [grant EXCEPT ![d] = grant[d]] /\ grant[d] \in GrantRow
        BY <1>0, <1>2, <3>2 DEF Decide
      <4> QED BY <2>3, <3>2, <4>1
    <3> QED BY <3>1, <3>2
  <2>9. tokens' = [tokens EXCEPT ![d] = tokens[d]] /\ tokens[d] \in Nat
    BY <1>0
  <2>10. /\ tokens[d] = IF row.status = "redeemed" THEN 1 ELSE 0
         /\ grow.state # "none" <=> row.status \in {"approved", "redeemed"}
         /\ grow.state # "none" => grow.owner = row.reviewer /\ Known(grow.owner)
    BY <2>2, <2>3, <2>4, <2>6, <2>8
  <2>a. DeviceMay(c, d, row, grow, tokens[d])
    BY <1>0, <2>1, <2>3, <2>6, <2>8, <2>9, <2>10 DEF DeviceMay
  <2>11. /\ Ages /\ HoldersKept(c)
         /\ UsersTyped' /\ SessionsTyped' /\ InvitationsTyped' /\ DevicesTyped'
         /\ InvitationsCounted' /\ DevicesCounted' /\ OwnersKnown'
    BY <1>0, <2>7, <2>8, <2>9, <2>a, DeviceEdited
  <2> QED BY <1>0, <2>11, CallerQuits
<1> QED BY <1>1, <1>2 DEF Decide

\* A grant changes that is there and stays there.
LEMMA GrantEdited ==
  ASSUME AccountsInv, NEW c, NEW d \in Device, NEW grow \in GrantRow,
         grant' = [grant EXCEPT ![d] = grow], grant[d].state # "none", grow.state # "none",
         grow.owner = grant[d].owner, grant[d].over => grow.over,
         grant[d].state # "live" => grow.state # "live",
         UNCHANGED <<user, session, invitation, created, device, tokens>>
  PROVE  /\ Ages /\ HoldersKept(c)
         /\ UsersTyped' /\ SessionsTyped' /\ InvitationsTyped' /\ DevicesTyped'
         /\ InvitationsCounted' /\ DevicesCounted' /\ OwnersKnown'
<1>0. /\ device \in [Device -> DeviceRow] /\ tokens \in [Device -> Nat] /\ DevicesCounted /\ OwnersKnown
  BY DEF AccountsInv, DevicesTyped
<1>1. /\ device[d] \in DeviceRow /\ tokens[d] \in Nat
      /\ device' = [device EXCEPT ![d] = device[d]] /\ tokens' = [tokens EXCEPT ![d] = tokens[d]]
  BY <1>0
<1>2. /\ tokens[d] = IF device[d].status = "redeemed" THEN 1 ELSE 0
      /\ grow.state # "none" <=> device[d].status \in {"approved", "redeemed"}
      /\ grow.state # "none" => grow.owner = device[d].reviewer /\ Known(grow.owner)
      /\ device[d].holder # Nobody => device[d].status = "approved"
  BY <1>0 DEF DevicesCounted, OwnersKnown
<1>3. DeviceMay(c, d, device[d], grow, tokens[d])
  BY <1>1, <1>2 DEF DeviceMay
<1> QED BY <1>1, <1>3, DeviceEdited, ZenonT(60)

LEMMA RevokeGrantSound ==
  ASSUME AccountsInv, NEW c \in Caller, RevokeGrant(c)
  PROVE  AccountsInv'
<1>0. /\ call' = [call EXCEPT ![c] = NoCallYet]
      /\ UNCHANGED <<user, session, invitation, created, device, tokens>>
      /\ grant \in [Device -> GrantRow]
  BY DEF RevokeGrant, Done, AccountsInv, DevicesTyped
<1>1. CASE UNCHANGED grant
  BY <1>0, <1>1, JustQuits
<1>2. CASE grant[call[c].on].state = "live" /\ grant' = [grant EXCEPT ![call[c].on].state = "revoked"]
  <2>1. PICK d \in Device : d = call[c].on
    BY DEF RevokeGrant, Does, At, DeviceOps, AccountsInv, CallSound
  <2>2. PICK row : row = [grant[d] EXCEPT !.state = "revoked"]
    OBVIOUS
  <2>3. row \in GrantRow /\ row.state = "revoked" /\ row.owner = grant[d].owner /\ row.over = grant[d].over
    BY <1>0, <2>2 DEF GrantRow
  <2>4. grant' = [grant EXCEPT ![d] = row] /\ grant[d].state = "live"
    BY <1>2, <2>1, <2>2
  <2>5. /\ Ages /\ HoldersKept(c)
        /\ UsersTyped' /\ SessionsTyped' /\ InvitationsTyped' /\ DevicesTyped'
        /\ InvitationsCounted' /\ DevicesCounted' /\ OwnersKnown'
    BY <1>0, <2>3, <2>4, GrantEdited
  <2> QED BY <1>0, <2>5, CallerQuits
<1> QED BY <1>1, <1>2 DEF RevokeGrant, GrantRevoked

\* claim_poll: only the version that was read is claimed, and the claim holds the row.
LEMMA ClaimPollSound ==
  ASSUME AccountsInv, NEW c \in Caller, ClaimPoll(c)
  PROVE  AccountsInv'
<1>0. /\ call[c] \in CallRow /\ CallsTyped /\ CallSound(c) /\ call[c].pc = "poll"
      /\ UNCHANGED <<user, session, invitation, created, grant, tokens>>
      /\ device \in [Device -> DeviceRow] /\ DevicesCounted
  BY DEF ClaimPoll, At, AccountsInv, DevicesTyped, CallsTyped
<1>1. PICK d \in Device : d = call[c].on /\ device[d].holder = Nobody
  BY <1>0 DEF CallSound, ClaimPoll
<1>2. CASE Claimed(c) /\ ~call[c].seen.slow /\ call[c].seen.status = "approved"
  <2>1. device' = [device EXCEPT ![d].holder = c] /\ Turn(c, "issue") /\ device[d].status = "approved"
    BY <1>1, <1>2 DEF ClaimPoll, Claimed
  <2>2. PICK row : row = [device[d] EXCEPT !.holder = c]
    OBVIOUS
  <2>3. row \in DeviceRow /\ row.status = device[d].status /\ row.reviewer = device[d].reviewer
        /\ row.holder = c
    BY <1>0, <2>2 DEF DeviceRow
  <2>4. device' = [device EXCEPT ![d] = row] /\ device'[d] = row
    BY <1>0, <2>1, <2>2
  <2>5. /\ Ages /\ HoldersKept(c)
        /\ UsersTyped' /\ SessionsTyped' /\ InvitationsTyped' /\ DevicesTyped'
        /\ InvitationsCounted' /\ DevicesCounted' /\ OwnersKnown'
    <3>1. row.status = "approved" /\ row \in DeviceRow
      BY <2>1, <2>3
    <3>2. device[d].holder = Nobody /\ UNCHANGED <<user, session, invitation, created, grant, tokens>>
      BY <1>0, <1>1
    <3> QED BY <2>3, <2>4, <3>1, <3>2, RowEdited
  <2>6. "issue" \in CallPc
    BY DEF CallPc
  <2>7. PICK q \in CallRow :
           /\ call' = [call EXCEPT ![c] = q] /\ call'[c] = q /\ q.pc = "issue" /\ q.on = d
    BY <1>0, <1>1, <2>1, <2>6, TurnIs
  <2>8. CallSound(c)'
    BY <2>1, <2>3, <2>4, <2>7 DEF CallSound, HolderIssues
  <2> QED BY <2>5, <2>7, <2>8, CallerStep
<1>3. CASE ~(Claimed(c) /\ ~call[c].seen.slow /\ call[c].seen.status = "approved")
  <2>1. call' = [call EXCEPT ![c] = NoCallYet]
    BY <1>3 DEF ClaimPoll
  <2>2. CASE UNCHANGED device
    BY <1>0, <2>1, <2>2, JustQuits
  <2>3. CASE device' = [device EXCEPT ![d] = [device[d] EXCEPT !.version = device[d].version + 1, !.slow = TRUE]]
    <3>1. PICK row : row = [device[d] EXCEPT !.version = device[d].version + 1, !.slow = TRUE]
      OBVIOUS
    <3>2. /\ row \in DeviceRow /\ row.status = device[d].status /\ row.reviewer = device[d].reviewer
          /\ row.holder = device[d].holder
      BY <1>0, <3>1, PolledIs
    <3>3. device' = [device EXCEPT ![d] = row]
      BY <2>3, <3>1
    <3>4. /\ Ages /\ HoldersKept(c)
          /\ UsersTyped' /\ SessionsTyped' /\ InvitationsTyped' /\ DevicesTyped'
          /\ InvitationsCounted' /\ DevicesCounted' /\ OwnersKnown'
      BY <1>0, <3>2, <3>3, RowEdited
    <3> QED BY <2>1, <3>4, CallerQuits
  <2> QED BY <1>1, <1>3, <2>2, <2>3 DEF ClaimPoll
<1> QED BY <1>2, <1>3

\* The token is issued by the request that holds the row, and the row ends up redeemed, claimed
\* in vain, or free again.
LEMMA IssueSound ==
  ASSUME AccountsInv, NEW c \in Caller, Issue(c)
  PROVE  AccountsInv'
<1>0. /\ call' = [call EXCEPT ![c] = NoCallYet]
      /\ UNCHANGED <<user, session, invitation, created>>
      /\ device \in [Device -> DeviceRow] /\ grant \in [Device -> GrantRow]
      /\ tokens \in [Device -> Nat] /\ DevicesCounted /\ OwnersKnown
  BY DEF Issue, AccountsInv, DevicesTyped
<1>1. PICK d \in Device : d = call[c].on /\ device[d].status = "approved" /\ device[d].holder = c
  BY DEF Issue, At, AccountsInv, CallSound, HolderIssues
<1>2. tokens[d] = 0 /\ grant[d].state # "none" /\ grant[d].owner = device[d].reviewer
      /\ Known(grant[d].owner)
  BY <1>0, <1>1 DEF DevicesCounted, OwnersKnown
<1>3. PICK next : next = [device[d] EXCEPT !.version = device[d].version + 1, !.slow = TRUE, !.holder = Nobody]
  OBVIOUS
<1>4. next \in DeviceRow /\ next.status = "approved" /\ next.reviewer = device[d].reviewer
      /\ next.holder = Nobody
  <2>1. PICK v \in Nat : v = device[d].version + 1
    BY <1>0 DEF DeviceRow
  <2>2. next = [device[d] EXCEPT !.version = v, !.slow = TRUE, !.holder = Nobody] /\ device[d] \in DeviceRow
    BY <1>0, <1>3, <2>1
  <2> QED BY <1>1, <2>2 DEF DeviceRow
<1>5. CASE /\ device' = [device EXCEPT ![d] = [next EXCEPT !.status = "redeemed"]]
           /\ grant' = [grant EXCEPT ![d].token = TRUE]
           /\ tokens' = [tokens EXCEPT ![d] = tokens[d] + 1]
  <2>1. PICK drow : drow = [next EXCEPT !.status = "redeemed"]
    OBVIOUS
  <2>2. drow \in DeviceRow /\ drow.status = "redeemed" /\ drow.reviewer = device[d].reviewer
        /\ drow.holder = Nobody
    BY <1>4, <2>1 DEF DeviceRow
  <2>3. PICK grow : grow = [grant[d] EXCEPT !.token = TRUE]
    OBVIOUS
  <2>4. /\ grow \in GrantRow /\ grow.state = grant[d].state /\ grow.owner = grant[d].owner
        /\ grow.over = grant[d].over
    BY <1>0, <2>3 DEF GrantRow
  <2>5. DeviceMay(c, d, drow, grow, 1)
    BY <1>1, <1>2, <2>2, <2>4 DEF DeviceMay
  <2>6. PICK n : n = tokens[d] + 1
    OBVIOUS
  <2>7. n = 1 /\ tokens' = [tokens EXCEPT ![d] = n]
    BY <1>2, <1>5, <2>6
  <2>8. device' = [device EXCEPT ![d] = drow] /\ grant' = [grant EXCEPT ![d] = grow]
        /\ tokens' = [tokens EXCEPT ![d] = 1]
    BY <1>5, <2>1, <2>3, <2>7
  <2>9. /\ Ages /\ HoldersKept(c)
        /\ UsersTyped' /\ SessionsTyped' /\ InvitationsTyped' /\ DevicesTyped'
        /\ InvitationsCounted' /\ DevicesCounted' /\ OwnersKnown'
    BY <1>0, <2>5, <2>8, DeviceEdited
  <2> QED BY <1>0, <2>9, CallerQuits
<1>6. CASE device' = [device EXCEPT ![d] = next] /\ UNCHANGED <<grant, tokens>>
  <2>1. /\ Ages /\ HoldersKept(c)
        /\ UsersTyped' /\ SessionsTyped' /\ InvitationsTyped' /\ DevicesTyped'
        /\ InvitationsCounted' /\ DevicesCounted' /\ OwnersKnown'
    BY <1>0, <1>1, <1>4, <1>6, RowEdited
  <2> QED BY <1>0, <2>1, CallerQuits
<1>7. CASE device' = [device EXCEPT ![d].holder = Nobody] /\ UNCHANGED <<grant, tokens>>
  <2>1. PICK row : row = [device[d] EXCEPT !.holder = Nobody]
    OBVIOUS
  <2>2. row \in DeviceRow /\ row.status = device[d].status /\ row.reviewer = device[d].reviewer
        /\ row.holder = Nobody
    BY <1>0, <2>1 DEF DeviceRow
  <2>3. device' = [device EXCEPT ![d] = row]
    BY <1>7, <2>1
  <2>4. /\ Ages /\ HoldersKept(c)
        /\ UsersTyped' /\ SessionsTyped' /\ InvitationsTyped' /\ DevicesTyped'
        /\ InvitationsCounted' /\ DevicesCounted' /\ OwnersKnown'
    <3>1. row.status = "approved"
      BY <1>1, <2>2
    <3>2. device[d].holder = c /\ UNCHANGED <<user, session, invitation, created, grant, tokens>>
      BY <1>0, <1>1, <1>7
    <3> QED BY <2>2, <2>3, <3>1, <3>2, RowEdited
  <2> QED BY <1>0, <2>4, CallerQuits
<1> QED BY <1>1, <1>3, <1>5, <1>6, <1>7 DEF Issue

(***************************************************************************)
(* Time, and every step                                                    *)
(***************************************************************************)
LEMMA TimePasses ==
  ASSUME AccountsInv, UNCHANGED call, Ages, HoldersKept(Nobody),
         UsersTyped', SessionsTyped', InvitationsTyped', DevicesTyped',
         InvitationsCounted', DevicesCounted', OwnersKnown'
  PROVE  AccountsInv'
<1>1. \A c \in Caller : CallSound(c)'
  <2> TAKE c \in Caller
  <2>1. Nobody # c
    BY AccountsAssumption
  <2> QED BY <2>1, CallKeeps
<1> QED BY <1>1 DEF AccountsInv, CallsTyped

LEMMA TimeSound == AccountsInv /\ AccountsTime => AccountsInv'
<1> SUFFICES ASSUME AccountsInv, AccountsTime PROVE AccountsInv'
  OBVIOUS
<1>0. /\ device \in [Device -> DeviceRow] /\ grant \in [Device -> GrantRow] /\ DevicesCounted
      /\ session \in [Session -> SessionRow] /\ invitation \in [Invitation -> InvitationRow]
  BY DEF AccountsInv, DevicesTyped, SessionsTyped, InvitationsTyped
<1>1. ASSUME NEW s \in Session, SessionEnds(s) PROVE AccountsInv'
  <2>1. /\ session[s].state = "live" /\ session' = [session EXCEPT ![s].over = TRUE]
        /\ UNCHANGED <<user, invitation, device, grant, created, tokens, call>>
    BY <1>1 DEF SessionEnds
  <2>2. session' \in [Session -> SessionRow]
    BY <1>0, <2>1 DEF SessionRow
  <2>3. \A t \in Session : /\ session'[t].state = session[t].state /\ session'[t].owner = session[t].owner
                           /\ session[t].over => session'[t].over
    BY <1>0, <2>1 DEF SessionRow
  <2>4. SessionsTyped' /\ SessionsAge
    BY <2>2, <2>3 DEF SessionsTyped, SessionsAge
  <2> QED BY <2>1, <2>3, <2>4, SessionsEdited, TimePasses
<1>2. ASSUME NEW i \in Invitation, InvitationEnds(i) PROVE AccountsInv'
  <2>1. PICK row : row = [invitation[i] EXCEPT !.over = TRUE]
    OBVIOUS
  <2>2. row \in InvitationRow /\ row.state = invitation[i].state
    BY <1>0, <2>1 DEF InvitationRow
  <2>3. /\ invitation' = [invitation EXCEPT ![i] = row]
        /\ UNCHANGED <<user, session, device, grant, created, tokens, call>>
    BY <1>2, <2>1 DEF InvitationEnds
  <2> QED BY <2>2, <2>3, InvitationsEdited, TimePasses
<1>3. ASSUME NEW d \in Device, DeviceTime(d) PROVE AccountsInv'
  <2>0. UNCHANGED <<user, session, invitation, created, tokens, call>>
    BY <1>3 DEF DeviceTime
  <2>1. ASSUME NEW row \in DeviceRow, row.status = device[d].status, row.reviewer = device[d].reviewer,
               row.holder = device[d].holder, device' = [device EXCEPT ![d] = row], UNCHANGED grant
        PROVE  AccountsInv'
    <3>1. /\ Ages /\ HoldersKept(Nobody)
          /\ UsersTyped' /\ SessionsTyped' /\ InvitationsTyped' /\ DevicesTyped'
          /\ InvitationsCounted' /\ DevicesCounted' /\ OwnersKnown'
      BY <2>0, <2>1, RowEdited
    <3> QED BY <2>0, <3>1, TimePasses
  <2>2. CASE device' = [device EXCEPT ![d].over = TRUE] /\ UNCHANGED grant
    <3>1. PICK row : row = [device[d] EXCEPT !.over = TRUE]
      OBVIOUS
    <3>2. row \in DeviceRow /\ row.status = device[d].status /\ row.reviewer = device[d].reviewer
          /\ row.holder = device[d].holder
      BY <1>0, <3>1 DEF DeviceRow
    <3>3. device' = [device EXCEPT ![d] = row]
      BY <2>2, <3>1
    <3> QED BY <2>1, <2>2, <3>2, <3>3
  <2>3. CASE device' = [device EXCEPT ![d].slow = FALSE] /\ UNCHANGED grant
    <3>1. PICK row : row = [device[d] EXCEPT !.slow = FALSE]
      OBVIOUS
    <3>2. row \in DeviceRow /\ row.status = device[d].status /\ row.reviewer = device[d].reviewer
          /\ row.holder = device[d].holder
      BY <1>0, <3>1 DEF DeviceRow
    <3>3. device' = [device EXCEPT ![d] = row]
      BY <2>3, <3>1
    <3> QED BY <2>1, <2>3, <3>2, <3>3
  <2>4. CASE GrantLives(d) /\ grant' = [grant EXCEPT ![d].over = TRUE] /\ UNCHANGED device
    <3>1. PICK row : row = [grant[d] EXCEPT !.over = TRUE]
      OBVIOUS
    <3>2. row \in GrantRow /\ row.state = grant[d].state /\ row.owner = grant[d].owner /\ row.over
      BY <1>0, <3>1 DEF GrantRow
    <3>3. grant' = [grant EXCEPT ![d] = row] /\ grant[d].state = "live"
      BY <2>4, <3>1 DEF GrantLives
    <3>4. /\ Ages /\ HoldersKept(Nobody)
          /\ UsersTyped' /\ SessionsTyped' /\ InvitationsTyped' /\ DevicesTyped'
          /\ InvitationsCounted' /\ DevicesCounted' /\ OwnersKnown'
      BY <2>0, <2>4, <3>2, <3>3, GrantEdited
    <3> QED BY <2>0, <3>4, TimePasses
  <2> QED BY <1>3, <2>2, <2>3, <2>4 DEF DeviceTime
<1>4. ASSUME NEW d \in Device, CreateDevice(d) PROVE AccountsInv'
  <2>0. /\ UNCHANGED <<user, session, invitation, created, tokens, grant, call>>
        /\ device[d].status = "none" /\ tokens \in [Device -> Nat]
    BY <1>4 DEF CreateDevice, AccountsInv, DevicesTyped
  <2>1. PICK row : row = [device[d] EXCEPT !.status = "pending"]
    OBVIOUS
  <2>2. row \in DeviceRow /\ row.status = "pending" /\ row.holder = device[d].holder
    BY <1>0, <2>1 DEF DeviceRow
  <2>3. device' = [device EXCEPT ![d] = row] /\ grant' = [grant EXCEPT ![d] = grant[d]]
        /\ tokens' = [tokens EXCEPT ![d] = tokens[d]]
    BY <1>0, <1>4, <2>0, <2>1 DEF CreateDevice
  <2>4. grant[d].state = "none" /\ tokens[d] = 0 /\ grant[d] \in GrantRow
    BY <1>0, <2>0 DEF DevicesCounted
  <2>5. device[d].holder = Nobody
    BY <1>0, <2>0 DEF DevicesCounted
  <2>6. DeviceMay(Nobody, d, row, grant[d], tokens[d])
    BY <2>2, <2>4, <2>5 DEF DeviceMay
  <2>7. /\ Ages /\ HoldersKept(Nobody)
        /\ UsersTyped' /\ SessionsTyped' /\ InvitationsTyped' /\ DevicesTyped'
        /\ InvitationsCounted' /\ DevicesCounted' /\ OwnersKnown'
    <3>1. UNCHANGED <<user, session, invitation, created>>
      BY <2>0
    <3> QED BY <2>3, <2>6, <3>1, DeviceEdited
  <2> QED BY <2>0, <2>7, TimePasses
<1>5. ASSUME NEW e \in Email, BucketAges(e) PROVE AccountsInv'
  BY <1>5, TablesSame, TimePasses DEF BucketAges
<1>6. ASSUME NEW a \in Account, RoomsChange(a) PROVE AccountsInv'
  BY <1>6, TablesSame, TimePasses DEF RoomsChange, accountTables
<1> QED BY <1>1, <1>2, <1>3, <1>4, <1>5, <1>6 DEF AccountsTime

LEMMA StepSound == AccountsInv /\ [AccountsNext]_accountsVars => AccountsInv'
<1> SUFFICES ASSUME AccountsInv, [AccountsNext]_accountsVars PROVE AccountsInv'
  OBVIOUS
<1>1. ASSUME NEW c \in Caller, LoginStep(c) PROVE AccountsInv'
  BY <1>1, RegisterSound, LoginSound, VerifySound, BucketSound, OpenSessionSound DEF LoginStep
<1>2. ASSUME NEW c \in Caller, BrowserStep(c) PROVE AccountsInv'
  BY <1>2, ResolveSessionSound, ResolveUserSound, AdmitSound, RevokeSessionSound, InviteSound,
     ValidateSound, DeleteSound, SetRoleSound DEF BrowserStep
<1>3. ASSUME NEW c \in Caller, DeviceStep(c) PROVE AccountsInv'
  BY <1>3, ReviewSound, RevokeGrantSound, ClaimPollSound, IssueSound, ReadGrantedSound, AnswerSound,
     DecideSound, PollSound, CliAskSound DEF DeviceStep
<1>4. ASSUME NEW c \in Caller, NEW s \in Session, NEW op \in AdminOps \cup OwnOps \cup DeviceOps,
             NEW x, Ask(c, s, op, x)
      PROVE  AccountsInv'
  BY <1>4, AskSound
<1>5. CASE UNCHANGED accountsVars
  BY <1>5, TablesSame, TimePasses DEF accountsVars, accountTables
<1> QED BY <1>1, <1>2, <1>3, <1>4, <1>5, TimeSound DEF AccountsNext

LEMMA AccountsAlways == AccountsSpec => []AccountsInv
  BY InitSound, StepSound, PTL DEF AccountsSpec

\* Nobody is served on a credential that was over before: neither a browser request whose
\* session or account had ended when it arrived, nor a command-line request whose grant or
\* account had ended when the room was read (resolve_session, resolve_user, the second
\* resolution of the command-line routes).
THEOREM NobodyServedLate == AccountsSpec => []AdmittedAlive
<1>1. AccountsInv => AdmittedAlive
  BY DEF AccountsInv, CallSound, AdmittedAlive
<1> QED BY <1>1, AccountsAlways, PTL

\* However many replicas answer at once, an invitation makes one account and an approval one
\* token, and a grant belongs to the reviewer of its device (claim_invitation_for_registration,
\* claim_poll and the issue under the row lock).
THEOREM OnePerCredential == AccountsSpec => []IssuedOnce
<1>1. AccountsInv => IssuedOnce
  BY DEF AccountsInv, InvitationsCounted, DevicesCounted, IssuedOnce
<1> QED BY <1>1, AccountsAlways, PTL

(***************************************************************************)
(* The studio: requests                                                    *)
(***************************************************************************)
\* A request that has decided and holds the admission lock of its owner.
Busy(d) == desk[d].op \notin {"none", "trial"}

DeskInv ==
  /\ desk = [d \in Desk |-> desk[d]]
  /\ \A d \in Desk : DOMAIN desk[d] = DOMAIN Idle /\ (desk[d].op # "none" => desk[d].owner \in Owner)
  /\ \A d, e \in Desk : d # e /\ Busy(d) /\ Busy(e) => desk[d].owner # desk[e].owner

\* A request comes in and decides.
Asked(d, op) ==
  /\ desk[d] = Idle /\ op # "none"
  /\ desk' = [desk EXCEPT ![d] = desk'[d]]
  /\ DOMAIN desk'[d] = DOMAIN Idle /\ desk'[d].op = op /\ desk'[d].owner \in Owner
  /\ op # "trial" => Admitted(desk'[d].owner)

\* A Run has its row and goes on.
Ran(d) == /\ desk[d].op = "trial"
          /\ desk' = [desk EXCEPT ![d] = desk'[d]]
          /\ DOMAIN desk'[d] = DOMAIN Idle /\ desk'[d].op = "trial" /\ desk'[d].owner = desk[d].owner

\* What a step does to the desks; ops are the requests that may come in.
DeskMove(ops) ==
  \/ UNCHANGED desk
  \/ \E d \in Desk : Replied(d) \/ Ran(d) \/ \E op \in ops : Asked(d, op)

Ops == {"card", "prompt", "scenario", "pack", "trial", "import", "approve", "generate", "evaluate"}

\* An admitted owner has no request that holds the lock.
LEMMA AdmittedFree ==
  ASSUME NEW o, Admitted(o), NEW d \in Desk, Busy(d)
  PROVE  desk[d].owner # o
  BY DEF Admitted, Busy

LEMMA BeginAsks ==
  ASSUME DeskInv, NEW d \in Desk, NEW o \in Owner, NEW op, NEW mode, op # "none", Begin(d, o, op, mode)
  PROVE  /\ Asked(d, op) /\ desk'[d].owner = o
         /\ UNCHANGED <<targets, access, cards, vault, prompts, scenarios, packs, runs, archive, gone>>
  BY DEF DeskInv, Begin, Asked, Idle

\* Whatever comes and goes, one request of an owner holds the lock.
LEMMA DeskKeeps ==
  ASSUME DeskInv, DeskMove(Ops)
  PROVE  DeskInv'
<1>1. CASE UNCHANGED desk
  BY <1>1 DEF DeskInv, Busy
<1>2. ASSUME NEW d \in Desk, Replied(d)
      PROVE  DeskInv'
  BY <1>2 DEF DeskInv, Busy, Replied, Idle
<1>3. ASSUME NEW d \in Desk, Ran(d)
      PROVE  DeskInv'
  BY <1>3 DEF DeskInv, Busy, Ran
<1>4. ASSUME NEW d \in Desk, NEW op \in Ops, Asked(d, op)
      PROVE  DeskInv'
  <2>1. op # "trial" => \A e \in Desk : Busy(e) => desk[e].owner # desk'[d].owner
    BY <1>4, AdmittedFree DEF Asked
  <2>2. /\ desk' = [e \in Desk |-> desk'[e]] /\ DOMAIN desk'[d] = DOMAIN Idle
        /\ desk'[d].op = op /\ desk'[d].owner \in Owner
        /\ \A e \in Desk \ {d} : desk'[e] = desk[e]
    BY <1>4 DEF DeskInv, Asked
  <2>3. \A e \in Desk : DOMAIN desk'[e] = DOMAIN Idle /\ (desk'[e].op # "none" => desk'[e].owner \in Owner)
    BY <2>2 DEF DeskInv
  <2>4. ASSUME NEW e \in Desk, NEW f \in Desk, e # f, Busy(e)', Busy(f)'
        PROVE  desk'[e].owner # desk'[f].owner
    BY <2>1, <2>2, <2>4 DEF DeskInv, Busy
  <2> QED BY <2>2, <2>3, <2>4 DEF DeskInv
<1> QED BY <1>1, <1>2, <1>3, <1>4 DEF DeskMove

LEMMA TrialAsks ==
  ASSUME DeskInv, NEW d \in Desk, NEW o \in Owner, NEW c \in Card, AskTrial(d, o, c)
  PROVE  Asked(d, "trial")
  BY DEF DeskInv, AskTrial, Asked, Idle

LEMMA RunGoesOn ==
  ASSUME DeskInv, NEW d \in Desk, NEW r \in Run, CreateRun(d, r)
  PROVE  Ran(d)
  BY DEF DeskInv, CreateRun, Ran, Idle

LEMMA ImportAsks ==
  ASSUME DeskInv, NEW d \in Desk, NEW o \in Owner, NEW mode, AskImport(d, o, mode)
  PROVE  /\ Asked(d, "import") /\ desk'[d].owner = o
         /\ UNCHANGED <<cards, archive>>
         /\ \E a \in archive : /\ desk'[d].body = {a}
                               /\ WithinQuota(o, Cardinality(DOMAIN a.cards),
                                              Cardinality(DOMAIN a.cards) + Cardinality(a.scenarios)
                                              + Cardinality(DOMAIN a.packs) + Cardinality(DOMAIN a.runs))
<1>1. PICK a \in archive :
        /\ WithinQuota(o, Cardinality(DOMAIN a.cards),
                       Cardinality(DOMAIN a.cards) + Cardinality(a.scenarios)
                       + Cardinality(DOMAIN a.packs) + Cardinality(DOMAIN a.runs))
        /\ desk[d] = Idle /\ Admitted(o)
        /\ desk' = [desk EXCEPT ![d] = [Idle EXCEPT !.op = "import", !.owner = o, !.mode = mode, !.body = {a}]]
  BY DEF AskImport
<1>2. PICK row : row = [Idle EXCEPT !.op = "import", !.owner = o, !.mode = mode, !.body = {a}]
  OBVIOUS
<1>3. DOMAIN row = DOMAIN Idle /\ row.op = "import" /\ row.owner = o /\ row.body = {a}
  BY <1>2 DEF Idle
<1>4. desk' = [desk EXCEPT ![d] = row] /\ desk'[d] = row
  BY <1>1, <1>2 DEF DeskInv
<1>5. Asked(d, "import")
  BY <1>1, <1>3, <1>4 DEF Asked
<1> QED BY <1>1, <1>3, <1>4, <1>5 DEF AskImport

LEMMA ApprovalAsks ==
  ASSUME DeskInv, NEW d \in Desk, NEW o \in Owner, NEW z, AskApproval(d, o, z)
  PROVE  Asked(d, "approve") /\ desk'[d].owner = o /\ desk'[d].body = {z}
  BY DEF DeskInv, AskApproval, Asked, Idle

LEMMA EvaluationAsks ==
  ASSUME DeskInv, NEW d \in Desk, NEW o \in Owner, NEW z, AskEvaluation(d, o, z)
  PROVE  Asked(d, "evaluate")
<1>1. PICK row : row = [Idle EXCEPT !.op = "evaluate", !.owner = o, !.body = {<<z, datasets[z]>>}]
  OBVIOUS
<1>2. DOMAIN row = DOMAIN Idle /\ row.op = "evaluate" /\ row.owner = o
  BY <1>1 DEF Idle
<1>3. desk' = [desk EXCEPT ![d] = row] /\ desk'[d] = row /\ desk[d] = Idle /\ Admitted(o)
  BY <1>1 DEF DeskInv, AskEvaluation
<1> QED BY <1>2, <1>3 DEF Asked

(***************************************************************************)
(* Which steps leave Cards, and which leave drafts, alone                  *)
(***************************************************************************)
Quiet(ops) == DeskMove(ops) /\ UNCHANGED <<cards, archive>>

LEMMA CharacterQuiet ==
  ASSUME DeskInv, CharacterStep
  PROVE  \/ Quiet({})
         \/ \E d \in Desk, o \in Owner : AskCard(d, o)
         \/ \E d \in Desk, c \in Card, t \in Target \cup {Demo} : CreateCharacter(d, c, t)
         \/ \E d \in Desk, c \in Card, t \in Target, done \in 1..5 : CreatePromptCharacter(d, c, t, done)
         \/ \E o \in Owner, c \in Card : DeleteCharacter(o, c)
<1>1. ASSUME NEW o \in Owner, NEW t \in Target, CreateTarget(o, t) \/ DeleteTarget(o, t)
      PROVE  Quiet({})
  BY <1>1 DEF CreateTarget, DeleteTarget, Request, Quiet, DeskMove
<1>2. ASSUME NEW o \in Owner, NEW c \in Card, NEW config, UpdateCharacter(o, c, config)
      PROVE  Quiet({})
  BY <1>2 DEF UpdateCharacter, Request, Quiet, DeskMove
<1>3. ASSUME NEW c \in Card, ReadCharacter(c)
      PROVE  Quiet({})
  BY <1>3 DEF ReadCharacter, Quiet, DeskMove
<1>4. ASSUME NEW o \in Owner, NEW c \in Card, ConfigureCredential(o, c) \/ ClearCredential(o, c)
      PROVE  Quiet({})
  BY <1>4 DEF ConfigureCredential, ClearCredential, Request, Quiet, DeskMove
<1> QED BY <1>1, <1>2, <1>3, <1>4 DEF CharacterStep

LEMMA PackQuiet ==
  ASSUME DeskInv, PackStep
  PROVE  Quiet({"scenario", "pack"})
<1>1. ASSUME NEW d \in Desk, NEW o \in Owner, NEW kind \in {"scenario", "pack"}, AskRecord(d, o, kind)
      PROVE  Quiet({"scenario", "pack"})
  <2>1. Begin(d, o, kind, "none")
    BY <1>1 DEF AskRecord
  <2> QED BY <2>1, BeginAsks DEF Quiet, DeskMove
<1>2. ASSUME NEW d \in Desk, NEW s \in Scenario, CreateScenario(d, s) \/ \E from \in Scenario : DuplicateScenario(d, s, from)
      PROVE  Quiet({"scenario", "pack"})
  BY <1>2 DEF CreateScenario, DuplicateScenario, Quiet, DeskMove
<1>3. ASSUME NEW o \in Owner, NEW s \in Scenario, DeleteScenario(o, s)
      PROVE  Quiet({"scenario", "pack"})
  BY <1>3 DEF DeleteScenario, Request, Quiet, DeskMove
<1>4. ASSUME NEW d \in Desk, NEW p \in Pack,
             \/ \E items \in SUBSET Scenario : CreatePack(d, p, items)
             \/ \E from \in Pack : DuplicatePack(d, p, from)
      PROVE  Quiet({"scenario", "pack"})
  BY <1>4 DEF CreatePack, DuplicatePack, Quiet, DeskMove
<1>5. ASSUME NEW o \in Owner, NEW p \in Pack,
             DeletePack(o, p) \/ \E items \in SUBSET Scenario : UpdatePack(o, p, items)
      PROVE  Quiet({"scenario", "pack"})
  BY <1>5 DEF DeletePack, UpdatePack, Request, Quiet, DeskMove
<1> QED BY <1>1, <1>2, <1>3, <1>4, <1>5 DEF PackStep

LEMMA RunQuiet ==
  ASSUME DeskInv, RunStep
  PROVE  Quiet({"trial"})
<1>1. ASSUME NEW d \in Desk, NEW o \in Owner, NEW c \in Card, AskTrial(d, o, c)
      PROVE  Quiet({"trial"})
  BY <1>1, TrialAsks DEF AskTrial, Quiet, DeskMove
<1>2. ASSUME NEW d \in Desk, NEW r \in Run, CreateRun(d, r)
      PROVE  Quiet({"trial"})
  BY <1>2, RunGoesOn DEF CreateRun, Quiet, DeskMove
<1>3. ASSUME NEW d \in Desk, NEW p, NEW of, SaveRunSnapshot(d, p, of)
      PROVE  Quiet({"trial"})
  BY <1>3 DEF SaveRunSnapshot, Quiet, DeskMove
<1>4. ASSUME NEW o \in Owner, NEW r \in Run, DeleteRun(o, r) \/ \E value \in BOOLEAN : SetBaseline(o, r, value)
      PROVE  Quiet({"trial"})
  BY <1>4 DEF DeleteRun, SetBaseline, Request, Quiet, DeskMove
<1> QED BY <1>1, <1>2, <1>3, <1>4 DEF RunStep

LEMMA DraftQuiet ==
  ASSUME DeskInv, DraftStep
  PROVE  Quiet({"approve"})
<1>1. ASSUME NEW o \in Owner, NEW x \in Draft,
             \/ CreateScenarioDraft(o, x) \/ UpdateScenarioDraft(o, x)
             \/ RejectScenarioDraft(o, x) \/ DeleteScenarioDraft(o, x)
      PROVE  Quiet({"approve"})
  BY <1>1 DEF CreateScenarioDraft, UpdateScenarioDraft, RejectScenarioDraft, DeleteScenarioDraft, OnlyDrafts,
              wsVars, Quiet, DeskMove
<1>2. ASSUME NEW o \in Owner, NEW y \in PackDraft,
             \/ RejectTestPackDraft(o, y) \/ DeleteTestPackDraft(o, y)
             \/ \E items \in SUBSET (Draft \cup Scenario) : CreateTestPackDraft(o, y, items) \/ UpdateTestPackDraft(o, y, items)
      PROVE  Quiet({"approve"})
  BY <1>2 DEF CreateTestPackDraft, UpdateTestPackDraft, RejectTestPackDraft, DeleteTestPackDraft, OnlyPackDrafts,
              wsVars, Quiet, DeskMove
<1>3. ASSUME NEW d \in Desk, NEW o \in Owner, NEW z, AskApproval(d, o, z)
      PROVE  Quiet({"approve"})
  BY <1>3, ApprovalAsks DEF AskApproval, Quiet, DeskMove
<1>4. ASSUME NEW d \in Desk, NEW x, NEW s, ApproveScenarioDraft(d, x, s) \/ ApproveTestPackDraft(d, x, s)
      PROVE  Quiet({"approve"})
  BY <1>4 DEF ApproveScenarioDraft, ApproveTestPackDraft, Quiet, DeskMove
<1>5. ASSUME NEW o \in Owner, ExportAuthoring(o) \/ \E mode \in {"merge", "replace"} : ImportAuthoring(o, mode)
      PROVE  Quiet({"approve"})
  BY <1>5 DEF ExportAuthoring, ImportAuthoring, wsVars, Quiet, DeskMove
<1> QED BY <1>1, <1>2, <1>3, <1>4, <1>5 DEF DraftStep

LEMMA TogetherQuiet ==
  ASSUME DeskInv, TogetherStep
  PROVE  Quiet({"generate"})
<1>1. ASSUME NEW d \in Desk, NEW o \in Owner, NEW c \in Card, AskGeneration(d, o, c)
      PROVE  Quiet({"generate"})
  <2>1. Begin(d, o, "generate", "none")
    BY <1>1 DEF AskGeneration
  <2> QED BY <2>1, BeginAsks DEF Quiet, DeskMove
<1>2. ASSUME NEW new, NEW y, (\E d \in Desk : Generate(d, new, y)) \/ (\E o \in Owner : InstantiateTemplate(o, new, y))
      PROVE  Quiet({"generate"})
  BY <1>2 DEF Generate, InstantiateTemplate, wsVars, Quiet, DeskMove
<1>3. ASSUME NEW o \in Owner, NEW ss, NEW pp, ExportBundle(o, ss, pp)
      PROVE  Quiet({"generate"})
  BY <1>3 DEF ExportBundle, wsVars, Quiet, DeskMove
<1>4. ASSUME NEW o \in Owner, NEW f, NEW g, NEW whole, ImportBundle(o, f, g, whole)
      PROVE  Quiet({"generate"})
  BY <1>4 DEF ImportBundle, wsVars, Quiet, DeskMove
<1> QED BY <1>1, <1>2, <1>3, <1>4 DEF TogetherStep

LEMMA CalibrationQuiet ==
  ASSUME DeskInv, CalibrationStep
  PROVE  Quiet({"evaluate"})
<1>1. ASSUME NEW o \in Owner, NEW z \in Dataset,
             \/ CreateDataset(o, z) \/ ApproveDataset(o, z) \/ ArchiveDataset(o, z) \/ DeleteDataset(o, z)
             \/ \E from \in Dataset : CreateNextVersion(o, from, z)
             \/ \E c \in Card \cup {NoRef}, r \in Run \cup {NoRef} : AddCase(o, z, c, r)
             \/ \E i \in 1..MaxCases : DeleteCase(o, z, i) \/ \E c \in Card \cup {NoRef} : UpdateCase(o, z, i, c)
      PROVE  Quiet({"evaluate"})
  BY <1>1 DEF CreateDataset, ApproveDataset, ArchiveDataset, DeleteDataset, CreateNextVersion, AddCase, DeleteCase,
              UpdateCase, OnlyDatasets, wsVars, Quiet, DeskMove
<1>2. ASSUME NEW d \in Desk, NEW o \in Owner, NEW z \in Dataset, AskEvaluation(d, o, z)
      PROVE  Quiet({"evaluate"})
  BY <1>2, EvaluationAsks DEF AskEvaluation, Quiet, DeskMove
<1>3. ASSUME NEW d \in Desk, NEW e, NEW modes, NEW failed, SaveEvaluation(d, e, modes, failed)
      PROVE  Quiet({"evaluate"})
  BY <1>3 DEF SaveEvaluation, Quiet, DeskMove
<1>4. ASSUME NEW o \in Owner,
             \/ ExportCalibration(o)
             \/ \E mode \in {"merge", "replace"}, newId \in [DOMAIN backup.datasets -> Dataset] : ImportCalibration(o, mode, newId)
      PROVE  Quiet({"evaluate"})
  BY <1>4 DEF ExportCalibration, ImportCalibration, OnlyDatasets, wsVars, Quiet, DeskMove
<1> QED BY <1>1, <1>2, <1>3, <1>4 DEF CalibrationStep

(***************************************************************************)
(* The quota of Characters                                                 *)
(***************************************************************************)
CardsShaped == cards = [c \in Card |-> cards[c]] /\ \A c \in Card : DOMAIN cards[c] = {"owner", "target"}

ArchiveShaped(a) == /\ DOMAIN a.cards \subseteq Card
                    /\ \A c \in DOMAIN a.cards : DOMAIN a.cards[c] = {"owner", "target"}

\* What a request is about to create was within the quota, and still is.
RoomLeft(row) ==
  /\ row.op \in {"card", "prompt"} => Cardinality(CardsOf(row.owner)) + 1 <= MaxCards
  /\ row.op = "import" =>
       \A a \in row.body :
         /\ ArchiveShaped(a)
         /\ DOMAIN a.cards # {} => Cardinality(CardsOf(row.owner)) + Cardinality(DOMAIN a.cards) <= MaxCards

QuotaInv ==
  /\ DeskInv /\ CardsShaped
  /\ \A a \in archive : ArchiveShaped(a)
  /\ \A d \in Desk : RoomLeft(desk[d])

LEMMA CardsFinite ==
  ASSUME NEW S \in SUBSET Card
  PROVE  IsFiniteSet(S) /\ Cardinality(S) \in Nat
<1>1. IsFiniteSet(Card)
  BY WorkspaceAssumption
<1>2. IsFiniteSet(S)
  BY <1>1, FS_Subset
<1> QED BY <1>2, FS_CardinalityType

LEMMA FewerCards ==
  ASSUME NEW S \in SUBSET Card, NEW T \in SUBSET S
  PROVE  Cardinality(T) <= Cardinality(S) /\ Cardinality(S) \in Nat /\ Cardinality(T) \in Nat
  BY CardsFinite, FS_Subset

\* A request that waits keeps its room while its owner gains no Card.
LEMMA RoomKept ==
  ASSUME QuotaInv, NEW d \in Desk, desk'[d] = desk[d],
         {c \in Card : cards'[c].owner = desk[d].owner} \subseteq CardsOf(desk[d].owner)
  PROVE  RoomLeft(desk[d])'
<1> DEFINE before == CardsOf(desk[d].owner)
           after == {c \in Card : cards'[c].owner = desk[d].owner}
<1>1. RoomLeft(desk[d]) /\ MaxCards \in Nat
  BY WorkspaceAssumption DEF QuotaInv
<1>2. Cardinality(after) <= Cardinality(before) /\ Cardinality(after) \in Nat /\ Cardinality(before) \in Nat
  BY FewerCards DEF CardsOf
<1>3. CardsOf(desk[d].owner)' = after
  BY DEF CardsOf
<1>4. desk[d].op \in {"card", "prompt"} => Cardinality(after) + 1 <= MaxCards
  BY <1>1, <1>2 DEF RoomLeft
<1>5. ASSUME desk[d].op = "import", NEW a \in desk[d].body
      PROVE  /\ ArchiveShaped(a)
             /\ DOMAIN a.cards # {} => Cardinality(after) + Cardinality(DOMAIN a.cards) <= MaxCards
  <2>1. ArchiveShaped(a) /\ (DOMAIN a.cards # {} => Cardinality(before) + Cardinality(DOMAIN a.cards) <= MaxCards)
    BY <1>1, <1>5 DEF RoomLeft
  <2>2. Cardinality(DOMAIN a.cards) \in Nat
    BY <2>1, CardsFinite DEF ArchiveShaped
  <2> HIDE DEF before, after
  <2> QED BY <1>1, <1>2, <2>1, <2>2
<1> QED BY <1>3, <1>4, <1>5 DEF RoomLeft, ArchiveShaped

\* The Cards of an owner after the step.
CardsThen(o) == {c \in Card : cards'[c].owner = o}

QuotaHolds ==
  \A o \in Owner : \/ Cardinality(CardsThen(o)) <= Cardinality(CardsOf(o))
                   \/ Cardinality(CardsThen(o)) <= MaxCards
                   \/ \E c \in CardsThen(o) \ CardsOf(o) : cards[c].owner = LocalOwner

\* Where no waiting request sees its owner gain a Card and no request about Cards comes in.
LEMMA RoomsKept ==
  ASSUME QuotaInv, DeskMove(Ops \ {"card", "prompt", "import"}), CardsShaped', archive' = archive,
         \A d \in Desk : Busy(d) /\ desk'[d] = desk[d] => CardsThen(desk[d].owner) \subseteq CardsOf(desk[d].owner)
  PROVE  QuotaInv'
<1>1. DeskInv'
  BY DeskKeeps DEF QuotaInv, DeskMove
<1>2. ASSUME NEW d \in Desk, desk'[d] = desk[d]
      PROVE  RoomLeft(desk[d])'
  <2>1. CASE Busy(d)
    BY <1>2, <2>1, RoomKept DEF CardsThen
  <2>2. CASE ~Busy(d)
    BY <1>2, <2>2 DEF Busy, RoomLeft
  <2> QED BY <2>1, <2>2
<1>3. ASSUME NEW d \in Desk, desk'[d].op \notin {"card", "prompt", "import"}
      PROVE  RoomLeft(desk[d])'
  BY <1>3 DEF RoomLeft
<1>4. \A d \in Desk : desk'[d] = desk[d] \/ desk'[d].op \notin {"card", "prompt", "import"}
  BY DEF DeskMove, Replied, Ran, Asked, Idle, QuotaInv, DeskInv
<1>5. \A d \in Desk : RoomLeft(desk[d])'
  BY <1>2, <1>3, <1>4
<1>6. \A a \in archive' : ArchiveShaped(a)
  BY DEF QuotaInv
<1> QED BY <1>1, <1>5, <1>6 DEF QuotaInv, ArchiveShaped

LEMMA QuietQuota ==
  ASSUME QuotaInv, NEW ops \in SUBSET (Ops \ {"card", "prompt", "import"}), Quiet(ops)
  PROVE  QuotaInv'
<1>1. DeskMove(Ops \ {"card", "prompt", "import"})
  BY DEF Quiet, DeskMove
<1>2. CardsShaped' /\ archive' = archive /\ \A o : CardsThen(o) = CardsOf(o)
  BY DEF QuotaInv, Quiet, CardsShaped, CardsThen, CardsOf
<1> QED BY <1>1, <1>2, RoomsKept

LEMMA AskCardQuota ==
  ASSUME QuotaInv, NEW d \in Desk, NEW o \in Owner, AskCard(d, o)
  PROVE  QuotaInv'
<1>1. PICK op \in {"card", "prompt"} : Begin(d, o, op, "none")
  BY DEF AskCard
<1>2. Asked(d, op) /\ desk'[d].owner = o /\ UNCHANGED <<cards, archive>>
  BY <1>1, BeginAsks DEF QuotaInv
<1>3. DeskInv'
  BY <1>2, DeskKeeps DEF QuotaInv, DeskMove, Ops
<1>4. CardsShaped' /\ \A a \in archive' : ArchiveShaped(a)
  BY <1>2 DEF QuotaInv, CardsShaped
<1>5. CardsOf(o)' = CardsOf(o) /\ \A u : CardsThen(u) = CardsOf(u)
  BY <1>2 DEF CardsOf, CardsThen
<1>6. Cardinality(CardsOf(o)) + 1 <= MaxCards
  BY DEF AskCard, WithinQuota
<1>7. RoomLeft(desk[d])'
  <2>1. desk'[d].op = op /\ desk'[d].owner = o
    BY <1>2 DEF Asked
  <2>2. CardsOf(desk[d].owner)' = CardsOf(o)
    BY <1>2 DEF CardsOf
  <2> QED BY <1>6, <2>1, <2>2 DEF RoomLeft
<1>8. ASSUME NEW e \in Desk, e # d
      PROVE  RoomLeft(desk[e])'
  <2>1. desk'[e] = desk[e]
    BY <1>2, <1>8 DEF Asked, QuotaInv, DeskInv
  <2> QED BY <1>5, <2>1, RoomKept DEF CardsThen
<1> QED BY <1>3, <1>4, <1>7, <1>8 DEF QuotaInv, ArchiveShaped

LEMMA AskImportQuota ==
  ASSUME QuotaInv, NEW d \in Desk, NEW o \in Owner, NEW mode, AskImport(d, o, mode)
  PROVE  QuotaInv'
<1>1. Asked(d, "import") /\ desk'[d].owner = o /\ UNCHANGED <<cards, archive>>
  BY ImportAsks DEF QuotaInv
<1>2. PICK a \in archive : desk'[d].body = {a} /\ (Cardinality(DOMAIN a.cards) > 0
                             => Cardinality(CardsOf(o)) + Cardinality(DOMAIN a.cards) <= MaxCards)
  BY ImportAsks DEF QuotaInv, WithinQuota
<1>3. DeskInv'
  BY <1>1, DeskKeeps DEF QuotaInv, DeskMove, Ops
<1>4. CardsShaped' /\ \A b \in archive' : ArchiveShaped(b)
  BY <1>1 DEF QuotaInv, CardsShaped
<1>5. CardsOf(o)' = CardsOf(o) /\ \A u : CardsThen(u) = CardsOf(u)
  BY <1>1 DEF CardsOf, CardsThen
<1>6. ArchiveShaped(a)
  BY DEF QuotaInv
<1>7. DOMAIN a.cards # {} => Cardinality(CardsOf(o)) + Cardinality(DOMAIN a.cards) <= MaxCards
  <2>1. IsFiniteSet(DOMAIN a.cards) /\ Cardinality(DOMAIN a.cards) \in Nat
    BY <1>6, CardsFinite DEF ArchiveShaped
  <2>2. Cardinality(DOMAIN a.cards) = 0 => DOMAIN a.cards = {}
    BY <2>1, FS_EmptySet
  <2> QED BY <1>2, <2>1, <2>2
<1>8. RoomLeft(desk[d])'
  <2>1. desk'[d].op = "import"
    BY <1>1 DEF Asked
  <2>2. CardsOf(desk[d].owner)' = CardsOf(o)
    BY <1>1 DEF CardsOf
  <2> QED BY <1>2, <1>6, <1>7, <2>1, <2>2 DEF RoomLeft, ArchiveShaped
<1>9. ASSUME NEW e \in Desk, e # d
      PROVE  RoomLeft(desk[e])'
  <2>1. desk'[e] = desk[e]
    BY <1>1, <1>9 DEF Asked, QuotaInv, DeskInv
  <2> QED BY <1>5, <2>1, RoomKept DEF CardsThen
<1> QED BY <1>3, <1>4, <1>8, <1>9 DEF QuotaInv, ArchiveShaped

LEMMA ExportQuota ==
  ASSUME QuotaInv, NEW o \in Owner, ExportWorkspace(o)
  PROVE  QuotaInv'
<1>1. UNCHANGED <<cards, desk>>
  BY DEF ExportWorkspace
<1>2. ASSUME NEW a \in archive'
      PROVE  ArchiveShaped(a)
  <2>1. a.cards = [c \in CardsOf(o) |-> cards[c]]
    BY <1>2 DEF ExportWorkspace, Restrict
  <2> QED BY <2>1 DEF ArchiveShaped, QuotaInv, CardsShaped, CardsOf
<1>3. \A d \in Desk : RoomLeft(desk[d])'
  BY <1>1, RoomKept DEF CardsOf
<1> QED BY <1>1, <1>2, <1>3 DEF QuotaInv, CardsShaped, DeskInv, Busy, ArchiveShaped

LEMMA GainQuota ==
  ASSUME QuotaInv, NEW d \in Desk, desk[d].op \in {"card", "prompt"},
         NEW c \in Card, cards[c] = NoCard,
         NEW row, DOMAIN row = {"owner", "target"}, row.owner = desk[d].owner,
         cards' = [cards EXCEPT ![c] = row], Replied(d), UNCHANGED archive
  PROVE  QuotaInv' /\ QuotaHolds
<1> DEFINE o == desk[d].owner
<1>1. o \in Owner /\ Busy(d) /\ cards[c].owner = NoOne
  BY DEF QuotaInv, DeskInv, Busy, NoCard
<1>2. CardsShaped'
  BY DEF QuotaInv, CardsShaped
<1>3. cards'[c] = row /\ \A e \in Card \ {c} : cards'[e] = cards[e]
  BY DEF QuotaInv, CardsShaped
<1>4. ASSUME NEW u \in Owner, u # o
      PROVE  CardsThen(u) = CardsOf(u)
  BY <1>1, <1>3, <1>4, WorkspaceAssumption DEF CardsThen, CardsOf
<1>5. CardsThen(o) = CardsOf(o) \cup {c}
  BY <1>3 DEF CardsThen, CardsOf
<1>6. Cardinality(CardsThen(o)) <= MaxCards
  <2>1. IsFiniteSet(CardsOf(o)) /\ Cardinality(CardsOf(o)) \in Nat
    BY CardsFinite DEF CardsOf
  <2>2. c \notin CardsOf(o)
    BY <1>1, WorkspaceAssumption DEF CardsOf
  <2>3. Cardinality(CardsThen(o)) = Cardinality(CardsOf(o)) + 1
    BY <1>5, <2>1, <2>2, FS_AddElement
  <2>4. Cardinality(CardsOf(o)) + 1 <= MaxCards
    BY DEF QuotaInv, RoomLeft
  <2> QED BY <2>3, <2>4
<1>7. QuotaInv'
  <2>1. ASSUME NEW e \in Desk, Busy(e), desk'[e] = desk[e]
        PROVE  CardsThen(desk[e].owner) \subseteq CardsOf(desk[e].owner)
    <3>1. desk'[d].op = "none"
      BY DEF Replied, QuotaInv, DeskInv, Idle
    <3>2. e # d /\ desk[e].owner # o /\ desk[e].owner \in Owner
      BY <1>1, <2>1, <3>1 DEF QuotaInv, DeskInv, Busy
    <3> QED BY <1>4, <3>2
  <2>2. DeskMove(Ops \ {"card", "prompt", "import"})
    BY DEF DeskMove
  <2> QED BY <1>2, <2>1, <2>2, RoomsKept
<1>8. ASSUME NEW u \in Owner
      PROVE  Cardinality(CardsThen(u)) <= Cardinality(CardsOf(u)) \/ Cardinality(CardsThen(u)) <= MaxCards
  <2>1. CASE u = o
    BY <1>6, <2>1
  <2>2. CASE u # o
    <3>1. Cardinality(CardsOf(u)) \in Nat
      BY CardsFinite DEF CardsOf
    <3> QED BY <1>4, <2>2, <3>1
  <2> QED BY <2>1, <2>2
<1> QED BY <1>7, <1>8 DEF QuotaHolds

LEMMA LossQuota ==
  ASSUME QuotaInv, DeskMove({}), CardsShaped', UNCHANGED archive,
         \A o \in Owner : CardsThen(o) \subseteq CardsOf(o)
  PROVE  QuotaInv' /\ QuotaHolds
<1>1. DeskMove(Ops \ {"card", "prompt", "import"})
  BY DEF DeskMove
<1>2. QuotaInv'
  BY <1>1, RoomsKept DEF QuotaInv, DeskInv, Busy
<1>3. ASSUME NEW o \in Owner
      PROVE  Cardinality(CardsThen(o)) <= Cardinality(CardsOf(o))
  BY FewerCards DEF CardsOf
<1> QED BY <1>2, <1>3 DEF QuotaHolds

\* _import_records in the middle of everything: the rest of the studio is not the importer's.
LEMMA ImportQuota ==
  ASSUME QuotaInv, NEW d \in Desk, ImportWorkspace(d)
  PROVE  QuotaInv' /\ QuotaHolds
<1> DEFINE o == desk[d].owner
<1>1. PICK a \in desk[d].body :
        LET cards0 == IF desk[d].mode = "merge" THEN cards ELSE CardsWithout(o)
        IN  cards' = [c \in Card |-> IF c \in DOMAIN a.cards /\ cards0[c] = NoCard
                                    THEN [a.cards[c] EXCEPT !.owner = o] ELSE cards0[c]]
  BY DEF ImportWorkspace
<1>2. desk[d].op = "import" /\ Replied(d) /\ UNCHANGED archive /\ Busy(d) /\ o \in Owner
  BY DEF ImportWorkspace, QuotaInv, DeskInv, Busy
<1>3. PICK cards0 : cards0 = IF desk[d].mode = "merge" THEN cards ELSE CardsWithout(o)
  OBVIOUS
<1>4. ASSUME NEW c \in Card
      PROVE  /\ DOMAIN cards0[c] = {"owner", "target"}
             /\ cards0[c] = cards[c] \/ (cards[c].owner = o /\ cards0[c] = NoCard)
  BY <1>3 DEF CardsWithout, QuotaInv, CardsShaped, NoCard
<1>5. ArchiveShaped(a) /\ (DOMAIN a.cards # {} => Cardinality(CardsOf(o)) + Cardinality(DOMAIN a.cards) <= MaxCards)
  BY <1>2 DEF QuotaInv, RoomLeft
<1>6. ASSUME NEW c \in Card
      PROVE  /\ DOMAIN cards'[c] = {"owner", "target"}
             /\ \/ cards'[c] = cards0[c]
                \/ c \in DOMAIN a.cards /\ cards0[c] = NoCard /\ cards'[c].owner = o
  <2>1. cards'[c] = IF c \in DOMAIN a.cards /\ cards0[c] = NoCard
                    THEN [a.cards[c] EXCEPT !.owner = o] ELSE cards0[c]
    BY <1>1, <1>3
  <2>2. CASE c \in DOMAIN a.cards /\ cards0[c] = NoCard
    <3>1. DOMAIN a.cards[c] = {"owner", "target"}
      BY <1>5, <2>2 DEF ArchiveShaped
    <3>2. cards'[c] = [a.cards[c] EXCEPT !.owner = o]
      BY <2>1, <2>2
    <3> QED BY <2>2, <3>1, <3>2
  <2>3. CASE ~(c \in DOMAIN a.cards /\ cards0[c] = NoCard)
    BY <1>4, <2>1, <2>3
  <2> QED BY <2>2, <2>3
<1>7. CardsShaped'
  BY <1>1, <1>6 DEF CardsShaped
<1>8. NoOne \notin Owner /\ NoCard.owner = NoOne
  BY WorkspaceAssumption DEF NoCard
<1>9. ASSUME NEW u \in Owner, u # o
      PROVE  CardsThen(u) \subseteq CardsOf(u)
  BY <1>4, <1>6, <1>8, <1>9 DEF CardsThen, CardsOf
<1>10. CardsThen(o) \subseteq CardsOf(o) \cup DOMAIN a.cards
  BY <1>4, <1>6, <1>8 DEF CardsThen, CardsOf
<1>11. Cardinality(CardsThen(o)) <= Cardinality(CardsOf(o)) \/ Cardinality(CardsThen(o)) <= MaxCards
  <2>1. CASE DOMAIN a.cards = {}
    <3>1. CardsThen(o) \subseteq CardsOf(o)
      BY <1>10, <2>1
    <3> QED BY <3>1, FewerCards DEF CardsOf
  <2>2. CASE DOMAIN a.cards # {}
    <3>1. CardsOf(o) \in SUBSET Card /\ DOMAIN a.cards \in SUBSET Card
      BY <1>5 DEF CardsOf, ArchiveShaped
    <3>2. /\ IsFiniteSet(CardsOf(o)) /\ Cardinality(CardsOf(o)) \in Nat
          /\ IsFiniteSet(DOMAIN a.cards) /\ Cardinality(DOMAIN a.cards) \in Nat
          /\ Cardinality(CardsOf(o) \cap DOMAIN a.cards) \in Nat
      BY <3>1, CardsFinite
    <3>3. Cardinality(CardsOf(o) \cup DOMAIN a.cards)
            = Cardinality(CardsOf(o)) + Cardinality(DOMAIN a.cards) - Cardinality(CardsOf(o) \cap DOMAIN a.cards)
      BY <3>2, FS_Union
    <3>4. /\ Cardinality(CardsThen(o)) <= Cardinality(CardsOf(o) \cup DOMAIN a.cards)
          /\ Cardinality(CardsThen(o)) \in Nat /\ Cardinality(CardsOf(o) \cup DOMAIN a.cards) \in Nat
      BY <1>10, <3>1, FewerCards
    <3>5. MaxCards \in Nat /\ Cardinality(CardsOf(o)) + Cardinality(DOMAIN a.cards) <= MaxCards
      BY <1>5, <2>2, WorkspaceAssumption
    <3> HIDE DEF o
    <3> QED BY <3>2, <3>3, <3>4, <3>5
  <2> QED BY <2>1, <2>2
<1>12. QuotaInv'
  <2>1. ASSUME NEW e \in Desk, Busy(e), desk'[e] = desk[e]
        PROVE  CardsThen(desk[e].owner) \subseteq CardsOf(desk[e].owner)
    <3>1. desk'[d].op = "none"
      BY <1>2 DEF Replied, QuotaInv, DeskInv, Idle
    <3>2. e # d /\ desk[e].owner # o /\ desk[e].owner \in Owner
      BY <1>2, <2>1, <3>1 DEF QuotaInv, DeskInv, Busy
    <3> QED BY <1>9, <3>2
  <2>2. DeskMove(Ops \ {"card", "prompt", "import"})
    BY <1>2 DEF DeskMove
  <2> QED BY <1>2, <1>7, <2>1, <2>2, RoomsKept
<1>13. ASSUME NEW u \in Owner, u # o
       PROVE  Cardinality(CardsThen(u)) <= Cardinality(CardsOf(u))
  BY <1>9, <1>13, FewerCards DEF CardsOf
<1> QED BY <1>11, <1>12, <1>13 DEF QuotaHolds

LEMMA ClaimQuota ==
  ASSUME QuotaInv, NEW o \in Owner, ClaimLocalWorkspace(o)
  PROVE  QuotaInv' /\ QuotaHolds
<1>1. /\ Request(o) /\ o # LocalOwner /\ LocalOwner \in Owner
      /\ cards' = [c \in Card |-> IF cards[c].owner = LocalOwner THEN [cards[c] EXCEPT !.owner = o] ELSE cards[c]]
  BY WorkspaceAssumption DEF ClaimLocalWorkspace
<1>2. UNCHANGED <<desk, archive>> /\ \A d \in Desk : Busy(d) => desk[d].owner # o
  BY <1>1, AdmittedFree DEF Request
<1>3. CardsShaped'
  BY <1>1 DEF QuotaInv, CardsShaped
<1>4. ASSUME NEW c \in Card
      PROVE  cards'[c].owner = IF cards[c].owner = LocalOwner THEN o ELSE cards[c].owner
  BY <1>1 DEF QuotaInv, CardsShaped
<1>5. ASSUME NEW u \in Owner, u # o
      PROVE  CardsThen(u) \subseteq CardsOf(u)
  BY <1>4, <1>5 DEF CardsThen, CardsOf
<1>6. QuotaInv'
  BY <1>2, <1>3, <1>5, RoomsKept DEF DeskMove, QuotaInv, DeskInv, Busy
<1>7. CardsThen(o) \subseteq CardsOf(o) \/ \E c \in CardsThen(o) \ CardsOf(o) : cards[c].owner = LocalOwner
  BY <1>1, <1>4 DEF CardsThen, CardsOf
<1>8. ASSUME NEW u \in Owner, CardsThen(u) \subseteq CardsOf(u)
      PROVE  Cardinality(CardsThen(u)) <= Cardinality(CardsOf(u))
  BY <1>8, FewerCards DEF CardsOf
<1> QED BY <1>5, <1>6, <1>7, <1>8 DEF QuotaHolds

LEMMA DeleteCardQuota ==
  ASSUME QuotaInv, NEW o \in Owner, NEW c \in Card, DeleteCharacter(o, c)
  PROVE  QuotaInv' /\ QuotaHolds
<1>1. cards' = [cards EXCEPT ![c] = NoCard] /\ UNCHANGED <<desk, archive>>
  BY DEF DeleteCharacter, Request
<1>2. CardsShaped'
  BY <1>1 DEF QuotaInv, CardsShaped, NoCard
<1>3. \A u \in Owner : CardsThen(u) \subseteq CardsOf(u)
  BY <1>1, WorkspaceAssumption DEF QuotaInv, CardsShaped, CardsThen, CardsOf, NoCard
<1> QED BY <1>1, <1>2, <1>3, LossQuota DEF DeskMove

LEMMA DeleteQuota ==
  ASSUME QuotaInv, NEW o \in Owner, DeleteWorkspace(o)
  PROVE  QuotaInv' /\ QuotaHolds
<1>1. cards' = CardsWithout(o) /\ UNCHANGED <<desk, archive>>
  BY DEF DeleteWorkspace, Request
<1>2. CardsShaped'
  BY <1>1 DEF QuotaInv, CardsShaped, CardsWithout, NoCard
<1>3. \A u \in Owner : CardsThen(u) \subseteq CardsOf(u)
  BY <1>1, WorkspaceAssumption DEF CardsWithout, CardsThen, CardsOf, NoCard
<1> QED BY <1>1, <1>2, <1>3, LossQuota DEF DeskMove

LEMMA QuotaStep ==
  ASSUME QuotaInv, [StudioNext]_<<wsVars, authoringVars>>
  PROVE  QuotaInv' /\ (cards' # cards => QuotaHolds)
<1>1. CASE UNCHANGED <<wsVars, authoringVars>>
  BY <1>1 DEF QuotaInv, DeskInv, Busy, CardsShaped, ArchiveShaped, RoomLeft, CardsOf, wsVars
<1>2. ASSUME NEW ops \in SUBSET (Ops \ {"card", "prompt", "import"}), Quiet(ops)
      PROVE  QuotaInv' /\ cards' = cards
  BY <1>2, QuietQuota DEF Quiet
<1>3. ASSUME NEW d \in Desk, NEW c \in Card, NEW t, CreateCharacter(d, c, t)
      PROVE  QuotaInv' /\ QuotaHolds
  <2>1. PICK row : row = [owner |-> desk[d].owner, target |-> t]
    OBVIOUS
  <2> QED BY <1>3, <2>1, GainQuota DEF CreateCharacter
<1>4. ASSUME NEW d \in Desk, NEW c \in Card, NEW t, NEW done, CreatePromptCharacter(d, c, t, done)
      PROVE  QuotaInv' /\ (cards' # cards => QuotaHolds)
  <2>1. PICK row : row = [owner |-> desk[d].owner, target |-> t]
    OBVIOUS
  <2>2. CASE done >= 3
    BY <1>4, <2>1, <2>2, GainQuota DEF CreatePromptCharacter
  <2>3. CASE ~(done >= 3)
    <3>1. Quiet({})
      BY <1>4, <2>3 DEF CreatePromptCharacter, Quiet, DeskMove
    <3> QED BY <1>2, <3>1
  <2> QED BY <2>2, <2>3
<1>5. CASE CharacterStep
  BY <1>2, <1>3, <1>4, <1>5, CharacterQuiet, AskCardQuota, DeleteCardQuota DEF QuotaInv, AskCard, Begin
<1>6. CASE PackStep \/ RunStep \/ DraftStep \/ TogetherStep \/ CalibrationStep
  BY <1>2, <1>6, PackQuiet, RunQuiet, DraftQuiet, TogetherQuiet, CalibrationQuiet DEF QuotaInv, Ops
<1>7. CASE ArchiveStep
  <2>1. ASSUME NEW o \in Owner, ExportWorkspace(o)
        PROVE  QuotaInv' /\ cards' = cards
    BY <2>1, ExportQuota DEF ExportWorkspace
  <2>2. ASSUME NEW d \in Desk, NEW o \in Owner, NEW mode, AskImport(d, o, mode)
        PROVE  QuotaInv' /\ cards' = cards
    BY <2>2, AskImportQuota DEF AskImport
  <2>3. ASSUME NEW d \in Desk, GiveUp(d)
        PROVE  QuotaInv' /\ cards' = cards
    <3>1. Quiet({})
      BY <2>3 DEF GiveUp, Quiet, DeskMove
    <3> QED BY <1>2, <3>1
  <2> QED BY <1>7, <2>1, <2>2, <2>3, ImportQuota DEF ArchiveStep
<1>8. CASE HandoverStep
  BY <1>8, ClaimQuota, DeleteQuota DEF HandoverStep, ClaimStudio, DeleteStudio
<1> QED BY <1>1, <1>5, <1>6, <1>7, <1>8 DEF StudioNext, StudioStep

LEMMA QuotaInitInv ==
  ASSUME StudioInit
  PROVE  QuotaInv
  BY DEF StudioInit, WorkspaceTables, QuotaInv, DeskInv, Busy, CardsShaped, RoomLeft, Idle, NoCard

\* Nobody passes the quota by asking twice at once, whatever the requests
\* (create_character, import_workspace, claim_local_workspace) and however they overlap.
THEOREM QuotaRespected == StudioSpec => QuotaKept
<1>1. StudioInit => QuotaInv
  BY QuotaInitInv
<1>2. QuotaInv /\ [StudioNext]_<<wsVars, authoringVars>> => QuotaInv'
  BY QuotaStep
<1>3. QuotaInv /\ [StudioNext]_<<wsVars, authoringVars>> =>
        [\A o \in Owner :
           LET before == CardsOf(o)
               after == {c \in Card : cards'[c].owner = o}
           IN  \/ Cardinality(after) <= Cardinality(before)
               \/ Cardinality(after) <= MaxCards
               \/ \E c \in after \ before : cards[c].owner = LocalOwner]_cards
  BY QuotaStep DEF QuotaHolds, CardsThen
<1> QED BY <1>1, <1>2, <1>3, PTL DEF StudioSpec, QuotaKept

(***************************************************************************)
(* The studio: drafts                                                      *)
(***************************************************************************)
UnderReview == Draft \cup PackDraft
Current(z) == IF z \in Draft THEN drafts[z] ELSE packDrafts[z]

DraftFields == {"owner", "status", "revision", "formal"}
PackDraftFields == DraftFields \cup {"items"}

DraftsShaped ==
  /\ drafts = [x \in Draft |-> drafts[x]] /\ \A x \in Draft : DOMAIN drafts[x] = DraftFields
  /\ packDrafts = [y \in PackDraft |-> packDrafts[y]] /\ \A y \in PackDraft : DOMAIN packDrafts[y] = PackDraftFields
  /\ made = [z \in UnderReview |-> made[z]]

\* A draft and what was made of it: nothing before it is approved, then the record
\* it names, and no second one but by the owner of the local workspace.
RowTrue(now, ms) ==
  /\ now.status # "approved" => ms = {} /\ now.formal = NoRef
  /\ now.status = "approved" => \E m \in ms : m.formal = now.formal
  /\ \A m \in ms : m.by \in {now.owner, LocalOwner}
  /\ \A m, n \in ms : m # n => m.by # n.by /\ LocalOwner \in {m.by, n.by}

\* An archive names the record of an approved draft only.
ArchivedTrue(f, fields) ==
  \A x \in DOMAIN f : DOMAIN f[x] = fields /\ (f[x].status # "approved" => f[x].formal = NoRef)

BackupTrue ==
  /\ DOMAIN backup = {"drafts", "packDrafts", "datasets", "bundle"}
  /\ ArchivedTrue(backup.drafts, DraftFields) /\ ArchivedTrue(backup.packDrafts, PackDraftFields)

\* Who is about to approve a draft has not approved it yet, and still owns it
\* unless it is of the local workspace.
ApprovalOpen(row) ==
  row.op = "approve" =>
    \E z \in UnderReview : /\ row.body = {z}
                           /\ \A m \in made[z] : m.by # row.owner
                           /\ row.owner # LocalOwner => Current(z).owner = row.owner

DraftInv ==
  /\ DeskInv /\ DraftsShaped /\ BackupTrue
  /\ \A z \in UnderReview : RowTrue(Current(z), made[z])
  /\ \A d \in Desk : ApprovalOpen(desk[d])

\* The step approves nothing for o and takes no draft from it.
Hands(o) ==
  \A z \in UnderReview :
    /\ \A m \in made'[z] : m.by = o => \E n \in made[z] : n.by = o
    /\ o # LocalOwner /\ Current(z).owner = o => Current(z)'.owner = o

LEMMA ApprovalKept ==
  ASSUME DraftInv, NEW d \in Desk, desk'[d] = desk[d], Hands(desk[d].owner)
  PROVE  ApprovalOpen(desk[d])'
<1> SUFFICES ASSUME desk[d].op = "approve"
             PROVE  ApprovalOpen(desk[d])'
  BY DEF ApprovalOpen
<1>1. PICK z \in UnderReview : /\ desk[d].body = {z}
                               /\ \A m \in made[z] : m.by # desk[d].owner
                               /\ desk[d].owner # LocalOwner => Current(z).owner = desk[d].owner
  BY DEF DraftInv, ApprovalOpen
<1>2. /\ \A m \in made'[z] : m.by # desk[d].owner
      /\ desk[d].owner # LocalOwner => Current(z)'.owner = desk[d].owner
  <2> DEFINE o == desk[d].owner
  <2>1. /\ \A m \in made'[z] : m.by = o => \E n \in made[z] : n.by = o
        /\ o # LocalOwner /\ Current(z).owner = o => Current(z)'.owner = o
    BY Zenon DEF Hands
  <2>2. \A m \in made[z] : m.by # o
    BY <1>1, Zenon
  <2>3. o # LocalOwner => Current(z).owner = o
    BY <1>1, Zenon
  <2> HIDE DEF o
  <2>4. /\ \A m \in made'[z] : m.by # o
        /\ o # LocalOwner => Current(z)'.owner = o
    BY <2>1, <2>2, <2>3, Zenon
  <2> QED BY <2>4, Zenon DEF o
<1>3. UnderReview' = UnderReview
  BY DEF UnderReview
<1>4. z \in UnderReview' /\ desk[d]'.body = {z} /\ desk[d]'.owner = desk[d].owner
  BY <1>1, <1>3
<1> HIDE DEF Hands
<1> QED BY <1>2, <1>4, Zenon DEF ApprovalOpen

LEMMA ReviewKeeps ==
  ASSUME DraftInv, DeskMove(Ops \ {"approve"}), DraftsShaped', BackupTrue',
         \A z \in UnderReview : RowTrue(Current(z), made[z])',
         \A d \in Desk : Busy(d) /\ desk'[d] = desk[d] => Hands(desk[d].owner)
  PROVE  DraftInv'
<1>1. DeskInv'
  BY DeskKeeps DEF DraftInv, DeskMove
<1>2. ASSUME NEW d \in Desk, desk'[d] = desk[d]
      PROVE  ApprovalOpen(desk[d])'
  <2>1. CASE Busy(d)
    BY <1>2, <2>1, ApprovalKept
  <2>2. CASE ~Busy(d)
    BY <1>2, <2>2 DEF Busy, ApprovalOpen
  <2> QED BY <2>1, <2>2
<1>3. \A d \in Desk : desk'[d] = desk[d] \/ desk'[d].op # "approve"
  BY DEF DeskMove, Replied, Ran, Asked, Idle, DraftInv, DeskInv
<1>4. \A d \in Desk : ApprovalOpen(desk[d])'
  BY <1>2, <1>3 DEF ApprovalOpen
<1> QED BY <1>1, <1>4 DEF DraftInv, UnderReview

\* A request that decides and writes in one step.
LEMMA RequestKeeps ==
  ASSUME DraftInv, NEW o \in Owner, Request(o), DraftsShaped', BackupTrue',
         \A z \in UnderReview : RowTrue(Current(z), made[z])',
         \A u \in Owner \ {o} : Hands(u)
  PROVE  DraftInv'
<1>1. \A d \in Desk : Busy(d) => desk[d].owner \in Owner \ {o}
  BY AdmittedFree DEF Request, DraftInv, DeskInv, Busy
<1> QED BY <1>1, ReviewKeeps DEF Request, DeskMove

\* What leaves the drafts and what was made of them alone.
LEMMA StillKeeps ==
  ASSUME DraftInv, DeskMove(Ops \ {"approve"}), UNCHANGED <<drafts, packDrafts, made>>, BackupTrue'
  PROVE  DraftInv'
<1>1. DraftsShaped'
  BY DEF DraftInv, DraftsShaped, UnderReview
<1>2. \A z \in UnderReview : RowTrue(Current(z), made[z])'
  BY DEF DraftInv, RowTrue, Current, UnderReview
<1>3. \A o : Hands(o)
  BY DEF Hands, Current
<1> QED BY <1>1, <1>2, <1>3, ReviewKeeps

LEMMA OneDraft ==
  ASSUME DraftInv, NEW o \in Owner, Request(o), NEW x \in Draft, NEW row, NEW ms,
         DOMAIN row = DraftFields, RowTrue(row, ms),
         drafts' = [drafts EXCEPT ![x] = row], made' = [made EXCEPT ![x] = ms], UNCHANGED <<packDrafts, backup>>,
         \A m \in ms : m \in made[x], drafts[x].owner \in {o, NoOne}
  PROVE  DraftInv'
<1>1. DraftsShaped' /\ drafts'[x] = row /\ made'[x] = ms
  BY DEF DraftInv, DraftsShaped, UnderReview
<1>2. \A z \in UnderReview \ {x} : Current(z)' = Current(z) /\ made'[z] = made[z]
  BY DEF DraftInv, DraftsShaped, UnderReview, Current
<1>3. \A z \in UnderReview : RowTrue(Current(z), made[z])'
  BY <1>1, <1>2 DEF DraftInv, RowTrue, Current
<1>4. \A u \in Owner \ {o} : Hands(u)
  BY <1>1, <1>2, WorkspaceAssumption DEF Hands, Current
<1> QED BY <1>1, <1>3, <1>4, RequestKeeps DEF DraftInv, BackupTrue, ArchivedTrue

LEMMA OnePackDraft ==
  ASSUME DraftInv, NEW o \in Owner, Request(o), NEW y \in PackDraft, NEW row, NEW ms,
         DOMAIN row = PackDraftFields, RowTrue(row, ms),
         packDrafts' = [packDrafts EXCEPT ![y] = row], made' = [made EXCEPT ![y] = ms], UNCHANGED <<drafts, backup>>,
         \A m \in ms : m \in made[y], packDrafts[y].owner \in {o, NoOne}
  PROVE  DraftInv'
<1>0. y \notin Draft
  BY AuthoringAssumption
<1>1. DraftsShaped' /\ packDrafts'[y] = row /\ made'[y] = ms
  BY DEF DraftInv, DraftsShaped, UnderReview
<1>2. \A z \in UnderReview \ {y} : Current(z)' = Current(z) /\ made'[z] = made[z]
  BY DEF DraftInv, DraftsShaped, UnderReview, Current
<1>3. \A z \in UnderReview : RowTrue(Current(z), made[z])'
  BY <1>0, <1>1, <1>2 DEF DraftInv, RowTrue, Current
<1>4. \A u \in Owner \ {o} : Hands(u)
  BY <1>0, <1>1, <1>2, WorkspaceAssumption DEF Hands, Current
<1> QED BY <1>1, <1>3, <1>4, RequestKeeps DEF DraftInv, BackupTrue, ArchivedTrue

(***************************************************************************)
(* Edits of one draft                                                      *)
(***************************************************************************)
LEMMA EditDraft ==
  ASSUME DraftInv, NEW o \in Owner, NEW x \in Draft,
         CreateScenarioDraft(o, x) \/ UpdateScenarioDraft(o, x) \/ RejectScenarioDraft(o, x)
  PROVE  DraftInv'
<1>1. Request(o) /\ UNCHANGED <<packDrafts, made, backup>> /\ made' = [made EXCEPT ![x] = made[x]]
  BY DEF CreateScenarioDraft, UpdateScenarioDraft, RejectScenarioDraft, OnlyDrafts, DraftInv, DraftsShaped
<1>2. DOMAIN drafts[x] = DraftFields /\ RowTrue(drafts[x], made[x]) /\ x \in DOMAIN drafts
  BY DEF DraftInv, DraftsShaped, UnderReview, Current
<1>3. CASE CreateScenarioDraft(o, x)
  <2>1. drafts[x].owner = NoOne /\ made[x] = {}
    BY <1>2, <1>3 DEF CreateScenarioDraft, NoDraft, RowTrue
  <2>2. PICK row : row = NewDraft(o)
    OBVIOUS
  <2>3. DOMAIN row = DraftFields /\ RowTrue(row, made[x]) /\ drafts' = [drafts EXCEPT ![x] = row]
    BY <1>3, <2>1, <2>2 DEF CreateScenarioDraft, NewDraft, RowTrue, DraftFields
  <2> QED BY <1>1, <2>1, <2>3, OneDraft
<1>4. CASE UpdateScenarioDraft(o, x)
  <2>1. PICK row : row = [drafts[x] EXCEPT !.status = "draft", !.revision = @ + 1]
    OBVIOUS
  <2>2. drafts' = [drafts EXCEPT ![x] = row]
    BY <1>2, <1>4, <2>1 DEF UpdateScenarioDraft, DraftFields
  <2>3. DOMAIN row = DraftFields /\ row.status = "draft" /\ row.owner = drafts[x].owner /\ row.formal = drafts[x].formal
    BY <1>2, <2>1 DEF DraftFields
  <2>4. RowTrue(row, made[x]) /\ drafts[x].owner = o
    BY <1>2, <1>4, <2>3 DEF UpdateScenarioDraft, RowTrue
  <2> QED BY <1>1, <2>2, <2>3, <2>4, OneDraft
<1>5. CASE RejectScenarioDraft(o, x)
  <2>1. PICK row : row = [drafts[x] EXCEPT !.status = "rejected"]
    OBVIOUS
  <2>2. drafts' = [drafts EXCEPT ![x] = row]
    BY <1>2, <1>5, <2>1 DEF RejectScenarioDraft
  <2>3. DOMAIN row = DraftFields /\ row.status = "rejected" /\ row.owner = drafts[x].owner /\ row.formal = drafts[x].formal
    BY <1>2, <2>1 DEF DraftFields
  <2>4. RowTrue(row, made[x]) /\ drafts[x].owner = o
    BY <1>2, <1>5, <2>3 DEF RejectScenarioDraft, RowTrue
  <2> QED BY <1>1, <2>2, <2>3, <2>4, OneDraft
<1> QED BY <1>3, <1>4, <1>5

LEMMA EditPackDraft ==
  ASSUME DraftInv, NEW o \in Owner, NEW y \in PackDraft,
         \/ RejectTestPackDraft(o, y) \/ DeleteTestPackDraft(o, y)
         \/ \E items \in SUBSET (Draft \cup Scenario) : CreateTestPackDraft(o, y, items) \/ UpdateTestPackDraft(o, y, items)
  PROVE  DraftInv'
<1>1. Request(o) /\ UNCHANGED <<drafts, backup>> /\ [made EXCEPT ![y] = made[y]] = made
  BY DEF CreateTestPackDraft, UpdateTestPackDraft, RejectTestPackDraft, DeleteTestPackDraft, OnlyPackDrafts,
         DraftInv, DraftsShaped
<1>2. y \notin Draft /\ DOMAIN packDrafts[y] = PackDraftFields /\ RowTrue(packDrafts[y], made[y]) /\ y \in DOMAIN packDrafts
  BY AuthoringAssumption DEF DraftInv, DraftsShaped, UnderReview, Current
<1>3. ASSUME NEW items, CreateTestPackDraft(o, y, items)
      PROVE  DraftInv'
  <2>1. packDrafts[y].owner = NoOne /\ made[y] = {} /\ made' = made
    BY <1>2, <1>3 DEF CreateTestPackDraft, NoPackDraft, RowTrue
  <2>2. PICK row : row = NewPackDraft(o, items)
    OBVIOUS
  <2>3. DOMAIN row = PackDraftFields /\ RowTrue(row, made[y]) /\ packDrafts' = [packDrafts EXCEPT ![y] = row]
    BY <1>3, <2>1, <2>2 DEF CreateTestPackDraft, NewPackDraft, RowTrue, PackDraftFields, DraftFields
  <2> QED BY <1>1, <2>1, <2>3, OnePackDraft
<1>4. ASSUME NEW items, UpdateTestPackDraft(o, y, items)
      PROVE  DraftInv'
  <2>1. PICK row : row = [packDrafts[y] EXCEPT !.status = "draft", !.revision = @ + 1, !.items = items]
    OBVIOUS
  <2>2. packDrafts' = [packDrafts EXCEPT ![y] = row] /\ made' = made
    BY <1>2, <1>4, <2>1 DEF UpdateTestPackDraft, PackDraftFields, DraftFields
  <2>3. DOMAIN row = PackDraftFields /\ row.status = "draft" /\ row.owner = packDrafts[y].owner /\ row.formal = packDrafts[y].formal
    BY <1>2, <2>1 DEF PackDraftFields, DraftFields
  <2>4. RowTrue(row, made[y]) /\ packDrafts[y].owner = o
    BY <1>2, <1>4, <2>3 DEF UpdateTestPackDraft, RowTrue
  <2> QED BY <1>1, <2>2, <2>3, <2>4, OnePackDraft
<1>5. CASE RejectTestPackDraft(o, y)
  <2>1. PICK row : row = [packDrafts[y] EXCEPT !.status = "rejected"]
    OBVIOUS
  <2>2. packDrafts' = [packDrafts EXCEPT ![y] = row] /\ made' = made
    BY <1>2, <1>5, <2>1 DEF RejectTestPackDraft
  <2>3. DOMAIN row = PackDraftFields /\ row.status = "rejected" /\ row.owner = packDrafts[y].owner /\ row.formal = packDrafts[y].formal
    BY <1>2, <2>1 DEF PackDraftFields, DraftFields
  <2>4. RowTrue(row, made[y]) /\ packDrafts[y].owner = o
    BY <1>2, <1>5, <2>3 DEF RejectTestPackDraft, RowTrue
  <2> QED BY <1>1, <2>2, <2>3, <2>4, OnePackDraft
<1>6. CASE DeleteTestPackDraft(o, y)
  <2>1. PICK row, ms : row = NoPackDraft /\ ms = {}
    OBVIOUS
  <2>2. /\ packDrafts' = [packDrafts EXCEPT ![y] = row] /\ made' = [made EXCEPT ![y] = ms]
        /\ packDrafts[y].owner = o /\ \A m \in ms : m \in made[y]
    BY <1>6, <2>1 DEF DeleteTestPackDraft
  <2>3. DOMAIN row = PackDraftFields /\ RowTrue(row, ms)
    BY <2>1 DEF NoPackDraft, RowTrue, PackDraftFields, DraftFields
  <2> QED BY <1>1, <2>2, <2>3, OnePackDraft
<1> QED BY <1>3, <1>4, <1>5, <1>6

LEMMA DropDraft ==
  ASSUME DraftInv, NEW o \in Owner, NEW x \in Draft, DeleteScenarioDraft(o, x)
  PROVE  DraftInv'
<1>1. /\ Request(o) /\ drafts[x].owner = o /\ UNCHANGED backup
      /\ drafts' = [drafts EXCEPT ![x] = NoDraft]
      /\ packDrafts' = [y \in PackDraft |-> [packDrafts[y] EXCEPT !.items = @ \ {x}]]
      /\ made' = [made EXCEPT ![x] = {}]
  BY DEF DeleteScenarioDraft
<1>2. /\ drafts'[x] = NoDraft /\ made'[x] = {} /\ DOMAIN NoDraft = DraftFields
      /\ \A z \in Draft \ {x} : drafts'[z] = drafts[z]
      /\ \A z \in UnderReview \ {x} : made'[z] = made[z]
  BY <1>1 DEF DraftInv, DraftsShaped, UnderReview, NoDraft, DraftFields
<1>3. ASSUME NEW y \in PackDraft
      PROVE  /\ DOMAIN packDrafts'[y] = PackDraftFields
             /\ packDrafts'[y].status = packDrafts[y].status /\ packDrafts'[y].owner = packDrafts[y].owner
             /\ packDrafts'[y].formal = packDrafts[y].formal
  <2>1. DOMAIN packDrafts[y] = PackDraftFields
    BY DEF DraftInv, DraftsShaped
  <2>2. packDrafts'[y] = [packDrafts[y] EXCEPT !.items = @ \ {x}]
    BY <1>1
  <2> QED BY <2>1, <2>2 DEF PackDraftFields, DraftFields
<1>4. DraftsShaped'
  BY <1>1, <1>2, <1>3 DEF DraftInv, DraftsShaped, UnderReview
<1>5. \A z \in UnderReview : RowTrue(Current(z), made[z])'
  <2>1. RowTrue(drafts'[x], made'[x])
    BY <1>2 DEF RowTrue, NoDraft
  <2>2. ASSUME NEW z \in UnderReview \ {x}
        PROVE  RowTrue(Current(z), made[z])'
    BY <1>2, <1>3 DEF DraftInv, RowTrue, Current, UnderReview
  <2> QED BY <2>1, <2>2 DEF Current, RowTrue
<1>6. \A u \in Owner \ {o} : Hands(u)
  BY <1>1, <1>2, <1>3 DEF Hands, Current, UnderReview
<1> QED BY <1>1, <1>4, <1>5, <1>6, RequestKeeps DEF DraftInv, BackupTrue, ArchivedTrue

(***************************************************************************)
(* Approval                                                                *)
(***************************************************************************)
LEMMA AskApprovalKeeps ==
  ASSUME DraftInv, NEW d \in Desk, NEW o \in Owner, NEW z \in UnderReview, AskApproval(d, o, z)
  PROVE  DraftInv'
<1>1. /\ Asked(d, "approve") /\ desk'[d].owner = o /\ desk'[d].body = {z}
      /\ Current(z).owner = o /\ Current(z).status = "draft"
      /\ UNCHANGED <<drafts, packDrafts, made, backup>>
  BY ApprovalAsks DEF DraftInv, AskApproval, Current, authoringVars
<1>2. DeskInv'
  BY <1>1, DeskKeeps DEF DraftInv, DeskMove, Ops
<1>3. DraftsShaped' /\ BackupTrue' /\ \A y \in UnderReview : RowTrue(Current(y), made[y])'
  BY <1>1 DEF DraftInv, DraftsShaped, BackupTrue, ArchivedTrue, RowTrue, Current, UnderReview
<1>4. ApprovalOpen(desk[d])'
  <2>1. made[z] = {}
    BY <1>1 DEF DraftInv, RowTrue
  <2> QED BY <1>1, <2>1 DEF ApprovalOpen, Current, UnderReview
<1>5. ASSUME NEW e \in Desk \ {d}
      PROVE  ApprovalOpen(desk[e])'
  <2>1. desk'[e] = desk[e]
    <3>1. desk = [q \in Desk |-> desk[q]] /\ desk' = [desk EXCEPT ![d] = desk'[d]]
      BY <1>1, Zenon DEF Asked, DraftInv, DeskInv
    <3> QED BY <3>1
  <2>2. \A y \in UnderReview : made'[y] = made[y] /\ Current(y)' = Current(y)
    <3>1. \A y : made'[y] = made[y] /\ drafts'[y] = drafts[y] /\ packDrafts'[y] = packDrafts[y]
      BY <1>1, Zenon
    <3> QED BY <3>1, Zenon DEF Current
  <2>3. Hands(desk[e].owner)
    BY <2>2, Zenon DEF Hands
  <2> QED BY <2>1, <2>3, ApprovalKept
<1>6. UnderReview' = UnderReview
  BY DEF UnderReview
<1>7. \A e \in Desk : ApprovalOpen(desk[e])'
  BY <1>4, <1>5, Zenon
<1> QED BY <1>2, <1>3, <1>6, <1>7, Zenon DEF DraftInv

\* The record is written and the draft is approved, by an owner that had not approved it.
LEMMA ApprovedKeeps ==
  ASSUME DraftInv, NEW d \in Desk, NEW z \in UnderReview, NEW f,
         desk[d].op = "approve", desk[d].body = {z}, Replied(d), DraftsShaped', UNCHANGED backup,
         Current(z)'.status = "approved", Current(z)'.formal = f, Current(z)'.owner = Current(z).owner,
         made' = [made EXCEPT ![z] = @ \cup {Formal(f, desk[d].owner)}],
         \A y \in UnderReview \ {z} : Current(y)' = Current(y)
  PROVE  DraftInv'
<1> DEFINE o == desk[d].owner
<1>1. /\ \A m \in made[z] : m.by # o
      /\ o # LocalOwner => Current(z).owner = o
  BY DEF DraftInv, ApprovalOpen
<1>2. /\ made'[z] = made[z] \cup {Formal(f, o)} /\ \A y \in UnderReview \ {z} : made'[y] = made[y]
      /\ Formal(f, o).by = o /\ Formal(f, o).formal = f
  BY DEF DraftInv, DraftsShaped, Formal
<1> HIDE DEF o
<1>3. RowTrue(Current(z)', made'[z])
  <2>1. /\ \A m \in made[z] : m.by \in {Current(z).owner, LocalOwner}
        /\ \A m, n \in made[z] : m # n => m.by # n.by /\ LocalOwner \in {m.by, n.by}
    BY DEF DraftInv, RowTrue
  <2>2. \A m \in made'[z] : m.by \in {Current(z)'.owner, LocalOwner}
    BY <1>1, <1>2, <2>1
  <2>3. \A m, n \in made'[z] : m # n => m.by # n.by /\ LocalOwner \in {m.by, n.by}
    BY <1>1, <1>2, <2>1
  <2> QED BY <1>2, <2>2, <2>3 DEF RowTrue
<1>4. \A y \in UnderReview : RowTrue(Current(y), made[y])'
  BY <1>2, <1>3 DEF DraftInv, RowTrue, Current, UnderReview
<1>5. \A u : u # o => Hands(u)
  BY <1>2 DEF Hands
<1>6. \A e \in Desk : Busy(e) /\ desk'[e] = desk[e] => desk[e].owner # o
  BY DEF o, DraftInv, DeskInv, Busy, Replied, Idle
<1>7. BackupTrue' /\ DeskMove(Ops \ {"approve"})
  BY DEF DraftInv, BackupTrue, ArchivedTrue, DeskMove
<1> QED BY <1>4, <1>5, <1>6, <1>7, ReviewKeeps

LEMMA ApproveKeeps ==
  ASSUME DraftInv, NEW d \in Desk, NEW x \in Draft, NEW s \in Scenario, ApproveScenarioDraft(d, x, s)
  PROVE  DraftInv'
<1>1. PICK row : row = [drafts[x] EXCEPT !.status = "approved", !.formal = s]
  OBVIOUS
<1>2. DOMAIN drafts[x] = DraftFields /\ x \in DOMAIN drafts
  BY DEF DraftInv, DraftsShaped
<1>3. drafts' = [drafts EXCEPT ![x] = row]
  BY <1>1, <1>2 DEF ApproveScenarioDraft, DraftFields
<1>4. DOMAIN row = DraftFields /\ row.status = "approved" /\ row.formal = s /\ row.owner = drafts[x].owner
  BY <1>1, <1>2 DEF DraftFields
<1>5. /\ desk[d].op = "approve" /\ desk[d].body = {x} /\ Replied(d) /\ UNCHANGED <<packDrafts, backup>>
      /\ made' = [made EXCEPT ![x] = @ \cup {Formal(s, desk[d].owner)}]
  BY DEF ApproveScenarioDraft
<1>6. DraftsShaped' /\ drafts'[x] = row /\ \A z \in Draft \ {x} : drafts'[z] = drafts[z]
  BY <1>3, <1>4, <1>5 DEF DraftInv, DraftsShaped, UnderReview
<1> QED BY <1>4, <1>5, <1>6, ApprovedKeeps DEF Current, UnderReview

LEMMA ApprovePackKeeps ==
  ASSUME DraftInv, NEW d \in Desk, NEW y \in PackDraft, NEW p \in Pack, ApproveTestPackDraft(d, y, p)
  PROVE  DraftInv'
<1>1. PICK row : row = [packDrafts[y] EXCEPT !.status = "approved", !.formal = p]
  OBVIOUS
<1>2. DOMAIN packDrafts[y] = PackDraftFields /\ y \in DOMAIN packDrafts /\ y \notin Draft
  BY AuthoringAssumption DEF DraftInv, DraftsShaped
<1>3. packDrafts' = [packDrafts EXCEPT ![y] = row]
  BY <1>1, <1>2 DEF ApproveTestPackDraft, PackDraftFields, DraftFields
<1>4. DOMAIN row = PackDraftFields /\ row.status = "approved" /\ row.formal = p /\ row.owner = packDrafts[y].owner
  BY <1>1, <1>2 DEF PackDraftFields, DraftFields
<1>5. /\ desk[d].op = "approve" /\ desk[d].body = {y} /\ Replied(d) /\ UNCHANGED <<drafts, backup>>
      /\ made' = [made EXCEPT ![y] = @ \cup {Formal(p, desk[d].owner)}]
  BY DEF ApproveTestPackDraft
<1>6. DraftsShaped' /\ packDrafts'[y] = row /\ \A z \in PackDraft \ {y} : packDrafts'[z] = packDrafts[z]
  BY <1>3, <1>4, <1>5 DEF DraftInv, DraftsShaped, UnderReview
<1> QED BY <1>2, <1>4, <1>5, <1>6, ApprovedKeeps DEF Current, UnderReview

(***************************************************************************)
(* Drafts that are made together or restored                               *)
(***************************************************************************)
\* A request of o that writes: in one step, or after the model answered it.
Handled(o) == Request(o) \/ \E d \in Desk : Busy(d) /\ desk[d].owner = o /\ Replied(d)

\* A row stays, or it is o's or nobody's and comes with the record its status asks for.
Restored(o, z) ==
  \/ Current(z)' = Current(z) /\ made'[z] = made[z]
  \/ /\ Current(z).owner \in {o, NoOne}
     /\ Current(z)'.status # "approved" => Current(z)'.formal = NoRef /\ made'[z] = {}
     /\ Current(z)'.status = "approved" => Current(z)'.owner = o /\ made'[z] = {Formal(Current(z)'.formal, o)}

LEMMA RestoredKeeps ==
  ASSUME DraftInv, NEW o \in Owner, Handled(o), DraftsShaped', UNCHANGED backup, \A z \in UnderReview : Restored(o, z)
  PROVE  DraftInv'
<1>1. ASSUME NEW z \in UnderReview
      PROVE  RowTrue(Current(z), made[z])'
  <2>1. RowTrue(Current(z), made[z])
    BY DEF DraftInv
  <2>2. \A f : Formal(f, o).by = o /\ Formal(f, o).formal = f
    BY DEF Formal
  <2>3. RowTrue(Current(z)', made'[z])
    BY <2>1, <2>2 DEF RowTrue, Restored
  <2> QED BY <2>3 DEF RowTrue, Current
<1>2. ASSUME NEW u \in Owner \ {o}
      PROVE  Hands(u)
  <2>1. NoOne # u
    BY WorkspaceAssumption
  <2> QED BY <2>1 DEF Hands, Restored, Formal
<1>3. \A d \in Desk : Busy(d) /\ desk'[d] = desk[d] => desk[d].owner \in Owner \ {o}
  BY AdmittedFree DEF Handled, Request, Replied, Idle, DraftInv, DeskInv, Busy
<1>4. BackupTrue' /\ DeskMove(Ops \ {"approve"})
  BY DEF DraftInv, BackupTrue, ArchivedTrue, DeskMove, Handled, Request
<1> QED BY <1>1, <1>2, <1>3, <1>4, ReviewKeeps

LEMMA ExportKeeps ==
  ASSUME DraftInv, NEW o \in Owner, ExportAuthoring(o)
  PROVE  DraftInv'
<1>1. /\ backup' = [backup EXCEPT !.drafts = Restrict(drafts, DraftsOf(o)),
                                  !.packDrafts = Restrict(packDrafts, PackDraftsOf(o))]
      /\ UNCHANGED <<desk, drafts, packDrafts, made>>
  BY DEF ExportAuthoring, wsVars
<1>2. /\ DOMAIN backup' = {"drafts", "packDrafts", "datasets", "bundle"}
      /\ backup'.drafts = Restrict(drafts, DraftsOf(o)) /\ backup'.packDrafts = Restrict(packDrafts, PackDraftsOf(o))
  BY <1>1 DEF DraftInv, BackupTrue
<1>3. \A z \in UnderReview : Current(z).status # "approved" => Current(z).formal = NoRef
  BY DEF DraftInv, RowTrue
<1>4. ArchivedTrue(backup'.drafts, DraftFields)
  BY <1>2, <1>3 DEF ArchivedTrue, Restrict, DraftsOf, DraftInv, DraftsShaped, Current, UnderReview
<1>5. ArchivedTrue(backup'.packDrafts, PackDraftFields)
  BY <1>2, <1>3, AuthoringAssumption DEF ArchivedTrue, Restrict, PackDraftsOf, DraftInv, DraftsShaped, Current, UnderReview
<1>6. BackupTrue'
  BY <1>2, <1>4, <1>5 DEF BackupTrue, ArchivedTrue
<1> QED BY <1>1, <1>6, StillKeeps DEF DeskMove

\* A row of an archive, in the name of who imports it.
LEMMA Renamed ==
  ASSUME NEW row, NEW fields, NEW o, DOMAIN row = fields, DraftFields \subseteq fields,
         row.status # "approved" => row.formal = NoRef, row.status = "approved" => row.formal # NoRef,
         NEW now, now = [row EXCEPT !.owner = o],
         NEW ms, ms = {Formal(f, o) : f \in {now.formal} \ {NoRef}}
  PROVE  /\ DOMAIN now = fields /\ now.owner = o
         /\ now.status # "approved" => ms = {} /\ now.formal = NoRef
         /\ now.status = "approved" => ms = {Formal(now.formal, o)}
<1>1. DOMAIN now = fields /\ now.owner = o /\ now.status = row.status /\ now.formal = row.formal
  BY DEF DraftFields
<1>2. now.status # "approved" => {now.formal} \ {NoRef} = {}
  BY <1>1
<1>3. now.status = "approved" => {now.formal} \ {NoRef} = {now.formal}
  BY <1>1
<1>4. now.status # "approved" => ms = {}
  BY <1>2
<1>5. now.status = "approved" => ms = {Formal(now.formal, o)}
  BY <1>3
<1> QED BY <1>1, <1>4, <1>5

LEMMA ImportKeeps ==
  ASSUME DraftInv, NEW o \in Owner, NEW mode, ImportAuthoring(o, mode)
  PROVE  DraftInv'
<1> DEFINE base == IF mode = "replace" THEN DraftsWithout(o) ELSE drafts
           packBase == IF mode = "replace" THEN PackDraftsWithout(o) ELSE packDrafts
           new == {x \in DOMAIN backup.drafts : base[x] = NoDraft}
           newPacks == {y \in DOMAIN backup.packDrafts : packBase[y] = NoPackDraft}
           records(now) == {Formal(f, o) : f \in {now.formal} \ {NoRef}}
<1>1. /\ Request(o) /\ UNCHANGED backup
      /\ \A x \in new : backup.drafts[x].status = "approved" => backup.drafts[x].formal \in ScenariosOf(o)
      /\ drafts' = [x \in Draft |-> IF x \in new THEN [backup.drafts[x] EXCEPT !.owner = o] ELSE base[x]]
      /\ \A y \in newPacks : backup.packDrafts[y].status = "approved" => backup.packDrafts[y].formal \in PacksOf(o)
      /\ packDrafts' = [y \in PackDraft |->
           IF y \in newPacks THEN [backup.packDrafts[y] EXCEPT !.owner = o] ELSE packBase[y]]
      /\ made' = [z \in UnderReview |->
           LET now == IF z \in Draft THEN drafts'[z] ELSE packDrafts'[z]
               same == IF z \in Draft THEN base[z] = drafts[z] /\ z \notin new
                       ELSE packBase[z] = packDrafts[z] /\ z \notin newPacks
           IN  IF same THEN made[z] ELSE records(now)]
  BY DEF ImportAuthoring, UnderReview
<1>2. NoRef \notin Scenario \cup Pack /\ NoOne \notin Owner
  BY WorkspaceAssumption
<1>3. ASSUME NEW x \in Draft
      PROVE  DOMAIN drafts'[x] = DraftFields /\ Restored(o, x)
  <2>1. base[x] = drafts[x] \/ (base[x] = NoDraft /\ drafts[x].owner = o)
    BY <1>3 DEF DraftsWithout
  <2>2. /\ drafts'[x] = IF x \in new THEN [backup.drafts[x] EXCEPT !.owner = o] ELSE base[x]
        /\ made'[x] = IF base[x] = drafts[x] /\ x \notin new THEN made[x] ELSE records(drafts'[x])
        /\ Current(x) = drafts[x] /\ Current(x)' = drafts'[x]
    BY <1>1, <1>3 DEF Current, UnderReview
  <2>3. CASE x \in new
    <3>1. /\ DOMAIN backup.drafts[x] = DraftFields
          /\ backup.drafts[x].status # "approved" => backup.drafts[x].formal = NoRef
          /\ backup.drafts[x].status = "approved" => backup.drafts[x].formal # NoRef
      BY <1>1, <1>2, <2>3 DEF DraftInv, BackupTrue, ArchivedTrue, ScenariosOf
    <3>2. drafts'[x] = [backup.drafts[x] EXCEPT !.owner = o] /\ made'[x] = records(drafts'[x])
      BY <2>2, <2>3
    <3>3. drafts[x].owner \in {o, NoOne}
      BY <2>1, <2>3 DEF NoDraft
    <3>4. DraftFields \subseteq DraftFields
      OBVIOUS
    <3> HIDE DEF new, base
    <3>5. /\ DOMAIN drafts'[x] = DraftFields /\ drafts'[x].owner = o
          /\ drafts'[x].status # "approved" => made'[x] = {} /\ drafts'[x].formal = NoRef
          /\ drafts'[x].status = "approved" => made'[x] = {Formal(drafts'[x].formal, o)}
      BY <3>1, <3>2, <3>4, Renamed
    <3> QED BY <2>2, <3>3, <3>5 DEF Restored
  <2>4. CASE x \notin new /\ base[x] = drafts[x]
    BY <2>2, <2>4 DEF Restored, DraftInv, DraftsShaped
  <2>5. CASE x \notin new /\ base[x] # drafts[x]
    <3>1. drafts'[x] = NoDraft /\ drafts[x].owner = o /\ made'[x] = records(drafts'[x])
      BY <2>1, <2>2, <2>5
    <3>2. {NoDraft.formal} \ {NoRef} = {} /\ NoDraft.status = "none" /\ NoDraft.formal = NoRef
          /\ DOMAIN NoDraft = DraftFields
      BY DEF NoDraft, DraftFields
    <3> HIDE DEF new, base
    <3> QED BY <2>2, <3>1, <3>2 DEF Restored
  <2> QED BY <2>3, <2>4, <2>5
<1>4. ASSUME NEW y \in PackDraft
      PROVE  DOMAIN packDrafts'[y] = PackDraftFields /\ Restored(o, y)
  <2>1. packBase[y] = packDrafts[y] \/ (packBase[y] = NoPackDraft /\ packDrafts[y].owner = o)
    BY <1>4 DEF PackDraftsWithout
  <2>2. /\ packDrafts'[y] = IF y \in newPacks THEN [backup.packDrafts[y] EXCEPT !.owner = o] ELSE packBase[y]
        /\ made'[y] = IF packBase[y] = packDrafts[y] /\ y \notin newPacks THEN made[y] ELSE records(packDrafts'[y])
        /\ Current(y) = packDrafts[y] /\ Current(y)' = packDrafts'[y]
    BY <1>1, <1>4, AuthoringAssumption DEF Current, UnderReview
  <2>3. CASE y \in newPacks
    <3>1. /\ DOMAIN backup.packDrafts[y] = PackDraftFields
          /\ backup.packDrafts[y].status # "approved" => backup.packDrafts[y].formal = NoRef
          /\ backup.packDrafts[y].status = "approved" => backup.packDrafts[y].formal # NoRef
      BY <1>1, <1>2, <2>3 DEF DraftInv, BackupTrue, ArchivedTrue, PacksOf
    <3>2. packDrafts'[y] = [backup.packDrafts[y] EXCEPT !.owner = o] /\ made'[y] = records(packDrafts'[y])
      BY <2>2, <2>3
    <3>3. packDrafts[y].owner \in {o, NoOne} /\ DraftFields \subseteq PackDraftFields
      BY <2>1, <2>3 DEF NoPackDraft, PackDraftFields
    <3> HIDE DEF newPacks, packBase
    <3>4. /\ DOMAIN packDrafts'[y] = PackDraftFields /\ packDrafts'[y].owner = o
          /\ packDrafts'[y].status # "approved" => made'[y] = {} /\ packDrafts'[y].formal = NoRef
          /\ packDrafts'[y].status = "approved" => made'[y] = {Formal(packDrafts'[y].formal, o)}
      BY <3>1, <3>2, <3>3, Renamed
    <3> QED BY <2>2, <3>3, <3>4 DEF Restored
  <2>4. CASE y \notin newPacks /\ packBase[y] = packDrafts[y]
    BY <2>2, <2>4 DEF Restored, DraftInv, DraftsShaped
  <2>5. CASE y \notin newPacks /\ packBase[y] # packDrafts[y]
    <3>1. packDrafts'[y] = NoPackDraft /\ packDrafts[y].owner = o /\ made'[y] = records(packDrafts'[y])
      BY <2>1, <2>2, <2>5
    <3>2. {NoPackDraft.formal} \ {NoRef} = {} /\ NoPackDraft.status = "none" /\ NoPackDraft.formal = NoRef
          /\ DOMAIN NoPackDraft = PackDraftFields
      BY DEF NoPackDraft, PackDraftFields, DraftFields
    <3> HIDE DEF newPacks, packBase
    <3> QED BY <2>2, <3>1, <3>2 DEF Restored
  <2> QED BY <2>3, <2>4, <2>5
<1>5. DraftsShaped'
  BY <1>1, <1>3, <1>4 DEF DraftsShaped, UnderReview
<1> QED BY <1>1, <1>3, <1>4, <1>5, RestoredKeeps DEF Handled, UnderReview

\* New drafts of o take rows that were free; what was made of the others stays.
LEMMA NewDraftsKeep ==
  ASSUME DraftInv, NEW o \in Owner, Handled(o), UNCHANGED <<made, backup>>,
         NEW new, \A x \in new : drafts[x] = NoDraft, drafts' = DraftsAdded(o, new),
         packDrafts' = [y \in PackDraft |-> packDrafts'[y]],
         \A y \in PackDraft : \/ packDrafts'[y] = packDrafts[y]
                              \/ packDrafts[y] = NoPackDraft /\ \E items : packDrafts'[y] = NewPackDraft(o, items)
  PROVE  DraftInv'
<1>1. ASSUME NEW x \in Draft
      PROVE  DOMAIN drafts'[x] = DraftFields /\ Restored(o, x)
  <2>1. /\ drafts'[x] = IF x \in new THEN NewDraft(o) ELSE drafts[x]
        /\ Current(x) = drafts[x] /\ Current(x)' = drafts'[x] /\ RowTrue(drafts[x], made[x])
    BY DEF DraftsAdded, Current, DraftInv, UnderReview
  <2>2. CASE x \in new
    <3>1. drafts[x].owner = NoOne /\ drafts[x].status = "none"
      BY <2>2 DEF NoDraft
    <3>2. /\ DOMAIN drafts'[x] = DraftFields
          /\ drafts'[x].status = "draft" /\ drafts'[x].formal = NoRef
      BY <2>1, <2>2 DEF NewDraft, DraftFields
    <3> QED BY <2>1, <3>1, <3>2 DEF Restored, RowTrue
  <2>3. CASE x \notin new
    BY <2>1, <2>3 DEF Restored, DraftInv, DraftsShaped
  <2> QED BY <2>2, <2>3
<1>2. ASSUME NEW y \in PackDraft
      PROVE  DOMAIN packDrafts'[y] = PackDraftFields /\ Restored(o, y)
  <2>1. Current(y) = packDrafts[y] /\ Current(y)' = packDrafts'[y] /\ RowTrue(packDrafts[y], made[y])
    BY AuthoringAssumption DEF Current, DraftInv, UnderReview
  <2>2. ASSUME packDrafts[y] = NoPackDraft, NEW items, packDrafts'[y] = NewPackDraft(o, items)
        PROVE  DOMAIN packDrafts'[y] = PackDraftFields /\ Restored(o, y)
    <3>1. packDrafts[y].owner = NoOne /\ packDrafts[y].status = "none"
      BY <2>2 DEF NoPackDraft
    <3>2. /\ DOMAIN packDrafts'[y] = PackDraftFields
          /\ packDrafts'[y].status = "draft" /\ packDrafts'[y].formal = NoRef
      BY <2>2 DEF NewPackDraft, PackDraftFields, DraftFields
    <3> QED BY <2>1, <3>1, <3>2 DEF Restored, RowTrue
  <2>3. CASE packDrafts'[y] = packDrafts[y]
    BY <2>1, <2>3 DEF Restored, DraftInv, DraftsShaped
  <2> QED BY <2>2, <2>3
<1>3. DraftsShaped'
  BY <1>1, <1>2 DEF DraftsShaped, DraftsAdded, DraftInv, UnderReview
<1> QED BY <1>1, <1>2, <1>3, RestoredKeeps DEF UnderReview

LEMMA TogetherKeeps ==
  ASSUME DraftInv, NEW o \in Owner, Handled(o), NEW new, NEW y \in PackDraft, Together(o, new, y)
  PROVE  DraftInv'
<1>1. /\ \A x \in new : drafts[x] = NoDraft
      /\ drafts' = DraftsAdded(o, new) /\ UNCHANGED <<made, backup>>
      /\ \/ UNCHANGED packDrafts
         \/ packDrafts[y] = NoPackDraft /\ \E items : packDrafts' = [packDrafts EXCEPT ![y] = NewPackDraft(o, items)]
  BY DEF Together
<1>2. packDrafts = [z \in PackDraft |-> packDrafts[z]]
  BY DEF DraftInv, DraftsShaped
<1>3. packDrafts' = [z \in PackDraft |-> packDrafts'[z]]
  BY <1>1, <1>2
<1>4. \A z \in PackDraft : \/ packDrafts'[z] = packDrafts[z]
                           \/ packDrafts[z] = NoPackDraft /\ \E items : packDrafts'[z] = NewPackDraft(o, items)
  BY <1>1, <1>2
<1> QED BY <1>1, <1>3, <1>4, NewDraftsKeep

LEMMA BundleKeeps ==
  ASSUME DraftInv, NEW o \in Owner, NEW draftOf, NEW packDraftOf, NEW whole,
         ImportBundle(o, draftOf, packDraftOf, whole)
  PROVE  DraftInv'
<1>1. /\ Handled(o) /\ UNCHANGED <<made, backup>>
      /\ drafts' = DraftsAdded(o, Range(draftOf))
  BY DEF ImportBundle, Handled
<1>2. \A x \in Range(draftOf) : drafts[x] = NoDraft
  BY DEF ImportBundle, Injection, Range
<1>3. \A y \in Range(packDraftOf) : packDrafts[y] = NoPackDraft
  BY DEF ImportBundle, Injection, Range
<1>4. packDrafts' = [y \in PackDraft |-> packDrafts'[y]]
  BY DEF ImportBundle
<1>5. ASSUME NEW y \in PackDraft
      PROVE  \/ packDrafts'[y] = packDrafts[y]
             \/ packDrafts[y] = NoPackDraft /\ \E items : packDrafts'[y] = NewPackDraft(o, items)
  <2>1. CASE whole /\ y \in Range(packDraftOf)
    BY <1>3, <2>1 DEF ImportBundle
  <2>2. CASE ~(whole /\ y \in Range(packDraftOf))
    BY <2>2 DEF ImportBundle
  <2> QED BY <2>1, <2>2
<1> QED BY <1>1, <1>2, <1>4, <1>5, NewDraftsKeep

(***************************************************************************)
(* A studio changes hands                                                  *)
(***************************************************************************)
LEMMA ClaimKeeps ==
  ASSUME DraftInv, NEW o \in Owner, NEW done, ClaimStudio(o, done)
  PROVE  DraftInv'
<1>1. /\ Request(o) /\ o # LocalOwner /\ UNCHANGED <<made, backup>>
      /\ \/ UNCHANGED <<drafts, packDrafts>>
         \/ /\ drafts' = [x \in Draft |-> IF drafts[x].owner = LocalOwner THEN [drafts[x] EXCEPT !.owner = o] ELSE drafts[x]]
            /\ packDrafts' = [y \in PackDraft |-> IF packDrafts[y].owner = LocalOwner
                                                  THEN [packDrafts[y] EXCEPT !.owner = o] ELSE packDrafts[y]]
  BY DEF ClaimStudio, ClaimLocalWorkspace
<1>2. ASSUME NEW x \in Draft
      PROVE  /\ DOMAIN drafts'[x] = DraftFields
             /\ drafts'[x].status = drafts[x].status /\ drafts'[x].formal = drafts[x].formal
             /\ drafts'[x].owner \in {drafts[x].owner, o}
             /\ drafts'[x].owner # drafts[x].owner => drafts[x].owner = LocalOwner
  <2>1. DOMAIN drafts[x] = DraftFields
    BY DEF DraftInv, DraftsShaped
  <2>2. drafts'[x] \in {drafts[x], [drafts[x] EXCEPT !.owner = o]}
        /\ (drafts'[x] # drafts[x] => drafts[x].owner = LocalOwner)
    BY <1>1
  <2> QED BY <2>1, <2>2 DEF DraftFields
<1>3. ASSUME NEW y \in PackDraft
      PROVE  /\ DOMAIN packDrafts'[y] = PackDraftFields
             /\ packDrafts'[y].status = packDrafts[y].status /\ packDrafts'[y].formal = packDrafts[y].formal
             /\ packDrafts'[y].owner \in {packDrafts[y].owner, o}
             /\ packDrafts'[y].owner # packDrafts[y].owner => packDrafts[y].owner = LocalOwner
  <2>1. DOMAIN packDrafts[y] = PackDraftFields
    BY DEF DraftInv, DraftsShaped
  <2>2. packDrafts'[y] \in {packDrafts[y], [packDrafts[y] EXCEPT !.owner = o]}
        /\ (packDrafts'[y] # packDrafts[y] => packDrafts[y].owner = LocalOwner)
    BY <1>1
  <2> QED BY <2>1, <2>2 DEF PackDraftFields, DraftFields
<1>4. DraftsShaped'
  BY <1>1, <1>2, <1>3 DEF DraftInv, DraftsShaped, UnderReview
<1>5. ASSUME NEW z \in UnderReview
      PROVE  /\ Current(z)'.status = Current(z).status /\ Current(z)'.formal = Current(z).formal
             /\ Current(z)'.owner # Current(z).owner => Current(z).owner = LocalOwner
             /\ made'[z] = made[z] /\ RowTrue(Current(z), made[z])
  BY <1>1, <1>2, <1>3 DEF Current, UnderReview, DraftInv
<1>6. ASSUME NEW z \in UnderReview
      PROVE  RowTrue(Current(z), made[z])'
  <2>1. RowTrue(Current(z)', made'[z])
    BY <1>5 DEF RowTrue
  <2> QED BY <2>1 DEF RowTrue, Current
<1>7. ASSUME NEW u \in Owner \ {o}
      PROVE  Hands(u)
  BY <1>5 DEF Hands
<1> QED BY <1>1, <1>4, <1>6, <1>7, RequestKeeps DEF DraftInv, BackupTrue, ArchivedTrue

LEMMA DeleteKeeps ==
  ASSUME DraftInv, NEW o \in Owner, NEW done, DeleteStudio(o, done)
  PROVE  DraftInv'
<1>1. /\ Handled(o) /\ UNCHANGED backup
      /\ drafts' = drafts \/ drafts' = DraftsWithout(o)
      /\ packDrafts' = packDrafts \/ packDrafts' = PackDraftsWithout(o)
      /\ made' = [z \in UnderReview |->
           IF (IF z \in Draft THEN drafts'[z] = NoDraft ELSE packDrafts'[z] = NoPackDraft) THEN {} ELSE made[z]]
  BY DEF DeleteStudio, DeleteWorkspace, Handled, UnderReview
<1>2. ASSUME NEW x \in Draft
      PROVE  DOMAIN drafts'[x] = DraftFields /\ Restored(o, x)
  <2>1. drafts'[x] = drafts[x] \/ (drafts'[x] = NoDraft /\ drafts[x].owner = o)
    BY <1>1 DEF DraftsWithout
  <2>2. /\ made'[x] = IF drafts'[x] = NoDraft THEN {} ELSE made[x]
        /\ Current(x) = drafts[x] /\ Current(x)' = drafts'[x] /\ RowTrue(drafts[x], made[x])
        /\ DOMAIN drafts[x] = DraftFields
    BY <1>1 DEF Current, UnderReview, DraftInv, DraftsShaped
  <2> QED BY <2>1, <2>2 DEF Restored, RowTrue, NoDraft, DraftFields
<1>3. ASSUME NEW y \in PackDraft
      PROVE  DOMAIN packDrafts'[y] = PackDraftFields /\ Restored(o, y)
  <2>1. packDrafts'[y] = packDrafts[y] \/ (packDrafts'[y] = NoPackDraft /\ packDrafts[y].owner = o)
    BY <1>1 DEF PackDraftsWithout
  <2>2. /\ made'[y] = IF packDrafts'[y] = NoPackDraft THEN {} ELSE made[y]
        /\ Current(y) = packDrafts[y] /\ Current(y)' = packDrafts'[y] /\ RowTrue(packDrafts[y], made[y])
        /\ DOMAIN packDrafts[y] = PackDraftFields
    BY <1>1, AuthoringAssumption DEF Current, UnderReview, DraftInv, DraftsShaped
  <2> QED BY <2>1, <2>2 DEF Restored, RowTrue, NoPackDraft, PackDraftFields, DraftFields
<1>4. DraftsShaped'
  BY <1>1, <1>2, <1>3 DEF DraftInv, DraftsShaped, DraftsWithout, PackDraftsWithout, UnderReview
<1> QED BY <1>1, <1>2, <1>3, <1>4, RestoredKeeps DEF UnderReview

(***************************************************************************)
(* Every step                                                              *)
(***************************************************************************)
LEMMA StudioKeeps ==
  ASSUME DraftInv, StudioStep
  PROVE  DraftInv'
<1> USE DEF Ops
<1>1. UNCHANGED <<drafts, packDrafts, made, backup>> /\ BackupTrue' /\ DeskInv
  BY DEF StudioStep, authoringVars, DraftInv, BackupTrue, ArchivedTrue
<1>2. ASSUME NEW ops \in SUBSET (Ops \ {"approve"}), DeskMove(ops)
      PROVE  DraftInv'
  <2>1. DeskMove(Ops \ {"approve"})
    BY <1>2 DEF DeskMove
  <2> QED BY <1>1, <2>1, StillKeeps
<1>3. CASE CharacterStep
  <2>1. CASE Quiet({})
    BY <1>2, <2>1 DEF Quiet
  <2>2. ASSUME NEW d \in Desk, NEW o \in Owner, AskCard(d, o)
        PROVE  DraftInv'
    <3>1. PICK op \in {"card", "prompt"} : Begin(d, o, op, "none")
      BY <2>2 DEF AskCard
    <3>2. DeskMove({"card", "prompt"})
      BY <1>1, <3>1, BeginAsks DEF DeskMove
    <3> QED BY <1>2, <3>2
  <2>3. ASSUME NEW d \in Desk,
               \/ \E c \in Card, t \in Target \cup {Demo} : CreateCharacter(d, c, t)
               \/ \E c \in Card, t \in Target, done \in 1..5 : CreatePromptCharacter(d, c, t, done)
        PROVE  DraftInv'
    <3>1. DeskMove({})
      BY <2>3 DEF CreateCharacter, CreatePromptCharacter, DeskMove
    <3> QED BY <1>2, <3>1
  <2>4. ASSUME NEW o \in Owner, NEW c \in Card, DeleteCharacter(o, c)
        PROVE  DraftInv'
    <3>1. DeskMove({})
      BY <2>4 DEF DeleteCharacter, Request, DeskMove
    <3> QED BY <1>2, <3>1
  <2> QED BY <1>1, <1>3, <2>1, <2>2, <2>3, <2>4, CharacterQuiet
<1>4. CASE PackStep
  BY <1>1, <1>2, <1>4, PackQuiet DEF Quiet
<1>5. CASE RunStep
  BY <1>1, <1>2, <1>5, RunQuiet DEF Quiet
<1>6. CASE ArchiveStep
  <2>1. ASSUME NEW o \in Owner, ExportWorkspace(o)
        PROVE  DeskMove({"import"})
    BY <2>1 DEF ExportWorkspace, DeskMove
  <2>2. ASSUME NEW d \in Desk, NEW o \in Owner, NEW mode, AskImport(d, o, mode)
        PROVE  DeskMove({"import"})
    BY <1>1, <2>2, ImportAsks DEF DeskMove
  <2>3. ASSUME NEW d \in Desk, ImportWorkspace(d) \/ GiveUp(d)
        PROVE  DeskMove({"import"})
    BY <2>3 DEF ImportWorkspace, GiveUp, DeskMove
  <2> QED BY <1>2, <1>6, <2>1, <2>2, <2>3 DEF ArchiveStep
<1> QED BY <1>3, <1>4, <1>5, <1>6 DEF StudioStep

LEMMA DraftKeeps ==
  ASSUME DraftInv, DraftStep
  PROVE  DraftInv'
<1>1. ASSUME NEW o \in Owner, NEW x \in Draft,
             \/ CreateScenarioDraft(o, x) \/ UpdateScenarioDraft(o, x)
             \/ RejectScenarioDraft(o, x) \/ DeleteScenarioDraft(o, x)
      PROVE  DraftInv'
  BY <1>1, EditDraft, DropDraft
<1>2. ASSUME NEW o \in Owner, NEW y \in PackDraft,
             \/ RejectTestPackDraft(o, y) \/ DeleteTestPackDraft(o, y)
             \/ \E items \in SUBSET (Draft \cup Scenario) : CreateTestPackDraft(o, y, items) \/ UpdateTestPackDraft(o, y, items)
      PROVE  DraftInv'
  BY <1>2, EditPackDraft
<1>3. ASSUME NEW d \in Desk, NEW o \in Owner, NEW z \in Draft \cup PackDraft, AskApproval(d, o, z)
      PROVE  DraftInv'
  BY <1>3, AskApprovalKeeps DEF UnderReview
<1> QED BY <1>1, <1>2, <1>3, ApproveKeeps, ApprovePackKeeps, ExportKeeps, ImportKeeps DEF DraftStep

LEMMA TogetherStepKeeps ==
  ASSUME DraftInv, TogetherStep
  PROVE  DraftInv'
<1>1. ASSUME NEW d \in Desk, NEW o \in Owner, NEW c \in Card, AskGeneration(d, o, c)
      PROVE  DraftInv'
  <2>1. Begin(d, o, "generate", "none") /\ UNCHANGED <<drafts, packDrafts, made, backup>>
    BY <1>1 DEF AskGeneration, authoringVars
  <2>2. DeskMove(Ops \ {"approve"}) /\ BackupTrue'
    BY <2>1, BeginAsks DEF DraftInv, DeskMove, Ops, BackupTrue, ArchivedTrue
  <2> QED BY <2>1, <2>2, StillKeeps
<1>2. ASSUME NEW d \in Desk, NEW new, NEW y \in PackDraft, Generate(d, new, y)
      PROVE  DraftInv'
  <2>1. Handled(desk[d].owner) /\ desk[d].owner \in Owner /\ Together(desk[d].owner, new, y)
    BY <1>2 DEF Generate, Handled, Busy, DraftInv, DeskInv
  <2> QED BY <2>1, TogetherKeeps
<1>3. ASSUME NEW o \in Owner, NEW new, NEW y \in PackDraft, InstantiateTemplate(o, new, y)
      PROVE  DraftInv'
  BY <1>3, TogetherKeeps DEF InstantiateTemplate, Handled
<1>4. ASSUME NEW o \in Owner, NEW ss, NEW pp, ExportBundle(o, ss, pp)
      PROVE  DraftInv'
  <2>1. PICK b : backup' = [backup EXCEPT !.bundle = b]
    BY <1>4 DEF ExportBundle
  <2>2. BackupTrue'
    BY <2>1 DEF DraftInv, BackupTrue, ArchivedTrue
  <2>3. UNCHANGED <<desk, drafts, packDrafts, made>>
    BY <1>4 DEF ExportBundle, wsVars
  <2> QED BY <2>2, <2>3, StillKeeps DEF DeskMove
<1> QED BY <1>1, <1>2, <1>3, <1>4, BundleKeeps DEF TogetherStep

LEMMA CalibrationKeeps ==
  ASSUME DraftInv, CalibrationStep
  PROVE  DraftInv'
<1>1. DeskMove(Ops \ {"approve"})
  BY CalibrationQuiet DEF DraftInv, Quiet, DeskMove, Ops
<1>2. ASSUME NEW o \in Owner, NEW z \in Dataset,
             \/ CreateDataset(o, z) \/ ApproveDataset(o, z) \/ ArchiveDataset(o, z) \/ DeleteDataset(o, z)
             \/ \E from \in Dataset : CreateNextVersion(o, from, z)
             \/ \E c \in Card \cup {NoRef}, r \in Run \cup {NoRef} : AddCase(o, z, c, r)
             \/ \E i \in 1..MaxCases : DeleteCase(o, z, i) \/ \E c \in Card \cup {NoRef} : UpdateCase(o, z, i, c)
      PROVE  UNCHANGED <<drafts, packDrafts, made, backup>>
  BY <1>2 DEF CreateDataset, ApproveDataset, ArchiveDataset, DeleteDataset, CreateNextVersion, AddCase, DeleteCase,
              UpdateCase, OnlyDatasets
<1>3. ASSUME NEW d \in Desk, NEW o \in Owner, NEW z \in Dataset, AskEvaluation(d, o, z)
      PROVE  UNCHANGED <<drafts, packDrafts, made, backup>>
  BY <1>3 DEF AskEvaluation, authoringVars
<1>4. ASSUME NEW d \in Desk, NEW e, NEW modes, NEW failed, SaveEvaluation(d, e, modes, failed)
      PROVE  UNCHANGED <<drafts, packDrafts, made, backup>>
  BY <1>4 DEF SaveEvaluation
<1>5. ASSUME NEW o \in Owner, NEW mode, NEW newId, ImportCalibration(o, mode, newId)
      PROVE  UNCHANGED <<drafts, packDrafts, made, backup>>
  BY <1>5 DEF ImportCalibration, OnlyDatasets
<1>6. ASSUME NEW o \in Owner, ExportCalibration(o)
      PROVE  UNCHANGED <<drafts, packDrafts, made>> /\ BackupTrue'
  <2>1. PICK b : backup' = [backup EXCEPT !.datasets = b]
    BY <1>6 DEF ExportCalibration
  <2>2. BackupTrue'
    BY <2>1 DEF DraftInv, BackupTrue, ArchivedTrue
  <2> QED BY <1>6, <2>2 DEF ExportCalibration
<1>7. UNCHANGED <<drafts, packDrafts, made>> /\ (backup' = backup \/ BackupTrue')
  BY <1>2, <1>3, <1>4, <1>5, <1>6 DEF CalibrationStep
<1>8. BackupTrue'
  BY <1>7 DEF DraftInv, BackupTrue, ArchivedTrue
<1> QED BY <1>1, <1>7, <1>8, StillKeeps

LEMMA DraftInitInv ==
  ASSUME StudioInit
  PROVE  DraftInv
<1>1. DeskInv
  BY QuotaInitInv DEF QuotaInv
<1>2. /\ drafts = [x \in Draft |-> NoDraft] /\ packDrafts = [y \in PackDraft |-> NoPackDraft]
      /\ made = [z \in UnderReview |-> {}]
      /\ backup = [drafts |-> <<>>, packDrafts |-> <<>>, datasets |-> <<>>, bundle |-> [scenarios |-> {}, packs |-> <<>>]]
      /\ desk = [d \in Desk |-> Idle]
  BY DEF StudioInit, AuthoringInit, WorkspaceTables, UnderReview
<1>3. DraftsShaped
  BY <1>2 DEF DraftsShaped, NoDraft, NoPackDraft, PackDraftFields, DraftFields
<1>4. BackupTrue
  BY <1>2 DEF BackupTrue, ArchivedTrue
<1>5. \A z \in UnderReview : RowTrue(Current(z), made[z])
  BY <1>2 DEF RowTrue, Current, UnderReview, NoDraft, NoPackDraft
<1>6. \A d \in Desk : ApprovalOpen(desk[d])
  BY <1>2 DEF ApprovalOpen, Idle
<1> QED BY <1>1, <1>3, <1>4, <1>5, <1>6 DEF DraftInv

\* A draft becomes one formal Scenario or Test Pack, however approvals, edits,
\* rejections, archives and bundles overlap (approve_scenario_draft,
\* approve_test_pack_draft, import_authoring); only the owner of the local workspace
\* and whoever takes it over may both approve.
THEOREM DraftsApprovedOnce == StudioSpec => []ApprovedOnce
<1>1. StudioInit => DraftInv
  BY DraftInitInv
<1>2. DraftInv /\ [StudioNext]_<<wsVars, authoringVars>> => DraftInv'
  <2> SUFFICES ASSUME DraftInv, [StudioNext]_<<wsVars, authoringVars>>
               PROVE  DraftInv'
    OBVIOUS
  <2>1. CASE UNCHANGED <<wsVars, authoringVars>>
    <3>1. UNCHANGED <<desk, drafts, packDrafts, made, backup>>
      BY <2>1 DEF wsVars, authoringVars
    <3>2. BackupTrue' /\ DeskMove(Ops \ {"approve"})
      BY <3>1 DEF DraftInv, BackupTrue, ArchivedTrue, DeskMove
    <3> QED BY <3>1, <3>2, StillKeeps
  <2>2. CASE HandoverStep
    BY <2>2, ClaimKeeps, DeleteKeeps DEF HandoverStep
  <2> QED BY <2>1, <2>2, StudioKeeps, DraftKeeps, TogetherStepKeeps, CalibrationKeeps DEF StudioNext
<1>3. DraftInv => ApprovedOnce
  BY DEF DraftInv, ApprovedOnce, RowTrue, Current, UnderReview
<1> QED BY <1>1, <1>2, <1>3, PTL DEF StudioSpec
=============================================================================
