---------------------------- MODULE RuntimeProofs ----------------------------
(***************************************************************************)
(* What the Core may expect of the platform it rests on: its budgets for   *)
(* model calls, its tools to the outside, its storage.                     *)
(*                                                                         *)
(* GatewayKept counts.  A caller pays only after it has seen the day's     *)
(* budget with room, so what was bought and those who may still buy never  *)
(* exceed the budget by more than the callers that looked at once          *)
(* (MoneyTrue); attempts are bounded by what each caller knows of its own  *)
(* routes (AsksTrue, AttemptsTrue).                                        *)
(*                                                                         *)
(* OutsideStays describes the awaits.  Whoever uses a browser context      *)
(* holds its session, what was found in order without queuing is not what  *)
(* the cleaner is about to close, and the counter of active calls is the   *)
(* number of those inside (OutsideInv).                                    *)
(*                                                                         *)
(* StartsAreWhole follows a process through its start.  Where it stands    *)
(* tells which revisions it has seen (ProcTrue), and no step of another    *)
(* process takes any of that back (Forward): schema, ledger and cutover    *)
(* only grow.  The rows of the public demo are true of the process that    *)
(* synchronizes alone (DemoInv); two that do it side by side are the       *)
(* exception StartsWhole names.                                            *)
(***************************************************************************)
EXTENDS ModelGateway, OutsideTools, Storage, FiniteSetTheorems, SequenceTheorems, TLAPS

(***************************************************************************)
(* Model calls                                                             *)
(***************************************************************************)
AskFields == {"pc", "kind", "routes", "mode", "tries", "outcome", "toolFailed", "lost"}
Leg == [member : Member \cup {NoMember}, tier : {"free", "paid", "own"}]

\* A request with this record and this trace: while its call is out nothing is known of it, and
\* its trace has a row unless one was lost.
AskTrue(r, t) ==
  /\ DOMAIN r = AskFields /\ r.routes \in Seq(Leg) /\ (r.pc # "idle" => r.routes # <<>>)
  /\ r.pc \in {"post", "wait", "look"} => r.outcome = "none" /\ (~r.lost => t # NoTrace)
  /\ r.outcome \notin {"none", "budget"} /\ ~r.lost =>
       t = IF r.outcome = "ok" /\ ~r.toolFailed THEN "succeeded" ELSE "error"

\* Requests that may still be served by the paid fallback.
MayPay(r) == \E i \in DOMAIN r.routes : r.routes[i].tier = "paid"
Paying == {a \in Asker : MayPay(ask[a])}

AsksTrue ==
  /\ ask = [a \in Asker |-> ask[a]] /\ trace = [a \in Asker |-> trace[a]]
  /\ \A a \in Asker : AskTrue(ask[a], trace[a])

\* Whoever may pay saw a budget that had room for one more.
MoneyTrue ==
  /\ spent \in Nat /\ bought = spent
  /\ bought + Cardinality(Paying) <= Budget + Cardinality(Asker) - 1

AttemptsTrue == posts = used /\ used \in Nat /\ used <= Ceiling

GatewayInv == AsksTrue /\ MoneyTrue /\ AttemptsTrue

LEMMA AskersFinite == /\ IsFiniteSet(Asker) /\ Cardinality(Asker) \in Nat /\ Cardinality(Asker) >= 1
                      /\ IsFiniteSet(Paying) /\ Cardinality(Paying) \in Nat
                      /\ Cardinality(Paying) <= Cardinality(Asker)
<1>1. IsFiniteSet(Asker) /\ Asker # {}
  BY GatewayAssumption
<1>2. Paying \subseteq Asker
  BY DEF Paying
<1>3. Cardinality(Asker) \in Nat /\ Cardinality(Asker) # 0
  BY <1>1, FS_CardinalityType, FS_EmptySet
<1>4. IsFiniteSet(Paying) /\ Cardinality(Paying) <= Cardinality(Asker)
  BY <1>1, <1>2, FS_Subset
<1>5. Cardinality(Paying) \in Nat
  BY <1>4, FS_CardinalityType
<1> QED BY <1>1, <1>3, <1>4, <1>5
\* A request changes and nobody new may pay.
LEMMA AsksKept ==
  ASSUME AsksTrue, NEW a \in Asker, NEW r, NEW t, AskTrue(r, t),
         Asks(a, r), trace' = [trace EXCEPT ![a] = t]
  PROVE  AsksTrue' /\ ask'[a] = r /\ \A b \in Asker \ {a} : ask'[b] = ask[b]
  BY DEF AsksTrue, Asks

LEMMA AskMoves ==
  ASSUME GatewayInv, NEW a \in Asker, NEW r, NEW t, AskTrue(r, t),
         Asks(a, r), trace' = [trace EXCEPT ![a] = t],
         MayPay(r) => MayPay(ask[a]), UNCHANGED <<spent, bought>>, AttemptsTrue'
  PROVE  GatewayInv'
<1>1. AsksTrue' /\ ask'[a] = r /\ \A b \in Asker \ {a} : ask'[b] = ask[b]
  BY AsksKept DEF GatewayInv
<1>2. Paying' \subseteq Paying
  BY <1>1 DEF Paying
<1>3. Cardinality(Paying') <= Cardinality(Paying) /\ Cardinality(Paying') \in Nat
  BY <1>2, AskersFinite, FS_Subset, FS_CardinalityType
<1>4. MoneyTrue'
  BY <1>3, AskersFinite, GatewayAssumption DEF GatewayInv, MoneyTrue
<1> QED BY <1>1, <1>4 DEF GatewayInv

\* The routes of a request.
LEMMA SomeFreeRoutes ==
  ASSUME NEW members \in SUBSET Member, NEW s \in FreeRoutes(members)
  PROVE  /\ s \in Seq(Member)
         /\ FreeTier(s) \in Seq(Leg) /\ Len(FreeTier(s)) = Len(s)
         /\ \A i \in 1..Len(s) : FreeTier(s)[i].tier = "free"
<1>1. IsFiniteSet(members) /\ IsFiniteSet({m \in members : Eligible(m)})
  BY GatewayAssumption, FS_Subset
<1>2. PICK n \in Nat : n = Cardinality({m \in members : Eligible(m)})
  BY <1>1, FS_CardinalityType
<1>3. s \in [1..n -> {m \in members : Eligible(m)}]
  BY <1>2 DEF FreeRoutes, SetToSeqs
<1>4. s \in Seq(Member) /\ DOMAIN s = 1..Len(s)
  BY <1>3
<1>5. \A i \in 1..Len(s) : s[i] \in Member
  BY <1>4
<1>6. FreeTier(s) = [i \in 1..Len(s) |-> [member |-> s[i], tier |-> "free"]]
  BY <1>4 DEF FreeTier
<1>7. FreeTier(s) \in [1..Len(s) -> Leg]
  BY <1>5, <1>6 DEF Leg
<1> QED BY <1>4, <1>6, <1>7

LEMMA TailRoutes ==
  ASSUME NEW a \in Asker, ask[a].routes \in Seq(Leg), ask[a].routes # <<>>, NEW r, r = NextRoute(a),
         NEW t
  PROVE  AskTrue(r, t) /\ (MayPay(r) => MayPay(ask[a]))
<1>1. CASE Len(ask[a].routes) = 1
  <2>1. r = NoAsk
    BY <1>1 DEF NextRoute
  <2> QED BY <2>1 DEF AskTrue, MayPay, NoAsk, AskFields
<1>2. CASE Len(ask[a].routes) # 1
  <2>1. PICK q : q = Tail(ask[a].routes)
    OBVIOUS
  <2>2. q \in Seq(Leg) /\ q # <<>> /\ \A i \in DOMAIN q : i + 1 \in DOMAIN ask[a].routes /\ q[i] = ask[a].routes[i + 1]
    <3>1. Len(ask[a].routes) \in Nat /\ Len(ask[a].routes) > 1
      <4>1. Len(ask[a].routes) \in Nat
        BY LenProperties
      <4>2. Len(ask[a].routes) # 0
        BY EmptySeq
      <4>3. \A n \in Nat : n # 0 /\ n # 1 => n > 1
        OBVIOUS
      <4> QED BY <1>2, <4>1, <4>2, <4>3, Zenon
    <3>2. q \in Seq(Leg) /\ Len(q) = Len(ask[a].routes) - 1
      BY <2>1
    <3>3. \A i \in 1..Len(q) : q[i] = ask[a].routes[i + 1]
      BY <2>1, <3>2
    <3>4. q # <<>>
      BY <3>1, <3>2, EmptySeq
    <3> QED BY <3>1, <3>2, <3>3, <3>4
  <2>3. r = [NoAsk EXCEPT !.pc = "start", !.kind = ask[a].kind, !.routes = q,
                          !.mode = IF ask[a].kind = "utility" THEN 1 ELSE 3]
    BY <1>2, <2>1 DEF NextRoute
  <2>4. r.routes = q /\ DOMAIN r = AskFields /\ r.pc = "start" /\ r.outcome = "none"
    BY <2>3 DEF NoAsk, AskFields
  <2>5. AskTrue(r, t)
    BY <2>2, <2>4 DEF AskTrue
  <2>6. MayPay(r) => MayPay(ask[a])
    BY <2>2, <2>4 DEF MayPay
  <2> QED BY <2>5, <2>6
<1> QED BY <1>1, <1>2

LEMMA BegunTrue ==
  ASSUME NEW routes \in Seq(Leg), NEW kind, NEW mode, NEW t, NEW r, r = Begun(kind, routes, mode)
  PROVE  AskTrue(r, t) /\ (MayPay(r) => \E i \in DOMAIN routes : routes[i].tier = "paid")
<1>1. CASE routes = <<>>
  <2>1. r = NoAsk
    BY <1>1 DEF Begun
  <2> QED BY <2>1 DEF AskTrue, NoAsk, AskFields, MayPay
<1>2. CASE routes # <<>>
  <2>1. r = [NoAsk EXCEPT !.pc = "start", !.kind = kind, !.routes = routes, !.mode = mode]
    BY <1>2 DEF Begun
  <2>2. r.routes = routes /\ DOMAIN r = AskFields /\ r.pc = "start" /\ r.outcome = "none"
    BY <2>1 DEF NoAsk, AskFields
  <2> QED BY <1>2, <2>2 DEF AskTrue, MayPay
<1> QED BY <1>1, <1>2

LEMMA AskUtilityKeeps ==
  ASSUME GatewayInv, NEW a \in Asker, AskUtility(a)
  PROVE  GatewayInv'
<1>1. PICK s \in FreeRoutes(Member), p \in IF PaidMembers = {} THEN {NoMember} ELSE PaidMembers :
        Asks(a, Begun("utility", UtilityRoutes(s, p), 1))
  BY DEF AskUtility
<1>2. PICK last : last = (IF p = NoMember THEN <<>> ELSE <<[member |-> p, tier |-> "paid"]>>)
  OBVIOUS
<1>3. PICK routes : routes = UtilityRoutes(s, p)
  OBVIOUS
<1>4. routes = FreeTier(s) \o last
  BY <1>2, <1>3 DEF UtilityRoutes
<1>5. PICK r : r = Begun("utility", routes, 1)
  OBVIOUS
<1>6. p # NoMember => p \in Member /\ spent + 1 <= Budget
  BY GatewayAssumption DEF PaidMembers
<1>7. last \in Seq(Leg) /\ (p = NoMember => last = <<>>)
  <2>1. CASE p = NoMember
    BY <1>2, <2>1
  <2>2. CASE p # NoMember
    <3>1. [member |-> p, tier |-> "paid"] \in Leg
      BY <1>6, <2>2 DEF Leg
    <3> QED BY <1>2, <2>2, <3>1
  <2> QED BY <2>1, <2>2
<1>8. FreeTier(s) \in Seq(Leg) /\ \A i \in 1..Len(FreeTier(s)) : FreeTier(s)[i].tier = "free"
  BY SomeFreeRoutes
<1>9. routes \in Seq(Leg)
  BY <1>4, <1>7, <1>8
<1>10. p = NoMember => \A i \in DOMAIN routes : routes[i].tier = "free"
  <2>1. ASSUME p = NoMember PROVE routes = FreeTier(s)
    BY <1>4, <1>7, <1>8, <2>1
  <2> QED BY <1>8, <2>1
<1>11. AskTrue(r, trace[a]) /\ (MayPay(r) => p # NoMember)
  BY <1>5, <1>9, <1>10, BegunTrue
<1>12. Asks(a, r)
  BY <1>1, <1>3, <1>5
<1>13. UNCHANGED <<spent, bought, used, posts, trace>>
  BY DEF AskUtility, poolVars
<1>14. trace' = [trace EXCEPT ![a] = trace[a]]
  BY <1>13 DEF GatewayInv, AsksTrue
<1>15. CASE p = NoMember
  BY <1>11, <1>12, <1>13, <1>14, <1>15, AskMoves DEF GatewayInv, AttemptsTrue
<1>16. CASE p # NoMember
  <2>1. AsksTrue'
    BY <1>11, <1>12, <1>14, AsksKept DEF GatewayInv
  <2>2. Cardinality(Paying') <= Cardinality(Asker) /\ Cardinality(Paying') \in Nat
    <3>1. Paying' \subseteq Asker
      BY DEF Paying
    <3> QED BY <3>1, AskersFinite, FS_Subset, FS_CardinalityType
  <2>3. MoneyTrue'
    BY <1>6, <1>13, <1>16, <2>2, AskersFinite, GatewayAssumption DEF GatewayInv, MoneyTrue
  <2> QED BY <1>13, <2>1, <2>3 DEF GatewayInv, AttemptsTrue
<1> QED BY <1>15, <1>16

LEMMA ShortlistFree ==
  ASSUME NEW s \in Seq(Member), NEW routes, routes = Shortlist(s)
  PROVE  routes \in Seq(Leg) /\ \A i \in DOMAIN routes : routes[i].tier = "free"
<1>1. PICK k : k = IF Len(s) < MaxAttempts THEN Len(s) ELSE MaxAttempts
  OBVIOUS
<1>2. PICK q : q = SubSeq(s, 1, k)
  OBVIOUS
<1>3. k \in Nat /\ k <= Len(s)
  BY <1>1, GatewayAssumption
<1>4. q \in Seq(Member) /\ Len(q) = k /\ DOMAIN q = 1..k
  BY <1>2, <1>3
<1>5. \A i \in 1..k : q[i] \in Member
  BY <1>4
<1>6. routes = [i \in 1..k |-> [member |-> q[i], tier |-> "free"]]
  BY <1>1, <1>2, <1>4 DEF FreeTier, Shortlist
<1>7. routes \in [1..k -> Leg]
  BY <1>5, <1>6 DEF Leg
<1> QED BY <1>3, <1>6, <1>7

LEMMA AskDirectorKeeps ==
  ASSUME GatewayInv, NEW a \in Asker, AskDirector(a)
  PROVE  GatewayInv'
<1>1. PICK s \in FreeRoutes(Qualified) : Asks(a, Begun("director", Shortlist(s), 3))
  BY DEF AskDirector
<1>2. PICK routes : routes = Shortlist(s)
  OBVIOUS
<1>3. PICK r : r = Begun("director", routes, 3)
  OBVIOUS
<1>4. s \in Seq(Member)
  BY SomeFreeRoutes, GatewayAssumption
<1>5. routes \in Seq(Leg) /\ \A i \in DOMAIN routes : routes[i].tier = "free"
  BY <1>2, <1>4, ShortlistFree
<1>6. AskTrue(r, trace[a]) /\ ~MayPay(r)
  BY <1>3, <1>5, BegunTrue
<1>7. Asks(a, r)
  BY <1>1, <1>2, <1>3
<1>8. UNCHANGED <<spent, bought, used, posts, trace>>
  BY DEF AskDirector, poolVars
<1>9. trace' = [trace EXCEPT ![a] = trace[a]]
  BY <1>8 DEF GatewayInv, AsksTrue
<1> QED BY <1>6, <1>7, <1>8, <1>9, AskMoves DEF GatewayInv, AttemptsTrue

\* A step of a call keeps its routes, or gives them up.
LEMMA CallKeeps ==
  ASSUME GatewayInv, NEW a \in Asker, NEW r, NEW t, AskTrue(r, t), r.routes = ask[a].routes,
         Asks(a, r), trace' = [trace EXCEPT ![a] = t],
         UNCHANGED <<spent, bought>>, AttemptsTrue'
  PROVE  GatewayInv'
  BY AskMoves DEF MayPay

LEMMA SameTrace ==
  ASSUME AsksTrue, UNCHANGED trace, NEW a \in Asker
  PROVE  trace' = [trace EXCEPT ![a] = trace[a]]
  BY DEF AsksTrue

LEMMA AskCharacterKeeps ==
  ASSUME GatewayInv, NEW a \in Asker, AskCharacter(a)
  PROVE  GatewayInv'
<1>1. PICK failed \in BOOLEAN :
        Asks(a, [NoAsk EXCEPT !.pc = "start", !.kind = "character", !.tries = MaxRetries,
                  !.routes = Own(NoMember), !.toolFailed = failed])
  BY Zenon DEF AskCharacter
<1>2. PICK r : r = [NoAsk EXCEPT !.pc = "start", !.kind = "character", !.tries = MaxRetries,
                  !.routes = Own(NoMember), !.toolFailed = failed]
  OBVIOUS
<1>3. /\ DOMAIN r = AskFields /\ r.routes = Own(NoMember)
      /\ r.pc = "start" /\ r.outcome = "none"
  BY <1>2 DEF NoAsk, AskFields
<1>4. r.routes \in Seq(Leg) /\ r.routes # <<>> /\ ~MayPay(r)
  <2>1. [member |-> NoMember, tier |-> "own"] \in Leg
    BY DEF Leg
  <2>2. Own(NoMember) \in Seq(Leg) /\ Own(NoMember) # <<>> /\ \A i \in DOMAIN Own(NoMember) : Own(NoMember)[i].tier = "own"
    BY <2>1 DEF Own
  <2> QED BY <1>3, <2>2 DEF MayPay
<1>5. AskTrue(r, trace[a])
  BY <1>3, <1>4 DEF AskTrue
<1>6. UNCHANGED <<spent, bought, used, posts, trace>>
  BY Zenon DEF AskCharacter, poolVars
<1>7. Asks(a, r)
  BY <1>1, <1>2
<1> QED BY <1>4, <1>5, <1>6, <1>7, SameTrace, AskMoves DEF GatewayInv, AttemptsTrue

LEMMA AskVisionKeeps ==
  ASSUME GatewayInv, NEW a \in Asker, NEW m \in Member, AskVision(a, m)
  PROVE  GatewayInv'
<1>1. PICK kind \in {"vision", "compare"}, lost \in BOOLEAN :
        /\ trace' = [trace EXCEPT ![a] = IF lost THEN NoTrace ELSE Requested(a)]
        /\ Asks(a, [NoAsk EXCEPT !.pc = "look", !.kind = kind, !.lost = lost,
                     !.mode = IF kind = "vision" THEN SeeingMode(m, 1) ELSE 1,
                     !.routes = Own(m)])
  BY Zenon DEF AskVision
<1>2. PICK mode : mode = IF kind = "vision" THEN SeeingMode(m, 1) ELSE 1
  OBVIOUS
<1>3. PICK r : r = [NoAsk EXCEPT !.pc = "look", !.kind = kind, !.lost = lost, !.mode = mode,
                     !.routes = Own(m)]
  OBVIOUS
<1>4. /\ DOMAIN r = AskFields /\ r.routes = Own(m)
      /\ r.pc = "look" /\ r.outcome = "none" /\ r.lost = lost
  BY <1>3 DEF NoAsk, AskFields
<1>5. r.routes \in Seq(Leg) /\ r.routes # <<>> /\ ~MayPay(r)
  <2>1. [member |-> m, tier |-> "own"] \in Leg
    BY DEF Leg
  <2>2. Own(m) \in Seq(Leg) /\ Own(m) # <<>> /\ \A i \in DOMAIN Own(m) : Own(m)[i].tier = "own"
    BY <2>1 DEF Own
  <2> QED BY <1>4, <2>2 DEF MayPay
<1>6. PICK t : t = IF lost THEN NoTrace ELSE Requested(a)
  OBVIOUS
<1>7. AskTrue(r, t)
  BY <1>4, <1>5, <1>6 DEF AskTrue, Requested, NoTrace
<1>8. UNCHANGED <<spent, bought, used, posts>>
  BY DEF AskVision, poolVars
<1>9. Asks(a, r) /\ trace' = [trace EXCEPT ![a] = t]
  BY <1>1, <1>2, <1>3, <1>6
<1> QED BY <1>5, <1>7, <1>8, <1>9, AskMoves DEF GatewayInv, AttemptsTrue

LEMMA StartCallKeeps ==
  ASSUME GatewayInv, NEW a \in Asker, StartCall(a)
  PROVE  GatewayInv'
<1>1. AskTrue(ask[a], trace[a]) /\ ask[a].pc = "start"
  BY Zenon DEF StartCall, GatewayInv, AsksTrue
<1>2. UNCHANGED <<spent, bought, used, posts>>
  BY Zenon DEF StartCall, poolVars
<1>3. CASE ModeAllowed(a)
  <2>1. PICK lost \in BOOLEAN :
          /\ trace' = [trace EXCEPT ![a] = IF lost THEN NoTrace ELSE Requested(a)]
          /\ Asks(a, [ask[a] EXCEPT !.pc = "post", !.outcome = "none", !.lost = lost])
    BY <1>3, Zenon DEF StartCall
  <2>2. PICK r : r = [ask[a] EXCEPT !.pc = "post", !.outcome = "none", !.lost = lost]
    OBVIOUS
  <2>3. PICK t : t = IF lost THEN NoTrace ELSE Requested(a)
    OBVIOUS
  <2>4. DOMAIN r = AskFields /\ r.routes = ask[a].routes /\ r.pc = "post" /\ r.outcome = "none" /\ r.lost = lost
    BY <1>1, <2>2 DEF AskTrue, AskFields
  <2>5. AskTrue(r, t)
    BY <1>1, <2>3, <2>4 DEF AskTrue, Requested, NoTrace
  <2> QED BY <1>2, <2>1, <2>2, <2>3, <2>4, <2>5, CallKeeps DEF GatewayInv, AttemptsTrue
<1>4. CASE ~ModeAllowed(a)
  <2>1. Asks(a, [ask[a] EXCEPT !.mode = @ + 1]) /\ UNCHANGED trace
    BY <1>4, Zenon DEF StartCall
  <2>2. PICK r : r = [ask[a] EXCEPT !.mode = @ + 1]
    OBVIOUS
  <2>3. /\ DOMAIN r = AskFields /\ r.routes = ask[a].routes /\ r.pc = "start"
        /\ r.outcome = ask[a].outcome /\ r.lost = ask[a].lost /\ r.toolFailed = ask[a].toolFailed
    BY <1>1, <2>2 DEF AskTrue, AskFields
  <2>4. AskTrue(r, trace[a])
    BY <1>1, <2>3 DEF AskTrue
  <2> QED BY <1>2, <2>1, <2>2, <2>3, <2>4, SameTrace, CallKeeps DEF GatewayInv, AttemptsTrue
<1> QED BY <1>3, <1>4

\* The record of a request that goes on.
LEMMA AskOf ==
  ASSUME GatewayInv, NEW a \in Asker
  PROVE  AskTrue(ask[a], trace[a])
  BY DEF GatewayInv, AsksTrue

LEMMA PostRequestKeeps ==
  ASSUME GatewayInv, NEW a \in Asker, PostRequest(a)
  PROVE  GatewayInv'
<1>1. AskTrue(ask[a], trace[a]) /\ ask[a].pc = "post"
  BY AskOf, Zenon DEF PostRequest
<1>2. UNCHANGED <<spent, bought, trace>>
  BY Zenon DEF PostRequest, poolVars
<1>3. CASE Reserved
  <2>1. Asks(a, [ask[a] EXCEPT !.pc = "wait"]) /\ used' = used + 1 /\ posts' = posts + 1
    BY <1>3, Zenon DEF PostRequest
  <2>2. PICK r : r = [ask[a] EXCEPT !.pc = "wait"]
    OBVIOUS
  <2>3. /\ DOMAIN r = AskFields /\ r.routes = ask[a].routes /\ r.pc = "wait"
        /\ r.outcome = ask[a].outcome /\ r.lost = ask[a].lost /\ r.toolFailed = ask[a].toolFailed
    BY <1>1, <2>2 DEF AskTrue, AskFields
  <2>4. AskTrue(r, trace[a])
    BY <1>1, <2>3 DEF AskTrue
  <2>5. AttemptsTrue'
    BY <1>3, <2>1, GatewayAssumption DEF GatewayInv, AttemptsTrue, Reserved
  <2> QED BY <1>2, <2>1, <2>2, <2>3, <2>4, <2>5, SameTrace, CallKeeps DEF GatewayInv
<1>4. CASE ~Reserved
  <2>1. Asks(a, [ask[a] EXCEPT !.pc = "answered", !.outcome = "budget"]) /\ UNCHANGED <<used, posts>>
    BY <1>4, Zenon DEF PostRequest
  <2>2. PICK r : r = [ask[a] EXCEPT !.pc = "answered", !.outcome = "budget"]
    OBVIOUS
  <2>3. DOMAIN r = AskFields /\ r.routes = ask[a].routes /\ r.pc = "answered" /\ r.outcome = "budget"
    BY <1>1, <2>2 DEF AskTrue, AskFields
  <2>4. AskTrue(r, trace[a])
    BY <1>1, <2>3 DEF AskTrue
  <2> QED BY <1>2, <2>1, <2>2, <2>3, <2>4, SameTrace, CallKeeps DEF GatewayInv, AttemptsTrue
<1> QED BY <1>3, <1>4

LEMMA RetryRequestKeeps ==
  ASSUME GatewayInv, NEW a \in Asker, RetryRequest(a)
  PROVE  GatewayInv'
<1>1. AskTrue(ask[a], trace[a]) /\ ask[a].pc = "wait"
  BY AskOf, Zenon DEF RetryRequest
<1>2. UNCHANGED <<spent, bought, trace, used, posts>>
  BY Zenon DEF RetryRequest, poolVars
<1>3. PICK r : r = [ask[a] EXCEPT !.pc = "post", !.tries = @ - 1]
  OBVIOUS
<1>4. Asks(a, r)
  BY <1>3, Zenon DEF RetryRequest
<1>5. /\ DOMAIN r = AskFields /\ r.routes = ask[a].routes /\ r.pc = "post"
      /\ r.outcome = ask[a].outcome /\ r.lost = ask[a].lost
  BY <1>1, <1>3 DEF AskTrue, AskFields
<1>6. AskTrue(r, trace[a])
  BY <1>1, <1>5 DEF AskTrue
<1> QED BY <1>2, <1>4, <1>5, <1>6, SameTrace, CallKeeps DEF GatewayInv, AttemptsTrue

\* What becomes of a trace that is not lost says how the call ended.
LEMMA FinishedTrue ==
  ASSUME NEW a, NEW o, ask[a].pc \in {"wait", "look"}, AskTrue(ask[a], trace[a]), ~ask[a].lost
  PROVE  Finished(a, o) = IF o = "ok" /\ ~ask[a].toolFailed THEN "succeeded" ELSE "error"
  BY DEF Finished, AskTrue

LEMMA EndCallKeeps ==
  ASSUME GatewayInv, NEW a \in Asker, EndCall(a)
  PROVE  GatewayInv'
<1>1. AskTrue(ask[a], trace[a]) /\ ask[a].pc = "wait"
  BY AskOf, Zenon DEF EndCall
<1>2. UNCHANGED <<spent, bought, used, posts>>
  BY Zenon DEF EndCall, poolVars
<1>3. PICK outcome \in Classified(a), lost \in BOOLEAN :
        /\ trace' = [trace EXCEPT ![a] = IF lost THEN @ ELSE Finished(a, outcome)]
        /\ Asks(a, [ask[a] EXCEPT !.pc = "answered", !.outcome = outcome, !.lost = @ \/ lost])
  BY Zenon DEF EndCall
<1>4. PICK gone : gone = (ask[a].lost \/ lost)
  OBVIOUS
<1>5. PICK r : r = [ask[a] EXCEPT !.pc = "answered", !.outcome = outcome, !.lost = gone]
  OBVIOUS
<1>6. Asks(a, r)
  BY <1>3, <1>4, <1>5
<1>7. /\ DOMAIN r = AskFields /\ r.routes = ask[a].routes /\ r.pc = "answered"
      /\ r.outcome = outcome /\ r.lost = gone /\ r.toolFailed = ask[a].toolFailed
  BY <1>1, <1>5 DEF AskTrue, AskFields
<1>8. PICK t : t = IF lost THEN trace[a] ELSE Finished(a, outcome)
  OBVIOUS
<1>9. trace' = [trace EXCEPT ![a] = t]
  BY <1>3, <1>8 DEF GatewayInv, AsksTrue
<1>10. ASSUME ~gone PROVE t = IF outcome = "ok" /\ ~ask[a].toolFailed THEN "succeeded" ELSE "error"
  <2>1. ~ask[a].lost /\ ~lost
    BY <1>4, <1>10, Zenon
  <2>2. t = Finished(a, outcome)
    BY <1>8, <2>1
  <2> QED BY <1>1, <2>1, <2>2, FinishedTrue
<1>11. AskTrue(r, t)
  BY <1>1, <1>7, <1>10 DEF AskTrue
<1> QED BY <1>2, <1>6, <1>7, <1>9, <1>11, CallKeeps DEF GatewayInv, AttemptsTrue

LEMMA StopWaitingKeeps ==
  ASSUME GatewayInv, NEW a \in Asker, StopWaiting(a)
  PROVE  GatewayInv'
<1>1. AskTrue(ask[a], trace[a]) /\ ask[a].pc \in {"post", "wait"}
  BY AskOf, Zenon DEF StopWaiting
<1>2. UNCHANGED <<spent, bought, trace, used, posts>>
  BY Zenon DEF StopWaiting, poolVars
<1>3. PICK r : r = [ask[a] EXCEPT !.pc = "answered", !.outcome = "timeout", !.lost = TRUE]
  OBVIOUS
<1>4. Asks(a, r)
  BY <1>3, Zenon DEF StopWaiting
<1>5. DOMAIN r = AskFields /\ r.routes = ask[a].routes /\ r.pc = "answered" /\ r.lost = TRUE
  BY <1>1, <1>3 DEF AskTrue, AskFields
<1>6. AskTrue(r, trace[a])
  BY <1>1, <1>5 DEF AskTrue
<1> QED BY <1>2, <1>4, <1>5, <1>6, SameTrace, CallKeeps DEF GatewayInv, AttemptsTrue

LEMMA WeakerModeKeeps ==
  ASSUME GatewayInv, NEW a \in Asker, WeakerMode(a)
  PROVE  GatewayInv'
<1>1. AskTrue(ask[a], trace[a]) /\ ask[a].pc = "answered"
  BY AskOf, Zenon DEF WeakerMode
<1>2. UNCHANGED <<spent, bought, trace, used, posts>>
  BY Zenon DEF WeakerMode
<1>3. PICK r : r = [ask[a] EXCEPT !.pc = "start", !.mode = @ + 1]
  OBVIOUS
<1>4. Asks(a, r)
  BY <1>3, Zenon DEF WeakerMode
<1>5. /\ DOMAIN r = AskFields /\ r.routes = ask[a].routes /\ r.pc = "start"
      /\ r.outcome = ask[a].outcome /\ r.lost = ask[a].lost /\ r.toolFailed = ask[a].toolFailed
  BY <1>1, <1>3 DEF AskTrue, AskFields
<1>6. AskTrue(r, trace[a])
  BY <1>1, <1>5 DEF AskTrue
<1> QED BY <1>2, <1>4, <1>5, <1>6, SameTrace, CallKeeps DEF GatewayInv, AttemptsTrue

LEMMA FailRouteKeeps ==
  ASSUME GatewayInv, NEW a \in Asker, FailRoute(a)
  PROVE  GatewayInv'
<1>1. AskTrue(ask[a], trace[a]) /\ ask[a].pc = "answered"
  BY AskOf, Zenon DEF FailRoute
<1>2. UNCHANGED <<spent, bought, trace, used, posts>>
  BY Zenon DEF FailRoute
<1>3. PICK r : r = NextRoute(a)
  OBVIOUS
<1>4. Asks(a, r)
  BY <1>3, Zenon DEF FailRoute
<1>5. AskTrue(r, trace[a]) /\ (MayPay(r) => MayPay(ask[a]))
  BY <1>1, <1>3, TailRoutes DEF AskTrue
<1> QED BY <1>2, <1>4, <1>5, SameTrace, AskMoves DEF GatewayInv, AttemptsTrue

LEMMA DirectorReplyKeeps ==
  ASSUME GatewayInv, NEW a \in Asker, DirectorReply(a)
  PROVE  GatewayInv'
<1>1. AskTrue(ask[a], trace[a]) /\ ask[a].pc = "answered"
  BY AskOf, Zenon DEF DirectorReply
<1>2. UNCHANGED <<spent, bought, trace, used, posts>>
  BY Zenon DEF DirectorReply
<1>3. PICK r : r = IF ask[a].outcome \in {"ok", "budget"} THEN NoAsk ELSE NextRoute(a)
  OBVIOUS
<1>4. Asks(a, r)
  BY <1>3, Zenon DEF DirectorReply
<1>5. AskTrue(r, trace[a]) /\ (MayPay(r) => MayPay(ask[a]))
  <2>1. CASE r = NoAsk
    BY <2>1 DEF AskTrue, NoAsk, AskFields, MayPay
  <2>2. CASE r = NextRoute(a)
    BY <1>1, <2>2, TailRoutes DEF AskTrue
  <2> QED BY <1>3, <2>1, <2>2
<1> QED BY <1>2, <1>4, <1>5, SameTrace, AskMoves DEF GatewayInv, AttemptsTrue

LEMMA AcceptReplyKeeps ==
  ASSUME GatewayInv, NEW a \in Asker, AcceptReply(a)
  PROVE  GatewayInv'
<1>1. AskTrue(ask[a], trace[a]) /\ ask[a].pc = "answered"
  BY AskOf, Zenon DEF AcceptReply
<1>2. UNCHANGED <<trace, used, posts>> /\ Asks(a, NoAsk)
  BY Zenon DEF AcceptReply
<1>3. /\ spent' = spent + Charged(Route(a).tier)
      /\ bought' = IF Route(a).tier = "paid" THEN bought + 1 ELSE bought
  BY Zenon DEF AcceptReply
<1>4. AskTrue(NoAsk, trace[a]) /\ ~MayPay(NoAsk)
  BY DEF AskTrue, NoAsk, AskFields, MayPay
<1>5. AsksTrue' /\ ask'[a] = NoAsk /\ \A b \in Asker \ {a} : ask'[b] = ask[b]
  BY <1>2, <1>4, SameTrace, AsksKept DEF GatewayInv
<1>6. Paying' = Paying \ {a}
  BY <1>4, <1>5 DEF Paying
<1>7. CASE Route(a).tier # "paid"
  <2>1. Cardinality(Paying') <= Cardinality(Paying) /\ Cardinality(Paying') \in Nat
    BY <1>6, AskersFinite, FS_Subset, FS_CardinalityType
  <2>2. spent' = spent /\ bought' = bought
    BY <1>3, <1>7 DEF Charged, GatewayInv, MoneyTrue
  <2>3. MoneyTrue'
    BY <2>1, <2>2, AskersFinite, GatewayAssumption DEF GatewayInv, MoneyTrue
  <2> QED BY <1>2, <1>5, <2>3 DEF GatewayInv, AttemptsTrue
<1>8. CASE Route(a).tier = "paid"
  <2>1. Len(ask[a].routes) # 0 /\ Len(ask[a].routes) \in Nat
    BY <1>1, EmptySeq, LenProperties DEF AskTrue
  <2>2. 1 \in DOMAIN ask[a].routes /\ Route(a) = ask[a].routes[1]
    BY <1>1, <2>1 DEF Route, AskTrue
  <2>3. a \in Paying
    BY <1>8, <2>2 DEF Paying, MayPay
  <2>4. Cardinality(Paying') = Cardinality(Paying) - 1
    BY <1>6, <2>3, AskersFinite, FS_RemoveElement
  <2>5. spent' = spent + 1 /\ bought' = bought + 1
    BY <1>3, <1>8 DEF Charged
  <2>6. MoneyTrue'
    BY <2>4, <2>5, AskersFinite, GatewayAssumption DEF GatewayInv, MoneyTrue
  <2> QED BY <1>2, <1>5, <2>6 DEF GatewayInv, AttemptsTrue
<1> QED BY <1>7, <1>8

LEMMA CharacterReplyKeeps ==
  ASSUME GatewayInv, NEW a \in Asker, CharacterReply(a)
  PROVE  GatewayInv'
<1>1. AskTrue(ask[a], trace[a]) /\ ask[a].pc = "answered"
  BY AskOf, Zenon DEF CharacterReply
<1>2. UNCHANGED <<spent, bought, trace, used, posts>>
  BY Zenon DEF CharacterReply, poolVars
<1>3. PICK r : r = [ask[a] EXCEPT !.pc = "idle"]
  OBVIOUS
<1>4. Asks(a, r)
  BY <1>3, Zenon DEF CharacterReply
<1>5. /\ DOMAIN r = AskFields /\ r.routes = ask[a].routes /\ r.pc = "idle"
      /\ r.outcome = ask[a].outcome /\ r.lost = ask[a].lost /\ r.toolFailed = ask[a].toolFailed
  BY <1>1, <1>3 DEF AskTrue, AskFields
<1>6. AskTrue(r, trace[a])
  BY <1>1, <1>5 DEF AskTrue
<1> QED BY <1>2, <1>4, <1>5, <1>6, SameTrace, CallKeeps DEF GatewayInv, AttemptsTrue

LEMMA WriteOffKeeps ==
  ASSUME GatewayInv, NEW a \in Asker, WriteOff(a)
  PROVE  GatewayInv'
<1>1. AskTrue(ask[a], trace[a]) /\ trace[a] = "pending"
  BY AskOf, Zenon DEF WriteOff
<1>2. UNCHANGED <<spent, bought, ask, used, posts>> /\ trace' = [trace EXCEPT ![a] = "error"]
  BY Zenon DEF WriteOff, poolVars
<1>3. Asks(a, ask[a])
  BY <1>2 DEF Asks, GatewayInv, AsksTrue
<1>4. AskTrue(ask[a], "error")
  BY <1>1 DEF AskTrue, NoTrace
<1> QED BY <1>2, <1>3, <1>4, CallKeeps DEF GatewayInv, AttemptsTrue

LEMMA ClearTraceKeeps ==
  ASSUME GatewayInv, NEW a \in Asker, ClearTrace(a)
  PROVE  GatewayInv'
<1>1. AskTrue(ask[a], trace[a])
  BY AskOf
<1>2. UNCHANGED <<spent, bought, used, posts>> /\ trace' = [trace EXCEPT ![a] = NoTrace]
  BY Zenon DEF ClearTrace, poolVars
<1>3. PICK r : r = [ask[a] EXCEPT !.lost = TRUE]
  OBVIOUS
<1>4. Asks(a, r)
  BY <1>3, Zenon DEF ClearTrace
<1>5. /\ DOMAIN r = AskFields /\ r.routes = ask[a].routes /\ r.pc = ask[a].pc
      /\ r.outcome = ask[a].outcome /\ r.lost = TRUE
  BY <1>1, <1>3 DEF AskTrue, AskFields
<1>6. AskTrue(r, NoTrace)
  BY <1>1, <1>5 DEF AskTrue
<1> QED BY <1>2, <1>4, <1>5, <1>6, CallKeeps DEF GatewayInv, AttemptsTrue

\* The answer of a model that sees ends its call, or the next mode is tried.
LEMMA SeenTrue ==
  ASSUME NEW a, AskTrue(ask[a], trace[a]), ask[a].pc = "look",
         NEW outcome, NEW silent \in BOOLEAN, NEW lost \in BOOLEAN, NEW gone \in BOOLEAN,
         gone = (ask[a].lost \/ lost),
         NEW t, t = IF lost \/ silent THEN trace[a] ELSE Finished(a, outcome),
         NEW r, DOMAIN r = AskFields, r.routes = ask[a].routes, r.lost = gone,
         r.toolFailed = ask[a].toolFailed,
         \/ r.pc = "idle" /\ r.outcome = IF silent THEN "none" ELSE outcome
         \/ r.pc = "look" /\ r.outcome = "none"
  PROVE  AskTrue(r, t)
<1>1. ASSUME ~gone PROVE ~ask[a].lost /\ ~lost
  BY <1>1, Zenon
<1>2. CASE silent
  <2>1. t = trace[a]
    BY <1>2
  <2> QED BY <1>1, <1>2, <2>1 DEF AskTrue
<1>3. CASE ~silent
  <2>1. CASE gone
    BY <2>1 DEF AskTrue
  <2>2. CASE ~gone
    <3>1. t = Finished(a, outcome)
      BY <1>1, <1>3, <2>2
    <3>2. Finished(a, outcome) = IF outcome = "ok" /\ ~ask[a].toolFailed THEN "succeeded" ELSE "error"
      BY <1>1, <2>2, FinishedTrue
    <3> QED BY <3>1, <3>2 DEF AskTrue, NoTrace
  <2> QED BY <2>1, <2>2
<1> QED BY <1>2, <1>3

LEMMA VisionReplyKeeps ==
  ASSUME GatewayInv, NEW a \in Asker, VisionReply(a)
  PROVE  GatewayInv'
<1>1. AskTrue(ask[a], trace[a]) /\ ask[a].pc = "look"
  BY AskOf, Zenon DEF VisionReply
<1>2. UNCHANGED <<spent, bought, used, posts>>
  BY Zenon DEF VisionReply
<1>3. PICK outcome \in Seen(a), lost \in BOOLEAN :
        /\ trace' = [trace EXCEPT ![a] = IF lost \/ outcome = "garbled" THEN @ ELSE Finished(a, outcome)]
        /\ Asks(a, IF outcome # "unsupported" THEN Looked(a, outcome, lost)
                   ELSE LooksAgain(a, Looked(a, outcome, lost)))
  BY Zenon DEF VisionReply
<1>4. PICK silent \in BOOLEAN : silent = (outcome = "garbled")
  OBVIOUS
<1>5. PICK gone \in BOOLEAN : gone = (ask[a].lost \/ lost)
  OBVIOUS
<1>6. PICK over : over = [ask[a] EXCEPT !.pc = "idle", !.lost = gone,
                                        !.outcome = IF outcome = "garbled" THEN "none" ELSE outcome]
  OBVIOUS
<1>7. over = Looked(a, outcome, lost)
  BY <1>5, <1>6 DEF Looked
<1>8. /\ DOMAIN over = AskFields /\ over.routes = ask[a].routes /\ over.pc = "idle"
      /\ over.outcome = (IF outcome = "garbled" THEN "none" ELSE outcome)
      /\ over.lost = gone /\ over.toolFailed = ask[a].toolFailed
  BY <1>1, <1>6 DEF AskTrue, AskFields
<1>9. PICK t : t = IF lost \/ outcome = "garbled" THEN trace[a] ELSE Finished(a, outcome)
  OBVIOUS
<1>10. trace' = [trace EXCEPT ![a] = t]
  BY <1>3, <1>9 DEF GatewayInv, AsksTrue
<1>11. PICK again : again = LooksAgain(a, over)
  OBVIOUS
<1>12. /\ DOMAIN again = AskFields /\ again.routes = over.routes /\ again.pc = "look"
       /\ again.outcome = "none" /\ again.lost = over.lost /\ again.toolFailed = over.toolFailed
  BY <1>8, <1>11 DEF LooksAgain, AskFields
<1>13. PICK r : r = IF outcome # "unsupported" THEN over ELSE again
  OBVIOUS
<1>14. Asks(a, r)
  BY <1>3, <1>7, <1>11, <1>13
<1>15. t = IF lost \/ silent THEN trace[a] ELSE Finished(a, outcome)
  BY <1>4, <1>9
<1>16. AskTrue(r, t) /\ r.routes = ask[a].routes
  <2>1. CASE r = over
    BY <1>1, <1>4, <1>5, <1>8, <1>15, <2>1, SeenTrue
  <2>2. CASE r = again
    BY <1>1, <1>5, <1>8, <1>12, <1>15, <2>2, SeenTrue
  <2> QED BY <1>13, <2>1, <2>2
<1> QED BY <1>2, <1>10, <1>14, <1>16, CallKeeps DEF GatewayInv, AttemptsTrue

LEMMA CompareReplyKeeps ==
  ASSUME GatewayInv, NEW a \in Asker, CompareReply(a)
  PROVE  GatewayInv'
<1>1. AskTrue(ask[a], trace[a]) /\ ask[a].pc = "look"
  BY AskOf, Zenon DEF CompareReply
<1>2. UNCHANGED <<spent, bought, used, posts>>
  BY Zenon DEF CompareReply
<1>3. PICK outcome \in Seen(a), lost \in BOOLEAN :
        /\ trace' = [trace EXCEPT ![a] = IF lost \/ outcome \in {"garbled", "unparsed"} THEN @
                                         ELSE Finished(a, outcome)]
        /\ Asks(a, [ask[a] EXCEPT !.pc = "idle", !.lost = @ \/ lost,
                      !.outcome = IF outcome \in {"garbled", "unparsed"} THEN "none" ELSE outcome])
  BY Zenon DEF CompareReply
<1>4. PICK silent \in BOOLEAN : silent = (outcome = "garbled" \/ outcome = "unparsed")
  OBVIOUS
<1>5. PICK gone \in BOOLEAN : gone = (ask[a].lost \/ lost)
  OBVIOUS
<1>6. PICK r : r = [ask[a] EXCEPT !.pc = "idle", !.lost = gone, !.outcome = IF silent THEN "none" ELSE outcome]
  OBVIOUS
<1>7. Asks(a, r)
  BY <1>3, <1>4, <1>5, <1>6
<1>8. /\ DOMAIN r = AskFields /\ r.routes = ask[a].routes /\ r.pc = "idle"
      /\ r.outcome = (IF silent THEN "none" ELSE outcome)
      /\ r.lost = gone /\ r.toolFailed = ask[a].toolFailed
  BY <1>1, <1>6 DEF AskTrue, AskFields
<1>9. PICK t : t = IF lost \/ silent THEN trace[a] ELSE Finished(a, outcome)
  OBVIOUS
<1>10. trace' = [trace EXCEPT ![a] = t]
  BY <1>3, <1>4, <1>9 DEF GatewayInv, AsksTrue
<1>11. AskTrue(r, t)
  BY <1>1, <1>5, <1>8, <1>9, SeenTrue
<1> QED BY <1>2, <1>7, <1>8, <1>10, <1>11, CallKeeps DEF GatewayInv, AttemptsTrue

\* Abandoned calls post under the same ceiling; what else happens is no concern of a request.
LEMMA GatewayStays ==
  ASSUME GatewayInv, UNCHANGED <<ask, trace, spent, bought>>, AttemptsTrue'
  PROVE  GatewayInv'
<1>1. Paying' = Paying
  BY DEF Paying
<1> QED BY <1>1 DEF GatewayInv, AsksTrue, MoneyTrue

LEMMA StrayPostsKeep ==
  ASSUME GatewayInv, StrayPosts
  PROVE  GatewayInv'
  BY GatewayStays, GatewayAssumption DEF StrayPosts, poolVars, Reserved, GatewayInv, AttemptsTrue

LEMMA GatewayBegins == ModelGatewayInit => GatewayInv
<1> SUFFICES ASSUME ModelGatewayInit PROVE GatewayInv
  OBVIOUS
<1>1. AskTrue(NoAsk, NoTrace) /\ ~MayPay(NoAsk)
  BY DEF AskTrue, NoAsk, AskFields, MayPay
<1>2. \A a \in Asker : ask[a] = NoAsk /\ trace[a] = NoTrace
  BY DEF ModelGatewayInit
<1>3. AsksTrue
  BY <1>1, <1>2 DEF ModelGatewayInit, AsksTrue
<1>4. Paying = {}
  BY <1>1, <1>2 DEF Paying
<1>5. Cardinality(Paying) = 0
  BY <1>4, FS_EmptySet
<1>6. MoneyTrue
  BY <1>5, AskersFinite, GatewayAssumption DEF ModelGatewayInit, MoneyTrue
<1> QED BY <1>3, <1>6, GatewayAssumption DEF ModelGatewayInit, GatewayInv, AttemptsTrue

\* The paid calls exceed the daily budget by at most one for every other request, the attempts of
\* an operation never pass its ceiling, and a trace that nobody lost ends as what its call really
\* came to (_paid_route and _record_usage, ModelAttemptBudget.reserve, record_event).
THEOREM GatewayKept == ModelGatewaySpec => []GatewayKeeps
<1>1. ModelGatewayInit => GatewayInv
  BY GatewayBegins
<1>2. GatewayInv /\ [ModelGatewayNext]_gatewayVars => GatewayInv'
  <2> SUFFICES ASSUME GatewayInv, [ModelGatewayNext]_gatewayVars PROVE GatewayInv'
    OBVIOUS
  <2>1. CASE UNCHANGED gatewayVars
    BY <2>1, GatewayStays DEF gatewayVars, GatewayInv, AttemptsTrue
  <2>2. CASE GatewayStep
    BY <2>2, AskUtilityKeeps, AskDirectorKeeps, AskCharacterKeeps, StartCallKeeps, PostRequestKeeps,
       RetryRequestKeeps, EndCallKeeps, StopWaitingKeeps, WeakerModeKeeps, FailRouteKeeps,
       AcceptReplyKeeps, DirectorReplyKeeps, CharacterReplyKeeps, VisionReplyKeeps,
       CompareReplyKeeps, WriteOffKeeps, ClearTraceKeeps, AskVisionKeeps, Zenon DEF GatewayStep
  <2>3. CASE SaveRuntime \/ \E m \in Member : TimePasses(m) \/ Forgotten(m) \/ ConfigureCredential(m)
                                              \/ ClearCredential(m)
    <3>1. UNCHANGED <<ask, trace, spent, bought, used, posts>>
      BY <2>3, Zenon DEF SaveRuntime, TimePasses, Forgotten, ConfigureCredential, ClearCredential
    <3> QED BY <3>1, GatewayStays DEF GatewayInv, AttemptsTrue
  <2> QED BY <2>1, <2>2, <2>3, StrayPostsKeep, Zenon DEF ModelGatewayNext
<1>3. GatewayInv => GatewayKeeps
  <2> SUFFICES ASSUME GatewayInv PROVE GatewayKeeps
    OBVIOUS
  <2>1. bought <= Budget + Cardinality(Asker) - 1
    BY AskersFinite, GatewayAssumption DEF GatewayInv, MoneyTrue
  <2>2. posts <= Ceiling
    BY DEF GatewayInv, AttemptsTrue
  <2>3. \A a \in Asker : AskTrue(ask[a], trace[a])
    BY AskOf
  <2> QED BY <2>1, <2>2, <2>3 DEF GatewayKeeps, AskTrue
<1> QED BY <1>1, <1>2, <1>3, PTL DEF ModelGatewaySpec

(***************************************************************************)
(* Tools that reach outside                                                *)
(***************************************************************************)
OpFields == {"pc", "kind", "key", "ctx", "sound", "waited", "hops", "from", "listed"}

Counts(r) == r.pc \in {"wait", "use", "leave"}
Counted == {o \in Op : Counts(op[o])}

\* What a tool call has in hand: who uses a context holds its session, and what an invocation
\* goes by was published after it began.
OpTrue(o, r) ==
  /\ DOMAIN r = OpFields
  /\ r.pc \in {"plain", "permit", "ensure"} => r.key \in Key
  /\ r.kind = "collect" => r.ctx = 0 /\ r.pc \notin {"count", "wait"}
  /\ r.pc \in {"count", "wait", "use"} /\ r.kind # "collect" => r.ctx \in Ctx /\ r.ctx <= opened
  /\ r.pc = "use" /\ r.kind # "collect" => holder[r.ctx] = o
  /\ r.pc \in {"list", "listed", "call", "result"} => r.from \in Nat /\ r.from <= remote
  /\ r.pc = "listed" => r.listed \in Nat /\ r.listed >= r.from
  /\ r.pc \in {"call", "result"} => known[o] >= r.from

\* The browser a call works with.
BrowserOf(r) == IF r.kind = "collect" THEN r.from ELSE ctx[r.ctx].chrome

\* What a call found in order, without having queued for it, still is, and the cleaner is not
\* about to close it.
StillSound(r) ==
  r.pc = "use" /\ r.sound /\ ~r.waited /\ ~stopped =>
    /\ BrowserOf(r) # 0 /\ BrowserOf(r) \in dead \cup {chrome.id}
    /\ r.kind # "collect" => r.ctx # cleaner /\ (ctx[r.ctx].open \/ ctx[r.ctx].chrome \in dead)

OutsideShaped ==
  /\ op = [o \in Op |-> op[o]] /\ DOMAIN chrome = {"id", "worn"}
  /\ ctx = [c \in Ctx |-> ctx[c]] /\ \A c \in Ctx : DOMAIN ctx[c] = {"chrome", "open", "idle"}
  /\ holder = [c \in Ctx |-> holder[c]] /\ known \in [Op -> Nat]
  /\ sessions = [k \in Key |-> sessions[k]]
  /\ \A k \in Key : sessions[k] # 0 => sessions[k] \in Ctx /\ sessions[k] <= opened
  /\ opened \in Nat /\ remote \in Nat /\ offer.version \in Nat /\ DOMAIN offer = {"version", "fresh"}

OutsideInv ==
  /\ OutsideShaped /\ active = Cardinality(Counted)
  /\ \A o \in Op : OpTrue(o, op[o]) /\ StillSound(op[o])

LEMMA CountedFinite == IsFiniteSet(Counted) /\ Cardinality(Counted) \in Nat
<1>1. Counted \subseteq Op
  BY DEF Counted
<1> QED BY <1>1, OutsideAssumption, FS_Subset, FS_CardinalityType

LEMMA NobodyCounted ==
  ASSUME OutsideInv, active = 0, NEW o \in Op
  PROVE  ~Counts(op[o])
<1>1. Counted = {}
  BY CountedFinite, FS_EmptySet DEF OutsideInv
<1> QED BY <1>1 DEF Counted

LEMMA CountMoves ==
  ASSUME OutsideShaped, NEW o \in Op, NEW r, Becomes(o, r)
  PROVE  /\ op'[o] = r /\ op' = [p \in Op |-> op'[p]] /\ \A p \in Op \ {o} : op'[p] = op[p]
         /\ Counts(r) = Counts(op[o]) => Cardinality(Counted') = Cardinality(Counted)
         /\ Counts(r) /\ ~Counts(op[o]) => Cardinality(Counted') = Cardinality(Counted) + 1
         /\ ~Counts(r) /\ Counts(op[o]) => Cardinality(Counted') = Cardinality(Counted) - 1
<1>1. op'[o] = r /\ op' = [p \in Op |-> op'[p]] /\ \A p \in Op \ {o} : op'[p] = op[p]
  BY DEF OutsideShaped, Becomes
<1>2. \A p \in Op \ {o} : Counts(op'[p]) <=> Counts(op[p])
  BY <1>1 DEF Counts
<1>3. ASSUME Counts(r) = Counts(op[o]) PROVE Counted' = Counted
  BY <1>1, <1>2, <1>3 DEF Counted, Counts
<1>4. ASSUME Counts(r), ~Counts(op[o]) PROVE Counted' = Counted \cup {o} /\ o \notin Counted
  BY <1>1, <1>2, <1>4 DEF Counted, Counts
<1>5. ASSUME ~Counts(r), Counts(op[o]) PROVE Counted' = Counted \ {o} /\ o \in Counted
  BY <1>1, <1>2, <1>5 DEF Counted, Counts
<1>6. Counts(r) = Counts(op[o]) => Cardinality(Counted') = Cardinality(Counted)
  BY <1>3
<1>7. Counts(r) /\ ~Counts(op[o]) => Cardinality(Counted') = Cardinality(Counted) + 1
  BY <1>4, CountedFinite, FS_AddElement
<1>8. ~Counts(r) /\ Counts(op[o]) => Cardinality(Counted') = Cardinality(Counted) - 1
  BY <1>5, CountedFinite, FS_RemoveElement
<1> QED BY <1>1, <1>6, <1>7, <1>8

\* A step of one call that leaves the browsers and the catalogs alone.
LEMMA QuietStep ==
  ASSUME OutsideInv, NEW o \in Op, NEW r, Becomes(o, r), UNCHANGED <<browserVars, mcpVars>>,
         OpTrue(o, r), StillSound(r), Counts(r) = Counts(op[o])
  PROVE  OutsideInv'
<1>1. UNCHANGED <<chrome, dead, sessions, ctx, holder, active, cleaner, stopped, opened, remote, offer, known>>
  BY DEF browserVars, mcpVars
<1>2. op'[o] = r /\ op' = [p \in Op |-> op'[p]] /\ \A p \in Op \ {o} : op'[p] = op[p]
  BY CountMoves DEF OutsideInv
<1>3. active' = Cardinality(Counted')
  BY <1>1, CountMoves DEF OutsideInv
<1>4. OutsideShaped'
  BY <1>1, <1>2 DEF OutsideInv, OutsideShaped
<1>5. ASSUME NEW p \in Op PROVE (OpTrue(p, op[p]) /\ StillSound(op[p]))'
  <2>1. OpTrue(p, op'[p]) /\ StillSound(op'[p])
    BY <1>2 DEF OutsideInv
  <2> QED BY <1>1, <2>1 DEF OpTrue, StillSound, BrowserOf
<1> QED BY <1>3, <1>4, <1>5 DEF OutsideInv

LEMMA RestIsTrue ==
  ASSUME NEW o \in Op
  PROVE  OpTrue(o, Resting) /\ StillSound(Resting) /\ ~Counts(Resting)
BY DEF OpTrue, OpFields, StillSound, Counts, Resting

LEMMA ReturnKeeps ==
  ASSUME OutsideInv, NEW o \in Op, Returns(o), UNCHANGED <<browserVars, mcpVars>>, ~Counts(op[o])
  PROVE  OutsideInv'
<1>1. OpTrue(o, Resting) /\ StillSound(Resting) /\ ~Counts(Resting) /\ Becomes(o, Resting)
  BY RestIsTrue DEF Returns
<1> QED BY <1>1, QuietStep DEF Counts

LEMMA CallToolKeeps ==
  ASSUME OutsideInv, NEW o \in Op, NEW kind \in BrowserKinds \cup PlainKinds, NEW k \in Key,
         CallTool(o, kind, k)
  PROVE  OutsideInv'
<1>1. PICK r : r = [Resting EXCEPT !.kind = kind, !.key = k,
                                   !.pc = IF kind \in {"image", "collect"} THEN "permit" ELSE "plain"]
  OBVIOUS
<1>2. op[o].pc = "idle" /\ Becomes(o, r) /\ UNCHANGED <<browserVars, mcpVars>>
  BY <1>1, Zenon DEF CallTool
<1>3. /\ DOMAIN r = OpFields /\ r.pc \in {"permit", "plain"} /\ r.key = k /\ r.ctx = 0
  BY <1>1 DEF Resting, OpFields
<1>4. OpTrue(o, r) /\ StillSound(r) /\ Counts(r) = Counts(op[o])
  BY <1>2, <1>3 DEF OpTrue, StillSound, Counts
<1> QED BY <1>2, <1>4, QuietStep

\* A call on its way to the browser.
LEMMA OnItsWay ==
  ASSUME OutsideInv, NEW o \in Op, op[o].pc \in {"plain", "permit"},
         NEW r, Becomes(o, r), UNCHANGED <<browserVars, mcpVars>>, DOMAIN r = OpFields,
         r.pc \in {"plain", "permit", "ensure"}, r.key = op[o].key, r.kind = op[o].kind, r.ctx = op[o].ctx
  PROVE  OutsideInv'
<1>1. OpTrue(o, op[o])
  BY DEF OutsideInv
<1>2. OpTrue(o, r) /\ StillSound(r) /\ Counts(r) = Counts(op[o])
  BY <1>1 DEF OpTrue, StillSound, Counts
<1> QED BY <1>2, QuietStep

LEMMA PlainKeeps ==
  ASSUME OutsideInv, NEW o \in Op,
         PlainAnswer(o) \/ PlainRedirect(o) \/ PlainAgain(o) \/ PlainFallsBack(o) \/ TakePermit(o)
  PROVE  OutsideInv'
<1>1. DOMAIN op[o] = OpFields
  BY DEF OutsideInv, OpTrue
<1>2. CASE PlainAnswer(o)
  <2>1. op[o].pc = "plain" /\ Returns(o) /\ UNCHANGED <<browserVars, mcpVars>>
    BY <1>2, Zenon DEF PlainAnswer
  <2> QED BY <2>1, ReturnKeeps DEF Counts
<1>3. CASE PlainRedirect(o)
  <2>1. PICK r : r = [op[o] EXCEPT !.hops = @ + 1]
    OBVIOUS
  <2>2. /\ op[o].pc = "plain" /\ UNCHANGED <<browserVars, mcpVars>> /\ (Becomes(o, r) \/ Returns(o))
    BY <1>3, <2>1, Zenon DEF PlainRedirect
  <2>3. DOMAIN r = OpFields /\ r.pc = op[o].pc /\ r.key = op[o].key /\ r.kind = op[o].kind /\ r.ctx = op[o].ctx
    BY <1>1, <2>1 DEF OpFields
  <2> QED BY <2>2, <2>3, OnItsWay, ReturnKeeps DEF Counts
<1>4. CASE PlainAgain(o)
  <2>1. PICK r : r = [op[o] EXCEPT !.hops = 1]
    OBVIOUS
  <2>2. op[o].pc = "plain" /\ UNCHANGED <<browserVars, mcpVars>> /\ Becomes(o, r)
    BY <1>4, <2>1, Zenon DEF PlainAgain
  <2>3. DOMAIN r = OpFields /\ r.pc = op[o].pc /\ r.key = op[o].key /\ r.kind = op[o].kind /\ r.ctx = op[o].ctx
    BY <1>1, <2>1 DEF OpFields
  <2> QED BY <2>2, <2>3, OnItsWay
<1>5. CASE PlainFallsBack(o)
  <2>1. PICK r : r = [op[o] EXCEPT !.pc = "permit", !.hops = 0]
    OBVIOUS
  <2>2. op[o].pc = "plain" /\ UNCHANGED <<browserVars, mcpVars>> /\ Becomes(o, r)
    BY <1>5, <2>1, Zenon DEF PlainFallsBack
  <2>3. DOMAIN r = OpFields /\ r.pc = "permit" /\ r.key = op[o].key /\ r.kind = op[o].kind /\ r.ctx = op[o].ctx
    BY <1>1, <2>1 DEF OpFields
  <2> QED BY <2>2, <2>3, OnItsWay
<1>6. CASE TakePermit(o)
  <2>1. PICK r : r = [op[o] EXCEPT !.pc = "ensure"]
    OBVIOUS
  <2>2. op[o].pc = "permit" /\ UNCHANGED <<browserVars, mcpVars>> /\ Becomes(o, r)
    BY <1>6, <2>1, Zenon DEF TakePermit
  <2>3. DOMAIN r = OpFields /\ r.pc = "ensure" /\ r.key = op[o].key /\ r.kind = op[o].kind /\ r.ctx = op[o].ctx
    BY <1>1, <2>1 DEF OpFields
  <2> QED BY <2>2, <2>3, OnItsWay
<1> QED BY <1>2, <1>3, <1>4, <1>5, <1>6

LEMMA StayOnPageKeeps ==
  ASSUME OutsideInv, NEW o \in Op, NextEngine(o) \/ CollectionRead(o)
  PROVE  OutsideInv'
<1>1. OpTrue(o, op[o]) /\ StillSound(op[o])
  BY DEF OutsideInv
<1>2. CASE NextEngine(o)
  <2>1. PICK r : r = [op[o] EXCEPT !.hops = 1]
    OBVIOUS
  <2>2. op[o].pc = "use" /\ UNCHANGED <<browserVars, mcpVars>> /\ Becomes(o, r)
    BY <1>2, <2>1, Zenon DEF NextEngine
  <2>3. /\ DOMAIN r = OpFields /\ r.pc = op[o].pc /\ r.key = op[o].key /\ r.kind = op[o].kind /\ r.ctx = op[o].ctx
        /\ r.sound = op[o].sound /\ r.waited = op[o].waited /\ r.from = op[o].from
    BY <1>1, <2>1 DEF OpFields, OpTrue
  <2>4. OpTrue(o, r)
    BY <1>1, <2>2, <2>3 DEF OpTrue
  <2>5. StillSound(r) /\ Counts(r) = Counts(op[o])
    BY <1>1, <2>3 DEF StillSound, BrowserOf, Counts
  <2> QED BY <2>2, <2>4, <2>5, QuietStep
<1>3. CASE CollectionRead(o)
  <2>1. PICK r : r = [op[o] EXCEPT !.pc = "leave"]
    OBVIOUS
  <2>2. /\ op[o].pc = "use" /\ op[o].kind = "collect" /\ UNCHANGED <<browserVars, mcpVars>> /\ Becomes(o, r)
    BY <1>3, <2>1, Zenon DEF CollectionRead
  <2>3. DOMAIN r = OpFields /\ r.pc = "leave" /\ r.kind = "collect" /\ r.ctx = op[o].ctx
    BY <1>1, <2>1, <2>2 DEF OpFields, OpTrue
  <2>4. OpTrue(o, r) /\ StillSound(r) /\ Counts(r) = Counts(op[o])
    BY <1>1, <2>2, <2>3 DEF OpTrue, StillSound, Counts
  <2> QED BY <2>2, <2>4, QuietStep
<1> QED BY <1>2, <1>3

LEMMA InvokeKeeps ==
  ASSUME OutsideInv, NEW o \in Op, Invoke(o)
  PROVE  OutsideInv'
<1>1. PICK r : r = [Resting EXCEPT !.pc = "list", !.kind = "invoke", !.from = remote]
  OBVIOUS
<1>2. op[o].pc = "idle" /\ Becomes(o, r) /\ UNCHANGED <<browserVars, mcpVars>>
  BY <1>1, Zenon DEF Invoke
<1>3. DOMAIN r = OpFields /\ r.pc = "list" /\ r.kind = "invoke" /\ r.from = remote
  BY <1>1 DEF Resting, OpFields
<1>4. remote \in Nat
  BY DEF OutsideInv, OutsideShaped
<1>5. OpTrue(o, r) /\ StillSound(r) /\ Counts(r) = Counts(op[o])
  BY <1>2, <1>3, <1>4 DEF OpTrue, StillSound, Counts
<1> QED BY <1>2, <1>5, QuietStep

LEMMA RemoteCallKeeps ==
  ASSUME OutsideInv, NEW o \in Op, Lists(o) \/ ListFails(o) \/ CallRemote(o) \/ NormalizeResult(o)
  PROVE  OutsideInv'
<1>1. OpTrue(o, op[o]) /\ remote \in Nat
  BY DEF OutsideInv, OutsideShaped
<1>2. CASE Lists(o)
  <2>1. PICK r : r = [op[o] EXCEPT !.pc = "listed", !.listed = remote]
    OBVIOUS
  <2>2. op[o].pc = "list" /\ Becomes(o, r) /\ UNCHANGED <<browserVars, mcpVars>>
    BY <1>2, <2>1, Zenon DEF Lists
  <2>3. /\ DOMAIN r = OpFields /\ r.pc = "listed" /\ r.kind = op[o].kind /\ r.ctx = op[o].ctx
        /\ r.from = op[o].from /\ r.listed = remote
    BY <1>1, <2>1 DEF OpFields, OpTrue
  <2>4. OpTrue(o, r) /\ StillSound(r) /\ Counts(r) = Counts(op[o])
    BY <1>1, <2>2, <2>3 DEF OpTrue, StillSound, Counts
  <2> QED BY <2>2, <2>4, QuietStep
<1>3. CASE ListFails(o)
  <2>1. op[o].pc = "list" /\ Returns(o) /\ UNCHANGED <<browserVars, mcpVars>>
    BY <1>3, Zenon DEF ListFails
  <2> QED BY <2>1, ReturnKeeps DEF Counts
<1>4. CASE CallRemote(o)
  <2>1. PICK r : r = [op[o] EXCEPT !.pc = "result"]
    OBVIOUS
  <2>2. op[o].pc = "call" /\ (Returns(o) \/ Becomes(o, r)) /\ UNCHANGED <<browserVars, mcpVars>>
    BY <1>4, <2>1, Zenon DEF CallRemote
  <2>3. DOMAIN r = OpFields /\ r.pc = "result" /\ r.kind = op[o].kind /\ r.ctx = op[o].ctx /\ r.from = op[o].from
    BY <1>1, <2>1 DEF OpFields, OpTrue
  <2>4. OpTrue(o, r) /\ StillSound(r) /\ Counts(r) = Counts(op[o]) /\ ~Counts(op[o])
    BY <1>1, <2>2, <2>3 DEF OpTrue, StillSound, Counts
  <2> QED BY <2>2, <2>4, QuietStep, ReturnKeeps
<1>5. CASE NormalizeResult(o)
  <2>1. op[o].pc = "result" /\ Returns(o) /\ UNCHANGED <<browserVars, mcpVars>>
    BY <1>5, Zenon DEF NormalizeResult
  <2> QED BY <2>1, ReturnKeeps DEF Counts
<1> QED BY <1>2, <1>3, <1>4, <1>5

\* A step of one call that may teach it a schema and refresh the catalog.
LEMMA LearningStep ==
  ASSUME OutsideInv, NEW o \in Op, NEW r, NEW v \in Nat, Becomes(o, r) \/ (r = op[o] /\ UNCHANGED op),
         UNCHANGED <<browserVars, remote>>, known' = [known EXCEPT ![o] = v],
         ~Counts(op[o]), ~Counts(r), OpTrue(o, r), StillSound(r),
         r.pc \in {"call", "result"} => v >= r.from,
         offer'.version \in Nat, DOMAIN offer' = {"version", "fresh"}
  PROVE  OutsideInv'
<1>1. UNCHANGED <<chrome, dead, sessions, ctx, holder, active, cleaner, stopped, opened, remote>>
  BY DEF browserVars
<1>2. op'[o] = r /\ op' = [p \in Op |-> op'[p]] /\ \A p \in Op \ {o} : op'[p] = op[p]
  BY CountMoves DEF OutsideInv, OutsideShaped
<1>3. Cardinality(Counted') = Cardinality(Counted)
  <2>1. UNCHANGED op => Counted' = Counted
    BY DEF Counted, Counts
  <2>2. Counts(r) = Counts(op[o])
    BY DEF Counts
  <2> QED BY <2>1, <2>2, CountMoves DEF OutsideInv
<1>4. known \in [Op -> Nat] /\ known' \in [Op -> Nat] /\ known'[o] = v /\ \A p \in Op \ {o} : known'[p] = known[p]
  BY DEF OutsideInv, OutsideShaped
<1>5. OutsideShaped'
  BY <1>1, <1>2, <1>4 DEF OutsideInv, OutsideShaped
<1>6. ASSUME NEW p \in Op PROVE (OpTrue(p, op[p]) /\ StillSound(op[p]))'
  <2>1. OpTrue(p, op'[p]) /\ StillSound(op'[p]) /\ op'[p].pc \in {"call", "result"} => known'[p] >= op'[p].from
    <3>1. CASE p = o
      BY <3>1, <1>2, <1>4
    <3>2. CASE p # o
      BY <3>2, <1>2, <1>4 DEF OutsideInv, OpTrue
    <3> QED BY <3>1, <3>2
  <2>2. OpTrue(p, op'[p]) /\ StillSound(op'[p])
    BY <1>2 DEF OutsideInv
  <2>3. OpTrue(p, op[p])'
    BY <1>1, <2>1, <2>2 DEF OpTrue
  <2>4. StillSound(op[p])'
    BY <1>1, <2>2 DEF StillSound, BrowserOf
  <2> QED BY <2>3, <2>4
<1>7. active' = Cardinality(Counted')
  BY <1>1, <1>3 DEF OutsideInv
<1> QED BY <1>5, <1>6, <1>7 DEF OutsideInv

LEMMA DiscoverKeeps ==
  ASSUME OutsideInv, NEW o \in Op, Discover(o)
  PROVE  OutsideInv'
<1>1. op[o].pc = "idle" /\ UNCHANGED <<browserVars, remote, offer, allowed>>
  BY Zenon DEF Discover
<1>2. remote \in Nat /\ offer.version \in Nat /\ OpTrue(o, op[o]) /\ StillSound(op[o])
  BY DEF OutsideInv, OutsideShaped
<1>3. CASE offer.fresh
  <2>1. known' = [known EXCEPT ![o] = offer.version] /\ UNCHANGED op
    BY <1>3, Zenon DEF Discover
  <2>2. offer'.version \in Nat /\ DOMAIN offer' = {"version", "fresh"}
    BY <1>1 DEF OutsideInv, OutsideShaped
  <2>3. ~Counts(op[o]) /\ op[o].pc \notin {"call", "result"}
    BY <1>1 DEF Counts
  <2> QED BY <1>1, <1>2, <2>1, <2>2, <2>3, LearningStep
<1>4. CASE ~offer.fresh
  <2>1. PICK r : r = [Resting EXCEPT !.pc = "list", !.kind = "discover", !.from = remote]
    OBVIOUS
  <2>2. Becomes(o, r) /\ UNCHANGED known
    BY <1>4, <2>1, Zenon DEF Discover
  <2>3. DOMAIN r = OpFields /\ r.pc = "list" /\ r.kind = "discover" /\ r.from = remote
    BY <2>1 DEF Resting, OpFields
  <2>4. OpTrue(o, r) /\ StillSound(r) /\ Counts(r) = Counts(op[o])
    BY <1>1, <1>2, <2>3 DEF OpTrue, StillSound, Counts
  <2>5. UNCHANGED <<browserVars, mcpVars>>
    BY <1>1, <2>2 DEF mcpVars
  <2> QED BY <2>2, <2>4, <2>5, QuietStep
<1> QED BY <1>3, <1>4

LEMMA TakeCatalogKeeps ==
  ASSUME OutsideInv, NEW o \in Op, TakeCatalog(o)
  PROVE  OutsideInv'
<1>1. op[o].pc = "listed" /\ UNCHANGED <<browserVars, remote, allowed, calls>>
  BY Zenon DEF TakeCatalog
<1>2. OpTrue(o, op[o]) /\ known \in [Op -> Nat]
  BY DEF OutsideInv, OutsideShaped
<1>3. op[o].listed \in Nat /\ op[o].from \in Nat /\ op[o].listed >= op[o].from /\ DOMAIN op[o] = OpFields
  BY <1>1, <1>2 DEF OpTrue
<1>4. PICK there \in Presentable :
       /\ offer' = [version |-> IF there THEN op[o].listed ELSE 0, fresh |-> TRUE]
       /\ IF op[o].kind = "discover"
          THEN known' = [known EXCEPT ![o] = offer'.version] /\ Returns(o)
          ELSE /\ UNCHANGED known
               /\ IF there /\ Entry(o) = known[o] /\ allowed
                  THEN Becomes(o, [op[o] EXCEPT !.pc = "call"]) ELSE Returns(o)
  BY Zenon DEF TakeCatalog
<1>5. offer'.version \in Nat /\ DOMAIN offer' = {"version", "fresh"}
  BY <1>3, <1>4
<1>6. ~Counts(op[o]) /\ OpTrue(o, Resting) /\ StillSound(Resting) /\ ~Counts(Resting)
  BY <1>1, RestIsTrue DEF Counts
<1>7. Returns(o) => Becomes(o, Resting)
  BY DEF Returns
<1>8. Resting.pc \notin {"call", "result"}
  BY DEF Resting
<1>9. CASE op[o].kind = "discover"
  <2>1. known' = [known EXCEPT ![o] = offer'.version] /\ Becomes(o, Resting)
    BY <1>4, <1>7, <1>9
  <2> QED BY <1>1, <1>5, <1>6, <1>8, <2>1, LearningStep
<1>10. CASE op[o].kind # "discover"
  <2>1. PICK r : r = [op[o] EXCEPT !.pc = "call"]
    OBVIOUS
  <2>2. UNCHANGED known /\ (Returns(o) \/ (op[o].listed = known[o] /\ Becomes(o, r)))
    BY <1>4, <1>10, <2>1, Zenon DEF Entry
  <2>3. known[o] \in Nat /\ known' = [known EXCEPT ![o] = known[o]]
    BY <1>2, <2>2
  <2>4. CASE Returns(o)
    BY <1>1, <1>5, <1>6, <1>7, <1>8, <2>3, <2>4, LearningStep
  <2>5. CASE op[o].listed = known[o] /\ Becomes(o, r)
    <3>1. /\ DOMAIN r = OpFields /\ r.pc = "call" /\ r.kind = op[o].kind /\ r.ctx = op[o].ctx
          /\ r.from = op[o].from
      BY <1>3, <2>1 DEF OpFields
    <3>2. OpTrue(o, r) /\ StillSound(r) /\ ~Counts(r) /\ known[o] >= r.from
      BY <1>1, <1>2, <1>3, <2>5, <3>1 DEF OpTrue, StillSound, Counts
    <3> QED BY <1>1, <1>5, <1>6, <2>3, <2>5, <3>2, LearningStep
  <2> QED BY <2>2, <2>4, <2>5
<1> QED BY <1>9, <1>10

LEMMA RemoteChangesKeeps ==
  ASSUME OutsideInv, RemoteChanges
  PROVE  OutsideInv'
<1>1. UNCHANGED <<browserVars, known, op>>
  BY DEF RemoteChanges
<1>2. /\ remote \in Nat /\ remote' \in Nat /\ remote' >= remote
      /\ offer'.version \in Nat /\ DOMAIN offer' = {"version", "fresh"}
  BY DEF RemoteChanges, OutsideInv, OutsideShaped
<1>3. UNCHANGED <<chrome, dead, sessions, ctx, holder, active, cleaner, stopped, opened, known, op>>
  BY <1>1 DEF browserVars
<1>4. OutsideShaped' /\ active' = Cardinality(Counted')
  BY <1>2, <1>3 DEF OutsideInv, OutsideShaped, Counted, Counts
<1>5. ASSUME NEW p \in Op PROVE (OpTrue(p, op[p]) /\ StillSound(op[p]))'
  <2>1. OpTrue(p, op[p]) /\ StillSound(op[p])
    BY DEF OutsideInv
  <2>2. OpTrue(p, op[p])'
    BY <1>2, <1>3, <2>1 DEF OpTrue
  <2>3. StillSound(op[p])'
    BY <1>3, <2>1 DEF StillSound, BrowserOf
  <2> QED BY <2>2, <2>3
<1> QED BY <1>4, <1>5 DEF OutsideInv

LEMMA AllClosedWell ==
  ASSUME OutsideInv
  PROVE  /\ AllClosed = [c \in Ctx |-> AllClosed[c]]
         /\ \A c \in Ctx : /\ DOMAIN AllClosed[c] = {"chrome", "open", "idle"}
                           /\ AllClosed[c].chrome = ctx[c].chrome
<1>1. ASSUME NEW c \in Ctx
      PROVE  DOMAIN AllClosed[c] = {"chrome", "open", "idle"} /\ AllClosed[c].chrome = ctx[c].chrome
  <2>1. DOMAIN ctx[c] = {"chrome", "open", "idle"}
    BY DEF OutsideInv, OutsideShaped
  <2>2. AllClosed[c] = Shut(ctx[c]) \/ AllClosed[c] = ctx[c]
    BY Zenon DEF AllClosed
  <2>3. DOMAIN Shut(ctx[c]) = {"chrome", "open", "idle"} /\ Shut(ctx[c]).chrome = ctx[c].chrome
    BY <2>1 DEF Shut
  <2> QED BY <2>1, <2>2, <2>3
<1>2. AllClosed = [c \in Ctx |-> AllClosed[c]]
  BY DEF AllClosed
<1> QED BY <1>1, <1>2

\* Whatever _ensure_browser_locked does, who found things in order still does.
LEMMA EnsuredWell ==
  ASSUME OutsideInv, NEW e \in Ensured
  PROVE  /\ DOMAIN e.chrome = {"id", "worn"}
         /\ e.sessions = [k \in Key |-> e.sessions[k]]
         /\ \A k \in Key : e.sessions[k] # 0 => e.sessions[k] \in Ctx /\ e.sessions[k] <= opened
         /\ e.ctx = [c \in Ctx |-> e.ctx[c]]
         /\ \A c \in Ctx : DOMAIN e.ctx[c] = {"chrome", "open", "idle"} /\ e.ctx[c].chrome = ctx[c].chrome
         /\ \/ e.chrome = chrome /\ e.ctx = ctx
            \/ chrome.id \in dead \cup {0}
            \/ active = 0
<1>1. \/ e = AsItWas
      \/ e = Cleared /\ (~Attached \/ active = 0)
      \/ e = Launched(Cleared) /\ (~Attached \/ active = 0)
      \/ e = Launched(AsItWas) /\ (~Attached \/ active = 0)
  <2>1. Retire => Attached /\ active = 0
    BY Zenon DEF Retire
  <2>2. CASE Attached /\ ~Retire
    <3>1. Ensured = {AsItWas}
      BY <2>1, <2>2, Zenon DEF Ensured
    <3> QED BY <3>1
  <2>3. CASE Retire
    <3>1. Ensured = {Launched(Cleared), Cleared}
      BY <2>1, <2>3, Zenon DEF Ensured
    <3> QED BY <2>1, <2>3, <3>1
  <2>4. CASE ~Attached
    <3>1. Ensured = {Launched(AsItWas), Cleared}
      BY <2>1, <2>4, Zenon DEF Ensured
    <3> QED BY <2>4, <3>1
  <2> QED BY <2>2, <2>3, <2>4
<1>2. ~Attached => chrome.id \in dead \cup {0}
  BY DEF Attached
<1>3. /\ AsItWas.chrome = chrome /\ AsItWas.sessions = sessions /\ AsItWas.ctx = ctx
      /\ Cleared.chrome = NoChrome /\ Cleared.sessions = [k \in Key |-> 0] /\ Cleared.ctx = AllClosed
  BY DEF AsItWas, Cleared
<1>4. /\ DOMAIN AsItWas = {"chrome", "sessions", "ctx"} /\ DOMAIN Cleared = {"chrome", "sessions", "ctx"}
  BY DEF AsItWas, Cleared
<1>5. ASSUME NEW from, DOMAIN from = {"chrome", "sessions", "ctx"}
      PROVE  /\ Launched(from).chrome = [id |-> launched + 1, worn |-> FALSE]
             /\ Launched(from).sessions = from.sessions /\ Launched(from).ctx = from.ctx
  BY <1>5 DEF Launched
<1>6. /\ DOMAIN chrome = {"id", "worn"} /\ DOMAIN NoChrome = {"id", "worn"}
      /\ DOMAIN [id |-> launched + 1, worn |-> FALSE] = {"id", "worn"}
  BY DEF OutsideInv, OutsideShaped, NoChrome
<1>7. DOMAIN e.chrome = {"id", "worn"}
  BY <1>1, <1>3, <1>4, <1>5, <1>6
<1>8. (e.sessions = sessions /\ e.ctx = ctx) \/ (e.sessions = [k \in Key |-> 0] /\ e.ctx = AllClosed)
  BY <1>1, <1>3, <1>4, <1>5
<1>9. /\ e.sessions = [k \in Key |-> e.sessions[k]]
      /\ \A k \in Key : e.sessions[k] # 0 => e.sessions[k] \in Ctx /\ e.sessions[k] <= opened
  BY <1>8 DEF OutsideInv, OutsideShaped
<1>10. /\ e.ctx = [c \in Ctx |-> e.ctx[c]]
       /\ \A c \in Ctx : DOMAIN e.ctx[c] = {"chrome", "open", "idle"} /\ e.ctx[c].chrome = ctx[c].chrome
  BY <1>8, AllClosedWell DEF OutsideInv, OutsideShaped
<1>11. \/ e.chrome = chrome /\ e.ctx = ctx
       \/ chrome.id \in dead \cup {0}
       \/ active = 0
  BY <1>1, <1>2, <1>3
<1> QED BY <1>7, <1>9, <1>10, <1>11

\* A step of one call under the lock, with the browser e left there.
LEMMA EnsuredKeeps ==
  ASSUME OutsideInv, NEW e \in Ensured, NEW o \in Op, NEW r, Becomes(o, r), cleaner = 0,
         UNCHANGED <<dead, holder, cleaner, stopped, mcpVars>>, chrome' = e.chrome,
         OpTrue(o, r)', StillSound(r)', active' = Cardinality(Counted'),
         sessions' = [k \in Key |-> sessions'[k]],
         \A k \in Key : sessions'[k] # 0 => sessions'[k] \in Ctx /\ sessions'[k] <= opened',
         ctx' = [c \in Ctx |-> ctx'[c]],
         \A c \in Ctx : DOMAIN ctx'[c] = {"chrome", "open", "idle"},
         \A c \in Ctx : c <= opened => ctx'[c] = e.ctx[c],
         opened' \in Nat, opened' >= opened
  PROVE  OutsideInv'
<1>1. op'[o] = r /\ op' = [p \in Op |-> op'[p]] /\ \A p \in Op \ {o} : op'[p] = op[p]
  BY CountMoves DEF OutsideInv
<1>2. UNCHANGED <<remote, offer, known>> /\ opened \in Nat /\ Ctx \subseteq Nat
  BY OutsideAssumption DEF mcpVars, OutsideInv, OutsideShaped
<1>3. OutsideShaped'
  BY <1>1, <1>2, EnsuredWell DEF OutsideInv, OutsideShaped
<1>4. ASSUME NEW p \in Op, p # o PROVE (OpTrue(p, op[p]) /\ StillSound(op[p]))'
  <2>1. OpTrue(p, op[p]) /\ StillSound(op[p]) /\ op'[p] = op[p]
    BY <1>1, <1>4 DEF OutsideInv
  <2>2. OpTrue(p, op[p])'
    BY <1>2, <2>1 DEF OpTrue
  <2>3. ASSUME op[p].pc = "use", op[p].sound, ~op[p].waited, ~stopped
        PROVE  /\ BrowserOf(op[p])' # 0 /\ BrowserOf(op[p])' \in dead \cup {e.chrome.id}
               /\ op[p].kind # "collect" => /\ op[p].ctx # cleaner
                                            /\ (ctx'[op[p].ctx].open \/ ctx'[op[p].ctx].chrome \in dead)
    <3>1. /\ BrowserOf(op[p]) # 0 /\ BrowserOf(op[p]) \in dead \cup {chrome.id}
          /\ op[p].kind # "collect" => /\ op[p].ctx # cleaner
                                       /\ (ctx[op[p].ctx].open \/ ctx[op[p].ctx].chrome \in dead)
      BY <2>1, <2>3 DEF StillSound
    <3>2. active # 0
      BY <2>3, NobodyCounted DEF Counts
    <3>3. op[p].kind # "collect" => op[p].ctx \in Ctx /\ op[p].ctx <= opened
      BY <2>1, <2>3 DEF OpTrue
    <3>4. op[p].kind # "collect" => /\ ctx'[op[p].ctx] = e.ctx[op[p].ctx]
                                    /\ e.ctx[op[p].ctx].chrome = ctx[op[p].ctx].chrome
      BY <3>3, EnsuredWell
    <3>5. BrowserOf(op[p])' = BrowserOf(op[p])
      BY <2>1, <3>4 DEF BrowserOf
    <3>6. \/ e.chrome = chrome /\ e.ctx = ctx
          \/ chrome.id \in dead \cup {0}
      BY <3>2, EnsuredWell
    <3>7. CASE e.chrome = chrome /\ e.ctx = ctx
      BY <3>1, <3>4, <3>5, <3>7
    <3>8. CASE chrome.id \in dead \cup {0}
      <4>1. BrowserOf(op[p]) \in dead
        BY <3>1, <3>8
      <4>2. op[p].kind # "collect" => ctx[op[p].ctx].chrome \in dead
        BY <4>1 DEF BrowserOf
      <4> QED BY <3>1, <3>4, <3>5, <4>1, <4>2
    <3> QED BY <3>6, <3>7, <3>8
  <2>4. StillSound(op[p])'
    BY <2>1, <2>3 DEF StillSound, BrowserOf
  <2> QED BY <2>2, <2>4
<1>5. (OpTrue(o, op[o]) /\ StillSound(op[o]))'
  BY <1>1
<1> QED BY <1>3, <1>4, <1>5 DEF OutsideInv

LEMMA EnsureSessionKeeps ==
  ASSUME OutsideInv, NEW o \in Op, EnsureSession(o)
  PROVE  OutsideInv'
<1>1. /\ op[o].pc = "ensure" /\ op[o].kind # "collect" /\ cleaner = 0
      /\ UNCHANGED <<dead, holder, active, cleaner, stopped, mcpVars, calls>>
  BY Zenon DEF EnsureSession, StateLockFree
<1>2. PICK e \in Ensured :
       /\ chrome' = e.chrome
       /\ \/ e.chrome.id = 0 /\ Returns(o) /\ sessions' = e.sessions /\ ctx' = e.ctx /\ UNCHANGED opened
          \/ /\ e.chrome.id # 0 /\ e.sessions[op[o].key] # 0
             /\ Becomes(o, [op[o] EXCEPT !.pc = "count", !.ctx = e.sessions[op[o].key]])
             /\ sessions' = e.sessions /\ ctx' = e.ctx /\ UNCHANGED opened
          \/ /\ e.chrome.id # 0 /\ e.sessions[op[o].key] = 0 /\ opened + 1 \in Ctx /\ opened' = opened + 1
             /\ Becomes(o, [op[o] EXCEPT !.pc = "count", !.ctx = opened'])
             /\ sessions' = [e.sessions EXCEPT ![op[o].key] = opened']
             /\ ctx' = [e.ctx EXCEPT ![opened'] = [chrome |-> e.chrome.id, open |-> TRUE, idle |-> FALSE]]
  BY Zenon DEF EnsureSession
<1>3. OpTrue(o, op[o]) /\ opened \in Nat /\ active = Cardinality(Counted) /\ OutsideShaped /\ Ctx \subseteq Nat
  BY OutsideAssumption DEF OutsideInv, OutsideShaped
<1>4. op[o].key \in Key /\ DOMAIN op[o] = OpFields
  BY <1>1, <1>3 DEF OpTrue
<1>5. /\ e.sessions = [k \in Key |-> e.sessions[k]]
      /\ \A k \in Key : e.sessions[k] # 0 => e.sessions[k] \in Ctx /\ e.sessions[k] <= opened
      /\ e.ctx = [c \in Ctx |-> e.ctx[c]]
      /\ \A c \in Ctx : DOMAIN e.ctx[c] = {"chrome", "open", "idle"}
  BY EnsuredWell
<1>6. ASSUME NEW r, Becomes(o, r), ~Counts(r) PROVE active' = Cardinality(Counted')
  <2>1. Counts(r) = Counts(op[o])
    BY <1>1, <1>6 DEF Counts
  <2> QED BY <1>1, <1>3, <1>6, <2>1, CountMoves
<1>7. CASE /\ e.chrome.id = 0 /\ Returns(o) /\ sessions' = e.sessions /\ ctx' = e.ctx /\ UNCHANGED opened
  <2>1. Becomes(o, Resting) /\ ~Counts(Resting) /\ OpTrue(o, Resting)' /\ StillSound(Resting)'
    BY <1>7 DEF Returns, OpTrue, OpFields, StillSound, Counts, Resting
  <2>2. active' = Cardinality(Counted')
    BY <1>6, <2>1
  <2>3. sessions' = e.sessions /\ ctx' = e.ctx /\ opened' = opened
    BY <1>7
  <2> QED BY <1>1, <1>2, <1>3, <1>5, <2>1, <2>2, <2>3, EnsuredKeeps
<1>8. CASE /\ e.chrome.id # 0 /\ e.sessions[op[o].key] # 0
           /\ Becomes(o, [op[o] EXCEPT !.pc = "count", !.ctx = e.sessions[op[o].key]])
           /\ sessions' = e.sessions /\ ctx' = e.ctx /\ UNCHANGED opened
  <2>1. PICK r : r = [op[o] EXCEPT !.pc = "count", !.ctx = e.sessions[op[o].key]]
    OBVIOUS
  <2>2. Becomes(o, r) /\ sessions' = e.sessions /\ ctx' = e.ctx /\ opened' = opened
    BY <1>8, <2>1
  <2>3. DOMAIN r = OpFields /\ r.pc = "count" /\ r.kind = op[o].kind /\ r.ctx = e.sessions[op[o].key]
    BY <1>4, <2>1 DEF OpFields
  <2>4. r.ctx \in Ctx /\ r.ctx <= opened
    BY <1>4, <1>5, <1>8, <2>3
  <2>5. ~Counts(r) /\ OpTrue(o, r)' /\ StillSound(r)'
    BY <1>1, <2>2, <2>3, <2>4 DEF Counts, OpTrue, StillSound
  <2>6. active' = Cardinality(Counted')
    BY <1>6, <2>2, <2>5
  <2> QED BY <1>1, <1>2, <1>3, <1>5, <2>2, <2>5, <2>6, EnsuredKeeps
<1>9. CASE /\ e.chrome.id # 0 /\ e.sessions[op[o].key] = 0 /\ opened + 1 \in Ctx /\ opened' = opened + 1
           /\ Becomes(o, [op[o] EXCEPT !.pc = "count", !.ctx = opened'])
           /\ sessions' = [e.sessions EXCEPT ![op[o].key] = opened']
           /\ ctx' = [e.ctx EXCEPT ![opened'] = [chrome |-> e.chrome.id, open |-> TRUE, idle |-> FALSE]]
  <2>1. PICK n : n = opened'
    OBVIOUS
  <2>2. n = opened + 1 /\ n \in Ctx /\ n \in Nat
    BY <1>3, <1>9, <2>1
  <2>3. PICK r : r = [op[o] EXCEPT !.pc = "count", !.ctx = n]
    OBVIOUS
  <2>4. Becomes(o, r)
    BY <1>9, <2>1, <2>3
  <2>5. DOMAIN r = OpFields /\ r.pc = "count" /\ r.kind = op[o].kind /\ r.ctx = n
    BY <1>4, <2>3 DEF OpFields
  <2>6. ~Counts(r) /\ OpTrue(o, r)' /\ StillSound(r)'
    BY <1>1, <2>1, <2>2, <2>5 DEF Counts, OpTrue, StillSound
  <2>7. active' = Cardinality(Counted')
    BY <1>6, <2>4, <2>6
  <2>8. sessions' = [e.sessions EXCEPT ![op[o].key] = n]
    BY <1>9, <2>1
  <2>9. /\ sessions' = [k \in Key |-> sessions'[k]]
        /\ \A k \in Key : sessions'[k] # 0 => sessions'[k] \in Ctx /\ sessions'[k] <= n
    <3>1. PICK s, key : s = e.sessions /\ key = op[o].key
      OBVIOUS
    <3>2. sessions' = [s EXCEPT ![key] = n] /\ s = [k \in Key |-> s[k]]
      BY <1>5, <2>8, <3>1
    <3>3. sessions' = [k \in Key |-> sessions'[k]] /\ \A k \in Key : sessions'[k] = n \/ sessions'[k] = s[k]
      BY <3>2
    <3>4. \A k \in Key : s[k] # 0 => s[k] \in Ctx /\ s[k] \in Nat /\ s[k] <= opened
      BY <1>3, <1>5, <3>1
    <3>5. \A k \in Key : s[k] # 0 => s[k] <= n
      BY <1>3, <2>2, <3>4
    <3> QED BY <2>2, <3>3, <3>4, <3>5
  <2>10. PICK x : x = [chrome |-> e.chrome.id, open |-> TRUE, idle |-> FALSE]
    OBVIOUS
  <2>11. ctx' = [e.ctx EXCEPT ![n] = x] /\ DOMAIN x = {"chrome", "open", "idle"}
    BY <1>9, <2>1, <2>10
  <2>12. /\ ctx' = [c \in Ctx |-> ctx'[c]]
         /\ \A c \in Ctx : DOMAIN ctx'[c] = {"chrome", "open", "idle"}
         /\ \A c \in Ctx : c <= opened => ctx'[c] = e.ctx[c]
    <3>1. PICK old : old = e.ctx
      OBVIOUS
    <3>2. /\ ctx' = [old EXCEPT ![n] = x] /\ old = [c \in Ctx |-> old[c]]
          /\ \A c \in Ctx : DOMAIN old[c] = {"chrome", "open", "idle"}
      BY <1>5, <2>11, <3>1
    <3>3. ctx' = [c \in Ctx |-> ctx'[c]] /\ ctx'[n] = x /\ \A c \in Ctx : c # n => ctx'[c] = old[c]
      BY <2>2, <3>2
    <3>4. \A c \in Ctx : c <= opened => c # n
      BY <1>3, <2>2
    <3> QED BY <2>11, <3>1, <3>2, <3>3, <3>4
  <2> QED BY <1>1, <1>2, <1>3, <2>1, <2>2, <2>4, <2>6, <2>7, <2>9, <2>12, EnsuredKeeps
<1> QED BY <1>2, <1>7, <1>8, <1>9

LEMMA EnsureCollectionKeeps ==
  ASSUME OutsideInv, NEW o \in Op, EnsureCollection(o)
  PROVE  OutsideInv'
<1>1. /\ op[o].pc = "ensure" /\ op[o].kind = "collect" /\ cleaner = 0
      /\ UNCHANGED <<dead, holder, cleaner, stopped, opened, mcpVars>>
  BY Zenon DEF EnsureCollection, StateLockFree
<1>2. PICK e \in Ensured :
       /\ chrome' = e.chrome /\ sessions' = e.sessions /\ ctx' = e.ctx
       /\ IF e.chrome.id # 0
          THEN active' = active + 1 /\ Becomes(o, [op[o] EXCEPT !.pc = "use", !.from = e.chrome.id, !.sound = TRUE])
          ELSE Returns(o) /\ UNCHANGED active
  BY Zenon DEF EnsureCollection
<1>3. /\ OpTrue(o, op[o]) /\ opened \in Nat /\ active = Cardinality(Counted) /\ OutsideShaped
      /\ ~Counts(op[o])
  BY <1>1 DEF OutsideInv, OutsideShaped, Counts
<1>4. DOMAIN op[o] = OpFields /\ op[o].ctx = 0
  BY <1>1, <1>3 DEF OpTrue
<1>5. /\ sessions' = [k \in Key |-> sessions'[k]]
      /\ \A k \in Key : sessions'[k] # 0 => sessions'[k] \in Ctx /\ sessions'[k] <= opened'
      /\ ctx' = [c \in Ctx |-> ctx'[c]]
      /\ \A c \in Ctx : DOMAIN ctx'[c] = {"chrome", "open", "idle"}
      /\ \A c \in Ctx : c <= opened => ctx'[c] = e.ctx[c]
  BY <1>1, <1>2, EnsuredWell
<1>6. opened' \in Nat /\ opened' >= opened
  BY <1>1, <1>3
<1>7. CASE e.chrome.id # 0
  <2>1. PICK r : r = [op[o] EXCEPT !.pc = "use", !.from = e.chrome.id, !.sound = TRUE]
    OBVIOUS
  <2>2. Becomes(o, r) /\ active' = active + 1
    BY <1>2, <1>7, <2>1
  <2>3. DOMAIN r = OpFields /\ r.pc = "use" /\ r.kind = "collect" /\ r.ctx = 0 /\ r.from = e.chrome.id
    BY <1>1, <1>4, <2>1 DEF OpFields
  <2>4. Counts(r) /\ OpTrue(o, r)'
    BY <2>3 DEF Counts, OpTrue
  <2>5. StillSound(r)'
    BY <1>2, <1>7, <2>3 DEF StillSound, BrowserOf
  <2>6. active' = Cardinality(Counted')
    BY <1>3, <2>2, <2>4, CountMoves
  <2> QED BY <1>1, <1>2, <1>5, <1>6, <2>2, <2>4, <2>5, <2>6, EnsuredKeeps
<1>8. CASE e.chrome.id = 0
  <2>1. Becomes(o, Resting) /\ active' = active
    BY <1>2, <1>8 DEF Returns
  <2>2. ~Counts(Resting) /\ OpTrue(o, Resting)' /\ StillSound(Resting)'
    BY DEF OpTrue, OpFields, StillSound, Counts, Resting
  <2>3. Counts(Resting) = Counts(op[o])
    BY <1>3, <2>2 DEF Counts
  <2>4. active' = Cardinality(Counted')
    BY <1>3, <2>1, <2>3, CountMoves
  <2> QED BY <1>1, <1>2, <1>5, <1>6, <2>1, <2>2, <2>4, EnsuredKeeps
<1> QED BY <1>7, <1>8

\* A step of one call after which every browser and context is the one it was, as open as it was,
\* and whoever holds a session besides that call still holds it.
LEMMA HandStep ==
  ASSUME OutsideInv, NEW o \in Op, NEW r, Becomes(o, r),
         UNCHANGED <<dead, sessions, cleaner, stopped, opened, mcpVars>>,
         DOMAIN chrome' = {"id", "worn"}, chrome'.id = chrome.id,
         ctx' = [c \in Ctx |-> ctx'[c]],
         \A c \in Ctx : /\ DOMAIN ctx'[c] = {"chrome", "open", "idle"}
                        /\ ctx'[c].chrome = ctx[c].chrome /\ ctx'[c].open = ctx[c].open,
         holder' = [c \in Ctx |-> holder'[c]],
         \A p \in Op \ {o} : \A c \in Ctx : holder[c] = p => holder'[c] = p,
         OpTrue(o, r)', StillSound(r)', active' = Cardinality(Counted')
  PROVE  OutsideInv'
<1>1. op'[o] = r /\ op' = [p \in Op |-> op'[p]] /\ \A p \in Op \ {o} : op'[p] = op[p]
  BY CountMoves DEF OutsideInv
<1>2. UNCHANGED <<remote, offer, known>>
  BY DEF mcpVars
<1>3. OutsideShaped'
  BY <1>1, <1>2 DEF OutsideInv, OutsideShaped
<1>4. ASSUME NEW p \in Op, p # o PROVE (OpTrue(p, op[p]) /\ StillSound(op[p]))'
  <2>1. OpTrue(p, op[p]) /\ StillSound(op[p]) /\ op'[p] = op[p]
    BY <1>1, <1>4 DEF OutsideInv
  <2>2. OpTrue(p, op[p])'
    BY <1>2, <1>4, <2>1 DEF OpTrue
  <2>3. op[p].pc = "use" /\ op[p].kind # "collect" => op[p].ctx \in Ctx
    BY <2>1 DEF OpTrue
  <2>4. StillSound(op[p])'
    BY <2>1, <2>3 DEF StillSound, BrowserOf
  <2> QED BY <2>2, <2>4
<1>5. (OpTrue(o, op[o]) /\ StillSound(op[o]))'
  BY <1>1
<1> QED BY <1>3, <1>4, <1>5 DEF OutsideInv

\* The session of context c goes from nobody to o, or from o to nobody.
LEMMA HolderMoves ==
  ASSUME OutsideInv, NEW o \in Op, NEW c \in Ctx, NEW x, holder' = [holder EXCEPT ![c] = x],
         holder[c] = NoOp \/ holder[c] = o
  PROVE  /\ holder' = [d \in Ctx |-> holder'[d]] /\ holder'[c] = x
         /\ \A p \in Op \ {o} : \A d \in Ctx : holder[d] = p => holder'[d] = p
<1>1. holder = [d \in Ctx |-> holder[d]]
  BY DEF OutsideInv, OutsideShaped
<1>2. holder' = [d \in Ctx |-> holder'[d]] /\ holder'[c] = x /\ \A d \in Ctx : d # c => holder'[d] = holder[d]
  BY <1>1
<1> QED BY <1>2, OutsideAssumption

LEMMA CtxShaped ==
  ASSUME OutsideInv
  PROVE  /\ DOMAIN chrome = {"id", "worn"} /\ ctx = [c \in Ctx |-> ctx[c]]
         /\ \A c \in Ctx : DOMAIN ctx[c] = {"chrome", "open", "idle"}
         /\ holder = [c \in Ctx |-> holder[c]] /\ active = Cardinality(Counted)
BY DEF OutsideInv, OutsideShaped

LEMMA CountKeeps ==
  ASSUME OutsideInv, NEW o \in Op, Count(o)
  PROVE  OutsideInv'
<1>1. /\ op[o].pc = "count" /\ cleaner = 0 /\ active' = active + 1
      /\ UNCHANGED <<chrome, dead, sessions, ctx, cleaner, stopped, launched, opened, mcpVars, calls>>
  BY Zenon DEF Count, StateLockFree
<1>2. OpTrue(o, op[o]) /\ OutsideShaped /\ ~Counts(op[o])
  BY <1>1 DEF OutsideInv, Counts
<1>3. DOMAIN op[o] = OpFields /\ op[o].kind # "collect" /\ op[o].ctx \in Ctx /\ op[o].ctx <= opened
  BY <1>1, <1>2 DEF OpTrue
<1>4. op[o].ctx # 0
  BY <1>3, OutsideAssumption
<1>5. CASE holder[op[o].ctx] = NoOp /\ Waiting(op[o].ctx) = {}
  <2>1. PICK r : r = [op[o] EXCEPT !.pc = "use", !.sound = Sound(op[o].ctx)]
    OBVIOUS
  <2>2. holder' = [holder EXCEPT ![op[o].ctx] = o] /\ Becomes(o, r)
    BY <1>5, <2>1, Zenon DEF Count
  <2>3. /\ DOMAIN r = OpFields /\ r.pc = "use" /\ r.kind = op[o].kind /\ r.ctx = op[o].ctx
        /\ r.sound = Sound(op[o].ctx)
    BY <1>3, <2>1 DEF OpFields
  <2>4. /\ holder' = [c \in Ctx |-> holder'[c]] /\ holder'[op[o].ctx] = o
        /\ \A p \in Op \ {o} : \A c \in Ctx : holder[c] = p => holder'[c] = p
    BY <1>3, <1>5, <2>2, HolderMoves
  <2>5. OpTrue(o, r)' /\ Counts(r)
    BY <1>1, <1>3, <2>3, <2>4 DEF OpTrue, Counts
  <2>6. StillSound(r)'
    <3>1. r.sound => ctx[r.ctx].open /\ ctx[r.ctx].chrome = chrome.id /\ chrome.id # 0
      BY <2>3 DEF Sound, Attached
    <3> QED BY <1>1, <1>3, <1>4, <2>3, <3>1 DEF StillSound, BrowserOf
  <2>7. active' = Cardinality(Counted')
    BY <1>1, <1>2, <2>2, <2>5, CountMoves, CtxShaped
  <2> QED BY <1>1, <2>2, <2>4, <2>5, <2>6, <2>7, CtxShaped, HandStep
<1>6. CASE ~(holder[op[o].ctx] = NoOp /\ Waiting(op[o].ctx) = {})
  <2>1. PICK r : r = [op[o] EXCEPT !.pc = "wait"]
    OBVIOUS
  <2>2. UNCHANGED holder /\ Becomes(o, r)
    BY <1>6, <2>1, Zenon DEF Count
  <2>3. DOMAIN r = OpFields /\ r.pc = "wait" /\ r.kind = op[o].kind /\ r.ctx = op[o].ctx
    BY <1>3, <2>1 DEF OpFields
  <2>4. OpTrue(o, r)' /\ Counts(r) /\ StillSound(r)'
    BY <1>1, <1>3, <2>3 DEF OpTrue, Counts, StillSound
  <2>5. active' = Cardinality(Counted')
    BY <1>1, <1>2, <2>2, <2>4, CountMoves, CtxShaped
  <2> QED BY <1>1, <2>2, <2>4, <2>5, CtxShaped, HandStep
<1> QED BY <1>5, <1>6

LEMMA WakeUpKeeps ==
  ASSUME OutsideInv, NEW o \in Op, WakeUp(o)
  PROVE  OutsideInv'
<1>1. PICK r : r = [op[o] EXCEPT !.pc = "use", !.sound = Sound(op[o].ctx), !.waited = TRUE]
  OBVIOUS
<1>2. /\ op[o].pc = "wait" /\ holder[op[o].ctx] = NoOp /\ holder' = [holder EXCEPT ![op[o].ctx] = o]
      /\ Becomes(o, r)
      /\ UNCHANGED <<chrome, dead, sessions, ctx, active, cleaner, stopped, launched, opened, mcpVars, calls>>
  BY <1>1, Zenon DEF WakeUp
<1>3. OpTrue(o, op[o])
  BY DEF OutsideInv
<1>4. DOMAIN op[o] = OpFields /\ op[o].kind # "collect" /\ op[o].ctx \in Ctx /\ op[o].ctx <= opened
  BY <1>2, <1>3 DEF OpTrue
<1>5. DOMAIN r = OpFields /\ r.pc = "use" /\ r.kind = op[o].kind /\ r.ctx = op[o].ctx /\ r.waited
  BY <1>1, <1>4 DEF OpFields
<1>6. /\ holder' = [c \in Ctx |-> holder'[c]] /\ holder'[op[o].ctx] = o
      /\ \A p \in Op \ {o} : \A c \in Ctx : holder[c] = p => holder'[c] = p
  BY <1>2, <1>4, HolderMoves
<1>7. OpTrue(o, r)' /\ StillSound(r)' /\ Counts(r) = Counts(op[o])
  BY <1>2, <1>4, <1>5, <1>6 DEF OpTrue, Counts, StillSound
<1>8. active' = Cardinality(Counted')
  BY <1>2, <1>7, CountMoves, CtxShaped DEF OutsideInv
<1> QED BY <1>2, <1>6, <1>7, <1>8, CtxShaped, HandStep

LEMMA PageFailedKeeps ==
  ASSUME OutsideInv, NEW o \in Op, PageFailed(o)
  PROVE  OutsideInv'
<1>1. PICK r : r = [op[o] EXCEPT !.pc = "leave"]
  OBVIOUS
<1>2. /\ op[o].pc = "use" /\ op[o].kind # "collect" /\ holder' = [holder EXCEPT ![op[o].ctx] = NoOp]
      /\ Becomes(o, r)
      /\ UNCHANGED <<chrome, dead, sessions, ctx, active, cleaner, stopped, launched, opened, mcpVars, calls>>
  BY <1>1, Zenon DEF PageFailed
<1>3. OpTrue(o, op[o])
  BY DEF OutsideInv
<1>4. DOMAIN op[o] = OpFields /\ op[o].ctx \in Ctx /\ holder[op[o].ctx] = o
  BY <1>2, <1>3 DEF OpTrue
<1>5. DOMAIN r = OpFields /\ r.pc = "leave" /\ r.kind = op[o].kind /\ r.ctx = op[o].ctx
  BY <1>1, <1>4 DEF OpFields
<1>6. /\ holder' = [c \in Ctx |-> holder'[c]]
      /\ \A p \in Op \ {o} : \A c \in Ctx : holder[c] = p => holder'[c] = p
  BY <1>2, <1>4, HolderMoves
<1>7. OpTrue(o, r)' /\ StillSound(r)' /\ Counts(r) = Counts(op[o])
  BY <1>2, <1>5 DEF OpTrue, Counts, StillSound
<1>8. active' = Cardinality(Counted')
  BY <1>2, <1>7, CountMoves, CtxShaped DEF OutsideInv
<1> QED BY <1>2, <1>6, <1>7, <1>8, CtxShaped, HandStep

LEMMA PageReadKeeps ==
  ASSUME OutsideInv, NEW o \in Op, PageRead(o)
  PROVE  OutsideInv'
<1>1. PICK r : r = [op[o] EXCEPT !.pc = "leave"]
  OBVIOUS
<1>2. /\ op[o].pc = "use" /\ op[o].kind # "collect" /\ holder' = [holder EXCEPT ![op[o].ctx] = NoOp]
      /\ Becomes(o, r) /\ ctx' = [ctx EXCEPT ![op[o].ctx].idle = FALSE]
      /\ UNCHANGED <<chrome, dead, sessions, active, cleaner, stopped, launched, opened, mcpVars, calls>>
  BY <1>1, Zenon DEF PageRead
<1>3. OpTrue(o, op[o])
  BY DEF OutsideInv
<1>4. DOMAIN op[o] = OpFields /\ op[o].ctx \in Ctx /\ holder[op[o].ctx] = o
  BY <1>2, <1>3 DEF OpTrue
<1>5. DOMAIN r = OpFields /\ r.pc = "leave" /\ r.kind = op[o].kind /\ r.ctx = op[o].ctx
  BY <1>1, <1>4 DEF OpFields
<1>6. /\ holder' = [c \in Ctx |-> holder'[c]]
      /\ \A p \in Op \ {o} : \A c \in Ctx : holder[c] = p => holder'[c] = p
  BY <1>2, <1>4, HolderMoves
<1>7. OpTrue(o, r)' /\ StillSound(r)' /\ Counts(r) = Counts(op[o])
  BY <1>2, <1>5 DEF OpTrue, Counts, StillSound
<1>8. active' = Cardinality(Counted')
  BY <1>2, <1>7, CountMoves, CtxShaped DEF OutsideInv
<1>9. PICK d : d = op[o].ctx
  OBVIOUS
<1>10. ctx' = [ctx EXCEPT ![d].idle = FALSE]
  BY <1>2, <1>9
<1>11. /\ ctx' = [c \in Ctx |-> ctx'[c]]
       /\ \A c \in Ctx : /\ DOMAIN ctx'[c] = {"chrome", "open", "idle"}
                         /\ ctx'[c].chrome = ctx[c].chrome /\ ctx'[c].open = ctx[c].open
  BY <1>10, CtxShaped
<1> QED BY <1>2, <1>6, <1>7, <1>8, <1>11, CtxShaped, HandStep

LEMMA LeaveKeeps ==
  ASSUME OutsideInv, NEW o \in Op, Leave(o)
  PROVE  OutsideInv'
<1>1. /\ op[o].pc = "leave" /\ active' = active - 1 /\ Becomes(o, Resting)
      /\ \E worn \in BOOLEAN : chrome' = [chrome EXCEPT !.worn = chrome.id # 0 /\ (@ \/ worn)]
      /\ UNCHANGED <<dead, sessions, ctx, holder, cleaner, stopped, launched, opened, mcpVars, calls>>
  BY Zenon DEF Leave, Returns
<1>2. PICK b : chrome' = [chrome EXCEPT !.worn = b]
  BY <1>1
<1>3. DOMAIN chrome' = {"id", "worn"} /\ chrome'.id = chrome.id
  BY <1>2, CtxShaped
<1>4. ~Counts(Resting) /\ OpTrue(o, Resting)' /\ StillSound(Resting)' /\ Counts(op[o])
  BY <1>1 DEF OpTrue, OpFields, StillSound, Counts, Resting
<1>5. active' = Cardinality(Counted')
  BY <1>1, <1>4, CountMoves, CtxShaped DEF OutsideInv
<1> QED BY <1>1, <1>3, <1>4, <1>5, CtxShaped, HandStep

\* A step that no call makes.
LEMMA NobodysStep ==
  ASSUME OutsideInv, UNCHANGED <<holder, active, opened, mcpVars, op>>,
         DOMAIN chrome' = {"id", "worn"}, ctx' = [c \in Ctx |-> ctx'[c]],
         \A c \in Ctx : DOMAIN ctx'[c] = {"chrome", "open", "idle"},
         sessions' = [k \in Key |-> sessions'[k]],
         \A k \in Key : sessions'[k] # 0 => sessions'[k] = sessions[k],
         \A p \in Op : StillSound(op[p])'
  PROVE  OutsideInv'
<1>1. UNCHANGED <<remote, offer, known>>
  BY DEF mcpVars
<1>2. OutsideShaped'
  BY <1>1 DEF OutsideInv, OutsideShaped
<1>3. active' = Cardinality(Counted')
  BY DEF OutsideInv, Counted, Counts
<1>4. ASSUME NEW p \in Op PROVE OpTrue(p, op[p])'
  <2>1. OpTrue(p, op[p])
    BY DEF OutsideInv
  <2> QED BY <1>1, <2>1 DEF OpTrue
<1> QED BY <1>2, <1>3, <1>4 DEF OutsideInv

LEMMA SessionsShaped ==
  ASSUME OutsideInv
  PROVE  sessions = [k \in Key |-> sessions[k]] /\ \A k \in Key : sessions[k] # 0 => sessions[k] \in Ctx
BY DEF OutsideInv, OutsideShaped

LEMMA CleanSessionKeeps ==
  ASSUME OutsideInv, NEW k \in Key, CleanSession(k)
  PROVE  OutsideInv'
<1>1. /\ holder[sessions[k]] = NoOp /\ cleaner' = sessions[k]
      /\ UNCHANGED <<chrome, dead, sessions, ctx, holder, active, stopped, opened, mcpVars, op>>
  BY Zenon DEF CleanSession
<1>2. ASSUME NEW p \in Op PROVE StillSound(op[p])'
  <2>1. OpTrue(p, op[p]) /\ StillSound(op[p])
    BY DEF OutsideInv
  <2>2. op[p].pc = "use" /\ op[p].kind # "collect" => op[p].ctx # cleaner'
    BY <1>1, <2>1, OutsideAssumption DEF OpTrue
  <2> QED BY <1>1, <2>1, <2>2 DEF StillSound, BrowserOf
<1> QED BY <1>1, <1>2, CtxShaped, SessionsShaped, NobodysStep

LEMMA CleanContextKeeps ==
  ASSUME OutsideInv, CleanContext
  PROVE  OutsideInv'
<1>1. /\ cleaner' = 0 /\ ctx' = [ctx EXCEPT ![cleaner] = Shut(@)]
      /\ sessions' = [k \in Key |-> IF sessions[k] = cleaner THEN 0 ELSE sessions[k]]
      /\ UNCHANGED <<chrome, dead, holder, active, stopped, opened, mcpVars, op>>
  BY Zenon DEF CleanContext
<1>2. ASSUME NEW c \in Ctx
      PROVE  /\ DOMAIN ctx'[c] = {"chrome", "open", "idle"} /\ ctx'[c].chrome = ctx[c].chrome
             /\ c # cleaner => ctx'[c] = ctx[c]
  <2>1. DOMAIN ctx[c] = {"chrome", "open", "idle"}
    BY CtxShaped
  <2>2. DOMAIN Shut(ctx[c]) = {"chrome", "open", "idle"} /\ Shut(ctx[c]).chrome = ctx[c].chrome
    BY <2>1 DEF Shut
  <2>3. IF c = cleaner THEN ctx'[c] = Shut(ctx[c]) ELSE ctx'[c] = ctx[c]
    BY <1>1, CtxShaped
  <2> QED BY <2>1, <2>2, <2>3
<1>3. ctx' = [c \in Ctx |-> ctx'[c]]
  BY <1>1, CtxShaped
<1>4. ASSUME NEW p \in Op PROVE StillSound(op[p])'
  <2>1. OpTrue(p, op[p]) /\ StillSound(op[p])
    BY DEF OutsideInv
  <2>2. op[p].pc = "use" /\ op[p].kind # "collect" => op[p].ctx \in Ctx /\ op[p].ctx # 0
    BY <2>1, OutsideAssumption DEF OpTrue
  <2> QED BY <1>1, <1>2, <2>1, <2>2 DEF StillSound, BrowserOf
<1>5. sessions' = [k \in Key |-> sessions'[k]] /\ \A k \in Key : sessions'[k] # 0 => sessions'[k] = sessions[k]
  BY <1>1
<1> QED BY <1>1, <1>2, <1>3, <1>4, <1>5, CtxShaped, NobodysStep

LEMMA CloseBrowserKeeps ==
  ASSUME OutsideInv, CleanBrowser \/ StopBrowser
  PROVE  OutsideInv'
<1>1. /\ active = 0 \/ stopped' = TRUE
      /\ chrome' = NoChrome /\ sessions' = [k \in Key |-> 0] /\ ctx' = AllClosed
      /\ UNCHANGED <<dead, holder, active, opened, mcpVars, op>>
  <2>1. CASE CleanBrowser
    BY <2>1, Zenon DEF CleanBrowser
  <2>2. CASE StopBrowser
    BY <2>2, Zenon DEF StopBrowser
  <2> QED BY <2>1, <2>2
<1>2. ASSUME NEW p \in Op PROVE StillSound(op[p])'
  <2>1. active = 0 => op[p].pc # "use"
    BY NobodyCounted DEF Counts
  <2> QED BY <1>1, <2>1 DEF StillSound
<1>3. DOMAIN chrome' = {"id", "worn"}
  BY <1>1 DEF NoChrome
<1>4. sessions' = [k \in Key |-> sessions'[k]] /\ \A k \in Key : sessions'[k] # 0 => sessions'[k] = sessions[k]
  BY <1>1
<1> QED BY <1>1, <1>2, <1>3, <1>4, AllClosedWell, NobodysStep

LEMMA DiesKeeps ==
  ASSUME OutsideInv, ChromiumDies
  PROVE  OutsideInv'
<1>1. /\ dead \subseteq dead'
      /\ UNCHANGED <<chrome, sessions, ctx, holder, active, cleaner, stopped, opened, mcpVars, op>>
  BY DEF ChromiumDies
<1>2. ASSUME NEW p \in Op PROVE StillSound(op[p])'
  <2>1. StillSound(op[p])
    BY DEF OutsideInv
  <2> QED BY <1>1, <2>1 DEF StillSound, BrowserOf
<1> QED BY <1>1, <1>2, CtxShaped, SessionsShaped, NobodysStep

LEMMA AgesKeeps ==
  ASSUME OutsideInv, NEW c \in Ctx, Ages(c)
  PROVE  OutsideInv'
<1>1. /\ ctx' = [ctx EXCEPT ![c].idle = TRUE]
      /\ UNCHANGED <<chrome, dead, sessions, holder, active, cleaner, stopped, opened, mcpVars, op>>
  BY Zenon DEF Ages
<1>2. /\ ctx' = [d \in Ctx |-> ctx'[d]]
      /\ \A d \in Ctx : /\ DOMAIN ctx'[d] = {"chrome", "open", "idle"}
                        /\ ctx'[d].chrome = ctx[d].chrome /\ ctx'[d].open = ctx[d].open
  BY <1>1, CtxShaped
<1>3. ASSUME NEW p \in Op PROVE StillSound(op[p])'
  <2>1. OpTrue(p, op[p]) /\ StillSound(op[p])
    BY DEF OutsideInv
  <2>2. op[p].pc = "use" /\ op[p].kind # "collect" => op[p].ctx \in Ctx
    BY <2>1 DEF OpTrue
  <2> QED BY <1>1, <1>2, <2>1, <2>2 DEF StillSound, BrowserOf
<1> QED BY <1>1, <1>2, <1>3, CtxShaped, SessionsShaped, NobodysStep

LEMMA OutsideBegins == OutsideInit => OutsideInv
<1> SUFFICES ASSUME OutsideInit PROVE OutsideInv
  OBVIOUS
<1>1. \A o \in Op : op[o] = Resting
  BY DEF OutsideInit
<1>2. \A o \in Op : OpTrue(o, op[o]) /\ StillSound(op[o]) /\ ~Counts(op[o])
  BY <1>1, RestIsTrue
<1>3. Counted = {}
  BY <1>2 DEF Counted
<1>4. active = Cardinality(Counted)
  BY <1>3, FS_EmptySet DEF OutsideInit
<1>5. OutsideShaped
  BY DEF OutsideInit, OutsideShaped, NoChrome, NoCtx
<1> QED BY <1>2, <1>4, <1>5 DEF OutsideInv

LEMMA OutsideHolds == OutsideInv => OutsideKept
<1> SUFFICES ASSUME OutsideInv PROVE OutsideKept
  OBVIOUS
<1>1. active = Cardinality({o \in Op : op[o].pc \in {"wait", "use", "leave"}})
  BY DEF OutsideInv, Counted, Counts
<1>2. ASSUME NEW o \in Op, NEW p \in Op, o # p, Using(o), Using(p)
      PROVE  op[o].ctx = 0 \/ op[o].ctx # op[p].ctx
  <2>1. OpTrue(o, op[o]) /\ OpTrue(p, op[p])
    BY DEF OutsideInv
  <2>2. CASE op[o].kind = "collect"
    BY <2>1, <2>2 DEF OpTrue
  <2>3. CASE op[o].kind # "collect" /\ op[p].kind = "collect"
    BY <1>2, <2>1, <2>3, OutsideAssumption DEF OpTrue, Using
  <2>4. CASE op[o].kind # "collect" /\ op[p].kind # "collect"
    BY <1>2, <2>1, <2>4 DEF OpTrue, Using
  <2> QED BY <2>2, <2>3, <2>4
<1>3. ASSUME NEW o \in Op, Using(o), op[o].sound, ~op[o].waited, ~stopped
      PROVE  IF op[o].kind = "collect" THEN op[o].from \in dead \cup {chrome.id}
             ELSE ctx[op[o].ctx].open \/ ctx[op[o].ctx].chrome \in dead
  <2>1. StillSound(op[o])
    BY DEF OutsideInv
  <2> QED BY <1>3, <2>1 DEF StillSound, BrowserOf, Using
<1>4. \A o \in Op : op[o].pc \in {"call", "result"} => known[o] >= op[o].from
  BY DEF OutsideInv, OpTrue
<1> QED BY <1>1, <1>2, <1>3, <1>4 DEF OutsideKept

\* Whatever the tools that reach outside do, in whatever order: no two calls use one browser
\* context, everybody past the counter is counted once, what a call found in order without
\* queuing stays so unless Chromium dies or the runtime stops, and a remote tool is called only
\* with a schema published after the invocation began (BrowserCapabilityManager, McpGateway).
THEOREM OutsideStays == OutsideSpec => []OutsideKept
<1>1. OutsideInit => OutsideInv
  BY OutsideBegins
<1>2. OutsideInv /\ [OutsideNext]_outsideVars => OutsideInv'
  <2> SUFFICES ASSUME OutsideInv, [OutsideNext]_outsideVars PROVE OutsideInv'
    OBVIOUS
  <2>1. CASE UNCHANGED outsideVars
    <3>1. UNCHANGED <<chrome, dead, sessions, ctx, holder, active, cleaner, stopped, opened, mcpVars, op>>
      BY <2>1 DEF outsideVars, browserVars
    <3>2. \A p \in Op : StillSound(op[p])'
      BY <3>1 DEF OutsideInv, StillSound, BrowserOf
    <3> QED BY <3>1, <3>2, CtxShaped, SessionsShaped, NobodysStep
  <2>2. ASSUME NEW o \in Op, NEW kind \in BrowserKinds \cup PlainKinds, NEW k \in Key, CallTool(o, kind, k)
        PROVE  OutsideInv'
    BY <2>2, CallToolKeeps
  <2>3. ASSUME NEW o \in Op,
               PlainAnswer(o) \/ PlainRedirect(o) \/ PlainAgain(o) \/ PlainFallsBack(o) \/ TakePermit(o)
        PROVE  OutsideInv'
    BY <2>3, PlainKeeps
  <2>4. ASSUME NEW o \in Op, EnsureSession(o) \/ Count(o) \/ WakeUp(o) \/ PageRead(o) \/ PageFailed(o)
        PROVE  OutsideInv'
    BY <2>4, EnsureSessionKeeps, CountKeeps, WakeUpKeeps, PageReadKeeps, PageFailedKeeps
  <2>5. ASSUME NEW o \in Op, NextEngine(o) \/ CollectionRead(o) \/ EnsureCollection(o) \/ Leave(o)
        PROVE  OutsideInv'
    BY <2>5, StayOnPageKeeps, EnsureCollectionKeeps, LeaveKeeps
  <2>6. ASSUME NEW k \in Key, CleanSession(k) PROVE OutsideInv'
    BY <2>6, CleanSessionKeeps
  <2>7. ASSUME NEW c \in Ctx, Ages(c) PROVE OutsideInv'
    BY <2>7, AgesKeeps
  <2>8. CASE CleanContext \/ CleanBrowser \/ StopBrowser \/ ChromiumDies
    BY <2>8, CleanContextKeeps, CloseBrowserKeeps, DiesKeeps
  <2>9. CASE BrowserStep
    BY <2>2, <2>3, <2>4, <2>5, <2>6, <2>7, <2>8, <2>9 DEF BrowserStep
  <2>10. ASSUME NEW o \in Op, Discover(o) \/ Invoke(o) \/ TakeCatalog(o)
         PROVE  OutsideInv'
    BY <2>10, DiscoverKeeps, InvokeKeeps, TakeCatalogKeeps
  <2>11. ASSUME NEW o \in Op, Lists(o) \/ ListFails(o) \/ CallRemote(o) \/ NormalizeResult(o)
         PROVE  OutsideInv'
    BY <2>11, RemoteCallKeeps
  <2>12. CASE McpStep
    BY <2>10, <2>11, <2>12, RemoteChangesKeeps DEF McpStep
  <2> QED BY <2>1, <2>9, <2>12 DEF OutsideNext
<1>3. OutsideInv => OutsideKept
  BY OutsideHolds
<1> QED BY <1>1, <1>2, <1>3, PTL DEF OutsideSpec

(***************************************************************************)
(* The start of processes on one database                                  *)
(***************************************************************************)
Early == {"off", "lock", "schema", "markFailed"}
Locked == {"schema", "ledger", "columns", "check", "cutover", "retire", "cutoverDone", "privacy", "invariants"}
CopyOnly == {"prepare", "copyAll", "markCompleted", "markFailed"}
Demoing == {"demoNext", "demoCard", "demoSecret", "demoPrune", "demoDrop", "scenario", "pack"}
\* An API replica past its identity, past the initialization of the database.
Told == {"local", "system", "admin", "profile", "demo", "demoRead", "targets", "services", "serving"} \cup Demoing
After == {"utc", "identity"} \cup Told

ProcFields == {"kind", "pc", "i", "looked", "saw", "again", "began", "id", "fp", "todo", "have", "ver", "keep",
               "alone"}
CopyStates == {"none", "running", "failed", "completed"}

\* Which steps which kind of process takes.
Placed(r) ==
  /\ DOMAIN r = ProcFields /\ r.kind \in {"none", "api", "worker", "copy"} /\ r.began \in CopyStates
  /\ r.pc \in Early \cup Locked \cup CopyOnly \cup After
  /\ r.kind = "none" => r.pc = "off"
  /\ r.kind = "copy" => r.pc \notin After
  /\ r.kind # "copy" => r.pc \notin CopyOnly
  /\ r.kind # "api" => r.pc \notin After \ {"services", "serving"}

\* What a process has seen to be in the schema is there.
SchemaSeen(r) ==
  /\ r.pc \notin Early => "tables" \in ddl
  /\ r.pc = "ledger" =>
       /\ r.i \in DOMAIN Revisions /\ \A j \in DOMAIN Revisions : j < r.i => Revisions[j] \in ledger
       /\ dialect = "postgresql" => /\ r.i > 1 => "vector" \in ddl
                                    /\ r.i > 13 => "embedding" \in ddl
                                    /\ r.looked => r.i # 1 /\ r.i # 13
  /\ r.pc \notin Early \cup {"ledger"} =>
       /\ \A j \in DOMAIN Revisions : Revisions[j] \in ledger
       /\ dialect = "postgresql" => {"vector", "embedding"} \subseteq ddl
  /\ r.pc \notin Early \cup {"ledger", "columns"} => {"author", "fingerprint"} \subseteq ddl
  /\ r.pc \in After => "unique" \in ddl

\* What the initialization lock and the records of the copy and of the cutover promise it.
InitTrue(p, r) ==
  /\ r.pc \in Locked /\ dialect = "postgresql" => lock = p
  /\ r.began # "none" => copy.status # "none"
  /\ r.kind # "copy" /\ r.began \in {"running", "failed"}
       /\ r.pc \in {"cutover", "retire", "cutoverDone", "privacy", "invariants"} \cup After
       => copy.status = "completed"
  /\ r.pc = "copyAll" => ~legacy /\ (cutover = "none" => ~dups)
  /\ r.pc = "cutover" /\ r.looked /\ r.saw /\ dialect = "postgresql" => cutover \in {"running", "failed"}
  /\ r.pc \in {"retire", "cutoverDone"} =>
       cutover # "none" /\ (dialect = "postgresql" => cutover = "running")
  /\ r.pc = "cutoverDone" => ~legacy
  /\ r.kind # "copy" /\ r.pc \in {"privacy", "invariants"} \cup After =>
       ~legacy /\ cutover # "none" /\ (dialect = "postgresql" => cutover = "completed")
  /\ r.kind # "copy" /\ r.pc \in {"invariants"} \cup After => ~privacy.unsafe

\* The installation's own rows.
RowsSeen(r) ==
  /\ r.pc = "utc" /\ r.looked /\ r.saw => rows.marker
  /\ r.pc = "identity" /\ r.looked /\ r.saw => rows.identity # NoProc
  /\ r.kind = "api" /\ r.pc \in {"identity"} \cup Told => rows.marker
  /\ r.kind = "api" /\ r.pc \in Told => r.id = rows.identity /\ rows.identity # NoProc

ProcTrue(p, r) == Placed(r) /\ SchemaSeen(r) /\ InitTrue(p, r) /\ RowsSeen(r)

\* Nothing has a row before the cutover was claimed.
Untouched ==
  /\ rows.identity = NoProc /\ ~rows.marker /\ ~rows.targets /\ ~rows.profile
  /\ \A u \in Users : rows.user[u] = "none"
  /\ demo = {}

SharedTrue ==
  /\ DOMAIN rows = {"identity", "marker", "user", "profile", "targets"}
  /\ DOMAIN privacy = {"status", "unsafe"} /\ DOMAIN copy = {"status", "fp"}
  /\ cutover \in CopyStates /\ copy.status \in CopyStates
  /\ cutover = "completed" => ~legacy
  /\ cutover = "none" => Untouched
  /\ dialect = "postgresql" /\ "unique" \in ddl => ~dups
  /\ "embedding" \in ddl => "vector" \in ddl
  /\ chosen => tz = "utc" /\ rows.marker
  /\ ~merged

BootInv ==
  /\ proc = [p \in Proc |-> proc[p]] /\ SharedTrue
  /\ \A p \in Proc : ProcTrue(p, proc[p])

\* What a step of process p, or of nobody, leaves to the others.
Forward(p) ==
  /\ ddl \subseteq ddl' /\ ledger \subseteq ledger' /\ UNCHANGED dialect
  /\ legacy' => legacy
  /\ privacy'.unsafe => privacy.unsafe
  /\ \A q \in Proc \ {p} : lock = q => lock' = q
  /\ copy.status # "none" => copy'.status # "none"
  /\ copy.status = "completed" => copy'.status = "completed"
  /\ cutover # "none" => cutover' # "none"
  /\ cutover' = "none" => (dups' => dups)
  /\ dialect = "postgresql" /\ cutover # "none" /\ (cutover = "completed" \/ lock # p) => cutover' = cutover
  /\ rows.marker => rows'.marker
  /\ rows.identity # NoProc => rows'.identity = rows.identity

LEMMA OthersStay ==
  ASSUME NEW p, NEW q \in Proc, q # p, NEW r, NEW s, s = r \/ s = [r EXCEPT !.alone = FALSE],
         Forward(p), SharedTrue, ProcTrue(q, r)
  PROVE  ProcTrue(q, s)'
<1>1. DOMAIN r = ProcFields
  BY DEF ProcTrue, Placed
<1>2. /\ DOMAIN s = ProcFields /\ s.kind = r.kind /\ s.pc = r.pc /\ s.i = r.i /\ s.looked = r.looked
      /\ s.saw = r.saw /\ s.began = r.began /\ s.id = r.id
  BY <1>1 DEF ProcFields
<1>3. Placed(s)'
  BY <1>2 DEF ProcTrue, Placed
<1>4. SchemaSeen(s)'
  BY <1>2 DEF ProcTrue, SchemaSeen, Forward
<1>5. InitTrue(q, s)'
  <2>1. InitTrue(q, r)
    BY DEF ProcTrue
  <2>2. r.pc \in Locked /\ dialect = "postgresql" => lock = q /\ lock' = q /\ lock # p
    BY <2>1 DEF InitTrue, Forward
  <2>3. {"cutover", "retire", "cutoverDone"} \subseteq Locked
    BY DEF Locked
  <2>4. /\ s.pc \in Locked /\ dialect' = "postgresql" => lock' = q
        /\ s.began # "none" => copy'.status # "none"
        /\ s.kind # "copy" /\ s.began \in {"running", "failed"}
             /\ s.pc \in {"cutover", "retire", "cutoverDone", "privacy", "invariants"} \cup After
             => copy'.status = "completed"
        /\ s.pc = "copyAll" => ~legacy' /\ (cutover' = "none" => ~dups')
    BY <1>2, <2>1, <2>2 DEF InitTrue, Forward
  <2>5. s.pc = "cutover" /\ s.looked /\ s.saw /\ dialect' = "postgresql" => cutover' \in {"running", "failed"}
    BY <1>2, <2>1, <2>2, <2>3 DEF InitTrue, Forward
  <2>6. s.pc \in {"retire", "cutoverDone"} =>
          cutover' # "none" /\ (dialect' = "postgresql" => cutover' = "running")
    BY <1>2, <2>1, <2>2, <2>3 DEF InitTrue, Forward
  <2>7. /\ s.pc = "cutoverDone" => ~legacy'
        /\ s.kind # "copy" /\ s.pc \in {"privacy", "invariants"} \cup After =>
             ~legacy' /\ cutover' # "none" /\ (dialect' = "postgresql" => cutover' = "completed")
        /\ s.kind # "copy" /\ s.pc \in {"invariants"} \cup After => ~privacy'.unsafe
    BY <1>2, <2>1 DEF InitTrue, Forward
  <2> QED BY <2>4, <2>5, <2>6, <2>7 DEF InitTrue
<1>6. RowsSeen(s)'
  BY <1>2 DEF ProcTrue, RowsSeen, Forward
<1> QED BY <1>3, <1>4, <1>5, <1>6 DEF ProcTrue

LEMMA BootStep ==
  ASSUME BootInv, NEW p \in Proc, NEW r, Moves(p, r), Forward(p), SharedTrue', ProcTrue(p, r)'
  PROVE  BootInv'
<1>1. proc = [q \in Proc |-> proc[q]]
  BY DEF BootInv
<1>2. proc' = [q \in Proc |-> proc'[q]] /\ proc'[p] = r /\ \A q \in Proc \ {p} : proc'[q] = proc[q]
  BY <1>1 DEF Moves
<1>3. ASSUME NEW q \in Proc, q # p PROVE ProcTrue(q, proc[q])'
  <2>1. SharedTrue /\ ProcTrue(q, proc[q])
    BY DEF BootInv
  <2>2. PICK s : s = proc[q] /\ s = proc'[q]
    BY <1>2, <1>3
  <2>3. ProcTrue(q, s)'
    BY <1>3, <2>1, <2>2, OthersStay
  <2> QED BY <2>2, <2>3
<1>4. ProcTrue(p, proc[p])'
  BY <1>2
<1> QED BY <1>2, <1>3, <1>4 DEF BootInv

LEMMA SameShared ==
  ASSUME SharedTrue, NEW p, \A q \in Proc \ {p} : lock = q => lock' = q,
         UNCHANGED <<dialect, ddl, ledger, legacy, cutover, privacy, copy, dups, tz, chosen, rows, merged, demo>>
  PROVE  Forward(p) /\ SharedTrue'
<1>1. SharedTrue'
  BY DEF SharedTrue, Untouched
<1>2. Forward(p)
  BY DEF Forward
<1> QED BY <1>1, <1>2

LEMMA OwnTruth ==
  ASSUME BootInv, NEW p \in Proc
  PROVE  /\ SharedTrue /\ ProcTrue(p, proc[p]) /\ Placed(proc[p]) /\ SchemaSeen(proc[p])
         /\ InitTrue(p, proc[p]) /\ RowsSeen(proc[p]) /\ DOMAIN proc[p] = ProcFields
BY DEF BootInv, ProcTrue, Placed

LEMMA IdleTrue ==
  ASSUME NEW p \in Proc
  PROVE  ProcTrue(p, Idle)
<1>1. /\ DOMAIN Idle = ProcFields /\ Idle.kind = "none" /\ Idle.pc = "off" /\ Idle.began = "none"
  BY DEF Idle, ProcFields
<1>2. Placed(Idle)
  BY <1>1 DEF Placed, Early, Locked, CopyOnly, After, Told, Demoing, CopyStates
<1>3. SchemaSeen(Idle)
  BY <1>1 DEF SchemaSeen, Early, After, Told, Demoing
<1>4. InitTrue(p, Idle)
  BY <1>1 DEF InitTrue, Locked, After, Told, Demoing
<1>5. RowsSeen(Idle)
  BY <1>1 DEF RowsSeen
<1> QED BY <1>2, <1>3, <1>4, <1>5 DEF ProcTrue

LEMMA IdleStaysTrue ==
  ASSUME NEW p \in Proc
  PROVE  ProcTrue(p, Idle)'
<1>1. /\ DOMAIN Idle = ProcFields /\ Idle.kind = "none" /\ Idle.pc = "off" /\ Idle.began = "none"
  BY DEF Idle, ProcFields
<1>2. Placed(Idle)'
  BY <1>1 DEF Placed, Early, Locked, CopyOnly, After, Told, Demoing, CopyStates
<1>3. SchemaSeen(Idle)'
  BY <1>1 DEF SchemaSeen, Early, After, Told, Demoing
<1>4. InitTrue(p, Idle)'
  BY <1>1 DEF InitTrue, Locked, After, Told, Demoing
<1>5. RowsSeen(Idle)'
  BY <1>1 DEF RowsSeen
<1> QED BY <1>2, <1>3, <1>4, <1>5 DEF ProcTrue

\* A process that ends, whatever it leaves behind.
LEMMA EndKeeps ==
  ASSUME BootInv, NEW p \in Proc, Moves(p, Idle), Forward(p), SharedTrue'
  PROVE  BootInv'
BY IdleStaysTrue, BootStep

\* The lock of a process that fails or stops is released.
LEMMA ReleaseForward ==
  ASSUME NEW p \in Proc, lock' = IF lock = p THEN NoProc ELSE lock
  PROVE  \A q \in Proc \ {p} : lock = q => lock' = q
OBVIOUS

LEMMA AbortsKeeps ==
  ASSUME BootInv, NEW p \in Proc, Aborts(p), Forward(p), SharedTrue'
  PROVE  BootInv'
<1>1. Placed(proc[p]) /\ InitTrue(p, proc[p])
  BY OwnTruth
<1>2. CASE Owned(p)
  <2>1. PICK r : r = [proc[p] EXCEPT !.pc = "markFailed"]
    OBVIOUS
  <2>2. Moves(p, r) /\ proc[p].kind = "copy"
    BY <1>2, <2>1 DEF Aborts, Owned
  <2>3. DOMAIN r = ProcFields /\ r.kind = "copy" /\ r.pc = "markFailed" /\ r.began = proc[p].began
    BY <1>1, <2>1, <2>2 DEF Placed, ProcFields
  <2>4. Placed(r)'
    BY <1>1, <2>3 DEF Placed, Early, After, Told, Demoing
  <2>5. SchemaSeen(r)'
    BY <2>3 DEF SchemaSeen, Early, After, Told, Demoing
  <2>6. InitTrue(p, r)'
    BY <1>1, <2>3 DEF InitTrue, Locked, Forward
  <2>7. RowsSeen(r)'
    BY <2>3 DEF RowsSeen
  <2> QED BY <2>2, <2>4, <2>5, <2>6, <2>7, BootStep DEF ProcTrue
<1>3. CASE ~Owned(p)
  <2>1. Moves(p, Idle)
    BY <1>3 DEF Aborts
  <2> QED BY <2>1, EndKeeps
<1> QED BY <1>2, <1>3

\* An abort that touches nothing but the process and the lock.
LEMMA PlainAbortKeeps ==
  ASSUME BootInv, NEW p \in Proc, Aborts(p),
         UNCHANGED <<dialect, ddl, ledger, legacy, cutover, privacy, copy, dups, tz, chosen, rows, merged, demo>>
  PROVE  BootInv'
<1>1. lock' = IF lock = p THEN NoProc ELSE lock
  BY DEF Aborts
<1>2. \A q \in Proc \ {p} : lock = q => lock' = q
  BY <1>1, ReleaseForward
<1>3. Forward(p) /\ SharedTrue'
  BY <1>2, OwnTruth, SameShared
<1> QED BY <1>3, AbortsKeeps

\* A process that goes on to step pc, with all else it knows.
Onto(p, r, pc) ==
  /\ Moves(p, r) /\ DOMAIN r = ProcFields /\ r.kind = proc[p].kind /\ r.began = proc[p].began
  /\ r.id = proc[p].id /\ r.pc = pc /\ r.i = 1 /\ ~r.looked

\* The same of a process that goes on with other notes in hand.
Onward(p, r, pc) ==
  /\ Moves(p, r) /\ DOMAIN r = ProcFields /\ r.kind = proc[p].kind /\ r.began = proc[p].began
  /\ r.id = proc[p].id /\ r.pc = pc

LEMMA Proceeded ==
  ASSUME BootInv, NEW p \in Proc, NEW pc, Proceeds(p, pc)
  PROVE  \E r : Onto(p, r, pc)
<1>1. PICK r : r = [proc[p] EXCEPT !.pc = pc, !.looked = FALSE, !.i = 1]
  OBVIOUS
<1>2. Moves(p, r) /\ DOMAIN proc[p] = ProcFields
  BY <1>1, OwnTruth DEF Proceeds
<1>3. Onto(p, r, pc)
  BY <1>1, <1>2 DEF Onto, ProcFields
<1> QED BY <1>3

LEMMA StartKeeps ==
  ASSUME BootInv, NEW p \in Proc, NEW kind \in {"api", "worker", "copy"}, Start(p, kind)
  PROVE  BootInv'
<1>1. PICK r : r = [Idle EXCEPT !.kind = kind, !.pc = "lock", !.fp = Snapshot]
  OBVIOUS
<1>2. Moves(p, r) /\ UNCHANGED <<fixed, lock, schemaVars, copy, source, dups, rowVars, merged, demoVars>>
  BY <1>1, Zenon DEF Start
<1>3. Forward(p) /\ SharedTrue'
  BY <1>2, OwnTruth, SameShared DEF fixed, schemaVars, rowVars, demoVars
<1>4. DOMAIN r = ProcFields /\ r.kind = kind /\ r.pc = "lock" /\ r.began = "none"
  BY <1>1 DEF Idle, ProcFields
<1>5. Placed(r)'
  BY <1>4 DEF Placed, Early, CopyOnly, After, Told, Demoing, CopyStates
<1>6. SchemaSeen(r)' /\ InitTrue(p, r)' /\ RowsSeen(r)'
  BY <1>4 DEF SchemaSeen, InitTrue, RowsSeen, Early, Locked, After, Told, Demoing
<1> QED BY <1>2, <1>3, <1>5, <1>6, BootStep DEF ProcTrue

LEMMA InitializeLockKeeps ==
  ASSUME BootInv, NEW p \in Proc, InitializeLock(p)
  PROVE  BootInv'
<1>1. PICK r : r = [proc[p] EXCEPT !.pc = "schema", !.began = copy.status]
  OBVIOUS
<1>2. /\ proc[p].pc = "lock" /\ (dialect = "postgresql" => lock = NoProc)
      /\ lock' = IF dialect = "postgresql" THEN p ELSE lock
      /\ Moves(p, r) /\ UNCHANGED <<fixed, schemaVars, copy, source, dups, rowVars, merged, demoVars, starts>>
  BY <1>1, Zenon DEF InitializeLock
<1>3. /\ UNCHANGED <<dialect, ddl, ledger, legacy, cutover, privacy, copy, dups, tz, chosen, rows, merged, demo>>
  BY <1>2 DEF fixed, schemaVars, rowVars, demoVars
<1>4. \A q \in Proc \ {p} : lock = q => lock' = q
  BY <1>2, StorageAssumption
<1>5. Forward(p) /\ SharedTrue' /\ copy.status \in CopyStates
  BY <1>3, <1>4, OwnTruth, SameShared DEF SharedTrue
<1>6. DOMAIN r = ProcFields /\ r.kind = proc[p].kind /\ r.pc = "schema" /\ r.began = copy.status
  BY <1>1, OwnTruth DEF ProcFields
<1>7. Placed(r)'
  BY <1>2, <1>5, <1>6, OwnTruth DEF Placed, Locked, CopyOnly, After, Told, Demoing
<1>8. InitTrue(p, r)'
  BY <1>2, <1>3, <1>6 DEF InitTrue, Locked, After, Told, Demoing
<1>9. SchemaSeen(r)' /\ RowsSeen(r)'
  BY <1>6 DEF SchemaSeen, RowsSeen, Early, After, Told, Demoing
<1> QED BY <1>2, <1>5, <1>7, <1>8, <1>9, BootStep DEF ProcTrue

LEMMA CreateSchemaKeeps ==
  ASSUME BootInv, NEW p \in Proc, CreateSchemaMetadata(p)
  PROVE  BootInv'
<1>1. /\ proc[p].pc = "schema"
      /\ UNCHANGED <<dialect, ledger, legacy, cutover, privacy, copy, dups, tz, chosen, rows, merged, demo>>
  BY DEF CreateSchemaMetadata, fixed, rowVars, demoVars
<1>2. CASE ddl' = ddl \cup {"tables"} /\ Proceeds(p, "ledger") /\ UNCHANGED lock
  <2>1. PICK r : Onto(p, r, "ledger")
    BY <1>2, Proceeded
  <2>2. SharedTrue'
    BY <1>1, <1>2, OwnTruth DEF SharedTrue, Untouched
  <2>3. Forward(p)
    BY <1>1, <1>2 DEF Forward
  <2>4. Placed(r)'
    BY <1>1, <2>1, OwnTruth DEF Placed, Onto, Locked, CopyOnly, After, Told, Demoing
  <2>5. SchemaSeen(r)'
    <3>1. 1 \in DOMAIN Revisions /\ \A j \in DOMAIN Revisions : ~(j < 1)
      BY DEF Revisions
    <3> QED BY <1>2, <2>1, <3>1 DEF SchemaSeen, Onto, After, Told, Demoing
  <2>6. InitTrue(p, r)'
    BY <1>1, <1>2, <2>1, OwnTruth DEF InitTrue, Onto, Locked, After, Told, Demoing
  <2>7. RowsSeen(r)'
    BY <2>1 DEF RowsSeen, Onto, Told, Demoing
  <2> QED BY <2>1, <2>2, <2>3, <2>4, <2>5, <2>6, <2>7, BootStep DEF ProcTrue, Onto
<1>3. CASE Aborts(p) /\ UNCHANGED ddl
  BY <1>1, <1>3, PlainAbortKeeps
<1> QED BY <1>2, <1>3 DEF CreateSchemaMetadata

LEMMA RevisionsKnown ==
  /\ DOMAIN Revisions = 1 .. 16 /\ Len(Revisions) = 16
  /\ Revisions[1] = "foundation" /\ Revisions[13] = "index"
BY DEF Revisions

LEMMA MigrationsMake ==
  /\ "vector" \in Makes("foundation") /\ "embedding" \in Makes("index")
  /\ \A x : "embedding" \in Makes(x) => x = "index"
<1>1. \A x, y : y \in Makes(x) <=> \E m \in Migrations : x \in m.of /\ y \in m.makes
  BY DEF Makes
<1>2. FoundationMigration \in Migrations /\ IndexMigration \in Migrations
  BY DEF Migrations
<1>3. /\ "foundation" \in FoundationMigration.of /\ "vector" \in FoundationMigration.makes
      /\ IndexMigration.of = {"index"} /\ "embedding" \in IndexMigration.makes
  BY DEF FoundationMigration, IndexMigration
<1>4. \A m \in Migrations : "embedding" \in m.makes => m.of = {"index"}
  <2>1. /\ FoundationMigration.makes = {"vector"} /\ ContentMigrations.makes = {} /\ SyncMigrations.makes = {}
        /\ CollectionMigrations.makes = {} /\ ObjectMigrations.makes = {}
    BY DEF FoundationMigration, ContentMigrations, SyncMigrations, CollectionMigrations, ObjectMigrations
  <2> QED BY <1>3, <2>1 DEF Migrations
<1> QED BY <1>1, <1>2, <1>3, <1>4

LEMMA BothInOne ==
  ASSUME NEW p \in Proc, proc[p].pc = "ledger", dialect = "postgresql", proc[p].i = 1 \/ proc[p].i = 13
  PROVE  InOneTransaction(p)
<1>1. FoundationMigration \in Migrations /\ IndexMigration \in Migrations
  BY DEF Migrations
<1>2. "foundation" \in FoundationMigration.of /\ "index" \in IndexMigration.of
  BY DEF FoundationMigration, IndexMigration
<1> QED BY <1>1, <1>2, RevisionsKnown DEF InOneTransaction

LEMMA LookKeeps ==
  ASSUME BootInv, NEW p \in Proc, Look(p)
  PROVE  BootInv'
<1>1. /\ proc[p].pc \in {"ledger", "cutover", "utc", "identity", "local", "system", "admin", "profile", "demo",
                         "targets"}
      /\ ~InOneTransaction(p)
      /\ UNCHANGED <<fixed, lock, schemaVars, copy, source, dups, rowVars, merged, demoVars, starts>>
  BY Zenon DEF Look
<1>2. Forward(p) /\ SharedTrue' /\ UNCHANGED <<lock, dialect, ddl, ledger, legacy, cutover, privacy, copy, dups, rows>>
  BY <1>1, OwnTruth, SameShared DEF fixed, schemaVars, rowVars, demoVars
<1>3. CASE proc[p].pc = "cutover" /\ cutover = "completed"
  <2>1. PICK r : Onto(p, r, "privacy")
    BY <1>3, Proceeded DEF Look
  <2>2. Placed(r)'
    BY <1>3, <2>1, OwnTruth DEF Placed, Onto, Locked, CopyOnly, After, Told, Demoing
  <2>3. SchemaSeen(r)'
    BY <1>2, <1>3, <2>1, OwnTruth DEF SchemaSeen, Onto, Early, After, Told, Demoing
  <2>4. InitTrue(p, r)'
    <3>1. ~legacy
      BY <1>3, OwnTruth DEF SharedTrue
    <3> QED BY <1>2, <1>3, <2>1, <3>1, OwnTruth DEF InitTrue, Onto, Locked, After, Told, Demoing
  <2>5. RowsSeen(r)'
    BY <2>1 DEF RowsSeen, Onto, Told, Demoing
  <2> QED BY <1>2, <2>1, <2>2, <2>3, <2>4, <2>5, BootStep DEF ProcTrue, Onto
<1>4. CASE ~(proc[p].pc = "cutover" /\ cutover = "completed")
  <2>1. PICK r : r = [proc[p] EXCEPT !.looked = TRUE, !.saw = ~Absent(p)]
    OBVIOUS
  <2>2. Moves(p, r)
    BY <1>4, <2>1 DEF Look
  <2>3. /\ DOMAIN r = ProcFields /\ r.kind = proc[p].kind /\ r.began = proc[p].began /\ r.id = proc[p].id
        /\ r.pc = proc[p].pc /\ r.i = proc[p].i /\ r.saw = ~Absent(p)
    BY <2>1, OwnTruth DEF ProcFields
  <2>4. Placed(r)'
    BY <2>3, OwnTruth DEF Placed
  <2>5. SchemaSeen(r)'
    <3>1. proc[p].pc = "ledger" /\ dialect = "postgresql" => proc[p].i # 1 /\ proc[p].i # 13
      BY <1>1, BothInOne
    <3> QED BY <1>2, <2>3, <3>1, OwnTruth DEF SchemaSeen
  <2>6. InitTrue(p, r)'
    <3>1. proc[p].pc = "cutover" /\ r.saw => cutover \in {"running", "failed"}
      BY <1>4, <2>3, OwnTruth DEF Absent, SharedTrue, CopyStates
    <3>2. r.pc \notin {"copyAll", "retire", "cutoverDone"}
      BY <1>1, <2>3
    <3> QED BY <1>2, <2>3, <3>1, <3>2, OwnTruth DEF InitTrue
  <2>7. RowsSeen(r)'
    <3>1. (proc[p].pc = "utc" /\ r.saw => rows.marker) /\ (proc[p].pc = "identity" /\ r.saw => rows.identity # NoProc)
      BY <2>3 DEF Absent
    <3> QED BY <1>2, <2>3, <3>1, OwnTruth DEF RowsSeen
  <2> QED BY <1>2, <2>2, <2>4, <2>5, <2>6, <2>7, BootStep DEF ProcTrue
<1> QED BY <1>3, <1>4

\* A step that only adds to the schema and the ledger.
LEMMA SchemaGrows ==
  ASSUME SharedTrue, NEW p, ddl \subseteq ddl', ledger \subseteq ledger',
         "embedding" \in ddl' => "vector" \in ddl', "unique" \in ddl' => "unique" \in ddl,
         UNCHANGED <<dialect, lock, legacy, cutover, privacy, copy, dups, tz, chosen, rows, merged, demo>>
  PROVE  Forward(p) /\ SharedTrue'
<1>1. SharedTrue'
  BY DEF SharedTrue, Untouched
<1>2. Forward(p)
  BY DEF Forward
<1> QED BY <1>1, <1>2

\* The next revision, or the columns after the last.
LEMMA NextRevisionKeeps ==
  ASSUME BootInv, NEW p \in Proc, proc[p].pc = "ledger", NextRevision(p),
         ddl \subseteq ddl', ledger \subseteq ledger', Revisions[proc[p].i] \in ledger',
         "embedding" \in ddl' => "vector" \in ddl', "unique" \in ddl' => "unique" \in ddl,
         dialect = "postgresql" /\ proc[p].i = 1 => "vector" \in ddl',
         dialect = "postgresql" /\ proc[p].i = 13 => "embedding" \in ddl',
         UNCHANGED <<dialect, lock, legacy, cutover, privacy, copy, dups, tz, chosen, rows, merged, demo>>
  PROVE  BootInv'
<1>1. Forward(p) /\ SharedTrue'
  BY OwnTruth, SchemaGrows
<1>2. PICK i : i = proc[p].i
  OBVIOUS
<1>3. /\ i \in 1 .. 16 /\ \A j \in 1 .. 16 : j < i => Revisions[j] \in ledger
      /\ dialect = "postgresql" => (i > 1 => "vector" \in ddl) /\ (i > 13 => "embedding" \in ddl)
      /\ "tables" \in ddl /\ (dialect = "postgresql" => lock = p)
  BY <1>2, OwnTruth, RevisionsKnown DEF SchemaSeen, InitTrue, Early, Locked
<1>4. \A j \in 1 .. 16 : j < i + 1 => Revisions[j] \in ledger'
  <2>1. \A j \in 1 .. 16 : j < i + 1 => j < i \/ j = i
    BY <1>3
  <2> QED BY <1>2, <1>3, <2>1
<1>5. dialect = "postgresql" => /\ i + 1 > 1 => "vector" \in ddl'
                                /\ i + 1 > 13 => "embedding" \in ddl'
  <2>1. (i = 1 \/ i > 1) /\ (i + 1 > 13 => i = 13 \/ i > 13)
    BY <1>3
  <2> QED BY <1>2, <1>3, <2>1
<1>6. CASE i = 16
  <2>1. Proceeds(p, "columns")
    BY <1>2, <1>6, RevisionsKnown DEF NextRevision
  <2>2. PICK r : Onto(p, r, "columns")
    BY <2>1, Proceeded
  <2>3. Placed(r)'
    BY <2>2, OwnTruth DEF Placed, Onto, Locked, CopyOnly, After, Told, Demoing
  <2>4. SchemaSeen(r)'
    <3>1. \A j \in DOMAIN Revisions : Revisions[j] \in ledger'
      BY <1>4, <1>6, RevisionsKnown
    <3>2. dialect' = "postgresql" => {"vector", "embedding"} \subseteq ddl'
      BY <1>5, <1>6
    <3>3. "tables" \in ddl'
      BY <1>3
    <3> QED BY <2>2, <3>1, <3>2, <3>3 DEF SchemaSeen, Onto, After, Told, Demoing
  <2>5. InitTrue(p, r)'
    BY <1>3, <2>2, OwnTruth DEF InitTrue, Onto, Locked, After, Told, Demoing
  <2>6. RowsSeen(r)'
    BY <2>2 DEF RowsSeen, Onto, Told, Demoing
  <2> QED BY <1>1, <2>2, <2>3, <2>4, <2>5, <2>6, BootStep DEF ProcTrue, Onto
<1>7. CASE i # 16
  <2>1. PICK r : r = [proc[p] EXCEPT !.i = @ + 1, !.looked = FALSE]
    OBVIOUS
  <2>2. Moves(p, r)
    BY <1>2, <1>7, <2>1, RevisionsKnown DEF NextRevision
  <2>3. /\ DOMAIN r = ProcFields /\ r.kind = proc[p].kind /\ r.began = proc[p].began /\ r.id = proc[p].id
        /\ r.pc = "ledger" /\ r.i = i + 1 /\ ~r.looked
    BY <1>2, <2>1, OwnTruth DEF ProcFields
  <2>4. Placed(r)'
    BY <2>3, OwnTruth DEF Placed
  <2>5. SchemaSeen(r)'
    <3>1. i + 1 \in DOMAIN Revisions
      BY <1>3, <1>7, RevisionsKnown
    <3>2. \A j \in DOMAIN Revisions : j < r.i => Revisions[j] \in ledger'
      BY <1>4, <2>3, RevisionsKnown
    <3> QED BY <1>3, <1>5, <2>3, <3>1, <3>2 DEF SchemaSeen, After, Told, Demoing
  <2>6. InitTrue(p, r)'
    BY <1>3, <2>3, OwnTruth DEF InitTrue, Locked, After, Told, Demoing
  <2>7. RowsSeen(r)'
    BY <2>3 DEF RowsSeen, Told, Demoing
  <2> QED BY <1>1, <2>2, <2>4, <2>5, <2>6, <2>7, BootStep DEF ProcTrue
<1> QED BY <1>6, <1>7

LEMMA RunMigrationKeeps ==
  ASSUME BootInv, NEW p \in Proc, RunMigration(p)
  PROVE  BootInv'
<1>1. /\ ledger' = ledger \cup {Revisions[proc[p].i]} /\ ddl' = ddl \cup Makes(Revisions[proc[p].i])
      /\ NextRevision(p) /\ InOneTransaction(p)
      /\ UNCHANGED <<dialect, lock, legacy, cutover, privacy, copy, dups, tz, chosen, rows, merged, demo>>
  BY DEF RunMigration, fixed, rowVars, demoVars
<1>2. proc[p].pc = "ledger" /\ dialect = "postgresql"
  BY <1>1 DEF InOneTransaction
<1>3. PICK i : i = proc[p].i
  OBVIOUS
<1>4. i \in 1 .. 16 /\ (i > 1 => "vector" \in ddl) /\ ("embedding" \in ddl => "vector" \in ddl)
  BY <1>2, <1>3, OwnTruth, RevisionsKnown DEF SchemaSeen, SharedTrue
<1>5. i = 1 => "vector" \in ddl'
  BY <1>1, <1>3, RevisionsKnown, MigrationsMake
<1>6. i = 13 => "embedding" \in ddl'
  BY <1>1, <1>3, RevisionsKnown, MigrationsMake
<1>7. "embedding" \in ddl' => "vector" \in ddl'
  <2>1. "embedding" \in Makes(Revisions[i]) => i # 1
    BY RevisionsKnown, MigrationsMake
  <2> QED BY <1>1, <1>3, <1>4, <2>1
<1>8. "unique" \in ddl' => "unique" \in ddl
  <2>1. \A m \in Migrations : "unique" \notin m.makes
    BY DEF Migrations, FoundationMigration, ContentMigrations, IndexMigration, SyncMigrations,
           CollectionMigrations, ObjectMigrations
  <2> QED BY <1>1, <2>1 DEF Makes
<1> QED BY <1>1, <1>2, <1>3, <1>5, <1>6, <1>7, <1>8, NextRevisionKeeps

LEMMA RecordRevisionKeeps ==
  ASSUME BootInv, NEW p \in Proc, RecordRevision(p)
  PROVE  BootInv'
<1>1. /\ proc[p].pc = "ledger" /\ proc[p].looked
      /\ UNCHANGED <<dialect, ddl, legacy, cutover, privacy, copy, dups, tz, chosen, rows, merged, demo>>
  BY DEF RecordRevision, fixed, rowVars, demoVars
<1>2. CASE Aborts(p) /\ UNCHANGED ledger
  BY <1>1, <1>2, PlainAbortKeeps
<1>3. CASE NextRevision(p) /\ ledger' = ledger \cup {Revisions[proc[p].i]} /\ UNCHANGED lock
  <2>1. /\ dialect = "postgresql" => proc[p].i # 1 /\ proc[p].i # 13
        /\ "embedding" \in ddl => "vector" \in ddl
    BY <1>1, OwnTruth DEF SchemaSeen, SharedTrue
  <2> QED BY <1>1, <1>3, <2>1, NextRevisionKeeps
<1> QED BY <1>2, <1>3 DEF RecordRevision

LEMMA EnsureColumnsKeeps ==
  ASSUME BootInv, NEW p \in Proc, EnsureColumns(p)
  PROVE  BootInv'
<1>1. /\ proc[p].pc = "columns"
      /\ UNCHANGED <<dialect, ledger, legacy, cutover, privacy, copy, dups, tz, chosen, rows, merged, demo>>
  BY DEF EnsureColumns, fixed, rowVars, demoVars
<1>2. CASE ddl' = ddl \cup {"author", "fingerprint"} /\ Proceeds(p, "check") /\ UNCHANGED lock
  <2>1. PICK r : Onto(p, r, "check")
    BY <1>2, Proceeded
  <2>2. Forward(p) /\ SharedTrue'
    <3>1. "embedding" \in ddl' => "vector" \in ddl'
      BY <1>2, OwnTruth DEF SharedTrue
    <3> QED BY <1>1, <1>2, <3>1, OwnTruth, SchemaGrows
  <2>3. Placed(r)'
    BY <1>1, <2>1, OwnTruth DEF Placed, Onto, Locked, CopyOnly, After, Told, Demoing
  <2>4. SchemaSeen(r)'
    BY <1>1, <1>2, <2>1, OwnTruth DEF SchemaSeen, Onto, Early, After, Told, Demoing
  <2>5. InitTrue(p, r)'
    BY <1>1, <1>2, <2>1, OwnTruth DEF InitTrue, Onto, Locked, After, Told, Demoing
  <2>6. RowsSeen(r)'
    BY <2>1 DEF RowsSeen, Onto, Told, Demoing
  <2> QED BY <2>1, <2>2, <2>3, <2>4, <2>5, <2>6, BootStep DEF ProcTrue, Onto
<1>3. CASE Aborts(p) /\ UNCHANGED ddl
  BY <1>1, <1>3, PlainAbortKeeps
<1> QED BY <1>2, <1>3 DEF EnsureColumns

\* From one step of the initialization to the next, the schema seen.
LEMMA Carried ==
  ASSUME NEW p, NEW pc, NEW r, Onto(p, r, pc)
  PROVE  Onward(p, r, pc)
BY DEF Onto, Onward

LEMMA SchemaStaysSeen ==
  ASSUME BootInv, NEW p \in Proc, NEW r, NEW pc, Onward(p, r, pc),
         proc[p].pc \notin Early \cup {"ledger", "columns"}, ddl \subseteq ddl', ledger \subseteq ledger', UNCHANGED dialect,
         pc # "ledger", pc \in After => "unique" \in ddl' \/ proc[p].pc \in After
  PROVE  SchemaSeen(r)'
BY OwnTruth DEF SchemaSeen, Onward

LEMMA AssertCopyKeeps ==
  ASSUME BootInv, NEW p \in Proc, AssertNoIncompleteCopy(p)
  PROVE  BootInv'
<1>1. /\ proc[p].pc = "check"
      /\ UNCHANGED <<fixed, schemaVars, copy, source, dups, rowVars, merged, demoVars, starts>>
  BY Zenon DEF AssertNoIncompleteCopy
<1>2. UNCHANGED <<dialect, ddl, ledger, legacy, cutover, privacy, copy, dups, tz, chosen, rows, merged, demo>>
  BY <1>1 DEF fixed, schemaVars, rowVars, demoVars
<1>3. CASE proc[p].kind # "copy" /\ copy.status \notin {"none", "completed"}
  <2>1. Aborts(p)
    BY <1>3 DEF AssertNoIncompleteCopy
  <2> QED BY <1>2, <2>1, PlainAbortKeeps
<1>4. CASE ~(proc[p].kind # "copy" /\ copy.status \notin {"none", "completed"})
  <2>1. PICK pc : pc = IF proc[p].kind = "copy" /\ ~proc[p].again THEN "invariants" ELSE "cutover"
    OBVIOUS
  <2>2. Proceeds(p, pc) /\ UNCHANGED lock
    BY <1>4, <2>1 DEF AssertNoIncompleteCopy
  <2>3. PICK r : Onto(p, r, pc)
    BY <2>2, Proceeded
  <2>4. (pc = "cutover" \/ (pc = "invariants" /\ proc[p].kind = "copy"))
    BY <2>1
  <2>5. Forward(p) /\ SharedTrue'
    BY <1>2, <2>2, OwnTruth, SameShared
  <2>6. Placed(r)'
    BY <1>1, <2>3, <2>4, OwnTruth DEF Placed, Onto, Locked, CopyOnly, After, Told, Demoing
  <2>7. SchemaSeen(r)'
    BY <1>1, <1>2, <2>3, <2>4, Carried, SchemaStaysSeen DEF Early, After, Told, Demoing
  <2>8. InitTrue(p, r)'
    <3>1. proc[p].began \in {"running", "failed"} /\ proc[p].kind # "copy" => copy.status = "completed"
      BY <1>4, OwnTruth DEF InitTrue
    <3> QED BY <1>1, <1>2, <2>2, <2>3, <2>4, <3>1, OwnTruth DEF InitTrue, Onto, Locked, After, Told, Demoing
  <2>9. RowsSeen(r)'
    BY <2>3, <2>4 DEF RowsSeen, Onto, Told, Demoing
  <2> QED BY <2>3, <2>5, <2>6, <2>7, <2>8, <2>9, BootStep DEF ProcTrue, Onto
<1> QED BY <1>3, <1>4

\* A step of the cutover: it has the lock, or the database has none.
LEMMA CutoverMoves ==
  ASSUME BootInv, NEW p \in Proc, cutover' \in CopyStates \ {"none"},
         \A q \in Proc \ {p} : lock = q => lock' = q,
         UNCHANGED <<dialect, ddl, ledger, privacy, copy, dups, tz, chosen, rows, merged, demo>>,
         legacy' => legacy, cutover' = "completed" => ~legacy',
         dialect = "postgresql" => lock = p /\ (cutover = "completed" => cutover' = "completed")
  PROVE  Forward(p) /\ SharedTrue'
<1>1. SharedTrue'
  BY OwnTruth DEF SharedTrue
<1>2. Forward(p)
  BY DEF Forward
<1> QED BY <1>1, <1>2

LEMMA ClaimCutoverKeeps ==
  ASSUME BootInv, NEW p \in Proc, ClaimCutover(p)
  PROVE  BootInv'
<1>1. /\ proc[p].pc = "cutover" /\ proc[p].looked
      /\ UNCHANGED <<dialect, ddl, ledger, legacy, privacy, copy, dups, tz, chosen, rows, merged, demo>>
  BY DEF ClaimCutover, fixed, rowVars, demoVars
<1>2. CASE ~proc[p].saw /\ ~Absent(p)
  BY <1>1, <1>2, PlainAbortKeeps DEF ClaimCutover
<1>3. CASE ~(~proc[p].saw /\ ~Absent(p))
  <2>1. cutover' = "running" /\ Proceeds(p, "retire") /\ UNCHANGED lock
    BY <1>3 DEF ClaimCutover
  <2>2. PICK r : Onto(p, r, "retire")
    BY <2>1, Proceeded
  <2>3. dialect = "postgresql" => lock = p /\ cutover # "completed"
    <3>1. dialect = "postgresql" => lock = p
      BY <1>1, OwnTruth DEF InitTrue, Locked
    <3>2. proc[p].saw /\ dialect = "postgresql" => cutover # "completed"
      BY <1>1, OwnTruth DEF InitTrue
    <3>3. ~proc[p].saw => cutover = "none"
      BY <1>1, <1>3 DEF Absent
    <3> QED BY <3>1, <3>2, <3>3
  <2>4. Forward(p) /\ SharedTrue'
    BY <1>1, <2>1, <2>3, CutoverMoves DEF CopyStates
  <2>5. Placed(r)'
    BY <1>1, <2>2, OwnTruth DEF Placed, Onto, Locked, CopyOnly, After, Told, Demoing
  <2>6. SchemaSeen(r)'
    BY <1>1, <2>2, Carried, SchemaStaysSeen DEF Early, After, Told, Demoing
  <2>7. InitTrue(p, r)'
    BY <1>1, <2>1, <2>2, <2>3, OwnTruth DEF InitTrue, Onto, Locked, After, Told, Demoing
  <2>8. RowsSeen(r)'
    BY <2>2 DEF RowsSeen, Onto, Told, Demoing
  <2> QED BY <2>2, <2>4, <2>5, <2>6, <2>7, <2>8, BootStep DEF ProcTrue, Onto
<1> QED BY <1>2, <1>3

LEMMA RetireLegacyKeeps ==
  ASSUME BootInv, NEW p \in Proc, RetireLegacyStorage(p)
  PROVE  BootInv'
<1>1. /\ proc[p].pc = "retire"
      /\ UNCHANGED <<dialect, ddl, ledger, privacy, copy, dups, tz, chosen, rows, merged, demo>>
  BY DEF RetireLegacyStorage, fixed, rowVars, demoVars
<1>2. /\ cutover # "none" /\ cutover \in CopyStates
      /\ dialect = "postgresql" => lock = p /\ cutover = "running"
  BY <1>1, OwnTruth DEF InitTrue, SharedTrue, Locked
<1>3. CASE legacy' = FALSE /\ Proceeds(p, "cutoverDone") /\ UNCHANGED <<lock, cutover>>
  <2>1. PICK r : Onto(p, r, "cutoverDone")
    BY <1>3, Proceeded
  <2>2. Forward(p) /\ SharedTrue'
    BY <1>1, <1>2, <1>3, CutoverMoves
  <2>3. Placed(r)'
    BY <1>1, <2>1, OwnTruth DEF Placed, Onto, Locked, CopyOnly, After, Told, Demoing
  <2>4. SchemaSeen(r)'
    BY <1>1, <2>1, Carried, SchemaStaysSeen DEF Early, After, Told, Demoing
  <2>5. InitTrue(p, r)'
    BY <1>1, <1>2, <1>3, <2>1, OwnTruth DEF InitTrue, Onto, Locked, After, Told, Demoing
  <2>6. RowsSeen(r)'
    BY <2>1 DEF RowsSeen, Onto, Told, Demoing
  <2> QED BY <2>1, <2>2, <2>3, <2>4, <2>5, <2>6, BootStep DEF ProcTrue, Onto
<1>4. CASE cutover' = "failed" /\ Aborts(p) /\ UNCHANGED legacy
  <2>1. \A q \in Proc \ {p} : lock = q => lock' = q
    BY <1>4, ReleaseForward DEF Aborts
  <2>2. Forward(p) /\ SharedTrue'
    BY <1>1, <1>2, <1>4, <2>1, CutoverMoves DEF CopyStates
  <2> QED BY <1>4, <2>2, AbortsKeeps
<1> QED BY <1>3, <1>4 DEF RetireLegacyStorage

LEMMA CompleteCutoverKeeps ==
  ASSUME BootInv, NEW p \in Proc, CompleteCutover(p)
  PROVE  BootInv'
<1>1. /\ proc[p].pc = "cutoverDone" /\ cutover' = "completed" /\ Proceeds(p, "privacy")
      /\ UNCHANGED <<dialect, lock, ddl, ledger, legacy, privacy, copy, dups, tz, chosen, rows, merged, demo>>
  BY DEF CompleteCutover, fixed, rowVars, demoVars
<1>2. ~legacy /\ (dialect = "postgresql" => lock = p)
  BY <1>1, OwnTruth DEF InitTrue, Locked
<1>3. PICK r : Onto(p, r, "privacy")
  BY <1>1, Proceeded
<1>4. Forward(p) /\ SharedTrue'
  BY <1>1, <1>2, CutoverMoves DEF CopyStates
<1>5. Placed(r)'
  BY <1>1, <1>3, OwnTruth DEF Placed, Onto, Locked, CopyOnly, After, Told, Demoing
<1>6. SchemaSeen(r)'
  BY <1>1, <1>3, Carried, SchemaStaysSeen DEF Early, After, Told, Demoing
<1>7. InitTrue(p, r)'
  BY <1>1, <1>2, <1>3, OwnTruth DEF InitTrue, Onto, Locked, After, Told, Demoing
<1>8. RowsSeen(r)'
  BY <1>3 DEF RowsSeen, Onto, Told, Demoing
<1> QED BY <1>3, <1>4, <1>5, <1>6, <1>7, <1>8, BootStep DEF ProcTrue, Onto

LEMMA EventPrivacyKeeps ==
  ASSUME BootInv, NEW p \in Proc, DiscordEventPrivacy(p)
  PROVE  BootInv'
<1>1. /\ proc[p].pc = "privacy"
      /\ UNCHANGED <<dialect, ddl, ledger, legacy, cutover, copy, dups, tz, chosen, rows, merged, demo>>
  BY DEF DiscordEventPrivacy, fixed, rowVars, demoVars
<1>2. ASSUME DOMAIN privacy' = {"status", "unsafe"}, privacy'.unsafe => privacy.unsafe,
             \A q \in Proc \ {p} : lock = q => lock' = q
      PROVE  Forward(p) /\ SharedTrue'
  <2>1. SharedTrue'
    BY <1>1, <1>2, OwnTruth DEF SharedTrue, Untouched
  <2>2. Forward(p)
    BY <1>1, <1>2 DEF Forward
  <2> QED BY <2>1, <2>2
<1>3. CASE privacy' = [status |-> "completed", unsafe |-> FALSE] /\ Proceeds(p, "invariants") /\ UNCHANGED lock
  <2>1. PICK r : Onto(p, r, "invariants")
    BY <1>3, Proceeded
  <2>2. Forward(p) /\ SharedTrue'
    BY <1>2, <1>3
  <2>3. Placed(r)'
    BY <1>1, <2>1, OwnTruth DEF Placed, Onto, Locked, CopyOnly, After, Told, Demoing
  <2>4. SchemaSeen(r)'
    BY <1>1, <2>1, Carried, SchemaStaysSeen DEF Early, After, Told, Demoing
  <2>5. InitTrue(p, r)'
    BY <1>1, <1>3, <2>1, OwnTruth DEF InitTrue, Onto, Locked, After, Told, Demoing
  <2>6. RowsSeen(r)'
    BY <2>1 DEF RowsSeen, Onto, Told, Demoing
  <2> QED BY <2>1, <2>2, <2>3, <2>4, <2>5, <2>6, BootStep DEF ProcTrue, Onto
<1>4. CASE privacy' = [privacy EXCEPT !.status = "failed"] /\ Aborts(p)
  <2>1. \A q \in Proc \ {p} : lock = q => lock' = q
    BY <1>4, ReleaseForward DEF Aborts
  <2>2. DOMAIN privacy' = {"status", "unsafe"} /\ privacy'.unsafe = privacy.unsafe
    BY <1>4, OwnTruth DEF SharedTrue
  <2> QED BY <1>2, <1>4, <2>1, <2>2, AbortsKeeps
<1> QED BY <1>3, <1>4 DEF DiscordEventPrivacy

LEMMA RuntimeInvariantsKeep ==
  ASSUME BootInv, NEW p \in Proc, EnsureRuntimeInvariants(p)
  PROVE  BootInv'
<1>1. /\ proc[p].pc = "invariants"
      /\ UNCHANGED <<dialect, ledger, legacy, cutover, privacy, copy, dups, tz, chosen, rows, merged, demo>>
  BY DEF EnsureRuntimeInvariants, fixed, rowVars, demoVars
<1>2. CASE dialect = "postgresql" /\ dups
  BY <1>1, <1>2, PlainAbortKeeps DEF EnsureRuntimeInvariants
<1>3. CASE ~(dialect = "postgresql" /\ dups)
  <2>1. /\ ddl' = ddl \cup {"unique"} /\ Proceeds(p, AfterInitialize(p))
        /\ lock' = IF lock = p THEN NoProc ELSE lock
    BY <1>3 DEF EnsureRuntimeInvariants
  <2>2. PICK pc : pc = AfterInitialize(p)
    OBVIOUS
  <2>3. PICK r : Onto(p, r, pc)
    BY <2>1, <2>2, Proceeded
  <2>4. \/ proc[p].kind = "copy" /\ (pc = "markCompleted" \/ pc = "prepare")
        \/ proc[p].kind = "worker" /\ pc = "services"
        \/ proc[p].kind = "api" /\ pc = "utc"
    BY <1>1, <2>2, OwnTruth DEF AfterInitialize, Placed
  <2>5. SharedTrue'
    BY <1>1, <1>3, <2>1, OwnTruth DEF SharedTrue, Untouched
  <2>6. Forward(p)
    BY <1>1, <2>1 DEF Forward
  <2>7. Placed(r)'
    BY <1>1, <2>3, <2>4, OwnTruth DEF Placed, Onto, Early, CopyOnly, After, Told, Demoing
  <2>8. SchemaSeen(r)'
    BY <1>1, <2>1, <2>3, <2>4, Carried, SchemaStaysSeen DEF Early, After
  <2>9. InitTrue(p, r)'
    BY <1>1, <2>3, <2>4, OwnTruth DEF InitTrue, Onto, Locked, After
  <2>10. RowsSeen(r)'
    BY <2>3, <2>4 DEF RowsSeen, Onto, Told, Demoing
  <2> QED BY <2>3, <2>5, <2>6, <2>7, <2>8, <2>9, <2>10, BootStep DEF ProcTrue, Onto
<1> QED BY <1>2, <1>3

LEMMA PrepareTargetKeeps ==
  ASSUME BootInv, NEW p \in Proc, PrepareTarget(p)
  PROVE  BootInv'
<1>1. /\ proc[p].pc = "prepare"
      /\ UNCHANGED <<dialect, ddl, ledger, legacy, cutover, privacy, dups, tz, chosen, rows, merged, demo>>
  BY DEF PrepareTarget, fixed, schemaVars, rowVars, demoVars
<1>2. CASE copy.status = "none" /\ TargetIsEmpty
  <2>1. /\ copy' = [status |-> "running", fp |-> proc[p].fp] /\ Proceeds(p, "copyAll") /\ UNCHANGED lock
    BY <1>2 DEF PrepareTarget
  <2>2. PICK r : Onto(p, r, "copyAll")
    BY <2>1, Proceeded
  <2>3. DOMAIN copy' = {"status", "fp"} /\ copy'.status = "running"
    BY <2>1
  <2>4. SharedTrue'
    BY <1>1, <2>3, OwnTruth DEF SharedTrue, Untouched, CopyStates
  <2>5. Forward(p)
    BY <1>1, <1>2, <2>1, <2>3 DEF Forward
  <2>6. Placed(r)'
    BY <1>1, <2>2, OwnTruth DEF Placed, Onto, Early, Locked, CopyOnly, After, Told, Demoing
  <2>7. SchemaSeen(r)'
    BY <1>1, <2>2, Carried, SchemaStaysSeen DEF Early, After, Told, Demoing
  <2>8. InitTrue(p, r)'
    BY <1>1, <1>2, <2>2, <2>3, OwnTruth DEF InitTrue, Onto, Locked, After, Told, Demoing, TargetIsEmpty
  <2>9. RowsSeen(r)'
    BY <2>2 DEF RowsSeen, Onto, Told, Demoing
  <2> QED BY <2>2, <2>4, <2>5, <2>6, <2>7, <2>8, <2>9, BootStep DEF ProcTrue, Onto
<1>3. CASE ~(copy.status = "none" /\ TargetIsEmpty)
  <2>1. Aborts(p) /\ UNCHANGED copy
    BY <1>3 DEF PrepareTarget
  <2> QED BY <1>1, <2>1, PlainAbortKeeps
<1> QED BY <1>2, <1>3

LEMMA CopyAllKeeps ==
  ASSUME BootInv, NEW p \in Proc, CopyAllTables(p)
  PROVE  BootInv'
<1>1. proc[p].pc = "copyAll" /\ UNCHANGED <<dialect, copy, demo>>
  BY DEF CopyAllTables, fixed, demoVars
<1>2. CASE ~KeysFree
  <2>1. Aborts(p) /\ UNCHANGED <<schemaVars, dups, rowVars, merged>>
    BY <1>2, Zenon DEF CopyAllTables
  <2>2. UNCHANGED <<ddl, ledger, legacy, cutover, privacy, tz, chosen, rows, merged, dups>>
    BY <2>1 DEF schemaVars, rowVars
  <2> QED BY <1>1, <2>1, <2>2, PlainAbortKeeps
<1>3. CASE KeysFree
  <2>1. PICK r : r = [proc[p] EXCEPT !.pc = "lock", !.again = TRUE]
    OBVIOUS
  <2>2. /\ cutover' = "completed" /\ privacy' = [status |-> "completed", unsafe |-> FALSE]
        /\ dups' = source.dups /\ merged' = (merged \/ ~TargetIsEmpty) /\ Moves(p, r)
        /\ UNCHANGED <<lock, ddl, ledger, legacy>>
    BY <1>3, <2>1, Zenon DEF CopyAllTables
  <2>3. \/ /\ source.served
           /\ rows' = [rows EXCEPT !.identity = p, !.marker = TRUE, !.targets = TRUE,
                                          !.user = [@ EXCEPT !["system"] = "admin"]]
           /\ tz' = "utc" /\ chosen' = TRUE
        \/ UNCHANGED <<rows, tz, chosen>>
    BY <1>3, Zenon DEF CopyAllTables
  <2>4. /\ cutover = "none" /\ privacy.status = "none" /\ ~("unique" \in ddl /\ source.dups)
        /\ source.served => rows.identity = NoProc /\ ~rows.marker
    BY <1>3 DEF KeysFree
  <2>5. ~legacy /\ ~dups /\ Untouched
    BY <1>1, <2>4, OwnTruth DEF InitTrue, SharedTrue
  <2>6. TargetIsEmpty
    BY <2>4, <2>5 DEF TargetIsEmpty, Untouched
  <2>7. DOMAIN rows = {"identity", "marker", "user", "profile", "targets"}
    BY OwnTruth DEF SharedTrue
  <2>8. /\ DOMAIN rows' = {"identity", "marker", "user", "profile", "targets"}
        /\ chosen' => tz' = "utc" /\ rows'.marker
        /\ rows.marker => rows'.marker
        /\ rows.identity # NoProc => rows'.identity = rows.identity
    <3>1. CASE UNCHANGED <<rows, tz, chosen>>
      BY <2>7, <3>1, OwnTruth DEF SharedTrue
    <3>2. CASE /\ source.served
               /\ rows' = [rows EXCEPT !.identity = p, !.marker = TRUE, !.targets = TRUE,
                                          !.user = [@ EXCEPT !["system"] = "admin"]]
               /\ tz' = "utc" /\ chosen' = TRUE
      BY <2>4, <2>7, <3>2
    <3> QED BY <2>3, <3>1, <3>2
  <2>9. SharedTrue'
    <3>1. DOMAIN privacy' = {"status", "unsafe"}
      BY <2>2
    <3> QED BY <1>1, <2>2, <2>4, <2>5, <2>6, <2>8, <3>1, OwnTruth DEF SharedTrue, CopyStates
  <2>10. Forward(p)
    <3>1. ~privacy'.unsafe
      BY <2>2
    <3> QED BY <1>1, <2>2, <2>4, <2>8, <3>1 DEF Forward
  <2>11. DOMAIN r = ProcFields /\ r.kind = proc[p].kind /\ r.began = proc[p].began /\ r.pc = "lock"
    BY <2>1, OwnTruth DEF ProcFields
  <2>12. proc[p].kind = "copy" /\ proc[p].began \in CopyStates
    BY <1>1, OwnTruth DEF Placed, CopyOnly
  <2>13. Placed(r)'
    BY <2>11, <2>12 DEF Placed, Early, After, Told, Demoing
  <2>14. SchemaSeen(r)'
    BY <2>11 DEF SchemaSeen, Early, After, Told, Demoing
  <2>15. InitTrue(p, r)'
    BY <1>1, <2>11, <2>12, OwnTruth DEF InitTrue, Locked
  <2>16. RowsSeen(r)'
    BY <2>11 DEF RowsSeen, Told, Demoing
  <2> QED BY <2>2, <2>9, <2>10, <2>13, <2>14, <2>15, <2>16, BootStep DEF ProcTrue
<1> QED BY <1>2, <1>3

LEMMA MarkKeeps ==
  ASSUME BootInv, NEW p \in Proc, MarkCompleted(p) \/ MarkFailed(p)
  PROVE  BootInv'
<1>1. /\ Moves(p, Idle)
      /\ copy' = [copy EXCEPT !.status = "completed"] \/ copy' = [copy EXCEPT !.status = IF @ = "completed" THEN @ ELSE "failed"]
      /\ UNCHANGED <<dialect, lock, ddl, ledger, legacy, cutover, privacy, dups, tz, chosen, rows, merged, demo>>
  BY DEF MarkCompleted, MarkFailed, fixed, schemaVars, rowVars, demoVars
<1>2. /\ DOMAIN copy' = {"status", "fp"} /\ copy'.status \in {"completed", "failed"}
      /\ copy.status = "completed" => copy'.status = "completed"
  BY <1>1, OwnTruth DEF SharedTrue
<1>3. SharedTrue'
  BY <1>1, <1>2, OwnTruth DEF SharedTrue, Untouched, CopyStates
<1>4. Forward(p)
  BY <1>1, <1>2 DEF Forward
<1> QED BY <1>1, <1>3, <1>4, EndKeeps

\* A step that writes rows of the installation or of the demo account.
LEMMA RowsMove ==
  ASSUME BootInv, NEW p \in Proc, proc[p].kind = "api", proc[p].pc \in After,
         UNCHANGED <<dialect, lock, ddl, ledger, legacy, cutover, privacy, copy, dups, chosen, merged>>,
         DOMAIN rows' = DOMAIN rows, rows.marker => rows'.marker,
         rows.identity # NoProc => rows'.identity = rows.identity, rows.marker => tz' = tz
  PROVE  Forward(p) /\ SharedTrue'
<1>1. cutover # "none"
  BY OwnTruth DEF InitTrue
<1>2. SharedTrue'
  BY <1>1, OwnTruth DEF SharedTrue
<1>3. Forward(p)
  BY DEF Forward
<1> QED BY <1>2, <1>3

\* A process outside the lock that goes on outside the lock.
LEMMA AfterOnto ==
  ASSUME BootInv, NEW p \in Proc, NEW pc, NEW r, Onward(p, r, pc), Forward(p), SharedTrue',
         proc[p].pc \in After, pc \in After, proc[p].kind = "api" \/ pc \in {"services", "serving"}, RowsSeen(r)'
  PROVE  BootInv'
<1>1. proc[p].kind # "copy" /\ proc[p].pc \notin Early \cup {"ledger", "columns"}
  BY OwnTruth DEF Placed, Early, After, Told, Demoing
<1>2. pc \notin Early \cup Locked \cup CopyOnly /\ pc # "ledger"
  BY DEF Early, Locked, CopyOnly, After, Told, Demoing
<1>3. Placed(r)'
  BY <1>1, <1>2, OwnTruth DEF Placed, Onward
<1>4. SchemaSeen(r)'
  BY <1>1, <1>2, SchemaStaysSeen DEF Forward
<1>5. InitTrue(p, r)'
  <2>1. InitTrue(p, proc[p])
    BY OwnTruth
  <2>2. /\ pc \notin Locked /\ pc \notin {"copyAll", "cutover", "retire", "cutoverDone"}
    BY <1>2 DEF Locked, CopyOnly
  <2>3. ~legacy /\ cutover # "none" /\ (dialect = "postgresql" => cutover = "completed") /\ ~privacy.unsafe
    BY <1>1, <2>1 DEF InitTrue
  <2>4. ~legacy' /\ cutover' # "none" /\ (dialect' = "postgresql" => cutover' = "completed") /\ ~privacy'.unsafe
    BY <2>3 DEF Forward
  <2>5. /\ r.began # "none" => copy'.status # "none"
        /\ r.kind # "copy" /\ r.began \in {"running", "failed"} => copy'.status = "completed"
    BY <2>1 DEF InitTrue, Onward, Forward
  <2> QED BY <2>2, <2>4, <2>5 DEF InitTrue, Onward
<1> QED BY <1>3, <1>4, <1>5, BootStep DEF ProcTrue, Onward

LEMMA MigrateLegacyUtcKeeps ==
  ASSUME BootInv, NEW p \in Proc, MigrateLegacyUtc(p)
  PROVE  BootInv'
<1>1. /\ proc[p].pc = "utc" /\ proc[p].looked
      /\ UNCHANGED <<dialect, ddl, ledger, legacy, cutover, privacy, copy, dups, chosen, merged, demo>>
  BY DEF MigrateLegacyUtc, fixed, schemaVars, demoVars
<1>2. proc[p].kind = "api" /\ proc[p].pc \in After
  BY <1>1, OwnTruth DEF Placed, After, Told, Demoing
<1>3. CASE Refused(p)
  <2>1. Aborts(p) /\ UNCHANGED <<tz, rows>>
    BY <1>3, Zenon DEF MigrateLegacyUtc
  <2> QED BY <1>1, <2>1, PlainAbortKeeps
<1>4. CASE ~Refused(p)
  <2>1. /\ Proceeds(p, "identity") /\ UNCHANGED lock
        /\ IF proc[p].saw THEN UNCHANGED <<tz, rows>>
           ELSE tz' = "local" /\ rows' = [rows EXCEPT !.marker = TRUE]
    BY <1>4, Zenon DEF MigrateLegacyUtc
  <2>2. PICK r : Onto(p, r, "identity")
    BY <2>1, Proceeded
  <2>3. /\ proc[p].saw => rows.marker
        /\ ~proc[p].saw => ~rows.marker
    BY <1>1, <1>4, OwnTruth DEF RowsSeen, Refused, Absent
  <2>4. /\ DOMAIN rows' = DOMAIN rows /\ rows'.marker /\ rows'.identity = rows.identity
        /\ rows.marker => tz' = tz
    <3>1. DOMAIN rows = {"identity", "marker", "user", "profile", "targets"}
      BY OwnTruth DEF SharedTrue
    <3> QED BY <2>1, <2>3, <3>1
  <2>5. Forward(p) /\ SharedTrue'
    BY <1>1, <1>2, <2>1, <2>4, RowsMove
  <2>6. RowsSeen(r)'
    BY <2>2, <2>4 DEF RowsSeen, Onto, Told, Demoing
  <2> QED BY <1>2, <2>2, <2>5, <2>6, AfterOnto DEF After, Onto, Onward
<1> QED BY <1>3, <1>4

LEMMA StorageInstanceKeeps ==
  ASSUME BootInv, NEW p \in Proc, EnsureStorageInstanceId(p)
  PROVE  BootInv'
<1>1. /\ proc[p].pc = "identity" /\ proc[p].looked
      /\ UNCHANGED <<dialect, ddl, ledger, legacy, cutover, privacy, copy, dups, tz, chosen, merged, demo>>
  BY DEF EnsureStorageInstanceId, fixed, schemaVars, demoVars
<1>2. proc[p].kind = "api" /\ proc[p].pc \in After /\ rows.marker
  BY <1>1, OwnTruth DEF Placed, RowsSeen, After, Told, Demoing
<1>3. CASE Refused(p)
  <2>1. Aborts(p) /\ UNCHANGED rows
    BY <1>3, Zenon DEF EnsureStorageInstanceId
  <2> QED BY <1>1, <2>1, PlainAbortKeeps
<1>4. CASE ~Refused(p)
  <2>1. PICK pc : pc = IF production THEN "system" ELSE "local"
    OBVIOUS
  <2>2. PICK r : r = [proc[p] EXCEPT !.pc = pc, !.looked = FALSE, !.id = rows'.identity]
    OBVIOUS
  <2>3. /\ rows' = (IF proc[p].saw THEN rows ELSE [rows EXCEPT !.identity = p])
        /\ Moves(p, r) /\ UNCHANGED lock
    BY <1>4, <2>1, <2>2 DEF EnsureStorageInstanceId
  <2>4. /\ proc[p].saw => rows.identity # NoProc
        /\ ~proc[p].saw => rows.identity = NoProc
    BY <1>1, <1>4, OwnTruth DEF RowsSeen, Refused, Absent
  <2>5. /\ DOMAIN rows' = DOMAIN rows /\ rows'.marker /\ rows'.identity # NoProc
        /\ rows.identity # NoProc => rows'.identity = rows.identity
    <3>1. DOMAIN rows = {"identity", "marker", "user", "profile", "targets"}
      BY OwnTruth DEF SharedTrue
    <3> QED BY <1>2, <2>3, <2>4, <3>1, StorageAssumption
  <2>6. Forward(p) /\ SharedTrue'
    BY <1>1, <1>2, <2>3, <2>5, RowsMove
  <2>7. /\ DOMAIN r = ProcFields /\ r.kind = "api" /\ r.began = proc[p].began
        /\ r.id = rows'.identity /\ r.pc = pc /\ (pc = "system" \/ pc = "local")
    BY <1>2, <2>1, <2>2, OwnTruth DEF ProcFields
  <2>8. Placed(r)'
    BY <2>7, OwnTruth DEF Placed, CopyOnly, After, Told
  <2>9. SchemaSeen(r)'
    BY <1>1, <2>7, OwnTruth DEF SchemaSeen, Early, After, Told, Demoing
  <2>10. InitTrue(p, r)'
    BY <1>1, <1>2, <2>7, OwnTruth DEF InitTrue, Locked, After, Told
  <2>11. RowsSeen(r)'
    BY <2>5, <2>7 DEF RowsSeen
  <2> QED BY <2>3, <2>6, <2>8, <2>9, <2>10, <2>11, BootStep DEF ProcTrue
<1> QED BY <1>3, <1>4

\* The steps of an API replica that knows its identity: rows and the demo account.
LEMMA ToldOn ==
  ASSUME BootInv, NEW p \in Proc, NEW pc \in Told, NEW r, Onward(p, r, pc),
         proc[p].kind = "api", proc[p].pc \in Told,
         UNCHANGED <<dialect, lock, ddl, ledger, legacy, cutover, privacy, copy, dups, tz, chosen, merged>>,
         DOMAIN rows' = DOMAIN rows, rows'.marker = rows.marker, rows'.identity = rows.identity
  PROVE  BootInv'
<1>1. proc[p].pc \in After /\ pc \in After
  BY DEF After
<1>2. Forward(p) /\ SharedTrue'
  BY <1>1, RowsMove
<1>3. RowsSeen(proc[p])
  BY OwnTruth
<1>4. RowsSeen(r)'
  BY <1>3 DEF RowsSeen, Onward, Told, Demoing
<1> QED BY <1>1, <1>2, <1>4, AfterOnto

LEMMA ToldKind ==
  ASSUME BootInv, NEW p \in Proc, proc[p].pc \in Told \ {"services", "serving"}
  PROVE  proc[p].kind = "api"
BY OwnTruth DEF Placed, After

\* A row written, or found to be another's.
LEMMA RowKeeps ==
  ASSUME BootInv, NEW p \in Proc, NEW pc \in Told, NEW fresh,
         proc[p].pc \in Told \ {"services", "serving"},
         UNCHANGED <<dialect, ddl, ledger, legacy, cutover, privacy, copy, dups, tz, chosen, merged, demo>>,
         ((Aborts(p) /\ UNCHANGED rows) \/ (rows' = fresh /\ Proceeds(p, pc) /\ UNCHANGED lock)),
         DOMAIN fresh = DOMAIN rows, fresh.marker = rows.marker, fresh.identity = rows.identity
  PROVE  BootInv'
<1>1. CASE Aborts(p) /\ UNCHANGED rows
  BY <1>1, PlainAbortKeeps
<1>2. CASE rows' = fresh /\ Proceeds(p, pc) /\ UNCHANGED lock
  <2>1. PICK r : Onto(p, r, pc)
    BY <1>2, Proceeded
  <2>2. Onward(p, r, pc) /\ proc[p].kind = "api"
    BY <2>1, Carried, ToldKind
  <2> QED BY <1>2, <2>2, ToldOn
<1> QED BY <1>1, <1>2

LEMMA UserKeeps ==
  ASSUME BootInv, NEW p \in Proc, EnsureUser(p) \/ EnsureDemoUser(p) \/ Centralize(p) \/ SeedDemoTargets(p)
  PROVE  BootInv'
<1>1. /\ UNCHANGED <<dialect, ddl, ledger, legacy, cutover, privacy, copy, dups, tz, chosen, merged, demo>>
  BY DEF EnsureUser, EnsureDemoUser, Centralize, SeedDemoTargets, fixed, schemaVars, demoVars
<1>2. DOMAIN rows = {"identity", "marker", "user", "profile", "targets"}
  BY OwnTruth DEF SharedTrue
<1>3. CASE EnsureUser(p)
  <2>1. PICK pc : pc = CASE proc[p].pc = "local" -> "system" [] proc[p].pc = "system" -> "admin"
                         [] proc[p].pc = "admin" -> "profile"
    OBVIOUS
  <2>2. PICK fresh : fresh = [rows EXCEPT !.user[proc[p].pc] = "admin"]
    OBVIOUS
  <2>3. /\ proc[p].pc \in {"local", "system", "admin"}
        /\ ((Aborts(p) /\ UNCHANGED rows) \/ (rows' = fresh /\ Proceeds(p, pc) /\ UNCHANGED lock))
    <3>1. CASE Refused(p)
      BY <1>3, <2>1, <2>2, <3>1, Zenon DEF EnsureUser
    <3>2. CASE ~Refused(p)
      BY <1>3, <2>1, <2>2, <3>2, Zenon DEF EnsureUser
    <3> QED BY <3>1, <3>2
  <2>4. pc \in Told /\ proc[p].pc \in Told \ {"services", "serving"}
    BY <2>1, <2>3 DEF Told
  <2>5. DOMAIN fresh = DOMAIN rows /\ fresh.marker = rows.marker /\ fresh.identity = rows.identity
    BY <1>2, <2>2
  <2> QED BY <1>1, <2>3, <2>4, <2>5, RowKeeps
<1>4. CASE EnsureDemoUser(p)
  <2>1. PICK fresh : fresh = [rows EXCEPT !.user["demo"] = "user"]
    OBVIOUS
  <2>2. /\ proc[p].pc = "demo"
        /\ ((Aborts(p) /\ UNCHANGED rows) \/ (rows' = fresh /\ Proceeds(p, "demoRead") /\ UNCHANGED lock))
    <3>1. CASE Refused(p)
      BY <1>4, <2>1, <3>1, Zenon DEF EnsureDemoUser
    <3>2. CASE ~Refused(p)
      BY <1>4, <2>1, <3>2, Zenon DEF EnsureDemoUser
    <3> QED BY <3>1, <3>2
  <2>3. DOMAIN fresh = DOMAIN rows /\ fresh.marker = rows.marker /\ fresh.identity = rows.identity
    BY <1>2, <2>1
  <2>4. "demoRead" \in Told /\ proc[p].pc \in Told \ {"services", "serving"}
    BY <2>2 DEF Told
  <2> QED BY <1>1, <2>2, <2>3, <2>4, RowKeeps
<1>5. CASE Centralize(p)
  <2>1. PICK fresh : fresh = [rows EXCEPT !.profile = TRUE]
    OBVIOUS
  <2>2. /\ proc[p].pc = "profile"
        /\ ((Aborts(p) /\ UNCHANGED rows) \/ (rows' = fresh /\ Proceeds(p, "demo") /\ UNCHANGED lock))
    <3>1. CASE Refused(p)
      BY <1>5, <2>1, <3>1, Zenon DEF Centralize
    <3>2. CASE ~Refused(p)
      BY <1>5, <2>1, <3>2, Zenon DEF Centralize
    <3> QED BY <3>1, <3>2
  <2>3. DOMAIN fresh = DOMAIN rows /\ fresh.marker = rows.marker /\ fresh.identity = rows.identity
    BY <1>2, <2>1
  <2>4. "demo" \in Told /\ proc[p].pc \in Told \ {"services", "serving"}
    BY <2>2 DEF Told
  <2> QED BY <1>1, <2>2, <2>3, <2>4, RowKeeps
<1>6. CASE SeedDemoTargets(p)
  <2>1. PICK fresh : fresh = [rows EXCEPT !.targets = TRUE]
    OBVIOUS
  <2>2. /\ proc[p].pc = "targets"
        /\ ((Aborts(p) /\ UNCHANGED rows) \/ (rows' = fresh /\ Proceeds(p, "services") /\ UNCHANGED lock))
    <3>1. CASE Refused(p)
      BY <1>6, <2>1, <3>1, Zenon DEF SeedDemoTargets
    <3>2. CASE ~Refused(p)
      BY <1>6, <2>1, <3>2, Zenon DEF SeedDemoTargets
    <3> QED BY <3>1, <3>2
  <2>3. DOMAIN fresh = DOMAIN rows /\ fresh.marker = rows.marker /\ fresh.identity = rows.identity
    BY <1>2, <2>1
  <2>4. "services" \in Told /\ proc[p].pc \in Told \ {"services", "serving"}
    BY <2>2 DEF Told
  <2> QED BY <1>1, <2>2, <2>3, <2>4, RowKeeps
<1> QED BY <1>3, <1>4, <1>5, <1>6

LEMMA ServicesKeep ==
  ASSUME BootInv, NEW p \in Proc, StartServices(p)
  PROVE  BootInv'
<1>1. /\ proc[p].pc = "services" /\ ((Proceeds(p, "serving") /\ UNCHANGED lock) \/ Aborts(p))
      /\ UNCHANGED <<dialect, ddl, ledger, legacy, cutover, privacy, copy, dups, tz, chosen, rows, merged, demo>>
  BY DEF StartServices, fixed, schemaVars, rowVars, demoVars
<1>2. CASE Aborts(p)
  BY <1>1, <1>2, PlainAbortKeeps
<1>3. CASE Proceeds(p, "serving") /\ UNCHANGED lock
  <2>1. PICK r : Onto(p, r, "serving")
    BY <1>3, Proceeded
  <2>2. Forward(p) /\ SharedTrue'
    BY <1>1, <1>3, OwnTruth, SameShared
  <2>3. RowsSeen(r)'
    BY <1>1, <2>1, OwnTruth DEF RowsSeen, Onto, Told, Demoing
  <2>4. proc[p].pc \in After /\ "serving" \in After
    BY <1>1 DEF After, Told
  <2> QED BY <2>1, <2>2, <2>3, <2>4, Carried, AfterOnto
<1> QED BY <1>1, <1>2, <1>3

LEMMA StopKeeps ==
  ASSUME BootInv, NEW p \in Proc, Stop(p)
  PROVE  BootInv'
<1>1. /\ Moves(p, Idle) /\ lock' = IF lock = p THEN NoProc ELSE lock
      /\ UNCHANGED <<dialect, ddl, ledger, legacy, cutover, privacy, copy, dups, tz, chosen, rows, merged, demo>>
  BY DEF Stop, fixed, schemaVars, rowVars, demoVars
<1>2. Forward(p) /\ SharedTrue'
  BY <1>1, ReleaseForward, OwnTruth, SameShared
<1> QED BY <1>1, <1>2, EndKeeps

\* A step of the demo synchronization, which writes nothing but demo rows.
LEMMA DemoOn ==
  ASSUME BootInv, NEW p \in Proc, NEW pc \in Told, NEW r, r.pc = pc, Moves(p, r), DOMAIN r = ProcFields,
         r.kind = proc[p].kind, r.began = proc[p].began, r.id = proc[p].id,
         proc[p].pc \in Demoing,
         UNCHANGED <<dialect, lock, ddl, ledger, legacy, cutover, privacy, copy, dups, tz, chosen, rows, merged>>
  PROVE  BootInv'
<1>1. proc[p].pc \in Told /\ proc[p].pc \in Told \ {"services", "serving"}
  BY DEF Told, Demoing
<1>2. proc[p].kind = "api"
  BY <1>1, ToldKind
<1>3. Onward(p, r, pc)
  BY DEF Onward
<1> QED BY <1>1, <1>2, <1>3, ToldOn

LEMMA NextCardKeeps ==
  ASSUME BootInv, NEW p \in Proc, NextCard(p)
  PROVE  BootInv'
<1>1. /\ proc[p].pc = "demoNext"
      /\ UNCHANGED <<dialect, ddl, ledger, legacy, cutover, privacy, copy, dups, tz, chosen, rows, merged>>
  BY DEF NextCard, fixed, schemaVars, rowVars
<1>2. /\ \/ (Aborts(p) /\ UNCHANGED demo)
         \/ (Proceeds(p, "demoPrune") /\ UNCHANGED lock)
         \/ (Proceeds(p, "demoCard") /\ UNCHANGED lock)
         \/ (Proceeds(p, "demoSecret") /\ UNCHANGED lock)
  <2>1. CASE proc[p].todo = {}
    BY <2>1, Zenon DEF NextCard
  <2>2. CASE proc[p].todo # {} /\ proc[p].have[First(p)] = 0
    BY <2>2, Zenon DEF NextCard
  <2>3. CASE proc[p].todo # {} /\ proc[p].have[First(p)] # 0
    BY <2>3, Zenon DEF NextCard
  <2> QED BY <2>1, <2>2, <2>3
<1>3. CASE Aborts(p) /\ UNCHANGED demo
  BY <1>1, <1>3, PlainAbortKeeps
<1>4. CASE UNCHANGED lock /\ \E pc \in {"demoPrune", "demoCard", "demoSecret"} : Proceeds(p, pc)
  <2>1. PICK pc \in {"demoPrune", "demoCard", "demoSecret"} : Proceeds(p, pc)
    BY <1>4
  <2>2. PICK r : Onto(p, r, pc)
    BY <2>1, Proceeded
  <2>3. pc \in Told /\ proc[p].pc \in Demoing
    BY <1>1, <2>1 DEF Told, Demoing
  <2> QED BY <1>1, <1>4, <2>2, <2>3, DemoOn DEF Onto
<1> QED BY <1>2, <1>3, <1>4

LEMMA CreateCardKeeps ==
  ASSUME BootInv, NEW p \in Proc, CreateDemoCard(p) \/ SyncCredential(p) \/ ListStale(p)
  PROVE  BootInv'
<1>1. UNCHANGED <<dialect, lock, ddl, ledger, legacy, cutover, privacy, copy, dups, tz, chosen, rows, merged>>
  BY DEF CreateDemoCard, SyncCredential, ListStale, fixed, schemaVars, rowVars
<1>2. DOMAIN proc[p] = ProcFields
  BY OwnTruth
<1>3. CASE CreateDemoCard(p)
  <2>1. PICK r : r = [proc[p] EXCEPT !.pc = "demoSecret", !.have[First(p)] = madeCards']
    OBVIOUS
  <2>2. Moves(p, r) /\ proc[p].pc = "demoCard"
    BY <1>3, <2>1 DEF CreateDemoCard
  <2>3. /\ DOMAIN r = ProcFields /\ r.kind = proc[p].kind /\ r.began = proc[p].began /\ r.id = proc[p].id
        /\ r.pc = "demoSecret"
    BY <1>2, <2>1 DEF ProcFields
  <2>4. proc[p].pc \in Demoing /\ "demoSecret" \in Told
    BY <2>2 DEF Demoing, Told
  <2> QED BY <1>1, <2>2, <2>3, <2>4, DemoOn
<1>4. CASE SyncCredential(p)
  <2>1. PICK r : r = [proc[p] EXCEPT !.pc = "demoNext", !.todo = @ \ {First(p)},
                                     !.keep = @ \cup {proc[p].have[First(p)]}]
    OBVIOUS
  <2>2. Moves(p, r) /\ proc[p].pc = "demoSecret"
    BY <1>4, <2>1 DEF SyncCredential
  <2>3. /\ DOMAIN r = ProcFields /\ r.kind = proc[p].kind /\ r.began = proc[p].began /\ r.id = proc[p].id
        /\ r.pc = "demoNext"
    BY <1>2, <2>1 DEF ProcFields
  <2>4. proc[p].pc \in Demoing /\ "demoNext" \in Told
    BY <2>2 DEF Demoing, Told
  <2> QED BY <1>1, <2>2, <2>3, <2>4, DemoOn
<1>5. CASE ListStale(p)
  <2>1. PICK r : r = [proc[p] EXCEPT !.pc = "demoDrop", !.todo = {c.id : c \in demo} \ proc[p].keep]
    BY Zenon
  <2>2. Moves(p, r) /\ proc[p].pc = "demoPrune"
    BY <1>5, <2>1 DEF ListStale
  <2>3. /\ DOMAIN r = ProcFields /\ r.kind = proc[p].kind /\ r.began = proc[p].began /\ r.id = proc[p].id
        /\ r.pc = "demoDrop"
    BY <1>2, <2>1 DEF ProcFields
  <2>4. proc[p].pc \in Demoing /\ "demoDrop" \in Told
    BY <2>2 DEF Demoing, Told
  <2> QED BY <1>1, <2>2, <2>3, <2>4, DemoOn
<1> QED BY <1>3, <1>4, <1>5

LEMMA RemoveStaleKeeps ==
  ASSUME BootInv, NEW p \in Proc, RemoveStale(p)
  PROVE  BootInv'
<1>1. /\ proc[p].pc = "demoDrop"
      /\ UNCHANGED <<dialect, ddl, ledger, legacy, cutover, privacy, copy, dups, tz, chosen, rows, merged>>
  BY DEF RemoveStale, fixed, schemaVars, rowVars
<1>2. proc[p].pc \in Demoing /\ "scenario" \in Told /\ "demoDrop" \in Told
  BY <1>1 DEF Demoing, Told
<1>3. CASE proc[p].todo = {}
  <2>1. Proceeds(p, "scenario") /\ UNCHANGED lock
    BY <1>3, Zenon DEF RemoveStale
  <2>2. PICK r : Onto(p, r, "scenario")
    BY <2>1, Proceeded
  <2> QED BY <1>1, <1>2, <2>1, <2>2, DemoOn DEF Onto
<1>4. CASE proc[p].todo # {}
  <2>1. PICK d \in proc[p].todo :
          IF \E c \in demo : c.id = d
          THEN /\ demo' = {c \in demo : c.id # d}
               /\ Moves(p, [proc[p] EXCEPT !.todo = @ \ {d}]) /\ UNCHANGED lock
          ELSE Aborts(p) /\ UNCHANGED demo
    BY <1>4, Zenon DEF RemoveStale
  <2>2. CASE \E c \in demo : c.id = d
    <3>1. PICK r : r = [proc[p] EXCEPT !.todo = @ \ {d}]
      OBVIOUS
    <3>2. Moves(p, r) /\ UNCHANGED lock
      BY <2>1, <2>2, <3>1
    <3>3. /\ DOMAIN r = ProcFields /\ r.kind = proc[p].kind /\ r.began = proc[p].began /\ r.id = proc[p].id
          /\ r.pc = "demoDrop"
      BY <1>1, <3>1, OwnTruth DEF ProcFields
    <3> QED BY <1>1, <1>2, <3>2, <3>3, DemoOn
  <2>3. CASE ~\E c \in demo : c.id = d
    <3>1. Aborts(p) /\ UNCHANGED demo
      BY <2>1, <2>3, Zenon
    <3> QED BY <1>1, <3>1, PlainAbortKeeps
  <2> QED BY <2>2, <2>3
<1> QED BY <1>3, <1>4

LEMMA SyncItemKeeps ==
  ASSUME BootInv, NEW p \in Proc, SyncItem(p)
  PROVE  BootInv'
<1>1. /\ proc[p].pc \in Item
      /\ UNCHANGED <<dialect, lock, ddl, ledger, legacy, cutover, privacy, copy, dups, tz, chosen, rows, merged>>
  BY DEF SyncItem, fixed, schemaVars, rowVars
<1>2. proc[p].pc \in Demoing /\ proc[p].pc \in Told /\ {"pack", "targets"} \subseteq Told
  BY <1>1 DEF Demoing, Told, Item
<1>3. CASE ~proc[p].looked
  <2>1. PICK r : r = [proc[p] EXCEPT !.looked = TRUE, !.saw = (items[proc[p].pc] # <<>>), !.ver = shelf.ver]
    OBVIOUS
  <2>2. Moves(p, r)
    BY <1>3, <2>1 DEF SyncItem
  <2>3. /\ DOMAIN r = ProcFields /\ r.kind = proc[p].kind /\ r.began = proc[p].began /\ r.id = proc[p].id
        /\ r.pc = proc[p].pc
    BY <2>1, OwnTruth DEF ProcFields
  <2> QED BY <1>1, <1>2, <2>2, <2>3, DemoOn
<1>4. CASE proc[p].looked
  <2>1. PICK pc : pc = IF proc[p].pc = "scenario" THEN "pack" ELSE "targets"
    OBVIOUS
  <2>2. Proceeds(p, pc)
    BY <1>4, <2>1 DEF SyncItem
  <2>3. PICK r : Onto(p, r, pc)
    BY <2>2, Proceeded
  <2> QED BY <1>1, <1>2, <2>1, <2>3, DemoOn DEF Onto
<1> QED BY <1>3, <1>4

\* A step of nobody, or one that all processes learn of.
LEMMA AllStay ==
  ASSUME BootInv, SharedTrue', NEW none, none \notin Proc, Forward(none), proc' = [q \in Proc |-> proc'[q]],
         \A q \in Proc : proc'[q] = proc[q] \/ proc'[q] = [proc[q] EXCEPT !.alone = FALSE]
  PROVE  BootInv'
<1>1. ASSUME NEW q \in Proc PROVE ProcTrue(q, proc[q])'
  <2>1. PICK s : s = proc'[q] /\ (s = proc[q] \/ s = [proc[q] EXCEPT !.alone = FALSE])
    OBVIOUS
  <2>2. ProcTrue(q, s)'
    BY <2>1, OthersStay, OwnTruth
  <2> QED BY <2>1, <2>2
<1> QED BY <1>1 DEF BootInv

LEMMA OwnersKeep ==
  ASSUME BootInv, SetTimezone \/ EditShelf \/ RepairDuplicates \/ SourceChanges
  PROVE  BootInv'
<1>1. /\ UNCHANGED <<dialect, lock, ddl, ledger, legacy, cutover, privacy, copy, rows, merged, demo>>
      /\ dups' => dups
      /\ UNCHANGED <<tz, chosen>> \/ (tz' = "utc" /\ chosen' = TRUE /\ Served)
  <2>1. CASE SetTimezone
    BY <2>1 DEF SetTimezone, fixed, schemaVars, rowVars, demoVars
  <2>2. CASE EditShelf
    BY <2>2, Zenon DEF EditShelf, fixed, schemaVars, rowVars, demoVars
  <2>3. CASE RepairDuplicates
    BY <2>3 DEF RepairDuplicates, fixed, schemaVars, rowVars, demoVars
  <2>4. CASE SourceChanges
    BY <2>4, Zenon DEF SourceChanges, fixed, schemaVars, rowVars, demoVars
  <2> QED BY <2>1, <2>2, <2>3, <2>4
<1>2. Served => rows.marker
  <2>1. SUFFICES ASSUME NEW p \in Proc, proc[p].pc = "serving", proc[p].kind = "api" PROVE rows.marker
    BY DEF Served
  <2>2. RowsSeen(proc[p])
    BY OwnTruth
  <2> QED BY <2>1, <2>2 DEF RowsSeen, Told
<1>3. SharedTrue
  BY DEF BootInv
<1>4. SharedTrue'
  BY <1>1, <1>2, <1>3 DEF SharedTrue, Untouched
<1>5. Forward(NoProc)
  BY <1>1 DEF Forward
<1>6. proc = [p \in Proc |-> proc[p]]
  BY DEF BootInv
<1>7. /\ proc' = [q \in Proc |-> proc'[q]]
      /\ \A q \in Proc : proc'[q] = proc[q] \/ proc'[q] = [proc[q] EXCEPT !.alone = FALSE]
  <2>1. CASE UNCHANGED proc
    BY <1>6, <2>1
  <2>2. CASE proc' = [p \in Proc |-> [proc[p] EXCEPT !.alone = FALSE]]
    BY <2>2
  <2>3. UNCHANGED proc \/ proc' = [p \in Proc |-> [proc[p] EXCEPT !.alone = FALSE]]
    BY Zenon DEF SetTimezone, EditShelf, RepairDuplicates, SourceChanges
  <2> QED BY <2>1, <2>2, <2>3
<1> QED BY <1>4, <1>5, <1>7, AllStay, StorageAssumption

LEMMA ReadCardsKeeps ==
  ASSUME BootInv, NEW p \in Proc, ReadCards(p)
  PROVE  BootInv'
<1>1. /\ proc[p].pc = "demoRead"
      /\ UNCHANGED <<dialect, lock, ddl, ledger, legacy, cutover, privacy, copy, dups, tz, chosen, rows, merged, demo>>
  BY Zenon DEF ReadCards, fixed, schemaVars, rowVars, demoVars
<1>2. PICK have : proc' = [q \in Proc |->
            IF q = p THEN [proc[p] EXCEPT !.pc = "demoNext", !.todo = Selected(shelf.cards), !.have = have,
                             !.ver = shelf.ver, !.keep = {}, !.alone = ~\E r \in Proc \ {p} : Syncing(r)]
            ELSE [proc[q] EXCEPT !.alone = FALSE]]
  BY Zenon DEF ReadCards
<1>3. PICK r : r = [proc[p] EXCEPT !.pc = "demoNext", !.todo = Selected(shelf.cards), !.have = have,
                             !.ver = shelf.ver, !.keep = {}, !.alone = ~\E q \in Proc \ {p} : Syncing(q)]
  BY Zenon
<1>4. /\ proc'[p] = r /\ proc' = [q \in Proc |-> proc'[q]]
      /\ \A q \in Proc \ {p} : proc'[q] = [proc[q] EXCEPT !.alone = FALSE]
  BY <1>2, <1>3, Zenon
<1>5. /\ DOMAIN r = ProcFields /\ r.kind = proc[p].kind /\ r.began = proc[p].began /\ r.id = proc[p].id
      /\ r.pc = "demoNext"
  BY <1>3, OwnTruth DEF ProcFields
<1>6. Forward(p) /\ SharedTrue'
  BY <1>1, OwnTruth, SameShared
<1>7. ASSUME NEW q \in Proc, q # p PROVE ProcTrue(q, proc[q])'
  <2>1. PICK s : s = proc'[q] /\ s = [proc[q] EXCEPT !.alone = FALSE]
    BY <1>4, <1>7
  <2>2. ProcTrue(q, s)'
    BY <1>6, <1>7, <2>1, OthersStay, OwnTruth
  <2> QED BY <2>1, <2>2
<1>8. ProcTrue(p, r)'
  <2>1. proc[p].kind = "api" /\ proc[p].pc \in After /\ proc[p].pc \in Told
    BY <1>1, ToldKind DEF After, Told
  <2>2. Placed(r)'
    BY <1>5, <2>1, OwnTruth DEF Placed, CopyOnly, After, Told, Demoing
  <2>3. SchemaSeen(r)'
    BY <1>1, <1>5, OwnTruth DEF SchemaSeen, Early, After, Told, Demoing
  <2>4. InitTrue(p, r)'
    BY <1>1, <1>5, <2>1, OwnTruth DEF InitTrue, Locked, After, Told, Demoing
  <2>5. RowsSeen(r)'
    BY <1>1, <1>5, <2>1, OwnTruth DEF RowsSeen, Told, Demoing
  <2> QED BY <2>2, <2>3, <2>4, <2>5 DEF ProcTrue
<1>9. ProcTrue(p, proc[p])'
  BY <1>4, <1>8
<1> QED BY <1>4, <1>6, <1>7, <1>9 DEF BootInv

LEMMA BootBegins ==
  ASSUME StorageInit
  PROVE  BootInv
<1>1. /\ lock = NoProc /\ ledger = {} /\ cutover = "none" /\ copy = [status |-> "none", fp |-> 0]
      /\ ddl \in {{}, {"tables"}} /\ (ddl = {} => ~dups) /\ tz = "utc" /\ chosen = FALSE
      /\ privacy \in [status : {"none"}, unsafe : BOOLEAN]
      /\ rows = [identity |-> NoProc, marker |-> FALSE, user |-> [u \in Users |-> "none"], profile |-> FALSE,
                 targets |-> FALSE]
      /\ merged = FALSE /\ demo = {} /\ proc = [p \in Proc |-> Idle]
  BY DEF StorageInit
<1>2. DOMAIN rows = {"identity", "marker", "user", "profile", "targets"} /\ Untouched
  BY <1>1 DEF Untouched
<1>3. DOMAIN privacy = {"status", "unsafe"} /\ DOMAIN copy = {"status", "fp"} /\ copy.status = "none"
  BY <1>1
<1>4. "unique" \notin ddl /\ "embedding" \notin ddl
  BY <1>1
<1>5. SharedTrue
  BY <1>1, <1>2, <1>3, <1>4 DEF SharedTrue, CopyStates
<1> QED BY <1>1, <1>5, IdleTrue DEF BootInv

LEMMA StillBoots ==
  ASSUME BootInv, UNCHANGED storageVars
  PROVE  BootInv'
<1>1. UNCHANGED <<dialect, ddl, ledger, legacy, cutover, privacy, copy, dups, tz, chosen, rows, merged, demo, lock, proc>>
  BY DEF storageVars
<1>2. Forward(NoProc) /\ SharedTrue'
  BY <1>1, SameShared DEF BootInv
<1> QED BY <1>1, <1>2, AllStay, StorageAssumption DEF BootInv

LEMMA BootGoesOn ==
  ASSUME BootInv, StorageNext
  PROVE  BootInv'
<1>1. ASSUME NEW p \in Proc, \E kind \in {"api", "worker", "copy"} : Start(p, kind) PROVE BootInv'
  BY <1>1, StartKeeps
<1>2. ASSUME NEW p \in Proc, InitializeStep(p) PROVE BootInv'
  BY <1>2, InitializeLockKeeps, CreateSchemaKeeps, LookKeeps, RunMigrationKeeps, RecordRevisionKeeps,
     EnsureColumnsKeeps, AssertCopyKeeps, ClaimCutoverKeeps, RetireLegacyKeeps, CompleteCutoverKeeps,
     EventPrivacyKeeps, RuntimeInvariantsKeep DEF InitializeStep
<1>3. ASSUME NEW p \in Proc, CopyStep(p) PROVE BootInv'
  BY <1>3, PrepareTargetKeeps, CopyAllKeeps, MarkKeeps DEF CopyStep
<1>4. ASSUME NEW p \in Proc, RowStep(p) PROVE BootInv'
  BY <1>4, MigrateLegacyUtcKeeps, StorageInstanceKeeps, UserKeeps DEF RowStep
<1>5. ASSUME NEW p \in Proc, DemoStep(p) PROVE BootInv'
  BY <1>5, UserKeeps, ReadCardsKeeps, NextCardKeeps, CreateCardKeeps, RemoveStaleKeeps, SyncItemKeeps DEF DemoStep
<1>6. ASSUME NEW p \in Proc, StartServices(p) \/ Stop(p) PROVE BootInv'
  BY <1>6, ServicesKeep, StopKeeps
<1> QED BY <1>1, <1>2, <1>3, <1>4, <1>5, <1>6, OwnersKeep DEF StorageNext

----------------------------------------------------------------------------
\* The demo account: which cards are wanted, and what the process that synchronizes it alone has done.
Wanted == Selected(shelf.cards)
Chosen(todo) == CHOOSE n \in todo : \A m \in todo : n <= m
Card(n, i) == \E c \in demo : c.id = i /\ c.name = n
Current(n, i) == \E c \in demo : c.id = i /\ c.name = n /\ c.ver = shelf.ver
Ready(n, i) == \E c \in demo : c.id = i /\ c.name = n /\ c.ver = shelf.ver /\ c.secret = shelf.ver

CardsKept ==
  /\ shelf.cards \subseteq Names /\ DOMAIN shelf = {"cards", "ver"} /\ madeCards \in Nat
  /\ \A c \in demo : DOMAIN c = {"id", "name", "ver", "secret"} /\ c.id \in 1 .. madeCards
  /\ \A c, d \in demo : c.id = d.id => c = d

\* While it goes through the source cards, and when it removes the rest.
CardsMatched(r) ==
  /\ r.todo \subseteq Wanted /\ r.ver = shelf.ver /\ r.have = [n \in Names |-> r.have[n]]
  /\ \A n \in Names : r.have[n] # 0 => Card(n, r.have[n])
  /\ \A n \in Wanted \ r.todo : Ready(n, r.have[n])
  /\ r.keep = {r.have[n] : n \in Wanted \ r.todo}
  /\ r.pc \in {"demoCard", "demoSecret"} => r.todo # {}
  /\ r.pc = "demoSecret" => Current(Chosen(r.todo), r.have[Chosen(r.todo)])
  /\ r.pc = "demoPrune" => r.todo = {}
CardsWeeded(r) ==
  /\ \A n \in Wanted : Ready(n, r.have[n])
  /\ r.pc = "demoDrop" =>
       r.keep = {r.have[n] : n \in Wanted} /\ r.todo \cap r.keep = {} /\ \A c \in demo : c.id \in r.keep \cup r.todo
  /\ r.pc # "demoDrop" => \A c \in demo : c.id \in {r.have[n] : n \in Wanted}
DemoTrue(r) ==
  /\ r.pc \in {"demoNext", "demoCard", "demoSecret", "demoPrune"} => CardsMatched(r)
  /\ r.pc \in {"demoDrop", "scenario", "pack"} => CardsWeeded(r)

Alone(p) == proc[p].alone /\ proc[p].pc \in Demoing

DemoInv ==
  /\ CardsKept
  /\ \A p \in Proc : Alone(p) => DemoTrue(proc[p]) /\ \A q \in Proc \ {p} : proc[q].pc \notin Demoing

\* Another step of a process keeps every card where it is.
LEMMA CardsStand ==
  ASSUME UNCHANGED <<shelf, demo>>, NEW r, DemoTrue(r)
  PROVE  DemoTrue(r)'
<1>1. Wanted' = Wanted
  BY DEF Wanted
<1>2. \A n, i : /\ Card(n, i)' = Card(n, i) /\ Ready(n, i)' = Ready(n, i) /\ Current(n, i)' = Current(n, i)
  BY DEF Card, Ready, Current
<1>3. CASE r.pc \in {"demoNext", "demoCard", "demoSecret", "demoPrune"}
  <2>1. CardsMatched(r)'
    BY <1>1, <1>2, <1>3 DEF DemoTrue, CardsMatched
  <2> QED BY <1>3, <2>1 DEF DemoTrue
<1>4. CASE r.pc \in {"demoDrop", "scenario", "pack"}
  <2>1. CardsWeeded(r)'
    BY <1>1, <1>2, <1>4 DEF DemoTrue, CardsWeeded
  <2> QED BY <1>4, <2>1 DEF DemoTrue
<1> QED BY <1>3, <1>4 DEF DemoTrue

LEMMA ElsewhereKeeps ==
  ASSUME BootInv, DemoInv, NEW p \in Proc, NEW r, Moves(p, r), r.pc \notin Demoing, UNCHANGED demoVars
  PROVE  DemoInv'
<1>1. UNCHANGED <<shelf, demo, madeCards>>
  BY DEF demoVars
<1>2. CardsKept'
  BY <1>1 DEF DemoInv, CardsKept
<1>3. proc'[p] = r /\ \A q \in Proc \ {p} : proc'[q] = proc[q]
  BY DEF Moves, BootInv
<1>4. ASSUME NEW q \in Proc, Alone(q)' PROVE DemoTrue(proc[q])' /\ \A o \in Proc \ {q} : proc'[o].pc \notin Demoing
  <2>1. q # p /\ proc'[q] = proc[q] /\ Alone(q)
    BY <1>3, <1>4 DEF Alone
  <2>2. DemoTrue(proc[q]) /\ \A o \in Proc \ {q} : proc[o].pc \notin Demoing
    BY <2>1 DEF DemoInv
  <2>3. PICK s : s = proc[q] /\ s = proc'[q]
    BY <2>1
  <2>4. DemoTrue(s)'
    BY <1>1, <2>2, <2>3, CardsStand
  <2> QED BY <1>3, <2>2, <2>3, <2>4
<1> QED BY <1>2, <1>4 DEF DemoInv

LEMMA AbortsElsewhere ==
  ASSUME BootInv, DemoInv, NEW p \in Proc, Aborts(p), UNCHANGED demoVars
  PROVE  DemoInv'
<1>1. PICK r : r = IF Owned(p) THEN [proc[p] EXCEPT !.pc = "markFailed"] ELSE Idle
  BY Zenon
<1>2. Moves(p, r)
  BY <1>1 DEF Aborts
<1>3. r.pc = "markFailed" \/ r.pc = "off"
  BY <1>1, OwnTruth DEF Idle, ProcFields
<1>4. r.pc \notin Demoing
  BY <1>3 DEF Demoing
<1> QED BY <1>2, <1>4, ElsewhereKeeps

LEMMA ProceedsElsewhere ==
  ASSUME BootInv, DemoInv, NEW p \in Proc, NEW pc, pc \notin Demoing, Proceeds(p, pc), UNCHANGED demoVars
  PROVE  DemoInv'
<1>1. PICK r : Onto(p, r, pc)
  BY Proceeded
<1> QED BY <1>1, ElsewhereKeeps DEF Onto

LEMMA StartElsewhere ==
  ASSUME BootInv, DemoInv, NEW p \in Proc,
         (\E kind \in {"api", "worker", "copy"} : Start(p, kind)) \/ InitializeLock(p) \/ MarkCompleted(p)
           \/ MarkFailed(p) \/ Stop(p)
  PROVE  DemoInv'
<1>1. DOMAIN proc[p] = ProcFields
  BY OwnTruth
<1>2. ASSUME NEW kind \in {"api", "worker", "copy"}, Start(p, kind) PROVE DemoInv'
  <2>1. PICK r : r = [Idle EXCEPT !.kind = kind, !.pc = "lock", !.fp = Snapshot]
    OBVIOUS
  <2>2. Moves(p, r) /\ UNCHANGED demoVars
    BY <1>2, <2>1, Zenon DEF Start
  <2>3. r.pc \notin Demoing
    BY <2>1 DEF Idle, Demoing
  <2> QED BY <2>2, <2>3, ElsewhereKeeps
<1>3. CASE InitializeLock(p)
  <2>1. PICK r : r = [proc[p] EXCEPT !.pc = "schema", !.began = copy.status]
    OBVIOUS
  <2>2. Moves(p, r) /\ UNCHANGED demoVars
    BY <1>3, <2>1, Zenon DEF InitializeLock
  <2>3. r.pc \notin Demoing
    BY <1>1, <2>1 DEF ProcFields, Demoing
  <2> QED BY <2>2, <2>3, ElsewhereKeeps
<1>4. CASE MarkCompleted(p) \/ MarkFailed(p) \/ Stop(p)
  <2>1. Moves(p, Idle) /\ UNCHANGED demoVars
    BY <1>4, Zenon DEF MarkCompleted, MarkFailed, Stop
  <2>2. Idle.pc \notin Demoing
    BY DEF Idle, Demoing
  <2> QED BY <2>1, <2>2, ElsewhereKeeps
<1> QED BY <1>2, <1>3, <1>4

LEMMA LedgerElsewhere ==
  ASSUME BootInv, DemoInv, NEW p \in Proc, RunMigration(p) \/ RecordRevision(p)
  PROVE  DemoInv'
<1>1. UNCHANGED demoVars /\ proc[p].pc = "ledger"
  BY Zenon DEF RunMigration, RecordRevision, InOneTransaction
<1>2. Aborts(p) \/ NextRevision(p)
  <2>1. CASE RunMigration(p)
    BY <2>1, Zenon DEF RunMigration
  <2>2. CASE RecordRevision(p) /\ ~proc[p].saw /\ ~Absent(p)
    BY <2>2, Zenon DEF RecordRevision
  <2>3. CASE RecordRevision(p) /\ ~(~proc[p].saw /\ ~Absent(p))
    BY <2>3, Zenon DEF RecordRevision
  <2> QED BY <2>1, <2>2, <2>3
<1>3. CASE Proceeds(p, "columns")
  BY <1>1, <1>3, ProceedsElsewhere DEF Demoing
<1>4. CASE Moves(p, [proc[p] EXCEPT !.i = @ + 1, !.looked = FALSE])
  <2>1. PICK r : r = [proc[p] EXCEPT !.i = @ + 1, !.looked = FALSE]
    OBVIOUS
  <2>2. r.pc \notin Demoing
    BY <1>1, <2>1, OwnTruth DEF ProcFields, Demoing
  <2> QED BY <1>1, <1>4, <2>1, <2>2, ElsewhereKeeps
<1> QED BY <1>1, <1>2, <1>3, <1>4, AbortsElsewhere, Zenon DEF NextRevision

LEMMA LookElsewhere ==
  ASSUME BootInv, DemoInv, NEW p \in Proc, Look(p)
  PROVE  DemoInv'
<1>1. /\ UNCHANGED demoVars
      /\ proc[p].pc \in {"ledger", "cutover", "utc", "identity", "local", "system", "admin", "profile", "demo",
                         "targets"}
  BY Zenon DEF Look
<1>2. Proceeds(p, "privacy") \/ Moves(p, [proc[p] EXCEPT !.looked = TRUE, !.saw = ~Absent(p)])
  BY Zenon DEF Look
<1>3. CASE Proceeds(p, "privacy")
  BY <1>1, <1>3, ProceedsElsewhere DEF Demoing
<1>4. CASE Moves(p, [proc[p] EXCEPT !.looked = TRUE, !.saw = ~Absent(p)])
  <2>1. PICK r : r = [proc[p] EXCEPT !.looked = TRUE, !.saw = ~Absent(p)]
    BY Zenon
  <2>2. r.pc = proc[p].pc
    BY <2>1, OwnTruth DEF ProcFields
  <2>3. r.pc \notin Demoing
    BY <1>1, <2>2 DEF Demoing
  <2> QED BY <1>1, <1>4, <2>1, <2>3, ElsewhereKeeps
<1> QED BY <1>2, <1>3, <1>4

\* The other steps of the initialization and of the copy.
Unlisted == {"ledger", "check", "columns", "invariants", "cutover", "retire", "cutoverDone", "privacy", "prepare",
             "copyAll", "markCompleted", "services", "serving", "utc", "identity", "system", "admin", "profile",
             "demo", "demoRead"}

LEMMA InitializeElsewhere ==
  ASSUME BootInv, DemoInv, NEW p \in Proc,
         CreateSchemaMetadata(p) \/ EnsureColumns(p) \/ AssertNoIncompleteCopy(p) \/ ClaimCutover(p)
           \/ RetireLegacyStorage(p) \/ CompleteCutover(p) \/ DiscordEventPrivacy(p) \/ EnsureRuntimeInvariants(p)
           \/ PrepareTarget(p) \/ StartServices(p)
  PROVE  DemoInv'
<1>1. UNCHANGED demoVars
  BY Zenon DEF CreateSchemaMetadata, EnsureColumns, AssertNoIncompleteCopy, ClaimCutover, RetireLegacyStorage,
     CompleteCutover, DiscordEventPrivacy, EnsureRuntimeInvariants, PrepareTarget, StartServices
<1>2. Aborts(p) \/ \E pc \in Unlisted : Proceeds(p, pc)
  <2>1. CASE CreateSchemaMetadata(p)
    BY <2>1 DEF CreateSchemaMetadata, Unlisted
  <2>2. CASE EnsureColumns(p)
    BY <2>2 DEF EnsureColumns, Unlisted
  <2>3. CASE AssertNoIncompleteCopy(p)
    BY <2>3 DEF AssertNoIncompleteCopy, Unlisted
  <2>4. CASE ClaimCutover(p)
    BY <2>4 DEF ClaimCutover, Unlisted
  <2>5. CASE RetireLegacyStorage(p)
    BY <2>5 DEF RetireLegacyStorage, Unlisted
  <2>6. CASE CompleteCutover(p)
    BY <2>6 DEF CompleteCutover, Unlisted
  <2>7. CASE DiscordEventPrivacy(p)
    BY <2>7 DEF DiscordEventPrivacy, Unlisted
  <2>8. CASE EnsureRuntimeInvariants(p)
    <3>1. AfterInitialize(p) \in Unlisted
      BY DEF AfterInitialize, Unlisted
    <3> QED BY <2>8, <3>1, Zenon DEF EnsureRuntimeInvariants
  <2>9. CASE PrepareTarget(p)
    BY <2>9 DEF PrepareTarget, Unlisted
  <2>10. CASE StartServices(p)
    BY <2>10 DEF StartServices, Unlisted
  <2> QED BY <2>1, <2>2, <2>3, <2>4, <2>5, <2>6, <2>7, <2>8, <2>9, <2>10
<1>3. ASSUME NEW pc \in Unlisted, Proceeds(p, pc) PROVE DemoInv'
  <2>1. pc \notin Demoing
    BY DEF Unlisted, Demoing
  <2> QED BY <1>1, <1>3, <2>1, ProceedsElsewhere
<1> QED BY <1>1, <1>2, <1>3, AbortsElsewhere

LEMMA RowsElsewhere ==
  ASSUME BootInv, DemoInv, NEW p \in Proc, RowStep(p) \/ EnsureDemoUser(p) \/ CopyAllTables(p)
  PROVE  DemoInv'
<1>1. UNCHANGED demoVars
  BY Zenon DEF RowStep, MigrateLegacyUtc, EnsureStorageInstanceId, EnsureUser, Centralize, SeedDemoTargets,
     EnsureDemoUser, CopyAllTables
<1>2. CASE Aborts(p)
  BY <1>1, <1>2, AbortsElsewhere
<1>3. ASSUME NEW pc \in Unlisted, Proceeds(p, pc) PROVE DemoInv'
  <2>1. pc \notin Demoing
    BY DEF Unlisted, Demoing
  <2> QED BY <1>1, <1>3, <2>1, ProceedsElsewhere
<1>4. CASE MigrateLegacyUtc(p) /\ ~Aborts(p)
  <2>1. Proceeds(p, "identity") /\ "identity" \in Unlisted
    BY <1>4 DEF MigrateLegacyUtc, Unlisted
  <2> QED BY <2>1, <1>3
<1>5. CASE EnsureStorageInstanceId(p) /\ ~Aborts(p)
  <2>1. PICK pc : pc = IF production THEN "system" ELSE "local"
    OBVIOUS
  <2>2. PICK r : r = [proc[p] EXCEPT !.pc = pc, !.looked = FALSE, !.id = rows'.identity]
    OBVIOUS
  <2>3. Moves(p, r)
    BY <1>5, <2>1, <2>2, Zenon DEF EnsureStorageInstanceId
  <2>4. r.pc \notin Demoing
    BY <2>1, <2>2, OwnTruth DEF ProcFields, Demoing
  <2> QED BY <1>1, <2>3, <2>4, ElsewhereKeeps
<1>6. CASE EnsureUser(p) /\ ~Aborts(p)
  <2>1. PICK pc : pc = CASE proc[p].pc = "local" -> "system" [] proc[p].pc = "system" -> "admin"
                         [] proc[p].pc = "admin" -> "profile"
    OBVIOUS
  <2>2. proc[p].pc \in {"local", "system", "admin"} /\ Proceeds(p, pc)
    BY <1>6, <2>1, Zenon DEF EnsureUser
  <2>3. pc \in Unlisted
    BY <2>1, <2>2 DEF Unlisted
  <2> QED BY <2>2, <2>3, <1>3
<1>7. CASE Centralize(p) /\ ~Aborts(p)
  <2>1. Proceeds(p, "demo") /\ "demo" \in Unlisted
    BY <1>7 DEF Centralize, Unlisted
  <2> QED BY <2>1, <1>3
<1>8. CASE SeedDemoTargets(p) /\ ~Aborts(p)
  <2>1. Proceeds(p, "services") /\ "services" \in Unlisted
    BY <1>8 DEF SeedDemoTargets, Unlisted
  <2> QED BY <2>1, <1>3
<1>9. CASE EnsureDemoUser(p) /\ ~Aborts(p)
  <2>1. Proceeds(p, "demoRead") /\ "demoRead" \in Unlisted
    BY <1>9 DEF EnsureDemoUser, Unlisted
  <2> QED BY <2>1, <1>3
<1>10. CASE CopyAllTables(p) /\ ~Aborts(p)
  <2>1. PICK r : r = [proc[p] EXCEPT !.pc = "lock", !.again = TRUE]
    OBVIOUS
  <2>2. Moves(p, r)
    BY <1>10, <2>1, Zenon DEF CopyAllTables
  <2>3. r.pc \notin Demoing
    BY <2>1, OwnTruth DEF ProcFields, Demoing
  <2> QED BY <1>1, <2>2, <2>3, ElsewhereKeeps
<1> QED BY <1>2, <1>4, <1>5, <1>6, <1>7, <1>8, <1>9, <1>10 DEF RowStep

LEMMA ChosenIn ==
  ASSUME NEW todo, todo \subseteq Names, todo # {}
  PROVE  Chosen(todo) \in todo
<1>1. \E n \in todo : \A m \in todo : n <= m
  <2>1. \A n \in todo : n = 1 \/ n = 2 \/ n = 3
    BY DEF Names
  <2> QED BY <2>1
<1> QED BY <1>1 DEF Chosen

LEMMA FirstChosen ==
  ASSUME NEW p
  PROVE  First(p) = Chosen(proc[p].todo)
BY Zenon DEF First, Chosen

LEMMA WantedNames ==
  ASSUME CardsKept
  PROVE  Wanted \subseteq Names
BY DEF CardsKept, Wanted, Selected

\* A step of a process in the demo synchronization: if it is alone there, it is alone afterwards.
LEMMA DemoMoves ==
  ASSUME BootInv, DemoInv, NEW p \in Proc, NEW r, Moves(p, r), proc[p].pc \in Demoing, CardsKept',
         r.pc \in Demoing => r.alone = proc[p].alone, Alone(p) /\ r.pc \in Demoing => DemoTrue(r)'
  PROVE  DemoInv'
<1>1. proc'[p] = r /\ \A q \in Proc \ {p} : proc'[q] = proc[q]
  BY DEF Moves, BootInv
<1>2. \A q \in Proc \ {p} : ~Alone(q)
  BY DEF DemoInv
<1>3. ASSUME NEW q \in Proc, Alone(q)' PROVE DemoTrue(proc[q])' /\ \A o \in Proc \ {q} : proc'[o].pc \notin Demoing
  <2>1. q = p
    BY <1>1, <1>2, <1>3 DEF Alone
  <2>2. r.pc \in Demoing /\ Alone(p)
    BY <1>1, <1>3, <2>1 DEF Alone
  <2>3. DemoTrue(r)' /\ \A o \in Proc \ {p} : proc[o].pc \notin Demoing
    BY <2>2 DEF DemoInv
  <2> QED BY <1>1, <2>1, <2>3
<1> QED BY <1>3 DEF DemoInv

\* A card's version, or its secret, is written.
Edited(i, field, x) ==
  (demo \ {c \in demo : c.id = i}) \cup {[c EXCEPT ![field] = x] : c \in {b \in demo : b.id = i}}

LEMMA CardEdited ==
  ASSUME CardsKept, UNCHANGED <<shelf, madeCards>>, NEW i, NEW x, NEW field \in {"ver", "secret"},
         demo' = Edited(i, field, x)
  PROVE  /\ CardsKept'
         /\ \A c \in demo : c.id # i => c \in demo'
         /\ \A c \in demo : c.id = i => [c EXCEPT ![field] = x] \in demo'
<1>1. \A c \in demo : DOMAIN c = {"id", "name", "ver", "secret"} /\ c.id \in 1 .. madeCards
  BY DEF CardsKept
<1>2. ASSUME NEW d \in demo'
      PROVE  \E c \in demo : \/ c.id # i /\ d = c
                             \/ c.id = i /\ d = [c EXCEPT ![field] = x]
  BY <1>2 DEF Edited
<1>3. ASSUME NEW d \in demo'
      PROVE  DOMAIN d = {"id", "name", "ver", "secret"} /\ d.id \in 1 .. madeCards
  <2>1. PICK c \in demo : \/ c.id # i /\ d = c
                          \/ c.id = i /\ d = [c EXCEPT ![field] = x]
    BY <1>2, <1>3
  <2> QED BY <1>1, <2>1
<1>4. ASSUME NEW d \in demo', NEW e \in demo', d.id = e.id PROVE d = e
  <2>1. PICK c \in demo : \/ c.id # i /\ d = c
                          \/ c.id = i /\ d = [c EXCEPT ![field] = x]
    BY <1>2, <1>4
  <2>2. PICK b \in demo : \/ b.id # i /\ e = b
                          \/ b.id = i /\ e = [b EXCEPT ![field] = x]
    BY <1>2, <1>4
  <2>3. c.id = b.id
    BY <1>1, <1>4, <2>1, <2>2
  <2>4. c = b
    BY <2>3 DEF CardsKept
  <2> QED BY <2>1, <2>2, <2>4
<1>5. CardsKept'
  BY <1>3, <1>4 DEF CardsKept
<1>6. \A c \in demo : c.id # i => c \in demo'
  BY DEF Edited
<1>7. \A c \in demo : c.id = i => [c EXCEPT ![field] = x] \in demo'
  BY DEF Edited
<1> QED BY <1>5, <1>6, <1>7

\* What is true of the cards stays true, and the written one is better than it was.
LEMMA CardsBetter ==
  ASSUME CardsKept, UNCHANGED shelf, NEW i, NEW field \in {"ver", "secret"},
         \A c \in demo : c.id # i => c \in demo',
         \A c \in demo : c.id = i => [c EXCEPT ![field] = shelf.ver] \in demo', NEW n, NEW j
  PROVE  /\ Card(n, j) => Card(n, j)'
         /\ Current(n, j) => Current(n, j)'
         /\ Ready(n, j) => Ready(n, j)'
         /\ field = "ver" /\ j = i /\ Card(n, j) => Current(n, j)'
         /\ field = "secret" /\ j = i /\ Current(n, j) => Ready(n, j)'
<1>1. ASSUME NEW c \in demo
      PROVE  \E d \in demo' : /\ d.id = c.id /\ d.name = c.name
                              /\ c.ver = shelf.ver => d.ver = shelf.ver
                              /\ c.secret = shelf.ver => d.secret = shelf.ver
                              /\ field = "ver" /\ c.id = i => d.ver = shelf.ver
                              /\ field = "secret" /\ c.id = i => d.secret = shelf.ver
  <2>1. DOMAIN c = {"id", "name", "ver", "secret"}
    BY DEF CardsKept
  <2>2. CASE c.id # i
    BY <2>2
  <2>3. CASE c.id = i
    <3>1. PICK d : d = [c EXCEPT ![field] = shelf.ver]
      OBVIOUS
    <3>2. d \in demo'
      BY <2>3, <3>1
    <3>3. /\ d.id = c.id /\ d.name = c.name
          /\ field = "ver" => d.ver = shelf.ver /\ d.secret = c.secret
          /\ field = "secret" => d.secret = shelf.ver /\ d.ver = c.ver
      BY <2>1, <3>1
    <3> QED BY <3>2, <3>3
  <2> QED BY <2>2, <2>3
<1>2. Card(n, j) => Card(n, j)'
  BY <1>1 DEF Card
<1>3. Current(n, j) => Current(n, j)'
  BY <1>1 DEF Current
<1>4. Ready(n, j) => Ready(n, j)'
  BY <1>1 DEF Ready
<1>5. field = "ver" /\ j = i /\ Card(n, j) => Current(n, j)'
  BY <1>1 DEF Card, Current
<1>6. field = "secret" /\ j = i /\ Current(n, j) => Ready(n, j)'
  BY <1>1 DEF Current, Ready
<1> QED BY <1>2, <1>3, <1>4, <1>5, <1>6

LEMMA CardsSame ==
  ASSUME UNCHANGED <<shelf, demo, madeCards>>, CardsKept
  PROVE  CardsKept'
BY DEF CardsKept

LEMMA ProceedsDemo ==
  ASSUME BootInv, NEW p \in Proc, NEW pc, Proceeds(p, pc)
  PROVE  \E r : /\ Moves(p, r) /\ r.pc = pc /\ r.alone = proc[p].alone /\ r.todo = proc[p].todo
                /\ r.have = proc[p].have /\ r.keep = proc[p].keep /\ r.ver = proc[p].ver
<1>1. PICK r : r = [proc[p] EXCEPT !.pc = pc, !.looked = FALSE, !.i = 1]
  OBVIOUS
<1>2. Moves(p, r)
  BY <1>1 DEF Proceeds
<1>3. /\ r.pc = pc /\ r.alone = proc[p].alone /\ r.todo = proc[p].todo
      /\ r.have = proc[p].have /\ r.keep = proc[p].keep /\ r.ver = proc[p].ver
  BY <1>1, OwnTruth DEF ProcFields
<1> QED BY <1>2, <1>3

\* A process that fails in the synchronization leaves it.
LEMMA AbortsDemo ==
  ASSUME BootInv, DemoInv, NEW p \in Proc, Aborts(p), UNCHANGED <<shelf, demo, madeCards>>, proc[p].pc \in Demoing
  PROVE  DemoInv'
<1>1. PICK r : r = IF Owned(p) THEN [proc[p] EXCEPT !.pc = "markFailed"] ELSE Idle
  BY Zenon
<1>2. Moves(p, r)
  BY <1>1 DEF Aborts
<1>3. r.pc = "markFailed" \/ r.pc = "off"
  BY <1>1, OwnTruth DEF Idle, ProcFields
<1>4. r.pc \notin Demoing
  BY <1>3 DEF Demoing
<1> QED BY <1>2, <1>4, CardsSame, DemoMoves DEF DemoInv

LEMMA NextCardDemo ==
  ASSUME BootInv, DemoInv, NEW p \in Proc, NextCard(p)
  PROVE  DemoInv'
<1>1. proc[p].pc = "demoNext" /\ UNCHANGED <<shelf, madeCards>> /\ proc[p].pc \in Demoing /\ CardsKept
  BY DEF NextCard, Demoing, DemoInv
<1>2. Alone(p) => CardsMatched(proc[p])
  BY <1>1 DEF DemoInv, DemoTrue
<1>3. CASE proc[p].todo = {}
  <2>1. Proceeds(p, "demoPrune") /\ UNCHANGED <<demo, lock>>
    BY <1>3, Zenon DEF NextCard
  <2>2. PICK r : /\ Moves(p, r) /\ r.pc = "demoPrune" /\ r.alone = proc[p].alone /\ r.todo = proc[p].todo
                 /\ r.have = proc[p].have /\ r.keep = proc[p].keep /\ r.ver = proc[p].ver
    BY <2>1, ProceedsDemo
  <2>3. Alone(p) => DemoTrue(r)
    BY <1>2, <1>3, <2>2 DEF DemoTrue, CardsMatched
  <2>4. Alone(p) => DemoTrue(r)'
    BY <1>1, <2>1, <2>3, CardsStand
  <2> QED BY <1>1, <2>1, <2>2, <2>4, CardsSame, DemoMoves
<1>4. CASE proc[p].todo # {} /\ proc[p].have[First(p)] = 0
  <2>1. Proceeds(p, "demoCard") /\ UNCHANGED <<demo, lock>>
    BY <1>4, Zenon DEF NextCard
  <2>2. PICK r : /\ Moves(p, r) /\ r.pc = "demoCard" /\ r.alone = proc[p].alone /\ r.todo = proc[p].todo
                 /\ r.have = proc[p].have /\ r.keep = proc[p].keep /\ r.ver = proc[p].ver
    BY <2>1, ProceedsDemo
  <2>3. Alone(p) => DemoTrue(r)
    BY <1>2, <1>4, <2>2 DEF DemoTrue, CardsMatched
  <2>4. Alone(p) => DemoTrue(r)'
    BY <1>1, <2>1, <2>3, CardsStand
  <2> QED BY <1>1, <2>1, <2>2, <2>4, CardsSame, DemoMoves
<1>5. CASE proc[p].todo # {} /\ proc[p].have[First(p)] # 0 /\ Mine(p) = {}
  <2>1. Aborts(p) /\ UNCHANGED demo
    BY <1>5, Zenon DEF NextCard
  <2> QED BY <1>1, <2>1, AbortsDemo
<1>6. CASE proc[p].todo # {} /\ proc[p].have[First(p)] # 0 /\ Mine(p) # {}
  <2>1. /\ demo' = (demo \ Mine(p)) \cup {[c EXCEPT !.ver = proc[p].ver] : c \in Mine(p)}
        /\ Proceeds(p, "demoSecret")
    BY <1>6, Zenon DEF NextCard
  <2>2. PICK r : /\ Moves(p, r) /\ r.pc = "demoSecret" /\ r.alone = proc[p].alone /\ r.todo = proc[p].todo
                 /\ r.have = proc[p].have /\ r.keep = proc[p].keep /\ r.ver = proc[p].ver
    BY <2>1, ProceedsDemo
  <2>3. PICK i : i = proc[p].have[First(p)]
    OBVIOUS
  <2>4. PICK x : x = proc[p].ver
    OBVIOUS
  <2>. PICK field : field \in {"ver", "secret"} /\ field = "ver"
    OBVIOUS
  <2>6. demo' = Edited(i, field, x)
    BY <2>1, <2>3, <2>4 DEF Edited, Mine
  <2>7. /\ CardsKept' /\ \A c \in demo : c.id # i => c \in demo'
        /\ \A c \in demo : c.id = i => [c EXCEPT ![field] = x] \in demo'
    BY <1>1, <2>6, CardEdited
  <2>8. ASSUME Alone(p) PROVE DemoTrue(r)'
    <3>1. CardsMatched(proc[p]) /\ x = shelf.ver
      BY <1>2, <2>4, <2>8 DEF CardsMatched
    <3>2. Wanted' = Wanted /\ shelf' = shelf
      BY <1>1 DEF Wanted
    <3>3. /\ \A n, j : Card(n, j) => Card(n, j)'
          /\ \A n, j : Ready(n, j) => Ready(n, j)'
          /\ \A n : Card(n, i) => Current(n, i)'
      BY <1>1, <2>7, <3>1, <3>2, CardsBetter
    <3>. PICK n : n = Chosen(proc[p].todo)
      OBVIOUS
    <3>4. n \in Names /\ i = proc[p].have[n] /\ i # 0
      BY <1>1, <1>6, <2>3, <3>1, ChosenIn, FirstChosen, WantedNames DEF CardsMatched
    <3>5. Card(n, i)
      BY <3>1, <3>4 DEF CardsMatched
    <3>6. Current(n, i)'
      BY <3>3, <3>5
    <3>7. CardsMatched(r)'
      BY <1>6, <2>2, <3>1, <3>2, <3>3, <3>4, <3>6 DEF CardsMatched
    <3> QED BY <2>2, <3>7 DEF DemoTrue
  <2> QED BY <1>1, <2>2, <2>7, <2>8, DemoMoves
<1> QED BY <1>3, <1>4, <1>5, <1>6

LEMMA CreateCardDemo ==
  ASSUME BootInv, DemoInv, NEW p \in Proc, CreateDemoCard(p)
  PROVE  DemoInv'
<1>1. PICK n : n = First(p)
  OBVIOUS
<1>2. PICK i : i = madeCards'
  OBVIOUS
<1>3. PICK card : card = [id |-> i, name |-> n, ver |-> proc[p].ver, secret |-> 0]
  OBVIOUS
<1>4. PICK r : r = [proc[p] EXCEPT !.pc = "demoSecret", !.have[n] = i]
  OBVIOUS
<1>5. /\ proc[p].pc = "demoCard" /\ madeCards' = madeCards + 1 /\ demo' = demo \cup {card} /\ Moves(p, r)
      /\ UNCHANGED shelf
  BY <1>1, <1>2, <1>3, <1>4, Zenon DEF CreateDemoCard
<1>6. CardsKept /\ i \in Nat /\ i = madeCards + 1
  BY <1>2, <1>5 DEF DemoInv, CardsKept
<1>7. /\ DOMAIN card = {"id", "name", "ver", "secret"} /\ card.id = i /\ card.name = n /\ card.ver = proc[p].ver
  BY <1>3
<1>8. /\ r.pc = "demoSecret" /\ r.alone = proc[p].alone /\ r.todo = proc[p].todo
      /\ r.have = [proc[p].have EXCEPT ![n] = i] /\ r.keep = proc[p].keep /\ r.ver = proc[p].ver
  BY <1>4, OwnTruth DEF ProcFields
<1>9. proc[p].pc \in Demoing
  BY <1>5 DEF Demoing
<1>10. \A c \in demo : c.id # i
  BY <1>6 DEF CardsKept
<1>11. CardsKept'
  BY <1>5, <1>6, <1>7, <1>10 DEF CardsKept
<1>12. ASSUME Alone(p) PROVE DemoTrue(r)'
  <2>1. CardsMatched(proc[p])
    BY <1>5, <1>12 DEF DemoInv, DemoTrue
  <2>2. Wanted' = Wanted /\ shelf' = shelf
    BY <1>5 DEF Wanted
  <2>3. n = Chosen(proc[p].todo) /\ n \in proc[p].todo /\ n \in Names
    BY <1>1, <1>5, <1>6, <2>1, ChosenIn, FirstChosen, WantedNames DEF CardsMatched
  <2>4. /\ \A m, j : Card(m, j) => Card(m, j)'
        /\ \A m, j : Ready(m, j) => Ready(m, j)'
    BY <1>5, <2>2 DEF Card, Ready
  <2>5. Current(n, i)' /\ Card(n, i)'
    BY <1>5, <1>7, <2>1, <2>2 DEF Current, Card, CardsMatched
  <2>6. r.have = [m \in Names |-> r.have[m]] /\ r.have[n] = i /\ \A m \in Names \ {n} : r.have[m] = proc[p].have[m]
    BY <1>8, <2>1, <2>3 DEF CardsMatched
  <2>7. \A m \in Wanted \ r.todo : m \in Names \ {n}
    BY <1>6, <1>8, <2>3, WantedNames
  <2>8. /\ r.todo \subseteq Wanted' /\ r.ver = shelf'.ver /\ r.todo # {}
        /\ \A m \in Names : r.have[m] # 0 => Card(m, r.have[m])'
        /\ \A m \in Wanted' \ r.todo : Ready(m, r.have[m])'
    BY <1>8, <2>1, <2>2, <2>3, <2>4, <2>5, <2>6, <2>7 DEF CardsMatched
  <2>9. r.keep = {r.have[m] : m \in Wanted' \ r.todo}
    BY <1>8, <2>1, <2>2, <2>6, <2>7 DEF CardsMatched
  <2>10. CardsMatched(r)'
    BY <1>8, <2>3, <2>5, <2>6, <2>8, <2>9 DEF CardsMatched
  <2> QED BY <1>8, <2>10 DEF DemoTrue
<1> QED BY <1>5, <1>8, <1>9, <1>11, <1>12, DemoMoves

LEMMA SyncCredentialDemo ==
  ASSUME BootInv, DemoInv, NEW p \in Proc, SyncCredential(p)
  PROVE  DemoInv'
<1>1. PICK n : n = First(p)
  OBVIOUS
<1>2. PICK i : i = proc[p].have[n]
  OBVIOUS
<1>4. PICK r : r = [proc[p] EXCEPT !.pc = "demoNext", !.todo = @ \ {n}, !.keep = @ \cup {i}]
  OBVIOUS
<1>5. PICK x : x = shelf.ver
  OBVIOUS
<1>. PICK field : field \in {"ver", "secret"} /\ field = "secret"
  OBVIOUS
<1>6. /\ proc[p].pc = "demoSecret" /\ Moves(p, r) /\ UNCHANGED <<shelf, madeCards>>
      /\ demo' = Edited(i, field, x)
  BY <1>1, <1>2, <1>4, <1>5 DEF SyncCredential, Edited, Mine
<1>7. CardsKept /\ proc[p].pc \in Demoing
  BY <1>6 DEF DemoInv, Demoing
<1>8. /\ CardsKept' /\ \A c \in demo : c.id # i => c \in demo'
      /\ \A c \in demo : c.id = i => [c EXCEPT ![field] = x] \in demo'
  BY <1>6, <1>7, CardEdited
<1>9. /\ r.pc = "demoNext" /\ r.alone = proc[p].alone /\ r.todo = proc[p].todo \ {n}
      /\ r.have = proc[p].have /\ r.keep = proc[p].keep \cup {i} /\ r.ver = proc[p].ver
  BY <1>4, OwnTruth DEF ProcFields
<1>10. ASSUME Alone(p) PROVE DemoTrue(r)'
  <2>1. CardsMatched(proc[p])
    BY <1>6, <1>10 DEF DemoInv, DemoTrue
  <2>2. Wanted' = Wanted /\ shelf' = shelf
    BY <1>6 DEF Wanted
  <2>3. n = Chosen(proc[p].todo) /\ n \in proc[p].todo /\ n \in Wanted
    BY <1>1, <1>6, <1>7, <2>1, ChosenIn, FirstChosen, WantedNames DEF CardsMatched
  <2>4. /\ \A m, j : Card(m, j) => Card(m, j)'
        /\ \A m, j : Ready(m, j) => Ready(m, j)'
        /\ \A m : Current(m, i) => Ready(m, i)'
    BY <1>5, <1>7, <1>8, <2>2, CardsBetter
  <2>5. Ready(n, i)'
    BY <1>2, <1>6, <2>1, <2>3, <2>4 DEF CardsMatched
  <2>6. Wanted \ r.todo = (Wanted \ proc[p].todo) \cup {n}
    BY <1>9, <2>3
  <2>7. /\ r.todo \subseteq Wanted' /\ r.ver = shelf'.ver /\ r.have = [m \in Names |-> r.have[m]]
        /\ \A m \in Names : r.have[m] # 0 => Card(m, r.have[m])'
    BY <1>9, <2>1, <2>2, <2>4 DEF CardsMatched
  <2>8. \A m \in Wanted' \ r.todo : Ready(m, r.have[m])'
    BY <1>2, <1>9, <2>1, <2>2, <2>4, <2>5, <2>6 DEF CardsMatched
  <2>9. r.keep = {r.have[m] : m \in Wanted' \ r.todo}
    BY <1>2, <1>9, <2>1, <2>2, <2>6 DEF CardsMatched
  <2>10. CardsMatched(r)'
    BY <1>9, <2>7, <2>8, <2>9 DEF CardsMatched
  <2> QED BY <1>9, <2>10 DEF DemoTrue
<1> QED BY <1>6, <1>7, <1>8, <1>9, <1>10, DemoMoves

LEMMA ListStaleDemo ==
  ASSUME BootInv, DemoInv, NEW p \in Proc, ListStale(p)
  PROVE  DemoInv'
<1>1. PICK todo : todo = {c.id : c \in demo} \ proc[p].keep
  BY Zenon
<1>2. PICK r : r = [proc[p] EXCEPT !.pc = "demoDrop", !.todo = todo]
  OBVIOUS
<1>3. /\ proc[p].pc = "demoPrune" /\ Moves(p, r) /\ UNCHANGED <<shelf, demo, madeCards>>
  BY <1>1, <1>2, Zenon DEF ListStale, demoVars
<1>4. CardsKept' /\ proc[p].pc \in Demoing
  BY <1>3, CardsSame DEF DemoInv, Demoing
<1>5. /\ r.pc = "demoDrop" /\ r.alone = proc[p].alone /\ r.todo = todo
      /\ r.have = proc[p].have /\ r.keep = proc[p].keep
  BY <1>2, OwnTruth DEF ProcFields
<1>6. ASSUME Alone(p) PROVE DemoTrue(r)'
  <2>1. CardsMatched(proc[p])
    BY <1>3, <1>6 DEF DemoInv, DemoTrue
  <2>2. proc[p].todo = {} /\ \A c \in demo : c.id \in proc[p].keep \cup todo
    BY <1>1, <1>3, <2>1 DEF CardsMatched
  <2>3. todo \cap proc[p].keep = {}
    BY <1>1
  <2>4. CardsWeeded(r)
    BY <1>5, <2>1, <2>2, <2>3 DEF CardsMatched, CardsWeeded
  <2>5. DemoTrue(r)
    BY <1>5, <2>4 DEF DemoTrue
  <2> QED BY <1>3, <2>5, CardsStand
<1> QED BY <1>3, <1>4, <1>5, <1>6, DemoMoves

LEMMA RemoveStaleDemo ==
  ASSUME BootInv, DemoInv, NEW p \in Proc, RemoveStale(p)
  PROVE  DemoInv'
<1>1. proc[p].pc = "demoDrop" /\ UNCHANGED <<shelf, madeCards>> /\ proc[p].pc \in Demoing /\ CardsKept
  BY DEF RemoveStale, Demoing, DemoInv
<1>2. Alone(p) => CardsWeeded(proc[p])
  BY <1>1 DEF DemoInv, DemoTrue
<1>3. CASE proc[p].todo = {}
  <2>1. Proceeds(p, "scenario") /\ UNCHANGED <<demo, lock>>
    BY <1>3, Zenon DEF RemoveStale
  <2>2. PICK r : /\ Moves(p, r) /\ r.pc = "scenario" /\ r.alone = proc[p].alone /\ r.todo = proc[p].todo
                 /\ r.have = proc[p].have /\ r.keep = proc[p].keep /\ r.ver = proc[p].ver
    BY <2>1, ProceedsDemo
  <2>3. ASSUME Alone(p) PROVE DemoTrue(r)
    <3>1. CardsWeeded(r)
      BY <1>1, <1>2, <1>3, <2>2, <2>3 DEF CardsWeeded
    <3> QED BY <2>2, <3>1 DEF DemoTrue
  <2>4. Alone(p) => DemoTrue(r)'
    BY <1>1, <2>1, <2>3, CardsStand
  <2> QED BY <1>1, <2>1, <2>2, <2>4, CardsSame, DemoMoves
<1>4. CASE proc[p].todo # {}
  <2>1. PICK d \in proc[p].todo :
          IF \E c \in demo : c.id = d
          THEN /\ demo' = {c \in demo : c.id # d}
               /\ Moves(p, [proc[p] EXCEPT !.todo = @ \ {d}]) /\ UNCHANGED lock
          ELSE Aborts(p) /\ UNCHANGED demo
    BY <1>4, Zenon DEF RemoveStale
  <2>2. CASE ~\E c \in demo : c.id = d
    <3>1. Aborts(p) /\ UNCHANGED demo
      BY <2>1, <2>2, Zenon
    <3> QED BY <1>1, <3>1, AbortsDemo
  <2>3. CASE \E c \in demo : c.id = d
    <3>1. PICK r : r = [proc[p] EXCEPT !.todo = @ \ {d}]
      OBVIOUS
    <3>2. Moves(p, r) /\ demo' = {c \in demo : c.id # d}
      BY <2>1, <2>3, <3>1
    <3>3. /\ r.pc = "demoDrop" /\ r.alone = proc[p].alone /\ r.todo = proc[p].todo \ {d}
          /\ r.have = proc[p].have /\ r.keep = proc[p].keep
      BY <1>1, <3>1, OwnTruth DEF ProcFields
    <3>4. CardsKept'
      BY <1>1, <3>2 DEF CardsKept
    <3>5. ASSUME Alone(p) PROVE DemoTrue(r)'
      <4>1. CardsWeeded(proc[p])
        BY <1>2, <3>5
      <4>2. Wanted' = Wanted /\ shelf' = shelf
        BY <1>1 DEF Wanted
      <4>3. \A n \in Wanted : proc[p].have[n] # d
        BY <1>1, <4>1 DEF CardsWeeded
      <4>4. \A n \in Wanted' : Ready(n, r.have[n])'
        BY <3>2, <3>3, <4>1, <4>2, <4>3 DEF CardsWeeded, Ready
      <4>5. r.keep = {r.have[n] : n \in Wanted'} /\ r.todo \cap r.keep = {}
        BY <1>1, <3>3, <4>1, <4>2 DEF CardsWeeded
      <4>6. \A c \in demo' : c.id \in r.keep \cup r.todo
        BY <1>1, <3>2, <3>3, <4>1 DEF CardsWeeded
      <4>7. CardsWeeded(r)'
        BY <3>3, <4>4, <4>5, <4>6 DEF CardsWeeded
      <4> QED BY <3>3, <4>7 DEF DemoTrue
    <3> QED BY <1>1, <3>2, <3>3, <3>4, <3>5, DemoMoves
  <2> QED BY <2>2, <2>3
<1> QED BY <1>3, <1>4

LEMMA SyncItemDemo ==
  ASSUME BootInv, DemoInv, NEW p \in Proc, SyncItem(p)
  PROVE  DemoInv'
<1>1. proc[p].pc \in {"scenario", "pack"} /\ UNCHANGED <<shelf, demo, madeCards>>
  BY DEF SyncItem, Item
<1>2. CardsKept' /\ proc[p].pc \in Demoing
  BY <1>1, CardsSame DEF DemoInv, Demoing
<1>3. Alone(p) => CardsWeeded(proc[p])
  BY <1>1 DEF DemoInv, DemoTrue
<1>4. \E r : /\ Moves(p, r) /\ r.pc \in {"scenario", "pack", "targets"} /\ r.alone = proc[p].alone
             /\ r.have = proc[p].have
  <2>1. CASE ~proc[p].looked
    <3>1. PICK r : r = [proc[p] EXCEPT !.looked = TRUE, !.saw = (items[proc[p].pc] # <<>>), !.ver = shelf.ver]
      OBVIOUS
    <3>2. Moves(p, r)
      BY <2>1, <3>1 DEF SyncItem
    <3>3. r.pc = proc[p].pc /\ r.alone = proc[p].alone /\ r.have = proc[p].have
      BY <3>1, OwnTruth DEF ProcFields
    <3> QED BY <1>1, <3>2, <3>3
  <2>2. CASE proc[p].looked
    <3>1. PICK pc : pc = IF proc[p].pc = "scenario" THEN "pack" ELSE "targets"
      OBVIOUS
    <3>2. Proceeds(p, pc)
      BY <2>2, <3>1 DEF SyncItem
    <3> QED BY <3>1, <3>2, ProceedsDemo
  <2> QED BY <2>1, <2>2
<1>5. PICK r : /\ Moves(p, r) /\ r.pc \in {"scenario", "pack", "targets"} /\ r.alone = proc[p].alone
               /\ r.have = proc[p].have
  BY <1>4
<1>6. ASSUME Alone(p), r.pc \in Demoing PROVE DemoTrue(r)'
  <2>1. r.pc \in {"scenario", "pack"}
    BY <1>5, <1>6 DEF Demoing
  <2>2. CardsWeeded(r)
    BY <1>1, <1>3, <1>5, <1>6, <2>1 DEF CardsWeeded
  <2>3. DemoTrue(r)
    BY <2>1, <2>2 DEF DemoTrue
  <2> QED BY <1>1, <2>3, CardsStand
<1> QED BY <1>2, <1>5, <1>6, DemoMoves

LEMMA ReadCardsDemo ==
  ASSUME BootInv, DemoInv, NEW p \in Proc, ReadCards(p)
  PROVE  DemoInv'
<1>1. UNCHANGED <<shelf, demo, madeCards>>
  BY Zenon DEF ReadCards, demoVars
<1>2. PICK have \in [Names -> {0} \cup {c.id : c \in demo}] :
       /\ \A n \in Names : IF \E c \in demo : c.name = n THEN \E c \in demo : c.name = n /\ c.id = have[n]
                           ELSE have[n] = 0
       /\ proc' = [q \in Proc |->
            IF q = p THEN [proc[p] EXCEPT !.pc = "demoNext", !.todo = Selected(shelf.cards), !.have = have,
                             !.ver = shelf.ver, !.keep = {}, !.alone = ~\E r \in Proc \ {p} : Syncing(r)]
            ELSE [proc[q] EXCEPT !.alone = FALSE]]
  BY Zenon DEF ReadCards
<1>3. PICK alone : alone = ~\E r \in Proc \ {p} : Syncing(r)
  BY Zenon
<1>4. PICK r : r = [proc[p] EXCEPT !.pc = "demoNext", !.todo = Selected(shelf.cards), !.have = have,
                             !.ver = shelf.ver, !.keep = {}, !.alone = alone]
  BY Zenon
<1>5. proc'[p] = r /\ \A q \in Proc \ {p} : proc'[q] = [proc[q] EXCEPT !.alone = FALSE]
  BY <1>2, <1>3, <1>4, Zenon
<1>6. /\ r.pc = "demoNext" /\ r.todo = Wanted /\ r.have = have /\ r.ver = shelf.ver /\ r.keep = {}
      /\ r.alone = alone
  BY <1>4, OwnTruth DEF ProcFields, Wanted
<1>7. \A q \in Proc \ {p} : DOMAIN proc[q] = ProcFields
  BY OwnTruth, Zenon
<1>8. \A q \in Proc \ {p} : proc'[q].alone = FALSE /\ proc'[q].pc = proc[q].pc
  <2>1. SUFFICES ASSUME NEW q \in Proc \ {p} PROVE proc'[q].alone = FALSE /\ proc'[q].pc = proc[q].pc
    OBVIOUS
  <2>2. DOMAIN proc[q] = ProcFields /\ proc'[q] = [proc[q] EXCEPT !.alone = FALSE]
    BY <1>5, <1>7
  <2> QED BY <2>2 DEF ProcFields
<1>9. \A n \in Names : have[n] # 0 => Card(n, have[n])
  BY <1>2, Zenon DEF Card
<1>10. CardsMatched(r)
  <2>1. have \in [Names -> {0} \cup {c.id : c \in demo}]
    BY <1>2, Zenon
  <2>2. have = [n \in Names |-> have[n]]
    BY <2>1
  <2> QED BY <1>6, <1>9, <2>2 DEF CardsMatched
<1>11. DemoTrue(r)
  BY <1>6, <1>10 DEF DemoTrue
<1>12. DemoTrue(r)'
  BY <1>1, <1>11, CardsStand
<1>13. CardsKept'
  BY <1>1, CardsSame DEF DemoInv
<1>14. ASSUME NEW q \in Proc, Alone(q)' PROVE DemoTrue(proc[q])' /\ \A o \in Proc \ {q} : proc'[o].pc \notin Demoing
  <2>1. q = p
    BY <1>8, <1>14 DEF Alone
  <2>2. alone
    BY <1>5, <1>6, <1>14, <2>1 DEF Alone
  <2>3. \A o \in Proc \ {p} : proc[o].pc \notin Demoing
    BY <1>3, <2>2 DEF Syncing, Demoing
  <2> QED BY <1>5, <1>8, <1>12, <2>1, <2>3
<1> QED BY <1>13, <1>14 DEF DemoInv

LEMMA OwnersDemo ==
  ASSUME BootInv, DemoInv, SetTimezone \/ EditShelf \/ RepairDuplicates \/ SourceChanges \/ UNCHANGED storageVars
  PROVE  DemoInv'
<1>1. CASE UNCHANGED <<shelf, demo, madeCards, proc>>
  <2>1. CardsKept'
    BY <1>1, CardsSame DEF DemoInv
  <2>2. ASSUME NEW q \in Proc, Alone(q)' PROVE DemoTrue(proc[q])' /\ \A o \in Proc \ {q} : proc'[o].pc \notin Demoing
    <3>1. Alone(q)
      BY <1>1, <2>2 DEF Alone
    <3>2. PICK s : s = proc[q] /\ s = proc'[q]
      BY <1>1
    <3>3. DemoTrue(s)'
      BY <1>1, <3>1, <3>2, CardsStand DEF DemoInv
    <3> QED BY <1>1, <3>1, <3>2, <3>3 DEF DemoInv
  <2> QED BY <2>1, <2>2 DEF DemoInv
<1>2. CASE EditShelf
  <2>1. PICK n \in Names :
          shelf' \in {[shelf EXCEPT !.cards = IF n \in @ THEN @ \ {n} ELSE @ \cup {n}, !.ver = @ + 1]}
    BY <1>2, Zenon DEF EditShelf
  <2>2. UNCHANGED <<demo, madeCards>> /\ proc' = [p \in Proc |-> [proc[p] EXCEPT !.alone = FALSE]]
    BY <1>2, Zenon DEF EditShelf
  <2>3. CardsKept
    BY DEF DemoInv
  <2>4. shelf' = [shelf EXCEPT !.cards = IF n \in @ THEN @ \ {n} ELSE @ \cup {n}, !.ver = @ + 1]
    BY <2>1
  <2>5. DOMAIN shelf' = {"cards", "ver"} /\ shelf'.cards \subseteq Names
    BY <2>3, <2>4 DEF CardsKept
  <2>6. CardsKept'
    BY <2>2, <2>3, <2>5 DEF CardsKept
  <2>7. \A q \in Proc : ~Alone(q)'
    <3>1. SUFFICES ASSUME NEW q \in Proc PROVE proc'[q].alone = FALSE
      BY DEF Alone
    <3>2. DOMAIN proc[q] = ProcFields
      BY OwnTruth
    <3> QED BY <2>2, <3>2 DEF ProcFields
  <2> QED BY <2>6, <2>7 DEF DemoInv
<1>3. SetTimezone \/ RepairDuplicates \/ SourceChanges \/ UNCHANGED storageVars => UNCHANGED <<shelf, demo, madeCards, proc>>
  BY Zenon DEF SetTimezone, RepairDuplicates, SourceChanges, demoVars, storageVars
<1> QED BY <1>1, <1>2, <1>3

LEMMA DemoBegins ==
  ASSUME StorageInit
  PROVE  DemoInv
<1>1. shelf \in [cards : SUBSET Names, ver : {1}] /\ demo = {} /\ madeCards = 0 /\ proc = [p \in Proc |-> Idle]
  BY DEF StorageInit
<1>2. CardsKept
  BY <1>1 DEF CardsKept
<1>3. \A p \in Proc : ~Alone(p)
  BY <1>1 DEF Alone, Idle
<1> QED BY <1>2, <1>3 DEF DemoInv

LEMMA DemoGoesOn ==
  ASSUME BootInv, DemoInv, StorageNext \/ UNCHANGED storageVars
  PROVE  DemoInv'
<1>1. ASSUME NEW p \in Proc, (\E kind \in {"api", "worker", "copy"} : Start(p, kind)) \/ StartServices(p) \/ Stop(p)
      PROVE DemoInv'
  BY <1>1, StartElsewhere, InitializeElsewhere
<1>2. ASSUME NEW p \in Proc, InitializeStep(p) PROVE DemoInv'
  BY <1>2, StartElsewhere, InitializeElsewhere, LedgerElsewhere, LookElsewhere DEF InitializeStep
<1>3. ASSUME NEW p \in Proc, CopyStep(p) PROVE DemoInv'
  BY <1>3, InitializeElsewhere, RowsElsewhere, StartElsewhere DEF CopyStep
<1>4. ASSUME NEW p \in Proc, RowStep(p) PROVE DemoInv'
  BY <1>4, RowsElsewhere
<1>5. ASSUME NEW p \in Proc, DemoStep(p) PROVE DemoInv'
  BY <1>5, RowsElsewhere, ReadCardsDemo, NextCardDemo, CreateCardDemo, SyncCredentialDemo, ListStaleDemo,
     RemoveStaleDemo, SyncItemDemo DEF DemoStep
<1> QED BY <1>1, <1>2, <1>3, <1>4, <1>5, OwnersDemo DEF StorageNext

----------------------------------------------------------------------------
\* A demo synchronization that nothing interfered with leaves one card for each selected card.
LEMMA DemoWhole ==
  ASSUME DemoInv, NEW p \in Proc, proc[p].alone, proc[p].pc \in {"scenario", "pack"}
  PROVE  /\ {[name |-> c.name, ver |-> c.ver, secret |-> c.secret] : c \in demo}
              = {[name |-> n, ver |-> shelf.ver, secret |-> shelf.ver] : n \in Selected(shelf.cards)}
         /\ Cardinality(demo) = Cardinality(Selected(shelf.cards))
<1>1. PICK have : have = proc[p].have
  OBVIOUS
<1>2. /\ \A n \in Wanted : Ready(n, have[n])
      /\ \A c \in demo : c.id \in {have[n] : n \in Wanted}
  <2>1. Alone(p)
    BY DEF Alone, Demoing
  <2>2. CardsWeeded(proc[p])
    BY <2>1 DEF DemoInv, DemoTrue
  <2> QED BY <1>1, <2>2 DEF CardsWeeded
<1>3. \A c, d \in demo : c.id = d.id => c = d
  BY DEF DemoInv, CardsKept
<1>4. \A n \in Wanted : \E c \in demo : c.id = have[n] /\ c.name = n /\ c.ver = shelf.ver /\ c.secret = shelf.ver
  BY <1>2 DEF Ready
<1>5. \A c \in demo : c.name \in Wanted /\ c.id = have[c.name] /\ c.ver = shelf.ver /\ c.secret = shelf.ver
  <2>1. TAKE c \in demo
  <2>2. PICK n \in Wanted : c.id = have[n]
    BY <1>2
  <2>3. PICK d \in demo : d.id = have[n] /\ d.name = n /\ d.ver = shelf.ver /\ d.secret = shelf.ver
    BY <1>4
  <2>4. c = d
    BY <1>3, <2>2, <2>3
  <2> QED BY <2>2, <2>3, <2>4
<1>6. {[name |-> c.name, ver |-> c.ver, secret |-> c.secret] : c \in demo}
        = {[name |-> n, ver |-> shelf.ver, secret |-> shelf.ver] : n \in Wanted}
  <2>1. ASSUME NEW c \in demo
        PROVE  [name |-> c.name, ver |-> c.ver, secret |-> c.secret]
                 \in {[name |-> n, ver |-> shelf.ver, secret |-> shelf.ver] : n \in Wanted}
    BY <1>5
  <2>2. ASSUME NEW n \in Wanted
        PROVE  [name |-> n, ver |-> shelf.ver, secret |-> shelf.ver]
                 \in {[name |-> c.name, ver |-> c.ver, secret |-> c.secret] : c \in demo}
    <3>1. PICK c \in demo : c.name = n /\ c.ver = shelf.ver /\ c.secret = shelf.ver
      BY <1>4
    <3> QED BY <3>1
  <2> QED BY <2>1, <2>2
<1>7. IsFiniteSet(Wanted)
  <2>1. IsFiniteSet(Names)
    <3>1. 1 \in Int /\ 3 \in Int
      OBVIOUS
    <3>2. IsFiniteSet(1 .. 3)
      BY <3>1, FS_Interval, Zenon
    <3> QED BY <3>2 DEF Names
  <2>2. Wanted \subseteq Names
    BY WantedNames DEF DemoInv
  <2> QED BY <2>1, <2>2, FS_Subset
<1>8. ExistsBijection(Wanted, demo)
  <2>1. PICK card : card = [n \in Wanted |-> CHOOSE c \in demo : c.name = n]
    BY Zenon
  <2>2. \A n \in Wanted : card[n] \in demo /\ card[n].name = n
    BY <1>4, <2>1
  <2>3. card \in [Wanted -> demo]
    BY <2>1, <2>2
  <2>4. \A m, n \in Wanted : card[m] = card[n] => m = n
    BY <2>2
  <2>5. \A c \in demo : \E n \in Wanted : card[n] = c
    <3>1. TAKE c \in demo
    <3>2. c.name \in Wanted /\ c.id = have[c.name]
      BY <1>5
    <3>3. card[c.name] \in demo /\ card[c.name].name = c.name
      BY <2>2, <3>2
    <3>4. card[c.name].id = have[c.name]
      BY <1>5, <3>3
    <3>5. card[c.name] = c
      BY <1>3, <3>2, <3>3, <3>4
    <3> QED BY <3>2, <3>5
  <2>6. card \in Bijection(Wanted, demo)
    BY <2>3, <2>4, <2>5 DEF Bijection, Injection, Surjection, IsInjective
  <2> QED BY <2>6 DEF ExistsBijection
<1>9. Cardinality(demo) = Cardinality(Wanted)
  BY <1>7, <1>8, FS_Bijection
<1> QED BY <1>6, <1>9 DEF Wanted

LEMMA BootedWhole ==
  ASSUME BootInv, DemoInv
  PROVE  StartsWhole
<1>1. SharedTrue
  BY DEF BootInv
<1>2. ASSUME NEW p \in Proc, proc[p].pc = "serving"
      PROVE  /\ Range(Revisions) \subseteq ledger
             /\ {"tables", "author", "fingerprint", "unique"} \subseteq ddl
             /\ ~legacy /\ ~privacy.unsafe
             /\ proc[p].began \in {"running", "failed"} => copy.status = "completed"
             /\ proc[p].kind = "api" => proc[p].id = rows.identity
             /\ dialect = "postgresql" => {"vector", "embedding"} \subseteq ddl /\ cutover = "completed"
  <2>1. proc[p].pc \in After /\ proc[p].pc \in Told /\ proc[p].pc \notin Early \cup {"ledger", "columns"}
        /\ proc[p].kind # "copy"
    BY <1>2, OwnTruth DEF After, Told, Early, Placed
  <2>2. /\ \A j \in DOMAIN Revisions : Revisions[j] \in ledger
        /\ {"tables", "author", "fingerprint", "unique"} \subseteq ddl
        /\ dialect = "postgresql" => {"vector", "embedding"} \subseteq ddl
    BY <2>1, OwnTruth DEF SchemaSeen
  <2>3. /\ ~legacy /\ ~privacy.unsafe /\ (dialect = "postgresql" => cutover = "completed")
        /\ proc[p].began \in {"running", "failed"} => copy.status = "completed"
    BY <2>1, OwnTruth DEF InitTrue
  <2>4. proc[p].kind = "api" => proc[p].id = rows.identity
    BY <2>1, OwnTruth DEF RowsSeen
  <2>5. Range(Revisions) \subseteq ledger
    BY <2>2 DEF Range
  <2> QED BY <2>2, <2>3, <2>4, <2>5
<1>3. /\ dialect = "postgresql" /\ "unique" \in ddl => ~dups
      /\ "embedding" \in ddl => "vector" \in ddl
      /\ ~merged
      /\ (chosen => tz = "utc")
  BY <1>1 DEF SharedTrue
<1> QED BY <1>2, <1>3, DemoWhole DEF StartsWhole

\* However many processes start, fail, stop and start again on one database, in whatever order their
\* transactions meet, whichever serves has the whole schema and nothing retired or unsafe, no copy is
\* merged with rows of another process, and an undisturbed demo synchronization is exact
\* (persistence/database.py, create_app, sqlite_to_postgres_migration.py, public_demo.py).
THEOREM StartsAreWhole == StorageSpec => []StartsWhole
<1>1. StorageInit => BootInv /\ DemoInv
  BY BootBegins, DemoBegins
<1>2. BootInv /\ DemoInv /\ [StorageNext]_storageVars => BootInv' /\ DemoInv'
  BY BootGoesOn, StillBoots, DemoGoesOn
<1>3. BootInv /\ DemoInv => StartsWhole
  BY BootedWhole
<1> QED BY <1>1, <1>2, <1>3, PTL DEF StorageSpec

=============================================================================
