---------------------------- MODULE ModelGateway ----------------------------
(* Calls to model providers: the utility gateway over its free pool and paid  *)
(* fallback (utility_gateway_router.py, utility_gateway_live.py), the room     *)
(* director's free-only pool (room_director_pool.py), the Character's own      *)
(* model, the models that see (providers/openai_multimodal.py), and what they  *)
(* share: the provider client with its retries (providers/openai_compatible.py), *)
(* the structured-output modes (provider_io.py), the ceiling on HTTP attempts  *)
(* (model_attempt_budget.py) and the private traces (providers/trace.py).      *)
(*                                                                            *)
(* All requests belong to one operation of one room and one day.  Money is     *)
(* counted in estimated costs of one call: the live caller reports no cost, so *)
(* the estimate is what a paid call is charged.  Times are only ahead or past. *)
EXTENDS Naturals, Sequences, FiniteSets, FiniteSetsExt, SequencesExt

CONSTANTS Member,      \* members of the utility pool
          OpenRouter,  \* the ones whose key also pays for the fallback
          NoMember,
          Qualified,   \* members the room director may use
          Asker,       \* requests running at the same time
          Budget,      \* daily_budget_usd, in calls
          Ceiling,     \* HTTP attempts one operation may make
          MaxRetries,  \* max_retries of the Character's own model
          MaxAttempts, \* room_director.max_attempts
          MaxAsked     \* bound: requests made

ASSUME GatewayAssumption ==
  /\ OpenRouter \subseteq Member /\ Qualified \subseteq Member /\ NoMember \notin Member
  /\ {Budget, Ceiling, MaxRetries, MaxAttempts, MaxAsked} \subseteq Nat
  /\ IsFiniteSet(Member) /\ IsFiniteSet(Asker) /\ Asker # {}

VARIABLES health,  \* utility_provider_states
          keyed,   \* members whose credential is in the vault
          paying,  \* paid_fallback.enabled
          spent,   \* utility_usage: cost of today's paid calls
          can,     \* provider_model_capabilities: the modes a member may be asked for
          used,    \* model_attempt_buckets of the operation
          ask,     \* the requests
          trace,   \* provider_traces: the row of each request's latest call
          strays,  \* calls whose caller no longer waits for them
          asked,
          posts,   \* history: HTTP attempts made
          bought   \* history: paid calls whose reply was taken

gatewayVars == <<health, keyed, paying, spent, can, used, ask, trace, strays, asked, posts, bought>>
poolVars == <<health, keyed, paying, spent, can, bought>>

NoHealth == [status |-> "unknown", cool |-> "none", reset |-> "none"]
Modes == <<"schema", "object", "prompt">>
NoAsk == [pc |-> "idle", kind |-> "none", routes |-> <<>>, mode |-> 3, tries |-> 0,
          outcome |-> "none", toolFailed |-> FALSE, lost |-> FALSE]
NoTrace == "none"

ModelGatewayInit ==
  /\ health = [m \in Member |-> NoHealth]
  /\ keyed \in SUBSET Member /\ paying \in BOOLEAN
  /\ spent = 0 /\ can = [m \in Member |-> {"schema", "object", "prompt"}]
  /\ used = 0 /\ ask = [a \in Asker |-> NoAsk]
  /\ trace = [a \in Asker |-> NoTrace]
  /\ strays = 0 /\ asked = 0 /\ posts = 0 /\ bought = 0

----------------------------------------------------------------------------
(* Routes *)

Asks(a, r) == ask' = [ask EXCEPT ![a] = r]
Route(a) == Head(ask[a].routes)

\* The status _members works with: an exhausted or cooling member whose time has come is unknown.
StatusOf(m) ==
  LET h == health[m] IN
  IF \/ h.status = "exhausted" /\ h.reset = "past"
     \/ h.status = "cooling_down" /\ h.cool # "ahead"
  THEN "unknown" ELSE h.status

Eligible(m) ==
  /\ m \in keyed /\ health[m].cool # "ahead"
  /\ StatusOf(m) \notin {"unavailable", "exhausted", "cooling_down"}

\* _free_routes: by the strategy, either the fixed priority or health, error rate, latency and
\* priority decide the order; any order is possible.
FreeRoutes(members) == SetToSeqs({m \in members : Eligible(m)})

\* _paid_route: the fallback is on, the day's budget has room for one more call, and a key exists.
PaidMembers == {m \in OpenRouter \cap keyed : paying /\ spent + 1 <= Budget}

FreeTier(s) == [i \in DOMAIN s |-> [member |-> s[i], tier |-> "free"]]

\* A request begins with its first route; without one it comes to nothing.
Begun(kind, routes, mode) ==
  IF routes = <<>> THEN NoAsk
  ELSE [NoAsk EXCEPT !.pc = "start", !.kind = kind, !.routes = routes, !.mode = mode]

\* invoke: the routes are fixed here, the paid one last.
UtilityRoutes(s, p) ==
  FreeTier(s) \o (IF p = NoMember THEN <<>> ELSE <<[member |-> p, tier |-> "paid"]>>)

AskUtility(a) ==
  /\ ask[a].pc = "idle" /\ asked < MaxAsked /\ asked' = asked + 1
  /\ \E s \in FreeRoutes(Member), p \in IF PaidMembers = {} THEN {NoMember} ELSE PaidMembers :
       Asks(a, Begun("utility", UtilityRoutes(s, p), 1))
  /\ UNCHANGED <<poolVars, used, trace, strays, posts>>

\* RoomDirectorPool.decide: qualified free members, at most max_attempts of them.
Shortlist(s) == FreeTier(SubSeq(s, 1, IF Len(s) < MaxAttempts THEN Len(s) ELSE MaxAttempts))

AskDirector(a) ==
  /\ ask[a].pc = "idle" /\ asked < MaxAsked /\ asked' = asked + 1
  /\ \E s \in FreeRoutes(Qualified) : Asks(a, Begun("director", Shortlist(s), 3))
  /\ UNCHANGED <<poolVars, used, trace, strays, posts>>

\* A model of its own is the only route.
Own(m) == <<[member |-> m, tier |-> "own"]>>

\* The Character's own model: one route and its own retries; the prompt may carry the results of
\* tools, some of which failed.
AskCharacter(a) ==
  /\ ask[a].pc = "idle" /\ asked < MaxAsked /\ asked' = asked + 1
  /\ \E failed \in BOOLEAN :
       Asks(a, [NoAsk EXCEPT !.pc = "start", !.kind = "character", !.tries = MaxRetries,
                  !.routes = Own(NoMember), !.toolFailed = failed])
  /\ UNCHANGED <<poolVars, used, trace, strays, posts>>

----------------------------------------------------------------------------
(* The provider client *)

\* complete_structured skips a mode the member is known not to support.
ModeAllowed(a) ==
  LET m == Route(a).member IN IF m = NoMember THEN TRUE ELSE Modes[ask[a].mode] \in can[m]

\* record_event of a request.
Requested(a) == IF ask[a].toolFailed THEN "error" ELSE "pending"

\* ProviderTrace.start; a sink that fails is ignored.
StartCall(a) ==
  /\ ask[a].pc = "start"
  /\ IF ModeAllowed(a)
     THEN \E lost \in BOOLEAN :
            /\ trace' = [trace EXCEPT ![a] = IF lost THEN NoTrace ELSE Requested(a)]
            /\ Asks(a, [ask[a] EXCEPT !.pc = "post", !.outcome = "none", !.lost = lost])
     ELSE Asks(a, [ask[a] EXCEPT !.mode = @ + 1]) /\ UNCHANGED trace
  /\ UNCHANGED <<poolVars, used, strays, asked, posts>>

\* ModelAttemptBudget.reserve: one transaction; the count never passes the ceiling.
Reserved == used < Ceiling

\* One HTTP attempt.  A refused reservation leaves through `except ProviderError`, which writes no
\* trace.
PostRequest(a) ==
  /\ ask[a].pc = "post"
  /\ IF Reserved
     THEN /\ used' = used + 1 /\ posts' = posts + 1
          /\ Asks(a, [ask[a] EXCEPT !.pc = "wait"])
     ELSE /\ Asks(a, [ask[a] EXCEPT !.pc = "answered", !.outcome = "budget"])
          /\ UNCHANGED <<used, posts>>
  /\ UNCHANGED <<poolVars, trace, strays, asked>>

\* classify_provider_response, the request errors of httpx and the shapes of a completion.
Retryable == {"rate", "down", "empty"}
Outcomes == Retryable \cup {"ok", "timeout", "quota", "auth", "unsupported", "protocol"}
Classified(a) == IF ask[a].mode = 3 THEN Outcomes \ {"unsupported"} ELSE Outcomes

\* Mutant: only a row that is still pending is finished.
FinishedIfPending(a, outcome) ==
  IF trace[a] # "pending" THEN trace[a] ELSE IF outcome = "ok" THEN "succeeded" ELSE "error"

\* record_event of a response or an error, whatever became of the row meanwhile.
Finished(a, outcome) ==
  IF outcome = "ok" /\ ~(ask[a].toolFailed /\ trace[a] # NoTrace) THEN "succeeded" ELSE "error"

\* trace.retry; the same request is posted again.
RetryRequest(a) ==
  /\ ask[a].pc = "wait" /\ ask[a].tries > 0
  /\ Asks(a, [ask[a] EXCEPT !.pc = "post", !.tries = @ - 1])
  /\ UNCHANGED <<poolVars, used, trace, strays, asked, posts>>

EndCall(a) ==
  /\ ask[a].pc = "wait"
  /\ \E outcome \in Classified(a), lost \in BOOLEAN :
       /\ outcome \in Retryable => ask[a].tries = 0
       /\ trace' = [trace EXCEPT ![a] = IF lost THEN @ ELSE Finished(a, outcome)]
       /\ Asks(a, [ask[a] EXCEPT !.pc = "answered", !.outcome = outcome, !.lost = @ \/ lost])
  /\ UNCHANGED <<poolVars, used, strays, asked, posts>>

\* future.result gives up after eight seconds; the thread goes on, and may even post again.
StopWaiting(a) ==
  /\ ask[a].kind = "utility" /\ ask[a].pc \in {"post", "wait"}
  /\ strays' = strays + 1
  /\ Asks(a, [ask[a] EXCEPT !.pc = "answered", !.outcome = "timeout", !.lost = TRUE])
  /\ UNCHANGED <<poolVars, used, trace, asked, posts>>

StrayPosts ==
  /\ strays > 0
  /\ \/ Reserved /\ used' = used + 1 /\ posts' = posts + 1 /\ UNCHANGED strays
     \/ strays' = strays - 1 /\ UNCHANGED <<used, posts>>
  /\ UNCHANGED <<poolVars, ask, trace, asked>>

----------------------------------------------------------------------------
(* What the callers make of an answer *)

\* _save_state: the row is overwritten as a whole.
Saved(m, status, cool, reset) == [health EXCEPT ![m] = [status |-> status, cool |-> cool, reset |-> reset]]

\* _apply_failure: a quota failure cools the member down for two minutes or until its reset; a
\* refused reservation reaches it as an unavailable provider.
Failed(m, outcome) ==
  CASE outcome = "quota" -> {Saved(m, "exhausted", "ahead", r) : r \in {"none", "ahead"}}
    [] outcome = "rate"  -> {Saved(m, "cooling_down", "ahead", r) : r \in {"none", "ahead"}}
    [] outcome = "auth"  -> {Saved(m, "unavailable", "none", "none")}
    [] OTHER             -> {Saved(m, "degraded", "none", "none")}

NextRoute(a) ==
  IF Len(ask[a].routes) = 1 THEN NoAsk
  ELSE [NoAsk EXCEPT !.pc = "start", !.kind = ask[a].kind, !.routes = Tail(ask[a].routes),
                     !.mode = IF ask[a].kind = "utility" THEN 1 ELSE 3]

\* observe: what a rejected mode, or a reply in it, says of the model.
Rejected(a) == [can EXCEPT ![Route(a).member] = @ \ {Modes[ask[a].mode]}]
Learnt(a) == [can EXCEPT ![Route(a).member] = @ \cup {Modes[ask[a].mode]}]

\* complete_structured: an unsupported mode is remembered, a protocol error only tries a weaker
\* mode.
WeakerMode(a) ==
  /\ ask[a].pc = "answered" /\ ask[a].kind = "utility" /\ ask[a].mode < 3
  /\ ask[a].outcome \in {"unsupported", "protocol", "empty"}
  /\ Asks(a, [ask[a] EXCEPT !.pc = "start", !.mode = @ + 1])
  /\ can' = IF ask[a].outcome = "unsupported" THEN Rejected(a) ELSE can
  /\ UNCHANGED <<health, keyed, paying, spent, used, trace, strays, asked, posts, bought>>


\* The route failed, or its text was no JSON of the schema: no cost is recorded.
FailRoute(a) ==
  /\ ask[a].pc = "answered" /\ ask[a].kind = "utility"
  /\ \/ ask[a].outcome \in {"rate", "down", "timeout", "quota", "auth", "budget", "ok"}
     \/ ask[a].outcome \in {"protocol", "empty", "unsupported"} /\ ask[a].mode = 3
  /\ health' \in Failed(Route(a).member, ask[a].outcome)
  /\ can' = IF ask[a].outcome = "ok" THEN Learnt(a) ELSE can
  /\ Asks(a, NextRoute(a))
  /\ UNCHANGED <<keyed, paying, spent, used, trace, strays, asked, posts, bought>>

\* A paid reply that names no cost is charged the estimate.
Charged(tier) == IF tier = "paid" THEN 1 ELSE 0

AcceptReply(a) ==
  /\ ask[a].pc = "answered" /\ ask[a].kind = "utility" /\ ask[a].outcome = "ok"
  /\ health' = Saved(Route(a).member, "healthy", "none", "none")
  /\ can' = Learnt(a)
  /\ spent' = spent + Charged(Route(a).tier)
  /\ bought' = IF Route(a).tier = "paid" THEN bought + 1 ELSE bought
  /\ Asks(a, NoAsk)
  /\ UNCHANGED <<keyed, paying, used, trace, strays, asked, posts>>

\* observe_director_transport
Observed(m, outcome, valid) ==
  IF outcome = "ok" /\ valid THEN Saved(m, "healthy", "none", "none")
  ELSE Saved(m, "degraded", "none", "none")

\* The director takes the first completion, valid or not; a refused reservation ends the decision,
\* and only failures move on to the next member.  The observation may be lost.
DirectorReply(a) ==
  /\ ask[a].pc = "answered" /\ ask[a].kind = "director"
  /\ IF ask[a].outcome = "budget" THEN UNCHANGED health
     ELSE \E valid \in BOOLEAN :
            health' \in {health, Observed(Route(a).member, ask[a].outcome, valid)}
  /\ Asks(a, IF ask[a].outcome \in {"ok", "budget"} THEN NoAsk ELSE NextRoute(a))
  /\ UNCHANGED <<keyed, paying, spent, can, used, trace, strays, asked, posts, bought>>

CharacterReply(a) ==
  /\ ask[a].pc = "answered" /\ ask[a].kind = "character"
  /\ Asks(a, [ask[a] EXCEPT !.pc = "idle"])
  /\ UNCHANGED <<poolVars, used, trace, strays, asked, posts>>

----------------------------------------------------------------------------
(* Models that see: no reservation, and one trace for all the modes tried *)

\* The mode an analysis begins with or goes on to: the first one allowed.
SeeingMode(m, from) ==
  CHOOSE i \in from..3 : Modes[i] \in can[m] /\ \A j \in from..(i - 1) : Modes[j] \notin can[m]

AskVision(a, m) ==
  /\ ask[a].pc = "idle" /\ asked < MaxAsked /\ asked' = asked + 1
  /\ \E kind \in {"vision", "compare"}, lost \in BOOLEAN :
       /\ trace' = [trace EXCEPT ![a] = IF lost THEN NoTrace ELSE Requested(a)]
       /\ Asks(a, [NoAsk EXCEPT !.pc = "look", !.kind = kind, !.lost = lost,
                     !.mode = IF kind = "vision" THEN SeeingMode(m, 1) ELSE 1,
                     !.routes = Own(m)])
  /\ UNCHANGED <<poolVars, used, strays, posts>>

\* Besides the classified outcomes: no chat completion at all, and no analysis in it.
Seen(a) == (Classified(a) \ {"empty"}) \cup {"garbled", "unparsed"}

\* The request once its call has answered, and when the next mode is tried.
Looked(a, outcome, lost) ==
  [ask[a] EXCEPT !.pc = "idle", !.lost = @ \/ lost, !.outcome = IF outcome = "garbled" THEN "none" ELSE outcome]
LooksAgain(a, over) ==
  [over EXCEPT !.pc = "look", !.outcome = "none", !.mode = SeeingMode(Route(a).member, @ + 1)]

\* analyze: an unsupported mode is traced as an error and the next one tried; a reply that is no
\* chat completion leaves the trace as it is.
VisionReply(a) ==
  /\ ask[a].pc = "look" /\ ask[a].kind = "vision"
  /\ \E outcome \in Seen(a), lost \in BOOLEAN :
       /\ trace' = [trace EXCEPT ![a] = IF lost \/ outcome = "garbled" THEN @ ELSE Finished(a, outcome)]
       /\ Asks(a, IF outcome # "unsupported" THEN Looked(a, outcome, lost)
                  ELSE LooksAgain(a, Looked(a, outcome, lost)))
       /\ can' = CASE outcome = "unsupported" -> Rejected(a)
                   [] outcome \in {"ok", "unparsed"} -> Learnt(a)
                   [] OTHER -> can
  /\ UNCHANGED <<health, keyed, paying, spent, used, strays, asked, posts, bought>>

\* compare_fictional_character_images: one schema request, whose invalid answers leave the trace
\* pending.
CompareReply(a) ==
  /\ ask[a].pc = "look" /\ ask[a].kind = "compare"
  /\ \E outcome \in Seen(a), lost \in BOOLEAN :
       LET silent == outcome \in {"garbled", "unparsed"} IN
       /\ trace' = [trace EXCEPT ![a] = IF lost \/ silent THEN @ ELSE Finished(a, outcome)]
       /\ Asks(a, [ask[a] EXCEPT !.pc = "idle", !.lost = @ \/ lost,
                                  !.outcome = IF silent THEN "none" ELSE outcome])
       /\ can' = IF outcome = "ok" THEN Learnt(a) ELSE can
  /\ UNCHANGED <<health, keyed, paying, spent, used, strays, asked, posts, bought>>

----------------------------------------------------------------------------
(* The rest of the world *)

\* A cooldown or a reset passes.
TimePasses(m) ==
  /\ \/ health[m].cool = "ahead" /\ health' = [health EXCEPT ![m].cool = "past"]
     \/ health[m].reset = "ahead" /\ health' = [health EXCEPT ![m].reset = "past"]
  /\ UNCHANGED <<keyed, paying, spent, can, used, ask, trace, strays, asked, posts, bought>>

\* An unsupported capability is forgotten after fifteen minutes.
Forgotten(m) ==
  /\ \E mode \in {"schema", "object"} \ can[m] : can' = [can EXCEPT ![m] = @ \cup {mode}]
  /\ UNCHANGED <<health, keyed, paying, spent, used, ask, trace, strays, asked, posts, bought>>

\* The super admin stores or clears a member's key, or saves the configuration.
ConfigureCredential(m) ==
  /\ m \notin keyed /\ keyed' = keyed \cup {m}
  /\ UNCHANGED <<health, paying, spent, can, used, ask, trace, strays, asked, posts, bought>>

ClearCredential(m) ==
  /\ m \in keyed /\ keyed' = keyed \ {m}
  /\ UNCHANGED <<health, paying, spent, can, used, ask, trace, strays, asked, posts, bought>>

SaveRuntime ==
  /\ paying' = ~paying
  /\ UNCHANGED <<health, keyed, spent, can, used, ask, trace, strays, asked, posts, bought>>

\* _reconcile_stale_pending: a call silent for five minutes is written off.
WriteOff(a) ==
  /\ trace[a] = "pending" /\ trace' = [trace EXCEPT ![a] = "error"]
  /\ UNCHANGED <<poolVars, used, ask, strays, asked, posts>>

\* clear, or _prune of old rows.
ClearTrace(a) ==
  /\ trace[a] # NoTrace /\ trace' = [trace EXCEPT ![a] = NoTrace]
  /\ Asks(a, [ask[a] EXCEPT !.lost = TRUE])
  /\ UNCHANGED <<poolVars, used, strays, asked, posts>>

GatewayStep ==
  \E a \in Asker :
    \/ AskUtility(a) \/ AskDirector(a) \/ AskCharacter(a)
    \/ StartCall(a) \/ PostRequest(a) \/ RetryRequest(a) \/ EndCall(a) \/ StopWaiting(a)
    \/ WeakerMode(a) \/ FailRoute(a) \/ AcceptReply(a) \/ DirectorReply(a) \/ CharacterReply(a)
    \/ VisionReply(a) \/ CompareReply(a) \/ WriteOff(a) \/ ClearTrace(a)
    \/ \E m \in Member : AskVision(a, m)

ModelGatewayNext ==
  \/ GatewayStep \/ StrayPosts \/ SaveRuntime
  \/ \E m \in Member : TimePasses(m) \/ Forgotten(m) \/ ConfigureCredential(m) \/ ClearCredential(m)

ModelGatewaySpec == ModelGatewayInit /\ [][ModelGatewayNext]_gatewayVars

----------------------------------------------------------------------------
\* The limits on what the models cost and the record of what they did.  Requests that run at the
\* same time may each read the same remaining budget, so the paid calls whose reply was
\* taken exceed the daily budget by at most one call for every other request (_paid_route, _record_usage); the
\* HTTP attempts of an operation, those of abandoned threads included, never pass its ceiling
\* (ModelAttemptBudget.reserve); and a trace that nobody cleared or lost ends as what the call
\* really came to, even when it was written off before the answer arrived.
GatewayKeeps ==
  /\ bought <= Budget + Cardinality(Asker) - 1
  /\ posts <= Ceiling
  /\ \A a \in Asker :
       ask[a].outcome \notin {"none", "budget"} /\ ~ask[a].lost =>
         trace[a] = IF ask[a].outcome = "ok" /\ ~ask[a].toolFailed THEN "succeeded" ELSE "error"
=============================================================================
