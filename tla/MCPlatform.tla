----------------------------- MODULE MCPlatform -----------------------------
(***************************************************************************)
(* Small instances of what the Core does with the messages of a server:    *)
(* the deployments that may hear them, the turn of a Character that        *)
(* answers, and the debug capture of a Super Admin.  focus names what a    *)
(* behaviour is about; the components it is not about stand still.         *)
(***************************************************************************)
EXTENDS Deployments, CharacterTurn, DebugCapture

CONSTANTS m1, m2, m3  \* the messages of a conversation

VARIABLE focus

DeployFoci == {"access", "connection", "expressions", "identity"}
TurnFoci == {"pending", "scope", "media"}

\* Only one component moves in a behaviour, so one set of interchangeable values serves as the
\* clerks, the workers and the servers.
Interchangeable == Permutations(Worker)

\* What is said: a request that a pending action answers, one message in every way it may be
\* delivered, or one message with pictures and links.
Plain == [heard |-> TRUE, direct |-> TRUE, durable |-> TRUE, reply |-> NoMsg, thread |-> FALSE, cue |-> "none",
          pics |-> {}, link |-> "none"]
Reply(cue) == [Plain EXCEPT !.reply = m1, !.cue = cue]
Unheard == [Plain EXCEPT !.heard = FALSE]
Only(s) == (m1 :> s) @@ (m2 :> Unheard) @@ (m3 :> Unheard)
Talk ==
  {(m1 :> [Plain EXCEPT !.cue = "ask"]) @@ (m2 :> Reply("continue")) @@ (m3 :> [Reply(cue) EXCEPT !.durable = FALSE]) :
     cue \in {"continue", "cancel", "none"}}
  \cup {(m1 :> [Plain EXCEPT !.cue = "ask", !.thread = TRUE])
          @@ (m2 :> [Plain EXCEPT !.cue = "continue", !.thread = TRUE]) @@ (m3 :> Unheard)}
Twice == {Only(s) : s \in {Plain, [Plain EXCEPT !.durable = FALSE], [Plain EXCEPT !.direct = FALSE]}}
Pictures ==
  {Only([Plain EXCEPT !.direct = FALSE, !.pics = p, !.link = l]) :
     p \in SUBSET {"own", "burst"}, l \in {"none", "optional", "preview", "required"}}
Conversations == Talk \cup Twice \cup Pictures

Writes(a) == [tool |-> "write", arg |-> a]
ToolLists ==
  {<<Writes(1), Writes(2)>>, <<Writes(1)>>, <<Writes(2)>>, <<[tool |-> "look", arg |-> 1]>>,
   <<[tool |-> "invite", arg |-> 1], [tool |-> "look", arg |-> 1]>>}

PlatformInit ==
  /\ focus \in DeployFoci \cup TurnFoci \cup {"capture"}
  /\ DeploymentTables /\ IF focus = "connection" THEN NoConnection ELSE conn = "offline" /\ catalog = Guild
  /\ said \in CASE focus = "pending" -> Talk [] focus = "media" -> Pictures [] focus = "scope" -> Twice
                [] OTHER -> {Only(Plain)}
  /\ avail = (focus # "pending")
  /\ CharacterTurnInit
  /\ CaptureInit

----------------------------------------------------------------------------
\* The requests a behaviour may hold, besides those about profiles and deployments.
Requests(f) ==
  CASE f = "access"      -> {"none", "backfill", "grant", "profile", "claim", "clone", "revoke", "revokeProfile", "deleteProfile",
                             "remove", "deleteScope", "create", "move", "undeploy",
                             "ownIdentities", "ownTools", "ownDeployments"}
    [] f = "connection"  -> {"none", "dropExpressions", "dropTools", "dropConnection", "sync", "claim", "clone", "create",
                             "move", "undeploy", "deleteProfile", "remove"}
    [] f = "expressions" -> {"none", "sync", "claim", "clone", "deleteProfile", "remove", "deleteScope", "dropExpressions"}
    [] f = "identity"    -> {"none", "claim", "clone", "bind", "token", "status", "create", "ownIdentities", "ownDeployments"}
    [] OTHER -> {}

DeployNext ==
  /\ DeploymentsNext
  /\ \A k \in Clerk : clerk'[k].op \in Requests(focus)
  /\ focus # "connection" => UNCHANGED <<conn, events, catalog>>
  /\ focus = "access" =>
       /\ UNCHANGED <<expr, identityVars, toolsOf, carded, turns>>
       /\ \A g \in Guild : profile'[Super][g].id = 0
  /\ focus # "identity" => \A d \in Deployment : dep'[d].excl = {}
  /\ focus # "expressions" => \A a \in Account, g \in Guild : profile'[a][g].excl = {}
  /\ focus # "access" => UNCHANGED <<joining, member, out>>
  /\ focus = "expressions" => UNCHANGED <<dep, identityVars, toolsOf, carded>>
  /\ focus = "identity" => UNCHANGED <<expr, toolsOf, carded, turns>> /\ made' < 2
  /\ focus = "connection" =>
       /\ UNCHANGED <<identityVars, expr>>
       /\ \A k \in Clerk : clerk'[k].op = "sync" => clerk'[k].todo = {}

\* Which tools a completion calls: pictures are looked at, everything else writes.
ToolsOf(f) == IF f = "media" THEN {"look", "invite"} ELSE {"write"}
Untried(m) == tries'[m] = 0
TurnNext ==
  /\ CharacterTurnNext
  /\ \A w \in Worker : IF at'[w].pc = "tools" THEN Head(at'[w].calls).tool \in ToolsOf(focus) ELSE TRUE
  /\ focus # "pending" => Untried(m2) /\ Untried(m3)
  /\ focus # "media" => UNCHANGED mediaVars
  /\ focus = "media" => UNCHANGED <<granted, standing, restarts>>
  /\ focus = "pending" =>
       /\ UNCHANGED granted
       /\ (tries'[m1] = 1 /\ \A w \in Worker : at'[w].msg # m1) \/ (Untried(m2) /\ Untried(m3))
       /\ (standing = "error" => standing' = "error") /\ standing' # "paused"
       /\ \A m \in Msg : tries'[m] < 2
       /\ \A w \in Worker : at'[w].pc = "tools" /\ at[w].pc = "model" => Len(at'[w].calls) = 2

\* One session runs out, the last that is started only needs room, and every turn ends well.
CaptureFocusNext ==
  /\ CaptureNext /\ Cardinality(overdue') <= 1
  /\ \A r \in DOMAIN store'.records : store'.records[r].outcome # "failed"
  /\ issued'.session = MaxSessionIds => issued'.record = issued.record /\ store' # EmptyStore

PlatformNext ==
  /\ UNCHANGED focus
  /\ \/ focus \in DeployFoci /\ DeployNext /\ UNCHANGED <<turnVars, captureVars>>
     \/ focus \in TurnFoci /\ TurnNext /\ UNCHANGED <<depVars, captureVars>>
     \/ focus = "capture" /\ CaptureFocusNext /\ UNCHANGED <<depVars, turnVars>>

PlatformSpec == PlatformInit /\ [][PlatformNext]_<<depVars, turnVars, captureVars, focus>>
=============================================================================
