----------------------------- MODULE Deployments -----------------------------
(***************************************************************************)
(* Who may speak where: the managed Discord connection and its catalog of  *)
(* guilds, the accounts let into a guild, their server profiles,           *)
(* deployments, webhooks, message routes and expressions                   *)
(* (deployment_repository, discord_identity_repository,                    *)
(* server_access_repository, expression_repository and their routes).      *)
(*                                                                         *)
(* There are no foreign keys between these tables and a request writes     *)
(* them one commit after the other.  Requests of one account wait for each *)
(* other (the owner admission lock); those of the Super Admin, of another  *)
(* account, of the connector and every GET run beside them.                *)
(***************************************************************************)
EXTENDS Naturals, FiniteSets, Functions, FiniteSetsExt

CONSTANTS Account, Super,    \* accounts and the bootstrap Super Admin, who owns the connection
          Guild, Channel,    \* of every guild
          Category,          \* the category all channels are in
          Deployment,        \* identifiers of deployments
          Message, Hook,     \* sent messages and Discord webhooks
          Clerk,             \* requests being handled
          MaxProfiles,       \* bound: server profiles ever made
          MaxCode,           \* bound: join codes of a guild
          MaxEvents,         \* _MAX_DISCORD_EVENTS_PER_CONNECTION
          MaxOccurred,       \* bound: connector events, numbered as they occurred
          NoAccount, NoGuild, NoDeployment, NoHook

ASSUME DeploymentsAssumption ==
  /\ Super \in Account /\ NoAccount \notin Account
  /\ Category \notin Channel /\ NoGuild \notin Guild /\ NoDeployment \notin Deployment /\ NoHook \notin Hook
  /\ {MaxProfiles, MaxCode, MaxEvents, MaxOccurred} \subseteq Nat

VARIABLES conn,      \* platform_connections: the one connection
          catalog,   \* discord_server_catalogs: its guilds
          profile,   \* discord_server_profiles by owner and guild; id 0 is no row
          made,      \* profile identifiers given out
          dep,       \* character_deployments and discord_deployment_scopes
          carded,    \* accounts whose Character Card exists
          toolsOf,   \* deployment_tool_profiles
          turns,     \* deployments the connector is running a turn for
          joining,   \* discord_server_join_configs
          member,    \* discord_server_access
          identity,  \* deployment_message_identities with their aliases
          binding,   \* discord_webhook_bindings by owner and channel, with the encrypted token
          sentBy,    \* discord_message_routes
          expr,      \* discord_expression_semantics: one resource of each guild, by owner
          events,    \* discord_connector_events
          clerk,     \* what each request is about to do
          out        \* history: "out" of an account turned out of a guild and not let in since

accessVars == <<profile, made, joining, member, out>>
identityVars == <<identity, binding, sentBy>>
depVars == <<conn, catalog, profile, made, dep, carded, toolsOf, turns, joining, member,
             identity, binding, sentBy, expr, events, clerk, out>>

NoProfile == [id |-> 0, excl |-> {}]
NoRow == [owner |-> NoAccount, guild |-> NoGuild, channel |-> 0, scope |-> 0,
          status |-> "none", excl |-> {}]
NoIdentity == [mode |-> "none", status |-> "none", aliases |-> FALSE]
NoBinding == [hook |-> NoHook, status |-> "none", token |-> NoHook]
NoExpression == [source |-> "none", available |-> FALSE]
Vacant == [op |-> "none", by |-> NoAccount, who |-> NoAccount, guild |-> NoGuild,
           dep |-> NoDeployment, ref |-> 0, hook |-> NoHook, todo |-> {}]

NoConnection == conn = "none" /\ catalog = {}

DeploymentTables ==
  /\ profile = [a \in Account |-> [g \in Guild |-> NoProfile]] /\ made = 0
  /\ dep = [d \in Deployment |-> NoRow]
  /\ carded = Account /\ toolsOf = {} /\ turns = {}
  /\ joining = [g \in Guild |-> [code |-> 0, enabled |-> FALSE]]
  /\ member = {}
  /\ identity = [d \in Deployment |-> NoIdentity]
  /\ binding = [a \in Account |-> [c \in Channel |-> NoBinding]]
  /\ sentBy = [m \in Message |-> NoDeployment]
  /\ expr = [a \in Account |-> [g \in Guild |-> NoExpression]]
  /\ events = {}
  /\ clerk = [k \in Clerk |-> Vacant]
  /\ out = [a \in Account |-> [g \in Guild |-> "in"]]

DeploymentsInit == NoConnection /\ DeploymentTables

----------------------------------------------------------------------------
(* Reading.                                                                *)

Connected == conn \in {"online", "offline"}
HasProfile(a, g) == profile[a][g].id > 0
Exists(d) == dep[d].owner # NoAccount
Used(id) == \E d \in Deployment : dep[d].scope = id

\* Whose profile a scope names, if it still exists: [ ] of at most one pair.
Scoped(d) == {p \in Account \X Guild : dep[d].scope > 0 /\ profile[p[1]][p[2]].id = dep[d].scope}
Outside(places, c) == c \in places \/ Category \in places

Matches(d, g, c) ==
  /\ dep[d].status = "active"
  /\ IF dep[d].scope = 0
     THEN dep[d].guild = g /\ dep[d].channel = c
     ELSE \E p \in Scoped(d) : p[2] = g /\ ~Outside(profile[p[1]][g].excl, c) /\ ~Outside(dep[d].excl, c)

\* The identity repository looks at channels only, and not at the guild of an exact destination.
MatchesRoute(d, g, c) ==
  /\ dep[d].status = "active"
  /\ IF dep[d].scope = 0
     THEN dep[d].channel = c
     ELSE \E p \in Scoped(d) : p[2] = g /\ c \notin profile[p[1]][g].excl \cup dep[d].excl

\* What the connector is told to serve, with the webhook token if there is one.
Listed(d) == dep[d].status = "active" /\ dep[d].owner \in carded /\ (dep[d].scope > 0 => Scoped(d) # {})
TokenFor(d) ==
  IF dep[d].scope = 0 /\ dep[d].channel \in Channel /\ binding[dep[d].owner][dep[d].channel].status = "active"
  THEN binding[dep[d].owner][dep[d].channel].token ELSE NoHook

\* Who waits for whom: the requests of an account; the connector's and reads wait for nobody.
Unlocked(a) == a = NoAccount \/ \A k \in Clerk : clerk[k].by # a
Begin(k, r) == clerk[k] = Vacant /\ Unlocked(r.by) /\ clerk' = [clerk EXCEPT ![k] = r]
Goes(k, op) == clerk' = [clerk EXCEPT ![k].op = op]
Done(k) == clerk' = [clerk EXCEPT ![k] = Vacant]

----------------------------------------------------------------------------
(* The connection, its events and its turns.                               *)

CreateConnection ==
  /\ conn = "none" /\ Unlocked(Super)
  /\ conn' = "offline"
  /\ UNCHANGED <<catalog, accessVars, dep, carded, toolsOf, turns, identityVars, expr, events, clerk>>

\* An update of the owner or a heartbeat of the connector.
Heartbeat ==
  /\ Connected /\ conn' \in {"online", "offline"}
  /\ UNCHANGED <<catalog, accessVars, dep, carded, toolsOf, turns, identityVars, expr, events, clerk>>

DeleteConnection(k) ==
  /\ Connected
  /\ Begin(k, [Vacant EXCEPT !.op = "dropExpressions", !.by = Super, !.who = Super])
  /\ UNCHANGED <<conn, catalog, accessVars, dep, carded, toolsOf, turns, identityVars, expr, events>>

DropExpressions(k) ==
  /\ clerk[k].op = "dropExpressions"
  /\ expr' = [expr EXCEPT ![Super] = [g \in Guild |-> NoExpression]]
  /\ Goes(k, "dropTools")
  /\ UNCHANGED <<conn, catalog, accessVars, dep, carded, toolsOf, turns, identityVars, events>>

DropTools(k) ==
  /\ clerk[k].op = "dropTools"
  /\ toolsOf' = {d \in toolsOf : dep[d].owner # Super}
  /\ Goes(k, "dropConnection")
  /\ UNCHANGED <<conn, catalog, accessVars, dep, carded, turns, identityVars, expr, events>>

\* Only the rows of the connection's owner: those of other accounts stay.
DropConnection(k) ==
  /\ clerk[k].op = "dropConnection"
  /\ conn' = "gone" /\ catalog' = {} /\ events' = {}
  /\ dep' = [d \in Deployment |-> IF dep[d].owner = Super THEN NoRow ELSE dep[d]]
  /\ profile' = [profile EXCEPT ![Super] = [g \in Guild |-> NoProfile]]
  /\ Done(k)
  /\ UNCHANGED <<made, carded, toolsOf, turns, joining, member, identityVars, expr, out>>

\* The newest MaxEvents stay; one that was trimmed and comes again is trimmed again.
RecordEvents(batch, named) ==
  /\ Connected /\ batch # {} /\ \A d \in named : Exists(d)
  /\ events' = LET all == events \cup batch
               IN {e \in all : Cardinality({f \in all : f > e}) < MaxEvents}
  /\ UNCHANGED <<conn, catalog, accessVars, dep, carded, toolsOf, turns, identityVars, expr, clerk>>

StartTurn(d) ==
  /\ \E g \in Guild, c \in Channel : Matches(d, g, c)
  /\ d \notin turns
  /\ turns' = turns \cup {d}
  /\ UNCHANGED <<conn, catalog, accessVars, dep, carded, toolsOf, identityVars, expr, events, clerk>>

\* A turn that ends sets the status, whatever the owner did to it meanwhile.
EndTurn(d) ==
  /\ d \in turns
  /\ turns' = turns \ {d}
  /\ \/ dep' = dep
     \/ Exists(d) /\ \E s \in {"active", "error"} : dep' = [dep EXCEPT ![d].status = s]
  /\ UNCHANGED <<conn, catalog, accessVars, carded, toolsOf, identityVars, expr, events, clerk>>

\* A replacing import deletes the Cards of an owner without a look at deployments.
DeleteCard(a) ==
  /\ a \in carded /\ Unlocked(a)
  /\ carded' = carded \ {a}
  /\ UNCHANGED <<conn, catalog, accessVars, dep, toolsOf, turns, identityVars, expr, events, clerk>>

----------------------------------------------------------------------------
(* The catalog and its expressions.                                        *)

Upserted(r, there) ==
  [source |-> IF r.source = "manual" THEN "manual" ELSE "discord_metadata", available |-> there]

\* Guilds neither visible nor failed leave the catalog; the rest is done guild by guild.
SyncCatalog(k, visible, read) ==
  /\ Connected /\ read \subseteq visible
  /\ Begin(k, [Vacant EXCEPT !.op = "sync", !.todo = read])
  /\ catalog' = (catalog \cap visible) \cup read
  /\ UNCHANGED <<conn, accessVars, dep, carded, toolsOf, turns, identityVars, expr, events>>

\* An older connector does not say which guilds it sees; nothing is removed then.
SyncCatalogAdding(k, read) ==
  /\ Connected
  /\ Begin(k, [Vacant EXCEPT !.op = "sync", !.todo = read])
  /\ catalog' = catalog \cup read
  /\ UNCHANGED <<conn, accessVars, dep, carded, toolsOf, turns, identityVars, expr, events>>

SyncServerResources(k, g, there) ==
  /\ clerk[k].op = "sync" /\ g \in clerk[k].todo /\ Connected
  /\ expr' = [a \in Account |-> [expr[a] EXCEPT ![g] =
                IF ~(a = Super \/ HasProfile(a, g)) THEN @
                ELSE IF there THEN Upserted(@, TRUE) ELSE [@ EXCEPT !.available = FALSE]]]
  /\ clerk' = [clerk EXCEPT ![k].todo = @ \ {g}]
  /\ UNCHANGED <<conn, catalog, accessVars, dep, carded, toolsOf, turns, identityVars, events>>

\* No list was sent for the guild, none is left, or the connection has gone.
EndSync(k) ==
  /\ clerk[k].op = "sync"
  /\ IF Connected /\ clerk[k].todo # {}
     THEN \E g \in clerk[k].todo : clerk' = [clerk EXCEPT ![k].todo = @ \ {g}]
     ELSE Done(k)
  /\ UNCHANGED <<conn, catalog, accessVars, dep, carded, toolsOf, turns, identityVars, expr, events>>

\* The connector met the resource in a message.
ResolveResource(g) ==
  /\ Connected
  /\ expr' = [expr EXCEPT ![Super][g] = Upserted(@, TRUE)]
  /\ UNCHANGED <<conn, catalog, accessVars, dep, carded, toolsOf, turns, identityVars, events, clerk>>

UpsertManualResource(a, g, there) ==
  /\ Connected /\ Unlocked(a) /\ (a = Super \/ HasProfile(a, g))
  /\ expr' = [expr EXCEPT ![a][g] = [source |-> "manual", available |-> there]]
  /\ UNCHANGED <<conn, catalog, accessVars, dep, carded, toolsOf, turns, identityVars, events, clerk>>

CloneServerResources(k) ==
  /\ clerk[k].op = "clone"
  /\ LET a == clerk[k].who  g == clerk[k].guild
     IN expr' = IF expr[a][g].source = "none" THEN [expr EXCEPT ![a][g] = expr[Super][g]] ELSE expr
  /\ Done(k)
  /\ UNCHANGED <<conn, catalog, accessVars, dep, carded, toolsOf, turns, identityVars, events>>

----------------------------------------------------------------------------
(* Coming into a guild and being turned out of it.                         *)

EnsureJoinConfig(g) == IF joining[g].code = 0 THEN [code |-> 1, enabled |-> TRUE] ELSE joining[g]

\* The pages of the Super Admin make the join codes they show.
SetJoin(g, r) ==
  /\ g \in catalog /\ Unlocked(Super)
  /\ joining' = [joining EXCEPT ![g] = r]
  /\ UNCHANGED <<conn, catalog, profile, made, member, out, dep, carded, toolsOf, turns,
                 identityVars, expr, events, clerk>>
SetJoinEnabled(g, on) == SetJoin(g, [EnsureJoinConfig(g) EXCEPT !.enabled = on])
RegenerateJoinCode(g) ==
  EnsureJoinConfig(g).code < MaxCode /\ SetJoin(g, [EnsureJoinConfig(g) EXCEPT !.code = @ + 1])

LetIn(a, g) == out' = [out EXCEPT ![a][g] = "in"]
JoinServer(k, a, g) ==
  /\ a # Super /\ joining[g].code > 0 /\ joining[g].enabled /\ g \in catalog
  /\ Begin(k, [Vacant EXCEPT !.op = "grant", !.by = a, !.who = a, !.guild = g])
  /\ LetIn(a, g)
  /\ UNCHANGED <<conn, catalog, profile, made, joining, member, dep, carded, toolsOf, turns,
                 identityVars, expr, events>>

GrantServerAccess(k, a, g) ==
  /\ a # Super /\ g \in catalog
  /\ Begin(k, [Vacant EXCEPT !.op = "grant", !.by = Super, !.who = a, !.guild = g])
  /\ LetIn(a, g)
  /\ UNCHANGED <<conn, catalog, profile, made, joining, member, dep, carded, toolsOf, turns,
                 identityVars, expr, events>>

GrantAccess(k) ==
  /\ clerk[k].op = "grant"
  /\ member' = member \cup {<<clerk[k].who, clerk[k].guild>>}
  /\ Goes(k, "profile")
  /\ UNCHANGED <<conn, catalog, profile, made, joining, out, dep, carded, toolsOf, turns,
                 identityVars, expr, events>>

NewProfile(a, g) ==
  /\ made < MaxProfiles
  /\ made' = made + 1
  /\ profile' = [profile EXCEPT ![a][g] = [id |-> made + 1, excl |-> {}]]

EnsureProfileForAccess(k) ==
  /\ clerk[k].op = "profile"
  /\ LET a == clerk[k].who  g == clerk[k].guild
     IN \/ HasProfile(a, g) /\ Done(k) /\ UNCHANGED <<profile, made>>
        \/ ~HasProfile(a, g) /\ NewProfile(a, g) /\ Goes(k, "clone")
  /\ UNCHANGED <<conn, catalog, joining, member, out, dep, carded, toolsOf, turns, identityVars, expr, events>>

\* A third account's profile is looked for before, not while, the row is written.
ClaimServerProfile(k, a, g) ==
  /\ g \in catalog /\ Connected /\ ~HasProfile(a, g)
  /\ a # Super => \A b \in Account \ {a, Super} : ~HasProfile(b, g)
  /\ Begin(k, [Vacant EXCEPT !.op = "claim", !.by = a, !.who = a, !.guild = g])
  /\ LetIn(a, g)
  /\ UNCHANGED <<conn, catalog, profile, made, joining, member, dep, carded, toolsOf, turns,
                 identityVars, expr, events>>

InsertClaim(k) ==
  /\ clerk[k].op = "claim"
  /\ LET a == clerk[k].who  g == clerk[k].guild
     IN \/ HasProfile(a, g) /\ Done(k) /\ UNCHANGED <<profile, made>>
        \/ ~HasProfile(a, g) /\ NewProfile(a, g) /\ Goes(k, "clone")
  /\ UNCHANGED <<conn, catalog, joining, member, out, dep, carded, toolsOf, turns, identityVars, expr, events>>

CreateServerProfile(g) ==
  /\ Connected /\ Unlocked(Super) /\ ~HasProfile(Super, g)
  /\ NewProfile(Super, g)
  /\ UNCHANGED <<conn, catalog, joining, member, out, dep, carded, toolsOf, turns, identityVars, expr, events, clerk>>

UpdateServerProfile(a, g, places) ==
  /\ HasProfile(a, g) /\ Unlocked(a)
  /\ profile' = [profile EXCEPT ![a][g].excl = places]
  /\ UNCHANGED <<conn, catalog, made, joining, member, out, dep, carded, toolsOf, turns, identityVars, expr, events, clerk>>

Entering(a, g) ==
  \E k \in Clerk : clerk[k].op \in {"grant", "profile", "claim"} /\ clerk[k].who = a /\ clerk[k].guild = g

\* Mutant: revoking forgets the profile.
RevokeMembershipOnly(k, a, g) ==
  /\ g \in catalog
  /\ Begin(k, [Vacant EXCEPT !.op = "revoke", !.by = Super, !.who = a, !.guild = g])
  /\ out' = [out EXCEPT ![a][g] = IF Entering(a, g) THEN "in" ELSE "turning"]
  /\ UNCHANGED <<conn, catalog, profile, made, joining, member, dep, carded, toolsOf, turns, identityVars, expr, events>>

\* Revoking looks for the profile first, deletes it unless it is used, and then
\* removes the access.
RevokeServerAccess(k, a, g) ==
  /\ g \in catalog
  /\ Begin(k, [Vacant EXCEPT !.op = IF HasProfile(a, g) THEN "revokeProfile" ELSE "revoke",
                 !.by = Super, !.who = a, !.guild = g, !.ref = profile[a][g].id])
  /\ out' = [out EXCEPT ![a][g] = IF Entering(a, g) THEN "in" ELSE "turning"]
  /\ UNCHANGED <<conn, catalog, profile, made, joining, member, dep, carded, toolsOf, turns, identityVars, expr, events>>

DeleteServerProfile(k, a, g) ==
  /\ HasProfile(a, g)
  /\ Begin(k, [Vacant EXCEPT !.op = "deleteProfile", !.by = a, !.who = a, !.guild = g,
                 !.ref = profile[a][g].id])
  /\ UNCHANGED <<conn, catalog, accessVars, dep, carded, toolsOf, turns, identityVars, expr, events>>

\* delete_server_profile: refused while a scope names the profile; gone already is no error.
ProfileStands(k) == profile[clerk[k].who][clerk[k].guild].id = clerk[k].ref
CheckUnused(k) ==
  /\ clerk[k].op \in {"revokeProfile", "deleteProfile"}
  /\ LET next == IF clerk[k].op = "revokeProfile" THEN "revoke" ELSE "none"
     IN IF ~ProfileStands(k) /\ next = "revoke" THEN Goes(k, next)
        ELSE IF ~ProfileStands(k) \/ Used(clerk[k].ref) THEN Done(k)
        ELSE clerk' = [clerk EXCEPT ![k].op = "remove", ![k].todo = {next}]
  /\ UNCHANGED <<conn, catalog, accessVars, dep, carded, toolsOf, turns, identityVars, expr, events>>

RemoveProfile(k) ==
  /\ clerk[k].op = "remove"
  /\ profile' = IF ProfileStands(k) THEN [profile EXCEPT ![clerk[k].who][clerk[k].guild] = NoProfile] ELSE profile
  /\ clerk' = [clerk EXCEPT ![k].op = IF "revoke" \in clerk[k].todo THEN "revoke" ELSE "deleteScope", ![k].todo = {}]
  /\ UNCHANGED <<conn, catalog, made, joining, member, out, dep, carded, toolsOf, turns, identityVars, expr, events>>

DeleteScope(k) ==
  /\ clerk[k].op = "deleteScope"
  /\ expr' = [expr EXCEPT ![clerk[k].who][clerk[k].guild] = NoExpression]
  /\ Done(k)
  /\ UNCHANGED <<conn, catalog, accessVars, dep, carded, toolsOf, turns, identityVars, events>>

RevokeAccess(k) ==
  /\ clerk[k].op = "revoke"
  /\ LET a == clerk[k].who  g == clerk[k].guild
     IN /\ member' = member \ {<<a, g>>}
        /\ out' = [out EXCEPT ![a][g] = IF @ = "turning" THEN "out" ELSE @]
  /\ Done(k)
  /\ UNCHANGED <<conn, catalog, profile, made, joining, dep, carded, toolsOf, turns, identityVars, expr, events>>

\* Reading the access page of an account, or the Super Admin's for all of them,
\* gives access to whoever has a profile and none.
ReadAccess(k, accounts) ==
  /\ Begin(k, [Vacant EXCEPT !.op = "backfill",
                 !.todo = {p \in accounts \X catalog : p[1] # Super /\ HasProfile(p[1], p[2])}])
  /\ UNCHANGED <<conn, catalog, accessVars, dep, carded, toolsOf, turns, identityVars, expr, events>>

BackfillAccess(k) ==
  /\ clerk[k].op = "backfill"
  /\ IF clerk[k].todo = {} THEN Done(k) /\ member' = member
     ELSE \E p \in clerk[k].todo :
            clerk' = [clerk EXCEPT ![k].todo = @ \ {p}] /\ member' = member \cup {p}
  /\ UNCHANGED <<conn, catalog, profile, made, joining, out, dep, carded, toolsOf, turns, identityVars, expr, events>>

----------------------------------------------------------------------------
(* Deployments.                                                            *)

\* uq: one deployment of the Character of an account per destination.
Taken(d, a, channel) == \E e \in Deployment \ {d} : dep[e].owner = a /\ dep[e].channel = channel

\* Creating one for a profile, or moving one to it: the profile is read and the
\* rows are written later.
ChooseProfile(k, a, d, g) ==
  /\ HasProfile(a, g) /\ a \in carded
  /\ dep[d].owner \in {NoAccount, a}
  /\ ~Exists(d) => Connected
  /\ Begin(k, [Vacant EXCEPT !.op = IF Exists(d) THEN "move" ELSE "create", !.by = a, !.who = a,
                 !.guild = g, !.dep = d, !.ref = profile[a][g].id])
  /\ UNCHANGED <<conn, catalog, accessVars, dep, carded, toolsOf, turns, identityVars, expr, events>>

Placed(k, status, excl) ==
  [owner |-> clerk[k].who, guild |-> clerk[k].guild, channel |-> clerk[k].ref,
   scope |-> clerk[k].ref, status |-> status, excl |-> excl]

CreateDeployment(k, status, excl) ==
  /\ clerk[k].op = "create"
  /\ LET d == clerk[k].dep
     IN dep' = IF Exists(d) \/ Taken(d, clerk[k].who, clerk[k].ref) THEN dep
               ELSE [dep EXCEPT ![d] = Placed(k, status, excl)]
  /\ Done(k)
  /\ UNCHANGED <<conn, catalog, accessVars, carded, toolsOf, turns, identityVars, expr, events>>

MoveDeployment(k) ==
  /\ clerk[k].op = "move"
  /\ LET d == clerk[k].dep
     IN dep' = IF ~Exists(d) \/ Taken(d, clerk[k].who, clerk[k].ref) THEN dep
               ELSE [dep EXCEPT ![d] = Placed(k, dep[d].status, IF dep[d].scope > 0 THEN dep[d].excl ELSE {})]
  /\ Done(k)
  /\ UNCHANGED <<conn, catalog, accessVars, carded, toolsOf, turns, identityVars, expr, events>>

\* One channel, which takes the connection itself.
CreateExactDeployment(d, g, c, status) ==
  /\ ~Exists(d) /\ Connected /\ Super \in carded /\ Unlocked(Super) /\ ~Taken(d, Super, c)
  /\ dep' = [dep EXCEPT ![d] = [NoRow EXCEPT !.owner = Super, !.guild = g, !.channel = c, !.status = status]]
  /\ UNCHANGED <<conn, catalog, accessVars, carded, toolsOf, turns, identityVars, expr, events, clerk>>

\* update_deployment: a destination is taken over only where no profile is left.
UpdateDeployment(d, row) ==
  /\ Exists(d) /\ Unlocked(dep[d].owner) /\ ~Taken(d, dep[d].owner, row.channel)
  /\ dep' = [dep EXCEPT ![d] = row]
  /\ UNCHANGED <<conn, catalog, accessVars, carded, toolsOf, turns, identityVars, expr, events, clerk>>
SetStatus(d, status) == UpdateDeployment(d, [dep[d] EXCEPT !.status = status])
SetExclusions(d, excl) == dep[d].scope > 0 /\ UpdateDeployment(d, [dep[d] EXCEPT !.excl = excl])
LeaveProfile(d, c) == UpdateDeployment(d, [dep[d] EXCEPT !.scope = 0, !.excl = {}, !.channel = c])

SetEnabledTools(d) ==
  /\ Exists(d) /\ Unlocked(dep[d].owner)
  /\ toolsOf' = toolsOf \cup {d}
  /\ UNCHANGED <<conn, catalog, accessVars, dep, carded, turns, identityVars, expr, events, clerk>>

\* The tools go first, then the deployment with its scope; identity, routes and
\* webhook stay behind.
DeleteDeployment(k, d) ==
  /\ Exists(d)
  /\ Begin(k, [Vacant EXCEPT !.op = "undeploy", !.by = dep[d].owner, !.who = dep[d].owner, !.dep = d])
  /\ toolsOf' = toolsOf \ {d}
  /\ UNCHANGED <<conn, catalog, accessVars, dep, carded, turns, identityVars, expr, events>>

Undeploy(k) ==
  /\ clerk[k].op = "undeploy"
  /\ dep' = [dep EXCEPT ![clerk[k].dep] = NoRow]
  /\ Done(k)
  /\ UNCHANGED <<conn, catalog, accessVars, carded, toolsOf, turns, identityVars, expr, events>>

----------------------------------------------------------------------------
(* Identities, webhooks and message routes.                                *)

Named(r, mode) ==
  [mode |-> mode, aliases |-> r.aliases,
   status |-> IF mode = "bot" THEN "not_required"
              ELSE IF r.status \in {"none", "not_required"} THEN "pending" ELSE r.status]

UpsertIdentity(d, mode, aliases) ==
  /\ Exists(d) /\ Unlocked(dep[d].owner)
  /\ identity' = [identity EXCEPT ![d] = [Named(@, mode) EXCEPT !.aliases = aliases]]
  /\ UNCHANGED <<conn, catalog, accessVars, dep, carded, toolsOf, turns, binding, sentBy, expr, events, clerk>>

DeleteIdentity(d) ==
  /\ Exists(d) /\ Unlocked(dep[d].owner) /\ identity[d] # NoIdentity
  /\ identity' = [identity EXCEPT ![d] = NoIdentity]
  /\ sentBy' = [m \in Message |-> IF sentBy[m] = d THEN NoDeployment ELSE sentBy[m]]
  /\ UNCHANGED <<conn, catalog, accessVars, dep, carded, toolsOf, turns, binding, expr, events, clerk>>

\* The connector made a webhook for a channel.  The request writes the identity
\* if there is none, the binding, the token and the status.
RegisterWebhook(k, d, g, c, hook) ==
  /\ Matches(d, g, c)
  /\ Begin(k, [Vacant EXCEPT !.op = "bind", !.who = dep[d].owner, !.dep = d, !.hook = hook, !.todo = {c}])
  /\ identity' = IF identity[d] = NoIdentity THEN [identity EXCEPT ![d] = Named(@, "webhook")] ELSE identity
  /\ UNCHANGED <<conn, catalog, accessVars, dep, carded, toolsOf, turns, binding, sentBy, expr, events>>

\* The binding belongs to the owner of the deployment, who must own the connection.
UpsertBinding(k) ==
  /\ clerk[k].op = "bind"
  /\ LET c == CHOOSE x \in clerk[k].todo : TRUE
     IN IF Connected /\ clerk[k].who = Super
        THEN /\ binding' = [binding EXCEPT ![Super][c].hook = clerk[k].hook, ![Super][c].status = "active"]
             /\ Goes(k, "token")
        ELSE Done(k) /\ binding' = binding
  /\ UNCHANGED <<conn, catalog, accessVars, dep, carded, toolsOf, turns, identity, sentBy, expr, events>>

SetToken(k) ==
  /\ clerk[k].op = "token"
  /\ binding' = [binding EXCEPT ![clerk[k].who][CHOOSE x \in clerk[k].todo : TRUE].token = clerk[k].hook]
  /\ Goes(k, "status")
  /\ UNCHANGED <<conn, catalog, accessVars, dep, carded, toolsOf, turns, identity, sentBy, expr, events>>

IdentityStatus(d, status) ==
  identity' = IF identity[d] = NoIdentity THEN identity ELSE [identity EXCEPT ![d].status = status]

SetIdentityStatus(k) ==
  /\ clerk[k].op = "status"
  /\ IdentityStatus(clerk[k].dep, "active")
  /\ Done(k)
  /\ UNCHANGED <<conn, catalog, accessVars, dep, carded, toolsOf, turns, binding, sentBy, expr, events>>

ReportWebhookStatus(d, status) ==
  /\ identity[d] # NoIdentity /\ IdentityStatus(d, status)
  /\ UNCHANGED <<conn, catalog, accessVars, dep, carded, toolsOf, turns, binding, sentBy, expr, events, clerk>>

\* Routes older than the retention go when a new one is written.
RegisterMessageRoute(d, g, c, m, old) ==
  /\ MatchesRoute(d, g, c)
  /\ sentBy' = [x \in Message |-> IF x = m THEN d ELSE IF x \in old THEN NoDeployment ELSE sentBy[x]]
  /\ UNCHANGED <<conn, catalog, accessVars, dep, carded, toolsOf, turns, identity, binding, expr, events, clerk>>

\* An account is deleted table by table: expressions, identities, tools, deployments.
DeleteOwner(k, a) ==
  /\ a # Super
  /\ Begin(k, [Vacant EXCEPT !.op = "ownIdentities", !.by = a, !.who = a])
  /\ expr' = [expr EXCEPT ![a] = [g \in Guild |-> NoExpression]]
  /\ UNCHANGED <<conn, catalog, accessVars, dep, carded, toolsOf, turns, identityVars, events>>

DeleteOwnIdentities(k) ==
  /\ clerk[k].op = "ownIdentities"
  /\ identity' = [d \in Deployment |-> IF dep[d].owner = clerk[k].who THEN NoIdentity ELSE identity[d]]
  /\ sentBy' = [m \in Message |-> IF \E d \in Deployment : d = sentBy[m] /\ dep[d].owner = clerk[k].who
                                   THEN NoDeployment ELSE sentBy[m]]
  /\ binding' = [binding EXCEPT ![clerk[k].who] = [c \in Channel |-> NoBinding]]
  /\ Goes(k, "ownTools")
  /\ UNCHANGED <<conn, catalog, accessVars, dep, carded, toolsOf, turns, expr, events>>

DeleteOwnTools(k) ==
  /\ clerk[k].op = "ownTools"
  /\ toolsOf' = {d \in toolsOf : dep[d].owner # clerk[k].who}
  /\ Goes(k, "ownDeployments")
  /\ UNCHANGED <<conn, catalog, accessVars, dep, carded, turns, identityVars, expr, events>>

DeleteOwnDeployments(k) ==
  /\ clerk[k].op = "ownDeployments"
  /\ dep' = [d \in Deployment |-> IF dep[d].owner = clerk[k].who THEN NoRow ELSE dep[d]]
  /\ profile' = [profile EXCEPT ![clerk[k].who] = [g \in Guild |-> NoProfile]]
  /\ Done(k)
  /\ UNCHANGED <<conn, catalog, made, joining, member, out, carded, toolsOf, turns, identityVars, expr, events>>

\* A process that dies forgets the request.
Interrupted(k) ==
  /\ clerk[k] # Vacant
  /\ Done(k)
  /\ UNCHANGED <<conn, catalog, accessVars, dep, carded, toolsOf, turns, identityVars, expr, events>>

----------------------------------------------------------------------------
(* Behaviours, grouped by what they are about.                             *)

Statuses == {"active", "paused"}
Places == Channel \cup {Category}

ConnectionStep ==
  \/ CreateConnection \/ Heartbeat
  \/ \E k \in Clerk : \/ DeleteConnection(k) \/ DropExpressions(k) \/ DropTools(k) \/ DropConnection(k)
  \/ \E batch \in SUBSET (1 .. MaxOccurred), named \in SUBSET Deployment : RecordEvents(batch, named)

SyncStep ==
  \/ \E k \in Clerk, visible \in SUBSET Guild, read \in SUBSET Guild : SyncCatalog(k, visible, read)
  \/ \E k \in Clerk, read \in SUBSET Guild : SyncCatalogAdding(k, read)

ExpressionStep ==
  \/ \E k \in Clerk, g \in Guild, there \in BOOLEAN : SyncServerResources(k, g, there)
  \/ \E k \in Clerk : EndSync(k) \/ CloneServerResources(k) \/ DeleteScope(k)
  \/ \E g \in Guild : ResolveResource(g)
  \/ \E a \in Account, g \in Guild, there \in BOOLEAN : UpsertManualResource(a, g, there)

AccessStep ==
  \/ \E g \in Guild, on \in BOOLEAN : SetJoinEnabled(g, on)
  \/ \E g \in Guild : RegenerateJoinCode(g) \/ CreateServerProfile(g)
  \/ \E k \in Clerk, a \in Account, g \in Guild :
       \/ JoinServer(k, a, g) \/ GrantServerAccess(k, a, g) \/ ClaimServerProfile(k, a, g)
       \/ RevokeServerAccess(k, a, g) \/ DeleteServerProfile(k, a, g)
  \/ \E k \in Clerk :
       \/ GrantAccess(k) \/ EnsureProfileForAccess(k) \/ InsertClaim(k)
       \/ CheckUnused(k) \/ RemoveProfile(k) \/ RevokeAccess(k) \/ BackfillAccess(k)
  \/ \E k \in Clerk, a \in Account : ReadAccess(k, {a})
  \/ \E k \in Clerk : ReadAccess(k, Account)

DeployStep ==
  \/ \E a \in Account, g \in Guild, places \in SUBSET Places : UpdateServerProfile(a, g, places)
  \/ \E k \in Clerk, a \in Account, d \in Deployment, g \in Guild : ChooseProfile(k, a, d, g)
  \/ \E k \in Clerk, status \in Statuses, excl \in SUBSET Places : CreateDeployment(k, status, excl)
  \/ \E k \in Clerk : MoveDeployment(k) \/ Undeploy(k)
  \/ \E d \in Deployment, g \in Guild, c \in Channel, status \in Statuses : CreateExactDeployment(d, g, c, status)
  \/ \E d \in Deployment :
       \/ \E status \in Statuses : SetStatus(d, status)
       \/ \E excl \in SUBSET Places : SetExclusions(d, excl)
       \/ \E c \in Channel \cup {dep[d].channel} : LeaveProfile(d, c)
       \/ \E k \in Clerk : DeleteDeployment(k, d)
       \/ SetEnabledTools(d) \/ StartTurn(d) \/ EndTurn(d)
  \/ \E a \in Account : DeleteCard(a)

LeaveStep ==
  \/ \E k \in Clerk, a \in Account : DeleteOwner(k, a)
  \/ \E k \in Clerk : DeleteOwnIdentities(k) \/ DeleteOwnTools(k) \/ DeleteOwnDeployments(k)

IdentityStep ==
  \/ \E d \in Deployment, mode \in {"webhook", "bot"}, aliases \in BOOLEAN : UpsertIdentity(d, mode, aliases)
  \/ \E d \in Deployment : DeleteIdentity(d)
  \/ \E k \in Clerk, d \in Deployment, g \in Guild, c \in Channel, hook \in Hook : RegisterWebhook(k, d, g, c, hook)
  \/ \E k \in Clerk : UpsertBinding(k) \/ SetToken(k) \/ SetIdentityStatus(k)
  \/ \E d \in Deployment, status \in {"pending", "active", "error"} : ReportWebhookStatus(d, status)
  \/ \E d \in Deployment, g \in Guild, c \in Channel, m \in Message, old \in SUBSET Message :
       RegisterMessageRoute(d, g, c, m, old)

DeploymentsNext ==
  \/ ConnectionStep \/ SyncStep \/ ExpressionStep \/ AccessStep \/ DeployStep \/ IdentityStep \/ LeaveStep
  \/ \E k \in Clerk : Interrupted(k)

DeploymentsSpec == DeploymentsInit /\ [][DeploymentsNext]_depVars

----------------------------------------------------------------------------
(* Properties.                                                             *)

\* An account the Super Admin turned out of a guild, and that has not asked to
\* come in since, speaks there through none of its server-wide deployments,
\* whatever it was creating, moving or serving while revoke_server_access ran: a
\* server-wide deployment is served under a profile that exists, and a profile
\* made later is not the one an old scope names.
RevokedIsSilent ==
  \A a \in Account \ {Super}, g \in Guild, d \in Deployment, c \in Channel :
    out[a][g] = "out" /\ dep[d].owner = a /\ dep[d].scope > 0 => ~Matches(d, g, c)
=============================================================================
