-------------------------- MODULE KnowledgeAccess --------------------------
(***************************************************************************)
(* Who may read which Corpus: server scopes and their administrators,      *)
(* grants, overlays and Character policies, the administrators' requests   *)
(* that change them, and the readers whose retrieval is in progress while  *)
(* they change.                                                            *)
(*                                                                         *)
(* A request is authorised in one transaction and carried out in another.  *)
(* Evidence is abstracted to the Corpus it comes from.  The overlay modes  *)
(* augment and override admit like inherit and are left out; corpora are   *)
(* created active and nothing changes that.  A Deployment keeps its card,  *)
(* so it stands for both.                                                  *)
(***************************************************************************)
EXTENDS Integers, FiniteSets

CONSTANTS
    Place,          \* platform, connection and workspace
    ScopeId,        \* identities of scope rows, never used twice
    Corpus,         \* identities of corpora, never used twice
    Account, Deployment,
    Feed,           \* identities of Sources, never used twice
    Host,           \* external hosts a rendered collection may load from
    Picture,        \* a canonical entity of one Corpus with an image asset, never used twice
    Fictional,      \* the pictures whose entity is a fictional_character
    Request, Reader,
    None,           \* an absent row or identity
    ReadKinds,      \* of "context", "inspector", "visual" and "pairwise"
    MaxAccessEdits  \* bound: administrative changes

ASSUME AccessAssumption ==
    /\ None \notin ScopeId \cup Corpus \cup Deployment \cup Feed \cup Picture
    /\ {"unborn", "deleted"} \cap Corpus = {} /\ "deleted" # None

VARIABLES
    scopeAt,    \* [Place -> ScopeId \cup {None}]
    usedScope,  \* scope identities given out
    owner,      \* [Corpus -> {"unborn", "system", "deleted"} \cup ScopeId]
    scopeAdmin, \* server administrator rows: pairs of an account and a scope
    grants,     \* [ScopeId \X Corpus -> {"absent", "on", "off"}]
    overlay,    \* [ScopeId \X Corpus -> {"absent", "inherit", "deny"}]
    charPolicy, \* [ScopeId \X Deployment \X Corpus -> {"absent", "allow", "deny"}]
    deployedAt, \* [Deployment -> Place]
    feed,       \* [Feed -> the Source row: corpus, renderer switch, hosts]
    picture,    \* [Picture -> the visual reference: corpus, status, comparison]
    request,    \* [Request -> an administrator's request in progress]
    reader,     \* [Reader -> a retrieval in progress]
    since,      \* history: [Reader -> what it was entitled to since its last look]
    observed,   \* history: [Feed -> hosts an analysis saw]
    accessEdits

fabric == <<scopeAt, usedScope, owner, scopeAdmin, grants, overlay, charPolicy>>
library == <<feed, picture, observed>>
accessVars == <<fabric, library, deployedAt, request, reader, since, accessEdits>>

Pairs == ScopeId \X Corpus
Rules == ScopeId \X Deployment \X Corpus
NoFeed == [corpus |-> None, renders |-> FALSE, hosts |-> {}]
NoPicture == [corpus |-> None, status |-> "absent", compare |-> FALSE]
\* What a reset leaves of an identity.
GoneFeed == [NoFeed EXCEPT !.corpus = "deleted"]
GonePicture == [NoPicture EXCEPT !.status = "deleted"]
IdleRequest == [at |-> "idle", scope |-> None, corpus |-> None, feed |-> None,
                corpora |-> {}, feeds |-> {}, hosts |-> {}]
IdleReader == [at |-> "idle", kind |-> "none", scope |-> None, who |-> None,
               allowed |-> {}, hits |-> {}, shot |-> None]
NoHistory == [effective |-> {}, admitted |-> {}, approved |-> {}]

AccessInit ==
    /\ scopeAt = [p \in Place |-> None] /\ usedScope = {}
    /\ owner = [c \in Corpus |-> "unborn"]
    /\ scopeAdmin = {}
    /\ grants = [x \in Pairs |-> "absent"] /\ overlay = [x \in Pairs |-> "absent"]
    /\ charPolicy = [x \in Rules |-> "absent"]
    /\ deployedAt \in [Deployment -> Place]
    /\ feed = [f \in Feed |-> NoFeed] /\ picture = [g \in Picture |-> NoPicture]
    /\ request = [r \in Request |-> IdleRequest]
    /\ reader = [q \in Reader |-> IdleReader] /\ since = [q \in Reader |-> NoHistory]
    /\ observed = [f \in Feed |-> {}]
    /\ accessEdits = 0

LiveScope == {scopeAt[p] : p \in Place} \ {None}
LiveCorpus == {c \in Corpus : owner[c] \notin {"unborn", "deleted"}}
GlobalCorpus == {c \in Corpus : owner[c] = "system"}

\* list_effective_corpora: own corpora and granted global ones, unless denied.
Effective(s) ==
    {c \in Corpus : /\ s # None
                    /\ owner[c] = s \/ (owner[c] = "system" /\ grants[<<s, c>>] = "on")
                    /\ overlay[<<s, c>>] # "deny"}
Effects(d, c) == {charPolicy[<<s, d, c>>] : s \in {scopeAt[deployedAt[d]]} \ {None}}
\* character_corpus_is_admitted: deny wins and silence denies.
Admitted(d, c) == "deny" \notin Effects(d, c) /\ "allow" \in Effects(d, c)
AdmittedTo(d) == {c \in Corpus : Admitted(d, c)}
Sources == {f \in Feed : feed[f] \notin {NoFeed, GoneFeed}}
ActivePictures == {g \in Picture : picture[g].status = "active"}

Rights(q) == [effective |-> Effective(reader[q].scope),
              admitted |-> IF reader[q].who = None THEN {} ELSE AdmittedTo(reader[q].who),
              approved |-> ActivePictures]
\* History: what a reader is entitled to after the step, joined with what it
\* was entitled to since the search ended or the resolver looked.
Entitled(q) ==
    IF reader'[q].at = "idle" THEN NoHistory
    ELSE IF reader'[q].at # reader[q].at /\ reader[q].at \in {"idle", "query"} THEN Rights(q)'
    ELSE [part \in DOMAIN NoHistory |-> since[q][part] \cup Rights(q)'[part]]
Remember == since' = [q \in Reader |-> Entitled(q)]
Edit == accessEdits < MaxAccessEdits /\ accessEdits' = accessEdits + 1

-----------------------------------------------------------------------------
(* The repository: what one write makes of a table                          *)

ScopeRow(p, s) == [scopeAt EXCEPT ![p] = s]
AdministratorRow(a, s) == scopeAdmin \cup {<<a, s>>}
CorpusRow(c, who) == [owner EXCEPT ![c] = who]
GrantRow(s, c, on) == [grants EXCEPT ![<<s, c>>] = IF on THEN "on" ELSE "off"]
OverlayRow(s, c, mode) == [overlay EXCEPT ![<<s, c>>] = mode]
PolicyRow(s, d, c, effect) == [charPolicy EXCEPT ![<<s, d, c>>] = effect]
SourceRow(f, c) == [feed EXCEPT ![f].corpus = c]
ProfileRow(f, on, hosts) == [feed EXCEPT ![f].renders = on, ![f].hosts = IF on THEN hosts ELSE {}]
\* create: a reference that exists, revoked or not, is returned as it is.
PictureRow(g, c, compare) ==
    IF picture[g] = NoPicture
    THEN [picture EXCEPT ![g] = [corpus |-> c, status |-> "active", compare |-> compare]]
    ELSE picture
RevokedRow(g) == [picture EXCEPT ![g].status = "revoked"]

-----------------------------------------------------------------------------
(* The Super Admin's requests that take one transaction                     *)

EnsureScope(p) == \E s \in ScopeId \ usedScope :
    /\ Edit /\ scopeAt[p] = None
    /\ scopeAt' = ScopeRow(p, s) /\ usedScope' = usedScope \cup {s}
    /\ UNCHANGED <<owner, scopeAdmin, grants, overlay, charPolicy, library, deployedAt, request, reader>>

AddAdministrator(a, s) ==
    /\ Edit /\ s \in LiveScope
    /\ scopeAdmin' = AdministratorRow(a, s)
    /\ UNCHANGED <<scopeAt, usedScope, owner, grants, overlay, charPolicy, library, deployedAt, request, reader>>

\* remove_server_administrator, and delete_owner of the account: nobody
\* creates corpora or grants of a user, so memberships are all it deletes.
RemoveAdministrators(rows) ==
    /\ Edit /\ rows \cap scopeAdmin # {}
    /\ scopeAdmin' = scopeAdmin \ rows
    /\ UNCHANGED <<scopeAt, usedScope, owner, grants, overlay, charPolicy, library, deployedAt, request, reader>>
RemoveAdministrator(a, s) == RemoveAdministrators({<<a, s>>})
DeleteOwner(a) == RemoveAdministrators({a} \X ScopeId)

CreateCorpus(c, who) ==
    /\ Edit /\ owner[c] = "unborn"
    /\ owner' = CorpusRow(c, who)
    /\ UNCHANGED <<scopeAt, usedScope, scopeAdmin, grants, overlay, charPolicy, library, deployedAt, reader>>
CreateGlobalCorpus(c) == CreateCorpus(c, "system") /\ UNCHANGED request

\* update_deployment with another server profile.
MoveDeployment(d, p) ==
    /\ Edit /\ p # deployedAt[d]
    /\ deployedAt' = [deployedAt EXCEPT ![d] = p]
    /\ UNCHANGED <<fabric, library, request, reader>>

-----------------------------------------------------------------------------
(* Requests checked in one transaction and carried out in a later one       *)

\* _scope_for_actor: the Super Admin (None) or an administrator of the scope.
AuthorizeActor(r, a, s) ==
    /\ request[r] = IdleRequest
    /\ s \in LiveScope /\ (a # None => <<a, s>> \in scopeAdmin)
    /\ request' = [request EXCEPT ![r] = [IdleRequest EXCEPT !.at = "scoped", !.scope = s]]
    /\ UNCHANGED <<fabric, library, deployedAt, reader, accessEdits>>

\* _global_corpus_or_404 or _server_local_corpus_or_404.
FindCorpus(r) == \E c \in LiveCorpus :
    /\ request[r].at = "scoped"
    /\ owner[c] \in {"system", request[r].scope}
    /\ request' = [request EXCEPT ![r].at = "ready", ![r].corpus = c]
    /\ UNCHANGED <<fabric, library, deployedAt, reader, accessEdits>>

\* The answer is sent; also a refusal because a row has gone since the check.
Answer(r) == request' = [request EXCEPT ![r] = IdleRequest]
Refuse(r) ==
    /\ request[r].at # "idle"
    /\ Answer(r)
    /\ UNCHANGED <<fabric, library, deployedAt, reader, accessEdits>>

CreateLocalCorpus(r, c) ==
    /\ request[r].at = "scoped"
    /\ CreateCorpus(c, request[r].scope)
    /\ Answer(r)

Ready(r, c) == request[r].at = "ready" /\ c = request[r].corpus

SetGrant(r, on) == LET c == request[r].corpus IN
    /\ Edit /\ Ready(r, c) /\ c \in GlobalCorpus
    /\ grants' = GrantRow(request[r].scope, c, on)
    /\ Answer(r)
    /\ UNCHANGED <<scopeAt, usedScope, owner, scopeAdmin, overlay, charPolicy, library, deployedAt, reader>>

\* The route checks that the corpus is a global one; the row needs both parents.
SetOverlay(r, mode) == LET c == request[r].corpus IN
    /\ Edit /\ Ready(r, c) /\ c \in GlobalCorpus /\ request[r].scope \in LiveScope
    /\ overlay' = OverlayRow(request[r].scope, c, mode)
    /\ Answer(r)
    /\ UNCHANGED <<scopeAt, usedScope, owner, scopeAdmin, grants, charPolicy, library, deployedAt, reader>>

\* set_character_corpus_policy looks at the availability first ...
CheckAvailable(r) == \E c \in Corpus :
    /\ request[r].at = "scoped" /\ c \in Effective(request[r].scope)
    /\ request' = [request EXCEPT ![r].at = "available", ![r].corpus = c]
    /\ UNCHANGED <<fabric, library, deployedAt, reader, accessEdits>>

\* ... and writes the row for the Deployment's present server.
SetCharacterPolicy(r, d, effect) == LET s == request[r].scope c == request[r].corpus IN
    /\ Edit /\ request[r].at = "available"
    /\ scopeAt[deployedAt[d]] = s /\ c \in LiveCorpus
    /\ charPolicy' = PolicyRow(s, d, c, effect)
    /\ Answer(r)
    /\ UNCHANGED <<scopeAt, usedScope, owner, scopeAdmin, grants, overlay, library, deployedAt, reader>>

CreateFeed(r, f) == LET c == request[r].corpus IN
    /\ Edit /\ Ready(r, c) /\ c \in LiveCorpus /\ feed[f] = NoFeed
    /\ feed' = SourceRow(f, c)
    /\ Answer(r)
    /\ UNCHANGED <<fabric, picture, observed, deployedAt, reader>>

ApprovePicture(r, g, compare) == LET c == request[r].corpus IN
    /\ Edit /\ Ready(r, c) /\ c \in LiveCorpus
    /\ compare => g \in Fictional
    /\ picture[g] = NoPicture \/ picture[g].corpus = c
    /\ picture' = PictureRow(g, c, compare)
    /\ Answer(r)
    /\ UNCHANGED <<fabric, feed, observed, deployedAt, reader>>

RevokePicture(r, g) == LET c == request[r].corpus IN
    /\ Edit /\ Ready(r, c) /\ picture[g].corpus = c /\ picture[g].status = "active"
    /\ picture' = RevokedRow(g)
    /\ Answer(r)
    /\ UNCHANGED <<fabric, feed, observed, deployedAt, reader>>

-----------------------------------------------------------------------------
(* The renderer profile of a Site Collection                                *)

ReadFeed(r, f, hosts) ==
    /\ request[r] = IdleRequest
    /\ feed[f].corpus \in GlobalCorpus
    /\ request' = [request EXCEPT ![r] = [IdleRequest EXCEPT !.at = "profile", !.feed = f, !.hosts = hosts]]
    /\ UNCHANGED <<fabric, library, deployedAt, reader, accessEdits>>

\* analyze: the hosts the bootstrap page declares at this moment.
Analyze(r) == \E seen \in SUBSET Host :
    LET f == request[r].feed IN
    /\ request[r].at = "profile"
    /\ observed' = [observed EXCEPT ![f] = @ \cup seen]
    /\ request' = [request EXCEPT ![r] = IF request[r].hosts \subseteq seen
                                         THEN [@ EXCEPT !.at = "analysed"] ELSE IdleRequest]
    /\ UNCHANGED <<fabric, feed, picture, deployedAt, reader, accessEdits>>

\* Switching the renderer off needs no analysis.
SaveProfile(r, on) == LET f == request[r].feed IN
    /\ Edit /\ request[r].at = IF on THEN "analysed" ELSE "profile"
    /\ f \in Sources
    /\ feed' = ProfileRow(f, on, request[r].hosts)
    /\ Answer(r)
    /\ UNCHANGED <<fabric, picture, observed, deployedAt, reader>>

-----------------------------------------------------------------------------
(* reset_all: identifiers are read, then the rows are deleted               *)

ReadAll(r) ==
    /\ request[r] = IdleRequest
    /\ request' = [request EXCEPT ![r] = [IdleRequest EXCEPT !.at = "reset", !.corpora = LiveCorpus,
                                          !.feeds = Sources]]
    /\ UNCHANGED <<fabric, library, deployedAt, reader, accessEdits>>

\* A row that came in between and refers to something deleted refuses the
\* whole transaction (then only Refuse is possible).
ForeignKeysHold(r) ==
    /\ \A f \in Feed \ request[r].feeds : feed[f].corpus \notin request[r].corpora
    /\ \A s \in LiveScope, c \in LiveCorpus \ request[r].corpora :
          /\ overlay[<<s, c>>] = "absent"
          /\ \A d \in Deployment : charPolicy[<<s, d, c>>] = "absent"

\* The Corpus is the last part of a key.
Part(x) == IF x \in Pairs THEN x[2] ELSE x[3]
Without(table, corpora) == [x \in DOMAIN table |-> IF Part(x) \in corpora THEN "absent" ELSE table[x]]

DeleteAll(r) == LET gone == request[r].corpora IN
    /\ Edit /\ request[r].at = "reset" /\ ForeignKeysHold(r)
    /\ owner' = [c \in Corpus |-> IF c \in gone THEN "deleted" ELSE owner[c]]
    /\ scopeAt' = [p \in Place |-> None] /\ scopeAdmin' = {}
    /\ grants' = Without(grants, gone) /\ overlay' = Without(overlay, gone)
    /\ charPolicy' = Without(charPolicy, gone)
    /\ feed' = [f \in Feed |-> IF f \in request[r].feeds THEN GoneFeed ELSE feed[f]]
    /\ picture' = [g \in Picture |-> IF picture[g].corpus \in gone THEN GonePicture ELSE picture[g]]
    /\ observed' = [f \in Feed |-> IF f \in request[r].feeds THEN {} ELSE observed[f]]
    /\ Answer(r)
    /\ UNCHANGED <<usedScope, deployedAt, reader>>

-----------------------------------------------------------------------------
(* Readers                                                                   *)

Reads(q, new) ==
    /\ reader' = [reader EXCEPT ![q] = new]
    /\ UNCHANGED <<fabric, library, deployedAt, request, accessEdits>>
Concludes(q, hits) == Reads(q, [reader[q] EXCEPT !.at = "done", !.hits = hits])

\* KnowledgeContextBuilder.build: find_server_scope.
StartContext(q, d) ==
    /\ reader[q] = IdleReader /\ "context" \in ReadKinds
    /\ scopeAt[deployedAt[d]] # None
    /\ Reads(q, [IdleReader EXCEPT !.at = "start", !.kind = "context", !.who = d,
                                   !.scope = scopeAt[deployedAt[d]], !.allowed = Corpus])

\* inspect_scoped_query: the same engine for an authorised administrator.
StartInspector(q, a, s) ==
    /\ reader[q] = IdleReader /\ "inspector" \in ReadKinds
    /\ s \in LiveScope /\ (a # None => <<a, s>> \in scopeAdmin)
    /\ Reads(q, [IdleReader EXCEPT !.at = "candidates", !.kind = "inspector", !.scope = s, !.allowed = Corpus])

\* The corpora the Character's policy admits narrow the query.
SelectCandidates(q) ==
    /\ reader[q].at = "start" /\ reader[q].kind = "context"
    /\ Reads(q, [reader[q] EXCEPT !.at = "candidates",
                    !.allowed = Effective(reader[q].scope) \cap AdmittedTo(reader[q].who)])

\* query: the scope's effective corpora are the authority.
AuthorizeQuery(q) ==
    /\ reader[q].at = "candidates"
    /\ LET ok == reader[q].allowed \cap Effective(reader[q].scope) IN
       Reads(q, [reader[q] EXCEPT !.at = IF ok = {} THEN "done" ELSE "query", !.allowed = ok])

\* search_sparse and, where its results do not suffice, search_dense.
Searchable(corpora) == {c \in corpora : \E f \in Feed : feed[f].corpus = c}
RetrieveChannels(q) == \E found \in SUBSET Searchable(reader[q].allowed) :
    /\ reader[q].at = "query"
    /\ Reads(q, [reader[q] EXCEPT !.at = "found", !.hits = found])

\* Mutant of Recheck.
RecheckNothing(q) ==
    /\ reader[q].at = "found"
    /\ Reads(q, [reader[q] EXCEPT !.at = IF reader[q].kind = "context" THEN "checked" ELSE "done"])

\* "A grant revoked while retrieval was running cannot enter Character context."
Recheck(q) ==
    /\ reader[q].at = "found"
    /\ Reads(q, [reader[q] EXCEPT !.at = IF reader[q].kind = "context" THEN "checked" ELSE "done",
                                  !.hits = @ \cap Effective(reader[q].scope)])

\* evidence_may_enter_character_context.
Admit(q) == reader[q].at = "checked" /\ Concludes(q, reader[q].hits \cap AdmittedTo(reader[q].who))

\* The query or the policy fails: the turn goes on without knowledge.
QueryFails(q) == reader[q].at \in {"start", "candidates", "query", "found", "checked"} /\ Concludes(q, {})

Leave(q) == reader[q].at = "done" /\ Reads(q, IdleReader)

\* resolve and resolve_pairwise list the effective corpora once.
StartVisual(q, d, kind) ==
    /\ reader[q] = IdleReader /\ kind \in ReadKinds \cap {"visual", "pairwise"}
    /\ scopeAt[deployedAt[d]] # None
    /\ Reads(q, [IdleReader EXCEPT !.at = "listed", !.kind = kind, !.who = d, !.scope = scopeAt[deployedAt[d]],
                                   !.allowed = Effective(scopeAt[deployedAt[d]])])

\* list_active_candidates and list_active_comparison_candidates.
Pictures(q, c) == {g \in ActivePictures : /\ picture[g].corpus = c
                                          /\ reader[q].kind = "pairwise" => picture[g].compare /\ g \in Fictional}

\* One corpus: skipped unless admitted; a single match, or the image the
\* provider is asked about, or none.
ConsiderCorpus(q, c) ==
    /\ reader[q].at = "listed" /\ c \in reader[q].allowed
    /\ \E g \in (IF Admitted(reader[q].who, c) THEN Pictures(q, c) ELSE {}) \cup {None} :
       Reads(q, [reader[q] EXCEPT !.allowed = @ \ {c}, !.shot = g,
                    !.at = IF g = None THEN "listed" ELSE IF reader[q].kind = "visual" THEN "done" ELSE "comparing"])

\* compare_fictional_character_images: resolved, or failed, unsure and no match.
Compare(q) ==
    /\ reader[q].at = "comparing"
    /\ \/ Reads(q, [reader[q] EXCEPT !.at = "done"])
       \/ Reads(q, [reader[q] EXCEPT !.at = "listed", !.shot = None])

Unresolved(q) == reader[q].at = "listed" /\ reader[q].allowed = {} /\ Concludes(q, {})

-----------------------------------------------------------------------------
SuperAdmin ==
    \/ \E p \in Place : EnsureScope(p)
    \/ \E a \in Account, s \in ScopeId : AddAdministrator(a, s) \/ RemoveAdministrator(a, s)
    \/ \E a \in Account : DeleteOwner(a)
    \/ \E c \in Corpus : CreateGlobalCorpus(c)
    \/ \E d \in Deployment, p \in Place : MoveDeployment(d, p)
Writes(r) ==
    \/ \E on \in BOOLEAN : SetGrant(r, on) \/ SaveProfile(r, on)
    \/ \E mode \in {"inherit", "deny"} : SetOverlay(r, mode)
    \/ \E d \in Deployment, effect \in {"allow", "deny"} : SetCharacterPolicy(r, d, effect)
    \/ \E f \in Feed : CreateFeed(r, f)
    \/ \E c \in Corpus : CreateLocalCorpus(r, c)
    \/ \E g \in Picture : RevokePicture(r, g) \/ \E compare \in BOOLEAN : ApprovePicture(r, g, compare)
    \/ DeleteAll(r)
Administrate(r) ==
    \/ \E a \in Account \cup {None}, s \in ScopeId : AuthorizeActor(r, a, s)
    \/ FindCorpus(r) \/ CheckAvailable(r) \/ Refuse(r)
    \/ \E f \in Feed, hosts \in SUBSET Host : ReadFeed(r, f, hosts)
    \/ Analyze(r) \/ ReadAll(r) \/ Writes(r)
ReadStep(q) ==
    \/ \E d \in Deployment : StartContext(q, d) \/ \E kind \in {"visual", "pairwise"} : StartVisual(q, d, kind)
    \/ \E a \in Account \cup {None}, s \in ScopeId : StartInspector(q, a, s)
    \/ SelectCandidates(q) \/ AuthorizeQuery(q) \/ RetrieveChannels(q) \/ Recheck(q) \/ Admit(q)
    \/ QueryFails(q) \/ \E c \in Corpus : ConsiderCorpus(q, c)
    \/ Compare(q) \/ Unresolved(q) \/ Leave(q)

AccessNext == /\ \/ SuperAdmin
                 \/ \E r \in Request : Administrate(r)
                 \/ \E q \in Reader : ReadStep(q)
              /\ Remember
AccessSpec == AccessInit /\ [][AccessNext]_accessVars

-----------------------------------------------------------------------------
(* Properties                                                                *)

\* The tables keep their shape and their foreign keys, whatever a reset
\* meets: no grant, overlay, Character policy, Source or visual reference
\* survives its Corpus, no overlay and no policy its scope.
AccessTypeOK ==
    /\ scopeAt \in [Place -> ScopeId \cup {None}] /\ LiveScope \subseteq usedScope
    /\ owner \in [Corpus -> {"unborn", "system", "deleted"} \cup ScopeId]
    /\ scopeAdmin \subseteq Account \X LiveScope
    /\ \A x \in Pairs : /\ grants[x] # "absent" => x[2] \in GlobalCorpus
                        /\ overlay[x] # "absent" => x[1] \in LiveScope /\ x[2] \in LiveCorpus
    /\ \A x \in Rules : charPolicy[x] # "absent" => x[1] \in LiveScope /\ x[3] \in LiveCorpus
    /\ \A f \in Sources : feed[f].corpus \in LiveCorpus
    /\ \A g \in Picture : picture[g] \notin {NoPicture, GonePicture} => picture[g].corpus \in LiveCorpus

\* What a retrieval hands out was still the server's to read after the
\* search had ended, and what enters a Character's context was then admitted
\* to that Character: revocations, denials, moves and resets that happen
\* while the query runs are seen (KnowledgeQueryEngine.query, build).
ContextAuthorized ==
    \A q \in Reader : reader[q].at = "done" /\ reader[q].kind \in {"context", "inspector"} =>
        /\ reader[q].hits \subseteq since[q].effective
        /\ reader[q].kind = "context" => reader[q].hits \subseteq since[q].admitted

\* An identity is only told from a reference that was approved, in a Corpus
\* that was the server's and admitted to the Character, at some time since
\* the resolver looked; only fictional characters are compared outside.
IdentityAuthorized ==
    \A q \in Reader : reader[q].shot # None =>
        LET g == reader[q].shot IN
        /\ g \in since[q].approved
        /\ reader[q].kind = "pairwise" => g \in Fictional
        /\ picture[g].corpus # None => picture[g].corpus \in since[q].effective \cap since[q].admitted

\* A switched-on renderer may load only from hosts that an analysis of that
\* very Source has seen, however analyses, saves and deletions interleave.
HostsObserved == \A f \in Feed : feed[f].renders => feed[f].hosts \subseteq observed[f]

\* Whatever leaves the fabric - text into a Character's context or to an inspector, the name
\* of a pictured character, a request of the renderer - was allowed when it left, although
\* checks, searches, provider calls and administration run in transactions of their own.
AccessAuthorized == ContextAuthorized /\ IdentityAuthorized /\ HostsObserved
=============================================================================
