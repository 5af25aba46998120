------------------------------ MODULE MCKnowledge ------------------------------
(***************************************************************************)
(* Small instances of the Knowledge Fabric: ingestion and derived work,    *)
(* the synchronisation of one external Source, administration and          *)
(* retrieval.  focus names the part that moves in a behaviour.             *)
(***************************************************************************)
EXTENDS KnowledgeIngest, KnowledgeSync, KnowledgeAccess

CONSTANTS Foci,              \* the parts this run looks at
          page1,             \* a content of a page
          i1, i2,            \* Ingesters
          p1, s1, c1, c2, a1 \* a server that was set up

VARIABLE focus

\* Two versions under one key and a third under another, which changes nothing after the second;
\* the fourth is the first, delivered again.
MCKey == (1 :> "k1" @@ 2 :> "k1" @@ 3 :> "k2" @@ 4 :> "k1")
MCHash == (1 :> "h1" @@ 2 :> "h2" @@ 3 :> "h3" @@ 4 :> "h1")
First == ("l1" :> "a")
Second == ("l1" :> "b" @@ "l2" :> "a")
MCMaterial == (1 :> First @@ 2 :> Second @@ 3 :> Second @@ 4 :> First)
MCMode == [s \in Snapshot |-> "full"]
MCWithdrawn == [s \in Snapshot |-> {}]
MCUploads == (1 :> <<"b1", "b2">> @@ 2 :> <<"b3">> @@ 3 :> <<"b2">> @@ 4 :> <<"b1", "b2">>)

\* c1 is global and granted to the server s1, c2 its own; both are admitted.
Prepared ==
    /\ scopeAt = [p \in Place |-> IF p = p1 THEN s1 ELSE None] /\ usedScope = {s1}
    /\ owner = (c1 :> "system" @@ c2 :> s1)
    /\ scopeAdmin = {<<a1, s1>>}
    /\ grants = [x \in Pairs |-> IF x = <<s1, c1>> THEN "on" ELSE "absent"]
    /\ overlay = [x \in Pairs |-> "absent"]
    /\ charPolicy = [x \in Rules |-> IF x[1] = s1 THEN "allow" ELSE "absent"]
    /\ deployedAt = [d \in Deployment |-> p1]
    /\ \E row \in {NoFeed, [NoFeed EXCEPT !.corpus = c1]} : feed = [f \in Feed |-> row]
    /\ picture = [g \in Picture |-> [corpus |-> c1, status |-> "active", compare |-> g \in Fictional]]
    /\ request = [r \in Request |-> IdleRequest]
    /\ reader = [q \in Reader |-> IdleReader] /\ since = [q \in Reader |-> NoHistory]
    /\ observed = [f \in Feed |-> {}]
    /\ accessEdits = 0

\* A Site Collection that was synchronised twice: the second time its page was gone, and now it
\* is back.
SyncedBefore ==
    /\ kind = "collection" /\ site = [p \in Page |-> page1]
    /\ held = {<<"page", p, page1>> : p \in Page} \cup {<<"gone", Page \ {Root}>>}
    /\ shown = [p \in Page |-> IF p = Root THEN page1 ELSE Absent]
    /\ schedule = [on |-> FALSE, token |-> 0, lapsed |-> FALSE, due |-> FALSE, tries |-> 0]
    /\ cooling = FALSE /\ generation = 2
    /\ pageRow = [p \in Page |-> [seen |-> IF p = Root THEN 2 ELSE 1, avail |-> p = Root, etag |-> page1]]
    /\ replica = [r \in Replica |-> IdleReplica]
    /\ reports = {}
    /\ used = [claims |-> 0, edits |-> 0, faults |-> 0, saves |-> 0]

knowledgeVars == <<kiVars, syncVars, accessVars, focus>>

\* A part that does not move starts in one state.
KnowledgeInit ==
    /\ focus \in Foci
    /\ IngestInit /\ (focus \notin {"ingest", "derived"} => source.type = "git")
    /\ \/ SyncInit /\ (focus # "sync" => kind = "atom" /\ \A p \in Page : site[p] = page1)
       \/ focus = "sync" /\ SyncedBefore
    /\ \/ AccessInit /\ (focus # "access" => \A d \in Deployment : deployedAt[d] = p1)
       \/ focus = "access" /\ Prepared

KnowledgeNext ==
    /\ \/ /\ focus = "ingest"
          /\ \E p \in Ingester : Ingests(p) \/ IngestFails(p)
          /\ UNCHANGED <<syncVars, accessVars>>
       \/ /\ focus = "derived"
          /\ \/ \E s \in {1, 3} : OpenJob(i1, s)
             \/ IngestStep(i1) \/ EraseSource(i1) \/ (DerivedNext /\ UNCHANGED ingestVars)
          /\ UNCHANGED <<syncVars, accessVars>>
       \/ focus = "sync" /\ SyncNext /\ UNCHANGED <<kiVars, accessVars>>
       \/ focus = "access" /\ AccessNext /\ UNCHANGED <<kiVars, syncVars>>
    /\ UNCHANGED focus

KnowledgeSpec == KnowledgeInit /\ [][KnowledgeNext]_knowledgeVars
=============================================================================
