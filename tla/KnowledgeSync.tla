--------------------------- MODULE KnowledgeSync ---------------------------
(***************************************************************************)
(* The synchronisation of one external Source (a Website page, an Atom     *)
(* feed or a Site Collection) by scheduler replicas that share a durable   *)
(* schedule row, while the site and the administrator change things.       *)
(*                                                                         *)
(* A page's content is a model value and stands for its bytes, its digest  *)
(* and its validator.  A single-page Source uses the page Root only.  The  *)
(* ingestion of a snapshot is one step here: KnowledgeIngest has its       *)
(* steps.  Every other repository call is a step, so that a crash, another *)
(* replica or a saved schedule may fall between any two.                   *)
(***************************************************************************)
EXTENDS Integers, FiniteSets

CONSTANTS
    SyncKinds,      \* of "website", "atom" and "collection"
    Page, Root, Content, Absent,
    Replica,        \* scheduler processes
    MaxClaims,      \* bound: leases granted
    MaxSiteEdits,   \* bound: changes of the site
    MaxSyncFault,   \* bound: failed fetches, stalls, crashes and database errors
    MaxSaves        \* bound: schedules saved by the administrator

ASSUME RootAssumption == Root \in Page /\ Absent \notin Content

MaxLoopFailures == 3

VARIABLES
    kind,       \* the Source's type
    site,       \* [Page -> Content \cup {Absent}]: what the site serves
    held,       \* version keys: <<"page", p, c>> or <<"gone", set of pages>>
    shown,      \* [Page -> Content \cup {Absent}]: current version or entries
    schedule,   \* the schedule row; token 0 is no lease
    cooling,    \* the host may not be contacted yet
    generation, \* discovery_generation
    pageRow,    \* [Page -> page state row]; Root's validator is also the sync state's
    replica,    \* what each scheduler is doing; hand is the page, or the removal, at hand
    reports,    \* finished runs: pairs of a claim and its outcome
    used        \* how much of each bound is spent

syncVars == <<kind, site, held, shown, schedule, cooling, generation, pageRow, replica, reports, used>>

IdleReplica == [at |-> "idle", token |-> 0, fails |-> 0, gen |-> 0, todo |-> {},
                saw |-> [p \in Page |-> Absent], known |-> [p \in Page |-> Absent],
                new |-> FALSE, hand |-> {}, result |-> "none"]
NoPageRow == [seen |-> 0, avail |-> FALSE, etag |-> Absent]

SyncInit ==
    /\ kind \in SyncKinds
    /\ site \in [Page -> Content \cup {Absent}] /\ site[Root] # Absent
    /\ held = {} /\ shown = [p \in Page |-> Absent]
    /\ schedule = [on |-> FALSE, token |-> 0, lapsed |-> FALSE, due |-> FALSE, tries |-> 0]
    /\ cooling = FALSE /\ generation = 0
    /\ pageRow = [p \in Page |-> NoPageRow]
    /\ replica = [r \in Replica |-> IdleReplica]
    /\ reports = {}
    /\ used = [claims |-> 0, edits |-> 0, faults |-> 0, saves |-> 0]

Spend(what, most) == used[what] < most /\ used' = [used EXCEPT ![what] = @ + 1]
SyncFault == Spend("faults", MaxSyncFault)
Goes(r, at) == replica' = [replica EXCEPT ![r].at = at]
Gives(r, result) == replica' = [replica EXCEPT ![r].at = "mark", ![r].result = result]

-----------------------------------------------------------------------------
(* The world around the schedulers                                          *)

EditSite(p) == \E c \in Content \cup {Absent} :
    /\ Spend("edits", MaxSiteEdits)
    /\ c # site[p] /\ (p = Root => c # Absent)
    /\ site' = [site EXCEPT ![p] = c]
    /\ UNCHANGED <<kind, held, shown, schedule, cooling, generation, pageRow, replica, reports>>

\* configure: any lease is dropped and an enabled Source is due at once.
SaveSchedule(on) ==
    /\ Spend("saves", MaxSaves)
    /\ schedule' = [on |-> on, token |-> 0, lapsed |-> FALSE, due |-> on, tries |-> 0]
    /\ UNCHANGED <<kind, site, held, shown, cooling, generation, pageRow, replica, reports>>

IntervalEnds ==
    /\ schedule.on /\ ~schedule.due /\ ~cooling
    /\ schedule' = [schedule EXCEPT !.due = TRUE]
    /\ UNCHANGED <<kind, site, held, shown, cooling, generation, pageRow, replica, reports, used>>

CooldownEnds ==
    /\ cooling /\ cooling' = FALSE
    /\ UNCHANGED <<kind, site, held, shown, schedule, generation, pageRow, replica, reports, used>>

\* A replica stalls past its lease, renewals included.
LeaseLapses ==
    /\ schedule.token # 0 /\ ~schedule.lapsed
    /\ SyncFault
    /\ schedule' = [schedule EXCEPT !.lapsed = TRUE]
    /\ UNCHANGED <<kind, site, held, shown, cooling, generation, pageRow, replica, reports>>

-----------------------------------------------------------------------------
(* The loop of a scheduler                                                  *)

Claimable == schedule.on /\ schedule.due /\ (schedule.token = 0 \/ schedule.lapsed)

ClaimDue(r) ==
    /\ replica[r].at = "idle"
    /\ Claimable /\ ~cooling
    /\ Spend("claims", MaxClaims)
    /\ cooling' = TRUE
    /\ schedule' = [schedule EXCEPT !.token = used.claims + 1, !.lapsed = FALSE, !.tries = @ + 1]
    /\ replica' = [replica EXCEPT ![r] = [IdleReplica EXCEPT !.at = "start", !.token = used.claims + 1]]
    /\ UNCHANGED <<kind, site, held, shown, generation, pageRow, reports>>

\* Another Source of the host was contacted: the run is put off to the cooldown.
PutOff(r) ==
    /\ replica[r].at = "idle"
    /\ Claimable /\ cooling
    /\ schedule' = [schedule EXCEPT !.due = FALSE]
    /\ UNCHANGED <<kind, site, held, shown, cooling, generation, pageRow, replica, reports, used>>

\* claim_due raises; the third time in a row ends the loop and the process.
LoopFails(r) ==
    /\ replica[r].at = "idle"
    /\ SyncFault
    /\ replica' = [replica EXCEPT ![r].fails = @ + 1,
                      ![r].at = IF replica[r].fails + 1 >= MaxLoopFailures THEN "off" ELSE "idle"]
    /\ UNCHANGED <<kind, site, held, shown, schedule, cooling, generation, pageRow, reports>>

Crash(r) ==
    /\ replica[r].at # "off"
    /\ SyncFault
    /\ replica' = [replica EXCEPT ![r] = [IdleReplica EXCEPT !.at = "off"]]
    /\ schedule' = IF replica[r].token # 0 /\ schedule.token = replica[r].token
                   THEN [schedule EXCEPT !.lapsed = TRUE] ELSE schedule
    /\ UNCHANGED <<kind, site, held, shown, cooling, generation, pageRow, reports>>

\* start: recover_expired, then the loop.
Restart(r) ==
    /\ replica[r].at = "off"
    /\ replica' = [replica EXCEPT ![r] = IdleReplica]
    /\ schedule' = IF schedule.lapsed THEN [schedule EXCEPT !.token = 0, !.lapsed = FALSE] ELSE schedule
    /\ UNCHANGED <<kind, site, held, shown, cooling, generation, pageRow, reports, used>>

\* mark_result and, when the lease was still held, the report of the run.
MarkResult(r) ==
    LET mine == schedule.on /\ schedule.token = replica[r].token /\ ~schedule.lapsed
        ok == replica[r].result # "failed" IN
    /\ replica[r].at = "mark"
    /\ schedule' = IF mine THEN [schedule EXCEPT !.token = 0, !.due = FALSE,
                                                 !.tries = IF ok THEN 0 ELSE @] ELSE schedule
    /\ reports' = IF mine /\ replica[r].result # "stale"
                  THEN reports \cup {<<replica[r].token, replica[r].result>>} ELSE reports
    /\ replica' = [replica EXCEPT ![r] = IdleReplica]
    /\ UNCHANGED <<kind, site, held, shown, cooling, generation, pageRow, used>>

-----------------------------------------------------------------------------
(* One synchronisation                                                      *)

\* Checks during a sync compare the lease with the time the sync started, so a
\* lease that ran out since is still current until somebody takes or clears it.
Fenced(r) == schedule.on /\ schedule.token = replica[r].token

\* Mutant of PublishFence.
PublishFenceToken(r) == schedule.token = replica[r].token

\* Publication checks token and expiry at the time of the transaction.
PublishFence(r) == schedule.token = replica[r].token /\ ~schedule.lapsed

StartSync(r) ==
    /\ replica[r].at = "start"
    /\ IF Fenced(r) /\ ~schedule.lapsed THEN Goes(r, "fetch") ELSE Gives(r, "stale")
    /\ UNCHANGED <<kind, site, held, shown, schedule, cooling, generation, pageRow, reports, used>>

\* record_outcome, fenced; validators are stored with a content that was read.
Recorded(r, result) ==
    /\ Gives(r, IF Fenced(r) THEN result ELSE "stale")
    /\ pageRow' = IF Fenced(r) /\ replica[r].saw[Root] # Absent /\ result \in {"changed", "unchanged"}
                     /\ kind # "collection"
                  THEN [pageRow EXCEPT ![Root].etag = replica[r].saw[Root]] ELSE pageRow
    /\ UNCHANGED <<kind, site, held, shown, schedule, cooling, generation, reports>>

FetchFails(r) ==
    /\ replica[r].at = "fetch" \/ (replica[r].at = "page" /\ replica[r].todo # {})
    /\ SyncFault
    /\ Gives(r, IF Fenced(r) THEN "failed" ELSE "stale")
    /\ UNCHANGED <<kind, site, held, shown, schedule, cooling, generation, pageRow, reports>>

\* A Website page or a feed: one conditional request.
FetchOne(r) ==
    /\ replica[r].at = "fetch" /\ kind # "collection"
    /\ replica' = [replica EXCEPT ![r].saw[Root] = site[Root],
            ![r].at = IF site[Root] = pageRow[Root].etag THEN "unmodified" ELSE "fence"]
    /\ UNCHANGED <<kind, site, held, shown, schedule, cooling, generation, pageRow, reports, used>>

RecordUnmodified(r) ==
    /\ replica[r].at = "unmodified"
    /\ Recorded(r, "not_modified")
    /\ UNCHANGED used

FenceOne(r) ==
    /\ replica[r].at = "fence"
    /\ IF Fenced(r)
       THEN replica' = [replica EXCEPT ![r].at = "ingest",
                ![r].new = <<"page", Root, replica[r].saw[Root]>> \notin held]
       ELSE Gives(r, "stale")
    /\ UNCHANGED <<kind, site, held, shown, schedule, cooling, generation, pageRow, reports, used>>

\* A retained version of a Website page is made current again; a retained feed
\* snapshot leaves the entries as they are.  Only a new version meets the fence.
IngestOne(r) == LET c == replica[r].saw[Root] IN
    /\ replica[r].at = "ingest"
    /\ \/ /\ <<"page", Root, c>> \in held
          /\ shown' = IF kind = "website" THEN [shown EXCEPT ![Root] = c] ELSE shown
          /\ Goes(r, "record") /\ UNCHANGED held
       \/ /\ <<"page", Root, c>> \notin held /\ PublishFence(r)
          /\ held' = held \cup {<<"page", Root, c>>}
          /\ shown' = [shown EXCEPT ![Root] = c]
          /\ Goes(r, "record")
       \/ /\ <<"page", Root, c>> \notin held /\ ~PublishFence(r)
          /\ Gives(r, "stale") /\ UNCHANGED <<held, shown>>
    /\ UNCHANGED <<kind, site, schedule, cooling, generation, pageRow, reports, used>>

RecordOne(r) ==
    /\ replica[r].at = "record" /\ kind # "collection"
    /\ Recorded(r, IF replica[r].new THEN "changed" ELSE "unchanged")
    /\ UNCHANGED used

-----------------------------------------------------------------------------
(* A Site Collection: discovery, a generation, a pass over its pages, and   *)
(* the removal of the pages the manifest no longer lists                    *)

Discover(r) ==
    /\ replica[r].at = "fetch" /\ kind = "collection"
    /\ replica' = [replica EXCEPT ![r].todo = {p \in Page : site[p] # Absent}, ![r].at = "begin"]
    /\ UNCHANGED <<kind, site, held, shown, schedule, cooling, generation, pageRow, reports, used>>

BeginGeneration(r) ==
    /\ replica[r].at = "begin"
    /\ IF Fenced(r)
       THEN /\ generation' = generation + 1
            /\ replica' = [replica EXCEPT ![r].gen = generation + 1, ![r].at = "reconcile"]
       ELSE Gives(r, "stale") /\ UNCHANGED generation
    /\ UNCHANGED <<kind, site, held, shown, schedule, cooling, pageRow, reports, used>>

ReconcilePages(r) ==
    /\ replica[r].at = "reconcile"
    /\ pageRow' = [p \in Page |-> IF p \in replica[r].todo
                                  THEN [pageRow[p] EXCEPT !.seen = replica[r].gen, !.avail = TRUE]
                                  ELSE pageRow[p]]
    /\ replica' = [replica EXCEPT ![r].at = "page",
                      ![r].known = [p \in Page |-> IF p \in replica[r].todo THEN pageRow[p].etag ELSE Absent]]
    /\ UNCHANGED <<kind, site, held, shown, schedule, cooling, generation, reports, used>>

PageDone(r, p, result, c) ==
    replica' = [replica EXCEPT ![r].todo = @ \ {p}, ![r].at = "page", ![r].saw[p] = c,
                    ![r].result = IF result = "changed" \/ @ = "none" \/ @ = "not_modified" THEN result ELSE @]

\* _sync_page up to its publication: not modified, already held, or new.
SyncPage(r, p) ==
    /\ replica[r].at = "page" /\ p \in replica[r].todo
    /\ site[p] # Absent
    /\ \/ /\ site[p] = replica[r].known[p]
          /\ PageDone(r, p, "not_modified", site[p])
       \/ /\ site[p] # replica[r].known[p]
          /\ replica' = [replica EXCEPT ![r].saw[p] = site[p], ![r].hand = {p},
                ![r].at = IF <<"page", p, site[p]>> \in held THEN "note"
                          ELSE IF Fenced(r) THEN "publish" ELSE "mark",
                ![r].new = <<"page", p, site[p]>> \notin held,
                ![r].result = IF <<"page", p, site[p]>> \in held \/ Fenced(r) THEN @ ELSE "stale"]
    /\ UNCHANGED <<kind, site, held, shown, schedule, cooling, generation, pageRow, reports, used>>

\* The page is gone by the time it is fetched: the pass fails.
PageMissing(r, p) ==
    /\ replica[r].at = "page" /\ p \in replica[r].todo
    /\ site[p] = Absent
    /\ Gives(r, IF Fenced(r) THEN "failed" ELSE "stale")
    /\ UNCHANGED <<kind, site, held, shown, schedule, cooling, generation, pageRow, reports, used>>

\* Mutant of PublishPage.
PublishPageLenient(r) == \E p \in replica[r].hand : LET c == replica[r].saw[p] IN
    /\ replica[r].at = "publish"
    /\ IF PublishFence(r)
       THEN /\ held' = held \cup {<<"page", p, c>>}
            /\ shown' = IF <<"page", p, c>> \in held THEN shown ELSE [shown EXCEPT ![p] = c]
            /\ Goes(r, "note")
       ELSE Goes(r, "note") /\ UNCHANGED <<held, shown>>
    /\ UNCHANGED <<kind, site, schedule, cooling, generation, pageRow, reports, used>>

\* The delta snapshot of the page, fenced, maps its entry to the new version.
PublishPage(r) == \E p \in replica[r].hand : LET c == replica[r].saw[p] IN
    /\ replica[r].at = "publish"
    /\ IF PublishFence(r)
       THEN /\ held' = held \cup {<<"page", p, c>>}
            /\ shown' = IF <<"page", p, c>> \in held THEN shown ELSE [shown EXCEPT ![p] = c]
            /\ Goes(r, "note")
       ELSE Gives(r, "stale") /\ UNCHANGED <<held, shown>>
    /\ UNCHANGED <<kind, site, schedule, cooling, generation, pageRow, reports, used>>

\* record_page_outcome, with the validator of the content.
NotePage(r) == \E p \in replica[r].hand : LET c == replica[r].saw[p] IN
    /\ replica[r].at = "note"
    /\ pageRow' = [pageRow EXCEPT ![p].etag = c]
    /\ PageDone(r, p, IF replica[r].new THEN "changed" ELSE "unchanged", c)
    /\ UNCHANGED <<kind, site, held, shown, schedule, cooling, generation, reports, used>>

Missing(r) == {p \in Page : pageRow[p].avail /\ pageRow[p].seen # replica[r].gen}

CompleteGeneration(r) ==
    /\ replica[r].at = "page" /\ replica[r].todo = {}
    /\ IF ~Fenced(r) THEN Gives(r, "stale") /\ UNCHANGED pageRow
       ELSE IF generation # replica[r].gen THEN Gives(r, "failed") /\ UNCHANGED pageRow
       ELSE /\ pageRow' = [p \in Page |-> IF p \in Missing(r) THEN [pageRow[p] EXCEPT !.avail = FALSE]
                                          ELSE pageRow[p]]
            /\ replica' = [replica EXCEPT ![r].hand = Missing(r), ![r].at = "remove"]
    /\ UNCHANGED <<kind, site, held, shown, schedule, cooling, generation, reports, used>>

\* The removal snapshot is named by the pages it removes.
PublishRemoval(r) == LET key == <<"gone", replica[r].hand>> IN
    /\ replica[r].at = "remove" /\ replica[r].hand # {}
    /\ \/ /\ key \in held
          /\ replica' = [replica EXCEPT ![r].at = "record", ![r].result = "changed"]
          /\ UNCHANGED <<held, shown>>
       \/ /\ key \notin held /\ PublishFence(r)
          /\ held' = held \cup {key}
          /\ shown' = [p \in Page |-> IF p \in replica[r].hand THEN Absent ELSE shown[p]]
          /\ replica' = [replica EXCEPT ![r].at = "record", ![r].result = "changed"]
       \/ /\ key \notin held /\ ~PublishFence(r)
          /\ Gives(r, "stale") /\ UNCHANGED <<held, shown>>
    /\ UNCHANGED <<kind, site, schedule, cooling, generation, pageRow, reports, used>>

\* A crash of the ingestion itself, or of its storage, ends the run as failed.
IngestRaises(r) ==
    /\ replica[r].at \in {"ingest", "publish"} \/ (replica[r].at = "remove" /\ replica[r].hand # {})
    /\ SyncFault
    /\ Gives(r, "failed")
    /\ UNCHANGED <<kind, site, held, shown, schedule, cooling, generation, pageRow, reports>>

NothingRemoved(r) ==
    /\ replica[r].at = "remove" /\ replica[r].hand = {}
    /\ Goes(r, "record")
    /\ UNCHANGED <<kind, site, held, shown, schedule, cooling, generation, pageRow, reports, used>>

RecordCollection(r) ==
    /\ replica[r].at = "record" /\ kind = "collection"
    /\ Recorded(r, replica[r].result)
    /\ UNCHANGED used

SyncStep(r) ==
    \/ StartSync(r) \/ FetchOne(r) \/ RecordUnmodified(r) \/ FenceOne(r) \/ IngestOne(r) \/ RecordOne(r)
    \/ Discover(r) \/ BeginGeneration(r) \/ ReconcilePages(r) \/ PublishPage(r) \/ NotePage(r)
    \/ CompleteGeneration(r) \/ PublishRemoval(r) \/ NothingRemoved(r) \/ RecordCollection(r) \/ MarkResult(r)
    \/ \E p \in Page : SyncPage(r, p) \/ PageMissing(r, p)

SyncNext ==
    \/ \E r \in Replica : \/ ClaimDue(r) \/ PutOff(r) \/ LoopFails(r) \/ Crash(r) \/ Restart(r)
                          \/ SyncStep(r) \/ FetchFails(r) \/ IngestRaises(r)
    \/ \E p \in Page : EditSite(p)
    \/ \E on \in BOOLEAN : SaveSchedule(on)
    \/ IntervalEnds \/ CooldownEnds \/ LeaseLapses

SyncSpec == SyncInit /\ [][SyncNext]_syncVars

-----------------------------------------------------------------------------
(* Properties                                                               *)

SyncTypeOK ==
    /\ site \in [Page -> Content \cup {Absent}] /\ shown \in [Page -> Content \cup {Absent}]
    /\ schedule.token \in 0 .. MaxClaims /\ (schedule.lapsed => schedule.token # 0)
    /\ schedule.tries <= MaxClaims
    /\ \A p \in Page : pageRow[p].seen \in 0 .. generation
    /\ \A r \in Replica : replica[r].fails < MaxLoopFailures \/ replica[r].at = "off"
    /\ \A t \in 1 .. MaxClaims : Cardinality({x \in reports : x[1] = t}) <= 1

\* A validator is kept only for content that was published: whatever crashed,
\* stalled or failed, no later 304 hides bytes the Source never ingested.
ValidatorTrue == \A p \in Page : pageRow[p].etag # Absent => <<"page", p, pageRow[p].etag>> \in held

\* Nothing new is published once the administrator disabled or re-saved the
\* schedule, or another replica took the lease: the run in flight meets the fence.
FencedPublish == [][held' # held => schedule.on /\ schedule.token # 0 /\ ~schedule.lapsed]_syncVars

=============================================================================
