-------------------------- MODULE KnowledgeContent --------------------------
(***************************************************************************)
(* The relational content of one Knowledge Fabric Source: its immutable    *)
(* Source Versions, the current-entry map of a multi-entry Source, and the *)
(* two derived views (retrieval rows, source overview) that durable        *)
(* invalidations ask a worker to rebuild.                                  *)
(*                                                                         *)
(* A Source Version is named by the snapshot it was made from, an Evidence *)
(* Unit by the version and the locator of its document.  Text, titles and  *)
(* metadata are one value, Material[s][l], which is all that               *)
(* _current_entry_material_hash tells apart.                               *)
(***************************************************************************)
EXTENDS Integers, SequencesExt

CONSTANTS
    SourceTypes,  \* of "document", "git", "website", "atom" and "collection"
    Snapshot,     \* what the adapters may deliver
    VersionKey,   \* [Snapshot -> version_key]
    SourceHash,   \* [Snapshot -> hash of the raw artifact]
    Locator,      \* canonical document locators
    Material,     \* [Snapshot -> [subset of Locator -> material]]
    EntryMode,    \* [Snapshot -> {"automatic", "full", "delta"}]
    Withdrawn,    \* [Snapshot -> removed_entry_locators]
    DerivedWorker,
    MaxInvalidationAttempts,
    MaxDerivedFault,   \* bound: failed, stalled or killed rebuilds
    NoSnapshot, Gone, NoEntry, Nobody

ASSUME ContentAssumption ==
    /\ NoSnapshot \notin Snapshot /\ Gone \notin Snapshot /\ NoEntry \notin Snapshot
    /\ \A s \in Snapshot : SourceHash[s] # NoSnapshot
    /\ Nobody \notin DerivedWorker

VARIABLES
    source,       \* the KnowledgeSourceRecord: its type, and whether it is live
    version,      \* [Snapshot -> "none" | "available" | "superseded"]
    observedOrder,      \* versions in the order of observed_at
    entry,        \* [Locator -> Snapshot | Gone | NoEntry]
    retrieval,    \* evidence units that have a retrieval row
    overview,     \* the source overview projection
    inval,        \* [Snapshot \X Dependency -> invalidation row]
    derived,      \* the derived-work workers
    derivedFaults

contentVars == <<source, version, observedOrder, entry, retrieval, overview, inval>>
derivedVars == <<derived, derivedFaults>>
kcVars == <<contentVars, derivedVars>>

Dependency == {"indexes", "projections"}
UsesEntries == source.type \in {"atom", "collection"}
Evidence(s) == {<<s, l>> : l \in DOMAIN Material[s]}
AllEvidence == UNION {Evidence(s) : s \in Snapshot}
Published == {s \in Snapshot : version[s] # "none"}

\* The version that already holds the key of s.
Holder(s) == {t \in Published : VersionKey[t] = VersionKey[s]}

NoRow == [status |-> "none", tries |-> 0, holder |-> Nobody, lapsed |-> FALSE, waits |-> FALSE]
NoOverview == [made |-> FALSE, stale |-> FALSE, of |-> NoSnapshot, deps |-> {}]
IdleWorker == [at |-> "idle", row |-> <<NoSnapshot, "indexes">>, seen |-> {}]

ContentInit ==
    /\ source \in [type : SourceTypes, live : {TRUE}]
    /\ version = [s \in Snapshot |-> "none"]
    /\ observedOrder = <<>>
    /\ entry = [l \in Locator |-> NoEntry]
    /\ retrieval = {}
    /\ overview = NoOverview
    /\ inval = [r \in Snapshot \X Dependency |-> NoRow]
    /\ derived = [w \in DerivedWorker |-> IdleWorker]
    /\ derivedFaults = 0

-----------------------------------------------------------------------------
(* Publication, activation and deletion: the parts of a caller's           *)
(* transaction that touch the content.                                     *)

Superseding(s) ==
    [t \in Snapshot |-> IF t = s THEN "available"
                        ELSE IF version[t] = "available" THEN "superseded" ELSE version[t]]

\* Mutant of Activated.
ActivatedAll(s) == [version EXCEPT ![s] = "available"]

\* Git and Website Sources expose one version; the others expose them all.
Activated(s) == IF source.type \in {"git", "website"} THEN Superseding(s) ELSE version

MayReuse(s, l) == /\ entry[l] \in Snapshot
                  /\ Material[entry[l]][l] = Material[s][l]

RefreshedEntry(s) ==
    [l \in Locator |->
        IF l \in DOMAIN Material[s]
        THEN IF MayReuse(s, l) THEN entry[l] ELSE s
        ELSE IF entry[l] # NoEntry /\ (EntryMode[s] # "delta" \/ l \in Withdrawn[s])
             THEN Gone
             ELSE entry[l]]

Refreshed(s) == IF UsesEntries THEN RefreshedEntry(s) ELSE entry
ObsoleteEvidence(s) ==
    {<<entry[l], l>> : l \in {m \in Locator : entry[m] \in Snapshot /\ Refreshed(s)[m] # entry[m]}}

MaterialChange(s) == UsesEntries => \E l \in Locator :
    \/ Refreshed(s)[l] = s
    \/ entry[l] \in Snapshot /\ Refreshed(s)[l] # entry[l]

StaleOverview == [overview EXCEPT !.stale = @ \/ overview.deps # {}]

PublishContent(s) ==
    /\ version' = [Activated(s) EXCEPT ![s] = "available"]
    /\ observedOrder' = Append(observedOrder, s)
    /\ entry' = Refreshed(s)
    /\ retrieval' = retrieval \ ObsoleteEvidence(s)
    /\ IF MaterialChange(s)
       THEN /\ overview' = StaleOverview
            /\ inval' = [r \in Snapshot \X Dependency |->
                            IF r[1] = s THEN [NoRow EXCEPT !.status = "pending"] ELSE inval[r]]
       ELSE UNCHANGED <<overview, inval>>
    /\ UNCHANGED <<source, derivedVars>>

ActivateContent(s) ==
    /\ version' = Activated(s)
    /\ UNCHANGED <<source, observedOrder, entry, retrieval, overview, inval, derivedVars>>

\* delete_content_for_corpora together with the Source rows its callers delete.
EraseContent ==
    /\ source' = [source EXCEPT !.live = FALSE]
    /\ version' = [s \in Snapshot |-> "none"]
    /\ observedOrder' = <<>>
    /\ entry' = [l \in Locator |-> NoEntry]
    /\ retrieval' = {}
    /\ overview' = NoOverview
    /\ inval' = [r \in Snapshot \X Dependency |-> NoRow]
    /\ UNCHANGED derivedVars

-----------------------------------------------------------------------------
(* The derived-work queue and its workers                                   *)

CurrentEvidence ==
    IF UsesEntries THEN {<<entry[l], l>> : l \in {m \in Locator : entry[m] \in Snapshot}}
    ELSE {}

Born(s) == CHOOSE i \in DOMAIN observedOrder : observedOrder[i] = s
\* Mutant of OpenRows.
OpenRowsFailed == {r \in Snapshot \X Dependency : inval[r].status \in {"pending", "running", "failed"}}

OpenRows == {r \in Snapshot \X Dependency : inval[r].status \in {"pending", "running"}}

\* claim_due looks at the oldest open row only: the worker asks for one.
Oldest == {r \in OpenRows : \A q \in OpenRows : Born(r[1]) <= Born(q[1])}
IsClaimable(r) == \/ inval[r].status = "pending" /\ ~inval[r].waits
                  \/ inval[r].status = "running" /\ inval[r].lapsed

ClaimDerived(w) == \E r \in Oldest :
    /\ derived[w].at = "idle"
    /\ IsClaimable(r)
    /\ inval' = [inval EXCEPT ![r] = [status |-> "running", tries |-> @.tries + 1,
                                      holder |-> w, lapsed |-> FALSE, waits |-> FALSE]]
    /\ derived' = [derived EXCEPT ![w] = [at |-> "read", row |-> r, seen |-> {}]]
    /\ UNCHANGED <<source, version, observedOrder, entry, retrieval, overview, derivedFaults>>

\* What the rebuild of a row reads.
ToIndex(s) == IF UsesEntries THEN Evidence(s) \cap CurrentEvidence ELSE Evidence(s)
ToProject(s) == IF UsesEntries THEN CurrentEvidence ELSE Evidence(s)

\* rebuild_entries_for_source_version lists the evidence in one transaction and
\* writes the rows in others.
ListEvidence(w) == LET s == derived[w].row[1] IN
    /\ derived[w].at = "read" /\ derived[w].row[2] = "indexes"
    /\ version[s] # "none"
    /\ derived' = [derived EXCEPT ![w].at = "write", ![w].seen = ToIndex(s)]
    /\ UNCHANGED <<contentVars, derivedFaults>>

UpsertRetrieval(w) == LET s == derived[w].row[1] IN
    /\ derived[w].at = "write" /\ derived[w].row[2] = "indexes"
    /\ version[s] # "none"
    /\ retrieval' = retrieval \cup derived[w].seen
    /\ derived' = [derived EXCEPT ![w].at = "done"]
    /\ UNCHANGED <<source, version, observedOrder, entry, overview, inval, derivedFaults>>

\* Mutant of SkipOverview.
SkipFreshOverview(w) ==
    /\ derived[w].at = "read" /\ derived[w].row[2] = "projections"
    /\ version[derived[w].row[1]] # "none" /\ ~(overview.made /\ overview.stale)
    /\ derived' = [derived EXCEPT ![w].at = "done"]
    /\ UNCHANGED <<contentVars, derivedFaults>>

\* rebuild_existing_source_overview: nothing to do when nobody asked for the view.
SkipOverview(w) ==
    /\ derived[w].at = "read" /\ derived[w].row[2] = "projections"
    /\ version[derived[w].row[1]] # "none" /\ ~overview.made
    /\ derived' = [derived EXCEPT ![w].at = "done"]
    /\ UNCHANGED <<contentVars, derivedFaults>>

WrittenOverview(s, deps) == [made |-> TRUE, stale |-> FALSE, of |-> s, deps |-> deps]

ReadOverview(w) == LET s == derived[w].row[1] IN
    /\ derived[w].at = "read" /\ derived[w].row[2] = "projections"
    /\ version[s] # "none" /\ overview.made
    /\ derived' = [derived EXCEPT ![w].at = "write", ![w].seen = ToProject(s)]
    /\ UNCHANGED <<contentVars, derivedFaults>>

WriteOverview(w) == LET s == derived[w].row[1] IN
    /\ derived[w].at = "write" /\ derived[w].row[2] = "projections"
    /\ version[s] # "none"
    /\ overview' = WrittenOverview(s, derived[w].seen)
    /\ derived' = [derived EXCEPT ![w].at = "done"]
    /\ UNCHANGED <<source, version, observedOrder, entry, retrieval, inval, derivedFaults>>

\* A rebuild that raises, or whose version was deleted meanwhile.
RebuildRaises(w) ==
    /\ derived[w].at \in {"read", "write"}
    /\ \/ version[derived[w].row[1]] = "none" /\ UNCHANGED derivedFaults
       \/ derivedFaults < MaxDerivedFault /\ derivedFaults' = derivedFaults + 1
    /\ derived' = [derived EXCEPT ![w].at = "raised"]
    /\ UNCHANGED contentVars

HoldsRow(w) == LET row == inval[derived[w].row] IN
    row.status = "running" /\ row.holder = w /\ ~row.lapsed

Settled(row, status) == [row EXCEPT !.status = status, !.holder = Nobody, !.lapsed = FALSE,
                                    !.waits = status = "pending"]

CompleteDerived(w) ==
    /\ derived[w].at = "done"
    /\ inval' = IF HoldsRow(w) THEN [inval EXCEPT ![derived[w].row] = Settled(@, "completed")]
                ELSE inval
    /\ derived' = [derived EXCEPT ![w] = IdleWorker]
    /\ UNCHANGED <<source, version, observedOrder, entry, retrieval, overview, derivedFaults>>

FailureStatus(tries) == IF tries >= MaxInvalidationAttempts THEN "failed" ELSE "pending"

FailDerived(w) ==
    /\ derived[w].at = "raised"
    /\ inval' = IF HoldsRow(w)
                THEN [inval EXCEPT ![derived[w].row] = Settled(@, FailureStatus(@.tries))]
                ELSE inval
    /\ derived' = [derived EXCEPT ![w] = IdleWorker]
    /\ UNCHANGED <<source, version, observedOrder, entry, retrieval, overview, derivedFaults>>

\* The back-off of a failed attempt runs out.
BackoffEnds(r) ==
    /\ inval[r].waits
    /\ inval' = [inval EXCEPT ![r].waits = FALSE]
    /\ UNCHANGED <<source, version, observedOrder, entry, retrieval, overview, derivedVars>>

\* A worker's thread stalls past its lease, renewals included ...
LeaseRunsOut(w) ==
    /\ derived[w].at # "idle" /\ HoldsRow(w)
    /\ derivedFaults < MaxDerivedFault /\ derivedFaults' = derivedFaults + 1
    /\ inval' = [inval EXCEPT ![derived[w].row].lapsed = TRUE]
    /\ UNCHANGED <<source, version, observedOrder, entry, retrieval, overview, derived>>

\* ... or its process dies, and the lease runs out later.
WorkerDies(w) ==
    /\ derived[w].at # "idle"
    /\ derivedFaults < MaxDerivedFault /\ derivedFaults' = derivedFaults + 1
    /\ inval' = IF HoldsRow(w) THEN [inval EXCEPT ![derived[w].row].lapsed = TRUE] ELSE inval
    /\ derived' = [derived EXCEPT ![w] = IdleWorker]
    /\ UNCHANGED <<source, version, observedOrder, entry, retrieval, overview>>

\* recover_expired, at the start of a worker.
RecoverDerived ==
    /\ \E r \in OpenRows : inval[r].lapsed
    /\ inval' = [r \in Snapshot \X Dependency |->
                    IF inval[r].status = "running" /\ inval[r].lapsed
                    THEN [Settled(inval[r], "pending") EXCEPT !.waits = FALSE] ELSE inval[r]]
    /\ UNCHANGED <<source, version, observedOrder, entry, retrieval, overview, derivedVars>>

\* retry_failed_for_source, an administrator's request.
RetryFailed ==
    /\ \E r \in DOMAIN inval : inval[r].status = "failed"
    /\ derivedFaults < MaxDerivedFault /\ derivedFaults' = derivedFaults + 1
    /\ inval' = [r \in Snapshot \X Dependency |->
                    IF inval[r].status = "failed"
                    THEN [Settled(inval[r], "pending") EXCEPT !.waits = FALSE] ELSE inval[r]]
    /\ UNCHANGED <<source, version, observedOrder, entry, retrieval, overview, derived>>

\* get_source_overview: a reader rebuilds a view that is absent or outdated.
OverviewIsCurrent == /\ overview.made /\ ~overview.stale
                     /\ UsesEntries \/ overview.of = observedOrder[Len(observedOrder)]

ReadSourceOverview ==
    /\ observedOrder # <<>> /\ ~OverviewIsCurrent
    /\ overview' = WrittenOverview(observedOrder[Len(observedOrder)], ToProject(observedOrder[Len(observedOrder)]))
    /\ UNCHANGED <<source, version, observedOrder, entry, retrieval, inval, derivedVars>>

DerivedStep(w) ==
    \/ ClaimDerived(w) \/ ListEvidence(w) \/ UpsertRetrieval(w) \/ SkipOverview(w)
    \/ ReadOverview(w) \/ WriteOverview(w)
    \/ CompleteDerived(w) \/ FailDerived(w)

DerivedNext ==
    \/ \E w \in DerivedWorker : \/ DerivedStep(w) \/ RebuildRaises(w)
                                \/ LeaseRunsOut(w) \/ WorkerDies(w)
    \/ \E r \in DOMAIN inval : BackoffEnds(r)
    \/ RecoverDerived \/ RetryFailed \/ ReadSourceOverview

-----------------------------------------------------------------------------
(* Properties                                                               *)

ContentTypeOK ==
    /\ source \in [type : SourceTypes, live : BOOLEAN]
    /\ version \in [Snapshot -> {"none", "available", "superseded"}]
    /\ IsInjective(observedOrder) /\ ToSet(observedOrder) = Published
    /\ entry \in [Locator -> Published \cup {Gone, NoEntry}]
    /\ retrieval \subseteq AllEvidence
    /\ overview.of \in Snapshot \cup {NoSnapshot} /\ overview.deps \subseteq AllEvidence
    /\ \A r \in DOMAIN inval :
        /\ inval[r].tries \in 0 .. MaxInvalidationAttempts + MaxDerivedFault
        /\ (inval[r].holder # Nobody) = (inval[r].status = "running")
        /\ inval[r].status # "none" => r[1] \in Published

Unfinished(r) == inval[r].status \in {"pending", "running", "failed"}

\* Every Evidence Unit a reader may retrieve is indexed, or the durable request to index its
\* version is still open or was given up visibly; and an overview of a multi-entry Source
\* that is served as fresh describes the current entries, or a rebuild that will say so is
\* still open: neither an interrupted publication nor a rebuild that read before it and wrote
\* after it hides what was published.
DerivedRepair ==
    /\ \A s \in Published : \A e \in ToIndex(s) :
        e \in retrieval \/ Unfinished(<<s, "indexes">>)
    /\ UsesEntries /\ overview.made /\ ~overview.stale =>
        \/ overview.deps = CurrentEvidence
        \/ \E s \in Published : Unfinished(<<s, "projections">>)

\* An invalidation is worked off or given up, whatever fails on the way: no row
\* of the derived-work queue is retried for ever or forgotten.
DerivedSettles == \A r \in Snapshot \X Dependency :
    inval[r].status \in {"pending", "running"} ~>
        inval[r].status \in {"none", "completed", "failed"}
=============================================================================
