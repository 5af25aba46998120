------------------------------ MODULE Storage ------------------------------
(***************************************************************************)
(* How processes bring one database into service.  API replicas, Knowledge *)
(* Fabric workers and the SQLite-to-PostgreSQL copy tool all start with     *)
(* Database.initialize: the ORM tables, the named revisions of the ledger,  *)
(* two added columns, the check for an unfinished copy, the retirement of   *)
(* the pre-Fabric knowledge stores, the cleanup of old Discord events and   *)
(* the server-wide uniqueness of deployments.  An API replica goes on, no   *)
(* longer under a lock, with the rows every installation has (timezone      *)
(* marker, storage identity, built-in users, the Super Admin's profiles)    *)
(* and the public demo account, then starts its services.  A process may   *)
(* stop between any two transactions.                                       *)
(*                                                                         *)
(* A transaction is one step, except that a row looked up and then inserted *)
(* (session.get ... add ... commit) takes two, the second of which fails    *)
(* when somebody inserted the row in between.                               *)
(***************************************************************************)
EXTENDS Integers, FiniteSets, Sequences, SequencesExt

CONSTANTS
  Proc,        \* operating-system processes, one Database object each
  NoProc,
  MaxStarts,   \* starts of processes in one behaviour
  MaxDemo,     \* demo cards ever made
  MaxEdits     \* edits of the Super Admin's workspace

ASSUME StorageAssumption == NoProc \notin Proc /\ MaxStarts \in Nat /\ MaxDemo \in Nat /\ MaxEdits \in Nat

VARIABLES
  dialect,     \* "postgresql" or "sqlite"
  production,
  lock,        \* holder of the session advisory lock "database-initialize-v1"
  ddl,         \* tables, columns, extension and indexes that exist
  ledger,      \* rows of database_schema_migrations
  legacy,      \* the retired Knowledge Base and Server Wiki tables still exist
  cutover,     \* status of knowledge-fabric-hard-cutover-v1
  privacy,     \* status of discord-event-privacy-v1, and whether old events are still unsafe
  copy,        \* row of database_data_migrations: its status and the fingerprint it was made for
  source,      \* the SQLite file a copy is made of
  dups,        \* duplicate deployments of one card on one Discord server
  tz,          \* the timezone of a server: "utc" or "local"
  chosen,      \* UTC was chosen by an owner of the running system
  rows,        \* the installation's own rows: identity, timezone marker, users, profiles
  merged,      \* a copy was committed into a target that had product rows
  shelf,       \* the Super Admin's cards by rank, and the version of that workspace
  demo,        \* cards of the public demo account
  items,       \* versions of the demo account's scenarios and packs, one per copy of them
  proc,          \* what each process is doing
  starts, madeCards

storageVars == <<dialect, production, lock, ddl, ledger, legacy, cutover, privacy, copy, source,
                 dups, tz, chosen, rows, merged, shelf, demo, items, proc, starts, madeCards>>
schemaVars == <<ddl, ledger, legacy, cutover, privacy>>
rowVars == <<tz, chosen, rows>>
demoVars == <<shelf, demo, items, madeCards>>
fixed == <<dialect, production>>

Names == 1 .. 3
Users == {"local", "system", "admin", "demo"}
Item == {"scenario", "pack"}

\* The migrations of schema_migrations.py: the revisions each block of classes records and the
\* PostgreSQL objects it creates in the same transaction.
FoundationMigration == [of |-> {"foundation"}, makes |-> {"vector"}]
ContentMigrations == [of |-> {"scope", "content", "interpretation"}, makes |-> {}]
IndexMigration == [of |-> {"index"}, makes |-> {"embedding"}]
SyncMigrations == [of |-> {"projection", "externalSync", "externalSchedule"}, makes |-> {}]
CollectionMigrations == [of |-> {"currentEntry", "siteCollection", "syncRun"}, makes |-> {}]
ObjectMigrations == [of |-> {"visualReference", "characterPolicy", "objectLifecycle"}, makes |-> {}]
Migrations == {FoundationMigration, ContentMigrations, IndexMigration, SyncMigrations,
               CollectionMigrations, ObjectMigrations}

Makes(revision) == UNION {m.makes : m \in {x \in Migrations : revision \in x.of}}

\* Mutant: the migration of the embeddings runs before the one that creates their extension.
RevisionsIndexFirst ==
  <<"index", "foundation", "cliGrants", "agentReading", "scope", "content", "objectLifecycle",
    "characterPolicy", "currentEntry", "siteCollection", "syncRun", "visualReference",
    "interpretation", "projection", "externalSync", "externalSchedule">>

\* The order _initialize_unlocked runs them in; two revisions have no class of their own.
Revisions ==
  <<"foundation", "cliGrants", "agentReading", "scope", "content", "objectLifecycle",
    "characterPolicy", "currentEntry", "siteCollection", "syncRun", "visualReference",
    "interpretation", "index", "projection", "externalSync", "externalSchedule">>

Idle == [kind |-> "none", pc |-> "off", i |-> 1, looked |-> FALSE, saw |-> FALSE, again |-> FALSE,
         began |-> "none", id |-> NoProc, fp |-> 0, todo |-> {}, have |-> [n \in Names |-> 0],
         ver |-> 0, keep |-> {}, alone |-> FALSE]

Moves(p, r) == proc' = [proc EXCEPT ![p] = r]
Proceeds(p, pc) == Moves(p, [proc[p] EXCEPT !.pc = pc, !.looked = FALSE, !.i = 1])

\* An exception ends the start and releases the lock; the copy tool, once it owns the copy, writes
\* it off first.
Owned(p) == proc[p].kind = "copy" /\ (proc[p].again \/ proc[p].pc \in {"copyAll", "markCompleted"})
Aborts(p) ==
  /\ Moves(p, IF Owned(p) THEN [proc[p] EXCEPT !.pc = "markFailed"] ELSE Idle)
  /\ lock' = IF lock = p THEN NoProc ELSE lock

----------------------------------------------------------------------------
\* Starting: create_app and the worker's serve refuse anything but PostgreSQL in production
\* (inspect_storage); the copy tool wants a PostgreSQL target, a snapshot of the source and a
\* source at the current schema without retired tables.
inspect_storage == production => dialect = "postgresql"
Snapshot == source.fp
SourceSchemaIsCurrent == source.current

Start(p, kind) ==
  /\ proc[p].pc = "off" /\ starts < MaxStarts /\ starts' = starts + 1
  /\ IF kind = "copy" THEN dialect = "postgresql" /\ SourceSchemaIsCurrent ELSE inspect_storage
  /\ Moves(p, [Idle EXCEPT !.kind = kind, !.pc = "lock", !.fp = Snapshot])
  /\ UNCHANGED <<fixed, lock, schemaVars, copy, source, dups, rowVars, merged, demoVars>>

\* _initialize_lock: a session advisory lock on PostgreSQL.  The lock of SQLite is local to a
\* process, and here every process has one Database.
InitializeLock(p) ==
  /\ proc[p].pc = "lock"
  /\ dialect = "postgresql" => lock = NoProc
  /\ lock' = IF dialect = "postgresql" THEN p ELSE lock
  /\ Moves(p, [proc[p] EXCEPT !.pc = "schema", !.began = copy.status])
  /\ UNCHANGED <<fixed, schemaVars, copy, source, dups, rowVars, merged, demoVars, starts>>

\* _create_schema_metadata: create_all, in one transaction on PostgreSQL; two SQLite processes may
\* both find a table missing and one of them fails.
CreateSchemaMetadata(p) ==
  /\ proc[p].pc = "schema"
  /\ \/ ddl' = ddl \cup {"tables"} /\ Proceeds(p, "ledger") /\ UNCHANGED lock
     \/ dialect = "sqlite" /\ "tables" \in ddl /\ Aborts(p) /\ UNCHANGED ddl
  /\ UNCHANGED <<fixed, ledger, legacy, cutover, privacy, copy, source, dups, rowVars, merged, demoVars, starts>>

\* The look of a row that is inserted if it is missing.
Absent(p) ==
  CASE proc[p].pc = "ledger" -> Revisions[proc[p].i] \notin ledger
    [] proc[p].pc = "cutover" -> cutover = "none"
    [] proc[p].pc = "utc" -> ~rows.marker
    [] proc[p].pc = "identity" -> rows.identity = NoProc
    [] proc[p].pc = "local" -> rows.user["local"] = "none"
    [] proc[p].pc = "system" -> rows.user["system"] = "none"
    [] proc[p].pc = "admin" -> rows.user["admin"] = "none"
    [] proc[p].pc = "profile" -> ~rows.profile
    [] proc[p].pc = "targets" -> ~rows.targets
    [] proc[p].pc = "demo" -> rows.user["demo"] = "none"

InOneTransaction(p) ==
  proc[p].pc = "ledger" /\ dialect = "postgresql" /\ \E m \in Migrations : Revisions[proc[p].i] \in m.of

Look(p) ==
  /\ proc[p].pc \in {"ledger", "cutover", "utc", "identity", "local", "system", "admin", "profile", "demo",
                   "targets"}
  /\ ~proc[p].looked /\ ~InOneTransaction(p)
  /\ IF proc[p].pc = "cutover" /\ cutover = "completed"
     THEN Proceeds(p, "privacy")
     ELSE Moves(p, [proc[p] EXCEPT !.looked = TRUE, !.saw = ~Absent(p)])
  /\ UNCHANGED <<fixed, lock, schemaVars, copy, source, dups, rowVars, merged, demoVars, starts>>

NextRevision(p) ==
  IF proc[p].i = Len(Revisions) THEN Proceeds(p, "columns")
  ELSE Moves(p, [proc[p] EXCEPT !.i = @ + 1, !.looked = FALSE])

\* A migration on PostgreSQL: its lock, its objects and its ledger row in one transaction.
RunMigration(p) ==
  /\ InOneTransaction(p)
  /\ ledger' = ledger \cup {Revisions[proc[p].i]}
  /\ ddl' = ddl \cup Makes(Revisions[proc[p].i])
  /\ NextRevision(p)
  /\ UNCHANGED <<fixed, lock, legacy, cutover, privacy, copy, source, dups, rowVars, merged, demoVars, starts>>

\* A ledger row alone: the two revisions without a class, and every revision on another database.
RecordRevision(p) ==
  /\ proc[p].pc = "ledger" /\ proc[p].looked
  /\ IF ~proc[p].saw /\ ~Absent(p) THEN Aborts(p) /\ UNCHANGED ledger
     ELSE NextRevision(p) /\ ledger' = ledger \cup {Revisions[proc[p].i]} /\ UNCHANGED lock
  /\ UNCHANGED <<fixed, ddl, legacy, cutover, privacy, copy, source, dups, rowVars, merged, demoVars, starts>>

\* _ensure_turn_job_author_scope and _ensure_media_source_fingerprint.
EnsureColumns(p) ==
  /\ proc[p].pc = "columns"
  /\ \/ ddl' = ddl \cup {"author", "fingerprint"} /\ Proceeds(p, "check") /\ UNCHANGED lock
     \/ dialect = "sqlite" /\ "fingerprint" \in ddl /\ Aborts(p) /\ UNCHANGED ddl
  /\ UNCHANGED <<fixed, ledger, legacy, cutover, privacy, copy, source, dups, rowVars, merged, demoVars, starts>>

\* _assert_no_incomplete_data_migration, and where the flags lead: the first initialization of the
\* copy tool leaves out the legacy migrations, both leave out the check.
AssertNoIncompleteCopy(p) ==
  /\ proc[p].pc = "check"
  /\ IF proc[p].kind # "copy" /\ copy.status \notin {"none", "completed"} THEN Aborts(p)
     ELSE /\ Proceeds(p, IF proc[p].kind = "copy" /\ ~proc[p].again THEN "invariants" ELSE "cutover")
          /\ UNCHANGED lock
  /\ UNCHANGED <<fixed, schemaVars, copy, source, dups, rowVars, merged, demoVars, starts>>

\* KnowledgeFabricHardCutoverMigration: claim, drop, record.
ClaimCutover(p) ==
  /\ proc[p].pc = "cutover" /\ proc[p].looked
  /\ IF ~proc[p].saw /\ ~Absent(p) THEN Aborts(p) /\ UNCHANGED cutover
     ELSE cutover' = "running" /\ Proceeds(p, "retire") /\ UNCHANGED lock
  /\ UNCHANGED <<fixed, ddl, ledger, legacy, privacy, copy, source, dups, rowVars, merged, demoVars, starts>>

RetireLegacyStorage(p) ==
  /\ proc[p].pc = "retire"
  /\ \/ legacy' = FALSE /\ Proceeds(p, "cutoverDone") /\ UNCHANGED <<lock, cutover>>
     \/ legacy /\ cutover' = "failed" /\ Aborts(p) /\ UNCHANGED legacy
  /\ UNCHANGED <<fixed, ddl, ledger, privacy, copy, source, dups, rowVars, merged, demoVars, starts>>

CompleteCutover(p) ==
  /\ proc[p].pc = "cutoverDone" /\ cutover' = "completed" /\ Proceeds(p, "privacy")
  /\ UNCHANGED <<fixed, lock, ddl, ledger, legacy, privacy, copy, source, dups, rowVars, merged, demoVars, starts>>

\* DiscordEventPrivacyMigration: claim, sanitize and complete in one transaction, or the failure
\* recorded in another.
DiscordEventPrivacy(p) ==
  /\ proc[p].pc = "privacy"
  /\ \/ privacy' = [status |-> "completed", unsafe |-> FALSE] /\ Proceeds(p, "invariants") /\ UNCHANGED lock
     \/ privacy.unsafe /\ privacy' = [privacy EXCEPT !.status = "failed"] /\ Aborts(p)
  /\ UNCHANGED <<fixed, ddl, ledger, legacy, cutover, copy, source, dups, rowVars, merged, demoVars, starts>>

\* The runtime invariants, the release of the lock, and what each kind of process does next.
AfterInitialize(p) ==
  CASE proc[p].kind = "copy" -> IF proc[p].again THEN "markCompleted" ELSE "prepare"
    [] proc[p].kind = "worker" -> "services"
    [] OTHER -> "utc"

EnsureRuntimeInvariants(p) ==
  /\ proc[p].pc = "invariants"
  /\ IF dialect = "postgresql" /\ dups THEN Aborts(p) /\ UNCHANGED ddl
     ELSE /\ ddl' = ddl \cup {"unique"} /\ Proceeds(p, AfterInitialize(p))
          /\ lock' = IF lock = p THEN NoProc ELSE lock
  /\ UNCHANGED <<fixed, ledger, legacy, cutover, privacy, copy, source, dups, rowVars, merged, demoVars, starts>>

----------------------------------------------------------------------------
\* The copy tool.  A target is empty when it has no table but those of the ORM and no product table
\* has a row.
TargetIsEmpty ==
  /\ ~legacy /\ cutover = "none" /\ privacy.status = "none" /\ rows.identity = NoProc /\ ~rows.marker
  /\ ~rows.targets /\ ~rows.profile
  /\ \A u \in Users : rows.user[u] = "none"
  /\ ~dups /\ demo = {}

\* _prepare_target_migration: one transaction under its own lock.  A finished copy of the same
\* snapshot is reported, any other record or product row refuses the target.
PrepareTarget(p) ==
  /\ proc[p].pc = "prepare"
  /\ IF copy.status = "none" /\ TargetIsEmpty
     THEN copy' = [status |-> "running", fp |-> proc[p].fp] /\ Proceeds(p, "copyAll") /\ UNCHANGED lock
     ELSE Aborts(p) /\ UNCHANGED copy
  /\ UNCHANGED <<fixed, schemaVars, source, dups, rowVars, merged, demoVars, starts>>

\* _copy_all_tables: one transaction of inserts, refused when a key or the unique index of
\* deployments is in the way.  The snapshot holds the rows of a source that was at least
\* initialized, or of one an API replica has served.
KeysFree ==
  /\ cutover = "none" /\ privacy.status = "none"
  /\ source.served => rows.identity = NoProc /\ ~rows.marker /\ ~rows.targets /\ rows.user["system"] = "none"
  /\ ~("unique" \in ddl /\ source.dups)

CopyAllTables(p) ==
  /\ proc[p].pc = "copyAll"
  /\ IF ~KeysFree THEN Aborts(p) /\ UNCHANGED <<schemaVars, dups, rowVars, merged>>
     ELSE /\ cutover' = "completed" /\ privacy' = [status |-> "completed", unsafe |-> FALSE]
          /\ dups' = source.dups
          /\ IF source.served
             THEN /\ rows' = [rows EXCEPT !.identity = p, !.marker = TRUE, !.targets = TRUE,
                                          !.user = [@ EXCEPT !["system"] = "admin"]]
                  /\ tz' = "utc" /\ chosen' = TRUE
             ELSE UNCHANGED <<rows, tz, chosen>>
          /\ merged' = (merged \/ ~TargetIsEmpty)
          /\ Moves(p, [proc[p] EXCEPT !.pc = "lock", !.again = TRUE])
          /\ UNCHANGED <<lock, ddl, ledger, legacy>>
  /\ UNCHANGED <<fixed, copy, source, demoVars, starts>>

MarkCompleted(p) ==
  /\ proc[p].pc = "markCompleted" /\ copy' = [copy EXCEPT !.status = "completed"]
  /\ Moves(p, Idle)
  /\ UNCHANGED <<fixed, lock, schemaVars, source, dups, rowVars, merged, demoVars, starts>>

MarkFailed(p) ==
  /\ proc[p].pc = "markFailed" /\ copy' = [copy EXCEPT !.status = IF @ = "completed" THEN @ ELSE "failed"]
  /\ Moves(p, Idle)
  /\ UNCHANGED <<fixed, lock, schemaVars, source, dups, rowVars, merged, demoVars, starts>>

----------------------------------------------------------------------------
\* The rest of create_app, outside the lock.
Refused(p) == ~proc[p].saw /\ ~Absent(p)

\* migrate_legacy_utc_defaults: the conversion and its marker in one transaction.
MigrateLegacyUtc(p) ==
  /\ proc[p].pc = "utc" /\ proc[p].looked
  /\ IF Refused(p) THEN Aborts(p) /\ UNCHANGED <<tz, rows>>
     ELSE /\ Proceeds(p, "identity") /\ UNCHANGED lock
          /\ IF proc[p].saw THEN UNCHANGED <<tz, rows>>
             ELSE tz' = "local" /\ rows' = [rows EXCEPT !.marker = TRUE]
  /\ UNCHANGED <<fixed, schemaVars, copy, source, dups, chosen, merged, demoVars, starts>>

\* ensure_storage_instance_id.
EnsureStorageInstanceId(p) ==
  /\ proc[p].pc = "identity" /\ proc[p].looked
  /\ IF Refused(p) THEN Aborts(p) /\ UNCHANGED rows
     ELSE /\ UNCHANGED lock
          /\ rows' = IF proc[p].saw THEN rows ELSE [rows EXCEPT !.identity = p]
          /\ Moves(p, [proc[p] EXCEPT !.pc = IF production THEN "system" ELSE "local",
                                       !.looked = FALSE, !.id = rows'.identity])
  /\ UNCHANGED <<fixed, schemaVars, copy, source, dups, tz, chosen, merged, demoVars, starts>>

\* ensure_development_user, ensure_system_runtime_user and ensure_bootstrap_admin; the last
\* promotes the account that already has the configured address.
EnsureUser(p) ==
  LET u == proc[p].pc IN
  /\ u \in {"local", "system", "admin"} /\ proc[p].looked
  /\ IF Refused(p) THEN Aborts(p) /\ UNCHANGED rows
     ELSE /\ rows' = [rows EXCEPT !.user[u] = "admin"]
          /\ Proceeds(p, CASE u = "local" -> "system" [] u = "system" -> "admin" [] u = "admin" -> "profile")
          /\ UNCHANGED lock
  /\ UNCHANGED <<fixed, schemaVars, copy, source, dups, tz, chosen, merged, demoVars, starts>>

\* DiscordInventoryService.centralize: the Super Admin gets a profile of every server.
Centralize(p) ==
  /\ proc[p].pc = "profile" /\ proc[p].looked
  /\ IF Refused(p) THEN Aborts(p) /\ UNCHANGED rows
     ELSE rows' = [rows EXCEPT !.profile = TRUE] /\ Proceeds(p, "demo") /\ UNCHANGED lock
  /\ UNCHANGED <<fixed, schemaVars, copy, source, dups, tz, chosen, merged, demoVars, starts>>

----------------------------------------------------------------------------
\* PublicDemoService.synchronize.  _ensure_demo_user creates the account or puts back its role.
EnsureDemoUser(p) ==
  /\ proc[p].pc = "demo" /\ proc[p].looked
  /\ IF Refused(p) THEN Aborts(p) /\ UNCHANGED rows
     ELSE rows' = [rows EXCEPT !.user["demo"] = "user"] /\ Proceeds(p, "demoRead") /\ UNCHANGED lock
  /\ UNCHANGED <<fixed, schemaVars, copy, source, dups, tz, chosen, merged, demoVars, starts>>

\* _selected_source_cards: two at most, the preferred ones first.
Selected(cards) == {n \in cards : Cardinality({m \in cards : m < n}) < 2}

Syncing(p) == proc[p].pc \in {"demoNext", "demoCard", "demoSecret", "demoPrune", "demoDrop", "scenario", "pack"}

\* _sync_characters reads both lists once; of two demo cards with one name it takes either.
ReadCards(p) ==
  /\ proc[p].pc = "demoRead"
  /\ \E have \in [Names -> {0} \cup {c.id : c \in demo}] :
       /\ \A n \in Names : IF \E c \in demo : c.name = n THEN \E c \in demo : c.name = n /\ c.id = have[n]
                           ELSE have[n] = 0
       /\ proc' = [q \in Proc |->
            IF q = p THEN [proc[p] EXCEPT !.pc = "demoNext", !.todo = Selected(shelf.cards), !.have = have,
                             !.ver = shelf.ver, !.keep = {}, !.alone = ~\E r \in Proc \ {p} : Syncing(r)]
            ELSE [proc[q] EXCEPT !.alone = FALSE]]
  /\ UNCHANGED <<fixed, lock, schemaVars, copy, source, dups, rowVars, merged, demoVars, starts>>

First(p) == CHOOSE n \in proc[p].todo : \A m \in proc[p].todo : n <= m
Mine(p) == {c \in demo : c.id = proc[p].have[First(p)]}

\* The next source card: a new demo card needs a Target first, an existing one is brought up to
\* date, and one that another process has removed ends the start.
NextCard(p) ==
  /\ proc[p].pc = "demoNext"
  /\ IF proc[p].todo = {} THEN Proceeds(p, "demoPrune") /\ UNCHANGED <<demo, lock>>
     ELSE IF proc[p].have[First(p)] = 0 THEN Proceeds(p, "demoCard") /\ UNCHANGED <<demo, lock>>
     ELSE IF Mine(p) = {} THEN Aborts(p) /\ UNCHANGED demo
     ELSE /\ demo' = (demo \ Mine(p)) \cup {[c EXCEPT !.ver = proc[p].ver] : c \in Mine(p)}
          /\ Proceeds(p, "demoSecret") /\ UNCHANGED lock
  /\ UNCHANGED <<fixed, schemaVars, copy, source, dups, rowVars, merged, shelf, items, madeCards, starts>>

CreateDemoCard(p) ==
  /\ proc[p].pc = "demoCard" /\ madeCards < MaxDemo /\ madeCards' = madeCards + 1
  /\ demo' = demo \cup {[id |-> madeCards', name |-> First(p), ver |-> proc[p].ver, secret |-> 0]}
  /\ Moves(p, [proc[p] EXCEPT !.pc = "demoSecret", !.have[First(p)] = madeCards'])
  /\ UNCHANGED <<fixed, lock, schemaVars, copy, source, dups, rowVars, merged, shelf, items, starts>>

\* _sync_credential gives the demo card the secret its source card has now.
SyncCredential(p) ==
  /\ proc[p].pc = "demoSecret"
  /\ demo' = (demo \ Mine(p)) \cup {[c EXCEPT !.secret = shelf.ver] : c \in Mine(p)}
  /\ Moves(p, [proc[p] EXCEPT !.pc = "demoNext", !.todo = @ \ {First(p)},
                               !.keep = @ \cup {proc[p].have[First(p)]}])
  /\ UNCHANGED <<fixed, lock, schemaVars, copy, source, dups, rowVars, merged, shelf, items, madeCards, starts>>

\* _remove_stale_demo_cards: the list, then the cards one by one with their runs, secret and Target.
ListStale(p) ==
  /\ proc[p].pc = "demoPrune"
  /\ Moves(p, [proc[p] EXCEPT !.pc = "demoDrop", !.todo = {c.id : c \in demo} \ proc[p].keep])
  /\ UNCHANGED <<fixed, lock, schemaVars, copy, source, dups, rowVars, merged, demoVars, starts>>

RemoveStale(p) ==
  /\ proc[p].pc = "demoDrop"
  /\ IF proc[p].todo = {} THEN Proceeds(p, "scenario") /\ UNCHANGED <<demo, lock>>
     ELSE \E d \in proc[p].todo :
            IF \E c \in demo : c.id = d
            THEN /\ demo' = {c \in demo : c.id # d}
                 /\ Moves(p, [proc[p] EXCEPT !.todo = @ \ {d}]) /\ UNCHANGED lock
            ELSE Aborts(p) /\ UNCHANGED demo
  /\ UNCHANGED <<fixed, schemaVars, copy, source, dups, rowVars, merged, shelf, items, madeCards, starts>>

\* _sync_scenarios and _sync_test_packs: looked up by name, then created or updated.
SyncItem(p) ==
  LET k == proc[p].pc IN
  /\ k \in Item
  /\ IF ~proc[p].looked
     THEN /\ Moves(p, [proc[p] EXCEPT !.looked = TRUE, !.saw = (items[k] # <<>>), !.ver = shelf.ver])
          /\ UNCHANGED items
     ELSE /\ IF proc[p].saw THEN \E j \in 1 .. Len(items[k]) : items' = [items EXCEPT ![k][j] = proc[p].ver]
             ELSE items' = [items EXCEPT ![k] = Append(@, proc[p].ver)]
          /\ Proceeds(p, IF k = "scenario" THEN "pack" ELSE "targets")
  /\ UNCHANGED <<fixed, lock, schemaVars, copy, source, dups, rowVars, merged, shelf, demo, madeCards, starts>>

\* seed_demo_targets; remove_demo_character_cards then finds the built-in cards long gone.
SeedDemoTargets(p) ==
  /\ proc[p].pc = "targets" /\ proc[p].looked
  /\ IF Refused(p) THEN Aborts(p) /\ UNCHANGED rows
     ELSE rows' = [rows EXCEPT !.targets = TRUE] /\ Proceeds(p, "services") /\ UNCHANGED lock
  /\ UNCHANGED <<fixed, schemaVars, copy, source, dups, tz, chosen, merged, demoVars, starts>>

----------------------------------------------------------------------------
\* lifespan and serve: the services start in order, and one that fails stops those before it.
StartServices(p) ==
  /\ proc[p].pc = "services"
  /\ \/ Proceeds(p, "serving") /\ UNCHANGED lock
     \/ Aborts(p)
  /\ UNCHANGED <<fixed, schemaVars, copy, source, dups, rowVars, merged, demoVars, starts>>

\* A process ends, orderly or not; its connection's locks go with it.
Stop(p) ==
  /\ proc[p].pc # "off"
  /\ Moves(p, Idle) /\ lock' = IF lock = p THEN NoProc ELSE lock
  /\ UNCHANGED <<fixed, schemaVars, copy, source, dups, rowVars, merged, demoVars, starts>>

Served == \E p \in Proc : proc[p].pc = "serving" /\ proc[p].kind = "api"

\* set_timezone of the running system, and the Super Admin's work on cards, secrets and scenarios.
SetTimezone ==
  /\ Served /\ tz' = "utc" /\ chosen' = TRUE
  /\ UNCHANGED <<fixed, lock, schemaVars, copy, source, dups, rows, merged, demoVars, proc, starts>>

EditShelf ==
  /\ Served /\ shelf.ver <= MaxEdits
  /\ \E n \in Names : shelf' \in {[shelf EXCEPT !.cards = IF n \in @ THEN @ \ {n} ELSE @ \cup {n}, !.ver = @ + 1]}
  /\ proc' = [p \in Proc |-> [proc[p] EXCEPT !.alone = FALSE]]
  /\ UNCHANGED <<fixed, lock, schemaVars, copy, source, dups, rowVars, merged, demo, items, madeCards, starts>>

\* Outside the code: the owner repairs duplicate deployments, the source file is written to.
RepairDuplicates ==
  /\ dups /\ dups' = FALSE
  /\ UNCHANGED <<fixed, lock, schemaVars, copy, source, rowVars, merged, demoVars, proc, starts>>

SourceChanges ==
  /\ source.fp = 1 /\ source' = [source EXCEPT !.fp = 2]
  /\ UNCHANGED <<fixed, lock, schemaVars, copy, dups, rowVars, merged, demoVars, proc, starts>>

StorageInit ==
  /\ dialect \in {"postgresql", "sqlite"} /\ production \in BOOLEAN /\ lock = NoProc
  /\ ledger = {} /\ cutover = "none"
  /\ ddl \in {{}, {"tables"}} /\ legacy \in BOOLEAN /\ dups \in BOOLEAN
  /\ privacy \in [status : {"none"}, unsafe : BOOLEAN]
  /\ (ddl = {} => ~legacy /\ ~dups /\ ~privacy.unsafe)
  /\ copy = [status |-> "none", fp |-> 0]
  /\ source \in [fp : {1}, served : BOOLEAN, dups : BOOLEAN, current : BOOLEAN]
  /\ tz = "utc" /\ chosen = FALSE
  /\ rows = [identity |-> NoProc, marker |-> FALSE, user |-> [u \in Users |-> "none"], profile |-> FALSE,
             targets |-> FALSE]
  /\ merged = FALSE
  /\ shelf \in [cards : SUBSET Names, ver : {1}] /\ demo = {} /\ items = [k \in Item |-> <<>>] /\ madeCards = 0
  /\ proc = [p \in Proc |-> Idle] /\ starts = 0

InitializeStep(p) ==
  \/ InitializeLock(p) \/ CreateSchemaMetadata(p) \/ Look(p) \/ RunMigration(p) \/ RecordRevision(p)
  \/ EnsureColumns(p) \/ AssertNoIncompleteCopy(p) \/ ClaimCutover(p) \/ RetireLegacyStorage(p)
  \/ CompleteCutover(p) \/ DiscordEventPrivacy(p) \/ EnsureRuntimeInvariants(p)
CopyStep(p) == PrepareTarget(p) \/ CopyAllTables(p) \/ MarkCompleted(p) \/ MarkFailed(p)
RowStep(p) == MigrateLegacyUtc(p) \/ EnsureStorageInstanceId(p) \/ EnsureUser(p) \/ Centralize(p)
              \/ SeedDemoTargets(p)
DemoStep(p) ==
  EnsureDemoUser(p) \/ ReadCards(p) \/ NextCard(p) \/ CreateDemoCard(p) \/ SyncCredential(p)
  \/ ListStale(p) \/ RemoveStale(p) \/ SyncItem(p)

StorageNext ==
  \/ \E p \in Proc :
       \/ \E kind \in {"api", "worker", "copy"} : Start(p, kind)
       \/ InitializeStep(p) \/ CopyStep(p) \/ RowStep(p) \/ DemoStep(p) \/ StartServices(p) \/ Stop(p)
  \/ SetTimezone \/ EditShelf \/ RepairDuplicates \/ SourceChanges

StorageSpec == StorageInit /\ [][StorageNext]_storageVars

----------------------------------------------------------------------------
\* What a process that serves can rely on.  Every revision is in the ledger and its objects exist,
\* the retired stores and the unsafe events are gone, and no duplicate deployment is left where the
\* unique index stands; the storage identity it was told is the one the database still has; its
\* start did not begin under a copy that is still unfinished or has failed.  No copy is ever merged
\* with rows of another process, a UTC timezone somebody chose is never taken for the old default by a
\* process that starts late, and a demo synchronization that nothing interfered with leaves one
\* up-to-date card, with its current secret, for each selected card.
StartsWhole ==
  /\ \A p \in Proc : proc[p].pc = "serving" =>
       /\ Range(Revisions) \subseteq ledger
       /\ {"tables", "author", "fingerprint", "unique"} \subseteq ddl
       /\ ~legacy /\ ~privacy.unsafe
       /\ proc[p].began \in {"running", "failed"} => copy.status = "completed"
       /\ proc[p].kind = "api" => proc[p].id = rows.identity
       /\ dialect = "postgresql" => {"vector", "embedding"} \subseteq ddl /\ cutover = "completed"
  /\ dialect = "postgresql" /\ "unique" \in ddl => ~dups
  /\ "embedding" \in ddl => "vector" \in ddl
  /\ ~merged
  /\ (chosen => tz = "utc")
  /\ \A p \in Proc : proc[p].alone /\ proc[p].pc \in {"scenario", "pack"} =>
       /\ {[name |-> c.name, ver |-> c.ver, secret |-> c.secret] : c \in demo}
            = {[name |-> n, ver |-> shelf.ver, secret |-> shelf.ver] : n \in Selected(shelf.cards)}
       /\ Cardinality(demo) = Cardinality(Selected(shelf.cards))
=============================================================================
