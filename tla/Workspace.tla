----------------------------- MODULE Workspace -----------------------------
(***************************************************************************)
(* The records an owner keeps in the studio: Targets, Character Cards with *)
(* their credentials and prompt versions, Scenarios, Test Packs and Runs,  *)
(* the archive they are exported to, and the quotas they are created       *)
(* under (security_controls, workspace_repository, repository and their    *)
(* routes).                                                                *)
(*                                                                         *)
(* A quota is counted by one statement and used up by a later one.  What   *)
(* keeps two requests of one owner from using the same place twice is the  *)
(* owner admission lock, which every mutating request holds from its first *)
(* dependency to its answer; only the routes of Trials go without it.  A   *)
(* request that decides before it writes therefore takes two steps here,   *)
(* and every other one a single step that waits for the lock.              *)
(***************************************************************************)
EXTENDS Naturals, FiniteSets, Functions

CONSTANTS Owner,        \* accounts, the local workspace among them
          LocalOwner,   \* owner of what was made before there were accounts
          Target, Card, Scenario, Pack, Run,  \* identifiers of records
          Demo,         \* the public demo Target
          Desk,         \* requests being handled
          MaxCards,     \* max_characters_per_user
          MaxRecords,   \* max_workspace_records_per_user
          MaxConfig,    \* bound: prompt configurations of a Target
          MaxPackVersion, \* bound: revisions of a Test Pack
          NoOne, NoRef

ASSUME WorkspaceAssumption ==
  /\ LocalOwner \in Owner /\ NoOne \notin Owner /\ NoRef \notin Scenario \cup Pack
  /\ IsFiniteSet(Card)
  /\ Demo \notin Target /\ MaxCards \in Nat /\ MaxRecords \in Nat
  /\ MaxConfig \in Nat \ {0} /\ MaxPackVersion \in Nat \ {0}

VARIABLES targets,   \* targets: the prompt configuration (0: no row) and the Card it names
          access,    \* target_ownership
          cards,     \* character_cards
          vault,     \* Cards with a credential of their own
          prompts,   \* prompt_versions: the configurations captured for a Card
          scenarios, \* custom_scenarios: their owner
          packs,     \* test_packs with their items
          runs,      \* trial_runs, character_trials and run_snapshots
          gone,      \* owners whose account was deleted
          archive,   \* the last archive exported
          desk       \* requests that have decided and not yet written

wsVars == <<targets, access, cards, vault, prompts, scenarios, packs, runs, gone, archive, desk>>

NoTarget == [config |-> 0, profile |-> NoRef]
NoCard == [owner |-> NoOne, target |-> Demo]
NoPack == [owner |-> NoOne, items |-> {}, version |-> 0]
NoRun == [row |-> FALSE, target |-> Demo, link |-> NoRef,
          owner |-> NoOne, card |-> NoRef, pack |-> NoRef, baseline |-> FALSE, of |-> NoRef]
Idle == [op |-> "none", owner |-> NoOne, mode |-> "none", card |-> NoRef, run |-> NoRef, body |-> {}]

\* Every table but those of Cards and Runs.
WorkspaceTables ==
  /\ targets = [t \in Target |-> NoTarget]
  /\ access = {} /\ vault = {}
  /\ prompts = [c \in Card |-> {}]
  /\ scenarios = [s \in Scenario |-> NoOne]
  /\ packs = [p \in Pack |-> NoPack]
  /\ gone = {} /\ archive = {}
  /\ desk = [d \in Desk |-> Idle]

----------------------------------------------------------------------------
(* Ownership, quotas and admission.                                        *)

CardsOf(o) == {c \in Card : cards[c].owner = o}
ScenariosOf(o) == {s \in Scenario : scenarios[s] = o}
PacksOf(o) == {p \in Pack : packs[p].owner = o}
RunsOf(o) == {r \in Run : runs[r].owner = o}

HasTarget(t) == t # Demo => targets[t].config > 0
CanAccess(o, t) ==
  t = Demo \/ <<o, t>> \in access \/ \E c \in CardsOf(o) : cards[c].target = t

\* What counts() counts; only the quota of Characters is small enough here to bite.
Total(o) == Cardinality(CardsOf(o)) + Cardinality(ScenariosOf(o))
            + Cardinality(PacksOf(o)) + Cardinality(RunsOf(o))
WithinQuota(o, nCards, n) ==
  /\ nCards > 0 => Cardinality(CardsOf(o)) + nCards <= MaxCards
  /\ Total(o) + n <= MaxRecords

\* Mutant of Admitted.
AdmittedAlways(o) == TRUE

\* owner_quota_admission: no other request of the owner is between its
\* first dependency and its answer.  start_trial never asks for it.
Admitted(o) == \A d \in Desk : desk[d].owner = o => desk[d].op = "trial"

\* A mutating request of o that decides and writes in one transaction.
Request(o) == o \in Owner \ gone /\ Admitted(o) /\ UNCHANGED <<archive, desk>>

Begin(d, o, op, mode) ==
  /\ desk[d] = Idle /\ o \notin gone /\ Admitted(o)
  /\ desk' = [desk EXCEPT ![d] = [Idle EXCEPT !.op = op, !.owner = o, !.mode = mode]]
  /\ UNCHANGED <<targets, access, cards, vault, prompts, scenarios, packs, runs, archive, gone>>

Replied(d) == desk' = [desk EXCEPT ![d] = Idle]

\* A request that fails after it decided writes nothing.
GiveUp(d) == desk[d].op # "none" /\ Replied(d)
             /\ UNCHANGED <<targets, access, cards, vault, prompts, scenarios, packs, runs, archive, gone>>

----------------------------------------------------------------------------
(* Targets, Character Cards, their credentials and prompt versions.        *)

CreateTarget(o, t) ==
  /\ Request(o) /\ targets[t] = NoTarget
  /\ targets' = [targets EXCEPT ![t].config = 1]
  /\ access' = access \cup {<<o, t>>}
  /\ UNCHANGED <<cards, vault, prompts, scenarios, packs, runs, gone>>

\* The grant goes first and comes back when the row must stay.
DeleteTarget(o, t) ==
  /\ Request(o) /\ HasTarget(t) /\ CanAccess(o, t)
  /\ \/ \E c \in Card : cards[c].owner # NoOne /\ cards[c].target = t
        /\ access' = access \cup {<<o, t>>} /\ UNCHANGED targets
     \/ /\ ~\E c \in Card : cards[c].owner # NoOne /\ cards[c].target = t
        /\ access' = access \ {<<o, t>>}
        /\ targets' = IF \E r \in Run : runs[r].row /\ runs[r].target = t THEN targets
                      ELSE [targets EXCEPT ![t] = NoTarget]
  /\ UNCHANGED <<cards, vault, prompts, scenarios, packs, runs, gone>>

\* _sync_prompt_profile: the Target of a Card carries the profile of the
\* Card that was written or read last.
Synced(tt, c, t) == IF t = Demo THEN tt ELSE [tt EXCEPT ![t].profile = c]

\* capture_prompt_version
Captured(pv, c, t, tt) == IF t = Demo THEN pv ELSE [pv EXCEPT ![c] = @ \cup {tt[t].config}]

AskCard(d, o) == WithinQuota(o, 1, 1) /\ \E kind \in {"card", "prompt"} : Begin(d, o, kind, "none")

CreateCharacter(d, c, t) ==
  LET o == desk[d].owner IN
  /\ desk[d].op = "card" /\ cards[c] = NoCard
  /\ HasTarget(t) /\ CanAccess(o, t)
  /\ cards' = [cards EXCEPT ![c] = [owner |-> o, target |-> t]]
  /\ targets' = Synced(targets, c, t)
  /\ prompts' = Captured(prompts, c, t, targets')
  /\ Replied(d)
  /\ UNCHANGED <<access, vault, scenarios, packs, runs, archive, gone>>

\* Five commits; a process that dies between two of them leaves the first ones.
\* Without a vault the Card, the grant and the Target are taken back.
CreatePromptCharacter(d, c, t, done) ==
  LET o == desk[d].owner IN
  /\ desk[d].op = "prompt" /\ cards[c] = NoCard /\ targets[t] = NoTarget
  /\ targets' = [targets EXCEPT ![t] = [config |-> 1, profile |-> IF done >= 3 THEN c ELSE NoRef]]
  /\ access' = IF done >= 2 THEN access \cup {<<o, t>>} ELSE access
  /\ cards' = IF done >= 3 THEN [cards EXCEPT ![c] = [owner |-> o, target |-> t]] ELSE cards
  /\ vault' = IF done >= 4 THEN vault \cup {c} ELSE vault
  /\ prompts' = IF done >= 5 THEN [prompts EXCEPT ![c] = @ \cup {1}] ELSE prompts
  /\ Replied(d)
  /\ UNCHANGED <<scenarios, packs, runs, archive, gone>>

UpdateCharacter(o, c, config) ==
  LET t == cards[c].target
      old == targets[t].config IN
  /\ Request(o) /\ cards[c].owner = o /\ t # Demo /\ HasTarget(t)
  /\ targets' = [targets EXCEPT ![t] = [config |-> config, profile |-> c]]
  /\ prompts' = IF config = old THEN prompts ELSE Captured(prompts, c, t, targets')
  /\ UNCHANGED <<access, cards, vault, scenarios, packs, runs, gone>>

\* Reading a Card synchronizes it too, and a read asks for no admission.
ReadCharacter(c) ==
  /\ cards[c].owner # NoOne /\ HasTarget(cards[c].target)
  /\ targets' = Synced(targets, c, cards[c].target)
  /\ UNCHANGED <<access, cards, vault, prompts, scenarios, packs, runs, archive, desk, gone>>

ConfigureCredential(o, c) ==
  /\ Request(o) /\ cards[c].owner = o /\ cards[c].target # Demo /\ HasTarget(cards[c].target)
  /\ vault' = vault \cup {c}
  /\ UNCHANGED <<targets, access, cards, prompts, scenarios, packs, runs, gone>>

ClearCredential(o, c) ==
  /\ Request(o) /\ cards[c].owner = o
  /\ vault' = vault \ {c}
  /\ UNCHANGED <<targets, access, cards, prompts, scenarios, packs, runs, gone>>

----------------------------------------------------------------------------
(* Scenarios and Test Packs.                                               *)

AskRecord(d, o, kind) == kind \in {"scenario", "pack"} /\ WithinQuota(o, 0, 1) /\ Begin(d, o, kind, "none")

CreateScenario(d, s) ==
  /\ desk[d].op = "scenario" /\ scenarios[s] = NoOne
  /\ scenarios' = [scenarios EXCEPT ![s] = desk[d].owner]
  /\ Replied(d)
  /\ UNCHANGED <<targets, access, cards, vault, prompts, packs, runs, archive, gone>>

DuplicateScenario(d, s, from) == from \in ScenariosOf(desk[d].owner) /\ CreateScenario(d, s)

DeleteScenario(o, s) ==
  /\ Request(o) /\ scenarios[s] = o
  /\ scenarios' = [scenarios EXCEPT ![s] = NoOne]
  /\ packs' = [p \in Pack |-> [packs[p] EXCEPT !.items = @ \ {s}]]
  /\ UNCHANGED <<targets, access, cards, vault, prompts, runs, gone>>

CreatePack(d, p, items) ==
  LET o == desk[d].owner IN
  /\ desk[d].op = "pack" /\ packs[p] = NoPack /\ items \subseteq ScenariosOf(o)
  /\ packs' = [packs EXCEPT ![p] = [owner |-> o, items |-> items, version |-> 1]]
  /\ Replied(d)
  /\ UNCHANGED <<targets, access, cards, vault, prompts, scenarios, runs, archive, gone>>

DuplicatePack(d, p, from) == from \in PacksOf(desk[d].owner) /\ CreatePack(d, p, packs[from].items)

UpdatePack(o, p, items) ==
  /\ Request(o) /\ packs[p].owner = o /\ items \subseteq ScenariosOf(o)
  /\ packs[p].version < MaxPackVersion
  /\ packs' = [packs EXCEPT ![p].items = items, ![p].version = @ + 1]
  /\ UNCHANGED <<targets, access, cards, vault, prompts, scenarios, runs, gone>>

DeletePack(o, p) ==
  /\ Request(o) /\ packs[p].owner = o
  /\ packs' = [packs EXCEPT ![p] = NoPack]
  /\ UNCHANGED <<targets, access, cards, vault, prompts, scenarios, runs, gone>>

----------------------------------------------------------------------------
(* Runs.  The row and its snapshot are two commits.                        *)

AskTrial(d, o, c) ==
  /\ desk[d] = Idle /\ o \notin gone /\ WithinQuota(o, 0, 1)
  /\ cards[c].owner = o /\ HasTarget(cards[c].target)
  /\ desk' = [desk EXCEPT ![d] = [Idle EXCEPT !.op = "trial", !.owner = o, !.card = c]]
  /\ UNCHANGED <<targets, access, cards, vault, prompts, scenarios, packs, runs, archive, gone>>

\* The foreign keys of the row and of its link to the Card are checked here.
CreateRun(d, r) ==
  LET c == desk[d].card IN
  /\ desk[d].op = "trial" /\ desk[d].run = NoRef /\ ~runs[r].row
  /\ cards[c].owner # NoOne /\ HasTarget(cards[c].target)
  /\ runs' = [runs EXCEPT ![r] = [NoRun EXCEPT !.row = TRUE, !.target = cards[c].target, !.link = c]]
  /\ desk' = [desk EXCEPT ![d].run = r]
  /\ UNCHANGED <<targets, access, cards, vault, prompts, scenarios, packs, archive, gone>>

SaveRunSnapshot(d, p, of) ==
  LET o == desk[d].owner
      r == desk[d].run IN
  /\ desk[d].op = "trial" /\ r # NoRef /\ runs[r].row
  /\ p \in PacksOf(o) \cup {NoRef}
  /\ of \in {q \in RunsOf(o) : runs[q].card = desk[d].card} \cup {NoRef}  \* rerun
  /\ runs' = [runs EXCEPT ![r] = [@ EXCEPT !.owner = o, !.card = desk[d].card, !.pack = p, !.of = of]]
  /\ Replied(d)
  /\ UNCHANGED <<targets, access, cards, vault, prompts, scenarios, packs, archive, gone>>

SetBaseline(o, r, value) ==
  /\ Request(o) /\ runs[r].owner = o
  /\ runs' = [q \in Run |->
       IF q = r THEN [runs[q] EXCEPT !.baseline = value]
       ELSE IF value /\ runs[q].owner = o /\ runs[q].card = runs[r].card /\ runs[q].pack = runs[r].pack
       THEN [runs[q] EXCEPT !.baseline = FALSE] ELSE runs[q]]
  /\ UNCHANGED <<targets, access, cards, vault, prompts, scenarios, packs, gone>>

DeleteRun(o, r) ==
  /\ Request(o) /\ runs[r].owner = o
  /\ runs' = [runs EXCEPT ![r] = NoRun]
  /\ UNCHANGED <<targets, access, cards, vault, prompts, scenarios, packs, gone>>

DeleteCharacter(o, c) ==
  /\ Request(o) /\ cards[c].owner = o
  /\ cards' = [cards EXCEPT ![c] = NoCard]
  /\ runs' = [r \in Run |-> IF runs[r].link = c THEN [runs[r] EXCEPT !.link = NoRef] ELSE runs[r]]
  /\ UNCHANGED <<targets, access, vault, prompts, scenarios, packs, gone>>

----------------------------------------------------------------------------
(* The archive of a workspace, and the two ways a workspace changes hands. *)

ExportWorkspace(o) ==
  /\ archive' = {[
       targets |-> Restrict(targets, {t \in Target : HasTarget(t) /\ \E c \in CardsOf(o) : cards[c].target = t}),
       cards |-> Restrict(cards, CardsOf(o)),
       scenarios |-> ScenariosOf(o),
       packs |-> Restrict(packs, PacksOf(o)),
       runs |-> Restrict(runs, RunsOf(o))]}
  /\ UNCHANGED <<targets, access, cards, vault, prompts, scenarios, packs, runs, desk, gone>>

\* require: what a row of the archive names is the owner's if it exists, and
\* is there after the import.
OwnTarget(o, a, t) == /\ HasTarget(t) => CanAccess(o, t)
                      /\ t \in DOMAIN a.targets \/ HasTarget(t)
OwnCard(o, a, c, mode) == /\ cards[c].owner \in {o, NoOne}
                          /\ c \in DOMAIN a.cards \/ (cards[c].owner = o /\ mode = "merge")
OwnPack(o, a, p, mode) == /\ packs[p].owner \in {o, NoOne}
                          /\ p \in DOMAIN a.packs \/ (packs[p].owner = o /\ mode = "merge")
OwnScenario(o, a, s, mode) == /\ scenarios[s] \in {o, NoOne}
                              /\ s \in a.scenarios \/ (scenarios[s] = o /\ mode = "merge")
OwnRun(o, a, r, mode) == /\ runs[r].row => runs[r].owner = o
                         /\ r \in DOMAIN a.runs \/ (runs[r].row /\ mode = "merge")

\* _validate_import_graph
ValidGraph(o, a, mode) ==
  /\ \A t \in DOMAIN a.targets : OwnTarget(o, a, t)
  /\ \A c \in DOMAIN a.cards : OwnCard(o, a, c, mode) /\ OwnTarget(o, a, a.cards[c].target)
  /\ \A s \in a.scenarios : OwnScenario(o, a, s, mode)
  /\ \A p \in DOMAIN a.packs : /\ OwnPack(o, a, p, mode)
                               /\ \A s \in a.packs[p].items : OwnScenario(o, a, s, mode)
  /\ \A r \in DOMAIN a.runs :
       /\ OwnRun(o, a, r, mode) /\ OwnTarget(o, a, a.runs[r].target)
       /\ \A c \in {a.runs[r].card, a.runs[r].link} \ {NoRef} : OwnCard(o, a, c, mode)
       /\ \A p \in {a.runs[r].pack} \ {NoRef} : OwnPack(o, a, p, mode)
       /\ \A q \in {a.runs[r].of} \ {NoRef} : OwnRun(o, a, q, mode)

AskImport(d, o, mode) ==
  /\ mode \in {"merge", "replace"}
  /\ \E a \in archive :
       /\ WithinQuota(o, Cardinality(DOMAIN a.cards),
                      Cardinality(DOMAIN a.cards) + Cardinality(a.scenarios)
                      + Cardinality(DOMAIN a.packs) + Cardinality(DOMAIN a.runs))
       /\ ValidGraph(o, a, mode)
       /\ desk[d] = Idle /\ o \notin gone /\ Admitted(o)
       /\ desk' = [desk EXCEPT ![d] = [Idle EXCEPT !.op = "import", !.owner = o, !.mode = mode, !.body = {a}]]
  /\ UNCHANGED <<targets, access, cards, vault, prompts, scenarios, packs, runs, archive, gone>>

\* _delete_owner_workspace: Runs without a snapshot are nobody's and stay.
CardsWithout(o) == [c \in Card |-> IF cards[c].owner = o THEN NoCard ELSE cards[c]]
ScenariosWithout(o) == [s \in Scenario |-> IF scenarios[s] = o THEN NoOne ELSE scenarios[s]]
PacksWithout(o) == [p \in Pack |-> IF packs[p].owner = o THEN NoPack ELSE packs[p]]
RunsWithout(o) == [r \in Run |-> IF runs[r].owner = o THEN NoRun ELSE runs[r]]

\* Foreign keys: the link of a Run holds its Card, an item of a Pack its Scenario.
KeysHold(cc, ss, pp, rr) ==
  /\ \A r \in Run : rr[r].link # NoRef => cc[rr[r].link].owner # NoOne
  /\ \A p \in Pack : \A s \in pp[p].items : ss[s] # NoOne

\* _import_records: a row that exists is left alone, whoever owns it by
\* now; the items a Pack had are added to the ones it has.
ImportWorkspace(d) ==
  \E a \in desk[d].body :
    LET o == desk[d].owner
        keep == desk[d].mode = "merge"
        cards0 == IF keep THEN cards ELSE CardsWithout(o)
        scenarios0 == IF keep THEN scenarios ELSE ScenariosWithout(o)
        packs0 == IF keep THEN packs ELSE PacksWithout(o)
        runs0 == IF keep THEN runs ELSE RunsWithout(o)
        held == {t \in DOMAIN a.targets : HasTarget(t)} IN
    /\ desk[d].op = "import"
    /\ KeysHold(cards0, scenarios0, packs0, runs0)
    /\ targets' = [t \in Target |-> IF t \in DOMAIN a.targets \ held THEN a.targets[t] ELSE targets[t]]
    /\ cards' = [c \in Card |-> IF c \in DOMAIN a.cards /\ cards0[c] = NoCard
                                THEN [a.cards[c] EXCEPT !.owner = o] ELSE cards0[c]]
    /\ scenarios' = [s \in Scenario |-> IF s \in a.scenarios /\ scenarios0[s] = NoOne
                                        THEN o ELSE scenarios0[s]]
    /\ packs' = [p \in Pack |-> IF p \notin DOMAIN a.packs THEN packs0[p]
                                ELSE IF packs0[p] = NoPack THEN [a.packs[p] EXCEPT !.owner = o]
                                ELSE [packs0[p] EXCEPT !.items = @ \cup a.packs[p].items]]
    /\ runs' = [r \in Run |-> IF r \notin DOMAIN a.runs THEN runs0[r]
                              ELSE IF ~runs0[r].row THEN [a.runs[r] EXCEPT !.owner = o]
                              ELSE [runs0[r] EXCEPT !.link = IF @ = NoRef THEN a.runs[r].link ELSE @]]
    /\ KeysHold(cards', scenarios', packs', runs')
    /\ access' = access \cup ({o} \X DOMAIN a.targets)
    /\ Replied(d)
    /\ UNCHANGED <<vault, prompts, archive, gone>>

\* Everything of the local workspace at once, past every quota.
ClaimLocalWorkspace(o) ==
  LET moved == {c \in Card : cards[c].owner \in {o, LocalOwner}} IN
  /\ Request(o) /\ o # LocalOwner
  /\ cards' = [c \in Card |-> IF cards[c].owner = LocalOwner THEN [cards[c] EXCEPT !.owner = o] ELSE cards[c]]
  /\ scenarios' = [s \in Scenario |-> IF scenarios[s] = LocalOwner THEN o ELSE scenarios[s]]
  /\ packs' = [p \in Pack |-> IF packs[p].owner = LocalOwner THEN [packs[p] EXCEPT !.owner = o] ELSE packs[p]]
  /\ runs' = [r \in Run |-> IF runs[r].owner = LocalOwner THEN [runs[r] EXCEPT !.owner = o] ELSE runs[r]]
  /\ access' = {g \in access : g[1] # LocalOwner}
               \cup {<<o, t>> : t \in {u \in Target : \/ <<LocalOwner, u>> \in access
                                                      \/ \E c \in moved : cards[c].target = u}}
  /\ UNCHANGED <<targets, vault, prompts, gone>>

\* _delete_workspace: a Target goes with its last Card and its last owner.
DeleteWorkspace(o) ==
  LET mine == CardsOf(o) IN
  /\ Request(o) /\ o # LocalOwner
  /\ KeysHold(CardsWithout(o), ScenariosWithout(o), PacksWithout(o), RunsWithout(o))
  /\ gone' = gone \cup {o}
  /\ cards' = CardsWithout(o)
  /\ scenarios' = ScenariosWithout(o)
  /\ packs' = PacksWithout(o)
  /\ runs' = RunsWithout(o)
  /\ prompts' = [c \in Card |-> IF c \in mine THEN {} ELSE prompts[c]]
  /\ vault' = vault \ mine
  /\ access' = {g \in access : g[1] # o}
  /\ targets' = [t \in Target |->
       IF /\ \E c \in mine : cards[c].target = t
          /\ ~\E c \in Card : cards'[c].owner # NoOne /\ cards'[c].target = t
          /\ ~\E g \in access' : g[2] = t
       THEN NoTarget ELSE targets[t]]
  /\ \A r \in Run : runs'[r].row => (runs'[r].target # Demo => targets'[runs'[r].target] # NoTarget)

CharacterStep ==
  \/ \E o \in Owner, t \in Target : CreateTarget(o, t) \/ DeleteTarget(o, t)
  \/ \E d \in Desk, o \in Owner : AskCard(d, o)
  \/ \E d \in Desk, c \in Card, t \in Target \cup {Demo} : CreateCharacter(d, c, t)
  \/ \E d \in Desk, c \in Card, t \in Target, done \in 1..5 : CreatePromptCharacter(d, c, t, done)
  \/ \E o \in Owner, c \in Card, config \in 1..MaxConfig : UpdateCharacter(o, c, config)
  \/ \E c \in Card : ReadCharacter(c)
  \/ \E o \in Owner, c \in Card : \/ ConfigureCredential(o, c)
                                  \/ ClearCredential(o, c)
                                  \/ DeleteCharacter(o, c)

PackStep ==
  \/ \E d \in Desk, o \in Owner, kind \in {"scenario", "pack"} : AskRecord(d, o, kind)
  \/ \E d \in Desk, s \in Scenario : CreateScenario(d, s) \/ \E from \in Scenario : DuplicateScenario(d, s, from)
  \/ \E o \in Owner, s \in Scenario : DeleteScenario(o, s)
  \/ \E d \in Desk, p \in Pack : \/ \E items \in SUBSET Scenario : CreatePack(d, p, items)
                                 \/ \E from \in Pack : DuplicatePack(d, p, from)
  \/ \E o \in Owner, p \in Pack : DeletePack(o, p) \/ \E items \in SUBSET Scenario : UpdatePack(o, p, items)

RunStep ==
  \/ \E d \in Desk, o \in Owner, c \in Card : AskTrial(d, o, c)
  \/ \E d \in Desk, r \in Run : CreateRun(d, r)
  \/ \E d \in Desk, p \in Pack \cup {NoRef}, of \in Run \cup {NoRef} : SaveRunSnapshot(d, p, of)
  \/ \E o \in Owner, r \in Run : DeleteRun(o, r) \/ \E value \in BOOLEAN : SetBaseline(o, r, value)

ArchiveStep ==
  \/ \E o \in Owner \ gone : ExportWorkspace(o)
  \/ \E d \in Desk, o \in Owner, mode \in {"merge", "replace"} : AskImport(d, o, mode)
  \/ \E d \in Desk : ImportWorkspace(d) \/ GiveUp(d)

----------------------------------------------------------------------------

\* However the requests of an owner overlap (two forms at once, an import
\* beside a form), none of them takes the owner past the quota of
\* Characters that enforce_create counts; only taking over the local
\* workspace may.
QuotaKept ==
  [][\A o \in Owner :
       LET before == CardsOf(o)
           after == {c \in Card : cards'[c].owner = o}
       IN  \/ Cardinality(after) <= Cardinality(before)
           \/ Cardinality(after) <= MaxCards
           \/ \E c \in after \ before : cards[c].owner = LocalOwner]_cards
=============================================================================
