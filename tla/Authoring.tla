----------------------------- MODULE Authoring -----------------------------
(***************************************************************************)
(* What the studio keeps for review: drafts of Scenarios and Test Packs    *)
(* that become formal ones when they are approved, calibration datasets    *)
(* with their Cases and versions, and the evaluations of judges on them    *)
(* (authoring_repository, authoring_generation, template_sharing,          *)
(* calibration_repository, judge_evaluation and their routes), together    *)
(* with the two ways a whole studio changes hands.                         *)
(*                                                                         *)
(* An approval reads the draft, then writes the formal record; a next      *)
(* version reads the highest one; a generation and an evaluation wait for  *)
(* a model.  All of them rely on the admission lock of Workspace.          *)
(***************************************************************************)
EXTENDS Workspace, Sequences

CONSTANTS Draft, PackDraft, Dataset, Evaluation, \* identifiers
          MaxRevision,  \* bound: revisions of a draft
          MaxCases      \* bound: Cases of a dataset

ASSUME AuthoringAssumption ==
  /\ Draft \cap (PackDraft \cup Scenario) = {}
  /\ MaxRevision \in Nat \ {0} /\ MaxCases \in Nat \ {0}

VARIABLES drafts,      \* authoring_scenario_drafts
          packDrafts,  \* authoring_test_pack_drafts with their items
          made,        \* history: the formal records made from a draft, and who approved it
          datasets,    \* calibration_datasets with their Cases
          evaluations, \* judge_evaluations with their predictions
          backup       \* the last archives of drafts and of datasets, the last share bundle

authoringVars == <<drafts, packDrafts, made, datasets, evaluations, backup>>

Formal(f, o) == [formal |-> f, by |-> o]
NoDraft == [owner |-> NoOne, status |-> "none", revision |-> 0, formal |-> NoRef]
NoPackDraft == [owner |-> NoOne, status |-> "none", revision |-> 0, formal |-> NoRef, items |-> {}]
NoDataset == [owner |-> NoOne, lineage |-> NoRef, version |-> 0, status |-> "none", cases |-> <<>>]
NoEvaluation == [owner |-> NoOne, dataset |-> NoRef, version |-> 0, status |-> "none", of |-> <<>>]

AuthoringInit ==
  /\ drafts = [x \in Draft |-> NoDraft]
  /\ packDrafts = [y \in PackDraft |-> NoPackDraft]
  /\ made = [z \in Draft \cup PackDraft |-> {}]
  /\ datasets = [z \in Dataset |-> NoDataset]
  /\ evaluations = [e \in Evaluation |-> NoEvaluation]
  /\ backup = [drafts |-> <<>>, packDrafts |-> <<>>, datasets |-> <<>>,
               bundle |-> [scenarios |-> {}, packs |-> <<>>]]

----------------------------------------------------------------------------
(* Drafts.                                                                 *)

NewDraft(o) == [owner |-> o, status |-> "draft", revision |-> 1, formal |-> NoRef]
NewPackDraft(o, items) ==
  [owner |-> o, status |-> "draft", revision |-> 1, formal |-> NoRef, items |-> items]

\* _validate_pack_references
Reference(o, item) == IF item \in Scenario THEN scenarios[item] = o ELSE drafts[item].owner = o

OnlyDrafts == UNCHANGED <<wsVars, packDrafts, datasets, evaluations, backup>>
OnlyPackDrafts == UNCHANGED <<wsVars, drafts, datasets, evaluations, backup>>

CreateScenarioDraft(o, x) ==
  /\ Request(o) /\ drafts[x] = NoDraft
  /\ drafts' = [drafts EXCEPT ![x] = NewDraft(o)]
  /\ UNCHANGED made /\ OnlyDrafts

\* Mutant of UpdateScenarioDraft.
UpdateAnyScenarioDraft(o, x) ==
  /\ Request(o) /\ drafts[x].owner = o /\ drafts[x].revision < MaxRevision
  /\ drafts' = [drafts EXCEPT ![x].status = "draft", ![x].revision = @ + 1]
  /\ UNCHANGED made /\ OnlyDrafts

UpdateScenarioDraft(o, x) ==
  /\ Request(o) /\ drafts[x].owner = o /\ drafts[x].status # "approved"
  /\ drafts[x].revision < MaxRevision
  /\ drafts' = [drafts EXCEPT ![x].status = "draft", ![x].revision = @ + 1]
  /\ UNCHANGED made /\ OnlyDrafts

RejectScenarioDraft(o, x) ==
  /\ Request(o) /\ drafts[x].owner = o /\ drafts[x].status # "approved"
  /\ drafts' = [drafts EXCEPT ![x].status = "rejected"]
  /\ UNCHANGED made /\ OnlyDrafts

DeleteScenarioDraft(o, x) ==
  /\ Request(o) /\ drafts[x].owner = o /\ drafts[x].status # "approved"
  /\ drafts' = [drafts EXCEPT ![x] = NoDraft]
  /\ packDrafts' = [y \in PackDraft |-> [packDrafts[y] EXCEPT !.items = @ \ {x}]]
  /\ made' = [made EXCEPT ![x] = {}]
  /\ UNCHANGED <<wsVars, datasets, evaluations, backup>>

CreateTestPackDraft(o, y, items) ==
  /\ Request(o) /\ packDrafts[y] = NoPackDraft /\ \A i \in items : Reference(o, i)
  /\ packDrafts' = [packDrafts EXCEPT ![y] = NewPackDraft(o, items)]
  /\ UNCHANGED made /\ OnlyPackDrafts

UpdateTestPackDraft(o, y, items) ==
  /\ Request(o) /\ packDrafts[y].owner = o /\ packDrafts[y].status # "approved"
  /\ packDrafts[y].revision < MaxRevision /\ \A i \in items : Reference(o, i)
  /\ packDrafts' = [packDrafts EXCEPT ![y].status = "draft", ![y].revision = @ + 1, ![y].items = items]
  /\ UNCHANGED made /\ OnlyPackDrafts

RejectTestPackDraft(o, y) ==
  /\ Request(o) /\ packDrafts[y].owner = o /\ packDrafts[y].status # "approved"
  /\ packDrafts' = [packDrafts EXCEPT ![y].status = "rejected"]
  /\ UNCHANGED made /\ OnlyPackDrafts

DeleteTestPackDraft(o, y) ==
  /\ Request(o) /\ packDrafts[y].owner = o /\ packDrafts[y].status # "approved"
  /\ packDrafts' = [packDrafts EXCEPT ![y] = NoPackDraft]
  /\ made' = [made EXCEPT ![y] = {}]
  /\ OnlyPackDrafts

----------------------------------------------------------------------------
(* Approval: the draft is read, then the formal record and the draft's new *)
(* status are written in one transaction.                                  *)

AskApproval(d, o, z) ==
  /\ IF z \in Draft THEN drafts[z].owner = o /\ drafts[z].status = "draft"
     ELSE packDrafts[z].owner = o /\ packDrafts[z].status = "draft"
  /\ desk[d] = Idle /\ o \notin gone /\ Admitted(o)
  /\ desk' = [desk EXCEPT ![d] = [Idle EXCEPT !.op = "approve", !.owner = o, !.body = {z}]]
  /\ UNCHANGED <<targets, access, cards, vault, prompts, scenarios, packs, runs, gone, archive>>
  /\ UNCHANGED authoringVars

ApproveScenarioDraft(d, x, s) ==
  /\ desk[d].op = "approve" /\ desk[d].body = {x} /\ drafts[x] # NoDraft /\ scenarios[s] = NoOne
  /\ scenarios' = [scenarios EXCEPT ![s] = desk[d].owner]
  /\ drafts' = [drafts EXCEPT ![x].status = "approved", ![x].formal = s]
  /\ made' = [made EXCEPT ![x] = @ \cup {Formal(s, desk[d].owner)}]
  /\ Replied(d)
  /\ UNCHANGED <<targets, access, cards, vault, prompts, packs, runs, gone, archive>>
  /\ UNCHANGED <<packDrafts, datasets, evaluations, backup>>

\* _resolve_approved_scenario_id
Resolved(item) == IF item \in Scenario THEN item ELSE drafts[item].formal
Resolvable(o, item) ==
  /\ item \in Draft => drafts[item].owner = o /\ drafts[item].status = "approved"
  /\ Resolved(item) \in ScenariosOf(o)

ApproveTestPackDraft(d, y, p) ==
  LET o == desk[d].owner
      items == packDrafts[y].items
      formal == {Resolved(i) : i \in items} IN
  /\ desk[d].op = "approve" /\ desk[d].body = {y} /\ packDrafts[y] # NoPackDraft /\ packs[p] = NoPack
  /\ \A i \in items : Resolvable(o, i)
  /\ Cardinality(formal) = Cardinality(items)
  /\ packs' = [packs EXCEPT ![p] = [owner |-> o, items |-> formal, version |-> 1]]
  /\ packDrafts' = [packDrafts EXCEPT ![y].status = "approved", ![y].formal = p]
  /\ made' = [made EXCEPT ![y] = @ \cup {Formal(p, o)}]
  /\ Replied(d)
  /\ UNCHANGED <<targets, access, cards, vault, prompts, scenarios, runs, gone, archive>>
  /\ UNCHANGED <<drafts, datasets, evaluations, backup>>

----------------------------------------------------------------------------
(* Drafts made together: by a model, from a template, from a share bundle. *)
(* Each is a commit of its own, the pack draft the last one; a process     *)
(* that dies leaves the first ones.                                        *)

DraftsAdded(o, new) == [x \in Draft |-> IF x \in new THEN NewDraft(o) ELSE drafts[x]]
Together(o, new, y) ==
  /\ new # {} /\ \A x \in new : drafts[x] = NoDraft
  /\ drafts' = DraftsAdded(o, new)
  /\ \/ UNCHANGED packDrafts
     \/ /\ packDrafts[y] = NoPackDraft
        /\ \E items \in SUBSET new \ {{}} : packDrafts' = [packDrafts EXCEPT ![y] = NewPackDraft(o, items)]
  /\ UNCHANGED <<made, datasets, evaluations, backup>>

AskGeneration(d, o, c) == cards[c].owner = o /\ Begin(d, o, "generate", "none") /\ UNCHANGED authoringVars

\* What the model proposes and the owner already has is dropped; the rest is kept.
Generate(d, new, y) ==
  /\ desk[d].op = "generate" /\ Together(desk[d].owner, new, y)
  /\ Replied(d)
  /\ UNCHANGED <<targets, access, cards, vault, prompts, scenarios, packs, runs, gone, archive>>

InstantiateTemplate(o, new, y) == Request(o) /\ Together(o, new, y) /\ UNCHANGED wsVars

\* A share bundle holds formal Scenarios and Packs with the Scenarios they name.
ExportBundle(o, ss, pp) ==
  /\ ss \subseteq ScenariosOf(o) /\ pp \subseteq PacksOf(o) /\ ss \cup pp # {}
  /\ backup' = [backup EXCEPT !.bundle =
       [scenarios |-> ss \cup UNION {packs[p].items : p \in pp}, packs |-> [p \in pp |-> packs[p].items]]]
  /\ UNCHANGED wsVars /\ UNCHANGED <<drafts, packDrafts, made, datasets, evaluations>>

\* Whoever imports it gets drafts; whole is FALSE when the process died before the packs.
ImportBundle(o, draftOf, packDraftOf, whole) ==
  LET b == backup.bundle IN
  /\ Request(o) /\ b.scenarios # {}
  /\ draftOf \in Injection(b.scenarios, {x \in Draft : drafts[x] = NoDraft})
  /\ packDraftOf \in Injection(DOMAIN b.packs, {y \in PackDraft : packDrafts[y] = NoPackDraft})
  /\ drafts' = DraftsAdded(o, Range(draftOf))
  /\ packDrafts' = [y \in PackDraft |->
       IF whole /\ y \in Range(packDraftOf)
       THEN NewPackDraft(o, {draftOf[s] : s \in b.packs[CHOOSE p \in DOMAIN b.packs : packDraftOf[p] = y]})
       ELSE packDrafts[y]]
  /\ UNCHANGED wsVars /\ UNCHANGED <<made, datasets, evaluations, backup>>

----------------------------------------------------------------------------
(* Calibration datasets.  Only a draft changes.                            *)

OnlyDatasets == UNCHANGED <<wsVars, drafts, packDrafts, made, evaluations, backup>>

CreateDataset(o, z) ==
  /\ Request(o) /\ datasets[z] = NoDataset
  /\ datasets' = [datasets EXCEPT ![z] =
       [owner |-> o, lineage |-> z, version |-> 1, status |-> "draft", cases |-> <<>>]]
  /\ OnlyDatasets

RequireDraft(o, z) == Request(o) /\ datasets[z].owner = o /\ datasets[z].status = "draft"

ApproveDataset(o, z) ==
  /\ RequireDraft(o, z) /\ datasets[z].cases # <<>>
  /\ datasets' = [datasets EXCEPT ![z].status = "approved"]
  /\ OnlyDatasets

ArchiveDataset(o, z) ==
  /\ Request(o) /\ datasets[z].owner = o
  /\ datasets' = [datasets EXCEPT ![z].status = "archived"]
  /\ OnlyDatasets

DeleteDataset(o, z) ==
  /\ RequireDraft(o, z)
  /\ datasets' = [datasets EXCEPT ![z] = NoDataset]
  /\ OnlyDatasets

\* uq_calibration_dataset_lineage_version
VersionsDiffer(dd) ==
  \A z1, z2 \in Dataset :
    (z1 # z2 /\ dd[z1].owner # NoOne /\ dd[z1].owner = dd[z2].owner /\ dd[z1].lineage = dd[z2].lineage)
      => dd[z1].version # dd[z2].version

Latest(o, lineage) ==
  CHOOSE v \in 1..Cardinality(Dataset) :
    /\ \E z \in Dataset : datasets[z].owner = o /\ datasets[z].lineage = lineage /\ datasets[z].version = v
    /\ \A z \in Dataset : (datasets[z].owner = o /\ datasets[z].lineage = lineage) => datasets[z].version <= v

CreateNextVersion(o, from, z) ==
  LET source == datasets[from] IN
  /\ Request(o) /\ source.owner = o /\ source.status # "draft" /\ datasets[z] = NoDataset
  /\ datasets' = [datasets EXCEPT ![z] =
       [source EXCEPT !.version = Latest(o, source.lineage) + 1, !.status = "draft"]]
  /\ VersionsDiffer(datasets')
  /\ OnlyDatasets

\* A Case written by hand; one taken from a completed Run keeps its Run.
AddCase(o, z, c, r) ==
  /\ RequireDraft(o, z) /\ Len(datasets[z].cases) < MaxCases
  /\ r # NoRef => runs[r].owner = o /\ c = runs[r].card
  /\ datasets' = [datasets EXCEPT ![z].cases = Append(@, [run |-> r, card |-> c])]
  /\ OnlyDatasets

\* An edited Case is the owner's words, no longer the Run's.
UpdateCase(o, z, i, c) ==
  /\ RequireDraft(o, z) /\ i \in DOMAIN datasets[z].cases
  /\ datasets' = [datasets EXCEPT ![z].cases[i] = [run |-> NoRef, card |-> c]]
  /\ OnlyDatasets

\* _normalize_positions closes the gap.
DeleteCase(o, z, i) ==
  /\ RequireDraft(o, z) /\ i \in DOMAIN datasets[z].cases
  /\ datasets' = [datasets EXCEPT ![z].cases =
       [j \in 1..(Len(@) - 1) |-> IF j < i THEN @[j] ELSE @[j + 1]]]
  /\ OnlyDatasets

----------------------------------------------------------------------------
(* Judge evaluations.                                                      *)

AskEvaluation(d, o, z) ==
  /\ datasets[z].owner = o /\ datasets[z].status = "approved"
  /\ desk[d] = Idle /\ o \notin gone /\ Admitted(o)
  /\ desk' = [desk EXCEPT ![d] = [Idle EXCEPT !.op = "evaluate", !.owner = o, !.body = {<<z, datasets[z]>>}]]
  /\ UNCHANGED <<targets, access, cards, vault, prompts, scenarios, packs, runs, gone, archive>>
  /\ UNCHANGED authoringVars

\* Which contract a Case is judged by.
ContractSource(o, case) ==
  IF case.run # NoRef THEN IF runs[case.run].owner = o THEN "run_snapshot" ELSE "generic"
  ELSE IF case.card # NoRef /\ cards[case.card].owner = o THEN "current_character" ELSE "generic"

\* hybrid needs both others; rules never fail, semantic may, hybrid fails with it.
EffectiveModes(modes) == IF "hybrid" \in modes THEN {"rules", "semantic", "hybrid"} ELSE modes
EvaluationStatus(modes, cases, failed) ==
  LET errors == Cardinality(failed) * Cardinality(modes \ {"rules"})
  IN  IF errors = 0 THEN "completed"
      ELSE IF errors = Len(cases) * Cardinality(modes) THEN "failed" ELSE "partial"

SaveEvaluation(d, e, modes, failed) ==
  \E pair \in desk[d].body :
    LET z == pair[1]
        read == pair[2] IN
    /\ desk[d].op = "evaluate" /\ datasets[z] # NoDataset /\ evaluations[e] = NoEvaluation
    /\ modes # {} /\ failed \subseteq DOMAIN read.cases
    /\ evaluations' = [evaluations EXCEPT ![e] =
         [owner |-> desk[d].owner, dataset |-> z, version |-> read.version,
          status |-> EvaluationStatus(EffectiveModes(modes), read.cases, failed),
          of |-> [i \in DOMAIN read.cases |-> ContractSource(desk[d].owner, read.cases[i])]]]
    /\ Replied(d)
    /\ UNCHANGED <<targets, access, cards, vault, prompts, scenarios, packs, runs, gone, archive>>
    /\ UNCHANGED <<drafts, packDrafts, made, datasets, backup>>

----------------------------------------------------------------------------
(* Archives of drafts and of datasets.                                     *)

DraftsOf(o) == {x \in Draft : drafts[x].owner = o}
PackDraftsOf(o) == {y \in PackDraft : packDrafts[y].owner = o}
DatasetsOf(o) == {z \in Dataset : datasets[z].owner = o}

ExportAuthoring(o) ==
  /\ backup' = [backup EXCEPT !.drafts = Restrict(drafts, DraftsOf(o)),
                              !.packDrafts = Restrict(packDrafts, PackDraftsOf(o))]
  /\ UNCHANGED wsVars /\ UNCHANGED <<drafts, packDrafts, made, datasets, evaluations>>

DraftsWithout(o) == [x \in Draft |-> IF drafts[x].owner = o THEN NoDraft ELSE drafts[x]]
PackDraftsWithout(o) == [y \in PackDraft |-> IF packDrafts[y].owner = o THEN NoPackDraft ELSE packDrafts[y]]
DatasetsWithout(o) == [z \in Dataset |-> IF datasets[z].owner = o THEN NoDataset ELSE datasets[z]]

\* One transaction: a draft that is there stays as it is, a new one comes
\* with its status, and an approval only with the record it made.
ImportAuthoring(o, mode) ==
  LET base == IF mode = "replace" THEN DraftsWithout(o) ELSE drafts
      packBase == IF mode = "replace" THEN PackDraftsWithout(o) ELSE packDrafts
      new == {x \in DOMAIN backup.drafts : base[x] = NoDraft}
      newPacks == {y \in DOMAIN backup.packDrafts : packBase[y] = NoPackDraft} IN
  /\ Request(o)
  /\ \A x \in DOMAIN backup.drafts : base[x].owner \in {o, NoOne}
  /\ \A y \in DOMAIN backup.packDrafts : packBase[y].owner \in {o, NoOne}
  /\ \A x \in new : backup.drafts[x].status = "approved" => backup.drafts[x].formal \in ScenariosOf(o)
  /\ drafts' = [x \in Draft |-> IF x \in new THEN [backup.drafts[x] EXCEPT !.owner = o] ELSE base[x]]
  /\ \A y \in newPacks :
       /\ backup.packDrafts[y].status = "approved" => backup.packDrafts[y].formal \in PacksOf(o)
       /\ \A i \in backup.packDrafts[y].items :
            IF i \in Scenario THEN scenarios[i] = o ELSE drafts'[i].owner = o
  /\ packDrafts' = [y \in PackDraft |->
       IF y \in newPacks THEN [backup.packDrafts[y] EXCEPT !.owner = o] ELSE packBase[y]]
  /\ made' = [z \in Draft \cup PackDraft |->
       LET now == IF z \in Draft THEN drafts'[z] ELSE packDrafts'[z]
           same == IF z \in Draft THEN base[z] = drafts[z] /\ z \notin new
                   ELSE packBase[z] = packDrafts[z] /\ z \notin newPacks
       IN  IF same THEN made[z] ELSE {Formal(f, o) : f \in {now.formal} \ {NoRef}}]
  /\ UNCHANGED wsVars /\ UNCHANGED <<datasets, evaluations, backup>>

ExportCalibration(o) ==
  /\ backup' = [backup EXCEPT !.datasets = Restrict(datasets, DatasetsOf(o))]
  /\ UNCHANGED wsVars /\ UNCHANGED <<drafts, packDrafts, made, datasets, evaluations>>

\* Where an identifier of the archive is another owner's, all of them are
\* given anew.  A dataset an evaluation names cannot be replaced.
Remapped(o) == \E z \in DOMAIN backup.datasets : datasets[z].owner \notin {o, NoOne}
ImportCalibration(o, mode, newId) ==
  LET base == IF mode = "replace" THEN DatasetsWithout(o) ELSE datasets
      lineageOf(l) == IF Remapped(o)
                      THEN newId[CHOOSE z \in DOMAIN newId : backup.datasets[z].lineage = l] ELSE l IN
  /\ Request(o)
  /\ newId \in Injection(DOMAIN backup.datasets, Dataset)
  /\ \A z \in DOMAIN newId : IF Remapped(o) THEN datasets[newId[z]] = NoDataset ELSE newId[z] = z
  /\ datasets' = [n \in Dataset |->
       IF base[n] # NoDataset \/ n \notin Range(newId) THEN base[n]
       ELSE LET old == backup.datasets[CHOOSE z \in DOMAIN newId : newId[z] = n]
            IN  [old EXCEPT !.owner = o, !.lineage = lineageOf(old.lineage)]]
  /\ \A e \in Evaluation : evaluations[e].owner # NoOne => base[evaluations[e].dataset] # NoDataset
  /\ VersionsDiffer(datasets')
  /\ OnlyDatasets

----------------------------------------------------------------------------
(* A studio changes hands.  Each table is a commit; done counts the ones   *)
(* after the workspace itself, and a claim that stopped may be repeated.   *)

ClaimStudio(o, done) ==
  /\ ClaimLocalWorkspace(o)
  /\ drafts' = IF done < 1 THEN drafts
               ELSE [x \in Draft |-> IF drafts[x].owner = LocalOwner THEN [drafts[x] EXCEPT !.owner = o] ELSE drafts[x]]
  /\ packDrafts' = IF done < 1 THEN packDrafts
                   ELSE [y \in PackDraft |-> IF packDrafts[y].owner = LocalOwner
                                             THEN [packDrafts[y] EXCEPT !.owner = o] ELSE packDrafts[y]]
  /\ datasets' = IF done < 2 THEN datasets
                 ELSE [z \in Dataset |-> IF datasets[z].owner = LocalOwner
                                         THEN [datasets[z] EXCEPT !.owner = o] ELSE datasets[z]]
  /\ VersionsDiffer(datasets')
  /\ evaluations' = IF done < 3 THEN evaluations
                    ELSE [e \in Evaluation |-> IF evaluations[e].owner = LocalOwner
                                               THEN [evaluations[e] EXCEPT !.owner = o] ELSE evaluations[e]]
  /\ UNCHANGED <<made, backup>>

\* The evaluations go before the account, the drafts and datasets after it.
DeleteStudio(o, done) ==
  /\ DeleteWorkspace(o)
  /\ evaluations' = [e \in Evaluation |-> IF evaluations[e].owner = o THEN NoEvaluation ELSE evaluations[e]]
  /\ drafts' = IF done < 1 THEN drafts ELSE DraftsWithout(o)
  /\ packDrafts' = IF done < 1 THEN packDrafts ELSE PackDraftsWithout(o)
  /\ made' = [z \in Draft \cup PackDraft |->
       IF (IF z \in Draft THEN drafts'[z] = NoDraft ELSE packDrafts'[z] = NoPackDraft) THEN {} ELSE made[z]]
  /\ datasets' = IF done < 2 THEN datasets ELSE DatasetsWithout(o)
  /\ UNCHANGED backup

----------------------------------------------------------------------------

DraftStep ==
  \/ \E o \in Owner, x \in Draft : \/ CreateScenarioDraft(o, x) \/ UpdateScenarioDraft(o, x)
                                  \/ RejectScenarioDraft(o, x) \/ DeleteScenarioDraft(o, x)
  \/ \E o \in Owner, y \in PackDraft :
       \/ RejectTestPackDraft(o, y) \/ DeleteTestPackDraft(o, y)
       \/ \E items \in SUBSET (Draft \cup Scenario) : CreateTestPackDraft(o, y, items) \/ UpdateTestPackDraft(o, y, items)
  \/ \E d \in Desk, o \in Owner, z \in Draft \cup PackDraft : AskApproval(d, o, z)
  \/ \E d \in Desk, x \in Draft, s \in Scenario : ApproveScenarioDraft(d, x, s)
  \/ \E d \in Desk, y \in PackDraft, p \in Pack : ApproveTestPackDraft(d, y, p)
  \/ \E o \in Owner : ExportAuthoring(o) \/ \E mode \in {"merge", "replace"} : ImportAuthoring(o, mode)

TogetherStep ==
  \/ \E d \in Desk, o \in Owner, c \in Card : AskGeneration(d, o, c)
  \/ \E new \in SUBSET Draft, y \in PackDraft :
       (\E d \in Desk : Generate(d, new, y)) \/ (\E o \in Owner : InstantiateTemplate(o, new, y))
  \/ \E o \in Owner :
       \/ \E ss \in SUBSET Scenario, pp \in SUBSET Pack : ExportBundle(o, ss, pp)
       \/ \E draftOf \in [backup.bundle.scenarios -> Draft], packDraftOf \in [DOMAIN backup.bundle.packs -> PackDraft],
            whole \in BOOLEAN : ImportBundle(o, draftOf, packDraftOf, whole)

CalibrationStep ==
  \/ \E o \in Owner, z \in Dataset :
       \/ CreateDataset(o, z) \/ ApproveDataset(o, z) \/ ArchiveDataset(o, z) \/ DeleteDataset(o, z)
       \/ \E from \in Dataset : CreateNextVersion(o, from, z)
       \/ \E c \in Card \cup {NoRef}, r \in Run \cup {NoRef} : AddCase(o, z, c, r)
       \/ \E i \in 1..MaxCases : DeleteCase(o, z, i) \/ \E c \in Card \cup {NoRef} : UpdateCase(o, z, i, c)
  \/ \E d \in Desk, o \in Owner, z \in Dataset : AskEvaluation(d, o, z)
  \/ \E d \in Desk, e \in Evaluation, modes \in SUBSET {"rules", "semantic", "hybrid"}, failed \in SUBSET (1..MaxCases) :
       SaveEvaluation(d, e, modes, failed)
  \/ \E o \in Owner :
       \/ ExportCalibration(o)
       \/ \E mode \in {"merge", "replace"}, newId \in [DOMAIN backup.datasets -> Dataset] : ImportCalibration(o, mode, newId)

HandoverStep == \E o \in Owner, done \in 0..3 : ClaimStudio(o, done) \/ (done < 3 /\ DeleteStudio(o, done))

StudioStep == (CharacterStep \/ PackStep \/ RunStep \/ ArchiveStep) /\ UNCHANGED authoringVars

----------------------------------------------------------------------------

StudioInit ==
  /\ WorkspaceTables
  /\ cards = [c \in Card |-> NoCard] /\ runs = [r \in Run |-> NoRun]
  /\ AuthoringInit

StudioNext == StudioStep \/ DraftStep \/ TogetherStep \/ CalibrationStep \/ HandoverStep
StudioSpec == StudioInit /\ [][StudioNext]_<<wsVars, authoringVars>>

\* A draft becomes one formal Scenario or Test Pack at most: while it is in
\* the studio, two approvals, an approval beside an edit or a rejection, or
\* a merged archive never make a second one, and only an approved draft has
\* made any.  (A replacing import starts from the archive's word for it.)
\* The one exception is a draft of the local workspace: whoever takes the
\* workspace over does not wait for an approval that is under way there, so
\* both may approve.
ApprovedOnce ==
  \A z \in Draft \cup PackDraft :
    LET now == IF z \in Draft THEN drafts[z] ELSE packDrafts[z] IN
    /\ now.status # "approved" => made[z] = {}
    /\ now.status = "approved" => \E m \in made[z] : m.formal = now.formal
    /\ \A m, n \in made[z] : m # n => m.by # n.by /\ LocalOwner \in {m.by, n.by}

=============================================================================
