------------------------------ MODULE MCService ------------------------------
(***************************************************************************)
(* Small instances of the request handlers of the Core: what it knows of a *)
(* room, who may ask it for anything, and the studio.  focus names the     *)
(* kind of request a behaviour is about.                                   *)
(***************************************************************************)
EXTENDS RoomEvidence, Accounts, Authoring, TLC

CONSTANTS u2,     \* an account besides the Founder
          e1, e2, \* addresses
          s1,     \* the session of the Founder
          o1,     \* an owner of a studio
          x1,     \* the draft of the behaviours about one
          sc2,    \* a second Scenario for the behaviours about drafts
          card1, run1 \* what o1 has where a review needs them

VARIABLE focus

Interchangeable == Permutations(RoomHandler) \cup Permutations(Caller) \cup Permutations(Desk)

RoomFoci == {"note", "route", "media"}
Asks(kind) == \A h \in RoomHandler : handler'[h].kind \in {"none", "events", kind}

\* What people ask for in each behaviour about accounts.
OpsOf == [invite |-> {"invite", "uninvite", "register", "role"},
          throttle |-> {"login", "leave"},
          leave |-> {"login", "logout", "leave", "delete"},
          device |-> DeviceOps \cup {"poll", "messages", "leave"}]
AccountFoci == DOMAIN OpsOf

\* Where accounts are deleted there are two of them from the start.
TwoUsers ==
  \E role \in {"user", "admin"} :
    user = [a \in Account |-> IF a = Founder THEN NewUser("admin", e1)
                              ELSE IF a = u2 THEN NewUser(role, e2) ELSE NoUser]

\* The requests of the studio in each behaviour about it.
DeskOps == [cards |-> {"card", "prompt", "import"},
            packs |-> {"scenario", "pack", "import"},
            runs |-> {"card", "trial", "import"},
            drafts |-> {"approve"},
            packDrafts |-> {"approve"},
            together |-> {"approve", "generate"},
            calibration |-> {"evaluate"}]
WorkFoci == {"cards", "packs", "runs"}
ReviewFoci == DOMAIN DeskOps \ WorkFoci

\* What there is to generate from and to evaluate.
StudioReady ==
  /\ WorkspaceTables
  /\ cards = [c \in Card |-> IF c = card1 /\ focus \in {"together", "calibration"}
                             THEN [owner |-> o1, target |-> Demo] ELSE NoCard]
  /\ runs = [r \in Run |-> IF r = run1 /\ focus = "calibration"
                           THEN [NoRun EXCEPT !.row = TRUE, !.link = card1, !.owner = o1, !.card = card1]
                           ELSE NoRun]
  /\ AuthoringInit

\* Which address and which session the Founder has makes no difference.
ServiceInit ==
  /\ focus \in RoomFoci \cup AccountFoci \cup DOMAIN DeskOps
  /\ EvidenceInit
  /\ IF focus = "leave" THEN TwoUsers ELSE FirstUsers
  /\ NoRequests
  /\ StudioReady
  /\ user[Founder].email = e1 /\ session[s1] = NewSession(Founder)

RoomsNext ==
  /\ focus \in RoomFoci
  /\ EvidenceNext /\ Asks(focus)
  /\ focus # "media" => UNCHANGED looker
  /\ focus # "note" => UNCHANGED <<note, receipt>>
  /\ focus = "route" => \A h \in RoomHandler : handler'[h].pc = "free" \/ handler'[h].item.avail \/ handler'[h].item.gone
  /\ UNCHANGED <<accountsVars, wsVars, authoringVars>>

AccountFocusNext ==
  /\ focus \in AccountFoci
  /\ AccountsNext
  /\ \A c \in Caller : call'[c].op \in OpsOf[focus] \cup {"none"}
  /\ focus # "device" => UNCHANGED <<device, readable>>
  /\ focus \in {"leave", "throttle", "device"} =>
       accountEdits' <= 1 /\ \A c \in Caller : call'[c].with \notin Email \ {e1, e2}
  /\ focus = "leave" => UNCHANGED bucket
  /\ focus = "device" => \A s \in Session : session'[s].over = session[s].over
  /\ UNCHANGED <<evVars, wsVars, authoringVars>>

\* Formal records disappear beside the drafts that name them.
FormalGone ==
  /\ \/ \E o \in Owner, s \in Scenario : DeleteScenario(o, s)
     \/ \E o \in Owner, p \in Pack : DeletePack(o, p)
  /\ UNCHANGED authoringVars

\* One archive; one draft and drafts of one owner except where they are the
\* subject; one Card and nothing about prompts except where Cards are.
StudioBounds ==
  /\ \A d \in Desk : desk'[d].op \in DeskOps[focus] \cup {"none"}
  /\ archive' = archive \/ (archive = {} /\ focus \in WorkFoci)
  /\ focus # "cards" => UNCHANGED <<prompts, vault, targets>> /\ \A c \in Card \ {card1} : cards'[c] = NoCard
  /\ focus = "drafts" => UNCHANGED packDrafts
  /\ focus # "drafts" => scenarios'[sc2] = NoOne
  /\ focus \in {"drafts", "packDrafts"} => \A x \in Draft \ {x1} : drafts'[x] = NoDraft
  /\ focus \in {"packDrafts", "together"} => backup'.drafts = <<>>
  /\ focus = "calibration" =>
       /\ UNCHANGED <<gone, cards>>
       /\ \A z \in Dataset : Len(datasets'[z].cases) = 0 \/ \A y \in Dataset \ {z} : datasets'[y].cases \in {<<>>, datasets'[z].cases}
  /\ focus = "together" => \A x \in Draft : drafts'[x].revision <= 1
  /\ focus = "together" => \A y \in PackDraft : packDrafts'[y].revision <= 1
  /\ focus \in ReviewFoci \ {"drafts"} =>
       /\ \A x \in Draft : drafts'[x].owner # LocalOwner
       /\ \A y \in PackDraft : packDrafts'[y].owner # LocalOwner
       /\ \A z \in Dataset : datasets'[z].owner # LocalOwner

StudioFocusNext ==
  /\ focus \in DOMAIN DeskOps
  /\ \/ focus \in WorkFoci /\ StudioStep
     \/ focus \in {"drafts", "packDrafts", "together"} /\ DraftStep
     \/ focus \in {"drafts", "packDrafts"} /\ FormalGone
     \/ focus = "together" /\ TogetherStep
     \/ focus = "calibration" /\ CalibrationStep
     \/ HandoverStep
  /\ StudioBounds
  /\ UNCHANGED <<evVars, accountsVars>>

ServiceNext == (RoomsNext \/ AccountFocusNext \/ StudioFocusNext) /\ UNCHANGED focus

ServiceSpec == ServiceInit /\ [][ServiceNext]_<<evVars, accountsVars, wsVars, authoringVars, focus>>
=============================================================================
