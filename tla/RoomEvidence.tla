---------------------------- MODULE RoomEvidence ----------------------------
(***************************************************************************)
(* What the Core knows of a Discord room, for one owner: the readable      *)
(* state of the room, the source rows of its messages with their           *)
(* revisions, the notes and media perceptions derived from them, and the   *)
(* decisions of the room router.  Requests of the connector carry          *)
(* snapshots of messages and of permissions that were taken in an order    *)
(* they need not arrive in; a handler commits each of its repository calls *)
(* by itself.  The rows of different owners never meet, so one owner is    *)
(* modelled; a request whose loop over the owners fails before this one    *)
(* never arrives here.                                                     *)
(***************************************************************************)
EXTENDS Naturals, FiniteSets

CONSTANTS Message,      \* messages of the room, of one human author
          MaxVersion,   \* versions of a message, by effective time
          Hidden,       \* versions of which a snapshot without content exists
          MaxCheck,     \* instants of permission checks
          Note,         \* one per request that creates a note
          MaxNotes,     \* notes a card may hold (256)
          Route,        \* one per routing request
          Optional,     \* routing requests that need the director
          MaxOptional,  \* optional attempts in the window (12)
          RoomHandler,  \* requests being handled
          Looker,       \* turns that look at media
          NoMessage, NoRoute,
          MaxDisturb    \* bound: restarts, revocations and edits by people

ASSUME EvidenceAssumption ==
    /\ Optional \subseteq Route /\ Hidden \subseteq 1..MaxVersion
    /\ NoMessage \notin Message /\ NoRoute \notin Route
    /\ {MaxVersion, MaxCheck, MaxNotes, MaxOptional, MaxDisturb} \subseteq Nat

VARIABLES room,      \* room_states
          source,    \* room_sources
          note,      \* character_notes
          receipt,   \* note_creation_receipts
          media,     \* conversation_media_references with a perception
          route,     \* room_routes
          selected,  \* requests with a row in room_selections
          deployed,  \* whether the Character is still deployed here
          cooling,   \* whether the last optional attempt is younger than 15 s
          handler,   \* requests being handled
          looker,    \* turns that look at media
          seen,      \* history: snapshots accepted, per message
          checked,   \* history: permission checks accepted
          asked,     \* history: how often the director was asked
          answers,   \* history: decided answers given for a request
          disturbed  \* disturbances so far

evTables == <<room, source, note, receipt, media, route, selected>>
evVars == <<evTables, deployed, cooling, handler, looker, seen, checked, asked, answers, disturbed>>
-----------------------------------------------------------------------------
(* Rows and snapshots *)

Version == 1..MaxVersion
Body == {"a", "b"}
\* Every other version has the first text again.
BodyOf(v) == IF v % 2 = 1 THEN "a" ELSE "b"

\* SourceMessage: a version with or without readable content, or a tombstone.
Snapshot == [ver: Version, avail: {TRUE}, gone: {FALSE}]
            \cup [ver: Hidden, avail: {FALSE}, gone: {FALSE}]
            \cup [ver: {0}, avail: {FALSE}, gone: {TRUE}]
Check == [time: 1..MaxCheck, readable: BOOLEAN]

\* draft_fingerprint: text, availability and deletion, never the time.
Fingerprint == [text: Body \cup {""}, avail: BOOLEAN, gone: BOOLEAN]
NoPrint == [text |-> "", avail |-> FALSE, gone |-> FALSE]
ContentOf(s) == [text |-> IF s.avail THEN BodyOf(s.ver) ELSE "", avail |-> s.avail, gone |-> s.gone]

NoSource == [known |-> FALSE, item |-> [ver |-> 0, avail |-> FALSE, gone |-> FALSE],
             revision |-> 0, roomRevision |-> 0]
NoNote == [live |-> FALSE, authored |-> FALSE, text |-> "", about |-> NoMessage,
           print |-> NoPrint, version |-> 0]
NoMedia == [live |-> FALSE, saw |-> "", print |-> NoPrint]
NoRouteRow == [status |-> "none", bound |-> 0, result |-> "none"]
FreeHandler == [pc |-> "free", kind |-> "none", about |-> NoMessage,
                item |-> [ver |-> 0, avail |-> FALSE, gone |-> FALSE],
                check |-> [time |-> 1, readable |-> TRUE], route |-> NoRoute,
                revision |-> 0, result |-> "none"]
Looking == [pc |-> "away", saw |-> "", print |-> NoPrint, rows |-> NoMedia]

Content(m) == ContentOf(source[m].item)
Shown(m) == source[m].known /\ ~source[m].item.gone /\ source[m].item.avail
Live == {n \in Note : note[n].live}

EvidenceTypeOK ==
    /\ room \in [readable: BOOLEAN, time: 0..MaxCheck, revision: Nat]
    /\ \A m \in Message : /\ Content(m) \in Fingerprint
                          /\ source[m].revision <= source[m].roomRevision
                          /\ source[m].roomRevision <= room.revision
    /\ Cardinality(Live) <= MaxNotes /\ Live \subseteq receipt
    /\ \A r \in Route : route[r].status \in {"none", "in_progress", "done"}
    /\ \A h \in RoomHandler : handler[h].pc \in
         {"free", "access", "observe", "read", "reserve", "decide", "select", "finish", "note"}

EvidenceInit ==
    /\ room = [readable |-> TRUE, time |-> 0, revision |-> 0]
    /\ source = [m \in Message |-> NoSource]
    /\ note = [n \in Note |-> NoNote] /\ receipt = {}
    /\ media = [m \in Message |-> NoMedia]
    /\ route = [r \in Route |-> NoRouteRow] /\ selected = {}
    /\ deployed = TRUE /\ cooling = FALSE
    /\ handler = [h \in RoomHandler |-> FreeHandler]
    /\ looker = [k \in Looker |-> Looking]
    /\ seen = [m \in Message |-> {}] /\ checked = {}
    /\ asked = [r \in Route |-> 0] /\ answers = [r \in Route |-> {}]
    /\ disturbed = 0

Disturbance == disturbed < MaxDisturb /\ disturbed' = disturbed + 1
-----------------------------------------------------------------------------
(* Requests of the connector: every one reports permissions and messages first *)

ArriveEvent(h, m, item, check, kind, r) ==
    /\ handler[h].pc = "free" /\ deployed
    /\ kind = "route" <=> r # NoRoute
    /\ kind # "events" => check.readable
    /\ item \notin seen[m] \/ check \notin checked \/ kind # "events"
    /\ handler' = [handler EXCEPT ![h] = [FreeHandler EXCEPT
         !.pc = "access", !.kind = kind, !.about = m, !.item = item, !.check = check, !.route = r]]
    /\ UNCHANGED <<evTables, deployed, cooling, looker, seen, checked, asked, answers, disturbed>>

\* Late checks do not count, and a check of the same instant cannot reopen the room.
TakesCheck(check) == /\ check.time >= room.time
                     /\ check.time = room.time => room.readable

ReportAccess(h) ==
    LET check == handler[h].check IN
    /\ handler[h].pc = "access"
    /\ room' = IF TakesCheck(check)
               THEN [readable |-> check.readable, time |-> check.time,
                     revision |-> room.revision + IF room.readable = check.readable THEN 0 ELSE 1]
               ELSE room
    /\ checked' = checked \cup {check}
    /\ handler' = [handler EXCEPT ![h] = IF check.readable THEN [@ EXCEPT !.pc = "observe"]
                                         ELSE FreeHandler]
    /\ UNCHANGED <<source, note, receipt, media, route, selected, deployed, cooling, looker, seen,
                   asked, answers, disturbed>>

\* Mutant of Merged.
MergedByArrival(m, item) == IF source[m].known /\ source[m].item.gone THEN source[m].item ELSE item

\* The item the row will hold: tombstones stay, an older version is ignored, a snapshot of
\* the same version cannot take readable text away.
Merged(m, item) ==
    LET old == source[m].item IN
    IF ~source[m].known THEN item
    ELSE IF old.gone THEN old
    ELSE IF item.gone THEN item
    ELSE IF item.ver < old.ver THEN old
    ELSE IF item.ver = old.ver /\ old.avail THEN old
    ELSE item

\* Mutant of NotesAfter.
NotesAfterDeletion(m, print) ==
    [n \in Note |-> IF note[n].live /\ note[n].about = m /\ ~note[n].authored /\ print.gone
                    THEN NoNote ELSE note[n]]

\* The notes and perceptions of the message that were made from another content go with it.
NotesAfter(m, print) ==
    [n \in Note |-> IF note[n].live /\ note[n].about = m /\ ~note[n].authored /\ note[n].print # print
                    THEN NoNote ELSE note[n]]
MediaAfter(m, print) == IF media[m].live /\ media[m].print # print
                        THEN [media EXCEPT ![m] = NoMedia] ELSE media

ObserveMessage(h) ==
    LET m == handler[h].about
        item == Merged(m, handler[h].item)
        changed == ~source[m].known \/ ContentOf(item) # Content(m)
        revision == room.revision + 1
        next == CASE handler[h].kind = "route" -> "read"
                  [] handler[h].kind = "note" -> "note"
                  [] OTHER -> "free" IN
    /\ handler[h].pc = "observe"
    /\ IF ~room.readable
       THEN handler' = [handler EXCEPT ![h] = FreeHandler]
            /\ UNCHANGED <<room, source, note, media, seen>>
       ELSE /\ handler' = [handler EXCEPT ![h] = IF next = "free" THEN FreeHandler ELSE [@ EXCEPT !.pc = next]]
            /\ seen' = [seen EXCEPT ![m] = @ \cup {handler[h].item}]
            /\ IF changed
               THEN /\ source' = [source EXCEPT ![m] = [known |-> TRUE, item |-> item,
                                    revision |-> @.revision + 1, roomRevision |-> revision]]
                    /\ room' = [room EXCEPT !.revision = revision]
                    /\ note' = NotesAfter(m, ContentOf(item))
                    /\ media' = MediaAfter(m, ContentOf(item))
               ELSE /\ source' = [source EXCEPT ![m].item = item]
                    /\ UNCHANGED <<room, note, media>>
    /\ UNCHANGED <<receipt, route, selected, deployed, cooling, looker, checked, asked, answers, disturbed>>
-----------------------------------------------------------------------------
(* resolve_room *)

Answer(h, result) ==
    /\ handler' = [handler EXCEPT ![h] = FreeHandler]
    /\ answers' = IF result \in {"blocked", "pending"} THEN answers
                  ELSE [answers EXCEPT ![handler[h].route] = @ \cup {result}]

\* The trigger and its reply chain are read before anything is reserved.
ReadTrigger(h) ==
    LET m == handler[h].about IN
    /\ handler[h].pc = "read"
    /\ IF room.readable /\ Shown(m)
       THEN handler' = [handler EXCEPT ![h].pc = "reserve", ![h].revision = source[m].revision]
            /\ UNCHANGED answers
       ELSE Answer(h, "blocked")
    /\ UNCHANGED <<evTables, deployed, cooling, looker, seen, checked, asked, disturbed>>

OptionalRows == {r \in Optional : route[r].status # "none"}

\* Mutant of ReserveRoute.
ReserveRouteAgain(h) ==
    LET r == handler[h].route
        row == route[r] IN
    /\ handler[h].pc = "reserve"
    /\ IF ~room.readable THEN Answer(h, "blocked") /\ UNCHANGED <<route, cooling>>
       ELSE IF row.status = "done"
       THEN Answer(h, row.result) /\ UNCHANGED <<route, cooling>>
       ELSE /\ route' = [route EXCEPT ![r] = [NoRouteRow EXCEPT !.status = "in_progress",
                                                !.bound = handler[h].revision]]
            /\ cooling' = (cooling \/ r \in Optional)
            /\ handler' = [handler EXCEPT ![h].pc = IF r \in Optional THEN "decide" ELSE "select",
                                          ![h].result = "direct"]
            /\ UNCHANGED answers
    /\ UNCHANGED <<room, source, note, receipt, media, selected, deployed, looker, seen, checked,
                   asked, disturbed>>

ReserveRoute(h) ==
    LET r == handler[h].route
        row == route[r] IN
    /\ handler[h].pc = "reserve"
    /\ IF ~room.readable THEN Answer(h, "blocked") /\ UNCHANGED <<route, cooling>>
       ELSE IF row.status # "none"
       THEN /\ Answer(h, IF row.bound # handler[h].revision THEN "blocked"
                         ELSE IF row.status = "done" THEN row.result ELSE "pending")
            /\ UNCHANGED <<route, cooling>>
       ELSE IF r \in Optional /\ (cooling \/ Cardinality(OptionalRows) >= MaxOptional)
       THEN Answer(h, "blocked") /\ UNCHANGED <<route, cooling>>
       ELSE /\ route' = [route EXCEPT ![r] = [NoRouteRow EXCEPT !.status = "in_progress",
                                                !.bound = handler[h].revision]]
            /\ cooling' = (cooling \/ r \in Optional)
            /\ handler' = [handler EXCEPT ![h].pc = IF r \in Optional THEN "decide" ELSE "select",
                                          ![h].result = "direct"]
            /\ UNCHANGED answers
    /\ UNCHANGED <<room, source, note, receipt, media, selected, deployed, looker, seen, checked,
                   asked, disturbed>>

\* The director decides for a speaker, for nobody, or cannot be used.
Direct(h, outcome) ==
    /\ handler[h].pc = "decide"
    /\ asked' = [asked EXCEPT ![handler[h].route] = @ + 1]
    /\ handler' = [handler EXCEPT ![h].pc = IF outcome = "decision" THEN "select" ELSE "finish",
                                  ![h].result = outcome]
    /\ UNCHANGED <<evTables, deployed, cooling, looker, seen, checked, answers, disturbed>>

\* The deployment and the focus of the target are looked at again after the wait.
SelectSpeaker(h) ==
    LET good == deployed /\ room.readable /\ Shown(handler[h].about) IN
    /\ handler[h].pc = "select"
    /\ selected' = IF good THEN selected \cup {handler[h].route} ELSE selected
    /\ handler' = [handler EXCEPT ![h].pc = "finish", ![h].result = IF good THEN @ ELSE "refused"]
    /\ UNCHANGED <<room, source, note, receipt, media, route, deployed, cooling, looker, seen,
                   checked, asked, answers, disturbed>>

FinishRoute(h) ==
    LET r == handler[h].route IN
    /\ handler[h].pc = "finish"
    /\ IF route[r].status = "done" THEN Answer(h, "blocked") /\ UNCHANGED route
       ELSE /\ route' = [route EXCEPT ![r].status = "done", ![r].result = handler[h].result]
            /\ Answer(h, handler[h].result)
    /\ UNCHANGED <<room, source, note, receipt, media, selected, deployed, cooling, looker, seen,
                   checked, asked, disturbed>>
-----------------------------------------------------------------------------
(* Notes *)

\* A member's note quotes a message of that member as the room shows it now.
Quotes(m, text) == room.readable /\ Shown(m) /\ Content(m).text = text

\* A request that created a note before is answered from it, or refused once it is gone.
RememberNote(h, n, text) ==
    LET m == handler[h].about IN
    /\ handler[h].pc = "note" /\ Quotes(m, text)
    /\ ~note[n].live /\ n \notin receipt /\ Cardinality(Live) < MaxNotes
    /\ note' = [note EXCEPT ![n] = [live |-> TRUE, authored |-> FALSE, text |-> text, about |-> m,
                                    print |-> Content(m), version |-> 1]]
    /\ receipt' = receipt \cup {n}
    /\ handler' = [handler EXCEPT ![h] = FreeHandler]
    /\ UNCHANGED <<room, source, media, route, selected, deployed, cooling, looker, seen, checked,
                   asked, answers, disturbed>>

\* A member corrects or forgets a note of his own; the version he read must still be there.
MemberMay(n, version) == note[n].live /\ ~note[n].authored /\ note[n].version = version

CorrectNote(h, n, text, version) ==
    LET m == handler[h].about IN
    /\ handler[h].pc = "note" /\ MemberMay(n, version) /\ Quotes(m, text) /\ Disturbance
    /\ note' = [note EXCEPT ![n].text = text, ![n].about = m, ![n].print = Content(m),
                            ![n].version = version + 1]
    /\ handler' = [handler EXCEPT ![h] = FreeHandler]
    /\ UNCHANGED <<room, source, receipt, media, route, selected, deployed, cooling, looker, seen,
                   checked, asked, answers>>

ForgetNote(h, n, version) ==
    /\ handler[h].pc = "note" /\ MemberMay(n, version)
    /\ note' = [note EXCEPT ![n] = NoNote]
    /\ handler' = [handler EXCEPT ![h] = FreeHandler]
    /\ UNCHANGED <<room, source, receipt, media, route, selected, deployed, cooling, looker, seen,
                   checked, asked, answers, disturbed>>

\* Every other note request is refused or only answered.
RefuseNote(h) ==
    /\ handler[h].pc = "note"
    /\ handler' = [handler EXCEPT ![h] = FreeHandler]
    /\ UNCHANGED <<evTables, deployed, cooling, looker, seen, checked, asked, answers, disturbed>>

\* The owner edits a note in the portal: from then on it is the owner's own text.
OperatorEdits(n) ==
    /\ note[n].live /\ Disturbance
    /\ note' = [note EXCEPT ![n].authored = TRUE, ![n].about = NoMessage, ![n].print = NoPrint,
                            ![n].version = @ + 1]
    /\ UNCHANGED <<room, source, receipt, media, route, selected, deployed, cooling, handler, looker,
                   seen, checked, asked, answers>>

\* The owner writes a note of his own, without a source, or forgets one.
AuthorNote(n) ==
    /\ ~note[n].live /\ n \notin receipt /\ Cardinality(Live) < MaxNotes /\ Disturbance
    /\ note' = [note EXCEPT ![n] = [NoNote EXCEPT !.live = TRUE, !.authored = TRUE, !.version = 1]]
    /\ receipt' = receipt \cup {n}
    /\ UNCHANGED <<room, source, media, route, selected, deployed, cooling, handler, looker, seen,
                   checked, asked, answers>>

OperatorForgets(n) ==
    /\ note[n].live /\ Disturbance
    /\ note' = [note EXCEPT ![n] = NoNote]
    /\ UNCHANGED <<room, source, receipt, media, route, selected, deployed, cooling, handler, looker,
                   seen, checked, asked, answers>>

\* delete_for_card: the Character goes, and with it its notes and their receipts.
DeleteForCard ==
    /\ receipt # {} /\ Disturbance
    /\ note' = [n \in Note |-> NoNote] /\ receipt' = {}
    /\ UNCHANGED <<room, source, media, route, selected, deployed, cooling, handler, looker, seen,
                   checked, asked, answers>>

\* list: what the model is told of notes.
ListedNotes == {n \in Live : \/ note[n].authored
                             \/ Shown(note[n].about) /\ Content(note[n].about) = note[n].print}
-----------------------------------------------------------------------------
(* Perceptions of media *)

\* A turn looks at the media of a message it was given; it holds what it saw.
Perceive(k, m) ==
    /\ looker[k].pc = "away" /\ Shown(m)
    /\ looker' = [looker EXCEPT ![k] = [Looking EXCEPT !.pc = "saw", !.saw = Content(m).text]]
    /\ UNCHANGED <<evTables, deployed, cooling, handler, seen, checked, asked, answers, disturbed>>

\* remember_perceived: the source is read, then the perception is stored with its fingerprint.
RememberReads(k, m) ==
    /\ looker[k].pc = "saw"
    /\ looker' = [looker EXCEPT ![k] = IF deployed /\ room.readable /\ Shown(m)
                                       THEN [@ EXCEPT !.pc = "store", !.print = Content(m)] ELSE Looking]
    /\ UNCHANGED <<evTables, deployed, cooling, handler, seen, checked, asked, answers, disturbed>>

RememberStores(k, m) ==
    /\ looker[k].pc = "store"
    /\ media' = [media EXCEPT ![m] = [live |-> TRUE, saw |-> looker[k].saw, print |-> looker[k].print]]
    /\ looker' = [looker EXCEPT ![k] = Looking]
    /\ UNCHANGED <<room, source, note, receipt, route, selected, deployed, cooling, handler, seen,
                   checked, asked, answers, disturbed>>

\* resolve_for_turn: the rows are read, then compared with the source as it is by then.
RecallReads(k, m) ==
    /\ looker[k].pc = "away" /\ deployed /\ room.readable /\ Shown(m) /\ media[m].live
    /\ looker' = [looker EXCEPT ![k] = [Looking EXCEPT !.pc = "recall", !.rows = media[m]]]
    /\ UNCHANGED <<evTables, deployed, cooling, handler, seen, checked, asked, answers, disturbed>>

Recalled(k, m) == /\ looker[k].pc = "recall" /\ deployed /\ room.readable
                  /\ source[m].known /\ ~source[m].item.gone
                  /\ looker[k].rows.print = Content(m)

RecallTells(k, m) ==
    /\ looker[k].pc = "recall"
    /\ looker' = [looker EXCEPT ![k] = Looking]
    /\ UNCHANGED <<evTables, deployed, cooling, handler, seen, checked, asked, answers, disturbed>>

ExpireMedia(m) ==
    /\ media[m].live /\ Disturbance
    /\ media' = [media EXCEPT ![m] = NoMedia]
    /\ UNCHANGED <<room, source, note, receipt, route, selected, deployed, cooling, handler, looker,
                   seen, checked, asked, answers>>
-----------------------------------------------------------------------------
(* Around it *)

\* The deployment ends; 15 s pass; the process of a request dies.
EndDeployment ==
    /\ deployed /\ Disturbance /\ deployed' = FALSE
    /\ UNCHANGED <<evTables, cooling, handler, looker, seen, checked, asked, answers>>

CoolDown ==
    /\ cooling /\ cooling' = FALSE
    /\ UNCHANGED <<evTables, deployed, handler, looker, seen, checked, asked, answers, disturbed>>

HandlerDies(h) ==
    /\ handler[h].pc # "free" /\ Disturbance
    /\ handler' = [handler EXCEPT ![h] = FreeHandler]
    /\ UNCHANGED <<evTables, deployed, cooling, looker, seen, checked, asked, answers>>

Resolve(h) == ReadTrigger(h) \/ ReserveRoute(h) \/ SelectSpeaker(h) \/ FinishRoute(h)
              \/ \E outcome \in {"decision", "none", "unavailable"} : Direct(h, outcome)

NoteRequest(h) ==
    \/ RefuseNote(h)
    \/ \E n \in Note, text \in Body :
         \/ RememberNote(h, n, text)
         \/ \E version \in 1..note[n].version : CorrectNote(h, n, text, version)
    \/ \E n \in Note : \E version \in 1..note[n].version : ForgetNote(h, n, version)

EvidenceNext ==
    \/ \E h \in RoomHandler :
         \/ \E m \in Message, item \in Snapshot, check \in Check :
              \/ ArriveEvent(h, m, item, check, "events", NoRoute)
              \/ ArriveEvent(h, m, item, check, "note", NoRoute)
              \/ \E r \in Route : ArriveEvent(h, m, item, check, "route", r)
         \/ ReportAccess(h) \/ ObserveMessage(h) \/ Resolve(h) \/ NoteRequest(h) \/ HandlerDies(h)
    \/ \E n \in Note : OperatorEdits(n) \/ AuthorNote(n) \/ OperatorForgets(n)
    \/ DeleteForCard \/ EndDeployment \/ CoolDown
    \/ \E k \in Looker, m \in Message : Perceive(k, m) \/ RememberReads(k, m) \/ RememberStores(k, m)
                                        \/ RecallReads(k, m) \/ RecallTells(k, m)
    \/ \E m \in Message : ExpireMedia(m)

EvidenceSpec == EvidenceInit /\ [][EvidenceNext]_evVars
-----------------------------------------------------------------------------
(* Properties *)

Newest(m) == CHOOSE v \in 0..MaxVersion : /\ \A s \in seen[m] : s.ver <= v
                                          /\ v = 0 \/ \E s \in seen[m] : s.ver = v
LastCheck == CHOOSE t \in 0..MaxCheck : /\ \A c \in checked : c.time <= t
                                        /\ t = 0 \/ \E c \in checked : c.time = t

\* Whatever the order in which reports arrive, the rows depend only on which arrived: a
\* deleted message stays deleted, else the newest version is kept, with its text once that
\* was readable; the room is closed by any denial of the latest instant (observe, set_access).
EvidenceConverges ==
    /\ \A m \in Message :
         LET gone == \E s \in seen[m] : s.gone IN
         /\ source[m].known <=> seen[m] # {}
         /\ source[m].item.gone <=> gone
         /\ ~gone /\ seen[m] # {} =>
              source[m].item = [ver |-> Newest(m), gone |-> FALSE,
                                avail |-> \E s \in seen[m] : s.ver = Newest(m) /\ s.avail]
    /\ room.time = LastCheck
    /\ room.readable <=> \A c \in checked : c.time = LastCheck => c.readable

\* A member's note says what a message of the room says now: when the message is edited or
\* deleted, the note is gone or belongs to the owner by then (observe, change, create).
NotesCurrent ==
    /\ ListedNotes = Live
    /\ \A n \in Live : ~note[n].authored => note[n].text = Content(note[n].about).text

\* However often a routing request is retried, in parallel, after edits and restarts, the
\* director is asked once for it and everybody who gets a decision gets the same one.
RoutedOnce == \A r \in Route : asked[r] <= 1 /\ Cardinality(answers[r]) <= 1

=============================================================================
