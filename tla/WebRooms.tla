------------------------------ MODULE WebRooms ------------------------------
(***************************************************************************)
(* Web rooms: people of the portal write into Discord rooms through a      *)
(* webhook of the connector.  The Core keeps rooms, members, profiles,     *)
(* uploads and an outbox; the bridges of the connector poll the outbox,    *)
(* post with the webhook and acknowledge.  A row of the outbox is posted   *)
(* at most once: a claim is never given back, only doubted.                *)
(***************************************************************************)
EXTENDS Naturals, Sequences, FiniteSets

CONSTANTS Person,        \* accounts
          Owner,         \* the account that owns the connection
          Place,         \* rooms in the catalog of the connection
          Mail,          \* one per pair (owner_id, client_message_id)
          Author,        \* [Mail -> Person]
          Upload,        \* files sent to the composer
          Bridge,        \* bridge loops of the connector
          Hook,          \* webhooks Discord may hold for the connector
          NoHook, NoPlace, NoPerson, NoMail,
          RoomLimit, MemberLimit, UserRate, RoomRate, Capacity,
          AckTries, DispatchTries,
          MaxChange      \* bound: changes made by people, Discord and faults

ASSUME WebAssumption ==
    /\ Owner \in Person /\ Author \in [Mail -> Person]
    /\ NoHook \notin Hook /\ NoPlace \notin Place /\ NoMail \notin Mail
    /\ NoPerson \notin Person
    /\ {RoomLimit, MemberLimit, UserRate, RoomRate, Capacity, AckTries,
        DispatchTries, MaxChange} \subseteq Nat

VARIABLES activeUser,   \* accounts that are active
          granted,   \* accounts with access to the server
          place,     \* web_rooms
          member,    \* web_room_members
          profile,   \* accounts that have a participant profile
          upload,    \* uploaded files
          sticker,   \* whether the sticker is in the catalog and enabled
          evidence,  \* what the room evidence says of each room
          mail,      \* web_room_outbox
          created,   \* the outbox in order of creation
          bridge,    \* one loop of a bridge
          known,     \* the webhooks a bridge holds
          tasks,     \* dispatches a bridge is busy with
          failures,  \* failed dispatches a bridge remembers
          claims,    \* number of nonces used
          posts,     \* history: how often Discord posted a row of the outbox
          handled,   \* history: messages that reached the Characters
          changes    \* disturbances so far

webCore == <<activeUser, granted, place, member, profile, upload, sticker, evidence>>
webBridge == <<bridge, known, tasks, failures>>
webVars == <<webCore, mail, created, webBridge, claims, posts, handled, changes>>
-----------------------------------------------------------------------------
Right == {"none", "read", "post"}
RoomRow == [published: BOOLEAN, enabled: BOOLEAN, hook: Hook \cup {NoHook}]
UploadRow == [state: {"none", "live", "expired", "gone"},
              owner: Person \cup {NoPerson}, place: Place \cup {NoPlace}]
Payload == [place: Place, reply: BOOLEAN, sticker: BOOLEAN, files: SUBSET Upload]
Load == {l \in Payload : l.reply = l.sticker /\ l.files = IF l.reply THEN Upload ELSE {}}
MailStatus == {"none", "pending", "claimed", "delivered", "failed", "uncertain",
               "cancelled"}

NoPayload == [place |-> NoPlace, reply |-> FALSE, sticker |-> FALSE, files |-> {}]
NoRow == [status |-> "none", load |-> NoPayload, nonce |-> 0, hook |-> NoHook,
          receipt |-> 0, route |-> "pending", age |-> 0, stale |-> FALSE]
Idle == [pc |-> "idle", mail |-> NoMail, nonce |-> 0, hook |-> NoHook,
         result |-> "none", receipt |-> 0, left |-> 0]

WebTypeOK ==
    /\ activeUser \subseteq Person /\ granted \subseteq Person /\ profile \subseteq Person
    /\ place \in [Place -> RoomRow]
    /\ member \in [Place -> [Person -> Right]]
    /\ upload \in [Upload -> UploadRow]
    /\ sticker \in BOOLEAN
    /\ evidence \in [Place -> [readable: BOOLEAN, fresh: BOOLEAN, target: BOOLEAN]]
    /\ mail \in [Mail -> [status: MailStatus, load: Payload \cup {NoPayload},
                          nonce: Nat, hook: Hook \cup {NoHook}, receipt: Nat,
                          route: {"pending", "processed", "failed"}, age: 0..2,
                          stale: BOOLEAN]]
    /\ \A i, j \in DOMAIN created : created[i] = created[j] => i = j
    /\ bridge \in [Bridge -> [pc: {"idle", "claimed", "send", "ack"},
                              mail: Mail \cup {NoMail}, nonce: Nat,
                              hook: Hook \cup {NoHook}, result: MailStatus,
                              receipt: Nat, left: 0..AckTries]]
    /\ known \in [Bridge -> [Place -> Hook \cup {NoHook}]]
    /\ tasks \in [Bridge -> SUBSET Mail]
    /\ changes \in 0..MaxChange

WebInit ==
    /\ activeUser = Person /\ granted = Person /\ profile = Person
    /\ place = [r \in Place |-> [published |-> FALSE, enabled |-> FALSE, hook |-> NoHook]]
    /\ member = [r \in Place |-> [p \in Person |-> "none"]]
    /\ upload = [f \in Upload |-> [state |-> "none", owner |-> NoPerson, place |-> NoPlace]]
    /\ sticker = TRUE
    /\ evidence = [r \in Place |-> [readable |-> TRUE, fresh |-> FALSE, target |-> TRUE]]
    /\ mail = [m \in Mail |-> NoRow]
    /\ created = << >>
    /\ bridge = [b \in Bridge |-> Idle]
    /\ known = [b \in Bridge |-> [r \in Place |-> NoHook]]
    /\ tasks = [b \in Bridge |-> {}]
    /\ failures = [b \in Bridge |-> [m \in Mail |-> 0]]
    /\ claims = 0
    /\ posts = [m \in Mail |-> 0]
    /\ handled = {}
    /\ changes = 0

Disturb == changes < MaxChange /\ changes' = changes + 1
-----------------------------------------------------------------------------
(* Who may do what *)

ServerAccess(p) == p \in activeUser /\ (p = Owner \/ p \in granted)

Access(r, p, post) ==
    /\ place[r].published /\ place[r].enabled /\ ServerAccess(p)
    /\ p = Owner \/ member[r][p] \in (IF post THEN {"post"} ELSE {"read", "post"})

Readable(r) == evidence[r].readable /\ evidence[r].fresh
ReplyTarget(r) == evidence[r].readable /\ evidence[r].target
FileLive(f, r, p) == upload[f] = [state |-> "live", owner |-> p, place |-> r]
-----------------------------------------------------------------------------
(* The portal *)

Publish(r) ==
    /\ ~place[r].published /\ Owner \in activeUser
    /\ Cardinality({q \in Place : place[q].published}) < RoomLimit
    /\ place' = [place EXCEPT ![r] = [published |-> TRUE, enabled |-> TRUE, hook |-> NoHook]]
    /\ UNCHANGED <<activeUser, granted, member, profile, upload, sticker, evidence, mail,
                   created, webBridge, claims, posts, handled, changes>>

\* Rows that belong to a room, or to an author.
Into(r) == {m \in Mail : mail[m].load.place = r}
WrittenBy(p) == {m \in Mail : Author[m] = p}

\* Those of the given rows that are pending leave the queue as cancelled.
CancelPending(rows) ==
    mail' = [m \in Mail |-> IF mail[m].status = "pending" /\ m \in rows
                            THEN [mail[m] EXCEPT !.status = "cancelled"] ELSE mail[m]]

Configure(r, enabled) ==
    /\ place[r].published /\ place[r].enabled # enabled /\ Disturb
    /\ place' = [place EXCEPT ![r].enabled = enabled]
    /\ IF enabled THEN UNCHANGED mail ELSE CancelPending(Into(r))
    /\ UNCHANGED <<activeUser, granted, member, profile, upload, sticker, evidence, created,
                   webBridge, claims, posts, handled>>

Member(r, p, right) ==
    /\ place[r].published /\ p # Owner /\ member[r][p] # right
    /\ IF right = "none"
       THEN Disturb /\ CancelPending(Into(r) \cap WrittenBy(p))
       ELSE /\ ServerAccess(p)
            /\ member[r][p] # "none"
                 \/ Cardinality({q \in Person : member[r][q] # "none"}) < MemberLimit
            /\ IF right = "post" THEN UNCHANGED changes ELSE Disturb
            /\ UNCHANGED mail
    /\ member' = [member EXCEPT ![r][p] = right]
    /\ UNCHANGED <<activeUser, granted, place, profile, upload, sticker, evidence, created,
                   webBridge, claims, posts, handled>>

CreateAttachment(f, r, p) ==
    /\ upload[f].state = "none" /\ Access(r, p, TRUE) /\ Readable(r)
    /\ upload' = [g \in Upload |->
                    IF g = f THEN [state |-> "live", owner |-> p, place |-> r]
                    ELSE IF upload[g].state = "expired" THEN [upload[g] EXCEPT !.state = "gone"]
                    ELSE upload[g]]
    /\ UNCHANGED <<activeUser, granted, place, member, profile, sticker, evidence, mail,
                   created, webBridge, claims, posts, handled, changes>>

Recent(rows) == Cardinality({m \in rows : mail[m].status # "none" /\ mail[m].age = 0})
Waiting(r) == {m \in Mail : mail[m].status \in {"pending", "claimed"} /\ mail[m].load.place = r}

\* A retry of a stored message is answered from the row and changes nothing.
Enqueue(m, load) ==
    LET r == load.place
        p == Author[m] IN
    /\ mail[m].status = "none" /\ Access(r, p, TRUE) /\ Readable(r) /\ p \in profile
    /\ load.sticker => sticker
    /\ load.reply => ReplyTarget(r)
    /\ \A f \in load.files : FileLive(f, r, p)
    /\ Recent(WrittenBy(p)) < UserRate
    /\ Recent(Into(r)) < RoomRate
    /\ Cardinality(Waiting(r)) < Capacity
    /\ mail' = [mail EXCEPT ![m] = [NoRow EXCEPT !.status = "pending", !.load = load]]
    /\ created' = Append(created, m)
    /\ UNCHANGED <<webCore, webBridge, claims, posts, handled, changes>>

\* delete_owner of the repository, the step of an account deletion that is about web rooms.
DeleteOwner(p) ==
    LET mine(m) == Author[m] = p \/ p = Owner IN
    /\ p \in activeUser /\ Disturb
    /\ mail' = [m \in Mail |-> IF mine(m) THEN NoRow ELSE mail[m]]
    /\ created' = SelectSeq(created, LAMBDA m : ~mine(m))
    /\ member' = [r \in Place |-> [q \in Person |->
                    IF q = p \/ p = Owner THEN "none" ELSE member[r][q]]]
    /\ place' = IF p = Owner
                THEN [r \in Place |-> [published |-> FALSE, enabled |-> FALSE, hook |-> NoHook]]
                ELSE place
    /\ profile' = profile \ {p}
    /\ posts' = [m \in Mail |-> IF mine(m) THEN 0 ELSE posts[m]]
    /\ handled' = {m \in handled : ~mine(m)}
    /\ UNCHANGED <<activeUser, granted, upload, sticker, evidence, webBridge, claims>>

\* Elsewhere: accounts end, server access ends, the sticker or the reply target goes away.
Elsewhere ==
    /\ Disturb
    /\ \/ \E p \in Person : activeUser' = activeUser \ {p} /\ UNCHANGED <<granted, sticker, evidence>>
       \/ \E p \in Person : granted' = granted \ {p} /\ UNCHANGED <<activeUser, sticker, evidence>>
       \/ sticker' = FALSE /\ UNCHANGED <<activeUser, granted, evidence>>
       \/ /\ \E r \in Place : evidence' = [evidence EXCEPT ![r].target = FALSE]
          /\ UNCHANGED <<activeUser, granted, sticker>>
    /\ UNCHANGED <<place, member, profile, upload, mail, created, webBridge, claims,
                   posts, handled>>

\* Time: 60 s and 5 min after creation, 2 min after a claim, 90 s after a permission check,
\* 24 h after an upload.
Age(m) ==
    /\ mail[m].status = "pending" /\ mail[m].age < 2
    /\ mail' = [mail EXCEPT ![m].age = @ + 1]
    /\ UNCHANGED <<webCore, created, webBridge, claims, posts, handled, changes>>

ClaimStale(m) ==
    /\ mail[m].status = "claimed" /\ ~mail[m].stale
    /\ mail' = [mail EXCEPT ![m].stale = TRUE]
    /\ UNCHANGED <<webCore, created, webBridge, claims, posts, handled, changes>>

Lapse ==
    /\ Disturb
    /\ \/ /\ \E r \in Place : evidence' = [evidence EXCEPT ![r].fresh = FALSE]
          /\ UNCHANGED upload
       \/ /\ \E f \in Upload : /\ upload[f].state = "live"
                               /\ upload' = [upload EXCEPT ![f].state = "expired"]
          /\ UNCHANGED evidence
    /\ UNCHANGED <<activeUser, granted, place, member, profile, sticker, mail, created,
                   webBridge, claims, posts, handled>>
-----------------------------------------------------------------------------
(* The bridge: refresh of rooms and webhooks *)

SetAccess(r, readable) ==
    evidence' = [evidence EXCEPT ![r].readable = readable, ![r].fresh = TRUE]

Refresh(b, r, h) ==
    /\ bridge[b].pc = "idle" /\ place[r].published /\ place[r].enabled
    /\ ~evidence[r].fresh \/ ~evidence[r].readable \/ known[b][r] # h
    /\ IF place[r].hook \in {h, NoHook} THEN UNCHANGED changes ELSE Disturb
    /\ SetAccess(r, TRUE)
    /\ place' = [place EXCEPT ![r].hook = h]
    /\ known' = [known EXCEPT ![b][r] = h]
    /\ UNCHANGED <<activeUser, granted, member, profile, upload, sticker, mail, created, bridge,
                   tasks, failures, claims, posts, handled>>

RefreshDenied(b, r) ==
    /\ bridge[b].pc = "idle" /\ place[r].published /\ place[r].enabled /\ Disturb
    /\ SetAccess(r, FALSE)
    /\ UNCHANGED <<activeUser, granted, place, member, profile, upload, sticker, mail, created,
                   webBridge, claims, posts, handled>>
-----------------------------------------------------------------------------
(* The bridge: claim, preflight, send, acknowledge *)

\* What the loop of claim decides about a pending row.
Verdict(m, r) ==
    IF ~Access(r, Author[m], TRUE) THEN "cancelled"
    ELSE IF mail[m].age = 2 THEN "failed"
    ELSE IF mail[m].load.sticker /\ ~sticker THEN "failed"
    ELSE "claimed"

PendingAt(r) == {m \in Mail : mail[m].status = "pending" /\ mail[m].load.place = r}
Earlier(m, n) == \E i, j \in DOMAIN created : i < j /\ created[i] = m /\ created[j] = n

\* The rows claim may grant, the one it grants, and those before it, which are settled.
Good(r) == {m \in PendingAt(r) : Verdict(m, r) = "claimed"}
Taken(r) == {m \in Good(r) : \A n \in Good(r) \ {m} : Earlier(m, n)}
SettledAt(r) == {m \in PendingAt(r) \ Good(r) : \A n \in Good(r) : Earlier(m, n)}

GrantRow(m, r) == [mail[m] EXCEPT !.status = "claimed", !.nonce = claims + 1, !.hook = place[r].hook]
GrantTo(b, r) ==
    IF Taken(r) = {} THEN UNCHANGED <<bridge, claims>>
    ELSE /\ \E m \in Taken(r) :
              bridge' = [bridge EXCEPT ![b] = [Idle EXCEPT !.pc = "claimed", !.mail = m,
                                                           !.nonce = claims + 1, !.hook = known[b][r]]]
         /\ claims' = claims + 1

\* Mutant of ClaimNext.
ClaimNextTrusting(b, r) ==
    /\ mail' = [m \in Mail |-> IF m \in SettledAt(r) THEN [mail[m] EXCEPT !.status = Verdict(m, r)]
                               ELSE IF m \in Taken(r) THEN GrantRow(m, r) ELSE mail[m]]
    /\ GrantTo(b, r)

\* Doubt claims older than two minutes, settle the rows before the first good one, claim it.
ClaimNext(b, r) ==
    /\ mail' = [m \in Mail |->
         IF mail[m].status = "claimed" /\ mail[m].load.place = r /\ mail[m].stale
         THEN [mail[m] EXCEPT !.status = "uncertain"]
         ELSE IF m \in SettledAt(r) THEN [mail[m] EXCEPT !.status = Verdict(m, r)]
         ELSE IF m \in Taken(r) THEN GrantRow(m, r) ELSE mail[m]]
    /\ GrantTo(b, r)

Claim(b, r) ==
    /\ bridge[b].pc = "idle" /\ known[b][r] # NoHook
    /\ place[r].published /\ place[r].enabled /\ place[r].hook # NoHook /\ Readable(r)
    /\ ClaimNext(b, r)
    /\ UNCHANGED <<webCore, created, known, tasks, failures, posts, handled, changes>>

\* The connector's own permission check throws: the row stays claimed.
CanSendFails(b) ==
    /\ bridge[b].pc = "claimed" /\ Disturb
    /\ bridge' = [bridge EXCEPT ![b] = Idle]
    /\ UNCHANGED <<webCore, mail, created, known, tasks, failures, claims, posts, handled>>

Held(m, nonce) == mail[m].status # "none" /\ place[mail[m].load.place].published
                  /\ mail[m].nonce = nonce

\* Everything the Core checks again just before a send.
Allowed(m, nonce) ==
    LET r == mail[m].load.place IN
    /\ Held(m, nonce) /\ mail[m].status = "claimed"
    /\ mail[m].load.sticker => sticker
    /\ \A f \in mail[m].load.files : FileLive(f, r, Author[m])
    /\ mail[m].load.reply => ReplyTarget(r)
    /\ Access(r, Author[m], TRUE) /\ Readable(r)

Ack(b, result, receipt, left) ==
    bridge' = [bridge EXCEPT ![b].pc = "ack", ![b].result = result, ![b].receipt = receipt,
                             ![b].left = left]

CheckSending(b) ==
    /\ bridge[b].pc = "claimed"
    /\ IF Allowed(bridge[b].mail, bridge[b].nonce)
       THEN bridge' = [bridge EXCEPT ![b].pc = "send"]
       ELSE Ack(b, "cancelled", 0, 1)
    /\ UNCHANGED <<webCore, mail, created, known, tasks, failures, claims, posts, handled, changes>>

\* The reply target cannot be read in Discord, or link and text are too long together.
Unsendable(b) ==
    /\ bridge[b].pc = "send" /\ mail[bridge[b].mail].load.reply /\ Disturb
    /\ \E result \in {"cancelled", "failed"} : Ack(b, result, 0, 1)
    /\ UNCHANGED <<webCore, mail, created, known, tasks, failures, claims, posts, handled>>

\* attachment_for_claim: bytes go out only for the claim that names the upload.
FilesAt(m, nonce) ==
    \A f \in mail[m].load.files : /\ Held(m, nonce) /\ mail[m].status = "claimed"
                                  /\ FileLive(f, mail[m].load.place, Author[m])

\* Mutant of Post.
PostDoubtless(b) ==
    LET m == bridge[b].mail
        sure == bridge[b].hook = mail[m].hook IN
    /\ bridge[b].pc = "send" /\ FilesAt(m, bridge[b].nonce)
    /\ posts' = [posts EXCEPT ![m] = IF mail[m].nonce = bridge[b].nonce THEN @ + 1 ELSE @]
    /\ \/ Ack(b, IF sure THEN "delivered" ELSE "uncertain",
                 IF sure THEN bridge[b].nonce ELSE 0, AckTries) /\ UNCHANGED changes
       \/ Ack(b, "failed", 0, AckTries) /\ Disturb
    /\ UNCHANGED <<webCore, mail, created, known, tasks, failures, claims, handled>>

Post(b) ==
    LET m == bridge[b].mail
        sure == bridge[b].hook = mail[m].hook IN
    /\ bridge[b].pc = "send" /\ FilesAt(m, bridge[b].nonce)
    /\ posts' = [posts EXCEPT ![m] = IF mail[m].nonce = bridge[b].nonce THEN @ + 1 ELSE @]
    /\ \/ Ack(b, IF sure THEN "delivered" ELSE "uncertain",
                 IF sure THEN bridge[b].nonce ELSE 0, AckTries) /\ UNCHANGED changes
       \/ Ack(b, "uncertain", 0, AckTries) /\ Disturb
    /\ UNCHANGED <<webCore, mail, created, known, tasks, failures, claims, handled>>

\* Discord answers 4xx, or a file is missing: nothing was posted.
PostRefused(b) ==
    /\ bridge[b].pc = "send"
    /\ IF FilesAt(bridge[b].mail, bridge[b].nonce) THEN Disturb ELSE UNCHANGED changes
    /\ Ack(b, "failed", 0, AckTries)
    /\ UNCHANGED <<webCore, mail, created, known, tasks, failures, claims, posts, handled>>

\* acknowledge: a row moves from claimed or uncertain once, with the nonce of its claim.
Settles(m, nonce, result, receipt, hook) ==
    /\ Held(m, nonce) /\ mail[m].status \in {"claimed", "uncertain"}
    /\ result = "delivered" => /\ hook = mail[m].hook
                               /\ \A n \in Mail \ {m} : mail[n].receipt # receipt
Repeats(m, nonce, result, receipt) ==
    /\ Held(m, nonce) /\ mail[m].status = result /\ mail[m].receipt = receipt
    /\ result \in {"delivered", "failed", "cancelled"}

Settle(m, result, receipt) ==
    /\ mail' = [mail EXCEPT ![m].status = result, ![m].receipt = receipt]
    /\ upload' = [f \in Upload |->
         IF f \in mail[m].load.files /\ upload[f].owner = Author[m]
              /\ upload[f].place = mail[m].load.place
         THEN [upload[f] EXCEPT !.state = "gone"] ELSE upload[f]]

Retry(b) ==
    bridge' = IF bridge[b].left > 1 THEN [bridge EXCEPT ![b].left = @ - 1]
              ELSE [bridge EXCEPT ![b] = Idle]

Acknowledge(b) ==
    LET w == bridge[b] IN
    /\ w.pc = "ack"
    /\ \/ /\ Settles(w.mail, w.nonce, w.result, w.receipt, w.hook)
          /\ Settle(w.mail, w.result, w.receipt)
          /\ \/ bridge' = [bridge EXCEPT ![b] = Idle] /\ UNCHANGED changes
             \/ Retry(b) /\ Disturb
       \/ /\ ~Settles(w.mail, w.nonce, w.result, w.receipt, w.hook)
          /\ IF Repeats(w.mail, w.nonce, w.result, w.receipt)
             THEN bridge' = [bridge EXCEPT ![b] = Idle] ELSE Retry(b)
          /\ UNCHANGED <<mail, upload, changes>>
    /\ UNCHANGED <<activeUser, granted, place, member, profile, sticker, evidence, created,
                   known, tasks, failures, claims, posts, handled>>

AckLost(b) ==
    /\ bridge[b].pc = "ack" /\ Disturb /\ Retry(b)
    /\ UNCHANGED <<webCore, mail, created, known, tasks, failures, claims, posts, handled>>
-----------------------------------------------------------------------------
(* The bridge: a delivered message is handed to the Characters *)

PendingDispatch(m) ==
    /\ mail[m].status = "delivered" /\ mail[m].route = "pending"
    /\ Access(mail[m].load.place, Author[m], TRUE)

Dispatch(b, m) ==
    /\ PendingDispatch(m) /\ m \notin tasks[b]
    /\ tasks' = [tasks EXCEPT ![b] = @ \cup {m}]
    /\ UNCHANGED <<webCore, mail, created, bridge, known, failures, claims, posts, handled, changes>>

FinishDispatch(m, outcome) ==
    IF mail[m].status = "delivered" /\ place[mail[m].load.place].published
    THEN mail' = [mail EXCEPT ![m].route = outcome] ELSE UNCHANGED mail

Dispatched(b, m) ==
    /\ m \in tasks[b]
    /\ handled' = handled \cup {m}
    /\ FinishDispatch(m, "processed")
    /\ tasks' = [tasks EXCEPT ![b] = @ \ {m}]
    /\ failures' = [failures EXCEPT ![b][m] = 0]
    /\ UNCHANGED <<webCore, created, bridge, known, claims, posts, changes>>

\* The message cannot be read again, the turn fails, or the answer to the record is lost.
\* The last failure is recorded, unless that request is lost too.
DispatchFails(b, m) ==
    LET count == failures[b][m] + 1 IN
    /\ m \in tasks[b]
    /\ tasks' = [tasks EXCEPT ![b] = @ \ {m}]
    /\ failures' = [failures EXCEPT ![b][m] = IF count < DispatchTries THEN count ELSE DispatchTries]
    /\ handled' \in {handled, handled \cup {m}}
    /\ \/ count >= DispatchTries /\ FinishDispatch(m, "failed") /\ UNCHANGED changes
       \/ count >= DispatchTries /\ UNCHANGED mail /\ Disturb
       \/ count < DispatchTries /\ UNCHANGED <<mail, changes>>
    /\ UNCHANGED <<webCore, created, bridge, known, claims, posts>>

\* The process of a bridge dies: everything but the tables is lost.
BridgeCrash(b) ==
    /\ Disturb
    /\ bridge' = [bridge EXCEPT ![b] = Idle]
    /\ known' = [known EXCEPT ![b] = [r \in Place |-> NoHook]]
    /\ tasks' = [tasks EXCEPT ![b] = {}]
    /\ failures' = [failures EXCEPT ![b] = [m \in Mail |-> 0]]
    /\ UNCHANGED <<webCore, mail, created, claims, posts, handled>>
-----------------------------------------------------------------------------
BridgeStep(b) ==
    \/ \E r \in Place : Claim(b, r)
    \/ CheckSending(b) \/ Post(b) \/ PostRefused(b) \/ Acknowledge(b)
    \/ \E m \in Mail : Dispatch(b, m) \/ Dispatched(b, m)

Portal ==
    \/ \E r \in Place : Publish(r) \/ \E e \in BOOLEAN : Configure(r, e)
    \/ \E r \in Place, p \in Person, right \in Right : Member(r, p, right)
    \/ \E f \in Upload, r \in Place, p \in Person : CreateAttachment(f, r, p)
    \/ \E m \in Mail, load \in Load : Enqueue(m, load)
    \/ \E p \in Person : DeleteOwner(p)

WebNext ==
    \/ Portal
    \/ Elsewhere \/ Lapse
    \/ \E m \in Mail : Age(m) \/ ClaimStale(m)
    \/ \E b \in Bridge, r \in Place : RefreshDenied(b, r) \/ \E h \in Hook : Refresh(b, r, h)
    \/ \E b \in Bridge : BridgeStep(b) \/ CanSendFails(b) \/ Unsendable(b) \/ AckLost(b)
                         \/ BridgeCrash(b) \/ \E m \in Mail : DispatchFails(b, m)

WebSpec == WebInit /\ [][WebNext]_webVars
-----------------------------------------------------------------------------
(* Properties *)

\* What the outbox tells the author is true, whatever is lost or dies between the claim of a
\* message and its acknowledgement and however many bridges poll: a delivered message was
\* posted once, a failed, a cancelled or a waiting one was not posted, only claimed and
\* uncertain ones leave it open; a processed one did reach the Characters.
WebStatusTrue ==
    \A m \in Mail :
        /\ posts[m] <= 1
        /\ mail[m].status = "delivered" => posts[m] = 1
        /\ mail[m].status \in {"pending", "failed", "cancelled"} => posts[m] = 0
        /\ mail[m].route # "pending" => mail[m].status = "delivered"
        /\ mail[m].route = "processed" => m \in handled

\* An accepted message is posted, refused or doubted in the end, unless its room cannot be
\* served: a claim whose bridge died does not stay open.
Serviceable(r) == place[r].enabled /\ Readable(r) /\ \E b \in Bridge : known[b][r] = place[r].hook
WebMailSettles ==
    \A m \in Mail : (mail[m].status = "pending") ~>
        (mail[m].status \notin {"pending", "claimed"} \/ ~Serviceable(mail[m].load.place))
=============================================================================
