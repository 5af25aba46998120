------------------------------ MODULE Accounts ------------------------------
(***************************************************************************)
(* Accounts, and what opens a door to them: invitations, logins with their *)
(* throttle, browser sessions, and the device grants of the command line.  *)
(* The service runs as several replicas over one database, in production   *)
(* and by invitation only; a request is a sequence of transactions.  What  *)
(* a request has read it keeps, and it is served by what it has read.      *)
(***************************************************************************)
EXTENDS Naturals, FiniteSets

CONSTANTS Account,       \* user identifiers
          Founder,       \* the bootstrap Admin
          Email,
          Session,       \* one per login that succeeds
          Invitation,
          Device,        \* device authorizations, each with the grant it may lead to
          Caller,        \* requests being handled
          FailureLimit,  \* login_failure_limit
          MaxPolls,         \* bound: polls of a device
          MaxAccountEdits,  \* bound: what administrators and owners do
          Nobody, NoEmail

ASSUME AccountsAssumption ==
    /\ Founder \in Account /\ Nobody \notin Account \cup Caller /\ NoEmail \notin Email
    /\ Email # {} /\ {FailureLimit, MaxPolls, MaxAccountEdits} \subseteq Nat

VARIABLES user,       \* users
          session,    \* auth_sessions
          invitation, \* invitations
          device,     \* cli_devices
          grant,      \* cli_grants
          bucket,     \* rate_limit_buckets of logins
          admission,  \* owner admission locks: the request that holds one
          readable,   \* accounts that may read the rooms a device asks for
          call,       \* requests being handled
          created,    \* history: accounts made from an invitation
          tokens,     \* history: tokens handed out for a device
          accountEdits

accountTables == <<user, session, invitation, device, grant, bucket>>
accountsVars == <<accountTables, admission, readable, call, created, tokens, accountEdits>>
-----------------------------------------------------------------------------
(* Rows *)

NoUser == [state |-> "none", role |-> "user", email |-> NoEmail]
NewUser(role, e) == [state |-> "active", role |-> role, email |-> e]
NoSession == [owner |-> Nobody, state |-> "none", over |-> FALSE]
NewSession(a) == [owner |-> a, state |-> "live", over |-> FALSE]
NoInvitation == [state |-> "none", role |-> "user", over |-> FALSE]
NoDevice == [status |-> "none", reviewer |-> Nobody, version |-> 0, over |-> FALSE,
             slow |-> FALSE, holder |-> Nobody]
NoGrant == [owner |-> Nobody, state |-> "none", over |-> FALSE, token |-> FALSE]
NewGrant(a) == [NoGrant EXCEPT !.owner = a, !.state = "live"]
NoFailures == [count |-> 0, blocked |-> FALSE, aged |-> FALSE]
NoCallYet == [pc |-> "idle", op |-> "none", as |-> Nobody, admin |-> FALSE, with |-> "none",
         on |-> "none", seen |-> NoDevice, late |-> FALSE]

Active(a) == a \in Account /\ user[a].state = "active"
Admins == {a \in Account : Active(a) /\ user[a].role = "admin"}
SessionAlive(s) == session[s].state = "live" /\ ~session[s].over /\ Active(session[s].owner)
GrantLives(d) == grant[d].state = "live" /\ ~grant[d].over
GrantAlive(d) == GrantLives(d) /\ Active(grant[d].owner) /\ grant[d].owner \in readable
Holder(e) == {a \in Account : user[a].email = e}

\* ensure_bootstrap_admin has run, and its first login.
FirstUsers ==
    \E e \in Email : user = [a \in Account |-> IF a = Founder
                     THEN NewUser("admin", e) ELSE NoUser]

NoRequests ==
    /\ \E s \in Session : session = [t \in Session |->
                            IF t = s THEN NewSession(Founder)
                            ELSE NoSession]
    /\ invitation = [i \in Invitation |-> NoInvitation]
    /\ device = [d \in Device |-> NoDevice] /\ grant = [d \in Device |-> NoGrant]
    /\ bucket = [e \in Email |-> NoFailures]
    /\ admission = [a \in Account |-> Nobody]
    /\ readable = Account
    /\ call = [c \in Caller |-> NoCallYet]
    /\ created = [i \in Invitation |-> 0] /\ tokens = [d \in Device |-> 0]
    /\ accountEdits = 0

AccountsInit == FirstUsers /\ NoRequests

AccountEdit == accountEdits < MaxAccountEdits /\ accountEdits' = accountEdits + 1

At(c, pc) == call[c].pc = pc
Does(c, op) == At(c, "act") /\ call[c].op = op
Turn(c, pc) == call' = [call EXCEPT ![c].pc = pc]
Done(c) == /\ call' = [call EXCEPT ![c] = NoCallYet]
           /\ admission' = [a \in Account |-> IF admission[a] = c THEN Nobody ELSE admission[a]]
-----------------------------------------------------------------------------
(* Registration and login *)

\* Mutant: an invitation that was used is not refused.
ClaimableTwice(i) == invitation[i].state \in {"open", "accepted"} /\ ~invitation[i].over

\* claim_invitation_for_registration: one conditional update.
Claimable(i) == invitation[i].state = "open" /\ ~invitation[i].over

\* The invitation is claimed and the account created in one transaction; the same
\* request then logs in, past the throttle.
Register(c, i, e, a) ==
    /\ At(c, "idle") /\ user[a].state = "none"
    /\ Claimable(i) /\ Holder(e) = {}
    /\ user' = [user EXCEPT ![a] = NewUser(invitation[i].role, e)]
    /\ invitation' = [invitation EXCEPT ![i].state = "accepted"]
    /\ created' = [created EXCEPT ![i] = @ + 1]
    /\ call' = [call EXCEPT ![c] = [NoCallYet EXCEPT !.pc = "verify", !.op = "register", !.with = e]]
    /\ UNCHANGED <<session, device, grant, bucket, admission, readable, tokens, accountEdits>>

\* check_login reads; it never resets a block that has ended.
Throttled(e) == bucket[e].blocked /\ ~bucket[e].aged

Login(c, e) ==
    /\ At(c, "idle") /\ ~Throttled(e)
    /\ call' = [call EXCEPT ![c] = [NoCallYet EXCEPT !.pc = "verify", !.op = "login", !.with = e]]
    /\ UNCHANGED <<accountTables, admission, readable, created, tokens, accountEdits>>

\* The password is right, or it is not; only the holder of a row can have the right one.
Verify(c, right) ==
    LET e == call[c].with IN
    /\ At(c, "verify")
    /\ \/ /\ right
          /\ \E a \in Holder(e) : /\ Active(a)
                                  /\ call' = [call EXCEPT ![c].pc = "open", ![c].as = a]
       \/ /\ ~right /\ call[c].op = "login" /\ Turn(c, "fail")
       \/ /\ ~right /\ call[c].op = "register" /\ Holder(e) = {}
          /\ call' = [call EXCEPT ![c] = NoCallYet]
    /\ UNCHANGED <<accountTables, admission, readable, created, tokens, accountEdits>>

\* record_login_failure, one upsert: a window or block that has ended starts a new count.
Failed(b) ==
    LET n == IF b.aged THEN 1 ELSE b.count + 1
    IN  [count |-> n, blocked |-> n >= FailureLimit, aged |-> FALSE]

RecordLoginFailure(c) ==
    /\ At(c, "fail")
    /\ bucket' = [bucket EXCEPT ![call[c].with] = Failed(@)]
    /\ call' = [call EXCEPT ![c] = NoCallYet]
    /\ UNCHANGED <<user, session, invitation, device, grant, admission, readable, created, tokens,
                   accountEdits>>

OpenSession(c, s) ==
    /\ At(c, "open") /\ session[s].state = "none"
    /\ session' = [session EXCEPT ![s] = NewSession(call[c].as)]
    /\ call' = [call EXCEPT ![c] = IF call[c].op = "login" THEN [@ EXCEPT !.pc = "clear"] ELSE NoCallYet]
    /\ UNCHANGED <<user, invitation, device, grant, bucket, admission, readable, created, tokens,
                   accountEdits>>

RecordLoginSuccess(c) ==
    /\ At(c, "clear")
    /\ bucket' = [bucket EXCEPT ![call[c].with] = NoFailures]
    /\ call' = [call EXCEPT ![c] = NoCallYet]
    /\ UNCHANGED <<user, session, invitation, device, grant, admission, readable, created, tokens,
                   accountEdits>>
-----------------------------------------------------------------------------
(* A request with a browser session *)

\* What a person may ask for, and the row it is about.  Device approval does not
\* take the owner's admission lock.
AdminOps == {"invite", "uninvite", "role", "delete"}
OwnOps == {"logout", "leave"}
DeviceOps == {"review", "decide", "ungrant"}

Subjects(op) == CASE op \in {"invite", "uninvite"} -> Invitation
                  [] op \in {"role", "delete"} -> Account
                  [] op = "logout" -> Session
                  [] op = "leave" -> {"none"}
                  [] OTHER -> Device

\* late: the session or its account was already over when the request arrived.
Ask(c, s, op, x) ==
    /\ At(c, "idle") /\ session[s].state # "none" /\ x \in Subjects(op)
    /\ call' = [call EXCEPT ![c] = [NoCallYet EXCEPT !.pc = "session", !.op = op, !.with = s, !.on = x,
                                                !.late = ~SessionAlive(s)]]
    /\ UNCHANGED <<accountTables, admission, readable, created, tokens, accountEdits>>

Revoked(s, a) == IF session[s].state = "live" /\ session[s].owner = a
                 THEN [session EXCEPT ![s].state = "revoked"] ELSE session

\* The session is read, and revoked when its time is over; the account is read after it.
ResolveSession(c) ==
    LET s == call[c].with IN
    /\ At(c, "session")
    /\ IF session[s].state = "live" /\ ~session[s].over THEN Turn(c, "account")
       ELSE call' = [call EXCEPT ![c] = NoCallYet]
    /\ session' = IF session[s].over THEN Revoked(s, session[s].owner) ELSE session
    /\ UNCHANGED <<user, invitation, device, grant, bucket, admission, readable, created, tokens,
                   accountEdits>>

\* Mutant: the session row is trusted for its account.
ResolveUserOfSession(c) ==
    LET a == session[call[c].with].owner IN
    /\ At(c, "account")
    /\ call' = [call EXCEPT ![c].pc = IF call[c].op \in DeviceOps THEN "act" ELSE "admit",
                            ![c].as = a, ![c].admin = user[a].role = "admin"]
    /\ UNCHANGED <<accountTables, admission, readable, created, tokens, accountEdits>>

ResolveUser(c) ==
    LET a == session[call[c].with].owner IN
    /\ At(c, "account")
    /\ call' = [call EXCEPT ![c] = IF ~Active(a) THEN NoCallYet ELSE
                  [@ EXCEPT !.pc = IF call[c].op \in DeviceOps THEN "act" ELSE "admit",
                            !.as = a, !.admin = user[a].role = "admin"]]
    /\ UNCHANGED <<accountTables, admission, readable, created, tokens, accountEdits>>

\* require_admin looks at the role that was read.
Permitted(c) == call[c].op \in AdminOps => call[c].admin

\* Writes of one acting account run one after another, in all replicas.  The wait is
\* five seconds long; the role was read before it.
Admit(c) ==
    /\ At(c, "admit") /\ admission[call[c].as] = Nobody
    /\ Permitted(c)
    /\ admission' = [admission EXCEPT ![call[c].as] = c]
    /\ Turn(c, "act")
    /\ UNCHANGED <<accountTables, readable, created, tokens, accountEdits>>

Refuse(c) ==
    /\ At(c, "admit")
    /\ admission[call[c].as] # Nobody \/ ~Permitted(c)
    /\ Done(c)
    /\ UNCHANGED <<accountTables, readable, created, tokens, accountEdits>>

RevokeSession(c) ==
    /\ Does(c, "logout")
    /\ session' = Revoked(call[c].on, call[c].as)
    /\ Done(c)
    /\ UNCHANGED <<user, invitation, device, grant, bucket, readable, created, tokens, accountEdits>>

CreateInvitation(c, role) ==
    /\ Does(c, "invite") /\ invitation[call[c].on].state = "none" /\ AccountEdit
    /\ invitation' = [invitation EXCEPT ![call[c].on] =
                        [state |-> "open", role |-> role, over |-> FALSE]]
    /\ Done(c)
    /\ UNCHANGED <<user, session, device, grant, bucket, readable, created, tokens>>

RevokeInvitation(c) ==
    /\ Does(c, "uninvite")
    /\ invitation' = IF invitation[call[c].on].state = "open"
                     THEN [invitation EXCEPT ![call[c].on].state = "revoked"] ELSE invitation
    /\ Done(c)
    /\ UNCHANGED <<user, session, device, grant, bucket, readable, created, tokens, accountEdits>>

\* Nobody demotes themselves, and the last Admin that is counted stays one.
RoleAllowed(c, role) ==
    LET a == call[c].on IN
    /\ Active(a)
    /\ role # "admin" => a # call[c].as /\ (user[a].role = "admin" => Cardinality(Admins) > 1)

SetRole(c, role) ==
    /\ Does(c, "role") /\ AccountEdit
    /\ user' = IF RoleAllowed(c, role) THEN [user EXCEPT ![call[c].on].role = role] ELSE user
    /\ Done(c)
    /\ UNCHANGED <<session, invitation, device, grant, bucket, readable, created, tokens>>

Deletable(a) == Active(a) /\ (user[a].role = "admin" => Cardinality(Admins) > 1)

\* validate_account_deletion has its own transaction and is called again once the
\* owned rows are gone, in many more.
Leaving(c) == IF call[c].op = "leave" THEN call[c].as ELSE call[c].on

ValidateDeletion(c) ==
    LET a == Leaving(c) IN
    /\ call[c].op \in {"leave", "delete"}
    /\ \/ At(c, "act") /\ AccountEdit
       \/ At(c, "owned") /\ UNCHANGED accountEdits
    /\ IF Deletable(a) /\ (call[c].op = "delete" => a # call[c].as)
       THEN Turn(c, IF At(c, "act") THEN "owned" ELSE "delete") /\ UNCHANGED admission
       ELSE Done(c)
    /\ UNCHANGED <<accountTables, readable, created, tokens>>

DeletedUser == [state |-> "deleted", role |-> "user", email |-> NoEmail]

\* The last transaction: sessions and failures go, the row stays without its address.
DeleteAccount(c) ==
    LET a == Leaving(c) IN
    /\ At(c, "delete")
    /\ session' = [s \in Session |-> IF session[s].owner = a /\ session[s].state # "none"
                                     THEN [session[s] EXCEPT !.state = "gone"] ELSE session[s]]
    /\ bucket' = [e \in Email |-> IF user[a].email = e THEN NoFailures ELSE bucket[e]]
    /\ user' = [user EXCEPT ![a] = DeletedUser]
    /\ Done(c)
    /\ UNCHANGED <<invitation, device, grant, readable, created, tokens, accountEdits>>
-----------------------------------------------------------------------------
(* Device authorization *)

CreateDevice(d) ==
    /\ device[d].status = "none"
    /\ device' = [device EXCEPT ![d].status = "pending"]
    /\ UNCHANGED <<user, session, invitation, grant, bucket, admission, readable, call, created,
                   tokens, accountEdits>>

OpenCode(d) == device[d].status = "pending" /\ ~device[d].over

\* The first account that reviews a code is the only one that may decide it.
Review(c) ==
    LET d == call[c].on IN
    /\ Does(c, "review")
    /\ device' = IF /\ OpenCode(d) /\ call[c].as \in readable
                    /\ device[d].reviewer \in {Nobody, call[c].as}
                 THEN [device EXCEPT ![d].reviewer = call[c].as] ELSE device
    /\ Done(c)
    /\ UNCHANGED <<user, session, invitation, grant, bucket, readable, created, tokens, accountEdits>>

Decides(c, approve) ==
    LET d == call[c].on IN
    /\ OpenCode(d) /\ device[d].reviewer = call[c].as
    /\ approve => call[c].as \in readable

Decide(c, approve) ==
    LET d == call[c].on IN
    /\ Does(c, "decide") /\ device[d].holder = Nobody
    /\ IF Decides(c, approve)
       THEN /\ device' = [device EXCEPT ![d].status = IF approve THEN "approved" ELSE "denied"]
            /\ grant' = IF approve THEN [grant EXCEPT ![d] = NewGrant(call[c].as)] ELSE grant
       ELSE UNCHANGED <<device, grant>>
    /\ Done(c)
    /\ UNCHANGED <<user, session, invitation, bucket, readable, created, tokens, accountEdits>>

GrantRevoked(d, a) == IF grant[d].state = "live" /\ grant[d].owner = a
                      THEN [grant EXCEPT ![d].state = "revoked"] ELSE grant

RevokeGrant(c) ==
    LET d == call[c].on IN
    /\ Does(c, "ungrant")
    /\ grant' = GrantRevoked(d, call[c].as)
    /\ Done(c)
    /\ UNCHANGED <<user, session, invitation, device, bucket, readable, created, tokens, accountEdits>>
-----------------------------------------------------------------------------
(* The command line asks for its token *)

Poll(c, d) ==
    /\ At(c, "idle") /\ device[d].status \in {"pending", "approved"} /\ ~device[d].over
    /\ device[d].version < MaxPolls
    /\ call' = [call EXCEPT ![c] = [NoCallYet EXCEPT !.pc = "poll", !.op = "poll", !.on = d,
                                                !.seen = device[d]]]
    /\ UNCHANGED <<accountTables, admission, readable, created, tokens, accountEdits>>

\* The update that claims this poll waits for the row; it changes nothing when the
\* version or the status is no longer what was read.  A poll that came too early, or
\* before the decision, ends here and its penalty is kept.
Claimed(c) == LET d == call[c].on
              IN  device[d].version = call[c].seen.version /\ device[d].status = call[c].seen.status

ClaimPoll(c) ==
    LET d == call[c].on  next == [device[d] EXCEPT !.version = @ + 1, !.slow = TRUE] IN
    /\ At(c, "poll") /\ device[d].holder = Nobody
    /\ IF Claimed(c) /\ ~call[c].seen.slow /\ call[c].seen.status = "approved"
       THEN /\ device' = [device EXCEPT ![d].holder = c]
            /\ Turn(c, "issue")
       ELSE /\ device' = IF Claimed(c) THEN [device EXCEPT ![d] = next] ELSE device
            /\ call' = [call EXCEPT ![c] = NoCallYet]
    /\ UNCHANGED <<user, session, invitation, grant, bucket, admission, readable, created, tokens,
                   accountEdits>>

\* An ended grant keeps the claim, a closed account or room takes it back; a grant
\* that was revoked between its read and the issue takes it back too.
Issue(c) ==
    LET d == call[c].on  next == [device[d] EXCEPT !.version = @ + 1, !.slow = TRUE, !.holder = Nobody] IN
    /\ At(c, "issue")
    /\ \/ /\ GrantAlive(d) /\ ~grant[d].token
          /\ device' = [device EXCEPT ![d] = [next EXCEPT !.status = "redeemed"]]
          /\ grant' = [grant EXCEPT ![d].token = TRUE]
          /\ tokens' = [tokens EXCEPT ![d] = @ + 1]
       \/ /\ ~GrantLives(d) /\ device' = [device EXCEPT ![d] = next] /\ UNCHANGED <<grant, tokens>>
       \/ /\ ~GrantAlive(d) /\ device' = [device EXCEPT ![d].holder = Nobody]
          /\ UNCHANGED <<grant, tokens>>
    /\ call' = [call EXCEPT ![c] = NoCallYet]
    /\ UNCHANGED <<user, session, invitation, bucket, admission, readable, created, accountEdits>>
-----------------------------------------------------------------------------
(* The command line uses its token: resolve, read the room, resolve again, answer *)

CliAsk(c, d, op) ==
    /\ At(c, "idle") /\ tokens[d] > 0 /\ GrantLives(d) /\ Active(grant[d].owner)
    /\ op = "messages" => GrantAlive(d)
    /\ call' = [call EXCEPT ![c] = [NoCallYet EXCEPT !.pc = IF op = "revoke" THEN "act" ELSE "snapshot",
                  !.op = IF op = "revoke" THEN "ungrant" ELSE op, !.on = d, !.as = grant[d].owner]]
    /\ UNCHANGED <<accountTables, admission, readable, created, tokens, accountEdits>>

\* late: the grant or its account was over when the room was read.
ReadGranted(c) ==
    LET g == grant[call[c].on] IN
    /\ At(c, "snapshot")
    /\ call' = [call EXCEPT ![c] = IF g.owner \notin readable THEN NoCallYet ELSE
         [@ EXCEPT !.pc = "again", !.late = ~GrantLives(call[c].on) \/ ~Active(g.owner)]]
    /\ UNCHANGED <<accountTables, admission, readable, created, tokens, accountEdits>>

ResolveAgain(c) ==
    /\ At(c, "again")
    /\ call' = [call EXCEPT ![c] = IF GrantAlive(call[c].on) THEN [@ EXCEPT !.pc = "served"] ELSE NoCallYet]
    /\ UNCHANGED <<accountTables, admission, readable, created, tokens, accountEdits>>

\* A stream takes the next snapshot a second later.
AnswerCli(c, again) ==
    /\ At(c, "served")
    /\ call' = [call EXCEPT ![c] = IF again /\ GrantAlive(call[c].on)
                                   THEN [@ EXCEPT !.pc = "snapshot"] ELSE NoCallYet]
    /\ UNCHANGED <<accountTables, admission, readable, created, tokens, accountEdits>>
-----------------------------------------------------------------------------
(* Time, and the rooms *)

SessionEnds(s) ==
    /\ session[s].state = "live" /\ ~session[s].over
    /\ session' = [session EXCEPT ![s].over = TRUE]
    /\ UNCHANGED <<user, invitation, device, grant, bucket, admission, readable, call, created,
                   tokens, accountEdits>>

InvitationEnds(i) ==
    /\ invitation[i].state = "open" /\ ~invitation[i].over
    /\ invitation' = [invitation EXCEPT ![i].over = TRUE]
    /\ UNCHANGED <<user, session, device, grant, bucket, admission, readable, call, created,
                   tokens, accountEdits>>

\* The code is over, the next poll is due, or the grant is over.
DeviceTime(d) ==
    /\ \/ /\ device[d].status # "none" /\ ~device[d].over /\ device[d].holder = Nobody
          /\ device' = [device EXCEPT ![d].over = TRUE] /\ UNCHANGED grant
       \/ /\ device[d].slow /\ device[d].holder = Nobody
          /\ device' = [device EXCEPT ![d].slow = FALSE] /\ UNCHANGED grant
       \/ /\ GrantLives(d) /\ grant' = [grant EXCEPT ![d].over = TRUE] /\ UNCHANGED device
    /\ UNCHANGED <<user, session, invitation, bucket, admission, readable, call, created, tokens,
                   accountEdits>>

BucketAges(e) ==
    /\ bucket[e].count > 0 /\ ~bucket[e].aged
    /\ bucket' = [bucket EXCEPT ![e].aged = TRUE]
    /\ UNCHANGED <<user, session, invitation, device, grant, admission, readable, call, created,
                   tokens, accountEdits>>

RoomsChange(a) ==
    /\ AccountEdit
    /\ readable' = IF a \in readable THEN readable \ {a} ELSE readable \cup {a}
    /\ UNCHANGED <<accountTables, admission, call, created, tokens>>
-----------------------------------------------------------------------------
LoginStep(c) ==
    \/ \E i \in Invitation, e \in Email, a \in Account : Register(c, i, e, a)
    \/ \E e \in Email : Login(c, e)
    \/ \E right \in BOOLEAN : Verify(c, right)
    \/ RecordLoginFailure(c) \/ RecordLoginSuccess(c)
    \/ \E s \in Session : OpenSession(c, s)

BrowserStep(c) ==
    \/ ResolveSession(c) \/ ResolveUser(c) \/ Admit(c) \/ Refuse(c)
    \/ RevokeSession(c) \/ RevokeInvitation(c) \/ ValidateDeletion(c) \/ DeleteAccount(c)
    \/ \E role \in {"user", "admin"} : CreateInvitation(c, role) \/ SetRole(c, role)

DeviceStep(c) ==
    \/ Review(c) \/ RevokeGrant(c) \/ ClaimPoll(c) \/ Issue(c)
    \/ ReadGranted(c) \/ ResolveAgain(c)
    \/ \E x \in BOOLEAN : Decide(c, x) \/ AnswerCli(c, x)
    \/ \E d \in Device : Poll(c, d) \/ CliAsk(c, d, "messages") \/ CliAsk(c, d, "revoke")

AccountsTime ==
    \/ \E s \in Session : SessionEnds(s)
    \/ \E i \in Invitation : InvitationEnds(i)
    \/ \E d \in Device : DeviceTime(d) \/ CreateDevice(d)
    \/ \E e \in Email : BucketAges(e)
    \/ \E a \in Account : RoomsChange(a)

AccountsNext ==
    \/ \E c \in Caller : \/ LoginStep(c) \/ BrowserStep(c) \/ DeviceStep(c)
                         \/ \E s \in Session, op \in AdminOps \cup OwnOps \cup DeviceOps :
                              \E x \in Subjects(op) : Ask(c, s, op, x)
    \/ AccountsTime

AccountsSpec == AccountsInit /\ [][AccountsNext]_accountsVars
-----------------------------------------------------------------------------
(* Properties *)

\* No request is served on a credential that was over before: neither a browser
\* request that arrived after its session was revoked or ran out, or after its account
\* was deleted, however the deletion's transactions and a login that was under way
\* fell; nor a command-line request whose room was read after its grant or its
\* account had ended.
AdmittedAlive ==
    \A c \in Caller : call[c].pc \in {"admit", "act", "owned", "delete", "served"} => ~call[c].late

\* Replicas that answer at the same time hand out one account per invitation, and one
\* token per approval; only a device its reviewer approved has a grant, for them.
IssuedOnce ==
    /\ \A i \in Invitation : /\ created[i] <= 1
                             /\ created[i] = 1 <=> invitation[i].state = "accepted"
    /\ \A d \in Device :
         /\ tokens[d] <= 1
         /\ tokens[d] = 1 <=> device[d].status = "redeemed"
         /\ grant[d].state # "none" <=> device[d].status \in {"approved", "redeemed"}
         /\ grant[d].state # "none" => grant[d].owner = device[d].reviewer
=============================================================================
