---------------------------- MODULE PlatformProofs ----------------------------
(***************************************************************************)
(* What a Character may rely on among the people of a server: its turns    *)
(* are honest, and whoever was turned out of a server is not served there. *)
(*                                                                         *)
(* TurnsStayHonest, for every set of messages, workers and tool calls, any *)
(* number of rounds, deliveries and restarts: a pending action reaches the *)
(* outside at most once, a message is on record as perceived only if       *)
(* Runtime obtained observations of it, and a picture is shown only if     *)
(* Discord accepted one.  None of the three is inductive.  That a row is   *)
(* not claimed twice needs where its holder stands: one turn holds it      *)
(* (OneHolder), a held row is claimed and nothing was written for it       *)
(* before the turn's one write (TurnTrue), and a row that can be claimed   *)
(* has no write yet (RowsTrue). The row is given back to "blocked" only    *)
(* when the last call found the provider missing; the provider is read     *)
(* when the process starts, and a row is resumed only where it is          *)
(* configured, so this never happens to a turn that may have written.      *)
(* After a restart the row stays in_progress.                              *)
(*                                                                         *)
(* TurnedOutIsSilent needs what the tables say of each other, as the       *)
(* schema has no foreign keys: profiles are numbered and no number is      *)
(* given out twice (ProfilesNumbered), scopes and choices name profiles of *)
(* their account (ScopesOwned, ChoicesOwned), and the commits of the       *)
(* requests under way cannot bring back what was taken (TurnedOut).        *)
(***************************************************************************)
EXTENDS Deployments, CharacterTurn, FiniteSetTheorems, TLAPS

TurnFields == {"pc", "msg", "has", "blind", "plan", "row", "hidden", "rounds", "calls", "wrote",
               "last", "looks", "invite", "out"}

\* A turn that resumed a pending action holds its row until it ends.
HoldsRow(x) == x.pc \notin {"idle", "context", "pending"} /\ x.row # NoMsg

\* What one turn may rely on: a row is resumed only where the provider is configured, the row
\* it holds was claimed, and nothing was written for it before the turn's one write.
TurnTrue(x) ==
  /\ x.pc # "idle" => x.msg \in Msg
  /\ x.row # NoMsg => x.row \in Msg
  /\ x.pc \in {"idle", "context"} => x.row = NoMsg
  /\ x.pc = "pending" /\ x.plan = "resume" => x.row \in Msg /\ avail
  /\ x.pc = "pending" /\ x.plan = "cancel" => x.row \in Msg
  /\ x.pc = "pending" /\ x.plan \notin {"resume", "cancel"} => x.row = NoMsg
  /\ x.pc \in {"making", "posting"} => ~x.wrote /\ Head(x.calls).tool = "write"
  /\ x.last = "unconfigured" => ~avail
  /\ HoldsRow(x) => /\ avail /\ action[x.row] \notin {"none", "blocked"}
                    /\ ~x.wrote => ran[x.row] = 0

\* The shape of the state, as far as the steps below rely on it.
TurnsShaped ==
  /\ at = [w \in Worker |-> at[w]] /\ \A w \in Worker : DOMAIN at[w] = TurnFields
  /\ action = [m \in Msg |-> action[m]]
  /\ ran \in [Msg -> Nat] /\ posted \in [Msg -> Nat]
  /\ effect = [m \in Msg |-> effect[m]] /\ \A m \in Msg : DOMAIN effect[m] = {"status", "arg", "result"}
  /\ percept = [m \in Msg |-> percept[m]]

TurnsTrue == \A w \in Worker : TurnTrue(at[w])
\* No two turns resumed the same pending action.
OneHolder == \A v, w \in Worker : HoldsRow(at[v]) /\ HoldsRow(at[w]) /\ at[v].row = at[w].row => v = w
\* A row that can still be claimed has nothing written in its name.
RowsTrue == \A r \in Msg : ran[r] <= 1 /\ (action[r] \in {"none", "blocked"} => ran[r] = 0)
\* A step that is on record as completed, or whose picture will be listed, was posted.
PicturesTrue == /\ \A m \in Msg : /\ effect[m].result \in {"none", "completed", "failed"}
                                  /\ effect[m].result = "completed" => posted[m] > 0
                /\ \A m \in shown : m \in Msg /\ posted[m] > 0
\* `any` is the flag that keeps a later failure from erasing what was seen.
PerceptsTrue == \A m \in Msg : percept[m].state = "perceived" \/ percept[m].any => m \in observed

TurnInv == TurnsShaped /\ TurnsTrue /\ OneHolder /\ RowsTrue /\ PicturesTrue /\ PerceptsTrue

LEMMA FreeIs == /\ DOMAIN Free = TurnFields /\ Free.pc = "idle" /\ Free.row = NoMsg
                /\ ~HoldsRow(Free) /\ Free.last = "none" /\ ~Free.wrote
  BY DEF Free, TurnFields, HoldsRow

\* A step of one turn that takes no row, while rows and outside writes stay as they are.
LEMMA TurnMoves ==
  ASSUME TurnInv, NEW w \in Worker, NEW y, Turn(w, y), UNCHANGED <<action, ran, avail>>,
         DOMAIN y = TurnFields, TurnTrue(y),
         HoldsRow(y) => HoldsRow(at[w]) /\ y.row = at[w].row,
         effect' = [m \in Msg |-> effect'[m]],
         \A m \in Msg : DOMAIN effect'[m] = {"status", "arg", "result"},
         posted' \in [Msg -> Nat], percept' = [m \in Msg |-> percept'[m]],
         PicturesTrue', PerceptsTrue'
  PROVE  TurnInv'
<1>1. at' = [v \in Worker |-> at'[v]] /\ at'[w] = y /\ \A v \in Worker \ {w} : at'[v] = at[v]
  BY DEF Turn, TurnInv, TurnsShaped
<1>2. TurnsShaped'
  BY <1>1 DEF TurnInv, TurnsShaped
<1>3. TurnsTrue'
  BY <1>1 DEF TurnInv, TurnsTrue, TurnTrue, HoldsRow
<1>4. OneHolder'
  BY <1>1 DEF TurnInv, OneHolder, HoldsRow
<1>5. RowsTrue'
  BY DEF TurnInv, RowsTrue
<1> QED BY <1>2, <1>3, <1>4, <1>5 DEF TurnInv

\* The same, where pictures and perceptions stay as well.
LEMMA TurnGoesOn ==
  ASSUME TurnInv, NEW w \in Worker, NEW y, Turn(w, y),
         UNCHANGED <<action, ran, avail, effect, posted, shown, percept, observed>>,
         DOMAIN y = TurnFields, TurnTrue(y),
         HoldsRow(y) => HoldsRow(at[w]) /\ y.row = at[w].row
  PROVE  TurnInv'
<1>1. PicturesTrue' /\ PerceptsTrue'
  BY DEF TurnInv, PicturesTrue, PerceptsTrue
<1> QED BY <1>1, TurnMoves DEF TurnInv, TurnsShaped

\* A turn that ends holds nothing.
LEMMA TurnEnds ==
  ASSUME TurnInv, NEW w \in Worker, Ended(w),
         UNCHANGED <<action, ran, avail, effect, posted, shown, percept, observed>>
  PROVE  TurnInv'
<1>1. Turn(w, Free) /\ TurnTrue(Free)
  BY FreeIs DEF Ended, Turn, TurnTrue
<1> QED BY <1>1, FreeIs, TurnGoesOn

\* What does not concern turns, rows and pictures.
LEMMA WorldMoves ==
  ASSUME TurnInv, UNCHANGED <<at, action, ran, avail, effect, posted, shown>>,
         percept' = [m \in Msg |-> percept'[m]], PerceptsTrue'
  PROVE  TurnInv'
<1>1. TurnsShaped' /\ OneHolder' /\ RowsTrue' /\ PicturesTrue'
  BY DEF TurnInv, TurnsShaped, OneHolder, RowsTrue, PicturesTrue, HoldsRow
<1>2. TurnsTrue'
  BY DEF TurnInv, TurnsTrue, TurnTrue, HoldsRow
<1> QED BY <1>1, <1>2 DEF TurnInv

LEMMA Kept1 == ASSUME TurnInv, NEW w \in Worker
               PROVE  DOMAIN at[w] = TurnFields /\ TurnTrue(at[w])
  BY DEF TurnInv, TurnsShaped, TurnsTrue

-----------------------------------------------------------------------------
(* Beginning, pending actions                                               *)

LEMMA BeginKeeps ==
  ASSUME TurnInv, NEW w \in Worker, NEW m \in Msg, StaysSilent(w, m) \/ ResolveTurn(w, m)
  PROVE  TurnInv'
<1>1. CASE StaysSilent(w, m)
  BY <1>1, WorldMoves DEF StaysSilent, mediaVars, TurnInv, TurnsShaped, PerceptsTrue
<1>2. CASE ResolveTurn(w, m)
  <2>1. UNCHANGED <<action, ran, avail, effect, posted, shown, percept, observed>>
    BY <1>2 DEF ResolveTurn, mediaVars
  <2>2. CASE Turn(w, [Free EXCEPT !.pc = "context", !.msg = m])
    <3>1. PICK y : y = [Free EXCEPT !.pc = "context", !.msg = m]
      OBVIOUS
    <3>2. DOMAIN y = TurnFields /\ y.pc = "context" /\ y.msg = m /\ y.row = NoMsg /\ y.last = "none"
      BY <3>1, FreeIs DEF TurnFields
    <3>3. TurnTrue(y) /\ ~HoldsRow(y)
      BY <3>2 DEF TurnTrue, HoldsRow
    <3> QED BY <2>1, <2>2, <3>1, <3>2, <3>3, TurnGoesOn
  <2>3. CASE Raises(w)
    BY <2>1, <2>3, TurnEnds DEF Raises
  <2> QED BY <1>2, <2>2, <2>3 DEF ResolveTurn
<1> QED BY <1>1, <1>2

LEMMA MeantIs == ASSUME NEW m, Plan(m) \in {"resume", "cancel"}
                 PROVE  (CHOOSE r \in Meant(m) : TRUE) \in Msg
<1>1. Cardinality(Meant(m)) = 1
  BY DEF Plan
<1>2. Meant(m) # {}
  BY <1>1, FS_EmptySet
<1>3. Meant(m) \subseteq Msg
  BY DEF Meant, Resumable
<1> QED BY <1>2, <1>3

LEMMA PrepareKeeps ==
  ASSUME TurnInv, NEW w \in Worker, PrepareTurn(w)
  PROVE  TurnInv'
<1>1. PICK x : x = at[w]
  OBVIOUS
<1>2. PICK plan : plan = Plan(x.msg)
  OBVIOUS
<1>3. PICK row : row = IF plan \in {"resume", "cancel"} THEN CHOOSE r \in Meant(x.msg) : TRUE ELSE NoMsg
  OBVIOUS
<1>4. PICK blind \in BOOLEAN :
        Turn(w, [x EXCEPT !.has = granted, !.blind = blind, !.plan = plan,
                   !.hidden = Suppressed(plan), !.row = row,
                   !.pc = IF plan \in {"resume", "cancel", "register"} THEN "pending"
                          ELSE IF blind THEN "silent" ELSE "perceive"])
  BY <1>1, <1>2, <1>3, ZenonT(60) DEF PrepareTurn, Of
<1>5. PICK y : y = [x EXCEPT !.has = granted, !.blind = blind, !.plan = plan,
                   !.hidden = Suppressed(plan), !.row = row,
                   !.pc = IF plan \in {"resume", "cancel", "register"} THEN "pending"
                          ELSE IF blind THEN "silent" ELSE "perceive"]
  OBVIOUS
<1>6. DOMAIN x = TurnFields /\ TurnTrue(x) /\ x.pc = "context"
  BY <1>1, Kept1 DEF PrepareTurn
<1>7. DOMAIN y = TurnFields /\ y.plan = plan /\ y.row = row /\ y.msg = x.msg /\ y.last = x.last
      /\ y.pc = (IF plan \in {"resume", "cancel", "register"} THEN "pending"
                 ELSE IF blind THEN "silent" ELSE "perceive")
  BY <1>5, <1>6 DEF TurnFields
<1>8. plan \in {"resume", "cancel"} => row \in Msg
  BY <1>2, <1>3, MeantIs
<1>9. plan = "resume" => avail
  BY <1>2 DEF Plan
<1>10. plan \notin {"resume", "cancel"} => row = NoMsg
  BY <1>3
<1>11. TurnTrue(y) /\ ~HoldsRow(y)
  BY <1>6, <1>7, <1>8, <1>9, <1>10 DEF TurnTrue, HoldsRow
<1>12. UNCHANGED <<action, ran, avail, effect, posted, shown, percept, observed>>
  BY DEF PrepareTurn, worldVars
<1> QED BY <1>4, <1>5, <1>7, <1>11, <1>12, TurnGoesOn

\* A write of the row of a pending action, by a turn that takes it or lets go.
LEMMA ActionWrittenTold ==
  ASSUME TurnInv, NEW w \in Worker, NEW y, Turn(w, y), NEW r \in Msg, NEW a,
         action' = [action EXCEPT ![r] = a],
         UNCHANGED <<ran, avail, effect, posted, shown>>,
         percept' = [m \in Msg |-> percept'[m]], PerceptsTrue',
         DOMAIN y = TurnFields, TurnTrue(y)',
         a \in {"none", "blocked"} => action[r] \in {"none", "blocked"},
         HoldsRow(y) => \/ HoldsRow(at[w]) /\ y.row = at[w].row
                        \/ y.row = r /\ action[r] \in {"none", "blocked"}
  PROVE  TurnInv'
<1>1. at' = [v \in Worker |-> at'[v]] /\ at'[w] = y /\ \A v \in Worker \ {w} : at'[v] = at[v]
  BY DEF Turn, TurnInv, TurnsShaped
<1>2. action' = [m \in Msg |-> action'[m]] /\ action'[r] = a /\ \A m \in Msg \ {r} : action'[m] = action[m]
  BY DEF TurnInv, TurnsShaped
<1>3. TurnsShaped'
  BY <1>1, <1>2 DEF TurnInv, TurnsShaped
<1>4. ASSUME NEW v \in Worker PROVE TurnTrue(at[v])'
  <2>1. CASE v = w
    BY <1>1, <2>1 DEF TurnTrue, HoldsRow
  <2>2. CASE v # w
    <3>1. PICK x : x = at[v] /\ x = at'[v]
      BY <1>1, <2>2
    <3>2. TurnTrue(x)
      BY <3>1, Kept1
    <3>3. HoldsRow(x) => action'[x.row] \notin {"none", "blocked"}
      BY <1>2, <3>2 DEF TurnTrue, HoldsRow
    <3>4. TurnTrue(x)'
      BY <3>2, <3>3 DEF TurnTrue, HoldsRow
    <3> QED BY <3>1, <3>4 DEF TurnTrue, HoldsRow
  <2> QED BY <2>1, <2>2
<1>5. \A v \in Worker : HoldsRow(at[v]) => at[v].row \in Msg /\ action[at[v].row] \notin {"none", "blocked"}
  BY Kept1 DEF TurnTrue, HoldsRow
<1>6. OneHolder'
  BY <1>1, <1>5 DEF TurnInv, OneHolder, HoldsRow
<1>7. RowsTrue'
  BY <1>2 DEF TurnInv, RowsTrue
<1>8. PicturesTrue'
  BY DEF TurnInv, PicturesTrue
<1> QED BY <1>3, <1>4, <1>6, <1>7, <1>8 DEF TurnInv, TurnsTrue

LEMMA ActionWritten ==
  ASSUME TurnInv, NEW w \in Worker, NEW y, Turn(w, y), NEW r \in Msg, NEW a,
         action' = [action EXCEPT ![r] = a],
         UNCHANGED <<ran, avail, effect, posted, shown, percept, observed>>,
         DOMAIN y = TurnFields, TurnTrue(y)',
         a \in {"none", "blocked"} => action[r] \in {"none", "blocked"},
         HoldsRow(y) => \/ HoldsRow(at[w]) /\ y.row = at[w].row
                        \/ y.row = r /\ action[r] \in {"none", "blocked"}
  PROVE  TurnInv'
<1>1. percept' = [m \in Msg |-> percept'[m]] /\ PerceptsTrue'
  BY DEF TurnInv, TurnsShaped, PerceptsTrue
<1> QED BY <1>1, ActionWrittenTold

LEMMA ClaimActionKeeps ==
  ASSUME TurnInv, NEW w \in Worker, ClaimAction(w)
  PROVE  TurnInv'
<1>1. PICK x : x = at[w]
  OBVIOUS
<1>2. DOMAIN x = TurnFields /\ TurnTrue(x) /\ x.pc = "pending" /\ x.plan = "resume" /\ x.row \in Msg /\ avail
  BY <1>1, Kept1 DEF ClaimAction, TurnTrue
<1>3. UNCHANGED <<ran, avail, effect, posted, shown, percept, observed>>
  BY DEF ClaimAction, worldVars, mediaVars
<1>4. PICK pc \in {"silent", "perceive"} : pc = AfterPending(w)
  BY DEF AfterPending
<1>5. CASE action[x.row] = "blocked"
  <2>1. PICK y : y = [x EXCEPT !.pc = pc]
    OBVIOUS
  <2>2. DOMAIN y = TurnFields /\ y.pc = pc /\ y.row = x.row /\ y.msg = x.msg /\ y.last = x.last
    BY <1>2, <2>1 DEF TurnFields
  <2>3. Turn(w, y) /\ action' = [action EXCEPT ![x.row] = "in_progress"]
    BY <1>1, <1>4, <1>5, <2>1 DEF ClaimAction, Claimed
  <2>4. action'[x.row] = "in_progress" /\ ran'[x.row] = 0
    BY <1>2, <1>3, <1>5, <2>3 DEF TurnInv, TurnsShaped, RowsTrue
  <2>5. TurnTrue(y)'
    BY <1>2, <1>3, <1>4, <2>2, <2>4 DEF TurnTrue, HoldsRow
  <2> QED BY <1>2, <1>3, <1>5, <2>2, <2>3, <2>5, ActionWritten
<1>6. CASE action[x.row] # "blocked"
  <2>1. PICK y : y = [x EXCEPT !.pc = pc, !.row = NoMsg, !.hidden = TRUE]
    OBVIOUS
  <2>2. DOMAIN y = TurnFields /\ y.pc = pc /\ y.row = NoMsg /\ y.msg = x.msg /\ y.last = x.last
    BY <1>2, <2>1 DEF TurnFields
  <2>3. Turn(w, y) /\ action' = action
    BY <1>1, <1>4, <1>6, <2>1 DEF ClaimAction, Claimed
  <2>4. TurnTrue(y) /\ ~HoldsRow(y)
    BY <1>2, <1>4, <2>2 DEF TurnTrue, HoldsRow
  <2> QED BY <1>3, <2>2, <2>3, <2>4, TurnGoesOn
<1> QED BY <1>5, <1>6

LEMMA CancelActionKeeps ==
  ASSUME TurnInv, NEW w \in Worker, CancelAction(w)
  PROVE  TurnInv'
<1>1. PICK x : x = at[w]
  OBVIOUS
<1>2. DOMAIN x = TurnFields /\ TurnTrue(x) /\ x.pc = "pending" /\ x.plan = "cancel" /\ x.row \in Msg
  BY <1>1, Kept1 DEF CancelAction, TurnTrue
<1>3. UNCHANGED <<ran, avail, effect, posted, shown, percept, observed>>
  BY DEF CancelAction, worldVars, mediaVars
<1>4. PICK pc \in {"silent", "perceive"} : pc = AfterPending(w)
  BY DEF AfterPending
<1>5. PICK y : y = [x EXCEPT !.pc = pc, !.row = NoMsg, !.hidden = TRUE]
  OBVIOUS
<1>6. DOMAIN y = TurnFields /\ y.pc = pc /\ y.row = NoMsg /\ y.msg = x.msg /\ y.last = x.last
  BY <1>2, <1>5 DEF TurnFields
<1>7. PICK a \in {"completed", "cancelled"} : a = Closed(x.row, "cancelled")
  BY DEF Closed
<1>8. Turn(w, y) /\ action' = [action EXCEPT ![x.row] = a]
  BY <1>1, <1>4, <1>5, <1>7 DEF CancelAction
<1>9. TurnTrue(y)' /\ ~HoldsRow(y)
  BY <1>2, <1>3, <1>4, <1>6 DEF TurnTrue, HoldsRow
<1> QED BY <1>2, <1>3, <1>6, <1>8, <1>9, ActionWritten

LEMMA RegisterActionKeeps ==
  ASSUME TurnInv, NEW w \in Worker, RegisterAction(w)
  PROVE  TurnInv'
<1>1. PICK x : x = at[w]
  OBVIOUS
<1>2. DOMAIN x = TurnFields /\ TurnTrue(x) /\ x.pc = "pending" /\ x.row = NoMsg /\ x.msg \in Msg
  BY <1>1, Kept1 DEF RegisterAction, TurnTrue
<1>3. UNCHANGED <<ran, avail, effect, posted, shown, percept, observed>>
  BY DEF RegisterAction, worldVars, mediaVars
<1>4. PICK pc \in {"silent", "perceive"} : pc = AfterPending(w)
  BY DEF AfterPending
<1>5. PICK y : y = [x EXCEPT !.pc = pc]
  OBVIOUS
<1>6. DOMAIN y = TurnFields /\ y.pc = pc /\ y.row = NoMsg /\ y.msg = x.msg /\ y.last = x.last
  BY <1>2, <1>5 DEF TurnFields
<1>7. PICK a : a = Created(x.msg)
  OBVIOUS
<1>8. Turn(w, y) /\ action' = [action EXCEPT ![x.msg] = a]
  BY <1>1, <1>4, <1>5, <1>7 DEF RegisterAction, Of
<1>9. TurnTrue(y)' /\ ~HoldsRow(y)
  BY <1>2, <1>3, <1>4, <1>6 DEF TurnTrue, HoldsRow
<1>10. a \in {"none", "blocked"} => action[x.msg] \in {"none", "blocked"}
  BY <1>7 DEF Created
<1> QED BY <1>2, <1>3, <1>6, <1>8, <1>9, <1>10, ActionWritten

-----------------------------------------------------------------------------
(* Perception, the model, and tools                                         *)

LEMMA PerceptionTold ==
  ASSUME TurnInv, NEW m \in Msg, NEW p, percept' = [percept EXCEPT ![m] = p],
         observed \subseteq observed', p.state = "perceived" \/ p.any => m \in observed'
  PROVE  percept' = [k \in Msg |-> percept'[k]] /\ PerceptsTrue'
  BY DEF TurnInv, TurnsShaped, PerceptsTrue

LEMMA PerceptionIs ==
  ASSUME NEW m, NEW passive \in BOOLEAN, NEW required \in BOOLEAN, NEW p, p = Perception(m, passive, required)
  PROVE  p = percept[m] \/ (p.state = "perceived" \/ p.any => passive \/ required)
  BY DEF Perception

LEMMA PerceiveKeeps ==
  ASSUME TurnInv, NEW w \in Worker, Perceive(w)
  PROVE  TurnInv'
<1>1. PICK x : x = at[w]
  OBVIOUS
<1>2. DOMAIN x = TurnFields /\ TurnTrue(x) /\ x.pc = "perceive" /\ x.msg \in Msg
  BY <1>1, Kept1 DEF Perceive, TurnTrue
<1>3. PICK m : m = x.msg
  OBVIOUS
<1>4. PICK passive \in BOOLEAN, required \in BOOLEAN :
        /\ percept' = [percept EXCEPT ![m] = Perception(m, passive, required)]
        /\ observed' = observed \cup {k \in {m} : passive \/ required}
  BY <1>1, <1>3 DEF Perceive, Of
<1>5. PICK y : y = [x EXCEPT !.pc = "model"]
  OBVIOUS
<1>6. Turn(w, y) /\ UNCHANGED <<action, ran, avail, effect, posted, shown>>
  BY <1>1, <1>5 DEF Perceive, worldVars
<1>7. DOMAIN y = TurnFields /\ y.pc = "model" /\ y.row = x.row /\ y.msg = x.msg /\ y.last = x.last
      /\ y.wrote = x.wrote
  BY <1>2, <1>5 DEF TurnFields
<1>8. TurnTrue(y) /\ (HoldsRow(y) => HoldsRow(x) /\ y.row = x.row)
  BY <1>2, <1>7 DEF TurnTrue, HoldsRow
<1>9. PICK p : p = Perception(m, passive, required)
  OBVIOUS
<1>10. p.state = "perceived" \/ p.any => m \in observed'
  BY <1>2, <1>3, <1>4, <1>9, PerceptionIs DEF TurnInv, PerceptsTrue
<1>11. percept' = [k \in Msg |-> percept'[k]] /\ PerceptsTrue'
  BY <1>2, <1>3, <1>4, <1>9, <1>10, PerceptionTold
<1>12. PicturesTrue'
  BY <1>6 DEF TurnInv, PicturesTrue
<1> QED BY <1>1, <1>6, <1>7, <1>8, <1>11, <1>12, TurnMoves DEF TurnInv, TurnsShaped

LEMMA ForgetKeeps ==
  ASSUME TurnInv, NEW m \in Msg, Forget(m)
  PROVE  TurnInv'
<1>1. UNCHANGED <<at, action, ran, avail, effect, posted, shown, observed>>
  BY DEF Forget, worldVars
<1>2. CASE percept' = [percept EXCEPT ![m] = NoPercept]
  <2>1. ~NoPercept.any /\ NoPercept.state # "perceived"
    BY DEF NoPercept
  <2> QED BY <1>1, <1>2, <2>1, PerceptionTold, WorldMoves
<1>3. CASE percept' = percept
  BY <1>1, <1>3, WorldMoves DEF TurnInv, TurnsShaped, PerceptsTrue
<1> QED BY <1>2, <1>3 DEF Forget

LEMMA AskModelKeeps ==
  ASSUME TurnInv, NEW w \in Worker, AskModel(w)
  PROVE  TurnInv'
<1>1. PICK x : x = at[w]
  OBVIOUS
<1>2. DOMAIN x = TurnFields /\ TurnTrue(x) /\ x.pc = "model"
  BY <1>1, Kept1 DEF AskModel
<1>3. UNCHANGED <<action, ran, avail, effect, posted, shown, percept, observed>>
  BY DEF AskModel, worldVars, mediaVars
<1>4. CASE Raises(w)
  BY <1>3, <1>4, TurnEnds DEF Raises
<1>5. ASSUME NEW y, Turn(w, y), DOMAIN y = TurnFields, y.pc \in {"tools", "output"},
             y.msg = x.msg, y.row = x.row, y.last = x.last, y.wrote = x.wrote
      PROVE  TurnInv'
  <2>1. TurnTrue(y) /\ (HoldsRow(y) => HoldsRow(x) /\ y.row = x.row)
    BY <1>2, <1>5 DEF TurnTrue, HoldsRow
  <2> QED BY <1>1, <1>3, <1>5, <2>1, TurnGoesOn
<1>6. ASSUME NEW calls \in Proposed,
             Turn(w, [x EXCEPT !.pc = "tools", !.rounds = @ + 1, !.calls = Kept(calls)])
      PROVE  TurnInv'
  <2>1. PICK y : y = [x EXCEPT !.pc = "tools", !.rounds = @ + 1, !.calls = Kept(calls)]
    OBVIOUS
  <2>2. DOMAIN y = TurnFields /\ y.pc = "tools" /\ y.msg = x.msg /\ y.row = x.row
        /\ y.last = x.last /\ y.wrote = x.wrote
    BY <1>2, <2>1 DEF TurnFields
  <2> QED BY <1>5, <1>6, <2>1, <2>2
<1>7. CASE Turn(w, [x EXCEPT !.pc = "output", !.rounds = IF @ < MaxToolRounds THEN @ + 1 ELSE @])
  <2>1. PICK y : y = [x EXCEPT !.pc = "output", !.rounds = IF @ < MaxToolRounds THEN @ + 1 ELSE @]
    OBVIOUS
  <2>2. DOMAIN y = TurnFields /\ y.pc = "output" /\ y.msg = x.msg /\ y.row = x.row
        /\ y.last = x.last /\ y.wrote = x.wrote
    BY <1>2, <2>1 DEF TurnFields
  <2> QED BY <1>5, <1>7, <2>1, <2>2
<1>8. CASE Turn(w, [x EXCEPT !.pc = "output", !.calls = <<>>, !.out = "ignore"])
  <2>1. PICK y : y = [x EXCEPT !.pc = "output", !.calls = <<>>, !.out = "ignore"]
    OBVIOUS
  <2>2. DOMAIN y = TurnFields /\ y.pc = "output" /\ y.msg = x.msg /\ y.row = x.row
        /\ y.last = x.last /\ y.wrote = x.wrote
    BY <1>2, <2>1 DEF TurnFields
  <2> QED BY <1>5, <1>8, <2>1, <2>2
<1> QED BY <1>1, <1>4, <1>6, <1>7, <1>8 DEF AskModel, IsolateFailure

\* A call that is answered: the turn keeps its row and goes on.
LEMMA TracedIs ==
  ASSUME NEW x, NEW status, NEW y, y = Traced(x, status), DOMAIN x = TurnFields, TurnTrue(x),
         x.pc \in {"tools", "making", "posting"}, status = "unconfigured" => ~avail
  PROVE  /\ DOMAIN y = TurnFields /\ TurnTrue(y) /\ (HoldsRow(y) => HoldsRow(x) /\ y.row = x.row)
         /\ y.pc \in {"model", "tools"} /\ y.msg = x.msg /\ y.row = x.row
         /\ y.last \in {x.last, status} /\ (~y.wrote => ~x.wrote)
<1>1. /\ DOMAIN y = TurnFields /\ y.pc \in {"model", "tools"} /\ y.msg = x.msg /\ y.row = x.row
      /\ y.last \in {x.last, status} /\ (~y.wrote => ~x.wrote)
  BY DEF Traced, TurnFields
<1>2. TurnTrue(y) /\ (HoldsRow(y) => HoldsRow(x) /\ y.row = x.row)
  BY <1>1 DEF TurnTrue, HoldsRow
<1> QED BY <1>1, <1>2

LEMMA RejectCallKeeps ==
  ASSUME TurnInv, NEW w \in Worker, RejectCall(w)
  PROVE  TurnInv'
<1>1. PICK x : x = at[w]
  OBVIOUS
<1>2. DOMAIN x = TurnFields /\ TurnTrue(x) /\ x.pc = "tools"
  BY <1>1, Kept1 DEF RejectCall
<1>3. UNCHANGED <<action, ran, avail, effect, posted, shown, percept, observed>>
  BY DEF RejectCall, worldVars, mediaVars
<1>4. PICK status : status = IF Assigned(w) /\ ~avail THEN "unconfigured" ELSE "rejected"
  OBVIOUS
<1>5. PICK y : y = Traced(x, status)
  OBVIOUS
<1>6. Turn(w, y) /\ (status = "unconfigured" => ~avail)
  BY <1>1, <1>4, <1>5 DEF RejectCall, Reports
<1> QED BY <1>1, <1>2, <1>3, <1>5, <1>6, TracedIs, TurnGoesOn

LEMMA ReplayCallKeeps ==
  ASSUME TurnInv, NEW w \in Worker, ReplayCall(w)
  PROVE  TurnInv'
<1>1. PICK x : x = at[w]
  OBVIOUS
<1>2. DOMAIN x = TurnFields /\ TurnTrue(x) /\ x.pc = "tools" /\ x.msg \in Msg /\ avail
  BY <1>1, Kept1 DEF ReplayCall, TurnTrue, Permitted
<1>3. PICK status : status = effect[x.msg].result
  OBVIOUS
<1>4. PICK y : y = Traced(x, status)
  OBVIOUS
<1>5. /\ Turn(w, y) /\ shown' = (IF status = "completed" THEN shown \cup {x.msg} ELSE shown)
      /\ UNCHANGED <<action, ran, avail, effect, posted, percept, observed>>
  BY <1>1, <1>3, <1>4 DEF ReplayCall, Reports, Of, WillShow, worldVars, mediaVars
<1>6. PicturesTrue' /\ PerceptsTrue'
  BY <1>2, <1>3, <1>5 DEF TurnInv, PicturesTrue, PerceptsTrue
<1>7. status # "unconfigured"
  BY <1>2, <1>3 DEF TurnInv, PicturesTrue
<1> QED BY <1>1, <1>2, <1>4, <1>5, <1>6, <1>7, TracedIs, TurnMoves DEF TurnInv, TurnsShaped

LEMMA SlotIs == /\ DOMAIN NoEffect = {"status", "arg", "result"} /\ NoEffect.result = "none"
  BY DEF NoEffect

\* A step that writes the slot of the turn's message.
LEMMA SlotWritten ==
  ASSUME TurnInv, NEW m \in Msg, NEW e, effect' = effect \/ effect' = [effect EXCEPT ![m] = e],
         DOMAIN e = {"status", "arg", "result"}, e.result \in {"none", "completed", "failed"},
         posted' \in [Msg -> Nat], \A k \in Msg : posted'[k] >= posted[k],
         e.result = "completed" => posted'[m] > 0,
         shown' = shown \/ (shown' = shown \cup {m} /\ posted'[m] > 0)
  PROVE  /\ effect' = [k \in Msg |-> effect'[k]]
         /\ \A k \in Msg : DOMAIN effect'[k] = {"status", "arg", "result"}
         /\ PicturesTrue'
<1>1. posted \in [Msg -> Nat]
  BY DEF TurnInv, TurnsShaped
<1>2. \A k \in Msg : posted[k] > 0 => posted'[k] > 0
  BY <1>1
<1>3. effect' = [k \in Msg |-> effect'[k]] /\ \A k \in Msg : effect'[k] \in {effect[k]} \cup (IF k = m THEN {e} ELSE {})
  BY DEF TurnInv, TurnsShaped
<1>4. \A k \in Msg : DOMAIN effect'[k] = {"status", "arg", "result"}
  BY <1>3 DEF TurnInv, TurnsShaped
<1>5. \A k \in Msg : /\ effect'[k].result \in {"none", "completed", "failed"}
                     /\ effect'[k].result = "completed" => posted'[k] > 0
  BY <1>2, <1>3 DEF TurnInv, PicturesTrue
<1>6. \A k \in shown' : k \in Msg /\ posted'[k] > 0
  BY <1>2 DEF TurnInv, PicturesTrue
<1> QED BY <1>3, <1>4, <1>5, <1>6 DEF PicturesTrue

\* What the outcomes of a call make of the slot.
LEMMA OutcomeIs ==
  ASSUME TurnInv, NEW m \in Msg, NEW result
  PROVE  /\ \E e : /\ Completed(m, result) = effect \/ Completed(m, result) = [effect EXCEPT ![m] = e]
                   /\ DOMAIN e = {"status", "arg", "result"} /\ e.result = result
         /\ Released(m) = effect \/ Released(m) = [effect EXCEPT ![m] = NoEffect]
<1>1. PICK f : f = effect[m]
  OBVIOUS
<1>2. DOMAIN f = {"status", "arg", "result"}
  BY <1>1 DEF TurnInv, TurnsShaped
<1>3. PICK e : e = [f EXCEPT !.status = "completed", !.result = result]
  OBVIOUS
<1>4. DOMAIN e = {"status", "arg", "result"} /\ e.result = result
  BY <1>2, <1>3
<1>5. Completed(m, result) = effect \/ Completed(m, result) = [effect EXCEPT ![m] = e]
  BY <1>1, <1>2, <1>3 DEF Completed, TurnInv, TurnsShaped
<1>6. Released(m) = effect \/ Released(m) = [effect EXCEPT ![m] = NoEffect]
  BY DEF Released
<1> QED BY <1>4, <1>5, <1>6

LEMMA ClaimCallKeeps ==
  ASSUME TurnInv, NEW w \in Worker, ClaimCall(w)
  PROVE  TurnInv'
<1>1. PICK x : x = at[w]
  OBVIOUS
<1>2. DOMAIN x = TurnFields /\ TurnTrue(x) /\ x.pc = "tools" /\ x.msg \in Msg /\ ~x.wrote
      /\ Head(x.calls).tool = "write"
  BY <1>1, Kept1 DEF ClaimCall, Call, TurnTrue, Permitted
<1>3. PICK e : e = [status |-> "claimed", arg |-> Call(w).arg, result |-> "none"]
  OBVIOUS
<1>4. PICK y : y = [x EXCEPT !.pc = "making"]
  OBVIOUS
<1>5. /\ Turn(w, y)
      /\ effect' = effect \/ effect' = [effect EXCEPT ![x.msg] = e]
      /\ UNCHANGED <<action, ran, avail, shown, posted, percept, observed>>
  BY <1>1, <1>3, <1>4 DEF ClaimCall, Of, worldVars, mediaVars
<1>6. DOMAIN y = TurnFields /\ y.pc = "making" /\ y.row = x.row /\ y.msg = x.msg /\ y.last = x.last
      /\ y.wrote = x.wrote /\ y.calls = x.calls
  BY <1>2, <1>4 DEF TurnFields
<1>7. TurnTrue(y) /\ (HoldsRow(y) => HoldsRow(x) /\ y.row = x.row)
  BY <1>2, <1>6 DEF TurnTrue, HoldsRow
<1>8. DOMAIN e = {"status", "arg", "result"} /\ e.result = "none"
  BY <1>3
<1>9. posted' \in [Msg -> Nat] /\ \A k \in Msg : posted'[k] >= posted[k]
  BY <1>5 DEF TurnInv, TurnsShaped
<1>10. /\ effect' = [k \in Msg |-> effect'[k]]
       /\ \A k \in Msg : DOMAIN effect'[k] = {"status", "arg", "result"}
       /\ PicturesTrue'
  BY <1>2, <1>5, <1>8, <1>9, SlotWritten
<1>11. PerceptsTrue' /\ percept' = [k \in Msg |-> percept'[k]]
  BY <1>5 DEF TurnInv, TurnsShaped, PerceptsTrue
<1>12. UNCHANGED <<action, ran, avail>> /\ Turn(w, y)
  BY <1>5
<1>13. HoldsRow(y) => HoldsRow(at[w]) /\ y.row = at[w].row
  BY <1>1, <1>7
<1> QED BY <1>6, <1>7, <1>9, <1>10, <1>11, <1>12, <1>13, TurnMoves

\* A call that settles without a picture.
LEMMA CallSettles ==
  ASSUME TurnInv, NEW w \in Worker, at[w].pc \in {"making", "posting"},
         NEW status \in {"rejected", "failed"}, Reports(w, status), NEW e,
         effect' = effect \/ effect' = [effect EXCEPT ![at[w].msg] = e],
         DOMAIN e = {"status", "arg", "result"}, e.result \in {"none", "failed"},
         UNCHANGED <<action, ran, avail, shown, posted, percept, observed>>
  PROVE  TurnInv'
<1>1. PICK x : x = at[w]
  OBVIOUS
<1>2. DOMAIN x = TurnFields /\ TurnTrue(x) /\ x.pc \in {"making", "posting"} /\ x.msg \in Msg
  BY <1>1, Kept1 DEF TurnTrue
<1>3. PICK y : y = Traced(x, status)
  OBVIOUS
<1>4. Turn(w, y)
  BY <1>1, <1>3 DEF Reports
<1>5. posted' \in [Msg -> Nat] /\ \A k \in Msg : posted'[k] >= posted[k]
  BY DEF TurnInv, TurnsShaped
<1>6. /\ effect' = [k \in Msg |-> effect'[k]]
      /\ \A k \in Msg : DOMAIN effect'[k] = {"status", "arg", "result"}
      /\ PicturesTrue'
  BY <1>1, <1>2, <1>5, SlotWritten
<1>7. PerceptsTrue'
  BY DEF TurnInv, PerceptsTrue
<1> QED BY <1>1, <1>2, <1>3, <1>4, <1>5, <1>6, <1>7, TracedIs, TurnMoves DEF TurnInv, TurnsShaped

LEMMA MakingKeeps ==
  ASSUME TurnInv, NEW w \in Worker, RejectMaking(w) \/ MakePicture(w) \/ FailCall(w)
  PROVE  TurnInv'
<1>1. PICK x : x = at[w]
  OBVIOUS
<1>2. DOMAIN x = TurnFields /\ TurnTrue(x) /\ x.pc \in {"making", "posting"} /\ x.msg \in Msg
  BY <1>1, Kept1 DEF RejectMaking, MakePicture, FailCall, TurnTrue
<1>3. UNCHANGED <<action, ran, avail, shown, posted, percept, observed>>
  BY DEF RejectMaking, MakePicture, FailCall, worldVars, mediaVars
<1>4. CASE RejectMaking(w)
  <2>1. /\ Reports(w, "rejected")
        /\ effect' = effect \/ effect' = [effect EXCEPT ![x.msg] = NoEffect]
    BY <1>1, <1>2, <1>4, OutcomeIs DEF RejectMaking, Of
  <2> QED BY <1>1, <1>2, <1>3, <1>4, <2>1, SlotIs, CallSettles DEF RejectMaking
<1>5. CASE FailCall(w)
  <2>1. PICK e : /\ effect' = effect \/ effect' = [effect EXCEPT ![x.msg] = e]
                 /\ DOMAIN e = {"status", "arg", "result"} /\ e.result = "failed"
    BY <1>1, <1>2, <1>5, OutcomeIs DEF FailCall, Of
  <2> QED BY <1>1, <1>2, <1>3, <1>5, <2>1, CallSettles DEF FailCall
<1>6. CASE MakePicture(w)
  <2>1. PICK y : y = [x EXCEPT !.pc = "posting"]
    OBVIOUS
  <2>2. Turn(w, y) /\ effect' = effect /\ x.pc = "making"
    BY <1>1, <1>6, <2>1 DEF MakePicture
  <2>3. DOMAIN y = TurnFields /\ y.pc = "posting" /\ y.row = x.row /\ y.msg = x.msg /\ y.last = x.last
        /\ y.wrote = x.wrote /\ y.calls = x.calls
    BY <1>2, <2>1 DEF TurnFields
  <2>4. TurnTrue(y) /\ (HoldsRow(y) => HoldsRow(x) /\ y.row = x.row)
    BY <1>2, <2>2, <2>3 DEF TurnTrue, HoldsRow
  <2> QED BY <1>1, <1>3, <2>2, <2>3, <2>4, TurnGoesOn
<1> QED BY <1>4, <1>5, <1>6

\* Discord takes the picture: the one write in the name of the row, if the turn holds one.
LEMMA PostKeeps ==
  ASSUME TurnInv, NEW w \in Worker, PostPicture(w)
  PROVE  TurnInv'
<1>1. PICK x : x = at[w]
  OBVIOUS
<1>2. DOMAIN x = TurnFields /\ TurnTrue(x) /\ x.pc = "posting" /\ x.msg \in Msg /\ ~x.wrote
  BY <1>1, Kept1 DEF PostPicture, TurnTrue
<1>3. /\ UNCHANGED <<action, avail, percept, observed>>
      /\ posted' = [posted EXCEPT ![x.msg] = @ + 1]
      /\ ran' = [r \in Msg |-> IF r = x.row THEN ran[r] + 1 ELSE ran[r]]
  BY <1>1 DEF PostPicture, Counted, Of, worldVars, mediaVars
<1>4. /\ posted' \in [Msg -> Nat] /\ \A k \in Msg : posted'[k] >= posted[k]
      /\ posted'[x.msg] > 0 /\ ran' \in [Msg -> Nat]
  BY <1>2, <1>3 DEF TurnInv, TurnsShaped
<1>5. \A r \in Msg \ {x.row} : ran'[r] = ran[r]
  BY <1>3
<1>6. x.row \in Msg => ran'[x.row] = 1 /\ action[x.row] \notin {"none", "blocked"} /\ HoldsRow(x)
  <2>1. x.row \in Msg => HoldsRow(x)
    BY <1>2, CharacterTurnAssumption DEF HoldsRow
  <2>2. ran \in [Msg -> Nat]
    BY DEF TurnInv, TurnsShaped
  <2> QED BY <1>2, <1>3, <2>1, <2>2 DEF TurnTrue
<1>7. RowsTrue'
  BY <1>3, <1>5, <1>6 DEF TurnInv, RowsTrue
<1>8. ASSUME NEW y, Turn(w, y), DOMAIN y = TurnFields, y.pc \in {"idle", "model", "tools"},
             y.pc # "idle" => y.msg = x.msg /\ y.row = x.row /\ y.wrote /\ y.last # "unconfigured",
             y.pc = "idle" => y = Free,
             effect' = [k \in Msg |-> effect'[k]],
             \A k \in Msg : DOMAIN effect'[k] = {"status", "arg", "result"}, PicturesTrue'
      PROVE  TurnInv'
  <2>1. at' = [v \in Worker |-> at'[v]] /\ at'[w] = y /\ \A v \in Worker \ {w} : at'[v] = at[v]
    BY <1>8 DEF Turn, TurnInv, TurnsShaped
  <2>2. TurnsShaped'
    BY <1>3, <1>4, <1>8, <2>1 DEF TurnInv, TurnsShaped
  <2>3. TurnTrue(y)'
    <3>1. CASE y.pc = "idle"
      BY <1>8, <3>1, FreeIs DEF TurnTrue, HoldsRow
    <3>2. CASE y.pc # "idle"
      BY <1>2, <1>3, <1>8, <3>2 DEF TurnTrue, HoldsRow
    <3> QED BY <3>1, <3>2
  <2>4. HoldsRow(y) => HoldsRow(x) /\ y.row = x.row
    BY <1>2, <1>8, FreeIs DEF HoldsRow
  <2>5. ASSUME NEW v \in Worker PROVE TurnTrue(at[v])'
    <3>1. CASE v = w
      BY <2>1, <2>3, <3>1 DEF TurnTrue, HoldsRow
    <3>2. CASE v # w
      <4>1. PICK z : z = at[v] /\ z = at'[v]
        BY <2>1, <3>2
      <4>2. TurnTrue(z)
        BY <4>1, Kept1
      <4>3. HoldsRow(z) => z.row \in Msg /\ z.row # x.row
        BY <1>1, <1>6, <3>2, <4>1, <4>2 DEF TurnInv, OneHolder, HoldsRow, TurnTrue
      <4>4. TurnTrue(z)'
        BY <1>3, <1>5, <4>2, <4>3 DEF TurnTrue, HoldsRow
      <4> QED BY <4>1, <4>4 DEF TurnTrue, HoldsRow
    <3> QED BY <3>1, <3>2
  <2>6. OneHolder'
    BY <1>1, <2>1, <2>4 DEF TurnInv, OneHolder, HoldsRow
  <2>7. PerceptsTrue'
    BY <1>3 DEF TurnInv, PerceptsTrue
  <2> QED BY <1>7, <1>8, <2>2, <2>5, <2>6, <2>7 DEF TurnInv, TurnsTrue
<1>9. ASSUME NEW status \in {"completed", "failed"}, Reports(w, status),
             effect' = Completed(x.msg, status), shown' = WillShow(x.msg, status)
      PROVE  TurnInv'
  <2>1. PICK y : y = Traced(x, status)
    OBVIOUS
  <2>2. Turn(w, y)
    BY <1>1, <1>9, <2>1 DEF Reports
  <2>3. DOMAIN y = TurnFields /\ y.pc \in {"model", "tools"} /\ y.msg = x.msg /\ y.row = x.row
        /\ y.wrote /\ y.last # "unconfigured"
    BY <1>2, <2>1 DEF Traced, TurnFields, TurnTrue
  <2>4. PICK e : /\ effect' = effect \/ effect' = [effect EXCEPT ![x.msg] = e]
                 /\ DOMAIN e = {"status", "arg", "result"} /\ e.result = status
    BY <1>2, <1>9, OutcomeIs
  <2>5. /\ effect' = [k \in Msg |-> effect'[k]]
        /\ \A k \in Msg : DOMAIN effect'[k] = {"status", "arg", "result"}
        /\ PicturesTrue'
    BY <1>2, <1>4, <1>9, <2>4, SlotWritten DEF WillShow
  <2> QED BY <1>8, <2>2, <2>3, <2>5
<1>10. ASSUME Raises(w), UNCHANGED <<effect, shown>> PROVE TurnInv'
  <2>1. Turn(w, Free)
    BY <1>10 DEF Raises, Ended, Turn
  <2>2. effect' = [k \in Msg |-> effect'[k]]
        /\ \A k \in Msg : DOMAIN effect'[k] = {"status", "arg", "result"}
    BY <1>10 DEF TurnInv, TurnsShaped
  <2>3. \A k \in Msg : posted[k] > 0 => posted'[k] > 0
    BY <1>4 DEF TurnInv, TurnsShaped
  <2>4. PicturesTrue'
    BY <1>10, <2>3 DEF TurnInv, PicturesTrue
  <2> QED BY <1>8, <2>1, <2>2, <2>4, FreeIs
<1>11. CASE Reports(w, "completed") /\ effect' = Completed(x.msg, "completed")
            /\ shown' = WillShow(x.msg, "completed")
  BY <1>9, <1>11
<1>12. CASE Reports(w, "failed") /\ effect' = Completed(x.msg, "failed") /\ shown' = shown
  BY <1>9, <1>12 DEF WillShow
<1> QED BY <1>1, <1>10, <1>11, <1>12 DEF PostPicture, Of

LEMMA InviteCallKeeps ==
  ASSUME TurnInv, NEW w \in Worker, InviteCall(w)
  PROVE  TurnInv'
<1>1. PICK x : x = at[w]
  OBVIOUS
<1>2. DOMAIN x = TurnFields /\ TurnTrue(x) /\ x.pc = "tools"
  BY <1>1, Kept1 DEF InviteCall
<1>3. UNCHANGED <<action, ran, avail, effect, posted, shown, percept, observed>>
  BY DEF InviteCall, worldVars, mediaVars
<1>4. CASE Turn(w, Recorded(Traced(x, "completed")))
  <2>1. PICK z : z = Traced(x, "completed")
    OBVIOUS
  <2>2. PICK y : y = [z EXCEPT !.invite = TRUE]
    OBVIOUS
  <2>3. /\ DOMAIN z = TurnFields /\ TurnTrue(z) /\ (HoldsRow(z) => HoldsRow(x) /\ z.row = x.row)
        /\ z.pc \in {"model", "tools"}
    BY <1>2, <2>1, TracedIs
  <2>4. DOMAIN y = TurnFields /\ y.pc = z.pc /\ y.msg = z.msg /\ y.row = z.row /\ y.plan = z.plan
        /\ y.last = z.last /\ y.wrote = z.wrote
    BY <2>2, <2>3 DEF TurnFields
  <2>5. TurnTrue(y) /\ (HoldsRow(y) => HoldsRow(x) /\ y.row = x.row)
    BY <2>3, <2>4 DEF TurnTrue, HoldsRow
  <2> QED BY <1>1, <1>3, <1>4, <2>1, <2>2, <2>4, <2>5, TurnGoesOn DEF Recorded
<1>5. CASE Reports(w, "rejected")
  <2>1. PICK y : y = Traced(x, "rejected")
    OBVIOUS
  <2> QED BY <1>1, <1>2, <1>3, <1>5, <2>1, TracedIs, TurnGoesOn DEF Reports
<1> QED BY <1>1, <1>4, <1>5 DEF InviteCall

LEMMA LookCallKeeps ==
  ASSUME TurnInv, NEW w \in Worker, LookCall(w)
  PROVE  TurnInv'
<1>1. PICK x : x = at[w]
  OBVIOUS
<1>2. DOMAIN x = TurnFields /\ TurnTrue(x) /\ x.pc = "tools" /\ x.msg \in Msg
  BY <1>1, Kept1 DEF LookCall, TurnTrue
<1>3. UNCHANGED <<action, ran, avail, effect, posted, shown>>
  BY DEF LookCall, worldVars
<1>4. CASE ~MayLook(x.msg)
  <2>1. PICK y : y = Traced(x, "rejected")
    OBVIOUS
  <2>2. Turn(w, y) /\ UNCHANGED <<percept, observed>>
    BY <1>1, <1>4, <2>1 DEF LookCall, Reports, Of
  <2> QED BY <1>1, <1>2, <1>3, <2>1, <2>2, TracedIs, TurnGoesOn
<1>5. CASE MayLook(x.msg)
  <2>1. PICK z : z = Traced(x, "completed")
    OBVIOUS
  <2>2. PICK y : y = [z EXCEPT !.looks = TRUE]
    OBVIOUS
  <2>3. /\ DOMAIN z = TurnFields /\ TurnTrue(z) /\ (HoldsRow(z) => HoldsRow(x) /\ z.row = x.row)
        /\ z.pc \in {"model", "tools"}
    BY <1>2, <2>1, TracedIs
  <2>4. DOMAIN y = TurnFields /\ y.pc = z.pc /\ y.msg = z.msg /\ y.row = z.row /\ y.plan = z.plan
        /\ y.last = z.last /\ y.wrote = z.wrote
    BY <2>2, <2>3 DEF TurnFields
  <2>5. TurnTrue(y) /\ (HoldsRow(y) => HoldsRow(x) /\ y.row = x.row)
    BY <2>3, <2>4 DEF TurnTrue, HoldsRow
  <2>6. Turn(w, y)
    BY <1>1, <1>5, <2>1, <2>2 DEF LookCall, Of
  <2>7. ASSUME NEW got \in BOOLEAN,
               percept' = [percept EXCEPT ![x.msg] = Watched(x.msg, got)],
               observed \subseteq observed', got => x.msg \in observed'
        PROVE  TurnInv'
    <3>1. PICK p : p = Watched(x.msg, got)
      OBVIOUS
    <3>2. p.state = "perceived" \/ p.any => got \/ percept[x.msg].any
      BY <3>1 DEF Watched
    <3>3. p.state = "perceived" \/ p.any => x.msg \in observed'
      BY <1>2, <2>7, <3>2 DEF TurnInv, PerceptsTrue
    <3>4. percept' = [k \in Msg |-> percept'[k]] /\ PerceptsTrue'
      BY <1>2, <2>7, <3>1, <3>3, PerceptionTold
    <3>5. PicturesTrue'
      BY <1>3 DEF TurnInv, PicturesTrue
    <3> QED BY <1>1, <1>3, <2>4, <2>5, <2>6, <3>4, <3>5, TurnMoves DEF TurnInv, TurnsShaped
  <2>8. ASSUME NEW got,
               percept' = [percept EXCEPT ![x.msg] = Watched(x.msg, got = "got")],
               observed' = observed \cup {k \in {x.msg} : got = "got"}
        PROVE  TurnInv'
    <3>1. PICK b \in BOOLEAN : b = (got = "got")
      OBVIOUS
    <3>2. percept' = [percept EXCEPT ![x.msg] = Watched(x.msg, b)]
      BY <2>8, <3>1
    <3>3. observed \subseteq observed' /\ (b => x.msg \in observed')
      BY <2>8, <3>1
    <3> QED BY <2>7, <3>2, <3>3
  <2>9. ASSUME percept' = [percept EXCEPT ![x.msg] = Watched(x.msg, FALSE)], observed' = observed
        PROVE  TurnInv'
    BY <2>7, <2>9
  <2> QED BY <1>1, <1>5, <2>8, <2>9 DEF LookCall, Of, WatchFailed
<1> QED BY <1>4, <1>5

-----------------------------------------------------------------------------
(* Output, and the rest of the world                                        *)

LEMMA EndBlindKeeps ==
  ASSUME TurnInv, NEW w \in Worker, EndBlind(w)
  PROVE  TurnInv'
  BY TurnEnds DEF EndBlind, worldVars, mediaVars

\* Settling a perception invents nothing.
LEMMA SettledIs ==
  ASSUME NEW w, NEW p, p = Settled(w)
  PROVE  p.state = "perceived" \/ p.any =>
           percept[at[w].msg].state = "perceived" \/ percept[at[w].msg].any
  BY DEF Settled, Of, WatchFailed, Watched

\* The row a turn holds stays claimed when the turn is finalized: it would be reopened only where
\* the provider is missing, and there no row is held.
LEMMA FinalizedIs ==
  ASSUME TurnInv, NEW w \in Worker, at[w].pc = "output"
  PROVE  \/ Finalized(w) = action
         \/ /\ HoldsRow(at[w]) /\ at[w].row \in Msg
            /\ Finalized(w) = [action EXCEPT ![at[w].row] = Closed(at[w].row, "completed")]
            /\ Closed(at[w].row, "completed") \notin {"none", "blocked"}
<1>1. PICK x : x = at[w]
  OBVIOUS
<1>2. TurnTrue(x) /\ x.pc = "output"
  BY <1>1, Kept1
<1>3. CASE x.row = NoMsg
  BY <1>1, <1>3 DEF Finalized
<1>4. CASE x.row # NoMsg
  <2>1. HoldsRow(x) /\ x.row \in Msg /\ x.last # "unconfigured"
    BY <1>2, <1>4 DEF TurnTrue, HoldsRow
  <2>2. Closed(x.row, "completed") \notin {"none", "blocked"}
    BY DEF Closed
  <2> QED BY <1>1, <1>4, <2>1, <2>2 DEF Finalized
<1> QED BY <1>3, <1>4

LEMMA ResolveOutputKeeps ==
  ASSUME TurnInv, NEW w \in Worker, ResolveOutput(w)
  PROVE  TurnInv'
<1>1. PICK x : x = at[w]
  OBVIOUS
<1>2. DOMAIN x = TurnFields /\ TurnTrue(x) /\ x.pc = "output" /\ x.msg \in Msg
  BY <1>1, Kept1 DEF ResolveOutput, TurnTrue
<1>3. /\ UNCHANGED <<ran, avail, effect, posted, shown, observed>>
      /\ action' = Finalized(w)
  BY DEF ResolveOutput, worldVars
<1>4. PICK p : p = Settled(w)
  OBVIOUS
<1>5. percept' = [percept EXCEPT ![x.msg] = p]
  BY <1>1, <1>4 DEF ResolveOutput, Of
<1>6. p.state = "perceived" \/ p.any => x.msg \in observed
  BY <1>1, <1>2, <1>4, SettledIs DEF TurnInv, PerceptsTrue
<1>7. percept' = [k \in Msg |-> percept'[k]] /\ PerceptsTrue'
  BY <1>2, <1>3, <1>5, <1>6, PerceptionTold
<1>8. ASSUME NEW y, Turn(w, y), DOMAIN y = TurnFields, y.pc \in {"authority", "repair"},
             y.msg = x.msg, y.row = x.row, y.last = x.last, y.wrote = x.wrote
      PROVE  TurnInv'
  <2>1. TurnTrue(y) /\ (HoldsRow(y) => HoldsRow(x) /\ y.row = x.row)
    BY <1>2, <1>8 DEF TurnTrue, HoldsRow
  <2>2. CASE action' = action
    <3>1. PicturesTrue'
      BY <1>3 DEF TurnInv, PicturesTrue
    <3> QED BY <1>1, <1>3, <1>7, <1>8, <2>1, <2>2, <3>1, TurnMoves DEF TurnInv, TurnsShaped
  <2>3. CASE action' # action
    <3>1. PICK a : a = Closed(x.row, "completed")
      OBVIOUS
    <3>2. x.row \in Msg /\ action' = [action EXCEPT ![x.row] = a] /\ a \notin {"none", "blocked"}
      BY <1>1, <1>2, <1>3, <2>3, <3>1, FinalizedIs
    <3>3. action'[x.row] = a
      BY <3>2 DEF TurnInv, TurnsShaped
    <3>4. TurnTrue(y)'
      BY <1>3, <1>8, <2>1, <3>2, <3>3 DEF TurnTrue, HoldsRow
    <3> QED BY <1>1, <1>3, <1>7, <1>8, <2>1, <3>2, <3>4, ActionWrittenTold, ZenonT(60)
  <2> QED BY <2>2, <2>3
<1>9. ASSUME NEW final, Turn(w, [x EXCEPT !.pc = "authority", !.out = final]) PROVE TurnInv'
  <2>1. PICK y : y = [x EXCEPT !.pc = "authority", !.out = final]
    OBVIOUS
  <2>2. DOMAIN y = TurnFields /\ y.pc = "authority" /\ y.msg = x.msg /\ y.row = x.row
        /\ y.last = x.last /\ y.wrote = x.wrote
    BY <1>2, <2>1 DEF TurnFields
  <2> QED BY <1>8, <1>9, <2>1, <2>2
<1>10. ASSUME NEW pc \in {"authority", "repair"}, Turn(w, [x EXCEPT !.pc = pc]) PROVE TurnInv'
  <2>1. PICK y : y = [x EXCEPT !.pc = pc]
    OBVIOUS
  <2>2. DOMAIN y = TurnFields /\ y.pc = pc /\ y.msg = x.msg /\ y.row = x.row
        /\ y.last = x.last /\ y.wrote = x.wrote
    BY <1>2, <2>1 DEF TurnFields
  <2> QED BY <1>8, <1>10, <2>1, <2>2
<1> QED BY <1>1, <1>9, <1>10 DEF ResolveOutput

LEMMA RepairOutputKeeps ==
  ASSUME TurnInv, NEW w \in Worker, RepairOutput(w)
  PROVE  TurnInv'
<1>1. PICK x : x = at[w]
  OBVIOUS
<1>2. DOMAIN x = TurnFields /\ TurnTrue(x) /\ x.pc = "repair"
  BY <1>1, Kept1 DEF RepairOutput
<1>3. UNCHANGED <<action, ran, avail, effect, posted, shown, percept, observed>>
  BY DEF RepairOutput, worldVars, mediaVars
<1>4. PICK final : Turn(w, [x EXCEPT !.pc = "authority", !.out = final])
  BY <1>1 DEF RepairOutput
<1>5. PICK y : y = [x EXCEPT !.pc = "authority", !.out = final]
  OBVIOUS
<1>6. DOMAIN y = TurnFields /\ y.pc = "authority" /\ y.msg = x.msg /\ y.row = x.row
      /\ y.last = x.last /\ y.wrote = x.wrote
  BY <1>2, <1>5 DEF TurnFields
<1>7. TurnTrue(y) /\ (HoldsRow(y) => HoldsRow(x) /\ y.row = x.row)
  BY <1>2, <1>6 DEF TurnTrue, HoldsRow
<1> QED BY <1>1, <1>3, <1>4, <1>5, <1>6, <1>7, TurnGoesOn

LEMMA AuthorizeOutputKeeps ==
  ASSUME TurnInv, NEW w \in Worker, AuthorizeOutput(w)
  PROVE  TurnInv'
  BY TurnEnds DEF AuthorizeOutput, worldVars, mediaVars

\* The process restarts: no turn holds a row any more, and none is given back.
LEMMA RestartKeeps ==
  ASSUME TurnInv, RestartRuntime
  PROVE  TurnInv'
<1>1. \A w \in Worker : at'[w] = Free
  BY DEF RestartRuntime
<1>2. UNCHANGED <<action, effect, ran, posted, observed>> /\ shown' = {}
  BY DEF RestartRuntime
<1>3. percept' = [m \in Msg |-> NoPercept]
  BY DEF RestartRuntime
<1>4. TurnsShaped'
  BY <1>1, <1>2, <1>3, FreeIs DEF RestartRuntime, TurnInv, TurnsShaped
<1>5. TurnTrue(Free)'
  BY FreeIs DEF TurnTrue
<1>6. TurnsTrue'
  BY <1>1, <1>5 DEF TurnsTrue, TurnTrue, HoldsRow
<1>7. OneHolder'
  BY <1>1, FreeIs DEF OneHolder, HoldsRow
<1>8. RowsTrue' /\ PicturesTrue'
  BY <1>2 DEF TurnInv, RowsTrue, PicturesTrue
<1>9. PerceptsTrue'
  BY <1>3 DEF PerceptsTrue, NoPercept
<1> QED BY <1>4, <1>6, <1>7, <1>8, <1>9 DEF TurnInv

LEMMA TurnBegins == CharacterTurnInit => TurnInv
<1> SUFFICES ASSUME CharacterTurnInit PROVE TurnInv
  OBVIOUS
<1>1. \A w \in Worker : at[w] = Free
  BY DEF CharacterTurnInit
<1>2. \A m \in Msg : /\ percept[m] = NoPercept /\ effect[m] = NoEffect
                     /\ ran[m] = 0 /\ posted[m] = 0
  BY DEF CharacterTurnInit
<1>3. TurnsShaped
  BY <1>1, <1>2, FreeIs, SlotIs DEF CharacterTurnInit, TurnsShaped
<1>4. TurnTrue(Free)
  BY FreeIs DEF TurnTrue
<1>5. TurnsTrue /\ OneHolder
  BY <1>1, <1>4, FreeIs DEF TurnsTrue, OneHolder
<1>6. RowsTrue /\ PicturesTrue
  BY <1>2, SlotIs DEF CharacterTurnInit, RowsTrue, PicturesTrue
<1>7. PerceptsTrue
  BY <1>2 DEF PerceptsTrue, NoPercept
<1> QED BY <1>3, <1>5, <1>6, <1>7 DEF TurnInv

LEMMA TurnStep == TurnInv /\ [CharacterTurnNext]_turnVars => TurnInv'
<1> SUFFICES ASSUME TurnInv, [CharacterTurnNext]_turnVars PROVE TurnInv'
  OBVIOUS
<1>1. ASSUME NEW w \in Worker,
             \/ \E m \in Msg : StaysSilent(w, m) \/ ResolveTurn(w, m)
             \/ PrepareTurn(w) \/ ClaimAction(w) \/ CancelAction(w) \/ RegisterAction(w)
             \/ EndBlind(w) \/ Perceive(w) \/ AskModel(w)
      PROVE  TurnInv'
  BY <1>1, BeginKeeps, PrepareKeeps, ClaimActionKeeps, CancelActionKeeps, RegisterActionKeeps,
     EndBlindKeeps, PerceiveKeeps, AskModelKeeps
<1>2. ASSUME NEW w \in Worker,
             \/ RejectCall(w) \/ ReplayCall(w) \/ ClaimCall(w) \/ RejectMaking(w) \/ MakePicture(w)
             \/ FailCall(w) \/ PostPicture(w) \/ InviteCall(w) \/ LookCall(w)
             \/ ResolveOutput(w) \/ RepairOutput(w) \/ AuthorizeOutput(w)
      PROVE  TurnInv'
  BY <1>2, RejectCallKeeps, ReplayCallKeeps, ClaimCallKeeps, MakingKeeps, PostKeeps,
     InviteCallKeeps, LookCallKeeps, ResolveOutputKeeps, RepairOutputKeeps, AuthorizeOutputKeeps
<1>3. ASSUME Configure PROVE TurnInv'
  BY <1>3, WorldMoves DEF Configure, mediaVars, TurnInv, TurnsShaped, PerceptsTrue
<1>4. ASSUME UNCHANGED turnVars PROVE TurnInv'
  BY <1>4, WorldMoves DEF turnVars, TurnInv, TurnsShaped, PerceptsTrue
<1> QED BY <1>1, <1>2, <1>3, <1>4, RestartKeeps, ForgetKeeps DEF CharacterTurnNext, WorkerStep

\* A turn keeps its promises, whatever the model asks for, whatever the tools answer, however
\* many turns run at once and wherever the process is restarted.
THEOREM TurnsStayHonest == CharacterTurnSpec => []TurnHonest
<1>1. TurnInv => TurnHonest
  BY DEF TurnInv, RowsTrue, PerceptsTrue, PicturesTrue, TurnHonest
<1> QED BY <1>1, TurnBegins, TurnStep, PTL DEF CharacterTurnSpec
(***************************************************************************)
(* Deployments: an account that was turned out of a guild is silent there  *)
(***************************************************************************)
ProfileRow == [id: Nat, excl: SUBSET (Channel \cup {Category})]
Enters(r, a, g) == r.op \in {"grant", "profile", "claim"} /\ r.who = a /\ r.guild = g
Placing(r) == r.op \in {"create", "move"}
Revoking(r) == r.op = "revokeProfile" \/ (r.op = "remove" /\ "revoke" \in r.todo)

DeploymentsShaped ==
  /\ profile \in [Account -> [Guild -> ProfileRow]]
  /\ out \in [Account -> [Guild -> {"in", "turning", "out"}]]
  /\ clerk = [k \in Clerk |-> clerk[k]] /\ \A k \in Clerk : DOMAIN clerk[k] = DOMAIN Vacant
  /\ dep = [d \in Deployment |-> dep[d]] /\ \A d \in Deployment : DOMAIN dep[d] = DOMAIN NoRow

\* An identifier names one profile ever.
ProfilesNumbered ==
  /\ made \in Nat
  /\ \A a \in Account, g \in Guild : profile[a][g].id <= made
  /\ \A a, b \in Account, g, h \in Guild :
       profile[a][g].id > 0 /\ profile[a][g].id = profile[b][h].id => a = b /\ g = h

\* A scope, and a profile chosen for one that is yet to be written, belongs to the owner.
OwnProfile(id, who) ==
  id \in 0 .. made /\ \A a \in Account, g \in Guild : id > 0 /\ profile[a][g].id = id => a = who
ScopesOwned == \A d \in Deployment : OwnProfile(dep[d].scope, dep[d].owner)
ChoicesOwned == \A k \in Clerk : Placing(clerk[k]) => OwnProfile(clerk[k].ref, clerk[k].who)

\* The requests of the Super Admin wait for each other, and only they turn somebody out.
OneSuper ==
  /\ \A k, l \in Clerk : clerk[k].by = Super /\ clerk[l].by = Super => k = l
  /\ \A k \in Clerk : clerk[k].op = "revoke" \/ Revoking(clerk[k]) => clerk[k].by = Super

\* Nobody who was turned out is on the way in, the profile is gone when the access is removed,
\* and until then it is the one the request read.
TurnedOut(a, g) ==
  out[a][g] # "in" =>
    /\ \A k \in Clerk : ~Enters(clerk[k], a, g)
    /\ out[a][g] = "out" => profile[a][g].id = 0
    /\ \A k \in Clerk : clerk[k].who = a /\ clerk[k].guild = g =>
         /\ clerk[k].op = "revoke" => profile[a][g].id = 0
         /\ Revoking(clerk[k]) => profile[a][g].id \in {0, clerk[k].ref}

SilentInv ==
  /\ DeploymentsShaped /\ ProfilesNumbered /\ ScopesOwned /\ ChoicesOwned /\ OneSuper
  /\ \A a \in Account \ {Super}, g \in Guild : TurnedOut(a, g)

\* How profiles come and go: a new one has the next identifier and belongs to the Super Admin
\* or to somebody on the way in.
ProfilesMove ==
  /\ profile' \in [Account -> [Guild -> ProfileRow]] /\ made' \in {made, made + 1}
  /\ \A a \in Account, g \in Guild :
       \/ profile'[a][g].id \in {profile[a][g].id, 0}
       \/ /\ profile'[a][g].id = made + 1 /\ made' = made + 1
          /\ a = Super \/ \E k \in Clerk : Enters(clerk[k], a, g)
  /\ \A a, b \in Account, g, h \in Guild :
       profile'[a][g].id = made + 1 /\ profile'[b][h].id = made + 1 => a = b /\ g = h

\* How a row of a deployment changes its scope: it loses it, or gets the one that was chosen.
DepMoves(d) ==
  /\ DOMAIN dep'[d] = DOMAIN NoRow
  /\ \/ dep'[d].scope = 0
     \/ dep'[d].scope = dep[d].scope /\ dep'[d].owner = dep[d].owner
     \/ \E k \in Clerk : /\ Placing(clerk[k]) /\ dep'[d].scope = clerk[k].ref
                         /\ dep'[d].owner = clerk[k].who
DepsMove == dep' = [d \in Deployment |-> dep'[d]] /\ \A d \in Deployment : DepMoves(d)

\* How a request goes on without turning anybody out.
RequestMoves(l) ==
  /\ DOMAIN clerk'[l] = DOMAIN Vacant
  /\ Placing(clerk'[l]) =>
       \/ Placing(clerk[l]) /\ clerk'[l].ref = clerk[l].ref /\ clerk'[l].who = clerk[l].who
       \/ OwnProfile(clerk'[l].ref, clerk'[l].who)
  /\ \A a \in Account \ {Super}, g \in Guild :
       /\ Enters(clerk'[l], a, g) => Enters(clerk[l], a, g) \/ out'[a][g] = "in"
       /\ clerk'[l].who = a /\ clerk'[l].guild = g =>
            /\ clerk'[l].op = "revoke" =>
                 \/ clerk[l].op = "revoke" /\ clerk[l].who = a /\ clerk[l].guild = g
                 \/ out'[a][g] = "in" \/ profile'[a][g].id = 0
            /\ Revoking(clerk'[l]) => /\ Revoking(clerk[l]) /\ clerk[l].who = a /\ clerk[l].guild = g
                                     /\ clerk'[l].ref = clerk[l].ref

LEMMA NumbersKept ==
  ASSUME SilentInv, ProfilesMove
  PROVE  ProfilesNumbered'
<1>1. made \in Nat /\ made' \in {made, made + 1}
  BY DEF SilentInv, ProfilesNumbered, ProfilesMove
<1>2. ASSUME NEW a \in Account, NEW g \in Guild PROVE profile'[a][g].id <= made'
  <2>1. profile[a][g].id <= made
    BY DEF SilentInv, ProfilesNumbered
  <2>2. \/ profile'[a][g].id \in {profile[a][g].id, 0}
        \/ profile'[a][g].id = made + 1 /\ made' = made + 1
    <3>1. \A b \in Account, h \in Guild :
            \/ profile'[b][h].id \in {profile[b][h].id, 0}
            \/ profile'[b][h].id = made + 1 /\ made' = made + 1
      BY DEF ProfilesMove
    <3> QED BY <3>1
  <2>3. profile[a][g].id \in Nat
    BY DEF SilentInv, DeploymentsShaped, ProfileRow
  <2> QED BY <1>1, <2>1, <2>2, <2>3
<1>3. ASSUME NEW a \in Account, NEW b \in Account, NEW g \in Guild, NEW h \in Guild,
             profile'[a][g].id > 0, profile'[a][g].id = profile'[b][h].id
      PROVE  a = b /\ g = h
  <2>1. profile[a][g].id <= made /\ profile[b][h].id <= made
    BY DEF SilentInv, ProfilesNumbered
  <2>2. profile'[a][g].id \in {profile[a][g].id, 0, made + 1}
    BY DEF ProfilesMove
  <2>3. profile'[b][h].id \in {profile[b][h].id, 0, made + 1}
    BY DEF ProfilesMove
  <2>4. CASE profile'[a][g].id = made + 1
    BY <1>3, <2>4 DEF ProfilesMove
  <2>5. CASE profile'[a][g].id # made + 1
    <3>1. profile'[a][g].id = profile[a][g].id
      BY <1>3, <2>2, <2>5
    <3>2. profile'[b][h].id = profile[b][h].id
      BY <1>3, <2>3, <2>5
    <3>3. profile[a][g].id > 0 /\ profile[a][g].id = profile[b][h].id
      BY <1>3, <3>1, <3>2
    <3> QED BY <3>3, Zenon DEF SilentInv, ProfilesNumbered
  <2> QED BY <2>4, <2>5
<1>4. made' \in Nat
  BY <1>1
<1> QED BY <1>2, <1>3, <1>4 DEF ProfilesNumbered

\* Nobody else ever gets a profile under an identifier that was given out.
LEMMA OwnKept ==
  ASSUME SilentInv, ProfilesMove
  PROVE  \A id, who : OwnProfile(id, who) =>
           /\ id \in 0 .. made'
           /\ \A a \in Account, g \in Guild : id > 0 /\ profile'[a][g].id = id => a = who
<1> SUFFICES ASSUME NEW id, NEW who, OwnProfile(id, who)
             PROVE  /\ id \in 0 .. made'
                    /\ \A a \in Account, g \in Guild : id > 0 /\ profile'[a][g].id = id => a = who
  OBVIOUS
<1>1. made \in Nat /\ made' \in {made, made + 1} /\ id \in 0 .. made
  BY DEF SilentInv, ProfilesNumbered, ProfilesMove, OwnProfile
<1>2. ASSUME NEW a \in Account, NEW g \in Guild, id > 0, profile'[a][g].id = id PROVE a = who
  <2>1. profile'[a][g].id = profile[a][g].id
    BY <1>1, <1>2 DEF ProfilesMove
  <2> QED BY <1>2, <2>1 DEF OwnProfile
<1> QED BY <1>1, <1>2

LEMMA ScopesKept ==
  ASSUME SilentInv, ProfilesMove, DepsMove
  PROVE  ScopesOwned'
<1> SUFFICES ASSUME NEW d \in Deployment
             PROVE  /\ dep'[d].scope \in 0 .. made'
                    /\ \A a \in Account, g \in Guild :
                         dep'[d].scope > 0 /\ profile'[a][g].id = dep'[d].scope => a = dep'[d].owner
  BY DEF ScopesOwned, OwnProfile
<1>1. DepMoves(d)
  BY DEF DepsMove
<1>2. CASE dep'[d].scope = 0
  <2>1. made' \in Nat
    BY NumbersKept DEF ProfilesNumbered
  <2> QED BY <1>2, <2>1
<1>3. CASE OwnProfile(dep'[d].scope, dep'[d].owner)
  BY <1>3, OwnKept
<1>4. OwnProfile(dep[d].scope, dep[d].owner)
  BY DEF SilentInv, ScopesOwned
<1>5. \A k \in Clerk : Placing(clerk[k]) => OwnProfile(clerk[k].ref, clerk[k].who)
  BY DEF SilentInv, ChoicesOwned
<1> QED BY <1>1, <1>2, <1>3, <1>4, <1>5 DEF DepMoves

LEMMA ChoicesKept ==
  ASSUME SilentInv, ProfilesMove, \A l \in Clerk : RequestMoves(l)
  PROVE  ChoicesOwned'
<1> SUFFICES ASSUME NEW l \in Clerk, Placing(clerk'[l])
             PROVE  /\ clerk'[l].ref \in 0 .. made'
                    /\ \A a \in Account, g \in Guild :
                         clerk'[l].ref > 0 /\ profile'[a][g].id = clerk'[l].ref => a = clerk'[l].who
  BY DEF ChoicesOwned, OwnProfile, Placing
<1>1. OwnProfile(clerk'[l].ref, clerk'[l].who)
  BY DEF RequestMoves, SilentInv, ChoicesOwned
<1> QED BY <1>1, OwnKept

LEMMA OutKept ==
  ASSUME SilentInv, ProfilesMove, NEW a \in Account \ {Super}, NEW g \in Guild,
         out'[a][g] \in {out[a][g], "in"}, \A l \in Clerk : RequestMoves(l)
  PROVE  TurnedOut(a, g)'
<1> SUFFICES ASSUME out'[a][g] # "in" PROVE TurnedOut(a, g)'
  BY DEF TurnedOut
<1>1. TurnedOut(a, g) /\ out[a][g] # "in" /\ out'[a][g] = out[a][g]
  BY DEF SilentInv
<1>2. profile'[a][g].id \in {profile[a][g].id, 0}
  BY <1>1 DEF ProfilesMove, TurnedOut
<1>3. ASSUME NEW k \in Clerk PROVE ~ Enters(clerk'[k], a, g)
  BY <1>1 DEF RequestMoves, TurnedOut
<1>4. out'[a][g] = "out" => profile'[a][g].id = 0
  BY <1>1, <1>2 DEF TurnedOut
<1>5. ASSUME NEW k \in Clerk, clerk'[k].who = a, clerk'[k].guild = g
      PROVE  /\ clerk'[k].op = "revoke" => profile'[a][g].id = 0
             /\ Revoking(clerk'[k]) => profile'[a][g].id \in {0, clerk'[k].ref}
  <2>1. clerk'[k].op = "revoke" => profile'[a][g].id = 0
    BY <1>1, <1>2, <1>5 DEF RequestMoves, TurnedOut
  <2>2. Revoking(clerk'[k]) => profile'[a][g].id \in {0, clerk'[k].ref}
    BY <1>1, <1>2, <1>5 DEF RequestMoves, TurnedOut
  <2> QED BY <2>1, <2>2
<1> QED BY <1>3, <1>4, <1>5 DEF TurnedOut, Enters, Revoking

LEMMA RequestsKeep ==
  ASSUME SilentInv, ProfilesMove, DepsMove, clerk' = [l \in Clerk |-> clerk'[l]], OneSuper',
         out' \in [Account -> [Guild -> {"in", "turning", "out"}]],
         \A a \in Account \ {Super}, g \in Guild : out'[a][g] \in {out[a][g], "in"},
         \A l \in Clerk : RequestMoves(l)
  PROVE  SilentInv'
<1>1. DeploymentsShaped'
  BY DEF DeploymentsShaped, ProfilesMove, DepsMove, DepMoves, RequestMoves
<1>2. \A a \in Account \ {Super}, g \in Guild : TurnedOut(a, g)'
  BY OutKept
<1> QED BY <1>1, <1>2, NumbersKept, ScopesKept, ChoicesKept DEF SilentInv

Quiet(r) == r.op \notin {"grant", "profile", "claim", "create", "move", "revoke", "revokeProfile", "remove"}
OutMoves ==
  /\ out' \in [Account -> [Guild -> {"in", "turning", "out"}]]
  /\ \A a \in Account \ {Super}, g \in Guild : out'[a][g] \in {out[a][g], "in"}

LEMMA ProfilesStay ==
  ASSUME SilentInv, UNCHANGED <<profile, made>>
  PROVE  ProfilesMove
<1>1. profile \in [Account -> [Guild -> ProfileRow]] /\ made \in Nat
  BY DEF SilentInv, DeploymentsShaped, ProfilesNumbered
<1>2. \A a \in Account, g \in Guild : profile[a][g].id <= made /\ profile[a][g].id \in Nat
  BY <1>1 DEF SilentInv, ProfilesNumbered, ProfileRow
<1>3. \A a \in Account, g \in Guild : profile[a][g].id # made + 1
  BY <1>1, <1>2
<1> QED BY <1>1, <1>3 DEF ProfilesMove

LEMMA DepsStay ==
  ASSUME SilentInv, UNCHANGED dep
  PROVE  DepsMove
  BY DEF SilentInv, DeploymentsShaped, DepsMove, DepMoves

LEMMA OutStays ==
  ASSUME SilentInv, UNCHANGED out
  PROVE  OutMoves
  BY DEF SilentInv, DeploymentsShaped, OutMoves

LEMMA RequestStays ==
  ASSUME SilentInv, NEW l \in Clerk, clerk'[l] = clerk[l]
  PROVE  RequestMoves(l)
<1>1. DOMAIN clerk[l] = DOMAIN Vacant
  BY DEF SilentInv, DeploymentsShaped
<1> QED BY <1>1 DEF RequestMoves, Placing, Enters, Revoking

\* A step that leaves the requests alone.
LEMMA StandKeeps ==
  ASSUME SilentInv, UNCHANGED clerk, ProfilesMove, DepsMove, OutMoves
  PROVE  SilentInv'
<1>1. clerk' = [l \in Clerk |-> clerk'[l]] /\ \A l \in Clerk : RequestMoves(l)
  BY RequestStays DEF SilentInv, DeploymentsShaped
<1>2. OneSuper'
  BY DEF SilentInv, OneSuper, Revoking
<1> QED BY <1>1, <1>2, RequestsKeep DEF OutMoves

\* A step of one request.
LEMMA ServeMoves ==
  ASSUME SilentInv, NEW k \in Clerk, NEW r, clerk' = [clerk EXCEPT ![k] = r],
         r.op = "revoke" \/ Revoking(r) => r.by = Super,
         Begin(k, r) \/ r.by \in {clerk[k].by, NoAccount}
  PROVE  /\ OneSuper' /\ clerk' = [l \in Clerk |-> clerk'[l]] /\ clerk'[k] = r
         /\ \A l \in Clerk \ {k} : clerk'[l] = clerk[l]
<1>1. clerk = [l \in Clerk |-> clerk[l]]
  BY DEF SilentInv, DeploymentsShaped
<1>2. clerk'[k] = r /\ clerk' = [l \in Clerk |-> clerk'[l]] /\ \A l \in Clerk \ {k} : clerk'[l] = clerk[l]
  BY <1>1
<1>3. Super # NoAccount
  BY DeploymentsAssumption
<1>4. \A l \in Clerk \ {k} : ~ (r.by = Super /\ clerk[l].by = Super)
  BY <1>3 DEF Begin, Unlocked, SilentInv, OneSuper
<1>5. \A l, m \in Clerk : clerk'[l].by = Super /\ clerk'[m].by = Super => l = m
  BY <1>2, <1>4 DEF SilentInv, OneSuper
<1>6. \A l \in Clerk : clerk'[l].op = "revoke" \/ Revoking(clerk'[l]) => clerk'[l].by = Super
  BY <1>2 DEF SilentInv, OneSuper, Revoking
<1>7. OneSuper'
  BY <1>5, <1>6 DEF OneSuper, Revoking
<1> QED BY <1>2, <1>7

LEMMA ServeKeeps ==
  ASSUME SilentInv, NEW k \in Clerk, NEW r, clerk' = [clerk EXCEPT ![k] = r],
         r.op = "revoke" \/ Revoking(r) => r.by = Super,
         Begin(k, r) \/ r.by \in {clerk[k].by, NoAccount},
         RequestMoves(k), ProfilesMove, DepsMove, OutMoves
  PROVE  SilentInv'
<1>1. /\ OneSuper' /\ clerk' = [l \in Clerk |-> clerk'[l]]
      /\ \A l \in Clerk \ {k} : clerk'[l] = clerk[l]
  BY ServeMoves
<1>2. \A l \in Clerk : RequestMoves(l)
  BY <1>1, RequestStays
<1> QED BY <1>1, <1>2, RequestsKeep DEF OutMoves

\* The request goes on with something that has no part in this.
LEMMA QuietKeeps ==
  ASSUME SilentInv, NEW k \in Clerk, NEW r, clerk' = [clerk EXCEPT ![k] = r],
         DOMAIN r = DOMAIN Vacant, Quiet(r),
         Begin(k, r) \/ r.by \in {clerk[k].by, NoAccount},
         ProfilesMove, DepsMove, OutMoves
  PROVE  SilentInv'
<1>1. ~ (r.op = "revoke" \/ Revoking(r))
  BY DEF Quiet, Revoking
<1>2. clerk'[k] = r
  BY <1>1, ServeMoves
<1>3. RequestMoves(k)
  BY <1>2 DEF RequestMoves, Quiet, Placing, Enters, Revoking
<1> QED BY <1>1, <1>3, ServeKeeps

LEMMA GoesIs ==
  ASSUME SilentInv, NEW k \in Clerk, NEW op, Goes(k, op)
  PROVE  \E r : /\ clerk' = [clerk EXCEPT ![k] = r] /\ DOMAIN r = DOMAIN Vacant /\ r.op = op
                /\ r.by = clerk[k].by /\ r.who = clerk[k].who /\ r.guild = clerk[k].guild
                /\ r.ref = clerk[k].ref /\ r.todo = clerk[k].todo
<1>1. PICK x : x = clerk[k]
  OBVIOUS
<1>2. DOMAIN x = {"op", "by", "who", "guild", "dep", "ref", "hook", "todo"}
  BY <1>1 DEF SilentInv, DeploymentsShaped, Vacant
<1>3. clerk' = [clerk EXCEPT ![k] = [x EXCEPT !.op = op]]
  BY <1>1 DEF Goes
<1>4. PICK r : r = [x EXCEPT !.op = op]
  OBVIOUS
<1>5. /\ DOMAIN r = DOMAIN x /\ r.op = op /\ r.by = x.by /\ r.who = x.who /\ r.guild = x.guild
      /\ r.ref = x.ref /\ r.todo = x.todo
  BY <1>2, <1>4
<1>6. DOMAIN r = DOMAIN Vacant
  BY <1>2, <1>5 DEF Vacant
<1> QED BY <1>1, <1>3, <1>4, <1>5, <1>6

LEMMA DoneKeeps ==
  ASSUME SilentInv, NEW k \in Clerk, Done(k), ProfilesMove, DepsMove, OutMoves
  PROVE  SilentInv'
<1>1. Quiet(Vacant) /\ Vacant.by = NoAccount
  BY DEF Quiet, Vacant
<1> QED BY <1>1, QuietKeeps DEF Done

LEMMA GoesQuiet ==
  ASSUME SilentInv, NEW k \in Clerk, NEW op, Goes(k, op), Quiet([op |-> op]),
         ProfilesMove, DepsMove, OutMoves
  PROVE  SilentInv'
<1>1. PICK r : /\ clerk' = [clerk EXCEPT ![k] = r] /\ DOMAIN r = DOMAIN Vacant /\ r.op = op
               /\ r.by = clerk[k].by
  BY GoesIs
<1>2. Quiet(r)
  BY <1>1 DEF Quiet
<1> QED BY <1>1, <1>2, QuietKeeps

LEMMA IdleKeeps ==
  ASSUME SilentInv, UNCHANGED <<clerk, profile, made, out, dep>>
  PROVE  SilentInv'
  BY StandKeeps, ProfilesStay, DepsStay, OutStays

LEMMA BeginQuiet ==
  ASSUME SilentInv, NEW k \in Clerk, NEW r, Begin(k, r), DOMAIN r = DOMAIN Vacant, Quiet(r),
         UNCHANGED <<profile, made, out, dep>>
  PROVE  SilentInv'
  BY QuietKeeps, ProfilesStay, DepsStay, OutStays DEF Begin

LEMMA GoesOnQuiet ==
  ASSUME SilentInv, NEW k \in Clerk, NEW op, Goes(k, op) \/ Done(k), Quiet([op |-> op]),
         UNCHANGED <<profile, made, out, dep>>
  PROVE  SilentInv'
  BY GoesQuiet, DoneKeeps, ProfilesStay, DepsStay, OutStays

\* What is left to do shrinks.
LEMMA TodoKeeps ==
  ASSUME SilentInv, NEW k \in Clerk, NEW rest, clerk' = [clerk EXCEPT ![k].todo = rest],
         Quiet(clerk[k]), UNCHANGED <<profile, made, out, dep>>
  PROVE  SilentInv'
<1>1. PICK x : x = clerk[k]
  OBVIOUS
<1>2. DOMAIN x = {"op", "by", "who", "guild", "dep", "ref", "hook", "todo"}
  BY <1>1 DEF SilentInv, DeploymentsShaped, Vacant
<1>3. PICK r : r = [x EXCEPT !.todo = rest]
  OBVIOUS
<1>4. clerk' = [clerk EXCEPT ![k] = r]
  BY <1>1, <1>3
<1>5. DOMAIN r = DOMAIN Vacant /\ r.op = x.op /\ r.by = x.by
  BY <1>2, <1>3 DEF Vacant
<1>6. Quiet(r) /\ r.by = clerk[k].by
  BY <1>1, <1>5 DEF Quiet
<1> QED BY <1>4, <1>5, <1>6, QuietKeeps, ProfilesStay, DepsStay, OutStays

LEMMA DepWritten ==
  ASSUME SilentInv, NEW d, NEW row, dep' = [dep EXCEPT ![d] = row],
         DOMAIN row = DOMAIN NoRow,
         \/ row.scope = 0
         \/ row.scope = dep[d].scope /\ row.owner = dep[d].owner
         \/ \E k \in Clerk : Placing(clerk[k]) /\ row.scope = clerk[k].ref /\ row.owner = clerk[k].who
  PROVE  DepsMove
<1>1. dep = [e \in Deployment |-> dep[e]] /\ \A e \in Deployment : DOMAIN dep[e] = DOMAIN NoRow
  BY DEF SilentInv, DeploymentsShaped
<1>2. dep' = [e \in Deployment |-> dep'[e]] /\ \A e \in Deployment : dep'[e] = IF e = d THEN row ELSE dep[e]
  BY <1>1
<1>3. ASSUME NEW e \in Deployment, e = d PROVE DepMoves(e)
  BY <1>2, <1>3 DEF DepMoves
<1>4. ASSUME NEW e \in Deployment, e # d PROVE DepMoves(e)
  BY <1>1, <1>2, <1>4 DEF DepMoves
<1> QED BY <1>2, <1>3, <1>4 DEF DepsMove

\* Rows of an account that disappear.
LEMMA DepsCleared ==
  ASSUME SilentInv, NEW a, dep' = [d \in Deployment |-> IF dep[d].owner = a THEN NoRow ELSE dep[d]]
  PROVE  DepsMove
<1>1. NoRow.scope = 0
  BY DEF NoRow
<1>2. ASSUME NEW d \in Deployment PROVE DepMoves(d)
  <2>1. dep'[d] = NoRow \/ dep'[d] = dep[d]
    OBVIOUS
  <2> QED BY <1>1, <2>1 DEF DepMoves, SilentInv, DeploymentsShaped
<1>3. dep' = [d \in Deployment |-> dep'[d]]
  OBVIOUS
<1> QED BY <1>2, <1>3 DEF DepsMove

LEMMA ProfilesCleared ==
  ASSUME SilentInv, NEW a \in Account, profile' = [profile EXCEPT ![a] = [g \in Guild |-> NoProfile]],
         UNCHANGED made
  PROVE  ProfilesMove
<1>1. /\ profile \in [Account -> [Guild -> ProfileRow]] /\ made \in Nat
      /\ \A b \in Account, g \in Guild : profile[b][g].id <= made
  BY DEF SilentInv, DeploymentsShaped, ProfilesNumbered
<1>2. NoProfile \in ProfileRow /\ NoProfile.id = 0
  BY DEF NoProfile, ProfileRow
<1>3. profile' \in [Account -> [Guild -> ProfileRow]]
  BY <1>1, <1>2
<1>4. \A b \in Account, g \in Guild : profile'[b][g].id \in {profile[b][g].id, 0}
  BY <1>1, <1>2
<1>5. \A b \in Account, g \in Guild : profile[b][g].id \in Nat
  BY <1>1 DEF ProfileRow
<1>6. \A b \in Account, g \in Guild : profile'[b][g].id # made + 1
  BY <1>1, <1>4, <1>5
<1> QED BY <1>1, <1>3, <1>4, <1>6 DEF ProfilesMove

\* A row of a profile that keeps its identifier or loses it.
LEMMA ProfileRewritten ==
  ASSUME SilentInv, NEW a, NEW g, NEW row \in ProfileRow,
         profile' = [profile EXCEPT ![a][g] = row], row.id = 0 \/ row.id = profile[a][g].id, UNCHANGED made
  PROVE  ProfilesMove
<1>1. /\ profile \in [Account -> [Guild -> ProfileRow]] /\ made \in Nat
      /\ \A b \in Account, h \in Guild : profile[b][h].id <= made
  BY DEF SilentInv, DeploymentsShaped, ProfilesNumbered
<1>3. profile' \in [Account -> [Guild -> ProfileRow]]
  BY <1>1
<1>4. \A b \in Account, h \in Guild : profile'[b][h].id \in {profile[b][h].id, 0}
  BY <1>1
<1>5. \A b \in Account, h \in Guild : profile[b][h].id \in Nat
  BY <1>1 DEF ProfileRow
<1>6. \A b \in Account, h \in Guild : profile'[b][h].id # made + 1
  BY <1>1, <1>4, <1>5
<1> QED BY <1>1, <1>3, <1>4, <1>6 DEF ProfilesMove

\* A new profile, of the Super Admin or of somebody on the way in.
LEMMA ProfileMade ==
  ASSUME SilentInv, NEW a, NEW g, NewProfile(a, g),
         a = Super \/ \E k \in Clerk : Enters(clerk[k], a, g)
  PROVE  ProfilesMove
<1>1. /\ profile \in [Account -> [Guild -> ProfileRow]] /\ made \in Nat
      /\ \A b \in Account, h \in Guild : profile[b][h].id <= made
  BY DEF SilentInv, DeploymentsShaped, ProfilesNumbered
<1>2. PICK row : row = [id |-> made + 1, excl |-> {}]
  OBVIOUS
<1>3. row \in ProfileRow /\ row.id = made + 1
  BY <1>1, <1>2 DEF ProfileRow
<1>4. profile' = [profile EXCEPT ![a][g] = row] /\ made' = made + 1
  BY <1>2 DEF NewProfile
<1>5. profile' \in [Account -> [Guild -> ProfileRow]]
  BY <1>1, <1>3, <1>4
<1>6. \A b \in Account, h \in Guild :
        profile'[b][h] = IF b = a /\ h = g THEN row ELSE profile[b][h]
  BY <1>1, <1>4
<1>7. \A b \in Account, h \in Guild : profile[b][h].id # made + 1
  <2>1. \A b \in Account, h \in Guild : profile[b][h].id \in Nat
    BY <1>1 DEF ProfileRow
  <2> QED BY <1>1, <2>1
<1>8. \A b \in Account, h \in Guild :
        profile'[b][h].id \in {profile[b][h].id, 0} \/ (b = a /\ h = g)
  BY <1>6
<1>9. \A b \in Account, h \in Guild : b = a /\ h = g => profile'[b][h].id = made + 1
  BY <1>3, <1>6
<1>10. \A b \in Account, h \in Guild : profile'[b][h].id = made + 1 => b = a /\ h = g
  BY <1>6, <1>7
<1>11. \A b \in Account, h \in Guild :
         \/ profile'[b][h].id \in {profile[b][h].id, 0}
         \/ /\ profile'[b][h].id = made + 1 /\ made' = made + 1
            /\ b = Super \/ \E k \in Clerk : Enters(clerk[k], b, h)
  BY <1>4, <1>8, <1>9
<1>12. \A b, c \in Account, h, i \in Guild :
         profile'[b][h].id = made + 1 /\ profile'[c][i].id = made + 1 => b = c /\ h = i
  BY <1>10
<1> QED BY <1>4, <1>5, <1>11, <1>12 DEF ProfilesMove

LEMMA ConnectionKeeps ==
  ASSUME SilentInv, ConnectionStep
  PROVE  SilentInv'
<1>1. ASSUME \/ CreateConnection \/ Heartbeat
             \/ \E batch \in SUBSET (1 .. MaxOccurred), named \in SUBSET Deployment : RecordEvents(batch, named)
      PROVE  SilentInv'
  <2>1. UNCHANGED <<clerk, profile, made, out, dep>>
    BY <1>1 DEF CreateConnection, Heartbeat, RecordEvents, accessVars
  <2> QED BY <2>1, IdleKeeps
<1>2. ASSUME NEW k \in Clerk, DeleteConnection(k) PROVE SilentInv'
  <2>1. PICK r : r = [Vacant EXCEPT !.op = "dropExpressions", !.by = Super, !.who = Super]
    OBVIOUS
  <2>2. DOMAIN r = DOMAIN Vacant /\ r.op = "dropExpressions"
    BY <2>1 DEF Vacant
  <2>3. Begin(k, r) /\ UNCHANGED <<profile, made, out, dep>>
    BY <1>2, <2>1 DEF DeleteConnection, accessVars
  <2> QED BY <2>2, <2>3, BeginQuiet DEF Quiet
<1>3. ASSUME NEW k \in Clerk, DropExpressions(k) \/ DropTools(k) PROVE SilentInv'
  <2>1. UNCHANGED <<profile, made, out, dep>>
    BY <1>3 DEF DropExpressions, DropTools, accessVars
  <2>2. Goes(k, "dropTools") \/ Goes(k, "dropConnection")
    BY <1>3 DEF DropExpressions, DropTools
  <2>3. Quiet([op |-> "dropTools"]) /\ Quiet([op |-> "dropConnection"])
    BY DEF Quiet
  <2> QED BY <2>1, <2>2, <2>3, GoesOnQuiet
<1>4. ASSUME NEW k \in Clerk, DropConnection(k) PROVE SilentInv'
  <2>1. ProfilesMove
    BY <1>4, ProfilesCleared, DeploymentsAssumption DEF DropConnection
  <2>2. DepsMove
    BY <1>4, DepsCleared DEF DropConnection
  <2>3. OutMoves
    BY <1>4, OutStays DEF DropConnection
  <2> QED BY <1>4, <2>1, <2>2, <2>3, DoneKeeps DEF DropConnection
<1> QED BY <1>1, <1>2, <1>3, <1>4 DEF ConnectionStep

LEMMA SyncKeeps ==
  ASSUME SilentInv, SyncStep
  PROVE  SilentInv'
<1>1. ASSUME NEW k \in Clerk, NEW read,
             SyncCatalogAdding(k, read) \/ \E visible \in SUBSET Guild : SyncCatalog(k, visible, read)
      PROVE  SilentInv'
  <2>1. PICK r : r = [Vacant EXCEPT !.op = "sync", !.todo = read]
    OBVIOUS
  <2>2. DOMAIN r = DOMAIN Vacant /\ r.op = "sync"
    BY <2>1 DEF Vacant
  <2>3. Begin(k, r) /\ UNCHANGED <<profile, made, out, dep>>
    BY <1>1, <2>1 DEF SyncCatalog, SyncCatalogAdding, accessVars
  <2> QED BY <2>2, <2>3, BeginQuiet DEF Quiet
<1> QED BY <1>1 DEF SyncStep

LEMMA ExpressionKeeps ==
  ASSUME SilentInv, ExpressionStep
  PROVE  SilentInv'
<1>1. ASSUME NEW g \in Guild,
             ResolveResource(g) \/ \E a \in Account, there \in BOOLEAN : UpsertManualResource(a, g, there)
      PROVE  SilentInv'
  <2>1. UNCHANGED <<clerk, profile, made, out, dep>>
    BY <1>1 DEF ResolveResource, UpsertManualResource, accessVars
  <2> QED BY <2>1, IdleKeeps
<1>2. ASSUME NEW k \in Clerk, CloneServerResources(k) \/ DeleteScope(k) PROVE SilentInv'
  <2>1. Done(k) /\ UNCHANGED <<profile, made, out, dep>>
    BY <1>2 DEF CloneServerResources, DeleteScope, accessVars
  <2>2. Quiet([op |-> "none"])
    BY DEF Quiet
  <2> QED BY <2>1, <2>2, GoesOnQuiet
<1>3. ASSUME NEW k \in Clerk, NEW g \in Guild, NEW there \in BOOLEAN, SyncServerResources(k, g, there)
      PROVE  SilentInv'
  <2>1. Quiet(clerk[k]) /\ UNCHANGED <<profile, made, out, dep>>
    BY <1>3 DEF SyncServerResources, accessVars, Quiet
  <2>2. PICK rest : clerk' = [clerk EXCEPT ![k].todo = rest]
    BY <1>3 DEF SyncServerResources
  <2> QED BY <2>1, <2>2, TodoKeeps
<1>4. ASSUME NEW k \in Clerk, EndSync(k) PROVE SilentInv'
  <2>1. Quiet(clerk[k]) /\ UNCHANGED <<profile, made, out, dep>> /\ Quiet([op |-> "none"])
    BY <1>4 DEF EndSync, accessVars, Quiet
  <2>2. Done(k) \/ \E rest : clerk' = [clerk EXCEPT ![k].todo = rest]
    BY <1>4 DEF EndSync
  <2> QED BY <2>1, <2>2, TodoKeeps, GoesOnQuiet
<1> QED BY <1>1, <1>2, <1>3, <1>4 DEF ExpressionStep

LEMMA IdentityKeeps ==
  ASSUME SilentInv, IdentityStep
  PROVE  SilentInv'
<1>1. ASSUME NEW d \in Deployment,
             \/ \E mode \in {"webhook", "bot"}, aliases \in BOOLEAN : UpsertIdentity(d, mode, aliases)
             \/ DeleteIdentity(d)
             \/ \E status \in {"pending", "active", "error"} : ReportWebhookStatus(d, status)
             \/ \E g \in Guild, c \in Channel, m \in Message, old \in SUBSET Message :
                  RegisterMessageRoute(d, g, c, m, old)
      PROVE  SilentInv'
  <2>1. UNCHANGED <<clerk, profile, made, out, dep>>
    BY <1>1 DEF UpsertIdentity, DeleteIdentity, ReportWebhookStatus, RegisterMessageRoute, accessVars
  <2> QED BY <2>1, IdleKeeps
<1>2. ASSUME NEW k \in Clerk, NEW d \in Deployment, NEW g \in Guild, NEW c \in Channel, NEW hook \in Hook,
             RegisterWebhook(k, d, g, c, hook)
      PROVE  SilentInv'
  <2>1. PICK r : r = [Vacant EXCEPT !.op = "bind", !.who = dep[d].owner, !.dep = d, !.hook = hook, !.todo = {c}]
    OBVIOUS
  <2>2. DOMAIN r = DOMAIN Vacant /\ r.op = "bind"
    BY <2>1 DEF Vacant
  <2>3. Begin(k, r) /\ UNCHANGED <<profile, made, out, dep>>
    BY <1>2, <2>1 DEF RegisterWebhook, accessVars
  <2> QED BY <2>2, <2>3, BeginQuiet DEF Quiet
<1>3. ASSUME NEW k \in Clerk, UpsertBinding(k) \/ SetToken(k) \/ SetIdentityStatus(k) PROVE SilentInv'
  <2>1. UNCHANGED <<profile, made, out, dep>>
    BY <1>3 DEF UpsertBinding, SetToken, SetIdentityStatus, accessVars
  <2>2. Goes(k, "token") \/ Goes(k, "status") \/ Done(k)
    BY <1>3 DEF UpsertBinding, SetToken, SetIdentityStatus
  <2>3. Quiet([op |-> "token"]) /\ Quiet([op |-> "status"])
    BY DEF Quiet
  <2> QED BY <2>1, <2>2, <2>3, GoesOnQuiet
<1> QED BY <1>1, <1>2, <1>3 DEF IdentityStep

LEMMA LeaveKeeps ==
  ASSUME SilentInv, LeaveStep
  PROVE  SilentInv'
<1>1. ASSUME NEW k \in Clerk, NEW a \in Account, DeleteOwner(k, a) PROVE SilentInv'
  <2>1. PICK r : r = [Vacant EXCEPT !.op = "ownIdentities", !.by = a, !.who = a]
    OBVIOUS
  <2>2. DOMAIN r = DOMAIN Vacant /\ r.op = "ownIdentities"
    BY <2>1 DEF Vacant
  <2>3. Begin(k, r) /\ UNCHANGED <<profile, made, out, dep>>
    BY <1>1, <2>1 DEF DeleteOwner, accessVars
  <2> QED BY <2>2, <2>3, BeginQuiet DEF Quiet
<1>2. ASSUME NEW k \in Clerk, DeleteOwnIdentities(k) \/ DeleteOwnTools(k) PROVE SilentInv'
  <2>1. UNCHANGED <<profile, made, out, dep>>
    BY <1>2 DEF DeleteOwnIdentities, DeleteOwnTools, accessVars
  <2>2. Goes(k, "ownTools") \/ Goes(k, "ownDeployments")
    BY <1>2 DEF DeleteOwnIdentities, DeleteOwnTools
  <2>3. Quiet([op |-> "ownTools"]) /\ Quiet([op |-> "ownDeployments"])
    BY DEF Quiet
  <2> QED BY <2>1, <2>2, <2>3, GoesOnQuiet
<1>3. ASSUME NEW k \in Clerk, DeleteOwnDeployments(k) PROVE SilentInv'
  <2>1. ProfilesMove
    <3>1. CASE clerk[k].who \in Account
      BY <1>3, <3>1, ProfilesCleared DEF DeleteOwnDeployments
    <3>2. CASE clerk[k].who \notin Account
      <4>1. profile = [a \in Account |-> profile[a]]
        BY DEF SilentInv, DeploymentsShaped
      <4>2. UNCHANGED <<profile, made>>
        BY <1>3, <3>2, <4>1 DEF DeleteOwnDeployments
      <4> QED BY <4>2, ProfilesStay
    <3> QED BY <3>1, <3>2
  <2>2. DepsMove
    BY <1>3, DepsCleared DEF DeleteOwnDeployments
  <2>3. OutMoves
    BY <1>3, OutStays DEF DeleteOwnDeployments
  <2> QED BY <1>3, <2>1, <2>2, <2>3, DoneKeeps DEF DeleteOwnDeployments
<1> QED BY <1>1, <1>2, <1>3 DEF LeaveStep

LEMMA DeployKeeps ==
  ASSUME SilentInv, DeployStep
  PROVE  SilentInv'
<1>1. ASSUME NEW a \in Account, NEW g \in Guild, NEW places \in SUBSET Places, UpdateServerProfile(a, g, places)
      PROVE  SilentInv'
  <2>1. PICK row : row = [profile[a][g] EXCEPT !.excl = places]
    OBVIOUS
  <2>2. profile[a][g] \in ProfileRow
    BY DEF SilentInv, DeploymentsShaped
  <2>3. row \in ProfileRow /\ row.id = profile[a][g].id
    BY <2>1, <2>2 DEF ProfileRow, Places
  <2>4. profile' = [profile EXCEPT ![a][g] = row] /\ UNCHANGED <<made, clerk, dep, out>>
    BY <1>1, <2>1 DEF UpdateServerProfile
  <2>5. ProfilesMove
    BY <2>3, <2>4, ProfileRewritten
  <2> QED BY <2>4, <2>5, DepsStay, OutStays, StandKeeps
<1>2. ASSUME NEW k \in Clerk, NEW a \in Account, NEW d \in Deployment, NEW g \in Guild, ChooseProfile(k, a, d, g)
      PROVE  SilentInv'
  <2>1. PICK op : op = IF Exists(d) THEN "move" ELSE "create"
    OBVIOUS
  <2>2. PICK r : r = [Vacant EXCEPT !.op = op, !.by = a, !.who = a, !.guild = g, !.dep = d, !.ref = profile[a][g].id]
    OBVIOUS
  <2>3. DOMAIN r = DOMAIN Vacant /\ r.op = op /\ r.who = a /\ r.guild = g /\ r.ref = profile[a][g].id
    BY <2>2 DEF Vacant
  <2>4. Begin(k, r) /\ UNCHANGED <<profile, made, out, dep>>
    BY <1>2, <2>1, <2>2 DEF ChooseProfile, accessVars
  <2>5. op \in {"move", "create"}
    BY <2>1
  <2>6. OwnProfile(profile[a][g].id, a)
    <3>1. profile[a][g].id \in Nat /\ made \in Nat /\ profile[a][g].id <= made
      BY DEF SilentInv, DeploymentsShaped, ProfileRow, ProfilesNumbered
    <3>2. \A b \in Account, h \in Guild :
            profile[a][g].id > 0 /\ profile[b][h].id = profile[a][g].id => b = a
      BY DEF SilentInv, ProfilesNumbered
    <3> QED BY <3>1, <3>2 DEF OwnProfile
  <2>7. ~ (r.op = "revoke" \/ Revoking(r))
    BY <2>3, <2>5 DEF Revoking
  <2>8. clerk' = [clerk EXCEPT ![k] = r] /\ clerk'[k] = r
    BY <2>4, <2>7, ServeMoves DEF Begin
  <2>9. RequestMoves(k)
    BY <2>3, <2>5, <2>6, <2>7, <2>8 DEF RequestMoves, Enters
  <2> QED BY <2>4, <2>7, <2>8, <2>9, ServeKeeps, ProfilesStay, DepsStay, OutStays
<1>3. ASSUME NEW k \in Clerk,
             \/ \E status \in Statuses, excl \in SUBSET Places : CreateDeployment(k, status, excl)
             \/ MoveDeployment(k) \/ Undeploy(k)
      PROVE  SilentInv'
  <2>1. Done(k) /\ UNCHANGED <<profile, made, out>>
    BY <1>3 DEF CreateDeployment, MoveDeployment, Undeploy, accessVars
  <2>2. PICK d : d = clerk[k].dep
    OBVIOUS
  <2>3. CASE Undeploy(k)
    <3>1. PICK row : row = NoRow
      OBVIOUS
    <3>2. DOMAIN row = DOMAIN NoRow /\ row.scope = 0
      BY <3>1 DEF NoRow
    <3>3. dep' = [dep EXCEPT ![d] = row]
      BY <2>2, <2>3, <3>1 DEF Undeploy
    <3>4. DepsMove
      BY <3>2, <3>3, DepWritten
    <3> QED BY <2>1, <3>4, DoneKeeps, ProfilesStay, OutStays
  <2>4. CASE \/ \E status \in Statuses, excl \in SUBSET Places : CreateDeployment(k, status, excl)
             \/ MoveDeployment(k)
    <3>1. \E row : /\ DOMAIN row = DOMAIN NoRow /\ row.scope = clerk[k].ref /\ row.owner = clerk[k].who
                   /\ dep' = dep \/ dep' = [dep EXCEPT ![d] = row]
      <4>1. ASSUME NEW status, NEW excl, CreateDeployment(k, status, excl)
            PROVE  dep' = dep \/ dep' = [dep EXCEPT ![d] = Placed(k, status, excl)]
        BY <2>2, <4>1 DEF CreateDeployment
      <4>2. ASSUME MoveDeployment(k)
            PROVE  \/ dep' = dep
                   \/ \E status, excl : dep' = [dep EXCEPT ![d] = Placed(k, status, excl)]
        <5>1. PICK excl : excl = IF dep[d].scope > 0 THEN dep[d].excl ELSE {}
          OBVIOUS
        <5>2. dep' = dep \/ dep' = [dep EXCEPT ![d] = Placed(k, dep[d].status, excl)]
          BY <2>2, <4>2, <5>1 DEF MoveDeployment
        <5> QED BY <5>2
      <4>3. PICK status, excl : dep' = dep \/ dep' = [dep EXCEPT ![d] = Placed(k, status, excl)]
        BY <2>4, <4>1, <4>2, Zenon
      <4>4. PICK row : row = Placed(k, status, excl)
        OBVIOUS
      <4>5. DOMAIN row = DOMAIN NoRow /\ row.scope = clerk[k].ref /\ row.owner = clerk[k].who
        BY <4>4 DEF Placed, NoRow
      <4> QED BY <4>3, <4>4, <4>5
    <3>2. PICK row : /\ DOMAIN row = DOMAIN NoRow /\ row.scope = clerk[k].ref /\ row.owner = clerk[k].who
                     /\ dep' = dep \/ dep' = [dep EXCEPT ![d] = row]
      BY <3>1
    <3>3. Placing(clerk[k])
      BY <2>4 DEF CreateDeployment, MoveDeployment, Placing
    <3>4. ASSUME dep' = dep PROVE DepsMove
      BY <3>4, DepsStay
    <3>5. ASSUME dep' = [dep EXCEPT ![d] = row] PROVE DepsMove
      BY <3>2, <3>3, <3>5, DepWritten
    <3>6. DepsMove
      BY <3>2, <3>4, <3>5
    <3> QED BY <2>1, <3>6, DoneKeeps, ProfilesStay, OutStays
  <2> QED BY <1>3, <2>3, <2>4
<1>4. ASSUME NEW d \in Deployment, NEW g \in Guild, NEW c \in Channel, NEW status \in Statuses,
             CreateExactDeployment(d, g, c, status)
      PROVE  SilentInv'
  <2>1. PICK row : row = [NoRow EXCEPT !.owner = Super, !.guild = g, !.channel = c, !.status = status]
    OBVIOUS
  <2>2. DOMAIN row = DOMAIN NoRow /\ row.scope = 0
    BY <2>1 DEF NoRow
  <2>3. dep' = [dep EXCEPT ![d] = row] /\ UNCHANGED <<clerk, profile, made, out>>
    BY <1>4, <2>1 DEF CreateExactDeployment, accessVars
  <2>4. DepsMove
    BY <2>2, <2>3, DepWritten
  <2> QED BY <2>3, <2>4, StandKeeps, ProfilesStay, OutStays
<1>5. ASSUME NEW d \in Deployment,
             \/ \E status \in Statuses : SetStatus(d, status)
             \/ \E excl \in SUBSET Places : SetExclusions(d, excl)
             \/ \E c \in Channel \cup {dep[d].channel} : LeaveProfile(d, c)
      PROVE  SilentInv'
  <2>1. PICK x : x = dep[d]
    OBVIOUS
  <2>2. DOMAIN x = {"owner", "guild", "channel", "scope", "status", "excl"}
    BY <2>1 DEF SilentInv, DeploymentsShaped, NoRow
  <2>3. ASSUME NEW row, UpdateDeployment(d, row), DOMAIN row = DOMAIN x,
               row.scope = 0 \/ (row.scope = x.scope /\ row.owner = x.owner)
        PROVE  SilentInv'
    <3>1. dep' = [dep EXCEPT ![d] = row] /\ UNCHANGED <<clerk, profile, made, out>>
      BY <2>3 DEF UpdateDeployment, accessVars
    <3>2. DOMAIN row = DOMAIN NoRow
      BY <2>2, <2>3 DEF NoRow
    <3>3. DepsMove
      BY <2>1, <2>3, <3>1, <3>2, DepWritten
    <3> QED BY <3>1, <3>3, StandKeeps, ProfilesStay, OutStays
  <2>4. ASSUME NEW status, SetStatus(d, status) PROVE SilentInv'
    <3>1. PICK row : row = [x EXCEPT !.status = status]
      OBVIOUS
    <3>2. DOMAIN row = DOMAIN x /\ row.scope = x.scope /\ row.owner = x.owner
      BY <2>2, <3>1
    <3>3. UpdateDeployment(d, row)
      BY <2>1, <2>4, <3>1 DEF SetStatus
    <3> QED BY <2>3, <3>2, <3>3
  <2>5. ASSUME NEW excl, SetExclusions(d, excl) PROVE SilentInv'
    <3>1. PICK row : row = [x EXCEPT !.excl = excl]
      OBVIOUS
    <3>2. DOMAIN row = DOMAIN x /\ row.scope = x.scope /\ row.owner = x.owner
      BY <2>2, <3>1
    <3>3. UpdateDeployment(d, row)
      BY <2>1, <2>5, <3>1 DEF SetExclusions
    <3> QED BY <2>3, <3>2, <3>3
  <2>6. ASSUME NEW c, LeaveProfile(d, c) PROVE SilentInv'
    <3>1. PICK row : row = [x EXCEPT !.scope = 0, !.excl = {}, !.channel = c]
      OBVIOUS
    <3>2. DOMAIN row = DOMAIN x /\ row.scope = 0
      BY <2>2, <3>1
    <3>3. UpdateDeployment(d, row)
      BY <2>1, <2>6, <3>1 DEF LeaveProfile
    <3>4. row.scope = 0 \/ (row.scope = x.scope /\ row.owner = x.owner)
      BY <3>2
    <3> QED BY <2>3, <3>2, <3>3, <3>4, Zenon
  <2> QED BY <1>5, <2>4, <2>5, <2>6
<1>6. ASSUME NEW d \in Deployment, NEW k \in Clerk, DeleteDeployment(k, d) PROVE SilentInv'
  <2>1. PICK r : r = [Vacant EXCEPT !.op = "undeploy", !.by = dep[d].owner, !.who = dep[d].owner, !.dep = d]
    OBVIOUS
  <2>2. DOMAIN r = DOMAIN Vacant /\ r.op = "undeploy"
    BY <2>1 DEF Vacant
  <2>3. Begin(k, r) /\ UNCHANGED <<profile, made, out, dep>>
    BY <1>6, <2>1 DEF DeleteDeployment, accessVars
  <2> QED BY <2>2, <2>3, BeginQuiet DEF Quiet
<1>7. ASSUME NEW d \in Deployment, SetEnabledTools(d) \/ StartTurn(d) PROVE SilentInv'
  <2>1. UNCHANGED <<clerk, profile, made, out, dep>>
    BY <1>7 DEF SetEnabledTools, StartTurn, accessVars
  <2> QED BY <2>1, IdleKeeps
<1>8. ASSUME NEW d \in Deployment, EndTurn(d) PROVE SilentInv'
  <2>1. UNCHANGED <<clerk, profile, made, out>>
    BY <1>8 DEF EndTurn, accessVars
  <2>2. PICK x : x = dep[d]
    OBVIOUS
  <2>3. DOMAIN x = {"owner", "guild", "channel", "scope", "status", "excl"}
    BY <2>2 DEF SilentInv, DeploymentsShaped, NoRow
  <2>4. PICK s : dep' = dep \/ dep' = [dep EXCEPT ![d] = [x EXCEPT !.status = s]]
    BY <1>8, <2>2 DEF EndTurn
  <2>5. PICK row : row = [x EXCEPT !.status = s]
    OBVIOUS
  <2>6. DOMAIN row = DOMAIN NoRow /\ row.scope = x.scope /\ row.owner = x.owner
    BY <2>3, <2>5 DEF NoRow
  <2>7. DepsMove
    BY <2>2, <2>4, <2>5, <2>6, DepWritten, DepsStay
  <2> QED BY <2>1, <2>7, StandKeeps, ProfilesStay, OutStays
<1>9. ASSUME NEW a \in Account, DeleteCard(a) PROVE SilentInv'
  <2>1. UNCHANGED <<clerk, profile, made, out, dep>>
    BY <1>9 DEF DeleteCard, accessVars
  <2> QED BY <2>1, IdleKeeps
<1> QED BY <1>1, <1>2, <1>3, <1>4, <1>5, <1>6, <1>7, <1>8, <1>9 DEF DeployStep

\* Somebody comes in, or asks to.
LEMMA EntryKeeps ==
  ASSUME SilentInv, NEW k \in Clerk, NEW a \in Account, NEW g \in Guild, NEW r, Begin(k, r),
         DOMAIN r = DOMAIN Vacant, r.op \in {"grant", "claim"}, r.who = a, r.guild = g,
         LetIn(a, g), UNCHANGED <<profile, made, dep>>
  PROVE  SilentInv'
<1>1. DOMAIN r = DOMAIN Vacant /\ r.op \in {"grant", "claim"} /\ r.who = a /\ r.guild = g
  OBVIOUS
<1>2. Begin(k, r) /\ clerk' = [clerk EXCEPT ![k] = r]
  BY DEF Begin
<1>3. ~ (r.op = "revoke" \/ Revoking(r)) /\ ~ Placing(r)
  BY <1>1 DEF Revoking, Placing
<1>4. clerk'[k] = r
  BY <1>2, <1>3, ServeMoves
<1>5. out \in [Account -> [Guild -> {"in", "turning", "out"}]]
  BY DEF SilentInv, DeploymentsShaped
<1>6. OutMoves /\ out'[a][g] = "in"
  BY <1>5 DEF LetIn, OutMoves
<1>7. RequestMoves(k)
  BY <1>1, <1>3, <1>4, <1>6 DEF RequestMoves, Enters
<1> QED BY <1>2, <1>3, <1>6, <1>7, ServeKeeps, ProfilesStay, DepsStay

\* The profile of somebody who comes in is written, or is there already.
LEMMA InsertKeeps ==
  ASSUME SilentInv, NEW k \in Clerk, EnsureProfileForAccess(k) \/ InsertClaim(k)
  PROVE  SilentInv'
<1>1. PICK a, g : a = clerk[k].who /\ g = clerk[k].guild
  OBVIOUS
<1>2. Enters(clerk[k], a, g) /\ UNCHANGED <<dep, out>>
  BY <1>1 DEF EnsureProfileForAccess, InsertClaim, Enters
<1>3. Quiet([op |-> "clone"])
  BY DEF Quiet
<1>4. \/ Done(k) /\ UNCHANGED <<profile, made>>
      \/ NewProfile(a, g) /\ Goes(k, "clone")
  BY <1>1 DEF EnsureProfileForAccess, InsertClaim
<1>5. ProfilesMove
  BY <1>2, <1>4, ProfilesStay, ProfileMade
<1> QED BY <1>2, <1>3, <1>4, <1>5, DepsStay, OutStays, DoneKeeps, GoesQuiet

LEMMA GrantKeeps ==
  ASSUME SilentInv, NEW k \in Clerk, GrantAccess(k)
  PROVE  SilentInv'
<1>1. PICK r : /\ clerk' = [clerk EXCEPT ![k] = r] /\ DOMAIN r = DOMAIN Vacant /\ r.op = "profile"
               /\ r.by = clerk[k].by /\ r.who = clerk[k].who /\ r.guild = clerk[k].guild
  BY GoesIs DEF GrantAccess
<1>2. clerk[k].op = "grant" /\ UNCHANGED <<profile, made, dep, out>>
  BY DEF GrantAccess
<1>3. ~ (r.op = "revoke" \/ Revoking(r)) /\ ~ Placing(r)
  BY <1>1 DEF Revoking, Placing
<1>4. clerk'[k] = r
  BY <1>1, <1>3, ServeMoves
<1>5. RequestMoves(k)
  BY <1>1, <1>2, <1>3, <1>4 DEF RequestMoves, Enters
<1> QED BY <1>1, <1>2, <1>3, <1>5, ServeKeeps, ProfilesStay, DepsStay, OutStays

\* What a request that is to turn somebody out knows of the profile.
LEMMA RevokerKnows ==
  ASSUME SilentInv, NEW k \in Clerk, NEW a \in Account \ {Super}, NEW g \in Guild,
         clerk[k].who = a, clerk[k].guild = g, out[a][g] # "in"
  PROVE  /\ clerk[k].op = "revoke" => profile[a][g].id = 0
         /\ Revoking(clerk[k]) => profile[a][g].id \in {0, clerk[k].ref}
  BY DEF SilentInv, TurnedOut

\* Two fields of one request written at once.
LEMMA TwiceWritten ==
  ASSUME SilentInv, NEW k \in Clerk, NEW op, NEW todo
  PROVE  [clerk EXCEPT ![k].op = op, ![k].todo = todo]
           = [clerk EXCEPT ![k] = [clerk[k] EXCEPT !.op = op, !.todo = todo]]
<1>1. clerk = [l \in Clerk |-> clerk[l]]
  BY DEF SilentInv, DeploymentsShaped
<1>2. PICK f : f = [clerk EXCEPT ![k].op = op]
  OBVIOUS
<1>3. f = [l \in Clerk |-> IF l = k THEN [clerk[k] EXCEPT !.op = op] ELSE clerk[l]]
  BY <1>1, <1>2
<1>4. f[k] = [clerk[k] EXCEPT !.op = op]
  BY <1>3
<1>5. [clerk EXCEPT ![k].op = op, ![k].todo = todo] = [f EXCEPT ![k].todo = todo]
  BY <1>2
<1>6. [f EXCEPT ![k].todo = todo] = [l \in Clerk |-> IF l = k THEN [f[k] EXCEPT !.todo = todo] ELSE f[l]]
  BY <1>3
<1>7. [f[k] EXCEPT !.todo = todo] = [clerk[k] EXCEPT !.op = op, !.todo = todo]
  BY <1>4
<1>8. PICK r : r = [clerk[k] EXCEPT !.op = op, !.todo = todo]
  OBVIOUS
<1>9. [f EXCEPT ![k].todo = todo] = [l \in Clerk |-> IF l = k THEN r ELSE clerk[l]]
  BY <1>3, <1>6, <1>7, <1>8
<1>10. [clerk EXCEPT ![k] = r] = [l \in Clerk |-> IF l = k THEN r ELSE clerk[l]]
  BY <1>1
<1> QED BY <1>5, <1>8, <1>9, <1>10

LEMMA CheckKeeps ==
  ASSUME SilentInv, NEW k \in Clerk, CheckUnused(k)
  PROVE  SilentInv'
<1>1. UNCHANGED <<profile, made, dep, out>> /\ clerk[k].op \in {"revokeProfile", "deleteProfile"}
  BY DEF CheckUnused, accessVars
<1>2. PICK next : next = IF clerk[k].op = "revokeProfile" THEN "revoke" ELSE "none"
  OBVIOUS
<1>3. \/ ~ ProfileStands(k) /\ next = "revoke" /\ Goes(k, "revoke")
      \/ Done(k)
      \/ clerk' = [clerk EXCEPT ![k].op = "remove", ![k].todo = {next}]
  BY <1>2 DEF CheckUnused
<1>4. ASSUME Done(k) PROVE SilentInv'
  BY <1>1, <1>4, DoneKeeps, ProfilesStay, DepsStay, OutStays
<1>5. next = "revoke" => Revoking(clerk[k]) /\ clerk[k].by = Super
  BY <1>2 DEF SilentInv, OneSuper, Revoking
<1>6. ASSUME ~ ProfileStands(k), next = "revoke", Goes(k, "revoke") PROVE SilentInv'
  <2>1. PICK r : /\ clerk' = [clerk EXCEPT ![k] = r] /\ DOMAIN r = DOMAIN Vacant /\ r.op = "revoke"
                 /\ r.by = clerk[k].by /\ r.who = clerk[k].who /\ r.guild = clerk[k].guild
    BY <1>6, GoesIs
  <2>2. r.by = Super /\ Revoking(clerk[k])
    BY <1>5, <1>6, <2>1
  <2>3. clerk'[k] = r
    BY <2>1, <2>2, ServeMoves
  <2>4. ASSUME NEW a \in Account \ {Super}, NEW g \in Guild, r.who = a, r.guild = g
        PROVE  out'[a][g] = "in" \/ profile'[a][g].id = 0
    BY <1>1, <1>6, <2>1, <2>2, <2>4, RevokerKnows, Zenon DEF ProfileStands
  <2>5. ~ Placing(r) /\ ~ Revoking(r) /\ \A a, g : ~ Enters(r, a, g)
    BY <2>1 DEF Placing, Revoking, Enters
  <2>6. RequestMoves(k)
    BY <2>1, <2>3, <2>4, <2>5 DEF RequestMoves
  <2> QED BY <1>1, <2>1, <2>2, <2>6, ServeKeeps, ProfilesStay, DepsStay, OutStays
<1>7. ASSUME clerk' = [clerk EXCEPT ![k].op = "remove", ![k].todo = {next}] PROVE SilentInv'
  <2>1. PICK x : x = clerk[k]
    OBVIOUS
  <2>2. DOMAIN x = {"op", "by", "who", "guild", "dep", "ref", "hook", "todo"}
    BY <2>1 DEF SilentInv, DeploymentsShaped, Vacant
  <2>3. PICK r : r = [x EXCEPT !.op = "remove", !.todo = {next}]
    OBVIOUS
  <2>4. clerk = [l \in Clerk |-> clerk[l]]
    BY DEF SilentInv, DeploymentsShaped
  <2>5. clerk' = [clerk EXCEPT ![k] = r]
    BY <1>7, <2>1, <2>3, TwiceWritten, Zenon
  <2>6. /\ DOMAIN r = DOMAIN Vacant /\ r.op = "remove" /\ r.todo = {next} /\ r.by = x.by
        /\ r.who = x.who /\ r.guild = x.guild /\ r.ref = x.ref
    BY <2>2, <2>3 DEF Vacant
  <2>7. Revoking(r) => Revoking(x) /\ r.by = Super
    BY <1>5, <2>1, <2>6 DEF Revoking
  <2>8. r.op = "revoke" \/ Revoking(r) => r.by = Super
    BY <2>6, <2>7
  <2>9. clerk'[k] = r
    BY <2>1, <2>5, <2>6, <2>8, ServeMoves
  <2>10. ~ Placing(r) /\ \A a, g : ~ Enters(r, a, g)
    BY <2>6 DEF Placing, Enters
  <2>11. RequestMoves(k)
    BY <2>1, <2>6, <2>7, <2>9, <2>10 DEF RequestMoves
  <2> QED BY <1>1, <2>1, <2>5, <2>6, <2>8, <2>11, ServeKeeps, ProfilesStay, DepsStay, OutStays
<1> QED BY <1>3, <1>4, <1>6, <1>7

LEMMA RemoveKeeps ==
  ASSUME SilentInv, NEW k \in Clerk, RemoveProfile(k)
  PROVE  SilentInv'
<1>1. PICK x : x = clerk[k]
  OBVIOUS
<1>2. DOMAIN x = {"op", "by", "who", "guild", "dep", "ref", "hook", "todo"} /\ x.op = "remove"
  BY <1>1 DEF SilentInv, DeploymentsShaped, Vacant, RemoveProfile
<1>3. PICK op : op = IF "revoke" \in x.todo THEN "revoke" ELSE "deleteScope"
  OBVIOUS
<1>4. PICK r : r = [x EXCEPT !.op = op, !.todo = {}]
  OBVIOUS
<1>5. clerk = [l \in Clerk |-> clerk[l]]
  BY DEF SilentInv, DeploymentsShaped
<1>6. clerk' = [clerk EXCEPT ![k] = r]
  <2>1. clerk' = [clerk EXCEPT ![k].op = op, ![k].todo = {}]
    BY <1>1, <1>3 DEF RemoveProfile
  <2> QED BY <1>1, <1>4, <2>1, TwiceWritten, Zenon
<1>7. /\ DOMAIN r = DOMAIN Vacant /\ r.op = op /\ r.by = x.by
      /\ r.who = x.who /\ r.guild = x.guild /\ r.ref = x.ref
  BY <1>2, <1>4 DEF Vacant
<1>8. ~ Placing(r) /\ ~ Revoking(r) /\ \A a, g : ~ Enters(r, a, g)
  BY <1>3, <1>7 DEF Placing, Enters, Revoking
<1>9. op = "revoke" => Revoking(x) /\ r.by = Super
  BY <1>1, <1>2, <1>3, <1>7 DEF Revoking, SilentInv, OneSuper
<1>10. r.op = "revoke" \/ Revoking(r) => r.by = Super
  BY <1>7, <1>8, <1>9
<1>11. clerk'[k] = r
  BY <1>1, <1>6, <1>7, <1>10, ServeMoves
<1>12. UNCHANGED <<made, dep, out>>
  BY DEF RemoveProfile
<1>13. PICK row : row = NoProfile
  OBVIOUS
<1>14. row \in ProfileRow /\ row.id = 0
  BY <1>13 DEF NoProfile, ProfileRow
<1>15. /\ ProfileStands(k) => profile' = [profile EXCEPT ![x.who][x.guild] = row]
       /\ ~ ProfileStands(k) => profile' = profile
  BY <1>1, <1>13 DEF RemoveProfile
<1>16. ProfilesMove
  BY <1>12, <1>14, <1>15, ProfilesStay, ProfileRewritten
<1>17. ASSUME NEW a \in Account \ {Super}, NEW g \in Guild, x.who = a, x.guild = g, op = "revoke"
       PROVE  out'[a][g] = "in" \/ profile'[a][g].id = 0
  <2>1. out[a][g] # "in" => profile[a][g].id \in {0, x.ref}
    BY <1>1, <1>9, <1>17, RevokerKnows
  <2>2. profile \in [Account -> [Guild -> ProfileRow]]
    BY DEF SilentInv, DeploymentsShaped
  <2>3. CASE ProfileStands(k)
    BY <1>14, <1>15, <1>17, <2>2, <2>3
  <2>4. CASE ~ ProfileStands(k)
    BY <1>1, <1>12, <1>15, <1>17, <2>1, <2>4 DEF ProfileStands
  <2> QED BY <2>3, <2>4
<1>18. RequestMoves(k)
  BY <1>7, <1>8, <1>11, <1>17 DEF RequestMoves
<1> QED BY <1>1, <1>6, <1>7, <1>10, <1>12, <1>16, <1>18, ServeKeeps, DepsStay, OutStays

\* Somebody is turned out, or is about to be.
LEMMA TurningKeeps ==
  ASSUME SilentInv, NEW k \in Clerk, NEW r, clerk' = [clerk EXCEPT ![k] = r],
         DOMAIN r = DOMAIN Vacant, ~ Placing(r), r.op = "revoke" \/ Revoking(r) => r.by = Super,
         Begin(k, r) \/ r.by \in {clerk[k].by, NoAccount}, UNCHANGED <<profile, made, dep>>,
         out' \in [Account -> [Guild -> {"in", "turning", "out"}]],
         \A a \in Account \ {Super}, g \in Guild : TurnedOut(a, g)'
  PROVE  SilentInv'
<1>1. /\ OneSuper' /\ clerk' = [l \in Clerk |-> clerk'[l]] /\ clerk'[k] = r
      /\ \A l \in Clerk \ {k} : clerk'[l] = clerk[l]
  BY ServeMoves
<1>2. DeploymentsShaped'
  BY <1>1 DEF SilentInv, DeploymentsShaped
<1>3. ProfilesNumbered'
  BY DEF SilentInv, ProfilesNumbered
<1>4. ScopesOwned'
  BY DEF SilentInv, ScopesOwned, OwnProfile
<1>5. ASSUME NEW l \in Clerk, Placing(clerk'[l]) PROVE OwnProfile(clerk'[l].ref, clerk'[l].who)
  BY <1>1, <1>5 DEF SilentInv, ChoicesOwned
<1>6. ChoicesOwned'
  BY <1>5 DEF ChoicesOwned, OwnProfile, Placing
<1> QED BY <1>1, <1>2, <1>3, <1>4, <1>6 DEF SilentInv

LEMMA RevokeKeeps ==
  ASSUME SilentInv, NEW k \in Clerk, NEW a \in Account, NEW g \in Guild, RevokeServerAccess(k, a, g)
  PROVE  SilentInv'
<1>1. PICK op : op = IF HasProfile(a, g) THEN "revokeProfile" ELSE "revoke"
  OBVIOUS
<1>2. PICK r : r = [Vacant EXCEPT !.op = op, !.by = Super, !.who = a, !.guild = g, !.ref = profile[a][g].id]
  OBVIOUS
<1>3. /\ DOMAIN r = DOMAIN Vacant /\ r.op = op /\ r.by = Super /\ r.who = a /\ r.guild = g
      /\ r.ref = profile[a][g].id
  BY <1>2 DEF Vacant
<1>4. Begin(k, r) /\ UNCHANGED <<profile, made, dep>>
  BY <1>1, <1>2 DEF RevokeServerAccess
<1>5. op \in {"revoke", "revokeProfile"} /\ (op = "revoke" => profile[a][g].id = 0)
  <2>1. profile[a][g].id \in Nat
    BY DEF SilentInv, DeploymentsShaped, ProfileRow
  <2> QED BY <1>1, <2>1 DEF HasProfile
<1>6. ~ Placing(r) /\ \A b, h : ~ Enters(r, b, h)
  BY <1>3, <1>5 DEF Placing, Enters
<1>7. clerk' = [clerk EXCEPT ![k] = r]
  BY <1>4 DEF Begin
<1>8. clerk'[k] = r /\ \A l \in Clerk \ {k} : clerk'[l] = clerk[l]
  BY <1>3, <1>4, <1>7, ServeMoves
<1>9. out \in [Account -> [Guild -> {"in", "turning", "out"}]]
  BY DEF SilentInv, DeploymentsShaped
<1>10. PICK v : out' = [out EXCEPT ![a][g] = v] /\ v = IF Entering(a, g) THEN "in" ELSE "turning"
  BY DEF RevokeServerAccess
<1>11. /\ out' \in [Account -> [Guild -> {"in", "turning", "out"}]] /\ out'[a][g] = v
       /\ \A b \in Account, h \in Guild : ~ (b = a /\ h = g) => out'[b][h] = out[b][h]
  BY <1>9, <1>10
<1>12. \A l \in Clerk : clerk[l].by # Super
  BY <1>3, <1>4, DeploymentsAssumption DEF Begin, Unlocked
<1>13. \A l \in Clerk : ~ (clerk[l].op = "revoke" \/ Revoking(clerk[l]))
  BY <1>12 DEF SilentInv, OneSuper
<1>14. ASSUME a # Super PROVE TurnedOut(a, g)'
  <2>1. CASE Entering(a, g)
    BY <1>10, <1>11, <2>1 DEF TurnedOut
  <2>2. CASE ~ Entering(a, g)
    <3>1. \A l \in Clerk : ~ Enters(clerk[l], a, g)
      BY <2>2 DEF Entering, Enters
    <3>2. \A l \in Clerk : ~ Enters(clerk'[l], a, g)
      BY <1>6, <1>8, <3>1
    <3>3. out'[a][g] = "turning"
      BY <1>10, <1>11, <2>2
    <3>4. ASSUME NEW l \in Clerk
          PROVE  /\ clerk'[l].op = "revoke" => profile'[a][g].id = 0
                 /\ Revoking(clerk'[l]) => profile'[a][g].id \in {0, clerk'[l].ref}
      <4>1. CASE l = k
        BY <1>3, <1>4, <1>5, <1>8, <4>1
      <4>2. CASE l # k
        BY <1>8, <1>13, <4>2
      <4> QED BY <4>1, <4>2
    <3> QED BY <3>2, <3>3, <3>4 DEF TurnedOut, Enters, Revoking
  <2> QED BY <2>1, <2>2
<1>15. ASSUME NEW b \in Account \ {Super}, NEW h \in Guild, ~ (b = a /\ h = g) PROVE TurnedOut(b, h)'
  <2>1. TurnedOut(b, h) /\ out'[b][h] = out[b][h] /\ profile' = profile
    BY <1>4, <1>11, <1>15 DEF SilentInv
  <2>2. \A l \in Clerk : out[b][h] # "in" => ~ Enters(clerk'[l], b, h)
    BY <1>6, <1>8, <2>1 DEF TurnedOut
  <2>3. ASSUME NEW l \in Clerk, out[b][h] # "in", clerk'[l].who = b, clerk'[l].guild = h
        PROVE  /\ clerk'[l].op = "revoke" => profile'[b][h].id = 0
               /\ Revoking(clerk'[l]) => profile'[b][h].id \in {0, clerk'[l].ref}
    <3>1. l # k
      BY <1>3, <1>8, <1>15, <2>3
    <3> QED BY <1>8, <1>13, <3>1
  <2> QED BY <2>1, <2>2, <2>3 DEF TurnedOut, Enters, Revoking
<1>16. \A b \in Account \ {Super}, h \in Guild : TurnedOut(b, h)'
  BY <1>14, <1>15
<1> QED BY <1>3, <1>4, <1>6, <1>7, <1>11, <1>16, TurningKeeps

LEMMA RemovalKeeps ==
  ASSUME SilentInv, NEW k \in Clerk, RevokeAccess(k)
  PROVE  SilentInv'
<1>1. PICK a, g : a = clerk[k].who /\ g = clerk[k].guild
  OBVIOUS
<1>2. PICK r : r = Vacant
  OBVIOUS
<1>3. clerk' = [clerk EXCEPT ![k] = r] /\ UNCHANGED <<profile, made, dep>> /\ clerk[k].op = "revoke"
  BY <1>2 DEF RevokeAccess, Done
<1>4. DOMAIN r = DOMAIN Vacant /\ r.op = "none" /\ r.by = NoAccount
  BY <1>2 DEF Vacant
<1>5. ~ Placing(r) /\ ~ Revoking(r) /\ \A b, h : ~ Enters(r, b, h)
  BY <1>4 DEF Placing, Revoking, Enters
<1>6. clerk'[k] = r /\ \A l \in Clerk \ {k} : clerk'[l] = clerk[l]
  BY <1>3, <1>4, <1>5, ServeMoves
<1>7. out \in [Account -> [Guild -> {"in", "turning", "out"}]]
  BY DEF SilentInv, DeploymentsShaped
<1>8. PICK v : /\ v = IF out[a][g] = "turning" THEN "out" ELSE out[a][g]
               /\ out' = [out EXCEPT ![a][g] = v]
  BY <1>1 DEF RevokeAccess
<1>9. /\ out' \in [Account -> [Guild -> {"in", "turning", "out"}]]
      /\ \A b \in Account, h \in Guild :
           \/ out'[b][h] = out[b][h]
           \/ b = a /\ h = g /\ out[b][h] = "turning" /\ out'[b][h] = "out"
  BY <1>7, <1>8
<1>10. ASSUME NEW b \in Account \ {Super}, NEW h \in Guild, out'[b][h] # "in" PROVE TurnedOut(b, h)'
  <2>1. TurnedOut(b, h) /\ out[b][h] # "in" /\ profile' = profile
    BY <1>3, <1>9, <1>10 DEF SilentInv
  <2>2. \A l \in Clerk : ~ Enters(clerk'[l], b, h)
    BY <1>5, <1>6, <2>1 DEF TurnedOut
  <2>3. out'[b][h] = "out" => profile'[b][h].id = 0
    <3>1. CASE out'[b][h] = out[b][h]
      BY <2>1, <3>1 DEF TurnedOut
    <3>2. CASE b = a /\ h = g
      BY <1>1, <1>3, <2>1, <3>2 DEF TurnedOut
    <3> QED BY <1>9, <3>1, <3>2
  <2>4. ASSUME NEW l \in Clerk, clerk'[l].who = b, clerk'[l].guild = h
        PROVE  /\ clerk'[l].op = "revoke" => profile'[b][h].id = 0
               /\ Revoking(clerk'[l]) => profile'[b][h].id \in {0, clerk'[l].ref}
    <3>1. CASE l = k
      BY <1>4, <1>5, <1>6, <3>1
    <3>2. CASE l # k
      BY <1>6, <2>1, <2>4, <3>2 DEF TurnedOut
    <3> QED BY <3>1, <3>2
  <2> QED BY <2>2, <2>3, <2>4 DEF TurnedOut, Enters, Revoking
<1>11. \A b \in Account \ {Super}, h \in Guild : TurnedOut(b, h)'
  BY <1>10 DEF TurnedOut
<1> QED BY <1>3, <1>4, <1>5, <1>9, <1>11, TurningKeeps

LEMMA AccessKeeps ==
  ASSUME SilentInv, AccessStep
  PROVE  SilentInv'
<1>1. ASSUME NEW g \in Guild,
             (\E on \in BOOLEAN : SetJoinEnabled(g, on)) \/ RegenerateJoinCode(g)
      PROVE  SilentInv'
  <2>1. UNCHANGED <<clerk, profile, made, out, dep>>
    BY <1>1 DEF SetJoinEnabled, RegenerateJoinCode, SetJoin
  <2> QED BY <2>1, IdleKeeps
<1>2. ASSUME NEW g \in Guild, CreateServerProfile(g) PROVE SilentInv'
  <2>1. UNCHANGED <<clerk, out, dep>> /\ NewProfile(Super, g)
    BY <1>2 DEF CreateServerProfile
  <2>2. ProfilesMove
    BY <2>1, ProfileMade
  <2> QED BY <2>1, <2>2, StandKeeps, DepsStay, OutStays
<1>3. ASSUME NEW k \in Clerk, NEW a \in Account, NEW g \in Guild,
             JoinServer(k, a, g) \/ GrantServerAccess(k, a, g) \/ ClaimServerProfile(k, a, g)
      PROVE  SilentInv'
  <2>1. LetIn(a, g) /\ UNCHANGED <<profile, made, dep>>
    BY <1>3 DEF JoinServer, GrantServerAccess, ClaimServerProfile
  <2>2. ASSUME JoinServer(k, a, g) PROVE SilentInv'
    <3>1. PICK r : r = [Vacant EXCEPT !.op = "grant", !.by = a, !.who = a, !.guild = g]
      OBVIOUS
    <3>2. DOMAIN r = DOMAIN Vacant /\ r.op = "grant" /\ r.who = a /\ r.guild = g
      BY <3>1 DEF Vacant
    <3>3. Begin(k, r)
      BY <2>2, <3>1 DEF JoinServer
    <3> QED BY <2>1, <3>2, <3>3, EntryKeeps
  <2>3. ASSUME GrantServerAccess(k, a, g) PROVE SilentInv'
    <3>1. PICK r : r = [Vacant EXCEPT !.op = "grant", !.by = Super, !.who = a, !.guild = g]
      OBVIOUS
    <3>2. DOMAIN r = DOMAIN Vacant /\ r.op = "grant" /\ r.who = a /\ r.guild = g
      BY <3>1 DEF Vacant
    <3>3. Begin(k, r)
      BY <2>3, <3>1 DEF GrantServerAccess
    <3> QED BY <2>1, <3>2, <3>3, EntryKeeps
  <2>4. ASSUME ClaimServerProfile(k, a, g) PROVE SilentInv'
    <3>1. PICK r : r = [Vacant EXCEPT !.op = "claim", !.by = a, !.who = a, !.guild = g]
      OBVIOUS
    <3>2. DOMAIN r = DOMAIN Vacant /\ r.op = "claim" /\ r.who = a /\ r.guild = g
      BY <3>1 DEF Vacant
    <3>3. Begin(k, r)
      BY <2>4, <3>1 DEF ClaimServerProfile
    <3> QED BY <2>1, <3>2, <3>3, EntryKeeps
  <2> QED BY <1>3, <2>2, <2>3, <2>4
<1>4. ASSUME NEW k \in Clerk, NEW a \in Account, NEW g \in Guild, DeleteServerProfile(k, a, g)
      PROVE  SilentInv'
  <2>1. PICK r : r = [Vacant EXCEPT !.op = "deleteProfile", !.by = a, !.who = a, !.guild = g,
                        !.ref = profile[a][g].id]
    OBVIOUS
  <2>2. DOMAIN r = DOMAIN Vacant /\ r.op = "deleteProfile"
    BY <2>1 DEF Vacant
  <2>3. Begin(k, r) /\ UNCHANGED <<profile, made, out, dep>>
    BY <1>4, <2>1 DEF DeleteServerProfile, accessVars
  <2> QED BY <2>2, <2>3, BeginQuiet DEF Quiet
<1>5. ASSUME NEW k \in Clerk, NEW accounts, ReadAccess(k, accounts) PROVE SilentInv'
  <2>1. PICK pairs : pairs = {p \in accounts \X catalog : p[1] # Super /\ HasProfile(p[1], p[2])}
    OBVIOUS
  <2>2. PICK r : r = [Vacant EXCEPT !.op = "backfill", !.todo = pairs]
    OBVIOUS
  <2>3. DOMAIN r = DOMAIN Vacant /\ r.op = "backfill"
    BY <2>2 DEF Vacant
  <2>4. Begin(k, r) /\ UNCHANGED <<profile, made, out, dep>>
    BY <1>5, <2>1, <2>2 DEF ReadAccess, accessVars
  <2> QED BY <2>3, <2>4, BeginQuiet DEF Quiet
<1>6. ASSUME NEW k \in Clerk, BackfillAccess(k) PROVE SilentInv'
  <2>1. Quiet(clerk[k]) /\ UNCHANGED <<profile, made, out, dep>> /\ Quiet([op |-> "none"])
    BY <1>6 DEF BackfillAccess, Quiet
  <2>2. Done(k) \/ \E rest : clerk' = [clerk EXCEPT ![k].todo = rest]
    BY <1>6 DEF BackfillAccess
  <2> QED BY <2>1, <2>2, TodoKeeps, GoesOnQuiet
<1>7. ASSUME NEW k \in Clerk,
             \/ GrantAccess(k) \/ EnsureProfileForAccess(k) \/ InsertClaim(k)
             \/ CheckUnused(k) \/ RemoveProfile(k) \/ RevokeAccess(k) \/ BackfillAccess(k)
      PROVE  SilentInv'
  BY <1>6, <1>7, GrantKeeps, InsertKeeps, CheckKeeps, RemoveKeeps, RemovalKeeps
<1> QED BY <1>1, <1>2, <1>3, <1>4, <1>5, <1>7, RevokeKeeps DEF AccessStep

LEMMA SilentBegins == DeploymentsInit => SilentInv
<1> SUFFICES ASSUME DeploymentsInit PROVE SilentInv
  OBVIOUS
<1>1. Super # NoAccount
  BY DeploymentsAssumption
<1>2. DeploymentTables
  BY DEF DeploymentsInit
<1>3. \A k \in Clerk : clerk[k] = Vacant
  BY <1>2 DEF DeploymentTables
<1>4. /\ Vacant.op = "none" /\ Vacant.by = NoAccount
  BY DEF Vacant
<1>5. ~ Placing(Vacant) /\ ~ Revoking(Vacant) /\ \A a, g : ~ Enters(Vacant, a, g)
  BY <1>4 DEF Placing, Revoking, Enters
<1>6. NoProfile \in ProfileRow /\ NoProfile.id = 0
  BY DEF NoProfile, ProfileRow
<1>7. profile \in [Account -> [Guild -> ProfileRow]] /\ \A a \in Account, g \in Guild : profile[a][g].id = 0
  BY <1>2, <1>6 DEF DeploymentTables
<1>8. out \in [Account -> [Guild -> {"in", "turning", "out"}]] /\ \A a \in Account, g \in Guild : out[a][g] = "in"
  BY <1>2 DEF DeploymentTables
<1>9. DeploymentsShaped
  BY <1>2, <1>3, <1>7, <1>8 DEF DeploymentTables, DeploymentsShaped
<1>10. made = 0
  BY <1>2 DEF DeploymentTables
<1>11. ProfilesNumbered
  BY <1>7, <1>10 DEF ProfilesNumbered
<1>12. ScopesOwned
  <2>1. \A d \in Deployment : dep[d].scope = 0
    BY <1>2 DEF DeploymentTables, NoRow
  <2> QED BY <1>10, <2>1 DEF ScopesOwned, OwnProfile
<1>13. ChoicesOwned /\ OneSuper
  BY <1>1, <1>3, <1>4, <1>5 DEF ChoicesOwned, OneSuper
<1>14. \A a \in Account \ {Super}, g \in Guild : TurnedOut(a, g)
  BY <1>8 DEF TurnedOut
<1> QED BY <1>9, <1>11, <1>12, <1>13, <1>14 DEF SilentInv

LEMMA SilentStep == SilentInv /\ [DeploymentsNext]_depVars => SilentInv'
<1> SUFFICES ASSUME SilentInv, [DeploymentsNext]_depVars PROVE SilentInv'
  OBVIOUS
<1>1. ASSUME NEW k \in Clerk, Interrupted(k) PROVE SilentInv'
  <2>1. Done(k) /\ UNCHANGED <<profile, made, out, dep>> /\ Quiet([op |-> "none"])
    BY <1>1 DEF Interrupted, accessVars, Quiet
  <2> QED BY <2>1, GoesOnQuiet
<1>2. ASSUME UNCHANGED depVars PROVE SilentInv'
  BY <1>2, IdleKeeps DEF depVars
<1> QED BY <1>1, <1>2, ConnectionKeeps, SyncKeeps, ExpressionKeeps, AccessKeeps, DeployKeeps, IdentityKeeps,
        LeaveKeeps DEF DeploymentsNext

\* An account that was turned out of a guild, and has not asked to come in since, speaks there
\* through none of its server-wide deployments, whatever other requests were under way and
\* wherever one of them was interrupted: revoke_server_access deletes the profile first, and
\* a scope names a profile of the owner of the deployment under an identifier never used again.
THEOREM TurnedOutIsSilent == DeploymentsSpec => []RevokedIsSilent
<1>1. SilentInv => RevokedIsSilent
  <2> SUFFICES ASSUME SilentInv, NEW a \in Account \ {Super}, NEW g \in Guild, NEW d \in Deployment,
                      NEW c \in Channel, out[a][g] = "out", dep[d].owner = a, dep[d].scope > 0,
                      Matches(d, g, c)
               PROVE  FALSE
    BY DEF RevokedIsSilent
  <2>1. dep[d].scope # 0
    OBVIOUS
  <2>2. PICK p \in Scoped(d) : p[2] = g
    BY <2>1 DEF Matches
  <2>3. p[1] \in Account /\ profile[p[1]][g].id = dep[d].scope
    BY <2>2 DEF Scoped
  <2>4. p[1] = a
    BY <2>3 DEF SilentInv, ScopesOwned, OwnProfile
  <2>5. profile[a][g].id = 0
    BY DEF SilentInv, TurnedOut
  <2> QED BY <2>1, <2>3, <2>4, <2>5
<1> QED BY <1>1, SilentBegins, SilentStep, PTL DEF DeploymentsSpec

=============================================================================
