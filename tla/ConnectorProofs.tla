---------------------------- MODULE ConnectorProofs ----------------------------
(***************************************************************************)
(* What reaches a room, for any number of jobs, workers, consumers, lines, *)
(* messages, bridges and faults.                                           *)
(*                                                                         *)
(* Turn jobs: a progress line is posted once at most, and so is the last   *)
(* word of a turn, a reply or an apology.  SpokenOnce is not inductive.  A *)
(* line is shown after its claim, and the claim looks only at the nonce of *)
(* the row: LinesFresh says that a line without a nonce, or one that is    *)
(* still to be published, was neither shown nor is held by a consumer.     *)
(* The last word is said after a grant (the notice of a failed job, the    *)
(* delivery claim of a succeeded one); LastWord says that a grant is held  *)
(* by one consumer who has not spoken, and RowsSound that a job never      *)
(* offers both grants.                                                     *)
(*                                                                         *)
(* Web rooms: the status of a message is true.  A bridge posts and later   *)
(* reports; what it will report must still be true then.  WebInv says so   *)
(* of every bridge whose claim stands (BridgeTrue), which is the one whose *)
(* nonce its row carries: a nonce is drawn once (BridgeNonces), a row that *)
(* nobody claimed has none (RowNonces), and a bridge whose row was deleted *)
(* or written again no longer counts.                                      *)
(*                                                                         *)
(* Ingress: the counters are right and turns begin in order.  PlacesTrue   *)
(* gives every message its place, in order and before what comes behind.   *)
(***************************************************************************)
EXTENDS TurnJobs, WebRooms, RoomIngress, FiniteSetTheorems, SequenceTheorems, WellFoundedInduction, TLAPS

\* A row has a delivery step only once its turn succeeded, and an apology was promised only
\* for one that failed; a row that was removed accepts nothing.
RowsSound ==
  \A j \in JobId :
    /\ job[j].step # "none" => job[j].status \in {"succeeded", "cancelled", "gone"}
    /\ job[j].step \in {"generated", "claimed"} => job[j].status = "succeeded"
    /\ job[j].notice => job[j].status \in Failed

\* Whoever may speak last for a job: the grant of an apology or of a delivery is used once.
Speaks(c, j) == consumer[c].job = j /\ consumer[c].pc \in {"sorry", "reply"}

LastWord ==
  \A j \in JobId :
    /\ \A c \in Consumer : Speaks(c, j) =>
         /\ said[j] = 0
         /\ \/ job[j].status = "gone"
            \/ consumer[c].pc = "sorry" /\ job[j].notice
            \/ consumer[c].pc = "reply" /\ job[j].step = "claimed"
    /\ \A c, d \in Consumer : Speaks(c, j) /\ Speaks(d, j) => c = d
    /\ said[j] <= 1
    /\ said[j] = 1 => \/ job[j].status = "gone" \/ job[j].notice
                      \/ job[j].step \in {"delivered", "uncertain"}

\* Whoever holds the claim of a progress line and has not shown it.
Shows(c, j, i) == consumer[c].pc = "show" /\ consumer[c].job = j /\ consumer[c].line = i

\* A line that nobody claimed, or that is still to be published, was shown by nobody and
\* is held by nobody.
LinesFresh ==
  \A j \in JobId : \A i \in 1 .. MaxLines :
    /\ (IF i \in 1 .. Len(line[j]) THEN line[j][i].nonce = 0 ELSE job[j].status # "gone")
         => shown[j][i] = 0 /\ \A c \in Consumer : ~Shows(c, j, i)
    /\ \A c \in Consumer : Shows(c, j, i) => shown[j][i] = 0
    /\ \A c, d \in Consumer : Shows(c, j, i) /\ Shows(d, j, i) => c = d
    /\ shown[j][i] <= 1

\* A consumer that is busy is busy with a job, and with a line of it.
Busy ==
  \A c \in Consumer :
    /\ consumer[c].pc # "away" => consumer[c].job # 0
    /\ consumer[c].pc = "show" => consumer[c].line # 0

(***************************************************************************)
(* Rows, lines and consumers                                               *)
(***************************************************************************)
ConsumerRow == [pc: {"away", "drain", "show", "tick", "decide", "notice", "sorry", "claim",
                     "reply"},
                job: JobId \cup {0}, view: JobStatus, ask: BOOLEAN, nonce: Nat,
                line: 0..MaxLines]

\* The shapes the step of every action needs, the histories included.
Typed ==
  /\ TurnJobTypeOK /\ Busy
  /\ nonces \in Nat
  /\ shown \in [JobId -> [1..MaxLines -> Nat]]
  /\ said \in [JobId -> Nat]

\* Every set of ordinals has a first one.
LEMMA FirstOf ==
  ASSUME NEW S \in SUBSET Nat, S # {}
  PROVE  \E x \in S : \A y \in S : x <= y
<1>1. IsWellFoundedOn(OpToRel(<, Nat), Nat)
  BY NatLessThanWellFounded
<1>2. PICK x \in S : \A y \in S : ~ (<<y, x>> \in OpToRel(<, Nat))
  BY <1>1, WFMin
<1>3. \A y \in S : ~ (y < x)
  BY <1>2 DEF OpToRel
<1> QED BY <1>3

\* The line that claim_progress looks at is a line.
LEMMA FirstUnackedIs ==
  ASSUME NEW j \in JobId, TurnJobTypeOK, Unacked(j) # {}
  PROVE  /\ FirstUnacked(j) \in Unacked(j)
         /\ FirstUnacked(j) \in 1 .. Len(line[j])
         /\ FirstUnacked(j) \in 1 .. MaxLines
<1>1. line[j] \in Seq(LineRow) /\ Len(line[j]) <= MaxLines /\ MaxLines \in Nat
  BY TurnJobAssumption DEF TurnJobTypeOK
<1>2. Unacked(j) \subseteq 1 .. Len(line[j]) /\ 1 .. Len(line[j]) \subseteq Nat
  BY <1>1 DEF Unacked
<1>3. \E i \in Unacked(j) : \A k \in Unacked(j) : i <= k
  BY <1>2, FirstOf
<1>4. FirstUnacked(j) \in Unacked(j)
  BY <1>3 DEF FirstUnacked
<1> QED BY <1>1, <1>2, <1>4

\* fail and get
LEMMA FailedRowIs ==
  ASSUME NEW row \in JobRow, NEW status \in Failed \cup {"cancelled"}
  PROVE  /\ FailedRow(row, status) \in JobRow
         /\ FailedRow(row, status).step = row.step
         /\ FailedRow(row, status).notice = row.notice
         /\ FailedRow(row, status).scope = row.scope
         /\ \/ row.status \notin Open /\ FailedRow(row, status).status = row.status
            \/ row.status \in Open /\ FailedRow(row, status).status = status
<1>1. CASE row.status \in Open
  <2>1. FailedRow(row, status) = [row EXCEPT !.status = status]
    BY <1>1 DEF FailedRow
  <2> QED BY <1>1, <2>1 DEF JobRow, JobStatus
<1>2. CASE row.status \notin Open
  BY <1>2 DEF FailedRow
<1> QED BY <1>1, <1>2

LEMMA SeenIs ==
  ASSUME TurnJobTypeOK, NEW j \in JobId
  PROVE  /\ Seen(j) \in JobRow
         /\ Seen(j).step = job[j].step /\ Seen(j).notice = job[j].notice
         /\ Seen(j).scope = job[j].scope
         /\ \/ Seen(j).status = job[j].status
            \/ job[j].status \in Open /\ Seen(j).status = "timed_out"
<1>1. job[j] \in JobRow
  BY DEF TurnJobTypeOK
<1> QED BY <1>1, FailedRowIs DEF Seen, Failed

\* complete
LEMMA CompletedRowIs ==
  ASSUME NEW row \in JobRow
  PROVE  /\ CompletedRow(row) \in JobRow /\ CompletedRow(row).notice = row.notice
         /\ \/ CompletedRow(row) = row
            \/ /\ row.status = "running" /\ CompletedRow(row).status = "timed_out"
               /\ CompletedRow(row).step = row.step
            \/ /\ row.status = "running" /\ CompletedRow(row).status = "succeeded"
               /\ CompletedRow(row).step = "generated"
<1>1. CASE row.status # "running"
  BY <1>1 DEF CompletedRow
<1>2. CASE row.status = "running" /\ row.due
  <2>1. CompletedRow(row) = [row EXCEPT !.status = "timed_out"]
    BY <1>2 DEF CompletedRow
  <2> QED BY <1>2, <2>1 DEF JobRow, JobStatus, Failed
<1>3. CASE row.status = "running" /\ ~row.due
  <2>1. CompletedRow(row) = [row EXCEPT !.status = "succeeded", !.step = "generated"]
    BY <1>3 DEF CompletedRow
  <2> QED BY <1>3, <2>1 DEF JobRow, JobStatus
<1> QED BY <1>1, <1>2, <1>3

\* What cleanup leaves of a row.
LEMMA RemovedIs ==
  ASSUME NEW row, row = [NoJobRow EXCEPT !.status = "gone", !.scope = FALSE]
  PROVE  row = [status |-> "gone", due |-> FALSE, notice |-> FALSE, scope |-> FALSE,
                step |-> "none"]
  BY DEF NoJobRow

\* A consumer that has just asked for a job.
LEMMA WaitingIs ==
  ASSUME NEW j \in JobId, NEW s \in JobStatus, NEW row,
         row = [Away EXCEPT !.pc = "drain", !.job = j, !.view = s]
  PROVE  row = [pc |-> "drain", job |-> j, view |-> s, ask |-> TRUE, nonce |-> 0, line |-> 0]
  BY DEF Away

LEMMA AwayIs == Away \in ConsumerRow
  BY TurnJobAssumption DEF Away, ConsumerRow, JobStatus

(***************************************************************************)
(* Types                                                                   *)
(***************************************************************************)
JobsTyped == job \in [JobId -> JobRow]
LinesTyped == line \in [JobId -> Seq(LineRow)] /\ \A j \in JobId : Len(line[j]) <= MaxLines
ManagerTyped ==
  /\ up \in BOOLEAN /\ owned \subseteq JobId
  /\ queue \in Seq(JobId) /\ Len(queue) <= MaxQueue
  /\ slot \in [WorkSlot -> JobId \cup {0}]
ConsumersTyped == consumer \in [Consumer -> ConsumerRow] /\ Busy
HistoryTyped ==
  /\ asked \subseteq Handler \X JobId /\ cursor \in JobId \cup {0} /\ orphan \subseteq JobId
  /\ nonces \in Nat
  /\ shown \in [JobId -> [1..MaxLines -> Nat]] /\ said \in [JobId -> Nat]
FaultsTyped == faults \in 0..MaxFault

LEMMA TypedParts ==
  Typed <=> JobsTyped /\ LinesTyped /\ ManagerTyped /\ ConsumersTyped /\ HistoryTyped /\ FaultsTyped
  BY DEF Typed, TurnJobTypeOK, JobsTyped, LinesTyped, ManagerTyped, ConsumersTyped,
         HistoryTyped, FaultsTyped, ConsumerRow

LEMMA TypedNext ==
  ASSUME JobsTyped', LinesTyped', ManagerTyped', ConsumersTyped', HistoryTyped', FaultsTyped'
  PROVE  Typed'
  BY DEF Typed, TurnJobTypeOK, JobsTyped, LinesTyped, ManagerTyped, ConsumersTyped,
         HistoryTyped, FaultsTyped, ConsumerRow

LEMMA FaultKeeps ==
  ASSUME FaultsTyped, Fault \/ UNCHANGED faults
  PROVE  FaultsTyped'
  BY TurnJobAssumption DEF FaultsTyped, Fault

LEMMA JobEdited ==
  ASSUME JobsTyped, NEW j, NEW row, j \in JobId => row \in JobRow,
         job' = [job EXCEPT ![j] = row]
  PROVE  JobsTyped'
  BY DEF JobsTyped

LEMMA ConsumerMoves ==
  ASSUME ConsumersTyped, NEW c \in Consumer, NEW row \in ConsumerRow,
         row.pc # "away" => row.job # 0, row.pc = "show" => row.line # 0,
         consumer' = [consumer EXCEPT ![c] = row]
  PROVE  ConsumersTyped'
  BY DEF ConsumersTyped, Busy

\* A consumer goes to another place of its program with the job it has, or goes away.
LEMMA PlainMoves ==
  ASSUME ConsumersTyped, NEW c \in Consumer, ~At(c, "away"),
         \/ \E pc \in {"drain", "tick", "decide", "notice", "sorry", "claim", "reply"} : Goto(c, pc)
         \/ NoProgress(c)
         \/ GoAway(c)
  PROVE  ConsumersTyped'
<1>1. consumer[c] \in ConsumerRow /\ consumer[c].job # 0
  BY DEF ConsumersTyped, Busy, At
<1>2. CASE GoAway(c)
  BY <1>2, AwayIs, ConsumerMoves DEF GoAway, Away
<1>3. ASSUME NEW pc \in {"drain", "tick", "decide", "notice", "sorry", "claim", "reply"},
             Goto(c, pc)
      PROVE  ConsumersTyped'
  <2>1. PICK row : row = [consumer[c] EXCEPT !.pc = pc]
    OBVIOUS
  <2>2. row \in ConsumerRow /\ row.pc = pc /\ row.job = consumer[c].job
    BY <1>1, <2>1 DEF ConsumerRow
  <2>3. consumer' = [consumer EXCEPT ![c] = row]
    BY <1>3, <2>1 DEF Goto
  <2> QED BY <1>1, <2>2, <2>3, ConsumerMoves
<1>4. CASE NoProgress(c)
  <2>1. PICK row : row = [consumer[c] EXCEPT !.pc = "decide", !.ask = FALSE]
    OBVIOUS
  <2>2. row \in ConsumerRow /\ row.pc = "decide" /\ row.job = consumer[c].job
    BY <1>1, <2>1 DEF ConsumerRow
  <2>3. consumer' = [consumer EXCEPT ![c] = row]
    BY <1>4, <2>1 DEF NoProgress, ConsumersTyped
  <2> QED BY <1>1, <2>2, <2>3, ConsumerMoves
<1> QED BY <1>2, <1>3, <1>4

\* A consumer starts to wait for a job.
LEMMA WaitMoves ==
  ASSUME ConsumersTyped, NEW c \in Consumer, NEW j \in JobId, NEW s \in JobStatus, Wait(c, j, s)
  PROVE  ConsumersTyped' /\ consumer'[c].pc = "drain" /\ \A d \in Consumer \ {c} : consumer'[d] = consumer[d]
<1>1. PICK row : row = [Away EXCEPT !.pc = "drain", !.job = j, !.view = s]
  OBVIOUS
<1>2. row = [pc |-> "drain", job |-> j, view |-> s, ask |-> TRUE, nonce |-> 0, line |-> 0]
  BY <1>1, WaitingIs
<1>3. row \in ConsumerRow
  BY <1>2, TurnJobAssumption DEF ConsumerRow
<1>4. consumer' = [consumer EXCEPT ![c] = row] /\ j # 0
  BY <1>1, TurnJobAssumption DEF Wait
<1>5. row.pc = "drain" /\ row.job = j
  BY <1>2
<1> QED BY <1>3, <1>4, <1>5, ConsumerMoves DEF ConsumersTyped

\* One row of a sequence of lines is edited.
LEMMA LineEdited ==
  ASSUME NEW s \in Seq(LineRow), NEW i \in 1 .. Len(s), NEW row \in LineRow
  PROVE  /\ [s EXCEPT ![i] = row] \in Seq(LineRow)
         /\ Len([s EXCEPT ![i] = row]) = Len(s)
         /\ [s EXCEPT ![i] = row][i] = row
         /\ \A x \in 1 .. Len(s) : x # i => [s EXCEPT ![i] = row][x] = s[x]
  OBVIOUS

LEMMA TypedInit == TurnJobInit => Typed
<1> SUFFICES ASSUME TurnJobInit PROVE Typed
  OBVIOUS
<1> USE TurnJobAssumption DEF TurnJobInit
<1>1. JobsTyped
  BY DEF JobsTyped, NoJobRow, JobRow, JobStatus
<1>2. LinesTyped /\ ManagerTyped
  BY DEF LinesTyped, ManagerTyped
<1>3. ConsumersTyped
  <2>1. consumer \in [Consumer -> ConsumerRow]
    BY AwayIs
  <2>2. \A c \in Consumer : consumer[c].pc = "away"
    BY DEF Away
  <2> QED BY <2>1, <2>2 DEF ConsumersTyped, Busy
<1>4. HistoryTyped /\ FaultsTyped
  BY DEF HistoryTyped, FaultsTyped
<1> QED BY <1>1, <1>2, <1>3, <1>4, TypedParts

\* claim_progress
LEMMA ClaimedLine ==
  ASSUME Typed, NEW j \in JobId, Claimable(j),
         line' = [line EXCEPT ![j][FirstUnacked(j)].nonce = nonces + 1]
  PROVE  /\ LinesTyped'
         /\ FirstUnacked(j) \in 1 .. Len(line[j]) /\ FirstUnacked(j) \in 1 .. MaxLines
         /\ line[j][FirstUnacked(j)].nonce = 0
         /\ \A k \in JobId : Len(line'[k]) = Len(line[k])
         /\ line'[j][FirstUnacked(j)].nonce = nonces + 1
         /\ \A k \in JobId : \A x \in 1 .. Len(line[k]) :
              k # j \/ x # FirstUnacked(j) => line'[k][x] = line[k][x]
<1> DEFINE i == FirstUnacked(j)
<1>1. i \in 1 .. Len(line[j]) /\ i \in 1 .. MaxLines /\ line[j][i].nonce = 0
  BY FirstUnackedIs DEF Typed, Claimable
<1>2. line[j] \in Seq(LineRow) /\ nonces + 1 \in Nat
  BY DEF Typed, TurnJobTypeOK
<1>3. PICK row : row = [line[j][i] EXCEPT !.nonce = nonces + 1]
  OBVIOUS
<1>a. line[j][i] \in LineRow
  BY <1>1, <1>2
<1>4. row \in LineRow /\ row.nonce = nonces + 1
  BY <1>2, <1>3, <1>a DEF LineRow
<1> HIDE DEF i
<1>5. line' = [line EXCEPT ![j] = [line[j] EXCEPT ![i] = row]]
  BY <1>3 DEF i
<1>6. line \in [JobId -> Seq(LineRow)] /\ \A k \in JobId : Len(line[k]) <= MaxLines
  BY TypedParts DEF LinesTyped
<1>7. /\ line' \in [JobId -> Seq(LineRow)]
      /\ \A k \in JobId : Len(line'[k]) = Len(line[k])
      /\ line'[j][i] = row
      /\ \A k \in JobId : \A x \in 1 .. Len(line[k]) : k # j \/ x # i => line'[k][x] = line[k][x]
  <2>1. /\ line'[j] = [line[j] EXCEPT ![i] = row] /\ DOMAIN line' = JobId
        /\ \A k \in JobId \ {j} : line'[k] = line[k]
    BY <1>5, <1>6
  <2>2. /\ line'[j] \in Seq(LineRow) /\ Len(line'[j]) = Len(line[j]) /\ line'[j][i] = row
        /\ \A x \in 1 .. Len(line[j]) : x # i => line'[j][x] = line[j][x]
    <3>1. PICK s : s = line[j]
      OBVIOUS
    <3>2. s \in Seq(LineRow) /\ i \in 1 .. Len(s) /\ row \in LineRow
      BY <1>1, <1>2, <1>4, <3>1
    <3>3. /\ [s EXCEPT ![i] = row] \in Seq(LineRow)
          /\ Len([s EXCEPT ![i] = row]) = Len(s)
          /\ [s EXCEPT ![i] = row][i] = row
          /\ \A x \in 1 .. Len(s) : x # i => [s EXCEPT ![i] = row][x] = s[x]
      BY <3>2, LineEdited
    <3>4. line'[j] = [s EXCEPT ![i] = row]
      BY <2>1, <3>1
    <3> QED BY <3>1, <3>3, <3>4, Zenon
  <2>3. \A k \in JobId : line'[k] \in Seq(LineRow) /\ Len(line'[k]) = Len(line[k])
    BY <1>6, <2>1, <2>2
  <2>4. line' \in [JobId -> Seq(LineRow)]
    <3>1. line' = [k \in JobId |-> line'[k]]
      BY <1>5, <1>6
    <3> QED BY <2>3, <3>1
  <2> QED BY <2>1, <2>2, <2>3, <2>4
<1>8. LinesTyped'
  BY <1>6, <1>7 DEF LinesTyped
<1> QED BY <1>1, <1>4, <1>7, <1>8 DEF i

\* acknowledge_progress
LEMMA AckedLine ==
  ASSUME Typed, NEW j \in JobId, NEW i \in DOMAIN line[j],
         line' = [line EXCEPT ![j][i].acked = TRUE]
  PROVE  /\ LinesTyped'
         /\ \A k \in JobId : Len(line'[k]) = Len(line[k])
         /\ \A k \in JobId : \A x \in 1 .. Len(line[k]) : line'[k][x].nonce = line[k][x].nonce
<1>1. line[j] \in Seq(LineRow) /\ i \in 1 .. Len(line[j])
  BY DEF Typed, TurnJobTypeOK
<1>2. PICK row : row = [line[j][i] EXCEPT !.acked = TRUE]
  OBVIOUS
<1>a. line[j][i] \in LineRow
  BY <1>1
<1>3. row \in LineRow /\ row.nonce = line[j][i].nonce
  BY <1>2, <1>a DEF LineRow
<1>4. line' = [line EXCEPT ![j] = [line[j] EXCEPT ![i] = row]]
  BY <1>2
<1>5. line \in [JobId -> Seq(LineRow)] /\ \A k \in JobId : Len(line[k]) <= MaxLines
  BY TypedParts DEF LinesTyped
<1>6. /\ line' \in [JobId -> Seq(LineRow)]
      /\ \A k \in JobId : Len(line'[k]) = Len(line[k])
      /\ line'[j][i] = row
      /\ \A k \in JobId : \A x \in 1 .. Len(line[k]) : k # j \/ x # i => line'[k][x] = line[k][x]
  <2>1. /\ line'[j] = [line[j] EXCEPT ![i] = row] /\ DOMAIN line' = JobId
        /\ \A k \in JobId \ {j} : line'[k] = line[k]
    BY <1>4, <1>5
  <2>2. /\ line'[j] \in Seq(LineRow) /\ Len(line'[j]) = Len(line[j]) /\ line'[j][i] = row
        /\ \A x \in 1 .. Len(line[j]) : x # i => line'[j][x] = line[j][x]
    <3>1. PICK s : s = line[j]
      OBVIOUS
    <3>2. s \in Seq(LineRow) /\ i \in 1 .. Len(s) /\ row \in LineRow
      BY <1>1, <1>1, <1>3, <3>1
    <3>3. /\ [s EXCEPT ![i] = row] \in Seq(LineRow)
          /\ Len([s EXCEPT ![i] = row]) = Len(s)
          /\ [s EXCEPT ![i] = row][i] = row
          /\ \A x \in 1 .. Len(s) : x # i => [s EXCEPT ![i] = row][x] = s[x]
      BY <3>2, LineEdited
    <3>4. line'[j] = [s EXCEPT ![i] = row]
      BY <2>1, <3>1
    <3> QED BY <3>1, <3>3, <3>4, Zenon
  <2>3. \A k \in JobId : line'[k] \in Seq(LineRow) /\ Len(line'[k]) = Len(line[k])
    BY <1>5, <2>1, <2>2
  <2>4. line' \in [JobId -> Seq(LineRow)]
    <3>1. line' = [k \in JobId |-> line'[k]]
      BY <1>4, <1>5
    <3> QED BY <2>3, <3>1
  <2> QED BY <2>1, <2>2, <2>3, <2>4
<1>7. LinesTyped'
  BY <1>5, <1>6 DEF LinesTyped
<1> QED BY <1>3, <1>6, <1>7

\* The Core: the manager, the owner and the clock.
ManagerStep ==
  \/ \E w \in WorkSlot : TakeJob(w) \/ PublishProgress(w) \/ Runner(w)
  \/ \E j \in JobId : CancelJob(j) \/ RemoveJob(j) \/ Deadline(j) \/ ScopeEnds(j)
  \/ StopManager \/ CrashManager \/ StartManager \/ Maintain

LEMMA ManagerTypes == Typed /\ ManagerStep => Typed'
<1> SUFFICES ASSUME Typed, ManagerStep PROVE Typed'
  OBVIOUS
<1> USE TurnJobAssumption
<1>0. /\ JobsTyped /\ LinesTyped /\ ManagerTyped /\ ConsumersTyped /\ HistoryTyped /\ FaultsTyped
      /\ TurnJobTypeOK /\ \A j \in JobId : job[j] \in JobRow /\ Seen(j) \in JobRow
  BY TypedParts, SeenIs DEF Typed, JobsTyped
<1> DEFINE Calm == UNCHANGED <<consumer, asked, cursor, nonces, shown, said>>
<1>a. ASSUME Calm, orphan' \subseteq JobId PROVE ConsumersTyped' /\ HistoryTyped'
  BY <1>0, <1>a DEF ConsumersTyped, HistoryTyped, Busy
<1>b. ASSUME UNCHANGED jobManager PROVE ManagerTyped'
  BY <1>0, <1>b DEF ManagerTyped, jobManager
<1>c. ASSUME UNCHANGED line PROVE LinesTyped'
  BY <1>0, <1>c DEF LinesTyped
<1>d. orphan \subseteq JobId
  BY <1>0 DEF HistoryTyped
<1>1. ASSUME NEW w \in WorkSlot, TakeJob(w) PROVE Typed'
  <2> DEFINE j == Head(queue)
  <2>1. /\ queue # << >> /\ queue' = Tail(queue)
        /\ slot' = [slot EXCEPT ![w] = j] \/ slot' = [slot EXCEPT ![w] = 0]
        /\ owned' \subseteq owned /\ up' = up
        /\ Calm /\ UNCHANGED <<line, orphan, faults>>
    BY <1>1 DEF TakeJob
  <2>2. j \in JobId /\ queue' \in Seq(JobId) /\ Len(queue') <= MaxQueue
    BY <1>0, <2>1 DEF ManagerTyped
  <2>3. PICK row : /\ job' = [job EXCEPT ![j] = row]
                   /\ \/ row = job[j]
                      \/ row = [job[j] EXCEPT !.status = "timed_out"]
                      \/ row = [job[j] EXCEPT !.status = "running"]
    BY <1>1 DEF TakeJob
  <2>4. row \in JobRow
    BY <1>0, <2>2, <2>3 DEF JobRow, JobStatus, Open, Failed
  <2>5. JobsTyped'
    BY <1>0, <2>3, <2>4, JobEdited
  <2>6. ManagerTyped'
    BY <1>0, <2>1, <2>2 DEF ManagerTyped
  <2> QED BY <1>0, <1>a, <1>c, <1>d, <2>1, <2>5, <2>6, FaultKeeps, TypedNext
<1>2. ASSUME NEW w \in WorkSlot, PublishProgress(w) PROVE Typed'
  <2> DEFINE j == slot[w]
             row == [nonce |-> 0, acked |-> FALSE]
  <2>1. j \in JobId /\ Len(line[j]) < MaxLines /\ line' = [line EXCEPT ![j] = Append(line[j], row)]
    BY <1>0, <1>2 DEF PublishProgress, ManagerTyped, LinesTyped
  <2>2. line[j] \in Seq(LineRow) /\ row \in LineRow
    BY <1>0, <2>1 DEF LinesTyped, LineRow
  <2>3. Append(line[j], row) \in Seq(LineRow) /\ Len(Append(line[j], row)) = Len(line[j]) + 1
    BY <2>2
  <2>4. Len(line[j]) + 1 <= MaxLines
    BY <2>1, <2>2
  <2> HIDE DEF row
  <2>5. LinesTyped'
    BY <1>0, <2>1, <2>3, <2>4 DEF LinesTyped
  <2>6. /\ Calm /\ UNCHANGED <<job, jobManager, orphan, faults>>
    BY <1>2 DEF PublishProgress
  <2> QED BY <1>0, <1>a, <1>b, <1>d, <2>5, <2>6, FaultKeeps, TypedNext DEF JobsTyped
<1>3. ASSUME NEW w \in WorkSlot, Runner(w) PROVE Typed'
  <2>1. PICK row : /\ slot[w] # 0 /\ EndsWith(w, row)
                   /\ row \in {CompletedRow(job[slot[w]]), FailedRow(job[slot[w]], "failed"),
                               FailedRow(job[slot[w]], "timed_out")}
    BY <1>3 DEF Runner, RunnerReturns, RunnerRaises, RunnerTimesOut
  <2>2. slot[w] \in JobId
    BY <1>0, <2>1 DEF ManagerTyped
  <2>a. job[slot[w]] \in JobRow
    BY <1>0, <2>2
  <2>b. /\ CompletedRow(job[slot[w]]) \in JobRow /\ FailedRow(job[slot[w]], "failed") \in JobRow
        /\ FailedRow(job[slot[w]], "timed_out") \in JobRow
    BY <2>a, CompletedRowIs, FailedRowIs DEF Failed
  <2>3. row \in JobRow
    BY <2>1, <2>b
  <2>4. JobsTyped'
    BY <1>0, <2>1, <2>3, JobEdited DEF EndsWith
  <2>5. ManagerTyped'
    BY <1>0, <2>1 DEF EndsWith, ManagerTyped
  <2>6. /\ Calm /\ UNCHANGED <<line, orphan, faults>>
    BY <2>1 DEF EndsWith
  <2> QED BY <1>0, <1>a, <1>c, <1>d, <2>4, <2>5, <2>6, FaultKeeps, TypedNext
<1>4. ASSUME NEW j \in JobId, CancelJob(j) PROVE Typed'
  <2>1. /\ Calm /\ UNCHANGED <<line, jobManager, orphan, faults>>
    BY <1>4 DEF CancelJob
  <2>2. PICK row : /\ job' = [job EXCEPT ![j] = row]
                   /\ \/ row = FailedRow(job[j], "cancelled")
                      \/ row = [job[j] EXCEPT !.status = "cancelled", !.step = "failed"]
    BY <1>0, <1>4 DEF CancelJob, FailRow, JobsTyped
  <2>a. job[j] \in JobRow
    BY <1>0
  <2>b. FailedRow(job[j], "cancelled") \in JobRow
    BY <2>a, FailedRowIs
  <2>c. [job[j] EXCEPT !.status = "cancelled", !.step = "failed"] \in JobRow
    BY <2>a DEF JobRow, JobStatus
  <2>3. row \in JobRow
    BY <2>2, <2>b, <2>c
  <2>4. JobsTyped'
    BY <1>0, <2>2, <2>3, JobEdited
  <2> QED BY <1>0, <1>a, <1>b, <1>c, <1>d, <2>1, <2>4, FaultKeeps, TypedNext
<1>5. ASSUME NEW j \in JobId, RemoveJob(j) PROVE Typed'
  <2>1. /\ Calm /\ UNCHANGED <<jobManager, orphan>> /\ Fault
        /\ line' = [line EXCEPT ![j] = << >>]
    BY <1>5 DEF RemoveJob
  <2>2. PICK row : row = [NoJobRow EXCEPT !.status = "gone", !.scope = FALSE]
    OBVIOUS
  <2>3. row = [status |-> "gone", due |-> FALSE, notice |-> FALSE, scope |-> FALSE,
               step |-> "none"]
    BY <2>2, RemovedIs
  <2>a. row \in JobRow
    BY <2>3 DEF JobRow, JobStatus
  <2>4. row \in JobRow /\ job' = [job EXCEPT ![j] = row]
    BY <1>5, <2>2, <2>a DEF RemoveJob
  <2>5. JobsTyped'
    BY <1>0, <2>4, JobEdited
  <2>6. LinesTyped'
    BY <1>0, <2>1 DEF LinesTyped
  <2> QED BY <1>0, <1>a, <1>b, <1>d, <2>1, <2>5, <2>6, FaultKeeps, TypedNext
<1>6. ASSUME NEW j \in JobId, Deadline(j) \/ ScopeEnds(j) PROVE Typed'
  <2>1. /\ Calm /\ UNCHANGED <<line, jobManager, orphan>> /\ (Fault \/ UNCHANGED faults)
    BY <1>6 DEF Deadline, ScopeEnds
  <2>2. [job EXCEPT ![j].due = TRUE] \in [JobId -> JobRow]
    BY <1>0 DEF JobsTyped, JobRow
  <2>3. [job EXCEPT ![j].scope = FALSE] \in [JobId -> JobRow]
    BY <1>0 DEF JobsTyped, JobRow
  <2>4. JobsTyped'
    BY <1>6, <2>2, <2>3 DEF Deadline, ScopeEnds, JobsTyped
  <2> QED BY <1>0, <1>a, <1>b, <1>c, <1>d, <2>1, <2>4, FaultKeeps, TypedNext
<1>7. ASSUME StopManager \/ CrashManager \/ StartManager \/ Maintain PROVE Typed'
  <2>1. Calm /\ UNCHANGED line /\ (Fault \/ UNCHANGED faults)
    BY <1>7 DEF StopManager, CrashManager, StartManager, Maintain, jobTables
  <2>2. orphan' \subseteq JobId
    BY <1>7, <1>d DEF StopManager, CrashManager, StartManager, Maintain
  <2>3. ManagerTyped'
    <3>1. /\ queue' \in {queue, << >>} /\ owned' \in {owned, {}} /\ up' \in BOOLEAN
          /\ slot' = slot \/ slot' = [w \in WorkSlot |-> 0]
      BY <1>0, <1>7 DEF StopManager, CrashManager, StartManager, Maintain, jobManager, ManagerTyped
    <3>2. << >> \in Seq(JobId) /\ Len(<< >>) = 0
      OBVIOUS
    <3>3. queue' \in Seq(JobId) /\ Len(queue') <= MaxQueue
      <4>1. CASE queue' = queue
        BY <1>0, <4>1 DEF ManagerTyped
      <4>2. CASE queue' = << >>
        BY <3>2, <4>2
      <4> QED BY <3>1, <4>1, <4>2
    <3>4. slot' \in [WorkSlot -> JobId \cup {0}]
      BY <1>0, <3>1 DEF ManagerTyped
    <3> QED BY <1>0, <3>1, <3>3, <3>4 DEF ManagerTyped
  <2>4. JobsTyped'
    <3>1. CASE StopManager
      <4>1. \A j \in JobId : FailedRow(job[j], "stopped") \in JobRow
        BY <1>0, FailedRowIs DEF Failed
      <4> QED BY <1>0, <3>1, <4>1 DEF StopManager, JobsTyped
    <3>2. CASE CrashManager
      BY <1>0, <3>2 DEF CrashManager, jobTables, JobsTyped
    <3>3. CASE StartManager \/ Maintain
      BY <1>0, <3>3 DEF StartManager, Maintain, ExpireDeadlines, JobsTyped
    <3> QED BY <1>7, <3>1, <3>2, <3>3
  <2> QED BY <1>0, <1>a, <1>c, <2>1, <2>2, <2>3, <2>4, FaultKeeps, TypedNext
<1> QED BY <1>1, <1>2, <1>3, <1>4, <1>5, <1>6, <1>7 DEF ManagerStep

\* Handlers and recovery tasks.
ConsumerStep ==
  \/ \E c \in Handler, j \in JobId : SubmitTurn(c, j)
  \/ \E c \in Recoverer : Scan(c)
  \/ \E c \in Consumer : Progress(c) \/ Ending(c) \/ ClaimProgressLost(c) \/ ConsumerEnds(c)

LEMMA BusyIs ==
  ASSUME Typed, NEW c \in Consumer, ~At(c, "away")
  PROVE  /\ consumer[c].job \in JobId /\ job[consumer[c].job] \in JobRow
         /\ consumer[c].line \in 0 .. MaxLines
         /\ At(c, "show") => consumer[c].line \in 1 .. MaxLines
<1>1. consumer[c] \in ConsumerRow /\ consumer[c].job # 0
  BY TypedParts DEF ConsumersTyped, Busy, At
<1>2. consumer[c].job \in JobId /\ consumer[c].line \in 0 .. MaxLines
  BY <1>1 DEF ConsumerRow
<1>3. At(c, "show") => consumer[c].line # 0
  BY DEF Typed, Busy, At
<1>4. job[consumer[c].job] \in JobRow
  BY <1>2, TypedParts DEF JobsTyped
<1> QED BY <1>2, <1>3, <1>4, TurnJobAssumption

\* A consumer draws the claim of a line.
LEMMA DrawIs ==
  ASSUME Typed, NEW c \in Consumer, ~At(c, "away"), NEW i \in 1 .. MaxLines,
         consumer' = [consumer EXCEPT ![c].pc = "show", ![c].nonce = nonces + 1, ![c].line = i]
  PROVE  /\ ConsumersTyped'
         /\ consumer'[c].pc = "show" /\ consumer'[c].job = consumer[c].job
         /\ consumer'[c].line = i /\ \A d \in Consumer \ {c} : consumer'[d] = consumer[d]
<1>1. consumer[c] \in ConsumerRow /\ consumer[c].job # 0 /\ nonces + 1 \in Nat /\ ConsumersTyped
      /\ consumer \in [Consumer -> ConsumerRow]
  BY TypedParts DEF ConsumersTyped, Busy, At, HistoryTyped
<1>2. PICK row : row = [consumer[c] EXCEPT !.pc = "show", !.nonce = nonces + 1, !.line = i]
  OBVIOUS
<1>3. i \in 0 .. MaxLines /\ i # 0
  BY TurnJobAssumption
<1>4. /\ row \in ConsumerRow /\ row.pc = "show" /\ row.job = consumer[c].job /\ row.line = i
  BY <1>1, <1>2, <1>3 DEF ConsumerRow
<1>5. consumer' = [consumer EXCEPT ![c] = row]
  BY <1>1, <1>2
<1>6. ConsumersTyped'
  BY <1>1, <1>3, <1>4, <1>5, ConsumerMoves
<1> QED BY <1>1, <1>4, <1>5, <1>6

\* A flag or a step written into the row of a job leaves a table of jobs.
LEMMA RowWritten ==
  ASSUME JobsTyped, NEW j \in JobId
  PROVE  /\ [job EXCEPT ![j].notice = TRUE] \in [JobId -> JobRow]
         /\ \A s \in {"claimed", "delivered", "uncertain"} :
              [job EXCEPT ![j].step = s] \in [JobId -> JobRow]
<1>1. job \in [JobId -> JobRow] /\ job[j] \in JobRow
  BY DEF JobsTyped
<1>2. [job EXCEPT ![j].notice = TRUE] \in [JobId -> JobRow]
  <2>1. PICK row : row = [job[j] EXCEPT !.notice = TRUE]
    OBVIOUS
  <2>2. row \in JobRow
    BY <1>1, <2>1 DEF JobRow
  <2> QED BY <1>1, <2>1, <2>2
<1>3. ASSUME NEW s \in {"claimed", "delivered", "uncertain"}
      PROVE  [job EXCEPT ![j].step = s] \in [JobId -> JobRow]
  <2>1. PICK row : row = [job[j] EXCEPT !.step = s]
    OBVIOUS
  <2>2. row \in JobRow
    BY <1>1, <2>1 DEF JobRow
  <2> QED BY <1>1, <2>1, <2>2
<1> QED BY <1>2, <1>3

LEMMA ConsumerTypes == Typed /\ ConsumerStep => Typed'
<1> SUFFICES ASSUME Typed, ConsumerStep PROVE Typed'
  OBVIOUS
<1> USE TurnJobAssumption
<1>0. /\ JobsTyped /\ LinesTyped /\ ManagerTyped /\ ConsumersTyped /\ HistoryTyped /\ FaultsTyped
      /\ TurnJobTypeOK /\ \A j \in JobId : job[j] \in JobRow /\ Seen(j) \in JobRow
  BY TypedParts, SeenIs DEF Typed, JobsTyped
<1>b. ASSUME UNCHANGED jobManager PROVE ManagerTyped'
  BY <1>0, <1>b DEF ManagerTyped, jobManager
<1>c. ASSUME UNCHANGED line PROVE LinesTyped'
  BY <1>0, <1>c DEF LinesTyped
<1>d. ASSUME UNCHANGED job PROVE JobsTyped'
  BY <1>0, <1>d DEF JobsTyped
<1>e. ASSUME UNCHANGED <<asked, cursor, orphan, nonces, shown, said>> PROVE HistoryTyped'
  BY <1>0, <1>e DEF HistoryTyped
<1>f. \A j \in JobId : Seen(j).status \in JobStatus /\ job[j].status \in JobStatus
  BY <1>0 DEF JobRow
<1>1. ASSUME NEW c \in Handler, NEW j \in JobId, SubmitTurn(c, j) PROVE Typed'
  <2> c \in Consumer
    BY DEF Consumer
  <2>1. /\ UNCHANGED <<line, up, slot, cursor, nonces, orphan, shown, said, faults>>
        /\ asked' = asked \cup {<<c, j>>}
    BY <1>1 DEF SubmitTurn
  <2>2. HistoryTyped'
    BY <1>0, <2>1 DEF HistoryTyped
  <2>3. CASE job[j].status # "none"
    <3>1. /\ job' = [job EXCEPT ![j] = Seen(j)] /\ Wait(c, j, Seen(j).status)
          /\ UNCHANGED <<queue, owned>>
      BY <1>1, <2>3 DEF SubmitTurn
    <3>2. JobsTyped'
      BY <1>0, <3>1, JobEdited
    <3>3. ConsumersTyped'
      BY <1>0, <1>f, <3>1, WaitMoves
    <3> QED BY <1>0, <1>b, <1>c, <2>1, <2>2, <3>1, <3>2, <3>3, FaultKeeps, TypedNext DEF jobManager
  <2>4. CASE job[j].status = "none"
    <3>1. /\ Len(queue) < MaxQueue /\ job' = [job EXCEPT ![j].status = "queued"]
          /\ queue' = Append(queue, j) /\ owned' = owned \cup {j} /\ Wait(c, j, "queued")
      BY <1>1, <2>4 DEF SubmitTurn, CanAccept
    <3>2. JobsTyped'
      BY <1>0, <3>1, SMTT(60) DEF JobsTyped, JobRow, JobStatus, Open
    <3>3. ConsumersTyped'
      <4>1. "queued" \in JobStatus
        BY DEF JobStatus, Open
      <4> QED BY <1>0, <3>1, <4>1, WaitMoves
    <3>4. queue' \in Seq(JobId) /\ Len(queue') <= MaxQueue
      BY <1>0, <3>1 DEF ManagerTyped
    <3>5. ManagerTyped'
      BY <1>0, <2>1, <3>1, <3>4 DEF ManagerTyped
    <3> QED BY <1>0, <1>c, <2>1, <2>2, <3>2, <3>3, <3>5, FaultKeeps, TypedNext
  <2> QED BY <2>3, <2>4
<1>2. ASSUME NEW c \in Recoverer, Scan(c) PROVE Typed'
  <2> c \in Consumer
    BY DEF Consumer
  <2> DEFINE page == {k \in JobId : k > cursor /\ Recoverable(k)}
             j == CHOOSE k \in page : \A m \in page : k <= m
  <2>1. UNCHANGED <<line, jobManager, asked, nonces, orphan, shown, said, faults>>
    BY <1>2 DEF Scan
  <2>2. CASE page = {}
    <3>1. cursor' = 0 /\ UNCHANGED <<job, consumer>>
      BY <1>2, <2>2 DEF Scan
    <3>2. HistoryTyped' /\ ConsumersTyped'
      BY <1>0, <2>1, <3>1 DEF HistoryTyped, ConsumersTyped, Busy
    <3> QED BY <1>0, <1>b, <1>c, <1>d, <2>1, <3>1, <3>2, FaultKeeps, TypedNext
  <2>3. CASE page # {}
    <3>0. page \subseteq Nat
      OBVIOUS
    <3>1. j \in JobId
      BY <2>3, <3>0, FirstOf
    <3>2. /\ cursor' = j /\ job' = [job EXCEPT ![j] = Seen(j)]
          /\ Wait(c, j, Seen(j).status) \/ UNCHANGED consumer
      BY <1>2, <2>3 DEF Scan
    <3> HIDE DEF j
    <3>3. JobsTyped'
      BY <1>0, <3>1, <3>2, JobEdited
    <3>4. ConsumersTyped'
      <4>1. CASE UNCHANGED consumer
        BY <1>0, <4>1 DEF ConsumersTyped, Busy
      <4>2. CASE Wait(c, j, Seen(j).status)
        BY <1>0, <1>f, <3>1, <4>2, WaitMoves
      <4> QED BY <3>2, <4>1, <4>2
    <3>5. HistoryTyped'
      BY <1>0, <2>1, <3>1, <3>2 DEF HistoryTyped
    <3> QED BY <1>0, <1>b, <1>c, <2>1, <3>3, <3>4, <3>5, FaultKeeps, TypedNext
  <2> QED BY <2>2, <2>3
<1>3. ASSUME NEW c \in Consumer, ClaimProgress(c) PROVE Typed'
  <2> DEFINE j == consumer[c].job
  <2>1. ~At(c, "away") /\ job' = [job EXCEPT ![j] = Seen(j)]
        /\ UNCHANGED <<jobManager, asked, cursor, orphan, shown, said, faults>>
    BY <1>3 DEF ClaimProgress, At
  <2>2. j \in JobId
    BY <2>1, BusyIs
  <2>3. JobsTyped'
    BY <1>0, <2>1, <2>2, JobEdited
  <2>4. CASE NoProgress(c) /\ UNCHANGED <<line, nonces>>
    BY <1>0, <1>b, <1>c, <1>e, <2>1, <2>3, <2>4, PlainMoves, FaultKeeps, TypedNext
  <2>5. CASE Goto(c, "decide") /\ UNCHANGED <<line, nonces>>
    BY <1>0, <1>b, <1>c, <1>e, <2>1, <2>3, <2>5, PlainMoves, FaultKeeps, TypedNext
  <2>6. ASSUME Claimable(j), nonces' = nonces + 1,
               line' = [line EXCEPT ![j][FirstUnacked(j)].nonce = nonces + 1],
               consumer' = [consumer EXCEPT ![c].pc = "show", ![c].nonce = nonces + 1,
                                            ![c].line = FirstUnacked(j)]
        PROVE  Typed'
    <3>1. LinesTyped' /\ FirstUnacked(j) \in 1 .. MaxLines
      BY <2>2, <2>6, ClaimedLine
    <3>2. ConsumersTyped'
      BY <2>1, <2>6, <3>1, DrawIs
    <3>3. HistoryTyped'
      BY <1>0, <2>1, <2>6 DEF HistoryTyped
    <3> QED BY <1>0, <1>b, <2>1, <2>3, <3>1, <3>2, <3>3, FaultKeeps, TypedNext
  <2> QED BY <1>3, <2>4, <2>5, <2>6 DEF ClaimProgress
<1>4. ASSUME NEW c \in Consumer, ClaimProgressLost(c) PROVE Typed'
  <2> DEFINE j == consumer[c].job
  <2>1. /\ ~At(c, "away") /\ Fault /\ NoProgress(c)
        /\ UNCHANGED <<job, jobManager, asked, cursor, orphan, shown, said>>
    BY <1>4 DEF ClaimProgressLost, At
  <2>2. j \in JobId
    BY <2>1, BusyIs
  <2>3. ConsumersTyped'
    BY <1>0, <2>1, PlainMoves
  <2>4. CASE UNCHANGED <<line, nonces>>
    BY <1>0, <1>b, <1>c, <1>d, <1>e, <2>1, <2>3, <2>4, FaultKeeps, TypedNext
  <2>5. ASSUME Claimable(j), nonces' = nonces + 1,
               line' = [line EXCEPT ![j][FirstUnacked(j)].nonce = nonces + 1]
        PROVE  Typed'
    <3>1. LinesTyped'
      BY <2>2, <2>5, ClaimedLine
    <3>2. HistoryTyped'
      BY <1>0, <2>1, <2>5 DEF HistoryTyped
    <3> QED BY <1>0, <1>b, <1>d, <2>1, <2>3, <3>1, <3>2, FaultKeeps, TypedNext
  <2> QED BY <1>4, <2>4, <2>5 DEF ClaimProgressLost
<1>5. ASSUME NEW c \in Consumer, ShowLine(c) PROVE Typed'
  <2> DEFINE j == consumer[c].job
             i == consumer[c].line
  <2>1. /\ ~At(c, "away") /\ At(c, "show") /\ (Fault \/ UNCHANGED faults)
        /\ UNCHANGED <<job, line, jobManager, asked, cursor, nonces, orphan, said>>
        /\ Goto(c, "tick") \/ NoProgress(c)
        /\ shown' = [shown EXCEPT ![j][i] = @ + 1]
    BY <1>5 DEF ShowLine, At, jobTables
  <2>2. j \in JobId /\ i \in 1 .. MaxLines
    BY <2>1, BusyIs
  <2>3. ConsumersTyped'
    BY <1>0, <2>1, PlainMoves
  <2>a. shown[j] \in [1 .. MaxLines -> Nat] /\ shown[j][i] \in Nat
    BY <1>0, <2>2 DEF HistoryTyped
  <2>4. shown[j][i] + 1 \in Nat
    BY <2>a
  <2>5. shown' \in [JobId -> [1 .. MaxLines -> Nat]]
    BY <1>0, <2>1, <2>2, <2>a, <2>4 DEF HistoryTyped
  <2>6. HistoryTyped'
    BY <1>0, <2>1, <2>5 DEF HistoryTyped
  <2> QED BY <1>0, <1>b, <1>c, <1>d, <2>1, <2>3, <2>6, FaultKeeps, TypedNext
<1>6. ASSUME NEW c \in Consumer, AcknowledgeProgress(c) PROVE Typed'
  <2> DEFINE j == consumer[c].job
             i == consumer[c].line
  <2>1. /\ ~At(c, "away") /\ job' = [job EXCEPT ![j] = Seen(j)]
        /\ UNCHANGED <<jobManager, asked, cursor, nonces, orphan, shown, said, faults>>
        /\ Goto(c, "drain") \/ NoProgress(c)
    BY <1>6 DEF AcknowledgeProgress, At
  <2>2. j \in JobId
    BY <2>1, BusyIs
  <2>3. JobsTyped' /\ ConsumersTyped'
    BY <1>0, <2>1, <2>2, JobEdited, PlainMoves
  <2>4. LinesTyped'
    <3>1. CASE UNCHANGED line
      BY <1>c, <3>1
    <3>2. CASE i \in DOMAIN line[j] /\ line' = [line EXCEPT ![j][i].acked = TRUE]
      BY <2>2, <3>2, AckedLine
    <3> QED BY <1>6, <3>1, <3>2 DEF AcknowledgeProgress
  <2> QED BY <1>0, <1>b, <1>e, <2>1, <2>3, <2>4, FaultKeeps, TypedNext
<1>7. ASSUME NEW c \in Consumer, Decide(c) PROVE Typed'
  <2>1. /\ ~At(c, "away") /\ UNCHANGED <<job, line, jobManager, asked, cursor, nonces, orphan, shown, said, faults>>
        /\ Goto(c, "claim") \/ Goto(c, "notice") \/ GoAway(c)
    BY <1>7 DEF Decide, At, jobTables
  <2>2. ConsumersTyped'
    BY <1>0, <2>1, PlainMoves
  <2> QED BY <1>0, <1>b, <1>c, <1>d, <1>e, <2>1, <2>2, FaultKeeps, TypedNext
<1>8. ASSUME NEW c \in Consumer, Poll(c) PROVE Typed'
  <2> DEFINE j == consumer[c].job
  <2>1. /\ ~At(c, "away") /\ job' = [job EXCEPT ![j] = Seen(j)]
        /\ UNCHANGED <<line, jobManager, asked, cursor, nonces, orphan, shown, said, faults>>
    BY <1>8 DEF Poll, At
  <2>2. j \in JobId /\ j # 0
    BY <2>1, BusyIs
  <2>3. JobsTyped'
    BY <1>0, <2>1, <2>2, JobEdited
  <2>4. ConsumersTyped'
    <3>1. CASE consumer' = [consumer EXCEPT ![c] = Away]
      BY <1>0, <2>1, <3>1, PlainMoves DEF GoAway
    <3>2. ASSUME NEW pc \in {"drain", "decide"},
                 consumer' = [consumer EXCEPT ![c] = [consumer[c] EXCEPT !.view = Seen(j).status, !.pc = pc]]
          PROVE  ConsumersTyped'
      <4>1. PICK row : row = [consumer[c] EXCEPT !.view = Seen(j).status, !.pc = pc]
        OBVIOUS
      <4>2. consumer[c] \in ConsumerRow
        BY <1>0 DEF ConsumersTyped
      <4>3. row \in ConsumerRow /\ row.pc = pc /\ row.job = j
        BY <1>f, <2>2, <4>1, <4>2 DEF ConsumerRow
      <4> QED BY <1>0, <2>2, <3>2, <4>1, <4>3, ConsumerMoves
    <3> QED BY <1>8, <3>1, <3>2 DEF Poll
  <2> QED BY <1>0, <1>b, <1>c, <1>e, <2>1, <2>3, <2>4, FaultKeeps, TypedNext
<1>9. ASSUME NEW c \in Consumer, ConsumeNotice(c) PROVE Typed'
  <2> DEFINE j == consumer[c].job
  <2>1. /\ ~At(c, "away") /\ (Goto(c, "sorry") \/ GoAway(c))
        /\ (Fault \/ UNCHANGED faults)
        /\ UNCHANGED <<line, jobManager, asked, cursor, nonces, orphan, shown, said>>
    BY <1>9 DEF ConsumeNotice, At
  <2>2. ConsumersTyped'
    BY <1>0, <2>1, PlainMoves
  <2>3. [job EXCEPT ![j].notice = TRUE] \in [JobId -> JobRow]
    BY <1>0, <2>1, BusyIs, RowWritten
  <2>4. JobsTyped'
    BY <1>9, <1>0, <2>3 DEF ConsumeNotice, JobsTyped
  <2> QED BY <1>0, <1>b, <1>c, <1>e, <2>1, <2>2, <2>4, FaultKeeps, TypedNext
<1>10. ASSUME NEW c \in Consumer, Apologize(c) \/ PostReply(c) PROVE Typed'
  <2> DEFINE j == consumer[c].job
  <2>1. /\ ~At(c, "away") /\ GoAway(c) /\ said' = [said EXCEPT ![j] = @ + 1]
        /\ UNCHANGED <<line, jobManager, asked, cursor, nonces, orphan, shown, faults>>
    BY <1>10 DEF Apologize, PostReply, At, jobTables
  <2>2. ConsumersTyped'
    BY <1>0, <2>1, PlainMoves
  <2>3. j \in JobId
    BY <2>1, BusyIs
  <2>a. said[j] \in Nat
    BY <1>0, <2>3 DEF HistoryTyped
  <2>4. said[j] + 1 \in Nat
    BY <2>a
  <2>5. HistoryTyped'
    BY <1>0, <2>1, <2>4 DEF HistoryTyped
  <2>6. \A s \in {"delivered", "uncertain"} : [job EXCEPT ![j].step = s] \in [JobId -> JobRow]
    BY <1>0, <2>3, RowWritten
  <2>7. JobsTyped'
    BY <1>0, <1>10, <2>6 DEF Apologize, PostReply, jobTables, JobsTyped
  <2> QED BY <1>0, <1>b, <1>c, <2>1, <2>2, <2>5, <2>7, FaultKeeps, TypedNext
<1>11. ASSUME NEW c \in Consumer, ClaimReply(c) PROVE Typed'
  <2> DEFINE j == consumer[c].job
  <2>1. /\ ~At(c, "away") /\ (Goto(c, "reply") \/ GoAway(c))
        /\ UNCHANGED <<line, jobManager, asked, cursor, nonces, orphan, shown, said, faults>>
    BY <1>11 DEF ClaimReply, At
  <2>2. ConsumersTyped'
    BY <1>0, <2>1, PlainMoves
  <2>3. [job EXCEPT ![j].step = "claimed"] \in [JobId -> JobRow]
    BY <1>0, <2>1, BusyIs, RowWritten
  <2>4. JobsTyped'
    BY <1>11, <1>0, <2>3 DEF ClaimReply, JobsTyped
  <2> QED BY <1>0, <1>b, <1>c, <1>e, <2>1, <2>2, <2>4, FaultKeeps, TypedNext
<1>12. ASSUME NEW c \in Consumer, ConsumerEnds(c) PROVE Typed'
  <2>1. /\ ~At(c, "away") /\ Fault /\ GoAway(c)
        /\ UNCHANGED <<job, line, jobManager, asked, cursor, nonces, orphan, shown, said>>
    BY <1>12 DEF ConsumerEnds, jobTables
  <2>2. ConsumersTyped'
    BY <1>0, <2>1, PlainMoves
  <2> QED BY <1>0, <1>b, <1>c, <1>d, <1>e, <2>1, <2>2, FaultKeeps, TypedNext
<1> QED BY <1>1, <1>2, <1>3, <1>4, <1>5, <1>6, <1>7, <1>8, <1>9, <1>10, <1>11, <1>12
        DEF ConsumerStep, Progress, Ending

(***************************************************************************)
(* What a step that grants nothing does to a row, a line and a consumer    *)
(***************************************************************************)
RowQuiet(j) ==
  \/ /\ job'[j].status = job[j].status /\ job'[j].step = job[j].step
     /\ job'[j].notice = job[j].notice
  \/ /\ job[j].status \in Open \cup {"none"} /\ job'[j].notice = job[j].notice
     /\ job'[j].status \in Open \cup Failed \cup {"cancelled"} /\ job'[j].step = job[j].step
  \/ /\ job[j].status = "running" /\ job'[j].notice = job[j].notice
     /\ job'[j].status = "succeeded" /\ job'[j].step = "generated"
  \/ /\ job[j].status = "succeeded" /\ job[j].step = "generated"
     /\ job'[j].status = "cancelled" /\ job'[j].step = "failed" /\ job'[j].notice = job[j].notice
  \/ job'[j].status = "gone" /\ job'[j].step = "none" /\ ~job'[j].notice

SpeakersQuiet ==
  \A c \in Consumer : consumer'[c].pc \in {"sorry", "reply"} => consumer'[c] = consumer[c]

LineQuiet(j) ==
  \/ line'[j] = << >> /\ job'[j].status = "gone"
  \/ /\ job[j].status = "gone" => job'[j].status = "gone"
     /\ \/ Len(line'[j]) = Len(line[j])
        \/ /\ Len(line'[j]) = Len(line[j]) + 1 /\ line'[j][Len(line[j]) + 1].nonce = 0
           /\ job[j].status # "gone"
     /\ \A i \in 1 .. Len(line[j]) : line'[j][i].nonce = line[j][i].nonce

ShowersQuiet ==
  \A c \in Consumer : consumer'[c].pc = "show" => consumer'[c] = consumer[c]

LEMMA QuietRows ==
  ASSUME RowsSound, LastWord, \A j \in JobId : RowQuiet(j), SpeakersQuiet, UNCHANGED said
  PROVE  RowsSound' /\ LastWord'
<1>1. RowsSound'
  <2> SUFFICES ASSUME NEW j \in JobId
               PROVE  /\ job'[j].step # "none" => job'[j].status \in {"succeeded", "cancelled", "gone"}
                      /\ job'[j].step \in {"generated", "claimed"} => job'[j].status = "succeeded"
                      /\ job'[j].notice => job'[j].status \in Failed
    BY DEF RowsSound
  <2> QED BY DEF RowsSound, RowQuiet, Open, Failed
<1>2. \A c \in Consumer, j \in JobId : Speaks(c, j)' => Speaks(c, j) /\ consumer'[c].pc = consumer[c].pc
  BY DEF SpeakersQuiet, Speaks
<1>3. LastWord'
  <2> SUFFICES ASSUME NEW j \in JobId
               PROVE  /\ \A c \in Consumer : Speaks(c, j)' =>
                           /\ said[j] = 0
                           /\ \/ job'[j].status = "gone"
                              \/ consumer'[c].pc = "sorry" /\ job'[j].notice
                              \/ consumer'[c].pc = "reply" /\ job'[j].step = "claimed"
                      /\ \A c, d \in Consumer : Speaks(c, j)' /\ Speaks(d, j)' => c = d
                      /\ said[j] <= 1
                      /\ said[j] = 1 => \/ job'[j].status = "gone" \/ job'[j].notice
                                        \/ job'[j].step \in {"delivered", "uncertain"}
    BY DEF LastWord
  <2>1. \/ job'[j].status = "gone"
        \/ /\ job[j].notice => job'[j].notice
           /\ job[j].status # "gone"
           /\ job[j].step \in {"claimed", "delivered", "uncertain"} => job'[j].step = job[j].step
        \/ /\ job'[j].status = job[j].status
    BY DEF RowQuiet, RowsSound, Open, Failed
  <2>2. job[j].status = "gone" => job'[j].status = "gone"
    BY DEF RowQuiet, Open
  <2> QED BY <1>2, <2>1, <2>2 DEF LastWord, RowQuiet
<1> QED BY <1>1, <1>3

LEMMA QuietLines ==
  ASSUME LinesTyped, LinesFresh, \A j \in JobId : LineQuiet(j), ShowersQuiet, UNCHANGED shown
  PROVE  LinesFresh'
<1>1. \A c \in Consumer, j \in JobId, i \in 1 .. MaxLines : Shows(c, j, i)' => Shows(c, j, i)
  BY DEF ShowersQuiet, Shows
<1> SUFFICES ASSUME NEW j \in JobId, NEW i \in 1 .. MaxLines
             PROVE  /\ (IF i \in 1 .. Len(line'[j]) THEN line'[j][i].nonce = 0
                        ELSE job'[j].status # "gone")
                         => shown[j][i] = 0 /\ \A c \in Consumer : ~Shows(c, j, i)'
                    /\ \A c \in Consumer : Shows(c, j, i)' => shown[j][i] = 0
                    /\ \A c, d \in Consumer : Shows(c, j, i)' /\ Shows(d, j, i)' => c = d
                    /\ shown[j][i] <= 1
  BY DEF LinesFresh
<1>2. /\ \A c \in Consumer : Shows(c, j, i)' => shown[j][i] = 0
      /\ \A c, d \in Consumer : Shows(c, j, i)' /\ Shows(d, j, i)' => c = d
      /\ shown[j][i] <= 1
  BY <1>1 DEF LinesFresh
<1>3. ASSUME IF i \in 1 .. Len(line'[j]) THEN line'[j][i].nonce = 0 ELSE job'[j].status # "gone"
      PROVE  IF i \in 1 .. Len(line[j]) THEN line[j][i].nonce = 0 ELSE job[j].status # "gone"
  <2>1. line[j] \in Seq(LineRow) /\ Len(line[j]) \in Nat
    BY DEF LinesTyped
  <2>2. CASE line'[j] = << >> /\ job'[j].status = "gone"
    <3>1. i \notin 1 .. Len(line'[j])
      BY <2>2
    <3> QED BY <1>3, <2>2, <3>1
  <2>3. CASE ~(line'[j] = << >> /\ job'[j].status = "gone")
    <3>1. /\ job[j].status = "gone" => job'[j].status = "gone"
          /\ \/ Len(line'[j]) = Len(line[j])
             \/ /\ Len(line'[j]) = Len(line[j]) + 1 /\ line'[j][Len(line[j]) + 1].nonce = 0
                /\ job[j].status # "gone"
          /\ \A x \in 1 .. Len(line[j]) : line'[j][x].nonce = line[j][x].nonce
      BY <2>3 DEF LineQuiet
    <3>2. CASE i \in 1 .. Len(line[j])
      BY <1>3, <2>1, <3>1, <3>2
    <3>3. CASE i \notin 1 .. Len(line[j])
      BY <1>3, <2>1, <3>1, <3>3
    <3> QED BY <3>2, <3>3
  <2> QED BY <2>2, <2>3
<1>4. (IF i \in 1 .. Len(line[j]) THEN line[j][i].nonce = 0 ELSE job[j].status # "gone")
        => shown[j][i] = 0 /\ \A c \in Consumer : ~Shows(c, j, i)
  BY DEF LinesFresh
<1> QED BY <1>1, <1>2, <1>3, <1>4

(***************************************************************************)
(* SpokenOnce                                                              *)
(***************************************************************************)
SpokenInv == Typed /\ RowsSound /\ LastWord /\ LinesFresh

LEMMA SpokenInit == TurnJobInit => SpokenInv
<1> SUFFICES ASSUME TurnJobInit PROVE SpokenInv
  OBVIOUS
<1>1. Typed
  BY TypedInit
<1>2. /\ \A j \in JobId : /\ job[j].step = "none" /\ ~job[j].notice /\ job[j].status = "none"
                          /\ line[j] = << >> /\ said[j] = 0
                          /\ \A i \in 1 .. MaxLines : shown[j][i] = 0
      /\ \A c \in Consumer : consumer[c].pc = "away"
  BY DEF TurnJobInit, NoJobRow, Away
<1>3. RowsSound /\ LastWord
  BY <1>2 DEF RowsSound, LastWord, Speaks
<1>4. LinesFresh
  BY <1>2 DEF LinesFresh, Shows
<1> QED BY <1>1, <1>3, <1>4 DEF SpokenInv

LEMMA RowEdited ==
  ASSUME Typed, NEW j \in JobId, NEW row, job' = [job EXCEPT ![j] = row]
  PROVE  job'[j] = row /\ \A k \in JobId \ {j} : job'[k] = job[k]
  BY TypedParts DEF JobsTyped

\* A row that get has seen is quiet.
LEMMA SeenQuiet ==
  ASSUME Typed, NEW j \in JobId, job'[j] = Seen(j)
  PROVE  RowQuiet(j)
<1>1. /\ Seen(j).step = job[j].step /\ Seen(j).notice = job[j].notice
      /\ \/ Seen(j).status = job[j].status
         \/ job[j].status \in Open /\ Seen(j).status = "timed_out"
  BY SeenIs DEF Typed
<1> QED BY <1>1 DEF RowQuiet, Failed

LEMMA FailedQuiet ==
  ASSUME Typed, NEW j \in JobId, NEW s \in Failed \cup {"cancelled"},
         job'[j] = FailedRow(job[j], s)
  PROVE  RowQuiet(j)
<1>1. job[j] \in JobRow
  BY TypedParts DEF JobsTyped
<1>2. /\ FailedRow(job[j], s).step = job[j].step /\ FailedRow(job[j], s).notice = job[j].notice
      /\ \/ FailedRow(job[j], s).status = job[j].status
         \/ job[j].status \in Open /\ FailedRow(job[j], s).status = s
  BY <1>1, FailedRowIs
<1> QED BY <1>2 DEF RowQuiet

LEMMA SameQuiet ==
  ASSUME NEW j \in JobId
  PROVE  /\ job'[j] = job[j] => RowQuiet(j)
         /\ line'[j] = line[j] /\ (job[j].status = "gone" => job'[j].status = "gone") => LineQuiet(j)
  BY DEF RowQuiet, LineQuiet

\* A row that is quiet does not come back.
LEMMA GoneStays ==
  ASSUME NEW j \in JobId, RowQuiet(j), line'[j] = line[j]
  PROVE  LineQuiet(j)
  BY DEF RowQuiet, LineQuiet, Open

LEMMA ManagerQuiet ==
  ASSUME Typed, ManagerStep
  PROVE  /\ \A j \in JobId : RowQuiet(j) /\ LineQuiet(j)
         /\ UNCHANGED <<consumer, shown, said>>
<1>0. /\ \A j \in JobId : job[j] \in JobRow /\ line[j] \in Seq(LineRow)
      /\ \A w \in WorkSlot : slot[w] \in JobId \cup {0}
      /\ queue \in Seq(JobId)
  BY TypedParts DEF JobsTyped, LinesTyped, ManagerTyped
<1>1. ASSUME NEW w \in WorkSlot, TakeJob(w)
      PROVE  \A j \in JobId : RowQuiet(j) /\ LineQuiet(j)
  <2> DEFINE q == Head(queue)
  <2>1. queue # << >> /\ UNCHANGED line
    BY <1>1 DEF TakeJob
  <2>2. q \in JobId
    BY <1>0, <2>1
  <2>3. PICK row : /\ job' = [job EXCEPT ![q] = row]
                   /\ \/ row = job[q]
                      \/ job[q].status = "queued" /\ row = [job[q] EXCEPT !.status = "timed_out"]
                      \/ job[q].status = "queued" /\ row = [job[q] EXCEPT !.status = "running"]
    BY <1>1 DEF TakeJob
  <2>4. /\ row.step = job[q].step /\ row.notice = job[q].notice
        /\ row.status # job[q].status => job[q].status = "queued" /\ row.status \in {"timed_out", "running"}
    BY <1>0, <2>2, <2>3 DEF JobRow
  <2>5. job'[q] = row /\ \A k \in JobId \ {q} : job'[k] = job[k]
    BY <2>2, <2>3, RowEdited
  <2>6. RowQuiet(q)
    BY <2>4, <2>5 DEF RowQuiet, Open, Failed
  <2>7. \A j \in JobId : RowQuiet(j)
    BY <2>5, <2>6, SameQuiet
  <2> QED BY <2>1, <2>7, GoneStays
<1>2. ASSUME NEW w \in WorkSlot, PublishProgress(w)
      PROVE  \A j \in JobId : RowQuiet(j) /\ LineQuiet(j)
  <2> DEFINE q == slot[w]
             row == [nonce |-> 0, acked |-> FALSE]
  <2>1. /\ q \in JobId /\ line' = [line EXCEPT ![q] = Append(line[q], row)] /\ UNCHANGED job
        /\ job[q].status \in Open
    BY <1>0, <1>2 DEF PublishProgress
  <2>2. row \in LineRow /\ row.nonce = 0
    BY DEF LineRow
  <2>3. line'[q] = Append(line[q], row) /\ \A k \in JobId \ {q} : line'[k] = line[k]
    BY <2>1, TypedParts DEF LinesTyped
  <2> HIDE DEF row
  <2>4. /\ Len(line'[q]) = Len(line[q]) + 1 /\ line'[q][Len(line[q]) + 1] = row
        /\ \A i \in 1 .. Len(line[q]) : line'[q][i] = line[q][i]
    BY <1>0, <2>1, <2>2, <2>3
  <2>5. LineQuiet(q)
    BY <2>1, <2>2, <2>4 DEF LineQuiet, Open
  <2> QED BY <2>1, <2>3, <2>5, SameQuiet
<1>3. ASSUME NEW w \in WorkSlot, Runner(w)
      PROVE  \A j \in JobId : RowQuiet(j) /\ LineQuiet(j)
  <2> DEFINE q == slot[w]
  <2>1. PICK row : /\ q # 0 /\ EndsWith(w, row)
                   /\ row \in {CompletedRow(job[q]), FailedRow(job[q], "failed"),
                               FailedRow(job[q], "timed_out")}
    BY <1>3 DEF Runner, RunnerReturns, RunnerRaises, RunnerTimesOut
  <2>2. q \in JobId /\ job[q] \in JobRow
    BY <1>0, <2>1
  <2>3. job'[q] = row /\ (\A k \in JobId \ {q} : job'[k] = job[k]) /\ UNCHANGED line
    BY <2>1, <2>2, RowEdited DEF EndsWith
  <2>4. CASE row = CompletedRow(job[q])
    <3>1. /\ row.notice = job[q].notice
          /\ \/ row = job[q]
             \/ /\ job[q].status = "running" /\ row.status = "timed_out" /\ row.step = job[q].step
             \/ /\ job[q].status = "running" /\ row.status = "succeeded" /\ row.step = "generated"
      BY <2>2, <2>4, CompletedRowIs
    <3>2. RowQuiet(q)
      BY <2>3, <3>1 DEF RowQuiet, Open, Failed
    <3> QED BY <2>3, <3>2, SameQuiet, GoneStays
  <2>5. CASE row \in {FailedRow(job[q], "failed"), FailedRow(job[q], "timed_out")}
    <3>1. RowQuiet(q)
      BY <2>2, <2>3, <2>5, FailedQuiet DEF Failed
    <3> QED BY <2>3, <3>1, SameQuiet, GoneStays
  <2> QED BY <2>1, <2>4, <2>5
<1>4. ASSUME NEW q \in JobId, CancelJob(q)
      PROVE  \A j \in JobId : RowQuiet(j) /\ LineQuiet(j)
  <2>1. UNCHANGED line
    BY <1>4 DEF CancelJob
  <2>2. CASE FailRow(q, "cancelled")
    <3>1. job'[q] = FailedRow(job[q], "cancelled") /\ \A k \in JobId \ {q} : job'[k] = job[k]
      BY <2>2, RowEdited DEF FailRow
    <3>2. RowQuiet(q)
      BY <3>1, FailedQuiet
    <3> QED BY <2>1, <3>1, <3>2, SameQuiet, GoneStays
  <2>3. CASE /\ job[q].status = "succeeded" /\ job[q].step = "generated"
             /\ job' = [job EXCEPT ![q].status = "cancelled", ![q].step = "failed"]
    <3>1. /\ job'[q].status = "cancelled" /\ job'[q].step = "failed" /\ job'[q].notice = job[q].notice
          /\ \A k \in JobId \ {q} : job'[k] = job[k]
      BY <1>0, <2>3, TypedParts DEF JobsTyped, JobRow
    <3>2. RowQuiet(q)
      BY <2>3, <3>1 DEF RowQuiet
    <3> QED BY <2>1, <3>1, <3>2, SameQuiet, GoneStays
  <2> QED BY <1>4, <2>2, <2>3 DEF CancelJob
<1>5. ASSUME NEW q \in JobId, RemoveJob(q)
      PROVE  \A j \in JobId : RowQuiet(j) /\ LineQuiet(j)
  <2>1. PICK row : row = [NoJobRow EXCEPT !.status = "gone", !.scope = FALSE]
    OBVIOUS
  <2>2. row = [status |-> "gone", due |-> FALSE, notice |-> FALSE, scope |-> FALSE,
               step |-> "none"]
    BY <2>1, RemovedIs
  <2>3. row.status = "gone" /\ row.step = "none" /\ ~row.notice
    BY <2>2
  <2>4. job'[q] = row /\ \A k \in JobId \ {q} : job'[k] = job[k]
    BY <1>5, <2>1, RowEdited DEF RemoveJob
  <2>5. line'[q] = << >> /\ \A k \in JobId \ {q} : line'[k] = line[k]
    BY <1>5, TypedParts DEF RemoveJob, LinesTyped
  <2>6. RowQuiet(q) /\ LineQuiet(q)
    BY <2>3, <2>4, <2>5 DEF RowQuiet, LineQuiet
  <2> QED BY <2>4, <2>5, <2>6, SameQuiet
<1>6. ASSUME NEW q \in JobId, Deadline(q) \/ ScopeEnds(q)
      PROVE  \A j \in JobId : RowQuiet(j) /\ LineQuiet(j)
  <2>1. UNCHANGED line
    BY <1>6 DEF Deadline, ScopeEnds
  <2>2. \/ job' = [job EXCEPT ![q].due = TRUE]
        \/ job' = [job EXCEPT ![q].scope = FALSE]
    BY <1>6 DEF Deadline, ScopeEnds
  <2>a. job \in [JobId -> JobRow]
    BY TypedParts DEF JobsTyped
  <2>3. \A j \in JobId : /\ job'[j].status = job[j].status /\ job'[j].step = job[j].step
                         /\ job'[j].notice = job[j].notice
    <3>1. CASE job' = [job EXCEPT ![q].due = TRUE]
      BY <2>a, <3>1 DEF JobRow
    <3>2. CASE job' = [job EXCEPT ![q].scope = FALSE]
      BY <2>a, <3>2 DEF JobRow
    <3> QED BY <2>2, <3>1, <3>2
  <2>4. \A j \in JobId : RowQuiet(j)
    BY <2>3 DEF RowQuiet
  <2> QED BY <2>1, <2>4, GoneStays
<1>7. ASSUME StopManager PROVE \A j \in JobId : RowQuiet(j) /\ LineQuiet(j)
  <2>1. \A j \in JobId : job'[j] = job[j] \/ job'[j] = FailedRow(job[j], "stopped")
    BY <1>7 DEF StopManager
  <2>2. \A j \in JobId : RowQuiet(j)
    BY <2>1, SameQuiet, FailedQuiet DEF Failed
  <2> QED BY <1>7, <2>2, GoneStays DEF StopManager
<1>8. ASSUME CrashManager PROVE \A j \in JobId : RowQuiet(j) /\ LineQuiet(j)
  BY <1>8, SameQuiet DEF CrashManager, jobTables
<1>9. ASSUME StartManager \/ Maintain PROVE \A j \in JobId : RowQuiet(j) /\ LineQuiet(j)
  <2>1. \A j \in JobId : job'[j] = Seen(j)
    BY <1>9 DEF StartManager, Maintain, ExpireDeadlines
  <2>2. \A j \in JobId : RowQuiet(j)
    BY <2>1, SeenQuiet
  <2> QED BY <1>9, <2>2, GoneStays DEF StartManager, Maintain
<1>10. UNCHANGED <<consumer, shown, said>>
  BY DEF ManagerStep, TakeJob, PublishProgress, Runner, RunnerReturns, RunnerRaises, RunnerTimesOut,
         EndsWith, CancelJob, RemoveJob, Deadline, ScopeEnds, StopManager, CrashManager, StartManager,
         Maintain
<1> QED BY <1>1, <1>2, <1>3, <1>4, <1>5, <1>6, <1>7, <1>8, <1>9, <1>10 DEF ManagerStep

(***************************************************************************)
(* What the consumers do                                                   *)
(***************************************************************************)
LEMMA MovesTo ==
  ASSUME Typed, NEW c \in Consumer, NEW pc, Goto(c, pc)
  PROVE  /\ consumer'[c].pc = pc /\ consumer'[c].job = consumer[c].job
         /\ \A d \in Consumer \ {c} : consumer'[d] = consumer[d]
  BY TypedParts DEF ConsumersTyped, ConsumerRow, Goto

LEMMA Leaves ==
  ASSUME Typed, NEW c \in Consumer, NoProgress(c) \/ GoAway(c)
  PROVE  /\ consumer'[c].pc \in {"decide", "away"}
         /\ \A d \in Consumer \ {c} : consumer'[d] = consumer[d]
<1>1. consumer \in [Consumer -> ConsumerRow]
  BY TypedParts DEF ConsumersTyped
<1>2. CASE NoProgress(c)
  <2>1. PICK row : row = [consumer[c] EXCEPT !.pc = "decide", !.ask = FALSE]
    OBVIOUS
  <2>2. row.pc = "decide"
    BY <1>1, <2>1 DEF ConsumerRow
  <2>3. consumer' = [consumer EXCEPT ![c] = row]
    BY <1>2, <2>1 DEF NoProgress
  <2> QED BY <1>1, <2>2, <2>3
<1>3. CASE GoAway(c)
  BY <1>1, <1>3 DEF GoAway, Away
<1> QED BY <1>2, <1>3

\* A step of one consumer who is granted nothing.
LEMMA QuietStep ==
  ASSUME SpokenInv, NEW c \in Consumer, \A j \in JobId : RowQuiet(j) /\ LineQuiet(j),
         consumer'[c].pc \notin {"sorry", "reply", "show"},
         \A d \in Consumer \ {c} : consumer'[d] = consumer[d], UNCHANGED <<said, shown>>
  PROVE  RowsSound' /\ LastWord' /\ LinesFresh'
<1>1. SpeakersQuiet /\ ShowersQuiet
  BY DEF SpeakersQuiet, ShowersQuiet
<1>2. RowsSound' /\ LastWord'
  BY <1>1, QuietRows DEF SpokenInv
<1>3. LinesFresh'
  BY <1>1, QuietLines, TypedParts DEF SpokenInv
<1> QED BY <1>2, <1>3

\* A job that offers a grant has heard no last word, and nobody is about to say it.
LEMMA Unspoken ==
  ASSUME SpokenInv, NEW j \in JobId,
         \/ job[j].status \in Failed /\ ~job[j].notice
         \/ job[j].step = "generated"
  PROVE  said[j] = 0 /\ \A c \in Consumer : ~Speaks(c, j)
<1>1. /\ job[j].status # "gone" /\ ~job[j].notice
      /\ job[j].step \notin {"claimed", "delivered", "uncertain"}
  BY DEF SpokenInv, RowsSound, Failed
<1>2. said[j] \in Nat
  BY TypedParts DEF SpokenInv, HistoryTyped
<1> QED BY <1>1, <1>2 DEF SpokenInv, LastWord, Speaks

\* acknowledge_final_notice and claim_delivery: a grant, which consumer c takes or loses.
LEMMA Granted ==
  ASSUME SpokenInv, NEW c \in Consumer, NEW j \in JobId, consumer[c].job = j,
         \/ job[j].status \in Failed /\ ~job[j].notice
         \/ job[j].step = "generated",
         \/ /\ job[j].status \in Failed /\ job'[j].notice /\ job'[j].step = job[j].step
            /\ consumer'[c].pc \in {"sorry", "away"}
         \/ /\ job[j].step = "generated" /\ job'[j].step = "claimed"
            /\ job'[j].notice = job[j].notice /\ consumer'[c].pc = "reply",
         job'[j].status = job[j].status,
         \A k \in JobId \ {j} : job'[k] = job[k],
         \A d \in Consumer \ {c} : consumer'[d] = consumer[d],
         consumer'[c].pc # "away" => consumer'[c].job = j, UNCHANGED <<said, shown, line>>
  PROVE  RowsSound' /\ LastWord' /\ LinesFresh'
<1>1. said[j] = 0 /\ \A d \in Consumer : ~Speaks(d, j)
  BY Unspoken
<1>2. RowsSound'
  BY DEF SpokenInv, RowsSound, Failed
<1>3. LastWord'
  <2>1. ASSUME NEW k \in JobId, k # j
        PROVE  \A d \in Consumer : Speaks(d, k)' => Speaks(d, k) /\ consumer'[d] = consumer[d]
    BY <2>1 DEF Speaks
  <2>2. ASSUME NEW d \in Consumer, Speaks(d, j)' PROVE d = c
    BY <1>1, <2>2 DEF Speaks
  <2>3. ASSUME NEW k \in JobId
        PROVE  /\ \A d \in Consumer : Speaks(d, k)' =>
                    /\ said[k] = 0
                    /\ \/ job'[k].status = "gone"
                       \/ consumer'[d].pc = "sorry" /\ job'[k].notice
                       \/ consumer'[d].pc = "reply" /\ job'[k].step = "claimed"
               /\ \A d, e \in Consumer : Speaks(d, k)' /\ Speaks(e, k)' => d = e
               /\ said[k] <= 1
               /\ said[k] = 1 => \/ job'[k].status = "gone" \/ job'[k].notice
                                 \/ job'[k].step \in {"delivered", "uncertain"}
    <3>1. CASE k = j
      BY <1>1, <2>2, <3>1 DEF Speaks
    <3>2. CASE k # j
      BY <2>1, <3>2 DEF SpokenInv, LastWord
    <3> QED BY <3>1, <3>2
  <2> QED BY <2>3 DEF LastWord
<1>4. LinesFresh'
  <2>1. \A k \in JobId : LineQuiet(k)
    BY DEF LineQuiet
  <2>2. ShowersQuiet
    BY DEF ShowersQuiet
  <2> QED BY <2>1, <2>2, QuietLines, TypedParts DEF SpokenInv
<1> QED BY <1>2, <1>3, <1>4

\* The apology or the reply itself.
LEMMA Spoken ==
  ASSUME SpokenInv, NEW c \in Consumer, NEW j \in JobId, Speaks(c, j), GoAway(c),
         said' = [said EXCEPT ![j] = @ + 1],
         \A k \in JobId \ {j} : job'[k] = job[k],
         job'[j].status = job[j].status, job'[j].notice = job[j].notice,
         \/ consumer[c].pc = "sorry" /\ job'[j].step = job[j].step
         \/ consumer[c].pc = "reply" /\ job'[j].step \in {"delivered", "uncertain"},
         UNCHANGED <<shown, line>>
  PROVE  RowsSound' /\ LastWord' /\ LinesFresh'
<1>1. /\ said[j] = 0 /\ \A d \in Consumer : Speaks(d, j) => d = c
      /\ \/ job[j].status = "gone"
         \/ consumer[c].pc = "sorry" /\ job[j].notice
         \/ consumer[c].pc = "reply" /\ job[j].step = "claimed"
  BY DEF SpokenInv, LastWord
<1>2. RowsSound'
  <2>1. job[j].step = "claimed" => job[j].status = "succeeded"
    BY DEF SpokenInv, RowsSound
  <2>2. consumer[c].pc = "reply" => job[j].status \in {"gone", "succeeded"}
    BY <1>1, <2>1
  <2> QED BY <2>2 DEF SpokenInv, RowsSound, Failed
<1>3. /\ consumer'[c].pc = "away" /\ \A d \in Consumer \ {c} : consumer'[d] = consumer[d]
      /\ said'[j] = 1 /\ \A k \in JobId \ {j} : said'[k] = said[k]
  <2>1. consumer'[c].pc = "away" /\ \A d \in Consumer \ {c} : consumer'[d] = consumer[d]
    BY TypedParts DEF SpokenInv, ConsumersTyped, GoAway, Away
  <2>2. said'[j] = 1 /\ \A k \in JobId \ {j} : said'[k] = said[k]
    BY <1>1, TypedParts DEF SpokenInv, HistoryTyped
  <2> QED BY <2>1, <2>2
<1>4. LastWord'
  <2>1. \A d \in Consumer : ~Speaks(d, j)'
    BY <1>1, <1>3 DEF Speaks
  <2>2. \A d \in Consumer, k \in JobId : Speaks(d, k)' => Speaks(d, k) /\ consumer'[d] = consumer[d]
    BY <1>3 DEF Speaks
  <2>3. ASSUME NEW k \in JobId
        PROVE  /\ \A d \in Consumer : Speaks(d, k)' =>
                    /\ said'[k] = 0
                    /\ \/ job'[k].status = "gone"
                       \/ consumer'[d].pc = "sorry" /\ job'[k].notice
                       \/ consumer'[d].pc = "reply" /\ job'[k].step = "claimed"
               /\ \A d, e \in Consumer : Speaks(d, k)' /\ Speaks(e, k)' => d = e
               /\ said'[k] <= 1
               /\ said'[k] = 1 => \/ job'[k].status = "gone" \/ job'[k].notice
                                  \/ job'[k].step \in {"delivered", "uncertain"}
    <3>1. CASE k = j
      BY <1>1, <1>3, <2>1, <3>1
    <3>2. CASE k # j
      BY <1>3, <2>2, <3>2 DEF SpokenInv, LastWord
    <3> QED BY <3>1, <3>2
  <2> QED BY <2>3 DEF LastWord
<1>5. LinesFresh'
  <2>1. \A k \in JobId : LineQuiet(k)
    BY DEF LineQuiet
  <2>2. ShowersQuiet
    BY <1>3 DEF ShowersQuiet
  <2> QED BY <2>1, <2>2, QuietLines, TypedParts DEF SpokenInv
<1> QED BY <1>2, <1>4, <1>5

\* A line is claimed: nobody has shown it, and c shows it next, or nobody if the answer was lost.
LEMMA LineClaimed ==
  ASSUME SpokenInv, NEW c \in Consumer, NEW j \in JobId, Claimable(j),
         line' = [line EXCEPT ![j][FirstUnacked(j)].nonce = nonces + 1],
         \A k \in JobId : job[k].status = "gone" => job'[k].status = "gone",
         \A d \in Consumer \ {c} : consumer'[d] = consumer[d],
         consumer'[c].pc = "show" => consumer'[c].job = j /\ consumer'[c].line = FirstUnacked(j),
         UNCHANGED shown
  PROVE  LinesFresh'
<1> DEFINE f == FirstUnacked(j)
<1>1. /\ f \in 1 .. Len(line[j]) /\ f \in 1 .. MaxLines /\ line[j][f].nonce = 0
      /\ \A k \in JobId : Len(line'[k]) = Len(line[k])
      /\ line'[j][f].nonce = nonces + 1
      /\ \A k \in JobId : \A x \in 1 .. Len(line[k]) :
           k # j \/ x # f => line'[k][x] = line[k][x]
  BY ClaimedLine DEF SpokenInv
<1>2. nonces + 1 # 0
  BY TypedParts DEF SpokenInv, HistoryTyped
<1>3. shown[j][f] = 0 /\ \A d \in Consumer : ~Shows(d, j, f)
  BY <1>1 DEF SpokenInv, LinesFresh
<1> HIDE DEF f
<1>4. \A d \in Consumer, k \in JobId, i \in 1 .. MaxLines :
        Shows(d, k, i)' => Shows(d, k, i) \/ (d = c /\ k = j /\ i = f)
  <2> SUFFICES ASSUME NEW d \in Consumer, NEW k \in JobId, NEW i \in 1 .. MaxLines, Shows(d, k, i)'
               PROVE  Shows(d, k, i) \/ (d = c /\ k = j /\ i = f)
    OBVIOUS
  <2>1. CASE d = c
    BY <2>1 DEF Shows, f
  <2>2. CASE d # c
    BY <2>2 DEF Shows
  <2> QED BY <2>1, <2>2
<1> SUFFICES ASSUME NEW k \in JobId, NEW i \in 1 .. MaxLines
             PROVE  /\ (IF i \in 1 .. Len(line'[k]) THEN line'[k][i].nonce = 0
                        ELSE job'[k].status # "gone")
                         => shown[k][i] = 0 /\ \A d \in Consumer : ~Shows(d, k, i)'
                    /\ \A d \in Consumer : Shows(d, k, i)' => shown[k][i] = 0
                    /\ \A d, e \in Consumer : Shows(d, k, i)' /\ Shows(e, k, i)' => d = e
                    /\ shown[k][i] <= 1
  BY DEF LinesFresh
<1>5. CASE k = j /\ i = f
  BY <1>1, <1>2, <1>3, <1>4, <1>5
<1>6. CASE ~(k = j /\ i = f)
  <2>1. \A d \in Consumer : Shows(d, k, i)' => Shows(d, k, i)
    BY <1>4, <1>6
  <2>2. /\ Len(line'[k]) = Len(line[k])
        /\ i \in 1 .. Len(line[k]) => line'[k][i] = line[k][i]
    BY <1>1, <1>6
  <2>3. (IF i \in 1 .. Len(line'[k]) THEN line'[k][i].nonce = 0 ELSE job'[k].status # "gone")
          => (IF i \in 1 .. Len(line[k]) THEN line[k][i].nonce = 0 ELSE job[k].status # "gone")
    BY <2>2
  <2> QED BY <2>1, <2>3 DEF SpokenInv, LinesFresh
<1> QED BY <1>5, <1>6

\* Its holder shows the line, and no longer holds it.
LEMMA LineShown ==
  ASSUME SpokenInv, NEW c \in Consumer, NEW j \in JobId, NEW f \in 1 .. MaxLines, Shows(c, j, f),
         shown' = [shown EXCEPT ![j][f] = @ + 1], consumer'[c].pc # "show",
         \A d \in Consumer \ {c} : consumer'[d] = consumer[d], UNCHANGED <<job, line>>
  PROVE  LinesFresh'
<1>1. /\ shown[j][f] = 0 /\ \A d \in Consumer : Shows(d, j, f) => d = c
      /\ ~(IF f \in 1 .. Len(line[j]) THEN line[j][f].nonce = 0 ELSE job[j].status # "gone")
  BY DEF SpokenInv, LinesFresh
<1>2. shown \in [JobId -> [1 .. MaxLines -> Nat]]
  BY TypedParts DEF SpokenInv, HistoryTyped
<1>3. /\ shown'[j][f] = 1
      /\ \A k \in JobId, i \in 1 .. MaxLines : k # j \/ i # f => shown'[k][i] = shown[k][i]
  <2>1. PICK r : r = [shown[j] EXCEPT ![f] = shown[j][f] + 1]
    OBVIOUS
  <2>a. shown[j] \in [1 .. MaxLines -> Nat]
    BY <1>2
  <2>2. r[f] = 1 /\ \A i \in 1 .. MaxLines : i # f => r[i] = shown[j][i]
    <3>1. PICK m : m = shown[j][f] + 1
      OBVIOUS
    <3>2. m = 1
      BY <1>1, <3>1
    <3>3. r = [shown[j] EXCEPT ![f] = m]
      BY <2>1, <3>1
    <3> QED BY <2>a, <3>2, <3>3
  <2>3. shown' = [shown EXCEPT ![j] = r]
    BY <2>1
  <2>4. shown'[j] = r /\ \A k \in JobId : k # j => shown'[k] = shown[k]
    BY <1>2, <2>3
  <2> QED BY <2>2, <2>4
<1>4. \A d \in Consumer, k \in JobId, i \in 1 .. MaxLines :
        Shows(d, k, i)' => Shows(d, k, i) /\ d # c
  BY DEF Shows
<1> SUFFICES ASSUME NEW k \in JobId, NEW i \in 1 .. MaxLines
             PROVE  /\ (IF i \in 1 .. Len(line[k]) THEN line[k][i].nonce = 0
                        ELSE job[k].status # "gone")
                         => shown'[k][i] = 0 /\ \A d \in Consumer : ~Shows(d, k, i)'
                    /\ \A d \in Consumer : Shows(d, k, i)' => shown'[k][i] = 0
                    /\ \A d, e \in Consumer : Shows(d, k, i)' /\ Shows(e, k, i)' => d = e
                    /\ shown'[k][i] <= 1
  BY DEF LinesFresh
<1>5. CASE k = j /\ i = f
  BY <1>1, <1>3, <1>4, <1>5
<1>6. CASE ~(k = j /\ i = f)
  BY <1>3, <1>4, <1>6 DEF SpokenInv, LinesFresh
<1> QED BY <1>5, <1>6

LEMMA SeenRows ==
  ASSUME Typed, NEW j \in JobId, job' = [job EXCEPT ![j] = Seen(j)]
  PROVE  /\ \A k \in JobId : RowQuiet(k)
         /\ \A k \in JobId : job[k].status = "gone" => job'[k].status = "gone"
<1>1. job'[j] = Seen(j) /\ \A k \in JobId \ {j} : job'[k] = job[k]
  BY RowEdited
<1>2. \A k \in JobId : RowQuiet(k)
  BY <1>1, SeenQuiet, SameQuiet
<1> QED BY <1>2 DEF RowQuiet, Open

LEMMA SameRows ==
  ASSUME UNCHANGED job
  PROVE  /\ \A k \in JobId : RowQuiet(k)
         /\ \A k \in JobId : job[k].status = "gone" => job'[k].status = "gone"
  BY DEF RowQuiet

LEMMA ConsumerSpeaks == SpokenInv /\ ConsumerStep => RowsSound' /\ LastWord' /\ LinesFresh'
<1> SUFFICES ASSUME SpokenInv, ConsumerStep PROVE RowsSound' /\ LastWord' /\ LinesFresh'
  OBVIOUS
<1>0. /\ Typed /\ JobsTyped /\ ConsumersTyped
      /\ job \in [JobId -> JobRow] /\ \A j \in JobId : job[j] \in JobRow
  BY TypedParts DEF SpokenInv, JobsTyped
<1>a. ASSUME NEW c \in Consumer, \A k \in JobId : RowQuiet(k), UNCHANGED <<line, said, shown>>,
             consumer'[c].pc \notin {"sorry", "reply", "show"},
             \A d \in Consumer \ {c} : consumer'[d] = consumer[d]
      PROVE  RowsSound' /\ LastWord' /\ LinesFresh'
  BY <1>a, GoneStays, QuietStep
<1>1. ASSUME NEW c \in Handler, NEW j \in JobId, SubmitTurn(c, j)
      PROVE  RowsSound' /\ LastWord' /\ LinesFresh'
  <2> c \in Consumer
    BY DEF Consumer
  <2>1. UNCHANGED <<line, said, shown>>
    BY <1>1 DEF SubmitTurn
  <2>2. CASE job[j].status # "none"
    <3>1. job' = [job EXCEPT ![j] = Seen(j)] /\ Wait(c, j, Seen(j).status)
      BY <1>1, <2>2 DEF SubmitTurn
    <3>2. Seen(j).status \in JobStatus
      BY <1>0, SeenIs DEF Typed, JobRow
    <3> QED BY <1>0, <1>a, <2>1, <3>1, <3>2, SeenRows, WaitMoves
  <2>3. CASE job[j].status = "none"
    <3>1. job' = [job EXCEPT ![j].status = "queued"] /\ Wait(c, j, "queued")
      BY <1>1, <2>3 DEF SubmitTurn
    <3>2. /\ job'[j].status = "queued" /\ job'[j].step = job[j].step
          /\ job'[j].notice = job[j].notice /\ \A k \in JobId \ {j} : job'[k] = job[k]
      BY <1>0, <3>1 DEF JobRow
    <3>3. \A k \in JobId : RowQuiet(k)
      BY <2>3, <3>2 DEF RowQuiet, Open
    <3>4. "queued" \in JobStatus
      BY DEF JobStatus, Open
    <3> QED BY <1>0, <1>a, <2>1, <3>1, <3>3, <3>4, WaitMoves
  <2> QED BY <2>2, <2>3
<1>2. ASSUME NEW c \in Recoverer, Scan(c) PROVE RowsSound' /\ LastWord' /\ LinesFresh'
  <2> c \in Consumer
    BY DEF Consumer
  <2> DEFINE page == {k \in JobId : k > cursor /\ Recoverable(k)}
             j == CHOOSE k \in page : \A m \in page : k <= m
  <2>1. UNCHANGED <<line, said, shown>>
    BY <1>2 DEF Scan
  <2>0. \A k \in JobId : line'[k] = line[k]
    BY <2>1
  <2>a. ASSUME \A k \in JobId : RowQuiet(k), UNCHANGED consumer
        PROVE  RowsSound' /\ LastWord' /\ LinesFresh'
    <3>1. SpeakersQuiet /\ ShowersQuiet
      BY <2>a DEF SpeakersQuiet, ShowersQuiet
    <3>2. \A k \in JobId : LineQuiet(k)
      BY <2>0, <2>a, GoneStays
    <3> QED BY <2>1, <2>a, <3>1, <3>2, QuietRows, QuietLines, TypedParts DEF SpokenInv
  <2>2. CASE page = {}
    <3>1. UNCHANGED <<job, consumer>>
      BY <1>2, <2>2 DEF Scan
    <3> QED BY <2>a, <3>1, SameRows
  <2>3. CASE page # {}
    <3>0. page \subseteq Nat
      BY TurnJobAssumption
    <3>1. j \in JobId
      BY <2>3, <3>0, FirstOf
    <3>2. /\ job' = [job EXCEPT ![j] = Seen(j)]
          /\ Wait(c, j, Seen(j).status) \/ UNCHANGED consumer
      BY <1>2, <2>3 DEF Scan
    <3> HIDE DEF j
    <3>3. \A k \in JobId : RowQuiet(k)
      BY <1>0, <3>1, <3>2, SeenRows
    <3>4. Seen(j).status \in JobStatus
      BY <1>0, <3>1, SeenIs DEF Typed, JobRow
    <3>5. CASE Wait(c, j, Seen(j).status)
      <4>1. consumer'[c].pc = "drain" /\ \A d \in Consumer \ {c} : consumer'[d] = consumer[d]
        BY <1>0, <3>1, <3>4, <3>5, WaitMoves
      <4> QED BY <1>a, <2>1, <3>3, <4>1
    <3> QED BY <2>a, <3>2, <3>3, <3>5
  <2> QED BY <2>2, <2>3
<1>3. ASSUME NEW c \in Consumer, ClaimProgress(c)
      PROVE  RowsSound' /\ LastWord' /\ LinesFresh'
  <2> DEFINE j == consumer[c].job
  <2>1. ~At(c, "away") /\ job' = [job EXCEPT ![j] = Seen(j)] /\ UNCHANGED <<shown, said>>
    BY <1>3 DEF ClaimProgress, At
  <2>2. j \in JobId
    BY <1>0, <2>1, BusyIs
  <2>3. /\ \A k \in JobId : RowQuiet(k)
        /\ \A k \in JobId : job[k].status = "gone" => job'[k].status = "gone"
    BY <1>0, <2>1, <2>2, SeenRows
  <2>4. CASE (NoProgress(c) \/ Goto(c, "decide")) /\ UNCHANGED line
    <3>1. consumer'[c].pc \in {"decide", "away"} /\ \A d \in Consumer \ {c} : consumer'[d] = consumer[d]
      BY <1>0, <2>4, MovesTo, Leaves
    <3> QED BY <1>a, <2>1, <2>3, <2>4, <3>1
  <2>5. ASSUME Claimable(j), line' = [line EXCEPT ![j][FirstUnacked(j)].nonce = nonces + 1],
               consumer' = [consumer EXCEPT ![c].pc = "show", ![c].nonce = nonces + 1,
                                            ![c].line = FirstUnacked(j)]
        PROVE  RowsSound' /\ LastWord' /\ LinesFresh'
    <3>1. FirstUnacked(j) \in 1 .. MaxLines
      BY <1>0, <2>2, <2>5, ClaimedLine
    <3>2. /\ consumer'[c].pc = "show" /\ consumer'[c].job = j /\ consumer'[c].line = FirstUnacked(j)
          /\ \A d \in Consumer \ {c} : consumer'[d] = consumer[d]
      BY <1>0, <2>1, <2>5, <3>1, DrawIs
    <3>3. LinesFresh'
      BY <2>1, <2>2, <2>3, <2>5, <3>2, LineClaimed
    <3>4. SpeakersQuiet
      BY <3>2 DEF SpeakersQuiet
    <3> QED BY <2>1, <2>3, <3>3, <3>4, QuietRows DEF SpokenInv
  <2> QED BY <1>3, <2>4, <2>5 DEF ClaimProgress
<1>4. ASSUME NEW c \in Consumer, ClaimProgressLost(c)
      PROVE  RowsSound' /\ LastWord' /\ LinesFresh'
  <2> DEFINE j == consumer[c].job
  <2>1. ~At(c, "away") /\ NoProgress(c) /\ UNCHANGED <<job, shown, said>>
    BY <1>4 DEF ClaimProgressLost, At
  <2>2. j \in JobId
    BY <1>0, <2>1, BusyIs
  <2>3. consumer'[c].pc \in {"decide", "away"} /\ \A d \in Consumer \ {c} : consumer'[d] = consumer[d]
    BY <1>0, <2>1, Leaves
  <2>4. /\ \A k \in JobId : RowQuiet(k)
        /\ \A k \in JobId : job[k].status = "gone" => job'[k].status = "gone"
    BY <2>1, SameRows
  <2>5. CASE UNCHANGED line
    BY <1>a, <2>1, <2>3, <2>4, <2>5
  <2>6. CASE Claimable(j) /\ line' = [line EXCEPT ![j][FirstUnacked(j)].nonce = nonces + 1]
    <3>1. LinesFresh'
      BY <2>1, <2>2, <2>3, <2>4, <2>6, LineClaimed
    <3>2. SpeakersQuiet
      BY <2>3 DEF SpeakersQuiet
    <3> QED BY <2>1, <2>4, <3>1, <3>2, QuietRows DEF SpokenInv
  <2> QED BY <1>4, <2>5, <2>6 DEF ClaimProgressLost
<1>5. ASSUME NEW c \in Consumer, ShowLine(c) PROVE RowsSound' /\ LastWord' /\ LinesFresh'
  <2> DEFINE j == consumer[c].job
             i == consumer[c].line
  <2>1. /\ At(c, "show") /\ ~At(c, "away") /\ (Goto(c, "tick") \/ NoProgress(c))
        /\ shown' = [shown EXCEPT ![j][i] = @ + 1] /\ UNCHANGED <<job, line, said>>
    BY <1>5 DEF ShowLine, At, jobTables
  <2>2. j \in JobId /\ i \in 1 .. MaxLines
    BY <1>0, <2>1, BusyIs
  <2>3. consumer'[c].pc \in {"tick", "decide", "away"} /\ \A d \in Consumer \ {c} : consumer'[d] = consumer[d]
    BY <1>0, <2>1, MovesTo, Leaves
  <2>4. Shows(c, j, i)
    BY <2>1 DEF Shows, At
  <2>5. LinesFresh'
    BY <2>1, <2>2, <2>3, <2>4, LineShown
  <2>6. SpeakersQuiet
    BY <2>3 DEF SpeakersQuiet
  <2> QED BY <2>1, <2>5, <2>6, SameRows, QuietRows DEF SpokenInv
<1>6. ASSUME NEW c \in Consumer, AcknowledgeProgress(c)
      PROVE  RowsSound' /\ LastWord' /\ LinesFresh'
  <2> DEFINE j == consumer[c].job
             i == consumer[c].line
  <2>1. /\ ~At(c, "away") /\ job' = [job EXCEPT ![j] = Seen(j)] /\ UNCHANGED <<shown, said>>
        /\ Goto(c, "drain") \/ NoProgress(c)
    BY <1>6 DEF AcknowledgeProgress, At
  <2>2. j \in JobId
    BY <1>0, <2>1, BusyIs
  <2>3. /\ \A k \in JobId : RowQuiet(k)
        /\ \A k \in JobId : job[k].status = "gone" => job'[k].status = "gone"
    BY <1>0, <2>1, <2>2, SeenRows
  <2>4. consumer'[c].pc \in {"drain", "decide", "away"} /\ \A d \in Consumer \ {c} : consumer'[d] = consumer[d]
    BY <1>0, <2>1, MovesTo, Leaves
  <2>5. CASE UNCHANGED line
    BY <1>a, <2>1, <2>3, <2>4, <2>5
  <2>6. CASE i \in DOMAIN line[j] /\ line' = [line EXCEPT ![j][i].acked = TRUE]
    <3>1. /\ \A k \in JobId : Len(line'[k]) = Len(line[k])
          /\ \A k \in JobId : \A x \in 1 .. Len(line[k]) : line'[k][x].nonce = line[k][x].nonce
      BY <1>0, <2>2, <2>6, AckedLine
    <3>2. \A k \in JobId : LineQuiet(k)
      BY <2>3, <3>1 DEF LineQuiet
    <3> QED BY <2>1, <2>3, <2>4, <3>2, QuietStep
  <2> QED BY <1>6, <2>5, <2>6 DEF AcknowledgeProgress
<1>7. ASSUME NEW c \in Consumer, Decide(c) PROVE RowsSound' /\ LastWord' /\ LinesFresh'
  <2>1. UNCHANGED <<job, line, shown, said>> /\ (Goto(c, "claim") \/ Goto(c, "notice") \/ GoAway(c))
    BY <1>7 DEF Decide, jobTables
  <2>2. consumer'[c].pc \in {"claim", "notice", "decide", "away"}
        /\ \A d \in Consumer \ {c} : consumer'[d] = consumer[d]
    BY <1>0, <2>1, MovesTo, Leaves
  <2> QED BY <1>a, <2>1, <2>2, SameRows
<1>8. ASSUME NEW c \in Consumer, Poll(c) PROVE RowsSound' /\ LastWord' /\ LinesFresh'
  <2> DEFINE j == consumer[c].job
  <2>1. /\ ~At(c, "away") /\ job' = [job EXCEPT ![j] = Seen(j)] /\ UNCHANGED <<line, shown, said>>
    BY <1>8 DEF Poll, At
  <2>2. j \in JobId
    BY <1>0, <2>1, BusyIs
  <2>3. \A k \in JobId : RowQuiet(k)
    BY <1>0, <2>1, <2>2, SeenRows
  <2>4. consumer'[c].pc \in {"away", "drain", "decide"} /\ \A d \in Consumer \ {c} : consumer'[d] = consumer[d]
    <3>0. consumer \in [Consumer -> ConsumerRow]
      BY <1>0 DEF ConsumersTyped
    <3>1. CASE consumer' = [consumer EXCEPT ![c] = Away]
      BY <3>0, <3>1 DEF Away
    <3>2. ASSUME NEW pc \in {"drain", "decide"},
                 consumer' = [consumer EXCEPT ![c] = [consumer[c] EXCEPT !.view = Seen(j).status, !.pc = pc]]
          PROVE  consumer'[c].pc = pc /\ \A d \in Consumer \ {c} : consumer'[d] = consumer[d]
      <4>1. PICK row : row = [consumer[c] EXCEPT !.view = Seen(j).status, !.pc = pc]
        OBVIOUS
      <4>2. row.pc = pc
        BY <3>0, <4>1 DEF ConsumerRow
      <4> QED BY <3>0, <3>2, <4>1, <4>2
    <3> QED BY <1>8, <3>1, <3>2 DEF Poll
  <2> QED BY <1>a, <2>1, <2>3, <2>4
<1>9. ASSUME NEW c \in Consumer, ConsumeNotice(c) PROVE RowsSound' /\ LastWord' /\ LinesFresh'
  <2> DEFINE j == consumer[c].job
  <2>1. ~At(c, "away") /\ UNCHANGED <<line, shown, said>>
    BY <1>9 DEF ConsumeNotice, At
  <2>2. j \in JobId
    BY <1>0, <2>1, BusyIs
  <2>3. CASE job[j].status \in Failed /\ ~job[j].notice /\ job' = [job EXCEPT ![j].notice = TRUE]
             /\ (Goto(c, "sorry") \/ GoAway(c))
    <3>1. /\ job'[j].notice /\ job'[j].step = job[j].step /\ job'[j].status = job[j].status
          /\ \A k \in JobId \ {j} : job'[k] = job[k]
      BY <1>0, <2>2, <2>3 DEF JobRow
    <3>2. /\ consumer'[c].pc \in {"sorry", "away"} /\ \A d \in Consumer \ {c} : consumer'[d] = consumer[d]
          /\ consumer'[c].pc # "away" => consumer'[c].job = j
      <4>1. CASE Goto(c, "sorry")
        BY <1>0, <4>1, MovesTo
      <4>2. CASE GoAway(c)
        BY <1>0, <4>2 DEF GoAway, Away, ConsumersTyped
      <4> QED BY <2>3, <4>1, <4>2
    <3> QED BY <2>1, <2>2, <2>3, <3>1, <3>2, Granted
  <2>4. CASE GoAway(c) /\ UNCHANGED job
    BY <1>0, <1>a, <2>1, <2>4, SameRows, Leaves
  <2> QED BY <1>9, <2>3, <2>4 DEF ConsumeNotice
<1>10. ASSUME NEW c \in Consumer, Apologize(c) PROVE RowsSound' /\ LastWord' /\ LinesFresh'
  <2> DEFINE j == consumer[c].job
  <2>1. /\ At(c, "sorry") /\ ~At(c, "away") /\ GoAway(c) /\ said' = [said EXCEPT ![j] = @ + 1]
        /\ UNCHANGED <<job, line, shown>>
    BY <1>10 DEF Apologize, At, jobTables
  <2>2. j \in JobId
    BY <1>0, <2>1, BusyIs
  <2>3. Speaks(c, j) /\ consumer[c].pc = "sorry"
    BY <2>1 DEF Speaks, At
  <2> QED BY <2>1, <2>2, <2>3, Spoken
<1>11. ASSUME NEW c \in Consumer, PostReply(c) PROVE RowsSound' /\ LastWord' /\ LinesFresh'
  <2> DEFINE j == consumer[c].job
  <2>1. /\ At(c, "reply") /\ ~At(c, "away") /\ GoAway(c) /\ said' = [said EXCEPT ![j] = @ + 1]
        /\ UNCHANGED <<line, shown>>
    BY <1>11 DEF PostReply, At
  <2>2. j \in JobId
    BY <1>0, <2>1, BusyIs
  <2>3. PICK s \in {"delivered", "uncertain"} : job' = [job EXCEPT ![j].step = s]
    BY <1>11 DEF PostReply
  <2>4. /\ job'[j].step = s /\ job'[j].status = job[j].status /\ job'[j].notice = job[j].notice
        /\ \A k \in JobId \ {j} : job'[k] = job[k]
    BY <1>0, <2>2, <2>3 DEF JobRow
  <2>5. Speaks(c, j) /\ consumer[c].pc = "reply"
    BY <2>1 DEF Speaks, At
  <2> QED BY <2>1, <2>2, <2>4, <2>5, Spoken
<1>12. ASSUME NEW c \in Consumer, ClaimReply(c) PROVE RowsSound' /\ LastWord' /\ LinesFresh'
  <2> DEFINE j == consumer[c].job
  <2>1. ~At(c, "away") /\ UNCHANGED <<line, shown, said>>
    BY <1>12 DEF ClaimReply, At
  <2>2. j \in JobId
    BY <1>0, <2>1, BusyIs
  <2>3. CASE job[j].step = "generated" /\ job' = [job EXCEPT ![j].step = "claimed"] /\ Goto(c, "reply")
    <3>1. /\ job'[j].step = "claimed" /\ job'[j].status = job[j].status /\ job'[j].notice = job[j].notice
          /\ \A k \in JobId \ {j} : job'[k] = job[k]
      BY <1>0, <2>2, <2>3 DEF JobRow
    <3>2. /\ consumer'[c].pc = "reply" /\ consumer'[c].job = j
          /\ \A d \in Consumer \ {c} : consumer'[d] = consumer[d]
      BY <1>0, <2>3, MovesTo
    <3> QED BY <2>1, <2>2, <2>3, <3>1, <3>2, Granted
  <2>4. CASE GoAway(c) /\ UNCHANGED job
    BY <1>0, <1>a, <2>1, <2>4, SameRows, Leaves
  <2> QED BY <1>12, <2>3, <2>4 DEF ClaimReply
<1>13. ASSUME NEW c \in Consumer, ConsumerEnds(c) PROVE RowsSound' /\ LastWord' /\ LinesFresh'
  <2>1. GoAway(c) /\ UNCHANGED <<job, line, shown, said>>
    BY <1>13 DEF ConsumerEnds, jobTables
  <2> QED BY <1>0, <1>a, <2>1, SameRows, Leaves
<1> QED BY <1>1, <1>2, <1>3, <1>4, <1>5, <1>6, <1>7, <1>8, <1>9, <1>10, <1>11, <1>12, <1>13
        DEF ConsumerStep, Progress, Ending

LEMMA SpokenStep == SpokenInv /\ [TurnJobNext]_jobVars => SpokenInv'
<1> SUFFICES ASSUME SpokenInv, [TurnJobNext]_jobVars PROVE SpokenInv'
  OBVIOUS
<1>1. CASE ManagerStep
  <2>1. Typed'
    BY <1>1, ManagerTypes DEF SpokenInv
  <2>2. /\ \A j \in JobId : RowQuiet(j) /\ LineQuiet(j)
        /\ UNCHANGED <<consumer, shown, said>>
    BY <1>1, ManagerQuiet DEF SpokenInv
  <2>3. SpeakersQuiet /\ ShowersQuiet
    BY <2>2 DEF SpeakersQuiet, ShowersQuiet
  <2> QED BY <2>1, <2>2, <2>3, QuietRows, QuietLines, TypedParts DEF SpokenInv
<1>2. CASE ConsumerStep
  BY <1>2, ConsumerTypes, ConsumerSpeaks DEF SpokenInv
<1>3. CASE UNCHANGED jobVars
  BY <1>3 DEF SpokenInv, Typed, TurnJobTypeOK, Busy, HistoryTyped, RowsSound, LastWord, Speaks,
              LinesFresh, Shows, jobVars, jobTables, jobManager
<1> QED BY <1>1, <1>2, <1>3 DEF TurnJobNext, ManagerStep, ConsumerStep

\* Every step of the manager and of the consumers keeps the types: no queue, table or cursor
\* leaves its range.
THEOREM TurnJobsTypeCorrect == TurnJobSpec => []TurnJobTypeOK
<1>1. SpokenInv => TurnJobTypeOK
  BY DEF SpokenInv, Typed
<1> QED BY <1>1, SpokenInit, SpokenStep, PTL DEF TurnJobSpec

\* However many handlers and recovery tasks wait for a turn, and whatever is lost between them
\* and the Core, a progress line is posted at most once and the turn ends at most once, with a
\* reply or with an apology (claim_progress, acknowledge_final_notice, claim_delivery).
THEOREM TurnSpokenOnce == TurnJobSpec => []SpokenOnce
<1>1. SpokenInv => SpokenOnce
  BY DEF SpokenInv, LastWord, LinesFresh, SpokenOnce
<1> QED BY <1>1, SpokenInit, SpokenStep, PTL DEF TurnJobSpec
(***************************************************************************)
(* Web rooms                                                               *)
(***************************************************************************)
Working(b) == bridge[b].pc # "idle"

\* A bridge whose claim is the one its row carries.
Current(b) == Working(b) /\ bridge[b].nonce = mail[bridge[b].mail].nonce

MailShaped ==
  /\ mail = [m \in Mail |-> mail[m]] /\ posts = [m \in Mail |-> posts[m]]
  /\ \A m \in Mail : DOMAIN mail[m] = DOMAIN NoRow

BridgeShaped ==
  /\ bridge = [b \in Bridge |-> bridge[b]]
  /\ \A b \in Bridge : /\ DOMAIN bridge[b] = DOMAIN Idle
                       /\ bridge[b].pc \in {"idle", "claimed", "send", "ack"}
                       /\ Working(b) => bridge[b].mail \in Mail

\* A nonce is drawn for one claim of one bridge; a row that nobody claimed has none.
RowNonces ==
  /\ claims \in Nat
  /\ \A m \in Mail : /\ mail[m].nonce \in 0..claims
                     /\ mail[m].status \in {"none", "pending"} => mail[m].nonce = 0
BridgeNonces ==
  /\ \A b \in Bridge : Working(b) => bridge[b].nonce \in 1..claims
  /\ \A b, c \in Bridge : Working(b) /\ Working(c) /\ bridge[b].nonce = bridge[c].nonce => b = c

RowTrue(m) ==
  /\ posts[m] \in {0, 1}
  /\ mail[m].status = "delivered" => posts[m] = 1
  /\ mail[m].status \in {"none", "pending", "failed", "cancelled"} => posts[m] = 0
  /\ mail[m].route # "pending" => mail[m].status = "delivered"
  /\ mail[m].route = "processed" => m \in handled

\* What a bridge with a claim that stands knows of its row: before the post nothing was posted
\* and nobody else settled the row, and the result it will acknowledge says what it did.
BridgeTrue(b) ==
  Current(b) =>
    /\ bridge[b].pc \in {"claimed", "send"} =>
         posts[bridge[b].mail] = 0 /\ mail[bridge[b].mail].status \in {"claimed", "uncertain"}
    /\ bridge[b].pc = "ack" =>
         /\ bridge[b].result \in {"delivered", "uncertain", "failed", "cancelled"}
         /\ bridge[b].result = "delivered" => posts[bridge[b].mail] = 1
         /\ bridge[b].result \in {"failed", "cancelled"} => posts[bridge[b].mail] = 0

WebInv ==
  /\ MailShaped /\ BridgeShaped /\ RowNonces /\ BridgeNonces
  /\ (\A m \in Mail : RowTrue(m)) /\ \A b \in Bridge : BridgeTrue(b)

\* What a step that is not a bridge's may do to a row: nothing, refuse a row that waits,
\* doubt a claimed one, begin one, or forget it with its history.
RowBenign(m) ==
  \/ /\ mail'[m].nonce = mail[m].nonce /\ posts'[m] = posts[m] /\ mail'[m].route = mail[m].route
     /\ (m \in handled => m \in handled')
     /\ \/ mail'[m].status = mail[m].status
        \/ mail[m].status = "pending" /\ mail'[m].status \in {"failed", "cancelled"}
        \/ mail[m].status = "claimed" /\ mail'[m].status = "uncertain"
        \/ mail[m].status = "none" /\ mail'[m].status = "pending"
  \/ /\ mail'[m].nonce = 0 /\ posts'[m] = 0 /\ mail'[m].route = "pending"
     /\ mail'[m].status = "none"

LEMMA BenignKeeps ==
  ASSUME WebInv, UNCHANGED <<bridge, claims>>, MailShaped', \A m \in Mail : RowBenign(m)
  PROVE  WebInv'
<1>1. BridgeShaped' /\ BridgeNonces'
  BY DEF WebInv, BridgeShaped, BridgeNonces, Working
<1>2. RowNonces'
  <2>1. ASSUME NEW m \in Mail
        PROVE  /\ mail'[m].nonce \in 0..claims
               /\ mail'[m].status \in {"none", "pending"} => mail'[m].nonce = 0
    <3>1. /\ claims \in Nat /\ mail[m].nonce \in 0..claims
          /\ mail[m].status \in {"none", "pending"} => mail[m].nonce = 0
      BY DEF WebInv, RowNonces
    <3> QED BY <3>1, RowBenign(m) DEF RowBenign
  <2> QED BY <2>1 DEF WebInv, RowNonces
<1>3. ASSUME NEW m \in Mail PROVE RowTrue(m)'
  BY RowBenign(m) DEF WebInv, RowTrue, RowBenign
<1>4. ASSUME NEW b \in Bridge PROVE BridgeTrue(b)'
  <2>1. CASE ~ Current(b)'
    BY <2>1 DEF BridgeTrue
  <2>2. CASE Current(b)'
    <3> DEFINE m == bridge[b].mail
    <3>1. Working(b) /\ bridge[b].nonce = mail'[m].nonce /\ m \in Mail /\ bridge[b].nonce \in 1..claims
      BY <2>2 DEF Current, Working, WebInv, BridgeShaped, BridgeNonces
    <3>2. mail'[m].nonce # 0
      BY <3>1 DEF WebInv, RowNonces
    <3>3. /\ mail'[m].nonce = mail[m].nonce /\ posts'[m] = posts[m]
          /\ mail[m].status \in {"claimed", "uncertain"} => mail'[m].status \in {"claimed", "uncertain"}
      BY <3>1, <3>2 DEF RowBenign
    <3>4. BridgeTrue(b) /\ Current(b)
      BY <3>1, <3>3 DEF WebInv, Current
    <3> QED BY <3>3, <3>4 DEF BridgeTrue, Current
  <2> QED BY <2>1, <2>2
<1> QED BY <1>1, <1>2, <1>3, <1>4 DEF WebInv

LEMMA BenignRows ==
  ASSUME WebInv, UNCHANGED <<mail, posts, handled>>
  PROVE  MailShaped' /\ \A m \in Mail : RowBenign(m)
BY DEF WebInv, MailShaped, RowBenign

\* Rows that are written with EXCEPT keep their other fields.
LEMMA RowsRewritten ==
  ASSUME WebInv, UNCHANGED posts, mail' = [m \in Mail |-> mail'[m]],
         \A m \in Mail : DOMAIN mail'[m] = DOMAIN NoRow
  PROVE  MailShaped'
BY DEF WebInv, MailShaped

LEMMA CancelBenign ==
  ASSUME WebInv, NEW rows, CancelPending(rows), UNCHANGED <<posts, handled>>
  PROVE  MailShaped' /\ \A m \in Mail : RowBenign(m)
<1>1. ASSUME NEW m \in Mail
      PROVE  /\ DOMAIN mail'[m] = DOMAIN NoRow /\ mail'[m].nonce = mail[m].nonce
             /\ mail'[m].route = mail[m].route
             /\ \/ mail'[m].status = mail[m].status
                \/ mail[m].status = "pending" /\ mail'[m].status = "cancelled"
  <2>1. DOMAIN mail[m] = DOMAIN NoRow
    BY DEF WebInv, MailShaped
  <2>2. CASE mail'[m] = mail[m]
    BY <2>1, <2>2
  <2>3. CASE mail[m].status = "pending" /\ mail'[m] = [mail[m] EXCEPT !.status = "cancelled"]
    BY <2>1, <2>3 DEF NoRow
  <2> QED BY <2>2, <2>3 DEF CancelPending
<1>2. mail' = [m \in Mail |-> mail'[m]]
  BY DEF CancelPending
<1> QED BY <1>1, <1>2, RowsRewritten DEF RowBenign

LEMMA PortalBenign ==
  ASSUME WebInv, Portal
  PROVE  WebInv'
<1>1. CASE \E r \in Place : Publish(r)
  <2>1. UNCHANGED <<bridge, claims, mail, posts, handled>>
    BY <1>1 DEF Publish, webBridge
  <2> QED BY <2>1, BenignRows, BenignKeeps
<1>2. ASSUME NEW r \in Place, NEW e \in BOOLEAN, Configure(r, e) PROVE WebInv'
  <2>1. UNCHANGED <<bridge, claims, posts, handled>> /\ (UNCHANGED mail \/ CancelPending(Into(r)))
    BY <1>2 DEF Configure, webBridge
  <2> QED BY <2>1, BenignRows, CancelBenign, BenignKeeps
<1>3. ASSUME NEW r \in Place, NEW p \in Person, NEW right \in Right, Member(r, p, right) PROVE WebInv'
  <2>1. /\ UNCHANGED <<bridge, claims, posts, handled>>
        /\ UNCHANGED mail \/ CancelPending(Into(r) \cap WrittenBy(p))
    BY <1>3 DEF Member, webBridge
  <2> QED BY <2>1, BenignRows, CancelBenign, BenignKeeps
<1>4. CASE \E f \in Upload, r \in Place, p \in Person : CreateAttachment(f, r, p)
  <2>1. UNCHANGED <<bridge, claims, mail, posts, handled>>
    BY <1>4 DEF CreateAttachment, webBridge
  <2> QED BY <2>1, BenignRows, BenignKeeps
<1>5. ASSUME NEW m \in Mail, NEW load \in Load, Enqueue(m, load) PROVE WebInv'
  <2>1. PICK row : row = [NoRow EXCEPT !.status = "pending", !.load = load]
    OBVIOUS
  <2>2. /\ UNCHANGED <<bridge, claims, posts, handled>> /\ mail[m].status = "none"
        /\ mail' = [mail EXCEPT ![m] = row]
    BY <1>5, <2>1 DEF Enqueue, webBridge
  <2>3. DOMAIN row = DOMAIN NoRow /\ row.status = "pending" /\ row.nonce = 0 /\ row.route = "pending"
    BY <2>1 DEF NoRow
  <2>4. /\ mail' = [k \in Mail |-> mail'[k]] /\ mail'[m] = row
        /\ \A k \in Mail : k # m => mail'[k] = mail[k]
    BY <2>2 DEF WebInv, MailShaped
  <2>5. MailShaped'
    BY <2>2, <2>3, <2>4, RowsRewritten DEF WebInv, MailShaped
  <2>6. mail[m].nonce = 0 /\ mail[m].route = "pending"
    BY <2>2 DEF WebInv, RowNonces, RowTrue
  <2>7. ASSUME NEW k \in Mail PROVE RowBenign(k)
    BY <2>2, <2>3, <2>4, <2>6 DEF RowBenign
  <2> QED BY <2>2, <2>5, <2>7, BenignKeeps
<1>6. ASSUME NEW p \in Person, DeleteOwner(p) PROVE WebInv'
  <2>1. UNCHANGED <<bridge, claims>> /\ mail' = [m \in Mail |-> mail'[m]]
        /\ posts' = [m \in Mail |-> posts'[m]]
    BY <1>6 DEF DeleteOwner, webBridge
  <2>2. ASSUME NEW m \in Mail
        PROVE  \/ mail'[m] = NoRow /\ posts'[m] = 0
               \/ mail'[m] = mail[m] /\ posts'[m] = posts[m] /\ (m \in handled => m \in handled')
    BY <1>6 DEF DeleteOwner
  <2>3. MailShaped'
    BY <2>1, <2>2 DEF WebInv, MailShaped
  <2>4. ASSUME NEW m \in Mail PROVE RowBenign(m)
    BY <2>2 DEF RowBenign, NoRow
  <2> QED BY <2>1, <2>3, <2>4, BenignKeeps
<1> QED BY <1>1, <1>2, <1>3, <1>4, <1>5, <1>6 DEF Portal

\* Time, Discord, the end of an account and the refresh of a bridge.
LEMMA ElsewhereBenign ==
  ASSUME WebInv,
         \/ Elsewhere \/ Lapse
         \/ \E m \in Mail : Age(m) \/ ClaimStale(m)
         \/ \E b \in Bridge, r \in Place : RefreshDenied(b, r) \/ \E h \in Hook : Refresh(b, r, h)
         \/ \E b \in Bridge, m \in Mail : Dispatch(b, m)
  PROVE  WebInv'
<1>1. CASE \/ Elsewhere \/ Lapse
           \/ \E b \in Bridge, r \in Place : RefreshDenied(b, r) \/ \E h \in Hook : Refresh(b, r, h)
           \/ \E b \in Bridge, m \in Mail : Dispatch(b, m)
  <2>1. UNCHANGED <<bridge, claims, mail, posts, handled>>
    BY <1>1 DEF Elsewhere, Lapse, RefreshDenied, Refresh, Dispatch, webCore, webBridge
  <2> QED BY <2>1, BenignRows, BenignKeeps
<1>2. ASSUME NEW m \in Mail, Age(m) \/ ClaimStale(m) PROVE WebInv'
  <2>1. UNCHANGED <<bridge, claims, posts, handled>>
    BY <1>2 DEF Age, ClaimStale, webBridge
  <2>2. PICK row : /\ mail' = [mail EXCEPT ![m] = row] /\ DOMAIN row = DOMAIN NoRow
                   /\ row.status = mail[m].status /\ row.nonce = mail[m].nonce
                   /\ row.route = mail[m].route
    <3>0. DOMAIN mail[m] = DOMAIN NoRow
      BY DEF WebInv, MailShaped
    <3>1. PICK aged : aged = [mail[m] EXCEPT !.age = mail[m].age + 1]
      OBVIOUS
    <3>2. PICK stale : stale = [mail[m] EXCEPT !.stale = TRUE]
      OBVIOUS
    <3>3. CASE Age(m)
      <4>1. mail' = [mail EXCEPT ![m] = aged]
        BY <3>1, <3>3 DEF Age
      <4>2. /\ DOMAIN aged = DOMAIN NoRow /\ aged.status = mail[m].status
            /\ aged.nonce = mail[m].nonce /\ aged.route = mail[m].route
        BY <3>0, <3>1 DEF NoRow
      <4> QED BY <4>1, <4>2
    <3>4. CASE ClaimStale(m)
      <4>1. mail' = [mail EXCEPT ![m] = stale]
        BY <3>2, <3>4 DEF ClaimStale
      <4>2. /\ DOMAIN stale = DOMAIN NoRow /\ stale.status = mail[m].status
            /\ stale.nonce = mail[m].nonce /\ stale.route = mail[m].route
        BY <3>0, <3>2 DEF NoRow
      <4> QED BY <4>1, <4>2
    <3> QED BY <1>2, <3>3, <3>4
  <2>3. /\ mail' = [k \in Mail |-> mail'[k]] /\ mail'[m] = row
        /\ \A k \in Mail : k # m => mail'[k] = mail[k]
    BY <2>2 DEF WebInv, MailShaped
  <2>4. MailShaped'
    BY <2>1, <2>2, <2>3, RowsRewritten DEF WebInv, MailShaped
  <2>5. ASSUME NEW k \in Mail PROVE RowBenign(k)
    BY <2>1, <2>2, <2>3 DEF RowBenign
  <2> QED BY <2>1, <2>4, <2>5, BenignKeeps
<1> QED BY <1>1, <1>2

\* What a dispatch records, once it was handed to the Characters or failed for good.
LEMMA DispatchKeeps ==
  ASSUME WebInv, NEW b \in Bridge, NEW m \in Mail, Dispatched(b, m) \/ DispatchFails(b, m)
  PROVE  WebInv'
<1>1. UNCHANGED <<bridge, claims, posts>> /\ handled \subseteq handled'
  BY DEF Dispatched, DispatchFails, webCore
<1>2. \/ UNCHANGED mail
      \/ \E outcome \in {"processed", "failed"} :
           /\ mail[m].status = "delivered" /\ mail' = [mail EXCEPT ![m].route = outcome]
           /\ outcome = "processed" => m \in handled'
  BY DEF Dispatched, DispatchFails, FinishDispatch
<1>3. CASE UNCHANGED mail
  BY <1>1, <1>3 DEF WebInv, MailShaped, BridgeShaped, RowNonces, BridgeNonces, RowTrue, BridgeTrue,
                    Current, Working
<1>4. ASSUME NEW outcome \in {"processed", "failed"}, mail[m].status = "delivered",
             mail' = [mail EXCEPT ![m].route = outcome], outcome = "processed" => m \in handled'
      PROVE  WebInv'
  <2>1. DOMAIN mail[m] = DOMAIN NoRow
    BY DEF WebInv, MailShaped
  <2>2. /\ mail' = [k \in Mail |-> mail'[k]]
        /\ mail'[m] = [mail[m] EXCEPT !.route = outcome]
        /\ \A k \in Mail : k # m => mail'[k] = mail[k]
    BY <1>4 DEF WebInv, MailShaped
  <2>3. /\ DOMAIN mail'[m] = DOMAIN NoRow /\ mail'[m].status = mail[m].status
        /\ mail'[m].nonce = mail[m].nonce /\ mail'[m].route = outcome
    BY <2>1, <2>2 DEF NoRow
  <2>4. \A k \in Mail : mail'[k].status = mail[k].status /\ mail'[k].nonce = mail[k].nonce
    BY <2>2, <2>3
  <2>5. MailShaped'
    BY <1>1, <2>2, <2>3, RowsRewritten DEF WebInv, MailShaped
  <2>6. BridgeShaped' /\ BridgeNonces' /\ RowNonces'
    BY <1>1, <2>4 DEF WebInv, BridgeShaped, BridgeNonces, RowNonces, Working
  <2>7. ASSUME NEW k \in Mail PROVE RowTrue(k)'
    BY <1>1, <1>4, <2>2, <2>3 DEF WebInv, RowTrue
  <2>8. ASSUME NEW c \in Bridge PROVE BridgeTrue(c)'
    <3>1. Current(c)' => Current(c) /\ bridge[c].mail \in Mail
      BY <1>1, <2>4 DEF Current, Working, WebInv, BridgeShaped
    <3> QED BY <1>1, <2>4, <3>1 DEF WebInv, BridgeTrue
  <2> QED BY <2>5, <2>6, <2>7, <2>8 DEF WebInv
<1> QED BY <1>2, <1>3, <1>4

\* A step of one bridge that leaves the table alone and knows of its row what is true.
LEMMA BridgeMoves ==
  ASSUME WebInv, NEW b \in Bridge, NEW x, bridge' = [bridge EXCEPT ![b] = x],
         UNCHANGED <<mail, claims, posts, handled>>, DOMAIN x = DOMAIN Idle,
         x.pc \in {"idle", "claimed", "send", "ack"},
         x.pc # "idle" => Working(b) /\ x.mail = bridge[b].mail /\ x.nonce = bridge[b].nonce,
         BridgeTrue(b)'
  PROVE  WebInv'
<1>1. /\ bridge' = [c \in Bridge |-> bridge'[c]] /\ bridge'[b] = x
      /\ \A c \in Bridge : c # b => bridge'[c] = bridge[c]
  BY DEF WebInv, BridgeShaped
<1>2. MailShaped' /\ RowNonces' /\ \A m \in Mail : RowTrue(m)'
  BY DEF WebInv, MailShaped, RowNonces, RowTrue
<1>3. \A c \in Bridge : Working(c)' => /\ Working(c) /\ bridge'[c].mail = bridge[c].mail
                                       /\ bridge'[c].nonce = bridge[c].nonce
  BY <1>1 DEF Working
<1>4. BridgeShaped'
  BY <1>1, <1>3 DEF WebInv, BridgeShaped
<1>5. BridgeNonces'
  BY <1>3 DEF WebInv, BridgeNonces
<1>6. ASSUME NEW c \in Bridge PROVE BridgeTrue(c)'
  <2>1. CASE c = b
    BY <2>1
  <2>2. CASE c # b
    BY <1>1, <2>2 DEF WebInv, BridgeTrue, Current, Working
  <2> QED BY <2>1, <2>2
<1> QED BY <1>2, <1>4, <1>5, <1>6 DEF WebInv

LEMMA BridgeIdles ==
  ASSUME WebInv, NEW b \in Bridge, bridge' = [bridge EXCEPT ![b] = Idle],
         UNCHANGED <<mail, claims, posts, handled>>
  PROVE  WebInv'
<1>1. Idle.pc = "idle"
  BY DEF Idle
<1>2. bridge'[b] = Idle
  BY DEF WebInv, BridgeShaped
<1>3. BridgeTrue(b)'
  BY <1>1, <1>2 DEF BridgeTrue, Current, Working
<1> QED BY <1>1, <1>3, BridgeMoves

\* The result a bridge takes to the acknowledgement.
LEMMA AckIs ==
  ASSUME WebInv, NEW b \in Bridge, NEW result, NEW receipt, NEW left, Ack(b, result, receipt, left)
  PROVE  \E x : /\ bridge' = [bridge EXCEPT ![b] = x] /\ DOMAIN x = DOMAIN Idle
                /\ x.pc = "ack" /\ x.result = result /\ x.mail = bridge[b].mail
                /\ x.nonce = bridge[b].nonce
<1>1. PICK x : x = [bridge[b] EXCEPT !.pc = "ack", !.result = result, !.receipt = receipt, !.left = left]
  OBVIOUS
<1>2. bridge' = [bridge EXCEPT ![b] = x]
  BY <1>1 DEF Ack, WebInv, BridgeShaped
<1>3. DOMAIN bridge[b] = DOMAIN Idle
  BY DEF WebInv, BridgeShaped
<1>4. /\ DOMAIN x = DOMAIN Idle /\ x.pc = "ack" /\ x.result = result /\ x.mail = bridge[b].mail
      /\ x.nonce = bridge[b].nonce
  BY <1>1, <1>3 DEF Idle
<1> QED BY <1>2, <1>4

LEMMA GivesUp ==
  ASSUME WebInv, NEW b \in Bridge, bridge[b].pc \in {"claimed", "send"},
         NEW result \in {"cancelled", "failed"}, NEW receipt, NEW left, Ack(b, result, receipt, left),
         UNCHANGED <<mail, claims, posts, handled>>
  PROVE  WebInv'
<1>1. PICK x : /\ bridge' = [bridge EXCEPT ![b] = x] /\ DOMAIN x = DOMAIN Idle
               /\ x.pc = "ack" /\ x.result = result /\ x.mail = bridge[b].mail
               /\ x.nonce = bridge[b].nonce
  BY AckIs
<1>2. bridge'[b] = x
  BY <1>1 DEF WebInv, BridgeShaped
<1>3. CASE Current(b)
  <2>1. posts[bridge[b].mail] = 0
    BY <1>3 DEF WebInv, BridgeTrue
  <2> QED BY <1>1, <1>2, <2>1, BridgeMoves DEF BridgeTrue, Working
<1>4. CASE ~ Current(b)
  <2>1. ~ Current(b)'
    BY <1>1, <1>2, <1>4 DEF Current, Working
  <2> QED BY <1>1, <2>1, BridgeMoves DEF BridgeTrue, Working
<1> QED BY <1>3, <1>4

\* After an answer, or without one: the bridge is done, or tries again with what it has.
LEMMA AnswerIs ==
  ASSUME WebInv, NEW b \in Bridge, bridge[b].pc = "ack",
         bridge' = [bridge EXCEPT ![b] = Idle] \/ Retry(b)
  PROVE  \E x : /\ bridge' = [bridge EXCEPT ![b] = x] /\ DOMAIN x = DOMAIN Idle
                /\ \/ x.pc = "idle"
                   \/ /\ x.pc = "ack" /\ x.result = bridge[b].result
                      /\ x.mail = bridge[b].mail /\ x.nonce = bridge[b].nonce
<1>1. CASE bridge' = [bridge EXCEPT ![b] = Idle]
  <2>1. Idle.pc = "idle"
    BY DEF Idle
  <2> QED BY <1>1, <2>1
<1>2. CASE Retry(b)
  <2>1. PICK x : x = [bridge[b] EXCEPT !.left = bridge[b].left - 1]
    OBVIOUS
  <2>2. DOMAIN bridge[b] = DOMAIN Idle
    BY DEF WebInv, BridgeShaped
  <2>3. /\ DOMAIN x = DOMAIN Idle /\ x.pc = "ack" /\ x.result = bridge[b].result
        /\ x.mail = bridge[b].mail /\ x.nonce = bridge[b].nonce
    BY <2>1, <2>2 DEF Idle
  <2>4. CASE bridge[b].left > 1
    <3>1. bridge' = [bridge EXCEPT ![b] = x]
      BY <1>2, <2>1, <2>4 DEF Retry, WebInv, BridgeShaped
    <3> QED BY <2>3, <3>1
  <2>5. CASE ~ (bridge[b].left > 1)
    BY <1>1, <1>2, <2>5 DEF Retry
  <2> QED BY <2>4, <2>5
<1> QED BY <1>1, <1>2

LEMMA RetryKeeps ==
  ASSUME WebInv, NEW b \in Bridge, bridge[b].pc = "ack", Retry(b),
         UNCHANGED <<mail, claims, posts, handled>>
  PROVE  WebInv'
<1>1. PICK x : /\ bridge' = [bridge EXCEPT ![b] = x] /\ DOMAIN x = DOMAIN Idle
               /\ \/ x.pc = "idle"
                  \/ /\ x.pc = "ack" /\ x.result = bridge[b].result
                     /\ x.mail = bridge[b].mail /\ x.nonce = bridge[b].nonce
  BY AnswerIs
<1>2. bridge'[b] = x
  BY <1>1 DEF WebInv, BridgeShaped
<1>3. BridgeTrue(b)
  BY DEF WebInv
<1>4. Current(b)' => Current(b) /\ x.pc # "idle"
  BY <1>1, <1>2 DEF Current, Working
<1>5. BridgeTrue(b)'
  BY <1>1, <1>2, <1>3, <1>4 DEF BridgeTrue
<1> QED BY <1>1, <1>5, BridgeMoves DEF Working

LEMMA BridgePlain ==
  ASSUME WebInv, NEW b \in Bridge,
         CanSendFails(b) \/ CheckSending(b) \/ Unsendable(b) \/ PostRefused(b) \/ AckLost(b)
           \/ BridgeCrash(b)
  PROVE  WebInv'
<1>0. UNCHANGED <<mail, claims, posts, handled>>
  BY DEF CanSendFails, CheckSending, Unsendable, PostRefused, AckLost, BridgeCrash
<1>1. CASE CanSendFails(b) \/ BridgeCrash(b)
  BY <1>0, <1>1, BridgeIdles DEF CanSendFails, BridgeCrash
<1>2. CASE CheckSending(b)
  <2>1. CASE Ack(b, "cancelled", 0, 1)
    BY <1>0, <1>2, <2>1, GivesUp DEF CheckSending
  <2>2. CASE bridge' = [bridge EXCEPT ![b].pc = "send"]
    <3>1. PICK x : x = [bridge[b] EXCEPT !.pc = "send"]
      OBVIOUS
    <3>2. DOMAIN bridge[b] = DOMAIN Idle /\ bridge[b].pc = "claimed"
      BY <1>2 DEF WebInv, BridgeShaped, CheckSending
    <3>3. DOMAIN x = DOMAIN Idle /\ x.pc = "send" /\ x.mail = bridge[b].mail /\ x.nonce = bridge[b].nonce
      BY <3>1, <3>2 DEF Idle
    <3>4. bridge' = [bridge EXCEPT ![b] = x] /\ bridge'[b] = x
      BY <2>2, <3>1 DEF WebInv, BridgeShaped
    <3>5. BridgeTrue(b)'
      BY <1>0, <3>2, <3>3, <3>4 DEF WebInv, BridgeTrue, Current, Working
    <3> QED BY <1>0, <3>2, <3>3, <3>4, <3>5, BridgeMoves DEF Working
  <2> QED BY <1>2, <2>1, <2>2 DEF CheckSending
<1>3. CASE Unsendable(b)
  BY <1>0, <1>3, GivesUp DEF Unsendable
<1>4. CASE PostRefused(b)
  BY <1>0, <1>4, GivesUp DEF PostRefused
<1>5. CASE AckLost(b)
  BY <1>0, <1>5, RetryKeeps DEF AckLost
<1> QED BY <1>1, <1>2, <1>3, <1>4, <1>5

\* The post itself: only a claim that stands counts, and it had not posted.
LEMMA PostKeeps ==
  ASSUME WebInv, NEW b \in Bridge, Post(b)
  PROVE  WebInv'
<1> DEFINE m == bridge[b].mail
<1>1. /\ bridge[b].pc = "send" /\ UNCHANGED <<mail, claims, handled>>
      /\ posts' = [posts EXCEPT ![m] = IF mail[m].nonce = bridge[b].nonce THEN @ + 1 ELSE @]
      /\ \E result \in {"delivered", "uncertain"} : \E receipt : Ack(b, result, receipt, AckTries)
  BY DEF Post
<1>2. PICK result \in {"delivered", "uncertain"} : \E receipt : Ack(b, result, receipt, AckTries)
  BY <1>1
<1>3. PICK x : /\ bridge' = [bridge EXCEPT ![b] = x] /\ DOMAIN x = DOMAIN Idle
               /\ x.pc = "ack" /\ x.result = result /\ x.mail = m /\ x.nonce = bridge[b].nonce
  BY <1>2, AckIs, Zenon
<1>4. m \in Mail /\ Working(b)
  BY <1>1 DEF WebInv, BridgeShaped, Working
<1>5. CASE ~ Current(b)
  <2>1. UNCHANGED posts
    BY <1>1, <1>4, <1>5 DEF Current, WebInv, MailShaped
  <2>2. bridge'[b] = x
    BY <1>3 DEF WebInv, BridgeShaped
  <2>3. ~ Current(b)'
    BY <1>1, <1>3, <1>4, <1>5, <2>2 DEF Current
  <2> QED BY <1>1, <1>3, <1>4, <2>1, <2>3, BridgeMoves DEF BridgeTrue
<1>6. CASE Current(b)
  <2>1. posts[m] = 0 /\ mail[m].status \in {"claimed", "uncertain"} /\ mail[m].nonce = bridge[b].nonce
    BY <1>1, <1>6 DEF WebInv, BridgeTrue, Current
  <2>2. posts'[m] = 1 /\ \A k \in Mail : k # m => posts'[k] = posts[k]
    BY <1>1, <1>4, <2>1 DEF WebInv, MailShaped
  <2>3. posts' = [k \in Mail |-> posts'[k]]
    BY <1>1 DEF WebInv, MailShaped
  <2>4. /\ bridge' = [c \in Bridge |-> bridge'[c]] /\ bridge'[b] = x
        /\ \A c \in Bridge : c # b => bridge'[c] = bridge[c]
    BY <1>3 DEF WebInv, BridgeShaped
  <2>5. MailShaped' /\ RowNonces'
    BY <1>1, <2>3 DEF WebInv, MailShaped, RowNonces
  <2>6. BridgeShaped'
    BY <1>3, <1>4, <2>4 DEF WebInv, BridgeShaped, Working
  <2>7. \A c \in Bridge : Working(c)' => Working(c) /\ bridge'[c].nonce = bridge[c].nonce
    BY <1>3, <1>4, <2>4 DEF Working
  <2>8. BridgeNonces'
    BY <1>1, <2>7 DEF WebInv, BridgeNonces
  <2>9. ASSUME NEW k \in Mail PROVE RowTrue(k)'
    <3>1. CASE k = m
      BY <1>1, <2>1, <2>2, <3>1 DEF WebInv, RowTrue
    <3>2. CASE k # m
      BY <1>1, <2>2, <3>2 DEF WebInv, RowTrue
    <3> QED BY <3>1, <3>2
  <2>10. ASSUME NEW c \in Bridge PROVE BridgeTrue(c)'
    <3>1. CASE c = b
      BY <1>3, <2>2, <2>4, <3>1 DEF BridgeTrue
    <3>2. CASE c # b
      <4>1. Current(c)' => Current(c) /\ bridge[c].mail \in Mail
        BY <1>1, <2>4, <3>2 DEF Current, Working, WebInv, BridgeShaped
      <4>2. Current(c)' => bridge[c].mail # m
        <5>1. Current(c) /\ bridge[c].mail = m => bridge[c].nonce = bridge[b].nonce
          BY <2>1 DEF Current
        <5> QED BY <1>4, <3>2, <4>1, <5>1 DEF WebInv, BridgeNonces, Current
      <4> QED BY <1>1, <2>2, <2>4, <3>2, <4>1, <4>2 DEF WebInv, BridgeTrue
    <3> QED BY <3>1, <3>2
  <2> QED BY <2>5, <2>6, <2>8, <2>9, <2>10 DEF WebInv
<1> QED BY <1>5, <1>6

\* The row takes the result of the claim that stands; whether the answer arrives or not.
LEMMA SettleKeeps ==
  ASSUME WebInv, NEW b \in Bridge, bridge[b].pc = "ack",
         Settles(bridge[b].mail, bridge[b].nonce, bridge[b].result, bridge[b].receipt, bridge[b].hook),
         Settle(bridge[b].mail, bridge[b].result, bridge[b].receipt),
         bridge' = [bridge EXCEPT ![b] = Idle] \/ Retry(b),
         UNCHANGED <<claims, posts, handled>>
  PROVE  WebInv'
<1> DEFINE m == bridge[b].mail
<1>1. /\ m \in Mail /\ Working(b) /\ Current(b) /\ mail[m].status \in {"claimed", "uncertain"}
      /\ DOMAIN mail[m] = DOMAIN NoRow
  BY DEF WebInv, BridgeShaped, MailShaped, Working, Current, Settles, Held
<1>2. /\ bridge[b].result \in {"delivered", "uncertain", "failed", "cancelled"}
      /\ bridge[b].result = "delivered" => posts[m] = 1
      /\ bridge[b].result \in {"failed", "cancelled"} => posts[m] = 0
  BY <1>1 DEF WebInv, BridgeTrue
<1>3. PICK row : row = [mail[m] EXCEPT !.status = bridge[b].result, !.receipt = bridge[b].receipt]
  OBVIOUS
<1>4. /\ DOMAIN row = DOMAIN NoRow /\ row.status = bridge[b].result
      /\ row.nonce = mail[m].nonce /\ row.route = mail[m].route
  BY <1>1, <1>3 DEF NoRow
<1>5. mail' = [mail EXCEPT ![m] = row]
  BY <1>1, <1>3 DEF Settle, WebInv, MailShaped
<1>6. /\ mail' = [k \in Mail |-> mail'[k]] /\ mail'[m] = row
      /\ \A k \in Mail : k # m => mail'[k] = mail[k]
  BY <1>1, <1>5 DEF WebInv, MailShaped
<1>7. MailShaped'
  BY <1>4, <1>6, RowsRewritten DEF WebInv, MailShaped
<1>8. RowNonces'
  BY <1>1, <1>2, <1>4, <1>6 DEF WebInv, RowNonces
<1>9. ASSUME NEW k \in Mail PROVE RowTrue(k)'
  <2>1. CASE k = m
    BY <1>1, <1>2, <1>4, <1>6, <2>1 DEF WebInv, RowTrue
  <2>2. CASE k # m
    BY <1>6, <2>2 DEF WebInv, RowTrue
  <2> QED BY <2>1, <2>2
<1>10. PICK x : /\ bridge' = [bridge EXCEPT ![b] = x] /\ DOMAIN x = DOMAIN Idle
                /\ \/ x.pc = "idle"
                   \/ /\ x.pc = "ack" /\ x.result = bridge[b].result
                      /\ x.mail = m /\ x.nonce = bridge[b].nonce
  BY AnswerIs
<1>11. /\ bridge' = [c \in Bridge |-> bridge'[c]] /\ bridge'[b] = x
       /\ \A c \in Bridge : c # b => bridge'[c] = bridge[c]
  BY <1>10 DEF WebInv, BridgeShaped
<1>12. \A c \in Bridge : Working(c)' => /\ Working(c) /\ bridge'[c].mail = bridge[c].mail
                                        /\ bridge'[c].nonce = bridge[c].nonce
  BY <1>1, <1>10, <1>11 DEF Working
<1>13. BridgeShaped'
  BY <1>10, <1>11, <1>12 DEF WebInv, BridgeShaped
<1>14. BridgeNonces'
  BY <1>12 DEF WebInv, BridgeNonces
<1>15. ASSUME NEW c \in Bridge PROVE BridgeTrue(c)'
  <2>1. CASE c = b
    <3>1. Current(b)' => bridge'[b].pc = "ack" /\ bridge'[b].result = bridge[b].result /\ bridge'[b].mail = m
      BY <1>10, <1>11 DEF Current, Working
    <3> QED BY <1>2, <2>1, <3>1 DEF BridgeTrue
  <2>2. CASE c # b
    <3>1. Current(c)' => Current(c) /\ bridge[c].mail \in Mail
      BY <1>4, <1>6, <1>11, <2>2 DEF Current, Working, WebInv, BridgeShaped
    <3>2. Current(c)' => bridge[c].mail # m
      BY <1>1, <2>2, <3>1 DEF WebInv, BridgeNonces, Current
    <3> QED BY <1>6, <1>11, <2>2, <3>1, <3>2 DEF WebInv, BridgeTrue
  <2> QED BY <2>1, <2>2
<1> QED BY <1>7, <1>8, <1>9, <1>13, <1>14, <1>15 DEF WebInv

LEMMA AcknowledgeKeeps ==
  ASSUME WebInv, NEW b \in Bridge, Acknowledge(b)
  PROVE  WebInv'
<1>1. bridge[b].pc = "ack" /\ UNCHANGED <<claims, posts, handled>>
  BY DEF Acknowledge
<1>2. CASE /\ Settles(bridge[b].mail, bridge[b].nonce, bridge[b].result, bridge[b].receipt, bridge[b].hook)
           /\ Settle(bridge[b].mail, bridge[b].result, bridge[b].receipt)
           /\ bridge' = [bridge EXCEPT ![b] = Idle] \/ Retry(b)
  BY <1>1, <1>2, SettleKeeps
<1>3. CASE UNCHANGED mail /\ (bridge' = [bridge EXCEPT ![b] = Idle] \/ Retry(b))
  BY <1>1, <1>3, BridgeIdles, RetryKeeps
<1> QED BY <1>2, <1>3 DEF Acknowledge

\* What a claim does to a row: it doubts an old claim, refuses a row that waits, or grants one
\* with a nonce that was never drawn.
RowClaimed(m, r) ==
  /\ DOMAIN mail'[m] = DOMAIN NoRow /\ mail'[m].route = mail[m].route
  /\ \/ /\ mail'[m].nonce = mail[m].nonce
        /\ \/ mail'[m].status = mail[m].status
           \/ mail[m].status = "pending" /\ mail'[m].status \in {"failed", "cancelled"}
           \/ mail[m].status = "claimed" /\ mail'[m].status = "uncertain"
     \/ /\ m \in Taken(r) /\ mail[m].status = "pending" /\ mail'[m].status = "claimed"
        /\ mail'[m].nonce = claims + 1

LEMMA RowsClaimed ==
  ASSUME WebInv, NEW b \in Bridge, NEW r \in Place, ClaimNext(b, r)
  PROVE  /\ mail' = [m \in Mail |-> mail'[m]]
         /\ \A m \in Mail : RowClaimed(m, r)
         /\ \A m \in Taken(r) : /\ m \in Mail /\ mail[m].status = "pending"
                                /\ mail'[m].status = "claimed" /\ mail'[m].nonce = claims + 1
<1>1. mail' = [m \in Mail |-> mail'[m]]
  BY DEF ClaimNext
<1>2. ASSUME NEW m \in Mail
      PROVE  /\ RowClaimed(m, r)
             /\ m \in Taken(r) => /\ mail[m].status = "pending" /\ mail'[m].status = "claimed"
                                  /\ mail'[m].nonce = claims + 1
  <2>1. DOMAIN mail[m] = DOMAIN NoRow
    BY DEF WebInv, MailShaped
  <2>2. m \in SettledAt(r) => mail[m].status = "pending" /\ m \notin Taken(r)
                              /\ Verdict(m, r) \in {"failed", "cancelled"}
    BY DEF SettledAt, Taken, Good, PendingAt, Verdict
  <2>3. m \in Taken(r) => mail[m].status = "pending"
    BY DEF Taken, Good, PendingAt
  <2>4. \/ mail'[m] = [mail[m] EXCEPT !.status = "uncertain"] /\ mail[m].status = "claimed"
        \/ mail'[m] = [mail[m] EXCEPT !.status = Verdict(m, r)] /\ m \in SettledAt(r)
        \/ mail'[m] = GrantRow(m, r) /\ m \in Taken(r)
        \/ mail'[m] = mail[m] /\ m \notin Taken(r)
    BY DEF ClaimNext
  <2>5. CASE mail'[m] = [mail[m] EXCEPT !.status = "uncertain"] /\ mail[m].status = "claimed"
    <3>1. /\ DOMAIN mail'[m] = DOMAIN NoRow /\ mail'[m].route = mail[m].route
          /\ mail'[m].nonce = mail[m].nonce /\ mail'[m].status = "uncertain"
      BY <2>1, <2>5 DEF NoRow
    <3> QED BY <2>3, <2>5, <3>1 DEF RowClaimed
  <2>6. CASE mail'[m] = [mail[m] EXCEPT !.status = Verdict(m, r)] /\ m \in SettledAt(r)
    <3>1. /\ DOMAIN mail'[m] = DOMAIN NoRow /\ mail'[m].route = mail[m].route
          /\ mail'[m].nonce = mail[m].nonce /\ mail'[m].status = Verdict(m, r)
      BY <2>1, <2>6 DEF NoRow
    <3> QED BY <2>2, <2>6, <3>1 DEF RowClaimed
  <2>7. CASE mail'[m] = GrantRow(m, r) /\ m \in Taken(r)
    <3>1. /\ DOMAIN mail'[m] = DOMAIN NoRow /\ mail'[m].route = mail[m].route
          /\ mail'[m].nonce = claims + 1 /\ mail'[m].status = "claimed"
      BY <2>1, <2>7 DEF NoRow, GrantRow
    <3> QED BY <2>3, <2>7, <3>1 DEF RowClaimed
  <2>8. CASE mail'[m] = mail[m] /\ m \notin Taken(r)
    BY <2>1, <2>8 DEF RowClaimed
  <2> QED BY <2>4, <2>5, <2>6, <2>7, <2>8
<1>3. Taken(r) \subseteq Mail
  BY DEF Taken, Good, PendingAt
<1> QED BY <1>1, <1>2, <1>3

LEMMA ClaimKeeps ==
  ASSUME WebInv, NEW b \in Bridge, NEW r \in Place, Claim(b, r)
  PROVE  WebInv'
<1>1. /\ bridge[b].pc = "idle" /\ ClaimNext(b, r) /\ GrantTo(b, r)
      /\ UNCHANGED <<posts, handled>>
  BY DEF Claim, ClaimNext
<1>2. /\ mail' = [m \in Mail |-> mail'[m]]
      /\ \A m \in Mail : RowClaimed(m, r)
      /\ \A m \in Taken(r) : /\ m \in Mail /\ mail[m].status = "pending"
                             /\ mail'[m].status = "claimed" /\ mail'[m].nonce = claims + 1
  BY <1>1, RowsClaimed
<1>3. MailShaped'
  BY <1>1, <1>2, RowsRewritten DEF RowClaimed
<1>4. CASE Taken(r) = {}
  <2>1. UNCHANGED <<bridge, claims>>
    BY <1>1, <1>4 DEF GrantTo
  <2>2. ASSUME NEW m \in Mail PROVE RowBenign(m)
    BY <1>1, <1>2, <1>4 DEF RowClaimed, RowBenign
  <2> QED BY <1>3, <2>1, <2>2, BenignKeeps
<1>5. CASE Taken(r) # {}
  <2>0. PICK t \in Taken(r) :
          /\ bridge' = [bridge EXCEPT ![b] = [Idle EXCEPT !.pc = "claimed", !.mail = t,
                                                    !.nonce = claims + 1, !.hook = known[b][r]]]
          /\ claims' = claims + 1
    <3>1. \E t \in Taken(r) :
             bridge' = [bridge EXCEPT ![b] = [Idle EXCEPT !.pc = "claimed", !.mail = t,
                                                   !.nonce = claims + 1, !.hook = known[b][r]]]
      BY <1>1, <1>5, Zenon DEF GrantTo
    <3>2. claims' = claims + 1
      BY <1>1, <1>5, Zenon DEF GrantTo
    <3> QED BY <3>1, <3>2, Zenon
  <2>1. PICK x : /\ x = [Idle EXCEPT !.pc = "claimed", !.mail = t,
                                    !.nonce = claims + 1, !.hook = known[b][r]]
                 /\ bridge' = [bridge EXCEPT ![b] = x] /\ claims' = claims + 1
    BY <2>0, Zenon
  <2>2. /\ DOMAIN x = DOMAIN Idle /\ x.pc = "claimed" /\ x.mail = t /\ x.nonce = claims + 1
    BY <2>1 DEF Idle
  <2>3. /\ bridge' = [c \in Bridge |-> bridge'[c]] /\ bridge'[b] = x
        /\ \A c \in Bridge : c # b => bridge'[c] = bridge[c]
    BY <2>1 DEF WebInv, BridgeShaped
  <2>4. BridgeShaped'
    BY <1>2, <2>2, <2>3 DEF WebInv, BridgeShaped, Working
  <2>5. claims \in Nat /\ claims' = claims + 1
    BY <2>1 DEF WebInv, RowNonces
  <2>6. ASSUME NEW m \in Mail
        PROVE  /\ mail'[m].nonce \in 0 .. claims'
               /\ mail'[m].status \in {"none", "pending"} => mail'[m].nonce = 0
    <3>1. /\ mail[m].nonce \in 0 .. claims
          /\ mail[m].status \in {"none", "pending"} => mail[m].nonce = 0
      BY DEF WebInv, RowNonces
    <3>2. RowClaimed(m, r)
      BY <1>2
    <3>3. mail'[m].nonce = mail[m].nonce \/ mail'[m].nonce = claims + 1
      BY <3>2 DEF RowClaimed
    <3>4. mail'[m].status \in {"none", "pending"} => mail'[m].nonce = mail[m].nonce
                                                     /\ mail'[m].status = mail[m].status
      BY <3>2 DEF RowClaimed
    <3> QED BY <2>5, <3>1, <3>3, <3>4
  <2>7. RowNonces'
    BY <2>5, <2>6 DEF RowNonces
  <2>8. ASSUME NEW c \in Bridge, Working(c)'
        PROVE  \/ c = b /\ bridge'[c].nonce = claims + 1
               \/ c # b /\ Working(c) /\ bridge'[c].nonce = bridge[c].nonce
                  /\ bridge[c].nonce \in 1 .. claims
    BY <2>2, <2>3, <2>8 DEF WebInv, BridgeNonces, Working
  <2>9. BridgeNonces'
    <3>1. ASSUME NEW c \in Bridge, Working(c)' PROVE bridge'[c].nonce \in 1 .. claims'
      BY <2>5, <2>8, <3>1
    <3>2. ASSUME NEW c \in Bridge, NEW d \in Bridge, Working(c)', Working(d)',
                 bridge'[c].nonce = bridge'[d].nonce
          PROVE  c = d
      <4>1. CASE c = b
        BY <2>5, <2>8, <3>2, <4>1
      <4>2. CASE c # b
        BY <2>5, <2>8, <3>2, <4>2 DEF WebInv, BridgeNonces
      <4> QED BY <4>1, <4>2
    <3> QED BY <3>1, <3>2 DEF BridgeNonces
  <2>10. ASSUME NEW m \in Mail PROVE RowTrue(m)'
    <3>1. RowTrue(m) /\ RowClaimed(m, r)
      BY <1>2 DEF WebInv
    <3> QED BY <1>1, <3>1 DEF RowTrue, RowClaimed
  <2>11. ASSUME NEW c \in Bridge PROVE BridgeTrue(c)'
    <3>1. CASE c = b
      <4>1. t \in Mail /\ mail[t].status = "pending" /\ mail'[t].status = "claimed"
        BY <1>2
      <4>2. posts'[t] = 0
        BY <1>1, <4>1 DEF WebInv, RowTrue
      <4> QED BY <2>2, <2>3, <3>1, <4>1, <4>2 DEF BridgeTrue
    <3>2. CASE c # b
      <4>1. CASE ~ Current(c)'
        BY <4>1 DEF BridgeTrue
      <4>2. CASE Current(c)'
        <5> DEFINE k == bridge[c].mail
        <5>1. Working(c) /\ k \in Mail /\ bridge[c].nonce \in 1 .. claims
              /\ mail'[k].nonce = bridge[c].nonce
          BY <2>3, <3>2, <4>2 DEF Current, Working, WebInv, BridgeShaped, BridgeNonces
        <5>2. RowClaimed(k, r)
          BY <1>2, <5>1
        <5>3. mail'[k].nonce # claims + 1
          BY <2>5, <5>1
        <5>4. mail'[k].nonce = mail[k].nonce
          BY <5>2, <5>3 DEF RowClaimed
        <5>5. mail[k].status \in {"claimed", "uncertain"} => mail'[k].status \in {"claimed", "uncertain"}
          BY <5>2 DEF RowClaimed
        <5>6. BridgeTrue(c) /\ Current(c)
          BY <5>1, <5>4 DEF WebInv, Current
        <5> QED BY <1>1, <2>3, <3>2, <5>5, <5>6 DEF BridgeTrue
      <4> QED BY <4>1, <4>2
    <3> QED BY <3>1, <3>2
  <2> QED BY <1>3, <2>4, <2>7, <2>9, <2>10, <2>11 DEF WebInv
<1> QED BY <1>4, <1>5

LEMMA WebBegins == WebInit => WebInv
<1> SUFFICES ASSUME WebInit PROVE WebInv
  OBVIOUS
<1>1. MailShaped /\ BridgeShaped
  BY DEF WebInit, MailShaped, BridgeShaped, Working, Idle
<1>2. ASSUME NEW b \in Bridge PROVE ~ Working(b)
  BY DEF WebInit, Working, Idle
<1>3. BridgeNonces /\ \A b \in Bridge : BridgeTrue(b)
  BY <1>2 DEF BridgeNonces, BridgeTrue, Current
<1>4. RowNonces
  BY DEF WebInit, RowNonces, NoRow
<1>5. ASSUME NEW m \in Mail PROVE RowTrue(m)
  BY DEF WebInit, RowTrue, NoRow
<1> QED BY <1>1, <1>3, <1>4, <1>5 DEF WebInv

LEMMA WebStep == WebInv /\ [WebNext]_webVars => WebInv'
<1> SUFFICES ASSUME WebInv, [WebNext]_webVars PROVE WebInv'
  OBVIOUS
<1>1. CASE UNCHANGED webVars
  <2>1. UNCHANGED <<bridge, claims, mail, posts, handled>>
    BY <1>1 DEF webVars, webBridge
  <2> QED BY <2>1, BenignRows, BenignKeeps
<1>2. CASE Portal
  BY <1>2, PortalBenign
<1>3. CASE \/ Elsewhere \/ Lapse
           \/ \E m \in Mail : Age(m) \/ ClaimStale(m)
           \/ \E b \in Bridge, r \in Place : RefreshDenied(b, r) \/ \E h \in Hook : Refresh(b, r, h)
           \/ \E b \in Bridge, m \in Mail : Dispatch(b, m)
  BY <1>3, ElsewhereBenign
<1>4. CASE \E b \in Bridge, m \in Mail : Dispatched(b, m) \/ DispatchFails(b, m)
  BY <1>4, DispatchKeeps
<1>5. CASE \E b \in Bridge : \/ CanSendFails(b) \/ CheckSending(b) \/ Unsendable(b) \/ PostRefused(b)
                             \/ AckLost(b) \/ BridgeCrash(b)
  BY <1>5, BridgePlain
<1>6. CASE \E b \in Bridge : \/ Post(b) \/ Acknowledge(b) \/ \E r \in Place : Claim(b, r)
  BY <1>6, PostKeeps, AcknowledgeKeeps, ClaimKeeps
<1> QED BY <1>1, <1>2, <1>3, <1>4, <1>5, <1>6 DEF WebNext, BridgeStep

\* Whatever is lost or dies between claim and acknowledgement, and however many bridges poll,
\* the outbox of the web rooms tells the author the truth: delivered means posted once, failed
\* or cancelled means not posted.
THEOREM WebStatusKept == WebSpec => []WebStatusTrue
<1>1. WebInv => WebStatusTrue
  BY DEF WebInv, RowTrue, WebStatusTrue
<1> QED BY <1>1, WebBegins, WebStep, PTL DEF WebSpec

-----------------------------------------------------------------------------
(* The ingress of a room *)

\* Messages as they arrived.
Rising(s) == \A i, j \in DOMAIN s : i < j => s[i] < s[j]

LEMMA Appended ==
  ASSUME NEW S, NEW s \in Seq(S), NEW x \in S
  PROVE  /\ Append(s, x) \in Seq(S) /\ Len(Append(s, x)) = Len(s) + 1 /\ Append(s, x) # << >>
         /\ DOMAIN Append(s, x) = 1 .. Len(s) + 1
         /\ (\A i \in DOMAIN s : Append(s, x)[i] = s[i]) /\ Append(s, x)[Len(s) + 1] = x
         /\ ToSet(Append(s, x)) = ToSet(s) \cup {x}
  BY DEF ToSet

LEMMA HeadOff ==
  ASSUME NEW S, NEW s \in Seq(S), s # << >>
  PROVE  /\ Head(s) \in S /\ Head(s) = s[1] /\ Head(s) \in ToSet(s)
         /\ Tail(s) \in Seq(S) /\ Len(Tail(s)) = Len(s) - 1
         /\ (\A i \in DOMAIN Tail(s) : Tail(s)[i] = s[i + 1])
         /\ ToSet(s) = ToSet(Tail(s)) \cup {Head(s)}
<1>1. /\ Head(s) \in S /\ Head(s) = s[1] /\ Head(s) \in ToSet(s) /\ Len(s) \in Nat \ {0}
      /\ Tail(s) \in Seq(S) /\ Len(Tail(s)) = Len(s) - 1
      /\ (\A i \in DOMAIN Tail(s) : Tail(s)[i] = s[i + 1])
  BY DEF ToSet
<1>2. ASSUME NEW x \in ToSet(s) PROVE x \in ToSet(Tail(s)) \cup {Head(s)}
  <2>1. PICK i \in 1 .. Len(s) : s[i] = x
    BY DEF ToSet
  <2>2. CASE i > 1
    <3>1. i - 1 \in DOMAIN Tail(s) /\ Tail(s)[i - 1] = s[i]
      BY <1>1, <2>2
    <3> QED BY <2>1, <3>1 DEF ToSet
  <2> QED BY <1>1, <2>1, <2>2
<1>3. ASSUME NEW x \in ToSet(Tail(s)) PROVE x \in ToSet(s)
  <2>1. PICK i \in DOMAIN Tail(s) : Tail(s)[i] = x
    BY DEF ToSet
  <2>2. i + 1 \in DOMAIN s /\ s[i + 1] = x
    BY <1>1, <2>1
  <2> QED BY <2>2 DEF ToSet
<1> QED BY <1>1, <1>2, <1>3

LEMMA RisingTail ==
  ASSUME NEW s \in Seq(Nat), s # << >>, Rising(s)
  PROVE  /\ Rising(Tail(s)) /\ (\A y \in ToSet(Tail(s)) : Head(s) < y)
         /\ ToSet(Tail(s)) = ToSet(s) \ {Head(s)}
<1>1. /\ Head(s) \in Nat /\ Head(s) = s[1] /\ Tail(s) \in Seq(Nat) /\ Len(Tail(s)) = Len(s) - 1
      /\ Len(s) \in Nat \ {0}
      /\ (\A i \in DOMAIN Tail(s) : Tail(s)[i] = s[i + 1]) /\ ToSet(s) = ToSet(Tail(s)) \cup {Head(s)}
  BY HeadOff
<1>2. Rising(Tail(s))
  <2> SUFFICES ASSUME NEW i \in DOMAIN Tail(s), NEW j \in DOMAIN Tail(s), i < j
               PROVE  Tail(s)[i] < Tail(s)[j]
    BY DEF Rising
  <2>1. i + 1 \in DOMAIN s /\ j + 1 \in DOMAIN s /\ i + 1 < j + 1
    BY <1>1
  <2>2. s[i + 1] < s[j + 1]
    BY <2>1 DEF Rising
  <2> QED BY <1>1, <2>2
<1>3. ASSUME NEW y \in ToSet(Tail(s)) PROVE Head(s) < y
  <2>1. PICK i \in DOMAIN Tail(s) : Tail(s)[i] = y
    BY DEF ToSet
  <2>2. i + 1 \in DOMAIN s /\ 1 \in DOMAIN s /\ 1 < i + 1 /\ s[i + 1] = y
    BY <1>1, <2>1
  <2> QED BY <1>1, <2>2 DEF Rising
<1>4. Head(s) \notin ToSet(Tail(s))
  BY <1>1, <1>3
<1> QED BY <1>1, <1>2, <1>3, <1>4

LEMMA RisingAppend ==
  ASSUME NEW s \in Seq(Nat), Rising(s), NEW x \in Nat, \A y \in ToSet(s) : y < x
  PROVE  Rising(Append(s, x))
<1>1. \A i \in DOMAIN s : s[i] < x
  BY DEF ToSet
<1> QED BY <1>1, Appended DEF Rising

LEMMA RisingCounts ==
  ASSUME NEW s \in Seq(Nat), Rising(s)
  PROVE  IsFiniteSet(ToSet(s)) /\ Cardinality(ToSet(s)) = Len(s)
<1>1. Len(s) \in Nat /\ DOMAIN s = 1 .. Len(s)
  OBVIOUS
<1>2. s \in Bijection(1 .. Len(s), ToSet(s))
  <2>1. s \in [1 .. Len(s) -> ToSet(s)]
    BY DEF ToSet
  <2>2. \A i, j \in 1 .. Len(s) : s[i] = s[j] => i = j
    BY <1>1 DEF Rising
  <2>3. \A x \in ToSet(s) : \E i \in 1 .. Len(s) : s[i] = x
    BY DEF ToSet
  <2>4. s \in Injection(1 .. Len(s), ToSet(s))
    BY <2>1, <2>2 DEF Injection, IsInjective
  <2>5. s \in Surjection(1 .. Len(s), ToSet(s))
    BY <2>1, <2>3 DEF Surjection
  <2> QED BY <2>4, <2>5 DEF Bijection
<1>3. ExistsBijection(1 .. Len(s), ToSet(s))
  BY <1>2 DEF ExistsBijection
<1> QED BY <1>1, <1>3, FS_NatBijection, FS_CountingElements

LEMMA RisingLast ==
  ASSUME NEW s \in Seq(Nat), s # << >>, Rising(s)
  PROVE  Last(s) \in ToSet(s) /\ \A y \in ToSet(s) : y <= Last(s)
<1>1. Len(s) \in DOMAIN s /\ Last(s) = s[Len(s)]
  BY DEF Last
<1>2. ASSUME NEW y \in ToSet(s) PROVE y <= Last(s)
  <2>1. PICK i \in DOMAIN s : s[i] = y
    BY DEF ToSet
  <2> QED BY <1>1, <2>1 DEF Rising
<1> QED BY <1>1, <1>2 DEF ToSet

LEMMA RemovedAt ==
  ASSUME NEW S, NEW q \in Seq(S), NEW i \in DOMAIN q
  PROVE  /\ RemoveAt(q, i) \in Seq(S) /\ Len(RemoveAt(q, i)) = Len(q) - 1
         /\ (\A k \in DOMAIN RemoveAt(q, i) :
               /\ k < i => k \in DOMAIN q /\ RemoveAt(q, i)[k] = q[k]
               /\ ~ k < i => k + 1 \in DOMAIN q /\ RemoveAt(q, i)[k] = q[k + 1])
         /\ ToSet(q) = ToSet(RemoveAt(q, i)) \cup {q[i]}
<1> DEFINE a == SubSeq(q, 1, i - 1)
           b == SubSeq(q, i + 1, Len(q))
<1>1. Len(q) \in Nat /\ i \in 1 .. Len(q) /\ DOMAIN q = 1 .. Len(q)
  OBVIOUS
<1>2. a \in Seq(S) /\ Len(a) = i - 1 /\ (\A k \in 1 .. i - 1 : a[k] = q[k])
  BY <1>1
<1>3. b \in Seq(S) /\ Len(b) = Len(q) - i /\ (\A k \in 1 .. Len(q) - i : b[k] = q[i + k])
  BY <1>1
<1>4. RemoveAt(q, i) = a \o b
  BY DEF RemoveAt
<1> HIDE DEF a, b
<1>50. /\ a \o b \in Seq(S) /\ Len(a \o b) = Len(a) + Len(b)
       /\ \A k \in 1 .. Len(a) + Len(b) : (a \o b)[k] = IF k <= Len(a) THEN a[k] ELSE b[k - Len(a)]
  BY <1>2, <1>3, ConcatProperties
<1>51. Len(a) + Len(b) = Len(q) - 1
  BY <1>1, <1>2, <1>3
<1>5. /\ a \o b \in Seq(S) /\ Len(a \o b) = Len(q) - 1
      /\ \A k \in 1 .. Len(q) - 1 : (a \o b)[k] = IF k <= i - 1 THEN a[k] ELSE b[k - (i - 1)]
  BY <1>50, <1>51, <1>2
<1>6. /\ RemoveAt(q, i) \in Seq(S) /\ Len(RemoveAt(q, i)) = Len(q) - 1
      /\ DOMAIN RemoveAt(q, i) = 1 .. Len(q) - 1
  BY <1>1, <1>4, <1>5, LenProperties
<1>7. ASSUME NEW k \in 1 .. Len(q) - 1
      PROVE  RemoveAt(q, i)[k] = IF k < i THEN q[k] ELSE q[k + 1]
  <2>1. RemoveAt(q, i)[k] = IF k <= i - 1 THEN a[k] ELSE b[k - (i - 1)]
    BY <1>4, <1>5
  <2>2. CASE k < i
    <3>1. k <= i - 1 /\ k \in 1 .. i - 1
      BY <1>1, <2>2
    <3>2. a[k] = q[k]
      BY <1>2, <3>1
    <3> QED BY <2>1, <2>2, <3>1, <3>2
  <2>3. CASE ~ k < i
    <3>1. ~ k <= i - 1 /\ k - (i - 1) \in 1 .. Len(q) - i /\ i + (k - (i - 1)) = k + 1
      BY <1>1, <2>3
    <3>2. b[k - (i - 1)] = q[i + (k - (i - 1))]
      BY <1>3, <3>1
    <3> QED BY <2>1, <2>3, <3>1, <3>2
  <2> QED BY <2>2, <2>3
<1>8. ASSUME NEW x \in ToSet(q) PROVE x \in ToSet(RemoveAt(q, i)) \cup {q[i]}
  <2>1. PICK k \in 1 .. Len(q) : q[k] = x
    BY <1>1 DEF ToSet
  <2>2. CASE k < i
    <3>1. k \in 1 .. Len(q) - 1 /\ RemoveAt(q, i)[k] = x
      BY <1>1, <1>7, <2>1, <2>2
    <3> QED BY <1>6, <3>1 DEF ToSet
  <2>3. CASE k > i
    <3>1. k - 1 \in 1 .. Len(q) - 1 /\ RemoveAt(q, i)[k - 1] = q[k]
      BY <1>1, <1>7, <2>3
    <3> QED BY <1>6, <2>1, <3>1 DEF ToSet
  <2> QED BY <1>1, <2>1, <2>2, <2>3
<1>9. ASSUME NEW x \in ToSet(RemoveAt(q, i)) PROVE x \in ToSet(q)
  <2>1. PICK k \in 1 .. Len(q) - 1 : RemoveAt(q, i)[k] = x
    BY <1>6 DEF ToSet
  <2>2. k \in DOMAIN q /\ k + 1 \in DOMAIN q /\ (x = q[k] \/ x = q[k + 1])
    BY <1>1, <1>7, <2>1
  <2> QED BY <2>2 DEF ToSet
<1>10. /\ \A k \in DOMAIN RemoveAt(q, i) :
            /\ k < i => k \in DOMAIN q /\ RemoveAt(q, i)[k] = q[k]
            /\ ~ k < i => k + 1 \in DOMAIN q /\ RemoveAt(q, i)[k] = q[k + 1]
  BY <1>1, <1>6, <1>7
<1>11. q[i] \in ToSet(q)
  BY DEF ToSet
<1> QED BY <1>6, <1>8, <1>9, <1>10, <1>11

LEMMA ItemsFinite ==
  ASSUME NEW S, NEW s \in Seq(S)
  PROVE  IsFiniteSet(ToSet(s))
<1>1. s \in [1 .. Len(s) -> ToSet(s)] /\ Len(s) \in Nat
  BY DEF ToSet
<1>2. \A x \in ToSet(s) : \E i \in 1 .. Len(s) : s[i] = x
  BY DEF ToSet
<1>3. s \in Surjection(1 .. Len(s), ToSet(s))
  BY <1>1, <1>2 DEF Surjection
<1> QED BY <1>1, <1>3, FS_NatSurjection DEF ExistsSurjection

\* The works of a room that have a slot.
SlotsOf(st, ru, r) == {w \in ToSet(st) \cup ru : w.room = r}

Precedes(v, w) == v.room = w.room => \A x \in ToSet(v.items), y \in ToSet(w.items) : x < y
InLine(q) == \A i, j \in DOMAIN q : i < j => Precedes(q[i], q[j])

\* Works of a room start and wait in the order of their messages.
QueueTrue(st, q) ==
  /\ st \in Seq(Work) /\ q \in Seq(Work) /\ InLine(st) /\ InLine(q)
  /\ \A v \in ToSet(st), w \in ToSet(q) : Precedes(v, w)
  /\ \A w \in ToSet(st) \cup ToSet(q) : w.items # << >>

LEMMA WorkIs ==
  ASSUME NEW w \in Work
  PROVE  w.room \in ChatRoom /\ w.items \in Seq(Msg) /\ w.items \in Seq(Nat) /\ w.burst \in BOOLEAN
<1>1. w.room \in ChatRoom /\ w.items \in Seq(Msg) /\ w.burst \in BOOLEAN
  BY DEF Work
<1>2. Msg \subseteq Nat
  BY IngressAssumption DEF Msg
<1> QED BY <1>1, <1>2, SeqMonotonic

LEMMA NotBeforeItself ==
  ASSUME NEW w \in Work, w.items # << >>
  PROVE  ~ Precedes(w, w)
<1>1. w.items \in Seq(Nat)
  BY WorkIs
<1>2. w.items[1] \in ToSet(w.items) /\ w.items[1] \in Nat
  BY <1>1 DEF ToSet
<1> QED BY <1>2 DEF Precedes

\* startAvailable takes the first work of its room, if any.
LEMMA StartIs ==
  ASSUME NEW q \in Seq(Work), NEW ra, NEW a, StartAvailable(q, ra, a)
  PROVE  \/ waiting' = q /\ roomActive' = ra /\ active' = a /\ UNCHANGED started
         \/ \E i \in DOMAIN q :
              /\ \A k \in DOMAIN q : k < i => q[k].room # q[i].room
              /\ waiting' = RemoveAt(q, i) /\ started' = Append(started, q[i])
              /\ roomActive' = [ra EXCEPT ![q[i].room] = @ + 1] /\ active' = a + 1
<1>1. CASE Eligible(q, ra, a) = {}
  BY <1>1 DEF StartAvailable
<1>2. CASE Eligible(q, ra, a) # {}
  <2>1. Eligible(q, ra, a) \subseteq DOMAIN q /\ DOMAIN q \subseteq Nat
    BY DEF Eligible
  <2>2. \E i \in Eligible(q, ra, a) : \A k \in Eligible(q, ra, a) : i <= k
    BY <1>2, <2>1, FirstOf
  <2>3. PICK i : i = CHOOSE x \in Eligible(q, ra, a) : \A k \in Eligible(q, ra, a) : x <= k
    OBVIOUS
  <2>4. i \in Eligible(q, ra, a) /\ \A k \in Eligible(q, ra, a) : i <= k
    BY <2>2, <2>3, Zenon
  <2>5. ASSUME NEW k \in DOMAIN q, k < i PROVE q[k].room # q[i].room
    <3>1. SUFFICES ASSUME q[k].room = q[i].room PROVE FALSE
      OBVIOUS
    <3>2. k \in Eligible(q, ra, a)
      BY <2>4, <3>1 DEF Eligible
    <3>3. i <= k /\ i \in Nat /\ k \in Nat
      BY <2>1, <2>4, <3>2
    <3> QED BY <2>5, <3>3
  <2>6. /\ waiting' = RemoveAt(q, i) /\ started' = Append(started, q[i])
        /\ roomActive' = [ra EXCEPT ![q[i].room] = @ + 1] /\ active' = a + 1
    BY <1>2, <2>3, Zenon DEF StartAvailable
  <2> QED BY <2>1, <2>4, <2>5, <2>6
<1> QED BY <1>1, <1>2

LEMMA ElementIs ==
  ASSUME NEW S, NEW q \in Seq(S), NEW i \in DOMAIN q
  PROVE  q[i] \in S /\ q[i] \in ToSet(q)
  BY DEF ToSet

LEMMA StartKeepsLine ==
  ASSUME NEW q, QueueTrue(started, q), NEW ra, NEW a, StartAvailable(q, ra, a)
  PROVE  /\ QueueTrue(started', waiting')
         /\ ToSet(started') \cup ToSet(waiting') = ToSet(started) \cup ToSet(q)
<1>0. started \in Seq(Work) /\ q \in Seq(Work)
  BY DEF QueueTrue
<1>1. CASE waiting' = q /\ UNCHANGED started
  BY <1>1
<1>2. CASE \E i \in DOMAIN q :
              /\ \A k \in DOMAIN q : k < i => q[k].room # q[i].room
              /\ waiting' = RemoveAt(q, i) /\ started' = Append(started, q[i])
  <2>1. PICK i \in DOMAIN q :
              /\ \A k \in DOMAIN q : k < i => q[k].room # q[i].room
              /\ waiting' = RemoveAt(q, i) /\ started' = Append(started, q[i])
    BY <1>2
  <2>2. q[i] \in Work /\ q[i] \in ToSet(q)
    BY <1>0, ElementIs
  <2>3. /\ waiting' \in Seq(Work) /\ ToSet(q) = ToSet(waiting') \cup {q[i]}
        /\ \A k \in DOMAIN waiting' :
             /\ k < i => k \in DOMAIN q /\ waiting'[k] = q[k]
             /\ ~ k < i => k + 1 \in DOMAIN q /\ waiting'[k] = q[k + 1]
    BY <1>0, <2>1, RemovedAt
  <2>4. /\ started' \in Seq(Work) /\ DOMAIN started' = 1 .. Len(started) + 1
        /\ (\A k \in DOMAIN started : started'[k] = started[k]) /\ started'[Len(started) + 1] = q[i]
        /\ ToSet(started') = ToSet(started) \cup {q[i]}
    BY <1>0, <2>1, <2>2, Appended
  <2>5. InLine(started')
    <3> SUFFICES ASSUME NEW j \in DOMAIN started', NEW k \in DOMAIN started', j < k
                 PROVE  Precedes(started'[j], started'[k])
      BY DEF InLine
    <3>1. j \in DOMAIN started /\ (k \in DOMAIN started \/ k = Len(started) + 1)
      BY <1>0, <2>4
    <3>2. CASE k \in DOMAIN started
      BY <2>4, <3>1, <3>2 DEF QueueTrue, InLine
    <3>3. CASE k = Len(started) + 1
      <4>1. started[j] \in ToSet(started)
        BY <1>0, <3>1, ElementIs
      <4> QED BY <2>2, <2>4, <3>1, <3>3, <4>1 DEF QueueTrue
    <3> QED BY <3>1, <3>2, <3>3
  <2>6. InLine(waiting')
    <3> SUFFICES ASSUME NEW j \in DOMAIN waiting', NEW k \in DOMAIN waiting', j < k
                 PROVE  Precedes(waiting'[j], waiting'[k])
      BY DEF InLine
    <3>0. j \in Nat /\ k \in Nat /\ i \in Nat
      BY <1>0, <2>3
    <3>1. \E x, y \in DOMAIN q : x < y /\ waiting'[j] = q[x] /\ waiting'[k] = q[y]
      <4>1. CASE k < i
        BY <2>3, <3>0, <4>1
      <4>2. CASE j < i /\ ~ k < i
        BY <2>3, <3>0, <4>2
      <4>3. CASE ~ j < i
        BY <2>3, <3>0, <4>3
      <4> QED BY <3>0, <4>1, <4>2, <4>3
    <3> QED BY <3>1 DEF QueueTrue, InLine
  <2>7. ASSUME NEW v \in ToSet(started'), NEW w \in ToSet(waiting') PROVE Precedes(v, w)
    <3>1. w \in ToSet(q)
      BY <2>3
    <3>2. CASE v \in ToSet(started)
      BY <3>1, <3>2 DEF QueueTrue
    <3>3. CASE v = q[i]
      <4>1. PICK k \in DOMAIN waiting' : w = waiting'[k]
        BY DEF ToSet
      <4>2. CASE k < i
        BY <2>1, <2>3, <3>3, <4>1, <4>2 DEF Precedes
      <4>3. CASE ~ k < i
        <5>1. k + 1 \in DOMAIN q /\ i < k + 1 /\ w = q[k + 1]
          BY <1>0, <2>3, <4>1, <4>3
        <5> QED BY <3>3, <5>1 DEF QueueTrue, InLine
      <4> QED BY <4>2, <4>3
    <3> QED BY <2>4, <3>2, <3>3
  <2>8. \A w \in ToSet(started') \cup ToSet(waiting') : w.items # << >>
    BY <2>2, <2>3, <2>4 DEF QueueTrue
  <2>9. QueueTrue(started', waiting')
    BY <2>3, <2>4, <2>5, <2>6, <2>7, <2>8 DEF QueueTrue
  <2> QED BY <2>3, <2>4, <2>9
<1> QED BY <1>0, <1>1, <1>2, StartIs

\* A work that starts was not among those that have a slot.
LEMMA StartCounts ==
  ASSUME NEW q, QueueTrue(started, q), NEW ru, IsFiniteSet(ru), ru \cap ToSet(q) = {},
         NEW ra \in [ChatRoom -> Nat], NEW a \in Nat, StartAvailable(q, ra, a),
         \A r \in ChatRoom : ra[r] = Cardinality(SlotsOf(started, ru, r)),
         a = Len(started) + Cardinality(ru)
  PROVE  /\ roomActive' \in [ChatRoom -> Nat] /\ active' \in Nat
         /\ \A r \in ChatRoom : roomActive'[r] = Cardinality(SlotsOf(started', ru, r))
         /\ active' = Len(started') + Cardinality(ru)
<1>0. started \in Seq(Work) /\ q \in Seq(Work)
  BY DEF QueueTrue
<1>1. CASE roomActive' = ra /\ active' = a /\ UNCHANGED started
  BY <1>1
<1>2. CASE \E i \in DOMAIN q :
              /\ started' = Append(started, q[i])
              /\ roomActive' = [ra EXCEPT ![q[i].room] = @ + 1] /\ active' = a + 1
  <2>1. PICK i \in DOMAIN q :
              /\ started' = Append(started, q[i])
              /\ roomActive' = [ra EXCEPT ![q[i].room] = @ + 1] /\ active' = a + 1
    BY <1>2
  <2>2. q[i] \in Work /\ q[i] \in ToSet(q) /\ q[i].room \in ChatRoom
    BY <1>0, ElementIs, WorkIs
  <2>3. Len(started') = Len(started) + 1 /\ ToSet(started') = ToSet(started) \cup {q[i]}
    BY <1>0, <2>1, <2>2, Appended
  <2>4. q[i] \notin ToSet(started) /\ q[i] \notin ru
    <3>1. q[i].items # << >>
      BY <2>2 DEF QueueTrue
    <3>2. q[i] \in ToSet(started) => Precedes(q[i], q[i])
      BY <2>2 DEF QueueTrue
    <3> QED BY <2>2, <3>1, <3>2, NotBeforeItself
  <2>5. ASSUME NEW r \in ChatRoom PROVE roomActive'[r] = Cardinality(SlotsOf(started', ru, r))
    <3>1. SlotsOf(started', ru, r) = IF r = q[i].room THEN SlotsOf(started, ru, r) \cup {q[i]}
                                  ELSE SlotsOf(started, ru, r)
      BY <2>3, Zenon DEF SlotsOf
    <3>2. q[i] \notin SlotsOf(started, ru, r)
      BY <2>4, Zenon DEF SlotsOf
    <3>3. IsFiniteSet(SlotsOf(started, ru, r))
      <4>1. IsFiniteSet(ToSet(started) \cup ru)
        BY <1>0, ItemsFinite, FS_Union
      <4>2. SlotsOf(started, ru, r) \subseteq ToSet(started) \cup ru
        BY Zenon DEF SlotsOf
      <4> QED BY <4>1, <4>2, FS_Subset
    <3>4. Cardinality(SlotsOf(started, ru, r) \cup {q[i]}) = Cardinality(SlotsOf(started, ru, r)) + 1
      BY <3>2, <3>3, FS_AddElement
    <3>5. roomActive'[r] = IF r = q[i].room THEN ra[r] + 1 ELSE ra[r]
      BY <2>1, <2>2
    <3> QED BY <3>1, <3>4, <3>5
  <2>6. roomActive' \in [ChatRoom -> Nat] /\ active' \in Nat
    BY <2>1, <2>2
  <2>7. active' = Len(started') + Cardinality(ru)
    <3>1. Len(started) \in Nat /\ Cardinality(ru) \in Nat
      BY <1>0, FS_CardinalityType
    <3> QED BY <2>1, <2>3, <3>1
  <2> QED BY <2>5, <2>6, <2>7
<1>3. \/ roomActive' = ra /\ active' = a /\ UNCHANGED started
      \/ \E i \in DOMAIN q :
              /\ started' = Append(started, q[i])
              /\ roomActive' = [ra EXCEPT ![q[i].room] = @ + 1] /\ active' = a + 1
  BY <1>0, StartIs
<1> QED BY <1>1, <1>2, <1>3

\* A message that has begun its turn or needs none.
Begone == Settled \cup {"running"}
InChain == {"direct", "collect", "flushed"}
Here(r) == ToSet(chain[r]) \cup ToSet(burst[r])
Lined == ToSet(started) \cup ToSet(waiting)

IngressShaped ==
  /\ fate = [m \in Msg |-> fate[m]] /\ home = [m \in Msg |-> home[m]]
  /\ chain \in [ChatRoom -> Seq(Msg)] /\ burst \in [ChatRoom -> Seq(Msg)]
  /\ QueueTrue(started, waiting) /\ begun \in Seq(Msg)
  /\ running \subseteq Work /\ IsFiniteSet(running)

\* Messages are numbered as they arrive.
Arrived == \A m \in Msg : fate[m] # "none" => \A k \in 1 .. (m - 1) : fate[k] # "none"

\* What a place holds, in the order it arrived and before what comes behind: a chain, whose head
\* may have flushed the burst before it, a burst, the works in line, those that run, and the
\* turns that have begun.
ChainTrue(r) ==
  /\ Rising(chain[r])
  /\ \A m \in ToSet(chain[r]) : /\ home[m] = r /\ fate[m] \in InChain
                                /\ fate[m] = "flushed" => m = Head(chain[r]) /\ burst[r] = << >>
BurstTrue(r) ==
  /\ Rising(burst[r])
  /\ \A m \in ToSet(burst[r]) : /\ home[m] = r /\ fate[m] = "burst"
                                /\ \A y \in ToSet(chain[r]) : m < y
WorkTrue(w) ==
  /\ Rising(w.items)
  /\ \A m \in ToSet(w.items) : /\ home[m] = w.room /\ fate[m] = "queued"
                               /\ \A y \in Here(w.room) : m < y
RunTrue(w) == w.items # << >> /\ \A m \in ToSet(w.items) : fate[m] \in Begone
Ahead(x, r) ==
  /\ \A y \in Here(r) : x < y
  /\ \A w \in Lined : w.room = r => \A y \in ToSet(w.items) : x < y
BegunTrue(i) == fate[begun[i]] \in Begone /\ Ahead(begun[i], home[begun[i]])

PlacesTrue ==
  /\ IngressShaped /\ Arrived
  /\ \A r \in ChatRoom : ChainTrue(r) /\ BurstTrue(r)
  /\ (\A w \in Lined : WorkTrue(w)) /\ (\A w \in running : RunTrue(w))
  /\ \A i \in DOMAIN begun : BegunTrue(i)

LEMMA MessagesOf ==
  ASSUME NEW s \in Seq(Msg)
  PROVE  s \in Seq(Nat) /\ ToSet(s) \subseteq Msg /\ Msg \subseteq Nat
<1>1. Msg \subseteq Nat
  BY IngressAssumption DEF Msg
<1>2. ToSet(s) \subseteq Msg
  BY DEF ToSet
<1> QED BY <1>1, <1>2, SeqMonotonic

LEMMA EarlierOnes == \A m \in Msg : \A k \in 1 .. (m - 1) : k \in Msg
  BY IngressAssumption DEF Msg

\* Where everything is.
LEMMA PlacedIn ==
  ASSUME PlacesTrue
  PROVE  /\ Msg \subseteq Nat
         /\ \A r \in ChatRoom : /\ chain[r] \in Seq(Msg) /\ chain[r] \in Seq(Nat) /\ ToSet(chain[r]) \subseteq Msg
                                /\ burst[r] \in Seq(Msg) /\ burst[r] \in Seq(Nat) /\ ToSet(burst[r]) \subseteq Msg
                                /\ Here(r) \subseteq Msg
                                /\ \A m \in Here(r) : home[m] = r /\ fate[m] \in InChain \cup {"burst"}
         /\ Lined \subseteq Work
         /\ \A w \in Lined \cup running : ToSet(w.items) \subseteq Msg
         /\ \A i \in DOMAIN begun : begun[i] \in Msg
<1>1. Msg \subseteq Nat
  BY IngressAssumption DEF Msg
<1>2. ASSUME NEW r \in ChatRoom
      PROVE  /\ chain[r] \in Seq(Msg) /\ chain[r] \in Seq(Nat) /\ ToSet(chain[r]) \subseteq Msg
             /\ burst[r] \in Seq(Msg) /\ burst[r] \in Seq(Nat) /\ ToSet(burst[r]) \subseteq Msg
             /\ Here(r) \subseteq Msg
             /\ \A m \in Here(r) : home[m] = r /\ fate[m] \in InChain \cup {"burst"}
  <2>1. chain[r] \in Seq(Msg) /\ burst[r] \in Seq(Msg)
    BY DEF PlacesTrue, IngressShaped
  <2>2. ChainTrue(r) /\ BurstTrue(r)
    BY DEF PlacesTrue
  <2> QED BY <2>1, <2>2, MessagesOf DEF Here, ChainTrue, BurstTrue
<1>3. Lined \subseteq Work
  <2>1. started \in Seq(Work) /\ waiting \in Seq(Work)
    BY DEF PlacesTrue, IngressShaped, QueueTrue
  <2> QED BY <2>1 DEF Lined, ToSet
<1>4. \A w \in Lined \cup running : ToSet(w.items) \subseteq Msg
  BY <1>3, WorkIs, MessagesOf DEF PlacesTrue, IngressShaped
<1>5. \A i \in DOMAIN begun : begun[i] \in Msg
  BY DEF PlacesTrue, IngressShaped
<1> QED BY <1>1, <1>2, <1>3, <1>4, <1>5

\* The messages S leave their places in the room r, where c and b stay, for a work behind all
\* others, or for good; the first that stays may turn out to have flushed the burst.
Departs(r, c, b, S) ==
  /\ c \in Seq(Msg) /\ b \in Seq(Msg)
  /\ chain' = [chain EXCEPT ![r] = c] /\ burst' = [burst EXCEPT ![r] = b]
  /\ c = chain[r] \/ (chain[r] # << >> /\ c = Tail(chain[r]))
  /\ b = burst[r] \/ b = << >>
  /\ S = Here(r) \ (ToSet(c) \cup ToSet(b))
  /\ fate' = [m \in Msg |-> fate'[m]]
  /\ \A m \in Msg \ S : \/ fate'[m] = fate[m]
                         \/ /\ c # << >> /\ m = Head(c) /\ b = << >>
                            /\ fate[m] = "direct" /\ fate'[m] = "flushed"
  /\ QueueTrue(started', waiting')
  /\ \/ Lined' = Lined /\ \A m \in S : fate'[m] \in Begone
     \/ \E w \in Work :
          /\ w.room = r /\ ToSet(w.items) = S /\ Rising(w.items) /\ Lined' = Lined \cup {w}
          /\ \A m \in S : fate'[m] = "queued" /\ \A y \in ToSet(c) \cup ToSet(b) : m < y
  /\ UNCHANGED <<running, begun, home>>

LEMMA LeaveKeeps ==
  ASSUME PlacesTrue, NEW r \in ChatRoom, NEW c, NEW b, NEW S, Departs(r, c, b, S)
  PROVE  PlacesTrue'
<1> USE DEF Departs
<1>0. ChainTrue(r) /\ BurstTrue(r) /\ IngressShaped
  BY DEF PlacesTrue
<1>1. ToSet(c) \subseteq ToSet(chain[r]) /\ Rising(c) /\ ToSet(b) \subseteq ToSet(burst[r]) /\ Rising(b)
  <2>1. CASE c = Tail(chain[r]) /\ chain[r] # << >>
    <3>1. ToSet(c) \subseteq ToSet(chain[r]) /\ Rising(c)
      BY <1>0, <2>1, PlacedIn, RisingTail DEF ChainTrue
    <3>2. ToSet(<< >>) = {} /\ Rising(<< >>)
      BY DEF ToSet, Rising
    <3> QED BY <1>0, <3>1, <3>2 DEF BurstTrue
  <2>2. CASE c = chain[r]
    <3>2. ToSet(<< >>) = {} /\ Rising(<< >>)
      BY DEF ToSet, Rising
    <3> QED BY <1>0, <2>2, <3>2 DEF BurstTrue, ChainTrue
  <2> QED BY <2>1, <2>2
<1>2. /\ chain'[r] = c /\ burst'[r] = b /\ Here(r)' = ToSet(c) \cup ToSet(b) /\ Here(r)' \subseteq Here(r)
      /\ \A s \in ChatRoom : s # r => chain'[s] = chain[s] /\ burst'[s] = burst[s] /\ Here(s)' = Here(s)
  <2>1. /\ chain'[r] = c /\ burst'[r] = b
        /\ \A s \in ChatRoom : s # r => chain'[s] = chain[s] /\ burst'[s] = burst[s]
    BY <1>0 DEF IngressShaped
  <2> QED BY ONLY <1>1, <2>1 DEF Here
<1>3. /\ S \subseteq Here(r) /\ Here(r) \subseteq Msg
      /\ \A m \in Msg : m \notin Here(r) => fate'[m] = fate[m]
  <2>1. c # << >> => Head(c) \in ToSet(c)
    BY HeadOff
  <2>2. Here(r) \subseteq Msg
    BY PlacedIn
  <2>3. S \subseteq Here(r) /\ (ToSet(b) \cup ToSet(c)) \subseteq Here(r)
    BY <1>1, Zenon DEF Here
  <2>4. \A m \in Msg \ S : fate'[m] = fate[m] \/ (c # << >> /\ m = Head(c))
    BY Zenon
  <2> QED BY ONLY <2>1, <2>2, <2>3, <2>4
<1>4. \A m \in Here(r) : fate[m] \in InChain \cup {"burst"} /\ home[m] = r
  BY PlacedIn
<1>5. ASSUME NEW w \in Lined'
      PROVE  \/ w \in Lined
             \/ /\ w \in Work /\ w.room = r /\ ToSet(w.items) = S /\ Rising(w.items)
                /\ \A m \in S : fate'[m] = "queued" /\ \A y \in ToSet(c) \cup ToSet(b) : m < y
  BY Zenon
<1>6. IngressShaped'
  <2>1. chain' \in [ChatRoom -> Seq(Msg)] /\ burst' \in [ChatRoom -> Seq(Msg)]
    BY <1>0 DEF IngressShaped
  <2> QED BY <1>0, <2>1, Zenon DEF IngressShaped
<1>7. Arrived'
  <2>1. \A m \in Msg : fate'[m] = "none" <=> fate[m] = "none"
    <3> SUFFICES ASSUME NEW m \in Msg PROVE fate'[m] = "none" <=> fate[m] = "none"
      OBVIOUS
    <3>1. CASE m \in S
      <4>1. fate'[m] = "queued" \/ fate'[m] \in Begone
        BY <3>1
      <4>2. fate[m] \in InChain \cup {"burst"}
        BY <1>3, <1>4, <3>1
      <4> QED BY <4>1, <4>2 DEF Begone, Settled, InChain
    <3> QED BY <3>1
  <2>2. Arrived
    BY DEF PlacesTrue
  <2>3. \A m \in Msg : \A k \in 1 .. (m - 1) : k \in Msg
    BY EarlierOnes
  <2> QED BY <2>1, <2>2, <2>3, Zenon DEF Arrived
<1>8. ASSUME NEW s \in ChatRoom PROVE ChainTrue(s)' /\ BurstTrue(s)'
  <2>0. ChainTrue(s) /\ BurstTrue(s)
    BY DEF PlacesTrue
  <2>1. CASE s # r
    <3>1. \A m \in Here(s) : m \notin Here(r) /\ m \in Msg
      <4>1. \A m \in Here(s) : home[m] = s /\ m \in Msg
        BY PlacedIn, Zenon
      <4> QED BY ONLY <1>4, <2>1, <4>1
    <3>2. \A m \in Here(s) : fate'[m] = fate[m]
      BY <1>3, <3>1
    <3>3. chain'[s] = chain[s] /\ burst'[s] = burst[s]
      BY <1>2, <2>1
    <3>4. (\A m \in ToSet(chain[s]) : fate'[m] = fate[m]) /\ \A m \in ToSet(burst[s]) : fate'[m] = fate[m]
      BY <3>2 DEF Here
    <3>5. UNCHANGED home
      OBVIOUS
    <3>6. ChainTrue(s)'
      BY <2>0, <3>3, <3>4, <3>5 DEF ChainTrue
    <3>7. BurstTrue(s)'
      BY <2>0, <3>3, <3>4, <3>5 DEF BurstTrue
    <3> QED BY <3>6, <3>7
  <2>2. CASE s = r
    <3>1. ASSUME NEW m \in ToSet(c)
          PROVE  /\ home[m] = r /\ fate'[m] \in InChain
                 /\ fate'[m] = "flushed" => m = Head(c) /\ b = << >>
      <4>1. m \in ToSet(chain[r]) /\ m \notin S /\ m \in Msg
        BY <1>1, PlacedIn
      <4>2. home[m] = r /\ fate[m] \in InChain
        BY <1>0, <4>1 DEF ChainTrue
      <4>3. CASE fate'[m] = fate[m]
        <5>1. CASE fate[m] = "flushed"
          <6>1. m = Head(chain[r]) /\ burst[r] = << >>
            BY <1>0, <4>1, <5>1 DEF ChainTrue
          <6>2. c = chain[r]
            <7>1. SUFFICES ASSUME chain[r] # << >>, c = Tail(chain[r]) PROVE FALSE
              OBVIOUS
            <7>2. Head(chain[r]) \notin ToSet(c)
              BY <1>0, <7>1, PlacedIn, RisingTail DEF ChainTrue
            <7> QED BY <6>1, <7>2
          <6> QED BY <4>2, <4>3, <6>1, <6>2
        <5> QED BY <4>2, <4>3, <5>1
      <4>4. CASE fate'[m] # fate[m]
        <5>1. m = Head(c) /\ b = << >> /\ fate'[m] = "flushed"
          BY <4>1, <4>4
        <5> QED BY <4>2, <5>1 DEF InChain
      <4> QED BY <4>3, <4>4
    <3>2. ASSUME NEW m \in ToSet(b)
          PROVE  /\ home[m] = r /\ fate'[m] = "burst" /\ \A y \in ToSet(c) : m < y
      <4>1. /\ m \in ToSet(burst[r]) /\ m \notin S /\ m \in Msg
        BY <1>1, PlacedIn
      <4>2. home[m] = r /\ fate[m] = "burst" /\ \A y \in ToSet(chain[r]) : m < y
        BY <1>0, <4>1 DEF BurstTrue
      <4>3. fate'[m] = fate[m]
        BY <4>1, <4>2
      <4> QED BY <1>1, <4>2, <4>3
    <3> QED BY <1>1, <1>2, <2>2, <3>1, <3>2 DEF ChainTrue, BurstTrue
  <2> QED BY <2>1, <2>2
<1>9. ASSUME NEW w \in Lined' PROVE WorkTrue(w)'
  <2>1. CASE w \in Lined
    <3>1. WorkTrue(w) /\ w.room \in ChatRoom /\ ToSet(w.items) \subseteq Msg
      BY <2>1, PlacedIn, WorkIs DEF PlacesTrue
    <3>2. Here(w.room)' \subseteq Here(w.room)
      BY <1>2, <3>1
    <3>3. ASSUME NEW m \in ToSet(w.items) PROVE fate'[m] = fate[m]
      <4>1. fate[m] = "queued" /\ m \in Msg
        BY <3>1 DEF WorkTrue
      <4>2. m \notin Here(r)
        BY <1>4, <4>1 DEF InChain
      <4> QED BY <1>3, <4>1, <4>2
    <3> QED BY <3>1, <3>2, <3>3 DEF WorkTrue
  <2>2. CASE /\ w \in Work /\ w.room = r /\ ToSet(w.items) = S /\ Rising(w.items)
             /\ \A m \in S : fate'[m] = "queued" /\ \A y \in ToSet(c) \cup ToSet(b) : m < y
    BY <1>2, <1>3, <1>4, <2>2 DEF WorkTrue
  <2> QED BY <1>5, <2>1, <2>2
<1>10. ASSUME NEW w \in running' PROVE RunTrue(w)'
  <2>1. RunTrue(w) /\ ToSet(w.items) \subseteq Msg
    BY PlacedIn DEF PlacesTrue
  <2>2. ASSUME NEW m \in ToSet(w.items) PROVE fate'[m] = fate[m]
    <3>1. fate[m] \in Begone /\ m \in Msg
      BY <2>1 DEF RunTrue
    <3>2. m \notin Here(r)
      BY <1>4, <3>1 DEF InChain, Begone, Settled
    <3> QED BY <1>3, <3>1, <3>2
  <2> QED BY <2>1, <2>2 DEF RunTrue
<1>11. ASSUME NEW i \in DOMAIN begun' PROVE BegunTrue(i)'
  <2> DEFINE x == begun[i]
  <2>1. fate[x] \in Begone /\ Ahead(x, home[x]) /\ x \in Msg
    BY PlacedIn DEF PlacesTrue, BegunTrue
  <2>2. x \notin Here(r)
    BY <1>4, <2>1 DEF InChain, Begone, Settled
  <2>3. fate'[x] = fate[x]
    BY <1>3, <2>1, <2>2
  <2>4. Ahead(x, home[x])'
    <3>1. ASSUME NEW y \in Here(home[x])' PROVE x < y
      <4>1. CASE home[x] \in ChatRoom
        <5>1. Here(home[x])' \subseteq Here(home[x])
          BY <1>2, <4>1
        <5> QED BY <2>1, <3>1, <5>1 DEF Ahead
      <4>2. CASE home[x] \notin ChatRoom
        <5>1. chain'[home[x]] = chain[home[x]] /\ burst'[home[x]] = burst[home[x]]
          BY <1>0, <4>2 DEF IngressShaped
        <5>2. Here(home[x])' = Here(home[x])
          BY <5>1 DEF Here
        <5> QED BY <2>1, <3>1, <5>2 DEF Ahead
      <4> QED BY <4>1, <4>2
    <3>2. ASSUME NEW w \in Lined', w.room = home[x], NEW y \in ToSet(w.items) PROVE x < y
      <4>1. CASE w \in Lined
        BY <2>1, <3>2, <4>1 DEF Ahead
      <4>2. CASE w.room = r /\ ToSet(w.items) = S
        BY <1>3, <2>1, <3>2, <4>2 DEF Ahead
      <4> QED BY <1>5, <4>1, <4>2
    <3> QED BY <3>1, <3>2 DEF Ahead
  <2> QED BY <2>1, <2>3, <2>4 DEF BegunTrue
<1> QED BY <1>6, <1>7, <1>8, <1>9, <1>10, <1>11 DEF PlacesTrue

\* The head of the chain joins the burst.
LEMMA JoinKeeps ==
  ASSUME PlacesTrue, NEW r \in ChatRoom, chain[r] # << >>, fate[Head(chain[r])] = "collect",
         chain' = [chain EXCEPT ![r] = Tail(@)],
         burst' = [burst EXCEPT ![r] = Append(burst[r], Head(chain[r]))],
         fate' = [fate EXCEPT ![Head(chain[r])] = "burst"],
         UNCHANGED <<waiting, started, running, begun, home>>
  PROVE  PlacesTrue'
<1> DEFINE m == Head(chain[r])
           c == Tail(chain[r])
           b == Append(burst[r], m)
<1>0. ChainTrue(r) /\ BurstTrue(r) /\ IngressShaped
  BY DEF PlacesTrue
<1>1. /\ chain[r] \in Seq(Msg) /\ chain[r] \in Seq(Nat) /\ burst[r] \in Seq(Msg) /\ burst[r] \in Seq(Nat)
      /\ ToSet(chain[r]) \subseteq Msg /\ ToSet(burst[r]) \subseteq Msg /\ Msg \subseteq Nat
  BY PlacedIn
<1>2. /\ m \in Msg /\ m \in ToSet(chain[r]) /\ c \in Seq(Msg) /\ ToSet(chain[r]) = ToSet(c) \cup {m}
  BY <1>1, HeadOff
<1>3. Rising(c) /\ (\A y \in ToSet(c) : m < y) /\ m \notin ToSet(c)
  BY <1>0, <1>1, RisingTail DEF ChainTrue
<1>4. b \in Seq(Msg) /\ ToSet(b) = ToSet(burst[r]) \cup {m}
  BY <1>1, <1>2, Appended
<1>5. Rising(b)
  <2>1. \A y \in ToSet(burst[r]) : y < m
    BY <1>0, <1>2 DEF BurstTrue
  <2>2. m \in Nat
    BY <1>1, <1>2
  <2> QED BY <1>0, <1>1, <2>1, <2>2, RisingAppend DEF BurstTrue
<1> HIDE DEF m, c, b
<1>6. /\ chain'[r] = c /\ burst'[r] = b /\ IngressShaped'
      /\ \A s \in ChatRoom : s # r => chain'[s] = chain[s] /\ burst'[s] = burst[s]
  <2>1. chain' = [chain EXCEPT ![r] = c] /\ burst' = [burst EXCEPT ![r] = b]
    BY DEF m, b, c
  <2>2. chain' \in [ChatRoom -> Seq(Msg)] /\ burst' \in [ChatRoom -> Seq(Msg)]
    BY <1>0, <1>2, <1>4, <2>1 DEF IngressShaped
  <2>3. fate' = [y \in Msg |-> fate'[y]]
    BY <1>0 DEF IngressShaped
  <2>4. /\ chain'[r] = c /\ burst'[r] = b
        /\ \A s \in ChatRoom : s # r => chain'[s] = chain[s] /\ burst'[s] = burst[s]
    BY <1>0, <2>1 DEF IngressShaped
  <2> QED BY <1>0, <2>2, <2>3, <2>4, Zenon DEF IngressShaped
<1>7. fate'[m] = "burst" /\ fate[m] = "collect" /\ \A y \in Msg : y # m => fate'[y] = fate[y]
  BY <1>0, <1>2 DEF IngressShaped, m
<1>8. /\ \A s \in ChatRoom : Here(s)' = Here(s)
      /\ \A s : s \notin ChatRoom => Here(s)' = Here(s)
  <2>1. \A s : s \notin ChatRoom => chain'[s] = chain[s] /\ burst'[s] = burst[s]
    BY <1>0 DEF IngressShaped
  <2> QED BY <1>2, <1>4, <1>6, <2>1 DEF Here
<1>9. Lined' = Lined
  BY DEF Lined
<1>10. Arrived'
  <2>1. \A y \in Msg : fate'[y] = "none" <=> fate[y] = "none"
    BY <1>7
  <2> QED BY <2>1, EarlierOnes, Zenon DEF Arrived, PlacesTrue
<1>11. ASSUME NEW s \in ChatRoom PROVE ChainTrue(s)' /\ BurstTrue(s)'
  <2>0. ChainTrue(s) /\ BurstTrue(s)
    BY DEF PlacesTrue
  <2>1. CASE s # r
    <3>1. chain'[s] = chain[s] /\ burst'[s] = burst[s]
      BY <1>6, <2>1
    <3>2. \A y \in Here(s) : fate'[y] = fate[y]
      <4>1. home[m] = r
        BY <1>0, <1>2 DEF ChainTrue
      <4>2. \A y \in Here(s) : home[y] = s /\ y \in Msg
        BY PlacedIn
      <4> QED BY <1>7, <2>1, <4>1, <4>2
    <3>3. (\A y \in ToSet(chain[s]) : fate'[y] = fate[y]) /\ \A y \in ToSet(burst[s]) : fate'[y] = fate[y]
      BY <3>2 DEF Here
    <3>4. UNCHANGED home
      OBVIOUS
    <3>5. ChainTrue(s)'
      BY <2>0, <3>1, <3>3, <3>4 DEF ChainTrue
    <3>6. BurstTrue(s)'
      BY <2>0, <3>1, <3>3, <3>4 DEF BurstTrue
    <3> QED BY <3>5, <3>6
  <2>2. CASE s = r
    <3>1. ASSUME NEW y \in ToSet(c)
          PROVE  home[y] = r /\ fate'[y] \in InChain /\ fate'[y] # "flushed"
      <4>1. y \in ToSet(chain[r]) /\ y # m /\ y \in Msg
        BY <1>1, <1>2, <1>3
      <4>2. fate[y] # "flushed"
        BY <1>0, <4>1 DEF ChainTrue, m
      <4> QED BY <1>0, <1>7, <4>1, <4>2 DEF ChainTrue
    <3>2. ASSUME NEW y \in ToSet(b)
          PROVE  home[y] = r /\ fate'[y] = "burst" /\ \A z \in ToSet(c) : y < z
      <4>1. CASE y = m
        BY <1>0, <1>2, <1>3, <1>7, <4>1 DEF ChainTrue
      <4>2. CASE y \in ToSet(burst[r])
        <5>1. fate[y] = "burst" /\ home[y] = r /\ \A z \in ToSet(chain[r]) : y < z
          BY <1>0, <4>2 DEF BurstTrue
        <5> QED BY <1>1, <1>2, <1>7, <4>2, <5>1
      <4> QED BY <1>4, <4>1, <4>2
    <3> QED BY <1>3, <1>5, <1>6, <2>2, <3>1, <3>2 DEF ChainTrue, BurstTrue
  <2> QED BY <2>1, <2>2
<1>12. ASSUME NEW w \in Lined' PROVE WorkTrue(w)'
  <2>1. WorkTrue(w) /\ w.room \in ChatRoom /\ ToSet(w.items) \subseteq Msg
    BY <1>9, PlacedIn, WorkIs DEF PlacesTrue
  <2>2. \A y \in ToSet(w.items) : fate'[y] = fate[y]
    BY <1>7, <2>1 DEF WorkTrue
  <2> QED BY <1>8, <2>1, <2>2 DEF WorkTrue
<1>13. ASSUME NEW w \in running' PROVE RunTrue(w)'
  <2>1. RunTrue(w) /\ ToSet(w.items) \subseteq Msg
    BY PlacedIn DEF PlacesTrue
  <2>2. \A y \in ToSet(w.items) : fate'[y] = fate[y]
    BY <1>7, <2>1 DEF RunTrue, Begone, Settled
  <2> QED BY <2>1, <2>2 DEF RunTrue
<1>14. ASSUME NEW i \in DOMAIN begun' PROVE BegunTrue(i)'
  <2>1. fate[begun[i]] \in Begone /\ Ahead(begun[i], home[begun[i]]) /\ begun[i] \in Msg
    BY PlacedIn DEF PlacesTrue, BegunTrue
  <2>2. fate'[begun[i]] = fate[begun[i]]
    BY <1>7, <2>1 DEF Begone, Settled
  <2>3. Here(home[begun[i]])' = Here(home[begun[i]])
    BY <1>8
  <2> QED BY <1>9, <2>1, <2>2, <2>3 DEF BegunTrue, Ahead
<1> QED BY <1>6, <1>10, <1>11, <1>12, <1>13, <1>14 DEF PlacesTrue

\* Nothing moves between places but what starts in its turn; a turn that runs may end.
LEMMA StayKeeps ==
  ASSUME PlacesTrue, UNCHANGED <<chain, burst, begun, home>>,
         QueueTrue(started', waiting'), Lined' = Lined, running' \subseteq running,
         fate' = [m \in Msg |-> fate'[m]],
         \A m \in Msg : fate'[m] = fate[m] \/ (fate[m] \in Begone /\ fate'[m] \in Begone)
  PROVE  PlacesTrue'
<1>0. IngressShaped
  BY DEF PlacesTrue
<1>1. IngressShaped'
  <2>1. running' \subseteq Work /\ IsFiniteSet(running')
    BY <1>0, FS_Subset DEF IngressShaped
  <2> QED BY <1>0, <2>1, Zenon DEF IngressShaped
<1>2. \A r : Here(r)' = Here(r)
  BY DEF Here
<1>3. Arrived'
  <2>1. \A m \in Msg : fate'[m] = "none" <=> fate[m] = "none"
    BY DEF Begone, Settled
  <2> QED BY <2>1, EarlierOnes, Zenon DEF Arrived, PlacesTrue
<1>4. ASSUME NEW s \in ChatRoom PROVE ChainTrue(s)' /\ BurstTrue(s)'
  <2>1. ChainTrue(s) /\ BurstTrue(s)
    BY DEF PlacesTrue
  <2>2. (\A y \in ToSet(chain[s]) : fate'[y] = fate[y]) /\ \A y \in ToSet(burst[s]) : fate'[y] = fate[y]
    BY PlacedIn DEF Here, Begone, Settled, InChain
  <2> QED BY <2>1, <2>2 DEF ChainTrue, BurstTrue
<1>5. ASSUME NEW w \in Lined' PROVE WorkTrue(w)'
  <2>1. WorkTrue(w) /\ ToSet(w.items) \subseteq Msg
    BY PlacedIn DEF PlacesTrue
  <2>2. \A y \in ToSet(w.items) : fate'[y] = fate[y]
    BY <2>1 DEF WorkTrue, Begone, Settled
  <2>3. Here(w.room)' = Here(w.room)
    BY <1>2
  <2> QED BY <2>1, <2>2, <2>3 DEF WorkTrue
<1>6. ASSUME NEW w \in running' PROVE RunTrue(w)'
  <2>1. RunTrue(w) /\ ToSet(w.items) \subseteq Msg
    BY PlacedIn DEF PlacesTrue
  <2> QED BY <2>1 DEF RunTrue
<1>7. ASSUME NEW i \in DOMAIN begun' PROVE BegunTrue(i)'
  <2>1. fate[begun[i]] \in Begone /\ Ahead(begun[i], home[begun[i]]) /\ begun[i] \in Msg
    BY PlacedIn DEF PlacesTrue, BegunTrue
  <2>2. fate'[begun[i]] \in Begone
    BY <2>1
  <2>3. Here(home[begun[i]])' = Here(home[begun[i]])
    BY <1>2
  <2> QED BY <2>1, <2>2, <2>3 DEF BegunTrue, Ahead
<1> QED BY <1>1, <1>3, <1>4, <1>5, <1>6, <1>7 DEF PlacesTrue

\* Whatever has a place has arrived.
LEMMA PlacedArrived ==
  ASSUME PlacesTrue
  PROVE  /\ \A r \in ChatRoom : \A y \in Here(r) : y \in Msg /\ fate[y] # "none"
         /\ \A w \in Lined \cup running : \A y \in ToSet(w.items) : y \in Msg /\ fate[y] # "none"
         /\ \A i \in DOMAIN begun : begun[i] \in Msg /\ fate[begun[i]] # "none"
<1>1. \A r \in ChatRoom : \A y \in Here(r) : y \in Msg /\ fate[y] # "none"
  BY PlacedIn DEF InChain
<1>2. ASSUME NEW w \in Lined \cup running, NEW y \in ToSet(w.items) PROVE y \in Msg /\ fate[y] # "none"
  <2>1. y \in Msg
    BY PlacedIn
  <2>2. CASE w \in Lined
    BY <2>1, <2>2 DEF PlacesTrue, WorkTrue
  <2>3. CASE w \in running
    BY <2>1, <2>3 DEF PlacesTrue, RunTrue, Begone, Settled
  <2> QED BY <2>2, <2>3
<1>3. \A i \in DOMAIN begun : begun[i] \in Msg /\ fate[begun[i]] # "none"
  BY PlacedIn DEF PlacesTrue, BegunTrue, Begone, Settled
<1> QED BY <1>1, <1>2, <1>3

\* A message arrives behind all others: it is refused, or it ends the chain of its room.
LEMMA ArriveKeeps ==
  ASSUME PlacesTrue, NEW m \in Msg, NEW r \in ChatRoom, NEW f \in {"busy", "direct", "collect"},
         fate[m] = "none", \A k \in 1 .. (m - 1) : fate[k] # "none",
         fate' = [fate EXCEPT ![m] = f], home' = [home EXCEPT ![m] = r],
         chain' = IF f = "busy" THEN chain ELSE [chain EXCEPT ![r] = Append(@, m)],
         UNCHANGED <<burst, waiting, started, running, begun>>
  PROVE  PlacesTrue'
<1>0. IngressShaped /\ Arrived /\ Msg \subseteq Nat
  BY PlacedIn DEF PlacesTrue
<1>1. /\ fate'[m] = f /\ home'[m] = r
      /\ \A y \in Msg : y # m => fate'[y] = fate[y] /\ home'[y] = home[y]
  BY <1>0 DEF IngressShaped
<1>2. ASSUME NEW y \in Msg, fate[y] # "none" PROVE y < m /\ fate'[y] = fate[y] /\ home'[y] = home[y]
  <2>1. y # m
    BY <1>2
  <2>2. ~ m < y
    <3>1. SUFFICES ASSUME m < y PROVE FALSE
      OBVIOUS
    <3>2. m \in 1 .. (y - 1)
      BY <1>0, <3>1 DEF Msg
    <3> QED BY <1>0, <1>2, <3>2 DEF Arrived
  <2> QED BY <1>0, <1>1, <2>1, <2>2
<1>3. /\ \A s \in ChatRoom : s # r \/ f = "busy" => chain'[s] = chain[s]
      /\ \A s : s \notin ChatRoom => chain'[s] = chain[s]
      /\ f # "busy" => chain'[r] = Append(chain[r], m)
  BY <1>0 DEF IngressShaped
<1>4. \A s \in ChatRoom : chain[s] \in Seq(Msg) /\ chain[s] \in Seq(Nat)
  BY PlacedIn
<1>5. \A s \in ChatRoom : ToSet(chain'[s]) \subseteq ToSet(chain[s]) \cup {m}
  BY <1>3, <1>4, Appended
<1>6. /\ \A s \in ChatRoom : Here(s)' \subseteq Here(s) \cup {m}
      /\ \A s : s \notin ChatRoom => Here(s)' = Here(s)
  BY <1>3, <1>5 DEF Here
<1>7. Lined' = Lined
  BY DEF Lined
<1>8. IngressShaped'
  <2>1. chain' \in [ChatRoom -> Seq(Msg)]
    BY <1>0, <1>4, Appended DEF IngressShaped
  <2>2. fate' = [y \in Msg |-> fate'[y]] /\ home' = [y \in Msg |-> home'[y]]
    BY <1>0 DEF IngressShaped
  <2> QED BY <1>0, <2>1, <2>2, Zenon DEF IngressShaped
<1>9. Arrived'
  <2> SUFFICES ASSUME NEW y \in Msg, fate'[y] # "none", NEW k \in 1 .. (y - 1)
               PROVE  fate'[k] # "none"
    BY Zenon DEF Arrived
  <2>1. k \in Msg
    BY EarlierOnes
  <2>2. f # "none" /\ (y = m \/ fate[y] # "none")
    BY <1>1
  <2>3. fate[k] # "none"
    BY <1>0, <2>2 DEF Arrived
  <2> QED BY <1>1, <2>1, <2>2, <2>3
<1>10. ASSUME NEW s \in ChatRoom PROVE ChainTrue(s)' /\ BurstTrue(s)'
  <2>0. ChainTrue(s) /\ BurstTrue(s) /\ ToSet(chain[s]) \subseteq Here(s) /\ ToSet(burst[s]) \subseteq Here(s)
    BY DEF PlacesTrue, Here
  <2>1. \A y \in Here(s) : y \in Msg /\ y < m /\ fate'[y] = fate[y] /\ home'[y] = home[y]
    BY <1>2, PlacedArrived
  <2>2. BurstTrue(s)'
    <3>1. ASSUME NEW y \in ToSet(burst[s])
          PROVE  home'[y] = s /\ fate'[y] = "burst" /\ \A z \in ToSet(chain'[s]) : y < z
      <4>1. home[y] = s /\ fate[y] = "burst" /\ \A z \in ToSet(chain[s]) : y < z
        BY <2>0 DEF BurstTrue
      <4> QED BY <1>5, <2>0, <2>1, <4>1
    <3> QED BY <2>0, <3>1 DEF BurstTrue
  <2>3. CASE chain'[s] = chain[s]
    BY <2>0, <2>1, <2>2, <2>3 DEF ChainTrue
  <2>4. CASE s = r /\ f # "busy"
    <3>1. chain'[s] = Append(chain[s], m)
      BY <1>3, <2>4
    <3>2. Rising(chain'[s])
      BY <1>0, <1>4, <2>0, <2>1, <3>1, RisingAppend DEF ChainTrue
    <3>3. fate'[m] \in InChain /\ fate'[m] # "flushed" /\ home'[m] = s
      BY <1>1, <2>4 DEF InChain
    <3>4. ASSUME NEW y \in ToSet(chain[s])
          PROVE  /\ home'[y] = s /\ fate'[y] \in InChain
                 /\ fate'[y] = "flushed" => y = Head(chain'[s]) /\ burst'[s] = << >>
      <4>1. /\ home[y] = s /\ fate[y] \in InChain
            /\ fate[y] = "flushed" => y = Head(chain[s]) /\ burst[s] = << >>
        BY <2>0 DEF ChainTrue
      <4>2. Head(chain'[s]) = Head(chain[s])
        <5>1. chain[s] # << >>
          BY DEF ToSet
        <5> QED BY <1>4, <3>1, <5>1
      <4> QED BY <2>0, <2>1, <4>1, <4>2
    <3>5. \A y \in ToSet(chain'[s]) : y = m \/ y \in ToSet(chain[s])
      BY <1>5
    <3> QED BY <2>2, <3>2, <3>3, <3>4, <3>5, Zenon DEF ChainTrue
  <2> QED BY <1>3, <2>2, <2>3, <2>4
<1>11. ASSUME NEW w \in Lined' PROVE WorkTrue(w)'
  <2>1. WorkTrue(w) /\ w.room \in ChatRoom
    BY <1>7, PlacedIn, WorkIs DEF PlacesTrue
  <2>2. \A y \in ToSet(w.items) : y < m /\ fate'[y] = fate[y] /\ home'[y] = home[y]
    BY <1>2, <1>7, PlacedArrived
  <2>3. Here(w.room)' \subseteq Here(w.room) \cup {m}
    BY <1>6, <2>1
  <2> QED BY <2>1, <2>2, <2>3 DEF WorkTrue
<1>12. ASSUME NEW w \in running' PROVE RunTrue(w)'
  <2>1. RunTrue(w) /\ \A y \in ToSet(w.items) : fate'[y] = fate[y]
    BY <1>2, PlacedArrived DEF PlacesTrue
  <2> QED BY <2>1 DEF RunTrue
<1>13. ASSUME NEW i \in DOMAIN begun' PROVE BegunTrue(i)'
  <2>1. PICK x \in Msg : begun[i] = x /\ fate[x] # "none"
    BY PlacedArrived
  <2>2. PICK s : s = home[x]
    OBVIOUS
  <2>3. x < m /\ fate'[x] = fate[x] /\ home'[x] = s
    BY <1>2, <2>1, <2>2
  <2>4. fate[x] \in Begone /\ Ahead(x, s)
    BY <2>1, <2>2 DEF PlacesTrue, BegunTrue
  <2>5. Here(s)' \subseteq Here(s) \cup {m}
    BY <1>6
  <2>6. Ahead(x, s)'
    BY <1>7, <2>3, <2>4, <2>5 DEF Ahead
  <2> QED BY <2>1, <2>3, <2>4, <2>6 DEF BegunTrue
<1> QED BY <1>8, <1>9, <1>10, <1>11, <1>12, <1>13 DEF PlacesTrue

\* The first work that has a slot begins.
LEMMA BeginKeeps ==
  ASSUME PlacesTrue, RoomOrder, NEW w, started # << >>, w = Head(started),
         started' = Tail(started), running' = running \cup {w}, begun' = Append(begun, Last(w.items)),
         fate' = [y \in Msg |-> fate'[y]],
         \A y \in ToSet(w.items) : fate'[y] \in Begone,
         \A y \in Msg \ ToSet(w.items) : fate'[y] = fate[y],
         UNCHANGED <<chain, burst, waiting, home>>
  PROVE  /\ PlacesTrue' /\ RoomOrder' /\ w \in Lined /\ w \notin Lined' /\ w \notin running
         /\ \A v \in Lined' : ToSet(v.items) \cap ToSet(w.items) = {}
<1> DEFINE m == Last(w.items)
           r == w.room
<1>0. IngressShaped /\ QueueTrue(started, waiting) /\ started \in Seq(Work)
  BY DEF PlacesTrue, IngressShaped, QueueTrue
<1>1. /\ w \in Work /\ w \in ToSet(started) /\ w = started[1] /\ started' \in Seq(Work)
      /\ Len(started') = Len(started) - 1 /\ (\A i \in DOMAIN started' : started'[i] = started[i + 1])
      /\ ToSet(started) = ToSet(started') \cup {w}
  BY <1>0, HeadOff
<1>2. w \in Lined /\ WorkTrue(w) /\ w.items # << >> /\ r \in ChatRoom /\ ToSet(w.items) \subseteq Msg
  BY <1>0, <1>1, PlacedIn, WorkIs DEF Lined, PlacesTrue, QueueTrue
<1>3. m \in ToSet(w.items) /\ m \in Msg /\ home[m] = r
  <2>1. w.items \in Seq(Nat)
    BY <1>1, WorkIs
  <2> QED BY <1>2, <2>1, RisingLast DEF WorkTrue
<1>4. ASSUME NEW v \in Lined' PROVE v \in Lined /\ Precedes(w, v)
  <2>1. CASE v \in ToSet(started')
    <3>1. PICK i \in DOMAIN started' : v = started'[i]
      BY <2>1 DEF ToSet
    <3>2. 1 \in DOMAIN started /\ i + 1 \in DOMAIN started /\ 1 < i + 1 /\ v = started[i + 1]
      BY <1>0, <1>1, <3>1
    <3> QED BY <1>0, <1>1, <2>1, <3>2 DEF QueueTrue, InLine, Lined
  <2>2. CASE v \in ToSet(waiting)
    BY <1>0, <1>1, <2>2 DEF QueueTrue, Lined
  <2> QED BY <2>1, <2>2 DEF Lined
<1>5. w \notin Lined'
  BY <1>1, <1>2, <1>4, NotBeforeItself
<1>6. w \notin running
  <2>1. \A y \in ToSet(w.items) : fate[y] = "queued"
    BY <1>2 DEF WorkTrue
  <2> QED BY <1>3, <2>1 DEF PlacesTrue, RunTrue, Begone, Settled
<1>7. ASSUME NEW v \in Lined' PROVE ToSet(v.items) \cap ToSet(w.items) = {}
  <2>1. SUFFICES ASSUME NEW y \in ToSet(v.items), y \in ToSet(w.items) PROVE FALSE
    OBVIOUS
  <2>2. home[y] = v.room /\ home[y] = w.room
    BY <1>2, <1>4, <2>1 DEF PlacesTrue, WorkTrue
  <2>3. y < y /\ y \in Nat
    BY <1>2, <1>4, <2>1, <2>2, PlacedIn DEF Precedes
  <2> QED BY <2>3
<1>8. \A s : Here(s)' = Here(s)
  BY DEF Here
<1>9. \A y \in Msg : fate[y] # "queued" => fate'[y] = fate[y]
  BY <1>2 DEF WorkTrue
<1> HIDE DEF m, r
<1>10. IngressShaped'
  <2>1. QueueTrue(started', waiting')
    <3>1. InLine(started')
      <4> SUFFICES ASSUME NEW i \in DOMAIN started', NEW j \in DOMAIN started', i < j
                   PROVE  Precedes(started'[i], started'[j])
        BY DEF InLine
      <4>1. i + 1 \in DOMAIN started /\ j + 1 \in DOMAIN started /\ i + 1 < j + 1
        BY <1>0, <1>1
      <4> QED BY <1>0, <1>1, <4>1 DEF QueueTrue, InLine
    <3> QED BY <1>0, <1>1, <3>1 DEF QueueTrue
  <2>2. begun' \in Seq(Msg)
    BY <1>0, <1>3 DEF IngressShaped, m
  <2>3. running' \subseteq Work /\ IsFiniteSet(running')
    BY <1>0, <1>1, FS_AddElement DEF IngressShaped
  <2> QED BY <1>0, <2>1, <2>2, <2>3, Zenon DEF IngressShaped
<1>11. Arrived'
  <2>1. \A y \in Msg : fate'[y] = "none" <=> fate[y] = "none"
    BY <1>2 DEF WorkTrue, Begone, Settled
  <2> QED BY <2>1, EarlierOnes, Zenon DEF Arrived, PlacesTrue
<1>12. ASSUME NEW s \in ChatRoom PROVE ChainTrue(s)' /\ BurstTrue(s)'
  <2>1. ChainTrue(s) /\ BurstTrue(s)
    BY DEF PlacesTrue
  <2>2. (\A y \in ToSet(chain[s]) : fate'[y] = fate[y]) /\ \A y \in ToSet(burst[s]) : fate'[y] = fate[y]
    BY <1>9, PlacedIn DEF Here, InChain
  <2> QED BY <2>1, <2>2 DEF ChainTrue, BurstTrue
<1>13. ASSUME NEW v \in Lined' PROVE WorkTrue(v)'
  <2>1. WorkTrue(v) /\ ToSet(v.items) \subseteq Msg
    BY <1>4, PlacedIn DEF PlacesTrue
  <2>2. \A y \in ToSet(v.items) : fate'[y] = fate[y]
    BY <1>7, <2>1
  <2>3. Here(v.room)' = Here(v.room)
    BY <1>8
  <2> QED BY <2>1, <2>2, <2>3 DEF WorkTrue
<1>14. ASSUME NEW v \in running' PROVE RunTrue(v)'
  <2>1. CASE v = w
    BY <1>2, <2>1 DEF RunTrue
  <2>2. CASE v \in running
    <3>1. RunTrue(v) /\ ToSet(v.items) \subseteq Msg
      BY <2>2, PlacedIn DEF PlacesTrue
    <3> QED BY <1>9, <3>1 DEF RunTrue, Begone, Settled
  <2> QED BY <2>1, <2>2
<1>15. /\ DOMAIN begun' = 1 .. Len(begun) + 1 /\ begun'[Len(begun) + 1] = m /\ Len(begun) \in Nat
       /\ \A i \in DOMAIN begun : begun'[i] = begun[i]
       /\ DOMAIN begun = 1 .. Len(begun)
  BY <1>0, <1>3, Appended DEF IngressShaped, m
<1>16. ASSUME NEW i \in DOMAIN begun
       PROVE  /\ fate'[begun[i]] \in Begone /\ Ahead(begun[i], home[begun[i]])
              /\ Ahead(begun[i], home[begun[i]])'
  <2>1. fate[begun[i]] \in Begone /\ Ahead(begun[i], home[begun[i]]) /\ begun[i] \in Msg
    BY PlacedIn DEF PlacesTrue, BegunTrue
  <2>2. fate'[begun[i]] = fate[begun[i]]
    BY <1>9, <2>1 DEF Begone, Settled
  <2>3. begun'[i] = begun[i]
    BY <1>15
  <2>4. Here(home[begun[i]])' = Here(home[begun[i]])
    BY <1>8
  <2> QED BY <1>4, <2>1, <2>2, <2>3, <2>4 DEF Ahead
<1>17. ASSUME NEW i \in DOMAIN begun' PROVE BegunTrue(i)'
  <2>1. CASE i \in DOMAIN begun
    <3>1. begun'[i] = begun[i] /\ home' = home
      BY <1>15, <2>1
    <3> QED BY <1>16, <2>1, <3>1 DEF BegunTrue
  <2>2. CASE i = Len(begun) + 1
    <3>1. begun'[i] = m /\ home'[m] = r /\ fate'[m] \in Begone
      BY <1>3, <1>15, <2>2 DEF m
    <3>2. \A y \in Here(r)' : m < y
      BY <1>2, <1>3, <1>8 DEF WorkTrue, r
    <3>3. \A v \in Lined' : v.room = r => \A y \in ToSet(v.items) : m < y
      BY <1>3, <1>4 DEF Precedes, r
    <3> QED BY <3>1, <3>2, <3>3 DEF BegunTrue, Ahead
  <2> QED BY <1>15, <2>1, <2>2
<1>18. RoomOrder'
  <2> SUFFICES ASSUME NEW i \in DOMAIN begun', NEW j \in DOMAIN begun', i < j,
                      home[begun'[i]] = home[begun'[j]]
               PROVE  begun'[i] < begun'[j]
    BY DEF RoomOrder
  <2>1. i \in DOMAIN begun /\ begun'[i] = begun[i]
    BY <1>15
  <2>2. CASE j \in DOMAIN begun
    BY <1>15, <2>1, <2>2 DEF RoomOrder
  <2>3. CASE j = Len(begun) + 1
    <3>1. begun'[j] = m /\ home[begun[i]] = r
      BY <1>3, <1>15, <2>1, <2>3
    <3> QED BY <1>2, <1>3, <1>16, <2>1, <3>1 DEF Ahead, r
  <2> QED BY <1>15, <2>2, <2>3
<1> QED BY <1>2, <1>5, <1>6, <1>7, <1>10, <1>11, <1>12, <1>13, <1>14, <1>17, <1>18 DEF PlacesTrue

(* The counters *)

Chained == UNION {ToSet(chain[r]) : r \in ChatRoom}
Collected == UNION {Unbegun(r) : r \in ChatRoom}

ChainsCounted ==
  /\ pre \in [ChatRoom -> Nat] /\ \A r \in ChatRoom : pre[r] = Len(chain[r])
  /\ preAll = Cardinality(Chained)
CollectedCounted ==
  /\ col \in [ChatRoom -> Nat] /\ \A r \in ChatRoom : col[r] = Cardinality(Unbegun(r))
  /\ colAll = Cardinality(Collected)
WorksCounted ==
  /\ roomPending \in [ChatRoom -> Nat] /\ \A r \in ChatRoom : roomPending[r] = Cardinality(WorksOf(r))
  /\ roomActive \in [ChatRoom -> Nat] /\ active \in Nat
  /\ \A r \in ChatRoom : roomActive[r] = Cardinality(SlotsOf(started, running, r))
  /\ active = Len(started) + Cardinality(running)

IngressInv == PlacesTrue /\ RoomOrder /\ ChainsCounted /\ CollectedCounted /\ WorksCounted

LEMMA MsgFinite ==
  ASSUME NEW S, S \subseteq Msg
  PROVE  IsFiniteSet(S) /\ Cardinality(S) \in Nat
<1>1. IsFiniteSet(Msg)
  <2>1. MaxMsg \in Nat
    BY ONLY IngressAssumption
  <2>2. IsFiniteSet(1 .. MaxMsg)
    BY ONLY <2>1, FS_Interval
  <2> QED BY ONLY <2>2 DEF Msg
<1> QED BY <1>1, FS_Subset, FS_CardinalityType

\* One more, or some less, of finitely many.
LEMMA OneMore ==
  ASSUME NEW S, S \subseteq Msg, NEW x, x \notin S
  PROVE  Cardinality(S \cup {x}) = Cardinality(S) + 1
BY MsgFinite, FS_AddElement

LEMMA SomeLess ==
  ASSUME NEW S, S \subseteq Msg, NEW D, D \subseteq S
  PROVE  /\ Cardinality(S \ D) = Cardinality(S) - Cardinality(D) /\ Cardinality(D) \in Nat
         /\ Cardinality(D) <= Cardinality(S) /\ Cardinality(S) \in Nat
<1>1. IsFiniteSet(S) /\ IsFiniteSet(D) /\ Cardinality(S) \in Nat /\ Cardinality(D) \in Nat
  BY MsgFinite
<1>2. S \cap D = D
  OBVIOUS
<1>3. Cardinality(S \ D) = Cardinality(S) - Cardinality(S \cap D)
  BY <1>1, FS_Difference
<1>4. Cardinality(D) <= Cardinality(S)
  BY <1>1, FS_Subset
<1> QED BY <1>1, <1>2, <1>3, <1>4

\* A message is in one chain.
LEMMA ChainedIn ==
  ASSUME PlacesTrue
  PROVE  /\ Chained \subseteq Msg
         /\ \A r \in ChatRoom : \A y \in ToSet(chain[r]) : y \in Chained /\ home[y] = r /\ fate[y] \in InChain
         /\ \A y \in Chained : \E r \in ChatRoom : y \in ToSet(chain[r])
<1>1. \A r \in ChatRoom : ToSet(chain[r]) \subseteq Msg /\ ChainTrue(r)
  BY PlacedIn DEF PlacesTrue
<1> QED BY <1>1 DEF Chained, ChainTrue

LEMMA ChainGrows ==
  ASSUME PlacesTrue, ChainsCounted, NEW r \in ChatRoom, NEW m \in Msg, fate[m] = "none",
         chain' = [chain EXCEPT ![r] = Append(@, m)], pre' = [pre EXCEPT ![r] = @ + 1], preAll' = preAll + 1
  PROVE  ChainsCounted'
<1>1. chain \in [ChatRoom -> Seq(Msg)]
  BY DEF PlacesTrue, IngressShaped
<1>2. /\ Len(chain'[r]) = Len(chain[r]) + 1 /\ ToSet(chain'[r]) = ToSet(chain[r]) \cup {m}
      /\ \A s \in ChatRoom : s # r => chain'[s] = chain[s]
  <2>1. chain'[r] = Append(chain[r], m) /\ chain[r] \in Seq(Msg)
    BY <1>1
  <2> QED BY <1>1, <2>1, Appended
<1>3. pre' \in [ChatRoom -> Nat] /\ \A s \in ChatRoom : pre'[s] = Len(chain'[s])
  BY <1>2 DEF ChainsCounted
<1>4. Chained' = Chained \cup {m}
  <2>1. ASSUME NEW s \in ChatRoom
        PROVE  /\ s = r => ToSet(chain'[s]) = ToSet(chain[s]) \cup {m}
               /\ s # r => ToSet(chain'[s]) = ToSet(chain[s])
    BY <1>2
  <2>2. ASSUME NEW y \in Chained' PROVE y \in Chained \cup {m}
    <3>1. PICK s \in ChatRoom : y \in ToSet(chain'[s])
      BY <2>2 DEF Chained
    <3>2. y \in ToSet(chain[s]) \cup {m}
      BY <2>1, <3>1
    <3> QED BY <3>2 DEF Chained
  <2>3. ASSUME NEW y \in Chained \cup {m} PROVE y \in Chained'
    <3>1. CASE y = m
      <4>1. m \in ToSet(chain'[r])
        BY <2>1
      <4> QED BY <3>1, <4>1 DEF Chained
    <3>2. CASE y \in Chained
      <4>1. PICK s \in ChatRoom : y \in ToSet(chain[s])
        BY <3>2 DEF Chained
      <4>2. y \in ToSet(chain'[s])
        BY <2>1, <4>1
      <4> QED BY <4>2 DEF Chained
    <3> QED BY <3>1, <3>2
  <2> QED BY <2>2, <2>3
<1>5. Chained \subseteq Msg /\ m \notin Chained
  <2>1. \A y \in Chained : fate[y] \in InChain
    BY ChainedIn
  <2> QED BY <2>1, ChainedIn DEF InChain
<1>6. Cardinality(Chained \cup {m}) = Cardinality(Chained) + 1
  BY <1>5, OneMore
<1> QED BY <1>3, <1>4, <1>6 DEF ChainsCounted

LEMMA ChainShrinks ==
  ASSUME PlacesTrue, ChainsCounted, NEW r \in ChatRoom, chain[r] # << >>, PreflightEnds(r)
  PROVE  ChainsCounted'
<1> DEFINE m == Head(chain[r])
<1>0. /\ chain' = [chain EXCEPT ![r] = Tail(@)]
      /\ pre' = [pre EXCEPT ![r] = @ - 1] /\ preAll' = preAll - 1
  BY DEF PreflightEnds
<1>1. chain \in [ChatRoom -> Seq(Msg)] /\ chain[r] \in Seq(Nat) /\ Rising(chain[r])
  BY PlacedIn DEF PlacesTrue, IngressShaped, ChainTrue
<1>2. /\ Len(chain'[r]) = Len(chain[r]) - 1 /\ ToSet(chain'[r]) = ToSet(chain[r]) \ {m}
      /\ m \in ToSet(chain[r]) /\ Len(chain[r]) \in Nat \ {0}
      /\ \A s \in ChatRoom : s # r => chain'[s] = chain[s]
  <2>1. chain'[r] = Tail(chain[r]) /\ chain[r] \in Seq(Msg)
    BY <1>0, <1>1
  <2>2. Len(Tail(chain[r])) = Len(chain[r]) - 1 /\ m \in ToSet(chain[r])
    BY <2>1, HeadOff
  <2>3. ToSet(Tail(chain[r])) = ToSet(chain[r]) \ {m}
    BY <1>1, RisingTail
  <2> QED BY <1>0, <1>1, <2>1, <2>2, <2>3
<1> HIDE DEF m
<1>3. pre' \in [ChatRoom -> Nat] /\ \A s \in ChatRoom : pre'[s] = Len(chain'[s])
  BY <1>0, <1>2 DEF ChainsCounted
<1>4. Chained' = Chained \ {m} /\ m \in Chained /\ Chained \subseteq Msg
  <2>1. ASSUME NEW s \in ChatRoom PROVE ToSet(chain'[s]) = ToSet(chain[s]) \ {m}
    <3>1. CASE s = r
      BY <1>2, <3>1
    <3>2. CASE s # r
      <4>1. m \notin ToSet(chain[s])
        BY <1>2, <3>2, ChainedIn
      <4> QED BY <1>2, <3>2, <4>1
    <3> QED BY <3>1, <3>2
  <2>2. Chained' \subseteq Chained \ {m}
    BY <2>1 DEF Chained
  <2>3. ASSUME NEW y \in Chained \ {m} PROVE y \in Chained'
    <3>1. PICK s \in ChatRoom : y \in ToSet(chain[s])
      BY <2>3 DEF Chained
    <3>2. y \in ToSet(chain'[s])
      BY <2>1, <2>3, <3>1
    <3> QED BY <3>2 DEF Chained
  <2> QED BY <1>2, <2>2, <2>3, ChainedIn
<1>5. Cardinality(Chained \ {m}) = Cardinality(Chained) - 1
  <2>1. Cardinality({m}) = 1 /\ {m} \subseteq Chained
    BY <1>4, FS_Singleton
  <2> QED BY <1>4, <2>1, SomeLess
<1> QED BY <1>0, <1>3, <1>4, <1>5 DEF ChainsCounted

\* A collected message is in one place of its room.
LEMMA UnbegunIn ==
  ASSUME PlacesTrue
  PROVE  /\ Collected \subseteq Msg
         /\ \A r \in ChatRoom : /\ Unbegun(r) \subseteq Collected /\ ToSet(burst[r]) \subseteq Unbegun(r)
                                /\ \A y \in Unbegun(r) : home[y] = r /\ fate[y] \in {"burst", "queued"}
         /\ \A w \in Lined : w.burst => ToSet(w.items) \subseteq Unbegun(w.room)
<1>1. \A r : Unbegun(r) \subseteq Msg
  BY DEF Unbegun
<1>2. ASSUME NEW r \in ChatRoom
      PROVE  /\ ToSet(burst[r]) \subseteq Unbegun(r)
             /\ \A y \in Unbegun(r) : home[y] = r /\ fate[y] \in {"burst", "queued"}
  <2>1. BurstTrue(r) /\ ToSet(burst[r]) \subseteq Msg
    BY PlacedIn DEF PlacesTrue
  <2>2. ASSUME NEW y \in Unbegun(r) PROVE home[y] = r /\ fate[y] \in {"burst", "queued"}
    <3>1. CASE y \in ToSet(burst[r])
      BY <2>1, <3>1 DEF BurstTrue
    <3>2. CASE \E w \in Lined : w.room = r /\ y \in ToSet(w.items)
      BY <3>2 DEF PlacesTrue, WorkTrue
    <3> QED BY <3>1, <3>2 DEF Unbegun, Lined
  <2> QED BY <2>1, <2>2 DEF Unbegun
<1>3. \A w \in Lined : w.burst => ToSet(w.items) \subseteq Unbegun(w.room)
  BY PlacedIn DEF Unbegun, Lined
<1> QED BY <1>1, <1>2, <1>3 DEF Collected

LEMMA CollectedSame ==
  ASSUME CollectedCounted, UNCHANGED <<col, colAll>>, \A r \in ChatRoom : Unbegun(r)' = Unbegun(r)
  PROVE  CollectedCounted'
<1>1. Collected' = Collected
  BY DEF Collected
<1> QED BY <1>1 DEF CollectedCounted

LEMMA CollectedMore ==
  ASSUME PlacesTrue, CollectedCounted, NEW r \in ChatRoom, NEW m, m \notin Collected,
         col' = [col EXCEPT ![r] = @ + 1], colAll' = colAll + 1,
         Unbegun(r)' = Unbegun(r) \cup {m}, \A s \in ChatRoom : s # r => Unbegun(s)' = Unbegun(s)
  PROVE  CollectedCounted'
<1>1. Collected' = Collected \cup {m}
  <2>1. ASSUME NEW s \in ChatRoom
        PROVE  Unbegun(s)' = IF s = r THEN Unbegun(r) \cup {m} ELSE Unbegun(s)
    OBVIOUS
  <2> QED BY <2>1 DEF Collected
<1>2. \A s \in ChatRoom : Unbegun(s) \subseteq Msg /\ m \notin Unbegun(s)
  BY UnbegunIn
<1>3. Cardinality(Collected \cup {m}) = Cardinality(Collected) + 1
  BY UnbegunIn, OneMore
<1>4. Cardinality(Unbegun(r) \cup {m}) = Cardinality(Unbegun(r)) + 1
  BY <1>2, OneMore
<1> QED BY <1>1, <1>3, <1>4 DEF CollectedCounted

LEMMA CollectedLess ==
  ASSUME PlacesTrue, CollectedCounted, NEW r \in ChatRoom, NEW D, D \subseteq Unbegun(r),
         col' = [col EXCEPT ![r] = @ - Cardinality(D)], colAll' = colAll - Cardinality(D),
         Unbegun(r)' = Unbegun(r) \ D, \A s \in ChatRoom : s # r => Unbegun(s)' = Unbegun(s)
  PROVE  CollectedCounted'
<1>1. \A s \in ChatRoom : s # r => Unbegun(s) \cap D = {}
  BY UnbegunIn
<1>2. Collected' = Collected \ D /\ D \subseteq Collected
  <2>1. ASSUME NEW s \in ChatRoom PROVE Unbegun(s)' = Unbegun(s) \ D
    BY <1>1
  <2> QED BY <2>1, UnbegunIn DEF Collected
<1>3. Cardinality(Collected \ D) = Cardinality(Collected) - Cardinality(D)
  BY <1>2, UnbegunIn, SomeLess
<1>4. /\ Cardinality(Unbegun(r) \ D) = Cardinality(Unbegun(r)) - Cardinality(D)
      /\ Cardinality(D) <= Cardinality(Unbegun(r)) /\ Cardinality(D) \in Nat
  BY UnbegunIn, SomeLess
<1> QED BY <1>2, <1>3, <1>4 DEF CollectedCounted

\* releaseCollected lets go of what it is told to.
LEMMA Released ==
  ASSUME PlacesTrue, CollectedCounted, NEW r \in ChatRoom, NEW s \in Seq(Nat), Rising(s),
         ToSet(s) \subseteq Unbegun(r), ReleaseCollected(r, Len(s))
  PROVE  /\ col' = [col EXCEPT ![r] = @ - Cardinality(ToSet(s))] /\ colAll' = colAll - Cardinality(ToSet(s))
<1>1. Cardinality(ToSet(s)) = Len(s) /\ Len(s) \in Nat
  BY RisingCounts
<1>2. Len(s) <= col[r] /\ col[r] \in Nat
  <2>1. Unbegun(r) \subseteq Msg
    BY UnbegunIn
  <2>2. Cardinality(ToSet(s)) <= Cardinality(Unbegun(r))
    BY <2>1, SomeLess
  <2> QED BY <1>1, <2>2 DEF CollectedCounted
<1>3. (IF Len(s) < col[r] THEN Len(s) ELSE col[r]) = Len(s)
  BY <1>1, <1>2
<1> QED BY <1>1, <1>3 DEF ReleaseCollected

\* Works are apart: those that wait, those that have a slot, and those that run.
LEMMA WorksApart ==
  ASSUME PlacesTrue
  PROVE  /\ Lined \cap running = {} /\ ToSet(started) \cap ToSet(waiting) = {}
         /\ Works = Lined \cup running /\ IsFiniteSet(Works)
         /\ \A w \in Lined : w \in Work /\ w.items # << >> /\ w.items[1] \in ToSet(w.items)
<1>1. QueueTrue(started, waiting) /\ running \subseteq Work /\ IsFiniteSet(running)
  BY DEF PlacesTrue, IngressShaped
<1>2. ASSUME NEW w \in Lined PROVE w \in Work /\ w.items # << >> /\ w.items[1] \in ToSet(w.items)
  <2>1. w \in Work /\ w.items # << >> /\ w.items \in Seq(Nat)
    BY <1>1, PlacedIn, WorkIs DEF QueueTrue, Lined
  <2> QED BY <2>1 DEF ToSet
<1>3. ASSUME NEW w \in Lined PROVE w \notin running
  <2>1. fate[w.items[1]] = "queued"
    BY <1>2 DEF PlacesTrue, WorkTrue
  <2> QED BY <1>2, <2>1 DEF PlacesTrue, RunTrue, Begone, Settled
<1>4. \A w \in ToSet(started) : w \notin ToSet(waiting)
  BY <1>1, <1>2, NotBeforeItself DEF QueueTrue, Lined
<1>5. IsFiniteSet(Lined)
  <2>1. started \in Seq(Work) /\ waiting \in Seq(Work)
    BY <1>1 DEF QueueTrue
  <2> QED BY <2>1, ItemsFinite, FS_Union DEF Lined
<1>6. Works = Lined \cup running
  BY DEF Works, Lined
<1> QED BY <1>1, <1>2, <1>3, <1>4, <1>5, <1>6, FS_Union

\* A new work of messages that were in the room waits behind all others of it.
LEMMA QueuedLast ==
  ASSUME PlacesTrue, NEW w \in Work, w.items # << >>, ToSet(w.items) \subseteq Here(w.room)
  PROVE  /\ QueueTrue(started, Append(waiting, w)) /\ w \notin Works
         /\ ToSet(Append(waiting, w)) = ToSet(waiting) \cup {w}
<1>1. QueueTrue(started, waiting) /\ waiting \in Seq(Work)
  BY DEF PlacesTrue, IngressShaped, QueueTrue
<1>2. \A v \in Lined : Precedes(v, w)
  BY DEF PlacesTrue, WorkTrue, Precedes
<1>3. /\ Append(waiting, w) \in Seq(Work) /\ DOMAIN Append(waiting, w) = 1 .. Len(waiting) + 1
      /\ (\A i \in DOMAIN waiting : Append(waiting, w)[i] = waiting[i])
      /\ Append(waiting, w)[Len(waiting) + 1] = w
      /\ ToSet(Append(waiting, w)) = ToSet(waiting) \cup {w}
  BY <1>1, Appended
<1>4. InLine(Append(waiting, w))
  <2> SUFFICES ASSUME NEW i \in DOMAIN Append(waiting, w), NEW j \in DOMAIN Append(waiting, w), i < j
               PROVE  Precedes(Append(waiting, w)[i], Append(waiting, w)[j])
    BY DEF InLine
  <2>1. i \in DOMAIN waiting /\ (j \in DOMAIN waiting \/ j = Len(waiting) + 1)
    BY <1>1, <1>3
  <2>2. CASE j \in DOMAIN waiting
    BY <1>1, <1>3, <2>1, <2>2 DEF QueueTrue, InLine
  <2>3. CASE j = Len(waiting) + 1
    <3>1. waiting[i] \in Lined
      BY <1>1, <2>1, ElementIs DEF Lined
    <3> QED BY <1>2, <1>3, <2>1, <2>3, <3>1
  <2> QED BY <2>1, <2>2, <2>3
<1>5. QueueTrue(started, Append(waiting, w))
  BY <1>1, <1>2, <1>3, <1>4 DEF QueueTrue, Lined
<1>6. w \notin Lined
  BY <1>2, NotBeforeItself
<1>7. w \notin running
  <2>1. w.room \in ChatRoom /\ w.items \in Seq(Nat)
    BY WorkIs
  <2>2. w.items[1] \in ToSet(w.items)
    BY <2>1 DEF ToSet
  <2>3. fate[w.items[1]] \in InChain \cup {"burst"}
    BY <2>1, <2>2, PlacedIn
  <2> QED BY <2>2, <2>3 DEF PlacesTrue, RunTrue, Begone, Settled, InChain
<1> QED BY <1>3, <1>5, <1>6, <1>7, WorksApart

LEMMA EnqueueCounts ==
  ASSUME PlacesTrue, WorksCounted, NEW w \in Work, w.items # << >>, ToSet(w.items) \subseteq Here(w.room),
         EnqueueWork(w)
  PROVE  /\ QueueTrue(started', waiting') /\ Lined' = Lined \cup {w} /\ UNCHANGED running
         /\ WorksCounted'
<1> DEFINE q == Append(waiting, w)
<1>0. /\ roomPending' = [roomPending EXCEPT ![w.room] = @ + 1]
      /\ StartAvailable(q, roomActive, active) /\ running' = running /\ w.room \in ChatRoom
  BY WorkIs DEF EnqueueWork
<1>1. QueueTrue(started, q) /\ w \notin Works /\ ToSet(q) = ToSet(waiting) \cup {w}
  BY QueuedLast
<1>2. Lined \cap running = {} /\ Works = Lined \cup running /\ IsFiniteSet(Works)
  BY WorksApart
<1> HIDE DEF q
<1>3. QueueTrue(started', waiting') /\ ToSet(started') \cup ToSet(waiting') = ToSet(started) \cup ToSet(q)
  BY <1>0, <1>1, StartKeepsLine
<1>4. Lined' = Lined \cup {w}
  BY <1>1, <1>3 DEF Lined
<1>5. /\ roomActive' \in [ChatRoom -> Nat] /\ active' \in Nat
      /\ \A r \in ChatRoom : roomActive'[r] = Cardinality(SlotsOf(started', running, r))
      /\ active' = Len(started') + Cardinality(running)
  <2>1. running \cap ToSet(q) = {} /\ IsFiniteSet(running)
    BY <1>1, <1>2, FS_Subset DEF Lined
  <2> QED BY <1>0, <1>1, <2>1, StartCounts DEF WorksCounted
<1>6. ASSUME NEW r \in ChatRoom PROVE roomPending'[r] = Cardinality(WorksOf(r)')
  <2>1. Works' = Works \cup {w}
    <3>1. Works' = Lined' \cup running'
      BY DEF Works, Lined
    <3> QED BY <1>0, <1>2, <1>4, <3>1
  <2>2. WorksOf(r) \subseteq Works /\ IsFiniteSet(WorksOf(r)) /\ w \notin WorksOf(r)
    BY <1>1, <1>2, FS_Subset DEF WorksOf
  <2>3. WorksOf(r)' = IF r = w.room THEN WorksOf(r) \cup {w} ELSE WorksOf(r)
    BY <2>1 DEF WorksOf
  <2>4. Cardinality(WorksOf(r) \cup {w}) = Cardinality(WorksOf(r)) + 1
    BY <2>2, FS_AddElement
  <2> QED BY <1>0, <2>3, <2>4 DEF WorksCounted
<1>7. roomPending' \in [ChatRoom -> Nat]
  BY <1>0 DEF WorksCounted
<1> QED BY <1>0, <1>3, <1>4, <1>5, <1>6, <1>7 DEF WorksCounted

LEMMA SameWorks ==
  ASSUME PlacesTrue, WorksCounted, UNCHANGED workVars
  PROVE  /\ QueueTrue(started', waiting') /\ Lined' = Lined /\ UNCHANGED <<waiting, started, running>>
         /\ WorksCounted'
<1>1. UNCHANGED <<waiting, started, running, roomPending, roomActive, active>>
  BY DEF workVars
<1>2. QueueTrue(started', waiting')
  BY <1>1 DEF PlacesTrue, IngressShaped
<1>3. \A r : WorksOf(r)' = WorksOf(r)
  BY <1>1 DEF WorksOf, Works
<1> QED BY <1>1, <1>2, <1>3 DEF WorksCounted, Lined

LEMMA SameOrder == ASSUME RoomOrder, UNCHANGED <<begun, home>> PROVE RoomOrder'
  BY DEF RoomOrder

LEMMA SameChains == ASSUME ChainsCounted, UNCHANGED <<chain, pre, preAll>> PROVE ChainsCounted'
  BY DEF ChainsCounted, Chained

\* Where the collected messages of a room are.
LEMMA UnbegunIs ==
  ASSUME NEW r
  PROVE  /\ \A m : m \in Unbegun(r) <=> /\ m \in Msg
                                        /\ \/ m \in ToSet(burst[r])
                                           \/ \E w \in Lined : w.room = r /\ w.burst /\ m \in ToSet(w.items)
  BY DEF Unbegun, Lined

LEMMA SubmitKeeps ==
  ASSUME IngressInv, NEW m \in Msg, NEW r \in ChatRoom, NEW collect \in BOOLEAN, SubmitMessage(m, r, collect)
  PROVE  IngressInv'
<1>0. /\ fate[m] = "none" /\ \A k \in 1 .. (m - 1) : fate[k] # "none"
      /\ UNCHANGED <<burst, col, colAll, workVars, begun>> /\ home' = [home EXCEPT ![m] = r]
      /\ PlacesTrue /\ RoomOrder /\ ChainsCounted /\ CollectedCounted /\ WorksCounted
  BY Zenon DEF SubmitMessage, IngressInv
<1>1. /\ QueueTrue(started', waiting') /\ Lined' = Lined /\ UNCHANGED <<waiting, started, running>>
      /\ WorksCounted'
  BY <1>0, SameWorks
<1>2. CollectedCounted'
  <2>1. \A s : Unbegun(s)' = Unbegun(s)
    BY <1>0, <1>1 DEF Unbegun
  <2> QED BY <1>0, <2>1, CollectedSame
<1>3. RoomOrder'
  <2>1. \A i \in DOMAIN begun : begun[i] # m
    BY <1>0, PlacedArrived
  <2>2. \A i \in DOMAIN begun : home'[begun[i]] = home[begun[i]]
    BY <1>0, <2>1 DEF PlacesTrue, IngressShaped
  <2> QED BY <1>0, <2>2 DEF RoomOrder
<1>4. CASE Full(r)
  <2>1. fate' = [fate EXCEPT ![m] = "busy"] /\ UNCHANGED <<chain, pre, preAll>>
    BY <1>4, Zenon DEF SubmitMessage
  <2>2. PlacesTrue'
    BY <1>0, <1>1, <2>1, ArriveKeeps
  <2> QED BY <1>0, <1>1, <1>2, <1>3, <2>1, <2>2, SameChains DEF IngressInv
<1>5. CASE ~ Full(r)
  <2>1. /\ fate' = [fate EXCEPT ![m] = IF collect THEN "collect" ELSE "direct"]
        /\ chain' = [chain EXCEPT ![r] = Append(@, m)]
        /\ pre' = [pre EXCEPT ![r] = @ + 1] /\ preAll' = preAll + 1
    BY <1>5, Zenon DEF SubmitMessage
  <2>2. PICK f \in {"direct", "collect"} : f = IF collect THEN "collect" ELSE "direct"
    OBVIOUS
  <2>3. PlacesTrue'
    BY <1>0, <1>1, <2>1, <2>2, ArriveKeeps
  <2>4. ChainsCounted'
    BY <1>0, <2>1, ChainGrows
  <2> QED BY <1>1, <1>2, <1>3, <2>3, <2>4 DEF IngressInv
<1> QED BY <1>4, <1>5

LEMMA ExpiredKeeps ==
  ASSUME IngressInv, NEW r \in ChatRoom, PreflightExpired(r)
  PROVE  IngressInv'
<1> DEFINE m == Head(chain[r])
           c == Tail(chain[r])
<1>0. /\ chain[r] # << >> /\ fate[m] \in {"direct", "collect"}
      /\ fate' = [fate EXCEPT ![m] = "expired"] /\ PreflightEnds(r)
      /\ UNCHANGED <<burst, col, colAll, workVars, begun, home>>
      /\ PlacesTrue /\ RoomOrder /\ ChainsCounted /\ CollectedCounted /\ WorksCounted
  BY Zenon DEF PreflightExpired, IngressInv
<1>1. /\ QueueTrue(started', waiting') /\ Lined' = Lined /\ UNCHANGED <<waiting, started, running>>
      /\ WorksCounted'
  BY <1>0, SameWorks
<1>2. CollectedCounted'
  <2>1. \A s : Unbegun(s)' = Unbegun(s)
    BY <1>0, <1>1 DEF Unbegun
  <2> QED BY <1>0, <2>1, CollectedSame
<1>3. /\ chain[r] \in Seq(Msg) /\ chain[r] \in Seq(Nat) /\ burst[r] \in Seq(Msg) /\ Rising(chain[r])
      /\ c \in Seq(Msg) /\ m \in Msg /\ m \in ToSet(chain[r])
      /\ chain \in [ChatRoom -> Seq(Msg)] /\ burst \in [ChatRoom -> Seq(Msg)]
      /\ fate = [y \in Msg |-> fate[y]]
  <2>1. chain[r] \in Seq(Msg) /\ chain[r] \in Seq(Nat) /\ burst[r] \in Seq(Msg) /\ Rising(chain[r])
    BY <1>0, PlacedIn DEF PlacesTrue, ChainTrue
  <2> QED BY <1>0, <2>1, HeadOff DEF PlacesTrue, IngressShaped
<1>4. ToSet(c) = ToSet(chain[r]) \ {m}
  BY <1>0, <1>3, RisingTail
<1>5. m \notin ToSet(burst[r])
  BY <1>0 DEF PlacesTrue, BurstTrue
<1>6. Here(r) \ (ToSet(c) \cup ToSet(burst[r])) = {m}
  BY <1>3, <1>4, <1>5 DEF Here
<1>7. /\ chain' = [chain EXCEPT ![r] = c] /\ burst' = [burst EXCEPT ![r] = burst[r]]
      /\ fate' = [y \in Msg |-> fate'[y]] /\ fate'[m] \in Begone
      /\ \A y \in Msg \ {m} : fate'[y] = fate[y]
  BY <1>0, <1>3 DEF PreflightEnds, Begone, Settled
<1> HIDE DEF m, c
<1>8. c = chain[r] \/ (chain[r] # << >> /\ c = Tail(chain[r]))
  BY <1>0 DEF c
<1>9. PlacesTrue'
  <2>1. PICK S : S = {m}
    OBVIOUS
  <2>2. PICK b \in Seq(Msg) : b = burst[r]
    BY <1>3
  <2>3. S = Here(r) \ (ToSet(c) \cup ToSet(b))
    BY <1>6, <2>1, <2>2
  <2>4. /\ \A y \in Msg \ S : fate'[y] = fate[y]
        /\ \A y \in S : fate'[y] \in Begone
        /\ UNCHANGED <<running, begun, home>>
        /\ burst' = [burst EXCEPT ![r] = b] /\ chain' = [chain EXCEPT ![r] = c] /\ c \in Seq(Msg)
    BY <1>0, <1>1, <1>3, <1>7, <2>1, <2>2
  <2>5. Departs(r, c, b, S)
    BY <1>1, <1>7, <1>8, <2>2, <2>3, <2>4, Zenon DEF Departs
  <2> QED BY <1>0, <2>5, LeaveKeeps
<1>10. ChainsCounted'
  BY <1>0, ChainShrinks DEF m
<1> QED BY <1>0, <1>1, <1>2, <1>9, <1>10, SameOrder DEF IngressInv

\* The burst of a room goes: it becomes a work, or it is refused.
LEMMA FlushKeeps ==
  ASSUME IngressInv, NEW r \in ChatRoom, burst[r] # << >>, NEW f, Flushed(r, burst[r], f),
         f = [m \in Msg |-> f[m]],
         \A m \in Msg : \/ f[m] = fate[m]
                        \/ chain[r] # << >> /\ m = Head(chain[r]) /\ fate[m] = "direct" /\ f[m] = "flushed",
         burst' = [burst EXCEPT ![r] = << >>], UNCHANGED <<chain, pre, preAll, begun, home>>
  PROVE  IngressInv'
<1> DEFINE items == burst[r]
           D == ToSet(burst[r])
<1>0. /\ PlacesTrue /\ RoomOrder /\ ChainsCounted /\ CollectedCounted /\ WorksCounted
      /\ IngressShaped /\ BurstTrue(r) /\ ChainTrue(r)
  BY DEF IngressInv, PlacesTrue
<1>1. /\ chain[r] \in Seq(Msg) /\ items \in Seq(Msg) /\ items \in Seq(Nat) /\ Rising(items) /\ D \subseteq Msg
      /\ burst \in [ChatRoom -> Seq(Msg)] /\ chain \in [ChatRoom -> Seq(Msg)]
      /\ Last(items) \in D /\ D \subseteq Here(r) /\ << >> \in Seq(Msg) /\ ToSet(<< >>) = {}
  <2>1. chain[r] \in Seq(Msg) /\ items \in Seq(Msg) /\ items \in Seq(Nat) /\ D \subseteq Msg
    BY <1>0, PlacedIn
  <2>2. Rising(items) /\ burst \in [ChatRoom -> Seq(Msg)] /\ chain \in [ChatRoom -> Seq(Msg)]
    BY <1>0 DEF BurstTrue, IngressShaped
  <2>3. Last(items) \in D
    BY <2>1, <2>2, RisingLast
  <2>4. ToSet(<< >>) = {} /\ << >> \in Seq(Msg) /\ D \subseteq Here(r)
    BY DEF ToSet, Here
  <2> QED BY <2>1, <2>2, <2>3, <2>4
<1>2. /\ \A m \in D : home[m] = r /\ fate[m] = "burst" /\ \A y \in ToSet(chain[r]) : m < y
      /\ D \cap ToSet(chain[r]) = {}
  BY <1>0 DEF BurstTrue, ChainTrue, InChain
<1>3. D = Here(r) \ (ToSet(chain[r]) \cup ToSet(<< >>))
  BY <1>1, <1>2 DEF Here
<1>4. /\ chain' = [chain EXCEPT ![r] = chain[r]] /\ burst' = [burst EXCEPT ![r] = << >>]
      /\ burst'[r] = << >> /\ \A s \in ChatRoom : s # r => burst'[s] = burst[s]
  BY <1>1
<1> HIDE DEF items, D
<1>5. CASE HasRoom(r)
  <2> DEFINE w == [room |-> r, items |-> items, burst |-> TRUE]
  <2>1. /\ EnqueueWork(w) /\ fate' = [m \in Msg |-> IF m \in D THEN "queued" ELSE f[m]]
        /\ UNCHANGED <<col, colAll>>
    BY <1>5, Zenon DEF Flushed, items, D
  <2>2. /\ w \in Work /\ w.room = r /\ w.items = items /\ w.burst /\ ToSet(w.items) = D
        /\ items # << >>
    BY <1>1 DEF Work, items, D
  <2> HIDE DEF w
  <2>3. /\ QueueTrue(started', waiting') /\ Lined' = Lined \cup {w} /\ UNCHANGED running
        /\ WorksCounted'
    BY <1>0, <1>1, <2>1, <2>2, EnqueueCounts
  <2>4. Departs(r, chain[r], << >>, D)
    <3>1. \A m \in Msg \ D : \/ fate'[m] = fate[m]
                             \/ /\ chain[r] # << >> /\ m = Head(chain[r])
                                /\ fate[m] = "direct" /\ fate'[m] = "flushed"
      BY <2>1
    <3>2. /\ fate' = [m \in Msg |-> fate'[m]]
          /\ \A m \in D : fate'[m] = "queued" /\ \A y \in ToSet(chain[r]) \cup ToSet(<< >>) : m < y
      BY <1>1, <1>2, <2>1
    <3> QED BY <1>1, <1>3, <1>4, <2>2, <2>3, <3>1, <3>2, Zenon DEF Departs
  <2>5. PlacesTrue'
    BY <1>0, <2>4, LeaveKeeps
  <2>6. ASSUME NEW s \in ChatRoom PROVE Unbegun(s)' = Unbegun(s)
    <3>1. CASE s = r
      <4>1. ASSUME NEW m \in Unbegun(s)' PROVE m \in Unbegun(s)
        <5>1. m \in Msg /\ \E v \in Lined' : v.room = r /\ v.burst /\ m \in ToSet(v.items)
          BY <1>1, <1>4, <3>1, <4>1 DEF Unbegun, Lined
        <5>2. PICK v \in Lined' : v.room = r /\ v.burst /\ m \in ToSet(v.items)
          BY <5>1
        <5>3. v \in Lined \/ m \in D
          BY <2>2, <2>3, <5>2
        <5> QED BY <3>1, <5>1, <5>2, <5>3, UnbegunIs DEF D
      <4>2. ASSUME NEW m \in Unbegun(s) PROVE m \in Unbegun(s)'
        <5>1. m \in Msg /\ (m \in D \/ \E v \in Lined : v.room = r /\ v.burst /\ m \in ToSet(v.items))
          BY <3>1, <4>2, UnbegunIs DEF D
        <5>2. \E v \in Lined' : v.room = r /\ v.burst /\ m \in ToSet(v.items)
          BY <2>2, <2>3, <5>1
        <5> QED BY <3>1, <5>1, <5>2 DEF Unbegun, Lined
      <4> QED BY <4>1, <4>2
    <3>2. CASE s # r
      <4>1. \A v \in Lined' : v.room = s => v \in Lined
        BY <2>2, <2>3, <3>2
      <4>2. Lined \subseteq Lined' /\ burst'[s] = burst[s]
        BY <1>4, <2>3, <3>2
      <4> QED BY <4>1, <4>2 DEF Unbegun, Lined
    <3> QED BY <3>1, <3>2
  <2>7. CollectedCounted'
    BY <1>0, <2>1, <2>6, CollectedSame
  <2> QED BY <1>0, <2>3, <2>5, <2>7, SameOrder, SameChains DEF IngressInv
<1>6. CASE ~ HasRoom(r)
  <2>1. /\ ReleaseCollected(r, Len(items)) /\ UNCHANGED workVars
        /\ fate' = [m \in Msg |-> IF m = Last(items) THEN "busy"
                                  ELSE IF m \in D THEN "merged" ELSE f[m]]
    BY <1>6, Zenon DEF Flushed, items, D
  <2>2. /\ QueueTrue(started', waiting') /\ Lined' = Lined /\ UNCHANGED <<waiting, started, running>>
        /\ WorksCounted'
    BY <1>0, <2>1, SameWorks
  <2>3. Departs(r, chain[r], << >>, D)
    <3>1. \A m \in Msg \ D : \/ fate'[m] = fate[m]
                             \/ /\ chain[r] # << >> /\ m = Head(chain[r])
                                /\ fate[m] = "direct" /\ fate'[m] = "flushed"
      BY <1>1, <2>1
    <3>2. /\ fate' = [m \in Msg |-> fate'[m]] /\ \A m \in D : fate'[m] \in Begone
      BY <1>1, <2>1 DEF Begone, Settled
    <3> QED BY <1>1, <1>3, <1>4, <2>2, <3>1, <3>2, Zenon DEF Departs
  <2>4. PlacesTrue'
    BY <1>0, <2>3, LeaveKeeps
  <2>5. D \subseteq Unbegun(r)
    BY <1>0, UnbegunIn DEF D
  <2>6. /\ col' = [col EXCEPT ![r] = @ - Cardinality(D)] /\ colAll' = colAll - Cardinality(D)
    BY <1>0, <1>1, <2>1, <2>5, Released DEF items, D
  <2>7. \A s \in ChatRoom : s # r => Unbegun(s)' = Unbegun(s)
    BY <1>4, <2>2 DEF Unbegun
  <2>8. Unbegun(r)' = Unbegun(r) \ D
    <3>1. \A v \in Lined : \A m \in ToSet(v.items) : m \notin D
      BY <1>0, <1>2 DEF PlacesTrue, WorkTrue
    <3>2. \A m : m \in Unbegun(r)' <=> m \in Msg /\ \E v \in Lined : v.room = r /\ v.burst /\ m \in ToSet(v.items)
      BY <1>1, <1>4, <2>2 DEF Unbegun, Lined
    <3>3. \A m : m \in Unbegun(r) <=> m \in Msg /\ (m \in D \/ \E v \in Lined : v.room = r /\ v.burst /\ m \in ToSet(v.items))
      BY UnbegunIs DEF D
    <3> QED BY <3>1, <3>2, <3>3
  <2>9. CollectedCounted'
    BY <1>0, <2>5, <2>6, <2>7, <2>8, CollectedLess
  <2> QED BY <1>0, <2>2, <2>4, <2>9, SameOrder, SameChains DEF IngressInv
<1> QED BY <1>5, <1>6

LEMMA FlushBurstKeeps ==
  ASSUME IngressInv, NEW r \in ChatRoom, FlushBurst(r)
  PROVE  IngressInv'
<1>1. /\ burst[r] # << >> /\ Flushed(r, burst[r], fate) /\ burst' = [burst EXCEPT ![r] = << >>]
      /\ UNCHANGED <<chain, pre, preAll, begun, home>>
  BY Zenon DEF FlushBurst
<1>2. fate = [m \in Msg |-> fate[m]]
  BY DEF IngressInv, PlacesTrue, IngressShaped
<1> QED BY <1>1, <1>2, FlushKeeps

LEMMA PreflightFlushKeeps ==
  ASSUME IngressInv, NEW r \in ChatRoom, PreflightFlush(r)
  PROVE  IngressInv'
<1> DEFINE m == Head(chain[r])
           f == [fate EXCEPT ![m] = "flushed"]
<1>0. /\ chain[r] # << >> /\ fate[m] = "direct" /\ burst' = [burst EXCEPT ![r] = << >>]
      /\ UNCHANGED <<chain, pre, preAll, begun, home>>
      /\ PlacesTrue /\ RoomOrder /\ ChainsCounted /\ CollectedCounted /\ WorksCounted
  BY Zenon DEF PreflightFlush, IngressInv
<1>1. /\ fate = [y \in Msg |-> fate[y]] /\ chain[r] \in Seq(Msg) /\ m \in Msg /\ m \in ToSet(chain[r])
      /\ burst \in [ChatRoom -> Seq(Msg)] /\ chain \in [ChatRoom -> Seq(Msg)]
  <2>1. fate = [y \in Msg |-> fate[y]] /\ chain[r] \in Seq(Msg)
        /\ burst \in [ChatRoom -> Seq(Msg)] /\ chain \in [ChatRoom -> Seq(Msg)]
    BY <1>0 DEF PlacesTrue, IngressShaped
  <2> QED BY <1>0, <2>1, HeadOff
<1>2. /\ f = [y \in Msg |-> f[y]]
      /\ \A y \in Msg : f[y] = fate[y] \/ (y = m /\ fate[y] = "direct" /\ f[y] = "flushed")
  BY <1>0, <1>1
<1>3. CASE burst[r] # << >>
  <2>1. Flushed(r, burst[r], f)
    BY <1>3, Zenon DEF PreflightFlush
  <2> HIDE DEF f
  <2> QED BY <1>0, <1>2, <1>3, <2>1, FlushKeeps
<1>4. CASE burst[r] = << >>
  <2>1. fate' = f /\ UNCHANGED <<col, colAll, workVars>>
    BY <1>4, Zenon DEF PreflightFlush
  <2>2. /\ QueueTrue(started', waiting') /\ Lined' = Lined /\ UNCHANGED <<waiting, started, running>>
        /\ WorksCounted'
    BY <1>0, <2>1, SameWorks
  <2>3. burst' = burst
    BY <1>0, <1>1, <1>4
  <2> HIDE DEF m, f
  <2>4. Departs(r, chain[r], << >>, {})
    <3>1. {} = Here(r) \ (ToSet(chain[r]) \cup ToSet(<< >>)) /\ << >> \in Seq(Msg)
      BY <1>4 DEF Here
    <3>2. chain' = [chain EXCEPT ![r] = chain[r]]
      BY <1>0, <1>1
    <3>3. \A y \in Msg : \/ fate'[y] = fate[y]
                         \/ /\ chain[r] # << >> /\ y = Head(chain[r])
                            /\ fate[y] = "direct" /\ fate'[y] = "flushed"
      BY <1>0, <1>2, <2>1 DEF m
    <3>4. fate' = [y \in Msg |-> fate'[y]] /\ \A y \in {} : fate'[y] \in Begone
      BY <1>2, <2>1
    <3>5. \A y \in Msg \ {} : \/ fate'[y] = fate[y]
                              \/ /\ chain[r] # << >> /\ y = Head(chain[r]) /\ << >> = << >>
                                 /\ fate[y] = "direct" /\ fate'[y] = "flushed"
      BY <3>3, Zenon
    <3> QED BY <1>0, <1>1, <2>2, <3>1, <3>2, <3>4, <3>5, Zenon DEF Departs
  <2>5. PlacesTrue'
    BY <1>0, <2>4, LeaveKeeps
  <2>6. CollectedCounted'
    <3>1. \A s : Unbegun(s)' = Unbegun(s)
      BY <2>2, <2>3 DEF Unbegun
    <3> QED BY <1>0, <2>1, <3>1, CollectedSame
  <2> QED BY <1>0, <2>2, <2>5, <2>6, SameOrder, SameChains DEF IngressInv
<1> QED BY <1>3, <1>4

\* What the end of a link of the chain leaves.
LEMMA LinkEnds ==
  ASSUME PlacesTrue, NEW r \in ChatRoom, chain[r] # << >>, NEW m, m = Head(chain[r])
  PROVE  /\ Tail(chain[r]) \in Seq(Msg) /\ m \in Msg /\ m \in ToSet(chain[r])
         /\ ToSet(Tail(chain[r])) = ToSet(chain[r]) \ {m} /\ \A y \in ToSet(Tail(chain[r])) : m < y
         /\ burst[r] \in Seq(Msg) /\ burst[r] \in Seq(Nat) /\ Rising(burst[r])
         /\ \A x \in ToSet(burst[r]) : /\ home[x] = r /\ fate[x] = "burst" /\ x < m
                                       /\ \A y \in ToSet(chain[r]) : x < y
         /\ m \notin ToSet(burst[r]) /\ ToSet(burst[r]) \cap ToSet(chain[r]) = {}
         /\ burst \in [ChatRoom -> Seq(Msg)] /\ chain \in [ChatRoom -> Seq(Msg)]
         /\ fate = [y \in Msg |-> fate[y]] /\ << >> \in Seq(Msg) /\ ToSet(<< >>) = {}
<1>1. /\ chain[r] \in Seq(Msg) /\ chain[r] \in Seq(Nat) /\ burst[r] \in Seq(Msg) /\ burst[r] \in Seq(Nat)
      /\ ToSet(chain[r]) \subseteq Msg
  BY PlacedIn
<1>2. ChainTrue(r) /\ BurstTrue(r)
  BY DEF PlacesTrue
<1>3. /\ Tail(chain[r]) \in Seq(Msg) /\ m \in Msg /\ m \in ToSet(chain[r])
  BY <1>1, HeadOff
<1>4. ToSet(Tail(chain[r])) = ToSet(chain[r]) \ {m} /\ \A y \in ToSet(Tail(chain[r])) : m < y
  BY <1>1, <1>2, RisingTail DEF ChainTrue
<1>5. \A x \in ToSet(burst[r]) : /\ home[x] = r /\ fate[x] = "burst" /\ \A y \in ToSet(chain[r]) : x < y
  BY <1>2 DEF BurstTrue
<1>6. Rising(burst[r]) /\ ToSet(burst[r]) \cap ToSet(chain[r]) = {}
  BY <1>2, <1>5 DEF BurstTrue, ChainTrue, InChain
<1>7. << >> \in Seq(Msg) /\ ToSet(<< >>) = {}
  BY DEF ToSet
<1>8. /\ burst \in [ChatRoom -> Seq(Msg)] /\ chain \in [ChatRoom -> Seq(Msg)]
      /\ fate = [y \in Msg |-> fate[y]]
  BY DEF PlacesTrue, IngressShaped
<1> QED BY <1>1, <1>3, <1>4, <1>5, <1>6, <1>7, <1>8

LEMMA DirectKeeps ==
  ASSUME IngressInv, NEW r \in ChatRoom, PreflightDirect(r)
  PROVE  IngressInv'
<1> DEFINE m == Head(chain[r])
           c == Tail(chain[r])
<1>0. /\ chain[r] # << >> /\ fate[m] = "flushed" /\ PreflightEnds(r)
      /\ UNCHANGED <<burst, col, colAll, begun, home>>
      /\ PlacesTrue /\ RoomOrder /\ ChainsCounted /\ CollectedCounted /\ WorksCounted
  BY Zenon DEF PreflightDirect, IngressInv
<1>1. /\ c \in Seq(Msg) /\ m \in Msg /\ m \in ToSet(chain[r])
      /\ ToSet(c) = ToSet(chain[r]) \ {m} /\ \A y \in ToSet(c) : m < y
      /\ burst \in [ChatRoom -> Seq(Msg)] /\ chain \in [ChatRoom -> Seq(Msg)]
      /\ fate = [y \in Msg |-> fate[y]] /\ << >> \in Seq(Msg) /\ ToSet(<< >>) = {}
  BY <1>0, LinkEnds
<1>2. burst[r] = << >>
  BY <1>0, <1>1 DEF PlacesTrue, ChainTrue
<1>3. /\ chain' = [chain EXCEPT ![r] = c] /\ burst' = [burst EXCEPT ![r] = << >>]
      /\ {m} = Here(r) \ (ToSet(c) \cup ToSet(<< >>))
  BY <1>0, <1>1, <1>2 DEF PreflightEnds, Here
<1>4. ChainsCounted'
  BY <1>0, ChainShrinks
<1>5. c = chain[r] \/ (chain[r] # << >> /\ c = Tail(chain[r]))
  BY <1>0
<1>6. UNCHANGED burst
  BY <1>0
<1> HIDE DEF m, c
<1>7. CASE HasRoom(r)
  <2> DEFINE w == [room |-> r, items |-> <<m>>, burst |-> FALSE]
  <2>1. EnqueueWork(w) /\ fate' = [fate EXCEPT ![m] = "queued"]
    BY <1>7, Zenon DEF PreflightDirect, m
  <2>2. /\ w \in Work /\ w.room = r /\ w.items = <<m>> /\ ~ w.burst /\ w.items # << >>
        /\ ToSet(w.items) = {m} /\ Rising(w.items)
    BY <1>1 DEF Work, ToSet, Rising
  <2> HIDE DEF w
  <2>3. /\ QueueTrue(started', waiting') /\ Lined' = Lined \cup {w} /\ UNCHANGED running
        /\ WorksCounted'
    <3>1. ToSet(w.items) \subseteq Here(w.room)
      BY <1>1, <2>2 DEF Here
    <3> QED BY <1>0, <2>1, <2>2, <3>1, EnqueueCounts
  <2>4. Departs(r, c, << >>, {m})
    <3>1. /\ \A y \in Msg \ {m} : fate'[y] = fate[y]
          /\ fate' = [y \in Msg |-> fate'[y]]
          /\ \A x \in {m} : fate'[x] = "queued" /\ \A y \in ToSet(c) \cup ToSet(<< >>) : x < y
      BY <1>1, <2>1
    <3> QED BY <1>0, <1>1, <1>3, <1>5, <2>2, <2>3, <3>1, Zenon DEF Departs
  <2>5. PlacesTrue'
    BY <1>0, <2>4, LeaveKeeps
  <2>6. ASSUME NEW s \in ChatRoom PROVE Unbegun(s)' = Unbegun(s)
    <3>1. ToSet(started') \cup ToSet(waiting') = (ToSet(started) \cup ToSet(waiting)) \cup {w}
      BY <2>3 DEF Lined
    <3> QED BY <1>6, <2>2, <3>1 DEF Unbegun
  <2>7. CollectedCounted'
    BY <1>0, <2>6, CollectedSame
  <2> QED BY <1>0, <1>4, <2>3, <2>5, <2>7, SameOrder DEF IngressInv
<1>8. CASE ~ HasRoom(r)
  <2>1. fate' = [fate EXCEPT ![m] = "busy"] /\ UNCHANGED workVars
    BY <1>8, Zenon DEF PreflightDirect, m
  <2>2. /\ QueueTrue(started', waiting') /\ Lined' = Lined /\ UNCHANGED <<waiting, started, running>>
        /\ WorksCounted'
    BY <1>0, <2>1, SameWorks
  <2>3. Departs(r, c, << >>, {m})
    <3>1. /\ \A y \in Msg \ {m} : fate'[y] = fate[y]
          /\ fate' = [y \in Msg |-> fate'[y]]
          /\ \A x \in {m} : fate'[x] \in Begone
      BY <1>1, <2>1 DEF Begone, Settled
    <3> QED BY <1>0, <1>1, <1>3, <1>5, <2>2, <3>1, Zenon DEF Departs
  <2>4. PlacesTrue'
    BY <1>0, <2>3, LeaveKeeps
  <2>5. CollectedCounted'
    <3>1. \A s : Unbegun(s)' = Unbegun(s)
      BY <1>6, <2>2 DEF Unbegun
    <3> QED BY <1>0, <3>1, CollectedSame
  <2> QED BY <1>0, <1>4, <2>2, <2>4, <2>5, SameOrder DEF IngressInv
<1> QED BY <1>7, <1>8

\* A collected message joins the burst, which goes when it is full.
LEMMA CollectKeeps ==
  ASSUME IngressInv, NEW r \in ChatRoom, PreflightCollect(r)
  PROVE  IngressInv'
<1> DEFINE m == Head(chain[r])
           c == Tail(chain[r])
           items == Append(burst[r], m)
           D == ToSet(burst[r])
<1>0. /\ chain[r] # << >> /\ fate[m] = "collect" /\ PreflightEnds(r)
      /\ UNCHANGED <<begun, home>>
      /\ PlacesTrue /\ RoomOrder /\ ChainsCounted /\ CollectedCounted /\ WorksCounted
  BY Zenon DEF PreflightCollect, IngressInv
<1>1. /\ c \in Seq(Msg) /\ m \in Msg /\ m \in ToSet(chain[r])
      /\ ToSet(c) = ToSet(chain[r]) \ {m} /\ \A y \in ToSet(c) : m < y
      /\ burst[r] \in Seq(Msg) /\ burst[r] \in Seq(Nat) /\ Rising(burst[r])
      /\ \A x \in D : fate[x] = "burst" /\ x < m /\ \A y \in ToSet(chain[r]) : x < y
      /\ m \notin D /\ D \cap ToSet(chain[r]) = {}
      /\ burst \in [ChatRoom -> Seq(Msg)] /\ chain \in [ChatRoom -> Seq(Msg)]
      /\ fate = [y \in Msg |-> fate[y]] /\ << >> \in Seq(Msg) /\ ToSet(<< >>) = {}
  <2>1. PlacesTrue /\ chain[r] # << >>
    BY <1>0
  <2>2. \A x \in D : fate[x] = "burst" /\ x < m /\ \A y \in ToSet(chain[r]) : x < y
    <3>1. \A x \in ToSet(burst[r]) : /\ home[x] = r /\ fate[x] = "burst" /\ x < Head(chain[r])
                                     /\ \A y \in ToSet(chain[r]) : x < y
      BY ONLY <2>1, LinkEnds, r \in ChatRoom
    <3> QED BY <3>1
  <2> HIDE DEF D
  <2>3. /\ c \in Seq(Msg) /\ m \in Msg /\ m \in ToSet(chain[r])
        /\ ToSet(c) = ToSet(chain[r]) \ {m} /\ \A y \in ToSet(c) : m < y
    BY <2>1, LinkEnds
  <2>4. /\ burst[r] \in Seq(Msg) /\ burst[r] \in Seq(Nat) /\ Rising(burst[r])
        /\ m \notin D /\ D \cap ToSet(chain[r]) = {}
    BY <2>1, LinkEnds, Zenon DEF D
  <2>5. /\ burst \in [ChatRoom -> Seq(Msg)] /\ chain \in [ChatRoom -> Seq(Msg)]
        /\ fate = [y \in Msg |-> fate[y]] /\ << >> \in Seq(Msg) /\ ToSet(<< >>) = {}
    BY <2>1, LinkEnds, Zenon
  <2> QED BY <2>2, <2>3, <2>4, <2>5
<1>2. /\ items \in Seq(Msg) /\ items # << >> /\ Len(items) = Len(burst[r]) + 1 /\ ToSet(items) = D \cup {m}
      /\ Rising(items)
  <2>1. m \in Nat
    BY <1>0, <1>1, PlacedIn
  <2>2. Rising(items)
    <3>1. \A y \in ToSet(burst[r]) : y < m
      BY <1>1
    <3> QED BY <1>1, <2>1, <3>1, RisingAppend
  <2>3. /\ items \in Seq(Msg) /\ items # << >> /\ Len(items) = Len(burst[r]) + 1 /\ ToSet(items) = D \cup {m}
    BY <1>1, Appended
  <2> QED BY <2>2, <2>3
<1>3. chain' = [chain EXCEPT ![r] = c]
  BY <1>0 DEF PreflightEnds
<1>4. ChainsCounted'
  BY <1>0, ChainShrinks
<1>5. c = chain[r] \/ (chain[r] # << >> /\ c = Tail(chain[r]))
  BY <1>0
<1>6. ToSet(items) = Here(r) \ (ToSet(c) \cup ToSet(<< >>))
  BY <1>1, <1>2 DEF Here
<1>7. m \notin Collected
  <2>1. \A y \in Collected : fate[y] \in {"burst", "queued"}
    BY <1>0, UnbegunIn DEF Collected
  <2> QED BY <1>0, <2>1
<1>70. D \subseteq Unbegun(r) /\ Cardinality(D) = Len(burst[r])
  BY <1>0, <1>1, UnbegunIn, RisingCounts
<1>71. \A v \in Lined : \A y \in ToSet(v.items) : y \notin D
  BY <1>0, <1>1 DEF PlacesTrue, WorkTrue
<1> HIDE DEF m, c, items, D
<1>8. CASE Len(items) < BurstMax
  <2>1. /\ burst' = [burst EXCEPT ![r] = items] /\ fate' = [fate EXCEPT ![m] = "burst"]
        /\ col' = [col EXCEPT ![r] = @ + 1] /\ colAll' = colAll + 1 /\ UNCHANGED workVars
    BY <1>8, Zenon DEF PreflightCollect, m, items
  <2>2. /\ QueueTrue(started', waiting') /\ Lined' = Lined /\ UNCHANGED <<waiting, started, running>>
        /\ WorksCounted'
    BY <1>0, <2>1, SameWorks
  <2>3. PlacesTrue'
    <3>1. /\ burst' = [burst EXCEPT ![r] = Append(burst[r], Head(chain[r]))]
          /\ chain' = [chain EXCEPT ![r] = Tail(@)] /\ fate' = [fate EXCEPT ![Head(chain[r])] = "burst"]
          /\ fate[Head(chain[r])] = "collect"
      BY <1>0, <1>3, <2>1 DEF m, items, PreflightEnds
    <3> QED BY <1>0, <2>2, <3>1, JoinKeeps
  <2>4. /\ burst'[r] = items /\ \A s \in ChatRoom : s # r => burst'[s] = burst[s]
    BY <1>1, <2>1
  <2>5. \A s \in ChatRoom : s # r => Unbegun(s)' = Unbegun(s)
    BY <2>2, <2>4 DEF Unbegun
  <2>6. Unbegun(r)' = Unbegun(r) \cup {m}
    <3>1. ToSet(burst'[r]) = ToSet(burst[r]) \cup {m}
      BY <1>2, <2>4 DEF D
    <3> QED BY <1>1, <2>2, <3>1 DEF Unbegun
  <2>7. CollectedCounted'
    BY <1>0, <1>7, <2>1, <2>5, <2>6, CollectedMore
  <2> QED BY <1>0, <1>4, <2>2, <2>3, <2>7, SameOrder DEF IngressInv
<1>9. CASE ~ Len(items) < BurstMax /\ HasRoom(r)
  <2> DEFINE w == [room |-> r, items |-> items, burst |-> TRUE]
  <2>1. /\ burst' = [burst EXCEPT ![r] = << >>] /\ EnqueueWork(w) /\ fate' = Mark(ToSet(items), "queued")
        /\ col' = [col EXCEPT ![r] = @ + 1] /\ colAll' = colAll + 1
    BY <1>9, Zenon DEF PreflightCollect, m, items
  <2>2. /\ w \in Work /\ w.room = r /\ w.items = items /\ w.burst
    BY <1>2 DEF Work
  <2> HIDE DEF w
  <2>3. /\ QueueTrue(started', waiting') /\ Lined' = Lined \cup {w} /\ UNCHANGED running
        /\ WorksCounted'
    <3>1. ToSet(w.items) \subseteq Here(w.room) /\ w.items # << >>
      BY <1>2, <1>6, <2>2
    <3> QED BY <1>0, <2>1, <2>2, <3>1, EnqueueCounts
  <2>4. Departs(r, c, << >>, ToSet(items))
    <3>1. /\ \A y \in Msg \ ToSet(items) : fate'[y] = fate[y]
          /\ fate' = [y \in Msg |-> fate'[y]] /\ \A x \in ToSet(items) \cap Msg : fate'[x] = "queued"
      BY <1>1, <2>1 DEF Mark
    <3>2. \A x \in ToSet(items) : x \in Msg /\ \A y \in ToSet(c) \cup ToSet(<< >>) : x < y
      <4>1. ToSet(items) \subseteq Msg
        BY <1>2, MessagesOf
      <4> QED BY <1>1, <1>2, <4>1
    <3>3. \A x \in ToSet(items) : fate'[x] = "queued" /\ \A y \in ToSet(c) \cup ToSet(<< >>) : x < y
      BY <3>1, <3>2
    <3>4. Rising(w.items) /\ ToSet(w.items) = ToSet(items)
      BY <1>2, <2>2
    <3> QED BY <1>0, <1>1, <1>3, <1>5, <1>6, <2>1, <2>2, <2>3, <3>1, <3>3, <3>4, Zenon DEF Departs
  <2>5. PlacesTrue'
    BY <1>0, <2>4, LeaveKeeps
  <2>6. ToSet(started') \cup ToSet(waiting') = (ToSet(started) \cup ToSet(waiting)) \cup {w}
    BY <2>3 DEF Lined
  <2>7. burst'[r] = << >> /\ \A s \in ChatRoom : s # r => burst'[s] = burst[s]
    BY <1>1, <2>1
  <2>8. \A s \in ChatRoom : s # r => Unbegun(s)' = Unbegun(s)
    BY <2>2, <2>6, <2>7 DEF Unbegun
  <2>9. Unbegun(r)' = Unbegun(r) \cup {m}
    <3>1. /\ ToSet(burst'[r]) = {} /\ ToSet(w.items) = ToSet(burst[r]) \cup {m}
      BY <1>1, <1>2, <2>2, <2>7 DEF D
    <3> QED BY <1>1, <2>2, <2>6, <3>1 DEF Unbegun
  <2>10. CollectedCounted'
    BY <1>0, <1>7, <2>1, <2>8, <2>9, CollectedMore
  <2> QED BY <1>0, <1>4, <2>3, <2>5, <2>10, SameOrder DEF IngressInv
<1>10. CASE ~ Len(items) < BurstMax /\ ~ HasRoom(r)
  <2>1. /\ burst' = [burst EXCEPT ![r] = << >>] /\ UNCHANGED workVars
        /\ col' = [col EXCEPT ![r] = @ + 1 - Len(items)] /\ colAll' = colAll + 1 - Len(items)
        /\ fate' = [Mark(ToSet(items), "merged") EXCEPT ![m] = "busy"]
    BY <1>10, Zenon DEF PreflightCollect, m, items
  <2>2. /\ QueueTrue(started', waiting') /\ Lined' = Lined /\ UNCHANGED <<waiting, started, running>>
        /\ WorksCounted'
    BY <1>0, <2>1, SameWorks
  <2>3. Departs(r, c, << >>, ToSet(items))
    <3>1. /\ \A y \in Msg \ ToSet(items) : fate'[y] = fate[y]
          /\ fate' = [y \in Msg |-> fate'[y]] /\ \A x \in ToSet(items) \cap Msg : fate'[x] \in Begone
      BY <1>1, <1>2, <2>1 DEF Mark, Begone, Settled
    <3>2. \A x \in ToSet(items) : fate'[x] \in Begone
      BY <1>2, <3>1, MessagesOf
    <3> QED BY <1>0, <1>1, <1>3, <1>5, <1>6, <2>1, <2>2, <3>1, <3>2, Zenon DEF Departs
  <2>4. PlacesTrue'
    BY <1>0, <2>3, LeaveKeeps
  <2>5. burst'[r] = << >> /\ \A s \in ChatRoom : s # r => burst'[s] = burst[s]
    BY <1>1, <2>1
  <2>6. \A s \in ChatRoom : s # r => Unbegun(s)' = Unbegun(s)
    BY <2>2, <2>5 DEF Unbegun
  <2>7. Unbegun(r)' = Unbegun(r) \ D
    <3>1. \A y : y \in Unbegun(r)' <=> y \in Msg /\ \E v \in Lined : v.room = r /\ v.burst /\ y \in ToSet(v.items)
      BY <1>1, <2>2, <2>5 DEF Unbegun, Lined
    <3>2. \A y : y \in Unbegun(r) <=> y \in Msg /\ (y \in D \/ \E v \in Lined : v.room = r /\ v.burst /\ y \in ToSet(v.items))
      BY UnbegunIs DEF D
    <3> QED BY <1>71, <3>1, <3>2
  <2>8. /\ col' = [col EXCEPT ![r] = @ - Cardinality(D)] /\ colAll' = colAll - Cardinality(D)
    <3>1. /\ col[r] + 1 - Len(items) = col[r] - Cardinality(D) /\ colAll + 1 - Len(items) = colAll - Cardinality(D)
      <4>1. col[r] \in Nat /\ colAll \in Nat /\ Len(burst[r]) \in Nat
        BY <1>0, <1>1, UnbegunIn, MsgFinite DEF CollectedCounted
      <4> QED BY <1>2, <1>70, <4>1
    <3> QED BY <2>1, <3>1
  <2>9. CollectedCounted'
    BY <1>0, <1>70, <2>6, <2>7, <2>8, CollectedLess
  <2> QED BY <1>0, <1>4, <2>2, <2>4, <2>9, SameOrder DEF IngressInv
<1> QED BY <1>8, <1>9, <1>10

\* The promise of a work begins: the work leaves the line, its messages the collector's count.
LEMMA BeginStep ==
  ASSUME IngressInv, Begin
  PROVE  IngressInv'
<1>a. PICK w : w = Head(started)
  OBVIOUS
<1> DEFINE m == Last(w.items)
           D == ToSet(w.items)
<1>0. /\ started # << >> /\ started' = Tail(started) /\ running' = running \cup {w} /\ begun' = Append(begun, m)
      /\ fate' = [Mark(D, "merged") EXCEPT ![m] = IF m \in old THEN "expired" ELSE "running"]
      /\ UNCHANGED <<chain, burst, pre, preAll, waiting, roomPending, roomActive, active, home>>
      /\ PlacesTrue /\ RoomOrder /\ ChainsCounted /\ CollectedCounted /\ WorksCounted
  BY <1>a, Zenon DEF Begin, IngressInv
<1>1. IF w.burst THEN ReleaseCollected(w.room, Len(w.items)) ELSE UNCHANGED <<col, colAll>>
  BY <1>a, Zenon DEF Begin
<1>2. started \in Seq(Work) /\ ToSet(started) = ToSet(Tail(started)) \cup {w} /\ w \in ToSet(started)
      /\ Len(started) = Len(Tail(started)) + 1
  BY <1>0, <1>a, HeadOff DEF PlacesTrue, IngressShaped, QueueTrue
<1>3. w \in Lined /\ w \in Work /\ w.items # << >> /\ w.items \in Seq(Msg) /\ w.room \in ChatRoom
  BY <1>0, <1>2, WorksApart, WorkIs DEF Lined
<1>4. D \subseteq Msg /\ m \in D
  BY <1>3, MessagesOf, HeadOff DEF Last, ToSet
<1>5. /\ fate' = [y \in Msg |-> fate'[y]]
      /\ \A y \in D : fate'[y] \in Begone
      /\ \A y \in Msg \ D : fate'[y] = fate[y]
  BY <1>0, <1>4 DEF Mark, Begone, Settled
<1> HIDE DEF m, D
<1>6. /\ PlacesTrue' /\ RoomOrder' /\ w \in Lined /\ w \notin Lined' /\ w \notin running
      /\ \A v \in Lined' : ToSet(v.items) \cap D = {}
  <2>1. w = Head(started) /\ m = Last(w.items) /\ D = ToSet(w.items)
    BY <1>a DEF m, D
  <2> QED BY <1>0, <1>5, <2>1, BeginKeeps
<1>7. ChainsCounted'
  BY <1>0, SameChains
<1>8. Lined = Lined' \cup {w} /\ Lined' = Lined \ {w}
  BY <1>0, <1>a, <1>2, <1>6 DEF Lined
<1>9. \A r : \A y : y \in Unbegun(r)' <=> /\ y \in Msg
                                          /\ \/ y \in ToSet(burst[r])
                                             \/ \E v \in Lined' : v.room = r /\ v.burst /\ y \in ToSet(v.items)
  BY <1>0 DEF Unbegun, Lined
<1>10. \A y \in D : \A r \in ChatRoom : y \notin ToSet(burst[r])
  <2>1. \A y \in D : fate[y] = "queued"
    BY <1>0, <1>3 DEF PlacesTrue, WorkTrue, D
  <2>2. \A r \in ChatRoom : \A y \in ToSet(burst[r]) : fate[y] = "burst"
    BY <1>0 DEF PlacesTrue, BurstTrue
  <2> QED BY <2>1, <2>2
<1>11. CollectedCounted'
  <2>1. CASE w.burst
    <3>1. D \subseteq Unbegun(w.room)
      BY <1>0, <1>3, <2>1, UnbegunIn DEF D
    <3>2. w.items \in Seq(Nat) /\ Rising(w.items)
      BY <1>0, <1>3, PlacedIn, MessagesOf DEF PlacesTrue, WorkTrue
    <3>3. /\ col' = [col EXCEPT ![w.room] = @ - Cardinality(D)] /\ colAll' = colAll - Cardinality(D)
      <4>1. ReleaseCollected(w.room, Len(w.items))
        BY <1>1, <2>1
      <4> QED BY <1>0, <1>3, <3>1, <3>2, <4>1, Released DEF D
    <3>4. Unbegun(w.room)' = Unbegun(w.room) \ D
      <4>1. \A y \in D : y \notin Unbegun(w.room)'
        BY <1>3, <1>6, <1>9, <1>10 DEF D
      <4>2. \A y \in Unbegun(w.room)' : y \in Unbegun(w.room)
        BY <1>8, <1>9, UnbegunIs
      <4>3. \A y \in Unbegun(w.room) : y \in D \/ y \in Unbegun(w.room)'
        BY <1>8, <1>9, UnbegunIs DEF D
      <4> QED BY <4>1, <4>2, <4>3
    <3>5. ASSUME NEW s \in ChatRoom, s # w.room PROVE Unbegun(s)' = Unbegun(s)
      <4>1. \A y : y \in Unbegun(s)' <=> y \in Unbegun(s)
        BY <1>8, <1>9, <3>5, UnbegunIs
      <4> QED BY <4>1 DEF Unbegun
    <3> QED BY <1>0, <1>3, <3>1, <3>3, <3>4, <3>5, CollectedLess
  <2>2. CASE ~ w.burst
    <3>1. UNCHANGED <<col, colAll>>
      BY <1>1, <2>2
    <3>2. ASSUME NEW s \in ChatRoom PROVE Unbegun(s)' = Unbegun(s)
      <4>1. \A y : y \in Unbegun(s)' <=> y \in Unbegun(s)
        BY <1>8, <1>9, <2>2, UnbegunIs
      <4> QED BY <4>1 DEF Unbegun
    <3> QED BY <1>0, <3>1, <3>2, CollectedSame
  <2> QED BY <2>1, <2>2
<1>12. WorksCounted'
  <2>1. Works' = Works /\ \A r : WorksOf(r)' = WorksOf(r)
    BY <1>0, <1>2 DEF Works, WorksOf
  <2>2. \A r : SlotsOf(started', running', r) = SlotsOf(started, running, r)
    BY <1>0, <1>2 DEF SlotsOf
  <2>3. active = Len(started') + Cardinality(running')
    <3>1. IsFiniteSet(running) /\ Cardinality(running \cup {w}) = Cardinality(running) + 1 /\ Cardinality(running) \in Nat
      BY <1>0, <1>6, FS_AddElement, FS_CardinalityType DEF PlacesTrue, IngressShaped
    <3>2. Len(Tail(started)) \in Nat
      BY <1>0, <1>2, HeadOff
    <3> QED BY <1>0, <1>2, <3>1, <3>2 DEF WorksCounted
  <2> QED BY <1>0, <2>1, <2>2, <2>3 DEF WorksCounted
<1> QED BY <1>6, <1>7, <1>11, <1>12 DEF IngressInv

\* A turn ends: its slot goes to the first work that waits and may start.
LEMMA FinishStep ==
  ASSUME IngressInv, NEW w \in running, Finish(w)
  PROVE  IngressInv'
<1> DEFINE m == Last(w.items)
           ru == running \ {w}
           ra == [roomActive EXCEPT ![w.room] = @ - 1]
<1>0. /\ running' = ru /\ fate' = [fate EXCEPT ![m] = IF @ = "running" THEN "done" ELSE @]
      /\ roomPending' = [roomPending EXCEPT ![w.room] = @ - 1]
      /\ StartAvailable(waiting, ra, active - 1)
      /\ UNCHANGED <<chain, burst, pre, col, preAll, colAll, begun, home>>
      /\ PlacesTrue /\ RoomOrder /\ ChainsCounted /\ CollectedCounted /\ WorksCounted
  BY DEF Finish, IngressInv, ingressCounters
<1>1. w \in Work /\ w.items # << >> /\ w.items \in Seq(Msg) /\ w.room \in ChatRoom
      /\ running \subseteq Work /\ IsFiniteSet(running) /\ QueueTrue(started, waiting)
  <2>1. /\ running \subseteq Work /\ IsFiniteSet(running) /\ QueueTrue(started, waiting)
    BY <1>0 DEF PlacesTrue, IngressShaped
  <2>2. w.items # << >>
    BY <1>0 DEF PlacesTrue, RunTrue
  <2> QED BY <2>1, <2>2, WorkIs
<1>2. m \in Msg /\ fate[m] \in Begone
  <2>1. m \in ToSet(w.items)
    BY <1>1, HeadOff DEF Last, ToSet
  <2> QED BY <1>0, <1>1, <2>1, MessagesOf DEF PlacesTrue, RunTrue
<1>3. fate' = [y \in Msg |-> fate'[y]] /\ \A y \in Msg : fate'[y] = fate[y] \/ (fate[y] \in Begone /\ fate'[y] \in Begone)
  <2>1. fate = [y \in Msg |-> fate[y]]
    BY <1>0 DEF PlacesTrue, IngressShaped
  <2> HIDE DEF m
  <2> QED BY <1>0, <1>2, <2>1 DEF Begone, Settled
<1>4. Lined \cap running = {} /\ ToSet(started) \cap ToSet(waiting) = {} /\ Works = Lined \cup running /\ IsFiniteSet(Works)
  BY <1>0, WorksApart
<1>5. IsFiniteSet(ru) /\ ru \subseteq running /\ w \notin ru /\ running = ru \cup {w} /\ ru \cap ToSet(waiting) = {}
      /\ Cardinality(running) = Cardinality(ru) + 1 /\ Cardinality(ru) \in Nat
  <2>1. ru \subseteq running /\ w \notin ru /\ running = ru \cup {w} /\ ru \cap ToSet(waiting) = {}
    BY <1>4 DEF Lined
  <2>2. IsFiniteSet(ru)
    BY <1>1, <2>1, FS_Subset
  <2> QED BY <2>1, <2>2, FS_AddElement, FS_CardinalityType
<1>6. /\ roomPending \in [ChatRoom -> Nat] /\ roomActive \in [ChatRoom -> Nat] /\ active \in Nat
      /\ \A r \in ChatRoom : /\ roomPending[r] = Cardinality(WorksOf(r))
                             /\ roomActive[r] = Cardinality(SlotsOf(started, running, r))
      /\ active = Len(started) + Cardinality(running)
  BY <1>0 DEF WorksCounted
<1>7. ASSUME NEW r \in ChatRoom
      PROVE  /\ Cardinality(SlotsOf(started, ru, r)) \in Nat
             /\ Cardinality(SlotsOf(started, running, r)) = IF r = w.room THEN Cardinality(SlotsOf(started, ru, r)) + 1
                                                         ELSE Cardinality(SlotsOf(started, ru, r))
  <2>1. SlotsOf(started, ru, r) \subseteq Works /\ w \notin SlotsOf(started, ru, r)
    BY <1>4, <1>5 DEF SlotsOf, Lined
  <2>2. SlotsOf(started, running, r) = IF r = w.room THEN SlotsOf(started, ru, r) \cup {w} ELSE SlotsOf(started, ru, r)
    BY <1>5 DEF SlotsOf
  <2>3. IsFiniteSet(SlotsOf(started, ru, r))
    BY <1>4, <2>1, FS_Subset
  <2> QED BY <2>1, <2>2, <2>3, FS_AddElement, FS_CardinalityType
<1> HIDE DEF m, ru
<1>8. /\ ra \in [ChatRoom -> Nat] /\ active - 1 \in Nat
      /\ \A r \in ChatRoom : ra[r] = Cardinality(SlotsOf(started, ru, r))
      /\ active - 1 = Len(started) + Cardinality(ru)
  <2>1. active - 1 = Len(started) + Cardinality(ru) /\ active - 1 \in Nat
    BY <1>1, <1>5, <1>6 DEF QueueTrue
  <2>2. ASSUME NEW r \in ChatRoom PROVE ra[r] = Cardinality(SlotsOf(started, ru, r)) /\ ra[r] \in Nat
    <3>1. ra[r] = IF r = w.room THEN roomActive[r] - 1 ELSE roomActive[r]
      BY <1>1, <1>6
    <3> QED BY <1>6, <1>7, <3>1
  <2>3. ra = [r \in ChatRoom |-> ra[r]]
    BY <1>6
  <2> HIDE DEF ra
  <2> QED BY <2>1, <2>2, <2>3
<1> HIDE DEF ra
<1>9. QueueTrue(started', waiting') /\ Lined' = Lined
  <2>1. QueueTrue(started', waiting') /\ ToSet(started') \cup ToSet(waiting') = ToSet(started) \cup ToSet(waiting)
    BY <1>0, <1>1, StartKeepsLine
  <2> QED BY <2>1 DEF Lined
<1>10. /\ roomActive' \in [ChatRoom -> Nat] /\ active' \in Nat
       /\ \A r \in ChatRoom : roomActive'[r] = Cardinality(SlotsOf(started', running', r))
       /\ active' = Len(started') + Cardinality(running')
  BY <1>0, <1>1, <1>5, <1>8, StartCounts
<1>11. PlacesTrue'
  BY <1>0, <1>3, <1>5, <1>9, StayKeeps
<1>12. ASSUME NEW r \in ChatRoom PROVE roomPending'[r] = Cardinality(WorksOf(r)') /\ roomPending'[r] \in Nat
  <2>1. Works' = Lined \cup ru
    <3>1. Works' = Lined' \cup running'
      BY DEF Works, Lined
    <3> QED BY <1>0, <1>9, <3>1
  <2>2. WorksOf(r)' \subseteq Works /\ w \notin WorksOf(r)'
    BY <1>4, <1>5, <2>1 DEF WorksOf
  <2>3. WorksOf(r) = IF r = w.room THEN WorksOf(r)' \cup {w} ELSE WorksOf(r)'
    BY <1>4, <1>5, <2>1 DEF WorksOf
  <2>4. IsFiniteSet(WorksOf(r)')
    BY <1>4, <2>2, FS_Subset
  <2>5. Cardinality(WorksOf(r)' \cup {w}) = Cardinality(WorksOf(r)') + 1 /\ Cardinality(WorksOf(r)') \in Nat
    BY <2>2, <2>4, FS_AddElement, FS_CardinalityType
  <2>6. roomPending'[r] = IF r = w.room THEN roomPending[r] - 1 ELSE roomPending[r]
    BY <1>0, <1>1, <1>6
  <2>7. roomPending[r] = Cardinality(WorksOf(r))
    BY <1>6
  <2>8. CASE r = w.room
    <3>1. Cardinality(WorksOf(r)) = Cardinality(WorksOf(r)') + 1
      BY <2>3, <2>5, <2>8
    <3> QED BY <2>5, <2>6, <2>7, <2>8, <3>1
  <2>9. CASE r # w.room
    <3>1. Cardinality(WorksOf(r)) = Cardinality(WorksOf(r)')
      BY <2>3, <2>9
    <3> QED BY <2>5, <2>6, <2>7, <2>9, <3>1
  <2> QED BY <2>8, <2>9
<1>13. WorksCounted'
  <2>1. roomPending' = [r \in ChatRoom |-> roomPending'[r]]
    BY <1>0, <1>6
  <2> QED BY <1>10, <1>12, <2>1 DEF WorksCounted
<1>14. CollectedCounted'
  <2>1. \A r : Unbegun(r)' = Unbegun(r)
    <3>1. ToSet(started') \cup ToSet(waiting') = ToSet(started) \cup ToSet(waiting)
      BY <1>9 DEF Lined
    <3> QED BY <1>0, <3>1 DEF Unbegun
  <2> QED BY <1>0, <2>1, CollectedSame
<1> QED BY <1>0, <1>11, <1>13, <1>14, SameChains, SameOrder DEF IngressInv

\* Time passing, and the two steps of a shutdown, move no message.
LEMMA StandStill ==
  ASSUME IngressInv, UNCHANGED <<fate, chain, burst, ingressCounters, workVars, begun, home>>
  PROVE  IngressInv'
<1>0. /\ UNCHANGED <<fate, chain, burst, pre, col, preAll, colAll, workVars, begun, home>>
      /\ PlacesTrue /\ RoomOrder /\ ChainsCounted /\ CollectedCounted /\ WorksCounted
  BY DEF IngressInv, ingressCounters
<1>1. /\ QueueTrue(started', waiting') /\ Lined' = Lined /\ UNCHANGED <<waiting, started, running>>
      /\ WorksCounted'
  BY <1>0, SameWorks
<1>2. PlacesTrue'
  <2>1. fate' = [y \in Msg |-> fate'[y]] /\ \A y \in Msg : fate'[y] = fate[y]
    BY <1>0 DEF PlacesTrue, IngressShaped
  <2> QED BY <1>0, <1>1, <2>1, StayKeeps
<1>3. CollectedCounted'
  <2>1. \A r : Unbegun(r)' = Unbegun(r)
    BY <1>0, <1>1 DEF Unbegun
  <2> QED BY <1>0, <2>1, CollectedSame
<1> QED BY <1>0, <1>1, <1>2, <1>3, SameChains, SameOrder DEF IngressInv

LEMMA IngressStep ==
  ASSUME IngressInv, [IngressNext]_ingressVars
  PROVE  IngressInv'
<1>1. ASSUME NEW m \in Msg, NEW r \in ChatRoom, NEW collect \in BOOLEAN, SubmitMessage(m, r, collect) PROVE IngressInv'
  BY <1>1, SubmitKeeps
<1>2. ASSUME NEW r \in ChatRoom, PreflightExpired(r) PROVE IngressInv'
  BY <1>2, ExpiredKeeps
<1>3. ASSUME NEW r \in ChatRoom, PreflightFlush(r) PROVE IngressInv'
  BY <1>3, PreflightFlushKeeps
<1>4. ASSUME NEW r \in ChatRoom, PreflightDirect(r) PROVE IngressInv'
  BY <1>4, DirectKeeps
<1>5. ASSUME NEW r \in ChatRoom, PreflightCollect(r) PROVE IngressInv'
  BY <1>5, CollectKeeps
<1>6. ASSUME NEW r \in ChatRoom, FlushBurst(r) PROVE IngressInv'
  BY <1>6, FlushBurstKeeps
<1>7. ASSUME NEW m \in Msg, Grow(m) PROVE IngressInv'
  BY <1>7, StandStill, Zenon DEF Grow
<1>8. CASE Begin
  BY <1>8, BeginStep
<1>9. ASSUME NEW w \in running, Finish(w) PROVE IngressInv'
  BY <1>9, FinishStep
<1>10. CASE CloseIngress
  BY <1>10, StandStill, Zenon DEF CloseIngress
<1>11. CASE Drained
  BY <1>11, StandStill, Zenon DEF Drained
<1>12. CASE UNCHANGED ingressVars
  <2>1. UNCHANGED <<fate, chain, burst, ingressCounters, workVars, begun, home>>
    BY <1>12, Zenon DEF ingressVars
  <2> QED BY <2>1, StandStill
<1> QED BY <1>1, <1>2, <1>3, <1>4, <1>5, <1>6, <1>7, <1>8, <1>9, <1>10, <1>11, <1>12, Zenon DEF IngressNext, Preflight

LEMMA IngressStarts ==
  ASSUME IngressInit
  PROVE  IngressInv
<1>0. /\ fate = [m \in Msg |-> "none"] /\ home = [m \in Msg |-> home[m]]
      /\ chain = [r \in ChatRoom |-> << >>] /\ burst = [r \in ChatRoom |-> << >>]
      /\ waiting = << >> /\ started = << >> /\ running = {} /\ begun = << >>
      /\ pre = [r \in ChatRoom |-> 0] /\ col = [r \in ChatRoom |-> 0] /\ preAll = 0 /\ colAll = 0
      /\ roomPending = [r \in ChatRoom |-> 0] /\ roomActive = [r \in ChatRoom |-> 0] /\ active = 0
  BY DEF IngressInit
<1>1. /\ ToSet(<< >>) = {} /\ Len(<< >>) = 0 /\ DOMAIN << >> = {} /\ << >> \in Seq(Msg) /\ << >> \in Seq(Work)
      /\ IsFiniteSet({}) /\ Cardinality({}) = 0
  BY FS_EmptySet DEF ToSet
<1>2. Lined = {} /\ Works = {} /\ \A r \in ChatRoom : Here(r) = {} /\ Unbegun(r) = {}
  BY <1>0, <1>1 DEF Lined, Works, Here, Unbegun
<1>3. QueueTrue(started, waiting)
  BY <1>0, <1>1 DEF QueueTrue, InLine
<1>4. PlacesTrue
  <2>1. IngressShaped
    BY <1>0, <1>1, <1>3 DEF IngressShaped
  <2>2. Arrived
    BY <1>0 DEF Arrived
  <2>3. \A r \in ChatRoom : ChainTrue(r) /\ BurstTrue(r)
    BY <1>0, <1>1 DEF ChainTrue, BurstTrue, Rising
  <2> QED BY <1>0, <1>1, <1>2, <2>1, <2>2, <2>3 DEF PlacesTrue
<1>5. RoomOrder
  BY <1>0, <1>1 DEF RoomOrder
<1>6. Chained = {} /\ Collected = {}
  BY <1>0, <1>1, <1>2 DEF Chained, Collected
<1>7. ChainsCounted /\ CollectedCounted
  BY <1>0, <1>1, <1>2, <1>6 DEF ChainsCounted, CollectedCounted
<1>8. WorksCounted
  <2>1. \A r \in ChatRoom : WorksOf(r) = {} /\ SlotsOf(started, running, r) = {}
    BY <1>0, <1>1, <1>2 DEF WorksOf, SlotsOf
  <2>2. ASSUME NEW r \in ChatRoom
        PROVE  /\ Cardinality(WorksOf(r)) = 0 /\ Cardinality(SlotsOf(started, running, r)) = 0
               /\ roomPending[r] = 0 /\ roomActive[r] = 0
    BY <1>0, <1>1, <2>1
  <2>3. active = Len(started) + Cardinality(running)
    BY <1>0, <1>1
  <2>4. roomPending \in [ChatRoom -> Nat] /\ roomActive \in [ChatRoom -> Nat] /\ active \in Nat
    BY <1>0
  <2> QED BY <2>2, <2>3, <2>4 DEF WorksCounted
<1> QED BY <1>4, <1>5, <1>7, <1>8 DEF IngressInv

LEMMA BooksTrue ==
  ASSUME IngressInv
  PROVE  IngressOrderly
<1>0. PlacesTrue /\ RoomOrder /\ ChainsCounted /\ CollectedCounted /\ WorksCounted
  BY DEF IngressInv
<1>1. \A r \in ChatRoom : WorksOf(r) \ ToSet(waiting) = SlotsOf(started, running, r)
  <2>1. Lined \cap running = {} /\ ToSet(started) \cap ToSet(waiting) = {} /\ Works = Lined \cup running
    BY <1>0, WorksApart
  <2> QED BY <2>1 DEF WorksOf, SlotsOf, Lined
<1>2. \A r \in ChatRoom : /\ pre[r] = Len(chain[r]) /\ col[r] = Cardinality(Unbegun(r))
                          /\ roomPending[r] = Cardinality(WorksOf(r))
                          /\ roomActive[r] = Cardinality(WorksOf(r) \ ToSet(waiting))
  BY <1>0, <1>1 DEF ChainsCounted, CollectedCounted, WorksCounted
<1>3. /\ preAll = Cardinality(UNION {ToSet(chain[r]) : r \in ChatRoom})
      /\ colAll = Cardinality(UNION {Unbegun(r) : r \in ChatRoom})
      /\ active = Len(started) + Cardinality(running)
  BY <1>0, Zenon DEF ChainsCounted, CollectedCounted, WorksCounted, Chained, Collected
<1> QED BY <1>0, <1>2, <1>3, Zenon DEF IngressOrderly, CountersTrue

\* The six counters say what the chains, the bursts and the queue hold, whatever expires, is
\* refused, fails or is shut down, and the turns of a room begin in the order its messages
\* arrived, for every number of rooms and messages and every limit.
THEOREM IngressStaysOrderly == IngressSpec => []IngressOrderly
<1>1. IngressSpec => []IngressInv
  BY IngressStarts, IngressStep, PTL DEF IngressSpec
<1>2. IngressInv => IngressOrderly
  BY BooksTrue
<1> QED BY <1>1, <1>2, PTL

==============================================================================
