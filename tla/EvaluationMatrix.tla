-------------------------- MODULE EvaluationMatrix --------------------------
(***************************************************************************)
(* One Experiment Matrix and the process that runs it.  run_matrix is a    *)
(* coroutine with one child per task it has picked; coroutines share one   *)
(* event loop and give way only where they await.  The owner's requests    *)
(* are handled by threads, one after another, and interleave with every    *)
(* single transaction of the coroutines.                                   *)
(***************************************************************************)
EXTENDS Naturals, FiniteSets

CONSTANTS Task,             \* 1..n, the ordinals of the tasks the definition expands to
          Runner,           \* background calls of run_matrix
          Concurrency,      \* tasks that run at once
          MaxTaskAttempts,  \* max_attempts of the definition
          MaxOwnerRequests, \* bound: what the owner asks for
          MaxMatrixFault,   \* bound: crashes and unforeseen exceptions
          Free              \* nobody holds the loop, no run is bound

ASSUME MatrixAssumption ==
    /\ Task \subseteq Nat /\ Runner # {} /\ Free \notin Runner \cup (Runner \X Task)
    /\ {Concurrency, MaxTaskAttempts} \subseteq Nat \ {0}
    /\ {MaxOwnerRequests, MaxMatrixFault} \subseteq Nat

VARIABLES matrix,       \* status of the Matrix row
          task,         \* task rows
          trial,        \* status of the latest trial run each coroutine has started
          runner,       \* where each call of run_matrix is
          child,        \* where each call of _run_task is
          active,       \* _active holds the Matrix
          loop,         \* the coroutine inside a section without await
          cancelling,   \* a cancel request: the trials it has still to cancel
          serving,      \* the process runs
          ownerRequests, matrixFaults

matrixRows == <<matrix, task, trial>>
coroutines == <<runner, child, active, loop>>
matrixVars == <<matrixRows, coroutines, cancelling, serving, ownerRequests, matrixFaults>>
-----------------------------------------------------------------------------
(* Rows *)

Calls == Runner \X Task

NoTask == [status |-> "none", attempts |-> 0, run |-> Free]
PendingTask == [NoTask EXCEPT !.status = "pending"]
NotCancelling == [on |-> FALSE, runs |-> {}]

MatrixExists == matrix # "gone"
Running == matrix \in {"queued", "running"}
InStatus(s) == {t \in Task : task[t].status = s}

\* A draft; the owner's Character, prompt versions and test packs were found.
MatrixInit ==
    /\ matrix = "draft" /\ task = [t \in Task |-> NoTask]
    /\ trial = [c \in Calls |-> "none"]
    /\ runner = [r \in Runner |-> "idle"] /\ child = [c \in Calls |-> "idle"]
    /\ active = FALSE /\ loop = Free /\ cancelling = NotCancelling /\ serving = TRUE
    /\ ownerRequests = 0 /\ matrixFaults = 0
-----------------------------------------------------------------------------
(* The owner *)

\* Writes of one owner are admitted one at a time.
Requested ==
    /\ serving /\ ~cancelling.on /\ MatrixExists
    /\ ownerRequests < MaxOwnerRequests /\ ownerRequests' = ownerRequests + 1

\* The background task starts after the response.
Scheduled == \E r \in Runner : /\ runner[r] = "idle" /\ \A t \in Task : child[r, t] = "idle"
                               /\ runner' = [runner EXCEPT ![r] = "added"]

\* Only a draft is launched; its rows are written in one transaction.
CreateTasks == task' = [t \in Task |-> PendingTask]

LaunchMatrix ==
    /\ Requested /\ matrix = "draft"
    /\ matrix' = "queued" /\ CreateTasks
    /\ Scheduled
    /\ UNCHANGED <<trial, child, active, loop, cancelling, serving, matrixFaults>>

PauseMatrix ==
    /\ Requested /\ Running
    /\ matrix' = "paused"
    /\ UNCHANGED <<task, trial, coroutines, cancelling, serving, matrixFaults>>

ResumeMatrix ==
    /\ Requested /\ matrix \in {"paused", "failed"}
    /\ matrix' = "queued" /\ Scheduled
    /\ UNCHANGED <<task, trial, child, active, loop, cancelling, serving, matrixFaults>>

\* Mutant: tasks that are running are taken for failed.
RetriedWithRunning == [t \in Task |-> IF task[t].status \in {"failed", "running"}
                         THEN [task[t] EXCEPT !.status = "pending", !.attempts = 0] ELSE task[t]]

Retried == [t \in Task |-> IF task[t].status = "failed"
              THEN [task[t] EXCEPT !.status = "pending", !.attempts = 0] ELSE task[t]]

\* No status is refused: also a draft becomes queued, without a task.
RetryFailedTasks ==
    /\ Requested
    /\ matrix' = "queued"
    /\ task' = Retried
    /\ Scheduled
    /\ UNCHANGED <<trial, child, active, loop, cancelling, serving, matrixFaults>>

\* The tasks are listed, their trials cancelled one by one, and the rows last.
CancelRequest ==
    /\ Requested
    /\ cancelling' = [on |-> TRUE, runs |-> {c \in Calls : /\ task[c[2]].status = "running"
                                                           /\ task[c[2]].run = c[1]}]
    /\ UNCHANGED <<matrixRows, coroutines, serving, matrixFaults>>

\* A trial that has ended stays as it is.
CancelTrial ==
    \E c \in cancelling.runs :
      /\ trial' = [trial EXCEPT ![c] = IF @ \in {"completed", "failed"} THEN @ ELSE "cancelled"]
      /\ cancelling' = [cancelling EXCEPT !.runs = @ \ {c}]
      /\ UNCHANGED <<matrix, task, coroutines, serving, ownerRequests, matrixFaults>>

CancelMatrix ==
    /\ cancelling.on /\ cancelling.runs = {}
    /\ matrix' = "cancelled"
    /\ task' = [t \in Task |-> IF task[t].status \in {"pending", "running"}
                               THEN [task[t] EXCEPT !.status = "cancelled"] ELSE task[t]]
    /\ cancelling' = NotCancelling
    /\ UNCHANGED <<trial, coroutines, serving, ownerRequests, matrixFaults>>

\* A paused Matrix may be deleted while its tasks still run.
DeleteMatrix ==
    /\ Requested /\ ~Running
    /\ matrix' = "gone" /\ task' = [t \in Task |-> NoTask]
    /\ UNCHANGED <<trial, coroutines, cancelling, serving, matrixFaults>>
-----------------------------------------------------------------------------
(* run_matrix *)

\* The loop starts the children of a gather, in their order, before it goes on to
\* anything else.
Started == \A c \in Calls : child[c] # "ready"
LoopFree == loop = Free /\ Started

Onward(r, pc) == runner' = [runner EXCEPT ![r] = pc]

\* Mutant: _active keeps a Matrix whose run has ended.
LeavesUnnoticed(r) == runner' = [runner EXCEPT ![r] = "idle"] /\ UNCHANGED active

\* _active is left in every case; children that still run are not stopped.
Leaves(r) == runner' = [runner EXCEPT ![r] = "idle"] /\ active' = FALSE

RunMatrix(r) ==
    /\ runner[r] = "added" /\ LoopFree
    /\ IF active THEN Onward(r, "idle") /\ UNCHANGED <<active, loop>>
       ELSE IF ~MatrixExists THEN Leaves(r) /\ UNCHANGED loop
       ELSE active' = TRUE /\ loop' = r /\ Onward(r, "should")
    /\ UNCHANGED <<matrixRows, child, cancelling, serving, ownerRequests, matrixFaults>>

MatrixShouldRun(r) ==
    /\ runner[r] = "should"
    /\ Onward(r, IF Running THEN "mark" ELSE "final")
    /\ UNCHANGED <<matrixRows, child, active, loop, cancelling, serving, ownerRequests, matrixFaults>>

\* The status is written whatever it has become.
MarkMatrixRunning(r) ==
    /\ runner[r] = "mark"
    /\ IF MatrixExists THEN matrix' = "running" /\ Onward(r, "pick") /\ UNCHANGED <<active, loop>>
       ELSE Leaves(r) /\ loop' = Free /\ UNCHANGED matrix
    /\ UNCHANGED <<task, trial, child, cancelling, serving, ownerRequests, matrixFaults>>

\* The first pending tasks in their order.
PendingTasks == {t \in InStatus("pending") :
                   Cardinality({x \in InStatus("pending") : x < t}) < Concurrency}

Gather(r) ==
    /\ runner[r] = "pick"
    /\ IF PendingTasks = {} THEN Onward(r, "final") /\ UNCHANGED <<child, loop>>
       ELSE /\ Onward(r, "gather") /\ loop' = Free
            /\ child' = [c \in Calls |-> IF c[1] = r /\ c[2] \in PendingTasks THEN "ready"
                                         ELSE child[c]]
    /\ UNCHANGED <<matrixRows, active, cancelling, serving, ownerRequests, matrixFaults>>

Gathered(r) ==
    /\ runner[r] = "gather" /\ LoopFree /\ \A t \in Task : child[r, t] = "idle"
    /\ loop' = r
    /\ Onward(r, IF matrix \in {"gone", "paused", "cancelled"} THEN "final" ELSE "should")
    /\ UNCHANGED <<matrixRows, child, active, cancelling, serving, ownerRequests, matrixFaults>>

FinalStatus ==
    IF InStatus("pending") \cup InStatus("running") # {}
    THEN IF matrix \in {"paused", "cancelled"} THEN matrix ELSE "running"
    ELSE IF matrix = "cancelled" THEN "cancelled"
    ELSE IF InStatus("failed") # {} /\ InStatus("completed") = {} THEN "failed" ELSE "completed"

FinalizeMatrix(r) ==
    /\ runner[r] = "final"
    /\ matrix' = IF MatrixExists THEN FinalStatus ELSE matrix
    /\ Leaves(r) /\ loop' = Free
    /\ UNCHANGED <<task, trial, child, cancelling, serving, ownerRequests, matrixFaults>>
-----------------------------------------------------------------------------
(* _run_task *)

ChildAt(c, pc) == child' = [child EXCEPT ![c] = pc]

\* An exception leaves the gather: run_matrix ends at once, its other children go on.
Escapes(c) == /\ ChildAt(c, "idle") /\ loop' = Free
              /\ IF runner[c[1]] = "gather" THEN Leaves(c[1]) ELSE UNCHANGED <<runner, active>>

TaskShouldRun(c) ==
    /\ child[c] = "ready" /\ loop = Free /\ \A d \in Calls : child[d] = "ready" => c[2] <= d[2]
    /\ IF Running THEN ChildAt(c, "mark") /\ loop' = c ELSE ChildAt(c, "idle") /\ UNCHANGED loop
    /\ UNCHANGED <<matrixRows, runner, active, cancelling, serving, ownerRequests, matrixFaults>>

MarkTaskRunning(c) ==
    LET t == c[2] IN
    /\ child[c] = "mark"
    /\ IF task[t].status = "none" THEN Escapes(c) /\ UNCHANGED task
       ELSE /\ task' = [task EXCEPT ![t].status = "running", ![t].attempts = @ + 1]
            /\ ChildAt(c, "start") /\ UNCHANGED <<runner, active, loop>>
    /\ UNCHANGED <<matrix, trial, cancelling, serving, ownerRequests, matrixFaults>>

\* start refuses when the Matrix, the Character, its pack or its credential is gone.
StartTrial(c, found) ==
    /\ child[c] = "start"
    /\ IF found /\ MatrixExists THEN trial' = [trial EXCEPT ![c] = "pending"] /\ ChildAt(c, "bind")
       ELSE ChildAt(c, "fail") /\ UNCHANGED trial
    /\ UNCHANGED <<matrix, task, runner, active, loop, cancelling, serving, ownerRequests, matrixFaults>>

\* The run is bound and its snapshot rewritten; the prompt version may be gone by then.
BindTaskRun(c, found) ==
    LET t == c[2] IN
    /\ child[c] = "bind"
    /\ IF task[t].status = "none" THEN ChildAt(c, "fail") /\ UNCHANGED task
       ELSE task' = [task EXCEPT ![t].run = c[1]] /\ ChildAt(c, IF found THEN "execute" ELSE "fail")
    /\ UNCHANGED <<matrix, trial, runner, active, loop, cancelling, serving, ownerRequests, matrixFaults>>

\* execute: a cancelled run is left alone, every other one set running in a
\* transaction of its own.
ExecuteTrial(c) ==
    /\ child[c] = "execute"
    /\ ChildAt(c, IF trial[c] = "cancelled" THEN "latest" ELSE "begin")
    /\ UNCHANGED <<matrixRows, runner, active, loop, cancelling, serving, ownerRequests, matrixFaults>>

BeginTrial(c) ==
    /\ child[c] = "begin"
    /\ trial' = [trial EXCEPT ![c] = "running"]
    /\ ChildAt(c, "suite") /\ loop' = Free
    /\ UNCHANGED <<matrix, task, runner, active, cancelling, serving, ownerRequests, matrixFaults>>

\* The suite has run; its result is kept unless the run is found cancelled.
EndSuite(c, good) ==
    /\ child[c] = "suite" /\ LoopFree
    /\ loop' = c
    /\ ChildAt(c, IF ~good THEN "spoiled" ELSE IF trial[c] = "cancelled" THEN "latest" ELSE "save")
    /\ UNCHANGED <<matrixRows, runner, active, cancelling, serving, ownerRequests, matrixFaults>>

SaveResult(c) ==
    /\ child[c] \in {"save", "spoiled"}
    /\ trial' = [trial EXCEPT ![c] = IF child[c] = "save" THEN "completed" ELSE "failed"]
    /\ ChildAt(c, "latest")
    /\ UNCHANGED <<matrix, task, runner, active, loop, cancelling, serving, ownerRequests, matrixFaults>>

\* What execute does not catch.
Surprise(c) ==
    /\ child[c] = "suite" /\ LoopFree /\ matrixFaults < MaxMatrixFault
    /\ matrixFaults' = matrixFaults + 1
    /\ Escapes(c)
    /\ UNCHANGED <<matrixRows, cancelling, serving, ownerRequests>>

\* The task and its run are read again; a cancelled task is left alone.
LatestTask(c) ==
    LET t == c[2] IN
    /\ child[c] = "latest"
    /\ IF task[t].status = "cancelled" THEN ChildAt(c, "idle") /\ loop' = Free
       ELSE /\ ChildAt(c, IF MatrixExists /\ trial[c] = "completed" THEN "complete" ELSE "fail")
            /\ UNCHANGED loop
    /\ UNCHANGED <<matrixRows, runner, active, cancelling, serving, ownerRequests, matrixFaults>>

CompleteTask(c) ==
    LET t == c[2] IN
    /\ child[c] = "complete"
    /\ IF task[t].status = "none" THEN ChildAt(c, "fail") /\ UNCHANGED <<task, loop>>
       ELSE /\ task' = [task EXCEPT ![t].status = "completed"]
            /\ ChildAt(c, "idle") /\ loop' = Free
    /\ UNCHANGED <<matrix, trial, runner, active, cancelling, serving, ownerRequests, matrixFaults>>

\* Written whatever the task has become; the child waits before a repetition.
FailOrRetryTask(c) ==
    LET t == c[2]  again == task[t].attempts < MaxTaskAttempts IN
    /\ child[c] = "fail"
    /\ IF task[t].status = "none" THEN Escapes(c) /\ UNCHANGED task
       ELSE /\ task' = [task EXCEPT ![t].status = IF again THEN "pending" ELSE "failed"]
            /\ ChildAt(c, IF again THEN "backoff" ELSE "idle") /\ loop' = Free
            /\ UNCHANGED <<runner, active>>
    /\ UNCHANGED <<matrix, trial, cancelling, serving, ownerRequests, matrixFaults>>

BackoffOver(c) ==
    /\ child[c] = "backoff" /\ LoopFree /\ ChildAt(c, "idle")
    /\ UNCHANGED <<matrixRows, runner, active, loop, cancelling, serving, ownerRequests, matrixFaults>>
-----------------------------------------------------------------------------
(* The process stops; recovery is a command of its own, with everything stopped *)

StopProcess ==
    /\ serving /\ matrixFaults < MaxMatrixFault /\ matrixFaults' = matrixFaults + 1
    /\ serving' = FALSE
    /\ runner' = [r \in Runner |-> "idle"] /\ child' = [c \in Calls |-> "idle"]
    /\ active' = FALSE /\ loop' = Free /\ cancelling' = NotCancelling
    /\ UNCHANGED <<matrixRows, ownerRequests>>

RecoverMatrices ==
    /\ ~serving
    /\ task' = [t \in Task |-> IF task[t].status = "running"
                               THEN [task[t] EXCEPT !.status = "pending", !.run = Free] ELSE task[t]]
    /\ matrix' = IF Running THEN "paused" ELSE matrix
    /\ UNCHANGED <<trial, coroutines, cancelling, serving, ownerRequests, matrixFaults>>

StartProcess ==
    /\ ~serving /\ serving' = TRUE
    /\ UNCHANGED <<matrixRows, coroutines, cancelling, ownerRequests, matrixFaults>>
-----------------------------------------------------------------------------
OwnerAsks == LaunchMatrix \/ PauseMatrix \/ ResumeMatrix \/ RetryFailedTasks \/ CancelRequest \/ DeleteMatrix
Cancels == CancelTrial \/ CancelMatrix

RunnerStep(r) ==
    \/ RunMatrix(r) \/ MatrixShouldRun(r) \/ MarkMatrixRunning(r)
    \/ Gather(r) \/ Gathered(r) \/ FinalizeMatrix(r)

ChildStep(c) ==
    \/ TaskShouldRun(c) \/ MarkTaskRunning(c) \/ ExecuteTrial(c) \/ BeginTrial(c)
    \/ SaveResult(c) \/ LatestTask(c) \/ CompleteTask(c) \/ FailOrRetryTask(c) \/ BackoffOver(c)
    \/ \E x \in BOOLEAN : StartTrial(c, x) \/ BindTaskRun(c, x) \/ EndSuite(c, x)

MatrixNext ==
    \/ OwnerAsks \/ Cancels
    \/ \E r \in Runner : RunnerStep(r)
    \/ \E c \in Calls : ChildStep(c) \/ Surprise(c)
    \/ StopProcess \/ RecoverMatrices \/ StartProcess

MatrixSpec == MatrixInit /\ [][MatrixNext]_matrixVars
-----------------------------------------------------------------------------
(* Properties *)

\* No task is executed twice at the same time, however launch, pause, resume, retry,
\* deletion and a run that ended in an exception overlap, and though a child may go on
\* after its run_matrix has ended: what still runs is not offered again.
TaskRunsAlone ==
    \A t \in Task : Cardinality({r \in Runner : child[r, t] \notin {"idle", "ready", "backoff"}}) <= 1

\* Without crashes and unforeseen exceptions a Matrix that is queued or running comes to
\* rest: completed, failed, paused, cancelled or deleted, and whoever resumes it while
\* the last call of run_matrix ends is not forgotten.
MatrixSettles == Running ~> ~Running
=============================================================================
