----------------------------- MODULE MCBackground -----------------------------
(***************************************************************************)
(* Small instances of the work that goes on behind the turns: reminders    *)
(* people asked for, condition watches, media analysis, derived knowledge, *)
(* evaluations.  focus names the one that moves in a behaviour.            *)
(***************************************************************************)
EXTENDS Reminders, MediaSingleFlight, KnowledgeIngest, EvaluationMatrix

CONSTANTS Foci,        \* the components this run looks at
          r1, r2,      \* reminders
          i1           \* the Ingester that publishes what the derived work is about

VARIABLE focus

\* Two versions of one entry with the same key, and a third version with another one.
MCKey == (1 :> "k1" @@ 2 :> "k1" @@ 3 :> "k2")
MCHash == (1 :> "h1" @@ 2 :> "h2" @@ 3 :> "h3")
MCMaterial == (1 :> ("l1" :> "a") @@ 2 :> ("l1" :> "b") @@ 3 :> ("l1" :> "b" @@ "l2" :> "a"))
MCMode == [s \in Snapshot |-> "full"]
MCWithdrawn == [s \in Snapshot |-> {}]
MCUploads == (1 :> <<"b1", "b2">> @@ 2 :> <<"b3">> @@ 3 :> <<"b2">>)

Interchangeable == Permutations({r1, r2}) \cup Permutations(Runner)

backgroundVars == <<vars, mediaVars, kiVars, matrixVars, focus>>

\* A component that does not move starts in one state.
BackgroundInit ==
  /\ focus \in Foci /\ Init /\ MediaInit /\ IngestInit /\ MatrixInit
  /\ focus # "media" => record = NoRecord
  /\ focus # "derived" => source.type = "git"

\* The derived-work queue fills up with what one Ingester publishes and erases.
DerivedWork == Ingests(i1) \/ EraseSource(i1) \/ (DerivedNext /\ UNCHANGED ingestVars)

\* The only new reminders are the notifications of watches.
NobodyAsks ==
  \A r \in Reminder : reminder[r].status = "none" /\ reminder'[r].status # "none"
                         => reminder'[r].watch # Nothing

BackgroundNext ==
  /\ \/ focus = "reminders" /\ Next /\ UNCHANGED <<watch, mediaVars, kiVars, matrixVars>>
     \/ focus = "watches" /\ Next /\ NobodyAsks /\ UNCHANGED <<mediaVars, kiVars, matrixVars>>
     \/ focus = "media" /\ MediaNext /\ UNCHANGED <<vars, kiVars, matrixVars>>
     \/ focus = "derived" /\ DerivedWork /\ UNCHANGED <<vars, mediaVars, matrixVars>>
     \/ focus = "matrix" /\ MatrixNext /\ UNCHANGED <<vars, mediaVars, kiVars>>
  /\ UNCHANGED focus

BackgroundSpec == BackgroundInit /\ [][BackgroundNext]_backgroundVars

On(f) == focus = f /\ UNCHANGED focus
OnReminders == On("reminders") \/ On("watches")

\* The two loops run, a stopped service is started again, time passes.
RemindersFairness ==
  /\ WF_vars(OnReminders /\ Delivering) /\ WF_vars(OnReminders /\ Judging)
  /\ WF_vars(OnReminders /\ Start)
  /\ \A r \in Reminder : /\ WF_vars(OnReminders /\ ReminderDue(r))
                         /\ WF_vars(OnReminders /\ ClaimAges(r))
  /\ \A w \in Watch : /\ WF_vars(OnReminders /\ CheckDue(w))
                      /\ WF_vars(OnReminders /\ WatchLapses(w))

\* Running workers make progress and leases end; a provider may stall for ever.
MediaFairness ==
  /\ \A w \in Worker : WF_mediaVars(On("media") /\ Proceed(w))
  /\ WF_mediaVars(On("media") /\ Lapse)

\* The worker process keeps running and is started again after it died.
DerivedFairness ==
  /\ \A w \in DerivedWorker : WF_kcVars(On("derived") /\ DerivedStep(w))
  /\ \A r \in Snapshot \X Dependency : WF_kcVars(On("derived") /\ BackoffEnds(r))
  /\ WF_kcVars(On("derived") /\ RecoverDerived)

\* The event loop goes on, requests are answered, providers answer or time out.
MatrixFairness ==
  /\ \A r \in Runner : WF_matrixVars(On("matrix") /\ RunnerStep(r))
  /\ \A c \in Calls : WF_matrixVars(On("matrix") /\ ChildStep(c))
  /\ WF_matrixVars(On("matrix") /\ Cancels)

BackgroundFairSpec ==
  BackgroundSpec /\ RemindersFairness /\ MediaFairness /\ DerivedFairness /\ MatrixFairness
=============================================================================
