---------------------------- MODULE CharacterTurn ----------------------------
(* One Character turn: orchestration/character_turn_graph.py over            *)
(* connector_runtime.py and media_connector_runtime.py.  The turn is          *)
(* resolved, its context is prepared (a pending action is resumed, cancelled  *)
(* or registered there), the model is asked for at most two tool rounds, the  *)
(* tools run, the output is parsed and repaired once, and Runtime authority   *)
(* publishes it or keeps silent.  Several workers run turns side by side, of  *)
(* different messages or of one message that was delivered twice.             *)
(*                                                                            *)
(* One Character, one requester and one room.  Of the tools the model keeps   *)
(* the three that matter to the turn: `write` stands for the durable side     *)
(* effects (image.generate, whose steps are modelled, mcp.invoke, polls),     *)
(* `invite` for character.invite, which only records a proposal, and `look`   *)
(* for media.inspect.  A read that fails only changes the text the model sees. *)
EXTENDS Naturals, Sequences, FiniteSets, TLC

CONSTANTS Msg,           \* messages of the requester; each is the source of at most one action
          NoMsg,
          Conversation,  \* what the messages may say: a set of functions on Msg
          Worker,        \* turns that run at the same time
          Proposed,      \* the lists of tool calls a completion may hold
          MaxToolRounds, \* max_tool_rounds
          MaxTries,      \* bound: deliveries of one message to the Runtime
          MaxRestart     \* bound: restarts of the process

ASSUME CharacterTurnAssumption == NoMsg \notin Msg

VARIABLES said,      \* the messages of the requester, fixed
          avail,     \* the side effect's provider is configured (read when the process starts)
          granted,   \* the tool is assigned to the deployment, which has others as well
          standing,  \* character_deployments.status
          action,    \* pending_actions by source message
          effect,    \* runtime_side_effects: the slot of each message's step
          at,        \* the turn each worker runs
          shown,     \* _generated_by_turn: messages whose picture the reply will list
          looked,    \* _inspected_media_by_turn
          found,     \* _media_turn_results by message and scope
          percept,   \* _media_epistemic_states
          tries, restarts,
          ran,       \* history: external writes made in the name of each pending action
          posted,    \* history: pictures Discord accepted, by message
          observed   \* history: messages of which Runtime ever obtained observations

turnVars == <<said, avail, granted, standing, action, effect, at, shown, looked, found, percept,
              tries, restarts, ran, posted, observed>>
mediaVars == <<looked, found, percept, observed>>
worldVars == <<said, avail, granted, tries, restarts>>

Scope == {"own", "burst", "required"}
NoPercept == [state |-> "none", how |-> "none", any |-> FALSE]
NoEffect == [status |-> "none", arg |-> 0, result |-> "none"]
Free == [pc |-> "idle", msg |-> NoMsg, has |-> FALSE, blind |-> FALSE, plan |-> "free",
         row |-> NoMsg, hidden |-> FALSE, rounds |-> 0, calls |-> <<>>, wrote |-> FALSE,
         last |-> "none", looks |-> FALSE, invite |-> FALSE, out |-> "none"]

CharacterTurnInit ==
  /\ said \in Conversation
  /\ avail \in BOOLEAN /\ granted = TRUE /\ standing = "active"
  /\ action = [m \in Msg |-> "none"]
  /\ effect = [m \in Msg |-> NoEffect]
  /\ at = [w \in Worker |-> Free]
  /\ shown = {} /\ looked = [m \in Msg |-> "none"]
  /\ found = [m \in Msg |-> [s \in Scope |-> "none"]]
  /\ percept = [m \in Msg |-> NoPercept]
  /\ tries = [m \in Msg |-> 0] /\ restarts = 0
  /\ ran = [m \in Msg |-> 0] /\ posted = [m \in Msg |-> 0] /\ observed = {}

----------------------------------------------------------------------------
(* The worker *)

Of(w) == at[w].msg
Turn(w, r) == at' = [at EXCEPT ![w] = r]
Ended(w) == at' = [at EXCEPT ![w] = Free]
\* record_deployment_error, and the exception leaves the graph.
Raises(w) == Ended(w) /\ standing' = "error"

\* resolve_character_turn: a deployment that is not active here, or a message that does not
\* trigger it, is answered with silence.
StaysSilent(w, m) ==
  /\ at[w].pc = "idle" /\ tries[m] < MaxTries
  /\ standing # "active" \/ ~said[m].heard
  /\ tries' = [tries EXCEPT ![m] = @ + 1]
  /\ UNCHANGED <<said, avail, granted, standing, action, effect, at, shown, mediaVars, restarts,
                 ran, posted>>

ResolveTurn(w, m) ==
  /\ at[w].pc = "idle" /\ tries[m] < MaxTries
  /\ standing = "active" /\ said[m].heard
  /\ tries' = [tries EXCEPT ![m] = @ + 1]
  /\ \/ Turn(w, [Free EXCEPT !.pc = "context", !.msg = m]) /\ UNCHANGED standing
     \/ Raises(w)                                  \* the Card or its target is gone
  /\ UNCHANGED <<said, avail, granted, action, effect, shown, mediaVars, restarts, ran, posted>>

----------------------------------------------------------------------------
(* Pending actions.  None is registered with an expiry, so none expires. *)

Open == {m \in Msg : action[m] \in {"blocked", "in_progress"}}
Resumable == {m \in Msg : action[m] = "blocked"}

\* The resumable actions the message can mean: the one it replies to or, without a reply, those
\* of its native thread.
Meant(m) ==
  IF said[m].reply # NoMsg THEN Resumable \cap {said[m].reply}
  ELSE {r \in Resumable : said[m].thread}

\* unavailable_assigned_side_effect_ids_for_turn: the message names the missing capability.
Missing(m) == granted /\ ~avail /\ said[m].cue = "ask"

\* resolve_continuation, and what _prepare_pending_action makes of its answer.
Plan(m) ==
  CASE ~said[m].direct                   -> "free"
    [] granted /\ Open # {} /\ Cardinality(Meant(m)) # 1                -> "hide"
    [] granted /\ Open # {} /\ said[m].cue = "cancel"                   -> "cancel"
    [] granted /\ Open # {} /\ said[m].cue # "continue"                 -> "hide"
    [] granted /\ Open # {} /\ avail                                    -> "resume"
    [] granted /\ Open # {}                                             -> "free"
    [] Open = {} /\ Missing(m)                                         -> "register"
    [] OTHER                                                            -> "free"

\* _suppress_pending_side_effect_tools
Suppressed(plan) == plan = "hide"

\* prepare_character_turn reads the assigned tools and the pending actions; a context that could
\* not be built is noticed only after the pending action was dealt with.
PrepareTurn(w) ==
  /\ at[w].pc = "context"
  /\ LET m == Of(w)
         plan == Plan(m)
     IN  /\ \E blind \in BOOLEAN :
              Turn(w, [at[w] EXCEPT !.has = granted, !.blind = blind, !.plan = plan,
                         !.hidden = Suppressed(plan),
                         !.row = IF plan \in {"resume", "cancel"}
                                 THEN CHOOSE r \in Meant(m) : TRUE ELSE NoMsg,
                         !.pc = IF plan \in {"resume", "cancel", "register"} THEN "pending"
                                ELSE IF blind THEN "silent" ELSE "perceive"])
         /\ looked' = [looked EXCEPT ![m] = "none"]
  /\ UNCHANGED <<worldVars, standing, action, effect, shown, found, percept, observed, ran, posted>>

\* claim_pending_action_for_execution: one UPDATE guarded by the state.
Claimed(r) == action[r] = "blocked"

AfterPending(w) == IF at[w].blind THEN "silent" ELSE "perceive"
ClaimAction(w) ==
  /\ at[w].pc = "pending" /\ at[w].plan = "resume"
  /\ IF Claimed(at[w].row)
     THEN /\ action' = [action EXCEPT ![at[w].row] = "in_progress"]
          /\ Turn(w, [at[w] EXCEPT !.pc = AfterPending(w)])
     ELSE /\ Turn(w, [at[w] EXCEPT !.pc = AfterPending(w), !.row = NoMsg, !.hidden = TRUE])
          /\ UNCHANGED action
  /\ UNCHANGED <<worldVars, standing, effect, shown, mediaVars, ran, posted>>

\* update_pending_action_state: the terminal states stay.
Closed(r, state) == IF action[r] \in {"completed", "cancelled"} THEN action[r] ELSE state

CancelAction(w) ==
  /\ at[w].pc = "pending" /\ at[w].plan = "cancel"
  /\ action' = [action EXCEPT ![at[w].row] = Closed(at[w].row, "cancelled")]
  /\ Turn(w, [at[w] EXCEPT !.pc = AfterPending(w), !.row = NoMsg, !.hidden = TRUE])
  /\ UNCHANGED <<worldVars, standing, effect, shown, mediaVars, ran, posted>>

\* create_pending_action: a second registration for the same source finds the first row,
\* whatever its state.
Created(m) == IF action[m] = "none" THEN "blocked" ELSE action[m]
RegisterAction(w) ==
  /\ at[w].pc = "pending" /\ at[w].plan = "register"
  /\ action' = [action EXCEPT ![Of(w)] = Created(Of(w))]
  /\ Turn(w, [at[w] EXCEPT !.pc = AfterPending(w)])
  /\ UNCHANGED <<worldVars, standing, effect, shown, mediaVars, ran, posted>>

\* The context failed: the turn ends without a word.
EndBlind(w) ==
  /\ at[w].pc = "silent" /\ Ended(w)
  /\ UNCHANGED <<worldVars, standing, action, effect, shown, mediaVars, ran, posted>>

----------------------------------------------------------------------------
(* Perception *)

\* _media_result_for_payload: a result of the last five minutes is used again.
Obtains(m, s) == IF found[m][s] = "none" THEN {"got", "empty"} ELSE {found[m][s]}
Wanted(m, s) ==
  CASE s = "own" -> "own" \in said[m].pics
    [] s = "burst" -> "burst" \in said[m].pics
    [] s = "required" -> said[m].link = "required"

\* What _ensure_media_context records of a message with pictures and perhaps a link.
Perception(m, passive, required) ==
  LET got == passive \/ required
      seen(how) == [state |-> IF got THEN "perceived"
                              ELSE IF how = "preview" THEN "skipped" ELSE "unavailable",
                    how |-> how, any |-> got]
  IN CASE said[m].link = "none" /\ ("own" \in said[m].pics \/ passive) -> seen("passive")
       [] said[m].link = "required"                                    -> seen("required")
       [] said[m].link = "preview"                                     -> seen("preview")
       [] said[m].link = "optional" /\ "own" \in said[m].pics          -> seen("passive")
       [] OTHER                                                        -> percept[m]

\* _ensure_media_context, before the first completion.
Perceive(w) ==
  /\ at[w].pc = "perceive"
  /\ LET m == Of(w) IN
     \E got \in [Scope -> {"none", "got", "empty"}] :
       /\ \A s \in Scope : got[s] \in IF Wanted(m, s) THEN Obtains(m, s) ELSE {found[m][s]}
       /\ found' = [found EXCEPT ![m] = got]
       /\ LET has(s) == Wanted(m, s) /\ got[s] = "got"
              passive == has("own") \/ has("burst")
          IN  /\ percept' = [percept EXCEPT ![m] = Perception(m, passive, has("required"))]
              /\ observed' = observed \cup {x \in {m} : passive \/ has("required")}
  /\ Turn(w, [at[w] EXCEPT !.pc = "model"])
  /\ UNCHANGED <<worldVars, standing, action, effect, shown, looked, ran, posted>>

\* The five minutes are over, or the map was trimmed.
Forget(m) ==
  /\ \/ /\ percept[m] # NoPercept
        /\ percept' = [percept EXCEPT ![m] = NoPercept] /\ UNCHANGED found
     \/ \E s \in Scope : /\ found[m][s] # "none"
                         /\ found' = [found EXCEPT ![m][s] = "none"] /\ UNCHANGED percept
  /\ UNCHANGED <<worldVars, standing, action, effect, at, shown, looked, observed, ran, posted>>

\* _apply_media_inspection_result
Watched(m, got) ==
  [state |-> IF got \/ percept[m].any THEN "perceived" ELSE "unavailable",
   how |-> "watch", any |-> got \/ percept[m].any]

\* _record_failed_media_tool
WatchFailed(m) == Watched(m, FALSE)

\* _finalize_media_epistemic
Settled(w) ==
  LET m == Of(w) IN
  CASE said[m].link = "none"                                     -> percept[m]
    [] said[m].link # "none" /\ at[w].looks                      ->
         IF percept[m] = NoPercept THEN WatchFailed(m) ELSE percept[m]
    [] said[m].link # "none" /\ ~at[w].looks /\ percept[m].how \in {"preview", "required"} ->
         percept[m]
    [] OTHER -> [state |-> IF percept[m].any THEN "perceived" ELSE "skipped",
                 how |-> "skip", any |-> percept[m].any]

----------------------------------------------------------------------------
(* The model *)

\* The provider's failure: the error is recorded, then undone unless it is fatal to the
\* deployment; the turn goes on with a proposal to ignore.
IsolateFailure(w, fatal) ==
  /\ standing' = IF fatal THEN "error" ELSE "active"
  /\ Turn(w, [at[w] EXCEPT !.pc = "output", !.calls = <<>>, !.out = "ignore"])

\* start_tool_turn: the rounds the turn has, and the calls of one completion that are kept.
RoundsLeft(w) == at[w].rounds < MaxToolRounds
Kept(calls) == SubSeq(calls, 1, IF Len(calls) > 4 THEN 4 ELSE Len(calls))

\* advance_tool_model: with rounds left the completion may ask for tools, at most four of which
\* are kept; after the last round it may only answer.
AskModel(w) ==
  /\ at[w].pc = "model"
  /\ \/ /\ RoundsLeft(w)
        /\ \E calls \in Proposed :
             Turn(w, [at[w] EXCEPT !.pc = "tools", !.rounds = @ + 1, !.calls = Kept(calls)])
        /\ UNCHANGED standing
     \/ /\ Turn(w, [at[w] EXCEPT !.pc = "output",
                      !.rounds = IF @ < MaxToolRounds THEN @ + 1 ELSE @])
        /\ UNCHANGED standing
     \/ \E fatal \in BOOLEAN : IsolateFailure(w, fatal)
     \/ Raises(w)
  /\ UNCHANGED <<worldVars, action, effect, shown, mediaVars, ran, posted>>

----------------------------------------------------------------------------
(* Tools *)

Call(w) == Head(at[w].calls)
\* The trace is appended and the next call, or the next round, follows.
Traced(r, status) ==
  [r EXCEPT !.calls = Tail(r.calls), !.pc = IF Len(r.calls) = 1 THEN "model" ELSE "tools",
            !.last = IF Head(r.calls).tool = "write" THEN status ELSE @,
            !.wrote = @ \/ (Head(r.calls).tool # "look" /\ status \in {"completed", "failed"})]
Reports(w, status) == Turn(w, Traced(at[w], status))

Assigned(w) == at[w].has /\ ~at[w].hidden
Permitted(w) == Assigned(w) /\ avail /\ said[Of(w)].direct /\ ~at[w].wrote
SlotFree(w) == ~said[Of(w)].durable \/ effect[Of(w)].status = "none"
Replays(w) == /\ said[Of(w)].durable /\ effect[Of(w)].status = "completed"
              /\ effect[Of(w)].arg = Call(w).arg

\* execute: the tool is not assigned, not configured, not asked for by the user, the write of
\* this turn was already made, the arguments are unusable, or the slot is taken.
RejectCall(w) ==
  /\ at[w].pc = "tools" /\ Call(w).tool = "write"
  /\ Reports(w, IF Assigned(w) /\ ~avail THEN "unconfigured" ELSE "rejected")
  /\ UNCHANGED <<worldVars, standing, action, effect, shown, mediaVars, ran, posted>>

\* Mutant: the replay of a call that failed lists its picture as well.
WillShowAny(m, status) == IF status # "none" THEN shown \cup {m} ELSE shown

\* MediaToolRegistry.execute: the reply will list the pictures of a completed call.
WillShow(m, status) == IF status = "completed" THEN shown \cup {m} ELSE shown

\* The step already holds the outcome of the same call.
ReplayCall(w) ==
  /\ at[w].pc = "tools" /\ Call(w).tool = "write" /\ Permitted(w) /\ Replays(w)
  /\ Reports(w, effect[Of(w)].result)
  /\ shown' = WillShow(Of(w), effect[Of(w)].result)
  /\ UNCHANGED <<worldVars, standing, action, effect, mediaVars, ran, posted>>

ClaimCall(w) ==
  /\ at[w].pc = "tools" /\ Call(w).tool = "write" /\ Permitted(w) /\ SlotFree(w)
  /\ effect' = IF said[Of(w)].durable
               THEN [effect EXCEPT ![Of(w)] = [status |-> "claimed", arg |-> Call(w).arg,
                                               result |-> "none"]]
               ELSE effect
  /\ Turn(w, [at[w] EXCEPT !.pc = "making"])
  /\ UNCHANGED <<worldVars, standing, action, shown, mediaVars, ran, posted>>

\* complete_side_effect and release_side_effect_claim
Completed(m, result) ==
  IF said[m].durable
  THEN [effect EXCEPT ![m].status = "completed", ![m].result = result] ELSE effect
Released(m) ==
  IF said[m].durable /\ effect[m].status = "claimed"
  THEN [effect EXCEPT ![m] = NoEffect] ELSE effect

\* _require_current_tool_scope: grants and destination are read again.
InScope == granted /\ standing = "active"

\* The turn job has ended, the grant is gone, or nothing usable was generated.
RejectMaking(w) ==
  /\ at[w].pc = "making"
  /\ Reports(w, "rejected") /\ effect' = Released(Of(w))
  /\ UNCHANGED <<worldVars, standing, action, shown, mediaVars, ran, posted>>

\* The provider answers with a picture, which becomes an artifact.
MakePicture(w) ==
  /\ at[w].pc = "making"
  /\ Turn(w, [at[w] EXCEPT !.pc = "posting"])
  /\ UNCHANGED <<worldVars, standing, action, effect, shown, mediaVars, ran, posted>>

\* The provider fails, the scope was revoked meanwhile, the webhook or its token is missing, or
\* Discord refuses: failed, and the slot keeps the outcome.
FailCall(w) ==
  /\ at[w].pc \in {"making", "posting"}
  /\ Reports(w, "failed") /\ effect' = Completed(Of(w), "failed")
  /\ UNCHANGED <<worldVars, standing, action, shown, mediaVars, ran, posted>>

Counted(w) == /\ posted' = [posted EXCEPT ![Of(w)] = @ + 1]
              /\ ran' = [r \in Msg |-> IF r = at[w].row THEN ran[r] + 1 ELSE ran[r]]

\* deliver: Discord takes the picture.  Its answer is read, is unreadable, or never comes: httpx
\* errors are caught nowhere on the way, so the turn dies and the slot stays claimed.
PostPicture(w) ==
  /\ at[w].pc = "posting" /\ InScope /\ Counted(w)
  /\ \/ /\ Reports(w, "completed") /\ effect' = Completed(Of(w), "completed")
        /\ shown' = WillShow(Of(w), "completed") /\ UNCHANGED standing
     \/ /\ Reports(w, "failed") /\ effect' = Completed(Of(w), "failed")
        /\ UNCHANGED <<shown, standing>>
     \/ /\ Raises(w) /\ UNCHANGED <<effect, shown>>
  /\ UNCHANGED <<worldVars, action, mediaVars>>

\* CharacterInviteTurnState.record
Recorded(r) == [r EXCEPT !.invite = TRUE]

\* character.invite holds no slot: it records the first proposal of the turn, or the candidate
\* is not a smart Character of the same owner here.
InviteCall(w) ==
  /\ at[w].pc = "tools" /\ Call(w).tool = "invite"
  /\ \/ said[Of(w)].direct /\ ~at[w].wrote
        /\ Turn(w, Recorded(Traced(at[w], "completed")))
     \/ Reports(w, "rejected")
  /\ UNCHANGED <<worldVars, standing, action, effect, shown, mediaVars, ran, posted>>

\* _media_inspection_enabled: the tool is offered only for a link without a preview.
MayLook(m) == said[m].link = "optional"

\* _inspect_shared_media
LookCall(w) ==
  /\ at[w].pc = "tools" /\ Call(w).tool = "look"
  /\ LET m == Of(w)
         inspected(got) == /\ looked' = [looked EXCEPT ![m] = got]
                           /\ percept' = [percept EXCEPT ![m] = Watched(m, got = "got")]
                           /\ observed' = observed \cup {x \in {m} : got = "got"}
     IN  IF ~MayLook(m)
         THEN /\ Reports(w, "rejected") /\ UNCHANGED <<looked, percept, observed>>
         ELSE /\ Turn(w, [Traced(at[w], "completed") EXCEPT !.looks = TRUE])
              /\ \/ looked[m] = "none" /\ \E got \in {"got", "empty"} : inspected(got)
                 \/ looked[m] # "none" /\ inspected(looked[m])
                 \/ /\ looked[m] = "none"                            \* the tool failed
                    /\ percept' = [percept EXCEPT ![m] = WatchFailed(m)]
                    /\ UNCHANGED <<looked, observed>>
  /\ UNCHANGED <<worldVars, standing, action, effect, shown, found, ran, posted>>

----------------------------------------------------------------------------
(* Output *)

\* _finalize_pending_action: the last trace of the tool decides; only a completed call closes the
\* action and only a missing provider reopens it.
Finalized(w) ==
  IF at[w].row = NoMsg THEN action
  ELSE CASE at[w].last = "completed" ->
              [action EXCEPT ![at[w].row] = Closed(at[w].row, "completed")]
         [] at[w].last = "unconfigured" ->
              [action EXCEPT ![at[w].row] = Closed(at[w].row, "blocked")]
         [] OTHER -> action

\* parse_and_resolve: a direct request must be answered visibly.
Answers(w) == {"say", "ignore"} \ {x \in {"ignore"} : said[Of(w)].direct}

ResolveOutput(w) ==
  /\ at[w].pc = "output"
  /\ action' = Finalized(w)
  /\ percept' = [percept EXCEPT ![Of(w)] = Settled(w)]
  /\ \/ /\ at[w].out = "none"
        /\ \E out \in Answers(w) : Turn(w, [at[w] EXCEPT !.pc = "authority", !.out = out])
     \/ at[w].out \in Answers(w) /\ Turn(w, [at[w] EXCEPT !.pc = "authority"])
     \/ Turn(w, [at[w] EXCEPT !.pc = "repair"])
  /\ UNCHANGED <<worldVars, standing, effect, shown, looked, found, observed, ran, posted>>

\* One repair without tools; if it fails as well the Character keeps silent, and if the provider
\* fails the deployment is put back to active.
RepairOutput(w) ==
  /\ at[w].pc = "repair"
  /\ \E out \in Answers(w) \cup {"ignore"} :
       Turn(w, [at[w] EXCEPT !.pc = "authority", !.out = out])
  /\ \/ UNCHANGED standing
     \/ standing' = "active"
  /\ UNCHANGED <<worldVars, action, effect, shown, mediaVars, ran, posted>>

\* authorize_character_output: silence leaves no trace, anything else marks the deployment active.
AuthorizeOutput(w) ==
  /\ at[w].pc = "authority"
  /\ Ended(w)
  /\ standing' = IF at[w].out = "ignore" THEN standing ELSE "active"
  /\ UNCHANGED <<worldVars, action, effect, shown, mediaVars, ran, posted>>

----------------------------------------------------------------------------
(* The rest of the world *)

\* The owner pauses or resumes the deployment, or assigns its tools.
Configure ==
  /\ \/ granted' \in BOOLEAN \ {granted} /\ UNCHANGED standing
     \/ standing' \in {"active", "paused"} \ {standing} /\ UNCHANGED granted
  /\ UNCHANGED <<said, avail, action, effect, at, shown, mediaVars, tries, restarts, ran, posted>>

\* The process restarts, perhaps with the provider configured now: what is in memory is gone.
RestartRuntime ==
  /\ restarts < MaxRestart /\ restarts' = restarts + 1
  /\ avail' \in BOOLEAN
  /\ at' = [w \in Worker |-> Free] /\ shown' = {}
  /\ looked' = [m \in Msg |-> "none"] /\ percept' = [m \in Msg |-> NoPercept]
  /\ found' = [m \in Msg |-> [s \in Scope |-> "none"]]
  /\ UNCHANGED <<said, granted, standing, action, effect, tries, ran, posted, observed>>

WorkerStep ==
  \E w \in Worker :
    \/ \E m \in Msg : StaysSilent(w, m) \/ ResolveTurn(w, m)
    \/ PrepareTurn(w) \/ ClaimAction(w) \/ CancelAction(w) \/ RegisterAction(w) \/ EndBlind(w)
    \/ Perceive(w) \/ AskModel(w)
    \/ RejectCall(w) \/ ReplayCall(w) \/ ClaimCall(w) \/ RejectMaking(w) \/ MakePicture(w)
    \/ FailCall(w) \/ PostPicture(w) \/ InviteCall(w) \/ LookCall(w)
    \/ ResolveOutput(w) \/ RepairOutput(w) \/ AuthorizeOutput(w)

CharacterTurnNext == WorkerStep \/ Configure \/ RestartRuntime \/ \E m \in Msg : Forget(m)

CharacterTurnSpec == CharacterTurnInit /\ [][CharacterTurnNext]_turnVars

----------------------------------------------------------------------------
\* What a turn may promise.  A pending action reaches the outside world at most once, however
\* many turns try to resume it, whatever the tool answered and wherever the process died
\* (claim_pending_action_for_execution, _finalize_pending_action, side_effect_executed); a
\* message is on record as perceived only if Runtime obtained observations of it; and a reply
\* lists a picture only when Discord has accepted one for that message.
TurnHonest ==
  /\ \A m \in Msg : ran[m] <= 1
  /\ \A m \in Msg : percept[m].state = "perceived" => m \in observed
  /\ \A m \in shown : posted[m] > 0
=============================================================================
