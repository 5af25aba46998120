------------------------------ MODULE MCConnector ------------------------------
(***************************************************************************)
(* Small instances of the connector's components.  They share no variable; *)
(* focus names the one that moves in a behaviour, so that a run explores   *)
(* the sum of their state spaces and not the product.                      *)
(***************************************************************************)
EXTENDS RoomIngress, TurnJobs, WebRooms

VARIABLE focus

\* Every web message is written by the invited person.
MCAuthor == [m \in Mail |-> "p"]

ConnectorInit ==
    /\ focus \in {"ingress", "jobs", "web"}
    /\ IngressInit /\ TurnJobInit /\ WebInit

ConnectorNext ==
    /\ \/ focus = "ingress" /\ IngressNext /\ UNCHANGED <<jobVars, webVars>>
       \/ focus = "jobs" /\ TurnJobNext /\ UNCHANGED <<ingressVars, webVars>>
       \/ focus = "web" /\ WebNext /\ UNCHANGED <<ingressVars, jobVars>>
    /\ UNCHANGED focus

OnIngress == focus = "ingress"
OnJobs == focus = "jobs"
OnWeb == focus = "web"

\* Promises and timers run; turns return (they carry deadlines of their own).
IngressFairness ==
    /\ \A r \in ChatRoom : WF_ingressVars(OnIngress /\ Preflight(r)) /\ WF_ingressVars(OnIngress /\ FlushBurst(r))
    /\ WF_ingressVars(OnIngress /\ Begin) /\ WF_ingressVars(OnIngress /\ \E w \in running : Finish(w))
    /\ WF_ingressVars(OnIngress /\ Drained)

\* Consumers and the scan go on, the manager is started and keeps its minute, deadlines pass.
\* No fairness for the runner: a model may never answer.
TurnJobFairness ==
    /\ \A c \in Consumer : WF_jobVars(OnJobs /\ (Progress(c) \/ Ending(c)))
    /\ \A c \in Recoverer : WF_jobVars(OnJobs /\ Scan(c))
    /\ \A j \in JobId : WF_jobVars(OnJobs /\ Deadline(j))
    /\ WF_jobVars(OnJobs /\ StartManager) /\ WF_jobVars(OnJobs /\ Maintain)

\* Bridges poll, refresh and finish what they began; time passes.
WebFairness ==
    /\ \A b \in Bridge : /\ WF_webVars(OnWeb /\ (CheckSending(b) \/ Post(b) \/ PostRefused(b)))
                         /\ WF_webVars(OnWeb /\ Acknowledge(b))
                         /\ \A r \in Place : /\ WF_webVars(OnWeb /\ Claim(b, r))
                                             /\ WF_webVars(OnWeb /\ \E h \in Hook : Refresh(b, r, h))
    /\ \A m \in Mail : WF_webVars(OnWeb /\ Age(m)) /\ WF_webVars(OnWeb /\ ClaimStale(m))

ConnectorSpec ==
    /\ ConnectorInit /\ [][ConnectorNext]_<<ingressVars, jobVars, webVars, focus>>
    /\ IngressFairness /\ TurnJobFairness /\ WebFairness
=============================================================================
