------------------------------- MODULE Pipeline -------------------------------
(***************************************************************************)
(* From a sensor's event to the administrator's screen: the telemetry      *)
(* socket and the consumer thread (Ingest) composed with the alert bus     *)
(* (AlertBus).  The consumer thread is one of the producers: a handler     *)
(* whose event deserves it announces an alert before it ends (src/src/     *)
(* heuristics.rs 58, 866).  The tasks the handlers spawned are the others. *)
(***************************************************************************)
EXTENDS Ingest, AlertBus

CONSTANTS
    Alarming,    \* the events whose handler announces an alert
    TaskAlert,   \* the alerts of tasks on the runtime, by producer
    Attentive    \* the subscribers that read what they are sent

ASSUME PipelineAssumption ==
    /\ Alarming \subseteq Event /\ Alarming \subseteq Alert
    /\ "consumer" \in Producer
    /\ TaskAlert \in [Producer -> SUBSET Alert] /\ TaskAlert["consumer"] = {}
    /\ Attentive \subseteq Subscriber

VARIABLES said,   \* the current event's alert is announced
          spent   \* task alerts announced already

vars == <<ingestVars, busVars, said, spent>>

TypeOK == /\ IngestTypeOK /\ BusTypeOK /\ said \in BOOLEAN
          /\ spent \in SUBSET Alert

Init == IngestInit /\ BusInit /\ said = FALSE /\ spent = {}

(* The consumer thread.                                                    *)
TakeEvent == Take /\ said' = FALSE /\ UNCHANGED <<busVars, spent>>

Alarm ==
    /\ consumer = "handling" /\ current \in Alarming /\ ~said
    /\ Announce("consumer", current) /\ said' = TRUE
    /\ UNCHANGED <<ingestVars, spent>>

Through == /\ producer["consumer"] = Resting
           /\ current \in Alarming => said

FinishEvent == Through /\ Finish /\ UNCHANGED <<busVars, said, spent>>

(* The thread fails in a handler, before or after its alert.               *)
Fail == /\ producer["consumer"] = Resting
        /\ Panic \/ Hang
        /\ UNCHANGED <<busVars, said, spent>>

(* Tasks.                                                                  *)
TaskAnnounces(x, a) ==
    /\ a \in TaskAlert[x] \ spent
    /\ Announce(x, a) \/ AnnounceOnly(x, a)
    /\ spent' = spent \cup {a}
    /\ UNCHANGED <<ingestVars, said>>

Connections(p) ==
    /\ Connect(p) \/ Emit(p) \/ Leave(p) \/ Receiving(p) \/ Reset(p)
    /\ UNCHANGED <<busVars, said, spent>>

Bus ==
    /\ \/ \E x \in Producer : Logging(x) \/ AppendFails(x)
       \/ \E s \in Subscriber : Subscribe(s) \/ Serving(s) \/ WriteFails(s)
    /\ UNCHANGED <<ingestVars, said, spent>>

Next ==
    \/ \E p \in Peer : Connections(p)
    \/ TakeEvent \/ Alarm \/ FinishEvent \/ Fail
    \/ \E x \in Producer, a \in Alert : TaskAnnounces(x, a)
    \/ Bus

Spec == Init /\ [][Next]_vars

(* The runtime runs its tasks, the thread runs; the channel into the       *)
(* engine admits its senders in turn.  Nobody is made to read alerts.      *)
Fairness ==
    /\ \A p \in Peer : /\ WF_vars(Receiving(p) /\ UNCHANGED <<busVars, said, spent>>)
                       /\ SF_vars(Send(p) /\ UNCHANGED <<busVars, said, spent>>)
    /\ WF_vars(TakeEvent) /\ WF_vars(Alarm) /\ WF_vars(FinishEvent)
    /\ \A x \in Producer : WF_vars(Logging(x) /\ UNCHANGED <<ingestVars, said, spent>>)
    /\ \A s \in Subscriber :
           /\ WF_vars(Receive(s) /\ UNCHANGED <<ingestVars, said, spent>>)
           /\ s \in Attentive => WF_vars(Passed(s) /\ UNCHANGED <<ingestVars, said, spent>>)

LiveSpec == Spec /\ Fairness

-----------------------------------------------------------------------------
OnItsWay(e) ==
    e.peer \in Authenticated /\ handled[e.peer] < e.n /\ e.n <= sent[e.peer]
Shown(e, s) == \E i \in DOMAIN subscriber[s].got : subscriber[s].got[i] = e

(* Liveness.  An alarming event that is on its way while an attentive      *)
(* administrator is subscribed is shown to it, unless the consumer thread  *)
(* fails, the peer leaves or the subscription ends (it lagged behind, or   *)
(* the client went): two channels and three tasks are between.             *)
AlarmsAreShown ==
    \A e \in Alarming, s \in Attentive :
        OnItsWay(e) /\ subscriber[s].pc = "active"
            ~> Shown(e, s) \/ Failed \/ e.peer \in left \/ subscriber[s].pc = "ended"
=============================================================================
