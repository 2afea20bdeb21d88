------------------------------ MODULE CaseFile ------------------------------
(***************************************************************************)
(* What the administrator may rely on of what the engine remembers of a    *)
(* process, whatever handlers, scans, prompts, purges and commands share   *)
(* its maps: a case is opened once and stays open until the process is     *)
(* over; what the process did is forgotten only by a decision about that   *)
(* very process or when the closed case is dropped; and a case in which    *)
(* reading meets connecting has been answered.                             *)
(***************************************************************************)
CONSTANT Process

VARIABLES
    stage,      \* process -> "unseen", "open", "closed" or "dropped"
    evidence,   \* process -> what its case records
    answered,   \* processes whose suspension was begun since the last decision
                \* on them
    over        \* the processes that will not run again

vars == <<stage, evidence, answered, over>>

Complete == {"read", "connected"}

Init ==
    /\ stage \in [Process -> {"unseen", "dropped"}]
    /\ evidence = [k \in Process |-> {}]
    /\ answered = {} /\ over \subseteq Process

(* The case of k stays as it is.                                           *)
Rests(k) == stage'[k] = stage[k] /\ evidence'[k] = evidence[k]

Opens(k) ==
    /\ stage[k] = "unseen" /\ stage'[k] = "open"
    /\ evidence'[k] = {}

(* The agent was not there to see k start.                                 *)
Missed(k) ==
    /\ stage[k] = "unseen" /\ stage'[k] = "dropped"
    /\ evidence'[k] = {}

Learns(k) ==
    /\ stage[k] = "open" /\ stage'[k] = "open"
    /\ evidence[k] \subseteq evidence'[k] /\ evidence'[k] \subseteq Complete
    /\ evidence'[k] = Complete => k \in answered'

Closes(k) ==
    /\ stage[k] = "open" /\ stage'[k] = "closed"
    /\ k \in over'
    /\ evidence'[k] = evidence[k]

Drops(k) ==
    /\ stage[k] = "closed" /\ stage'[k] = "dropped"
    /\ evidence'[k] = {}

(* Any number of cases at once, and no decision.                           *)
Engine ==
    /\ answered \subseteq answered'
    /\ \A k \in Process :
          Rests(k) \/ Opens(k) \/ Missed(k) \/ Learns(k) \/ Closes(k) \/ Drops(k)

(* A decision clears one process and no other.                             *)
Decide(k) ==
    /\ stage[k] \in {"open", "closed"} /\ stage'[k] = stage[k]
    /\ evidence'[k] = {} /\ answered' = answered \ {k}
    /\ \A j \in Process \ {k} : Rests(j)

Next ==
    /\ over \subseteq over'
    /\ Engine \/ \E k \in Process : Decide(k)

Spec == Init /\ [][Next]_vars
=============================================================================
