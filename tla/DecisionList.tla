----------------------------- MODULE DecisionList -----------------------------
(***************************************************************************)
(* What the administrator may rely on of a list of decisions kept across   *)
(* restarts (user_allowlist.json or user_denylist.json): decisions are     *)
(* added one at a time, at most one for a path, and none is lost, until an *)
(* accident damages the list: the implementation says which they are.  An  *)
(* accident may lose decisions, even all of them; it never invents one and *)
(* never leaves two for a path.                                            *)
(***************************************************************************)
CONSTANTS Path, Content

VARIABLES
    list,      \* the decisions in the list
    ever,      \* every decision that was ever to be added
    damaged    \* an accident happened

Entry == [path : Path, hash : Content]

OnePerPath(s) == \A d, e \in s : d.path = e.path => d = e

Init == list = {} /\ ever = {} /\ damaged = FALSE

Decide ==
    /\ \E e \in Entry : ever' = ever \cup {e}
    /\ UNCHANGED <<list, damaged>>

Add ==
    /\ \E e \in ever : /\ \A d \in list : d.path # e.path
                       /\ list' = list \cup {e}
    /\ UNCHANGED <<ever, damaged>>

Accident ==
    /\ damaged' = TRUE
    /\ ever \subseteq ever' /\ ever' \subseteq Entry
    /\ list' \subseteq ever' /\ OnePerPath(list')

Next == Decide \/ Add \/ Accident

Spec == Init /\ [][Next]_<<list, ever, damaged>>
=============================================================================
