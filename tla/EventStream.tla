----------------------------- MODULE EventStream -----------------------------
(***************************************************************************)
(* What the engine may rely on of its events, whatever sockets, tasks and  *)
(* channels they pass: of each connection it gets the events in the order  *)
(* in which they were written, from the first on, none twice, none left    *)
(* out, and none of a connection that was not authenticated.               *)
(***************************************************************************)
EXTENDS Naturals

CONSTANT Peer

VARIABLES
    sent,      \* connection -> how many events its peer has written
    trusted,   \* the connections that are authenticated
    handled    \* connection -> number of the last of its events handled

Init == /\ sent = [p \in Peer |-> 0] /\ trusted = {}
        /\ handled = [p \in Peer |-> 0]

Emit(p) == /\ sent' = [sent EXCEPT ![p] = @ + 1]
           /\ UNCHANGED <<trusted, handled>>

Trust(p) == /\ trusted' = trusted \cup {p}
            /\ UNCHANGED <<sent, handled>>

Deliver(p) == /\ p \in trusted /\ handled[p] < sent[p]
              /\ handled' = [handled EXCEPT ![p] = @ + 1]
              /\ UNCHANGED <<sent, trusted>>

Next == \E p \in Peer : Emit(p) \/ Trust(p) \/ Deliver(p)

Spec == Init /\ [][Next]_<<sent, trusted, handled>>
=============================================================================
