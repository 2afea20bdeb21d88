------------------------------ MODULE MCPipeline ------------------------------
(* Two alarming events on a connection, one task beside the consumer       *)
(* thread, and an administrator.  (IngestProofs is about any number of      *)
(* connections.)                                                           *)
EXTENDS Pipeline

CONSTANTS sensor,   \* a connection
          scan,     \* a task on the runtime
          admin     \* a subscriber

MCAlarming == {[peer |-> sensor, n |-> i] : i \in 1..2}
MCScanAlert == [peer |-> "none", n |-> 0]
MCAlert == MCAlarming \cup {MCScanAlert}
MCTaskAlert == [x \in Producer |-> IF x = scan THEN {MCScanAlert} ELSE {}]
=============================================================================
