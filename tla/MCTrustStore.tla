----------------------------- MODULE MCTrustStore -----------------------------
(* A program of the user's (app), one that the system owns (tool), and the  *)
(* tasks that decide on them: a command and the answer to a prompt.         *)
EXTENDS TrustStore, TLC

CONSTANTS app, tool, old, new, command, prompt

MCInstalled == [p \in Path |-> IF p = app THEN [inode |-> 1, content |-> old]
                               ELSE [inode |-> 2, content |-> old]]
=============================================================================
