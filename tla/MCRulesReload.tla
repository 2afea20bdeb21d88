---------------------------- MODULE MCRulesReload ----------------------------
(* Values of the constants of RulesReload for TLC.                         *)
EXTENDS RulesReload

CONSTANTS wallet, cookies,     \* files the rules list
          vault,               \* a protected directory
          cli                  \* a control connection

(* Version 1 lists another file and changes the flags of the first; the     *)
(* last version changes the flags of both.                                 *)
MCFlagsOf ==
    [v \in Version |-> [f \in File |->
        CASE v = 0 -> IF f = wallet THEN 1 ELSE 0
          [] v = 1 -> IF f = wallet THEN 4 ELSE 1
          [] OTHER -> IF f = wallet THEN 1 ELSE 4]]
MCDirsOf == [v \in Version |-> IF v = 0 THEN {} ELSE Dir]
=============================================================================
