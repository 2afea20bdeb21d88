---------------------------- MODULE MCHeuristics ----------------------------
(* Values of the constants of Heuristics for TLC.                          *)
EXTENDS Heuristics

CONSTANTS app, npm,                 \* an ordinary program, a package manager
          wallet, diary, page,      \* app owns the diary and the page
          binary, crontab, socket   \* a protected file, persistence, docker.sock

Boot1 == {1}
Pids2 == 1..2
Pids3 == 1..3

(* The kinds of sensitive files: of an unrelated vendor, of app, plain.    *)
Sensitive == [f \in {wallet, diary, page, binary, crontab, socket} |->
                 CASE f = wallet -> {"wallet"}
                   [] f = diary -> {"app_data"}
                   [] f = page -> {"browser_db"}
                   [] OTHER -> {}]
MCCategoryOf == [f \in File |-> Sensitive[f]]
MCOwner == {app} \X ({diary, page} \cap File)

MCShardOf == [k \in ProcessKey |-> k.pid % 2]
AppOwnsBinary == {app} \X {binary}

Reads == {"ProcessCreate", "FileRead", "NetworkConnect"}
ReadsAndStops == Reads \cup {"ProcessStop"}
AllCommands == {"Release", "Kill", "TrustOnce"}
Booleans == {TRUE, FALSE}
=============================================================================
