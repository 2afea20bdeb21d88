----------------------------- MODULE RulesReload -----------------------------
(***************************************************************************)
(* Loading the rules database again while the agent runs.  Three kinds of  *)
(* task put rules in force or into the kernel map: run_agent, which        *)
(* registers what it loaded at its start (src/src/lib.rs 224-261); the     *)
(* file watcher (lib.rs 91-181); and the ReloadRules command               *)
(* (src/src/control.rs 195-249).  The rules sit behind an RwLock that the  *)
(* consumer thread reads, at two places twice: suspend_process_tree asks   *)
(* for a guard its caller still holds (src/src/heuristics.rs 298, 657 and  *)
(* 980), and this lock admits no reader while a writer waits.  Between the *)
(* two it may wait for a user to close a popup (944).  The watch is set up *)
(* by a task of its own, after the start's load (lib.rs 58 and 91-117).    *)
(*                                                                         *)
(* Version n is the n-th database published.  Two history variables:       *)
(* `crossed`, a reload swapped its rules in while another was busy and no  *)
(* reload has run alone since; `noticed`, the newest version the watch was *)
(* there to see published.                                                 *)
(*                                                                         *)
(* Operators named Faulty... are plausible regressions; nothing uses them. *)
(***************************************************************************)
EXTENDS Naturals, FiniteSets

CONSTANTS
    File,         \* paths the rules can list as sensitive
    Early,        \* those that exist from the start; others may appear
    Dir,          \* protected application directories
    MaxVersion,   \* bound: databases published after the agent started
    FlagsOf,      \* version -> path -> category flags, 0 if not listed
    DirsOf,       \* version -> protected directories
    Command,      \* control connections on which ReloadRules is asked for
    NestedReads   \* suspending asks for the guard again: not in audit mode

Version == 0..MaxVersion
Flag == {0} \cup {FlagsOf[v][f] : v \in Version, f \in File}
Loader == {"startup", "watcher"} \cup Command

ASSUME ReloadAssumption ==
    /\ MaxVersion \in Nat
    /\ Early \subseteq File
    /\ FlagsOf \in [Version -> [File -> Nat]]
    /\ DirsOf \in [Version -> SUBSET Dir]
    /\ NestedReads \in BOOLEAN
    /\ {"startup", "watcher"} \cap Command = {}

VARIABLES
    published,   \* the newest database
    writing,     \* rules.db is half written: load fails its checks
    present,     \* the listed paths at which a file exists
    watch,       \* the watch on the directory of rules.db
    notices,     \* change notifications the watcher has not taken yet
    config,      \* HeuristicsEngine::config: the version in force
    kernel,      \* path -> flags given to add_sensitive_inode, 0 if none
    kernelDirs,  \* protected directories given to it
    loader,      \* task -> where it stands and which version it loaded
    consumer,    \* the consumer thread's use of the lock
    crossed,     \* history, see above
    noticed      \* history, see above

diskVars == <<published, writing, present, watch, noticed>>
kernelVars == <<kernel, kernelDirs>>
vars == <<diskVars, notices, config, kernelVars, loader, consumer, crossed>>

LoaderState == [pc : {"idle", "asked", "loaded", "waiting", "files", "dirs"},
                version : Version, todo : SUBSET File]

TypeOK ==
    /\ published \in Version /\ writing \in BOOLEAN
    /\ writing => published < MaxVersion
    /\ present \in SUBSET File
    /\ watch \in {"unset", "armed", "failed"}
    /\ notices \in Nat /\ noticed \in Version
    /\ config \in Version
    /\ kernel \in [File -> Flag] /\ kernelDirs \in SUBSET Dir
    /\ loader \in [Loader -> LoaderState]
    /\ consumer \in {"free", "reading", "popup", "nesting"}
    /\ crossed \in BOOLEAN

Listed(v) == {f \in File : FlagsOf[v][f] # 0}

(* A task that has read the database and is not through with it.           *)
Busy(t) == loader[t].pc \in {"loaded", "waiting", "files", "dirs"}
Alone(t) == \A u \in Loader \ {t} : ~Busy(u)

WriterWaits == \E t \in Loader : loader[t].pc = "waiting"

(* What a database named in `v` asks the kernel map to hold.               *)
Registering(v) == [pc |-> "files", version |-> v, todo |-> Listed(v)]

Init ==
    /\ published = 0 /\ config = 0 /\ writing = FALSE
    /\ present = Early
    /\ watch = "unset" /\ notices = 0 /\ noticed = 0
    /\ kernel = [f \in File |-> 0] /\ kernelDirs = {}
    /\ loader = [t \in Loader |-> IF t = "startup" THEN Registering(0)
                                  ELSE [pc |-> "idle", version |-> 0, todo |-> {}]]
    /\ consumer = "free"
    /\ crossed = FALSE

-----------------------------------------------------------------------------
(* The administrator's side of the file system.                            *)

(* The watch, once it is there, reports a write or a rename.               *)
Report == notices' = IF watch = "armed" THEN notices + 1 ELSE notices

(* A new database is whole: with or without anybody watching.              *)
Publish ==
    /\ published' = published + 1
    /\ noticed' = IF watch = "armed" THEN published + 1 ELSE noticed

(* rules.db is opened and truncated; some of it is written; it is whole.   *)
BeginWrite ==
    /\ ~writing /\ published < MaxVersion
    /\ writing' = TRUE /\ Report
    /\ UNCHANGED <<published, noticed, present, watch, config, kernelVars, loader, consumer,
                   crossed>>

EndWrite ==
    /\ writing
    /\ writing' = FALSE /\ Publish /\ Report
    /\ UNCHANGED <<present, watch, config, kernelVars, loader, consumer, crossed>>

(* A new database is renamed into place.                                   *)
Rename ==
    /\ ~writing /\ published < MaxVersion
    /\ Publish /\ Report
    /\ UNCHANGED <<writing, present, watch, config, kernelVars, loader, consumer, crossed>>

Appear(f) ==
    /\ f \notin present
    /\ present' = present \cup {f}
    /\ UNCHANGED <<published, noticed, writing, watch, notices, config, kernelVars, loader,
                   consumer, crossed>>

-----------------------------------------------------------------------------
(* A reload: load, wait for the lock, swap, register.                      *)

SetLoader(t, s) == loader' = [loader EXCEPT ![t] = s]
Goto(t, pc) == SetLoader(t, [loader[t] EXCEPT !.pc = pc])

(* The task of the watcher creates it and names the directory: either may  *)
(* fail, and then the task ends.                                           *)
SetUpWatch ==
    /\ watch = "unset" /\ watch' \in {"armed", "failed"}
    /\ UNCHANGED <<published, noticed, writing, present, notices, config, kernelVars, loader,
                   consumer, crossed>>

(* A notification too many is counted off.                                 *)
FaultyNotice ==
    /\ loader["watcher"].pc = "idle"
    /\ notices' = notices - 1 /\ Goto("watcher", "asked")
    /\ UNCHANGED <<diskVars, config, kernelVars, consumer, crossed>>

(* The watcher takes a notification and sleeps 100 ms.                     *)
Notice ==
    /\ loader["watcher"].pc = "idle" /\ notices > 0
    /\ notices' = notices - 1 /\ Goto("watcher", "asked")
    /\ UNCHANGED <<diskVars, config, kernelVars, consumer, crossed>>

Ask(c) ==
    /\ loader[c].pc = "idle" /\ Goto(c, "asked")
    /\ UNCHANGED <<diskVars, notices, config, kernelVars, consumer, crossed>>

(* A database that does not verify is taken for the one shipped.           *)
FaultyLoad(t) ==
    /\ loader[t].pc = "asked"
    /\ SetLoader(t, [pc |-> "loaded", version |-> IF writing THEN 0 ELSE published,
                     todo |-> {}])
    /\ crossed' = (crossed /\ ~Alone(t))
    /\ UNCHANGED <<diskVars, notices, config, kernelVars, consumer>>

(* ConfigManager::load: what does not verify leaves the rules as they are. *)
Load(t) ==
    /\ loader[t].pc = "asked"
    /\ IF writing THEN Goto(t, "idle") /\ UNCHANGED crossed
       ELSE /\ SetLoader(t, [pc |-> "loaded", version |-> published, todo |-> {}])
            /\ crossed' = (crossed /\ ~Alone(t))
    /\ UNCHANGED <<diskVars, notices, config, kernelVars, consumer>>

(* config.write() joins the queue of the lock.                             *)
Request(t) ==
    /\ loader[t].pc = "loaded" /\ Goto(t, "waiting")
    /\ UNCHANGED <<diskVars, notices, config, kernelVars, consumer, crossed>>

(* A reload leaves the registration to another that is under way.          *)
FaultySwap(t) ==
    /\ loader[t].pc = "waiting" /\ consumer = "free"
    /\ config' = loader[t].version
    /\ SetLoader(t, IF Alone(t) THEN Registering(loader[t].version)
                    ELSE [loader[t] EXCEPT !.pc = "dirs"])
    /\ crossed' = (crossed \/ ~Alone(t))
    /\ UNCHANGED <<diskVars, notices, kernelVars, consumer>>

(* The guard is had and given back at once.  The watcher and the command   *)
(* register every sensitive file of what they loaded.                      *)
Swap(t) ==
    /\ loader[t].pc = "waiting" /\ consumer = "free"
    /\ config' = loader[t].version
    /\ SetLoader(t, Registering(loader[t].version))
    /\ crossed' = (crossed \/ ~Alone(t))
    /\ UNCHANGED <<diskVars, notices, kernelVars, consumer>>

(* An inode that is registered is left alone.                              *)
FaultyRegisterFile(t, f) ==
    /\ loader[t].pc = "files" /\ f \in loader[t].todo
    /\ kernel' = IF f \in present /\ kernel[f] = 0
                 THEN [kernel EXCEPT ![f] = FlagsOf[loader[t].version][f]] ELSE kernel
    /\ SetLoader(t, [loader[t] EXCEPT !.todo = @ \ {f}])
    /\ UNCHANGED <<diskVars, notices, config, kernelDirs, consumer, crossed>>

(* One file: the inode's flags are overwritten, if there is a file.        *)
RegisterFile(t, f) ==
    /\ loader[t].pc = "files" /\ f \in loader[t].todo
    /\ kernel' = IF f \in present
                 THEN [kernel EXCEPT ![f] = FlagsOf[loader[t].version][f]] ELSE kernel
    /\ SetLoader(t, [loader[t] EXCEPT !.todo = @ \ {f}])
    /\ UNCHANGED <<diskVars, notices, config, kernelDirs, consumer, crossed>>

(* The watcher forgets what it was notified of while it was reloading.     *)
FaultyFilesDone(t) ==
    /\ loader[t].pc = "files" /\ loader[t].todo = {}
    /\ Goto(t, IF t = "watcher" THEN "idle" ELSE "dirs")
    /\ notices' = IF t = "watcher" THEN 0 ELSE notices
    /\ UNCHANGED <<diskVars, config, kernelVars, consumer, crossed>>

(* The files are through.  The watcher stops here.                         *)
FilesDone(t) ==
    /\ loader[t].pc = "files" /\ loader[t].todo = {}
    /\ Goto(t, IF t = "watcher" THEN "idle" ELSE "dirs")
    /\ UNCHANGED <<diskVars, notices, config, kernelVars, consumer, crossed>>

RegisterDirs(t) ==
    /\ loader[t].pc = "dirs"
    /\ kernelDirs' = kernelDirs \cup DirsOf[loader[t].version]
    /\ Goto(t, "idle")
    /\ UNCHANGED <<diskVars, notices, config, kernel, consumer, crossed>>

-----------------------------------------------------------------------------
(* The consumer thread.                                                    *)

BeginRead ==
    /\ consumer = "free" /\ ~WriterWaits
    /\ consumer' = "reading"
    /\ UNCHANGED <<diskVars, notices, config, kernelVars, loader, crossed>>

(* The handler decides to suspend the process.  If a tmux client is        *)
(* attached it waits for a popup there to be closed; to prompt the desktop *)
(* user it asks for the guard again.                                       *)
Suspend ==
    /\ consumer = "reading"
    /\ consumer' \in {"popup", "nesting"}
    /\ UNCHANGED <<diskVars, notices, config, kernelVars, loader, crossed>>

ClosePopup ==
    /\ consumer = "popup"
    /\ consumer' = "nesting"
    /\ UNCHANGED <<diskVars, notices, config, kernelVars, loader, crossed>>

(* The handler ends and gives back what it holds.                          *)
EndRead ==
    /\ \/ consumer = "reading"
       \/ consumer = "nesting" /\ (NestedReads => ~WriterWaits)
    /\ consumer' = "free"
    /\ UNCHANGED <<diskVars, notices, config, kernelVars, loader, crossed>>

-----------------------------------------------------------------------------
Reload(t) ==
    \/ Load(t) \/ Request(t) \/ Swap(t) \/ FilesDone(t) \/ RegisterDirs(t)
    \/ \E f \in File : RegisterFile(t, f)

Next ==
    \/ BeginWrite \/ EndWrite \/ Rename \/ \E f \in File : Appear(f)
    \/ SetUpWatch \/ Notice \/ \E c \in Command : Ask(c)
    \/ \E t \in Loader : Reload(t)
    \/ BeginRead \/ Suspend \/ ClosePopup \/ EndRead

Spec == Init /\ [][Next]_vars

(* The tasks run, and a handler that is not blocked ends; no user is       *)
(* assumed to close a popup, and no administrator to publish or to ask.    *)
Fairness ==
    /\ WF_vars(SetUpWatch)
    /\ WF_vars(Notice)
    /\ \A t \in Loader : WF_vars(Reload(t))
    /\ WF_vars(EndRead)

LiveSpec == Spec /\ Fairness

-----------------------------------------------------------------------------
(* No reload is under way.                                                 *)
Settled == \A t \in Loader : loader[t].pc = "idle"

(* The thread waits for a writer that waits for the thread.                *)
SelfDeadlock == NestedReads /\ consumer = "nesting" /\ WriterWaits

(* Safety.  However the start-up, the watcher and the commands interleave  *)
(* (lib.rs 224-261 and 146-172, control.rs 202-242), once they are done    *)
(* the kernel map holds every file that the rules in force list and that   *)
(* was there all along, and every protected directory unless it was the    *)
(* watcher, which registers files only, that loaded these rules: no reload *)
(* leaves one version in force with only another version's files watched.  *)
EveryRuleRegistered ==
    Settled => /\ \A f \in Listed(config) \cap Early : kernel[f] # 0
               /\ loader["watcher"].version # config => DirsOf[config] \subseteq kernelDirs

(* Safety.  The flags of a listed file in the kernel map are those of the  *)
(* rules in force, unless two reloads crossed: the lock covers the swap,   *)
(* neither the load before it (lib.rs 146, control.rs 202) nor the         *)
(* registration after it.                                                  *)
FlagsAreCurrent ==
    Settled /\ ~crossed =>
        \A f \in Listed(config) \cap Early : kernel[f] = FlagsOf[config][f]

(* Action property.  Newer rules are replaced by older ones only by a      *)
(* reload that crossed another (lib.rs 149-152, control.rs 206-209).       *)
RulesNeverGoBack == [][config' >= config \/ crossed']_vars

(* The users close the popups they are shown.                              *)
PopupsClosed == []<>(consumer # "popup")

(* Liveness.  Once nobody writes the database any more, the newest rules   *)
(* that the watch saw published, or newer ones, come to be in force (the   *)
(* watcher, lib.rs 122-152), if popups are closed, except after reloads    *)
(* that crossed or when the consumer thread has locked itself out.         *)
NewestComesInForce ==
    PopupsClosed => <>[](writing \/ config >= noticed \/ crossed \/ SelfDeadlock)

(* "Hot-reloads /etc/kinnector/rules.db" (src/README.md 27): the same      *)
(* without the lock-out.                                                   *)
HotReloads == PopupsClosed => <>[](writing \/ config >= noticed \/ crossed)

(* The same line, of a database published at any time after the load at    *)
(* the start, by an agent that comes to watch the directory.               *)
HotReloadsAll ==
    PopupsClosed /\ <>(watch = "armed") =>
        <>[](writing \/ config = published \/ crossed \/ SelfDeadlock)
=============================================================================
