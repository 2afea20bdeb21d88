----------------------------- MODULE Heuristics -----------------------------
(***************************************************************************)
(* The detection and containment engine (src/src/heuristics.rs): the       *)
(* process state machine fed by the kernel sensor's event queue, the       *)
(* asynchronous work it starts (YARA scans, desktop prompts, install       *)
(* clean-up, the purge loop of run_agent) and the administrator's commands *)
(* of src/src/control.rs that change its state.                            *)
(*                                                                         *)
(* One action is one handler up to the response it calls for.  A           *)
(* suspension and a release hold no lock and run on several threads: they  *)
(* go step by step (`responses`, `releases`), and a handler ends with its  *)
(* response.  A kill is one step with what follows it, since nothing       *)
(* undoes it.  The locks a handler holds matter only where somebody waits  *)
(* for them: `pinned` is the set of shards of process_map whose read guard *)
(* a blocked handler never gives back, Held adds those a response keeps.   *)
(*                                                                         *)
(* History variables, read by properties only: `alerted` (the last         *)
(* response announced for a process), `suspended` (suspend_process_tree    *)
(* was called for it since its detection state was last reset), the fields *)
(* `actor` of an event and `creator` of an entry (the process that caused  *)
(* them) and the `by` half of `sig`.                                       *)
(*                                                                         *)
(* Operators named Faulty... are plausible regressions of the definition   *)
(* that follows them.  Nothing uses them; a run with one of them in place  *)
(* of the original shows what a property would catch.                      *)
(***************************************************************************)
EXTENDS Naturals, Sequences, FiniteSets

CONSTANTS
    Pid,               \* process ids
    Boot,              \* pids running, untracked, when the agent starts
    MaxTime,           \* bound: the last instant at which a process may start
    Image,             \* executables
    Installer,         \* images that installer_binaries() matches
    File,              \* paths the sensor reports
    CategoryOf,        \* File -> categories; {} is "not sensitive" or excluded
    Owner,             \* <<image, file>>: the vendor rule authorises the read
    ProtectedDir,      \* files in protected_application_directories()
    ProtectedWriter,   \* <<image, file>>: the directory's allowed writer
    PersistencePath,   \* files that persistence_paths() or a profile matches
    CredentialPath,    \* files an install may not open
    RuntimeSocket,     \* docker.sock, containerd.sock
    ShardOf,           \* ProcessKey -> shard of the DashMap it lives in
    AuditMode,         \* KINNECTOR_AUDIT
    Gui,               \* possible answers to "is a desktop session active"
    Tmux,              \* possible answers to "is a tmux client attached"
    Verdict,           \* possible launch verdicts (is_untrusted)
    Sigma,             \* possible answers of the Sigma engine
    Spoof,             \* pids a child may claim as its parent
    Emits,             \* kinds of events the sensor reports in this instance
    Commands,          \* administrator commands used in this instance
    PidReuse,          \* the kernel's pid allocator has wrapped around
    IterPinsShard,     \* a DashMap 5.5.3 iterator keeps its shard's read guard
    ConsumerInRuntime, \* the consumer thread runs inside a Tokio context
    QueueCap,          \* capacity of the event channel
    MaxPrompts,        \* bound: desktop prompts open at a time for one process
    NoEntry            \* absent from process_map

-----------------------------------------------------------------------------
Time == 0..MaxTime
ProcessKey == [pid : Pid, start_time : Time]

(* start_time 0 is the wild-card under which children_map is written.      *)
WildCard(p) == [pid |-> p, start_time |-> 0]

Category == UNION {CategoryOf[f] : f \in File}

FileEventType == {"FileRead", "FileWrite", "FileOpen"}
PlainEventType == {"ProcessStop", "NetworkConnect", "Dup2", "RegistryWrite",
                   "PtraceAttach", "MemoryProtect"}

(* TelemetryEventRaw, without the bytes no handler looks at.               *)
CreateEvent == [type : {"ProcessCreate"}, pid : Pid, child_pid : Pid,
                real_parent_pid : Pid, timestamp : Time \ {0},
                image : Image, actor : ProcessKey]
FileEvent == [type : FileEventType, pid : Pid, file : File, actor : ProcessKey]
PlainEvent == [type : PlainEventType, pid : Pid, actor : ProcessKey]
Event == CreateEvent \cup FileEvent \cup PlainEvent

ProcessState ==
    [ppid : Pid, real_parent_pid : Pid, creator : ProcessKey, image : Image,
     category_flags : SUBSET Category, unique_files_read : SUBSET File,
     pending_network_connect : BOOLEAN, terminated : BOOLEAN,
     ttl_deadline : BOOLEAN, is_untrusted : BOOLEAN,
     is_install_context : BOOLEAN, is_top_level_install : BOOLEAN,
     install_root_pid : Pid \cup {0}]

Signal == [op : {"none", "STOP", "CONT", "KILL"}, by : {"none", "engine", "admin"}]
Response == {"none", "LOGGED", "CONTAINED", "RELEASED", "TERMINATED"}

(* A call of suspend_process_tree: who made it - the consumer thread (from *)
(* within an iteration over process_map that keeps its shard, or not) or   *)
(* the task of a scan -, about which process, and what it does next.       *)
Suspension == [by : {"handler", "iterator", "scan"}, root : ProcessKey,
               step : {"popup", "stop", "announce"}]

(* A release under way: by a command or by a prompt's answer.              *)
Release == [by : {"command", "prompt"}, root : ProcessKey, step : {"reset", "announce"}]

ASSUME ConfigAssumption ==
    /\ Pid \subseteq Nat \ {0} /\ Boot \subseteq Pid /\ Spoof \subseteq Pid
    /\ MaxTime \in Nat \ {0}
    /\ Installer \subseteq Image
    /\ ShardOf \in [ProcessKey -> Nat]
    /\ AuditMode \in BOOLEAN /\ IterPinsShard \in BOOLEAN
    /\ ConsumerInRuntime \in BOOLEAN /\ PidReuse \in BOOLEAN
    /\ Gui \subseteq BOOLEAN /\ Tmux \subseteq BOOLEAN
    /\ Verdict \subseteq BOOLEAN /\ Sigma \subseteq BOOLEAN
    /\ QueueCap \in Nat /\ MaxPrompts \in Nat
    /\ NoEntry \notin ProcessState

VARIABLES
    processMap,   \* process_map: ProcessKey -> ProcessState or NoEntry
    childrenMap,  \* children_map: ProcessKey -> set of ProcessKey
    queue,        \* the mpsc channel into the consumer thread
    consumer,     \* the consumer thread: "running", "responding" (inside
                  \* suspend_process_tree), "blocked", "panicked"
    purger,       \* the purge task: "running", "blocked"
    pinned,       \* shards whose read guard is never released
    yara,         \* processes whose executable is being scanned
    responses,    \* suspensions under way
    releases,     \* releases under way
    prompts,      \* desktop prompts open, per process asked about
    cleanups,     \* ended installs whose 2 s clean-up task is asleep
    clock,        \* kernel time, one tick per process started
    holder,       \* pid -> start time of the process that has it, 0 if free
    sig,          \* ProcessKey -> last signal the agent sent to that process
    alerted,      \* history: ProcessKey -> last response announced (a mere
                  \* notice, action ALERTED, announces none)
    suspended     \* history: a suspension was begun since the last reset

stepVars == <<responses, releases>>
responseVars == <<sig, alerted, suspended, prompts, consumer, stepVars>>
osVars == <<clock, holder>>
vars == <<processMap, childrenMap, queue, purger, pinned, yara, cleanups,
          responseVars, osVars>>

-----------------------------------------------------------------------------
(* The operating system's side.                                            *)

(* The process k has its pid now.                                          *)
Alive(k) == k.start_time # 0 /\ holder[k.pid] = k.start_time

(* k is gone, or will never run again.                                     *)
Gone(k) == ~Alive(k) \/ sig[k].op = "KILL"

(* k executes instructions.                                                *)
Runs(k) == Alive(k) /\ sig[k].op \notin {"STOP", "KILL"}

Current(p) == [pid |-> p, start_time |-> holder[p]]

(* kill(pid, op) reaches whichever process has the pid when it is sent.    *)
Signalled(pids, op, by) ==
    [k \in ProcessKey |->
        IF k.pid \in pids /\ Alive(k) /\ sig[k].op # "KILL"
        THEN [op |-> op, by |-> by] ELSE sig[k]]

(* Events overtake each other: the newest is handled first.                *)
FaultyEmit(e) ==
    IF consumer = "panicked" THEN queue' = queue
    ELSE Len(queue) < QueueCap /\ queue' = <<e>> \o queue

(* The channel applies backpressure while it has a receiver; once the      *)
(* consumer thread has panicked the events are refused.                    *)
Emit(e) ==
    IF consumer = "panicked" THEN queue' = queue
    ELSE Len(queue) < QueueCap /\ queue' = Append(queue, e)

engineVars == <<processMap, childrenMap, purger, pinned, yara, cleanups, responseVars>>

(* A process p starts the image i as the process c, claiming q as parent.  *)
(* Pids are handed out in increasing order until the allocator wraps.      *)
Fork(p, c, i, q) ==
    /\ "ProcessCreate" \in Emits
    /\ clock < MaxTime /\ Runs(Current(p)) /\ holder[c] = 0
    /\ PidReuse \/ c = clock + 1
    /\ clock' = clock + 1
    /\ holder' = [holder EXCEPT ![c] = clock + 1]
    /\ Emit([type |-> "ProcessCreate", pid |-> q, child_pid |-> c,
             real_parent_pid |-> p, timestamp |-> clock + 1, image |-> i,
             actor |-> Current(p)])
    /\ UNCHANGED engineVars

(* A process ends, by itself or because it was killed.                     *)
Exit(p) ==
    /\ "ProcessStop" \in Emits
    /\ Alive(Current(p))
    /\ holder' = [holder EXCEPT ![p] = 0]
    /\ Emit([type |-> "ProcessStop", pid |-> p, actor |-> Current(p)])
    /\ UNCHANGED <<clock, engineVars>>

(* A running process does something the sensor reports.                    *)
Act(p) ==
    /\ Runs(Current(p))
    /\ \/ \E t \in FileEventType \cap Emits, f \in File :
              Emit([type |-> t, pid |-> p, file |-> f, actor |-> Current(p)])
       \/ \E t \in (PlainEventType \ {"ProcessStop"}) \cap Emits :
              Emit([type |-> t, pid |-> p, actor |-> Current(p)])
    /\ UNCHANGED <<osVars, engineVars>>

-----------------------------------------------------------------------------
(* Reading and marking the process map.                                    *)

Tracked == {k \in ProcessKey : processMap[k] # NoEntry}

(* Lookups do not skip terminated entries.                                 *)
FaultyLive(p) == {k \in Tracked : k.pid = p}

(* The entries a lookup by pid can return: the code takes the first that   *)
(* its iteration meets, in the hash order of the map.                      *)
Live(p) == {k \in Tracked : k.pid = p /\ ~processMap[k].terminated}

(* collect_descendants, under the key it is given.                         *)
Descendants(k) ==
    IF childrenMap[k] = {} THEN {}
    ELSE LET down[n \in Time] ==
               IF n = 0 THEN childrenMap[k]
               ELSE down[n - 1] \cup UNION {childrenMap[d] : d \in down[n - 1]}
         IN  down[MaxTime]

DescendantPids(k) == {d.pid : d \in Descendants(k)}

(* The root's own pid is not pushed onto the list.                         *)
FaultyTreePids(k) == DescendantPids(k)

TreePids(k) == DescendantPids(k) \cup {k.pid}

(* One live entry for every pid that has one.                              *)
OnePerPid(pids) ==
    {S \in SUBSET UNION {Live(p) : p \in pids} :
        \A p \in pids : Live(p) # {} => Cardinality(S \cap Live(p)) = 1}

(* The deadline is forgotten.                                              *)
FaultyMarked(S) ==
    [k \in ProcessKey |->
        IF k \in S THEN [processMap[k] EXCEPT !.terminated = TRUE] ELSE processMap[k]]

(* The entries of S marked terminated, with a deadline for the purge.      *)
Marked(S) ==
    [k \in ProcessKey |->
        IF k \in S
        THEN [processMap[k] EXCEPT !.terminated = TRUE, !.ttl_deadline = TRUE]
        ELSE processMap[k]]

(* A decision forgets the reads and keeps the connection.                  *)
FaultyReset(s) == [s EXCEPT !.category_flags = {}]

(* What an administrator's decision forgets about a process.               *)
Reset(s) == [s EXCEPT !.category_flags = {}, !.pending_network_connect = FALSE]

-----------------------------------------------------------------------------
(* Responses.                                                              *)

(* The response a suspension announces.                                    *)
Announced == IF AuditMode THEN "LOGGED" ELSE "CONTAINED"

(* suspend_process_tree begins: it writes to the terminals with wall and   *)
(* opens a popup in an attached tmux client.                               *)
BeginSuspension(k, by) ==
    /\ \E popup \in Tmux :
          responses' = responses \cup
              {[by |-> by, root |-> k, step |-> IF popup THEN "popup" ELSE "stop"]}
    /\ suspended' = suspended \cup {k}
    /\ consumer' = IF by = "scan" THEN consumer ELSE "responding"
    /\ UNCHANGED <<sig, prompts, releases>>

(* The audit-mode test is lost, or the descendants alone are killed.       *)
FaultyThreatSignals(k) == Signalled(TreePids(k), "KILL", "engine")
FaultyThreatSignalsChildren(k) ==
    IF AuditMode THEN sig ELSE Signalled(DescendantPids(k), "KILL", "engine")

(* The signals of terminate_threat_pkm.                                    *)
ThreatSignals(k) ==
    IF AuditMode THEN sig ELSE Signalled(TreePids(k), "KILL", "engine")

(* terminate_threat_pkm: kill the tree, mark the entries, announce it.     *)
TerminateThreat(k) ==
    /\ sig' = ThreatSignals(k)
    /\ \E marks \in OnePerPid(TreePids(k)) : processMap' = Marked(marks)
    /\ alerted' = [alerted EXCEPT ![k] = "TERMINATED"]
    /\ UNCHANGED <<suspended, prompts, consumer, stepVars>>

-----------------------------------------------------------------------------
(* The event handlers, run by the consumer thread one event at a time.     *)

(* handle_event dispatches on the type of the next event.                  *)
Handling(type) ==
    consumer = "running" /\ queue # <<>> /\ Head(queue).type = type

(* A panic drops the receiver and with it whatever is still queued.        *)
Dequeue == queue' = IF consumer' = "panicked" THEN <<>> ELSE Tail(queue)

(* Every handler but process_create gives up when the pid has no live entry.*)
Untracked ==
    /\ consumer = "running" /\ queue # <<>>
    /\ Head(queue).type # "ProcessCreate" /\ Live(Head(queue).pid) = {}
    /\ queue' = Tail(queue)
    /\ UNCHANGED <<osVars, engineVars>>

(* The claimed parent is believed.                                         *)
FaultyParentOf(e) == e.pid

(* The parent a child's context comes from.                                *)
ParentOf(e) == e.real_parent_pid

(* What a child inherits from the live entry of its real parent, if any.   *)
Inherited(parent) ==
    IF Live(parent) = {} THEN {[context |-> FALSE, root |-> 0]}
    ELSE {[context |-> processMap[q].is_install_context,
           root |-> processMap[q].install_root_pid] : q \in Live(parent)}

Spoofed(e) == e.real_parent_pid # e.pid

NewState(e, inherited, untrusted) ==
    LET isInstaller == e.image \in Installer
        topLevel == isInstaller /\ ~inherited.context
    IN  [ppid |-> e.pid, real_parent_pid |-> e.real_parent_pid,
         creator |-> e.actor, image |-> e.image,
         category_flags |-> {}, unique_files_read |-> {},
         pending_network_connect |-> FALSE, terminated |-> FALSE,
         ttl_deadline |-> FALSE, is_untrusted |-> untrusted \/ Spoofed(e),
         is_install_context |-> isInstaller \/ inherited.context,
         is_top_level_install |-> topLevel,
         install_root_pid |-> IF topLevel THEN e.child_pid ELSE inherited.root]

(* Only the launch verdict decides on a scan, not the demotion for spoofing.*)
ProcessCreate ==
    LET e == Head(queue)
        k == [pid |-> e.child_pid, start_time |-> e.timestamp]
    IN
    /\ Handling("ProcessCreate")
    /\ \E untrusted \in Verdict, inherited \in Inherited(ParentOf(e)) :
         /\ processMap' = [processMap EXCEPT ![k] = NewState(e, inherited, untrusted)]
         /\ yara' = IF untrusted THEN yara \cup {k} ELSE yara
    /\ childrenMap' = [childrenMap EXCEPT ![WildCard(e.pid)] = @ \cup {k}]
    /\ alerted' = IF Spoofed(e) THEN [alerted EXCEPT ![k] = Announced] ELSE alerted
    /\ \E matched \in Sigma :
         IF matched THEN BeginSuspension(k, "handler")
         ELSE UNCHANGED <<sig, suspended, prompts, consumer, stepVars>>
    /\ Dequeue
    /\ UNCHANGED <<osVars, purger, pinned, cleanups>>

(* The first live entry decides.  A top-level install is left live and a   *)
(* clean-up is spawned, for which the thread needs a Tokio context.        *)
(* Otherwise every live entry of the pid is marked, unless the iterator    *)
(* still holds the shard that get_mut wants: then the thread waits for     *)
(* itself.                                                                 *)
ProcessStop ==
    LET p == Head(queue).pid IN
    /\ Handling("ProcessStop")
    /\ \E first \in Live(p) :
         \/ /\ processMap[first].is_top_level_install
            /\ cleanups' = IF ConsumerInRuntime THEN cleanups \cup {first} ELSE cleanups
            /\ consumer' = IF ConsumerInRuntime THEN consumer ELSE "panicked"
            /\ UNCHANGED <<processMap, pinned>>
         \/ /\ ~processMap[first].is_top_level_install
            /\ consumer' = IF IterPinsShard THEN "blocked" ELSE consumer
            /\ pinned' = IF IterPinsShard THEN pinned \cup {ShardOf[first]} ELSE pinned
            /\ processMap' = IF IterPinsShard THEN processMap ELSE Marked(Live(p))
            /\ UNCHANGED cleanups
    /\ Dequeue
    /\ UNCHANGED <<osVars, childrenMap, purger, yara, sig, alerted, suspended, prompts, stepVars>>

(* The reverse path, or the vendor rule, is lost.                          *)
FaultyReadSuspends(s, f) == <<s.image, f>> \notin Owner \/ Cardinality(s.unique_files_read) > 2
FaultyReadSuspendsOwner(s, f) == s.pending_network_connect \/ Cardinality(s.unique_files_read) > 2

(* Why a read suspends its process: no vendor rule authorises it, it       *)
(* follows a connection, or it is the third sensitive file.                *)
ReadSuspends(s, f) ==
    \/ <<s.image, f>> \notin Owner
    \/ s.pending_network_connect
    \/ Cardinality(s.unique_files_read) > 2

(* file_read *)
FileRead ==
    LET e == Head(queue) IN
    /\ Handling("FileRead")
    /\ \E k \in Live(e.pid) :
         LET s == [processMap[k] EXCEPT !.category_flags = @ \cup CategoryOf[e.file],
                                        !.unique_files_read = @ \cup {e.file}]
         IN  \/ /\ CategoryOf[e.file] = {}
                /\ UNCHANGED <<processMap, responseVars>>
             \/ /\ CategoryOf[e.file] # {}
                /\ processMap' = [processMap EXCEPT ![k] = s]
                /\ IF ReadSuspends(s, e.file)
                   THEN BeginSuspension(k, "handler") /\ UNCHANGED alerted
                   ELSE UNCHANGED responseVars
    /\ Dequeue
    /\ UNCHANGED <<osVars, childrenMap, purger, pinned, yara, cleanups>>

(* Only an untrusted process is suspended for the forward path.            *)
FaultyConnectSuspends(s) == s.is_untrusted /\ s.category_flags # {}

(* Why a connection suspends its process: it has read something sensitive. *)
ConnectSuspends(s) == s.category_flags # {}

(* network_connect *)
NetworkConnect ==
    LET e == Head(queue) IN
    /\ Handling("NetworkConnect")
    /\ \E k \in Live(e.pid) :
         /\ processMap' = [processMap EXCEPT ![k].pending_network_connect = TRUE]
         /\ IF ConnectSuspends(processMap[k])
            THEN BeginSuspension(k, "handler") /\ UNCHANGED alerted
            ELSE UNCHANGED responseVars
    /\ Dequeue
    /\ UNCHANGED <<osVars, childrenMap, purger, pinned, yara, cleanups>>

(* file_write: a write into another vendor's directory is a threat         *)
(* whoever makes it, a persistence path or a runtime socket only when an   *)
(* install does.  The first branch keeps its read guard on the entry, so   *)
(* marking an entry of that shard never returns: the processes are killed, *)
(* entries of other shards may have been marked, nothing is announced.     *)
Unauthorised(k, f) == f \in ProtectedDir /\ <<processMap[k].image, f>> \notin ProtectedWriter

FileWrite ==
    LET e == Head(queue) IN
    /\ Handling("FileWrite")
    /\ \E k \in Live(e.pid) :
         \/ /\ Unauthorised(k, e.file)
            /\ \E marks \in OnePerPid(TreePids(k)) :
                 \/ /\ \E m \in marks : ShardOf[m] = ShardOf[k]
                    /\ sig' = ThreatSignals(k)
                    /\ \E earlier \in SUBSET {m \in marks : ShardOf[m] # ShardOf[k]} :
                          processMap' = Marked(earlier)
                    /\ consumer' = "blocked"
                    /\ pinned' = pinned \cup {ShardOf[k]}
                    /\ UNCHANGED <<alerted, suspended, prompts, stepVars>>
                 \/ /\ \A m \in marks : ShardOf[m] # ShardOf[k]
                    /\ TerminateThreat(k)
                    /\ UNCHANGED pinned
         \/ /\ ~Unauthorised(k, e.file)
            /\ processMap[k].is_install_context
            /\ e.file \in RuntimeSocket \cup PersistencePath
            /\ TerminateThreat(k) /\ UNCHANGED pinned
         \/ /\ ~Unauthorised(k, e.file)
            /\ ~processMap[k].is_install_context \/ e.file \notin RuntimeSocket \cup PersistencePath
            /\ UNCHANGED <<processMap, responseVars, pinned>>
    /\ Dequeue
    /\ UNCHANGED <<osVars, childrenMap, purger, yara, cleanups>>

(* The install context is not asked for.                                   *)
FaultyTerminateInstall(k, threat) ==
    IF threat THEN TerminateThreat(k) ELSE UNCHANGED <<processMap, responseVars>>

(* The handlers that terminate an install process k when `threat` holds.   *)
TerminateInstall(k, threat) ==
    IF processMap[k].is_install_context /\ threat
    THEN TerminateThreat(k)
    ELSE UNCHANGED <<processMap, responseVars>>

(* file_open *)
FileOpen ==
    LET e == Head(queue) IN
    /\ Handling("FileOpen")
    /\ \E k \in Live(e.pid) :
         TerminateInstall(k, e.file \in RuntimeSocket \cup CredentialPath)
    /\ Dequeue
    /\ UNCHANGED <<osVars, childrenMap, purger, pinned, yara, cleanups>>

(* dup2: a socket (read from /proc when the event is handled, or presumed  *)
(* of a process with a connection) duplicated onto a standard stream.      *)
Dup2 ==
    /\ Handling("Dup2")
    /\ \E k \in Live(Head(queue).pid), isSocket, isStdio \in BOOLEAN :
         TerminateInstall(k, isStdio /\ (isSocket \/ processMap[k].pending_network_connect))
    /\ Dequeue
    /\ UNCHANGED <<osVars, childrenMap, purger, pinned, yara, cleanups>>

(* registry_write *)
RegistryWrite ==
    /\ Handling("RegistryWrite")
    /\ \E k \in Live(Head(queue).pid), isPersistence \in BOOLEAN :
         TerminateInstall(k, isPersistence)
    /\ Dequeue
    /\ UNCHANGED <<osVars, childrenMap, purger, pinned, yara, cleanups>>

(* ptrace_attach and memory_protect suspend a process already untrusted.   *)
SuspendUntrusted(k, by) ==
    IF processMap[k].is_untrusted /\ ~AuditMode
    THEN BeginSuspension(k, by) /\ UNCHANGED alerted
    ELSE UNCHANGED responseVars

(* ptrace_attach does it within its iteration over process_map.            *)
PtraceAttach ==
    /\ Handling("PtraceAttach")
    /\ \E k \in Live(Head(queue).pid) :
          SuspendUntrusted(k, IF IterPinsShard THEN "iterator" ELSE "handler")
    /\ Dequeue
    /\ UNCHANGED <<osVars, processMap, childrenMap, purger, pinned, yara, cleanups>>

MemoryProtect ==
    /\ Handling("MemoryProtect")
    /\ \E k \in Live(Head(queue).pid) : SuspendUntrusted(k, "handler")
    /\ Dequeue
    /\ UNCHANGED <<osVars, processMap, childrenMap, purger, pinned, yara, cleanups>>

HandleEvent ==
    \/ Untracked \/ ProcessCreate \/ ProcessStop \/ FileRead \/ NetworkConnect
    \/ FileWrite \/ FileOpen \/ Dup2 \/ RegistryWrite \/ PtraceAttach \/ MemoryProtect

-----------------------------------------------------------------------------
(* The steps of a suspension, on the thread that began it.                 *)

(* The thread waits in output() for its popup.                             *)
InPopup(r) == r \in responses /\ r.step = "popup"

(* The user closes the popup; only then output() returns.                  *)
ClosePopup(r) ==
    /\ InPopup(r)
    /\ responses' = (responses \ {r}) \cup {[r EXCEPT !.step = "stop"]}
    /\ UNCHANGED <<osVars, processMap, childrenMap, queue, purger, pinned, yara, cleanups,
                   sig, alerted, suspended, prompts, consumer, releases>>

(* Stop the tree.                                                          *)
SendStop(r) ==
    /\ r \in responses /\ r.step = "stop"
    /\ sig' = IF AuditMode THEN sig ELSE Signalled(TreePids(r.root), "STOP", "engine")
    /\ responses' = (responses \ {r}) \cup {[r EXCEPT !.step = "announce"]}
    /\ UNCHANGED <<osVars, processMap, childrenMap, queue, purger, pinned, yara, cleanups,
                   alerted, suspended, prompts, consumer, releases>>

(* Announce it, then ask on the desktop when a session is active.          *)
(* tokio::spawn panics when the calling thread has no Tokio context.       *)
Announce(r) ==
    /\ r \in responses /\ r.step = "announce"
    /\ responses' = responses \ {r}
    /\ alerted' = [alerted EXCEPT ![r.root] = Announced]
    /\ \E gui \in Gui :
         LET asks == gui /\ ~AuditMode
             inRuntime == r.by = "scan" \/ ConsumerInRuntime
         IN
         /\ prompts' = IF asks /\ inRuntime THEN [prompts EXCEPT ![r.root] = @ + 1] ELSE prompts
         /\ prompts'[r.root] <= MaxPrompts
         /\ consumer' = IF r.by = "scan" THEN consumer
                        ELSE IF asks /\ ~inRuntime THEN "panicked" ELSE "running"
    /\ queue' = IF consumer' = "panicked" THEN <<>> ELSE queue
    /\ UNCHANGED <<osVars, processMap, childrenMap, purger, pinned, yara, cleanups,
                   sig, suspended, releases>>

-----------------------------------------------------------------------------
(* Asynchronous work.                                                      *)

(* The scan spawned by process_create ends; it runs on the Tokio runtime.  *)
YaraVerdict(k) ==
    /\ k \in yara
    /\ yara' = yara \ {k}
    /\ (BeginSuspension(k, "scan") /\ UNCHANGED alerted) \/ UNCHANGED responseVars
    /\ UNCHANGED <<osVars, processMap, childrenMap, queue, purger, pinned, cleanups>>

(* Shards of process_map whose read guard somebody keeps.                  *)
Held == pinned \cup {ShardOf[r.root] : r \in {q \in responses : q.by = "iterator"}}

(* The tree is resumed and what it did is not forgotten.                   *)
FaultyBeginRelease(k, by) ==
    /\ ShardOf[k] \in pinned \/ \A r \in releases : r.root = k => r.by # by
    /\ sig' = Signalled(TreePids(k), "CONT", "admin")
    /\ releases' = releases \cup {[by |-> by, root |-> k, step |-> "announce"]}

(* The engine resumes the tree of k; the reset of its entry comes next.    *)
(* Bound: one release of each kind at a time of a process, unless it hangs.*)
BeginRelease(k, by) ==
    /\ ShardOf[k] \in pinned \/ \A r \in releases : r.root = k => r.by # by
    /\ sig' = Signalled(TreePids(k), "CONT", "admin")
    /\ releases' = releases \cup {[by |-> by, root |-> k, step |-> "reset"]}

(* The desktop user allows.                                                *)
PromptAllow(k) ==
    /\ prompts[k] > 0
    /\ prompts' = [prompts EXCEPT ![k] = @ - 1]
    /\ BeginRelease(k, "prompt")
    /\ UNCHANGED <<osVars, processMap, childrenMap, queue, purger, pinned, yara, cleanups,
                   alerted, suspended, consumer, responses>>

(* Forget what the process did, if its entry is still there.  get_mut      *)
(* waits while somebody keeps the shard, for ever when it is pinned.  A    *)
(* prompt's answer ends here, without an announcement.                     *)
ResetDetection(r) ==
    /\ r \in releases /\ r.step = "reset" /\ ShardOf[r.root] \notin Held
    /\ IF r.root \in Tracked
       THEN /\ processMap' = [processMap EXCEPT ![r.root] = Reset(@)]
            /\ suspended' = suspended \ {r.root}
       ELSE UNCHANGED <<processMap, suspended>>
    /\ releases' = (releases \ {r}) \cup
           (IF r.by = "command" THEN {[r EXCEPT !.step = "announce"]} ELSE {})
    /\ UNCHANGED <<osVars, childrenMap, queue, purger, pinned, yara, cleanups, sig, alerted,
                   prompts, consumer, responses>>

AnnounceRelease(r) ==
    /\ r \in releases /\ r.step = "announce"
    /\ releases' = releases \ {r}
    /\ alerted' = [alerted EXCEPT ![r.root] = "RELEASED"]
    /\ UNCHANGED <<osVars, processMap, childrenMap, queue, purger, pinned, yara, cleanups,
                   sig, suspended, prompts, consumer, responses>>

(* An answer is acted on that no open dialog gave.                         *)
FaultyPromptDeny(k) ==
    /\ k \in suspended
    /\ prompts' = [prompts EXCEPT ![k] = @ - 1]
    /\ sig' = Signalled(TreePids(k), "KILL", "admin")
    /\ UNCHANGED <<osVars, processMap, childrenMap, queue, purger, pinned, yara, cleanups,
                   alerted, suspended, consumer, stepVars>>

(* The desktop user denies: kill the tree.                                 *)
PromptDeny(k) ==
    /\ prompts[k] > 0
    /\ prompts' = [prompts EXCEPT ![k] = @ - 1]
    /\ sig' = Signalled(TreePids(k), "KILL", "admin")
    /\ UNCHANGED <<osVars, processMap, childrenMap, queue, purger, pinned, yara, cleanups,
                   alerted, suspended, consumer, stepVars>>

(* No dialog tool, or no session any more: nobody is asked, and the tree   *)
(* is killed all the same.                                                 *)
PromptUnanswered(k) ==
    /\ prompts[k] > 0
    /\ prompts' = [prompts EXCEPT ![k] = @ - 1]
    /\ sig' = Signalled(TreePids(k), "KILL", "engine")
    /\ UNCHANGED <<osVars, processMap, childrenMap, queue, purger, pinned, yara, cleanups,
                   alerted, suspended, consumer, stepVars>>

(* Two seconds after an install ended: mark and kill what is still live of *)
(* its tree, one entry after the other, then mark the install itself.  The *)
(* task hangs at the first entry whose shard is pinned, and waits for one  *)
(* that is kept.  Its alerts bypass write_structured_alert.                *)
CleanupInstall(k) ==
    /\ k \in cleanups
    /\ cleanups' = cleanups \ {k}
    /\ \E orphans \in OnePerPid(DescendantPids(k)) : \E done \in SUBSET orphans :
         LET hangs == \E m \in orphans \cup {k} : ShardOf[m] \in pinned IN
         /\ \A m \in orphans \cup {k} : ShardOf[m] \in Held => ShardOf[m] \in pinned
         /\ \A m \in done : ShardOf[m] \notin pinned
         /\ hangs \/ done = orphans
         /\ processMap' = Marked((IF hangs THEN done ELSE done \cup {k}) \cap Tracked)
         /\ sig' = IF AuditMode THEN sig
                   ELSE Signalled({m.pid : m \in done}, "KILL", "engine")
    /\ UNCHANGED <<osVars, childrenMap, queue, purger, pinned, yara, alerted, suspended,
                   prompts, consumer, stepVars>>

(* An entry without a deadline counts as expired.                          *)
FaultyExpirable(k) == processMap[k] # NoEntry

(* purge_expired_states, every 5 s: evict the entries whose deadline is    *)
(* over (any of those that have one).  retain() locks shard after shard    *)
(* does not get past one that is kept, and never past one that is pinned.  *)
Expirable(k) == processMap[k] # NoEntry /\ processMap[k].ttl_deadline

Purge ==
    /\ purger = "running"
    /\ \E expired \in SUBSET {k \in ProcessKey : Expirable(k) /\ \A s \in Held : ShardOf[k] < s} :
         processMap' = [k \in ProcessKey |-> IF k \in expired THEN NoEntry ELSE processMap[k]]
    /\ purger' = IF pinned = {} THEN "running" ELSE "blocked"
    /\ UNCHANGED <<osVars, childrenMap, queue, pinned, yara, cleanups, responseVars>>

-----------------------------------------------------------------------------
(* The administrator's commands (control.rs).                              *)

(* ReleaseContainment, AllowProcessTree: release_process_tree.             *)
ReleaseProcessTree(p) ==
    /\ "Release" \in Commands
    /\ \E k \in Live(p) : BeginRelease(k, "command")
    /\ UNCHANGED <<osVars, processMap, childrenMap, queue, purger, pinned, yara, cleanups,
                   alerted, suspended, prompts, consumer, responses>>

(* KillProcessTree, DenyProcessTree: the entries stay as they are.         *)
KillProcessTree(p) ==
    /\ "Kill" \in Commands
    /\ \E k \in Live(p) :
         /\ sig' = Signalled(TreePids(k), "KILL", "admin")
         /\ alerted' = [alerted EXCEPT ![k] = "TERMINATED"]
    /\ UNCHANGED <<osVars, processMap, childrenMap, queue, purger, pinned, yara, cleanups,
                   suspended, prompts, consumer, stepVars>>

(* TrustOnce: the first entry of the pid, terminated or not, is trusted.   *)
(* iter_mut() locks shard after shard and waits before one that is kept.   *)
TrustOnce(p) ==
    /\ "TrustOnce" \in Commands
    /\ \E k \in Tracked :
         /\ k.pid = p /\ \A s \in Held : ShardOf[k] < s
         /\ processMap' = [processMap EXCEPT ![k] = [Reset(@) EXCEPT !.is_untrusted = FALSE]]
         /\ suspended' = suspended \ {k}
    /\ UNCHANGED <<osVars, childrenMap, queue, purger, pinned, yara, cleanups, sig, alerted,
                   prompts, consumer, stepVars>>

-----------------------------------------------------------------------------
Init ==
    /\ processMap = [k \in ProcessKey |-> NoEntry]
    /\ childrenMap = [k \in ProcessKey |-> {}]
    /\ queue = <<>>
    /\ consumer = "running" /\ purger = "running"
    /\ pinned = {} /\ yara = {} /\ cleanups = {}
    /\ responses = {} /\ releases = {}
    /\ prompts = [k \in ProcessKey |-> 0]
    /\ clock = 1
    /\ holder = [p \in Pid |-> IF p \in Boot THEN 1 ELSE 0]
    /\ sig = [k \in ProcessKey |-> [op |-> "none", by |-> "none"]]
    /\ alerted = [k \in ProcessKey |-> "none"]
    /\ suspended = {}

System ==
    \/ \E p \in Pid, c \in Pid, i \in Image, q \in Pid : (q = p \/ q \in Spoof) /\ Fork(p, c, i, q)
    \/ \E p \in Pid : Exit(p) \/ Act(p)

(* The threads inside a response or a release, one step of one of them.    *)
Continue ==
    \/ \E r \in responses : ClosePopup(r) \/ SendStop(r) \/ Announce(r)
    \/ \E r \in releases : ResetDetection(r) \/ AnnounceRelease(r)

Background ==
    \/ \E k \in ProcessKey : YaraVerdict(k) \/ PromptAllow(k) \/ PromptDeny(k)
                              \/ PromptUnanswered(k) \/ CleanupInstall(k)
    \/ Purge
    \/ Continue

Administrator ==
    \E p \in Pid : ReleaseProcessTree(p) \/ KillProcessTree(p) \/ TrustOnce(p)

Next == System \/ HandleEvent \/ Background \/ Administrator

Spec == Init /\ [][Next]_vars

(* The threads and tasks the agent runs are scheduled: the consumer takes  *)
(* the next event and goes through its response, scans and clean-ups end,  *)
(* and an entry whose deadline is over is met by a later purge.  Nobody    *)
(* promises that a user answers a prompt or closes a popup.                *)
Evict(k) == Purge /\ Expirable(k) /\ processMap'[k] = NoEntry

Fairness ==
    /\ WF_vars(HandleEvent)
    /\ \A r \in Suspension : WF_vars(SendStop(r)) /\ WF_vars(Announce(r))
    /\ \A k \in ProcessKey : WF_vars(YaraVerdict(k)) /\ WF_vars(CleanupInstall(k)) /\ WF_vars(Evict(k))

LiveSpec == Spec /\ Fairness

-----------------------------------------------------------------------------
(* Properties.                                                             *)

TypeOK ==
    /\ processMap \in [ProcessKey -> ProcessState \cup {NoEntry}]
    /\ childrenMap \in [ProcessKey -> SUBSET ProcessKey]
    /\ queue \in Seq(Event)
    /\ consumer \in {"running", "responding", "blocked", "panicked"}
    /\ purger \in {"running", "blocked"}
    /\ pinned \subseteq Nat
    /\ yara \subseteq ProcessKey /\ cleanups \subseteq ProcessKey
    /\ suspended \subseteq ProcessKey
    /\ responses \subseteq Suspension /\ releases \subseteq Release
    /\ prompts \in [ProcessKey -> Nat]
    /\ clock \in Time /\ holder \in [Pid -> Time]
    /\ sig \in [ProcessKey -> Signal]
    /\ alerted \in [ProcessKey -> Response]

(* A live process that has both read something sensitive and connected out *)
(* has been suspended, in whichever order the two events came and whatever *)
(* releases, trusts and prompt answers came between them: the forward path *)
(* of network_connect and the reverse path of file_read cover each other.  *)
Suspicious(s) == ~s.terminated /\ s.category_flags # {} /\ s.pending_network_connect

DetectionReported == \A k \in Tracked : Suspicious(processMap[k]) => k \in suspended

(* A suspension holds until somebody decides: a process whose suspension   *)
(* was begun and that no decision has cleared since runs only before the   *)
(* stop of some suspension of it is sent, or after a release or a prompt's *)
(* answer has resumed it and before it has cleared it.  No event, scan,    *)
(* clean-up, purge, trust or decision about another process resumes it,    *)
(* whichever steps of them interleave.                                     *)
StopToCome(k) == \E r \in responses : r.root = k /\ r.step \in {"popup", "stop"}

BeingReleased(k) == \E r \in releases : r.root = k /\ r.step = "reset"

ContainmentEnforced ==
    ~AuditMode => \A k \in suspended : Runs(k) => StopToCome(k) \/ BeingReleased(k)

(* An entry marked terminated stands for a process that is gone: neither a *)
(* late stop event, nor a threat's termination, nor an install's clean-up  *)
(* marks a process that still runs.                                        *)
TerminatedMeansGone ==
    \A k \in Tracked : processMap[k].terminated => Gone(k)

(* The purge forgets no process that still runs, with what it did.         *)
EvictsOnlyFinished ==
    [][\A k \in Tracked : processMap'[k] = NoEntry => Gone(k)]_vars

(* What a process starts while it is an install is an install, whichever   *)
(* parent the child claims.                                                *)
InstallContextInherited ==
    \A k \in Tracked :
        LET q == processMap[k].creator IN
        /\ q \in Tracked /\ ~processMap[q].terminated
        /\ processMap[q].is_install_context
        => processMap[k].is_install_context

(* In audit mode the engine itself never signals a process: only answers   *)
(* and commands of an administrator do.                                    *)
AuditSendsNoSignal ==
    AuditMode => \A k \in ProcessKey : sig[k].by # "engine"

(* The rules that kill reach only what they are about: a process in an     *)
(* install context or one that may not write a protected directory, never  *)
(* a bystander and never a process older than the agent.                   *)
Offender(s) ==
    \/ s.is_install_context
    \/ \E f \in ProtectedDir : <<s.image, f>> \notin ProtectedWriter

OnlyOffendersKilled ==
    \A k \in ProcessKey :
        sig[k] = [op |-> "KILL", by |-> "engine"] =>
            k.start_time > 1 /\ (k \in Tracked => Offender(processMap[k]))

(* A process the engine holds stopped can be found by the commands that    *)
(* release it: its entry is there and not marked terminated.               *)
StoppedIsReleasable ==
    \A k \in ProcessKey : Alive(k) /\ sig[k].op = "STOP" => k \in Live(k.pid)

(* What an event changes is the entry of the process that caused it, even  *)
(* when its pid has been used before: lookups go by pid alone.             *)
ChargedToActor ==
    [][ Len(queue') < Len(queue) /\ Head(queue).type \notin {"ProcessCreate", "ProcessStop"}
        => \A k \in ProcessKey : processMap'[k] # processMap[k] => k = Head(queue).actor ]_vars

(* What the engine remembers of a process, as the case CaseFile speaks of: *)
(* its stage, what it records, and the processes that will not run again.  *)
Created(e) == [pid |-> e.child_pid, start_time |-> e.timestamp]

Awaited(k) ==
    \/ k.start_time > clock
    \/ \E n \in DOMAIN queue : queue[n].type = "ProcessCreate" /\ Created(queue[n]) = k

Stage(k) ==
    IF k \in Tracked
    THEN IF processMap[k].terminated THEN "closed" ELSE "open"
    ELSE IF Awaited(k) THEN "unseen" ELSE "dropped"

Evidence(k) ==
    {w \in {"read", "connected"} :
        /\ k \in Tracked
        /\ w = "read" => processMap[k].category_flags # {}
        /\ w = "connected" => processMap[k].pending_network_connect}

Over == {k \in ProcessKey : k.start_time <= clock /\ Gone(k)}

Cases == INSTANCE CaseFile
    WITH Process <- ProcessKey, stage <- [k \in ProcessKey |-> Stage(k)],
         evidence <- [k \in ProcessKey |-> Evidence(k)], answered <- suspended, over <- Over

(* Refinement.  Handlers, scans, prompts, purges and commands interleave   *)
(* on the maps of heuristics.rs and keep what CaseFile promises: a process *)
(* is tracked at most once, and until it is over; what it did is forgotten *)
(* for it alone, all of it and together with its suspension, by a release, *)
(* a trust or a prompt's answer; reading and connecting never meet in its  *)
(* entry without a suspension.                                             *)
CasesKept == Cases!Spec

(* suspend_process_tree: "Recursively suspends the entire process tree     *)
(* using SIGSTOP" - the tracked children of the process suspended included.*)
TreeSuspended ==
    [][ \A r \in responses \ responses' : \A c \in Tracked :
          r.step = "stop" /\ ~AuditMode /\ processMap[c].creator = r.root => ~Runs(c)' ]_vars

(* release_process_tree: "Reset the threat detection state for the process *)
(* tree to allow normal execution" - a process announced as released, and  *)
(* not suspended again since its reset, is not stopped by the engine.      *)
ReleasedRuns ==
    \A k \in ProcessKey :
        alerted[k] = "RELEASED" /\ k \notin suspended => sig[k] # [op |-> "STOP", by |-> "engine"]

(* "Each entry specifies the threat event and containment resolution"      *)
(* (src/README.md 73): a live process last announced CONTAINED, and with   *)
(* no release of it under way, does not run.                               *)
ContainedIsStopped ==
    \A k \in Tracked :
        /\ alerted[k] = "CONTAINED" /\ ~processMap[k].terminated
        /\ \A r \in releases : r.root # k
        => ~Runs(k)

(* What the liveness properties take of the user: the consumer thread is   *)
(* not left waiting in a popup for ever.                                   *)
PopupsClosed == []<>(\A r \in responses : InPopup(r) => r.by = "scan")

(* The state of a process that has ended is eventually evicted.            *)
FinishedStatesCleaned ==
    PopupsClosed => \A k \in ProcessKey : (k \in Tracked /\ ~Alive(k)) ~> (k \notin Tracked)

(* A read no vendor rule authorises, by a process that is tracked by the   *)
(* time it is handled, is eventually answered by a SIGSTOP, unless the     *)
(* process has gone meanwhile.                                             *)
UnauthorisedRead(k, e) ==
    /\ e.type = "FileRead" /\ e.actor = k /\ CategoryOf[e.file] # {}
    /\ k \in Tracked /\ <<processMap[k].image, e.file>> \notin Owner

UnauthorisedReadAnswered ==
    PopupsClosed => \A k \in ProcessKey :
        (~AuditMode /\ \E n \in DOMAIN queue : UnauthorisedRead(k, queue[n]))
            ~> (sig[k].op = "STOP" \/ Gone(k))
=============================================================================
