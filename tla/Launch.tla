-------------------------------- MODULE Launch --------------------------------
(***************************************************************************)
(* The start of a process (process_create, src/src/heuristics.rs 161-451): *)
(* the handler decides whether it is untrusted, has its program scanned if *)
(* so (YaraCache) and tries the Sigma rules (SigmaRules).  Between the     *)
(* start and the handler, and between its steps, the process may end, the  *)
(* program be changed and the rules database be replaced: the handler      *)
(* takes the rules' lock anew for each of its first questions, and asks    *)
(* /proc what the pid's process looks like now.                            *)
(*                                                                         *)
(* Every program counts as signed by "Google LLC" (249-253).               *)
(***************************************************************************)
EXTENDS YaraCache, SigmaRules

CONSTANTS
    FactsOf,        \* launch -> what may be launched, see Facts
    Platforms,      \* the builds considered, of "unix" and "windows"
    ExcludedBy,     \* rules version 0 or 1 -> places that are excluded
    VendorTrusted,  \* rules version -> is "Google LLC" a trusted vendor?
    Rules,          \* of the Sigma engine
    FieldsOf(_)     \* facts -> fields of the event

Pid == Scan
Nobody == "nobody"

(* where the program lies: "volatile" is /tmp or /dev/shm; "memory" is no  *)
(* path, memfd:... or /proc/self/fd/N, by which the agent finds no file;   *)
(* "descriptor" is /proc/<pid>/fd/N, by which it may find one; redirected: *)
(* a monitored program on another display (unix), a browser with its       *)
(* profile elsewhere (Windows); orphan: the parent has ended when the      *)
(* event is handled.                                                       *)
Facts == [where : {"volatile", "memory", "descriptor", "usual"}, redirected : BOOLEAN,
          program : {"other", "interpreter", "shell"}, inline : BOOLEAN,
          tty : BOOLEAN, spoofed : BOOLEAN, orphan : BOOLEAN]

ASSUME LaunchAssumption ==
    /\ FactsOf \in [Pid -> SUBSET Facts]
    /\ Platforms \subseteq {"unix", "windows"} /\ Nobody \notin Pid
    /\ DOMAIN ExcludedBy = 0..1 /\ VendorTrusted \in [0..1 -> BOOLEAN]
    /\ Rules \in Seq([category : STRING, condition : Condition])
    /\ \A f \in Facts : FieldsOf(f) \in Event

VARIABLES
    platform,
    facts,       \* process -> what was launched
    image,       \* process -> the program's content then, None before
    pending,     \* the events of launches not handled yet
    ended,       \* processes that have ended; their pid may be in use again
    version,     \* of the rules in force
    at, step,    \* the launch the handler is at, and its next question
    untrusted,   \* is_untrusted, the handler's local variable
    state,       \* process -> its state in the map, or Absent
    stopped,     \* processes that were sent a signal
    ghosts,      \* processes announced as anonymous_exec
    disturbed,   \* history: handled while the rules or the process went
    changed      \* history: programs changed between launch and verdict

handlerVars == <<at, step, untrusted>>
osVars == <<platform, facts, image, ended>>
vars == <<yaraVars, osVars, pending, version, handlerVars, state, stopped, ghosts,
          disturbed, changed>>

Absent == [untrusted |-> FALSE, nakedTty |-> FALSE, sigma |-> 0, present |-> FALSE]
State == [untrusted : BOOLEAN, nakedTty : BOOLEAN, sigma : 0..Len(Rules), present : BOOLEAN]

TypeOK ==
    /\ YaraTypeOK
    /\ platform \in Platforms /\ facts \in [Pid -> Facts]
    /\ image \in [Pid -> Content \cup {None}] /\ ended \in SUBSET Pid
    /\ pending \in Seq(Pid) /\ version \in 0..1
    /\ at \in Pid \cup {Nobody}
    /\ step \in {"none", "excluded", "vendor", "display", "rest"}
    /\ (at = Nobody) = (step = "none")
    /\ state \in [Pid -> State]
    /\ \A p \in Pid : scan[p].pc # "none" => state[p].present
    /\ untrusted \in BOOLEAN /\ stopped \in SUBSET Pid /\ ghosts \in SUBSET Pid
    /\ disturbed \in SUBSET Pid /\ changed \in SUBSET Pid

Init ==
    /\ YaraInit
    /\ platform \in Platforms
    /\ facts \in {f \in [Pid -> Facts] : \A p \in Pid : f[p] \in FactsOf[p]}
    /\ image = [p \in Pid |-> None] /\ pending = <<>> /\ ended = {} /\ version = 0
    /\ at = Nobody /\ step = "none" /\ untrusted = FALSE
    /\ state = [p \in Pid |-> Absent]
    /\ stopped = {} /\ ghosts = {} /\ disturbed = {} /\ changed = {}

-----------------------------------------------------------------------------
(* Around the handler.                                                     *)
InMemory(p) == facts[p].where = "memory"

Start(p) ==
    /\ image[p] = None
    /\ \E c \in (IF InMemory(p) THEN Content ELSE {content} \ {None}) :
           image' = [image EXCEPT ![p] = c]
    /\ pending' = Append(pending, p)
    /\ UNCHANGED <<yaraVars, platform, facts, ended, version, handlerVars, state, stopped,
                   ghosts, disturbed, changed>>

Handled(p) == state[p].present \/ p \in stopped

End(p) ==
    /\ image[p] # None /\ p \notin ended
    /\ ended' = ended \cup {p}
    /\ disturbed' = IF Handled(p) THEN disturbed ELSE disturbed \cup {p}
    /\ UNCHANGED <<yaraVars, platform, facts, image, pending, version, handlerVars, state,
                   stopped, ghosts, changed>>

(* A reload (RulesReload); the last step holds the lock to its end.        *)
SwapRules ==
    /\ version = 0 /\ version' = 1
    /\ disturbed' = IF at = Nobody THEN disturbed ELSE disturbed \cup {at}
    /\ UNCHANGED <<yaraVars, osVars, pending, handlerVars, state, stopped, ghosts, changed>>

ChangeProgram ==
    /\ \E c \in Content \cup {None} : Edit(c)
    /\ changed' = changed \cup {p \in Pid : /\ image[p] # None /\ ~InMemory(p)
                                            /\ scan[p].pc \notin {"clean", "malicious"}}
    /\ UNCHANGED <<osVars, pending, version, handlerVars, state, stopped, ghosts, disturbed>>

-----------------------------------------------------------------------------
(* The handler.                                                            *)
Now == facts[at]

(* What /proc/<pid> shows of process p, the truth being b.                 *)
Seen(p, b) == IF p \in ended THEN BOOLEAN ELSE {b}

Ask(s, u) ==
    /\ step' = s /\ untrusted' = u
    /\ UNCHANGED <<yaraVars, osVars, version, state, disturbed, changed>>

(* unix: a volatile place, or no file at all, which is announced.          *)
(* Windows: a redirected browser is killed at once, and never enters the   *)
(* map; an interpreter given its program inline is demoted.                *)
BeginLaunch ==
    /\ at = Nobody /\ pending # <<>>
    /\ pending' = Tail(pending)
    /\ LET p == Head(pending) IN
       IF platform = "windows" /\ facts[p].redirected
       THEN /\ stopped' = stopped \cup {p} /\ UNCHANGED <<at, ghosts>>
            /\ Ask("none", FALSE)
       ELSE /\ at' = p /\ UNCHANGED stopped
            /\ ghosts' = IF platform = "unix" /\ facts[p].where \in {"memory", "descriptor"}
                         THEN ghosts \cup {p} ELSE ghosts
            /\ Ask("excluded", IF platform = "unix" THEN facts[p].where # "usual"
                                 ELSE facts[p].program = "interpreter" /\ facts[p].inline)

CheckExcluded ==
    /\ step = "excluded"
    /\ Ask("vendor", untrusted /\ Now.where \notin ExcludedBy[version])
    /\ UNCHANGED <<at, pending, stopped, ghosts>>

CheckVendor ==
    /\ step = "vendor"
    /\ Ask("display", untrusted /\ ~VendorTrusted[version])
    /\ UNCHANGED <<at, pending, stopped, ghosts>>

(* The answer to this question takes the place of the earlier ones.        *)
FaultyCheckDisplay ==
    /\ step = "display"
    /\ \E r \in Seen(at, Now.redirected) : Ask("rest", platform = "unix" /\ r)
    /\ UNCHANGED <<at, pending, stopped, ghosts>>

(* The display in the process's environment against the session's.         *)
CheckDisplay ==
    /\ step = "display"
    /\ \E r \in Seen(at, Now.redirected) :
           Ask("rest", untrusted \/ (platform = "unix" /\ r))
    /\ UNCHANGED <<at, pending, stopped, ghosts>>

(* Where standard input leads; on Windows nothing shows it.                *)
Terminal(p, tty) == platform = "unix" /\ tty

Piped(f, tty) == f.program # "other" /\ (f.inline \/ ~tty)

(* The state that enters the map, for what was seen.                       *)
StateFor(tty) ==
    [present |-> TRUE,
     untrusted |-> untrusted \/ Piped(Now, tty) \/ Now.spoofed,
     nakedTty |-> Now.program = "shell" /\ tty /\ ~Now.inline,
     sigma |-> Evaluate(Rules, "process_creation", FieldsOf(Now))]

(* A process that lies about its parent is not scanned for that alone.     *)
Scanned(tty) == untrusted \/ Piped(Now, tty)

FinishWith(scanned, tty) ==
    LET s == StateFor(tty) IN
    /\ state' = [state EXCEPT ![at] = s]
    /\ stopped' = IF s.sigma # 0 THEN stopped \cup {at} ELSE stopped
    /\ IF scanned THEN Begin(at) ELSE UNCHANGED yaraVars
    /\ at' = Nobody /\ step' = "none" /\ untrusted' = FALSE
    /\ UNCHANGED <<osVars, pending, version, ghosts, disturbed, changed>>

(* Only a volatile place has a program scanned.                            *)
FaultyFinish ==
    /\ step = "rest"
    /\ \E b \in Seen(at, Now.tty) :
           FinishWith(untrusted, Terminal(at, b))

(* Interpreters and shells, the parent, the map, the scan, Sigma.          *)
Finish ==
    /\ step = "rest"
    /\ \E b \in Seen(at, Now.tty) :
           FinishWith(Scanned(Terminal(at, b)), Terminal(at, b))

-----------------------------------------------------------------------------
(* The scan of a process's program, and what a match does.  For a program  *)
(* in memory there is no file to take the hash of.                         *)
ScanStep(p) ==
    /\ IF InMemory(p) /\ RulesLoaded THEN HashFails(p) ELSE Scanning(p)
    /\ UNCHANGED <<osVars, pending, version, handlerVars, state, stopped, ghosts,
                   disturbed, changed>>

StopScanned(p) ==
    /\ scan[p].pc = "malicious" /\ p \notin stopped
    /\ stopped' = stopped \cup {p}
    /\ UNCHANGED <<yaraVars, osVars, pending, version, handlerVars, state, ghosts,
                   disturbed, changed>>

Next ==
    \/ \E p \in Pid : Start(p) \/ End(p) \/ ScanStep(p) \/ StopScanned(p)
    \/ SwapRules \/ ChangeProgram
    \/ BeginLaunch \/ CheckExcluded \/ CheckVendor \/ CheckDisplay \/ Finish

Spec == Init /\ [][Next]_vars

-----------------------------------------------------------------------------
(* What makes a launch untrusted under rules v, parent aside: the order of *)
(* the handler's questions, by which an exclusion or a vendor overrides    *)
(* the place and is overridden by what follows, comes to this.             *)
Suspect(f, v) ==
    \/ platform = "unix" /\ f.redirected
    \/ Piped(f, platform = "unix" /\ f.tty)
    \/ /\ platform = "unix" /\ f.where # "usual"
       /\ f.where \notin ExcludedBy[v] /\ ~VendorTrusted[v]

(* Safety.  A launch is classified by what was launched and by one version *)
(* of the rules, unless a reload fell between the handler's questions or   *)
(* the process had ended before they were asked (heuristics.rs 176-407).   *)
ClassifiedAsLaunched ==
    \A p \in Pid : state[p].present /\ p \notin disturbed =>
        \E v \in 0..version : state[p].untrusted = (Suspect(facts[p], v) \/ facts[p].spoofed)

(* Safety.  A suspect process whose program a YARA rule matches is not     *)
(* passed as clean, except when its file was changed meanwhile, is too     *)
(* large, had no hash (as a program in memory never has), could not be     *)
(* scanned in time, or when a change during some earlier scan has spoilt   *)
(* the verdict cached for it (heuristics.rs 419-431, yara_scanner.rs       *)
(* 50-101).                                                                *)
MalwareIsNotCleared ==
    \A p \in Pid :
        /\ state[p].present /\ image[p] \in Malicious \ Large /\ RulesLoaded
        /\ ~InMemory(p) /\ p \notin disturbed \cup changed \cup hindered
        /\ \A v \in 0..version : Suspect(facts[p], v)
        => scan[p].pc \notin {"none", "clean"} \/ image[p] \in tainted

(* Safety.  Sigma stops a process on account of the first rule for its     *)
(* category of whose condition one of the alternatives is met in full, and *)
(* lets it alone only if there is none (sigma_engine.rs 58-84,             *)
(* heuristics.rs 435-451).                                                 *)
SigmaDecides ==
    \A p \in Pid : state[p].present =>
        LET met == {i \in DOMAIN Rules :
                       Satisfied(Rules[i], "process_creation", FieldsOf(facts[p]))}
        IN  IF met = {} THEN state[p].sigma = 0
            ELSE /\ state[p].sigma \in met /\ \A i \in met : state[p].sigma <= i
                 /\ p \in stopped

(* "all downstream heuristics treat this process with maximum suspicion"   *)
(* (src/src/heuristics.rs 394).                                            *)
SpoofersAreScanned ==
    \A p \in Pid : state[p].present /\ facts[p].spoofed => scan[p].pc # "none"
=============================================================================
