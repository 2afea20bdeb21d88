------------------------- MODULE ContainmentProofs -------------------------
(***************************************************************************)
(* What a suspension is worth: a process the engine stopped can be found   *)
(* by the commands that release it (StoppedIsReleasable), and one whose    *)
(* suspension was begun does not run, but before the stop and during a     *)
(* release (ContainmentEnforced).  Signals go to a pid, so both hold as    *)
(* long as the kernel has not handed a pid out twice; that is the          *)
(* assumption PidReuse = FALSE of the first theorems.                      *)
(* The last one needs it not: Heuristics implements CaseFile (CasesKept),  *)
(* whose cases are kept by process and not by pid.                         *)
(***************************************************************************)
EXTENDS InstallProofs

USE DEF Time, responseVars, stepVars, osVars, engineVars

-----------------------------------------------------------------------------
(* Whose pid it is.                                                        *)

(* k started after the agent, and nobody else has or had its pid since.    *)
OwnPid(k) ==
    /\ k.pid = k.start_time /\ k.start_time > 1 /\ k.start_time <= clock
    /\ holder[k.pid] \in {0, k.start_time}

(* The system emits an event and touches nothing of the engine's.          *)
LEMMA OsEvent ==
    ASSUME TypeOK, System
    PROVE  /\ UNCHANGED engineVars /\ clock <= clock' /\ NoRevival
           /\ \E e \in Event : Emit(e) /\ (e.type = "ProcessCreate" => e.timestamp = clock + 1)
<1>1. clock \in Nat /\ \A p \in Pid : Current(p) \in ProcessKey
    BY ConfigAssumption DEF Current, ProcessKey, TypeOK
<1>2. \A k \in ProcessKey : k.pid \in Pid /\ k.start_time \in Nat
    BY ConfigAssumption DEF ProcessKey
<1>3. ASSUME NEW p \in Pid, NEW c \in Pid, NEW i \in Image, NEW q \in Pid, Fork(p, c, i, q)
      PROVE  /\ UNCHANGED engineVars /\ clock <= clock' /\ NoRevival
             /\ \E e \in Event : Emit(e) /\ (e.type = "ProcessCreate" => e.timestamp = clock + 1)
    <2> DEFINE e == [type |-> "ProcessCreate", pid |-> q, child_pid |-> c,
                     real_parent_pid |-> p, timestamp |-> clock + 1, image |-> i,
                     actor |-> Current(p)]
    <2>1. clock + 1 \in Time \ {0}
        BY <1>1, <1>3, ConfigAssumption DEF Fork
    <2>2. e \in Event /\ e.timestamp = clock + 1
        BY <1>1, <2>1 DEF Event, CreateEvent
    <2>3. /\ Emit(e) /\ UNCHANGED engineVars /\ clock' = clock + 1
          /\ holder' = [holder EXCEPT ![c] = clock + 1]
        BY <1>3 DEF Fork
    <2>4. NoRevival
        <3>1. \A x \in Pid : holder'[x] = holder[x] \/ holder'[x] = clock + 1
            BY <2>3 DEF TypeOK
        <3> HIDE DEF e
        <3>2. \A k \in ProcessKey : k.start_time <= clock => k.start_time # clock + 1
            BY <1>1, <1>2
        <3> QED BY <1>2, <3>1, <3>2 DEF NoRevival, Alive
    <2>5. clock <= clock'
        BY <1>1, <2>3
    <2> QED BY <2>2, <2>3, <2>4, <2>5
<1>4. ASSUME NEW p \in Pid, Exit(p)
      PROVE  /\ UNCHANGED engineVars /\ clock <= clock' /\ NoRevival
             /\ \E e \in Event : Emit(e) /\ (e.type = "ProcessCreate" => e.timestamp = clock + 1)
    <2> DEFINE e == [type |-> "ProcessStop", pid |-> p, actor |-> Current(p)]
    <2>1. e \in Event /\ e.type = "ProcessStop"
        BY <1>1 DEF Event, PlainEvent, PlainEventType
    <2>2. Emit(e) /\ UNCHANGED engineVars /\ clock' = clock /\ holder' = [holder EXCEPT ![p] = 0]
        BY <1>4 DEF Exit
    <2>3. NoRevival
        BY <1>2, <2>2 DEF NoRevival, Alive, TypeOK
    <2> QED BY <1>1, <2>1, <2>2, <2>3
<1>5. ASSUME NEW p \in Pid, Act(p)
      PROVE  /\ UNCHANGED engineVars /\ clock <= clock' /\ NoRevival
             /\ \E e \in Event : Emit(e) /\ (e.type = "ProcessCreate" => e.timestamp = clock + 1)
    <2>1. UNCHANGED <<clock, holder>> /\ UNCHANGED engineVars
        BY <1>5 DEF Act
    <2>2. NoRevival
        BY <2>1 DEF NoRevival, Alive
    <2>3. PICK e \in Event : Emit(e) /\ e.type # "ProcessCreate"
        BY <1>5, ActEmits
    <2> QED BY <1>1, <2>1, <2>2, <2>3
<1> QED BY <1>3, <1>4, <1>5 DEF System

(* The processes that an entry, a scan, a clean-up, a prompt or a response *)
(* under way stands for.                                                   *)
Watched ==
    Tracked \cup yara \cup cleanups \cup {k \in ProcessKey : prompts[k] > 0}
        \cup {r.root : r \in responses}

(* The trees the engine knows are roots alone; every process watched, or   *)
(* to be created by an event in the queue, has its pid to itself.          *)
PidInv ==
    /\ clock >= 1
    /\ \A k \in ProcessKey : k.start_time # 0 => childrenMap[k] = {}
    /\ \A k \in Watched : OwnPid(k)
    /\ \A n \in DOMAIN queue : Creation(n) => OwnPid(Created(queue[n]))

(* Every step of the agent but a process creation is such a step.          *)
Narrows ==
    /\ UNCHANGED <<clock, holder, childrenMap>>
    /\ Watched' \subseteq Watched
    /\ queue' = queue \/ queue' = <<>> \/ (queue # <<>> /\ queue' = Tail(queue))

LEMMA NarrowsKeepsPids == ASSUME TypeOK, PidInv, Narrows PROVE PidInv'
<1>1. \A n \in DOMAIN queue' : \E j \in DOMAIN queue : queue'[n] = queue[j]
    BY QueueShrinksOne DEF Narrows
<1>2. \A n \in DOMAIN queue' : Creation(n)' => OwnPid(Created(queue'[n]))
    BY <1>1 DEF PidInv, Creation
<1>3. \A k \in Watched' : OwnPid(k)
    BY DEF Narrows, PidInv
<1>4. \A k : OwnPid(k)' <=> OwnPid(k)
    BY DEF Narrows, OwnPid
<1>5. \A n \in DOMAIN queue' : Creation(n)' => OwnPid(Created(queue[n]))'
    BY <1>2, <1>4 DEF Created
<1> QED BY <1>2, <1>3, <1>4 DEF Narrows, PidInv, Creation, Created, OwnPid

(* Whom a handler suspends.                                                *)
LEMMA WhoIsSuspended ==
    ASSUME TypeOK, HandleEvent, ~ProcessCreate
    PROVE  /\ UNCHANGED <<yara, prompts, releases>>
           /\ \/ UNCHANGED <<responses, suspended>>
              \/ \E k \in Live(Head(queue).pid) : \E by : BeginSuspension(k, by)
<1>1. CASE Untracked \/ ProcessStop
    BY <1>1 DEF Untracked, ProcessStop
<1>2. CASE FileRead \/ NetworkConnect
    BY <1>2 DEF FileRead, NetworkConnect, BeginSuspension
<1>3. CASE PtraceAttach \/ MemoryProtect
    BY <1>3 DEF PtraceAttach, MemoryProtect, SuspendUntrusted, BeginSuspension
<1>4. CASE FileWrite
    BY <1>4 DEF FileWrite, TerminateThreat
<1>5. CASE FileOpen \/ Dup2 \/ RegistryWrite
    BY <1>5 DEF FileOpen, Dup2, RegistryWrite, TerminateInstall, TerminateThreat
<1> QED BY <1>1, <1>2, <1>3, <1>4, <1>5 DEF HandleEvent

LEMMA BeginsWith ==
    ASSUME NEW k, NEW by, BeginSuspension(k, by)
    PROVE  /\ {r.root : r \in responses'} = {r.root : r \in responses} \cup {k}
           /\ suspended' = suspended \cup {k} /\ UNCHANGED <<sig, prompts, releases>>
<1>1. PICK s : responses' = responses \cup {[by |-> by, root |-> k, step |-> s]}
    BY DEF BeginSuspension
<1>2. [by |-> by, root |-> k, step |-> s].root = k
    OBVIOUS
<1>3. {r.root : r \in responses'} = {r.root : r \in responses} \cup {k}
    BY <1>1, <1>2
<1> QED BY <1>3 DEF BeginSuspension

(* What a response or a release that goes on leaves alone.                 *)
LEMMA ContinuesWith ==
    ASSUME TypeOK, Continue
    PROVE  /\ UNCHANGED <<childrenMap, yara, cleanups>> /\ suspended' \subseteq suspended
           /\ {r.root : r \in responses'} \subseteq {r.root : r \in responses}
           /\ \A k \in ProcessKey : prompts'[k] > 0 => prompts[k] > 0 \/ k \in {r.root : r \in responses}
<1>1. ASSUME NEW r \in responses, ClosePopup(r) \/ SendStop(r)
      PROVE  /\ UNCHANGED <<childrenMap, yara, cleanups, suspended, prompts>>
             /\ {q.root : q \in responses'} \subseteq {q.root : q \in responses}
    <2>1. r \in Suspension
        BY DEF TypeOK
    <2>2. PICK s : responses' = (responses \ {r}) \cup {[r EXCEPT !.step = s]}
        BY <1>1 DEF ClosePopup, SendStop
    <2>3. [r EXCEPT !.step = s].root = r.root
        BY <2>1 DEF Suspension
    <2> QED BY <1>1, <2>2, <2>3 DEF ClosePopup, SendStop
<1>2. ASSUME NEW r \in responses, Announce(r)
      PROVE  /\ UNCHANGED <<childrenMap, yara, cleanups, suspended>> /\ responses' \subseteq responses
             /\ \A k \in ProcessKey : prompts'[k] > 0 => prompts[k] > 0 \/ k = r.root
    BY <1>2 DEF Announce, TypeOK
<1>3. ASSUME NEW r \in releases, ResetDetection(r) \/ AnnounceRelease(r)
      PROVE  /\ UNCHANGED <<childrenMap, yara, cleanups, responses, prompts>>
             /\ suspended' \subseteq suspended
    BY <1>3 DEF ResetDetection, AnnounceRelease
<1> QED BY <1>1, <1>2, <1>3 DEF Continue

LEMMA StepsNarrow ==
    ASSUME TypeOK, (HandleEvent /\ ~ProcessCreate) \/ Background \/ Administrator
    PROVE  Narrows
<1>1. UNCHANGED <<clock, holder>>
      /\ (queue' = queue \/ queue' = <<>> \/ (queue # <<>> /\ queue' = Tail(queue)))
    BY HandlerQueue, OthersLeaveQueue
<1>2. Tracked' \subseteq Tracked
    BY HandlersKeepEntries, OthersKeepEntries DEF KeepsEntries, Tracked
<1>3. CASE HandleEvent /\ ~ProcessCreate
    <2>1. UNCHANGED childrenMap /\ cleanups' \subseteq cleanups \cup Tracked
        BY <1>3 DEF HandleEvent, Untracked, ProcessStop, FileRead, NetworkConnect, FileWrite,
                    FileOpen, Dup2, RegistryWrite, PtraceAttach, MemoryProtect, Live
    <2>2. /\ UNCHANGED <<yara, prompts>>
          /\ {r.root : r \in responses'} \subseteq {r.root : r \in responses} \cup Tracked
        BY <1>3, WhoIsSuspended, BeginsWith DEF Live
    <2> QED BY <1>1, <1>2, <2>1, <2>2 DEF Narrows, Watched
<1>4. CASE Background
    <2>1. ASSUME NEW k \in ProcessKey, YaraVerdict(k)
          PROVE  /\ UNCHANGED <<childrenMap, prompts, cleanups>> /\ yara' \subseteq yara
                 /\ {r.root : r \in responses'} \subseteq {r.root : r \in responses} \cup yara
        BY <2>1, BeginsWith DEF YaraVerdict
    <2>2. ASSUME NEW k \in ProcessKey,
                 PromptAllow(k) \/ PromptDeny(k) \/ PromptUnanswered(k) \/ CleanupInstall(k)
          PROVE  /\ UNCHANGED <<childrenMap, yara, responses>> /\ cleanups' \subseteq cleanups
                 /\ \A x \in ProcessKey : prompts'[x] > 0 => prompts[x] > 0
        <3>1. prompts \in [ProcessKey -> Nat]
            BY DEF TypeOK
        <3>2. /\ UNCHANGED <<childrenMap, yara, responses>> /\ cleanups' \subseteq cleanups
              /\ prompts' = prompts \/ (prompts[k] > 0 /\ prompts' = [prompts EXCEPT ![k] = @ - 1])
            BY <2>2 DEF PromptAllow, PromptDeny, PromptUnanswered, CleanupInstall
        <3> QED BY <3>1, <3>2
    <2>3. CASE Purge
        BY <1>1, <1>2, <2>3 DEF Purge, Narrows, Watched
    <2>4. CASE Continue
        BY <1>1, <1>2, <2>4, ContinuesWith DEF Narrows, Watched
    <2> QED BY <1>1, <1>2, <1>4, <2>1, <2>2, <2>3, <2>4 DEF Background, Narrows, Watched
<1>5. CASE Administrator
    <2>1. UNCHANGED <<childrenMap, yara, cleanups, prompts, responses>>
        BY <1>5 DEF Administrator, ReleaseProcessTree, KillProcessTree, TrustOnce
    <2> QED BY <1>1, <1>2, <2>1 DEF Narrows, Watched
<1> QED BY <1>3, <1>4, <1>5

LEMMA CreateKeepsPids == ASSUME TypeOK, PidInv, ProcessCreate PROVE PidInv'
<1> DEFINE e == Head(queue)
           k == [pid |-> e.child_pid, start_time |-> e.timestamp]
<1>1. /\ 1 \in DOMAIN queue /\ queue[1] = e /\ Creation(1)
      /\ queue # <<>> /\ Dequeue /\ UNCHANGED <<clock, holder, cleanups>>
    BY DEF ProcessCreate, Handling, TypeOK, Creation
<1>2. e \in CreateEvent /\ k \in ProcessKey /\ k = Created(e)
    <2>1. e \in CreateEvent
        BY <1>1, EventShape, QueueType DEF TypeOK, Creation
    <2> QED BY <2>1 DEF CreateEvent, ProcessKey, Created
<1>3. OwnPid(k)
    BY <1>1, <1>2 DEF PidInv
<1>4. Tracked' \subseteq Tracked \cup {k}
    BY <1>2, CreatedEntry DEF TypeOK, Tracked
<1>5. /\ yara' \subseteq yara \cup {k} /\ UNCHANGED prompts
      /\ {r.root : r \in responses'} \subseteq {r.root : r \in responses} \cup {k}
    BY BeginsWith DEF ProcessCreate
<1>6. \A x \in ProcessKey : x.start_time # 0 => childrenMap'[x] = {}
    <2>1. childrenMap' = [childrenMap EXCEPT ![WildCard(e.pid)] = @ \cup {k}]
        BY DEF ProcessCreate
    <2>2. WildCard(e.pid).start_time = 0
        BY DEF WildCard
    <2> QED BY <2>1, <2>2 DEF TypeOK, PidInv
<1>7. \A n \in DOMAIN queue' : \E j \in DOMAIN queue : queue'[n] = queue[j]
    BY <1>1, DequeueShrinks, QueueShrinksOne
<1>8. \A n \in DOMAIN queue' : Creation(n)' => OwnPid(Created(queue'[n]))
    BY <1>7 DEF PidInv, Creation
<1>9. \A x \in Watched' : OwnPid(x)
    BY <1>1, <1>3, <1>4, <1>5 DEF PidInv, Watched
<1> QED BY <1>1, <1>6, <1>8, <1>9 DEF PidInv, OwnPid, Creation, Created

(* A new process gets a pid nobody ever had.                               *)
LEMMA OsKeepsPids ==
    ASSUME TypeOK, PidInv, NEW e \in Event, Emit(e), UNCHANGED engineVars,
           clock' \in Time, clock <= clock',
           \A p \in Pid : holder'[p] \in {0, holder[p]} \/ (holder'[p] = clock + 1 /\ p = clock + 1),
           e.type = "ProcessCreate" =>
               /\ e.child_pid = e.timestamp /\ e.timestamp > 1 /\ e.timestamp <= clock'
               /\ holder'[e.child_pid] = e.timestamp
    PROVE  PidInv'
<1>1. UNCHANGED childrenMap /\ Watched' = Watched
    BY DEF Watched, Tracked
<1>2. clock \in Nat /\ clock' \in Nat
    BY ConfigAssumption DEF TypeOK
<1>3. ASSUME NEW k \in ProcessKey, OwnPid(k) PROVE OwnPid(k)'
    <2>1. k.pid \in Pid /\ k.start_time \in Nat /\ k.pid = k.start_time
        BY <1>3, ConfigAssumption DEF ProcessKey, OwnPid
    <2>2. holder'[k.pid] \in {0, holder[k.pid]}
        BY <1>2, <1>3, <2>1 DEF OwnPid
    <2> QED BY <1>2, <1>3, <2>1, <2>2 DEF OwnPid
<1>4. \A n \in DOMAIN queue' : (n \in DOMAIN queue /\ queue'[n] = queue[n]) \/ queue'[n] = e
    BY EmitAppends
<1>5. ASSUME NEW n \in DOMAIN queue', queue'[n].type = "ProcessCreate" PROVE OwnPid(Created(queue[n]))'
    <2>1. CASE queue'[n] = e
        BY <1>5, <2>1 DEF Created, OwnPid
    <2>2. CASE n \in DOMAIN queue /\ queue'[n] = queue[n]
        <3>1. queue[n] \in CreateEvent
            BY <1>5, <2>2, EventShape DEF TypeOK
        <3>2. Created(queue[n]) \in ProcessKey /\ OwnPid(Created(queue[n]))
            BY <1>5, <2>2, <3>1 DEF PidInv, Creation, Created, CreateEvent, ProcessKey
        <3>3. \A c \in ProcessKey : OwnPid(c) => OwnPid(c)'
            BY <1>3
        <3> QED BY <2>2, <3>2, <3>3 DEF Created, OwnPid
    <2> QED BY <1>4, <2>1, <2>2
<1>6. \A k \in Watched' : k \in ProcessKey /\ OwnPid(k)
    BY <1>1 DEF PidInv, Watched, Tracked, TypeOK, Suspension
<1> QED BY <1>1, <1>2, <1>3, <1>5, <1>6 DEF PidInv, Creation

LEMMA SystemKeepsPids ==
    ASSUME TypeOK, InheritInv, PidInv, PidReuse = FALSE, System PROVE PidInv'
<1>1. ASSUME NEW p \in Pid, NEW c \in Pid, NEW i \in Image, NEW q \in Pid, Fork(p, c, i, q)
      PROVE  PidInv'
    <2> DEFINE e == [type |-> "ProcessCreate", pid |-> q, child_pid |-> c,
                     real_parent_pid |-> p, timestamp |-> clock + 1, image |-> i,
                     actor |-> Current(p)]
    <2>1. clock \in Nat /\ clock + 1 \in Time \ {0} /\ Current(p) \in ProcessKey
        BY <1>1, ConfigAssumption DEF Fork, Current, ProcessKey, TypeOK
    <2>2. e \in Event
        BY <2>1 DEF Event, CreateEvent
    <2>3. /\ Emit(e) /\ UNCHANGED engineVars /\ clock' = clock + 1 /\ c = clock + 1
          /\ holder' = [holder EXCEPT ![c] = clock + 1]
        BY <1>1 DEF Fork
    <2>4. holder'[c] = clock + 1 /\ \A x \in Pid \ {c} : holder'[x] = holder[x]
        BY <2>3 DEF TypeOK
    <2>5. e.timestamp > 1
        BY <2>1 DEF PidInv
    <2> QED BY <2>1, <2>2, <2>3, <2>4, <2>5, OsKeepsPids
<1>2. ASSUME NEW p \in Pid, Exit(p) PROVE PidInv'
    <2> DEFINE e == [type |-> "ProcessStop", pid |-> p, actor |-> Current(p)]
    <2>1. Current(p) \in ProcessKey /\ clock \in Time /\ clock \in Nat
        BY ConfigAssumption DEF Current, ProcessKey, TypeOK
    <2>2. e \in Event /\ e.type = "ProcessStop"
        BY <2>1 DEF Event, PlainEvent, PlainEventType
    <2>3. Emit(e) /\ UNCHANGED engineVars /\ clock' = clock /\ holder' = [holder EXCEPT ![p] = 0]
        BY <1>2 DEF Exit
    <2>4. \A x \in Pid : holder'[x] \in {0, holder[x]}
        BY <2>3 DEF TypeOK
    <2> QED BY <2>1, <2>2, <2>3, <2>4, OsKeepsPids
<1>3. ASSUME NEW p \in Pid, Act(p) PROVE PidInv'
    <2>1. clock \in Time /\ clock \in Nat
        BY ConfigAssumption DEF TypeOK
    <2>2. UNCHANGED <<clock, holder>> /\ UNCHANGED engineVars
        BY <1>3 DEF Act
    <2>3. PICK e \in Event : Emit(e) /\ e.type # "ProcessCreate"
        BY <1>3, ActEmits
    <2> QED BY <2>1, <2>2, <2>3, OsKeepsPids
<1> QED BY <1>1, <1>2, <1>3 DEF System

LEMMA NextKeepsPids ==
    ASSUME TypeOK, InheritInv, PidInv, PidReuse = FALSE, [Next]_vars PROVE PidInv'
<1>1. CASE UNCHANGED vars
    BY <1>1 DEF vars, PidInv, OwnPid, Watched, Tracked, Creation, Created
<1> QED BY <1>1, SystemKeepsPids, CreateKeepsPids, StepsNarrow, NarrowsKeepsPids DEF Next

LEMMA InitPids == Init => PidInv
BY DEF Init, PidInv, Watched, Tracked, Creation

-----------------------------------------------------------------------------
(* What the agent's steps signal.                                          *)

(* A signal to the tree of k reaches k, if anyone.                         *)
LEMMA SignalReaches ==
    ASSUME TypeOK, PidInv, NEW k \in ProcessKey, OwnPid(k), NEW op, NEW by,
           sig' = Signalled(TreePids(k), op, by)
    PROVE  /\ \A x \in ProcessKey \ {k} : sig'[x] = sig[x]
           /\ Alive(k) /\ sig[k].op # "KILL" => sig'[k].op = op
           /\ ~Alive(k) \/ sig[k].op = "KILL" => sig'[k] = sig[k]
<1>1. k.start_time # 0 /\ holder[k.pid] \in {0, k.start_time}
    BY DEF OwnPid, ProcessKey
<1>2. childrenMap[k] = {}
    BY <1>1 DEF PidInv
<1>3. TreePids(k) = {k.pid}
    BY <1>2 DEF TreePids, DescendantPids, Descendants
<1>4. ASSUME NEW x \in ProcessKey \ {k} PROVE ~(x.pid = k.pid /\ Alive(x))
    BY <1>1, <1>4 DEF Alive, ProcessKey
<1> QED BY <1>3, <1>4 DEF Signalled

NoStop == \A x \in ProcessKey : sig'[x].op = "STOP" => sig[x].op = "STOP"

LEMMA OtherThanStop ==
    ASSUME NEW pids, NEW op, NEW by, op # "STOP", sig' = Signalled(pids, op, by) \/ sig' = sig
    PROVE  NoStop
BY DEF NoStop, Signalled

(* Only a response under way stops somebody.                               *)
LEMMA WhoIsStopped ==
    ASSUME TypeOK, HandleEvent \/ Background \/ Administrator
    PROVE  NoStop \/ \E r \in responses : SendStop(r)
<1>1. CASE HandleEvent
    <2>1. UNCHANGED sig \/ \E k : sig' = ThreatSignals(k)
        BY <1>1 DEF HandleEvent, Untracked, ProcessCreate, ProcessStop, FileRead, NetworkConnect,
           FileWrite, FileOpen, Dup2, RegistryWrite, PtraceAttach, MemoryProtect,
           SuspendUntrusted, BeginSuspension, TerminateInstall, TerminateThreat
    <2> QED BY <2>1, OtherThanStop DEF ThreatSignals, NoStop
<1>2. CASE Background
    <2>1. ASSUME NEW k \in ProcessKey, YaraVerdict(k) PROVE NoStop
        BY <2>1 DEF YaraVerdict, BeginSuspension, NoStop
    <2>2. ASSUME NEW k \in ProcessKey,
                 PromptAllow(k) \/ PromptDeny(k) \/ PromptUnanswered(k)
          PROVE  NoStop
        BY <2>2, OtherThanStop DEF PromptAllow, BeginRelease, PromptDeny, PromptUnanswered
    <2>3. ASSUME NEW k \in ProcessKey, CleanupInstall(k) PROVE NoStop
        <3>1. PICK pids : sig' = IF AuditMode THEN sig ELSE Signalled(pids, "KILL", "engine")
            BY <2>3 DEF CleanupInstall
        <3> QED BY <3>1, OtherThanStop
    <2>4. CASE Purge
        BY <2>4 DEF Purge, NoStop
    <2>5. ASSUME NEW r, ClosePopup(r) \/ Announce(r) \/ ResetDetection(r) \/ AnnounceRelease(r)
          PROVE  NoStop
        BY <2>5 DEF ClosePopup, Announce, ResetDetection, AnnounceRelease, NoStop
    <2> QED BY <1>2, <2>1, <2>2, <2>3, <2>4, <2>5 DEF Background, Continue
<1>3. CASE Administrator
    <2>1. ASSUME NEW p \in Pid, ReleaseProcessTree(p) \/ KillProcessTree(p) \/ TrustOnce(p)
          PROVE  NoStop
        BY <2>1, OtherThanStop DEF ReleaseProcessTree, BeginRelease, KillProcessTree, TrustOnce
    <2> QED BY <1>3, <2>1 DEF Administrator
<1> QED BY <1>1, <1>2, <1>3

-----------------------------------------------------------------------------
(* What is stopped can be released.                                        *)

(* The commands find k, or nothing is left to release.                     *)
Reachable(k) == Gone(k) \/ k \in Live(k.pid)

(* Whom a response under way, or one that may still come, is about.        *)
Suspects == yara \cup suspended \cup {r.root : r \in responses}

(* A scan that ends late may stop a process whose entry was purged, unless *)
(* that process is gone: hence the second half.                            *)
StopInv ==
    /\ \A k \in ProcessKey : sig[k].op = "STOP" => k.start_time <= clock /\ Reachable(k)
    /\ \A k \in Suspects : k.start_time <= clock /\ Reachable(k)

(* Only who is tracked alive is suspected newly.                           *)
LEMMA NewSuspects ==
    ASSUME TypeOK, (HandleEvent /\ ~ProcessCreate) \/ Background \/ Administrator
    PROVE  \A k \in Suspects' : k \in ProcessKey /\ (k \in Suspects \/ k \in Live(k.pid))
<1>1. \A k \in Suspects : k \in ProcessKey
    BY DEF Suspects, TypeOK, Suspension
<1>2. CASE HandleEvent /\ ~ProcessCreate
    <2>1. CASE UNCHANGED <<yara, responses, suspended>>
        BY <1>1, <2>1 DEF Suspects
    <2>2. ASSUME NEW k \in Live(Head(queue).pid), NEW by, BeginSuspension(k, by), UNCHANGED yara
          PROVE  \A x \in Suspects' : x \in ProcessKey /\ (x \in Suspects \/ x \in Live(x.pid))
        <3>1. k \in ProcessKey /\ k \in Live(k.pid)
            BY LiveFacts DEF TypeOK
        <3>2. Suspects' = Suspects \cup {k}
            BY <2>2, BeginsWith DEF Suspects
        <3> QED BY <1>1, <3>1, <3>2
    <2> QED BY <1>2, <2>1, <2>2, WhoIsSuspended
<1>3. ASSUME Suspects' \subseteq Suspects
      PROVE  \A k \in Suspects' : k \in ProcessKey /\ (k \in Suspects \/ k \in Live(k.pid))
    BY <1>1, <1>3
<1>4. CASE Background
    <2>1. ASSUME NEW k \in ProcessKey, YaraVerdict(k) PROVE Suspects' \subseteq Suspects
        BY <2>1, BeginsWith DEF YaraVerdict, Suspects
    <2>2. ASSUME NEW k \in ProcessKey,
                 PromptAllow(k) \/ PromptDeny(k) \/ PromptUnanswered(k) \/ CleanupInstall(k)
          PROVE  Suspects' \subseteq Suspects
        BY <2>2 DEF PromptAllow, PromptDeny, PromptUnanswered, CleanupInstall, Suspects
    <2>3. ASSUME Purge PROVE Suspects' \subseteq Suspects
        BY <2>3 DEF Purge, Suspects
    <2>4. ASSUME Continue PROVE Suspects' \subseteq Suspects
        BY <2>4, ContinuesWith DEF Suspects
    <2> QED BY <1>3, <1>4, <2>1, <2>2, <2>3, <2>4 DEF Background
<1>5. CASE Administrator
    BY <1>3, <1>5 DEF Administrator, ReleaseProcessTree, KillProcessTree, TrustOnce, Suspects
<1> QED BY <1>2, <1>4, <1>5

LEMMA StaysReachable ==
    ASSUME TypeOK, FinishInv, AgentStep, NEW k \in ProcessKey, Reachable(k)
    PROVE  Reachable(k)'
<1>1. CASE Gone(k)
    BY <1>1, GoneIsForGood DEF AgentStep, Reachable
<1>2. CASE k \in Live(k.pid)
    <2>1. k \in Tracked /\ ~processMap[k].terminated
        BY <1>2 DEF Live
    <2>2. ~processMap[k].ttl_deadline
        BY <2>1 DEF FinishInv, DeadlineMeansTerminated
    <2>3. k \in Tracked' /\ (processMap'[k].terminated => Gone(k)')
        BY <2>1, <2>2 DEF AgentStep
    <2> QED BY <2>3 DEF Reachable, Live
<1> QED BY <1>1, <1>2 DEF Reachable

LEMMA AgentStepStops ==
    ASSUME TypeOK, FinishInv, PidInv, StopInv, AuditMode = FALSE,
           (HandleEvent /\ ~ProcessCreate) \/ Background \/ Administrator
    PROVE  StopInv'
<1>1. AgentStep
    BY AgentStepCases
<1>2. ASSUME NEW k \in ProcessKey, sig'[k].op = "STOP"
      PROVE  k.start_time <= clock /\ Reachable(k)
    <2>1. CASE NoStop
        BY <1>2, <2>1 DEF NoStop, StopInv
    <2>2. ASSUME NEW r \in responses, SendStop(r) PROVE k.start_time <= clock /\ Reachable(k)
        <3>1. PICK x : x = r.root
            OBVIOUS
        <3>2. x \in ProcessKey /\ OwnPid(x) /\ x.start_time <= clock /\ Reachable(x)
            BY <3>1 DEF PidInv, Watched, StopInv, Suspects, TypeOK, Suspension
        <3>3. sig' = Signalled(TreePids(x), "STOP", "engine")
            BY <2>2, <3>1 DEF SendStop
        <3>4. \A y \in ProcessKey \ {x} : sig'[y] = sig[y]
            BY <3>2, <3>3, SignalReaches
        <3> QED BY <1>2, <3>2, <3>4 DEF StopInv
    <2> QED BY <2>1, <2>2, WhoIsStopped
<1>3. \A k \in Suspects' : k \in ProcessKey /\ k.start_time <= clock /\ Reachable(k)
    <2>1. \A k \in ProcessKey : k \in Live(k.pid) => k.start_time <= clock /\ Reachable(k)
        BY DEF Reachable, Live, PidInv, Watched, OwnPid
    <2> QED BY <2>1, NewSuspects DEF StopInv
<1> QED BY <1>1, <1>2, <1>3, StaysReachable DEF StopInv, AgentStep

LEMMA CreateStops ==
    ASSUME TypeOK, FinishInv, PidInv, StopInv, ProcessCreate PROVE StopInv'
<1>1. 1 \in DOMAIN queue /\ queue[1] = Head(queue) /\ Creation(1) /\ UNCHANGED <<clock, holder>>
    BY DEF ProcessCreate, Handling, TypeOK, Creation
<1>2. PICK k \in ProcessKey :
         k = Created(queue[1])
         /\ k = [pid |-> Head(queue).child_pid, start_time |-> Head(queue).timestamp]
    <2>1. Head(queue) \in CreateEvent
        BY <1>1, EventShape, QueueType DEF TypeOK, Creation
    <2> QED BY <1>1, <2>1 DEF CreateEvent, ProcessKey, Created
<1>3. OwnPid(k)
    BY <1>1, <1>2 DEF PidInv
<1>4. k \in Tracked' /\ ~processMap'[k].terminated
    <2>1. PICK untrusted \in Verdict, inherited \in Inherited(ParentOf(Head(queue))) :
             processMap' = [processMap EXCEPT ![k] = NewState(Head(queue), inherited, untrusted)]
        BY <1>2 DEF ProcessCreate
    <2>2. processMap'[k] = NewState(Head(queue), inherited, untrusted) /\ processMap'[k] # NoEntry
        <3>1. processMap'[k] = NewState(Head(queue), inherited, untrusted)
            BY <1>2, <2>1 DEF TypeOK
        <3>2. PICK s \in ProcessState : processMap' = [processMap EXCEPT ![k] = s]
            BY <1>2, CreatedEntry
        <3>3. processMap'[k] \in ProcessState
            BY <1>2, <3>2 DEF TypeOK
        <3> QED BY <3>1, <3>3, ConfigAssumption
    <2> QED BY <1>2, <2>2 DEF Tracked, NewState
<1>5. Reachable(k)'
    BY <1>2, <1>4 DEF Reachable, Live
<1>6. ASSUME NEW x \in ProcessKey, x # k, Reachable(x) PROVE Reachable(x)'
    <2>1. processMap'[x] = processMap[x]
        BY <1>2, <1>6, CreatedEntry DEF TypeOK
    <2>2. UNCHANGED sig
        BY BeginsWith DEF ProcessCreate
    <2> QED BY <1>1, <1>6, <2>1, <2>2 DEF Reachable, Gone, Alive, Live, Tracked
<1>7. UNCHANGED sig /\ Suspects' \subseteq Suspects \cup {k}
    BY <1>2, BeginsWith DEF ProcessCreate, Suspects
<1>8. \A x \in ProcessKey : sig'[x].op = "STOP" => x.start_time <= clock' /\ Reachable(x)'
    BY <1>1, <1>2, <1>3, <1>5, <1>6, <1>7 DEF StopInv, OwnPid
<1>9. \A x \in Suspects' : x.start_time <= clock' /\ Reachable(x)'
    <2>1. \A x \in Suspects : x \in ProcessKey
        BY DEF Suspects, TypeOK, Suspension
    <2> QED BY <1>1, <1>3, <1>5, <1>6, <1>7, <2>1 DEF StopInv, OwnPid
<1> QED BY <1>8, <1>9 DEF StopInv

(* A process that starts is not stopped already.                           *)
LEMMA SystemStops ==
    ASSUME TypeOK, StopInv, System PROVE StopInv'
<1>1. UNCHANGED engineVars /\ NoRevival /\ Tracked' = Tracked /\ Suspects' = Suspects
    BY OsEvent DEF Tracked, Suspects
<1>2. \A k \in ProcessKey : k.start_time <= clock => k.start_time <= clock'
    <2>1. clock \in Nat /\ clock' \in Nat /\ clock <= clock'
        <3>1. TypeOK'
            BY NextType DEF Next
        <3> QED BY <3>1, OsEvent, ConfigAssumption DEF TypeOK
    <2>2. \A k \in ProcessKey : k.start_time \in Nat
        BY ConfigAssumption DEF ProcessKey
    <2> QED BY <2>1, <2>2
<1>3. ASSUME NEW k \in ProcessKey, k.start_time <= clock, Reachable(k) PROVE Reachable(k)'
    BY <1>1, <1>3 DEF Reachable, NoRevival, Gone, Live, Tracked
<1>4. \A k \in Suspects : k \in ProcessKey
    BY DEF Suspects, TypeOK, Suspension
<1> QED BY <1>1, <1>2, <1>3, <1>4 DEF StopInv

LEMMA NextStops ==
    ASSUME TypeOK, FinishInv, PidInv, StopInv, AuditMode = FALSE, [Next]_vars PROVE StopInv'
<1>1. CASE UNCHANGED vars
    BY <1>1 DEF vars, StopInv, Suspects, Reachable, Gone, Alive, Live, Tracked
<1> QED BY <1>1, SystemStops, CreateStops, AgentStepStops DEF Next

LEMMA InitStops == Init => StopInv
BY DEF Init, StopInv, Suspects

(* Until a pid is handed out twice, a process the engine holds stopped has *)
(* a live entry, which the release commands look up by pid: a suspension   *)
(* can always be undone, whatever is purged, terminated or scanned late.   *)
THEOREM StoppedCanBeReleased ==
    ASSUME AuditMode = FALSE, PidReuse = FALSE PROVE Spec => []StoppedIsReleasable
<1>1. StopInv => StoppedIsReleasable
    BY DEF StopInv, StoppedIsReleasable, Reachable, Gone
<1>2. TypeOK /\ FinishInv /\ [Next]_vars => FinishInv'
    BY NextFinish
<1>3. TypeOK /\ InheritInv /\ [Next]_vars => InheritInv'
    BY NextInherits
<1>4. TypeOK /\ InheritInv /\ PidInv /\ [Next]_vars => PidInv'
    BY NextKeepsPids
<1>5. TypeOK /\ FinishInv /\ PidInv /\ StopInv /\ [Next]_vars => StopInv'
    BY NextStops
<1> QED BY <1>1, <1>2, <1>3, <1>4, <1>5, InitFinish, InitInherits, InitPids, InitStops,
           TypeCorrect, PTL DEF Spec

-----------------------------------------------------------------------------
(* What is suspended does not run.                                         *)

(* Of a process whose suspension was begun: its stop is still to be sent,  *)
(* it does not run, or a release that resumed it is about to clear it.     *)
HoldInv == \A k \in suspended : Runs(k) => StopToCome(k) \/ BeingReleased(k)

(* A step of the agent that keeps it so.                                   *)
Holds ==
    \A k \in ProcessKey :
        /\ k \in suspended' => k \in suspended \/ StopToCome(k)'
        /\ Runs(k)' => Runs(k) \/ BeingReleased(k)'
        /\ StopToCome(k) => StopToCome(k)' \/ ~Runs(k)'
        /\ BeingReleased(k) => BeingReleased(k)' \/ k \notin suspended' \/ ~Runs(k)'

LEMMA HoldsKeeps == ASSUME suspended' \subseteq ProcessKey, HoldInv, Holds PROVE HoldInv'
<1> SUFFICES ASSUME NEW k \in suspended', Runs(k)' PROVE StopToCome(k)' \/ BeingReleased(k)'
    BY DEF HoldInv
<1>1. CASE k \notin suspended
    BY <1>1 DEF Holds
<1>2. CASE k \in suspended /\ Runs(k)
    BY <1>2 DEF Holds, HoldInv
<1>3. CASE ~Runs(k)
    BY <1>3 DEF Holds
<1> QED BY <1>1, <1>2, <1>3

(* Stops and kills resume nobody.                                          *)
LEMMA HarshSignals ==
    ASSUME UNCHANGED holder, NEW pids, NEW by, NEW op \in {"STOP", "KILL"},
           sig' = Signalled(pids, op, by) \/ sig' = sig
    PROVE  \A k \in ProcessKey : Runs(k)' => Runs(k)
BY DEF Signalled, Runs, Alive

(* A step that is no part of a response or a release, and resumes nobody.  *)
LEMMA CalmHolds ==
    ASSUME UNCHANGED <<holder, stepVars>>, suspended' \subseteq suspended,
           NEW pids, NEW by, NEW op \in {"STOP", "KILL"},
           sig' = Signalled(pids, op, by) \/ sig' = sig
    PROVE  Holds
<1>1. \A k \in ProcessKey : Runs(k)' => Runs(k)
    BY HarshSignals
<1> QED BY <1>1 DEF Holds, StopToCome, BeingReleased

LEMMA ThreatHolds ==
    ASSUME UNCHANGED <<holder, stepVars, suspended>>, NEW k, sig' = ThreatSignals(k) \/ sig' = sig
    PROVE  Holds
<1>1. sig' = Signalled(TreePids(k), "KILL", "engine") \/ sig' = sig
    BY DEF ThreatSignals
<1> QED BY <1>1, CalmHolds

LEMMA BeginHolds ==
    ASSUME UNCHANGED holder, NEW k, NEW by, BeginSuspension(k, by) PROVE Holds
<1>1. PICK s \in {"popup", "stop"} :
         responses' = responses \cup {[by |-> by, root |-> k, step |-> s]}
    BY DEF BeginSuspension
<1>2. \A x : StopToCome(x) => StopToCome(x)'
    BY <1>1 DEF StopToCome
<1>3. StopToCome(k)'
    <2> DEFINE n == [by |-> by, root |-> k, step |-> s]
    <2>1. n \in responses' /\ n.root = k /\ n.step \in {"popup", "stop"}
        BY <1>1
    <2> QED BY <2>1 DEF StopToCome
<1>4. UNCHANGED <<sig, releases>> /\ suspended' = suspended \cup {k}
    BY DEF BeginSuspension
<1> QED BY <1>2, <1>3, <1>4 DEF Holds, BeingReleased, Runs, Alive

LEMMA HandlersHold == ASSUME TypeOK, HandleEvent PROVE Holds
<1>1. UNCHANGED holder
    BY HandlerQueue
<1>2. CASE Untracked \/ ProcessStop
    <2>1. UNCHANGED <<sig, suspended, stepVars>>
        BY <1>2 DEF Untracked, ProcessStop
    <2> QED BY <1>1, <2>1, ThreatHolds
<1>3. CASE ProcessCreate \/ FileRead \/ NetworkConnect \/ PtraceAttach \/ MemoryProtect
    <2>1. UNCHANGED <<sig, suspended, stepVars>> \/ \E k, by : BeginSuspension(k, by)
        BY <1>3 DEF ProcessCreate, FileRead, NetworkConnect, PtraceAttach, MemoryProtect,
           SuspendUntrusted
    <2> QED BY <1>1, <2>1, BeginHolds, ThreatHolds
<1>4. CASE FileWrite \/ FileOpen \/ Dup2 \/ RegistryWrite
    <2>1. PICK k : sig' = ThreatSignals(k) \/ sig' = sig
        BY <1>4 DEF FileWrite, FileOpen, Dup2, RegistryWrite, TerminateInstall, TerminateThreat
    <2>2. UNCHANGED <<suspended, stepVars>>
        BY <1>4 DEF FileWrite, FileOpen, Dup2, RegistryWrite, TerminateInstall, TerminateThreat
    <2> QED BY <1>1, <2>1, <2>2, ThreatHolds
<1> QED BY <1>2, <1>3, <1>4 DEF HandleEvent

(* The process resumed is the one released, and no other.                  *)
LEMMA ReleaseHolds ==
    ASSUME TypeOK, PidInv, NEW k \in ProcessKey, OwnPid(k), NEW by, BeginRelease(k, by),
           UNCHANGED <<holder, suspended, responses>>
    PROVE  Holds
<1>1. sig' = Signalled(TreePids(k), "CONT", "admin")
    BY DEF BeginRelease
<1>2. \A x \in ProcessKey \ {k} : sig'[x] = sig[x]
    BY <1>1, SignalReaches
<1>3. \A x : BeingReleased(x) => BeingReleased(x)'
    BY DEF BeginRelease, BeingReleased
<1>4. BeingReleased(k)'
    <2> DEFINE n == [by |-> by, root |-> k, step |-> "reset"]
    <2>1. n \in releases' /\ n.root = k /\ n.step = "reset"
        BY DEF BeginRelease
    <2> QED BY <2>1 DEF BeingReleased
<1> QED BY <1>2, <1>3, <1>4 DEF Holds, StopToCome, Runs, Alive

(* Whom a response stops does not run when it has been stopped.            *)
LEMMA SuspensionStepHolds ==
    ASSUME TypeOK, PidInv, AuditMode = FALSE, NEW r \in responses,
           ClosePopup(r) \/ SendStop(r) \/ Announce(r)
    PROVE  Holds
<1>1. r \in Suspension /\ UNCHANGED <<holder, releases, suspended>>
    BY DEF TypeOK, ClosePopup, SendStop, Announce
<1>2. CASE ClosePopup(r)
    <2>1. PICK q : q = [r EXCEPT !.step = "stop"]
        OBVIOUS
    <2>2. /\ responses' = (responses \ {r}) \cup {q} /\ q.root = r.root /\ q.step = "stop"
          /\ UNCHANGED sig
        BY <1>1, <1>2, <2>1 DEF ClosePopup, Suspension
    <2>3. \A x : StopToCome(x) => StopToCome(x)'
        BY <2>2 DEF StopToCome
    <2> QED BY <1>1, <2>2, <2>3 DEF Holds, BeingReleased, Runs, Alive
<1>3. CASE SendStop(r)
    <2>1. PICK k : k = r.root
        OBVIOUS
    <2>2. k \in ProcessKey /\ OwnPid(k) /\ sig' = Signalled(TreePids(k), "STOP", "engine")
        BY <1>1, <1>3, <2>1 DEF SendStop, PidInv, Watched, Suspension
    <2>3. \A x \in ProcessKey : Runs(x)' => Runs(x)
        BY <1>1, <2>2, HarshSignals
    <2>4. ~Runs(k)'
        <3>1. Alive(k) /\ sig[k].op # "KILL" => sig'[k].op = "STOP"
            BY <2>2, SignalReaches
        <3> QED BY <2>2, <2>3, <3>1 DEF Runs
    <2>5. \A x \in ProcessKey \ {k} : StopToCome(x) => StopToCome(x)'
        BY <1>3, <2>1 DEF SendStop, StopToCome
    <2> QED BY <1>1, <2>3, <2>4, <2>5 DEF Holds, BeingReleased
<1>4. CASE Announce(r)
    <2>1. responses' = responses \ {r} /\ r.step = "announce" /\ UNCHANGED sig
        BY <1>4 DEF Announce
    <2>2. \A x : StopToCome(x) => StopToCome(x)'
        BY <2>1 DEF StopToCome
    <2> QED BY <1>1, <2>1, <2>2 DEF Holds, BeingReleased, Runs, Alive
<1> QED BY <1>2, <1>3, <1>4

(* The reset clears the suspension, unless the process is gone.            *)
LEMMA ReleaseStepHolds ==
    ASSUME TypeOK, StopInv, NEW r \in releases, ResetDetection(r) \/ AnnounceRelease(r)
    PROVE  Holds
<1>1. r \in Release /\ UNCHANGED <<holder, responses, sig>>
    BY DEF TypeOK, ResetDetection, AnnounceRelease
<1>2. \A x \in ProcessKey : Runs(x)' <=> Runs(x)
    BY <1>1 DEF Runs, Alive
<1>3. CASE AnnounceRelease(r)
    <2>1. releases' = releases \ {r} /\ r.step = "announce" /\ UNCHANGED suspended
        BY <1>3 DEF AnnounceRelease
    <2>2. \A x : BeingReleased(x) => BeingReleased(x)'
        BY <2>1 DEF BeingReleased
    <2> QED BY <1>1, <1>2, <2>1, <2>2 DEF Holds, StopToCome
<1>4. CASE ResetDetection(r)
    <2>1. PICK k : k = r.root
        OBVIOUS
    <2>2. suspended' \subseteq suspended
        BY <1>4 DEF ResetDetection
    <2>3. \A x \in ProcessKey \ {k} : BeingReleased(x) => BeingReleased(x)'
        BY <1>4, <2>1 DEF ResetDetection, BeingReleased
    <2>4. k \notin suspended' \/ ~Runs(k)
        <3>1. CASE k \in Tracked
            BY <1>4, <2>1, <3>1 DEF ResetDetection
        <3>2. CASE k \notin Tracked /\ k \in suspended
            <4>1. Reachable(k) /\ k \notin Live(k.pid)
                BY <3>2 DEF StopInv, Suspects, Live
            <4> QED BY <4>1 DEF Reachable, Gone, Runs
        <3> QED BY <2>2, <3>1, <3>2
    <2> QED BY <1>1, <1>2, <2>2, <2>3, <2>4 DEF Holds, StopToCome
<1> QED BY <1>3, <1>4

LEMMA BackgroundHolds ==
    ASSUME TypeOK, PidInv, StopInv, AuditMode = FALSE, Background PROVE Holds
<1>1. UNCHANGED holder
    BY OthersLeaveQueue
<1>2. ASSUME NEW k \in ProcessKey, YaraVerdict(k) PROVE Holds
    <2>1. CASE BeginSuspension(k, "scan")
        BY <1>1, <2>1, BeginHolds
    <2>2. CASE UNCHANGED responseVars
        BY <1>1, <2>2, ThreatHolds
    <2> QED BY <1>2, <2>1, <2>2 DEF YaraVerdict
<1>3. ASSUME NEW k \in ProcessKey, PromptAllow(k) PROVE Holds
    <2>1. OwnPid(k) /\ BeginRelease(k, "prompt") /\ UNCHANGED <<suspended, responses>>
        BY <1>3 DEF PromptAllow, PidInv, Watched
    <2> QED BY <1>1, <2>1, ReleaseHolds
<1>4. ASSUME NEW k \in ProcessKey, PromptDeny(k) \/ PromptUnanswered(k) PROVE Holds
    <2>1. PICK by : sig' = Signalled(TreePids(k), "KILL", by)
        BY <1>4 DEF PromptDeny, PromptUnanswered
    <2>2. UNCHANGED <<suspended, stepVars>>
        BY <1>4 DEF PromptDeny, PromptUnanswered
    <2> QED BY <1>1, <2>1, <2>2, CalmHolds
<1>5. ASSUME NEW k \in ProcessKey, CleanupInstall(k) PROVE Holds
    <2>1. PICK pids : sig' = IF AuditMode THEN sig ELSE Signalled(pids, "KILL", "engine")
        BY <1>5 DEF CleanupInstall
    <2>2. UNCHANGED <<suspended, stepVars>>
        BY <1>5 DEF CleanupInstall
    <2> QED BY <1>1, <2>1, <2>2, CalmHolds
<1>6. CASE Purge
    BY <1>1, <1>6, ThreatHolds DEF Purge
<1> QED BY <1>2, <1>3, <1>4, <1>5, <1>6, SuspensionStepHolds, ReleaseStepHolds
        DEF Background, Continue

LEMMA AdministratorHolds ==
    ASSUME TypeOK, PidInv, Administrator PROVE Holds
<1>1. UNCHANGED holder
    BY OthersLeaveQueue
<1>2. ASSUME NEW p \in Pid, ReleaseProcessTree(p) PROVE Holds
    <2>1. PICK k \in Live(p) : BeginRelease(k, "command")
        BY <1>2 DEF ReleaseProcessTree
    <2>2. k \in ProcessKey /\ OwnPid(k) /\ UNCHANGED <<suspended, responses>>
        BY <1>2, LiveFacts DEF TypeOK, PidInv, Watched, ReleaseProcessTree
    <2> QED BY <1>1, <2>1, <2>2, ReleaseHolds
<1>3. ASSUME NEW p \in Pid, KillProcessTree(p) PROVE Holds
    <2>1. PICK k \in Live(p) : sig' = Signalled(TreePids(k), "KILL", "admin")
        BY <1>3 DEF KillProcessTree
    <2>2. UNCHANGED <<suspended, stepVars>>
        BY <1>3 DEF KillProcessTree
    <2> QED BY <1>1, <2>1, <2>2, CalmHolds
<1>4. ASSUME NEW p \in Pid, TrustOnce(p) PROVE Holds
    <2>1. UNCHANGED <<sig, stepVars>> /\ suspended' \subseteq suspended
        BY <1>4 DEF TrustOnce
    <2> QED BY <1>1, <2>1, CalmHolds
<1> QED BY <1>2, <1>3, <1>4 DEF Administrator

LEMMA NextHolds ==
    ASSUME TypeOK, PidInv, StopInv, HoldInv, AuditMode = FALSE, [Next]_vars PROVE HoldInv'
<1>1. suspended' \subseteq ProcessKey
    BY NextType DEF TypeOK
<1>2. CASE HandleEvent \/ Background \/ Administrator
    BY <1>1, <1>2, HandlersHold, BackgroundHolds, AdministratorHolds, HoldsKeeps
<1>3. CASE System
    <2>1. UNCHANGED engineVars /\ NoRevival
        BY <1>3, OsEvent
    <2>2. \A k \in suspended : k \in ProcessKey /\ k.start_time <= clock
        BY DEF StopInv, Suspects, TypeOK
    <2>3. \A k \in suspended : Runs(k)' => Runs(k)
        BY <2>1, <2>2 DEF NoRevival, Runs
    <2> QED BY <2>1, <2>3 DEF HoldInv, StopToCome, BeingReleased
<1>4. CASE UNCHANGED vars
    BY <1>4 DEF vars, HoldInv, Runs, Alive, StopToCome, BeingReleased
<1> QED BY <1>2, <1>3, <1>4 DEF Next

LEMMA InitHolds == Init => HoldInv
BY DEF Init, HoldInv

(* Until a pid is handed out twice, a process whose suspension was begun   *)
(* runs only before the stop is sent, or between the resuming and the      *)
(* clearing step of a release: however the steps of suspensions, releases, *)
(* prompts and scans of several threads interleave.                        *)
THEOREM ContainedIsHeld ==
    ASSUME PidReuse = FALSE PROVE Spec => []ContainmentEnforced
<1>1. CASE AuditMode = TRUE
    <2>1. ContainmentEnforced
        BY <1>1 DEF ContainmentEnforced
    <2> QED BY <2>1, PTL
<1>2. CASE AuditMode = FALSE
    <2>1. HoldInv => ContainmentEnforced
        BY DEF HoldInv, ContainmentEnforced
    <2>2. TypeOK /\ FinishInv /\ [Next]_vars => FinishInv'
        BY <1>2, NextFinish
    <2>3. TypeOK /\ InheritInv /\ [Next]_vars => InheritInv'
        BY NextInherits
    <2>4. TypeOK /\ InheritInv /\ PidInv /\ [Next]_vars => PidInv'
        BY NextKeepsPids
    <2>5. TypeOK /\ FinishInv /\ PidInv /\ StopInv /\ [Next]_vars => StopInv'
        BY <1>2, NextStops
    <2>6. TypeOK /\ PidInv /\ StopInv /\ HoldInv /\ [Next]_vars => HoldInv'
        BY <1>2, NextHolds
    <2> QED BY <2>1, <2>2, <2>3, <2>4, <2>5, <2>6, InitFinish, InitInherits, InitPids, InitStops,
               InitHolds, TypeCorrect, PTL DEF Spec
<1> QED BY <1>1, <1>2, ConfigAssumption

-----------------------------------------------------------------------------
(* Every process has one case.                                             *)

CaseInv == FinishInv /\ InOrder

(* The steps of CaseFile, of one process.                                  *)
SameCase(k) == Stage(k)' = Stage(k) /\ Evidence(k)' = Evidence(k)

EngineCase(k) ==
    \/ SameCase(k)
    \/ Stage(k) = "unseen" /\ Stage(k)' \in {"open", "dropped"} /\ Evidence(k)' = {}
    \/ /\ Stage(k) = "open" /\ Stage(k)' = "open" /\ Evidence(k) \subseteq Evidence(k)'
       /\ Evidence(k)' = {"read", "connected"} => k \in suspended'
    \/ Stage(k) = "open" /\ Stage(k)' = "closed" /\ k \in Over' /\ Evidence(k)' = Evidence(k)
    \/ Stage(k) = "closed" /\ Stage(k)' = "dropped" /\ Evidence(k)' = {}

LEMMA EvidenceKinds == \A k : Evidence(k) \subseteq {"read", "connected"}
BY DEF Evidence

LEMMA EngineMaps ==
    ASSUME Over \subseteq Over', suspended \subseteq suspended', \A k \in ProcessKey : EngineCase(k)
    PROVE  Cases!Next
<1> SUFFICES ASSUME NEW k \in ProcessKey
             PROVE  \/ Cases!Rests(k) \/ Cases!Opens(k) \/ Cases!Missed(k)
                    \/ Cases!Learns(k) \/ Cases!Closes(k) \/ Cases!Drops(k)
    BY DEF Cases!Next, Cases!Engine
<1>1. EngineCase(k) /\ Evidence(k)' \subseteq {"read", "connected"}
    BY EvidenceKinds DEF Evidence
<1>2. CASE SameCase(k)
    BY <1>2 DEF SameCase, Cases!Rests
<1>3. CASE Stage(k) = "unseen" /\ Stage(k)' \in {"open", "dropped"} /\ Evidence(k)' = {}
    BY <1>3 DEF Cases!Opens, Cases!Missed
<1>4. CASE /\ Stage(k) = "open" /\ Stage(k)' = "open" /\ Evidence(k) \subseteq Evidence(k)'
           /\ Evidence(k)' = {"read", "connected"} => k \in suspended'
    BY <1>1, <1>4 DEF Cases!Learns, Cases!Complete
<1>5. CASE Stage(k) = "open" /\ Stage(k)' = "closed" /\ k \in Over' /\ Evidence(k)' = Evidence(k)
    BY <1>5 DEF Cases!Closes
<1>6. CASE Stage(k) = "closed" /\ Stage(k)' = "dropped" /\ Evidence(k)' = {}
    BY <1>6 DEF Cases!Drops
<1> QED BY <1>1, <1>2, <1>3, <1>4, <1>5, <1>6 DEF EngineCase

LEMMA DecisionMaps ==
    ASSUME Over \subseteq Over', NEW k \in ProcessKey, Stage(k) \in {"open", "closed"},
           Stage(k)' = Stage(k), Evidence(k)' = {}, suspended' = suspended \ {k},
           \A j \in ProcessKey \ {k} : SameCase(j)
    PROVE  Cases!Next
<1>1. \A j \in ProcessKey \ {k} : Cases!Rests(j)
    BY DEF SameCase, Cases!Rests
<1>2. Cases!Decide(k)
    BY <1>1 DEF Cases!Decide
<1> QED BY <1>2 DEF Cases!Next

(* What is tracked is not waited for any more.                             *)
LEMMA TrackedIsNotAwaited ==
    ASSUME TypeOK, CaseInv, NEW k \in Tracked PROVE ~Awaited(k)
<1>1. k \in ProcessKey /\ k.start_time \in Nat /\ clock \in Nat /\ k.start_time <= clock
    BY ConfigAssumption DEF Tracked, ProcessKey, TypeOK, CaseInv, InOrder
<1>2. ASSUME NEW n \in DOMAIN queue, queue[n].type = "ProcessCreate", Created(queue[n]) = k
      PROVE  FALSE
    <2>1. k.start_time < queue[n].timestamp
        BY <1>2 DEF CaseInv, InOrder, Creation
    <2>2. k.start_time = queue[n].timestamp
        BY <1>2 DEF Created
    <2> QED BY <1>1, <2>1, <2>2
<1> QED BY <1>1, <1>2 DEF Awaited

LEMMA NothingIsAwaitedAgain ==
    ASSUME TypeOK, UNCHANGED clock,
           queue' = queue \/ queue' = <<>> \/ (queue # <<>> /\ queue' = Tail(queue))
    PROVE  \A k : Awaited(k)' => Awaited(k)
BY QueueShrinksOne DEF Awaited, Created

LEMMA UntrackedCase ==
    ASSUME NEW k \in ProcessKey, k \notin Tracked, k \notin Tracked', Awaited(k)' => Awaited(k)
    PROVE  EngineCase(k)
<1>1. Evidence(k) = {} /\ Evidence(k)' = {}
    BY DEF Evidence
<1>2. Stage(k) = IF Awaited(k) THEN "unseen" ELSE "dropped"
    BY DEF Stage
<1>3. Stage(k)' = IF Awaited(k)' THEN "unseen" ELSE "dropped"
    BY DEF Stage
<1> QED BY <1>1, <1>2, <1>3 DEF EngineCase, SameCase

(* What will not run again stays so.                                       *)
LEMMA OverStays ==
    ASSUME UNCHANGED <<clock, holder>>, \A k \in ProcessKey : sig[k].op = "KILL" => sig'[k].op = "KILL"
    PROVE  Over \subseteq Over'
BY DEF Over, Gone, Alive

(* An entry that remembers what it did.                                    *)
Remembers(k) ==
    /\ processMap'[k].category_flags = processMap[k].category_flags
    /\ processMap'[k].pending_network_connect = processMap[k].pending_network_connect

LEMMA SameEvidence ==
    ASSUME NEW k \in Tracked, k \in Tracked', Remembers(k) PROVE Evidence(k)' = Evidence(k)
BY DEF Evidence, Remembers

LEMMA EntryCase ==
    ASSUME TypeOK, CaseInv, AgentStep, KeepsEntries, NEW k \in Tracked, k \in Tracked' => Remembers(k)
    PROVE  EngineCase(k)
<1>1. k \in ProcessKey /\ k.start_time <= clock
    BY DEF Tracked, CaseInv, InOrder
<1>2. CASE k \in Tracked'
    <2>1. Evidence(k)' = Evidence(k)
        BY <1>2, SameEvidence
    <2>2. processMap[k].terminated => processMap'[k].terminated
        BY <1>1, <1>2 DEF KeepsEntries, SameProcess, Tracked
    <2>3. Stage(k) = IF processMap[k].terminated THEN "closed" ELSE "open"
        BY DEF Stage
    <2>4. Stage(k)' = IF processMap'[k].terminated THEN "closed" ELSE "open"
        BY <1>2 DEF Stage
    <2>5. processMap'[k].terminated => processMap[k].terminated \/ k \in Over'
        BY <1>1, <1>2 DEF AgentStep, Over
    <2> QED BY <2>1, <2>2, <2>3, <2>4, <2>5 DEF EngineCase, SameCase
<1>3. CASE k \notin Tracked'
    <2>1. processMap[k].terminated
        BY <1>3 DEF AgentStep, CaseInv, FinishInv, DeadlineMeansTerminated
    <2>2. ~Awaited(k)'
        BY TrackedIsNotAwaited, NothingIsAwaitedAgain DEF AgentStep
    <2>3. Stage(k) = "closed" /\ Stage(k)' = "dropped" /\ Evidence(k)' = {}
        BY <1>3, <2>1, <2>2 DEF Stage, Evidence
    <2> QED BY <2>3 DEF EngineCase
<1> QED BY <1>2, <1>3

(* A step that forgets nothing, and at most one entry learns something.    *)
LEMMA LearningMaps ==
    ASSUME TypeOK, CaseInv, AgentStep, KeepsEntries, suspended \subseteq suspended',
           \A k \in Tracked \cap Tracked' : Remembers(k) \/ EngineCase(k)
    PROVE  Cases!Next
<1>1. Over \subseteq Over'
    BY OverStays DEF AgentStep
<1>2. ASSUME NEW k \in ProcessKey PROVE EngineCase(k)
    <2>1. CASE k \in Tracked
        BY <2>1, EntryCase
    <2>2. CASE k \notin Tracked
        BY <2>2, UntrackedCase, NothingIsAwaitedAgain DEF AgentStep
    <2> QED BY <2>1, <2>2
<1> QED BY <1>1, <1>2, EngineMaps

LEMMA MarkedRemembers ==
    ASSUME TypeOK, NEW S \in SUBSET Tracked, processMap' = Marked(S)
    PROVE  \A k \in Tracked \cap Tracked' : Remembers(k)
<1> SUFFICES ASSUME NEW k \in Tracked PROVE Remembers(k)
    OBVIOUS
<1>1. k \in ProcessKey /\ processMap[k] \in ProcessState
    BY DEF Tracked, TypeOK
<1> QED BY <1>1 DEF Marked, Remembers, ProcessState

LEMMA SuspensionsStay ==
    ASSUME NEW k, NEW b, BeginSuspension(k, b) \/ TerminateThreat(k) \/ UNCHANGED responseVars
    PROVE  suspended \subseteq suspended'
BY DEF BeginSuspension, TerminateThreat

(* The handlers that record nothing.                                       *)
LEMMA HandlersRemember ==
    ASSUME TypeOK, HandleEvent, ~ProcessCreate, ~FileRead, ~NetworkConnect
    PROVE  suspended \subseteq suspended' /\ \A k \in Tracked \cap Tracked' : Remembers(k)
<1>1. CASE Untracked
    BY <1>1 DEF Untracked, Remembers
<1>2. CASE PtraceAttach \/ MemoryProtect
    BY <1>2, SuspensionsStay DEF PtraceAttach, MemoryProtect, SuspendUntrusted, Remembers
<1>3. CASE ProcessStop
    <2>1. Live(Head(queue).pid) \in SUBSET Tracked
        BY DEF Live
    <2>2. UNCHANGED suspended /\ (UNCHANGED processMap \/ processMap' = Marked(Live(Head(queue).pid)))
        BY <1>3 DEF ProcessStop
    <2> QED BY <2>1, <2>2, MarkedRemembers DEF Remembers
<1>4. ASSUME NEW k, TerminateThreat(k) \/ UNCHANGED <<processMap, responseVars>>
      PROVE  suspended \subseteq suspended' /\ \A x \in Tracked \cap Tracked' : Remembers(x)
    <2>1. CASE TerminateThreat(k)
        BY <2>1, SuspensionsStay, OnePerPidTracked, MarkedRemembers DEF TerminateThreat
    <2>2. CASE UNCHANGED <<processMap, responseVars>>
        BY <2>2 DEF Remembers
    <2> QED BY <1>4, <2>1, <2>2
<1>5. CASE FileWrite
    <2>1. PICK k \in Live(Head(queue).pid) :
             HangsOn(k) \/ TerminateThreat(k) \/ UNCHANGED <<processMap, responseVars>>
        BY <1>5, FileWriteCases
    <2>2. CASE HangsOn(k)
        BY <2>2, MarkedRemembers DEF HangsOn
    <2> QED BY <1>4, <2>1, <2>2
<1>6. CASE FileOpen \/ Dup2 \/ RegistryWrite
    <2>1. PICK k \in Live(Head(queue).pid) : TerminateThreat(k) \/ UNCHANGED <<processMap, responseVars>>
        BY <1>6 DEF FileOpen, Dup2, RegistryWrite, TerminateInstall
    <2> QED BY <1>4, <2>1
<1> QED BY <1>1, <1>2, <1>3, <1>5, <1>6 DEF HandleEvent

(* A handler that records something in the live entry k.                   *)
LEMMA OneEntryLearns ==
    ASSUME TypeOK, NEW k \in Tracked, NEW s \in ProcessState,
           processMap' = [processMap EXCEPT ![k] = s],
           ~processMap[k].terminated, ~s.terminated,
           processMap[k].category_flags \subseteq s.category_flags,
           processMap[k].pending_network_connect => s.pending_network_connect,
           s.category_flags # {} /\ s.pending_network_connect => k \in suspended'
    PROVE  \A x \in Tracked \cap Tracked' : Remembers(x) \/ EngineCase(x)
<1>1. k \in ProcessKey /\ processMap'[k] = s /\ \A x \in ProcessKey \ {k} : processMap'[x] = processMap[x]
    BY DEF Tracked, TypeOK
<1>2. \A x \in Tracked \ {k} : Remembers(x)
    BY <1>1 DEF Tracked, Remembers
<1>3. k \in Tracked'
    BY <1>1, ConfigAssumption DEF Tracked
<1>4. Stage(k) = "open" /\ Stage(k)' = "open"
    BY <1>1, <1>3 DEF Stage
<1>5. Evidence(k) \subseteq Evidence(k)'
    BY <1>1, <1>3 DEF Evidence
<1>6. ASSUME Evidence(k)' = {"read", "connected"} PROVE k \in suspended'
    <2>1. "read" \in Evidence(k)' /\ "connected" \in Evidence(k)'
        BY <1>6
    <2>2. s.category_flags # {} /\ s.pending_network_connect
        BY <1>1, <2>1 DEF Evidence
    <2> QED BY <2>2
<1>7. EngineCase(k)
    BY <1>4, <1>5, <1>6 DEF EngineCase
<1> QED BY <1>2, <1>7

LEMMA FileReadLearns ==
    ASSUME TypeOK, FileRead
    PROVE  suspended \subseteq suspended' /\ \A x \in Tracked \cap Tracked' : Remembers(x) \/ EngineCase(x)
<1> DEFINE e == Head(queue)
           Read(k) == [processMap[k] EXCEPT !.category_flags = @ \cup CategoryOf[e.file],
                                            !.unique_files_read = @ \cup {e.file}]
<1>1. e \in FileEvent
    BY EventShape, QueueType DEF FileRead, Handling, TypeOK, FileEventType
<1>2. PICK k \in Live(e.pid) :
         \/ UNCHANGED <<processMap, responseVars>>
         \/ /\ processMap' = [processMap EXCEPT ![k] = Read(k)]
            /\ IF ReadSuspends(Read(k), e.file)
               THEN BeginSuspension(k, "handler") ELSE UNCHANGED responseVars
    BY DEF FileRead
<1>3. k \in Tracked /\ processMap[k] \in ProcessState /\ ~processMap[k].terminated
    BY LiveFacts DEF TypeOK
<1>4. suspended \subseteq suspended'
    BY <1>2, SuspensionsStay
<1>5. CASE UNCHANGED processMap
    BY <1>4, <1>5 DEF Remembers
<1>6. CASE /\ processMap' = [processMap EXCEPT ![k] = Read(k)]
           /\ IF ReadSuspends(Read(k), e.file)
              THEN BeginSuspension(k, "handler") ELSE UNCHANGED responseVars
    <2>1. Read(k) \in ProcessState
        BY <1>1, <1>3, ReadType DEF FileEvent
    <2>2. /\ ~Read(k).terminated /\ processMap[k].category_flags \subseteq Read(k).category_flags
          /\ Read(k).pending_network_connect = processMap[k].pending_network_connect
        BY <1>3 DEF ProcessState
    <2>3. Read(k).pending_network_connect => k \in suspended'
        BY <1>6 DEF ReadSuspends, BeginSuspension
    <2> HIDE DEF Read
    <2> QED BY <1>3, <1>4, <1>6, <2>1, <2>2, <2>3, OneEntryLearns
<1> QED BY <1>2, <1>5, <1>6

LEMMA NetworkConnectLearns ==
    ASSUME TypeOK, NetworkConnect
    PROVE  suspended \subseteq suspended' /\ \A x \in Tracked \cap Tracked' : Remembers(x) \/ EngineCase(x)
<1>1. PICK k \in Live(Head(queue).pid) :
         /\ processMap' = [processMap EXCEPT ![k].pending_network_connect = TRUE]
         /\ IF ConnectSuspends(processMap[k])
            THEN BeginSuspension(k, "handler") ELSE UNCHANGED responseVars
    BY DEF NetworkConnect
<1> DEFINE s == [processMap[k] EXCEPT !.pending_network_connect = TRUE]
<1>2. k \in Tracked /\ processMap[k] \in ProcessState /\ ~processMap[k].terminated
    BY LiveFacts DEF TypeOK
<1>3. processMap' = [processMap EXCEPT ![k] = s]
    BY <1>1
<1>4. /\ s \in ProcessState /\ ~s.terminated /\ s.pending_network_connect
      /\ s.category_flags = processMap[k].category_flags
    BY <1>2 DEF ProcessState
<1>5. s.category_flags # {} => k \in suspended'
    BY <1>1, <1>4 DEF ConnectSuspends, BeginSuspension
<1>6. suspended \subseteq suspended'
    BY <1>1, SuspensionsStay
<1> HIDE DEF s
<1> QED BY <1>2, <1>3, <1>4, <1>5, <1>6, OneEntryLearns

LEMMA HandlersMap ==
    ASSUME TypeOK, CaseInv, AuditMode = FALSE, HandleEvent, ~ProcessCreate PROVE Cases!Next
<1>1. AgentStep /\ KeepsEntries
    BY AgentStepCases, HandlersKeepEntries DEF CaseInv
<1>2. suspended \subseteq suspended' /\ \A x \in Tracked \cap Tracked' : Remembers(x) \/ EngineCase(x)
    BY HandlersRemember, FileReadLearns, NetworkConnectLearns
<1> QED BY <1>1, <1>2, LearningMaps

(* A decision: the entry k is reset and its suspension forgotten.          *)
LEMMA ResetMaps ==
    ASSUME TypeOK, UNCHANGED <<clock, holder, queue>>,
           \A x \in ProcessKey : sig[x].op = "KILL" => sig'[x].op = "KILL",
           NEW k \in Tracked, NEW s \in ProcessState, processMap' = [processMap EXCEPT ![k] = s],
           s.terminated = processMap[k].terminated, s.category_flags = {}, ~s.pending_network_connect,
           suspended' = suspended \ {k}
    PROVE  Cases!Next
<1>1. k \in ProcessKey /\ processMap'[k] = s /\ \A x \in ProcessKey \ {k} : processMap'[x] = processMap[x]
    BY DEF Tracked, TypeOK
<1>2. k \in Tracked' /\ \A x \in ProcessKey : x \in Tracked' <=> x \in Tracked
    BY <1>1, ConfigAssumption DEF Tracked
<1>3. Stage(k) \in {"open", "closed"} /\ Stage(k)' = Stage(k)
    BY <1>1, <1>2 DEF Stage
<1>4. Evidence(k)' = {}
    BY <1>1 DEF Evidence
<1>5. ASSUME NEW x \in ProcessKey \ {k} PROVE SameCase(x)
    <2>1. Awaited(x)' <=> Awaited(x)
        BY DEF Awaited, Created
    <2>2. Stage(x)' = Stage(x)
        BY <1>1, <1>2, <2>1 DEF Stage
    <2>3. Evidence(x)' = Evidence(x)
        BY <1>1, <1>2 DEF Evidence
    <2> QED BY <2>2, <2>3 DEF SameCase
<1> QED BY <1>1, <1>3, <1>4, <1>5, OverStays, DecisionMaps

LEMMA ResetClears ==
    ASSUME NEW s \in ProcessState
    PROVE  /\ Reset(s) \in ProcessState /\ Reset(s).terminated = s.terminated
           /\ Reset(s).category_flags = {} /\ ~Reset(s).pending_network_connect
BY DEF Reset, ProcessState

LEMMA TrustClears ==
    ASSUME NEW s \in ProcessState, NEW t, t = [Reset(s) EXCEPT !.is_untrusted = FALSE]
    PROVE  /\ t \in ProcessState /\ t.terminated = s.terminated
           /\ t.category_flags = {} /\ ~t.pending_network_connect
BY DEF Reset, ProcessState

(* A step beside the consumer that is no decision, or one that fails.      *)
LEMMA UnchangedMaps ==
    ASSUME TypeOK, CaseInv, AgentStep, UNCHANGED processMap, suspended \subseteq suspended'
    PROVE  Cases!Next
BY SameMapKeepsEntries, LearningMaps DEF Remembers

LEMMA PromptsMap ==
    ASSUME TypeOK, CaseInv, NEW k \in ProcessKey,
           PromptAllow(k) \/ PromptDeny(k) \/ PromptUnanswered(k)
    PROVE  Cases!Next
<1>1. AgentStep
    BY PromptStep DEF CaseInv
<1>2. UNCHANGED <<processMap, suspended>>
    BY DEF PromptAllow, PromptDeny, PromptUnanswered
<1> QED BY <1>1, <1>2, UnchangedMaps

(* Of the steps that follow it, the reset alone is the decision.           *)
LEMMA ContinueMaps == ASSUME TypeOK, CaseInv, Continue PROVE Cases!Next
<1>1. AgentStep
    BY ContinueStep DEF CaseInv
<1>2. ASSUME NEW r, ClosePopup(r) \/ SendStop(r) \/ Announce(r) \/ AnnounceRelease(r)
      PROVE  Cases!Next
    <2>1. UNCHANGED <<processMap, suspended>>
        BY <1>2 DEF ClosePopup, SendStop, Announce, AnnounceRelease
    <2> QED BY <1>1, <2>1, UnchangedMaps
<1>3. ASSUME NEW r \in releases, ResetDetection(r) PROVE Cases!Next
    <2>1. PICK k : k = r.root
        OBVIOUS
    <2>2. CASE k \in Tracked
        <3>1. /\ processMap' = [processMap EXCEPT ![k] = Reset(processMap[k])]
              /\ suspended' = suspended \ {k} /\ UNCHANGED <<clock, holder, queue>>
            BY <1>3, <2>1, <2>2 DEF ResetDetection
        <3>2. processMap[k] \in ProcessState
            BY <2>2 DEF Tracked, TypeOK
        <3> QED BY <1>1, <2>2, <3>1, <3>2, ResetClears, ResetMaps DEF AgentStep
    <2>3. CASE k \notin Tracked
        <3>1. UNCHANGED <<processMap, suspended>>
            BY <1>3, <2>1, <2>3 DEF ResetDetection
        <3> QED BY <1>1, <3>1, UnchangedMaps
    <2> QED BY <2>2, <2>3
<1> QED BY <1>2, <1>3 DEF Continue

LEMMA BackgroundMaps ==
    ASSUME TypeOK, CaseInv, AuditMode = FALSE, Background PROVE Cases!Next
<1>1. AgentStep /\ KeepsEntries
    BY AgentStepCases, OthersKeepEntries DEF CaseInv
<1>2. ASSUME NEW k \in ProcessKey, YaraVerdict(k) PROVE Cases!Next
    <2>1. UNCHANGED processMap /\ suspended \subseteq suspended'
        BY <1>2, SuspensionsStay DEF YaraVerdict
    <2> QED BY <1>1, <2>1, UnchangedMaps
<1>3. ASSUME NEW k \in ProcessKey, CleanupInstall(k) PROVE Cases!Next
    <2>1. UNCHANGED suspended /\ \E S \in SUBSET Tracked : processMap' = Marked(S)
        BY <1>3 DEF CleanupInstall
    <2> QED BY <1>1, <2>1, MarkedRemembers, LearningMaps
<1>4. CASE Purge
    <2>1. UNCHANGED suspended /\ \A k \in Tracked \cap Tracked' : Remembers(k)
        BY <1>4 DEF Purge, Tracked, Remembers
    <2> QED BY <1>1, <2>1, LearningMaps
<1> QED BY <1>2, <1>3, <1>4, PromptsMap, ContinueMaps DEF Background

LEMMA AdministratorMaps ==
    ASSUME TypeOK, CaseInv, AuditMode = FALSE, Administrator PROVE Cases!Next
<1>1. AgentStep
    BY AgentStepCases DEF CaseInv
<1>2. ASSUME NEW p \in Pid, ReleaseProcessTree(p) PROVE Cases!Next
    BY <1>1, <1>2, UnchangedMaps DEF ReleaseProcessTree
<1>3. ASSUME NEW p \in Pid, KillProcessTree(p) PROVE Cases!Next
    BY <1>1, <1>3, UnchangedMaps DEF KillProcessTree
<1>4. ASSUME NEW p \in Pid, TrustOnce(p) PROVE Cases!Next
    <2>1. PICK k \in Tracked :
             /\ processMap' = [processMap EXCEPT ![k] = [Reset(@) EXCEPT !.is_untrusted = FALSE]]
             /\ suspended' = suspended \ {k}
        BY <1>4 DEF TrustOnce
    <2>2. processMap[k] \in ProcessState /\ UNCHANGED <<clock, holder, queue>>
        BY <1>4 DEF Tracked, TypeOK, TrustOnce
    <2>3. PICK t : t = [Reset(processMap[k]) EXCEPT !.is_untrusted = FALSE]
        OBVIOUS
    <2>4. processMap' = [processMap EXCEPT ![k] = t]
        BY <2>1, <2>3
    <2>5. /\ t \in ProcessState /\ t.terminated = processMap[k].terminated
          /\ t.category_flags = {} /\ ~t.pending_network_connect
        BY <2>2, <2>3, TrustClears
    <2>6. \A x \in ProcessKey : sig[x].op = "KILL" => sig'[x].op = "KILL"
        BY <1>1 DEF AgentStep
    <2> QED BY <2>1, <2>2, <2>4, <2>5, <2>6, ResetMaps
<1> QED BY <1>2, <1>3, <1>4 DEF Administrator

(* A creation opens the case of the process that was waited for longest.   *)
LEMMA CreateMaps == ASSUME TypeOK, CaseInv, ProcessCreate PROVE Cases!Next
<1> DEFINE e == Head(queue)
<1>1. /\ queue # <<>> /\ 1 \in DOMAIN queue /\ queue[1] = e /\ e.type = "ProcessCreate"
      /\ UNCHANGED <<clock, holder>> /\ Dequeue
    BY DEF ProcessCreate, Handling, TypeOK
<1>2. PICK k : k = Created(e)
    OBVIOUS
<1>3. e \in CreateEvent /\ k \in ProcessKey
    <2>1. e \in CreateEvent
        BY <1>1, EventShape, QueueType DEF TypeOK
    <2> QED BY <1>2, <2>1 DEF CreateEvent, ProcessKey, Created
<1>4. PICK untrusted \in Verdict, inherited \in Inherited(ParentOf(e)) :
         processMap' = [processMap EXCEPT ![k] = NewState(e, inherited, untrusted)]
    BY <1>2 DEF ProcessCreate, Created
<1>5. PICK s : s = NewState(e, inherited, untrusted)
    OBVIOUS
<1>6. /\ processMap'[k] = s /\ \A x \in ProcessKey \ {k} : processMap'[x] = processMap[x]
      /\ ~s.terminated /\ s.category_flags = {} /\ ~s.pending_network_connect
    BY <1>3, <1>4, <1>5 DEF NewState, TypeOK
<1>7. k \in Tracked'
    <2>1. processMap'[k] \in ProcessState \cup {NoEntry}
        BY <1>3, ProcessCreateType DEF TypeOK
    <2>2. PICK t \in ProcessState : processMap' = [processMap EXCEPT ![k] = t]
        BY <1>2, CreatedEntry DEF Created
    <2> QED BY <1>3, <2>2, ConfigAssumption DEF Tracked, TypeOK
<1>8. Awaited(k) /\ k \notin Tracked
    <2>1. Awaited(k)
        BY <1>1, <1>2 DEF Awaited
    <2> QED BY <2>1, TrackedIsNotAwaited
<1>9. EngineCase(k)
    <2>1. Stage(k) = "unseen"
        BY <1>8 DEF Stage
    <2>2. Stage(k)' = "open" /\ Evidence(k)' = {}
        BY <1>6, <1>7 DEF Stage, Evidence
    <2> QED BY <2>1, <2>2 DEF EngineCase
<1>10. ASSUME NEW x \in ProcessKey \ {k} PROVE EngineCase(x)
    <2>1. Awaited(x)' => Awaited(x)
        BY <1>1, DequeueShrinks, NothingIsAwaitedAgain
    <2>2. x \in Tracked' <=> x \in Tracked
        BY <1>6 DEF Tracked
    <2>3. CASE x \in Tracked
        BY <1>6, <2>2, <2>3 DEF EngineCase, SameCase, Stage, Evidence
    <2>4. CASE x \notin Tracked
        BY <2>1, <2>2, <2>4, UntrackedCase
    <2> QED BY <2>3, <2>4
<1>11. suspended \subseteq suspended' /\ \A x \in ProcessKey : sig[x].op = "KILL" => sig'[x].op = "KILL"
    BY SuspendKillSticks, SuspensionsStay DEF ProcessCreate
<1> QED BY <1>1, <1>9, <1>10, <1>11, OverStays, EngineMaps

(* The system opens no case: a process it starts was waited for already.   *)
LEMMA SystemMaps == ASSUME TypeOK, System PROVE Cases!Next
<1>1. /\ UNCHANGED <<processMap, suspended, sig>> /\ Tracked' = Tracked
      /\ clock <= clock' /\ NoRevival
    BY OsEvent DEF Tracked
<1>2. PICK e \in Event : Emit(e) /\ (e.type = "ProcessCreate" => e.timestamp = clock + 1)
    BY OsEvent
<1>3. clock \in Nat /\ clock' \in Nat /\ \A k \in ProcessKey : k.start_time \in Nat
    <2>1. clock' \in Nat
        <3>1. TypeOK'
            BY NextType DEF Next
        <3> QED BY <3>1, ConfigAssumption DEF TypeOK
    <2> QED BY <2>1, ConfigAssumption DEF TypeOK, ProcessKey
<1>4. ASSUME NEW k \in ProcessKey, Awaited(k)' PROVE Awaited(k)
    <2>1. CASE k.start_time > clock'
        BY <1>1, <1>3, <2>1 DEF Awaited
    <2>2. ASSUME NEW n \in DOMAIN queue', queue'[n].type = "ProcessCreate", Created(queue'[n]) = k
          PROVE  Awaited(k)
        <3>1. (n \in DOMAIN queue /\ queue'[n] = queue[n]) \/ queue'[n] = e
            BY <1>2, EmitAppends
        <3>2. CASE queue'[n] = e
            <4>1. k.start_time = clock + 1
                BY <1>2, <2>2, <3>2 DEF Created
            <4> QED BY <1>3, <4>1 DEF Awaited
        <3>3. CASE n \in DOMAIN queue /\ queue'[n] = queue[n]
            BY <2>2, <3>3 DEF Awaited
        <3> QED BY <3>1, <3>2, <3>3
    <2> QED BY <1>4, <2>1, <2>2 DEF Awaited, Created
<1>5. ASSUME NEW k \in ProcessKey PROVE EngineCase(k)
    <2>1. CASE k \in Tracked
        BY <1>1, <2>1 DEF EngineCase, SameCase, Stage, Evidence
    <2>2. CASE k \notin Tracked
        BY <1>1, <1>4, <2>2, UntrackedCase
    <2> QED BY <2>1, <2>2
<1>6. Over \subseteq Over'
    <2> SUFFICES ASSUME NEW k \in ProcessKey, k.start_time <= clock, Gone(k)
                 PROVE  k.start_time <= clock' /\ Gone(k)'
        BY DEF Over
    <2>1. k.start_time <= clock'
        BY <1>1, <1>3
    <2>2. ~Alive(k) => ~Alive(k)'
        BY <1>1 DEF NoRevival
    <2> QED BY <1>1, <2>1, <2>2 DEF Gone
<1> QED BY <1>1, <1>5, <1>6, EngineMaps

LEMMA NextMaps ==
    ASSUME TypeOK, CaseInv, AuditMode = FALSE, [Next]_vars PROVE [Cases!Next]_Cases!vars
<1>1. CASE UNCHANGED vars
    <2>1. UNCHANGED <<processMap, queue, clock, holder, sig, suspended>>
        BY <1>1 DEF vars
    <2>2. \A k \in ProcessKey : Stage(k)' = Stage(k) /\ Evidence(k)' = Evidence(k)
        BY <2>1 DEF Stage, Evidence, Awaited, Tracked
    <2>3. Over' = Over
        BY <2>1 DEF Over, Gone, Alive
    <2> QED BY <2>1, <2>2, <2>3 DEF Cases!vars
<1>2. CASE HandleEvent /\ ~ProcessCreate
    BY <1>2, HandlersMap
<1> QED BY <1>1, <1>2, SystemMaps, CreateMaps, BackgroundMaps, AdministratorMaps DEF Next

LEMMA InitCases == Init => CaseInv /\ Cases!Init
<1> SUFFICES ASSUME Init PROVE CaseInv /\ Cases!Init
    OBVIOUS
<1>1. Tracked = {} /\ queue = <<>> /\ suspended = {}
    BY DEF Init, Tracked
<1>2. InOrder
    BY <1>1 DEF Init, InOrder
<1>3. \A k \in ProcessKey : Stage(k) \in {"unseen", "dropped"} /\ Evidence(k) = {}
    BY <1>1 DEF Stage, Evidence
<1>4. Cases!Init
    BY <1>1, <1>3 DEF Cases!Init, Over
<1> QED BY <1>2, <1>4, InitFinish DEF CaseInv

(* Outside audit mode the handlers, scans, prompts, purges and commands    *)
(* that share the engine's maps keep what CaseFile promises of every       *)
(* process: one case, opened once, closed when the process is over, and    *)
(* forgotten only by a decision about it or by the purge.                  *)
THEOREM CasesRefined ==
    ASSUME AuditMode = FALSE PROVE Spec => CasesKept
<1>1. TypeOK /\ CaseInv /\ [Next]_vars => CaseInv'
    BY NextFinish, NextInOrder DEF CaseInv
<1>2. TypeOK /\ CaseInv /\ [Next]_vars => [Cases!Next]_Cases!vars
    BY NextMaps
<1> QED BY <1>1, <1>2, InitCases, TypeCorrect, PTL DEF Spec, CasesKept, Cases!Spec
=============================================================================
