--------------------------- MODULE InstallProofs ---------------------------
(***************************************************************************)
(* Whose entry is whose: what an install starts is an install              *)
(* (InstallContextInherited), the rules that kill reach offenders only     *)
(* (OnlyOffendersKilled), and an event changes the entry of the process    *)
(* that caused it (ChargedToActor).  All three look an entry up by its pid *)
(* alone.  The first two hold as long as the kernel has not handed a pid   *)
(* out twice (PidReuse = FALSE in their theorems), the third always, but   *)
(* for installs.                                                           *)
(***************************************************************************)
EXTENDS HeuristicsProofs

USE DEF Time, responseVars, stepVars, osVars, engineVars

-----------------------------------------------------------------------------
(* The order of creations.                                                 *)

Creation(n) == n \in DOMAIN queue /\ queue[n].type = "ProcessCreate"

(* The start time of a process tells its pid.                              *)
NamedByPid ==
    /\ \A k \in Tracked : k.start_time = k.pid
    /\ \A n \in DOMAIN queue : Creation(n) => queue[n].timestamp = queue[n].child_pid

(* Creations are handled in the order in which the processes started.      *)
InOrder ==
    /\ \A p \in Pid : holder[p] <= clock
    /\ \A k \in Tracked : k.start_time <= clock
    /\ \A n \in DOMAIN queue : Creation(n) => queue[n].timestamp <= clock
    /\ \A m, n \in DOMAIN queue :
          Creation(m) /\ Creation(n) /\ m < n => queue[m].timestamp < queue[n].timestamp
    /\ \A k \in Tracked, n \in DOMAIN queue : Creation(n) => k.start_time < queue[n].timestamp

(* The real parent is the process that caused the creation, and older.     *)
ParentsFirst ==
    /\ \A n \in DOMAIN queue : Creation(n) =>
          /\ queue[n].actor.pid = queue[n].real_parent_pid
          /\ queue[n].actor.start_time < queue[n].timestamp
    /\ \A k \in Tracked : processMap[k].creator.start_time < k.start_time

InheritInv == NamedByPid /\ InOrder /\ ParentsFirst /\ InstallContextInherited

-----------------------------------------------------------------------------
(* Whatever happens to an entry, it stays the entry of the same process.   *)

SameProcess(s, t) ==
    /\ t.creator = s.creator /\ t.image = s.image
    /\ t.is_install_context = s.is_install_context
    /\ t.is_top_level_install = s.is_top_level_install
    /\ s.terminated => t.terminated

KeepsEntries ==
    \A k \in ProcessKey :
        \/ processMap'[k] = NoEntry
        \/ k \in Tracked /\ SameProcess(processMap[k], processMap'[k])

LEMMA MarkedKeepsEntries ==
    ASSUME TypeOK, NEW S \in SUBSET Tracked, processMap' = Marked(S) PROVE KeepsEntries
<1> SUFFICES ASSUME NEW k \in ProcessKey, k \in Tracked
             PROVE  SameProcess(processMap[k], processMap'[k])
    BY DEF KeepsEntries, Marked, Tracked
<1>1. processMap[k] \in ProcessState
    BY DEF Tracked, TypeOK
<1> QED BY <1>1 DEF Marked, SameProcess, ProcessState

LEMMA OneEntryKeepsEntries ==
    ASSUME TypeOK, NEW k \in Tracked, NEW s, SameProcess(processMap[k], s),
           processMap' = [processMap EXCEPT ![k] = s]
    PROVE  KeepsEntries
BY DEF KeepsEntries, SameProcess, Tracked, TypeOK

LEMMA SameMapKeepsEntries == ASSUME UNCHANGED processMap PROVE KeepsEntries
BY DEF KeepsEntries, SameProcess, Tracked

LEMMA TerminateKeepsEntries ==
    ASSUME TypeOK, NEW k, TerminateThreat(k) PROVE KeepsEntries
BY OnePerPidTracked, MarkedKeepsEntries DEF TerminateThreat

(* Every handler but process_create keeps the entries.                     *)
LEMMA HandlersKeepEntries == ASSUME TypeOK, HandleEvent PROVE KeepsEntries \/ ProcessCreate
<1>1. CASE Untracked \/ PtraceAttach \/ MemoryProtect
    BY <1>1, SameMapKeepsEntries DEF Untracked, PtraceAttach, MemoryProtect
<1>2. CASE ProcessStop
    <2>1. Live(Head(queue).pid) \in SUBSET Tracked
        BY DEF Live
    <2> QED BY <1>2, <2>1, MarkedKeepsEntries, SameMapKeepsEntries DEF ProcessStop
<1>3. CASE FileRead
    <2> DEFINE e == Head(queue)
               Read(k) == [processMap[k] EXCEPT !.category_flags = @ \cup CategoryOf[e.file],
                                                !.unique_files_read = @ \cup {e.file}]
    <2>1. PICK k \in Live(e.pid) :
             UNCHANGED processMap \/ processMap' = [processMap EXCEPT ![k] = Read(k)]
        BY <1>3 DEF FileRead
    <2>2. k \in Tracked /\ processMap[k] \in ProcessState
        BY LiveFacts DEF TypeOK
    <2>3. SameProcess(processMap[k], Read(k))
        BY <2>2 DEF SameProcess, ProcessState
    <2> QED BY <2>1, <2>2, <2>3, OneEntryKeepsEntries, SameMapKeepsEntries
<1>4. CASE NetworkConnect
    <2>1. PICK k \in Live(Head(queue).pid) :
             processMap' = [processMap EXCEPT ![k].pending_network_connect = TRUE]
        BY <1>4 DEF NetworkConnect
    <2>2. k \in Tracked /\ processMap[k] \in ProcessState
        BY LiveFacts DEF TypeOK
    <2>3. SameProcess(processMap[k], [processMap[k] EXCEPT !.pending_network_connect = TRUE])
        BY <2>2 DEF SameProcess, ProcessState
    <2> QED BY <2>1, <2>2, <2>3, OneEntryKeepsEntries
<1>5. CASE FileWrite
    <2>1. PICK k \in Live(Head(queue).pid) :
             HangsOn(k) \/ TerminateThreat(k) \/ UNCHANGED processMap
        BY <1>5, FileWriteCases
    <2>2. CASE HangsOn(k)
        BY <2>2, MarkedKeepsEntries DEF HangsOn
    <2> QED BY <2>1, <2>2, TerminateKeepsEntries, SameMapKeepsEntries
<1>6. CASE FileOpen \/ Dup2 \/ RegistryWrite
    BY <1>6, TerminateKeepsEntries, SameMapKeepsEntries
    DEF FileOpen, Dup2, RegistryWrite, TerminateInstall
<1> QED BY <1>1, <1>2, <1>3, <1>4, <1>5, <1>6 DEF HandleEvent

(* So does everything that runs beside the consumer.                       *)
LEMMA OthersKeepEntries == ASSUME TypeOK, Background \/ Administrator PROVE KeepsEntries
<1>1. ASSUME NEW k \in Tracked, processMap' = [processMap EXCEPT ![k] = Reset(@)]
      PROVE  KeepsEntries
    <2>1. SameProcess(processMap[k], Reset(processMap[k]))
        BY DEF Tracked, TypeOK, SameProcess, Reset, ProcessState
    <2> QED BY <1>1, <2>1, OneEntryKeepsEntries
<1>2. ASSUME NEW k \in ProcessKey, YaraVerdict(k) \/ PromptDeny(k) \/ PromptUnanswered(k)
      PROVE  KeepsEntries
    BY <1>2, SameMapKeepsEntries DEF YaraVerdict, PromptDeny, PromptUnanswered
<1>3. ASSUME NEW k \in ProcessKey, PromptAllow(k) PROVE KeepsEntries
    BY <1>3, SameMapKeepsEntries DEF PromptAllow
<1>4. ASSUME NEW k \in ProcessKey, CleanupInstall(k) PROVE KeepsEntries
    BY <1>4, MarkedKeepsEntries DEF CleanupInstall
<1>5. CASE Purge
    <2>1. \A k \in ProcessKey : processMap'[k] = NoEntry \/ processMap'[k] = processMap[k]
        BY <1>5 DEF Purge
    <2> QED BY <2>1 DEF KeepsEntries, SameProcess, Tracked
<1>6. ASSUME NEW p \in Pid, ReleaseProcessTree(p) PROVE KeepsEntries
    BY <1>6, SameMapKeepsEntries DEF ReleaseProcessTree
<1>7. ASSUME NEW p \in Pid, KillProcessTree(p) PROVE KeepsEntries
    BY <1>7, SameMapKeepsEntries DEF KillProcessTree
<1>8. ASSUME NEW p \in Pid, TrustOnce(p) PROVE KeepsEntries
    <2>1. PICK k \in Tracked :
             processMap' = [processMap EXCEPT ![k] = [Reset(@) EXCEPT !.is_untrusted = FALSE]]
        BY <1>8 DEF TrustOnce
    <2>2. SameProcess(processMap[k], [Reset(processMap[k]) EXCEPT !.is_untrusted = FALSE])
        BY DEF Tracked, TypeOK, SameProcess, Reset, ProcessState
    <2> QED BY <2>1, <2>2, OneEntryKeepsEntries
<1>9. CASE Continue
    <2>1. ASSUME NEW q, ClosePopup(q) \/ SendStop(q) \/ Announce(q) \/ AnnounceRelease(q)
          PROVE  KeepsEntries
        BY <2>1, SameMapKeepsEntries DEF ClosePopup, SendStop, Announce, AnnounceRelease
    <2>2. ASSUME NEW q, ResetDetection(q) PROVE KeepsEntries
        BY <1>1, <2>2, SameMapKeepsEntries DEF ResetDetection
    <2> QED BY <1>9, <2>1, <2>2 DEF Continue
<1> QED BY <1>2, <1>3, <1>4, <1>5, <1>6, <1>7, <1>8, <1>9 DEF Background, Administrator

-----------------------------------------------------------------------------
(* The order of creations is kept by every step, pids used again or not.   *)

(* A step that creates no entry.                                           *)
LEMMA KeptEntriesInOrder ==
    ASSUME TypeOK, InOrder, KeepsEntries, UNCHANGED <<clock, holder>>,
           queue' = queue \/ queue' = <<>> \/ (queue # <<>> /\ queue' = Tail(queue))
    PROVE  InOrder'
<1>1. \A k \in Tracked' : k \in Tracked
    BY DEF KeepsEntries, Tracked
<1>2. \A n \in DOMAIN queue' : \E j \in DOMAIN queue : queue'[n] = queue[j]
    BY QueueShrinksOne
<1>3. \A m, n \in DOMAIN queue' : Creation(m)' /\ Creation(n)' /\ m < n
          => queue'[m].timestamp < queue'[n].timestamp
    <2> SUFFICES ASSUME NEW m \in DOMAIN queue', NEW n \in DOMAIN queue', m < n,
                        queue'[m].type = "ProcessCreate", queue'[n].type = "ProcessCreate"
                 PROVE  queue'[m].timestamp < queue'[n].timestamp
        BY DEF Creation
    <2>1. PICK i, j \in DOMAIN queue : i < j /\ queue'[m] = queue[i] /\ queue'[n] = queue[j]
        BY QueueShrinks
    <2> QED BY <2>1 DEF InOrder, Creation
<1>4. \A n \in DOMAIN queue' : Creation(n)' => queue'[n].timestamp <= clock'
    BY <1>2 DEF InOrder, Creation
<1>5. \A k \in Tracked', n \in DOMAIN queue' : Creation(n)' => k.start_time < queue'[n].timestamp
    BY <1>1, <1>2 DEF InOrder, Creation
<1>6. /\ \A p \in Pid : holder'[p] <= clock'
      /\ \A k \in Tracked' : k.start_time <= clock'
    BY <1>1 DEF InOrder
<1> QED BY <1>3, <1>4, <1>5, <1>6 DEF InOrder

(* process_create takes the oldest creation in the queue.                  *)
LEMMA CreateInOrder == ASSUME TypeOK, InOrder, ProcessCreate PROVE InOrder'
<1> DEFINE e == Head(queue)
           k == [pid |-> e.child_pid, start_time |-> e.timestamp]
<1>1. /\ queue # <<>> /\ 1 \in DOMAIN queue /\ queue[1] = e /\ e.type = "ProcessCreate"
      /\ UNCHANGED <<clock, holder>> /\ Dequeue
    BY DEF ProcessCreate, Handling, TypeOK
<1>2. \A x \in Tracked' : x = k \/ x \in Tracked
    BY CreatedEntry DEF Tracked, TypeOK
<1>3. \A n \in DOMAIN queue' : \E j \in DOMAIN queue : 1 < j /\ queue'[n] = queue[j]
    <2> SUFFICES ASSUME NEW n \in DOMAIN queue' PROVE \E j \in DOMAIN queue : 1 < j /\ queue'[n] = queue[j]
        OBVIOUS
    <2>1. (queue' = <<>> \/ queue' = Tail(queue)) /\ queue \in Seq(Event)
        BY <1>1 DEF Dequeue, TypeOK
    <2>2. n + 1 \in DOMAIN queue /\ queue'[n] = queue[n + 1] /\ 1 < n + 1
        BY <1>1, <2>1
    <2> QED BY <2>2
<1>4. Creation(1) /\ e.timestamp <= clock /\ k.start_time = e.timestamp
    BY <1>1 DEF Creation, InOrder
<1>5. \A m, n \in DOMAIN queue' : Creation(m)' /\ Creation(n)' /\ m < n
          => queue'[m].timestamp < queue'[n].timestamp
    <2> SUFFICES ASSUME NEW m \in DOMAIN queue', NEW n \in DOMAIN queue', m < n,
                        queue'[m].type = "ProcessCreate", queue'[n].type = "ProcessCreate"
                 PROVE  queue'[m].timestamp < queue'[n].timestamp
        BY DEF Creation
    <2>1. PICK i, j \in DOMAIN queue : i < j /\ queue'[m] = queue[i] /\ queue'[n] = queue[j]
        BY <1>1, DequeueShrinks, QueueShrinks
    <2> QED BY <2>1 DEF InOrder, Creation
<1>6. \A n \in DOMAIN queue' : Creation(n)' => queue'[n].timestamp <= clock'
    BY <1>1, <1>3 DEF InOrder, Creation
<1>7. \A n \in DOMAIN queue' : Creation(n)' => e.timestamp < queue'[n].timestamp
    BY <1>1, <1>3, <1>4 DEF InOrder, Creation
<1>8. \A x \in Tracked, n \in DOMAIN queue' : Creation(n)' => x.start_time < queue'[n].timestamp
    BY <1>3 DEF InOrder, Creation
<1>9. /\ \A p \in Pid : holder'[p] <= clock'
      /\ \A x \in Tracked' : x.start_time <= clock'
    BY <1>1, <1>2, <1>4 DEF InOrder
<1> HIDE DEF k, e
<1> QED BY <1>2, <1>4, <1>5, <1>6, <1>7, <1>8, <1>9 DEF InOrder

(* What the operating system does.                                         *)
LEMMA OsInOrder ==
    ASSUME TypeOK, InOrder, NEW e \in Event, Emit(e), UNCHANGED engineVars,
           clock' \in Time, clock <= clock', \A p \in Pid : holder'[p] <= clock',
           e.type = "ProcessCreate" => e.timestamp = clock + 1 /\ clock' = clock + 1
    PROVE  InOrder'
<1>1. UNCHANGED processMap /\ Tracked' = Tracked
    BY DEF Tracked
<1>2. clock \in Nat /\ clock' \in Nat /\ \A k \in Tracked : k.start_time \in Nat
    BY ConfigAssumption DEF TypeOK, Tracked, ProcessKey
<1>3. \A n \in DOMAIN queue' : (n \in DOMAIN queue /\ queue'[n] = queue[n]) \/ queue'[n] = e
    BY EmitAppends
<1>4. \A m, n \in DOMAIN queue' : m < n => m \in DOMAIN queue /\ queue'[m] = queue[m]
    BY EmitAppends
<1>5. \A n \in DOMAIN queue : Creation(n) => queue[n].timestamp \in Nat
    <2> SUFFICES ASSUME NEW n \in DOMAIN queue, Creation(n) PROVE queue[n].timestamp \in Nat
        OBVIOUS
    <2>1. queue[n] \in CreateEvent
        BY EventShape DEF TypeOK, Creation
    <2> QED BY <2>1, ConfigAssumption DEF CreateEvent
<1>6. \A m, n \in DOMAIN queue' : Creation(m)' /\ Creation(n)' /\ m < n
          => queue'[m].timestamp < queue'[n].timestamp
    <2> SUFFICES ASSUME NEW m \in DOMAIN queue', NEW n \in DOMAIN queue', m < n,
                        queue'[m].type = "ProcessCreate", queue'[n].type = "ProcessCreate"
                 PROVE  queue'[m].timestamp < queue'[n].timestamp
        BY DEF Creation
    <2>1. m \in DOMAIN queue /\ queue'[m] = queue[m] /\ Creation(m)
        BY <1>4 DEF Creation
    <2>2. CASE queue'[n] = e
        <3>1. queue[m].timestamp <= clock /\ queue[m].timestamp \in Nat /\ e.timestamp = clock + 1
            BY <1>5, <2>1, <2>2 DEF InOrder
        <3> QED BY <1>2, <2>1, <2>2, <3>1
    <2>3. CASE n \in DOMAIN queue /\ queue'[n] = queue[n]
        BY <2>1, <2>3 DEF InOrder, Creation
    <2> QED BY <1>3, <2>2, <2>3
<1>7. \A n \in DOMAIN queue' : Creation(n)' => queue'[n].timestamp <= clock'
    BY <1>2, <1>3, <1>5 DEF InOrder, Creation
<1>8. \A k \in Tracked', n \in DOMAIN queue' : Creation(n)' => k.start_time < queue'[n].timestamp
    BY <1>1, <1>2, <1>3 DEF InOrder, Creation
<1>9. \A k \in Tracked' : k.start_time <= clock'
    BY <1>1, <1>2 DEF InOrder
<1> QED BY <1>6, <1>7, <1>8, <1>9 DEF InOrder

-----------------------------------------------------------------------------
(* The invariant is kept by every step.                                    *)

(* A step that creates no entry.                                           *)
LEMMA KeptEntriesInherit ==
    ASSUME TypeOK, InheritInv, KeepsEntries, UNCHANGED <<clock, holder>>,
           queue' = queue \/ queue' = <<>> \/ (queue # <<>> /\ queue' = Tail(queue))
    PROVE  InheritInv'
<1>1. \A k \in Tracked' : k \in Tracked /\ SameProcess(processMap[k], processMap'[k])
    BY DEF KeepsEntries, Tracked
<1>2. \A n \in DOMAIN queue' : \E j \in DOMAIN queue : queue'[n] = queue[j]
    BY QueueShrinksOne
<1>3. NamedByPid'
    BY <1>1, <1>2 DEF InheritInv, NamedByPid, Creation
<1>4. InOrder'
    BY KeptEntriesInOrder DEF InheritInv
<1>5. ParentsFirst'
    <2>1. \A n \in DOMAIN queue' : Creation(n)' =>
              /\ queue'[n].actor.pid = queue'[n].real_parent_pid
              /\ queue'[n].actor.start_time < queue'[n].timestamp
        BY <1>2 DEF InheritInv, ParentsFirst, Creation
    <2>2. \A k \in Tracked' : processMap'[k].creator.start_time < k.start_time
        BY <1>1 DEF InheritInv, ParentsFirst, SameProcess
    <2> QED BY <2>1, <2>2 DEF ParentsFirst
<1>6. InstallContextInherited'
    <2> SUFFICES ASSUME NEW k \in Tracked', processMap'[k].creator \in Tracked',
                        ~processMap'[processMap'[k].creator].terminated,
                        processMap'[processMap'[k].creator].is_install_context
                 PROVE  processMap'[k].is_install_context
        BY DEF InstallContextInherited
    <2> DEFINE q == processMap[k].creator
    <2>1. k \in Tracked /\ SameProcess(processMap[k], processMap'[k]) /\ processMap'[k].creator = q
        BY <1>1 DEF SameProcess
    <2>2. q \in Tracked /\ SameProcess(processMap[q], processMap'[q])
        BY <1>1, <2>1
    <2>3. ~processMap[q].terminated /\ processMap[q].is_install_context
        BY <2>1, <2>2 DEF SameProcess
    <2>4. processMap[k].is_install_context
        BY <2>1, <2>2, <2>3 DEF InheritInv, InstallContextInherited
    <2> QED BY <2>1, <2>4 DEF SameProcess
<1> QED BY <1>3, <1>4, <1>5, <1>6 DEF InheritInv

(* Only one entry can have the pid of a process the agent knows.           *)
LEMMA LookupIsUnique ==
    ASSUME TypeOK, NamedByPid, NEW q \in Tracked, ~processMap[q].terminated
    PROVE  Live(q.pid) = {q}
<1>1. \A k \in Tracked : k.pid = q.pid => k = q
    BY DEF NamedByPid, Tracked, ProcessKey
<1> QED BY <1>1 DEF Live

(* process_create: the parent is looked up by its pid alone.               *)
LEMMA CreateInherits == ASSUME TypeOK, InheritInv, ProcessCreate PROVE InheritInv'
<1> DEFINE e == Head(queue)
           k == [pid |-> e.child_pid, start_time |-> e.timestamp]
<1>1. /\ queue # <<>> /\ 1 \in DOMAIN queue /\ queue[1] = e /\ e.type = "ProcessCreate"
      /\ UNCHANGED <<clock, holder>> /\ Dequeue
    BY DEF ProcessCreate, Handling, TypeOK
<1>2. e \in CreateEvent /\ k \in ProcessKey
    <2>1. e \in CreateEvent
        BY <1>1, EventShape, QueueType DEF TypeOK
    <2> QED BY <2>1 DEF CreateEvent, ProcessKey
<1>3. PICK untrusted \in Verdict, inherited \in Inherited(e.real_parent_pid) :
         processMap' = [processMap EXCEPT ![k] = NewState(e, inherited, untrusted)]
    BY DEF ProcessCreate, ParentOf
<1>4. /\ processMap'[k] = NewState(e, inherited, untrusted)
      /\ \A x \in ProcessKey \ {k} : processMap'[x] = processMap[x]
    BY <1>2, <1>3 DEF TypeOK
<1>5. \A x \in Tracked' : x = k \/ (x \in Tracked /\ processMap'[x] = processMap[x])
    BY <1>4 DEF Tracked
<1>6. \A n \in DOMAIN queue' : \E j \in DOMAIN queue : 1 < j /\ queue'[n] = queue[j]
    <2> SUFFICES ASSUME NEW n \in DOMAIN queue' PROVE \E j \in DOMAIN queue : 1 < j /\ queue'[n] = queue[j]
        OBVIOUS
    <2>1. (queue' = <<>> \/ queue' = Tail(queue)) /\ queue \in Seq(Event)
        BY <1>1 DEF Dequeue, TypeOK
    <2>2. n + 1 \in DOMAIN queue /\ queue'[n] = queue[n + 1] /\ 1 < n + 1
        BY <1>1, <2>1
    <2> QED BY <2>2
<1>7. Creation(1) /\ e.timestamp <= clock /\ e.timestamp = e.child_pid
    BY <1>1 DEF Creation, InheritInv, InOrder, NamedByPid
<1>8. NamedByPid'
    BY <1>5, <1>6, <1>7 DEF InheritInv, NamedByPid, Creation
<1>9. InOrder'
    BY CreateInOrder DEF InheritInv
<1>10. e.actor.pid = e.real_parent_pid /\ e.actor.start_time < e.timestamp
    BY <1>1, <1>7 DEF InheritInv, ParentsFirst
<1>11. processMap'[k].creator = e.actor
    BY <1>4 DEF NewState
<1>12. ParentsFirst'
    <2>1. \A n \in DOMAIN queue' : Creation(n)' =>
              /\ queue'[n].actor.pid = queue'[n].real_parent_pid
              /\ queue'[n].actor.start_time < queue'[n].timestamp
        BY <1>6 DEF InheritInv, ParentsFirst, Creation
    <2>2. \A x \in Tracked' : processMap'[x].creator.start_time < x.start_time
        BY <1>5, <1>10, <1>11 DEF InheritInv, ParentsFirst
    <2> QED BY <2>1, <2>2 DEF ParentsFirst
<1>13. InstallContextInherited'
    <2> SUFFICES ASSUME NEW x \in Tracked', processMap'[x].creator \in Tracked',
                        ~processMap'[processMap'[x].creator].terminated,
                        processMap'[processMap'[x].creator].is_install_context
                 PROVE  processMap'[x].is_install_context
        BY DEF InstallContextInherited
    <2> DEFINE q == processMap'[x].creator
    <2>1. CASE x = k
        <3>1. q = e.actor /\ q # k
            <4>1. q = e.actor
                BY <1>11, <2>1
            <4>2. e.timestamp \in Nat /\ k.start_time = e.timestamp
                BY <1>2, ConfigAssumption DEF CreateEvent
            <4>3. q.start_time < e.timestamp
                BY <1>10, <4>1
            <4>4. q # k
                <5> SUFFICES ASSUME q = k PROVE FALSE
                    OBVIOUS
                <5>1. q.start_time = e.timestamp
                    BY <4>2
                <5> QED BY <4>2, <4>3, <5>1
            <4> QED BY <4>1, <4>4
        <3>2. q \in Tracked /\ processMap'[q] = processMap[q]
            BY <1>5, <3>1
        <3>3. Live(e.real_parent_pid) = {q}
            BY <1>10, <3>1, <3>2, LookupIsUnique DEF InheritInv
        <3>4. inherited = [context |-> processMap[q].is_install_context,
                           root |-> processMap[q].install_root_pid]
            BY <1>3, <3>3 DEF Inherited
        <3>5. inherited.context = TRUE
            <4>1. q \in ProcessKey /\ processMap[q] \in ProcessState
                BY <3>2 DEF Tracked, TypeOK
            <4>2. processMap'[q].is_install_context
                OBVIOUS
            <4>3. processMap[q].is_install_context \in BOOLEAN
                BY <4>1 DEF ProcessState
            <4>4. processMap[q].is_install_context = TRUE
                BY <3>2, <4>2, <4>3
            <4> QED BY <3>4, <4>4
        <3>6. NewState(e, inherited, untrusted).is_install_context
                  = (e.image \in Installer \/ inherited.context)
            BY DEF NewState
        <3> QED BY <1>4, <2>1, <3>5, <3>6
    <2>2. CASE x # k
        <3>1. x \in Tracked /\ processMap'[x] = processMap[x]
            BY <1>5, <2>2
        <3>2. q # k
            <4>1. q.start_time < x.start_time /\ x.start_time < e.timestamp
                BY <1>1, <1>7, <3>1 DEF InheritInv, ParentsFirst, InOrder
            <4>2. x.start_time \in Nat /\ e.timestamp \in Nat
                BY <1>2, <3>1, ConfigAssumption DEF CreateEvent, Tracked, ProcessKey
            <4> QED BY <4>1, <4>2
        <3>3. q \in Tracked /\ processMap'[q] = processMap[q]
            BY <1>5, <3>2
        <3> QED BY <3>1, <3>3 DEF InheritInv, InstallContextInherited
    <2> QED BY <2>1, <2>2
<1> QED BY <1>8, <1>9, <1>12, <1>13 DEF InheritInv

(* What the operating system does.                                         *)
LEMMA OsKeepsInherit ==
    ASSUME TypeOK, InheritInv, NEW e \in Event, Emit(e), UNCHANGED engineVars,
           clock' \in Time, clock <= clock', \A p \in Pid : holder'[p] <= clock',
           e.type = "ProcessCreate" =>
               /\ e.timestamp = e.child_pid /\ e.timestamp = clock + 1 /\ clock' = clock + 1
               /\ e.actor.pid = e.real_parent_pid /\ e.actor.start_time < e.timestamp
    PROVE  InheritInv'
<1>1. UNCHANGED processMap /\ Tracked' = Tracked
    BY DEF Tracked
<1>2. \A n \in DOMAIN queue' : (n \in DOMAIN queue /\ queue'[n] = queue[n]) \/ queue'[n] = e
    BY EmitAppends
<1>3. NamedByPid'
    BY <1>1, <1>2 DEF InheritInv, NamedByPid, Creation
<1>4. InOrder'
    BY OsInOrder DEF InheritInv
<1>5. ParentsFirst'
    <2>1. \A n \in DOMAIN queue' : Creation(n)' =>
              /\ queue'[n].actor.pid = queue'[n].real_parent_pid
              /\ queue'[n].actor.start_time < queue'[n].timestamp
        BY <1>2 DEF InheritInv, ParentsFirst, Creation
    <2>2. \A k \in Tracked' : processMap'[k].creator.start_time < k.start_time
        BY <1>1 DEF InheritInv, ParentsFirst
    <2> QED BY <2>1, <2>2 DEF ParentsFirst
<1>6. InstallContextInherited'
    BY <1>1 DEF InheritInv, InstallContextInherited
<1> QED BY <1>3, <1>4, <1>5, <1>6 DEF InheritInv

(* A reported action is not a creation, and tells who did it.              *)
LEMMA ActEmits ==
    ASSUME TypeOK, NEW p \in Pid, Act(p)
    PROVE  \E e \in Event : /\ Emit(e) /\ e.type # "ProcessCreate"
                            /\ e.pid = p /\ e.actor = Current(p)
<1>1. Current(p) \in ProcessKey
    BY ConfigAssumption DEF Current, ProcessKey, TypeOK
<1>2. ASSUME NEW t \in FileEventType \cap Emits, NEW f \in File,
             Emit([type |-> t, pid |-> p, file |-> f, actor |-> Current(p)])
      PROVE  \E e \in Event : /\ Emit(e) /\ e.type # "ProcessCreate"
                              /\ e.pid = p /\ e.actor = Current(p)
    <2>1. [type |-> t, pid |-> p, file |-> f, actor |-> Current(p)] \in FileEvent
        BY <1>1 DEF FileEvent
    <2> QED BY <1>2, <2>1 DEF Event, FileEventType
<1>3. ASSUME NEW t \in (PlainEventType \ {"ProcessStop"}) \cap Emits,
             Emit([type |-> t, pid |-> p, actor |-> Current(p)])
      PROVE  \E e \in Event : /\ Emit(e) /\ e.type # "ProcessCreate"
                              /\ e.pid = p /\ e.actor = Current(p)
    <2>1. [type |-> t, pid |-> p, actor |-> Current(p)] \in PlainEvent
        BY <1>1 DEF PlainEvent
    <2> QED BY <1>3, <2>1 DEF Event, PlainEventType
<1> QED BY <1>2, <1>3 DEF Act

LEMMA SystemInherits ==
    ASSUME TypeOK, InheritInv, PidReuse = FALSE, System PROVE InheritInv'
<1>1. ASSUME NEW p \in Pid, NEW c \in Pid, NEW i \in Image, NEW q \in Pid, Fork(p, c, i, q)
      PROVE  InheritInv'
    <2> DEFINE e == [type |-> "ProcessCreate", pid |-> q, child_pid |-> c,
                     real_parent_pid |-> p, timestamp |-> clock + 1, image |-> i,
                     actor |-> Current(p)]
    <2>1. clock \in Nat /\ clock + 1 \in Time \ {0} /\ Current(p) \in ProcessKey /\ holder[p] \in Nat
        BY <1>1, ConfigAssumption DEF Fork, Current, ProcessKey, TypeOK
    <2>2. e \in Event /\ e.type = "ProcessCreate"
        BY <2>1 DEF Event, CreateEvent
    <2>3. /\ Emit(e) /\ UNCHANGED engineVars /\ clock' = clock + 1 /\ c = clock + 1
          /\ holder' = [holder EXCEPT ![c] = clock + 1]
        BY <1>1 DEF Fork
    <2>4. \A x \in Pid : holder'[x] <= clock'
        <3>1. \A x \in Pid : holder[x] \in Nat /\ holder[x] <= clock
            <4>1. holder \in [Pid -> Time] /\ Time \subseteq Nat
                BY ConfigAssumption DEF TypeOK
            <4> QED BY <4>1 DEF InheritInv, InOrder
        <3>2. \A x \in Pid : holder'[x] = clock + 1 \/ holder'[x] = holder[x]
            BY <2>3 DEF TypeOK
        <3> QED BY <2>1, <2>3, <3>1, <3>2
    <2>5. e.actor.pid = e.real_parent_pid /\ e.actor.start_time < e.timestamp
        BY <2>1 DEF Current, InheritInv, InOrder
    <2> QED BY <2>1, <2>2, <2>3, <2>4, <2>5, OsKeepsInherit
<1>2. ASSUME NEW p \in Pid, Exit(p) PROVE InheritInv'
    <2> DEFINE e == [type |-> "ProcessStop", pid |-> p, actor |-> Current(p)]
    <2>1. Current(p) \in ProcessKey /\ clock \in Time /\ clock \in Nat
        BY ConfigAssumption DEF Current, ProcessKey, TypeOK
    <2>2. e \in Event /\ e.type = "ProcessStop"
        BY <2>1 DEF Event, PlainEvent, PlainEventType
    <2>3. Emit(e) /\ UNCHANGED engineVars /\ clock' = clock /\ holder' = [holder EXCEPT ![p] = 0]
        BY <1>2 DEF Exit
    <2>4. \A x \in Pid : holder'[x] <= clock'
        BY <2>1, <2>3 DEF TypeOK, InheritInv, InOrder
    <2> QED BY <2>1, <2>2, <2>3, <2>4, OsKeepsInherit
<1>3. ASSUME NEW p \in Pid, Act(p) PROVE InheritInv'
    <2>1. Current(p) \in ProcessKey /\ clock \in Time /\ clock \in Nat
        BY ConfigAssumption DEF Current, ProcessKey, TypeOK
    <2>2. UNCHANGED <<clock, holder>> /\ UNCHANGED engineVars /\ \A x \in Pid : holder'[x] <= clock'
        BY <1>3 DEF Act, InheritInv, InOrder
    <2>3. PICK e \in Event : Emit(e) /\ e.type # "ProcessCreate"
        BY <1>3, ActEmits
    <2> QED BY <2>1, <2>2, <2>3, OsKeepsInherit
<1> QED BY <1>1, <1>2, <1>3 DEF System

(* Where the queue goes when an event is handled.                          *)
LEMMA HandlerQueue ==
    ASSUME HandleEvent
    PROVE  /\ UNCHANGED <<clock, holder>>
           /\ queue' = queue \/ queue' = <<>> \/ (queue # <<>> /\ queue' = Tail(queue))
BY DequeueShrinks
DEF HandleEvent, Handling, Untracked, ProcessCreate, ProcessStop, FileRead, NetworkConnect,
    FileWrite, FileOpen, Dup2, RegistryWrite, PtraceAttach, MemoryProtect

(* Beside the handlers only a response that panics touches the queue.      *)
LEMMA OthersLeaveQueue ==
    ASSUME Background \/ Administrator
    PROVE  /\ UNCHANGED <<clock, holder>>
           /\ queue' = queue \/ (queue' = <<>> /\ UNCHANGED processMap)
<1>1. CASE Continue
    <2>1. PICK q : \/ ClosePopup(q) \/ SendStop(q) \/ Announce(q)
                   \/ ResetDetection(q) \/ AnnounceRelease(q)
        BY <1>1 DEF Continue
    <2> QED BY <2>1 DEF ClosePopup, SendStop, Announce, ResetDetection, AnnounceRelease
<1>2. CASE ~Continue
    BY <1>2 DEF Background, Administrator, YaraVerdict, PromptAllow, PromptDeny,
       PromptUnanswered, CleanupInstall, Purge, ReleaseProcessTree, KillProcessTree, TrustOnce
<1> QED BY <1>1, <1>2

LEMMA SystemInOrder == ASSUME TypeOK, InOrder, System PROVE InOrder'
<1>1. clock \in Nat /\ clock \in Time /\ \A p \in Pid : Current(p) \in ProcessKey
    BY ConfigAssumption DEF Current, ProcessKey, TypeOK
<1>2. \A x \in Pid : holder[x] \in Nat /\ holder[x] <= clock
    <2>1. holder \in [Pid -> Time] /\ Time \subseteq Nat
        BY ConfigAssumption DEF TypeOK
    <2> QED BY <2>1 DEF InOrder
<1>3. ASSUME NEW p \in Pid, NEW c \in Pid, NEW i \in Image, NEW q \in Pid, Fork(p, c, i, q)
      PROVE  InOrder'
    <2> DEFINE e == [type |-> "ProcessCreate", pid |-> q, child_pid |-> c,
                     real_parent_pid |-> p, timestamp |-> clock + 1, image |-> i,
                     actor |-> Current(p)]
    <2>1. clock + 1 \in Time \ {0}
        BY <1>1, <1>3, ConfigAssumption DEF Fork
    <2>2. e \in Event /\ e.type = "ProcessCreate" /\ e.timestamp = clock + 1
        BY <1>1, <2>1 DEF Event, CreateEvent
    <2>3. /\ Emit(e) /\ UNCHANGED engineVars /\ clock' = clock + 1
          /\ holder' = [holder EXCEPT ![c] = clock + 1]
        BY <1>3 DEF Fork
    <2>4. \A x \in Pid : holder'[x] = clock + 1 \/ holder'[x] = holder[x]
        BY <2>3 DEF TypeOK
    <2>5. \A x \in Pid : holder'[x] <= clock'
        BY <1>1, <1>2, <2>3, <2>4
    <2> QED BY <1>1, <2>1, <2>2, <2>3, <2>5, OsInOrder
<1>4. ASSUME NEW p \in Pid, Exit(p) PROVE InOrder'
    <2> DEFINE e == [type |-> "ProcessStop", pid |-> p, actor |-> Current(p)]
    <2>1. e \in Event /\ e.type = "ProcessStop"
        BY <1>1 DEF Event, PlainEvent, PlainEventType
    <2>2. Emit(e) /\ UNCHANGED engineVars /\ clock' = clock /\ holder' = [holder EXCEPT ![p] = 0]
        BY <1>4 DEF Exit
    <2>3. \A x \in Pid : holder'[x] <= clock'
        BY <1>1, <1>2, <2>2 DEF TypeOK
    <2> QED BY <1>1, <2>1, <2>2, <2>3, OsInOrder
<1>5. ASSUME NEW p \in Pid, Act(p) PROVE InOrder'
    <2>1. UNCHANGED <<clock, holder>> /\ UNCHANGED engineVars /\ \A x \in Pid : holder'[x] <= clock'
        BY <1>2, <1>5 DEF Act
    <2>2. PICK e \in Event : Emit(e) /\ e.type # "ProcessCreate"
        BY <1>5, ActEmits
    <2> QED BY <1>1, <2>1, <2>2, OsInOrder
<1> QED BY <1>3, <1>4, <1>5 DEF System

LEMMA NextInOrder == ASSUME TypeOK, InOrder, [Next]_vars PROVE InOrder'
<1>1. CASE HandleEvent
    BY <1>1, HandlersKeepEntries, HandlerQueue, KeptEntriesInOrder, CreateInOrder
<1>2. CASE Background \/ Administrator
    BY <1>2, OthersKeepEntries, OthersLeaveQueue, KeptEntriesInOrder
<1>3. CASE UNCHANGED vars
    BY <1>3, SameMapKeepsEntries, KeptEntriesInOrder DEF vars
<1> QED BY <1>1, <1>2, <1>3, SystemInOrder DEF Next

LEMMA NextInherits ==
    ASSUME TypeOK, InheritInv, PidReuse = FALSE, [Next]_vars PROVE InheritInv'
<1>1. CASE HandleEvent
    BY <1>1, HandlersKeepEntries, HandlerQueue, KeptEntriesInherit, CreateInherits
<1>2. CASE Background \/ Administrator
    BY <1>2, OthersKeepEntries, OthersLeaveQueue, KeptEntriesInherit
<1>3. CASE UNCHANGED vars
    BY <1>3, SameMapKeepsEntries, KeptEntriesInherit DEF vars
<1> QED BY <1>1, <1>2, <1>3, SystemInherits DEF Next

LEMMA InitInherits == Init => InheritInv
<1> SUFFICES ASSUME Init PROVE InheritInv
    OBVIOUS
<1>1. Tracked = {} /\ DOMAIN queue = {}
    BY DEF Init, Tracked
<1>2. \A p \in Pid : holder[p] <= clock
    BY DEF Init
<1> QED BY <1>1, <1>2 DEF InheritInv, NamedByPid, InOrder, ParentsFirst, InstallContextInherited, Creation

(* Until a pid is handed out twice, every tracked child of a live install  *)
(* is itself in the install's context, whichever parent it claims, in      *)
(* whatever order creations, terminations, releases and purges are handled.*)
THEOREM InstallIsInherited ==
    ASSUME PidReuse = FALSE PROVE Spec => []InstallContextInherited
<1>1. InheritInv => InstallContextInherited
    BY DEF InheritInv
<1>2. TypeOK /\ InheritInv /\ [Next]_vars => InheritInv'
    BY NextInherits
<1> QED BY <1>1, <1>2, InitInherits, TypeCorrect, PTL DEF Spec

-----------------------------------------------------------------------------
(* Only offenders are killed.                                              *)

Killed(k) == sig[k] = [op |-> "KILL", by |-> "engine"]

(* Where nobody is asked, no prompt is denied for want of an answer.  The  *)
(* trees the engine knows are roots alone.  The pid of a tracked process   *)
(* is its own, or free.  A process killed was tracked, and an offender.    *)
KillInv ==
    /\ \A k \in ProcessKey : prompts[k] = 0
    /\ \A k \in ProcessKey : k.start_time # 0 => childrenMap[k] = {}
    /\ \A k \in cleanups : k.start_time # 0
    /\ clock >= 1
    /\ \A k \in Tracked : k.start_time > 1 /\ holder[k.pid] \in {0, k.start_time}
    /\ \A n \in DOMAIN queue : Creation(n) =>
          /\ queue[n].timestamp > 1
          /\ holder[queue[n].child_pid] \in {0, queue[n].timestamp}
    /\ \A k \in ProcessKey : Killed(k) =>
          /\ k.start_time > 1 /\ k.start_time <= clock
          /\ k \in Tracked => Offender(processMap[k])
          /\ \A n \in DOMAIN queue : Creation(n) => Created(queue[n]) # k

(* What a step that creates no entry may do.                               *)
KillsOffenders ==
    \A k \in ProcessKey : Killed(k)' => Killed(k) \/ (k \in Tracked /\ Offender(processMap[k]))

QuietStep ==
    /\ UNCHANGED <<clock, holder, childrenMap, prompts>>
    /\ queue' = queue \/ queue' = <<>> \/ (queue # <<>> /\ queue' = Tail(queue))
    /\ \A k \in cleanups' : k \in cleanups \/ k \in Tracked
    /\ KeepsEntries /\ KillsOffenders

LEMMA QuietStepKills ==
    ASSUME TypeOK, InheritInv, KillInv, QuietStep PROVE KillInv'
<1>1. \A k \in Tracked' : k \in Tracked /\ SameProcess(processMap[k], processMap'[k])
    BY DEF QuietStep, KeepsEntries, Tracked
<1>2. \A n \in DOMAIN queue' : \E j \in DOMAIN queue : queue'[n] = queue[j]
    BY QueueShrinksOne DEF QuietStep
<1>3. /\ \A k \in ProcessKey : prompts'[k] = 0
      /\ \A k \in ProcessKey : k.start_time # 0 => childrenMap'[k] = {}
      /\ clock' >= 1
    BY DEF QuietStep, KillInv
<1>4. \A k \in Tracked : k.start_time \in Nat /\ k.start_time > 1 /\ k.start_time # 0
    BY ConfigAssumption DEF KillInv, Tracked, ProcessKey
<1>5. \A k \in cleanups' : k.start_time # 0
    BY <1>4 DEF QuietStep, KillInv
<1>6. \A k \in Tracked' : k.start_time > 1 /\ holder'[k.pid] \in {0, k.start_time}
    BY <1>1 DEF QuietStep, KillInv
<1>7. \A n \in DOMAIN queue' : Creation(n)' =>
          /\ queue'[n].timestamp > 1
          /\ holder'[queue'[n].child_pid] \in {0, queue'[n].timestamp}
    BY <1>2 DEF QuietStep, KillInv, Creation
<1>8. ASSUME NEW k \in ProcessKey, Killed(k)'
      PROVE  /\ k.start_time > 1 /\ k.start_time <= clock'
             /\ k \in Tracked' => Offender(processMap'[k])
             /\ \A n \in DOMAIN queue' : Creation(n)' => Created(queue'[n]) # k
    <2>1. Killed(k) \/ (k \in Tracked /\ Offender(processMap[k]))
        BY <1>8 DEF QuietStep, KillsOffenders
    <2>2. k \in Tracked => Offender(processMap[k])
        BY <2>1 DEF KillInv
    <2>3. k \in Tracked' => Offender(processMap'[k])
        BY <1>1, <2>2 DEF SameProcess, Offender
    <2>4. k.start_time > 1 /\ k.start_time <= clock'
        BY <2>1 DEF KillInv, QuietStep, InheritInv, InOrder
    <2>5. ASSUME NEW n \in DOMAIN queue, Creation(n) PROVE Created(queue[n]) # k
        <3>1. CASE Killed(k)
            BY <2>5, <3>1 DEF KillInv
        <3>2. CASE k \in Tracked
            <4>1. k.start_time < queue[n].timestamp /\ k.start_time \in Nat
                BY <1>4, <2>5, <3>2 DEF InheritInv, InOrder
            <4>2. Created(queue[n]).start_time = queue[n].timestamp
                BY DEF Created
            <4> QED BY <4>1, <4>2
        <3> QED BY <2>1, <3>1, <3>2
    <2>6. \A n \in DOMAIN queue' : Creation(n)' => Created(queue'[n]) # k
        BY <1>2, <2>5 DEF Creation
    <2> QED BY <2>3, <2>4, <2>6
<1> QED BY <1>3, <1>5, <1>6, <1>7, <1>8 DEF KillInv

-----------------------------------------------------------------------------
(* Signals.                                                                *)

LEMMA OtherSignals ==
    ASSUME NEW pids, NEW op, NEW by, op # "KILL" \/ by # "engine",
           sig' = Signalled(pids, op, by) \/ sig' = sig
    PROVE  \A k \in ProcessKey : Killed(k)' => Killed(k)
BY DEF Signalled, Killed

(* A handler that begins a suspension signals nobody yet.                  *)
LEMMA SuspendKillsNobody ==
    ASSUME NEW k, NEW b, BeginSuspension(k, b) \/ UNCHANGED responseVars
    PROVE  UNCHANGED prompts /\ \A x \in ProcessKey : Killed(x)' => Killed(x)
BY DEF BeginSuspension, Killed

(* Where no session is active, its last step asks nobody.                  *)
LEMMA ContinueKillsNobody ==
    ASSUME TypeOK, Gui \subseteq {FALSE}, Continue
    PROVE  /\ \A x \in ProcessKey : Killed(x)' => Killed(x)
           /\ UNCHANGED <<childrenMap, prompts, cleanups>>
<1>1. ASSUME NEW q, SendStop(q)
      PROVE  /\ \A x \in ProcessKey : Killed(x)' => Killed(x)
             /\ UNCHANGED <<childrenMap, prompts, cleanups>>
    <2>1. sig' = Signalled(TreePids(q.root), "STOP", "engine") \/ sig' = sig
        BY <1>1 DEF SendStop
    <2> QED BY <1>1, <2>1, OtherSignals DEF SendStop
<1>2. ASSUME NEW q, Announce(q) PROVE UNCHANGED <<sig, childrenMap, prompts, cleanups>>
    BY <1>2 DEF Announce
<1>3. ASSUME NEW q, ClosePopup(q) \/ ResetDetection(q) \/ AnnounceRelease(q)
      PROVE  UNCHANGED <<sig, childrenMap, prompts, cleanups>>
    BY <1>3 DEF ClosePopup, ResetDetection, AnnounceRelease
<1> QED BY <1>1, <1>2, <1>3 DEF Continue, Killed

(* A tree is its root.                                                     *)
LEMMA RootAlone ==
    ASSUME TypeOK, KillInv, NEW k \in ProcessKey, k.start_time # 0
    PROVE  DescendantPids(k) = {} /\ TreePids(k) = {k.pid}
<1>1. Descendants(k) = {}
    BY DEF Descendants, KillInv
<1> QED BY <1>1 DEF DescendantPids, TreePids

(* Terminating a tracked offender kills that process and no other.         *)
LEMMA ThreatKills ==
    ASSUME TypeOK, KillInv, NEW k \in Tracked, Offender(processMap[k]), sig' = ThreatSignals(k)
    PROVE  KillsOffenders
<1>1. k \in ProcessKey /\ k.start_time # 0 /\ holder[k.pid] \in {0, k.start_time}
    BY ConfigAssumption DEF KillInv, Tracked, ProcessKey
<1>2. TreePids(k) = {k.pid}
    BY <1>1, RootAlone
<1> SUFFICES ASSUME NEW x \in ProcessKey, Killed(x)', ~Killed(x)
             PROVE  x = k
    BY DEF KillsOffenders
<1>3. x.pid = k.pid /\ Alive(x)
    BY <1>2 DEF ThreatSignals, Signalled, Killed
<1>4. x.start_time = k.start_time
    BY <1>1, <1>3 DEF Alive
<1> QED BY <1>1, <1>3, <1>4 DEF ProcessKey

-----------------------------------------------------------------------------
(* The handlers.                                                           *)

LEMMA NobodyKilled ==
    ASSUME \A k \in ProcessKey : Killed(k)' => Killed(k) PROVE KillsOffenders
BY DEF KillsOffenders

LEMMA TerminateKills ==
    ASSUME TypeOK, KillInv, NEW k \in Tracked, Offender(processMap[k]), TerminateThreat(k)
    PROVE  KillsOffenders /\ UNCHANGED prompts
BY ThreatKills DEF TerminateThreat

LEMMA FileWriteKills ==
    ASSUME TypeOK, KillInv, FileWrite PROVE KillsOffenders /\ UNCHANGED prompts
<1> DEFINE e == Head(queue)
<1>1. PICK k \in Live(e.pid) :
         \/ Unauthorised(k, e.file) /\ sig' = ThreatSignals(k) /\ UNCHANGED prompts
         \/ Unauthorised(k, e.file) /\ TerminateThreat(k)
         \/ processMap[k].is_install_context /\ TerminateThreat(k)
         \/ UNCHANGED responseVars
    BY DEF FileWrite
<1>2. k \in Tracked
    BY DEF Live
<1>3. CASE Unauthorised(k, e.file) \/ processMap[k].is_install_context
    <2>1. Offender(processMap[k])
        BY <1>3 DEF Unauthorised, Offender
    <2>2. CASE UNCHANGED responseVars
        BY <2>2, NobodyKilled DEF Killed
    <2> QED BY <1>1, <1>2, <2>1, <2>2, ThreatKills, TerminateKills
<1>4. CASE UNCHANGED responseVars
    BY <1>4, NobodyKilled DEF Killed
<1> QED BY <1>1, <1>3, <1>4

LEMMA InstallHandlersKill ==
    ASSUME TypeOK, KillInv, FileOpen \/ Dup2 \/ RegistryWrite
    PROVE  KillsOffenders /\ UNCHANGED prompts
<1>1. PICK k \in Live(Head(queue).pid) :
         \/ processMap[k].is_install_context /\ TerminateThreat(k)
         \/ UNCHANGED responseVars
    BY DEF FileOpen, Dup2, RegistryWrite, TerminateInstall
<1>2. CASE processMap[k].is_install_context /\ TerminateThreat(k)
    <2>1. k \in Tracked
        BY DEF Live
    <2> QED BY <1>2, <2>1, TerminateKills DEF Offender
<1>3. CASE UNCHANGED responseVars
    BY <1>3, NobodyKilled DEF Killed
<1> QED BY <1>1, <1>2, <1>3

LEMMA HandlersAreQuiet ==
    ASSUME TypeOK, KillInv, Gui \subseteq {FALSE}, HandleEvent PROVE QuietStep \/ ProcessCreate
<1> SUFFICES ASSUME ~ProcessCreate PROVE QuietStep
    OBVIOUS
<1>1. KillsOffenders /\ UNCHANGED prompts
    <2>1. CASE Untracked \/ ProcessStop
        <3>1. UNCHANGED <<sig, prompts>>
            BY <2>1 DEF Untracked, ProcessStop
        <3> QED BY <3>1, NobodyKilled DEF Killed
    <2>2. CASE FileRead \/ NetworkConnect
        <3>1. PICK k : BeginSuspension(k, "handler") \/ UNCHANGED responseVars
            BY <2>2 DEF FileRead, NetworkConnect
        <3> QED BY <3>1, SuspendKillsNobody, NobodyKilled
    <2>3. CASE PtraceAttach \/ MemoryProtect
        <3>1. PICK k, by : BeginSuspension(k, by) \/ UNCHANGED responseVars
            BY <2>3 DEF PtraceAttach, MemoryProtect, SuspendUntrusted
        <3> QED BY <3>1, SuspendKillsNobody, NobodyKilled
    <2> QED BY <2>1, <2>2, <2>3, FileWriteKills, InstallHandlersKill DEF HandleEvent
<1>2. UNCHANGED childrenMap
    BY DEF HandleEvent, Untracked, ProcessStop, FileRead, NetworkConnect, FileWrite, FileOpen,
           Dup2, RegistryWrite, PtraceAttach, MemoryProtect
<1>3. \A k \in cleanups' : k \in cleanups \/ k \in Tracked
    BY DEF HandleEvent, Untracked, ProcessStop, FileRead, NetworkConnect, FileWrite, FileOpen,
           Dup2, RegistryWrite, PtraceAttach, MemoryProtect, Live
<1> QED BY <1>1, <1>2, <1>3, HandlersKeepEntries, HandlerQueue DEF QuietStep

LEMMA OthersAreQuiet ==
    ASSUME TypeOK, KillInv, Gui \subseteq {FALSE}, Background \/ Administrator PROVE QuietStep
<1>1. /\ \A k \in ProcessKey : Killed(k)' => Killed(k)
      /\ UNCHANGED <<childrenMap, prompts>> /\ cleanups' \subseteq cleanups
    <2>1. ASSUME NEW k \in ProcessKey, YaraVerdict(k)
          PROVE  /\ \A x \in ProcessKey : Killed(x)' => Killed(x)
                 /\ UNCHANGED <<childrenMap, prompts>> /\ cleanups' \subseteq cleanups
        BY <2>1, SuspendKillsNobody DEF YaraVerdict
    <2>2. ASSUME NEW k \in ProcessKey, PromptAllow(k) \/ PromptDeny(k) \/ PromptUnanswered(k)
          PROVE  FALSE
        <3>1. prompts[k] = 0
            BY DEF KillInv
        <3> QED BY <2>2, <3>1 DEF PromptAllow, PromptDeny, PromptUnanswered
    <2>3. ASSUME NEW k \in ProcessKey, CleanupInstall(k)
          PROVE  /\ \A x \in ProcessKey : Killed(x)' => Killed(x)
                 /\ UNCHANGED <<childrenMap, prompts>> /\ cleanups' \subseteq cleanups
        <3>1. DescendantPids(k) = {}
            BY <2>3, RootAlone DEF CleanupInstall, KillInv
        <3>2. PICK orphans \in OnePerPid({}) : \E done \in SUBSET orphans :
                 sig' = sig \/ sig' = Signalled({m.pid : m \in done}, "KILL", "engine")
            BY <2>3, <3>1 DEF CleanupInstall
        <3>3. orphans = {}
            BY DEF OnePerPid
        <3>4. sig' = sig \/ sig' = Signalled({}, "KILL", "engine")
            BY <3>2, <3>3
        <3>5. \A x \in ProcessKey : Killed(x)' => Killed(x)
            BY <3>4 DEF Signalled, Killed
        <3> QED BY <2>3, <3>5 DEF CleanupInstall
    <2>4. CASE Purge
        BY <2>4 DEF Purge, Killed
    <2>5. ASSUME NEW p \in Pid, ReleaseProcessTree(p) \/ KillProcessTree(p) \/ TrustOnce(p)
          PROVE  /\ \A x \in ProcessKey : Killed(x)' => Killed(x)
                 /\ UNCHANGED <<childrenMap, prompts>> /\ cleanups' \subseteq cleanups
        BY <2>5, OtherSignals DEF ReleaseProcessTree, BeginRelease, KillProcessTree, TrustOnce
    <2> QED BY <2>1, <2>2, <2>3, <2>4, <2>5, ContinueKillsNobody DEF Background, Administrator
<1> QED BY <1>1, NobodyKilled, OthersKeepEntries, OthersLeaveQueue DEF QuietStep

(* process_create: the entry is new, and so is its process.                *)
LEMMA CreateKills ==
    ASSUME TypeOK, InheritInv, KillInv, Gui \subseteq {FALSE}, ProcessCreate PROVE KillInv'
<1> DEFINE e == Head(queue)
           k == [pid |-> e.child_pid, start_time |-> e.timestamp]
<1>1. /\ queue # <<>> /\ 1 \in DOMAIN queue /\ queue[1] = e /\ Creation(1)
      /\ UNCHANGED <<clock, holder, cleanups>> /\ Dequeue
    BY DEF ProcessCreate, Handling, TypeOK, Creation
<1>2. e \in CreateEvent /\ k \in ProcessKey /\ k = Created(e)
    <2>1. e \in CreateEvent
        BY <1>1, EventShape, QueueType DEF TypeOK, Creation
    <2> QED BY <2>1 DEF CreateEvent, ProcessKey, Created
<1>3. \A x \in ProcessKey \ {k} : processMap'[x] = processMap[x]
    BY <1>2, CreatedEntry DEF TypeOK
<1>4. \A x \in Tracked' : x = k \/ (x \in Tracked /\ processMap'[x] = processMap[x])
    BY <1>3 DEF Tracked
<1>5. \A n \in DOMAIN queue' : \E j \in DOMAIN queue : queue'[n] = queue[j]
    BY <1>1, DequeueShrinks, QueueShrinksOne
<1>6. e.timestamp > 1 /\ holder[e.child_pid] \in {0, e.timestamp}
    BY <1>1 DEF KillInv
<1>7. UNCHANGED prompts /\ \A x \in ProcessKey : Killed(x)' => Killed(x)
    <2>1. BeginSuspension(k, "handler") \/ UNCHANGED <<sig, prompts>>
        BY DEF ProcessCreate
    <2>2. CASE UNCHANGED <<sig, prompts>>
        BY <2>2 DEF Killed
    <2> QED BY <2>1, <2>2, SuspendKillsNobody
<1>8. \A x \in ProcessKey : x.start_time # 0 => childrenMap'[x] = {}
    <2>1. childrenMap' = [childrenMap EXCEPT ![WildCard(e.pid)] = @ \cup {k}]
        BY DEF ProcessCreate
    <2>2. WildCard(e.pid).start_time = 0
        BY DEF WildCard
    <2>3. \A x \in ProcessKey : x.start_time # 0 => childrenMap'[x] = childrenMap[x]
        BY <2>1, <2>2 DEF TypeOK
    <2> QED BY <2>3 DEF KillInv
<1>9. \A x \in Tracked' : x.start_time > 1 /\ holder'[x.pid] \in {0, x.start_time}
    BY <1>1, <1>4, <1>6 DEF KillInv
<1>10. \A n \in DOMAIN queue' : Creation(n)' =>
          /\ queue'[n].timestamp > 1
          /\ holder'[queue'[n].child_pid] \in {0, queue'[n].timestamp}
    BY <1>1, <1>5 DEF KillInv, Creation
<1>11. ASSUME NEW x \in ProcessKey, Killed(x)'
       PROVE  /\ x.start_time > 1 /\ x.start_time <= clock'
              /\ x \in Tracked' => Offender(processMap'[x])
              /\ \A n \in DOMAIN queue' : Creation(n)' => Created(queue'[n]) # x
    <2>1. Killed(x)
        BY <1>7, <1>11
    <2>2. x # k
        BY <1>1, <1>2, <2>1 DEF KillInv
    <2>3. x \in Tracked' => Offender(processMap'[x])
        BY <1>4, <2>1, <2>2 DEF KillInv
    <2>4. \A n \in DOMAIN queue' : Creation(n)' => Created(queue'[n]) # x
        BY <1>5, <2>1 DEF KillInv, Creation
    <2> QED BY <1>1, <2>1, <2>3, <2>4 DEF KillInv
<1> QED BY <1>1, <1>7, <1>8, <1>9, <1>10, <1>11 DEF KillInv

-----------------------------------------------------------------------------
(* The operating system: a new process gets a pid nobody ever had.         *)

LEMMA OsKeepsKills ==
    ASSUME TypeOK, InheritInv, KillInv, NEW e \in Event, Emit(e), UNCHANGED engineVars,
           clock' \in Time, clock <= clock',
           \A p \in Pid : holder'[p] \in {0, holder[p]} \/ (holder'[p] = clock + 1 /\ p = clock + 1),
           e.type = "ProcessCreate" =>
               /\ e.timestamp = clock + 1 /\ e.child_pid = clock + 1
               /\ holder'[e.child_pid] = clock + 1
    PROVE  KillInv'
<1>1. UNCHANGED <<processMap, childrenMap, prompts, cleanups, sig>> /\ Tracked' = Tracked
    BY DEF Tracked
<1>2. clock \in Nat /\ clock' \in Nat /\ clock >= 1 /\ clock' >= 1
    BY ConfigAssumption DEF TypeOK, KillInv
<1>3. \A n \in DOMAIN queue' : (n \in DOMAIN queue /\ queue'[n] = queue[n]) \/ queue'[n] = e
    BY EmitAppends
<1>4. ASSUME NEW k \in Tracked PROVE k.start_time > 1 /\ holder'[k.pid] \in {0, k.start_time}
    <2>1. k.pid \in Pid /\ k.pid \in Nat /\ k.pid = k.start_time /\ k.start_time <= clock
        BY ConfigAssumption DEF Tracked, ProcessKey, InheritInv, NamedByPid, InOrder
    <2>2. holder'[k.pid] \in {0, holder[k.pid]}
        BY <1>2, <2>1
    <2> QED BY <2>2 DEF KillInv
<1>5. ASSUME NEW n \in DOMAIN queue', Creation(n)'
      PROVE  queue'[n].timestamp > 1 /\ holder'[queue'[n].child_pid] \in {0, queue'[n].timestamp}
    <2>1. CASE queue'[n] = e
        BY <1>2, <1>5, <2>1 DEF Creation
    <2>2. CASE n \in DOMAIN queue /\ queue'[n] = queue[n]
        <3> DEFINE c == queue[n].child_pid
        <3>1. Creation(n) /\ queue[n] \in CreateEvent
            BY <1>5, <2>2, EventShape DEF Creation, TypeOK
        <3>2. c \in Pid /\ c \in Nat /\ c = queue[n].timestamp /\ queue[n].timestamp <= clock
            <4>1. c \in Pid /\ c \in Nat
                BY <3>1, ConfigAssumption DEF CreateEvent
            <4>2. n \in DOMAIN queue
                BY <2>2
            <4> QED BY <3>1, <4>1, <4>2 DEF InheritInv, NamedByPid, InOrder
        <3>3. holder'[c] \in {0, holder[c]}
            BY <1>2, <3>2
        <3> QED BY <2>2, <3>1, <3>3 DEF KillInv
    <2> QED BY <1>3, <2>1, <2>2
<1>6. ASSUME NEW k \in ProcessKey, Killed(k)'
      PROVE  /\ k.start_time > 1 /\ k.start_time <= clock'
             /\ k \in Tracked' => Offender(processMap'[k])
             /\ \A n \in DOMAIN queue' : Creation(n)' => Created(queue'[n]) # k
    <2>1. Killed(k) /\ k.start_time \in Nat
        BY <1>1, <1>6, ConfigAssumption DEF Killed, ProcessKey
    <2>2. k.start_time > 1 /\ k.start_time <= clock
        BY <2>1 DEF KillInv
    <2>3. k.start_time <= clock'
        BY <1>2, <2>1, <2>2
    <2>4. ASSUME NEW n \in DOMAIN queue', Creation(n)' PROVE Created(queue'[n]) # k
        <3>1. CASE queue'[n] = e
            BY <1>2, <2>1, <2>2, <2>4, <3>1 DEF Creation, Created
        <3>2. CASE n \in DOMAIN queue /\ queue'[n] = queue[n]
            BY <2>1, <2>4, <3>2 DEF KillInv, Creation
        <3> QED BY <1>3, <3>1, <3>2
    <2>5. k \in Tracked' => Offender(processMap'[k])
        BY <1>1, <2>1 DEF KillInv
    <2> QED BY <2>2, <2>3, <2>4, <2>5
<1> QED BY <1>1, <1>2, <1>4, <1>5, <1>6 DEF KillInv

LEMMA SystemKills ==
    ASSUME TypeOK, InheritInv, KillInv, PidReuse = FALSE, System PROVE KillInv'
<1>1. ASSUME NEW p \in Pid, NEW c \in Pid, NEW i \in Image, NEW q \in Pid, Fork(p, c, i, q)
      PROVE  KillInv'
    <2> DEFINE e == [type |-> "ProcessCreate", pid |-> q, child_pid |-> c,
                     real_parent_pid |-> p, timestamp |-> clock + 1, image |-> i,
                     actor |-> Current(p)]
    <2>1. clock \in Nat /\ clock + 1 \in Time \ {0} /\ Current(p) \in ProcessKey
        BY <1>1, ConfigAssumption DEF Fork, Current, ProcessKey, TypeOK
    <2>2. e \in Event
        BY <2>1 DEF Event, CreateEvent
    <2>3. /\ Emit(e) /\ UNCHANGED engineVars /\ clock' = clock + 1 /\ c = clock + 1
          /\ holder' = [holder EXCEPT ![c] = clock + 1]
        BY <1>1 DEF Fork
    <2>4. holder'[c] = clock + 1 /\ \A x \in Pid \ {c} : holder'[x] = holder[x]
        BY <2>3 DEF TypeOK
    <2> QED BY <2>1, <2>2, <2>3, <2>4, OsKeepsKills
<1>2. ASSUME NEW p \in Pid, Exit(p) PROVE KillInv'
    <2> DEFINE e == [type |-> "ProcessStop", pid |-> p, actor |-> Current(p)]
    <2>1. Current(p) \in ProcessKey /\ clock \in Time /\ clock \in Nat
        BY ConfigAssumption DEF Current, ProcessKey, TypeOK
    <2>2. e \in Event /\ e.type = "ProcessStop"
        BY <2>1 DEF Event, PlainEvent, PlainEventType
    <2>3. Emit(e) /\ UNCHANGED engineVars /\ clock' = clock /\ holder' = [holder EXCEPT ![p] = 0]
        BY <1>2 DEF Exit
    <2>4. \A x \in Pid : holder'[x] \in {0, holder[x]}
        BY <2>3 DEF TypeOK
    <2> QED BY <2>1, <2>2, <2>3, <2>4, OsKeepsKills
<1>3. ASSUME NEW p \in Pid, Act(p) PROVE KillInv'
    <2>1. clock \in Time /\ clock \in Nat
        BY ConfigAssumption DEF TypeOK
    <2>2. UNCHANGED <<clock, holder>> /\ UNCHANGED engineVars
        BY <1>3 DEF Act
    <2>3. PICK e \in Event : Emit(e) /\ e.type # "ProcessCreate"
        BY <1>3, ActEmits
    <2> QED BY <2>1, <2>2, <2>3, OsKeepsKills
<1> QED BY <1>1, <1>2, <1>3 DEF System

LEMMA NextKills ==
    ASSUME TypeOK, InheritInv, KillInv, PidReuse = FALSE, Gui \subseteq {FALSE}, [Next]_vars
    PROVE  KillInv'
<1>1. CASE UNCHANGED vars
    <2>1. KeepsEntries
        BY <1>1, SameMapKeepsEntries DEF vars
    <2>2. KillsOffenders
        BY <1>1, NobodyKilled DEF vars, Killed
    <2>3. UNCHANGED <<clock, holder, childrenMap, prompts, queue, cleanups>>
        BY <1>1 DEF vars
    <2>4. QuietStep
        BY <2>1, <2>2, <2>3 DEF QuietStep
    <2> QED BY <2>4, QuietStepKills
<1> QED BY <1>1, SystemKills, HandlersAreQuiet, CreateKills, OthersAreQuiet, QuietStepKills DEF Next

LEMMA InitKills == Init => KillInv
<1> SUFFICES ASSUME Init PROVE KillInv
    OBVIOUS
<1>1. Tracked = {} /\ DOMAIN queue = {} /\ clock = 1 /\ cleanups = {}
    BY DEF Init, Tracked
<1>2. \A k \in ProcessKey : prompts[k] = 0 /\ childrenMap[k] = {} /\ ~Killed(k)
    BY DEF Init, Killed
<1> QED BY <1>1, <1>2 DEF KillInv, Creation

(* Until a pid is handed out twice, and where no desktop session can leave *)
(* a prompt unanswered, the engine kills only processes it has tracked and *)
(* that are offenders: never a bystander, never one older than the agent.  *)
THEOREM OnlyOffenders ==
    ASSUME PidReuse = FALSE, Gui \subseteq {FALSE} PROVE Spec => []OnlyOffendersKilled
<1>1. TypeOK /\ InheritInv /\ KillInv /\ [Next]_vars => InheritInv' /\ KillInv'
    BY NextInherits, NextKills
<1>2. KillInv => OnlyOffendersKilled
    BY DEF KillInv, Killed, OnlyOffendersKilled
<1> QED BY <1>1, <1>2, InitInherits, InitKills, TypeCorrect, PTL DEF Spec

-----------------------------------------------------------------------------
(* Whom an event is charged to, when pids are used again.                  *)

(* The process an event is about.                                          *)
Subject(e) == IF e.type = "ProcessCreate" THEN Created(e) ELSE e.actor

NotAhead(k) ==
    /\ k.start_time # 0 /\ k.start_time <= clock
    /\ holder[k.pid] = 0 \/ k.start_time <= holder[k.pid]

(* Of the holders of one pid, the older one's events come first, and none  *)
(* is tracked before its turn.                                             *)
Succession ==
    /\ \A p \in Pid : holder[p] <= clock
    /\ \A k \in Tracked : NotAhead(k)
    /\ \A n \in DOMAIN queue :
          /\ NotAhead(Subject(queue[n]))
          /\ queue[n].type = "ProcessCreate" \/ queue[n].actor.pid = queue[n].pid
    /\ \A m, n \in DOMAIN queue :
          m < n /\ Subject(queue[m]).pid = Subject(queue[n]).pid
              => Subject(queue[m]).start_time <= Subject(queue[n]).start_time
    /\ \A k \in Tracked, n \in DOMAIN queue :
          k.pid = Subject(queue[n]).pid => k.start_time <= Subject(queue[n]).start_time

(* The consumer thread still takes events, or will when it has responded.  *)
Receives == consumer \in {"running", "responding"}

(* It responds to one event at a time.                                     *)
OneResponder ==
    \A r, q \in responses :
        r.by # "scan" /\ q.by # "scan" => r = q /\ consumer = "responding"

(* As long as events are handled, the end of a process that the agent      *)
(* takes for running, or will, is still to be handled.                     *)
StopQueued(k, m) ==
    \E n \in DOMAIN queue : n > m /\ queue[n].type = "ProcessStop" /\ queue[n].actor = k

StopsToCome ==
    Receives =>
        /\ \A k \in Tracked : Alive(k) \/ processMap[k].terminated \/ StopQueued(k, 0)
        /\ \A m \in DOMAIN queue : queue[m].type = "ProcessCreate" =>
              Alive(Created(queue[m])) \/ StopQueued(Created(queue[m]), m)

(* Trees are roots alone, and without installers nothing is an install.    *)
Roots ==
    /\ \A k \in ProcessKey : k.start_time # 0 => childrenMap[k] = {}
    /\ \A k \in Tracked : ~processMap[k].is_top_level_install

ChargeInv == Succession /\ StopsToCome /\ Roots /\ OneResponder

LEMMA SubjectType ==
    ASSUME TypeOK
    PROVE  \A n \in DOMAIN queue :
              /\ queue[n] \in Event /\ Subject(queue[n]) \in ProcessKey
              /\ queue[n].type = "ProcessCreate" => queue[n] \in CreateEvent
<1> SUFFICES ASSUME NEW n \in DOMAIN queue
             PROVE  /\ queue[n] \in Event /\ Subject(queue[n]) \in ProcessKey
                    /\ queue[n].type = "ProcessCreate" => queue[n] \in CreateEvent
    OBVIOUS
<1>1. queue[n] \in Event
    BY DEF TypeOK
<1>2. CASE queue[n].type = "ProcessCreate"
    <2>1. queue[n] \in CreateEvent
        BY <1>1, <1>2, EventShape
    <2> QED BY <1>1, <1>2, <2>1 DEF CreateEvent, Subject, Created, ProcessKey
<1>3. CASE queue[n].type # "ProcessCreate"
    <2>1. queue[n].actor \in ProcessKey
        BY <1>1 DEF Event, CreateEvent, FileEvent, PlainEvent
    <2> QED BY <1>1, <1>3, <2>1 DEF Subject
<1> QED BY <1>2, <1>3

(* A step of the agent that creates no entry.                              *)
LEMMA KeptEntriesFollow ==
    ASSUME TypeOK, Succession, Roots, KeepsEntries, UNCHANGED <<clock, holder, childrenMap>>,
           queue' = queue \/ queue' = <<>> \/ (queue # <<>> /\ queue' = Tail(queue))
    PROVE  Succession' /\ Roots'
<1>1. \A k \in Tracked' : k \in Tracked /\ SameProcess(processMap[k], processMap'[k])
    BY DEF KeepsEntries, Tracked
<1>2. \A n \in DOMAIN queue' : \E j \in DOMAIN queue : queue'[n] = queue[j]
    BY QueueShrinksOne
<1>3. \A k : NotAhead(k)' <=> NotAhead(k)
    BY DEF NotAhead
<1>4. \A n \in DOMAIN queue' :
          /\ NotAhead(Subject(queue[n]))'
          /\ queue'[n].type = "ProcessCreate" \/ queue'[n].actor.pid = queue'[n].pid
    BY <1>2 DEF Succession, NotAhead, Subject, Created
<1>5. ASSUME NEW m \in DOMAIN queue', NEW n \in DOMAIN queue', m < n,
             Subject(queue'[m]).pid = Subject(queue'[n]).pid
      PROVE  Subject(queue'[m]).start_time <= Subject(queue'[n]).start_time
    <2>1. PICK i, j \in DOMAIN queue : i < j /\ queue'[m] = queue[i] /\ queue'[n] = queue[j]
        BY <1>5, QueueShrinks
    <2> QED BY <1>5, <2>1 DEF Succession
<1>6. \A k \in Tracked', n \in DOMAIN queue' :
          k.pid = Subject(queue'[n]).pid => k.start_time <= Subject(queue'[n]).start_time
    BY <1>1, <1>2 DEF Succession
<1>7. Succession'
    BY <1>1, <1>3, <1>4, <1>5, <1>6 DEF Succession, Subject, Created
<1>8. Roots'
    BY <1>1 DEF Roots, SameProcess
<1> QED BY <1>7, <1>8

(* It keeps the stops that are to come, and handles one by marking.        *)
LEMMA KeptEntriesStop ==
    ASSUME TypeOK, StopsToCome, KeepsEntries, UNCHANGED holder,
           Receives' => Receives /\
               \/ queue' = queue
               \/ /\ queue # <<>> /\ queue' = Tail(queue)
                  /\ \A k \in Tracked' : Head(queue).type = "ProcessStop" /\ Head(queue).actor = k
                        => processMap'[k].terminated
    PROVE  StopsToCome'
<1> SUFFICES ASSUME Receives'
             PROVE  /\ \A k \in Tracked' : Alive(k)' \/ processMap'[k].terminated \/ StopQueued(k, 0)'
                    /\ \A m \in DOMAIN queue' : queue'[m].type = "ProcessCreate" =>
                          Alive(Created(queue[m]))' \/ StopQueued(Created(queue[m]), m)'
    BY DEF StopsToCome
<1>1. \A k : Alive(k)' <=> Alive(k)
    BY DEF Alive
<1>2. \A k \in Tracked' : k \in Tracked /\ (processMap[k].terminated => processMap'[k].terminated)
    BY DEF KeepsEntries, SameProcess, Tracked
<1>3. CASE queue' = queue
    BY <1>1, <1>2, <1>3 DEF StopsToCome, StopQueued, Created, Alive
<1>4. CASE /\ queue # <<>> /\ queue' = Tail(queue)
           /\ \A k \in Tracked' : Head(queue).type = "ProcessStop" /\ Head(queue).actor = k
                  => processMap'[k].terminated
    <2>1. /\ \A n \in DOMAIN queue' : n + 1 \in DOMAIN queue /\ queue'[n] = queue[n + 1]
          /\ \A n \in DOMAIN queue : n > 1 => n - 1 \in DOMAIN queue' /\ queue'[n - 1] = queue[n]
          /\ 1 \in DOMAIN queue /\ queue[1] = Head(queue)
          /\ DOMAIN queue \subseteq Nat /\ DOMAIN queue' \subseteq Nat
        BY <1>4 DEF TypeOK
    <2>2. ASSUME NEW k \in Tracked', ~Alive(k)', ~processMap'[k].terminated
          PROVE  StopQueued(k, 0)'
        <3>1. PICK n \in DOMAIN queue : queue[n].type = "ProcessStop" /\ queue[n].actor = k /\ n > 0
            BY <1>1, <1>2, <1>4, <2>2 DEF StopsToCome, StopQueued
        <3>2. n > 1
            BY <1>4, <2>1, <2>2, <3>1
        <3> QED BY <2>1, <3>1, <3>2 DEF StopQueued
    <2>3. ASSUME NEW m \in DOMAIN queue', queue'[m].type = "ProcessCreate",
                 NEW k, k = Created(queue'[m]), ~Alive(k)
          PROVE  StopQueued(k, m)'
        <3>1. m + 1 \in DOMAIN queue /\ queue'[m] = queue[m + 1] /\ m \in Nat
            BY <2>1
        <3>2. PICK n \in DOMAIN queue :
                 n > m + 1 /\ queue[n].type = "ProcessStop" /\ queue[n].actor = k
            BY <1>4, <2>3, <3>1 DEF StopsToCome, StopQueued
        <3>3. n \in Nat /\ n > 1 /\ n - 1 > m
            <4>1. n \in Nat
                BY <2>1
            <4> QED BY <3>1, <3>2, <4>1
        <3>4. n - 1 \in DOMAIN queue' /\ queue'[n - 1] = queue[n]
            BY <2>1, <3>3
        <3> QED BY <3>2, <3>3, <3>4 DEF StopQueued
    <2>4. ASSUME NEW m \in DOMAIN queue', queue'[m].type = "ProcessCreate"
          PROVE  Alive(Created(queue[m]))' \/ StopQueued(Created(queue[m]), m)'
        BY <1>1, <2>3, <2>4 DEF StopQueued, Alive, Created
    <2> QED BY <2>2, <2>4
<1> QED BY <1>3, <1>4

(* Of children_map the handlers change nothing, except for process_create. *)
LEMMA HandlerDequeues ==
    ASSUME HandleEvent
    PROVE  /\ consumer = "running" /\ queue # <<>>
           /\ Receives' => queue' = Tail(queue)
           /\ ProcessCreate \/ UNCHANGED childrenMap
BY DEF HandleEvent, Handling, Dequeue, Untracked, ProcessCreate, ProcessStop, FileRead,
       NetworkConnect, FileWrite, FileOpen, Dup2, RegistryWrite, PtraceAttach, MemoryProtect,
       Receives

(* A stop marks every entry of its pid, unless the thread hangs on it.     *)
LEMMA StopMarks ==
    ASSUME TypeOK, Succession, Roots, HandleEvent, Receives',
           Head(queue).type = "ProcessStop"
    PROVE  \A k \in Tracked' : Head(queue).actor = k => processMap'[k].terminated
<1> SUFFICES ASSUME NEW k \in Tracked', Head(queue).actor = k
             PROVE  processMap'[k].terminated
    OBVIOUS
<1>1. queue # <<>> /\ 1 \in DOMAIN queue /\ queue[1] = Head(queue)
    BY HandlerDequeues DEF TypeOK
<1>2. k.pid = Head(queue).pid
    BY <1>1 DEF Succession
<1>3. CASE Untracked
    <2>1. Live(k.pid) = {} /\ UNCHANGED processMap
        BY <1>2, <1>3 DEF Untracked
    <2> QED BY <2>1 DEF Live, Tracked
<1>4. CASE ProcessStop
    <2>1. PICK first \in Live(k.pid) :
             /\ ~processMap[first].is_top_level_install
             /\ consumer' = IF IterPinsShard THEN "blocked" ELSE consumer
             /\ processMap' = IF IterPinsShard THEN processMap ELSE Marked(Live(k.pid))
        BY <1>2, <1>4 DEF ProcessStop, Live, Roots
    <2>2. processMap' = Marked(Live(k.pid))
        BY <2>1 DEF Receives
    <2>3. k \in Tracked
        BY <2>2 DEF Marked, Live, Tracked
    <2>4. CASE k \in Live(k.pid)
        <3>1. processMap[k] \in ProcessState
            BY <2>3 DEF Tracked, TypeOK
        <3> QED BY <2>2, <2>3, <2>4, <3>1 DEF Marked, Tracked, ProcessState
    <2>5. CASE k \notin Live(k.pid)
        BY <2>2, <2>3, <2>5 DEF Marked, Live, Tracked
    <2> QED BY <2>4, <2>5
<1> QED BY <1>3, <1>4
    DEF HandleEvent, Handling, ProcessCreate, FileRead, NetworkConnect,
        FileWrite, FileOpen, Dup2, RegistryWrite, PtraceAttach, MemoryProtect

(* Who responds.                                                           *)
LEMMA HandlersBegin ==
    ASSUME HandleEvent
    PROVE  \/ UNCHANGED responses
           \/ \E k, by : by # "scan" /\ BeginSuspension(k, by)
BY DEF HandleEvent, Untracked, ProcessCreate, ProcessStop, FileRead, NetworkConnect, FileWrite,
       FileOpen, Dup2, RegistryWrite, PtraceAttach, MemoryProtect, SuspendUntrusted,
       TerminateInstall, TerminateThreat

LEMMA NextResponds == ASSUME OneResponder, [Next]_vars PROVE OneResponder'
<1>1. CASE UNCHANGED <<responses, consumer>>
    BY <1>1 DEF OneResponder
<1>2. CASE HandleEvent
    <2>1. consumer = "running" /\ \A r \in responses : r.by = "scan"
        BY <1>2, HandlerDequeues DEF OneResponder
    <2>2. CASE UNCHANGED responses
        BY <2>1, <2>2 DEF OneResponder
    <2>3. ASSUME NEW k, NEW by, by # "scan", BeginSuspension(k, by) PROVE OneResponder'
        <3>1. PICK s : responses' = responses \cup {[by |-> by, root |-> k, step |-> s]}
            BY <2>3 DEF BeginSuspension
        <3>2. consumer' = "responding"
            BY <2>3 DEF BeginSuspension
        <3>3. \A r \in responses' : r.by # "scan" => r = [by |-> by, root |-> k, step |-> s]
            BY <2>1, <3>1
        <3> QED BY <3>2, <3>3 DEF OneResponder
    <2> QED BY <1>2, <2>2, <2>3, HandlersBegin
<1>3. ASSUME NEW k, YaraVerdict(k) PROVE OneResponder'
    <2>1. CASE BeginSuspension(k, "scan")
        <3>1. PICK s : responses' = responses \cup {[by |-> "scan", root |-> k, step |-> s]}
            BY <2>1 DEF BeginSuspension
        <3>2. consumer' = consumer /\ \A r \in responses' : r.by # "scan" => r \in responses
            BY <2>1, <3>1 DEF BeginSuspension
        <3> QED BY <3>2 DEF OneResponder
    <2>2. CASE UNCHANGED responseVars
        BY <1>1, <2>2
    <2> QED BY <1>3, <2>1, <2>2 DEF YaraVerdict
<1>4. ASSUME NEW r \in responses, ClosePopup(r) \/ SendStop(r) PROVE OneResponder'
    <2>1. PICK s : responses' = (responses \ {r}) \cup {[r EXCEPT !.step = s]}
        BY <1>4 DEF ClosePopup, SendStop
    <2>2. PICK t : t = [r EXCEPT !.step = s]
        OBVIOUS
    <2>3. t.by = r.by /\ responses' = (responses \ {r}) \cup {t} /\ UNCHANGED consumer
        BY <1>4, <2>1, <2>2 DEF ClosePopup, SendStop
    <2> QED BY <2>3 DEF OneResponder
<1>5. ASSUME NEW r \in responses, Announce(r) PROVE OneResponder'
    <2>1. /\ responses' = responses \ {r}
          /\ r.by = "scan" => consumer' = consumer
        BY <1>5 DEF Announce
    <2> QED BY <2>1 DEF OneResponder
<1>6. ASSUME NEW r, ResetDetection(r) \/ AnnounceRelease(r) PROVE OneResponder'
    BY <1>1, <1>6 DEF ResetDetection, AnnounceRelease
<1>7. CASE System
    BY <1>1, <1>7 DEF System, Fork, Exit, Act
<1>8. CASE Administrator
    BY <1>1, <1>8 DEF Administrator, ReleaseProcessTree, KillProcessTree, TrustOnce
<1>9. CASE Background
    <2>1. ASSUME NEW k, PromptAllow(k) \/ PromptDeny(k) \/ PromptUnanswered(k) \/ CleanupInstall(k)
          PROVE  OneResponder'
        BY <1>1, <2>1 DEF PromptAllow, PromptDeny, PromptUnanswered, CleanupInstall
    <2>2. CASE Purge
        BY <1>1, <2>2 DEF Purge
    <2>3. CASE Continue
        BY <1>4, <1>5, <1>6, <2>3 DEF Continue
    <2> QED BY <1>3, <1>9, <2>1, <2>2, <2>3 DEF Background
<1>10. CASE UNCHANGED vars
    BY <1>1, <1>10 DEF vars
<1> QED BY <1>2, <1>7, <1>8, <1>9, <1>10 DEF Next

LEMMA HandlersCharge ==
    ASSUME TypeOK, ChargeInv, HandleEvent, ~ProcessCreate PROVE ChargeInv'
<1>1. KeepsEntries
    BY HandlersKeepEntries
<1>2. Succession' /\ Roots'
    BY <1>1, HandlerQueue, HandlerDequeues, KeptEntriesFollow DEF ChargeInv
<1>3. Receives
    BY HandlerDequeues DEF Receives
<1>4. StopsToCome'
    BY <1>1, <1>3, HandlerQueue, HandlerDequeues, StopMarks, KeptEntriesStop DEF ChargeInv
<1>5. OneResponder'
    BY NextResponds DEF Next, ChargeInv
<1> QED BY <1>2, <1>4, <1>5 DEF ChargeInv

(* What runs beside it can at most stop the consumer thread.               *)
LEMMA OthersCharge ==
    ASSUME TypeOK, ChargeInv, Background \/ Administrator PROVE ChargeInv'
<1>1. /\ KeepsEntries /\ UNCHANGED <<clock, holder>>
      /\ queue' = queue \/ queue' = <<>>
    BY OthersKeepEntries, OthersLeaveQueue
<1>2. UNCHANGED childrenMap /\ (Receives' => Receives /\ queue' = queue)
    <2>1. ASSUME NEW r \in responses, Announce(r)
          PROVE  UNCHANGED childrenMap /\ (Receives' => Receives /\ queue' = queue)
        <3>1. r.by # "scan" => consumer = "responding"
            BY DEF ChargeInv, OneResponder
        <3>2. r.by = "scan" => consumer' = consumer
            BY <2>1 DEF Announce
        <3>3. queue' = IF consumer' = "panicked" THEN <<>> ELSE queue
            BY <2>1 DEF Announce
        <3> QED BY <2>1, <3>1, <3>2, <3>3 DEF Announce, Receives
    <2>2. ASSUME NEW r, ClosePopup(r) \/ SendStop(r) \/ ResetDetection(r) \/ AnnounceRelease(r)
          PROVE  UNCHANGED <<childrenMap, consumer, queue>>
        BY <2>2 DEF ClosePopup, SendStop, ResetDetection, AnnounceRelease
    <2>3. CASE Continue
        BY <2>1, <2>2, <2>3 DEF Continue, Receives
    <2>4. ASSUME NEW k, YaraVerdict(k) PROVE UNCHANGED <<childrenMap, consumer, queue>>
        BY <2>4 DEF YaraVerdict, BeginSuspension
    <2>5. CASE (Background \/ Administrator) /\ ~Continue /\ ~\E k \in ProcessKey : YaraVerdict(k)
        BY <2>5 DEF Background, Administrator, PromptAllow, PromptDeny, PromptUnanswered,
           CleanupInstall, Purge, ReleaseProcessTree, KillProcessTree, TrustOnce, Receives
    <2> QED BY <2>3, <2>4, <2>5 DEF Receives
<1>3. OneResponder'
    BY NextResponds DEF Next, ChargeInv
<1> QED BY <1>1, <1>2, <1>3, KeptEntriesFollow, KeptEntriesStop DEF ChargeInv

(* process_create: nobody of its pid is tracked whose turn comes later.    *)
LEMMA CreateCharges ==
    ASSUME TypeOK, ChargeInv, Installer = {}, ProcessCreate PROVE ChargeInv'
<1> DEFINE e == Head(queue)
           k == [pid |-> e.child_pid, start_time |-> e.timestamp]
<1>1. /\ queue # <<>> /\ 1 \in DOMAIN queue /\ queue[1] = e /\ e.type = "ProcessCreate"
      /\ UNCHANGED <<clock, holder>> /\ Dequeue /\ consumer = "running"
    BY DEF ProcessCreate, Handling, TypeOK
<1> Receives
    BY <1>1 DEF Receives
<1>2. e \in CreateEvent /\ k \in ProcessKey /\ k = Created(e) /\ k = Subject(queue[1])
    <2>1. e \in CreateEvent
        BY <1>1, SubjectType
    <2> QED BY <1>1, <2>1 DEF CreateEvent, ProcessKey, Created, Subject
<1>3. PICK untrusted \in Verdict, inherited \in Inherited(ParentOf(e)) :
         processMap' = [processMap EXCEPT ![k] = NewState(e, inherited, untrusted)]
    BY DEF ProcessCreate
<1>4. /\ ~processMap'[k].is_top_level_install
      /\ \A x \in ProcessKey \ {k} : processMap'[x] = processMap[x]
    BY <1>2, <1>3 DEF NewState, TypeOK
<1>5. \A x \in Tracked' : x = k \/ (x \in Tracked /\ processMap'[x] = processMap[x])
    BY <1>4 DEF Tracked
<1>6. \A n \in DOMAIN queue' : n + 1 \in DOMAIN queue /\ queue'[n] = queue[n + 1] /\ n + 1 > 1
    <2>1. (queue' = <<>> \/ queue' = Tail(queue)) /\ queue \in Seq(Event)
        BY <1>1 DEF Dequeue, TypeOK
    <2> QED BY <1>1, <2>1
<1>7. queue' = queue \/ queue' = <<>> \/ (queue # <<>> /\ queue' = Tail(queue))
    BY <1>1, DequeueShrinks
<1>8. Succession'
    <2>1. \A x : NotAhead(x)' <=> NotAhead(x)
        BY <1>1 DEF NotAhead
    <2>2. NotAhead(k)
        BY <1>1, <1>2 DEF ChargeInv, Succession
    <2>3. \A n \in DOMAIN queue' :
              /\ NotAhead(Subject(queue[n]))'
              /\ queue'[n].type = "ProcessCreate" \/ queue'[n].actor.pid = queue'[n].pid
        BY <1>1, <1>6 DEF ChargeInv, Succession, NotAhead, Subject, Created
    <2>4. ASSUME NEW m \in DOMAIN queue', NEW n \in DOMAIN queue', m < n,
                 Subject(queue'[m]).pid = Subject(queue'[n]).pid
          PROVE  Subject(queue'[m]).start_time <= Subject(queue'[n]).start_time
        <3>1. PICK i, j \in DOMAIN queue : i < j /\ queue'[m] = queue[i] /\ queue'[n] = queue[j]
            BY <1>7, <2>4, QueueShrinks
        <3> QED BY <2>4, <3>1 DEF ChargeInv, Succession
    <2>5. ASSUME NEW x \in Tracked', NEW n \in DOMAIN queue', x.pid = Subject(queue'[n]).pid
          PROVE  x.start_time <= Subject(queue'[n]).start_time
        <3>1. n + 1 \in DOMAIN queue /\ queue'[n] = queue[n + 1] /\ 1 < n + 1
            BY <1>6
        <3>2. CASE x = k
            BY <1>1, <1>2, <2>5, <3>1, <3>2 DEF ChargeInv, Succession
        <3>3. CASE x # k
            BY <1>5, <2>5, <3>1, <3>3 DEF ChargeInv, Succession
        <3> QED BY <3>2, <3>3
    <2>6. /\ \A p \in Pid : holder'[p] <= clock'
          /\ \A x \in Tracked' : NotAhead(x)'
        BY <1>1, <1>5, <2>1, <2>2 DEF ChargeInv, Succession
    <2> QED BY <2>3, <2>4, <2>5, <2>6 DEF Succession, Subject, Created
<1>9. StopsToCome'
    <2> SUFFICES ASSUME Receives'
                 PROVE  /\ \A x \in Tracked' :
                              Alive(x)' \/ processMap'[x].terminated \/ StopQueued(x, 0)'
                        /\ \A m \in DOMAIN queue' : queue'[m].type = "ProcessCreate" =>
                              Alive(Created(queue[m]))' \/ StopQueued(Created(queue[m]), m)'
        BY DEF StopsToCome
    <2>1. queue' = Tail(queue) /\ queue \in Seq(Event)
        BY <1>1 DEF Dequeue, TypeOK, Receives
    <2>2. /\ \A n \in DOMAIN queue : n > 1 => n - 1 \in DOMAIN queue' /\ queue'[n - 1] = queue[n]
          /\ DOMAIN queue \subseteq Nat /\ DOMAIN queue' \subseteq Nat
        BY <1>1, <2>1
    <2>3. ASSUME NEW x, NEW i \in Nat, StopQueued(x, i + 1) PROVE StopQueued(x, i)'
        <3>1. PICK n \in DOMAIN queue :
                 n > i + 1 /\ queue[n].type = "ProcessStop" /\ queue[n].actor = x
            BY <2>3 DEF StopQueued
        <3>2. n \in Nat /\ n > 1 /\ n - 1 > i
            <4>1. n \in Nat
                BY <2>2
            <4> QED BY <3>1, <4>1
        <3>3. n - 1 \in DOMAIN queue' /\ queue'[n - 1] = queue[n]
            BY <2>2, <3>2
        <3> QED BY <3>1, <3>2, <3>3 DEF StopQueued
    <2>4. ASSUME NEW x \in Tracked', ~Alive(x), ~processMap'[x].terminated
          PROVE  StopQueued(x, 0)'
        <3>1. StopQueued(x, 0 + 1)
            <4>1. CASE x = k
                BY <1>1, <1>2, <2>4, <4>1 DEF ChargeInv, StopsToCome
            <4>2. CASE x # k
                <5>1. PICK n \in DOMAIN queue :
                         n > 0 /\ queue[n].type = "ProcessStop" /\ queue[n].actor = x
                    BY <1>1, <1>5, <2>4, <4>2 DEF ChargeInv, StopsToCome, StopQueued
                <5>2. n \in Nat /\ n # 1
                    BY <1>1, <2>2, <5>1
                <5> QED BY <5>1, <5>2 DEF StopQueued
            <4> QED BY <4>1, <4>2
        <3> QED BY <2>3, <3>1
    <2>5. ASSUME NEW m \in DOMAIN queue', queue'[m].type = "ProcessCreate",
                 NEW x, x = Created(queue'[m]), ~Alive(x)
          PROVE  StopQueued(x, m)'
        <3>1. m \in Nat /\ m + 1 \in DOMAIN queue /\ queue'[m] = queue[m + 1]
            BY <1>6, <2>2
        <3>2. StopQueued(x, m + 1)
            BY <1>1, <2>5, <3>1 DEF ChargeInv, StopsToCome
        <3> QED BY <2>3, <3>1, <3>2
    <2>6. \A m \in DOMAIN queue' : queue'[m].type = "ProcessCreate" =>
              Alive(Created(queue[m]))' \/ StopQueued(Created(queue[m]), m)'
        BY <1>1, <2>5 DEF StopQueued, Alive, Created
    <2>7. \A x \in Tracked' : Alive(x)' \/ processMap'[x].terminated \/ StopQueued(x, 0)'
        BY <1>1, <2>4 DEF Alive
    <2> QED BY <2>6, <2>7
<1>10. Roots'
    <2>1. childrenMap' = [childrenMap EXCEPT ![WildCard(e.pid)] = @ \cup {k}]
        BY DEF ProcessCreate
    <2>2. WildCard(e.pid).start_time = 0
        BY DEF WildCard
    <2>3. \A x \in ProcessKey : x.start_time # 0 => childrenMap'[x] = childrenMap[x]
        BY <2>1, <2>2 DEF TypeOK
    <2> QED BY <1>4, <1>5, <2>3 DEF ChargeInv, Roots
<1>11. OneResponder'
    BY NextResponds DEF Next, HandleEvent, ChargeInv
<1> QED BY <1>8, <1>9, <1>10, <1>11 DEF ChargeInv

(* The operating system: what is reported is about the present holder of   *)
(* its pid, and an end is reported when it comes.                          *)
LEMMA OsKeepsCharge ==
    ASSUME TypeOK, ChargeInv, NEW e \in Event, Emit(e), UNCHANGED engineVars,
           \A p \in Pid : holder'[p] <= clock',
           \A k \in ProcessKey : NotAhead(k) => NotAhead(k)',
           \A k \in ProcessKey : NotAhead(k) /\ Alive(k) =>
               Alive(k)' \/ (e.type = "ProcessStop" /\ e.actor = k),
           \A k \in ProcessKey : NotAhead(k) /\ k.pid = Subject(e).pid
                                     => k.start_time <= Subject(e).start_time,
           NEW s, s = Subject(e), NotAhead(s)',
           e.type = "ProcessCreate" \/ e.actor.pid = e.pid,
           e.type = "ProcessCreate" => Alive(s)'
    PROVE  ChargeInv'
<1>1. UNCHANGED <<processMap, childrenMap, consumer>> /\ Tracked' = Tracked
    BY DEF Tracked
<1>2. \A n \in DOMAIN queue' : (n \in DOMAIN queue /\ queue'[n] = queue[n]) \/ queue'[n] = e
    BY EmitAppends
<1>3. \A m, n \in DOMAIN queue' : m < n => m \in DOMAIN queue /\ queue'[m] = queue[m]
    BY EmitAppends
<1>4. Tracked \subseteq ProcessKey /\ \A n \in DOMAIN queue : Subject(queue[n]) \in ProcessKey
    BY SubjectType DEF Tracked
<1>5. Succession'
    <2>1. \A k \in Tracked' : NotAhead(k)'
        BY <1>1, <1>4 DEF ChargeInv, Succession
    <2>2. ASSUME NEW n \in DOMAIN queue', NEW x, x = Subject(queue'[n])
          PROVE  NotAhead(x)' /\ (queue'[n].type = "ProcessCreate" \/ queue'[n].actor.pid = queue'[n].pid)
        <3>1. CASE queue'[n] = e
            BY <2>2, <3>1
        <3>2. CASE n \in DOMAIN queue /\ queue'[n] = queue[n]
            <4>1. x \in ProcessKey /\ NotAhead(x)
                BY <1>4, <2>2, <3>2 DEF ChargeInv, Succession
            <4>2. queue[n].type = "ProcessCreate" \/ queue[n].actor.pid = queue[n].pid
                BY <3>2 DEF ChargeInv, Succession
            <4> QED BY <3>2, <4>1, <4>2
        <3> QED BY <1>2, <3>1, <3>2
    <2>3. ASSUME NEW m \in DOMAIN queue', NEW n \in DOMAIN queue', m < n,
                 Subject(queue'[m]).pid = Subject(queue'[n]).pid
          PROVE  Subject(queue'[m]).start_time <= Subject(queue'[n]).start_time
        <3>1. m \in DOMAIN queue /\ queue'[m] = queue[m]
            BY <1>3, <2>3
        <3>2. Subject(queue[m]) \in ProcessKey /\ NotAhead(Subject(queue[m]))
            BY <1>4, <3>1 DEF ChargeInv, Succession
        <3>3. CASE queue'[n] = e
            BY <2>3, <3>1, <3>2, <3>3
        <3>4. CASE n \in DOMAIN queue /\ queue'[n] = queue[n]
            BY <2>3, <3>1, <3>4 DEF ChargeInv, Succession
        <3> QED BY <1>2, <3>3, <3>4
    <2>4. ASSUME NEW k \in Tracked', NEW n \in DOMAIN queue', k.pid = Subject(queue'[n]).pid
          PROVE  k.start_time <= Subject(queue'[n]).start_time
        <3>1. k \in Tracked /\ k \in ProcessKey /\ NotAhead(k)
            BY <1>1, <1>4 DEF ChargeInv, Succession
        <3>2. CASE queue'[n] = e
            BY <2>4, <3>1, <3>2
        <3>3. CASE n \in DOMAIN queue /\ queue'[n] = queue[n]
            BY <2>4, <3>1, <3>3 DEF ChargeInv, Succession
        <3> QED BY <1>2, <3>2, <3>3
    <2>5. \A n \in DOMAIN queue' :
              /\ NotAhead(Subject(queue[n]))'
              /\ queue'[n].type = "ProcessCreate" \/ queue'[n].actor.pid = queue'[n].pid
        BY <2>2 DEF NotAhead, Subject, Created
    <2> QED BY <2>1, <2>3, <2>4, <2>5 DEF Succession, Subject, Created
<1>6. StopsToCome'
    <2> SUFFICES ASSUME Receives
                 PROVE  /\ \A k \in Tracked :
                              Alive(k)' \/ processMap[k].terminated \/ StopQueued(k, 0)'
                        /\ \A m \in DOMAIN queue' : queue'[m].type = "ProcessCreate" =>
                              Alive(Created(queue[m]))' \/ StopQueued(Created(queue[m]), m)'
        BY <1>1 DEF StopsToCome, Receives
    <2>1. /\ queue' = Append(queue, e) /\ queue \in Seq(Event)
          /\ \A n \in DOMAIN queue : n \in DOMAIN queue' /\ queue'[n] = queue[n]
          /\ Len(queue) + 1 \in DOMAIN queue' /\ queue'[Len(queue) + 1] = e /\ Len(queue) \in Nat
          /\ \A n \in DOMAIN queue : n \in Nat /\ n < Len(queue) + 1
        <3>1. queue' = Append(queue, e) /\ queue \in Seq(Event)
            BY DEF Emit, TypeOK, Receives
        <3>2. /\ DOMAIN queue = 1..Len(queue) /\ Len(queue) \in Nat
              /\ DOMAIN queue' = 1..(Len(queue) + 1)
              /\ queue'[Len(queue) + 1] = e
              /\ \A n \in 1..Len(queue) : queue'[n] = queue[n]
            BY <3>1
        <3> QED BY <3>1, <3>2
    <2>2. \A x, i : StopQueued(x, i) => StopQueued(x, i)'
        BY <2>1 DEF StopQueued
    <2>3. ASSUME NEW x \in ProcessKey, NotAhead(x), ~Alive(x)', NEW i, Len(queue) + 1 > i,
                 Alive(x) \/ StopQueued(x, i)
          PROVE  StopQueued(x, i)'
        BY <2>1, <2>2, <2>3 DEF StopQueued
    <2>4. \A k \in Tracked : Alive(k)' \/ processMap[k].terminated \/ StopQueued(k, 0)'
        <3> SUFFICES ASSUME NEW k \in Tracked, ~Alive(k)', ~processMap[k].terminated
                     PROVE  StopQueued(k, 0)'
            OBVIOUS
        <3>1. k \in ProcessKey /\ NotAhead(k) /\ (Alive(k) \/ StopQueued(k, 0))
            BY <1>4 DEF ChargeInv, Succession, StopsToCome
        <3>2. Len(queue) + 1 > 0
            BY <2>1
        <3> QED BY <2>3, <3>1, <3>2
    <2>5. ASSUME NEW m \in DOMAIN queue', queue'[m].type = "ProcessCreate",
                 NEW x, x = Created(queue'[m]), ~Alive(x)'
          PROVE  StopQueued(x, m)'
        <3>1. CASE queue'[m] = e
            BY <2>5, <3>1 DEF Subject
        <3>2. CASE m \in DOMAIN queue /\ queue'[m] = queue[m]
            <4>1. x = Subject(queue[m]) /\ x \in ProcessKey /\ NotAhead(x)
                <5>1. x = Subject(queue[m])
                    BY <2>5, <3>2 DEF Subject
                <5> QED BY <1>4, <3>2, <5>1 DEF ChargeInv, Succession
            <4>2. Alive(x) \/ StopQueued(x, m)
                BY <2>5, <3>2 DEF ChargeInv, StopsToCome
            <4>3. Len(queue) + 1 > m
                BY <2>1, <3>2
            <4> QED BY <2>3, <2>5, <4>1, <4>2, <4>3
        <3> QED BY <1>2, <3>1, <3>2
    <2>6. \A m \in DOMAIN queue' : queue'[m].type = "ProcessCreate" =>
              Alive(Created(queue[m]))' \/ StopQueued(Created(queue[m]), m)'
        BY <2>5 DEF StopQueued, Alive, Created
    <2> QED BY <2>4, <2>6
<1>7. Roots'
    BY <1>1 DEF ChargeInv, Roots
<1>8. OneResponder'
    BY DEF ChargeInv, OneResponder
<1> QED BY <1>5, <1>6, <1>7, <1>8 DEF ChargeInv

LEMMA SystemCharges ==
    ASSUME TypeOK, ChargeInv, System PROVE ChargeInv'
<1>1. \A k \in ProcessKey : k.pid \in Pid /\ k.start_time \in Nat
    BY ConfigAssumption DEF ProcessKey
<1>2. clock \in Nat /\ \A p \in Pid : holder[p] \in Nat /\ holder[p] <= clock
    <2>1. clock \in Time /\ \A p \in Pid : holder[p] \in Time
        BY DEF TypeOK
    <2> QED BY <2>1, ConfigAssumption DEF ChargeInv, Succession
<1>3. ASSUME NEW p \in Pid, NEW c \in Pid, NEW i \in Image, NEW q \in Pid, Fork(p, c, i, q)
      PROVE  ChargeInv'
    <2>1. clock + 1 \in Time \ {0} /\ Current(p) \in ProcessKey
        BY <1>3, ConfigAssumption DEF Fork, Current, ProcessKey, TypeOK
    <2> PICK e : e = [type |-> "ProcessCreate", pid |-> q, child_pid |-> c,
                      real_parent_pid |-> p, timestamp |-> clock + 1, image |-> i,
                      actor |-> Current(p)]
        OBVIOUS
    <2> PICK s : s = [pid |-> c, start_time |-> clock + 1]
        OBVIOUS
    <2>2. e \in Event /\ e.type = "ProcessCreate" /\ s = Subject(e)
        BY <2>1 DEF Event, CreateEvent, Subject, Created
    <2>3. /\ Emit(e) /\ UNCHANGED engineVars /\ clock' = clock + 1 /\ holder[c] = 0
          /\ holder' = [holder EXCEPT ![c] = clock + 1]
        BY <1>3 DEF Fork
    <2>4. holder'[c] = clock + 1 /\ \A x \in Pid \ {c} : holder'[x] = holder[x]
        BY <2>3 DEF TypeOK
    <2>5. \A x \in Pid : holder'[x] <= clock'
        BY <1>2, <2>3, <2>4
    <2>6. \A k \in ProcessKey : NotAhead(k) => NotAhead(k)' /\ k.start_time <= s.start_time
        BY <1>1, <1>2, <2>3, <2>4 DEF NotAhead
    <2>7. \A k \in ProcessKey : Alive(k) => Alive(k)'
        BY <1>1, <2>3, <2>4 DEF Alive
    <2>8. NotAhead(s)' /\ Alive(s)'
        BY <1>2, <2>3, <2>4 DEF NotAhead, Alive
    <2> QED BY <2>2, <2>3, <2>5, <2>6, <2>7, <2>8, OsKeepsCharge
<1>4. ASSUME NEW p \in Pid, NEW e \in Event, Emit(e), e.type # "ProcessCreate",
             e.pid = p, e.actor = Current(p), Alive(Current(p)),
             UNCHANGED engineVars, clock' = clock,
             \/ holder' = holder
             \/ e.type = "ProcessStop" /\ holder' = [holder EXCEPT ![p] = 0]
      PROVE  ChargeInv'
    <2> PICK s : s = [pid |-> p, start_time |-> holder[p]]
        OBVIOUS
    <2>1. s = Subject(e) /\ s = e.actor /\ s \in ProcessKey
        BY <1>4 DEF Subject, Current, ProcessKey, TypeOK
    <2>2. /\ \A x \in Pid : holder'[x] = holder[x] \/ holder'[x] = 0
          /\ \A x \in Pid \ {p} : holder'[x] = holder[x]
          /\ e.type = "ProcessStop" \/ holder' = holder
        BY <1>4 DEF TypeOK
    <2>3. \A x \in Pid : holder'[x] <= clock'
        BY <1>2, <1>4, <2>2
    <2>4. holder[p] # 0
        BY <1>4 DEF Alive, Current
    <2>5. \A k \in ProcessKey : NotAhead(k) => NotAhead(k)'
        BY <1>1, <1>4, <2>2 DEF NotAhead
    <2>6. \A k \in ProcessKey : NotAhead(k) /\ k.pid = p => k.start_time <= s.start_time
        BY <2>4 DEF NotAhead
    <2>7. ASSUME NEW k \in ProcessKey, Alive(k), ~Alive(k)'
          PROVE  e.type = "ProcessStop" /\ e.actor = k
        <3>1. k.pid = p /\ k.start_time = holder[p] /\ e.type = "ProcessStop"
            BY <1>1, <2>2, <2>7 DEF Alive
        <3>2. k = s
            BY <3>1 DEF ProcessKey
        <3> QED BY <2>1, <3>1, <3>2
    <2>8. NotAhead(s)'
        BY <1>2, <1>4, <2>2, <2>4 DEF NotAhead
    <2>9. s.pid = p /\ e.actor.pid = e.pid
        BY <1>4, <2>1
    <2> QED BY <1>4, <2>1, <2>3, <2>5, <2>6, <2>7, <2>8, <2>9, OsKeepsCharge
<1>5. ASSUME NEW p \in Pid, Exit(p) PROVE ChargeInv'
    <2> DEFINE e == [type |-> "ProcessStop", pid |-> p, actor |-> Current(p)]
    <2>1. Current(p) \in ProcessKey
        BY DEF Current, ProcessKey, TypeOK
    <2>2. e \in Event /\ e.type = "ProcessStop" /\ e.pid = p /\ e.actor = Current(p)
        BY <2>1 DEF Event, PlainEvent, PlainEventType
    <2>3. /\ Emit(e) /\ UNCHANGED engineVars /\ clock' = clock /\ Alive(Current(p))
          /\ holder' = [holder EXCEPT ![p] = 0]
        BY <1>5 DEF Exit
    <2> HIDE DEF e
    <2> QED BY <1>4, <2>2, <2>3
<1>6. ASSUME NEW p \in Pid, Act(p) PROVE ChargeInv'
    <2>1. UNCHANGED <<clock, holder>> /\ UNCHANGED engineVars /\ Alive(Current(p))
        BY <1>6 DEF Act, Runs
    <2>2. PICK e \in Event : Emit(e) /\ e.type # "ProcessCreate" /\ e.pid = p /\ e.actor = Current(p)
        BY <1>6, ActEmits
    <2> QED BY <1>4, <2>1, <2>2
<1> QED BY <1>3, <1>5, <1>6 DEF System

LEMMA NextCharges ==
    ASSUME TypeOK, ChargeInv, Installer = {}, [Next]_vars PROVE ChargeInv'
<1>1. CASE UNCHANGED vars
    <2>1. KeepsEntries /\ UNCHANGED <<clock, holder, childrenMap, queue, consumer>>
        BY <1>1, SameMapKeepsEntries DEF vars
    <2>2. OneResponder' /\ (Receives' => Receives)
        BY <1>1, <2>1, NextResponds DEF ChargeInv, Receives
    <2> QED BY <2>1, <2>2, KeptEntriesFollow, KeptEntriesStop DEF ChargeInv
<1> QED BY <1>1, SystemCharges, HandlersCharge, CreateCharges, OthersCharge DEF Next

LEMMA InitCharges == Init => ChargeInv
<1> SUFFICES ASSUME Init PROVE ChargeInv
    OBVIOUS
<1>1. /\ Tracked = {} /\ DOMAIN queue = {} /\ responses = {}
      /\ \A k \in ProcessKey : childrenMap[k] = {}
    BY DEF Init, Tracked
<1>2. \A p \in Pid : holder[p] <= clock
    BY DEF Init
<1> QED BY <1>1, <1>2 DEF ChargeInv, Succession, StopsToCome, Roots, OneResponder

(* An older holder that is still live in the map would have its stop in    *)
(* the queue, ahead of the event that is handled.                          *)
LEMMA ActorAlone ==
    ASSUME TypeOK, ChargeInv, consumer = "running", queue # <<>>,
           Head(queue).type \notin {"ProcessCreate", "ProcessStop"}
    PROVE  Live(Head(queue).pid) \subseteq {Head(queue).actor}
<1> DEFINE e == Head(queue)
           a == e.actor
<1> SUFFICES ASSUME NEW k \in Live(e.pid), k # a PROVE FALSE
    OBVIOUS
<1>1. 1 \in DOMAIN queue /\ queue[1] = e /\ DOMAIN queue \subseteq Nat \ {0}
    BY DEF TypeOK
<1>2. a = Subject(e) /\ a \in ProcessKey /\ a.pid = e.pid
    BY <1>1, SubjectType DEF Subject, ChargeInv, Succession
<1>3. k \in Tracked /\ k \in ProcessKey /\ k.pid = a.pid /\ ~processMap[k].terminated
    BY <1>2 DEF Live, Tracked
<1>4. a.start_time \in Nat /\ k.start_time \in Nat
    BY <1>2, <1>3, ConfigAssumption DEF ProcessKey
<1>5. k.start_time < a.start_time
    <2>1. k.start_time <= a.start_time
        BY <1>1, <1>2, <1>3 DEF ChargeInv, Succession
    <2>2. k.start_time # a.start_time
        BY <1>2, <1>3 DEF ProcessKey
    <2> QED BY <1>4, <2>1, <2>2
<1>6. ~Alive(k)
    <2>1. NotAhead(a)
        BY <1>1, <1>2 DEF ChargeInv, Succession
    <2> QED BY <1>3, <1>4, <1>5, <2>1 DEF NotAhead, Alive
<1>7. PICK n \in DOMAIN queue : queue[n].type = "ProcessStop" /\ queue[n].actor = k
    BY <1>3, <1>6 DEF ChargeInv, StopsToCome, StopQueued, Receives
<1>8. 1 < n /\ Subject(queue[n]) = k
    <2>1. n # 1 /\ n \in Nat \ {0}
        BY <1>1, <1>7
    <2> QED BY <1>7, <2>1 DEF Subject
<1>9. a.start_time <= k.start_time
    BY <1>1, <1>2, <1>3, <1>8 DEF ChargeInv, Succession
<1> QED BY <1>4, <1>5, <1>9

(* A handler changes only entries its lookup can return.                   *)
LEMMA HandlersChangeLive ==
    ASSUME TypeOK, ChargeInv, HandleEvent,
           Head(queue).type \notin {"ProcessCreate", "ProcessStop"}
    PROVE  \A k \in ProcessKey \ Live(Head(queue).pid) : processMap'[k] = processMap[k]
<1> DEFINE e == Head(queue)
<1>1. ASSUME NEW k \in Live(e.pid), NEW S, NEW marks \in OnePerPid(TreePids(k)),
             S \subseteq marks, processMap' = Marked(S)
      PROVE  \A x \in ProcessKey \ Live(e.pid) : processMap'[x] = processMap[x]
    <2>1. k \in ProcessKey /\ k.pid = e.pid /\ k.start_time # 0
        BY <1>1 DEF Live, Tracked, ChargeInv, Succession, NotAhead
    <2>2. TreePids(k) = {e.pid}
        BY <2>1 DEF ChargeInv, Roots, TreePids, DescendantPids, Descendants
    <2>3. S \subseteq Live(e.pid)
        BY <1>1, <2>2 DEF OnePerPid
    <2> QED BY <1>1, <2>3 DEF Marked
<1>2. ASSUME NEW k \in Live(e.pid), TerminateThreat(k)
      PROVE  \A x \in ProcessKey \ Live(e.pid) : processMap'[x] = processMap[x]
    BY <1>1, <1>2 DEF TerminateThreat
<1>3. CASE Untracked \/ PtraceAttach \/ MemoryProtect
    BY <1>3 DEF Untracked, PtraceAttach, MemoryProtect
<1>4. CASE FileRead
    BY <1>4 DEF FileRead, TypeOK
<1>5. CASE NetworkConnect
    BY <1>5 DEF NetworkConnect, TypeOK
<1>6. CASE FileWrite
    <2>1. PICK k \in Live(e.pid) : HangsOn(k) \/ TerminateThreat(k) \/ UNCHANGED processMap
        BY <1>6, FileWriteCases
    <2>2. CASE HangsOn(k)
        BY <1>1, <2>2 DEF HangsOn
    <2> QED BY <1>2, <2>1, <2>2
<1>7. CASE FileOpen \/ Dup2 \/ RegistryWrite
    BY <1>2, <1>7 DEF FileOpen, Dup2, RegistryWrite, TerminateInstall
<1>8. ~ProcessCreate /\ ~ProcessStop
    BY DEF ProcessCreate, ProcessStop, Handling
<1> QED BY <1>3, <1>4, <1>5, <1>6, <1>7, <1>8 DEF HandleEvent

LEMMA SystemQueues ==
    ASSUME TypeOK, System PROVE ~(Len(queue') < Len(queue))
<1>1. PICK e : Emit(e)
    BY DEF System, Fork, Exit, Act
<1>2. Len(queue) \in Nat /\ queue \in Seq(Event)
    BY DEF TypeOK
<1>3. CASE queue' = queue
    BY <1>2, <1>3
<1>4. CASE queue' = Append(queue, e)
    BY <1>2, <1>4
<1> QED BY <1>1, <1>3, <1>4 DEF Emit

(* Without installers, the entry that an event changes is the one of the   *)
(* process that caused it, however often its pid has been handed out, and  *)
(* whatever is released, killed or purged between the events.  (An install *)
(* that has ended stays live for two seconds, for its clean-up.)           *)
THEOREM ChargesFollowCauses ==
    ASSUME Installer = {} PROVE Spec => ChargedToActor
<1>1. TypeOK /\ ChargeInv /\ [Next]_vars => ChargeInv'
    BY NextCharges
<1>2. TypeOK /\ ChargeInv /\ [Next]_vars =>
        [ Len(queue') < Len(queue) /\ Head(queue).type \notin {"ProcessCreate", "ProcessStop"}
          => \A k \in ProcessKey : processMap'[k] # processMap[k] => k = Head(queue).actor ]_vars
    <2> SUFFICES ASSUME TypeOK, ChargeInv, Next, Len(queue') < Len(queue),
                        Head(queue).type \notin {"ProcessCreate", "ProcessStop"}
                 PROVE  \A k \in ProcessKey : processMap'[k] # processMap[k] => k = Head(queue).actor
        OBVIOUS
    <2>1. ~System
        BY SystemQueues
    <2>2. Background \/ Administrator => UNCHANGED processMap
        BY OthersLeaveQueue DEF TypeOK
    <2>3. CASE HandleEvent
        BY <2>3, HandlerDequeues, HandlersChangeLive, ActorAlone
    <2> QED BY <2>1, <2>2, <2>3 DEF Next
<1> QED BY <1>1, <1>2, InitCharges, TypeCorrect, PTL DEF Spec, ChargedToActor

=============================================================================
