-------------------------- MODULE HeuristicsProofs --------------------------
(***************************************************************************)
(* Theorems about Heuristics, for every instance of its constants: every   *)
(* set of pids, files and images, any number of events, any placement of   *)
(* entries on shards, with and without the two defects of process_stop.    *)
(***************************************************************************)
EXTENDS Heuristics, TLAPS

USE DEF Time, responseVars, stepVars, osVars, engineVars

-----------------------------------------------------------------------------
(* Lemmas about the operators.                                             *)

(* Sending a signal leaves a signal for every process.                     *)
LEMMA SignalledType ==
    ASSUME sig \in [ProcessKey -> Signal], NEW pids,
           NEW op \in {"STOP", "CONT", "KILL"}, NEW by \in {"engine", "admin"}
    PROVE  Signalled(pids, op, by) \in [ProcessKey -> Signal]
BY DEF Signalled, Signal

(* Marking entries terminated leaves entries.                              *)
LEMMA MarkedType ==
    ASSUME processMap \in [ProcessKey -> ProcessState \cup {NoEntry}],
           NEW S \in SUBSET Tracked
    PROVE  Marked(S) \in [ProcessKey -> ProcessState \cup {NoEntry}]
<1> SUFFICES ASSUME NEW k \in ProcessKey
             PROVE  (IF k \in S
                     THEN [processMap[k] EXCEPT !.terminated = TRUE, !.ttl_deadline = TRUE]
                     ELSE processMap[k]) \in ProcessState \cup {NoEntry}
    BY DEF Marked
<1>1. CASE k \in S
    <2>1. processMap[k] \in ProcessState
        BY <1>1 DEF Tracked
    <2> QED BY <1>1, <2>1 DEF ProcessState
<1>2. CASE k \notin S
    BY <1>2
<1> QED BY <1>1, <1>2

(* Forgetting what a process did leaves an entry.                          *)
LEMMA ResetType ==
    ASSUME NEW s \in ProcessState PROVE Reset(s) \in ProcessState
BY DEF Reset, ProcessState

(* A lookup by pid finds entries of the map that are not terminated.       *)
LEMMA LiveFacts ==
    ASSUME processMap \in [ProcessKey -> ProcessState \cup {NoEntry}],
           NEW p, NEW k \in Live(p)
    PROVE  /\ k \in ProcessKey /\ k \in Tracked /\ k.pid = p
           /\ processMap[k] \in ProcessState /\ ~processMap[k].terminated
BY DEF Live, Tracked

(* What OnePerPid chooses from is tracked.                                 *)
LEMMA OnePerPidTracked ==
    ASSUME NEW pids, NEW S \in OnePerPid(pids) PROVE S \in SUBSET Tracked
BY DEF OnePerPid, Live

(* A suspension leaves the response variables well typed.                  *)
ResponseOK ==
    /\ sig \in [ProcessKey -> Signal]
    /\ alerted \in [ProcessKey -> Response]
    /\ suspended \subseteq ProcessKey
    /\ prompts \in [ProcessKey -> Nat]
    /\ consumer \in {"running", "responding", "blocked", "panicked"}
    /\ responses \subseteq Suspension /\ releases \subseteq Release

LEMMA SuspendType ==
    ASSUME ResponseOK, NEW k \in ProcessKey, NEW by \in {"handler", "iterator", "scan"},
           BeginSuspension(k, by), alerted' \in [ProcessKey -> Response]
    PROVE  ResponseOK'
<1>1. \A popup \in BOOLEAN :
        [by |-> by, root |-> k, step |-> IF popup THEN "popup" ELSE "stop"] \in Suspension
    BY DEF Suspension
<1>2. responses' \subseteq Suspension
    BY <1>1, ConfigAssumption DEF BeginSuspension, ResponseOK
<1>3. consumer' \in {"running", "responding", "blocked", "panicked"}
    BY DEF BeginSuspension, ResponseOK
<1>4. suspended' \subseteq ProcessKey
    BY DEF BeginSuspension, ResponseOK
<1> QED BY <1>2, <1>3, <1>4 DEF BeginSuspension, ResponseOK

(* So does a termination, which leaves the map well typed too.             *)
LEMMA TerminateType ==
    ASSUME ResponseOK, NEW k \in ProcessKey, TerminateThreat(k),
           processMap \in [ProcessKey -> ProcessState \cup {NoEntry}]
    PROVE  ResponseOK' /\ processMap' \in [ProcessKey -> ProcessState \cup {NoEntry}]
<1>1. sig' \in [ProcessKey -> Signal]
    BY SignalledType DEF TerminateThreat, ThreatSignals, ResponseOK
<1>2. processMap' \in [ProcessKey -> ProcessState \cup {NoEntry}]
    BY OnePerPidTracked, MarkedType DEF TerminateThreat
<1>3. alerted' \in [ProcessKey -> Response]
    BY DEF TerminateThreat, ResponseOK, Response
<1> QED BY <1>1, <1>2, <1>3 DEF ResponseOK, TerminateThreat

(* The next event is an event, and the rest of the queue a queue.          *)
LEMMA QueueType ==
    ASSUME queue \in Seq(Event), queue # <<>>
    PROVE  Head(queue) \in Event /\ Tail(queue) \in Seq(Event)
OBVIOUS

(* The shape of an event follows from its type.                            *)
LEMMA EventShape ==
    ASSUME NEW e \in Event
    PROVE  /\ e.type = "ProcessCreate" => e \in CreateEvent
           /\ e.type \in FileEventType => e \in FileEvent
           /\ e.type # "ProcessCreate" => e \in FileEvent \cup PlainEvent
           /\ e.pid \in Pid
BY DEF Event, CreateEvent, FileEvent, PlainEvent, FileEventType, PlainEventType

-----------------------------------------------------------------------------
(* Type correctness.                                                       *)

MapType == [ProcessKey -> ProcessState \cup {NoEntry}]

(* The parts of TypeOK that no response and no handler touches together.   *)
LEMMA TypeParts ==
    TypeOK <=> /\ processMap \in MapType
               /\ childrenMap \in [ProcessKey -> SUBSET ProcessKey]
               /\ queue \in Seq(Event)
               /\ purger \in {"running", "blocked"}
               /\ pinned \subseteq Nat
               /\ yara \subseteq ProcessKey /\ cleanups \subseteq ProcessKey
               /\ clock \in Time /\ holder \in [Pid -> Time]
               /\ ResponseOK
BY DEF TypeOK, ResponseOK, MapType

LEMMA InitType == Init => TypeOK
<1> SUFFICES ASSUME Init PROVE TypeOK
    OBVIOUS
<1>1. holder \in [Pid -> Time] /\ clock \in Time
    BY ConfigAssumption DEF Init
<1>2. ResponseOK
    BY DEF Init, ResponseOK, Signal, Response
<1> QED BY <1>1, <1>2, TypeParts DEF Init, MapType

(* What the operating system does.                                         *)
LEMMA EmitType ==
    ASSUME queue \in Seq(Event), NEW e \in Event, Emit(e)
    PROVE  queue' \in Seq(Event)
BY DEF Emit

LEMMA ForkType ==
    ASSUME TypeOK, NEW p \in Pid, NEW c \in Pid, NEW i \in Image, NEW q \in Pid, Fork(p, c, i, q)
    PROVE  TypeOK'
<1> USE ConfigAssumption DEF TypeOK
<1>1. clock + 1 \in Time \ {0}
    BY DEF Fork
<1>2. Current(p) \in ProcessKey
    BY DEF Current, ProcessKey
<1> DEFINE e == [type |-> "ProcessCreate", pid |-> q, child_pid |-> c,
                 real_parent_pid |-> p, timestamp |-> clock + 1, image |-> i,
                 actor |-> Current(p)]
<1>3. e \in Event
    BY <1>1, <1>2 DEF Event, CreateEvent
<1>4. Emit(e)
    BY DEF Fork
<1>5. queue' \in Seq(Event)
    BY <1>3, <1>4, EmitType
<1> QED BY <1>1, <1>5 DEF Fork

LEMMA ExitType ==
    ASSUME TypeOK, NEW p \in Pid, Exit(p) PROVE TypeOK'
<1> USE ConfigAssumption DEF TypeOK
<1>1. Current(p) \in ProcessKey
    BY DEF Current, ProcessKey
<1>2. [type |-> "ProcessStop", pid |-> p, actor |-> Current(p)] \in Event
    BY <1>1 DEF Event, PlainEvent, PlainEventType
<1>3. queue' \in Seq(Event)
    BY <1>2, EmitType DEF Exit
<1> QED BY <1>3 DEF Exit

LEMMA ActType ==
    ASSUME TypeOK, NEW p \in Pid, Act(p) PROVE TypeOK'
<1> USE ConfigAssumption DEF TypeOK
<1>1. Current(p) \in ProcessKey
    BY DEF Current, ProcessKey
<1>2. \A t \in FileEventType, f \in File :
        [type |-> t, pid |-> p, file |-> f, actor |-> Current(p)] \in Event
    BY <1>1 DEF Event, FileEvent
<1>3. \A t \in PlainEventType : [type |-> t, pid |-> p, actor |-> Current(p)] \in Event
    BY <1>1 DEF Event, PlainEvent
<1>4. queue' \in Seq(Event)
    BY <1>2, <1>3, EmitType DEF Act
<1> QED BY <1>4 DEF Act

(* A handler leaves a queue.                                               *)
LEMMA DequeueType ==
    ASSUME queue \in Seq(Event), queue # <<>>, Dequeue PROVE queue' \in Seq(Event)
BY DEF Dequeue

(* The new entry is well formed.                                           *)
LEMMA CreatedEntry ==
    ASSUME TypeOK, ProcessCreate
    PROVE  \E s \in ProcessState :
             processMap' = [processMap EXCEPT ![[pid |-> Head(queue).child_pid,
                                                start_time |-> Head(queue).timestamp]] = s]
<1> DEFINE e == Head(queue)
<1>1. e \in CreateEvent
    BY EventShape, QueueType DEF ProcessCreate, Handling, TypeOK
<1>2. PICK untrusted \in Verdict, inherited \in Inherited(ParentOf(e)) :
         processMap' = [processMap EXCEPT ![[pid |-> e.child_pid, start_time |-> e.timestamp]]
                            = NewState(e, inherited, untrusted)]
    BY DEF ProcessCreate
<1>3. inherited.context \in BOOLEAN /\ inherited.root \in Pid \cup {0}
    <2>1. CASE Live(ParentOf(e)) = {}
        <3>1. inherited = [context |-> FALSE, root |-> 0]
            BY <2>1 DEF Inherited
        <3> QED BY <3>1
    <2>2. CASE Live(ParentOf(e)) # {}
        <3>1. PICK q \in Live(ParentOf(e)) :
                 inherited = [context |-> processMap[q].is_install_context,
                              root |-> processMap[q].install_root_pid]
            BY <2>2 DEF Inherited
        <3>2. processMap[q] \in ProcessState
            BY LiveFacts DEF TypeOK
        <3> QED BY <3>1, <3>2 DEF ProcessState
    <2> QED BY <2>1, <2>2
<1>4. NewState(e, inherited, untrusted) \in ProcessState
    <2>1. untrusted \in BOOLEAN
        BY ConfigAssumption
    <2> QED BY <1>1, <1>3, <2>1 DEF NewState, ProcessState, CreateEvent, Spoofed
<1> QED BY <1>2, <1>4

LEMMA ProcessCreateType == ASSUME TypeOK, ProcessCreate PROVE TypeOK'
<1> DEFINE e == Head(queue)
           k == [pid |-> e.child_pid, start_time |-> e.timestamp]
<1>1. e \in CreateEvent /\ queue' \in Seq(Event)
    BY EventShape, QueueType, DequeueType DEF ProcessCreate, Handling, TypeOK
<1>2. k \in ProcessKey /\ WildCard(e.pid) \in ProcessKey
    BY <1>1, ConfigAssumption DEF CreateEvent, ProcessKey, WildCard
<1>3. yara' = yara \/ yara' = yara \cup {k}
    BY DEF ProcessCreate
<1>4. ResponseOK'
    <2>1. PICK matched \in Sigma :
             IF matched THEN BeginSuspension(k, "handler")
             ELSE UNCHANGED <<sig, suspended, prompts, consumer, stepVars>>
        BY DEF ProcessCreate
    <2>2. alerted' \in [ProcessKey -> Response]
        BY <1>2 DEF ProcessCreate, TypeOK, Announced, Response
    <2>3. CASE matched
        BY <2>1, <2>2, <2>3, <1>2, SuspendType, TypeParts
    <2>4. CASE ~matched
        BY <2>1, <2>2, <2>4, TypeParts DEF ResponseOK
    <2> QED BY <2>3, <2>4
<1>5. processMap' \in MapType
    BY <1>2, CreatedEntry DEF MapType, TypeOK
<1>6. childrenMap' \in [ProcessKey -> SUBSET ProcessKey]
    BY <1>2 DEF ProcessCreate, TypeOK
<1>7. yara' \subseteq ProcessKey
    BY <1>2, <1>3 DEF TypeOK
<1> QED BY <1>1, <1>4, <1>5, <1>6, <1>7 DEF ProcessCreate, TypeOK, ResponseOK, MapType

LEMMA UntrackedType == ASSUME TypeOK, Untracked PROVE TypeOK'
<1>1. queue' \in Seq(Event)
    BY QueueType DEF Untracked, TypeOK
<1> QED BY <1>1 DEF Untracked, TypeOK

LEMMA ProcessStopType == ASSUME TypeOK, ProcessStop PROVE TypeOK'
<1> DEFINE p == Head(queue).pid
<1>1. queue' \in Seq(Event)
    BY DequeueType DEF ProcessStop, Handling, TypeOK
<1>2. PICK first \in Live(p) :
         \/ /\ cleanups' = IF ConsumerInRuntime THEN cleanups \cup {first} ELSE cleanups
            /\ consumer' = IF ConsumerInRuntime THEN consumer ELSE "panicked"
            /\ UNCHANGED <<processMap, pinned>>
         \/ /\ consumer' = IF IterPinsShard THEN "blocked" ELSE consumer
            /\ pinned' = IF IterPinsShard THEN pinned \cup {ShardOf[first]} ELSE pinned
            /\ processMap' = IF IterPinsShard THEN processMap ELSE Marked(Live(p))
            /\ UNCHANGED cleanups
    BY DEF ProcessStop
<1>3. first \in ProcessKey /\ ShardOf[first] \in Nat
    BY LiveFacts, ConfigAssumption DEF TypeOK
<1>4. Live(p) \subseteq Tracked
    BY DEF Live
<1>5. Marked(Live(p)) \in MapType
    BY <1>4, MarkedType DEF TypeOK, MapType
<1>6. /\ processMap' \in MapType /\ pinned' \subseteq Nat /\ cleanups' \subseteq ProcessKey
      /\ consumer' \in {"running", "responding", "blocked", "panicked"}
    BY <1>2, <1>3, <1>5 DEF TypeOK, MapType
<1> QED BY <1>1, <1>6 DEF ProcessStop, TypeOK, MapType

(* A process that has read a sensitive file.                               *)
LEMMA ReadType ==
    ASSUME NEW s \in ProcessState, NEW f \in File
    PROVE  [s EXCEPT !.category_flags = @ \cup CategoryOf[f],
                     !.unique_files_read = @ \cup {f}] \in ProcessState
BY DEF ProcessState, Category

LEMMA FileReadType == ASSUME TypeOK, FileRead PROVE TypeOK'
<1> DEFINE e == Head(queue)
           Read(k) == [processMap[k] EXCEPT !.category_flags = @ \cup CategoryOf[e.file],
                                            !.unique_files_read = @ \cup {e.file}]
<1>1. e \in FileEvent /\ queue' \in Seq(Event)
    BY EventShape, QueueType, DequeueType DEF FileRead, Handling, TypeOK, FileEventType
<1>2. PICK k \in Live(e.pid) :
         \/ UNCHANGED <<processMap, responseVars>>
         \/ /\ processMap' = [processMap EXCEPT ![k] = Read(k)]
            /\ (BeginSuspension(k, "handler") /\ UNCHANGED alerted) \/ UNCHANGED responseVars
    BY DEF FileRead
<1>3. k \in ProcessKey /\ processMap[k] \in ProcessState
    BY LiveFacts DEF TypeOK
<1>4. Read(k) \in ProcessState
    BY <1>1, <1>3, ReadType DEF FileEvent
<1>5. ResponseOK'
    BY <1>2, <1>3, SuspendType DEF TypeOK, ResponseOK
<1>6. processMap' \in MapType
    BY <1>2, <1>3, <1>4 DEF TypeOK, MapType
<1> QED BY <1>1, <1>5, <1>6 DEF FileRead, TypeOK, ResponseOK, MapType

LEMMA NetworkConnectType == ASSUME TypeOK, NetworkConnect PROVE TypeOK'
<1> DEFINE e == Head(queue)
<1>1. queue' \in Seq(Event)
    BY DequeueType DEF NetworkConnect, Handling, TypeOK
<1>2. PICK k \in Live(e.pid) :
         /\ processMap' = [processMap EXCEPT ![k].pending_network_connect = TRUE]
         /\ (BeginSuspension(k, "handler") /\ UNCHANGED alerted) \/ UNCHANGED responseVars
    BY DEF NetworkConnect
<1>3. k \in ProcessKey /\ processMap[k] \in ProcessState
    BY LiveFacts DEF TypeOK
<1>4. [processMap[k] EXCEPT !.pending_network_connect = TRUE] \in ProcessState
    BY <1>3 DEF ProcessState
<1>5. ResponseOK'
    BY <1>2, <1>3, SuspendType DEF TypeOK, ResponseOK
<1>6. processMap' \in MapType
    BY <1>2, <1>3, <1>4 DEF TypeOK, MapType
<1> QED BY <1>1, <1>5, <1>6 DEF NetworkConnect, TypeOK, ResponseOK, MapType

(* What file_write does about a live entry k of the writing pid.           *)
HangsOn(k) ==
    /\ sig' = ThreatSignals(k)
    /\ \E marks \in OnePerPid(TreePids(k)) :
         \E earlier \in SUBSET marks : processMap' = Marked(earlier) /\ earlier \in SUBSET Tracked
    /\ consumer' = "blocked"
    /\ pinned' = pinned \cup {ShardOf[k]}
    /\ UNCHANGED <<alerted, suspended, prompts, stepVars>>

LEMMA FileWriteCases ==
    ASSUME FileWrite
    PROVE  \E k \in Live(Head(queue).pid) :
             \/ HangsOn(k)
             \/ TerminateThreat(k) /\ UNCHANGED pinned
             \/ UNCHANGED <<processMap, responseVars, pinned>>
<1>1. PICK k \in Live(Head(queue).pid) :
         \/ \E marks \in OnePerPid(TreePids(k)) :
              /\ sig' = ThreatSignals(k)
              /\ \E earlier \in SUBSET marks : processMap' = Marked(earlier)
              /\ consumer' = "blocked"
              /\ pinned' = pinned \cup {ShardOf[k]}
              /\ UNCHANGED <<alerted, suspended, prompts, stepVars>>
         \/ TerminateThreat(k) /\ UNCHANGED pinned
         \/ UNCHANGED <<processMap, responseVars, pinned>>
    BY DEF FileWrite
<1>2. \A marks \in OnePerPid(TreePids(k)) : marks \in SUBSET Tracked
    BY OnePerPidTracked
<1>3. (\E marks \in OnePerPid(TreePids(k)) :
              /\ sig' = ThreatSignals(k)
              /\ \E earlier \in SUBSET marks : processMap' = Marked(earlier)
              /\ consumer' = "blocked"
              /\ pinned' = pinned \cup {ShardOf[k]}
              /\ UNCHANGED <<alerted, suspended, prompts, stepVars>>) => HangsOn(k)
    BY <1>2 DEF HangsOn
<1> QED BY <1>1, <1>3

LEMMA FileWriteType == ASSUME TypeOK, FileWrite PROVE TypeOK'
<1> DEFINE e == Head(queue)
<1>1. queue' \in Seq(Event)
    BY DequeueType DEF FileWrite, Handling, TypeOK
<1>2. PICK k \in Live(e.pid) :
         \/ HangsOn(k)
         \/ TerminateThreat(k) /\ UNCHANGED pinned
         \/ UNCHANGED <<processMap, responseVars, pinned>>
    BY FileWriteCases
<1>3. k \in ProcessKey /\ ShardOf[k] \in Nat
    BY LiveFacts, ConfigAssumption DEF TypeOK
<1>4. processMap' \in MapType /\ ResponseOK' /\ pinned' \subseteq Nat
    <2>1. CASE HangsOn(k)
        <3>1. sig' \in [ProcessKey -> Signal]
            BY <2>1, SignalledType DEF HangsOn, ThreatSignals, TypeOK
        <3>2. processMap' \in MapType
            BY <2>1, MarkedType DEF HangsOn, TypeOK, MapType
        <3> QED BY <2>1, <3>1, <3>2, <1>3 DEF HangsOn, TypeOK, ResponseOK
    <2>2. CASE TerminateThreat(k) /\ UNCHANGED pinned
        BY <2>2, <1>3, TerminateType DEF TypeOK, ResponseOK, MapType
    <2>3. CASE UNCHANGED <<processMap, responseVars, pinned>>
        BY <2>3 DEF TypeOK, ResponseOK, MapType
    <2> QED BY <1>2, <2>1, <2>2, <2>3
<1> QED BY <1>1, <1>4 DEF FileWrite, TypeOK, ResponseOK, MapType

(* The three handlers that may terminate an install.                       *)
LEMMA InstallHandlersType ==
    ASSUME TypeOK, FileOpen \/ Dup2 \/ RegistryWrite PROVE TypeOK'
<1>1. queue' \in Seq(Event)
    BY DequeueType DEF FileOpen, Dup2, RegistryWrite, Handling, TypeOK
<1>2. PICK k \in Live(Head(queue).pid) : TerminateThreat(k) \/ UNCHANGED <<processMap, responseVars>>
    BY DEF FileOpen, Dup2, RegistryWrite, TerminateInstall
<1>3. k \in ProcessKey
    BY LiveFacts DEF TypeOK
<1>4. processMap' \in MapType /\ ResponseOK'
    BY <1>2, <1>3, TerminateType DEF TypeOK, ResponseOK, MapType
<1> QED BY <1>1, <1>4 DEF FileOpen, Dup2, RegistryWrite, TypeOK, ResponseOK, MapType

LEMMA UntrustedHandlersType ==
    ASSUME TypeOK, PtraceAttach \/ MemoryProtect PROVE TypeOK'
<1>1. queue' \in Seq(Event)
    BY DequeueType DEF PtraceAttach, MemoryProtect, Handling, TypeOK
<1>2. PICK k \in Live(Head(queue).pid) :
         \E by \in {"handler", "iterator"} : SuspendUntrusted(k, by)
    BY DEF PtraceAttach, MemoryProtect
<1>3. k \in ProcessKey
    BY LiveFacts DEF TypeOK
<1>4. ResponseOK'
    BY <1>2, <1>3, SuspendType DEF SuspendUntrusted, TypeOK, ResponseOK
<1> QED BY <1>1, <1>4 DEF PtraceAttach, MemoryProtect, TypeOK, ResponseOK

LEMMA HandleEventType == ASSUME TypeOK, HandleEvent PROVE TypeOK'
BY UntrackedType, ProcessCreateType, ProcessStopType, FileReadType, NetworkConnectType,
   FileWriteType, InstallHandlersType, UntrustedHandlersType DEF HandleEvent

LEMMA YaraVerdictType == ASSUME TypeOK, NEW k \in ProcessKey, YaraVerdict(k) PROVE TypeOK'
<1>1. ResponseOK'
    BY SuspendType DEF YaraVerdict, TypeOK, ResponseOK
<1> QED BY <1>1 DEF YaraVerdict, TypeOK, ResponseOK

LEMMA BeginReleaseType ==
    ASSUME ResponseOK, NEW k \in ProcessKey, NEW by \in {"command", "prompt"}, BeginRelease(k, by)
    PROVE  sig' \in [ProcessKey -> Signal] /\ releases' \subseteq Release
<1>1. sig' \in [ProcessKey -> Signal]
    BY SignalledType DEF BeginRelease, ResponseOK
<1>2. [by |-> by, root |-> k, step |-> "reset"] \in Release
    BY DEF Release
<1> QED BY <1>1, <1>2 DEF BeginRelease, ResponseOK

LEMMA PromptType ==
    ASSUME TypeOK, NEW k \in ProcessKey, PromptAllow(k) \/ PromptDeny(k) \/ PromptUnanswered(k)
    PROVE  TypeOK'
<1>1. prompts' \in [ProcessKey -> Nat]
    <2>1. prompts[k] > 0 /\ prompts' = [prompts EXCEPT ![k] = @ - 1]
        BY DEF PromptAllow, PromptDeny, PromptUnanswered
    <2>2. prompts \in [ProcessKey -> Nat] /\ prompts[k] - 1 \in Nat
        BY <2>1 DEF TypeOK
    <2> QED BY <2>1, <2>2
<1>2. sig' \in [ProcessKey -> Signal] /\ releases' \subseteq Release
    <2>1. CASE PromptAllow(k)
        BY <2>1, BeginReleaseType DEF PromptAllow, TypeOK, ResponseOK
    <2>2. CASE PromptDeny(k) \/ PromptUnanswered(k)
        BY <2>2, SignalledType DEF PromptDeny, PromptUnanswered, TypeOK
    <2> QED BY <2>1, <2>2
<1> QED BY <1>1, <1>2 DEF PromptAllow, PromptDeny, PromptUnanswered, TypeOK

(* The steps of a suspension and of a release.                             *)
LEMMA SuspensionStepType ==
    ASSUME TypeOK, NEW r \in responses, ClosePopup(r) \/ SendStop(r) \/ Announce(r)
    PROVE  TypeOK'
<1>1. r \in Suspension
    BY DEF TypeOK
<1>2. responses' \subseteq Suspension
    <2>1. [r EXCEPT !.step = "stop"] \in Suspension /\ [r EXCEPT !.step = "announce"] \in Suspension
        BY <1>1 DEF Suspension
    <2> QED BY <2>1 DEF ClosePopup, SendStop, Announce, TypeOK
<1>3. CASE ClosePopup(r)
    BY <1>2, <1>3 DEF ClosePopup, TypeOK
<1>4. CASE SendStop(r)
    <2>1. sig' \in [ProcessKey -> Signal]
        BY <1>4, SignalledType DEF SendStop, TypeOK
    <2> QED BY <1>2, <1>4, <2>1 DEF SendStop, TypeOK
<1>5. CASE Announce(r)
    <2>1. r.root \in ProcessKey
        BY <1>1 DEF Suspension
    <2>2. alerted' \in [ProcessKey -> Response]
        BY <1>5, <2>1 DEF Announce, TypeOK, Announced, Response
    <2>3. /\ prompts' \in [ProcessKey -> Nat]
          /\ consumer' \in {"running", "responding", "blocked", "panicked"}
        BY <1>5, <2>1 DEF Announce, TypeOK
    <2>4. queue' \in Seq(Event)
        BY <1>5 DEF Announce, TypeOK
    <2> QED BY <1>2, <1>5, <2>2, <2>3, <2>4 DEF Announce, TypeOK
<1> QED BY <1>3, <1>4, <1>5

LEMMA ReleaseStepType ==
    ASSUME TypeOK, NEW r \in releases, ResetDetection(r) \/ AnnounceRelease(r)
    PROVE  TypeOK'
<1>1. r \in Release /\ r.root \in ProcessKey
    BY DEF TypeOK, Release
<1>2. CASE ResetDetection(r)
    <2>1. [r EXCEPT !.step = "announce"] \in Release
        BY <1>1 DEF Release
    <2>2. releases' \subseteq Release
        BY <1>2, <2>1 DEF ResetDetection, TypeOK
    <2>3. processMap' \in MapType /\ suspended' \subseteq ProcessKey
        <3>1. CASE r.root \in Tracked
            <4>1. Reset(processMap[r.root]) \in ProcessState
                BY <3>1, ResetType DEF Tracked, TypeOK
            <4> QED BY <1>2, <3>1, <4>1 DEF ResetDetection, TypeOK, MapType
        <3>2. CASE r.root \notin Tracked
            BY <1>2, <3>2 DEF ResetDetection, TypeOK, MapType
        <3> QED BY <3>1, <3>2
    <2> QED BY <1>2, <2>2, <2>3 DEF ResetDetection, TypeOK, MapType
<1>3. CASE AnnounceRelease(r)
    <2>1. alerted' \in [ProcessKey -> Response]
        BY <1>1, <1>3 DEF AnnounceRelease, TypeOK, Response
    <2> QED BY <1>3, <2>1 DEF AnnounceRelease, TypeOK
<1> QED BY <1>2, <1>3

LEMMA CleanupType == ASSUME TypeOK, NEW k \in ProcessKey, CleanupInstall(k) PROVE TypeOK'
<1>1. processMap' \in MapType
    BY MarkedType DEF CleanupInstall, TypeOK, MapType
<1>2. sig' \in [ProcessKey -> Signal]
    BY SignalledType DEF CleanupInstall, TypeOK
<1> QED BY <1>1, <1>2 DEF CleanupInstall, TypeOK, MapType

LEMMA PurgeType == ASSUME TypeOK, Purge PROVE TypeOK'
BY DEF Purge, TypeOK

LEMMA AdministratorType ==
    ASSUME TypeOK, NEW p \in Pid, ReleaseProcessTree(p) \/ KillProcessTree(p) \/ TrustOnce(p)
    PROVE  TypeOK'
<1>1. CASE ReleaseProcessTree(p)
    <2>1. PICK k \in Live(p) : BeginRelease(k, "command")
        BY <1>1 DEF ReleaseProcessTree
    <2>2. k \in ProcessKey
        BY LiveFacts DEF TypeOK
    <2>3. sig' \in [ProcessKey -> Signal] /\ releases' \subseteq Release
        BY <2>1, <2>2, BeginReleaseType DEF TypeOK, ResponseOK
    <2> QED BY <1>1, <2>3 DEF ReleaseProcessTree, TypeOK
<1>2. CASE KillProcessTree(p)
    <2>1. sig' \in [ProcessKey -> Signal]
        BY <1>2, SignalledType DEF KillProcessTree, TypeOK
    <2>2. alerted' \in [ProcessKey -> Response]
        BY <1>2 DEF KillProcessTree, TypeOK, Response
    <2> QED BY <1>2, <2>1, <2>2 DEF KillProcessTree, TypeOK
<1>3. CASE TrustOnce(p)
    <2>1. PICK k \in Tracked :
             /\ processMap' = [processMap EXCEPT ![k] = [Reset(@) EXCEPT !.is_untrusted = FALSE]]
             /\ suspended' = suspended \ {k}
        BY <1>3 DEF TrustOnce
    <2>2. k \in ProcessKey /\ Reset(processMap[k]) \in ProcessState
        BY ResetType DEF Tracked, TypeOK
    <2>3. [Reset(processMap[k]) EXCEPT !.is_untrusted = FALSE] \in ProcessState
        BY <2>2 DEF ProcessState
    <2>4. processMap' \in MapType /\ suspended' \subseteq ProcessKey
        BY <2>1, <2>2, <2>3 DEF TypeOK, MapType
    <2> QED BY <1>3, <2>4 DEF TrustOnce, TypeOK, MapType
<1> QED BY <1>1, <1>2, <1>3

LEMMA NextType == ASSUME TypeOK, [Next]_vars PROVE TypeOK'
<1>1. CASE System
    BY <1>1, ForkType, ExitType, ActType DEF System
<1>2. CASE HandleEvent
    BY <1>2, HandleEventType
<1>3. CASE Background
    BY <1>3, YaraVerdictType, PromptType, CleanupType, PurgeType, SuspensionStepType,
       ReleaseStepType DEF Background, Continue
<1>4. CASE Administrator
    BY <1>4, AdministratorType DEF Administrator
<1>5. CASE UNCHANGED vars
    BY <1>5 DEF vars, TypeOK
<1> QED BY <1>1, <1>2, <1>3, <1>4, <1>5 DEF Next

(* Every variable of the engine keeps its type: whatever is looked up,     *)
(* marked, reset or evicted, process_map maps keys to well-formed states.  *)
THEOREM TypeCorrect == Spec => []TypeOK
BY InitType, NextType, PTL DEF Spec

-----------------------------------------------------------------------------
(* Both orders of reading and connecting are detected.                     *)

(* The step's only suspicious entries were suspicious, and nothing that    *)
(* was suspended is forgotten.                                             *)
NoNewSuspicion ==
    /\ \A k \in Tracked' : Suspicious(processMap'[k]) => k \in Tracked /\ Suspicious(processMap[k])
    /\ suspended \subseteq suspended'

LEMMA NoNewSuspicionSuffices ==
    ASSUME DetectionReported, NoNewSuspicion PROVE DetectionReported'
BY DEF DetectionReported, NoNewSuspicion

LEMMA SameMapKeepsDetection ==
    ASSUME DetectionReported, UNCHANGED processMap, suspended \subseteq suspended'
    PROVE  DetectionReported'
BY DEF DetectionReported, Tracked

LEMMA MarkedKeepsDetection ==
    ASSUME TypeOK, DetectionReported, NEW S \in SUBSET Tracked, processMap' = Marked(S),
           suspended \subseteq suspended'
    PROVE  DetectionReported'
<1>1. ASSUME NEW k \in Tracked', Suspicious(processMap'[k])
      PROVE  k \in Tracked /\ Suspicious(processMap[k])
    <2>1. CASE k \in S
        <3>1. processMap[k] \in ProcessState
            BY <2>1 DEF Tracked, TypeOK
        <3>2. processMap'[k].terminated
            BY <2>1, <3>1 DEF Tracked, Marked, ProcessState
        <3> QED BY <1>1, <3>2 DEF Suspicious
    <2>2. CASE k \notin S
        BY <1>1, <2>2 DEF Marked, Tracked
    <2> QED BY <2>1, <2>2
<1> QED BY <1>1, NoNewSuspicionSuffices DEF NoNewSuspicion

(* One entry changes, and the change is harmless or answered.              *)
LEMMA OneEntryKeepsDetection ==
    ASSUME TypeOK, DetectionReported, NEW k \in ProcessKey, NEW s,
           processMap' = [processMap EXCEPT ![k] = s],
           Suspicious(s) => k \in suspended',
           suspended \ {k} \subseteq suspended'
    PROVE  DetectionReported'
<1> SUFFICES ASSUME NEW x \in Tracked', Suspicious(processMap'[x]) PROVE x \in suspended'
    BY DEF DetectionReported
<1>1. CASE x = k
    BY <1>1 DEF TypeOK
<1>2. CASE x # k
    BY <1>2 DEF TypeOK, Tracked, DetectionReported
<1> QED BY <1>1, <1>2

LEMMA TerminateKeepsDetection ==
    ASSUME TypeOK, DetectionReported, NEW k \in ProcessKey, TerminateThreat(k)
    PROVE  DetectionReported'
BY OnePerPidTracked, MarkedKeepsDetection DEF TerminateThreat

LEMMA HandleEventDetection ==
    ASSUME TypeOK, DetectionReported, HandleEvent PROVE DetectionReported'
<1>1. CASE Untracked
    BY <1>1, SameMapKeepsDetection DEF Untracked
<1>2. CASE ProcessCreate
    <2> DEFINE e == Head(queue)
               k == [pid |-> e.child_pid, start_time |-> e.timestamp]
    <2>1. PICK untrusted \in Verdict, inherited \in Inherited(ParentOf(e)) :
             processMap' = [processMap EXCEPT ![k] = NewState(e, inherited, untrusted)]
        BY <1>2 DEF ProcessCreate
    <2>2. ~Suspicious(NewState(e, inherited, untrusted))
        BY DEF Suspicious, NewState
    <2>3. suspended \subseteq suspended'
        BY <1>2 DEF ProcessCreate, BeginSuspension
    <2>4. k \in ProcessKey
        BY <1>2, EventShape, QueueType, ConfigAssumption
           DEF ProcessCreate, Handling, TypeOK, CreateEvent, ProcessKey
    <2> QED BY <2>1, <2>2, <2>3, <2>4, OneEntryKeepsDetection
<1>3. CASE ProcessStop
    <2>1. processMap' = processMap \/ processMap' = Marked(Live(Head(queue).pid))
        BY <1>3 DEF ProcessStop
    <2>2. UNCHANGED suspended
        BY <1>3 DEF ProcessStop
    <2>3. Live(Head(queue).pid) \in SUBSET Tracked
        BY DEF Live
    <2> QED BY <2>1, <2>2, <2>3, MarkedKeepsDetection, SameMapKeepsDetection
<1>4. CASE FileRead
    <2> DEFINE e == Head(queue)
               Read(k) == [processMap[k] EXCEPT !.category_flags = @ \cup CategoryOf[e.file],
                                                !.unique_files_read = @ \cup {e.file}]
    <2>1. PICK k \in Live(e.pid) :
             \/ UNCHANGED <<processMap, responseVars>>
             \/ /\ processMap' = [processMap EXCEPT ![k] = Read(k)]
                /\ IF ReadSuspends(Read(k), e.file)
                   THEN BeginSuspension(k, "handler") /\ UNCHANGED alerted
                   ELSE UNCHANGED responseVars
        BY <1>4 DEF FileRead
    <2>2. k \in ProcessKey
        BY LiveFacts DEF TypeOK
    <2>3. CASE UNCHANGED <<processMap, responseVars>>
        BY <2>3, SameMapKeepsDetection
    <2>4. CASE /\ processMap' = [processMap EXCEPT ![k] = Read(k)]
               /\ IF ReadSuspends(Read(k), e.file)
                  THEN BeginSuspension(k, "handler") /\ UNCHANGED alerted
                  ELSE UNCHANGED responseVars
        <3>1. Suspicious(Read(k)) => ReadSuspends(Read(k), e.file)
            BY DEF Suspicious, ReadSuspends
        <3>2. Suspicious(Read(k)) => k \in suspended'
            BY <2>4, <3>1 DEF BeginSuspension
        <3>3. suspended \subseteq suspended'
            BY <2>4 DEF BeginSuspension
        <3> QED BY <2>2, <2>4, <3>2, <3>3, OneEntryKeepsDetection
    <2> QED BY <2>1, <2>3, <2>4
<1>5. CASE NetworkConnect
    <2>1. PICK k \in Live(Head(queue).pid) :
             /\ processMap' = [processMap EXCEPT ![k].pending_network_connect = TRUE]
             /\ IF ConnectSuspends(processMap[k])
                THEN BeginSuspension(k, "handler") /\ UNCHANGED alerted
                ELSE UNCHANGED responseVars
        BY <1>5 DEF NetworkConnect
    <2> DEFINE s == [processMap[k] EXCEPT !.pending_network_connect = TRUE]
    <2>2. k \in ProcessKey /\ processMap[k] \in ProcessState
        BY LiveFacts DEF TypeOK
    <2>3. Suspicious(s) => ConnectSuspends(processMap[k])
        BY <2>2 DEF Suspicious, ConnectSuspends, ProcessState
    <2>4. (Suspicious(s) => k \in suspended') /\ suspended \subseteq suspended'
        BY <2>1, <2>3 DEF BeginSuspension
    <2> QED BY <2>1, <2>2, <2>4, OneEntryKeepsDetection
<1>6. CASE FileWrite
    <2>1. PICK k \in Live(Head(queue).pid) :
             \/ HangsOn(k)
             \/ TerminateThreat(k)
             \/ UNCHANGED <<processMap, suspended>>
        BY <1>6, FileWriteCases
    <2>2. k \in ProcessKey
        BY LiveFacts DEF TypeOK
    <2>3. CASE HangsOn(k)
        BY <2>3, MarkedKeepsDetection DEF HangsOn
    <2> QED BY <2>1, <2>2, <2>3, TerminateKeepsDetection, SameMapKeepsDetection
<1>7. CASE FileOpen \/ Dup2 \/ RegistryWrite
    <2>1. PICK k \in Live(Head(queue).pid) : TerminateThreat(k) \/ UNCHANGED <<processMap, responseVars>>
        BY <1>7 DEF FileOpen, Dup2, RegistryWrite, TerminateInstall
    <2>2. k \in ProcessKey
        BY LiveFacts DEF TypeOK
    <2> QED BY <2>1, <2>2, TerminateKeepsDetection, SameMapKeepsDetection
<1>8. CASE PtraceAttach \/ MemoryProtect
    <2>1. suspended \subseteq suspended'
        BY <1>8 DEF PtraceAttach, MemoryProtect, SuspendUntrusted, BeginSuspension
    <2> QED BY <1>8, <2>1, SameMapKeepsDetection DEF PtraceAttach, MemoryProtect
<1> QED BY <1>1, <1>2, <1>3, <1>4, <1>5, <1>6, <1>7, <1>8 DEF HandleEvent

LEMMA NextDetection ==
    ASSUME TypeOK, DetectionReported, [Next]_vars PROVE DetectionReported'
<1>1. CASE System
    BY <1>1, SameMapKeepsDetection DEF System, Fork, Exit, Act
<1>2. CASE HandleEvent
    BY <1>2, HandleEventDetection
<1>3. ASSUME NEW k \in ProcessKey, YaraVerdict(k) PROVE DetectionReported'
    BY <1>3, SameMapKeepsDetection DEF YaraVerdict, BeginSuspension
<1>4. ASSUME NEW r \in releases, ResetDetection(r) PROVE DetectionReported'
    <2>1. CASE r.root \in Tracked
        <3>1. r.root \in ProcessKey /\ ~Suspicious(Reset(processMap[r.root]))
            BY <2>1 DEF Suspicious, Reset, Tracked, TypeOK, ProcessState
        <3>2. /\ processMap' = [processMap EXCEPT ![r.root] = Reset(processMap[r.root])]
              /\ suspended' = suspended \ {r.root}
            BY <1>4, <2>1 DEF ResetDetection
        <3> QED BY <3>1, <3>2, OneEntryKeepsDetection
    <2>2. CASE r.root \notin Tracked
        BY <1>4, <2>2, SameMapKeepsDetection DEF ResetDetection
    <2> QED BY <2>1, <2>2
<1>5. ASSUME NEW k \in ProcessKey, PromptAllow(k) \/ PromptDeny(k) \/ PromptUnanswered(k)
      PROVE  DetectionReported'
    BY <1>5, SameMapKeepsDetection DEF PromptAllow, PromptDeny, PromptUnanswered
<1>6. ASSUME NEW k \in ProcessKey, CleanupInstall(k) PROVE DetectionReported'
    BY <1>6, MarkedKeepsDetection DEF CleanupInstall
<1>7. CASE Purge
    <2>1. NoNewSuspicion
        BY <1>7 DEF Purge, NoNewSuspicion, Tracked, TypeOK
    <2> QED BY <2>1, NoNewSuspicionSuffices
<1>8. ASSUME NEW p \in Pid, ReleaseProcessTree(p) PROVE DetectionReported'
    BY <1>8, SameMapKeepsDetection DEF ReleaseProcessTree
<1>9. ASSUME NEW p \in Pid, KillProcessTree(p) PROVE DetectionReported'
    BY <1>9, SameMapKeepsDetection DEF KillProcessTree
<1>10. ASSUME NEW p \in Pid, TrustOnce(p) PROVE DetectionReported'
    <2>1. PICK k \in Tracked :
             /\ processMap' = [processMap EXCEPT ![k] = [Reset(@) EXCEPT !.is_untrusted = FALSE]]
             /\ suspended' = suspended \ {k}
        BY <1>10 DEF TrustOnce
    <2>2. k \in ProcessKey /\ ~Suspicious([Reset(processMap[k]) EXCEPT !.is_untrusted = FALSE])
        BY DEF Suspicious, Reset, Tracked, TypeOK, ProcessState
    <2> QED BY <2>1, <2>2, OneEntryKeepsDetection
<1>11. CASE UNCHANGED vars
    BY <1>11, SameMapKeepsDetection DEF vars
<1>12. ASSUME NEW r \in responses, ClosePopup(r) \/ SendStop(r) \/ Announce(r)
       PROVE  DetectionReported'
    BY <1>12, SameMapKeepsDetection DEF ClosePopup, SendStop, Announce
<1>13. ASSUME NEW r \in releases, AnnounceRelease(r) PROVE DetectionReported'
    BY <1>13, SameMapKeepsDetection DEF AnnounceRelease
<1> QED BY <1>1, <1>2, <1>3, <1>4, <1>5, <1>6, <1>7, <1>8, <1>9, <1>10, <1>11, <1>12, <1>13
        DEF Next, Background, Administrator, Continue

(* A live process that has read something sensitive and connected out has  *)
(* been suspended, for every interleaving of its events with scans,        *)
(* prompts, releases, trusts and purges.                                   *)
THEOREM Detection == Spec => []DetectionReported
<1>1. Init => DetectionReported
    BY DEF Init, DetectionReported, Tracked
<1> QED BY <1>1, TypeCorrect, NextDetection, PTL DEF Spec

-----------------------------------------------------------------------------
(* Audit mode.                                                             *)

(* No prompt is ever opened in audit mode, so the prompt task, which       *)
(* signals whatever the mode, has no instance to run.                      *)
AuditInv ==
    AuditMode => /\ \A k \in ProcessKey : sig[k].by # "engine"
                 /\ \A k \in ProcessKey : prompts[k] = 0

LEMMA AdminSignals ==
    ASSUME NEW pids, NEW op, \A k \in ProcessKey : sig[k].by # "engine",
           sig' = Signalled(pids, op, "admin")
    PROVE  \A k \in ProcessKey : sig'[k].by # "engine"
BY DEF Signalled

LEMMA QuietKeepsAudit ==
    ASSUME AuditInv, AuditMode => UNCHANGED <<sig, prompts>> PROVE AuditInv'
BY DEF AuditInv

LEMMA SuspendIsQuiet ==
    ASSUME NEW k, NEW b, BeginSuspension(k, b) PROVE AuditMode => UNCHANGED <<sig, prompts>>
BY DEF BeginSuspension

LEMMA TerminateIsQuiet ==
    ASSUME NEW k, TerminateThreat(k) PROVE AuditMode => UNCHANGED <<sig, prompts>>
BY DEF TerminateThreat, ThreatSignals

LEMMA HandleEventIsQuiet ==
    ASSUME HandleEvent PROVE AuditMode => UNCHANGED <<sig, prompts>>
<1>1. CASE Untracked
    BY <1>1 DEF Untracked
<1>2. CASE ProcessCreate
    BY <1>2, SuspendIsQuiet DEF ProcessCreate
<1>3. CASE ProcessStop
    BY <1>3 DEF ProcessStop
<1>4. CASE FileRead
    BY <1>4, SuspendIsQuiet DEF FileRead
<1>5. CASE NetworkConnect
    BY <1>5, SuspendIsQuiet DEF NetworkConnect
<1>6. CASE FileWrite
    BY <1>6, FileWriteCases, TerminateIsQuiet DEF HangsOn, ThreatSignals
<1>7. CASE FileOpen \/ Dup2 \/ RegistryWrite
    BY <1>7, TerminateIsQuiet DEF FileOpen, Dup2, RegistryWrite, TerminateInstall
<1>8. CASE PtraceAttach \/ MemoryProtect
    BY <1>8, SuspendIsQuiet DEF PtraceAttach, MemoryProtect, SuspendUntrusted
<1> QED BY <1>1, <1>2, <1>3, <1>4, <1>5, <1>6, <1>7, <1>8 DEF HandleEvent

LEMMA NextAudit == ASSUME TypeOK, AuditInv, [Next]_vars PROVE AuditInv'
<1>1. CASE System
    BY <1>1, QuietKeepsAudit DEF System, Fork, Exit, Act
<1>2. CASE HandleEvent
    BY <1>2, HandleEventIsQuiet, QuietKeepsAudit
<1>3. ASSUME NEW k \in ProcessKey, YaraVerdict(k) PROVE AuditInv'
    BY <1>3, SuspendIsQuiet, QuietKeepsAudit DEF YaraVerdict
<1>4. ASSUME NEW k \in ProcessKey, PromptAllow(k) \/ PromptDeny(k) \/ PromptUnanswered(k)
      PROVE  AuditInv'
    <2>1. prompts[k] # 0
        BY <1>4 DEF PromptAllow, PromptDeny, PromptUnanswered
    <2> QED BY <2>1 DEF AuditInv
<1>5. ASSUME NEW k \in ProcessKey, CleanupInstall(k) PROVE AuditInv'
    BY <1>5, QuietKeepsAudit DEF CleanupInstall
<1>6. CASE Purge
    BY <1>6, QuietKeepsAudit DEF Purge
<1>7. ASSUME NEW p \in Pid, ReleaseProcessTree(p) PROVE AuditInv'
    BY <1>7, AdminSignals DEF ReleaseProcessTree, BeginRelease, AuditInv
<1>8. ASSUME NEW p \in Pid, KillProcessTree(p) PROVE AuditInv'
    BY <1>8, AdminSignals DEF KillProcessTree, AuditInv
<1>9. ASSUME NEW p \in Pid, TrustOnce(p) PROVE AuditInv'
    BY <1>9, QuietKeepsAudit DEF TrustOnce
<1>10. CASE UNCHANGED vars
    BY <1>10, QuietKeepsAudit DEF vars
<1>11. ASSUME NEW r \in responses, ClosePopup(r) \/ SendStop(r) \/ Announce(r) PROVE AuditInv'
    BY <1>11, QuietKeepsAudit DEF ClosePopup, SendStop, Announce
<1>12. ASSUME NEW r \in releases, ResetDetection(r) \/ AnnounceRelease(r) PROVE AuditInv'
    BY <1>12, QuietKeepsAudit DEF ResetDetection, AnnounceRelease
<1> QED BY <1>1, <1>2, <1>3, <1>4, <1>5, <1>6, <1>7, <1>8, <1>9, <1>10, <1>11, <1>12
        DEF Next, Background, Administrator, Continue

(* In audit mode no rule, scan, clean-up or prompt of the engine signals a *)
(* process.                                                                *)
THEOREM AuditSignals == Spec => []AuditSendsNoSignal
<1>1. Init => AuditInv
    BY DEF Init, AuditInv
<1>2. AuditInv => AuditSendsNoSignal
    BY DEF AuditInv, AuditSendsNoSignal
<1> QED BY <1>1, <1>2, TypeCorrect, NextAudit, PTL DEF Spec

-----------------------------------------------------------------------------
(* Outside audit mode, only what is gone is marked terminated and evicted. *)
(*                                                                         *)
(* The invariant that carries it is about the order of the queue: lookups  *)
(* go by pid alone, so a stop event must not be handled while a process    *)
(* that has the pid again is tracked.  Every creation of a process whose   *)
(* stop is queued behind it, or has been handled, is over; a process that  *)
(* still runs has no stop behind its creation.                             *)

Past == /\ \A k \in Tracked \cup cleanups : k.start_time <= clock
        /\ \A n \in DOMAIN queue : queue[n].type = "ProcessCreate" => queue[n].timestamp <= clock

StopsAreLate ==
    \A n \in DOMAIN queue : queue[n].type = "ProcessStop" =>
        \A k \in Tracked : k.pid = queue[n].pid => ~Alive(k)

StopsFollowCreations ==
    \A m, n \in DOMAIN queue :
        /\ m < n /\ queue[m].type = "ProcessCreate" /\ queue[n].type = "ProcessStop"
        /\ queue[m].child_pid = queue[n].pid
        => ~Alive(Created(queue[m]))

CleanupsGone == \A k \in cleanups : ~Alive(k)

DeadlineMeansTerminated == \A k \in Tracked : processMap[k].ttl_deadline => processMap[k].terminated

FinishInv ==
    /\ Past /\ StopsAreLate /\ StopsFollowCreations /\ CleanupsGone
    /\ DeadlineMeansTerminated /\ TerminatedMeansGone

(* What every step of the agent but a process creation keeps.              *)
AgentStep ==
    /\ UNCHANGED <<clock, holder>>
    /\ queue' = queue \/ queue' = <<>> \/ (queue # <<>> /\ queue' = Tail(queue))
    /\ Tracked' \subseteq Tracked
    /\ \A k \in Tracked : k \in Tracked' \/ processMap[k].ttl_deadline
    /\ \A k \in Tracked' :
         /\ processMap'[k].terminated => processMap[k].terminated \/ Gone(k)'
         /\ processMap'[k].ttl_deadline => processMap'[k].terminated
    /\ \A k \in cleanups' : k \in cleanups \/ (k.start_time <= clock /\ ~Alive(k))
    /\ \A k \in ProcessKey : sig[k].op = "KILL" => sig'[k].op = "KILL"

LEMMA GoneIsForGood ==
    ASSUME UNCHANGED holder, NEW k \in ProcessKey, sig[k].op = "KILL" => sig'[k].op = "KILL", Gone(k)
    PROVE  Gone(k)'
BY DEF Gone, Alive

LEMMA QueueShrinks ==
    ASSUME TypeOK,
           queue' = queue \/ queue' = <<>> \/ (queue # <<>> /\ queue' = Tail(queue))
    PROVE  \A m, n \in DOMAIN queue' : m < n =>
             \E i, j \in DOMAIN queue : i < j /\ queue'[m] = queue[i] /\ queue'[n] = queue[j]
<1>1. CASE queue' = queue
    BY <1>1
<1>2. CASE queue' = <<>>
    BY <1>2
<1>3. CASE queue # <<>> /\ queue' = Tail(queue)
    <2> SUFFICES ASSUME NEW m \in DOMAIN queue', NEW n \in DOMAIN queue', m < n
                 PROVE  \E i, j \in DOMAIN queue : i < j /\ queue'[m] = queue[i] /\ queue'[n] = queue[j]
        OBVIOUS
    <2>1. /\ m + 1 \in DOMAIN queue /\ queue'[m] = queue[m + 1]
          /\ n + 1 \in DOMAIN queue /\ queue'[n] = queue[n + 1]
          /\ m + 1 < n + 1
        BY <1>3 DEF TypeOK
    <2> QED BY <2>1
<1> QED BY <1>1, <1>2, <1>3

LEMMA QueueShrinksOne ==
    ASSUME TypeOK,
           queue' = queue \/ queue' = <<>> \/ (queue # <<>> /\ queue' = Tail(queue))
    PROVE  \A n \in DOMAIN queue' : \E j \in DOMAIN queue : queue'[n] = queue[j]
<1>1. CASE queue # <<>> /\ queue' = Tail(queue)
    BY <1>1 DEF TypeOK
<1> QED BY <1>1

LEMMA AgentStepFinish == ASSUME TypeOK, FinishInv, AgentStep PROVE FinishInv'
<1>1. Past'
    <2>1. \A k \in Tracked' \cup cleanups' : k.start_time <= clock'
        BY DEF AgentStep, FinishInv, Past
    <2>2. \A n \in DOMAIN queue' : queue'[n].type = "ProcessCreate" => queue'[n].timestamp <= clock'
        BY QueueShrinksOne DEF AgentStep, FinishInv, Past
    <2> QED BY <2>1, <2>2 DEF Past
<1>2. StopsAreLate'
    BY QueueShrinksOne DEF AgentStep, FinishInv, StopsAreLate, Alive
<1>3. StopsFollowCreations'
    BY QueueShrinks DEF AgentStep, FinishInv, StopsFollowCreations, Alive, Created
<1>4. CleanupsGone'
    BY DEF AgentStep, FinishInv, CleanupsGone, Alive
<1>5. DeadlineMeansTerminated'
    BY DEF AgentStep, DeadlineMeansTerminated
<1>6. TerminatedMeansGone'
    BY GoneIsForGood DEF AgentStep, FinishInv, TerminatedMeansGone, Tracked
<1> QED BY <1>1, <1>2, <1>3, <1>4, <1>5, <1>6 DEF FinishInv

(* Signals never revive a killed process.                                  *)
LEMMA KillSticks ==
    ASSUME NEW pids, NEW op, NEW by, sig' = Signalled(pids, op, by) \/ sig' = sig
    PROVE  \A k \in ProcessKey : sig[k].op = "KILL" => sig'[k].op = "KILL"
BY DEF Signalled

LEMMA SuspendKillSticks ==
    ASSUME NEW k, NEW b, BeginSuspension(k, b) \/ UNCHANGED sig
    PROVE  \A x \in ProcessKey : sig[x].op = "KILL" => sig'[x].op = "KILL"
BY KillSticks DEF BeginSuspension

(* A change of the map that keeps every entry and marks only the gone.     *)
MapStep ==
    /\ Tracked' = Tracked
    /\ \A k \in Tracked' :
         /\ processMap'[k].terminated => processMap[k].terminated \/ Gone(k)'
         /\ processMap'[k].ttl_deadline => processMap'[k].terminated

LEMMA SameMapStep ==
    ASSUME FinishInv, UNCHANGED processMap PROVE MapStep
BY DEF MapStep, Tracked, FinishInv, DeadlineMeansTerminated

LEMMA MarkedStep ==
    ASSUME TypeOK, FinishInv, NEW S \in SUBSET Tracked, processMap' = Marked(S),
           \A k \in S : Gone(k)'
    PROVE  MapStep
<1>1. ASSUME NEW k \in S
      PROVE  /\ processMap'[k] # NoEntry
             /\ processMap'[k].terminated /\ processMap'[k].ttl_deadline
    <2>1. k \in ProcessKey /\ processMap[k] \in ProcessState
        BY DEF Tracked, TypeOK
    <2>2. processMap'[k] = [processMap[k] EXCEPT !.terminated = TRUE, !.ttl_deadline = TRUE]
        BY <2>1 DEF Marked
    <2>3. processMap'[k] \in ProcessState
        BY <2>1, <2>2 DEF ProcessState
    <2>4. processMap'[k].terminated /\ processMap'[k].ttl_deadline
        BY <2>1, <2>2 DEF ProcessState
    <2> QED BY <2>3, <2>4, ConfigAssumption
<1>2. \A k \in ProcessKey \ S : processMap'[k] = processMap[k]
    BY DEF Marked
<1>3. Tracked' = Tracked
    BY <1>1, <1>2 DEF Tracked
<1> QED BY <1>1, <1>2, <1>3 DEF MapStep, Tracked, FinishInv, DeadlineMeansTerminated

LEMMA OneEntryStep ==
    ASSUME TypeOK, FinishInv, NEW k \in Tracked, NEW s \in ProcessState,
           s.terminated = processMap[k].terminated, s.ttl_deadline = processMap[k].ttl_deadline,
           processMap' = [processMap EXCEPT ![k] = s]
    PROVE  MapStep
<1>1. k \in ProcessKey /\ s # NoEntry
    BY ConfigAssumption DEF Tracked
<1>2. processMap'[k] = s /\ \A x \in ProcessKey \ {k} : processMap'[x] = processMap[x]
    BY <1>1 DEF TypeOK
<1>3. Tracked' = Tracked
    BY <1>1, <1>2 DEF Tracked
<1> QED BY <1>1, <1>2, <1>3 DEF MapStep, Tracked, FinishInv, DeadlineMeansTerminated

LEMMA ResetKeepsMarks ==
    ASSUME NEW s \in ProcessState
    PROVE  /\ Reset(s) \in ProcessState
           /\ Reset(s).terminated = s.terminated /\ Reset(s).ttl_deadline = s.ttl_deadline
BY DEF Reset, ProcessState

LEMMA MapStepSuffices ==
    ASSUME MapStep, UNCHANGED <<clock, holder>>,
           queue' = queue \/ queue' = <<>> \/ (queue # <<>> /\ queue' = Tail(queue)),
           \A k \in cleanups' : k \in cleanups \/ (k.start_time <= clock /\ ~Alive(k)),
           \A k \in ProcessKey : sig[k].op = "KILL" => sig'[k].op = "KILL"
    PROVE  AgentStep
BY DEF MapStep, AgentStep

(* A threat's processes are killed before they are marked.                 *)
LEMMA TerminateStep ==
    ASSUME TypeOK, FinishInv, AuditMode = FALSE, UNCHANGED holder,
           NEW k \in ProcessKey, TerminateThreat(k)
    PROVE  MapStep /\ \A x \in ProcessKey : sig[x].op = "KILL" => sig'[x].op = "KILL"
<1>1. PICK marks \in OnePerPid(TreePids(k)) : processMap' = Marked(marks)
    BY DEF TerminateThreat
<1>2. sig' = Signalled(TreePids(k), "KILL", "engine")
    BY DEF TerminateThreat, ThreatSignals
<1>3. \A m \in marks : m \in Tracked /\ m.pid \in TreePids(k)
    BY DEF OnePerPid, Live
<1>4. \A m \in marks : Gone(m)'
    BY <1>2, <1>3 DEF Gone, Alive, Signalled, Tracked
<1> QED BY <1>1, <1>2, <1>3, <1>4, MarkedStep, KillSticks

(* Every handler but process_create is such a step.                        *)
LEMMA DequeueShrinks ==
    ASSUME Dequeue, queue # <<>>
    PROVE  queue' = queue \/ queue' = <<>> \/ (queue # <<>> /\ queue' = Tail(queue))
BY DEF Dequeue

LEMMA ProcessStopStep == ASSUME TypeOK, FinishInv, ProcessStop PROVE AgentStep
<1> DEFINE p == Head(queue).pid
<1>1. 1 \in DOMAIN queue /\ queue[1] = Head(queue) /\ Head(queue).type = "ProcessStop"
    BY DEF ProcessStop, Handling, TypeOK
<1>2. \A k \in Live(p) : k \in Tracked /\ k \in ProcessKey /\ k.start_time <= clock /\ ~Alive(k)
    BY <1>1 DEF Live, Tracked, FinishInv, Past, StopsAreLate
<1>3. UNCHANGED <<clock, holder, sig>> /\ queue # <<>> /\ Dequeue
    BY DEF ProcessStop, Handling
<1>4. processMap' = processMap \/ processMap' = Marked(Live(p))
    BY DEF ProcessStop
<1>5. \A k \in Live(p) : Gone(k)'
    BY <1>2, <1>3 DEF Gone, Alive
<1>6. Live(p) \in SUBSET Tracked
    BY DEF Live
<1>7. MapStep
    BY <1>4, <1>5, <1>6, MarkedStep, SameMapStep
<1>8. \A k \in cleanups' : k \in cleanups \/ k \in Live(p)
    BY DEF ProcessStop
<1> QED BY <1>2, <1>3, <1>7, <1>8, DequeueShrinks, MapStepSuffices

LEMMA FileReadStep == ASSUME TypeOK, FinishInv, FileRead PROVE AgentStep
<1> DEFINE e == Head(queue)
           Read(k) == [processMap[k] EXCEPT !.category_flags = @ \cup CategoryOf[e.file],
                                            !.unique_files_read = @ \cup {e.file}]
<1>1. PICK k \in Live(e.pid) :
         /\ \/ UNCHANGED processMap
            \/ processMap' = [processMap EXCEPT ![k] = Read(k)]
         /\ \/ BeginSuspension(k, "handler")
            \/ UNCHANGED responseVars
    BY DEF FileRead
<1>2. k \in Tracked /\ processMap[k] \in ProcessState
    BY LiveFacts DEF TypeOK
<1>3. e.file \in File
    BY EventShape, QueueType DEF FileRead, Handling, TypeOK, FileEvent, FileEventType
<1>4. Read(k) \in ProcessState
    BY <1>2, <1>3, ReadType
<1>5. /\ Read(k).terminated = processMap[k].terminated
      /\ Read(k).ttl_deadline = processMap[k].ttl_deadline
    BY <1>2 DEF ProcessState
<1>6. MapStep
    BY <1>1, <1>2, <1>4, <1>5, OneEntryStep, SameMapStep
<1>7. \A x \in ProcessKey : sig[x].op = "KILL" => sig'[x].op = "KILL"
    BY <1>1, SuspendKillSticks
<1>8. UNCHANGED <<clock, holder, cleanups>> /\ queue # <<>> /\ Dequeue
    BY DEF FileRead, Handling
<1> QED BY <1>6, <1>7, <1>8, DequeueShrinks, MapStepSuffices

LEMMA NetworkConnectStep == ASSUME TypeOK, FinishInv, NetworkConnect PROVE AgentStep
<1>1. PICK k \in Live(Head(queue).pid) :
         /\ processMap' = [processMap EXCEPT ![k].pending_network_connect = TRUE]
         /\ (BeginSuspension(k, "handler") /\ UNCHANGED alerted) \/ UNCHANGED responseVars
    BY DEF NetworkConnect
<1> DEFINE s == [processMap[k] EXCEPT !.pending_network_connect = TRUE]
<1>2. k \in Tracked /\ processMap[k] \in ProcessState
    BY LiveFacts DEF TypeOK
<1>3. /\ s \in ProcessState /\ s.terminated = processMap[k].terminated
      /\ s.ttl_deadline = processMap[k].ttl_deadline
    BY <1>2 DEF ProcessState
<1>4. MapStep
    BY <1>1, <1>2, <1>3, OneEntryStep
<1>5. \A x \in ProcessKey : sig[x].op = "KILL" => sig'[x].op = "KILL"
    BY <1>1, SuspendKillSticks
<1>6. UNCHANGED <<clock, holder, cleanups>> /\ queue # <<>> /\ Dequeue
    BY DEF NetworkConnect, Handling
<1> QED BY <1>4, <1>5, <1>6, DequeueShrinks, MapStepSuffices

LEMMA FileWriteStep ==
    ASSUME TypeOK, FinishInv, AuditMode = FALSE, FileWrite PROVE AgentStep
<1>1. PICK k \in Live(Head(queue).pid) :
         \/ HangsOn(k)
         \/ TerminateThreat(k)
         \/ processMap' = processMap /\ sig' = sig
    BY FileWriteCases
<1>2. k \in ProcessKey
    BY LiveFacts DEF TypeOK
<1>3. UNCHANGED <<clock, holder, cleanups>> /\ queue # <<>> /\ Dequeue
    BY DEF FileWrite, Handling
<1>4. MapStep /\ \A x \in ProcessKey : sig[x].op = "KILL" => sig'[x].op = "KILL"
    <2>1. CASE TerminateThreat(k)
        BY <1>2, <1>3, <2>1, TerminateStep
    <2>2. CASE HangsOn(k)
        <3>1. sig' = Signalled(TreePids(k), "KILL", "engine")
            BY <2>2 DEF HangsOn, ThreatSignals
        <3>2. PICK marks \in OnePerPid(TreePids(k)) :
                \E earlier \in SUBSET marks : processMap' = Marked(earlier) /\ earlier \in SUBSET Tracked
            BY <2>2 DEF HangsOn
        <3>3. \A m \in marks : m \in Tracked /\ m.pid \in TreePids(k)
            BY DEF OnePerPid, Live
        <3>4. \A m \in marks : Gone(m)'
            BY <1>3, <3>1, <3>3 DEF Gone, Alive, Signalled, Tracked
        <3>5. MapStep
            BY <3>2, <3>4, MarkedStep
        <3> QED BY <3>1, <3>5, KillSticks
    <2>3. CASE processMap' = processMap /\ sig' = sig
        BY <2>3, SameMapStep
    <2> QED BY <1>1, <2>1, <2>2, <2>3
<1> QED BY <1>3, <1>4, DequeueShrinks, MapStepSuffices

LEMMA InstallHandlersStep ==
    ASSUME TypeOK, FinishInv, AuditMode = FALSE, FileOpen \/ Dup2 \/ RegistryWrite PROVE AgentStep
<1>1. PICK k \in Live(Head(queue).pid) :
         TerminateThreat(k) \/ UNCHANGED <<processMap, responseVars>>
    BY DEF FileOpen, Dup2, RegistryWrite, TerminateInstall
<1>2. k \in ProcessKey
    BY LiveFacts DEF TypeOK
<1>3. UNCHANGED <<clock, holder, cleanups>> /\ queue # <<>> /\ Dequeue
    BY DEF FileOpen, Dup2, RegistryWrite, Handling
<1>4. MapStep /\ \A x \in ProcessKey : sig[x].op = "KILL" => sig'[x].op = "KILL"
    BY <1>1, <1>2, <1>3, TerminateStep, SameMapStep
<1> QED BY <1>3, <1>4, DequeueShrinks, MapStepSuffices

LEMMA UntrustedHandlersStep ==
    ASSUME TypeOK, FinishInv, PtraceAttach \/ MemoryProtect PROVE AgentStep
<1>1. \A x \in ProcessKey : sig[x].op = "KILL" => sig'[x].op = "KILL"
    BY SuspendKillSticks DEF PtraceAttach, MemoryProtect, SuspendUntrusted
<1>2. UNCHANGED <<clock, holder, cleanups, processMap>> /\ queue # <<>> /\ Dequeue
    BY DEF PtraceAttach, MemoryProtect, Handling
<1> QED BY <1>1, <1>2, SameMapStep, DequeueShrinks, MapStepSuffices

LEMMA UntrackedStep == ASSUME TypeOK, FinishInv, Untracked PROVE AgentStep
BY SameMapStep, MapStepSuffices DEF Untracked

(* So is what runs beside the consumer thread.                             *)
LEMMA YaraVerdictStep ==
    ASSUME FinishInv, NEW k \in ProcessKey, YaraVerdict(k) PROVE AgentStep
<1>1. \A x \in ProcessKey : sig[x].op = "KILL" => sig'[x].op = "KILL"
    BY SuspendKillSticks DEF YaraVerdict
<1> QED BY <1>1, SameMapStep, MapStepSuffices DEF YaraVerdict

LEMMA PromptStep ==
    ASSUME TypeOK, FinishInv, NEW k \in ProcessKey,
           PromptAllow(k) \/ PromptDeny(k) \/ PromptUnanswered(k)
    PROVE  AgentStep
<1>1. \A x \in ProcessKey : sig[x].op = "KILL" => sig'[x].op = "KILL"
    BY KillSticks DEF PromptAllow, BeginRelease, PromptDeny, PromptUnanswered
<1>2. UNCHANGED <<clock, holder, cleanups, queue, processMap>>
    BY DEF PromptAllow, PromptDeny, PromptUnanswered
<1> QED BY <1>1, <1>2, SameMapStep, MapStepSuffices

LEMMA ContinueStep == ASSUME TypeOK, FinishInv, Continue PROVE AgentStep
<1>1. ASSUME NEW r \in responses, ClosePopup(r) \/ SendStop(r) \/ Announce(r) PROVE AgentStep
    <2>1. \A x \in ProcessKey : sig[x].op = "KILL" => sig'[x].op = "KILL"
        BY <1>1, KillSticks DEF ClosePopup, SendStop, Announce
    <2>2. /\ UNCHANGED <<clock, holder, cleanups, processMap>>
          /\ queue' = queue \/ queue' = <<>>
        BY <1>1 DEF ClosePopup, SendStop, Announce
    <2> QED BY <2>1, <2>2, SameMapStep, MapStepSuffices
<1>2. ASSUME NEW r \in releases, ResetDetection(r) \/ AnnounceRelease(r) PROVE AgentStep
    <2>1. UNCHANGED <<clock, holder, cleanups, queue, sig>>
        BY <1>2 DEF ResetDetection, AnnounceRelease
    <2>2. CASE UNCHANGED processMap
        BY <2>1, <2>2, SameMapStep, MapStepSuffices
    <2>3. CASE r.root \in Tracked /\ processMap' = [processMap EXCEPT ![r.root] = Reset(@)]
        <3>1. processMap[r.root] \in ProcessState
            BY <2>3 DEF Tracked, TypeOK
        <3>2. MapStep
            BY <2>3, <3>1, ResetKeepsMarks, OneEntryStep
        <3> QED BY <2>1, <3>2, MapStepSuffices
    <2> QED BY <1>2, <2>2, <2>3 DEF ResetDetection, AnnounceRelease
<1> QED BY <1>1, <1>2 DEF Continue

(* The clean-up kills the orphans it marks; the install itself has ended.  *)
LEMMA CleanupStep ==
    ASSUME TypeOK, FinishInv, AuditMode = FALSE, NEW k \in ProcessKey, CleanupInstall(k)
    PROVE  AgentStep
<1>1. PICK done :
         /\ \E S \in SUBSET (done \cup {k}) : processMap' = Marked(S \cap Tracked)
         /\ sig' = Signalled({m.pid : m \in done}, "KILL", "engine")
    BY DEF CleanupInstall
<1>2. UNCHANGED <<clock, holder, queue>> /\ k \in cleanups /\ cleanups' = cleanups \ {k}
    BY DEF CleanupInstall
<1>3. Gone(k)'
    BY <1>2 DEF FinishInv, CleanupsGone, Gone, Alive
<1>4. \A m \in done \cap Tracked : Gone(m)'
    BY <1>1, <1>2 DEF Gone, Alive, Signalled, Tracked
<1>5. MapStep
    <2>1. PICK S \in SUBSET (done \cup {k}) : processMap' = Marked(S \cap Tracked)
        BY <1>1
    <2>2. \A m \in S \cap Tracked : Gone(m)'
        BY <1>3, <1>4
    <2> QED BY <2>1, <2>2, MarkedStep
<1> QED BY <1>1, <1>2, <1>5, KillSticks, MapStepSuffices

LEMMA PurgeStep == ASSUME TypeOK, FinishInv, Purge PROVE AgentStep
<1>1. \A k \in ProcessKey :
         \/ processMap'[k] = processMap[k]
         \/ processMap'[k] = NoEntry /\ processMap[k].ttl_deadline
    BY DEF Purge, Expirable
<1>2. UNCHANGED <<clock, holder, queue, cleanups, sig>>
    BY DEF Purge
<1> QED BY <1>1, <1>2 DEF AgentStep, Tracked, FinishInv, DeadlineMeansTerminated

LEMMA AdministratorStep ==
    ASSUME TypeOK, FinishInv, NEW p \in Pid,
           ReleaseProcessTree(p) \/ KillProcessTree(p) \/ TrustOnce(p)
    PROVE  AgentStep
<1>1. \A x \in ProcessKey : sig[x].op = "KILL" => sig'[x].op = "KILL"
    BY KillSticks DEF ReleaseProcessTree, BeginRelease, KillProcessTree, TrustOnce
<1>2. UNCHANGED <<clock, holder, cleanups, queue>>
    BY DEF ReleaseProcessTree, KillProcessTree, TrustOnce
<1>3. MapStep
    <2>1. CASE UNCHANGED processMap
        BY <2>1, SameMapStep
    <2>2. ASSUME NEW k \in Tracked,
                 processMap' = [processMap EXCEPT ![k] = [Reset(@) EXCEPT !.is_untrusted = FALSE]]
          PROVE  MapStep
        <3> DEFINE trusted == [Reset(processMap[k]) EXCEPT !.is_untrusted = FALSE]
        <3>1. processMap[k] \in ProcessState
            BY DEF Tracked, TypeOK
        <3>2. /\ trusted \in ProcessState
              /\ trusted.terminated = processMap[k].terminated
              /\ trusted.ttl_deadline = processMap[k].ttl_deadline
            BY <3>1, ResetKeepsMarks DEF ProcessState
        <3> QED BY <2>2, <3>2, OneEntryStep
    <2> QED BY <2>1, <2>2 DEF ReleaseProcessTree, KillProcessTree, TrustOnce
<1> QED BY <1>1, <1>2, <1>3, MapStepSuffices

(* What the operating system does appends at most one event.               *)
LEMMA EmitAppends ==
    ASSUME TypeOK, NEW e \in Event, Emit(e)
    PROVE  /\ \A n \in DOMAIN queue' : (n \in DOMAIN queue /\ queue'[n] = queue[n]) \/ queue'[n] = e
           /\ \A m, n \in DOMAIN queue' : m < n => m \in DOMAIN queue /\ queue'[m] = queue[m]
<1>1. CASE queue' = queue
    BY <1>1
<1>2. CASE queue' = Append(queue, e)
    <2>1. /\ queue \in Seq(Event) /\ DOMAIN queue = 1..Len(queue) /\ Len(queue) \in Nat
          /\ DOMAIN queue' = 1..(Len(queue) + 1)
          /\ queue'[Len(queue) + 1] = e
          /\ \A n \in 1..Len(queue) : queue'[n] = queue[n]
        BY <1>2 DEF TypeOK
    <2>2. \A n \in DOMAIN queue' : n \in DOMAIN queue \/ n = Len(queue) + 1
        BY <2>1
    <2>3. \A m, n \in DOMAIN queue' : m < n => m \in DOMAIN queue
        BY <2>1
    <2> QED BY <2>1, <2>2, <2>3
<1> QED BY <1>1, <1>2 DEF Emit

(* Nothing that has ended comes back.                                      *)
NoRevival == \A k \in ProcessKey : k.start_time <= clock /\ Alive(k)' => Alive(k)

LEMMA OsStep ==
    ASSUME TypeOK, FinishInv, NoRevival, NEW e \in Event, Emit(e), UNCHANGED engineVars,
           clock' \in Time, clock <= clock',
           e.type = "ProcessCreate" => e.timestamp <= clock',
           e.type = "ProcessStop" => \A k \in ProcessKey : k.pid = e.pid => ~Alive(k)'
    PROVE  FinishInv'
<1>1. UNCHANGED <<processMap, cleanups, sig>> /\ Tracked' = Tracked
    BY DEF Tracked
<1>2. Tracked \subseteq ProcessKey /\ cleanups \subseteq ProcessKey /\ clock \in Nat /\ clock' \in Nat
    BY ConfigAssumption DEF Tracked, TypeOK
<1>3. \A k \in ProcessKey : k.start_time \in Nat
    BY ConfigAssumption DEF ProcessKey
<1>4. \A k \in Tracked \cup cleanups : Alive(k)' => Alive(k)
    BY <1>2 DEF FinishInv, Past, NoRevival
<1>5. \A n \in DOMAIN queue' : (n \in DOMAIN queue /\ queue'[n] = queue[n]) \/ queue'[n] = e
    BY EmitAppends
<1>6. Past'
    <2>1. \A k \in Tracked' \cup cleanups' : k.start_time <= clock'
        BY <1>1, <1>2, <1>3 DEF FinishInv, Past
    <2>2. \A n \in DOMAIN queue' : queue'[n].type = "ProcessCreate" => queue'[n].timestamp <= clock'
        <3> SUFFICES ASSUME NEW n \in DOMAIN queue', queue'[n].type = "ProcessCreate",
                            n \in DOMAIN queue, queue'[n] = queue[n]
                     PROVE  queue'[n].timestamp <= clock'
            BY <1>5
        <3>1. queue[n].timestamp \in Nat /\ queue[n].timestamp <= clock
            <4>1. queue[n] \in CreateEvent
                BY EventShape DEF TypeOK
            <4> QED BY <4>1, ConfigAssumption DEF FinishInv, Past, CreateEvent
        <3> QED BY <1>2, <3>1
    <2> QED BY <2>1, <2>2 DEF Past
<1>7. StopsAreLate'
    <2> SUFFICES ASSUME NEW n \in DOMAIN queue', queue'[n].type = "ProcessStop",
                        NEW k \in Tracked, k.pid = queue'[n].pid
                 PROVE  ~Alive(k)'
        BY <1>1 DEF StopsAreLate
    <2>1. CASE queue'[n] = e
        BY <1>2, <2>1
    <2>2. CASE n \in DOMAIN queue /\ queue'[n] = queue[n]
        BY <1>4, <2>2 DEF FinishInv, StopsAreLate
    <2> QED BY <1>5, <2>1, <2>2
<1>8. StopsFollowCreations'
    <2> SUFFICES ASSUME NEW m \in DOMAIN queue', NEW n \in DOMAIN queue', m < n,
                        queue'[m].type = "ProcessCreate", queue'[n].type = "ProcessStop",
                        queue'[m].child_pid = queue'[n].pid
                 PROVE  ~Alive(Created(queue[m]))'
        BY DEF StopsFollowCreations, Created, Alive
    <2>1. m \in DOMAIN queue /\ queue'[m] = queue[m]
        BY EmitAppends
    <2>2. queue[m] \in CreateEvent
        BY <2>1, EventShape DEF TypeOK
    <2>3. /\ Created(queue[m]) \in ProcessKey /\ Created(queue[m]).pid = queue[m].child_pid
          /\ Created(queue[m]).start_time <= clock
        BY <2>1, <2>2 DEF Created, CreateEvent, ProcessKey, FinishInv, Past
    <2>4. CASE queue'[n] = e
        BY <2>1, <2>3, <2>4 DEF Created, Alive
    <2>5. CASE n \in DOMAIN queue /\ queue'[n] = queue[n]
        <3>1. ~Alive(Created(queue[m]))
            BY <2>1, <2>5 DEF FinishInv, StopsFollowCreations
        <3> QED BY <2>1, <2>3, <3>1 DEF NoRevival, Created, Alive
    <2> QED BY <1>5, <2>4, <2>5
<1>9. CleanupsGone'
    BY <1>1, <1>4 DEF FinishInv, CleanupsGone
<1>10. DeadlineMeansTerminated'
    BY <1>1 DEF FinishInv, DeadlineMeansTerminated
<1>11. TerminatedMeansGone'
    BY <1>1, <1>4 DEF FinishInv, TerminatedMeansGone, Gone
<1> QED BY <1>6, <1>7, <1>8, <1>9, <1>10, <1>11 DEF FinishInv

LEMMA ForkFinish ==
    ASSUME TypeOK, FinishInv, NEW p \in Pid, NEW c \in Pid, NEW i \in Image, NEW q \in Pid,
           Fork(p, c, i, q)
    PROVE  FinishInv'
<1> DEFINE e == [type |-> "ProcessCreate", pid |-> q, child_pid |-> c,
                 real_parent_pid |-> p, timestamp |-> clock + 1, image |-> i,
                 actor |-> Current(p)]
<1>1. clock \in Nat /\ clock + 1 \in Time \ {0} /\ Current(p) \in ProcessKey
    BY ConfigAssumption DEF Fork, Current, ProcessKey, TypeOK
<1>2. e \in Event /\ e.type = "ProcessCreate" /\ e.timestamp = clock + 1
    BY <1>1 DEF Event, CreateEvent
<1>3. Emit(e) /\ UNCHANGED engineVars /\ clock' = clock + 1
    BY DEF Fork
<1>4. NoRevival
    <2>1. holder' = [holder EXCEPT ![c] = clock + 1] /\ holder \in [Pid -> Time]
        BY DEF Fork, TypeOK
    <2>2. \A k \in ProcessKey : k.pid \in Pid /\ k.start_time \in Nat
        BY ConfigAssumption DEF ProcessKey
    <2> QED BY <1>1, <2>1, <2>2 DEF NoRevival, Alive
<1> QED BY <1>1, <1>2, <1>3, <1>4, OsStep

LEMMA ExitFinish ==
    ASSUME TypeOK, FinishInv, NEW p \in Pid, Exit(p) PROVE FinishInv'
<1> DEFINE e == [type |-> "ProcessStop", pid |-> p, actor |-> Current(p)]
<1>1. clock \in Nat /\ clock \in Time /\ Current(p) \in ProcessKey
    BY ConfigAssumption DEF Current, ProcessKey, TypeOK
<1>2. e \in Event /\ e.type = "ProcessStop" /\ e.pid = p
    BY <1>1 DEF Event, PlainEvent, PlainEventType
<1>3. Emit(e) /\ UNCHANGED engineVars /\ clock' = clock
    BY DEF Exit
<1>4. holder' = [holder EXCEPT ![p] = 0] /\ holder \in [Pid -> Time]
    BY DEF Exit, TypeOK
<1>5. \A k \in ProcessKey : k.pid \in Pid
    BY DEF ProcessKey
<1>6. NoRevival
    BY <1>4, <1>5 DEF NoRevival, Alive
<1>7. \A k \in ProcessKey : k.pid = p => ~Alive(k)'
    BY <1>4 DEF Alive
<1> QED BY <1>1, <1>2, <1>3, <1>6, <1>7, OsStep

LEMMA ActFinish ==
    ASSUME TypeOK, FinishInv, NEW p \in Pid, Act(p) PROVE FinishInv'
<1>1. clock \in Nat /\ clock \in Time /\ Current(p) \in ProcessKey
    BY ConfigAssumption DEF Current, ProcessKey, TypeOK
<1>2. PICK e \in Event : Emit(e) /\ e.type \notin {"ProcessCreate", "ProcessStop"}
    <2>1. \A t \in FileEventType, f \in File :
            LET e == [type |-> t, pid |-> p, file |-> f, actor |-> Current(p)]
            IN  e \in Event /\ e.type \notin {"ProcessCreate", "ProcessStop"}
        BY <1>1 DEF Event, FileEvent, FileEventType
    <2>2. \A t \in PlainEventType \ {"ProcessStop"} :
            LET e == [type |-> t, pid |-> p, actor |-> Current(p)]
            IN  e \in Event /\ e.type \notin {"ProcessCreate", "ProcessStop"}
        BY <1>1 DEF Event, PlainEvent, PlainEventType
    <2> QED BY <2>1, <2>2 DEF Act
<1>3. UNCHANGED engineVars /\ clock' = clock /\ holder' = holder
    BY DEF Act
<1>4. NoRevival
    BY <1>3 DEF NoRevival, Alive
<1> QED BY <1>1, <1>2, <1>3, <1>4, OsStep

(* A creation handled now has no live successor of its pid tracked before  *)
(* its stop is handled.                                                    *)
LEMMA ProcessCreateFinish == ASSUME TypeOK, FinishInv, ProcessCreate PROVE FinishInv'
<1> DEFINE e == Head(queue)
           k == [pid |-> e.child_pid, start_time |-> e.timestamp]
<1>1. /\ queue # <<>> /\ 1 \in DOMAIN queue /\ queue[1] = e /\ e.type = "ProcessCreate"
      /\ UNCHANGED <<clock, holder, cleanups>> /\ Dequeue
    BY DEF ProcessCreate, Handling, TypeOK
<1>2. e \in CreateEvent
    BY <1>1, EventShape, QueueType DEF TypeOK
<1>3. k \in ProcessKey /\ k = Created(e) /\ k.start_time <= clock
    BY <1>1, <1>2 DEF CreateEvent, ProcessKey, Created, FinishInv, Past
<1>4. PICK untrusted \in Verdict, inherited \in Inherited(ParentOf(e)) :
         processMap' = [processMap EXCEPT ![k] = NewState(e, inherited, untrusted)]
    BY DEF ProcessCreate
<1>5. /\ ~processMap'[k].terminated /\ ~processMap'[k].ttl_deadline
      /\ \A x \in ProcessKey \ {k} : processMap'[x] = processMap[x]
    BY <1>3, <1>4 DEF NewState, TypeOK
<1>6. \A x \in Tracked' : x = k \/ (x \in Tracked /\ processMap'[x] = processMap[x])
    BY <1>5 DEF Tracked
<1>7. \A x \in ProcessKey : sig[x].op = "KILL" => sig'[x].op = "KILL"
    BY SuspendKillSticks DEF ProcessCreate
<1>8. queue' = queue \/ queue' = <<>> \/ (queue # <<>> /\ queue' = Tail(queue))
    BY <1>1, DequeueShrinks
<1>9. Past'
    <2>1. \A n \in DOMAIN queue' : queue'[n].type = "ProcessCreate" => queue'[n].timestamp <= clock'
        BY <1>1, <1>8, QueueShrinksOne DEF FinishInv, Past
    <2>2. \A x \in Tracked' \cup cleanups' : x.start_time <= clock'
        BY <1>1, <1>3, <1>6 DEF FinishInv, Past
    <2> QED BY <2>1, <2>2 DEF Past
<1>10. StopsAreLate'
    <2> SUFFICES ASSUME NEW n \in DOMAIN queue', queue'[n].type = "ProcessStop",
                        NEW x \in Tracked', x.pid = queue'[n].pid
                 PROVE  ~Alive(x)
        BY <1>1 DEF StopsAreLate, Alive
    <2>1. PICK j \in DOMAIN queue : 1 < j /\ queue'[n] = queue[j]
        <3>1. queue' = <<>> \/ queue' = Tail(queue)
            BY <1>1 DEF Dequeue
        <3>2. queue' # <<>>
            OBVIOUS
        <3>3. queue \in Seq(Event)
            BY DEF TypeOK
        <3>4. n + 1 \in DOMAIN queue /\ queue'[n] = queue[n + 1] /\ 1 < n + 1
            BY <1>1, <3>1, <3>2, <3>3
        <3> QED BY <3>4
    <2>2. CASE x = k
        BY <1>1, <1>3, <2>1, <2>2 DEF FinishInv, StopsFollowCreations, Created
    <2>3. CASE x # k
        BY <1>6, <2>1, <2>3 DEF FinishInv, StopsAreLate
    <2> QED BY <2>2, <2>3
<1>11. StopsFollowCreations'
    BY <1>1, <1>8, QueueShrinks DEF FinishInv, StopsFollowCreations, Alive, Created
<1>12. CleanupsGone'
    BY <1>1 DEF FinishInv, CleanupsGone, Alive
<1>13. DeadlineMeansTerminated'
    BY <1>5, <1>6 DEF FinishInv, DeadlineMeansTerminated
<1>14. TerminatedMeansGone'
    BY <1>1, <1>5, <1>6, <1>7, GoneIsForGood DEF FinishInv, TerminatedMeansGone, Tracked
<1> QED BY <1>9, <1>10, <1>11, <1>12, <1>13, <1>14 DEF FinishInv

LEMMA InitFinish == Init => FinishInv
BY DEF Init, FinishInv, Past, StopsAreLate, StopsFollowCreations, CleanupsGone,
       DeadlineMeansTerminated, TerminatedMeansGone, Tracked

LEMMA AgentStepCases ==
    ASSUME TypeOK, FinishInv, AuditMode = FALSE, (HandleEvent /\ ~ProcessCreate) \/ Background \/ Administrator
    PROVE  AgentStep
<1>1. CASE HandleEvent /\ ~ProcessCreate
    BY <1>1, UntrackedStep, ProcessStopStep, FileReadStep, NetworkConnectStep, FileWriteStep,
       InstallHandlersStep, UntrustedHandlersStep DEF HandleEvent
<1>2. CASE Background
    BY <1>2, YaraVerdictStep, PromptStep, CleanupStep, PurgeStep, ContinueStep DEF Background
<1>3. CASE Administrator
    BY <1>3, AdministratorStep DEF Administrator
<1> QED BY <1>1, <1>2, <1>3

LEMMA NextFinish ==
    ASSUME TypeOK, FinishInv, AuditMode = FALSE, [Next]_vars PROVE FinishInv'
<1>1. CASE System
    BY <1>1, ForkFinish, ExitFinish, ActFinish DEF System
<1>2. CASE ProcessCreate
    BY <1>2, ProcessCreateFinish
<1>3. CASE (HandleEvent /\ ~ProcessCreate) \/ Background \/ Administrator
    BY <1>3, AgentStepCases, AgentStepFinish
<1>4. CASE UNCHANGED vars
    BY <1>4 DEF vars, FinishInv, Past, StopsAreLate, StopsFollowCreations, CleanupsGone,
                DeadlineMeansTerminated, TerminatedMeansGone, Tracked, Gone, Alive, Created
<1> QED BY <1>1, <1>2, <1>3, <1>4 DEF Next

(* Outside audit mode an entry is marked terminated only when its process  *)
(* has ended or been killed, even when its pid has been used again by the  *)
(* time its stop event is handled.                                         *)
THEOREM TerminatedIsGone ==
    ASSUME AuditMode = FALSE PROVE Spec => []TerminatedMeansGone
<1>1. FinishInv => TerminatedMeansGone
    BY DEF FinishInv
<1>2. TypeOK /\ FinishInv /\ [Next]_vars => FinishInv'
    BY NextFinish
<1> QED BY <1>1, <1>2, InitFinish, TypeCorrect, PTL DEF Spec

(* Outside audit mode the purge evicts no entry of a running process.      *)
THEOREM EvictionIsSafe ==
    ASSUME AuditMode = FALSE PROVE Spec => EvictsOnlyFinished
<1>1. TypeOK /\ FinishInv /\ [Next]_vars => FinishInv'
    BY NextFinish
<1>2. TypeOK /\ FinishInv /\ [Next]_vars
        => [\A k \in Tracked : processMap'[k] = NoEntry => Gone(k)]_vars
    <2> SUFFICES ASSUME TypeOK, FinishInv, Next, NEW k \in Tracked, processMap'[k] = NoEntry
                 PROVE  Gone(k)
        OBVIOUS
    <2>1. k \in ProcessKey /\ k \notin Tracked'
        BY DEF Tracked
    <2>2. CASE System
        BY <2>1, <2>2 DEF System, Fork, Exit, Act, Tracked
    <2>3. CASE ProcessCreate
        <3>1. Tracked \subseteq Tracked'
            <4> DEFINE e == Head(queue)
                       x == [pid |-> e.child_pid, start_time |-> e.timestamp]
            <4>1. e \in CreateEvent
                BY <2>3, EventShape, QueueType DEF ProcessCreate, Handling, TypeOK
            <4>2. PICK s \in ProcessState : processMap' = [processMap EXCEPT ![x] = s]
                BY <2>3, CreatedEntry
            <4>3. x \in ProcessKey /\ s # NoEntry
                BY <4>1, ConfigAssumption DEF CreateEvent, ProcessKey
            <4> QED BY <4>2, <4>3 DEF Tracked, TypeOK
        <3> QED BY <2>1, <3>1
    <2>4. CASE (HandleEvent /\ ~ProcessCreate) \/ Background \/ Administrator
        BY <2>1, <2>4, AgentStepCases DEF AgentStep, FinishInv, DeadlineMeansTerminated, TerminatedMeansGone
    <2> QED BY <2>2, <2>3, <2>4 DEF Next
<1>3. Spec => [][\A k \in Tracked : processMap'[k] = NoEntry => Gone(k)]_vars
    BY <1>1, <1>2, InitFinish, TypeCorrect, PTL DEF Spec
<1> QED BY <1>3 DEF EvictsOnlyFinished
=============================================================================
