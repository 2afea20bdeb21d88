-------------------------- MODULE TrustStoreProofs --------------------------
(***************************************************************************)
(* What is proved of TrustStore for any set of paths, programs and tasks,  *)
(* and any number of decisions and restarts: its types, that a start       *)
(* trusts exactly what the allow list still vouches for, that both lists   *)
(* implement DecisionList, and that a decision which a start can put in    *)
(* force, once answered with success, is in force after every restart.     *)
(***************************************************************************)
EXTENDS TrustStore, TLAPS

TaskState == {Idle} \cup Request \cup Hashed \cup Writing

Writes(s) == s.pc \in {"create", "write"}

-----------------------------------------------------------------------------
(* Records of tasks.                                                       *)
LEMMA TaskFields ==
  ASSUME TypeOK, NEW t \in Task
  PROVE  /\ task[t] \in TaskState
         /\ task[t].pc \in {"idle", "hash", "read", "done", "create", "write"}
         /\ task[t].pc = "idle" => task[t] = Idle
         /\ task[t].pc = "hash" => task[t] \in Request
         /\ task[t].pc \in {"read", "done"} => task[t] \in Hashed
         /\ Writes(task[t]) => task[t] \in Writing
<1>1. task[t] \in TaskState
  BY DEF TypeOK, TaskState
<1>2. CASE task[t] = Idle
  BY <1>1, <1>2 DEF Idle, Writes
<1>3. CASE task[t] \in Request
  BY <1>1, <1>3 DEF Request, Writes
<1>4. CASE task[t] \in Hashed
  BY <1>1, <1>4 DEF Hashed, Writes
<1>5. CASE task[t] \in Writing
  BY <1>1, <1>5 DEF Writing, Writes
<1> QED BY <1>1, <1>2, <1>3, <1>4, <1>5 DEF TaskState

LEMMA RequestFields == ASSUME NEW s \in Request
                       PROVE  s.pc = "hash" /\ s.kind \in Kind /\ s.path \in Path
  BY DEF Request

LEMMA HashedFields == ASSUME NEW s \in Hashed
                      PROVE  s.pc \in {"read", "done"} /\ s.kind \in Kind /\ s.path \in Path /\ s.hash \in Content
  BY DEF Hashed

LEMMA WritingFields ==
  ASSUME NEW s \in Writing
  PROVE  /\ s.pc \in {"create", "write"} /\ s.kind \in Kind /\ s.path \in Path /\ s.hash \in Content
         /\ s.list \in SUBSET Entry /\ s.uneven \in BOOLEAN
  BY DEF Writing

LEMMA EnteredTypes == ASSUME NEW s, s.path \in Path, s.hash \in Content
                      PROVE  Entered(s) \in Entry /\ Entered(s).path = s.path /\ Entered(s).hash = s.hash
  BY DEF Entered, Entry

LEMMA AtEndTypes == ASSUME NEW s, s.kind \in Kind, s.path \in Path, s.hash \in Content
                    PROVE  AtEnd(s) \in Hashed /\ AtEnd(s).pc = "done" /\ ~Writes(AtEnd(s))
  BY DEF AtEnd, Hashed, Writes

LEMMA IdleTypes == Idle \in TaskState /\ Idle.pc = "idle" /\ ~Writes(Idle)
  BY DEF Idle, TaskState, Writes

(* A task's record changes to another record of a task.                    *)
LEMMA SetTypes ==
  ASSUME TypeOK, NEW t \in Task, NEW s \in TaskState, SetTask(t, s)
  PROVE  /\ task' \in [Task -> TaskState] /\ task'[t] = s
         /\ \A u \in Task \ {t} : task'[u] = task[u]
  BY DEF TypeOK, SetTask, TaskState

(* A task is under way only while the agent is up.                         *)
LEMMA UpWhileServing == ASSUME TypeOK, NEW t \in Task, task[t].pc # "idle"
                        PROVE  agent = "up"
  BY IdleTypes DEF TypeOK

-----------------------------------------------------------------------------
LEMMA InitTypes == Init => TypeOK
<1> SUFFICES ASSUME Init PROVE TypeOK
  OBVIOUS
<1> USE TrustAssumption DEF Init, Nothing
<1>1. /\ platform \in Platforms /\ program \in [Path -> Program]
      /\ file \in [Kind -> SUBSET Entry] /\ agent = "down"
      /\ todo \in SUBSET Entry /\ checked \in SUBSET Path /\ kernel \in SUBSET Inode
      /\ missed \in [Kind -> SUBSET Entry]
      /\ memory \in [Kind -> SUBSET Content] /\ \A k \in Kind : memory[k] = {}
  OBVIOUS
<1>2. task \in [Task -> TaskState] /\ \A t \in Task : task[t] = Idle
  BY IdleTypes
<1>3. /\ damaged \in [Kind -> BOOLEAN] /\ raced \in BOOLEAN
      /\ promised \in SUBSET Decision /\ ever \in [Kind -> SUBSET Entry]
  OBVIOUS
<1>4. edits \in 0..MaxEdits /\ decisions \in 0..MaxDecisions /\ stops \in 0..MaxStops
  OBVIOUS
<1> HIDE DEF Init
<1> QED BY <1>1, <1>2, <1>3, <1>4 DEF TypeOK, TaskState

LEMMA InodeTypes == ASSUME TypeOK, NEW ps \in SUBSET Path PROVE InodesOf(ps) \in SUBSET Inode
  BY DEF TypeOK, InodesOf, Present, Program, NoFile

LEMMA EntryFields == ASSUME NEW e \in Entry PROVE e.path \in Path /\ e.hash \in Content
  BY DEF Entry

(* The start of the agent, and its end.                                    *)
LEMMA AgentTypes ==
  ASSUME TypeOK, Start \/ (\E e \in Entry : CheckEntry(e)) \/ TrustEntry \/ Loaded \/ Enable \/ Stop
  PROVE  TypeOK'
<1> USE TrustAssumption
<1>1. CASE Start
  <2>0. missed' \in [Kind -> SUBSET Entry]
    BY <1>1 DEF TypeOK, Start
  <2>1. /\ todo' \in SUBSET Entry /\ kernel' \in SUBSET Inode /\ agent' \in {"loading", "loaded"}
    BY <1>1, InodeTypes DEF TypeOK, Start, Kind
  <2>2. memory' \in [Kind -> SUBSET Content] /\ (platform = "unix" => memory' = memory)
    BY <1>1, <2>0, EntryFields DEF TypeOK, Start
  <2>3. \A t \in Task : task[t] = Idle
    BY <1>1 DEF TypeOK, Start
  <2> QED BY <1>1, <2>0, <2>1, <2>2, <2>3 DEF TypeOK, Start
<1>2. ASSUME NEW e \in Entry, CheckEntry(e) PROVE TypeOK'
  <2>1. /\ todo' \in SUBSET Entry /\ checked' \in SUBSET Path
        /\ missed' \in [Kind -> SUBSET Entry]
    BY <1>2, EntryFields DEF TypeOK, CheckEntry
  <2> QED BY <1>2, <2>1 DEF TypeOK, CheckEntry, historyVars
<1>3. CASE TrustEntry
  <2>1. kernel' \in SUBSET Inode
    BY <1>3, InodeTypes DEF TypeOK, TrustEntry
  <2> QED BY <1>3, <2>1 DEF TypeOK, TrustEntry, historyVars
<1>4. CASE Loaded
  BY <1>4 DEF TypeOK, Loaded, historyVars
<1>5. CASE Enable
  BY <1>5 DEF TypeOK, Enable, Nothing, historyVars
<1>6. CASE Stop
  <2>1. /\ task' \in [Task -> TaskState] /\ \A t \in Task : task'[t] = Idle
        /\ agent' = "down" /\ todo' = {} /\ checked' = {} /\ kernel' = {}
        /\ missed' \in [Kind -> SUBSET Entry]
    BY <1>6, IdleTypes DEF Stop, Nothing
  <2>2. damaged' \in [Kind -> BOOLEAN]
    BY <1>6, Zenon DEF TypeOK, Stop
  <2>3. stops' \in 0..MaxStops
    BY <1>6 DEF TypeOK, Stop
  <2>4. memory' \in [Kind -> SUBSET Content] /\ \A k \in Kind : memory'[k] = {}
    BY <1>6 DEF Stop
  <2> QED BY <1>6, <2>1, <2>2, <2>3, <2>4 DEF TypeOK, Stop, TaskState
<1> QED BY <1>1, <1>2, <1>3, <1>4, <1>5, <1>6

LEMMA EditTypes == ASSUME TypeOK, NEW p \in Path, NEW f \in Program, Edit(p, f) PROVE TypeOK'
<1>1. program' \in [Path -> Program] /\ edits' \in 0..MaxEdits
  BY TrustAssumption DEF TypeOK, Edit
<1>2. raced' \in BOOLEAN
  BY Zenon DEF TypeOK, Edit
<1> QED BY <1>1, <1>2 DEF TypeOK, Edit, loadVars

-----------------------------------------------------------------------------
(* The records a task passes through.                                      *)
LEMMA WritingRecord ==
  ASSUME NEW s \in Hashed, NEW l \in SUBSET Entry
  PROVE  LET w == [pc |-> "create", kind |-> s.kind, path |-> s.path, hash |-> s.hash,
                   list |-> l, uneven |-> FALSE]
         IN  /\ w \in Writing /\ w.pc = "create" /\ w.kind = s.kind /\ w.list = l /\ w.uneven = FALSE
             /\ Entered(w) = Entered(s)
  BY DEF Hashed, Writing, Entered

LEMMA TruncatedRecord ==
  ASSUME NEW s \in Writing
  PROVE  LET w == [s EXCEPT !.pc = "write"]
         IN  /\ w \in Writing /\ w.pc = "write" /\ w.kind = s.kind /\ w.list = s.list
             /\ w.uneven = s.uneven /\ Entered(w) = Entered(s)
  BY DEF Writing, Entered

LEMMA UnevenRecord ==
  ASSUME NEW s \in Writing
  PROVE  LET w == [s EXCEPT !.uneven = TRUE]
         IN  /\ w \in Writing /\ w.pc = s.pc /\ w.kind = s.kind /\ w.list = s.list
             /\ w.uneven = TRUE /\ Entered(w) = Entered(s)
  BY DEF Writing, Entered

(* What a write leaves of the tasks.                                       *)
LEMMA UnevenTypes ==
  ASSUME TypeOK, NEW t \in Task, task[t].pc = "write", task' = MarkUneven(t)
  PROVE  /\ task' \in [Task -> TaskState]
         /\ task'[t] = AtEnd(task[t]) /\ ~Writes(task'[t])
         /\ \A u \in Task \ {t} :
               /\ task'[u].pc = task[u].pc /\ (Writes(task[u]) => task'[u] \in Writing)
               /\ ~Writes(task[u]) => task'[u] = task[u]
               /\ Writes(task[u]) => /\ task'[u].kind = task[u].kind /\ task'[u].list = task[u].list
                                     /\ Entered(task'[u]) = Entered(task[u])
               /\ task[u].kind # task[t].kind => task'[u] = task[u]
<1>1. task[t] \in Writing /\ AtEnd(task[t]) \in Hashed /\ ~Writes(AtEnd(task[t]))
  BY TaskFields, WritingFields, AtEndTypes DEF Writes
<1>2. task'[t] = AtEnd(task[t])
  BY DEF MarkUneven
<1>3. ASSUME NEW u \in Task \ {t}
      PROVE  /\ task'[u] \in TaskState
             /\ task'[u].pc = task[u].pc /\ (Writes(task[u]) => task'[u] \in Writing)
             /\ ~Writes(task[u]) => task'[u] = task[u]
             /\ Writes(task[u]) => /\ task'[u].kind = task[u].kind /\ task'[u].list = task[u].list
                                   /\ Entered(task'[u]) = Entered(task[u])
             /\ task[u].kind # task[t].kind => task'[u] = task[u]
  <2>1. CASE task[u].pc = "write" /\ task[u].kind = task[t].kind
    <3>1. task[u] \in Writing /\ Writes(task[u])
      BY <2>1, TaskFields DEF Writes
    <3>2. task'[u] = [task[u] EXCEPT !.uneven = TRUE]
      BY <2>1, <1>3 DEF MarkUneven
    <3> QED BY <2>1, <3>1, <3>2, UnevenRecord DEF TaskState
  <2>2. CASE ~ (task[u].pc = "write" /\ task[u].kind = task[t].kind)
    <3>1. task'[u] = task[u]
      BY <2>2, <1>3 DEF MarkUneven
    <3> QED BY <3>1, TaskFields
  <2> QED BY <2>1, <2>2
<1>4. task' = [u \in Task |-> task'[u]]
  BY DEF MarkUneven
<1>5. \A u \in Task : task'[u] \in TaskState
  BY <1>1, <1>2, <1>3 DEF TaskState
<1>6. task' \in [Task -> TaskState]
  BY <1>4, <1>5
<1> QED BY <1>1, <1>2, <1>3, <1>6

-----------------------------------------------------------------------------
(* The service of a request.                                               *)

(* What every step of it leaves alone.                                     *)
LEMMA ServeFrame ==
  ASSUME TypeOK, NEW t \in Task, Serve(t)
  PROVE  /\ agent = "up" /\ UNCHANGED <<platform, program, loadVars, raced, edits, stops>>
<1>1. ASSUME NEW k \in Kind, NEW p \in Path, Decide(t, k, p)
      PROVE  agent = "up" /\ UNCHANGED <<platform, program, loadVars, raced, edits, stops>>
  BY <1>1 DEF Decide, historyVars
<1>2. CASE Hash(t) \/ ReadList(t) \/ Truncate(t) \/ Write(t) \/ WriteFails(t) \/ Answer(t)
  <2>1. task[t].pc # "idle"
    BY <1>2 DEF Hash, ReadList, Truncate, Write, WriteFails, Answer
  <2>2. UNCHANGED <<platform, program, loadVars, raced, edits, stops>>
    BY <1>2 DEF Hash, ReadList, Truncate, Write, WriteFails, Answer, historyVars
  <2> QED BY <2>1, <2>2, UpWhileServing
<1> QED BY <1>1, <1>2 DEF Serve

LEMMA ServeTypes == ASSUME TypeOK, NEW t \in Task, Serve(t) PROVE TypeOK'
<1>0. agent = "up" /\ UNCHANGED <<platform, program, loadVars, raced, edits, stops>>
  BY ServeFrame
<1>1. ASSUME NEW k \in Kind, NEW p \in Path, Decide(t, k, p) PROVE TypeOK'
  <2> DEFINE s == [pc |-> "hash", kind |-> k, path |-> p]
  <2>1. s \in TaskState
    BY DEF Request, TaskState
  <2>2. SetTask(t, s) /\ UNCHANGED <<file, memory, damaged, promised, ever>>
    BY <1>1 DEF Decide, historyVars
  <2> HIDE DEF s
  <2>3. task' \in [Task -> TaskState]
    BY <2>1, <2>2, SetTypes
  <2>4. kernel' \in SUBSET Inode
    BY <1>1, InodeTypes DEF Decide, TypeOK
  <2>5. decisions' \in 0..MaxDecisions
    BY <1>1, TrustAssumption DEF Decide, TypeOK
  <2> QED BY <1>0, <2>2, <2>3, <2>4, <2>5 DEF TypeOK, loadVars, TaskState
<1>2. CASE Hash(t)
  <2>1. task[t] \in Request /\ task[t].kind \in Kind /\ task[t].path \in Path
    BY <1>2, TaskFields, RequestFields DEF Hash
  <2>2. Present(task[t].path) => program[task[t].path].content \in Content
    BY <2>1 DEF TypeOK, Present, Program
  <2> DEFINE s == [pc |-> "read", kind |-> task[t].kind, path |-> task[t].path,
                   hash |-> program[task[t].path].content]
  <2>3. Present(task[t].path) => s \in TaskState
    BY <2>1, <2>2 DEF Hashed, TaskState
  <2>4. (SetTask(t, s) /\ Present(task[t].path)) \/ SetTask(t, Idle)
    BY <1>2 DEF Hash
  <2> HIDE DEF s
  <2>5. task' \in [Task -> TaskState]
    BY <2>3, <2>4, SetTypes, IdleTypes
  <2> QED BY <1>0, <1>2, <2>5 DEF TypeOK, Hash, loadVars, historyVars, TaskState
<1>3. CASE ReadList(t)
  <2>1. task[t] \in Hashed /\ task[t].kind \in Kind /\ task[t].path \in Path /\ task[t].hash \in Content
    BY <1>3, TaskFields, HashedFields DEF ReadList
  <2>2. AtEnd(task[t]) \in TaskState /\ Entered(task[t]) \in Entry /\ file[task[t].kind] \in SUBSET Entry
    BY <2>1, AtEndTypes, EnteredTypes DEF TypeOK, TaskState
  <2>3. PICK l \in {file[task[t].kind], {}} :
           \/ SetTask(t, AtEnd(task[t])) /\ UNCHANGED <<damaged, ever>>
           \/ Enter(t, l)
    BY <1>3 DEF ReadList
  <2> DEFINE s == [pc |-> "create", kind |-> task[t].kind, path |-> task[t].path, hash |-> task[t].hash,
                   list |-> l, uneven |-> FALSE]
  <2>8. s \in TaskState
    BY <2>1, <2>2, WritingRecord DEF TaskState
  <2>4. \/ SetTask(t, AtEnd(task[t])) /\ UNCHANGED <<damaged, ever>>
        \/ /\ SetTask(t, s)
           /\ damaged' = [damaged EXCEPT ![task[t].kind] = @ \/ Misses(t, task[t].kind, l)]
           /\ ever' = [ever EXCEPT ![task[t].kind] = @ \cup {Entered(task[t])}]
    BY <2>3 DEF Enter
  <2> HIDE DEF s
  <2>5. task' \in [Task -> TaskState]
    BY <2>2, <2>4, <2>8, SetTypes
  <2>6. damaged' \in [Kind -> BOOLEAN]
    <3>1. \A b \in BOOLEAN : (b \/ Misses(t, task[t].kind, l)) \in BOOLEAN
      BY Zenon DEF Misses
    <3> QED BY <2>4, <3>1, Zenon DEF TypeOK
  <2>7. ever' \in [Kind -> SUBSET Entry]
    BY <2>2, <2>4 DEF TypeOK
  <2> QED BY <1>0, <1>3, <2>5, <2>6, <2>7 DEF TypeOK, ReadList, loadVars, TaskState
<1>4. CASE Truncate(t)
  <2>1. task[t] \in Writing /\ task[t].kind \in Kind
    BY <1>4, TaskFields, WritingFields DEF Truncate, Writes
  <2>2. [task[t] EXCEPT !.pc = "write"] \in TaskState
    BY <2>1, TruncatedRecord DEF TaskState
  <2>3. task' \in [Task -> TaskState]
    BY <1>4, <2>2, SetTypes DEF Truncate
  <2>4. file' \in [Kind -> SUBSET Entry]
    BY <1>4 DEF TypeOK, Truncate
  <2> QED BY <1>0, <1>4, <2>3, <2>4 DEF TypeOK, Truncate, loadVars, historyVars, TaskState
<1>5. CASE Write(t)
  <2>1. task[t] \in Writing /\ task[t].kind \in Kind /\ task[t].list \in SUBSET Entry
        /\ Entered(task[t]) \in Entry
    BY <1>5, TaskFields, WritingFields, EnteredTypes DEF Write, Writes
  <2>2. task' \in [Task -> TaskState]
    BY <1>5, UnevenTypes DEF Write
  <2>3. file' \in [Kind -> SUBSET Entry]
    BY <1>5, <2>1 DEF TypeOK, Write, Written
  <2> QED BY <1>0, <1>5, <2>2, <2>3 DEF TypeOK, Write, loadVars, historyVars, TaskState
<1>6. CASE WriteFails(t)
  <2>1. task[t] \in Writing /\ AtEnd(task[t]) \in TaskState
    BY <1>6, TaskFields, WritingFields, AtEndTypes DEF WriteFails, Writes, TaskState
  <2>2. task' \in [Task -> TaskState]
    BY <1>6, <2>1, SetTypes DEF WriteFails
  <2>3. damaged' \in [Kind -> BOOLEAN]
    BY <1>6 DEF TypeOK, WriteFails
  <2> QED BY <1>0, <1>6, <2>2, <2>3 DEF TypeOK, WriteFails, loadVars, TaskState
<1>7. CASE Answer(t)
  <2>1. task[t] \in Hashed /\ task[t].kind \in Kind /\ task[t].path \in Path /\ task[t].hash \in Content
    BY <1>7, TaskFields, HashedFields DEF Answer
  <2>2. task' \in [Task -> TaskState]
    BY <1>7, IdleTypes, SetTypes DEF Answer
  <2>3. /\ memory' \in [Kind -> SUBSET Content]
        /\ platform = "unix" => memory' = memory
    BY <1>7, <2>1 DEF TypeOK, Answer
  <2>4. promised' \in SUBSET Decision
    BY <1>7, <2>1 DEF TypeOK, Answer, Decision
  <2> QED BY <1>0, <1>7, <2>2, <2>3, <2>4 DEF TypeOK, Answer, loadVars, TaskState
<1> QED BY <1>1, <1>2, <1>3, <1>4, <1>5, <1>6, <1>7 DEF Serve

LEMMA StepTypes == TypeOK /\ [Next]_vars => TypeOK'
<1>1. CASE UNCHANGED vars
  BY <1>1 DEF TypeOK, vars, loadVars, historyVars
<1> QED BY <1>1, AgentTypes, EditTypes, ServeTypes DEF Next

(* The types of the lists, the kernel's map and the requests under way; in *)
(* particular no request is served before blocking is enabled (lib.rs      *)
(* 61-80, trust_cache.rs, control.rs 311-370).                             *)
THEOREM TrustTypes == Spec => []TypeOK
<1> QED BY InitTypes, StepTypes, PTL DEF Spec

-----------------------------------------------------------------------------
(* The start.  While the allow list is gone through, the inodes trusted so *)
(* far and the one about to be are those of the system's programs and of   *)
(* the entries read and looked at that hold.                               *)
Vouched(entries) == {e.path : e \in {d \in entries : Holds(d.path, d.hash)}}

Read == file["allow"] \ missed["allow"]

Loading ==
    /\ agent # "loading" => todo = {} /\ checked = {}
    /\ agent \in {"loading", "loaded"} /\ platform = "unix" /\ ~raced =>
           /\ todo \subseteq Read
           /\ kernel \cup InodesOf(checked)
                = InodesOf(Owned) \cup InodesOf(Vouched(Read \ todo))

LoadInv == TypeOK /\ Loading

LEMMA InodesOfUnion == ASSUME NEW p, NEW q PROVE InodesOf(p \cup q) = InodesOf(p) \cup InodesOf(q)
  BY DEF InodesOf

LEMMA InodesOfNone == InodesOf({}) = {}
  BY DEF InodesOf

LEMMA VouchedOne == ASSUME NEW s, NEW e \in s, NEW r, e \in r
                    PROVE  Vouched(s \ (r \ {e}))
                             = Vouched(s \ r) \cup (IF Holds(e.path, e.hash) THEN {e.path} ELSE {})
  BY DEF Vouched

LEMMA StepLoading == ASSUME LoadInv, [Next]_vars PROVE Loading'
<1> USE DEF LoadInv
<1>1. ASSUME NEW p \in Path, NEW f \in Program, Edit(p, f) PROVE Loading'
  <2>1. agent' \in {"loading", "loaded"} => raced'
    BY <1>1 DEF Edit, loadVars
  <2> QED BY <1>1, <2>1 DEF Edit, loadVars, Loading
<1>2. CASE Start
  <2>1. todo = {} /\ checked = {}
    BY <1>2 DEF Start, Loading
  <2>2. CASE platform = "unix"
    <3>1. /\ agent' = "loading" /\ todo' = Read' /\ kernel' = InodesOf(Owned)
          /\ checked' = {} /\ file' = file /\ program' = program
      BY <1>2, <2>1, <2>2 DEF Start, Read
    <3>2. InodesOf(Owned)' = InodesOf(Owned) /\ InodesOf(checked)' = {}
      BY <3>1 DEF InodesOf, Present
    <3>3. Vouched(Read \ todo)' = {}
      BY <3>1 DEF Vouched
    <3>4. InodesOf(Vouched(Read \ todo))' = {}
      BY <3>3 DEF InodesOf
    <3> QED BY <3>1, <3>2, <3>4 DEF Loading
  <2>3. CASE platform # "unix"
    BY <1>2, <2>1, <2>3 DEF Start, Loading
  <2> QED BY <2>2, <2>3
<1>3. ASSUME NEW e \in Entry, CheckEntry(e) PROVE Loading'
  <2>1. /\ agent = "loading" /\ checked = {} /\ e \in todo /\ todo' = todo \ {e}
        /\ UNCHANGED <<platform, program, file, agent, kernel, raced>>
    BY <1>3 DEF CheckEntry, historyVars
  <2>2. PICK r : r = Read'
    OBVIOUS
  <2>3. \/ r = Read /\ checked' = IF Holds(e.path, e.hash) THEN {e.path} ELSE {}
        \/ r = Read \ {e} /\ checked' = {}
    <3>1. CASE checked' = (IF Holds(e.path, e.hash) THEN {e.path} ELSE {}) /\ UNCHANGED missed
      BY <2>1, <2>2, <3>1 DEF Read
    <3>2. CASE checked' = {} /\ missed' = [missed EXCEPT !["allow"] = @ \cup {e}]
      BY <2>1, <2>2, <3>2 DEF Read, TypeOK, Kind
    <3> QED BY <1>3, <3>1, <3>2 DEF CheckEntry
  <2>4. SUFFICES ASSUME platform = "unix", ~raced
                 PROVE  /\ todo' \subseteq r
                        /\ kernel \cup InodesOf(checked')
                             = InodesOf(Owned) \cup InodesOf(Vouched(r \ todo'))
    BY <2>1, <2>2 DEF Loading, InodesOf, Vouched, Present, Holds
  <2>5. /\ todo \subseteq Read
        /\ kernel = InodesOf(Owned) \cup InodesOf(Vouched(Read \ todo))
    BY <2>1, <2>4, InodesOfNone DEF Loading
  <2>6. Vouched(r \ todo') = Vouched(Read \ todo) \cup checked'
    <3>1. CASE r = Read /\ checked' = IF Holds(e.path, e.hash) THEN {e.path} ELSE {}
      BY <2>1, <2>5, <3>1, VouchedOne
    <3>2. CASE r = Read \ {e} /\ checked' = {}
      <4>1. r \ todo' = Read \ todo
        BY <2>1, <3>2
      <4> QED BY <3>2, <4>1
    <3> QED BY <2>3, <3>1, <3>2
  <2>7. InodesOf(Vouched(r \ todo')) = InodesOf(Vouched(Read \ todo)) \cup InodesOf(checked')
    BY <2>6, InodesOfUnion
  <2>8. todo' \subseteq r
    BY <2>1, <2>3, <2>5
  <2> QED BY <2>5, <2>7, <2>8
<1>4. CASE TrustEntry
  <2>1. /\ agent = "loading" /\ checked' = {} /\ kernel' = kernel \cup InodesOf(checked)
        /\ UNCHANGED <<platform, program, file, agent, todo, missed, raced>>
    BY <1>4 DEF TrustEntry, historyVars
  <2>2. InodesOf(Owned)' = InodesOf(Owned) /\ InodesOf(checked)' = {} /\ Read' = Read
        /\ InodesOf(Vouched(Read \ todo))' = InodesOf(Vouched(Read \ todo))
    BY <2>1 DEF InodesOf, Vouched, Present, Holds, Read
  <2> QED BY <2>1, <2>2 DEF Loading
<1>5. CASE Loaded
  <2>1. UNCHANGED <<platform, program, file, todo, checked, missed, kernel, raced>>
    BY <1>5 DEF Loaded, historyVars
  <2>2. /\ todo = {} /\ checked = {} /\ agent' # "loading"
        /\ agent' = "loaded" => agent = "loading"
    BY <1>5 DEF Loaded, Loading
  <2>3. InodesOf(Owned)' = InodesOf(Owned) /\ InodesOf(checked)' = InodesOf(checked) /\ Read' = Read
        /\ InodesOf(Vouched(Read \ todo))' = InodesOf(Vouched(Read \ todo))
    BY <2>1 DEF InodesOf, Vouched, Present, Holds, Read
  <2> QED BY <2>1, <2>2, <2>3 DEF Loading
<1>6. CASE Enable \/ Stop
  BY <1>6 DEF Enable, Stop, Loading
<1>7. ASSUME NEW t \in Task, Serve(t) PROVE Loading'
  BY <1>7, ServeFrame DEF loadVars, Loading
<1>8. CASE UNCHANGED vars
  <2>1. UNCHANGED <<platform, program, file, agent, todo, checked, missed, kernel, raced>>
    BY <1>8 DEF vars, loadVars, historyVars
  <2>2. InodesOf(Owned)' = InodesOf(Owned) /\ InodesOf(checked)' = InodesOf(checked) /\ Read' = Read
        /\ InodesOf(Vouched(Read \ todo))' = InodesOf(Vouched(Read \ todo))
    BY <2>1 DEF InodesOf, Vouched, Present, Holds, Read
  <2> QED BY <2>1, <2>2 DEF Loading
<1> QED BY <1>1, <1>2, <1>3, <1>4, <1>5, <1>6, <1>7, <1>8 DEF Next

LEMMA LoadedTrust == ASSUME Loading, agent = "loaded", platform = "unix", ~raced
                     PROVE  kernel = InodesOf(Owned) \cup InodesOf(Vouched(Read))
<1>1. todo = {} /\ checked = {}
  BY DEF Loading
<1>2. Read \ todo = Read /\ kernel \cup InodesOf(checked) = kernel
  BY <1>1, InodesOfNone
<1> QED BY <1>2 DEF Loading

(* After a start during which no program changed the kernel trusts the     *)
(* system's programs and exactly those of the allow list that still are    *)
(* what was accepted, however the list came about, as far as it could be   *)
(* read and they could be hashed (trust_cache.rs 190-217).                 *)
THEOREM StartVerifies == Spec => []TrustIsVerified
<1>1. Init => Loading
  BY DEF Init, Loading
<1>2. LoadInv /\ [Next]_vars => LoadInv'
  BY StepTypes, StepLoading DEF LoadInv
<1>3. LoadInv => TrustIsVerified
  BY LoadedTrust DEF LoadInv, TrustIsVerified, Vouched, Read
<1> QED BY InitTypes, <1>1, <1>2, <1>3, PTL DEF Spec, LoadInv

-----------------------------------------------------------------------------
(* The lists.  What is in a file, and what a task is about to write there, *)
(* was decided and holds one decision for a path; while nothing has        *)
(* damaged a list, at most one task writes it.                             *)
OnePer(s) == \A d, e \in s : d.path = e.path => d = e

Sound(l, ev) == l \subseteq ev /\ OnePer(l)

Writer(s, k) == Writes(s) /\ s.kind = k

WriterOK(s, ev) ==
    /\ Sound(s.list, ev) /\ Entered(s) \in ev
    /\ \A d \in s.list : d.path # Entered(s).path

Calm(k) ==
    \A t \in Task : Writer(task[t], k) =>
        /\ \A u \in Task : Writer(task[u], k) => u = t
        /\ file[k] = IF task[t].pc = "create" THEN task[t].list ELSE {}
        /\ task[t].uneven = FALSE

ListsOK ==
    \A k \in Kind :
        /\ Sound(file[k], ever[k])
        /\ \A t \in Task : Writer(task[t], k) => WriterOK(task[t], ever[k])
        /\ damaged[k] = FALSE => Calm(k)

ListInv == TypeOK /\ ListsOK

LEMMA SoundGrows == ASSUME NEW l, NEW ev, NEW more, Sound(l, ev), ev \subseteq more
                    PROVE  Sound(l, more)
  BY DEF Sound

LEMMA WriterGrows == ASSUME NEW s, NEW ev, NEW more, WriterOK(s, ev), ev \subseteq more
                     PROVE  WriterOK(s, more)
  BY SoundGrows DEF WriterOK

LEMMA WrittenSound == ASSUME NEW s, NEW ev, WriterOK(s, ev)
                      PROVE  Sound(s.list \cup {Entered(s)}, ev)
  BY DEF WriterOK, Sound, OnePer

LEMMA NoneSound == ASSUME NEW ev PROVE Sound({}, ev)
  BY DEF Sound, OnePer

LEMMA WriterTask == ASSUME TypeOK, NEW t \in Task, NEW k, Writer(task[t], k)
                    PROVE  task[t] \in Writing /\ k \in Kind /\ task[t].kind = k
                           /\ Entered(task[t]) \in Entry
  BY TaskFields, WritingFields, EnteredTypes DEF Writer

(* Nobody starts or ends to write, and no list changes.                    *)
Aside(t) ==
    /\ UNCHANGED <<file, ever, damaged>>
    /\ ~Writes(task[t]) /\ ~Writes(task'[t])
    /\ \A u \in Task \ {t} : task'[u] = task[u]

LEMMA QuietLists == ASSUME ListsOK, NEW t \in Task, Aside(t) PROVE ListsOK'
<1> USE DEF Aside
<1>1. \A u \in Task, k \in Kind : Writer(task'[u], k) => task'[u] = task[u]
  BY DEF Writer
<1>2. \A u \in Task, k \in Kind : Writer(task'[u], k) <=> Writer(task[u], k)
  BY DEF Writer
<1>3. \A k \in Kind : Calm(k) => Calm(k)'
  BY <1>1, <1>2 DEF Calm
<1> QED BY <1>1, <1>2, <1>3 DEF ListsOK

LEMMA DecideLists == ASSUME ListInv, NEW t \in Task, NEW k \in Kind, NEW p \in Path, Decide(t, k, p)
                     PROVE  Aside(t)
<1> DEFINE s == [pc |-> "hash", kind |-> k, path |-> p]
<1>1. s \in TaskState /\ ~Writes(s)
  BY DEF Request, TaskState, Writes
<1>2. SetTask(t, s) /\ UNCHANGED <<file, ever, damaged>> /\ task[t] = Idle
  BY DEF Decide, historyVars
<1> HIDE DEF s
<1> QED BY <1>1, <1>2, SetTypes, IdleTypes DEF ListInv, Aside

LEMMA HashLists == ASSUME ListInv, NEW t \in Task, Hash(t)
                   PROVE  Aside(t)
<1> DEFINE s == [pc |-> "read", kind |-> task[t].kind, path |-> task[t].path,
                 hash |-> program[task[t].path].content]
<1>1. ~Writes(s) /\ ~Writes(task[t])
  BY DEF Writes, Hash
<1>2. SetTask(t, s) \/ SetTask(t, Idle)
  BY DEF Hash
<1>3. UNCHANGED <<file, ever, damaged>>
  BY DEF Hash, historyVars
<1> HIDE DEF s
<1>4. ~Writes(task'[t]) /\ \A u \in Task \ {t} : task'[u] = task[u]
  BY <1>1, <1>2, IdleTypes DEF SetTask, ListInv, TypeOK
<1> QED BY <1>1, <1>3, <1>4 DEF Aside

LEMMA AnswerLists == ASSUME ListInv, NEW t \in Task, Answer(t)
                     PROVE  Aside(t)
<1>1. ~Writes(task[t]) /\ SetTask(t, Idle) /\ UNCHANGED <<file, ever, damaged>>
  BY DEF Answer, Writes
<1>2. Idle \in TaskState /\ ~Writes(Idle)
  BY IdleTypes
<1>3. ~Writes(task'[t]) /\ \A u \in Task \ {t} : task'[u] = task[u]
  BY <1>1, <1>2, SetTypes DEF ListInv
<1> QED BY <1>1, <1>3 DEF Aside

(* The list is read, or the read fails: then the path is in what was read, *)
(* which is the file, or the decision is entered.                          *)
Leaves(t) == /\ Listed(task[t].path, file[task[t].kind])
             /\ SetTask(t, AtEnd(task[t])) /\ UNCHANGED <<damaged, ever>>

LEMMA ReadChoice ==
  ASSUME NEW t \in Task, ReadList(t)
  PROVE  \/ Leaves(t)
         \/ \E l \in {file[task[t].kind], {}} : ~Listed(task[t].path, l) /\ Enter(t, l)
<1>1. PICK l \in {file[task[t].kind], {}} :
         IF Listed(task[t].path, l)
         THEN SetTask(t, AtEnd(task[t])) /\ UNCHANGED <<damaged, ever>>
         ELSE Enter(t, l)
  BY DEF ReadList
<1>2. Listed(task[t].path, l) => l = file[task[t].kind]
  BY DEF Listed
<1> QED BY <1>1, <1>2 DEF Leaves

(* A path that is listed.                                                  *)
LEMMA ListedLists == ASSUME ListInv, NEW t \in Task, ReadList(t), Leaves(t)
                     PROVE  Aside(t)
<1>1. ~Writes(task[t]) /\ SetTask(t, AtEnd(task[t])) /\ UNCHANGED <<file, ever, damaged>>
  BY DEF ReadList, Leaves, Writes
<1>2. AtEnd(task[t]) \in TaskState /\ ~Writes(AtEnd(task[t]))
  BY TaskFields, HashedFields, AtEndTypes DEF ReadList, ListInv, TaskState
<1>3. ~Writes(task'[t]) /\ \A u \in Task \ {t} : task'[u] = task[u]
  BY <1>1, <1>2, SetTypes DEF ListInv
<1> QED BY <1>1, <1>3 DEF Aside

-----------------------------------------------------------------------------
(* A path that is not.                                                     *)
LEMMA EnterView ==
  ASSUME ListInv, NEW t \in Task, ReadList(t), NEW l \in {file[task[t].kind], {}},
         ~Listed(task[t].path, l), Enter(t, l)
  PROVE  /\ task[t].kind \in Kind /\ ~Writes(task[t]) /\ UNCHANGED file
         /\ task'[t].pc = "create" /\ Writer(task'[t], task[t].kind)
         /\ task'[t].list = l /\ task'[t].uneven = FALSE
         /\ Entered(task'[t]) = Entered(task[t]) /\ Entered(task[t]) \in Entry
         /\ \A d \in l : d.path # Entered(task[t]).path
         /\ \A u \in Task \ {t} : task'[u] = task[u]
         /\ damaged' = [damaged EXCEPT ![task[t].kind] = @ \/ Misses(t, task[t].kind, l)]
         /\ ever' = [ever EXCEPT ![task[t].kind] = @ \cup {Entered(task[t])}]
<1> DEFINE s == [pc |-> "create", kind |-> task[t].kind, path |-> task[t].path, hash |-> task[t].hash,
                 list |-> l, uneven |-> FALSE]
<1>1. /\ task[t] \in Hashed /\ task[t].kind \in Kind /\ task[t].path \in Path /\ task[t].hash \in Content
      /\ ~Writes(task[t])
  BY TaskFields, HashedFields DEF ReadList, ListInv, Writes
<1>2. l \in SUBSET Entry
  BY <1>1 DEF ListInv, TypeOK
<1>3. /\ s \in Writing /\ s.pc = "create" /\ s.kind = task[t].kind /\ s.list = l
      /\ s.uneven = FALSE /\ Entered(s) = Entered(task[t])
  BY <1>1, <1>2, WritingRecord
<1>4. /\ SetTask(t, s) /\ UNCHANGED file
      /\ damaged' = [damaged EXCEPT ![task[t].kind] = @ \/ Misses(t, task[t].kind, l)]
      /\ ever' = [ever EXCEPT ![task[t].kind] = @ \cup {Entered(task[t])}]
  BY DEF ReadList, Enter
<1> HIDE DEF s
<1>5. task'[t] = s /\ \A u \in Task \ {t} : task'[u] = task[u]
  BY <1>3, <1>4, SetTypes DEF ListInv, TaskState
<1>6. \A d \in l : d.path # Entered(task[t]).path
  BY <1>1, EnteredTypes DEF Listed
<1>7. Writer(s, task[t].kind)
  BY <1>3 DEF Writer, Writes
<1> QED BY <1>1, <1>3, <1>4, <1>5, <1>6, <1>7, EnteredTypes

LEMMA EnterLists ==
  ASSUME ListInv, NEW t \in Task, ReadList(t), NEW l \in {file[task[t].kind], {}},
         ~Listed(task[t].path, l), Enter(t, l)
  PROVE  ListsOK'
<1> DEFINE j == task[t].kind
<1>0. /\ j \in Kind /\ ~Writes(task[t]) /\ file' = file
      /\ Entered(task'[t]) = Entered(task[t]) /\ task'[t].list = l /\ l \in {file[j], {}}
      /\ \A d \in l : d.path # Entered(task[t]).path
      /\ \A u \in Task \ {t} : task'[u] = task[u]
  BY EnterView
<1>a. ever' = [ever EXCEPT ![j] = @ \cup {Entered(task[t])}] /\ ever \in [Kind -> SUBSET Entry]
  <2>1. ever' = [ever EXCEPT ![j] = @ \cup {Entered(task[t])}]
    BY EnterView
  <2>2. ever \in [Kind -> SUBSET Entry]
    BY DEF ListInv, TypeOK
  <2> QED BY <2>1, <2>2
<1>d. /\ damaged' = [damaged EXCEPT ![j] = @ \/ Misses(t, j, l)]
      /\ damaged \in [Kind -> BOOLEAN]
  <2>1. damaged' = [damaged EXCEPT ![j] = @ \/ Misses(t, j, l)]
    BY EnterView
  <2>2. damaged \in [Kind -> BOOLEAN]
    BY DEF ListInv, TypeOK
  <2> QED BY <2>1, <2>2
<1>b. \A k \in Kind \ {j} : damaged'[k] = damaged[k]
  <2> HIDE DEF j
  <2> QED BY <1>d, Zenon
<1>c. ever'[j] = ever[j] \cup {Entered(task[t])} /\ \A k \in Kind \ {j} : ever'[k] = ever[k]
  <2> HIDE DEF j
  <2> QED BY <1>0, <1>a
<1>1. \A k \in Kind : ever[k] \subseteq ever'[k] /\ (k # j => ever'[k] = ever[k] /\ damaged'[k] = damaged[k])
  BY <1>b, <1>c
<1>2. Entered(task[t]) \in ever'[j]
  BY <1>c
<1>3. damaged'[j] = FALSE => damaged[j] = FALSE /\ ~Misses(t, j, l)
  <2>1. j \in Kind
    BY <1>0
  <2> HIDE DEF j
  <2>2. damaged'[j] = (damaged[j] \/ Misses(t, j, l)) /\ damaged[j] \in BOOLEAN
    BY <1>d, <2>1, Zenon
  <2> QED BY <2>2, Zenon
<1>4. Writer(task'[t], j) /\ \A k \in Kind : Writer(task'[t], k) => k = j
  BY EnterView DEF Writer
<1>5. SUFFICES ASSUME NEW k \in Kind
               PROVE  /\ Sound(file[k], ever'[k])
                      /\ \A u \in Task : Writer(task'[u], k) => WriterOK(task'[u], ever'[k])
                      /\ damaged'[k] = FALSE => Calm(k)'
  BY <1>0 DEF ListsOK
<1>6. Sound(file[k], ever'[k])
  BY <1>1, SoundGrows DEF ListInv, ListsOK
<1>7. ASSUME NEW u \in Task, Writer(task'[u], k) PROVE WriterOK(task'[u], ever'[k])
  <2>1. CASE u = t
    <3>1. k = j
      BY <1>4, <1>7, <2>1
    <3>2. task'[t].list = l /\ \A d \in l : d.path # Entered(task'[t]).path
      BY <1>0
    <3>4. Sound(l, ever'[k])
      BY <1>0, <1>6, <3>1, NoneSound
    <3>3. Entered(task'[t]) \in ever'[j]
      BY <1>0, <1>2
    <3> HIDE DEF j
    <3> QED BY <2>1, <3>1, <3>2, <3>3, <3>4 DEF WriterOK
  <2>2. CASE u # t
    BY <1>0, <1>1, <1>7, <2>2, WriterGrows DEF ListInv, ListsOK
  <2> QED BY <2>1, <2>2
<1>8. ASSUME damaged'[k] = FALSE PROVE Calm(k)'
  <2>1. CASE k = j
    <3>1. \A u \in Task \ {t} : ~Writer(task'[u], k)
      BY <1>0, <1>3, <1>8, <2>1 DEF Misses, Writer, Writes
    <3>2. l = file[j]
      BY <1>3, <1>8, <2>1 DEF Misses
    <3> QED BY <1>0, <2>1, <3>1, <3>2, EnterView DEF Calm
  <2>2. CASE k # j
    <3>1. ~Writer(task'[t], k) /\ Calm(k)
      BY <1>1, <1>4, <1>8, <2>2 DEF ListInv, ListsOK
    <3> QED BY <1>0, <3>1 DEF Calm
  <2> QED BY <2>1, <2>2
<1> QED BY <1>6, <1>7, <1>8

-----------------------------------------------------------------------------
(* The file is truncated.                                                  *)
LEMMA TruncateView ==
  ASSUME ListInv, NEW t \in Task, Truncate(t)
  PROVE  /\ task[t].pc = "create" /\ Writer(task[t], task[t].kind) /\ task[t].kind \in Kind
         /\ task'[t].pc = "write" /\ Writer(task'[t], task[t].kind)
         /\ task'[t].kind = task[t].kind /\ task'[t].list = task[t].list
         /\ task'[t].uneven = task[t].uneven /\ Entered(task'[t]) = Entered(task[t])
         /\ \A u \in Task \ {t} : task'[u] = task[u]
         /\ file' = [file EXCEPT ![task[t].kind] = {}]
         /\ ever' = ever /\ damaged' = damaged
<1> DEFINE s == [task[t] EXCEPT !.pc = "write"]
<1>1. task[t].pc = "create" /\ task[t] \in Writing /\ task[t].kind \in Kind
  BY TaskFields, WritingFields DEF Truncate, ListInv, Writes
<1>2. /\ s \in Writing /\ s.pc = "write" /\ s.kind = task[t].kind /\ s.list = task[t].list
      /\ s.uneven = task[t].uneven /\ Entered(s) = Entered(task[t])
  BY <1>1, TruncatedRecord
<1>3. /\ SetTask(t, s) /\ file' = [file EXCEPT ![task[t].kind] = {}]
      /\ ever' = ever /\ damaged' = damaged
  BY DEF Truncate, historyVars
<1> HIDE DEF s
<1>4. task'[t] = s /\ \A u \in Task \ {t} : task'[u] = task[u]
  BY <1>2, <1>3, SetTypes DEF ListInv, TaskState
<1> QED BY <1>1, <1>2, <1>3, <1>4 DEF Writer, Writes

LEMMA TruncateLists == ASSUME ListInv, NEW t \in Task, Truncate(t) PROVE ListsOK'
<1> DEFINE j == task[t].kind
<1>0. /\ j \in Kind /\ Writer(task[t], j) /\ task'[t].pc = "write"
      /\ task'[t].kind = j /\ task'[t].list = task[t].list
      /\ task'[t].uneven = task[t].uneven /\ Entered(task'[t]) = Entered(task[t])
      /\ \A u \in Task \ {t} : task'[u] = task[u]
      /\ ever' = ever /\ damaged' = damaged
  BY TruncateView
<1>1. file'[j] = {} /\ \A k \in Kind \ {j} : file'[k] = file[k]
  <2>1. file' = [file EXCEPT ![j] = {}] /\ file \in [Kind -> SUBSET Entry]
    BY TruncateView DEF ListInv, TypeOK
  <2> QED BY <1>0, <2>1
<1> HIDE DEF j
<1>2. \A u \in Task, k \in Kind : Writer(task'[u], k) <=> Writer(task[u], k)
  BY <1>0 DEF Writer, Writes
<1>3. SUFFICES ASSUME NEW k \in Kind
               PROVE  /\ Sound(file'[k], ever[k])
                      /\ \A u \in Task : Writer(task'[u], k) => WriterOK(task'[u], ever[k])
                      /\ damaged[k] = FALSE => Calm(k)'
  BY <1>0 DEF ListsOK
<1>4. Sound(file'[k], ever[k])
  BY <1>1, NoneSound DEF ListInv, ListsOK
<1>5. ASSUME NEW u \in Task, Writer(task'[u], k) PROVE WriterOK(task'[u], ever[k])
  BY <1>0, <1>2, <1>5 DEF ListInv, ListsOK, WriterOK
<1>6. ASSUME damaged[k] = FALSE PROVE Calm(k)'
  <2>1. Calm(k)
    BY <1>6 DEF ListInv, ListsOK
  <2>2. CASE k = j
    <3>1. \A u \in Task : Writer(task'[u], k) => u = t
      BY <1>0, <1>2, <2>1, <2>2 DEF Calm
    <3>2. task[t].uneven = FALSE
      BY <1>0, <2>1, <2>2 DEF Calm
    <3> QED BY <1>0, <1>1, <2>2, <3>1, <3>2 DEF Calm
  <2>3. CASE k # j
    <3>1. ~Writer(task'[t], k) /\ file'[k] = file[k]
      BY <1>0, <1>1, <2>3 DEF Writer
    <3> QED BY <1>0, <1>2, <2>1, <3>1 DEF Calm
  <2> QED BY <2>2, <2>3
<1> QED BY <1>4, <1>5, <1>6

-----------------------------------------------------------------------------
(* The list is written.                                                    *)
LEMMA WriteView ==
  ASSUME ListInv, NEW t \in Task, Write(t)
  PROVE  /\ task[t].pc = "write" /\ task[t].kind \in Kind /\ Writer(task[t], task[t].kind)
         /\ ~Writes(task'[t])
         /\ \A u \in Task \ {t} :
               /\ task'[u].pc = task[u].pc
               /\ Writes(task[u]) => /\ task'[u].kind = task[u].kind /\ task'[u].list = task[u].list
                                     /\ Entered(task'[u]) = Entered(task[u])
               /\ ~Writes(task[u]) \/ task[u].kind # task[t].kind => task'[u] = task[u]
         /\ file' = [file EXCEPT ![task[t].kind] = Written(t)]
            \/ (task[t].uneven = TRUE /\ file' = [file EXCEPT ![task[t].kind] = {}])
         /\ ever' = ever /\ damaged' = damaged
<1>1. task[t].pc = "write" /\ task[t] \in Writing /\ task[t].kind \in Kind /\ task[t].uneven \in BOOLEAN
  BY TaskFields, WritingFields DEF Write, ListInv, Writes
<1>2. task' = MarkUneven(t) /\ ever' = ever /\ damaged' = damaged
  BY DEF Write, historyVars
<1>3. file' = [file EXCEPT ![task[t].kind] = Written(t)]
      \/ (task[t].uneven = TRUE /\ file' = [file EXCEPT ![task[t].kind] = {}])
  <2>1. PICK s \in {Written(t)} \cup (IF task[t].uneven THEN {{}} ELSE {}) :
           file' = [file EXCEPT ![task[t].kind] = s]
    BY Zenon DEF Write
  <2>2. s = Written(t) \/ (task[t].uneven = TRUE /\ s = {})
    <3>1. CASE task[t].uneven = TRUE
      BY <3>1
    <3>2. CASE task[t].uneven = FALSE
      BY <3>2
    <3> QED BY <1>1, <3>1, <3>2
  <2> QED BY <2>1, <2>2
<1>4. /\ ~Writes(task'[t])
      /\ \A u \in Task \ {t} :
            /\ task'[u].pc = task[u].pc
            /\ Writes(task[u]) => /\ task'[u].kind = task[u].kind /\ task'[u].list = task[u].list
                                  /\ Entered(task'[u]) = Entered(task[u])
            /\ ~Writes(task[u]) \/ task[u].kind # task[t].kind => task'[u] = task[u]
  BY <1>1, <1>2, UnevenTypes DEF ListInv
<1>5. Writer(task[t], task[t].kind)
  BY <1>1 DEF Writer, Writes
<1> QED BY <1>1, <1>2, <1>3, <1>4, <1>5

LEMMA WriteLists == ASSUME ListInv, NEW t \in Task, Write(t) PROVE ListsOK'
<1> DEFINE j == task[t].kind
<1>0. /\ j \in Kind /\ Writer(task[t], j) /\ ~Writes(task'[t]) /\ ever' = ever /\ damaged' = damaged
  BY WriteView
<1>1. \A u \in Task \ {t} :
         /\ task'[u].pc = task[u].pc
         /\ Writes(task[u]) => /\ task'[u].kind = task[u].kind /\ task'[u].list = task[u].list
                               /\ Entered(task'[u]) = Entered(task[u])
         /\ ~Writes(task[u]) \/ task[u].kind # j => task'[u] = task[u]
  BY WriteView
<1>2. file'[j] \in {Written(t), {}} /\ \A k \in Kind \ {j} : file'[k] = file[k]
  <2>1. /\ file' = [file EXCEPT ![j] = Written(t)] \/ file' = [file EXCEPT ![j] = {}]
        /\ file \in [Kind -> SUBSET Entry]
    BY WriteView DEF ListInv, TypeOK
  <2> HIDE DEF j
  <2> QED BY <1>0, <2>1
<1>3. Written(t) = task[t].list \cup {Entered(task[t])}
  BY DEF Written
<1> HIDE DEF j
<1>4. \A u \in Task, k \in Kind : Writer(task'[u], k) <=> u # t /\ Writer(task[u], k)
  BY <1>0, <1>1 DEF Writer, Writes
<1>5. SUFFICES ASSUME NEW k \in Kind
               PROVE  /\ Sound(file'[k], ever[k])
                      /\ \A u \in Task : Writer(task'[u], k) => WriterOK(task'[u], ever[k])
                      /\ damaged[k] = FALSE => Calm(k)'
  BY <1>0 DEF ListsOK
<1>6. Sound(file'[k], ever[k])
  <2>1. CASE k = j
    <3>1. WriterOK(task[t], ever[k])
      BY <1>0, <2>1 DEF ListInv, ListsOK
    <3> QED BY <1>2, <1>3, <2>1, <3>1, WrittenSound, NoneSound
  <2>2. CASE k # j
    BY <1>2, <2>2 DEF ListInv, ListsOK
  <2> QED BY <2>1, <2>2
<1>7. ASSUME NEW u \in Task, Writer(task'[u], k) PROVE WriterOK(task'[u], ever[k])
  <2>1. u # t /\ Writer(task[u], k) /\ WriterOK(task[u], ever[k])
    BY <1>4, <1>7 DEF ListInv, ListsOK
  <2>2. task'[u].list = task[u].list /\ Entered(task'[u]) = Entered(task[u])
    BY <1>1, <2>1 DEF Writer
  <2> QED BY <2>1, <2>2 DEF WriterOK
<1>8. ASSUME damaged[k] = FALSE PROVE Calm(k)'
  <2>1. Calm(k)
    BY <1>8 DEF ListInv, ListsOK
  <2>2. CASE k = j
    <3>1. \A u \in Task : ~Writer(task'[u], k)
      BY <1>0, <1>4, <2>1, <2>2 DEF Calm
    <3> QED BY <3>1 DEF Calm
  <2>3. CASE k # j
    <3>1. \A u \in Task : Writer(task'[u], k) => task'[u] = task[u]
      BY <1>1, <1>4, <2>3 DEF Writer
    <3> QED BY <1>2, <1>4, <2>1, <2>3, <3>1 DEF Calm
  <2> QED BY <2>2, <2>3
<1> QED BY <1>6, <1>7, <1>8

-----------------------------------------------------------------------------
(* It cannot be written, or the agent stops.                               *)
LEMMA WriteFailsLists == ASSUME ListInv, NEW t \in Task, WriteFails(t) PROVE ListsOK'
<1> DEFINE j == task[t].kind
<1>1. task[t] \in Writing /\ j \in Kind /\ AtEnd(task[t]) \in TaskState /\ ~Writes(AtEnd(task[t]))
  BY TaskFields, WritingFields, AtEndTypes DEF WriteFails, ListInv, Writes, TaskState
<1>2. /\ SetTask(t, AtEnd(task[t])) /\ damaged' = [damaged EXCEPT ![j] = TRUE]
      /\ file' = file /\ ever' = ever
  BY DEF WriteFails
<1>3. ~Writes(task'[t]) /\ \A u \in Task \ {t} : task'[u] = task[u]
  BY <1>1, <1>2, SetTypes DEF ListInv
<1>4. damaged'[j] = TRUE /\ \A k \in Kind \ {j} : damaged'[k] = damaged[k]
  BY <1>1, <1>2 DEF ListInv, TypeOK
<1>5. \A u \in Task, k \in Kind : Writer(task'[u], k) => u # t /\ task'[u] = task[u] /\ Writer(task[u], k)
  BY <1>3 DEF Writer
<1>6. \A k \in Kind \ {j} : Calm(k) => Calm(k)'
  BY <1>2, <1>5 DEF Calm
<1> HIDE DEF j
<1> QED BY <1>2, <1>4, <1>5, <1>6 DEF ListInv, ListsOK

LEMMA StopLists == ASSUME ListInv, Stop PROVE ListsOK'
<1>1. \A t \in Task, k \in Kind : ~Writer(task'[t], k)
  BY IdleTypes DEF Stop, Writer
<1>2. file' = file /\ ever' = ever
  BY DEF Stop
<1> QED BY <1>1, <1>2 DEF ListInv, ListsOK, Calm

LEMMA StepLists == ASSUME ListInv, [Next]_vars PROVE ListsOK'
<1>1. CASE \/ UNCHANGED vars \/ Start \/ (\E e \in Entry : CheckEntry(e)) \/ TrustEntry \/ Loaded \/ Enable
           \/ \E p \in Path, f \in Program : Edit(p, f)
  <2>1. UNCHANGED <<file, ever, damaged, task>>
    BY <1>1 DEF vars, Start, CheckEntry, TrustEntry, Loaded, Enable, Edit, historyVars
  <2>2. file' = file /\ ever' = ever /\ damaged' = damaged /\ task' = task
    BY <2>1
  <2>3. \A k \in Kind : Calm(k) => Calm(k)'
    BY <2>2 DEF Calm
  <2>4. \A k \in Kind : /\ Sound(file[k], ever[k])
                        /\ \A t \in Task : Writer(task[t], k) => WriterOK(task[t], ever[k])
                        /\ damaged[k] = FALSE => Calm(k)'
    BY <2>3, Zenon DEF ListInv, ListsOK
  <2> QED BY <2>2, <2>4 DEF ListsOK
<1>2. CASE Stop
  BY <1>2, StopLists
<1>3. ASSUME NEW t \in Task, Serve(t) PROVE ListsOK'
  <2>1. ASSUME NEW k \in Kind, NEW p \in Path, Decide(t, k, p) PROVE ListsOK'
    BY <2>1, DecideLists, QuietLists DEF ListInv
  <2>2. CASE Hash(t)
    BY <2>2, HashLists, QuietLists DEF ListInv
  <2>3. CASE ReadList(t)
    BY <2>3, ReadChoice, ListedLists, EnterLists, QuietLists DEF ListInv
  <2>4. CASE Truncate(t)
    BY <2>4, TruncateLists
  <2>5. CASE Write(t)
    BY <2>5, WriteLists
  <2>6. CASE WriteFails(t)
    BY <2>6, WriteFailsLists
  <2>7. CASE Answer(t)
    BY <2>7, AnswerLists, QuietLists DEF ListInv
  <2> QED BY <1>3, <2>1, <2>2, <2>3, <2>4, <2>5, <2>6, <2>7 DEF Serve
<1> QED BY <1>1, <1>2, <1>3 DEF Next

-----------------------------------------------------------------------------
(* The refinement.  What a reader finds of list k, or a writer that has    *)
(* truncated it will put back, given the tasks tk and the files fl.        *)
MidWrite(s, k) == s.pc = "write" /\ s.kind = k

StoredOf(tk, fl, k) ==
    IF \E t \in Task : MidWrite(tk[t], k)
    THEN tk[CHOOSE t \in Task : MidWrite(tk[t], k)].list
    ELSE fl[k]

LEMMA StoredIs == ASSUME NEW k
                  PROVE  Stored(k) = StoredOf(task, file, k) /\ Stored(k)' = StoredOf(task', file', k)
  BY DEF Stored, StoredOf, MidWrite

LEMMA StoredNone == ASSUME NEW tk, NEW fl, NEW k, \A t \in Task : ~MidWrite(tk[t], k)
                    PROVE  StoredOf(tk, fl, k) = fl[k]
  BY DEF StoredOf

LEMMA StoredOne == ASSUME NEW tk, NEW fl, NEW k, NEW t \in Task, MidWrite(tk[t], k),
                          \A u \in Task : MidWrite(tk[u], k) => u = t
                   PROVE  StoredOf(tk, fl, k) = tk[t].list
  BY DEF StoredOf

LEMMA StoredSome == ASSUME NEW tk, NEW fl, NEW k
                    PROVE  \/ StoredOf(tk, fl, k) = fl[k]
                           \/ \E t \in Task : MidWrite(tk[t], k) /\ StoredOf(tk, fl, k) = tk[t].list
<1>1. CASE \E t \in Task : MidWrite(tk[t], k)
  <2> DEFINE w == CHOOSE t \in Task : MidWrite(tk[t], k)
  <2>1. w \in Task /\ MidWrite(tk[w], k)
    BY <1>1
  <2>2. StoredOf(tk, fl, k) = tk[w].list
    BY <1>1 DEF StoredOf
  <2> QED BY <2>1, <2>2
<1>2. CASE ~ \E t \in Task : MidWrite(tk[t], k)
  BY <1>2, StoredNone
<1> QED BY <1>1, <1>2

LEMMA MidWriter == ASSUME NEW s, NEW k, MidWrite(s, k) PROVE Writer(s, k)
  BY DEF MidWrite, Writer, Writes

(* Whatever happened, what is stored is sound.                             *)
LEMMA StoredSound == ASSUME NEW k \in Kind, ListsOK' PROVE Sound(Stored(k)', ever'[k])
<1>1. Sound(file'[k], ever'[k]) /\ \A t \in Task : Writer(task'[t], k) => WriterOK(task'[t], ever'[k])
  BY DEF ListsOK
<1>2. CASE Stored(k)' = file'[k]
  BY <1>1, <1>2
<1>3. ASSUME NEW t \in Task, MidWrite(task'[t], k), Stored(k)' = task'[t].list
      PROVE  Sound(Stored(k)', ever'[k])
  BY <1>1, <1>3, MidWriter DEF WriterOK
<1> QED BY <1>2, <1>3, StoredIs, StoredSome

(* The steps of DecisionList, of list k.                                   *)
Same(k) == Stored(k)' = Stored(k) /\ ever'[k] = ever[k] /\ damaged'[k] = damaged[k]

DecideOne(k) == /\ \E e \in Entry : ever'[k] = ever[k] \cup {e}
                /\ Stored(k)' = Stored(k) /\ damaged'[k] = damaged[k]

AddOne(k) == /\ \E e \in ever[k] : /\ \A d \in Stored(k) : d.path # e.path
                                   /\ Stored(k)' = Stored(k) \cup {e}
             /\ ever'[k] = ever[k] /\ damaged'[k] = damaged[k]

Mishap(k) == /\ damaged'[k] = TRUE
             /\ ever[k] \subseteq ever'[k] /\ ever'[k] \subseteq Entry
             /\ Sound(Stored(k)', ever'[k])

ListStep(k) == Same(k) \/ DecideOne(k) \/ AddOne(k) \/ Mishap(k)

(* No task starts or ends to write list k.                                 *)
LEMMA StoredKept == ASSUME NEW k, file'[k] = file[k],
                           \A u \in Task : ~MidWrite(task[u], k) /\ ~MidWrite(task'[u], k)
                    PROVE  Stored(k)' = Stored(k)
  BY StoredIs, StoredNone

LEMMA StoredStays == ASSUME ListsOK, NEW k \in Kind, damaged[k] = FALSE, file'[k] = file[k],
                            \A u \in Task : Writer(task[u], k) \/ Writer(task'[u], k) => task'[u] = task[u]
                     PROVE  Stored(k)' = Stored(k)
<1>1. CASE \A u \in Task : ~MidWrite(task[u], k)
  <2>1. \A u \in Task : ~MidWrite(task'[u], k)
    BY <1>1, MidWriter
  <2> QED BY <1>1, <2>1, StoredKept
<1>2. ASSUME NEW t \in Task, MidWrite(task[t], k) PROVE Stored(k)' = Stored(k)
  <2>1. task'[t] = task[t] /\ \A u \in Task : Writer(task[u], k) => u = t
    BY <1>2, MidWriter DEF ListsOK, Calm
  <2>2. \A u \in Task : Writer(task'[u], k) => u = t
    BY <2>1
  <2>3. Stored(k) = task[t].list /\ Stored(k)' = task'[t].list
    BY <1>2, <2>1, <2>2, MidWriter, StoredIs, StoredOne
  <2> QED BY <2>1, <2>3
<1> QED BY <1>1, <1>2

LEMMA EverGrows == ASSUME ListInv, [Next]_vars, NEW k \in Kind PROVE ever[k] \subseteq ever'[k]
<1>1. CASE ever' = ever
  BY <1>1
<1>2. ASSUME NEW t \in Task, ReadList(t) PROVE ever[k] \subseteq ever'[k]
  <2>1. ever' = ever \/ ever' = [ever EXCEPT ![task[t].kind] = @ \cup {Entered(task[t])}]
    BY <1>2 DEF ReadList, Enter
  <2> QED BY <2>1 DEF ListInv, TypeOK
<1>3. ASSUME NEW t \in Task, Serve(t), ~ReadList(t) PROVE ever' = ever
  BY <1>3 DEF Serve, Decide, Hash, Truncate, Write, WriteFails, Answer, historyVars
<1>4. CASE \/ UNCHANGED vars \/ Start \/ (\E e \in Entry : CheckEntry(e)) \/ TrustEntry \/ Loaded \/ Enable
           \/ Stop \/ \E p \in Path, f \in Program : Edit(p, f)
  BY <1>4 DEF vars, Start, CheckEntry, TrustEntry, Loaded, Enable, Stop, Edit, historyVars
<1> QED BY <1>1, <1>2, <1>3, <1>4 DEF Next

LEMMA AsideSame == ASSUME ListInv, NEW t \in Task, Aside(t), NEW k \in Kind, damaged[k] = FALSE
                   PROVE  Same(k)
<1>1. \A u \in Task : Writer(task[u], k) \/ Writer(task'[u], k) => task'[u] = task[u]
  BY DEF Aside, Writer
<1> QED BY <1>1, StoredStays DEF Aside, Same, ListInv

LEMMA EnterStep ==
  ASSUME ListInv, NEW t \in Task, ReadList(t), NEW l \in {file[task[t].kind], {}},
         ~Listed(task[t].path, l), Enter(t, l),
         NEW k \in Kind, damaged[k] = FALSE, damaged'[k] = FALSE
  PROVE  ListStep(k)
<1> DEFINE j == task[t].kind
<1>1. /\ j \in Kind /\ ~Writes(task[t]) /\ file' = file /\ task'[t].pc = "create" /\ Writer(task'[t], j)
      /\ \A u \in Task \ {t} : task'[u] = task[u]
      /\ Entered(task[t]) \in Entry
  BY EnterView
<1>2. ever' = [ever EXCEPT ![j] = @ \cup {Entered(task[t])}] /\ ever \in [Kind -> SUBSET Entry]
  <2>1. ever' = [ever EXCEPT ![j] = @ \cup {Entered(task[t])}]
    BY EnterView
  <2>2. ever \in [Kind -> SUBSET Entry]
    BY DEF ListInv, TypeOK
  <2> QED BY <2>1, <2>2
<1> HIDE DEF j
<1>3. CASE k = j
  <2>1. ListsOK'
    BY EnterLists
  <2>2. \A u \in Task : Writer(task'[u], k) => u = t
    BY <1>1, <1>3, <2>1 DEF ListsOK, Calm
  <2>3. \A u \in Task : ~MidWrite(task[u], k) /\ ~MidWrite(task'[u], k)
    BY <1>1, <2>2, MidWriter DEF MidWrite, Writes
  <2>4. Stored(k)' = Stored(k)
    BY <1>1, <2>3, StoredKept
  <2>5. ever'[k] = ever[k] \cup {Entered(task[t])}
    BY <1>1, <1>2, <1>3
  <2> QED BY <1>1, <2>4, <2>5 DEF ListStep, DecideOne
<1>4. CASE k # j
  <2>1. \A u \in Task : Writer(task[u], k) \/ Writer(task'[u], k) => task'[u] = task[u]
    BY <1>1, <1>4 DEF Writer
  <2>2. Stored(k)' = Stored(k)
    BY <1>1, <2>1, StoredStays DEF ListInv
  <2>3. ever'[k] = ever[k]
    BY <1>1, <1>2, <1>4
  <2> QED BY <2>2, <2>3 DEF ListStep, Same
<1> QED BY <1>3, <1>4

LEMMA TruncateStep == ASSUME ListInv, NEW t \in Task, Truncate(t), NEW k \in Kind, damaged[k] = FALSE
                      PROVE  ListStep(k)
<1> DEFINE j == task[t].kind
<1>1. /\ j \in Kind /\ task[t].pc = "create" /\ Writer(task[t], j)
      /\ task'[t].pc = "write" /\ task'[t].kind = j /\ task'[t].list = task[t].list
      /\ \A u \in Task \ {t} : task'[u] = task[u]
      /\ ever' = ever /\ damaged' = damaged
  BY TruncateView
<1>2. file' = [file EXCEPT ![j] = {}] /\ file \in [Kind -> SUBSET Entry]
  BY TruncateView DEF ListInv, TypeOK
<1> HIDE DEF j
<1>3. CASE k = j
  <2>1. \A u \in Task : Writer(task[u], k) => u = t
    BY <1>1, <1>3 DEF ListInv, ListsOK, Calm
  <2>2. file[k] = task[t].list
    BY <1>1, <1>3 DEF ListInv, ListsOK, Calm
  <2>3. Stored(k) = file[k]
    <3>1. \A u \in Task : ~MidWrite(task[u], k)
      BY <1>1, <2>1, MidWriter DEF MidWrite
    <3> QED BY <3>1, StoredIs, StoredNone
  <2>4. Stored(k)' = task[t].list
    <3>1. MidWrite(task'[t], k) /\ \A u \in Task : MidWrite(task'[u], k) => u = t
      BY <1>1, <1>3, <2>1, MidWriter DEF MidWrite
    <3> QED BY <1>1, <3>1, StoredIs, StoredOne
  <2> QED BY <1>1, <2>2, <2>3, <2>4 DEF ListStep, Same
<1>4. CASE k # j
  <2>1. \A u \in Task : Writer(task[u], k) \/ Writer(task'[u], k) => task'[u] = task[u]
    BY <1>1, <1>4 DEF Writer
  <2>2. file'[k] = file[k]
    BY <1>1, <1>2, <1>4
  <2> QED BY <1>1, <2>1, <2>2, StoredStays DEF ListStep, Same, ListInv
<1> QED BY <1>3, <1>4

(* An undamaged list is written as it was, with the new decision.          *)
LEMMA WrittenStored ==
  ASSUME ListInv, NEW t \in Task, Write(t), NEW k \in Kind, task[t].kind = k, damaged[k] = FALSE
  PROVE  Stored(k) = task[t].list /\ Stored(k)' = Stored(k) \cup {Entered(task[t])}
<1>1. task[t].pc = "write" /\ Writer(task[t], k) /\ ~Writes(task'[t])
  BY WriteView
<1>2. \A u \in Task \ {t} :
         /\ task'[u].pc = task[u].pc
         /\ Writes(task[u]) => task'[u].kind = task[u].kind
  BY WriteView
<1>3. /\ \/ file' = [file EXCEPT ![k] = Written(t)]
         \/ task[t].uneven = TRUE /\ file' = [file EXCEPT ![k] = {}]
      /\ file \in [Kind -> SUBSET Entry]
  BY WriteView DEF ListInv, TypeOK
<1>4. (\A u \in Task : Writer(task[u], k) => u = t) /\ task[t].uneven = FALSE
  BY <1>1 DEF ListInv, ListsOK, Calm
<1>5. Stored(k) = task[t].list
  <2>1. MidWrite(task[t], k) /\ \A u \in Task : MidWrite(task[u], k) => u = t
    BY <1>1, <1>4, MidWriter DEF MidWrite, Writer
  <2> QED BY <2>1, StoredIs, StoredOne
<1>6. file'[k] = task[t].list \cup {Entered(task[t])}
  BY <1>3, <1>4 DEF Written
<1>7. Stored(k)' = file'[k]
  <2>1. \A u \in Task \ {t} : Writes(task'[u]) => Writes(task[u]) /\ task'[u].kind = task[u].kind
    BY <1>2 DEF Writes
  <2>2. \A u \in Task : ~Writer(task'[u], k)
    BY <1>1, <1>4, <2>1 DEF Writer
  <2>3. \A u \in Task : ~MidWrite(task'[u], k)
    BY <2>2, MidWriter
  <2> QED BY <2>3, StoredIs, StoredNone
<1> QED BY <1>5, <1>6, <1>7

LEMMA WriteStep == ASSUME ListInv, NEW t \in Task, Write(t), NEW k \in Kind, damaged[k] = FALSE
                   PROVE  ListStep(k)
<1> DEFINE j == task[t].kind
<1>1. /\ j \in Kind /\ task[t].pc = "write" /\ Writer(task[t], j) /\ ~Writes(task'[t])
      /\ ever' = ever /\ damaged' = damaged
  BY WriteView
<1>2. \A u \in Task \ {t} :
         /\ task'[u].pc = task[u].pc
         /\ Writes(task[u]) => task'[u].kind = task[u].kind
         /\ ~Writes(task[u]) \/ task[u].kind # j => task'[u] = task[u]
  BY WriteView
<1>3. /\ \/ file' = [file EXCEPT ![j] = Written(t)]
         \/ task[t].uneven = TRUE /\ file' = [file EXCEPT ![j] = {}]
      /\ file \in [Kind -> SUBSET Entry]
  BY WriteView DEF ListInv, TypeOK
<1>4. j = task[t].kind
  OBVIOUS
<1> HIDE DEF j
<1>5. CASE k = j
  <2>1. WriterOK(task[t], ever[k])
    BY <1>1, <1>5 DEF ListInv, ListsOK
  <2>2. Stored(k) = task[t].list /\ Stored(k)' = Stored(k) \cup {Entered(task[t])}
    BY <1>4, <1>5, WrittenStored
  <2>3. Entered(task[t]) \in ever[k] /\ \A d \in Stored(k) : d.path # Entered(task[t]).path
    BY <2>1, <2>2 DEF WriterOK
  <2> QED BY <1>1, <2>2, <2>3 DEF ListStep, AddOne
<1>6. CASE k # j
  <2>1. \A u \in Task : Writer(task[u], k) \/ Writer(task'[u], k) => task'[u] = task[u]
    BY <1>1, <1>2, <1>6 DEF Writer, Writes
  <2>2. file'[k] = file[k]
    BY <1>1, <1>3, <1>6
  <2> QED BY <1>1, <2>1, <2>2, StoredStays DEF ListStep, Same, ListInv
<1> QED BY <1>5, <1>6

LEMMA WriteFailsStep ==
  ASSUME ListInv, NEW t \in Task, WriteFails(t), NEW k \in Kind, damaged[k] = FALSE, damaged'[k] = FALSE
  PROVE  Same(k)
<1> DEFINE j == task[t].kind
<1>1. task[t] \in Writing /\ j \in Kind /\ AtEnd(task[t]) \in TaskState /\ ~Writes(AtEnd(task[t]))
  BY TaskFields, WritingFields, AtEndTypes DEF WriteFails, ListInv, Writes, TaskState
<1>2. /\ SetTask(t, AtEnd(task[t])) /\ damaged' = [damaged EXCEPT ![j] = TRUE]
      /\ file' = file /\ ever' = ever
  BY DEF WriteFails
<1>3. ~Writes(task'[t]) /\ \A u \in Task \ {t} : task'[u] = task[u]
  BY <1>1, <1>2, SetTypes DEF ListInv
<1> HIDE DEF j
<1>4. k # j
  BY <1>1, <1>2 DEF ListInv, TypeOK
<1>5. task[t].kind = j
  BY DEF j
<1>6. \A u \in Task : Writer(task[u], k) \/ Writer(task'[u], k) => task'[u] = task[u]
  BY <1>3, <1>4, <1>5 DEF Writer
<1> QED BY <1>2, <1>6, StoredStays DEF Same, ListInv

LEMMA StopStep == ASSUME ListInv, Stop, NEW k \in Kind, damaged[k] = FALSE, damaged'[k] = FALSE
                  PROVE  Same(k)
<1>1. ~ \E t \in Task : MidWrite(task[t], k)
  <2>1. damaged'[k] = (damaged[k] \/ \E t \in Task : task[t].pc = "write" /\ task[t].kind = k)
    BY DEF Stop
  <2> QED BY <2>1, Zenon DEF MidWrite
<1>2. \A t \in Task : ~MidWrite(task'[t], k)
  BY IdleTypes DEF Stop, MidWrite
<1>3. file' = file /\ ever' = ever
  BY DEF Stop
<1>4. Stored(k)' = Stored(k)
  BY <1>1, <1>2, <1>3, StoredKept
<1> QED BY <1>3, <1>4 DEF Same

(* What has been damaged stays so.                                         *)
LEMMA DamageStays == ASSUME ListInv, [Next]_vars, NEW k \in Kind, damaged[k] = TRUE
                     PROVE  damaged'[k] # FALSE
<1> SUFFICES ASSUME damaged'[k] = FALSE PROVE FALSE
  OBVIOUS
<1>0. damaged'[k] = FALSE /\ damaged[k] = TRUE
  OBVIOUS
<1>1. ASSUME NEW t \in Task, ReadList(t) PROVE FALSE
  <2>1. CASE Leaves(t)
    BY <1>0, <1>1, <2>1, ListedLists DEF Aside
  <2>2. ASSUME NEW l \in {file[task[t].kind], {}}, ~Listed(task[t].path, l), Enter(t, l) PROVE FALSE
    <3>1. damaged' = [damaged EXCEPT ![task[t].kind] = @ \/ Misses(t, task[t].kind, l)]
      BY <1>1, <2>2, EnterView
    <3> QED BY <1>0, <3>1, Zenon DEF ListInv, TypeOK
  <2> QED BY <1>1, <2>1, <2>2, ReadChoice
<1>2. ASSUME NEW t \in Task, WriteFails(t) PROVE FALSE
  <2>1. damaged' = [damaged EXCEPT ![task[t].kind] = TRUE]
    BY <1>2 DEF WriteFails
  <2> QED BY <1>0, <2>1 DEF ListInv, TypeOK
<1>3. ASSUME NEW t \in Task, Serve(t), ~ReadList(t), ~WriteFails(t) PROVE damaged' = damaged
  BY <1>3 DEF Serve, Decide, Hash, Truncate, Write, Answer, historyVars
<1>4. ASSUME Stop PROVE FALSE
  <2>1. damaged'[k] = (damaged[k] \/ \E t \in Task : task[t].pc = "write" /\ task[t].kind = k)
    BY <1>4 DEF Stop
  <2> QED BY <1>0, <2>1, Zenon
<1>5. CASE \/ UNCHANGED vars \/ Start \/ (\E e \in Entry : CheckEntry(e)) \/ TrustEntry \/ Loaded \/ Enable
           \/ \E p \in Path, f \in Program : Edit(p, f)
  <2>1. damaged' = damaged
    BY <1>5 DEF vars, Start, CheckEntry, TrustEntry, Loaded, Enable, Edit, historyVars
  <2> QED BY <1>0, <2>1
<1> QED BY <1>0, <1>1, <1>2, <1>3, <1>4, <1>5 DEF Next

LEMMA StepRefines == ASSUME ListInv, ListInv', [Next]_vars, NEW k \in Kind PROVE ListStep(k)
<1>0. damaged[k] \in BOOLEAN /\ damaged'[k] \in BOOLEAN
  BY DEF ListInv, TypeOK
<1>1. CASE damaged'[k] = TRUE
  <2>1. ever'[k] \subseteq Entry
    BY DEF ListInv, TypeOK
  <2> QED BY <1>1, <2>1, EverGrows, StoredSound DEF ListInv, ListStep, Mishap
<1>2. CASE damaged'[k] = FALSE /\ damaged[k] = TRUE
  BY <1>2, DamageStays
<1>3. CASE damaged'[k] = FALSE /\ damaged[k] = FALSE
  <2>1. CASE \/ UNCHANGED vars \/ Start \/ (\E e \in Entry : CheckEntry(e)) \/ TrustEntry \/ Loaded \/ Enable
             \/ \E p \in Path, f \in Program : Edit(p, f)
    <3>1. UNCHANGED <<file, ever, damaged, task>>
      BY <2>1 DEF vars, Start, CheckEntry, TrustEntry, Loaded, Enable, Edit, historyVars
    <3>2. Stored(k)' = Stored(k)
      BY <3>1, StoredIs
    <3> QED BY <3>1, <3>2 DEF ListStep, Same
  <2>2. CASE Stop
    BY <1>3, <2>2, StopStep DEF ListStep
  <2>3. ASSUME NEW t \in Task, Serve(t) PROVE ListStep(k)
    <3>1. ASSUME NEW i \in Kind, NEW p \in Path, Decide(t, i, p) PROVE ListStep(k)
      BY <1>3, <3>1, DecideLists, AsideSame DEF ListStep
    <3>2. CASE Hash(t)
      BY <1>3, <3>2, HashLists, AsideSame DEF ListStep
    <3>3. CASE ReadList(t)
      <4>1. CASE Leaves(t)
        BY <1>3, <3>3, <4>1, ListedLists, AsideSame DEF ListStep
      <4>2. ASSUME NEW l \in {file[task[t].kind], {}}, ~Listed(task[t].path, l), Enter(t, l)
            PROVE  ListStep(k)
        BY <1>3, <3>3, <4>2, EnterStep
      <4> QED BY <3>3, <4>1, <4>2, ReadChoice
    <3>4. CASE Truncate(t)
      BY <1>3, <3>4, TruncateStep
    <3>5. CASE Write(t)
      BY <1>3, <3>5, WriteStep
    <3>6. CASE WriteFails(t)
      BY <1>3, <3>6, WriteFailsStep DEF ListStep
    <3>7. CASE Answer(t)
      BY <1>3, <3>7, AnswerLists, AsideSame DEF ListStep
    <3> QED BY <2>3, <3>1, <3>2, <3>3, <3>4, <3>5, <3>6, <3>7 DEF Serve
  <2> QED BY <2>1, <2>2, <2>3 DEF Next
<1> QED BY <1>0, <1>1, <1>2, <1>3

-----------------------------------------------------------------------------
LEMMA InitLists == Init => ListsOK /\ \A k \in Kind : Stored(k) = {} /\ ever[k] = {} /\ damaged[k] = FALSE
<1> SUFFICES ASSUME Init PROVE ListsOK /\ \A k \in Kind : Stored(k) = {} /\ ever[k] = {} /\ damaged[k] = FALSE
  OBVIOUS
<1>1. \A t \in Task : ~Writes(task[t]) /\ task[t].pc = "idle"
  BY IdleTypes DEF Init
<1>2. \A k \in Kind : file[k] = {} /\ ever[k] = {} /\ damaged[k] = FALSE
  BY DEF Init
<1>3. \A k \in Kind : Stored(k) = {}
  BY <1>1, <1>2, StoredIs, StoredNone DEF MidWrite
<1>4. ListsOK
  BY <1>1, <1>2, NoneSound DEF ListsOK, Writer, Calm
<1> QED BY <1>2, <1>3, <1>4

LEMMA InvAlways == Spec => []ListInv
<1>1. Init => ListInv
  BY InitTypes, InitLists DEF ListInv
<1>2. ListInv /\ [Next]_vars => ListInv'
  BY StepTypes, StepLists DEF ListInv
<1> QED BY <1>1, <1>2, PTL DEF Spec

LEMMA AllowStep == ListInv /\ ListInv' /\ [Next]_vars
                     => [AllowList!Next]_<<Stored("allow"), ever["allow"], damaged["allow"]>>
<1> SUFFICES ASSUME ListInv, ListInv', [Next]_vars
             PROVE  \/ AllowList!Next
                    \/ UNCHANGED <<Stored("allow"), ever["allow"], damaged["allow"]>>
  OBVIOUS
<1>1. ListStep("allow")
  BY StepRefines DEF Kind
<1> USE DEF AllowList!Next
<1>2. CASE Same("allow")
  BY <1>2 DEF Same
<1>3. CASE DecideOne("allow")
  BY <1>3 DEF DecideOne, AllowList!Decide, AllowList!Entry, Entry
<1>4. CASE AddOne("allow")
  BY <1>4 DEF AddOne, AllowList!Add
<1>5. CASE Mishap("allow")
  BY <1>5 DEF Mishap, AllowList!Accident, AllowList!Entry, Entry, AllowList!OnePerPath, Sound, OnePer
<1> QED BY <1>1, <1>2, <1>3, <1>4, <1>5 DEF ListStep

LEMMA DenyStep == ListInv /\ ListInv' /\ [Next]_vars
                    => [DenyList!Next]_<<Stored("deny"), ever["deny"], damaged["deny"]>>
<1> SUFFICES ASSUME ListInv, ListInv', [Next]_vars
             PROVE  \/ DenyList!Next
                    \/ UNCHANGED <<Stored("deny"), ever["deny"], damaged["deny"]>>
  OBVIOUS
<1>1. ListStep("deny")
  BY StepRefines DEF Kind
<1> USE DEF DenyList!Next
<1>2. CASE Same("deny")
  BY <1>2 DEF Same
<1>3. CASE DecideOne("deny")
  BY <1>3 DEF DecideOne, DenyList!Decide, DenyList!Entry, Entry
<1>4. CASE AddOne("deny")
  BY <1>4 DEF AddOne, DenyList!Add
<1>5. CASE Mishap("deny")
  BY <1>5 DEF Mishap, DenyList!Accident, DenyList!Entry, Entry, DenyList!OnePerPath, Sound, OnePer
<1> QED BY <1>1, <1>2, <1>3, <1>4, <1>5 DEF ListStep

(* The allow list, read, truncated and rewritten whole by tasks that know  *)
(* nothing of each other, loses nothing unless requests overlap, the agent *)
(* stops within a write, or a read or a write fails; and it never holds    *)
(* what was not decided, or two decisions for a path (trust_cache.rs       *)
(* 222-255, 350-383).                                                      *)
THEOREM AllowListRefines == Spec => AllowListKept
<1>1. Init => AllowList!Init
  BY InitLists DEF AllowList!Init, Kind
<1> QED BY <1>1, InvAlways, AllowStep, PTL DEF Spec, AllowListKept, AllowList!Spec

(* The same of the deny list (trust_cache.rs 349-383, 385-400).            *)
THEOREM DenyListRefines == Spec => DenyListKept
<1>1. Init => DenyList!Init
  BY InitLists DEF DenyList!Init, Kind
<1> QED BY <1>1, InvAlways, DenyStep, PTL DEF Spec, DenyListKept, DenyList!Spec

-----------------------------------------------------------------------------
(* Promises.  A decision is safe when its list is damaged, when another    *)
(* version of the program was decided upon, or when it is in the list; and *)
(* once safe it stays so.                                                  *)
Passed(k, e) == \E a \in ever[k] : a.path = e.path /\ a.hash # e.hash

Secure(k, e) == damaged[k] = TRUE \/ Passed(k, e) \/ e \in StoredOf(task, file, k)

Promised ==
    /\ \A d \in promised : Secure(d.kind, Entered(d))
    /\ \A t \in Task : task[t].pc = "done" => Secure(task[t].kind, Entered(task[t]))

(* What Windows keeps in memory is, after the start, what it read of the   *)
(* files.                                                                  *)
Remembered ==
    /\ agent = "loading" => platform = "unix"
    /\ agent = "loaded" /\ platform = "windows" =>
           \A k \in Kind : memory[k] = {e.hash : e \in file[k] \ missed[k]}

PromiseInv == ListInv /\ Loading /\ Promised /\ Remembered

LEMMA SecureStays == ASSUME ListInv, ListInv', [Next]_vars, NEW k \in Kind, NEW e, Secure(k, e)
                     PROVE  Secure(k, e)'
<1>1. damaged[k] \in BOOLEAN /\ damaged'[k] \in BOOLEAN /\ ever[k] \subseteq ever'[k]
  BY EverGrows DEF ListInv, TypeOK
<1>2. CASE damaged[k] = TRUE
  BY <1>1, <1>2, DamageStays DEF Secure
<1>3. CASE Passed(k, e)
  BY <1>1, <1>3 DEF Secure, Passed
<1>4. CASE e \in StoredOf(task, file, k)
  <2>1. damaged'[k] = TRUE \/ Stored(k) \subseteq Stored(k)'
    BY StepRefines DEF ListStep, Same, DecideOne, AddOne, Mishap
  <2>2. damaged'[k] = TRUE \/ StoredOf(task, file, k) \subseteq StoredOf(task', file', k)
    BY <2>1, StoredIs
  <2> QED BY <1>4, <2>2 DEF Secure
<1> QED BY <1>2, <1>3, <1>4 DEF Secure

(* A path that is listed is listed with this version, or with another.     *)
LEMMA ListedSecure ==
  ASSUME ListInv, NEW k \in Kind, NEW s, s.path \in Path, s.hash \in Content, Listed(s.path, file[k])
  PROVE  Secure(k, Entered(s))
<1>1. PICK e \in file[k] : e.path = s.path
  BY DEF Listed
<1>2. e \in Entry /\ e \in ever[k] /\ damaged[k] \in BOOLEAN
  BY DEF ListInv, TypeOK, ListsOK, Sound
<1>3. Entered(s).path = s.path /\ Entered(s).hash = s.hash
  BY EnteredTypes
<1>4. CASE e.hash # s.hash
  BY <1>1, <1>2, <1>3, <1>4 DEF Secure, Passed
<1>5. CASE e.hash = s.hash /\ damaged[k] = FALSE
  <2>1. e = Entered(s)
    BY <1>1, <1>2, <1>5 DEF Entered, Entry
  <2>2. \A u \in Task : ~MidWrite(task[u], k)
    <3>1. ASSUME NEW u \in Task, MidWrite(task[u], k) PROVE FALSE
      <4>1. file[k] = {}
        BY <1>5, <3>1, MidWriter DEF ListInv, ListsOK, Calm, MidWrite
      <4> QED BY <1>1, <4>1
    <3> QED BY <3>1
  <2>3. StoredOf(task, file, k) = file[k]
    BY <2>2, StoredNone
  <2> QED BY <1>1, <2>1, <2>3 DEF Secure
<1> QED BY <1>2, <1>4, <1>5 DEF Secure

(* How a task comes to its end.                                            *)
Ends(t) ==
    \/ ReadList(t) /\ Listed(task[t].path, file[task[t].kind])
    \/ Write(t) \/ WriteFails(t)

LEMMA DoneTasks == ASSUME ListInv, [Next]_vars, NEW t \in Task, task'[t].pc = "done"
                   PROVE  task'[t] = task[t] \/ (Ends(t) /\ task'[t] = AtEnd(task[t]))
<1>1. CASE \/ UNCHANGED vars \/ Start \/ (\E e \in Entry : CheckEntry(e)) \/ TrustEntry \/ Loaded \/ Enable
           \/ \E p \in Path, f \in Program : Edit(p, f)
  BY <1>1 DEF vars, Start, CheckEntry, TrustEntry, Loaded, Enable, Edit
<1>2. CASE Stop
  BY <1>2, IdleTypes DEF Stop
<1>3. ASSUME NEW u \in Task, Serve(u), u # t PROVE task'[t] = task[t]
  <2>1. ASSUME NEW k \in Kind, NEW p \in Path, Decide(u, k, p) PROVE task'[t] = task[t]
    BY <1>3, <2>1, DecideLists DEF Aside
  <2>2. CASE Hash(u)
    BY <1>3, <2>2, HashLists DEF Aside
  <2>3. CASE ReadList(u)
    BY <1>3, <2>3, ReadChoice, ListedLists, EnterView DEF Aside
  <2>4. CASE Truncate(u)
    BY <1>3, <2>4, TruncateView
  <2>5. CASE Write(u)
    BY <1>3, <2>5, WriteView DEF Writes
  <2>6. CASE WriteFails(u)
    BY <1>3, <2>6 DEF WriteFails, SetTask, ListInv, TypeOK
  <2>7. CASE Answer(u)
    BY <1>3, <2>7, AnswerLists DEF Aside
  <2> QED BY <1>3, <2>1, <2>2, <2>3, <2>4, <2>5, <2>6, <2>7 DEF Serve
<1>4. CASE Serve(t)
  <2>1. ASSUME NEW k \in Kind, NEW p \in Path, Decide(t, k, p) PROVE FALSE
    BY <2>1 DEF Decide, SetTask, ListInv, TypeOK
  <2>2. CASE Hash(t)
    BY <2>2, IdleTypes DEF Hash, SetTask, ListInv, TypeOK
  <2>3. CASE ReadList(t)
    <3>1. Leaves(t)
      BY <2>3, ReadChoice, EnterView
    <3> QED BY <2>3, <3>1 DEF Leaves, SetTask, ListInv, TypeOK, Ends
  <2>4. CASE Truncate(t)
    BY <2>4, TruncateView
  <2>5. CASE Write(t)
    BY <2>5 DEF Write, MarkUneven, Ends
  <2>6. CASE WriteFails(t)
    BY <2>6 DEF WriteFails, SetTask, ListInv, TypeOK, Ends
  <2>7. CASE Answer(t)
    BY <2>7, IdleTypes DEF Answer, SetTask, ListInv, TypeOK
  <2> QED BY <1>4, <2>1, <2>2, <2>3, <2>4, <2>5, <2>6, <2>7 DEF Serve
<1> QED BY <1>1, <1>2, <1>3, <1>4 DEF Next

LEMMA EndSecure ==
  ASSUME ListInv, ListInv', [Next]_vars, NEW t \in Task, Ends(t), NEW k \in Kind, k = task[t].kind,
         NEW e, e = Entered(task[t])
  PROVE  Secure(k, e)'
<1>1. CASE ReadList(t) /\ Listed(task[t].path, file[k])
  <2>1. task[t].path \in Path /\ task[t].hash \in Content
    BY <1>1, TaskFields, HashedFields DEF ReadList, ListInv
  <2>2. Secure(k, e)
    BY <1>1, <2>1, ListedSecure
  <2> QED BY <2>2, SecureStays
<1>2. CASE Write(t) /\ damaged[k] = FALSE
  <2>1. Stored(k)' = Stored(k) \cup {e}
    BY <1>2, WrittenStored
  <2>2. e \in StoredOf(task', file', k)
    BY <2>1, StoredIs
  <2> QED BY <2>2 DEF Secure
<1>3. CASE damaged[k] = TRUE
  <2>1. Secure(k, e)
    BY <1>3 DEF Secure
  <2> QED BY <2>1, SecureStays
<1>4. CASE WriteFails(t)
  <2>1. damaged'[k] = TRUE
    BY <1>4 DEF WriteFails, ListInv, TypeOK
  <2> QED BY <2>1 DEF Secure
<1>5. damaged[k] \in BOOLEAN
  BY DEF ListInv, TypeOK
<1> QED BY <1>1, <1>2, <1>3, <1>4, <1>5 DEF Ends

LEMMA StepPromised == ASSUME ListInv, ListInv', Promised, [Next]_vars PROVE Promised'
<1>1. ASSUME NEW t \in Task, task'[t].pc = "done", NEW k, k = task'[t].kind, NEW e, e = Entered(task'[t])
      PROVE  Secure(k, e)'
  <2>1. CASE task'[t] = task[t]
    <3>1. k \in Kind
      BY <1>1, <2>1, TaskFields, HashedFields DEF ListInv
    <3>2. Secure(k, e)
      BY <1>1, <2>1 DEF Promised
    <3> QED BY <3>1, <3>2, SecureStays
  <2>2. CASE Ends(t) /\ task'[t] = AtEnd(task[t])
    <3>1. k = task[t].kind /\ e = Entered(task[t])
      BY <1>1, <2>2 DEF AtEnd, Entered
    <3>2. k \in Kind
      BY <2>2, <3>1, TaskFields, HashedFields, WritingFields
         DEF Ends, ReadList, Write, WriteFails, Writes, ListInv
    <3> QED BY <2>2, <3>1, <3>2, EndSecure
  <2> QED BY <1>1, <2>1, <2>2, DoneTasks
<1>2. ASSUME NEW d \in promised', NEW k, k = d.kind, NEW e, e = Entered(d) PROVE Secure(k, e)'
  <2>1. CASE d \in promised
    <3>1. k \in Kind /\ Secure(k, e)
      BY <1>2, <2>1 DEF ListInv, TypeOK, Decision, Promised
    <3> QED BY <3>1, SecureStays
  <2>2. ASSUME NEW t \in Task, Answer(t), d = [kind |-> task[t].kind, path |-> task[t].path, hash |-> task[t].hash]
        PROVE  Secure(k, e)'
    <3>1. task[t].pc = "done" /\ k = task[t].kind /\ k \in Kind /\ e = Entered(task[t])
      BY <1>2, <2>2, TaskFields, HashedFields DEF Answer, ListInv, Entered
    <3>2. Secure(k, e)
      BY <3>1 DEF Promised
    <3> QED BY <3>1, <3>2, SecureStays
  <2>3. d \in promised \/ \E t \in Task :
          Answer(t) /\ d = [kind |-> task[t].kind, path |-> task[t].path, hash |-> task[t].hash]
    <3>1. CASE \E t \in Task : Answer(t)
      BY <1>2, <3>1 DEF Answer
    <3>2. CASE ~ \E t \in Task : Answer(t)
      <4>1. promised' = promised
        BY <3>2 DEF Next, Serve, vars, Start, CheckEntry, TrustEntry, Loaded, Enable, Edit, Stop, Decide, Hash,
                    ReadList, Truncate, Write, WriteFails, historyVars
      <4> QED BY <1>2, <4>1
    <3> QED BY <3>1, <3>2
  <2> QED BY <2>1, <2>2, <2>3
<1> QED BY <1>1, <1>2 DEF Promised

LEMMA StepRemembered == ASSUME TypeOK, Remembered, [Next]_vars PROVE Remembered'
<1>1. CASE Start
  <2>1. CASE platform = "unix"
    BY <1>1, <2>1 DEF Start, Remembered
  <2>2. CASE platform # "unix"
    BY <1>1, <2>2 DEF Start, Remembered
  <2> QED BY <2>1, <2>2
<1>2. CASE Loaded
  BY <1>2 DEF Loaded, Remembered
<1>3. CASE (\E e \in Entry : CheckEntry(e)) \/ TrustEntry
  BY <1>3 DEF CheckEntry, TrustEntry, Remembered
<1>4. CASE Enable \/ Stop
  BY <1>4 DEF Enable, Stop, Remembered
<1>5. CASE UNCHANGED vars \/ \E p \in Path, f \in Program : Edit(p, f)
  BY <1>5 DEF vars, loadVars, Edit, Remembered
<1>6. CASE \E t \in Task : Serve(t)
  BY <1>6, ServeFrame DEF loadVars, Remembered
<1> QED BY <1>1, <1>2, <1>3, <1>4, <1>5, <1>6 DEF Next

(* The state after the start.                                              *)
LEMMA NoneServed == ASSUME TypeOK, agent = "loaded", NEW k PROVE StoredOf(task, file, k) = file[k]
<1>1. \A t \in Task : ~MidWrite(task[t], k)
  BY IdleTypes DEF TypeOK, MidWrite
<1> QED BY <1>1, StoredNone

LEMMA PromisesHold == PromiseInv => PromisesKept
<1> SUFFICES ASSUME PromiseInv, agent = "loaded", ~raced, NEW d \in promised, Enforceable(d),
                    damaged[d.kind] # TRUE, Entered(d) \notin missed[d.kind], ~Superseded(d)
             PROVE  InForce(d)
  BY Zenon DEF PromisesKept
<1>1. /\ d.kind \in Kind /\ d.path \in Path /\ d.hash \in Content
      /\ Entered(d).path = d.path /\ Entered(d).hash = d.hash
  BY EnteredTypes DEF PromiseInv, ListInv, TypeOK, Decision
<1>2. Entered(d) \in file[d.kind] \ missed[d.kind]
  <2>1. Secure(d.kind, Entered(d)) /\ ~Passed(d.kind, Entered(d))
    BY <1>1 DEF PromiseInv, Promised, Superseded, Passed
  <2> QED BY <2>1, NoneServed DEF Secure, PromiseInv, ListInv
<1>3. CASE platform = "windows"
  BY <1>1, <1>2, <1>3 DEF PromiseInv, Remembered, InForce
<1>4. ASSUME platform = "unix", d.kind = "allow", Holds(d.path, d.hash)
      PROVE  program[d.path].inode \in kernel
  <2>1. d.path \in Vouched(Read)
    BY <1>1, <1>2, <1>4 DEF Vouched, Read
  <2>2. program[d.path].inode \in InodesOf(Vouched(Read))
    BY <1>4, <2>1 DEF InodesOf, Holds
  <2>3. kernel = InodesOf(Owned) \cup InodesOf(Vouched(Read))
    BY <1>4, LoadedTrust DEF PromiseInv, LoadInv, ListInv
  <2> QED BY <2>2, <2>3
<1>5. platform \in {"unix", "windows"}
  BY TrustAssumption DEF PromiseInv, ListInv, TypeOK
<1> QED BY <1>3, <1>4, <1>5 DEF InForce, Enforceable

(* An allow decision on unix, and any decision on Windows, that was        *)
(* answered with success is in force again after every restart, unless its *)
(* list was damaged or could not be read, a program was being changed or   *)
(* could not be hashed, or another version of it was decided upon before   *)
(* (trust_cache.rs 180-217, 222-255, 349-420).                             *)
THEOREM PromisesAreKept == Spec => []PromisesKept
<1>1. Init => PromiseInv
  <2> SUFFICES ASSUME Init PROVE PromiseInv
    OBVIOUS
  <2>1. ListInv /\ Loading
    BY InitTypes, InitLists DEF ListInv, Init, Loading
  <2>2. \A t \in Task : task[t].pc # "done"
    BY IdleTypes DEF Init
  <2>3. promised = {} /\ agent = "down"
    BY DEF Init
  <2> QED BY <2>1, <2>2, <2>3 DEF PromiseInv, Promised, Remembered
<1>2. PromiseInv /\ [Next]_vars => PromiseInv'
  BY StepTypes, StepLists, StepLoading, StepPromised, StepRemembered DEF PromiseInv, ListInv, LoadInv
<1> QED BY <1>1, <1>2, PromisesHold, PTL DEF Spec
=============================================================================
