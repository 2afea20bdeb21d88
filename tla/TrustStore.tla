------------------------------ MODULE TrustStore ------------------------------
(***************************************************************************)
(* The user's allow and deny lists (src/src/trust_cache.rs) and the tasks  *)
(* that change them: AllowProcessTree and DenyProcessTree (src/src/        *)
(* control.rs 311-370) and the answer to a desktop prompt (src/src/        *)
(* heuristics.rs 1020-1039).  Each list is a JSON file that a task reads   *)
(* whole, changes and writes whole, with no lock and in place: the file is *)
(* truncated, then written.  The agent reads the lists when it starts.     *)
(*                                                                         *)
(* A file that is missing, empty, cut short or overwritten unevenly does   *)
(* not parse and reads as the empty list, so `file` holds what a reader    *)
(* gets; and a reader whose read fails gets the empty list from a file     *)
(* that is intact.  The kernel's map of trusted inodes is loaded by the    *)
(* agent and goes with it.                                                 *)
(*                                                                         *)
(* History: `damaged`, an accident befell a list; `raced`, a program       *)
(* changed while the agent was starting; `missed`, the entries that this   *)
(* start could not read, or whose program it could not hash; `promised`,   *)
(* the decisions that were answered with success; `ever`, those that were  *)
(* to be written.                                                          *)
(*                                                                         *)
(* Operators named Faulty... are plausible regressions; nothing uses them. *)
(***************************************************************************)
EXTENDS Naturals, FiniteSets

CONSTANTS
    Path, Content, Inode,
    Owned,        \* paths verify_package_integrity accepts: a package's or root's
    Installed,    \* path -> the program there at first
    Task,         \* command connections and prompts
    Platforms,    \* the builds considered, of "unix" and "windows"
    MaxEdits,     \* bound: changes of a program
    MaxDecisions, \* bound: requests
    MaxStops      \* bound: times the agent stops

Kind == {"allow", "deny"}
NoFile == [inode |-> 0, content |-> "none"]
Program == [inode : Inode, content : Content] \cup {NoFile}
Entry == [path : Path, hash : Content]

ASSUME TrustAssumption ==
    /\ 0 \notin Inode /\ "none" \notin Content
    /\ Owned \subseteq Path
    /\ Installed \in [Path -> Program]
    /\ Platforms \subseteq {"unix", "windows"}
    /\ MaxEdits \in Nat /\ MaxDecisions \in Nat /\ MaxStops \in Nat

VARIABLES
    platform,   \* the build that runs
    program,    \* path -> the file there, or NoFile
    file,       \* kind -> the decisions a reader of that list gets
    agent,      \* "down", "loading", "loaded", "up" (LSM blocking enabled)
    todo,       \* entries of the allow list not looked at yet while loading
    checked,    \* paths whose hash was found right and whose inode is read next
    kernel,     \* inodes given to add_trusted_exec_inode
    memory,     \* kind -> ALLOWLIST, DENYLIST: None, here {}, on unix
    task,       \* task -> the request it serves and where it stands
    damaged, raced, missed, promised, ever,   \* history, see above
    edits, decisions, stops

loadVars == <<agent, todo, checked, missed>>
historyVars == <<damaged, raced, promised, ever>>
vars == <<platform, program, file, loadVars, kernel, memory, task, historyVars, edits, decisions, stops>>

Idle == [pc |-> "idle"]
Request == [pc : {"hash"}, kind : Kind, path : Path]
Hashed == [pc : {"read", "done"}, kind : Kind, path : Path, hash : Content]
Writing == [pc : {"create", "write"}, kind : Kind, path : Path, hash : Content,
            list : SUBSET Entry, uneven : BOOLEAN]
Decision == [kind : Kind, path : Path, hash : Content]
Nothing == [k \in Kind |-> {}]

TypeOK ==
    /\ platform \in Platforms
    /\ program \in [Path -> Program]
    /\ file \in [Kind -> SUBSET Entry]
    /\ agent \in {"down", "loading", "loaded", "up"}
    /\ todo \in SUBSET Entry /\ checked \in SUBSET Path
    /\ missed \in [Kind -> SUBSET Entry]
    /\ kernel \in SUBSET Inode /\ memory \in [Kind -> SUBSET Content]
    /\ task \in [Task -> {Idle} \cup Request \cup Hashed \cup Writing]
    /\ agent # "up" => \A t \in Task : task[t] = Idle
    /\ platform = "unix" => \A k \in Kind : memory[k] = {}
    /\ damaged \in [Kind -> BOOLEAN] /\ raced \in BOOLEAN
    /\ promised \in SUBSET Decision /\ ever \in [Kind -> SUBSET Entry]
    /\ edits \in 0..MaxEdits /\ decisions \in 0..MaxDecisions /\ stops \in 0..MaxStops

Present(p) == program[p] # NoFile
Holds(p, c) == Present(p) /\ program[p].content = c
InodesOf(ps) == {program[p].inode : p \in {q \in ps : Present(q)}}
Listed(p, list) == \E e \in list : e.path = p

Init ==
    /\ platform \in Platforms
    /\ program = Installed
    /\ file = [k \in Kind |-> {}]
    /\ agent = "down" /\ todo = {} /\ checked = {} /\ missed = Nothing
    /\ kernel = {} /\ memory = [k \in Kind |-> {}]
    /\ task = [t \in Task |-> Idle]
    /\ damaged = [k \in Kind |-> FALSE] /\ raced = FALSE
    /\ promised = {} /\ ever = [k \in Kind |-> {}]
    /\ edits = 0 /\ decisions = 0 /\ stops = 0

-----------------------------------------------------------------------------
(* Programs change: written in place, replaced by another file, removed.   *)
Edit(p, f) ==
    /\ edits < MaxEdits /\ edits' = edits + 1
    /\ f # program[p]
    /\ f # NoFile => \A q \in Path \ {p} : program[q].inode # f.inode
    /\ program' = [program EXCEPT ![p] = f]
    /\ raced' = (raced \/ agent \in {"loading", "loaded"})
    /\ UNCHANGED <<platform, file, loadVars, kernel, memory, task, damaged, promised, ever, decisions, stops>>

-----------------------------------------------------------------------------
(* The start of the agent: initialize_trust_cache.                         *)

(* The scan of the system directories trusts what a package or root owns;  *)
(* then the allow list is read.  On Windows both lists go to memory.  What *)
(* cannot be read is passed over.                                          *)
Start ==
    /\ agent = "down"
    /\ \E unread \in SUBSET Kind :
           missed' = [k \in Kind |-> IF k \in unread THEN file[k] ELSE {}]
    /\ IF platform = "unix"
       THEN /\ agent' = "loading" /\ todo' = file["allow"] \ missed'["allow"]
            /\ kernel' = InodesOf(Owned) /\ UNCHANGED memory
       ELSE /\ agent' = "loaded" /\ UNCHANGED <<todo, kernel>>
            /\ memory' = [k \in Kind |-> {e.hash : e \in file[k] \ missed'[k]}]
    /\ raced' = FALSE
    /\ UNCHANGED <<platform, program, file, checked, task, damaged, promised, ever, edits, decisions, stops>>

(* Whatever is at the path is taken for what was accepted.                 *)
FaultyCheckEntry(e) ==
    /\ agent = "loading" /\ checked = {} /\ e \in todo
    /\ todo' = todo \ {e}
    /\ checked' = IF Present(e.path) THEN {e.path} ELSE {}
    /\ UNCHANGED <<platform, program, file, agent, missed, kernel, memory, task, historyVars, edits, decisions, stops>>

(* One entry of the allow list: is the program still what was accepted?    *)
(* sha256sum may fail.                                                     *)
CheckEntry(e) ==
    /\ agent = "loading" /\ checked = {} /\ e \in todo
    /\ todo' = todo \ {e}
    /\ \/ /\ checked' = IF Holds(e.path, e.hash) THEN {e.path} ELSE {}
          /\ UNCHANGED missed
       \/ checked' = {} /\ missed' = [missed EXCEPT !["allow"] = @ \cup {e}]
    /\ UNCHANGED <<platform, program, file, agent, kernel, memory, task, historyVars, edits, decisions, stops>>

(* The path is looked up a second time, for the inode.                     *)
TrustEntry ==
    /\ agent = "loading" /\ checked # {}
    /\ checked' = {}
    /\ kernel' = kernel \cup InodesOf(checked)
    /\ UNCHANGED <<platform, program, file, agent, todo, missed, memory, task, historyVars, edits, decisions, stops>>

Loaded ==
    /\ agent = "loading" /\ todo = {} /\ checked = {}
    /\ agent' = "loaded"
    /\ UNCHANGED <<platform, program, file, todo, checked, missed, kernel, memory, task, historyVars, edits, decisions, stops>>

(* Blocking is enabled; only now are there events, prompts and commands.   *)
Enable ==
    /\ agent = "loaded" /\ agent' = "up" /\ missed' = Nothing
    /\ UNCHANGED <<platform, program, file, todo, checked, kernel, memory, task, historyVars, edits, decisions, stops>>

(* A crash, or Ctrl-C, which exits at once: the tasks are gone, the map    *)
(* and the memory too.  A file that was being written stays as it is.      *)
Stop ==
    /\ agent # "down" /\ stops < MaxStops /\ stops' = stops + 1
    /\ agent' = "down" /\ todo' = {} /\ checked' = {} /\ missed' = Nothing
    /\ kernel' = {} /\ memory' = [k \in Kind |-> {}]
    /\ task' = [t \in Task |-> Idle]
    /\ damaged' = [k \in Kind |->
           damaged[k] \/ \E t \in Task : task[t].pc = "write" /\ task[t].kind = k]
    /\ UNCHANGED <<platform, program, file, raced, promised, ever, edits, decisions>>

-----------------------------------------------------------------------------
(* A decision.                                                             *)
SetTask(t, s) == task' = [task EXCEPT ![t] = s]

(* The process is looked up.  An allowed program's inode is trusted first. *)
Decide(t, kind, p) ==
    /\ agent = "up" /\ task[t] = Idle
    /\ decisions < MaxDecisions /\ decisions' = decisions + 1
    /\ kind = "allow" => Present(p)
    /\ SetTask(t, [pc |-> "hash", kind |-> kind, path |-> p])
    /\ kernel' = IF kind = "allow" /\ platform = "unix" THEN kernel \cup InodesOf({p}) ELSE kernel
    /\ UNCHANGED <<platform, program, file, loadVars, memory, historyVars, edits, stops>>

(* sha256sum reads the program, or fails.  Without a hash nothing else is  *)
(* done, and the administrator is told of a success all the same; not      *)
(* `promised`.                                                             *)
Hash(t) ==
    /\ task[t].pc = "hash"
    /\ LET d == task[t] IN
       \/ Present(d.path) /\ SetTask(t, [pc |-> "read", kind |-> d.kind, path |-> d.path,
                                         hash |-> program[d.path].content])
       \/ SetTask(t, Idle)
    /\ UNCHANGED <<platform, program, file, loadVars, kernel, memory, historyVars, edits, decisions, stops>>

(* Does `read`, which task t got for list k, miss what is in the file or   *)
(* what another task has read the list to write there?                     *)
Misses(t, k, read) ==
    \/ read # file[k]
    \/ \E u \in Task \ {t} : task[u].pc \in {"create", "write"} /\ task[u].kind = k

AtEnd(d) == [pc |-> "done", kind |-> d.kind, path |-> d.path, hash |-> d.hash]
Entered(d) == [path |-> d.path, hash |-> d.hash]

(* What was read goes back to the file with the new decision.              *)
Enter(t, read) ==
    LET d == task[t] IN
    /\ SetTask(t, [pc |-> "create", kind |-> d.kind, path |-> d.path, hash |-> d.hash,
                   list |-> read, uneven |-> FALSE])
    /\ damaged' = [damaged EXCEPT ![d.kind] = @ \/ Misses(t, d.kind, read)]
    /\ ever' = [ever EXCEPT ![d.kind] = @ \cup {Entered(d)}]

(* The list is read but not searched for the path.                         *)
FaultyReadList(t) ==
    /\ task[t].pc = "read"
    /\ \E read \in {file[task[t].kind], {}} : Enter(t, read)
    /\ UNCHANGED <<platform, program, file, loadVars, kernel, memory, raced, promised, edits, decisions, stops>>

(* A path that is in the list is left as it is, hash and all.  When the    *)
(* read fails the list is taken for empty.                                 *)
ReadList(t) ==
    /\ task[t].pc = "read"
    /\ \E read \in {file[task[t].kind], {}} :
          IF Listed(task[t].path, read)
          THEN SetTask(t, AtEnd(task[t])) /\ UNCHANGED <<damaged, ever>>
          ELSE Enter(t, read)
    /\ UNCHANGED <<platform, program, file, loadVars, kernel, memory, raced, promised, edits, decisions, stops>>

(* fs::write, first half: the file is truncated.                           *)
Truncate(t) ==
    /\ task[t].pc = "create"
    /\ SetTask(t, [task[t] EXCEPT !.pc = "write"])
    /\ file' = [file EXCEPT ![task[t].kind] = {}]
    /\ UNCHANGED <<platform, program, loadVars, kernel, memory, historyVars, edits, decisions, stops>>

Written(t) == task[t].list \cup {Entered(task[t])}

(* Other tasks that have the file open write over these bytes.             *)
MarkUneven(t) ==
    [u \in Task |->
        IF u = t THEN AtEnd(task[t])
        ELSE IF task[u].pc = "write" /\ task[u].kind = task[t].kind
        THEN [task[u] EXCEPT !.uneven = TRUE] ELSE task[u]]

(* The new decision is all that is written.                                *)
FaultyWrite(t) ==
    /\ task[t].pc = "write"
    /\ file' = [file EXCEPT ![task[t].kind] = {Entered(task[t])}]
    /\ task' = MarkUneven(t)
    /\ UNCHANGED <<platform, program, loadVars, kernel, memory, historyVars, edits, decisions, stops>>

(* Second half: over a longer text of another task, the result does not    *)
(* parse.                                                                  *)
Write(t) ==
    /\ task[t].pc = "write"
    /\ \E s \in {Written(t)} \cup (IF task[t].uneven THEN {{}} ELSE {}) :
           file' = [file EXCEPT ![task[t].kind] = s]
    /\ task' = MarkUneven(t)
    /\ UNCHANGED <<platform, program, loadVars, kernel, memory, historyVars, edits, decisions, stops>>

(* The file cannot be opened, as when the folder of the deny list does not *)
(* exist on unix, or not be written, as when the disk is full.  Nobody     *)
(* is told.                                                                *)
WriteFails(t) ==
    /\ task[t].pc \in {"create", "write"}
    /\ SetTask(t, AtEnd(task[t]))
    /\ damaged' = [damaged EXCEPT ![task[t].kind] = TRUE]
    /\ UNCHANGED <<platform, program, file, loadVars, kernel, memory, raced, promised, ever, edits, decisions, stops>>

(* The set in memory, where there is one, and the answer.                  *)
Answer(t) ==
    /\ task[t].pc = "done"
    /\ LET d == task[t] IN
       /\ memory' = IF platform = "windows" THEN [memory EXCEPT ![d.kind] = @ \cup {d.hash}]
                    ELSE memory
       /\ promised' = promised \cup {[kind |-> d.kind, path |-> d.path, hash |-> d.hash]}
    /\ SetTask(t, Idle)
    /\ UNCHANGED <<platform, program, file, loadVars, kernel, damaged, raced, ever, edits, decisions, stops>>

-----------------------------------------------------------------------------
Serve(t) ==
    \/ \E k \in Kind, p \in Path : Decide(t, k, p)
    \/ Hash(t) \/ ReadList(t) \/ Truncate(t) \/ Write(t) \/ WriteFails(t) \/ Answer(t)

Next ==
    \/ \E p \in Path, f \in Program : Edit(p, f)
    \/ Start \/ \E e \in Entry : CheckEntry(e)
    \/ TrustEntry \/ Loaded \/ Enable \/ Stop
    \/ \E t \in Task : Serve(t)

Spec == Init /\ [][Next]_vars

-----------------------------------------------------------------------------
(* Between the two halves of fs::write the list is what was read.          *)
Stored(k) ==
    IF \E t \in Task : task[t].pc = "write" /\ task[t].kind = k
    THEN task[CHOOSE t \in Task : task[t].pc = "write" /\ task[t].kind = k].list
    ELSE file[k]

AllowList == INSTANCE DecisionList
    WITH list <- Stored("allow"), ever <- ever["allow"], damaged <- damaged["allow"]
DenyList == INSTANCE DecisionList
    WITH list <- Stored("deny"), ever <- ever["deny"], damaged <- damaged["deny"]

(* Refinement.  The two files, read, truncated and rewritten whole by      *)
(* concurrent tasks (trust_cache.rs 222-255, 350-383), keep what a list of *)
(* decisions promises across edits, failures and restarts.  Damage is done *)
(* only by requests that overlap, by a stop between truncation and write,  *)
(* by a failed write, and by a failed read, after which the new decision   *)
(* is all that is written; even then no decision is invented.              *)
AllowListKept == AllowList!Spec
DenyListKept == DenyList!Spec

(* Safety.  After a start during which no program changed, the kernel      *)
(* trusts the system's programs and exactly those programs of the allow    *)
(* list that still are what was accepted, as far as the list could be read *)
(* and they could be hashed (trust_cache.rs 190-217).                      *)
TrustIsVerified ==
    agent = "loaded" /\ platform = "unix" /\ ~raced =>
        kernel = InodesOf(Owned)
                 \cup InodesOf({e.path : e \in {d \in file["allow"] \ missed["allow"] :
                                                Holds(d.path, d.hash)}})

(* The decisions that a start can put in force: on unix nothing reads the  *)
(* deny list (trust_cache.rs 347).                                         *)
Enforceable(d) == platform = "windows" \/ d.kind = "allow"

(* Is decision d in force after a start?                                   *)
InForce(d) ==
    /\ Enforceable(d)
    /\ IF platform = "windows" THEN d.hash \in memory[d.kind]
       ELSE Holds(d.path, d.hash) => program[d.path].inode \in kernel

(* Another version of the program was decided upon before.                 *)
Superseded(d) ==
    \E e \in ever[d.kind] : e.path = d.path /\ e.hash # d.hash

(* Safety.  An allow decision, or on Windows any decision, that was        *)
(* answered with success is in force again after every restart, unless its *)
(* list was damaged or could not be read, its program could not be hashed  *)
(* or was being changed, or another version of it was decided upon before. *)
PromisesKept ==
    agent = "loaded" /\ ~raced =>
        \A d \in promised :
            Enforceable(d) =>
                \/ damaged[d.kind] \/ Entered(d) \in missed[d.kind]
                \/ Superseded(d) \/ InForce(d)

(* "registered in persistent user denylist and terminated" (src/src/       *)
(* control.rs 364), "Load user persistent denylist and verify file         *)
(* integrity (Trust Level = 0)" (src/src/trust_cache.rs 57): a denial that *)
(* was answered with success is in force after a restart.                  *)
DeniedPermanently ==
    agent = "loaded" /\ ~raced =>
        \A d \in promised :
            d.kind = "deny" =>
                \/ damaged["deny"] \/ Entered(d) \in missed["deny"]
                \/ Superseded(d) \/ InForce(d)

(* "Process tree starting at PID {} permanently allowed and resumed"       *)
(* (src/src/control.rs 336).                                               *)
AllowedPermanently ==
    agent = "loaded" /\ ~raced =>
        \A d \in promised :
            d.kind = "allow" =>
                damaged["allow"] \/ Entered(d) \in missed["allow"] \/ InForce(d)
=============================================================================
