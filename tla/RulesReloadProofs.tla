-------------------------- MODULE RulesReloadProofs --------------------------
(***************************************************************************)
(* What is proved of RulesReload for every set of files, every history of  *)
(* databases and any number of commands: its types; that whatever reloads  *)
(* interleave, the files and directories of the rules in force end up in   *)
(* the kernel map; and that only reloads that cross leave old flags there  *)
(* or put older rules in place of newer ones.                              *)
(***************************************************************************)
EXTENDS RulesReload, TLAPS

(* The steps that touch neither the rules in force nor a registration.     *)
Quiet ==
    \/ BeginWrite \/ EndWrite \/ Rename \/ SetUpWatch
    \/ BeginRead \/ Suspend \/ ClosePopup \/ EndRead

(* A file that the rules list has flags, or a task is about to give them.  *)
FilesCovered ==
    \A f \in Listed(config) \cap Early :
        \/ kernel[f] # 0
        \/ \E t \in Loader : /\ loader[t].pc = "files" /\ loader[t].version = config
                             /\ f \in loader[t].todo

DirsCovered ==
    \/ DirsOf[config] \subseteq kernelDirs
    \/ loader["watcher"].version = config
    \/ loader["watcher"].pc \in {"loaded", "waiting"}
    \/ \E t \in Loader \ {"watcher"} :
          loader[t].pc \in {"files", "dirs"} /\ loader[t].version = config

(* A task registers only what the version it loaded lists.                 *)
TodoListed == \A t \in Loader : loader[t].pc = "files" => loader[t].todo \subseteq Listed(loader[t].version)

IInv == TypeOK /\ FilesCovered /\ DirsCovered /\ TodoListed /\ Early \subseteq present

-----------------------------------------------------------------------------
LEMMA ListedIsFile == ASSUME NEW v \in Version
                      PROVE  Listed(v) \subseteq File /\ \A f \in File : FlagsOf[v][f] \in Flag
  BY ReloadAssumption DEF Listed, Flag

LEMMA RegisteringRecord == ASSUME NEW v \in Version
                           PROVE  Registering(v) \in LoaderState
  BY ListedIsFile DEF Registering, LoaderState

LEMMA InitTypes == Init => TypeOK
<1> SUFFICES ASSUME Init PROVE TypeOK
  OBVIOUS
<1>1. 0 \in Version /\ 0 \in Flag
  BY ReloadAssumption DEF Version, Flag
<1>2. Registering(0) \in LoaderState /\ [pc |-> "idle", version |-> 0, todo |-> {}] \in LoaderState
  BY <1>1, RegisteringRecord DEF LoaderState
<1>3. loader \in [Loader -> LoaderState]
  BY <1>2 DEF Init
<1> QED BY <1>1, <1>3, ReloadAssumption DEF Init, TypeOK

(* One task's record changes to another record of a task.                  *)
LEMMA SetTypes == ASSUME TypeOK, NEW t \in Loader, NEW s \in LoaderState, SetLoader(t, s)
                  PROVE  /\ loader' \in [Loader -> LoaderState]
                         /\ loader'[t] = s
                         /\ \A u \in Loader \ {t} : loader'[u] = loader[u]
  BY DEF TypeOK, SetLoader

LEMMA LoaderRecord == ASSUME TypeOK, NEW t \in Loader
                      PROVE  /\ loader[t] \in LoaderState
                             /\ loader[t].version \in Version /\ loader[t].todo \in SUBSET File
                             /\ \A p \in {"idle", "asked", "loaded", "waiting", "files", "dirs"} :
                                  /\ [loader[t] EXCEPT !.pc = p] \in LoaderState
                                  /\ [loader[t] EXCEPT !.pc = p].pc = p
                                  /\ [loader[t] EXCEPT !.pc = p].version = loader[t].version
                                  /\ [loader[t] EXCEPT !.pc = p].todo = loader[t].todo
  BY DEF TypeOK, LoaderState

(* What each step of a reload does to the task that takes it.              *)
LEMMA GotoTypes == ASSUME TypeOK, NEW t \in Loader,
                          NEW p \in {"idle", "asked", "loaded", "waiting", "files", "dirs"}, Goto(t, p)
                   PROVE  /\ loader' \in [Loader -> LoaderState]
                          /\ loader'[t].pc = p /\ loader'[t].version = loader[t].version
                          /\ loader'[t].todo = loader[t].todo
                          /\ \A u \in Loader \ {t} : loader'[u] = loader[u]
<1> DEFINE s == [loader[t] EXCEPT !.pc = p]
<1>1. s \in LoaderState /\ s.pc = p /\ s.version = loader[t].version /\ s.todo = loader[t].todo
  BY LoaderRecord
<1>2. SetLoader(t, s)
  BY DEF Goto
<1> HIDE DEF s
<1> QED BY <1>1, <1>2, SetTypes

-----------------------------------------------------------------------------
(* Type correctness, one step per action.                                  *)

LEMMA StepTypes == ASSUME TypeOK, [Next]_vars PROVE TypeOK'
<1> USE ReloadAssumption
<1>w. "watcher" \in Loader /\ Command \subseteq Loader
  BY DEF Loader
<1>1. CASE BeginWrite \/ EndWrite \/ Rename
  <2>1. published' \in Version /\ notices' \in Nat /\ noticed' \in Version
    <3>1. CASE BeginWrite
      BY <3>1 DEF TypeOK, BeginWrite, Report
    <3>2. CASE EndWrite
      BY <3>2 DEF TypeOK, EndWrite, Publish, Report, Version
    <3>3. CASE Rename
      BY <3>3 DEF TypeOK, Rename, Publish, Report, Version
    <3> QED BY <1>1, <3>1, <3>2, <3>3
  <2>3. writing' \in BOOLEAN
    BY <1>1, Zenon DEF TypeOK, BeginWrite, EndWrite, Rename, Publish
  <2>2. writing' => published' < MaxVersion
    <3>1. CASE BeginWrite
      BY <3>1 DEF BeginWrite
    <3>2. CASE EndWrite
      BY <3>2, Zenon DEF EndWrite
    <3>3. CASE Rename
      BY <3>3, Zenon DEF Rename
    <3> QED BY <1>1, <3>1, <3>2, <3>3
  <2> QED BY <1>1, <2>1, <2>2, <2>3 DEF TypeOK, BeginWrite, EndWrite, Rename, kernelVars
<1>2. ASSUME NEW f \in File, Appear(f) PROVE TypeOK'
  BY <1>2 DEF TypeOK, Appear, kernelVars
<1>3. CASE Notice
  BY <1>3, <1>w, GotoTypes DEF TypeOK, Notice, diskVars, kernelVars
<1>4. ASSUME NEW c \in Command, Ask(c) PROVE TypeOK'
  BY <1>4, <1>w, GotoTypes DEF TypeOK, Ask, diskVars, kernelVars
<1>5. ASSUME NEW t \in Loader, Reload(t) PROVE TypeOK'
  <2>1. CASE Load(t)
    <3>1. [pc |-> "loaded", version |-> published, todo |-> {}] \in LoaderState
      BY DEF TypeOK, LoaderState
    <3> QED BY <2>1, <3>1, GotoTypes, SetTypes DEF TypeOK, Load, diskVars, kernelVars
  <2>2. CASE Request(t)
    BY <2>2, GotoTypes DEF TypeOK, Request, diskVars, kernelVars
  <2>3. CASE Swap(t)
    BY <2>3, LoaderRecord, RegisteringRecord, SetTypes DEF TypeOK, Swap, diskVars, kernelVars
  <2>4. CASE FilesDone(t)
    BY <2>4, GotoTypes DEF TypeOK, FilesDone, diskVars, kernelVars
  <2>5. CASE RegisterDirs(t)
    BY <2>5, GotoTypes, LoaderRecord DEF TypeOK, RegisterDirs, diskVars, kernelVars
  <2>6. ASSUME NEW f \in File, RegisterFile(t, f) PROVE TypeOK'
    <3> DEFINE s == [loader[t] EXCEPT !.todo = @ \ {f}]
    <3>1. s \in LoaderState
      BY LoaderRecord DEF LoaderState
    <3>2. loader' \in [Loader -> LoaderState]
      <4>1. SetLoader(t, s)
        BY <2>6, Zenon DEF RegisterFile
      <4> HIDE DEF s
      <4> QED BY <3>1, <4>1, SetTypes
    <3>3. kernel' \in [File -> Flag]
      BY <2>6, LoaderRecord, ListedIsFile DEF RegisterFile, TypeOK
    <3> QED BY <2>6, <3>2, <3>3 DEF TypeOK, RegisterFile, diskVars
  <2> QED BY <1>5, <2>1, <2>2, <2>3, <2>4, <2>5, <2>6 DEF Reload
<1>6. CASE BeginRead \/ Suspend \/ ClosePopup \/ EndRead
  BY <1>6 DEF TypeOK, BeginRead, Suspend, ClosePopup, EndRead, diskVars, kernelVars
<1>8. CASE SetUpWatch
  BY <1>8 DEF TypeOK, SetUpWatch, kernelVars
<1>7. CASE UNCHANGED vars
  BY <1>7 DEF TypeOK, vars, diskVars, kernelVars
<1> QED BY <1>1, <1>2, <1>3, <1>4, <1>5, <1>6, <1>7, <1>8 DEF Next

(* Every variable keeps its type, whatever the files, the versions and the *)
(* number of commands.                                                     *)
THEOREM ReloadTypes == Spec => []TypeOK
  BY InitTypes, StepTypes, PTL DEF Spec

-----------------------------------------------------------------------------
(* The registrations.  Each lemma takes one step of one task, or a step of *)
(* somebody else.                                                          *)

Others == Quiet \/ (\E f \in File : Appear(f)) \/ UNCHANGED vars

LEMMA OthersUnchanged == ASSUME Others PROVE UNCHANGED <<config, kernel, kernelDirs, loader>>
  BY DEF Others, Quiet, Appear, BeginWrite, EndWrite, Rename, SetUpWatch, BeginRead, Suspend,
         ClosePopup, EndRead, vars, diskVars, kernelVars

(* The steps that move a task on without swapping or registering.          *)
Moves(t) ==
    \/ t = "watcher" /\ Notice
    \/ t \in Command /\ Ask(t)
    \/ Load(t) \/ Request(t) \/ FilesDone(t)

LEMMA MovesTask ==
  ASSUME TypeOK, NEW t \in Loader, Moves(t)
  PROVE  /\ UNCHANGED <<config, kernel, kernelDirs>>
         /\ loader'[t].pc \in {"idle", "asked", "loaded", "waiting", "dirs"}
         /\ loader[t].pc = "files" => loader[t].todo = {}
         /\ \A u \in Loader \ {t} : loader'[u] = loader[u]
         /\ loader[t].pc \in {"files", "dirs"} /\ t # "watcher" =>
                 loader'[t].pc = "dirs" /\ loader'[t].version = loader[t].version
         /\ loader'[t].version # loader[t].version => loader'[t].pc = "loaded"
         /\ loader[t].pc \in {"loaded", "waiting"} => loader'[t].pc = "waiting"
<1>1. CASE t = "watcher" /\ Notice
  BY <1>1, GotoTypes DEF Notice, kernelVars
<1>2. CASE t \in Command /\ Ask(t)
  BY <1>2, GotoTypes DEF Ask, kernelVars
<1>3. CASE Load(t)
  <2>1. CASE writing
    BY <1>3, <2>1, GotoTypes DEF Load, kernelVars
  <2>2. CASE ~writing
    <3>1. [pc |-> "loaded", version |-> published, todo |-> {}] \in LoaderState
      BY DEF TypeOK, LoaderState
    <3> QED BY <1>3, <2>2, <3>1, SetTypes DEF Load, kernelVars
  <2> QED BY <2>1, <2>2
<1>4. CASE Request(t)
  BY <1>4, GotoTypes DEF Request, kernelVars
<1>5. CASE FilesDone(t)
  BY <1>5, GotoTypes DEF FilesDone, kernelVars
<1> QED BY <1>1, <1>2, <1>3, <1>4, <1>5 DEF Moves

LEMMA SwapTask ==
  ASSUME TypeOK, NEW t \in Loader, Swap(t)
  PROVE  /\ config' = loader[t].version /\ UNCHANGED <<kernel, kernelDirs>>
         /\ loader'[t].pc = "files" /\ loader'[t].version = loader[t].version
         /\ loader'[t].todo = Listed(loader[t].version)
         /\ \A u \in Loader \ {t} : loader'[u] = loader[u]
<1>1. Registering(loader[t].version) \in LoaderState
  BY LoaderRecord, RegisteringRecord
<1> QED BY <1>1, SetTypes DEF Swap, Registering, kernelVars

LEMMA RegisterTask ==
  ASSUME TypeOK, NEW t \in Loader, NEW f \in File, RegisterFile(t, f)
  PROVE  /\ UNCHANGED <<config, kernelDirs>>
         /\ loader'[t].pc = "files" /\ loader'[t].version = loader[t].version
         /\ loader'[t].todo = loader[t].todo \ {f}
         /\ \A u \in Loader \ {t} : loader'[u] = loader[u]
         /\ \A g \in File \ {f} : kernel'[g] = kernel[g]
         /\ kernel'[f] = IF f \in present THEN FlagsOf[loader[t].version][f] ELSE kernel[f]
<1> DEFINE s == [loader[t] EXCEPT !.todo = @ \ {f}]
<1>1. s \in LoaderState /\ s.pc = loader[t].pc /\ s.version = loader[t].version
      /\ s.todo = loader[t].todo \ {f}
  <2>1. loader[t] \in LoaderState
    BY LoaderRecord
  <2> QED BY <2>1 DEF LoaderState
<1>2. SetLoader(t, s)
  BY Zenon DEF RegisterFile
<1> HIDE DEF s
<1>3. loader'[t] = s /\ \A u \in Loader \ {t} : loader'[u] = loader[u]
  BY <1>1, <1>2, SetTypes
<1> QED BY <1>1, <1>3 DEF RegisterFile, TypeOK

LEMMA DirsTask ==
  ASSUME TypeOK, NEW t \in Loader, RegisterDirs(t)
  PROVE  /\ UNCHANGED <<config, kernel>>
         /\ kernelDirs' = kernelDirs \cup DirsOf[loader[t].version]
         /\ loader[t].pc = "dirs"
         /\ loader'[t].pc = "idle" /\ loader'[t].version = loader[t].version
         /\ \A u \in Loader \ {t} : loader'[u] = loader[u]
  BY GotoTypes DEF RegisterDirs

(* Every step is one of these.                                             *)
LEMMA Steps ==
  ASSUME [Next]_vars
  PROVE  \/ Others
         \/ \E t \in Loader : \/ Moves(t) \/ Swap(t) \/ RegisterDirs(t)
                              \/ \E f \in File : RegisterFile(t, f)
  BY DEF Next, Reload, Others, Quiet, Moves, Loader

-----------------------------------------------------------------------------
LEMMA StepTodo == ASSUME IInv, [Next]_vars PROVE TodoListed'
<1> USE DEF IInv
<1>1. CASE Others
  BY <1>1, OthersUnchanged DEF TodoListed, Listed
<1>2. ASSUME NEW t \in Loader, Moves(t) PROVE TodoListed'
  BY <1>2, MovesTask DEF TodoListed
<1>3. ASSUME NEW t \in Loader, Swap(t) PROVE TodoListed'
  BY <1>3, SwapTask DEF TodoListed
<1>4. ASSUME NEW t \in Loader, RegisterDirs(t) PROVE TodoListed'
  BY <1>4, DirsTask DEF TodoListed
<1>5. ASSUME NEW t \in Loader, NEW f \in File, RegisterFile(t, f) PROVE TodoListed'
  <2>1. loader[t].pc = "files"
    BY <1>5 DEF RegisterFile
  <2> QED BY <1>5, <2>1, RegisterTask DEF TodoListed
<1> QED BY <1>1, <1>2, <1>3, <1>4, <1>5, Steps

LEMMA StepFiles == ASSUME IInv, [Next]_vars PROVE FilesCovered'
<1> USE DEF IInv
<1>1. CASE Others
  BY <1>1, OthersUnchanged DEF FilesCovered
<1>2. ASSUME NEW t \in Loader, Moves(t) PROVE FilesCovered'
  BY <1>2, MovesTask DEF FilesCovered
<1>3. ASSUME NEW t \in Loader, Swap(t) PROVE FilesCovered'
  BY <1>3, SwapTask DEF FilesCovered
<1>4. ASSUME NEW t \in Loader, RegisterDirs(t) PROVE FilesCovered'
  BY <1>4, DirsTask DEF FilesCovered
<1>5. ASSUME NEW t \in Loader, NEW f \in File, RegisterFile(t, f) PROVE FilesCovered'
  <2>1. f \in Early => kernel'[f] # 0
    <3>1. f \in Listed(loader[t].version)
      BY <1>5 DEF RegisterFile, TodoListed
    <3> QED BY <1>5, <3>1, RegisterTask DEF Listed
  <2>2. ASSUME NEW g \in Listed(config') \cap Early, g # f
        PROVE  \/ kernel'[g] # 0
               \/ \E u \in Loader : /\ loader'[u].pc = "files" /\ loader'[u].version = config'
                                    /\ g \in loader'[u].todo
    <3>1. g \in Listed(config) \cap Early /\ g \in File /\ config' = config
      BY <1>5, <2>2, RegisterTask DEF Listed
    <3>2. CASE kernel[g] # 0
      BY <1>5, <2>2, <3>1, <3>2, RegisterTask
    <3>3. ASSUME NEW u \in Loader, loader[u].pc = "files", loader[u].version = config,
                 g \in loader[u].todo
          PROVE  loader'[u].pc = "files" /\ loader'[u].version = config' /\ g \in loader'[u].todo
      BY <1>5, <2>2, <3>1, <3>3, RegisterTask
    <3> QED BY <3>1, <3>2, <3>3 DEF FilesCovered
  <2> QED BY <2>1, <2>2 DEF FilesCovered
<1> QED BY <1>1, <1>2, <1>3, <1>4, <1>5, Steps

LEMMA StepDirs == ASSUME IInv, [Next]_vars PROVE DirsCovered'
<1> USE DEF IInv
<1>w. "watcher" \in Loader
  BY DEF Loader
<1>1. CASE Others
  BY <1>1, OthersUnchanged DEF DirsCovered
<1>2. ASSUME NEW t \in Loader, Moves(t) PROVE DirsCovered'
  <2>1. CASE t = "watcher"
    BY <1>2, <2>1, <1>w, MovesTask DEF DirsCovered
  <2>2. CASE t # "watcher"
    BY <1>2, <2>2, <1>w, MovesTask DEF DirsCovered
  <2> QED BY <2>1, <2>2
<1>3. ASSUME NEW t \in Loader, Swap(t) PROVE DirsCovered'
  BY <1>3, <1>w, SwapTask DEF DirsCovered
<1>4. ASSUME NEW t \in Loader, RegisterDirs(t) PROVE DirsCovered'
  <2>1. CASE loader[t].version = config
    BY <1>4, <2>1, DirsTask DEF DirsCovered
  <2>2. CASE loader[t].version # config
    BY <1>4, <2>2, <1>w, DirsTask DEF DirsCovered
  <2> QED BY <2>1, <2>2
<1>5. ASSUME NEW t \in Loader, NEW f \in File, RegisterFile(t, f) PROVE DirsCovered'
  <2>1. loader[t].pc = "files"
    BY <1>5 DEF RegisterFile
  <2> QED BY <1>5, <2>1, <1>w, RegisterTask DEF DirsCovered
<1> QED BY <1>1, <1>2, <1>3, <1>4, <1>5, Steps

LEMMA InitInv == Init => IInv
<1> SUFFICES ASSUME Init PROVE IInv
  OBVIOUS
<1>1. "startup" \in Loader /\ "watcher" \in Loader
  BY DEF Loader
<1>2. /\ loader["startup"].pc = "files" /\ loader["startup"].version = 0
      /\ loader["startup"].todo = Listed(0)
  BY <1>1 DEF Init, Registering
<1>3. \A t \in Loader \ {"startup"} : loader[t].pc = "idle"
  BY DEF Init
<1>4. TodoListed
  BY <1>2, <1>3 DEF TodoListed
<1>5. FilesCovered /\ DirsCovered
  BY <1>1, <1>2 DEF FilesCovered, DirsCovered, Init
<1> QED BY <1>4, <1>5, InitTypes DEF IInv, Init

LEMMA StepInv == ASSUME IInv, [Next]_vars PROVE IInv'
<1>1. Early \subseteq present'
  <2>1. UNCHANGED present \/ \E f \in File : Appear(f)
    BY DEF Next, Reload, BeginWrite, EndWrite, Rename, SetUpWatch, Notice, Ask, Load,
           Request, Swap, RegisterFile, FilesDone, RegisterDirs, BeginRead, Suspend,
           ClosePopup, EndRead, vars, diskVars
  <2> QED BY <2>1 DEF IInv, Appear
<1> QED BY <1>1, StepTypes, StepTodo, StepFiles, StepDirs DEF IInv

(* However the start-up, the watcher and the commands interleave, once     *)
(* they are through, the files the rules in force list, and the protected  *)
(* directories unless the watcher loaded them, are in the kernel map       *)
(* (src/src/lib.rs 146-172, 224-261; src/src/control.rs 202-242).          *)
THEOREM ReloadRegisters == Spec => []EveryRuleRegistered
<1>1. IInv => EveryRuleRegistered
  <2> SUFFICES ASSUME IInv, Settled PROVE EveryRuleRegistered
    BY DEF EveryRuleRegistered
  <2>1. "watcher" \in Loader /\ \A t \in Loader : loader[t].pc = "idle"
    BY DEF Settled, Loader
  <2> QED BY <2>1 DEF IInv, FilesCovered, DirsCovered, EveryRuleRegistered
<1> QED BY <1>1, InitInv, StepInv, PTL DEF Spec

-----------------------------------------------------------------------------
(* Reloads that do not cross.  While none has crossed, whoever registers   *)
(* is at the rules in force, and whoever is about to swap has rules that   *)
(* are no older; a listed file has its flags, or somebody is about to give *)
(* them.                                                                   *)
OneVersion ==
    ~crossed => \A t \in Loader : loader[t].pc \in {"files", "dirs"} => loader[t].version = config

NoneNewer ==
    /\ config <= published
    /\ \A t \in Loader : loader[t].version <= published

SwapsForward ==
    ~crossed => \A t \in Loader : loader[t].pc \in {"loaded", "waiting"} => config <= loader[t].version

FlagsCovered ==
    ~crossed =>
        \/ \E t \in Loader : loader[t].pc \in {"loaded", "waiting"}
        \/ \A f \in Listed(config) \cap Early :
              \/ kernel[f] = FlagsOf[config][f]
              \/ \E t \in Loader : /\ loader[t].pc = "files" /\ loader[t].version = config
                                   /\ f \in loader[t].todo

CrossInv == IInv /\ OneVersion /\ NoneNewer /\ SwapsForward /\ FlagsCovered

(* What the steps do to the history, beside what was said above.           *)
LEMMA OthersHistory ==
  ASSUME TypeOK, Others
  PROVE  UNCHANGED crossed /\ published' \in Nat /\ published' >= published
  BY ReloadAssumption
     DEF Others, Quiet, Appear, BeginWrite, EndWrite, Publish, Rename, SetUpWatch, BeginRead,
         Suspend, ClosePopup, EndRead, TypeOK, Version, vars, diskVars

LEMMA LoaderPc == ASSUME TypeOK, NEW t \in Loader
                  PROVE  loader[t].pc \in {"idle", "asked", "loaded", "waiting", "files", "dirs"}
  BY DEF TypeOK, LoaderState

LEMMA LoadTask ==
  ASSUME TypeOK, NEW t \in Loader, Load(t)
  PROVE  /\ loader[t].pc = "asked" /\ UNCHANGED published
         /\ \A u \in Loader \ {t} : loader'[u] = loader[u]
         /\ \/ /\ loader'[t].pc = "idle" /\ loader'[t].version = loader[t].version
               /\ UNCHANGED crossed
            \/ /\ loader'[t].pc = "loaded" /\ loader'[t].version = published
               /\ ~crossed' => \/ ~crossed
                               \/ \A u \in Loader \ {t} : loader[u].pc \in {"idle", "asked"}
<1>1. [pc |-> "loaded", version |-> published, todo |-> {}] \in LoaderState
  BY DEF TypeOK, LoaderState
<1>2. CASE writing
  BY <1>2, GotoTypes DEF Load, diskVars
<1>3. CASE ~writing
  <2>1. Alone(t) => \A u \in Loader \ {t} : loader[u].pc \in {"idle", "asked"}
    BY LoaderPc DEF Alone, Busy
  <2>2. ~crossed' => ~crossed \/ Alone(t)
    BY <1>3, Zenon DEF Load
  <2> QED BY <1>1, <1>3, <2>1, <2>2, SetTypes DEF Load, diskVars
<1> QED BY <1>2, <1>3

Walks(t) == Moves(t) /\ ~Load(t)

LEMMA WalksTask ==
  ASSUME TypeOK, NEW t \in Loader, Walks(t)
  PROVE  /\ UNCHANGED <<published, crossed>>
         /\ loader'[t].version = loader[t].version
         /\ loader'[t].pc \in {"loaded", "waiting"} => loader[t].pc = "loaded"
         /\ loader[t].pc \in {"loaded", "waiting"} => loader'[t].pc = "waiting"
         /\ loader'[t].pc \in {"files", "dirs"} => loader[t].pc = "files"
         /\ \A u \in Loader \ {t} : loader'[u] = loader[u]
<1>1. CASE t = "watcher" /\ Notice
  BY <1>1, GotoTypes DEF Notice, diskVars
<1>2. CASE t \in Command /\ Ask(t)
  BY <1>2, GotoTypes DEF Ask, diskVars
<1>3. CASE Request(t)
  BY <1>3, GotoTypes DEF Request, diskVars
<1>4. CASE FilesDone(t)
  BY <1>4, GotoTypes DEF FilesDone, diskVars
<1> QED BY <1>1, <1>2, <1>3, <1>4 DEF Walks, Moves

LEMMA WorkHistory ==
  ASSUME TypeOK, NEW t \in Loader
  PROVE  /\ Swap(t) => /\ loader[t].pc = "waiting" /\ UNCHANGED published
                       /\ ~crossed' => /\ ~crossed
                                       /\ \A u \in Loader \ {t} : loader[u].pc \in {"idle", "asked"}
         /\ RegisterDirs(t) => UNCHANGED <<crossed, published>>
         /\ \A f \in File : RegisterFile(t, f) =>
                UNCHANGED <<crossed, published>> /\ loader[t].pc = "files" /\ f \in loader[t].todo
<1>1. Alone(t) => \A u \in Loader \ {t} : loader[u].pc \in {"idle", "asked"}
  BY LoaderPc DEF Alone, Busy
<1>2. Swap(t) /\ ~crossed' => ~crossed /\ Alone(t)
  BY Zenon DEF Swap
<1> QED BY <1>1, <1>2 DEF Swap, RegisterDirs, RegisterFile, diskVars

LEMMA CrossSteps ==
  ASSUME [Next]_vars
  PROVE  \/ Others
         \/ \E t \in Loader : \/ Load(t) \/ Walks(t) \/ Swap(t) \/ RegisterDirs(t)
                              \/ \E f \in File : RegisterFile(t, f)
  BY Steps DEF Walks

LEMMA StepNoneNewer == ASSUME CrossInv, [Next]_vars PROVE NoneNewer'
<1> USE DEF CrossInv, IInv, NoneNewer
<1>n. /\ config \in Nat /\ published \in Nat
      /\ \A t \in Loader : loader[t].version \in Nat
  <2>1. Version \subseteq Nat
    BY ReloadAssumption DEF Version
  <2>2. \A t \in Loader : loader[t].version \in Version
    BY LoaderRecord
  <2> QED BY <2>1, <2>2 DEF TypeOK
<1>1. CASE Others
  BY <1>1, <1>n, OthersUnchanged, OthersHistory
<1>2. ASSUME NEW t \in Loader, Load(t) PROVE NoneNewer'
  BY <1>2, <1>n, LoadTask, MovesTask DEF Moves
<1>3. ASSUME NEW t \in Loader, Walks(t) PROVE NoneNewer'
  BY <1>3, <1>n, WalksTask, MovesTask DEF Walks
<1>4. ASSUME NEW t \in Loader, Swap(t) PROVE NoneNewer'
  BY <1>4, <1>n, SwapTask, WorkHistory
<1>5. ASSUME NEW t \in Loader, RegisterDirs(t) PROVE NoneNewer'
  BY <1>5, <1>n, DirsTask, WorkHistory
<1>6. ASSUME NEW t \in Loader, NEW f \in File, RegisterFile(t, f) PROVE NoneNewer'
  BY <1>6, <1>n, RegisterTask, WorkHistory
<1> QED BY <1>1, <1>2, <1>3, <1>4, <1>5, <1>6, CrossSteps

LEMMA StepOneVersion == ASSUME CrossInv, [Next]_vars PROVE OneVersion'
<1> USE DEF CrossInv, IInv, OneVersion
<1>1. CASE Others
  BY <1>1, OthersUnchanged, OthersHistory
<1>2. ASSUME NEW t \in Loader, Load(t) PROVE OneVersion'
  <2>1. UNCHANGED config
    BY <1>2, MovesTask DEF Moves
  <2> QED BY <1>2, <2>1, LoadTask
<1>3. ASSUME NEW t \in Loader, Walks(t) PROVE OneVersion'
  BY <1>3, WalksTask, MovesTask DEF Walks
<1>4. ASSUME NEW t \in Loader, Swap(t) PROVE OneVersion'
  BY <1>4, SwapTask, WorkHistory
<1>5. ASSUME NEW t \in Loader, RegisterDirs(t) PROVE OneVersion'
  BY <1>5, DirsTask, WorkHistory
<1>6. ASSUME NEW t \in Loader, NEW f \in File, RegisterFile(t, f) PROVE OneVersion'
  BY <1>6, RegisterTask, WorkHistory
<1> QED BY <1>1, <1>2, <1>3, <1>4, <1>5, <1>6, CrossSteps

LEMMA StepForward == ASSUME CrossInv, [Next]_vars PROVE SwapsForward'
<1> USE DEF CrossInv, IInv, SwapsForward
<1>1. CASE Others
  BY <1>1, OthersUnchanged, OthersHistory
<1>2. ASSUME NEW t \in Loader, Load(t) PROVE SwapsForward'
  <2>1. UNCHANGED config
    BY <1>2, MovesTask DEF Moves
  <2> QED BY <1>2, <2>1, LoadTask DEF NoneNewer
<1>3. ASSUME NEW t \in Loader, Walks(t) PROVE SwapsForward'
  BY <1>3, WalksTask, MovesTask DEF Walks
<1>4. ASSUME NEW t \in Loader, Swap(t) PROVE SwapsForward'
  BY <1>4, SwapTask, WorkHistory
<1>5. ASSUME NEW t \in Loader, RegisterDirs(t) PROVE SwapsForward'
  BY <1>5, DirsTask, WorkHistory
<1>6. ASSUME NEW t \in Loader, NEW f \in File, RegisterFile(t, f) PROVE SwapsForward'
  BY <1>6, RegisterTask, WorkHistory
<1> QED BY <1>1, <1>2, <1>3, <1>4, <1>5, <1>6, CrossSteps

LEMMA StepFlags == ASSUME CrossInv, [Next]_vars PROVE FlagsCovered'
<1> USE DEF CrossInv, IInv
<1>1. CASE Others
  BY <1>1, OthersUnchanged, OthersHistory DEF FlagsCovered
<1>2. ASSUME NEW t \in Loader, Load(t) PROVE FlagsCovered'
  <2>1. UNCHANGED <<config, kernel>>
    BY <1>2, MovesTask DEF Moves
  <2> QED BY <1>2, <2>1, LoadTask DEF FlagsCovered
<1>3. ASSUME NEW t \in Loader, Walks(t) PROVE FlagsCovered'
  <2>1. UNCHANGED <<config, kernel>> /\ (loader[t].pc = "files" => loader[t].todo = {})
    BY <1>3, MovesTask DEF Walks
  <2> QED BY <1>3, <2>1, WalksTask DEF FlagsCovered
<1>4. ASSUME NEW t \in Loader, Swap(t) PROVE FlagsCovered'
  BY <1>4, SwapTask DEF FlagsCovered
<1>5. ASSUME NEW t \in Loader, RegisterDirs(t) PROVE FlagsCovered'
  BY <1>5, DirsTask, WorkHistory DEF FlagsCovered
<1>6. ASSUME NEW t \in Loader, NEW f \in File, RegisterFile(t, f) PROVE FlagsCovered'
  <2> SUFFICES ASSUME ~crossed, \A u \in Loader : loader'[u].pc \notin {"loaded", "waiting"},
                      NEW g \in Listed(config) \cap Early
               PROVE  \/ kernel'[g] = FlagsOf[config][g]
                      \/ \E u \in Loader : /\ loader'[u].pc = "files" /\ loader'[u].version = config
                                           /\ g \in loader'[u].todo
    BY <1>6, RegisterTask, WorkHistory DEF FlagsCovered
  <2>1. loader[t].pc = "files" /\ loader[t].version = config
    BY <1>6, WorkHistory DEF OneVersion
  <2>2. \A u \in Loader : loader[u].pc \notin {"loaded", "waiting"}
    BY <1>6, <2>1, RegisterTask
  <2>3. g \in File /\ g \in present
    BY DEF Listed
  <2>4. CASE g = f
    BY <1>6, <2>1, <2>3, <2>4, RegisterTask
  <2>5. CASE g # f
    <3>1. \/ kernel[g] = FlagsOf[config][g]
          \/ \E u \in Loader : /\ loader[u].pc = "files" /\ loader[u].version = config
                               /\ g \in loader[u].todo
      BY <2>2 DEF FlagsCovered
    <3> QED BY <1>6, <2>3, <2>5, <3>1, RegisterTask
  <2> QED BY <2>4, <2>5
<1> QED BY <1>1, <1>2, <1>3, <1>4, <1>5, <1>6, CrossSteps

LEMMA InitCross == Init => CrossInv
<1> SUFFICES ASSUME Init PROVE CrossInv
  OBVIOUS
<1>1. "startup" \in Loader
  BY DEF Loader
<1>2. /\ loader["startup"].pc = "files" /\ loader["startup"].version = 0
      /\ loader["startup"].todo = Listed(0)
  BY <1>1 DEF Init, Registering
<1>3. \A t \in Loader \ {"startup"} : loader[t].pc = "idle" /\ loader[t].version = 0
  BY DEF Init
<1>4. OneVersion /\ NoneNewer /\ SwapsForward /\ FlagsCovered
  BY <1>1, <1>2, <1>3 DEF Init, OneVersion, NoneNewer, SwapsForward, FlagsCovered
<1> QED BY <1>4, InitInv DEF CrossInv

LEMMA StepCross == ASSUME CrossInv, [Next]_vars PROVE CrossInv'
<1>1. IInv'
  BY StepInv DEF CrossInv
<1> QED BY <1>1, StepNoneNewer, StepOneVersion, StepForward, StepFlags DEF CrossInv

(* Once no reload is under way, a listed file has in the kernel map the    *)
(* flags of the rules in force, unless two reloads crossed since one ran   *)
(* alone: the lock around the swap alone would not do it (src/src/lib.rs   *)
(* 146-172, src/src/control.rs 202-242).                                   *)
THEOREM ReloadFlags == Spec => []FlagsAreCurrent
<1>1. CrossInv => FlagsAreCurrent
  BY DEF CrossInv, FlagsCovered, FlagsAreCurrent, Settled
<1> QED BY <1>1, InitCross, StepCross, PTL DEF Spec

(* Newer rules give way to older ones only in a reload that crossed        *)
(* another (src/src/lib.rs 149-152, src/src/control.rs 206-209).           *)
THEOREM ReloadForward == Spec => RulesNeverGoBack
<1>1. ASSUME CrossInv, [Next]_vars PROVE [config' >= config \/ crossed']_vars
  <2>n. config \in Nat
    BY <1>1, ReloadAssumption DEF CrossInv, IInv, TypeOK, Version
  <2>1. ASSUME NEW t \in Loader, Swap(t) PROVE config' >= config \/ crossed'
    BY <1>1, <2>1, <2>n, SwapTask, WorkHistory DEF CrossInv, IInv, SwapsForward
  <2>2. ASSUME ~(\E t \in Loader : Swap(t)) PROVE config' = config
    BY <1>1, <2>2, Steps, OthersUnchanged, MovesTask, RegisterTask, DirsTask DEF CrossInv, IInv
  <2> QED BY <2>n, <2>1, <2>2
<1> QED BY <1>1, InitCross, StepCross, PTL DEF Spec, RulesNeverGoBack
=============================================================================
