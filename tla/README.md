# Verification of the Kinnector agent

`src/` is the Kinnector agent, a user-space endpoint-protection daemon in Rust. A kernel
sensor reports what processes do; the agent keeps a state machine per process, decides, and
answers: it announces, suspends or kills. This directory holds TLA+ modules of it, TLC
configurations that check them on small instances, and theorems checked by TLAPS. Paths below
are relative to the crate's sources (`src/src/`) unless they begin with `src/`; lines are
those of the commit modelled.

## 1. Inventory

| Component (source) | State | Operations | Hard behaviour |
|---|---|---|---|
| Heuristics engine (`heuristics.rs`) | `process_map`, `children_map` (DashMaps), `path_velocity_map`, rules under an `RwLock`, alert sender | one handler per event type, `suspend_process_tree`, `terminate_threat_pkm`, `release_process_tree`, `kill_process_tree`, `purge_expired_states` | events, scans, prompts, clean-ups, purges and commands interleave; a suspension and a release are several unguarded steps on different threads, and the first may wait for a user; guards of DashMap shards held across calls; lookups by pid alone; pids used again |
| Launch classification (`process_create`) | local to the handler | eight questions about a launch, the scan, the Sigma rules | each question overrides earlier ones; the rules' lock is taken anew, `/proc` is read late |
| Start-up, consumer thread, purge loop (`lib.rs`) | the `mpsc` channel (capacity 4096) | load, register, receive and handle; purge every 5 s | the consumer is a plain thread without a Tokio context; a panic ends it and drops what is queued |
| Rules reload (`lib.rs`, `control.rs`) | `rules.db`, the version in force, inodes and directories in the kernel map | load, swap, register: at the start, from the file watcher, by ReloadRules | three tasks, no order between them; the file is watched only some time after it was loaded, or not at all; half-written files; the lock admits no reader while a writer waits |
| Administrator's commands (`control.rs`) | none of its own | Status, ReloadRules, ReleaseContainment, ListProcesses, ListRules, TrustOnce, AllowProcessTree, KillProcessTree, DenyProcessTree, Subscribe | run on the Tokio runtime, at any point between two events |
| Signals (`os_utils.rs`) | none | SIGSTOP, SIGCONT, SIGKILL by pid | reach whichever process has the pid *now* |
| Telemetry socket (`ipc.rs`) | authentication of a connection | handshake, fixed-size events, send into the channel | back-pressure; parts of events; resets; refused once the consumer is gone |
| Trust cache (`trust_cache.rs`) | allow and deny lists in JSON files; in memory on Windows only (on Unix the allow list goes to the kernel's map and the deny list is never read) | load, add | read-modify-write of a whole file, in place, by several tasks; a stop in the middle; a read that fails and is taken for an empty list; inode looked up after the hash |
| YARA scanner (`yara_scanner.rs`) | compiled rules, verdicts cached by hash | `scan_file` | the file is read twice; failures pass for clean |
| Sigma engine (`sigma_engine.rs`) | rules | match a launch | nested conditions, missing fields |
| Alert bus and log (`heuristics.rs`, `control.rs`) | broadcast channel of 100 (tokio rounds up to 128), `alerts.log` | write an alert, subscribe | a lagging subscriber is dropped; a line is two writes, from several tasks |
| TTY listener | a time stamp per pid | store | nothing reads what it stores |
| Clipboard helper, FFI, wire types | none | Windows message loop, declarations | none |

How they interact: the sensor's events come through the telemetry socket into the channel;
the *consumer thread* takes one after the other and runs its handler to the end. A handler may
`tokio::spawn` a YARA scan, a desktop prompt or (when an install ends) a clean-up two seconds
later; these tasks, the purge loop, the watcher of the rules and the command connections run
on the Tokio runtime and call back into the same engine, read the same rules and write the
same lists and log.

What makes each component correct:

* *engine*: a process that reads secrets and talks to the network is answered, in whatever
  order; a suspension holds until a decision; what is stopped can be released; only
  what is finished is forgotten, and everything finished is; only offenders are killed; install
  rules follow the real parent; audit mode touches nothing; an event is charged to its cause.
* *launch classification*: what is decided fits what was launched and one version of the rules.
* *consumer and purge loop*: every event is handled, every finished state is evicted.
* *rules reload*: what the rules in force list is watched, with their flags; newer rules are
  not replaced by older ones, and the newest come into force.
* *trust cache*: a start trusts what was accepted and is still the same; no accepted decision
  is lost and none invented.
* *telemetry socket*: no event of an unauthenticated peer, none reordered, lost or duplicated.
* *YARA cache*: the verdict under a hash is the verdict on content with that hash.
* *Sigma engine*: a rule matches exactly what its condition says.
* *alert bus*: a subscriber sees what was announced, in order and without a gap; the log too.

`PROJECT.json` lists the components with their status, and the hazards at their lines.

## 2. Modules

| Module | What it is |
|---|---|
| `Heuristics` | the engine, the consumer thread, purge loop, asynchronous tasks, commands, and the operating system as far as the engine sees it |
| `CaseFile` | what the engine promises of every process it tracks; `Heuristics` is shown to implement it |
| `RulesReload` | the three tasks that load rules, the lock around the rules with its queue, the file system they load from |
| `DecisionList`, `TrustStore` | what a list of decisions promises; the two files and the tasks that rewrite them, shown to implement it |
| `EventStream`, `Ingest` | what the engine may rely on of its events; sockets, tasks, channel and consumer thread, shown to implement it |
| `AlertBus` | the broadcast ring, its subscribers, the log |
| `Pipeline` | `Ingest` composed with `AlertBus`: from an event to the administrator's screen |
| `YaraCache` | a scan step by step, and the verdict cache |
| `SigmaRules` | evaluation of conditions, and a reference definition of it |
| `Launch` | `process_create` question by question, composed with `YaraCache` and `SigmaRules` |
| `MC...` | values of constants for TLC |
| `HeuristicsProofs`, `InstallProofs`, `ContainmentProofs` | theorems about `Heuristics` |
| `RulesReloadProofs`, `IngestProofs`, `TrustStoreProofs` | theorems about these modules |
| `PipelineProofs` | theorems about `AlertBus` and `Pipeline` |
| `LaunchProofs` | theorems about `YaraCache`, `SigmaRules` and `Launch` |

Operators named `Faulty...` stand beside the definition they would replace: plausible
regressions, used by nothing, under which TLC finds a property violated (the mutants of
`PROJECT.json`).

### Heuristics

| Variable | Code |
|---|---|
| `processMap`, `childrenMap` | `process_map`, `children_map`; keys are `ProcessKey` (pid, start time) |
| `queue` | the `mpsc` channel filled by `ipc.rs`, drained by `lib.rs` |
| `consumer` | the consumer thread: running, responding (inside `suspend_process_tree`), blocked on a lock for ever, or panicked |
| `purger` | the purge loop: running or blocked |
| `pinned` | shards of `process_map` whose read guard a blocked handler holds for ever |
| `yara`, `prompts`, `cleanups` | the tasks spawned and not yet ended |
| `responses` | calls of `suspend_process_tree` under way (905-1055): by the handler, by a handler within its iteration, or by a scan; about to wait for the popup, to stop, to announce |
| `releases` | releases under way (1102-1129, 1040-1049), by a command or a prompt's answer: the tree is resumed; about to reset, to announce |
| `clock`, `holder`, `sig` | the operating system: time, who has which pid, last signal sent to each process |
| `alerted`, `suspended` | history, for the properties: the last response announced; a suspension was begun since the last reset |

An action is a handler, up to the response it calls. A suspension and a release hold no lock
and go step by step: `BeginSuspension`, then `ClosePopup` if a tmux client is attached,
`SendStop`, `Announce` (which also asks on the desktop); `BeginRelease`, then `ResetDetection`
and, for a command, `AnnounceRelease`. Steps of several threads interleave at will (`Continue`);
the consumer takes no event before its own suspension is through. `TerminateThreat` and
`TerminateInstall` are the responses that kill. `Fork`, `Exit` and `Act` are the operating system
and the sensor: only a process that runs acts, only its events are queued. `Background` are
the tasks, `Administrator` the commands.

Three facts about the code shape the model:

* **Lookups go by pid.** Every handler scans the map for the first entry of the pid that is
  not terminated. `Live(p)` is the set of them and the handler takes any.
* **Children are written under one key and read under another.** `process_create` inserts a
  child under its claimed parent's pid with start time 0 (line 414); `collect_descendants`
  asks under the parent's real key. `DescendantPids` is a faithful translation and therefore
  empty for every real process: as built, a "tree" response reaches the root alone (run
  `tree_escapes`).
* **DashMap iterators keep their shard.** `process_stop` calls `get_mut` inside its own
  `iter()` (line 641). In dashmap 5.5.3, the version of `Cargo.lock`, the iterator still holds
  the shard's read guard. Likewise `tokio::spawn` panics on the consumer thread, which has no
  runtime (lines 577 and 1009; a scan is spawned on the handle of the runtime and is not affected).

The last fact would hide most of the engine behind its first `ProcessStop`, so two constants
say whether the defect is there: `IterPinsShard` and `ConsumerInRuntime`. As built they are
TRUE and FALSE (`reads`, `installs`, `stop_hangs`, `tree_escapes`); `desktop`, `reuse` and
`live` ask what the rest of the design does once both are repaired (FALSE and TRUE). The
theorems hold for either value.

A file is a model value with a set of categories; vendor rules, protected directories,
persistence paths are sets and relations given as constants. The launch verdict, the Sigma
answer, whether a session is active, what `/proc` says of a descriptor are free choices. A
deadline is a flag: the purge may take any entry that has one at any later time.

`CaseFile` is what remains of the engine when handlers, tasks and locks are taken away. Each
process has a case: `unseen` while its creation is awaited (the process has not started, or the
event is queued), `open` while its entry is live, `closed` once the entry is marked, `dropped` when
the entry is evicted or the creation was lost with the channel (`Stage`). Its evidence is the two
fields that detection puts together (`Evidence`), `answered` is `suspended`, and `over` are the
processes that were killed or have ended (`Over`). A step of the engine moves each case forward,
adds evidence, and answers the process when the evidence becomes complete; it closes only cases
of processes that are over. Evidence is taken back by a decision, of one process at a time, all
of it and together with the suspension. `CasesKept` is that specification under the mapping.

Assumptions:

* One `ProcessCreate` per process: an exec is not reported as a second creation.
* A process's events are queued in the order it caused them (`Ingest` shows that the socket,
  the channel and the consumer keep that order for each connection; there is one sensor).
* Start times are unique and greater than 0.
* Rules do not change during a run of this module (`RulesReload`, `Launch` say what changes do).
* A handler is atomic up to the suspension it begins, but for the locks it blocks on: the
  runtime threads touch an entry under one guard, and the consumer is the only thread that runs
  handlers. A kill is one step with the marks and the alert that follow it, since no signal
  undoes it. `ptrace_attach` calls the suspension from within its iterator, and keeps a shard for
  as long as that takes (`Held`): resets, clean-ups, trusts and the purge wait for it. (The
  guards of the rules' lock are in `RulesReload`, the steps of `process_create` in `Launch`.)
* One release of each kind at a time of a process (`BeginRelease`), unless an earlier one hangs.
* Only the agent stops and resumes processes.
* Unix. The Windows variants of the signals and prompts are not modelled.

### RulesReload

| Variable | Code |
|---|---|
| `published`, `writing`, `present` | `rules.db` (version n is the n-th published; half written or not) and the listed paths that exist |
| `watch` | the watch on the directory of `rules.db`: not set up yet, armed, or its set-up failed (`lib.rs` 96-117) |
| `notices` | the channel from the `notify` callback to the watcher, `lib.rs` 91-138 |
| `config` | `HeuristicsEngine::config`, by its version |
| `kernel`, `kernelDirs` | what `add_sensitive_inode` and the protected-directory call were given |
| `loader` | a task that loads: the start, the watcher, one per ReloadRules connection; program counter, version loaded, files left |
| `consumer` | the consumer thread's read guards: none, one, one while it waits in a popup, or asking for its second |
| `crossed` | history: a swap happened while another loader was busy, and no reload has run alone since |
| `noticed` | history: the newest version that the watch was there to see published |

`Load` fails while the database is half written (its signature does not verify) and leaves
everything as it is. `SetUpWatch` happens at any time after the start's load, or fails for good;
what is published before it gives no notice. `Request` and `Swap` are the two halves of `config.write()`: between them
the lock admits no new reader, so `BeginRead` waits, and so does the second guard that
`suspend_process_tree` asks for (line 980) while its caller still holds the first (298, 657); between
the two it may wait for a user to close its popup (944, `Suspend`, `ClosePopup`).
The watcher ends with the files, the other loaders go on with the directories.

### TrustStore and DecisionList

| Variable | Code |
|---|---|
| `program` | the programs on disk: inode and content (a SHA-256 stands for the content) |
| `file` | what a reader gets of `user_allowlist.json` and `user_denylist.json`: missing, truncated or garbled files read as empty |
| `agent`, `todo`, `checked` | the start: which entries of the list are still to be verified, and the one whose inode is looked up next |
| `kernel`, `memory` | `add_trusted_exec_inode`; the sets in memory (Windows) |
| `task` | a request: hashing, having read the list, having truncated the file, done |
| `missed` | history: the entries that this start could not read, or whose program it could not hash |
| `damaged`, `raced`, `promised`, `ever` | history, see the module's head |

`fs::write` is `Truncate` and `Write`; two tasks that have the file open at a time may leave
bytes that do not parse (`uneven`). A read that fails leaves the code with the empty list, which
it then writes back with the new decision alone (`ReadList`). `Stop` is a crash or Ctrl-C, at
any step. `DecisionList`
knows a list, the decisions ever made and whether an accident happened; `AllowListKept` and
`DenyListKept` are its specification under the mapping `list <- Stored(k)`, where `Stored` is the
file, or what its writer has read while it is truncated. An accident is an overlap of two
requests, a stop between truncation and write, a write that fails, or a read that fails where
there was something to read. `Enforceable` are the decisions a start can put in force: on Unix the code
never reads the deny list, so no denial is one, and `PromisesKept` is not about them;
`DeniedPermanently` is (section 5).

### Ingest, EventStream, AlertBus, Pipeline

| Variable | Code |
|---|---|
| `conn`, `token`, `reply` | the task of a connection in `handle_connection` (`ipc.rs` 117-173), its token and the byte sent back |
| `sent`, `left`, `read` | events written by the peer, peers that closed, events read by the task |
| `queue`, `current`, `handled`, `consumer` | the channel, the event in the handler, the last event taken up of each connection, the thread |
| `ring`, `announced` | the broadcast channel, and the history of what was sent on it |
| `log`, `logged`, `entangled` | `alerts.log` call by call; what was to be in it; producers that wrote at a time, or failed |
| `producer`, `subscriber` | a task inside `write_structured_alert`; a Subscribe connection |
| `said`, `spent` (`Pipeline`) | the current event's alert is out; bound on the tasks' alerts |

Events are numbered on their connection. `EventStream` has a trusted set and a counter per
connection: `EventsInOrder` says that what is handled of a trusted connection grows by one at a
time, up to what was written. In `Pipeline` the consumer thread is one of the bus's producers,
and its handler ends only when its alert is logged.

### YaraCache, SigmaRules, Launch

`YaraCache` has the file's `content`, the `cache` and a program counter and hash for each scan:
`TakeHash` (or `SkipScan`: no rules, or a file that is too large; or `HashFails`: no such file,
or `sha256sum` fails), `Lookup`, then `Judge` or `ScanFails`, with edits of the file in between.
Whatever fails passes for clean. `tainted` are the hashes under which another content was
judged, `hindered` the scans that had no hash, could not read or took more than 3 s.
`SigmaRules` evaluates trees, the members of the constant `Condition`; no tree is part of itself,
as in the code's `Vec<ConditionNode>`, which `Depth` says. `EvaluateNode` gives for a condition its
answer to every event (`Event`, the maps of fields that occur); `Satisfied` is the reference, by
alternatives. Both are recursive functions on `Condition`, so that the modules that use them
can be proved about.
`Launch` runs `process_create` in steps: `BeginLaunch` (place, inline code), `CheckExcluded`,
`CheckVendor`, `CheckDisplay`, `Finish` (interpreters, terminal, parent, map, scan, Sigma).
Between them the rules may be swapped, the process end (then `/proc` shows anything) and its
program change. `disturbed` and `changed` record that. A program in memory (no path, `memfd:...`,
`/proc/self/fd/N`) is not the file on disk: it may hold anything, and its scan ends in
`HashFails`; of one named `/proc/<pid>/fd/N` the agent may find the file. Every program counts as signed by one
vendor, as the code has it (249-253).

## 3. Runs

| Run | Instance | Shows |
|---|---|---|
| `reads` | engine as built; 2 pids, a file of another vendor and one of its own, verdicts and Sigma free, all commands | `DetectionReported`: forward and reverse path cover each other across resets. `ContainmentEnforced`: a process whose suspension was begun, and not cleared by a decision since, runs only before the stop or between the resume and the reset of a release. `StoppedIsReleasable`: what is stopped is found by the commands |
| `installs` | engine as built; 3 pids, an installer, children that claim pid 1 as parent, runtime socket, protected binary, crontab, registry | `TerminatedMeansGone`, `InstallContextInherited`, `OnlyOffendersKilled` |
| `desktop` | repaired; session present or not, up to 2 prompts for a process | `TypeOK`, `DetectionReported`, `ContainmentEnforced`, `StoppedIsReleasable` when answers come late, after a release, or twice; `CasesKept`: whichever decision it is, it clears one process, completely |
| `reuse` | repaired; a pid taken again while its last holder's events are queued | `ChargedToActor`, `TerminatedMeansGone`, `EvictsOnlyFinished`; `CasesKept`: two processes with one pid have a case each |
| `live` | repaired; installs, reads, writes, releases, a tmux client attached or not, with fairness | `FinishedStatesCleaned`, `UnauthorisedReadAnswered`, as long as the consumer is not left in a popup for ever (`PopupsClosed`) |
| `reload` | 2 files, one of which appears later, 1 directory, 3 versions with other files and flags, one command connection, nested guards, popups, a watch that comes late or never | `EveryRuleRegistered`, `FlagsAreCurrent`, `RulesNeverGoBack`, `NewestComesInForce`, `TypeOK` |
| `trust` | 2 programs (one the system's), 2 contents, 3 inodes, 2 tasks, 1 change of a program, 3 decisions, 1 stop, reads, writes and hashes that fail, both builds | `TrustIsVerified`, `PromisesKept`, `AllowListKept`, `DenyListKept` |
| `pipeline` | 1 connection, 2 events, channel of 1, ring of 1, the consumer and a task as producers, 1 administrator, panic and hang | `NoGap`, `LogFollowsBus`, `AlarmsAreShown`, `EventsInOrder`, `EventsAreHandled` |
| `launch` | 2 launches, 8 kinds of the first, one of them from memory, both builds, 3 contents (harmless, malicious, malicious and too large), 2 changes of the program, 2 versions of the rules, Sigma conditions with empty `And` and `Or`, rules that overlap | `CacheSound`, `ClassifiedAsLaunched`, `MalwareIsNotCleared`, `SigmaDecides` |
| `stop_hangs` | engine as built, with fairness | violation: the first ordinary stop hangs the consumer; nothing finished is cleaned up again |
| `tree_escapes` | engine as built | violation: a tracked child of a suspended process runs on |
| `reload_hangs` | one published database, no command, with fairness | violation: the reload and the consumer thread wait for each other; the database never comes into force |

*Why the bounds are enough.* Engine: handlers look at one entry, its parent and its tree; the
races are between one process, its successor under the same pid and one other party. Two or
three processes (`Pid`, and `MaxTime` for how many may ever start), a queue of two (an event
pending while another is handled) or three (`reuse`: stop and creation pending together) give
every such order; in `desktop`, where the interest is in decisions, one place is enough, since
the event handled has left the queue. A response is taken up where the handler ends, so a scan's
suspension, a handler's, a release by command and one by prompt can be under way at a time, of
one process or of two; that is every kind of thread there is. One file of each kind makes each
branch of a handler reachable. Two prompts show a prompt opened while another is open. The
safety runs have no tmux client (`Tmux = {FALSE}`): a popup does nothing but delay the stop,
which may come as late as one likes without it; `live` has both. `reload`: three
loaders are every kind there is; three versions let an older one follow a newer one and a flag change and change
back; the file that appears later separates what was there from what was not. `trust`: two
requests on one list overlap in every way, a third one meets the list they left; one stop at
any step gives a restart with every state of the file; one change falls before, between or
after hash and lookup. `pipeline`: with one place in channel and ring each is full or overrun
at once; that several connections do not disturb each other is proved (`IngestRefines`).
`launch`: each question is met alone and in the pairs that override each other, the second
launch finds what the first left in the cache; two changes spoil a verdict and restore the
content it belongs to; places that `/proc/<pid>/fd/N` names behave like volatile ones, but for
an alert, and are left to the theorems.

*Deadlock* is checked where the system cannot stop (`desktop`, `reuse`, `live`: the purge
loop always can run). `CHECK_DEADLOCK FALSE` stands where it really may: as built the consumer
and the purge loop end up blocked, and with no process left running nothing happens; reloads,
decisions, events, launches and changes are bounded in number, and after the last one the
other models rest.

*Fairness.* `Heuristics`: weak fairness of `HandleEvent` (the consumer thread loops on
`blocking_recv`; a handler ends at the response it calls), of the stop and the alert of each
response (`SendStop`, `Announce`), of a scan's end (it has a time limit of 3 s) and a clean-up's
(it sleeps 2 s), and of evicting a given entry whose deadline is over (the purge runs every 5 s
and retains no expired entry). None is assumed of processes, users or administrators. A popup
(944) keeps the consumer until a user closes it, and every event waits behind it: what is
promised then is promised under the premise `PopupsClosed`, written into the two properties, that
the consumer is out of popups again and again. `UnauthorisedReadAnswered` has the escape that the
process may be gone by then. `RulesReload`: the watch is set up or fails, the watcher takes its
notifications, a task that has begun a reload goes on, a handler that neither is blocked nor
waits in a popup ends; that popups are closed is the premise of its liveness properties too, and
nobody promises that a database is published or that a writer comes to its end. `Ingest` and
`Pipeline`: the tasks of the runtime and the thread go on; for `Send` strong fairness, since the
channel's semaphore serves waiting senders in turn; an administrator is fair only if `Attentive`.
`TrustStore` and `Launch` have safety properties alone.

## 4. Proofs

For all values of the constants that the modules' assumptions allow:

| Theorem (module) | Statement | Assumes |
|---|---|---|
| `TypeCorrect` (`HeuristicsProofs`) | `Spec => []TypeOK` | |
| `Detection` | `Spec => []DetectionReported` | |
| `AuditSignals` | `Spec => []AuditSendsNoSignal` | |
| `TerminatedIsGone` | `Spec => []TerminatedMeansGone` | `AuditMode = FALSE` |
| `EvictionIsSafe` | `Spec => EvictsOnlyFinished` | `AuditMode = FALSE` |
| `InstallIsInherited` (`InstallProofs`) | `Spec => []InstallContextInherited` | `PidReuse = FALSE` |
| `OnlyOffenders` | `Spec => []OnlyOffendersKilled` | `PidReuse = FALSE`, `Gui \subseteq {FALSE}` |
| `ChargesFollowCauses` | `Spec => ChargedToActor` | `Installer = {}` |
| `StoppedCanBeReleased` (`ContainmentProofs`) | `Spec => []StoppedIsReleasable` | `AuditMode = FALSE`, `PidReuse = FALSE` |
| `ContainedIsHeld` | `Spec => []ContainmentEnforced` | `PidReuse = FALSE` |
| `CasesRefined` | `Spec => CasesKept` (refinement) | `AuditMode = FALSE` |
| `ReloadTypes` (`RulesReloadProofs`) | `Spec => []TypeOK` | |
| `ReloadRegisters` | `Spec => []EveryRuleRegistered` | |
| `ReloadFlags` | `Spec => []FlagsAreCurrent` | |
| `ReloadForward` | `Spec => RulesNeverGoBack` | |
| `IngestRefines` (`IngestProofs`) | `IngestSpec => EventsInOrder` (refinement) | |
| `SubscribersMissNothing` (`PipelineProofs`) | `Spec => []NoGap` | |
| `LogIsWhole` | `Spec => []LogFollowsBus` | |
| `PipelineRefines` | `Spec => EventsInOrder` (refinement) | |
| `YaraCacheSound` (`LaunchProofs`) | `YaraSpec => []CacheSound` | |
| `LaunchScans` | `Spec => YaraSpec` (refinement) | |
| `LaunchClassified` | `Spec => []ClassifiedAsLaunched` | |
| `MalwareIsHeld` | `Spec => []MalwareIsNotCleared` | |
| `SigmaIsExact` | `Spec => []SigmaDecides` | |
| `StartVerifies` (`TrustStoreProofs`) | `Spec => []TrustIsVerified` | |
| `PromisesAreKept` | `Spec => []PromisesKept` | |
| `AllowListRefines`, `DenyListRefines` | `Spec => AllowListKept`, `Spec => DenyListKept` (refinement) | |

with the type theorems `IngestTypes`, `YaraTypes` and `TrustTypes` they rest on.

*Engine, types* go handler by handler; a lemma for each shared operator (`Signalled`,
`Marked`, `Reset`, the start of a suspension, a termination) says what it returns.

*Detection* is inductive by itself, given types: an entry becomes suspicious only in
`file_read` or `network_connect`, each of which then begins to suspend it, and what takes a
process out of `suspended` resets the entry in the same step. A release whose entry is gone by
the time of its reset takes nobody out.

*Audit* needs that no prompt is open: the answer of an unanswered prompt is the one signal of
the engine that does not test the mode (line 1051). `AuditInv` adds "no prompt is open".

*Termination and eviction* rest on `FinishInv`. `TerminatedMeansGone` is not inductive: a stop
event marks every live entry of a pid, and the pid may have a new holder by then. What saves
it is the order of the queue: the new holder's creation is queued behind the old one's stop,
so its entry does not exist yet when the stop is handled. `FinishInv` says so: while a stop is
queued, no tracked entry of its pid belongs to a running process (`StopsAreLate`), nor does
any creation queued ahead of it for that pid (`StopsFollowCreations`); an install waiting for
its clean-up has ended (`CleanupsGone`); nothing tracked or queued is from the future (`Past`); a
deadline is only given with the mark (`DeadlineMeansTerminated`). The steps of the operating
system and the agent preserve it one by one. In audit mode it fails (section 5), hence the
assumption.

*Install rules.* `process_create` looks the real parent up by its pid alone, among entries
that come and go. `InheritInv` says why it finds the right one: as long as pids are not handed
out twice a start time tells its pid (`NamedByPid`), creations are handled in the order in
which processes started (`InOrder`), and the parent of an entry or of a queued creation is the
older process that caused it (`ParentsFirst`); so the creator of a new entry, if tracked and
live, is the only entry of its pid, and the new entry is nobody's creator yet. Every other step
keeps whose entry an entry is (`KeepsEntries`). Once pids are used again an ended install that
waits for its clean-up may be found in place of the real parent, hence the assumption.

*Kills.* A signal goes to a pid. `KillInv` adds that the pid of a tracked process is its own or
free, that trees are roots alone, that no prompt is open, and that a killed process was
tracked and an offender (its creation is not queued any more, so no later entry can differ).
With a desktop session the statement is false: an unanswered prompt kills whatever was
suspended (section 5), hence the assumption on `Gui`.

*Causes.* When an event is handled, an older holder of its pid must not be live in the map any
more. `ChargeInv` has it from two facts about the queue. `Succession`: the events of one pid are
queued by the age of their processes, and no entry is newer than an event still queued for its
pid. `StopsToCome`: as long as the thread runs, an ended process whose entry is live, or whose
creation is queued, has its stop queued, behind that creation. So the stop of the older holder
would have to be both ahead of the event at the head and in the queue. While the thread is in a
response it handles nothing, and it is in one at a time (`OneResponder`), so its panic there is
the end of all handling. Neither needs an
assumption on pids or modes; once the thread has panicked or hangs nothing is handled. The
entry of an ended install stays live until its clean-up has run, hence `Installer = {}`.

*Containment.* `PidInv` collects what a signal by pid needs: whatever an entry, a scan, a
clean-up, a prompt, a response under way or a queued creation stands for has its pid to itself
(`Watched`), and trees are roots alone (`SignalReaches`). On top of it `StopInv`: what was last sent
a STOP is gone or has a live entry, and so has every process with a scan or a response under way
or on record as suspended (`Suspects`). The second half is what makes it inductive: a scan may
end, and a response stop, after the purge; it must then be too late (`FinishInv`). And `HoldInv`,
which is the property without its premise on the mode: a step puts a process into `suspended`
only with a stop to come; a stop takes it from running; it runs again only when a release of that
very process resumes it, since the signal reaches nobody else; and a release leaves its first
step only with the reset that ends the suspension, or while the process is gone. Prompts, spoofed
parents and pinned shards need no exception. Which alert comes last is another matter (section 5).

*Cases.* `CaseInv` is `FinishInv` with `InOrder`, which needs no assumption on pids: what is queued
for creation is younger than everything tracked, so what is tracked, or was, is not awaited
again (`TrackedIsNotAwaited`, `NothingIsAwaitedAgain`) and no case is opened twice. `FinishInv` closes
cases in time. Each step is then one of three kinds: it keeps or extends what every entry
remembers (`LearningMaps`), it resets one entry (`ResetMaps`), or it opens one case
(`CreateMaps`); the system's steps leave all cases alone (`SystemMaps`). In audit mode entries of
running processes are marked and evicted, hence the assumption.

*Reload.* A file that the rules in force list is in the kernel map or still on the list of a
task that loaded these very rules (`FilesCovered`, `DirsCovered`); so the swap, which takes the
other tasks' lists out of account, puts its own task in their place. `TodoListed`: a task
registers only what its version lists, so it takes no file away. Flags and order are lost when
two reloads cross; `CrossInv` says what holds until one does: who registers is at the version in
force (`OneVersion`), who is about to swap has one no older (`SwapsForward`), none is newer than
what was published (`NoneNewer`), and a listed file has its flags or somebody is still to
give them (`FlagsCovered`).

*Ingest.* `Gate`: only a connection that was answered 1 reads, and never ahead of its peer.
`Exact`: while the consumer lives, the channel holds of each connection exactly the numbers
after the last one handled up to the last one that entered it, `Increasing` in order. So the
head of the channel is the next event of its connection (`HeadIsNext`), and `Take` is a `Deliver`.

*Bus and pipeline.* `BusInv`: slot n modulo the ring's size holds the last alert announced that
belongs there (`RingHolds`); what a subscriber has seen is the segment of the announced alerts
up to its position (`Followed`); the log is what was logged, line by line, with the line each
producer is in the middle of (`LogTells`), unless writes overlapped or failed. A receive within
one round of the ring therefore reads its own number, whatever the ring's size: the arithmetic
is in `SlotsApart`. `Pipeline` drives both modules by their own actions, so what is proved of
each carries over.

*YARA and launch.* `CacheSound` is inductive given types; `tainted` is what it takes. `LaunchInv`
adds `Queue` (a launch is asked about once, by nobody but the head of the queue), `Asked` (after
each question, `untrusted` is what the facts and the rules in force make of the questions so far,
unless a reload or an exit has disturbed the launch), `Classified` (so the whole is `Suspect`
under one version) and `Scans` (the hash a scan looks up is the launched program's, unless that
was changed or the launch is from memory, and a verdict of clean has a reason).

*Sigma.* `Evaluate` takes the first rule that matches, and the launch is stopped for it (`Tried`);
that a rule matches exactly if one of its alternatives is met is the lemma behind. Conditions
nest to any depth, which calls for induction over data. The library's
induction theorems cannot be instantiated here; `Depth` and the least number of a set (`Least`)
give it by hand: were there a condition on which evaluation and alternatives disagree, there
would be a simplest one (`Simplest`), and its parts agree. The same argument shows that the two
recursive functions exist at all (`Solvable`), which TLA+ does not grant.

*Trust.* `StartVerifies`: while the agent loads, the kernel's set is the system's programs and
those of the entries looked at, less the ones it could not hash (`Loading`), unless a program
changed. `PromisesAreKept` carries every accepted decision from the end of its request
(`Promised`): the list is damaged, the decision is stored, or another hash was decided on for that path; `Remembered` ties the sets in
memory to the files on Windows. The refinements rest on `ListsOK`: of each list at most one task
has read it and not written it, unless it is damaged, and then what it read is still what is
stored: a read that failed is another one than what is stored, and damages the list with the step
that makes it the text to be written. A list has one decision for a path and none that was never
made (`Sound`). Each step is
then `Decide`, `Add`, `Accident` or a stutter of `DecisionList`.

*Only model-checked*: the liveness properties `FinishedStatesCleaned`, `UnauthorisedReadAnswered`,
`NewestComesInForce`, `AlarmsAreShown` and `EventsAreHandled`, since fairness and ENABLED are out of
the prover's reach. Every invariant, action property and refinement that a passing run checks
has its theorem.

## 5. Disagreements between code and documentation

The three violation runs are listed with their quotations in `PROJECT.json`. Eleven more
disagreements were found by TLC on an instance given here by its difference from a run:

| What the code does | What is said | To reproduce |
|---|---|---|
| an install that ends panics the consumer thread (`heuristics.rs:577`) | finished states are cleaned up (`lib.rs:73`) | `FindStopHangs.cfg` with `IterPinsShard = FALSE`, `Installer = {npm}`, `Image = {app, npm}` |
| neither a suspension nor a release holds a lock: a stop that comes after the release's SIGCONT leaves a process stopped that is announced as released and has nothing on record (`heuristics.rs:959`, 1109) | "Reset the threat detection state for the process tree to allow normal execution" (`heuristics.rs:1112`) | `HeuristicsReads.cfg` with `ReleasedRuns` |
| STOP, CONT, RELEASED, CONTAINED: a whole release falls between a suspension's stop and its alert, and the process that runs is announced CONTAINED last (`heuristics.rs:964`) | "Each entry specifies the threat event and containment resolution" (`src/README.md:73`) | `HeuristicsReads.cfg` with `ContainedIsStopped` |
| parent spoofing is announced CONTAINED without a signal (`heuristics.rs:401`) | it is a containment (`heuristics.rs:387`) | `HeuristicsDesktop.cfg` with `Pids3`, `MaxTime = 3`, `Spoof = {1}`, `Gui = {FALSE}`, and `ContainedIsStopped` |
| in audit mode `terminate_threat_pkm` marks and announces a termination it has not made (`heuristics.rs:1194`) | an entry marked terminated stands for a finished process (`heuristics.rs:1071`) | `HeuristicsInstalls.cfg` with `AuditMode = TRUE`, and `TerminatedMeansGone` |
| on Unix a denial is written to the deny list, which nothing reads (`trust_cache.rs:347`) | "registered in persistent user denylist and terminated" (`control.rs:364`); loaded and verified at the start (`trust_cache.rs:57`) | `TrustStore.cfg` with `DeniedPermanently` |
| a database published between the load at the start and the set-up of the watch is loaded by nobody (`lib.rs:58`, 114) | "Hot-reloads /etc/kinnector/rules.db" (`src/README.md:27`) | `FindReloadHangs.cfg` with `NestedReads = FALSE`, and the property `HotReloadsAll` |
| a decision on a path that is listed with another hash is not stored (`trust_cache.rs:240`) | "permanently allowed" (`control.rs:336`) | `TrustStore.cfg` with `AllowedPermanently` |
| two tasks that log at a time may join two lines (`heuristics.rs:906`) | JSON Lines (`src/README.md:73`) | `Pipeline.cfg` with `SPECIFICATION Spec` and `JsonLines` |
| a verdict may be cached under the hash of another content (`yara_scanner.rs:63`) | "Maps SHA-256 to is_malicious" (`yara_scanner.rs:8`) | `Launch.cfg` with `CacheMapsContent` |
| a process that lies about its parent is not scanned for it (`heuristics.rs:419`) | it is treated "with maximum suspicion" by all that follows (`heuristics.rs:394`) | `Launch.cfg` with `SpoofersAreScanned` |

Others were met by reading:

* `heuristics.rs:1781` waits for the desktop dialog without a limit on Unix, where the comment
  at 1006 promises 60 s.
* `heuristics.rs:1795` returns "denied" when no dialog tool exists; the message at 1794 says
  the process is left suspended, the caller kills it (`PromptUnanswered`).
* `heuristics.rs:1009` spawns the prompt on the consumer thread and panics, where 1005 says
  that the thread is never stalled (`Announce` with `inRuntime` FALSE).
* `heuristics.rs:944` waits for the tmux popup before it sends the SIGSTOP at 959, whose message at
  921 has announced the process as suspended. As long as a user leaves the popup open no event is
  handled at all, and no read answered: hence the premise `PopupsClosed`.
* `heuristics.rs:1114` keeps `unique_files_read` at a release, so a process with three
  sensitive reads is suspended at its next one, whatever 1112 says of normal execution.
* `trust_cache.rs:231` and 359 take a list that cannot be read for an empty one and write it back
  with the new decision alone: every earlier decision is lost, though control.rs:336 and 364 call
  them permanent and persistent. `AllowListKept` and `DenyListKept` count it as damage.
* `is_hash_allowlisted` and `is_hash_denylisted` (`trust_cache.rs`) have no caller.
* `yara_scanner.rs:63` answers "clean" when there is no hash: always for a program in memory,
  which `heuristics.rs:218` has just announced as an anomaly, and for any other whenever `sha256sum`
  fails. The comment at `heuristics.rs:418` promises a scan for untrusted processes.
  `MalwareIsNotCleared` excepts both.
* `verify_package_integrity` looks at who owns a file, not at its content.
* AllowProcessTree reports success when the program could not be hashed and nothing was stored
  (`Hash` of `TrustStore`).
* `ipc.rs:44` gives the telemetry socket mode 0660, the README 0600.

## 6. Not modelled

The Windows variants of signals and prompts, the messages to terminals that precede a
suspension (of the popup, the wait for it is modelled, and what its user decides is a command like
any other), wording and layout of alerts, `path_velocity_map` and the TTY listener's map
(nothing decides on them), the clipboard helper and the kernel core, which is outside the
repository; Status, ListProcesses and ListRules, which change nothing; the set-up of sockets.
The number of runtime workers: a command that meets a pinned shard blocks one for good, and
how many such commands it takes to stop all depends on the machine. Not combined in one run:
audit mode (proved instead, `AuditSignals`), installs with pids used again (`TerminatedIsGone`
covers them), scans and prompts with pids used again. Two hazards stay uncovered by intent: a
signal of a late scan or answer that reaches a pid's new holder, and events charged to an
ended install during its two seconds; nothing in the repository says what should happen.

## 7. Plan

1. `EngineLocks`: the workers of the runtime that block on a pinned shard, and how many of them it
   takes to stop the agent.
2. Liveness of a suspension under load: several scans whose prompts are open while the consumer
   is in a response.
