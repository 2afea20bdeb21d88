------------------------------ MODULE YaraCache ------------------------------
(***************************************************************************)
(* The YARA scan of a program (src/src/yara_scanner.rs 50-101): a task     *)
(* takes the file's SHA-256, looks the verdict up under it and, when there *)
(* is none, reads the file again, scans what it read and keeps the verdict *)
(* under the hash it took before.  A hash is the content it belongs to.    *)
(*                                                                         *)
(* Operators named Faulty... are plausible regressions; nothing uses them. *)
(***************************************************************************)
EXTENDS Naturals

CONSTANTS
    Scan,        \* scans, one per launch
    Content,     \* what the file can hold
    Malicious,   \* the contents a rule matches
    Large,       \* the contents above 32 MB
    RulesLoaded, \* a .yar file was found at the start
    MaxEdits     \* bound: changes of the file

None == "none"
Verdict == {"clean", "malicious"}

ASSUME YaraAssumption ==
    /\ None \notin Content
    /\ Malicious \subseteq Content /\ Large \subseteq Content
    /\ RulesLoaded \in BOOLEAN /\ MaxEdits \in Nat

VARIABLES
    content,   \* of the file, None if there is none
    cache,     \* hash -> verdict, or None
    scan,      \* scan -> where it stands, and the hash it took
    edits,
    tainted,   \* history: hashes under which another content was judged
    hindered   \* history: scans that had no hash, could not read or took above 3 s

yaraVars == <<content, cache, scan, edits, tainted, hindered>>

ScanState == [pc : {"none", "hash", "lookup", "read", "clean", "malicious"},
              hash : Content \cup {None}]

YaraTypeOK ==
    /\ content \in Content \cup {None}
    /\ cache \in [Content -> Verdict \cup {None}]
    /\ scan \in [Scan -> ScanState]
    /\ \A s \in Scan : scan[s].pc \in {"lookup", "read"} => scan[s].hash \in Content
    /\ edits \in 0..MaxEdits
    /\ tainted \in SUBSET Content /\ hindered \in SUBSET Scan

YaraInit ==
    /\ content \in Content
    /\ cache = [c \in Content |-> None]
    /\ scan = [s \in Scan |-> [pc |-> "none", hash |-> None]]
    /\ edits = 0 /\ tainted = {} /\ hindered = {}

VerdictOn(c) == IF c \in Malicious THEN "malicious" ELSE "clean"

Goto(s, pc) == scan' = [scan EXCEPT ![s].pc = pc]

-----------------------------------------------------------------------------
(* The file is written, replaced or removed.                               *)
Edit(c) ==
    /\ edits < MaxEdits /\ edits' = edits + 1
    /\ c # content /\ content' = c
    /\ UNCHANGED <<cache, scan, tainted, hindered>>

Begin(s) ==
    /\ scan[s].pc = "none" /\ Goto(s, "hash")
    /\ UNCHANGED <<content, cache, edits, tainted, hindered>>

TakeHash(s) ==
    /\ scan[s].pc = "hash" /\ RulesLoaded /\ content \in Content \ Large
    /\ scan' = [scan EXCEPT ![s] = [pc |-> "lookup", hash |-> content]]
    /\ UNCHANGED <<content, cache, edits, tainted, hindered>>

(* Without rules, and for a file that is too large, the answer is that it  *)
(* is clean.                                                               *)
SkipScan(s) ==
    /\ scan[s].pc = "hash" /\ (~RulesLoaded \/ content \in Large)
    /\ Goto(s, "clean")
    /\ UNCHANGED <<content, cache, edits, tainted, hindered>>

(* So it is when there is no file of that name or sha256sum fails.         *)
HashFails(s) ==
    /\ scan[s].pc = "hash" /\ RulesLoaded
    /\ Goto(s, "clean")
    /\ hindered' = hindered \cup {s}
    /\ UNCHANGED <<content, cache, edits, tainted>>

Lookup(s) ==
    /\ scan[s].pc = "lookup"
    /\ Goto(s, IF cache[scan[s].hash] = None THEN "read" ELSE cache[scan[s].hash])
    /\ UNCHANGED <<content, cache, edits, tainted, hindered>>

(* What cannot be scanned is remembered as clean.                          *)
FaultyScanFails(s) ==
    /\ scan[s].pc = "read" /\ Goto(s, "clean")
    /\ cache' = [cache EXCEPT ![scan[s].hash] = "clean"]
    /\ hindered' = hindered \cup {s}
    /\ UNCHANGED <<content, edits, tainted>>

(* The file cannot be read, or its scan takes more than 3 s: it passes for *)
(* clean, and the cache is left alone.                                     *)
ScanFails(s) ==
    /\ scan[s].pc = "read" /\ Goto(s, "clean")
    /\ hindered' = hindered \cup {s}
    /\ UNCHANGED <<content, cache, edits, tainted>>

(* What is read now is judged, under the hash of what was there before.    *)
Judge(s) ==
    /\ scan[s].pc = "read" /\ content # None
    /\ cache' = [cache EXCEPT ![scan[s].hash] = VerdictOn(content)]
    /\ Goto(s, VerdictOn(content))
    /\ tainted' = IF content # scan[s].hash THEN tainted \cup {scan[s].hash} ELSE tainted
    /\ UNCHANGED <<content, edits, hindered>>

Scanning(s) ==
    TakeHash(s) \/ SkipScan(s) \/ HashFails(s) \/ Lookup(s) \/ ScanFails(s) \/ Judge(s)

YaraNext ==
    \/ \E c \in Content \cup {None} : Edit(c)
    \/ \E s \in Scan : Begin(s) \/ Scanning(s)

YaraSpec == YaraInit /\ [][YaraNext]_yaraVars

-----------------------------------------------------------------------------
(* Safety.  The verdict under a hash is the verdict on that content,       *)
(* unless the file was changed between the two reads of a scan: neither a  *)
(* failure nor a timeout nor two scans at a time leave a wrong one         *)
(* (yara_scanner.rs 63-96).                                                *)
CacheSound ==
    \A c \in Content : cache[c] \in {None, VerdictOn(c)} \/ c \in tainted

(* "Maps SHA-256 to is_malicious" (src/src/yara_scanner.rs 8).             *)
CacheMapsContent ==
    \A c \in Content : cache[c] \in {None, VerdictOn(c)}
=============================================================================
