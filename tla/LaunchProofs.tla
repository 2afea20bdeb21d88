---------------------------- MODULE LaunchProofs ----------------------------
(***************************************************************************)
(* What is proved of YaraCache, SigmaRules and Launch for any number of    *)
(* processes, contents and rules: that the verdict cache is sound, that    *)
(* Launch does to it what YaraCache says, that a launch is classified by   *)
(* what it was, that a suspect program a YARA rule matches is not passed   *)
(* as clean, and that Sigma's rules are evaluated as the reference says.   *)
(***************************************************************************)
EXTENDS Launch, SequenceTheorems, WellFoundedInduction, TLAPS

(* What a step of a scan does to the scan's record.                        *)
LEMMA GotoTypes ==
  ASSUME YaraTypeOK, NEW s \in Scan, NEW pc \in {"hash", "read", "clean", "malicious"}, Goto(s, pc),
         pc = "read" => scan[s].hash \in Content
  PROVE  /\ scan' \in [Scan -> ScanState]
         /\ \A u \in Scan : scan'[u].pc \in {"lookup", "read"} => scan'[u].hash \in Content
<1> DEFINE r == [scan[s] EXCEPT !.pc = pc]
<1>1. scan[s] \in ScanState
  BY DEF YaraTypeOK
<1>2. r \in ScanState /\ r.pc = pc /\ r.hash = scan[s].hash
  BY <1>1 DEF ScanState
<1>3. scan' = [scan EXCEPT ![s] = r]
  BY DEF Goto
<1> HIDE DEF r
<1>4. scan' \in [Scan -> ScanState]
  BY <1>2, <1>3 DEF YaraTypeOK
<1>5. ASSUME NEW u \in Scan, scan'[u].pc \in {"lookup", "read"} PROVE scan'[u].hash \in Content
  <2>1. CASE u = s
    BY <1>2, <1>3, <1>5, <2>1 DEF YaraTypeOK
  <2>2. CASE u # s
    BY <1>3, <1>5, <2>2 DEF YaraTypeOK
  <2> QED BY <2>1, <2>2
<1> QED BY <1>4, <1>5

LEMMA GotoMoves ==
  ASSUME YaraTypeOK, NEW s \in Scan, NEW pc, Goto(s, pc)
  PROVE  /\ scan'[s].pc = pc /\ scan'[s].hash = scan[s].hash
         /\ \A u \in Scan \ {s} : scan'[u] = scan[u]
<1> DEFINE r == [scan[s] EXCEPT !.pc = pc]
<1>1. scan[s] \in ScanState
  BY DEF YaraTypeOK
<1>2. r.pc = pc /\ r.hash = scan[s].hash
  BY <1>1 DEF ScanState
<1>3. scan' = [scan EXCEPT ![s] = r]
  BY DEF Goto
<1> HIDE DEF r
<1> QED BY <1>2, <1>3 DEF YaraTypeOK

LEMMA VerdictTypes == ASSUME NEW c PROVE VerdictOn(c) \in Verdict
  BY DEF VerdictOn, Verdict

(* A step of a scan, and what lets a program pass as clean.                *)
Cleared(s) ==
    \/ ~RulesLoaded \/ content \in Large \/ s \in hindered'
    \/ scan[s].pc = "lookup" /\ scan[s].hash \in Content /\ cache[scan[s].hash] = "clean"
    \/ content \in Content \ Malicious

Moved(s) ==
    \/ scan[s].pc = "none" /\ scan'[s].pc = "hash"
    \/ scan[s].pc = "hash" /\ scan'[s].pc = "lookup" /\ scan'[s].hash = content
    \/ scan[s].pc = "lookup" /\ scan'[s].pc = "read" /\ scan'[s].hash = scan[s].hash
    \/ scan[s].pc # "none" /\ scan'[s].pc = "malicious"
    \/ scan[s].pc # "none" /\ scan'[s].pc = "clean" /\ Cleared(s)

LEMMA ScanView ==
  ASSUME YaraTypeOK, NEW s \in Scan, Begin(s) \/ Scanning(s)
  PROVE  /\ content' = content /\ tainted \subseteq tainted' /\ hindered \subseteq hindered'
         /\ \A u \in Scan \ {s} : scan'[u] = scan[u]
         /\ Moved(s)
<1>1. CASE Begin(s)
  BY <1>1, GotoMoves DEF Begin, Moved
<1>2. CASE TakeHash(s)
  <2> DEFINE r == [pc |-> "lookup", hash |-> content]
  <2>1. r.pc = "lookup" /\ r.hash = content
    OBVIOUS
  <2>2. scan' = [scan EXCEPT ![s] = r]
    BY <1>2 DEF TakeHash
  <2> HIDE DEF r
  <2>3. scan'[s] = r /\ \A u \in Scan \ {s} : scan'[u] = scan[u]
    BY <2>2 DEF YaraTypeOK
  <2> QED BY <1>2, <2>1, <2>3 DEF TakeHash, Moved
<1>3. CASE SkipScan(s)
  BY <1>3, GotoMoves DEF SkipScan, Moved, Cleared
<1>4. CASE HashFails(s)
  BY <1>4, GotoMoves DEF HashFails, Moved, Cleared
<1>5. CASE Lookup(s)
  <2>1. scan[s].hash \in Content /\ scan[s].pc = "lookup"
    BY <1>5 DEF Lookup, YaraTypeOK
  <2>2. CASE cache[scan[s].hash] = None
    <3>1. Goto(s, "read")
      BY <1>5, <2>2 DEF Lookup
    <3> QED BY <1>5, <2>1, <3>1, GotoMoves DEF Lookup, Moved
  <2>3. CASE cache[scan[s].hash] \in Verdict
    <3>1. Goto(s, cache[scan[s].hash])
      BY <1>5, <2>3 DEF Lookup, Verdict, None
    <3> QED BY <1>5, <2>1, <2>3, <3>1, GotoMoves DEF Lookup, Moved, Cleared, Verdict
  <2> QED BY <2>1, <2>2, <2>3 DEF YaraTypeOK
<1>6. CASE ScanFails(s)
  BY <1>6, GotoMoves DEF ScanFails, Moved, Cleared
<1>7. CASE Judge(s)
  BY <1>7, GotoMoves DEF Judge, Moved, Cleared, VerdictOn, YaraTypeOK
<1> QED BY <1>1, <1>2, <1>3, <1>4, <1>5, <1>6, <1>7 DEF Scanning

LEMMA YaraInits == YaraInit => YaraTypeOK /\ CacheSound
<1> SUFFICES ASSUME YaraInit PROVE YaraTypeOK /\ CacheSound
  OBVIOUS
<1> USE YaraAssumption DEF YaraInit
<1>1. [pc |-> "none", hash |-> None] \in ScanState
  BY DEF ScanState
<1>2. scan \in [Scan -> ScanState]
  BY <1>1
<1>3. YaraTypeOK
  BY <1>2 DEF YaraTypeOK
<1> QED BY <1>3 DEF CacheSound

-----------------------------------------------------------------------------
LEMMA YaraStepTypes == ASSUME YaraTypeOK, [YaraNext]_yaraVars PROVE YaraTypeOK'
<1> USE YaraAssumption
<1>1. ASSUME NEW c \in Content \cup {None}, Edit(c) PROVE YaraTypeOK'
  BY <1>1 DEF Edit, YaraTypeOK
<1>2. ASSUME NEW s \in Scan, Begin(s) PROVE YaraTypeOK'
  <2>1. Goto(s, "hash")
    BY <1>2 DEF Begin
  <2> QED BY <1>2, <2>1, GotoTypes DEF Begin, YaraTypeOK
<1>3. ASSUME NEW s \in Scan, TakeHash(s) PROVE YaraTypeOK'
  <2> DEFINE r == [pc |-> "lookup", hash |-> content]
  <2>1. r \in ScanState /\ r.hash \in Content
    BY <1>3 DEF TakeHash, ScanState
  <2>2. scan' = [scan EXCEPT ![s] = r] /\ UNCHANGED <<content, cache, edits, tainted, hindered>>
    BY <1>3 DEF TakeHash
  <2> HIDE DEF r
  <2>3. \A u \in Scan : scan'[u].pc \in {"lookup", "read"} => scan'[u].hash \in Content
    BY <2>1, <2>2 DEF YaraTypeOK
  <2> QED BY <2>1, <2>2, <2>3 DEF YaraTypeOK
<1>4. ASSUME NEW s \in Scan, SkipScan(s) \/ HashFails(s) PROVE YaraTypeOK'
  <2>1. Goto(s, "clean") /\ UNCHANGED <<content, cache, edits, tainted>>
    BY <1>4 DEF SkipScan, HashFails
  <2>2. hindered' \in SUBSET Scan
    BY <1>4 DEF SkipScan, HashFails, YaraTypeOK
  <2> QED BY <2>1, <2>2, GotoTypes DEF YaraTypeOK
<1>5. ASSUME NEW s \in Scan, Lookup(s) PROVE YaraTypeOK'
  <2>1. scan[s].hash \in Content
    BY <1>5 DEF Lookup, YaraTypeOK
  <2>2. PICK pc \in {"read", "clean", "malicious"} : Goto(s, pc)
    BY <1>5, <2>1 DEF Lookup, YaraTypeOK, Verdict
  <2> QED BY <1>5, <2>1, <2>2, GotoTypes DEF Lookup, YaraTypeOK
<1>6. ASSUME NEW s \in Scan, ScanFails(s) PROVE YaraTypeOK'
  <2>1. Goto(s, "clean")
    BY <1>6 DEF ScanFails
  <2> QED BY <1>6, <2>1, GotoTypes DEF ScanFails, YaraTypeOK
<1>7. ASSUME NEW s \in Scan, Judge(s) PROVE YaraTypeOK'
  <2>1. VerdictOn(content) \in Verdict /\ Goto(s, VerdictOn(content))
    BY <1>7, VerdictTypes DEF Judge
  <2>2. scan' \in [Scan -> ScanState]
        /\ \A u \in Scan : scan'[u].pc \in {"lookup", "read"} => scan'[u].hash \in Content
    BY <2>1, GotoTypes DEF Verdict
  <2>3. scan[s].hash \in Content
    BY <1>7 DEF Judge, YaraTypeOK
  <2>4. cache' \in [Content -> Verdict \cup {None}] /\ tainted' \in SUBSET Content
    BY <1>7, <2>1, <2>3 DEF Judge, YaraTypeOK
  <2> QED BY <1>7, <2>2, <2>4 DEF Judge, YaraTypeOK
<1>8. CASE UNCHANGED yaraVars
  BY <1>8 DEF yaraVars, YaraTypeOK
<1> QED BY <1>1, <1>2, <1>3, <1>4, <1>5, <1>6, <1>7, <1>8 DEF YaraNext, Scanning

(* The types of the cache and the scans (yara_scanner.rs 13-101).          *)
THEOREM YaraTypes == YaraSpec => []YaraTypeOK
<1>1. YaraTypeOK /\ [YaraNext]_yaraVars => YaraTypeOK'
  BY YaraStepTypes
<1> QED BY YaraInits, <1>1, PTL DEF YaraSpec

-----------------------------------------------------------------------------
(* Only a scan that has read the file writes to the cache.                 *)
LEMMA YaraStepSound == ASSUME YaraTypeOK, CacheSound, [YaraNext]_yaraVars PROVE CacheSound'
<1>1. CASE cache' = cache /\ tainted' = tainted
  BY <1>1 DEF CacheSound, VerdictOn
<1>2. ASSUME NEW s \in Scan, Judge(s) PROVE CacheSound'
  <2>1. /\ scan[s].hash \in Content
        /\ cache' = [cache EXCEPT ![scan[s].hash] = VerdictOn(content)]
        /\ tainted' = IF content # scan[s].hash THEN tainted \cup {scan[s].hash} ELSE tainted
    BY <1>2 DEF Judge, YaraTypeOK
  <2>2. SUFFICES ASSUME NEW c \in Content
                 PROVE  cache'[c] \in {None, VerdictOn(c)} \/ c \in tainted'
    BY DEF CacheSound, VerdictOn
  <2>3. CASE c = scan[s].hash
    BY <2>1, <2>3 DEF YaraTypeOK
  <2>4. CASE c # scan[s].hash
    BY <2>1, <2>4 DEF YaraTypeOK, CacheSound
  <2> QED BY <2>3, <2>4
<1> QED BY <1>1, <1>2 DEF YaraNext, Scanning, Edit, Begin, TakeHash, SkipScan, HashFails, Lookup, ScanFails, yaraVars

(* Whatever the scans interleave, and whether they fail or time out, a     *)
(* verdict kept under a hash is the verdict on that content, unless the    *)
(* file changed between the two reads of a scan (yara_scanner.rs 63-96).   *)
THEOREM YaraCacheSound == YaraSpec => []CacheSound
<1>1. YaraTypeOK /\ CacheSound /\ [YaraNext]_yaraVars => CacheSound'
  BY YaraStepSound
<1> QED BY YaraInits, YaraTypes, <1>1, PTL DEF YaraSpec

-----------------------------------------------------------------------------
(* Sigma: a number of which nobody is less.                                *)
LEMMA Least == ASSUME NEW S \in SUBSET Nat, S # {} PROVE \E i \in S : \A j \in S : i <= j
<1>1. \E x \in S : \A y \in S : ~ (<<y, x>> \in OpToRel(<, Nat))
  BY NatLessThanWellFounded, WFMin
<1>2. \A x, y \in Nat : <<y, x>> \in OpToRel(<, Nat) <=> y < x
  BY DEF OpToRel
<1>3. \E x \in S : \A y \in S : ~ (y < x)
  BY <1>1, <1>2, Zenon
<1> QED BY <1>3

(* A property of conditions that fails has a simplest failure.             *)
LEMMA Simplest ==
  ASSUME NEW S \in SUBSET Condition, S # {}
  PROVE  \E n \in S : \A m \in S : Depth[n] <= Depth[m]
<1> DEFINE depths == {Depth[n] : n \in S}
<1>1. depths \in SUBSET Nat /\ depths # {}
  BY ConditionAssumption
<1>2. PICK d \in depths : \A e \in depths : d <= e
  <2> HIDE DEF depths
  <2> QED BY <1>1, Least
<1> QED BY <1>2

(* What says of each condition its value by those of simpler conditions    *)
(* has a solution: once[h] are the values that follow from the values h.   *)
LEMMA Solvable ==
  ASSUME NEW T, T # {},
         NEW once \in [[Condition -> T] -> [Condition -> T]],
         \A h, g \in [Condition -> T] : \A n \in Condition :
             (\A m \in Condition : Depth[m] < Depth[n] => h[m] = g[m]) => once[h][n] = once[g][n]
  PROVE  \E h \in [Condition -> T] : h = once[h]
<1> DEFINE F == [Condition -> T]
           Upto(h, k) == \A n \in Condition : Depth[n] < k => h[n] = once[h][n]
<1>1. \A n \in Condition : Depth[n] \in Nat
  BY ConditionAssumption
<1>2. \A k \in Nat : \E h \in F : Upto(h, k)
  <2> DEFINE bad == {k \in Nat : ~ \E h \in F : Upto(h, k)}
  <2>1. SUFFICES ASSUME bad # {} PROVE FALSE
    OBVIOUS
  <2>2. PICK k \in bad : \A j \in bad : k <= j
    BY <2>1, Least
  <2>3. CASE k = 0
    <3>1. PICK t \in T : TRUE
      OBVIOUS
    <3>2. [n \in Condition |-> t] \in F
      BY <3>1
    <3>3. \A h : Upto(h, 0)
      BY <1>1
    <3> QED BY <2>2, <2>3, <3>2, <3>3
  <2>4. CASE k # 0
    <3>1. k \in Nat /\ k - 1 \in Nat /\ k - 1 \notin bad
      BY <2>2, <2>4
    <3>2. PICK h \in F : Upto(h, k - 1)
      BY <3>1
    <3>3. once[h] \in F
      BY <3>2
    <3>4. ASSUME NEW n \in Condition, Depth[n] < k PROVE once[h][n] = once[once[h]][n]
      <4>1. \A m \in Condition : Depth[m] < Depth[n] => h[m] = once[h][m]
        BY <1>1, <3>1, <3>2, <3>4
      <4> QED BY <3>2, <3>3, <4>1
    <3>5. Upto(once[h], k)
      BY <3>4
    <3> QED BY <2>2, <3>3, <3>5
  <2> QED BY <2>3, <2>4
<1>3. ASSUME NEW h \in F, NEW g \in F, NEW k \in Nat, NEW l \in Nat, Upto(h, k), Upto(g, l),
             NEW n \in Condition, Depth[n] < k, Depth[n] < l
      PROVE  h[n] = g[n]
  <2> DEFINE bad == {m \in Condition : Depth[m] < k /\ Depth[m] < l /\ h[m] # g[m]}
  <2>1. SUFFICES ASSUME bad # {} PROVE FALSE
    BY <1>3
  <2>2. PICK m \in bad : \A i \in bad : Depth[m] <= Depth[i]
    BY <2>1, Simplest
  <2>3. \A i \in Condition : Depth[i] < Depth[m] => h[i] = g[i]
    BY <1>1, <2>2
  <2>4. once[h][m] = once[g][m]
    BY <2>2, <2>3
  <2> QED BY <1>3, <2>2, <2>4
<1> DEFINE near(n) == CHOOSE g \in F : Upto(g, Depth[n] + 1)
           H == [n \in Condition |-> near(n)[n]]
<1>4. ASSUME NEW n \in Condition PROVE near(n) \in F /\ Upto(near(n), Depth[n] + 1)
  <2>1. Depth[n] + 1 \in Nat
    BY <1>1
  <2>2. \E g \in F : Upto(g, Depth[n] + 1)
    BY <1>2, <2>1
  <2> HIDE DEF F, Upto
  <2> QED BY <2>2, Zenon
<1> HIDE DEF near
<1>5. H \in F
  BY <1>4
<1>6. ASSUME NEW n \in Condition PROVE H[n] = once[H][n]
  <2>1. ASSUME NEW m \in Condition, Depth[m] < Depth[n] PROVE H[m] = near(n)[m]
    <3>1. Depth[m] < Depth[m] + 1 /\ Depth[m] < Depth[n] + 1 /\ Depth[m] + 1 \in Nat /\ Depth[n] + 1 \in Nat
      BY <1>1, <2>1
    <3>2. near(m) \in F /\ near(n) \in F /\ Upto(near(m), Depth[m] + 1) /\ Upto(near(n), Depth[n] + 1)
      BY <1>4
    <3>3. near(m)[m] = near(n)[m]
      <4> HIDE DEF F, Upto
      <4> QED BY <1>3, <3>1, <3>2
    <3> QED BY <3>3
  <2>2. once[H][n] = once[near(n)][n]
    BY <1>4, <1>5, <2>1
  <2>3. near(n)[n] = once[near(n)][n]
    BY <1>1, <1>4
  <2> QED BY <2>2, <2>3
<1>7. once[H] \in F
  BY <1>5
<1>8. H = once[H]
  <2> HIDE DEF H
  <2> QED BY <1>5, <1>6, <1>7
<1> QED BY <1>5, <1>8

(* The two functions are what their definitions say.                       *)
ValueOf(h, node) ==
    [fields \in Event |->
        \/ node.type = "FieldMatch" /\ Matches(node, fields)
        \/ node.type = "And" /\ \A i \in DOMAIN node.nodes : h[node.nodes[i]][fields]
        \/ node.type = "Or" /\ \E i \in DOMAIN node.nodes : h[node.nodes[i]][fields]]

LEMMA Evaluated ==
  /\ EvaluateNode \in [Condition -> [Event -> BOOLEAN]]
  /\ \A n \in Condition : EvaluateNode[n] = ValueOf(EvaluateNode, n)
<1> DEFINE T == [Event -> BOOLEAN]
           F == [Condition -> T]
           once == [h \in F |-> [n \in Condition |-> ValueOf(h, n)]]
<1>1. ASSUME NEW h, NEW n \in Condition PROVE ValueOf(h, n) \in T
  BY DEF ValueOf
<1>2. once \in [F -> F]
  BY <1>1
<1>3. ASSUME NEW h \in F, NEW g \in F, NEW n \in Condition,
             \A m \in Condition : Depth[m] < Depth[n] => h[m] = g[m]
      PROVE  ValueOf(h, n) = ValueOf(g, n)
  <2>1. CASE n.type = "FieldMatch"
    BY <2>1 DEF ValueOf
  <2>2. CASE n.type \in {"And", "Or"} /\ n.type # "FieldMatch"
    <3>1. \A i \in DOMAIN n.nodes : h[n.nodes[i]] = g[n.nodes[i]]
      BY <1>3, <2>2, ConditionAssumption
    <3> QED BY <2>2, <3>1 DEF ValueOf
  <2> QED BY <2>1, <2>2, ConditionAssumption
<1>4. \A h, g \in F : \A n \in Condition :
          (\A m \in Condition : Depth[m] < Depth[n] => h[m] = g[m]) => once[h][n] = once[g][n]
  <2> HIDE DEF T
  <2> QED BY <1>3
<1>5. T # {}
  <2>1. [e \in Event |-> TRUE] \in T
    OBVIOUS
  <2> QED BY <2>1
<1> HIDE DEF T
<1>6. PICK f \in F : f = once[f]
  <2> HIDE DEF once
  <2> QED BY <1>2, <1>4, <1>5, Solvable
<1>7. f = [n \in Condition |-> ValueOf(f, n)]
  BY <1>6
<1>8. EvaluateNode = [n \in Condition |-> ValueOf(EvaluateNode, n)]
  BY <1>7, Zenon DEF EvaluateNode, ValueOf
<1>9. EvaluateNode \in F
  BY <1>1, <1>8
<1> QED BY <1>8, <1>9 DEF T

ChoicesOf(h, n) ==
    {s \in CASE n.type = "FieldMatch" -> {{n}}
             [] n.type = "And" -> SUBSET Comparisons
             [] n.type = "Or" -> UNION {h[n.nodes[i]] : i \in DOMAIN n.nodes} :
        n.type = "And" => \A i \in DOMAIN n.nodes : \E a \in h[n.nodes[i]] : a \subseteq s}

LEMMA Chosen ==
  \A n \in Condition : Alternatives[n] = ChoicesOf(Alternatives, n) /\ Alternatives[n] \subseteq SUBSET Comparisons
<1> DEFINE T == SUBSET (SUBSET Comparisons)
           F == [Condition -> T]
           once == [h \in F |-> [n \in Condition |-> ChoicesOf(h, n)]]
<1>1. ASSUME NEW h, NEW n \in Condition, \A m \in Condition : Depth[m] < Depth[n] => h[m] \in T
      PROVE  ChoicesOf(h, n) \in T
  <2>1. CASE n.type = "FieldMatch"
    BY <2>1 DEF ChoicesOf, Comparisons
  <2>2. CASE n.type = "And"
    BY <2>2 DEF ChoicesOf
  <2>3. CASE n.type = "Or"
    <3>1. \A i \in DOMAIN n.nodes : h[n.nodes[i]] \subseteq SUBSET Comparisons
      BY <1>1, <2>3, ConditionAssumption
    <3> QED BY <2>3, <3>1 DEF ChoicesOf
  <2> QED BY <2>1, <2>2, <2>3, ConditionAssumption
<1>2. once \in [F -> F]
  BY <1>1
<1>3. ASSUME NEW h \in F, NEW g \in F, NEW n \in Condition,
             \A m \in Condition : Depth[m] < Depth[n] => h[m] = g[m]
      PROVE  ChoicesOf(h, n) = ChoicesOf(g, n)
  <2>1. CASE n.type = "FieldMatch"
    BY <2>1 DEF ChoicesOf
  <2>2. CASE n.type \in {"And", "Or"} /\ n.type # "FieldMatch"
    <3>1. \A i \in DOMAIN n.nodes : h[n.nodes[i]] = g[n.nodes[i]]
      BY <1>3, <2>2, ConditionAssumption
    <3> QED BY <2>2, <3>1 DEF ChoicesOf
  <2> QED BY <2>1, <2>2, ConditionAssumption
<1>4. \A h, g \in F : \A n \in Condition :
          (\A m \in Condition : Depth[m] < Depth[n] => h[m] = g[m]) => once[h][n] = once[g][n]
  <2> HIDE DEF T
  <2> QED BY <1>3
<1>5. T # {}
  OBVIOUS
<1> HIDE DEF T
<1>6. PICK f \in F : f = once[f]
  <2> HIDE DEF once
  <2> QED BY <1>2, <1>4, <1>5, Solvable
<1>7. f = [n \in Condition |-> ChoicesOf(f, n)]
  BY <1>6
<1>8. Alternatives = [n \in Condition |-> ChoicesOf(Alternatives, n)]
  BY <1>7, Zenon DEF Alternatives, ChoicesOf
<1>9. \A n \in Condition : Alternatives[n] = ChoicesOf(Alternatives, n)
  BY <1>8, Zenon
<1>10. \A n \in Condition : Alternatives[n] \in T
  <2> DEFINE bad == {n \in Condition : Alternatives[n] \notin T}
  <2>1. SUFFICES ASSUME bad # {} PROVE FALSE
    OBVIOUS
  <2>2. PICK n \in bad : \A m \in bad : Depth[n] <= Depth[m]
    BY <2>1, Simplest
  <2>3. \A m \in Condition : Depth[m] < Depth[n] => Alternatives[m] \in T
    BY <2>2, ConditionAssumption
  <2> QED BY <1>1, <1>9, <2>2, <2>3
<1> QED BY <1>9, <1>10 DEF T

(* A condition holds exactly when one of its alternatives is met in full.  *)
Met(a, fields) == \A m \in a : Matches(m, fields)

LEMMA EvaluateNodeExact ==
  ASSUME NEW n \in Condition, NEW fields \in Event
  PROVE  EvaluateNode[n][fields] <=> \E a \in Alternatives[n] : Met(a, fields)
<1> DEFINE Exact(m) == EvaluateNode[m][fields] <=> \E a \in Alternatives[m] : Met(a, fields)
           bad == {m \in Condition : ~Exact(m)}
<1>1. SUFFICES ASSUME bad # {} PROVE FALSE
  BY Zenon
<1>2. PICK m \in bad : \A i \in bad : Depth[m] <= Depth[i]
  <2> HIDE DEF Exact
  <2> QED BY <1>1, Simplest
<1>3. m \in Condition /\ ~Exact(m)
  OBVIOUS
<1>4. EvaluateNode[m][fields] <=> ValueOf(EvaluateNode, m)[fields]
  BY <1>3, Evaluated
<1>5. Alternatives[m] = ChoicesOf(Alternatives, m)
  BY <1>3, Chosen
<1>6. CASE m.type = "FieldMatch"
  <2>1. EvaluateNode[m][fields] <=> Matches(m, fields)
    BY <1>4, <1>6 DEF ValueOf
  <2>2. Alternatives[m] = {{m}}
    BY <1>3, <1>5, <1>6 DEF ChoicesOf, Comparisons
  <2> QED BY <1>3, <2>1, <2>2 DEF Met
<1>7. CASE m.type \in {"And", "Or"} /\ m.type # "FieldMatch"
  <2>1. ASSUME NEW i \in DOMAIN m.nodes PROVE m.nodes[i] \in Condition /\ Exact(m.nodes[i])
    <3>1. m.nodes[i] \in Condition /\ Depth[m.nodes[i]] < Depth[m] /\ Depth[m] \in Nat /\ Depth[m.nodes[i]] \in Nat
      BY <1>3, <1>7, ConditionAssumption
    <3>2. m.nodes[i] \notin bad
      BY <1>2, <3>1
    <3> QED BY <3>1, <3>2
  <2>2. CASE m.type = "Or"
    <3>1. EvaluateNode[m][fields] <=> \E i \in DOMAIN m.nodes : EvaluateNode[m.nodes[i]][fields]
      BY <1>4, <2>2 DEF ValueOf
    <3>2. \A s : s \in Alternatives[m] <=> /\ s \in SUBSET Comparisons
                                           /\ \E i \in DOMAIN m.nodes : s \in Alternatives[m.nodes[i]]
      <4>1. \A s : s \in Alternatives[m] <=> \E i \in DOMAIN m.nodes : s \in Alternatives[m.nodes[i]]
        BY <1>5, <2>2 DEF ChoicesOf
      <4> QED BY <1>3, <4>1, Chosen
    <3>3. \A k \in Condition : Alternatives[k] \subseteq SUBSET Comparisons
      BY Chosen
    <3>4. Exact(m)
      BY <2>1, <3>1, <3>2, <3>3
    <3> QED BY <1>3, <3>4
  <2>3. CASE m.type = "And"
    <3>1. EvaluateNode[m][fields] <=> \A i \in DOMAIN m.nodes : EvaluateNode[m.nodes[i]][fields]
      BY <1>4, <2>3 DEF ValueOf
    <3>2. \A s : s \in Alternatives[m] <=>
              /\ s \in SUBSET Comparisons
              /\ \A i \in DOMAIN m.nodes : \E a \in Alternatives[m.nodes[i]] : a \subseteq s
      BY <1>5, <2>3 DEF ChoicesOf
    <3>3. ASSUME EvaluateNode[m][fields] PROVE \E a \in Alternatives[m] : Met(a, fields)
      <4> DEFINE true == {k \in Comparisons : Matches(k, fields)}
      <4>1. ASSUME NEW i \in DOMAIN m.nodes PROVE \E a \in Alternatives[m.nodes[i]] : a \subseteq true
        <5>1. PICK a \in Alternatives[m.nodes[i]] : Met(a, fields)
          BY <2>1, <3>1, <3>3
        <5>2. a \subseteq Comparisons
          BY <2>1, Chosen
        <5> QED BY <5>1, <5>2 DEF Met
      <4>2. true \in Alternatives[m] /\ Met(true, fields)
        BY <3>2, <4>1 DEF Met
      <4> QED BY <4>2
    <3>4. ASSUME NEW s \in Alternatives[m], Met(s, fields) PROVE EvaluateNode[m][fields]
      <4>1. ASSUME NEW i \in DOMAIN m.nodes PROVE EvaluateNode[m.nodes[i]][fields]
        <5>1. PICK a \in Alternatives[m.nodes[i]] : a \subseteq s
          BY <3>2, <3>4
        <5>2. Met(a, fields)
          BY <3>4, <5>1 DEF Met
        <5> QED BY <2>1, <5>2
      <4> QED BY <3>1, <4>1
    <3> QED BY <1>3, <3>3, <3>4
  <2> QED BY <1>7, <2>2, <2>3
<1> QED BY <1>3, <1>6, <1>7, ConditionAssumption

(* The first rule of the category whose condition holds.                   *)
Hits(rules, category, fields) ==
    {i \in DOMAIN rules : rules[i].category = category /\ EvaluateNode[rules[i].condition][fields]}

LEMMA EvaluateFirst ==
  ASSUME NEW rules \in Seq([category : STRING, condition : Condition]), NEW category, NEW fields
  PROVE  LET v == Evaluate(rules, category, fields)
         IN  /\ v \in 0..Len(rules)
             /\ v = 0 <=> Hits(rules, category, fields) = {}
             /\ v # 0 => v \in Hits(rules, category, fields)
                         /\ \A i \in Hits(rules, category, fields) : v <= i
<1> DEFINE hits == Hits(rules, category, fields)
           v == Evaluate(rules, category, fields)
<1>1. hits \in SUBSET (1..Len(rules))
  BY DEF Hits
<1>2. v = IF hits = {} THEN 0 ELSE CHOOSE i \in hits : \A j \in hits : i <= j
  BY DEF Evaluate, First, Hits
<1> HIDE DEF hits, v
<1>3. CASE hits = {}
  BY <1>2, <1>3 DEF hits, v
<1>4. CASE hits # {}
  <2>1. hits \in SUBSET Nat
    BY <1>1
  <2>2. \E i \in hits : \A j \in hits : i <= j
    BY <1>4, <2>1, Least
  <2>3. v \in hits /\ \A j \in hits : v <= j
    BY <1>2, <1>4, <2>2, Zenon
  <2>4. v \in 1..Len(rules)
    BY <1>1, <2>3
  <2> QED BY <1>4, <2>3, <2>4 DEF hits, v
<1> QED BY <1>3, <1>4

-----------------------------------------------------------------------------
(* Launch.  What the actions change.                                       *)
LEMMA BooleanAnswers == ASSUME NEW f \in Facts, NEW tty \in BOOLEAN
                        PROVE  /\ Terminal(at, tty) \in BOOLEAN /\ Piped(f, tty) \in BOOLEAN
                               /\ f.redirected \in BOOLEAN /\ f.inline \in BOOLEAN
                               /\ f.tty \in BOOLEAN /\ f.spoofed \in BOOLEAN
  BY DEF Terminal, Piped, Facts

LEMMA AtTypes == ASSUME TypeOK, step # "none" PROVE at \in Pid /\ Now \in Facts
  BY DEF TypeOK, Now

LEMMA StateTypes == ASSUME TypeOK, step # "none", NEW tty \in BOOLEAN
                    PROVE  /\ StateFor(tty) \in State /\ StateFor(tty).present = TRUE
                           /\ StateFor(tty).untrusted = (untrusted \/ Piped(Now, tty) \/ Now.spoofed)
<1> DEFINE sg == Evaluate(Rules, "process_creation", FieldsOf(Now))
           u == untrusted \/ Piped(Now, tty) \/ Now.spoofed
           n == Now.program = "shell" /\ tty /\ ~Now.inline
<1>1. StateFor(tty) = [present |-> TRUE, untrusted |-> u, nakedTty |-> n, sigma |-> sg]
  BY DEF StateFor
<1>2. sg \in 0..Len(Rules)
  BY EvaluateFirst, LaunchAssumption
<1>3. u \in BOOLEAN /\ n \in BOOLEAN
  BY Zenon
<1> HIDE DEF sg, u, n
<1>4. StateFor(tty) \in State /\ StateFor(tty).present = TRUE /\ StateFor(tty).untrusted = u
  BY <1>1, <1>2, <1>3 DEF State
<1> QED BY <1>4 DEF u

(* The end of the handler, for what was seen of the terminal.              *)
Answered(b) ==
    LET tty == Terminal(at, b) IN
    /\ b \in BOOLEAN /\ (at \notin ended => b = Now.tty)
    /\ state' = [state EXCEPT ![at] = StateFor(tty)]
    /\ stopped' = stopped \/ stopped' = stopped \cup {at}
    /\ StateFor(tty).sigma # 0 => stopped' = stopped \cup {at}
    /\ Scanned(tty) => Begin(at)
    /\ ~Scanned(tty) => UNCHANGED yaraVars
    /\ at' = Nobody /\ step' = "none" /\ untrusted' = FALSE
    /\ UNCHANGED <<platform, facts, image, ended, pending, version, ghosts, disturbed, changed>>

LEMMA FinishView == ASSUME TypeOK, Finish
                    PROVE  step = "rest" /\ at \in Pid /\ Now \in Facts /\ \E b \in BOOLEAN : Answered(b)
<1>1. step = "rest" /\ at \in Pid /\ Now \in Facts
  BY AtTypes DEF Finish
<1>2. PICK b \in Seen(at, Now.tty) : FinishWith(Scanned(Terminal(at, b)), Terminal(at, b))
  BY DEF Finish
<1>3. b \in BOOLEAN /\ (at \notin ended => b = Now.tty)
  BY <1>1, <1>2, BooleanAnswers DEF Seen
<1>4. Answered(b)
  BY <1>2, <1>3 DEF Answered, FinishWith, osVars
<1> QED BY <1>1, <1>3, <1>4

(* A question answered.                                                    *)
Asks == CheckExcluded \/ CheckVendor \/ CheckDisplay

LEMMA AsksView ==
  ASSUME TypeOK, Asks
  PROVE  /\ at \in Pid /\ Now \in Facts /\ at' = at /\ untrusted' \in BOOLEAN
         /\ step' \in {"vendor", "display", "rest"}
         /\ UNCHANGED <<yaraVars, platform, facts, image, ended, pending, version, state, stopped, ghosts,
                        disturbed, changed>>
<1>1. at \in Pid /\ Now \in Facts
  BY AtTypes DEF Asks, CheckExcluded, CheckVendor, CheckDisplay
<1>2. untrusted' \in BOOLEAN
  BY Zenon DEF Asks, CheckExcluded, CheckVendor, CheckDisplay, Ask
<1> QED BY <1>1, <1>2 DEF Asks, CheckExcluded, CheckVendor, CheckDisplay, Ask, osVars

(* The handler takes up a launch, or kills the process at once.            *)
TakesUp(p) ==
    /\ at' = p /\ stopped' = stopped /\ step' = "excluded"
    /\ untrusted' = IF platform = "unix" THEN facts[p].where # "usual"
                    ELSE facts[p].program = "interpreter" /\ facts[p].inline

KillsAtOnce(p) == at' = at /\ step' = "none" /\ untrusted' = FALSE /\ stopped' = stopped \cup {p}

LEMMA BeginView ==
  ASSUME TypeOK, BeginLaunch
  PROVE  /\ at = Nobody /\ pending # <<>> /\ Head(pending) \in Pid /\ pending' = Tail(pending)
         /\ TakesUp(Head(pending)) \/ KillsAtOnce(Head(pending))
         /\ untrusted' \in BOOLEAN /\ ghosts' \in SUBSET Pid
         /\ UNCHANGED <<yaraVars, platform, facts, image, ended, version, state, disturbed, changed>>
<1> DEFINE p == Head(pending)
<1>1. at = Nobody /\ pending # <<>> /\ p \in Pid /\ pending' = Tail(pending)
  BY HeadTailProperties DEF BeginLaunch, TypeOK
<1> HIDE DEF p
<1>2. CASE platform = "windows" /\ facts[p].redirected
  BY <1>1, <1>2 DEF BeginLaunch, Ask, KillsAtOnce, TypeOK, osVars, p
<1>3. CASE ~ (platform = "windows" /\ facts[p].redirected)
  <2>1. /\ at' = p /\ UNCHANGED stopped
        /\ ghosts' = IF platform = "unix" /\ facts[p].where \in {"memory", "descriptor"}
                     THEN ghosts \cup {p} ELSE ghosts
        /\ Ask("excluded", IF platform = "unix" THEN facts[p].where # "usual"
                           ELSE facts[p].program = "interpreter" /\ facts[p].inline)
    BY <1>3 DEF BeginLaunch, p
  <2>2. TakesUp(p) /\ UNCHANGED <<yaraVars, osVars, version, state, disturbed, changed>>
    BY <2>1 DEF Ask, TakesUp
  <2>3. untrusted' \in BOOLEAN
    BY <2>1, Zenon DEF Ask
  <2> QED BY <1>1, <2>1, <2>2, <2>3 DEF TypeOK, osVars, p
<1> QED BY <1>2, <1>3

-----------------------------------------------------------------------------
(* What Launch does to the cache and the scans YaraCache allows.           *)
LEMMA StepIsYara == ASSUME TypeOK, [Next]_vars PROVE [YaraNext]_yaraVars
<1>1. CASE Finish
  <2>1. at \in Scan /\ (Begin(at) \/ UNCHANGED yaraVars)
    BY <1>1, FinishView DEF Answered, Pid
  <2> QED BY <2>1 DEF YaraNext
<1>2. CASE BeginLaunch
  BY <1>2, BeginView
<1>3. CASE Asks
  BY <1>3, AsksView
<1>4. CASE ChangeProgram
  BY <1>4 DEF ChangeProgram, YaraNext
<1>5. ASSUME NEW p \in Pid, ScanStep(p) PROVE YaraNext
  BY <1>5 DEF ScanStep, Scanning, YaraNext, Pid
<1>6. ASSUME NEW p \in Pid, Start(p) \/ End(p) \/ StopScanned(p) PROVE UNCHANGED yaraVars
  BY <1>6 DEF Start, End, StopScanned
<1>7. CASE SwapRules
  BY <1>7 DEF SwapRules
<1>8. CASE UNCHANGED vars
  BY <1>8 DEF vars
<1> QED BY <1>1, <1>2, <1>3, <1>4, <1>5, <1>6, <1>7, <1>8 DEF Next, Asks

(* What a process runs: the file's content, or what was put into memory.   *)
LEMMA StartView ==
  ASSUME TypeOK, NEW p \in Pid, Start(p)
  PROVE  \E c \in Content : image' = [image EXCEPT ![p] = c] /\ (~InMemory(p) => c = content)
<1>1. PICK c \in (IF InMemory(p) THEN Content ELSE {content} \ {None}) : image' = [image EXCEPT ![p] = c]
  BY DEF Start
<1>2. c \in Content /\ (~InMemory(p) => c = content)
  BY <1>1 DEF TypeOK, YaraTypeOK
<1> QED BY <1>1, <1>2

LEMMA LaunchInit == Init => TypeOK
<1> SUFFICES ASSUME Init PROVE TypeOK
  OBVIOUS
<1>1. YaraTypeOK /\ \A p \in Pid : scan[p].pc = "none"
  BY YaraInits DEF Init, YaraInit, Pid
<1>2. Absent \in State
  BY LaunchAssumption DEF Absent, State
<1>3. state \in [Pid -> State]
  BY <1>2 DEF Init
<1>4. facts \in [Pid -> Facts] /\ platform \in Platforms
  BY DEF Init
<1>5. pending \in Seq(Pid) /\ image \in [Pid -> Content \cup {None}] /\ version \in 0..1
  BY DEF Init
<1>6. at = Nobody /\ step = "none" /\ untrusted \in BOOLEAN
  BY DEF Init
<1>7. /\ ended \in SUBSET Pid /\ stopped \in SUBSET Pid /\ ghosts \in SUBSET Pid
      /\ disturbed \in SUBSET Pid /\ changed \in SUBSET Pid
  BY DEF Init
<1> QED BY <1>1, <1>3, <1>4, <1>5, <1>6, <1>7 DEF TypeOK

LEMMA LaunchTypes == ASSUME TypeOK, [Next]_vars PROVE TypeOK'
<1>0. YaraTypeOK'
  BY StepIsYara, YaraStepTypes DEF TypeOK
<1>1. CASE Finish
  <2>1. step = "rest" /\ at \in Pid
    BY <1>1, FinishView
  <2>2. PICK b \in BOOLEAN : Answered(b)
    BY <1>1, FinishView
  <2>3. StateFor(Terminal(at, b)) \in State /\ StateFor(Terminal(at, b)).present = TRUE
    BY <2>1, <2>2, StateTypes, BooleanAnswers, AtTypes
  <2>4. state' \in [Pid -> State] /\ state'[at].present = TRUE /\ \A p \in Pid \ {at} : state'[p] = state[p]
    BY <2>1, <2>2, <2>3 DEF Answered, TypeOK
  <2>5. \A p \in Pid \ {at} : scan'[p].pc = scan[p].pc
    BY <2>1, <2>2 DEF Answered, Begin, Goto, yaraVars, TypeOK, YaraTypeOK, Pid
  <2>6. \A p \in Pid : scan'[p].pc # "none" => state'[p].present
    BY <2>4, <2>5 DEF TypeOK
  <2>7. stopped' \in SUBSET Pid
    BY <2>1, <2>2 DEF Answered, TypeOK
  <2> QED BY <1>0, <2>2, <2>4, <2>6, <2>7 DEF Answered, TypeOK
<1>2. CASE BeginLaunch
  <2>1. pending' \in Seq(Pid)
    BY <1>2, BeginView, HeadTailProperties DEF TypeOK
  <2>2. /\ stopped' \in SUBSET Pid /\ at' \in Pid \cup {Nobody} /\ step' \in {"none", "excluded"}
        /\ (at' = Nobody) = (step' = "none")
    <3>1. Head(pending) \in Pid /\ Head(pending) # Nobody /\ at = Nobody
      BY <1>2, BeginView, LaunchAssumption
    <3> DEFINE p == Head(pending)
    <3>4. stopped \in SUBSET Pid /\ at \in Pid \cup {Nobody} /\ (at = Nobody) = (step = "none")
      BY DEF TypeOK
    <3>5. p \in Pid /\ p # Nobody
      BY <3>1
    <3> HIDE DEF p
    <3>2. CASE TakesUp(p)
      BY <3>1, <3>2, <3>4, <3>5 DEF TakesUp
    <3>3. CASE KillsAtOnce(p)
      BY <3>1, <3>3, <3>4, <3>5 DEF KillsAtOnce
    <3>6. TakesUp(p) \/ KillsAtOnce(p)
      BY <1>2, BeginView DEF p
    <3> QED BY <3>2, <3>3, <3>6
  <2> QED BY <1>0, <1>2, <2>1, <2>2, BeginView DEF TypeOK, yaraVars
<1>3. CASE Asks
  <2>1. pending' = pending
    BY <1>3, AsksView
  <2>2. at # Nobody
    BY <1>3, AsksView, LaunchAssumption
  <2> QED BY <1>0, <1>3, <2>1, <2>2, AsksView DEF TypeOK, yaraVars
<1>4. CASE ChangeProgram
  <2>1. /\ changed' \in SUBSET Pid /\ scan' = scan
        /\ UNCHANGED <<osVars, pending, version, handlerVars, state, stopped, ghosts, disturbed>>
    BY <1>4 DEF ChangeProgram, TypeOK, Edit
  <2> QED BY <1>0, <2>1 DEF TypeOK, osVars, handlerVars
<1>5. ASSUME NEW q \in Pid, ScanStep(q) PROVE TypeOK'
  <2>1. UNCHANGED <<osVars, pending, version, handlerVars, state, stopped, ghosts, disturbed, changed>>
    BY <1>5 DEF ScanStep
  <2>2. \A p \in Pid : scan'[p].pc # "none" => scan[p].pc # "none"
    <3>1. Scanning(q) /\ q \in Scan
      BY <1>5 DEF ScanStep, Scanning, Pid
    <3>2. scan[q].pc # "none" /\ \A p \in Scan \ {q} : scan'[p] = scan[p]
      BY <3>1, ScanView DEF TypeOK, Scanning, TakeHash, SkipScan, HashFails, Lookup, ScanFails, Judge
    <3> QED BY <3>2 DEF Pid
  <2> QED BY <1>0, <2>1, <2>2 DEF TypeOK, osVars, handlerVars
<1>6. ASSUME NEW p \in Pid, Start(p) PROVE TypeOK'
  <2>1. image' \in [Pid -> Content \cup {None}] /\ pending' \in Seq(Pid)
    <3>1. PICK c \in Content : image' = [image EXCEPT ![p] = c]
      BY <1>6, StartView
    <3>2. pending' = Append(pending, p) /\ pending \in Seq(Pid)
      BY <1>6 DEF Start, TypeOK
    <3>3. image' \in [Pid -> Content \cup {None}]
      BY <3>1 DEF TypeOK
    <3> QED BY <3>2, <3>3, AppendProperties
  <2>2. UNCHANGED <<scan, platform, facts, ended, version, at, step, untrusted, state, stopped, ghosts,
                    disturbed, changed>>
    BY <1>6 DEF Start, handlerVars, yaraVars
  <2> QED BY <1>0, <2>1, <2>2 DEF TypeOK
<1>7. ASSUME NEW p \in Pid, End(p) PROVE TypeOK'
  <2>1. ended' \in SUBSET Pid /\ disturbed' \in SUBSET Pid
    BY <1>7 DEF End, TypeOK
  <2> QED BY <1>0, <1>7, <2>1 DEF End, TypeOK, handlerVars, yaraVars
<1>8. ASSUME NEW p \in Pid, StopScanned(p) PROVE TypeOK'
  BY <1>0, <1>8 DEF StopScanned, TypeOK, handlerVars, osVars, yaraVars
<1>9. CASE SwapRules
  BY <1>0, <1>9 DEF SwapRules, TypeOK, handlerVars, osVars, yaraVars
<1>10. CASE UNCHANGED vars
  BY <1>0, <1>10 DEF vars, TypeOK, handlerVars, osVars, yaraVars
<1> QED BY <1>1, <1>2, <1>3, <1>4, <1>5, <1>6, <1>7, <1>8, <1>9, <1>10 DEF Next, Asks

-----------------------------------------------------------------------------
(* The queue of launches.  A launch is in it once, and neither handled nor *)
(* at the handler; a process that has ended was handled before, or else is *)
(* one of the disturbed.                                                   *)
In(p, q) == \E i \in DOMAIN q : q[i] = p
Distinct(q) == \A i, j \in DOMAIN q : q[i] = q[j] => i = j

Queue ==
    /\ Distinct(pending)
    /\ \A p \in Pid : In(p, pending) => p # at
    /\ \A p \in Pid : In(p, pending) \/ p = at => image[p] # None /\ ~Handled(p)
    /\ \A p \in Pid : Handled(p) => image[p] # None
    /\ \A p \in ended : image[p] # None /\ (Handled(p) \/ p \in disturbed)

LEMMA TailIn ==
  ASSUME NEW q \in Seq(Pid), q # <<>>, Distinct(q)
  PROVE  /\ Distinct(Tail(q)) /\ In(Head(q), q)
         /\ \A p : In(p, Tail(q)) <=> In(p, q) /\ p # Head(q)
<1>1. /\ Len(q) \in Nat /\ Len(q) >= 1 /\ DOMAIN q = 1..Len(q) /\ Head(q) = q[1]
      /\ DOMAIN Tail(q) = 1 .. (Len(q) - 1) /\ \A i \in DOMAIN Tail(q) : Tail(q)[i] = q[i + 1]
  OBVIOUS
<1> DEFINE t == Tail(q)
<1> HIDE DEF t
<1>2. Distinct(t)
  BY <1>1 DEF Distinct, t
<1>3. In(Head(q), q)
  BY <1>1 DEF In
<1>4. ASSUME NEW p, In(p, t) PROVE In(p, q) /\ p # Head(q)
  <2>1. PICK i \in DOMAIN t : t[i] = p
    BY <1>4 DEF In
  <2>2. i + 1 \in DOMAIN q /\ 1 \in DOMAIN q /\ q[i + 1] = p /\ i + 1 # 1
    BY <1>1, <2>1 DEF t
  <2> QED BY <1>1, <2>2 DEF In, Distinct
<1>5. ASSUME NEW p, In(p, q), p # Head(q) PROVE In(p, t)
  <2>1. PICK i \in DOMAIN q : q[i] = p
    BY <1>5 DEF In
  <2>2. i - 1 \in DOMAIN t /\ t[i - 1] = p
    BY <1>1, <1>5, <2>1 DEF t
  <2> QED BY <2>2 DEF In
<1> QED BY <1>2, <1>3, <1>4, <1>5 DEF t

LEMMA AppendIn ==
  ASSUME NEW q \in Seq(Pid), NEW x \in Pid, Distinct(q), ~In(x, q)
  PROVE  Distinct(Append(q, x)) /\ \A p : In(p, Append(q, x)) <=> In(p, q) \/ p = x
<1>1. /\ Len(q) \in Nat /\ DOMAIN q = 1..Len(q) /\ DOMAIN Append(q, x) = 1 .. (Len(q) + 1)
      /\ \A i \in DOMAIN q : Append(q, x)[i] = q[i]
      /\ Append(q, x)[Len(q) + 1] = x
  OBVIOUS
<1> DEFINE a == Append(q, x)
<1> HIDE DEF a
<1>2. \A i \in DOMAIN a : (i \in DOMAIN q /\ a[i] = q[i]) \/ (i = Len(q) + 1 /\ a[i] = x)
  BY <1>1 DEF a
<1>3. \A i \in DOMAIN q : i \in DOMAIN a /\ a[i] = q[i]
  BY <1>1 DEF a
<1>4. Distinct(a)
  BY <1>2 DEF Distinct, In
<1>5. Len(q) + 1 \in DOMAIN a /\ a[Len(q) + 1] = x
  BY <1>1 DEF a
<1>6. ASSUME NEW p PROVE In(p, a) <=> In(p, q) \/ p = x
  BY <1>2, <1>3, <1>5 DEF In
<1> QED BY <1>4, <1>6 DEF a

LEMMA StepQueue == ASSUME TypeOK, Queue, [Next]_vars PROVE Queue'
<1>1. CASE Finish
  <2>1. PICK b \in BOOLEAN : Answered(b)
    BY <1>1, FinishView
  <2>2. at \in Pid /\ step = "rest" /\ StateFor(Terminal(at, b)).present = TRUE
    BY <1>1, <2>1, FinishView, StateTypes, BooleanAnswers
  <2>3. \A p \in Pid : Handled(p)' <=> Handled(p) \/ p = at
    BY <2>1, <2>2 DEF Answered, Handled, TypeOK
  <2>4. Nobody \notin Pid
    BY LaunchAssumption
  <2> QED BY <2>1, <2>2, <2>3, <2>4 DEF Answered, Queue, TypeOK
<1>2. CASE BeginLaunch
  <2> DEFINE h == Head(pending)
  <2>1. /\ at = Nobody /\ h \in Pid /\ pending' = Tail(pending) /\ (TakesUp(h) \/ KillsAtOnce(h))
        /\ Nobody \notin Pid
    BY <1>2, BeginView, LaunchAssumption
  <2>2. Distinct(pending') /\ In(h, pending) /\ \A p : In(p, pending') <=> In(p, pending) /\ p # h
    BY <1>2, <2>1, BeginView, TailIn DEF Queue, TypeOK
  <2>3. UNCHANGED <<image, ended, state, disturbed>>
    BY <1>2, BeginView
  <2> HIDE DEF h
  <2>4. CASE TakesUp(h)
    <3>1. \A p \in Pid : Handled(p)' <=> Handled(p)
      BY <2>3, <2>4 DEF TakesUp, Handled
    <3> QED BY <2>1, <2>2, <2>3, <2>4, <3>1 DEF TakesUp, Queue, TypeOK
  <2>5. CASE KillsAtOnce(h)
    <3>1. \A p \in Pid : Handled(p)' <=> Handled(p) \/ p = h
      BY <2>3, <2>5 DEF KillsAtOnce, Handled
    <3> QED BY <2>1, <2>2, <2>3, <2>5, <3>1 DEF KillsAtOnce, Queue, TypeOK
  <2> QED BY <2>1, <2>4, <2>5
<1>3. CASE Asks
  <2>1. UNCHANGED <<at, image, ended, state, stopped, disturbed>> /\ pending' = pending
    BY <1>3, AsksView
  <2> QED BY <2>1 DEF Queue, Handled
<1>4. CASE ChangeProgram
  <2>1. UNCHANGED <<at, image, ended, state, stopped, disturbed>> /\ pending' = pending
    BY <1>4 DEF ChangeProgram, osVars, handlerVars
  <2> QED BY <2>1 DEF Queue, Handled
<1>5. ASSUME NEW q \in Pid, ScanStep(q) PROVE Queue'
  <2>1. UNCHANGED <<at, image, ended, state, stopped, disturbed>> /\ pending' = pending
    BY <1>5 DEF ScanStep, osVars, handlerVars
  <2> QED BY <2>1 DEF Queue, Handled
<1>6. ASSUME NEW q \in Pid, Start(q) PROVE Queue'
  <2> PICK c \in Content : image' = [image EXCEPT ![q] = c]
    BY <1>6, StartView
  <2>1. /\ image[q] = None /\ image' = [image EXCEPT ![q] = c] /\ c # None
        /\ pending' = Append(pending, q) /\ UNCHANGED <<at, ended, state, stopped, disturbed>>
    BY <1>6, YaraAssumption DEF Start, handlerVars
  <2>2. ~In(q, pending) /\ q # at /\ ~Handled(q)
    BY <2>1 DEF Queue
  <2>3. Distinct(pending') /\ \A p : In(p, pending') <=> In(p, pending) \/ p = q
    BY <2>1, <2>2, AppendIn DEF Queue, TypeOK
  <2>4. \A p \in Pid : Handled(p)' <=> Handled(p)
    BY <2>1 DEF Handled
  <2>5. image'[q] # None /\ \A p \in Pid \ {q} : image'[p] = image[p]
    BY <2>1 DEF TypeOK
  <2> QED BY <2>1, <2>2, <2>3, <2>4, <2>5 DEF Queue, TypeOK
<1>7. ASSUME NEW q \in Pid, End(q) PROVE Queue'
  <2>1. /\ image[q] # None /\ ended' = ended \cup {q} /\ (Handled(q) \/ q \in disturbed')
        /\ disturbed \subseteq disturbed'
        /\ UNCHANGED <<at, image, state, stopped>> /\ pending' = pending
    BY <1>7 DEF End, handlerVars
  <2>2. \A p \in Pid : Handled(p)' <=> Handled(p)
    BY <2>1 DEF Handled
  <2> QED BY <2>1, <2>2 DEF Queue, TypeOK
<1>8. ASSUME NEW q \in Pid, StopScanned(q) PROVE Queue'
  <2>1. /\ state[q].present /\ stopped' = stopped \cup {q}
        /\ UNCHANGED <<at, image, ended, state, disturbed>> /\ pending' = pending
    BY <1>8 DEF StopScanned, handlerVars, osVars, TypeOK
  <2>2. \A p \in Pid : Handled(p)' <=> Handled(p)
    BY <2>1 DEF Handled
  <2> QED BY <2>1, <2>2 DEF Queue, TypeOK
<1>9. CASE SwapRules
  <2>1. /\ disturbed \subseteq disturbed'
        /\ UNCHANGED <<at, image, ended, state, stopped>> /\ pending' = pending
    BY <1>9 DEF SwapRules, handlerVars, osVars
  <2>2. \A p \in Pid : Handled(p)' <=> Handled(p)
    BY <2>1 DEF Handled
  <2> QED BY <2>1, <2>2 DEF Queue, TypeOK
<1>10. CASE UNCHANGED vars
  <2>1. UNCHANGED <<at, image, ended, state, stopped, disturbed>> /\ pending' = pending
    BY <1>10 DEF vars, osVars, handlerVars
  <2> QED BY <2>1 DEF Queue, Handled
<1> QED BY <1>1, <1>2, <1>3, <1>4, <1>5, <1>6, <1>7, <1>8, <1>9, <1>10 DEF Next, Asks

-----------------------------------------------------------------------------
(* The handler's answers so far, for the launch it is at, when neither the *)
(* rules nor the process have changed since it was taken up.               *)
Local(f) == IF platform = "unix" THEN f.where # "usual" ELSE f.program = "interpreter" /\ f.inline
Placed(f) == Local(f) /\ f.where \notin ExcludedBy[version]
Unvouched(f) == Placed(f) /\ ~VendorTrusted[version]
Displaced(f) == Unvouched(f) \/ (platform = "unix" /\ f.redirected)

Asked ==
    at \in Pid \ disturbed =>
        /\ step = "excluded" => (untrusted <=> Local(facts[at]))
        /\ step = "vendor" => (untrusted <=> Placed(facts[at]))
        /\ step = "display" => (untrusted <=> Unvouched(facts[at]))
        /\ step = "rest" => (untrusted <=> Displaced(facts[at]))

(* Steps of others than the handler and the reload.                        *)
LEMMA AsideView ==
  ASSUME TypeOK, [Next]_vars, ~BeginLaunch, ~Asks, ~Finish
  PROVE  /\ UNCHANGED <<platform, facts, at, step, untrusted, state>>
         /\ pending' = pending \/ \E p \in Pid : Start(p)
         /\ disturbed \subseteq disturbed'
         /\ version' = version \/ (version = 0 /\ version' = 1 /\ at \notin Pid \ disturbed')
<1>1. CASE SwapRules
  BY <1>1, LaunchAssumption DEF SwapRules, osVars, handlerVars, TypeOK
<1>2. ASSUME NEW p \in Pid, Start(p) \/ End(p) \/ ScanStep(p) \/ StopScanned(p)
      PROVE  /\ UNCHANGED <<platform, facts, at, step, untrusted, state, version>>
             /\ disturbed \subseteq disturbed'
             /\ pending' = pending \/ Start(p)
  BY <1>2 DEF Start, End, ScanStep, StopScanned, osVars, handlerVars
<1>3. CASE ChangeProgram \/ UNCHANGED vars
  BY <1>3 DEF ChangeProgram, vars, osVars, handlerVars
<1> QED BY <1>1, <1>2, <1>3 DEF Next, Asks

(* A launch that is not disturbed is seen as it was.                       *)
LEMMA AtIsAlive == ASSUME TypeOK, Queue, at \in Pid \ disturbed PROVE at \notin ended
  BY DEF Queue

LEMMA StepAsked == ASSUME TypeOK, Queue, Asked, [Next]_vars PROVE Asked'
<1>1. CASE Finish
  BY <1>1, FinishView, LaunchAssumption DEF Answered, Asked
<1>2. CASE BeginLaunch
  <2> DEFINE h == Head(pending)
  <2>1. /\ at = Nobody /\ h \in Pid /\ (TakesUp(h) \/ KillsAtOnce(h)) /\ UNCHANGED <<platform, facts>>
        /\ Nobody \notin Pid
    BY <1>2, BeginView, LaunchAssumption
  <2> HIDE DEF h
  <2>2. CASE KillsAtOnce(h)
    BY <2>1, <2>2 DEF KillsAtOnce, Asked
  <2>3. CASE TakesUp(h)
    <3>1. untrusted' <=> Local(facts[h])
      BY <2>3, Zenon DEF TakesUp, Local
    <3>2. at' = h /\ step' = "excluded" /\ (Local(facts[at])' <=> Local(facts[h]))
      BY <2>1, <2>3 DEF TakesUp, Local
    <3> QED BY <3>1, <3>2 DEF Asked
  <2> QED BY <2>1, <2>2, <2>3
<1>3. CASE Asks
  <2>1. /\ at \in Pid /\ Now \in Facts /\ at' = at /\ Now = facts[at]
        /\ UNCHANGED <<platform, facts, ended, version, disturbed>>
    BY <1>3, AsksView DEF Now
  <2>2. SUFFICES ASSUME at \in Pid \ disturbed
                 PROVE  /\ step' = "excluded" => (untrusted' <=> Local(facts[at]))
                        /\ step' = "vendor" => (untrusted' <=> Placed(facts[at]))
                        /\ step' = "display" => (untrusted' <=> Unvouched(facts[at]))
                        /\ step' = "rest" => (untrusted' <=> Displaced(facts[at]))
    BY <2>1 DEF Asked, Local, Placed, Unvouched, Displaced
  <2>3. CASE CheckExcluded
    <3>1. step = "excluded" /\ step' = "vendor" /\ untrusted' = (untrusted /\ Now.where \notin ExcludedBy[version])
      BY <2>3 DEF CheckExcluded, Ask
    <3>2. untrusted <=> Local(facts[at])
      BY <2>2, <3>1 DEF Asked
    <3>3. untrusted' <=> Placed(facts[at])
      BY <2>1, <3>1, <3>2, Zenon DEF Placed
    <3> QED BY <3>1, <3>3
  <2>4. CASE CheckVendor
    <3>1. step = "vendor" /\ step' = "display" /\ untrusted' = (untrusted /\ ~VendorTrusted[version])
      BY <2>4 DEF CheckVendor, Ask
    <3>2. untrusted <=> Placed(facts[at])
      BY <2>2, <3>1 DEF Asked
    <3>3. untrusted' <=> Unvouched(facts[at])
      BY <3>1, <3>2, Zenon DEF Unvouched
    <3> QED BY <3>1, <3>3
  <2>5. CASE CheckDisplay
    <3>1. PICK r \in Seen(at, Now.redirected) :
            step' = "rest" /\ untrusted' = (untrusted \/ (platform = "unix" /\ r))
      BY <2>5 DEF CheckDisplay, Ask
    <3>2. r = Now.redirected /\ step = "display"
      BY <2>2, <2>5, <3>1, AtIsAlive DEF Seen, CheckDisplay
    <3>3. untrusted <=> Unvouched(facts[at])
      BY <2>2, <3>2 DEF Asked
    <3>4. untrusted' <=> Displaced(facts[at])
      BY <2>1, <3>1, <3>2, <3>3, Zenon DEF Displaced
    <3> QED BY <3>1, <3>4
  <2> QED BY <1>3, <2>3, <2>4, <2>5 DEF Asks
<1>4. CASE ~BeginLaunch /\ ~Asks /\ ~Finish
  <2>1. SUFFICES ASSUME at \in Pid \ disturbed' PROVE Asked'
    BY <1>4, AsideView DEF Asked
  <2>2. UNCHANGED <<platform, facts, at, step, untrusted, version>> /\ at \in Pid \ disturbed
    BY <1>4, <2>1, AsideView
  <2> QED BY <2>2 DEF Asked, Local, Placed, Unvouched, Displaced
<1> QED BY <1>1, <1>2, <1>3, <1>4

-----------------------------------------------------------------------------
(* A launch in the map has the verdict due to it under one version of the  *)
(* rules, and was scanned if that was due.                                 *)
Due(p, v) ==
    /\ state[p].untrusted <=> Suspect(facts[p], v) \/ facts[p].spoofed
    /\ Suspect(facts[p], v) => scan[p].pc # "none"

Classified == \A p \in Pid : state[p].present /\ p \notin disturbed => \E v \in 0..version : Due(p, v)

(* The answers come to Suspect.                                            *)
LEMMA AnswersAreSuspect ==
  ASSUME TypeOK, NEW f \in Facts, NEW tty, tty <=> platform = "unix" /\ f.tty
  PROVE  Displaced(f) \/ Piped(f, tty) <=> Suspect(f, version)
<1>1. Piped(f, tty) <=> Piped(f, platform = "unix" /\ f.tty)
  BY Zenon DEF Piped
<1>2. platform # "unix" /\ Local(f) => Piped(f, tty)
  BY DEF Local, Piped
<1> QED BY <1>1, <1>2, Zenon DEF Displaced, Unvouched, Placed, Local, Suspect

LEMMA ScanGoesOn == ASSUME TypeOK, [Next]_vars, NEW p \in Pid, scan[p].pc # "none" PROVE scan'[p].pc # "none"
<1>1. [YaraNext]_yaraVars
  BY StepIsYara
<1>2. CASE UNCHANGED yaraVars \/ \E c \in Content \cup {None} : Edit(c)
  BY <1>2 DEF yaraVars, Edit
<1>3. ASSUME NEW s \in Scan, Begin(s) \/ Scanning(s) PROVE scan'[p].pc # "none"
  BY <1>3, ScanView DEF Moved, TypeOK, Pid
<1> QED BY <1>1, <1>2, <1>3 DEF YaraNext

LEMMA StepClassified == ASSUME TypeOK, Queue, Asked, Classified, [Next]_vars PROVE Classified'
<1>0. \A p \in Pid : scan[p].pc # "none" => scan'[p].pc # "none"
  BY ScanGoesOn
<1>1. ASSUME UNCHANGED <<platform, facts>>, disturbed \subseteq disturbed', version \in 0..version',
             version' \in Nat, NEW p \in Pid, state'[p] = state[p], state'[p].present, p \notin disturbed'
      PROVE  \E v \in 0..version' : Due(p, v)'
  <2>1. PICK v \in 0..version : Due(p, v)
    BY <1>1 DEF Classified
  <2>2. Suspect(facts[p], v)' <=> Suspect(facts[p], v)
    BY <1>1 DEF Suspect, Piped
  <2>3. Due(p, v)'
    BY <1>0, <1>1, <2>1, <2>2 DEF Due
  <2>4. v \in 0..version'
    BY <1>1, <2>1 DEF TypeOK
  <2> QED BY <2>3, <2>4
<1>2. version \in Nat /\ version' \in Nat
  BY LaunchTypes DEF TypeOK
<1>3. CASE Finish
  <2>1. PICK b \in BOOLEAN : Answered(b)
    BY <1>3, FinishView
  <2> DEFINE tty == Terminal(at, b)
  <2>2. step = "rest" /\ at \in Pid /\ Now \in Facts /\ Now = facts[at] /\ tty \in BOOLEAN
    BY <1>3, FinishView, BooleanAnswers DEF Now
  <2>3. /\ StateFor(tty) \in State /\ StateFor(tty).present = TRUE
        /\ StateFor(tty).untrusted = (untrusted \/ Piped(Now, tty) \/ Now.spoofed)
    BY <2>2, StateTypes
  <2>4. /\ state' = [state EXCEPT ![at] = StateFor(tty)] /\ (Scanned(tty) => Begin(at))
        /\ UNCHANGED <<platform, facts, version, disturbed>>
        /\ (at \notin ended => b = Now.tty)
    BY <2>1 DEF Answered
  <2>5. at \notin ended => (tty <=> platform = "unix" /\ Now.tty)
    BY <2>4, Zenon DEF Terminal
  <2> HIDE DEF tty
  <2>6. ASSUME NEW p, p = at, p \notin disturbed, NEW v, v = version PROVE Due(p, v)'
    <3>1. untrusted <=> Displaced(Now)
      BY <2>2, <2>6 DEF Asked
    <3>2. Suspect(Now, version) <=> Scanned(tty)
      <4>1. tty <=> platform = "unix" /\ Now.tty
        BY <2>2, <2>5, <2>6, AtIsAlive
      <4>2. Displaced(Now) \/ Piped(Now, tty) <=> Suspect(Now, version)
        BY <2>2, <4>1, AnswersAreSuspect
      <4> QED BY <3>1, <4>2, Zenon DEF Scanned
    <3>3. Suspect(facts[p], v)' <=> Suspect(Now, version)
      BY <2>2, <2>4, <2>6 DEF Suspect, Piped
    <3>4. state'[p].untrusted <=> Scanned(tty) \/ Now.spoofed
      <4>1. state'[p] = StateFor(tty)
        BY <2>2, <2>4, <2>6 DEF TypeOK
      <4> QED BY <2>3, <4>1, Zenon DEF Scanned
    <3>5. Scanned(tty) => scan'[p].pc # "none"
      BY <2>2, <2>4, <2>6, ScanView DEF Begin, Moved, TypeOK, Pid
    <3>6. facts'[p] = Now
      BY <2>2, <2>4, <2>6
    <3> QED BY <3>2, <3>3, <3>4, <3>5, <3>6 DEF Due
  <2>7. SUFFICES ASSUME NEW p \in Pid, state'[p].present, p \notin disturbed'
                 PROVE  \E v \in 0..version' : Due(p, v)'
    BY DEF Classified
  <2>8. CASE p = at
    <3>1. \A v : v = version => Due(p, v)'
      BY <2>4, <2>6, <2>7, <2>8
    <3> QED BY <1>2, <2>4, <3>1
  <2>9. CASE p # at
    <3>1. state'[p] = state[p]
      BY <2>2, <2>4, <2>9 DEF TypeOK
    <3> QED BY <1>1, <1>2, <2>4, <2>7, <3>1
  <2> QED BY <2>8, <2>9
<1>4. CASE ~Finish
  <2>1. /\ UNCHANGED <<platform, facts, state>> /\ disturbed \subseteq disturbed'
        /\ version \in 0..version'
    <3>1. CASE BeginLaunch
      BY <1>2, <3>1, BeginView
    <3>2. CASE Asks
      BY <1>2, <3>2, AsksView
    <3>3. CASE ~BeginLaunch /\ ~Asks
      BY <1>2, <1>4, <3>3, AsideView
    <3> QED BY <3>1, <3>2, <3>3
  <2> QED BY <1>1, <1>2, <2>1 DEF Classified
<1> QED BY <1>3, <1>4

-----------------------------------------------------------------------------
(* As long as no change falls between launch and verdict, the scan of a    *)
(* file looks at what was launched, and each has a reason to let it pass.  *)
Excused(p) ==
    ~RulesLoaded \/ p \in hindered \/ image[p] \notin Malicious \ Large \/ image[p] \in tainted

Scans ==
    \A p \in Pid \ changed :
        /\ image[p] # None /\ ~InMemory(p) /\ scan[p].pc \notin Verdict => content = image[p]
        /\ ~InMemory(p) /\ scan[p].pc \in {"lookup", "read"} => scan[p].hash = image[p]
        /\ ~InMemory(p) /\ scan[p].pc = "clean" => Excused(p)

LEMMA ScannedIsLaunched == ASSUME TypeOK, Queue, NEW p \in Pid, scan[p].pc # "none" PROVE image[p] # None
  BY DEF TypeOK, Queue, Handled

LEMMA ScanStepScans ==
  ASSUME TypeOK, Queue, CacheSound, Scans, NEW s \in Pid, Begin(s) \/ Scanning(s), image[s] # None,
         image' = image, changed' = changed, facts' = facts
  PROVE  Scans'
<1>0. \A p \in Pid : InMemory(p)' <=> InMemory(p)
  BY DEF InMemory
<1>1. /\ content' = content /\ tainted \subseteq tainted' /\ hindered \subseteq hindered'
      /\ \A u \in Pid \ {s} : scan'[u] = scan[u]
      /\ Moved(s)
  BY ScanView DEF TypeOK, Pid
<1>2. SUFFICES ASSUME NEW p \in Pid \ changed, ~InMemory(p)
               PROVE  /\ image[p] # None /\ scan'[p].pc \notin Verdict => content = image[p]
                      /\ scan'[p].pc \in {"lookup", "read"} => scan'[p].hash = image[p]
                      /\ scan'[p].pc = "clean" => Excused(p)'
  BY <1>0, <1>1 DEF Scans
<1>3. Excused(p) => Excused(p)'
  BY <1>1 DEF Excused
<1>4. CASE p # s
  BY <1>1, <1>2, <1>3, <1>4 DEF Scans
<1>5. CASE p = s
  <2>1. /\ scan[s].pc \notin Verdict => content = image[s]
        /\ scan[s].pc \in {"lookup", "read"} => scan[s].hash = image[s]
        /\ scan[s].pc = "clean" => Excused(s)
    BY <1>2, <1>5 DEF Scans
  <2>2. scan[s].pc \notin Verdict
    BY DEF Begin, Scanning, TakeHash, SkipScan, HashFails, Lookup, ScanFails, Judge, Verdict
  <2>3. Cleared(s) => Excused(s)'
    <3>1. CASE ~RulesLoaded \/ content \in Large \/ s \in hindered' \/ content \in Content \ Malicious
      BY <1>1, <2>1, <2>2, <3>1 DEF Excused
    <3>2. CASE scan[s].pc = "lookup" /\ scan[s].hash \in Content /\ cache[scan[s].hash] = "clean"
      <4>1. image[s] \in tainted \/ image[s] \notin Malicious
        BY <2>1, <3>2 DEF CacheSound, VerdictOn, None
      <4> QED BY <1>1, <4>1 DEF Excused
    <3> QED BY <3>1, <3>2 DEF Cleared
  <2> QED BY <1>1, <1>5, <2>1, <2>2, <2>3 DEF Moved, Verdict
<1> QED BY <1>4, <1>5

LEMMA StepScans == ASSUME TypeOK, Queue, CacheSound, Scans, [Next]_vars PROVE Scans'
<1>1. CASE UNCHANGED <<yaraVars, facts, image, changed>>
  <2>1. UNCHANGED <<content, scan, tainted, hindered, facts, image, changed>>
    BY <1>1 DEF yaraVars
  <2> QED BY <2>1 DEF Scans, Excused, InMemory
<1>2. CASE Finish
  <2>1. /\ at \in Pid /\ image' = image /\ changed' = changed /\ facts' = facts
        /\ Begin(at) \/ UNCHANGED yaraVars
    BY <1>2, FinishView DEF Answered
  <2>2. image[at] # None
    BY <2>1 DEF Queue
  <2> QED BY <1>1, <2>1, <2>2, ScanStepScans
<1>3. ASSUME NEW s \in Pid, ScanStep(s) PROVE Scans'
  <2>1. Scanning(s) /\ image' = image /\ changed' = changed /\ facts' = facts
    BY <1>3 DEF ScanStep, Scanning, osVars
  <2>2. scan[s].pc # "none"
    BY <2>1 DEF Scanning, TakeHash, SkipScan, HashFails, Lookup, ScanFails, Judge
  <2> QED BY <2>1, <2>2, ScannedIsLaunched, ScanStepScans
<1>4. ASSUME NEW s \in Pid, Start(s) PROVE Scans'
  <2> PICK c \in Content : image' = [image EXCEPT ![s] = c] /\ (~InMemory(s) => c = content)
    BY <1>4, StartView
  <2>1. /\ image[s] = None /\ UNCHANGED <<content, scan, tainted, hindered, changed, facts>>
    BY <1>4 DEF Start, yaraVars
  <2>2. scan[s].pc = "none"
    BY <2>1, ScannedIsLaunched
  <2>3. image'[s] = c /\ \A p \in Pid \ {s} : image'[p] = image[p]
    BY DEF TypeOK
  <2>4. \A p \in Pid : InMemory(p)' <=> InMemory(p)
    BY <2>1 DEF InMemory
  <2> QED BY <2>1, <2>2, <2>3, <2>4 DEF Scans, Excused
<1>5. CASE ChangeProgram
  <2>1. /\ UNCHANGED <<scan, tainted, hindered, image, facts>> /\ changed \subseteq changed'
        /\ \A p \in Pid \ changed' : image[p] = None \/ InMemory(p) \/ scan[p].pc \in Verdict
    BY <1>5 DEF ChangeProgram, Edit, osVars, Verdict
  <2> QED BY <2>1 DEF Scans, Excused, InMemory
<1>6. CASE SwapRules \/ UNCHANGED vars
  BY <1>1, <1>6 DEF SwapRules, vars, osVars
<1>7. CASE BeginLaunch
  BY <1>1, <1>7, BeginView
<1>8. CASE Asks
  BY <1>1, <1>8, AsksView
<1>9. ASSUME NEW s \in Pid, End(s) \/ StopScanned(s) PROVE Scans'
  BY <1>1, <1>9 DEF End, StopScanned, osVars
<1> QED BY <1>2, <1>3, <1>4, <1>5, <1>6, <1>7, <1>8, <1>9 DEF Next, Asks

-----------------------------------------------------------------------------
(* Sigma's answer is kept with the state, and the process stopped.         *)
Tried ==
    \A p \in Pid : state[p].present =>
        /\ state[p].sigma = Evaluate(Rules, "process_creation", FieldsOf(facts[p]))
        /\ state[p].sigma # 0 => p \in stopped

(* Nothing takes a signal back.                                            *)
LEMMA StoppedGrows == ASSUME TypeOK, [Next]_vars, ~Finish PROVE stopped \subseteq stopped'
<1>1. CASE BeginLaunch
  BY <1>1, BeginView DEF TakesUp, KillsAtOnce
<1>2. CASE Asks
  BY <1>2, AsksView
<1>3. ASSUME NEW p \in Pid, Start(p) \/ End(p) \/ ScanStep(p) \/ StopScanned(p)
      PROVE  stopped \subseteq stopped'
  BY <1>3 DEF Start, End, ScanStep, StopScanned
<1>4. CASE SwapRules \/ ChangeProgram \/ UNCHANGED vars
  BY <1>4 DEF SwapRules, ChangeProgram, vars
<1> QED BY <1>1, <1>2, <1>3, <1>4 DEF Next, Asks

LEMMA StepTried == ASSUME TypeOK, Tried, [Next]_vars PROVE Tried'
<1>1. CASE Finish
  <2>1. PICK b \in BOOLEAN : Answered(b)
    BY <1>1, FinishView
  <2> DEFINE new == StateFor(Terminal(at, b))
  <2>2. /\ at \in Pid /\ Now = facts[at] /\ UNCHANGED facts /\ state' = [state EXCEPT ![at] = new]
        /\ stopped \subseteq stopped' /\ (new.sigma # 0 => at \in stopped')
    BY <1>1, <2>1, FinishView DEF Answered, Now
  <2>3. new.sigma = Evaluate(Rules, "process_creation", FieldsOf(Now))
    BY DEF StateFor
  <2> HIDE DEF new
  <2>4. ASSUME NEW p \in Pid, state'[p].present
        PROVE  /\ state'[p].sigma = Evaluate(Rules, "process_creation", FieldsOf(facts[p]))
               /\ state'[p].sigma # 0 => p \in stopped'
    <3>1. CASE p = at
      <4>1. state'[p] = new
        BY <2>2, <3>1 DEF TypeOK
      <4> QED BY <2>2, <2>3, <3>1, <4>1
    <3>2. CASE p # at
      <4>1. state'[p] = state[p]
        BY <2>2, <3>2 DEF TypeOK
      <4> QED BY <2>2, <2>4, <4>1 DEF Tried
    <3> QED BY <3>1, <3>2
  <2> QED BY <2>2, <2>4 DEF Tried
<1>2. CASE ~Finish
  <2>1. UNCHANGED <<facts, state>>
    <3>1. CASE BeginLaunch
      BY <3>1, BeginView
    <3>2. CASE Asks
      BY <3>2, AsksView
    <3>3. CASE ~BeginLaunch /\ ~Asks
      BY <1>2, <3>3, AsideView
    <3> QED BY <3>1, <3>2, <3>3
  <2> QED BY <1>2, <2>1, StoppedGrows DEF Tried
<1> QED BY <1>1, <1>2

-----------------------------------------------------------------------------
LaunchInv == TypeOK /\ CacheSound /\ Queue /\ Asked /\ Classified /\ Scans /\ Tried

LEMMA LaunchInits == Init => LaunchInv
<1> SUFFICES ASSUME Init PROVE LaunchInv
  OBVIOUS
<1>1. TypeOK /\ CacheSound
  BY LaunchInit, YaraInits DEF Init
<1>2. /\ pending = <<>> /\ at = Nobody /\ at \notin Pid /\ ended = {} /\ stopped = {}
      /\ \A p \in Pid : image[p] = None /\ ~state[p].present
      /\ \A p \in Pid : scan[p].pc = "none"
  BY LaunchAssumption DEF Init, Absent, YaraInit, Pid
<1>3. Queue
  BY <1>2 DEF Queue, Distinct, In, Handled
<1> QED BY <1>1, <1>2, <1>3 DEF LaunchInv, Asked, Classified, Scans, Tried, Verdict

LEMMA LaunchSteps == LaunchInv /\ [Next]_vars => LaunchInv'
<1> SUFFICES ASSUME LaunchInv, [Next]_vars PROVE LaunchInv'
  OBVIOUS
<1>1. CacheSound'
  BY StepIsYara, YaraStepSound DEF LaunchInv, TypeOK
<1> QED BY <1>1, LaunchTypes, StepQueue, StepAsked, StepClassified, StepScans, StepTried DEF LaunchInv

LEMMA LaunchAlways == Spec => []LaunchInv
<1> QED BY LaunchInits, LaunchSteps, PTL DEF Spec

(* The handler's scans, with the launches, reloads and exits around them,  *)
(* do to the file's verdicts nothing that YaraCache does not say           *)
(* (heuristics.rs 419-431, yara_scanner.rs 50-101).                        *)
THEOREM LaunchScans == Spec => YaraSpec
<1>1. Init => YaraInit
  BY DEF Init
<1>2. LaunchInv /\ [Next]_vars => [YaraNext]_yaraVars
  BY StepIsYara DEF LaunchInv
<1> QED BY LaunchAlways, <1>1, <1>2, PTL DEF Spec, YaraSpec

(* A launch is classified by what was launched and by one version of the   *)
(* rules, although the handler takes the rules' lock anew for each of its  *)
(* questions, unless a reload fell between them or the process had ended   *)
(* (heuristics.rs 176-407).                                                *)
THEOREM LaunchClassified == Spec => []ClassifiedAsLaunched
<1>1. LaunchInv => ClassifiedAsLaunched
  <2> SUFFICES ASSUME LaunchInv, NEW p \in Pid, state[p].present, p \notin disturbed
               PROVE  \E v \in 0..version : state[p].untrusted = (Suspect(facts[p], v) \/ facts[p].spoofed)
    BY DEF ClassifiedAsLaunched
  <2>1. PICK v \in 0..version : Due(p, v)
    BY DEF LaunchInv, Classified
  <2>2. state[p].untrusted \in BOOLEAN
    BY DEF LaunchInv, TypeOK, State
  <2>3. state[p].untrusted = (Suspect(facts[p], v) \/ facts[p].spoofed)
    BY <2>1, <2>2, Zenon DEF Due
  <2> QED BY <2>3
<1> QED BY LaunchAlways, <1>1, PTL

(* A suspect process whose program a YARA rule matches is not passed as    *)
(* clean, however launches, scans, changes of the file and reloads         *)
(* interleave, but for the exceptions the property names (heuristics.rs    *)
(* 419-431, yara_scanner.rs 50-101).                                       *)
THEOREM MalwareIsHeld == Spec => []MalwareIsNotCleared
<1>1. LaunchInv => MalwareIsNotCleared
  <2> SUFFICES ASSUME LaunchInv, NEW p \in Pid, state[p].present, image[p] \in Malicious \ Large, RulesLoaded,
                      ~InMemory(p), p \notin disturbed \cup changed \cup hindered,
                      \A v \in 0..version : Suspect(facts[p], v)
               PROVE  scan[p].pc \notin {"none", "clean"} \/ image[p] \in tainted
    BY DEF MalwareIsNotCleared
  <2>1. PICK v \in 0..version : Due(p, v)
    BY DEF LaunchInv, Classified
  <2>2. scan[p].pc # "none"
    BY <2>1 DEF Due
  <2>3. scan[p].pc = "clean" => Excused(p)
    BY DEF LaunchInv, Scans
  <2> QED BY <2>2, <2>3 DEF Excused
<1> QED BY LaunchAlways, <1>1, PTL

(* A process is stopped on account of the first rule for starts of         *)
(* processes of whose condition one of the alternatives is met in full,    *)
(* however conditions nest, and on account of none if there is none        *)
(* (sigma_engine.rs 58-84, heuristics.rs 435-451): evaluation agrees with  *)
(* the reference for every set of rules.                                   *)
THEOREM SigmaIsExact == Spec => []SigmaDecides
<1>1. LaunchInv => SigmaDecides
  <2> SUFFICES ASSUME LaunchInv, NEW p \in Pid, state[p].present,
                      NEW met, met = {i \in DOMAIN Rules :
                                         Satisfied(Rules[i], "process_creation", FieldsOf(facts[p]))}
               PROVE  IF met = {} THEN state[p].sigma = 0
                      ELSE /\ state[p].sigma \in met /\ \A i \in met : state[p].sigma <= i
                           /\ p \in stopped
    BY DEF SigmaDecides
  <2> DEFINE e == FieldsOf(facts[p])
             hits == Hits(Rules, "process_creation", e)
  <2>1. e \in Event
    BY LaunchAssumption DEF LaunchInv, TypeOK
  <2> HIDE DEF e
  <2>2. /\ state[p].sigma = 0 <=> hits = {}
        /\ state[p].sigma # 0 => state[p].sigma \in hits /\ \A i \in hits : state[p].sigma <= i
        /\ state[p].sigma # 0 => p \in stopped
    BY EvaluateFirst, LaunchAssumption DEF LaunchInv, Tried, e
  <2>3. ASSUME NEW i \in DOMAIN Rules
        PROVE  i \in hits <=> Satisfied(Rules[i], "process_creation", e)
    <3>1. Rules[i].condition \in Condition
      <4>1. Rules \in Seq([category : STRING, condition : Condition])
        BY LaunchAssumption
      <4>2. Rules[i] \in [category : STRING, condition : Condition]
        BY <4>1, ElementOfSeq, LenProperties
      <4> QED BY <4>2
    <3>2. EvaluateNode[Rules[i].condition][e] <=> \E a \in Alternatives[Rules[i].condition] : Met(a, e)
      BY <2>1, <3>1, EvaluateNodeExact
    <3> QED BY <3>2 DEF Hits, Satisfied, Met
  <2>4. hits \subseteq DOMAIN Rules
    BY DEF Hits
  <2>5. hits = met
    <3> HIDE DEF hits
    <3> QED BY <2>3, <2>4 DEF e
  <2> HIDE DEF hits
  <2>6. CASE met = {}
    BY <2>2, <2>5, <2>6
  <2>7. CASE met # {}
    BY <2>2, <2>5, <2>7, Zenon
  <2> QED BY <2>6, <2>7
<1> QED BY LaunchAlways, <1>1, PTL
=============================================================================
