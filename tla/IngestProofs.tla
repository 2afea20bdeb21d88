---------------------------- MODULE IngestProofs ----------------------------
(***************************************************************************)
(* That the socket, the tasks of its connections, the channel and the      *)
(* consumer thread implement EventStream: for any number of connections,   *)
(* events and places in the channel, and whatever becomes of the consumer. *)
(***************************************************************************)
EXTENDS Ingest, Integers, TLAPS

(* The last event of a connection that has entered the channel.            *)
Entered(p) == IF conn[p] = "sending" THEN read[p] - 1 ELSE read[p]

Queued(p, n) == \E i \in 1..Len(queue) : queue[i].peer = p /\ queue[i].n = n

(* Only an authenticated connection reads, and never ahead of its peer.    *)
Gate ==
    \A p \in Peer :
        /\ conn[p] \in {"none", "token"} => read[p] = 0 /\ reply[p] = 2
        /\ conn[p] \in {"open", "sending"} => reply[p] = 1
        /\ conn[p] = "sending" => read[p] >= 1
        /\ read[p] <= sent[p] /\ handled[p] <= Entered(p)

(* What waits in the channel: of each connection, in order, exactly what   *)
(* has entered it and was not taken up.                                    *)
Trusted == \A i \in 1..Len(queue) : reply[queue[i].peer] = 1

Increasing == \A i, j \in 1..Len(queue) :
                  i < j /\ queue[i].peer = queue[j].peer => queue[i].n < queue[j].n

Exact == consumer # "dead" =>
             \A p \in Peer, n \in Number :
                 Queued(p, n) <=> handled[p] < n /\ n <= Entered(p)

IInv == IngestTypeOK /\ Gate /\ Trusted /\ Increasing /\ Exact

-----------------------------------------------------------------------------
LEMMA EventFields == ASSUME IngestTypeOK, NEW i \in 1..Len(queue)
                     PROVE  /\ queue[i] \in Event
                            /\ queue[i].peer \in Peer /\ queue[i].n \in Number
<1>1. queue \in Seq(Event)
  BY DEF IngestTypeOK
<1>2. queue[i] \in Event
  BY <1>1
<1> QED BY <1>2 DEF Event

LEMMA Inits == IngestInit => IInv
<1> SUFFICES ASSUME IngestInit PROVE IInv
  OBVIOUS
<1> USE IngestAssumption DEF IngestInit
<1>1. IngestTypeOK
  BY DEF IngestTypeOK, Number, Token
<1>2. Gate
  <2>1. \A p \in Peer : conn[p] = "none" /\ reply[p] = 2 /\ read[p] = 0 /\ sent[p] = 0 /\ handled[p] = 0
    OBVIOUS
  <2>2. \A p \in Peer : Entered(p) = 0
    BY <2>1 DEF Entered
  <2>3. SUFFICES ASSUME NEW p \in Peer
                 PROVE  /\ conn[p] \in {"none", "token"} => read[p] = 0 /\ reply[p] = 2
                        /\ conn[p] \in {"open", "sending"} => reply[p] = 1
                        /\ conn[p] = "sending" => read[p] >= 1
                        /\ read[p] <= sent[p] /\ handled[p] <= Entered(p)
    BY Zenon DEF Gate
  <2> HIDE DEF IngestInit
  <2>4. conn[p] = "none" /\ reply[p] = 2 /\ read[p] = 0 /\ sent[p] = 0 /\ handled[p] = 0 /\ Entered(p) = 0
    BY <2>1, <2>2
  <2> QED BY <2>4
<1>3. Trusted /\ Increasing
  BY DEF Trusted, Increasing
<1>4. Exact
  BY DEF Exact, Queued, Entered, Number
<1> QED BY <1>1, <1>2, <1>3, <1>4 DEF IInv

-----------------------------------------------------------------------------
(* Steps of the peers and of a connection's task up to the send: nothing   *)
(* enters or leaves the channel.                                           *)
Outside(p) == Connect(p) \/ Emit(p) \/ Leave(p) \/ Handshake(p) \/ ReadEvent(p)
              \/ EndOfStream(p) \/ Reset(p) \/ SendFails(p)

LEMMA OutsideTypes == ASSUME IngestTypeOK, Gate, NEW p \in Peer, Outside(p) PROVE IngestTypeOK'
<1> USE IngestAssumption DEF IngestTypeOK, SetConn, peerVars, connVars, consumerVars
<1>1. CASE Connect(p)
  BY <1>1 DEF Connect
<1>2. CASE Emit(p)
  BY <1>2 DEF Emit, Number
<1>3. CASE Leave(p)
  BY <1>3 DEF Leave
<1>4. CASE Handshake(p)
  BY <1>4 DEF Handshake
<1>5. CASE ReadEvent(p)
  BY <1>5 DEF ReadEvent, Number
<1>6. CASE EndOfStream(p)
  BY <1>6 DEF EndOfStream
<1>7. CASE Reset(p)
  BY <1>7 DEF Reset
<1>8. CASE SendFails(p)
  BY <1>8 DEF SendFails
<1> QED BY <1>1, <1>2, <1>3, <1>4, <1>5, <1>6, <1>7, <1>8 DEF Outside

(* What such a step leaves of a connection q.                              *)
LEMMA OutsideConn ==
  ASSUME IngestTypeOK, Gate, NEW p \in Peer, Outside(p), NEW q \in Peer
  PROVE  /\ conn'[q] \in {"none", "token"} => read'[q] = 0 /\ reply'[q] = 2
         /\ conn'[q] \in {"open", "sending"} => reply'[q] = 1
         /\ conn'[q] = "sending" => read'[q] >= 1
         /\ read'[q] <= sent'[q]
         /\ reply[q] = 1 => reply'[q] = 1
         /\ consumer # "dead" => Entered(q)' = Entered(q)
         /\ Entered(q)' >= Entered(q)
<1> USE IngestAssumption DEF IngestTypeOK, Gate, Number, Entered, SetConn, peerVars, connVars, consumerVars
<1>1. CASE Connect(p)
  BY <1>1 DEF Connect
<1>2. CASE Emit(p)
  BY <1>2 DEF Emit
<1>3. CASE Leave(p)
  BY <1>3 DEF Leave
<1>4. CASE Handshake(p)
  BY <1>4 DEF Handshake
<1>5. CASE ReadEvent(p)
  BY <1>5 DEF ReadEvent
<1>6. CASE EndOfStream(p)
  BY <1>6 DEF EndOfStream
<1>7. CASE Reset(p)
  BY <1>7 DEF Reset
<1>8. CASE SendFails(p)
  BY <1>8 DEF SendFails
<1> QED BY <1>1, <1>2, <1>3, <1>4, <1>5, <1>6, <1>7, <1>8 DEF Outside

LEMMA OutsideSame == ASSUME NEW p \in Peer, Outside(p)
                     PROVE  queue' = queue /\ handled' = handled /\ consumer' = consumer
  BY DEF Outside, Connect, Emit, Leave, Handshake, ReadEvent, EndOfStream, Reset, SendFails,
         peerVars, connVars, consumerVars

LEMMA OutsideInv == ASSUME IInv, NEW p \in Peer, Outside(p) PROVE IInv'
<1> USE DEF IInv
<1>1. IngestTypeOK'
  BY OutsideTypes
<1>2. queue' = queue /\ handled' = handled /\ consumer' = consumer
  BY OutsideSame
<1>3. Gate'
  <2> SUFFICES ASSUME NEW q \in Peer
               PROVE  /\ conn'[q] \in {"none", "token"} => read'[q] = 0 /\ reply'[q] = 2
                      /\ conn'[q] \in {"open", "sending"} => reply'[q] = 1
                      /\ conn'[q] = "sending" => read'[q] >= 1
                      /\ read'[q] <= sent'[q] /\ handled'[q] <= Entered(q)'
    BY DEF Gate
  <2>1. handled[q] <= Entered(q) /\ Entered(q)' >= Entered(q)
    BY OutsideConn DEF Gate
  <2>2. handled'[q] \in Nat /\ Entered(q) \in Int /\ Entered(q)' \in Int
    <3>1. handled'[q] \in Nat
      BY <1>1, IngestAssumption DEF IngestTypeOK, Number
    <3>2. Entered(q) \in Int
      BY IngestAssumption DEF IngestTypeOK, Entered, Number
    <3>3. Entered(q)' \in Int
      BY <1>1, IngestAssumption DEF IngestTypeOK, Entered, Number
    <3> QED BY <3>1, <3>2, <3>3
  <2>3. handled'[q] <= Entered(q)'
    BY <1>2, <2>1, <2>2
  <2> QED BY <2>3, OutsideConn
<1>4. Trusted'
  <2> SUFFICES ASSUME NEW i \in 1..Len(queue) PROVE reply'[queue[i].peer] = 1
    BY <1>2 DEF Trusted
  <2> QED BY EventFields, OutsideConn DEF Trusted
<1>5. Increasing'
  BY <1>2 DEF Increasing
<1>6. Exact'
  <2> SUFFICES ASSUME consumer # "dead", NEW q \in Peer, NEW n \in Number
               PROVE  Queued(q, n)' <=> handled'[q] < n /\ n <= Entered(q)'
    BY <1>2 DEF Exact
  <2>1. Entered(q)' = Entered(q)
    BY OutsideConn
  <2>2. Queued(q, n)' <=> Queued(q, n)
    BY <1>2 DEF Queued
  <2> QED BY <1>2, <2>1, <2>2 DEF Exact
<1> QED BY <1>1, <1>3, <1>4, <1>5, <1>6

-----------------------------------------------------------------------------
(* The send: the event read last enters at the end.                        *)
LEMMA SendQueue ==
  ASSUME IInv, NEW p \in Peer, Send(p)
  PROVE  /\ queue' \in Seq(Event) /\ Len(queue') = Len(queue) + 1
         /\ \A i \in 1..Len(queue) : queue'[i] = queue[i]
         /\ queue'[Len(queue')].peer = p /\ queue'[Len(queue')].n = read[p]
<1>1. queue \in Seq(Event) /\ read[p] \in Number
  BY DEF IInv, IngestTypeOK
<1> DEFINE e == [peer |-> p, n |-> read[p]]
<1>2. e \in Event /\ e.peer = p /\ e.n = read[p]
  BY <1>1 DEF Event
<1>3. queue' = Append(queue, e)
  BY DEF Send
<1> HIDE DEF e
<1> QED BY <1>1, <1>2, <1>3

LEMMA SendInv == ASSUME IInv, NEW p \in Peer, Send(p) PROVE IInv'
<1> USE DEF IInv
<1>0. /\ handled' = handled /\ consumer' = consumer /\ consumer # "dead" /\ conn[p] = "sending"
      /\ read' = read /\ reply' = reply /\ sent' = sent /\ left' = left
      /\ token' = token /\ current' = current
      /\ conn' = [conn EXCEPT ![p] = "open"]
  BY DEF Send, SetConn, peerVars, consumerVars
<1>1. IngestTypeOK'
  BY <1>0, SendQueue DEF IngestTypeOK
<1>2. /\ \A q \in Peer : read[q] \in Nat /\ handled[q] \in Nat /\ sent[q] \in Nat
      /\ \A q \in Peer : Entered(q)' = IF q = p THEN read[p] ELSE Entered(q)
      /\ Entered(p) = read[p] - 1
  BY <1>0, IngestAssumption DEF IngestTypeOK, Entered, Number
<1>3. Gate'
  BY <1>0, <1>2 DEF Gate, IngestTypeOK, Entered
<1>4. Trusted'
  <2> SUFFICES ASSUME NEW i \in 1..Len(queue') PROVE reply[queue'[i].peer] = 1
    BY <1>0 DEF Trusted
  <2>1. CASE i \in 1..Len(queue)
    BY <2>1, SendQueue DEF Trusted
  <2>2. CASE i = Len(queue')
    BY <1>0, <2>2, SendQueue DEF Gate
  <2>3. Len(queue) \in Nat
    BY DEF IngestTypeOK
  <2> QED BY <2>1, <2>2, <2>3, SendQueue
<1>5. \A i \in 1..Len(queue) : queue[i].peer = p => queue[i].n < read[p]
  <2> SUFFICES ASSUME NEW i \in 1..Len(queue), queue[i].peer = p PROVE queue[i].n < read[p]
    OBVIOUS
  <2>1. queue[i].n \in Number /\ Queued(p, queue[i].n)
    BY EventFields DEF Queued
  <2>2. queue[i].n <= Entered(p)
    BY <1>0, <2>1 DEF Exact
  <2> QED BY <1>2, <2>1, <2>2, IngestAssumption DEF Number
<1>6. Increasing'
  <2> SUFFICES ASSUME NEW i \in 1..Len(queue'), NEW j \in 1..Len(queue'),
                      i < j, queue'[i].peer = queue'[j].peer
               PROVE  queue'[i].n < queue'[j].n
    BY DEF Increasing
  <2>1. Len(queue) \in Nat
    BY DEF IngestTypeOK
  <2>2. i \in 1..Len(queue)
    BY <2>1, SendQueue
  <2>3. CASE j \in 1..Len(queue)
    BY <2>2, <2>3, SendQueue DEF Increasing
  <2>4. CASE j = Len(queue')
    BY <1>5, <2>2, <2>4, SendQueue
  <2> QED BY <2>1, <2>3, <2>4, SendQueue
<1>7. Exact'
  <2> SUFFICES ASSUME NEW q \in Peer, NEW n \in Number
               PROVE  Queued(q, n)' <=> handled[q] < n /\ n <= Entered(q)'
    BY <1>0 DEF Exact
  <2>1. Queued(q, n) <=> handled[q] < n /\ n <= Entered(q)
    BY <1>0 DEF Exact
  <2>2. Queued(q, n)' <=> Queued(q, n) \/ (q = p /\ n = read[p])
    <3>1. Len(queue) \in Nat
      BY DEF IngestTypeOK
    <3>2. \A i \in 1..Len(queue') : i \in 1..Len(queue) \/ i = Len(queue')
      BY <3>1, SendQueue
    <3>3. 1..Len(queue) \subseteq 1..Len(queue') /\ Len(queue') \in 1..Len(queue')
      BY <3>1, SendQueue
    <3> QED BY <3>2, <3>3, SendQueue DEF Queued
  <2>3. handled[p] <= read[p] - 1
    BY <1>2 DEF Gate
  <2>4. n \in Nat
    BY IngestAssumption DEF Number
  <2>5. CASE q = p
    BY <1>2, <2>1, <2>2, <2>3, <2>4, <2>5
  <2>6. CASE q # p
    BY <1>2, <2>1, <2>2, <2>6
  <2> QED BY <2>5, <2>6
<1> QED BY <1>1, <1>3, <1>4, <1>6, <1>7

-----------------------------------------------------------------------------
(* The consumer takes up what is next of a connection.                     *)
LEMMA HeadIsNext == ASSUME IInv, consumer # "dead", queue # <<>>
                    PROVE  /\ queue[1] \in Event /\ queue[1].peer \in Peer /\ queue[1].n \in Nat
                           /\ queue[1].n = handled[queue[1].peer] + 1
                           /\ queue[1].n <= sent[queue[1].peer]
                           /\ reply[queue[1].peer] = 1
<1> USE DEF IInv
<1>1. Len(queue) \in Nat /\ 1 \in 1..Len(queue)
  BY DEF IngestTypeOK
<1> DEFINE q == queue[1].peer
<1> DEFINE n == queue[1].n
<1>2. queue[1] \in Event /\ q \in Peer /\ n \in Number
  BY <1>1, EventFields
<1>3. n \in Nat /\ handled[q] \in Nat /\ sent[q] \in Nat /\ read[q] \in Nat /\ n <= MaxEvents
  BY <1>2, IngestAssumption DEF IngestTypeOK, Number
<1>4. reply[q] = 1
  BY <1>1 DEF Trusted
<1>5. handled[q] < n /\ n <= Entered(q)
  BY <1>1, <1>2 DEF Exact, Queued
<1>6. n <= sent[q]
  BY <1>2, <1>3, <1>5 DEF Gate, Entered
<1>7. ~ handled[q] + 1 < n
  <2> SUFFICES ASSUME handled[q] + 1 < n PROVE FALSE
    OBVIOUS
  <2>1. handled[q] + 1 \in Number
    BY <1>3, IngestAssumption DEF Number
  <2>2. handled[q] + 1 <= Entered(q)
    BY <1>2, <1>3, <1>5 DEF Entered
  <2>3. handled[q] < handled[q] + 1
    BY <1>3
  <2>4. Queued(q, handled[q] + 1)
    BY <1>2, <2>1, <2>2, <2>3 DEF Exact
  <2>5. PICK i \in 1..Len(queue) : queue[i].peer = q /\ queue[i].n = handled[q] + 1
    BY <2>4 DEF Queued
  <2>6. i # 1
    BY <1>3, <2>5
  <2>7. n < queue[i].n
    BY <1>1, <2>5, <2>6 DEF Increasing
  <2> QED BY <1>3, <2>5, <2>7
<1> QED BY <1>2, <1>3, <1>4, <1>5, <1>6, <1>7

LEMMA HeadIsFirst == ASSUME queue \in Seq(Event) PROVE Head(queue) = queue[1]
  OBVIOUS

LEMMA TakeInv == ASSUME IInv, Take PROVE IInv'
<1> USE DEF IInv
<1> DEFINE q == queue[1].peer
<1> DEFINE n == queue[1].n
<1>0. /\ consumer = "waiting" /\ consumer' = "handling" /\ queue # <<>>
      /\ sent' = sent /\ left' = left /\ conn' = conn /\ token' = token /\ reply' = reply /\ read' = read
      /\ queue' = Tail(queue) /\ current' = queue[1]
      /\ handled' = [handled EXCEPT ![q] = n]
  BY HeadIsFirst DEF Take, peerVars, connVars, IngestTypeOK
<1>1. /\ queue[1] \in Event /\ q \in Peer /\ n \in Nat /\ n = handled[q] + 1
      /\ n <= sent[q] /\ reply[q] = 1
  BY <1>0, HeadIsNext
<1>2. /\ Len(queue) \in Nat /\ Len(queue) >= 1 /\ Len(queue') = Len(queue) - 1
      /\ queue' \in Seq(Event)
      /\ \A i \in 1..Len(queue') : i + 1 \in 1..Len(queue) /\ queue'[i] = queue[i + 1]
  BY <1>0 DEF IngestTypeOK
<1>3. \A p \in Peer : handled[p] \in Nat /\ read[p] \in Nat /\ sent[p] \in Nat /\ sent[p] <= MaxEvents
  BY IngestAssumption DEF IngestTypeOK, Number
<1>4. n \in Number
  BY <1>1, <1>3, IngestAssumption DEF Number
<1>5. IngestTypeOK'
  BY <1>0, <1>1, <1>2, <1>4 DEF IngestTypeOK
<1>6. \A p \in Peer : handled'[p] = IF p = q THEN n ELSE handled[p]
  BY <1>0 DEF IngestTypeOK
<1>7. \A p \in Peer : Entered(p)' = Entered(p)
  BY <1>0 DEF Entered
<1>8. n <= Entered(q)
  <2>1. 1 \in 1..Len(queue)
    BY <1>2
  <2>2. Queued(q, n)
    BY <2>1 DEF Queued
  <2> QED BY <1>0, <1>1, <1>4, <2>2 DEF Exact
<1>9. Gate'
  BY <1>0, <1>6, <1>7, <1>8 DEF Gate
<1>10. Trusted'
  BY <1>0, <1>2 DEF Trusted
<1>11. Increasing'
  <2> SUFFICES ASSUME NEW i \in 1..Len(queue'), NEW j \in 1..Len(queue'),
                      i < j, queue'[i].peer = queue'[j].peer
               PROVE  queue'[i].n < queue'[j].n
    BY DEF Increasing
  <2>1. i + 1 < j + 1 /\ i + 1 \in 1..Len(queue) /\ j + 1 \in 1..Len(queue)
    BY <1>2
  <2>2. queue'[i] = queue[i + 1] /\ queue'[j] = queue[j + 1]
    BY <1>2
  <2>3. queue[i + 1].peer = queue[j + 1].peer
    BY <2>2
  <2>4. queue[i + 1].n < queue[j + 1].n
    BY <2>1, <2>3 DEF Increasing
  <2> QED BY <2>2, <2>4
<1>12. Exact'
  <2> SUFFICES ASSUME NEW p \in Peer, NEW m \in Number
               PROVE  Queued(p, m)' <=> handled'[p] < m /\ m <= Entered(p)
    BY <1>7 DEF Exact
  <2>1. Queued(p, m) <=> handled[p] < m /\ m <= Entered(p)
    BY <1>0 DEF Exact
  <2>2. m \in Nat
    BY IngestAssumption DEF Number
  <2> DEFINE After == \E i \in 2..Len(queue) : queue[i].peer = p /\ queue[i].n = m
  <2>3. Queued(p, m)' <=> After
    <3>1. ASSUME NEW i \in 2..Len(queue) PROVE i - 1 \in 1..Len(queue') /\ queue'[i - 1] = queue[i]
      <4>0. Len(queue) \in Nat /\ Len(queue') = Len(queue) - 1
        BY <1>2
      <4>1. i \in Int /\ i >= 2 /\ i <= Len(queue)
        BY <4>0
      <4>2. i - 1 \in 1..Len(queue') /\ (i - 1) + 1 = i
        BY <4>0, <4>1
      <4>3. queue'[i - 1] = queue[(i - 1) + 1]
        BY <1>2, <4>2
      <4> QED BY <4>2, <4>3
    <3>2. ASSUME NEW i \in 1..Len(queue') PROVE i + 1 \in 2..Len(queue) /\ queue'[i] = queue[i + 1]
      <4>0. Len(queue) \in Nat /\ Len(queue') = Len(queue) - 1
        BY <1>2
      <4>1. i + 1 \in 2..Len(queue)
        BY <4>0
      <4> QED BY <1>2, <4>1
    <3>3. ASSUME Queued(p, m)' PROVE After
      <4>1. PICK i \in 1..Len(queue') : queue'[i].peer = p /\ queue'[i].n = m
        BY <3>3 DEF Queued
      <4> QED BY <3>2, <4>1
    <3>4. ASSUME After PROVE Queued(p, m)'
      <4>1. PICK i \in 2..Len(queue) : queue[i].peer = p /\ queue[i].n = m
        BY <3>4
      <4>2. \E k \in 1..Len(queue') : queue'[k].peer = p /\ queue'[k].n = m
        BY <3>1, <4>1
      <4> QED BY <4>2 DEF Queued
    <3> QED BY <3>3, <3>4
  <2>4. 1..Len(queue) = {1} \cup 2..Len(queue) /\ 1 \in 1..Len(queue)
    BY <1>2
  <2>5. Queued(p, m) <=> (p = q /\ m = n) \/ After
    BY <2>4 DEF Queued
  <2>6. p = q /\ After => n < m
    BY <1>2, <2>4 DEF Increasing
  <2>7. Entered(p) \in Int /\ handled[p] \in Nat /\ handled'[p] = IF p = q THEN n ELSE handled[p]
    BY <1>3, <1>6 DEF Entered
  <2>8. CASE p = q
    <3> HIDE DEF After, q, n
    <3> QED BY <1>1, <2>1, <2>2, <2>3, <2>5, <2>6, <2>7, <2>8
  <2>9. CASE p # q
    <3> HIDE DEF After, q, n
    <3> QED BY <2>1, <2>3, <2>5, <2>7, <2>9
  <2> QED BY <2>8, <2>9
<1> QED BY <1>5, <1>9, <1>10, <1>11, <1>12

(* The rest of what becomes of the thread.                                 *)
LEMMA ThreadInv == ASSUME IInv, Finish \/ Panic \/ Hang PROVE IInv'
<1> USE DEF IInv
<1>0. /\ sent' = sent /\ left' = left /\ conn' = conn /\ token' = token /\ reply' = reply
      /\ read' = read /\ current' = current /\ handled' = handled
  BY DEF Finish, Panic, Hang, peerVars, connVars
<1>1. Gate'
  BY <1>0 DEF Gate, Entered
<1>2. CASE Finish \/ Hang
  <2>1. queue' = queue /\ consumer # "dead" /\ consumer' \in {"waiting", "stuck"}
    BY <1>2 DEF Finish, Hang
  <2>2. IngestTypeOK'
    BY <1>0, <2>1 DEF IngestTypeOK
  <2>3. Trusted' /\ Increasing' /\ Exact'
    BY <1>0, <2>1 DEF Trusted, Increasing, Exact, Queued, Entered
  <2> QED BY <1>1, <2>2, <2>3
<1>3. CASE Panic
  <2>1. queue' = <<>> /\ consumer' = "dead"
    BY <1>3 DEF Panic
  <2>2. IngestTypeOK'
    BY <1>0, <2>1 DEF IngestTypeOK
  <2>3. Trusted' /\ Increasing' /\ Exact'
    BY <1>0, <2>1 DEF Trusted, Increasing, Exact
  <2> QED BY <1>1, <2>2, <2>3
<1> QED BY <1>2, <1>3

LEMMA StepInv == IInv /\ [IngestNext]_ingestVars => IInv'
<1> SUFFICES ASSUME IInv, [IngestNext]_ingestVars PROVE IInv'
  OBVIOUS
<1>1. ASSUME NEW p \in Peer, Outside(p) PROVE IInv'
  BY <1>1, OutsideInv
<1>2. ASSUME NEW p \in Peer, Send(p) PROVE IInv'
  BY <1>2, SendInv
<1>3. CASE Take
  BY <1>3, TakeInv
<1>4. CASE Finish \/ Panic \/ Hang
  BY <1>4, ThreadInv
<1>5. CASE UNCHANGED ingestVars
  BY <1>5 DEF ingestVars, peerVars, connVars, consumerVars, IInv, IngestTypeOK, Gate, Trusted,
              Increasing, Exact, Queued, Entered
<1> QED BY <1>1, <1>2, <1>3, <1>4, <1>5 DEF IngestNext, Receiving, Outside

(* The types of the connections, the channel and the consumer (ipc.rs      *)
(* 117-173, lib.rs 49 and 82-89).                                          *)
THEOREM IngestTypes == IngestSpec => []IngestTypeOK
<1>1. IInv => IngestTypeOK
  BY DEF IInv
<1> QED BY Inits, StepInv, <1>1, PTL DEF IngestSpec

-----------------------------------------------------------------------------
(* The refinement, step by step.                                           *)
LEMMA InitsStream == IngestInit => Stream!Init
  BY DEF IngestInit, Stream!Init, Authenticated

LEMMA OutsideStream == ASSUME IInv, NEW p \in Peer, Outside(p)
                       PROVE  Stream!Next \/ UNCHANGED <<sent, Authenticated, handled>>
<1> USE DEF IInv
<1>1. handled' = handled
  BY OutsideSame
<1>2. CASE Emit(p)
  BY <1>2 DEF Emit, connVars, consumerVars, Authenticated, Stream!Next, Stream!Emit
<1>3. CASE Handshake(p)
  <2>1. sent' = sent
    BY <1>3 DEF Handshake, peerVars
  <2>2. conn[p] = "token" /\ reply[p] = 2
    BY <1>3 DEF Handshake, Gate
  <2>3. CASE token[p] = "right"
    <3>1. reply' = [reply EXCEPT ![p] = 1]
      BY <1>3, <2>3 DEF Handshake
    <3>2. Authenticated' = Authenticated \cup {p}
      BY <3>1 DEF Authenticated, IngestTypeOK
    <3> QED BY <1>1, <2>1, <3>2 DEF Stream!Next, Stream!Trust
  <2>4. CASE token[p] # "right"
    <3>1. reply' = reply \/ reply' = [reply EXCEPT ![p] = 0]
      BY <1>3, <2>4 DEF Handshake
    <3>2. Authenticated' = Authenticated
      BY <2>2, <3>1 DEF Authenticated, IngestTypeOK
    <3> QED BY <1>1, <2>1, <3>2
  <2> QED BY <2>3, <2>4
<1>4. CASE Connect(p) \/ Leave(p) \/ ReadEvent(p) \/ EndOfStream(p) \/ Reset(p) \/ SendFails(p)
  BY <1>1, <1>4 DEF Connect, Leave, ReadEvent, EndOfStream, Reset, SendFails, peerVars, connVars, Authenticated
<1> QED BY <1>2, <1>3, <1>4 DEF Outside

LEMMA TakeStream == ASSUME IInv, Take PROVE Stream!Next
<1>1. /\ consumer # "dead" /\ queue # <<>> /\ sent' = sent /\ reply' = reply
      /\ handled' = [handled EXCEPT ![queue[1].peer] = queue[1].n]
  BY HeadIsFirst DEF Take, peerVars, connVars, IInv, IngestTypeOK
<1>2. /\ queue[1].peer \in Peer /\ reply[queue[1].peer] = 1
      /\ queue[1].n = handled[queue[1].peer] + 1 /\ queue[1].n <= sent[queue[1].peer]
  BY <1>1, HeadIsNext
<1>3. handled[queue[1].peer] \in Nat /\ sent[queue[1].peer] \in Nat
  BY <1>2, IngestAssumption DEF IInv, IngestTypeOK, Number
<1>4. handled[queue[1].peer] < sent[queue[1].peer]
  BY <1>2, <1>3
<1>5. Authenticated' = Authenticated /\ queue[1].peer \in Authenticated
  BY <1>1, <1>2 DEF Authenticated
<1>6. handled' = [handled EXCEPT ![queue[1].peer] = handled[queue[1].peer] + 1]
  BY <1>1, <1>2
<1>7. Stream!Deliver(queue[1].peer)
  BY <1>1, <1>4, <1>5, <1>6 DEF Stream!Deliver
<1> QED BY <1>2, <1>7 DEF Stream!Next

LEMMA StepStream == IInv /\ [IngestNext]_ingestVars => [Stream!Next]_<<sent, Authenticated, handled>>
<1> SUFFICES ASSUME IInv, [IngestNext]_ingestVars
             PROVE  Stream!Next \/ UNCHANGED <<sent, Authenticated, handled>>
  OBVIOUS
<1>1. ASSUME NEW p \in Peer, Outside(p) PROVE Stream!Next \/ UNCHANGED <<sent, Authenticated, handled>>
  BY <1>1, OutsideStream
<1>2. ASSUME NEW p \in Peer, Send(p) PROVE UNCHANGED <<sent, Authenticated, handled>>
  BY <1>2 DEF Send, peerVars, consumerVars, Authenticated
<1>3. CASE Take
  BY <1>3, TakeStream
<1>4. CASE Finish \/ Panic \/ Hang
  BY <1>4 DEF Finish, Panic, Hang, peerVars, connVars, Authenticated
<1>5. CASE UNCHANGED ingestVars
  BY <1>5 DEF ingestVars, peerVars, connVars, consumerVars, Authenticated
<1> QED BY <1>1, <1>2, <1>3, <1>4, <1>5 DEF IngestNext, Receiving, Outside

(* The engine handles of every authenticated connection a prefix of what   *)
(* its peer wrote, in order, once, and nothing of another connection: the  *)
(* blocking send of ipc.rs 165-168 and the single consumer of lib.rs 82-89 *)
(* preserve what each socket delivers.                                     *)
THEOREM IngestRefines == IngestSpec => EventsInOrder
<1> QED BY Inits, StepInv, InitsStream, StepStream, PTL DEF IngestSpec, EventsInOrder, Stream!Spec
=============================================================================
