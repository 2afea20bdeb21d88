---------------------------- MODULE PipelineProofs ----------------------------
(***************************************************************************)
(* What is proved of AlertBus and of Pipeline, which composes it with      *)
(* Ingest: for any ring, any number of subscribers, producers, connections *)
(* and events, a subscriber sees what was announced without a gap, the log *)
(* follows the channel, and the composition keeps what was proved of the   *)
(* channel into the engine.                                                *)
(***************************************************************************)
EXTENDS Pipeline, IngestProofs, SequenceTheorems

(* The steps of the bus alone, whoever takes them.                         *)
Produces(x) == (\E a \in Alert : Announce(x, a) \/ AnnounceOnly(x, a))
               \/ Logging(x) \/ AppendFails(x)
Attends(s) == Subscribe(s) \/ Serving(s) \/ WriteFails(s)

BusNext == (\E x \in Producer : Produces(x)) \/ (\E s \in Subscriber : Attends(s))

(* A slot holds the last alert that was put there.                         *)
RingHolds ==
    \A i \in Nat : i < Len(announced) /\ Len(announced) <= i + Slots =>
        ring[i % Slots] = announced[i + 1]

(* A receiver has passed on what it has moved over.                        *)
Passing(r) ==
    /\ r.next = r.from + Len(r.got) /\ r.next <= Len(announced)
    /\ \A i \in 1..Len(r.got) : r.got[i] = announced[r.from + i]

Followed == \A s \in Subscriber : Passing(subscriber[s])

(* While nobody writes beside another, the log lacks at most the rest of   *)
(* the last line.                                                          *)
Behind2(pc) == IF pc = "object" THEN 2 ELSE IF pc = "newline" THEN 1 ELSE 0

OneWriter == \A x, y \in Producer : producer[x] # Resting /\ producer[y] # Resting => x = y

LinesWhole ==
    \A i \in 1..Len(logged) :
        /\ 2 * i - 1 <= Len(log) => log[2 * i - 1] = [alert |-> logged[i], part |-> "object"]
        /\ 2 * i <= Len(log) => log[2 * i] = [alert |-> logged[i], part |-> "newline"]

LogTells ==
    ~entangled =>
        /\ OneWriter /\ LinesWhole
        /\ Quiet => Len(log) = 2 * Len(logged)
        /\ \A x \in Producer : producer[x] # Resting =>
              /\ Len(log) + Behind2(producer[x].pc) = 2 * Len(logged)
              /\ Len(logged) > 0 /\ producer[x].alert = logged[Len(logged)]

BusInv == BusTypeOK /\ RingHolds /\ Followed /\ LogTells

-----------------------------------------------------------------------------
(* Slots that less than a round apart are different.                       *)
LEMMA SlotRange == ASSUME NEW n \in Nat PROVE n % Slots \in 0..Slots - 1
  BY BusAssumption, SMT

LEMMA Quotient == ASSUME NEW n \in Nat
                  PROVE  n \div Slots \in Int /\ n = Slots * (n \div Slots) + (n % Slots)
  BY BusAssumption, SMT

LEMMA RoundLater == ASSUME NEW q \in Int, NEW r \in Int, r >= q + 1
                    PROVE  Slots * r >= Slots * q + Slots
  BY BusAssumption, SMT

LEMMA SlotsApart == ASSUME NEW i \in Nat, NEW n \in Nat, i < n, n < i + Slots
                    PROVE  i % Slots # n % Slots
<1> SUFFICES ASSUME i % Slots = n % Slots PROVE FALSE
  OBVIOUS
<1> DEFINE q == i \div Slots
           r == n \div Slots
<1>1. /\ i = Slots * q + (i % Slots) /\ n = Slots * r + (n % Slots)
      /\ q \in Int /\ r \in Int /\ i % Slots \in Int
  BY Quotient, SlotRange
<1> HIDE DEF q, r
<1>2. r >= q + 1
  <2>1. CASE r <= q
    <3>1. Slots * r <= Slots * q
      BY <1>1, <2>1, BusAssumption
    <3> QED BY <1>1, <3>1, BusAssumption
  <2> QED BY <1>1, <2>1
<1>3. Slots * r >= Slots * q + Slots
  BY <1>1, <1>2, RoundLater
<1>4. Slots * q \in Int /\ Slots * r \in Int
  BY <1>1, BusAssumption
<1> QED BY <1>1, <1>3, <1>4, BusAssumption

-----------------------------------------------------------------------------
(* Types.                                                                  *)
LEMMA ProducerFields ==
  ASSUME BusTypeOK, NEW x \in Producer
  PROVE  /\ producer[x] \in ProducerState
         /\ producer[x] = Resting => producer[x].pc = "idle"
         /\ producer[x] # Resting => /\ producer[x].pc \in {"object", "newline"}
                                     /\ producer[x].alert \in Alert
<1>1. producer[x] \in ProducerState
  BY DEF BusTypeOK
<1> QED BY <1>1 DEF ProducerState, Resting

LEMMA SubscriberFields ==
  ASSUME BusTypeOK, NEW s \in Subscriber
  PROVE  /\ subscriber[s] \in SubscriberState
         /\ subscriber[s].from \in Nat /\ subscriber[s].next \in Nat
         /\ subscriber[s].got \in Seq(Alert)
<1>1. subscriber[s] \in SubscriberState
  BY DEF BusTypeOK
<1> QED BY <1>1 DEF SubscriberState

LEMMA InitBusTypes == BusInit => BusTypeOK
<1> SUFFICES ASSUME BusInit PROVE BusTypeOK
  OBVIOUS
<1>1. (CHOOSE a \in Alert : TRUE) \in Alert
  BY BusAssumption
<1>2. Absent \in SubscriberState /\ Resting \in ProducerState
  BY DEF Absent, SubscriberState, ProducerState
<1>3. ring \in [0..Slots - 1 -> Alert]
  BY <1>1 DEF BusInit
<1>4. producer \in [Producer -> ProducerState] /\ subscriber \in [Subscriber -> SubscriberState]
  BY <1>2 DEF BusInit
<1>5. announced \in Seq(Alert) /\ logged \in Seq(Alert)
  BY EmptySeq DEF BusInit
<1>6. log \in Seq([alert : Alert, part : {"object", "newline"}])
  BY EmptySeq DEF BusInit
<1>7. entangled \in BOOLEAN
  BY DEF BusInit
<1> QED BY <1>3, <1>4, <1>5, <1>6, <1>7 DEF BusTypeOK

LEMMA PutTypes == ASSUME BusTypeOK, NEW a \in Alert, Put(a)
                  PROVE  /\ announced' \in Seq(Alert) /\ ring' \in [0..Slots - 1 -> Alert]
                         /\ Len(announced') = Len(announced) + 1
                         /\ announced'[Len(announced) + 1] = a
                         /\ \A i \in 1..Len(announced) : announced'[i] = announced[i]
                         /\ ring'[Len(announced) % Slots] = a
                         /\ \A j \in 0..Slots - 1 : j # Len(announced) % Slots => ring'[j] = ring[j]
<1>1. Len(announced) \in Nat
  BY DEF BusTypeOK
<1>2. Len(announced) % Slots \in 0..Slots - 1
  BY <1>1, SlotRange
<1>3. announced' = Append(announced, a) /\ announced \in Seq(Alert)
  BY DEF Put, BusTypeOK
<1> QED BY <1>2, <1>3, AppendProperties DEF Put, BusTypeOK

(* What each step of a producer writes.                                    *)
LEMMA ProducesTypes == ASSUME BusTypeOK, NEW x \in Producer, Produces(x) PROVE BusTypeOK'
<1>1. ASSUME NEW a \in Alert, Announce(x, a) PROVE BusTypeOK'
  <2>1. [pc |-> "object", alert |-> a] \in ProducerState
    BY DEF ProducerState
  <2>2. (entangled \/ \E y \in Producer : producer[y] # Resting) \in BOOLEAN
    OBVIOUS
  <2>3. entangled' \in BOOLEAN
    BY <1>1, <2>2 DEF Announce
  <2>4. logged' \in Seq(Alert)
    BY <1>1 DEF Announce, BusTypeOK
  <2>5. announced' \in Seq(Alert) /\ ring' \in [0..Slots - 1 -> Alert]
    BY <1>1, PutTypes DEF Announce
  <2>6. producer' \in [Producer -> ProducerState]
    BY <1>1, <2>1 DEF Announce, BusTypeOK
  <2> QED BY <1>1, <2>3, <2>4, <2>5, <2>6 DEF Announce, BusTypeOK
<1>2. ASSUME NEW a \in Alert, AnnounceOnly(x, a) PROVE BusTypeOK'
  BY <1>2, PutTypes DEF AnnounceOnly, BusTypeOK
<1>3. CASE AppendObject(x)
  <2>1. producer[x].alert \in Alert /\ producer[x] # Resting
    BY <1>3, ProducerFields DEF AppendObject, Resting
  <2>2. [producer[x] EXCEPT !.pc = "newline"] \in ProducerState
    BY <2>1, ProducerFields DEF ProducerState
  <2>3. [alert |-> producer[x].alert, part |-> "object"] \in [alert : Alert, part : {"object", "newline"}]
    BY <2>1
  <2> QED BY <1>3, <2>2, <2>3 DEF AppendObject, BusTypeOK
<1>4. CASE AppendNewline(x)
  <2>1. producer[x].alert \in Alert
    BY <1>4, ProducerFields DEF AppendNewline, Resting
  <2>2. [alert |-> producer[x].alert, part |-> "newline"] \in [alert : Alert, part : {"object", "newline"}]
    BY <2>1
  <2>3. Resting \in ProducerState
    BY DEF ProducerState
  <2> QED BY <1>4, <2>2, <2>3 DEF AppendNewline, BusTypeOK
<1>5. CASE AppendFails(x)
  BY <1>5 DEF AppendFails, BusTypeOK, ProducerState
<1> QED BY <1>1, <1>2, <1>3, <1>4, <1>5 DEF Produces, Logging

(* What a step of a subscriber makes of it.                                *)
LEMMA AttendsTask ==
  ASSUME BusTypeOK, NEW s \in Subscriber, Attends(s)
  PROVE  /\ UNCHANGED <<announced, ring, log, producer, logged, entangled>>
         /\ subscriber'[s] \in SubscriberState
         /\ \A u \in Subscriber \ {s} : subscriber'[u] = subscriber[u]
         /\ subscriber' \in [Subscriber -> SubscriberState]
         /\ LET r == subscriber[s]
                q == subscriber'[s]
            IN \/ q.from = r.from /\ q.next = r.next /\ q.got = r.got
               \/ q.from = Len(announced) /\ q.next = Len(announced) /\ q.got = <<>>
               \/ /\ Len(announced) - r.next > 0 /\ Len(announced) - r.next <= Slots
                  /\ q.from = r.from /\ q.next = r.next + 1
                  /\ q.got = Append(r.got, ring[r.next % Slots])
<1> DEFINE r == subscriber[s]
<1>r. /\ r \in SubscriberState /\ r.from \in Nat /\ r.next \in Nat /\ r.got \in Seq(Alert)
  BY SubscriberFields
<1>n. Len(announced) \in Nat
  BY DEF BusTypeOK
<1>1. ASSUME NEW q \in SubscriberState, SetSubscriber(s, q)
      PROVE  /\ subscriber'[s] = q /\ subscriber' \in [Subscriber -> SubscriberState]
             /\ \A u \in Subscriber \ {s} : subscriber'[u] = subscriber[u]
  BY <1>1 DEF SetSubscriber, BusTypeOK
<1>2. CASE Subscribe(s)
  <2> DEFINE q == [pc |-> "active", from |-> Len(announced), next |-> Len(announced), got |-> <<>>]
  <2>1. q \in SubscriberState
    BY <1>n DEF SubscriberState
  <2> QED BY <1>2, <2>1, <1>1 DEF Subscribe
<1>3. ASSUME NEW p \in {"active", "writing", "ended"},
             SetSubscriber(s, [r EXCEPT !.pc = p])
      PROVE  /\ subscriber'[s] \in SubscriberState /\ subscriber' \in [Subscriber -> SubscriberState]
             /\ \A u \in Subscriber \ {s} : subscriber'[u] = subscriber[u]
             /\ subscriber'[s].from = r.from /\ subscriber'[s].next = r.next
             /\ subscriber'[s].got = r.got
  <2> DEFINE q == [r EXCEPT !.pc = p]
  <2>1. q \in SubscriberState /\ q.from = r.from /\ q.next = r.next /\ q.got = r.got
    BY <1>r DEF SubscriberState
  <2>2. SetSubscriber(s, q)
    BY <1>3
  <2> HIDE DEF q, r
  <2> QED BY <2>1, <2>2, <1>1
<1>4. CASE Passed(s)
  BY <1>3, <1>4 DEF Passed
<1>5. CASE WriteFails(s)
  BY <1>3, <1>5 DEF WriteFails
<1>6. CASE Receive(s)
  <2>1. CASE Behind(s) > Slots
    BY <1>3, <1>6, <2>1 DEF Receive
  <2>2. CASE ~(Behind(s) > Slots)
    <3> DEFINE q == [r EXCEPT !.pc = "writing", !.next = @ + 1,
                              !.got = Append(@, ring[r.next % Slots])]
    <3>1. ring[r.next % Slots] \in Alert
      BY <1>r, SlotRange DEF BusTypeOK
    <3>2. q \in SubscriberState /\ q.from = r.from /\ q.next = r.next + 1
          /\ q.got = Append(r.got, ring[r.next % Slots])
      <4>1. r.next + 1 \in Nat /\ Append(r.got, ring[r.next % Slots]) \in Seq(Alert)
        BY <1>r, <3>1
      <4> DEFINE more == Append(r.got, ring[r.next % Slots])
      <4>2. q = [r EXCEPT !.pc = "writing", !.next = r.next + 1, !.got = more]
        BY <1>r DEF SubscriberState
      <4> HIDE DEF q, r, more
      <4>3. q \in SubscriberState /\ q.from = r.from /\ q.next = r.next + 1 /\ q.got = more
        BY <4>1, <4>2, <1>r DEF SubscriberState, more
      <4> QED BY <4>3 DEF more
    <3>3. SetSubscriber(s, q) /\ UNCHANGED <<announced, ring, log, producer, logged, entangled>>
      BY <1>6, <2>2 DEF Receive
    <3>4. Len(announced) - r.next > 0 /\ Len(announced) - r.next <= Slots
      BY <1>6, <2>2, <1>r, <1>n, BusAssumption DEF Receive, Behind
    <3> HIDE DEF q, r
    <3> QED BY <3>2, <3>3, <3>4, <1>1 DEF r
  <2> QED BY <2>1, <2>2
<1> QED BY <1>2, <1>4, <1>5, <1>6 DEF Attends, Serving

LEMMA StepBusTypes == ASSUME BusTypeOK, BusNext \/ UNCHANGED busVars PROVE BusTypeOK'
<1>1. ASSUME NEW x \in Producer, Produces(x) PROVE BusTypeOK'
  BY <1>1, ProducesTypes
<1>2. ASSUME NEW s \in Subscriber, Attends(s) PROVE BusTypeOK'
  BY <1>2, AttendsTask DEF BusTypeOK
<1>3. CASE UNCHANGED busVars
  BY <1>3 DEF busVars, BusTypeOK
<1> QED BY <1>1, <1>2, <1>3 DEF BusNext

-----------------------------------------------------------------------------
(* The ring and its readers.                                               *)
LEMMA PutRing ==
  ASSUME BusTypeOK, RingHolds, NEW a \in Alert, Put(a)
  PROVE  RingHolds'
<1>n. Len(announced) \in Nat /\ Slots \in Nat \ {0}
  BY BusAssumption DEF BusTypeOK
<1>p. /\ Len(announced') = Len(announced) + 1
      /\ announced'[Len(announced) + 1] = a
      /\ \A i \in 1..Len(announced) : announced'[i] = announced[i]
      /\ ring'[Len(announced) % Slots] = a
      /\ \A j \in 0..Slots - 1 : j # Len(announced) % Slots => ring'[j] = ring[j]
  BY PutTypes
<1> SUFFICES ASSUME NEW i \in Nat, i < Len(announced'), Len(announced') <= i + Slots
             PROVE  ring'[i % Slots] = announced'[i + 1]
  BY DEF RingHolds
<1>1. CASE i = Len(announced)
  BY <1>1, <1>p
<1>2. CASE i # Len(announced)
  <2>1. i < Len(announced) /\ Len(announced) < i + Slots
    BY <1>2, <1>n, <1>p
  <2>2. i % Slots # Len(announced) % Slots /\ i % Slots \in 0..Slots - 1
    BY <2>1, <1>n, SlotsApart, SlotRange
  <2>3. ring'[i % Slots] = ring[i % Slots] /\ announced'[i + 1] = announced[i + 1]
    BY <2>1, <2>2, <1>n, <1>p
  <2>4. ring[i % Slots] = announced[i + 1]
    BY <2>1, <1>n DEF RingHolds
  <2> QED BY <2>3, <2>4
<1> QED BY <1>1, <1>2

(* More announcements leave true what was passed on.                       *)
LEMMA PutFollowed ==
  ASSUME BusTypeOK, Followed, NEW a \in Alert, Put(a), UNCHANGED subscriber
  PROVE  Followed'
<1>n. Len(announced) \in Nat
  BY DEF BusTypeOK
<1>p. /\ Len(announced') = Len(announced) + 1
      /\ \A i \in 1..Len(announced) : announced'[i] = announced[i]
  BY PutTypes
<1> SUFFICES ASSUME NEW s \in Subscriber PROVE Passing(subscriber[s])'
  BY DEF Followed
<1>1. Passing(subscriber[s])
  BY DEF Followed
<1> DEFINE r == subscriber[s]
<1>2. r.from \in Nat /\ r.next \in Nat /\ Len(r.got) \in Nat /\ r' = r
  BY SubscriberFields
<1>3. /\ r.next = r.from + Len(r.got) /\ r.next <= Len(announced)
      /\ \A i \in 1..Len(r.got) : r.got[i] = announced[r.from + i]
  BY <1>1 DEF Passing
<1> HIDE DEF r
<1>4. r.next <= Len(announced')
  BY <1>2, <1>3, <1>n, <1>p
<1>5. ASSUME NEW i \in 1..Len(r.got) PROVE r.got[i] = announced'[r.from + i]
  <2>1. r.from + i \in 1..Len(announced)
    BY <1>2, <1>3, <1>n
  <2> QED BY <1>3, <1>p, <2>1
<1> QED BY <1>2, <1>3, <1>4, <1>5 DEF Passing, r

LEMMA StepRing == ASSUME BusInv, BusNext \/ UNCHANGED busVars PROVE RingHolds' /\ Followed'
<1> USE DEF BusInv
<1>1. ASSUME NEW x \in Producer, NEW a \in Alert, Announce(x, a) \/ AnnounceOnly(x, a)
      PROVE  RingHolds' /\ Followed'
  BY <1>1, PutRing, PutFollowed DEF Announce, AnnounceOnly
<1>2. ASSUME UNCHANGED <<announced, ring>> PROVE RingHolds'
  BY <1>2 DEF RingHolds
<1>3. ASSUME UNCHANGED <<announced, subscriber>> PROVE Followed'
  BY <1>3 DEF Followed, Passing
<1>4. ASSUME NEW x \in Producer, Logging(x) \/ AppendFails(x)
      PROVE  UNCHANGED <<announced, ring, subscriber>>
  BY <1>4 DEF Logging, AppendFails, AppendObject, AppendNewline
<1>5. ASSUME NEW s \in Subscriber, Attends(s) PROVE Followed'
  <2> DEFINE r == subscriber[s]
             q == subscriber'[s]
  <2>1. /\ UNCHANGED <<announced, ring>>
        /\ \A u \in Subscriber \ {s} : subscriber'[u] = subscriber[u]
        /\ \/ q.from = r.from /\ q.next = r.next /\ q.got = r.got
           \/ q.from = Len(announced) /\ q.next = Len(announced) /\ q.got = <<>>
           \/ /\ Len(announced) - r.next > 0 /\ Len(announced) - r.next <= Slots
              /\ q.from = r.from /\ q.next = r.next + 1
              /\ q.got = Append(r.got, ring[r.next % Slots])
    BY <1>5, AttendsTask
  <2>2. /\ Len(announced) \in Nat /\ r.from \in Nat /\ r.next \in Nat /\ r.got \in Seq(Alert)
        /\ Slots \in Nat \ {0} /\ Len(r.got) \in Nat
    BY SubscriberFields, BusAssumption DEF BusTypeOK
  <2>3. Passing(r)
    BY DEF Followed
  <2>4. Passing(q)
    <3>1. CASE q.from = r.from /\ q.next = r.next /\ q.got = r.got
      BY <3>1, <2>3 DEF Passing
    <3>2. CASE q.from = Len(announced) /\ q.next = Len(announced) /\ q.got = <<>>
      BY <3>2, <2>2 DEF Passing
    <3>3. CASE /\ Len(announced) - r.next > 0 /\ Len(announced) - r.next <= Slots
               /\ q.from = r.from /\ q.next = r.next + 1
               /\ q.got = Append(r.got, ring[r.next % Slots])
      <4>0. r.next < Len(announced) /\ Len(announced) <= r.next + Slots
        BY <3>3, <2>2
      <4>1. ring[r.next % Slots] = announced[r.next + 1]
        BY <4>0, <2>2 DEF RingHolds
      <4>2. ring[r.next % Slots] \in Alert
        BY <2>2, SlotRange DEF BusTypeOK
      <4> HIDE DEF q, r
      <4>3. /\ Len(q.got) = Len(r.got) + 1
            /\ q.got[Len(r.got) + 1] = announced[r.next + 1]
            /\ \A i \in 1..Len(r.got) : q.got[i] = r.got[i]
        BY <3>3, <4>1, <4>2, <2>2, AppendProperties
      <4>4. r.next = r.from + Len(r.got)
        BY <2>3 DEF Passing
      <4>5. ASSUME NEW i \in 1..Len(q.got) PROVE q.got[i] = announced[q.from + i]
        <5>1. CASE i = Len(r.got) + 1
          <6>1. q.from = r.from
            BY <3>3
          <6>2. q.from + i = r.next + 1
            BY <6>1, <5>1, <4>4, <2>2
          <6> QED BY <6>2, <5>1, <4>3
        <5>2. CASE i # Len(r.got) + 1
          <6>1. i \in 1..Len(r.got)
            BY <5>2, <4>3, <2>2
          <6>2. r.got[i] = announced[r.from + i]
            BY <6>1, <2>3 DEF Passing
          <6> QED BY <6>1, <6>2, <4>3, <3>3
        <5> QED BY <5>1, <5>2
      <4>6. q.next = q.from + Len(q.got) /\ q.next <= Len(announced)
        <5>1. q.from = r.from /\ q.next = r.next + 1 /\ Len(q.got) = Len(r.got) + 1
          BY <3>3, <4>3
        <5> QED BY <5>1, <4>0, <4>4, <2>2
      <4> QED BY <4>5, <4>6 DEF Passing
    <3> QED BY <2>1, <3>1, <3>2, <3>3
  <2>5. ASSUME NEW u \in Subscriber PROVE Passing(subscriber[u])'
    <3>1. CASE u = s
      BY <3>1, <2>1, <2>4 DEF Passing
    <3>2. CASE u # s
      BY <3>2, <2>1 DEF Followed, Passing
    <3> QED BY <3>1, <3>2
  <2> QED BY <2>5 DEF Followed
<1>6. ASSUME NEW s \in Subscriber, Attends(s) PROVE RingHolds'
  BY <1>2, <1>6, AttendsTask
<1>7. CASE UNCHANGED busVars
  BY <1>2, <1>3, <1>7 DEF busVars
<1> QED BY <1>1, <1>2, <1>3, <1>4, <1>5, <1>6, <1>7 DEF BusNext, Produces

-----------------------------------------------------------------------------
(* The log.                                                                *)
LEMMA Moving == [pc |-> "object"] # Resting /\ \A r : r.pc \in {"object", "newline"} => r # Resting
  BY DEF Resting

LEMMA LogLengths == ASSUME BusTypeOK PROVE Len(log) \in Nat /\ Len(logged) \in Nat
  BY DEF BusTypeOK

LEMMA AnnounceLog ==
  ASSUME BusInv, NEW x \in Producer, NEW a \in Alert, Announce(x, a)
  PROVE  LogTells'
<1> SUFFICES ASSUME ~entangled'
             PROVE  /\ OneWriter' /\ LinesWhole' /\ ~Quiet'
                    /\ \A y \in Producer : producer'[y] # Resting =>
                          /\ Len(log') + Behind2(producer'[y].pc) = 2 * Len(logged')
                          /\ Len(logged') > 0 /\ producer'[y].alert = logged'[Len(logged')]
  BY DEF LogTells
<1> USE DEF BusInv
<1>1. ~entangled /\ Quiet
  BY Zenon DEF Announce, Quiet
<1>2. Len(log) = 2 * Len(logged) /\ LinesWhole
  BY <1>1 DEF LogTells
<1>n. Len(log) \in Nat /\ Len(logged) \in Nat
  BY LogLengths
<1>3. /\ Len(logged') = Len(logged) + 1 /\ logged'[Len(logged) + 1] = a
      /\ \A i \in 1..Len(logged) : logged'[i] = logged[i]
  BY AppendProperties DEF Announce, BusTypeOK
<1>4. /\ producer'[x] = [pc |-> "object", alert |-> a] /\ log' = log
      /\ \A y \in Producer \ {x} : producer'[y] = Resting
  BY <1>1 DEF Announce, Quiet, BusTypeOK
<1>5. producer'[x] # Resting /\ producer'[x].pc = "object" /\ producer'[x].alert = a
  BY <1>4 DEF Resting
<1>6. ~Quiet' /\ OneWriter'
  BY <1>4, <1>5 DEF Quiet, OneWriter
<1>7. LinesWhole'
  <2> SUFFICES ASSUME NEW i \in 1..Len(logged')
               PROVE  /\ 2 * i - 1 <= Len(log) => log[2 * i - 1] = [alert |-> logged'[i], part |-> "object"]
                      /\ 2 * i <= Len(log) => log[2 * i] = [alert |-> logged'[i], part |-> "newline"]
    BY <1>4 DEF LinesWhole
  <2>1. CASE i = Len(logged) + 1
    BY <2>1, <1>2, <1>n
  <2>2. CASE i # Len(logged) + 1
    <3>1. i \in 1..Len(logged)
      BY <2>2, <1>3, <1>n
    <3> QED BY <3>1, <1>2, <1>3 DEF LinesWhole
  <2> QED BY <2>1, <2>2
<1>8. Len(log') + Behind2(producer'[x].pc) = 2 * Len(logged') /\ Len(logged') > 0
  BY <1>2, <1>3, <1>4, <1>5, <1>n DEF Behind2
<1> QED BY <1>3, <1>4, <1>5, <1>6, <1>7, <1>8

(* The rest of the line, one call at a time.                               *)
LEMMA AppendLog ==
  ASSUME BusInv, NEW x \in Producer, AppendObject(x) \/ AppendNewline(x)
  PROVE  LogTells'
<1> USE DEF BusInv
<1> DEFINE n == Len(logged)
           p == producer[x]
           q == IF p.pc = "object" THEN [p EXCEPT !.pc = "newline"] ELSE Resting
           piece == [alert |-> p.alert, part |-> p.pc]
<1>1. UNCHANGED <<logged, entangled>>
  BY DEF AppendObject, AppendNewline
<1> SUFFICES ASSUME ~entangled
             PROVE  /\ OneWriter' /\ LinesWhole'
                    /\ Quiet' => Len(log') = 2 * Len(logged')
                    /\ \A y \in Producer : producer'[y] # Resting =>
                          /\ Len(log') + Behind2(producer'[y].pc) = 2 * Len(logged')
                          /\ Len(logged') > 0 /\ producer'[y].alert = logged'[Len(logged')]
  BY <1>1 DEF LogTells
<1>2. p.pc \in {"object", "newline"} /\ p # Resting
  BY DEF AppendObject, AppendNewline, Resting
<1>3. p.alert \in Alert /\ p \in ProducerState
  BY <1>2, ProducerFields
<1>4. /\ log' = Append(log, piece) /\ piece \in [alert : Alert, part : {"object", "newline"}]
      /\ producer' = [producer EXCEPT ![x] = q]
  BY <1>2, <1>3 DEF AppendObject, AppendNewline
<1>5. /\ p.pc = "object" => q.pc = "newline" /\ q.alert = p.alert /\ q # Resting
      /\ p.pc = "newline" => q = Resting
  BY <1>2, <1>3 DEF ProducerState, Resting
<1>6. /\ OneWriter /\ LinesWhole /\ Len(log) + Behind2(p.pc) = 2 * n
      /\ n > 0 /\ p.alert = logged[n]
  BY <1>2 DEF LogTells
<1>7. /\ producer'[x] = q /\ \A y \in Producer \ {x} : producer'[y] = Resting
  BY <1>2, <1>4, <1>6 DEF OneWriter, BusTypeOK
<1>8. OneWriter'
  BY <1>7 DEF OneWriter
<1>n. Len(log) \in Nat /\ n \in Nat
  BY LogLengths
<1>9. /\ Len(log') = Len(log) + 1 /\ log'[Len(log) + 1] = piece
      /\ \A i \in 1..Len(log) : log'[i] = log[i]
  BY <1>4, AppendProperties DEF BusTypeOK
<1>f. piece.part = p.pc /\ piece.alert = p.alert
  OBVIOUS
<1> HIDE DEF n, p, q
<1>10. CASE p.pc = "object"
  <2>1. Len(log) + 2 = 2 * n
    BY <1>6, <1>10 DEF Behind2
  <2>2. ASSUME NEW i \in 1..n
        PROVE  /\ 2 * i - 1 <= Len(log') => log'[2 * i - 1] = [alert |-> logged[i], part |-> "object"]
               /\ 2 * i <= Len(log') => log'[2 * i] = [alert |-> logged[i], part |-> "newline"]
    <3>1. CASE i = n
      <4>1. 2 * i - 1 = Len(log) + 1 /\ ~(2 * i <= Len(log'))
        BY <2>1, <3>1, <1>9, <1>n
      <4> QED BY <4>1, <3>1, <1>6, <1>9, <1>10
    <3>2. CASE i # n
      <4>1. 2 * i \in 1..Len(log) /\ 2 * i - 1 \in 1..Len(log)
        BY <2>1, <3>2, <1>n
      <4>2. 2 * i - 1 <= Len(log) /\ 2 * i <= Len(log)
        BY <4>1
      <4> QED BY <4>1, <4>2, <1>6, <1>9 DEF LinesWhole, n
    <3> QED BY <3>1, <3>2
  <2>3. LinesWhole'
    BY <2>2, <1>1 DEF LinesWhole, n
  <2>4. ~Quiet' /\ Len(log') + Behind2("newline") = 2 * n
    BY <2>1, <1>5, <1>7, <1>9, <1>10, <1>n DEF Quiet, Behind2
  <2> QED BY <2>3, <2>4, <1>1, <1>5, <1>6, <1>7, <1>8, <1>10 DEF n
<1>11. CASE p.pc = "newline"
  <2>1. Len(log) + 1 = 2 * n
    BY <1>6, <1>11 DEF Behind2
  <2>2. ASSUME NEW i \in 1..n
        PROVE  /\ 2 * i - 1 <= Len(log') => log'[2 * i - 1] = [alert |-> logged[i], part |-> "object"]
               /\ 2 * i <= Len(log') => log'[2 * i] = [alert |-> logged[i], part |-> "newline"]
    <3>1. CASE i = n
      <4>1. 2 * i = Len(log) + 1 /\ 2 * i - 1 \in 1..Len(log) /\ 2 * i - 1 <= Len(log)
        BY <2>1, <3>1, <1>9, <1>n, <1>6
      <4>2. log'[2 * i - 1] = [alert |-> logged[i], part |-> "object"]
        BY <4>1, <1>6, <1>9 DEF LinesWhole, n
      <4> QED BY <4>1, <4>2, <3>1, <1>6, <1>9, <1>11
    <3>2. CASE i # n
      <4>1. 2 * i \in 1..Len(log) /\ 2 * i - 1 \in 1..Len(log)
        BY <2>1, <3>2, <1>n
      <4>2. 2 * i - 1 <= Len(log) /\ 2 * i <= Len(log)
        BY <4>1
      <4> QED BY <4>1, <4>2, <1>6, <1>9 DEF LinesWhole, n
    <3> QED BY <3>1, <3>2
  <2>3. LinesWhole'
    BY <2>2, <1>1 DEF LinesWhole, n
  <2>4. Len(log') = 2 * n /\ \A y \in Producer : producer'[y] = Resting
    BY <2>1, <1>5, <1>7, <1>9, <1>11
  <2> QED BY <2>3, <2>4, <1>1, <1>8 DEF n
<1> QED BY <1>2, <1>10, <1>11

LEMMA StepLog == ASSUME BusInv, BusNext \/ UNCHANGED busVars PROVE LogTells'
<1>1. ASSUME UNCHANGED <<log, logged, producer, entangled>> PROVE LogTells'
  BY <1>1 DEF BusInv, LogTells, LinesWhole, OneWriter, Quiet
<1>2. ASSUME NEW x \in Producer, NEW a \in Alert, AnnounceOnly(x, a) PROVE LogTells'
  BY <1>1, <1>2 DEF AnnounceOnly
<1>3. ASSUME NEW x \in Producer, AppendFails(x) PROVE LogTells'
  BY <1>3 DEF AppendFails, LogTells
<1>4. ASSUME NEW s \in Subscriber, Attends(s) PROVE LogTells'
  BY <1>1, <1>4, AttendsTask DEF BusInv
<1>5. CASE UNCHANGED busVars
  BY <1>1, <1>5 DEF busVars
<1> QED BY <1>2, <1>3, <1>4, <1>5, AnnounceLog, AppendLog DEF BusNext, Produces, Logging

-----------------------------------------------------------------------------
(* The composition: every step is one of the channel into the engine, of   *)
(* the bus, or of both.                                                    *)
LEMMA Composed == ASSUME [Next]_vars
                  PROVE  [IngestNext]_ingestVars /\ (BusNext \/ UNCHANGED busVars)
<1> USE PipelineAssumption
<1>1. ASSUME NEW p \in Peer, Connections(p) PROVE IngestNext /\ UNCHANGED busVars
  BY <1>1, Zenon DEF Connections, IngestNext
<1>2. CASE TakeEvent \/ FinishEvent \/ Fail
  BY <1>2, Zenon DEF TakeEvent, FinishEvent, Fail, IngestNext
<1>3. CASE Alarm
  <2>1. current \in Alert /\ "consumer" \in Producer
    BY <1>3 DEF Alarm
  <2> QED BY <1>3, <2>1, Zenon DEF Alarm, BusNext, Produces
<1>4. ASSUME NEW x \in Producer, NEW a \in Alert, TaskAnnounces(x, a)
      PROVE  BusNext /\ UNCHANGED ingestVars
  BY <1>4, Zenon DEF TaskAnnounces, BusNext, Produces
<1>5. CASE Bus
  BY <1>5, Zenon DEF Bus, BusNext, Produces, Attends
<1>6. CASE UNCHANGED vars
  BY <1>6 DEF vars
<1> QED BY <1>1, <1>2, <1>3, <1>4, <1>5, <1>6 DEF Next

LEMMA InitBus == BusInit => BusInv
<1> SUFFICES ASSUME BusInit PROVE BusInv
  OBVIOUS
<1>1. BusTypeOK
  BY InitBusTypes
<1>2. RingHolds
  BY DEF BusInit, RingHolds
<1>3. Followed
  BY DEF BusInit, Followed, Passing, Absent
<1>4. LogTells
  BY DEF BusInit, LogTells, OneWriter, LinesWhole, Quiet
<1> QED BY <1>1, <1>2, <1>3, <1>4 DEF BusInv

LEMMA BusAlways == Spec => []BusInv
<1>1. Init => BusInv
  BY InitBus DEF Init
<1>2. BusInv /\ [Next]_vars => BusInv'
  <2> SUFFICES ASSUME BusInv, [Next]_vars PROVE BusInv'
    OBVIOUS
  <2>1. BusNext \/ UNCHANGED busVars
    BY Composed
  <2> QED BY <2>1, StepBusTypes, StepRing, StepLog DEF BusInv
<1> QED BY <1>1, <1>2, PTL DEF Spec

LEMMA GaplessSubscriber ==
  ASSUME BusInv, NEW s \in Subscriber
  PROVE  subscriber[s].got = SubSeq(announced, subscriber[s].from + 1,
                                    subscriber[s].from + Len(subscriber[s].got))
<1> DEFINE r == subscriber[s]
           m == r.from + 1
           n == r.from + Len(r.got)
<1>1. /\ r.from \in Nat /\ r.got \in Seq(Alert) /\ Len(r.got) \in Nat
      /\ announced \in Seq(Alert) /\ Len(announced) \in Nat
  BY SubscriberFields DEF BusInv, BusTypeOK
<1>2. n <= Len(announced) /\ \A i \in 1..Len(r.got) : r.got[i] = announced[r.from + i]
  BY DEF BusInv, Followed, Passing
<1> HIDE DEF r
<1>3. \A i \in m..n : announced[i] \in Alert
  <2> SUFFICES ASSUME NEW i \in m..n PROVE announced[i] \in Alert
    OBVIOUS
  <2>1. i \in 1..Len(announced)
    BY <1>1, <1>2
  <2> QED BY <1>1, <2>1
<1> DEFINE t == SubSeq(announced, m, n)
<1>4. /\ t \in Seq(Alert) /\ Len(t) = IF m <= n THEN n - m + 1 ELSE 0
      /\ \A i \in 1..n - m + 1 : t[i] = announced[m + i - 1]
  <2>1. m \in Int /\ n \in Int
    BY <1>1
  <2> HIDE DEF m, n
  <2> QED BY <2>1, <1>3, SubSeqProperties
<1> HIDE DEF t
<1>5. Len(t) = Len(r.got)
  BY <1>1, <1>4
<1>6. ASSUME NEW i \in 1..Len(r.got) PROVE r.got[i] = t[i]
  <2>1. i \in 1..n - m + 1 /\ m + i - 1 = r.from + i
    BY <1>1
  <2> QED BY <2>1, <1>2, <1>4
<1>7. r.got = t
  <2> HIDE DEF m, n
  <2> QED BY <1>1, <1>4, <1>5, <1>6, SeqEqual
<1> QED BY <1>7 DEF r, t

(* A subscriber is sent what was announced since it subscribed, in order   *)
(* and without a gap, until its connection ends: the ring never shows it a *)
(* newer alert in place of one it missed, however long it lags and however *)
(* many tasks announce (src/src/control.rs 160-173).                       *)
THEOREM SubscribersMissNothing == Spec => []NoGap
<1>1. BusInv => NoGap
  BY GaplessSubscriber DEF NoGap
<1> QED BY <1>1, BusAlways, PTL

(* The log holds, line by line and in order, what was announced with it,   *)
(* until two producers write at a time or a write fails (src/src/          *)
(* heuristics.rs 896-908).                                                 *)
THEOREM LogIsWhole == Spec => []LogFollowsBus
<1>1. BusInv => LogFollowsBus
  <2> SUFFICES ASSUME BusInv, Quiet, ~entangled
               PROVE  /\ Len(log) = 2 * Len(logged)
                      /\ \A i \in DOMAIN logged : <<log[2 * i - 1], log[2 * i]>> = Line(logged[i])
    BY DEF LogFollowsBus
  <2>1. Len(log) = 2 * Len(logged) /\ LinesWhole
    BY DEF BusInv, LogTells
  <2>2. DOMAIN logged = 1..Len(logged) /\ Len(logged) \in Nat
    BY DEF BusInv, BusTypeOK
  <2>3. ASSUME NEW i \in 1..Len(logged)
        PROVE  <<log[2 * i - 1], log[2 * i]>> = Line(logged[i])
    <3>1. 2 * i - 1 <= Len(log) /\ 2 * i <= Len(log)
      BY <2>1, <2>2
    <3>2. /\ log[2 * i - 1] = [alert |-> logged[i], part |-> "object"]
          /\ log[2 * i] = [alert |-> logged[i], part |-> "newline"]
      BY <2>1, <3>1 DEF LinesWhole
    <3> QED BY <3>2 DEF Line
  <2> QED BY <2>1, <2>2, <2>3
<1> QED BY <1>1, BusAlways, PTL

(* Composed with the bus, the telemetry socket, the channel and the        *)
(* consumer thread still implement EventStream.                            *)
THEOREM PipelineRefines == Spec => EventsInOrder
<1>1. Init => IngestInit
  BY DEF Init
<1>2. [Next]_vars => [IngestNext]_ingestVars
  BY Composed
<1>3. Spec => IngestSpec
  BY <1>1, <1>2, PTL DEF Spec, IngestSpec
<1> QED BY <1>3, IngestRefines
=============================================================================
