------------------------------- MODULE AlertBus -------------------------------
(***************************************************************************)
(* How alerts leave the agent: write_structured_alert (src/src/            *)
(* heuristics.rs 866-909) sends an alert on a broadcast channel and then   *)
(* appends a line to alerts.log; the clean-up after an install uses the    *)
(* channel only (604-626); a Subscribe connection (src/src/control.rs      *)
(* 159-175) passes on what it receives.  Alerts come from the consumer     *)
(* thread and from scans, prompts and clean-ups on the runtime.            *)
(*                                                                         *)
(* The channel is a ring: a receiver that is more than its length behind   *)
(* gets an error.  `writeln!` on a file writes the object and the newline  *)
(* with two calls; the file is open for appending.                         *)
(*                                                                         *)
(* Operators named Faulty... are plausible regressions; nothing uses them. *)
(***************************************************************************)
EXTENDS Naturals, Sequences

CONSTANTS
    Alert,        \* what can be announced
    Producer,     \* the tasks that announce
    Subscriber,   \* Subscribe connections
    Slots         \* of the ring (tokio rounds 100 up to 128)

ASSUME BusAssumption == Alert # {} /\ Slots \in Nat \ {0}

VARIABLES
    announced,    \* history: every alert sent on the channel
    ring,         \* slot -> the alert in it
    log,          \* what was appended to alerts.log, call by call
    producer,     \* producer -> which of its two calls is next, and its alert
    subscriber,   \* connection -> where it stands
    logged,       \* history: the alerts of write_structured_alert
    entangled     \* history: two producers wrote at a time, or a write failed

busVars == <<announced, ring, log, producer, subscriber, logged, entangled>>

Resting == [pc |-> "idle"]
Absent == [pc |-> "none", from |-> 0, next |-> 0, got |-> <<>>]

ProducerState == {Resting} \cup [pc : {"object", "newline"}, alert : Alert]
SubscriberState == [pc : {"none", "active", "writing", "ended"},
                    from : Nat, next : Nat, got : Seq(Alert)]

BusTypeOK ==
    /\ announced \in Seq(Alert) /\ logged \in Seq(Alert)
    /\ ring \in [0..Slots - 1 -> Alert]
    /\ log \in Seq([alert : Alert, part : {"object", "newline"}])
    /\ producer \in [Producer -> ProducerState]
    /\ subscriber \in [Subscriber -> SubscriberState]
    /\ entangled \in BOOLEAN

BusInit ==
    /\ announced = <<>> /\ log = <<>> /\ logged = <<>> /\ entangled = FALSE
    /\ ring \in [0..Slots - 1 -> {CHOOSE a \in Alert : TRUE}]
    /\ producer = [x \in Producer |-> Resting]
    /\ subscriber = [s \in Subscriber |-> Absent]

-----------------------------------------------------------------------------
(* The producers.                                                          *)
Put(a) ==
    /\ announced' = Append(announced, a)
    /\ ring' = [ring EXCEPT ![Len(announced) % Slots] = a]

Announce(x, a) ==
    /\ producer[x] = Resting
    /\ Put(a)
    /\ logged' = Append(logged, a)
    /\ producer' = [producer EXCEPT ![x] = [pc |-> "object", alert |-> a]]
    /\ entangled' = (entangled \/ \E y \in Producer : producer[y] # Resting)
    /\ UNCHANGED <<log, subscriber>>

(* The alert of a clean-up.                                                *)
AnnounceOnly(x, a) ==
    /\ producer[x] = Resting
    /\ Put(a)
    /\ UNCHANGED <<log, producer, subscriber, logged, entangled>>

AppendObject(x) ==
    /\ producer[x].pc = "object"
    /\ log' = Append(log, [alert |-> producer[x].alert, part |-> "object"])
    /\ producer' = [producer EXCEPT ![x] = [@ EXCEPT !.pc = "newline"]]
    /\ UNCHANGED <<announced, ring, subscriber, logged, entangled>>

(* write! in place of writeln!.                                            *)
FaultyAppendNewline(x) ==
    /\ producer[x].pc = "newline"
    /\ producer' = [producer EXCEPT ![x] = Resting]
    /\ UNCHANGED <<announced, ring, log, subscriber, logged, entangled>>

AppendNewline(x) ==
    /\ producer[x].pc = "newline"
    /\ log' = Append(log, [alert |-> producer[x].alert, part |-> "newline"])
    /\ producer' = [producer EXCEPT ![x] = Resting]
    /\ UNCHANGED <<announced, ring, subscriber, logged, entangled>>

(* The log cannot be opened or written: the error is ignored.              *)
AppendFails(x) ==
    /\ producer[x] # Resting
    /\ producer' = [producer EXCEPT ![x] = Resting]
    /\ entangled' = TRUE
    /\ UNCHANGED <<announced, ring, log, subscriber, logged>>

-----------------------------------------------------------------------------
(* A Subscribe connection.                                                 *)
SetSubscriber(s, r) == subscriber' = [subscriber EXCEPT ![s] = r]

(* The receiver exists before the reply is sent.                           *)
Subscribe(s) ==
    /\ subscriber[s].pc = "none"
    /\ SetSubscriber(s, [pc |-> "active", from |-> Len(announced),
                         next |-> Len(announced), got |-> <<>>])
    /\ UNCHANGED <<announced, ring, log, producer, logged, entangled>>

Behind(s) == Len(announced) - subscriber[s].next

(* A receiver that is behind goes on with the oldest alert there is.       *)
FaultyReceive(s) ==
    /\ subscriber[s].pc = "active" /\ Behind(s) > 0
    /\ LET at == IF Behind(s) > Slots THEN Len(announced) - Slots ELSE subscriber[s].next IN
       SetSubscriber(s, [subscriber[s] EXCEPT !.pc = "writing", !.next = at + 1,
                                              !.got = Append(@, ring[at % Slots])])
    /\ UNCHANGED <<announced, ring, log, producer, logged, entangled>>

(* rx.recv(): a receiver that is too far behind gets Lagged, which ends    *)
(* the connection; otherwise the next alert is written to it.              *)
Receive(s) ==
    /\ subscriber[s].pc = "active" /\ Behind(s) > 0
    /\ IF Behind(s) > Slots
       THEN SetSubscriber(s, [subscriber[s] EXCEPT !.pc = "ended"])
       ELSE SetSubscriber(s, [subscriber[s] EXCEPT
                !.pc = "writing", !.next = @ + 1,
                !.got = Append(@, ring[subscriber[s].next % Slots])])
    /\ UNCHANGED <<announced, ring, log, producer, logged, entangled>>

(* The client has taken the line.                                          *)
Passed(s) ==
    /\ subscriber[s].pc = "writing"
    /\ SetSubscriber(s, [subscriber[s] EXCEPT !.pc = "active"])
    /\ UNCHANGED <<announced, ring, log, producer, logged, entangled>>

(* The client is gone, which only a write finds out.                       *)
WriteFails(s) ==
    /\ subscriber[s].pc = "writing"
    /\ SetSubscriber(s, [subscriber[s] EXCEPT !.pc = "ended"])
    /\ UNCHANGED <<announced, ring, log, producer, logged, entangled>>

-----------------------------------------------------------------------------
Logging(x) == AppendObject(x) \/ AppendNewline(x)
Serving(s) == Receive(s) \/ Passed(s)

(* Safety.  What a subscriber is sent is what was announced since it       *)
(* subscribed, without a gap: the ring never shows it a newer alert in     *)
(* place of one it missed (control.rs 160-173).                            *)
NoGap ==
    \A s \in Subscriber : LET r == subscriber[s] IN
        r.got = SubSeq(announced, r.from + 1, r.from + Len(r.got))

Line(a) == <<[alert |-> a, part |-> "object"], [alert |-> a, part |-> "newline"]>>
Quiet == \A x \in Producer : producer[x] = Resting

(* Safety.  Unless two producers wrote at a time or a write failed,        *)
(* alerts.log holds, line by line and in order, every alert that           *)
(* write_structured_alert announced (heuristics.rs 896-908).               *)
LogFollowsBus ==
    Quiet /\ ~entangled =>
        /\ Len(log) = 2 * Len(logged)
        /\ \A i \in DOMAIN logged : <<log[2 * i - 1], log[2 * i]>> = Line(logged[i])

(* "Newline-delimited JSON (JSON Lines)" (src/README.md 73).               *)
JsonLines ==
    \A i \in 1..Len(log) - 1 :
        log[i].part = "object" => log[i + 1].part = "newline"
=============================================================================
