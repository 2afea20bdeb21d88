-------------------------------- MODULE Ingest --------------------------------
(***************************************************************************)
(* How events reach the engine: the telemetry socket (src/src/ipc.rs), one *)
(* task per connection, the bounded channel (src/src/lib.rs 49) and the    *)
(* consumer thread (lib.rs 82-89).  An event is its connection and its     *)
(* number on it.                                                           *)
(*                                                                         *)
(* Operators named Faulty... are plausible regressions; nothing uses them. *)
(***************************************************************************)
EXTENDS Naturals, Sequences

CONSTANTS
    Peer,        \* connections
    MaxEvents,   \* bound: events a peer writes
    Capacity,    \* of the channel (4096)
    Mishaps      \* what may become of the consumer: subset of {"panic", "hang"}

(* "wrong": another token, or a length above 256; "bad": it is not UTF-8   *)
(* or the stream ends before it does.                                      *)
Token == {"right", "wrong", "bad"}
Number == 0..MaxEvents
Event == [peer : Peer, n : Number]

ASSUME IngestAssumption ==
    /\ MaxEvents \in Nat /\ Capacity \in Nat \ {0}
    /\ Mishaps \subseteq {"panic", "hang"}

VARIABLES
    conn,       \* connection -> where its task stands
    token,      \* connection -> the token its peer presents
    reply,      \* connection -> the byte sent back, 2 if none
    sent,       \* connection -> events written by the peer
    left,       \* the peers that closed their end
    read,       \* connection -> events read from the socket
    queue,      \* the channel
    consumer,   \* "waiting", "handling", "dead" (panicked), "stuck"
    current,    \* the event being handled, or the last one
    handled     \* connection -> number of the last event taken up

peerVars == <<sent, left>>
connVars == <<conn, token, reply, read>>
consumerVars == <<consumer, current, handled>>
ingestVars == <<peerVars, connVars, queue, consumerVars>>

NoEvent == [peer |-> "none", n |-> 0]

IngestTypeOK ==
    /\ conn \in [Peer -> {"none", "token", "open", "sending", "closed"}]
    /\ token \in [Peer -> Token] /\ reply \in [Peer -> 0..2]
    /\ sent \in [Peer -> Number] /\ left \in SUBSET Peer
    /\ read \in [Peer -> Number]
    /\ queue \in Seq(Event)
    /\ consumer \in {"waiting", "handling", "dead", "stuck"}
    /\ current \in Event \cup {NoEvent}
    /\ handled \in [Peer -> Number]

IngestInit ==
    /\ conn = [p \in Peer |-> "none"] /\ token = [p \in Peer |-> "bad"]
    /\ reply = [p \in Peer |-> 2]
    /\ sent = [p \in Peer |-> 0] /\ left = {}
    /\ read = [p \in Peer |-> 0]
    /\ queue = <<>>
    /\ consumer = "waiting" /\ current = NoEvent
    /\ handled = [p \in Peer |-> 0]

SetConn(p, pc) == conn' = [conn EXCEPT ![p] = pc]

-----------------------------------------------------------------------------
(* The peers.  Nothing makes a peer wait for the reply before it writes.   *)
Connect(p) ==
    /\ conn[p] = "none" /\ SetConn(p, "token")
    /\ \E t \in Token : token' = [token EXCEPT ![p] = t]
    /\ UNCHANGED <<peerVars, reply, read, queue, consumerVars>>

Emit(p) ==
    /\ conn[p] # "none" /\ p \notin left /\ sent[p] < MaxEvents
    /\ sent' = [sent EXCEPT ![p] = @ + 1]
    /\ UNCHANGED <<left, connVars, queue, consumerVars>>

(* The peer closes; the last thing it wrote may be part of an event.       *)
Leave(p) ==
    /\ conn[p] # "none" /\ p \notin left
    /\ left' = left \cup {p}
    /\ UNCHANGED <<sent, connVars, queue, consumerVars>>

-----------------------------------------------------------------------------
(* The task of a connection: handle_connection.                            *)

(* The reply says whether the token was right; the connection goes on.     *)
FaultyHandshake(p) ==
    /\ conn[p] = "token"
    /\ CASE token[p] = "right" -> SetConn(p, "open") /\ reply' = [reply EXCEPT ![p] = 1]
         [] token[p] = "wrong" -> SetConn(p, "open") /\ reply' = [reply EXCEPT ![p] = 0]
         [] OTHER -> SetConn(p, "closed") /\ UNCHANGED reply
    /\ UNCHANGED <<peerVars, token, read, queue, consumerVars>>

Handshake(p) ==
    /\ conn[p] = "token"
    /\ CASE token[p] = "right" -> SetConn(p, "open") /\ reply' = [reply EXCEPT ![p] = 1]
         [] token[p] = "wrong" -> SetConn(p, "closed") /\ reply' = [reply EXCEPT ![p] = 0]
         [] OTHER -> SetConn(p, "closed") /\ UNCHANGED reply
    /\ UNCHANGED <<peerVars, token, read, queue, consumerVars>>

(* read_exact: a whole event.                                              *)
ReadEvent(p) ==
    /\ conn[p] = "open" /\ read[p] < sent[p]
    /\ read' = [read EXCEPT ![p] = @ + 1] /\ SetConn(p, "sending")
    /\ UNCHANGED <<peerVars, token, reply, queue, consumerVars>>

(* The end of the stream; part of an event is dropped.                     *)
EndOfStream(p) ==
    /\ conn[p] = "open" /\ p \in left /\ read[p] = sent[p]
    /\ SetConn(p, "closed")
    /\ UNCHANGED <<peerVars, token, reply, read, queue, consumerVars>>

(* The connection is reset: what was not read is lost.                     *)
Reset(p) ==
    /\ conn[p] = "open" /\ p \in left
    /\ SetConn(p, "closed")
    /\ UNCHANGED <<peerVars, token, reply, read, queue, consumerVars>>

(* try_send: an event that finds the channel full is dropped.              *)
FaultySend(p) ==
    /\ conn[p] = "sending" /\ consumer # "dead"
    /\ queue' = IF Len(queue) < Capacity
                THEN Append(queue, [peer |-> p, n |-> read[p]]) ELSE queue
    /\ SetConn(p, "open")
    /\ UNCHANGED <<peerVars, token, reply, read, consumerVars>>

(* send().await: the task waits for room, and so does the peer behind it.  *)
Send(p) ==
    /\ conn[p] = "sending" /\ consumer # "dead"
    /\ Len(queue) < Capacity
    /\ queue' = Append(queue, [peer |-> p, n |-> read[p]])
    /\ SetConn(p, "open")
    /\ UNCHANGED <<peerVars, token, reply, read, consumerVars>>

(* The receiver is gone.                                                   *)
SendFails(p) ==
    /\ conn[p] = "sending" /\ consumer = "dead"
    /\ SetConn(p, "closed")
    /\ UNCHANGED <<peerVars, token, reply, read, queue, consumerVars>>

-----------------------------------------------------------------------------
(* The consumer thread.                                                    *)
Take ==
    /\ consumer = "waiting" /\ queue # <<>>
    /\ consumer' = "handling" /\ current' = Head(queue) /\ queue' = Tail(queue)
    /\ handled' = [handled EXCEPT ![Head(queue).peer] = Head(queue).n]
    /\ UNCHANGED <<peerVars, connVars>>

Finish ==
    /\ consumer = "handling" /\ consumer' = "waiting"
    /\ UNCHANGED <<peerVars, connVars, queue, current, handled>>

(* A handler that panics ends the thread and drops the receiver with what  *)
(* it holds.                                                               *)
Panic ==
    /\ "panic" \in Mishaps /\ consumer = "handling"
    /\ consumer' = "dead" /\ queue' = <<>>
    /\ UNCHANGED <<peerVars, connVars, current, handled>>

(* A handler that waits for a lock the thread holds itself never ends.     *)
Hang ==
    /\ "hang" \in Mishaps /\ consumer = "handling"
    /\ consumer' = "stuck"
    /\ UNCHANGED <<peerVars, connVars, queue, current, handled>>

-----------------------------------------------------------------------------
Receiving(p) ==
    Handshake(p) \/ ReadEvent(p) \/ EndOfStream(p) \/ Send(p) \/ SendFails(p)

IngestNext ==
    \/ \E p \in Peer : Connect(p) \/ Emit(p) \/ Leave(p) \/ Receiving(p) \/ Reset(p)
    \/ Take \/ Finish \/ Panic \/ Hang

IngestSpec == IngestInit /\ [][IngestNext]_ingestVars

(* The runtime runs every task, and the channel's semaphore is first come, *)
(* first served: a task that waits for room again and again gets it.  The  *)
(* thread runs, and a handler ends unless it fails.                        *)
IngestFairness ==
    /\ \A p \in Peer : WF_ingestVars(Receiving(p)) /\ SF_ingestVars(Send(p))
    /\ WF_ingestVars(Take) /\ WF_ingestVars(Finish)

IngestLiveSpec == IngestSpec /\ IngestFairness

-----------------------------------------------------------------------------
Authenticated == {p \in Peer : reply[p] = 1}

Stream == INSTANCE EventStream WITH trusted <- Authenticated

(* Refinement.  Whatever connections interleave, block, break or leave,    *)
(* the engine handles of each authenticated connection a prefix of what    *)
(* its peer wrote, in order and none twice, and nothing of another (ipc.rs *)
(* 117-173).                                                               *)
EventsInOrder == Stream!Spec

Failed == consumer \in {"dead", "stuck"}

(* Liveness.  An event that was written on an authenticated connection is  *)
(* handled, whatever waits in front of it, unless the consumer thread      *)
(* fails or the peer leaves while it is unread (ipc.rs 149-170, lib.rs     *)
(* 86-88).                                                                 *)
EventsAreHandled ==
    \A p \in Peer : \A n \in 1..MaxEvents :
        sent[p] >= n /\ p \in Authenticated ~> handled[p] >= n \/ Failed \/ p \in left
=============================================================================
