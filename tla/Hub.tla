-------------------------------- MODULE Hub --------------------------------
(***************************************************************************)
(* The WebSocket hub of internal/ws/hub.go: one goroutine (Hub.Run) owns   *)
(* the set of clients, every browser connection has a handler, a readPump  *)
(* and a writePump goroutine, and any number of goroutines publish with    *)
(* Hub.Broadcast.                                                          *)
(*                                                                         *)
(* A client is one connection (one *Client value), used once: a browser    *)
(* that reconnects is another client.  A message is the number of its      *)
(* arrival in the broadcast channel, so `published' is the number of       *)
(* messages accepted so far and `current' the last one the hub took out.   *)
(* A rendezvous on an unbuffered Go channel is a single action of both     *)
(* sides.                                                                  *)
(***************************************************************************)
EXTENDS Naturals, Sequences, FiniteSets

CONSTANTS
  Client,        \* connections that may be opened
  Ticker,        \* periodic broadcasters: publish only if someone listens
  Caller,        \* request handlers that publish after a successful operation
  BroadcastCap,  \* capacity of Hub.broadcast (256 in the code)
  SendCap,       \* capacity of Client.send   (256 in the code)
  MaxMsg,        \* bound on the number of published messages
  MayCancel,     \* whether the context given to Run is ever cancelled
  Responsive     \* clients that never stall: they read, or they are gone

ASSUME HubAssumption ==
  /\ BroadcastCap \in Nat \ {0}
  /\ SendCap \in Nat \ {0}
  /\ MaxMsg \in Nat
  /\ MayCancel \in BOOLEAN
  /\ Ticker \cap Caller = {}
  /\ Responsive \subseteq Client

VARIABLES
  cancelled,  \* ctx.Done() is closed
  hub,        \* where Hub.Run is: "select", "fanout" or "stopped"
  clients,    \* Hub.clients
  broadcast,  \* contents of Hub.broadcast
  published,  \* number of messages that entered Hub.broadcast
  current,    \* number of messages that left it
  todo,       \* clients the fan-out of `current' has still to visit
  send,       \* contents of Client.send
  closed,     \* clients whose send channel is closed
  handler,    \* HandleWebSocket, per client
  writer,     \* writePump, per client
  held,       \* the message writePump is writing (0: none)
  reader,     \* readPump, per client
  conn,       \* server end of the connection: "none", "open", "closed"
  gone,       \* clients whose peer went away
  pub,        \* publishers
  panicked,   \* a goroutine closed or sent on a closed channel
  from,       \* history: value of current when the client was registered
  wrote       \* history: messages written to the connection, in order

hubVars  == <<cancelled, hub, clients, current, todo, panicked>>
chanVars == <<send, closed>>
pumpVars == <<handler, writer, held, reader, conn, gone>>
pubVars  == <<broadcast, published, pub>>
history  == <<from, wrote>>
vars == <<hubVars, chanVars, pumpVars, pubVars, history>>

Publisher == Ticker \cup Caller
Msg == 1 .. MaxMsg

TypeOK ==
  /\ cancelled \in BOOLEAN
  /\ hub \in {"select", "fanout", "stopped"}
  /\ clients \subseteq Client
  /\ broadcast \in Seq(Nat) /\ Len(broadcast) <= BroadcastCap
  /\ published \in 0 .. MaxMsg
  /\ current \in Nat
  /\ todo \subseteq Client
  /\ send \in [Client -> Seq(Nat)]
  /\ closed \subseteq Client
  /\ handler \in [Client -> {"idle", "registering", "starting", "done"}]
  /\ writer \in [Client -> {"none", "waiting", "writing", "done"}]
  /\ held \in [Client -> Nat]
  /\ reader \in [Client -> {"none", "reading", "leaving", "closing", "done"}]
  /\ conn \in [Client -> {"none", "open", "closed"}]
  /\ gone \subseteq Client
  /\ pub \in [Publisher -> {"idle", "fetching", "sending", "done"}]
  /\ panicked \in BOOLEAN
  /\ from \in [Client -> Nat]
  /\ wrote \in [Client -> Seq(Nat)]

Init ==
  /\ cancelled = FALSE
  /\ hub = "select"
  /\ clients = {}
  /\ broadcast = <<>>
  /\ published = 0
  /\ current = 0
  /\ todo = {}
  /\ send = [c \in Client |-> <<>>]
  /\ closed = {}
  /\ handler = [c \in Client |-> "idle"]
  /\ writer = [c \in Client |-> "none"]
  /\ held = [c \in Client |-> 0]
  /\ reader = [c \in Client |-> "none"]
  /\ conn = [c \in Client |-> "none"]
  /\ gone = {}
  /\ pub = [p \in Publisher |-> "idle"]
  /\ panicked = FALSE
  /\ from = [c \in Client |-> 0]
  /\ wrote = [c \in Client |-> <<>>]

-----------------------------------------------------------------------------
(* Hub.Run *)

\* case client := <-h.register, with the handler blocked on `h.register <- client'
HubRegister(c) ==
  /\ hub = "select"
  /\ handler[c] = "registering"
  /\ clients' = clients \cup {c}
  /\ handler' = [handler EXCEPT ![c] = "starting"]
  /\ from' = [from EXCEPT ![c] = current]
  /\ UNCHANGED <<cancelled, hub, current, todo, panicked, chanVars, writer, held,
                 reader, conn, gone, pubVars, wrote>>

\* Mutant: unregister without the `ok' test.
Registered_Unchecked(c) == {c}

\* The clients the unregister case removes: it does nothing for one that a
\* fan-out has already evicted (`if _, ok := h.clients[client]; ok').
Registered(c) == {c} \cap clients

\* case client := <-h.unregister, with readPump blocked on `h.unregister <- c'
HubUnregister(c) ==
  /\ hub = "select"
  /\ reader[c] = "leaving"
  /\ clients' = clients \ Registered(c)
  /\ panicked' = (panicked \/ Registered(c) \cap closed # {})
  /\ closed' = closed \cup Registered(c)
  /\ reader' = [reader EXCEPT ![c] = "closing"]
  /\ UNCHANGED <<cancelled, hub, current, todo, send, handler, writer, held,
                 conn, gone, pubVars, history>>

\* case msg := <-h.broadcast: start the loop over the clients
HubTake ==
  /\ hub = "select"
  /\ broadcast # <<>>
  /\ hub' = "fanout"
  /\ current' = Head(broadcast)
  /\ broadcast' = Tail(broadcast)
  /\ todo' = clients
  /\ UNCHANGED <<cancelled, clients, panicked, chanVars, pumpVars, published,
                 pub, history>>

\* One iteration: the send succeeds (sending on a closed channel would panic) ...
HubOffer(c) ==
  /\ hub = "fanout"
  /\ c \in todo
  /\ Len(send[c]) < SendCap
  /\ todo' = todo \ {c}
  /\ send' = [send EXCEPT ![c] = Append(@, current)]
  /\ panicked' = (panicked \/ c \in closed)
  /\ UNCHANGED <<cancelled, hub, clients, current, closed, pumpVars, pubVars,
                 history>>

\* Mutants of the eviction: skip the message, forget the close, wait for room.
HubEvict_Skip(c) ==
  /\ hub = "fanout" /\ c \in todo /\ Len(send[c]) >= SendCap
  /\ todo' = todo \ {c}
  /\ UNCHANGED <<cancelled, hub, clients, current, panicked, chanVars, pumpVars,
                 pubVars, history>>

HubEvict_NoClose(c) ==
  /\ hub = "fanout" /\ c \in todo /\ Len(send[c]) >= SendCap
  /\ todo' = todo \ {c}
  /\ clients' = clients \ {c}
  /\ UNCHANGED <<cancelled, hub, current, panicked, chanVars, pumpVars, pubVars,
                 history>>

HubEvict_Wait(c) == FALSE /\ HubEvict_Skip(c)

\* ... or the buffer is full and the client is evicted.
HubEvict(c) ==
  /\ hub = "fanout"
  /\ c \in todo
  /\ Len(send[c]) >= SendCap
  /\ todo' = todo \ {c}
  /\ clients' = clients \ {c}
  /\ panicked' = (panicked \/ c \in closed)
  /\ closed' = closed \cup {c}
  /\ UNCHANGED <<cancelled, hub, current, send, pumpVars, pubVars, history>>

HubFanoutDone ==
  /\ hub = "fanout"
  /\ todo = {}
  /\ hub' = "select"
  /\ UNCHANGED <<cancelled, clients, current, todo, panicked, chanVars, pumpVars,
                 pubVars, history>>

\* case <-ctx.Done(): close every client's channel and return
HubStop ==
  /\ hub = "select"
  /\ cancelled
  /\ hub' = "stopped"
  /\ clients' = {}
  /\ panicked' = (panicked \/ clients \cap closed # {})
  /\ closed' = closed \cup clients
  /\ UNCHANGED <<cancelled, current, todo, send, pumpVars, pubVars, history>>

-----------------------------------------------------------------------------
(* HandleWebSocket, readPump, writePump and the peer *)

\* The token is valid and the upgrade succeeded; a rejected request leaves no trace.
Connect(c) ==
  /\ handler[c] = "idle"
  /\ handler' = [handler EXCEPT ![c] = "registering"]
  /\ conn' = [conn EXCEPT ![c] = "open"]
  /\ UNCHANGED <<hubVars, chanVars, writer, held, reader, gone, pubVars, history>>

\* go client.writePump(); go client.readPump(h)
StartPumps(c) ==
  /\ handler[c] = "starting"
  /\ handler' = [handler EXCEPT ![c] = "done"]
  /\ writer' = [writer EXCEPT ![c] = "waiting"]
  /\ reader' = [reader EXCEPT ![c] = "reading"]
  /\ UNCHANGED <<hubVars, chanVars, held, conn, gone, pubVars, history>>

\* The browser closes the tab or the network drops.
PeerGone(c) ==
  /\ conn[c] # "none"
  /\ c \notin gone
  /\ gone' = gone \cup {c}
  /\ UNCHANGED <<hubVars, chanVars, handler, writer, held, reader, conn, pubVars,
                 history>>

\* Mutant: the message stays in the channel.
WriterTake_Peek(c) ==
  /\ writer[c] = "waiting" /\ send[c] # <<>>
  /\ writer' = [writer EXCEPT ![c] = "writing"]
  /\ held' = [held EXCEPT ![c] = Head(send[c])]
  /\ UNCHANGED <<hubVars, chanVars, handler, reader, conn, gone, pubVars, history>>

\* for msg := range c.send
WriterTake(c) ==
  /\ writer[c] = "waiting"
  /\ send[c] # <<>>
  /\ writer' = [writer EXCEPT ![c] = "writing"]
  /\ held' = [held EXCEPT ![c] = Head(send[c])]
  /\ send' = [send EXCEPT ![c] = Tail(@)]
  /\ UNCHANGED <<hubVars, closed, handler, reader, conn, gone, pubVars, history>>

\* WriteMessage succeeds: the bytes are in the socket, whether or not a peer
\* that has just gone will ever read them.
WriterOk(c) ==
  /\ writer[c] = "writing"
  /\ conn[c] = "open"
  /\ writer' = [writer EXCEPT ![c] = "waiting"]
  /\ wrote' = [wrote EXCEPT ![c] = Append(@, held[c])]
  /\ held' = [held EXCEPT ![c] = 0]
  /\ UNCHANGED <<hubVars, chanVars, handler, reader, conn, gone, pubVars, from>>

\* WriteMessage fails: break, and the deferred conn.Close().  A write may fail
\* because the peer is gone or because readPump closed the connection.
WriterErr(c) ==
  /\ writer[c] = "writing"
  /\ c \in gone \/ conn[c] = "closed"
  /\ writer' = [writer EXCEPT ![c] = "done"]
  /\ held' = [held EXCEPT ![c] = 0]
  /\ conn' = [conn EXCEPT ![c] = "closed"]
  /\ UNCHANGED <<hubVars, chanVars, handler, reader, gone, pubVars, history>>

\* The range ends: the channel is closed and drained.
WriterEnd(c) ==
  /\ writer[c] = "waiting"
  /\ send[c] = <<>>
  /\ c \in closed
  /\ writer' = [writer EXCEPT ![c] = "done"]
  /\ conn' = [conn EXCEPT ![c] = "closed"]
  /\ UNCHANGED <<hubVars, chanVars, handler, held, reader, gone, pubVars, history>>

\* Mutant: readPump ends without telling the hub.
ReaderErr_Silent(c) ==
  /\ reader[c] = "reading" /\ (c \in gone \/ conn[c] = "closed")
  /\ reader' = [reader EXCEPT ![c] = "closing"]
  /\ UNCHANGED <<hubVars, chanVars, handler, writer, held, conn, gone, pubVars,
                 history>>

\* ReadMessage returns an error; whatever the peer sends before that is ignored.
ReaderErr(c) ==
  /\ reader[c] = "reading"
  /\ c \in gone \/ conn[c] = "closed"
  /\ reader' = [reader EXCEPT ![c] = "leaving"]
  /\ UNCHANGED <<hubVars, chanVars, handler, writer, held, conn, gone, pubVars,
                 history>>

\* The deferred c.conn.Close(), after the hub took the unregistration.
ReaderClose(c) ==
  /\ reader[c] = "closing"
  /\ reader' = [reader EXCEPT ![c] = "done"]
  /\ conn' = [conn EXCEPT ![c] = "closed"]
  /\ UNCHANGED <<hubVars, chanVars, handler, writer, held, gone, pubVars, history>>

-----------------------------------------------------------------------------
(* Publishers *)

PubStep(p, before, after) ==
  /\ pub[p] = before
  /\ pub' = [pub EXCEPT ![p] = after]
  /\ UNCHANGED <<hubVars, chanVars, pumpVars, broadcast, published, history>>

\* <-ticker.C: `if h.ClientCount() == 0 { continue }', else ask the source.  The
\* count is read under RLock, which a fan-out in progress holds as well.
Tick(p) ==
  /\ p \in Ticker
  /\ clients # {}
  /\ PubStep(p, "idle", "fetching")

\* The source answers, or fails and the tick is skipped.
Fetched(p) == PubStep(p, "fetching", "sending") \/ PubStep(p, "fetching", "idle")

\* A handler's systemd call succeeded and it calls Broadcast.
Call(p) == p \in Caller /\ PubStep(p, "idle", "sending")

\* Mutant: the send does not wait for room.
Enqueue_Unbounded(p) ==
  /\ pub[p] = "sending" /\ published < MaxMsg
  /\ published' = published + 1
  /\ broadcast' = Append(broadcast, published')
  /\ pub' = [pub EXCEPT ![p] = "idle"]
  /\ UNCHANGED <<hubVars, chanVars, pumpVars, history>>

\* `h.broadcast <- data' blocks while the channel is full.
Enqueue(p) ==
  /\ pub[p] = "sending"
  /\ Len(broadcast) < BroadcastCap
  /\ published < MaxMsg
  /\ published' = published + 1
  /\ broadcast' = Append(broadcast, published')
  /\ pub' = [pub EXCEPT ![p] = "idle"]
  /\ UNCHANGED <<hubVars, chanVars, pumpVars, history>>

\* A broadcaster at its select sees ctx.Done() and returns.
TickerExit(p) == p \in Ticker /\ cancelled /\ PubStep(p, "idle", "done")

Cancel ==
  /\ MayCancel
  /\ ~cancelled
  /\ cancelled' = TRUE
  /\ UNCHANGED <<hub, clients, current, todo, panicked, chanVars, pumpVars, pubVars,
                 history>>

-----------------------------------------------------------------------------
HubStep ==
  \/ HubTake
  \/ HubFanoutDone
  \/ HubStop
  \/ \E c \in Client :
       HubRegister(c) \/ HubUnregister(c) \/ HubOffer(c) \/ HubEvict(c)

ClientStep(c) ==
  \/ Connect(c) \/ StartPumps(c) \/ PeerGone(c)
  \/ WriterTake(c) \/ WriterOk(c) \/ WriterErr(c) \/ WriterEnd(c)
  \/ ReaderErr(c) \/ ReaderClose(c)

PubStepOf(p) == Tick(p) \/ Fetched(p) \/ Call(p) \/ Enqueue(p) \/ TickerExit(p)

\* A panic in any of these goroutines ends the process.
Next ==
  /\ ~panicked
  /\ \/ HubStep
     \/ \E c \in Client : ClientStep(c)
     \/ \E p \in Publisher : PubStepOf(p)
     \/ Cancel

Spec == Init /\ [][Next]_vars

\* Go's select picks among the ready cases at random, so a case that is ready
\* again and again is taken: strong fairness for each.  The fan-out goes on.
HubFairness ==
  /\ SF_vars(HubTake)
  /\ SF_vars(HubStop)
  /\ \A c \in Client : SF_vars(HubRegister(c)) /\ SF_vars(HubUnregister(c))
  /\ WF_vars(HubFanoutDone \/ \E c \in Client : HubOffer(c) \/ HubEvict(c))

\* The goroutines of a client are scheduled, and a write to a connection ends:
\* the peer reads, or it is gone and the kernel reports an error.  A browser that
\* does neither leaves its writePump in WriteMessage for ever.
PumpFairness ==
  \A c \in Responsive :
    /\ WF_vars(StartPumps(c))
    /\ WF_vars(WriterTake(c) \/ WriterOk(c) \/ WriterErr(c) \/ WriterEnd(c))
    /\ WF_vars(ReaderErr(c) \/ ReaderClose(c))

FairSpec == Spec /\ HubFairness /\ PumpFairness
-----------------------------------------------------------------------------
(* Properties *)

\* The elements of s are the messages after n, none missing and none repeated.
Consecutive(s, n) == \A i \in DOMAIN s : s[i] = n + i

\* Nobody sends on or closes a channel that is closed: the three places that
\* close a send channel (unregistration, eviction, shutdown) and the fan-out
\* agree on who owns it.  Such a step would panic and take the server down.
NoChannelPanic == ~panicked

InHand(c) == IF writer[c] = "writing" THEN 1 ELSE 0

\* The last message that writePump took out of the buffer.
Past(c) == from[c] + Len(wrote[c]) + InHand(c)

\* A registered client that can still write lost nothing since it was registered: what it
\* was sent, what its writePump holds and what its buffer holds add up to every
\* message dispatched since then, but the one the fan-out is about to offer it.
\* A slow client is cut off, never skipped.
NothingSkipped ==
  \A c \in clients :
    writer[c] # "done" =>
      Past(c) + Len(send[c]) = IF c \in todo THEN current - 1 ELSE current

\* A connection carries consecutive messages in the order of the broadcast
\* channel, the first being the first one dispatched after the registration.
InOrderNoGaps ==
  \A c \in Client : Consecutive(wrote[c], from[c])

\* No channel of a client that the hub forgot stays open: its writePump would
\* wait on it for ever.  (The hub is the only one that can close it.)
ForgottenIsClosed ==
  \A c \in Client : handler[c] \in {"starting", "done"} => c \in clients \/ c \in closed

\* The hub implements the feed: a subscriber is inside from its registration
\* until its writePump has ended.
FeedPlace(c) ==
  IF handler[c] \in {"idle", "registering"} THEN "outside"
  ELSE IF writer[c] = "done" THEN "left" ELSE "inside"

AsFeed == INSTANCE Feed WITH
  Subscriber <- Client, log <- published, seen <- wrote, start <- from,
  place <- [c \in Client |-> FeedPlace(c)]

ImplementsFeed == AsFeed!Spec

\* Whatever the clients do, stall included, a published message is dispatched
\* and the hub is ready again: no client can hold up the hub.
HubNeverStalls ==
  \A n \in Msg : published >= n ~> (current >= n /\ hub = "select") \/ cancelled

\* When a peer goes away the hub forgets the client and both its goroutines end.
GoneIsForgotten ==
  \A c \in Responsive :
    c \in gone ~> (c \notin clients /\ writer[c] = "done" /\ reader[c] = "done") \/ cancelled

\* A message published while a client is registered reaches its connection, or
\* the connection is closed so that the browser knows it has to come back.
ShownOrClosed ==
  \A c \in Responsive : \A n \in Msg :
    (c \in clients /\ from[c] < n /\ n <= published)
      ~> (from[c] + Len(wrote[c]) >= n \/ conn[c] = "closed" \/ cancelled)

-----------------------------------------------------------------------------
(* The inductive invariant behind the safety properties *)

\* The broadcast channel holds the messages after `current', in order.
QueueInv ==
  /\ current + Len(broadcast) = published
  /\ Consecutive(broadcast, current)

\* The fan-out visits registered clients only; their channels are open.
OwnerInv ==
  /\ hub # "fanout" => todo = {}
  /\ todo \subseteq clients
  /\ clients \cap closed = {}

\* The goroutines of a client are started after its registration, and only then.
StageInv(c) ==
  /\ handler[c] \in {"idle", "registering"} =>
       c \notin clients /\ c \notin closed /\ send[c] = <<>> /\ wrote[c] = <<>>
  /\ handler[c] = "done" <=> writer[c] # "none"
  /\ handler[c] = "done" <=> reader[c] # "none"

\* What a client was sent, is being sent and has buffered are consecutive messages.
StreamInv(c) ==
  /\ from[c] <= current
  /\ Consecutive(wrote[c], from[c])
  /\ writer[c] = "writing" => held[c] = from[c] + Len(wrote[c]) + 1
  /\ writer[c] # "done" =>
       /\ Past(c) + Len(send[c]) <= current
       /\ Consecutive(send[c], Past(c))

\* The conjunction that every step preserves; it implies the safety properties
\* above, none of which is inductive without the others.
IInv ==
  /\ TypeOK
  /\ NoChannelPanic
  /\ QueueInv
  /\ OwnerInv
  /\ NothingSkipped
  /\ ForgottenIsClosed
  /\ \A c \in Client : StageInv(c) /\ StreamInv(c)
=============================================================================
