------------------------------ MODULE HubProofs ------------------------------
(***************************************************************************)
(* Proofs about Hub: the inductive invariant, the safety properties that   *)
(* follow from it, and the refinement of Feed, for any set of clients and  *)
(* publishers and any capacities.                                          *)
(***************************************************************************)
EXTENDS Hub, TLAPS

\* Appending the next number to a run of consecutive numbers gives a run.
LEMMA ConsecutiveAppend ==
  ASSUME NEW s \in Seq(Nat), NEW n \in Nat, Consecutive(s, n)
  PROVE  LET t == Append(s, n + Len(s) + 1)
         IN  t \in Seq(Nat) /\ Len(t) = Len(s) + 1 /\ Consecutive(t, n)
  BY DEF Consecutive

\* A run starts with the number after n, and its tail is the run after that.
LEMMA ConsecutiveTail ==
  ASSUME NEW s \in Seq(Nat), NEW n \in Nat, Consecutive(s, n), s # <<>>
  PROVE  /\ Head(s) = n + 1
         /\ Tail(s) \in Seq(Nat)
         /\ Len(Tail(s)) = Len(s) - 1
         /\ Consecutive(Tail(s), n + 1)
  BY DEF Consecutive

\* One more in the channel, one more sent.
LEMMA OneMore ==
  ASSUME NEW p \in Nat, NEW q \in Nat, NEW n \in Nat, p + q = n - 1
  PROVE  p + (q + 1) = n
  OBVIOUS

\* The initial states satisfy the inductive invariant.
LEMMA InitIInv == Init => IInv
<1> SUFFICES ASSUME Init PROVE IInv
  OBVIOUS
<1> USE HubAssumption DEF Init
<1>1. TypeOK
  <2>1. <<>> \in Seq(Nat) /\ Len(<<>>) = 0
    OBVIOUS
  <2>2. cancelled \in BOOLEAN /\ panicked \in BOOLEAN
    OBVIOUS
  <2>3. published \in 0 .. MaxMsg /\ current \in Nat
    OBVIOUS
  <2>4. send \in [Client -> Seq(Nat)] /\ wrote \in [Client -> Seq(Nat)]
    BY <2>1
  <2> QED
    BY <2>1, <2>2, <2>3, <2>4 DEF TypeOK
<1>2. NoChannelPanic /\ QueueInv /\ OwnerInv /\ NothingSkipped /\ ForgottenIsClosed
  BY DEF NoChannelPanic, QueueInv, OwnerInv, NothingSkipped, ForgottenIsClosed, Consecutive
<1>3. ASSUME NEW c \in Client PROVE StageInv(c) /\ StreamInv(c)
  BY <1>3 DEF StageInv, StreamInv, InHand, Past, Consecutive
<1> QED
  BY <1>1, <1>2, <1>3 DEF IInv

\* The invariant survives this step: the hub registers a client.
LEMMA HubRegisterInv ==
  ASSUME IInv, NEW c \in Client, HubRegister(c)
  PROVE  IInv'
<1> USE HubAssumption DEF HubRegister, hubVars, chanVars, pumpVars, pubVars, history
<1>1. TypeOK'
  BY DEF IInv, TypeOK
<1>2. NoChannelPanic'
  BY DEF IInv, NoChannelPanic, OwnerInv
<1>3. QueueInv'
  BY DEF IInv, QueueInv, TypeOK
<1>4. OwnerInv'
  BY DEF IInv, OwnerInv, StageInv, TypeOK
<1>5. NothingSkipped'
  <2>1. todo = {} /\ writer[c] = "none" /\ send[c] = <<>> /\ wrote[c] = <<>>
    BY DEF IInv, OwnerInv, StageInv
  <2> SUFFICES ASSUME NEW d \in clients', writer'[d] # "done"
               PROVE  Past(d)' + Len(send'[d]) = IF d \in todo' THEN current' - 1 ELSE current'
    BY DEF NothingSkipped
  <2>2. CASE d = c
    BY <2>1, <2>2 DEF IInv, TypeOK, Past, InHand
  <2>3. CASE d # c
    BY <2>3 DEF IInv, NothingSkipped, TypeOK, Past, InHand
  <2> QED
    BY <2>2, <2>3
<1>6. ForgottenIsClosed'
  BY DEF IInv, ForgottenIsClosed, StageInv, TypeOK
<1>7. ASSUME NEW d \in Client PROVE StageInv(d)'
  BY <1>7 DEF IInv, StageInv, OwnerInv, ForgottenIsClosed, TypeOK
<1>8. ASSUME NEW d \in Client PROVE StreamInv(d)'
  <2>1. writer[c] = "none" /\ send[c] = <<>> /\ wrote[c] = <<>>
    BY DEF IInv, StageInv
  <2>2. CASE d = c
    BY <2>1, <2>2 DEF IInv, TypeOK, StreamInv, Past, InHand, Consecutive
  <2>3. CASE d # c
    BY <2>3 DEF IInv, TypeOK, StreamInv, Past, InHand
  <2> QED
    BY <2>2, <2>3
<1> QED
  BY <1>1, <1>2, <1>3, <1>4, <1>5, <1>6, <1>7, <1>8 DEF IInv

\* The invariant survives this step: the hub unregisters a client: it closes the channel only if it still owned it.
LEMMA HubUnregisterInv ==
  ASSUME IInv, NEW c \in Client, HubUnregister(c)
  PROVE  IInv'
<1> USE HubAssumption DEF HubUnregister, hubVars, chanVars, pumpVars, pubVars, history, Registered
<1>1. TypeOK'
  BY DEF IInv, TypeOK
<1>2. NoChannelPanic'
  BY DEF IInv, NoChannelPanic, OwnerInv
<1>3. QueueInv'
  BY DEF IInv, QueueInv, TypeOK
<1>4. OwnerInv'
  BY DEF IInv, OwnerInv, StageInv, TypeOK
<1>5. NothingSkipped'
  BY DEF IInv, NothingSkipped, StageInv, OwnerInv, QueueInv, Past, InHand, TypeOK
<1>6. ForgottenIsClosed'
  BY DEF IInv, ForgottenIsClosed, StageInv, TypeOK
<1>7. ASSUME NEW d \in Client PROVE StageInv(d)'
  BY <1>7 DEF IInv, StageInv, OwnerInv, ForgottenIsClosed, TypeOK
<1>8. ASSUME NEW d \in Client PROVE StreamInv(d)'
  BY <1>8 DEF IInv, StreamInv, StageInv, OwnerInv, NothingSkipped, QueueInv, Past, InHand, TypeOK
<1> QED
  BY <1>1, <1>2, <1>3, <1>4, <1>5, <1>6, <1>7, <1>8 DEF IInv

\* The invariant survives this step: the hub takes a message and starts the fan-out.
LEMMA HubTakeInv ==
  ASSUME IInv, HubTake
  PROVE  IInv'
<1> USE HubAssumption DEF HubTake, hubVars, chanVars, pumpVars, pubVars, history
<1>1. TypeOK'
  BY DEF IInv, TypeOK
<1>2. NoChannelPanic'
  BY DEF IInv, NoChannelPanic, OwnerInv
<1>3. QueueInv'
  BY ConsecutiveTail DEF IInv, QueueInv, TypeOK
<1>4. OwnerInv'
  BY DEF IInv, OwnerInv, StageInv, TypeOK
<1>5. NothingSkipped'
  BY ConsecutiveTail DEF IInv, NothingSkipped, QueueInv, OwnerInv, Past, InHand, TypeOK
<1>6. ForgottenIsClosed'
  BY DEF IInv, ForgottenIsClosed, StageInv, TypeOK
<1>7. ASSUME NEW d \in Client PROVE StageInv(d)'
  BY <1>7 DEF IInv, StageInv, OwnerInv, ForgottenIsClosed, TypeOK
<1>8. ASSUME NEW d \in Client PROVE StreamInv(d)'
  <2>1. current' = current + 1
    BY ConsecutiveTail DEF IInv, QueueInv, TypeOK
  <2>2. Past(d)' = Past(d) /\ Past(d) \in Nat
    BY DEF IInv, TypeOK, Past, InHand
  <2> QED
    BY <2>1, <2>2 DEF IInv, TypeOK, StreamInv
<1> QED
  BY <1>1, <1>2, <1>3, <1>4, <1>5, <1>6, <1>7, <1>8 DEF IInv

\* The invariant survives this step: the fan-out puts the message into a buffer with room.
LEMMA HubOfferInv ==
  ASSUME IInv, NEW c \in Client, HubOffer(c)
  PROVE  IInv'
<1> USE HubAssumption DEF HubOffer, hubVars, chanVars, pumpVars, pubVars, history
<1>1. TypeOK'
  BY DEF IInv, TypeOK
<1>2. NoChannelPanic'
  BY DEF IInv, NoChannelPanic, OwnerInv
<1>3. QueueInv'
  BY DEF IInv, QueueInv, TypeOK
<1>4. OwnerInv'
  BY DEF IInv, OwnerInv, StageInv, TypeOK
<1>5. NothingSkipped'
  <2> SUFFICES ASSUME NEW d \in clients', writer'[d] # "done"
               PROVE  Past(d)' + Len(send'[d]) = IF d \in todo' THEN current' - 1 ELSE current'
    BY DEF NothingSkipped
  <2>1. d \in Client /\ Past(d)' = Past(d) /\ Past(d) \in Nat
    BY DEF IInv, TypeOK, Past, InHand
  <2>2. Past(d) + Len(send[d]) = IF d \in todo THEN current - 1 ELSE current
    BY DEF IInv, NothingSkipped
  <2>3. CASE d = c
    <3>1. send[c] \in Seq(Nat) /\ send'[c] = Append(send[c], current)
      BY DEF IInv, TypeOK
    <3>2. Len(send'[c]) = Len(send[c]) + 1 /\ Len(send[c]) \in Nat
      BY <3>1 DEF IInv, TypeOK
    <3>3. c \in todo /\ c \notin todo' /\ current' = current /\ current \in Nat
      BY DEF IInv, TypeOK
    <3>4. Past(c) + Len(send[c]) = current - 1
      BY <2>2, <2>3, <3>3
    <3>5. Past(c)' = Past(c) /\ Past(c) \in Nat
      BY DEF IInv, TypeOK, Past, InHand
    <3>6. Past(c) + (Len(send[c]) + 1) = current
      BY <3>2, <3>3, <3>4, <3>5, OneMore
    <3>7. Past(c)' + Len(send'[c]) = current'
      BY <3>2, <3>3, <3>5, <3>6
    <3> QED
      BY <2>3, <3>3, <3>7
  <2>4. CASE d # c
    BY <2>1, <2>2, <2>4 DEF IInv, TypeOK
  <2> QED
    BY <2>3, <2>4
<1>6. ForgottenIsClosed'
  BY DEF IInv, ForgottenIsClosed, StageInv, TypeOK
<1>7. ASSUME NEW d \in Client PROVE StageInv(d)'
  BY <1>7 DEF IInv, StageInv, OwnerInv, ForgottenIsClosed, TypeOK
<1>8. ASSUME NEW d \in Client PROVE StreamInv(d)'
  <2>1. Past(d)' = Past(d) /\ Past(d) \in Nat
    BY DEF IInv, TypeOK, Past, InHand
  <2>2. CASE d = c
    <3>1. writer[c] # "done" => current = Past(c) + Len(send[c]) + 1
      BY <2>1, <2>2 DEF IInv, TypeOK, OwnerInv, NothingSkipped
    <3>2. send[c] \in Seq(Nat) /\ send'[c] = Append(send[c], current)
      BY DEF IInv, TypeOK
    <3>3. writer[c] # "done" => Len(send'[c]) = Len(send[c]) + 1 /\ Consecutive(send'[c], Past(c))
      BY <2>1, <2>2, <3>1, <3>2, ConsecutiveAppend DEF IInv, StreamInv
    <3> QED
      BY <2>1, <2>2, <3>1, <3>2, <3>3 DEF IInv, TypeOK, StreamInv
  <2>3. CASE d # c
    BY <2>1, <2>3 DEF IInv, TypeOK, StreamInv
  <2> QED
    BY <2>2, <2>3
<1> QED
  BY <1>1, <1>2, <1>3, <1>4, <1>5, <1>6, <1>7, <1>8 DEF IInv

\* The invariant survives this step: the fan-out evicts a client whose buffer is full.
LEMMA HubEvictInv ==
  ASSUME IInv, NEW c \in Client, HubEvict(c)
  PROVE  IInv'
<1> USE HubAssumption DEF HubEvict, hubVars, chanVars, pumpVars, pubVars, history
<1>1. TypeOK'
  BY DEF IInv, TypeOK
<1>2. NoChannelPanic'
  BY DEF IInv, NoChannelPanic, OwnerInv
<1>3. QueueInv'
  BY DEF IInv, QueueInv, TypeOK
<1>4. OwnerInv'
  BY DEF IInv, OwnerInv, StageInv, TypeOK
<1>5. NothingSkipped'
  BY DEF IInv, NothingSkipped, StageInv, OwnerInv, QueueInv, Past, InHand, TypeOK
<1>6. ForgottenIsClosed'
  BY DEF IInv, ForgottenIsClosed, StageInv, TypeOK
<1>7. ASSUME NEW d \in Client PROVE StageInv(d)'
  BY <1>7 DEF IInv, StageInv, OwnerInv, ForgottenIsClosed, TypeOK
<1>8. ASSUME NEW d \in Client PROVE StreamInv(d)'
  BY <1>8 DEF IInv, StreamInv, StageInv, OwnerInv, NothingSkipped, QueueInv, Past, InHand, TypeOK
<1> QED
  BY <1>1, <1>2, <1>3, <1>4, <1>5, <1>6, <1>7, <1>8 DEF IInv

\* The invariant survives this step: the fan-out is over.
LEMMA HubFanoutDoneInv ==
  ASSUME IInv, HubFanoutDone
  PROVE  IInv'
<1> USE HubAssumption DEF HubFanoutDone, hubVars, chanVars, pumpVars, pubVars, history
<1>1. TypeOK'
  BY DEF IInv, TypeOK
<1>2. NoChannelPanic'
  BY DEF IInv, NoChannelPanic, OwnerInv
<1>3. QueueInv'
  BY DEF IInv, QueueInv, TypeOK
<1>4. OwnerInv'
  BY DEF IInv, OwnerInv, StageInv, TypeOK
<1>5. NothingSkipped'
  BY DEF IInv, NothingSkipped, StageInv, OwnerInv, QueueInv, Past, InHand, TypeOK
<1>6. ForgottenIsClosed'
  BY DEF IInv, ForgottenIsClosed, StageInv, TypeOK
<1>7. ASSUME NEW d \in Client PROVE StageInv(d)'
  BY <1>7 DEF IInv, StageInv, OwnerInv, ForgottenIsClosed, TypeOK
<1>8. ASSUME NEW d \in Client PROVE StreamInv(d)'
  BY <1>8 DEF IInv, StreamInv, StageInv, OwnerInv, NothingSkipped, QueueInv, Past, InHand, TypeOK
<1> QED
  BY <1>1, <1>2, <1>3, <1>4, <1>5, <1>6, <1>7, <1>8 DEF IInv

\* The invariant survives this step: the hub closes every channel and stops.
LEMMA HubStopInv ==
  ASSUME IInv, HubStop
  PROVE  IInv'
<1> USE HubAssumption DEF HubStop, hubVars, chanVars, pumpVars, pubVars, history
<1>1. TypeOK'
  BY DEF IInv, TypeOK
<1>2. NoChannelPanic'
  BY DEF IInv, NoChannelPanic, OwnerInv
<1>3. QueueInv'
  BY DEF IInv, QueueInv, TypeOK
<1>4. OwnerInv'
  BY DEF IInv, OwnerInv, StageInv, TypeOK
<1>5. NothingSkipped'
  BY DEF IInv, NothingSkipped, StageInv, OwnerInv, QueueInv, Past, InHand, TypeOK
<1>6. ForgottenIsClosed'
  BY DEF IInv, ForgottenIsClosed, StageInv, TypeOK
<1>7. ASSUME NEW d \in Client PROVE StageInv(d)'
  BY <1>7 DEF IInv, StageInv, OwnerInv, ForgottenIsClosed, TypeOK
<1>8. ASSUME NEW d \in Client PROVE StreamInv(d)'
  BY <1>8 DEF IInv, StreamInv, StageInv, OwnerInv, NothingSkipped, QueueInv, Past, InHand, TypeOK
<1> QED
  BY <1>1, <1>2, <1>3, <1>4, <1>5, <1>6, <1>7, <1>8 DEF IInv

\* The invariant survives this step: a connection is upgraded.
LEMMA ConnectInv ==
  ASSUME IInv, NEW c \in Client, Connect(c)
  PROVE  IInv'
<1> USE HubAssumption DEF Connect, hubVars, chanVars, pumpVars, pubVars, history
<1>1. TypeOK'
  BY DEF IInv, TypeOK
<1>2. NoChannelPanic'
  BY DEF IInv, NoChannelPanic, OwnerInv
<1>3. QueueInv'
  BY DEF IInv, QueueInv, TypeOK
<1>4. OwnerInv'
  BY DEF IInv, OwnerInv, StageInv, TypeOK
<1>5. NothingSkipped'
  BY DEF IInv, NothingSkipped, StageInv, OwnerInv, QueueInv, Past, InHand, TypeOK
<1>6. ForgottenIsClosed'
  BY DEF IInv, ForgottenIsClosed, StageInv, TypeOK
<1>7. ASSUME NEW d \in Client PROVE StageInv(d)'
  BY <1>7 DEF IInv, StageInv, OwnerInv, ForgottenIsClosed, TypeOK
<1>8. ASSUME NEW d \in Client PROVE StreamInv(d)'
  BY <1>8 DEF IInv, StreamInv, StageInv, OwnerInv, NothingSkipped, QueueInv, Past, InHand, TypeOK
<1> QED
  BY <1>1, <1>2, <1>3, <1>4, <1>5, <1>6, <1>7, <1>8 DEF IInv

\* The invariant survives this step: the handler starts the two goroutines of a client.
LEMMA StartPumpsInv ==
  ASSUME IInv, NEW c \in Client, StartPumps(c)
  PROVE  IInv'
<1> USE HubAssumption DEF StartPumps, hubVars, chanVars, pumpVars, pubVars, history
<1>1. TypeOK'
  BY DEF IInv, TypeOK
<1>2. NoChannelPanic'
  BY DEF IInv, NoChannelPanic, OwnerInv
<1>3. QueueInv'
  BY DEF IInv, QueueInv, TypeOK
<1>4. OwnerInv'
  BY DEF IInv, OwnerInv, StageInv, TypeOK
<1>5. NothingSkipped'
  BY DEF IInv, NothingSkipped, StageInv, OwnerInv, QueueInv, Past, InHand, TypeOK
<1>6. ForgottenIsClosed'
  BY DEF IInv, ForgottenIsClosed, StageInv, TypeOK
<1>7. ASSUME NEW d \in Client PROVE StageInv(d)'
  BY <1>7 DEF IInv, StageInv, OwnerInv, ForgottenIsClosed, TypeOK
<1>8. ASSUME NEW d \in Client PROVE StreamInv(d)'
  BY <1>8 DEF IInv, StreamInv, StageInv, OwnerInv, NothingSkipped, QueueInv, Past, InHand, TypeOK
<1> QED
  BY <1>1, <1>2, <1>3, <1>4, <1>5, <1>6, <1>7, <1>8 DEF IInv

\* The invariant survives this step: a peer goes away.
LEMMA PeerGoneInv ==
  ASSUME IInv, NEW c \in Client, PeerGone(c)
  PROVE  IInv'
<1> USE HubAssumption DEF PeerGone, hubVars, chanVars, pumpVars, pubVars, history
<1>1. TypeOK'
  BY DEF IInv, TypeOK
<1>2. NoChannelPanic'
  BY DEF IInv, NoChannelPanic, OwnerInv
<1>3. QueueInv'
  BY DEF IInv, QueueInv, TypeOK
<1>4. OwnerInv'
  BY DEF IInv, OwnerInv, StageInv, TypeOK
<1>5. NothingSkipped'
  BY DEF IInv, NothingSkipped, StageInv, OwnerInv, QueueInv, Past, InHand, TypeOK
<1>6. ForgottenIsClosed'
  BY DEF IInv, ForgottenIsClosed, StageInv, TypeOK
<1>7. ASSUME NEW d \in Client PROVE StageInv(d)'
  BY <1>7 DEF IInv, StageInv, OwnerInv, ForgottenIsClosed, TypeOK
<1>8. ASSUME NEW d \in Client PROVE StreamInv(d)'
  BY <1>8 DEF IInv, StreamInv, StageInv, OwnerInv, NothingSkipped, QueueInv, Past, InHand, TypeOK
<1> QED
  BY <1>1, <1>2, <1>3, <1>4, <1>5, <1>6, <1>7, <1>8 DEF IInv

\* The invariant survives this step: writePump takes a message out of the buffer.
LEMMA WriterTakeInv ==
  ASSUME IInv, NEW c \in Client, WriterTake(c)
  PROVE  IInv'
<1> USE HubAssumption DEF WriterTake, hubVars, chanVars, pumpVars, pubVars, history
<1>1. TypeOK'
  BY DEF IInv, TypeOK
<1>2. NoChannelPanic'
  BY DEF IInv, NoChannelPanic, OwnerInv
<1>3. QueueInv'
  BY DEF IInv, QueueInv, TypeOK
<1>4. OwnerInv'
  BY DEF IInv, OwnerInv, StageInv, TypeOK
<1>5. NothingSkipped'
  <2> SUFFICES ASSUME NEW d \in clients', writer'[d] # "done"
               PROVE  Past(d)' + Len(send'[d]) = IF d \in todo' THEN current' - 1 ELSE current'
    BY DEF NothingSkipped
  <2>1. d \in Client /\ writer[d] # "done"
    BY DEF IInv, TypeOK
  <2>2. Past(d) + Len(send[d]) = IF d \in todo THEN current - 1 ELSE current
    BY <2>1 DEF IInv, NothingSkipped
  <2>3. Past(d)' + Len(send'[d]) = Past(d) + Len(send[d])
    <3>1. CASE d = c
      <4>1. Past(c) \in Nat /\ Past(c)' = Past(c) + 1
        BY DEF IInv, TypeOK, Past, InHand
      <4>2. send[c] \in Seq(Nat) /\ Len(send'[c]) = Len(send[c]) - 1
        BY DEF IInv, TypeOK
      <4> QED
        BY <3>1, <4>1, <4>2
    <3>2. CASE d # c
      BY <2>1, <3>2 DEF IInv, TypeOK, Past, InHand
    <3> QED
      BY <3>1, <3>2
  <2> QED
    BY <2>2, <2>3
<1>6. ForgottenIsClosed'
  BY DEF IInv, ForgottenIsClosed, StageInv, TypeOK
<1>7. ASSUME NEW d \in Client PROVE StageInv(d)'
  BY <1>7 DEF IInv, StageInv, OwnerInv, ForgottenIsClosed, TypeOK
<1>8. ASSUME NEW d \in Client PROVE StreamInv(d)'
  <2>1. CASE d = c
    <3>1. /\ Past(c) \in Nat /\ Past(c) = from[c] + Len(wrote[c])
          /\ Past(c)' = Past(c) + 1
          /\ send[c] \in Seq(Nat)
      BY DEF IInv, TypeOK, Past, InHand
    <3>2. Consecutive(send[c], Past(c)) /\ Past(c) + Len(send[c]) <= current
      BY DEF IInv, StreamInv
    <3>3. /\ held'[c] = Past(c) + 1
          /\ Len(send'[c]) = Len(send[c]) - 1
          /\ Consecutive(send'[c], Past(c) + 1)
      BY <3>1, <3>2, ConsecutiveTail DEF IInv, TypeOK
    <3>4. Past(c)' + Len(send'[c]) <= current'
      BY <3>1, <3>2, <3>3 DEF IInv, TypeOK
    <3> QED
      BY <2>1, <3>1, <3>3, <3>4 DEF IInv, StreamInv
  <2>2. CASE d # c
    BY <2>2 DEF IInv, TypeOK, StreamInv, Past, InHand
  <2> QED
    BY <2>1, <2>2
<1> QED
  BY <1>1, <1>2, <1>3, <1>4, <1>5, <1>6, <1>7, <1>8 DEF IInv

\* The invariant survives this step: writePump has written the message.
LEMMA WriterOkInv ==
  ASSUME IInv, NEW c \in Client, WriterOk(c)
  PROVE  IInv'
<1> USE HubAssumption DEF WriterOk, hubVars, chanVars, pumpVars, pubVars, history
<1>1. TypeOK'
  BY DEF IInv, TypeOK
<1>2. NoChannelPanic'
  BY DEF IInv, NoChannelPanic, OwnerInv
<1>3. QueueInv'
  BY DEF IInv, QueueInv, TypeOK
<1>4. OwnerInv'
  BY DEF IInv, OwnerInv, StageInv, TypeOK
<1>5. NothingSkipped'
  BY DEF IInv, NothingSkipped, StageInv, OwnerInv, QueueInv, Past, InHand, TypeOK
<1>6. ForgottenIsClosed'
  BY DEF IInv, ForgottenIsClosed, StageInv, TypeOK
<1>7. ASSUME NEW d \in Client PROVE StageInv(d)'
  BY <1>7 DEF IInv, StageInv, OwnerInv, ForgottenIsClosed, TypeOK
<1>8. ASSUME NEW d \in Client PROVE StreamInv(d)'
  <2>1. CASE d = c
    <3>1. from[c] \in Nat /\ wrote[c] \in Seq(Nat) /\ held[c] = from[c] + Len(wrote[c]) + 1
      BY DEF IInv, TypeOK, StreamInv
    <3>2. Consecutive(wrote[c], from[c])
      BY DEF IInv, StreamInv
    <3>3. Len(wrote'[c]) = Len(wrote[c]) + 1 /\ Consecutive(wrote'[c], from[c])
      BY <3>1, <3>2, ConsecutiveAppend DEF IInv, TypeOK
    <3>4. Past(c)' = Past(c) /\ writer'[c] = "waiting"
      BY <3>1, <3>3 DEF IInv, TypeOK, Past, InHand
    <3> QED
      BY <2>1, <3>3, <3>4 DEF IInv, StreamInv
  <2>2. CASE d # c
    BY <2>2 DEF IInv, TypeOK, StreamInv, Past, InHand
  <2> QED
    BY <2>1, <2>2
<1> QED
  BY <1>1, <1>2, <1>3, <1>4, <1>5, <1>6, <1>7, <1>8 DEF IInv

\* The invariant survives this step: writePump fails to write and ends.
LEMMA WriterErrInv ==
  ASSUME IInv, NEW c \in Client, WriterErr(c)
  PROVE  IInv'
<1> USE HubAssumption DEF WriterErr, hubVars, chanVars, pumpVars, pubVars, history
<1>1. TypeOK'
  BY DEF IInv, TypeOK
<1>2. NoChannelPanic'
  BY DEF IInv, NoChannelPanic, OwnerInv
<1>3. QueueInv'
  BY DEF IInv, QueueInv, TypeOK
<1>4. OwnerInv'
  BY DEF IInv, OwnerInv, StageInv, TypeOK
<1>5. NothingSkipped'
  BY DEF IInv, NothingSkipped, StageInv, OwnerInv, QueueInv, Past, InHand, TypeOK
<1>6. ForgottenIsClosed'
  BY DEF IInv, ForgottenIsClosed, StageInv, TypeOK
<1>7. ASSUME NEW d \in Client PROVE StageInv(d)'
  BY <1>7 DEF IInv, StageInv, OwnerInv, ForgottenIsClosed, TypeOK
<1>8. ASSUME NEW d \in Client PROVE StreamInv(d)'
  BY <1>8 DEF IInv, StreamInv, StageInv, OwnerInv, NothingSkipped, QueueInv, Past, InHand, TypeOK
<1> QED
  BY <1>1, <1>2, <1>3, <1>4, <1>5, <1>6, <1>7, <1>8 DEF IInv

\* The invariant survives this step: writePump has drained a closed channel and ends.
LEMMA WriterEndInv ==
  ASSUME IInv, NEW c \in Client, WriterEnd(c)
  PROVE  IInv'
<1> USE HubAssumption DEF WriterEnd, hubVars, chanVars, pumpVars, pubVars, history
<1>1. TypeOK'
  BY DEF IInv, TypeOK
<1>2. NoChannelPanic'
  BY DEF IInv, NoChannelPanic, OwnerInv
<1>3. QueueInv'
  BY DEF IInv, QueueInv, TypeOK
<1>4. OwnerInv'
  BY DEF IInv, OwnerInv, StageInv, TypeOK
<1>5. NothingSkipped'
  BY DEF IInv, NothingSkipped, StageInv, OwnerInv, QueueInv, Past, InHand, TypeOK
<1>6. ForgottenIsClosed'
  BY DEF IInv, ForgottenIsClosed, StageInv, TypeOK
<1>7. ASSUME NEW d \in Client PROVE StageInv(d)'
  BY <1>7 DEF IInv, StageInv, OwnerInv, ForgottenIsClosed, TypeOK
<1>8. ASSUME NEW d \in Client PROVE StreamInv(d)'
  BY <1>8 DEF IInv, StreamInv, StageInv, OwnerInv, NothingSkipped, QueueInv, Past, InHand, TypeOK
<1> QED
  BY <1>1, <1>2, <1>3, <1>4, <1>5, <1>6, <1>7, <1>8 DEF IInv

\* The invariant survives this step: readPump's read fails.
LEMMA ReaderErrInv ==
  ASSUME IInv, NEW c \in Client, ReaderErr(c)
  PROVE  IInv'
<1> USE HubAssumption DEF ReaderErr, hubVars, chanVars, pumpVars, pubVars, history
<1>1. TypeOK'
  BY DEF IInv, TypeOK
<1>2. NoChannelPanic'
  BY DEF IInv, NoChannelPanic, OwnerInv
<1>3. QueueInv'
  BY DEF IInv, QueueInv, TypeOK
<1>4. OwnerInv'
  BY DEF IInv, OwnerInv, StageInv, TypeOK
<1>5. NothingSkipped'
  BY DEF IInv, NothingSkipped, StageInv, OwnerInv, QueueInv, Past, InHand, TypeOK
<1>6. ForgottenIsClosed'
  BY DEF IInv, ForgottenIsClosed, StageInv, TypeOK
<1>7. ASSUME NEW d \in Client PROVE StageInv(d)'
  BY <1>7 DEF IInv, StageInv, OwnerInv, ForgottenIsClosed, TypeOK
<1>8. ASSUME NEW d \in Client PROVE StreamInv(d)'
  BY <1>8 DEF IInv, StreamInv, StageInv, OwnerInv, NothingSkipped, QueueInv, Past, InHand, TypeOK
<1> QED
  BY <1>1, <1>2, <1>3, <1>4, <1>5, <1>6, <1>7, <1>8 DEF IInv

\* The invariant survives this step: readPump closes the connection and ends.
LEMMA ReaderCloseInv ==
  ASSUME IInv, NEW c \in Client, ReaderClose(c)
  PROVE  IInv'
<1> USE HubAssumption DEF ReaderClose, hubVars, chanVars, pumpVars, pubVars, history
<1>1. TypeOK'
  BY DEF IInv, TypeOK
<1>2. NoChannelPanic'
  BY DEF IInv, NoChannelPanic, OwnerInv
<1>3. QueueInv'
  BY DEF IInv, QueueInv, TypeOK
<1>4. OwnerInv'
  BY DEF IInv, OwnerInv, StageInv, TypeOK
<1>5. NothingSkipped'
  BY DEF IInv, NothingSkipped, StageInv, OwnerInv, QueueInv, Past, InHand, TypeOK
<1>6. ForgottenIsClosed'
  BY DEF IInv, ForgottenIsClosed, StageInv, TypeOK
<1>7. ASSUME NEW d \in Client PROVE StageInv(d)'
  BY <1>7 DEF IInv, StageInv, OwnerInv, ForgottenIsClosed, TypeOK
<1>8. ASSUME NEW d \in Client PROVE StreamInv(d)'
  BY <1>8 DEF IInv, StreamInv, StageInv, OwnerInv, NothingSkipped, QueueInv, Past, InHand, TypeOK
<1> QED
  BY <1>1, <1>2, <1>3, <1>4, <1>5, <1>6, <1>7, <1>8 DEF IInv

\* The invariant survives this step: a publisher moves on without publishing.
LEMMA PubStepInv ==
  ASSUME IInv, NEW p \in Publisher,
         NEW before, NEW after \in {"idle", "fetching", "sending", "done"},
         PubStep(p, before, after)
  PROVE  IInv'
<1> USE HubAssumption DEF PubStep, hubVars, chanVars, pumpVars, pubVars, history, Publisher
<1>1. TypeOK'
  BY DEF IInv, TypeOK
<1>2. NoChannelPanic'
  BY DEF IInv, NoChannelPanic, OwnerInv
<1>3. QueueInv'
  BY DEF IInv, QueueInv, TypeOK
<1>4. OwnerInv'
  BY DEF IInv, OwnerInv, StageInv, TypeOK
<1>5. NothingSkipped'
  BY DEF IInv, NothingSkipped, StageInv, OwnerInv, QueueInv, Past, InHand, TypeOK
<1>6. ForgottenIsClosed'
  BY DEF IInv, ForgottenIsClosed, StageInv, TypeOK
<1>7. ASSUME NEW d \in Client PROVE StageInv(d)'
  BY <1>7 DEF IInv, StageInv, OwnerInv, ForgottenIsClosed, TypeOK
<1>8. ASSUME NEW d \in Client PROVE StreamInv(d)'
  BY <1>8 DEF IInv, StreamInv, StageInv, OwnerInv, NothingSkipped, QueueInv, Past, InHand, TypeOK
<1> QED
  BY <1>1, <1>2, <1>3, <1>4, <1>5, <1>6, <1>7, <1>8 DEF IInv

\* The invariant survives this step: a publisher's message enters the broadcast channel.
LEMMA EnqueueInv ==
  ASSUME IInv, NEW p \in Publisher, Enqueue(p)
  PROVE  IInv'
<1> USE HubAssumption DEF Enqueue, hubVars, chanVars, pumpVars, pubVars, history, Publisher
<1>1. TypeOK'
  BY DEF IInv, TypeOK
<1>2. NoChannelPanic'
  BY DEF IInv, NoChannelPanic, OwnerInv
<1>3. QueueInv'
  <2>1. published' = current + Len(broadcast) + 1
    BY DEF IInv, QueueInv, TypeOK
  <2>2. broadcast' = Append(broadcast, current + Len(broadcast) + 1)
    BY <2>1
  <2> QED
    BY <2>1, <2>2, ConsecutiveAppend DEF IInv, QueueInv, TypeOK
<1>4. OwnerInv'
  BY DEF IInv, OwnerInv, StageInv, TypeOK
<1>5. NothingSkipped'
  BY DEF IInv, NothingSkipped, StageInv, OwnerInv, QueueInv, Past, InHand, TypeOK
<1>6. ForgottenIsClosed'
  BY DEF IInv, ForgottenIsClosed, StageInv, TypeOK
<1>7. ASSUME NEW d \in Client PROVE StageInv(d)'
  BY <1>7 DEF IInv, StageInv, OwnerInv, ForgottenIsClosed, TypeOK
<1>8. ASSUME NEW d \in Client PROVE StreamInv(d)'
  BY <1>8 DEF IInv, StreamInv, StageInv, OwnerInv, NothingSkipped, QueueInv, Past, InHand, TypeOK
<1> QED
  BY <1>1, <1>2, <1>3, <1>4, <1>5, <1>6, <1>7, <1>8 DEF IInv

\* The invariant survives this step: the context is cancelled.
LEMMA CancelInv ==
  ASSUME IInv, Cancel
  PROVE  IInv'
<1> USE HubAssumption DEF Cancel, hubVars, chanVars, pumpVars, pubVars, history
<1>1. TypeOK'
  BY DEF IInv, TypeOK
<1>2. NoChannelPanic'
  BY DEF IInv, NoChannelPanic, OwnerInv
<1>3. QueueInv'
  BY DEF IInv, QueueInv, TypeOK
<1>4. OwnerInv'
  BY DEF IInv, OwnerInv, StageInv, TypeOK
<1>5. NothingSkipped'
  BY DEF IInv, NothingSkipped, StageInv, OwnerInv, QueueInv, Past, InHand, TypeOK
<1>6. ForgottenIsClosed'
  BY DEF IInv, ForgottenIsClosed, StageInv, TypeOK
<1>7. ASSUME NEW d \in Client PROVE StageInv(d)'
  BY <1>7 DEF IInv, StageInv, OwnerInv, ForgottenIsClosed, TypeOK
<1>8. ASSUME NEW d \in Client PROVE StreamInv(d)'
  BY <1>8 DEF IInv, StreamInv, StageInv, OwnerInv, NothingSkipped, QueueInv, Past, InHand, TypeOK
<1> QED
  BY <1>1, <1>2, <1>3, <1>4, <1>5, <1>6, <1>7, <1>8 DEF IInv

\* Every step preserves the inductive invariant.
LEMMA NextIInv == IInv /\ [Next]_vars => IInv'
<1> SUFFICES ASSUME IInv, [Next]_vars PROVE IInv'
  OBVIOUS
<1>1. CASE UNCHANGED vars
  BY <1>1 DEF vars, hubVars, chanVars, pumpVars, pubVars, history, IInv, TypeOK,
     NoChannelPanic, QueueInv, OwnerInv, NothingSkipped, ForgottenIsClosed, StageInv,
     StreamInv, Past, InHand
<1>2. CASE HubStep
  BY <1>2, HubRegisterInv, HubUnregisterInv, HubTakeInv, HubOfferInv, HubEvictInv,
     HubFanoutDoneInv, HubStopInv DEF HubStep
<1>3. ASSUME NEW c \in Client, ClientStep(c) PROVE IInv'
  BY <1>3, ConnectInv, StartPumpsInv, PeerGoneInv, WriterTakeInv, WriterOkInv,
     WriterErrInv, WriterEndInv, ReaderErrInv, ReaderCloseInv DEF ClientStep
<1>4. ASSUME NEW p \in Publisher, PubStepOf(p) PROVE IInv'
  BY <1>4, PubStepInv, EnqueueInv DEF PubStepOf, Tick, Fetched, Call, TickerExit
<1>5. CASE Cancel
  BY <1>5, CancelInv
<1> QED
  BY <1>1, <1>2, <1>3, <1>4, <1>5 DEF Next

\* The inductive invariant holds in every reachable state.
THEOREM Invariance == Spec => []IInv
  BY InitIInv, NextIInv, PTL DEF Spec

\* Every variable keeps its type, the bounds of the two channels included.
THEOREM TypeCorrect == Spec => []TypeOK
<1>1. IInv => TypeOK
  BY DEF IInv
<1> QED
  BY <1>1, Invariance, PTL

\* No goroutine ever sends on or closes a closed channel.
THEOREM ChannelSafety == Spec => []NoChannelPanic
<1>1. IInv => NoChannelPanic
  BY DEF IInv
<1> QED
  BY <1>1, Invariance, PTL

\* A registered client is never skipped, however slow it is.
THEOREM SlowClientSafety == Spec => []NothingSkipped
<1>1. IInv => NothingSkipped
  BY DEF IInv
<1> QED
  BY <1>1, Invariance, PTL

\* Every connection carries consecutive messages from its registration on.
THEOREM DeliveryOrder == Spec => []InOrderNoGaps
<1>1. IInv => InOrderNoGaps
  BY DEF IInv, InOrderNoGaps, StreamInv
<1> QED
  BY <1>1, Invariance, PTL

\* The hub never forgets a client whose channel is open.
THEOREM NoOrphanWriter == Spec => []ForgottenIsClosed
<1>1. IInv => ForgottenIsClosed
  BY DEF IInv
<1> QED
  BY <1>1, Invariance, PTL

-----------------------------------------------------------------------------
(* The hub implements the feed. *)

\* A step that changes neither the feed's variables nor a client's stage is a stutter.
LEMMA FeedStutter ==
  ASSUME UNCHANGED <<published, wrote, from>>,
         \A c \in Client : FeedPlace(c)' = FeedPlace(c)
  PROVE  UNCHANGED AsFeed!feedVars
  BY DEF AsFeed!feedVars

\* One client changes place; the others keep theirs.
LEMMA FeedMove ==
  ASSUME NEW c \in Client, NEW pl,
         FeedPlace(c)' = pl,
         \A d \in Client \ {c} : FeedPlace(d)' = FeedPlace(d)
  PROVE  [d \in Client |-> FeedPlace(d)'] = [[d \in Client |-> FeedPlace(d)] EXCEPT ![c] = pl]
  OBVIOUS

\* The initial states of the hub are initial states of the feed.
LEMMA FeedInit == Init => AsFeed!Init
  BY DEF Init, AsFeed!Init, FeedPlace

\* The registration of a client is its entering the feed.
LEMMA RegisterEnters ==
  ASSUME IInv, NEW c \in Client, HubRegister(c)
  PROVE  AsFeed!Enter(c)
<1> USE DEF HubRegister, pubVars
<1>1. current \in 0 .. published
  BY DEF IInv, QueueInv, TypeOK
<1>2. FeedPlace(c) = "outside" /\ FeedPlace(c)' = "inside"
  BY DEF IInv, TypeOK, StageInv, FeedPlace
<1>3. \A d \in Client \ {c} : FeedPlace(d)' = FeedPlace(d)
  BY DEF IInv, TypeOK, FeedPlace
<1> QED
  BY <1>1, <1>2, <1>3, FeedMove DEF AsFeed!Enter

\* A successful write shows the client the next message of the feed.
LEMMA WriteShows ==
  ASSUME IInv, NEW c \in Client, WriterOk(c)
  PROVE  AsFeed!Show(c)
<1> USE DEF WriterOk, hubVars, pubVars
<1>1. held[c] = from[c] + Len(wrote[c]) + 1 /\ held[c] <= published
  <2>1. held[c] = from[c] + Len(wrote[c]) + 1 /\ Past(c) + Len(send[c]) <= current
    BY DEF IInv, StreamInv
  <2>2. Past(c) = from[c] + Len(wrote[c]) + 1
    BY DEF IInv, TypeOK, Past, InHand
  <2>3. current <= published
    BY DEF IInv, QueueInv, TypeOK
  <2>4. Len(send[c]) \in Nat /\ Len(wrote[c]) \in Nat /\ from[c] \in Nat
    BY DEF IInv, TypeOK
  <2> QED
    BY <2>1, <2>2, <2>3, <2>4 DEF IInv, TypeOK
<1>2. FeedPlace(c) = "inside"
  BY DEF IInv, TypeOK, StageInv, FeedPlace
<1>3. \A d \in Client : FeedPlace(d)' = FeedPlace(d)
  BY DEF IInv, TypeOK, StageInv, FeedPlace
<1> QED
  BY <1>1, <1>2, <1>3 DEF AsFeed!Show, AsFeed!Upcoming

\* The end of a writePump is its client's leaving the feed.
LEMMA WriterLeaves ==
  ASSUME IInv, NEW c \in Client, WriterErr(c) \/ WriterEnd(c)
  PROVE  AsFeed!Leave(c)
<1> USE DEF WriterErr, WriterEnd, hubVars, pubVars, history
<1>1. FeedPlace(c) = "inside" /\ FeedPlace(c)' = "left"
  BY DEF IInv, TypeOK, StageInv, FeedPlace
<1>2. \A d \in Client \ {c} : FeedPlace(d)' = FeedPlace(d)
  BY DEF IInv, TypeOK, FeedPlace
<1> QED
  BY <1>1, <1>2, FeedMove DEF AsFeed!Leave

\* Every step of the hub is a step of the feed or changes nothing of it.
LEMMA FeedStep == IInv /\ [Next]_vars => [AsFeed!Next]_(AsFeed!feedVars)
<1> SUFFICES ASSUME IInv, [Next]_vars PROVE [AsFeed!Next]_(AsFeed!feedVars)
  OBVIOUS
<1> USE DEF hubVars, chanVars, pumpVars, pubVars, history
<1>1. CASE UNCHANGED vars
  BY <1>1, FeedStutter DEF vars, FeedPlace
<1>2. CASE HubStep
  <2>1. ASSUME NEW c \in Client, HubRegister(c) PROVE AsFeed!Next
    BY <2>1, RegisterEnters DEF AsFeed!Next
  <2>2. ASSUME UNCHANGED <<published, wrote, from, handler, writer>>
        PROVE  UNCHANGED AsFeed!feedVars
    BY <2>2, FeedStutter DEF FeedPlace
  <2> QED
    BY <1>2, <2>1, <2>2 DEF HubStep, HubUnregister, HubTake, HubOffer, HubEvict,
       HubFanoutDone, HubStop
<1>3. ASSUME NEW c \in Client, ClientStep(c) PROVE [AsFeed!Next]_(AsFeed!feedVars)
  <2>1. CASE WriterOk(c)
    BY <2>1, WriteShows DEF AsFeed!Next
  <2>2. CASE WriterErr(c) \/ WriterEnd(c)
    BY <2>2, WriterLeaves DEF AsFeed!Next
  <2>3. CASE Connect(c) \/ StartPumps(c) \/ WriterTake(c)
    <3>1. \A d \in Client : FeedPlace(d)' = FeedPlace(d)
      BY <2>3 DEF Connect, StartPumps, WriterTake, IInv, TypeOK, StageInv, FeedPlace
    <3>2. UNCHANGED <<published, wrote, from>>
      BY <2>3 DEF Connect, StartPumps, WriterTake
    <3> QED
      BY <3>1, <3>2, FeedStutter
  <2>4. CASE PeerGone(c) \/ ReaderErr(c) \/ ReaderClose(c)
    <3>1. UNCHANGED <<published, wrote, from, handler, writer>>
      BY <2>4 DEF PeerGone, ReaderErr, ReaderClose
    <3> QED
      BY <3>1, FeedStutter DEF FeedPlace
  <2> QED
    BY <1>3, <2>1, <2>2, <2>3, <2>4 DEF ClientStep
<1>4. ASSUME NEW p \in Publisher, PubStepOf(p) PROVE [AsFeed!Next]_(AsFeed!feedVars)
  <2>1. UNCHANGED <<wrote, from, handler, writer>>
    BY <1>4 DEF PubStepOf, Tick, Fetched, Call, TickerExit, PubStep, Enqueue
  <2>2. \A d \in Client : FeedPlace(d)' = FeedPlace(d)
    BY <2>1 DEF FeedPlace
  <2>3. CASE Enqueue(p)
    BY <2>1, <2>2, <2>3 DEF Enqueue, AsFeed!Next, AsFeed!Publish
  <2>4. CASE ~Enqueue(p)
    BY <1>4, <2>1, <2>2, <2>4, FeedStutter
       DEF PubStepOf, Tick, Fetched, Call, TickerExit, PubStep
  <2> QED
    BY <2>3, <2>4
<1>5. CASE Cancel
  BY <1>5, FeedStutter DEF Cancel, FeedPlace
<1> QED
  BY <1>1, <1>2, <1>3, <1>4, <1>5 DEF Next

\* What a browser observes of the hub is a run of the abstract feed.
THEOREM Refinement == Spec => ImplementsFeed
  BY FeedInit, FeedStep, Invariance, PTL DEF Spec, ImplementsFeed, AsFeed!Spec
=============================================================================
