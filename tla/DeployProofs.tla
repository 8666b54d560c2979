---------------------------- MODULE DeployProofs ----------------------------
(***************************************************************************)
(* Proofs about Deploy: the inductive invariant and the safety properties, *)
(* for any files, any number of concurrent requests and any bounds.        *)
(***************************************************************************)
EXTENDS Deploy, SequenceTheorems, TLAPS

\* Taking a call off the bus.
LEMMA TailOfCalls ==
  ASSUME NEW s \in Seq(Call), s # <<>>
  PROVE  /\ Head(s) \in Call
         /\ Head(s) = s[1]
         /\ 1 \in DOMAIN s
         /\ Tail(s) \in Seq(Call)
         /\ \A i \in DOMAIN Tail(s) : i \in Nat /\ i + 1 \in DOMAIN s /\ i + 1 # 1 /\ Tail(s)[i] = s[i + 1]
<1>1. Len(s) \in Nat \ {0} /\ DOMAIN s = 1 .. Len(s)
  BY EmptySeq, LenProperties
<1>2. Tail(s) \in Seq(Call) /\ Len(Tail(s)) = Len(s) - 1 /\ \A i \in 1 .. Len(Tail(s)) : Tail(s)[i] = s[i + 1]
  BY HeadTailProperties
<1>3. DOMAIN Tail(s) = 1 .. Len(s) - 1
  BY <1>1, <1>2, LenProperties
<1>4. Head(s) \in Call /\ Head(s) = s[1]
  BY HeadTailProperties
<1> QED
  BY <1>1, <1>2, <1>3, <1>4

\* Putting a call on the bus.
LEMMA AppendCall ==
  ASSUME NEW s \in Seq(Call), NEW c \in Call
  PROVE  /\ Append(s, c) \in Seq(Call)
         /\ \A i \in DOMAIN Append(s, c) :
              \/ i \in DOMAIN s /\ Append(s, c)[i] = s[i]
              \/ i = Len(s) + 1 /\ Append(s, c)[i] = c
<1>1. DOMAIN s = 1 .. Len(s) /\ Len(s) \in Nat
  BY LenProperties
<1>2. Append(s, c) \in Seq(Call) /\ Len(Append(s, c)) = Len(s) + 1
  BY AppendProperties
<1>3. /\ \A i \in 1 .. Len(s) : Append(s, c)[i] = s[i]
      /\ Append(s, c)[Len(s) + 1] = c
  BY AppendProperties
<1>4. DOMAIN Append(s, c) = 1 .. Len(s) + 1
  BY <1>1, <1>2, LenProperties
<1> QED
  BY <1>1, <1>2, <1>3, <1>4

\* Requests that send no call do not disturb the bus: the one that changes, if any,
\* was not waiting for an answer.
LEMMA QuietBus ==
  ASSUME BusInv, TypeOK, bus' = bus,
         \A q \in Request : req[q].step \in Method /\ req[q].answer = "none" =>
           /\ req'[q].step = req[q].step
           /\ req'[q].file = req[q].file
           /\ req'[q].answer = "none"
  PROVE  BusInv'
<1>1. \A i \in DOMAIN bus : bus[i] \in Call
  BY LenProperties, ElementOfSeq DEF TypeOK
<1> QED
  BY <1>1 DEF BusInv, Call

\* A request that was not waiting sends a call and waits for it.
LEMMA SendBus ==
  ASSUME BusInv, TypeOK, DeployAssumption,
         NEW r \in Request, NEW m \in Method, NEW f \in File,
         ~(req[r].step \in Method /\ req[r].answer = "none"),
         bus' = Append(bus, [method |-> m, file |-> f, by |-> r]),
         \A q \in Request \ {r} : req'[q] = req[q],
         req'[r].step = m, req'[r].file = f, req'[r].answer = "none"
  PROVE  BusInv' /\ bus' \in Seq(Call)
<1> DEFINE c == [method |-> m, file |-> f, by |-> r]
<1>1. bus \in Seq(Call) /\ c \in Call
  BY DEF TypeOK, Call
<1>2. \A i \in DOMAIN bus : bus[i] \in Call
  BY <1>1, LenProperties, ElementOfSeq
<1>3. \A i \in DOMAIN bus : bus[i].by # r
  BY <1>2 DEF BusInv, Call, DeployAssumption
<1>4. /\ bus' \in Seq(Call)
      /\ \A i \in DOMAIN bus' : \/ i \in DOMAIN bus /\ bus'[i] = bus[i]
                                \/ i = Len(bus) + 1 /\ bus'[i] = c
  BY <1>1, AppendCall
<1>5. ASSUME NEW i \in DOMAIN bus', bus'[i].by # Nobody
      PROVE  LET q == req'[bus'[i].by]
             IN  q.step = bus'[i].method /\ q.file = bus'[i].file /\ q.answer = "none"
  <2>1. CASE i \in DOMAIN bus /\ bus'[i] = bus[i]
    BY <1>2, <1>3, <1>5, <2>1 DEF BusInv, Call
  <2>2. CASE bus'[i] = c
    BY <2>2
  <2> QED
    BY <1>4, <2>1, <2>2
<1>6. ASSUME NEW i \in DOMAIN bus', NEW j \in DOMAIN bus', i # j, bus'[i].by # Nobody
      PROVE  bus'[i].by # bus'[j].by
  <2>1. c.by = r
    OBVIOUS
  <2> HIDE DEF c
  <2> QED
    BY <1>3, <1>4, <1>6, <2>1 DEF BusInv
<1> QED
  BY <1>4, <1>5, <1>6 DEF BusInv

\* systemd takes the first call and answers it, if somebody still waits.
LEMMA TakeBus ==
  ASSUME BusInv, TypeOK, DeployAssumption, NEW m \in Method, NEW a \in {"ok", "error"}, Take(m, a)
  PROVE  /\ BusInv'
         /\ bus' \in Seq(Call)
         /\ req' \in [Request -> RequestState]
         /\ \A q \in Request :
              \/ req'[q] = req[q]
              \/ /\ req[q].step = m /\ req[q].answer = "none"
                 /\ req[q].file = Head(bus).file
                 /\ req'[q] = [req[q] EXCEPT !.answer = a]
<1>1. bus \in Seq(Call) /\ bus # <<>> /\ bus' = Tail(bus) /\ Head(bus).method = m
  BY DEF TypeOK, Take
<1>2. /\ Head(bus) \in Call
      /\ Head(bus) = bus[1]
      /\ 1 \in DOMAIN bus
      /\ Tail(bus) \in Seq(Call)
      /\ \A i \in DOMAIN Tail(bus) : i \in Nat /\ i + 1 \in DOMAIN bus /\ i + 1 # 1 /\ Tail(bus)[i] = bus[i + 1]
  BY <1>1, TailOfCalls
<1>3. \A i \in DOMAIN bus : bus[i] \in Call
  BY <1>1, LenProperties, ElementOfSeq
<1>4. \A i \in DOMAIN bus' : bus'[i].by # Nobody =>
         LET q == req[bus'[i].by]
         IN  q.step = bus'[i].method /\ q.file = bus'[i].file /\ q.answer = "none"
  BY <1>1, <1>2 DEF BusInv
<1>5. \A i, j \in DOMAIN bus' : i # j /\ bus'[i].by # Nobody => bus'[i].by # bus'[j].by
  <2>1. \A i, j \in Nat : i # j => i + 1 # j + 1
    OBVIOUS
  <2> QED
    BY <1>1, <1>2, <2>1 DEF BusInv
<1>6. \A i \in DOMAIN bus' : bus'[i].by # Nobody => bus'[i].by # Head(bus).by /\ bus'[i].by \in Request
  BY <1>1, <1>2, <1>3 DEF BusInv, Call
<1>7. CASE Head(bus).by = Nobody
  <2>1. req' = req
    BY <1>7 DEF Take, Answer
  <2> QED
    BY <1>1, <1>2, <1>4, <1>5, <2>1 DEF BusInv, TypeOK
<1>8. CASE Head(bus).by # Nobody
  <2> DEFINE r == Head(bus).by
  <2>1. r \in Request /\ req[r].step = m /\ req[r].file = Head(bus).file /\ req[r].answer = "none"
    BY <1>1, <1>2, <1>8 DEF BusInv, Call
  <2>2. req' = [req EXCEPT ![r].answer = a]
    BY <1>8 DEF Take, Answer
  <2> HIDE DEF r
  <2>3. req' \in [Request -> RequestState]
    BY <2>1, <2>2 DEF TypeOK, RequestState
  <2>4. /\ req'[r] = [req[r] EXCEPT !.answer = a]
        /\ \A q \in Request \ {r} : req'[q] = req[q]
    BY <2>1, <2>2 DEF TypeOK
  <2>5. \A i \in DOMAIN bus' : bus'[i].by # Nobody => bus'[i].by \in Request \ {r}
    BY <1>6 DEF r
  <2>6. \A i \in DOMAIN bus' : bus'[i].by # Nobody =>
           LET q == req'[bus'[i].by]
           IN  q.step = bus'[i].method /\ q.file = bus'[i].file /\ q.answer = "none"
    BY <1>4, <2>4, <2>5
  <2> QED
    BY <1>1, <1>2, <1>5, <2>1, <2>3, <2>4, <2>6 DEF BusInv
<1> QED
  BY <1>7, <1>8

\* Giving up calls: what stays on the bus is a prefix of it, with Nobody in the place
\* of the requests that have given up.
LEMMA ForgetBus ==
  ASSUME BusInv, TypeOK, DeployAssumption, NEW R \in SUBSET Request, NEW n \in 0 .. Len(bus),
         bus' = [i \in 1 .. n |-> IF bus[i].by \in R THEN [bus[i] EXCEPT !.by = Nobody] ELSE bus[i]],
         \A q \in Request \ R : req'[q] = req[q]
  PROVE  BusInv' /\ bus' \in Seq(Call)
<1>1. bus \in Seq(Call) /\ Len(bus) \in Nat /\ DOMAIN bus = 1 .. Len(bus)
  BY LenProperties DEF TypeOK
<1>2. \A i \in DOMAIN bus : bus[i] \in Call
  BY <1>1, ElementOfSeq
<1>3. n \in Nat /\ \A i \in 1 .. n : i \in DOMAIN bus
  BY <1>1
<1>4. \A i \in 1 .. n : bus'[i] \in Call
  BY <1>2, <1>3 DEF Call
<1>5. bus' \in Seq(Call)
  <2>1. bus' \in [1 .. n -> Call]
    BY <1>4
  <2> QED
    BY <1>3, <2>1, SeqDef
<1>6. \A i \in DOMAIN bus' : /\ i \in DOMAIN bus
                             /\ bus'[i].by # Nobody => bus'[i] = bus[i] /\ bus[i].by \in Request \ R
  BY <1>2, <1>3 DEF Call
<1>7. \A i \in DOMAIN bus' : bus'[i].by # Nobody =>
         LET q == req'[bus'[i].by]
         IN  q.step = bus'[i].method /\ q.file = bus'[i].file /\ q.answer = "none"
  BY <1>6 DEF BusInv
<1>8. \A i, j \in DOMAIN bus' : i # j /\ bus'[i].by # Nobody => bus'[i].by # bus'[j].by
  <2>1. \A j \in DOMAIN bus' : bus'[j].by # bus[j].by => bus'[j].by = Nobody
    BY <1>2, <1>3 DEF Call
  <2> QED
    BY <1>6, <2>1 DEF BusInv
<1> QED
  BY <1>5, <1>7, <1>8 DEF BusInv

\* What Reply and Wait leave in the request, and that the others keep theirs.
LEMMA ReplyFacts ==
  ASSUME TypeOK, NEW r \in Request, NEW s \in Done \cup {"next"}, Reply(r, s)
  PROVE  /\ req' \in [Request -> RequestState]
         /\ \A q \in Request \ {r} : req'[q] = req[q]
         /\ req'[r].step = s
         /\ req'[r].answer = "none"
         /\ req'[r].op = req[r].op
         /\ req'[r].file = req[r].file
         /\ req'[r].stamp = req[r].stamp
         /\ req'[r].unlinked = req[r].unlinked
         /\ req'[r].text = "full"
<1>1. req[r] \in RequestState /\ s \in Where /\ "full" \in Content
  BY DEF TypeOK, Where, Content
<1>2. [req[r] EXCEPT !.step = s, !.text = "full", !.answer = "none"] \in RequestState
  BY <1>1 DEF RequestState
<1>3. /\ \A q \in Request \ {r} : req'[q] = req[q]
      /\ req'[r] = [req[r] EXCEPT !.step = s, !.text = "full", !.answer = "none"]
      /\ req' \in [Request -> RequestState]
  BY <1>2 DEF TypeOK, Reply
<1> QED
  BY <1>1, <1>3 DEF RequestState

LEMMA WaitFacts ==
  ASSUME TypeOK, NEW r \in Request, NEW m \in Method, Wait(r, m)
  PROVE  /\ req' \in [Request -> RequestState]
         /\ \A q \in Request \ {r} : req'[q] = req[q]
         /\ req'[r].step = m
         /\ req'[r].answer = "none"
         /\ req'[r].op = req[r].op
         /\ req'[r].file = req[r].file
         /\ req'[r].stamp = req[r].stamp
         /\ req'[r].unlinked = req[r].unlinked
         /\ req'[r].text = req[r].text
  BY DEF TypeOK, RequestState, Where, Wait

\* The fields of a request.
LEMMA RequestFields ==
  ASSUME TypeOK, DeployAssumption, NEW r \in Request
  PROVE  /\ req[r].step \in Where
         /\ req[r].op \in Op
         /\ req[r].file \in File
         /\ req[r].text \in Content
         /\ req[r].stamp \in Nat /\ req[r].stamp \in Stamp
         /\ req[r].unlinked \in BOOLEAN
         /\ req[r].answer \in {"none", "ok", "error"}
  BY DEF TypeOK, RequestState, Stamp, DeployAssumption

\* The initial states satisfy the inductive invariant.
LEMMA InitIInv == Init => IInv
<1> SUFFICES ASSUME Init PROVE IInv
  OBVIOUS
<1> USE DeployAssumption DEF Init
<1>1. TypeOK
  <2>1. req \in [Request -> RequestState]
    <3>1. ASSUME NEW f \in File
          PROVE  [step |-> "idle", op |-> "write", file |-> f, text |-> "full", stamp |-> 0,
                  unlinked |-> FALSE, answer |-> "none"] \in RequestState
      BY DEF RequestState, Where, Done, Method, Op, Stamp, Content
    <3> QED
      BY <3>1
  <2>2. bus \in Seq(Call)
    BY EmptySeq
  <2>3. applied \in [File -> Stamp] /\ written \in Stamp
    BY DEF Stamp
  <2> QED
    BY <2>1, <2>2, <2>3 DEF TypeOK, Text, Ending, Content
<1>2. BusInv
  BY EmptySeq, LenProperties DEF BusInv
<1>3. StampInv /\ TextInv /\ OpInv /\ EmptyIsExplained
  BY DEF StampInv, TextInv, OpInv, EmptyIsExplained, AtLeast, Written, Seen, Method
<1> QED
  BY <1>1, <1>2, <1>3 DEF IInv

\* A request that is not waiting for a call is answered, and nothing else changes, but
\* for a write that failed.
LEMMA ReplyStep ==
  ASSUME IInv, DeployAssumption, NEW r \in Request, NEW s \in Done, Reply(r, s),
         ~(req[r].step \in Method /\ req[r].answer = "none"),
         UNCHANGED <<present, disk, written, archived, loaded, bus, applied>>,
         last' \in [File -> Ending],
         \A f \in File : last'[f] = last[f] \/ last'[f] # "full",
         Step(r, "write") => req[r].unlinked \/ last'[req[r].file] # "full"
  PROVE  IInv'
<1>1. TypeOK
  BY DEF IInv
<1>2. /\ req' \in [Request -> RequestState]
      /\ \A q \in Request \ {r} : req'[q] = req[q]
      /\ req'[r].step = s
      /\ req'[r].file = req[r].file
      /\ req'[r].stamp = req[r].stamp
      /\ req'[r].text = "full"
  BY <1>1, ReplyFacts
<1>3. s \notin Method /\ s # "write"
  BY DEF Done, Method
<1>4. TypeOK'
  BY <1>1, <1>2 DEF TypeOK
<1>5. BusInv'
  BY <1>1, <1>2, QuietBus DEF IInv
<1>6. StampInv'
  BY <1>2 DEF IInv, StampInv
<1>7. TextInv'
  BY <1>2, <1>3 DEF IInv, TextInv, AtLeast, Written, Seen
<1>8. OpInv'
  BY <1>2, <1>3 DEF IInv, OpInv, Method
<1>9. EmptyIsExplained'
  BY <1>1, <1>2, <1>3 DEF IInv, TypeOK, EmptyIsExplained, Step
<1> QED
  BY <1>4, <1>5, <1>6, <1>7, <1>8, <1>9 DEF IInv

\* ApplyFile sends its next call, when systemd has seen what it wrote.
LEMMA SendStep ==
  ASSUME IInv, DeployAssumption, NEW r \in Request, NEW m \in {"start", "enable"},
         Wait(r, m), Send(r, m), req[r].op = "apply", req[r].answer # "none",
         Seen(r) \/ req[r].unlinked, req[r].step \in Method,
         UNCHANGED <<files, loaded, applied>>
  PROVE  IInv'
<1>1. TypeOK /\ m \in Method /\ m # "write" /\ m # "reload"
  BY DEF IInv, Method
<1>2. /\ req' \in [Request -> RequestState]
      /\ \A q \in Request \ {r} : req'[q] = req[q]
      /\ req'[r].step = m
      /\ req'[r].answer = "none"
      /\ req'[r].op = req[r].op
      /\ req'[r].file = req[r].file
      /\ req'[r].stamp = req[r].stamp
      /\ req'[r].unlinked = req[r].unlinked
      /\ req'[r].text = req[r].text
  BY <1>1, WaitFacts
<1>3. req[r].file \in File
  BY <1>1, RequestFields
<1>4. BusInv' /\ bus' \in Seq(Call)
  BY <1>1, <1>2, <1>3, SendBus DEF IInv, Send
<1>5. TypeOK'
  BY <1>1, <1>2, <1>4 DEF TypeOK, files
<1>6. StampInv'
  BY <1>2 DEF IInv, StampInv, files
<1>7. TextInv'
  BY <1>1, <1>2 DEF IInv, TextInv, AtLeast, Written, Seen, files
<1>8. OpInv'
  BY <1>2 DEF IInv, OpInv
<1>9. EmptyIsExplained'
  <2>1. req[r].step # "write"
    BY DEF Method
  <2> QED
    BY <1>1, <1>2, <2>1 DEF IInv, EmptyIsExplained, Step, files
<1> QED
  BY <1>4, <1>5, <1>6, <1>7, <1>8, <1>9 DEF IInv

\* The invariant survives this step: a file is created or truncated.
LEMMA TruncateInv ==
  ASSUME IInv, DeployAssumption, NEW r \in Request, NEW f \in File,
         NEW op \in {"write", "apply", "import"}, NEW text \in Content,
         op = "apply" => text = "full",
         Free(r) \/ Step(r, "next"), Truncate(r, op, f, text)
  PROVE  IInv'
<1>1. TypeOK
  BY DEF IInv
<1>2. op \in Op /\ req[r].step \notin Method /\ req[r].step # "write"
  BY DEF Free, Step, Op, Done, Method
<1>3. /\ New(op, f, text, "write") \in RequestState
      /\ New(op, f, text, "write").step = "write"
      /\ New(op, f, text, "write").file = f
      /\ New(op, f, text, "write").op = op
      /\ New(op, f, text, "write").text = text
      /\ New(op, f, text, "write").stamp = 0
      /\ New(op, f, text, "write").unlinked = FALSE
  <2>1. "write" \in Where
    BY DEF Where
  <2> QED
    BY <1>2, <2>1 DEF New, RequestState, Stamp, Content, DeployAssumption
<1>4. /\ req' \in [Request -> RequestState]
      /\ \A q \in Request \ {r} : req'[q] = req[q]
      /\ req'[r] = New(op, f, text, "write")
  BY <1>1, <1>3 DEF TypeOK, Truncate
<1>5. TypeOK'
  BY <1>1, <1>4 DEF TypeOK, Truncate, Text
<1>6. BusInv'
  BY <1>1, <1>2, <1>4, QuietBus DEF IInv, Truncate
<1>7. StampInv'
  <2>1. 0 <= written
    BY <1>1, DeployAssumption DEF TypeOK, Stamp
  <2> QED
    BY <1>3, <1>4, <2>1 DEF IInv, StampInv, Truncate
<1>8. TextInv'
  <2>1. loaded' = loaded /\ applied' = applied
        /\ disk'[f] = {} /\ \A g \in File \ {f} : disk'[g] = disk[g]
    BY <1>1 DEF Truncate, TypeOK
  <2>2. \A g \in File, w \in Stamp : AtLeast(disk[g], w) => AtLeast(disk'[g], w)
    BY <2>1 DEF AtLeast
  <2>3. \A g \in File : applied[g] \in Stamp
    BY <1>1 DEF TypeOK
  <2>4. ~Written(r)'
    BY <1>3, <1>4 DEF Written, Method
  <2>5. \A q \in Request : Written(q)' => q # r /\ req'[q] = req[q] /\ Written(q)
    BY <1>4, <2>4 DEF Written
  <2>6. \A q \in Request : Seen(q)' => q # r /\ req'[q] = req[q] /\ Seen(q)
    BY <1>4, <2>4 DEF Seen, Written
  <2> QED
    BY <1>1, <2>1, <2>2, <2>3, <2>5, <2>6, RequestFields, DeployAssumption DEF IInv, TextInv
<1>9. OpInv'
  BY <1>3, <1>4 DEF IInv, OpInv
<1>10. EmptyIsExplained'
  BY <1>1, <1>2, <1>3, <1>4 DEF IInv, TypeOK, EmptyIsExplained, Step, Truncate
<1> QED
  BY <1>5, <1>6, <1>7, <1>8, <1>9, <1>10 DEF IInv

\* The invariant survives this step: the text reaches the file, or an inode without a
\* name.
LEMMA WriteInv ==
  ASSUME IInv, DeployAssumption, NEW r \in Request, Write(r)
  PROVE  IInv'
<1> DEFINE f == req[r].file
<1>1. TypeOK /\ req[r].step = "write" /\ f \in File
  BY RequestFields DEF IInv, Write, Step
<1>2. /\ written \in Nat /\ written' = written + 1 /\ written' \in Stamp /\ written' # 0
      /\ written' \in Nat
  BY <1>1, DeployAssumption DEF TypeOK, Stamp, Write
<1>3. /\ \A q \in Request \ {r} : req'[q] = req[q]
      /\ req' \in [Request -> RequestState]
      /\ req'[r].file = f
      /\ req'[r].unlinked = req[r].unlinked
      /\ req'[r].op = req[r].op
      /\ req'[r].text \in {"full", req[r].text}
      /\ \/ /\ req[r].op = "apply" /\ Send(r, "reload")
            /\ req'[r].step = "reload" /\ req'[r].answer = "none"
            /\ req'[r].stamp = written'
         \/ /\ req'[r].step \in {"ok", "next"}
            /\ req'[r].stamp = req[r].stamp /\ bus' = bus
  <2>1. CASE req[r].op = "apply"
    <3>1. Send(r, "reload") /\ req' = [req EXCEPT ![r].step = "reload", ![r].stamp = written', ![r].answer = "none"]
      BY <2>1 DEF Write
    <3>2. /\ req[r] \in RequestState /\ "reload" \in Where /\ "none" \in {"none", "ok", "error"}
      BY <1>1 DEF TypeOK, Where, Method
    <3>3. [req[r] EXCEPT !.step = "reload", !.stamp = written', !.answer = "none"] \in RequestState
      BY <1>2, <3>2 DEF RequestState
    <3>4. /\ \A q \in Request \ {r} : req'[q] = req[q]
          /\ req'[r] = [req[r] EXCEPT !.step = "reload", !.stamp = written', !.answer = "none"]
          /\ req' \in [Request -> RequestState]
      BY <1>1, <3>1, <3>3 DEF TypeOK
    <3> QED
      BY <2>1, <3>1, <3>2, <3>4 DEF RequestState
  <2>2. CASE req[r].op # "apply"
    <3>1. PICK s \in {"ok", "next"} : Reply(r, s) /\ bus' = bus
      BY <2>2 DEF Write
    <3>2. s \in Done \cup {"next"}
      BY DEF Done
    <3> QED
      BY <1>1, <2>2, <3>1, <3>2, ReplyFacts
  <2> QED
    BY <2>1, <2>2
<1>4. /\ present' = present /\ loaded' = loaded /\ applied' = applied
      /\ disk' \in [File -> Text]
      /\ \A g \in File \ {f} : disk'[g] = disk[g]
      /\ archived' = archived /\ last' \in [File -> Ending]
      /\ \A g \in File \ {f} : last'[g] = last[g]
      /\ \/ req[r].unlinked /\ disk'[f] = disk[f] /\ last'[f] = last[f]
         \/ ~req[r].unlinked /\ req[r].text = "full" /\ written' \in disk'[f]
         \/ ~req[r].unlinked /\ req[r].text # "full" /\ disk'[f] = disk[f] /\ last'[f] # "full"
  <2>1. CASE req[r].unlinked
    BY <1>1, <2>1 DEF Write, TypeOK
  <2>2. CASE ~req[r].unlinked /\ req[r].text = "full"
    <3>1. PICK tail \in SUBSET disk[f] : disk' = [disk EXCEPT ![f] = tail \cup {written'}]
      BY <2>2 DEF Write
    <3>2. disk[f] \in Text /\ tail \cup {written'} \in Text
      BY <1>1, <1>2 DEF TypeOK, Text
    <3>3. last' = [last EXCEPT ![f] = req[r].text] /\ req[r].text \in Ending
      BY <2>2 DEF Write, Ending, Content
    <3> QED
      BY <1>1, <2>2, <3>1, <3>2, <3>3 DEF Write, TypeOK
  <2>3. CASE ~req[r].unlinked /\ req[r].text # "full"
    <3>1. req[r].text \in Ending
      BY <1>1, RequestFields DEF Ending
    <3>2. last' = [last EXCEPT ![f] = req[r].text] /\ disk' = disk
      BY <2>3 DEF Write
    <3> QED
      BY <1>1, <2>3, <3>1, <3>2 DEF Write, TypeOK
  <2> QED
    BY <2>1, <2>2, <2>3
<1> HIDE DEF f
<1>6. BusInv' /\ bus' \in Seq(Call)
  <2>1. CASE Send(r, "reload") /\ req'[r].step = "reload" /\ req'[r].answer = "none"
    <3>1. "reload" \in Method /\ ~(req[r].step \in Method)
      BY <1>1 DEF Method
    <3> QED
      BY <1>1, <1>3, <2>1, <3>1, SendBus DEF IInv, Send, f
  <2>2. CASE bus' = bus
    <3>1. ~(req[r].step \in Method)
      BY <1>1 DEF Method
    <3>2. BusInv'
      BY <1>1, <1>3, <2>2, <3>1, QuietBus DEF IInv
    <3> QED
      BY <1>1, <2>2, <3>2 DEF TypeOK
  <2> QED
    BY <1>3, <2>1, <2>2
<1>7. TypeOK'
  BY <1>1, <1>2, <1>3, <1>4, <1>6 DEF TypeOK
<1>8. StampInv'
  <2>1. \A g \in File : applied'[g] <= written'
    BY <1>1, <1>2, <1>4, DeployAssumption DEF IInv, StampInv, TypeOK, Stamp
  <2>2. \A q \in Request : req[q].stamp <= written'
    BY <1>1, <1>2, RequestFields, DeployAssumption DEF IInv, StampInv
  <2>3. \A q \in Request : req'[q].stamp <= written'
    BY <1>2, <1>3, <2>2
  <2> QED
    BY <2>1, <2>3 DEF StampInv
<1>9. TextInv'
  <2>1. \A g \in File : \A w \in Nat : w <= written /\ AtLeast(disk[g], w) => AtLeast(disk'[g], w)
    <3>1. ASSUME NEW g \in File, NEW w \in Nat, w <= written, AtLeast(disk[g], w)
          PROVE  AtLeast(disk'[g], w)
      <4>1. disk'[g] = disk[g] \/ written' \in disk'[g]
        BY <1>4
      <4> QED
        BY <1>2, <3>1, <4>1 DEF AtLeast
    <3> QED
      BY <3>1
  <2>2. \A g \in File : applied[g] \in Nat /\ applied[g] <= written
    BY <1>1, DeployAssumption DEF IInv, StampInv, TypeOK, Stamp
  <2>3. \A g \in File : AtLeast(disk'[g], applied'[g]) /\ AtLeast(loaded'[g], applied'[g])
    BY <1>4, <2>1, <2>2 DEF IInv, TextInv
  <2>4. ASSUME NEW q \in Request, Written(q)'
        PROVE  AtLeast(disk'[req'[q].file], req'[q].stamp)
    <3>1. CASE q = r
      <4>1. req'[r].stamp = written' /\ ~req[r].unlinked /\ req[r].op = "apply"
        BY <1>3, <2>4, <3>1 DEF Written, Method
      <4>2. req[r].text = "full"
        BY <1>1, <4>1 DEF IInv, OpInv
      <4> QED
        BY <1>2, <1>3, <1>4, <3>1, <4>1, <4>2 DEF AtLeast
    <3>2. CASE q # r
      <4>1. req'[q] = req[q] /\ Written(q)
        BY <1>3, <2>4, <3>2 DEF Written
      <4>2. req[q].stamp \in Nat /\ req[q].stamp <= written /\ req[q].file \in File
        BY <1>1, RequestFields DEF IInv, StampInv
      <4> QED
        BY <2>1, <4>1, <4>2 DEF IInv, TextInv
    <3> QED
      BY <3>1, <3>2
  <2>5. ASSUME NEW q \in Request, Seen(q)'
        PROVE  AtLeast(loaded'[req'[q].file], req'[q].stamp)
    <3>1. q # r
      BY <1>3, <2>5 DEF Seen, Written, Method
    <3>2. req'[q] = req[q] /\ Seen(q)
      BY <1>3, <2>5, <3>1 DEF Seen, Written
    <3> QED
      BY <1>4, <3>2 DEF IInv, TextInv
  <2> QED
    BY <2>3, <2>4, <2>5 DEF TextInv
<1>10. OpInv'
  BY <1>3 DEF IInv, OpInv
<1>11. EmptyIsExplained'
  <2> SUFFICES ASSUME NEW g \in present', disk'[g] = {}, last'[g] = "full"
               PROVE  \E q \in Request : /\ req'[q].step = "write"
                                         /\ req'[q].file = g
                                         /\ ~req'[q].unlinked
    BY DEF EmptyIsExplained, Step
  <2>1. g \in present /\ g \in File /\ (g = f => req[r].unlinked)
    BY <1>1, <1>4 DEF TypeOK
  <2>2. disk[g] = {} /\ last[g] = "full"
    BY <1>4, <2>1
  <2>3. PICK q \in Request : req[q].step = "write" /\ req[q].file = g /\ ~req[q].unlinked
    BY <2>1, <2>2 DEF IInv, EmptyIsExplained, Step
  <2>4. q # r
    BY <2>1, <2>3 DEF f
  <2> QED
    BY <1>3, <2>3, <2>4
<1> QED
  BY <1>6, <1>7, <1>8, <1>9, <1>10, <1>11 DEF IInv

\* The invariant survives this step: a file is deleted, under the hands of the requests
\* that have it open.
LEMMA DeleteInv ==
  ASSUME IInv, DeployAssumption, NEW r \in Request, NEW f \in File, Delete(r, f)
  PROVE  IInv'
<1>1. TypeOK /\ req[r].step \notin Method /\ req[r].step # "write"
  BY DEF IInv, Delete, Free, Done, Method
<1>2. /\ New("delete", f, "full", "ok") \in RequestState
      /\ New("delete", f, "full", "ok").step = "ok"
      /\ New("delete", f, "full", "ok").stamp = 0
      /\ New("delete", f, "full", "ok").op = "delete"
  <2>1. "delete" \in Op /\ "ok" \in Where
    BY DEF Op, Done, Where
  <2> QED
    BY <2>1 DEF New, RequestState, Stamp, Content, DeployAssumption
<1>3. /\ req'[r] = New("delete", f, "full", "ok")
      /\ \A q \in Request \ {r} :
           \/ req[q].step = "write" /\ req[q].file = f /\ req'[q] = [req[q] EXCEPT !.unlinked = TRUE]
           \/ ~(req[q].step = "write" /\ req[q].file = f) /\ req'[q] = req[q]
  BY DEF Delete
<1>4. \A q \in Request \ {r} : [req[q] EXCEPT !.unlinked = TRUE] \in RequestState
  BY <1>1 DEF TypeOK, RequestState
<1>5. req' \in [Request -> RequestState]
  <2>1. \A q \in Request : req'[q] \in RequestState
    BY <1>1, <1>2, <1>3, <1>4 DEF TypeOK
  <2>2. req' = [q \in Request |-> req'[q]]
    BY DEF Delete
  <2> QED
    BY <2>1, <2>2
<1>6. \A q \in Request \ {r} : /\ req'[q].step = req[q].step
                               /\ req'[q].file = req[q].file
                               /\ req'[q].answer = req[q].answer
                               /\ req'[q].op = req[q].op
                               /\ req'[q].text = req[q].text
                               /\ req'[q].stamp = req[q].stamp
                               /\ req[q].step # "write" => req'[q] = req[q]
                               /\ ~req'[q].unlinked => req'[q] = req[q]
  BY <1>1, <1>3 DEF TypeOK, RequestState
<1>7. /\ present' = present \ {f} /\ disk' = [disk EXCEPT ![f] = {}]
      /\ UNCHANGED <<written, archived, last, loaded, bus, applied>>
  BY DEF Delete
<1>8. TypeOK'
  BY <1>1, <1>5, <1>7 DEF TypeOK, Text
<1>9. BusInv'
  BY <1>1, <1>6, <1>7, QuietBus DEF IInv
<1>10. StampInv'
  <2>1. 0 <= written
    BY <1>1, DeployAssumption DEF TypeOK, Stamp
  <2> QED
    BY <1>2, <1>3, <1>6, <1>7, <2>1 DEF IInv, StampInv
<1>11. TextInv'
  <2>1. disk'[f] = {} /\ \A g \in File \ {f} : disk'[g] = disk[g]
    BY <1>1, <1>7 DEF TypeOK
  <2>2. \A g \in File, w \in Stamp : AtLeast(disk[g], w) => AtLeast(disk'[g], w)
    BY <2>1 DEF AtLeast
  <2>3. \A g \in File : applied[g] \in Stamp
    BY <1>1 DEF TypeOK
  <2>4. ~Written(r)'
    BY <1>2, <1>3 DEF Written, Method
  <2>5. \A q \in Request : Written(q)' => q # r /\ req'[q] = req[q] /\ Written(q)
    BY <1>6, <2>4 DEF Written
  <2>6. \A q \in Request : Seen(q)' => q # r /\ req'[q] = req[q] /\ Seen(q)
    BY <1>6, <2>4 DEF Seen, Written
  <2> QED
    BY <1>1, <1>7, <2>2, <2>3, <2>5, <2>6, RequestFields, DeployAssumption DEF IInv, TextInv
<1>12. OpInv'
  BY <1>2, <1>3, <1>6 DEF IInv, OpInv
<1>13. EmptyIsExplained'
  <2> SUFFICES ASSUME NEW g \in present', disk'[g] = {}, last'[g] = "full"
               PROVE  \E q \in Request : /\ req'[q].step = "write"
                                         /\ req'[q].file = g
                                         /\ ~req'[q].unlinked
    BY DEF EmptyIsExplained, Step
  <2>1. g \in present /\ g # f /\ g \in File /\ disk[g] = {} /\ last[g] = "full"
    BY <1>1, <1>7 DEF TypeOK
  <2>2. PICK q \in Request : req[q].step = "write" /\ req[q].file = g /\ ~req[q].unlinked
    BY <2>1 DEF IInv, EmptyIsExplained, Step
  <2> QED
    BY <1>1, <1>3, <2>1, <2>2
<1> QED
  BY <1>8, <1>9, <1>10, <1>11, <1>12, <1>13 DEF IInv

\* The invariant survives this step: a reload or an operation on a unit is sent.
LEMMA ManageInv ==
  ASSUME IInv, DeployAssumption, NEW r \in Request, NEW f \in File,
         NEW op \in {"reload", "unit"}, Manage(r, op, f)
  PROVE  IInv'
<1>1. TypeOK /\ req[r].step \notin Method /\ req[r].step # "write"
  BY DEF IInv, Manage, Free, Done, Method
<1>2. op \in Op /\ op \in Method /\ op # "apply" /\ op # "write" /\ op \notin {"start", "enable"}
  BY DEF Op, Method
<1>3. /\ New(op, f, "full", op) \in RequestState
      /\ New(op, f, "full", op).step = op
      /\ New(op, f, "full", op).op = op
      /\ New(op, f, "full", op).file = f
      /\ New(op, f, "full", op).stamp = 0
      /\ New(op, f, "full", op).answer = "none"
  <2>1. op \in Where
    BY <1>2 DEF Where
  <2> QED
    BY <1>2, <2>1 DEF New, RequestState, Stamp, Content, DeployAssumption
<1>4. /\ req' \in [Request -> RequestState]
      /\ \A q \in Request \ {r} : req'[q] = req[q]
      /\ req'[r] = New(op, f, "full", op)
      /\ UNCHANGED <<present, disk, written, archived, last, loaded, applied>>
  BY <1>1, <1>3 DEF TypeOK, Manage, files
<1>5. BusInv' /\ bus' \in Seq(Call)
  <2>1. bus' = Append(bus, [method |-> op, file |-> f, by |-> r])
    BY DEF Manage
  <2> QED
    BY <1>1, <1>2, <1>3, <1>4, <2>1, SendBus, DeployAssumption DEF IInv
<1>6. TypeOK'
  BY <1>1, <1>4, <1>5 DEF TypeOK
<1>7. StampInv'
  <2>1. 0 <= written
    BY <1>1, DeployAssumption DEF TypeOK, Stamp
  <2> QED
    BY <1>3, <1>4, <2>1 DEF IInv, StampInv
<1>8. TextInv'
  BY <1>2, <1>3, <1>4 DEF IInv, TextInv, AtLeast, Written, Seen
<1>9. OpInv'
  BY <1>2, <1>3, <1>4 DEF IInv, OpInv
<1>10. EmptyIsExplained'
  BY <1>1, <1>4 DEF IInv, EmptyIsExplained, Step
<1> QED
  BY <1>5, <1>6, <1>7, <1>8, <1>9, <1>10 DEF IInv

\* The invariant survives every step of systemd: it takes a call, and loads the files if
\* the call is a reload that succeeds.
LEMMA SystemdStep ==
  ASSUME IInv, DeployAssumption, NEW m \in Method, NEW a \in {"ok", "error"}, Take(m, a),
         \/ m = "reload" /\ a = "ok" /\ loaded' = disk
         \/ loaded' = loaded /\ (m = "reload" => a = "error")
  PROVE  IInv'
<1>1. TypeOK /\ UNCHANGED <<present, disk, written, archived, last, applied>>
  BY DEF IInv, Take, files
<1>2. /\ BusInv'
      /\ bus' \in Seq(Call)
      /\ req' \in [Request -> RequestState]
      /\ \A q \in Request :
           \/ req'[q] = req[q]
           \/ /\ req[q].step = m /\ req[q].answer = "none"
              /\ req'[q] = [req[q] EXCEPT !.answer = a]
  BY <1>1, TakeBus DEF IInv
<1>3. \A q \in Request : /\ req'[q].step = req[q].step
                         /\ req'[q].file = req[q].file
                         /\ req'[q].op = req[q].op
                         /\ req'[q].text = req[q].text
                         /\ req'[q].stamp = req[q].stamp
                         /\ req'[q].unlinked = req[q].unlinked
                         /\ req'[q].answer # req[q].answer => req[q].step = m /\ req'[q].answer = a
  BY <1>1, <1>2 DEF TypeOK, RequestState
<1>4. TypeOK'
  BY <1>1, <1>2 DEF TypeOK
<1>5. StampInv'
  BY <1>1, <1>3 DEF IInv, StampInv
<1>6. TextInv'
  <2>1. \A q \in Request : Written(q)' <=> Written(q)
    BY <1>3 DEF Written
  <2>2. CASE m = "reload" /\ a = "ok" /\ loaded' = disk
    <3>1. \A q \in Request : Seen(q)' => Written(q)
      BY <2>1 DEF Seen
    <3> QED
      BY <1>1, <1>3, <2>1, <2>2, <3>1 DEF IInv, TextInv
  <2>3. CASE loaded' = loaded /\ (m = "reload" => a = "error")
    <3>1. \A q \in Request : Seen(q)' => Seen(q)
      BY <1>3, <2>1, <2>3 DEF Seen
    <3> QED
      BY <1>1, <1>3, <2>1, <2>3, <3>1 DEF IInv, TextInv
  <2> QED
    BY <2>2, <2>3
<1>7. OpInv'
  BY <1>3 DEF IInv, OpInv
<1>8. EmptyIsExplained'
  BY <1>1, <1>3 DEF IInv, EmptyIsExplained, Step
<1> QED
  BY <1>2, <1>4, <1>5, <1>6, <1>7, <1>8 DEF IInv

\* The invariant survives this step: ApplyFile is done, whatever became of EnableUnit;
\* its call may still be on the bus.
LEMMA AcknowledgeStep ==
  ASSUME IInv, DeployAssumption, NEW r \in Request, Step(r, "enable"), Acknowledge(r),
         UNCHANGED <<files, loaded>>, BusInv', bus' \in Seq(Call)
  PROVE  IInv'
<1>1. TypeOK /\ req[r].step = "enable" /\ req[r].step \in Method
  BY DEF IInv, Step, Method
<1>2. /\ req' \in [Request -> RequestState]
      /\ \A q \in Request \ {r} : req'[q] = req[q]
      /\ req'[r].step = "ok"
      /\ req'[r].file = req[r].file
      /\ req'[r].stamp = req[r].stamp
      /\ req'[r].text = "full"
  <2>1. "ok" \in Done
    BY DEF Done
  <2> QED
    BY <1>1, <2>1, ReplyFacts DEF Acknowledge
<1>3. UNCHANGED <<present, disk, written, archived, last, loaded>>
  BY DEF files
<1>4. /\ applied' \in [File -> Stamp]
      /\ \A f \in File : \/ applied'[f] = applied[f]
                         \/ Seen(r) /\ f = req[r].file /\ applied'[f] = req[r].stamp
  <2>1. req[r].file \in File /\ req[r].stamp \in Stamp
    BY <1>1, RequestFields
  <2> QED
    BY <1>1, <2>1 DEF Acknowledge, TypeOK, Seen, Written
<1>5. TypeOK'
  BY <1>1, <1>2, <1>3, <1>4 DEF TypeOK
<1>6. StampInv'
  BY <1>2, <1>3, <1>4 DEF IInv, StampInv
<1>7. TextInv'
  <2>1. \A f \in File : AtLeast(disk[f], applied'[f]) /\ AtLeast(loaded[f], applied'[f])
    BY <1>4 DEF IInv, TextInv, Seen
  <2>2. \A q \in Request : /\ Written(q)' => req'[q] = req[q] /\ Written(q)
                           /\ Seen(q)' => req'[q] = req[q] /\ Seen(q)
    BY <1>2 DEF Written, Seen, Method
  <2> QED
    BY <1>3, <2>1, <2>2 DEF IInv, TextInv
<1>8. OpInv'
  BY <1>2 DEF IInv, OpInv
<1>9. EmptyIsExplained'
  BY <1>1, <1>2, <1>3 DEF IInv, EmptyIsExplained, Step
<1> QED
  BY <1>5, <1>6, <1>7, <1>8, <1>9 DEF IInv

\* The invariant survives this step: a request gives its call up.
LEMMA TimeoutInv ==
  ASSUME IInv, DeployAssumption, NEW r \in Request, Timeout(r)
  PROVE  IInv'
<1>1. TypeOK /\ req[r].step \in Method /\ "ok" \in Done /\ "error" \in Done /\ req[r].step # "write"
  BY DEF IInv, Timeout, Done, Method
<1>2. \/ Step(r, "enable") /\ Acknowledge(r)
      \/ Reply(r, "error") /\ applied' = applied
  BY DEF Timeout
<1>3. PICK s \in {"ok", "error"} : Reply(r, s)
  BY <1>2 DEF Acknowledge
<1>4. /\ req' \in [Request -> RequestState]
      /\ \A q \in Request \ {r} : req'[q] = req[q]
      /\ req'[r].step = s
      /\ req'[r].file = req[r].file
      /\ req'[r].stamp = req[r].stamp
      /\ req'[r].text = "full"
  BY <1>1, <1>3, ReplyFacts
<1>5. BusInv' /\ bus' \in Seq(Call)
  <2>1. DOMAIN bus = 1 .. Len(bus) /\ Len(bus) \in 0 .. Len(bus)
    BY <1>1, LenProperties DEF TypeOK
  <2>2. bus' = [i \in 1 .. Len(bus) |-> IF bus[i].by \in {r} THEN [bus[i] EXCEPT !.by = Nobody] ELSE bus[i]]
    BY <2>1 DEF Timeout
  <2> QED
    BY <1>1, <1>4, <2>1, <2>2, ForgetBus DEF IInv
<1>6. CASE Step(r, "enable") /\ Acknowledge(r)
  BY <1>5, <1>6, AcknowledgeStep DEF Timeout
<1>7. CASE Reply(r, "error") /\ applied' = applied
  <2>1. UNCHANGED <<present, disk, written, archived, last, loaded, applied>>
    BY <1>7 DEF Timeout, files
  <2>2. s \notin Method /\ s # "write"
    BY DEF Method
  <2>3. TypeOK'
    BY <1>1, <1>4, <1>5, <2>1 DEF TypeOK
  <2>4. StampInv'
    BY <1>4, <2>1 DEF IInv, StampInv
  <2>5. TextInv'
    BY <1>4, <2>1, <2>2 DEF IInv, TextInv, AtLeast, Written, Seen
  <2>6. OpInv'
    BY <1>4, <2>2 DEF IInv, OpInv, Method
  <2>7. EmptyIsExplained'
    BY <1>1, <1>4, <2>1 DEF IInv, EmptyIsExplained, Step
  <2> QED
    BY <1>5, <2>3, <2>4, <2>5, <2>6, <2>7 DEF IInv
<1> QED
  BY <1>2, <1>6, <1>7

\* The invariant survives this step: the server dies and comes back.
LEMMA RestartInv ==
  ASSUME IInv, DeployAssumption, Restart
  PROVE  IInv'
<1>1. TypeOK
  BY DEF IInv
<1>2. ASSUME NEW q \in Request
      PROVE  /\ req'[q] \in RequestState /\ req'[q].step = "idle" /\ req'[q].stamp = 0
             /\ req'[q].text = "full"
  <2>1. "idle" \in Where /\ req[q].op \in Op /\ req[q].file \in File
    BY <1>1, RequestFields DEF Done, Where
  <2>2. req'[q] = New(req[q].op, req[q].file, "full", "idle")
    BY DEF Restart
  <2> QED
    BY <2>1, <2>2 DEF New, RequestState, Stamp, Content, DeployAssumption
<1>3. req' \in [Request -> RequestState]
  <2>1. req' = [q \in Request |-> req'[q]]
    BY DEF Restart
  <2> QED
    BY <1>2, <2>1
<1>4. BusInv' /\ bus' \in Seq(Call)
  <2>1. PICK n \in 0 .. Len(bus) : bus' = [i \in 1 .. n |-> [bus[i] EXCEPT !.by = Nobody]]
    BY DEF Restart
  <2>2. n \in Nat /\ bus \in Seq(Call) /\ \A i \in 1 .. n : i \in DOMAIN bus
    BY <1>1, <2>1, LenProperties DEF TypeOK
  <2>3. \A i \in DOMAIN bus : bus[i] \in Call
    BY <2>2, ElementOfSeq, LenProperties
  <2>4. \A i \in 1 .. n : bus'[i] \in Call /\ bus'[i].by = Nobody
    BY <2>1, <2>2, <2>3 DEF Call
  <2>5. bus' \in [1 .. n -> Call]
    BY <2>1, <2>4
  <2> QED
    BY <2>2, <2>4, <2>5, SeqDef DEF BusInv
<1>5. UNCHANGED <<present, disk, written, archived, loaded, applied>>
  BY DEF Restart
<1>6. last' = [f \in File |->
                 IF \E r \in Request : Step(r, "write") /\ req[r].file = f /\ ~req[r].unlinked
                 THEN "cut" ELSE last[f]]
  BY DEF Restart
<1>7. TypeOK'
  <2>1. last' \in [File -> Ending]
    BY <1>1, <1>6 DEF TypeOK, Ending
  <2> QED
    BY <1>1, <1>3, <1>4, <1>5, <2>1 DEF TypeOK
<1>8. StampInv'
  <2>1. 0 <= written
    BY <1>1, DeployAssumption DEF TypeOK, Stamp
  <2> QED
    BY <1>2, <1>5, <2>1 DEF IInv, StampInv
<1>9. TextInv'
  BY <1>2, <1>5 DEF IInv, TextInv, AtLeast, Written, Seen, Method
<1>10. OpInv'
  BY <1>2 DEF OpInv
<1>11. EmptyIsExplained'
  BY <1>1, <1>5, <1>6 DEF IInv, TypeOK, EmptyIsExplained, Step
<1> QED
  BY <1>4, <1>7, <1>8, <1>9, <1>10, <1>11 DEF IInv

\* The invariant survives this step: a backup is made.
LEMMA ExportInv ==
  ASSUME IInv, Export
  PROVE  IInv'
<1>1. UNCHANGED <<present, disk, written, last, loaded, bus, req, applied>>
  BY DEF Export
<1>2. archived' \subseteq File
  BY DEF Export, IInv, TypeOK
<1>3. TypeOK'
  BY <1>1, <1>2 DEF IInv, TypeOK
<1>4. BusInv' /\ StampInv' /\ OpInv'
  BY <1>1 DEF IInv, BusInv, StampInv, OpInv
<1>5. TextInv' /\ EmptyIsExplained'
  BY <1>1 DEF IInv, TextInv, Written, Seen, EmptyIsExplained, Step
<1> QED
  BY <1>3, <1>4, <1>5 DEF IInv

\* The invariant survives every step of the system.
LEMMA NextIInv == ASSUME DeployAssumption PROVE IInv /\ [Next]_vars => IInv'
<1> SUFFICES ASSUME IInv, [Next]_vars PROVE IInv'
  OBVIOUS
<1>1. ASSUME NEW r \in Request, NEW f \in File,
             \/ \E text \in {"full", "empty"} : Open(r, "write", f, text)
             \/ Open(r, "apply", f, "full")
             \/ Delete(r, f) \/ Manage(r, "reload", f) \/ Manage(r, "unit", f)
      PROVE  IInv'
  BY <1>1, TruncateInv, DeleteInv, ManageInv DEF Open, Content
<1>2. ASSUME NEW r \in Request, WriteErr(r) PROVE IInv'
  <2>1. /\ "error" \in Done /\ req[r].file \in File
        /\ last' \in [File -> Ending]
        /\ \A f \in File : last'[f] = last[f] \/ last'[f] # "full"
        /\ req[r].unlinked \/ last'[req[r].file] # "full"
    BY <1>2, RequestFields DEF WriteErr, Done, IInv, TypeOK, Ending
  <2>2. req[r].step \notin Method
    BY <1>2 DEF WriteErr, Step, Method
  <2> QED
    BY <1>2, <2>1, <2>2, ReplyStep DEF WriteErr
<1>3. ASSUME NEW r \in Request, OpenImport(r) \/ NextEntry(r) PROVE IInv'
  <2>1. \A e \in EntryToImport : e.file \in File /\ e.text \in Content
    BY DEF EntryToImport, IInv, TypeOK, Entry, Content
  <2> QED
    BY <1>3, <2>1, TruncateInv DEF OpenImport, NextEntry
<1>4. ASSUME NEW r \in Request, Imported(r) PROVE IInv'
  <2>1. {"ok", "error"} \subseteq Done /\ "next" \notin Method /\ last \in [File -> Ending]
    BY DEF Done, Method, IInv, TypeOK
  <2> QED
    BY <1>4, <2>1, ReplyStep DEF Imported, Step, files
<1>5. ASSUME NEW r \in Request, Answered(r) PROVE IInv'
  <2>1. {"ok", "error"} \subseteq Done /\ {"reload", "start", "enable", "unit"} = Method /\ last \in [File -> Ending]
    BY DEF Done, Method, IInv, TypeOK
  <2>2. CASE ReloadErr(r) \/ StartErr(r)
    BY <2>1, <2>2, ReplyStep DEF ReloadErr, StartErr, Step, files
  <2>3. CASE UnitDone(r)
    <3>1. req[r].answer \in Done
      BY <2>1, <2>3, RequestFields DEF UnitDone, IInv
    <3> QED
      BY <2>1, <2>3, <3>1, ReplyStep DEF UnitDone, Step, files
  <2>4. CASE Reloaded(r)
    <3>1. CASE req[r].op = "apply"
      <4>1. Seen(r) \/ req[r].unlinked
        BY <2>1, <2>4, <3>1 DEF Reloaded, Step, Seen, Written
      <4> QED
        BY <2>1, <2>4, <3>1, <4>1, SendStep DEF Reloaded, Step
    <3>2. CASE req[r].op # "apply"
      BY <2>1, <2>4, <3>2, ReplyStep DEF Reloaded, Step, files
    <3> QED
      BY <3>1, <3>2
  <2>5. CASE Started(r)
    <3>1. req[r].op = "apply"
      BY <2>5 DEF Started, Step, IInv, OpInv
    <3>2. Seen(r) \/ req[r].unlinked
      BY <2>1, <2>5, <3>1 DEF Started, Step, Seen, Written
    <3> QED
      BY <2>1, <2>5, <3>1, <3>2, SendStep DEF Started, Step
  <2>6. CASE Enabled(r)
    <3>1. BusInv'
      <4>1. /\ ~(req[r].step \in Method /\ req[r].answer = "none")
            /\ bus' = bus /\ TypeOK /\ "ok" \in Done /\ Reply(r, "ok")
        BY <2>1, <2>6 DEF Enabled, IInv, Acknowledge
      <4>2. \A q \in Request \ {r} : req'[q] = req[q]
        BY <4>1, ReplyFacts
      <4> QED
        BY <4>1, <4>2, QuietBus DEF IInv
    <3>2. bus' \in Seq(Call)
      BY <2>6 DEF Enabled, IInv, TypeOK
    <3> QED
      BY <2>6, <3>1, <3>2, AcknowledgeStep DEF Enabled
  <2> QED
    BY <1>5, <2>2, <2>3, <2>4, <2>5, <2>6 DEF Answered
<1>6. CASE Systemd
  <2>1. {"reload", "start", "enable", "unit"} = Method
    BY DEF Method
  <2>2. CASE SystemdReload \/ SystemdReloadErr
    BY <2>1, <2>2, SystemdStep DEF SystemdReload, SystemdReloadErr
  <2>3. CASE SystemdStart \/ SystemdStartErr
    BY <2>1, <2>3, SystemdStep DEF SystemdStart, SystemdStartErr
  <2>4. CASE SystemdOther
    <3>1. PICK m \in {"enable", "unit"}, a \in {"ok", "error"} : Take(m, a)
      BY <2>4 DEF SystemdOther
    <3>2. m \in Method /\ m # "reload" /\ loaded' = loaded
      BY <2>1, <2>4 DEF SystemdOther
    <3> QED
      BY <3>1, <3>2, SystemdStep
  <2> QED
    BY <1>6, <2>2, <2>3, <2>4 DEF Systemd
<1>7. CASE UNCHANGED vars
  <2>1. UNCHANGED <<present, disk, written, archived, last, loaded, bus, req, applied>>
    BY <1>7 DEF vars, files
  <2> QED
    BY <2>1 DEF IInv, TypeOK, BusInv, StampInv, TextInv, Written, Seen, OpInv, EmptyIsExplained, Step
<1> QED
  BY <1>1, <1>2, <1>3, <1>4, <1>5, <1>6, <1>7, WriteInv, TimeoutInv, ExportInv, RestartInv DEF Next

\* The inductive invariant holds in every reachable state, however requests, deletions,
\* answers of systemd, deadlines and restarts of the server interleave.
THEOREM Invariance == Spec => []IInv
  BY InitIInv, NextIInv, DeployAssumption, PTL DEF Spec

\* Every reachable state is well-typed, whatever is left on the bus by requests that have
\* given up.
THEOREM TypeCorrect == Spec => []TypeOK
<1>1. IInv => TypeOK
  BY DEF IInv
<1> QED
  BY <1>1, Invariance, PTL

\* ApplyFile has its unit started from the text that it wrote or a later one
\* (file_service.go:78-91).
THEOREM NoStaleStart == Spec => []StartsWhatItWrote
<1>1. IInv => StartsWhatItWrote
  <2> SUFFICES ASSUME IInv, NEW r \in Request,
                      req[r].step \in {"start", "enable"}, ~req[r].unlinked
               PROVE  AtLeast(loaded[req[r].file], req[r].stamp)
    BY DEF StartsWhatItWrote
  <2>1. Seen(r)
    BY DEF IInv, OpInv, Seen, Written, Method
  <2> QED
    BY <2>1 DEF IInv, TextInv
<1> QED
  BY <1>1, Invariance, PTL

\* systemd never falls back behind a text that was acknowledged as applied.
THEOREM NoFallBack == Spec => []AppliedStays
<1>1. IInv => AppliedStays
  BY DEF IInv, TextInv, AppliedStays
<1> QED
  BY <1>1, Invariance, PTL

\* A file that was written with a text has one, until somebody truncates it again: a file
\* without text is being written, or its last write was cut off or was one of an empty text.
THEOREM NoUnexplainedEmptyFile == Spec => []EmptyIsExplained
<1>1. IInv => EmptyIsExplained
  BY DEF IInv
<1> QED
  BY <1>1, Invariance, PTL

=============================================================================
