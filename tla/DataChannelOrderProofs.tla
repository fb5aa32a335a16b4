------------------------ MODULE DataChannelOrderProofs ------------------------
(***************************************************************************)
(* Theorems about the messages of DataChannel: what readers receive is a   *)
(* LossyStream of what arrives.                                            *)
(*                                                                         *)
(* A message moves from the worker to the callbacks posted to the loop, to *)
(* the receive queue, to a reader.  The invariant is that along this way,  *)
(* from a reader backwards, the numbers of the messages increase; items    *)
(* that are no message (other callbacks, close sentinels) count as 0.      *)
(***************************************************************************)
EXTENDS DataChannelProofs

Numbers(events) == [i \in 1..Len(events) |-> events[i].m]

InOrder(q) == \A i, j \in 1..Len(q) : i < j /\ q[i] # 0 /\ q[j] # 0 => q[i] < q[j]
Before(p, q) ==
    \A i \in 1..Len(p), j \in 1..Len(q) : p[i] # 0 /\ q[j] # 0 => p[i] < q[j]

(* ---- Sequences of numbers -------------------------------------------------- *)

\* Every event carries a number.
LEMMA EventNumber == \A e \in Event : e.m \in Nat
BY BoundsAssumption DEF Event

\* The numbers of a sequence of events.
LEMMA NumbersType ==
    ASSUME NEW events \in Seq(Event)
    PROVE  /\ Numbers(events) \in Seq(Nat)
           /\ Len(Numbers(events)) = Len(events)
           /\ \A i \in 1..Len(events) : Numbers(events)[i] = events[i].m
<1> DEFINE n == Len(events)
<1>1. n \in Nat
  BY LenProperties
<1>2. \A i \in 1..n : events[i].m \in Nat
  BY EventNumber, ElementOfSeq
<1>3. Numbers(events) \in [1..n -> Nat]
  BY <1>2 DEF Numbers
<1>4. Numbers(events) \in Seq(Nat)
  BY <1>1, <1>3, SeqDef
<1>5. Len(Numbers(events)) = n
  BY <1>1, <1>3, <1>4, LenProperties
<1> QED
  BY <1>4, <1>5 DEF Numbers

\* Posting an event appends its number.
LEMMA NumbersAppend ==
    ASSUME NEW events \in Seq(Event), NEW e \in Event
    PROVE  Numbers(Append(events, e)) = Append(Numbers(events), e.m)
<1> DEFINE n == Len(events)
           s == Append(events, e)
           t == Append(Numbers(events), e.m)
<1>1. e.m \in Nat /\ n \in Nat
  BY EventNumber, LenProperties
<1>2. /\ s \in Seq(Event) /\ Len(s) = n + 1
      /\ s[n + 1] = e /\ \A i \in 1..n : s[i] = events[i]
  BY AppendProperties
<1>3. Numbers(events) \in Seq(Nat) /\ Len(Numbers(events)) = n
  BY NumbersType
<1>4. /\ t \in Seq(Nat) /\ Len(t) = n + 1
      /\ t[n + 1] = e.m /\ \A i \in 1..n : t[i] = Numbers(events)[i]
  BY <1>1, <1>3, AppendProperties
<1>5. /\ Numbers(s) \in Seq(Nat) /\ Len(Numbers(s)) = n + 1
      /\ \A i \in 1..(n + 1) : Numbers(s)[i] = s[i].m
  BY <1>2, NumbersType
<1>6. \A i \in 1..n : Numbers(events)[i] = events[i].m
  BY NumbersType
<1> HIDE DEF n, s, t
<1>8. ASSUME NEW i \in 1..(n + 1) PROVE Numbers(s)[i] = t[i]
  <2>1. CASE i = n + 1
    BY <1>2, <1>4, <1>5, <2>1
  <2>2. CASE i \in 1..n
    BY <1>2, <1>4, <1>5, <1>6, <2>2
  <2> QED
    BY <1>1, <2>1, <2>2
<1> QED
  BY <1>4, <1>5, <1>8, SeqEqual DEF s, t

\* Taking an event takes its number.
LEMMA NumbersTail ==
    ASSUME NEW events \in Seq(Event), events # <<>>
    PROVE  /\ Numbers(events) # <<>>
           /\ Head(Numbers(events)) = Head(events).m
           /\ Numbers(Tail(events)) = Tail(Numbers(events))
<1> DEFINE n == Len(events)
           s == Tail(events)
           t == Tail(Numbers(events))
<1>1. n \in Nat \ {0}
  BY EmptySeq
<1>2. Numbers(events) \in Seq(Nat) /\ Len(Numbers(events)) = n
  BY NumbersType
<1>3. Numbers(events) # <<>>
  BY <1>1, <1>2, EmptySeq
<1>4. /\ s \in Seq(Event) /\ Len(s) = n - 1
      /\ \A i \in 1..(n - 1) : s[i] = events[i + 1]
  BY HeadTailProperties
<1>5. /\ t \in Seq(Nat) /\ Len(t) = n - 1
      /\ \A i \in 1..(n - 1) : t[i] = Numbers(events)[i + 1]
  BY <1>2, <1>3, HeadTailProperties
<1>6. /\ Numbers(s) \in Seq(Nat) /\ Len(Numbers(s)) = n - 1
      /\ \A i \in 1..(n - 1) : Numbers(s)[i] = s[i].m
  BY <1>4, NumbersType
<1>7. ASSUME NEW i \in 1..(n - 1) PROVE Numbers(s)[i] = t[i]
  <2>1. i + 1 \in 1..n
    BY <1>1
  <2> QED
    BY <1>4, <1>5, <1>6, <2>1, NumbersType
<1>8. Head(Numbers(events)) = Head(events).m
  BY <1>1, <1>2, NumbersType
<1> HIDE DEF n, s, t
<1>9. Numbers(s) = t
  BY <1>5, <1>6, <1>7, SeqEqual
<1> QED
  BY <1>3, <1>8, <1>9 DEF s, t

\* A later number may follow.
LEMMA OrderAppend ==
    ASSUME NEW q \in Seq(Nat), NEW x \in Nat, InOrder(q), Before(q, <<x>>)
    PROVE  InOrder(Append(q, x))
<1> DEFINE n == Len(q)
           s == Append(q, x)
<1>1. /\ n \in Nat /\ Len(s) = n + 1
      /\ s[n + 1] = x /\ \A i \in 1..n : s[i] = q[i]
  BY AppendProperties, LenProperties
<1>2. \A i \in 1..n : q[i] # 0 /\ x # 0 => q[i] < x
  BY DEF Before
<1>3. ASSUME NEW i \in 1..(n + 1), NEW j \in 1..(n + 1), i < j, s[i] # 0, s[j] # 0
      PROVE  s[i] < s[j]
  <2>1. i \in 1..n
    BY <1>1, <1>3
  <2>2. CASE j = n + 1
    BY <1>1, <1>2, <1>3, <2>1, <2>2
  <2>3. CASE j \in 1..n
    BY <1>1, <1>3, <2>1, <2>3 DEF InOrder
  <2> QED
    BY <1>1, <2>2, <2>3
<1> HIDE DEF n, s
<1>4. InOrder(s)
  BY <1>1, <1>3 DEF InOrder
<1> QED
  BY <1>4 DEF s

\* The rest of an ordered queue is ordered, and later than its head.
LEMMA OrderTail ==
    ASSUME NEW q \in Seq(Nat), q # <<>>, InOrder(q)
    PROVE  InOrder(Tail(q)) /\ Before(<<Head(q)>>, Tail(q))
<1>1. /\ Len(q) \in Nat \ {0} /\ Len(Tail(q)) = Len(q) - 1 /\ Head(q) = q[1]
      /\ \A i \in 1..Len(Tail(q)) : Tail(q)[i] = q[i + 1]
  BY HeadTailProperties, EmptySeq
<1>2. \A i \in 1..Len(Tail(q)) : i + 1 \in 1..Len(q)
  BY <1>1
<1>3. InOrder(Tail(q))
  BY <1>1, <1>2 DEF InOrder
<1>4. Before(<<Head(q)>>, Tail(q))
  BY <1>1, <1>2 DEF InOrder, Before
<1> QED
  BY <1>3, <1>4

\* Precedence between sequences, with a number appended to either.
LEMMA BeforeAppend ==
    ASSUME NEW p \in Seq(Nat), NEW q \in Seq(Nat), NEW x \in Nat, Before(p, q)
    PROVE  /\ Before(p, <<x>>) => Before(p, Append(q, x))
           /\ Before(<<x>>, q) => Before(Append(p, x), q)
<1>1. \A s \in Seq(Nat) : \A i \in 1..Len(Append(s, x)) :
         \/ i \in 1..Len(s) /\ Append(s, x)[i] = s[i]
         \/ Append(s, x)[i] = x
  BY AppendProperties, LenProperties
<1>2. ASSUME Before(p, <<x>>) PROVE Before(p, Append(q, x))
  <2>1. \A i \in 1..Len(p) : p[i] # 0 /\ x # 0 => p[i] < x
    BY <1>2 DEF Before
  <2> QED
    BY <1>1, <2>1 DEF Before
<1>3. ASSUME Before(<<x>>, q) PROVE Before(Append(p, x), q)
  <2>1. \A i \in 1..Len(q) : x # 0 /\ q[i] # 0 => x < q[i]
    BY <1>3 DEF Before
  <2> QED
    BY <1>1, <2>1 DEF Before
<1> QED
  BY <1>2, <1>3

\* Precedence between sequences, with the head taken off either.
LEMMA BeforeTail ==
    ASSUME NEW p \in Seq(Nat), NEW q \in Seq(Nat), Before(p, q)
    PROVE  /\ q # <<>> => Before(p, Tail(q)) /\ Before(p, <<Head(q)>>)
           /\ p # <<>> => Before(Tail(p), q) /\ Before(<<Head(p)>>, q)
<1>1. \A s \in Seq(Nat) : s # <<>> =>
         /\ 1 \in 1..Len(s) /\ Head(s) = s[1]
         /\ \A i \in 1..Len(Tail(s)) : i + 1 \in 1..Len(s) /\ Tail(s)[i] = s[i + 1]
  BY HeadTailProperties, EmptySeq
<1> QED
  BY <1>1 DEF Before

\* A number 0, an event without a message or a sentinel, stands anywhere.
LEMMA BeforeZero ==
    ASSUME NEW p \in Seq(Nat)
    PROVE  Before(p, <<0>>) /\ Before(<<0>>, p)
BY DEF Before

(* ---- The flow of messages ---------------------------------------------------- *)

\* Received, queued, posted, at the worker; n have arrived.
Flow(r, q, p, w, n) ==
    /\ r \in Seq(Nat) /\ q \in Seq(Nat) /\ p \in Seq(Nat) /\ w \in Seq(Nat) /\ n \in Nat
    /\ InOrder(q) /\ InOrder(p)
    /\ Before(r, q) /\ Before(r, p) /\ Before(r, w)
    /\ Before(q, p) /\ Before(q, w)
    /\ Before(p, w)
    /\ Before(r, <<n + 1>>) /\ Before(q, <<n + 1>>)
    /\ Before(p, <<n + 1>>) /\ Before(w, <<n + 1>>)

\* x may come between the posted callbacks and the queue.
Between(r, q, x, p, w, n) ==
    /\ x \in Nat
    /\ Before(r, <<x>>) /\ Before(q, <<x>>)
    /\ Before(<<x>>, p) /\ Before(<<x>>, w) /\ Before(<<x>>, <<n + 1>>)

\* So it may be put anywhere in the flow.
LEMMA ZeroBetween ==
    ASSUME NEW r, NEW q, NEW p, NEW w, NEW n, Flow(r, q, p, w, n)
    PROVE  Between(r, q, 0, p, w, n)
BY BeforeZero DEF Flow, Between, Before

\* What lies between the queue and the posted handlers may be queued.
LEMMA PutInQueue ==
    ASSUME NEW r, NEW q, NEW p, NEW w, NEW n, Flow(r, q, p, w, n),
           NEW x, Between(r, q, x, p, w, n)
    PROVE  Flow(r, Append(q, x), p, w, n)
<1>1. Append(q, x) \in Seq(Nat)
  BY AppendProperties DEF Flow, Between
<1>2. <<n + 1>> \in Seq(Nat)
  BY DEF Flow
<1> QED
  BY <1>1, <1>2, OrderAppend, BeforeAppend DEF Flow, Between

\* Dropping the oldest keeps the flow.
LEMMA DropFromQueue ==
    ASSUME NEW r, NEW q, NEW p, NEW w, NEW n, Flow(r, q, p, w, n), q # <<>>
    PROVE  Flow(r, Tail(q), p, w, n)
<1>1. Tail(q) \in Seq(Nat) /\ <<n + 1>> \in Seq(Nat)
  BY HeadTailProperties DEF Flow
<1> QED
  BY <1>1, OrderTail, BeforeTail DEF Flow

\* Receiving the oldest keeps the flow.
LEMMA Receive ==
    ASSUME NEW r, NEW q, NEW p, NEW w, NEW n, Flow(r, q, p, w, n), q # <<>>
    PROVE  Flow(Append(r, Head(q)), Tail(q), p, w, n)
<1>1. Head(q) \in Nat /\ <<n + 1>> \in Seq(Nat)
  BY HeadTailProperties DEF Flow
<1>2. Append(r, Head(q)) \in Seq(Nat)
  BY <1>1, AppendProperties DEF Flow
<1>3. Flow(r, Tail(q), p, w, n)
  BY DropFromQueue
<1>4. /\ Before(<<Head(q)>>, Tail(q)) /\ Before(<<Head(q)>>, p) /\ Before(<<Head(q)>>, w)
      /\ Before(<<Head(q)>>, <<n + 1>>)
  BY <1>1, OrderTail, BeforeTail DEF Flow
<1> QED
  BY <1>1, <1>2, <1>3, <1>4, BeforeAppend DEF Flow

\* Taking the first posted callback leaves its number between the rest and the queue.
LEMMA TakePosted ==
    ASSUME NEW r, NEW q, NEW p, NEW w, NEW n, Flow(r, q, p, w, n), p # <<>>
    PROVE  Flow(r, q, Tail(p), w, n) /\ Between(r, q, Head(p), Tail(p), w, n)
<1>1. Head(p) \in Nat /\ Tail(p) \in Seq(Nat) /\ <<n + 1>> \in Seq(Nat)
  BY HeadTailProperties DEF Flow
<1> QED
  BY <1>1, OrderTail, BeforeTail DEF Flow, Between

\* What comes after all handlers posted and before the worker's callback may be posted.
LEMMA Post ==
    ASSUME NEW r, NEW q, NEW p, NEW w, NEW n, Flow(r, q, p, w, n),
           NEW x \in Nat,
           Before(r, <<x>>), Before(q, <<x>>), Before(p, <<x>>), Before(<<x>>, w),
           Before(<<x>>, <<n + 1>>)
    PROVE  Flow(r, q, Append(p, x), w, n)
<1>1. Append(p, x) \in Seq(Nat) /\ <<n + 1>> \in Seq(Nat)
  BY AppendProperties DEF Flow
<1> QED
  BY <1>1, OrderAppend, BeforeAppend DEF Flow

\* The worker's callback may be dropped, or replaced by one without a message.
LEMMA EmptyWorker ==
    ASSUME NEW r, NEW q, NEW p, NEW w, NEW n, Flow(r, q, p, w, n)
    PROVE  Flow(r, q, p, <<>>, n) /\ Flow(r, q, p, <<0>>, n)
BY BeforeZero DEF Flow, Before

\* The next message that arrives is later than all before it.
LEMMA NextMessage ==
    ASSUME NEW r, NEW q, NEW p, NEW w, NEW n, Flow(r, q, p, w, n)
    PROVE  Flow(r, q, p, <<n + 1>>, n + 1)
<1>1. \A s \in Seq(Nat) : Before(s, <<n + 1>>) => Before(s, <<n + 1 + 1>>)
  <2> SUFFICES ASSUME NEW s \in Seq(Nat), Before(s, <<n + 1>>)
               PROVE  Before(s, <<n + 1 + 1>>)
    OBVIOUS
  <2>1. \A i \in 1..Len(s) : s[i] \in Nat /\ (s[i] # 0 => s[i] < n + 1)
    BY ElementOfSeq DEF Before, Flow
  <2> QED
    BY <2>1 DEF Before, Flow
<1>2. Before(<<n + 1>>, <<n + 1 + 1>>)
  BY DEF Before, Flow
<1>3. n + 1 \in Nat /\ <<n + 1>> \in Seq(Nat)
  BY DEF Flow
<1>4. /\ Before(r, <<n + 1>>) /\ Before(q, <<n + 1>>) /\ Before(p, <<n + 1>>)
      /\ r \in Seq(Nat) /\ q \in Seq(Nat) /\ p \in Seq(Nat)
  BY DEF Flow
<1>5. Before(r, <<n + 1 + 1>>) /\ Before(q, <<n + 1 + 1>>) /\ Before(p, <<n + 1 + 1>>)
  BY <1>1, <1>4
<1> QED
  BY <1>2, <1>3, <1>4, <1>5 DEF Flow

(* ---- The flow in DataChannel ---------------------------------------------------- *)

MessageFlow == Flow(received, recv_queue, Numbers(ready), Numbers(worker), arrived)

\* The numbers of no event and of one.
LEMMA NumbersShort ==
    /\ Numbers(<<>>) = <<>>
    /\ \A e \in Event : Numbers(<<e>>) = <<e.m>>
<1>1. Numbers(<<>>) = <<>>
  BY NumbersType, EmptySeq
<1>2. ASSUME NEW e \in Event PROVE Numbers(<<e>>) = <<e.m>>
  <2>1. <<>> \in Seq(Event)
    OBVIOUS
  <2>2. Numbers(Append(<<>>, e)) = Append(Numbers(<<>>), e.m)
    BY <2>1, NumbersAppend
  <2> QED
    BY <1>1, <2>2, EventNumber
<1> QED
  BY <1>1, <1>2

\* What put_nowait does to the queue, full or not, keeps the flow.
LEMMA FlowPutNowait ==
    ASSUME NEW r, NEW q, NEW p, NEW w, NEW n, Flow(r, q, p, w, n)
    PROVE  Flow(r, PutNowait(q, Sentinel), p, w, n)
BY PutInQueue, ZeroBetween DEF PutNowait, Sentinel

\* So does a put that drops the oldest to make room.
LEMMA FlowDropOldest ==
    ASSUME NEW r, NEW q, NEW p, NEW w, NEW n, Flow(r, q, p, w, n),
           NEW x, Between(r, q, x, p, w, n), q # <<>>
    PROVE  Flow(r, Append(Tail(q), x), p, w, n)
<1>1. Flow(r, Tail(q), p, w, n)
  BY DropFromQueue
<1>2. <<x>> \in Seq(Nat) /\ q \in Seq(Nat)
  BY DEF Between, Flow
<1>3. Between(r, Tail(q), x, p, w, n)
  BY <1>2, BeforeTail DEF Between
<1> QED
  BY <1>1, <1>3, PutInQueue

\* Callbacks of the worker keep the flow.
LEMMA NativeFlow == TypeOK /\ MessageFlow /\ Native => MessageFlow'
<1> SUFFICES ASSUME TypeOK, MessageFlow, Native PROVE MessageFlow'
  OBVIOUS
<1> DEFINE p == Numbers(ready)
           w == Numbers(worker)
<1>1. UNCHANGED <<received, recv_queue>>
  BY DEF Native
<1>2. Flow(received, recv_queue, p, <<>>, arrived)
      /\ Flow(received, recv_queue, p, <<0>>, arrived)
  BY EmptyWorker DEF MessageFlow
<1>3. CASE NativeMessage /\ UNCHANGED ready
  <2>1. [k |-> "message", m |-> arrived + 1] \in Event
    BY <1>3, BoundsAssumption DEF NativeMessage, Event, TypeOK
  <2>2. Numbers(worker') = <<arrived + 1>> /\ arrived' = arrived + 1
    BY <1>3, <2>1, NumbersShort DEF NativeMessage
  <2>3. Flow(received, recv_queue, p, <<arrived + 1>>, arrived + 1)
    BY NextMessage DEF MessageFlow
  <2> QED
    BY <1>1, <1>3, <2>2, <2>3 DEF MessageFlow, Numbers
<1>4. CASE (NativeOpen \/ NativeClose \/ NativeError \/ NativeDrain) /\ UNCHANGED ready
  <2>1. arrived' = arrived
    BY <1>4 DEF NativeOpen, NativeClose, NativeError, NativeDrain
  <2>2. worker' = <<>> \/ \E k \in Kinds : worker' = <<Callback(k)>>
    BY <1>4 DEF NativeOpen, NativeClose, NativeError, NativeDrain, Kinds
  <2>3. Numbers(worker') = <<>> \/ Numbers(worker') = <<0>>
    BY <2>2, NumbersShort, EventType DEF Kinds, Callback
  <2> QED
    BY <1>1, <1>2, <1>4, <2>1, <2>3 DEF MessageFlow, Numbers
<1>5. CASE Dispatch
  <2>1. arrived' = arrived /\ Numbers(worker') = <<>>
    BY <1>5, NumbersShort DEF Dispatch
  <2>2. CASE ready' = ready
    BY <1>1, <1>2, <2>1, <2>2 DEF MessageFlow, Numbers
  <2>3. CASE ready' = Append(ready, Head(worker))
    <3>1. worker # <<>> /\ Head(worker) \in Event
      BY <1>5 DEF Dispatch, TypeOK
    <3> DEFINE x == Head(worker).m
    <3>2. w # <<>> /\ Head(w) = x /\ x \in Nat
      BY <3>1, NumbersTail, EventNumber DEF TypeOK
    <3>3. /\ Before(received, <<x>>) /\ Before(recv_queue, <<x>>)
          /\ Before(p, <<x>>) /\ Before(<<x>>, <<arrived + 1>>)
      <4>1. w \in Seq(Nat) /\ <<arrived + 1>> \in Seq(Nat)
        BY DEF MessageFlow, Flow
      <4> QED
        BY <3>2, <4>1, BeforeTail DEF MessageFlow, Flow
    <3>4. Before(<<x>>, <<>>)
      BY DEF Before
    <3>5. Flow(received, recv_queue, Append(p, x), <<>>, arrived)
      BY <1>2, <3>2, <3>3, <3>4, Post
    <3>6. Numbers(ready') = Append(p, x)
      BY <2>3, <3>1, NumbersAppend DEF TypeOK
    <3> QED
      BY <1>1, <2>1, <3>5, <3>6 DEF MessageFlow, Numbers
  <2> QED
    BY <1>5, <2>2, <2>3 DEF Dispatch
<1> QED
  BY <1>3, <1>4, <1>5 DEF Native, NativeStep

\* The steps of __init__ keep the flow.
LEMMA ConstructFlow == TypeOK /\ MessageFlow /\ Construct => MessageFlow'
<1> SUFFICES ASSUME TypeOK, MessageFlow, Construct PROVE MessageFlow'
  OBVIOUS
<1>1. UNCHANGED <<received, worker, arrived>>
  BY DEF Construct, native
<1>2. CASE UNCHANGED ready
  <2>1. recv_queue' = recv_queue \/ recv_queue' = PutNowait(recv_queue, Sentinel)
    BY DEF Construct, Register, SyncOpen, SyncClosed
  <2> QED
    BY <1>1, <1>2, <2>1, FlowPutNowait DEF MessageFlow, Numbers
<1>3. CASE ready' # ready
  <2>1. PICK k \in Kinds : ready' = Append(ready, Callback(k))
    <3>1. ctor \in 0..4 /\ ready' = Append(ready, Callback(Registration[ctor + 1]))
      BY <1>3 DEF TypeOK, Construct, Register, SyncOpen, SyncClosed
    <3> QED
      BY <3>1, RegistrationType DEF Kinds
  <2>2. UNCHANGED recv_queue
    BY <1>3 DEF Construct, Register, SyncOpen, SyncClosed
  <2>3. Numbers(ready') = Append(Numbers(ready), 0)
    BY <2>1, NumbersAppend, EventType DEF Kinds, Callback, TypeOK
  <2>4. Flow(received, recv_queue, Append(Numbers(ready), 0), Numbers(worker), arrived)
    <3>1. \A s \in Seq(Nat) : Before(s, <<0>>) /\ Before(<<0>>, s)
      BY BeforeZero
    <3>2. <<arrived + 1>> \in Seq(Nat)
      BY DEF MessageFlow, Flow
    <3> QED
      BY <3>1, <3>2, Post DEF MessageFlow, Flow
  <2> QED
    BY <1>1, <2>2, <2>3, <2>4 DEF MessageFlow, Numbers
<1> QED
  BY <1>2, <1>3

\* The handlers keep the flow: the message handler drops the oldest.
LEMMA HandleFlow == TypeOK /\ MessageFlow /\ Handle => MessageFlow'
<1> SUFFICES ASSUME TypeOK, MessageFlow, Handle PROVE MessageFlow'
  OBVIOUS
<1> DEFINE e == Head(ready)
           p == Tail(Numbers(ready))
           w == Numbers(worker)
<1>1. UNCHANGED <<received, worker, arrived>> /\ ready # <<>> /\ ready' = Tail(ready)
  BY DEF Handle, native
<1>2. Numbers(ready') = p /\ Numbers(ready) # <<>> /\ Head(Numbers(ready)) = e.m
  BY <1>1, NumbersTail DEF TypeOK
<1>3. /\ Flow(received, recv_queue, p, w, arrived)
      /\ Between(received, recv_queue, e.m, p, w, arrived)
  BY <1>2, TakePosted DEF MessageFlow
<1>4. \/ recv_queue' = recv_queue
      \/ recv_queue' = PutNowait(recv_queue, Sentinel)
      \/ recv_queue' = Append(recv_queue, e.m)
      \/ recv_queue # <<>> /\ recv_queue' = Append(Tail(recv_queue), e.m)
  BY RecvBufferAssumption DEF Handle, HandleOpen, HandleClosed, HandleError, HandleMessage,
                              HandleLow
<1>5. Flow(received, recv_queue', p, w, arrived)
  BY <1>3, <1>4, FlowPutNowait, PutInQueue, FlowDropOldest
<1> QED
  BY <1>1, <1>2, <1>5 DEF MessageFlow, Numbers

\* recv() keeps the flow, also when it moves a sentinel to the end.
LEMMA RecvFlow == TypeOK /\ MessageFlow /\ (\E r \in Receivers : Recv(r)) => MessageFlow'
<1> SUFFICES ASSUME TypeOK, MessageFlow, NEW c \in Receivers, Recv(c) PROVE MessageFlow'
  OBVIOUS
<1>1. UNCHANGED <<ready, worker, arrived>>
  BY DEF Recv, native
<1>2. Flow(received', recv_queue', Numbers(ready), Numbers(worker), arrived)
  <2>1. CASE RecvMessage(c)
    BY <2>1, Receive DEF RecvMessage, MessageFlow
  <2>2. CASE RecvClosed(c)
    BY <2>2, FlowDropOldest, ZeroBetween DEF RecvClosed, MessageFlow, Sentinel
  <2>3. CASE RecvBlock(c)
    BY <2>3 DEF RecvBlock, MessageFlow
  <2> QED
    BY <2>1, <2>2, <2>3 DEF Recv
<1> QED
  BY <1>1, <1>2 DEF MessageFlow, Numbers

\* The steps that move no message: the queue is left alone or given a sentinel.
LEMMA OtherFlow ==
    ASSUME MessageFlow, [Next]_vars, ~Native, ~Construct, ~Handle,
           \A r \in Receivers : ~Recv(r)
    PROVE  MessageFlow' /\ UNCHANGED <<arrived, received>>
<1>1. UNCHANGED <<received, ready, worker, arrived>>
  BY DEF Next, Send, SetThreshold, Abandon, Lifecycle, Teardown, PcDestroy, native, vars
<1>2. recv_queue' = recv_queue \/ recv_queue' = PutNowait(recv_queue, Sentinel)
  <2>1. CASE Lifecycle
    BY <2>1 DEF Lifecycle, Close, BeginClose, SpawnTask, FinishTask, Await, Return,
                CancelWait, AcloseFirst, AcloseAgain
  <2>2. CASE ~Lifecycle
    BY <2>2 DEF Next, Send, SetThreshold, Abandon, Teardown, PcDestroy, Destroy,
                HandleClosed, vars
  <2> QED
    BY <2>1, <2>2
<1> QED
  BY <1>1, <1>2, FlowPutNowait DEF MessageFlow, Numbers

\* Messages flow in order through the worker, the loop and the queue to the readers.
LEMMA FlowInv == Spec => []MessageFlow
<1>1. Init => MessageFlow
  <2> SUFFICES ASSUME Init PROVE MessageFlow
    OBVIOUS
  <2>1. Numbers(ready) = <<>> /\ Numbers(worker) = <<>>
    BY NumbersShort DEF Init
  <2>2. Flow(<<>>, <<>>, <<>>, <<>>, 0)
    <3>1. InOrder(<<>>) /\ \A q : Before(<<>>, q)
      BY DEF InOrder, Before
    <3> QED
      BY <3>1 DEF Flow
  <2> QED
    BY <2>1, <2>2 DEF Init, MessageFlow
<1>2. TypeOK /\ MessageFlow /\ [Next]_vars => MessageFlow'
  BY NativeFlow, ConstructFlow, HandleFlow, RecvFlow, OtherFlow
<1> QED
  BY <1>1, <1>2, TypeCorrect, PTL DEF Spec

\* Readers get a lossy stream, in the order of arrival: DataChannel implements
\* LossyStream.  An arrival at the worker is an Arrive, a message that recv() returns is
\* a Deliver, and no other step, a drop from the queue or a move of the close sentinel
\* included, shows to the readers.
THEOREM DeliversInOrder == Spec => StreamSpec
<1>1. Init => Stream!Init
  BY DEF Init, Stream!Init
<1>2. TypeOK /\ MessageFlow /\ [Next]_vars => [Stream!Next]_<<arrived, received>>
  <2> SUFFICES ASSUME TypeOK, MessageFlow, [Next]_vars
               PROVE  Stream!Next \/ UNCHANGED <<arrived, received>>
    OBVIOUS
  <2>1. CASE Native
    BY <2>1 DEF Native, NativeStep, NativeOpen, NativeClose, NativeError, NativeMessage,
                NativeDrain, Dispatch, Stream!Next, Stream!Arrive
  <2>2. CASE Construct \/ Handle
    BY <2>2 DEF Construct, Handle, native
  <2>3. ASSUME NEW r \in Receivers, Recv(r)
        PROVE  Stream!Next \/ UNCHANGED <<arrived, received>>
    <3>1. UNCHANGED arrived
      BY <2>3 DEF Recv, native
    <3>2. CASE RecvMessage(r)
      <4> DEFINE m == Head(recv_queue)
      <4>1. received' = Append(received, m) /\ recv_queue # <<>> /\ m # 0 /\ m \in Messages
        BY <3>2 DEF RecvMessage, Sentinel, TypeOK
      <4>2. /\ Before(received, <<m>>) /\ Before(<<m>>, <<arrived + 1>>)
        <5>1. <<arrived + 1>> \in Seq(Nat)
          BY DEF MessageFlow, Flow
        <5> QED
          BY <4>1, <5>1, BeforeTail DEF MessageFlow, Flow
      <4>3. m \in 1..arrived
        BY <4>1, <4>2, BoundsAssumption DEF Before, TypeOK, Messages
      <4>4. \A i \in 1..Len(received) : received[i] < m
        <5>1. \A i \in 1..Len(received) : received[i] \in Messages
          BY ElementOfSeq DEF TypeOK
        <5> QED
          BY <4>1, <4>2, <5>1 DEF Before, Messages
      <4>5. Stream!Deliver
        BY <3>1, <4>1, <4>3, <4>4 DEF Stream!Deliver
      <4> QED
        BY <4>5 DEF Stream!Next
    <3>3. CASE ~RecvMessage(r)
      BY <2>3, <3>1, <3>3 DEF Recv, RecvClosed, RecvBlock
    <3> QED
      BY <3>2, <3>3
  <2>4. CASE ~Native /\ ~Construct /\ ~Handle /\ \A r \in Receivers : ~Recv(r)
    BY <2>4, OtherFlow
  <2> QED
    BY <2>1, <2>2, <2>3, <2>4
<1> QED
  BY <1>1, <1>2, TypeCorrect, FlowInv, PTL DEF Spec, StreamSpec, Stream!Spec
=============================================================================
