------------------------ MODULE DataChannelQueueProofs ------------------------
(***************************************************************************)
(* Theorems about the receive queue of DataChannel: the newest message is  *)
(* kept, any other is lost only as the oldest of a full queue or on a      *)
(* destroyed channel, and the readers are woken when it is destroyed.  The *)
(* first and the last rest on the order of the messages                    *)
(* (DataChannelOrderProofs): a reader or a full queue removes the newest   *)
(* message only when no other is left, and the messages in the queue are   *)
(* no more than those that have arrived.                                   *)
(***************************************************************************)
EXTENDS DataChannelOrderProofs, FiniteSetTheorems

(* ---- The newest message ------------------------------------------------------ *)

Message(e, n) == e.k = "message" /\ e.m = n

\* Callbacks that carry a message have its number.
Numbered ==
    /\ \A i \in 1..Len(ready) : ready[i].k = "message" => ready[i].m # 0
    /\ worker # <<>> /\ Head(worker).k = "message" => Head(worker).m # 0

LEMMA NumberedInv == Spec => []Numbered
<1>1. Init => Numbered
  BY DEF Init, Numbered
<1>2. TypeOK /\ Numbered /\ [Next]_vars => Numbered'
  <2> SUFFICES ASSUME TypeOK, Numbered, [Next]_vars PROVE Numbered'
    OBVIOUS
  <2>1. ASSUME NEW e \in Event, e.k = "message" => e.m # 0,
               ready' = ready \/ ready' = Append(ready, e)
        PROVE  \A i \in 1..Len(ready') : ready'[i].k = "message" => ready'[i].m # 0
    <3>1. CASE ready' = Append(ready, e)
      <4>1. /\ Len(ready) \in Nat /\ Len(ready') = Len(ready) + 1
            /\ \A i \in 1..Len(ready) : ready'[i] = ready[i]
            /\ ready'[Len(ready) + 1] = e
        BY <3>1, AppendProperties, LenProperties DEF TypeOK
      <4>2. \A i \in 1..Len(ready') : i \in 1..Len(ready) \/ i = Len(ready) + 1
        BY <4>1
      <4> QED
        BY <2>1, <4>1, <4>2 DEF Numbered
    <3> QED
      BY <2>1, <3>1 DEF Numbered
  <2>2. CASE Native
    <3>1. CASE Dispatch
      <4>1. Head(worker) \in Event /\ worker' = <<>>
        BY <3>1 DEF Dispatch, TypeOK
      <4> QED
        BY <2>1, <3>1, <4>1 DEF Dispatch, Numbered
    <3>2. CASE NativeMessage /\ UNCHANGED ready
      <4>1. worker' = <<[k |-> "message", m |-> arrived + 1]>> /\ arrived + 1 # 0
        BY <3>2 DEF NativeMessage, TypeOK
      <4> QED
        BY <3>2, <4>1 DEF Numbered
    <3>3. CASE (NativeOpen \/ NativeClose \/ NativeError \/ NativeDrain) /\ UNCHANGED ready
      <4>1. worker' = <<>> \/ \E k \in Kinds \ {"message"} : worker' = <<Callback(k)>>
        BY <3>3 DEF NativeOpen, NativeClose, NativeError, NativeDrain, Kinds
      <4> QED
        BY <3>3, <4>1 DEF Numbered, Callback
    <3> QED
      BY <2>2, <3>1, <3>2, <3>3 DEF Native, NativeStep
  <2>3. CASE Construct
    <3>1. worker' = worker
      BY <2>3 DEF Construct, native
    <3>2. ready' = ready \/ ready' = Append(ready, Callback("open"))
                         \/ ready' = Append(ready, Callback("closed"))
      BY <2>3 DEF Construct, Register, SyncOpen, SyncClosed, Registration
    <3>3. \A k \in {"open", "closed"} : Callback(k) \in Event /\ Callback(k).k # "message"
      BY EventType DEF Callback
    <3> QED
      BY <2>1, <3>1, <3>2, <3>3 DEF Numbered
  <2>4. CASE Handle
    <3>1. worker' = worker /\ ready' = Tail(ready) /\ ready # <<>>
      BY <2>4 DEF Handle, native
    <3>2. \A i \in 1..Len(ready') : i + 1 \in 1..Len(ready) /\ ready'[i] = ready[i + 1]
      BY <3>1 DEF TypeOK
    <3> QED
      BY <3>1, <3>2 DEF Numbered
  <2>5. CASE ~Native /\ ~Construct /\ ~Handle
    BY <2>5 DEF Numbered, Next, Recv, Send, SetThreshold, Abandon, Lifecycle, Teardown,
                PcDestroy, native, vars
  <2> QED
    BY <2>2, <2>3, <2>4, <2>5
<1> QED
  BY <1>1, <1>2, TypeCorrect, PTL DEF Spec

\* Message n is with the worker, or posted to the loop.
OnItsWay(n) ==
    \/ worker # <<>> /\ Message(Head(worker), n) /\ Registered("message")
    \/ \E i \in 1..Len(ready) : Message(ready[i], n)

Newest ==
    ~destroyed /\ arrived > 0 =>
        \/ received # <<>> /\ received[Len(received)] = arrived
        \/ InQueue(arrived) \/ OnItsWay(arrived)

\* A put in the queue, whether or not it has room, leaves what is there.
LEMMA PutKeeps ==
    ASSUME TypeOK, NEW x, InQueue(x), NEW y \in Messages \cup {Sentinel},
           recv_queue' = recv_queue \/ recv_queue' = Append(recv_queue, y)
    PROVE  InQueue(x)'
<1> PICK i \in 1..Len(recv_queue) : recv_queue[i] = x
  BY DEF InQueue
<1>1. i \in 1..Len(recv_queue') /\ recv_queue'[i] = x
  <2>1. CASE recv_queue' = Append(recv_queue, y)
    BY <2>1, AppendProperties, LenProperties DEF TypeOK
  <2> QED
    BY <2>1
<1> QED
  BY <1>1 DEF InQueue

\* Taking the head leaves what is behind it.
LEMMA TailKeeps ==
    ASSUME TypeOK, NEW x, InQueue(x), recv_queue # <<>>, Head(recv_queue) # x,
           NEW y \in Messages \cup {Sentinel},
           recv_queue' = Tail(recv_queue) \/ recv_queue' = Append(Tail(recv_queue), y)
    PROVE  InQueue(x)'
<1> PICK i \in 1..Len(recv_queue) : recv_queue[i] = x
  BY DEF InQueue
<1>1. i # 1
  BY DEF TypeOK
<1>2. i - 1 \in 1..Len(Tail(recv_queue)) /\ Tail(recv_queue)[i - 1] = x
  BY <1>1 DEF TypeOK
<1>3. i - 1 \in 1..Len(recv_queue') /\ recv_queue'[i - 1] = x
  <2>1. Tail(recv_queue) \in Seq(Messages \cup {Sentinel})
    BY HeadTailProperties DEF TypeOK
  <2>2. CASE recv_queue' = Append(Tail(recv_queue), y)
    BY <1>2, <2>1, <2>2, AppendProperties, LenProperties
  <2> QED
    BY <1>2, <2>2
<1> QED
  BY <1>3 DEF InQueue

\* The newest message has no message behind it, in the queue or on its way.
LEMMA NewestIsLast ==
    ASSUME TypeOK, MessageFlow, arrived > 0
    PROVE  /\ \A i \in 1..Len(recv_queue) : recv_queue[i] <= arrived
           /\ \A i \in 1..Len(received) : received[i] = arrived =>
                 \A j \in 1..Len(recv_queue) : recv_queue[j] = 0
           /\ InQueue(arrived) /\ ready # <<>> => Head(ready).m = 0
<1>1. arrived \in Nat /\ received \in Seq(Nat) /\ recv_queue \in Seq(Nat)
  BY DEF MessageFlow, Flow
<1>2. \A i \in 1..Len(recv_queue) : recv_queue[i] \in Nat /\ recv_queue[i] <= arrived
  <2>1. Before(recv_queue, <<arrived + 1>>) /\ 1 \in 1..Len(<<arrived + 1>>)
    BY DEF MessageFlow, Flow
  <2> TAKE i \in 1..Len(recv_queue)
  <2>2. recv_queue[i] \in Nat
    BY <1>1, ElementOfSeq
  <2>3. recv_queue[i] # 0 => recv_queue[i] < arrived + 1
    BY <1>1, <2>1 DEF Before
  <2> QED
    BY <1>1, <2>2, <2>3
<1>3. ASSUME NEW i \in 1..Len(received), received[i] = arrived,
             NEW j \in 1..Len(recv_queue)
      PROVE  recv_queue[j] = 0
  <2>1. received[i] # 0 /\ recv_queue[j] # 0 => received[i] < recv_queue[j]
    BY <1>3 DEF MessageFlow, Flow, Before
  <2>2. recv_queue[j] \in Nat /\ recv_queue[j] <= arrived
    BY <1>2
  <2> QED
    BY <1>1, <1>3, <2>1, <2>2
<1>4. ASSUME InQueue(arrived), ready # <<>> PROVE Head(ready).m = 0
  <2> DEFINE p == Numbers(ready)
             m == Head(ready).m
  <2>1. p # <<>> /\ Head(p) = m
    BY <1>4, NumbersTail DEF TypeOK
  <2>2. Between(received, recv_queue, m, Tail(p), Numbers(worker), arrived)
    BY <2>1, TakePosted DEF MessageFlow
  <2>3. m \in Nat /\ (m # 0 => m < arrived + 1)
    BY <1>1, <2>2 DEF Between, Before
  <2>4. m # 0 => arrived < m
    <3>1. PICK i \in 1..Len(recv_queue) : recv_queue[i] = arrived
      BY <1>4 DEF InQueue
    <3>2. Before(recv_queue, <<m>>) /\ 1 \in 1..Len(<<m>>) /\ <<m>>[1] = m
      BY <2>2 DEF Between
    <3> HIDE DEF m
    <3> QED
      BY <3>1, <3>2 DEF Before
  <2> HIDE DEF m
  <2>5. m = 0
    BY <1>1, <2>3, <2>4
  <2> QED
    BY <2>5 DEF m
<1> QED
  BY <1>2, <1>3, <1>4

\* A message that arrives is the newest, and goes from the worker to the loop.
LEMMA NativeNewest == TypeOK /\ Newest /\ Native => Newest'
<1> SUFFICES ASSUME TypeOK, Newest, Native PROVE Newest'
  OBVIOUS
<1>1. UNCHANGED <<received, recv_queue, destroyed, ctor>>
  BY DEF Native, lifecycle
<1>2. CASE NativeMessage
  <2>1. worker' # <<>> /\ Message(Head(worker'), arrived') /\ Registered("message")
    BY <1>2 DEF NativeMessage, Message
  <2> QED
    BY <1>1, <2>1 DEF Newest, OnItsWay, Registered
<1>3. CASE (NativeOpen \/ NativeClose \/ NativeError \/ NativeDrain) /\ UNCHANGED ready
  <2>1. worker = <<>> /\ arrived' = arrived
    BY <1>3 DEF NativeOpen, NativeClose, NativeError, NativeDrain, WorkerIdle
  <2> QED
    BY <1>1, <1>3, <2>1 DEF Newest, OnItsWay, InQueue
<1>4. CASE Dispatch
  <2> SUFFICES ASSUME OnItsWay(arrived), ~destroyed PROVE OnItsWay(arrived)'
    BY <1>1, <1>4 DEF Newest, InQueue, Dispatch
  <2>1. CASE worker # <<>> /\ Message(Head(worker), arrived) /\ Registered("message")
    <3>1. ready' = Append(ready, Head(worker)) /\ arrived' = arrived
      BY <1>4, <2>1 DEF Dispatch, Message
    <3>2. Len(ready') \in 1..Len(ready') /\ ready'[Len(ready')] = Head(worker)
      BY <2>1, <3>1 DEF TypeOK
    <3> QED
      BY <2>1, <3>1, <3>2 DEF OnItsWay
  <2>2. ASSUME NEW i \in 1..Len(ready), Message(ready[i], arrived)
        PROVE  OnItsWay(arrived)'
    <3>1. i \in 1..Len(ready') /\ ready'[i] = ready[i] /\ arrived' = arrived
      BY <1>4 DEF Dispatch, TypeOK
    <3> QED
      BY <2>2, <3>1 DEF OnItsWay
  <2> QED
    BY <2>1, <2>2 DEF OnItsWay
<1> QED
  BY <1>2, <1>3, <1>4 DEF Native, NativeStep

\* __init__ only adds to what is there.
LEMMA ConstructNewest == TypeOK /\ Newest /\ Construct => Newest'
<1> SUFFICES ASSUME TypeOK, Newest, Construct PROVE Newest'
  OBVIOUS
<1>1. UNCHANGED <<received, worker, arrived, destroyed>>
  BY DEF Construct, native, lifecycle
<1>2. recv_queue' = recv_queue \/ recv_queue' = Append(recv_queue, Sentinel)
  BY DEF Construct, Register, SyncOpen, SyncClosed, PutNowait
<1>3. \A i \in 1..Len(ready) : i \in 1..Len(ready') /\ ready'[i] = ready[i]
  <2>1. ready' = ready \/ \E e : ready' = Append(ready, e)
    BY DEF Construct, Register, SyncOpen, SyncClosed
  <2> QED
    BY <2>1 DEF TypeOK
<1>4. Registered("message") => Registered("message")'
  BY RegisteredStays DEF Next
<1>5. OnItsWay(arrived) => OnItsWay(arrived)'
  BY <1>1, <1>3, <1>4 DEF OnItsWay
<1>6. InQueue(arrived) => InQueue(arrived)'
  BY <1>1, <1>2, PutKeeps DEF InQueue, Sentinel
<1> QED
  BY <1>1, <1>5, <1>6 DEF Newest

\* The handler of a message puts it in the queue, and drops none that is newer.
LEMMA HandleNewest == TypeOK /\ MessageFlow /\ Numbered /\ Newest /\ Handle => Newest'
<1> SUFFICES ASSUME TypeOK, MessageFlow, Numbered, Newest, Handle, ~destroyed, arrived > 0
             PROVE  Newest'
  BY DEF Handle, native, lifecycle, Newest
<1> DEFINE e == Head(ready)
<1>1. UNCHANGED <<received, worker, arrived, destroyed, ctor>>
      /\ ready # <<>> /\ ready' = Tail(ready)
  BY DEF Handle, native, lifecycle
<1>2. e = ready[1] /\ 1 \in 1..Len(ready)
  BY <1>1 DEF TypeOK
<1>3. CASE e.k = "message"
  <2>1. /\ recv_queue' \in Seq(Messages \cup {Sentinel})
        /\ Len(recv_queue') \in 1..Len(recv_queue') /\ recv_queue'[Len(recv_queue')] = e.m
    <3>1. e.m \in Messages
      <4>1. ready[1] \in Event
        BY <1>2, ElementOfSeq DEF TypeOK
      <4>2. ready[1].m \in 0..MaxMessages /\ ready[1].m # 0
        BY <1>2, <1>3, <4>1 DEF Numbered, Event
      <4> QED
        BY <1>2, <4>2, BoundsAssumption DEF Messages
    <3>2. PICK q \in Seq(Messages \cup {Sentinel}) : recv_queue' = Append(q, e.m)
      <4>1. recv_queue \in Seq(Messages \cup {Sentinel}) /\ Len(recv_queue) \in Nat
        BY LenProperties DEF TypeOK
      <4>2. HandleMessage(e.m)
        BY <1>3 DEF Handle
      <4>3. CASE Len(recv_queue) < RecvBuffer
        BY <4>1, <4>2, <4>3 DEF HandleMessage
      <4>4. CASE ~(Len(recv_queue) < RecvBuffer)
        <5>1. recv_queue # <<>>
          BY <4>1, <4>4, RecvBufferAssumption
        <5> QED
          BY <4>1, <4>2, <4>4, <5>1, HeadTailProperties DEF HandleMessage
      <4> QED
        BY <4>3, <4>4
    <3> HIDE DEF e
    <3> QED
      BY <3>1, <3>2, AppendProperties, LenProperties
  <2>2. e.m # 0
    BY <1>2, <1>3 DEF Numbered
  <2>3. ~InQueue(arrived)
    BY <1>1, <2>2, NewestIsLast
  <2>4. CASE OnItsWay(arrived)
    <3>1. CASE e.m = arrived
      BY <1>1, <2>1, <3>1 DEF Newest, InQueue
    <3>2. CASE e.m # arrived
      <4>1. OnItsWay(arrived)'
        <5>1. ASSUME NEW i \in 1..Len(ready), Message(ready[i], arrived)
              PROVE  i - 1 \in 1..Len(ready') /\ ready'[i - 1] = ready[i]
          <6>1. i # 1
            BY <1>2, <3>2, <5>1 DEF Message
          <6> QED
            BY <1>1, <6>1 DEF TypeOK
        <5> QED
          BY <1>1, <2>4, <5>1 DEF OnItsWay, Registered
      <4> QED
        BY <4>1 DEF Newest
    <3> QED
      BY <3>1, <3>2
  <2> QED
    BY <1>1, <2>3, <2>4 DEF Newest
<1>4. CASE e.k # "message"
  <2>1. recv_queue' = recv_queue \/ recv_queue' = Append(recv_queue, Sentinel)
    BY <1>4 DEF Handle, HandleOpen, HandleClosed, HandleError, HandleLow, PutNowait
  <2>2. InQueue(arrived) => InQueue(arrived)'
    BY <1>1, <2>1, PutKeeps DEF InQueue
  <2>3. OnItsWay(arrived) => OnItsWay(arrived)'
    <3>1. ASSUME NEW i \in 1..Len(ready), Message(ready[i], arrived)
          PROVE  i - 1 \in 1..Len(ready') /\ ready'[i - 1] = ready[i]
      <4>1. i # 1
        BY <1>2, <1>4, <3>1 DEF Message
      <4> QED
        BY <1>1, <4>1 DEF TypeOK
    <3> QED
      BY <1>1, <3>1 DEF OnItsWay, Registered
  <2> QED
    BY <1>1, <2>2, <2>3 DEF Newest
<1> QED
  BY <1>3, <1>4

\* A reader takes the newest message, or leaves it where it is.
LEMMA RecvNewest ==
    TypeOK /\ MessageFlow /\ Newest /\ (\E r \in Receivers : Recv(r)) => Newest'
<1> SUFFICES ASSUME TypeOK, MessageFlow, Newest, NEW r \in Receivers, Recv(r),
                    ~destroyed, arrived > 0
             PROVE  Newest'
  BY DEF Recv, native, lifecycle, Newest
<1>1. UNCHANGED <<ready, worker, arrived, destroyed, ctor>>
  BY DEF Recv, native, lifecycle
<1>2. OnItsWay(arrived) => OnItsWay(arrived)'
  BY <1>1 DEF OnItsWay, Registered
<1>3. CASE RecvMessage(r)
  <2> DEFINE m == Head(recv_queue)
  <2>1. /\ recv_queue # <<>> /\ m # 0 /\ m \in Messages
        /\ received' = Append(received, m) /\ recv_queue' = Tail(recv_queue)
    BY <1>3 DEF RecvMessage, Sentinel, TypeOK
  <2>2. received' # <<>> /\ received'[Len(received')] = m
    BY <2>1 DEF TypeOK
  <2>3. CASE m = arrived
    BY <1>1, <2>2, <2>3 DEF Newest
  <2>4. CASE m # arrived
    <3>1. InQueue(arrived) => InQueue(arrived)'
      BY <1>1, <2>1, <2>4, TailKeeps DEF InQueue
    <3>2. m = recv_queue[1] /\ 1 \in 1..Len(recv_queue)
      BY <2>1 DEF TypeOK
    <3>3. ~(received # <<>> /\ received[Len(received)] = arrived)
      <4>1. received # <<>> => Len(received) \in 1..Len(received)
        BY DEF TypeOK
      <4> QED
        BY <2>1, <3>2, <4>1, NewestIsLast
    <3> QED
      BY <1>1, <1>2, <3>1, <3>3 DEF Newest
  <2> QED
    BY <2>3, <2>4
<1>4. CASE RecvClosed(r)
  <2>1. InQueue(arrived) => InQueue(arrived)'
    <3>1. /\ recv_queue # <<>> /\ Head(recv_queue) # arrived
          /\ recv_queue' = Append(Tail(recv_queue), Sentinel)
      BY <1>4 DEF RecvClosed, Sentinel
    <3> QED
      BY <1>1, <3>1, TailKeeps DEF InQueue
  <2> QED
    BY <1>1, <1>2, <1>4, <2>1 DEF Newest, RecvClosed
<1>5. CASE RecvBlock(r)
  BY <1>1, <1>2, <1>5 DEF Newest, RecvBlock, InQueue
<1> QED
  BY <1>3, <1>4, <1>5 DEF Recv

\* The other steps leave the messages alone.
LEMMA OtherNewest ==
    ASSUME TypeOK, Newest, [Next]_vars, ~Native, ~Construct, ~Handle,
           \A r \in Receivers : ~Recv(r)
    PROVE  Newest'
<1>1. /\ UNCHANGED <<received, ready, worker, arrived, ctor>>
      /\ destroyed' = destroyed \/ destroyed'
  BY DEF Next, Send, SetThreshold, Abandon, Lifecycle, Teardown, PcDestroy, Destroy, native,
         lifecycle, vars
<1>2. recv_queue' = recv_queue \/ recv_queue' = Append(recv_queue, Sentinel)
  <2>1. CASE Lifecycle
    BY <2>1 DEF Lifecycle, Close, BeginClose, SpawnTask, FinishTask, Await, Return,
                CancelWait, AcloseFirst, AcloseAgain, PutNowait
  <2>2. CASE ~Lifecycle
    BY <2>2 DEF Next, Send, SetThreshold, Abandon, Teardown, PcDestroy, Destroy,
                HandleClosed, PutNowait, vars
  <2> QED
    BY <2>1, <2>2
<1>3. InQueue(arrived) => InQueue(arrived)'
  BY <1>1, <1>2, PutKeeps DEF InQueue
<1>4. OnItsWay(arrived) => OnItsWay(arrived)'
  BY <1>1 DEF OnItsWay, Registered
<1> QED
  BY <1>1, <1>3, <1>4 DEF Newest

\* A full queue drops an older message, never the newest, however callbacks, readers and
\* close sentinels come together, for any size of the queue.
THEOREM NewestIsKept == Spec => []NewestKept
<1>1. Init => Newest
  BY DEF Init, Newest
<1>2. TypeOK /\ MessageFlow /\ Numbered /\ Newest /\ [Next]_vars => Newest'
  BY NativeNewest, ConstructNewest, HandleNewest, RecvNewest, OtherNewest
<1>3. TypeOK /\ Newest => NewestKept
  BY DEF Newest, NewestKept, OnItsWay, Message, Pending
<1> QED
  BY <1>1, <1>2, <1>3, TypeCorrect, FlowInv, NumberedInv, PTL DEF Spec

(* ---- Every message ----------------------------------------------------------------- *)

Got(n) == \E i \in 1..Len(received) : received[i] = n

\* Message n has been received, is queued, or is on its way.
Kept(n) == Got(n) \/ InQueue(n) \/ OnItsWay(n)

\* It is about to be dropped: it is the oldest in a full queue and another message is put
\* there, or the worker brings it for a channel that has been destroyed.
Dropped(n) ==
    \/ /\ Len(recv_queue) = RecvBuffer /\ Head(recv_queue) = n
       /\ ready # <<>> /\ Head(ready).k = "message"
    \/ destroyed /\ worker # <<>> /\ Message(Head(worker), n)

\* What the worker hands over is kept, and so is what arrives.
LEMMA NativeKeeps ==
    ASSUME TypeOK, Native, NEW n \in 1..arrived', n > arrived \/ Kept(n), ~Dropped(n)
    PROVE  Kept(n)'
<1>1. UNCHANGED <<received, recv_queue, destroyed, ctor>>
  BY DEF Native, lifecycle
<1>2. Got(n) \/ InQueue(n) => Kept(n)'
  BY <1>1 DEF Kept, Got, InQueue
<1>3. CASE NativeMessage /\ UNCHANGED ready
  <2>1. CASE n > arrived
    <3>1. n = arrived + 1
      BY <1>3, <2>1 DEF NativeMessage, TypeOK
    <3>2. worker' # <<>> /\ Message(Head(worker'), n) /\ Registered("message")'
      BY <1>1, <1>3, <3>1 DEF NativeMessage, Message, Registered
    <3> QED
      BY <3>2 DEF Kept, OnItsWay
  <2>2. CASE Kept(n)
    <3>1. worker = <<>>
      BY <1>3 DEF NativeMessage, WorkerIdle
    <3> QED
      BY <1>2, <1>3, <2>2, <3>1 DEF Kept, OnItsWay
  <2> QED
    BY <2>1, <2>2
<1>4. CASE (NativeOpen \/ NativeClose \/ NativeError \/ NativeDrain) /\ UNCHANGED ready
  <2>1. worker = <<>> /\ arrived' = arrived
    BY <1>4 DEF NativeOpen, NativeClose, NativeError, NativeDrain, WorkerIdle
  <2>2. Kept(n)
    BY <2>1 DEF TypeOK
  <2> QED
    BY <1>2, <1>4, <2>1, <2>2 DEF Kept, OnItsWay
<1>5. CASE Dispatch
  <2>1. arrived' = arrived /\ worker # <<>>
    BY <1>5 DEF Dispatch
  <2>2. Kept(n)
    BY <2>1 DEF TypeOK
  <2>3. CASE Message(Head(worker), n) /\ Registered("message")
    <3>1. ready' = Append(ready, Head(worker))
      BY <1>5, <2>1, <2>3 DEF Dispatch, Message, Dropped
    <3>2. Len(ready') \in 1..Len(ready') /\ ready'[Len(ready')] = Head(worker)
      BY <2>1, <3>1 DEF TypeOK
    <3> QED
      BY <2>3, <3>2 DEF Kept, OnItsWay
  <2>4. ASSUME NEW i \in 1..Len(ready), Message(ready[i], n)
        PROVE  Kept(n)'
    <3>1. i \in 1..Len(ready') /\ ready'[i] = ready[i]
      BY <1>5 DEF Dispatch, TypeOK
    <3> QED
      BY <2>4, <3>1 DEF Kept, OnItsWay
  <2> QED
    BY <1>2, <2>2, <2>3, <2>4 DEF Kept, OnItsWay
<1> QED
  BY <1>3, <1>4, <1>5 DEF Native, NativeStep

\* __init__ only adds to what is there.
LEMMA ConstructKeeps ==
    ASSUME TypeOK, Construct, NEW n, Kept(n)
    PROVE  Kept(n)'
<1>1. UNCHANGED <<received, worker>>
  BY DEF Construct, native
<1>2. recv_queue' = recv_queue \/ recv_queue' = Append(recv_queue, Sentinel)
  BY DEF Construct, Register, SyncOpen, SyncClosed, PutNowait
<1>3. \A i \in 1..Len(ready) : i \in 1..Len(ready') /\ ready'[i] = ready[i]
  <2>1. ready' = ready \/ \E e : ready' = Append(ready, e)
    BY DEF Construct, Register, SyncOpen, SyncClosed
  <2> QED
    BY <2>1 DEF TypeOK
<1>4. Registered("message") => Registered("message")'
  BY RegisteredStays DEF Next
<1>5. OnItsWay(n) => OnItsWay(n)'
  BY <1>1, <1>3, <1>4 DEF OnItsWay
<1>6. InQueue(n) => InQueue(n)'
  BY <1>2, PutKeeps DEF Sentinel
<1>7. Got(n) => Got(n)'
  BY <1>1 DEF Got
<1> QED
  BY <1>5, <1>6, <1>7 DEF Kept

\* A handler takes one callback and no other; the message in it goes to the queue.
LEMMA HandleKeeps ==
    ASSUME TypeOK, Numbered, Handle, NEW n, Kept(n), ~Dropped(n)
    PROVE  Kept(n)'
<1> DEFINE e == Head(ready)
<1>1. /\ UNCHANGED <<received, worker, ctor>>
      /\ ready # <<>> /\ ready' = Tail(ready)
  BY DEF Handle, native
<1>2. e = ready[1] /\ 1 \in 1..Len(ready) /\ e \in Event
  BY <1>1 DEF TypeOK
<1>3. Got(n) => Kept(n)'
  BY <1>1 DEF Kept, Got
<1>4. ASSUME OnItsWay(n), ~Message(e, n) PROVE Kept(n)'
  <2>1. ASSUME NEW i \in 1..Len(ready), Message(ready[i], n)
        PROVE  i - 1 \in 1..Len(ready') /\ ready'[i - 1] = ready[i]
    <3>1. i # 1
      BY <1>2, <1>4, <2>1
    <3> QED
      BY <1>1, <3>1 DEF TypeOK
  <2> QED
    BY <1>1, <1>4, <2>1 DEF Kept, OnItsWay, Registered
<1>5. CASE e.k = "message"
  <2>1. PICK m \in Messages \cup {Sentinel} : HandleMessage(m) /\ m = e.m
    BY <1>2, <1>5, BoundsAssumption DEF Handle, Event, Messages, Sentinel
  <2>2. recv_queue \in Seq(Messages \cup {Sentinel}) /\ Len(recv_queue) \in Nat
        /\ Len(recv_queue) <= RecvBuffer /\ RecvBuffer \in Nat \ {0}
    BY LenProperties, RecvBufferAssumption DEF TypeOK
  <2> HIDE DEF e
  <2>3. CASE Len(recv_queue) < RecvBuffer
    <3>1. recv_queue' = Append(recv_queue, m)
      BY <2>1, <2>3 DEF HandleMessage
    <3>2. InQueue(n) => InQueue(n)'
      BY <2>1, <3>1, PutKeeps
    <3>3. InQueue(m)'
      <4>1. Len(recv_queue') \in 1..Len(recv_queue') /\ recv_queue'[Len(recv_queue')] = m
        BY <2>1, <2>2, <3>1, AppendProperties
      <4> QED
        BY <4>1 DEF InQueue
    <3> QED
      BY <1>3, <1>4, <2>1, <3>2, <3>3 DEF Kept, Message
  <2>4. CASE Len(recv_queue) = RecvBuffer
    <3>1. recv_queue' = Append(Tail(recv_queue), m) /\ recv_queue # <<>>
      BY <2>1, <2>2, <2>4 DEF HandleMessage
    <3>2. Tail(recv_queue) \in Seq(Messages \cup {Sentinel}) /\ Len(Tail(recv_queue)) \in Nat
      BY <2>2, <3>1, HeadTailProperties, LenProperties
    <3>3. InQueue(n) => InQueue(n)'
      <4>1. Head(recv_queue) # n
        BY <1>1, <1>5, <2>4 DEF Dropped, e
      <4> QED
        BY <2>1, <3>1, <4>1, TailKeeps
    <3>4. InQueue(m)'
      <4>1. Len(recv_queue') \in 1..Len(recv_queue') /\ recv_queue'[Len(recv_queue')] = m
        BY <2>1, <3>1, <3>2, AppendProperties
      <4> QED
        BY <4>1 DEF InQueue
    <3> QED
      BY <1>3, <1>4, <2>1, <3>3, <3>4 DEF Kept, Message
  <2> QED
    BY <2>2, <2>3, <2>4
<1>6. CASE e.k # "message"
  <2>1. recv_queue' = recv_queue \/ recv_queue' = Append(recv_queue, Sentinel)
    BY <1>6 DEF Handle, HandleOpen, HandleClosed, HandleError, HandleLow, PutNowait
  <2>2. InQueue(n) => InQueue(n)'
    BY <2>1, PutKeeps
  <2> QED
    BY <1>3, <1>4, <1>6, <2>2 DEF Kept, Message
<1> QED
  BY <1>5, <1>6

\* A reader that takes a message has got it, and leaves the others.
LEMMA RecvKeeps ==
    ASSUME TypeOK, NEW r \in Receivers, Recv(r), NEW n, n # Sentinel, Kept(n)
    PROVE  Kept(n)'
<1>1. UNCHANGED <<ready, worker, ctor>>
  BY DEF Recv, native
<1>2. OnItsWay(n) => OnItsWay(n)'
  BY <1>1 DEF OnItsWay, Registered
<1>3. CASE RecvMessage(r)
  <2> DEFINE m == Head(recv_queue)
  <2>1. /\ recv_queue # <<>> /\ m \in Messages /\ received \in Seq(Messages)
        /\ received' = Append(received, m) /\ recv_queue' = Tail(recv_queue)
    BY <1>3 DEF RecvMessage, TypeOK
  <2>2. Got(n) \/ n = m => Got(n)'
    <3> HIDE DEF m
    <3>1. /\ Len(received) \in Nat /\ Len(received') = Len(received) + 1
          /\ received'[Len(received) + 1] = m
          /\ \A i \in 1..Len(received) : received'[i] = received[i]
      BY <2>1, AppendProperties, LenProperties
    <3>2. \A i \in 1..Len(received) + 1 : i \in 1..Len(received')
      BY <3>1
    <3>3. \A i \in 1..Len(received) : i \in 1..Len(received) + 1
      BY <3>1
    <3> QED
      BY <3>1, <3>2, <3>3 DEF Got
  <2>3. InQueue(n) /\ n # m => InQueue(n)'
    BY <2>1, TailKeeps
  <2> QED
    BY <1>2, <2>2, <2>3 DEF Kept
<1>4. CASE RecvClosed(r)
  <2>1. /\ recv_queue # <<>> /\ Head(recv_queue) # n
        /\ recv_queue' = Append(Tail(recv_queue), Sentinel) /\ received' = received
    BY <1>4 DEF RecvClosed
  <2>2. InQueue(n) => InQueue(n)'
    BY <2>1, TailKeeps
  <2> QED
    BY <1>2, <2>1, <2>2 DEF Kept, Got
<1>5. CASE RecvBlock(r)
  BY <1>2, <1>5 DEF RecvBlock, Kept, Got, InQueue
<1> QED
  BY <1>3, <1>4, <1>5 DEF Recv

\* The other steps leave the messages alone.
LEMMA OtherKeeps ==
    ASSUME TypeOK, [Next]_vars, ~Native, ~Construct, ~Handle, \A r \in Receivers : ~Recv(r),
           NEW n, Kept(n)
    PROVE  Kept(n)'
<1>1. UNCHANGED <<received, ready, worker, ctor>>
  BY DEF Next, Send, SetThreshold, Abandon, Lifecycle, Teardown, PcDestroy, native, vars
<1>2. recv_queue' = recv_queue \/ recv_queue' = Append(recv_queue, Sentinel)
  <2>1. CASE Lifecycle
    BY <2>1 DEF Lifecycle, Close, BeginClose, SpawnTask, FinishTask, Await, Return,
                CancelWait, AcloseFirst, AcloseAgain, PutNowait
  <2>2. CASE ~Lifecycle
    BY <2>2 DEF Next, Send, SetThreshold, Abandon, Teardown, PcDestroy, Destroy,
                HandleClosed, PutNowait, vars
  <2> QED
    BY <2>1, <2>2
<1>3. InQueue(n) => InQueue(n)'
  BY <1>2, PutKeeps
<1>4. OnItsWay(n) => OnItsWay(n)'
  BY <1>1 DEF OnItsWay, Registered
<1> QED
  BY <1>1, <1>3, <1>4 DEF Kept, Got

\* A message that has arrived is lost in two ways only: it is the oldest item of a full
\* queue when another message is put there, or it comes to a channel that has been
\* destroyed.  No reader, cancelled or not, no close sentinel put or moved, no callback of
\* another kind and no step of the shutdown loses one, for any size of the queue.
THEOREM OnlyTheOldestDrops ==
    Spec => [][\A n \in 1..arrived' : n > arrived \/ Kept(n) => Kept(n)' \/ Dropped(n)]_vars
<1>1. ASSUME TypeOK, Numbered, [Next]_vars,
             NEW n \in 1..arrived', n > arrived \/ Kept(n), ~Dropped(n)
      PROVE  Kept(n)'
  <2>1. CASE Native
    BY <1>1, <2>1, NativeKeeps
  <2>2. CASE ~Native
    <3>1. arrived' = arrived
      BY <1>1, <2>2 DEF Next, Construct, Handle, Recv, Send, SetThreshold, Abandon, Lifecycle,
                        Teardown, PcDestroy, native, vars
    <3>2. Kept(n) /\ n # Sentinel
      BY <1>1, <3>1 DEF TypeOK, Sentinel
    <3> QED
      BY <1>1, <2>2, <3>2, ConstructKeeps, HandleKeeps, RecvKeeps, OtherKeeps
  <2> QED
    BY <2>1, <2>2
<1>2. TypeOK /\ Numbered /\ [Next]_vars
      => [\A n \in 1..arrived' : n > arrived \/ Kept(n) => Kept(n)' \/ Dropped(n)]_vars
  BY <1>1
<1> QED
  BY <1>2, TypeCorrect, NumberedInv, PTL DEF Spec

(* ---- The readers ----------------------------------------------------------------- *)

\* Without a sentinel in it, the queue has no more items than messages have arrived:
\* they are distinct and none is later than the last arrival.
LEMMA RoomOrSentinel ==
    ASSUME NEW r, NEW q, NEW p, NEW w, NEW n, Flow(r, q, p, w, n),
           \A i \in 1..Len(q) : q[i] # Sentinel
    PROVE  Len(q) <= n
<1>1. Len(q) \in Nat /\ n \in Nat /\ q \in [1..Len(q) -> Nat]
  BY LenProperties DEF Flow
<1>2. \A i \in 1..Len(q) : q[i] \in 1..n
  <2>1. Before(q, <<n + 1>>) /\ 1 \in 1..Len(<<n + 1>>)
    BY DEF Flow
  <2>2. \A i \in 1..Len(q) : q[i] # 0 /\ q[i] \in Nat
    BY <1>1 DEF Sentinel
  <2> QED
    BY <1>1, <2>1, <2>2 DEF Before
<1>3. \A i, j \in 1..Len(q) : q[i] = q[j] => i = j
  <2>1. \A i, j \in 1..Len(q) : i < j => q[i] < q[j]
    BY DEF Flow, InOrder, Sentinel
  <2> QED
    BY <1>1, <1>2, <2>1
<1>4. q \in Injection(1..Len(q), 1..n)
  BY <1>1, <1>2, <1>3 DEF Injection, IsInjective
<1>5. \A m \in Nat : IsFiniteSet(1..m) /\ Cardinality(1..m) = m
  BY FS_Interval
<1>6. Cardinality(1..Len(q)) <= Cardinality(1..n)
  BY <1>1, <1>4, <1>5, FS_Injection
<1> QED
  BY <1>1, <1>5, <1>6

\* Destruction leaves a sentinel in a queue that messages cannot fill.
SentinelLeft == destroyed /\ arrived < RecvBuffer => InQueue(Sentinel)

\* A sentinel that is put is in the queue, which has one already if it is full.
LEMMA PutSentinel ==
    ASSUME TypeOK, MessageFlow, arrived < RecvBuffer,
           recv_queue' = PutNowait(recv_queue, Sentinel)
    PROVE  InQueue(Sentinel)'
<1>1. CASE Len(recv_queue) < RecvBuffer
  <2>1. recv_queue' = Append(recv_queue, Sentinel)
    BY <1>1 DEF PutNowait
  <2>2. Len(recv_queue') \in 1..Len(recv_queue') /\ recv_queue'[Len(recv_queue')] = Sentinel
    BY <2>1, AppendProperties, LenProperties DEF TypeOK
  <2> QED
    BY <2>2 DEF InQueue
<1>2. CASE ~(Len(recv_queue) < RecvBuffer)
  <2>1. recv_queue' = recv_queue
    BY <1>2 DEF PutNowait
  <2>2. InQueue(Sentinel)
    <3>1. Len(recv_queue) \in Nat /\ arrived \in Nat /\ RecvBuffer \in Nat
      BY LenProperties, RecvBufferAssumption DEF TypeOK
    <3> QED
      BY <1>2, <3>1, RoomOrSentinel DEF MessageFlow, InQueue
  <2> QED
    BY <2>1, <2>2 DEF InQueue
<1> QED
  BY <1>1, <1>2

\* A message put in a full queue drops the head; a sentinel is left all the same.
LEMMA MessageLeaves ==
    ASSUME TypeOK, TypeOK', MessageFlow', arrived' < RecvBuffer, InQueue(Sentinel),
           NEW m, HandleMessage(m)
    PROVE  InQueue(Sentinel)'
<1>0. Len(recv_queue) \in Nat /\ arrived' \in Nat /\ RecvBuffer \in Nat \ {0}
  BY LenProperties, RecvBufferAssumption DEF TypeOK
<1>1. CASE Len(recv_queue) < RecvBuffer
  <2>1. recv_queue' = Append(recv_queue, m)
    BY <1>1 DEF HandleMessage
  <2>2. PICK i \in 1..Len(recv_queue) : recv_queue[i] = Sentinel
    BY DEF InQueue
  <2>3. i \in 1..Len(recv_queue') /\ recv_queue'[i] = Sentinel
    BY <1>0, <2>1, <2>2 DEF TypeOK
  <2> QED
    BY <2>3 DEF InQueue
<1>2. CASE ~(Len(recv_queue) < RecvBuffer)
  <2>1. recv_queue' = Append(Tail(recv_queue), m) /\ recv_queue # <<>>
    BY <1>0, <1>2 DEF HandleMessage
  <2>2. Len(recv_queue') = Len(recv_queue)
    <3>1. Len(Tail(recv_queue)) = Len(recv_queue) - 1
      BY <1>0, <2>1, HeadTailProperties DEF TypeOK
    <3> QED
      BY <1>0, <2>1, <3>1 DEF TypeOK
  <2>3. ~InQueue(Sentinel)' => Len(recv_queue') <= arrived'
    BY RoomOrSentinel DEF MessageFlow, InQueue
  <2> QED
    BY <1>0, <1>2, <2>2, <2>3
<1> QED
  BY <1>1, <1>2

LEMMA SentinelStep ==
    ASSUME TypeOK, TypeOK', MessageFlow, MessageFlow', SentinelLeft, [Next]_vars
    PROVE  SentinelLeft'
<1> SUFFICES ASSUME destroyed', arrived' < RecvBuffer PROVE InQueue(Sentinel)'
  BY DEF SentinelLeft
<1>1. arrived < RecvBuffer
  <2>1. arrived' = arrived \/ arrived' = arrived + 1
    BY DEF Next, Native, NativeStep, NativeOpen, NativeClose, NativeError, NativeMessage,
           NativeDrain, Dispatch, Construct, Handle, Recv, Send, SendStart, SendResume,
           SendNative, SendMark, SetThreshold, Abandon, Lifecycle, Teardown, PcDestroy,
           native, vars
  <2> QED
    BY <2>1, RecvBufferAssumption DEF TypeOK
<1>2. CASE ~destroyed
  <2>1. (Teardown \/ PcDestroy) /\ HandleClosed
    BY <1>2 DEF Next, Native, Construct, Handle, Recv, Send, SetThreshold, Abandon,
                Lifecycle, Teardown, PcDestroy, Destroy, lifecycle, vars
  <2> QED
    BY <1>1, <2>1, PutSentinel DEF HandleClosed
<1>3. CASE destroyed
  <2>1. InQueue(Sentinel)
    BY <1>1, <1>3 DEF SentinelLeft
  <2>2. ASSUME recv_queue' = recv_queue PROVE InQueue(Sentinel)'
    BY <2>1, <2>2 DEF InQueue
  <2>3. ASSUME recv_queue' = PutNowait(recv_queue, Sentinel) PROVE InQueue(Sentinel)'
    BY <1>1, <2>3, PutSentinel
  <2>4. CASE Handle
    <3>1. CASE HandleMessage(Head(ready).m)
      BY <2>1, <3>1, MessageLeaves
    <3>2. CASE HandleOpen \/ HandleClosed \/ HandleError \/ HandleLow
      BY <2>2, <2>3, <3>2 DEF HandleOpen, HandleClosed, HandleError, HandleLow
    <3> QED
      BY <2>4, <3>1, <3>2 DEF Handle
  <2>5. CASE \E r \in Receivers : Recv(r)
    <3> PICK r \in Receivers : Recv(r)
      BY <2>5
    <3>1. CASE RecvMessage(r)
      BY <2>1, <3>1, TailKeeps DEF RecvMessage
    <3>2. CASE RecvClosed(r)
      <4>1. /\ Len(Tail(recv_queue)) \in Nat
            /\ recv_queue' = Append(Tail(recv_queue), Sentinel)
        BY <3>2 DEF RecvClosed, TypeOK
      <4>2. Tail(recv_queue) \in Seq(Messages \cup {Sentinel})
        BY <3>2, HeadTailProperties DEF RecvClosed, TypeOK
      <4>3. Len(recv_queue') \in 1..Len(recv_queue') /\ recv_queue'[Len(recv_queue')] = Sentinel
        BY <4>1, <4>2, AppendProperties
      <4> QED
        BY <4>3 DEF InQueue
    <3>3. CASE RecvBlock(r)
      BY <2>2, <3>3 DEF RecvBlock
    <3> QED
      BY <3>1, <3>2, <3>3 DEF Recv
  <2>6. CASE Construct
    BY <2>2, <2>3, <2>6 DEF Construct, Register, SyncOpen, SyncClosed
  <2>7. CASE Lifecycle
    BY <2>2, <2>3, <2>7 DEF Lifecycle, Close, BeginClose, SpawnTask, FinishTask, Await,
                            Return, CancelWait, AcloseFirst, AcloseAgain
  <2>8. CASE ~Handle /\ ~Construct /\ ~Lifecycle /\ \A r \in Receivers : ~Recv(r)
    BY <1>3, <2>2, <2>8 DEF Next, Native, Send, SetThreshold, Abandon, Teardown, PcDestroy,
                            Destroy, vars
  <2> QED
    BY <2>4, <2>5, <2>6, <2>7, <2>8
<1> QED
  BY <1>2, <1>3

\* As long as the messages that have arrived cannot fill the queue, destruction leaves a
\* sentinel in it for good, so that no reader waits on an empty queue: however sentinels
\* and messages are mixed, however many readers there are, for any size of the queue.
THEOREM ReadersAreWoken == Spec => []ReadersWoken
<1>1. Init => SentinelLeft
  BY DEF Init, SentinelLeft
<1>2. TypeOK /\ TypeOK' /\ MessageFlow /\ MessageFlow' /\ SentinelLeft /\ [Next]_vars
      => SentinelLeft'
  BY SentinelStep
<1>3. SentinelLeft => ReadersWoken
  BY DEF SentinelLeft, ReadersWoken, NoReaderStranded, InQueue
<1> QED
  BY <1>1, <1>2, <1>3, TypeCorrect, FlowInv, PTL DEF Spec
===============================================================================
