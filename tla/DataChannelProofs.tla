-------------------------- MODULE DataChannelProofs --------------------------
(***************************************************************************)
(* Theorems about DataChannel, for any number of coroutines, any queue     *)
(* size and any bounds.                                                    *)
(***************************************************************************)
EXTENDS DataChannel, SequenceTheorems, TLAPS

\* The worker's callbacks are events.
LEMMA EventType ==
    ASSUME NEW k \in {"open", "closed", "error", "message", "low"}
    PROVE  Callback(k) \in Event
BY BoundsAssumption DEF Callback, Event

\* __init__ registers the five kinds of callback.
LEMMA RegistrationType ==
    ASSUME NEW i \in 0..4
    PROVE  Registration[i + 1] \in {"open", "closed", "error", "message", "low"}
BY DEF Registration

\* The receive queue keeps its type and its bound through put_nowait.
LEMMA PutNowaitType ==
    ASSUME NEW q \in Seq(Messages \cup {Sentinel}), Len(q) <= RecvBuffer,
           NEW x \in Messages \cup {Sentinel}
    PROVE  /\ PutNowait(q, x) \in Seq(Messages \cup {Sentinel})
           /\ Len(PutNowait(q, x)) <= RecvBuffer
BY RecvBufferAssumption DEF PutNowait

\* Setting the low-water event wakes senders and nothing else.
LEMMA WokenType ==
    ASSUME TypeOK
    PROVE  Woken \in [Senders -> {"idle", "parked", "woken", "sending", "sent"}]
BY DEF Woken, TypeOK

\* The operations of a slot keep it a slot.
LEMMA SlotType ==
    ASSUME NEW slot \in SlotState
    PROVE  SlotSet(slot) \in SlotState /\ SlotFail(slot) \in SlotState
           /\ SlotCancel(slot) \in SlotState
BY DEF SlotSet, SlotFail, SlotCancel, SlotState

\* _handle_closed keeps the types of all it touches.
LEMMA HandleClosedType ==
    ASSUME TypeOK, HandleClosed
    PROVE  /\ open_slot' \in SlotState /\ closed_slot' \in SlotState
           /\ low_event' \in BOOLEAN
           /\ send_at' \in [Senders -> {"idle", "parked", "woken", "sending", "sent"}]
           /\ recv_queue' \in Seq(Messages \cup {Sentinel}) /\ Len(recv_queue') <= RecvBuffer
BY SlotType, WokenType, PutNowaitType DEF HandleClosed, TypeOK

\* A channel starts well typed.
LEMMA InitTypeOK == Init => TypeOK
<1> SUFFICES ASSUME Init PROVE TypeOK
  OBVIOUS
<1>1. worker \in Seq(Event) /\ ready \in Seq(Event) /\ received \in Seq(Messages)
  BY DEF Init
<1>2. recv_queue \in Seq(Messages \cup {Sentinel}) /\ Len(recv_queue) <= RecvBuffer
  BY RecvBufferAssumption DEF Init
<1>3. Len(worker) <= 1
  BY DEF Init
<1>4. co_at \in [Coroutines -> {"unspawned", "idle", "wait_open", "wait_closed",
                                "aclose", "aclosed", "ended", "cancelled",
                                "cancelling", "finished"}]
  BY DEF Init
<1>5. /\ recv_at \in [Receivers -> {"idle", "blocked", "closed"}]
      /\ send_at \in [Senders -> {"idle", "parked", "woken", "sending", "sent"}]
  BY DEF Init
<1>6. /\ arrived \in 0..MaxMessages /\ buffered \in 0..MaxBuffered
      /\ threshold \in Thresholds \cup {0} /\ ctor \in 0..7
  BY BoundsAssumption DEF Init
<1>7. /\ stream \in {"connecting", "open", "closed"}
      /\ destroyed \in BOOLEAN /\ close_requested \in BOOLEAN /\ low_event \in BOOLEAN
      /\ open_slot \in SlotState /\ closed_slot \in SlotState
      /\ tasks \subseteq Owned /\ teardown \in {"none", "scheduled", "done"}
  BY DEF Init, SlotState
<1> QED
  BY <1>1, <1>2, <1>3, <1>4, <1>5, <1>6, <1>7 DEF TypeOK

\* Callbacks of the worker keep the types.
LEMMA NativeTypeOK == TypeOK /\ Native => TypeOK'
<1> SUFFICES ASSUME TypeOK, Native PROVE TypeOK'
  OBVIOUS
<1> USE BoundsAssumption DEF TypeOK, Native, coroutines, lifecycle, slots
<1>1. CASE NativeStep /\ UNCHANGED ready
  <2>1. CASE NativeOpen
    BY <1>1, <2>1, EventType DEF NativeOpen
  <2>2. CASE NativeClose
    BY <1>1, <2>2, EventType DEF NativeClose
  <2>3. CASE NativeError
    BY <1>1, <2>3, EventType DEF NativeError
  <2>4. CASE NativeMessage
    BY <1>1, <2>4 DEF NativeMessage, Event
  <2>5. CASE NativeDrain
    BY <1>1, <2>5, EventType DEF NativeDrain
  <2> QED
    BY <1>1, <2>1, <2>2, <2>3, <2>4, <2>5 DEF NativeStep
<1>2. CASE Dispatch
  BY <1>2 DEF Dispatch
<1> QED
  BY <1>1, <1>2

\* The steps of __init__ keep the types.
LEMMA ConstructTypeOK == TypeOK /\ Construct => TypeOK'
<1> SUFFICES ASSUME TypeOK, Construct PROVE TypeOK'
  OBVIOUS
<1> USE DEF TypeOK, Construct, coroutines, lifecycle, native, slots
<1>1. CASE Register
  <2>1. ctor \in 0..4 /\ Callback(Registration[ctor + 1]) \in Event
    BY <1>1, RegistrationType, EventType DEF Register
  <2> QED
    BY <1>1, <2>1 DEF Register
<1>2. CASE SyncOpen
  BY <1>2, SlotType DEF SyncOpen
<1>3. CASE SyncClosed
  BY <1>3, SlotType, PutNowaitType DEF SyncClosed
<1> QED
  BY <1>1, <1>2, <1>3

\* The handlers keep the types; the queue keeps its bound.
LEMMA HandleTypeOK == TypeOK /\ Handle => TypeOK'
<1> SUFFICES ASSUME TypeOK, Handle PROVE TypeOK'
  OBVIOUS
<1> DEFINE e == Head(ready)
<1>0. ready' \in Seq(Event) /\ e \in Event
  BY DEF Handle, TypeOK
<1> USE DEF TypeOK, coroutines, lifecycle, native, slots
<1>1. CASE e.k = "open" /\ HandleOpen
  BY <1>0, <1>1, SlotType DEF Handle, HandleOpen
<1>2. CASE e.k = "closed" /\ HandleClosed
  BY <1>0, <1>2, HandleClosedType DEF Handle
<1>3. CASE e.k = "error" /\ HandleError
  BY <1>0, <1>3, SlotType DEF Handle, HandleError
<1>4. CASE e.k = "message" /\ HandleMessage(e.m)
  <2>1. e.m \in Messages \cup {Sentinel}
    BY <1>0, BoundsAssumption DEF Event, Messages, Sentinel
  <2>2. recv_queue' \in Seq(Messages \cup {Sentinel}) /\ Len(recv_queue') <= RecvBuffer
    BY <1>4, <2>1, RecvBufferAssumption DEF HandleMessage
  <2> QED
    BY <1>0, <1>4, <2>2 DEF Handle, HandleMessage
<1>5. CASE e.k = "low" /\ HandleLow
  BY <1>0, <1>5, WokenType DEF Handle, HandleLow
<1> QED
  BY <1>1, <1>2, <1>3, <1>4, <1>5 DEF Handle

\* recv() keeps the types.
LEMMA RecvTypeOK == TypeOK /\ (\E r \in Receivers : Recv(r)) => TypeOK'
<1> SUFFICES ASSUME TypeOK, NEW r \in Receivers, Recv(r) PROVE TypeOK'
  OBVIOUS
<1> USE DEF TypeOK, Recv, lifecycle, native, slots
<1>1. CASE RecvMessage(r)
  <2>1. /\ recv_queue' \in Seq(Messages \cup {Sentinel}) /\ Len(recv_queue') <= RecvBuffer
        /\ Head(recv_queue) \in Messages
    BY <1>1, RecvBufferAssumption DEF RecvMessage
  <2> QED
    BY <1>1, <2>1 DEF RecvMessage
<1>2. CASE RecvClosed(r)
  <2>1. recv_queue' \in Seq(Messages \cup {Sentinel}) /\ Len(recv_queue') <= RecvBuffer
    BY <1>2, RecvBufferAssumption DEF RecvClosed
  <2> QED
    BY <1>2, <2>1 DEF RecvClosed
<1>3. CASE RecvBlock(r)
  BY <1>3 DEF RecvBlock
<1> QED
  BY <1>1, <1>2, <1>3

\* send() keeps the types.
LEMMA SendTypeOK == TypeOK /\ (\E s \in Senders : Send(s)) => TypeOK'
<1> SUFFICES ASSUME TypeOK, NEW s \in Senders, Send(s) PROVE TypeOK'
  OBVIOUS
<1> USE BoundsAssumption DEF TypeOK, Send, lifecycle, slots
<1>1. CASE SendStart(s)
  BY <1>1 DEF SendStart
<1>2. CASE SendResume(s)
  BY <1>2 DEF SendResume
<1>3. CASE SendNative(s)
  <2>1. buffered' \in 0..MaxBuffered
    BY <1>3 DEF SendNative
  <2>2. send_at' \in [Senders -> {"idle", "parked", "woken", "sending", "sent"}]
    BY <1>3 DEF SendNative
  <2> QED
    BY <1>3, <2>1, <2>2 DEF SendNative
<1>4. CASE SendMark(s)
  BY <1>4 DEF SendMark
<1> QED
  BY <1>1, <1>2, <1>3, <1>4

\* Cancelling a reader or a parked sender keeps the types.
LEMMA AbandonTypeOK == TypeOK /\ Abandon => TypeOK'
BY DEF TypeOK, Abandon, AbandonRecv, AbandonSend, lifecycle, native, slots

\* Setting the threshold keeps the types.
LEMMA SetThresholdTypeOK ==
    TypeOK /\ (\E t \in Thresholds : SetThreshold(t)) => TypeOK'
BY DEF TypeOK, SetThreshold, coroutines, lifecycle, slots

\* close(), aclose(), the waits and the owned tasks keep the types.
LEMMA LifecycleTypeOK == TypeOK /\ Lifecycle => TypeOK'
<1> SUFFICES ASSUME TypeOK, Lifecycle PROVE TypeOK'
  OBVIOUS
<1> USE OwnedAssumption DEF TypeOK, Lifecycle, native, slots
<1>1. CASE Close
  BY <1>1, SlotType, PutNowaitType DEF Close, BeginClose, CancelSlots, TasksCancelled
<1>2. ASSUME NEW c \in Coroutines, SpawnTask(c) PROVE TypeOK'
  BY <1>2 DEF SpawnTask
<1>3. ASSUME NEW c \in Coroutines, FinishTask(c) PROVE TypeOK'
  BY <1>3 DEF FinishTask
<1>4. ASSUME NEW c \in Coroutines, Await(c) PROVE TypeOK'
  BY <1>4 DEF Await
<1>5. ASSUME NEW c \in Coroutines, Return(c) PROVE TypeOK'
  BY <1>5 DEF Return
<1>6. ASSUME NEW c \in Coroutines, CancelWait(c) PROVE TypeOK'
  BY <1>6, SlotType DEF CancelWait, CancelSlots
<1>7. ASSUME NEW c \in Coroutines, AcloseFirst(c) PROVE TypeOK'
  BY <1>7, SlotType, PutNowaitType
     DEF AcloseFirst, BeginClose, CancelSlots, TasksCancelled
<1>8. ASSUME NEW c \in Coroutines, AcloseAgain(c) PROVE TypeOK'
  BY <1>8 DEF AcloseAgain
<1> QED
  BY <1>1, <1>2, <1>3, <1>4, <1>5, <1>6, <1>7, <1>8

\* Both ways to destroy the channel keep the types.
LEMMA TeardownTypeOK == TypeOK /\ (Teardown \/ PcDestroy) => TypeOK'
BY HandleClosedType DEF TypeOK, Teardown, PcDestroy, Destroy, native, slots

\* Every reachable state is well typed; in particular the receive queue never exceeds
\* recv_buffer, whatever the callbacks, close() and recv() put back into it.
THEOREM TypeCorrect == Spec => []TypeOK
<1>1. TypeOK /\ [Next]_vars => TypeOK'
  <2> SUFFICES ASSUME TypeOK, [Next]_vars PROVE TypeOK'
    OBVIOUS
  <2>1. CASE UNCHANGED vars
    BY <2>1 DEF TypeOK, vars
  <2> QED
    BY <2>1, NativeTypeOK, ConstructTypeOK, HandleTypeOK, RecvTypeOK, SendTypeOK,
       SetThresholdTypeOK, AbandonTypeOK, LifecycleTypeOK, TeardownTypeOK DEF Next
<1> QED
  BY <1>1, InitTypeOK, PTL DEF Spec

(* ---- send() and the destruction of the handle -------------------------------- *)

\* The native library is never called by send() on a deleted handle: destroying waits
\* for the loop, and every path into the native call passes the check of _destroyed.
THEOREM SendsAreOnLiveHandles == Spec => []SendOnLiveHandle
<1>1. Init => SendOnLiveHandle
  BY DEF Init, SendOnLiveHandle
<1>2. TypeOK /\ SendOnLiveHandle /\ [Next]_vars => SendOnLiveHandle'
  <2> SUFFICES ASSUME TypeOK, SendOnLiveHandle, [Next]_vars PROVE SendOnLiveHandle'
    OBVIOUS
  <2> USE DEF SendOnLiveHandle, TypeOK
  <2>1. CASE Native
    BY <2>1 DEF Native, lifecycle, coroutines
  <2>2. CASE Construct
    BY <2>2 DEF Construct, lifecycle, coroutines
  <2>3. CASE Handle
    BY <2>3 DEF Handle, HandleOpen, HandleClosed, HandleError, HandleMessage, HandleLow,
                Woken, lifecycle
  <2>4. ASSUME NEW r \in Receivers, Recv(r) PROVE SendOnLiveHandle'
    BY <2>4 DEF Recv, lifecycle
  <2>5. ASSUME NEW s \in Senders, Send(s) PROVE SendOnLiveHandle'
    BY <2>5 DEF Send, SendStart, SendResume, SendNative, SendMark, MaySend, lifecycle
  <2>6. ASSUME NEW t \in Thresholds, SetThreshold(t) PROVE SendOnLiveHandle'
    BY <2>6 DEF SetThreshold, lifecycle, coroutines
  <2>7. CASE Abandon
    BY <2>7 DEF Abandon, AbandonRecv, AbandonSend, lifecycle
  <2>8. CASE Lifecycle
    BY <2>8 DEF Lifecycle
  <2>9. CASE Teardown \/ PcDestroy
    BY <2>9 DEF Teardown, PcDestroy, Destroy, HandleClosed, Woken, LoopFree
  <2>10. CASE UNCHANGED vars
    BY <2>10 DEF vars
  <2> QED
    BY <2>1, <2>2, <2>3, <2>4, <2>5, <2>6, <2>7, <2>8, <2>9, <2>10 DEF Next
<1> QED
  BY <1>1, <1>2, TypeCorrect, PTL DEF Spec

\* A slot that is settled stays settled.
LEMMA SettledStays ==
    ASSUME NEW slot, Settled(slot)
    PROVE  Settled(SlotSet(slot)) /\ Settled(SlotFail(slot)) /\ Settled(SlotCancel(slot))
BY DEF Settled, SlotSet, SlotFail, SlotCancel

\* set() and fail() leave a slot settled, whatever it was.
LEMMA SlotSettles ==
    ASSUME NEW slot
    PROVE  Settled(SlotSet(slot)) /\ Settled(SlotFail(slot))
BY DEF Settled, SlotSet, SlotFail

\* No step of the channel reopens a slot.
LEMMA SlotsLatch ==
    ASSUME [Next]_vars
    PROVE  /\ Settled(open_slot) => Settled(open_slot')
           /\ Settled(closed_slot) => Settled(closed_slot')
<1> USE SettledStays
<1>1. CASE Native
  BY <1>1 DEF Native, slots
<1>2. CASE Construct
  BY <1>2 DEF Construct, Register, SyncOpen, SyncClosed, slots
<1>3. CASE Handle
  BY <1>3 DEF Handle, HandleOpen, HandleClosed, HandleError, HandleMessage, HandleLow
<1>4. ASSUME NEW r \in Receivers, Recv(r) PROVE UNCHANGED slots
  BY <1>4 DEF Recv
<1>5. ASSUME NEW s \in Senders, Send(s) PROVE UNCHANGED slots
  BY <1>5 DEF Send
<1>6. ASSUME NEW t \in Thresholds, SetThreshold(t) PROVE UNCHANGED slots
  BY <1>6 DEF SetThreshold
<1>7. CASE Abandon
  BY <1>7 DEF Abandon, slots
<1>8. CASE Lifecycle
  BY <1>8 DEF Lifecycle, Close, SpawnTask, FinishTask, Await, Return, CancelWait,
              AcloseFirst, AcloseAgain, CancelSlots, slots
<1>9. CASE Teardown \/ PcDestroy
  BY <1>9 DEF Teardown, PcDestroy, Destroy, HandleClosed, slots
<1>10. CASE UNCHANGED vars
  BY <1>10 DEF vars
<1> QED
  BY <1>1, <1>2, <1>3, <1>4, <1>5, <1>6, <1>7, <1>8, <1>9, <1>10 DEF Next, slots

\* Once the channel is destroyed nobody waits on it for a callback that can no longer
\* come: the slots are settled and no sender is parked, and it stays so.
THEOREM DestroySettles == Spec => []SettledOnDestroy
<1>1. Init => SettledOnDestroy
  BY DEF Init, SettledOnDestroy
<1>2. TypeOK /\ SendOnLiveHandle /\ SettledOnDestroy /\ [Next]_vars => SettledOnDestroy'
  <2> SUFFICES ASSUME TypeOK, SendOnLiveHandle, SettledOnDestroy, [Next]_vars, destroyed'
               PROVE  SettledOnDestroy'
    BY DEF SettledOnDestroy
  <2>1. CASE ~destroyed
    <3>1. Destroy
      BY <2>1 DEF Next, Native, Construct, Handle, Recv, Send, SetThreshold, Abandon,
                  Lifecycle, Teardown, PcDestroy, lifecycle, vars
    <3> QED
      BY <2>1, <3>1, SlotSettles DEF Destroy, HandleClosed, Woken, SettledOnDestroy
  <2>2. CASE destroyed
    <3>1. Settled(open_slot') /\ Settled(closed_slot')
      BY <2>2, SlotsLatch DEF SettledOnDestroy
    <3>2. low_event' /\ \A s \in Senders : send_at'[s] # "parked"
      <4> USE <2>2 DEF SettledOnDestroy, TypeOK
      <4>1. CASE Native
        BY <4>1 DEF Native, coroutines
      <4>2. CASE Construct
        BY <4>2 DEF Construct, coroutines
      <4>3. CASE Handle
        <5>1. \/ UNCHANGED <<low_event, send_at>>
              \/ low_event' = TRUE /\ send_at' = Woken
          BY <4>3 DEF Handle, HandleOpen, HandleClosed, HandleError, HandleMessage,
                      HandleLow
        <5>2. \A s \in Senders : Woken[s] # "parked"
          BY DEF Woken
        <5> QED
          BY <5>1, <5>2
      <4>4. ASSUME NEW r \in Receivers, Recv(r) PROVE UNCHANGED <<low_event, send_at>>
        BY <4>4 DEF Recv
      <4>5. ASSUME NEW s \in Senders, Send(s)
            PROVE  low_event' /\ \A t \in Senders : send_at'[t] # "parked"
        <5>1. ~SendStart(s) /\ ~SendNative(s) /\ ~SendMark(s)
          BY DEF SendStart, SendNative, SendMark, MaySend, SendOnLiveHandle
        <5>2. SendResume(s)
          BY <4>5, <5>1 DEF Send
        <5> QED
          BY <5>2 DEF SendResume
      <4>6. ASSUME NEW t \in Thresholds, SetThreshold(t)
            PROVE  UNCHANGED <<low_event, send_at>>
        BY <4>6 DEF SetThreshold, coroutines
      <4>7. CASE Abandon
        BY <4>7 DEF Abandon, AbandonRecv, AbandonSend
      <4>8. CASE Lifecycle
        BY <4>8 DEF Lifecycle
      <4>9. CASE Teardown \/ PcDestroy
        BY <4>9 DEF Teardown, PcDestroy, Destroy
      <4>10. CASE UNCHANGED vars
        BY <4>10 DEF vars
      <4> QED
        BY <4>1, <4>2, <4>3, <4>4, <4>5, <4>6, <4>7, <4>8, <4>9, <4>10 DEF Next
    <3> QED
      BY <3>1, <3>2 DEF SettledOnDestroy
  <2> QED
    BY <2>1, <2>2
<1> QED
  BY <1>1, <1>2, TypeCorrect, SendsAreOnLiveHandles, PTL DEF Spec

(* ---- Owned tasks ----------------------------------------------------------------- *)

\* After close() the teardown waits only for tasks that have been cancelled.
THEOREM CloseCancelsTasks == Spec => []TasksCancelledOnClose
<1>1. Init => TasksCancelledOnClose
  BY DEF Init, TasksCancelledOnClose
<1>2. TypeOK /\ TasksCancelledOnClose /\ [Next]_vars => TasksCancelledOnClose'
  <2> SUFFICES ASSUME TypeOK, TasksCancelledOnClose, [Next]_vars
               PROVE  TasksCancelledOnClose'
    OBVIOUS
  <2> USE OwnedAssumption DEF TasksCancelledOnClose, TypeOK
  <2>1. CASE Lifecycle
    <3>1. CASE Close
      BY <3>1 DEF Close, BeginClose, TasksCancelled
    <3>2. ASSUME NEW c \in Coroutines, SpawnTask(c) PROVE TasksCancelledOnClose'
      BY <3>2 DEF SpawnTask
    <3>3. ASSUME NEW c \in Coroutines, FinishTask(c) PROVE TasksCancelledOnClose'
      BY <3>3 DEF FinishTask
    <3>4. ASSUME NEW c \in Coroutines, Await(c) \/ Return(c) PROVE TasksCancelledOnClose'
      BY <3>4 DEF Await, Return
    <3>5. ASSUME NEW c \in Coroutines, CancelWait(c) PROVE TasksCancelledOnClose'
      BY <3>5 DEF CancelWait
    <3>6. ASSUME NEW c \in Coroutines, AcloseFirst(c) PROVE TasksCancelledOnClose'
      BY <3>6 DEF AcloseFirst, BeginClose, TasksCancelled
    <3>7. ASSUME NEW c \in Coroutines, AcloseAgain(c) PROVE TasksCancelledOnClose'
      BY <3>7 DEF AcloseAgain
    <3> QED
      BY <2>1, <3>1, <3>2, <3>3, <3>4, <3>5, <3>6, <3>7 DEF Lifecycle
  <2>2. CASE ~Lifecycle
    <3>1. UNCHANGED <<close_requested, tasks, co_at>>
      BY <2>2 DEF Next, Native, Construct, Handle, Recv, Send, SetThreshold, Abandon,
                  Teardown, PcDestroy, lifecycle, coroutines, vars
    <3> QED
      BY <3>1
  <2> QED
    BY <2>1, <2>2
<1> QED
  BY <1>1, <1>2, TypeCorrect, PTL DEF Spec

(* ---- Callbacks on their way -------------------------------------------------------- *)

Kinds == {"open", "closed", "error", "message", "low"}

\* Once the object is built every callback is registered.
LEMMA AllRegistered ==
    ASSUME TypeOK, NEW kind \in Kinds, NEW i \in 1..5, Registration[i] = kind, i <= ctor
    PROVE  Registered(kind)
BY DEF Registered

\* A callback that is registered stays registered.
LEMMA RegisteredStays ==
    ASSUME TypeOK, [Next]_vars, NEW kind, Registered(kind)
    PROVE  Registered(kind)'
<1>1. ctor' = ctor \/ (ctor' \in Nat /\ ctor' > ctor)
  BY DEF TypeOK, Next, Native, Construct, Register, SyncOpen, SyncClosed, Handle, Recv,
         Send, SetThreshold, Abandon, Lifecycle, Teardown, PcDestroy, vars
<1>2. PICK i \in 1..5 : i <= ctor /\ Registration[i] = kind
  BY DEF Registered
<1>3. i <= ctor'
  BY <1>1, <1>2 DEF TypeOK
<1> QED
  BY <1>2, <1>3 DEF Registered

\* A callback on its way stays on its way until its handler runs, or until the channel
\* is destroyed.
LEMMA PendingStays ==
    ASSUME TypeOK, [Next]_vars, NEW kind \in Kinds, Pending(kind), ~destroyed
    PROVE  \/ Pending(kind)'
           \/ Handle /\ ready # <<>> /\ Head(ready).k = kind
<1>1. CASE Native
  <2>1. CASE Dispatch
    <3>1. CASE worker # <<>> /\ Head(worker).k = kind /\ Registered(kind)
      <4>1. ready' = Append(ready, Head(worker))
        BY <2>1, <3>1 DEF Dispatch
      <4>2. Len(ready') \in 1..Len(ready') /\ ready'[Len(ready')] = Head(worker)
        BY <3>1, <4>1 DEF TypeOK
      <4> QED
        BY <3>1, <4>2 DEF Pending
    <3>2. ASSUME NEW i \in 1..Len(ready), ready[i].k = kind
          PROVE  Pending(kind)'
      <4>1. i \in 1..Len(ready') /\ ready'[i] = ready[i]
        BY <2>1, <3>2 DEF Dispatch, TypeOK
      <4> QED
        BY <3>2, <4>1 DEF Pending
    <3> QED
      BY <3>1, <3>2 DEF Pending
  <2>2. CASE NativeStep /\ UNCHANGED ready
    <3>1. worker = <<>>
      BY <2>2 DEF NativeStep, NativeOpen, NativeClose, NativeError, NativeMessage,
                  NativeDrain, WorkerIdle
    <3> QED
      BY <2>2, <3>1 DEF Pending
  <2> QED
    BY <1>1, <2>1, <2>2 DEF Native
<1>2. CASE Construct
  <2>1. worker' = worker /\ (Registered(kind) => Registered(kind)')
    BY <1>2, RegisteredStays DEF Construct, native
  <2>2. ASSUME NEW i \in 1..Len(ready), ready[i].k = kind
        PROVE  i \in 1..Len(ready') /\ ready'[i] = ready[i]
    <3>1. ready' = ready \/ \E e : ready' = Append(ready, e)
      BY <1>2 DEF Construct, Register, SyncOpen, SyncClosed
    <3> QED
      BY <3>1 DEF TypeOK
  <2> QED
    BY <2>1, <2>2 DEF Pending
<1>3. CASE Handle
  <2>1. worker' = worker /\ ctor' = ctor /\ ready' = Tail(ready) /\ ready # <<>>
    BY <1>3 DEF Handle, native
  <2>2. ASSUME NEW i \in 1..Len(ready), ready[i].k = kind, Head(ready).k # kind
        PROVE  Pending(kind)'
    <3>1. i # 1
      BY <2>2 DEF TypeOK
    <3>2. i - 1 \in 1..Len(ready') /\ ready'[i - 1] = ready[i]
      BY <2>1, <2>2, <3>1 DEF TypeOK
    <3> QED
      BY <2>2, <3>2 DEF Pending
  <2> QED
    BY <1>3, <2>1, <2>2 DEF Pending, Registered
<1>4. CASE ~Native /\ ~Construct /\ ~Handle
  <2>1. UNCHANGED <<worker, ready, ctor>>
    BY <1>4 DEF Next, Recv, Send, SetThreshold, Abandon, Lifecycle, Teardown, PcDestroy,
                native, vars
  <2> QED
    BY <2>1 DEF Pending, Registered
<1> QED
  BY <1>1, <1>2, <1>3, <1>4

(* ---- Opening and closing are not lost ------------------------------------------------ *)

\* The open handler settles the open slot.
LEMMA HandleOpenSettles ==
    ASSUME Handle, ready # <<>>, Head(ready).k = "open"
    PROVE  Settled(open_slot')
BY SlotSettles DEF Handle, HandleOpen

\* The closed handler settles the closed slot and lifts the backpressure.
LEMMA HandleClosedSettles ==
    ASSUME Handle, ready # <<>>, Head(ready).k = "closed"
    PROVE  /\ Settled(closed_slot')
           /\ low_event' = TRUE
BY SlotSettles DEF Handle, HandleClosed

\* A callback that the worker is given for a registered kind is on its way.
LEMMA PendingStarts ==
    ASSUME TypeOK, NEW kind \in Kinds, Registered(kind), Native,
           worker' = <<Callback(kind)>>
    PROVE  Pending(kind)'
BY DEF Pending, Registered, Callback, Native

\* From the moment __init__ has looked, an open stream is known or about to be.
OpenKnown == ctor >= 6 /\ stream = "open" => Settled(open_slot) \/ Pending("open")

\* An opening of the stream is never lost, whichever step of __init__ it races: the
\* slot of wait_open() is settled or the open callback is on its way to it.
THEOREM OpeningsAreNotLost == Spec => []OpenNotLost
<1>1. Init => OpenKnown
  BY DEF Init, OpenKnown
<1>2. TypeOK /\ SettledOnDestroy /\ OpenKnown /\ [Next]_vars => OpenKnown'
  <2> SUFFICES ASSUME TypeOK, SettledOnDestroy, OpenKnown, [Next]_vars,
                      ctor' >= 6, stream' = "open", ~Settled(open_slot')
               PROVE  Pending("open")'
    BY DEF OpenKnown
  <2>1. ~Settled(open_slot) /\ ~destroyed
    BY SlotsLatch DEF SettledOnDestroy
  <2>2. CASE ctor >= 6 /\ stream = "open"
    <3>1. Pending("open")
      BY <2>1, <2>2 DEF OpenKnown
    <3> QED
      BY <2>1, <3>1, PendingStays, HandleOpenSettles DEF Kinds
  <2>3. CASE ctor >= 6 /\ stream # "open"
    <3>1. Native /\ NativeOpen
      BY <2>3 DEF Next, Native, Construct, Handle, Recv, Send, SetThreshold, Abandon,
                  Lifecycle, Teardown, PcDestroy, NativeStep, NativeClose, NativeError,
                  NativeMessage, NativeDrain, Dispatch, native, vars
    <3>2. Registered("open")
      BY <2>3 DEF Registered, Registration, TypeOK
    <3> QED
      BY <3>1, <3>2, PendingStarts DEF NativeOpen, Kinds
  <2>4. CASE ~(ctor >= 6)
    <3>1. SyncOpen /\ stream = "open"
      BY <2>4 DEF TypeOK, Next, Native, Construct, Register, SyncClosed, Handle, Recv,
                  Send, SetThreshold, Abandon, Lifecycle, Teardown, PcDestroy, native, vars
    <3> QED
      BY <2>1, <3>1, SlotSettles DEF SyncOpen
  <2> QED
    BY <2>2, <2>3, <2>4
<1>3. OpenKnown => OpenNotLost
  BY DEF OpenKnown, OpenNotLost, Constructed
<1> QED
  BY <1>1, <1>2, <1>3, TypeCorrect, DestroySettles, PTL DEF Spec

\* A close of the stream is never lost, whichever step of __init__ it races: the slot
\* of wait_closed() is settled or the closed callback is on its way to it.
THEOREM ClosesAreNotLost == Spec => []CloseNotLost
<1>1. Init => CloseNotLost
  BY DEF Init, CloseNotLost, Constructed
<1>2. TypeOK /\ SettledOnDestroy /\ CloseNotLost /\ [Next]_vars => CloseNotLost'
  <2> SUFFICES ASSUME TypeOK, SettledOnDestroy, CloseNotLost, [Next]_vars,
                      ctor' = 7, stream' = "closed", ~Settled(closed_slot')
               PROVE  Pending("closed")'
    BY DEF CloseNotLost, Constructed
  <2>1. ~Settled(closed_slot) /\ ~destroyed
    BY SlotsLatch DEF SettledOnDestroy
  <2>2. CASE ctor = 7 /\ stream = "closed"
    <3>1. Pending("closed")
      BY <2>1, <2>2 DEF CloseNotLost, Constructed
    <3> QED
      BY <2>1, <3>1, PendingStays, HandleClosedSettles DEF Kinds
  <2>3. CASE ctor = 7 /\ stream # "closed"
    <3>1. Native /\ NativeClose
      BY <2>3 DEF Next, Native, Construct, Handle, Recv, Send, SetThreshold, Abandon,
                  Lifecycle, Teardown, PcDestroy, NativeStep, NativeOpen, NativeError,
                  NativeMessage, NativeDrain, Dispatch, native, vars
    <3>2. Registered("closed")
      BY <2>3 DEF Registered, Registration, TypeOK
    <3> QED
      BY <3>1, <3>2, PendingStarts DEF NativeClose, Kinds
  <2>4. CASE ctor # 7
    <3>1. SyncClosed /\ stream = "closed"
      BY <2>4 DEF TypeOK, Next, Native, Construct, Register, SyncOpen, Handle, Recv,
                  Send, SetThreshold, Abandon, Lifecycle, Teardown, PcDestroy, native, vars
    <3> QED
      BY <2>1, <3>1, SlotSettles DEF SyncClosed
  <2> QED
    BY <2>2, <2>3, <2>4
<1> QED
  BY <1>1, <1>2, TypeCorrect, DestroySettles, PTL DEF Spec

(* ---- Backpressure -------------------------------------------------------------------- *)

\* No send() before the object is built, and a send() that has handed over its data did
\* so on an open stream, whose close, if it closed since, is on its way.
NoSendBeforeBuilt == ctor < 7 => low_event /\ \A s \in Senders : send_at[s] = "idle"
SentOnOpenStream ==
    \A s \in Senders : send_at[s] = "sent" => stream = "open" \/ Pending("closed")

\* The low-water handler lifts the backpressure.
LEMMA HandleLowSettles ==
    ASSUME Handle, ready # <<>>, Head(ready).k = "low"
    PROVE  low_event' = TRUE
BY DEF Handle, HandleLow

\* Nobody sends on an object that is still under construction.
LEMMA NoSendBeforeBuiltInv == Spec => []NoSendBeforeBuilt
<1>1. Init => NoSendBeforeBuilt
  BY DEF Init, NoSendBeforeBuilt
<1>2. TypeOK /\ NoSendBeforeBuilt /\ [Next]_vars => NoSendBeforeBuilt'
  <2> SUFFICES ASSUME TypeOK, NoSendBeforeBuilt, [Next]_vars, ctor' < 7
               PROVE  low_event' /\ \A s \in Senders : send_at'[s] = "idle"
    BY DEF NoSendBeforeBuilt
  <2>1. ctor < 7
    BY DEF TypeOK, Next, Native, Construct, Register, SyncOpen, SyncClosed, Handle, Recv,
           Send, SetThreshold, Abandon, Lifecycle, Teardown, PcDestroy, vars
  <2>2. low_event /\ \A s \in Senders : send_at[s] = "idle"
    BY <2>1 DEF NoSendBeforeBuilt
  <2>3. ~LoopFree
    BY <2>1 DEF LoopFree, Constructed, TypeOK
  <2>4. UNCHANGED <<low_event, send_at>>
    BY <2>2, <2>3 DEF Next, Native, Construct, Handle, Recv, Send, SendStart, SendResume,
       SendNative, SendMark, SetThreshold, Abandon, Lifecycle, Teardown, PcDestroy,
       coroutines, vars
  <2> QED
    BY <2>2, <2>4
<1> QED
  BY <1>1, <1>2, TypeCorrect, PTL DEF Spec

\* While the loop is in a send() no handler runs.
LEMMA NoHandlerDuringSend ==
    ASSUME NEW s \in Senders, send_at[s] = "sent"
    PROVE  ~Handle
BY DEF Handle, LoopFree

\* When the stream of a finished channel closes, the closed callback is on its way.
LEMMA ClosingIsPending ==
    ASSUME TypeOK, ctor = 7, [Next]_vars, stream = "open", stream' # "open"
    PROVE  Pending("closed")'
<1>1. Native /\ NativeClose
  BY DEF Next, Native, Construct, Handle, Recv, Send, SetThreshold, Abandon,
         Lifecycle, Teardown, PcDestroy, NativeStep, NativeOpen, NativeError,
         NativeMessage, NativeDrain, Dispatch, native, vars
<1>2. Registered("closed")
  BY DEF Registered, Registration, TypeOK
<1> QED
  BY <1>1, <1>2, PendingStarts DEF NativeClose, Kinds

\* A send that has just returned from the library was on an open stream, or the close
\* is on its way.
LEMMA SentOnOpenStreamInv == Spec => []SentOnOpenStream
<1>1. Init => SentOnOpenStream
  BY DEF Init, SentOnOpenStream
<1>2. TypeOK /\ NoSendBeforeBuilt /\ SendOnLiveHandle /\ SentOnOpenStream /\ [Next]_vars
         => SentOnOpenStream'
  <2> SUFFICES ASSUME TypeOK, NoSendBeforeBuilt, SendOnLiveHandle, SentOnOpenStream,
                      [Next]_vars, NEW s \in Senders, send_at'[s] = "sent",
                      stream' # "open"
               PROVE  Pending("closed")'
    BY DEF SentOnOpenStream
  <2>1. send_at[s] = "sent"
    BY DEF TypeOK, Next, Native, Construct, Handle, HandleOpen, HandleClosed, HandleError,
           HandleMessage, HandleLow, Recv, Send, SendStart, SendResume, SendNative,
           SendMark, SetThreshold, Abandon, AbandonRecv, AbandonSend, Lifecycle, Teardown,
           PcDestroy, Destroy, Woken, coroutines, vars
  <2>2. ctor = 7 /\ ~destroyed
    BY <2>1 DEF NoSendBeforeBuilt, SendOnLiveHandle, TypeOK
  <2>3. CASE stream = "open"
    BY <2>2, <2>3, ClosingIsPending
  <2>4. CASE stream # "open"
    <3>1. Pending("closed")
      BY <2>1, <2>4 DEF SentOnOpenStream
    <3> QED
      BY <2>1, <2>2, <3>1, PendingStays, NoHandlerDuringSend DEF Kinds
  <2> QED
    BY <2>3, <2>4
<1> QED
  BY <1>1, <1>2, TypeCorrect, NoSendBeforeBuiltInv, SendsAreOnLiveHandles, PTL DEF Spec

\* With the threshold left at 0, a sender parked by backpressure always has something
\* coming that will release it.
THEOREM BackpressureLifts ==
    ASSUME Thresholds = {0}
    PROVE  Spec => []LowWaterRecoverable
<1>1. Init => LowWaterRecoverable
  BY DEF Init, LowWaterRecoverable
<1>2. TypeOK /\ TypeOK' /\ NoSendBeforeBuilt /\ SettledOnDestroy /\ SendOnLiveHandle
        /\ SentOnOpenStream /\ LowWaterRecoverable /\ [Next]_vars
        => LowWaterRecoverable'
  <2> SUFFICES ASSUME TypeOK, TypeOK', NoSendBeforeBuilt, SettledOnDestroy,
                      SendOnLiveHandle, SentOnOpenStream, LowWaterRecoverable,
                      [Next]_vars, ~low_event'
               PROVE  \/ stream' = "open" /\ buffered' > threshold'
                      \/ Pending("low")' \/ Pending("closed")'
    BY DEF LowWaterRecoverable
  <2>1. threshold = 0 /\ threshold' = 0
    BY DEF TypeOK
  <2>2. CASE low_event
    <3>1. PICK s \in Senders : SendMark(s) /\ Send(s)
      BY <2>2 DEF Next, Native, Construct, Handle, HandleOpen, HandleClosed, HandleError,
         HandleMessage, HandleLow, Recv, Send, SendStart, SendResume, SendNative,
         SetThreshold, Abandon, Lifecycle, Teardown, PcDestroy, Destroy, coroutines, vars
    <3>2. buffered > 0 /\ buffered' = buffered /\ stream' = stream /\ send_at[s] = "sent"
      BY <2>2, <3>1 DEF SendMark, Send
    <3>3. CASE stream = "open"
      BY <2>1, <3>2, <3>3
    <3>4. CASE Pending("closed")
      BY <3>2, <3>4, PendingStays, NoHandlerDuringSend DEF Kinds, SendOnLiveHandle
    <3> QED
      BY <3>2, <3>3, <3>4 DEF SentOnOpenStream
  <2>3. CASE ~low_event
    <3>1. ctor = 7 /\ ~destroyed
      BY <2>3 DEF NoSendBeforeBuilt, SettledOnDestroy, TypeOK
    <3>2. CASE Pending("low")
      BY <3>1, <3>2, PendingStays, HandleLowSettles DEF Kinds
    <3>3. CASE Pending("closed")
      BY <3>1, <3>3, PendingStays, HandleClosedSettles DEF Kinds
    <3>4. CASE stream = "open" /\ buffered > threshold
      <4>1. CASE stream' # "open"
        BY <3>1, <3>4, <4>1, ClosingIsPending
      <4>2. CASE Native /\ NativeDrain /\ stream' = "open"
        <5>1. CASE buffered' = 0
          <6>1. worker' = <<Callback("low")>>
            BY <2>1, <3>4, <4>2, <5>1 DEF NativeDrain, TypeOK
          <6>2. Registered("low")
            BY <3>1 DEF Registered, Registration, TypeOK
          <6> QED
            BY <4>2, <6>1, <6>2, PendingStarts DEF Kinds
        <5>2. CASE buffered' # 0
          BY <2>1, <4>2, <5>2 DEF TypeOK
        <5> QED
          BY <5>1, <5>2
      <4>3. CASE ~(Native /\ NativeDrain) /\ stream' = "open"
        <5>1. buffered' >= buffered
          <6>1. CASE Native
            BY <4>3, <6>1 DEF TypeOK, Native, NativeStep, NativeOpen, NativeClose,
                              NativeError, NativeMessage, Dispatch
          <6>2. ASSUME NEW s \in Senders, Send(s) PROVE buffered' >= buffered
            <7>1. buffered' = buffered \/ buffered' \in buffered..MaxBuffered
              BY <6>2 DEF Send, SendStart, SendResume, SendNative, SendMark
            <7> QED
              BY <7>1, BoundsAssumption DEF TypeOK
          <6>3. CASE ~Native /\ \A s \in Senders : ~Send(s)
            <7>1. buffered' = buffered
              BY <6>3 DEF Next, Construct, Handle, Recv, SetThreshold, Abandon, Lifecycle,
                          Teardown, PcDestroy, native, vars
            <7> QED
              BY <7>1 DEF TypeOK
          <6> QED
            BY <6>1, <6>2, <6>3
        <5> QED
          BY <2>1, <3>4, <4>3, <5>1 DEF TypeOK
      <4> QED
        BY <4>1, <4>2, <4>3
    <3> QED
      BY <2>3, <3>2, <3>3, <3>4 DEF LowWaterRecoverable
  <2> QED
    BY <2>2, <2>3
<1> QED
  BY <1>1, <1>2, TypeCorrect, NoSendBeforeBuiltInv, DestroySettles,
     SendsAreOnLiveHandles, SentOnOpenStreamInv, PTL DEF Spec
=============================================================================
