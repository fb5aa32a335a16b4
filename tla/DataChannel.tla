----------------------------- MODULE DataChannel -----------------------------
(***************************************************************************)
(* One DataChannel of aiolibdatachannel (data_channel.py over _core.py and *)
(* bindings.cpp): libdatachannel's worker thread fires callbacks, which    *)
(* the dispatcher posts to the asyncio loop; coroutines on the loop        *)
(* receive, send, wait, close; a teardown task, or the owning              *)
(* PeerConnection, destroys the native handle.                             *)
(*                                                                         *)
(* A step is the code a thread runs between two points where another       *)
(* thread or coroutine may run: an await on the loop, or a native call     *)
(* that releases the GIL.  While the constructor or a send() is between    *)
(* two native calls the loop runs nothing else, but the worker does.       *)
(***************************************************************************)
EXTENDS Naturals, Sequences, FutureSlot

CONSTANTS
    Receivers,      \* coroutines that call recv() or iterate the channel
    Senders,        \* coroutines that call send()
    Coroutines,     \* coroutines that call wait_open, wait_closed and aclose
    Owned,          \* those of them run by spawn_task()
    RecvBuffer,     \* maxsize of the receive queue
    Thresholds,     \* values given to set_buffered_amount_low_threshold
    MaxMessages,    \* bound: messages that arrive
    MaxBuffered,    \* bound: where the native send buffer saturates
    MaxReady        \* bound: callbacks posted to the loop and not yet run

ASSUME OwnedAssumption == Owned \subseteq Coroutines
ASSUME RecvBufferAssumption == RecvBuffer \in Nat \ {0}
ASSUME ThresholdsAssumption == Thresholds \subseteq Nat
ASSUME BoundsAssumption ==
    MaxMessages \in Nat /\ MaxBuffered \in Nat /\ MaxReady \in Nat

VARIABLES
    \* libdatachannel's side of the channel
    stream,         \* state of the SCTP stream
    worker,         \* the callback the worker thread is about to dispatch
    arrived,        \* messages handed to the callbacks so far
    buffered,       \* rtcGetBufferedAmount
    threshold,      \* the low-water mark of the send buffer
    \* the DataChannel object
    ctor,           \* how far __init__ has got
    ready,          \* callbacks that schedule() has posted to the loop
    destroyed, close_requested, open_slot, closed_slot,
    low_event,      \* _buffered_low_event
    recv_queue, tasks,
    teardown,       \* the task _teardown_task
    \* the coroutines
    recv_at, send_at, co_at,
    received        \* history: the messages recv() has returned

vars == <<stream, worker, arrived, buffered, threshold, ctor, ready, destroyed,
          close_requested, open_slot, closed_slot, low_event, recv_queue, tasks,
          teardown, recv_at, send_at, co_at, received>>

native == <<stream, worker, arrived, buffered, threshold>>
slots == <<open_slot, closed_slot>>
lifecycle == <<destroyed, close_requested, tasks, teardown>>
coroutines == <<recv_at, send_at, co_at>>

(* ---- Data ------------------------------------------------------------- *)

Sentinel == 0                       \* _CLOSED_SENTINEL
Messages == 1..MaxMessages          \* in the order of arrival

\* A callback: its kind and, for a message, which one.
Event == [k : {"open", "closed", "error", "message", "low"}, m : 0..MaxMessages]
Callback(kind) == [k |-> kind, m |-> 0]

\* The callbacks in the order __init__ registers them.
Registration == <<"open", "closed", "error", "message", "low">>
RegisteredOnceBuilt(kind) == ctor = 7   \* mutant: callbacks attached last
Registered(kind) == \E i \in 1..5 : i <= ctor /\ Registration[i] = kind
Constructed == ctor = 7

\* Nothing else runs on the loop while __init__ or send() is in native code.
LoopFree == Constructed /\ \A s \in Senders : send_at[s] \notin {"sending", "sent"}

\* Mutant: the queue is unbounded.
PutAlways(q, x) == Append(q, x)

\* asyncio.Queue.put_nowait with QueueFull suppressed.
PutNowait(q, x) == IF Len(q) < RecvBuffer THEN Append(q, x) ELSE q

\* Event.set releases every coroutine parked on the event.
Woken == [s \in Senders |-> IF send_at[s] = "parked" THEN "woken" ELSE send_at[s]]

TypeOK ==
    /\ stream \in {"connecting", "open", "closed"}
    /\ worker \in Seq(Event) /\ Len(worker) <= 1
    /\ arrived \in 0..MaxMessages
    /\ buffered \in 0..MaxBuffered
    /\ threshold \in Thresholds \cup {0}
    /\ ctor \in 0..7
    /\ ready \in Seq(Event)
    /\ destroyed \in BOOLEAN /\ close_requested \in BOOLEAN
    /\ open_slot \in SlotState /\ closed_slot \in SlotState
    /\ low_event \in BOOLEAN
    /\ recv_queue \in Seq(Messages \cup {Sentinel}) /\ Len(recv_queue) <= RecvBuffer
    /\ tasks \subseteq Owned
    /\ teardown \in {"none", "scheduled", "done"}
    /\ recv_at \in [Receivers -> {"idle", "blocked", "closed"}]
    /\ send_at \in [Senders -> {"idle", "parked", "woken", "sending", "sent"}]
    /\ co_at \in [Coroutines -> {"unspawned", "idle", "wait_open", "wait_closed",
                                 "aclose", "aclosed", "ended", "cancelled",
                                 "cancelling", "finished"}]
    /\ received \in Seq(Messages)

\* The handle may come from rtcCreateDataChannel, or from a peer whose channel is
\* open, or closed again, by the time the object is built.
Init ==
    /\ stream \in {"connecting", "open", "closed"}
    /\ worker = <<>> /\ arrived = 0 /\ buffered = 0 /\ threshold = 0
    /\ ctor = 0 /\ ready = <<>>
    /\ destroyed = FALSE /\ close_requested = FALSE
    /\ open_slot = "pending" /\ closed_slot = "pending"
    /\ low_event = TRUE /\ recv_queue = <<>>
    /\ tasks = {} /\ teardown = "none"
    /\ recv_at = [r \in Receivers |-> "idle"]
    /\ send_at = [s \in Senders |-> "idle"]
    /\ co_at = [c \in Coroutines |-> IF c \in Owned THEN "unspawned" ELSE "idle"]
    /\ received = <<>>

(* ---- The worker thread of libdatachannel (external), and _dispatch ------ *)

\* The channel calls back one event at a time, until it is deleted.
WorkerIdle == worker = <<>> /\ ~destroyed /\ Len(ready) < MaxReady

NativeOpen ==
    /\ WorkerIdle /\ stream = "connecting"
    /\ stream' = "open"
    /\ worker' = <<Callback("open")>>
    /\ UNCHANGED <<arrived, buffered, threshold>>

NativeClose ==
    /\ WorkerIdle /\ stream # "closed"
    /\ stream' = "closed"
    /\ worker' = <<Callback("closed")>>
    /\ UNCHANGED <<arrived, buffered, threshold>>

NativeError ==
    /\ WorkerIdle
    /\ \A i \in 1..Len(ready) : ready[i].k # "error"
    /\ worker' = <<Callback("error")>>
    /\ UNCHANGED <<stream, arrived, buffered, threshold>>

\* Messages that come before a message callback is registered wait in the
\* library: a message "arrives" when it is handed to the callback.
NativeMessage ==
    /\ WorkerIdle /\ stream = "open" /\ Registered("message")
    /\ arrived < MaxMessages
    /\ arrived' = arrived + 1
    /\ worker' = <<[k |-> "message", m |-> arrived + 1]>>
    /\ UNCHANGED <<stream, buffered, threshold>>

\* The network takes data from the send buffer; the low callback fires when the
\* buffered amount comes down to the threshold from above it.
NativeDrain ==
    /\ WorkerIdle /\ stream = "open"
    /\ \E b \in 0..MaxBuffered :
          /\ b < buffered
          /\ buffered' = b
          /\ worker' = IF buffered > threshold /\ b <= threshold
                       THEN <<Callback("low")>> ELSE <<>>
    /\ UNCHANGED <<stream, arrived, threshold>>

\* safe_call_dispatcher, _dispatch and the _cb_ trampolines: the callback of a
\* live, registered wrapper posts its handler to the loop, any other is dropped.
Dispatch ==
    /\ worker # <<>>
    /\ worker' = <<>>
    /\ ready' = IF Registered(Head(worker).k) /\ ~destroyed
                THEN Append(ready, Head(worker)) ELSE ready
    /\ UNCHANGED <<stream, arrived, buffered, threshold>>

NativeStep == NativeOpen \/ NativeClose \/ NativeError \/ NativeMessage \/ NativeDrain

Native ==
    /\ \/ NativeStep /\ UNCHANGED ready
       \/ Dispatch
    /\ UNCHANGED <<ctor, low_event, recv_queue, received, slots, lifecycle, coroutines>>

(* ---- __init__ ------------------------------------------------------------ *)

\* set_on_*: registering the open callback on an open channel fires it at once,
\* on this thread.  Whether a closed channel does the same is the library's affair.
Register ==
    /\ ctor < 5
    /\ ctor' = ctor + 1
    /\ \E fire \in BOOLEAN :
          /\ ctor = 0 => fire = (stream = "open")
          /\ fire => \/ ctor = 0
                     \/ ctor = 1 /\ stream = "closed"
          /\ ready' = IF fire THEN Append(ready, Callback(Registration[ctor + 1]))
                      ELSE ready
    /\ UNCHANGED <<slots, recv_queue>>

\* The channel may have opened before its callback was attached.
SyncOpen ==
    /\ ctor = 5
    /\ ctor' = 6
    /\ open_slot' = IF stream = "open" THEN SlotSet(open_slot) ELSE open_slot
    /\ UNCHANGED <<ready, closed_slot, recv_queue>>

\* Mutant: __init__ does not look whether the channel is closed already.
SkipSyncClosed ==
    /\ ctor = 6
    /\ ctor' = 7
    /\ UNCHANGED <<ready, slots, recv_queue>>

SyncClosed ==
    /\ ctor = 6
    /\ ctor' = 7
    /\ closed_slot' = IF stream = "closed" THEN SlotSet(closed_slot) ELSE closed_slot
    /\ recv_queue' = IF stream = "closed" THEN PutNowait(recv_queue, Sentinel)
                     ELSE recv_queue
    /\ UNCHANGED <<ready, open_slot>>

Construct ==
    /\ Register \/ SyncOpen \/ SyncClosed
    /\ UNCHANGED <<native, low_event, received, lifecycle, coroutines>>

(* ---- Handlers run by the loop -------------------------------------------- *)

HandleOpen ==
    /\ open_slot' = SlotSet(open_slot)
    /\ UNCHANGED <<closed_slot, low_event, recv_queue, send_at>>

\* Mutants: _handle_closed forgets the parked senders, the readers, wait_open().
HandleClosedKeepsParked ==
    /\ closed_slot' = SlotSet(closed_slot) /\ open_slot' = SlotFail(open_slot)
    /\ recv_queue' = PutNowait(recv_queue, Sentinel)
    /\ UNCHANGED <<low_event, send_at>>
HandleClosedKeepsReaders ==
    /\ closed_slot' = SlotSet(closed_slot) /\ open_slot' = SlotFail(open_slot)
    /\ low_event' = TRUE /\ send_at' = Woken
    /\ UNCHANGED recv_queue
HandleClosedKeepsOpen ==
    /\ closed_slot' = SlotSet(closed_slot)
    /\ low_event' = TRUE /\ send_at' = Woken
    /\ recv_queue' = PutNowait(recv_queue, Sentinel)
    /\ UNCHANGED open_slot

\* _handle_closed: settle the slots, release parked senders, end the stream.
HandleClosed ==
    /\ closed_slot' = SlotSet(closed_slot)
    /\ open_slot' = SlotFail(open_slot)
    /\ low_event' = TRUE
    /\ send_at' = Woken
    /\ recv_queue' = PutNowait(recv_queue, Sentinel)

HandleError ==
    /\ open_slot' = SlotFail(open_slot)
    /\ UNCHANGED <<closed_slot, low_event, recv_queue, send_at>>

\* Mutants: a full queue drops the new message, or puts it first.
HandleMessageDropNewest(m) ==
    /\ recv_queue' = PutNowait(recv_queue, m)
    /\ UNCHANGED <<open_slot, closed_slot, low_event, send_at>>
HandleMessageFirst(m) ==
    /\ recv_queue' = IF Len(recv_queue) < RecvBuffer THEN Append(recv_queue, m)
                     ELSE <<m>> \o Tail(recv_queue)
    /\ UNCHANGED <<open_slot, closed_slot, low_event, send_at>>

\* A full queue drops its oldest item for the new message.
HandleMessage(m) ==
    /\ recv_queue' = IF Len(recv_queue) < RecvBuffer THEN Append(recv_queue, m)
                     ELSE Append(Tail(recv_queue), m)
    /\ UNCHANGED <<open_slot, closed_slot, low_event, send_at>>

HandleLow ==
    /\ low_event' = TRUE
    /\ send_at' = Woken
    /\ UNCHANGED <<open_slot, closed_slot, recv_queue>>

Handle ==
    /\ LoopFree /\ ready # <<>>
    /\ ready' = Tail(ready)
    /\ LET e == Head(ready)
       IN  \/ e.k = "open" /\ HandleOpen
           \/ e.k = "closed" /\ HandleClosed
           \/ e.k = "error" /\ HandleError
           \/ e.k = "message" /\ HandleMessage(e.m)
           \/ e.k = "low" /\ HandleLow
    /\ UNCHANGED <<native, ctor, lifecycle, recv_at, co_at, received>>

(* ---- recv ----------------------------------------------------------------- *)

RecvMessage(r) ==
    /\ recv_queue # <<>> /\ Head(recv_queue) # Sentinel
    /\ received' = Append(received, Head(recv_queue))
    /\ recv_queue' = Tail(recv_queue)
    /\ recv_at' = [recv_at EXCEPT ![r] = "idle"]

\* Mutant: the sentinel is not put back.
RecvClosedOnce(r) ==
    /\ recv_queue # <<>> /\ Head(recv_queue) = Sentinel
    /\ recv_queue' = Tail(recv_queue)
    /\ recv_at' = [recv_at EXCEPT ![r] = "closed"]
    /\ UNCHANGED received

\* ConnectionClosedError; the sentinel goes back, to the end of the queue.
RecvClosed(r) ==
    /\ recv_queue # <<>> /\ Head(recv_queue) = Sentinel
    /\ recv_queue' = Append(Tail(recv_queue), Sentinel)
    /\ recv_at' = [recv_at EXCEPT ![r] = "closed"]
    /\ UNCHANGED received

RecvBlock(r) ==
    /\ recv_queue = <<>> /\ recv_at[r] # "blocked"
    /\ recv_at' = [recv_at EXCEPT ![r] = "blocked"]
    /\ UNCHANGED <<recv_queue, received>>

Recv(r) ==
    /\ LoopFree
    /\ RecvMessage(r) \/ RecvClosed(r) \/ RecvBlock(r)
    /\ UNCHANGED <<native, ctor, ready, low_event, slots, lifecycle, send_at, co_at>>

(* ---- send ----------------------------------------------------------------- *)

MaySendUnlessClosed == stream # "closed"    \* mutant: _destroyed is not checked

\* send() refuses a channel that is destroyed or closed.
MaySend == ~destroyed /\ stream # "closed"

\* Enter send(): park until the send buffer is low, or go on to the native call.
SendStart(s) ==
    /\ LoopFree /\ send_at[s] = "idle" /\ MaySend
    /\ \E wait_for_drain \in BOOLEAN :
          send_at' = [send_at EXCEPT ![s] =
                         IF wait_for_drain /\ ~low_event THEN "parked" ELSE "sending"]
    /\ UNCHANGED <<buffered, low_event>>

\* The parked sender resumes and checks the channel again.
SendResume(s) ==
    /\ LoopFree /\ send_at[s] = "woken"
    /\ send_at' = [send_at EXCEPT ![s] = IF MaySend THEN "sending" ELSE "idle"]
    /\ UNCHANGED <<buffered, low_event>>

\* rtcSendMessage without the GIL: an RTCError unless the stream is open (it may
\* have closed since the check), else some of the data stays in the send buffer.
SendNative(s) ==
    /\ send_at[s] = "sending"
    /\ \/ /\ stream = "open"
          /\ buffered' \in buffered..MaxBuffered
          /\ send_at' = [send_at EXCEPT ![s] = "sent"]
       \/ /\ stream # "open"
          /\ send_at' = [send_at EXCEPT ![s] = "idle"]
          /\ UNCHANGED buffered
    /\ UNCHANGED low_event

\* Mutant: the flag is cleared though nothing is buffered.
SendMarkAlways(s) ==
    /\ send_at[s] = "sent"
    /\ low_event' = FALSE
    /\ send_at' = [send_at EXCEPT ![s] = "idle"]
    /\ UNCHANGED buffered

\* The end of send(): the next send waits if data is still buffered.
SendMark(s) ==
    /\ send_at[s] = "sent"
    /\ low_event' = IF buffered > 0 THEN FALSE ELSE low_event
    /\ send_at' = [send_at EXCEPT ![s] = "idle"]
    /\ UNCHANGED buffered

Send(s) ==
    /\ SendStart(s) \/ SendResume(s) \/ SendNative(s) \/ SendMark(s)
    /\ UNCHANGED <<stream, worker, arrived, threshold, ctor, ready, recv_queue, received,
                   slots, lifecycle, recv_at, co_at>>

\* A recv() or a send() is cancelled at its await; nothing is lost or kept with it.
AbandonRecv(r) == /\ recv_at[r] = "blocked"
                  /\ recv_at' = [recv_at EXCEPT ![r] = "idle"]
                  /\ UNCHANGED send_at
AbandonSend(s) == /\ send_at[s] \in {"parked", "woken"}
                  /\ send_at' = [send_at EXCEPT ![s] = "idle"]
                  /\ UNCHANGED recv_at

Abandon ==
    /\ LoopFree
    /\ \/ \E r \in Receivers : AbandonRecv(r)
       \/ \E s \in Senders : AbandonSend(s)
    /\ UNCHANGED <<native, ctor, ready, low_event, recv_queue, received, slots, lifecycle,
                   co_at>>

\* set_buffered_amount_low_threshold
SetThreshold(t) ==
    /\ LoopFree /\ ~destroyed
    /\ threshold' = t
    /\ UNCHANGED <<stream, worker, arrived, buffered, ctor, ready, low_event,
                   recv_queue, received, slots, lifecycle, coroutines>>

(* ---- Waiting, tasks, shutdown ---------------------------------------------- *)

SpawnTask(c) ==
    /\ c \in Owned /\ co_at[c] = "unspawned" /\ ~close_requested
    /\ tasks' = tasks \cup {c}
    /\ co_at' = [co_at EXCEPT ![c] = "idle"]
    /\ UNCHANGED <<close_requested, teardown, slots, recv_queue>>

\* An owned task returns; the done callback discards it from _tasks.
FinishTask(c) ==
    /\ c \in tasks /\ co_at[c] \notin {"wait_open", "wait_closed", "aclose"}
    /\ tasks' = tasks \ {c}
    /\ co_at' = [co_at EXCEPT ![c] = "finished"]
    /\ UNCHANGED <<close_requested, teardown, slots, recv_queue>>

\* wait_open and wait_closed await a slot's future.
Await(c) ==
    /\ co_at[c] = "idle"
    /\ \E call \in {"wait_open", "wait_closed"} : co_at' = [co_at EXCEPT ![c] = call]
    /\ UNCHANGED <<close_requested, tasks, teardown, slots, recv_queue>>

\* The slot a coroutine is awaiting.
Awaited(c) == IF co_at[c] = "wait_open" THEN open_slot ELSE closed_slot

\* The awaited future is done: the call returns, raises the slot's exception, or
\* raises CancelledError if the future itself was cancelled.
Return(c) ==
    /\ co_at[c] \in {"wait_open", "wait_closed", "aclose"}
    /\ Settled(Awaited(c))
    /\ co_at' = [co_at EXCEPT ![c] =
                    CASE Awaited(c) = "cancelled" -> "cancelled"
                      [] Awaited(c) = "result" /\ co_at[c] = "aclose" -> "aclosed"
                      [] OTHER -> "ended"]
    /\ UNCHANGED <<close_requested, tasks, teardown, slots, recv_queue>>

\* Cancelling a coroutine cancels the future it is awaiting.
CancelSlots(openWaiters, closedWaiters) ==
    /\ open_slot' = IF openWaiters # {} THEN SlotCancel(open_slot) ELSE open_slot
    /\ closed_slot' = IF closedWaiters # {} THEN SlotCancel(closed_slot)
                      ELSE closed_slot
Waiters(cs, calls) == {c \in cs : co_at[c] \in calls}

\* What the loop owes a coroutine: the end of an await that is over, or the
\* cancellation it was sent.
Resume(c) == Return(c) \/ (co_at[c] = "cancelling" /\ FinishTask(c))

\* A caller gives up waiting (asyncio.wait_for, task.cancel).
CancelWait(c) ==
    /\ co_at[c] \in {"wait_open", "wait_closed", "aclose"}
    /\ CancelSlots(Waiters({c}, {"wait_open"}), Waiters({c}, {"wait_closed", "aclose"}))
    /\ co_at' = [co_at EXCEPT ![c] = "ended"]
    /\ UNCHANGED <<close_requested, tasks, teardown, recv_queue>>

\* What close() does besides cancelling the owned tasks.
BeginClose ==
    /\ ~close_requested
    /\ close_requested' = TRUE
    /\ recv_queue' = PutNowait(recv_queue, Sentinel)
    /\ teardown' = "scheduled"
    /\ UNCHANGED tasks

TasksKept == co_at      \* mutant: close() leaves the owned tasks running
TasksCancelled == [c \in Coroutines |-> IF c \in tasks THEN "cancelling" ELSE co_at[c]]

Close ==
    /\ BeginClose
    /\ CancelSlots(Waiters(tasks, {"wait_open"}), Waiters(tasks, {"wait_closed"}))
    /\ co_at' = TasksCancelled

\* aclose() as the first to close.  An owned task cancels itself here, and with
\* itself the closed future it goes on to await.
AcloseFirst(c) ==
    /\ co_at[c] = "idle"
    /\ BeginClose
    /\ CancelSlots(Waiters(tasks, {"wait_open"}),
                   Waiters(tasks, {"wait_closed"}) \cup (tasks \cap {c}))
    /\ co_at' = IF c \in tasks THEN TasksCancelled
                ELSE [TasksCancelled EXCEPT ![c] = "aclose"]

AcloseAgain(c) ==
    /\ co_at[c] = "idle" /\ close_requested
    /\ co_at' = [co_at EXCEPT ![c] = "aclose"]
    /\ UNCHANGED <<close_requested, tasks, teardown, slots, recv_queue>>

\* Steps that leave the native handle alone.
Lifecycle ==
    /\ LoopFree
    /\ \/ Close
       \/ \E c \in Coroutines :
             \/ SpawnTask(c) \/ FinishTask(c) \/ Await(c) \/ Return(c)
             \/ CancelWait(c) \/ AcloseFirst(c) \/ AcloseAgain(c)
    /\ UNCHANGED <<native, ctor, ready, destroyed, low_event, recv_at, send_at, received>>

\* Mutant: _destroy leaves it to the closed callback to settle the slots.
DestroyQuietly ==
    /\ destroyed' = TRUE
    /\ UNCHANGED <<slots, low_event, send_at, recv_queue>>

\* _destroy: the registry forgets the wrapper, the native channel is deleted, and
\* the close is handled whether or not a callback reported it.
Destroy ==
    \/ /\ ~destroyed
       /\ destroyed' = TRUE
       /\ HandleClosed
    \/ destroyed /\ UNCHANGED <<destroyed, slots, low_event, send_at, recv_queue>>

\* _teardown, once the owned tasks it gathers are done.  Its finally clause finds
\* the closed slot settled by _destroy.
Teardown ==
    /\ LoopFree /\ teardown = "scheduled" /\ tasks = {}
    /\ teardown' = "done"
    /\ Destroy
    /\ UNCHANGED <<native, ctor, ready, close_requested, tasks, recv_at, co_at, received>>

\* The owning PeerConnection's _teardown destroys every channel it knows.
PcDestroy ==
    /\ LoopFree /\ ~destroyed
    /\ Destroy
    /\ UNCHANGED <<native, ctor, ready, close_requested, tasks, teardown, recv_at, co_at, received>>

Next ==
    \/ Native \/ Construct \/ Handle
    \/ \E r \in Receivers : Recv(r)
    \/ \E s \in Senders : Send(s)
    \/ \E t \in Thresholds : SetThreshold(t)
    \/ Abandon \/ Lifecycle \/ Teardown \/ PcDestroy

Spec == Init /\ [][Next]_vars

(***************************************************************************)
(* Fairness.  The worker runs; __init__ and the native part of a send      *)
(* return; and the loop runs everything that is scheduled, in FIFO order,  *)
(* so a step the loop can take again and again is taken (SF: the loop is   *)
(* busy whenever a send is in native code).  The network drains the send   *)
(* buffer while the stream is open.  No caller need make any call.         *)
(***************************************************************************)
Fairness ==
    /\ WF_vars(Dispatch /\ Native) /\ SF_vars(NativeDrain /\ Native)
    /\ WF_vars(Construct)
    /\ SF_vars(Handle) /\ SF_vars(Teardown)
    /\ \A r \in Receivers : SF_vars(recv_at[r] = "blocked" /\ Recv(r))
    /\ \A s \in Senders : SF_vars(send_at[s] # "idle" /\ Send(s))
    /\ \A c \in Coroutines : SF_vars(Lifecycle /\ Resume(c))

LiveSpec == Spec /\ Fairness

(* ---- Properties ------------------------------------------------------------- *)

\* A callback of this kind is on its way to its handler.
Pending(kind) ==
    \/ worker # <<>> /\ Head(worker).k = kind /\ Registered(kind)
    \/ \E i \in 1..Len(ready) : ready[i].k = kind

InQueue(x) == \E i \in 1..Len(recv_queue) : recv_queue[i] = x

\* An opening that comes before, during or after the registration of the callbacks
\* in __init__ is not lost: once the object is built on an open stream, wait_open()
\* is settled or the open callback is on its way.
OpenNotLost ==
    Constructed /\ stream = "open" => Settled(open_slot) \/ Pending("open")

\* The same for closing: a channel that closes at any moment of its construction
\* settles wait_closed(), now or by a callback on its way.
CloseNotLost ==
    Constructed /\ stream = "closed" => Settled(closed_slot) \/ Pending("closed")

\* send() calls the native library on a handle that has not been deleted, however
\* long it was parked and whoever destroyed the channel meanwhile.
SendOnLiveHandle ==
    \A s \in Senders : send_at[s] \in {"sending", "sent"} => ~destroyed

\* _destroy leaves nobody waiting: both slots are settled, the low-water event is
\* set for good and no sender is parked on it, whether or not the library ever
\* reported the close.
SettledOnDestroy ==
    destroyed => /\ Settled(open_slot) /\ Settled(closed_slot)
                 /\ low_event
                 /\ \A s \in Senders : send_at[s] # "parked"

\* Backpressure is never left on with nothing to lift it: when the low-water event
\* is clear, the buffer is still above the threshold, so that draining it will fire
\* the callback, or the callback or the close is on its way.  Holds when the
\* threshold is left at 0.
LowWaterRecoverable ==
    ~low_event => \/ stream = "open" /\ buffered > threshold
                  \/ Pending("low") \/ Pending("closed")

\* A full receive queue drops the oldest message, never the newest: the last message
\* that arrived has been received, is queued, or is on its way.
NewestKept ==
    ~destroyed /\ arrived > 0 =>
        \/ received # <<>> /\ received[Len(received)] = arrived
        \/ InQueue(arrived) \/ Pending("message")

\* After close() every task still owned has been cancelled and none has been added,
\* whoever called close(): the teardown's gather waits for no other task.
TasksCancelledOnClose ==
    close_requested => \A c \in tasks : co_at[c] = "cancelling"

\* A recv() that waits on an empty queue is on a channel whose handle is still live.
NoReaderStranded ==
    (\E r \in Receivers : recv_at[r] = "blocked") /\ recv_queue = <<>> => ~destroyed

\* No reader is left behind, as long as the messages that have arrived cannot fill the
\* queue: however the close sentinels and the messages are mixed in it, and however
\* often the sentinel has been moved, destruction leaves one for whoever waits.
ReadersWoken == arrived < RecvBuffer => NoReaderStranded

\* Readers see a lossy stream in the order of arrival, whatever the queue drops and
\* wherever the close sentinel has been moved to.
Stream == INSTANCE LossyStream WITH got <- received
StreamSpec == Stream!Spec

\* A sender parked by backpressure is released: by the drain, by the close of the
\* stream, or by the destruction of the channel.
SendersReleased ==
    \A s \in Senders : send_at[s] = "parked" ~> send_at[s] # "parked"

\* A shutdown that is triggered reaches the native handle.
ShutdownCompletes == close_requested ~> destroyed

\* A reader waiting when the channel is closed, from either side, is woken.
ReadersReleased ==
    \A r \in Receivers :
        recv_at[r] = "blocked" /\ Constructed /\ (close_requested \/ stream = "closed")
            ~> recv_at[r] # "blocked"

\* wait_open() returns or raises once the stream opens or the channel is destroyed.
OpenersReturn ==
    \A c \in Coroutines :
        co_at[c] = "wait_open" /\ (destroyed \/ stream = "open")
            ~> co_at[c] # "wait_open"

\* aclose() returns after the shutdown: tasks drained, handle released.
AcloseReleases == \A c \in Coroutines : co_at[c] = "aclosed" => destroyed

\* Waiting is safe to do concurrently: a coroutine that nobody cancelled does not
\* get a CancelledError from wait_open(), wait_closed() or aclose().
NoSpuriousCancel == \A c \in Coroutines : co_at[c] # "cancelled"
=============================================================================
