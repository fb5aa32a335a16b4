---------------------------- MODULE PeerConnection ----------------------------
(***************************************************************************)
(* The lifecycle of a PeerConnection (peer_connection.py): callbacks of    *)
(* libdatachannel posted to the loop, the queues behind the iterators, the *)
(* data channels, the owned tasks, and the shutdown that close() starts.   *)
(*                                                                         *)
(* A step is what the loop runs between two awaits, what the worker thread *)
(* does before it lets go of the GIL, or what a pool thread does in one    *)
(* call.  The futures of create_offer() and its kin are the module         *)
(* Negotiation, the remote candidates are RemoteCandidates, and what       *)
(* destroying a channel does to its users is PcDestroy of DataChannel.     *)
(***************************************************************************)
EXTENDS Naturals, Sequences

CONSTANTS
    Channels,           \* handles of data channels, created here or by the peer
    Coroutines,         \* coroutines that call the methods of the connection
    Owned,              \* those of them run by spawn_task()
    Sentinel,           \* the None that ends an iterator
    MaxCallbacks        \* bound: callbacks of the native connection

ASSUME OwnedAssumption == Owned \subseteq Coroutines
ASSUME SentinelAssumption == Sentinel \notin Channels \cup {"candidate", "end", "other", "event"}
ASSUME HandlesAssumption == Channels \cap {"candidate", "end", "other"} = {}
ASSUME BoundAssumption == MaxCallbacks \in Nat

VARIABLES
    \* libdatachannel's side of the connection, and _core.PeerConnection
    alive,              \* in the registry: callbacks are looked up
    callbacks,          \* how many the worker thread has begun
    looked_up,          \* the callback the worker has found a handler for
    worker,             \* the callback it has entered
    \* the PeerConnection object
    ready,              \* handlers that schedule() has posted to the loop
    queues,             \* _ice_candidates, _incoming_dc and _events_queue
    dc,                 \* how far each data channel has got
    closed, closed_event, tasks, teardown,
    at,                 \* where each coroutine is
    incoming, accepted  \* history: incoming channels wrapped, channels consumers got

vars == <<alive, callbacks, looked_up, worker, ready, queues, dc, closed, closed_event,
          tasks, teardown, at, incoming, accepted>>

native == <<alive, callbacks, looked_up, worker>>
shutdown == <<closed, closed_event, tasks, teardown>>

Queue == {"ice", "incoming", "events"}
Items == [ice |-> {"candidate", Sentinel}, incoming |-> Channels \cup {Sentinel},
          events |-> {"event", Sentinel}]
QueuesOK(qs) ==
    qs = [q \in Queue |-> qs[q]] /\ \A q \in Queue : qs[q] \in Seq(Items[q])

\* A callback carries a candidate, the end of the gathering or of the connection, any
\* other report, or the handle of a channel the peer has opened.
Callback == Channels \cup {"candidate", "end", "other"}
Nothing == <<>>

\* What a coroutine awaits: an item of a queue, or the end of the shutdown.
Awaiting == Queue \cup {"closing"}

TypeOK ==
    /\ alive \in BOOLEAN /\ callbacks \in 0..MaxCallbacks
    /\ worker \in Seq(Callback) /\ looked_up \in Seq(Callback) /\ ready \in Seq(Callback)
    /\ QueuesOK(queues)
    /\ dc \in [Channels -> {"none", "announced", "wrapped", "destroyed"}]
    /\ closed \in BOOLEAN /\ closed_event \in BOOLEAN
    /\ tasks \subseteq Owned
    /\ teardown \in {"none", "scheduled", "deleting", "popped", "deleted", "done"}
    /\ at \in [Coroutines -> Awaiting \cup {"unspawned", "idle", "cancelling", "finished"}]
    /\ incoming \subseteq Channels
    /\ accepted \in Seq(Channels)

Init ==
    /\ alive = TRUE /\ callbacks = 0 /\ looked_up = Nothing /\ worker = Nothing
    /\ ready = <<>>
    /\ queues = [q \in Queue |-> <<>>]
    /\ dc = [h \in Channels |-> "none"]
    /\ closed = FALSE /\ closed_event = FALSE /\ tasks = {} /\ teardown = "none"
    /\ at = [c \in Coroutines |-> IF c \in Owned THEN "unspawned" ELSE "idle"]
    /\ incoming = {} /\ accepted = <<>>

(* ---- The worker thread of libdatachannel, and _dispatch ------------------- *)

\* A trampoline is entered, unless delete_peer_connection has cleared the callbacks.
Enter ==
    /\ teardown \notin {"deleted", "done"}
    /\ worker = Nothing /\ looked_up = Nothing /\ callbacks < MaxCallbacks
    /\ callbacks' = callbacks + 1
    /\ \/ \E e \in {"candidate", "end", "other"} : worker' = <<e>> /\ UNCHANGED dc
       \/ \E h \in Channels : /\ dc[h] = "none" /\ worker' = <<h>>
                              /\ dc' = [dc EXCEPT ![h] = "announced"]
    /\ UNCHANGED <<alive, looked_up, ready, queues, shutdown, at, incoming, accepted>>

\* The handle and the kind are looked up; a connection that has left the registry is
\* not found and the callback is dropped.
LookUp ==
    /\ worker # Nothing
    /\ worker' = Nothing
    /\ looked_up' = IF alive THEN worker ELSE Nothing
    /\ UNCHANGED <<alive, callbacks, ready, queues, dc, shutdown, at, incoming, accepted>>

\* The handler found is called: it posts to the loop.
Schedule ==
    /\ looked_up # Nothing
    /\ looked_up' = Nothing
    /\ ready' = Append(ready, Head(looked_up))
    /\ UNCHANGED <<alive, callbacks, worker, queues, dc, shutdown, at, incoming, accepted>>

(* ---- Handlers run by the loop ---------------------------------------------- *)

PutIn(qs, q, x) == [qs EXCEPT ![q] = Append(@, x)]
Emit(qs) == PutIn(qs, "events", "event")

HandleCandidate ==
    queues' = Emit(PutIn(queues, "ice", "candidate")) /\ UNCHANGED <<dc, incoming>>

\* Gathering complete, or a connection that failed or closed.
HandleEnd ==
    queues' = PutIn(Emit(queues), "ice", Sentinel) /\ UNCHANGED <<dc, incoming>>

\* Mutant: the report itself is queued, not an event that tells what it is.
HandleOtherRaw ==
    queues' = PutIn(queues, "events", "other") /\ UNCHANGED <<dc, incoming>>

HandleOther ==
    queues' = Emit(queues) /\ UNCHANGED <<dc, incoming>>

\* Mutant: a channel that comes after close() is wrapped and then forgotten.
HandleChannelUnlessClosed(h) ==
    /\ dc' = [dc EXCEPT ![h] = "wrapped"]
    /\ incoming' = incoming \cup {h}
    /\ queues' = IF closed THEN queues ELSE Emit(PutIn(queues, "incoming", h))

HandleChannel(h) ==
    /\ dc' = [dc EXCEPT ![h] = "wrapped"]
    /\ incoming' = incoming \cup {h}
    /\ queues' = Emit(PutIn(queues, "incoming", h))

Handle ==
    /\ ready # <<>>
    /\ ready' = Tail(ready)
    /\ LET e == Head(ready)
       IN  \/ e = "candidate" /\ HandleCandidate
           \/ e = "end" /\ HandleEnd
           \/ e = "other" /\ HandleOther
           \/ e \in Channels /\ HandleChannel(e)
    /\ UNCHANGED <<native, shutdown, at, accepted>>

(* ---- Channels, iterators, owned tasks ----------------------------------------- *)

\* create_data_channel, which libdatachannel grants until the connection is deleted: the
\* handle is wrapped before anything else runs on the loop.
CreateChannel ==
    /\ teardown \notin {"deleted", "done"}
    /\ \E h \in Channels : dc[h] = "none" /\ dc' = [dc EXCEPT ![h] = "wrapped"]
    /\ UNCHANGED <<native, ready, queues, shutdown, at, incoming, accepted>>

\* An iterator, or accept_data_channel, asks for its next item.
Get(c) ==
    /\ at[c] = "idle"
    /\ \E q \in Queue : at' = [at EXCEPT ![c] = q]
    /\ UNCHANGED <<queues, tasks, accepted>>

GotItem(c) ==
    /\ at[c] \in Queue
    /\ LET q == at[c]
       IN  /\ queues[q] # <<>> /\ Head(queues[q]) # Sentinel
           /\ queues' = [queues EXCEPT ![q] = Tail(@)]
           /\ accepted' = IF q = "incoming" THEN Append(accepted, Head(queues[q]))
                          ELSE accepted
    /\ at' = [at EXCEPT ![c] = "idle"]
    /\ UNCHANGED tasks

\* Mutant: the sentinel ends one consumer only.
GotSentinelOnce(c) ==
    /\ at[c] \in Queue
    /\ queues[at[c]] # <<>> /\ Head(queues[at[c]]) = Sentinel
    /\ queues' = [queues EXCEPT ![at[c]] = Tail(@)]
    /\ at' = [at EXCEPT ![c] = "idle"]
    /\ UNCHANGED <<tasks, accepted>>

\* The sentinel ends the iterator and goes back for the other consumers.
GotSentinel(c) ==
    /\ at[c] \in Queue
    /\ queues[at[c]] # <<>> /\ Head(queues[at[c]]) = Sentinel
    /\ queues' = [queues EXCEPT ![at[c]] = Append(Tail(@), Sentinel)]
    /\ at' = [at EXCEPT ![c] = "idle"]
    /\ UNCHANGED <<tasks, accepted>>

\* wait_closed, and aclose() on a connection already closed.
WaitClosed(c) ==
    /\ at[c] = "idle" /\ ~closed_event
    /\ at' = [at EXCEPT ![c] = "closing"]
    /\ UNCHANGED <<queues, tasks, accepted>>

\* Mutant: spawn_task() does not ask whether the connection is closed.
SpawnTaskAnyway(c) ==
    /\ c \in Owned /\ at[c] = "unspawned"
    /\ tasks' = tasks \cup {c}
    /\ at' = [at EXCEPT ![c] = "idle"]
    /\ UNCHANGED <<queues, accepted>>

SpawnTask(c) ==
    /\ c \in Owned /\ at[c] = "unspawned" /\ ~closed
    /\ tasks' = tasks \cup {c}
    /\ at' = [at EXCEPT ![c] = "idle"]
    /\ UNCHANGED <<queues, accepted>>

\* An owned task returns, or takes its cancellation; _tasks forgets it.
FinishTask(c) ==
    /\ c \in tasks /\ at[c] \in {"idle", "cancelling"}
    /\ tasks' = tasks \ {c}
    /\ at' = [at EXCEPT ![c] = "finished"]
    /\ UNCHANGED <<queues, accepted>>

\* What the loop does for a coroutine by itself.
Resume(c) == GotItem(c) \/ GotSentinel(c) \/ (at[c] = "cancelling" /\ FinishTask(c))

Run ==
    /\ \E c \in Coroutines :
          Resume(c) \/ WaitClosed(c) \/ Get(c) \/ SpawnTask(c) \/ FinishTask(c)
    /\ UNCHANGED <<native, ready, dc, closed, closed_event, teardown, incoming>>

\* A caller gives up waiting (asyncio.wait_for, task.cancel): nothing is taken.
CancelWait ==
    /\ \E c \in Coroutines \ tasks :
          at[c] \in Awaiting /\ at' = [at EXCEPT ![c] = "idle"]
    /\ UNCHANGED <<native, ready, queues, dc, shutdown, incoming, accepted>>

(* ---- Shutdown ----------------------------------------------------------------- *)

\* Mutant: the owned tasks are not cancelled.
TasksKept == at

\* Cancelling the owned tasks, wherever they are.
TasksCancelled == [c \in Coroutines |-> IF c \in tasks THEN "cancelling" ELSE at[c]]

\* Mutant: close() ends the iterators over channels and events only.
CloseButCandidates ==
    /\ ~closed
    /\ closed' = TRUE
    /\ queues' = PutIn(PutIn(queues, "incoming", Sentinel), "events", Sentinel)
    /\ at' = TasksCancelled
    /\ teardown' = "scheduled"
    /\ UNCHANGED <<native, ready, dc, closed_event, tasks, incoming, accepted>>

\* close(): end the iterators, cancel the owned tasks, schedule the teardown.  An owned
\* task that closes is cancelled too.  aclose() is this, then WaitClosed.
Close ==
    /\ ~closed
    /\ closed' = TRUE
    /\ queues' = [q \in Queue |-> Append(queues[q], Sentinel)]
    /\ at' = TasksCancelled
    /\ teardown' = "scheduled"
    /\ UNCHANGED <<native, ready, dc, closed_event, tasks, incoming, accepted>>

\* _teardown, once the owned tasks it gathers are done: every channel wrapped so far is
\* destroyed and the destruction of the connection is handed to the pool.
DestroyChannels ==
    /\ teardown = "scheduled" /\ tasks = {}
    /\ teardown' = "deleting"
    /\ dc' = [h \in Channels |-> IF dc[h] = "wrapped" THEN "destroyed" ELSE dc[h]]
    /\ UNCHANGED <<native, ready, queues, closed, closed_event, tasks, at, incoming, accepted>>

\* In the pool: the wrapper forgets its callbacks and leaves the registry...
PopNative ==
    /\ teardown = "deleting"
    /\ teardown' = "popped"
    /\ alive' = FALSE
    /\ UNCHANGED <<callbacks, looked_up, worker, ready, queues, dc, closed, closed_event,
                   tasks, at, incoming, accepted>>

\* ... and the native connection is deleted, which waits for a callback in flight.
DeleteNative ==
    /\ teardown = "popped" /\ worker = Nothing /\ looked_up = Nothing
    /\ teardown' = "deleted"
    /\ UNCHANGED <<native, ready, queues, dc, closed, closed_event, tasks, at, incoming,
                   accepted>>

LetGo == [c \in Coroutines |-> IF at[c] = "closing" THEN "idle" ELSE at[c]]

\* Mutant: the teardown does not wait for the pool.
FinishTeardownEarly ==
    /\ teardown \in {"deleting", "popped", "deleted"} /\ ~closed_event
    /\ closed_event' = TRUE /\ at' = LetGo
    /\ teardown' = IF teardown = "deleted" THEN "done" ELSE teardown
    /\ UNCHANGED <<native, ready, queues, dc, closed, tasks, incoming, accepted>>

FinishTeardown ==
    /\ teardown = "deleted"
    /\ teardown' = "done"
    /\ closed_event' = TRUE /\ at' = LetGo
    /\ UNCHANGED <<native, ready, queues, dc, closed, tasks, incoming, accepted>>

Next ==
    \/ Enter \/ LookUp \/ Schedule \/ Handle
    \/ CreateChannel \/ Run \/ CancelWait \/ Close
    \/ DestroyChannels \/ PopNative \/ DeleteNative \/ FinishTeardown

Spec == Init /\ [][Next]_vars

(***************************************************************************)
(* Fairness.  The loop runs what is scheduled, the pool what it is given,  *)
(* and the worker thread finishes the callback it has entered.  Deletion   *)
(* gets its turn between two callbacks (SF).  Nobody need call anything,   *)
(* and the peer need not do anything.                                      *)
(***************************************************************************)
Fairness ==
    /\ WF_vars(LookUp) /\ WF_vars(Schedule) /\ WF_vars(Handle)
    /\ \A c \in Coroutines : WF_vars(Resume(c) /\ Run)
    /\ WF_vars(DestroyChannels) /\ WF_vars(PopNative)
    /\ SF_vars(DeleteNative) /\ WF_vars(FinishTeardown)

LiveSpec == Spec /\ Fairness

(* ---- Properties ------------------------------------------------------------------- *)

InQueue(q, x) == \E i \in 1..Len(queues[q]) : queues[q][i] = x

\* The shutdown barrier: when aclose() and wait_closed() let go, the owned tasks have
\* finished, none can start, and no callback of the connection is under way or to come.
Barrier ==
    closed_event => /\ tasks = {} /\ \A c \in Owned : at[c] \in {"unspawned", "finished"}
                    /\ ~alive /\ worker = Nothing /\ looked_up = Nothing

\* The connection is a Shutdown: callbacks, owned tasks and waiters come and go as it
\* allows, and what lets aclose() and wait_closed() go is the end it speaks of.
Ending == INSTANCE Shutdown WITH
    phase <- IF closed_event THEN "closed" ELSE IF closed THEN "closing" ELSE "open",
    callback <- worker # Nothing \/ looked_up # Nothing,
    waiting <- {c \in Coroutines : at[c] = "closing"}

ShutdownSpec == Ending!Spec

\* After close() every queue holds a sentinel for good, so that each consumer, however
\* many there are and whenever they come, finds one.
SentinelStays == closed => \A q \in Queue : InQueue(q, Sentinel)

\* An incoming channel that has been wrapped is not lost, even when it comes during the
\* shutdown: it waits in the queue or one consumer has got it, never both nor two.
ChannelsKept ==
    /\ \A h \in incoming : InQueue("incoming", h) \/ \E i \in 1..Len(accepted) : accepted[i] = h
    /\ \A i, j \in 1..Len(accepted) : accepted[i] = accepted[j] => i = j
    /\ \A i \in 1..Len(accepted) : ~InQueue("incoming", accepted[i])

\* A consumer that waits on a queue gets an item or the sentinel once the connection is
\* closed, whichever consumers and late callbacks there are besides.
IteratorsTerminate ==
    \A c \in Coroutines : closed /\ at[c] \in Queue ~> at[c] \notin Queue

\* close() leads to the end of the teardown, whatever the owned tasks are doing and
\* whichever callbacks race it.
ShutdownCompletes == closed ~> closed_event
===============================================================================
