------------------------- MODULE PeerConnectionProofs -------------------------
(***************************************************************************)
(* Proofs about the lifecycle of a PeerConnection, for any number of       *)
(* coroutines, owned tasks, channels and callbacks.                        *)
(***************************************************************************)
EXTENDS PeerConnection, SequenceTheorems, TLAPS

(* ---- Queues ---------------------------------------------------------------- *)

Has(s, x) == \E i \in 1..Len(s) : s[i] = x

\* What is put on a queue is on it, and what was on it stays.
LEMMA HasAppend ==
    ASSUME NEW S, NEW s \in Seq(S), NEW y \in S
    PROVE  /\ Append(s, y) \in Seq(S)
           /\ Has(Append(s, y), y)
           /\ \A x : Has(s, x) => Has(Append(s, y), x)
<1>1. /\ Append(s, y) \in Seq(S) /\ Len(Append(s, y)) = Len(s) + 1
      /\ Append(s, y)[Len(s) + 1] = y
      /\ \A i \in 1..Len(s) : Append(s, y)[i] = s[i]
  OBVIOUS
<1>2. Len(s) \in Nat
  OBVIOUS
<1> QED
  BY <1>1, <1>2 DEF Has

\* Taking the head takes nothing else.
LEMMA HasTail ==
    ASSUME NEW S, NEW s \in Seq(S), s # <<>>
    PROVE  /\ Head(s) \in S /\ Tail(s) \in Seq(S)
           /\ \A x : Has(s, x) /\ Head(s) # x => Has(Tail(s), x)
<1>1. /\ Head(s) \in S /\ Tail(s) \in Seq(S) /\ Len(s) \in Nat \ {0}
      /\ Head(s) = s[1] /\ Len(Tail(s)) = Len(s) - 1
      /\ \A i \in 1..Len(Tail(s)) : Tail(s)[i] = s[i + 1]
  OBVIOUS
<1>2. ASSUME NEW x, NEW i \in 1..Len(s), s[i] = x, Head(s) # x PROVE Has(Tail(s), x)
  <2>1. i - 1 \in 1..Len(Tail(s)) /\ Tail(s)[i - 1] = x
    BY <1>1, <1>2
  <2> QED
    BY <2>1 DEF Has
<1> QED
  BY <1>1, <1>2 DEF Has

\* The three queues and what they may hold.
LEMMA QueueItems ==
    /\ "ice" \in Queue /\ "candidate" \in Items["ice"]
    /\ "incoming" \in Queue /\ Channels \subseteq Items["incoming"]
    /\ "events" \in Queue /\ "event" \in Items["events"]
    /\ \A q \in Queue : Sentinel \in Items[q]
BY DEF Queue, Items

\* A put keeps the type of the queues, and what they hold.
LEMMA PutInQueue ==
    ASSUME NEW qs, QueuesOK(qs), NEW q \in Queue, NEW y \in Items[q]
    PROVE  /\ QueuesOK(PutIn(qs, q, y))
           /\ \A p \in Queue : \A x : Has(qs[p], x) => Has(PutIn(qs, q, y)[p], x)
<1>1. /\ Append(qs[q], y) \in Seq(Items[q])
      /\ \A x : Has(qs[q], x) => Has(Append(qs[q], y), x)
  BY HasAppend DEF QueuesOK
<1>2. /\ PutIn(qs, q, y)[q] = Append(qs[q], y)
      /\ \A p \in Queue \ {q} : PutIn(qs, q, y)[p] = qs[p]
  BY DEF PutIn, QueuesOK
<1>3. PutIn(qs, q, y) = [p \in Queue |-> PutIn(qs, q, y)[p]]
  BY DEF PutIn, QueuesOK
<1> QED
  BY <1>1, <1>2, <1>3 DEF QueuesOK

(* ---- Types ------------------------------------------------------------------ *)

\* The connection starts well typed.
LEMMA InitType == Init => TypeOK
<1> SUFFICES ASSUME Init PROVE TypeOK
  OBVIOUS
<1>1. /\ worker \in Seq(Callback) /\ looked_up \in Seq(Callback) /\ ready \in Seq(Callback)
      /\ accepted \in Seq(Channels)
  BY EmptySeq DEF Init, Nothing
<1>2. QueuesOK(queues)
  BY EmptySeq DEF Init, QueuesOK
<1>3. callbacks \in 0..MaxCallbacks
  BY BoundAssumption DEF Init
<1>4. /\ dc \in [Channels -> {"none", "announced", "wrapped", "destroyed"}]
      /\ at \in [Coroutines -> Awaiting \cup {"unspawned", "idle", "cancelling", "finished"}]
  BY DEF Init
<1>5. /\ tasks \subseteq Owned /\ incoming \subseteq Channels
      /\ teardown \in {"none", "scheduled", "deleting", "popped", "deleted", "done"}
      /\ alive \in BOOLEAN /\ closed \in BOOLEAN /\ closed_event \in BOOLEAN
  BY DEF Init
<1> QED
  BY <1>1, <1>2, <1>3, <1>4, <1>5 DEF TypeOK

\* The worker's steps keep the types.
LEMMA WorkerType == TypeOK /\ (Enter \/ LookUp \/ Schedule) => TypeOK'
<1> SUFFICES ASSUME TypeOK, Enter \/ LookUp \/ Schedule PROVE TypeOK'
  OBVIOUS
<1> USE DEF shutdown
<1>1. CASE Enter
  <2>0. ASSUME NEW e \in Callback PROVE <<e>> \in Seq(Callback)
    OBVIOUS
  <2>1. worker' \in Seq(Callback)
        /\ dc' \in [Channels -> {"none", "announced", "wrapped", "destroyed"}]
    <3>1. CASE \E e \in {"candidate", "end", "other"} : worker' = <<e>> /\ UNCHANGED dc
      BY <2>0, <3>1 DEF TypeOK, Callback
    <3>2. CASE \E h \in Channels : /\ dc[h] = "none" /\ worker' = <<h>>
                                   /\ dc' = [dc EXCEPT ![h] = "announced"]
      BY <2>0, <3>2 DEF TypeOK, Callback
    <3> QED
      BY <1>1, <3>1, <3>2 DEF Enter
  <2>2. callbacks' \in 0..MaxCallbacks
    BY <1>1, BoundAssumption DEF Enter, TypeOK
  <2> QED
    BY <1>1, <2>1, <2>2 DEF Enter, TypeOK
<1>2. CASE LookUp
  <2>1. worker' \in Seq(Callback) /\ looked_up' \in Seq(Callback)
    BY <1>2, EmptySeq DEF LookUp, TypeOK, Nothing
  <2> QED
    BY <1>2, <2>1 DEF LookUp, TypeOK
<1>3. CASE Schedule
  <2>1. looked_up' \in Seq(Callback) /\ Head(looked_up) \in Callback
    BY <1>3, EmptySeq DEF Schedule, TypeOK, Nothing
  <2>2. ready' \in Seq(Callback)
    BY <1>3, <2>1 DEF Schedule, TypeOK
  <2> QED
    BY <1>3, <2>1, <2>2 DEF Schedule, TypeOK
<1> QED
  BY <1>1, <1>2, <1>3

\* The handlers put items on the queues and take none off.
LEMMA HandleQueues ==
    ASSUME TypeOK, Handle
    PROVE  /\ QueuesOK(queues')
           /\ \A p \in Queue : \A x : Has(queues[p], x) => Has(queues'[p], x)
<1> DEFINE e == Head(ready)
<1>1. QueuesOK(queues)
  BY DEF TypeOK
<1>2. CASE HandleCandidate
  BY <1>1, <1>2, QueueItems, PutInQueue DEF HandleCandidate, Emit
<1>3. CASE HandleEnd
  BY <1>1, <1>3, QueueItems, PutInQueue DEF HandleEnd, Emit
<1>4. CASE HandleOther
  BY <1>1, <1>4, QueueItems, PutInQueue DEF HandleOther, Emit
<1>5. CASE e \in Channels /\ HandleChannel(e)
  BY <1>1, <1>5, QueueItems, PutInQueue DEF HandleChannel, Emit
<1> QED
  BY <1>2, <1>3, <1>4, <1>5 DEF Handle

\* The handlers keep the types.
LEMMA HandleType == TypeOK /\ Handle => TypeOK'
<1> SUFFICES ASSUME TypeOK, Handle PROVE TypeOK'
  OBVIOUS
<1> DEFINE e == Head(ready)
<1>1. ready' \in Seq(Callback)
  BY DEF TypeOK, Handle
<1>2. QueuesOK(queues')
  BY HandleQueues
<1>3. dc' \in [Channels -> {"none", "announced", "wrapped", "destroyed"}]
      /\ incoming' \subseteq Channels
  BY DEF TypeOK, Handle, HandleCandidate, HandleEnd, HandleOther, HandleChannel
<1> QED
  BY <1>1, <1>2, <1>3 DEF TypeOK, Handle, native, shutdown

\* A consumer takes one item or moves a sentinel to the end; no other item goes, and
\* no sentinel.
LEMMA ConsumerQueues ==
    ASSUME TypeOK, NEW c \in Coroutines, GotItem(c) \/ GotSentinel(c)
    PROVE  /\ QueuesOK(queues')
           /\ accepted' \in Seq(Channels)
           /\ \A p \in Queue : Has(queues[p], Sentinel) => Has(queues'[p], Sentinel)
<1> DEFINE q == at[c]
<1>1. /\ QueuesOK(queues) /\ Sentinel \in Items[q]
      /\ q \in Queue /\ queues[q] \in Seq(Items[q]) /\ queues[q] # <<>>
  BY QueueItems DEF TypeOK, QueuesOK, GotItem, GotSentinel
<1>2. Head(queues[q]) \in Items[q] /\ Tail(queues[q]) \in Seq(Items[q])
  BY <1>1, HasTail
<1>3. ASSUME NEW s \in Seq(Items[q]), queues' = [queues EXCEPT ![q] = s],
             Has(queues[q], Sentinel) => Has(s, Sentinel)
      PROVE  /\ QueuesOK(queues')
             /\ \A p \in Queue : Has(queues[p], Sentinel) => Has(queues'[p], Sentinel)
  <2>1. queues'[q] = s /\ \A p \in Queue \ {q} : queues'[p] = queues[p]
    BY <1>1, <1>3 DEF QueuesOK
  <2>2. queues' = [p \in Queue |-> queues'[p]]
    BY <1>1, <1>3 DEF QueuesOK
  <2> QED
    BY <1>1, <1>3, <2>1, <2>2 DEF QueuesOK
<1>4. CASE GotSentinel(c)
  <2>1. queues' = [queues EXCEPT ![q] = Append(Tail(queues[q]), Sentinel)]
    BY <1>4 DEF GotSentinel
  <2>2. Append(Tail(queues[q]), Sentinel) \in Seq(Items[q])
        /\ Has(Append(Tail(queues[q]), Sentinel), Sentinel)
    BY <1>1, <1>2, HasAppend
  <2>3. accepted' \in Seq(Channels)
    BY <1>4 DEF GotSentinel, TypeOK
  <2> QED
    BY <1>3, <2>1, <2>2, <2>3
<1>5. CASE GotItem(c)
  <2>1. queues' = [queues EXCEPT ![q] = Tail(queues[q])] /\ Head(queues[q]) # Sentinel
    BY <1>5 DEF GotItem
  <2>2. Has(queues[q], Sentinel) => Has(Tail(queues[q]), Sentinel)
    BY <1>1, <2>1, HasTail
  <2>3. q = "incoming" => Head(queues[q]) \in Channels
    BY <1>2, <2>1 DEF Items
  <2>4. accepted' \in Seq(Channels)
    BY <1>5, <2>3 DEF GotItem, TypeOK
  <2> QED
    BY <1>2, <1>3, <2>1, <2>2, <2>4
<1> QED
  BY <1>4, <1>5

\* The coroutines keep the types, and leave a sentinel on every queue that has one.
LEMMA RunQueues ==
    ASSUME TypeOK, Run
    PROVE  /\ QueuesOK(queues') /\ accepted' \in Seq(Channels)
           /\ \A p \in Queue : Has(queues[p], Sentinel) => Has(queues'[p], Sentinel)
<1>1. CASE \E c \in Coroutines : GotItem(c) \/ GotSentinel(c)
  BY <1>1, ConsumerQueues
<1>2. CASE UNCHANGED <<queues, accepted>>
  BY <1>2 DEF TypeOK
<1> QED
  BY <1>1, <1>2 DEF Run, Resume, WaitClosed, Get, SpawnTask, FinishTask

\* The coroutines keep the types.
LEMMA RunType == TypeOK /\ Run => TypeOK'
<1> SUFFICES ASSUME TypeOK, Run PROVE TypeOK'
  OBVIOUS
<1>1. QueuesOK(queues') /\ accepted' \in Seq(Channels)
  BY RunQueues
<1>2. PICK c \in Coroutines :
        Resume(c) \/ WaitClosed(c) \/ Get(c) \/ SpawnTask(c) \/ FinishTask(c)
  BY DEF Run
<1>3. tasks' \subseteq Owned
  BY <1>2 DEF TypeOK, Resume, GotItem, GotSentinel, WaitClosed, Get, SpawnTask, FinishTask
<1>4. at' \in [Coroutines -> Awaiting \cup {"unspawned", "idle", "cancelling", "finished"}]
  BY <1>2 DEF TypeOK, Awaiting, Resume, GotItem, GotSentinel, WaitClosed, Get, SpawnTask,
              FinishTask
<1> QED
  BY <1>1, <1>3, <1>4 DEF TypeOK, Run, native

\* close() puts a sentinel on every queue.
LEMMA CloseQueues ==
    ASSUME TypeOK, Close
    PROVE  QueuesOK(queues') /\ \A p \in Queue : Has(queues'[p], Sentinel)
<1>1. ASSUME NEW p \in Queue
      PROVE  Append(queues[p], Sentinel) \in Seq(Items[p])
             /\ Has(Append(queues[p], Sentinel), Sentinel)
  BY QueueItems, HasAppend DEF TypeOK, QueuesOK
<1>2. queues' = [q \in Queue |-> Append(queues[q], Sentinel)]
  BY DEF Close
<1> QED
  BY <1>1, <1>2 DEF QueuesOK

\* The shutdown keeps the types.
LEMMA ShutdownType ==
    TypeOK /\ (CreateChannel \/ CancelWait \/ Close \/ DestroyChannels \/ PopNative
               \/ DeleteNative \/ FinishTeardown) => TypeOK'
<1> SUFFICES ASSUME TypeOK, CreateChannel \/ CancelWait \/ Close \/ DestroyChannels
                            \/ PopNative \/ DeleteNative \/ FinishTeardown
             PROVE  TypeOK'
  OBVIOUS
<1> USE DEF native, shutdown
<1>1. CASE CreateChannel
  BY <1>1 DEF CreateChannel, TypeOK
<1>2. CASE CancelWait
  BY <1>2 DEF CancelWait, TypeOK
<1>3. CASE Close
  BY <1>3, CloseQueues DEF Close, TasksCancelled, TypeOK
<1>4. CASE DestroyChannels
  BY <1>4 DEF DestroyChannels, TypeOK
<1>5. CASE PopNative
  BY <1>5 DEF PopNative, TypeOK
<1>6. CASE DeleteNative
  BY <1>6 DEF DeleteNative, TypeOK
<1>7. CASE FinishTeardown
  BY <1>7 DEF FinishTeardown, LetGo, TypeOK
<1> QED
  BY <1>1, <1>2, <1>3, <1>4, <1>5, <1>6, <1>7

\* Every reachable state is well typed; in particular each queue holds only what its
\* consumers expect, and accept_data_channel returns channels.
THEOREM TypeCorrect == Spec => []TypeOK
<1>1. TypeOK /\ [Next]_vars => TypeOK'
  <2>1. TypeOK /\ UNCHANGED vars => TypeOK'
    BY DEF vars, TypeOK
  <2> QED
    BY <2>1, WorkerType, HandleType, RunType, ShutdownType DEF Next
<1> QED
  BY <1>1, InitType, PTL DEF Spec

(* ---- The shutdown barrier ---------------------------------------------------- *)

\* How far the teardown has got tells what is over: what starts before close() is gone
\* before the connection is, and the connection before closed_event is set.
TeardownOrder ==
    /\ ~closed => teardown = "none"
    /\ teardown \in {"none", "scheduled"} \/ tasks = {}
    /\ teardown \in {"none", "scheduled", "deleting"} \/ ~alive
    /\ teardown \in {"deleted", "done"} => worker = Nothing /\ looked_up = Nothing
    /\ closed_event => teardown = "done"
    /\ \A c \in Owned : at[c] \in {"unspawned", "finished"} \/ c \in tasks

LEMMA TeardownInOrder == Spec => []TeardownOrder
<1>1. Init => TeardownOrder
  BY OwnedAssumption DEF Init, TeardownOrder
<1>2. TypeOK /\ TeardownOrder /\ [Next]_vars => TeardownOrder'
  <2> SUFFICES ASSUME TypeOK, TeardownOrder, [Next]_vars PROVE TeardownOrder'
    OBVIOUS
  <2> USE OwnedAssumption DEF TypeOK, TeardownOrder, native, shutdown, Nothing
  <2>1. CASE Enter
    BY <2>1 DEF Enter
  <2>2. CASE LookUp
    BY <2>2 DEF LookUp
  <2>3. CASE Schedule
    BY <2>3 DEF Schedule
  <2>4. CASE Handle
    BY <2>4 DEF Handle
  <2>5. CASE CreateChannel
    BY <2>5 DEF CreateChannel
  <2>6. CASE Run
    <3>1. PICK c \in Coroutines :
            Resume(c) \/ WaitClosed(c) \/ Get(c) \/ SpawnTask(c) \/ FinishTask(c)
      BY <2>6 DEF Run
    <3>2. \A d \in Owned : at'[d] \in {"unspawned", "finished"} \/ d \in tasks'
      BY <3>1 DEF Queue, Resume, GotItem, GotSentinel, WaitClosed, Get, SpawnTask,
                  FinishTask
    <3>3. teardown = "none" \/ tasks' \subseteq tasks
      BY <3>1 DEF Resume, GotItem, GotSentinel, WaitClosed, Get, SpawnTask, FinishTask
    <3> QED
      BY <2>6, <3>2, <3>3 DEF Run
  <2>7. CASE CancelWait
    BY <2>7 DEF CancelWait, Awaiting, Queue
  <2>8. CASE Close
    BY <2>8 DEF Close, TasksCancelled
  <2>9. CASE DestroyChannels
    BY <2>9 DEF DestroyChannels
  <2>10. CASE PopNative
    BY <2>10 DEF PopNative
  <2>11. CASE DeleteNative
    BY <2>11 DEF DeleteNative
  <2>12. CASE FinishTeardown
    BY <2>12 DEF FinishTeardown, LetGo
  <2>13. CASE UNCHANGED vars
    BY <2>13 DEF vars
  <2> QED
    BY <2>1, <2>2, <2>3, <2>4, <2>5, <2>6, <2>7, <2>8, <2>9, <2>10, <2>11, <2>12, <2>13
       DEF Next
<1> QED
  BY <1>1, <1>2, TypeCorrect, PTL DEF Spec

\* When aclose() and wait_closed() let go the owned tasks are over, whoever spawned them
\* and wherever they were, and no callback of the connection is under way or to come.
THEOREM ShutdownIsABarrier == Spec => []Barrier
<1>1. TypeOK /\ TeardownOrder => Barrier
  BY DEF TypeOK, TeardownOrder, Barrier
<1> QED
  BY <1>1, TypeCorrect, TeardownInOrder, PTL

(* ---- What the teardown waits for --------------------------------------------------- *)

\* Once close() has begun the teardown is on its way until closed_event is set, and
\* nothing it waits for waits for it: an owned task that has not finished has been cancelled.
TeardownNotHeld ==
    closed /\ ~closed_event =>
        \/ teardown = "scheduled" /\ \A c \in tasks : at[c] = "cancelling"
        \/ teardown \in {"deleting", "popped", "deleted"} /\ tasks = {}

\* After close() the owned tasks stay cancelled until they finish, and none comes.
TasksStop ==
    closed => /\ \A c \in tasks : at[c] = "cancelling"
              /\ teardown # "none" /\ (teardown = "done" => closed_event)

\* No owned task holds the teardown up for ever, one that awaits an item, the end of the
\* shutdown or its own aclose() included: that is the safety half of ShutdownCompletes.
THEOREM TeardownIsNotHeld == Spec => []TeardownNotHeld
<1>1. Init => TasksStop
  BY DEF Init, TasksStop
<1>2. TypeOK /\ TasksStop /\ [Next]_vars => TasksStop'
  <2> SUFFICES ASSUME TypeOK, TasksStop, [Next]_vars PROVE TasksStop'
    OBVIOUS
  <2>1. CASE Run
    <3>1. PICK c \in Coroutines :
            Resume(c) \/ WaitClosed(c) \/ Get(c) \/ SpawnTask(c) \/ FinishTask(c)
      BY <2>1 DEF Run
    <3>2. ASSUME closed, NEW d \in tasks' PROVE at'[d] = "cancelling"
      <4>1. d \in tasks /\ d \in Coroutines /\ at[d] = "cancelling"
        <5>1. tasks' \subseteq tasks
          BY <3>1, <3>2 DEF Resume, GotItem, GotSentinel, WaitClosed, Get, SpawnTask,
                            FinishTask
        <5> QED
          BY <3>2, <5>1, OwnedAssumption DEF TypeOK, TasksStop
      <4>2. CASE d = c
        BY <3>1, <3>2, <4>1, <4>2 DEF Queue, Resume, GotItem, GotSentinel, WaitClosed, Get,
                                      SpawnTask, FinishTask
      <4>3. CASE d # c
        BY <3>1, <4>1, <4>3 DEF TypeOK, Resume, GotItem, GotSentinel, WaitClosed, Get,
                                SpawnTask, FinishTask
      <4> QED
        BY <4>2, <4>3
    <3> QED
      BY <2>1, <3>2 DEF Run, TasksStop
  <2>2. CASE CancelWait
    BY <2>2 DEF CancelWait, TypeOK, TasksStop, shutdown
  <2>3. CASE Close
    BY <2>3, OwnedAssumption DEF Close, TasksCancelled, TypeOK, TasksStop
  <2>4. CASE DestroyChannels \/ PopNative \/ DeleteNative
    BY <2>4 DEF DestroyChannels, PopNative, DeleteNative, TasksStop
  <2>5. CASE FinishTeardown
    BY <2>5, OwnedAssumption DEF FinishTeardown, LetGo, TypeOK, TasksStop
  <2>6. CASE Enter \/ LookUp \/ Schedule \/ Handle \/ CreateChannel \/ UNCHANGED vars
    BY <2>6 DEF Enter, LookUp, Schedule, Handle, CreateChannel, vars, shutdown, TasksStop
  <2> QED
    BY <2>1, <2>2, <2>3, <2>4, <2>5, <2>6 DEF Next
<1>3. TypeOK /\ TeardownOrder /\ TasksStop => TeardownNotHeld
  BY DEF TypeOK, TeardownOrder, TasksStop, TeardownNotHeld
<1> QED
  BY <1>1, <1>2, <1>3, TypeCorrect, TeardownInOrder, PTL DEF Spec

(* ---- The refinement of Shutdown --------------------------------------------------- *)

\* The worker has one callback in hand at a time: it enters the next one when it is
\* through with the last.
OneInHand == worker = Nothing \/ looked_up = Nothing

LEMMA WorkerHasOne == Spec => []OneInHand
<1>1. Init => OneInHand
  BY DEF Init, OneInHand
<1>2. OneInHand /\ [Next]_vars => OneInHand'
  BY DEF OneInHand, Next, vars, native, Enter, LookUp, Schedule, Handle, CreateChannel, Run,
         CancelWait, Close, DestroyChannels, PopNative, DeleteNative, FinishTeardown
<1> QED
  BY <1>1, <1>2, PTL DEF Spec

\* What Shutdown sees of a connection.
Phase == IF closed_event THEN "closed" ELSE IF closed THEN "closing" ELSE "open"
InCallback == worker # Nothing \/ looked_up # Nothing
Waiting == {c \in Coroutines : at[c] = "closing"}

\* A step that changes none of it is a stuttering step.
Unseen == UNCHANGED <<Phase, tasks, InCallback, Waiting>>

\* What one coroutine does is a step of the shutdown, or none.
LEMMA RunEnds ==
    ASSUME TypeOK, TeardownOrder, Run
    PROVE  Unseen \/ Ending!StartTask \/ Ending!EndTask \/ Ending!Wait
<1>1. PICK c \in Coroutines :
        Resume(c) \/ WaitClosed(c) \/ Get(c) \/ SpawnTask(c) \/ FinishTask(c)
  BY DEF Run
<1>2. UNCHANGED <<Phase, InCallback>>
  BY DEF Run, native, Phase, InCallback
<1>3. at \in [Coroutines -> Awaiting \cup {"unspawned", "idle", "cancelling", "finished"}]
  BY DEF TypeOK
<1>4. CASE GotItem(c) \/ GotSentinel(c) \/ Get(c)
  <2>1. UNCHANGED tasks
    BY <1>4 DEF GotItem, GotSentinel, Get
  <2>2. \E x \in Queue \cup {"idle"} : at' = [at EXCEPT ![c] = x] /\ at[c] # "closing"
    BY <1>4 DEF GotItem, GotSentinel, Get, Queue
  <2>3. Waiting' = Waiting
    BY <1>3, <2>2 DEF Waiting, Queue
  <2> QED
    BY <1>2, <2>1, <2>3 DEF Unseen
<1>5. CASE WaitClosed(c)
  <2>1. Waiting' = Waiting \cup {c}
    BY <1>3, <1>5 DEF WaitClosed, Waiting
  <2>2. UNCHANGED tasks /\ Phase # "closed"
    BY <1>5 DEF WaitClosed, Phase
  <2> QED
    BY <1>2, <2>1, <2>2 DEF Ending!Wait, Phase, InCallback, Waiting
<1>6. CASE SpawnTask(c)
  <2>1. Waiting' = Waiting /\ tasks' = tasks \cup {c}
    BY <1>3, <1>6 DEF SpawnTask, Waiting
  <2>2. Phase = "open"
    BY <1>6 DEF SpawnTask, Phase, TeardownOrder
  <2> QED
    BY <1>2, <2>1, <2>2 DEF Ending!StartTask, Phase, InCallback, Waiting
<1>7. CASE FinishTask(c)
  <2>1. Waiting' = Waiting /\ c \in tasks /\ tasks' = tasks \ {c}
    BY <1>3, <1>7 DEF FinishTask, Waiting
  <2> QED
    BY <1>2, <2>1 DEF Ending!EndTask, Phase, InCallback, Waiting
<1> QED
  BY <1>1, <1>4, <1>5, <1>6, <1>7 DEF Resume

\* Every step is a step of the shutdown, or none.
LEMMA StepEnds ==
    ASSUME TypeOK, TypeOK', TeardownOrder, TeardownOrder', OneInHand, [Next]_vars
    PROVE  [Ending!Next]_<<Phase, tasks, InCallback, Waiting>>
<1>1. CASE Enter
  <2>1. Phase # "closed" /\ InCallback' = TRUE /\ UNCHANGED <<Phase, tasks, Waiting>>
    BY <1>1 DEF Enter, TeardownOrder, Phase, InCallback, Waiting, shutdown, Nothing
  <2> QED
    BY <2>1 DEF Ending!Next, Ending!Report, Phase, InCallback, Waiting
<1>2. CASE LookUp \/ Schedule
  <2>1. UNCHANGED <<Phase, tasks, Waiting>>
    BY <1>2 DEF LookUp, Schedule, shutdown, Phase, Waiting
  <2>2. InCallback' = InCallback \/ InCallback' = FALSE
    BY <1>2 DEF LookUp, Schedule, InCallback, OneInHand
  <2> QED
    BY <2>1, <2>2 DEF Ending!Next, Ending!Reported, Phase, InCallback, Waiting
<1>3. CASE Handle \/ CreateChannel \/ DestroyChannels \/ PopNative \/ DeleteNative
           \/ UNCHANGED vars
  BY <1>3 DEF Handle, CreateChannel, DestroyChannels, PopNative, DeleteNative, vars, native,
              shutdown, Phase, InCallback, Waiting
<1>4. CASE Run
  BY <1>4, RunEnds DEF Unseen, Ending!Next
<1>5. CASE CancelWait
  <2>1. PICK c \in Coroutines \ tasks :
          at[c] \in Awaiting /\ at' = [at EXCEPT ![c] = "idle"]
    BY <1>5 DEF CancelWait
  <2>2. UNCHANGED <<Phase, tasks, InCallback>>
    BY <1>5 DEF CancelWait, native, shutdown, Phase, InCallback
  <2>3. Waiting' = Waiting \ {c}
    BY <2>1 DEF TypeOK, Waiting
  <2>4. c \in Waiting \/ Waiting' = Waiting
    BY <2>3
  <2> QED
    BY <2>2, <2>3, <2>4 DEF Ending!Next, Ending!GiveUp, Phase, InCallback, Waiting
<1>6. CASE Close
  <2>1. Phase = "open" /\ Phase' = "closing" /\ UNCHANGED <<tasks, InCallback>>
    BY <1>6 DEF Close, TeardownOrder, TypeOK, native, Phase, InCallback
  <2>2. Waiting' = Waiting \ tasks
    BY <1>6 DEF Close, TasksCancelled, Waiting
  <2> QED
    BY <2>1, <2>2 DEF Ending!Next, Ending!Close, Phase, InCallback, Waiting
<1>7. CASE FinishTeardown
  <2>1. /\ Phase = "closing" /\ Phase' = "closed" /\ UNCHANGED <<tasks, InCallback>>
        /\ tasks = {} /\ ~InCallback
    BY <1>7 DEF FinishTeardown, TeardownOrder, native, Phase, InCallback
  <2>2. Waiting' = {}
    BY <1>7 DEF FinishTeardown, LetGo, Waiting
  <2> QED
    BY <2>1, <2>2 DEF Ending!Next, Ending!Finish, Phase, InCallback, Waiting
<1> QED
  BY <1>1, <1>2, <1>3, <1>4, <1>5, <1>6, <1>7 DEF Next

\* The connection implements Shutdown, whichever coroutines, owned tasks and callbacks
\* race close() and the teardown.
THEOREM EndsAsPromised == Spec => ShutdownSpec
<1>1. Init => Ending!Init
  BY DEF Init, Ending!Init
<1>2. TypeOK /\ TypeOK' /\ TeardownOrder /\ TeardownOrder' /\ OneInHand /\ [Next]_vars
        => [Ending!Next]_<<Phase, tasks, InCallback, Waiting>>
  BY StepEnds
<1> QED
  BY <1>1, <1>2, TypeCorrect, TeardownInOrder, WorkerHasOne, PTL
     DEF Spec, ShutdownSpec, Ending!Spec, Phase, InCallback, Waiting

(* ---- The sentinels -------------------------------------------------------------- *)

\* After close() no queue is ever without a sentinel, however many consumers take it in
\* turns and whatever the callbacks still put behind it.
THEOREM SentinelsStay == Spec => []SentinelStays
<1> DEFINE Closing == closed => \A q \in Queue : Has(queues[q], Sentinel)
<1>1. Init => Closing
  BY DEF Init
<1>2. TypeOK /\ Closing /\ [Next]_vars => Closing'
  <2> SUFFICES ASSUME TypeOK, Closing, [Next]_vars PROVE Closing'
    OBVIOUS
  <2>1. CASE Handle
    BY <2>1, HandleQueues DEF Handle, shutdown
  <2>2. CASE Run
    BY <2>2, RunQueues DEF Run
  <2>3. CASE Close
    BY <2>3, CloseQueues
  <2>4. CASE UNCHANGED <<queues, closed>>
    BY <2>4
  <2> QED
    BY <2>1, <2>2, <2>3, <2>4 DEF Next, vars, shutdown, Enter, LookUp, Schedule,
       CreateChannel, CancelWait, DestroyChannels, PopNative, DeleteNative, FinishTeardown
<1>3. Closing => SentinelStays
  BY DEF SentinelStays, InQueue, Has
<1> QED
  BY <1>1, <1>2, <1>3, TypeCorrect, PTL DEF Spec

(* ---- The channels of the peer ----------------------------------------------------- *)

\* No channel is twice in s.
Unique(s) == \A i, j \in 1..Len(s) : s[i] \in Channels /\ s[i] = s[j] => i = j

\* What a put does to the items of a sequence.
LEMMA UniqueAppend ==
    ASSUME NEW S, NEW s \in Seq(S), NEW y \in S
    PROVE  /\ \A x : Has(Append(s, y), x) <=> Has(s, x) \/ x = y
           /\ Unique(s) /\ (y \in Channels => ~Has(s, y)) => Unique(Append(s, y))
<1> DEFINE t == Append(s, y)
           n == Len(s)
<1>1. /\ n \in Nat /\ Len(t) = n + 1 /\ t[n + 1] = y
      /\ \A i \in 1..n : t[i] = s[i]
  BY AppendProperties, LenProperties
<1> HIDE DEF t, n
<1>2. \A i \in 1..Len(t) : i \in 1..n \/ i = n + 1
  BY <1>1
<1>3. 1..n \subseteq 1..Len(t) /\ n + 1 \in 1..Len(t)
  BY <1>1
<1>4. \A x : Has(t, x) <=> (\E i \in 1..n : s[i] = x) \/ x = y
  BY <1>1, <1>2, <1>3 DEF Has
<1>5. ASSUME \A i, j \in 1..n : s[i] \in Channels /\ s[i] = s[j] => i = j,
             y \in Channels => ~\E i \in 1..n : s[i] = y
      PROVE  Unique(t)
  BY <1>1, <1>2, <1>5 DEF Unique
<1> QED
  BY <1>4, <1>5 DEF Unique, Has, n, t

\* What taking the head does to them.
LEMMA UniqueTail ==
    ASSUME NEW S, NEW s \in Seq(S), s # <<>>
    PROVE  /\ \A x : Has(s, x) <=> Has(Tail(s), x) \/ x = Head(s)
           /\ Unique(s) => /\ Unique(Tail(s))
                           /\ Head(s) \in Channels => ~Has(Tail(s), Head(s))
<1> DEFINE t == Tail(s)
           n == Len(s)
<1>1. /\ n \in Nat \ {0} /\ Len(t) = n - 1 /\ Head(s) = s[1]
      /\ \A i \in 1..Len(t) : t[i] = s[i + 1]
  BY EmptySeq, HeadTailProperties
<1> HIDE DEF t, n
<1>2. \A i \in 1..Len(t) : i + 1 \in 1..n /\ i + 1 # 1
  BY <1>1
<1>3. \A i \in 1..n : i = 1 \/ (i - 1 \in 1..Len(t) /\ t[i - 1] = s[i])
  BY <1>1
<1>4. 1 \in 1..n
  BY <1>1
<1>5. \A x : (\E i \in 1..n : s[i] = x) <=> Has(t, x) \/ x = Head(s)
  BY <1>1, <1>2, <1>3, <1>4 DEF Has
<1>6. ASSUME \A i, j \in 1..n : s[i] \in Channels /\ s[i] = s[j] => i = j
      PROVE  Unique(t) /\ (Head(s) \in Channels => ~Has(t, Head(s)))
  <2>1. ASSUME NEW i \in 1..Len(t), NEW j \in 1..Len(t), t[i] \in Channels, t[i] = t[j]
        PROVE  i = j
    <3>1. i + 1 = j + 1
      BY <1>1, <1>2, <1>6, <2>1
    <3> QED
      BY <3>1
  <2>2. ASSUME Head(s) \in Channels, NEW i \in 1..Len(t), t[i] = Head(s) PROVE FALSE
    BY <1>1, <1>2, <1>4, <1>6, <2>2
  <2> QED
    BY <2>1, <2>2 DEF Unique, Has
<1> QED
  BY <1>5, <1>6 DEF Unique, Has, n, t

\* A channel is announced once, and on its way from the worker to a consumer it is in
\* one place at a time.
OnItsWay(h) == Has(worker, h) \/ Has(looked_up, h) \/ Has(ready, h)
Delivered(h) == Has(queues["incoming"], h) \/ Has(accepted, h)

Journey ==
    /\ Len(worker) <= 1 /\ Len(looked_up) <= 1 /\ (worker = Nothing \/ looked_up = Nothing)
    /\ Unique(ready) /\ Unique(queues["incoming"]) /\ Unique(accepted)
    /\ \A h \in Channels :
          /\ Has(worker, h) \/ Has(looked_up, h) => ~Has(ready, h)
          /\ OnItsWay(h) => ~Delivered(h) /\ dc[h] # "none"
          /\ Delivered(h) => dc[h] # "none"
          /\ Has(accepted, h) => ~Has(queues["incoming"], h)
    /\ \A h \in incoming : Delivered(h)

\* What there is to show of the next state.
LEMMA JourneyNext ==
    /\ \A h : OnItsWay(h)' <=> Has(worker', h) \/ Has(looked_up', h) \/ Has(ready', h)
    /\ \A h : Delivered(h)' <=> Has(queues'["incoming"], h) \/ Has(accepted', h)
    /\ /\ Len(worker') <= 1 /\ Len(looked_up') <= 1
       /\ worker' = Nothing \/ looked_up' = Nothing
       /\ Unique(ready') /\ Unique(queues'["incoming"]) /\ Unique(accepted')
       /\ \A h \in Channels :
             /\ Has(worker', h) \/ Has(looked_up', h) => ~Has(ready', h)
             /\ OnItsWay(h)' => ~Delivered(h)' /\ dc'[h] # "none"
             /\ Delivered(h)' => dc'[h] # "none"
             /\ Has(accepted', h) => ~Has(queues'["incoming"], h)
       /\ \A h \in incoming' : Delivered(h)'
       => Journey'
BY DEF OnItsWay, Delivered, Journey, Has, Unique, Nothing

\* The callback in hand is one, or none.
LEMMA InHand ==
    ASSUME NEW S, NEW s \in Seq(S), Len(s) <= 1
    PROVE  /\ s = <<>> => \A x : ~Has(s, x)
           /\ s # <<>> => \A x : Has(s, x) <=> x = Head(s)
<1>0. Len(s) \in Nat /\ (Len(s) = 0 => s = <<>>)
  BY EmptySeq, LenProperties
<1>4. \A n \in Nat : n <= 1 => n = 0 \/ n = 1
  OBVIOUS
<1>5. Len(s) = 0 \/ Len(s) = 1
  BY <1>0, <1>4, Zenon
<1>1. Len(s) \in Nat /\ (s # <<>> => Len(s) = 1)
  BY <1>0, <1>5
<1>3. s # <<>> => Head(s) = s[1]
  BY EmptySeq, HeadTailProperties
<1>2. s = <<>> => Len(s) = 0
  OBVIOUS
<1> QED
  BY <1>1, <1>2, <1>3 DEF Has

\* Steps of the worker.
LEMMA WorkerJourney == TypeOK /\ Journey /\ (Enter \/ LookUp \/ Schedule) => Journey'
<1> SUFFICES ASSUME TypeOK, Journey, Enter \/ LookUp \/ Schedule PROVE Journey'
  OBVIOUS
<1>0. worker \in Seq(Callback) /\ looked_up \in Seq(Callback) /\ ready \in Seq(Callback)
  BY DEF TypeOK
<1>1. UNCHANGED <<queues, accepted, incoming>>
  BY DEF Enter, LookUp, Schedule
<1>2. \A h : Delivered(h)' <=> Delivered(h)
  BY <1>1 DEF Delivered, Has
<1>3. CASE Enter
  <2>1. worker = Nothing /\ looked_up = Nothing /\ UNCHANGED <<looked_up, ready>>
    BY <1>3 DEF Enter
  <2>2. \A x : ~Has(worker, x) /\ ~Has(looked_up, x)
    BY <1>0, <2>1, InHand DEF Journey, Nothing
  <2>3. PICK e \in Callback :
          /\ worker' = <<e>>
          /\ e \in Channels => dc[e] = "none" /\ dc' = [dc EXCEPT ![e] = "announced"]
          /\ e \notin Channels => dc' = dc
    <3>1. CASE \E e \in {"candidate", "end", "other"} : worker' = <<e>> /\ UNCHANGED dc
      BY <3>1, HandlesAssumption DEF Callback
    <3>2. CASE \E h \in Channels : /\ dc[h] = "none" /\ worker' = <<h>>
                                   /\ dc' = [dc EXCEPT ![h] = "announced"]
      BY <3>2 DEF Callback
    <3> QED
      BY <1>3, <3>1, <3>2 DEF Enter
  <2>4. Len(worker') = 1 /\ \A x : Has(worker', x) <=> x = e
    BY <2>3 DEF Has
  <2>5. ASSUME NEW h \in Channels PROVE dc[h] # "none" => dc'[h] # "none"
    BY <2>3 DEF TypeOK
  <2>6. e \in Channels => dc'[e] # "none" /\ ~OnItsWay(e) /\ ~Delivered(e)
    BY <2>3 DEF Journey, TypeOK
  <2> QED
    BY <1>1, <1>2, <2>1, <2>2, <2>4, <2>5, <2>6 DEF Journey, OnItsWay, Has, Unique, Nothing
<1>4. CASE LookUp
  <2>1. /\ worker # Nothing /\ worker' = Nothing /\ UNCHANGED <<ready, dc>>
        /\ looked_up' = worker \/ looked_up' = Nothing
    BY <1>4 DEF LookUp
  <2>2. \A x : ~Has(worker', x)
    BY <2>1 DEF Has, Nothing
  <2>3. (\A x : Has(looked_up', x) => Has(worker, x)) /\ Len(looked_up') <= 1
        /\ Len(worker') <= 1
    BY <2>1 DEF Journey, Has, Nothing
  <2> QED
    BY <1>1, <1>2, <2>1, <2>2, <2>3 DEF Journey, OnItsWay, Has, Unique
<1>5. CASE Schedule
  <2> DEFINE e == Head(looked_up)
  <2>1. /\ looked_up # Nothing /\ looked_up' = Nothing /\ UNCHANGED <<worker, dc>>
        /\ ready' = Append(ready, e)
    BY <1>5 DEF Schedule
  <2>2. e \in Callback /\ \A x : Has(looked_up, x) <=> x = e
    BY <1>0, <2>1, InHand, HeadTailProperties DEF Journey, Nothing
  <2>3. worker = Nothing /\ (\A x : ~Has(worker, x)) /\ (\A x : ~Has(looked_up', x))
        /\ Len(looked_up') <= 1
    BY <2>1 DEF Journey, Has, Nothing
  <2>4. e \in Channels => ~Has(ready, e) /\ ~Delivered(e) /\ dc[e] # "none"
    BY <2>2 DEF Journey, OnItsWay
  <2> HIDE DEF e
  <2>5. Unique(ready') /\ \A x : Has(ready', x) <=> Has(ready, x) \/ x = e
    BY <1>0, <2>1, <2>2, <2>4, UniqueAppend DEF Journey
  <2>6. \A x : Has(worker', x) <=> Has(worker, x)
    BY <2>1
  <2>7. ASSUME NEW h \in Channels, OnItsWay(h)' PROVE OnItsWay(h) \/ h = e
    BY <2>3, <2>5, <2>6, <2>7, JourneyNext DEF OnItsWay
  <2>8. \A h \in Channels : OnItsWay(h)' => ~Delivered(h)' /\ dc'[h] # "none"
    BY <1>2, <2>1, <2>4, <2>7 DEF Journey
  <2>9. /\ Unique(queues'["incoming"]) /\ Unique(accepted')
        /\ \A h \in Channels : /\ Delivered(h)' => dc'[h] # "none"
                               /\ Has(accepted', h) => ~Has(queues'["incoming"], h)
        /\ \A h \in incoming' : Delivered(h)'
    BY <1>1, <1>2, <2>1 DEF Journey
  <2>11. \A h \in Channels : Has(worker', h) \/ Has(looked_up', h) => ~Has(ready', h)
    BY <2>3, <2>6
  <2>10. Len(worker') <= 1 /\ worker' = Nothing
    BY <2>1, <2>3 DEF Journey
  <2> QED
    BY <2>3, <2>5, <2>8, <2>9, <2>10, <2>11, JourneyNext
<1> QED
  BY <1>3, <1>4, <1>5

\* The handler of a channel wraps it and puts it in the queue; the others put nothing
\* there.
LEMMA HandleJourney == TypeOK /\ Journey /\ Handle => Journey'
<1> SUFFICES ASSUME TypeOK, Journey, Handle PROVE Journey'
  OBVIOUS
<1> DEFINE e == Head(ready)
           q == queues["incoming"]
<1>0. ready \in Seq(Callback) /\ q \in Seq(Items["incoming"])
  BY QueueItems DEF TypeOK, QueuesOK
<1>1. ready # <<>> /\ ready' = Tail(ready) /\ UNCHANGED <<worker, looked_up, accepted>>
  BY DEF Handle, native
<1>2. /\ Unique(ready') /\ (e \in Channels => ~Has(ready', e))
      /\ \A x : Has(ready, x) <=> Has(ready', x) \/ x = e
  BY <1>0, <1>1, UniqueTail DEF Journey
<1>3. CASE e \in Channels /\ HandleChannel(e)
  <2>1. q' = Append(q, e) /\ e \in Items["incoming"]
    BY <1>3, QueueItems DEF HandleChannel, Emit, PutIn, TypeOK, QueuesOK
  <2>2. dc' = [dc EXCEPT ![e] = "wrapped"] /\ incoming' = incoming \cup {e}
    BY <1>3 DEF HandleChannel
  <2>3. ~Delivered(e) /\ ~Has(worker, e) /\ ~Has(looked_up, e)
    BY <1>2, <1>3 DEF Journey, OnItsWay
  <2>4. ASSUME NEW h \in Channels PROVE dc'[h] # "none" <=> dc[h] # "none" \/ h = e
    BY <1>3, <2>2 DEF TypeOK
  <2> HIDE DEF e, q
  <2>5. Unique(q') /\ \A x : Has(q', x) <=> Has(q, x) \/ x = e
    <3>1. Unique(q) /\ ~Has(q, e)
      BY <2>3 DEF Journey, Delivered, q
    <3> QED
      BY <1>0, <2>1, <3>1, UniqueAppend
  <2>6. q' = queues'["incoming"] /\ q = queues["incoming"]
    BY DEF q
  <2>7. \A x : /\ Has(worker', x) <=> Has(worker, x)
               /\ Has(looked_up', x) <=> Has(looked_up, x)
               /\ Has(accepted', x) <=> Has(accepted, x)
    BY <1>1
  <2>8. \A h \in Channels : OnItsWay(h)' => OnItsWay(h) /\ h # e
    BY <1>2, <1>3, <2>3, <2>7, JourneyNext DEF OnItsWay
  <2>9. \A h : Delivered(h)' <=> Delivered(h) \/ h = e
    BY <2>5, <2>6, <2>7, JourneyNext DEF Delivered
  <2>10. \A h \in Channels : /\ OnItsWay(h)' => ~Delivered(h)' /\ dc'[h] # "none"
                             /\ Delivered(h)' => dc'[h] # "none"
    BY <2>4, <2>8, <2>9 DEF Journey
  <2>11. \A h \in Channels : Has(accepted', h) => ~Has(q', h)
    BY <2>3, <2>5, <2>6, <2>7 DEF Journey, Delivered
  <2>12. \A h \in incoming' : Delivered(h)'
    BY <2>2, <2>9 DEF Journey
  <2>13. \A h \in Channels : Has(worker', h) \/ Has(looked_up', h) => ~Has(ready', h)
    BY <1>2, <2>7 DEF Journey
  <2>14. /\ Len(worker') <= 1 /\ Len(looked_up') <= 1 /\ (worker' = Nothing \/ looked_up' = Nothing)
         /\ Unique(accepted')
    BY <1>1 DEF Journey
  <2> QED
    BY <1>2, <2>5, <2>6, <2>10, <2>11, <2>12, <2>13, <2>14, JourneyNext
<1>4. CASE e \notin Channels
  <2>0. /\ HandleCandidate \/ HandleEnd \/ HandleOther
        /\ queues = [x \in Queue |-> queues[x]] /\ "incoming" \in Queue
    BY <1>4 DEF Handle, TypeOK, QueuesOK, Queue
  <2>1. UNCHANGED <<q, dc, incoming>>
    <3>1. CASE HandleCandidate
      BY <2>0, <3>1 DEF HandleCandidate, Emit, PutIn, Queue
    <3>2. CASE HandleEnd
      BY <2>0, <3>2 DEF HandleEnd, Emit, PutIn, Queue
    <3>3. CASE HandleOther
      BY <2>0, <3>3 DEF HandleOther, Emit, PutIn, Queue
    <3> QED
      BY <2>0, <3>1, <3>2, <3>3
  <2>2. \A x : /\ Has(worker', x) <=> Has(worker, x)
               /\ Has(looked_up', x) <=> Has(looked_up, x)
               /\ Has(accepted', x) <=> Has(accepted, x)
               /\ Has(q', x) <=> Has(q, x)
    BY <1>1, <2>1
  <2> HIDE DEF e
  <2>3. \A h \in Channels : Has(ready', h) => Has(ready, h)
    BY <1>2
  <2>4. \A h : (Delivered(h)' <=> Delivered(h)) /\ (h \in Channels /\ OnItsWay(h)' => OnItsWay(h))
    BY <2>2, <2>3, JourneyNext DEF Delivered, OnItsWay
  <2>5. \A h \in Channels :
          /\ Has(worker', h) \/ Has(looked_up', h) => ~Has(ready', h)
          /\ OnItsWay(h)' => ~Delivered(h)' /\ dc'[h] # "none"
          /\ Delivered(h)' => dc'[h] # "none"
          /\ Has(accepted', h) => ~Has(q', h)
    BY <2>1, <2>2, <2>3, <2>4 DEF Journey
  <2>6. \A h \in incoming' : Delivered(h)'
    BY <2>1, <2>4 DEF Journey
  <2>7. /\ Len(worker') <= 1 /\ Len(looked_up') <= 1 /\ (worker' = Nothing \/ looked_up' = Nothing)
        /\ Unique(accepted') /\ Unique(q')
    BY <1>1, <2>1 DEF Journey
  <2> QED
    BY <1>2, <2>5, <2>6, <2>7, JourneyNext
<1>5. e \in Channels => HandleChannel(e)
  BY HandlesAssumption DEF Handle
<1> QED
  BY <1>3, <1>4, <1>5

\* The consumers: the head of the queue goes to one of them; a sentinel is no channel.
LEMMA RunJourney == TypeOK /\ Journey /\ Run => Journey'
<1> SUFFICES ASSUME TypeOK, Journey, Run PROVE Journey'
  OBVIOUS
<1> DEFINE q == queues["incoming"]
<1>0. /\ q \in Seq(Items["incoming"]) /\ Items["incoming"] = Channels \cup {Sentinel}
      /\ queues = [x \in Queue |-> queues[x]] /\ "incoming" \in Queue
      /\ accepted \in Seq(Channels)
  BY DEF TypeOK, QueuesOK, Queue, Items
<1>1. UNCHANGED <<worker, looked_up, ready, dc, incoming>>
  BY DEF Run, native
<1>2. \A x : OnItsWay(x)' <=> OnItsWay(x)
  BY <1>1, JourneyNext DEF OnItsWay
<1>3. PICK c \in Coroutines :
        Resume(c) \/ WaitClosed(c) \/ Get(c) \/ SpawnTask(c) \/ FinishTask(c)
  BY DEF Run
\* What is left to show of each way the queue may change.
<1>4. ASSUME Unique(q'), Unique(accepted'), \A h \in Channels : Delivered(h)' <=> Delivered(h),
             \A h \in Channels : Has(accepted', h) => ~Has(q', h)
      PROVE  Journey'
  <2>1. \A h \in incoming' : Delivered(h)'
    BY <1>1, <1>4 DEF Journey, TypeOK
  <2>2. \A h \in Channels :
          /\ Has(worker', h) \/ Has(looked_up', h) => ~Has(ready', h)
          /\ OnItsWay(h)' => ~Delivered(h)' /\ dc'[h] # "none"
          /\ Delivered(h)' => dc'[h] # "none"
    BY <1>1, <1>2, <1>4 DEF Journey
  <2>3. /\ Len(worker') <= 1 /\ Len(looked_up') <= 1 /\ (worker' = Nothing \/ looked_up' = Nothing)
        /\ Unique(ready')
    BY <1>1 DEF Journey
  <2> QED
    BY <1>4, <2>1, <2>2, <2>3, JourneyNext
<1>5. CASE UNCHANGED <<q, accepted>>
  <2>1. Unique(q') /\ Unique(accepted') /\ \A x : (Has(q', x) <=> Has(q, x))
                                                /\ (Has(accepted', x) <=> Has(accepted, x))
    BY <1>5 DEF Journey
  <2> QED
    BY <1>4, <2>1, JourneyNext DEF Journey, Delivered
<1>6. CASE GotItem(c) /\ at[c] = "incoming"
  <2> DEFINE h == Head(q)
  <2>1. /\ q # <<>> /\ h # Sentinel /\ q' = Tail(q) /\ accepted' = Append(accepted, h)
    BY <1>0, <1>6 DEF GotItem
  <2>2. h \in Channels
    BY <1>0, <2>1, HeadTailProperties
  <2>3. /\ Unique(q') /\ ~Has(q', h) /\ \A x : Has(q, x) <=> Has(q', x) \/ x = h
    BY <1>0, <2>1, <2>2, UniqueTail DEF Journey
  <2> HIDE DEF h, q
  <2>4. ~Has(accepted, h)
    BY <2>2, <2>3 DEF Journey, q
  <2>5. Unique(accepted') /\ \A x : Has(accepted', x) <=> Has(accepted, x) \/ x = h
    BY <1>0, <2>1, <2>2, <2>4, UniqueAppend DEF Journey
  <2>6. \A x \in Channels : Has(accepted, x) => ~Has(q, x)
    BY DEF Journey, q
  <2>7. \A x : /\ Delivered(x)' <=> Has(q', x) \/ Has(accepted', x)
               /\ Delivered(x) <=> Has(q, x) \/ Has(accepted, x)
    BY JourneyNext DEF Delivered, q
  <2>8. \A x \in Channels : Delivered(x)' <=> Delivered(x)
    BY <2>3, <2>5, <2>7
  <2>9. \A x \in Channels : Has(accepted', x) => ~Has(q', x)
    BY <2>3, <2>5, <2>6
  <2> QED
    BY <1>4, <2>3, <2>5, <2>8, <2>9 DEF q
<1>7. CASE GotSentinel(c) /\ at[c] = "incoming"
  <2> DEFINE t == Tail(q)
  <2>1. /\ q # <<>> /\ Head(q) = Sentinel /\ q' = Append(t, Sentinel) /\ UNCHANGED accepted
    BY <1>0, <1>7 DEF GotSentinel
  <2>2. Sentinel \notin Channels /\ Sentinel \in Items["incoming"]
    BY <1>0, SentinelAssumption
  <2>3. t \in Seq(Items["incoming"]) /\ Unique(t) /\ \A x : Has(q, x) <=> Has(t, x) \/ x = Sentinel
    BY <1>0, <2>1, UniqueTail, HeadTailProperties DEF Journey
  <2> HIDE DEF t, q
  <2>4. Unique(q') /\ \A x : Has(q', x) <=> Has(t, x) \/ x = Sentinel
    BY <2>1, <2>2, <2>3, UniqueAppend
  <2>5. \A x : (Has(accepted', x) <=> Has(accepted, x)) /\ (Has(q', x) <=> Has(q, x))
    BY <2>1, <2>3, <2>4
  <2>6. Unique(accepted') /\ \A x \in Channels : Has(accepted', x) => ~Has(q', x)
    BY <2>1, <2>5 DEF Journey, q
  <2>7. \A x : Delivered(x)' <=> Delivered(x)
    BY <2>5, JourneyNext DEF Delivered, q
  <2> QED
    BY <1>4, <2>4, <2>6, <2>7 DEF q
<1>8. CASE (GotItem(c) \/ GotSentinel(c)) /\ at[c] # "incoming"
  BY <1>0, <1>5, <1>8 DEF GotItem, GotSentinel
<1>9. CASE WaitClosed(c) \/ Get(c) \/ SpawnTask(c) \/ FinishTask(c)
  BY <1>5, <1>9 DEF WaitClosed, Get, SpawnTask, FinishTask
<1> QED
  BY <1>3, <1>6, <1>7, <1>8, <1>9 DEF Resume

\* close() puts a sentinel in the queue; the other steps leave queue and consumers alone,
\* and no channel goes back to "none".
LEMMA RestJourney ==
    ASSUME TypeOK, Journey,
           CreateChannel \/ CancelWait \/ Close \/ DestroyChannels \/ PopNative
              \/ DeleteNative \/ FinishTeardown \/ UNCHANGED vars
    PROVE  Journey'
<1> DEFINE q == queues["incoming"]
<1>1. UNCHANGED <<worker, looked_up, ready, incoming, accepted>>
  BY DEF CreateChannel, CancelWait, Close, DestroyChannels, PopNative, DeleteNative,
         FinishTeardown, vars, native
<1>2. ASSUME NEW h \in Channels, dc[h] # "none" PROVE dc'[h] # "none"
  <2>1. CASE CreateChannel
    BY <1>2, <2>1 DEF CreateChannel, TypeOK
  <2>2. CASE DestroyChannels
    BY <1>2, <2>2 DEF DestroyChannels, TypeOK
  <2>3. CASE UNCHANGED dc
    BY <1>2, <2>3
  <2> QED
    BY <2>1, <2>2, <2>3 DEF CancelWait, Close, PopNative, DeleteNative, FinishTeardown, vars
<1>3. Unique(q') /\ \A x \in Channels : Has(q', x) <=> Has(q, x)
  <2>1. CASE Close
    <3>1. q \in Seq(Items["incoming"]) /\ Sentinel \in Items["incoming"] /\ Sentinel \notin Channels
      BY SentinelAssumption DEF TypeOK, QueuesOK, Queue, Items
    <3>2. q' = Append(q, Sentinel)
      BY <2>1 DEF Close, Queue
    <3>3. Unique(q)
      BY DEF Journey
    <3> HIDE DEF q
    <3> QED
      BY <3>1, <3>2, <3>3, UniqueAppend
  <2>2. CASE UNCHANGED queues
    BY <2>2 DEF Journey, Has
  <2> QED
    BY <2>1, <2>2 DEF CreateChannel, CancelWait, DestroyChannels, PopNative, DeleteNative,
                      FinishTeardown, vars
<1> HIDE DEF q
<1>4. \A x \in Channels : /\ OnItsWay(x)' <=> OnItsWay(x)
                          /\ Delivered(x)' <=> Delivered(x)
                          /\ Has(accepted', x) <=> Has(accepted, x)
  BY <1>1, <1>3, JourneyNext DEF OnItsWay, Delivered, q
<1>5. \A h \in Channels :
        /\ Has(worker', h) \/ Has(looked_up', h) => ~Has(ready', h)
        /\ OnItsWay(h)' => ~Delivered(h)' /\ dc'[h] # "none"
        /\ Delivered(h)' => dc'[h] # "none"
        /\ Has(accepted', h) => ~Has(q', h)
  BY <1>1, <1>2, <1>3, <1>4 DEF Journey, q
<1>6. \A h \in incoming' : Delivered(h)'
  BY <1>1, <1>4 DEF Journey, TypeOK
<1>7. /\ Len(worker') <= 1 /\ Len(looked_up') <= 1 /\ (worker' = Nothing \/ looked_up' = Nothing)
      /\ Unique(ready') /\ Unique(accepted')
  BY <1>1 DEF Journey
<1> QED
  BY <1>3, <1>5, <1>6, <1>7, JourneyNext DEF q

LEMMA InitJourney == Init => Journey
BY DEF Init, Journey, OnItsWay, Delivered, Has, Unique, Nothing, Queue

LEMMA JourneyKeeps == TypeOK /\ Journey => ChannelsKept
<1> SUFFICES ASSUME TypeOK, Journey PROVE ChannelsKept
  OBVIOUS
<1>1. \A x : InQueue("incoming", x) <=> Has(queues["incoming"], x)
  BY DEF InQueue, Has
<1>2. \A i \in 1..Len(accepted) : accepted[i] \in Channels /\ Has(accepted, accepted[i])
  BY DEF TypeOK, Has
<1>3. \A h \in incoming : InQueue("incoming", h) \/ \E i \in 1..Len(accepted) : accepted[i] = h
  BY <1>1 DEF Journey, Delivered, Has
<1>4. \A i, j \in 1..Len(accepted) : accepted[i] = accepted[j] => i = j
  BY <1>2 DEF Journey, Unique
<1>5. \A i \in 1..Len(accepted) : ~InQueue("incoming", accepted[i])
  BY <1>1, <1>2 DEF Journey
<1> QED
  BY <1>3, <1>4, <1>5 DEF ChannelsKept

\* An incoming channel is never lost and never handed out twice: one that has been
\* wrapped waits in the queue or one consumer has got it, even when it comes during the
\* shutdown and whichever consumers there are.
THEOREM ChannelsStay == Spec => []ChannelsKept
<1>1. TypeOK /\ Journey /\ [Next]_vars => Journey'
  BY WorkerJourney, HandleJourney, RunJourney, RestJourney DEF Next
<1> QED
  BY <1>1, InitJourney, JourneyKeeps, TypeCorrect, PTL DEF Spec
===============================================================================

