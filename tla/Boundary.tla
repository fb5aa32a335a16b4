-------------------------------- MODULE Boundary --------------------------------
(***************************************************************************)
(* The boundary between Python and libdatachannel (_core.py and            *)
(* bindings.cpp): which thread holds the GIL, which holds a lock of        *)
(* libdatachannel or of a registry, and who waits for whom.  A callback    *)
(* runs with the callback mutex of its source held and needs the GIL; a    *)
(* call from Python that needs that mutex must have let the GIL go.        *)
(*                                                                         *)
(* The threads are the loop's, one of the executor's, and the workers of   *)
(* libdatachannel.  A step is what a thread does between two points where  *)
(* it may lose or wait for the GIL or a lock.  The sources of callbacks    *)
(* are the handles and the logger.  What a callback does once it is posted *)
(* to the loop is the subject of DataChannel, PeerConnection and           *)
(* Negotiation.                                                            *)
(***************************************************************************)
EXTENDS Naturals

CONSTANTS
    Conns, Chans,       \* handles of peer connections and of data channels
    Workers,            \* worker threads of libdatachannel
    Loop, Pool,         \* the thread of the event loop, and one of its executor
    Logger,             \* the source of the log lines
    Kinds,              \* the callbacks of a handle, in the order of their registration
    Nobody, Nothing     \* no thread, no source

Handles == Conns \cup Chans
Sources == Handles \cup {Logger}
Threads == Workers \cup {Loop, Pool}

ASSUME ThreadAssumption ==
    Loop \notin Workers \cup {Pool} /\ Pool \notin Workers /\ Nobody \notin Threads
ASSUME SourceAssumption ==
    /\ Conns \cap Chans = {} /\ Logger \notin Handles /\ Nothing \notin Sources
ASSUME KindAssumption == Kinds # {} /\ Kinds \subseteq Nat \ {0}

\* The callbacks a source has: the logger, one.
KindsOf(s) == IF s = Logger THEN {0} ELSE Kinds

VARIABLES
    gil,                \* the thread that holds the GIL
    mutex,              \* per source: the thread that holds its callback mutex
    lock,               \* _pc_lock and _dc_lock
    at, on, kind,       \* per thread: where it is, for which source and which callback
    registry,           \* the keys of _pcs and _dcs
    stored,             \* per source: the callbacks the wrapper has (_callbacks, _log_callback)
    enabled,            \* per source: the trampolines libdatachannel has
    destroyed,          \* per handle: _destroyed
    life,               \* per source: how far its construction and deletion have got
    dispatcher,         \* g_dispatcher is set
    exit                \* how far the interpreter is on its way out

vars == <<gil, mutex, lock, at, on, kind, registry, stored, enabled, destroyed, life,
          dispatcher, exit>>
place == <<at, on, kind>>
wrappers == <<registry, stored, destroyed>>

InCallback == {"trampoline", "lookup", "call", "leave"}
InDestroy == {"test", "mark", "pop", "deleting"}
\* Where the registry's lock is needed, where the GIL is, and where neither is.
Locking == {"insert", "lookup", "pop"}
Python == {"insert", "attach", "test", "mark", "pop", "invoke", "back", "unhook"} \cup InCallback
Native == {"set", "deleting", "blocking", "cleanup"}

Kind == Kinds \cup {0}

TypeOK ==
    /\ gil \in Threads \cup {Nobody}
    /\ mutex \in [Sources -> Threads \cup {Nobody}]
    /\ lock \in [{"pc", "dc"} -> Threads \cup {Nobody}]
    /\ at \in [Threads -> {"idle"} \cup Python \cup Native]
    /\ on \in [Threads -> Sources \cup {Nothing}]
    /\ kind \in [Threads -> Kind]
    /\ registry \subseteq Handles
    /\ stored \in [Sources -> SUBSET Kind] /\ enabled \in [Sources -> SUBSET Kind]
    /\ destroyed \in [Handles -> BOOLEAN]
    /\ life \in [Sources -> {"absent", "attaching", "attached", "deleted"}]
    /\ dispatcher \in BOOLEAN
    /\ exit \in {"running", "channels", "connections", "cleanup", "cleaned", "unhooked"}

Init ==
    /\ gil = Nobody /\ mutex = [s \in Sources |-> Nobody]
    /\ lock = [r \in {"pc", "dc"} |-> Nobody]
    /\ at = [t \in Threads |-> "idle"] /\ on = [t \in Threads |-> Nothing]
    /\ kind = [t \in Threads |-> 0]
    /\ registry = {}
    /\ stored = [s \in Sources |-> {}] /\ enabled = [s \in Sources |-> {}]
    /\ destroyed = [h \in Handles |-> FALSE] /\ life = [s \in Sources |-> "absent"]
    /\ dispatcher = TRUE /\ exit = "running"

(* ---- The GIL and the locks of the registries -------------------------------- *)

Go(t, p) == at' = [at EXCEPT ![t] = p]

\* t begins an operation on s, and ends it.
Begin(t, p, s) == Go(t, p) /\ on' = [on EXCEPT ![t] = s]
End(t) == Begin(t, "idle", Nothing) /\ kind' = [kind EXCEPT ![t] = 0]

HasGil(t) == gil = t

LockOf(s) == IF s \in Conns THEN "pc" ELSE "dc"

\* `with _pc_lock:`, `with _dc_lock:`.  A thread that has to wait sleeps without the GIL.
\* Log lines are not looked up in a registry.
TakeLock(t) ==
    /\ at[t] \in Locking /\ lock[LockOf(on[t])] = Nobody
    /\ lock' = [lock EXCEPT ![LockOf(on[t])] = t]
    /\ UNCHANGED <<gil, mutex, place, wrappers, enabled, life, dispatcher, exit>>

\* A thread in Python gets the GIL when it is free or its holder, in Python too, has
\* to hand it over (the switch interval, or a wait for a lock).
WantsGil(t) == at[t] \in Python /\ (at[t] \in Locking => lock[LockOf(on[t])] = t)
GilComes == gil # Nobody => at[gil] \in Python

TakeGil(t) ==
    /\ WantsGil(t) /\ gil # t /\ GilComes
    /\ gil' = t
    /\ UNCHANGED <<mutex, lock, place, wrappers, enabled, life, dispatcher, exit>>

HasLock(t) == HasGil(t) /\ lock[LockOf(on[t])] = t
Unlock(t) == lock' = [lock EXCEPT ![LockOf(on[t])] = Nobody]

(* ---- Construction of a wrapper, installation of the logger -------------------- *)

\* A connection is created, a channel is created on one or announced by the peer, and
\* the loop wraps the handle; or init_logger is called, any number of times.
StartWrap ==
    /\ at[Loop] = "idle" /\ exit = "running"
    /\ \/ \E h \in Handles :
            /\ life[h] = "absent"
            /\ h \in Chans => \E c \in Conns : life[c] # "absent"
            /\ Begin(Loop, "insert", h)
            /\ life' = [life EXCEPT ![h] = "attaching"]
       \/ /\ Begin(Loop, "attach", Logger)
          /\ life' = [life EXCEPT ![Logger] = "attaching"]
    /\ UNCHANGED <<gil, mutex, lock, kind, wrappers, enabled, dispatcher, exit>>

\* The wrapper enters the registry before it has any callback.
Insert(t) ==
    /\ at[t] = "insert" /\ HasLock(t)
    /\ registry' = registry \cup {on[t]}
    /\ Unlock(t) /\ Go(t, "attach")
    /\ UNCHANGED <<gil, mutex, on, kind, stored, enabled, destroyed, life, dispatcher, exit>>

\* k is the next callback s is to have; the logger's is set again and again.
IsNext(k, s) ==
    \/ s = Logger
    \/ k \notin stored[s] /\ \A j \in Kinds : j < k => j \in stored[s]

\* Mutant: the registration keeps the GIL.
AttachWithGil(t) ==
    /\ at[t] = "attach" /\ HasGil(t)
    /\ \E k \in KindsOf(on[t]) :
          /\ IsNext(k, on[t])
          /\ stored' = [stored EXCEPT ![on[t]] = @ \cup {k}]
          /\ kind' = [kind EXCEPT ![t] = k]
    /\ Go(t, "set")
    /\ UNCHANGED <<gil, mutex, lock, on, registry, enabled, destroyed, life, dispatcher, exit>>

\* set_on_*: the wrapper stores the callback, then the binding lets the GIL go to
\* register the trampoline.
Attach(t) ==
    /\ at[t] = "attach" /\ HasGil(t)
    /\ \E k \in KindsOf(on[t]) :
          /\ IsNext(k, on[t])
          /\ stored' = [stored EXCEPT ![on[t]] = @ \cup {k}]
          /\ kind' = [kind EXCEPT ![t] = k]
    /\ Go(t, "set") /\ gil' = Nobody
    /\ UNCHANGED <<mutex, lock, on, registry, enabled, destroyed, life, dispatcher, exit>>

\* Where a registration continues: with the next kind, or back to the caller.
Attached(s) == IF KindsOf(s) \subseteq stored[s] THEN "back" ELSE "attach"

\* rtcSet*Callback takes the callback mutex; a channel that is open already is reported
\* at once, on this thread and with the mutex held.  It may fail for a handle: the
\* exception leaves the wrapper in the registry, with the callbacks it has got so far.
Set(t) ==
    /\ at[t] = "set" /\ mutex[on[t]] = Nobody
    /\ LET registered == [enabled EXCEPT ![on[t]] = @ \cup {kind[t]}]
       IN  \/ enabled' = registered /\ Go(t, Attached(on[t])) /\ UNCHANGED mutex
           \/ /\ on[t] \in Chans
              /\ enabled' = registered
              /\ Go(t, "trampoline") /\ mutex' = [mutex EXCEPT ![on[t]] = t]
           \/ on[t] \in Handles /\ Go(t, "back") /\ UNCHANGED <<enabled, mutex>>
    /\ UNCHANGED <<gil, lock, on, kind, wrappers, life, dispatcher, exit>>

(* ---- Callbacks -------------------------------------------------------------------- *)

\* A worker has something to report: it takes the mutex and enters the trampoline.  The
\* library may have a line to log at any time, after the exit hook too.
Fire(w) ==
    /\ at[w] = "idle"
    /\ \E s \in Sources : \E k \in enabled[s] :
          /\ mutex[s] = Nobody /\ mutex' = [mutex EXCEPT ![s] = w]
          /\ kind' = [kind EXCEPT ![w] = k]
          /\ Begin(w, "trampoline", s)
    /\ UNCHANGED <<gil, lock, wrappers, enabled, life, dispatcher, exit>>

\* safe_call_dispatcher reads g_dispatcher, which the exit hook takes away; _dispatch reads
\* the kind of the callback.
Dispatch(t) ==
    /\ at[t] = "trampoline" /\ HasGil(t)
    /\ Go(t, IF ~dispatcher THEN "leave" ELSE IF on[t] = Logger THEN "call" ELSE "lookup")
    /\ UNCHANGED <<gil, mutex, lock, on, kind, wrappers, enabled, life, dispatcher, exit>>

\* _lookup_pc, _lookup_dc: a handle that has left its registry is ignored.
LookUp(t) ==
    /\ at[t] = "lookup" /\ HasLock(t)
    /\ Go(t, IF on[t] \in registry THEN "call" ELSE "leave")
    /\ Unlock(t)
    /\ UNCHANGED <<gil, mutex, on, kind, wrappers, enabled, life, dispatcher, exit>>

\* _fire: the callback, unless destroy() has cleared it, posts to the loop.
Call(t) ==
    /\ at[t] = "call" /\ HasGil(t)
    /\ Go(t, "leave")
    /\ UNCHANGED <<gil, mutex, lock, on, kind, wrappers, enabled, life, dispatcher, exit>>

\* The trampoline returns: the GIL goes, then the mutex.
Leave(t) ==
    /\ at[t] = "leave" /\ HasGil(t)
    /\ gil' = Nobody /\ mutex' = [mutex EXCEPT ![on[t]] = Nobody]
    /\ IF t \in Workers THEN End(t) ELSE Go(t, Attached(on[t])) /\ UNCHANGED <<on, kind>>
    /\ UNCHANGED <<lock, wrappers, enabled, life, dispatcher, exit>>

(* ---- Calls that may block, destruction ------------------------------------------------ *)

\* send, close, the descriptions and the candidates: from the loop or from the pool.
StartCall(t) ==
    /\ t \in {Loop, Pool} /\ at[t] = "idle" /\ exit = "running"
    /\ \E h \in Handles : life[h] \in {"attached", "deleted"} /\ Begin(t, "invoke", h)
    /\ UNCHANGED <<gil, mutex, lock, kind, wrappers, enabled, life, dispatcher, exit>>

\* Mutant: a blocking call that keeps the GIL.
InvokeWithGil(t) ==
    /\ at[t] = "invoke" /\ HasGil(t)
    /\ Go(t, "blocking")
    /\ UNCHANGED <<gil, mutex, lock, on, kind, wrappers, enabled, life, dispatcher, exit>>

\* no_gil.
Invoke(t) ==
    /\ at[t] = "invoke" /\ HasGil(t)
    /\ Go(t, "blocking") /\ gil' = Nobody
    /\ UNCHANGED <<mutex, lock, on, kind, wrappers, enabled, life, dispatcher, exit>>

\* libdatachannel gets the lock it needs, does what was asked or fails, and returns.
Blocking(t) ==
    /\ at[t] = "blocking" /\ mutex[on[t]] = Nobody
    /\ Go(t, "back")
    /\ UNCHANGED <<gil, mutex, lock, on, kind, wrappers, enabled, life, dispatcher, exit>>

\* The operation returns to its caller.
Back(t) ==
    /\ at[t] = "back" /\ HasGil(t)
    /\ gil' = Nobody /\ End(t)
    /\ life' = [life EXCEPT ![on[t]] = IF @ = "attaching" THEN "attached" ELSE @]
    /\ UNCHANGED <<mutex, lock, wrappers, enabled, dispatcher, exit>>

\* The loop destroys channels, as often as their users and the owner's teardown ask;
\* the pool destroys connections.
StartDestroy(t) ==
    /\ at[t] = "idle" /\ exit = "running"
    /\ \E h \in Handles :
          /\ life[h] \in {"attached", "deleted"}
          /\ \/ t = Loop /\ h \in Chans
             \/ t = Pool /\ h \in Conns
          /\ Begin(t, "test", h)
    /\ UNCHANGED <<gil, mutex, lock, kind, wrappers, enabled, life, dispatcher, exit>>

\* Mutant: destroy() does not look at the flag.
NoTest(t) ==
    /\ at[t] = "test" /\ HasGil(t)
    /\ Go(t, "mark")
    /\ UNCHANGED <<gil, mutex, lock, on, kind, wrappers, enabled, life, dispatcher, exit>>

Test(t) ==
    /\ at[t] = "test" /\ HasGil(t)
    /\ Go(t, IF destroyed[on[t]] THEN "back" ELSE "mark")
    /\ UNCHANGED <<gil, mutex, lock, on, kind, wrappers, enabled, life, dispatcher, exit>>

\* Mutant: the callbacks go first and the flag is forgotten.
ClearOnly(t) ==
    /\ at[t] = "mark" /\ HasGil(t)
    /\ stored' = [stored EXCEPT ![on[t]] = {}]
    /\ Go(t, "pop")
    /\ UNCHANGED <<gil, mutex, lock, on, kind, registry, destroyed, enabled, life, dispatcher,
                   exit>>

Mark(t) ==
    /\ at[t] = "mark" /\ HasGil(t)
    /\ destroyed' = [destroyed EXCEPT ![on[t]] = TRUE]
    /\ stored' = [stored EXCEPT ![on[t]] = {}]
    /\ Go(t, "pop")
    /\ UNCHANGED <<gil, mutex, lock, on, kind, registry, enabled, life, dispatcher, exit>>

\* The wrapper leaves the registry, and delete_* lets the GIL go.
Pop(t) ==
    /\ at[t] = "pop" /\ HasLock(t)
    /\ registry' = registry \ {on[t]}
    /\ Unlock(t) /\ Go(t, "deleting") /\ gil' = Nobody
    /\ UNCHANGED <<mutex, on, kind, stored, enabled, destroyed, life, dispatcher, exit>>

\* Each trampoline is cleared under the callback mutex, after a callback in flight.
Clear(t) ==
    /\ at[t] = "deleting" /\ mutex[on[t]] = Nobody
    /\ \E k \in enabled[on[t]] : enabled' = [enabled EXCEPT ![on[t]] = @ \ {k}]
    /\ UNCHANGED <<gil, mutex, lock, place, wrappers, life, dispatcher, exit>>

WorkersDone == \A w \in Workers : at[w] = "idle"

\* Mutant: the trampolines are left in place.
DeleteUncleared(t) ==
    /\ at[t] = "deleting" /\ (on[t] \in Conns => WorkersDone)
    /\ life' = [life EXCEPT ![on[t]] = "deleted"] /\ Go(t, "back")
    /\ UNCHANGED <<gil, mutex, lock, on, kind, wrappers, enabled, dispatcher, exit>>

\* Then the handle is deleted; for a connection the workers have to be done.
Delete(t) ==
    /\ at[t] = "deleting" /\ enabled[on[t]] = {}
    /\ on[t] \in Conns => WorkersDone
    /\ life' = [life EXCEPT ![on[t]] = "deleted"] /\ Go(t, "back")
    /\ UNCHANGED <<gil, mutex, lock, on, kind, wrappers, enabled, dispatcher, exit>>

(* ---- The exit hook, on the main thread, which ran the loop ---------------------------- *)

\* The interpreter has joined the executor's threads before the hook runs.
StartExit ==
    /\ exit = "running" /\ at[Loop] = "idle" /\ at[Pool] = "idle"
    /\ exit' = "channels"
    /\ UNCHANGED <<gil, mutex, lock, place, wrappers, enabled, life, dispatcher>>

Swept == [channels |-> Chans, connections |-> Conns]

\* The next wrapper of the registry is destroyed: the channels first.
Sweep ==
    /\ at[Loop] = "idle" /\ exit \in {"channels", "connections"}
    /\ \E h \in registry \cap Swept[exit] : Begin(Loop, "test", h)
    /\ UNCHANGED <<gil, mutex, lock, kind, wrappers, enabled, life, dispatcher, exit>>

SweepDone ==
    /\ at[Loop] = "idle"
    /\ \/ exit = "channels" /\ registry \cap Chans = {} /\ exit' = "connections" /\ UNCHANGED at
       \/ /\ exit = "connections" /\ registry \cap Conns = {}
          /\ exit' = "cleanup" /\ Go(Loop, "cleanup")
    /\ UNCHANGED <<gil, mutex, lock, on, kind, wrappers, enabled, life, dispatcher>>

\* rtcCleanup, without the GIL: it waits for libdatachannel's threads for a while, and the
\* hook goes on whether they have come to their end or not.
Cleanup ==
    /\ at[Loop] = "cleanup"
    /\ exit' = "cleaned" /\ Go(Loop, "unhook")
    /\ UNCHANGED <<gil, mutex, lock, on, kind, wrappers, enabled, life, dispatcher>>

\* Mutant: the dispatcher is None, and still one.
UnhookToNone ==
    /\ at[Loop] = "unhook" /\ HasGil(Loop)
    /\ dispatcher' = Nothing /\ exit' = "unhooked"
    /\ Go(Loop, "idle") /\ gil' = Nobody
    /\ UNCHANGED <<mutex, lock, on, kind, wrappers, enabled, life>>

\* Mutant: the dispatcher is left in place.
UnhookNothing ==
    /\ at[Loop] = "unhook" /\ HasGil(Loop)
    /\ exit' = "unhooked"
    /\ Go(Loop, "idle") /\ gil' = Nobody
    /\ UNCHANGED <<mutex, lock, on, kind, wrappers, enabled, life, dispatcher>>

\* register_dispatcher(None); the interpreter is torn down after it.
Unhook ==
    /\ at[Loop] = "unhook" /\ HasGil(Loop)
    /\ dispatcher' = FALSE /\ exit' = "unhooked"
    /\ Go(Loop, "idle") /\ gil' = Nobody
    /\ UNCHANGED <<mutex, lock, on, kind, wrappers, enabled, life>>

\* What a thread does once it is in an operation.
Step(t) ==
    \/ TakeLock(t) \/ Insert(t) \/ Attach(t) \/ Set(t)
    \/ Dispatch(t) \/ LookUp(t) \/ Call(t) \/ Leave(t)
    \/ Invoke(t) \/ Blocking(t) \/ Back(t)
    \/ Test(t) \/ Mark(t) \/ Pop(t) \/ Clear(t) \/ Delete(t)

Hook == Sweep \/ SweepDone \/ Cleanup \/ Unhook

Next ==
    \/ \E t \in Threads : TakeGil(t) \/ Step(t) \/ StartCall(t) \/ StartDestroy(t)
    \/ \E w \in Workers : Fire(w)
    \/ StartWrap \/ StartExit \/ Hook

Spec == Init /\ [][Next]_vars

(***************************************************************************)
(* Fairness.  A thread that wants the GIL gets it, for the interpreter     *)
(* makes its holder hand it over, and it keeps it long enough to get       *)
(* somewhere (SF: others may have the GIL, or the mutex, in between).      *)
(* Nobody need begin an operation, and libdatachannel need not report.     *)
(***************************************************************************)
Fairness ==
    /\ \A t \in Threads : WF_vars(TakeGil(t)) /\ SF_vars(Step(t))
    /\ SF_vars(Hook)

LiveSpec == Spec /\ Fairness

(* ---- Properties ------------------------------------------------------------------------ *)

\* A thread in an operation that could go on now: nobody has to move first.
CanMove(t) ==
    \/ WantsGil(t) /\ (gil = t \/ GilComes)
    \/ at[t] \in Locking /\ lock[LockOf(on[t])] = Nobody
    \/ /\ at[t] \in {"set", "blocking", "deleting"} /\ mutex[on[t]] = Nobody
       /\ at[t] = "deleting" /\ on[t] \in Conns => WorkersDone
    \/ at[t] = "cleanup"

\* No deadlock among the GIL, the callback mutexes and the locks of the registries: as
\* long as any thread is in an operation, one of them can go on.
Unstuck == (\E t \in Threads : at[t] # "idle") => \E t \in Threads : CanMove(t)

\* No report is lost on its way: a callback that comes while its wrapper has not been
\* destroyed finds the wrapper in the registry and the callback in the wrapper.
ReportsFound ==
    \A t \in Threads : at[t] \in InCallback \ {"leave"} =>
        LET s == on[t]
        IN  \/ s = Logger /\ kind[t] \in stored[s]
            \/ s \in Handles /\ (destroyed[s] \/ (s \in registry /\ kind[t] \in stored[s]))

\* Once a handle has been deleted no callback of it is under way, and none can come.
NoneAfterDelete ==
    \A h \in Handles : life[h] = "deleted" =>
        enabled[h] = {} /\ \A t \in Threads : at[t] \in InCallback => on[t] # h

\* No handle is deleted twice: whoever is about to delete one is alone and first.
DeletedOnce ==
    \A t \in Threads : at[t] \in {"pop", "deleting"} =>
        /\ life[on[t]] = "attached"
        /\ \A u \in Threads \ {t} : at[u] \in {"mark", "pop", "deleting"} => on[u] # on[t]

\* From the library's cleanup on every handle that was ever wrapped is deleted, one wrapped
\* after the teardown of its connection included, and none is heard of.
SweptClean ==
    exit \in {"cleanup", "cleaned", "unhooked"} => \A h \in Handles :
        /\ life[h] \in {"absent", "deleted"} /\ enabled[h] = {}
        /\ \A t \in Threads : at[t] \in InCallback => on[t] # h

\* A line that is logged once the hook is through does not get into Python any more; one
\* that had got past the dispatcher before may still reach its callback.
LateIgnored ==
    exit = "unhooked" => \A t \in Threads :
        at'[t] \in {"lookup", "call"} => at[t] \in {"lookup", "call"}

\* The exit hook leaves nothing behind, and late callbacks of libdatachannel's threads,
\* which it need not have outlived, are ignored.
ExitClean == []SweptClean /\ [][LateIgnored]_vars

\* Whatever a thread has begun returns: no call of the wrappers, and no callback, waits
\* for ever on another thread.
OperationsReturn == \A t \in Threads : at[t] # "idle" ~> at[t] = "idle"
================================================================================
