----------------------------- MODULE BoundaryProofs -----------------------------
(***************************************************************************)
(* Proofs about Boundary, for any number of handles, of callbacks and of   *)
(* workers.                                                                *)
(***************************************************************************)
EXTENDS Boundary, TLAPS

(* ---- The inductive invariant -------------------------------------------------- *)

OfLoop == {"insert", "attach", "set", "cleanup", "unhook"}
OfHandle == {"insert", "lookup", "invoke", "blocking"} \cup InDestroy

\* What each thread does, and what it does it to.
Places ==
    \A t \in Threads :
        /\ t \in Workers => at[t] \in {"idle"} \cup InCallback
        /\ t = Pool => at[t] \in {"idle", "invoke", "blocking", "back"} \cup InDestroy
        /\ at[t] \notin {"idle", "cleanup", "unhook"} => on[t] \in Sources
        /\ at[t] \in OfHandle \/ (t = Pool /\ at[t] = "back") => on[t] \in Handles

\* Who holds the GIL, a callback mutex or the lock of a registry is where it is held.
Holders ==
    /\ gil # Nobody => at[gil] \in Python
    /\ \A s \in Sources : \A t \in Threads :
          mutex[s] = t <=> at[t] \in InCallback /\ on[t] = s
    /\ \A r \in {"pc", "dc"} : lock[r] # Nobody =>
          at[lock[r]] \in Locking /\ LockOf(on[lock[r]]) = r

\* How far the exit has got, and what that leaves to the threads.
Exiting ==
    /\ at[Loop] = "cleanup" <=> exit = "cleanup"
    /\ at[Loop] = "unhook" <=> exit = "cleaned"
    /\ exit # "running" =>
          at[Pool] = "idle" /\ at[Loop] \in {"idle", "back", "cleanup", "unhook"} \cup InDestroy
    /\ exit = "unhooked" => at[Loop] = "idle"
    /\ at[Pool] \in InDestroy => on[Pool] \in Conns
    /\ at[Loop] \in InDestroy =>
          \/ exit \in {"running", "channels"} /\ on[Loop] \in Chans
          \/ exit = "connections" /\ on[Loop] \in Conns
    /\ exit \in {"connections", "cleanup", "cleaned", "unhooked"} => registry \cap Chans = {}
    /\ exit \in {"cleanup", "cleaned", "unhooked"} => registry = {}
    /\ exit = "unhooked" => ~dispatcher

\* Where a thread is tells how far the wrapper it works on has got.
AtWrapper ==
    \A t \in Threads :
        /\ at[t] \in {"insert", "attach", "set"} /\ on[t] \in Handles =>
              life[on[t]] = "attaching"
        /\ t = Loop /\ at[t] \in InCallback => life[on[t]] = "attaching" /\ on[t] \in Handles
        /\ at[t] \in {"invoke", "blocking"} \cup InDestroy => life[on[t]] \in {"attached", "deleted"}
        /\ t = Pool /\ at[t] = "back" => life[on[t]] \in {"attached", "deleted"}
        /\ at[t] = "set" => kind[t] \in stored[on[t]]
        /\ at[t] \in InCallback => kind[t] \in enabled[on[t]]
        /\ at[t] = "mark" => ~destroyed[on[t]]
        /\ at[t] \in {"pop", "deleting"} => destroyed[on[t]] /\ life[on[t]] = "attached"

\* How far a wrapper has got tells where it is kept and who works on it.
Wrappers ==
    \A h \in Handles :
        /\ life[h] = "absent" => h \notin registry
        /\ destroyed[h] => life[h] \in {"attached", "deleted"}
        /\ destroyed[h] /\ life[h] = "attached" =>
              \E t \in {Loop, Pool} : on[t] = h /\ at[t] \in {"pop", "deleting"}
        /\ life[h] = "attaching" =>
              /\ on[Loop] = h /\ at[Loop] \in {"insert", "attach", "set", "back"} \cup InCallback
              /\ at[Loop] # "insert" => h \in registry
        /\ life[h] = "attached" => destroyed[h] \/ h \in registry
        /\ life[h] = "deleted" => destroyed[h] /\ enabled[h] = {}
        /\ enabled[h] # {} => destroyed[h] \/ h \in registry

\* A trampoline is in place for a callback that is stored, as long as there is a wrapper.
Stored ==
    \A s \in Sources : (s \in Handles => ~destroyed[s]) => enabled[s] \subseteq stored[s]

IInv == TypeOK /\ Places /\ Holders /\ Exiting /\ AtWrapper /\ Wrappers /\ Stored

(* ---- The steps ------------------------------------------------------------------ *)

\* The initial states satisfy the invariant.
LEMMA InitInvariant == Init => IInv
<1> SUFFICES ASSUME Init PROVE IInv
  OBVIOUS
<1> USE ThreadAssumption, SourceAssumption DEF Init, Threads, Sources, Handles
<1>1. TypeOK
  BY DEF TypeOK, Kind
<1>2. Places /\ AtWrapper
  BY DEF Places, AtWrapper, OfHandle, InCallback, InDestroy
<1>3. Holders
  BY DEF Holders, InCallback
<1>4. Exiting
  BY DEF Exiting, InDestroy
<1>5. Wrappers /\ Stored
  BY DEF Wrappers, Stored
<1> QED
  BY <1>1, <1>2, <1>3, <1>4, <1>5 DEF IInv

\* Every step keeps the types.
LEMMA TypeStep == TypeOK /\ Places /\ [Next]_vars => TypeOK'
<1> SUFFICES ASSUME TypeOK, Places, [Next]_vars PROVE TypeOK'
  OBVIOUS
<1> USE ThreadAssumption, SourceAssumption DEF Go, Begin, End, place, wrappers, HasGil,
    HasLock, Unlock, Threads, Sources, Handles, Python, Native, InCallback, InDestroy,
    OfHandle, TypeOK, Places, Attached, Kind, KindsOf, LockOf
<1>1. ASSUME NEW t \in Threads, TakeGil(t) PROVE TypeOK'
  BY <1>1 DEF TakeGil
<1>2. ASSUME NEW t \in Threads, TakeLock(t) PROVE TypeOK'
  BY <1>2 DEF TakeLock
<1>3. ASSUME NEW t \in Threads, Insert(t) PROVE TypeOK'
  BY <1>3 DEF Insert
<1>4. ASSUME NEW t \in Threads, Attach(t) PROVE TypeOK'
  BY <1>4 DEF Attach
<1>5. ASSUME NEW t \in Threads, Set(t) PROVE TypeOK'
  BY <1>5 DEF Set
<1>6. ASSUME NEW t \in Threads, Dispatch(t) PROVE TypeOK'
  BY <1>6 DEF Dispatch
<1>7. ASSUME NEW t \in Threads, LookUp(t) PROVE TypeOK'
  BY <1>7 DEF LookUp
<1>8. ASSUME NEW t \in Threads, Call(t) PROVE TypeOK'
  BY <1>8 DEF Call
<1>9. ASSUME NEW t \in Threads, Leave(t) PROVE TypeOK'
  BY <1>9 DEF Leave
<1>10. ASSUME NEW t \in Threads, Invoke(t) PROVE TypeOK'
  BY <1>10 DEF Invoke
<1>11. ASSUME NEW t \in Threads, Blocking(t) PROVE TypeOK'
  BY <1>11 DEF Blocking
<1>12. ASSUME NEW t \in Threads, Back(t) PROVE TypeOK'
  BY <1>12 DEF Back
<1>13. ASSUME NEW t \in Threads, Test(t) PROVE TypeOK'
  BY <1>13 DEF Test
<1>14. ASSUME NEW t \in Threads, Mark(t) PROVE TypeOK'
  BY <1>14 DEF Mark
<1>15. ASSUME NEW t \in Threads, Pop(t) PROVE TypeOK'
  BY <1>15 DEF Pop
<1>16. ASSUME NEW t \in Threads, Clear(t) PROVE TypeOK'
  BY <1>16 DEF Clear
<1>17. ASSUME NEW t \in Threads, Delete(t) PROVE TypeOK'
  BY <1>17 DEF Delete
<1>18. ASSUME NEW t \in Threads, StartCall(t) PROVE TypeOK'
  BY <1>18 DEF StartCall
<1>19. ASSUME NEW t \in Threads, StartDestroy(t) PROVE TypeOK'
  BY <1>19 DEF StartDestroy
<1>20. ASSUME NEW w \in Workers, Fire(w) PROVE TypeOK'
  BY <1>20 DEF Fire
<1>21. CASE StartWrap
  BY <1>21 DEF StartWrap
<1>22. CASE StartExit
  BY <1>22 DEF StartExit
<1>23. CASE Sweep
  BY <1>23 DEF Sweep
<1>24. CASE SweepDone
  BY <1>24 DEF SweepDone
<1>25. CASE Cleanup
  BY <1>25 DEF Cleanup
<1>26. CASE Unhook
  BY <1>26 DEF Unhook
<1>27. CASE UNCHANGED vars
  BY <1>27 DEF vars
<1> QED   BY <1>1, <1>2, <1>3, <1>4, <1>5, <1>6, <1>7, <1>8, <1>9, <1>10, <1>11, <1>12,
    <1>13, <1>14, <1>15, <1>16, <1>17, <1>18, <1>19, <1>20, <1>21, <1>22, <1>23, <1>24,
    <1>25, <1>26, <1>27 DEF Next, Step, Hook

\* Every thread stays among its own places.
LEMMA PlacesStep == TypeOK /\ Places /\ [Next]_vars => Places'
<1> SUFFICES ASSUME TypeOK, Places, [Next]_vars PROVE Places'
  OBVIOUS
<1> USE ThreadAssumption, SourceAssumption DEF Go, Begin, End, place, wrappers, HasGil,
    HasLock, Unlock, Threads, Sources, Handles, Python, Native, InCallback, InDestroy,
    OfHandle, TypeOK, Places, Attached, Swept
<1>1. ASSUME NEW t \in Threads, TakeGil(t) PROVE Places'
  BY <1>1 DEF TakeGil
<1>2. ASSUME NEW t \in Threads, TakeLock(t) PROVE Places'
  BY <1>2 DEF TakeLock
<1>3. ASSUME NEW t \in Threads, Insert(t) PROVE Places'
  BY <1>3 DEF Insert
<1>4. ASSUME NEW t \in Threads, Attach(t) PROVE Places'
  BY <1>4 DEF Attach
<1>5. ASSUME NEW t \in Threads, Set(t) PROVE Places'
  BY <1>5 DEF Set
<1>6. ASSUME NEW t \in Threads, Dispatch(t) PROVE Places'
  BY <1>6 DEF Dispatch
<1>7. ASSUME NEW t \in Threads, LookUp(t) PROVE Places'
  BY <1>7 DEF LookUp
<1>8. ASSUME NEW t \in Threads, Call(t) PROVE Places'
  BY <1>8 DEF Call
<1>9. ASSUME NEW t \in Threads, Leave(t) PROVE Places'
  BY <1>9 DEF Leave
<1>10. ASSUME NEW t \in Threads, Invoke(t) PROVE Places'
  BY <1>10 DEF Invoke
<1>11. ASSUME NEW t \in Threads, Blocking(t) PROVE Places'
  BY <1>11 DEF Blocking
<1>12. ASSUME NEW t \in Threads, Back(t) PROVE Places'
  BY <1>12 DEF Back
<1>13. ASSUME NEW t \in Threads, Test(t) PROVE Places'
  BY <1>13 DEF Test
<1>14. ASSUME NEW t \in Threads, Mark(t) PROVE Places'
  BY <1>14 DEF Mark
<1>15. ASSUME NEW t \in Threads, Pop(t) PROVE Places'
  BY <1>15 DEF Pop
<1>16. ASSUME NEW t \in Threads, Clear(t) PROVE Places'
  BY <1>16 DEF Clear
<1>17. ASSUME NEW t \in Threads, Delete(t) PROVE Places'
  BY <1>17 DEF Delete
<1>18. ASSUME NEW t \in Threads, StartCall(t) PROVE Places'
  BY <1>18 DEF StartCall
<1>19. ASSUME NEW t \in Threads, StartDestroy(t) PROVE Places'
  BY <1>19 DEF StartDestroy
<1>20. ASSUME NEW w \in Workers, Fire(w) PROVE Places'
  BY <1>20 DEF Fire
<1>21. CASE StartWrap
  BY <1>21 DEF StartWrap
<1>22. CASE StartExit
  BY <1>22 DEF StartExit
<1>23. CASE Sweep
  BY <1>23 DEF Sweep
<1>24. CASE SweepDone
  BY <1>24 DEF SweepDone
<1>25. CASE Cleanup
  BY <1>25 DEF Cleanup
<1>26. CASE Unhook
  BY <1>26 DEF Unhook
<1>27. CASE UNCHANGED vars
  BY <1>27 DEF vars
<1> QED   BY <1>1, <1>2, <1>3, <1>4, <1>5, <1>6, <1>7, <1>8, <1>9, <1>10, <1>11, <1>12,
    <1>13, <1>14, <1>15, <1>16, <1>17, <1>18, <1>19, <1>20, <1>21, <1>22, <1>23, <1>24,
    <1>25, <1>26, <1>27 DEF Next, Step, Hook

\* The GIL and the locks are where they are held.
LEMMA HoldersStep == TypeOK /\ Places /\ Holders /\ [Next]_vars => Holders'
<1> SUFFICES ASSUME TypeOK, Places, Holders, [Next]_vars PROVE Holders'
  OBVIOUS
<1> USE ThreadAssumption, SourceAssumption DEF Go, Begin, End, place, wrappers, HasGil,
    HasLock, Unlock, Threads, Sources, Handles, Python, Native, InCallback, InDestroy,
    OfHandle, TypeOK, Places, Holders, Attached, Locking, LockOf, WantsGil, GilComes
<1>1. ASSUME NEW t \in Threads, TakeGil(t) PROVE Holders'
  BY <1>1 DEF TakeGil
<1>2. ASSUME NEW t \in Threads, TakeLock(t) PROVE Holders'
  BY <1>2 DEF TakeLock
<1>3. ASSUME NEW t \in Threads, Insert(t) PROVE Holders'
  BY <1>3 DEF Insert
<1>4. ASSUME NEW t \in Threads, Attach(t) PROVE Holders'
  BY <1>4 DEF Attach
<1>5. ASSUME NEW t \in Threads, Set(t) PROVE Holders'
  BY <1>5 DEF Set
<1>6. ASSUME NEW t \in Threads, Dispatch(t) PROVE Holders'
  BY <1>6 DEF Dispatch
<1>7. ASSUME NEW t \in Threads, LookUp(t) PROVE Holders'
  BY <1>7 DEF LookUp
<1>8. ASSUME NEW t \in Threads, Call(t) PROVE Holders'
  BY <1>8 DEF Call
<1>9. ASSUME NEW t \in Threads, Leave(t) PROVE Holders'
  BY <1>9 DEF Leave
<1>10. ASSUME NEW t \in Threads, Invoke(t) PROVE Holders'
  BY <1>10 DEF Invoke
<1>11. ASSUME NEW t \in Threads, Blocking(t) PROVE Holders'
  BY <1>11 DEF Blocking
<1>12. ASSUME NEW t \in Threads, Back(t) PROVE Holders'
  BY <1>12 DEF Back
<1>13. ASSUME NEW t \in Threads, Test(t) PROVE Holders'
  BY <1>13 DEF Test
<1>14. ASSUME NEW t \in Threads, Mark(t) PROVE Holders'
  BY <1>14 DEF Mark
<1>15. ASSUME NEW t \in Threads, Pop(t) PROVE Holders'
  BY <1>15 DEF Pop
<1>16. ASSUME NEW t \in Threads, Clear(t) PROVE Holders'
  BY <1>16 DEF Clear
<1>17. ASSUME NEW t \in Threads, Delete(t) PROVE Holders'
  BY <1>17 DEF Delete
<1>18. ASSUME NEW t \in Threads, StartCall(t) PROVE Holders'
  BY <1>18 DEF StartCall
<1>19. ASSUME NEW t \in Threads, StartDestroy(t) PROVE Holders'
  BY <1>19 DEF StartDestroy
<1>20. ASSUME NEW w \in Workers, Fire(w) PROVE Holders'
  BY <1>20 DEF Fire
<1>21. CASE StartWrap
  BY <1>21 DEF StartWrap
<1>22. CASE StartExit
  BY <1>22 DEF StartExit
<1>23. CASE Sweep
  BY <1>23 DEF Sweep
<1>24. CASE SweepDone
  BY <1>24 DEF SweepDone
<1>25. CASE Cleanup
  BY <1>25 DEF Cleanup
<1>26. CASE Unhook
  BY <1>26 DEF Unhook
<1>27. CASE UNCHANGED vars
  BY <1>27 DEF vars
<1> QED   BY <1>1, <1>2, <1>3, <1>4, <1>5, <1>6, <1>7, <1>8, <1>9, <1>10, <1>11, <1>12,
    <1>13, <1>14, <1>15, <1>16, <1>17, <1>18, <1>19, <1>20, <1>21, <1>22, <1>23, <1>24,
    <1>25, <1>26, <1>27 DEF Next, Step, Hook

\* The phases of the exit come one after the other, with the executor at rest.
LEMMA ExitingStep == TypeOK /\ Places /\ Exiting /\ [Next]_vars => Exiting'
<1> SUFFICES ASSUME TypeOK, Places, Exiting, [Next]_vars PROVE Exiting'
  OBVIOUS
<1> USE ThreadAssumption, SourceAssumption DEF Go, Begin, End, place, wrappers, HasGil,
    HasLock, Unlock, Threads, Sources, Handles, Python, Native, InCallback, InDestroy,
    OfHandle, TypeOK, Places, Exiting, Attached, Swept, WorkersDone
<1>1. ASSUME NEW t \in Threads, TakeGil(t) PROVE Exiting'
  BY <1>1 DEF TakeGil
<1>2. ASSUME NEW t \in Threads, TakeLock(t) PROVE Exiting'
  BY <1>2 DEF TakeLock
<1>3. ASSUME NEW t \in Threads, Insert(t) PROVE Exiting'
  BY <1>3 DEF Insert
<1>4. ASSUME NEW t \in Threads, Attach(t) PROVE Exiting'
  BY <1>4 DEF Attach
<1>5. ASSUME NEW t \in Threads, Set(t) PROVE Exiting'
  BY <1>5 DEF Set
<1>6. ASSUME NEW t \in Threads, Dispatch(t) PROVE Exiting'
  BY <1>6 DEF Dispatch
<1>7. ASSUME NEW t \in Threads, LookUp(t) PROVE Exiting'
  BY <1>7 DEF LookUp
<1>8. ASSUME NEW t \in Threads, Call(t) PROVE Exiting'
  BY <1>8 DEF Call
<1>9. ASSUME NEW t \in Threads, Leave(t) PROVE Exiting'
  BY <1>9 DEF Leave
<1>10. ASSUME NEW t \in Threads, Invoke(t) PROVE Exiting'
  BY <1>10 DEF Invoke
<1>11. ASSUME NEW t \in Threads, Blocking(t) PROVE Exiting'
  BY <1>11 DEF Blocking
<1>12. ASSUME NEW t \in Threads, Back(t) PROVE Exiting'
  BY <1>12 DEF Back
<1>13. ASSUME NEW t \in Threads, Test(t) PROVE Exiting'
  BY <1>13 DEF Test
<1>14. ASSUME NEW t \in Threads, Mark(t) PROVE Exiting'
  BY <1>14 DEF Mark
<1>15. ASSUME NEW t \in Threads, Pop(t) PROVE Exiting'
  BY <1>15 DEF Pop
<1>16. ASSUME NEW t \in Threads, Clear(t) PROVE Exiting'
  BY <1>16 DEF Clear
<1>17. ASSUME NEW t \in Threads, Delete(t) PROVE Exiting'
  BY <1>17 DEF Delete
<1>18. ASSUME NEW t \in Threads, StartCall(t) PROVE Exiting'
  BY <1>18 DEF StartCall
<1>19. ASSUME NEW t \in Threads, StartDestroy(t) PROVE Exiting'
  BY <1>19 DEF StartDestroy
<1>20. ASSUME NEW w \in Workers, Fire(w) PROVE Exiting'
  BY <1>20 DEF Fire
<1>21. CASE StartWrap
  BY <1>21 DEF StartWrap
<1>22. CASE StartExit
  BY <1>22 DEF StartExit
<1>23. CASE Sweep
  BY <1>23 DEF Sweep
<1>24. CASE SweepDone
  BY <1>24 DEF SweepDone
<1>25. CASE Cleanup
  BY <1>25 DEF Cleanup
<1>26. CASE Unhook
  BY <1>26 DEF Unhook
<1>27. CASE UNCHANGED vars
  BY <1>27 DEF vars
<1> QED   BY <1>1, <1>2, <1>3, <1>4, <1>5, <1>6, <1>7, <1>8, <1>9, <1>10, <1>11, <1>12,
    <1>13, <1>14, <1>15, <1>16, <1>17, <1>18, <1>19, <1>20, <1>21, <1>22, <1>23, <1>24,
    <1>25, <1>26, <1>27 DEF Next, Step, Hook

\* A thread that works on a wrapper finds it as far as it left it: nobody else has
\* destroyed or deleted it meanwhile.
LEMMA AtWrapperStep == TypeOK /\ Places /\ Holders /\ Exiting /\ AtWrapper /\ Wrappers /\ [Next]_vars => AtWrapper'
<1> SUFFICES ASSUME TypeOK, Places, Holders, Exiting, AtWrapper, Wrappers, [Next]_vars PROVE AtWrapper'
  OBVIOUS
<1> USE ThreadAssumption, SourceAssumption DEF Go, Begin, End, place, wrappers, HasGil,
    HasLock, Unlock, Threads, Sources, Handles, Python, Native, InCallback, InDestroy,
    OfHandle, TypeOK, Places, Holders, Exiting, AtWrapper, Wrappers, Attached, Swept
<1>1. ASSUME NEW t \in Threads, TakeGil(t) PROVE AtWrapper'
  BY <1>1 DEF TakeGil
<1>2. ASSUME NEW t \in Threads, TakeLock(t) PROVE AtWrapper'
  BY <1>2 DEF TakeLock
<1>3. ASSUME NEW t \in Threads, Insert(t) PROVE AtWrapper'
  BY <1>3 DEF Insert
<1>4. ASSUME NEW t \in Threads, Attach(t) PROVE AtWrapper'
  BY <1>4 DEF Attach
<1>5. ASSUME NEW t \in Threads, Set(t) PROVE AtWrapper'
  BY <1>5 DEF Set
<1>6. ASSUME NEW t \in Threads, Dispatch(t) PROVE AtWrapper'
  BY <1>6 DEF Dispatch
<1>7. ASSUME NEW t \in Threads, LookUp(t) PROVE AtWrapper'
  BY <1>7 DEF LookUp
<1>8. ASSUME NEW t \in Threads, Call(t) PROVE AtWrapper'
  BY <1>8 DEF Call
<1>9. ASSUME NEW t \in Threads, Leave(t) PROVE AtWrapper'
  BY <1>9 DEF Leave
<1>10. ASSUME NEW t \in Threads, Invoke(t) PROVE AtWrapper'
  BY <1>10 DEF Invoke
<1>11. ASSUME NEW t \in Threads, Blocking(t) PROVE AtWrapper'
  BY <1>11 DEF Blocking
<1>12. ASSUME NEW t \in Threads, Back(t) PROVE AtWrapper'
  BY <1>12 DEF Back
<1>13. ASSUME NEW t \in Threads, Test(t) PROVE AtWrapper'
  BY <1>13 DEF Test
<1>14. ASSUME NEW t \in Threads, Mark(t) PROVE AtWrapper'
  BY <1>14 DEF Mark
<1>15. ASSUME NEW t \in Threads, Pop(t) PROVE AtWrapper'
  BY <1>15 DEF Pop
<1>16. ASSUME NEW t \in Threads, Clear(t) PROVE AtWrapper'
  BY <1>16 DEF Clear
<1>17. ASSUME NEW t \in Threads, Delete(t) PROVE AtWrapper'
  BY <1>17 DEF Delete
<1>18. ASSUME NEW t \in Threads, StartCall(t) PROVE AtWrapper'
  BY <1>18 DEF StartCall
<1>19. ASSUME NEW t \in Threads, StartDestroy(t) PROVE AtWrapper'
  BY <1>19 DEF StartDestroy
<1>20. ASSUME NEW w \in Workers, Fire(w) PROVE AtWrapper'
  BY <1>20 DEF Fire
<1>21. CASE StartWrap
  <2>1. CASE Begin(Loop, "attach", Logger) /\ life' = [life EXCEPT ![Logger] = "attaching"]
    BY <1>21, <2>1 DEF StartWrap
  <2>2. ASSUME NEW h \in Handles, life[h] = "absent", Begin(Loop, "insert", h),
               life' = [life EXCEPT ![h] = "attaching"]
        PROVE  AtWrapper'
    BY <1>21, <2>2 DEF StartWrap
  <2> QED
    BY <1>21, <2>1, <2>2 DEF StartWrap
<1>22. CASE StartExit
  BY <1>22 DEF StartExit
<1>23. CASE Sweep
  BY <1>23 DEF Sweep
<1>24. CASE SweepDone
  BY <1>24 DEF SweepDone
<1>25. CASE Cleanup
  BY <1>25 DEF Cleanup
<1>26. CASE Unhook
  BY <1>26 DEF Unhook
<1>27. CASE UNCHANGED vars
  BY <1>27 DEF vars
<1> QED   BY <1>1, <1>2, <1>3, <1>4, <1>5, <1>6, <1>7, <1>8, <1>9, <1>10, <1>11, <1>12,
    <1>13, <1>14, <1>15, <1>16, <1>17, <1>18, <1>19, <1>20, <1>21, <1>22, <1>23, <1>24,
    <1>25, <1>26, <1>27 DEF Next, Step, Hook

\* A wrapper stays where its age says it is, and in the hands of who works on it.
LEMMA WrappersStep == TypeOK /\ Places /\ Exiting /\ AtWrapper /\ Wrappers /\ [Next]_vars => Wrappers'
<1> SUFFICES ASSUME TypeOK, Places, Exiting, AtWrapper, Wrappers, [Next]_vars PROVE Wrappers'
  OBVIOUS
<1> USE ThreadAssumption, SourceAssumption DEF Go, Begin, End, place, wrappers, HasGil,
    HasLock, Unlock, Threads, Sources, Handles, Python, Native, InCallback, InDestroy,
    OfHandle, TypeOK, Places, Exiting, AtWrapper, Wrappers, Attached, Swept
<1>1. ASSUME NEW t \in Threads, TakeGil(t) PROVE Wrappers'
  BY <1>1 DEF TakeGil
<1>2. ASSUME NEW t \in Threads, TakeLock(t) PROVE Wrappers'
  BY <1>2 DEF TakeLock
<1>3. ASSUME NEW t \in Threads, Insert(t) PROVE Wrappers'
  BY <1>3 DEF Insert
<1>4. ASSUME NEW t \in Threads, Attach(t) PROVE Wrappers'
  BY <1>4 DEF Attach
<1>5. ASSUME NEW t \in Threads, Set(t) PROVE Wrappers'
  BY <1>5 DEF Set
<1>6. ASSUME NEW t \in Threads, Dispatch(t) PROVE Wrappers'
  BY <1>6 DEF Dispatch
<1>7. ASSUME NEW t \in Threads, LookUp(t) PROVE Wrappers'
  BY <1>7 DEF LookUp
<1>8. ASSUME NEW t \in Threads, Call(t) PROVE Wrappers'
  BY <1>8 DEF Call
<1>9. ASSUME NEW t \in Threads, Leave(t) PROVE Wrappers'
  BY <1>9 DEF Leave
<1>10. ASSUME NEW t \in Threads, Invoke(t) PROVE Wrappers'
  BY <1>10 DEF Invoke
<1>11. ASSUME NEW t \in Threads, Blocking(t) PROVE Wrappers'
  BY <1>11 DEF Blocking
<1>12. ASSUME NEW t \in Threads, Back(t) PROVE Wrappers'
  BY <1>12 DEF Back
<1>13. ASSUME NEW t \in Threads, Test(t) PROVE Wrappers'
  BY <1>13 DEF Test
<1>14. ASSUME NEW t \in Threads, Mark(t) PROVE Wrappers'
  BY <1>14 DEF Mark
<1>15. ASSUME NEW t \in Threads, Pop(t) PROVE Wrappers'
  BY <1>15 DEF Pop
<1>16. ASSUME NEW t \in Threads, Clear(t) PROVE Wrappers'
  BY <1>16 DEF Clear
<1>17. ASSUME NEW t \in Threads, Delete(t) PROVE Wrappers'
  BY <1>17 DEF Delete
<1>18. ASSUME NEW t \in Threads, StartCall(t) PROVE Wrappers'
  BY <1>18 DEF StartCall
<1>19. ASSUME NEW t \in Threads, StartDestroy(t) PROVE Wrappers'
  BY <1>19 DEF StartDestroy
<1>20. ASSUME NEW w \in Workers, Fire(w) PROVE Wrappers'
  BY <1>20 DEF Fire
<1>21. CASE StartWrap
  BY <1>21 DEF StartWrap
<1>22. CASE StartExit
  BY <1>22 DEF StartExit
<1>23. CASE Sweep
  BY <1>23 DEF Sweep
<1>24. CASE SweepDone
  BY <1>24 DEF SweepDone
<1>25. CASE Cleanup
  BY <1>25 DEF Cleanup
<1>26. CASE Unhook
  BY <1>26 DEF Unhook
<1>27. CASE UNCHANGED vars
  BY <1>27 DEF vars
<1> QED   BY <1>1, <1>2, <1>3, <1>4, <1>5, <1>6, <1>7, <1>8, <1>9, <1>10, <1>11, <1>12,
    <1>13, <1>14, <1>15, <1>16, <1>17, <1>18, <1>19, <1>20, <1>21, <1>22, <1>23, <1>24,
    <1>25, <1>26, <1>27 DEF Next, Step, Hook

\* No trampoline without its callback.
LEMMA StoredStep == TypeOK /\ Places /\ AtWrapper /\ Wrappers /\ Stored /\ [Next]_vars => Stored'
<1> SUFFICES ASSUME TypeOK, Places, AtWrapper, Wrappers, Stored, [Next]_vars PROVE Stored'
  OBVIOUS
<1> USE ThreadAssumption, SourceAssumption DEF Go, Begin, End, place, wrappers, HasGil,
    HasLock, Unlock, Threads, Sources, Handles, Python, Native, InCallback, InDestroy,
    OfHandle, TypeOK, Places, AtWrapper, Wrappers, Stored
<1>1. ASSUME NEW t \in Threads, TakeGil(t) PROVE Stored'
  BY <1>1 DEF TakeGil
<1>2. ASSUME NEW t \in Threads, TakeLock(t) PROVE Stored'
  BY <1>2 DEF TakeLock
<1>3. ASSUME NEW t \in Threads, Insert(t) PROVE Stored'
  BY <1>3 DEF Insert
<1>4. ASSUME NEW t \in Threads, Attach(t) PROVE Stored'
  BY <1>4 DEF Attach
<1>5. ASSUME NEW t \in Threads, Set(t) PROVE Stored'
  BY <1>5 DEF Set
<1>6. ASSUME NEW t \in Threads, Dispatch(t) PROVE Stored'
  BY <1>6 DEF Dispatch
<1>7. ASSUME NEW t \in Threads, LookUp(t) PROVE Stored'
  BY <1>7 DEF LookUp
<1>8. ASSUME NEW t \in Threads, Call(t) PROVE Stored'
  BY <1>8 DEF Call
<1>9. ASSUME NEW t \in Threads, Leave(t) PROVE Stored'
  BY <1>9 DEF Leave
<1>10. ASSUME NEW t \in Threads, Invoke(t) PROVE Stored'
  BY <1>10 DEF Invoke
<1>11. ASSUME NEW t \in Threads, Blocking(t) PROVE Stored'
  BY <1>11 DEF Blocking
<1>12. ASSUME NEW t \in Threads, Back(t) PROVE Stored'
  BY <1>12 DEF Back
<1>13. ASSUME NEW t \in Threads, Test(t) PROVE Stored'
  BY <1>13 DEF Test
<1>14. ASSUME NEW t \in Threads, Mark(t) PROVE Stored'
  BY <1>14 DEF Mark
<1>15. ASSUME NEW t \in Threads, Pop(t) PROVE Stored'
  BY <1>15 DEF Pop
<1>16. ASSUME NEW t \in Threads, Clear(t) PROVE Stored'
  BY <1>16 DEF Clear
<1>17. ASSUME NEW t \in Threads, Delete(t) PROVE Stored'
  BY <1>17 DEF Delete
<1>18. ASSUME NEW t \in Threads, StartCall(t) PROVE Stored'
  BY <1>18 DEF StartCall
<1>19. ASSUME NEW t \in Threads, StartDestroy(t) PROVE Stored'
  BY <1>19 DEF StartDestroy
<1>20. ASSUME NEW w \in Workers, Fire(w) PROVE Stored'
  BY <1>20 DEF Fire
<1>21. CASE StartWrap
  BY <1>21 DEF StartWrap
<1>22. CASE StartExit
  BY <1>22 DEF StartExit
<1>23. CASE Sweep
  BY <1>23 DEF Sweep
<1>24. CASE SweepDone
  BY <1>24 DEF SweepDone
<1>25. CASE Cleanup
  BY <1>25 DEF Cleanup
<1>26. CASE Unhook
  BY <1>26 DEF Unhook
<1>27. CASE UNCHANGED vars
  BY <1>27 DEF vars
<1> QED   BY <1>1, <1>2, <1>3, <1>4, <1>5, <1>6, <1>7, <1>8, <1>9, <1>10, <1>11, <1>12,
    <1>13, <1>14, <1>15, <1>16, <1>17, <1>18, <1>19, <1>20, <1>21, <1>22, <1>23, <1>24,
    <1>25, <1>26, <1>27 DEF Next, Step, Hook

\* Every reachable state satisfies the invariant.
THEOREM Invariance == Spec => []IInv
<1>1. IInv /\ [Next]_vars => IInv'
  BY TypeStep, PlacesStep, HoldersStep, ExitingStep, AtWrapperStep, WrappersStep, StoredStep
     DEF IInv
<1> QED
  BY <1>1, InitInvariant, PTL DEF Spec

\* Every reachable state is well typed.
THEOREM TypeCorrect == Spec => []TypeOK
BY Invariance, PTL DEF IInv

(* ---- No deadlock ------------------------------------------------------------------- *)

\* A thread in Python can go on, or the one that has the lock it waits for can.
LEMMA PythonMoves ==
    ASSUME IInv, GilComes, NEW t \in Threads, at[t] \in Python
    PROVE  \E u \in Threads : CanMove(u)
<1>1. CASE WantsGil(t)
  BY <1>1 DEF CanMove
<1>2. CASE ~WantsGil(t)
  <2> DEFINE u == lock[LockOf(on[t])]
  <2>1. at[t] \in Locking /\ u # t /\ LockOf(on[t]) \in {"pc", "dc"}
    BY <1>2 DEF WantsGil, LockOf
  <2>2. CASE u = Nobody
    BY <2>1, <2>2 DEF CanMove
  <2>3. CASE u # Nobody
    <3>1. u \in Threads /\ at[u] \in Locking /\ lock[LockOf(on[u])] = u
      BY <2>1, <2>3 DEF IInv, TypeOK, Holders
    <3>2. WantsGil(u)
      BY <3>1 DEF WantsGil, Locking, Python, InCallback
    <3> QED
      BY <3>1, <3>2 DEF CanMove
  <2> QED
    BY <2>2, <2>3
<1> QED
  BY <1>1, <1>2

\* With the GIL held its holder is in Python; with nobody in Python all callback mutexes
\* are free and the workers are done, so that whoever is in native code gets on.
LEMMA SomebodyMoves == IInv => Unstuck
<1> SUFFICES ASSUME IInv, NEW t \in Threads, at[t] # "idle"
             PROVE  \E u \in Threads : CanMove(u)
  BY DEF Unstuck
<1>1. CASE gil # Nobody
  BY <1>1, PythonMoves DEF IInv, TypeOK, Holders, GilComes
<1>2. CASE gil = Nobody /\ \E u \in Threads : at[u] \in Python
  BY <1>2, PythonMoves DEF GilComes
<1>3. CASE gil = Nobody /\ \A u \in Threads : at[u] \notin Python
  <2>1. \A s \in Sources : mutex[s] = Nobody
    BY <1>3 DEF IInv, TypeOK, Holders, Python
  <2>2. WorkersDone
    BY <1>3 DEF IInv, Places, Python, Threads, WorkersDone
  <2>3. at[t] \in Native
    BY <1>3 DEF IInv, TypeOK
  <2>4. at[t] # "cleanup" => on[t] \in Sources
    BY <2>3 DEF IInv, Places, Native
  <2> QED
    BY <2>1, <2>2, <2>3, <2>4 DEF CanMove, Native
<1> QED
  BY <1>1, <1>2, <1>3

\* The GIL, the callback mutexes and the locks of the registries never bring everybody to
\* a stop: what `no_gil` in bindings.cpp is for.
THEOREM NoDeadlock == Spec => []Unstuck
BY Invariance, SomebodyMoves, PTL

(* ---- Reports, deletion, exit ---------------------------------------------------------- *)

\* A callback that comes while its wrapper has not been destroyed finds the wrapper in the
\* registry and its callback in the wrapper (_dispatch, _fire).
THEOREM NoReportLost == Spec => []ReportsFound
<1>1. IInv => ReportsFound
  <2> SUFFICES ASSUME IInv, NEW t \in Threads, at[t] \in InCallback
               PROVE  \/ on[t] = Logger /\ kind[t] \in stored[on[t]]
                      \/ /\ on[t] \in Handles
                         /\ \/ destroyed[on[t]]
                            \/ on[t] \in registry /\ kind[t] \in stored[on[t]]
    BY DEF ReportsFound
  <2>1. on[t] \in Sources /\ kind[t] \in enabled[on[t]]
    BY DEF IInv, Places, AtWrapper, InCallback
  <2> QED
    BY <2>1, SourceAssumption DEF IInv, Stored, Wrappers, Sources
<1> QED
  BY <1>1, Invariance, PTL

\* A handle that has been deleted is heard of no more: delete_* takes the trampolines away
\* first, each under the callback mutex.
THEOREM NoneAfterDeletion == Spec => []NoneAfterDelete
<1>1. IInv => NoneAfterDelete
  BY DEF IInv, AtWrapper, Wrappers, NoneAfterDelete
<1> QED
  BY <1>1, Invariance, PTL

\* Two threads never work on the destruction of one handle, although destroy() tests and
\* sets its flag without a lock: the loop destroys channels, the executor connections, and
\* the exit hook runs when the executor is gone.
THEOREM DeletionOnce == Spec => []DeletedOnce
<1>1. IInv => DeletedOnce
  <2> SUFFICES ASSUME IInv, NEW t \in Threads, at[t] \in {"pop", "deleting"}
               PROVE  /\ life[on[t]] = "attached"
                      /\ \A u \in Threads \ {t} :
                            at[u] \in {"mark", "pop", "deleting"} => on[u] # on[t]
    BY DEF DeletedOnce
  <2>1. life[on[t]] = "attached"
    BY DEF IInv, AtWrapper
  <2>2. ASSUME NEW u \in Threads, u # t, at[u] \in {"mark", "pop", "deleting"}
        PROVE  on[u] # on[t]
    <3>1. t \notin Workers /\ u \notin Workers
      BY <2>2 DEF IInv, Places, InCallback
    <3> QED
      BY <2>2, <3>1, SourceAssumption DEF IInv, Exiting, InDestroy, Threads
  <2> QED
    BY <2>1, <2>2
<1> QED
  BY <1>1, Invariance, PTL

\* When the library is cleaned up, the exit hook has deleted whatever was wrapped.
LEMMA AllSwept == IInv => SweptClean
<1> SUFFICES ASSUME IInv, exit \in {"cleanup", "cleaned", "unhooked"}, NEW h \in Handles
             PROVE  /\ life[h] \in {"absent", "deleted"} /\ enabled[h] = {}
                    /\ \A t \in Threads : at[t] \in InCallback => on[t] # h
  BY DEF SweptClean
<1>1. registry = {} /\ at[Pool] = "idle" /\ at[Loop] \in {"idle", "cleanup", "unhook"}
  BY DEF IInv, Exiting, InDestroy
<1>2. life[h] # "attaching"
  BY <1>1 DEF IInv, Wrappers, InCallback
<1>3. ~(destroyed[h] /\ life[h] = "attached")
  BY <1>1 DEF IInv, Wrappers
<1>4. life[h] # "attached"
  BY <1>1, <1>3 DEF IInv, Wrappers
<1>5. life[h] \in {"absent", "deleted"}
  BY <1>2, <1>4 DEF IInv, TypeOK, Sources
<1>6. enabled[h] = {}
  BY <1>1, <1>5 DEF IInv, Wrappers
<1>7. ASSUME NEW t \in Threads, at[t] \in InCallback PROVE on[t] # h
  BY <1>6, <1>7 DEF IInv, AtWrapper
<1> QED
  BY <1>5, <1>6, <1>7

\* The exit hook leaves nothing behind, and what libdatachannel's threads report after it
\* does not get into Python (register_dispatcher(None)).
THEOREM CleanExit == Spec => ExitClean
<1>1. IInv /\ [Next]_vars => [LateIgnored]_vars
  <2> SUFFICES ASSUME IInv, Next, exit = "unhooked", NEW u \in Threads,
                      at'[u] \in {"lookup", "call"}, at[u] \notin {"lookup", "call"}
               PROVE  FALSE
    BY DEF LateIgnored
  <2> USE ThreadAssumption DEF IInv, TypeOK, Go, Begin, End, Attached, Threads, Python,
      Native, InCallback, place
  <2>1. ~dispatcher
    BY DEF Exiting
  <2>2. ASSUME NEW t \in Threads, Step(t) PROVE FALSE
    <3>1. CASE TakeLock(t) \/ Insert(t) \/ Attach(t) \/ Set(t)
      BY <3>1 DEF TakeLock, Insert, Attach, Set
    <3>2. CASE Dispatch(t)
      BY <2>1, <3>2 DEF Dispatch
    <3>3. CASE LookUp(t)
      BY <3>3 DEF LookUp
    <3>4. CASE Call(t) \/ Leave(t) \/ Invoke(t) \/ Blocking(t) \/ Back(t)
      BY <3>4 DEF Call, Leave, Invoke, Blocking, Back
    <3>5. CASE Test(t) \/ Mark(t) \/ Pop(t) \/ Clear(t) \/ Delete(t)
      BY <3>5 DEF Test, Mark, Pop, Clear, Delete
    <3> QED
      BY <2>2, <3>1, <3>2, <3>3, <3>4, <3>5 DEF Step
  <2>3. ASSUME NEW t \in Threads, TakeGil(t) \/ StartCall(t) \/ StartDestroy(t) PROVE FALSE
    BY <2>3 DEF TakeGil, StartCall, StartDestroy
  <2>4. ASSUME NEW w \in Workers, Fire(w) PROVE FALSE
    BY <2>4 DEF Fire
  <2>5. CASE StartWrap \/ StartExit \/ Hook
    BY <2>5 DEF StartWrap, StartExit, Hook, Sweep, SweepDone, Cleanup, Unhook
  <2> QED
    BY <2>2, <2>3, <2>4, <2>5 DEF Next
<1> QED
  BY <1>1, AllSwept, Invariance, PTL DEF ExitClean, Spec
================================================================================
