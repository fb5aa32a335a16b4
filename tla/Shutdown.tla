------------------------------- MODULE Shutdown -------------------------------
(***************************************************************************)
(* What a PeerConnection promises whoever shuts it down: once closing it   *)
(* starts no task, it is closed only when no task and no callback works    *)
(* for it any more, nothing starts after that, and everybody who waits for *)
(* the end is let go then, and not before.                                 *)
(***************************************************************************)
CONSTANT Coroutines

VARIABLES
    phase,      \* "open", then "closing", then "closed"
    tasks,      \* the owned tasks that have not finished
    callback,   \* a callback of the native connection is under way
    waiting     \* who waits for the end of the shutdown

Init == phase = "open" /\ tasks = {} /\ callback = FALSE /\ waiting = {}

StartTask ==
    /\ phase = "open"
    /\ \E c \in Coroutines : tasks' = tasks \cup {c}
    /\ UNCHANGED <<phase, callback, waiting>>

EndTask ==
    /\ \E c \in tasks : tasks' = tasks \ {c}
    /\ UNCHANGED <<phase, callback, waiting>>

\* The native connection may report until it is gone.
Report == phase # "closed" /\ callback' = TRUE /\ UNCHANGED <<phase, tasks, waiting>>

Reported == callback' = FALSE /\ UNCHANGED <<phase, tasks, waiting>>

Wait ==
    /\ phase # "closed"
    /\ \E c \in Coroutines : waiting' = waiting \cup {c}
    /\ UNCHANGED <<phase, tasks, callback>>

GiveUp ==
    /\ \E c \in waiting : waiting' = waiting \ {c}
    /\ UNCHANGED <<phase, tasks, callback>>

\* A task that waits for the end of its own connection is not waited for.
Close ==
    /\ phase = "open" /\ phase' = "closing"
    /\ waiting' = waiting \ tasks
    /\ UNCHANGED <<tasks, callback>>

Finish ==
    /\ phase = "closing" /\ tasks = {} /\ ~callback
    /\ phase' = "closed" /\ waiting' = {}
    /\ UNCHANGED <<tasks, callback>>

Next ==
    StartTask \/ EndTask \/ Report \/ Reported \/ Wait \/ GiveUp \/ Close \/ Finish

Spec == Init /\ [][Next]_<<phase, tasks, callback, waiting>>
===============================================================================
