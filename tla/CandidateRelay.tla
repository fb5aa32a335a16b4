---------------------------- MODULE CandidateRelay ----------------------------
(***************************************************************************)
(* What PeerConnection promises whoever adds remote candidates: each one   *)
(* is handed to libdatachannel once, the ones held back for the remote     *)
(* description in the order in which they were added, and none is dropped  *)
(* before a set_remote_description has been cancelled.  Candidates are     *)
(* numbered in the order of the calls.                                     *)
(***************************************************************************)
EXTENDS Naturals, Sequences

VARIABLES
    called,     \* how many candidates have been added
    held,       \* how many of them, the first ones, were held back
    pending,    \* the ones that are still to be handed over
    forwarded,  \* the ones libdatachannel took, in order
    cancelled   \* a set_remote_description has been cancelled

Init ==
    /\ called = 0 /\ held = 0 /\ pending = {}
    /\ forwarded = <<>> /\ cancelled = FALSE

\* The next candidate is held back, as all before it, or it is not.
Add ==
    /\ called' = called + 1 /\ pending' = pending \cup {called + 1}
    /\ held' = held \/ (held = called /\ held' = called + 1)
    /\ UNCHANGED <<forwarded, cancelled>>

\* libdatachannel takes a candidate: one that was held back only after those before it.
Take ==
    /\ \E c \in pending :
          /\ c <= held => \A i \in 1..Len(forwarded) : forwarded[i] <= held => forwarded[i] < c
          /\ pending' = pending \ {c} /\ forwarded' = Append(forwarded, c)
    /\ UNCHANGED <<called, held, cancelled>>

Refuse ==
    /\ \E c \in pending : pending' = pending \ {c}
    /\ UNCHANGED <<called, held, forwarded, cancelled>>

\* Who was cancelled may have dropped what it had yet to hand over.
Cancel ==
    /\ pending' \in SUBSET pending /\ cancelled' = TRUE
    /\ UNCHANGED <<called, held, forwarded>>

Next == Add \/ Take \/ Refuse \/ Cancel

Spec == Init /\ [][Next]_<<called, held, pending, forwarded, cancelled>>
===============================================================================
