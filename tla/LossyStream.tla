----------------------------- MODULE LossyStream -----------------------------
(***************************************************************************)
(* What a DataChannel promises its readers about the messages that arrive  *)
(* on it: each is delivered at most once and in the order of arrival, and  *)
(* some may be dropped.  Messages are numbered in the order of arrival, so *)
(* a delivery hands over a message later than all those delivered before.  *)
(***************************************************************************)
EXTENDS Naturals, Sequences

VARIABLES
    arrived,    \* how many messages have arrived
    got         \* the messages readers were given

Init == arrived = 0 /\ got = <<>>

Arrive == arrived' = arrived + 1 /\ UNCHANGED got

Deliver ==
    /\ \E m \in 1..arrived :
          /\ \A i \in 1..Len(got) : got[i] < m
          /\ got' = Append(got, m)
    /\ UNCHANGED arrived

Next == Arrive \/ Deliver

Spec == Init /\ [][Next]_<<arrived, got>>
=============================================================================
