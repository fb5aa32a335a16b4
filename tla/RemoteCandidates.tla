--------------------------- MODULE RemoteCandidates ---------------------------
(***************************************************************************)
(* The remote-candidate buffer of PeerConnection (peer_connection.py):     *)
(* add_remote_candidate holds candidates back until a remote description   *)
(* has been applied, set_remote_description forwards the ones held.  Both  *)
(* call libdatachannel in the loop's default thread pool, whose threads    *)
(* run the calls in any order, and yield the loop while they wait.         *)
(*                                                                         *)
(* Candidates are numbered in the order of the add_remote_candidate calls. *)
(***************************************************************************)
EXTENDS Naturals, Sequences, FiniteSets

CONSTANTS
    Calls,          \* calls of set_remote_description
    MaxCandidates,  \* bound: calls of add_remote_candidate
    MaxDirect       \* bound: add_remote_candidate calls in the pool at a time

ASSUME MaxCandidatesAssumption == MaxCandidates \in Nat

VARIABLES
    called,         \* add_remote_candidate calls so far
    held,           \* history: how many of them were buffered
    remote_set,     \* _remote_description_set
    buffer,         \* _buffered_remote_candidates
    call_at,        \* where each set_remote_description call is
    drain,          \* what a call has yet to forward; the head is in the pool
    direct,         \* candidates in the pool on their own
    alive,          \* the native connection has not been deleted
    described,      \* the native connection has a remote description
    forwarded,      \* candidates the native connection took, in order
    rejected        \* candidates it refused

vars == <<called, held, remote_set, buffer, call_at, drain, direct, alive,
          described, forwarded, rejected>>

Candidates == 1..MaxCandidates

TypeOK ==
    /\ called \in 0..MaxCandidates /\ held \in 0..MaxCandidates
    /\ remote_set \in BOOLEAN
    /\ buffer \in Seq(Candidates)
    /\ call_at \in [Calls -> {"idle", "applying", "orphaned", "applied", "draining",
                              "drained", "done", "failed", "cancelled"}]
    /\ drain \in [Calls -> Seq(Candidates)]
    /\ direct \subseteq Candidates
    /\ alive \in BOOLEAN /\ described \in BOOLEAN
    /\ forwarded \in Seq(Candidates)
    /\ rejected \subseteq Candidates

Init ==
    /\ called = 0 /\ held = 0
    /\ remote_set = FALSE /\ buffer = <<>>
    /\ call_at = [d \in Calls |-> "idle"]
    /\ drain = [d \in Calls |-> <<>>]
    /\ direct = {}
    /\ alive = TRUE /\ described = FALSE
    /\ forwarded = <<>> /\ rejected = {}

\* rtcAddRemoteCandidate: refused without a connection or a remote description, and
\* it may be refused for its own sake.
NativeAdd(c) ==
    \/ /\ alive /\ described
       /\ forwarded' = Append(forwarded, c)
       /\ UNCHANGED rejected
    \/ /\ rejected' = rejected \cup {c}
       /\ UNCHANGED forwarded

(* ---- add_remote_candidate ------------------------------------------------ *)

\* Mutant: an index off by one.
AddBufferedOffByOne ==
    /\ called < MaxCandidates /\ ~remote_set
    /\ called' = called + 1
    /\ held' = called + 1
    /\ buffer' = Append(buffer, called)
    /\ UNCHANGED <<remote_set, call_at, drain, direct, alive, described, forwarded,
                   rejected>>

\* No remote description yet: keep the candidate for later.
AddBuffered ==
    /\ called < MaxCandidates /\ ~remote_set
    /\ called' = called + 1
    /\ held' = called + 1
    /\ buffer' = Append(buffer, called + 1)
    /\ UNCHANGED <<remote_set, call_at, drain, direct, alive, described, forwarded,
                   rejected>>

\* Otherwise hand it to the pool and wait.
AddDirect ==
    /\ called < MaxCandidates /\ remote_set
    /\ Cardinality(direct) < MaxDirect
    /\ called' = called + 1
    /\ direct' = direct \cup {called + 1}
    /\ UNCHANGED <<held, remote_set, buffer, call_at, drain, alive, described,
                   forwarded, rejected>>

RunDirect(c) ==
    /\ c \in direct
    /\ direct' = direct \ {c}
    /\ NativeAdd(c)
    /\ UNCHANGED <<called, held, remote_set, buffer, call_at, drain, alive, described>>

(* ---- set_remote_description ---------------------------------------------- *)

\* Hand the description to the pool.
SetRemote(d) ==
    /\ call_at[d] = "idle"
    /\ call_at' = [call_at EXCEPT ![d] = "applying"]
    /\ UNCHANGED <<called, held, remote_set, buffer, drain, direct, alive, described,
                   forwarded, rejected>>

\* Mutant: the failure of the description is swallowed.
RunApplySwallowed(d) ==
    /\ call_at[d] = "applying"
    /\ described' \in {described, alive}
    /\ call_at' = [call_at EXCEPT ![d] = "applied"]
    /\ UNCHANGED <<called, held, remote_set, buffer, drain, direct, alive, forwarded,
                   rejected>>

\* rtcSetRemoteDescription, in the pool: it may fail, and must on a deleted
\* connection.  A call that was cancelled meanwhile learns nothing of it.
RunApply(d) ==
    /\ call_at[d] \in {"applying", "orphaned"}
    /\ \E ok \in BOOLEAN :
          /\ ok => alive
          /\ described' = (described \/ ok)
          /\ call_at' = [call_at EXCEPT ![d] =
                            IF @ = "orphaned" THEN "cancelled"
                            ELSE IF ok THEN "applied" ELSE "failed"]
    /\ UNCHANGED <<called, held, remote_set, buffer, drain, direct, alive, forwarded,
                   rejected>>

\* Back on the loop: from here on candidates go straight to the pool; take over the
\* buffered ones and forward the first.
Applied(d) ==
    /\ call_at[d] = "applied"
    /\ remote_set' = TRUE
    /\ drain' = [drain EXCEPT ![d] = buffer]
    /\ buffer' = <<>>
    /\ call_at' = [call_at EXCEPT ![d] = IF buffer = <<>> THEN "done" ELSE "draining"]
    /\ UNCHANGED <<called, held, direct, alive, described, forwarded, rejected>>

\* Mutant: list.pop() takes the last candidate first.
RunDrainLast(d) ==
    /\ call_at[d] = "draining"
    /\ NativeAdd(drain[d][Len(drain[d])])
    /\ drain' = [drain EXCEPT ![d] = SubSeq(@, 1, Len(@) - 1)]
    /\ call_at' = [call_at EXCEPT ![d] = "drained"]
    /\ UNCHANGED <<called, held, remote_set, buffer, direct, alive, described>>

\* The pool forwards the head; a candidate that fails does not stop the others.
RunDrain(d) ==
    /\ call_at[d] = "draining"
    /\ NativeAdd(Head(drain[d]))
    /\ drain' = [drain EXCEPT ![d] = Tail(@)]
    /\ call_at' = [call_at EXCEPT ![d] = "drained"]
    /\ UNCHANGED <<called, held, remote_set, buffer, direct, alive, described>>

\* Mutant: the drain returns after the first candidate.
DrainOne(d) ==
    /\ call_at[d] = "drained"
    /\ call_at' = [call_at EXCEPT ![d] = "done"]
    /\ UNCHANGED <<called, held, remote_set, buffer, drain, direct, alive, described,
                   forwarded, rejected>>

\* Back on the loop: the next one, or return.
DrainNext(d) ==
    /\ call_at[d] = "drained"
    /\ call_at' = [call_at EXCEPT ![d] = IF drain[d] = <<>> THEN "done" ELSE "draining"]
    /\ UNCHANGED <<called, held, remote_set, buffer, drain, direct, alive, described,
                   forwarded, rejected>>

\* The caller is cancelled at an await.  A call the pool has not begun is withdrawn,
\* one it has begun goes on by itself; what was left to drain is dropped.
Cancel(d) ==
    /\ \/ /\ call_at[d] = "applying"
          /\ \E next \in {"orphaned", "cancelled"} : call_at' = [call_at EXCEPT ![d] = next]
          /\ UNCHANGED direct
       \/ /\ call_at[d] \in {"applied", "draining", "drained"}
          /\ call_at' = [call_at EXCEPT ![d] = "cancelled"]
          /\ \/ UNCHANGED direct
             \/ call_at[d] = "draining" /\ direct' = direct \cup {Head(drain[d])}
    /\ drain' = [drain EXCEPT ![d] = <<>>]
    /\ UNCHANGED <<called, held, remote_set, buffer, alive, described, forwarded,
                   rejected>>

\* The teardown of the connection deletes it, in the same pool.
Delete ==
    /\ alive
    /\ alive' = FALSE
    /\ UNCHANGED <<called, held, remote_set, buffer, call_at, drain, direct, described,
                   forwarded, rejected>>

Next ==
    \/ AddBuffered \/ AddDirect \/ Delete
    \/ \E c \in Candidates : RunDirect(c)
    \/ \E d \in Calls :
          \/ SetRemote(d) \/ RunApply(d) \/ Applied(d)
          \/ RunDrain(d) \/ DrainNext(d) \/ Cancel(d)

Spec == Init /\ [][Next]_vars

\* The pool runs what it is given and the loop resumes what has finished.
Fairness ==
    /\ \A c \in Candidates : WF_vars(RunDirect(c))
    /\ \A d \in Calls : WF_vars(RunApply(d) \/ Applied(d) \/ RunDrain(d) \/ DrainNext(d))

LiveSpec == Spec /\ Fairness

(* ---- Properties ------------------------------------------------------------ *)

ToDrain == UNION {{drain[d][i] : i \in 1..Len(drain[d])} : d \in Calls}
Held == {buffer[i] : i \in 1..Len(buffer)}
Forwarded == {forwarded[i] : i \in 1..Len(forwarded)}

\* No candidate reaches the pool before the native connection has a remote
\* description, from which libdatachannel would refuse it.
DescribedFirst ==
    direct # {} \/ (\E d \in Calls : call_at[d] = "draining") => described

\* Once candidates go straight to the pool none is left behind in the buffer, which
\* nobody would drain again.
NoneStranded == remote_set => buffer = <<>>

\* The pool and the buffer together are a relay (CandidateRelay): every candidate that has
\* been added is handed over once, those held back in order, whatever calls of
\* set_remote_description overlap, fail or are cancelled; only a cancelled one drops any.
Relay == INSTANCE CandidateRelay WITH
    pending <- Held \cup ToDrain \cup direct,
    cancelled <- \E d \in Calls : call_at[d] = "cancelled"

RelaySpec == Relay!Spec

\* A candidate held back when a remote description has been applied is forwarded or
\* refused in the end, unless the call that drains the buffer is cancelled.
HeldForwarded ==
    \A c \in Candidates :
        c \in Held /\ (\E d \in Calls : call_at[d] = "applied")
            ~> \/ c \in Forwarded \cup rejected
               \/ \E d \in Calls : call_at[d] = "cancelled"
===============================================================================
