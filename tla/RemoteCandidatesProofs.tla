------------------------ MODULE RemoteCandidatesProofs ------------------------
(***************************************************************************)
(* Proofs about RemoteCandidates, for any number of calls and candidates   *)
(* and any load of the thread pool.                                        *)
(***************************************************************************)
EXTENDS RemoteCandidates, SequenceTheorems, TLAPS

\* libdatachannel takes or refuses a candidate.
LEMMA NativeAddType ==
    ASSUME TypeOK, NEW c \in Candidates, NativeAdd(c)
    PROVE  forwarded' \in Seq(Candidates) /\ rejected' \in SUBSET Candidates
<1>1. CASE forwarded' = Append(forwarded, c) /\ UNCHANGED rejected
  BY <1>1 DEF TypeOK
<1>2. CASE rejected' = rejected \cup {c} /\ UNCHANGED forwarded
  BY <1>2 DEF TypeOK
<1> QED
  BY <1>1, <1>2 DEF NativeAdd

\* A call that has the pool forward a candidate has one to forward.
DrainReady == \A d \in Calls : call_at[d] = "draining" => drain[d] # <<>>

TypeInv == TypeOK /\ DrainReady

\* Nothing is added, buffered or forwarded at first.
LEMMA InitType == Init => TypeInv
<1> SUFFICES ASSUME Init PROVE TypeInv
  OBVIOUS
<1>1. <<>> \in Seq(Candidates)
  BY EmptySeq
<1>2. drain \in [Calls -> Seq(Candidates)]
  BY <1>1 DEF Init
<1>3. DrainReady
  BY DEF Init, DrainReady
<1>4. 0 \in 0..MaxCandidates
  BY MaxCandidatesAssumption
<1>5. /\ buffer \in Seq(Candidates) /\ forwarded \in Seq(Candidates)
      /\ direct \subseteq Candidates /\ rejected \subseteq Candidates
  BY <1>1 DEF Init
<1>6. call_at \in [Calls -> {"idle", "applying", "orphaned", "applied", "draining",
                             "drained", "done", "failed", "cancelled"}]
  BY DEF Init
<1>7. /\ called \in 0..MaxCandidates /\ held \in 0..MaxCandidates
      /\ remote_set \in BOOLEAN /\ alive \in BOOLEAN /\ described \in BOOLEAN
  BY <1>4 DEF Init
<1> QED
  BY <1>2, <1>3, <1>5, <1>6, <1>7 DEF TypeOK, TypeInv

\* Steps on the loop and in the pool keep the types.
LEMMA NextType == TypeInv /\ [Next]_vars => TypeInv'
<1> SUFFICES ASSUME TypeInv, [Next]_vars PROVE TypeInv'
  OBVIOUS
<1> USE MaxCandidatesAssumption DEF TypeInv
<1>1. CASE AddBuffered
  <2>1. called + 1 \in Candidates /\ called + 1 \in 0..MaxCandidates
    BY <1>1 DEF AddBuffered, TypeOK, Candidates
  <2> QED
    BY <1>1, <2>1 DEF AddBuffered, TypeOK, DrainReady
<1>2. CASE AddDirect
  <2>1. called + 1 \in Candidates /\ called + 1 \in 0..MaxCandidates
    BY <1>2 DEF AddDirect, TypeOK, Candidates
  <2> QED
    BY <1>2, <2>1 DEF AddDirect, TypeOK, DrainReady
<1>3. CASE Delete
  BY <1>3 DEF Delete, TypeOK, DrainReady
<1>4. ASSUME NEW c \in Candidates, RunDirect(c) PROVE TypeInv'
  <2>1. forwarded' \in Seq(Candidates) /\ rejected' \in SUBSET Candidates
    BY <1>4, NativeAddType DEF RunDirect
  <2> QED
    BY <1>4, <2>1 DEF RunDirect, TypeOK, DrainReady
<1>5. ASSUME NEW d \in Calls, SetRemote(d) PROVE TypeInv'
  BY <1>5 DEF SetRemote, TypeOK, DrainReady
<1>6. ASSUME NEW d \in Calls, RunApply(d) PROVE TypeInv'
  BY <1>6 DEF RunApply, TypeOK, DrainReady
<1>7. ASSUME NEW d \in Calls, Applied(d) PROVE TypeInv'
  <2>1. <<>> \in Seq(Candidates)
    BY EmptySeq
  <2> QED
    BY <1>7, <2>1 DEF Applied, TypeOK, DrainReady
<1>8. ASSUME NEW d \in Calls, RunDrain(d) PROVE TypeInv'
  <2>1. Head(drain[d]) \in Candidates /\ Tail(drain[d]) \in Seq(Candidates)
    BY <1>8 DEF TypeOK, DrainReady, RunDrain
  <2>2. forwarded' \in Seq(Candidates) /\ rejected' \in SUBSET Candidates
    BY <1>8, <2>1, NativeAddType DEF RunDrain
  <2> QED
    BY <1>8, <2>1, <2>2 DEF RunDrain, TypeOK, DrainReady
<1>9. ASSUME NEW d \in Calls, DrainNext(d) PROVE TypeInv'
  BY <1>9 DEF DrainNext, TypeOK, DrainReady
<1>10. ASSUME NEW d \in Calls, Cancel(d) PROVE TypeInv'
  <2>1. <<>> \in Seq(Candidates)
    BY EmptySeq
  <2>2. direct' \in SUBSET Candidates
    BY <1>10 DEF Cancel, TypeOK, DrainReady
  <2> QED
    BY <1>10, <2>1, <2>2 DEF Cancel, TypeOK, DrainReady
<1>11. CASE UNCHANGED vars
  BY <1>11 DEF vars, TypeOK, DrainReady
<1> QED
  BY <1>1, <1>2, <1>3, <1>4, <1>5, <1>6, <1>7, <1>8, <1>9, <1>10, <1>11 DEF Next

\* The inductive form of type correctness.
LEMMA TypeInvariant == Spec => []TypeInv
BY InitType, NextType, PTL DEF Spec

\* Every reachable state is well typed: in particular only candidates that were added
\* are ever buffered, drained or forwarded.
THEOREM TypeCorrect == Spec => []TypeOK
BY TypeInvariant, PTL DEF TypeInv

\* What follows a successful rtcSetRemoteDescription.
AfterDescription ==
    /\ remote_set => described
    /\ \A d \in Calls : call_at[d] \in {"applied", "draining", "drained"} => described

\* No candidate reaches the pool before the remote description has been applied, and
\* no later failure, cancellation or teardown undoes that.
THEOREM CandidatesFollowDescription == Spec => []DescribedFirst
<1>1. Init => AfterDescription /\ DescribedFirst
  BY DEF Init, AfterDescription, DescribedFirst
<1>2. TypeInv /\ AfterDescription /\ DescribedFirst /\ [Next]_vars
         => AfterDescription' /\ DescribedFirst'
  <2> SUFFICES ASSUME TypeInv, AfterDescription, DescribedFirst, [Next]_vars
               PROVE  AfterDescription' /\ DescribedFirst'
    OBVIOUS
  <2> USE DEF TypeInv, TypeOK, AfterDescription, DescribedFirst
  <2>1. CASE AddBuffered \/ AddDirect \/ Delete
    BY <2>1 DEF AddBuffered, AddDirect, Delete
  <2>2. ASSUME NEW c \in Candidates, RunDirect(c) PROVE AfterDescription' /\ DescribedFirst'
    BY <2>2 DEF RunDirect
  <2>3. ASSUME NEW d \in Calls, SetRemote(d) PROVE AfterDescription' /\ DescribedFirst'
    BY <2>3 DEF SetRemote
  <2>4. ASSUME NEW d \in Calls, RunApply(d) PROVE AfterDescription' /\ DescribedFirst'
    BY <2>4 DEF RunApply
  <2>5. ASSUME NEW d \in Calls, Applied(d) PROVE AfterDescription' /\ DescribedFirst'
    BY <2>5 DEF Applied
  <2>6. ASSUME NEW d \in Calls, RunDrain(d) PROVE AfterDescription' /\ DescribedFirst'
    BY <2>6 DEF RunDrain
  <2>7. ASSUME NEW d \in Calls, DrainNext(d) PROVE AfterDescription' /\ DescribedFirst'
    BY <2>7 DEF DrainNext
  <2>8. ASSUME NEW d \in Calls, Cancel(d) PROVE AfterDescription' /\ DescribedFirst'
    BY <2>8 DEF Cancel
  <2>9. CASE UNCHANGED vars
    BY <2>9 DEF vars
  <2> QED
    BY <2>1, <2>2, <2>3, <2>4, <2>5, <2>6, <2>7, <2>8, <2>9 DEF Next
<1> QED
  BY <1>1, <1>2, TypeInvariant, PTL DEF Spec

\* Once candidates go straight to the pool the buffer is empty for good, however many
\* calls of set_remote_description run at a time and however they end.
THEOREM BufferIsTakenOver == Spec => []NoneStranded
<1>1. Init => NoneStranded
  BY DEF Init, NoneStranded
<1>2. NoneStranded /\ [Next]_vars => NoneStranded'
  BY DEF NoneStranded, Next, vars, AddBuffered, AddDirect, Delete, RunDirect, SetRemote,
         RunApply, Applied, RunDrain, DrainNext, Cancel
<1> QED
  BY <1>1, <1>2, PTL DEF Spec

(* ---- The relay ------------------------------------------------------------------- *)

\* The candidates of a sequence, and sequences in the order of arrival.
Elems(s) == {s[i] : i \in 1..Len(s)}
Increasing(s) == \A i, j \in 1..Len(s) : i < j => s[i] < s[j]

LEMMA ElemsEmpty == Elems(<<>>) = {} /\ Increasing(<<>>)
BY DEF Elems, Increasing

\* A later candidate at the end.
LEMMA ElemsAppend ==
    ASSUME NEW s \in Seq(Candidates), NEW c \in Candidates
    PROVE  /\ Elems(Append(s, c)) = Elems(s) \cup {c}
           /\ Increasing(s) /\ (\A b \in Elems(s) : b < c) => Increasing(Append(s, c))
<1> DEFINE t == Append(s, c)
<1>1. Len(t) = Len(s) + 1 /\ t[Len(s) + 1] = c /\ \A i \in 1..Len(s) : t[i] = s[i]
  OBVIOUS
<1>2. 1..Len(t) = 1..Len(s) \cup {Len(s) + 1} /\ Len(s) \in Nat
  BY <1>1
<1> HIDE DEF t
<1>3. Elems(t) = Elems(s) \cup {c}
  BY <1>1, <1>2 DEF Elems
<1>4. ASSUME Increasing(s), \A b \in Elems(s) : b < c PROVE Increasing(t)
  BY <1>1, <1>2, <1>4 DEF Increasing, Elems
<1> QED
  BY <1>3, <1>4 DEF t

\* The first candidate is before the others, and comes once.
LEMMA ElemsTail ==
    ASSUME NEW s \in Seq(Candidates), s # <<>>, Increasing(s)
    PROVE  /\ Head(s) \in Elems(s) /\ Elems(Tail(s)) = Elems(s) \ {Head(s)}
           /\ \A c \in Elems(Tail(s)) : Head(s) < c
           /\ Increasing(Tail(s))
<1> DEFINE t == Tail(s)
<1>1. /\ Len(s) \in Nat \ {0} /\ Len(t) = Len(s) - 1
      /\ Head(s) = s[1] /\ \A i \in 1..Len(t) : t[i] = s[i + 1]
  OBVIOUS
<1>2. \A i \in 1..Len(s) : s[i] \in Nat
  <2>1. \A i \in 1..Len(s) : s[i] \in Candidates
    OBVIOUS
  <2> QED
    BY <2>1 DEF Candidates
<1> HIDE DEF t
<1>3. \A i \in 2..Len(s) : s[1] < s[i]
  BY <1>1 DEF Increasing
<1>4. Elems(s) = {s[1]} \cup Elems(t)
  <2>1. ASSUME NEW i \in 1..Len(s), i # 1 PROVE s[i] \in Elems(t)
    <3>1. i - 1 \in 1..Len(t) /\ t[i - 1] = s[i]
      BY <1>1, <2>1
    <3> QED
      BY <3>1 DEF Elems
  <2>2. ASSUME NEW i \in 1..Len(t) PROVE t[i] \in Elems(s)
    BY <1>1 DEF Elems
  <2>3. s[1] \in Elems(s)
    BY <1>1 DEF Elems
  <2>4. ASSUME NEW c \in Elems(s) PROVE c \in {s[1]} \cup Elems(t)
    <3>1. PICK i \in 1..Len(s) : c = s[i]
      BY DEF Elems
    <3> QED
      BY <2>1, <3>1
  <2>5. ASSUME NEW c \in Elems(t) PROVE c \in Elems(s)
    <3>1. PICK i \in 1..Len(t) : c = t[i]
      BY DEF Elems
    <3> QED
      BY <2>2, <3>1
  <2> QED
    BY <2>3, <2>4, <2>5
<1>5. \A c \in Elems(t) : s[1] < c
  BY <1>1, <1>3 DEF Elems
<1>6. s[1] \notin Elems(t)
  BY <1>1, <1>2, <1>5
<1>7. Increasing(t)
  BY <1>1 DEF Increasing
<1> QED
  BY <1>1, <1>4, <1>5, <1>6, <1>7 DEF t

\* What is held back, on its way and handed over, in terms of the candidates.
LEMMA Sets ==
    /\ Held = Elems(buffer) /\ Forwarded = Elems(forwarded)
    /\ ToDrain = UNION {Elems(drain[d]) : d \in Calls}
BY DEF Held, Forwarded, ToDrain, Elems

LEMMA SetsNext ==
    /\ Held' = Elems(buffer') /\ Forwarded' = Elems(forwarded')
    /\ ToDrain' = UNION {Elems(drain'[d]) : d \in Calls}
BY DEF Held, Forwarded, ToDrain, Elems

\* What was held back is in one place, in order, and behind what has been forwarded of it.
Relaying ==
    /\ held <= called /\ (~remote_set => held = called)
    /\ \A c \in Elems(forwarded) : c <= called
    /\ Increasing(buffer) /\ (remote_set => buffer = <<>>)
    /\ \A c \in Elems(buffer) : c <= held /\ \A f \in Elems(forwarded) : f < c
    /\ \A d \in Calls :
          /\ Increasing(drain[d])
          /\ drain[d] # <<>> =>
                /\ call_at[d] \in {"draining", "drained"} /\ remote_set
                /\ \A e \in Calls : drain[e] # <<>> => e = d
          /\ \A c \in Elems(drain[d]) :
                c <= held /\ \A f \in Elems(forwarded) : f <= held => f < c
    /\ direct # {} => remote_set
    /\ \A c \in direct :
          /\ c <= called
          /\ c <= held => /\ \A d \in Calls : drain[d] = <<>>
                          /\ \A f \in Elems(forwarded) : f <= held => f < c
                          /\ \A b \in direct : b <= held => b = c

RelayInv == TypeInv /\ Relaying

LEMMA InitRelay == Init => RelayInv /\ Relay!Init
<1> SUFFICES ASSUME Init PROVE Relaying /\ Relay!Init
  BY InitType DEF RelayInv
<1>1. Relaying
  BY ElemsEmpty DEF Init, Relaying
<1>2. Held = {} /\ ToDrain = {}
  BY Sets, ElemsEmpty DEF Init
<1> QED
  BY <1>1, <1>2 DEF Init, Relay!Init

Pending == Held \cup ToDrain \cup direct
Cancelled == \E d \in Calls : call_at[d] = "cancelled"

\* Adding a candidate.
LEMMA RelayAdd ==
    ASSUME RelayInv, AddBuffered \/ AddDirect
    PROVE  Relaying' /\ Relay!Add
<1> DEFINE c == called + 1
<1> USE MaxCandidatesAssumption DEF RelayInv, TypeInv
<1>1. /\ called \in Nat /\ held \in Nat /\ c \in Candidates
      /\ direct \subseteq Nat /\ buffer \in Seq(Candidates)
      /\ Elems(forwarded) \subseteq Nat /\ Elems(buffer) \subseteq Nat
      /\ \A d \in Calls : Elems(drain[d]) \subseteq Nat
  BY DEF TypeOK, AddBuffered, AddDirect, Candidates, Elems
<1>2. CASE AddBuffered
  <2>1. \A b \in Elems(buffer) : b < c
    BY <1>1, <1>2 DEF Relaying, AddBuffered
  <2>2. Elems(buffer') = Elems(buffer) \cup {c} /\ Increasing(buffer')
    BY <1>1, <1>2, <2>1, ElemsAppend DEF Relaying, AddBuffered
  <2>3. Relaying'
    <3>1. /\ called' = c /\ held' = c /\ held = called /\ remote_set' = FALSE /\ direct = {}
          /\ UNCHANGED <<drain, call_at, forwarded, direct>>
      BY <1>2 DEF AddBuffered, Relaying, TypeOK
    <3>2. \A d \in Calls : drain[d] = <<>>
      BY <1>2 DEF AddBuffered, Relaying
    <3>3. \A f \in Elems(forwarded) : f <= c /\ f < c
      BY <1>1 DEF Relaying
    <3>4. \A b \in Elems(buffer') : b <= c /\ \A f \in Elems(forwarded) : f < b
      BY <1>1, <2>1, <2>2, <3>3 DEF Relaying
    <3> HIDE DEF c
    <3>5. c <= c
      BY <1>1 DEF Candidates
    <3> QED
      BY <2>2, <3>1, <3>2, <3>3, <3>4, <3>5, ElemsEmpty DEF Relaying
  <2>4. Pending' = Pending \cup {c}
    BY <1>2, <2>2, Sets, SetsNext DEF Pending, AddBuffered
  <2> QED
    BY <1>1, <1>2, <2>3, <2>4 DEF AddBuffered, Relaying, Relay!Add, Pending
<1>3. CASE AddDirect
  <2>1. Relaying'
    BY <1>1, <1>3 DEF Relaying, AddDirect
  <2>2. Pending' = Pending \cup {c}
    BY <1>3, Sets, SetsNext DEF Pending, AddDirect
  <2> QED
    BY <1>1, <1>3, <2>1, <2>2 DEF AddDirect, Relay!Add, Pending
<1> QED
  BY <1>2, <1>3

\* libdatachannel takes or refuses a candidate that is next.
HandsOver(c) ==
    /\ c \in Pending /\ NativeAdd(c) /\ Pending' = Pending \ {c}
    /\ UNCHANGED <<called, held>> /\ (Cancelled' <=> Cancelled)
    /\ c <= held => \A f \in Elems(forwarded) : f <= held => f < c

LEMMA RelayHandOver ==
    ASSUME NEW c, HandsOver(c)
    PROVE  Relay!Next
<1>1. CASE forwarded' = Append(forwarded, c)
  <2>1. c <= held => \A i \in 1..Len(forwarded) : forwarded[i] <= held => forwarded[i] < c
    BY DEF Elems, HandsOver
  <2> QED
    BY <1>1, <2>1 DEF HandsOver, Relay!Next, Relay!Take, Pending, Cancelled
<1>2. CASE UNCHANGED forwarded
  BY <1>2 DEF HandsOver, Relay!Next, Relay!Refuse, Pending, Cancelled
<1> QED
  BY <1>1, <1>2 DEF HandsOver, NativeAdd

\* The pool hands a single candidate over.
LEMMA RelayDirect ==
    ASSUME RelayInv, NEW c \in Candidates, RunDirect(c)
    PROVE  Relaying' /\ HandsOver(c)
<1> USE DEF RelayInv, TypeInv
<1>1. /\ called \in Nat /\ held \in Nat /\ c \in Nat /\ c \in direct
      /\ direct \subseteq Nat /\ forwarded \in Seq(Candidates)
      /\ Elems(forwarded) \subseteq Nat /\ Elems(buffer) \subseteq Nat
      /\ \A d \in Calls : Elems(drain[d]) \subseteq Nat
  BY MaxCandidatesAssumption DEF TypeOK, RunDirect, Candidates, Elems
<1>2. buffer = <<>>
  BY <1>1 DEF Relaying
<1>3. \A d \in Calls : c \notin Elems(drain[d])
  BY <1>1, ElemsEmpty DEF Relaying
<1>4. Pending' = Pending \ {c}
  BY <1>2, <1>3, Sets, SetsNext, ElemsEmpty DEF RunDirect, Pending
<1>5. Elems(forwarded') \subseteq Elems(forwarded) \cup {c}
  BY <1>1, ElemsAppend DEF RunDirect, NativeAdd
<1>6. Relaying'
  BY <1>1, <1>2, <1>5, ElemsEmpty DEF RunDirect, Relaying
<1>7. Cancelled' <=> Cancelled
  BY DEF RunDirect, Cancelled
<1> QED
  BY <1>1, <1>4, <1>6, <1>7 DEF HandsOver, RunDirect, Relaying, Pending

\* The pool hands over the first of what is being drained.
LEMMA RelayDrain ==
    ASSUME RelayInv, NEW d \in Calls, RunDrain(d)
    PROVE  Relaying' /\ HandsOver(Head(drain[d]))
<1> DEFINE c == Head(drain[d])
<1> USE DEF RelayInv, TypeInv
<1>1. /\ called \in Nat /\ held \in Nat /\ direct \subseteq Nat /\ forwarded \in Seq(Candidates)
      /\ Elems(forwarded) \subseteq Nat /\ Elems(buffer) \subseteq Nat
      /\ \A e \in Calls : Elems(drain[e]) \subseteq Nat
  BY MaxCandidatesAssumption DEF TypeOK, Candidates, Elems
<1>2. drain[d] \in Seq(Candidates) /\ drain[d] # <<>> /\ Increasing(drain[d])
  BY DEF RunDrain, DrainReady, TypeOK, Relaying
<1>3. /\ c \in Elems(drain[d]) /\ Elems(Tail(drain[d])) = Elems(drain[d]) \ {c}
      /\ \A b \in Elems(Tail(drain[d])) : c < b
      /\ Increasing(Tail(drain[d]))
  BY <1>2, ElemsTail
<1>4. drain' = [drain EXCEPT ![d] = Tail(drain[d])] /\ drain'[d] = Tail(drain[d])
      /\ \A e \in Calls \ {d} : drain'[e] = drain[e] /\ drain[e] = <<>>
  BY <1>2 DEF RunDrain, TypeOK, Relaying
<1>5. buffer = <<>> /\ remote_set /\ c \notin direct /\ c \in Candidates /\ c <= held
  BY <1>1, <1>2, <1>3 DEF Relaying, TypeOK
<1>6. ToDrain' = ToDrain \ {c} /\ c \in ToDrain
  BY <1>3, <1>4, Sets, SetsNext, ElemsEmpty
<1>7. Pending' = Pending \ {c} /\ c \in Pending
  BY <1>5, <1>6, Sets, SetsNext, ElemsEmpty DEF RunDrain, Pending
<1>8. Elems(forwarded') \subseteq Elems(forwarded) \cup {c}
  BY <1>1, <1>5, ElemsAppend DEF RunDrain, NativeAdd
<1>9. Relaying'
  <2>1. /\ called' = called /\ held' = held /\ remote_set' = remote_set /\ buffer' = buffer
        /\ direct' = direct /\ call_at'[d] = "drained"
        /\ \A e \in Calls \ {d} : call_at'[e] = call_at[e]
    BY DEF RunDrain, TypeOK
  <2>2. \A b \in direct : ~(b <= held)
    BY <1>2 DEF Relaying
  <2>3. \A e \in Calls : /\ Increasing(drain'[e]) /\ (drain'[e] # <<>> => e = d)
                         /\ \A b \in Elems(drain'[e]) : b <= held /\ c < b
    BY <1>3, <1>4, <1>5, ElemsEmpty DEF Relaying
  <2>4. \A b \in Elems(drain'[d]) : \A f \in Elems(forwarded) : f <= held => f < b
    BY <1>3, <1>4 DEF Relaying
  <2>5. \A e \in Calls : \A b \in Elems(drain'[e]) : \A f \in Elems(forwarded') :
            f <= held => f < b
    BY <1>4, <1>8, <2>3, <2>4, ElemsEmpty
  <2>6. \A f \in Elems(forwarded') : f <= called
    <3>1. c \in Nat /\ c <= called
      <4>1. c \in Nat /\ held <= called
        BY <1>1, <1>3 DEF Relaying
      <4> HIDE DEF c
      <4> QED
        BY <1>1, <1>5, <4>1
    <3> QED
      BY <1>8, <3>1 DEF Relaying
  <2> QED
    BY <1>5, <2>1, <2>2, <2>3, <2>5, <2>6, ElemsEmpty DEF Relaying
<1>10. Cancelled' <=> Cancelled
  BY DEF RunDrain, Cancelled, TypeOK
<1>11. \A f \in Elems(forwarded) : f <= held => f < c
  BY <1>3 DEF Relaying
<1> QED
  BY <1>7, <1>9, <1>10, <1>11 DEF HandsOver, RunDrain

\* A call takes the buffer over.
LEMMA RelayApplied ==
    ASSUME RelayInv, NEW d \in Calls, Applied(d)
    PROVE  Relaying' /\ UNCHANGED <<called, held, Pending, forwarded, Cancelled>>
<1> USE DEF RelayInv, TypeInv
<1>1. drain[d] = <<>>
  BY DEF Applied, Relaying
<1>2. drain'[d] = buffer /\ \A e \in Calls \ {d} : drain'[e] = drain[e]
  BY DEF Applied, TypeOK
<1>3. buffer # <<>> => \A e \in Calls : drain[e] = <<>>
  BY DEF Relaying
<1>4. buffer # <<>> => direct = {}
  BY DEF Relaying
<1>5. ToDrain' = ToDrain \cup Held
  BY <1>1, <1>2, Sets, SetsNext, ElemsEmpty
<1>6. UNCHANGED Pending
  BY <1>5, Sets, SetsNext, ElemsEmpty DEF Pending, Applied
<1>7. UNCHANGED Cancelled
  BY DEF Cancelled, Applied, TypeOK
<1>8. Relaying'
  <2>1. /\ called' = called /\ held' = held /\ remote_set' = TRUE /\ buffer' = <<>>
        /\ direct' = direct /\ forwarded' = forwarded
        /\ (buffer # <<>> => call_at'[d] = "draining")
        /\ \A e \in Calls \ {d} : call_at'[e] = call_at[e]
    BY DEF Applied, TypeOK
  <2>2. CASE buffer = <<>>
    BY <1>1, <1>2, <2>1, <2>2, ElemsEmpty DEF Relaying
  <2>3. CASE buffer # <<>>
    BY <1>2, <1>3, <1>4, <2>1, <2>3, ElemsEmpty DEF Relaying
  <2> QED
    BY <2>2, <2>3
<1> QED
  BY <1>6, <1>7, <1>8 DEF Applied

\* Who is cancelled drops what it has not handed over; the head may go on by itself.
LEMMA RelayCancel ==
    ASSUME RelayInv, NEW d \in Calls, Cancel(d)
    PROVE  /\ Relaying' /\ UNCHANGED <<called, held, forwarded>>
           /\ \/ Pending' \in SUBSET Pending /\ Cancelled'
              \/ UNCHANGED <<Pending, Cancelled>>
<1> USE DEF RelayInv, TypeInv
<1>1. /\ UNCHANGED <<called, held, remote_set, buffer, forwarded>>
      /\ drain'[d] = <<>> /\ \A e \in Calls \ {d} : drain'[e] = drain[e]
      /\ \A e \in Calls \ {d} : call_at'[e] = call_at[e]
  BY DEF Cancel, TypeOK
<1>2. CASE UNCHANGED direct
  <2>1. Relaying'
    BY <1>1, <1>2, ElemsEmpty DEF Relaying
  <2>2. ToDrain' \subseteq ToDrain
    BY <1>1, Sets, SetsNext, ElemsEmpty
  <2>3. Pending' \in SUBSET Pending
    BY <1>1, <1>2, <2>2, Sets, SetsNext DEF Pending
  <2>4. CASE call_at'[d] = "cancelled"
    BY <1>1, <2>1, <2>3, <2>4 DEF Cancelled
  <2>5. CASE call_at'[d] # "cancelled"
    <3>1. call_at[d] = "applying" /\ call_at'[d] = "orphaned"
      BY <2>5 DEF Cancel, TypeOK
    <3>2. drain[d] = <<>>
      BY <3>1 DEF Relaying
    <3>3. ToDrain' = ToDrain
      BY <1>1, <3>2, Sets, SetsNext
    <3>4. UNCHANGED Pending
      BY <1>1, <1>2, <3>3, Sets, SetsNext DEF Pending
    <3>5. UNCHANGED Cancelled
      BY <1>1, <3>1 DEF Cancelled
    <3> QED
      BY <1>1, <2>1, <3>4, <3>5
  <2> QED
    BY <2>4, <2>5
<1>3. CASE call_at[d] = "draining" /\ direct' = direct \cup {Head(drain[d])}
  <2> DEFINE c == Head(drain[d])
  <2>1. drain[d] \in Seq(Candidates) /\ drain[d] # <<>> /\ Increasing(drain[d])
    BY <1>3 DEF DrainReady, TypeOK, Relaying
  <2>2. c \in Elems(drain[d])
    BY <2>1, ElemsTail
  <2>3. call_at'[d] = "cancelled"
    BY <1>3 DEF Cancel, TypeOK
  <2>4. \A e \in Calls : drain'[e] = <<>>
    BY <1>1, <2>1 DEF Relaying
  <2>5. \A b \in direct : ~(b <= held)
    BY <2>1 DEF Relaying
  <2>6. remote_set /\ c <= held /\ c <= called /\ \A f \in Elems(forwarded) : f <= held => f < c
    <3>1. called \in Nat /\ held \in Nat /\ c \in Nat
      BY <2>1, MaxCandidatesAssumption DEF TypeOK, Candidates
    <3>2. remote_set /\ c <= held /\ \A f \in Elems(forwarded) : f <= held => f < c
      BY <2>1, <2>2 DEF Relaying
    <3>3. held <= called
      BY DEF Relaying
    <3> HIDE DEF c
    <3> QED
      BY <3>1, <3>2, <3>3
  <2>7. Relaying'
    BY <1>1, <1>3, <2>4, <2>5, <2>6, ElemsEmpty DEF Relaying
  <2>8. ToDrain' = {} /\ c \in ToDrain
    BY <2>2, <2>4, Sets, SetsNext, ElemsEmpty
  <2>9. Pending' \in SUBSET Pending
    BY <1>1, <1>3, <2>8, Sets, SetsNext DEF Pending
  <2> QED
    BY <1>1, <2>3, <2>7, <2>9 DEF Cancelled
<1> QED
  BY <1>2, <1>3 DEF Cancel

\* The other steps do not touch a candidate.
LEMMA RelayOther ==
    ASSUME RelayInv,
           \/ Delete \/ UNCHANGED vars
           \/ \E d \in Calls : SetRemote(d) \/ RunApply(d) \/ DrainNext(d)
    PROVE  /\ Relaying' /\ UNCHANGED <<called, held, forwarded, Pending>>
           /\ Cancelled' \/ UNCHANGED Cancelled
<1> USE DEF RelayInv, TypeInv
<1>1. UNCHANGED <<called, held, remote_set, buffer, drain, direct, forwarded>>
  BY DEF Delete, vars, SetRemote, RunApply, DrainNext
<1>2. UNCHANGED Pending
  BY <1>1 DEF Pending, Held, ToDrain
<1>3. \A d \in Calls : drain[d] # <<>> => call_at'[d] \in {"draining", "drained"}
  <2>1. CASE Delete \/ UNCHANGED vars
    BY <2>1 DEF Delete, vars, Relaying
  <2>2. ASSUME NEW d \in Calls, SetRemote(d) \/ RunApply(d) \/ DrainNext(d)
        PROVE  \A e \in Calls : drain[e] # <<>> => call_at'[e] \in {"draining", "drained"}
    BY <2>2 DEF SetRemote, RunApply, DrainNext, TypeOK, Relaying
  <2> QED
    BY <2>1, <2>2
<1>4. Relaying'
  BY <1>1, <1>3 DEF Relaying
<1>5. Cancelled' \/ UNCHANGED Cancelled
  <2>1. CASE Cancelled
    <3>1. \A d \in Calls : call_at[d] = "cancelled" => call_at'[d] = "cancelled"
      BY DEF Delete, vars, SetRemote, RunApply, DrainNext, TypeOK
    <3> QED
      BY <2>1, <3>1 DEF Cancelled
  <2> QED
    BY <2>1 DEF Cancelled
<1> QED
  BY <1>1, <1>2, <1>4, <1>5

\* The pool and the buffer implement the relay: each candidate is handed over once, those
\* held back in order, and only a cancelled set_remote_description drops any, for any
\* number of calls and candidates and any load of the pool.
THEOREM RelaysCandidates == Spec => RelaySpec
<1>1. RelayInv /\ [Next]_vars =>
          /\ RelayInv'
          /\ [Relay!Next]_<<called, held, Held \cup ToDrain \cup direct, forwarded,
                            \E d \in Calls : call_at[d] = "cancelled">>
  <2> SUFFICES ASSUME RelayInv, [Next]_vars
               PROVE  /\ Relaying'
                      /\ \/ Relay!Next
                         \/ UNCHANGED <<called, held, Pending, forwarded, Cancelled>>
    BY NextType DEF RelayInv, Pending, Cancelled
  <2>1. CASE AddBuffered \/ AddDirect
    BY <2>1, RelayAdd DEF Relay!Next
  <2>2. ASSUME NEW c \in Candidates, RunDirect(c)
        PROVE  Relaying' /\ Relay!Next
    BY <2>2, RelayDirect, RelayHandOver
  <2>3. ASSUME NEW d \in Calls, RunDrain(d)
        PROVE  Relaying' /\ Relay!Next
    BY <2>3, RelayDrain, RelayHandOver
  <2>4. ASSUME NEW d \in Calls, Applied(d)
        PROVE  Relaying' /\ UNCHANGED <<called, held, Pending, forwarded, Cancelled>>
    BY <2>4, RelayApplied
  <2>5. ASSUME NEW d \in Calls, Cancel(d)
        PROVE  /\ Relaying'
               /\ Relay!Next \/ UNCHANGED <<called, held, Pending, forwarded, Cancelled>>
    BY <2>5, RelayCancel DEF Relay!Next, Relay!Cancel, Pending, Cancelled
  <2>6. CASE \/ Delete \/ UNCHANGED vars
             \/ \E d \in Calls : SetRemote(d) \/ RunApply(d) \/ DrainNext(d)
    BY <2>6, RelayOther DEF Relay!Next, Relay!Cancel, Pending, Cancelled
  <2> QED
    BY <2>1, <2>2, <2>3, <2>4, <2>5, <2>6 DEF Next
<1> QED
  BY <1>1, InitRelay, PTL DEF Spec, RelaySpec, Relay!Spec

(* ---- Where each candidate is ------------------------------------------------------ *)

\* libdatachannel has taken no candidate twice, and those held back in the order of the
\* calls; what it has taken or refused is not handed to it again.
HandedOverOnce ==
    /\ \A i, j \in 1..Len(forwarded) :
          i < j => /\ forwarded[i] # forwarded[j]
                   /\ forwarded[i] <= held /\ forwarded[j] <= held => forwarded[i] < forwarded[j]
    /\ Pending \cap (Forwarded \cup rejected) = {} /\ Forwarded \cap rejected = {}

\* Until a set_remote_description is cancelled every candidate added is on its way, taken
\* or refused.
NoneLost == Cancelled \/ 1..called \subseteq Pending \cup Forwarded \cup rejected

Accounted == HandedOverOnce /\ NoneLost /\ Forwarded \cup rejected \subseteq 1..called

\* The next candidate is added.
LEMMA AccountedAdd ==
    ASSUME RelayInv, Accounted, AddBuffered \/ AddDirect
    PROVE  Accounted'
<1>1. /\ called' = called + 1 /\ Pending' = Pending \cup {called + 1}
      /\ held' = held \/ (held = called /\ held' = called + 1)
      /\ UNCHANGED <<forwarded, Cancelled>>
  BY RelayAdd DEF Relay!Add, Pending, Cancelled
<1>2. called \in Nat /\ held \in Nat /\ \A i \in 1..Len(forwarded) : forwarded[i] \in 1..called
  BY MaxCandidatesAssumption DEF RelayInv, TypeInv, TypeOK, Accounted, Forwarded
<1>3. UNCHANGED <<rejected, Forwarded>>
  BY <1>1 DEF AddBuffered, AddDirect, Forwarded
<1>4. 1..called' = 1..called \cup {called + 1} /\ called + 1 \notin 1..called
  BY <1>1, <1>2
<1>5. HandedOverOnce'
  <2>1. Pending' \cap (Forwarded \cup rejected)' = {} /\ (Forwarded \cap rejected)' = {}
    BY <1>1, <1>3, <1>4 DEF Accounted, HandedOverOnce
  <2>2. \A i \in 1..Len(forwarded) : forwarded[i] <= held' => forwarded[i] <= held
    BY <1>1, <1>2
  <2> QED
    BY <1>1, <2>1, <2>2 DEF Accounted, HandedOverOnce
<1> QED
  BY <1>1, <1>3, <1>4, <1>5 DEF Accounted, NoneLost

\* A candidate is taken or refused.
LEMMA AccountedHandOver ==
    ASSUME RelayInv, Accounted, NEW c, HandsOver(c)
    PROVE  Accounted'
<1>1. c \in 1..called /\ c \in Candidates /\ c \notin Forwarded \cup rejected
  <2>1. c \in Candidates
    BY Sets DEF HandsOver, RelayInv, TypeInv, TypeOK, Pending, Elems
  <2>2. c <= called
    BY <2>1, Sets, MaxCandidatesAssumption
       DEF HandsOver, Pending, RelayInv, Relaying, TypeInv, TypeOK, Candidates
  <2> QED
    BY <2>1, <2>2 DEF HandsOver, Accounted, HandedOverOnce, Candidates
<1>2. CASE forwarded' = Append(forwarded, c) /\ UNCHANGED rejected
  <2>1. Forwarded' = Forwarded \cup {c}
    BY <1>1, <1>2, Sets, SetsNext, ElemsAppend DEF RelayInv, TypeInv, TypeOK
  <2>2. /\ Len(forwarded') = Len(forwarded) + 1 /\ Len(forwarded) \in Nat
        /\ forwarded'[Len(forwarded) + 1] = c
        /\ \A i \in 1..Len(forwarded) : forwarded'[i] = forwarded[i]
    BY <1>2 DEF RelayInv, TypeInv, TypeOK
  <2>3. \A i \in 1..Len(forwarded) :
            forwarded[i] # c /\ (forwarded[i] <= held /\ c <= held => forwarded[i] < c)
    BY <1>1 DEF HandsOver, Forwarded, Elems
  <2>4. \A i, j \in 1..Len(forwarded') :
            i < j => /\ forwarded'[i] # forwarded'[j]
                     /\ forwarded'[i] <= held /\ forwarded'[j] <= held =>
                            forwarded'[i] < forwarded'[j]
    <3> TAKE i, j \in 1..Len(forwarded')
    <3> HAVE i < j
    <3>1. i \in 1..Len(forwarded) /\ (j \in 1..Len(forwarded) \/ j = Len(forwarded) + 1)
      BY <2>2
    <3> QED
      BY <2>2, <2>3, <3>1 DEF Accounted, HandedOverOnce
  <2> QED
    BY <1>1, <1>2, <2>1, <2>4 DEF HandsOver, Accounted, HandedOverOnce, NoneLost
<1>3. CASE rejected' = rejected \cup {c} /\ UNCHANGED forwarded
  <2>1. UNCHANGED Forwarded
    BY <1>3 DEF Forwarded
  <2> QED
    BY <1>1, <1>3, <2>1 DEF HandsOver, Accounted, HandedOverOnce, NoneLost
<1> QED
  BY <1>2, <1>3 DEF HandsOver, NativeAdd

\* Nothing is added, taken or refused.
LEMMA AccountedOther ==
    ASSUME Accounted, UNCHANGED <<called, held, forwarded, rejected>>,
           \/ Pending' \in SUBSET Pending /\ Cancelled'
           \/ UNCHANGED Pending /\ (Cancelled => Cancelled')
    PROVE  Accounted'
<1>1. UNCHANGED Forwarded
  BY DEF Forwarded
<1> QED
  BY <1>1 DEF Accounted, HandedOverOnce, NoneLost

\* However calls overlap, fail, are cancelled or race the pool, add_remote_candidate
\* hands each candidate to libdatachannel at most once, those held back in the order of the
\* calls, and loses none unless a set_remote_description is cancelled.
THEOREM CandidatesAccountedFor == Spec => [](HandedOverOnce /\ NoneLost)
<1>1. Init => RelayInv /\ Accounted
  <2> SUFFICES ASSUME Init PROVE Accounted
    BY InitRelay
  <2>1. Forwarded = {} /\ Pending = {} /\ rejected = {} /\ Len(forwarded) = 0 /\ 1..called = {}
    BY Sets, ElemsEmpty DEF Init, Pending
  <2> QED
    BY <2>1 DEF Accounted, HandedOverOnce, NoneLost
<1>2. RelayInv /\ Accounted /\ [Next]_vars => (RelayInv /\ Accounted)'
  <2> SUFFICES ASSUME RelayInv, Accounted, [Next]_vars PROVE Relaying' /\ Accounted'
    BY NextType DEF RelayInv
  <2>1. CASE AddBuffered \/ AddDirect
    BY <2>1, RelayAdd, AccountedAdd
  <2>2. ASSUME NEW c \in Candidates, RunDirect(c)
        PROVE  Relaying' /\ Accounted'
    BY <2>2, RelayDirect, AccountedHandOver
  <2>3. ASSUME NEW d \in Calls, RunDrain(d)
        PROVE  Relaying' /\ Accounted'
    BY <2>3, RelayDrain, AccountedHandOver
  <2>4. ASSUME NEW d \in Calls, Applied(d)
        PROVE  Relaying' /\ Accounted'
    BY <2>4, RelayApplied, AccountedOther DEF Applied
  <2>5. ASSUME NEW d \in Calls, Cancel(d)
        PROVE  Relaying' /\ Accounted'
    BY <2>5, RelayCancel, AccountedOther DEF Cancel
  <2>6. CASE \/ Delete \/ UNCHANGED vars
             \/ \E d \in Calls : SetRemote(d) \/ RunApply(d) \/ DrainNext(d)
    <3>1. UNCHANGED rejected
      BY <2>6 DEF Delete, vars, SetRemote, RunApply, DrainNext
    <3> QED
      BY <2>6, <3>1, RelayOther, AccountedOther
  <2> QED
    BY <2>1, <2>2, <2>3, <2>4, <2>5, <2>6 DEF Next
<1>3. Accounted => HandedOverOnce /\ NoneLost
  BY DEF Accounted
<1> QED
  BY <1>1, <1>2, <1>3, PTL DEF Spec
===============================================================================
