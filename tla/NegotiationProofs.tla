--------------------------- MODULE NegotiationProofs ---------------------------
(***************************************************************************)
(* Proofs about Negotiation, for any number of coroutines, negotiations    *)
(* and handlers waiting for the loop.                                      *)
(***************************************************************************)
EXTENDS Negotiation, SequenceTheorems, TLAPS

(* ---- Types ------------------------------------------------------------------ *)

\* A slot stays a slot.
LEMMA SlotType ==
    ASSUME NEW slot \in SlotState
    PROVE  SlotSet(slot) \in SlotState /\ SlotFail(slot) \in SlotState
           /\ SlotCancel(slot) \in SlotState /\ "pending" \in SlotState
BY DEF SlotState, SlotSet, SlotFail, SlotCancel

\* A connection starts well typed.
LEMMA InitType == Init => TypeOK
<1> SUFFICES ASSUME Init PROVE TypeOK
  OBVIOUS
<1>1. ready \in Seq(Event) /\ negotiations \in 0..MaxNegotiations
  BY EmptySeq, BoundsAssumption DEF Init
<1> QED
  BY <1>1 DEF Init, TypeOK, RtcState, SlotState

\* Waiting coroutines that go on keep the type of at.
LEMMA ReleaseType ==
    ASSUME TypeOK, NEW awaited
    PROVE  Release(awaited) \in [Coroutines -> Awaiting \cup {"nothing"}]
BY DEF TypeOK, Release

\* The worker keeps the types.
LEMMA NativeType == TypeOK /\ Native => TypeOK'
<1> SUFFICES ASSUME TypeOK, Native PROVE TypeOK'
  OBVIOUS
<1>1. ASSUME NEW e \in Event, Post(e) PROVE ready' \in Seq(Event)
  BY <1>1 DEF Post, TypeOK
<1>2. ready' \in Seq(Event)
  BY <1>1 DEF Native, NativeDescription, NativeGathered, NativeState, Event
<1>3. rtc' \in RtcState /\ gathering' \in BOOLEAN /\ describing' \in BOOLEAN
  BY DEF Native, NativeDescription, NativeGathered, NativeState, TypeOK, RtcState
<1> QED
  BY <1>2, <1>3 DEF Native, TypeOK, slots

\* The handlers keep the types.
LEMMA HandleType == TypeOK /\ Handle => TypeOK'
<1> SUFFICES ASSUME TypeOK, Handle PROVE TypeOK'
  OBVIOUS
<1> DEFINE e == Head(ready)
<1>1. ready' \in Seq(Event)
  BY DEF TypeOK, Handle
<1>2. /\ description' \in SlotState /\ gathered' \in SlotState
      /\ state_events' \subseteq RtcState
      /\ at' \in [Coroutines -> Awaiting \cup {"nothing"}]
  <2>1. CASE HandleDescription
    BY <2>1, SlotType, ReleaseType DEF HandleDescription, TypeOK
  <2>2. CASE HandleGathered
    BY <2>2, SlotType, ReleaseType DEF HandleGathered, TypeOK
  <2>3. CASE e \in RtcState /\ HandleState(e)
    BY <2>3, SlotType, ReleaseType DEF HandleState, TypeOK, slots
  <2> QED
    BY <2>1, <2>2, <2>3 DEF Handle
<1> QED
  BY <1>1, <1>2 DEF Handle, TypeOK, native

\* A call of rtcSetLocalDescription keeps the types.
LEMMA NegotiatedType ==
    ASSUME TypeOK, NEW c \in Coroutines, NEW call \in Negotiating,
           NEW f \in [Coroutines -> Awaiting \cup {"nothing"}], Negotiated(c, call, f)
    PROVE  /\ at' \in [Coroutines -> Awaiting \cup {"nothing"}]
           /\ negotiations' \in 0..MaxNegotiations
           /\ describing' \in BOOLEAN /\ gathering' \in BOOLEAN
<1>1. CASE /\ alive /\ negotiations < MaxNegotiations
           /\ negotiations' = negotiations + 1
           /\ describing' = TRUE /\ gathering' = TRUE
           /\ at' = [f EXCEPT ![c] = call]
  <2>1. negotiations' \in 0..MaxNegotiations
    BY <1>1, BoundsAssumption DEF TypeOK
  <2>2. at' \in [Coroutines -> Awaiting \cup {"nothing"}]
    BY <1>1 DEF Awaiting
  <2> QED
    BY <1>1, <2>1, <2>2
<1>2. CASE at' = f /\ UNCHANGED <<negotiations, describing, gathering>>
  BY <1>2 DEF TypeOK
<1> QED
  BY <1>1, <1>2 DEF Negotiated

\* The calls of the coroutines keep the types.
LEMMA NegotiateType == TypeOK /\ Negotiate => TypeOK'
<1> SUFFICES ASSUME TypeOK, NEW c \in Coroutines,
                    CreateAnswer(c) \/ SetLocalDescription(c),
                    UNCHANGED <<alive, rtc, ready, state_events, closed>>
             PROVE  TypeOK'
  BY DEF Negotiate, CreateOffer
<1>1. "offer" \in Negotiating /\ "describe" \in Negotiating
  BY DEF Negotiating
<1>2. description' \in SlotState /\ gathered' \in SlotState
  BY SlotType DEF CreateAnswer, SetLocalDescription, TypeOK, SlotState
<1> QED
  BY <1>1, <1>2, ReleaseType, NegotiatedType DEF CreateAnswer, SetLocalDescription, TypeOK

\* Waiting for a state, cancellation and shutdown keep the types.
LEMMA OtherType == TypeOK /\ (WaitForState \/ CancelWait \/ Close \/ Delete) => TypeOK'
<1> SUFFICES ASSUME TypeOK, WaitForState \/ CancelWait \/ Close \/ Delete PROVE TypeOK'
  OBVIOUS
<1>1. ASSUME NEW cs, Cancel(cs)
      PROVE  /\ description' \in SlotState /\ gathered' \in SlotState
             /\ at' \in [Coroutines -> Awaiting \cup {"nothing"}]
  BY <1>1, SlotType DEF Cancel, TypeOK
<1>2. CASE WaitForState
  BY <1>2 DEF WaitForState, TypeOK, Awaiting, native, slots
<1>3. CASE CancelWait
  BY <1>1, <1>3 DEF CancelWait, TypeOK, native
<1>4. CASE Close
  BY <1>1, <1>4 DEF Close, TypeOK, native
<1>5. CASE Delete
  BY <1>5 DEF Delete, TypeOK, slots
<1> QED
  BY <1>2, <1>3, <1>4, <1>5

\* Every reachable state is well typed.
THEOREM TypeCorrect == Spec => []TypeOK
<1>1. TypeOK /\ [Next]_vars => TypeOK'
  <2>1. TypeOK /\ UNCHANGED vars => TypeOK'
    BY DEF vars, TypeOK
  <2> QED
    BY <2>1, NativeType, HandleType, NegotiateType, OtherType DEF Next
<1> QED
  BY <1>1, InitType, PTL DEF Spec

(* ---- Nobody is left behind ------------------------------------------------------ *)

\* A handler stays posted until the loop runs it.
LEMMA PostedStays ==
    ASSUME TypeOK, NEW events, Posted(events)
    PROVE  /\ \A e \in Event : ready' = Append(ready, e) => Posted(events)'
           /\ ready' = Tail(ready) /\ Head(ready) \notin events => Posted(events)'
<1> PICK i \in 1..Len(ready) : ready[i] \in events
  BY DEF Posted
<1>1. ASSUME NEW e \in Event, ready' = Append(ready, e) PROVE Posted(events)'
  <2>1. i \in 1..Len(ready') /\ ready'[i] = ready[i]
    BY <1>1 DEF TypeOK
  <2> QED
    BY <2>1 DEF Posted
<1>2. ASSUME ready' = Tail(ready), Head(ready) \notin events PROVE Posted(events)'
  <2>1. i - 1 \in 1..Len(ready') /\ ready'[i - 1] = ready[i]
    BY <1>2 DEF TypeOK
  <2> QED
    BY <2>1 DEF Posted
<1> QED
  BY <1>1, <1>2

\* What the worker reports is posted, and what was posted stays.
LEMMA PostPosts ==
    ASSUME TypeOK, NEW e \in Event, Post(e), NEW events
    PROVE  /\ Posted(events) => Posted(events)'
           /\ e \in events => Posted(events)'
<1>1. ready' = Append(ready, e)
  BY DEF Post
<1>2. Len(ready) + 1 \in 1..Len(ready') /\ ready'[Len(ready) + 1] = e
  BY <1>1 DEF TypeOK
<1> QED
  BY <1>1, <1>2, PostedStays DEF Posted

\* The callbacks of the worker leave every waiter with something to come.
LEMMA NativeWaiters == TypeOK /\ WaitersPending /\ Native => WaitersPending'
<1> SUFFICES ASSUME TypeOK, WaitersPending, Native PROVE WaitersPending'
  OBVIOUS
<1>1. UNCHANGED <<alive, description, gathered, at>>
  BY DEF Native, slots
<1>2. PICK e \in Event : Post(e) /\ (gathering' = gathering \/ e = "gathered")
                                 /\ (describing' = describing \/ e = "description")
  BY DEF Native, NativeDescription, NativeGathered, NativeState, Event
<1> QED
  BY <1>1, <1>2, PostPosts DEF WaitersPending

\* A handler that takes away what a waiter waited for has let the waiter go.
LEMMA HandleWaiters == TypeOK /\ WaitersPending /\ Handle => WaitersPending'
<1> SUFFICES ASSUME TypeOK, WaitersPending, Handle PROVE WaitersPending'
  OBVIOUS
<1> DEFINE e == Head(ready)
<1>1. UNCHANGED <<alive, gathering, describing>> /\ ready' = Tail(ready)
  BY DEF Handle, native
<1>2. \A events : Posted(events) /\ e \notin events => Posted(events)'
  BY <1>1, PostedStays
<1>3. CASE e = "description" /\ HandleDescription
  <2>1. e \notin {"gathered"} \cup Terminal
    BY <1>3 DEF Terminal
  <2>2. \A c \in Coroutines : at'[c] # "describe" /\ (at'[c] = "offer" => at[c] = "offer")
    BY <1>3 DEF HandleDescription, Release
  <2> QED
    BY <1>1, <1>2, <1>3, <2>1, <2>2 DEF WaitersPending, HandleDescription
<1>4. CASE e = "gathered" /\ HandleGathered
  <2>1. e \notin {"description"} \cup Terminal
    BY <1>4 DEF Terminal
  <2>2. \A c \in Coroutines : at'[c] # "offer" /\ (at'[c] = "describe" => at[c] = "describe")
    BY <1>4 DEF HandleGathered, Release
  <2> QED
    BY <1>1, <1>2, <1>4, <2>1, <2>2 DEF WaitersPending, HandleGathered
<1>5. CASE e \in RtcState /\ HandleState(e) /\ e \in Terminal
  BY <1>5 DEF WaitersPending, HandleState, Release, Negotiating
<1>6. CASE e \in RtcState /\ HandleState(e) /\ e \notin Terminal
  <2>1. e \notin {"gathered"} \cup Terminal /\ e \notin {"description"} \cup Terminal
    BY <1>6 DEF RtcState
  <2>2. /\ \A c \in Coroutines : at'[c] = "offer" => at[c] = "offer"
        /\ \A c \in Coroutines : at'[c] = "describe" => at[c] = "describe"
    BY <1>6 DEF HandleState, Release
  <2> QED
    BY <1>1, <1>2, <1>6, <2>1, <2>2 DEF WaitersPending, HandleState, slots
<1> QED
  BY <1>3, <1>4, <1>5, <1>6 DEF Handle

\* A negotiation releases whoever waits on the futures it replaces.
LEMMA NegotiateWaiters == TypeOK /\ WaitersPending /\ Negotiate => WaitersPending'
<1> SUFFICES ASSUME TypeOK, WaitersPending, NEW c \in Coroutines,
                    CreateAnswer(c) \/ SetLocalDescription(c),
                    UNCHANGED <<alive, rtc, ready, state_events, closed>>
             PROVE  WaitersPending'
  BY DEF Negotiate, CreateOffer
<1>1. \A events : Posted(events)' = Posted(events)
  BY DEF Posted
<1>2. (gathering => gathering') /\ (describing => describing')
  BY DEF CreateAnswer, SetLocalDescription, Negotiated
<1>3. CASE CreateAnswer(c)
  <2>1. \A d \in Coroutines :
           at'[d] # "describe" /\ (at'[d] = "offer" => gathering')
    BY <1>3 DEF CreateAnswer, Negotiated, Release, Negotiating, TypeOK
  <2> QED
    BY <1>3, <2>1 DEF WaitersPending, CreateAnswer
<1>4. CASE SetLocalDescription(c)
  <2>1. \A d \in Coroutines : /\ at'[d] = "describe" => describing'
                              /\ at'[d] = "offer" => at[d] = "offer"
    BY <1>4 DEF SetLocalDescription, Negotiated, Release, Negotiating, TypeOK
  <2> QED
    BY <1>1, <1>2, <1>4, <2>1 DEF WaitersPending, SetLocalDescription
<1> QED
  BY <1>3, <1>4

\* Cancelling a future lets go of all who await it, and of nobody else.
LEMMA CancelWaiters ==
    ASSUME TypeOK, WaitersPending, NEW cs, Cancel(cs), UNCHANGED <<native, ready>>
    PROVE  WaitersPending'
<1>1. \A events : Posted(events)' = Posted(events)
  BY DEF Posted
<1>2. \A c \in Coroutines : \A call \in Negotiating :
         at'[c] = call => at[c] = call /\ call \notin {at[d] : d \in cs}
  BY DEF Cancel, Negotiating
<1>3. "offer" \in Negotiating /\ "describe" \in Negotiating
  BY DEF Negotiating
<1>4. /\ "offer" \notin {at[d] : d \in cs} => gathered' = gathered
      /\ "describe" \notin {at[d] : d \in cs} => description' = description
  BY DEF Cancel
<1> QED
  BY <1>1, <1>2, <1>3, <1>4 DEF WaitersPending, native

\* On a connection that is not deleted, whoever waits on the description or on the
\* gathering waits on a pending future that a report still to come will settle, through
\* any resets, cancellations, failures and state changes.
THEOREM NobodyLeftBehind == Spec => []WaitersPending
<1>1. Init => WaitersPending
  BY DEF Init, WaitersPending
<1>2. TypeOK /\ WaitersPending /\ [Next]_vars => WaitersPending'
  <2> SUFFICES ASSUME TypeOK, WaitersPending, [Next]_vars PROVE WaitersPending'
    OBVIOUS
  <2>1. CASE WaitForState
    <3>1. /\ \A c \in Coroutines : at'[c] = "offer" => at[c] = "offer"
          /\ \A c \in Coroutines : at'[c] = "describe" => at[c] = "describe"
      BY <2>1 DEF WaitForState, RtcState, TypeOK
    <3> QED
      BY <2>1, <3>1 DEF WaitForState, WaitersPending, Posted, native, slots
  <2>2. CASE CancelWait
    BY <2>2, CancelWaiters DEF CancelWait
  <2>3. CASE Close
    BY <2>3, CancelWaiters DEF Close
  <2>4. CASE Delete
    BY <2>4 DEF Delete, WaitersPending, slots
  <2>5. CASE UNCHANGED vars
    BY <2>5 DEF vars, WaitersPending, Posted
  <2> QED
    BY <2>1, <2>2, <2>3, <2>4, <2>5, NativeWaiters, HandleWaiters, NegotiateWaiters
       DEF Next
<1> QED
  BY <1>1, <1>2, TypeCorrect, PTL DEF Spec

(* ---- Waiting for a state ------------------------------------------------------------ *)

\* The event of the state the connection is in is set, or its report is posted; and
\* nobody waits for an event that is set.
StateKnown ==
    /\ rtc \in state_events \/ Posted({rtc})
    /\ \A c \in Coroutines : at[c] \in RtcState => at[c] \notin state_events

\* Nobody waits for the state the connection is in unless its report is posted.
NoStateOverslept ==
    \A c \in Coroutines : at[c] = rtc => Posted({rtc})

\* A step lets a coroutine go, leaves it waiting, or has it negotiate.
LEMMA StayOrGo ==
    ASSUME TypeOK, StateKnown, UNCHANGED state_events,
           \A c \in Coroutines : at'[c] \in Negotiating \cup {"nothing"} \/ at'[c] = at[c]
    PROVE  \A c \in Coroutines : at'[c] \in RtcState => at'[c] \notin state_events'
BY DEF StateKnown, Negotiating, RtcState

LEMMA StateKnownStep == TypeOK /\ StateKnown /\ [Next]_vars => StateKnown'
<1> SUFFICES ASSUME TypeOK, StateKnown, [Next]_vars PROVE StateKnown'
  OBVIOUS
<1>1. CASE Native
  <2>1. UNCHANGED <<state_events, at>>
    BY <1>1 DEF Native
  <2>2. PICK e \in Event : Post(e) /\ (rtc' = rtc \/ rtc' = e)
    BY <1>1 DEF Native, NativeDescription, NativeGathered, NativeState, Event
  <2>3. PICK s : s = rtc'
    OBVIOUS
  <2>4. s \in state_events \/ Posted({s})'
    <3>1. CASE s = rtc
      BY <2>2, <3>1, PostPosts DEF StateKnown
    <3>2. CASE s = e
      BY <2>2, <3>2, PostPosts
    <3> QED
      BY <2>2, <2>3, <3>1, <3>2
  <2> QED
    BY <2>1, <2>3, <2>4 DEF StateKnown, Posted
<1>2. CASE Handle
  <2> DEFINE e == Head(ready)
  <2>1. UNCHANGED rtc /\ ready' = Tail(ready) /\ state_events \subseteq state_events'
    BY <1>2 DEF Handle, native, HandleDescription, HandleGathered, HandleState
  <2>2. rtc \in state_events' \/ Posted({rtc})'
    <3>1. CASE rtc \in state_events
      BY <2>1, <3>1
    <3>2. CASE Posted({rtc}) /\ e # rtc
      BY <2>1, <3>2, PostedStays
    <3>3. CASE e = rtc
      BY <1>2, <3>3 DEF Handle, HandleState, TypeOK, RtcState
    <3> QED
      BY <3>1, <3>2, <3>3 DEF StateKnown
  <2>3. \A c \in Coroutines : at'[c] \in RtcState => at'[c] \notin state_events'
    <3>1. CASE HandleDescription \/ HandleGathered
      <4>1. \A c \in Coroutines : at'[c] = "nothing" \/ at'[c] = at[c]
        BY <3>1 DEF HandleDescription, HandleGathered, Release
      <4> QED
        BY <3>1, <4>1, StayOrGo DEF HandleDescription, HandleGathered
    <3>2. CASE e \in RtcState /\ HandleState(e)
      <4>1. \A c \in Coroutines : at'[c] = "nothing" \/ (at'[c] = at[c] /\ at[c] # e)
        BY <3>2 DEF HandleState, Release
      <4>2. state_events' = state_events \cup {e} /\ "nothing" \notin RtcState
        BY <3>2 DEF HandleState, RtcState
      <4> HIDE DEF e
      <4> QED
        BY <4>1, <4>2 DEF StateKnown
    <3> QED
      BY <1>2, <3>1, <3>2 DEF Handle
  <2> QED
    BY <2>1, <2>2, <2>3 DEF StateKnown, Posted
<1>3. CASE Negotiate
  <2>1. UNCHANGED <<rtc, ready, state_events>>
    BY <1>3 DEF Negotiate
  <2>2. \A c \in Coroutines : at'[c] \in Negotiating \cup {"nothing"} \/ at'[c] = at[c]
    <3> PICK d \in Coroutines : CreateAnswer(d) \/ SetLocalDescription(d)
      BY <1>3 DEF Negotiate, CreateOffer
    <3> QED
      BY DEF CreateAnswer, SetLocalDescription, Negotiated, Release, Negotiating, TypeOK
  <2> QED
    BY <2>1, <2>2, StayOrGo DEF StateKnown, Posted
<1>4. CASE WaitForState
  <2>1. UNCHANGED <<rtc, ready, state_events>>
    BY <1>4 DEF WaitForState, native
  <2>2. \A c \in Coroutines : at'[c] \notin state_events \/ at'[c] = at[c]
    BY <1>4 DEF WaitForState, TypeOK
  <2> QED
    BY <2>1, <2>2 DEF StateKnown, Posted
<1>5. CASE CancelWait \/ Close
  <2>1. UNCHANGED <<rtc, ready, state_events>>
    BY <1>5 DEF CancelWait, Close, native
  <2>2. PICK cs : Cancel(cs)
    BY <1>5 DEF CancelWait, Close
  <2>3. \A c \in Coroutines : at'[c] \in Negotiating \cup {"nothing"} \/ at'[c] = at[c]
    BY <2>2 DEF Cancel
  <2> QED
    BY <2>1, <2>3, StayOrGo DEF StateKnown, Posted
<1>6. CASE Delete \/ UNCHANGED vars
  BY <1>6 DEF Delete, vars, StateKnown, Posted
<1> QED
  BY <1>1, <1>2, <1>3, <1>4, <1>5, <1>6 DEF Next

\* wait_for_state() does not oversleep: nobody waits for the state the connection is in
\* unless the handler that will let them go is posted to the loop, whatever reports,
\* cancellations and shutdowns come in between.
THEOREM StatesAreReported == Spec => []NoStateOverslept
<1>1. Init => StateKnown
  BY DEF Init, StateKnown, RtcState
<1>2. TypeOK /\ StateKnown => NoStateOverslept
  BY DEF TypeOK, StateKnown, NoStateOverslept
<1> QED
  BY <1>1, <1>2, StateKnownStep, TypeCorrect, PTL DEF Spec
================================================================================
