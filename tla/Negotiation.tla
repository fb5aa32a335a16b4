------------------------------ MODULE Negotiation ------------------------------
(***************************************************************************)
(* The futures of PeerConnection (peer_connection.py) that create_offer(), *)
(* create_answer() and set_local_description() wait on, the callbacks that *)
(* settle them, and the states that wait_for_state() waits for.            *)
(*                                                                         *)
(* A step is what the loop runs between two awaits, or one callback of the *)
(* worker thread, which posts a handler to the loop (how that races the    *)
(* teardown is in the module PeerConnection).  rtcSetLocalDescription runs *)
(* on the loop's thread, where nothing else runs meanwhile.                *)
(***************************************************************************)
EXTENDS Naturals, Sequences, FutureSlot

CONSTANTS
    Coroutines,         \* coroutines that call the methods of the connection
    Owned,              \* those of them run by spawn_task()
    MaxNegotiations,    \* bound: calls of rtcSetLocalDescription that succeed
    MaxReady            \* bound: handlers waiting for the loop

ASSUME OwnedAssumption == Owned \subseteq Coroutines
ASSUME BoundsAssumption == MaxNegotiations \in Nat /\ MaxReady \in Nat

VARIABLES
    \* libdatachannel's side of the connection
    alive,              \* not yet deleted: callbacks get through
    rtc,                \* its state, as the worker has reported it
    gathering,          \* candidates are being gathered for a local description
    describing,         \* a local description is about to be reported
    negotiations,       \* how many so far
    \* the PeerConnection object
    ready,              \* handlers that schedule() has posted to the loop
    state_events,       \* the states whose _state_events event is set
    description,        \* the slot _local_description
    gathered,           \* the slot _gathering_complete
    closed,
    at                  \* what each coroutine awaits

vars == <<alive, rtc, gathering, describing, negotiations, ready, state_events,
          description, gathered, closed, at>>

native == <<alive, rtc, gathering, describing, negotiations>>
slots == <<description, gathered>>

RtcState == {"new", "connected", "failed", "closed"}
Terminal == {"failed", "closed"}

\* What a coroutine awaits: the gathering, the description, or a state.
Negotiating == {"offer", "describe"}
Awaiting == Negotiating \cup RtcState

Event == {"description", "gathered", "connected", "failed", "closed"}

TypeOK ==
    /\ alive \in BOOLEAN /\ rtc \in RtcState
    /\ gathering \in BOOLEAN /\ describing \in BOOLEAN
    /\ negotiations \in 0..MaxNegotiations
    /\ ready \in Seq(Event)
    /\ state_events \subseteq RtcState
    /\ description \in SlotState /\ gathered \in SlotState
    /\ closed \in BOOLEAN
    /\ at \in [Coroutines -> Awaiting \cup {"nothing"}]

Init ==
    /\ alive = TRUE /\ rtc = "new" /\ gathering = FALSE /\ describing = FALSE
    /\ negotiations = 0
    /\ ready = <<>> /\ state_events = {"new"}
    /\ description = "pending" /\ gathered = "pending"
    /\ closed = FALSE
    /\ at = [c \in Coroutines |-> "nothing"]

\* Those who await one of these go on.
Release(awaited) ==
    [c \in Coroutines |-> IF at[c] \in awaited THEN "nothing" ELSE at[c]]

(* ---- The worker thread of libdatachannel, and schedule() -------------------- *)

\* The worker reports in any order.

Post(e) == alive /\ Len(ready) < MaxReady /\ ready' = Append(ready, e)

NativeDescription ==
    /\ describing /\ Post("description")
    /\ describing' = FALSE
    /\ UNCHANGED <<rtc, gathering>>

NativeGathered ==
    /\ gathering /\ Post("gathered")
    /\ gathering' = FALSE
    /\ UNCHANGED <<rtc, describing>>

\* The transports connect, fail, or are closed by the peer.
NativeState ==
    /\ negotiations > 0
    /\ \E s \in {"connected", "failed", "closed"} :
          /\ \/ rtc = "new"
             \/ rtc = "connected" /\ s # "connected"
             \/ rtc = "failed" /\ s = "closed"
          /\ Post(s)
          /\ rtc' = s
    /\ UNCHANGED <<gathering, describing>>

Native ==
    /\ NativeDescription \/ NativeGathered \/ NativeState
    /\ UNCHANGED <<alive, negotiations, state_events, slots, closed, at>>

(* ---- Handlers run by the loop ---------------------------------------------- *)

\* Mutant: the description replaces the future instead of resolving it.
HandleDescriptionRaw ==
    /\ description' = "description"
    /\ at' = Release({"describe"})
    /\ UNCHANGED <<state_events, gathered>>

HandleDescription ==
    /\ description' = SlotSet(description)
    /\ at' = Release({"describe"})
    /\ UNCHANGED <<state_events, gathered>>

\* Mutant: the end of the gathering is reported to the iterators only.
HandleGatheredQuietly == UNCHANGED <<state_events, slots, at>>

HandleGathered ==
    /\ gathered' = SlotSet(gathered)
    /\ at' = Release({"offer"})
    /\ UNCHANGED <<state_events, description>>

\* Mutant: the end of the connection is not reported to the negotiations.
HandleStateOnly(s) ==
    /\ state_events' = state_events \cup {s}
    /\ at' = Release({s})
    /\ UNCHANGED slots

\* Mutant: the handler asks the connection for its state.
HandleStateNow(s) ==
    /\ state_events' = state_events \cup {rtc}
    /\ at' = Release(IF rtc \in Terminal THEN {rtc} \cup Negotiating ELSE {rtc})
    /\ IF rtc \in Terminal
       THEN description' = SlotFail(description) /\ gathered' = SlotSet(gathered)
       ELSE UNCHANGED slots

\* Whoever waits for the state goes on; at the end of the connection the description
\* fails and the gathering counts as complete.
HandleState(s) ==
    /\ state_events' = state_events \cup {s}
    /\ at' = Release(IF s \in Terminal THEN {s} \cup Negotiating ELSE {s})
    /\ IF s \in Terminal
       THEN description' = SlotFail(description) /\ gathered' = SlotSet(gathered)
       ELSE UNCHANGED slots

Handle ==
    /\ ready # <<>>
    /\ ready' = Tail(ready)
    /\ LET e == Head(ready)
       IN  \/ e = "description" /\ HandleDescription
           \/ e = "gathered" /\ HandleGathered
           \/ e \in RtcState /\ HandleState(e)
    /\ UNCHANGED <<native, closed>>

(* ---- create_offer, create_answer, set_local_description ---------------------- *)

\* rtcSetLocalDescription: a description will be reported and candidates gathered, or
\* it raises an RTCError.
Negotiated(c, call, released) ==
    \/ /\ alive /\ negotiations < MaxNegotiations
       /\ negotiations' = negotiations + 1
       /\ describing' = TRUE /\ gathering' = TRUE
       /\ at' = [released EXCEPT ![c] = call]
    \/ at' = released /\ UNCHANGED <<negotiations, describing, gathering>>

\* Mutant: the slots of the last negotiation are used again as they are.
CreateAnswerNoReset(c) ==
    /\ at[c] = "nothing"
    /\ UNCHANGED slots
    /\ Negotiated(c, "offer", at)

\* Both slots are reset, which cancels the futures others await.
CreateAnswer(c) ==
    /\ at[c] = "nothing"
    /\ description' = "pending" /\ gathered' = "pending"
    /\ Negotiated(c, "offer", Release(Negotiating))

\* The same, but refused on a closed connection.
CreateOffer(c) == ~closed /\ CreateAnswer(c)

SetLocalDescription(c) ==
    /\ at[c] = "nothing"
    /\ description' = "pending"
    /\ Negotiated(c, "describe", Release({"describe"}))
    /\ UNCHANGED gathered

Negotiate ==
    /\ \E c \in Coroutines : CreateOffer(c) \/ CreateAnswer(c) \/ SetLocalDescription(c)
    /\ UNCHANGED <<alive, rtc, ready, state_events, closed>>

\* wait_for_state: an event that is set lets the caller through.
WaitForState ==
    /\ \E c \in Coroutines : \E s \in RtcState \ state_events :
          at[c] = "nothing" /\ at' = [at EXCEPT ![c] = s]
    /\ UNCHANGED <<native, ready, state_events, slots, closed>>

(* ---- Cancellation and shutdown ------------------------------------------------ *)

\* Cancelling coroutines cancels the futures they await, for all who await them.
Cancel(cs) ==
    LET awaited == {at[c] : c \in cs}
    IN  /\ description' = IF "describe" \in awaited THEN SlotCancel(description)
                          ELSE description
        /\ gathered' = IF "offer" \in awaited THEN SlotCancel(gathered) ELSE gathered
        /\ at' = [c \in Coroutines |->
                     IF c \in cs \/ at[c] \in awaited \cap Negotiating THEN "nothing"
                     ELSE at[c]]

\* A caller gives up waiting (asyncio.wait_for, task.cancel).
CancelWait ==
    /\ \E c \in Coroutines : at[c] # "nothing" /\ Cancel({c})
    /\ UNCHANGED <<native, ready, state_events, closed>>

\* close() cancels the owned tasks.  It settles nothing itself.
Close ==
    /\ ~closed
    /\ closed' = TRUE
    /\ Cancel(Owned)
    /\ UNCHANGED <<native, ready, state_events>>

\* The teardown clears the callbacks of the connection and deletes it.
Delete ==
    /\ closed /\ alive
    /\ alive' = FALSE
    /\ UNCHANGED <<rtc, gathering, describing, negotiations, ready, state_events, slots,
                   closed, at>>

Next ==
    \/ Native \/ Handle \/ Negotiate \/ WaitForState
    \/ CancelWait \/ Close \/ Delete

Spec == Init /\ [][Next]_vars

(***************************************************************************)
(* Fairness.  The loop runs what is scheduled, the worker reports the      *)
(* description and the end of the gathering that rtcSetLocalDescription    *)
(* began, and a teardown that close() has started reaches the connection.  *)
(* Nobody need call anything.                                              *)
(***************************************************************************)
Fairness ==
    /\ WF_vars(Handle)
    /\ WF_vars(NativeDescription /\ Native) /\ WF_vars(NativeGathered /\ Native)
    /\ WF_vars(Delete)

LiveSpec == Spec /\ Fairness

(* ---- Properties ----------------------------------------------------------------- *)

Posted(events) == \E i \in 1..Len(ready) : ready[i] \in events

\* Nobody is left behind by a reset, a cancellation or a state change: who waits on a
\* slot waits on a future that is pending, and until the connection is deleted what
\* settles it is still to come, from the worker or already posted to the loop.
WaitersPending ==
    \A c \in Coroutines :
        /\ at[c] = "offer" =>
               /\ gathered = "pending"
               /\ alive => gathering \/ Posted({"gathered"} \cup Terminal)
        /\ at[c] = "describe" =>
               /\ description = "pending"
               /\ alive => describing \/ Posted({"description"} \cup Terminal)

\* A negotiation ends as long as nobody closes the connection, whichever callbacks,
\* cancellations, state changes and other negotiations come in between.
NegotiationReturns ==
    \A c \in Coroutines :
        at[c] \in Negotiating ~> at[c] \notin Negotiating \/ closed

\* A connection that fails or is closed by the peer lets go of all negotiations that
\* began before the news is handled, even if close() and the teardown come first.
EndReleases ==
    \A c \in Coroutines :
        at[c] \in Negotiating /\ Posted(Terminal) ~> at[c] \notin Negotiating

\* Who waits for a state goes on once the worker has reported it, even if the connection
\* has left the state before the loop comes to hear of it, or close() and the teardown
\* come first.
StatesNotMissed ==
    \A c \in Coroutines :
        at[c] \in RtcState /\ Posted({at[c]}) ~> at[c] \notin RtcState

\* Nobody who waits on the description or the gathering hangs on a connection that is
\* closed.
NoAwaiterHangs ==
    \A c \in Coroutines : closed /\ at[c] \in Negotiating ~> at[c] \notin Negotiating

\* create_offer() and create_answer() go on to return a description only once the
\* gathering they wait for is complete.
OfferComplete ==
    [][\A c \in Coroutines :
          at[c] = "offer" /\ at'[c] = "nothing" /\ gathered' = "result" => ~gathering]_vars
================================================================================
