----------------------------- MODULE FutureSlot -----------------------------
(***************************************************************************)
(* The latched asyncio.Future of aiolibdatachannel/_loop.py, as a value:   *)
(* the state of the future a FutureSlot holds.  A slot that has been       *)
(* resolved, failed or cancelled keeps that outcome; set() and fail() on a *)
(* settled slot do nothing.                                                *)
(***************************************************************************)

SlotState == {"pending", "result", "failed", "cancelled"}

Settled(slot) == slot # "pending"

\* FutureSlot.set: the first outcome wins.
SlotSet(slot) == IF slot = "pending" THEN "result" ELSE slot

\* FutureSlot.fail: the first outcome wins here too.
SlotFail(slot) == IF slot = "pending" THEN "failed" ELSE slot

\* asyncio cancels the future a cancelled task is awaiting.  Every waiter of a
\* FutureSlot awaits the slot's one future, so this is what the cancellation of
\* one waiter does to the slot that all of them share.
SlotCancel(slot) == IF slot = "pending" THEN "cancelled" ELSE slot
=============================================================================
