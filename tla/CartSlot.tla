------------------------------ MODULE CartSlot ------------------------------
(***************************************************************************)
(* What the console may rely on in its cartridge slot, with no windows,     *)
(* banks, buffers or links: one image is served at a time, whole; another   *)
(* may be waiting; and the one that waits takes its place in one step, only *)
(* when it was asked for. Cart implements it: see Cart!Slot.                *)
(***************************************************************************)
CONSTANTS Images, NoImage

VARIABLES
  served,          \* the image in the slot
  waiting,         \* the image that would be next
  asked            \* the console asked for it

vars == <<served, waiting, asked>>

Init == served = NoImage /\ waiting = NoImage /\ asked = FALSE

Insert ==
  /\ served = NoImage
  /\ served' \in Images
  /\ UNCHANGED <<waiting, asked>>

Receive ==
  /\ served # NoImage
  /\ waiting' \in Images
  /\ UNCHANGED <<served, asked>>

Ask ==
  /\ waiting # NoImage
  /\ asked' = TRUE
  /\ UNCHANGED <<served, waiting>>

Swap ==
  /\ asked
  /\ served' = waiting
  /\ waiting' = NoImage
  /\ asked' = FALSE

Remove == served' = NoImage /\ waiting' = NoImage /\ asked' = FALSE

Next == Insert \/ Receive \/ Ask \/ Swap \/ Remove

Spec == Init /\ [][Next]_vars
=============================================================================
