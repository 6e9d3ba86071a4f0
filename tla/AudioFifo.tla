------------------------------ MODULE AudioFifo ------------------------------
(***************************************************************************)
(* What the audio device may be given: a stream in order. Samples are       *)
(* numbered as the machine makes them. Samples may be lost, always the      *)
(* oldest that are left; what is handed out is consecutive and is never     *)
(* handed out again.                                                        *)
(***************************************************************************)
EXTENDS Integers

VARIABLES
  made,      \* the number of the newest sample
  passed,    \* every sample up to this one was handed out or lost
  dst        \* the samples handed out last

vars == <<made, passed, dst>>

Init == made = 0 /\ passed = 0 /\ dst = [i \in {} |-> 0]

Make ==
  /\ made' \in Nat /\ made' > made
  /\ passed' \in passed..made'
  /\ UNCHANGED dst

\* Samples lo+1 .. lo+n are handed out; those before are lost.
Take(lo, n) ==
  /\ dst' = [i \in 0..(n - 1) |-> lo + 1 + i]
  /\ passed' = lo + n
  /\ UNCHANGED made

Lose ==
  /\ passed' \in passed..made
  /\ UNCHANGED <<made, dst>>

Next ==
  \/ Make \/ Lose
  \/ \E lo \in passed..made : \E n \in 0..(made - lo) : Take(lo, n)

Spec == Init /\ [][Next]_vars
=============================================================================
