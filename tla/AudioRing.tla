------------------------------ MODULE AudioRing ------------------------------
(***************************************************************************)
(* The audio ring of core/astro/host.c between the machine thread, which    *)
(* publishes a frame's samples at a time, and the audio thread of           *)
(* core/src/audio_sdl.c, which asks for as many as the device wants.        *)
(*                                                                          *)
(* Both work under s_audio_lock, so each call is one step. A sample is the  *)
(* number of its making, which is all the order of the stream needs.        *)
(***************************************************************************)
EXTENDS Integers

CONSTANTS
  Capacity,       \* RING_CAPACITY
  Target,         \* RING_TARGET_SAMPLES
  Highwater,      \* RING_HIGHWATER_SAMPLES
  MaxBurst,       \* samples published at once, at most
  MaxWanted,      \* samples asked for at once, at most
  MaxMade         \* samples made in all, at most

ASSUME SizesAssumption ==
  /\ Capacity \in Nat /\ Target \in Nat /\ Highwater \in Nat
  /\ 0 < Target /\ Target <= Highwater /\ Highwater < Capacity
ASSUME BoundsAssumption ==
  MaxBurst \in Nat /\ MaxWanted \in Nat /\ MaxMade \in Nat

VARIABLES
  s_ring,         \* the numbers of the samples; 0 in a cell never written
  s_head,         \* where the next sample goes
  s_count,        \* samples not read yet
  s_primed,
  (* history *)
  made,           \* samples made since the program began
  dst,            \* what the last copy that gave anything gave
  asked           \* how many it was asked for

vars == <<s_ring, s_head, s_count, s_primed, made, dst, asked>>

Cells == 0..(Capacity - 1)

TypeOK ==
  /\ s_ring \in [Cells -> Nat]
  /\ s_head \in Cells
  /\ s_count \in 0..Capacity
  /\ s_primed \in BOOLEAN
  /\ made \in Nat
  /\ asked \in Nat

Init ==
  /\ s_ring = [c \in Cells |-> 0]
  /\ s_head = 0 /\ s_count = 0 /\ s_primed = FALSE
  /\ made = 0 /\ dst = [i \in {} |-> 0] /\ asked = 0

-----------------------------------------------------------------------------
Least(a, b) == IF a < b THEN a ELSE b

\* Faulty: the count runs past the ring.
CountUnclamped(k) == s_count + k

\* s_count += count, and no more than the ring holds
CountAfter(k) == Least(s_count + k, Capacity)

\* Faulty: an over-long burst keeps its beginning.
KeptFirst(n) == 1

\* The first sample kept of a burst of n: only the end of one longer than the
\* ring is.
FirstKept(n) == IF n > Capacity THEN n - Capacity + 1 ELSE 1

\* audio_publish: write the burst at the head, over the oldest samples.
AudioPublish(n) ==
  LET k == Least(n, Capacity)
      at(c) == (c - s_head) % Capacity
  IN  /\ made + n <= MaxMade
      /\ s_ring' = [c \in Cells |-> IF at(c) < k
                                      THEN made + FirstKept(n) + at(c)
                                      ELSE s_ring[c]]
      /\ s_head' = (s_head + k) % Capacity
      /\ s_count' = CountAfter(k)
      /\ made' = made + n
      /\ UNCHANGED <<s_primed, dst, asked>>

\* Faulty: no lag is ever caught up.
Untrimmed == s_count

\* the backlog left after the lag is caught up
Trimmed == IF s_count > Highwater THEN Target ELSE s_count

\* Faulty: read from the head.
ReadFromHead(count) == s_head

\* the oldest of the newest count samples
ReadPos(count) == (s_head - count) % Capacity

\* Faulty: primed by anything at all.
OpensAtOnce(count) == count > 0

\* the prime gate
GateOpen(count) == s_primed \/ count >= Target

\* astro_host_audio_copy
AudioCopy(max) ==
  LET n == Least(max, Trimmed) IN
  IF GateOpen(Trimmed)
    THEN /\ dst' = [i \in 0..(n - 1) |-> s_ring[(ReadPos(Trimmed) + i) % Capacity]]
         /\ asked' = max
         /\ s_count' = Trimmed - n
         /\ s_primed' = (Trimmed - n # 0)
         /\ UNCHANGED <<s_ring, s_head, made>>
    ELSE /\ s_count' = Trimmed
         /\ UNCHANGED <<s_ring, s_head, s_primed, made, dst, asked>>

\* Faulty: a reset that leaves the gate open.
ResetPrimed ==
  /\ s_head' = 0 /\ s_count' = 0
  /\ UNCHANGED <<s_ring, s_primed, made, dst, asked>>

\* astro_host_audio_reset
AudioReset ==
  /\ s_head' = 0 /\ s_count' = 0 /\ s_primed' = FALSE
  /\ UNCHANGED <<s_ring, made, dst, asked>>

Next ==
  \/ \E n \in 1..MaxBurst : AudioPublish(n)
  \/ \E max \in 1..MaxWanted : AudioCopy(max)
  \/ AudioReset

Spec == Init /\ [][Next]_vars

-----------------------------------------------------------------------------
\* What is unread is the newest samples made, in order, across every wrap,
\* overrun, trim and over-long burst.
HoldsTheNewest ==
  \A i \in 0..(s_count - 1) :
    s_ring[(s_head - s_count + i) % Capacity] = made - s_count + 1 + i

\* The gate never stays open on an empty ring, where it would dribble the next
\* burst out sample by sample.
PrimedHasSamples == s_primed => s_count > 0

\* A copy gives all it was asked for, or all there is; and what it gives after
\* silence starts with a whole target behind it.
NoDribble ==
  [][dst' # dst =>
       \E n \in 0..MaxWanted :
         /\ DOMAIN dst' = 0..(n - 1)
         /\ s_count' # 0 => n = asked'
         /\ s_primed \/ s_count' + n >= Target]_vars

\* Sound is never further behind the machine than the high-water mark.
LagIsBounded ==
  [][dst' # dst /\ 0 \in DOMAIN dst' => made - dst'[0] < Highwater]_vars

\* What the device hears is neither late nor broken up.
HeardInTime == LagIsBounded /\ NoDribble

\* The device hears the stream in order, each sample at most once.
Fifo == INSTANCE AudioFifo WITH passed <- made - s_count
FifoSpec == Fifo!Spec
=============================================================================
