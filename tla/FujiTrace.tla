----------------------------- MODULE FujiTrace -----------------------------
(***************************************************************************)
(* The debugger's FujiNet trace: the cartridge re-encodes what it sends and *)
(* receives (core/astro/fujinet_cart.c), the trace decodes it and folds the *)
(* repeats (core/debugger/fujitrace.c), and a window redraws its list only  *)
(* when its newest serial has moved (refreshFujinet of the KDE debugger).   *)
(*                                                                          *)
(* The tap, the copy and the clear hold fuji_mtx: one step each. The ring   *)
(* is a sequence, the oldest first. The hash tells packets apart as their   *)
(* bytes do. What a line of the list says is fixed by the entry it shows.   *)
(***************************************************************************)
EXTENDS Integers, Sequences, SequencesExt

CONSTANTS
  Sent, Received,      \* the packets of each direction, as their bytes
  TraceMax,            \* FUJITRACE_MAX, and the window's TRACE_MAX
  MaxPackets           \* bound: packets in a run

END == 192
ESC == 219
ESC_END == 220
ESC_ESC == 221

VARIABLES
  ring, pending,       \* of [to_host, data, repeat, serial]
  serial,
  listed, m_fujiCount, m_fujiLast,   \* the window
  forced,              \* it has cleared the trace and draws it next
  fed,                 \* history: every packet since the trace was cleared
  fallen               \* history: how many of each the ring has dropped

trace == <<ring, pending, serial>>
view == <<listed, m_fujiCount, m_fujiLast, forced>>
told == <<fed, fallen>>
traceVars == <<trace, view, told>>

Packets == (Sent \X {FALSE}) \cup (Received \X {TRUE})
Entries == [to_host : BOOLEAN, data : Sent \cup Received,
            repeat : 1..MaxPackets, serial : 1..MaxPackets]
NoEntry == <<>>

\* A packet has at least its header.
TraceBounds ==
  TraceMax \in Nat \ {0} /\ Sent \cup Received \subseteq Seq(Nat) \ {<<>>}

TraceTypeOK ==
  /\ ring \in Seq(Entries) /\ Len(ring) <= TraceMax
  /\ pending \in Entries \cup {NoEntry}
  /\ serial \in 0..MaxPackets
  /\ listed \in Seq(Entries)
  /\ m_fujiCount \in -1..TraceMax /\ m_fujiLast \in 0..MaxPackets
  /\ forced \in BOOLEAN
  /\ fed \in Seq(Packets)
  /\ fallen \in [Packets -> 0..MaxPackets]

TraceInit ==
  /\ ring = <<>> /\ pending = NoEntry /\ serial = 0
  /\ listed = <<>> /\ m_fujiCount = -1 /\ m_fujiLast = 0 /\ forced = FALSE
  /\ fed = <<>> /\ fallen = [p \in Packets |-> 0]

-----------------------------------------------------------------------------
(* From packet to bytes and back. *)

\* trace_received, after its header
Slip(data) ==
  LET Escaped(b) == CASE b = END -> <<ESC, ESC_END>>
                      [] b = ESC -> <<ESC, ESC_ESC>>
                      [] OTHER -> <<b>>
  IN  <<END>> \o FoldLeft(LAMBDA out, b : out \o Escaped(b), <<>>, data) \o <<END>>

\* One byte of fujitrace_feed. frames are what frame_done was given.
Unslip(s, b) ==
  CASE b = END -> [acc |-> <<>>, esc |-> FALSE,
                   frames |-> IF s.acc = <<>> THEN s.frames ELSE Append(s.frames, s.acc)]
    [] b # END /\ s.esc ->
         [s EXCEPT !.acc = Append(@, CASE b = ESC_END -> END
                                       [] b = ESC_ESC -> ESC
                                       [] OTHER -> b),
                   !.esc = FALSE]
    [] b = ESC /\ ~s.esc -> [s EXCEPT !.esc = TRUE]
    [] OTHER -> [s EXCEPT !.acc = Append(@, b)]

Frames(bytes) ==
  FoldLeft(Unslip, [acc |-> <<>>, esc |-> FALSE, frames |-> <<>>], bytes).frames

-----------------------------------------------------------------------------
(* Folding. A trace t is [ring, pending, serial, fallen]. *)

Same(a, b) == a.to_host = b.to_host /\ a.data = b.data
Key(e) == <<e.data, e.to_host>>
Bumped(e) == [e EXCEPT !.repeat = @ + 1]

Push(t, e) ==
  IF Len(t.ring) < TraceMax
    THEN [t EXCEPT !.ring = Append(@, e)]
    ELSE [t EXCEPT !.ring = Append(Tail(@), e),
                   !.fallen[Key(Head(t.ring))] = @ + Head(t.ring).repeat]

\* add, once nothing is held back
AddPlain(t, entry) ==
  LET n == Len(t.ring)
      e == [entry EXCEPT !.serial = t.serial + 1]
      u == [t EXCEPT !.serial = @ + 1]
  IN  CASE n >= 1 /\ Same(e, t.ring[n]) ->
             [u EXCEPT !.ring[n] = [Bumped(@) EXCEPT !.serial = e.serial]]
        [] /\ n >= 2 /\ Same(e, t.ring[n - 1]) /\ ~Same(e, t.ring[n])
           /\ t.ring[n - 1].repeat = t.ring[n].repeat ->
             [u EXCEPT !.pending = e]
        [] OTHER -> Push(u, e)

\* Faulty: a repeated exchange leaves the newest serial where it was.
AddQuietly(t, e) ==
  LET n == Len(t.ring)
      u == [t EXCEPT !.pending = NoEntry]
  IN  CASE t.pending = NoEntry -> AddPlain(t, e)
        [] t.pending # NoEntry /\ Same(e, t.ring[n]) ->
             [u EXCEPT !.ring[n - 1] = Bumped(@), !.ring[n] = Bumped(@)]
        [] OTHER -> AddPlain(Push(u, t.pending), e)

\* Faulty: a half-seen exchange that does not repeat is forgotten.
AddForgetting(t, e) ==
  LET n == Len(t.ring)
      u == [t EXCEPT !.pending = NoEntry]
  IN  CASE t.pending = NoEntry -> AddPlain(t, e)
        [] t.pending # NoEntry /\ Same(e, t.ring[n]) ->
             [u EXCEPT !.serial = @ + 1,
                       !.ring[n - 1] = Bumped(@),
                       !.ring[n] = [Bumped(@) EXCEPT !.serial = t.serial + 1]]
        [] OTHER -> AddPlain(u, e)

\* add: an exchange held back meets its partner or joins the ring
Add(t, e) ==
  LET n == Len(t.ring)
      u == [t EXCEPT !.pending = NoEntry]
  IN  CASE t.pending = NoEntry -> AddPlain(t, e)
        [] t.pending # NoEntry /\ Same(e, t.ring[n]) ->
             [u EXCEPT !.serial = @ + 1,
                       !.ring[n - 1] = Bumped(@),
                       !.ring[n] = [Bumped(@) EXCEPT !.serial = t.serial + 1]]
        [] OTHER -> AddPlain(Push(u, t.pending), e)

Trace == [ring |-> ring, pending |-> pending, serial |-> serial, fallen |-> fallen]

\* fuji_tap: every frame of the bytes is added
Feed(to_host, bytes) ==
  LET Entry(data) == [to_host |-> to_host, data |-> data, repeat |-> 1, serial |-> 1]
      t == FoldLeft(LAMBDA u, data : Add(u, Entry(data)), Trace, Frames(bytes))
  IN  /\ ring' = t.ring /\ pending' = t.pending
      /\ serial' = t.serial /\ fallen' = t.fallen

\* c_transact, c_send_bare and the stream callbacks, as the trace sees them
Tap(p) ==
  /\ serial < MaxPackets
  /\ Feed(p[2], Slip(p[1]))
  /\ fed' = Append(fed, p)
  /\ UNCHANGED view

-----------------------------------------------------------------------------
(* The window. *)

\* fujitrace_copy: the newest TraceMax, the one held back last
Copy ==
  LET all == IF pending = NoEntry THEN ring ELSE Append(ring, pending)
  IN  IF Len(all) > TraceMax THEN Tail(all) ELSE all

\* refreshFujinet, its list
Refresh ==
  /\ forced' = FALSE
  /\ IF forced \/ Len(Copy) # m_fujiCount
               \/ (Copy # <<>> /\ Last(Copy).serial # m_fujiLast)
       THEN /\ listed' = Copy
            /\ m_fujiCount' = Len(Copy)
            /\ m_fujiLast' = IF Copy = <<>> THEN 0 ELSE Last(Copy).serial
       ELSE UNCHANGED <<listed, m_fujiCount, m_fujiLast>>
  /\ UNCHANGED <<trace, told>>

\* The Clear button, up to its forced refresh: fujitrace_clear. Serials go on.
ClearButton ==
  /\ ~forced /\ forced' = TRUE
  /\ ring' = <<>> /\ pending' = NoEntry
  /\ fed' = <<>> /\ fallen' = [p \in Packets |-> 0]
  /\ UNCHANGED <<serial, listed, m_fujiCount, m_fujiLast>>

TraceNext == (\E p \in Packets : Tap(p)) \/ Refresh \/ ClearButton

TraceSpec == TraceInit /\ [][TraceNext]_traceVars

-----------------------------------------------------------------------------
Times(p, entries) ==
  FoldLeft(LAMBDA n, e : n + (IF Key(e) = p THEN e.repeat ELSE 0), 0, entries)
Fed(p) == Cardinality({i \in DOMAIN fed : fed[i] = p})

\* However packets were folded, held back and dropped, each is counted once,
\* decoded to what was sent; and the newest line is the newest packet.
CountsAddUp ==
  /\ \A p \in Packets :
       Times(p, ring) + Times(p, IF pending = NoEntry THEN <<>> ELSE <<pending>>)
         + fallen[p] = Fed(p)
  /\ fed # <<>> => Key(Last(Copy)) = Last(fed)

\* A window that need not redraw shows the trace: no fold leaves both the number
\* of lines and the newest serial as they were.
SameMarkSameTrace ==
  (Len(Copy) = m_fujiCount /\ (Copy # <<>> => Last(Copy).serial = m_fujiLast))
    => listed = Copy

\* Both: the list tells the trace, and the trace what was on the wire.
TraceIsTrue == CountsAddUp /\ SameMarkSameTrace
=============================================================================
