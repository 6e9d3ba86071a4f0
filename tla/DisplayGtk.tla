----------------------------- MODULE DisplayGtk -----------------------------
(***************************************************************************)
(* The display of GNOME (frontends/gnome/display.c) over the frame slot:   *)
(* the frame clock polls the slot while somebody can see the result, into  *)
(* a buffer of a pool. A texture borrows the buffer until the renderer has *)
(* dropped it, which may be after the widget is gone.                      *)
(*                                                                         *)
(* Of FrameSlot the feed is not used: no callback is registered.           *)
(***************************************************************************)
EXTENDS FrameSlot, Sequences, SequencesExt, FiniteSets

CONSTANTS
  Buffers,     \* pictures that memory holds at once, in an instance
  PoolKeep,
  NoBuffer

VARIABLES
  mapped, suspended, disposed,
  ticking,     \* the tick of the frame clock is there (tick_id)
  spare,       \* the pool's idle buffers
  loans,       \* the buffers that textures borrow
  pool_refs,   \* 0: the pool is freed
  texture,     \* the buffer of the widget's texture
  content,     \* the picture in a buffer
  lent         \* history: the picture a buffer was lent with

pool == <<spare, loans, pool_refs, texture, content, lent>>
display == <<mapped, suspended, disposed, ticking>>
gtkVars == <<frameVars, display, pool>>

GtkTypeOK ==
  /\ FrameTypeOK
  /\ mapped \in BOOLEAN /\ suspended \in BOOLEAN /\ disposed \in BOOLEAN /\ ticking \in BOOLEAN
  /\ spare \in Seq(Buffers) /\ loans \subseteq Buffers /\ pool_refs \in Nat
  /\ texture \in Buffers \cup {NoBuffer}
  /\ content \in [Buffers -> Pictures] /\ lent \in [Buffers -> Pictures]

GtkInit ==
  /\ FrameInit
  /\ mapped = FALSE /\ suspended = FALSE /\ disposed = FALSE /\ ticking = FALSE
  /\ spare = <<>> /\ loans = {} /\ pool_refs = 1 /\ texture = NoBuffer
  /\ content = [b \in Buffers |-> s_frame] /\ lent = content

-----------------------------------------------------------------------------
(* The pool. *)

\* What pool_take may return: the last spare one, or memory nobody uses.
Taken == IF spare # <<>> THEN {Last(spare)} ELSE Buffers \ loans
AfterTake == IF spare # <<>> THEN Front(spare) ELSE spare


\* pool_give, to the pool that is left
Given(rest, px) == IF Len(rest) < PoolKeep THEN Append(rest, px) ELSE rest

\* tick_cb with a new picture: the old texture keeps its loan until it is dropped.
TickNew(px) ==
  /\ m_serial # s_frame_serial
  /\ FrameCopy
  /\ content' = [content EXCEPT ![px] = s_frame] /\ lent' = [lent EXCEPT ![px] = s_frame]
  /\ texture' = px /\ loans' = loans \cup {px} /\ pool_refs' = pool_refs + 1
  /\ spare' = AfterTake

TickOld(px) ==
  /\ m_serial = s_frame_serial
  /\ spare' = Given(AfterTake, px)
  /\ UNCHANGED <<widget, loans, pool_refs, texture, content, lent>>

tick_cb ==
  /\ ticking
  /\ \E px \in Taken : TickNew(px) \/ TickOld(px)
  /\ UNCHANGED <<host, feed, gui, display>>

\* loan_release; the pool is freed with its last reference.
Release(b) ==
  /\ spare' = IF pool_refs = 1 THEN <<>> ELSE Given(spare, b)
  /\ loans' = loans \ {b}
  /\ pool_refs' = pool_refs - 1

\* The renderer drops a texture that was replaced.
Drop(b) ==
  /\ b \in loans \ {texture}
  /\ Release(b)
  /\ UNCHANGED <<frameVars, display, texture, content, lent>>

Drops == \E b \in Buffers : Drop(b)

-----------------------------------------------------------------------------
(* The widget. *)

\* update_tick
Ticks == ticking' = (mapped' /\ ~suspended')

Map ==
  /\ ~mapped /\ ~disposed
  /\ mapped' = TRUE /\ UNCHANGED <<suspended, disposed>> /\ Ticks
  /\ UNCHANGED <<frameVars, pool>>

Unmap ==
  /\ mapped
  /\ mapped' = FALSE /\ UNCHANGED <<suspended, disposed>> /\ Ticks
  /\ UNCHANGED <<frameVars, pool>>

\* notify::suspended, followed while the widget is mapped
Suspend ==
  /\ suspended' = ~suspended /\ UNCHANGED <<mapped, disposed>>
  /\ IF mapped THEN Ticks ELSE UNCHANGED ticking
  /\ UNCHANGED <<frameVars, pool>>

\* astro_display_dispose, of a widget that was unmapped
Dispose ==
  /\ ~disposed /\ ~mapped
  /\ disposed' = TRUE /\ ticking' = FALSE
  /\ texture' = NoBuffer
  /\ pool_refs' = pool_refs - 1
  /\ spare' = IF pool_refs = 1 THEN <<>> ELSE spare
  /\ UNCHANGED <<mapped, suspended, frameVars, loans, content, lent>>

Session == (\E p \in Pictures : Publish(p)) \/ LockCallback \/ HostStart \/ HostStop

GtkNext ==
  \/ tick_cb \/ Drops
  \/ Map \/ Unmap \/ Suspend \/ Dispose
  \/ Session /\ UNCHANGED <<display, pool>>

\* The clock ticks, and the renderer drops what was replaced.
GtkFairness == WF_gtkVars(tick_cb) /\ WF_gtkVars(Drops)

GtkSpec == GtkInit /\ [][GtkNext]_gtkVars /\ GtkFairness

-----------------------------------------------------------------------------
\* A buffer is in one place: while a texture borrows it it is not spare, nor
\* written, and the pool it will come back to is there, whatever the renderer
\* still holds as the widget goes ("the buffer returns to the pool when GSK drops
\* the texture's bytes, possibly after the widget is gone").
BuffersAreSafe ==
  /\ IsInjective(spare) /\ ToSet(spare) \cap loans = {}
  /\ \A b \in loans : content[b] = lent[b]
  /\ pool_refs = Cardinality(loans) + (IF disposed THEN 0 ELSE 1)
  /\ texture # NoBuffer => texture \in loans /\ content[texture] = shown

\* What goes away is not used any more: a callback that was unregistered is not
\* called (the slot's part), and a buffer's pool is there until it is back.
NothingIsUsedAfter == NoCallAfterUnregister /\ BuffersAreSafe
=============================================================================
