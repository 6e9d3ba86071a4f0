-------------------------------- MODULE Cart --------------------------------
(***************************************************************************)
(* The FujiNet cartridge (core/astro/fujinet_cart.c): what the console      *)
(* reads, the mailbox published into the served window, the image pushed    *)
(* over the link while another one is served, and the swap.                 *)
(*                                                                          *)
(* All of it runs on the machine thread, inside a read of the bus: a read   *)
(* of the command hotspot is a transaction with the FujiNet, during which   *)
(* the link pushes streams (0: an image, 1: its .cfg) and may drop. The     *)
(* window's bytes are one tag, the image they come from, but for the        *)
(* mailbox registers, which hold the image's own bytes or what was last     *)
(* published. fujimail.c and astromap.c are the firmware's, staged by the   *)
(* build: what they do is taken from how the device uses them. Memory does  *)
(* not run out here.                                                        *)
(***************************************************************************)
EXTENDS Naturals, Sequences

CONSTANTS
  Images, NoImage,
  Config,          \* the baked client, served when no image is given
  Kind,            \* what astromap_plan makes of an image
  Claims,          \* the image carries the mailbox's signature
  Pages,           \* its 4K pages
  Chunks           \* the writes an image is pushed in

\* What an instance gives: the kinds of images are told apart, a game of 256K or
\* 512K claims nothing (fujinet_cart.h:15-16), the baked client is a mailbox
\* client of 8K.
CartAssumptions ==
  /\ NoImage \notin Images /\ Config \in Images
  /\ Kind \in [Images -> {"flat", "app", "game", "nomap"}]
  /\ Claims \in [Images -> BOOLEAN]
  /\ \A i \in Images : Kind[i] = "game" => ~Claims[i]
  /\ Pages \in [Images -> Nat \ {0, 1}]
  /\ Chunks \in Nat \ {0}
  /\ Kind[Config] = "flat" /\ Claims[Config]

VARIABLES
  started,
  window,          \* the image whose 8K the window holds
  regs,            \* the mailbox registers in the window
  image,           \* the full image of a banked kind
  bank,            \* what each half of the window is served from
  hot,             \* a game's bank hotspot is decoded
  app_npages,      \* pages the bank select may choose of
  mailbox_live,
  have_staged, swap_armed,
  staged,          \* the image whose 8K is staged
  staged_regs,     \* the mailbox registers in the staged 8K
  staged_image,    \* the full image staged
  rx,              \* the chunks each stream has received
  (* fujimail and the link, external *)
  busy,            \* a transaction is under way
  boot,            \* the state of the boot push, as fujimail has it
  status,          \* the result of the last transaction, as fujimail has it
  pushing          \* what each stream pushes, and how many chunks were sent

serving == <<window, image, bank, hot, app_npages, mailbox_live>>
staging == <<have_staged, swap_armed, staged, staged_image>>
mail == <<busy, boot, status, pushing>>
cartVars == <<started, serving, regs, staging, staged_regs, rx, mail>>

Regs == {"boot", "status"}
Values == {"own", "idle", "xfer", "ready", "failed", "up", "down"}
Own == [r \in Regs |-> "own"]
Streams == {0, 1}
Halves == {0, 1}
Source == [src : {"window", "image"}, page : Nat]
Chunk == [of : Images, n : 1..Chunks]
Whole(i) == [n \in 1..Chunks |-> [of |-> i, n |-> n]]
NotPushing == [of |-> NoImage, n |-> 0]

CartTypeOK ==
  /\ started \in BOOLEAN /\ mailbox_live \in BOOLEAN
  /\ have_staged \in BOOLEAN /\ swap_armed \in BOOLEAN /\ hot \in BOOLEAN
  /\ {window, image, staged, staged_image} \subseteq Images \cup {NoImage}
  /\ regs \in [Regs -> Values] /\ staged_regs \in [Regs -> Values]
  /\ bank \in [Halves -> Source]
  /\ app_npages \in Nat
  /\ rx \in [Streams -> Seq(Chunk)]
  /\ busy \in BOOLEAN
  /\ boot \in {"idle", "xfer", "ready", "failed"}
  /\ status \in {"up", "down"}
  /\ pushing \in [Streams -> [of : Images \cup {NoImage}, n : 0..Chunks]]

InWindow(page) == [src |-> "window", page |-> page]
InImage(page) == [src |-> "image", page |-> page]

\* astro_machine_init's memset
CartInit ==
  /\ started = FALSE /\ mailbox_live = FALSE
  /\ window = NoImage /\ regs = Own /\ image = NoImage
  /\ bank = [h \in Halves |-> InWindow(h)]
  /\ hot = FALSE /\ app_npages = 0
  /\ have_staged = FALSE /\ swap_armed = FALSE
  /\ staged = NoImage /\ staged_regs = Own /\ staged_image = NoImage
  /\ rx = [s \in Streams |-> <<>>]
  /\ busy = FALSE /\ boot = "idle" /\ status = "down"
  /\ pushing = [s \in Streams |-> NotPushing]

-----------------------------------------------------------------------------
(* Pieces. *)

\* apply_serving: which memory each half of the window is served from
ApplyServing(i) ==
  /\ bank' = CASE Kind[i] = "app" -> [h \in Halves |-> IF h = 0 THEN InImage(0)
                                                       ELSE InWindow(1)]
               [] Kind[i] = "game" -> [h \in Halves |-> InImage(h)]
               [] OTHER -> [h \in Halves |-> InWindow(h)]
  /\ hot' = (Kind[i] = "game")
  /\ app_npages' = IF Kind[i] = "app" THEN Pages[i] ELSE 0

\* Faulty: the window served is let go of as soon as an image is staged.
PokeOne(r, v) ==
  /\ regs' = IF have_staged THEN regs ELSE [regs EXCEPT ![r] = v]
  /\ staged_regs' = IF have_staged /\ Claims[staged]
                      THEN [staged_regs EXCEPT ![r] = v] ELSE staged_regs

\* cart_poke: fujimail publishes a register
CartPoke(r, v) ==
  /\ regs' = [regs EXCEPT ![r] = v]
  /\ staged_regs' = IF have_staged /\ Claims[staged]
                      THEN [staged_regs EXCEPT ![r] = v] ELSE staged_regs

\* fujimail_paint: every register again
Painted == [r \in Regs |-> IF r = "boot" THEN boot ELSE status]

-----------------------------------------------------------------------------
(* Lifecycle: the machine thread as it begins, the GUI thread after the     *)
(* join. A console RESET touches nothing here.                              *)

\* astro_cart_start
CartStart(i) ==
  /\ ~started
  /\ started' = TRUE
  /\ \/ /\ Kind[i] = "nomap"
        /\ window' = i            \* 0xff throughout
        /\ mailbox_live' = FALSE
        /\ UNCHANGED <<image, bank, hot, app_npages>>
     \/ /\ Kind[i] # "nomap"
        /\ window' = i
        /\ image' = IF Kind[i] = "flat" THEN NoImage ELSE i
        /\ ApplyServing(i)
        /\ mailbox_live' = Claims[i]
  /\ boot' = "idle" /\ status' = "down"
  /\ regs' = IF mailbox_live' THEN [r \in Regs |-> IF r = "boot" THEN "idle" ELSE "down"]
             ELSE Own
  /\ UNCHANGED <<staging, staged_regs, rx, busy, pushing>>

\* Faulty: what was staged stays.
CartStopPartly ==
  /\ started /\ ~busy
  /\ started' = FALSE /\ mailbox_live' = FALSE
  /\ window' = NoImage /\ regs' = Own /\ image' = NoImage
  /\ bank' = [h \in Halves |-> InWindow(h)]
  /\ hot' = FALSE /\ app_npages' = 0
  /\ rx' = [s \in Streams |-> <<>>]
  /\ pushing' = [s \in Streams |-> NotPushing]
  /\ UNCHANGED <<staging, staged_regs, busy, boot, status>>

\* astro_cart_stop
CartStop ==
  /\ started /\ ~busy
  /\ started' = FALSE /\ mailbox_live' = FALSE
  /\ window' = NoImage /\ regs' = Own /\ image' = NoImage
  /\ bank' = [h \in Halves |-> InWindow(h)]
  /\ hot' = FALSE /\ app_npages' = 0
  /\ have_staged' = FALSE /\ swap_armed' = FALSE
  /\ staged' = NoImage /\ staged_regs' = Own /\ staged_image' = NoImage
  /\ rx' = [s \in Streams |-> <<>>]
  /\ pushing' = [s \in Streams |-> NotPushing]
  /\ UNCHANGED <<busy, boot, status>>

-----------------------------------------------------------------------------
(* A transaction: fujimail_read_hotspot, c_transact and what the link does  *)
(* meanwhile.                                                               *)

\* The console sends a command. fujitcp_transact fails at once on a dead link.
Transact ==
  /\ started /\ mailbox_live /\ ~busy
  /\ busy' = TRUE
  /\ UNCHANGED <<started, serving, regs, staging, staged_regs, rx, boot, status,
                 pushing>>

\* Its end: a reply, or a dropped link or a timeout; fujimail publishes the
\* result. What a dropped link was pushing never goes on.
TransactDone(v) ==
  /\ busy
  /\ busy' = FALSE
  /\ status' = v
  /\ CartPoke("status", v)
  /\ pushing' = IF v = "up" THEN pushing ELSE [s \in Streams |-> NotPushing]
  /\ UNCHANGED <<started, serving, staging, rx, boot>>

\* Faulty: what an earlier push left is kept.
OpenOntoRest(s, i) ==
  /\ busy
  /\ pushing[s] = NotPushing
  /\ UNCHANGED rx
  /\ pushing' = [pushing EXCEPT ![s] = [of |-> i, n |-> 0]]
  /\ \/ s = 0 /\ boot' = "xfer" /\ CartPoke("boot", "xfer")
     \/ s = 1 /\ UNCHANGED <<boot, regs, staged_regs>>
  /\ UNCHANGED <<started, serving, staging, busy, status>>

\* c_stream_open: rx_clear and rx_reserve, then fujimail says it receives
StreamOpen(s, i) ==
  /\ busy
  /\ pushing[s] = NotPushing
  /\ rx' = [rx EXCEPT ![s] = <<>>]
  /\ pushing' = [pushing EXCEPT ![s] = [of |-> i, n |-> 0]]
  /\ \/ s = 0 /\ boot' = "xfer" /\ CartPoke("boot", "xfer")
     \/ s = 1 /\ UNCHANGED <<boot, regs, staged_regs>>
  /\ UNCHANGED <<started, serving, staging, busy, status>>

\* ... refused by astromap_gate before anything is touched: fujimail publishes
\* the failure and drops what the FujiNet sends of the stream
StreamRefused ==
  /\ busy
  /\ pushing[0] = NotPushing
  /\ boot' = "failed"
  /\ CartPoke("boot", "failed")
  /\ UNCHANGED <<started, serving, staging, rx, busy, status, pushing>>

ChunkSent(s) == [pushing EXCEPT ![s].n = @ + 1]
NextChunk(s) == [of |-> pushing[s].of, n |-> pushing[s].n + 1]

\* c_stream_write: rx_append
StreamWrite(s) ==
  /\ busy
  /\ pushing[s].of # NoImage
  /\ pushing[s].n < Chunks
  /\ pushing' = ChunkSent(s)
  /\ rx' = [rx EXCEPT ![s] = Append(@, NextChunk(s))]
  /\ UNCHANGED <<started, serving, regs, staging, staged_regs, busy, boot, status>>

\* c_stream_close of a stream given up, or of the .cfg: nothing is kept, and
\* what was staged before stays.
StreamDropped(s, aborted) ==
  /\ busy
  /\ pushing[s].of # NoImage
  /\ aborted \/ s = 1
  /\ rx' = [rx EXCEPT ![s] = <<>>]
  /\ pushing' = [pushing EXCEPT ![s] = NotPushing]
  /\ \/ s = 0 /\ boot' = "failed" /\ CartPoke("boot", "failed")
     \/ s = 1 /\ UNCHANGED <<boot, regs, staged_regs>>
  /\ UNCHANGED <<started, serving, staging, busy, status>>

\* The image that astromap_plan finds in the buffer: what its front is of.
Planned == rx[0][1].of

\* ... of an image no mapper fits: FN_BOOT_ERR_NOMAP
StreamUnmapped ==
  /\ busy
  /\ pushing[0].n = Chunks
  /\ Kind[Planned] = "nomap"
  /\ rx' = [rx EXCEPT ![0] = <<>>]
  /\ pushing' = [pushing EXCEPT ![0] = NotPushing]
  /\ boot' = "failed"
  /\ CartPoke("boot", "failed")
  /\ UNCHANGED <<started, serving, staging, busy, status>>

\* ... of a whole image: it is staged, unpublished as yet, and then fujimail
\* tells the console, in the window served and in the staged one if that
\* claims the mailbox.
StreamStaged ==
  /\ busy
  /\ pushing[0].n = Chunks
  /\ Kind[Planned] # "nomap"
  /\ staged' = Planned
  /\ staged_image' = IF Kind[Planned] = "flat" THEN NoImage ELSE Planned
  /\ have_staged' = TRUE
  /\ rx' = [rx EXCEPT ![0] = <<>>]
  /\ pushing' = [pushing EXCEPT ![0] = NotPushing]
  /\ boot' = "ready"
  /\ regs' = [regs EXCEPT !["boot"] = "ready"]
  /\ staged_regs' = IF Claims[Planned] THEN [Own EXCEPT !["boot"] = "ready"] ELSE Own
  /\ UNCHANGED <<started, serving, swap_armed, busy, status>>

\* c_arm_swap
ArmSwap ==
  /\ busy
  /\ have_staged
  /\ swap_armed' = TRUE
  /\ UNCHANGED <<started, serving, regs, have_staged, staged, staged_image,
                 staged_regs, rx, mail>>

-----------------------------------------------------------------------------
(* The bus: astro_cart_read with commit. The debugger's read, without it,   *)
(* changes nothing.                                                         *)

\* Faulty: the halves go on being served from where they were.
SwapWindowOnly ==
  /\ started /\ ~busy
  /\ swap_armed
  /\ window' = staged
  /\ image' = staged_image
  /\ staged_image' = NoImage
  /\ UNCHANGED <<bank, hot, app_npages>>
  /\ swap_armed' = FALSE
  /\ have_staged' = FALSE
  /\ mailbox_live' = Claims[staged]
  /\ regs' = IF Claims[staged] THEN Painted ELSE staged_regs
  /\ UNCHANGED <<started, staged, staged_regs, rx, mail>>

\* do_swap, at the swap hotspot
DoSwap ==
  /\ started /\ ~busy
  /\ swap_armed
  /\ window' = staged
  /\ image' = staged_image
  /\ staged_image' = NoImage
  /\ ApplyServing(staged)
  /\ swap_armed' = FALSE
  /\ have_staged' = FALSE
  /\ mailbox_live' = Claims[staged]
  /\ regs' = IF Claims[staged] THEN Painted ELSE staged_regs
  /\ UNCHANGED <<started, staged, staged_regs, rx, mail>>

\* the bank select of an app: the low half
BankSelect(page) ==
  /\ started /\ ~busy
  /\ page < app_npages
  /\ bank' = [bank EXCEPT ![0] = InImage(page)]
  /\ UNCHANGED <<started, window, image, hot, app_npages, mailbox_live, regs,
                 staging, staged_regs, rx, mail>>

\* a game's bank hotspot: the high half
BankHot(page) ==
  /\ started /\ ~busy
  /\ hot
  /\ page < Pages[image]
  /\ bank' = [bank EXCEPT ![1] = InImage(page)]
  /\ UNCHANGED <<started, window, image, hot, app_npages, mailbox_live, regs,
                 staging, staged_regs, rx, mail>>

-----------------------------------------------------------------------------
Link ==
  \/ \E v \in {"up", "down"} : TransactDone(v)
  \/ \E s \in Streams, i \in Images : StreamOpen(s, i)
  \/ \E s \in Streams : StreamWrite(s)
  \/ \E s \in Streams, aborted \in BOOLEAN : StreamDropped(s, aborted)
  \/ StreamRefused \/ StreamUnmapped \/ StreamStaged \/ ArmSwap

Bus ==
  \/ Transact \/ DoSwap
  \/ \E i \in Images : \E page \in 0..(Pages[i] - 1) : BankSelect(page) \/ BankHot(page)

CartNext == Link \/ Bus \/ (\E i \in Images : CartStart(i)) \/ CartStop

CartSpec == CartInit /\ [][CartNext]_cartVars

-----------------------------------------------------------------------------
(* Properties. *)

\* At every read both halves, and the banks a game or an app selects, are of the
\* image in the window: whatever is being pushed or staged, and on either side
\* of a swap. No half is served from memory that is gone.
OneImageServed ==
  started => \A h \in Halves :
               \/ bank[h] = InWindow(h)
               \/ /\ bank[h].src = "image"
                  /\ image = window
                  /\ bank[h].page < Pages[window]

\* While the mailbox is live the console sees what fujimail last published: in
\* the half that is served from the window, before a swap and after it. In
\* particular it sees that an image is ready, staged or not. An image that does
\* not claim the mailbox is served with its own bytes: what was published while
\* it was staged went elsewhere.
PublishedIsVisible ==
  started =>
    /\ mailbox_live => bank[1] = InWindow(1) /\ regs = Painted
    /\ ~mailbox_live => regs = Own

\* Both: what the console reads is what the window and the mailbox hold.
ServesWhatItHolds == OneImageServed /\ PublishedIsVisible

\* An image is staged only from a buffer that holds its chunks, all of them, in
\* order and nothing else, whatever streams were cut or mixed before.
StagedIsWhole ==
  [][boot' = "ready" /\ boot # "ready" => rx[0] = Whole(staged')]_cartVars

\* One image at a time, and the next one in one step, when asked for.
Slot == INSTANCE CartSlot WITH
          served <- IF started THEN window ELSE NoImage,
          waiting <- IF have_staged THEN staged ELSE NoImage,
          asked <- swap_armed
SlotSpec == Slot!Spec
=============================================================================
