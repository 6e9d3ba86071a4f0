-------------------------------- MODULE Link --------------------------------
(***************************************************************************)
(* The cartridge's TCP link to a FujiNet (core/astro/fujitcp_win32.c, kept  *)
(* line for line with the POSIX one, which the firmware stages): one        *)
(* request at a time, its reply read from a stream that also carries the    *)
(* pushes of a boot, under a timeout.                                       *)
(*                                                                          *)
(* A frame on the wire is a delimiter, a body and a delimiter; here, its    *)
(* first delimiter and the rest. It arrives when it likes, so a read may    *)
(* time out before it or in the middle of it; what is left of it stays in   *)
(* the socket. fujibus_parse_reply and                                      *)
(* fujimail_inbound are the firmware's: a frame that is not one whole frame *)
(* is refused, and a push is kept from the caller.                          *)
(***************************************************************************)
EXTENDS Naturals, Sequences

CONSTANTS
  Peers,           \* the FujiNets there are
  NoPeer,
  MaxRequests,     \* bound: requests of one connection
  MaxPushes        \* bound: pushes of one connection

ASSUME PeersAssumption == NoPeer \notin Peers
ASSUME LinkBoundsAssumption == MaxRequests \in Nat /\ MaxPushes \in Nat

VARIABLES
  fd,              \* who the socket is connected to
  reading,         \* a transaction waits for its reply
  buf,             \* what it has read of a frame
  wire,            \* sent by the FujiNet, not read yet
  request,         \* transactions of this connection
  answered,        \* how many of them the FujiNet is done with
  pushes,
  taken,           \* whose reply the last transaction took, 0 for nobody's
  failures         \* transactions that ended without a reply

linkVars == <<fd, reading, buf, wire, request, answered, pushes, taken, failures>>

PUSH == 0          \* what a push answers
Frame(k) == << <<"first", k>>, <<"rest", k>> >>
Tokens == {"first", "rest"} \X (0..MaxRequests)

LinkTypeOK ==
  /\ fd \in Peers \cup {NoPeer}
  /\ reading \in BOOLEAN
  /\ buf \in Seq(Tokens) /\ wire \in Seq(Tokens)
  /\ request \in 0..MaxRequests /\ answered \in 0..MaxRequests /\ pushes \in 0..MaxPushes
  /\ taken \in 0..MaxRequests
  /\ failures \in 0..MaxRequests

LinkInit ==
  /\ fd = NoPeer /\ reading = FALSE
  /\ buf = <<>> /\ wire = <<>>
  /\ request = 0 /\ answered = 0 /\ pushes = 0
  /\ taken = 0 /\ failures = 0

Fresh(p) ==
  /\ fd' = p /\ reading' = FALSE
  /\ buf' = <<>> /\ wire' = <<>>
  /\ request' = 0 /\ answered' = 0 /\ pushes' = 0
  /\ taken' = 0 /\ failures' = 0

\* fujitcp_init: a connection, when p listens
Connect(p) == fd = NoPeer /\ Fresh(p)

\* fujitcp_close
Close == Fresh(NoPeer)

\* fujitcp_transact sends its request. Without a link it returns at once.
Request ==
  /\ fd # NoPeer /\ ~reading
  /\ request < MaxRequests
  /\ request' = request + 1
  /\ reading' = TRUE
  /\ taken' = 0
  /\ UNCHANGED <<fd, buf, wire, answered, pushes, failures>>

\* The FujiNet answers the oldest request it has, or never will, or pushes.
Reply ==
  /\ answered < request
  /\ answered' = answered + 1
  /\ \/ wire' = wire \o Frame(answered')
     \/ UNCHANGED wire
  /\ UNCHANGED <<fd, reading, buf, request, pushes, taken, failures>>
Push ==
  /\ fd # NoPeer /\ request > 0
  /\ pushes < MaxPushes
  /\ pushes' = pushes + 1
  /\ wire' = wire \o Frame(PUSH)
  /\ UNCHANGED <<fd, reading, buf, request, answered, taken, failures>>

Got == Append(buf, Head(wire))
Whole(k) == Got = Frame(k)

\* One delimiter is read: the frame goes on
ReadOn ==
  /\ reading /\ wire # <<>>
  /\ buf = <<>>
  /\ buf' = Got /\ wire' = Tail(wire)
  /\ UNCHANGED <<fd, reading, request, answered, pushes, taken, failures>>

\* Faulty: a push ends the transaction.
TakeAny ==
  /\ reading /\ wire # <<>>
  /\ buf # <<>>
  /\ buf' = <<>> /\ wire' = Tail(wire)
  /\ reading' = FALSE
  /\ \/ \E k \in 0..MaxRequests :
          /\ Whole(k)
          /\ taken' = k
          /\ UNCHANGED failures
     \/ /\ \A k \in 0..MaxRequests : ~Whole(k)
        /\ failures' = failures + 1
        /\ UNCHANGED taken
  /\ UNCHANGED <<fd, request, answered, pushes>>

\* ... or its second delimiter ends it: a push is handed over and the next frame
\* waited for; a reply, or what is no frame, ends the transaction.
ReadFrame ==
  /\ reading /\ wire # <<>>
  /\ buf # <<>>
  /\ buf' = <<>> /\ wire' = Tail(wire)
  /\ \/ Whole(PUSH) /\ UNCHANGED <<reading, taken, failures>>
     \/ \E k \in 1..MaxRequests :
          /\ Whole(k)
          /\ reading' = FALSE /\ taken' = k
          /\ UNCHANGED failures
     \/ /\ \A k \in 0..MaxRequests : ~Whole(k)
        /\ reading' = FALSE
        /\ failures' = failures + 1
        /\ UNCHANGED taken
  /\ UNCHANGED <<fd, request, answered, pushes>>

\* read_frame gives up: what it has read is forgotten, what it has not is left.
Timeout ==
  /\ reading
  /\ reading' = FALSE
  /\ buf' = <<>>
  /\ failures' = failures + 1
  /\ UNCHANGED <<fd, wire, request, answered, pushes, taken>>

-----------------------------------------------------------------------------
\* A reply does not say what it answers. It is never to a request still to
\* come, nor older than the transactions that failed on this connection account
\* for: without a timeout or a refused frame it is always this request's own,
\* with pushes in between or not.
ReplyIsAccountedFor ==
  taken # 0 => request - taken \in 0..failures
=============================================================================
