--------------------------- MODULE Session_proofs ---------------------------
(***************************************************************************)
(* Theorems about Session and its Link, for every address, number of       *)
(* requests and pushes, and for a rename that replaces or does not.        *)
(*                                                                         *)
(* The link first. A reply carries the number of the request that it       *)
(* answers, which the code does not see: TakenInOrder counts the           *)
(* transactions that took one, and says that what is left on the wire is   *)
(* younger. Then the session: which call the GUI thread can be in while    *)
(* what runs (Calls, Lifetimes), and who still has to read the settings    *)
(* that changed (SettingsAreRead).                                         *)
(***************************************************************************)
EXTENDS Session, SequenceTheorems, TLAPS

(* The transactions that have ended with a reply. *)
Successes == IF reading THEN request - failures - 1 ELSE request - failures

Number(token) == token[2]

(* What is in the buffer and on the wire answers a request that no          *)
(* transaction has taken an answer to or passed over, and not one to come. *)
InFlight(token) == Number(token) # PUSH => Number(token) \in (Successes + 1)..answered

(* After the end of a reply there are only younger ones. *)
Younger(token, later) ==
  token[1] = "rest" /\ Number(token) # PUSH /\ Number(later) # PUSH
    => Number(token) < Number(later)

TakenInOrder ==
  /\ answered <= request
  /\ Successes \in 0..answered
  /\ \A i \in 1..Len(buf) : InFlight(buf[i])
  /\ \A i \in 1..Len(wire) : InFlight(wire[i])
  /\ \A i, j \in 1..Len(wire) : i < j => Younger(wire[i], wire[j])
  /\ reading => taken = 0

LinkInv == LinkTypeOK /\ TakenInOrder /\ ReplyIsAccountedFor

-----------------------------------------------------------------------------
(* What follows a step is only to be done inside a call that stops the      *)
(* machine first.                                                          *)
Calls ==
  /\ at \in {"idle", "start", "fujinet", "wait", "host", "gone"} => then = "none"
  /\ at \in {"stop", "join", "runtime"} => then \in {"load", "start", "quit"}
  /\ at \in {"remove", "rename"} => tmp # NoFile

(* What runs, and whose it is, at each step of the GUI thread. *)
Lifetimes ==
  /\ host <=> mt # "none"
  /\ fd # NoPeer => mt \in {"frame", "done"}
  /\ at \in {"start", "fujinet", "wait", "host", "gone"} => ~running
  /\ at \in {"store", "write", "remove", "rename"} /\ then # "none" => ~running
  /\ at = "join" => host
  /\ at = "runtime" => ~host
  /\ at = "gone" => ~built_in
  /\ ~running /\ at \notin {"wait", "host"} => (built_in => refused)

(* A start reads the settings, and none is forgotten: the preferences that   *)
(* changed them are open, or the call is under way that reads them.         *)
SettingsAreRead ==
  /\ at \in {"wait", "host"} => endpoint = Named /\ external = settings.external
  /\ changed => dialog
  /\ stale => changed \/ then # "none"

(* The types of all that is not the link's, one conjunct each. *)
FileTypes ==
  /\ disk \in Settings \cup {NoFile, Cut} /\ tmp \in Settings \cup {NoFile, Cut}
  /\ settings \in Settings
  /\ dirty \in BOOLEAN /\ stale \in BOOLEAN

CallTypes ==
  /\ at \in {"idle", "stop", "join", "runtime", "store", "write", "remove", "rename",
             "start", "fujinet", "wait", "host", "gone"}
  /\ then \in {"none", "load", "start", "quit", "end"}
  /\ dialog \in BOOLEAN /\ changed \in BOOLEAN

SessionTypes ==
  /\ running \in BOOLEAN /\ external \in BOOLEAN /\ built_in \in BOOLEAN
  /\ endpoint \in Peers
  /\ listening \in BOOLEAN /\ refused \in BOOLEAN

MachineTypes ==
  /\ host \in BOOLEAN /\ stop_req \in BOOLEAN
  /\ mt \in {"none", "dial", "frame", "done"} /\ dial \in Peers

Types == FileTypes /\ CallTypes /\ SessionTypes /\ MachineTypes

Core == Types /\ Calls /\ Lifetimes /\ SettingsAreRead /\ DialsWhatItSays

IInv == LinkInv /\ Core

-----------------------------------------------------------------------------
(* The link. *)

USE DEF linkVars, PUSH, Number

(* A frame that is sent comes after all that is on the wire.               *)
LEMMA AppendFrame ==
  ASSUME LinkTypeOK, NEW k \in 0..MaxRequests, wire' = wire \o Frame(k)
  PROVE  /\ wire' \in Seq(Tokens)
         /\ Len(wire') = Len(wire) + 2
         /\ \A i \in 1..Len(wire) : wire'[i] = wire[i]
         /\ wire'[Len(wire) + 1] = <<"first", k>>
         /\ wire'[Len(wire) + 2] = <<"rest", k>>
<1>1. Frame(k) \in Seq(Tokens) /\ Len(Frame(k)) = 2
  BY DEF Frame, Tokens
<1>2. Frame(k)[1] = <<"first", k>> /\ Frame(k)[2] = <<"rest", k>>
  BY DEF Frame
<1> DEFINE F == Frame(k)
<1>3. wire \in Seq(Tokens) /\ wire' = wire \o F /\ Len(wire) \in Nat
  BY LenProperties DEF LinkTypeOK
<1> HIDE DEF F
<1>4. F \in Seq(Tokens) /\ Len(F) = 2 /\ F[1] = <<"first", k>> /\ F[2] = <<"rest", k>>
  BY <1>1, <1>2 DEF F
<1>5. /\ wire \o F \in Seq(Tokens)
      /\ Len(wire \o F) = Len(wire) + Len(F)
      /\ \A i \in 1..Len(wire) + Len(F) :
            (wire \o F)[i] = IF i <= Len(wire) THEN wire[i] ELSE F[i - Len(wire)]
  BY <1>3, <1>4, ConcatProperties
<1>6. \A i \in 1..Len(wire) : wire'[i] = wire[i]
  BY <1>3, <1>4, <1>5
<1>7. /\ wire'[Len(wire) + 1] = <<"first", k>>
      /\ wire'[Len(wire) + 2] = <<"rest", k>>
  BY <1>3, <1>4, <1>5
<1> QED
  BY <1>3, <1>4, <1>5, <1>6, <1>7

(* What is read leaves the wire at its head.                               *)
LEMMA TailOfWire ==
  ASSUME LinkTypeOK, wire # <<>>, wire' = Tail(wire)
  PROVE  /\ wire' \in Seq(Tokens)
         /\ Len(wire) \in Nat /\ Len(wire) >= 1
         /\ Len(wire') = Len(wire) - 1
         /\ \A i \in 1..Len(wire') : wire'[i] = wire[i + 1]
         /\ Head(wire) = wire[1] /\ Head(wire) \in Tokens
BY HeadTailProperties, EmptySeq, LenProperties, ElementOfSeq DEF LinkTypeOK

(* A new connection starts from nothing, and so does none.                  *)
LEMMA FreshStep ==
  ASSUME LinkBoundsAssumption, NEW p \in Peers \cup {NoPeer}, Fresh(p)
  PROVE  LinkInv'
<1>1. /\ buf' \in Seq(Tokens) /\ wire' \in Seq(Tokens)
      /\ Len(buf') = 0 /\ Len(wire') = 0
  BY EmptySeq DEF Fresh
<1>2. /\ request' = 0 /\ answered' = 0 /\ pushes' = 0 /\ taken' = 0 /\ failures' = 0
      /\ fd' \in Peers \cup {NoPeer}
  BY DEF Fresh
<1>3. ~reading' /\ reading' \in BOOLEAN
  BY DEF Fresh
<1>4. Successes' = 0
  BY <1>2, <1>3 DEF Successes
<1>5. LinkTypeOK'
  BY <1>1, <1>2, <1>3 DEF LinkTypeOK, LinkBoundsAssumption
<1>6. TakenInOrder' /\ ReplyIsAccountedFor'
  BY <1>1, <1>2, <1>4 DEF TakenInOrder, ReplyIsAccountedFor
<1> QED
  BY <1>5, <1>6 DEF LinkInv

(* The steps of a connection, one by one.                                   *)
LEMMA RequestStep ==
  ASSUME LinkBoundsAssumption, LinkInv, Request
  PROVE  LinkInv'
<1> USE DEF LinkInv, LinkTypeOK, LinkBoundsAssumption
<1>1. LinkTypeOK'
  BY DEF Request
<1>2. Successes' = Successes
  BY DEF Request, Successes
<1>3. TakenInOrder' /\ ReplyIsAccountedFor'
  BY <1>2 DEF Request, TakenInOrder, ReplyIsAccountedFor, InFlight, Younger
<1> QED
  BY <1>1, <1>3

LEMMA ReplyStep ==
  ASSUME LinkBoundsAssumption, LinkInv, Reply
  PROVE  LinkInv'
<1> USE DEF LinkInv, LinkTypeOK, LinkBoundsAssumption
<1>1. answered' = answered + 1 /\ answered' \in 0..MaxRequests /\ answered' <= request
  BY DEF Reply
<1>2. /\ UNCHANGED <<fd, reading, buf, request, pushes, taken, failures>>
      /\ Successes' = Successes
  BY DEF Reply, Successes
<1>3. Successes' \in 0..answered /\ \A i \in 1..Len(buf) : InFlight(buf[i])'
  BY <1>1, <1>2 DEF TakenInOrder, InFlight, Successes
<1>4. CASE wire' = wire \o Frame(answered')
  <2>1. /\ wire' \in Seq(Tokens)
        /\ Len(wire') = Len(wire) + 2 /\ Len(wire) \in Nat
        /\ \A i \in 1..Len(wire) : wire'[i] = wire[i]
        /\ wire'[Len(wire) + 1] = <<"first", answered'>>
        /\ wire'[Len(wire) + 2] = <<"rest", answered'>>
    BY <1>1, <1>4, AppendFrame, LenProperties
  <2>2. \A i \in 1..Len(wire') : InFlight(wire[i])' 
    <3> SUFFICES ASSUME NEW i \in 1..Len(wire')
                 PROVE  InFlight(wire[i])'
      OBVIOUS
    <3>1. CASE i \in 1..Len(wire)
      BY <1>1, <1>2, <2>1, <3>1 DEF TakenInOrder, InFlight
    <3>2. CASE i = Len(wire) + 1 \/ i = Len(wire) + 2
      BY <1>1, <1>2, <1>3, <2>1, <3>2 DEF InFlight
    <3> QED
      BY <2>1, <3>1, <3>2
  <2>3. \A i, j \in 1..Len(wire') : i < j => Younger(wire[i], wire[j])'
    <3> SUFFICES ASSUME NEW i \in 1..Len(wire'), NEW j \in 1..Len(wire'), i < j
                 PROVE  Younger(wire'[i], wire'[j])
      BY DEF Younger
    <3>1. CASE j \in 1..Len(wire)
      BY <2>1, <3>1 DEF TakenInOrder
    <3>2. CASE i \in 1..Len(wire) /\ (j = Len(wire) + 1 \/ j = Len(wire) + 2)
      BY <1>1, <2>1, <3>2 DEF TakenInOrder, Younger, InFlight, Successes
    <3>3. CASE i = Len(wire) + 1
      BY <2>1, <3>3 DEF Younger
    <3>4. \/ j \in 1..Len(wire)
          \/ i \in 1..Len(wire) /\ (j = Len(wire) + 1 \/ j = Len(wire) + 2)
          \/ i = Len(wire) + 1
      BY <2>1
    <3> QED
      BY <3>1, <3>2, <3>3, <3>4
  <2> QED
    BY <1>1, <1>2, <1>3, <2>1, <2>2, <2>3 DEF TakenInOrder, ReplyIsAccountedFor
<1>5. CASE wire' = wire
  <2>1. \A i \in 1..Len(wire) : InFlight(wire[i])'
    BY <1>1, <1>2, <1>5 DEF TakenInOrder, InFlight, Successes
  <2> QED
    BY <1>1, <1>2, <1>3, <1>5, <2>1 DEF TakenInOrder, ReplyIsAccountedFor, Younger
<1> QED
  BY <1>4, <1>5 DEF Reply

LEMMA PushStep ==
  ASSUME LinkBoundsAssumption, LinkInv, Push
  PROVE  LinkInv'
<1> USE DEF LinkInv, LinkTypeOK, LinkBoundsAssumption
<1>1. /\ UNCHANGED <<fd, reading, buf, request, answered, taken, failures>>
      /\ pushes' \in 0..MaxPushes
      /\ Successes' = Successes
  BY DEF Push, Successes
<1>2. /\ wire' \in Seq(Tokens)
      /\ Len(wire') = Len(wire) + 2 /\ Len(wire) \in Nat
      /\ \A i \in 1..Len(wire) : wire'[i] = wire[i]
      /\ wire'[Len(wire) + 1] = <<"first", PUSH>>
      /\ wire'[Len(wire) + 2] = <<"rest", PUSH>>
  <2>1. PUSH \in 0..MaxRequests /\ wire' = wire \o Frame(PUSH) /\ Len(wire) \in Nat
    BY LenProperties DEF Push
  <2> QED
    BY <2>1, AppendFrame
<1>3. \A i \in 1..Len(wire') : InFlight(wire[i])'
  <2> SUFFICES ASSUME NEW i \in 1..Len(wire')
               PROVE  InFlight(wire[i])'
    OBVIOUS
  <2>1. CASE i \in 1..Len(wire)
    BY <1>1, <1>2, <2>1 DEF TakenInOrder, InFlight
  <2>2. CASE i = Len(wire) + 1 \/ i = Len(wire) + 2
    BY <1>2, <2>2 DEF InFlight
  <2> QED
    BY <1>2, <2>1, <2>2
<1>4. \A i, j \in 1..Len(wire') : i < j => Younger(wire[i], wire[j])'
  <2> SUFFICES ASSUME NEW i \in 1..Len(wire'), NEW j \in 1..Len(wire'), i < j
               PROVE  Younger(wire'[i], wire'[j])
    BY DEF Younger
  <2>1. CASE j \in 1..Len(wire)
    BY <1>2, <2>1 DEF TakenInOrder
  <2>2. CASE (j = Len(wire) + 1 \/ j = Len(wire) + 2)
    BY <1>2, <2>2 DEF Younger
  <2> QED
    BY <1>2, <2>1, <2>2
<1>5. \A i \in 1..Len(buf') : InFlight(buf[i])'
  BY <1>1 DEF TakenInOrder, InFlight
<1> QED
  BY <1>1, <1>2, <1>3, <1>4, <1>5 DEF TakenInOrder, ReplyIsAccountedFor

(* Left on the wire is what was there without its head.                     *)
LEMMA ReadHead ==
  ASSUME LinkInv, wire # <<>>, wire' = Tail(wire)
  PROVE  /\ wire' \in Seq(Tokens)
         /\ Head(wire) \in Tokens /\ InFlight(Head(wire))
         /\ \A i \in 1..Len(wire') : InFlight(wire'[i]) /\ Younger(Head(wire), wire'[i])
         /\ \A i, j \in 1..Len(wire') : i < j => Younger(wire'[i], wire'[j])
<1> USE DEF LinkInv
<1>1. /\ wire' \in Seq(Tokens)
      /\ Len(wire) \in Nat /\ Len(wire) >= 1
      /\ Len(wire') = Len(wire) - 1
      /\ \A i \in 1..Len(wire') : wire'[i] = wire[i + 1]
      /\ Head(wire) = wire[1] /\ Head(wire) \in Tokens
  BY TailOfWire
<1>2. InFlight(Head(wire))
  BY <1>1 DEF TakenInOrder
<1>3. \A i \in 1..Len(wire') : InFlight(wire'[i]) /\ Younger(Head(wire), wire'[i])
  BY <1>1 DEF TakenInOrder
<1>4. \A i, j \in 1..Len(wire') : i < j => Younger(wire'[i], wire'[j])
  BY <1>1 DEF TakenInOrder
<1> QED
  BY <1>1, <1>2, <1>3, <1>4

(* Half a frame is read: what is in the buffer was at the head of the wire. *)
LEMMA ReadOnStep ==
  ASSUME LinkBoundsAssumption, LinkInv, ReadOn
  PROVE  LinkInv'
<1> USE DEF LinkInv, LinkTypeOK, LinkBoundsAssumption
<1>1. /\ UNCHANGED <<fd, reading, request, answered, pushes, taken, failures>>
      /\ Successes' = Successes
  BY DEF ReadOn, Successes
<1>2. buf' = <<Head(wire)>>
  BY DEF ReadOn, Got
<1>3. /\ wire' \in Seq(Tokens)
      /\ Head(wire) \in Tokens /\ InFlight(Head(wire))
      /\ \A i \in 1..Len(wire') : InFlight(wire'[i])
      /\ \A i, j \in 1..Len(wire') : i < j => Younger(wire'[i], wire'[j])
  BY ReadHead DEF ReadOn
<1>4. buf' \in Seq(Tokens) /\ \A i \in 1..Len(buf') : buf'[i] = Head(wire)
  BY <1>2, <1>3
<1>5. /\ \A i \in 1..Len(buf') : InFlight(buf[i])'
      /\ \A i \in 1..Len(wire') : InFlight(wire[i])'
      /\ \A i, j \in 1..Len(wire') : i < j => Younger(wire[i], wire[j])'
  BY <1>1, <1>3, <1>4 DEF InFlight, Younger
<1> QED
  BY <1>1, <1>3, <1>4, <1>5 DEF TakenInOrder, ReplyIsAccountedFor

(* A frame ends. A reply that is whole answers a request that nobody took an *)
(* answer to or passed over, and whatever is behind it is younger.           *)
LEMMA ReadFrameStep ==
  ASSUME LinkBoundsAssumption, LinkInv, ReadFrame
  PROVE  LinkInv'
<1> USE DEF LinkInv, LinkTypeOK, LinkBoundsAssumption
<1>1. /\ UNCHANGED <<fd, request, answered, pushes>>
      /\ reading /\ buf # <<>> /\ wire # <<>> /\ buf' = <<>> /\ taken = 0
      /\ Successes = request - failures - 1
  BY DEF ReadFrame, Successes, TakenInOrder
<1>2. /\ wire' \in Seq(Tokens)
      /\ Head(wire) \in Tokens /\ InFlight(Head(wire))
      /\ \A i \in 1..Len(wire') : InFlight(wire'[i]) /\ Younger(Head(wire), wire'[i])
      /\ \A i, j \in 1..Len(wire') : i < j => Younger(wire'[i], wire'[j])
  BY ReadHead DEF ReadFrame
<1>3. /\ answered <= request /\ Successes \in 0..answered
  BY DEF TakenInOrder
<1>4. CASE /\ reading' \in BOOLEAN /\ taken' = taken
           /\ failures' = failures + (IF reading' THEN 0 ELSE 1)
  <2>1. Successes' = Successes /\ failures' \in 0..MaxRequests
    BY <1>1, <1>3, <1>4 DEF Successes
  <2>2. \A i \in 1..Len(wire') : InFlight(wire[i])'
    BY <1>1, <1>2, <2>1 DEF InFlight
  <2>3. \A i, j \in 1..Len(wire') : i < j => Younger(wire[i], wire[j])'
    BY <1>2 DEF Younger
  <2> QED
    BY <1>1, <1>2, <1>3, <1>4, <2>1, <2>2, <2>3 DEF TakenInOrder, ReplyIsAccountedFor
<1>5. ASSUME NEW k \in 1..MaxRequests, Whole(k), reading' = FALSE, taken' = k,
             failures' = failures
      PROVE  LinkInv'
  <2>1. Head(wire) = <<"rest", k>>
    <3>1. /\ Len(Got) = Len(buf) + 1 /\ Got[Len(buf) + 1] = Head(wire)
          /\ Len(buf) \in Nat
      BY <1>2, AppendProperties, LenProperties DEF Got
    <3>2. Len(Got) = 2 /\ Got[2] = <<"rest", k>>
      BY <1>5 DEF Whole, Frame
    <3> QED
      BY <3>1, <3>2
  <2>2. k \in (Successes + 1)..answered
    BY <1>2, <2>1 DEF InFlight
  <2>3. Successes' = Successes + 1
    BY <1>1, <1>5 DEF Successes
  <2>4. ReplyIsAccountedFor'
    BY <1>1, <1>3, <1>5, <2>2 DEF ReplyIsAccountedFor
  <2>5. \A i \in 1..Len(wire') : InFlight(wire[i])'
    <3> SUFFICES ASSUME NEW i \in 1..Len(wire'), Number(wire'[i]) # PUSH
                 PROVE  Number(wire'[i]) \in (Successes' + 1)..answered'
      BY DEF InFlight
    <3>1. Number(wire'[i]) \in (Successes + 1)..answered
      BY <1>2 DEF InFlight
    <3>2. k < Number(wire'[i])
      BY <1>2, <2>1 DEF Younger
    <3> QED
      BY <1>1, <1>3, <2>2, <2>3, <3>1, <3>2
  <2>6. \A i, j \in 1..Len(wire') : i < j => Younger(wire[i], wire[j])'
    BY <1>2 DEF Younger
  <2>7. Successes' \in 0..answered'
    BY <1>1, <1>3, <2>2, <2>3
  <2>8. LinkTypeOK'
    <3>1. buf' \in Seq(Tokens) /\ reading' \in BOOLEAN
      BY <1>1, <1>5, EmptySeq
    <3>2. taken' \in 0..MaxRequests /\ failures' \in 0..MaxRequests
      BY <1>5
    <3> QED
      BY <1>1, <1>2, <3>1, <3>2
  <2>9. TakenInOrder'
    BY <1>1, <1>3, <1>5, <2>5, <2>6, <2>7, EmptySeq DEF TakenInOrder
  <2> QED
    BY <2>4, <2>8, <2>9
<1>6. CASE UNCHANGED <<reading, taken, failures>>
  BY <1>1, <1>4, <1>6
<1>7. CASE reading' = FALSE /\ failures' = failures + 1 /\ UNCHANGED taken
  BY <1>4, <1>7
<1> QED
  BY <1>5, <1>6, <1>7 DEF ReadFrame

LEMMA TimeoutStep ==
  ASSUME LinkBoundsAssumption, LinkInv, Timeout
  PROVE  LinkInv'
<1> USE DEF LinkInv, LinkTypeOK, LinkBoundsAssumption
<1>1. /\ Successes' = Successes
      /\ failures' \in 0..MaxRequests
  BY DEF Timeout, Successes, TakenInOrder
<1>2. /\ \A i \in 1..Len(wire') : InFlight(wire[i])'
      /\ \A i, j \in 1..Len(wire') : i < j => Younger(wire[i], wire[j])'
  BY <1>1 DEF Timeout, TakenInOrder, InFlight, Younger
<1>3. /\ UNCHANGED <<fd, wire, request, answered, pushes, taken>>
      /\ buf' = <<>> /\ reading' = FALSE /\ taken = 0
  BY DEF Timeout, TakenInOrder
<1>4. LinkTypeOK'
  BY <1>1, <1>3, EmptySeq
<1>5. TakenInOrder'
  BY <1>1, <1>2, <1>3, EmptySeq DEF TakenInOrder
<1> QED
  BY <1>3, <1>4, <1>5 DEF ReplyIsAccountedFor

(* The steps of the link, whoever takes them. *)
LinkNext ==
  \/ Close \/ \E p \in Peers : Connect(p)
  \/ Request \/ Reply \/ Push
  \/ ReadOn \/ ReadFrame \/ Timeout

LEMMA LinkNextStep ==
  ASSUME LinkBoundsAssumption, LinkInv, [LinkNext]_linkVars
  PROVE  LinkInv'
<1>1. CASE UNCHANGED linkVars
  BY <1>1 DEF LinkInv, LinkTypeOK, TakenInOrder, ReplyIsAccountedFor, Successes,
              InFlight, Younger
<1>2. CASE LinkNext
  BY <1>2, FreshStep, RequestStep, ReplyStep, PushStep, ReadOnStep, ReadFrameStep,
     TimeoutStep DEF LinkNext, Close, Connect
<1> QED
  BY <1>1, <1>2

-----------------------------------------------------------------------------
(* The session: what each step of it keeps, and a lemma for each.           *)

USE DEF file, call, session, window, machine, others, Still

(* What the constants are, an address that is none and a file that is none.  *)
LEMMA AssumedFacts ==
  /\ BuiltIn \in Peers /\ NoPeer \notin Peers
  /\ Defaults \in Settings
  /\ NoFile \notin Settings /\ Cut \notin Settings /\ NoFile # Cut
  /\ \A s \in Settings : s.external \in BOOLEAN /\ s.address \in Peers \cup {NoAddress}
BY PeersAssumption, EndpointsAssumption, FilesAssumption
   DEF PeersAssumption, EndpointsAssumption, FilesAssumption, Defaults, Settings

LEMMA WriteTmpStep ==
  ASSUME IInv, WriteTmp
  PROVE  Core'
<1> USE DEF IInv, Core, WriteTmp
<1>0. BuiltIn \in Peers /\ NoPeer \notin Peers /\ Defaults \in Settings
  BY AssumedFacts
<1>1. Types'
  BY <1>0, AssumedFacts DEF Types, FileTypes, CallTypes, SessionTypes, MachineTypes
<1>2. Calls'
  BY <1>0, AssumedFacts DEF Types, FileTypes, CallTypes, SessionTypes, MachineTypes, Calls, Lifetimes
<1>3. Lifetimes'
  BY <1>0, AssumedFacts DEF Types, FileTypes, CallTypes, SessionTypes, MachineTypes, Calls, Lifetimes, DialsWhatItSays
<1>4. SettingsAreRead'
  BY <1>0, AssumedFacts DEF Types, FileTypes, CallTypes, SessionTypes, MachineTypes, Calls, Lifetimes, SettingsAreRead, Named
<1>5. DialsWhatItSays'
  BY <1>0, AssumedFacts DEF Types, FileTypes, CallTypes, SessionTypes, MachineTypes, Calls, Lifetimes, SettingsAreRead, DialsWhatItSays, Named
<1> QED
  BY <1>1, <1>2, <1>3, <1>4, <1>5

LEMMA RemoveOldStep ==
  ASSUME IInv, RemoveOld
  PROVE  Core'
<1> USE DEF IInv, Core, RemoveOld
<1>0. BuiltIn \in Peers /\ NoPeer \notin Peers /\ Defaults \in Settings
  BY AssumedFacts
<1>1. Types'
  BY <1>0, AssumedFacts DEF Types, FileTypes, CallTypes, SessionTypes, MachineTypes
<1>2. Calls'
  BY <1>0, AssumedFacts DEF Types, FileTypes, CallTypes, SessionTypes, MachineTypes, Calls, Lifetimes
<1>3. Lifetimes'
  BY <1>0, AssumedFacts DEF Types, FileTypes, CallTypes, SessionTypes, MachineTypes, Calls, Lifetimes, DialsWhatItSays
<1>4. SettingsAreRead'
  BY <1>0, AssumedFacts DEF Types, FileTypes, CallTypes, SessionTypes, MachineTypes, Calls, Lifetimes, SettingsAreRead, Named
<1>5. DialsWhatItSays'
  BY <1>0, AssumedFacts DEF Types, FileTypes, CallTypes, SessionTypes, MachineTypes, Calls, Lifetimes, SettingsAreRead, DialsWhatItSays, Named
<1> QED
  BY <1>1, <1>2, <1>3, <1>4, <1>5

LEMMA RenameStep ==
  ASSUME IInv, Rename
  PROVE  Core'
<1> USE DEF IInv, Core, Rename
<1>0. BuiltIn \in Peers /\ NoPeer \notin Peers /\ Defaults \in Settings
  BY AssumedFacts
<1>1. Types'
  <2> USE DEF Types
  <2>1. FileTypes'
    BY <1>0, AssumedFacts DEF FileTypes, CallTypes
  <2>2. CallTypes'
    BY DEF CallTypes
  <2>3. SessionTypes'
    BY <1>0, AssumedFacts DEF SessionTypes, FileTypes
  <2>4. MachineTypes'
    BY <1>0 DEF MachineTypes, SessionTypes
  <2> QED
    BY <2>1, <2>2, <2>3, <2>4
<1>2. Calls'
  BY <1>0, AssumedFacts DEF Types, FileTypes, CallTypes, SessionTypes, MachineTypes, Calls, Lifetimes
<1>3. Lifetimes'
  BY <1>0, AssumedFacts DEF Types, FileTypes, CallTypes, SessionTypes, MachineTypes, Calls, Lifetimes, DialsWhatItSays
<1>4. SettingsAreRead'
  BY <1>0, AssumedFacts DEF Types, FileTypes, CallTypes, SessionTypes, MachineTypes, Calls, Lifetimes, SettingsAreRead, Named
<1>5. DialsWhatItSays'
  BY <1>0, AssumedFacts DEF Types, FileTypes, CallTypes, SessionTypes, MachineTypes, Calls, Lifetimes, SettingsAreRead, DialsWhatItSays, Named
<1> QED
  BY <1>1, <1>2, <1>3, <1>4, <1>5

LEMMA StopStep ==
  ASSUME IInv, Stop
  PROVE  Core'
<1> USE DEF IInv, Core, Stop
<1>0. BuiltIn \in Peers /\ NoPeer \notin Peers /\ Defaults \in Settings
  BY AssumedFacts
<1>1. Types'
  <2> USE DEF Types
  <2>1. FileTypes'
    BY <1>0, AssumedFacts DEF FileTypes, CallTypes
  <2>2. CallTypes'
    BY DEF CallTypes
  <2>3. SessionTypes'
    BY <1>0, AssumedFacts DEF SessionTypes, FileTypes
  <2>4. MachineTypes'
    BY <1>0 DEF MachineTypes, SessionTypes
  <2> QED
    BY <2>1, <2>2, <2>3, <2>4
<1>2. Calls'
  BY <1>0, AssumedFacts DEF Types, FileTypes, CallTypes, SessionTypes, MachineTypes, Calls, Lifetimes
<1>3. Lifetimes'
  BY <1>0, AssumedFacts DEF Types, FileTypes, CallTypes, SessionTypes, MachineTypes, Calls, Lifetimes, DialsWhatItSays
<1>4. SettingsAreRead'
  BY <1>0, AssumedFacts DEF Types, FileTypes, CallTypes, SessionTypes, MachineTypes, Calls, Lifetimes, SettingsAreRead, Named
<1>5. DialsWhatItSays'
  BY <1>0, AssumedFacts DEF Types, FileTypes, CallTypes, SessionTypes, MachineTypes, Calls, Lifetimes, SettingsAreRead, DialsWhatItSays, Named
<1> QED
  BY <1>1, <1>2, <1>3, <1>4, <1>5

LEMMA JoinStep ==
  ASSUME IInv, Join
  PROVE  Core'
<1> USE DEF IInv, Core, Join, Close, Fresh
<1>0. BuiltIn \in Peers /\ NoPeer \notin Peers /\ Defaults \in Settings
  BY AssumedFacts
<1>1. Types'
  <2> USE DEF Types
  <2>1. FileTypes'
    BY <1>0, AssumedFacts DEF FileTypes, CallTypes
  <2>2. CallTypes'
    BY DEF CallTypes
  <2>3. SessionTypes'
    BY <1>0, AssumedFacts DEF SessionTypes, FileTypes
  <2>4. MachineTypes'
    BY <1>0 DEF MachineTypes, SessionTypes
  <2> QED
    BY <2>1, <2>2, <2>3, <2>4
<1>2. Calls'
  BY <1>0, AssumedFacts DEF Types, FileTypes, CallTypes, SessionTypes, MachineTypes, Calls, Lifetimes
<1>3. Lifetimes'
  BY <1>0, AssumedFacts DEF Types, FileTypes, CallTypes, SessionTypes, MachineTypes, Calls, Lifetimes, DialsWhatItSays
<1>4. SettingsAreRead'
  BY <1>0, AssumedFacts DEF Types, FileTypes, CallTypes, SessionTypes, MachineTypes, Calls, Lifetimes, SettingsAreRead, Named
<1>5. DialsWhatItSays'
  BY <1>0, AssumedFacts DEF Types, FileTypes, CallTypes, SessionTypes, MachineTypes, Calls, Lifetimes, SettingsAreRead, DialsWhatItSays, Named
<1> QED
  BY <1>1, <1>2, <1>3, <1>4, <1>5

LEMMA StopRuntimeStep ==
  ASSUME IInv, StopRuntime
  PROVE  Core'
<1> USE DEF IInv, Core, StopRuntime
<1>0. BuiltIn \in Peers /\ NoPeer \notin Peers /\ Defaults \in Settings
  BY AssumedFacts
<1>1. Types'
  <2> USE DEF Types
  <2>1. FileTypes'
    BY <1>0, AssumedFacts DEF FileTypes, CallTypes
  <2>2. CallTypes'
    BY DEF CallTypes
  <2>3. SessionTypes'
    BY <1>0, AssumedFacts DEF SessionTypes, FileTypes
  <2>4. MachineTypes'
    BY <1>0 DEF MachineTypes, SessionTypes
  <2> QED
    BY <2>1, <2>2, <2>3, <2>4
<1>2. Calls'
  BY <1>0, AssumedFacts DEF Types, FileTypes, CallTypes, SessionTypes, MachineTypes, Calls, Lifetimes
<1>3. Lifetimes'
  BY <1>0, AssumedFacts DEF Types, FileTypes, CallTypes, SessionTypes, MachineTypes, Calls, Lifetimes, DialsWhatItSays
<1>4. SettingsAreRead'
  BY <1>0, AssumedFacts DEF Types, FileTypes, CallTypes, SessionTypes, MachineTypes, Calls, Lifetimes, SettingsAreRead, Named
<1>5. DialsWhatItSays'
  BY <1>0, AssumedFacts DEF Types, FileTypes, CallTypes, SessionTypes, MachineTypes, Calls, Lifetimes, SettingsAreRead, DialsWhatItSays, Named
<1> QED
  BY <1>1, <1>2, <1>3, <1>4, <1>5

LEMMA EndedStep ==
  ASSUME IInv, Ended
  PROVE  Core'
<1> USE DEF IInv, Core, Ended, Close, Fresh, Defaults
<1>0. BuiltIn \in Peers /\ NoPeer \notin Peers /\ Defaults \in Settings
  BY AssumedFacts
<1>1. Types'
  <2> USE DEF Types
  <2>1. FileTypes'
    BY <1>0, AssumedFacts DEF FileTypes, CallTypes
  <2>2. CallTypes'
    BY DEF CallTypes
  <2>3. SessionTypes'
    BY <1>0, AssumedFacts DEF SessionTypes, FileTypes
  <2>4. MachineTypes'
    BY <1>0 DEF MachineTypes, SessionTypes
  <2> QED
    BY <2>1, <2>2, <2>3, <2>4
<1>2. Calls'
  BY <1>0, AssumedFacts DEF Types, FileTypes, CallTypes, SessionTypes, MachineTypes, Calls, Lifetimes
<1>3. Lifetimes'
  BY <1>0, AssumedFacts DEF Types, FileTypes, CallTypes, SessionTypes, MachineTypes, Calls, Lifetimes, DialsWhatItSays
<1>4. SettingsAreRead'
  BY <1>0, AssumedFacts DEF Types, FileTypes, CallTypes, SessionTypes, MachineTypes, Calls, Lifetimes, SettingsAreRead, Named
<1>5. DialsWhatItSays'
  BY <1>0, AssumedFacts DEF Types, FileTypes, CallTypes, SessionTypes, MachineTypes, Calls, Lifetimes, SettingsAreRead, DialsWhatItSays, Named
<1> QED
  BY <1>1, <1>2, <1>3, <1>4, <1>5

LEMMA StoredStep ==
  ASSUME IInv, Stored
  PROVE  Core'
<1> USE DEF IInv, Core, Types, FileTypes, CallTypes, SessionTypes, MachineTypes
<1>1. CASE then = "load" /\ then' = "start"
  <2>1. /\ at = "store" /\ at' \in {"write", "store"} /\ dirty' \in BOOLEAN
        /\ UNCHANGED <<disk, tmp, settings, stale, session, window, machine,
                       listening, refused, linkVars>>
    BY <1>1 DEF Stored, Flush
  <2>2. Types'
    <3>1. FileTypes' /\ SessionTypes' /\ MachineTypes'
      BY <2>1
    <3>2. CallTypes'
      BY <1>1, <2>1
    <3> QED
      BY <3>1, <3>2
  <2>3. Calls' /\ Lifetimes'
    BY <1>1, <2>1 DEF Calls, Lifetimes
  <2>4. SettingsAreRead' /\ DialsWhatItSays'
    BY <1>1, <2>1 DEF Calls, Lifetimes, SettingsAreRead, DialsWhatItSays, Named
  <2> QED
    BY <2>2, <2>3, <2>4
<1>2. CASE then = "start" /\ at' = "start"
  <2>1. /\ at = "store" /\ stale' = FALSE /\ then' = "none"
        /\ UNCHANGED <<disk, tmp, settings, dirty, session, window, machine,
                       listening, refused, linkVars>>
    BY <1>2 DEF Stored
  <2>2. Types'
    <3>1. FileTypes' /\ SessionTypes' /\ MachineTypes'
      BY <2>1
    <3>2. CallTypes'
      BY <1>2, <2>1
    <3> QED
      BY <3>1, <3>2
  <2>3. Calls' /\ Lifetimes'
    BY <1>2, <2>1 DEF Calls, Lifetimes
  <2>4. SettingsAreRead' /\ DialsWhatItSays'
    BY <1>2, <2>1 DEF Calls, Lifetimes, SettingsAreRead, DialsWhatItSays, Named
  <2> QED
    BY <2>2, <2>3, <2>4
<1>3. CASE then = "none" /\ at' = "idle"
  BY <1>3 DEF Stored, Calls, Lifetimes, SettingsAreRead, DialsWhatItSays, Named
<1>4. CASE then = "quit" /\ then' = "end"
  <2>1. /\ at = "store" /\ at' = "write"
        /\ UNCHANGED <<file, session, window, machine, listening, refused, linkVars>>
    BY <1>4 DEF Stored, Ended
  <2>2. Types'
    BY <1>4, <2>1
  <2>3. Calls' /\ Lifetimes'
    BY <1>4, <2>1 DEF Calls, Lifetimes
  <2>4. SettingsAreRead' /\ DialsWhatItSays'
    BY <1>4, <2>1 DEF Calls, Lifetimes, SettingsAreRead, DialsWhatItSays, Named
  <2> QED
    BY <2>2, <2>3, <2>4
<1>5. CASE Ended
  BY <1>5, EndedStep
<1> QED
  BY <1>1, <1>2, <1>3, <1>4, <1>5 DEF Stored

LEMMA StartStep ==
  ASSUME IInv, Start
  PROVE  Core'
<1> USE DEF IInv, Core, Start
<1>0. BuiltIn \in Peers /\ NoPeer \notin Peers /\ Defaults \in Settings
  BY AssumedFacts
<1>1. Types'
  BY <1>0, AssumedFacts DEF Types, FileTypes, CallTypes, SessionTypes, MachineTypes
<1>2. Calls'
  BY <1>0, AssumedFacts DEF Types, FileTypes, CallTypes, SessionTypes, MachineTypes, Calls, Lifetimes
<1>3. Lifetimes'
  BY <1>0, AssumedFacts DEF Types, FileTypes, CallTypes, SessionTypes, MachineTypes, Calls, Lifetimes, DialsWhatItSays
<1>4. SettingsAreRead'
  BY <1>0, AssumedFacts DEF Types, FileTypes, CallTypes, SessionTypes, MachineTypes, Calls, Lifetimes, SettingsAreRead, Named
<1>5. DialsWhatItSays'
  BY <1>0, AssumedFacts DEF Types, FileTypes, CallTypes, SessionTypes, MachineTypes, Calls, Lifetimes, SettingsAreRead, DialsWhatItSays, Named
<1> QED
  BY <1>1, <1>2, <1>3, <1>4, <1>5

LEMMA StartFujiNetStep ==
  ASSUME IInv, StartFujiNet
  PROVE  Core'
<1> USE DEF IInv, Core, StartFujiNet, StartRuntime, Named
<1>0. BuiltIn \in Peers /\ NoPeer \notin Peers /\ Defaults \in Settings
  BY AssumedFacts
<1>1. Types'
  <2> USE DEF Types
  <2>1. FileTypes'
    BY <1>0, AssumedFacts DEF FileTypes, CallTypes
  <2>2. CallTypes'
    BY DEF CallTypes
  <2>3. SessionTypes'
    BY <1>0, AssumedFacts DEF SessionTypes, FileTypes
  <2>4. MachineTypes'
    BY <1>0 DEF MachineTypes, SessionTypes
  <2> QED
    BY <2>1, <2>2, <2>3, <2>4
<1>2. Calls'
  BY <1>0, AssumedFacts DEF Types, FileTypes, CallTypes, SessionTypes, MachineTypes, Calls, Lifetimes
<1>3. Lifetimes'
  BY <1>0, AssumedFacts DEF Types, FileTypes, CallTypes, SessionTypes, MachineTypes, Calls, Lifetimes, DialsWhatItSays
<1>4. SettingsAreRead'
  BY <1>0, AssumedFacts DEF Types, FileTypes, CallTypes, SessionTypes, MachineTypes, Calls, Lifetimes, SettingsAreRead, Named
<1>5. DialsWhatItSays'
  BY <1>0, AssumedFacts DEF Types, FileTypes, CallTypes, SessionTypes, MachineTypes, Calls, Lifetimes, SettingsAreRead, DialsWhatItSays, Named
<1> QED
  BY <1>1, <1>2, <1>3, <1>4, <1>5

LEMMA WaitStep ==
  ASSUME IInv, Wait
  PROVE  Core'
<1> USE DEF IInv, Core, Wait
<1>0. BuiltIn \in Peers /\ NoPeer \notin Peers /\ Defaults \in Settings
  BY AssumedFacts
<1>1. Types'
  BY <1>0, AssumedFacts DEF Types, FileTypes, CallTypes, SessionTypes, MachineTypes
<1>2. Calls'
  BY <1>0, AssumedFacts DEF Types, FileTypes, CallTypes, SessionTypes, MachineTypes, Calls, Lifetimes
<1>3. Lifetimes'
  BY <1>0, AssumedFacts DEF Types, FileTypes, CallTypes, SessionTypes, MachineTypes, Calls, Lifetimes, DialsWhatItSays
<1>4. SettingsAreRead'
  BY <1>0, AssumedFacts DEF Types, FileTypes, CallTypes, SessionTypes, MachineTypes, Calls, Lifetimes, SettingsAreRead, Named
<1>5. DialsWhatItSays'
  BY <1>0, AssumedFacts DEF Types, FileTypes, CallTypes, SessionTypes, MachineTypes, Calls, Lifetimes, SettingsAreRead, DialsWhatItSays, Named
<1> QED
  BY <1>1, <1>2, <1>3, <1>4, <1>5

LEMMA HostRefusedStep ==
  ASSUME IInv, HostRefused
  PROVE  Core'
<1> USE DEF IInv, Core, HostRefused
<1>0. BuiltIn \in Peers /\ NoPeer \notin Peers /\ Defaults \in Settings
  BY AssumedFacts
<1>1. Types'
  BY <1>0, AssumedFacts DEF Types, FileTypes, CallTypes, SessionTypes, MachineTypes
<1>2. Calls'
  BY <1>0, AssumedFacts DEF Types, FileTypes, CallTypes, SessionTypes, MachineTypes, Calls, Lifetimes
<1>3. Lifetimes'
  BY <1>0, AssumedFacts DEF Types, FileTypes, CallTypes, SessionTypes, MachineTypes, Calls, Lifetimes, DialsWhatItSays
<1>4. SettingsAreRead'
  BY <1>0, AssumedFacts DEF Types, FileTypes, CallTypes, SessionTypes, MachineTypes, Calls, Lifetimes, SettingsAreRead, Named
<1>5. DialsWhatItSays'
  BY <1>0, AssumedFacts DEF Types, FileTypes, CallTypes, SessionTypes, MachineTypes, Calls, Lifetimes, SettingsAreRead, DialsWhatItSays, Named
<1> QED
  BY <1>1, <1>2, <1>3, <1>4, <1>5

LEMMA HostStartedStep ==
  ASSUME IInv, HostStarted
  PROVE  Core'
<1> USE DEF IInv, Core, HostStarted, Named
<1>0. BuiltIn \in Peers /\ NoPeer \notin Peers /\ Defaults \in Settings
  BY AssumedFacts
<1>1. Types'
  <2> USE DEF Types
  <2>1. FileTypes'
    BY <1>0, AssumedFacts DEF FileTypes, CallTypes
  <2>2. CallTypes'
    BY DEF CallTypes
  <2>3. SessionTypes'
    BY <1>0, AssumedFacts DEF SessionTypes, FileTypes
  <2>4. MachineTypes'
    BY <1>0 DEF MachineTypes, SessionTypes
  <2> QED
    BY <2>1, <2>2, <2>3, <2>4
<1>2. Calls'
  BY <1>0, AssumedFacts DEF Types, FileTypes, CallTypes, SessionTypes, MachineTypes, Calls, Lifetimes
<1>3. Lifetimes'
  BY <1>0, AssumedFacts DEF Types, FileTypes, CallTypes, SessionTypes, MachineTypes, Calls, Lifetimes, DialsWhatItSays
<1>4. SettingsAreRead'
  BY <1>0, AssumedFacts DEF Types, FileTypes, CallTypes, SessionTypes, MachineTypes, Calls, Lifetimes, SettingsAreRead, Named
<1>5. DialsWhatItSays'
  BY <1>0, AssumedFacts DEF Types, FileTypes, CallTypes, SessionTypes, MachineTypes, Calls, Lifetimes, SettingsAreRead, DialsWhatItSays, Named
<1> QED
  BY <1>1, <1>2, <1>3, <1>4, <1>5

LEMMA LaunchStep ==
  ASSUME IInv, Launch
  PROVE  Core'
<1> USE DEF IInv, Core, Launch, Loaded
<1>0. BuiltIn \in Peers /\ NoPeer \notin Peers /\ Defaults \in Settings
  BY AssumedFacts
<1>1. Types'
  <2> USE DEF Types
  <2>1. FileTypes'
    BY <1>0, AssumedFacts DEF FileTypes, CallTypes
  <2>2. CallTypes'
    BY DEF CallTypes
  <2>3. SessionTypes'
    BY <1>0, AssumedFacts DEF SessionTypes, FileTypes
  <2>4. MachineTypes'
    BY <1>0 DEF MachineTypes, SessionTypes
  <2> QED
    BY <2>1, <2>2, <2>3, <2>4
<1>2. Calls'
  BY <1>0, AssumedFacts DEF Types, FileTypes, CallTypes, SessionTypes, MachineTypes, Calls, Lifetimes
<1>3. Lifetimes'
  BY <1>0, AssumedFacts DEF Types, FileTypes, CallTypes, SessionTypes, MachineTypes, Calls, Lifetimes, DialsWhatItSays
<1>4. SettingsAreRead'
  BY <1>0, AssumedFacts DEF Types, FileTypes, CallTypes, SessionTypes, MachineTypes, Calls, Lifetimes, SettingsAreRead, Named
<1>5. DialsWhatItSays'
  BY <1>0, AssumedFacts DEF Types, FileTypes, CallTypes, SessionTypes, MachineTypes, Calls, Lifetimes, SettingsAreRead, DialsWhatItSays, Named
<1> QED
  BY <1>1, <1>2, <1>3, <1>4, <1>5

LEMMA QuitStep ==
  ASSUME IInv, Quit
  PROVE  Core'
<1> USE DEF IInv, Core, Quit
<1>0. BuiltIn \in Peers /\ NoPeer \notin Peers /\ Defaults \in Settings
  BY AssumedFacts
<1>1. Types'
  BY <1>0, AssumedFacts DEF Types, FileTypes, CallTypes, SessionTypes, MachineTypes
<1>2. Calls'
  BY <1>0, AssumedFacts DEF Types, FileTypes, CallTypes, SessionTypes, MachineTypes, Calls, Lifetimes
<1>3. Lifetimes'
  BY <1>0, AssumedFacts DEF Types, FileTypes, CallTypes, SessionTypes, MachineTypes, Calls, Lifetimes, DialsWhatItSays
<1>4. SettingsAreRead'
  BY <1>0, AssumedFacts DEF Types, FileTypes, CallTypes, SessionTypes, MachineTypes, Calls, Lifetimes, SettingsAreRead, Named
<1>5. DialsWhatItSays'
  BY <1>0, AssumedFacts DEF Types, FileTypes, CallTypes, SessionTypes, MachineTypes, Calls, Lifetimes, SettingsAreRead, DialsWhatItSays, Named
<1> QED
  BY <1>1, <1>2, <1>3, <1>4, <1>5

LEMMA KilledStep ==
  ASSUME IInv, Killed
  PROVE  Core'
BY EndedStep DEF Killed

LEMMA LoadCartStep ==
  ASSUME IInv, LoadCart
  PROVE  Core'
<1> USE DEF IInv, Core, LoadCart
<1>0. BuiltIn \in Peers /\ NoPeer \notin Peers /\ Defaults \in Settings
  BY AssumedFacts
<1>1. Types'
  BY <1>0, AssumedFacts DEF Types, FileTypes, CallTypes, SessionTypes, MachineTypes
<1>2. Calls'
  BY <1>0, AssumedFacts DEF Types, FileTypes, CallTypes, SessionTypes, MachineTypes, Calls, Lifetimes
<1>3. Lifetimes'
  BY <1>0, AssumedFacts DEF Types, FileTypes, CallTypes, SessionTypes, MachineTypes, Calls, Lifetimes, DialsWhatItSays
<1>4. SettingsAreRead'
  BY <1>0, AssumedFacts DEF Types, FileTypes, CallTypes, SessionTypes, MachineTypes, Calls, Lifetimes, SettingsAreRead, Named
<1>5. DialsWhatItSays'
  BY <1>0, AssumedFacts DEF Types, FileTypes, CallTypes, SessionTypes, MachineTypes, Calls, Lifetimes, SettingsAreRead, DialsWhatItSays, Named
<1> QED
  BY <1>1, <1>2, <1>3, <1>4, <1>5

LEMMA FireStep ==
  ASSUME IInv, Fire
  PROVE  Core'
<1> USE DEF IInv, Core, Fire
<1>0. BuiltIn \in Peers /\ NoPeer \notin Peers /\ Defaults \in Settings
  BY AssumedFacts
<1>1. Types'
  BY <1>0, AssumedFacts DEF Types, FileTypes, CallTypes, SessionTypes, MachineTypes
<1>2. Calls'
  BY <1>0, AssumedFacts DEF Types, FileTypes, CallTypes, SessionTypes, MachineTypes, Calls, Lifetimes
<1>3. Lifetimes'
  BY <1>0, AssumedFacts DEF Types, FileTypes, CallTypes, SessionTypes, MachineTypes, Calls, Lifetimes, DialsWhatItSays
<1>4. SettingsAreRead'
  BY <1>0, AssumedFacts DEF Types, FileTypes, CallTypes, SessionTypes, MachineTypes, Calls, Lifetimes, SettingsAreRead, Named
<1>5. DialsWhatItSays'
  BY <1>0, AssumedFacts DEF Types, FileTypes, CallTypes, SessionTypes, MachineTypes, Calls, Lifetimes, SettingsAreRead, DialsWhatItSays, Named
<1> QED
  BY <1>1, <1>2, <1>3, <1>4, <1>5

LEMMA OpenPreferencesStep ==
  ASSUME IInv, OpenPreferences
  PROVE  Core'
<1> USE DEF IInv, Core, OpenPreferences
<1>0. BuiltIn \in Peers /\ NoPeer \notin Peers /\ Defaults \in Settings
  BY AssumedFacts
<1>1. Types'
  <2> USE DEF Types
  <2>1. FileTypes'
    BY <1>0, AssumedFacts DEF FileTypes, CallTypes
  <2>2. CallTypes'
    BY DEF CallTypes
  <2>3. SessionTypes'
    BY <1>0, AssumedFacts DEF SessionTypes, FileTypes
  <2>4. MachineTypes'
    BY <1>0 DEF MachineTypes, SessionTypes
  <2> QED
    BY <2>1, <2>2, <2>3, <2>4
<1>2. Calls'
  BY <1>0, AssumedFacts DEF Types, FileTypes, CallTypes, SessionTypes, MachineTypes, Calls, Lifetimes
<1>3. Lifetimes'
  BY <1>0, AssumedFacts DEF Types, FileTypes, CallTypes, SessionTypes, MachineTypes, Calls, Lifetimes, DialsWhatItSays
<1>4. SettingsAreRead'
  BY <1>0, AssumedFacts DEF Types, FileTypes, CallTypes, SessionTypes, MachineTypes, Calls, Lifetimes, SettingsAreRead, Named
<1>5. DialsWhatItSays'
  BY <1>0, AssumedFacts DEF Types, FileTypes, CallTypes, SessionTypes, MachineTypes, Calls, Lifetimes, SettingsAreRead, DialsWhatItSays, Named
<1> QED
  BY <1>1, <1>2, <1>3, <1>4, <1>5

LEMMA ClosePreferencesStep ==
  ASSUME IInv, ClosePreferences
  PROVE  Core'
<1> USE DEF IInv, Core, ClosePreferences, IsRunning, Restart
<1>0. BuiltIn \in Peers /\ NoPeer \notin Peers /\ Defaults \in Settings
  BY AssumedFacts
<1>1. Types'
  <2> USE DEF Types
  <2>1. FileTypes'
    BY <1>0, AssumedFacts DEF FileTypes, CallTypes
  <2>2. CallTypes'
    BY DEF CallTypes
  <2>3. SessionTypes'
    BY <1>0, AssumedFacts DEF SessionTypes, FileTypes
  <2>4. MachineTypes'
    BY <1>0 DEF MachineTypes, SessionTypes
  <2> QED
    BY <2>1, <2>2, <2>3, <2>4
<1>2. Calls'
  BY <1>0, AssumedFacts DEF Types, FileTypes, CallTypes, SessionTypes, MachineTypes, Calls, Lifetimes
<1>3. Lifetimes'
  BY <1>0, AssumedFacts DEF Types, FileTypes, CallTypes, SessionTypes, MachineTypes, Calls, Lifetimes, DialsWhatItSays
<1>4. SettingsAreRead'
  BY <1>0, AssumedFacts DEF Types, FileTypes, CallTypes, SessionTypes, MachineTypes, Calls, Lifetimes, SettingsAreRead, Named
<1>5. DialsWhatItSays'
  BY <1>0, AssumedFacts DEF Types, FileTypes, CallTypes, SessionTypes, MachineTypes, Calls, Lifetimes, SettingsAreRead, DialsWhatItSays, Named
<1> QED
  BY <1>1, <1>2, <1>3, <1>4, <1>5

LEMMA ImportStep ==
  ASSUME IInv, Import
  PROVE  Core'
<1> USE DEF IInv, Core, Import, IsRunning, Restart
<1>0. BuiltIn \in Peers /\ NoPeer \notin Peers /\ Defaults \in Settings
  BY AssumedFacts
<1>1. Types'
  BY <1>0, AssumedFacts DEF Types, FileTypes, CallTypes, SessionTypes, MachineTypes
<1>2. Calls'
  BY <1>0, AssumedFacts DEF Types, FileTypes, CallTypes, SessionTypes, MachineTypes, Calls, Lifetimes
<1>3. Lifetimes'
  BY <1>0, AssumedFacts DEF Types, FileTypes, CallTypes, SessionTypes, MachineTypes, Calls, Lifetimes, DialsWhatItSays
<1>4. SettingsAreRead'
  BY <1>0, AssumedFacts DEF Types, FileTypes, CallTypes, SessionTypes, MachineTypes, Calls, Lifetimes, SettingsAreRead, Named
<1>5. DialsWhatItSays'
  BY <1>0, AssumedFacts DEF Types, FileTypes, CallTypes, SessionTypes, MachineTypes, Calls, Lifetimes, SettingsAreRead, DialsWhatItSays, Named
<1> QED
  BY <1>1, <1>2, <1>3, <1>4, <1>5

LEMMA DialStep ==
  ASSUME IInv, Dial
  PROVE  Core'
<1> USE DEF IInv, Core, Dial, Connect, Fresh
<1>0. BuiltIn \in Peers /\ NoPeer \notin Peers /\ Defaults \in Settings
  BY AssumedFacts
<1>1. Types'
  BY <1>0, AssumedFacts DEF Types, FileTypes, CallTypes, SessionTypes, MachineTypes
<1>2. Calls'
  BY <1>0, AssumedFacts DEF Types, FileTypes, CallTypes, SessionTypes, MachineTypes, Calls, Lifetimes
<1>3. Lifetimes'
  BY <1>0, AssumedFacts DEF Types, FileTypes, CallTypes, SessionTypes, MachineTypes, Calls, Lifetimes, DialsWhatItSays
<1>4. SettingsAreRead'
  BY <1>0, AssumedFacts DEF Types, FileTypes, CallTypes, SessionTypes, MachineTypes, Calls, Lifetimes, SettingsAreRead, Named
<1>5. DialsWhatItSays'
  BY <1>0, AssumedFacts DEF Types, FileTypes, CallTypes, SessionTypes, MachineTypes, Calls, Lifetimes, SettingsAreRead, DialsWhatItSays, Named
<1> QED
  BY <1>1, <1>2, <1>3, <1>4, <1>5

LEMMA LeaveLoopStep ==
  ASSUME IInv, LeaveLoop
  PROVE  Core'
<1> USE DEF IInv, Core, LeaveLoop
<1>0. BuiltIn \in Peers /\ NoPeer \notin Peers /\ Defaults \in Settings
  BY AssumedFacts
<1>1. Types'
  BY <1>0, AssumedFacts DEF Types, FileTypes, CallTypes, SessionTypes, MachineTypes
<1>2. Calls'
  BY <1>0, AssumedFacts DEF Types, FileTypes, CallTypes, SessionTypes, MachineTypes, Calls, Lifetimes
<1>3. Lifetimes'
  BY <1>0, AssumedFacts DEF Types, FileTypes, CallTypes, SessionTypes, MachineTypes, Calls, Lifetimes, DialsWhatItSays
<1>4. SettingsAreRead'
  BY <1>0, AssumedFacts DEF Types, FileTypes, CallTypes, SessionTypes, MachineTypes, Calls, Lifetimes, SettingsAreRead, Named
<1>5. DialsWhatItSays'
  BY <1>0, AssumedFacts DEF Types, FileTypes, CallTypes, SessionTypes, MachineTypes, Calls, Lifetimes, SettingsAreRead, DialsWhatItSays, Named
<1> QED
  BY <1>1, <1>2, <1>3, <1>4, <1>5

LEMMA ListensStep ==
  ASSUME IInv, Listens
  PROVE  Core'
<1> USE DEF IInv, Core, Listens
<1>0. BuiltIn \in Peers /\ NoPeer \notin Peers /\ Defaults \in Settings
  BY AssumedFacts
<1>1. Types'
  BY <1>0, AssumedFacts DEF Types, FileTypes, CallTypes, SessionTypes, MachineTypes
<1>2. Calls'
  BY <1>0, AssumedFacts DEF Types, FileTypes, CallTypes, SessionTypes, MachineTypes, Calls, Lifetimes
<1>3. Lifetimes'
  BY <1>0, AssumedFacts DEF Types, FileTypes, CallTypes, SessionTypes, MachineTypes, Calls, Lifetimes, DialsWhatItSays
<1>4. SettingsAreRead'
  BY <1>0, AssumedFacts DEF Types, FileTypes, CallTypes, SessionTypes, MachineTypes, Calls, Lifetimes, SettingsAreRead, Named
<1>5. DialsWhatItSays'
  BY <1>0, AssumedFacts DEF Types, FileTypes, CallTypes, SessionTypes, MachineTypes, Calls, Lifetimes, SettingsAreRead, DialsWhatItSays, Named
<1> QED
  BY <1>1, <1>2, <1>3, <1>4, <1>5

LEMMA ChangeStep ==
  ASSUME IInv, NEW new \in Settings, Change(new)
  PROVE  Core'
<1> USE DEF IInv, Core, Change, Set, Flush
<1>0. BuiltIn \in Peers /\ NoPeer \notin Peers /\ Defaults \in Settings
  BY AssumedFacts
<1>1. Types'
  BY <1>0, AssumedFacts DEF Types, FileTypes, CallTypes, SessionTypes, MachineTypes
<1>2. Calls'
  BY <1>0, AssumedFacts DEF Types, FileTypes, CallTypes, SessionTypes, MachineTypes, Calls, Lifetimes
<1>3. Lifetimes'
  BY <1>0, AssumedFacts DEF Types, FileTypes, CallTypes, SessionTypes, MachineTypes, Calls, Lifetimes, DialsWhatItSays
<1>4. SettingsAreRead'
  BY <1>0, AssumedFacts DEF Types, FileTypes, CallTypes, SessionTypes, MachineTypes, Calls, Lifetimes, SettingsAreRead, Named
<1>5. DialsWhatItSays'
  BY <1>0, AssumedFacts DEF Types, FileTypes, CallTypes, SessionTypes, MachineTypes, Calls, Lifetimes, SettingsAreRead, DialsWhatItSays, Named
<1> QED
  BY <1>1, <1>2, <1>3, <1>4, <1>5

(* What only the link changes: its bytes, and who is at its other end never. *)
LEMMA LinkOnlyStep ==
  ASSUME IInv, UNCHANGED <<others, mt, fd>>
  PROVE  Core'
<1> USE DEF IInv, Core
<1>1. Types'
  BY DEF Types, FileTypes, CallTypes, SessionTypes, MachineTypes
<1>2. Calls' /\ Lifetimes'
  BY DEF Calls, Lifetimes
<1>3. SettingsAreRead' /\ DialsWhatItSays'
  BY DEF SettingsAreRead, DialsWhatItSays, Named
<1> QED
  BY <1>1, <1>2, <1>3

-----------------------------------------------------------------------------
(* Every step of the session is a step of its link or leaves the link alone. *)
LEMMA SessionStepsItsLink ==
  ASSUME IInv, [Next]_vars
  PROVE  [LinkNext]_linkVars
<1> USE DEF LinkNext
<1>1. CASE GuiSteps
  BY <1>1 DEF GuiSteps, WriteTmp, RemoveOld, Rename, Stop, Join, StopRuntime, Stored, Ended,
              Start, StartFujiNet, Wait, HostRefused, HostStarted
<1>2. CASE User
  BY <1>2 DEF User, Launch, Quit, Killed, Ended, LoadCart, Fire, OpenPreferences,
              ClosePreferences, Import, Change
<1>3. CASE MachineThread \/ ConsoleAsks
  BY <1>3, AssumedFacts DEF MachineThread, Dial, LeaveLoop, Reads, GivesUp, ConsoleAsks, IInv, Core,
              Types, MachineTypes
<1>4. CASE FujiNets
  BY <1>4 DEF FujiNets, Listens
<1> QED
  BY <1>1, <1>2, <1>3, <1>4 DEF Next, vars

LEMMA InvInit ==
  ASSUME Init
  PROVE  IInv
<1> USE DEF Init, LinkInit
<1>1. LinkInv
  <2>1. LinkTypeOK
    <3>1. buf \in Seq(Tokens) /\ wire \in Seq(Tokens) /\ reading \in BOOLEAN
      BY EmptySeq
    <3> QED
      BY <3>1, LinkBoundsAssumption DEF LinkTypeOK, LinkBoundsAssumption
  <2>2. TakenInOrder /\ ReplyIsAccountedFor
    BY EmptySeq DEF TakenInOrder, ReplyIsAccountedFor, Successes
  <2> QED
    BY <2>1, <2>2 DEF LinkInv
<1>2. Types
  BY AssumedFacts DEF Types, FileTypes, CallTypes, SessionTypes, MachineTypes
<1>3. Calls /\ Lifetimes /\ SettingsAreRead /\ DialsWhatItSays
  BY DEF Calls, Lifetimes, SettingsAreRead, DialsWhatItSays
<1> QED
  BY <1>1, <1>2, <1>3 DEF IInv, Core

LEMMA InvStep ==
  ASSUME IInv, [Next]_vars
  PROVE  IInv'
<1>1. LinkInv'
  BY SessionStepsItsLink, LinkNextStep, LinkBoundsAssumption DEF IInv
<1>2. Core'
  <2>1. CASE GuiSteps
    BY <2>1, WriteTmpStep, RemoveOldStep, RenameStep, StopStep, JoinStep, StopRuntimeStep,
       StoredStep, StartStep, StartFujiNetStep, WaitStep, HostRefusedStep,
       HostStartedStep DEF GuiSteps
  <2>2. CASE User
    BY <2>2, LaunchStep, QuitStep, KilledStep, LoadCartStep, FireStep,
       OpenPreferencesStep, ClosePreferencesStep, ImportStep, ChangeStep DEF User
  <2>3. CASE MachineThread
    <3>1. CASE Reads \/ GivesUp
      BY <3>1, LinkOnlyStep DEF Reads, GivesUp, ReadOn, ReadFrame, Timeout
    <3> QED
      BY <2>3, <3>1, DialStep, LeaveLoopStep DEF MachineThread
  <2>4. CASE ConsoleAsks
    BY <2>4, LinkOnlyStep DEF ConsoleAsks, Request
  <2>5. CASE FujiNets
    <3>1. CASE (Reply \/ Push) /\ UNCHANGED <<others, mt>>
      BY <3>1, LinkOnlyStep DEF Reply, Push
    <3> QED
      BY <2>5, <3>1, ListensStep DEF FujiNets
  <2>6. CASE UNCHANGED vars
    BY <2>6, LinkOnlyStep DEF vars
  <2> QED
    BY <2>1, <2>2, <2>3, <2>4, <2>5, <2>6 DEF Next
<1> QED
  BY <1>1, <1>2 DEF IInv

LEMMA Invariance == Spec => []IInv
<1>1. Init => IInv
  BY InvInit
<1>2. IInv /\ [Next]_vars => IInv'
  BY InvStep
<1> QED
  BY <1>1, <1>2, PTL DEF Spec

-----------------------------------------------------------------------------
(* Every variable of the session and of its link stays in its type, with no  *)
(* more than MaxRequests requests and failures.                              *)
THEOREM SessionTypeOK == Spec => []TypeOK
<1>1. IInv => TypeOK
  BY DEF IInv, LinkInv, Core, Types, FileTypes, CallTypes, SessionTypes, MachineTypes, TypeOK
<1> QED
  BY <1>1, Invariance, PTL

(* A reply that a transaction takes (fujitcp_transact, which cannot see what *)
(* it answers) is never to a request still to come, nor older than the       *)
(* failures of this connection account for, whatever times out, is refused,  *)
(* is pushed in between or arrives late.                                     *)
THEOREM SessionReplyIsAccountedFor == Spec => []ReplyIsAccountedFor
<1>1. IInv => ReplyIsAccountedFor
  BY DEF IInv, LinkInv
<1> QED
  BY <1>1, Invariance, PTL

(* The machine that runs dials the FujiNet that the settings named when it   *)
(* was started, the one that astrosession_boip_endpoint tells the debugger   *)
(* and the window, and no changed setting waits for a restart that nobody    *)
(* asked for.                                                                *)
THEOREM SessionDialsWhatItSays == Spec => []DialsWhatItSays
<1>1. IInv => DialsWhatItSays
  BY DEF IInv, Core
<1> QED
  BY <1>1, Invariance, PTL

(* Between calls a session that does not run has left no host, no thread, no *)
(* link and no built-in FujiNet, but for one whose machine could not start.  *)
THEOREM SessionNothingIsLeft == Spec => []NothingIsLeft
<1>1. IInv => NothingIsLeft
  BY DEF IInv, LinkInv, LinkTypeOK, Core, Types, CallTypes, SessionTypes, MachineTypes, Calls,
         Lifetimes, DialsWhatItSays, NothingIsLeft
<1> QED
  BY <1>1, Invariance, PTL

(* Killed at any step, the settings are the old ones or what was written     *)
(* beside them: the file becomes the temporary one or, where a rename does   *)
(* not replace, goes while that one is there (settings.c's save).            *)
THEOREM SessionFileIsWhole == Spec => FileIsWhole
<1>1. ASSUME IInv, [Next]_vars
      PROVE  [disk' \in {tmp, NoFile} /\ tmp # NoFile]_disk
  <2>1. CASE RemoveOld \/ Rename
    BY <1>1, <2>1 DEF RemoveOld, Rename, IInv, Core, Calls
  <2>2. CASE GuiSteps
    BY <2>1, <2>2 DEF GuiSteps, WriteTmp, Stop, Join, StopRuntime, Stored, Ended,
                      Start, StartFujiNet, Wait, HostRefused, HostStarted
  <2>3. CASE User
    BY <2>3 DEF User, Launch, Quit, Killed, Ended, LoadCart, Fire, OpenPreferences,
                ClosePreferences, Import, Change
  <2>4. CASE MachineThread \/ ConsoleAsks \/ FujiNets \/ UNCHANGED vars
    BY <2>4 DEF MachineThread, Dial, LeaveLoop, Reads, GivesUp, ConsoleAsks, FujiNets,
                Listens, vars
  <2> QED
    BY <1>1, <2>2, <2>3, <2>4 DEF Next
<1> QED
  BY <1>1, Invariance, PTL DEF Spec, FileIsWhole
=============================================================================
