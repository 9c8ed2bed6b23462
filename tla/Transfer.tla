------------------------------ MODULE Transfer ------------------------------
(***************************************************************************)
(* A session (module Session) and a well-behaved peer, joined by the two   *)
(* directions of their connection.  Messages are delivered in order, which *)
(* module Wire shows, but either side may have sent many more before the   *)
(* other reads the first: a Choke crosses a Request, an Unchoke follows    *)
(* before either was read.                                                 *)
(*                                                                         *)
(* The peer is outside this repository.  It sends its Bitfield first or    *)
(* not at all, announces each new piece, drops what was requested when it  *)
(* chokes, ignores requests while it chokes, and answers all others.       *)
(***************************************************************************)
EXTENDS Session, SequencesExt

CONSTANTS
    MaxCalls,   \* bound on the calls of FetchPiece
    MaxChokes   \* bound on the peer's Choke messages

ASSUME TransferAssumption == {MaxCalls, MaxChokes} \subseteq Nat

VARIABLES
    toPeer, toUs,           \* messages sent and not yet read
    peerHas, peerChoking, peerInterest,
    opened,                 \* the peer has sent its Bitfield or left it out
    pending,                \* requests the peer is going to answer
    calls, chokes,
    givenUp                 \* history: requests that calls left unanswered

peerVars == <<peerHas, peerChoking, peerInterest, opened, pending, chokes>>
historyVars == <<calls, givenUp>>
allVars == <<vars, toPeer, toUs, peerVars, historyVars>>

TInit ==
    /\ Init
    /\ toPeer = <<>> /\ toUs = <<>>
    /\ peerHas \in SUBSET Pieces /\ peerChoking = TRUE /\ peerInterest = FALSE
    /\ opened = FALSE /\ pending = <<>> /\ chokes = 0
    /\ calls = 0 /\ givenUp = {}

-----------------------------------------------------------------------------
(* Our side.                                                               *)

CallFetchPiece(i, length) ==
    /\ calls < MaxCalls /\ calls' = calls + 1
    /\ FetchPiece(i, length)
    /\ UNCHANGED <<toPeer, toUs, peerVars, givenUp>>

\* SendInterested, SetupDone and RequestBlock, with the message they write.
Proceed ==
    /\ SendInterested \/ SetupDone \/ RequestBlock
    /\ toPeer' = CASE interested' # interested -> Append(toPeer, [id |-> "interested"])
                   [] requested' # requested ->
                          Append(toPeer, [id |-> "request", index |-> piece.Index,
                                          begin |-> Last(requested').begin,
                                          length |-> Last(requested').length])
                   [] OTHER -> toPeer
    /\ UNCHANGED <<toUs, peerVars, historyVars>>

\* The request that FetchPiece is waiting for.
wanted == [index |-> piece.Index, begin |-> blockOffset, length |-> blockLength]

\* The next message is read, inside FetchPiece or between two calls.  A Choke
\* makes FetchPiece give up its request.
ReadNext ==
    /\ toUs # <<>> /\ toUs' = Tail(toUs)
    /\ LET m == Head(toUs)
       IN  ReadIdle(m) \/ ReadAdvertisement(m) \/ ReadUnchoke(m) \/ AwaitBlock(m)
    /\ givenUp' = IF pc = "await" /\ result' = "choked" THEN givenUp \cup {wanted} ELSE givenUp
    /\ UNCHANGED <<toPeer, peerVars, calls>>

\* A deadline or the end of the stream; nothing else ends a read.
TimesOut ==
    /\ ReadFails("io") \/ ReadIdleFails
    /\ UNCHANGED <<toPeer, toUs, peerVars, historyVars>>

-----------------------------------------------------------------------------
(* The peer.                                                               *)

Sends(m) == toUs' = Append(toUs, m)
OurSide == <<vars, historyVars>>

PeerOpens ==
    /\ ~opened /\ opened' = TRUE
    /\ \/ Sends([id |-> "bitfield", pieces |-> peerHas])
       \/ peerHas = {} /\ UNCHANGED toUs
    /\ UNCHANGED <<OurSide, toPeer, peerHas, peerChoking, peerInterest, pending, chokes>>

PeerAcquires(i) ==
    /\ opened /\ i \notin peerHas /\ peerHas' = peerHas \cup {i}
    /\ Sends([id |-> "have", index |-> i])
    /\ UNCHANGED <<OurSide, toPeer, peerChoking, peerInterest, opened, pending, chokes>>

PeerUnchokes ==
    /\ opened /\ peerChoking /\ peerChoking' = FALSE
    /\ Sends([id |-> "unchoke"])
    /\ UNCHANGED <<OurSide, toPeer, peerHas, peerInterest, opened, pending, chokes>>

PeerChokes ==
    /\ opened /\ ~peerChoking /\ peerChoking' = TRUE
    /\ chokes < MaxChokes /\ chokes' = chokes + 1
    /\ Sends([id |-> "choke"]) /\ pending' = <<>>
    /\ UNCHANGED <<OurSide, toPeer, peerHas, peerInterest, opened>>

PeerReads ==
    /\ toPeer # <<>> /\ toPeer' = Tail(toPeer)
    /\ LET m == Head(toPeer)
       IN  /\ peerInterest' = (peerInterest \/ m.id = "interested")
           /\ pending' = IF m.id = "request" /\ ~peerChoking THEN Append(pending, m) ELSE pending
    /\ UNCHANGED <<OurSide, toUs, peerHas, peerChoking, opened, chokes>>

PeerServes ==
    /\ pending # <<>> /\ pending' = Tail(pending)
    /\ LET r == Head(pending)
       IN  Sends([id |-> "piece", index |-> r.index, begin |-> r.begin, length |-> r.length])
    /\ UNCHANGED <<OurSide, toPeer, peerHas, peerChoking, peerInterest, opened, chokes>>

-----------------------------------------------------------------------------

TNext ==
    \/ \E i \in 0..pieceCount, length \in Lengths : CallFetchPiece(i, length)
    \/ Proceed \/ ReadNext \/ TimesOut
    \/ PeerOpens \/ PeerUnchokes \/ PeerChokes \/ PeerReads \/ PeerServes
    \/ \E i \in Pieces : PeerAcquires(i)

\* FetchPiece runs on; the peer reads, serves, and unchokes who is interested.
\* Deadlines are not needed and may never strike.
TFairSpec ==
    /\ TInit /\ [][TNext]_allVars
    /\ WF_allVars(Proceed) /\ WF_allVars(pc # "idle" /\ ReadNext)
    /\ WF_allVars(PeerOpens) /\ WF_allVars(PeerReads) /\ WF_allVars(PeerServes)
    /\ WF_allVars(peerInterest /\ PeerUnchokes)

-----------------------------------------------------------------------------
(* Properties.                                                             *)

\* Whether the peer is choking us after the messages s, if it was before.
ChokedAfter(s, before) ==
    LET AboutChoking(k) == s[k].id \in {"choke", "unchoke"}
    IN  IF \E k \in 1..Len(s) : AboutChoking(k)
        THEN \E k \in 1..Len(s) :
                 s[k].id = "choke" /\ \A j \in 1..Len(s) : j > k => ~AboutChoking(j)
        ELSE before

\* The pieces that the messages s advertise.
Advertised(m) ==
    IF m.id = "bitfield" THEN m.pieces ELSE IF m.id = "have" THEN {m.index} ELSE {}

AdvertisedIn(s) == UNION {Advertised(s[k]) : k \in 1..Len(s)}

\* The session's view is the peer's state, delayed: the messages still under way
\* turn one into the other.
ViewsConverge ==
    usable /\ opened =>
        /\ peerChoking <=> ChokedAfter(toUs, choked)
        /\ peerHas = peerPieces \cup AdvertisedIn(toUs)

Answers(m, r) == m.index = r.index /\ m.begin = r.begin /\ m.length = r.length

\* Only one kind of message of a well-behaved peer is ever held against it
\* (ErrPeerProtocol, ErrMalformedFrame) and ends the session: the answer to a
\* request that an earlier call gave up at a Choke.  It still arrives when the peer
\* unchoked before it read the request.
HonestPeerNotBlamed ==
    [][toUs # <<>> /\ toUs' = Tail(toUs) /\ usable /\ ~usable' =>
           Head(toUs).id = "piece" /\ \E r \in givenUp : Answers(Head(toUs), r)]_allVars

\* No call waits for ever for a peer that waits for us: if the peer has the
\* piece, FetchPiece returns without the help of any deadline, whatever Choke,
\* Unchoke and Request messages cross each other.
CallAnswered == (pc # "idle" /\ piece.Index \in peerHas) ~> (pc = "idle")
=============================================================================
