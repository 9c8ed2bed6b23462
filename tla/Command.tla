------------------------------- MODULE Command ------------------------------
(***************************************************************************)
(* What the download-piece command (cmd/bt/main.go) does before it has a   *)
(* connection: it opens the torrent and computes the byte range of the     *)
(* piece (Metainfo), announces itself (Tracker), and passes the endpoints  *)
(* that the tracker returned to DialFirst, which makes a pool of them      *)
(* (NewPool), under one context.  The announce and handshake commands take *)
(* the same steps without the range, or without the pool.                  *)
(***************************************************************************)
EXTENDS Tracker

CONSTANTS
    UintSize, hashLength, MaxPiecesBytes, MaxIndex,     \* of Metainfo
    maxConcurrentDials, maxWaitingCandidates,           \* of NewPool
    Addresses,      \* IPv4 addresses
    mappedTo,       \* IPv6 address |-> the IPv4 address that it maps
    Options,        \* DialOptions of a caller; the commands have one of them
    Followed,       \* bound: the torrents with which the announce is explored
    DefaultFlags    \* bound: the <<port, base>> with which all others are

ASSUME CommandAssumption ==
    /\ {UintSize, hashLength, maxConcurrentDials, maxWaitingCandidates} \subseteq Nat \ {0}
    /\ {MaxPiecesBytes, MaxIndex} \subseteq Nat

VARIABLES
    declared, torrent, range, mpc,                              \* of Metainfo
    addrs, MaxConcurrent, AttemptTimeout, npc, i, seen, unique, pool   \* of NewPool

layoutVars == <<declared, torrent, range, mpc>>
poolVars == <<addrs, MaxConcurrent, AttemptTimeout, npc, i, seen, unique, pool>>
commandVars == <<vars, layoutVars, poolVars>>

Layout == INSTANCE Metainfo WITH pc <- mpc

Dialling == INSTANCE NewPool WITH
    Hosts <- Addresses \X (0..(PortSize - 1)),
    pc <- npc,
    ctxErr <- IF ctxDone THEN "canceled" ELSE "nil"

CommandInit == Init /\ Layout!Init /\ Dialling!Init

\* The torrent is opened and the range computed before the announce begins.
Opens ==
    /\ pc = "flags" /\ portFlagValid
    /\ Layout!Next
    /\ declared' \in Followed \/ <<port, base>> = DefaultFlags
    /\ UNCHANGED <<vars, poolVars>>

\* A step of the announce, which starts once there is a range.
Announces(A) ==
    /\ A
    /\ pc = "flags" /\ pc' = "url" => mpc = "ranged" /\ declared \in Followed
    /\ UNCHANGED <<layoutVars, poolVars>>

\* The loop that copies response.Peers to addrs.
AddrPort(peer) ==
    IF peer.ip \in DOMAIN mappedTo
    THEN [host |-> <<mappedTo[peer.ip], peer.port>>, mapped |-> TRUE]
    ELSE [host |-> <<peer.ip, peer.port>>, mapped |-> FALSE]

\* DialFirst hands the endpoints to NewPool.
Dials(options) ==
    /\ Succeeded /\ UNCHANGED <<vars, layoutVars>>
    /\ Dialling!Call([k \in DOMAIN result.Peers |-> AddrPort(result.Peers[k])], options)

DialStep == UNCHANGED <<vars, layoutVars>> /\ Dialling!Next

\* The command's timeout expires while the pool is made.
TimeUpInPool ==
    /\ npc \in {"validate", "unique"} /\ ~ctxDone /\ ctxDone' = TRUE
    /\ UNCHANGED <<pc, inputs, query, response, body, result, layoutVars, poolVars>>

CommandNext ==
    \/ Opens
    \/ Announces(Next)
    \/ \E options \in Options : Dials(options)
    \/ DialStep
    \/ TimeUpInPool

CommandSpec == CommandInit /\ [][CommandNext]_commandVars

\* The client's own steps and the timer go on; the tracker may never answer.
CommandFairSpec ==
    /\ CommandSpec
    /\ WF_commandVars(Announces(Client)) /\ WF_commandVars(Announces(TimeUp))

-----------------------------------------------------------------------------
(* Properties of the parts, over the whole command.                        *)

\* An accepted torrent has one hash for every piece and none besides: the
\* pieces before the last are full, the last is not empty and ends with the
\* content, at the largest int64 lengths too.
PiecesTile == Layout!PiecesTile

\* The byte range the command downloads is exactly that of the piece asked
\* for: the multiplication has not wrapped and the range lies in the content.
RangeExact == Layout!RangeExact

\* NewPool returns a pool only with what module Pool assumes: every endpoint of
\* the response once, whichever way the tracker writes it, a worker, and room for
\* the candidates that the slots allow.
PoolPreconditions == Dialling!PoolPreconditions
=============================================================================
