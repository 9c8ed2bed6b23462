------------------------------ MODULE CommandMC -----------------------------
(* An instance of the command for TLC: 5-bit int64, 2-bit ports.           *)
EXTENDS Command

CONSTANTS ip1, ip2, mapped1     \* mapped1 is the IPv6 form of ip1

I(v) == [type |-> "int64", value |-> v]
U(v) == [type |-> "uint64", value |-> v]
NotInt == [type |-> "string"]

\* Around zero, around the largest whole number of seconds, and values whose
\* product with Second wraps to a positive duration.
mcIntervals == {I(-1), I(0), I(1), I(5), I(6), I(15), U(0), U(16), U(22), U(31), NotInt}

P(ip, n, id) == [isDict |-> TRUE, ip |-> ip, port |-> n, peerID |-> id]
mcListed ==
    {P(ip1, I(1), "absent"), P(ip2, I(3), "given"), P(ip1, I(4), "absent"), P(ip1, I(5), "absent"),
     P(ip1, I(0), "absent"), P(ip1, I(-1), "absent"), P(ip1, U(17), "absent"), P(ip1, NotInt, "absent"),
     P("invalid", I(1), "absent"), P(ip1, I(1), "invalid"), [P(ip1, I(1), "absent") EXCEPT !.isDict = FALSE]}

mcChunks == {[ip |-> ip1, port |-> 0], [ip |-> ip2, port |-> 3]}
Upto2(S) == {<<>>} \cup {<<x>> : x \in S} \cup {<<x, y>> : x, y \in S}

mcPeers ==
    {[type |-> "list", list |-> l] : l \in Upto2(mcListed)}
    \cup {[type |-> "string", chunks |-> c, extra |-> e] : c \in Upto2(mcChunks), e \in {0, 5}}
    \cup {[type |-> "int64"]}

\* Longer lists that name one endpoint in both forms.
mcRepeats ==
    LET valid == {P(ip1, I(1), "absent"), P(mapped1, I(1), "given"), P(ip2, I(3), "absent"), P(ip1, I(3), "absent")}
    IN  [type : {"list"}, list : [1..3 -> valid]]

mcBodies ==
    {[form |-> "undecodable"], [form |-> "value"]}
    \cup [form : {"dict"}, failure : {FALSE}, interval : mcIntervals, peers : mcPeers]
    \cup [form : {"dict"}, failure : {FALSE}, interval : {I(1)}, peers : mcRepeats]
    \cup [form : {"dict"}, failure : {TRUE}, interval : {I(1)}, peers : {[type |-> "int64"]}]

mcResponses ==
    [status : {200}, body : mcBodies] \cup [status : {199, 300}, body : {[form |-> "undecodable"]}]
mcPorts == {0, 1, 3, 4, 5}
mcMappedTo == [a \in {mapped1} |-> ip1]
mcOptions == [MaxConcurrent : {-1, 0, 1, 2, 3}, AttemptTimeout : {0, 1}]
mcFollowed == {[PieceLength |-> 1, Length |-> 1, Pieces |-> 2]}
mcDefaultFlags == <<1, {}>>
Pair(k, v) == [key |-> k, value |-> v, wellFormed |-> TRUE]
mcBaseQueries ==
    {{}, {Pair("passkey", 1), Pair("passkey", 2)},
     {Pair("passkey", 1), Pair("port", 2), Pair("compact", 1), Pair("event", 1)},
     {Pair("passkey", 1), [Pair("passkey", 2) EXCEPT !.wellFormed = FALSE]}}
=============================================================================
