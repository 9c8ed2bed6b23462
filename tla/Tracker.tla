------------------------------- MODULE Tracker ------------------------------
(***************************************************************************)
(* One tracker announce: the command's checks (cmd/bt/main.go), Announce   *)
(* and buildTrackerURL (internal/tracker/client.go), and the decoding of   *)
(* the response (response.go) under the widths of Go's integers.           *)
(*                                                                         *)
(* The tracker, the HTTP client and the bencode decoder are outside this   *)
(* repository.  A decoded integer is an int64, or a uint64 when it is too  *)
(* large for one.                                                          *)
(***************************************************************************)
EXTENDS Integers, SequencesExt

CONSTANTS
    IntSize,        \* 2^63: an int64 or time.Duration lies in -IntSize..IntSize-1
    PortSize,       \* 2^16
    Second,         \* time.Second in nanoseconds
    Ports,          \* values of the --port flag
    BaseQueries,    \* queries of tracker URLs: sets of [key, value, wellFormed]
    Responses       \* HTTP responses: [status, body]

ASSUME TrackerAssumption ==
    /\ IntSize \in Nat \ {0} /\ PortSize \in 2..IntSize /\ Second \in 1..(IntSize - 1)
    /\ Ports \subseteq Nat

\* A list of values, as the bencode decoder returns it.
IsList(s) == s \in Seq({s[k] : k \in DOMAIN s})

\* What a decoded response is: a number has a value, a list is a list.
ASSUME ResponsesAssumption ==
    \A r \in Responses :
        /\ r.body.form \in {"undecodable", "value", "dict"}
        /\ r.body.form = "dict" =>
            /\ r.body.failure \in BOOLEAN
            /\ r.body.interval.type \in {"int64", "uint64"} => r.body.interval.value \in Int
            /\ r.body.peers.type = "string" => IsList(r.body.peers.chunks)
            /\ r.body.peers.type = "list" =>
                   /\ IsList(r.body.peers.list)
                   /\ \A k \in DOMAIN r.body.peers.list :
                          LET v == r.body.peers.list[k].port
                          IN  r.body.peers.list[k].isDict /\ v.type \in {"int64", "uint64"} => v.value \in Int

VARIABLES
    pc,             \* control of the command inside Announce
    port, base,     \* the flag, and the query of the tracker URL
    query,          \* the query of the request: a set of [key, value]
    ctxDone,        \* the context or the client's timeout has expired
    response,       \* the HTTP response, once there is one
    body,           \* "none", "open" or "closed"
    result          \* [err, Interval, Peers]

inputs == <<port, base>>
vars == <<pc, inputs, query, ctxDone, response, body, result>>

NoResult == [err |-> "none", Interval |-> 0, Peers |-> <<>>]
Error(e) == [err |-> e, Interval |-> 0, Peers |-> <<>>]

\* A conversion to int64 of a value in range of uint64 or of a product.
wrap(v) == ((v + IntSize) % (2 * IntSize)) - IntSize

-----------------------------------------------------------------------------
(* response.go.                                                            *)

IsInt(v) == v.type \in {"int64", "uint64"}

maxSeconds == (IntSize - 1) \div Second

intervalValidUnlimited(v) == IsInt(v) /\ v.value > 0

intervalValid(v) == IsInt(v) /\ v.value > 0 /\ v.value <= maxSeconds

\* parseInterval of a valid value: time.Duration(seconds) * time.Second
parseInterval(v) == wrap(wrap(v.value) * Second)

portValid(v) == IsInt(v) /\ v.value > 0 /\ v.value < PortSize

\* uint16(port)
parsePort(v) == v.value % PortSize

\* The checks of parseDictPeers on one entry, parsePeerID included.
peerValid(p) ==
    p.isDict /\ p.ip # "invalid" /\ portValid(p.port) /\ p.peerID # "invalid"

Peer(p) == [ip |-> p.ip, port |-> parsePort(p.port), peerID |-> p.peerID]

CompactPeer(c) == [ip |-> c.ip, port |-> c.port, peerID |-> "absent"]

Refused == [ok |-> FALSE]

\* parseDictPeers: one invalid entry refuses the list.
parseDictPeers(list) ==
    IF \E k \in DOMAIN list : ~peerValid(list[k]) THEN Refused
    ELSE [ok |-> TRUE, peers |-> [k \in DOMAIN list |-> Peer(list[k])]]

\* parseCompactPeers: whole chunks of six bytes, extra bytes are refused.
parseCompactPeers(p) ==
    IF p.extra # 0 THEN Refused
    ELSE [ok |-> TRUE, peers |-> [k \in DOMAIN p.chunks |-> CompactPeer(p.chunks[k])]]

\* The switch on the type of dict["peers"].
parsePeers(p) ==
    CASE p.type = "string" -> parseCompactPeers(p)
      [] p.type = "list" -> parseDictPeers(p.list)
      [] OTHER -> Refused

\* decodeAnnounceResponse
decodeAnnounceResponse(b) ==
    CASE b.form = "undecodable" -> Error("bencode")
      [] b.form = "value" -> Error("notDictionary")
      [] b.form = "dict" /\ b.failure -> Error("failure")
      [] b.form = "dict" /\ ~b.failure /\ ~intervalValid(b.interval) -> Error("interval")
      [] b.form = "dict" /\ ~b.failure /\ intervalValid(b.interval) ->
             LET p == parsePeers(b.peers)
             IN  IF ~p.ok THEN Error("peers")
                 ELSE [err |-> "nil", Interval |-> parseInterval(b.interval), Peers |-> p.peers]

-----------------------------------------------------------------------------
(* client.go and the command around it.                                    *)

Return(r) == pc' = "returned" /\ result' = r

portFlagValid == port # 0 /\ port < PortSize

\* The checks of the flags; Open and newPeerID may fail as well.
Start ==
    /\ pc = "flags"
    /\ \/ portFlagValid /\ pc' = "url" /\ UNCHANGED result
       \/ Return(Error("command"))
    /\ UNCHANGED <<inputs, query, ctxDone, response, body>>

\* The announce fields that buildTrackerURL sets; event is empty or not.
Announced == {"info_hash", "peer_id", "uploaded", "downloaded", "left", "compact"}

Keys(event) == Announced \cup {"port"} \cup (IF event = "" THEN {} ELSE {"event"})

\* Values are numbers: own is what AnnounceRequest holds for the key.
own == 0

Fields(event) ==
    {[key |-> k, value |-> IF k = "port" THEN port % PortSize ELSE own] : k \in Keys(event)}

\* base.Query(), with keys and values unescaped: it silently drops a pair with a
\* semicolon or a wrong escape.
Query(u) == {[key |-> p.key, value |-> p.value] : p \in {q \in u : q.wellFormed}}

buildQueryAdds(event) == Query(base) \cup Fields(event)

\* keys.Set replaces all values of its key; keys.Encode() writes the rest too.
buildQuery(event) ==
    {p \in Query(base) : p.key \notin Keys(event)} \cup Fields(event)

buildTrackerURL(event) ==
    /\ pc = "url"
    /\ \/ pc' = "do" /\ query' = buildQuery(event) /\ UNCHANGED result
       \/ Return(Error("url")) /\ UNCHANGED query
    /\ UNCHANGED <<inputs, ctxDone, response, body>>

\* client.Do returns a response with an open body.
Do(r) ==
    /\ pc = "do" /\ ~ctxDone
    /\ response' = r /\ body' = "open" /\ pc' = "status"
    /\ UNCHANGED <<inputs, query, ctxDone, result>>

DoFailsIgnoringContext ==
    /\ pc = "do" /\ ~ctxDone /\ Return(Error("network"))
    /\ UNCHANGED <<inputs, query, ctxDone, response, body>>

\* client.Do fails: the network, or the timeout.
DoFails ==
    /\ pc = "do" /\ Return(Error(IF ctxDone THEN "context" ELSE "network"))
    /\ UNCHANGED <<inputs, query, ctxDone, response, body>>

statusValid == response.status \in 200..299

\* defer res.Body.Close() runs on every return from here on.
closesBody == "closed"

CheckStatus ==
    /\ pc = "status"
    /\ IF statusValid THEN pc' = "decode" /\ UNCHANGED <<result, body>>
       ELSE Return(Error("status")) /\ body' = closesBody
    /\ UNCHANGED <<inputs, query, ctxDone, response>>

\* The body arrives within the limit of 2 MiB and is decoded.
Decode ==
    /\ pc = "decode" /\ ~ctxDone
    /\ Return(decodeAnnounceResponse(response.body)) /\ body' = closesBody
    /\ UNCHANGED <<inputs, query, ctxDone, response>>

\* The body is longer than the limit, breaks off, or takes too long.
DecodeFails ==
    /\ pc = "decode"
    /\ Return(Error(IF ctxDone THEN "context" ELSE "bencode")) /\ body' = closesBody
    /\ UNCHANGED <<inputs, query, ctxDone, response>>

\* The command's timeout, which the context and the client share.
TimeUp ==
    /\ pc \in {"do", "status", "decode"} /\ ~ctxDone /\ ctxDone' = TRUE
    /\ UNCHANGED <<pc, inputs, query, response, body, result>>

Init ==
    /\ pc = "flags" /\ port \in Ports /\ base \in BaseQueries
    /\ query = {} /\ ctxDone = FALSE
    /\ response = [status |-> 0] /\ body = "none" /\ result = NoResult

Client ==
    \/ Start
    \/ \E event \in {"", "started"} : buildTrackerURL(event)
    \/ ctxDone /\ DoFails
    \/ CheckStatus
    \/ ctxDone /\ DecodeFails

Next ==
    \/ Client
    \/ \E r \in Responses : Do(r)
    \/ DoFails
    \/ Decode
    \/ DecodeFails
    \/ TimeUp

Spec == Init /\ [][Next]_vars

-----------------------------------------------------------------------------
(* Properties.                                                             *)

Succeeded == pc = "returned" /\ result.err = "nil"

Values(q, key) == {p.value : p \in {r \in q : r.key = key}}
WellFormed(u) == {p \in u : p.wellFormed}

\* Whatever the query of the tracker URL holds, the tracker finds exactly one
\* value for each of our fields, our own, with the port of the flag; and for every
\* other key (a passkey) exactly the values of its well-formed pairs in the URL.
\* An event in the URL stays only if we send none.
RequestExact ==
    pc = "do" =>
        /\ Values(query, "port") = {port} /\ port # 0
        /\ \A key \in Announced : Values(query, key) = {own}
        /\ \A key \in {p.key : p \in base \cup query} \ Keys("started") :
               Values(query, key) = Values(WellFormed(base), key)
        /\ Values(query, "event") \in {{own}, Values(WellFormed(base), "event")}

Listed == IF response.body.peers.type = "string" THEN response.body.peers.chunks
          ELSE response.body.peers.list

\* A response is taken as a whole or refused as a whole.  On success every
\* number has survived its narrowing (the interval is the positive number of
\* seconds that was sent, not the rest of an overflow; a listed port is the same
\* port) and all peers are there in order.  On an error no peer is returned.
ResponseExact ==
    /\ Succeeded =>
           /\ result.Interval > 0
           /\ result.Interval = response.body.interval.value * Second
           /\ Len(result.Peers) = Len(Listed)
           /\ \A k \in DOMAIN Listed : result.Peers[k].ip = Listed[k].ip
           /\ response.body.peers.type = "list" =>
                  \A k \in DOMAIN Listed :
                      result.Peers[k].port = Listed[k].port.value /\ result.Peers[k].port # 0
    /\ ~Succeeded => result.Peers = <<>>

\* Announce returns although the tracker may accept the request and stay silent,
\* and whatever way it returns, a response body it was given is closed.
AnnounceReturns == <>(pc = "returned" /\ body # "open")
=============================================================================
