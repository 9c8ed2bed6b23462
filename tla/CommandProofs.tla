---------------------------- MODULE CommandProofs ---------------------------
(***************************************************************************)
(* Proofs about what the download-piece command computes before it has a   *)
(* connection, for every width of the integers, every torrent, tracker     *)
(* response and list of endpoints.                                         *)
(***************************************************************************)
EXTENDS Command, TLAPS

\* Facts about Go's integer operations, for operands in range.
LEMMA ModSmall ==
  ASSUME NEW m \in Nat \ {0}, NEW x \in 0..(m - 1)
  PROVE  x % m = x
  OBVIOUS

LEMMA DivFloor ==
  ASSUME NEW y \in Nat \ {0}, NEW x \in Nat
  PROVE  x \div y \in Nat /\ (x \div y) * y <= x /\ x < (x \div y + 1) * y
  OBVIOUS

LEMMA MulMonotonic ==
  ASSUME NEW x \in Nat, NEW y \in Nat, NEW p \in Nat, x <= y
  PROVE  x * p \in Nat /\ x * p <= y * p
  OBVIOUS

-----------------------------------------------------------------------------
(* The piece layout and the byte range of a piece.                         *)

\* An int64 expression whose exact value fits has that value.
LEMMA LayoutWrap ==
  ASSUME NEW v \in 0..(IntSize - 1)
  PROVE  Layout!wrap(v) = v
  <1>1. IntSize \in Nat \ {0}
    BY TrackerAssumption DEF TrackerAssumption
  <1>2. 2 * IntSize \in Nat \ {0} /\ v + IntSize \in 0..(2 * IntSize - 1)
    BY <1>1
  <1>3. (v + IntSize) % (2 * IntSize) = v + IntSize
    BY <1>2, ModSmall
  <1> QED BY <1>1, <1>3 DEF Layout!wrap

\* The torrent that Open returned: its lengths are in range, and its hashes are
\* as many as the pieces of the content.
TorrentFits ==
    /\ torrent.PieceLength \in 1..(IntSize - 1) /\ torrent.Length \in 0..(IntSize - 1)
    /\ torrent.PieceHashes \in Nat
    /\ IF torrent.Length = 0 THEN torrent.PieceHashes = 0
       ELSE /\ (torrent.PieceHashes - 1) * torrent.PieceLength < torrent.Length
            /\ torrent.Length <= torrent.PieceHashes * torrent.PieceLength

LayoutInv ==
    /\ mpc \in {"index", "ranged"} => TorrentFits
    /\ RangeExact

\* The rounding of expectedPieceCount is exact and does not overflow.
LEMMA CountExact ==
  ASSUME NEW p \in 1..(IntSize - 1), NEW l \in 1..(IntSize - 1),
         NEW d, d.PieceLength = p, d.Length = l
  PROVE  LET n == Layout!expectedPieceCount(d)
         IN  n \in Nat /\ (n - 1) * p < l /\ l <= n * p
  <1> DEFINE q == (l - 1) \div p
  <1>1. IntSize \in Nat \ {0}
    BY TrackerAssumption DEF TrackerAssumption
  <1>2. l - 1 \in Nat /\ p \in Nat \ {0}
    BY <1>1
  <1>3. q \in Nat /\ q * p <= l - 1 /\ l - 1 < (q + 1) * p
    BY <1>2, DivFloor
  <1>4. Layout!wrap(l - 1) = l - 1
    BY <1>1, <1>2, LayoutWrap
  <1>5. q <= l - 1
    BY <1>2, <1>3
  <1> HIDE DEF q
  <1>6. Layout!wrap(1 + q) = 1 + q
    BY <1>1, <1>3, <1>5, LayoutWrap
  <1>7. Layout!expectedPieceCount(d) = 1 + q
    BY <1>1, <1>2, <1>4, <1>6 DEF Layout!expectedPieceCount, Layout!quotient, q
  <1> QED BY <1>2, <1>3, <1>7

\* Open accepts a torrent only if it fits.
LEMMA OpenFits ==
  ASSUME NEW d \in Layout!Declared, Layout!Open(d), mpc' = "index"
  PROVE  TorrentFits'
  <1>1. IntSize \in Nat \ {0} /\ hashLength \in Nat \ {0} /\ MaxPiecesBytes \in Nat
    BY TrackerAssumption, CommandAssumption DEF TrackerAssumption, CommandAssumption
  <1>2. /\ Layout!layoutValid(d)
        /\ torrent' = [PieceHashes |-> Layout!hashCount(d),
                       PieceLength |-> d.PieceLength, Length |-> d.Length]
    BY DEF Layout!Open
  <1>3. /\ d.PieceLength \in 1..(IntSize - 1) /\ d.Length \in 0..(IntSize - 1)
        /\ Layout!hashCount(d) = Layout!expectedPieceCount(d)
    BY <1>1, <1>2 DEF Layout!Declared, Layout!Int64, Layout!layoutValid
  <1>4. CASE d.Length = 0
    BY <1>1, <1>2, <1>3, <1>4 DEF TorrentFits, Layout!expectedPieceCount
  <1>5. CASE d.Length # 0
    BY <1>1, <1>2, <1>3, <1>5, CountExact DEF TorrentFits
  <1> QED BY <1>4, <1>5

\* The command's arithmetic on a piece index that passed the check is exact.
LEMMA RangeFits ==
  ASSUME TorrentFits, NEW k \in 0..MaxIndex, Layout!PieceRange(k), mpc' = "ranged"
  PROVE  RangeExact'
  <1> DEFINE p == torrent.PieceLength
             l == torrent.Length
             n == torrent.PieceHashes
             start == Layout!wrap(k * p)
             rest == Layout!wrap(l - start)
             length == IF p < rest THEN p ELSE rest
  <1>1. IntSize \in Nat \ {0} /\ MaxIndex \in Nat /\ k \in Nat
    BY TrackerAssumption, CommandAssumption DEF TrackerAssumption, CommandAssumption
  <1>2. /\ k < n /\ length > 0
        /\ range' = [index |-> k, start |-> start, length |-> length] /\ torrent' = torrent
    BY DEF Layout!PieceRange, Layout!indexCheck
  <1>3. p \in 1..(IntSize - 1) /\ l \in 0..(IntSize - 1) /\ n \in Nat
    BY DEF TorrentFits
  <1>4. (n - 1) * p < l
    BY <1>1, <1>2, <1>3 DEF TorrentFits
  <1>5. k * p \in Nat /\ k * p <= (n - 1) * p
    BY <1>1, <1>2, <1>3, MulMonotonic
  <1>6. k * p < l
    BY <1>1, <1>3, <1>4, <1>5
  <1>7. start = k * p
    BY <1>1, <1>3, <1>5, <1>6, LayoutWrap
  <1>8. rest = l - k * p
    BY <1>1, <1>3, <1>5, <1>6, <1>7, LayoutWrap
  <1>9. length \in 1..p /\ k * p + length <= l /\ (length < p => k * p + length = l)
    BY <1>1, <1>2, <1>3, <1>5, <1>6, <1>8
  <1>10. range'.start = k * p /\ range'.index = k /\ range'.length = length
    BY <1>2, <1>7
  <1> HIDE DEF length, rest, start
  <1> QED BY <1>2, <1>9, <1>10 DEF RangeExact, Layout!RangeExact

LEMMA InitLayout == CommandInit => LayoutInv
  BY DEF CommandInit, Layout!Init, LayoutInv, RangeExact, Layout!RangeExact

\* Opening the torrent and computing the range are the only steps that matter.
LEMMA NextLayout == LayoutInv /\ [CommandNext]_commandVars => LayoutInv'
  <1> SUFFICES ASSUME LayoutInv, [CommandNext]_commandVars PROVE LayoutInv'
    OBVIOUS
  <1>1. CASE UNCHANGED layoutVars
    BY <1>1 DEF layoutVars, LayoutInv, TorrentFits, RangeExact, Layout!RangeExact
  <1>2. ASSUME NEW d \in Layout!Declared, Layout!Open(d) PROVE LayoutInv'
    BY <1>2, OpenFits DEF LayoutInv, Layout!Open, RangeExact, Layout!RangeExact
  <1>3. ASSUME NEW k \in 0..MaxIndex, Layout!PieceRange(k) PROVE LayoutInv'
    <2>1. TorrentFits /\ TorrentFits' /\ mpc' \in {"ranged", "refused"}
      BY <1>3 DEF LayoutInv, Layout!PieceRange, TorrentFits
    <2>2. CASE mpc' = "ranged"
      BY <1>3, <2>1, <2>2, RangeFits DEF LayoutInv
    <2>3. CASE mpc' = "refused"
      BY <2>3 DEF LayoutInv, RangeExact, Layout!RangeExact
    <2> QED BY <2>1, <2>2, <2>3
  <1>4. CASE Opens
    BY <1>2, <1>3, <1>4 DEF Opens, Layout!Next
  <1>5. CASE Announces(Next) \/ DialStep \/ TimeUpInPool \/ UNCHANGED commandVars
    BY <1>1, <1>5 DEF Announces, DialStep, TimeUpInPool, commandVars
  <1>6. ASSUME NEW options \in Options, Dials(options) PROVE LayoutInv'
    BY <1>1, <1>6 DEF Dials
  <1> QED BY <1>4, <1>5, <1>6 DEF CommandNext

\* An accepted torrent has exactly one hash for every piece of its content.
THEOREM PieceHashesTile == CommandSpec => []PiecesTile
  <1>1. LayoutInv => PiecesTile
    BY DEF LayoutInv, TorrentFits, PiecesTile, Layout!PiecesTile
  <1> QED BY <1>1, InitLayout, NextLayout, PTL DEF CommandSpec

\* The byte range that is downloaded is the one of the piece asked for.
THEOREM PieceRangeExact == CommandSpec => []RangeExact
  <1>1. LayoutInv => RangeExact
    BY DEF LayoutInv
  <1> QED BY <1>1, InitLayout, NextLayout, PTL DEF CommandSpec

-----------------------------------------------------------------------------
(* The announce.                                                           *)

\* The same for the tracker's conversions.
LEMMA WrapExact ==
  ASSUME NEW v \in 0..(IntSize - 1)
  PROVE  wrap(v) = v
  BY LayoutWrap DEF wrap, Layout!wrap

\* The interval survives the multiplication by time.Second.
LEMMA IntervalExact ==
  ASSUME NEW v, v.value \in Int, intervalValid(v)
  PROVE  parseInterval(v) = v.value * Second /\ parseInterval(v) > 0
  <1> DEFINE s == v.value
  <1>1. IntSize \in Nat \ {0} /\ Second \in 1..(IntSize - 1)
    BY TrackerAssumption DEF TrackerAssumption
  <1>2. s \in Nat /\ s > 0 /\ s <= maxSeconds
    BY DEF intervalValid
  <1>3. maxSeconds \in Nat /\ maxSeconds * Second <= IntSize - 1
    BY <1>1, DivFloor DEF maxSeconds
  <1>4. s * Second \in Nat /\ s * Second <= maxSeconds * Second
    BY <1>1, <1>2, <1>3, MulMonotonic
  <1>5. s <= s * Second /\ s * Second > 0
    BY <1>1, <1>2
  <1>6. s * Second \in 0..(IntSize - 1) /\ s \in 0..(IntSize - 1)
    BY <1>1, <1>2, <1>3, <1>4, <1>5
  <1> HIDE DEF s
  <1>7. wrap(s) = s /\ wrap(s * Second) = s * Second
    BY <1>6, WrapExact
  <1> QED BY <1>5, <1>7 DEF parseInterval, s

\* A valid port survives the conversion to uint16.
LEMMA PortExact ==
  ASSUME NEW v, v.value \in Int, portValid(v)
  PROVE  parsePort(v) = v.value /\ v.value # 0
  BY TrackerAssumption, ModSmall DEF TrackerAssumption, portValid, parsePort

\* The port of the flag survives it too.
LEMMA FlagExact ==
  ASSUME NEW n \in Nat, n < PortSize
  PROVE  n % PortSize = n
  <1>1. PortSize \in Nat \ {0}
    BY TrackerAssumption DEF TrackerAssumption
  <1>2. n \in 0..(PortSize - 1)
    BY <1>1
  <1> QED BY <1>1, <1>2, ModSmall

\* The control of the announce: no result before a return, the request is built
\* from a valid port, and a result is an error or the decoding of a response.
TrackerInv ==
    /\ port \in Nat /\ pc \in {"flags", "url", "do", "status", "decode", "returned"}
    /\ pc \in {"flags", "url", "do", "status", "decode"} => result = NoResult
    /\ pc \in {"url", "do"} => portFlagValid
    /\ pc = "do" => \E event \in {"", "started"} : query = buildQuery(event)
    /\ pc \in {"status", "decode"} => response \in Responses
    /\ pc = "returned" =>
           \/ result.err # "nil" /\ result.Peers = <<>>
           \/ response \in Responses /\ result = decodeAnnounceResponse(response.body)

LEMMA InitTracker == CommandInit => TrackerInv
  BY TrackerAssumption DEF TrackerAssumption, CommandInit, Init, TrackerInv, NoResult

\* The errors that the announce returns; none of them carries peers.
ErrorResult ==
  {"command", "url", "network", "context", "status", "bencode", "notDictionary",
   "failure", "interval", "peers"}

LEMMA ErrorExact ==
  ASSUME NEW e \in ErrorResult
  PROVE  Error(e).err # "nil" /\ Error(e).Peers = <<>>
  BY DEF Error, ErrorResult

\* A step that returns an error keeps the invariant.
LEMMA ReturnError ==
  ASSUME TrackerInv, NEW e \in ErrorResult, Return(Error(e)), UNCHANGED inputs
  PROVE  TrackerInv'
  <1>1. result'.err # "nil" /\ result'.Peers = <<>> /\ pc' = "returned" /\ port' = port
    BY ErrorExact DEF Return, inputs
  <1> QED BY <1>1 DEF TrackerInv

\* The query depends on the inputs only.
LEMMA QueryFixed ==
  ASSUME NEW event, UNCHANGED inputs
  PROVE  buildQuery(event)' = buildQuery(event)
  <1>1. port' = port /\ base' = base
    BY DEF inputs
  <1>2. Fields(event)' = Fields(event)
    BY <1>1 DEF Fields, Keys, Announced
  <1> QED BY <1>1, <1>2 DEF buildQuery

LEMMA NextTracker == TrackerInv /\ [CommandNext]_commandVars => TrackerInv'
  <1> SUFFICES ASSUME TrackerInv, [CommandNext]_commandVars PROVE TrackerInv'
    OBVIOUS
  <1> USE DEF inputs, portFlagValid
  <1>1. CASE UNCHANGED vars
    BY <1>1, QueryFixed DEF TrackerInv, vars
  <1>2. CASE Start
    <2>1. CASE Return(Error("command"))
      BY <1>2, <2>1, ReturnError DEF Start, ErrorResult
    <2>2. CASE portFlagValid /\ pc' = "url" /\ UNCHANGED result
      BY <1>2, <2>2 DEF Start, TrackerInv
    <2> QED BY <1>2, <2>1, <2>2 DEF Start
  <1>3. ASSUME NEW event \in {"", "started"}, buildTrackerURL(event) PROVE TrackerInv'
    <2>1. CASE Return(Error("url"))
      BY <1>3, <2>1, ReturnError DEF buildTrackerURL, ErrorResult
    <2>2. CASE pc' = "do" /\ query' = buildQuery(event) /\ UNCHANGED result
      <3>1. query' = buildQuery(event)'
        BY <1>3, <2>2, QueryFixed DEF buildTrackerURL
      <3> HIDE DEF buildQuery
      <3> QED BY <1>3, <2>2, <3>1 DEF buildTrackerURL, TrackerInv
    <2> QED BY <1>3, <2>1, <2>2 DEF buildTrackerURL
  <1>4. ASSUME NEW r \in Responses, Do(r) PROVE TrackerInv'
    BY <1>4 DEF Do, TrackerInv
  <1>5. CASE DoFails
    BY <1>5, ReturnError DEF DoFails, ErrorResult
  <1>6. CASE CheckStatus
    <2>1. CASE statusValid
      BY <1>6, <2>1 DEF CheckStatus, TrackerInv
    <2>2. CASE ~statusValid
      BY <1>6, <2>2, ReturnError DEF CheckStatus, ErrorResult
    <2> QED BY <2>1, <2>2
  <1>7. CASE Decode
    BY <1>7 DEF Decode, Return, TrackerInv
  <1>8. CASE DecodeFails
    BY <1>8, ReturnError DEF DecodeFails, ErrorResult
  <1>9. CASE TimeUp \/ TimeUpInPool
    BY <1>9, QueryFixed DEF TimeUp, TimeUpInPool, TrackerInv
  <1>10. CASE Announces(Next)
    BY <1>2, <1>3, <1>4, <1>5, <1>6, <1>7, <1>8, <1>9, <1>10 DEF Announces, Next, Client
  <1>11. CASE Opens \/ DialStep \/ UNCHANGED commandVars
    BY <1>1, <1>11 DEF Opens, DialStep, commandVars
  <1>12. ASSUME NEW options \in Options, Dials(options) PROVE TrackerInv'
    BY <1>1, <1>12 DEF Dials
  <1> QED BY <1>9, <1>10, <1>11, <1>12 DEF CommandNext

\* What keys.Set and keys.Encode leave of a key, set or not.
LEMMA ValuesSet ==
  ASSUME NEW event, NEW key \in Keys(event)
  PROVE  Values(buildQuery(event), key) = {IF key = "port" THEN port % PortSize ELSE own}
  <1> DEFINE v == IF key = "port" THEN port % PortSize ELSE own
             pair == [key |-> key, value |-> v]
  <1>1. {r \in buildQuery(event) : r.key = key} = {pair}
    BY DEF buildQuery, Fields
  <1>2. pair.value = v
    OBVIOUS
  <1> HIDE DEF pair
  <1> QED BY <1>1, <1>2 DEF Values

LEMMA ValuesKept ==
  ASSUME NEW event, NEW key, key \notin Keys(event)
  PROVE  Values(buildQuery(event), key) = Values(WellFormed(base), key)
  <1>1. {r \in buildQuery(event) : r.key = key} = {r \in Query(base) : r.key = key}
    BY DEF buildQuery, Fields
  <1>2. Values(Query(base), key) = Values(WellFormed(base), key)
    <2>1. ASSUME NEW v \in Values(Query(base), key) PROVE v \in Values(WellFormed(base), key)
      <3>1. PICK r \in Query(base) : r.key = key /\ v = r.value
        BY <2>1 DEF Values
      <3>2. PICK q \in base : q.wellFormed /\ r = [key |-> q.key, value |-> q.value]
        BY <3>1 DEF Query
      <3>3. q \in WellFormed(base) /\ q.key = key /\ v = q.value
        BY <3>1, <3>2 DEF WellFormed
      <3> QED BY <3>3 DEF Values
    <2>2. ASSUME NEW v \in Values(WellFormed(base), key) PROVE v \in Values(Query(base), key)
      <3>1. PICK q \in base : q.wellFormed /\ q.key = key /\ v = q.value
        BY <2>2 DEF Values, WellFormed
      <3> DEFINE r == [key |-> q.key, value |-> q.value]
      <3>2. r \in Query(base)
        BY <3>1 DEF Query
      <3>3. r.key = key /\ v = r.value
        BY <3>1
      <3> HIDE DEF r
      <3> QED BY <3>2, <3>3 DEF Values
    <2> QED BY <2>1, <2>2
  <1> QED BY <1>1, <1>2 DEF Values

\* The request that is sent is the one that the flags and the well-formed part of
\* the tracker URL's query ask for.
THEOREM RequestIsExact == CommandSpec => []RequestExact
  <1>1. TrackerInv => RequestExact
    <2> SUFFICES ASSUME TrackerInv, pc = "do" PROVE RequestExact
      BY DEF RequestExact
    <2>1. PICK event \in {"", "started"} : query = buildQuery(event)
      BY DEF TrackerInv
    <2>2. port \in Nat /\ port # 0 /\ port < PortSize
      BY DEF TrackerInv, portFlagValid
    <2>3. port % PortSize = port
      BY <2>2, FlagExact
    <2>4. Announced \cup {"port"} \subseteq Keys(event) /\ Keys(event) \subseteq Keys("started")
      BY <2>1 DEF Keys
    <2>5. Values(query, "port") = {port}
      BY <2>1, <2>3, <2>4, ValuesSet
    <2>6. \A key \in Announced : key # "port"
      BY DEF Announced
    <2>7. \A key \in Announced : Values(query, key) = {own}
      BY <2>1, <2>4, <2>6, ValuesSet
    <2>8. \A key : key \notin Keys("started") => Values(query, key) = Values(WellFormed(base), key)
      BY <2>1, <2>4, ValuesKept
    <2>9. Values(query, "event") \in {{own}, Values(WellFormed(base), "event")}
      BY <2>1, ValuesSet, ValuesKept
    <2> QED BY <2>2, <2>5, <2>7, <2>8, <2>9 DEF RequestExact
  <1> QED BY <1>1, InitTracker, NextTracker, PTL DEF CommandSpec

\* A response that decodeAnnounceResponse accepts has passed all of its checks.
LEMMA Accepted ==
  ASSUME NEW r \in Responses, decodeAnnounceResponse(r.body).err = "nil"
  PROVE  /\ r.body.form = "dict" /\ intervalValid(r.body.interval) /\ parsePeers(r.body.peers).ok
         /\ decodeAnnounceResponse(r.body) =
                [err |-> "nil", Interval |-> parseInterval(r.body.interval),
                 Peers |-> parsePeers(r.body.peers).peers]
  <1> DEFINE b == r.body
             good == [err |-> "nil", Interval |-> parseInterval(b.interval),
                      Peers |-> parsePeers(b.peers).peers]
  <1>1. \A e \in ErrorResult : decodeAnnounceResponse(b) # Error(e)
    BY ErrorExact
  <1> HIDE DEF b, good
  <1>2. b.form \in {"undecodable", "value", "dict"}
    BY ResponsesAssumption DEF ResponsesAssumption, b
  <1>3. b.form = "dict" /\ ~b.failure /\ intervalValid(b.interval)
    BY <1>1, <1>2 DEF decodeAnnounceResponse, ErrorResult
  <1>4. decodeAnnounceResponse(b) = IF ~parsePeers(b.peers).ok THEN Error("peers") ELSE good
    BY <1>3 DEF decodeAnnounceResponse, good
  <1>5. parsePeers(b.peers).ok
    BY <1>1, <1>4 DEF ErrorResult
  <1> QED BY <1>3, <1>4, <1>5 DEF good, b

\* A response that is refused gives an error without peers.
LEMMA RefusedWhole ==
  ASSUME NEW r \in Responses, decodeAnnounceResponse(r.body).err # "nil"
  PROVE  decodeAnnounceResponse(r.body).Peers = <<>>
  <1> DEFINE b == r.body
  <1>1. \A e \in ErrorResult : Error(e).Peers = <<>>
    BY ErrorExact
  <1>2. b.form \in {"undecodable", "value", "dict"} /\ (b.form = "dict" => b.failure \in BOOLEAN)
    BY ResponsesAssumption DEF ResponsesAssumption
  <1> HIDE DEF b
  <1>3. \/ \E e \in ErrorResult : decodeAnnounceResponse(b) = Error(e)
        \/ decodeAnnounceResponse(b) = [err |-> "nil", Interval |-> parseInterval(b.interval),
                                        Peers |-> parsePeers(b.peers).peers]
    BY <1>2 DEF decodeAnnounceResponse, ErrorResult
  <1> QED BY <1>1, <1>3 DEF b

\* The peers of an accepted response are those listed, in order.
LEMMA PeersExact ==
  ASSUME NEW r \in Responses, r.body.form = "dict", parsePeers(r.body.peers).ok
  PROVE  LET p == r.body.peers
             list == IF p.type = "string" THEN p.chunks ELSE p.list
         IN  /\ p.type \in {"string", "list"} /\ IsList(list)
             /\ parsePeers(p).peers = [k \in DOMAIN list |->
                    IF p.type = "string" THEN CompactPeer(list[k]) ELSE Peer(list[k])]
             /\ p.type = "list" => \A k \in DOMAIN list : peerValid(list[k])
  <1> DEFINE p == r.body.peers
  <1>1. ~Refused.ok
    BY DEF Refused
  <1>2. p.type \in {"string", "list"}
    BY <1>1 DEF parsePeers
  <1>3. CASE p.type = "string"
    <2>1. IsList(p.chunks)
      BY <1>3, ResponsesAssumption DEF ResponsesAssumption
    <2>2. parsePeers(p) = parseCompactPeers(p)
      BY <1>3 DEF parsePeers
    <2>3. parsePeers(p) = [ok |-> TRUE, peers |-> [k \in DOMAIN p.chunks |-> CompactPeer(p.chunks[k])]]
      BY <1>1, <2>2 DEF parseCompactPeers
    <2>4. parsePeers(p).peers = [k \in DOMAIN p.chunks |-> CompactPeer(p.chunks[k])]
      BY <2>3
    <2> QED BY <1>3, <2>1, <2>4
  <1>4. CASE p.type = "list"
    <2>1. IsList(p.list)
      BY <1>4, ResponsesAssumption DEF ResponsesAssumption
    <2>2. parsePeers(p) = parseDictPeers(p.list)
      BY <1>4 DEF parsePeers
    <2>3. \A k \in DOMAIN p.list : peerValid(p.list[k])
      BY <1>1, <2>2 DEF parseDictPeers
    <2>4. parsePeers(p) = [ok |-> TRUE, peers |-> [k \in DOMAIN p.list |-> Peer(p.list[k])]]
      BY <2>2, <2>3 DEF parseDictPeers
    <2>5. parsePeers(p).peers = [k \in DOMAIN p.list |-> Peer(p.list[k])]
      BY <2>4
    <2> QED BY <1>4, <2>1, <2>3, <2>5
  <1> QED BY <1>2, <1>3, <1>4

\* What the command has after a successful announce.
AnnounceExact ==
    LET peers == response.body.peers
    IN  /\ response \in Responses /\ response.body.form = "dict"
        /\ intervalValid(response.body.interval)
        /\ result.Interval = parseInterval(response.body.interval)
        /\ peers.type \in {"string", "list"} /\ IsList(Listed)
        /\ result.Peers = [k \in DOMAIN Listed |->
               IF peers.type = "string" THEN CompactPeer(Listed[k]) ELSE Peer(Listed[k])]
        /\ peers.type = "list" => \A k \in DOMAIN Listed : peerValid(Listed[k])

LEMMA DecodedExact ==
  ASSUME TrackerInv, Succeeded
  PROVE  AnnounceExact
  <1>1. response \in Responses /\ result = decodeAnnounceResponse(response.body) /\ result.err = "nil"
    BY DEF TrackerInv, Succeeded
  <1>2. /\ response.body.form = "dict" /\ intervalValid(response.body.interval)
        /\ parsePeers(response.body.peers).ok
        /\ result = [err |-> "nil", Interval |-> parseInterval(response.body.interval),
                     Peers |-> parsePeers(response.body.peers).peers]
    BY <1>1, Accepted
  <1>3. /\ result.Interval = parseInterval(response.body.interval)
        /\ result.Peers = parsePeers(response.body.peers).peers
    BY <1>2
  <1> QED BY <1>1, <1>2, <1>3, PeersExact DEF AnnounceExact, Listed

\* A response is taken whole and exactly, or refused.
THEOREM ResponseIsExact == CommandSpec => []ResponseExact
  <1>1. ASSUME TrackerInv, Succeeded PROVE ResponseExact
    <2>1. AnnounceExact
      BY <1>1, DecodedExact
    <2>2. response.body.interval.value \in Int
      BY <2>1, ResponsesAssumption DEF AnnounceExact, ResponsesAssumption, intervalValid, IsInt
    <2>3. result.Interval > 0 /\ result.Interval = response.body.interval.value * Second
      BY <2>1, <2>2, IntervalExact DEF AnnounceExact
    <2>4. Len(result.Peers) = Len(Listed)
      BY <2>1 DEF AnnounceExact, IsList
    <2>5. \A k \in DOMAIN Listed : result.Peers[k].ip = Listed[k].ip
      BY <2>1 DEF AnnounceExact, Peer, CompactPeer
    <2>6. ASSUME response.body.peers.type = "list", NEW k \in DOMAIN Listed
          PROVE  result.Peers[k].port = Listed[k].port.value /\ result.Peers[k].port # 0
      <3>1. Listed = response.body.peers.list
        BY <2>6 DEF Listed
      <3>2. peerValid(Listed[k]) /\ response \in Responses /\ response.body.form = "dict"
        BY <2>1, <2>6 DEF AnnounceExact
      <3>3. Listed[k].port.value \in Int
        BY <2>6, <3>1, <3>2, ResponsesAssumption DEF ResponsesAssumption, peerValid, portValid, IsInt
      <3>4. result.Peers[k].port = parsePort(Listed[k].port)
        BY <2>1, <2>6 DEF AnnounceExact, Peer
      <3> QED BY <3>2, <3>3, <3>4, PortExact DEF peerValid
    <2> QED BY <1>1, <2>3, <2>4, <2>5, <2>6 DEF ResponseExact
  <1>2. ASSUME TrackerInv, ~Succeeded PROVE ResponseExact
    <2>1. pc \in {"flags", "url", "do", "status", "decode", "returned"}
      BY <1>2 DEF TrackerInv
    <2>2. CASE pc # "returned"
      <3>1. result = NoResult
        BY <1>2, <2>1, <2>2 DEF TrackerInv
      <3>2. result.Peers = <<>>
        BY <3>1 DEF NoResult
      <3> QED BY <1>2, <3>2 DEF ResponseExact
    <2>3. CASE pc = "returned"
      BY <1>2, <2>3, RefusedWhole DEF TrackerInv, ResponseExact, Succeeded
    <2> QED BY <2>2, <2>3
  <1>3. TrackerInv => ResponseExact
    BY <1>1, <1>2
  <1> QED BY <1>3, InitTracker, NextTracker, PTL DEF CommandSpec

-----------------------------------------------------------------------------
(* The endpoints of the pool.                                              *)

Entry(h, m) == [host |-> h, mapped |-> m]

\* The list of endpoints that DialFirst was given.
Given ==
    /\ IsList(addrs)
    /\ \A k \in 1..Len(addrs) : addrs[k] = Entry(addrs[k].host, addrs[k].mapped)

\* Position m of addrs is the first that names host h.
IsFirst(m, h) ==
    /\ m \in 1..Len(addrs) /\ addrs[m].host = h
    /\ \A j \in 1..(m - 1) : addrs[j].host # h

\* The loop of uniqueEndpoints before its turn i.
UniqueInv ==
    /\ i \in 1..(Len(addrs) + 1)
    /\ IsList(unique) /\ seen = {unique[k] : k \in 1..Len(unique)}
    /\ \A k \in 1..Len(unique) : unique[k] = Entry(unique[k].host, FALSE)
    /\ {unique[k].host : k \in 1..Len(unique)} = {addrs[k].host : k \in 1..(i - 1)}
    /\ \A k \in 1..Len(unique) : \E m \in 1..(i - 1) : IsFirst(m, unique[k].host)
    /\ \A j, k \in 1..Len(unique) : \A m, n \in 1..Len(addrs) :
           j < k /\ IsFirst(m, unique[j].host) /\ IsFirst(n, unique[k].host) => m < n

DialInv ==
    /\ Given
    /\ npc \in {"idle", "validate"} => i = 1 /\ seen = {} /\ unique = <<>>
    /\ npc \in {"unique", "made"} => Dialling!argumentsValid /\ UniqueInv
    /\ npc = "made" =>
           /\ i > Len(addrs)
           /\ pool = [candidates |-> Dialling!Min2(maxWaitingCandidates, Len(unique)),
                      slots |-> maxWaitingCandidates, workers |-> Dialling!workerCount]

LEMMA InitDial == CommandInit => DialInv
  BY DEF CommandInit, Dialling!Init, DialInv, Given, IsList

\* The endpoints of a successful response are a list of endpoints.
LEMMA CallGiven ==
  ASSUME TrackerInv, NEW options \in Options, Dials(options)
  PROVE  Given'
  <1>1. AnnounceExact /\ addrs' = [k \in DOMAIN result.Peers |-> AddrPort(result.Peers[k])]
    BY DecodedExact DEF Dials, Dialling!Call
  <1>2. \E n \in Nat : DOMAIN result.Peers = 1..n
    BY <1>1 DEF AnnounceExact, IsList
  <1>3. PICK n \in Nat : DOMAIN addrs' = 1..n
    BY <1>1, <1>2
  <1>4. IsList(addrs')
    BY <1>1, <1>2, <1>3 DEF IsList
  <1>5. Len(addrs') = n
    BY <1>3, <1>4 DEF IsList
  <1>6. \A peer : AddrPort(peer) = Entry(AddrPort(peer).host, AddrPort(peer).mapped)
    BY DEF AddrPort, Entry
  <1> QED BY <1>1, <1>3, <1>4, <1>5, <1>6 DEF Given, IsList

\* Both forms of an endpoint become its IPv4 form.
LEMMA ChangeForm ==
  ASSUME NEW h, NEW m, NEW f
  PROVE  [Entry(h, m) EXCEPT !.mapped = f] = Entry(h, f)
  BY DEF Entry

LEMMA UnmapEntry ==
  ASSUME NEW h, NEW m
  PROVE  Dialling!Unmap(Entry(h, m)) = Entry(h, FALSE)
  BY ChangeForm DEF Dialling!Unmap

\* What Append does to a list.
LEMMA AppendList ==
  ASSUME NEW s, NEW e, IsList(s)
  PROVE  LET t == Append(s, e)
         IN  /\ IsList(t) /\ Len(t) = Len(s) + 1 /\ t[Len(s) + 1] = e
             /\ \A k \in 1..Len(s) : t[k] = s[k]
  <1> DEFINE S == {s[k] : k \in DOMAIN s} \cup {e}
             t == Append(s, e)
  <1>1. s \in Seq(S) /\ e \in S
    BY DEF IsList
  <1> HIDE DEF S
  <1>2. /\ t \in Seq(S) /\ Len(t) = Len(s) + 1 /\ t[Len(s) + 1] = e
        /\ \A k \in 1..Len(s) : t[k] = s[k]
    BY <1>1
  <1> HIDE DEF t
  <1>3. IsList(t)
    BY <1>2 DEF IsList
  <1> QED BY <1>2, <1>3 DEF t

\* A turn of the loop.
LEMMA TurnUnique ==
  ASSUME Given, UniqueInv, Dialling!uniqueEndpoints
  PROVE  UniqueInv'
  <1> DEFINE h == addrs[i].host
             addr == Dialling!Unmap(addrs[i])
             n == Len(unique)
  <1>1. /\ Len(addrs) \in Nat /\ n \in Nat /\ i \in 1..Len(addrs) /\ i' = i + 1 /\ addrs' = addrs
        /\ IF addr \in seen THEN UNCHANGED <<seen, unique>>
           ELSE seen' = seen \cup {addr} /\ unique' = Append(unique, addr)
    BY DEF Given, UniqueInv, IsList, Dialling!uniqueEndpoints, Dialling!args
  <1>2. addr = Entry(h, FALSE)
    <2>1. addrs[i] = Entry(h, addrs[i].mapped)
      BY <1>1 DEF Given
    <2> HIDE DEF h
    <2> QED BY <2>1, UnmapEntry
  <1>3. \A m, x : IsFirst(m, x)' <=> IsFirst(m, x)
    BY <1>1 DEF IsFirst
  <1>4. {addrs'[k].host : k \in 1..(i' - 1)} = {addrs[k].host : k \in 1..(i - 1)} \cup {h}
    BY <1>1
  <1>5. i' \in 1..(Len(addrs') + 1)
    BY <1>1
  <1> HIDE DEF h, addr
  <1>6. CASE addr \in seen
    <2>1. unique' = unique /\ seen' = seen
      BY <1>1, <1>6
    <2>2. PICK k \in 1..n : unique[k] = addr
      BY <1>6 DEF UniqueInv
    <2>3. unique[k].host = h
      BY <1>2, <2>2 DEF Entry
    <2>4. h \in {addrs[j].host : j \in 1..(i - 1)}
      BY <2>3 DEF UniqueInv
    <2>5. {unique'[j].host : j \in 1..Len(unique')} = {addrs'[j].host : j \in 1..(i' - 1)}
      <3>1. {unique[j].host : j \in 1..Len(unique)} = {addrs[j].host : j \in 1..(i - 1)} \cup {h}
        BY <2>4 DEF UniqueInv
      <3> QED BY <1>4, <2>1, <3>1
    <2>6. 1..(i - 1) \subseteq 1..(i' - 1)
      BY <1>1
    <2> HIDE DEF n
    <2> QED BY <1>1, <1>3, <1>5, <2>1, <2>5, <2>6 DEF UniqueInv
  <1>7. CASE addr \notin seen
    <2>1. unique' = Append(unique, addr) /\ seen' = seen \cup {addr}
      BY <1>1, <1>7
    <2>2. /\ IsList(unique') /\ Len(unique') = n + 1 /\ unique'[n + 1] = addr
          /\ \A k \in 1..n : unique'[k] = unique[k]
      BY <2>1, AppendList DEF UniqueInv
    <2>3. addr.host = h
      BY <1>2 DEF Entry
    <2>4. \A k \in 1..n : unique[k].host # h
      <3> SUFFICES ASSUME NEW k \in 1..n, unique[k].host = h PROVE FALSE
        OBVIOUS
      <3>1. unique[k] = addr /\ unique[k] \in seen
        BY <1>2 DEF UniqueInv
      <3> QED BY <1>7, <3>1
    <2>5. h \notin {addrs[k].host : k \in 1..(i - 1)}
      BY <2>4 DEF UniqueInv
    <2>6. IsFirst(i, h)
      BY <1>1, <2>5 DEF IsFirst, h
    <2>7. \A m \in 1..Len(addrs) : IsFirst(m, h) => m = i
      <3> SUFFICES ASSUME NEW m \in 1..Len(addrs), IsFirst(m, h) PROVE m = i
        OBVIOUS
      <3>1. ~(m < i) /\ ~(i < m)
        BY <1>1, <2>6 DEF IsFirst
      <3> QED BY <1>1, <3>1
    <2> HIDE DEF n
    <2>8. \A k \in 1..(n + 1) : k \in 1..n \/ k = n + 1
      BY <1>1
    <2>9. 1..n \subseteq 1..(n + 1) /\ n + 1 \in 1..(n + 1)
      BY <1>1
    <2>10. seen' = {unique'[k] : k \in 1..(n + 1)}
      BY <2>1, <2>2, <2>8, <2>9 DEF UniqueInv, n
    <2>11. \A k \in 1..(n + 1) : unique'[k] = Entry(unique'[k].host, FALSE)
      BY <1>2, <2>2, <2>3, <2>8 DEF UniqueInv, n
    <2>12. {unique'[k].host : k \in 1..(n + 1)} = {unique[k].host : k \in 1..n} \cup {h}
      BY <2>2, <2>3, <2>8, <2>9
    <2>13. \A k \in 1..(n + 1) : \E m \in 1..(i' - 1) : IsFirst(m, unique'[k].host)
      <3> SUFFICES ASSUME NEW k \in 1..(n + 1)
                   PROVE  \E m \in 1..(i' - 1) : IsFirst(m, unique'[k].host)
        OBVIOUS
      <3>1. 1..(i - 1) \subseteq 1..(i' - 1) /\ i \in 1..(i' - 1)
        BY <1>1
      <3>2. CASE k \in 1..n
        BY <2>2, <3>1, <3>2 DEF UniqueInv, n
      <3>3. CASE k = n + 1
        BY <2>2, <2>3, <2>6, <3>1, <3>3
      <3> QED BY <2>8, <3>2, <3>3
    <2>14. ASSUME NEW j \in 1..(n + 1), NEW k \in 1..(n + 1), NEW m \in 1..Len(addrs),
                  NEW q \in 1..Len(addrs), j < k,
                  IsFirst(m, unique'[j].host), IsFirst(q, unique'[k].host)
           PROVE  m < q
      <3>1. j \in 1..n
        BY <1>1, <2>14
      <3>2. CASE k \in 1..n
        BY <2>2, <2>14, <3>1, <3>2 DEF UniqueInv, n
      <3>3. CASE k = n + 1
        <4>1. q = i
          BY <2>2, <2>3, <2>7, <2>14, <3>3
        <4>2. PICK p \in 1..(i - 1) : IsFirst(p, unique[j].host)
          BY <3>1 DEF UniqueInv, n
        <4>3. IsFirst(m, unique[j].host)
          BY <2>2, <2>14, <3>1
        <4>4. m <= p
          BY <1>1, <4>2, <4>3 DEF IsFirst
        <4> QED BY <1>1, <4>1, <4>4
      <3> QED BY <2>8, <3>2, <3>3
    <2>15. {unique'[k].host : k \in 1..(n + 1)} = {addrs'[k].host : k \in 1..(i' - 1)}
      BY <1>4, <2>12 DEF UniqueInv, n
    <2> QED BY <1>1, <1>3, <1>5, <2>2, <2>10, <2>11, <2>13, <2>14, <2>15 DEF UniqueInv
  <1> QED BY <1>6, <1>7

\* A step that leaves the lists alone.
LEMMA SameLists ==
  ASSUME Given, UNCHANGED <<addrs, i, seen, unique>>
  PROVE  Given' /\ (UniqueInv => UniqueInv')
  <1>1. \A m, x : IsFirst(m, x)' <=> IsFirst(m, x)
    BY DEF IsFirst
  <1>2. Given'
    BY DEF Given, IsList
  <1>3. UniqueInv => UniqueInv'
    BY <1>1, ZenonT(30) DEF UniqueInv, IsList
  <1> QED BY <1>2, <1>3

LEMMA NextDial == TrackerInv /\ DialInv /\ [CommandNext]_commandVars => DialInv'
  <1> SUFFICES ASSUME TrackerInv, DialInv, [CommandNext]_commandVars PROVE DialInv'
    OBVIOUS
  <1>1. CASE UNCHANGED poolVars
    <2>1. Given' /\ (UniqueInv => UniqueInv')
      BY <1>1, SameLists DEF poolVars, DialInv
    <2> QED BY <1>1, <2>1 DEF poolVars, DialInv, Dialling!argumentsValid,
                              Dialling!workerCount, Dialling!Min2
  <1>2. ASSUME NEW options \in Options, Dials(options) PROVE DialInv'
    BY <1>2, CallGiven DEF Dials, Dialling!Call, DialInv
  <1>3. CASE Dialling!validatePoolArguments
    <2>1. /\ UNCHANGED <<addrs, MaxConcurrent, AttemptTimeout, i, seen, unique, pool>>
          /\ npc = "validate"
          /\ npc' \in {"unique", "refused"} /\ (npc' = "unique" => Dialling!argumentsValid)
      BY <1>3 DEF Dialling!validatePoolArguments, Dialling!args
    <2>2. Given' /\ (npc' = "unique" => Dialling!argumentsValid')
      BY <2>1 DEF DialInv, Given, IsList, Dialling!argumentsValid
    <2>3. Len(addrs') \in Nat
      BY <2>2 DEF Given, IsList
    <2>4. i' = 1 /\ unique' = <<>> /\ seen' = {}
      BY <2>1 DEF DialInv
    <2>5. UniqueInv'
      BY <2>3, <2>4 DEF UniqueInv, IsList
    <2> QED BY <2>1, <2>2, <2>5 DEF DialInv
  <1>4. CASE Dialling!uniqueEndpoints
    <2>1. /\ UNCHANGED <<addrs, MaxConcurrent, AttemptTimeout, npc>> /\ npc = "unique"
      BY <1>4 DEF Dialling!uniqueEndpoints, Dialling!args
    <2>2. Given' /\ Dialling!argumentsValid' /\ UniqueInv
      BY <2>1 DEF DialInv, Given, IsList, Dialling!argumentsValid
    <2>3. UniqueInv'
      BY <1>4, <2>2, TurnUnique DEF DialInv
    <2> QED BY <2>1, <2>2, <2>3 DEF DialInv
  <1>5. CASE Dialling!Make
    <2>1. Given' /\ (UniqueInv => UniqueInv')
      BY <1>5, SameLists DEF Dialling!Make, Dialling!args, DialInv
    <2> QED BY <1>5, <2>1 DEF Dialling!Make, Dialling!args, DialInv,
                              Dialling!argumentsValid, Dialling!workerCount
  <1>6. CASE DialStep
    BY <1>3, <1>4, <1>5, <1>6 DEF DialStep, Dialling!Next
  <1>7. CASE Opens \/ Announces(Next) \/ TimeUpInPool \/ UNCHANGED commandVars
    BY <1>1, <1>7 DEF Opens, Announces, TimeUpInPool, commandVars
  <1> QED BY <1>2, <1>6, <1>7 DEF CommandNext

\* NewPool makes a pool only with what module Pool assumes.
THEOREM PoolIsWellFormed == CommandSpec => []PoolPreconditions
  <1>1. DialInv => PoolPreconditions
    <2> SUFFICES ASSUME DialInv, npc = "made" PROVE PoolPreconditions
      BY DEF PoolPreconditions, Dialling!PoolPreconditions
    <2>1. Given /\ UniqueInv /\ Dialling!argumentsValid /\ i > Len(addrs)
      BY DEF DialInv
    <2>2. Len(addrs) \in Nat \ {0} /\ Len(unique) \in Nat /\ i - 1 = Len(addrs)
      BY <2>1 DEF Given, UniqueInv, IsList, Dialling!argumentsValid
    <2>3. {unique[k].host : k \in 1..Len(unique)} = {addrs[k].host : k \in 1..Len(addrs)}
      BY <2>1, <2>2 DEF UniqueInv
    <2>4. Len(unique) > 0
      <3>1. addrs[1].host \in {unique[k].host : k \in 1..Len(unique)}
        <4>1. 1 \in 1..Len(addrs)
          BY <2>2
        <4>2. addrs[1].host \in {addrs[k].host : k \in 1..Len(addrs)}
          BY <4>1
        <4> QED BY <2>3, <4>2
      <3>2. \E k \in 1..Len(unique) : TRUE
        BY <3>1
      <3> QED BY <2>2, <3>2
    <2> DEFINE first(h) == CHOOSE k \in 1..Len(addrs) :
                   addrs[k].host = h /\ \A j \in 1..(k - 1) : addrs[j].host # h
    <2>5. \A k \in 1..Len(unique) : IsFirst(first(unique[k].host), unique[k].host)
      BY <2>1, <2>2 DEF UniqueInv, IsFirst
    <2>6. \A j, k \in 1..Len(unique) : j < k => first(unique[j].host) < first(unique[k].host)
      <3> HIDE DEF first
      <3>1. \A k \in 1..Len(unique) : first(unique[k].host) \in 1..Len(addrs)
        BY <2>5 DEF IsFirst
      <3>2. \A j, k \in 1..Len(unique) : \A m, n \in 1..Len(addrs) :
                j < k /\ IsFirst(m, unique[j].host) /\ IsFirst(n, unique[k].host) => m < n
        BY <2>1 DEF UniqueInv
      <3> QED BY <2>5, <3>1, <3>2
    <2> HIDE DEF first
    <2>7. MaxConcurrent \in 1..maxConcurrentDials /\ maxWaitingCandidates \in Nat \ {0}
          /\ maxConcurrentDials \in Nat
      BY <2>1, CommandAssumption DEF CommandAssumption, Dialling!argumentsValid
    <2>8. /\ pool.candidates = Dialling!Min2(maxWaitingCandidates, Len(unique))
          /\ pool.slots = maxWaitingCandidates /\ pool.workers = Dialling!workerCount
      BY DEF DialInv
    <2>9. /\ pool.workers \in 1..maxConcurrentDials /\ pool.workers <= Len(unique)
          /\ pool.candidates = Dialling!Min2(pool.slots, Len(unique)) /\ pool.candidates > 0
      BY <2>2, <2>4, <2>7, <2>8 DEF Dialling!workerCount, Dialling!Min2
    <2> QED BY <2>3, <2>6, <2>9 DEF PoolPreconditions, Dialling!PoolPreconditions, first
  <1> QED BY <1>1, InitTracker, NextTracker, InitDial, NextDial, PTL DEF CommandSpec
=============================================================================
