------------------------------- MODULE WireMC -------------------------------
(* Instances of the peer wire for TLC: two-byte integers of base 16.       *)
EXTENDS WireProps

H(len, name, hash) == [len |-> len, name |-> name, Reserved |-> <<1>>, InfoHash |-> hash, PeerID |-> <<3>>]

mcProtocolName == <<9, 9>>
mcFieldSize == [Reserved |-> 1, InfoHash |-> 1, PeerID |-> 1]
mcInfoHash == <<2>>

\* One valid handshake, and one wrong in its length, name and info hash each.
mcHandshakes ==
    {H(2, <<9, 9>>, <<2>>), H(1, <<9>>, <<2>>), H(2, <<9, 8>>, <<2>>), H(2, <<9, 9>>, <<3>>)}
mcValid == {H(2, <<9, 9>>, <<2>>)}

\* A bitfield of the largest length, and one beyond it.
mcPieceCounts == {28, 29}

mcConstructed ==
    {NewHave(17), NewRequest(0, 1, 0), NewRequest(1, 2, 2), NewRequest(1, 2, 3),
     NewPiece(0, 1, <<>>), NewPiece(1, 0, <<4, 5>>), NewPiece(1, 0, <<4, 5, 6>>)}

Body(n) == [k \in 1..n |-> 0]
F(n, i) == [length |-> n, id |-> i, body |-> Body(n - 1)]

\* Unknown messages with and without a body, a Cancel, and declared lengths
\* just outside what each message allows.
mcForeign ==
    {F(1, 9), F(3, 9), F(7, 8), F(2, 0), F(2, 4), F(1, 5), F(6, 6), F(8, 6), F(4, 7), F(8, 7), F(9, 9)}

\* A second frame follows an unknown message or a Choke.
mcContinue == {Unsupported, MessageFrame(Message(MessageChoke, <<>>))}

\* A Request whose length is zero, one whose length exceeds MaxBlockSize.
mcRequests ==
    {[length |-> 7, id |-> 6, body |-> <<0, 1, 0, 0, 0, 0>>],
     [length |-> 7, id |-> 6, body |-> <<0, 1, 0, 0, 0, 3>>]}
mcNone == {}
mcOnePieceCount == {5}
=============================================================================
