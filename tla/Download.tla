------------------------------ MODULE Download ------------------------------
(***************************************************************************)
(* The download-piece command of cmd/bt/main.go: several processes that    *)
(* run downloadPiece for the same output path, beside other programs that  *)
(* create and delete that file, with a crash possible between any two      *)
(* steps.                                                                  *)
(*                                                                         *)
(* The file system is what the command relies on: os.CreateTemp gives each *)
(* process a name of its own, os.Link fails if the output exists, and      *)
(* os.Rename replaces it atomically.  After publication the output names   *)
(* the inode of the process's temporary file.                              *)
(***************************************************************************)
EXTENDS Integers, Sequences

CONSTANTS
    Procs,          \* processes running download-piece
    Forced,         \* those started with --force
    Indexes,        \* values of --piece
    PieceLength, TorrentLength,     \* torrent.PieceLength, torrent.Length
    MaxBlockSize, UintSize

ASSUME DownloadAssumption ==
    /\ Forced \subseteq Procs
    /\ Procs \cap {"absent", "other", "input", "dir"} = {}
    /\ Indexes \subseteq Int /\ PieceLength \in Nat \ {0}
    /\ TorrentLength \in Nat
    /\ MaxBlockSize \in Nat \ {0} /\ UintSize \in Nat

VARIABLES
    output,     \* "absent", "other", "input", "dir", or the process whose
                \* temporary file it names
    pc, status, \* per process: control, exit status
    piece,      \* per process: --piece
    temp,       \* per process: the temporary file's name exists
    blocks,     \* per process: blocks in its temporary file, "good" or "bad"
    conn,       \* per process: the peer connection is open
    stuck       \* history, per process: the deferred os.Remove failed

vars == <<output, pc, status, piece, temp, blocks, conn, stuck>>

Foreign == {"absent", "other", "input", "dir"}

Init ==
    /\ output \in Foreign
    /\ pc = [p \in Procs |-> "start"] /\ status = [p \in Procs |-> "none"]
    /\ piece = [p \in Procs |-> 0]
    /\ temp = [p \in Procs |-> FALSE] /\ blocks = [p \in Procs |-> <<>>]
    /\ conn = [p \in Procs |-> FALSE] /\ stuck = [p \in Procs |-> FALSE]

Exists == output # "absent"
Goto(p, from, to) == pc[p] = from /\ pc' = [pc EXCEPT ![p] = to]
Exit(p, s) == status' = [status EXCEPT ![p] = s]

\* An error return that runs the deferred calls registered so far.
FailFrom(p, from) == Goto(p, from, "defers") /\ Exit(p, "error")

-----------------------------------------------------------------------------
(* Checks before any file is created.                                      *)

\* len(torrent.PieceHashes), which toTorrentFile compares with the lengths.
hashCount ==
    IF TorrentLength > 0 THEN 1 + (TorrentLength - 1) \div PieceLength ELSE 0

\* The final piece may be shorter than the declared piece length.
LengthOf(i) ==
    LET rest == TorrentLength - i * PieceLength
    IN  IF PieceLength < rest THEN PieceLength ELSE rest

validPiece(i) ==
    /\ i >= 0 /\ i < hashCount /\ i < UintSize
    /\ LengthOf(i) > 0 /\ LengthOf(i) < UintSize

\* Flags, metainfo.Open, the checks on piece index and length, newPeerID
Start(p, i) ==
    /\ piece' = [piece EXCEPT ![p] = i]
    /\ \/ validPiece(i) /\ Goto(p, "start", "lstat") /\ UNCHANGED status
       \/ Goto(p, "start", "exited") /\ Exit(p, "error")
    /\ UNCHANGED <<output, temp, blocks, conn, stuck>>

\* os.Lstat(output): a directory, and a file without --force, are refused.
CheckOutput(p) ==
    /\ \/ ~Exists /\ Goto(p, "lstat", "temp") /\ UNCHANGED status
       \/ /\ Exists /\ output # "dir" /\ p \in Forced
          /\ Goto(p, "lstat", "samefile") /\ UNCHANGED status
       \/ Goto(p, "lstat", "exited") /\ Exit(p, "error")
    /\ UNCHANGED <<output, piece, temp, blocks, conn, stuck>>

\* os.Stat(output) and os.SameFile: the metainfo file itself is refused.
CheckSameFile(p) ==
    /\ \/ output # "input" /\ Goto(p, "samefile", "temp") /\ UNCHANGED status
       \/ Goto(p, "samefile", "exited") /\ Exit(p, "error")
    /\ UNCHANGED <<output, piece, temp, blocks, conn, stuck>>

\* os.CreateTemp
CreateTemp(p) ==
    /\ \/ /\ Goto(p, "temp", "connect") /\ UNCHANGED status
          /\ temp' = [temp EXCEPT ![p] = TRUE]
       \/ Goto(p, "temp", "exited") /\ Exit(p, "error") /\ UNCHANGED temp
    /\ UNCHANGED <<output, piece, blocks, conn, stuck>>

-----------------------------------------------------------------------------
(* Transfer.                                                               *)

\* client.Announce, DialFirst and NewSession; only the last can fail with a
\* connection open
Connect(p) ==
    /\ \/ /\ Goto(p, "connect", "fetch") /\ UNCHANGED status
          /\ conn' = [conn EXCEPT ![p] = TRUE]
       \/ FailFrom(p, "connect") /\ conn' \in {conn, [conn EXCEPT ![p] = TRUE]}
    /\ UNCHANGED <<output, piece, temp, blocks, stuck>>

\* Blocks of at most MaxBlockSize that FetchPiece delivers for the piece.
blockCount(p) == (LengthOf(piece[p]) + MaxBlockSize - 1) \div MaxBlockSize

\* for blockOffset < piece.Length
MoreBlocks(p) == Len(blocks[p]) < blockCount(p)

\* The callback writes the next block of FetchPiece, genuine or not.
WriteBlock(p, b) ==
    /\ Goto(p, "fetch", "fetch")
    /\ MoreBlocks(p)
    /\ blocks' = [blocks EXCEPT ![p] = Append(@, b)]
    /\ UNCHANGED <<output, status, piece, temp, conn, stuck>>

\* FetchPiece returns an error, from the peer or from the callback.
FetchFails(p) ==
    /\ FailFrom(p, "fetch")
    /\ UNCHANGED <<output, piece, temp, blocks, conn, stuck>>

FetchDone(p) ==
    /\ Goto(p, "fetch", "hash")
    /\ Len(blocks[p]) = blockCount(p)
    /\ UNCHANGED <<output, status, piece, temp, blocks, conn, stuck>>

-----------------------------------------------------------------------------
(* Verification and publication.                                           *)

HashesFirstBlock(p) == blocks[p][1] = "good"

\* bytes.Equal of the digest of the whole piece with the metainfo's
HashMatches(p) == \A k \in 1..Len(blocks[p]) : blocks[p][k] = "good"

\* temp.Seek, io.CopyN, comparison and temp.Close
Verify(p) ==
    /\ \/ Goto(p, "hash", "publish") /\ HashMatches(p) /\ UNCHANGED status
       \/ FailFrom(p, "hash")
    /\ UNCHANGED <<output, piece, temp, blocks, conn, stuck>>

\* os.Rename(temp, output), which cannot replace a directory
Rename(p) ==
    /\ p \in Forced
    /\ \/ /\ output # "dir"
          /\ Goto(p, "publish", "defers") /\ Exit(p, "ok")
          /\ output' = p /\ temp' = [temp EXCEPT ![p] = FALSE]
       \/ FailFrom(p, "publish") /\ UNCHANGED <<output, temp>>
    /\ UNCHANGED <<piece, blocks, conn, stuck>>

LinkTrustsCheck(p) == TRUE
LinkAllowed(p) == ~Exists

\* os.Link(temp, output)
Link(p) ==
    /\ p \notin Forced
    /\ \/ /\ LinkAllowed(p)
          /\ Goto(p, "publish", "unlink") /\ output' = p /\ UNCHANGED status
       \/ FailFrom(p, "publish") /\ UNCHANGED output
    /\ UNCHANGED <<piece, temp, blocks, conn, stuck>>

UnlinkIgnoresError(p) ==
    /\ Goto(p, "unlink", "defers") /\ Exit(p, "ok")
    /\ temp' \in {temp, [temp EXCEPT ![p] = FALSE]}
    /\ UNCHANGED <<output, piece, blocks, conn, stuck>>

\* os.Remove(temp) after os.Link
Unlink(p) ==
    /\ \/ /\ Goto(p, "unlink", "defers") /\ Exit(p, "ok")
          /\ temp' = [temp EXCEPT ![p] = FALSE]
       \/ FailFrom(p, "unlink") /\ UNCHANGED temp
    /\ UNCHANGED <<output, piece, blocks, conn, stuck>>

\* The deferred result.Conn.Close(), cancel(), temp.Close(), os.Remove(temp),
\* whose error is ignored.
Defers(p) ==
    /\ Goto(p, "defers", "exited")
    /\ conn' = [conn EXCEPT ![p] = FALSE]
    /\ \/ temp' = [temp EXCEPT ![p] = FALSE] /\ UNCHANGED stuck
       \/ stuck' = [stuck EXCEPT ![p] = TRUE] /\ UNCHANGED temp
    /\ UNCHANGED <<output, status, piece, blocks>>

-----------------------------------------------------------------------------
(* The environment.                                                        *)

\* The process dies; the system closes its connection.
Crash(p) ==
    /\ pc[p] \notin {"exited", "crashed"}
    /\ pc' = [pc EXCEPT ![p] = "crashed"]
    /\ conn' = [conn EXCEPT ![p] = FALSE]
    /\ UNCHANGED <<output, status, piece, temp, blocks, stuck>>

\* Another program creates or deletes the output.
OthersTouchOutput ==
    /\ \/ ~Exists /\ output' \in {"other", "input", "dir"}
       \/ Exists /\ output' = "absent"
    /\ UNCHANGED <<pc, status, piece, temp, blocks, conn, stuck>>

Step(p) ==
    \/ \E i \in Indexes : Start(p, i)
    \/ CheckOutput(p) \/ CheckSameFile(p) \/ CreateTemp(p) \/ Connect(p)
    \/ \E b \in {"good", "bad"} : WriteBlock(p, b)
    \/ FetchFails(p) \/ FetchDone(p) \/ Verify(p)
    \/ Rename(p) \/ Link(p) \/ Unlink(p) \/ Defers(p)

Next == OthersTouchOutput \/ \E p \in Procs : Step(p) \/ Crash(p)

Spec == Init /\ [][Next]_vars
=============================================================================
