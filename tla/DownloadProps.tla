--------------------------- MODULE DownloadProps ----------------------------
(***************************************************************************)
(* What download-piece promises about the files it leaves behind.          *)
(***************************************************************************)
EXTENDS Download

ControlPoints == {"start", "lstat", "samefile", "temp", "connect", "fetch", "hash",
                  "publish", "unlink", "defers", "exited", "crashed"}

Complete(p) ==
    /\ Len(blocks[p]) = blockCount(p)
    /\ \A k \in 1..Len(blocks[p]) : blocks[p][k] = "good"

\* The output never names a file of ours that is not the complete, verified
\* piece: not after a failed or corrupt transfer, not while another process
\* publishes to the same path, and not after a crash at any point.
OnlyVerifiedPublished == \A p \in Procs : output = p => Complete(p)

\* A process started without --force never replaces a file, also when that file
\* appeared after os.Lstat found the path free: of two racing processes only
\* one publishes.
NoOverwriteWithoutForce ==
    [][\A p \in Procs \ Forced : output' = p /\ output # p => ~Exists]_vars

\* A process that exits by itself leaves no connection behind.  It leaves a
\* temporary file only if the system refused its last attempt to remove it, which
\* the code does not look at; but then the process does not report success, also
\* when it has already published the piece under the output name.
CleanExit ==
    \A p \in Procs : pc[p] = "exited" =>
        /\ ~conn[p]
        /\ temp[p] => stuck[p] /\ status[p] = "error"

\* README.md: "Pieces larger than 16 KiB are rejected".
LargePiecesRejected ==
    \A p \in Procs : status[p] = "ok" => LengthOf(piece[p]) <= MaxBlockSize
=============================================================================
