--------------------------- MODULE DownloadProofs ---------------------------
(***************************************************************************)
(* Proofs of the promises of download-piece for any set of processes, any  *)
(* subset of them with --force, and any torrent.                           *)
(***************************************************************************)
EXTENDS DownloadProps, TLAPS

\* Values of pc before os.CreateTemp, and while a piece is published or after.
BeforeTemp == {"start", "lstat", "samefile", "temp"}
Publishing == {"unlink", "defers", "exited", "crashed"}

\* The ranges of the variables that the proofs rely on.
Ranges ==
    /\ pc \in [Procs -> ControlPoints]
    /\ piece \in [Procs -> Int]
    /\ status \in [Procs -> {"none", "ok", "error"}]
    /\ temp \in [Procs -> BOOLEAN] /\ conn \in [Procs -> BOOLEAN]
    /\ stuck \in [Procs -> BOOLEAN]
    /\ blocks \in [Procs -> Seq({"good", "bad"})]

\* Behind FetchPiece the piece has all its blocks, behind the hash comparison
\* they are all genuine, and the output is ours only once we have published,
\* after which the blocks no longer change.
PublishedShape ==
    \A p \in Procs :
        /\ pc[p] = "hash" => Len(blocks[p]) = blockCount(p)
        /\ pc[p] \in {"publish", "unlink"} => Complete(p)
        /\ output = p => pc[p] \in Publishing /\ Complete(p)

\* Nothing has to be cleaned up before os.CreateTemp.  A process that runs its
\* deferred calls has failed or has got rid of the temporary file already, by
\* os.Rename or by the first os.Remove.
CleanShape ==
    \A p \in Procs :
        /\ pc[p] \in BeforeTemp => ~temp[p] /\ ~conn[p]
        /\ pc[p] = "defers" => status[p] = "error" \/ ~temp[p]
        /\ pc[p] = "exited" => ~conn[p] /\ (temp[p] => stuck[p] /\ status[p] = "error")

-----------------------------------------------------------------------------
\* Every step keeps the variables in their ranges.
LEMMA RangesInductive == Ranges /\ [Next]_vars => Ranges'
<1> SUFFICES ASSUME Ranges, [Next]_vars PROVE Ranges'
  OBVIOUS
<1> USE DownloadAssumption DEF Ranges, ControlPoints, Goto, Exit, FailFrom
<1>1. CASE OthersTouchOutput
  BY <1>1 DEF OthersTouchOutput
<1>2. ASSUME NEW p \in Procs, Step(p) PROVE Ranges'
  <2>1. CASE \E i \in Indexes : Start(p, i)
    BY <2>1 DEF Start
  <2>2. CASE CheckOutput(p) \/ CheckSameFile(p) \/ CreateTemp(p) \/ Connect(p)
    BY <2>2 DEF CheckOutput, CheckSameFile, CreateTemp, Connect
  <2>3. CASE \E b \in {"good", "bad"} : WriteBlock(p, b)
    BY <2>3 DEF WriteBlock
  <2>4. CASE FetchFails(p) \/ FetchDone(p) \/ Verify(p)
    BY <2>4 DEF FetchFails, FetchDone, Verify
  <2>5. CASE Rename(p) \/ Link(p) \/ Unlink(p) \/ Defers(p)
    BY <2>5 DEF Rename, Link, Unlink, Defers
  <2> QED
    BY <1>2, <2>1, <2>2, <2>3, <2>4, <2>5 DEF Step
<1>3. ASSUME NEW p \in Procs, Crash(p) PROVE Ranges'
  BY <1>3 DEF Crash
<1>4. CASE UNCHANGED vars
  BY <1>4 DEF vars
<1> QED
  BY <1>1, <1>2, <1>3, <1>4 DEF Next

\* The ranges hold initially.
LEMMA RangesInit == Init => Ranges
BY DownloadAssumption DEF Init, Ranges, ControlPoints

\* Whether a temporary file is complete depends on its own process only.
LEMMA SameFile ==
    ASSUME NEW q \in Procs, piece'[q] = piece[q], blocks'[q] = blocks[q]
    PROVE  (Complete(q)' <=> Complete(q)) /\ blockCount(q)' = blockCount(q)
BY DEF Complete, blockCount

\* No step publishes an unverified piece or changes a published one.
LEMMA PublishedInductive ==
    Ranges /\ PublishedShape /\ [Next]_vars => PublishedShape'
<1> SUFFICES ASSUME Ranges, PublishedShape, [Next]_vars PROVE PublishedShape'
  OBVIOUS
<1> USE DEF Ranges, PublishedShape, Publishing, Goto, Exit, FailFrom
<1>1. CASE OthersTouchOutput
  BY <1>1, SameFile, DownloadAssumption DEF OthersTouchOutput
<1>2. ASSUME NEW p \in Procs, Step(p) PROVE PublishedShape'
  <2>1. CASE \E i \in Indexes : Start(p, i)
    BY <2>1, SameFile DEF Start
  <2>2. CASE CheckOutput(p)
    BY <2>2, SameFile DEF CheckOutput
  <2>3. CASE CheckSameFile(p)
    BY <2>3, SameFile DEF CheckSameFile
  <2>4. CASE CreateTemp(p)
    BY <2>4, SameFile DEF CreateTemp
  <2>5. CASE Connect(p)
    BY <2>5, SameFile DEF Connect
  <2>6. CASE \E b \in {"good", "bad"} : WriteBlock(p, b)
    BY <2>6, SameFile DEF WriteBlock
  <2>7. CASE FetchFails(p)
    BY <2>7, SameFile DEF FetchFails
  <2>8. CASE FetchDone(p)
    BY <2>8, SameFile DEF FetchDone
  <2>9. CASE Verify(p)
    BY <2>9, SameFile DEF Verify, HashMatches, Complete
  <2>10. CASE Rename(p)
    BY <2>10, SameFile DEF Rename
  <2>11. CASE Link(p)
    BY <2>11, SameFile DEF Link
  <2>12. CASE Unlink(p)
    BY <2>12, SameFile DEF Unlink
  <2>13. CASE Defers(p)
    BY <2>13, SameFile DEF Defers
  <2> QED
    BY <1>2, <2>1, <2>2, <2>3, <2>4, <2>5, <2>6, <2>7, <2>8, <2>9, <2>10,
       <2>11, <2>12, <2>13 DEF Step
<1>3. ASSUME NEW p \in Procs, Crash(p) PROVE PublishedShape'
  BY <1>3, SameFile DEF Crash
<1>4. CASE UNCHANGED vars
  BY <1>4, SameFile DEF vars
<1> QED
  BY <1>1, <1>2, <1>3, <1>4 DEF Next

\* For any number of racing and crashing processes, the output path never names
\* a file of ours that is not the complete, verified piece.
THEOREM PublishedIsVerified == Spec => []OnlyVerifiedPublished
<1>1. Init => PublishedShape
  BY DownloadAssumption DEF Init, PublishedShape, Foreign
<1>2. PublishedShape => OnlyVerifiedPublished
  BY DEF PublishedShape, OnlyVerifiedPublished
<1> QED
  BY <1>1, <1>2, RangesInit, RangesInductive, PublishedInductive, PTL DEF Spec

-----------------------------------------------------------------------------
\* A process that exits by itself leaves no connection, and a temporary file only
\* if it could not be removed and the exit status is not a success.
THEOREM ExitIsClean == Spec => []CleanExit
<1>1. Init => CleanShape
  BY DEF Init, CleanShape
<1>2. Ranges /\ CleanShape /\ [Next]_vars => CleanShape'
  <2> SUFFICES ASSUME Ranges, CleanShape, [Next]_vars PROVE CleanShape'
    OBVIOUS
  <2> /\ pc = [q \in Procs |-> pc[q]] /\ status = [q \in Procs |-> status[q]]
      /\ temp = [q \in Procs |-> temp[q]] /\ conn = [q \in Procs |-> conn[q]]
      /\ stuck = [q \in Procs |-> stuck[q]]
    BY DEF Ranges
  <2> USE DEF CleanShape, BeforeTemp, Goto, Exit, FailFrom
  <2>1. CASE OthersTouchOutput
    BY <2>1 DEF OthersTouchOutput
  <2>2. ASSUME NEW p \in Procs, Step(p) PROVE CleanShape'
    <3>1. CASE \E i \in Indexes : Start(p, i)
      BY <3>1 DEF Start
    <3>2. CASE CheckOutput(p)
      BY <3>2 DEF CheckOutput
    <3>3. CASE CheckSameFile(p)
      BY <3>3 DEF CheckSameFile
    <3>4. CASE CreateTemp(p)
      BY <3>4 DEF CreateTemp
    <3>5. CASE Connect(p)
      BY <3>5 DEF Connect
    <3>6. CASE \E b \in {"good", "bad"} : WriteBlock(p, b)
      BY <3>6 DEF WriteBlock
    <3>7. CASE FetchFails(p) \/ FetchDone(p)
      BY <3>7 DEF FetchFails, FetchDone
    <3>8. CASE Verify(p)
      BY <3>8 DEF Verify
    <3>9. CASE Rename(p)
      BY <3>9 DEF Rename
    <3>10. CASE Link(p)
      BY <3>10 DEF Link
    <3>11. CASE Unlink(p)
      BY <3>11 DEF Unlink
    <3>12. CASE Defers(p)
      BY <3>12 DEF Defers
    <3> QED
      BY <2>2, <3>1, <3>2, <3>3, <3>4, <3>5, <3>6, <3>7, <3>8, <3>9, <3>10, <3>11, <3>12
         DEF Step
  <2>3. ASSUME NEW p \in Procs, Crash(p) PROVE CleanShape'
    BY <2>3 DEF Crash
  <2>4. CASE UNCHANGED vars
    BY <2>4 DEF vars
  <2> QED
    BY <2>1, <2>2, <2>3, <2>4 DEF Next
<1>3. CleanShape => CleanExit
  BY DEF CleanShape, CleanExit
<1> QED
  BY <1>1, <1>2, <1>3, RangesInit, RangesInductive, PTL DEF Spec

-----------------------------------------------------------------------------
\* Without --force no step replaces an existing file, whatever happened since
\* os.Lstat.
THEOREM NeverOverwrites == Spec => NoOverwriteWithoutForce
<1> DEFINE Keeps == \A p \in Procs \ Forced : output' = p /\ output # p => ~Exists
<1>1. [Next]_vars => [Keeps]_vars
  <2> SUFFICES ASSUME Next PROVE Keeps
    OBVIOUS
  <2> SUFFICES ASSUME NEW q \in Procs \ Forced, output' = q, output # q
               PROVE ~Exists
    OBVIOUS
  <2>1. CASE OthersTouchOutput
    BY <2>1, DownloadAssumption DEF OthersTouchOutput
  <2>2. ASSUME NEW p \in Procs, Step(p) PROVE ~Exists
    <3>1. CASE Rename(p)
      BY <3>1 DEF Rename
    <3>2. CASE Link(p)
      BY <3>2 DEF Link, LinkAllowed
    <3> QED
      BY <2>2, <3>1, <3>2
      DEF Step, Start, CheckOutput, CheckSameFile, CreateTemp, Connect, WriteBlock,
          FetchFails, FetchDone, Verify, Unlink, Defers
  <2>3. ASSUME NEW p \in Procs, Crash(p) PROVE ~Exists
    BY <2>3 DEF Crash
  <2> QED
    BY <2>1, <2>2, <2>3 DEF Next
<1> QED
  BY <1>1, PTL DEF Spec, NoOverwriteWithoutForce
=============================================================================
