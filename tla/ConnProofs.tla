----------------------------- MODULE ConnProofs -----------------------------
(***************************************************************************)
(* Proofs that a connection passes cleanly from phase to phase, for any    *)
(* number of phases and either kind of dial context.                       *)
(***************************************************************************)
EXTENDS ConnProps, TLAPS

\* Between watchContext and the end of stopWatching.
Watched == pc \in {"enter", "io", "failed", "check", "stop", "await"}

\* Where each phase can be, and that its I/O has an open connection.
PhaseShape ==
    /\ pc # "idle" => phase \in IDs
    /\ phase = 0 => conn = "none"
    /\ pc = "connect" => phase = 1 /\ conn = "none"
    /\ pc = "enter" => phase > 2
    /\ pc \in {"watch", "enter", "io", "failed", "check"} => conn = "open"
    /\ conn = "none" => deadline = NoDeadline

\* Only the running phase has a live watcher, which has fired only if the
\* context is done; the deadline is the running phase's or none.
WatcherShape ==
    /\ \A p \in IDs : watcher[p] \in {"select", "fire"} => p = phase /\ Watched
    /\ \A p \in IDs : watcher[p] = "fire" => ctxDone[p]
    /\ conn = "open" /\ ~Watched => deadline = NoDeadline
    /\ conn = "open" /\ deadline = Now => Watched /\ ctxDone[phase]
    /\ conn = "open" /\ deadline \in IDs => deadline = phase /\ phase \in HasDeadline

\* A timeout on its way to the caller is explained by the phase's context.
TimeoutShape ==
    pc = "failed" /\ ioErr = "timeout" =>
        ctxDone[phase] \/ (phase \in HasDeadline /\ due[phase])

\* dial keeps the connection open past its last check only on success.
DialShape ==
    phase = 1 /\ pc \in {"stop", "await", "return", "idle"} /\ conn = "open"
        => outcome[1] = "ok"

IInv == TypeOK /\ PhaseShape /\ WatcherShape /\ TimeoutShape
               /\ CancellationReported /\ DialShape

LEMMA InitIInv == Init => IInv
  BY ConnAssumption
  DEF ConnAssumption, Init, IInv, TypeOK, PhaseShape, WatcherShape, TimeoutShape,
      CancellationReported, DialShape, Watched, IDs, NoDeadline, Now, IOErrors

\* Every step of caller, watchers and contexts preserves the invariant.
LEMMA NextIInv == IInv /\ [Next]_vars => IInv'
  <1> SUFFICES ASSUME IInv, [Next]_vars PROVE IInv'
    OBVIOUS
  <1> USE ConnAssumption
      DEF ConnAssumption, IInv, TypeOK, PhaseShape, WatcherShape, TimeoutShape, DialShape,
          CancellationReported, Watched, IDs, NoDeadline, Now, IOErrors, ctxVars, watchVars
  <1>1. ASSUME NEW parentDone \in BOOLEAN, Begin(parentDone) PROVE IInv'
    BY <1>1 DEF Begin
  <1>2. CASE Connect
    BY <1>2 DEF Connect, Result
  <1>3. CASE WatchContext
    BY <1>3 DEF WatchContext, Goto, SetDeadline
  <1>4. CASE WatchContextFails
    BY <1>4 DEF WatchContextFails, Goto, Result, Dialing
  <1>5. CASE EnterBlock
    BY <1>5 DEF EnterBlock, Result
  <1>6. CASE IODone
    BY <1>6 DEF IODone, Goto
  <1>7. ASSUME NEW e \in IOErrors, IOFails(e) PROVE IInv'
    BY <1>7 DEF IOFails, Goto, Expired
  <1>8. CASE ReturnError
    BY <1>8 DEF ReturnError, Goto, Result, contextIOError, CloseIfDialing, Dialing
  <1>9. CASE CheckContext
    BY <1>9 DEF CheckContext, Goto, Result, CloseIfDialing, Dialing
  <1>10. CASE StopWatching
    BY <1>10 DEF StopWatching, Goto
  <1>11. CASE ClearDeadline
    BY <1>11 DEF ClearDeadline, Goto, Stopped, SetDeadline
  <1>12. CASE Return
    BY <1>12 DEF Return, Goto
  <1>13. CASE OwnerCloses
    BY <1>13 DEF OwnerCloses
  <1>14. ASSUME NEW p \in IDs, ParentCancelled(p) PROVE IInv'
    BY <1>14 DEF ParentCancelled
  <1>15. ASSUME NEW p \in IDs, TimeUp(p) PROVE IInv'
    BY <1>15 DEF TimeUp
  <1>16. ASSUME NEW p \in IDs, TimerFires(p) PROVE IInv'
    BY <1>16 DEF TimerFires
  <1>17. ASSUME NEW p \in IDs, WatcherWakes(p) PROVE IInv'
    BY <1>17 DEF WatcherWakes, WatcherStep
  <1>18. ASSUME NEW p \in IDs, WatcherInterrupts(p) PROVE IInv'
    BY <1>18 DEF WatcherInterrupts, WatcherStep, SetDeadline
  <1>19. ASSUME NEW p \in IDs, WatcherStops(p) PROVE IInv'
    BY <1>19 DEF WatcherStops, WatcherStep
  <1>20. CASE UNCHANGED vars
    BY <1>20 DEF vars
  <1> HIDE DEF IInv
  <1> QED
    BY <1>1, <1>2, <1>3, <1>4, <1>5, <1>6, <1>7, <1>8, <1>9, <1>10, <1>11, <1>12, <1>13,
       <1>14, <1>15, <1>16, <1>17, <1>18, <1>19, <1>20
    DEF Next, Caller, Watcher

LEMMA InvariantHolds == Spec => []IInv
  BY InitIInv, NextIInv, PTL DEF Spec

\* The connection's variables keep their types.
THEOREM ConnTypeCorrect == Spec => []TypeOK
  BY InvariantHolds, PTL DEF IInv

\* No earlier phase can disturb the next owner of a connection, in spite of the
\* cancellation that follows every phase.
THEOREM HandoffIsClean == Spec => []CleanHandoff
  <1>1. IInv => CleanHandoff
    BY DEF IInv, TypeOK, WatcherShape, CleanHandoff, Watched
  <1> QED BY <1>1, InvariantHolds, PTL

\* I/O is interrupted only by the context of its own phase.
THEOREM DeadlineIsOwn == Spec => []OwnDeadlineOnly
  <1>1. IInv => OwnDeadlineOnly
    BY DEF IInv, PhaseShape, WatcherShape, OwnDeadlineOnly
  <1> QED BY <1>1, InvariantHolds, PTL

\* A cancelled phase reports the context's error, never a bare timeout.
THEOREM CancellationIsReported == Spec => []CancellationReported
  BY InvariantHolds, PTL DEF IInv

\* dial returns an open connection only when it succeeds.
THEOREM DialLeaksNothing == Spec => []DialClosesOnFailure
  <1>1. IInv => DialClosesOnFailure
    BY DEF IInv, DialShape, DialClosesOnFailure
  <1> QED BY <1>1, InvariantHolds, PTL
=============================================================================
