-------------------------------- MODULE Conn --------------------------------
(***************************************************************************)
(* One TCP connection and the contexts that bound its I/O, from conn.go    *)
(* and session.go.                                                         *)
(*                                                                         *)
(* The connection lives through numbered phases.  Phase 1 is dial (TCP     *)
(* connect and handshake under the attempt context), phase 2 is            *)
(* waitUntilReady, and each later phase is one block request of FetchPiece *)
(* (later FetchPiece calls only repeat these kinds).  Every phase has a    *)
(* context of its own, which watchContext applies to the connection with a *)
(* deadline and a watcher goroutine, and which is cancelled when the phase *)
(* returns.  Watchers are kept per phase, so that a watcher which outlives *)
(* its phase would be seen to act on the next one.                         *)
(*                                                                         *)
(* Clock and context timer are separate: conn.SetDeadline(d) can fail an   *)
(* I/O call at time d, shortly before or after ctx.Err() becomes non-nil.  *)
(***************************************************************************)
EXTENDS Integers

CONSTANTS
    Phases,         \* number of phases
    HasDeadline     \* phases whose context has a deadline

\* A session's contexts always have one (context.WithTimeout), and so has the
\* attempt context of a pool worker; conn_test.go also dials without one.
ASSUME ConnAssumption ==
    Phases \in Nat \ {0} /\ HasDeadline \in {1..Phases, 2..Phases}

VARIABLES
    conn,           \* "none", "open" or "closed"
    deadline,       \* NoDeadline, Now, or the phase whose context set it
    ctxDone,        \* per phase: ctx.Err() is not nil
    due,            \* per phase: the clock has passed ctx.Deadline()
    phase, pc,      \* the running phase (the last one when pc is "idle")
    ioErr,          \* error that ended the phase's I/O
    outcome,        \* per phase: result returned to the caller
    stop,           \* per phase: the stop channel is closed
    watcher         \* per phase: control of the watcher goroutine

vars == <<conn, deadline, ctxDone, due, phase, pc, ioErr, outcome, stop, watcher>>
ctxVars == <<ctxDone, due>>
watchVars == <<stop, watcher>>

IDs == 1..Phases
NoDeadline == 0     \* the zero time.Time
Now == -1           \* an immediate deadline
Dialing == phase = 1

Init ==
    /\ conn = "none" /\ deadline = NoDeadline
    /\ ctxDone = [p \in IDs |-> FALSE] /\ due = [p \in IDs |-> FALSE]
    /\ phase = 0 /\ pc = "idle" /\ ioErr = "none"
    /\ outcome = [p \in IDs |-> "none"]
    /\ stop = [p \in IDs |-> FALSE]
    /\ watcher = [p \in IDs |-> "none"]

SetDeadlineIgnored(d) == UNCHANGED deadline

\* conn.SetDeadline, whose error on a closed connection is ignored.
SetDeadline(d) == deadline' = IF conn = "open" THEN d ELSE deadline

Goto(from, to) == pc = from /\ pc' = to
Result(r) == outcome' = [outcome EXCEPT ![phase] = r]

-----------------------------------------------------------------------------
(* The phase's context: clock, timer, and cancellation of its parent.      *)

ParentCancelled(p) ==
    /\ p = phase /\ pc # "idle" /\ ~ctxDone[p]
    /\ ctxDone' = [ctxDone EXCEPT ![p] = TRUE]
    /\ UNCHANGED <<conn, deadline, due, phase, pc, ioErr, outcome, watchVars>>

TimeUp(p) ==
    /\ p \in HasDeadline /\ p <= phase /\ ~due[p]
    /\ due' = [due EXCEPT ![p] = TRUE]
    /\ UNCHANGED <<conn, deadline, ctxDone, phase, pc, ioErr, outcome, watchVars>>

TimerFires(p) ==
    /\ due[p] /\ ~ctxDone[p]
    /\ ctxDone' = [ctxDone EXCEPT ![p] = TRUE]
    /\ UNCHANGED <<conn, deadline, due, phase, pc, ioErr, outcome, watchVars>>

-----------------------------------------------------------------------------
(* The watcher goroutine of watchContext.                                  *)

WatcherStep(p, from, to) ==
    /\ watcher[p] = from
    /\ watcher' = [watcher EXCEPT ![p] = to]
    /\ UNCHANGED <<conn, ctxVars, phase, pc, ioErr, outcome, stop>>

\* case <-ctx.Done()
WatcherWakes(p) == WatcherStep(p, "select", "fire") /\ ctxDone[p] /\ UNCHANGED deadline

WatcherForgetsDeadline(p) == WatcherStep(p, "fire", "exited") /\ UNCHANGED deadline

\* conn.SetDeadline(time.Now()) and the deferred close(stopped)
WatcherInterrupts(p) == WatcherStep(p, "fire", "exited") /\ SetDeadline(Now)

\* case <-stop
WatcherStops(p) == WatcherStep(p, "select", "exited") /\ stop[p] /\ UNCHANGED deadline

-----------------------------------------------------------------------------
(* The phase itself.                                                       *)

\* runWorker, waitUntilReady and the block loop derive a context; the parent
\* may be done already.
Begin(parentDone) ==
    /\ pc = "idle" /\ phase < Phases
    /\ phase = 0 \/ conn = "open"
    /\ phase' = phase + 1
    /\ pc' = IF phase = 0 THEN "connect" ELSE "watch"
    /\ ctxDone' = [ctxDone EXCEPT ![phase + 1] = parentDone]
    /\ ioErr' = "none"
    /\ UNCHANGED <<conn, deadline, due, outcome, watchVars>>

\* d.DialContext
Connect ==
    /\ pc = "connect"
    /\ \/ conn' = "open" /\ pc' = "watch" /\ UNCHANGED outcome
       \/ pc' = "return" /\ Result("error") /\ UNCHANGED conn
    /\ UNCHANGED <<deadline, ctxVars, phase, ioErr, watchVars>>

\* watchContext succeeds; only the block loop checks its context at once.
WatchContext ==
    /\ Goto("watch", IF phase > 2 THEN "enter" ELSE "io")
    /\ IF phase \in HasDeadline THEN SetDeadline(phase) ELSE UNCHANGED deadline
    /\ watcher' = [watcher EXCEPT ![phase] = "select"]
    /\ UNCHANGED <<conn, ctxVars, phase, ioErr, outcome, stop>>

\* conn.SetDeadline fails in watchContext: there is no watcher; dial closes
\* the connection, a session leaves that to its owner.
WatchContextFails ==
    /\ Goto("watch", "return")
    /\ phase \in HasDeadline
    /\ Result("error")
    /\ conn' = IF Dialing THEN "closed" ELSE conn
    /\ UNCHANGED <<deadline, ctxVars, phase, ioErr, watchVars>>

EnterBlock ==
    /\ pc = "enter"
    /\ IF ctxDone[phase] THEN pc' = "stop" /\ Result("ctx")
                         ELSE pc' = "io" /\ UNCHANGED outcome
    /\ UNCHANGED <<conn, deadline, ctxVars, phase, ioErr, watchVars>>

Expired == deadline = Now \/ (deadline \in IDs /\ due[deadline])

\* The last read or write of the phase succeeds.  Earlier ones (partial reads,
\* keep-alives, other messages) leave this state unchanged; a silent peer
\* keeps the phase here.
IODone ==
    /\ Goto("io", "check")
    /\ ~Expired
    /\ UNCHANGED <<conn, deadline, ctxVars, phase, ioErr, outcome, watchVars>>

\* An I/O call times out or fails, or the peer's data is refused.
IOFails(e) ==
    /\ Goto("io", "failed")
    /\ e = "timeout" => Expired
    /\ ioErr' = e
    /\ UNCHANGED <<conn, deadline, ctxVars, phase, outcome, watchVars>>

RawIOError == ioErr

\* dial replaces every error by the context's; a session only those of reads and
\* writes ("io", contextIOError), not its own verdict on a message ("protocol":
\* ErrPeerChoked, ErrPieceUnavailable, a block that does not match).
contextIOError ==
    IF ctxDone[phase] /\ (Dialing \/ ioErr # "protocol") THEN "ctx" ELSE ioErr

CloseIfDialing == conn' = IF Dialing THEN "closed" ELSE conn

ReturnError ==
    /\ Goto("failed", "stop")
    /\ Result(contextIOError)
    /\ CloseIfDialing
    /\ UNCHANGED <<deadline, ctxVars, phase, ioErr, watchVars>>

\* The context check after the last I/O: dial, setupCtx.Err(), blockCtx.Err().
CheckContext ==
    /\ Goto("check", "stop")
    /\ IF ctxDone[phase] THEN Result("ctx") /\ CloseIfDialing
                         ELSE Result("ok") /\ UNCHANGED conn
    /\ UNCHANGED <<deadline, ctxVars, phase, ioErr, watchVars>>

\* close(stop)
StopWatching ==
    /\ Goto("stop", "await")
    /\ stop' = [stop EXCEPT ![phase] = TRUE]
    /\ UNCHANGED <<conn, deadline, ctxVars, phase, ioErr, outcome, watcher>>

StoppedIgnored == TRUE

\* <-stopped
Stopped == watcher[phase] = "exited"

\* conn.SetDeadline(time.Time{}) once the watcher has exited.
ClearDeadline ==
    /\ Goto("await", "return")
    /\ Stopped
    /\ SetDeadline(NoDeadline)
    /\ UNCHANGED <<conn, ctxVars, phase, ioErr, outcome, watchVars>>

\* The phase returns; cancelAttempt() or the deferred cancel() runs.
Return ==
    /\ Goto("return", "idle")
    /\ ctxDone' = [ctxDone EXCEPT ![phase] = TRUE]
    /\ UNCHANGED <<conn, deadline, due, phase, ioErr, outcome, watchVars>>

\* The connection's owner closes it.
OwnerCloses ==
    /\ pc = "idle" /\ conn = "open"
    /\ conn' = "closed"
    /\ UNCHANGED <<deadline, ctxVars, phase, pc, ioErr, outcome, watchVars>>

-----------------------------------------------------------------------------
IOErrors == {"timeout", "io", "protocol"}

Caller ==
    \/ Connect \/ WatchContext \/ WatchContextFails \/ EnterBlock
    \/ IODone \/ \E e \in IOErrors : IOFails(e)
    \/ ReturnError \/ CheckContext \/ StopWatching \/ ClearDeadline \/ Return

Watcher(p) == WatcherWakes(p) \/ WatcherInterrupts(p) \/ WatcherStops(p)

Next ==
    \/ \E parentDone \in BOOLEAN : Begin(parentDone)
    \/ Caller \/ OwnerCloses
    \/ \E p \in IDs : ParentCancelled(p) \/ TimeUp(p) \/ TimerFires(p) \/ Watcher(p)

Spec == Init /\ [][Next]_vars

\* Goroutines run, time passes, timers fire, DialContext returns when its
\* context ends, and so does an I/O call whose deadline has expired.  Nothing
\* obliges the peer to send or the parent to cancel.
Fairness ==
    /\ WF_vars(pc \notin {"connect", "io"} /\ Caller)
    /\ WF_vars(Connect /\ (ctxDone[1] \/ due[1]))
    /\ WF_vars(IOFails("timeout"))
    /\ \A p \in IDs : WF_vars(TimeUp(p)) /\ WF_vars(TimerFires(p)) /\ WF_vars(Watcher(p))

FairSpec == Spec /\ Fairness
=============================================================================
