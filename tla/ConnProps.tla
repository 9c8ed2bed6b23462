----------------------------- MODULE ConnProps ------------------------------
(***************************************************************************)
(* What watchContext and dial promise about a connection.                  *)
(***************************************************************************)
EXTENDS Conn

\* Every variable stays in its range.
TypeOK ==
    /\ conn \in {"none", "open", "closed"}
    /\ deadline \in {NoDeadline, Now} \cup IDs
    /\ ctxDone \in [IDs -> BOOLEAN] /\ due \in [IDs -> BOOLEAN]
    /\ phase \in 0..Phases
    /\ pc \in {"idle", "connect", "watch", "enter", "io", "failed", "check",
               "stop", "await", "return"}
    /\ ioErr \in {"none"} \cup IOErrors
    /\ outcome \in [IDs -> {"none", "ok", "ctx", "error"} \cup IOErrors]
    /\ stop \in [IDs -> BOOLEAN]
    /\ watcher \in [IDs -> {"none", "select", "fire", "exited"}]

\* "preventing a late cancellation from affecting the next owner": between two
\* phases an open connection has no deadline, and no watcher of an earlier
\* phase is left that could set one, although the contexts of those phases are
\* cancelled right after they return.
CleanHandoff ==
    pc = "idle" =>
        /\ conn = "open" => deadline = NoDeadline
        /\ \A p \in IDs : watcher[p] \in {"none", "exited"}

\* While a phase does I/O, only its own context can interrupt it: the deadline
\* is that context's, or an immediate one set after that context was done.
OwnDeadlineOnly ==
    pc = "io" =>
        /\ deadline = Now => ctxDone[phase]
        /\ deadline \in IDs => deadline = phase

\* A phase ended by cancellation reports the context's error.  A bare I/O
\* timeout is only ever reported once the context's deadline has passed (the
\* connection's deadline can strike just before the context's timer).
CancellationReported ==
    \A p \in IDs : outcome[p] = "timeout" => p \in HasDeadline /\ due[p]

\* dial never leaks a connection: it returns one exactly when it succeeds.
DialClosesOnFailure ==
    pc = "idle" /\ phase = 1 => (conn = "open" => outcome[1] = "ok")

\* A phase ends once its context is done or if it has a deadline, even when
\* the peer stays silent or sends keep-alives for ever.
PhaseEnds ==
    \A p \in IDs :
        phase = p /\ pc # "idle" /\ (ctxDone[p] \/ p \in HasDeadline)
            ~> pc = "idle"
=============================================================================
