------------------------------ MODULE DialFirst -----------------------------
(***************************************************************************)
(* DialFirst (internal/peerconn/conn.go) and the commands that call it:    *)
(* the candidate pool (module Pool) with one of its endpoints dialled by   *)
(* the real dial (module Conn) instead of by an attempt that is assumed to *)
(* end.  The other endpoints stay abstract; which one is tracked does not  *)
(* matter, because every worker runs the same code.                        *)
(*                                                                         *)
(* The two components meet where a worker calls dial, where dial returns,  *)
(* where the pool closes a connection, and where the context of the pool   *)
(* cancels that of the attempt.                                            *)
(***************************************************************************)
EXTENDS Pool

CONSTANTS
    Tracked,    \* the endpoint whose connection is modelled by Conn
    main        \* the goroutine that calls DialFirst, the only client

ASSUME DialFirstAssumption == Tracked \in Addrs /\ Clients = {main}

VARIABLES
    conn, deadline, ctxDone, due, phase, pc, ioErr, outcome, stop, watcher,
    dpc         \* control of DialFirst's caller

connVars == <<conn, deadline, ctxDone, due, phase, pc, ioErr, outcome, stop, watcher>>
allVars == <<vars, connVars, dpc>>

\* Phase 1 is the dial, phase 2 what the next owner does with the connection
\* (waitUntilReady in the download-piece command).
C == INSTANCE Conn WITH Phases <- 2, HasDeadline <- 1..2

DInit == Init /\ C!Init /\ dpc = "next"

\* A step of the pool that closes the tracked connection closes it in Conn.
Follow == IF Tracked \in open \ open' THEN C!OwnerCloses ELSE UNCHANGED connVars

-----------------------------------------------------------------------------
(* Workers.                                                                *)

\* The error that dial's result is to the pool: the attempt context's own, or
\* that of DialContext when it gave up because of it.  Both report cancellation
\* only if the pool was cancelled.
attemptErrors ==
    IF ctxErr = "canceled" /\ ctxDone[1] /\ (outcome[1] = "ctx" \/ conn = "none")
    THEN {"canceled", "failed"} ELSE {"failed"}

\* context.WithTimeout(p.ctx, timeout), and the call of dialPeer.
BeginDial(w) ==
    /\ AcquireSlot(w)
    /\ IF waddr[w] = Tracked THEN C!Begin(Cancelled) ELSE UNCHANGED connVars

\* dialPeer returns to the worker; dial returns no connection with an error.
EndDial(w) ==
    \/ /\ waddr[w] # Tracked
       /\ DialSucceeds(w) \/ \E e \in AttemptErrs \ {"nil"} : DialFails(w, e, FALSE)
       /\ UNCHANGED connVars
    \/ /\ waddr[w] = Tracked /\ phase = 1 /\ C!Return
       /\ IF outcome[1] = "ok" THEN DialSucceeds(w)
          ELSE \E e \in attemptErrors : DialFails(w, e, FALSE)

DWorker(w) ==
    /\ \/ BeginDial(w) \/ EndDial(w)
       \/ /\ \/ WorkerReturn(w) \/ AcquireCancelled(w) \/ FailureCleanup(w)
             \/ DeliverCancelled(w) \/ Deliver(w)
          /\ Follow
    /\ UNCHANGED dpc

\* Feeder, collector and the goroutine that closes results.
Discovery == (Feeder \/ CloseResults \/ Collector) /\ Follow /\ UNCHANGED dpc

-----------------------------------------------------------------------------
(* The connection.                                                         *)

OnConn(A) == A /\ UNCHANGED <<vars, dpc>>

\* Steps of dial and of the next owner, except those the pool takes part in.
Running == OnConn((pc = "return" => phase = 2) /\ C!Caller)

\* p.cancel() and the parent's cancellation reach the attempt context.
Propagate == OnConn(Cancelled /\ C!ParentCancelled(1))

Clock(p) == OnConn(C!TimeUp(p) \/ C!TimerFires(p))

Watching(p) == OnConn(C!Watcher(p))

-----------------------------------------------------------------------------
(* DialFirst: pool.Next(), then the deferred pool.Close().                 *)

DialGoto(from, to) == dpc = from /\ dpc' = to

CallNext == DialGoto("next", "inNext") /\ NextEnter(main) /\ UNCHANGED connVars

InPool == InCall(main) /\ Follow /\ UNCHANGED dpc

nextReturned == gpc[main] = "idle"

CallClose ==
    /\ DialGoto("inNext", "inClose") /\ nextReturned
    /\ CloseEnter(main) /\ UNCHANGED connVars

closeIgnored == TRUE

\* pool.Close() has returned.
closeReturned == gpc[main] = "idle"

Returns ==
    /\ DialGoto("inClose", "returned") /\ closeReturned
    /\ UNCHANGED <<vars, connVars>>

\* NewSession and FetchPiece use the connection under contexts of their own.
BeginSession ==
    /\ dpc = "returned" /\ Tracked \in owned /\ phase = 1
    /\ \E parentDone \in BOOLEAN : C!Begin(parentDone)
    /\ UNCHANGED <<vars, dpc>>

\* The command's deferred result.Conn.Close().
CallerCloses ==
    /\ DialGoto("returned", "closed") /\ pc = "idle"
    /\ open' = open \ owned /\ Follow
    /\ UNCHANGED <<ctxErr, slots, candidates, feedVars, workerVars, collectVars, clientVars>>

\* The timeout of the command, whose context is the parent of the pool's.
ParentEnds == (\E e \in {"canceled", "deadline"} : ParentDone(e)) /\ UNCHANGED <<connVars, dpc>>

-----------------------------------------------------------------------------

DNext ==
    \/ \E w \in Workers : DWorker(w)
    \/ Discovery
    \/ Running \/ Propagate
    \/ \E p \in C!IDs : Clock(p) \/ Watching(p)
    \/ CallNext \/ InPool \/ CallClose \/ Returns \/ BeginSession \/ CallerCloses
    \/ ParentEnds

DSpec == DInit /\ [][DNext]_allVars

\* The fairness of Pool and Conn, without Pool's assumption that the attempt
\* to the tracked endpoint ends: its peer may accept and stay silent.
DFairness ==
    /\ \A w \in Workers : WF_allVars(DWorker(w))
    /\ WF_allVars(Feeder /\ Discovery) /\ WF_allVars(CloseResults /\ Discovery)
    /\ WF_allVars(Collector /\ Discovery)
    /\ WF_allVars(pc \notin {"connect", "io"} /\ Running)
    /\ WF_allVars(C!Connect /\ (ctxDone[1] \/ due[1]) /\ Running)
    /\ WF_allVars(C!IOFails("timeout") /\ Running)
    /\ WF_allVars(Propagate)
    /\ \A p \in C!IDs : WF_allVars(Clock(p)) /\ WF_allVars(Watching(p))
    /\ WF_allVars(CallNext \/ InPool \/ CallClose \/ Returns)

DFairSpec == DSpec /\ DFairness

-----------------------------------------------------------------------------
(* Properties.                                                             *)

\* "the caller owns the returned connection": it is open, without a deadline,
\* and the watcher of its dial is gone, although returning has cancelled the
\* context that the dial was made under; nor does the cancelled pool interrupt
\* the I/O of the session that follows.
ReturnedUsable ==
    /\ dpc = "returned" /\ Tracked \in owned /\ phase = 1 =>
           /\ Cancelled
           /\ conn = "open" /\ deadline = C!NoDeadline /\ watcher[1] = "exited"
    /\ phase = 2 /\ pc = "io" => /\ deadline = C!Now => ctxDone[2]
                                 /\ deadline # 1

\* "Before returning it stops discovery and closes unclaimed connections": when
\* DialFirst has returned, no worker, collector or dial is left, at most one
\* connection is open, and only if a candidate was returned.  (The feeder may
\* still be about to notice the cancellation.)
NothingLeft ==
    dpc = "returned" =>
        /\ WorkersReturned /\ cpc = "returned"
        /\ open = owned /\ Cardinality(owned) <= 1
        /\ owned # {} <=> ret[main] = "candidate"
        /\ phase <= 1 =>
               /\ pc = "idle" /\ \A p \in DOMAIN watcher : watcher[p] \in {"none", "exited"}
               /\ conn = "open" <=> Tracked \in owned

\* DialFirst returns although a peer may accept the connection and stay silent:
\* the attempt deadline interrupts the handshake.
DialFirstReturns == <>(dpc = "returned")
=============================================================================
