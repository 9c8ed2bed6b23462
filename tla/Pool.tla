-------------------------------- MODULE Pool --------------------------------
(***************************************************************************)
(* The candidate pool of internal/peerconn/pool.go.                        *)
(*                                                                         *)
(* NewPool starts one job feeder (feedJobs), several dial workers          *)
(* (runWorker), a goroutine that closes the results channel once every     *)
(* worker has returned, and a collector (collect).  Client goroutines call *)
(* Pool.Next and Pool.Close in any order and any number of times.          *)
(*                                                                         *)
(* Sending on an unbuffered channel is a rendezvous, so it is one action   *)
(* of sender and receiver.  A select with several ready cases takes any of *)
(* them, so each case is an action.  A connection is named by the endpoint *)
(* it was dialled to: the feeder offers each endpoint once.                *)
(***************************************************************************)
EXTENDS Integers, Sequences, FiniteSets

CONSTANTS
    Addrs,                  \* endpoints (netip.AddrPort)
    uniqueAddrs,            \* the deduplicated endpoints, in feeding order
    Workers,                \* dial worker goroutines
    Clients,                \* goroutines that call Next and Close
    maxWaitingCandidates,   \* capacity of the slots channel (4 in the code)
    None                    \* no endpoint held

\* validatePoolArguments refuses an empty endpoint list and a non-positive
\* concurrency; uniqueEndpoints returns distinct endpoints.
ASSUME PoolAssumption ==
    /\ IsFiniteSet(Addrs) /\ None \notin Addrs
    /\ uniqueAddrs \in Seq(Addrs) /\ Len(uniqueAddrs) > 0
    /\ \A i, j \in 1..Len(uniqueAddrs) :
           uniqueAddrs[i] = uniqueAddrs[j] => i = j
    /\ maxWaitingCandidates \in Nat \ {0}
    /\ Workers # {}

VARIABLES
    ctxErr,             \* p.ctx.Err(): "nil", "canceled" or "deadline"
    slots,              \* number of tokens in the slots channel
    candidates,         \* contents of the buffered candidates channel
    open,               \* endpoints whose connection is open
    fed, jobsClosed,    \* feeder: endpoints sent so far, returned
    wpc, waddr, werr,   \* per worker: control, endpoint, attempt error
    resultsClosed,
    cpc, caddr,         \* collector: control, candidate being queued
    failures,           \* collector: endpoints whose failure it recorded
    exhaustErr,         \* the failures joined in p.exhaustErr
    candidatesClosed,
    done,               \* the done channel is closed
    once,               \* closeOnce: "new", "running" or "done"
    gpc, gaddr,         \* per client: control, candidate received by Next
    ret, reported,      \* per client: last result of Next, failures it joins
    owned               \* connections that Next has handed over

sharedVars == <<ctxErr, slots, candidates, open>>
feedVars == <<fed, jobsClosed>>
workerVars == <<wpc, waddr, werr, resultsClosed>>
collectVars == <<cpc, caddr, failures, exhaustErr, candidatesClosed, done>>
clientVars == <<once, gpc, gaddr, ret, reported, owned>>
vars == <<sharedVars, feedVars, workerVars, collectVars, clientVars>>

N == Len(uniqueAddrs)
candidatesCap == IF maxWaitingCandidates < N THEN maxWaitingCandidates ELSE N

AttemptErrs == {"nil", "failed", "canceled"}

Init ==
    /\ ctxErr = "nil" /\ slots = 0 /\ candidates = <<>> /\ open = {}
    /\ fed = 0 /\ jobsClosed = FALSE
    /\ wpc = [w \in Workers |-> "select"]
    /\ waddr = [w \in Workers |-> None]
    /\ werr = [w \in Workers |-> "nil"]
    /\ resultsClosed = FALSE
    /\ cpc = "recv" /\ caddr = None /\ failures = {} /\ exhaustErr = {}
    /\ candidatesClosed = FALSE /\ done = FALSE
    /\ once = "new"
    /\ gpc = [g \in Clients |-> "idle"]
    /\ gaddr = [g \in Clients |-> None]
    /\ ret = [g \in Clients |-> "none"]
    /\ reported = [g \in Clients |-> {}]
    /\ owned = {}

-----------------------------------------------------------------------------
(* Context, slots and connections.                                         *)

Cancelled == ctxErr # "nil"

\* The parent context is cancelled or reaches its deadline.
ParentDone(e) ==
    /\ ~Cancelled
    /\ ctxErr' = e
    /\ UNCHANGED <<slots, candidates, open, feedVars, workerVars,
                   collectVars, clientVars>>

SlotFree == slots < maxWaitingCandidates

\* <-p.slots, which blocks while the channel is empty.
releaseSlot == slots > 0 /\ slots' = slots - 1

DiscardKeepsSlot(a) == open' = open \ {a} /\ UNCHANGED slots
DiscardKeepsConn(a) == releaseSlot /\ UNCHANGED open

\* Close a connection (if there is one) and release the slot it holds.
Discard(a) == open' = open \ {a} /\ releaseSlot

-----------------------------------------------------------------------------
(* feedJobs.                                                               *)

\* case jobs <- addr, received by worker w.
Dispatch(w) ==
    /\ ~jobsClosed /\ fed < N
    /\ wpc[w] = "select"
    /\ fed' = fed + 1
    /\ waddr' = [waddr EXCEPT ![w] = uniqueAddrs[fed + 1]]
    /\ wpc' = [wpc EXCEPT ![w] = "acquire"]
    /\ UNCHANGED <<sharedVars, jobsClosed, werr, resultsClosed, collectVars,
                   clientVars>>

FeederStopsOnlyWhenDone == fed = N

\* Every endpoint was offered, or case <-p.ctx.Done().
FeederStops == fed = N \/ Cancelled

FeederReturn ==
    /\ ~jobsClosed
    /\ FeederStops
    /\ jobsClosed' = TRUE
    /\ UNCHANGED <<sharedVars, fed, workerVars, collectVars, clientVars>>

-----------------------------------------------------------------------------
(* runWorker.                                                              *)

WorkerGoto(w, from, to) ==
    /\ wpc[w] = from
    /\ wpc' = [wpc EXCEPT ![w] = to]

\* case <-p.ctx.Done(), or a receive from the closed jobs channel.
WorkerReturn(w) ==
    /\ WorkerGoto(w, "select", "returned")
    /\ Cancelled \/ jobsClosed
    /\ UNCHANGED <<sharedVars, feedVars, waddr, werr, resultsClosed,
                   collectVars, clientVars>>

AcquireIgnoresSlots(w) ==
    /\ WorkerGoto(w, "acquire", "dial")
    /\ UNCHANGED <<sharedVars, feedVars, waddr, werr, resultsClosed,
                   collectVars, clientVars>>

\* acquireSlot returns true.
AcquireSlot(w) ==
    /\ WorkerGoto(w, "acquire", "dial")
    /\ SlotFree
    /\ slots' = slots + 1
    /\ UNCHANGED <<ctxErr, candidates, open, feedVars, waddr, werr,
                   resultsClosed, collectVars, clientVars>>

AcquireNeverGivesUp == FALSE
AcquireGivesUpWhenFull == Cancelled \/ ~SlotFree

\* case <-p.ctx.Done() of acquireSlot.
AcquireGivesUp == Cancelled

\* acquireSlot returns false: the worker returns, the endpoint is forgotten.
AcquireCancelled(w) ==
    /\ WorkerGoto(w, "acquire", "returned")
    /\ AcquireGivesUp
    /\ waddr' = [waddr EXCEPT ![w] = None]
    /\ UNCHANGED <<sharedVars, feedVars, werr, resultsClosed, collectVars,
                   clientVars>>

\* dialPeer returns a connection and no error, before or after cancellation.
DialSucceeds(w) ==
    /\ WorkerGoto(w, "dial", "deliver")
    /\ werr' = [werr EXCEPT ![w] = "nil"]
    /\ open' = open \cup {waddr[w]}
    /\ UNCHANGED <<ctxErr, slots, candidates, feedVars, waddr, resultsClosed,
                   collectVars, clientVars>>

\* dialPeer returns an error; its signature allows a connection with it.
\* The error is context.Canceled only when p.ctx was cancelled, because
\* cancelAttempt runs after the call.
DialFails(w, e, withConn) ==
    /\ WorkerGoto(w, "dial", "failed")
    /\ e = "canceled" => ctxErr = "canceled"
    /\ werr' = [werr EXCEPT ![w] = e]
    /\ open' = IF withConn THEN open \cup {waddr[w]} ELSE open
    /\ UNCHANGED <<ctxErr, slots, candidates, feedVars, waddr, resultsClosed,
                   collectVars, clientVars>>

FailureKeepsSlot(w) ==
    /\ WorkerGoto(w, "failed", "deliver")
    /\ DiscardKeepsSlot(waddr[w])
    /\ UNCHANGED <<ctxErr, candidates, feedVars, waddr, werr, resultsClosed,
                   collectVars, clientVars>>

\* if err != nil: close a non-nil connection and release the slot.
FailureCleanup(w) ==
    /\ WorkerGoto(w, "failed", "deliver")
    /\ Discard(waddr[w])
    /\ UNCHANGED <<ctxErr, candidates, feedVars, waddr, werr, resultsClosed,
                   collectVars, clientVars>>

\* case <-p.ctx.Done() of the delivery select.
DeliverCancelled(w) ==
    /\ WorkerGoto(w, "deliver", "returned")
    /\ Cancelled
    /\ IF werr[w] = "nil" THEN Discard(waddr[w]) ELSE UNCHANGED <<open, slots>>
    /\ waddr' = [waddr EXCEPT ![w] = None]
    /\ UNCHANGED <<ctxErr, candidates, feedVars, werr, resultsClosed,
                   collectVars, clientVars>>

DeliverThenRetry(w) ==
    /\ cpc = "recv"
    /\ WorkerGoto(w, "deliver", "acquire")
    /\ failures' = IF werr[w] = "failed" THEN failures \cup {waddr[w]}
                                         ELSE failures
    /\ IF werr[w] = "nil" THEN cpc' = "queue" /\ caddr' = waddr[w]
                          ELSE UNCHANGED <<cpc, caddr>>
    /\ UNCHANGED <<sharedVars, feedVars, waddr, werr, resultsClosed, exhaustErr,
                   candidatesClosed, done, clientVars>>

\* case results <- result, received by the collector's range loop.  A failure
\* is recorded unless it is a cancellation.
Deliver(w) ==
    /\ cpc = "recv"
    /\ WorkerGoto(w, "deliver", "select")
    /\ failures' = IF werr[w] = "failed" THEN failures \cup {waddr[w]}
                                         ELSE failures
    /\ IF werr[w] = "nil" THEN cpc' = "queue" /\ caddr' = waddr[w]
                          ELSE UNCHANGED <<cpc, caddr>>
    /\ waddr' = [waddr EXCEPT ![w] = None]
    /\ UNCHANGED <<sharedVars, feedVars, werr, resultsClosed, exhaustErr,
                   candidatesClosed, done, clientVars>>

SomeWorkerReturned == \E w \in Workers : wpc[w] = "returned"

\* workers.Wait() returns.
WorkersReturned == \A w \in Workers : wpc[w] = "returned"

CloseResults ==
    /\ ~resultsClosed
    /\ WorkersReturned
    /\ resultsClosed' = TRUE
    /\ UNCHANGED <<sharedVars, feedVars, wpc, waddr, werr, collectVars,
                   clientVars>>

-----------------------------------------------------------------------------
(* collect.                                                                *)

\* case p.candidates <- result.DialResult
QueueCandidate ==
    /\ cpc = "queue"
    /\ Len(candidates) < candidatesCap
    /\ candidates' = Append(candidates, caddr)
    /\ cpc' = "recv" /\ caddr' = None
    /\ UNCHANGED <<ctxErr, slots, open, feedVars, workerVars, failures,
                   exhaustErr, candidatesClosed, done, clientVars>>

\* case <-p.ctx.Done()
DropCandidate ==
    /\ cpc = "queue"
    /\ Cancelled
    /\ Discard(caddr)
    /\ cpc' = "recv" /\ caddr' = None
    /\ UNCHANGED <<ctxErr, candidates, feedVars, workerVars, failures,
                   exhaustErr, candidatesClosed, done, clientVars>>

\* The range loop ends; p.exhaustErr is assigned before the deferred closes.
FinalizeErrors ==
    /\ cpc = "recv" /\ resultsClosed
    /\ exhaustErr' = failures
    /\ cpc' = "closeCandidates"
    /\ UNCHANGED <<sharedVars, feedVars, workerVars, caddr, failures,
                   candidatesClosed, done, clientVars>>

CloseCandidates ==
    /\ cpc = "closeCandidates"
    /\ candidatesClosed' = TRUE
    /\ cpc' = "closeDone"
    /\ UNCHANGED <<sharedVars, feedVars, workerVars, caddr, failures,
                   exhaustErr, done, clientVars>>

CloseDone ==
    /\ cpc = "closeDone"
    /\ done' = TRUE
    /\ cpc' = "returned"
    /\ UNCHANGED <<sharedVars, feedVars, workerVars, caddr, failures,
                   exhaustErr, candidatesClosed, clientVars>>

-----------------------------------------------------------------------------
(* Pool.Next, called by client g.                                          *)

ClientGoto(g, from, to) ==
    /\ gpc[g] = from
    /\ gpc' = [gpc EXCEPT ![g] = to]

Return(g, kind, errs) ==
    /\ ret' = [ret EXCEPT ![g] = kind]
    /\ reported' = [reported EXCEPT ![g] = errs]

\* The first context check.
NextEnter(g) ==
    /\ \/ Cancelled /\ ClientGoto(g, "idle", "idle") /\ Return(g, "ctx", {})
       \/ ~Cancelled /\ ClientGoto(g, "idle", "recv") /\ Return(g, "none", {})
    /\ UNCHANGED <<sharedVars, feedVars, workerVars, collectVars, once,
                   gaddr, owned>>

\* candidate, ok := <-p.candidates with ok
NextReceive(g) ==
    /\ ClientGoto(g, "recv", "release")
    /\ candidates # <<>>
    /\ gaddr' = [gaddr EXCEPT ![g] = Head(candidates)]
    /\ candidates' = Tail(candidates)
    /\ UNCHANGED <<ctxErr, slots, open, feedVars, workerVars, collectVars,
                   once, ret, reported, owned>>

\* A receive from candidates that yields !ok.
ReceiveNotOk == candidates = <<>> /\ candidatesClosed

\* !ok: the context's error, or exhaustion joined with p.exhaustErr.
NextExhausted(g) ==
    /\ ClientGoto(g, "recv", "idle")
    /\ ReceiveNotOk
    /\ IF Cancelled THEN Return(g, "ctx", {})
                    ELSE Return(g, "exhausted", exhaustErr)
    /\ UNCHANGED <<sharedVars, feedVars, workerVars, collectVars, once,
                   gaddr, owned>>

NextRelease(g) ==
    /\ ClientGoto(g, "release", "check")
    /\ releaseSlot
    /\ UNCHANGED <<ctxErr, candidates, open, feedVars, workerVars,
                   collectVars, once, gaddr, ret, reported, owned>>

\* The second context check: close the candidate, or hand it over.
NextReturn(g) ==
    /\ ClientGoto(g, "check", "idle")
    /\ IF Cancelled
       THEN open' = open \ {gaddr[g]} /\ Return(g, "ctx", {}) /\ UNCHANGED owned
       ELSE owned' = owned \cup {gaddr[g]} /\ Return(g, "candidate", {})
            /\ UNCHANGED open
    /\ gaddr' = [gaddr EXCEPT ![g] = None]
    /\ UNCHANGED <<ctxErr, slots, candidates, feedVars, workerVars,
                   collectVars, once>>

-----------------------------------------------------------------------------
(* Pool.Close, called by client g.                                         *)

\* closeOnce.Do: the first caller runs p.cancel(), one that finds it running
\* waits for it, a later one returns at once.
CloseEnter(g) ==
    /\ \/ /\ once = "new"
          /\ ClientGoto(g, "idle", "waitDone")
          /\ once' = "running"
          /\ ctxErr' = IF Cancelled THEN ctxErr ELSE "canceled"
       \/ /\ once = "running"
          /\ ClientGoto(g, "idle", "waitOnce")
          /\ UNCHANGED <<once, ctxErr>>
       \/ /\ once = "done"
          /\ ClientGoto(g, "idle", "idle")
          /\ UNCHANGED <<once, ctxErr>>
    /\ UNCHANGED <<slots, candidates, open, feedVars, workerVars,
                   collectVars, gaddr, ret, reported, owned>>

CloseAwaitsCandidates == candidatesClosed

\* <-p.done
DoneClosed == done

CloseAwaitDone(g) ==
    /\ ClientGoto(g, "waitDone", "drain")
    /\ DoneClosed
    /\ UNCHANGED <<sharedVars, feedVars, workerVars, collectVars, once,
                   gaddr, ret, reported, owned>>

\* One iteration of range p.candidates.
CloseDrain(g) ==
    /\ ClientGoto(g, "drain", "drain")
    /\ candidates # <<>>
    /\ candidates' = Tail(candidates)
    /\ Discard(Head(candidates))
    /\ UNCHANGED <<ctxErr, feedVars, workerVars, collectVars, once, gaddr,
                   ret, reported, owned>>

CloseReturn(g) ==
    /\ ClientGoto(g, "drain", "idle")
    /\ ReceiveNotOk
    /\ once' = "done"
    /\ UNCHANGED <<sharedVars, feedVars, workerVars, collectVars, gaddr, ret,
                   reported, owned>>

CloseAwaitOnce(g) ==
    /\ ClientGoto(g, "waitOnce", "idle")
    /\ once = "done"
    /\ UNCHANGED <<sharedVars, feedVars, workerVars, collectVars, once,
                   gaddr, ret, reported, owned>>

-----------------------------------------------------------------------------
Feeder == FeederReturn \/ \E w \in Workers : Dispatch(w)

Worker(w) ==
    \/ WorkerReturn(w) \/ AcquireSlot(w) \/ AcquireCancelled(w)
    \/ DialSucceeds(w)
    \/ \E e \in AttemptErrs \ {"nil"}, withConn \in BOOLEAN :
           DialFails(w, e, withConn)
    \/ FailureCleanup(w) \/ DeliverCancelled(w) \/ Deliver(w)

Collector ==
    \/ QueueCandidate \/ DropCandidate
    \/ FinalizeErrors \/ CloseCandidates \/ CloseDone

\* Steps of a client inside a call of Next or Close.
InCall(g) ==
    \/ NextReceive(g) \/ NextExhausted(g) \/ NextRelease(g) \/ NextReturn(g)
    \/ CloseAwaitDone(g) \/ CloseDrain(g) \/ CloseReturn(g)
    \/ CloseAwaitOnce(g)

Next ==
    \/ \E e \in {"canceled", "deadline"} : ParentDone(e)
    \/ Feeder
    \/ \E w \in Workers : Worker(w)
    \/ CloseResults
    \/ Collector
    \/ \E g \in Clients : NextEnter(g) \/ CloseEnter(g) \/ InCall(g)

Spec == Init /\ [][Next]_vars

\* Runnable goroutines are scheduled, and AttemptTimeout ends every dial.
\* Nothing obliges a client to call Next or Close, or the parent to cancel.
Fairness ==
    /\ WF_vars(Feeder)
    /\ \A w \in Workers : WF_vars(Worker(w))
    /\ WF_vars(CloseResults)
    /\ WF_vars(Collector)
    /\ \A g \in Clients : WF_vars(InCall(g))

FairSpec == Spec /\ Fairness
=============================================================================
