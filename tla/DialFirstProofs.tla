-------------------------- MODULE DialFirstProofs ---------------------------
(***************************************************************************)
(* Proofs about DialFirst, for any pool and any tracked endpoint.  They    *)
(* join what PoolProofs shows of the pool and ConnProofs of a connection:  *)
(* every step of DialFirst is a step of each of them or leaves it alone.   *)
(***************************************************************************)
EXTENDS DialFirst, PoolProofs

\* What ConnProofs proves of the one connection, for a dial and a session.
CP == INSTANCE ConnProofs WITH Phases <- 2, HasDeadline <- 1..2

\* The pool is as PoolProofs shows it, until the caller closes what it owns.
PoolInv == TypeInv /\ SingleHolder /\ ConnInv /\ Shutdown

\* A dial that succeeded has had a watcher, and returns an open connection.
DialOK ==
    /\ phase = 1 /\ pc \in {"io", "failed", "check", "stop", "await"} => watcher[1] # "none"
    /\ outcome[1] = "ok" =>
           /\ phase # 0 /\ watcher[1] # "none"
           /\ phase = 1 => /\ pc \in {"stop", "await", "return", "idle"}
                           /\ pc # "idle" => conn = "open"

WireInv == CP!IInv /\ DialOK

\* How far DialFirst has come, and what it owns then.
OwnedAsReturned ==
    IF ret[main] = "candidate" THEN \E a \in Addrs : owned = {a} ELSE owned = {}

CallInv ==
    /\ dpc \in {"next", "inNext", "inClose", "returned"}
    /\ OwnedAsReturned
    /\ gpc[main] # "idle" /\ dpc = "inNext" => ret[main] # "candidate"
    /\ dpc = "next" => gpc[main] = "idle" /\ once = "new" /\ ret[main] # "candidate"
    /\ dpc = "inNext" => gpc[main] \in {"idle", "recv", "release", "check"} /\ once = "new"
    /\ dpc = "inClose" => /\ Cancelled
                          /\ gpc[main] \in {"idle", "waitDone", "drain"}
                          /\ IF gpc[main] = "idle" THEN once = "done" ELSE once = "running"
    /\ dpc = "returned" => Cancelled /\ gpc[main] = "idle" /\ once = "done"

\* The pool's view of the tracked connection and the connection itself.
Waits == Tracked \in Unfed \cup {waddr[w] : w \in {v \in Workers : wpc[v] = "acquire"}}
Dialled == \E w \in Workers : wpc[w] = "dial" /\ waddr[w] = Tracked

Link ==
    /\ Waits => phase = 0
    /\ Dialled <=> phase = 1 /\ pc # "idle"
    /\ phase <= 1 => (Tracked \in open <=> conn = "open" /\ pc = "idle")
    /\ phase = 2 => dpc = "returned"

DInv == WireInv /\ (dpc # "closed" => PoolInv /\ CallInv /\ Link)

-----------------------------------------------------------------------------
(* The connection.                                                         *)

LEMMA TwoPhases == CP!ConnAssumption
BY DEF CP!ConnAssumption

\* ConnProofs instantiates the same module Conn as DialFirst.
LEMMA SameCaller == C!Caller <=> CP!Caller
BY DEF C!Caller, CP!Caller, C!Connect, CP!Connect, C!WatchContext, CP!WatchContext,
  C!WatchContextFails, CP!WatchContextFails, C!EnterBlock, CP!EnterBlock, C!IODone, CP!IODone,
  C!IOFails, CP!IOFails, C!ReturnError, CP!ReturnError, C!CheckContext, CP!CheckContext,
  C!StopWatching, CP!StopWatching, C!ClearDeadline, CP!ClearDeadline, C!Return, CP!Return,
  C!Goto, CP!Goto, C!Result, CP!Result, C!SetDeadline, CP!SetDeadline, C!Expired, CP!Expired,
  C!contextIOError, CP!contextIOError, C!CloseIfDialing, CP!CloseIfDialing, C!Stopped, CP!Stopped,
  C!Dialing, CP!Dialing, C!Now, CP!Now, C!NoDeadline, CP!NoDeadline, C!IDs, CP!IDs,
  C!IOErrors, CP!IOErrors, C!ctxVars, CP!ctxVars, C!watchVars, CP!watchVars

LEMMA SameNext == C!Next => CP!Next
BY SameCaller DEF C!Next, CP!Next, C!Begin, CP!Begin, C!OwnerCloses, CP!OwnerCloses, C!IDs, CP!IDs,
  C!ParentCancelled, CP!ParentCancelled, C!TimeUp, CP!TimeUp, C!TimerFires, CP!TimerFires,
  C!Watcher, CP!Watcher, C!WatcherWakes, CP!WatcherWakes, C!WatcherInterrupts, CP!WatcherInterrupts,
  C!WatcherStops, CP!WatcherStops, C!WatcherStep, CP!WatcherStep, C!SetDeadline, CP!SetDeadline,
  C!Now, CP!Now, C!ctxVars, CP!ctxVars, C!watchVars, CP!watchVars

\* A step of the connection keeps what ConnProofs shows, and a successful dial
\* is one that had a watcher and left the connection open.
LEMMA WireStep ==
  ASSUME WireInv, CP!Next \/ UNCHANGED connVars
  PROVE  WireInv'
  <1>1. CP!IInv'
    BY CP!NextIInv DEF WireInv, CP!vars, connVars
  <1> SUFFICES DialOK'
    BY <1>1 DEF WireInv
  <1>2. CP!TypeOK /\ CP!PhaseShape /\ DialOK
    BY DEF WireInv, CP!IInv
  <1> USE DEF DialOK, CP!TypeOK, CP!PhaseShape, CP!IDs, CP!ctxVars, CP!watchVars
  <1>3. CASE UNCHANGED connVars
    BY <1>2, <1>3 DEF connVars
  <1>4. ASSUME NEW parentDone \in BOOLEAN, CP!Begin(parentDone) PROVE DialOK'
    BY <1>2, <1>4 DEF CP!Begin
  <1>5. CASE CP!Connect
    BY <1>2, <1>5 DEF CP!Connect, CP!Result
  <1>6. CASE CP!WatchContext
    BY <1>2, <1>6 DEF CP!WatchContext, CP!Goto
  <1>7. CASE CP!WatchContextFails
    BY <1>2, <1>7 DEF CP!WatchContextFails, CP!Goto, CP!Result
  <1>8. CASE CP!EnterBlock
    BY <1>2, <1>8 DEF CP!EnterBlock, CP!Result
  <1>9. CASE CP!IODone \/ \E e \in CP!IOErrors : CP!IOFails(e)
    BY <1>2, <1>9 DEF CP!IODone, CP!IOFails, CP!Goto
  <1>10. CASE CP!ReturnError
    BY <1>2, <1>10 DEF CP!ReturnError, CP!Goto, CP!Result, CP!contextIOError, CP!IOErrors
  <1>11. CASE CP!CheckContext
    BY <1>2, <1>11 DEF CP!CheckContext, CP!Goto, CP!Result, CP!CloseIfDialing, CP!Dialing
  <1>12. CASE CP!StopWatching \/ CP!ClearDeadline \/ CP!Return
    BY <1>2, <1>12 DEF CP!StopWatching, CP!ClearDeadline, CP!Return, CP!Goto
  <1>13. CASE CP!OwnerCloses
    BY <1>2, <1>13 DEF CP!OwnerCloses
  <1>14. ASSUME NEW p \in CP!IDs, CP!ParentCancelled(p) \/ CP!TimeUp(p) \/ CP!TimerFires(p)
         PROVE DialOK'
    BY <1>2, <1>14 DEF CP!ParentCancelled, CP!TimeUp, CP!TimerFires
  <1>15. ASSUME NEW p \in CP!IDs, CP!Watcher(p) PROVE DialOK'
    BY <1>2, <1>15 DEF CP!Watcher, CP!WatcherWakes, CP!WatcherInterrupts, CP!WatcherStops,
       CP!WatcherStep
  <1> HIDE DEF DialOK, CP!TypeOK, CP!PhaseShape, CP!IDs, CP!ctxVars, CP!watchVars
  <1> QED BY <1>3, <1>4, <1>5, <1>6, <1>7, <1>8, <1>9, <1>10, <1>11, <1>12, <1>13, <1>14, <1>15
     DEF CP!Next, CP!Caller

\* Every step of DialFirst is one of the connection or leaves it alone.
LEMMA ConnTakesPart == [DNext]_allVars => C!Next \/ UNCHANGED connVars
  <1> SUFFICES ASSUME [DNext]_allVars PROVE C!Next \/ UNCHANGED connVars
    OBVIOUS
  <1>1. Follow => C!Next \/ UNCHANGED connVars
    BY DEF Follow, C!Next
  <1>2. Cancelled \in BOOLEAN
    BY DEF Cancelled
  <1>3. ASSUME NEW w \in Workers, DWorker(w) PROVE C!Next \/ UNCHANGED connVars
    <2>1. BeginDial(w) => C!Next \/ UNCHANGED connVars
      BY <1>2 DEF BeginDial, C!Next
    <2>2. EndDial(w) => C!Next \/ UNCHANGED connVars
      BY DEF EndDial, C!Next, C!Caller
    <2> QED BY <1>1, <1>3, <2>1, <2>2 DEF DWorker
  <1>4. CASE Discovery \/ InPool \/ CallerCloses
    BY <1>1, <1>4 DEF Discovery, InPool, CallerCloses
  <1>5. CASE Running \/ Propagate
    BY <1>5 DEF Running, Propagate, OnConn, C!Next, C!IDs
  <1>6. ASSUME NEW p \in C!IDs, Clock(p) \/ Watching(p) PROVE C!Next \/ UNCHANGED connVars
    BY <1>6 DEF Clock, Watching, OnConn, C!Next
  <1>7. CASE CallNext \/ CallClose \/ Returns \/ ParentEnds
    BY <1>7 DEF CallNext, CallClose, Returns, ParentEnds
  <1>8. CASE BeginSession
    BY <1>8 DEF BeginSession, C!Next
  <1>9. CASE UNCHANGED allVars
    BY <1>9 DEF allVars
  <1> QED BY <1>3, <1>4, <1>5, <1>6, <1>7, <1>8, <1>9 DEF DNext

\* The dial is an attempt of the pool, whatever becomes of it.
LEMMA DialIsAttempt ==
  ASSUME NEW w \in Workers, DWorker(w)
  PROVE  Worker(w) /\ dpc' = dpc
  <1>1. BeginDial(w) => Worker(w)
    BY DEF BeginDial, Worker
  <1>2. ASSUME EndDial(w) PROVE Worker(w)
    <2>1. \A e \in attemptErrors : e \in AttemptErrs \ {"nil"}
      BY DEF attemptErrors, AttemptErrs
    <2> QED BY <1>2, <2>1 DEF EndDial, Worker
  <1> QED BY <1>1, <1>2 DEF DWorker, Worker

\* And until the caller closes the connection it is one of the pool.
LEMMA PoolTakesPart == [DNext]_allVars /\ ~CallerCloses => [Next]_vars /\ (dpc # "closed" => dpc' # "closed")
  <1> SUFFICES ASSUME [DNext]_allVars, ~CallerCloses PROVE [Next]_vars /\ (dpc # "closed" => dpc' # "closed")
    OBVIOUS
  <1>1. ASSUME NEW w \in Workers, DWorker(w) PROVE Worker(w) /\ dpc' = dpc
    BY <1>1, DialIsAttempt
  <1>2. CASE Discovery
    BY <1>2 DEF Discovery, Next
  <1>3. CASE InPool
    BY <1>3, DialFirstAssumption DEF InPool, Next
  <1>4. CASE Running \/ Propagate \/ BeginSession \/ Returns
    BY <1>4 DEF Running, Propagate, OnConn, BeginSession, Returns, DialGoto
  <1>5. ASSUME NEW p \in C!IDs, Clock(p) \/ Watching(p) PROVE UNCHANGED <<vars, dpc>>
    BY <1>5 DEF Clock, Watching, OnConn
  <1>6. CASE CallNext \/ CallClose
    BY <1>6, DialFirstAssumption DEF CallNext, CallClose, DialGoto, Next
  <1>7. CASE ParentEnds
    BY <1>7 DEF ParentEnds, Next
  <1>8. CASE UNCHANGED allVars
    BY <1>8 DEF allVars
  <1> QED BY <1>1, <1>2, <1>3, <1>4, <1>5, <1>6, <1>7, <1>8 DEF DNext, Next

-----------------------------------------------------------------------------
(* The caller.                                                             *)

\* Steps that do not concern DialFirst itself.
LEMMA CallKept ==
  ASSUME CallInv, UNCHANGED <<dpc, clientVars>>, Cancelled => Cancelled'
  PROVE  CallInv'
BY DEF CallInv, OwnedAsReturned, clientVars

\* What the steps of worker, feeder and collector leave alone.
LEMMA NotTheCaller ==
  ASSUME NEW w \in Workers, Worker(w) \/ Feeder \/ CloseResults \/ Collector
  PROVE  UNCHANGED <<clientVars, ctxErr>>
BY DEF Worker, Feeder, CloseResults, Collector, WorkerReturn, AcquireSlot, AcquireCancelled,
  DialSucceeds, DialFails, FailureCleanup, DeliverCancelled, Deliver, FeederReturn, Dispatch,
  QueueCandidate, DropCandidate, FinalizeErrors, CloseCandidates, CloseDone, sharedVars

LEMMA CallStep ==
  ASSUME TypeInv, CallInv, [DNext]_allVars, dpc' # "closed"
  PROVE  CallInv'
  <1>1. ASSUME NEW w \in Workers, DWorker(w) PROVE CallInv'
    <2>1. Worker(w) /\ dpc' = dpc
      BY <1>1, DialIsAttempt
    <2> QED BY <2>1, CallKept, NotTheCaller DEF Cancelled
  <1>2. CASE Discovery
    <2>1. PICK w \in Workers : TRUE
      BY PoolAssumption
    <2> QED BY <1>2, <2>1, CallKept, NotTheCaller DEF Discovery, Cancelled
  <1>3. CASE Running \/ Propagate \/ BeginSession
    BY <1>3, CallKept DEF Running, Propagate, OnConn, BeginSession, vars, sharedVars, Cancelled
  <1>4. ASSUME NEW p \in C!IDs, Clock(p) \/ Watching(p) PROVE CallInv'
    BY <1>4, CallKept DEF Clock, Watching, OnConn, vars, sharedVars, Cancelled
  <1>5. CASE ParentEnds
    BY <1>5, CallKept DEF ParentEnds, ParentDone, Cancelled
  <1>6. CASE UNCHANGED allVars
    BY <1>6, CallKept DEF allVars, vars, sharedVars, Cancelled
  <1>7. main \in Clients
    BY DialFirstAssumption
  <1>8. CASE CallNext
    BY <1>7, <1>8 DEF CallNext, DialGoto, NextEnter, ClientGoto, Return, Cancelled, CallInv,
       OwnedAsReturned, TypeInv, TypeOK, sharedVars
  <1>9. CASE CallClose
    BY <1>7, <1>9 DEF CallClose, DialGoto, nextReturned, CloseEnter, ClientGoto, Cancelled, CallInv,
       OwnedAsReturned, TypeInv, TypeOK
  <1>10. CASE Returns
    BY <1>10 DEF Returns, DialGoto, closeReturned, CallInv, OwnedAsReturned, vars, sharedVars,
       clientVars, Cancelled
  <1>11. CASE InPool
    <2>1. dpc' = dpc /\ InCall(main)
      BY <1>11 DEF InPool
    <2> USE DEF ClientGoto, Return, Cancelled, CallInv, OwnedAsReturned, TypeInv, TypeOK, sharedVars
    <2>2. CASE NextReceive(main)
      BY <1>7, <2>1, <2>2 DEF NextReceive
    <2>3. CASE NextExhausted(main)
      BY <1>7, <2>1, <2>3 DEF NextExhausted
    <2>4. CASE NextRelease(main)
      BY <1>7, <2>1, <2>4 DEF NextRelease
    <2>5. CASE NextReturn(main)
      <3>1. /\ gpc[main] = "check" /\ gpc'[main] = "idle" /\ UNCHANGED <<ctxErr, once>>
            /\ \/ Cancelled /\ ret'[main] = "ctx" /\ owned' = owned
               \/ ~Cancelled /\ ret'[main] = "candidate" /\ owned' = owned \cup {gaddr[main]}
        BY <1>7, <2>5 DEF NextReturn
      <3>2. dpc = "inNext" /\ owned = {}
        BY <3>1
      <3>3. gaddr[main] \in Addrs
        BY <1>7, <3>1 DEF HeldTyped, Holding
      <3> QED BY <2>1, <3>1, <3>2, <3>3
    <2>6. CASE CloseAwaitDone(main)
      BY <1>7, <2>1, <2>6 DEF CloseAwaitDone
    <2>7. CASE CloseDrain(main)
      BY <1>7, <2>1, <2>7 DEF CloseDrain
    <2>8. CASE CloseReturn(main)
      BY <1>7, <2>1, <2>8 DEF CloseReturn
    <2>9. CASE CloseAwaitOnce(main)
      BY <1>7, <2>1, <2>9 DEF CloseAwaitOnce
    <2> HIDE DEF CallInv
    <2> QED BY <2>1, <2>2, <2>3, <2>4, <2>5, <2>6, <2>7, <2>8, <2>9 DEF InCall
  <1>12. ~CallerCloses
    BY DEF CallerCloses, DialGoto
  <1> QED BY <1>1, <1>2, <1>3, <1>4, <1>5, <1>6, <1>8, <1>9, <1>10, <1>11, <1>12 DEF DNext

-----------------------------------------------------------------------------
(* The pool's connection and the connection itself.                        *)

\* A step of the pool that dials nothing closes the tracked connection exactly
\* when it removes it from the open ones.
LEMMA LinkFollows ==
  ASSUME Link, WireInv, Follow, open' \subseteq open, dpc' = dpc, Waits' => Waits, Dialled' <=> Dialled
  PROVE  Link'
  <1>1. CASE Tracked \in open \ open'
    <2>1. pc = "idle" /\ conn = "open" /\ conn' = "closed" /\ UNCHANGED <<phase, pc>>
      BY <1>1 DEF Follow, C!OwnerCloses
    <2> QED BY <1>1, <2>1 DEF Link
  <1>2. CASE Tracked \notin open \ open'
    <2>1. UNCHANGED <<conn, phase, pc>>
      BY <1>2 DEF Follow, connVars
    <2>2. Tracked \in open' <=> Tracked \in open
      BY <1>2
    <2> QED BY <2>1, <2>2 DEF Link
  <1> QED BY <1>1, <1>2

\* A step that concerns neither the attempts nor the open connections.
LEMMA LinkKept ==
  ASSUME Link, UNCHANGED <<fed, wpc, waddr, open, conn, phase, pc>>, phase = 2 => dpc' = "returned"
  PROVE  Link'
  <1>1. (Waits' <=> Waits) /\ (Dialled' <=> Dialled)
    BY DEF Waits, Dialled, Unfed
  <1> QED BY <1>1 DEF Link

\* A worker that changes its place, neither about to dial nor dialling.
LEMMA OtherWorker ==
  ASSUME TypeInv, NEW w \in Workers, UNCHANGED fed,
         wpc[w] # "dial", NEW q, NEW a,
         wpc' = [wpc EXCEPT ![w] = q], q \notin {"acquire", "dial"},
         waddr' = waddr \/ waddr' = [waddr EXCEPT ![w] = a]
  PROVE  (Waits' => Waits) /\ (Dialled' <=> Dialled)
  <1>1. \A v \in Workers : v # w => wpc'[v] = wpc[v] /\ waddr'[v] = waddr[v]
    BY DEF TypeInv, TypeOK
  <1>2. wpc'[w] = q
    BY DEF TypeInv, TypeOK
  <1>3. Dialled' <=> Dialled
    BY <1>1, <1>2 DEF Dialled
  <1>4. {waddr'[v] : v \in {u \in Workers : wpc'[u] = "acquire"}}
            \subseteq {waddr[v] : v \in {u \in Workers : wpc[u] = "acquire"}}
    BY <1>1, <1>2
  <1>5. Waits' => Waits
    BY <1>4 DEF Waits, Unfed
  <1> QED BY <1>3, <1>5

LEMMA DispatchLink ==
  ASSUME TypeInv, NEW w \in Workers, Dispatch(w)
  PROVE  (Waits' => Waits) /\ (Dialled' <=> Dialled)
  <1>1. /\ \A v \in Workers : v # w => wpc'[v] = wpc[v] /\ waddr'[v] = waddr[v]
        /\ wpc[w] = "select" /\ wpc'[w] = "acquire" /\ waddr'[w] = uniqueAddrs[fed + 1]
    BY DEF TypeInv, TypeOK, Dispatch
  <1>2. Unfed' \subseteq Unfed /\ uniqueAddrs[fed + 1] \in Unfed
    BY UnfedShrinks DEF TypeInv, TypeOK, Dispatch
  <1>3. Dialled' <=> Dialled
    BY <1>1 DEF Dialled
  <1>4. Waits' => Waits
    BY <1>1, <1>2 DEF Waits
  <1> QED BY <1>3, <1>4

\* The steps of a dial, of a session and of their contexts.
LEMMA CallerShape ==
  ASSUME C!Caller
  PROVE  phase' = phase /\ pc # "idle" /\ (pc' = "idle" => pc = "return")
BY DEF C!Caller, C!Connect, C!WatchContext, C!WatchContextFails, C!EnterBlock, C!IODone, C!IOFails,
  C!ReturnError, C!CheckContext, C!StopWatching, C!ClearDeadline, C!Return, C!Goto

LEMMA BeginDialLink ==
  ASSUME TypeInv, SingleHolder, Link, WireInv, NEW w \in Workers, BeginDial(w), dpc' = dpc
  PROVE  Link'
  <1>1. /\ \A v \in Workers : v # w => wpc'[v] = wpc[v]
        /\ wpc[w] = "acquire" /\ wpc'[w] = "dial" /\ UNCHANGED <<waddr, open, fed>>
    BY DEF TypeInv, TypeOK, BeginDial, AcquireSlot, WorkerGoto, feedVars
  <1>2. Waits' => Waits
    BY <1>1 DEF Waits, Unfed
  <1>3. CASE waddr[w] # Tracked
    <2>1. Dialled' <=> Dialled
      BY <1>1, <1>3 DEF Dialled
    <2>2. UNCHANGED <<conn, phase, pc>>
      BY <1>3 DEF BeginDial, connVars
    <2> QED BY <1>1, <1>2, <2>1, <2>2 DEF Link
  <1>4. CASE waddr[w] = Tracked
    <2>1. Waits
      BY <1>1, <1>4 DEF Waits
    <2>2. phase = 0 /\ conn # "open"
      BY <2>1 DEF Link, WireInv, CP!IInv, CP!PhaseShape
    <2>3. phase' = 1 /\ pc' = "connect" /\ conn' = conn
      BY <1>4, <2>2 DEF BeginDial, C!Begin
    <2>4. Dialled'
      BY <1>1, <1>4 DEF Dialled
    <2>5. ~Waits'
      <3>1. Tracked \notin Unfed
        BY <1>1, <1>4 DEF SingleHolder, Busy
      <3>2. \A v \in Workers : v # w /\ wpc[v] = "acquire" => waddr[v] # Tracked
        BY <1>1, <1>4 DEF SingleHolder, Busy
      <3> QED BY <1>1, <3>1, <3>2 DEF Waits, Unfed
    <2>6. Tracked \notin open'
      BY <1>1, <2>2 DEF Link
    <2> QED BY <2>2, <2>3, <2>4, <2>5, <2>6 DEF Link
  <1> QED BY <1>3, <1>4

LEMMA EndDialLink ==
  ASSUME TypeInv, SingleHolder, Link, WireInv, NEW w \in Workers, EndDial(w), dpc' = dpc
  PROVE  Link'
  <1>1. /\ \A v \in Workers : v # w => wpc'[v] = wpc[v]
        /\ wpc[w] = "dial" /\ wpc'[w] \in {"deliver", "failed"} /\ UNCHANGED <<waddr, fed>>
    BY DEF TypeInv, TypeOK, EndDial, DialSucceeds, DialFails, WorkerGoto, feedVars
  <1>2. Waits' => Waits
    BY <1>1 DEF Waits, Unfed
  <1>3. CASE waddr[w] # Tracked
    <2>1. Dialled' <=> Dialled
      BY <1>1, <1>3 DEF Dialled
    <2>2. UNCHANGED <<conn, phase, pc>> /\ open' \in {open, open \cup {waddr[w]}}
      BY <1>3 DEF EndDial, connVars, DialSucceeds, DialFails
    <2>3. Tracked \in open' <=> Tracked \in open
      BY <1>3, <2>2
    <2> QED BY <1>2, <2>1, <2>2, <2>3 DEF Link
  <1>4. CASE waddr[w] = Tracked
    <2>1. Dialled /\ phase = 1
      BY <1>1, <1>4 DEF Dialled, Link
    <2>2. /\ pc = "return" /\ pc' = "idle" /\ UNCHANGED <<phase, conn>>
          /\ IF outcome[1] = "ok" THEN open' = open \cup {Tracked} ELSE open' = open
      BY <1>4 DEF EndDial, C!Return, C!Goto, DialSucceeds, DialFails
    <2>3. ~Dialled'
      <3>1. \A v \in Workers : v # w /\ wpc[v] = "dial" => waddr[v] # Tracked
        BY <1>1, <1>4 DEF SingleHolder, Busy
      <3> QED BY <1>1, <3>1 DEF Dialled
    <2>4. Tracked \in open' <=> outcome[1] = "ok"
      BY <2>1, <2>2 DEF Link
    <2>5. conn = "open" <=> outcome[1] = "ok"
      BY <2>1, <2>2 DEF WireInv, DialOK, CP!IInv, CP!DialShape
    <2> QED BY <1>2, <2>1, <2>2, <2>3, <2>4, <2>5 DEF Link
  <1> QED BY <1>3, <1>4

LEMMA LinkStep ==
  ASSUME TypeInv, SingleHolder, CallInv, Link, WireInv, [DNext]_allVars, dpc' # "closed"
  PROVE  Link'
  <1> USE DEF feedVars, workerVars, collectVars, clientVars, sharedVars
  <1>1. ASSUME NEW w \in Workers, DWorker(w) PROVE Link'
    <2>1. dpc' = dpc
      BY <1>1 DEF DWorker
    <2>2. CASE BeginDial(w) \/ EndDial(w)
      BY <2>1, <2>2, BeginDialLink, EndDialLink
    <2>3. ASSUME Follow,
                 \/ WorkerReturn(w) \/ AcquireCancelled(w) \/ FailureCleanup(w)
                 \/ DeliverCancelled(w) \/ Deliver(w)
          PROVE  Link'
      <3>1. /\ wpc[w] # "dial" /\ UNCHANGED fed /\ open' \subseteq open
            /\ \E q \in {"returned", "deliver", "select"} : wpc' = [wpc EXCEPT ![w] = q]
            /\ waddr' = waddr \/ waddr' = [waddr EXCEPT ![w] = None]
        BY <2>3 DEF WorkerReturn, AcquireCancelled, FailureCleanup, DeliverCancelled, Deliver,
           WorkerGoto, Discard
      <3>2. (Waits' => Waits) /\ (Dialled' <=> Dialled)
        BY <3>1, OtherWorker
      <3> QED BY <2>1, <2>3, <3>1, <3>2, LinkFollows
    <2> QED BY <1>1, <2>2, <2>3 DEF DWorker
  <1>2. CASE Discovery
    <2>1. dpc' = dpc /\ Follow /\ (Feeder \/ CloseResults \/ Collector)
      BY <1>2 DEF Discovery
    <2>2. ASSUME NEW w \in Workers, Dispatch(w) PROVE Link'
      BY <2>1, <2>2, DispatchLink, LinkFollows DEF Dispatch
    <2>3. CASE FeederReturn \/ CloseResults \/ Collector
      <3>1. UNCHANGED <<fed, wpc, waddr>> /\ open' \subseteq open
        BY <2>3 DEF FeederReturn, CloseResults, Collector, QueueCandidate, DropCandidate,
           FinalizeErrors, CloseCandidates, CloseDone, Discard
      <3>2. (Waits' => Waits) /\ (Dialled' <=> Dialled)
        BY <3>1 DEF Waits, Dialled, Unfed
      <3> QED BY <2>1, <3>1, <3>2, LinkFollows
    <2> QED BY <2>1, <2>2, <2>3 DEF Feeder
  <1>3. CASE InPool
    <2>1. UNCHANGED <<fed, wpc, waddr>> /\ open' \subseteq open /\ dpc' = dpc /\ Follow
      BY <1>3 DEF InPool, InCall, NextReceive, NextExhausted, NextRelease, NextReturn,
         CloseAwaitDone, CloseDrain, CloseReturn, CloseAwaitOnce, Discard
    <2>2. (Waits' => Waits) /\ (Dialled' <=> Dialled)
      BY <2>1 DEF Waits, Dialled, Unfed
    <2> QED BY <2>1, <2>2, LinkFollows
  <1>4. CASE Running
    <2>1. /\ UNCHANGED <<fed, wpc, waddr, open, dpc, phase>> /\ pc # "idle"
          /\ pc' = "idle" => phase = 2
      BY <1>4, CallerShape DEF Running, OnConn, vars
    <2>2. (Waits' <=> Waits) /\ (Dialled' <=> Dialled)
      BY <2>1 DEF Waits, Dialled, Unfed
    <2>3. phase \in {1, 2}
      BY <2>1 DEF WireInv, CP!IInv, CP!PhaseShape, CP!IDs
    <2> QED BY <2>1, <2>2, <2>3 DEF Link
  <1>5. CASE Propagate
    BY <1>5, LinkKept DEF Propagate, OnConn, vars, C!ParentCancelled, Link
  <1>6. ASSUME NEW p \in C!IDs, Clock(p) \/ Watching(p) PROVE Link'
    BY <1>6, LinkKept DEF Clock, Watching, OnConn, vars, C!TimeUp, C!TimerFires, C!Watcher,
       C!WatcherWakes, C!WatcherInterrupts, C!WatcherStops, C!WatcherStep, Link
  <1>7. CASE CallNext \/ CallClose \/ Returns
    BY <1>7, LinkKept DEF CallNext, NextEnter, CallClose, CloseEnter, Returns, DialGoto, vars,
       connVars, Link
  <1>8. CASE ParentEnds
    BY <1>8, LinkKept DEF ParentEnds, ParentDone, connVars, Link
  <1>9. CASE BeginSession
    <2>1. /\ UNCHANGED <<fed, wpc, waddr, open, dpc>> /\ dpc = "returned" /\ phase = 1
          /\ pc = "idle" /\ phase' = 2
      BY <1>9 DEF BeginSession, C!Begin, vars
    <2>2. (Waits' <=> Waits) /\ (Dialled' <=> Dialled)
      BY <2>1 DEF Waits, Dialled, Unfed
    <2> QED BY <2>1, <2>2 DEF Link
  <1>10. CASE UNCHANGED allVars
    BY <1>10, LinkKept DEF allVars, vars, connVars, Link
  <1>11. ~CallerCloses
    BY DEF CallerCloses, DialGoto
  <1> QED BY <1>1, <1>2, <1>3, <1>4, <1>5, <1>6, <1>7, <1>8, <1>9, <1>10, <1>11 DEF DNext

-----------------------------------------------------------------------------
(* The theorems.                                                           *)

LEMMA DialInit == DInit => DInv
  <1> SUFFICES ASSUME DInit PROVE DInv
    OBVIOUS
  <1>1. Init /\ C!Init /\ dpc = "next"
    BY DEF DInit
  <1>2. CP!Init
    BY <1>1 DEF C!Init, CP!Init, C!IDs, CP!IDs, C!NoDeadline, CP!NoDeadline
  <1>3. WireInv
    BY <1>1, <1>2, CP!InitIInv DEF WireInv, DialOK, C!Init, C!IDs
  <1>4. PoolInv
    BY <1>1, InitTypeInv, InitSingleHolder, LifeInit DEF PoolInv
  <1>5. CallInv
    BY <1>1, DialFirstAssumption DEF Init, CallInv, OwnedAsReturned
  <1>6. Link
    BY <1>1 DEF Init, C!Init, Link, Dialled, Waits
  <1> QED BY <1>3, <1>4, <1>5, <1>6 DEF DInv

LEMMA DialNext == DInv /\ [DNext]_allVars => DInv'
  <1> SUFFICES ASSUME DInv, [DNext]_allVars PROVE DInv'
    OBVIOUS
  <1>1. WireInv /\ WireInv'
    BY ConnTakesPart, SameNext, WireStep DEF DInv
  <1>2. ASSUME dpc' # "closed" PROVE PoolInv' /\ CallInv' /\ Link'
    <2>1. ~CallerCloses
      BY <1>2 DEF CallerCloses, DialGoto
    <2>2. dpc # "closed"
      <3>1. CASE UNCHANGED allVars
        BY <1>2, <3>1 DEF allVars
      <3>2. CASE DNext
        BY <1>2, <2>1, <3>2 DEF DNext, DWorker, Discovery, Running, Propagate, Clock, Watching,
           OnConn, CallNext, InPool, CallClose, Returns, BeginSession, ParentEnds, DialGoto
      <3> QED BY <3>1, <3>2
    <2>3. TypeInv /\ SingleHolder /\ ConnInv /\ Shutdown /\ CallInv /\ Link
      BY <2>2 DEF DInv, PoolInv
    <2>4. [Next]_vars
      BY <2>1, PoolTakesPart
    <2>5. PoolInv'
      BY <2>3, <2>4, NextTypeInv, NextSingleHolder, NextConnInv, NextShutdown DEF PoolInv
    <2>6. CallInv'
      BY <1>2, <2>3, CallStep
    <2>7. Link'
      BY <1>1, <1>2, <2>3, LinkStep
    <2> QED BY <2>5, <2>6, <2>7
  <1> QED BY <1>1, <1>2 DEF DInv

LEMMA DialInvariance == DSpec => []DInv
BY DialInit, DialNext, PTL DEF DSpec

\* What is open when DialFirst has returned.
LEMMA OpenIsOwned ==
  ASSUME DInv, dpc = "returned"
  PROVE  WorkersReturned /\ cpc = "returned" /\ open = owned
  <1>1. /\ TypeInv /\ OpenIffHeld /\ Shutdown /\ once = "done" /\ gpc[main] = "idle"
    BY DEF DInv, PoolInv, ConnInv, CallInv
  <1>2. /\ WorkersReturned /\ cpc = "returned" /\ candidates = <<>>
    BY <1>1 DEF Shutdown
  <1>3. CollectorHolds = {} /\ WorkerHolds = {} /\ QueueHolds = {}
    <2>1. Attempting = {}
      BY <1>2 DEF WorkersReturned, Attempting
    <2>2. SeqRange(<<>>) = {}
      BY DEF SeqRange
    <2> QED BY <1>2, <2>1, <2>2 DEF CollectorHolds, WorkerHolds, QueueHolds
  <1>4. ClientHolds("release") = {} /\ ClientHolds("check") = {}
    BY <1>1, DialFirstAssumption DEF ClientHolds
  <1>5. Handed = owned
    BY <1>3, <1>4 DEF Handed
  <1> QED BY <1>1, <1>2, <1>3, <1>5 DEF OpenIffHeld

\* When DialFirst has returned, whoever cancelled what meanwhile, its workers,
\* collector and dial have ended and the one open connection is the returned one.
THEOREM DialFirstLeavesNothing == DSpec => []NothingLeft
  <1>1. DInv => NothingLeft
    <2> SUFFICES ASSUME DInv, dpc = "returned"
                 PROVE  /\ WorkersReturned /\ cpc = "returned"
                        /\ open = owned /\ Cardinality(owned) <= 1
                        /\ owned # {} <=> ret[main] = "candidate"
                        /\ phase <= 1 =>
                               /\ pc = "idle"
                               /\ \A p \in DOMAIN watcher : watcher[p] \in {"none", "exited"}
                               /\ conn = "open" <=> Tracked \in owned
      BY DEF NothingLeft
    <2>1. WorkersReturned /\ cpc = "returned" /\ open = owned
      BY OpenIsOwned
    <2>2. CallInv /\ Link /\ CP!IInv
      BY DEF DInv, WireInv
    <2>3. Cardinality(owned) <= 1 /\ (owned # {} <=> ret[main] = "candidate")
      <3>1. CASE ret[main] = "candidate"
        <4>1. PICK a \in Addrs : owned = {a}
          BY <2>2, <3>1 DEF CallInv, OwnedAsReturned
        <4>2. Cardinality({a}) = 1
          BY FS_Singleton
        <4> QED BY <3>1, <4>1, <4>2
      <3>2. CASE ret[main] # "candidate"
        <4>1. owned = {}
          BY <2>2, <3>2 DEF CallInv, OwnedAsReturned
        <4>2. Cardinality({}) = 0
          BY FS_EmptySet
        <4> QED BY <3>2, <4>1, <4>2
      <3> QED BY <3>1, <3>2
    <2>4. ASSUME phase <= 1
          PROVE  /\ pc = "idle"
                 /\ \A p \in DOMAIN watcher : watcher[p] \in {"none", "exited"}
                 /\ conn = "open" <=> Tracked \in owned
      <3>1. ~Dialled
        BY <2>1 DEF Dialled, WorkersReturned
      <3>2. pc = "idle"
        BY <2>2, <2>4, <3>1 DEF Link, CP!IInv, CP!PhaseShape, CP!IDs
      <3>3. \A p \in DOMAIN watcher : watcher[p] \in {"none", "exited"}
        BY <2>2, <3>2 DEF CP!IInv, CP!TypeOK, CP!WatcherShape, CP!Watched
      <3>4. conn = "open" <=> Tracked \in owned
        BY <2>1, <2>2, <2>4, <3>2 DEF Link
      <3> QED BY <3>2, <3>3, <3>4
    <2> QED BY <2>1, <2>3, <2>4
  <1> QED BY <1>1, DialInvariance, PTL

\* The connection that DialFirst returns is open, free of deadlines and of the
\* dial's watcher, and only the session's own context interrupts its I/O, although
\* the context that the connection was dialled under is cancelled.
THEOREM ReturnedIsUsable == DSpec => []ReturnedUsable
  <1>1. DInv => ReturnedUsable
    <2> SUFFICES ASSUME DInv PROVE ReturnedUsable
      OBVIOUS
    <2>1. WireInv /\ CP!IInv
      BY DEF DInv, WireInv
    <2>2. ASSUME dpc = "returned", Tracked \in owned, phase = 1
          PROVE  /\ Cancelled
                 /\ conn = "open" /\ deadline = C!NoDeadline /\ watcher[1] = "exited"
      <3>1. CallInv /\ Link /\ open = owned
        BY <2>2, OpenIsOwned DEF DInv
      <3>2. conn = "open" /\ pc = "idle" /\ Cancelled
        BY <2>2, <3>1 DEF Link, CallInv
      <3>3. deadline = C!NoDeadline
        BY <2>1, <3>2 DEF CP!IInv, CP!WatcherShape, CP!Watched, CP!NoDeadline, C!NoDeadline
      <3>4. outcome[1] = "ok"
        BY <2>1, <2>2, <3>2 DEF CP!IInv, CP!DialShape
      <3>5. watcher[1] = "exited"
        BY <2>1, <3>2, <3>4 DEF WireInv, DialOK, CP!IInv, CP!TypeOK, CP!WatcherShape, CP!Watched, CP!IDs
      <3> QED BY <3>2, <3>3, <3>5
    <2>3. ASSUME phase = 2, pc = "io"
          PROVE  (deadline = C!Now => ctxDone[2]) /\ deadline # 1
      BY <2>1, <2>3 DEF CP!IInv, CP!PhaseShape, CP!WatcherShape, CP!Now, C!Now, CP!IDs
    <2> QED BY <2>2, <2>3 DEF ReturnedUsable
  <1> QED BY <1>1, DialInvariance, PTL
=============================================================================
