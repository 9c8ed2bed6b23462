----------------------------- MODULE PoolProofs -----------------------------
(***************************************************************************)
(* Proofs of the pool's invariants for any set of endpoints, workers and   *)
(* clients and any slot budget: first the types, the single holders and    *)
(* the slots; then the life of an endpoint: when its connection is open,   *)
(* how the goroutines end, that no endpoint is lost on the way, that the   *)
(* collector always has room, and that the goroutines implement Discovery. *)
(***************************************************************************)
EXTENDS PoolProps, FiniteSetTheorems, FunctionTheorems, TLAPS

\* Whoever holds an endpoint holds a real one; a failed attempt has an error.
HeldTyped ==
    /\ \A w \in Workers : wpc[w] = "failed" => werr[w] # "nil"
    /\ \A w \in Busy : waddr[w] \in Addrs
    /\ cpc = "queue" => caddr \in Addrs
    /\ \A g \in Holding : gaddr[g] \in Addrs

TypeInv == TypeOK /\ HeldTyped

LEMMA LenNat == N \in Nat /\ N > 0
  BY PoolAssumption DEF PoolAssumption, N

\* Init establishes the type invariant.
LEMMA InitTypeInv == Init => TypeInv
  <1> SUFFICES ASSUME Init PROVE TypeInv
    OBVIOUS
  <1> USE PoolAssumption DEF PoolAssumption, Init
  <1>1. TypeOK
    <2>1. reported \in [Clients -> SUBSET Addrs]
      BY Zenon
    <2>2. fed \in 0..N
      BY LenNat
    <2>3. /\ ctxErr \in {"nil", "canceled", "deadline"}
          /\ slots \in 0..maxWaitingCandidates
          /\ candidates \in Seq(Addrs)
          /\ wpc \in [Workers -> {"select", "acquire", "dial", "failed",
                                   "deliver", "returned"}]
          /\ waddr \in [Workers -> Addrs \cup {None}]
          /\ werr \in [Workers -> AttemptErrs]
          /\ gpc \in [Clients -> {"idle", "recv", "release", "check",
                                   "waitOnce", "waitDone", "drain"}]
          /\ gaddr \in [Clients -> Addrs \cup {None}]
          /\ ret \in [Clients -> {"none", "candidate", "ctx", "exhausted"}]
      BY DEF AttemptErrs
    <2>4. /\ open = {} /\ failures = {} /\ exhaustErr = {} /\ owned = {}
          /\ jobsClosed = FALSE /\ resultsClosed = FALSE /\ cpc = "recv"
          /\ caddr = None /\ candidatesClosed = FALSE /\ done = FALSE
          /\ once = "new"
      OBVIOUS
    <2> HIDE PoolAssumption DEF Init
    <2> QED BY <2>1, <2>2, <2>3, <2>4, Zenon DEF TypeOK
  <1>2. HeldTyped
    BY DEF HeldTyped, Busy, Holding
  <1> QED BY <1>1, <1>2 DEF TypeInv

\* The failures that Next reports are endpoints.
LEMMA ReturnTyped ==
  ASSUME NEW g \in Clients, NEW errs \in SUBSET Addrs,
         NEW kind \in {"none", "candidate", "ctx", "exhausted"},
         TypeOK, Return(g, kind, errs)
  PROVE  /\ reported' \in [Clients -> SUBSET Addrs]
         /\ ret' \in [Clients -> {"none", "candidate", "ctx", "exhausted"}]
  BY Zenon DEF Return, TypeOK

\* Every step of feeder, workers, collector and clients keeps the variables in
\* their ranges and hands on real endpoints only.
LEMMA NextTypeInv == TypeInv /\ [Next]_vars => TypeInv'
  <1> SUFFICES ASSUME TypeInv, [Next]_vars PROVE TypeInv'
    OBVIOUS
  <1> USE PoolAssumption DEF PoolAssumption, TypeInv, sharedVars, feedVars, workerVars, collectVars, clientVars
  <1> N \in Nat
    BY LenNat
  <1>1. ASSUME NEW e \in {"canceled", "deadline"}, ParentDone(e) PROVE TypeInv'
    BY <1>1 DEF ParentDone, TypeOK, HeldTyped, Busy, Holding
  <1>2. ASSUME NEW w \in Workers, Dispatch(w) PROVE TypeInv'
    BY <1>2 DEF Dispatch, TypeOK, HeldTyped, Busy, Holding, N
  <1>3. CASE FeederReturn
    BY <1>3 DEF FeederReturn, TypeOK, HeldTyped, Busy, Holding
  <1>4. ASSUME NEW w \in Workers, WorkerReturn(w) PROVE TypeInv'
    BY <1>4 DEF WorkerReturn, WorkerGoto, TypeOK, HeldTyped, Busy, Holding
  <1>5. ASSUME NEW w \in Workers, AcquireSlot(w) PROVE TypeInv'
    BY <1>5 DEF AcquireSlot, SlotFree, WorkerGoto, TypeOK, HeldTyped, Busy, Holding
  <1>6. ASSUME NEW w \in Workers, AcquireCancelled(w) PROVE TypeInv'
    BY <1>6 DEF AcquireCancelled, WorkerGoto, TypeOK, HeldTyped, Busy, Holding
  <1>7. ASSUME NEW w \in Workers, DialSucceeds(w) PROVE TypeInv'
    BY <1>7 DEF DialSucceeds, WorkerGoto, TypeOK, HeldTyped, Busy, Holding, AttemptErrs
  <1>8. ASSUME NEW w \in Workers, NEW e \in AttemptErrs \ {"nil"}, NEW withConn \in BOOLEAN,
               DialFails(w, e, withConn)
        PROVE  TypeInv'
    BY <1>8 DEF DialFails, WorkerGoto, TypeOK, HeldTyped, Busy, Holding
  <1>9. ASSUME NEW w \in Workers, FailureCleanup(w) PROVE TypeInv'
    BY <1>9 DEF FailureCleanup, Discard, releaseSlot, WorkerGoto, TypeOK, HeldTyped, Busy, Holding
  <1>10. ASSUME NEW w \in Workers, DeliverCancelled(w) PROVE TypeInv'
    BY <1>10 DEF DeliverCancelled, Discard, releaseSlot, WorkerGoto, TypeOK, HeldTyped, Busy, Holding
  <1>11. ASSUME NEW w \in Workers, Deliver(w) PROVE TypeInv'
    BY <1>11 DEF Deliver, WorkerGoto, TypeOK, HeldTyped, Busy, Holding
  <1>12. CASE CloseResults
    BY <1>12 DEF CloseResults, TypeOK, HeldTyped, Busy, Holding
  <1>13. CASE QueueCandidate
    BY <1>13 DEF QueueCandidate, TypeOK, HeldTyped, Busy, Holding
  <1>14. CASE DropCandidate
    BY <1>14 DEF DropCandidate, Discard, releaseSlot, TypeOK, HeldTyped, Busy, Holding
  <1>15. CASE FinalizeErrors
    BY <1>15 DEF FinalizeErrors, TypeOK, HeldTyped, Busy, Holding
  <1>16. CASE CloseCandidates
    BY <1>16 DEF CloseCandidates, TypeOK, HeldTyped, Busy, Holding
  <1>17. CASE CloseDone
    BY <1>17 DEF CloseDone, TypeOK, HeldTyped, Busy, Holding
  <1>18. ASSUME NEW g \in Clients, NextEnter(g) PROVE TypeInv'
    <2>1. /\ reported' \in [Clients -> SUBSET Addrs]
          /\ ret' \in [Clients -> {"none", "candidate", "ctx", "exhausted"}]
      BY <1>18, ReturnTyped DEF NextEnter, TypeOK
    <2>2. TypeOK'
      BY <1>18, <2>1 DEF NextEnter, ClientGoto, TypeOK
    <2>3. HeldTyped'
      BY <1>18 DEF NextEnter, ClientGoto, TypeOK, HeldTyped, Busy, Holding
    <2> QED BY <2>2, <2>3
  <1>19. ASSUME NEW g \in Clients, NextReceive(g) PROVE TypeInv'
    BY <1>19 DEF NextReceive, ClientGoto, TypeOK, HeldTyped, Busy, Holding
  <1>20. ASSUME NEW g \in Clients, NextExhausted(g) PROVE TypeInv'
    <2>1. /\ reported' \in [Clients -> SUBSET Addrs]
          /\ ret' \in [Clients -> {"none", "candidate", "ctx", "exhausted"}]
      BY <1>20, ReturnTyped DEF NextExhausted, TypeOK
    <2>2. TypeOK'
      <3>1. /\ gpc' = [gpc EXCEPT ![g] = "idle"]
            /\ UNCHANGED <<sharedVars, feedVars, workerVars, collectVars, once, gaddr, owned>>
        BY <1>20 DEF NextExhausted, ClientGoto
      <3> QED BY <2>1, <3>1 DEF TypeOK
    <2>3. HeldTyped'
      BY <1>20 DEF NextExhausted, ClientGoto, TypeOK, HeldTyped, Busy, Holding
    <2> QED BY <2>2, <2>3
  <1>21. ASSUME NEW g \in Clients, NextRelease(g) PROVE TypeInv'
    BY <1>21 DEF NextRelease, releaseSlot, ClientGoto, TypeOK, HeldTyped, Busy, Holding
  <1>22. ASSUME NEW g \in Clients, NextReturn(g) PROVE TypeInv'
    <2>1. /\ reported' \in [Clients -> SUBSET Addrs]
          /\ ret' \in [Clients -> {"none", "candidate", "ctx", "exhausted"}]
      BY <1>22, ReturnTyped DEF NextReturn, TypeOK
    <2>2. owned' \in SUBSET Addrs /\ open' \in SUBSET Addrs
      BY <1>22 DEF NextReturn, ClientGoto, TypeOK, HeldTyped, Holding
    <2>3. /\ gpc' = [gpc EXCEPT ![g] = "idle"] /\ gaddr' = [gaddr EXCEPT ![g] = None]
          /\ UNCHANGED <<ctxErr, slots, candidates, feedVars, workerVars, collectVars, once>>
      BY <1>22 DEF NextReturn, ClientGoto
    <2>4. TypeOK'
      BY <2>1, <2>2, <2>3 DEF TypeOK
    <2>5. HeldTyped'
      BY <1>22 DEF NextReturn, ClientGoto, TypeOK, HeldTyped, Busy, Holding
    <2> QED BY <2>4, <2>5
  <1>23. ASSUME NEW g \in Clients, CloseEnter(g) PROVE TypeInv'
    <2>1. /\ \E to \in {"waitDone", "waitOnce", "idle"} : gpc' = [gpc EXCEPT ![g] = to]
          /\ once' \in {once, "running"} /\ ctxErr' \in {ctxErr, "canceled"}
          /\ UNCHANGED <<slots, candidates, open, feedVars, workerVars, collectVars, gaddr, ret,
                         reported, owned>>
      BY <1>23 DEF CloseEnter, ClientGoto
    <2>2. gpc' \in [Clients -> {"idle", "recv", "release", "check", "waitOnce", "waitDone", "drain"}]
      BY <2>1 DEF TypeOK
    <2>3. TypeOK'
      BY <2>1, <2>2 DEF TypeOK
    <2>4. Holding' \subseteq Holding
      BY <2>1 DEF TypeOK, Holding
    <2>5. HeldTyped'
      BY <2>1, <2>4 DEF HeldTyped, Busy
    <2> QED BY <2>3, <2>5
  <1>24. ASSUME NEW g \in Clients, CloseAwaitDone(g) PROVE TypeInv'
    BY <1>24 DEF CloseAwaitDone, ClientGoto, TypeOK, HeldTyped, Busy, Holding
  <1>25. ASSUME NEW g \in Clients, CloseDrain(g) PROVE TypeInv'
    BY <1>25 DEF CloseDrain, Discard, releaseSlot, ClientGoto, TypeOK, HeldTyped, Busy, Holding
  <1>26. ASSUME NEW g \in Clients, CloseReturn(g) PROVE TypeInv'
    BY <1>26 DEF CloseReturn, ClientGoto, TypeOK, HeldTyped, Busy, Holding
  <1>27. ASSUME NEW g \in Clients, CloseAwaitOnce(g) PROVE TypeInv'
    BY <1>27 DEF CloseAwaitOnce, ClientGoto, TypeOK, HeldTyped, Busy, Holding
  <1>28. CASE UNCHANGED vars
    BY <1>28 DEF vars, TypeOK, HeldTyped, Busy, Holding
  <1> QED
    BY <1>1, <1>2, <1>3, <1>4, <1>5, <1>6, <1>7, <1>8, <1>9, <1>10, <1>11, <1>12, <1>13, <1>14,
       <1>15, <1>16, <1>17, <1>18, <1>19, <1>20, <1>21, <1>22, <1>23, <1>24, <1>25, <1>26, <1>27, <1>28
    DEF Next, Feeder, Worker, Collector, InCall

\* The pool's variables keep their types in every behaviour.
THEOREM TypeCorrect == Spec => []TypeOK
  <1>1. Spec => []TypeInv
    BY InitTypeInv, NextTypeInv, PTL DEF Spec
  <1> QED BY <1>1, PTL DEF TypeInv

-----------------------------------------------------------------------------
(* Ranges of sequences.                                                    *)

\* Appending adds one element and keeps a sequence without repetition.
LEMMA RangeAppend ==
  ASSUME NEW S, NEW s \in Seq(S), NEW e \in S
  PROVE  SeqRange(Append(s, e)) = SeqRange(s) \cup {e}
  BY DEF SeqRange

\* Removing the head of a sequence without repetition removes one element.
LEMMA RangeTail ==
  ASSUME NEW S, NEW s \in Seq(S), s # <<>>,
         \A i, j \in 1..Len(s) : s[i] = s[j] => i = j
  PROVE  /\ Head(s) \in SeqRange(s)
         /\ SeqRange(Tail(s)) = SeqRange(s) \ {Head(s)}
         /\ \A i, j \in 1..Len(Tail(s)) : Tail(s)[i] = Tail(s)[j] => i = j
  <1>1. Len(s) \in Nat /\ Len(s) > 0 /\ Head(s) = s[1]
    OBVIOUS
  <1>2. Len(Tail(s)) = Len(s) - 1 /\ \A i \in 1..Len(Tail(s)) : Tail(s)[i] = s[i + 1]
    OBVIOUS
  <1>3. Head(s) \in SeqRange(s)
    BY <1>1 DEF SeqRange
  <1>4. ASSUME NEW x \in SeqRange(Tail(s)) PROVE x \in SeqRange(s) \ {Head(s)}
    <2>1. PICK i \in 1..Len(Tail(s)) : x = Tail(s)[i]
      BY <1>4 DEF SeqRange
    <2>2. i + 1 \in 1..Len(s) /\ x = s[i + 1] /\ i + 1 # 1
      BY <1>1, <1>2, <2>1
    <2> QED BY <1>1, <2>2 DEF SeqRange
  <1>5. ASSUME NEW x \in SeqRange(s) \ {Head(s)} PROVE x \in SeqRange(Tail(s))
    <2>1. PICK i \in 1..Len(s) : x = s[i]
      BY <1>5 DEF SeqRange
    <2>2. i # 1
      BY <1>1, <1>5, <2>1
    <2>3. i - 1 \in 1..Len(Tail(s)) /\ Tail(s)[i - 1] = s[i]
      BY <1>1, <1>2, <2>1, <2>2
    <2> QED BY <2>1, <2>3 DEF SeqRange
  <1>6. \A i, j \in 1..Len(Tail(s)) : Tail(s)[i] = Tail(s)[j] => i = j
    BY <1>1, <1>2
  <1> QED BY <1>3, <1>4, <1>5, <1>6

-----------------------------------------------------------------------------
(* Every endpoint has one holder.                                          *)

\* A step that moves no endpoint preserves SingleHolder.
LEMMA HoldersUnchanged ==
  ASSUME SingleHolder, Busy' = Busy, Holding' = Holding,
         CollectorHolds' = CollectorHolds,
         UNCHANGED <<fed, waddr, gaddr, candidates, owned>>
  PROVE  SingleHolder'
  BY DEF SingleHolder, Unfed, QueueHolds

\* Offering the next endpoint takes exactly that one from the unfed ones.
LEMMA UnfedShrinks ==
  ASSUME fed \in 0..N, fed < N, fed' = fed + 1
  PROVE  /\ Unfed' \subseteq Unfed
         /\ uniqueAddrs[fed + 1] \in Unfed
         /\ uniqueAddrs[fed + 1] \notin Unfed'
  BY PoolAssumption, LenNat DEF PoolAssumption, Unfed, N

LEMMA InitSingleHolder == Init => SingleHolder
  BY DEF Init, SingleHolder, Busy, Holding, CollectorHolds, QueueHolds, SeqRange

\* A step moves an endpoint from one holder to the next, or lets go of it.
LEMMA NextSingleHolder == TypeInv /\ SingleHolder /\ [Next]_vars => SingleHolder'
  <1> SUFFICES ASSUME TypeInv, SingleHolder, [Next]_vars PROVE SingleHolder'
    OBVIOUS
  <1> USE DEF TypeInv, sharedVars, feedVars, workerVars, collectVars, clientVars
  <1>1. ASSUME NEW e \in {"canceled", "deadline"}, ParentDone(e) PROVE SingleHolder'
    BY <1>1, HoldersUnchanged DEF ParentDone, Busy, Holding, CollectorHolds
  <1>2. ASSUME NEW w \in Workers, Dispatch(w) PROVE SingleHolder'
    <2> DEFINE a == uniqueAddrs[fed + 1]
    <2>1. /\ Unfed' \subseteq Unfed /\ a \in Unfed /\ a \notin Unfed'
      BY <1>2, UnfedShrinks DEF Dispatch, TypeOK
    <2>2. /\ Busy' = Busy \cup {w} /\ w \notin Busy
          /\ waddr' = [waddr EXCEPT ![w] = a]
          /\ Holding' = Holding /\ CollectorHolds' = CollectorHolds
          /\ QueueHolds' = QueueHolds
      BY <1>2 DEF Dispatch, TypeOK, Busy, Holding, CollectorHolds, QueueHolds
    <2> HIDE DEF a
    <2> QED BY <1>2, <2>1, <2>2 DEF Dispatch, SingleHolder, TypeOK, Busy
  <1>3. CASE FeederReturn
    BY <1>3, HoldersUnchanged DEF FeederReturn, Busy, Holding, CollectorHolds
  <1>4. ASSUME NEW w \in Workers, WorkerReturn(w) PROVE SingleHolder'
    BY <1>4, HoldersUnchanged DEF WorkerReturn, WorkerGoto, TypeOK, Busy, Holding, CollectorHolds
  <1>5. ASSUME NEW w \in Workers, AcquireSlot(w) PROVE SingleHolder'
    BY <1>5, HoldersUnchanged DEF AcquireSlot, WorkerGoto, TypeOK, Busy, Holding, CollectorHolds
  <1>6. ASSUME NEW w \in Workers, AcquireCancelled(w) PROVE SingleHolder'
    BY <1>6 DEF AcquireCancelled, WorkerGoto, TypeOK, SingleHolder, Busy, Holding, CollectorHolds,
                QueueHolds, Unfed
  <1>7. ASSUME NEW w \in Workers, DialSucceeds(w) PROVE SingleHolder'
    BY <1>7, HoldersUnchanged DEF DialSucceeds, WorkerGoto, TypeOK, Busy, Holding, CollectorHolds
  <1>8. ASSUME NEW w \in Workers, NEW e \in AttemptErrs \ {"nil"}, NEW withConn \in BOOLEAN,
               DialFails(w, e, withConn)
        PROVE  SingleHolder'
    BY <1>8, HoldersUnchanged DEF DialFails, WorkerGoto, TypeOK, Busy, Holding, CollectorHolds
  <1>9. ASSUME NEW w \in Workers, FailureCleanup(w) PROVE SingleHolder'
    BY <1>9, HoldersUnchanged DEF FailureCleanup, WorkerGoto, TypeOK, Busy, Holding, CollectorHolds
  <1>10. ASSUME NEW w \in Workers, DeliverCancelled(w) PROVE SingleHolder'
    BY <1>10 DEF DeliverCancelled, WorkerGoto, TypeOK, SingleHolder, Busy, Holding, CollectorHolds,
                 QueueHolds, Unfed
  <1>11. ASSUME NEW w \in Workers, Deliver(w) PROVE SingleHolder'
    <2>1. /\ Busy' = Busy \ {w} /\ w \in Busy /\ Holding' = Holding
          /\ CollectorHolds = {} /\ CollectorHolds' \subseteq {waddr[w]}
          /\ QueueHolds' = QueueHolds /\ Unfed' = Unfed
          /\ \A v \in Busy' : waddr'[v] = waddr[v]
      BY <1>11 DEF Deliver, WorkerGoto, TypeOK, Busy, Holding, CollectorHolds, QueueHolds, Unfed
    <2> QED BY <1>11, <2>1 DEF Deliver, SingleHolder
  <1>12. CASE CloseResults
    BY <1>12, HoldersUnchanged DEF CloseResults, Busy, Holding, CollectorHolds
  <1>13. CASE QueueCandidate
    <2>1. /\ QueueHolds' = QueueHolds \cup {caddr} /\ caddr \notin QueueHolds
          /\ CollectorHolds = {caddr} /\ CollectorHolds' = {}
          /\ Busy' = Busy /\ Holding' = Holding /\ Unfed' = Unfed
      BY <1>13, RangeAppend
      DEF QueueCandidate, TypeOK, HeldTyped, SingleHolder, Busy, Holding, CollectorHolds, QueueHolds, Unfed
    <2>2. \A i, j \in 1..Len(candidates') : candidates'[i] = candidates'[j] => i = j
      BY <1>13, <2>1 DEF QueueCandidate, TypeOK, HeldTyped, SingleHolder, QueueHolds, SeqRange
    <2> QED BY <1>13, <2>1, <2>2 DEF QueueCandidate, SingleHolder
  <1>14. CASE DropCandidate
    <2>1. CollectorHolds' = {} /\ Busy' = Busy /\ Holding' = Holding /\ Unfed' = Unfed
      BY <1>14 DEF DropCandidate, Busy, Holding, CollectorHolds, Unfed
    <2> QED BY <1>14, <2>1 DEF DropCandidate, SingleHolder, QueueHolds
  <1>15. CASE FinalizeErrors
    BY <1>15, HoldersUnchanged DEF FinalizeErrors, Busy, Holding, CollectorHolds
  <1>16. CASE CloseCandidates
    BY <1>16, HoldersUnchanged DEF CloseCandidates, Busy, Holding, CollectorHolds
  <1>17. CASE CloseDone
    BY <1>17, HoldersUnchanged DEF CloseDone, Busy, Holding, CollectorHolds
  <1>18. ASSUME NEW g \in Clients, NextEnter(g) PROVE SingleHolder'
    BY <1>18, HoldersUnchanged DEF NextEnter, ClientGoto, TypeOK, Busy, Holding, CollectorHolds
  <1>19. ASSUME NEW g \in Clients, NextReceive(g) PROVE SingleHolder'
    <2> DEFINE a == Head(candidates)
    <2>1. /\ QueueHolds' = QueueHolds \ {a} /\ a \in QueueHolds
          /\ \A i, j \in 1..Len(candidates') : candidates'[i] = candidates'[j] => i = j
      BY <1>19, RangeTail DEF NextReceive, TypeOK, SingleHolder, QueueHolds
    <2>2. /\ Holding' = Holding \cup {g} /\ g \notin Holding
          /\ gaddr' = [gaddr EXCEPT ![g] = a] /\ gaddr'[g] = a
          /\ Busy' = Busy /\ CollectorHolds' = CollectorHolds /\ Unfed' = Unfed
      BY <1>19 DEF NextReceive, ClientGoto, TypeOK, Busy, Holding, CollectorHolds, Unfed
    <2> HIDE DEF a
    <2>3. UNCHANGED <<waddr, owned>> /\ gaddr \in [Clients -> Addrs \cup {None}] /\ Holding \subseteq Clients
      BY <1>19 DEF NextReceive, TypeOK, Holding
    <2> QED BY <2>1, <2>2, <2>3 DEF SingleHolder
  <1>20. ASSUME NEW g \in Clients, NextExhausted(g) PROVE SingleHolder'
    BY <1>20, HoldersUnchanged DEF NextExhausted, ClientGoto, TypeOK, Busy, Holding, CollectorHolds
  <1>21. ASSUME NEW g \in Clients, NextRelease(g) PROVE SingleHolder'
    BY <1>21, HoldersUnchanged DEF NextRelease, ClientGoto, TypeOK, Busy, Holding, CollectorHolds
  <1>22. ASSUME NEW g \in Clients, NextReturn(g) PROVE SingleHolder'
    <2>1. /\ Holding' = Holding \ {g} /\ g \in Holding
          /\ \A h \in Holding' : gaddr'[h] = gaddr[h]
          /\ owned' \subseteq owned \cup {gaddr[g]}
          /\ Busy' = Busy /\ CollectorHolds' = CollectorHolds /\ Unfed' = Unfed
          /\ QueueHolds' = QueueHolds
      BY <1>22 DEF NextReturn, ClientGoto, TypeOK, Busy, Holding, CollectorHolds, Unfed, QueueHolds
    <2> QED BY <1>22, <2>1 DEF NextReturn, SingleHolder
  <1>23. ASSUME NEW g \in Clients, CloseEnter(g) PROVE SingleHolder'
    BY <1>23, HoldersUnchanged DEF CloseEnter, ClientGoto, TypeOK, Busy, Holding, CollectorHolds
  <1>24. ASSUME NEW g \in Clients, CloseAwaitDone(g) PROVE SingleHolder'
    BY <1>24, HoldersUnchanged DEF CloseAwaitDone, ClientGoto, TypeOK, Busy, Holding, CollectorHolds
  <1>25. ASSUME NEW g \in Clients, CloseDrain(g) PROVE SingleHolder'
    <2>1. /\ QueueHolds' = QueueHolds \ {Head(candidates)}
          /\ \A i, j \in 1..Len(candidates') : candidates'[i] = candidates'[j] => i = j
      BY <1>25, RangeTail DEF CloseDrain, TypeOK, SingleHolder, QueueHolds
    <2>2. Holding' = Holding /\ Busy' = Busy /\ CollectorHolds' = CollectorHolds /\ Unfed' = Unfed
      BY <1>25 DEF CloseDrain, ClientGoto, TypeOK, Busy, Holding, CollectorHolds, Unfed
    <2> QED BY <1>25, <2>1, <2>2 DEF CloseDrain, SingleHolder
  <1>26. ASSUME NEW g \in Clients, CloseReturn(g) PROVE SingleHolder'
    BY <1>26, HoldersUnchanged DEF CloseReturn, ClientGoto, TypeOK, Busy, Holding, CollectorHolds
  <1>27. ASSUME NEW g \in Clients, CloseAwaitOnce(g) PROVE SingleHolder'
    BY <1>27, HoldersUnchanged DEF CloseAwaitOnce, ClientGoto, TypeOK, Busy, Holding, CollectorHolds
  <1>28. CASE UNCHANGED vars
    BY <1>28, HoldersUnchanged DEF vars, Busy, Holding, CollectorHolds
  <1> QED
    BY <1>1, <1>2, <1>3, <1>4, <1>5, <1>6, <1>7, <1>8, <1>9, <1>10, <1>11, <1>12, <1>13, <1>14,
       <1>15, <1>16, <1>17, <1>18, <1>19, <1>20, <1>21, <1>22, <1>23, <1>24, <1>25, <1>26, <1>27, <1>28
    DEF Next, Feeder, Worker, Collector, InCall

\* No two goroutines, channel positions or callers ever hold one endpoint.
THEOREM OneHolder == Spec => []SingleHolder
  <1>1. Spec => []TypeInv
    BY InitTypeInv, NextTypeInv, PTL DEF Spec
  <1> QED BY <1>1, InitSingleHolder, NextSingleHolder, PTL DEF Spec

-----------------------------------------------------------------------------
(* The slots channel counts attempts and unclaimed connections.            *)

LEMMA BudgetFinite ==
  ASSUME TypeInv
  PROVE  IsFiniteSet(InBudget) /\ Cardinality(InBudget) \in Nat
  <1>1. InBudget \in SUBSET Addrs
    <2>1. WorkerHolds \subseteq Addrs
      BY DEF TypeInv, HeldTyped, WorkerHolds, Attempting, Busy
    <2>2. CollectorHolds \subseteq Addrs /\ QueueHolds \subseteq Addrs
      BY DEF TypeInv, TypeOK, HeldTyped, CollectorHolds, QueueHolds, SeqRange
    <2>3. ClientHolds("release") \subseteq Addrs
      BY DEF TypeInv, HeldTyped, ClientHolds, Holding
    <2> QED BY <2>1, <2>2, <2>3 DEF InBudget
  <1> QED BY <1>1, FS_Subset, FS_CardinalityType, PoolAssumption DEF PoolAssumption

\* A step that neither takes nor returns a slot moves endpoints within the
\* budget.
LEMMA BudgetKept ==
  ASSUME SlotAccounting, InBudget' = InBudget, slots' = slots
  PROVE  SlotAccounting'
  BY DEF SlotAccounting

\* acquireSlot brings in a new endpoint.
LEMMA BudgetTaken ==
  ASSUME TypeInv, SlotAccounting, NEW a, a \notin InBudget,
         InBudget' = InBudget \cup {a}, slots' = slots + 1
  PROVE  SlotAccounting'
  BY BudgetFinite, FS_AddElement DEF SlotAccounting

\* releaseSlot lets go of one that was in.
LEMMA BudgetReturned ==
  ASSUME TypeInv, SlotAccounting, NEW a, a \in InBudget,
         InBudget' = InBudget \ {a}, slots' = slots - 1
  PROVE  SlotAccounting'
  BY BudgetFinite, FS_RemoveElement DEF SlotAccounting

LEMMA InitSlotAccounting == Init => SlotAccounting
  <1> SUFFICES ASSUME Init PROVE SlotAccounting
    OBVIOUS
  <1>1. InBudget = {}
    BY DEF Init, InBudget, WorkerHolds, Attempting, CollectorHolds, QueueHolds, SeqRange, ClientHolds
  <1> QED BY <1>1, FS_EmptySet DEF SlotAccounting, Init

\* Where the endpoints of the budget are, in terms of single holders.
LEMMA BudgetMembers ==
  ASSUME NEW a
  PROVE  a \in InBudget <=>
             \/ \E w \in Attempting : waddr[w] = a
             \/ a \in CollectorHolds
             \/ a \in QueueHolds
             \/ \E g \in Clients : gpc[g] = "release" /\ gaddr[g] = a
  BY DEF InBudget, WorkerHolds, ClientHolds

\* A step outside acquireSlot, releaseSlot and the hand-overs leaves the budget
\* as it is.
LEMMA BudgetUnchanged ==
  ASSUME SlotAccounting, UNCHANGED <<slots, waddr, gaddr, candidates>>,
         Attempting' = Attempting, CollectorHolds' = CollectorHolds,
         {g \in Clients : gpc[g] = "release"}' = {g \in Clients : gpc[g] = "release"}
  PROVE  SlotAccounting'
  <1>1. InBudget' = InBudget
    BY DEF InBudget, WorkerHolds, ClientHolds, QueueHolds
  <1> QED BY <1>1, BudgetKept

LEMMA NextSlotAccounting ==
  TypeInv /\ SingleHolder /\ SlotAccounting /\ [Next]_vars => SlotAccounting'
  <1> SUFFICES ASSUME TypeInv, SingleHolder, SlotAccounting, [Next]_vars
               PROVE  SlotAccounting'
    OBVIOUS
  <1> USE DEF TypeInv, sharedVars, feedVars, workerVars, collectVars, clientVars
  <1>1. ASSUME NEW e \in {"canceled", "deadline"}, ParentDone(e) PROVE SlotAccounting'
    BY <1>1, BudgetUnchanged DEF ParentDone, Attempting, CollectorHolds
  <1>2. ASSUME NEW w \in Workers, Dispatch(w) PROVE SlotAccounting'
    <2>1. /\ Attempting' = Attempting /\ CollectorHolds' = CollectorHolds
          /\ \A v \in Attempting : waddr'[v] = waddr[v]
      BY <1>2 DEF Dispatch, TypeOK, Attempting, CollectorHolds
    <2>2. InBudget' = InBudget
      BY <1>2, <2>1 DEF Dispatch, InBudget, WorkerHolds, QueueHolds, ClientHolds
    <2> QED BY <1>2, <2>2, BudgetKept DEF Dispatch
  <1>3. CASE FeederReturn
    BY <1>3, BudgetUnchanged DEF FeederReturn, TypeOK, Attempting, CollectorHolds
  <1>4. ASSUME NEW w \in Workers, WorkerReturn(w) PROVE SlotAccounting'
    BY <1>4, BudgetUnchanged DEF WorkerReturn, WorkerGoto, TypeOK, Attempting, CollectorHolds
  <1>5. ASSUME NEW w \in Workers, AcquireSlot(w) PROVE SlotAccounting'
    <2>1. /\ Attempting' = Attempting \cup {w} /\ w \notin Attempting /\ w \in Busy
          /\ Attempting \subseteq Busy /\ CollectorHolds' = CollectorHolds
      BY <1>5 DEF AcquireSlot, WorkerGoto, TypeOK, Attempting, Busy, CollectorHolds
    <2>2. InBudget' = InBudget \cup {waddr[w]}
      BY <1>5, <2>1 DEF AcquireSlot, InBudget, WorkerHolds, QueueHolds, ClientHolds
    <2>3. waddr[w] \notin InBudget
      BY <2>1, BudgetMembers DEF SingleHolder, Holding
    <2> QED BY <1>5, <2>2, <2>3, BudgetTaken DEF AcquireSlot
  <1>6. ASSUME NEW w \in Workers, AcquireCancelled(w) PROVE SlotAccounting'
    <2>1. /\ Attempting' = Attempting /\ CollectorHolds' = CollectorHolds
          /\ \A v \in Attempting : waddr'[v] = waddr[v]
      BY <1>6 DEF AcquireCancelled, WorkerGoto, TypeOK, Attempting, CollectorHolds
    <2>2. InBudget' = InBudget
      BY <1>6, <2>1 DEF AcquireCancelled, InBudget, WorkerHolds, QueueHolds, ClientHolds
    <2> QED BY <1>6, <2>2, BudgetKept DEF AcquireCancelled
  <1>7. ASSUME NEW w \in Workers, DialSucceeds(w) PROVE SlotAccounting'
    BY <1>7, BudgetUnchanged DEF DialSucceeds, WorkerGoto, TypeOK, Attempting, CollectorHolds
  <1>8. ASSUME NEW w \in Workers, NEW e \in AttemptErrs \ {"nil"}, NEW withConn \in BOOLEAN,
               DialFails(w, e, withConn)
        PROVE  SlotAccounting'
    BY <1>8, BudgetUnchanged DEF DialFails, WorkerGoto, TypeOK, Attempting, CollectorHolds
  <1>9. ASSUME NEW w \in Workers, FailureCleanup(w) PROVE SlotAccounting'
    <2>1. /\ Attempting' = Attempting \ {w} /\ w \in Attempting
          /\ Attempting \subseteq Busy /\ CollectorHolds' = CollectorHolds
      BY <1>9 DEF FailureCleanup, WorkerGoto, TypeOK, HeldTyped, Attempting, Busy, CollectorHolds
    <2>2. waddr[w] \in InBudget
      BY <2>1, BudgetMembers
    <2>3. InBudget' = InBudget \ {waddr[w]}
      BY <1>9, <2>1 DEF FailureCleanup, InBudget, WorkerHolds, QueueHolds, ClientHolds, SingleHolder, Holding
    <2> QED BY <1>9, <2>2, <2>3, BudgetReturned DEF FailureCleanup, Discard, releaseSlot
  <1>10. ASSUME NEW w \in Workers, DeliverCancelled(w) PROVE SlotAccounting'
    <2>1. /\ Attempting' = Attempting \ {w} /\ w \in Busy
          /\ Attempting \subseteq Busy /\ CollectorHolds' = CollectorHolds
          /\ \A v \in Attempting' : waddr'[v] = waddr[v]
          /\ w \in Attempting <=> werr[w] = "nil"
      BY <1>10 DEF DeliverCancelled, WorkerGoto, TypeOK, Attempting, Busy, CollectorHolds
    <2>2. InBudget' = InBudget \ {waddr[w]}
      BY <1>10, <2>1 DEF DeliverCancelled, InBudget, WorkerHolds, QueueHolds, ClientHolds, SingleHolder, Holding
    <2>3. waddr[w] \in InBudget <=> werr[w] = "nil"
      BY <2>1, BudgetMembers DEF SingleHolder, Holding
    <2>4. CASE werr[w] = "nil"
      BY <1>10, <2>2, <2>3, <2>4, BudgetReturned DEF DeliverCancelled, Discard, releaseSlot
    <2>5. CASE werr[w] # "nil"
      BY <1>10, <2>2, <2>3, <2>5, BudgetKept DEF DeliverCancelled
    <2> QED BY <2>4, <2>5
  <1>11. ASSUME NEW w \in Workers, Deliver(w) PROVE SlotAccounting'
    <2>1. /\ Attempting' = Attempting \ {w} /\ CollectorHolds = {}
          /\ \A v \in Attempting' : waddr'[v] = waddr[v]
          /\ w \in Attempting <=> werr[w] = "nil"
          /\ CollectorHolds' = IF werr[w] = "nil" THEN {waddr[w]} ELSE {}
      BY <1>11 DEF Deliver, WorkerGoto, TypeOK, Attempting, CollectorHolds
    <2>2. InBudget' = InBudget
      BY <1>11, <2>1 DEF Deliver, InBudget, WorkerHolds, QueueHolds, ClientHolds
    <2> QED BY <1>11, <2>2, BudgetKept DEF Deliver
  <1>12. CASE CloseResults
    BY <1>12, BudgetUnchanged DEF CloseResults, TypeOK, Attempting, CollectorHolds
  <1>13. CASE QueueCandidate
    <2>1. /\ QueueHolds' = QueueHolds \cup {caddr}
          /\ CollectorHolds = {caddr} /\ CollectorHolds' = {} /\ Attempting' = Attempting
      BY <1>13, RangeAppend DEF QueueCandidate, TypeOK, HeldTyped, CollectorHolds, QueueHolds, Attempting
    <2>2. InBudget' = InBudget
      BY <1>13, <2>1 DEF QueueCandidate, InBudget, WorkerHolds, ClientHolds
    <2> QED BY <1>13, <2>2, BudgetKept DEF QueueCandidate
  <1>14. CASE DropCandidate
    <2>1. /\ CollectorHolds = {caddr} /\ CollectorHolds' = {} /\ Attempting' = Attempting
          /\ Attempting \subseteq Busy
      BY <1>14 DEF DropCandidate, CollectorHolds, Attempting, Busy
    <2>2. InBudget' = InBudget \ {caddr} /\ caddr \in InBudget
      BY <1>14, <2>1 DEF DropCandidate, InBudget, WorkerHolds, QueueHolds, ClientHolds, SingleHolder, Holding
    <2> QED BY <1>14, <2>2, BudgetReturned DEF DropCandidate, Discard, releaseSlot
  <1>15. CASE FinalizeErrors
    BY <1>15, BudgetUnchanged DEF FinalizeErrors, TypeOK, Attempting, CollectorHolds
  <1>16. CASE CloseCandidates
    BY <1>16, BudgetUnchanged DEF CloseCandidates, TypeOK, Attempting, CollectorHolds
  <1>17. CASE CloseDone
    BY <1>17, BudgetUnchanged DEF CloseDone, TypeOK, Attempting, CollectorHolds
  <1>18. ASSUME NEW g \in Clients, NextEnter(g) PROVE SlotAccounting'
    BY <1>18, BudgetUnchanged DEF NextEnter, ClientGoto, TypeOK, Attempting, CollectorHolds
  <1>19. ASSUME NEW g \in Clients, NextReceive(g) PROVE SlotAccounting'
    <2> DEFINE a == Head(candidates)
    <2>1. QueueHolds' = QueueHolds \ {a} /\ a \in QueueHolds
      BY <1>19, RangeTail DEF NextReceive, TypeOK, SingleHolder, QueueHolds
    <2>2. /\ Attempting' = Attempting /\ CollectorHolds' = CollectorHolds
          /\ ClientHolds("release")' = ClientHolds("release") \cup {a}
      BY <1>19 DEF NextReceive, ClientGoto, TypeOK, Attempting, CollectorHolds, ClientHolds
    <2> HIDE DEF a
    <2>3. InBudget' = InBudget
      BY <1>19, <2>1, <2>2 DEF NextReceive, InBudget, WorkerHolds
    <2> QED BY <1>19, <2>3, BudgetKept DEF NextReceive
  <1>20. ASSUME NEW g \in Clients, NextExhausted(g) PROVE SlotAccounting'
    BY <1>20, BudgetUnchanged DEF NextExhausted, ClientGoto, TypeOK, Attempting, CollectorHolds
  <1>21. ASSUME NEW g \in Clients, NextRelease(g) PROVE SlotAccounting'
    <2>1. /\ Attempting' = Attempting /\ CollectorHolds' = CollectorHolds
          /\ gaddr[g] \in ClientHolds("release") /\ g \in Holding
          /\ ClientHolds("release")' = ClientHolds("release") \ {gaddr[g]}
      BY <1>21 DEF NextRelease, ClientGoto, TypeOK, Attempting, CollectorHolds, ClientHolds, SingleHolder, Holding
    <2>2. InBudget' = InBudget \ {gaddr[g]} /\ gaddr[g] \in InBudget
      BY <1>21, <2>1 DEF NextRelease, InBudget, WorkerHolds, QueueHolds, SingleHolder, Attempting, Busy
    <2> QED BY <1>21, <2>2, BudgetReturned DEF NextRelease, releaseSlot
  <1>22. ASSUME NEW g \in Clients, NextReturn(g) PROVE SlotAccounting'
    <2>1. /\ Attempting' = Attempting /\ CollectorHolds' = CollectorHolds
          /\ ClientHolds("release")' = ClientHolds("release")
      BY <1>22 DEF NextReturn, ClientGoto, TypeOK, Attempting, CollectorHolds, ClientHolds
    <2>2. InBudget' = InBudget
      BY <1>22, <2>1 DEF NextReturn, InBudget, WorkerHolds, QueueHolds
    <2> QED BY <1>22, <2>2, BudgetKept DEF NextReturn
  <1>23. ASSUME NEW g \in Clients, CloseEnter(g) PROVE SlotAccounting'
    BY <1>23, BudgetUnchanged DEF CloseEnter, ClientGoto, TypeOK, Attempting, CollectorHolds
  <1>24. ASSUME NEW g \in Clients, CloseAwaitDone(g) PROVE SlotAccounting'
    BY <1>24, BudgetUnchanged DEF CloseAwaitDone, ClientGoto, TypeOK, Attempting, CollectorHolds
  <1>25. ASSUME NEW g \in Clients, CloseDrain(g) PROVE SlotAccounting'
    <2> DEFINE a == Head(candidates)
    <2>1. QueueHolds' = QueueHolds \ {a} /\ a \in QueueHolds
      BY <1>25, RangeTail DEF CloseDrain, TypeOK, SingleHolder, QueueHolds
    <2>2. /\ Attempting' = Attempting /\ CollectorHolds' = CollectorHolds
          /\ ClientHolds("release")' = ClientHolds("release") /\ Attempting \subseteq Busy
      BY <1>25 DEF CloseDrain, ClientGoto, TypeOK, Attempting, Busy, CollectorHolds, ClientHolds
    <2>3. slots' = slots - 1 /\ waddr' = waddr
      BY <1>25 DEF CloseDrain, Discard, releaseSlot
    <2> HIDE DEF a
    <2>4. a \notin WorkerHolds /\ a \notin CollectorHolds /\ a \notin ClientHolds("release")
      BY <2>1, <2>2 DEF WorkerHolds, ClientHolds, SingleHolder, Holding
    <2>5. WorkerHolds' = WorkerHolds
      BY <2>2, <2>3 DEF WorkerHolds
    <2>6. InBudget' = InBudget \ {a} /\ a \in InBudget
      BY <2>1, <2>2, <2>4, <2>5 DEF InBudget
    <2> QED BY <2>3, <2>6, BudgetReturned
  <1>26. ASSUME NEW g \in Clients, CloseReturn(g) PROVE SlotAccounting'
    BY <1>26, BudgetUnchanged DEF CloseReturn, ClientGoto, TypeOK, Attempting, CollectorHolds
  <1>27. ASSUME NEW g \in Clients, CloseAwaitOnce(g) PROVE SlotAccounting'
    BY <1>27, BudgetUnchanged DEF CloseAwaitOnce, ClientGoto, TypeOK, Attempting, CollectorHolds
  <1>28. CASE UNCHANGED vars
    BY <1>28, BudgetUnchanged DEF vars, Attempting, CollectorHolds
  <1> QED
    BY <1>1, <1>2, <1>3, <1>4, <1>5, <1>6, <1>7, <1>8, <1>9, <1>10, <1>11, <1>12, <1>13, <1>14,
       <1>15, <1>16, <1>17, <1>18, <1>19, <1>20, <1>21, <1>22, <1>23, <1>24, <1>25, <1>26, <1>27, <1>28
    DEF Next, Feeder, Worker, Collector, InCall

\* The tokens in the slots channel always equal the number of attempts and
\* unclaimed connections.
THEOREM SlotsAccounted == Spec => []SlotAccounting
  <1>1. Spec => []TypeInv
    BY InitTypeInv, NextTypeInv, PTL DEF Spec
  <1>2. Spec => []SingleHolder
    BY OneHolder
  <1> QED BY <1>1, <1>2, InitSlotAccounting, NextSlotAccounting, PTL DEF Spec

\* There are never more attempts and unclaimed connections than slots.
THEOREM BudgetHolds == Spec => []BudgetRespected
  <1>1. TypeOK /\ SlotAccounting => BudgetRespected
    BY PoolAssumption DEF PoolAssumption, TypeOK, SlotAccounting, BudgetRespected
  <1> QED BY <1>1, TypeCorrect, SlotsAccounted, PTL

-----------------------------------------------------------------------------
(* The life of an endpoint.                                                *)


\* A worker that is about to deliver a success has its connection open.
DeliveredOpen ==
    \A w \in Workers : wpc[w] = "deliver" /\ werr[w] = "nil" => waddr[w] \in open

ConnInv == OpenIffHeld /\ DeliveredOpen

\* The order in which the goroutines end: the workers, the results channel,
\* the collector's loop, the candidates channel, the done channel, the drain.
Shutdown ==
    /\ resultsClosed => WorkersReturned
    /\ cpc \in {"closeCandidates", "closeDone", "returned"} => resultsClosed
    /\ candidatesClosed <=> cpc \in {"closeDone", "returned"}
    /\ done <=> cpc = "returned"
    /\ \A g \in Clients : gpc[g] \in {"waitDone", "drain"} => Cancelled
    /\ \A g \in Clients : gpc[g] = "drain" => done
    /\ once = "done" => done /\ candidates = <<>>

\* Nothing but the endpoints the pool was given circulates in it.
FromTracker == {waddr[w] : w \in Busy} \cup Handed \subseteq Endpoints

\* Until a cancellation, an endpoint that was offered is somewhere: with a
\* worker, with the collector, in the channel, with a caller, or recorded as
\* failed.
Somewhere ==
    /\ \A w \in Workers :
           wpc[w] \in {"failed", "deliver"} /\ werr[w] = "canceled" => Cancelled
    /\ ~Cancelled => /\ jobsClosed => fed = N
                     /\ \A w \in Workers : wpc[w] = "returned" => jobsClosed
                     /\ \A i \in 1..fed :
                            uniqueAddrs[i] \in {waddr[w] : w \in Busy} \cup Handed
                                                 \cup failures

\* A recorded failure is final: its endpoint is with nobody, the errors joined
\* for Next are all of them, and a caller that was told of exhaustion was told
\* of all of them.
FailuresSettled ==
    /\ failures \cap (Unfed \cup Handed \cup {waddr[w] : w \in Busy}) = {}
    /\ cpc \in {"closeCandidates", "closeDone", "returned"} => exhaustErr = failures
    /\ \A g \in Clients : ret[g] = "exhausted" =>
           candidatesClosed /\ candidates = <<>> /\ reported[g] = failures

Settled == FromTracker /\ Somewhere /\ FailuresSettled

-----------------------------------------------------------------------------
(* What the steps that move an endpoint do to its holders.                 *)

\* Queueing a candidate moves it from the collector to the channel.
LEMMA QueueStep ==
  ASSUME TypeInv, QueueCandidate
  PROVE  /\ Handed' = Handed /\ Busy' = Busy /\ Holding' = Holding
         /\ QueueHolds' = QueueHolds \cup {caddr}
         /\ CollectorHolds = {caddr} /\ CollectorHolds' = {}
  <1>1. /\ QueueHolds' = QueueHolds \cup {caddr}
        /\ CollectorHolds = {caddr} /\ CollectorHolds' = {}
    BY RangeAppend DEF QueueCandidate, TypeInv, TypeOK, HeldTyped, CollectorHolds, QueueHolds
  <1>2. UNCHANGED <<wpc, gpc, gaddr, owned>>
    BY DEF QueueCandidate, workerVars, clientVars
  <1> QED BY <1>1, <1>2 DEF Handed, ClientHolds, Busy, Holding

\* Receiving a candidate moves it from the channel to the call of Next.
LEMMA ReceiveStep ==
  ASSUME TypeInv, SingleHolder, NEW g \in Clients, NextReceive(g)
  PROVE  /\ Handed' = Handed /\ Busy' = Busy /\ Head(candidates) \in QueueHolds
         /\ QueueHolds' = QueueHolds \ {Head(candidates)} /\ CollectorHolds' = CollectorHolds
  <1> DEFINE a == Head(candidates)
  <1>1. QueueHolds' = QueueHolds \ {a} /\ a \in QueueHolds
    BY RangeTail DEF NextReceive, TypeInv, TypeOK, SingleHolder, QueueHolds
  <1>2. /\ ClientHolds("release")' = ClientHolds("release") \cup {a}
        /\ ClientHolds("check")' = ClientHolds("check") /\ CollectorHolds' = CollectorHolds
        /\ Busy' = Busy /\ owned' = owned
    BY DEF NextReceive, ClientGoto, TypeInv, TypeOK, ClientHolds, CollectorHolds, Busy,
       workerVars, collectVars
  <1> HIDE DEF a
  <1>3. Handed' = Handed
    BY <1>1, <1>2 DEF Handed
  <1> QED BY <1>1, <1>2, <1>3 DEF a

\* Draining a candidate takes it out of the channel, where only the drain saw it.
LEMMA DrainStep ==
  ASSUME TypeInv, SingleHolder, NEW g \in Clients, CloseDrain(g)
  PROVE  /\ Handed' = Handed \ {Head(candidates)} /\ Busy' = Busy
         /\ Head(candidates) \in QueueHolds
         /\ QueueHolds' = QueueHolds \ {Head(candidates)} /\ CollectorHolds' = CollectorHolds
         /\ \A w \in Busy : waddr[w] # Head(candidates)
  <1> DEFINE a == Head(candidates)
  <1>1. QueueHolds' = QueueHolds \ {a} /\ a \in QueueHolds
    BY RangeTail DEF CloseDrain, TypeInv, TypeOK, SingleHolder, QueueHolds
  <1>2. /\ ClientHolds("release")' = ClientHolds("release")
        /\ ClientHolds("check")' = ClientHolds("check") /\ CollectorHolds' = CollectorHolds
        /\ Busy' = Busy /\ owned' = owned
    BY DEF CloseDrain, ClientGoto, TypeInv, TypeOK, ClientHolds, CollectorHolds, Busy,
       workerVars, collectVars
  <1> HIDE DEF a
  <1>3. /\ a \notin ClientHolds("release") \cup ClientHolds("check") \cup CollectorHolds \cup owned
        /\ \A w \in Busy : waddr[w] # a
    BY <1>1 DEF SingleHolder, ClientHolds, Holding
  <1>4. Handed' = Handed \ {a}
    BY <1>1, <1>2, <1>3 DEF Handed
  <1> QED BY <1>1, <1>2, <1>3, <1>4 DEF a

\* Delivering a result hands a success to the collector; the worker lets go.
LEMMA DeliverStep ==
  ASSUME TypeInv, NEW w \in Workers, Deliver(w)
  PROVE  /\ Busy' = Busy \ {w} /\ w \in Busy /\ \A v \in Busy' : waddr'[v] = waddr[v]
         /\ Handed' = IF werr[w] = "nil" THEN Handed \cup {waddr[w]} ELSE Handed
  <1>1. /\ Busy' = Busy \ {w} /\ w \in Busy /\ \A v \in Busy' : waddr'[v] = waddr[v]
        /\ CollectorHolds = {} /\ CollectorHolds' = IF werr[w] = "nil" THEN {waddr[w]} ELSE {}
    BY DEF Deliver, WorkerGoto, TypeInv, TypeOK, Busy, CollectorHolds
  <1>2. UNCHANGED <<candidates, gpc, gaddr, owned>>
    BY DEF Deliver, sharedVars, clientVars
  <1> QED BY <1>1, <1>2 DEF Handed, QueueHolds, ClientHolds

\* Next closes or hands over the candidate that this call alone holds.
LEMMA ReturnStep ==
  ASSUME TypeInv, SingleHolder, NEW g \in Clients, NextReturn(g)
  PROVE  /\ Handed' = IF Cancelled THEN Handed \ {gaddr[g]} ELSE Handed
         /\ Busy' = Busy /\ QueueHolds' = QueueHolds /\ CollectorHolds' = CollectorHolds
  <1>1. /\ g \in Holding /\ Busy' = Busy /\ QueueHolds' = QueueHolds
        /\ CollectorHolds' = CollectorHolds
        /\ ClientHolds("release")' = ClientHolds("release")
        /\ ClientHolds("check")' = ClientHolds("check") \ {gaddr[g]}
        /\ gaddr[g] \in ClientHolds("check") /\ gaddr[g] \notin ClientHolds("release")
    BY DEF NextReturn, ClientGoto, TypeInv, TypeOK, SingleHolder, Holding, Busy, QueueHolds,
       CollectorHolds, ClientHolds, workerVars, collectVars
  <1>2. gaddr[g] \notin owned \cup QueueHolds \cup CollectorHolds
    BY <1>1 DEF SingleHolder
  <1>3. owned' = IF Cancelled THEN owned ELSE owned \cup {gaddr[g]}
    BY DEF NextReturn
  <1> QED BY <1>1, <1>2, <1>3 DEF Handed

\* A step that changes no holder of a finished attempt hands nothing on.
LEMMA HandedKept ==
  ASSUME UNCHANGED <<candidates, gaddr, owned>>, Holding' = Holding,
         CollectorHolds' = CollectorHolds
  PROVE  Handed' = Handed
  <1>1. Handed = owned \cup CollectorHolds \cup QueueHolds \cup {gaddr[h] : h \in Holding}
    BY DEF Handed, ClientHolds, Holding
  <1>2. Handed' = owned' \cup CollectorHolds' \cup QueueHolds' \cup {gaddr'[h] : h \in Holding'}
    BY DEF Handed, ClientHolds, Holding
  <1> QED BY <1>1, <1>2 DEF QueueHolds

\* Steps that neither open nor close a connection nor hand one on.
LEMMA ConnUnchanged ==
  ASSUME ConnInv, Handed' = Handed, UNCHANGED <<open, wpc, waddr, werr>>
  PROVE  ConnInv'
  BY DEF ConnInv, OpenIffHeld, DeliveredOpen, WorkerHolds, Attempting

\* Steps that leave the endpoints, the errors and the context alone.
LEMMA SettledUnchanged ==
  ASSUME Settled, Handed' = Handed,
         UNCHANGED <<ctxErr, fed, jobsClosed, wpc, waddr, werr, candidates, cpc, failures,
                     exhaustErr, candidatesClosed, ret, reported>>
  PROVE  Settled'
  BY DEF Settled, FromTracker, Somewhere, FailuresSettled, Cancelled, Unfed, Busy

-----------------------------------------------------------------------------
(* The invariants are inductive.                                           *)

\* A step that offers, delivers, queues, hands out or drops an endpoint keeps
\* track of it; only a cancellation lets one disappear.
LEMMA NextSettled == TypeInv /\ SingleHolder /\ Shutdown /\ Settled /\ [Next]_vars => Settled'
  <1> SUFFICES ASSUME TypeInv, SingleHolder, Shutdown, Settled, [Next]_vars PROVE Settled'
    OBVIOUS
  <1> USE DEF TypeInv, sharedVars, feedVars, workerVars, collectVars, clientVars
  <1>1. ASSUME NEW e \in {"canceled", "deadline"}, ParentDone(e) PROVE Settled'
    BY <1>1 DEF ParentDone, Cancelled, Settled, FromTracker, Somewhere, FailuresSettled, Handed,
       Unfed, Busy, Holding, SingleHolder, CollectorHolds, QueueHolds, ClientHolds, TypeOK,
       HeldTyped
  <1>2. ASSUME NEW w \in Workers, Dispatch(w) PROVE Settled'
    <2> DEFINE a == uniqueAddrs[fed + 1]
    <2>1. /\ Unfed' \subseteq Unfed /\ a \in Unfed /\ a \notin Unfed' /\ a \in Endpoints
          /\ fed' = fed + 1 /\ fed \in Nat
      BY <1>2, UnfedShrinks, LenNat DEF Dispatch, TypeOK, Endpoints
    <2>2. /\ Busy' = Busy \cup {w} /\ w \notin Busy /\ waddr' = [waddr EXCEPT ![w] = a]
          /\ Handed' = Handed /\ CollectorHolds' = CollectorHolds /\ QueueHolds' = QueueHolds
      BY <1>2 DEF Dispatch, TypeOK, Busy, Handed, CollectorHolds, QueueHolds, ClientHolds
    <2>3. FromTracker'
      BY <2>1, <2>2 DEF Settled, FromTracker, TypeOK, Busy
    <2>4. Somewhere'
      <3>1. ~jobsClosed /\ UNCHANGED <<jobsClosed, werr, ctxErr, failures>>
        BY <1>2 DEF Dispatch
      <3>2. \A v \in Workers : wpc'[v] \in {"failed", "deliver", "returned"} => wpc'[v] = wpc[v]
        BY <1>2 DEF Dispatch, TypeOK
      <3>3. ASSUME NEW i \in 1..fed', ~Cancelled
            PROVE  uniqueAddrs[i] \in {waddr'[v] : v \in Busy'} \cup Handed' \cup failures'
        <4>1. CASE i = fed + 1
          BY <2>2, <4>1 DEF TypeOK, Busy
        <4>2. CASE i \in 1..fed
          BY <2>2, <3>1, <3>3, <4>2 DEF Settled, Somewhere, TypeOK, Busy
        <4> QED BY <2>1, <4>1, <4>2
      <3> HIDE DEF a
      <3> QED BY <3>1, <3>2, <3>3 DEF Settled, Somewhere, Cancelled
    <2>5. FailuresSettled'
      <3> HIDE DEF a
      <3>1. {waddr'[v] : v \in Busy'} = {waddr[v] : v \in Busy} \cup {a}
        BY <2>2 DEF TypeOK, Busy
      <3>2. UNCHANGED <<failures, candidates, candidatesClosed, exhaustErr, cpc, ret, reported>>
        BY <1>2 DEF Dispatch
      <3> QED BY <2>1, <2>2, <3>1, <3>2 DEF Settled, FailuresSettled
    <2> QED BY <2>3, <2>4, <2>5 DEF Settled
  <1>3. CASE FeederReturn
    BY <1>3 DEF FeederReturn, FeederStops, Settled, FromTracker, Somewhere, FailuresSettled,
       Cancelled, Handed, Unfed, Busy, Holding, SingleHolder, CollectorHolds, QueueHolds,
       ClientHolds, TypeOK, HeldTyped
  <1>4. ASSUME NEW w \in Workers, WorkerReturn(w) PROVE Settled'
    <2>1. Busy' = Busy /\ Handed' = Handed
      BY <1>4 DEF WorkerReturn, WorkerGoto, TypeOK, Busy, Handed, QueueHolds, CollectorHolds,
         ClientHolds
    <2>2. FromTracker' /\ FailuresSettled'
      BY <1>4, <2>1 DEF WorkerReturn, Settled, FromTracker, FailuresSettled, Unfed
    <2>3. Somewhere'
      BY <1>4, <2>1 DEF WorkerReturn, WorkerGoto, TypeOK, Settled, Somewhere, Cancelled
    <2> QED BY <2>2, <2>3 DEF Settled
  <1>5. ASSUME NEW w \in Workers, AcquireSlot(w) PROVE Settled'
    <2>1. Busy' = Busy /\ Handed' = Handed
      BY <1>5 DEF AcquireSlot, WorkerGoto, TypeOK, Busy, Handed, QueueHolds, CollectorHolds,
         ClientHolds
    <2>2. FromTracker' /\ FailuresSettled'
      BY <1>5, <2>1 DEF AcquireSlot, Settled, FromTracker, FailuresSettled, Unfed
    <2>3. Somewhere'
      BY <1>5, <2>1 DEF AcquireSlot, WorkerGoto, TypeOK, Settled, Somewhere, Cancelled
    <2> QED BY <2>2, <2>3 DEF Settled
  <1>6. ASSUME NEW w \in Workers, AcquireCancelled(w) PROVE Settled'
    BY <1>6 DEF AcquireCancelled, AcquireGivesUp, WorkerGoto, Settled, FromTracker, Somewhere,
       FailuresSettled, Cancelled, Handed, Unfed, Busy, Holding, SingleHolder, CollectorHolds,
       QueueHolds, ClientHolds, TypeOK, HeldTyped
  <1>7. ASSUME NEW w \in Workers, DialSucceeds(w) PROVE Settled'
    <2>1. Busy' = Busy /\ Handed' = Handed
      BY <1>7 DEF DialSucceeds, WorkerGoto, TypeOK, Busy, Handed, QueueHolds, CollectorHolds,
         ClientHolds
    <2>2. FromTracker' /\ FailuresSettled'
      BY <1>7, <2>1 DEF DialSucceeds, Settled, FromTracker, FailuresSettled, Unfed
    <2>3. Somewhere'
      BY <1>7, <2>1 DEF DialSucceeds, WorkerGoto, TypeOK, Settled, Somewhere, Cancelled
    <2> QED BY <2>2, <2>3 DEF Settled
  <1>8. ASSUME NEW w \in Workers, NEW e \in AttemptErrs \ {"nil"}, NEW withConn \in BOOLEAN,
               DialFails(w, e, withConn)
        PROVE  Settled'
    <2>1. Busy' = Busy /\ Handed' = Handed
      BY <1>8 DEF DialFails, WorkerGoto, TypeOK, Busy, Handed, QueueHolds, CollectorHolds,
         ClientHolds
    <2>2. FromTracker' /\ FailuresSettled'
      BY <1>8, <2>1 DEF DialFails, Settled, FromTracker, FailuresSettled, Unfed
    <2>3. Somewhere'
      BY <1>8, <2>1 DEF DialFails, WorkerGoto, TypeOK, Settled, Somewhere, Cancelled
    <2> QED BY <2>2, <2>3 DEF Settled
  <1>9. ASSUME NEW w \in Workers, FailureCleanup(w) PROVE Settled'
    <2>1. Busy' = Busy /\ Handed' = Handed
      BY <1>9 DEF FailureCleanup, WorkerGoto, TypeOK, Busy, Handed, QueueHolds, CollectorHolds,
         ClientHolds
    <2>2. FromTracker' /\ FailuresSettled'
      BY <1>9, <2>1 DEF FailureCleanup, Settled, FromTracker, FailuresSettled, Unfed
    <2>3. Somewhere'
      BY <1>9, <2>1 DEF FailureCleanup, WorkerGoto, TypeOK, Settled, Somewhere, Cancelled
    <2> QED BY <2>2, <2>3 DEF Settled
  <1>10. ASSUME NEW w \in Workers, DeliverCancelled(w) PROVE Settled'
    BY <1>10 DEF DeliverCancelled, Discard, WorkerGoto, Settled, FromTracker, Somewhere,
       FailuresSettled, Cancelled, Handed, Unfed, Busy, Holding, SingleHolder, CollectorHolds,
       QueueHolds, ClientHolds, TypeOK, HeldTyped
  <1>11. ASSUME NEW w \in Workers, Deliver(w) PROVE Settled'
    <2>1. FromTracker'
      BY <1>11, DeliverStep DEF Settled, FromTracker
    <2>2. Somewhere'
      <3>1. /\ \A v \in Workers : wpc'[v] \in {"failed", "deliver", "returned"} => wpc'[v] = wpc[v]
            /\ UNCHANGED <<fed, jobsClosed, werr, ctxErr>>
        BY <1>11 DEF Deliver, WorkerGoto, TypeOK
      <3>2. ~Cancelled => waddr[w] \in Handed' \cup failures'
        BY <1>11, DeliverStep DEF Deliver, WorkerGoto, TypeOK, AttemptErrs, Settled, Somewhere
      <3>3. failures \subseteq failures' /\ Handed \subseteq Handed'
        BY <1>11, DeliverStep DEF Deliver
      <3>4. {waddr[v] : v \in Busy} \subseteq {waddr'[v] : v \in Busy'} \cup {waddr[w]}
        BY <1>11, DeliverStep
      <3> QED BY <3>1, <3>2, <3>3, <3>4 DEF Settled, Somewhere, Cancelled
    <2>3. FailuresSettled'
      <3>1. /\ failures' \subseteq failures \cup {waddr[w]}
            /\ werr[w] = "nil" => failures' = failures
            /\ cpc' \in {"recv", "queue"} /\ ~candidatesClosed
            /\ UNCHANGED <<fed, ret, candidatesClosed>>
        BY <1>11 DEF Deliver, Shutdown
      <3>2. waddr[w] \notin Unfed /\ waddr[w] \notin Handed /\ waddr[w] \notin failures
        BY <1>11, DeliverStep DEF SingleHolder, Handed, ClientHolds, Holding, Settled,
           FailuresSettled
      <3>3. /\ {waddr'[v] : v \in Busy'} \subseteq {waddr[v] : v \in Busy}
            /\ waddr[w] \notin {waddr'[v] : v \in Busy'}
        BY <1>11, DeliverStep DEF SingleHolder
      <3>4. failures' \cap (Unfed \cup Handed' \cup {waddr'[v] : v \in Busy'}) = {}
        BY <1>11, DeliverStep, <3>1, <3>2, <3>3 DEF Settled, FailuresSettled
      <3> QED BY <3>1, <3>4 DEF Settled, FailuresSettled, Unfed
    <2> QED BY <2>1, <2>2, <2>3 DEF Settled
  <1>12. CASE CloseResults
    BY <1>12, HandedKept, SettledUnchanged DEF CloseResults, Holding, CollectorHolds
  <1>13. CASE QueueCandidate
    BY <1>13, QueueStep DEF QueueCandidate, Settled, FromTracker, Somewhere, FailuresSettled,
       Cancelled, Unfed, Shutdown
  <1>14. CASE DropCandidate
    BY <1>14 DEF DropCandidate, Discard, Settled, FromTracker, Somewhere, FailuresSettled,
       Cancelled, Handed, Unfed, Busy, Holding, SingleHolder, CollectorHolds, QueueHolds,
       ClientHolds, TypeOK, HeldTyped
  <1>15. CASE FinalizeErrors
    BY <1>15 DEF FinalizeErrors, Settled, FromTracker, Somewhere, FailuresSettled, Cancelled,
       Handed, Unfed, Busy, Holding, SingleHolder, CollectorHolds, QueueHolds, ClientHolds, TypeOK,
       HeldTyped
  <1>16. CASE CloseCandidates
    BY <1>16 DEF CloseCandidates, Settled, FromTracker, Somewhere, FailuresSettled, Cancelled,
       Handed, Unfed, Busy, Holding, SingleHolder, CollectorHolds, QueueHolds, ClientHolds, TypeOK,
       HeldTyped
  <1>17. CASE CloseDone
    BY <1>17 DEF CloseDone, Settled, FromTracker, Somewhere, FailuresSettled, Cancelled, Handed,
       Unfed, Busy, Holding, SingleHolder, CollectorHolds, QueueHolds, ClientHolds, TypeOK,
       HeldTyped
  <1>18. ASSUME NEW g \in Clients, NextEnter(g) PROVE Settled'
    <2>1. Busy' = Busy /\ Handed' = Handed
      BY <1>18 DEF NextEnter, ClientGoto, TypeOK, Busy, Handed, QueueHolds, CollectorHolds,
         ClientHolds
    <2>2. FromTracker' /\ FailuresSettled'
      BY <1>18, <2>1 DEF NextEnter, Return, TypeOK, Settled, FromTracker, FailuresSettled, Unfed
    <2>3. Somewhere'
      BY <1>18, <2>1 DEF NextEnter, TypeOK, Settled, Somewhere, Cancelled
    <2> QED BY <2>2, <2>3 DEF Settled
  <1>19. ASSUME NEW g \in Clients, NextReceive(g) PROVE Settled'
    <2>1. UNCHANGED <<fed, jobsClosed, wpc, waddr, werr, ctxErr, failures, exhaustErr, ret, reported,
                      candidatesClosed, cpc>>
          /\ candidates # <<>>
      BY <1>19 DEF NextReceive
    <2>2. FromTracker'
      BY <1>19, <2>1, ReceiveStep DEF Settled, FromTracker
    <2>3. Somewhere'
      BY <1>19, <2>1, ReceiveStep DEF Settled, Somewhere, Cancelled
    <2>4. FailuresSettled'
      BY <1>19, <2>1, ReceiveStep DEF Settled, FailuresSettled, Unfed
    <2> QED BY <2>2, <2>3, <2>4 DEF Settled
  <1>20. ASSUME NEW g \in Clients, NextExhausted(g) PROVE Settled'
    <2>1. /\ UNCHANGED <<fed, jobsClosed, wpc, waddr, werr, ctxErr, failures, exhaustErr,
                         candidates, candidatesClosed, cpc, owned>>
          /\ candidates = <<>> /\ candidatesClosed
      BY <1>20 DEF NextExhausted, ReceiveNotOk
    <2>2. /\ Busy' = Busy /\ Handed' = Handed /\ QueueHolds' = QueueHolds
          /\ CollectorHolds' = CollectorHolds
      BY <1>20, <2>1
      DEF NextExhausted, ClientGoto, TypeOK, Busy, Handed, QueueHolds, CollectorHolds, ClientHolds
    <2>3. FromTracker' /\ Somewhere'
      BY <2>1, <2>2 DEF Settled, FromTracker, Somewhere, Cancelled
    <2>4. FailuresSettled'
      <3>1. exhaustErr = failures
        BY <2>1 DEF Shutdown, Settled, FailuresSettled
      <3>2. \A h \in Clients : ret'[h] = "exhausted" =>
                (ret[h] = "exhausted" /\ reported'[h] = reported[h]) \/ reported'[h] = exhaustErr
        BY <1>20 DEF NextExhausted, Return, TypeOK
      <3> QED BY <2>1, <2>2, <3>1, <3>2 DEF Settled, FailuresSettled, Unfed
    <2> QED BY <2>3, <2>4 DEF Settled
  <1>21. ASSUME NEW g \in Clients, NextRelease(g) PROVE Settled'
    BY <1>21, HandedKept, SettledUnchanged DEF NextRelease, ClientGoto, TypeOK, Holding,
       CollectorHolds
  <1>22. ASSUME NEW g \in Clients, NextReturn(g) PROVE Settled'
    <2>1. UNCHANGED <<fed, jobsClosed, wpc, waddr, werr, ctxErr, failures, exhaustErr,
                      candidates, candidatesClosed, cpc>>
      BY <1>22 DEF NextReturn
    <2>2. FromTracker'
      BY <1>22, <2>1, ReturnStep DEF Settled, FromTracker
    <2>3. Somewhere'
      BY <1>22, <2>1, ReturnStep DEF Settled, Somewhere, Cancelled
    <2>4. FailuresSettled'
      <3>1. \A h \in Clients : ret'[h] = "exhausted" => ret[h] = "exhausted" /\ reported'[h] = reported[h]
        BY <1>22 DEF NextReturn, Return, TypeOK
      <3> QED BY <1>22, <2>1, <3>1, ReturnStep DEF Settled, FailuresSettled, Unfed
    <2> QED BY <2>2, <2>3, <2>4 DEF Settled
  <1>23. ASSUME NEW g \in Clients, CloseEnter(g) PROVE Settled'
    <2>1. /\ UNCHANGED <<fed, jobsClosed, wpc, waddr, werr, candidates, cpc, caddr, gaddr, owned,
                         failures, exhaustErr, candidatesClosed, ret, reported>>
          /\ Cancelled => Cancelled'
      BY <1>23 DEF CloseEnter, Cancelled
    <2>2. Holding' = Holding
      BY <1>23 DEF CloseEnter, ClientGoto, TypeOK, Holding
    <2>3. Handed' = Handed
      BY <2>1, <2>2, HandedKept DEF CollectorHolds
    <2> QED BY <2>1, <2>3 DEF Settled, FromTracker, Somewhere, FailuresSettled, Unfed, Busy
  <1>24. ASSUME NEW g \in Clients, CloseAwaitDone(g) PROVE Settled'
    BY <1>24, HandedKept, SettledUnchanged DEF CloseAwaitDone, ClientGoto, TypeOK, Holding,
       CollectorHolds
  <1>25. ASSUME NEW g \in Clients, CloseDrain(g) PROVE Settled'
    <2>1. UNCHANGED <<fed, jobsClosed, wpc, waddr, werr, ctxErr, failures, exhaustErr, ret, reported,
                      candidatesClosed, cpc>>
          /\ candidates # <<>>
      BY <1>25 DEF CloseDrain
    <2>2. FromTracker'
      BY <1>25, <2>1, DrainStep DEF Settled, FromTracker
    <2>3. Somewhere'
      BY <1>25, <2>1 DEF CloseDrain, ClientGoto, Shutdown, Settled, Somewhere, Cancelled
    <2>4. FailuresSettled'
      BY <1>25, <2>1, DrainStep DEF Settled, FailuresSettled, Unfed
    <2> QED BY <2>2, <2>3, <2>4 DEF Settled
  <1>26. ASSUME NEW g \in Clients, CloseReturn(g) PROVE Settled'
    BY <1>26, HandedKept, SettledUnchanged DEF CloseReturn, ClientGoto, TypeOK, Holding,
       CollectorHolds
  <1>27. ASSUME NEW g \in Clients, CloseAwaitOnce(g) PROVE Settled'
    BY <1>27, HandedKept, SettledUnchanged DEF CloseAwaitOnce, ClientGoto, TypeOK, Holding,
       CollectorHolds
  <1>28. CASE UNCHANGED vars
    BY <1>28, HandedKept, SettledUnchanged DEF vars, Holding, CollectorHolds
  <1> QED
    BY <1>1, <1>2, <1>3, <1>4, <1>5, <1>6, <1>7, <1>8, <1>9, <1>10, <1>11, <1>12, <1>13, <1>14,
       <1>15, <1>16, <1>17, <1>18, <1>19, <1>20, <1>21, <1>22, <1>23, <1>24, <1>25, <1>26, <1>27, <1>28
    DEF Next, Feeder, Worker, Collector, InCall

\* No goroutine ends before the ones it waits for.
LEMMA NextShutdown == TypeInv /\ Shutdown /\ [Next]_vars => Shutdown'
  <1> SUFFICES ASSUME TypeInv, Shutdown, [Next]_vars PROVE Shutdown'
    OBVIOUS
  <1> USE DEF TypeInv, sharedVars, feedVars, workerVars, collectVars, clientVars
  <1>1. ASSUME NEW e \in {"canceled", "deadline"}, ParentDone(e) PROVE Shutdown'
    BY <1>1 DEF ParentDone, Cancelled, Shutdown, WorkersReturned, TypeOK
  <1>2. ASSUME NEW w \in Workers, Dispatch(w) PROVE Shutdown'
    BY <1>2 DEF Dispatch, Shutdown, WorkersReturned, TypeOK, Cancelled
  <1>3. CASE FeederReturn
    BY <1>3 DEF FeederReturn, FeederStops, Shutdown, WorkersReturned, TypeOK, Cancelled
  <1>4. ASSUME NEW w \in Workers, WorkerReturn(w) PROVE Shutdown'
    BY <1>4 DEF WorkerReturn, WorkerGoto, Shutdown, WorkersReturned, TypeOK, Cancelled
  <1>5. ASSUME NEW w \in Workers, AcquireSlot(w) PROVE Shutdown'
    BY <1>5 DEF AcquireSlot, WorkerGoto, Shutdown, WorkersReturned, TypeOK, Cancelled
  <1>6. ASSUME NEW w \in Workers, AcquireCancelled(w) PROVE Shutdown'
    BY <1>6 DEF AcquireCancelled, AcquireGivesUp, WorkerGoto, Shutdown, WorkersReturned, TypeOK,
       Cancelled
  <1>7. ASSUME NEW w \in Workers, DialSucceeds(w) PROVE Shutdown'
    BY <1>7 DEF DialSucceeds, WorkerGoto, Shutdown, WorkersReturned, TypeOK, Cancelled
  <1>8. ASSUME NEW w \in Workers, NEW e \in AttemptErrs \ {"nil"}, NEW withConn \in BOOLEAN,
               DialFails(w, e, withConn)
        PROVE  Shutdown'
    BY <1>8 DEF DialFails, WorkerGoto, Shutdown, WorkersReturned, TypeOK, Cancelled
  <1>9. ASSUME NEW w \in Workers, FailureCleanup(w) PROVE Shutdown'
    BY <1>9 DEF FailureCleanup, Discard, WorkerGoto, Shutdown, WorkersReturned, TypeOK,
       Cancelled
  <1>10. ASSUME NEW w \in Workers, DeliverCancelled(w) PROVE Shutdown'
    BY <1>10 DEF DeliverCancelled, Discard, WorkerGoto, Shutdown, WorkersReturned, TypeOK,
       Cancelled
  <1>11. ASSUME NEW w \in Workers, Deliver(w) PROVE Shutdown'
    BY <1>11 DEF Deliver, WorkerGoto, Shutdown, WorkersReturned, TypeOK, Cancelled
  <1>12. CASE CloseResults
    BY <1>12 DEF CloseResults, Shutdown, WorkersReturned, TypeOK, Cancelled
  <1>13. CASE QueueCandidate
    BY <1>13 DEF QueueCandidate, Shutdown, WorkersReturned, TypeOK, Cancelled
  <1>14. CASE DropCandidate
    BY <1>14 DEF DropCandidate, Discard, Shutdown, WorkersReturned, TypeOK, Cancelled
  <1>15. CASE FinalizeErrors
    BY <1>15 DEF FinalizeErrors, Shutdown, WorkersReturned, TypeOK, Cancelled
  <1>16. CASE CloseCandidates
    BY <1>16 DEF CloseCandidates, Shutdown, WorkersReturned, TypeOK, Cancelled
  <1>17. CASE CloseDone
    BY <1>17 DEF CloseDone, Shutdown, WorkersReturned, TypeOK, Cancelled
  <1>18. ASSUME NEW g \in Clients, NextEnter(g) PROVE Shutdown'
    BY <1>18 DEF NextEnter, ClientGoto, Return, Shutdown, WorkersReturned, TypeOK, Cancelled
  <1>19. ASSUME NEW g \in Clients, NextReceive(g) PROVE Shutdown'
    BY <1>19 DEF NextReceive, ClientGoto, Shutdown, WorkersReturned, TypeOK, Cancelled
  <1>20. ASSUME NEW g \in Clients, NextExhausted(g) PROVE Shutdown'
    BY <1>20 DEF NextExhausted, ReceiveNotOk, ClientGoto, Return, Shutdown, WorkersReturned,
       TypeOK, Cancelled
  <1>21. ASSUME NEW g \in Clients, NextRelease(g) PROVE Shutdown'
    BY <1>21 DEF NextRelease, ClientGoto, Shutdown, WorkersReturned, TypeOK, Cancelled
  <1>22. ASSUME NEW g \in Clients, NextReturn(g) PROVE Shutdown'
    BY <1>22 DEF NextReturn, ClientGoto, Return, Shutdown, WorkersReturned, TypeOK, Cancelled
  <1>23. ASSUME NEW g \in Clients, CloseEnter(g) PROVE Shutdown'
    BY <1>23 DEF CloseEnter, ClientGoto, Cancelled, Shutdown, WorkersReturned, TypeOK
  <1>24. ASSUME NEW g \in Clients, CloseAwaitDone(g) PROVE Shutdown'
    BY <1>24 DEF CloseAwaitDone, DoneClosed, ClientGoto, Shutdown, WorkersReturned, TypeOK,
       Cancelled
  <1>25. ASSUME NEW g \in Clients, CloseDrain(g) PROVE Shutdown'
    BY <1>25 DEF CloseDrain, Discard, ClientGoto, Shutdown, WorkersReturned, TypeOK, Cancelled
  <1>26. ASSUME NEW g \in Clients, CloseReturn(g) PROVE Shutdown'
    BY <1>26 DEF CloseReturn, ReceiveNotOk, ClientGoto, Shutdown, WorkersReturned, TypeOK,
       Cancelled
  <1>27. ASSUME NEW g \in Clients, CloseAwaitOnce(g) PROVE Shutdown'
    BY <1>27 DEF CloseAwaitOnce, ClientGoto, Shutdown, WorkersReturned, TypeOK, Cancelled
  <1>28. CASE UNCHANGED vars
    BY <1>28 DEF vars, Shutdown, WorkersReturned, TypeOK, Cancelled
  <1> QED
    BY <1>1, <1>2, <1>3, <1>4, <1>5, <1>6, <1>7, <1>8, <1>9, <1>10, <1>11, <1>12, <1>13, <1>14,
       <1>15, <1>16, <1>17, <1>18, <1>19, <1>20, <1>21, <1>22, <1>23, <1>24, <1>25, <1>26, <1>27, <1>28
    DEF Next, Feeder, Worker, Collector, InCall

\* Every path that lets go of a connection closes it, and no other path does.
LEMMA NextConnInv == TypeInv /\ SingleHolder /\ ConnInv /\ [Next]_vars => ConnInv'
  <1> SUFFICES ASSUME TypeInv, SingleHolder, ConnInv, [Next]_vars PROVE ConnInv'
    OBVIOUS
  <1> USE DEF TypeInv, sharedVars, feedVars, workerVars, collectVars, clientVars
  <1>1. ASSUME NEW e \in {"canceled", "deadline"}, ParentDone(e) PROVE ConnInv'
    BY <1>1, HandedKept, ConnUnchanged DEF ParentDone, Holding, CollectorHolds
  <1>2. ASSUME NEW w \in Workers, Dispatch(w) PROVE ConnInv'
    BY <1>2 DEF Dispatch, ConnInv, OpenIffHeld, DeliveredOpen, Handed, WorkerHolds, Attempting,
       CollectorHolds, QueueHolds, ClientHolds, TypeOK, HeldTyped, SingleHolder, Busy, Holding
  <1>3. CASE FeederReturn
    BY <1>3, HandedKept, ConnUnchanged DEF FeederReturn, Holding, CollectorHolds
  <1>4. ASSUME NEW w \in Workers, WorkerReturn(w) PROVE ConnInv'
    BY <1>4 DEF WorkerReturn, WorkerGoto, ConnInv, OpenIffHeld, DeliveredOpen, Handed,
       WorkerHolds, Attempting, CollectorHolds, QueueHolds, ClientHolds, TypeOK, HeldTyped,
       SingleHolder, Busy, Holding
  <1>5. ASSUME NEW w \in Workers, AcquireSlot(w) PROVE ConnInv'
    BY <1>5 DEF AcquireSlot, WorkerGoto, ConnInv, OpenIffHeld, DeliveredOpen, Handed,
       WorkerHolds, Attempting, CollectorHolds, QueueHolds, ClientHolds, TypeOK, HeldTyped,
       SingleHolder, Busy, Holding
  <1>6. ASSUME NEW w \in Workers, AcquireCancelled(w) PROVE ConnInv'
    BY <1>6 DEF AcquireCancelled, AcquireGivesUp, WorkerGoto, ConnInv, OpenIffHeld,
       DeliveredOpen, Handed, WorkerHolds, Attempting, CollectorHolds, QueueHolds, ClientHolds,
       TypeOK, HeldTyped, SingleHolder, Busy, Holding
  <1>7. ASSUME NEW w \in Workers, DialSucceeds(w) PROVE ConnInv'
    BY <1>7 DEF DialSucceeds, WorkerGoto, ConnInv, OpenIffHeld, DeliveredOpen, Handed,
       WorkerHolds, Attempting, CollectorHolds, QueueHolds, ClientHolds, TypeOK, HeldTyped,
       SingleHolder, Busy, Holding
  <1>8. ASSUME NEW w \in Workers, NEW e \in AttemptErrs \ {"nil"}, NEW withConn \in BOOLEAN,
               DialFails(w, e, withConn)
        PROVE  ConnInv'
    BY <1>8 DEF DialFails, WorkerGoto, ConnInv, OpenIffHeld, DeliveredOpen, Handed, WorkerHolds,
       Attempting, CollectorHolds, QueueHolds, ClientHolds, TypeOK, HeldTyped, SingleHolder, Busy,
       Holding
  <1>9. ASSUME NEW w \in Workers, FailureCleanup(w) PROVE ConnInv'
    BY <1>9 DEF FailureCleanup, Discard, WorkerGoto, ConnInv, OpenIffHeld, DeliveredOpen,
       Handed, WorkerHolds, Attempting, CollectorHolds, QueueHolds, ClientHolds, TypeOK, HeldTyped,
       SingleHolder, Busy, Holding
  <1>10. ASSUME NEW w \in Workers, DeliverCancelled(w) PROVE ConnInv'
    BY <1>10 DEF DeliverCancelled, Discard, WorkerGoto, ConnInv, OpenIffHeld, DeliveredOpen,
       Handed, WorkerHolds, Attempting, CollectorHolds, QueueHolds, ClientHolds, TypeOK, HeldTyped,
       SingleHolder, Busy, Holding
  <1>11. ASSUME NEW w \in Workers, Deliver(w) PROVE ConnInv'
    BY <1>11 DEF Deliver, WorkerGoto, ConnInv, OpenIffHeld, DeliveredOpen, Handed, WorkerHolds,
       Attempting, CollectorHolds, QueueHolds, ClientHolds, TypeOK, HeldTyped, SingleHolder, Busy,
       Holding
  <1>12. CASE CloseResults
    BY <1>12, HandedKept, ConnUnchanged DEF CloseResults, Holding, CollectorHolds
  <1>13. CASE QueueCandidate
    BY <1>13, QueueStep, ConnUnchanged DEF QueueCandidate
  <1>14. CASE DropCandidate
    BY <1>14 DEF DropCandidate, Discard, ConnInv, OpenIffHeld, DeliveredOpen, Handed,
       WorkerHolds, Attempting, CollectorHolds, QueueHolds, ClientHolds, TypeOK, HeldTyped,
       SingleHolder, Busy, Holding
  <1>15. CASE FinalizeErrors
    BY <1>15, HandedKept, ConnUnchanged DEF FinalizeErrors, Holding, CollectorHolds
  <1>16. CASE CloseCandidates
    BY <1>16, HandedKept, ConnUnchanged DEF CloseCandidates, Holding, CollectorHolds
  <1>17. CASE CloseDone
    BY <1>17, HandedKept, ConnUnchanged DEF CloseDone, Holding, CollectorHolds
  <1>18. ASSUME NEW g \in Clients, NextEnter(g) PROVE ConnInv'
    BY <1>18, HandedKept, ConnUnchanged DEF NextEnter, ClientGoto, TypeOK, Holding, CollectorHolds
  <1>19. ASSUME NEW g \in Clients, NextReceive(g) PROVE ConnInv'
    BY <1>19, ReceiveStep, ConnUnchanged DEF NextReceive
  <1>20. ASSUME NEW g \in Clients, NextExhausted(g) PROVE ConnInv'
    BY <1>20, HandedKept, ConnUnchanged DEF NextExhausted, ClientGoto, TypeOK, Holding,
       CollectorHolds
  <1>21. ASSUME NEW g \in Clients, NextRelease(g) PROVE ConnInv'
    BY <1>21, HandedKept, ConnUnchanged DEF NextRelease, ClientGoto, TypeOK, Holding, CollectorHolds
  <1>22. ASSUME NEW g \in Clients, NextReturn(g) PROVE ConnInv'
    <2>1. /\ Handed' = IF Cancelled THEN Handed \ {gaddr[g]} ELSE Handed
          /\ open' = IF Cancelled THEN open \ {gaddr[g]} ELSE open
          /\ UNCHANGED <<wpc, waddr, werr>> /\ g \in Holding
      BY <1>22, ReturnStep DEF NextReturn, ClientGoto, Holding
    <2>2. WorkerHolds' = WorkerHolds /\ gaddr[g] \notin WorkerHolds
      BY <2>1 DEF WorkerHolds, Attempting, SingleHolder, Busy
    <2>3. OpenIffHeld'
      BY <2>1, <2>2 DEF ConnInv, OpenIffHeld
    <2>4. DeliveredOpen'
      BY <2>1, <2>2 DEF ConnInv, DeliveredOpen, WorkerHolds, Attempting
    <2> QED BY <2>3, <2>4 DEF ConnInv
  <1>23. ASSUME NEW g \in Clients, CloseEnter(g) PROVE ConnInv'
    BY <1>23, HandedKept, ConnUnchanged DEF CloseEnter, ClientGoto, TypeOK, Holding, CollectorHolds
  <1>24. ASSUME NEW g \in Clients, CloseAwaitDone(g) PROVE ConnInv'
    BY <1>24, HandedKept, ConnUnchanged DEF CloseAwaitDone, ClientGoto, TypeOK, Holding,
       CollectorHolds
  <1>25. ASSUME NEW g \in Clients, CloseDrain(g) PROVE ConnInv'
    <2>1. UNCHANGED <<wpc, waddr, werr>> /\ open' = open \ {Head(candidates)}
      BY <1>25 DEF CloseDrain, Discard
    <2> QED
      BY <1>25, <2>1, DrainStep
      DEF ConnInv, OpenIffHeld, DeliveredOpen, WorkerHolds, Attempting, Busy
  <1>26. ASSUME NEW g \in Clients, CloseReturn(g) PROVE ConnInv'
    BY <1>26, HandedKept, ConnUnchanged DEF CloseReturn, ClientGoto, TypeOK, Holding, CollectorHolds
  <1>27. ASSUME NEW g \in Clients, CloseAwaitOnce(g) PROVE ConnInv'
    BY <1>27, HandedKept, ConnUnchanged DEF CloseAwaitOnce, ClientGoto, TypeOK, Holding,
       CollectorHolds
  <1>28. CASE UNCHANGED vars
    BY <1>28, HandedKept, ConnUnchanged DEF vars, Holding, CollectorHolds
  <1> QED
    BY <1>1, <1>2, <1>3, <1>4, <1>5, <1>6, <1>7, <1>8, <1>9, <1>10, <1>11, <1>12, <1>13, <1>14,
       <1>15, <1>16, <1>17, <1>18, <1>19, <1>20, <1>21, <1>22, <1>23, <1>24, <1>25, <1>26, <1>27, <1>28
    DEF Next, Feeder, Worker, Collector, InCall

\* A pool that was just started holds nothing.
LEMMA LifeInit == Init => ConnInv /\ Shutdown /\ Settled
  <1> SUFFICES ASSUME Init PROVE ConnInv /\ Shutdown /\ Settled
    OBVIOUS
  <1>1. /\ Handed = {} /\ WorkerHolds = {} /\ CollectorHolds = {} /\ QueueHolds = {} /\ Busy = {}
    BY DEF Init, Handed, WorkerHolds, Attempting, CollectorHolds, QueueHolds, SeqRange,
       ClientHolds, Busy
  <1>2. ConnInv
    BY <1>1 DEF Init, ConnInv, OpenIffHeld, DeliveredOpen
  <1>3. Shutdown
    BY DEF Init, Shutdown
  <1>4. Settled
    BY <1>1 DEF Init, Settled, FromTracker, Somewhere, FailuresSettled
  <1> QED BY <1>2, <1>3, <1>4

\* The invariants the next theorems rest on hold in every behaviour.
LEMMA LifeInv == Spec => [](TypeInv /\ SingleHolder /\ ConnInv /\ Shutdown /\ Settled)
  <1>1. Spec => []TypeInv
    BY InitTypeInv, NextTypeInv, PTL DEF Spec
  <1> QED BY <1>1, OneHolder, LifeInit, NextConnInv, NextShutdown, NextSettled, PTL DEF Spec

-----------------------------------------------------------------------------
(* What follows from them.                                                 *)

\* A connection is open while an attempt, the collector, the channel, a running
\* Next or its caller has it and at no other time: runWorker, collect, Next and
\* Close leak no connection and close none that another holds.
THEOREM NothingLeaks == Spec => []OpenIffHeld
  BY LifeInv, PTL DEF ConnInv

\* When Close has returned, the workers and the collector have returned, the
\* channel is empty and no connection is open but those of callers of Next.
THEOREM CloseLeavesNothing == Spec => []CloseQuiesces
  <1>1. TypeInv /\ ConnInv /\ Shutdown => CloseQuiesces
    <2> SUFFICES ASSUME TypeInv, ConnInv, Shutdown, once = "done" PROVE CloseQuiesces
      BY DEF CloseQuiesces
    <2>1. WorkersReturned /\ cpc = "returned" /\ candidates = <<>>
      BY DEF Shutdown
    <2>2. WorkerHolds = {} /\ CollectorHolds = {} /\ QueueHolds = {}
      BY <2>1 DEF WorkersReturned, WorkerHolds, Attempting, CollectorHolds, QueueHolds, SeqRange
    <2> QED BY <2>1, <2>2 DEF CloseQuiesces, ConnInv, OpenIffHeld, Handed
  <1> QED BY <1>1, LifeInv, PTL

\* When Next reports exhaustion, every endpoint was handed out or appears in
\* the error it returns, and none does both.
THEOREM ExhaustionReported == Spec => []ExhaustionComplete
  <1>1. ConnInv /\ Shutdown /\ Settled => ExhaustionComplete
    <2> SUFFICES ASSUME ConnInv, Shutdown, Settled, NEW g \in Clients, ret[g] = "exhausted"
                 PROVE  /\ ~Cancelled => \A i \in 1..N :
                               uniqueAddrs[i] \in owned \cup reported[g]
                                   \cup ClientHolds("release") \cup ClientHolds("check")
                        /\ reported[g] \cap (open \cup owned) = {}
      BY DEF ExhaustionComplete
    <2>1. /\ candidates = <<>> /\ reported[g] = failures /\ WorkersReturned
          /\ cpc \in {"closeDone", "returned"}
      BY DEF Settled, FailuresSettled, Shutdown
    <2>2. WorkerHolds = {} /\ CollectorHolds = {} /\ QueueHolds = {} /\ Busy = {}
      BY <2>1 DEF WorkersReturned, WorkerHolds, Attempting, CollectorHolds, QueueHolds,
         SeqRange, Busy
    <2>3. ~Cancelled => fed = N
      BY <2>1, PoolAssumption DEF PoolAssumption, WorkersReturned, Settled, Somewhere
    <2>4. Handed = owned \cup ClientHolds("release") \cup ClientHolds("check")
      BY <2>2 DEF Handed
    <2>5. ~Cancelled => \A i \in 1..N : uniqueAddrs[i] \in Handed \cup failures
      BY <2>2, <2>3 DEF Settled, Somewhere
    <2>6. failures \cap (open \cup owned) = {}
      BY <2>2, <2>4 DEF Settled, FailuresSettled, ConnInv, OpenIffHeld
    <2> QED BY <2>1, <2>4, <2>5, <2>6
  <1> QED BY <1>1, LifeInv, PTL

\* A sequence without repetition has as many elements as positions.
LEMMA RangeCardinality ==
  ASSUME NEW S, NEW s \in Seq(S), \A i, j \in 1..Len(s) : s[i] = s[j] => i = j
  PROVE  IsFiniteSet(SeqRange(s)) /\ Cardinality(SeqRange(s)) = Len(s)
  <1> DEFINE f == [i \in 1..Len(s) |-> s[i]]
  <1>1. f \in Bijection(1..Len(s), SeqRange(s))
    <2>1. f \in [1..Len(s) -> SeqRange(s)]
      BY DEF SeqRange
    <2>2. \A i, j \in 1..Len(s) : f[i] = f[j] => i = j
      OBVIOUS
    <2>3. \A x \in SeqRange(s) : \E i \in 1..Len(s) : f[i] = x
      BY DEF SeqRange
    <2> QED BY <2>1, <2>2, <2>3, Fun_IsInj, Fun_IsSurj DEF Bijection
  <1>2. ExistsBijection(1..Len(s), SeqRange(s)) /\ Len(s) \in Nat
    BY <1>1 DEF ExistsBijection
  <1> QED BY <1>2, FS_CountingElements, FS_NatBijection

\* The collector's send never waits for capacity: the candidates in the channel
\* and the one it holds are distinct endpoints and each has a slot, so they are
\* no more than the endpoints and no more than the slots.
THEOREM CollectorHasRoom == Spec => []CollectorNeverBlocks
  <1>1. TypeInv /\ SingleHolder /\ Settled /\ SlotAccounting => CollectorNeverBlocks
    <2> SUFFICES ASSUME TypeInv, SingleHolder, Settled, SlotAccounting, cpc = "queue"
                 PROVE  Len(candidates) < candidatesCap
      BY DEF CollectorNeverBlocks
    <2> DEFINE H == QueueHolds \cup {caddr}
    <2>1. IsFiniteSet(QueueHolds) /\ Cardinality(QueueHolds) = Len(candidates)
      BY RangeCardinality DEF TypeInv, TypeOK, SingleHolder, QueueHolds
    <2>2. caddr \notin QueueHolds /\ CollectorHolds = {caddr}
      BY DEF SingleHolder, CollectorHolds
    <2>3. Cardinality(H) = Len(candidates) + 1
      BY <2>1, <2>2, FS_AddElement
    <2>4. H \subseteq InBudget /\ H \subseteq Endpoints
      BY <2>2 DEF InBudget, Handed, Settled, FromTracker
    <2>5. Cardinality(H) <= maxWaitingCandidates
      <3>1. Cardinality(H) <= Cardinality(InBudget) /\ Cardinality(H) \in Nat
        BY <2>4, BudgetFinite, FS_Subset, FS_CardinalityType
      <3> QED BY <3>1, PoolAssumption DEF PoolAssumption, SlotAccounting, TypeInv, TypeOK
    <2>6. Cardinality(H) <= N
      <3>1. IsFiniteSet(Endpoints) /\ Cardinality(Endpoints) = N
        BY RangeCardinality, PoolAssumption DEF PoolAssumption, Endpoints, SeqRange, N
      <3> QED BY <2>4, <3>1, FS_Subset
    <2>7. Len(candidates) \in Nat
      BY DEF TypeInv, TypeOK
    <2> HIDE DEF H
    <2> QED BY <2>3, <2>5, <2>6, <2>7, LenNat, PoolAssumption DEF PoolAssumption, candidatesCap
  <1> QED BY <1>1, LifeInv, SlotsAccounted, PTL

-----------------------------------------------------------------------------
(* The pool implements Discovery.                                          *)

\* Where Discovery sees an endpoint: not yet tried, and being tried.
New == Unfed \cup WorkerAt({"acquire"})
Trying == WorkerAt({"dial", "failed"})
Places == <<New, Trying, InBudget, ClientHolds("check"), owned>>
Status == [a \in Endpoints |-> StatusOf(a)]

\* The cases of StatusOf exclude one another, so each place gives its status.
StatusFits(a) ==
    /\ a \in New => StatusOf(a) = "new"
    /\ a \in Trying => StatusOf(a) = "trying"
    /\ a \in InBudget \ Trying => StatusOf(a) = "waiting"
    /\ a \in ClientHolds("check") => StatusOf(a) = "handoff"
    /\ a \in owned => StatusOf(a) = "claimed"
    /\ a \notin New \cup InBudget \cup ClientHolds("check") \cup owned => StatusOf(a) = "gone"

\* A step leaves every endpoint but a where it is.
OnlyMoves(a) ==
    /\ New' \ {a} = New \ {a} /\ Trying' \ {a} = Trying \ {a}
    /\ InBudget' \ {a} = InBudget \ {a}
    /\ ClientHolds("check")' \ {a} = ClientHolds("check") \ {a}
    /\ owned' \ {a} = owned \ {a}

\* An endpoint has one holder, so it has one place.
LEMMA StatusAt == TypeInv /\ SingleHolder => \A a \in Endpoints : StatusFits(a)
  <1> SUFFICES ASSUME TypeInv, SingleHolder, NEW a \in Endpoints PROVE StatusFits(a)
    OBVIOUS
  <1>1. Trying \subseteq InBudget
    BY DEF Trying, WorkerAt, InBudget, WorkerHolds, Attempting
  <1>2. a \in New => a \notin InBudget /\ a \notin ClientHolds("check") /\ a \notin owned
    <2>1. a \in Unfed => a \notin InBudget /\ a \notin ClientHolds("check") /\ a \notin owned
      BY BudgetMembers DEF SingleHolder, Attempting, Busy, Holding, ClientHolds
    <2>2. a \in WorkerAt({"acquire"}) =>
              a \notin InBudget /\ a \notin ClientHolds("check") /\ a \notin owned
      BY BudgetMembers DEF SingleHolder, WorkerAt, Attempting, Busy, Holding, ClientHolds
    <2> QED BY <2>1, <2>2 DEF New
  <1>3. a \in InBudget => a \notin ClientHolds("check") /\ a \notin owned
    BY BudgetMembers DEF SingleHolder, Attempting, Busy, Holding, ClientHolds
  <1>4. a \in ClientHolds("check") => a \notin owned
    BY DEF SingleHolder, Holding, ClientHolds
  <1>5. StatusOf(a) = CASE a \in New -> "new"
                        [] a \in Trying -> "trying"
                        [] a \in InBudget \ Trying -> "waiting"
                        [] a \in ClientHolds("check") -> "handoff"
                        [] a \in owned -> "claimed"
                        [] OTHER -> "gone"
    BY DEF StatusOf, New, Trying
  <1> QED BY <1>1, <1>2, <1>3, <1>4, <1>5 DEF StatusFits

\* A step that moves no endpoint between the places leaves Discovery alone.
LEMMA SamePlaces ==
  ASSUME Places' = Places
  PROVE  Status' = Status
  BY DEF Places, New, Trying, Status, StatusOf

\* A step that moves one endpoint changes its status alone.
LEMMA OneMoves ==
  ASSUME NEW a \in Endpoints, NEW t, OnlyMoves(a), StatusOf(a)' = t
  PROVE  Status' = [Status EXCEPT ![a] = t]
  <1>1. ASSUME NEW b \in Endpoints, b # a PROVE StatusOf(b)' = StatusOf(b)
    <2>1. /\ b \in New' <=> b \in New
          /\ b \in Trying' <=> b \in Trying
          /\ b \in InBudget' <=> b \in InBudget
          /\ b \in ClientHolds("check")' <=> b \in ClientHolds("check")
          /\ b \in owned' <=> b \in owned
      BY <1>1 DEF OnlyMoves
    <2> QED BY <2>1 DEF StatusOf, New, Trying
  <1> QED BY <1>1 DEF Status

\* Every step of the pool is a step of Discovery or leaves it unchanged.
LEMMA NextDiscovery ==
  TypeInv /\ SingleHolder /\ SlotAccounting /\ Shutdown /\ Settled /\ [Next]_vars
      => [D!Next]_<<Status, Cancelled>>
  <1> SUFFICES ASSUME TypeInv, SingleHolder, SlotAccounting, Shutdown, Settled, [Next]_vars
               PROVE  [D!Next]_<<Status, Cancelled>>
    OBVIOUS
  <1> TypeInv' /\ SingleHolder'
    BY NextTypeInv, NextSingleHolder
  <1>a. \A a \in Endpoints : StatusFits(a) /\ StatusFits(a)'
    <2>1. (\A a \in Endpoints : StatusFits(a))'
      BY StatusAt, PTL
    <2> QED BY <2>1, StatusAt
  <1> USE DEF TypeInv, sharedVars, feedVars, workerVars, collectVars, clientVars
  <1>1. ASSUME NEW e \in {"canceled", "deadline"}, ParentDone(e) PROVE [D!Next]_<<Status, Cancelled>>
    <2>1. Places' = Places
      BY <1>1 DEF ParentDone, Cancelled, Places, New, Unfed, WorkerAt, Trying, InBudget,
         WorkerHolds, Attempting, CollectorHolds, QueueHolds, ClientHolds, TypeOK
    <2>2. ~Cancelled /\ Cancelled'
      BY <1>1 DEF ParentDone, Cancelled
    <2> QED BY <2>1, <2>2, SamePlaces DEF D!Next, D!Cancel, Status
  <1>2. ASSUME NEW w \in Workers, Dispatch(w) PROVE [D!Next]_<<Status, Cancelled>>
    <2> DEFINE a == uniqueAddrs[fed + 1]
    <2>1. Unfed = Unfed' \cup {a}
      BY <1>2, LenNat DEF Dispatch, TypeOK, Unfed
    <2>2. /\ WorkerAt({"acquire"})' = WorkerAt({"acquire"}) \cup {a} /\ Trying' = Trying
          /\ WorkerHolds' = WorkerHolds
      BY <1>2 DEF Dispatch, TypeOK, WorkerAt, Trying, WorkerHolds, Attempting
    <2>3. UNCHANGED <<ctxErr, candidates, cpc, caddr, gpc, gaddr, owned>>
      BY <1>2 DEF Dispatch
    <2> HIDE DEF a
    <2>4. Places' = Places
      BY <2>1, <2>2, <2>3 DEF Places, New, InBudget, CollectorHolds, QueueHolds, ClientHolds
    <2> QED BY <2>3, <2>4, SamePlaces DEF Cancelled
  <1>3. CASE FeederReturn
    <2>1. Places' = Places
      BY <1>3 DEF FeederReturn, FeederStops, Places, New, Unfed, WorkerAt, Trying, InBudget,
         WorkerHolds, Attempting, CollectorHolds, QueueHolds, ClientHolds, TypeOK
    <2>2. Cancelled' = Cancelled
      BY <1>3 DEF FeederReturn, Cancelled
    <2> QED BY <2>1, <2>2, SamePlaces
  <1>4. ASSUME NEW w \in Workers, WorkerReturn(w) PROVE [D!Next]_<<Status, Cancelled>>
    <2>1. Places' = Places
      BY <1>4 DEF WorkerReturn, WorkerGoto, Places, New, Unfed, WorkerAt, Trying, InBudget,
         WorkerHolds, Attempting, CollectorHolds, QueueHolds, ClientHolds, TypeOK
    <2>2. Cancelled' = Cancelled
      BY <1>4 DEF WorkerReturn, Cancelled
    <2> QED BY <2>1, <2>2, SamePlaces
  <1>5. ASSUME NEW w \in Workers, AcquireSlot(w) PROVE [D!Next]_<<Status, Cancelled>>
    <2>8. Cardinality(D!With("trying") \cup D!With("waiting")) < maxWaitingCandidates
      <3>1. D!With("trying") \cup D!With("waiting") \subseteq InBudget
        <4>1. ASSUME NEW b \in Endpoints, b \notin InBudget
              PROVE  StatusOf(b) # "trying" /\ StatusOf(b) # "waiting"
          <5>1. b \notin Trying
            BY <4>1 DEF Trying, WorkerAt, InBudget, WorkerHolds, Attempting
          <5> QED BY <4>1, <5>1 DEF StatusOf, Trying
        <4> QED BY <4>1 DEF D!With
      <3>2. Cardinality(D!With("trying") \cup D!With("waiting")) <= Cardinality(InBudget)
        BY <3>1, BudgetFinite, FS_Subset, FS_CardinalityType
      <3>3. Cardinality(D!With("trying") \cup D!With("waiting")) \in Nat
        BY <3>1, BudgetFinite, FS_Subset, FS_CardinalityType
      <3> QED
        BY <1>5, <3>2, <3>3, PoolAssumption
        DEF PoolAssumption, AcquireSlot, SlotFree, SlotAccounting, TypeOK
    <2>1. PICK a \in Endpoints : a = waddr[w]
      BY <1>5 DEF AcquireSlot, WorkerGoto, Settled, FromTracker, Busy, Handed, ClientHolds,
         CollectorHolds
    <2>2. a \in New
      BY <1>5, <2>1 DEF AcquireSlot, WorkerGoto, New, Unfed, WorkerAt, Trying, InBudget,
         WorkerHolds, Attempting, CollectorHolds, QueueHolds, ClientHolds, TypeOK, HeldTyped,
         SingleHolder, Busy, Holding
    <2>3. a \in Trying'
      BY <1>5, <2>1 DEF AcquireSlot, WorkerGoto, New, Unfed, WorkerAt, Trying, InBudget,
         WorkerHolds, Attempting, CollectorHolds, QueueHolds, ClientHolds, TypeOK, HeldTyped,
         SingleHolder, Busy, Holding
    <2>4. OnlyMoves(a)
      BY <1>5, <2>1 DEF AcquireSlot, WorkerGoto, OnlyMoves, New, Unfed, WorkerAt, Trying,
         InBudget, WorkerHolds,
         Attempting, CollectorHolds, QueueHolds, ClientHolds, TypeOK
    <2>5. StatusOf(a) = "new" /\ StatusOf(a)' = "trying"
      BY <2>2, <2>3, <1>a DEF StatusFits
    <2>6. Cancelled' = Cancelled
      BY <1>5 DEF AcquireSlot, WorkerGoto, Cancelled
    <2>7. Status' = [Status EXCEPT ![a] = "trying"]
      BY <2>4, <2>5, OneMoves
    <2>9. D!Move(a, "new", "trying")
      BY <2>5, <2>6, <2>7 DEF D!Move, Status
    <2>10. D!Try(a)
      <3> DEFINE S == D!With("trying") \cup D!With("waiting")
      <3>1. D!Cardinality(S) = Cardinality(S)
        <4> HIDE DEF S
        <4> QED BY Zenon DEF D!Cardinality, Cardinality
      <3> QED BY <2>8, <2>9, <3>1 DEF D!Try
    <2> QED BY <2>10 DEF D!Next
  <1>6. ASSUME NEW w \in Workers, AcquireCancelled(w) PROVE [D!Next]_<<Status, Cancelled>>
    <2>1. PICK a \in Endpoints : a = waddr[w]
      BY <1>6 DEF AcquireCancelled, AcquireGivesUp, WorkerGoto, Settled, FromTracker, Busy,
         Handed, ClientHolds, CollectorHolds
    <2>2. a \in New
      BY <1>6, <2>1 DEF AcquireCancelled, AcquireGivesUp, WorkerGoto, New, Unfed, WorkerAt,
         Trying, InBudget, WorkerHolds, Attempting, CollectorHolds, QueueHolds, ClientHolds,
         TypeOK, HeldTyped, SingleHolder, Busy, Holding
    <2>3. a \notin New' \cup InBudget' \cup ClientHolds("check")' \cup owned'
      BY <1>6, <2>1 DEF AcquireCancelled, AcquireGivesUp, WorkerGoto, New, Unfed, WorkerAt,
         Trying, InBudget, WorkerHolds, Attempting, CollectorHolds, QueueHolds, ClientHolds,
         TypeOK, HeldTyped, SingleHolder, Busy, Holding
    <2>4. OnlyMoves(a)
      BY <1>6, <2>1 DEF AcquireCancelled, AcquireGivesUp, WorkerGoto, OnlyMoves, New, Unfed,
         WorkerAt, Trying, InBudget, WorkerHolds,
         Attempting, CollectorHolds, QueueHolds, ClientHolds, TypeOK
    <2>5. StatusOf(a) = "new" /\ StatusOf(a)' = "gone"
      BY <2>2, <2>3, <1>a DEF StatusFits
    <2>6. Cancelled' = Cancelled /\ Cancelled
      BY <1>6 DEF AcquireCancelled, AcquireGivesUp, WorkerGoto, Cancelled
    <2>7. Status' = [Status EXCEPT ![a] = "gone"]
      BY <2>4, <2>5, OneMoves
    <2> QED BY <2>5, <2>6, <2>7 DEF D!Next, D!Drop, D!Move, Status
  <1>7. ASSUME NEW w \in Workers, DialSucceeds(w) PROVE [D!Next]_<<Status, Cancelled>>
    <2>1. PICK a \in Endpoints : a = waddr[w]
      BY <1>7 DEF DialSucceeds, WorkerGoto, Settled, FromTracker, Busy, Handed, ClientHolds,
         CollectorHolds
    <2>2. a \in Trying
      BY <1>7, <2>1 DEF DialSucceeds, WorkerGoto, New, Unfed, WorkerAt, Trying, InBudget,
         WorkerHolds, Attempting, CollectorHolds, QueueHolds, ClientHolds, TypeOK, HeldTyped,
         SingleHolder, Busy, Holding
    <2>3. a \in InBudget' \ Trying'
      BY <1>7, <2>1 DEF DialSucceeds, WorkerGoto, New, Unfed, WorkerAt, Trying, InBudget,
         WorkerHolds, Attempting, CollectorHolds, QueueHolds, ClientHolds, TypeOK, HeldTyped,
         SingleHolder, Busy, Holding
    <2>4. OnlyMoves(a)
      BY <1>7, <2>1 DEF DialSucceeds, WorkerGoto, OnlyMoves, New, Unfed, WorkerAt, Trying,
         InBudget, WorkerHolds,
         Attempting, CollectorHolds, QueueHolds, ClientHolds, TypeOK
    <2>5. StatusOf(a) = "trying" /\ StatusOf(a)' = "waiting"
      BY <2>2, <2>3, <1>a DEF StatusFits
    <2>6. Cancelled' = Cancelled
      BY <1>7 DEF DialSucceeds, WorkerGoto, Cancelled
    <2>7. Status' = [Status EXCEPT ![a] = "waiting"]
      BY <2>4, <2>5, OneMoves
    <2> QED BY <2>5, <2>6, <2>7 DEF D!Next, D!Succeed, D!Move, Status
  <1>8. ASSUME NEW w \in Workers, NEW e \in AttemptErrs \ {"nil"}, NEW withConn \in BOOLEAN,
               DialFails(w, e, withConn)
        PROVE  [D!Next]_<<Status, Cancelled>>
    <2>1. Places' = Places
      BY <1>8 DEF DialFails, WorkerGoto, Places, New, Unfed, WorkerAt, Trying, InBudget,
         WorkerHolds, Attempting, CollectorHolds, QueueHolds, ClientHolds, TypeOK
    <2>2. Cancelled' = Cancelled
      BY <1>8 DEF DialFails, Cancelled
    <2> QED BY <2>1, <2>2, SamePlaces
  <1>9. ASSUME NEW w \in Workers, FailureCleanup(w) PROVE [D!Next]_<<Status, Cancelled>>
    <2>1. PICK a \in Endpoints : a = waddr[w]
      BY <1>9 DEF FailureCleanup, Discard, WorkerGoto, Settled, FromTracker, Busy, Handed,
         ClientHolds, CollectorHolds
    <2>2. a \in Trying
      BY <1>9, <2>1 DEF FailureCleanup, Discard, WorkerGoto, New, Unfed, WorkerAt, Trying,
         InBudget, WorkerHolds, Attempting, CollectorHolds, QueueHolds, ClientHolds, TypeOK,
         HeldTyped, SingleHolder, Busy, Holding
    <2>3. a \notin New' \cup InBudget' \cup ClientHolds("check")' \cup owned'
      BY <1>9, <2>1 DEF FailureCleanup, Discard, WorkerGoto, New, Unfed, WorkerAt, Trying,
         InBudget, WorkerHolds, Attempting, CollectorHolds, QueueHolds, ClientHolds, TypeOK,
         HeldTyped, SingleHolder, Busy, Holding
    <2>4. OnlyMoves(a)
      BY <1>9, <2>1 DEF FailureCleanup, Discard, WorkerGoto, OnlyMoves, New, Unfed, WorkerAt,
         Trying, InBudget, WorkerHolds,
         Attempting, CollectorHolds, QueueHolds, ClientHolds, TypeOK
    <2>5. StatusOf(a) = "trying" /\ StatusOf(a)' = "gone"
      BY <2>2, <2>3, <1>a DEF StatusFits
    <2>6. Cancelled' = Cancelled
      BY <1>9 DEF FailureCleanup, Discard, WorkerGoto, Cancelled
    <2>7. Status' = [Status EXCEPT ![a] = "gone"]
      BY <2>4, <2>5, OneMoves
    <2> QED BY <2>5, <2>6, <2>7 DEF D!Next, D!Fail, D!Move, Status
  <1>10. ASSUME NEW w \in Workers, DeliverCancelled(w) PROVE [D!Next]_<<Status, Cancelled>>
    <2>a. CASE werr[w] = "nil"
      <3>1. PICK a \in Endpoints : a = waddr[w]
        BY <1>10, <2>a DEF DeliverCancelled, Discard, WorkerGoto, Settled, FromTracker, Busy,
           Handed, ClientHolds, CollectorHolds
      <3>2. a \in InBudget \ Trying
        BY <1>10, <2>a, <3>1 DEF DeliverCancelled, Discard, WorkerGoto, New, Unfed, WorkerAt,
           Trying, InBudget, WorkerHolds, Attempting, CollectorHolds, QueueHolds, ClientHolds,
           TypeOK, HeldTyped, SingleHolder, Busy, Holding
      <3>3. a \notin New' \cup InBudget' \cup ClientHolds("check")' \cup owned'
        BY <1>10, <2>a, <3>1 DEF DeliverCancelled, Discard, WorkerGoto, New, Unfed, WorkerAt,
           Trying, InBudget, WorkerHolds, Attempting, CollectorHolds, QueueHolds, ClientHolds,
           TypeOK, HeldTyped, SingleHolder, Busy, Holding
      <3>4. OnlyMoves(a)
        BY <1>10, <2>a, <3>1 DEF DeliverCancelled, Discard, WorkerGoto, OnlyMoves, New, Unfed,
           WorkerAt, Trying, InBudget, WorkerHolds,
           Attempting, CollectorHolds, QueueHolds, ClientHolds, TypeOK
      <3>5. StatusOf(a) = "waiting" /\ StatusOf(a)' = "gone"
        BY <3>2, <3>3, <1>a DEF StatusFits
      <3>6. Cancelled' = Cancelled /\ Cancelled
        BY <1>10, <2>a DEF DeliverCancelled, Discard, WorkerGoto, Cancelled
      <3>7. Status' = [Status EXCEPT ![a] = "gone"]
        BY <3>4, <3>5, OneMoves
      <3> QED BY <3>5, <3>6, <3>7 DEF D!Next, D!Drop, D!Move, Status
    <2>b. CASE werr[w] # "nil"
      <3>1. Places' = Places
        BY <1>10, <2>b DEF DeliverCancelled, WorkerGoto, Places, New, Unfed, WorkerAt, Trying,
           InBudget,
           WorkerHolds, Attempting, CollectorHolds, QueueHolds, ClientHolds, TypeOK
      <3>2. Cancelled' = Cancelled
        BY <1>10 DEF DeliverCancelled, Cancelled
      <3> QED BY <3>1, <3>2, SamePlaces
    <2> QED BY <2>a, <2>b
  <1>11. ASSUME NEW w \in Workers, Deliver(w) PROVE [D!Next]_<<Status, Cancelled>>
    <2>1. Places' = Places
      BY <1>11 DEF Deliver, WorkerGoto, Places, New, Unfed, WorkerAt, Trying, InBudget, WorkerHolds,
         Attempting, CollectorHolds, QueueHolds, ClientHolds, TypeOK
    <2>2. Cancelled' = Cancelled
      BY <1>11 DEF Deliver, Cancelled
    <2> QED BY <2>1, <2>2, SamePlaces
  <1>12. CASE CloseResults
    <2>1. Places' = Places
      BY <1>12 DEF CloseResults, Places, New, Unfed, WorkerAt, Trying, InBudget, WorkerHolds,
         Attempting, CollectorHolds, QueueHolds, ClientHolds, TypeOK
    <2>2. Cancelled' = Cancelled
      BY <1>12 DEF CloseResults, Cancelled
    <2> QED BY <2>1, <2>2, SamePlaces
  <1>13. CASE QueueCandidate
    <2>1. UNCHANGED <<ctxErr, fed, wpc, waddr, werr, gpc, gaddr, owned>>
      BY <1>13 DEF QueueCandidate
    <2>2. Places' = Places
      BY <1>13, <2>1, QueueStep DEF Places, New, Unfed, WorkerAt, Trying, InBudget, WorkerHolds,
         Attempting, ClientHolds
    <2> QED BY <2>1, <2>2, SamePlaces DEF Cancelled
  <1>14. CASE DropCandidate
    <2>1. PICK a \in Endpoints : a = caddr
      BY <1>14 DEF DropCandidate, Discard, Settled, FromTracker, Busy, Handed, ClientHolds,
         CollectorHolds
    <2>2. a \in InBudget \ Trying
      BY <1>14, <2>1 DEF DropCandidate, Discard, New, Unfed, WorkerAt, Trying, InBudget,
         WorkerHolds, Attempting, CollectorHolds, QueueHolds, ClientHolds, TypeOK, HeldTyped,
         SingleHolder, Busy, Holding
    <2>3. a \notin New' \cup InBudget' \cup ClientHolds("check")' \cup owned'
      BY <1>14, <2>1 DEF DropCandidate, Discard, New, Unfed, WorkerAt, Trying, InBudget,
         WorkerHolds, Attempting, CollectorHolds, QueueHolds, ClientHolds, TypeOK, HeldTyped,
         SingleHolder, Busy, Holding
    <2>4. OnlyMoves(a)
      BY <1>14, <2>1 DEF DropCandidate, Discard, OnlyMoves, New, Unfed, WorkerAt, Trying,
         InBudget, WorkerHolds,
         Attempting, CollectorHolds, QueueHolds, ClientHolds, TypeOK
    <2>5. StatusOf(a) = "waiting" /\ StatusOf(a)' = "gone"
      BY <2>2, <2>3, <1>a DEF StatusFits
    <2>6. Cancelled' = Cancelled /\ Cancelled
      BY <1>14 DEF DropCandidate, Discard, Cancelled
    <2>7. Status' = [Status EXCEPT ![a] = "gone"]
      BY <2>4, <2>5, OneMoves
    <2> QED BY <2>5, <2>6, <2>7 DEF D!Next, D!Drop, D!Move, Status
  <1>15. CASE FinalizeErrors
    <2>1. Places' = Places
      BY <1>15 DEF FinalizeErrors, Places, New, Unfed, WorkerAt, Trying, InBudget, WorkerHolds,
         Attempting, CollectorHolds, QueueHolds, ClientHolds, TypeOK
    <2>2. Cancelled' = Cancelled
      BY <1>15 DEF FinalizeErrors, Cancelled
    <2> QED BY <2>1, <2>2, SamePlaces
  <1>16. CASE CloseCandidates
    <2>1. Places' = Places
      BY <1>16 DEF CloseCandidates, Places, New, Unfed, WorkerAt, Trying, InBudget, WorkerHolds,
         Attempting, CollectorHolds, QueueHolds, ClientHolds, TypeOK
    <2>2. Cancelled' = Cancelled
      BY <1>16 DEF CloseCandidates, Cancelled
    <2> QED BY <2>1, <2>2, SamePlaces
  <1>17. CASE CloseDone
    <2>1. Places' = Places
      BY <1>17 DEF CloseDone, Places, New, Unfed, WorkerAt, Trying, InBudget, WorkerHolds,
         Attempting, CollectorHolds, QueueHolds, ClientHolds, TypeOK
    <2>2. Cancelled' = Cancelled
      BY <1>17 DEF CloseDone, Cancelled
    <2> QED BY <2>1, <2>2, SamePlaces
  <1>18. ASSUME NEW g \in Clients, NextEnter(g) PROVE [D!Next]_<<Status, Cancelled>>
    <2>1. Places' = Places
      BY <1>18 DEF NextEnter, ClientGoto, Return, Places, New, Unfed, WorkerAt, Trying, InBudget,
         WorkerHolds, Attempting, CollectorHolds, QueueHolds, ClientHolds, TypeOK
    <2>2. Cancelled' = Cancelled
      BY <1>18 DEF NextEnter, Cancelled
    <2> QED BY <2>1, <2>2, SamePlaces
  <1>19. ASSUME NEW g \in Clients, NextReceive(g) PROVE [D!Next]_<<Status, Cancelled>>
    <2>1. UNCHANGED <<ctxErr, fed, wpc, waddr, werr, owned>>
      BY <1>19 DEF NextReceive
    <2>2. /\ ClientHolds("release")' = ClientHolds("release") \cup {Head(candidates)}
          /\ ClientHolds("check")' = ClientHolds("check")
      BY <1>19 DEF NextReceive, ClientGoto, TypeOK, ClientHolds
    <2>3. Places' = Places
      BY <1>19, <2>1, <2>2, ReceiveStep DEF Places, New, Unfed, WorkerAt, Trying, InBudget,
         WorkerHolds,
         Attempting
    <2> QED BY <2>1, <2>3, SamePlaces DEF Cancelled
  <1>20. ASSUME NEW g \in Clients, NextExhausted(g) PROVE [D!Next]_<<Status, Cancelled>>
    <2>1. Places' = Places
      BY <1>20 DEF NextExhausted, ReceiveNotOk, ClientGoto, Return, Places, New, Unfed, WorkerAt,
         Trying, InBudget, WorkerHolds, Attempting, CollectorHolds, QueueHolds, ClientHolds, TypeOK
    <2>2. Cancelled' = Cancelled
      BY <1>20 DEF NextExhausted, Cancelled
    <2> QED BY <2>1, <2>2, SamePlaces
  <1>21. ASSUME NEW g \in Clients, NextRelease(g) PROVE [D!Next]_<<Status, Cancelled>>
    <2>1. PICK a \in Endpoints : a = gaddr[g]
      BY <1>21 DEF NextRelease, ClientGoto, Settled, FromTracker, Busy, Handed, ClientHolds,
         CollectorHolds
    <2>2. a \in InBudget \ Trying
      BY <1>21, <2>1 DEF NextRelease, ClientGoto, New, Unfed, WorkerAt, Trying, InBudget,
         WorkerHolds, Attempting, CollectorHolds, QueueHolds, ClientHolds, TypeOK, HeldTyped,
         SingleHolder, Busy, Holding
    <2>3. a \in ClientHolds("check")'
      BY <1>21, <2>1 DEF NextRelease, ClientGoto, New, Unfed, WorkerAt, Trying, InBudget,
         WorkerHolds, Attempting, CollectorHolds, QueueHolds, ClientHolds, TypeOK, HeldTyped,
         SingleHolder, Busy, Holding
    <2>4. OnlyMoves(a)
      BY <1>21, <2>1 DEF NextRelease, ClientGoto, OnlyMoves, New, Unfed, WorkerAt, Trying,
         InBudget, WorkerHolds,
         Attempting, CollectorHolds, QueueHolds, ClientHolds, TypeOK
    <2>5. StatusOf(a) = "waiting" /\ StatusOf(a)' = "handoff"
      BY <2>2, <2>3, <1>a DEF StatusFits
    <2>6. Cancelled' = Cancelled
      BY <1>21 DEF NextRelease, ClientGoto, Cancelled
    <2>7. Status' = [Status EXCEPT ![a] = "handoff"]
      BY <2>4, <2>5, OneMoves
    <2> QED BY <2>5, <2>6, <2>7 DEF D!Next, D!Offer, D!Move, Status
  <1>22. ASSUME NEW g \in Clients, NextReturn(g) PROVE [D!Next]_<<Status, Cancelled>>
    <2>a. CASE Cancelled
      <3>1. PICK a \in Endpoints : a = gaddr[g]
        BY <1>22, <2>a DEF NextReturn, ClientGoto, Return, Settled, FromTracker, Busy, Handed,
           ClientHolds, CollectorHolds
      <3>2. a \in ClientHolds("check")
        BY <1>22, <2>a, <3>1 DEF NextReturn, ClientGoto, Return, New, Unfed, WorkerAt, Trying,
           InBudget, WorkerHolds, Attempting, CollectorHolds, QueueHolds, ClientHolds, TypeOK,
           HeldTyped, SingleHolder, Busy, Holding
      <3>3. a \notin New' \cup InBudget' \cup ClientHolds("check")' \cup owned'
        BY <1>22, <2>a, <3>1 DEF NextReturn, ClientGoto, Return, New, Unfed, WorkerAt, Trying,
           InBudget, WorkerHolds, Attempting, CollectorHolds, QueueHolds, ClientHolds, TypeOK,
           HeldTyped, SingleHolder, Busy, Holding
      <3>4. OnlyMoves(a)
        BY <1>22, <2>a, <3>1 DEF NextReturn, ClientGoto, Return, OnlyMoves, New, Unfed,
           WorkerAt, Trying, InBudget, WorkerHolds,
           Attempting, CollectorHolds, QueueHolds, ClientHolds, TypeOK
      <3>5. StatusOf(a) = "handoff" /\ StatusOf(a)' = "gone"
        BY <3>2, <3>3, <1>a DEF StatusFits
      <3>6. Cancelled' = Cancelled /\ Cancelled
        BY <1>22, <2>a DEF NextReturn, ClientGoto, Return, Cancelled
      <3>7. Status' = [Status EXCEPT ![a] = "gone"]
        BY <3>4, <3>5, OneMoves
      <3> QED BY <3>5, <3>6, <3>7 DEF D!Next, D!Drop, D!Move, Status
    <2>b. CASE ~Cancelled
      <3>1. PICK a \in Endpoints : a = gaddr[g]
        BY <1>22, <2>b DEF NextReturn, ClientGoto, Return, Settled, FromTracker, Busy, Handed,
           ClientHolds, CollectorHolds
      <3>2. a \in ClientHolds("check")
        BY <1>22, <2>b, <3>1 DEF NextReturn, ClientGoto, Return, New, Unfed, WorkerAt, Trying,
           InBudget, WorkerHolds, Attempting, CollectorHolds, QueueHolds, ClientHolds, TypeOK,
           HeldTyped, SingleHolder, Busy, Holding
      <3>3. a \in owned'
        BY <1>22, <2>b, <3>1 DEF NextReturn, ClientGoto, Return, New, Unfed, WorkerAt, Trying,
           InBudget, WorkerHolds, Attempting, CollectorHolds, QueueHolds, ClientHolds, TypeOK,
           HeldTyped, SingleHolder, Busy, Holding
      <3>4. OnlyMoves(a)
        BY <1>22, <2>b, <3>1 DEF NextReturn, ClientGoto, Return, OnlyMoves, New, Unfed,
           WorkerAt, Trying, InBudget, WorkerHolds,
           Attempting, CollectorHolds, QueueHolds, ClientHolds, TypeOK
      <3>5. StatusOf(a) = "handoff" /\ StatusOf(a)' = "claimed"
        BY <3>2, <3>3, <1>a DEF StatusFits
      <3>6. Cancelled' = Cancelled /\ ~Cancelled
        BY <1>22, <2>b DEF NextReturn, ClientGoto, Return, Cancelled
      <3>7. Status' = [Status EXCEPT ![a] = "claimed"]
        BY <3>4, <3>5, OneMoves
      <3> QED BY <3>5, <3>6, <3>7 DEF D!Next, D!Claim, D!Move, Status
    <2> QED BY <2>a, <2>b
  <1>23. ASSUME NEW g \in Clients, CloseEnter(g) PROVE [D!Next]_<<Status, Cancelled>>
    <2>1. Places' = Places
      BY <1>23 DEF CloseEnter, ClientGoto, Places, New, Unfed, WorkerAt, Trying, InBudget,
         WorkerHolds,
         Attempting, CollectorHolds, QueueHolds, ClientHolds, TypeOK
    <2>2. (Cancelled' = Cancelled) \/ (~Cancelled /\ Cancelled')
      BY <1>23 DEF CloseEnter, Cancelled
    <2> QED BY <2>1, <2>2, SamePlaces DEF D!Next, D!Cancel, Status
  <1>24. ASSUME NEW g \in Clients, CloseAwaitDone(g) PROVE [D!Next]_<<Status, Cancelled>>
    <2>1. Places' = Places
      BY <1>24 DEF CloseAwaitDone, DoneClosed, ClientGoto, Places, New, Unfed, WorkerAt, Trying,
         InBudget, WorkerHolds, Attempting, CollectorHolds, QueueHolds, ClientHolds, TypeOK
    <2>2. Cancelled' = Cancelled
      BY <1>24 DEF CloseAwaitDone, Cancelled
    <2> QED BY <2>1, <2>2, SamePlaces
  <1>25. ASSUME NEW g \in Clients, CloseDrain(g) PROVE [D!Next]_<<Status, Cancelled>>
    <2>1. PICK a \in Endpoints : a = Head(candidates)
      BY <1>25, DrainStep DEF Settled, FromTracker, Handed
    <2>2. /\ UNCHANGED <<ctxErr, fed, wpc, waddr, werr, owned>>
          /\ ClientHolds("release")' = ClientHolds("release")
          /\ ClientHolds("check")' = ClientHolds("check")
          /\ Cancelled
      BY <1>25 DEF CloseDrain, ClientGoto, TypeOK, ClientHolds, Shutdown
    <2>3. /\ a \in QueueHolds /\ QueueHolds' = QueueHolds \ {a}
          /\ CollectorHolds' = CollectorHolds
          /\ \A w \in Busy : waddr[w] # a
      BY <1>25, <2>1, DrainStep
    <2>4. a \in InBudget /\ a \notin Trying
      BY <2>3 DEF InBudget, Trying, WorkerAt, Busy
    <2>5. a \notin InBudget'
      <3>1. a \notin CollectorHolds \cup ClientHolds("release") \cup WorkerHolds
        BY <2>3 DEF SingleHolder, ClientHolds, Holding, WorkerHolds, Attempting, Busy
      <3> QED BY <2>2, <2>3, <3>1 DEF InBudget, WorkerHolds, Attempting
    <2>6. a \notin New' \cup ClientHolds("check")' \cup owned'
      <3>1. a \notin New \cup ClientHolds("check") \cup owned
        BY <2>3 DEF New, WorkerAt, SingleHolder, ClientHolds, Holding, Busy
      <3>2. New' = New
        BY <2>2 DEF New, Unfed, WorkerAt
      <3> QED BY <2>2, <3>1, <3>2
    <2>7. OnlyMoves(a)
      BY <2>2, <2>3 DEF OnlyMoves, New, Unfed, WorkerAt, Trying, InBudget, WorkerHolds, Attempting
    <2>8. StatusOf(a) = "waiting" /\ StatusOf(a)' = "gone"
      BY <2>4, <2>5, <2>6, <1>a DEF StatusFits
    <2>9. Status' = [Status EXCEPT ![a] = "gone"]
      BY <2>7, <2>8, OneMoves
    <2> QED BY <2>2, <2>8, <2>9 DEF D!Next, D!Drop, D!Move, Status, Cancelled
  <1>26. ASSUME NEW g \in Clients, CloseReturn(g) PROVE [D!Next]_<<Status, Cancelled>>
    <2>1. Places' = Places
      BY <1>26 DEF CloseReturn, ReceiveNotOk, ClientGoto, Places, New, Unfed, WorkerAt, Trying,
         InBudget, WorkerHolds, Attempting, CollectorHolds, QueueHolds, ClientHolds, TypeOK
    <2>2. Cancelled' = Cancelled
      BY <1>26 DEF CloseReturn, Cancelled
    <2> QED BY <2>1, <2>2, SamePlaces
  <1>27. ASSUME NEW g \in Clients, CloseAwaitOnce(g) PROVE [D!Next]_<<Status, Cancelled>>
    <2>1. Places' = Places
      BY <1>27 DEF CloseAwaitOnce, ClientGoto, Places, New, Unfed, WorkerAt, Trying, InBudget,
         WorkerHolds, Attempting, CollectorHolds, QueueHolds, ClientHolds, TypeOK
    <2>2. Cancelled' = Cancelled
      BY <1>27 DEF CloseAwaitOnce, Cancelled
    <2> QED BY <2>1, <2>2, SamePlaces
  <1>28. CASE UNCHANGED vars
    <2>1. Places' = Places
      BY <1>28 DEF vars, Places, New, Unfed, WorkerAt, Trying, InBudget, WorkerHolds,
         Attempting, CollectorHolds, QueueHolds, ClientHolds
    <2> QED BY <1>28, <2>1, SamePlaces DEF vars, Cancelled
  <1> QED
    BY <1>1, <1>2, <1>3, <1>4, <1>5, <1>6, <1>7, <1>8, <1>9, <1>10, <1>11, <1>12, <1>13, <1>14,
       <1>15, <1>16, <1>17, <1>18, <1>19, <1>20, <1>21, <1>22, <1>23, <1>24, <1>25, <1>26, <1>27, <1>28
    DEF Next, Feeder, Worker, Collector, InCall

\* The goroutines of the pool implement Discovery: an endpoint is tried at most
\* once and within the budget, nothing is dropped before a cancellation but a
\* failed attempt, and nothing is claimed after one that Next could see.
THEOREM PoolImplementsDiscovery == Spec => ImplementsDiscovery
  <1>1. Init => D!Init
    <2> SUFFICES ASSUME Init PROVE D!Init
      OBVIOUS
    <2>1. \A a \in Endpoints : StatusOf(a) = "new"
      <3>1. Unfed = Endpoints
        BY LenNat DEF Init, Unfed, Endpoints
      <3>2. TypeInv /\ SingleHolder
        BY InitTypeInv, InitSingleHolder
      <3> QED BY <3>1, <3>2, StatusAt DEF StatusFits, New
    <2> QED BY <2>1 DEF D!Init, Init, Cancelled
  <1>2. TypeInv /\ SingleHolder /\ SlotAccounting /\ Shutdown /\ Settled /\ [Next]_vars
            => [D!Next]_<<[a \in Endpoints |-> StatusOf(a)], Cancelled>>
    BY NextDiscovery DEF Status
  <1> QED BY <1>1, <1>2, LifeInv, SlotsAccounted, PTL DEF Spec, ImplementsDiscovery, D!Spec
=============================================================================
