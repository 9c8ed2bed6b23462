----------------------------- MODULE PoolProps ------------------------------
(***************************************************************************)
(* What the pool promises, as invariants and temporal properties of Pool.  *)
(***************************************************************************)
EXTENDS Pool

\* Every variable stays in its range; the two buffered channels never hold
\* more than their capacity.
TypeOK ==
    /\ ctxErr \in {"nil", "canceled", "deadline"}
    /\ slots \in 0..maxWaitingCandidates
    /\ candidates \in Seq(Addrs)
    /\ open \in SUBSET Addrs
    /\ fed \in 0..N /\ jobsClosed \in BOOLEAN
    /\ wpc \in [Workers -> {"select", "acquire", "dial", "failed", "deliver",
                            "returned"}]
    /\ waddr \in [Workers -> Addrs \cup {None}]
    /\ werr \in [Workers -> AttemptErrs]
    /\ resultsClosed \in BOOLEAN
    /\ cpc \in {"recv", "queue", "closeCandidates", "closeDone", "returned"}
    /\ caddr \in Addrs \cup {None}
    /\ failures \in SUBSET Addrs /\ exhaustErr \in SUBSET Addrs
    /\ candidatesClosed \in BOOLEAN /\ done \in BOOLEAN
    /\ once \in {"new", "running", "done"}
    /\ gpc \in [Clients -> {"idle", "recv", "release", "check", "waitOnce",
                            "waitDone", "drain"}]
    /\ gaddr \in [Clients -> Addrs \cup {None}]
    /\ ret \in [Clients -> {"none", "candidate", "ctx", "exhausted"}]
    /\ reported \in [Clients -> SUBSET Addrs]
    /\ owned \in SUBSET Addrs

-----------------------------------------------------------------------------
(* Who holds a connection or an attempt.                                   *)

\* Workers between acquireSlot and the hand-over or release of the slot.
Attempting ==
    {w \in Workers : \/ wpc[w] \in {"dial", "failed"}
                     \/ wpc[w] = "deliver" /\ werr[w] = "nil"}
WorkerHolds == {waddr[w] : w \in Attempting}
CollectorHolds == IF cpc = "queue" THEN {caddr} ELSE {}
SeqRange(s) == {s[i] : i \in 1..Len(s)}
QueueHolds == SeqRange(candidates)
ClientHolds(pc) == {gaddr[g] : g \in {h \in Clients : gpc[h] = pc}}

\* Attempts and unclaimed connections that the slot budget has to cover.
InBudget == WorkerHolds \cup CollectorHolds \cup QueueHolds
                        \cup ClientHolds("release")

Unfed == {uniqueAddrs[i] : i \in (fed + 1)..N}
Busy == {w \in Workers : wpc[w] \in {"acquire", "dial", "failed", "deliver"}}
Holding == {g \in Clients : gpc[g] \in {"release", "check"}}

\* An endpoint is in one place at a time: not yet offered, with one worker, with
\* the collector, at one position of the candidates channel, with one call of
\* Next, or with the caller it was returned to.  Close, Next and the collector
\* therefore never act on the same connection.
SingleHolder ==
    /\ \A v, w \in Busy : waddr[v] = waddr[w] => v = w
    /\ \A g, h \in Holding : gaddr[g] = gaddr[h] => g = h
    /\ \A i, j \in 1..Len(candidates) : candidates[i] = candidates[j] => i = j
    /\ \A w \in Busy :
           /\ waddr[w] \notin Unfed /\ waddr[w] \notin CollectorHolds
           /\ waddr[w] \notin QueueHolds /\ waddr[w] \notin owned
           /\ \A g \in Holding : waddr[w] # gaddr[g]
    /\ \A g \in Holding :
           /\ gaddr[g] \notin Unfed /\ gaddr[g] \notin CollectorHolds
           /\ gaddr[g] \notin QueueHolds /\ gaddr[g] \notin owned
    /\ Unfed \cap CollectorHolds = {} /\ Unfed \cap QueueHolds = {}
    /\ Unfed \cap owned = {} /\ CollectorHolds \cap QueueHolds = {}
    /\ CollectorHolds \cap owned = {} /\ QueueHolds \cap owned = {}

\* The tokens in the slots channel are exactly the attempts and unclaimed
\* connections: every path of worker, collector, Next and Close releases the
\* slot it took once and only once, so releaseSlot never blocks and no slot
\* is lost.
SlotAccounting == slots = Cardinality(InBudget)

\* "A shared four-slot budget covers both attempts and unclaimed successful
\* connections": however the goroutines interleave, no more than
\* maxWaitingCandidates of them exist.
BudgetRespected == Cardinality(InBudget) <= maxWaitingCandidates

\* Connections somebody may still hand out, or has been handed.
Handed ==
    owned \cup CollectorHolds \cup QueueHolds \cup ClientHolds("release")
          \cup ClientHolds("check")

\* A connection is open only while an attempt, the collector, the channel, a
\* running Next or its caller has it: dial failures, cancelled deliveries and
\* cancelled calls of Next leak nothing.  And it stays open as long as one of
\* them may hand it out or has it: Close, the collector and a racing Next never
\* close what another holds.
OpenIffHeld == Handed \subseteq open /\ open \subseteq Handed \cup WorkerHolds

\* The send in collect never waits for capacity: the slot budget leaves room
\* in the candidates channel for every result the collector can receive.
CollectorNeverBlocks == cpc = "queue" => Len(candidates) < candidatesCap

\* When Next reports exhaustion, every endpoint was either handed to a caller
\* (possibly one still inside a concurrent Next) or appears in the joined
\* error, never both: no endpoint is skipped, lost, or missed because
\* exhaustErr was read before it was final.  (A cancellation after the report
\* may still close the candidate of that concurrent Next.)
ExhaustionComplete ==
    \A g \in Clients : ret[g] = "exhausted" =>
        /\ ~Cancelled => \A i \in 1..N :
               uniqueAddrs[i] \in owned \cup reported[g]
                   \cup ClientHolds("release") \cup ClientHolds("check")
        /\ reported[g] \cap (open \cup owned) = {}

\* Once Close has returned, every worker and the collector have returned, the
\* channel is empty, and the only open connections are those that callers own
\* or that a Next call overtaken by Close is about to settle.
CloseQuiesces ==
    once = "done" =>
        /\ WorkersReturned /\ cpc = "returned" /\ candidates = <<>>
        /\ open \subseteq owned \cup ClientHolds("release")
                                \cup ClientHolds("check")

-----------------------------------------------------------------------------
(* Refinement of Discovery.                                                *)

Endpoints == {uniqueAddrs[i] : i \in 1..N}
WorkerAt(pcs) == {waddr[w] : w \in {v \in Workers : wpc[v] \in pcs}}

\* The place of an endpoint in its life, read off the goroutines' state.
StatusOf(a) ==
    CASE a \in Unfed \cup WorkerAt({"acquire"}) -> "new"
      [] a \in WorkerAt({"dial", "failed"}) -> "trying"
      [] a \in InBudget \ WorkerAt({"dial", "failed"}) -> "waiting"
      [] a \in ClientHolds("check") -> "handoff"
      [] a \in owned -> "claimed"
      [] OTHER -> "gone"

D == INSTANCE Discovery
        WITH budget <- maxWaitingCandidates,
             status <- [a \in Endpoints |-> StatusOf(a)],
             cancelled <- Cancelled

\* Every step of feeder, workers, collector and callers is a step of Discovery
\* or leaves it unchanged: no endpoint is tried twice, handed out twice, handed
\* out after a cancellation that Next could see, or dropped before one.
ImplementsDiscovery == D!Spec

-----------------------------------------------------------------------------
(* Liveness, under FairSpec.                                               *)

\* Close always returns, also with every slot occupied, workers blocked on a
\* slot or on a delivery, and candidates that nobody claims.
CloseTerminates ==
    \A g \in Clients :
        gpc[g] \in {"waitOnce", "waitDone", "drain"} ~> gpc[g] = "idle"

\* A call of Next returns without help from any other call: endpoints that
\* fail give their slot back, and the end of discovery wakes every caller.
NextReturns == \A g \in Clients : gpc[g] = "recv" ~> gpc[g] = "idle"

\* After a cancellation every goroutine of the pool ends, whether or not
\* anybody calls Next or Close again.
GoroutinesExit == Cancelled ~> jobsClosed /\ WorkersReturned /\ done
=============================================================================
