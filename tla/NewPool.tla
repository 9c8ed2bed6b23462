------------------------------- MODULE NewPool ------------------------------
(***************************************************************************)
(* NewPool of internal/peerconn/pool.go before it starts its goroutines:   *)
(* validatePoolArguments, uniqueEndpoints and the channel sizes.  Module   *)
(* Pool starts from what is established here.                              *)
(***************************************************************************)
EXTENDS Integers, Sequences, FiniteSets

CONSTANTS
    Hosts,                  \* IPv4 endpoints
    maxConcurrentDials,     \* 4 in the code
    maxWaitingCandidates    \* 4 in the code

\* An endpoint is given in its IPv4 form or as the IPv6 address that maps it.
Endpoints == [host : Hosts, mapped : BOOLEAN]

VARIABLES
    addrs, MaxConcurrent, AttemptTimeout,   \* arguments
    ctxErr,                                 \* ctx.Err(), set by the caller's context
    pc, i, seen, unique,                    \* locals of uniqueEndpoints
    pool                                    \* sizes of the pool made

args == <<addrs, MaxConcurrent, AttemptTimeout>>
vars == <<args, ctxErr, pc, i, seen, unique, pool>>

NoPool == [candidates |-> 0, slots |-> 0, workers |-> 0]

Min2(x, y) == IF x < y THEN x ELSE y

Init ==
    /\ addrs = <<>> /\ MaxConcurrent = 0 /\ AttemptTimeout = 0
    /\ pc = "idle" /\ i = 1 /\ seen = {} /\ unique = <<>> /\ pool = NoPool

\* The call of NewPool with these arguments.
Call(a, options) ==
    /\ pc = "idle" /\ pc' = "validate"
    /\ addrs' = a /\ MaxConcurrent' = options.MaxConcurrent
    /\ AttemptTimeout' = options.AttemptTimeout
    /\ UNCHANGED <<ctxErr, i, seen, unique, pool>>

\* The switch of validatePoolArguments; callers in this program never pass a
\* nil context or dial function.
argumentsValid ==
    addrs # <<>> /\ MaxConcurrent \in 1..maxConcurrentDials /\ AttemptTimeout > 0

validatePoolArguments ==
    /\ pc = "validate"
    /\ pc' = IF argumentsValid /\ ctxErr = "nil" THEN "unique" ELSE "refused"
    /\ UNCHANGED <<args, ctxErr, i, seen, unique, pool>>

UnmapNothing(a) == a

Unmap(a) == [a EXCEPT !.mapped = FALSE]

\* One turn of the loop of uniqueEndpoints.
uniqueEndpoints ==
    /\ pc = "unique" /\ i <= Len(addrs) /\ i' = i + 1
    /\ LET addr == Unmap(addrs[i])
       IN  IF addr \in seen THEN UNCHANGED <<seen, unique>>
           ELSE seen' = seen \cup {addr} /\ unique' = Append(unique, addr)
    /\ UNCHANGED <<args, ctxErr, pc, pool>>

workerCount == Min2(MaxConcurrent, Len(unique))

\* Making the channels and starting the workers.
Make ==
    /\ pc = "unique" /\ i > Len(addrs) /\ pc' = "made"
    /\ pool' = [candidates |-> Min2(maxWaitingCandidates, Len(unique)),
                slots |-> maxWaitingCandidates, workers |-> workerCount]
    /\ UNCHANGED <<args, ctxErr, i, seen, unique>>

\* The steps of a call.
Next == validatePoolArguments \/ uniqueEndpoints \/ Make

-----------------------------------------------------------------------------
(* Properties.                                                             *)

\* What module Pool assumes of a pool, and what its caller expects: every host
\* is dialled, none twice although it may be listed both as an IPv4 and as a
\* mapped IPv6 address, in the order of first mention; there is a worker, at
\* most one per endpoint; and the candidates that the slots allow find room.
PoolPreconditions ==
    pc = "made" =>
        LET first(h) == CHOOSE k \in 1..Len(addrs) :
                            addrs[k].host = h /\ \A j \in 1..(k - 1) : addrs[j].host # h
        IN  /\ {unique[k].host : k \in 1..Len(unique)} = {addrs[k].host : k \in 1..Len(addrs)}
            /\ \A j, k \in 1..Len(unique) :
                   j < k => first(unique[j].host) < first(unique[k].host)
            /\ pool.workers \in 1..maxConcurrentDials /\ pool.workers <= Len(unique)
            /\ pool.candidates = Min2(pool.slots, Len(unique)) /\ pool.candidates > 0
=============================================================================
