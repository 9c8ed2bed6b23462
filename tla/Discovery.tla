----------------------------- MODULE Discovery ------------------------------
(***************************************************************************)
(* What the candidate pool promises about each endpoint, without its       *)
(* goroutines and channels: an endpoint is tried at most once, attempts    *)
(* and unclaimed connections share a budget, nothing is dropped before a   *)
(* cancellation except an endpoint whose attempt failed, and nothing is    *)
(* handed over after one.                                                  *)
(***************************************************************************)
EXTENDS Integers, FiniteSets

CONSTANTS Endpoints, budget

VARIABLES status, cancelled

With(s) == {a \in Endpoints : status[a] = s}

Init == status = [a \in Endpoints |-> "new"] /\ cancelled = FALSE

Cancel == ~cancelled /\ cancelled' = TRUE /\ UNCHANGED status

Move(a, from, to) ==
    /\ status[a] = from
    /\ status' = [status EXCEPT ![a] = to]
    /\ UNCHANGED cancelled

\* A slot covers an attempt and the connection it yields until it is claimed.
Try(a) ==
    /\ Cardinality(With("trying") \cup With("waiting")) < budget
    /\ Move(a, "new", "trying")

Succeed(a) == Move(a, "trying", "waiting")
Fail(a) == Move(a, "trying", "gone")
Offer(a) == Move(a, "waiting", "handoff")
Claim(a) == ~cancelled /\ Move(a, "handoff", "claimed")
Drop(a) == cancelled /\ \E s \in {"new", "waiting", "handoff"} : Move(a, s, "gone")

Next ==
    \/ Cancel
    \/ \E a \in Endpoints : \/ Try(a) \/ Succeed(a) \/ Fail(a)
                            \/ Offer(a) \/ Claim(a) \/ Drop(a)

Spec == Init /\ [][Next]_<<status, cancelled>>
=============================================================================
