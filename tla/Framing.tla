------------------------------- MODULE Framing ------------------------------
(***************************************************************************)
(* What the peer wire promises: frames are delivered whole, unchanged and  *)
(* in the order in which they were sent, a frame cut short never, and a    *)
(* stream is called malformed only because of the very frame that is next. *)
(***************************************************************************)
EXTENDS Naturals, Sequences

CONSTANTS Frames, Malformed     \* Malformed stands for a frame against the rules

VARIABLES
    sent,       \* frames whose sending has begun
    whole,      \* how many of them have been sent completely
    received,   \* frames delivered
    state       \* "open", "malformed" or "broken"

vars == <<sent, whole, received, state>>

Init == sent = <<>> /\ whole = 0 /\ received = <<>> /\ state = "open"

Upcoming == sent[Len(received) + 1]

Send(f) ==
    /\ whole = Len(sent)
    /\ sent' = Append(sent, f)
    /\ UNCHANGED <<whole, received, state>>

Finish ==
    /\ whole < Len(sent)
    /\ whole' = whole + 1
    /\ UNCHANGED <<sent, received, state>>

Deliver ==
    /\ state = "open" /\ Len(received) < whole /\ Upcoming # Malformed
    /\ received' = Append(received, Upcoming)
    /\ UNCHANGED <<sent, whole, state>>

Refuse ==
    /\ state = "open" /\ Len(received) < Len(sent) /\ Upcoming = Malformed
    /\ state' = "malformed"
    /\ UNCHANGED <<sent, whole, received>>

Break == state = "open" /\ state' = "broken" /\ UNCHANGED <<sent, whole, received>>

Next == (\E f \in Frames : Send(f)) \/ Finish \/ Deliver \/ Refuse \/ Break

Spec == Init /\ [][Next]_vars
=============================================================================
