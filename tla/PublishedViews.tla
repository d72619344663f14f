--------------------------- MODULE PublishedViews ---------------------------
(***************************************************************************)
(* What a relay promises its viewers: each one shows a published state or  *)
(* none, and moves forward through them, by itself and by as many as it    *)
(* likes, unless it is cleared.                                            *)
(***************************************************************************)
EXTENDS Integers

VARIABLES
    published,   \* the number of the last published state
    shown        \* for every viewer the state it shows, 0 for none

Init == published = 0 /\ shown = [v \in DOMAIN shown |-> 0]

Publish == published' = published + 1 /\ UNCHANGED shown

Advance(v) ==
    /\ \E n \in shown[v] + 1 .. published : shown' = [shown EXCEPT ![v] = n]
    /\ UNCHANGED published

Clear(v) == shown' = [shown EXCEPT ![v] = 0] /\ UNCHANGED published

Next == Publish \/ \E v \in DOMAIN shown : Advance(v) \/ Clear(v)

Spec == Init /\ [][Next]_<<published, shown>>
=============================================================================
