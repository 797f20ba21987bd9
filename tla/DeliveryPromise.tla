--------------------------- MODULE DeliveryPromise ---------------------------
(***************************************************************************)
(* What a merchant is promised of the delivery of its events, whichever    *)
(* workers make it, however often they die and however late their leases   *)
(* lapse: an event that is owed is tried again until an attempt of it ends *)
(* the matter, the attempts that count are at most Limit, it is called     *)
(* delivered only if the merchant took it, and what has ended stays so.    *)
(* An event may be taken more than once: delivery is at least once.        *)
(***************************************************************************)
EXTENDS Integers

CONSTANTS
    Events,
    Limit              \* the attempts an event is worth

VARIABLES
    state,             \* how far each event is
    tries,             \* its attempts that count
    taken              \* the events the merchant took, as far as its answer arrived

vars == <<state, tries, taken>>

Init ==
    /\ state = [e \in Events |-> "absent"]
    /\ tries = [e \in Events |-> 0]
    /\ taken = {}

Owe ==
    /\ \E es \in SUBSET {e \in Events : state[e] = "absent"} :
          state' = [e \in Events |-> IF e \in es THEN "owed" ELSE state[e]]
    /\ UNCHANGED <<tries, taken>>

\* Even after the matter has ended, when an attempt that no longer counts is on its way.
Take(e) ==
    /\ state[e] # "absent"
    /\ taken' = taken \cup {e}
    /\ UNCHANGED <<state, tries>>

\* What one more attempt may make of the event.
Ends(e) ==
    {"refused"}
        \cup (IF e \in taken THEN {"delivered"} ELSE {})
        \cup (IF tries[e] + 1 < Limit THEN {"owed"} ELSE {"exhausted"})

Try(e) ==
    /\ state[e] = "owed"
    /\ tries[e] < Limit
    /\ tries' = [tries EXCEPT ![e] = tries[e] + 1]
    /\ \E s \in Ends(e) : state' = [state EXCEPT ![e] = s]
    /\ UNCHANGED taken

Next == Owe \/ \E e \in Events : Take(e) \/ Try(e)

Spec == Init /\ [][Next]_vars

=============================================================================
