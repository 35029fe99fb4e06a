----------------------------- MODULE PendingSet ------------------------------
(***************************************************************************)
(* What a task queue promises its callers, without its data structures:    *)
(* keys are marked pending, one at a time is taken for processing, a key   *)
(* marked while it is processed stays pending, nothing is marked after the *)
(* queue is closed, and no pending key is passed over for ever.            *)
(***************************************************************************)
CONSTANTS Keys, NoKey
VARIABLES pending, current, closed
psVars == <<pending, current, closed>>

Init == pending = {} /\ current = NoKey /\ closed = FALSE

Mark(k) == /\ ~closed
           /\ pending' = pending \cup {k}
           /\ UNCHANGED <<current, closed>>

Take(k) == /\ current = NoKey
           /\ k \in pending
           /\ current' = k
           /\ pending' = pending \ {k}
           /\ UNCHANGED closed

Finish == /\ current # NoKey
          /\ current' = NoKey
          /\ UNCHANGED <<pending, closed>>

Close == closed' = TRUE /\ UNCHANGED <<pending, current>>

Next == \/ \E k \in Keys : Mark(k) \/ Take(k)
        \/ Finish
        \/ Close

Safety == Init /\ [][Next]_psVars

Fairness == WF_psVars(Finish) /\ \A k \in Keys : SF_psVars(Take(k))

Spec == Safety /\ Fairness
=============================================================================
