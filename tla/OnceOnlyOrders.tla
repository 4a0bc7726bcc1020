--------------------------- MODULE OnceOnlyOrders ---------------------------
(***************************************************************************)
(* What the execution side promises of every approved order intent         *)
(* (docs/development/status.md:165, docs/runbooks/disaster-recovery.md:8): *)
(* the broker holds at most one order for it, ever, and only for an intent *)
(* that was approved.  ExecutionAgent with a broker is to implement this.  *)
(***************************************************************************)
EXTENDS Naturals

CONSTANTS Keys      \* idempotency keys, one per intent

VARIABLES
    approved,       \* keys of the intents approved so far
    placed          \* placed[k]: orders the broker holds under k

onceVars == <<approved, placed>>

Init == approved = {} /\ placed = [k \in Keys |-> 0]

Approve(k) == approved' = approved \cup {k} /\ UNCHANGED placed

Place(k) ==
    /\ k \in approved
    /\ placed[k] = 0
    /\ placed' = [placed EXCEPT ![k] = 1]
    /\ UNCHANGED approved

Next == \E k \in Keys : Approve(k) \/ Place(k)

Spec == Init /\ [][Next]_onceVars
=============================================================================
