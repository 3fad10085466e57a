-------------------------- MODULE SharedBlockPool --------------------------
(***************************************************************************)
(* What the paged KV cache promises its callers, with no free list, no     *)
(* reference counts and no prefix cache: every block has a set of holders. *)
(* A request acquires blocks once, some of them shared with requests that  *)
(* hold them at that moment and the others held by nobody; later it grows  *)
(* by blocks nobody holds, and gives everything back at once.              *)
(***************************************************************************)
CONSTANTS Requests, Blocks

VARIABLE holders   \* the requests each block belongs to

Held == {b \in Blocks : holders[b] # {}}
HoldsNothing(r) == \A b \in Blocks : r \notin holders[b]

(* The holdings when r joins the holders of the blocks in S. *)
Joined(r, S) == [b \in Blocks |-> IF b \in S THEN holders[b] \cup {r} ELSE holders[b]]

Init == holders = [b \in Blocks |-> {}]

(* Shared blocks stay with their holders; fresh ones get their first one. *)
Acquire(r, shared, fresh) ==
    /\ HoldsNothing(r)
    /\ shared \subseteq Held
    /\ fresh \cap Held = {}
    /\ holders' = Joined(r, shared \cup fresh)

Grow(r, b) ==
    /\ b \notin Held
    /\ holders' = Joined(r, {b})

Release(r) == holders' = [b \in Blocks |-> holders[b] \ {r}]

ReleaseAll == holders' = [b \in Blocks |-> {}]

Next ==
    \/ \E r \in Requests : \E shared, fresh \in SUBSET Blocks : Acquire(r, shared, fresh)
    \/ \E r \in Requests, b \in Blocks : Grow(r, b)
    \/ \E r \in Requests : Release(r)
    \/ ReleaseAll

Spec == Init /\ [][Next]_holders
=============================================================================
