-------------------------- MODULE RequestLifecycle --------------------------
(***************************************************************************)
(* What the serving engine promises of its requests, with no queues, no    *)
(* token budget and no steps: a submitted request waits, is admitted when  *)
(* there is room, emits its tokens one at a time and finishes with the     *)
(* last one.  At most Capacity requests run at a time.                     *)
(***************************************************************************)
EXTENDS Integers, FiniteSets

CONSTANTS Requests, MaxNewTokens, Capacity

VARIABLES
    phase,     \* where each request is in its life
    emitted    \* the number of tokens it has produced

vars == <<phase, emitted>>

In(p) == {r \in Requests : phase[r] = p}

Init ==
    /\ phase = [r \in Requests |-> "absent"]
    /\ emitted = [r \in Requests |-> 0]

Submit(r) ==
    /\ phase[r] = "absent"
    /\ phase' = [phase EXCEPT ![r] = "waiting"]
    /\ UNCHANGED emitted

Admit(r) ==
    /\ phase[r] = "waiting"
    /\ Cardinality(In("running")) < Capacity
    /\ phase' = [phase EXCEPT ![r] = "running"]
    /\ UNCHANGED emitted

(* Every request may produce a first token, even one that asked for none. *)
Emit(r) ==
    /\ phase[r] = "running"
    /\ emitted[r] = 0 \/ emitted[r] < MaxNewTokens[r]
    /\ emitted' = [emitted EXCEPT ![r] = @ + 1]
    /\ phase' = IF emitted[r] + 1 >= MaxNewTokens[r]
                THEN [phase EXCEPT ![r] = "finished"] ELSE phase

(* A request that asked for no token may end without one. *)
CompleteEmpty(r) ==
    /\ phase[r] = "running"
    /\ emitted[r] = 0 /\ MaxNewTokens[r] = 0
    /\ phase' = [phase EXCEPT ![r] = "finished"]
    /\ UNCHANGED emitted

ForgetAll ==
    /\ phase' = [r \in Requests |-> "absent"]
    /\ emitted' = [r \in Requests |-> 0]

Next ==
    \/ \E r \in Requests : Submit(r) \/ Admit(r) \/ Emit(r) \/ CompleteEmpty(r)
    \/ ForgetAll

Spec == Init /\ [][Next]_vars
=============================================================================
