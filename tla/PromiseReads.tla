---------------------------- MODULE PromiseReads ----------------------------
(***************************************************************************)
(* What Blob.prototype.text(), arrayBuffer() and bytes() promise a script: *)
(* every call returns a pending promise.  A call the I/O layer refuses can *)
(* only be rejected.  The results of accepted calls are delivered in the   *)
(* order of acceptance, however late the I/O of an early call completes,   *)
(* and each promise settles once:                                          *)
(*   - a call whose bytes are ready settles after every earlier call whose *)
(*     bytes were ready; a later success never overtakes an earlier one;   *)
(*   - a call that failed is rejected after every earlier accepted call;   *)
(*     later successes may overtake it.                                    *)
(*                                                                         *)
(* This is the abstract specification that FileIoRuntime implements.       *)
(***************************************************************************)
EXTENDS Naturals

CONSTANTS
    Reads,   \* the calls
    Places   \* places in the order of acceptance, a set of positive naturals

VARIABLES
    promise,   \* the state of the promise each call returned
    position,  \* place in the order of acceptance, 0 when never accepted
    result     \* the result that was delivered to an accepted call

vars == <<promise, position, result>>

Settled == {"resolved", "rejected"}

Init ==
    /\ promise = [r \in Reads |-> "none"]
    /\ position = [r \in Reads |-> 0]
    /\ result = [r \in Reads |-> "none"]

Accept(r) ==
    /\ promise[r] = "none"
    /\ promise' = [promise EXCEPT ![r] = "pending"]
    /\ \E place \in Places :
          /\ \A q \in Reads : position[q] < place
          /\ position' = [position EXCEPT ![r] = place]
    /\ UNCHANGED result

Refuse(r) ==
    /\ promise[r] = "none"
    /\ promise' = [promise EXCEPT ![r] = "pending"]
    /\ UNCHANGED <<position, result>>

Earlier(r) == {q \in Reads : 0 < position[q] /\ position[q] < position[r]}

Deliver(r) ==
    /\ promise[r] = "pending" /\ position[r] > 0 /\ result[r] = "none"
    /\ \A q \in Earlier(r) : result[q] # "none"
    /\ \E delivered \in {"ready", "failed"} :
          result' = [result EXCEPT ![r] = delivered]
    /\ UNCHANGED <<promise, position>>

\* What the state of the other promises allows r to become.
Outcome(r) ==
    CASE position[r] = 0     -> {"rejected"}
      [] result[r] = "ready" ->
           {s \in Settled : \A q \in Earlier(r) : result[q] = "ready" => promise[q] \in Settled}
      [] result[r] = "failed" ->
           {s \in {"rejected"} : \A q \in Earlier(r) : promise[q] \in Settled}
      [] OTHER -> {}

Settle(r) ==
    /\ promise[r] = "pending"
    /\ \E s \in Outcome(r) : promise' = [promise EXCEPT ![r] = s]
    /\ UNCHANGED <<position, result>>

Next == \E r \in Reads : Accept(r) \/ Refuse(r) \/ Deliver(r) \/ Settle(r)

Spec == Init /\ [][Next]_vars
=============================================================================
