-------------------------- MODULE FileReaderEvents --------------------------
(***************************************************************************)
(* What a FileReader promises a script: the states of a reader and the     *)
(* events of one read.  A read fires at most one loadstart, then progress  *)
(* events, the last of them before load; it ends with one of load, error   *)
(* and abort, never two, and then at most one loadend.  Progress is only   *)
(* seen while the reader is loading, an end only when it is done.  A new   *)
(* read, allowed whenever the reader is not loading, starts over: nothing  *)
(* of the old read is seen after it.                                       *)
(*                                                                         *)
(* This is the abstract specification that FileReaderAsync implements.     *)
(***************************************************************************)
CONSTANT Readers

VARIABLES
    state,   \* readyState
    result,  \* the reader has a result
    error,   \* the reader has an error
    last     \* the last event of the current read, or "none"

vars == <<state, result, error, last>>

Init ==
    /\ state = [r \in Readers |-> "empty"]
    /\ result = [r \in Readers |-> FALSE]
    /\ error = [r \in Readers |-> FALSE]
    /\ last = [r \in Readers |-> "none"]

Becomes(r, s, hasResult, hasError, event) ==
    /\ state' = [state EXCEPT ![r] = s]
    /\ result' = [result EXCEPT ![r] = hasResult]
    /\ error' = [error EXCEPT ![r] = hasError]
    /\ last' = [last EXCEPT ![r] = event]

\* A read that cannot be started fails at once.
Start(r) ==
    /\ state[r] # "loading"
    /\ \/ Becomes(r, "loading", FALSE, FALSE, "none")
       \/ Becomes(r, "done", FALSE, TRUE, "none")

Ends(r) ==
    /\ state[r] = "loading"
    /\ \/ last[r] = "progress" /\ Becomes(r, "done", TRUE, FALSE, last[r])
       \/ Becomes(r, "done", FALSE, TRUE, last[r])

\* abort() fires its event before it returns, unless the runtime is shut down.
Abort(r) ==
    IF state[r] = "loading"
    THEN \E event \in {"abort", last[r]} : Becomes(r, "done", FALSE, FALSE, event)
    ELSE Becomes(r, state[r], FALSE, error[r], last[r])

Going == {"none", "loadstart", "progress"}

MayFire(r, event) ==
    CASE event = "loadstart" -> state[r] = "loading" /\ last[r] = "none"
      [] event = "progress"  -> state[r] = "loading" /\ last[r] \in {"loadstart", "progress"}
      [] event = "load"      -> state[r] = "done" /\ ~error[r] /\ last[r] = "progress"
      [] event = "error"     -> state[r] = "done" /\ error[r] /\ last[r] \in Going
      [] event = "loadend"   -> state[r] = "done" /\ last[r] \in {"load", "error", "abort"}

Fire(r) ==
    \E event \in {"loadstart", "progress", "load", "error", "loadend"} :
        MayFire(r, event) /\ Becomes(r, state[r], result[r], error[r], event)

Next == \E r \in Readers : Start(r) \/ Ends(r) \/ Abort(r) \/ Fire(r)

Spec == Init /\ [][Next]_vars
=============================================================================
