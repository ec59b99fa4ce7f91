---------------------------- MODULE MCDomEvents -----------------------------
(* Model-checking instances of DomEvents.                                  *)
EXTENDS DomEvents, TLC

CONSTANTS c1, c2

\* Two functions that listen to abort, one of them also its on<type> handler.
TwoFunctions ==
    {[type |-> "abort", callback |-> c1, capture |-> FALSE],
     [type |-> "abort", callback |-> c2, capture |-> TRUE]}

OnAbort == {<<"abort", c1>>}
Aborts == {<<"abort", TRUE>>}

AbortTypes == {"abort", "loadend"}

\* No event object is unlike the others.
Perms == Permutations(Events)
=============================================================================
