----------------------------- MODULE ByteStream -----------------------------
(***************************************************************************)
(* What Blob.prototype.stream() and textStream() promise a script.  A      *)
(* stream hands the parts of its blob out one read() call each, in order   *)
(* and without gaps, to the calls in the order they came; when all parts   *)
(* are out, the waiting calls and all later ones are told that it is done. *)
(* A script may cancel it, which ends it early; an error ends it early too *)
(* and is reported to every waiting and every later call.  The promises of *)
(* one stream settle in the order of the calls, each once.  A runtime that *)
(* shuts down forgets the waiting calls.                                   *)
(*                                                                         *)
(* This is the abstract specification that BlobStream implements.          *)
(***************************************************************************)
EXTENDS Naturals

CONSTANTS Streams, Calls, Yields  \* Calls and Yields are sets of numbers

VARIABLES
    state,    \* of each stream
    yield,    \* the number of parts its blob has
    given,    \* parts handed to calls so far
    reads,    \* the stream a call reads, or NoStream
    outcome,  \* what a call has been answered, or Waiting
    settled   \* the calls whose promise settled

vars == <<state, yield, given, reads, outcome, settled>>

NoStream == 0
Answer(is, part) == [is |-> is, part |-> part]
Waiting == Answer("waiting", 0)
Done == Answer("done", 0)
Failed == Answer("error", 0)

Init ==
    /\ state = [s \in Streams |-> "unopened"]
    /\ yield = [s \in Streams |-> 0]
    /\ given = [s \in Streams |-> 0]
    /\ reads = [c \in Calls |-> NoStream]
    /\ outcome = [c \in Calls |-> Waiting]
    /\ settled = {}

Open(s) ==
    /\ state[s] = "unopened"
    /\ state' = [state EXCEPT ![s] = "readable"]
    /\ \E n \in Yields : yield' = [yield EXCEPT ![s] = n]
    /\ UNCHANGED <<given, reads, outcome, settled>>

\* Calls are numbered as they come.
Made(c, s) ==
    /\ state[s] # "unopened" /\ reads[c] = NoStream
    /\ \A earlier \in Calls : earlier < c => reads[earlier] # NoStream
    /\ reads' = [reads EXCEPT ![c] = s]

\* The answer of a stream to a new call.
Call(c, s) ==
    /\ Made(c, s)
    /\ outcome' = [outcome EXCEPT ![c] =
          CASE state[s] = "readable" -> Waiting
            [] state[s] = "errored"  -> Failed
            [] state[s] = "ended"    -> Done]
    /\ UNCHANGED <<state, yield, given, settled>>

\* The call itself breaks the stream.
CallFails(c, s) ==
    /\ Made(c, s) /\ state[s] = "readable"
    /\ state' = [state EXCEPT ![s] = "errored"]
    /\ outcome' = [d \in Calls |->
          IF reads'[d] = s /\ outcome[d] = Waiting THEN Failed ELSE outcome[d]]
    /\ UNCHANGED <<yield, given, settled>>

Waits(s) == {c \in Calls : reads[c] = s /\ outcome[c] = Waiting}

\* `parts` parts, 0 or 1, go to the oldest waiting call; the other waiting
\* calls are answered `rest` and the stream becomes `next`.
Advance(s, parts, rest, next) ==
    /\ state[s] = "readable"
    /\ parts = 1 => Waits(s) # {} /\ given[s] < yield[s]
    /\ state' = [state EXCEPT ![s] = next]
    /\ given' = [given EXCEPT ![s] = @ + parts]
    /\ outcome' = [c \in Calls |->
          IF c \notin Waits(s) THEN outcome[c]
          ELSE IF parts = 1 /\ \A other \in Waits(s) : c <= other
               THEN Answer("part", given[s] + 1)
               ELSE rest]
    /\ UNCHANGED <<yield, reads, settled>>

Deliver(s) == Advance(s, 1, Waiting, "readable")

\* The end comes after the last part, or with it (the tail of a text).
Finish(s) ==
    \E parts \in {0, 1} :
        given[s] + parts = yield[s] /\ Advance(s, parts, Done, "ended")

\* An error may follow a part at once: the next request was refused.
Fail(s) == \E parts \in {0, 1} : Advance(s, parts, Failed, "errored")

Cancel(s) == Advance(s, 0, Done, "ended")

ShutDown ==
    /\ state' = [s \in Streams |-> IF state[s] = "unopened" THEN "unopened" ELSE "ended"]
    /\ UNCHANGED <<yield, given, reads, outcome, settled>>

Settle(c) ==
    /\ outcome[c] # Waiting /\ c \notin settled
    /\ \A earlier \in Calls :
          earlier < c /\ reads[earlier] = reads[c] /\ outcome[earlier] # Waiting
          => earlier \in settled
    /\ settled' = settled \cup {c}
    /\ UNCHANGED <<state, yield, given, reads, outcome>>

Next ==
    \/ \E s \in Streams :
          \/ Open(s) \/ Deliver(s) \/ Finish(s) \/ Fail(s) \/ Cancel(s)
          \/ \E c \in Calls : Call(c, s) \/ CallFails(c, s)
    \/ \E c \in Calls : Settle(c)
    \/ ShutDown

Spec == Init /\ [][Next]_vars
=============================================================================
