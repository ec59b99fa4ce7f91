----------------------------- MODULE AtomicReads -----------------------------
(***************************************************************************)
(* What a registered file promises its readers.  Registration takes a      *)
(* snapshot of the file; others may write to the file at any time.  A read *)
(* of many chunks and system calls, with other people's writes in between, *)
(* happens as if at one instant: the instant it succeeds, the file is      *)
(* still the one that was registered, and the read returns all of it.  It  *)
(* may fail at any time.  An id stands for one file for ever, a closed id  *)
(* is never opened again, and a read that begins after the close fails;    *)
(* only an empty file, of which there is nothing to read, is not looked at.*)
(*                                                                         *)
(* This is the abstract specification that FileSources implements.         *)
(***************************************************************************)
EXTENDS Naturals

CONSTANTS Files, Ids, Workers, Unused  \* Unused: no file under this id yet

VARIABLES
    file,    \* what the host holds: name, version and size of each file
    issued,  \* the snapshot an id stands for, or Unused
    open,    \* ids that may be read
    call     \* what each worker reads, and what came of it

vars == <<file, issued, open, call>>

\* The content of a snapshot: each piece carries the version it is of.
Whole(snapshot) == [i \in 1 .. snapshot.size |-> snapshot.version]

Call(id, late, status, value) ==
    [id |-> id, late |-> late, status |-> status, value |-> value]

Init ==
    /\ \A f \in Files : file[f].name = f
    /\ issued = [id \in Ids |-> Unused]
    /\ open = {}
    /\ \E id \in Ids : call = [w \in Workers |-> Call(id, FALSE, "failed", << >>)]

\* A write leaves a later version, of any size.
Write(f) ==
    /\ file' = [file EXCEPT ![f] = file'[f]]
    /\ file'[f].name = f /\ file'[f].version > file[f].version
    /\ UNCHANGED <<issued, open, call>>

Register(f) ==
    \E id \in Ids :
        /\ issued[id] = Unused
        /\ issued' = [issued EXCEPT ![id] = file[f]]
        /\ open' = open \cup {id}
        /\ UNCHANGED <<file, call>>

Close ==
    /\ open' \subseteq open
    /\ UNCHANGED <<file, issued, call>>

Begin(w, id) ==
    /\ call[w].status # "reading"
    /\ issued[id] # Unused
    /\ call' = [call EXCEPT ![w] = Call(id, id \notin open, "reading", << >>)]
    /\ UNCHANGED <<file, issued, open>>

\* The instant of the read.
Succeed(w) ==
    LET snapshot == issued[call[w].id]
    IN  /\ call[w].status = "reading"
        /\ \/ file[snapshot.name] = snapshot /\ ~call[w].late
           \/ snapshot.size = 0
        /\ call' = [call EXCEPT ![w] = Call(@.id, @.late, "ok", Whole(snapshot))]
        /\ UNCHANGED <<file, issued, open>>

Fail(w) ==
    /\ call[w].status = "reading"
    /\ call' = [call EXCEPT ![w] = Call(@.id, @.late, "failed", << >>)]
    /\ UNCHANGED <<file, issued, open>>

Next ==
    \/ \E f \in Files : Write(f) \/ Register(f)
    \/ Close
    \/ \E w \in Workers :
          \/ Succeed(w) \/ Fail(w)
          \/ \E id \in Ids : Begin(w, id)

Spec == Init /\ [][Next]_vars
=============================================================================
