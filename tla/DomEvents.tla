----------------------------- MODULE DomEvents ------------------------------
(***************************************************************************)
(* EventTarget and its events (crates/boa_fapi/src/dom.rs) together with   *)
(* the three ways in which a FileReader fires its own events               *)
(* (filereader.rs).                                                        *)
(*                                                                         *)
(* A dispatch copies the listeners, then calls the on<type> handler and    *)
(* the copies one after another.  A callback may add and remove listeners, *)
(* mark the event, dispatch it again or start another dispatch, so "stack" *)
(* holds a frame for each dispatch under way, the innermost first.         *)
(*                                                                         *)
(* Data that is abstracted: an event's name, its progress numbers and its  *)
(* time stamp; what an exception carries.                                  *)
(***************************************************************************)
EXTENDS Naturals, Sequences, FiniteSets, SequencesExt

CONSTANTS
    Targets,        \* objects with the EventTarget brand
    Readers,        \* those that are FileReaders
    Callbacks,      \* functions of the script
    Types,          \* event types
    Offered,        \* the listeners the script may register
    Assigned,       \* the on<type> properties it may set, with their functions
    Made,           \* the events it may make: type and cancelable
    Events,         \* event objects that exist at a time
    Spare,          \* bound: how many of them the script leaves to FileReaders
    MaxDepth,       \* bound: dispatches within dispatches
    MaxDispatches,  \* bound: dispatches that one leads to, itself included
    MaxReports,     \* bound: jobs that report and wait when another dispatch begins
    None            \* no object

Entry == [type : Types, callback : Callbacks, capture : BOOLEAN]

ASSUME DomAssumption ==
    /\ Readers \subseteq Targets /\ Offered \subseteq Entry
    /\ Assigned \subseteq Types \X Callbacks /\ Made \subseteq Types \X BOOLEAN
    /\ {"abort", "loadend"} \subseteq Types
    /\ None \notin Callbacks \cup Nat
    /\ MaxDepth \in Nat /\ MaxDispatches \in Nat /\ MaxReports \in Nat
    /\ IsFiniteSet(Events) /\ Spare \in Nat

VARIABLES
    listeners,  \* EventTargetNative.listeners, FileReaderNative.listeners
    handler,    \* the on<type> properties
    event,      \* EventNative or ProgressEventNative of each event object
    stack,      \* dispatches under way
    shut,       \* the shutdown flag
    reports,    \* jobs that will report a listener's exception
    started,    \* dispatches since none was under way
    owed        \* history: dispatches of a FileReader in which a callback threw and
                \* that have no job yet

vars == <<listeners, handler, event, stack, shut, reports, started, owed>>

Event == [type : Types, cancelable : BOOLEAN, prevented : BOOLEAN, stopped : BOOLEAN,
          target : Targets \cup {None}]

ASSUME NoneAssumption == None \notin Event

\* A dispatch: the listeners it copied, the one it is at (0 is the handler), the
\* exception it kept; and as history all that were called and the first that threw.
Frame == [target : Targets, event : Events, copied : Seq(Entry), at : Nat,
          running : BOOLEAN, thrown : Nat \cup {None}, by : {"script", "reader", "abort"},
          called : Seq(Entry), first : Nat \cup {None}]

TypeOK ==
    /\ listeners \in [Targets -> Seq(Entry)]
    /\ handler \in [Targets -> [Types -> Callbacks \cup {None}]]
    /\ event \in [Events -> Event \cup {None}]
    /\ stack \in Seq(Frame)
    /\ \A i \in DOMAIN stack : event[stack[i].event] # None
    /\ shut \in BOOLEAN
    /\ reports \in Nat /\ owed \in Nat /\ started \in Nat

Init ==
    /\ listeners = [t \in Targets |-> << >>]
    /\ handler = [t \in Targets |-> [type \in Types |-> None]]
    /\ event = [e \in Events |-> None]
    /\ stack = << >>
    /\ shut = FALSE
    /\ reports = 0 /\ owed = 0 /\ started = 0

-----------------------------------------------------------------------------
(* What the script does, at top level or inside a callback.                *)

ScriptRuns == stack # << >> => Head(stack).running

\* same_tuple.
IsListed(t, entry) == \E i \in DOMAIN listeners[t] : listeners[t][i] = entry

\* addEventListener, add_reader_listener.
AddListener(t, entry) ==
    /\ ScriptRuns
    /\ ~IsListed(t, entry)
    /\ listeners' = [listeners EXCEPT ![t] = Append(@, entry)]
    /\ UNCHANGED <<handler, event, stack, shut, reports, started, owed>>

\* removeEventListener, remove_reader_listener: the first entry that matches.
RemoveListener(t, entry) ==
    /\ ScriptRuns
    /\ \E i \in DOMAIN listeners[t] :
          /\ listeners[t][i] = entry
          /\ \A j \in 1 .. i - 1 : listeners[t][j] # entry
          /\ listeners' = [listeners EXCEPT ![t] = RemoveAt(@, i)]
    /\ UNCHANGED <<handler, event, stack, shut, reports, started, owed>>

\* The script assigns target.on<type>.
SetHandler(t, type, callback) ==
    /\ ScriptRuns
    /\ handler' = [handler EXCEPT ![t][type] = callback]
    /\ UNCHANGED <<listeners, event, stack, shut, reports, started, owed>>

NewNative(type, cancelable, target) ==
    [type |-> type, cancelable |-> cancelable, prevented |-> FALSE, stopped |-> FALSE,
     target |-> target]

\* Where a new event object goes.
Unused == {e \in Events : event[e] = None}

\* new Event(), new ProgressEvent().
NewEvent(e, type, cancelable) ==
    /\ ScriptRuns /\ e \in Unused /\ Cardinality(Unused) > Spare
    /\ event' = [event EXCEPT ![e] = NewNative(type, cancelable, None)]
    /\ UNCHANGED <<listeners, handler, stack, shut, reports, started, owed>>

\* A dispatch roots its event.
InDispatch(e) == \E i \in DOMAIN stack : stack[i].event = e

\* Nobody holds the event any more.
DropEvent(e) ==
    /\ event[e] # None /\ ~InDispatch(e)
    /\ event' = [event EXCEPT ![e] = None]
    /\ UNCHANGED <<listeners, handler, stack, shut, reports, started, owed>>

\* preventDefault.
Prevents(native) == [native EXCEPT !.prevented = native.prevented \/ native.cancelable]

PreventDefault(e) ==
    /\ ScriptRuns /\ event[e] # None
    /\ event' = [event EXCEPT ![e] = Prevents(event[e])]
    /\ UNCHANGED <<listeners, handler, stack, shut, reports, started, owed>>

StopImmediatePropagation(e) ==
    /\ ScriptRuns /\ event[e] # None
    /\ event' = [event EXCEPT ![e] = [event[e] EXCEPT !.stopped = TRUE]]
    /\ UNCHANGED <<listeners, handler, stack, shut, reports, started, owed>>

ShutDown ==
    /\ ScriptRuns /\ ~shut
    /\ shut' = TRUE
    /\ UNCHANGED <<listeners, handler, event, stack, reports, started, owed>>

-----------------------------------------------------------------------------
(* Dispatch.                                                               *)

\* Where the listeners of a type stand in the list of an object.
Places(t, type) == {i \in DOMAIN listeners[t] : listeners[t][i].type = type}

\* These places in ascending order: a set of one sequence.
InOrder(places) ==
    {at \in [1 .. Cardinality(places) -> places] :
        \A j, k \in 1 .. Cardinality(places) : j < k => at[j] < at[k]}

\* The listeners of a type in the order of the list: a set of one sequence.
Matching(t, type) ==
    {[k \in 1 .. Cardinality(Places(t, type)) |-> listeners[t][at[k]]] :
        at \in InOrder(Places(t, type))}

\* target_listeners, reader_listeners: the dispatch copies the list.
NewFrame(t, e, copied, by) ==
    [target |-> t, event |-> e, copied |-> copied, at |-> 0, running |-> FALSE,
     thrown |-> None, by |-> by, called |-> << >>, first |-> None]

\* Mutant: the dispatch looks at the list instead of its copy.
DueNow(frame, native) == CHOOSE now \in Matching(frame.target, native.type) : TRUE

\* The listeners that invoke_event goes through.
Due(frame, native) == frame.copied

\* event_stopped is asked before each listener.
GoesOn(native) == ~native.stopped

\* The loop over the listeners is at its n-th.
Advance(frame, native, n) ==
    LET due == Due(frame, native)
    IN IF n \in DOMAIN due /\ GoesOn(native)
       THEN [frame EXCEPT !.at = n, !.running = TRUE, !.called = Append(frame.called, due[n])]
       ELSE [frame EXCEPT !.at = n, !.running = FALSE]

\* invoke_event calls the handler first, if it is a function, whatever marks the
\* event already has.
Begun(frame, native) ==
    IF handler[frame.target][native.type] # None
    THEN [frame EXCEPT !.running = TRUE]
    ELSE Advance(frame, native, 1)

\* The bounds.
Room ==
    /\ Len(stack) < MaxDepth /\ started < MaxDispatches
    /\ stack = << >> => reports <= MaxReports

\* dispatchEvent, retarget_event.
DispatchEvent(t, e) ==
    /\ ScriptRuns /\ event[e] # None /\ Room
    /\ event' = [event EXCEPT ![e] = [event[e] EXCEPT !.target = t]]
    /\ \E copied \in Matching(t, event[e].type) :
          stack' = <<Begun(NewFrame(t, e, copied, "script"), event[e])>> \o stack
    /\ started' = started + 1
    /\ UNCHANGED <<listeners, handler, shut, reports, owed>>

\* create_progress_event and the dispatch that follows it; "kept" is an exception
\* that is kept already.
Fires(t, e, type, by, kept, below) ==
    /\ ~shut
    /\ LET native == NewNative(type, FALSE, t)
           Opened(copied) == [NewFrame(t, e, copied, by) EXCEPT !.thrown = kept]
       IN /\ event' = [event EXCEPT ![e] = native]
          /\ \E copied \in Matching(t, type) : stack' = <<Begun(Opened(copied), native)>> \o below
    /\ UNCHANGED <<listeners, handler, shut>>

\* dispatch_event_now, run_dispatch, from a job.
ReaderFires(t, e, type) ==
    /\ stack = << >> /\ e \in Unused /\ Room
    /\ Fires(t, e, type, "reader", None, stack)
    /\ started' = started + 1
    /\ UNCHANGED <<reports, owed>>

\* dispatch_terminal_now, inside abort().
Abort(t, e) ==
    /\ ScriptRuns /\ e \in Unused /\ Room
    /\ Fires(t, e, "abort", "abort", None, stack)
    /\ started' = started + 1
    /\ UNCHANGED <<reports, owed>>

FirstThrown(frame, throws) ==
    IF throws /\ frame.first = None THEN frame.at ELSE frame.first

\* Mutant: a later exception replaces the one that was kept.
KeepsLast(frame, throws) == IF throws THEN frame.at ELSE frame.thrown

\* The first exception is kept.
Keeps(frame, throws) == IF throws /\ frame.thrown = None THEN frame.at ELSE frame.thrown

\* A callback returns or throws; an exception of a dispatch it started may be one
\* it does not catch.  The loop goes on either way.
Return(throws) ==
    /\ stack # << >> /\ Head(stack).running
    /\ LET frame == Head(stack)
           after == [frame EXCEPT !.thrown = Keeps(frame, throws),
                                  !.first = FirstThrown(frame, throws)]
       IN /\ stack' = <<Advance(after, event[frame.event], frame.at + 1)>> \o Tail(stack)
          /\ owed' = IF throws /\ frame.thrown = None /\ frame.by # "script"
                     THEN owed + 1 ELSE owed
    /\ UNCHANGED <<listeners, handler, event, shut, reports, started>>

IsOver == stack # << >> /\ ~Head(stack).running

\* What dispatchEvent gives back: the exception it throws, or !defaultPrevented.
Outcome(frame) == [thrown |-> frame.thrown, allowed |-> ~event[frame.event].prevented]

\* The innermost dispatch is left.
Leave ==
    /\ stack' = Tail(stack)
    /\ started' = IF Tail(stack) = << >> THEN 0 ELSE started
    /\ UNCHANGED <<listeners, handler, shut>>

EndScript ==
    /\ IsOver /\ Head(stack).by = "script"
    /\ Leave
    /\ UNCHANGED <<event, reports, owed>>

\* Nobody keeps the event of a FileReader longer than its dispatch.
Forget == event' = [event EXCEPT ![Head(stack).event] = None]

\* enqueue_listener_error.
Reports(frame) ==
    IF frame.thrown = None THEN UNCHANGED <<reports, owed>>
    ELSE reports' = reports + 1 /\ owed' = owed - 1

EndReader ==
    /\ IsOver /\ Head(stack).by = "reader"
    /\ Reports(Head(stack))
    /\ Forget /\ Leave

IsAbort(frame) == frame.by = "abort" /\ event[frame.event].type = "abort"

\* Mutant: each of the two events reports its exception.
AbortContinuesReporting ==
    /\ IsOver /\ IsAbort(Head(stack))
    /\ Fires(Head(stack).target, Head(stack).event, "loadend", "abort", Head(stack).thrown, Tail(stack))
    /\ Reports(Head(stack)) /\ UNCHANGED started

\* abort is followed by loadend, before abort() returns, unless a handler has
\* started another read or shut the runtime down.  The exception of abort is
\* kept over one of loadend.
AbortContinues ==
    /\ IsOver /\ IsAbort(Head(stack))
    /\ Fires(Head(stack).target, Head(stack).event, "loadend", "abort", Head(stack).thrown, Tail(stack))
    /\ UNCHANGED <<reports, owed, started>>

EndAbort ==
    /\ IsOver /\ Head(stack).by = "abort"
    /\ IF shut THEN UNCHANGED <<reports, owed>> ELSE Reports(Head(stack))
    /\ Forget /\ Leave

\* The job that reports an exception throws it.
RunReport ==
    /\ stack = << >> /\ reports > 0
    /\ reports' = reports - 1
    /\ UNCHANGED <<listeners, handler, event, stack, shut, started, owed>>

-----------------------------------------------------------------------------
Script ==
    \/ \E t \in Targets, entry \in Offered : AddListener(t, entry) \/ RemoveListener(t, entry)
    \/ \E t \in Targets, assigned \in Assigned :
          SetHandler(t, assigned[1], assigned[2]) \/ SetHandler(t, assigned[1], None)
    \/ \E e \in Events, made \in Made : NewEvent(e, made[1], made[2])
    \/ \E e \in Events : DropEvent(e) \/ PreventDefault(e) \/ StopImmediatePropagation(e)
    \/ \E t \in Targets, e \in Events : DispatchEvent(t, e)
    \/ \E t \in Readers, e \in Events : Abort(t, e)
    \/ ShutDown

Job == RunReport \/ \E t \in Readers, e \in Events, type \in Types : ReaderFires(t, e, type)

Code == EndScript \/ EndReader \/ EndAbort \/ AbortContinues

Next == Script \/ Job \/ Code \/ \E throws \in BOOLEAN : Return(throws)

Spec == Init /\ [][Next]_vars

-----------------------------------------------------------------------------
(* Safety.                                                                 *)

\* A dispatch calls the listeners that were registered when it began, in the
\* order of registration, each once, whatever its callbacks add and remove
\* meanwhile (invoke_event, add_event_listener).
CallsWhatWasThere ==
    \A i \in DOMAIN stack :
        /\ IsPrefix(stack[i].called, stack[i].copied)
        /\ \A a, b \in DOMAIN stack[i].copied :
              stack[i].copied[a] = stack[i].copied[b] => a = b

\* A dispatch that is over has called every listener, unless one of them or an
\* earlier dispatch stopped the event.  dispatchEvent then throws if a callback
\* threw, and what the first one threw; it returns false only for an event that
\* may be prevented (dispatch_event: "only after every remaining listener ran").
EndsHonestly ==
    IsOver =>
        LET frame == Head(stack)
            native == event[frame.event]
        IN /\ frame.called = frame.copied \/ native.stopped
           /\ frame.by = "script" =>
                /\ Outcome(frame).thrown = frame.first
                /\ ~Outcome(frame).allowed => native.cancelable

\* Every dispatch of a FileReader in which callbacks threw is reported by one
\* job, abort and its loadend together by one, until the runtime is shut down
\* (run_dispatch, dispatch_terminal_now, enqueue_listener_error).
ReportedOnce ==
    ~shut => owed = Cardinality({i \in DOMAIN stack :
                                   stack[i].by # "script" /\ stack[i].thrown # None})
=============================================================================
