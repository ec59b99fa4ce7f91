----------------------------- MODULE MCContexts ------------------------------
(* A page and a worker, and six extensions, the last two built without      *)
(* numbers.  The page's global object may have names of its own, refuse a   *)
(* name, or not give one back.                                              *)
EXTENDS Contexts

CONSTANTS c1, c2

Page == [environment |-> "Window", origin |-> "page", validOrigin |-> TRUE, shims |-> TRUE,
         url |-> TRUE, bridge |-> TRUE, limits |-> TRUE, reads |-> 2, urls |-> 2]
Worker == [Page EXCEPT !.environment = "DedicatedWorker", !.urls = 1]
Service == [Page EXCEPT !.environment = "ServiceWorker", !.url = FALSE]
Invalid == [Page EXCEPT !.limits = FALSE]
Built == <<Page, Worker, Service, Invalid, Page, Worker>>

Plain(owners, refused, kept) ==
    [owner |-> owners, refuses |-> refused, keeps |-> kept]
Clear == [n \in Names |-> "absent"]
HostedNames(c) ==
    IF c = c1
    THEN {Plain([Clear EXCEPT ![n] = "host"], {}, {}) : n \in {"URL", "FileList", "FileReaderSync"}}
         \cup {Plain(Clear, {n}, k) : n \in {"URL", "Event"}, k \in {{}, {"File"}, {"FileReaderSync"}}}
    ELSE {Plain(Clear, {}, {})}
HostedGlobals == [c \in Contexts |-> HostedNames(c)]
=============================================================================
