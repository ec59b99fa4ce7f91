------------------------------ MODULE Contexts -------------------------------
(***************************************************************************)
(* The File API in several contexts of one thread: register, with its      *)
(* preflight, installation and rollback, the handles it returns, the Blob  *)
(* URLs of each context, and shutdown with its closers (extension.rs,      *)
(* lifecycle.rs, url_shim.rs, and blob_url.rs of boa_fapi_core).           *)
(*                                                                         *)
(* Every call here runs to its end on the thread of its context, so a call *)
(* is a step.  A call that only returns an error changes nothing and is    *)
(* not a step.  The crate is built with its default features.              *)
(***************************************************************************)
EXTENDS Naturals, Sequences, FiniteSets

CONSTANTS
    Contexts,      \* contexts of one thread
    Extensions,    \* configurations, in the order their extensions are built
    LastIdentity,  \* u64::MAX, what RegistrationIdentity::fresh ends with
    LastContextId, \* u64::MAX, what FileApiContextId::fresh ends with
    Blobs,         \* payloads URLs are made for
    Uuids,         \* version 4 UUIDs
    Zero,          \* the block an entropy source without entropy returns
    Attempts,      \* UUIDs drawn before creation gives up
    Files,         \* open files of the one registry
    Hosted,        \* Hosted[c]: what the global object of c may be at the start
    Loose,         \* shutdown may be given another context than the handle's
    None

Config == [environment : {"Window", "DedicatedWorker", "SharedWorker", "ServiceWorker"},
           origin : STRING, validOrigin : BOOLEAN,
           shims : BOOLEAN, url : BOOLEAN, bridge : BOOLEAN, limits : BOOLEAN,
           reads : Nat, urls : Nat]

ASSUME ContextsAssumption ==
    /\ Extensions \in Seq(Config)
    /\ LastIdentity \in Nat \ {0} /\ LastContextId \in Nat \ {0}
    /\ Attempts \in Nat \ {0}
    /\ Loose \in BOOLEAN
    /\ Zero \notin Uuids \X BOOLEAN

VARIABLES
    global,    \* the own properties of each global object, and what it refuses
    reg,       \* RegisteredSpecs of each context
    nextId,    \* the next FileApiContextId
    handles,   \* handles the host holds, with the extension each was asked of
    shut,      \* contexts whose ShutdownFlag is closed
    store,     \* BlobUrlStore.entries of each context
    given,     \* history: URLs in use, with the blobs they were made for
    roots,     \* live operations in the tables of each context
    active,    \* operations that hold a slot of each context's bridge
    closers,   \* what each ShutdownFlag runs when it is closed
    open,      \* files the registry holds open
    imported   \* files behind the File objects of each context

vars == <<global, reg, nextId, handles, shut, store, given, roots, active, closers, open, imported>>

-----------------------------------------------------------------------------
(* The names of the interfaces.                                            *)

Interfaces == <<"Blob", "File", "ReadableStream", "ReadableStreamDefaultReader", "EventTarget",
                "Event", "ProgressEvent", "DOMException", "FileReader">>

IsWorker(e) == e.environment \in {"DedicatedWorker", "SharedWorker"}

\* The worker's FileReaderSync and the URL shim, when they are to be there.
Optional(e) == (IF IsWorker(e) THEN <<"FileReaderSync">> ELSE << >>)
               \o (IF e.url THEN <<"URL">> ELSE << >>)

Names == {Interfaces[k] : k \in DOMAIN Interfaces} \cup {"FileList", "FileReaderSync", "URL"}
Owners == {"absent", "host", "ours"}
Global == [owner : [Names -> Owners], refuses : SUBSET Names, keeps : SUBSET Names]

InstallOrder(e) == Interfaces \o Optional(e)

\* The names that must be free before anything is installed.
Preflighted(e) ==
    {"FileList"} \cup {Interfaces[k] : k \in DOMAIN Interfaces}
    \cup {Optional(e)[k] : k \in DOMAIN Optional(e)}

\* Mutant: the rollback forgets the worker's interface.
RollbackOrderShort(e) == Interfaces \o (IF e.url THEN <<"URL">> ELSE << >>)

RollbackOrder(e) == Interfaces \o Optional(e)

\* The place of the first name a global object resists, past the end if none.
FirstAmong(order, resisted) ==
    CHOOSE k \in 1 .. Len(order) + 1 :
        /\ k <= Len(order) => order[k] \in resisted
        /\ \A j \in 1 .. k - 1 : order[j] \notin resisted

\* The properties with the names before place k of order set to owner.
Settled(owners, order, k, owner) ==
    [n \in Names |-> IF \E j \in 1 .. k - 1 : order[j] = n THEN owner ELSE owners[n]]

-----------------------------------------------------------------------------
(* Identities and registrations.                                           *)

\* Every extension has a number of its own, until there are none left.
Identity(i) == IF i < LastIdentity THEN i ELSE LastIdentity

Registration == [extension : DOMAIN Extensions, id : 1 .. LastContextId - 1]
ConfigOf(c) == Extensions[reg[c].extension]

\* A string that script may hold: the origin, and the UUID after it.
Urls == {Extensions[i].origin : i \in DOMAIN Extensions} \X Uuids
Key(e) == e.origin  \* with the partition and the nonce, which are fixed with it

Entry == [data : Blobs, owner : {Key(Extensions[i]) : i \in DOMAIN Extensions}]
Handle == [at : Contexts, asked : DOMAIN Extensions, specs : Registration]

ASSUME NoneAssumption == None \notin Registration /\ None \notin Entry
ASSUME HostedAssumption == \A c \in Contexts : \A g \in Hosted[c] : g \in Global

TypeOK ==
    /\ global \in [Contexts -> Global]
    /\ reg \in [Contexts -> Registration \cup {None}]
    /\ nextId \in 1 .. LastContextId
    /\ handles \subseteq Handle
    /\ shut \subseteq {c \in Contexts : reg[c] # None}
    /\ store \in [Contexts -> [Urls -> Entry \cup {None}]]
    /\ given \in [Contexts -> SUBSET (Urls \X Blobs)]
    /\ roots \in [Contexts -> Nat] /\ active \in [Contexts -> Nat]
    /\ closers \in [Contexts -> SUBSET {"store", "bridge", "registry"}]
    /\ open \subseteq Files
    /\ imported \in [Contexts -> SUBSET Files]

Init ==
    /\ global \in {g \in [Contexts -> UNION {Hosted[c] : c \in Contexts}] :
                      \A c \in Contexts : g[c] \in Hosted[c]}
    /\ reg = [c \in Contexts |-> None]
    /\ nextId = 1
    /\ handles = {} /\ shut = {}
    /\ store = [c \in Contexts |-> [u \in Urls |-> None]]
    /\ given = [c \in Contexts |-> {}]
    /\ roots = [c \in Contexts |-> 0] /\ active = [c \in Contexts |-> 0]
    /\ closers = [c \in Contexts |-> {}]
    /\ open = Files
    /\ imported = [c \in Contexts |-> {}]

runtime == <<shut, store, given, roots, active, open, imported>>

\* What an extension must be for register to touch the global object.
Usable(e) == e.shims /\ e.bridge /\ e.limits /\ e.validOrigin

\* Mutant: extensions without a number of their own are taken.
NumberedAlways(i) == Identity(i) = Identity(i)

Numbered(i) == Identity(i) # LastIdentity

\* Extension i is asked for a context that has nothing of the File API yet.
MayInstall(c, i) ==
    /\ Numbered(i) /\ reg[c] = None
    /\ Usable(Extensions[i])
    /\ \A n \in Preflighted(Extensions[i]) : global[c].owner[n] = "absent"

\* The closers every registration starts with.
Tracked == {"store", "bridge"}

\* All names are defined.  Without a context id left register then fails, and
\* the names stay.
Register(c, i) ==
    LET order == InstallOrder(Extensions[i])
        stop == FirstAmong(order, global[c].refuses)
    IN  /\ MayInstall(c, i)
        /\ stop > Len(order)
        /\ global' = [global EXCEPT ![c].owner = Settled(@, order, stop, "ours")]
        /\ IF nextId = LastContextId
           THEN UNCHANGED <<reg, nextId, handles, closers>>
           ELSE LET specs == [extension |-> i, id |-> nextId]
                IN  /\ nextId' = nextId + 1
                    /\ reg' = [reg EXCEPT ![c] = specs]
                    /\ handles' = handles \cup {[at |-> c, asked |-> i, specs |-> specs]}
                    /\ closers' = [closers EXCEPT ![c] = Tracked]
        /\ UNCHANGED runtime

\* The global object refuses a name: what was defined is deleted, up to a name
\* it will not give up.
RegisterFails(c, i) ==
    LET order == InstallOrder(Extensions[i])
        stop == FirstAmong(order, global[c].refuses)
        back == RollbackOrder(Extensions[i])
        kept == {n \in global[c].keeps : Settled(global[c].owner, order, stop, "ours")[n] = "ours"}
    IN  /\ MayInstall(c, i)
        /\ stop <= Len(order)
        /\ global' = [global EXCEPT ![c].owner =
                          Settled(Settled(@, order, stop, "ours"), back,
                                  FirstAmong(back, kept), "absent")]
        /\ UNCHANGED <<reg, nextId, handles, closers, runtime>>

\* Asking again gives another handle to what is there, shut down or not.
RegisterAgain(c, i) ==
    /\ Numbered(i) /\ reg[c] # None
    /\ Identity(i) = Identity(reg[c].extension)
    /\ handles' = handles \cup {[at |-> c, asked |-> i, specs |-> reg[c]]}
    /\ UNCHANGED <<global, reg, nextId, closers, runtime>>

\* The host takes a name of its own off the global object, to try again.
Vacate(c, n) ==
    /\ global[c].owner[n] = "host" /\ n \notin global[c].keeps
    /\ global' = [global EXCEPT ![c].owner[n] = "absent"]
    /\ UNCHANGED <<reg, nextId, handles, closers, runtime>>

-----------------------------------------------------------------------------
(* Blob URLs.                                                              *)

Raw == {Zero} \cup (Uuids \X BOOLEAN)

\* format_uuid_v4 overwrites six bits: two blocks may make one UUID.
Formatted(raw) == raw[1]
UrlOf(e, raw) == <<e.origin, Formatted(raw)>>

Live(c) == {u \in Urls : store[c][u] # None}

HasRoom(c) == Cardinality(Live(c)) < ConfigOf(c).urls

\* Mutant: a URL that is taken is made again.
TakenNever(c, u) == FALSE

Taken(c, u) == store[c][u] # None

\* The draw that ends the attempts: no entropy, or a URL that is free.
Decides(c, draws, k) ==
    /\ draws[k] # Zero => ~Taken(c, UrlOf(ConfigOf(c), draws[k]))
    /\ \A j \in 1 .. k - 1 : draws[j] # Zero /\ Taken(c, UrlOf(ConfigOf(c), draws[j]))

\* Mutant: creation does not look at the shutdown flag.
CreatesAfter(c) == reg[c] # None /\ ConfigOf(c).environment # "ServiceWorker"

Creates(c) == reg[c] # None /\ c \notin shut /\ ConfigOf(c).environment # "ServiceWorker"

\* URL.createObjectURL and create_blob_url, with the blob of any context.
CreateUrl(c, b) ==
    /\ Creates(c) /\ HasRoom(c)
    /\ \E draws \in [1 .. Attempts -> Raw], k \in 1 .. Attempts :
          /\ Decides(c, draws, k) /\ draws[k] # Zero
          /\ LET u == UrlOf(ConfigOf(c), draws[k])
             IN  /\ store' = [store EXCEPT ![c][u] = [data |-> b, owner |-> Key(ConfigOf(c))]]
                 /\ given' = [given EXCEPT ![c] = @ \cup {<<u, b>>}]
    /\ UNCHANGED <<global, reg, nextId, handles, shut, roots, active, closers, open, imported>>

\* revoke, of any URL whoever made it.
RevokeUrl(c, u) ==
    /\ reg[c] # None
    /\ store' = [store EXCEPT ![c][u] = None]
    /\ given' = [given EXCEPT ![c] = {g \in @ : g[1] # u}]
    /\ UNCHANGED <<global, reg, nextId, handles, shut, roots, active, closers, open, imported>>

\* What resolve hands out: the data of the entry, to its owner.
Resolved(c, u) ==
    IF store[c][u] # None /\ store[c][u].owner = Key(ConfigOf(c)) THEN {store[c][u].data} ELSE {}

-----------------------------------------------------------------------------
(* Reads, imports, and shutdown.                                           *)

\* A stream or a FileReader takes a slot of the bridge and a row of the context's tables.
StartRead(c) ==
    /\ reg[c] # None /\ c \notin shut
    /\ active[c] < ConfigOf(c).reads
    /\ active' = [active EXCEPT ![c] = @ + 1]
    /\ roots' = [roots EXCEPT ![c] = @ + 1]
    /\ UNCHANGED <<global, reg, nextId, handles, shut, store, given, closers, open, imported>>

\* poll_io knows the context by its id and by the extension's identity.
OwnContext(h, c) ==
    /\ reg[c] # None
    /\ reg[c].id = h.specs.id
    /\ Identity(reg[c].extension) = Identity(h.specs.extension)

Freed(c) == active[c] - 1

\* poll_io turns one finished operation into a job: its row goes and its slot
\* is freed.  An operation without a row is stale, and keeps its slot.
PollIo(h, c) ==
    /\ OwnContext(h, c) /\ c \notin shut
    /\ roots[c] > 0
    /\ roots' = [roots EXCEPT ![c] = @ - 1]
    /\ active' = [active EXCEPT ![c] = Freed(c)]
    /\ UNCHANGED <<global, reg, nextId, handles, shut, store, given, closers, open, imported>>

Tracks(c) == closers[c] \cup {"registry"}

\* file_from_resource: the registry is tracked before the file is looked at
\* more closely, so a file that is too large leaves its closer behind.
ImportFile(h, f) ==
    LET c == h.at
    IN  /\ c \notin shut /\ f \in open
        /\ closers' = [closers EXCEPT ![c] = Tracks(c)]
        /\ \E refused \in BOOLEAN :
              imported' = [imported EXCEPT ![c] = IF refused THEN @ ELSE @ \cup {f}]
        /\ UNCHANGED <<global, reg, nextId, handles, shut, store, given, roots, active, open>>

\* shutdown of a handle, which is given a context.  The flag, the closers and
\* what they reach are the handle's; the tables that are emptied are the
\* context's.
Shutdown(h, c) ==
    LET own == h.at
    IN  /\ Loose \/ c = own
        /\ reg[c] # None
        /\ shut' = shut \cup {own}
        /\ store' = [store EXCEPT ![own] =
                         IF "store" \in closers[own] THEN [u \in Urls |-> None] ELSE @]
        /\ given' = [given EXCEPT ![own] = IF own \in shut THEN @ ELSE {}]
        /\ active' = [active EXCEPT ![own] = IF "bridge" \in closers[own] THEN 0 ELSE @]
        /\ open' = IF "registry" \in closers[own] THEN {} ELSE open
        /\ closers' = [closers EXCEPT ![own] = {}]
        /\ roots' = [roots EXCEPT ![c] = 0]
        /\ UNCHANGED <<global, reg, nextId, handles, imported>>

Next ==
    \/ \E c \in Contexts, i \in DOMAIN Extensions :
          Register(c, i) \/ RegisterFails(c, i) \/ RegisterAgain(c, i)
    \/ \E c \in Contexts, n \in Names : Vacate(c, n)
    \/ \E c \in Contexts, b \in Blobs : CreateUrl(c, b)
    \/ \E c \in Contexts, u \in Urls : RevokeUrl(c, u)
    \/ \E c \in Contexts : StartRead(c)
    \/ \E h \in handles, c \in Contexts : PollIo(h, c) \/ Shutdown(h, c)
    \/ \E h \in handles, f \in Files : ImportFile(h, f)

Spec == Init /\ [][Next]_vars

-----------------------------------------------------------------------------
(* Properties.                                                             *)

Ours(c) == {n \in Names : global[c].owner[n] = "ours"}

\* A registration that succeeds installs all of its names and takes none that
\* was there before; one that fails leaves the global object as it found it,
\* unless that object refused to give a name back, or there was no context id
\* left.  The names are in three lists of their own: the preflight's, the
\* installation's, the rollback's.
RegistersWhole ==
    [][\A c \in Contexts : Ours(c)' # Ours(c) =>
          /\ \A n \in Names : global[c].owner[n] = "host" => global'[c].owner[n] = "host"
          /\ IF reg'[c] = None
             THEN global[c].keeps # {} \/ nextId = LastContextId
             ELSE LET order == InstallOrder(Extensions[reg'[c].extension])
                      names == {order[k] : k \in DOMAIN order}
                  IN  /\ \A n \in names : global[c].owner[n] = "absent"
                      /\ Ours(c)' = Ours(c) \cup names
      ]_vars

\* A handle belongs to the extension it was asked of, in the context it was
\* asked for: two extensions never share a registration, not even the ones
\* built when there were no numbers left.
HandleIsTheExtensions ==
    \A h \in handles : h.asked = h.specs.extension /\ reg[h.at] = h.specs

\* A URL in use leads to the blob it was made for, in its own context, however
\* often the same UUID is drawn.
UrlsLeadHome ==
    \A c \in Contexts, u \in Urls :
        Resolved(c, u) = {g[2] : g \in {g \in given[c] : g[1] = u}}

\* After shutdown a runtime keeps nothing alive: no URL, no slot, no open file.
\* Before it, it has no more URLs than its limit.
ShutdownReleases ==
    \A c \in Contexts :
        /\ c \in shut => Live(c) = {} /\ active[c] = 0 /\ imported[c] \cap open = {}
        /\ reg[c] # None => Cardinality(Live(c)) <= ConfigOf(c).urls

\* A runtime that is not shut down has a row for every slot it has taken, and
\* so gets every slot back, whatever happens to other contexts.
ContextsIndependent == \A c \in Contexts \ shut : roots[c] = active[c]

=============================================================================
