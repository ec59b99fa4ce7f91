--------------------------- MODULE ContextsProofs ----------------------------
(* Theorems about Contexts, for every number of contexts and extensions,    *)
(* every global object, UUIDs that repeat at will, and any end of the        *)
(* counters of identities and contexts.                                     *)
EXTENDS Contexts, FiniteSetTheorems, TLAPS

-----------------------------------------------------------------------------
(* The inductive invariant.                                                *)

\* A registration belongs to an extension with a number of its own.
NumberInv == \A c \in Contexts : reg[c] # None => reg[c].extension < LastIdentity

\* A context without the File API has nothing of it.
BlankInv ==
    \A c \in Contexts : reg[c] = None => Live(c) = {} /\ imported[c] = {} /\ active[c] = 0

\* Until its shutdown a runtime tracks what it holds; after it, it holds nothing.
CloserInv ==
    \A c \in Contexts :
        /\ reg[c] # None /\ c \notin shut => Tracked \subseteq closers[c]
        /\ c \in shut => Live(c) = {} /\ active[c] = 0 /\ closers[c] = {}
        /\ imported[c] \cap open # {} => "registry" \in closers[c]

\* A runtime that is not shut down has a slot for every row.
SlotInv == \A c \in Contexts \ shut : roots[c] <= active[c]

\* The entries are the URLs in use, with their blobs, and owned by their context.
PairInv ==
    \A c \in Contexts, u \in Urls :
        /\ store[c][u] # None => store[c][u].owner = Key(ConfigOf(c))
        /\ \A b \in Blobs : <<u, b>> \in given[c] <=> store[c][u] # None /\ b = store[c][u].data

\* There are never more URLs than the limit.
RoomInv ==
    \A c \in Contexts :
        /\ IsFiniteSet(Live(c))
        /\ reg[c] # None => Cardinality(Live(c)) <= ConfigOf(c).urls

-----------------------------------------------------------------------------
(* Global objects.                                                         *)

\* Setting or deleting properties leaves a global object well formed.
LEMMA SettledType ==
    ASSUME NEW g \in [Contexts -> Global], NEW c \in Contexts, NEW order, NEW k, NEW back, NEW j
    PROVE  /\ [g EXCEPT ![c].owner = Settled(@, order, k, "ours")] \in [Contexts -> Global]
           /\ [g EXCEPT ![c].owner = Settled(Settled(@, order, k, "ours"), back, j, "absent")]
                 \in [Contexts -> Global]
<1>. DEFINE one == Settled(g[c].owner, order, k, "ours")
            two == Settled(one, back, j, "absent")
<1>1. g[c] \in Global
  OBVIOUS
<1>2. g[c].owner \in [Names -> Owners]
  BY <1>1 DEF Global
<1>3. one \in [Names -> Owners]
  BY <1>2 DEF Settled, Owners
<1>4. two \in [Names -> Owners]
  BY <1>3 DEF Settled, Owners
<1>5. ASSUME NEW o \in [Names -> Owners]
      PROVE  [g[c] EXCEPT !.owner = o] \in Global
  BY <1>1 DEF Global
<1>6. [g EXCEPT ![c].owner = one] \in [Contexts -> Global]
  BY <1>3, <1>5
<1>7. [g EXCEPT ![c].owner = two] \in [Contexts -> Global]
  BY <1>4, <1>5
<1>. QED
  BY <1>6, <1>7

\* The host may take a name of its own off.
LEMMA VacatedType ==
    ASSUME NEW g \in [Contexts -> Global], NEW c \in Contexts, NEW n \in Names
    PROVE  [g EXCEPT ![c].owner[n] = "absent"] \in [Contexts -> Global]
<1>1. g[c] \in Global /\ g[c].owner \in [Names -> Owners]
  BY DEF Global
<1>2. [g[c].owner EXCEPT ![n] = "absent"] \in [Names -> Owners]
  BY <1>1 DEF Owners
<1>3. [g[c] EXCEPT !.owner[n] = "absent"] \in Global
  BY <1>1, <1>2 DEF Global
<1>. QED
  BY <1>3

\* A configuration of a registered context, and its limits.
LEMMA ConfigType ==
    ASSUME NEW c \in Contexts, reg[c] \in Registration
    PROVE  /\ reg[c].extension \in DOMAIN Extensions
           /\ reg[c] # None
           /\ ConfigOf(c) \in Config
           /\ ConfigOf(c).urls \in Nat
<1>1. reg[c].extension \in DOMAIN Extensions /\ reg[c] # None
  BY NoneAssumption DEF Registration
<1>2. ConfigOf(c) \in Config
  BY <1>1, ContextsAssumption DEF ConfigOf
<1>. QED
  BY <1>1, <1>2 DEF Config

-----------------------------------------------------------------------------
(* Types and slots.                                                        *)

TypeInv == TypeOK /\ SlotInv
HandleInv == NumberInv /\ HandleIsTheExtensions

\* The initial state is well typed.
LEMMA InitTypes == Init => TypeInv
<1>. SUFFICES ASSUME Init PROVE TypeInv
  OBVIOUS
<1>1. global \in [Contexts -> Global]
  BY HostedAssumption DEF Init
<1>. QED
  BY <1>1, ContextsAssumption DEF Init, TypeInv, TypeOK, SlotInv

\* Every step keeps the types, and a row for no more than the slots that are taken.
LEMMA NextTypes == TypeInv /\ HandleInv /\ [Next]_vars => TypeInv'
<1>. SUFFICES ASSUME TypeInv, HandleInv, [Next]_vars PROVE TypeInv'
  OBVIOUS
<1>. USE DEF TypeInv, TypeOK, SlotInv
<1>1. ASSUME NEW c \in Contexts, NEW i \in DOMAIN Extensions, Register(c, i)
      PROVE  TypeInv'
  <2>1. global' \in [Contexts -> Global]
    BY <1>1, SettledType DEF Register
  <2>2. UNCHANGED runtime /\ (nextId = LastContextId => UNCHANGED <<reg, nextId, handles, closers>>)
    BY <1>1 DEF Register
  <2>3. CASE nextId = LastContextId
    BY <2>1, <2>2, <2>3 DEF runtime
  <2>4. CASE nextId # LastContextId
    <3>. DEFINE specs == [extension |-> i, id |-> nextId]
    <3>1. specs \in Registration
      BY <2>4, ContextsAssumption DEF Registration
    <3>2. /\ nextId' = nextId + 1
          /\ reg' = [reg EXCEPT ![c] = specs]
          /\ handles' = handles \cup {[at |-> c, asked |-> i, specs |-> specs]}
          /\ closers' = [closers EXCEPT ![c] = Tracked]
      BY <1>1, <2>4 DEF Register
    <3>3. nextId' \in 1 .. LastContextId
      BY <2>4, <3>2, ContextsAssumption
    <3>4. handles' \subseteq Handle
      BY <3>1, <3>2 DEF Handle
    <3>5. shut' \subseteq {d \in Contexts : reg'[d] # None}
      BY <2>2, <3>1, <3>2, NoneAssumption DEF runtime
    <3>6. reg' \in [Contexts -> Registration \cup {None}] /\ closers' \in [Contexts -> SUBSET {"store", "bridge", "registry"}]
      BY <3>1, <3>2 DEF Tracked
    <3>. QED
      BY <2>1, <2>2, <3>3, <3>4, <3>5, <3>6 DEF runtime
  <2>. QED
    BY <2>3, <2>4
<1>2. ASSUME NEW c \in Contexts, NEW i \in DOMAIN Extensions, RegisterFails(c, i)
      PROVE  TypeInv'
  BY <1>2, SettledType DEF RegisterFails, runtime
<1>3. ASSUME NEW c \in Contexts, NEW i \in DOMAIN Extensions, RegisterAgain(c, i)
      PROVE  TypeInv'
  BY <1>3 DEF RegisterAgain, runtime, Handle
<1>4. ASSUME NEW c \in Contexts, NEW n \in Names, Vacate(c, n)
      PROVE  TypeInv'
  BY <1>4, VacatedType DEF Vacate, runtime
<1>5. ASSUME NEW c \in Contexts, NEW b \in Blobs, CreateUrl(c, b)
      PROVE  TypeInv'
  <2>1. PICK draws \in [1 .. Attempts -> Raw], k \in 1 .. Attempts :
          /\ draws[k] # Zero
          /\ LET u == UrlOf(ConfigOf(c), draws[k])
             IN  /\ store' = [store EXCEPT ![c][u] = [data |-> b, owner |-> Key(ConfigOf(c))]]
                 /\ given' = [given EXCEPT ![c] = @ \cup {<<u, b>>}]
    BY <1>5 DEF CreateUrl
  <2>. DEFINE u == UrlOf(ConfigOf(c), draws[k])
              entry == [data |-> b, owner |-> Key(ConfigOf(c))]
  <2>2. reg[c] \in Registration
    BY <1>5 DEF CreateUrl, Creates
  <2>3. u \in Urls /\ entry \in Entry
    BY <2>1, <2>2, ConfigType DEF Raw, UrlOf, Formatted, Urls, Entry, ConfigOf
  <2>4. store' = [store EXCEPT ![c] = [@ EXCEPT ![u] = entry]] /\ store[c] \in [Urls -> Entry \cup {None}]
    BY <2>1
  <2>. HIDE DEF u, entry
  <2>5. [store[c] EXCEPT ![u] = entry] \in [Urls -> Entry \cup {None}]
    BY <2>3, <2>4
  <2>6. store' \in [Contexts -> [Urls -> Entry \cup {None}]]
    BY <2>4, <2>5
  <2>7. given' \in [Contexts -> SUBSET (Urls \X Blobs)]
    BY <2>1, <2>3 DEF u
  <2>. QED
    BY <1>5, <2>6, <2>7 DEF CreateUrl
<1>6. ASSUME NEW c \in Contexts, NEW u \in Urls, RevokeUrl(c, u)
      PROVE  TypeInv'
  <2>1. store[c] \in [Urls -> Entry \cup {None}]
    OBVIOUS
  <2>2. [store[c] EXCEPT ![u] = None] \in [Urls -> Entry \cup {None}]
    BY <2>1
  <2>3. store' \in [Contexts -> [Urls -> Entry \cup {None}]]
    BY <1>6, <2>2 DEF RevokeUrl
  <2>. QED
    BY <1>6, <2>3 DEF RevokeUrl
<1>7. ASSUME NEW c \in Contexts, StartRead(c)
      PROVE  TypeInv'
  BY <1>7 DEF StartRead
<1>8. ASSUME NEW h \in handles, NEW c \in Contexts, PollIo(h, c)
      PROVE  TypeInv'
  BY <1>8 DEF PollIo, Freed
<1>9. ASSUME NEW h \in handles, NEW c \in Contexts, Shutdown(h, c)
      PROVE  TypeInv'
  <2>1. h.at \in Contexts /\ reg[h.at] # None
    BY NoneAssumption DEF Handle, HandleInv, HandleIsTheExtensions
  <2>2. shut' = shut \cup {h.at} /\ UNCHANGED <<global, reg, nextId, handles, imported>>
    BY <1>9 DEF Shutdown
  <2>3. shut' \subseteq {d \in Contexts : reg'[d] # None}
    BY <2>1, <2>2
  <2>4. [u \in Urls |-> None] \in [Urls -> Entry \cup {None}]
    OBVIOUS
  <2>5. store' \in [Contexts -> [Urls -> Entry \cup {None}]]
    BY <1>9, <2>1, <2>4 DEF Shutdown
  <2>6. given' \in [Contexts -> SUBSET (Urls \X Blobs)]
    BY <1>9, <2>1 DEF Shutdown
  <2>7. roots' \in [Contexts -> Nat] /\ active' \in [Contexts -> Nat]
    BY <1>9, <2>1 DEF Shutdown
  <2>8. closers' \in [Contexts -> SUBSET {"store", "bridge", "registry"}] /\ open' \subseteq Files
    BY <1>9, <2>1 DEF Shutdown
  <2>9. SlotInv'
    BY <1>9, <2>1, <2>2 DEF Shutdown
  <2>. QED
    BY <2>2, <2>3, <2>5, <2>6, <2>7, <2>8, <2>9
<1>10. ASSUME NEW h \in handles, NEW f \in Files, ImportFile(h, f)
      PROVE  TypeInv'
  BY <1>10 DEF ImportFile, Tracks, Handle
<1>11. CASE UNCHANGED vars
  BY <1>11 DEF vars
<1>. QED
  BY <1>1, <1>2, <1>3, <1>4, <1>5, <1>6, <1>7, <1>8, <1>9, <1>10, <1>11 DEF Next

-----------------------------------------------------------------------------
(* Identities and handles.                                                 *)

\* There are no handles at the start.
LEMMA InitHandles == Init => HandleInv
BY DEF Init, HandleInv, NumberInv, HandleIsTheExtensions

\* No step changes a registration, and a handle is made from the one there is.
LEMMA NextHandles == TypeOK /\ HandleInv /\ [Next]_vars => HandleInv'
<1>. SUFFICES ASSUME TypeOK, HandleInv, [Next]_vars PROVE HandleInv'
  OBVIOUS
<1>. USE DEF HandleInv, NumberInv, HandleIsTheExtensions
<1>1. ASSUME NEW i \in DOMAIN Extensions, Numbered(i)
      PROVE  i \in Nat /\ i < LastIdentity /\ Identity(i) = i
  BY <1>1, ContextsAssumption DEF Numbered, Identity
<1>2. ASSUME NEW c \in Contexts, NEW i \in DOMAIN Extensions, Register(c, i)
      PROVE  HandleInv'
  <2>1. reg[c] = None /\ Numbered(i)
    BY <1>2 DEF Register, MayInstall
  <2>2. CASE nextId = LastContextId
    BY <1>2, <2>2 DEF Register
  <2>3. CASE nextId # LastContextId
    <3>. DEFINE specs == [extension |-> i, id |-> nextId]
    <3>1. /\ reg' = [reg EXCEPT ![c] = specs]
          /\ handles' = handles \cup {[at |-> c, asked |-> i, specs |-> specs]}
      BY <1>2, <2>3 DEF Register
    <3>2. \A h \in handles : h.at \in Contexts /\ reg[h.at] # None
      BY NoneAssumption DEF TypeOK, Handle
    <3>3. NumberInv'
      BY <1>1, <2>1, <3>1 DEF TypeOK
    <3>4. HandleIsTheExtensions'
      BY <2>1, <3>1, <3>2 DEF TypeOK
    <3>. QED
      BY <3>3, <3>4
  <2>. QED
    BY <2>2, <2>3
<1>3. ASSUME NEW c \in Contexts, NEW i \in DOMAIN Extensions, RegisterAgain(c, i)
      PROVE  HandleInv'
  <2>1. reg[c] \in Registration /\ Numbered(i) /\ Identity(i) = Identity(reg[c].extension)
    BY <1>3 DEF RegisterAgain, TypeOK
  <2>2. reg[c].extension \in DOMAIN Extensions /\ reg[c].extension < LastIdentity
    BY <2>1, NoneAssumption DEF Registration
  <2>3. Numbered(reg[c].extension)
    BY <2>2, ContextsAssumption DEF Numbered, Identity
  <2>4. i = reg[c].extension
    BY <1>1, <2>1, <2>2, <2>3
  <2>. QED
    BY <1>3, <2>4 DEF RegisterAgain
<1>4. UNCHANGED <<reg, handles>> => HandleInv'
  OBVIOUS
<1>. QED
  BY <1>2, <1>3, <1>4 DEF Next, RegisterFails, Vacate, CreateUrl, RevokeUrl, StartRead, PollIo,
     Shutdown, ImportFile, vars

\* Every reachable state is well typed (RegisteredSpecs, BlobUrlStore, IoBridge).
THEOREM ContextsTypeCorrect == Spec => []TypeOK
<1>1. TypeInv => TypeOK
  BY DEF TypeInv
<1>. QED
  BY <1>1, InitTypes, NextTypes, InitHandles, NextHandles, PTL DEF Spec

\* A handle belongs to the extension it was asked of, however many extensions
\* are built and wherever their numbers end (RegistrationIdentity::fresh, register).
THEOREM HandlesBelong == Spec => []HandleIsTheExtensions
<1>1. HandleInv => HandleIsTheExtensions
  BY DEF HandleInv
<1>. QED
  BY <1>1, ContextsTypeCorrect, InitHandles, NextHandles, PTL DEF Spec

-----------------------------------------------------------------------------
(* URLs, slots and files.                                                  *)

HoldInv == BlankInv /\ CloserInv

\* Nothing is held at the start.
LEMMA InitHolds == Init => HoldInv /\ PairInv /\ RoomInv
<1>. SUFFICES ASSUME Init PROVE HoldInv /\ PairInv /\ RoomInv
  OBVIOUS
<1>1. \A c \in Contexts : reg[c] = None /\ Live(c) = {} /\ given[c] = {}
  BY DEF Init, Live
<1>2. \A c \in Contexts, u \in Urls : store[c][u] = None
  BY DEF Init
<1>3. HoldInv
  BY <1>1 DEF Init, HoldInv, BlankInv, CloserInv
<1>4. PairInv
  BY <1>1, <1>2 DEF PairInv
<1>5. RoomInv
  BY <1>1, FS_EmptySet DEF RoomInv
<1>. QED
  BY <1>3, <1>4, <1>5

\* What the actions do to the URLs of the contexts.
LEMMA CreateLive ==
    ASSUME TypeOK, NEW c \in Contexts, NEW b \in Blobs, CreateUrl(c, b)
    PROVE  \E u \in Urls :
              /\ u \notin Live(c)
              /\ \A d \in Contexts : Live(d)' = IF d = c THEN Live(c) \cup {u} ELSE Live(d)
              /\ \A d \in Contexts, v \in Urls :
                    store'[d][v] = IF d = c /\ v = u THEN [data |-> b, owner |-> Key(ConfigOf(c))]
                                   ELSE store[d][v]
              /\ given' = [given EXCEPT ![c] = @ \cup {<<u, b>>}]
<1>1. PICK draws \in [1 .. Attempts -> Raw], k \in 1 .. Attempts :
        /\ Decides(c, draws, k) /\ draws[k] # Zero
        /\ LET u == UrlOf(ConfigOf(c), draws[k])
           IN  /\ store' = [store EXCEPT ![c][u] = [data |-> b, owner |-> Key(ConfigOf(c))]]
               /\ given' = [given EXCEPT ![c] = @ \cup {<<u, b>>}]
  BY DEF CreateUrl
<1>. DEFINE u == UrlOf(ConfigOf(c), draws[k])
            entry == [data |-> b, owner |-> Key(ConfigOf(c))]
<1>2. reg[c] \in Registration
  BY DEF CreateUrl, Creates, TypeOK
<1>3. u \in Urls /\ entry \in Entry
  BY <1>1, <1>2, ConfigType DEF Raw, UrlOf, Formatted, Urls, Entry, ConfigOf
<1>4. store[c][u] = None
  BY <1>1 DEF Decides, Taken
<1>5. entry # None
  BY <1>3, NoneAssumption
<1>6. /\ store' = [store EXCEPT ![c][u] = entry]
      /\ given' = [given EXCEPT ![c] = @ \cup {<<u, b>>}]
  BY <1>1
<1>. HIDE DEF u, entry
<1>7. \A d \in Contexts, v \in Urls :
         store'[d][v] = IF d = c /\ v = u THEN entry ELSE store[d][v]
  BY <1>3, <1>6 DEF TypeOK
<1>8. \A d \in Contexts : Live(d)' = IF d = c THEN Live(c) \cup {u} ELSE Live(d)
  BY <1>3, <1>5, <1>7 DEF Live
<1>9. u \notin Live(c)
  BY <1>4 DEF Live
<1>. QED
  BY <1>3, <1>6, <1>7, <1>8, <1>9 DEF entry

\* What revocation does to them.
LEMMA RevokeLive ==
    ASSUME TypeOK, NEW c \in Contexts, NEW u \in Urls, RevokeUrl(c, u)
    PROVE  /\ \A d \in Contexts : Live(d)' = IF d = c THEN Live(c) \ {u} ELSE Live(d)
           /\ \A d \in Contexts, v \in Urls :
                 store'[d][v] = IF d = c /\ v = u THEN None ELSE store[d][v]
<1>1. store' = [store EXCEPT ![c][u] = None]
  BY DEF RevokeUrl
<1>2. \A d \in Contexts, v \in Urls :
         store'[d][v] = IF d = c /\ v = u THEN None ELSE store[d][v]
  BY <1>1 DEF TypeOK
<1>3. \A d \in Contexts : Live(d)' = IF d = c THEN Live(c) \ {u} ELSE Live(d)
  BY <1>2 DEF Live
<1>. QED
  BY <1>2, <1>3

\* And what shutdown does: the first one clears them, a later one finds none.
LEMMA ShutdownLive ==
    ASSUME TypeOK, HandleInv, HoldInv, NEW h \in handles, NEW c \in Contexts, Shutdown(h, c)
    PROVE  /\ h.at \in Contexts /\ reg[h.at] # None
           /\ \A d \in Contexts : Live(d)' = IF d = h.at THEN {} ELSE Live(d)
           /\ \A d \in Contexts, v \in Urls :
                 store'[d][v] = IF d = h.at THEN None ELSE store[d][v]
           /\ active' = [active EXCEPT ![h.at] = 0]
<1>1. h.at \in Contexts /\ reg[h.at] # None
  BY NoneAssumption DEF TypeOK, Handle, HandleInv, HandleIsTheExtensions
<1>2. CASE h.at \in shut
  <2>1. closers[h.at] = {} /\ Live(h.at) = {} /\ active[h.at] = 0
    BY <1>1, <1>2 DEF HoldInv, CloserInv
  <2>2. store' = store /\ active' = active
    BY <1>1, <2>1 DEF Shutdown, TypeOK
  <2>3. \A v \in Urls : store[h.at][v] = None
    BY <2>1 DEF Live
  <2>. QED
    BY <1>1, <2>1, <2>2, <2>3 DEF Live, TypeOK
<1>3. CASE h.at \notin shut
  <2>1. "store" \in closers[h.at] /\ "bridge" \in closers[h.at]
    BY <1>1, <1>3 DEF HoldInv, CloserInv, Tracked
  <2>2. /\ store' = [store EXCEPT ![h.at] = [u \in Urls |-> None]]
        /\ active' = [active EXCEPT ![h.at] = 0]
    BY <2>1 DEF Shutdown
  <2>3. \A d \in Contexts, v \in Urls :
           store'[d][v] = IF d = h.at THEN None ELSE store[d][v]
    BY <2>2 DEF TypeOK
  <2>. QED
    BY <1>1, <2>2, <2>3 DEF Live
<1>. QED
  BY <1>2, <1>3

\* Every step keeps what a runtime holds within reach of its closers.
LEMMA NextHolds == TypeInv /\ HandleInv /\ HoldInv /\ [Next]_vars => HoldInv'
<1>. SUFFICES ASSUME TypeInv, HandleInv, HoldInv, [Next]_vars PROVE HoldInv'
  OBVIOUS
<1>. USE DEF HoldInv, BlankInv, CloserInv
<1>t. TypeOK
  BY DEF TypeInv
<1>h. \A h \in handles : h.at \in Contexts /\ reg[h.at] # None
  BY <1>t, NoneAssumption DEF TypeOK, Handle, HandleInv, HandleIsTheExtensions
<1>1. ASSUME NEW c \in Contexts, NEW i \in DOMAIN Extensions, Register(c, i)
      PROVE  HoldInv'
  <2>1. reg[c] = None /\ c \notin shut /\ UNCHANGED runtime
    BY <1>1, <1>t DEF Register, MayInstall, TypeOK
  <2>2. \A d \in Contexts : Live(d)' = Live(d)
    BY <2>1 DEF runtime, Live
  <2>3. CASE nextId = LastContextId
    BY <1>1, <2>1, <2>2, <2>3 DEF Register, runtime
  <2>4. CASE nextId # LastContextId
    <3>1. /\ reg' = [reg EXCEPT ![c] = [extension |-> i, id |-> nextId]]
          /\ closers' = [closers EXCEPT ![c] = Tracked]
      BY <1>1, <2>4 DEF Register
    <3>. QED
      BY <1>t, <2>1, <2>2, <3>1 DEF TypeOK, runtime
  <2>. QED
    BY <2>3, <2>4
<1>2. ASSUME UNCHANGED <<reg, closers, runtime>>
      PROVE  HoldInv'
  BY <1>2 DEF runtime, Live
<1>3. ASSUME NEW c \in Contexts, NEW b \in Blobs, CreateUrl(c, b)
      PROVE  HoldInv'
  <2>1. \A d \in Contexts : d # c => Live(d)' = Live(d)
    BY <1>3, <1>t, CreateLive
  <2>2. reg[c] # None /\ c \notin shut
    BY <1>3 DEF CreateUrl, Creates
  <2>. QED
    BY <1>3, <2>1, <2>2 DEF CreateUrl
<1>4. ASSUME NEW c \in Contexts, NEW u \in Urls, RevokeUrl(c, u)
      PROVE  HoldInv'
  <2>1. \A d \in Contexts : Live(d)' \subseteq Live(d)
    BY <1>4, <1>t, RevokeLive
  <2>. QED
    BY <1>4, <2>1 DEF RevokeUrl
<1>5. ASSUME NEW c \in Contexts, StartRead(c)
      PROVE  HoldInv'
  <2>1. \A d \in Contexts : Live(d)' = Live(d)
    BY <1>5 DEF StartRead, Live
  <2>. QED
    BY <1>5, <1>t, <2>1 DEF StartRead, TypeOK
<1>6. ASSUME NEW h \in handles, NEW c \in Contexts, PollIo(h, c)
      PROVE  HoldInv'
  <2>1. \A d \in Contexts : Live(d)' = Live(d)
    BY <1>6 DEF PollIo, Live
  <2>2. reg[c] # None /\ c \notin shut
    BY <1>6 DEF PollIo, OwnContext
  <2>. QED
    BY <1>6, <1>t, <2>1, <2>2 DEF PollIo, TypeOK
<1>7. ASSUME NEW h \in handles, NEW c \in Contexts, Shutdown(h, c)
      PROVE  HoldInv'
  <2>1. /\ shut' = shut \cup {h.at} /\ closers' = [closers EXCEPT ![h.at] = {}]
        /\ open' = IF "registry" \in closers[h.at] THEN {} ELSE open
        /\ UNCHANGED <<reg, imported>>
    BY <1>7 DEF Shutdown
  <2>2. \A d \in Contexts : Live(d)' = IF d = h.at THEN {} ELSE Live(d)
    BY <1>7, <1>t, ShutdownLive
  <2>3. h.at \in Contexts /\ reg[h.at] # None /\ active' = [active EXCEPT ![h.at] = 0]
    BY <1>7, <1>t, ShutdownLive
  <2>4. BlankInv'
    BY <2>1, <2>2, <2>3, <1>t DEF TypeOK
  <2>5. ASSUME NEW d \in Contexts, imported[d] \cap open' # {}
        PROVE  "registry" \in closers'[d]
    <3>1. imported[d] \cap open # {} /\ "registry" \notin closers[h.at]
      BY <2>1, <2>5
    <3>2. d # h.at /\ "registry" \in closers[d]
      BY <3>1
    <3>. QED
      BY <1>t, <2>1, <3>2 DEF TypeOK
  <2>6. CloserInv'
    BY <1>t, <2>1, <2>2, <2>3, <2>5 DEF TypeOK
  <2>. QED
    BY <2>4, <2>6
<1>8. ASSUME NEW h \in handles, NEW f \in Files, ImportFile(h, f)
      PROVE  HoldInv'
  <2>1. \A d \in Contexts : Live(d)' = Live(d)
    BY <1>8 DEF ImportFile, Live
  <2>. QED
    BY <1>8, <1>t, <1>h, <2>1 DEF ImportFile, Tracks, TypeOK
<1>. QED
  BY <1>1, <1>2, <1>3, <1>4, <1>5, <1>6, <1>7, <1>8 DEF Next, RegisterFails, RegisterAgain,
     Vacate, vars, runtime

\* Every step keeps the entries and the URLs in use together.
LEMMA NextPairs == TypeInv /\ HandleInv /\ HoldInv /\ PairInv /\ [Next]_vars => PairInv'
<1>. SUFFICES ASSUME TypeInv, HandleInv, HoldInv, PairInv, [Next]_vars PROVE PairInv'
  OBVIOUS
<1>. USE DEF PairInv
<1>t. TypeOK
  BY DEF TypeInv
<1>1. ASSUME NEW c \in Contexts, NEW i \in DOMAIN Extensions, Register(c, i)
      PROVE  PairInv'
  <2>1. reg[c] = None /\ store' = store /\ given' = given
    BY <1>1 DEF Register, MayInstall, runtime
  <2>2. \A u \in Urls : store[c][u] = None
    BY <2>1 DEF HoldInv, BlankInv, Live
  <2>3. \A d \in Contexts : d # c => reg'[d] = reg[d]
    BY <1>1, <1>t DEF Register, TypeOK
  <2>. QED
    BY <2>1, <2>2, <2>3 DEF ConfigOf
<1>2. ASSUME UNCHANGED <<reg, store, given>>
      PROVE  PairInv'
  BY <1>2 DEF ConfigOf
<1>3. ASSUME NEW c \in Contexts, NEW b \in Blobs, CreateUrl(c, b)
      PROVE  PairInv'
  <2>1. PICK u \in Urls :
          /\ u \notin Live(c)
          /\ \A d \in Contexts, v \in Urls :
                store'[d][v] = IF d = c /\ v = u THEN [data |-> b, owner |-> Key(ConfigOf(c))]
                               ELSE store[d][v]
          /\ given' = [given EXCEPT ![c] = @ \cup {<<u, b>>}]
    BY <1>3, <1>t, CreateLive
  <2>2. store[c][u] = None /\ reg' = reg
    BY <1>3, <2>1 DEF Live, CreateUrl
  <2>3. [data |-> b, owner |-> Key(ConfigOf(c))] # None
    <3>1. reg[c] \in Registration
      BY <1>3, <1>t DEF CreateUrl, Creates, TypeOK
    <3>. QED
      BY <3>1, ConfigType, NoneAssumption DEF Entry, ConfigOf
  <2>4. \A d \in Contexts : ConfigOf(d)' = ConfigOf(d)
    BY <2>2 DEF ConfigOf
  <2>5. ASSUME NEW d \in Contexts, NEW v \in Urls
        PROVE  store'[d][v] # None => store'[d][v].owner = Key(ConfigOf(d))'
    BY <2>1, <2>4 DEF Key
  <2>6. ASSUME NEW d \in Contexts, NEW v \in Urls, NEW a \in Blobs
        PROVE  <<v, a>> \in given'[d] <=> store'[d][v] # None /\ a = store'[d][v].data
    <3>1. CASE d = c /\ v = u
      BY <1>t, <2>1, <2>2, <2>3, <3>1 DEF TypeOK
    <3>2. CASE ~(d = c /\ v = u)
      BY <1>t, <2>1, <3>2 DEF TypeOK
    <3>. QED
      BY <3>1, <3>2
  <2>. QED
    BY <2>5, <2>6
<1>4. ASSUME NEW c \in Contexts, NEW u \in Urls, RevokeUrl(c, u)
      PROVE  PairInv'
  <2>1. \A d \in Contexts, v \in Urls :
           store'[d][v] = IF d = c /\ v = u THEN None ELSE store[d][v]
    BY <1>4, <1>t, RevokeLive
  <2>2. /\ reg' = reg
        /\ given' = [given EXCEPT ![c] = {g \in @ : g[1] # u}]
    BY <1>4 DEF RevokeUrl
  <2>. QED
    BY <1>t, <2>1, <2>2 DEF ConfigOf, TypeOK
<1>5. ASSUME NEW h \in handles, NEW c \in Contexts, Shutdown(h, c)
      PROVE  PairInv'
  <2>1. /\ h.at \in Contexts
        /\ \A d \in Contexts, v \in Urls :
              store'[d][v] = IF d = h.at THEN None ELSE store[d][v]
    BY <1>5, <1>t, ShutdownLive
  <2>2. /\ reg' = reg
        /\ given' = [given EXCEPT ![h.at] = IF h.at \in shut THEN @ ELSE {}]
    BY <1>5 DEF Shutdown
  <2>3. h.at \in shut => \A v \in Urls : store[h.at][v] = None
    BY <2>1 DEF HoldInv, CloserInv, Live
  <2>. QED
    BY <1>t, <2>1, <2>2, <2>3 DEF ConfigOf, TypeOK
<1>. QED
  BY <1>1, <1>2, <1>3, <1>4, <1>5 DEF Next, RegisterFails, RegisterAgain, Vacate, StartRead,
     PollIo, ImportFile, vars, runtime

\* Every step keeps the URLs finite in number and within the limit.
LEMMA NextRoom == TypeInv /\ HandleInv /\ HoldInv /\ RoomInv /\ [Next]_vars => RoomInv'
<1>. SUFFICES ASSUME TypeInv, HandleInv, HoldInv, RoomInv, [Next]_vars PROVE RoomInv'
  OBVIOUS
<1>. USE DEF RoomInv
<1>t. TypeOK
  BY DEF TypeInv
<1>c. \A c \in Contexts : reg[c] # None => ConfigOf(c).urls \in Nat
  BY <1>t, ConfigType DEF TypeOK
<1>1. ASSUME NEW c \in Contexts, NEW i \in DOMAIN Extensions, Register(c, i)
      PROVE  RoomInv'
  <2>1. reg[c] = None /\ store' = store
    BY <1>1 DEF Register, MayInstall, runtime
  <2>2. \A d \in Contexts : Live(d)' = Live(d)
    BY <2>1 DEF Live
  <2>3. Cardinality(Live(c)) = 0
    BY <2>1, FS_EmptySet DEF HoldInv, BlankInv
  <2>4. reg'[c] # None => ConfigOf(c)'.urls \in Nat
    <3>1. reg'[c] # None => reg'[c].extension = i
      BY <1>1, <1>t, <2>1 DEF Register, TypeOK
    <3>2. Extensions[i] \in Config
      BY ContextsAssumption
    <3>3. Extensions[i].urls \in Nat
      BY <3>2 DEF Config
    <3>. QED
      BY <3>1, <3>3 DEF ConfigOf
  <2>5. \A d \in Contexts : d # c => reg'[d] = reg[d]
    BY <1>1, <1>t DEF Register, TypeOK
  <2>6. \A d \in Contexts : d # c => ConfigOf(d)' = ConfigOf(d)
    BY <2>5 DEF ConfigOf
  <2>. QED
    BY <2>2, <2>3, <2>4, <2>5, <2>6
<1>2. ASSUME UNCHANGED <<reg, store>>
      PROVE  RoomInv'
  BY <1>2 DEF ConfigOf, Live
<1>3. ASSUME NEW c \in Contexts, NEW b \in Blobs, CreateUrl(c, b)
      PROVE  RoomInv'
  <2>1. PICK u \in Urls :
          /\ u \notin Live(c)
          /\ \A d \in Contexts : Live(d)' = IF d = c THEN Live(c) \cup {u} ELSE Live(d)
    BY <1>3, <1>t, CreateLive
  <2>2. reg' = reg /\ reg[c] # None /\ Cardinality(Live(c)) < ConfigOf(c).urls
    BY <1>3 DEF CreateUrl, Creates, HasRoom
  <2>3. /\ IsFiniteSet(Live(c) \cup {u})
        /\ Cardinality(Live(c) \cup {u}) = Cardinality(Live(c)) + 1
    BY <2>1, FS_AddElement
  <2>4. Cardinality(Live(c)) \in Nat
    BY FS_CardinalityType
  <2>5. \A d \in Contexts : ConfigOf(d)' = ConfigOf(d)
    BY <2>2 DEF ConfigOf
  <2>6. ASSUME NEW d \in Contexts
        PROVE  /\ IsFiniteSet(Live(d)')
               /\ reg[d] # None => Cardinality(Live(d)') <= ConfigOf(d).urls
    <3>1. CASE d = c
      <4>1. Live(d)' = Live(c) \cup {u}
        BY <2>1, <3>1
      <4>2. ConfigOf(c).urls \in Nat
        BY <1>c, <2>2
      <4>3. Cardinality(Live(c) \cup {u}) <= ConfigOf(c).urls
        BY <2>2, <2>3, <2>4, <4>2
      <4>. QED
        BY <2>3, <3>1, <4>1, <4>3
    <3>2. CASE d # c
      BY <2>1, <3>2
    <3>. QED
      BY <3>1, <3>2
  <2>. QED
    BY <2>2, <2>5, <2>6
<1>4. ASSUME NEW c \in Contexts, NEW u \in Urls, RevokeUrl(c, u)
      PROVE  RoomInv'
  <2>1. \A d \in Contexts : Live(d)' \subseteq Live(d)
    BY <1>4, <1>t, RevokeLive
  <2>2. \A d \in Contexts : /\ IsFiniteSet(Live(d)')
                            /\ Cardinality(Live(d)') <= Cardinality(Live(d))
                            /\ Cardinality(Live(d)') \in Nat /\ Cardinality(Live(d)) \in Nat
    BY <2>1, FS_Subset, FS_CardinalityType
  <2>3. reg' = reg
    BY <1>4 DEF RevokeUrl
  <2>. QED
    BY <1>c, <2>2, <2>3 DEF ConfigOf
<1>5. ASSUME NEW h \in handles, NEW c \in Contexts, Shutdown(h, c)
      PROVE  RoomInv'
  <2>1. \A d \in Contexts : Live(d)' = IF d = h.at THEN {} ELSE Live(d)
    BY <1>5, <1>t, ShutdownLive
  <2>2. reg' = reg
    BY <1>5 DEF Shutdown
  <2>3. \A d \in Contexts : ConfigOf(d)' = ConfigOf(d)
    BY <2>2 DEF ConfigOf
  <2>4. IsFiniteSet({}) /\ Cardinality({}) = 0
    BY FS_EmptySet
  <2>5. ASSUME NEW d \in Contexts
        PROVE  /\ IsFiniteSet(Live(d)')
               /\ reg[d] # None => Cardinality(Live(d)') <= ConfigOf(d).urls
    <3>1. CASE d = h.at
      BY <1>c, <2>1, <2>4, <3>1
    <3>2. CASE d # h.at
      BY <2>1, <3>2
    <3>. QED
      BY <3>1, <3>2
  <2>. QED
    BY <2>2, <2>3, <2>5
<1>. QED
  BY <1>1, <1>2, <1>3, <1>4, <1>5 DEF Next, RegisterFails, RegisterAgain, Vacate, StartRead,
     PollIo, ImportFile, vars, runtime

-----------------------------------------------------------------------------
(* The theorems.                                                           *)

IInv == TypeInv /\ HandleInv /\ HoldInv /\ PairInv /\ RoomInv

\* The invariant holds at the start and every step keeps it.
LEMMA Inductive == Spec => []IInv
<1>1. Init => IInv
  BY InitTypes, InitHandles, InitHolds DEF IInv
<1>2. IInv /\ [Next]_vars => IInv'
  BY NextTypes, NextHandles, NextHolds, NextPairs, NextRoom DEF IInv, TypeInv
<1>. QED
  BY <1>1, <1>2, PTL DEF Spec

\* A URL in use leads to the blob it was made for, in its own context, however
\* often a UUID is drawn (create_url_for_specs, BlobUrlStore::insert, resolve).
THEOREM UrlsAlwaysLeadHome == Spec => []UrlsLeadHome
<1>1. IInv => UrlsLeadHome
  <2>. SUFFICES ASSUME IInv, NEW c \in Contexts, NEW u \in Urls
                PROVE  Resolved(c, u) = {g[2] : g \in {g \in given[c] : g[1] = u}}
    BY DEF UrlsLeadHome
  <2>. DEFINE led == {g[2] : g \in {g \in given[c] : g[1] = u}}
  <2>1. given[c] \subseteq Urls \X Blobs
    BY DEF IInv, TypeInv, TypeOK
  <2>2. ASSUME NEW b
        PROVE  b \in led <=> b \in Blobs /\ <<u, b>> \in given[c]
    BY <2>1
  <2>3. /\ store[c][u] # None => store[c][u].owner = Key(ConfigOf(c))
        /\ \A b \in Blobs : <<u, b>> \in given[c] <=> store[c][u] # None /\ b = store[c][u].data
    BY DEF IInv, PairInv
  <2>4. store[c][u] # None => store[c][u].data \in Blobs
    BY DEF IInv, TypeInv, TypeOK, Entry
  <2>5. ASSUME NEW b
        PROVE  b \in Resolved(c, u) <=> b \in led
    <3>. HIDE DEF led
    <3>. QED
      BY <2>2, <2>3, <2>4 DEF Resolved
  <2>. QED
    BY <2>5
<1>. QED
  BY <1>1, Inductive, PTL

\* After shutdown a runtime keeps no URL, no slot and no open file, and before
\* it has no more URLs than its limit (ShutdownFlag::close, shutdown_runtime).
THEOREM ShutdownAlwaysReleases == Spec => []ShutdownReleases
<1>1. IInv => ShutdownReleases
  <2>. SUFFICES ASSUME IInv, NEW c \in Contexts
                PROVE  /\ c \in shut => Live(c) = {} /\ active[c] = 0 /\ imported[c] \cap open = {}
                       /\ reg[c] # None => Cardinality(Live(c)) <= ConfigOf(c).urls
    BY DEF ShutdownReleases
  <2>1. c \in shut => Live(c) = {} /\ active[c] = 0 /\ imported[c] \cap open = {}
    BY DEF IInv, HoldInv, CloserInv
  <2>2. reg[c] # None => Cardinality(Live(c)) <= ConfigOf(c).urls
    BY DEF IInv, RoomInv
  <2>. QED
    BY <2>1, <2>2
<1>. QED
  BY <1>1, Inductive, PTL

\* When every shutdown is given the context of its handle, contexts are
\* independent: a runtime gets back every slot it takes (shutdown_runtime).
THEOREM OwnShutdownsIndependent ==
    ASSUME ~Loose
    PROVE  Spec => []ContextsIndependent
<1>1. Init => ContextsIndependent
  BY DEF Init, ContextsIndependent
<1>2. TypeOK /\ HandleInv /\ ContextsIndependent /\ [Next]_vars => ContextsIndependent'
  <2>. SUFFICES ASSUME TypeOK, HandleInv, ContextsIndependent, [Next]_vars
                PROVE  ContextsIndependent'
    OBVIOUS
  <2>. USE DEF ContextsIndependent
  <2>1. ASSUME UNCHANGED <<shut, roots, active>>
        PROVE  ContextsIndependent'
    BY <2>1
  <2>2. ASSUME NEW c \in Contexts, StartRead(c)
        PROVE  ContextsIndependent'
    BY <2>2 DEF StartRead, TypeOK
  <2>3. ASSUME NEW h \in handles, NEW c \in Contexts, PollIo(h, c)
        PROVE  ContextsIndependent'
    BY <2>3 DEF PollIo, Freed, TypeOK
  <2>4. ASSUME NEW h \in handles, NEW c \in Contexts, Shutdown(h, c)
        PROVE  ContextsIndependent'
    <3>1. c = h.at /\ shut' = shut \cup {c} /\ roots' = [roots EXCEPT ![c] = 0]
      BY <2>4 DEF Shutdown
    <3>2. \A d \in Contexts : d # c => active'[d] = active[d]
      BY <2>4, <3>1 DEF Shutdown, TypeOK
    <3>. QED
      BY <3>1, <3>2 DEF TypeOK
  <2>. QED
    BY <2>1, <2>2, <2>3, <2>4 DEF Next, Register, RegisterFails, RegisterAgain, Vacate,
       CreateUrl, RevokeUrl, ImportFile, vars, runtime
<1>3. Spec => []HandleInv
  BY ContextsTypeCorrect, InitHandles, NextHandles, PTL DEF Spec
<1>. QED
  BY <1>1, <1>2, <1>3, ContextsTypeCorrect, PTL DEF Spec

-----------------------------------------------------------------------------
(* Registrations are whole.                                                *)

\* What concatenation returns.
LEMMA ConcatFacts ==
    ASSUME NEW S, NEW s \in Seq(S), NEW t \in Seq(S)
    PROVE  /\ s \o t \in Seq(S)
           /\ Len(s \o t) = Len(s) + Len(t)
           /\ \A i \in 1 .. Len(s) : (s \o t)[i] = s[i]
           /\ \A i \in 1 .. Len(t) : (s \o t)[Len(s) + i] = t[i]
OBVIOUS

\* Sequences of at most one name.
LEMMA ShortFacts ==
    ASSUME NEW S, NEW x \in S, NEW b \in BOOLEAN
    PROVE  /\ (IF b THEN <<x>> ELSE << >>) \in Seq(S)
           /\ Len(IF b THEN <<x>> ELSE << >>) \in 0 .. 1
OBVIOUS

\* What is installed has names, all of which were looked at before.
LEMMA OrderFacts ==
    ASSUME NEW e, e.url \in BOOLEAN
    PROVE  /\ InstallOrder(e) \in Seq(Names)
           /\ Len(InstallOrder(e)) \in 9 .. 11
           /\ \A k \in 1 .. Len(InstallOrder(e)) : InstallOrder(e)[k] \in Preflighted(e)
<1>1. Interfaces \in Seq(Names) /\ Len(Interfaces) = 9
  <2>1. Interfaces \in Seq({Interfaces[k] : k \in DOMAIN Interfaces})
    BY DEF Interfaces
  <2>2. Len(Interfaces) = 9
    BY DEF Interfaces
  <2> QED
    BY <2>1, <2>2 DEF Names
<1>2. PICK sync : sync = IF IsWorker(e) THEN <<"FileReaderSync">> ELSE << >>
  OBVIOUS
<1>3. PICK url : url = IF e.url THEN <<"URL">> ELSE << >>
  OBVIOUS
<1>4. "FileReaderSync" \in Names /\ "URL" \in Names /\ IsWorker(e) \in BOOLEAN
  BY DEF Names, IsWorker
<1>5. sync \in Seq(Names) /\ Len(sync) \in 0 .. 1
  BY ONLY <1>2, <1>4, ShortFacts
<1>6. url \in Seq(Names) /\ Len(url) \in 0 .. 1
  BY ONLY <1>3, <1>4, ShortFacts, e.url \in BOOLEAN
<1>7. Optional(e) = sync \o url
  BY <1>2, <1>3 DEF Optional
<1>8. PICK o : o = Optional(e)
  OBVIOUS
<1>9. o \in Seq(Names) /\ Len(o) = Len(sync) + Len(url)
  BY ONLY <1>5, <1>6, <1>7, <1>8, ConcatFacts
<1>10. PICK s : s = Interfaces
  OBVIOUS
<1>11. InstallOrder(e) = s \o o
  BY <1>8, <1>10 DEF InstallOrder
<1>12. /\ s \o o \in Seq(Names)
       /\ Len(s \o o) = Len(s) + Len(o)
       /\ \A i \in 1 .. Len(s) : (s \o o)[i] = s[i]
       /\ \A i \in 1 .. Len(o) : (s \o o)[Len(s) + i] = o[i]
  <2>1. s \in Seq(Names)
    BY ONLY <1>1, <1>10
  <2>2. o \in Seq(Names)
    BY ONLY <1>9
  <2> QED
    BY ONLY <2>1, <2>2, ConcatFacts
<1>13. Len(s) = 9 /\ Len(o) \in 0 .. 2
  <2>1. Len(s) = 9
    BY ONLY <1>1, <1>10
  <2>2. ASSUME NEW m \in 0 .. 1, NEW n \in 0 .. 1 PROVE m + n \in 0 .. 2
    OBVIOUS
  <2>3. Len(o) \in 0 .. 2
    BY ONLY <1>5, <1>6, <1>9, <2>2
  <2> QED
    BY ONLY <2>1, <2>3
<1>14. ASSUME NEW k \in 1 .. Len(s \o o) PROVE (s \o o)[k] \in Preflighted(e)
  <2>1. CASE k <= 9
    <3>1. k \in 1 .. Len(s)
      BY <1>12, <1>13, <2>1
    <3>2. s \in Seq(Names)
      BY ONLY <1>1, <1>10
    <3>3. k \in DOMAIN Interfaces
      BY ONLY <3>1, <3>2, <1>10
    <3>4. (s \o o)[k] = Interfaces[k]
      BY ONLY <1>10, <1>12, <3>1
    <3> QED
      BY <3>3, <3>4 DEF Preflighted
  <2>2. CASE ~(k <= 9)
    <3>1. k - 9 \in 1 .. Len(o) /\ k = Len(s) + (k - 9)
      BY <1>12, <1>13, <2>2
    <3>2. (s \o o)[k] = o[k - 9]
      BY ONLY <1>12, <3>1
    <3>3. k - 9 \in DOMAIN Optional(e)
      BY <1>8, <1>9, <3>1
    <3> QED
      BY <1>8, <3>2, <3>3 DEF Preflighted
  <2> QED
    BY ONLY <2>1, <2>2
<1>15. Len(s \o o) \in 9 .. 11
  BY <1>12, <1>13
<1> QED
  BY ONLY <1>11, <1>12, <1>14, <1>15

\* A global object resists a name first, or none of them.
LEMMA FirstFacts ==
    ASSUME NEW order \in Seq(Names), Len(order) \in 9 .. 11, NEW resisted
    PROVE  /\ FirstAmong(order, resisted) \in 1 .. Len(order) + 1
           /\ FirstAmong(order, resisted) <= Len(order)
                 => order[FirstAmong(order, resisted)] \in resisted
           /\ \A j \in 1 .. FirstAmong(order, resisted) - 1 : order[j] \notin resisted
<1>. DEFINE Before(k) == \A j \in 1 .. k - 1 : order[j] \notin resisted
            IsFirst(k) == (k <= Len(order) => order[k] \in resisted) /\ Before(k)
<1>1. \E k \in 1 .. Len(order) + 1 : IsFirst(k)
  <2>. SUFFICES ASSUME \A k \in 1 .. Len(order) + 1 : ~IsFirst(k) PROVE FALSE
    OBVIOUS
  <2>1. ASSUME NEW k \in 1 .. 12, k <= Len(order) + 1, Before(k)
        PROVE  k + 1 <= Len(order) + 1 /\ Before(k + 1)
    <3>1. ~IsFirst(k)
      BY <2>1
    <3>2. k <= Len(order) /\ order[k] \notin resisted
      BY <2>1, <3>1
    <3>3. ASSUME NEW j \in 1 .. (k + 1) - 1 PROVE order[j] \notin resisted
      BY <2>1, <3>2
    <3> QED
      BY <3>2, <3>3
  <2>2. Before(1)
    OBVIOUS
  <2>. HIDE DEF Before
  <2>3. Before(5) /\ 5 <= Len(order) + 1
    BY <2>1, <2>2
  <2>4. Before(9) /\ 9 <= Len(order) + 1
    BY <2>1, <2>3
  <2>5. 13 <= Len(order) + 1
    BY <2>1, <2>4
  <2> QED
    BY <2>5
<1> QED
  BY <1>1 DEF FirstAmong

\* Setting the owners of one global object leaves the others alone.
LEMMA OwnersAfter ==
    ASSUME TypeOK, NEW c \in Contexts, NEW owners,
           global' = [global EXCEPT ![c].owner = owners]
    PROVE  /\ global'[c].owner = owners
           /\ \A d \in Contexts \ {c} : global'[d] = global[d]
<1>1. global \in [Contexts -> Global] /\ global[c] \in Global
  BY DEF TypeOK
<1>2. global'[c] = [global[c] EXCEPT !.owner = owners]
  BY <1>1
<1>3. global'[c].owner = owners
  BY <1>1, <1>2 DEF Global
<1> QED
  BY <1>1, <1>3

\* What RegistersWhole says of one context.
Whole(c) ==
    Ours(c)' # Ours(c) =>
       /\ \A n \in Names : global[c].owner[n] = "host" => global'[c].owner[n] = "host"
       /\ IF reg'[c] = None
          THEN global[c].keeps # {} \/ nextId = LastContextId
          ELSE LET order == InstallOrder(Extensions[reg'[c].extension])
                   names == {order[k] : k \in DOMAIN order}
               IN  /\ \A n \in names : global[c].owner[n] = "absent"
                   /\ Ours(c)' = Ours(c) \cup names

\* What register knows before it touches the global object.
LEMMA InstallFacts ==
    ASSUME TypeOK, NEW c \in Contexts, NEW i \in DOMAIN Extensions, MayInstall(c, i)
    PROVE  LET order == InstallOrder(Extensions[i])
           IN  /\ order \in Seq(Names) /\ Len(order) \in 9 .. 11
               /\ \A k \in 1 .. Len(order) : global[c].owner[order[k]] = "absent"
               /\ global[c] \in Global /\ global[c].owner \in [Names -> Owners]
<1>1. Extensions[i] \in Config
  BY ContextsAssumption
<1>2. Extensions[i].url \in BOOLEAN
  BY <1>1 DEF Config
<1>3. global[c] \in Global /\ global[c].owner \in [Names -> Owners]
  BY DEF TypeOK, Global
<1> QED
  BY <1>2, <1>3, OrderFacts DEF MayInstall

\* A registration that installs everything is whole.
LEMMA RegisterWhole ==
    ASSUME TypeOK, NEW c \in Contexts, NEW i \in DOMAIN Extensions, Register(c, i),
           NEW d \in Contexts
    PROVE  Whole(d)
<1>1. PICK order : order = InstallOrder(Extensions[i])
  OBVIOUS
<1>2. PICK stop : stop = FirstAmong(order, global[c].refuses)
  OBVIOUS
<1>3. /\ order \in Seq(Names) /\ Len(order) \in 9 .. 11
      /\ \A k \in 1 .. Len(order) : global[c].owner[order[k]] = "absent"
      /\ global[c] \in Global /\ global[c].owner \in [Names -> Owners]
  BY <1>1, InstallFacts DEF Register
<1>4. stop = Len(order) + 1
  <2>1. stop \in 1 .. Len(order) + 1
    BY <1>2, <1>3, FirstFacts
  <2>2. stop > Len(order)
    BY <1>1, <1>2 DEF Register
  <2> QED
    BY <1>3, <2>1, <2>2
<1>5. PICK owners : owners = Settled(global[c].owner, order, stop, "ours")
  OBVIOUS
<1>6. global' = [global EXCEPT ![c].owner = owners]
  BY <1>1, <1>2, <1>5 DEF Register
<1>7. global'[c].owner = owners /\ \A e \in Contexts \ {c} : global'[e] = global[e]
  BY <1>6, OwnersAfter
<1>8. PICK names : names = {order[k] : k \in DOMAIN order}
  OBVIOUS
<1>9. names \subseteq Names /\ \A n \in names : global[c].owner[n] = "absent"
  BY <1>3, <1>8
<1>10. \A n \in Names : owners[n] = IF n \in names THEN "ours" ELSE global[c].owner[n]
  <2>1. ASSUME NEW n \in Names PROVE n \in names <=> \E j \in 1 .. stop - 1 : order[j] = n
    BY <1>3, <1>4, <1>8
  <2> QED
    BY <1>5, <2>1 DEF Settled
<1>11. CASE d # c
  BY <1>7, <1>11 DEF Whole, Ours
<1>12. CASE d = c
  <2>1. \A n \in Names : global[c].owner[n] = "host" => global'[c].owner[n] = "host"
    BY <1>7, <1>9, <1>10
  <2>2. Ours(c)' = Ours(c) \cup names
    BY <1>7, <1>9, <1>10 DEF Ours
  <2>3. CASE nextId = LastContextId
    <3>1. reg'[c] = None
      BY <2>3 DEF Register, MayInstall
    <3> QED
      BY <1>12, <2>1, <2>3, <3>1 DEF Whole
  <2>4. CASE nextId # LastContextId
    <3>1. reg'[c] = [extension |-> i, id |-> nextId]
      BY <2>4 DEF Register, TypeOK
    <3>2. reg'[c].extension = i /\ reg'[c] # None
      <4>1. nextId \in 1 .. LastContextId - 1
        BY <2>4, ContextsAssumption DEF TypeOK
      <4> QED
        BY <3>1, <4>1, NoneAssumption DEF Registration
    <3> QED
      BY <1>1, <1>8, <1>9, <1>12, <2>1, <2>2, <3>2 DEF Whole
  <2> QED
    BY ONLY <2>3, <2>4
<1> QED
  BY ONLY <1>11, <1>12

\* A registration that fails deletes what it defined, if it may.
LEMMA FailsWhole ==
    ASSUME TypeOK, NEW c \in Contexts, NEW i \in DOMAIN Extensions, RegisterFails(c, i),
           NEW d \in Contexts
    PROVE  Whole(d)
<1>1. PICK order : order = InstallOrder(Extensions[i])
  OBVIOUS
<1>2. PICK stop : stop = FirstAmong(order, global[c].refuses)
  OBVIOUS
<1>3. /\ order \in Seq(Names) /\ Len(order) \in 9 .. 11
      /\ \A k \in 1 .. Len(order) : global[c].owner[order[k]] = "absent"
      /\ global[c] \in Global /\ global[c].owner \in [Names -> Owners]
  BY <1>1, InstallFacts DEF RegisterFails
<1>4. stop \in 1 .. Len(order)
  <2>1. stop \in 1 .. Len(order) + 1
    BY <1>2, <1>3, FirstFacts
  <2>2. stop <= Len(order)
    BY <1>1, <1>2 DEF RegisterFails
  <2> QED
    BY <1>3, <2>1, <2>2
<1>5. PICK one : one = Settled(global[c].owner, order, stop, "ours")
  OBVIOUS
<1>6. PICK kept : kept = {n \in global[c].keeps : one[n] = "ours"}
  OBVIOUS
<1>7. PICK last : last = FirstAmong(order, kept)
  OBVIOUS
<1>8. PICK two : two = Settled(one, order, last, "absent")
  OBVIOUS
<1>9. RollbackOrder(Extensions[i]) = order
  BY <1>1 DEF RollbackOrder, InstallOrder
<1>10. global' = [global EXCEPT ![c].owner = two] /\ reg' = reg /\ reg[c] = None
  BY <1>1, <1>2, <1>5, <1>6, <1>7, <1>8, <1>9 DEF RegisterFails, MayInstall
<1>11. global'[c].owner = two /\ \A e \in Contexts \ {c} : global'[e] = global[e]
  BY <1>10, OwnersAfter
<1>12. last \in 1 .. Len(order) + 1 /\ (last <= Len(order) => order[last] \in kept)
  BY <1>3, <1>7, FirstFacts
<1>13. CASE d # c
  BY <1>11, <1>13 DEF Whole, Ours
<1>14. CASE d = c
  <2>1. ASSUME NEW n \in Names, global[c].owner[n] = "host" PROVE two[n] = "host"
    <3>1. \A j \in 1 .. Len(order) : order[j] # n
      BY <1>3, <2>1
    <3>2. ~ \E j \in 1 .. stop - 1 : order[j] = n
      BY <1>3, <1>4, <3>1
    <3>3. ~ \E j \in 1 .. last - 1 : order[j] = n
      BY <1>3, <1>12, <3>1
    <3> QED
      BY <1>5, <1>8, <2>1, <3>2, <3>3 DEF Settled
  <2>2. CASE global[c].keeps = {}
    <3>1. last = Len(order) + 1
      BY <1>3, <1>6, <1>12, <2>2
    <3>2. ASSUME NEW n \in Names PROVE two[n] = "ours" <=> global[c].owner[n] = "ours"
      <4>1. CASE \E j \in 1 .. Len(order) : order[j] = n
        <5>1. global[c].owner[n] = "absent"
          BY <1>3, <4>1
        <5>2. \E j \in 1 .. last - 1 : order[j] = n
          BY <1>3, <3>1, <4>1
        <5> QED
          BY <1>8, <5>1, <5>2 DEF Settled
      <4>2. CASE ~ \E j \in 1 .. Len(order) : order[j] = n
        <5>1. ~ \E j \in 1 .. stop - 1 : order[j] = n
          BY <1>3, <1>4, <4>2
        <5>2. ~ \E j \in 1 .. last - 1 : order[j] = n
          BY <1>3, <1>12, <4>2
        <5> QED
          BY <1>5, <1>8, <5>1, <5>2 DEF Settled
      <4> QED
        BY ONLY <4>1, <4>2
    <3>3. Ours(c)' = Ours(c)
      BY <1>11, <3>2 DEF Ours
    <3> QED
      BY <1>14, <3>3 DEF Whole
  <2>3. CASE global[c].keeps # {}
    BY <1>10, <1>11, <1>14, <2>1, <2>3 DEF Whole
  <2> QED
    BY ONLY <2>2, <2>3
<1> QED
  BY ONLY <1>13, <1>14

\* The host taking off a name of its own takes none of ours.
LEMMA VacateWhole ==
    ASSUME TypeOK, NEW c \in Contexts, NEW n \in Names, Vacate(c, n), NEW d \in Contexts
    PROVE  Ours(d)' = Ours(d)
<1>1. global \in [Contexts -> Global] /\ global[c] \in Global
      /\ global[c].owner \in [Names -> Owners]
  BY DEF TypeOK, Global
<1>2. PICK owners : owners = [global[c].owner EXCEPT ![n] = "absent"]
  OBVIOUS
<1>3. global' = [global EXCEPT ![c].owner = owners] /\ global[c].owner[n] = "host"
  BY <1>2 DEF Vacate
<1>4. global'[c].owner = owners /\ \A e \in Contexts \ {c} : global'[e] = global[e]
  BY <1>3, OwnersAfter
<1>5. \A m \in Names : owners[m] = "ours" <=> global[c].owner[m] = "ours"
  BY <1>1, <1>2, <1>3
<1> QED
  BY <1>4, <1>5 DEF Ours

\* A registration installs all of its names, none of which was there before, or
\* gives all of them back, unless the global object keeps some or the context
\* ids ran out (register, install_globals, rollback_globals).
THEOREM RegistrationsAreWhole == Spec => RegistersWhole
<1>1. TypeOK /\ [Next]_vars => \A c \in Contexts : Whole(c)
  <2>. SUFFICES ASSUME TypeOK, [Next]_vars, NEW c \in Contexts PROVE Whole(c)
    OBVIOUS
  <2>1. ASSUME global' = global PROVE Whole(c)
    BY <2>1 DEF Whole, Ours
  <2>2. ASSUME NEW d \in Contexts, NEW i \in DOMAIN Extensions, Register(d, i) PROVE Whole(c)
    BY <2>2, RegisterWhole
  <2>3. ASSUME NEW d \in Contexts, NEW i \in DOMAIN Extensions, RegisterFails(d, i)
        PROVE  Whole(c)
    BY <2>3, FailsWhole
  <2>4. ASSUME NEW d \in Contexts, NEW n \in Names, Vacate(d, n) PROVE Whole(c)
    <3>1. Ours(c)' = Ours(c)
      BY <2>4, VacateWhole
    <3> QED
      BY <3>1 DEF Whole
  <2> QED
    BY <2>1, <2>2, <2>3, <2>4 DEF Next, RegisterAgain, CreateUrl, RevokeUrl, StartRead, PollIo,
       Shutdown, ImportFile, vars
<1>2. TypeOK /\ [Next]_vars =>
         [\A c \in Contexts : Ours(c)' # Ours(c) =>
             /\ \A n \in Names : global[c].owner[n] = "host" => global'[c].owner[n] = "host"
             /\ IF reg'[c] = None
                THEN global[c].keeps # {} \/ nextId = LastContextId
                ELSE LET order == InstallOrder(Extensions[reg'[c].extension])
                         names == {order[k] : k \in DOMAIN order}
                     IN  /\ \A n \in names : global[c].owner[n] = "absent"
                         /\ Ours(c)' = Ours(c) \cup names]_vars
  BY <1>1 DEF Whole
<1> QED
  BY <1>2, ContextsTypeCorrect, PTL DEF Spec, RegistersWhole

=============================================================================
