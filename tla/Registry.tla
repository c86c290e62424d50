------------------------------ MODULE Registry ------------------------------
(***************************************************************************)
(* The registry of frames: which physical frame an entry of the store      *)
(* stands for, as addresses change, as one device shows up under several   *)
(* ids, and as entries are merged and removed.                             *)
(*                                                                         *)
(* A connected frame is known by its GUID, or by its address as long as    *)
(* the GUID has not been read.  A served frame is known by any of the ids  *)
(* that its requests carry, which the alias table maps to one of them.     *)
(*                                                                         *)
(* A handler that reads and writes the store without suspending is one     *)
(* step; an operation on a connected frame suspends while it talks to it.  *)
(***************************************************************************)
EXTENDS FiniteSets, Naturals, Sequences

CONSTANTS
  Lan,        \* the connected frames; such a frame is its GUID
  Guidless,   \* those that report no GUID, or a null one
  Ip,         \* addresses
  Leases,     \* connected frame -> the addresses it may be given
  Serial,     \* the ids that served frames present
  Owner,      \* serial -> the device whose id it is
  Requests,   \* the sequences of ids that requests carry
  Numeric,    \* serial -> the number the app is told for a frame with this
              \* id, None if the app does not use it
  Homes,      \* the sets of frames a home may have
  None,
  Edits       \* home -> bound on what its users do

Id == Lan \cup Ip \cup Serial
Device == Lan \cup {Owner[s] : s \in Serial}

(* GUIDs, addresses and the ids of served frames look different.           *)
ASSUME IdAssumption == Lan \cap Ip = {} /\ Lan \cap Serial = {} /\ Ip \cap Serial = {}
ASSUME RegistryAssumption ==
  /\ Guidless \subseteq Lan
  /\ Leases \in [Lan -> SUBSET Ip \ {{}}]
  /\ Numeric \in [Serial -> Serial \cup {None}]
  /\ \A c \in Requests : c \in Seq(Serial) /\ c # <<>>
  /\ \A c \in Requests : \A i, j \in DOMAIN c : Owner[c[i]] = Owner[c[j]]
  /\ \A s, r \in Serial : r = Numeric[s] =>
       Owner[r] = Owner[s] /\ \A q \in Serial : Numeric[q] = r => q = s
  /\ Homes \subseteq SUBSET Device /\ None \notin Id /\ Edits \in [Homes -> Nat]

VARIABLES
  store,     \* the tables that are keyed by a frame's id
  cache,     \* the ids that have prepared images in the cache
  here,      \* the frames of this home
  home,      \* connected frame -> its present address
  had,       \* address -> the frames that have had it so far
  op,        \* the operation under way on a connected frame, or None
  linked,    \* pairs of serials that one request has carried (see Astray)
  edits

vars == <<store, cache, here, home, had, op, linked, edits>>

(* The last is chosen, too, but looks like an address or the bare id.      *)
Names == {"", "reported", "chosen", "dotted"}

(* known: the frame table.  rows: for which devices a library row was      *)
(* written under this id.  sent: a delivery row says 'delivered'.          *)
Store == [known : SUBSET Id, addr : [Id -> Ip \cup {None}],
          name : [Id -> Names], rows : [Id -> SUBSET Device],
          sent : SUBSET Id, alias : [Id -> Id \cup {None}], merged : SUBSET Id]

Op == [host : Id, to : Ip, config : BOOLEAN, again : BOOLEAN]

TypeOK ==
  /\ store \in Store
  /\ cache \subseteq Id /\ here \in Homes
  /\ home \in [Lan -> Ip] /\ \A d \in Lan : home[d] \in Leases[d]
  /\ had \in [Ip -> SUBSET Lan]
  /\ op \in Op \cup {None}
  /\ linked \subseteq Serial \X Serial
  /\ edits \in 0 .. Edits[here]

Init ==
  /\ store = [known |-> {}, addr |-> [i \in Id |-> None],
              name |-> [i \in Id |-> ""], rows |-> [i \in Id |-> {}],
              sent |-> {}, alias |-> [i \in Id |-> None], merged |-> {}]
  /\ cache = {} /\ op = None /\ linked = {} /\ edits = 0
  /\ here \in Homes
  /\ home \in {h \in [Lan -> Ip] : \A d \in Lan : h[d] \in Leases[d]}
  /\ \A d, e \in here \cap Lan : home[d] = home[e] => d = e
  /\ \A d \in Lan \ here : home[d] = CHOOSE a \in Leases[d] : TRUE
  /\ had = [a \in Ip |-> {d \in here \cap Lan : home[d] = a}]

-----------------------------------------------------------------------------
(* The operations of the store.                                            *)

(* Variant: a frame that reports no name is named after its id.            *)
UpsertedById(S, i, a, name) ==
  [S EXCEPT !.known = @ \cup {i}, !.addr[i] = a,
            !.name[i] = IF name # "" THEN name ELSE i]

Upserted(S, i, a, name) ==
  [S EXCEPT !.known = @ \cup {i}, !.addr[i] = a,
            !.name[i] = IF name # "" THEN name ELSE @]

(* Variant: the rows stay where they are.                                  *)
RekeyedFrameOnly(S, olds, new) ==
  LET from == olds \ {new} IN
  [S EXCEPT
     !.known = @ \ from,
     !.addr = [i \in Id |-> IF i \in from THEN None ELSE @[i]],
     !.name = [i \in Id |-> IF i \in from THEN "" ELSE @[i]],
     !.rows = [i \in Id |-> IF i \in from THEN {} ELSE @[i]],
     !.sent = @ \ from,
     !.alias = [a \in Id |-> IF a \in from \/ @[a] \in from THEN new ELSE @[a]],
     !.merged = IF from = {} THEN @ ELSE @ \cup {new}]

(* rekey_frame, for each of olds.  Images and bindings stay behind.         *)
Rekeyed(S, olds, new) ==
  LET from == olds \ {new} IN
  [S EXCEPT
     !.known = @ \ from,
     !.addr = [i \in Id |-> IF i \in from THEN None ELSE @[i]],
     !.name = [i \in Id |-> IF i \in from THEN "" ELSE @[i]],
     !.rows = [i \in Id |-> IF i = new THEN UNION {@[j] : j \in from \cup {new}}
                            ELSE IF i \in from THEN {} ELSE @[i]],
     !.sent = IF @ \cap from = {} THEN @ ELSE (@ \ from) \cup {new},
     !.alias = [a \in Id |-> IF a \in from \/ @[a] \in from THEN new ELSE @[a]],
     !.merged = IF from = {} THEN @ ELSE @ \cup {new}]

(* Variant: other names of the frame are forgotten with the frame only.    *)
PurgedKeepsAliases(S, i) ==
  [S EXCEPT !.known = @ \ {i}, !.addr[i] = None, !.name[i] = "", !.rows[i] = {},
            !.sent = @ \ {i}, !.merged = @ \ {i}, !.alias[i] = None]

(* Variant: the deliveries stay.                                           *)
PurgedKeepsQueue(S, i) ==
  [S EXCEPT !.known = @ \ {i}, !.addr[i] = None, !.name[i] = "", !.rows[i] = {},
            !.merged = @ \ {i},
            !.alias = [a \in Id |-> IF a = i \/ @[a] = i THEN None ELSE @[a]]]

Purged(S, i) ==
  [S EXCEPT !.known = @ \ {i}, !.addr[i] = None, !.name[i] = "", !.rows[i] = {},
            !.sent = @ \ {i}, !.merged = @ \ {i},
            !.alias = [a \in Id |-> IF a = i \/ @[a] = i THEN None ELSE @[a]]]

(* LIMIT 1 in no particular order; None if there is no such row.           *)
AtAddress(S, a) ==
  LET found == {i \in S.known : S.addr[i] = a} IN IF found = {} THEN {None} ELSE found

Renamed(S, i, name) == [S EXCEPT !.name[i] = name]

(* Variant: a name that the frame reports always counts.                   *)
NameCapturedAlways(S, i) == [S EXCEPT !.name[i] = "reported"]

(* A name that the frame reports counts until there is one that looks like *)
(* a name.                                                                 *)
NameCaptured(S, i) ==
  [S EXCEPT !.name[i] = IF @ \in {"", "dotted"} THEN "reported" ELSE @]

(* link_alias, for each of the ids.                                        *)
Linked(S, ids, i) == [S EXCEPT !.alias = [a \in Id |-> IF a \in ids THEN i ELSE @[a]]]

-----------------------------------------------------------------------------
(* Served frames.                                                          *)

Canonical(S, i) ==
  IF S.alias[i] # None THEN S.alias[i] ELSE IF i \in S.known THEN i ELSE None

(* The ids of a request that lead to a frame, and the first such frame.    *)
Found(S, c) == {k \in DOMAIN c : Canonical(S, c[k]) # None}
First(S, c) ==
  IF Found(S, c) = {} THEN c[1]
  ELSE Canonical(S, c[CHOOSE k \in Found(S, c) : \A j \in Found(S, c) : k <= j])

(* A new frame is registered; otherwise the frames that the other ids      *)
(* stand for are the same device as the first and are merged into it.      *)
Unified(S, c) ==
  IF Found(S, c) = {} THEN Upserted(S, First(S, c), None, "")
  ELSE Rekeyed(S, {Canonical(S, c[k]) : k \in Found(S, c)}, First(S, c))

(* Variant: only the first id is linked.                                   *)
ResolvedFirst(S, c) == Linked(Unified(S, c), {c[1]}, First(S, c))

Resolved(S, c) == Linked(Unified(S, c), {c[k] : k \in DOMAIN c}, First(S, c))

(* Ids with an entry of their own that a listing gave to another entry.    *)
Astray(S) == {i \in S.known : S.alias[i] \notin {None, i}}

Request(c) ==
  /\ Owner[c[1]] \in here
  /\ store' = Resolved(store, c)
  /\ linked' = linked \cup
       {p \in {<<c[1], c[k]>> : k \in DOMAIN c \ {1}} : {p[1], p[2]} \cap Astray(store) = {}}
  /\ UNCHANGED <<cache, here, home, had, op, edits>>

(* Variant: every number leads to the frame that is listed first.          *)
FrameListFirst ==
  LET served == store.known \cap Serial IN
  /\ served # {}
  /\ store' = [store EXCEPT !.alias = [a \in Id |->
       IF \E i \in served : Numeric[i] = a THEN CHOOSE i \in served : TRUE ELSE @[a]]]
  /\ UNCHANGED <<cache, here, home, had, op, linked, edits>>

(* The app lists the frames and learns a number for each.  The number is   *)
(* not merged but re-pointed, should it have stood for another entry.      *)
FrameList ==
  LET served == store.known \cap Serial IN
  /\ served # {}
  /\ store' = [store EXCEPT !.alias = [a \in Id |->
       IF \E i \in served : Numeric[i] = a
       THEN CHOOSE i \in served : Numeric[i] = a ELSE @[a]]]
  /\ linked' = {p \in linked : /\ Canonical(store', p[1]) = Canonical(store', p[2])
                              /\ {p[1], p[2]} \cap Astray(store') = {}}
  /\ UNCHANGED <<cache, here, home, had, op, edits>>

-----------------------------------------------------------------------------
(* Connected frames.                                                       *)

StableId(d, a) == IF d \in Guidless THEN a ELSE d

Address(S, h) == IF h \in S.known /\ S.addr[h] # None THEN S.addr[h] ELSE h

(* A frame that answers a broadcast is registered under its stable id.     *)
Discovered(S, d) ==
  LET a == home[d]  i == StableId(d, a) IN
  {Upserted(IF i # a /\ legacy = a THEN Rekeyed(S, {a}, i) ELSE S, i, a, "reported") :
     legacy \in AtAddress(S, a)}

Discover(d) ==
  /\ d \in here
  /\ store' \in Discovered(store, d)
  /\ UNCHANGED <<cache, here, home, had, op, linked, edits>>

(* Any handle the UI has, or an address that is typed in.                  *)
Begin(h, config) ==
  /\ op = None /\ h \in (store.known \cap Lan) \cup Ip
  /\ Address(store, h) \in Ip
  /\ op' = [host |-> h, to |-> Address(store, h), config |-> config, again |-> FALSE]
  /\ UNCHANGED <<store, cache, here, home, had, linked, edits>>

(* We reached it: it is recorded as seen, if need be by its address.       *)
Reached(S, a) == IF AtAddress(S, a) = {None} THEN Upserted(S, a, a, "") ELSE S

(* A config read: whatever entry is at this address is this frame; a name  *)
(* that was chosen stays.                                                  *)
Captured(S, a, d) ==
  UNION {
    LET it == IF d \notin Guidless THEN d ELSE IF current # None THEN current ELSE a
        M == IF current \notin {None, it} THEN Rekeyed(S, {current}, it) ELSE S
        U == Upserted(M, StableId(d, a), a, "")
    IN {NameCaptured(U, it)} :
    current \in AtAddress(S, a)}

Answered(d) ==
  /\ op # None /\ d \in here /\ home[d] = op.to
  /\ LET S == Reached(store, op.to) IN
     IF op.config /\ Address(S, op.host) \in Ip
     THEN store' \in Captured(S, Address(S, op.host), d)
     ELSE store' = S
  /\ op' = None
  /\ UNCHANGED <<cache, here, home, had, linked, edits>>

(* No answer: it may have moved.  Whoever answers a broadcast is           *)
(* registered, and the operation is tried once more if the address changed.*)
Unanswered ==
  /\ op # None
  /\ store' \in {store} \cup IF op.again THEN {} ELSE UNION {Discovered(store, d) : d \in here \cap Lan}
  /\ LET to == Address(store', op.host) IN
     op' = IF ~op.again /\ to # op.to /\ to \in Ip
           THEN [op EXCEPT !.to = to, !.again = TRUE] ELSE None
  /\ UNCHANGED <<cache, here, home, had, linked, edits>>

Move(d, a) ==
  /\ d \in here /\ a \in Leases[d]
  /\ \A e \in here \cap Lan : home[e] # a
  /\ home' = [home EXCEPT ![d] = a]
  /\ had' = [had EXCEPT ![a] = @ \cup {d}]
  /\ UNCHANGED <<store, cache, here, op, linked, edits>>

-----------------------------------------------------------------------------
(* Users.                                                                  *)

(* The devices that a user who looks at an entry may mean.                 *)
Meant(i) ==
  IF i \in Lan THEN {i} ELSE IF i \in Serial THEN {Owner[i]} ELSE had[i]

Edit == edits < Edits[here] /\ edits' = edits + 1
Cleared(i) == cache \ {i}

Curate(i) ==
  /\ Edit /\ i \in store.known
  /\ \E d \in Meant(i) : store' = [store EXCEPT !.rows[i] = @ \cup {d}]
  /\ UNCHANGED <<cache, here, home, had, op, linked>>

(* The queue is drained: prepared for the entry and marked.                *)
Deliver(i) ==
  /\ i \in store.known \cap Serial /\ store.rows[i] # {} /\ i \notin store.sent
  /\ store' = [store EXCEPT !.sent = @ \cup {i}]
  /\ cache' = cache \cup {i}
  /\ UNCHANGED <<here, home, had, op, linked, edits>>

Rename(i) ==
  /\ Edit /\ i \in store.known
  /\ \E name \in {"chosen", "dotted"} : store' = Renamed(store, i, name)
  /\ UNCHANGED <<cache, here, home, had, op, linked>>

Deregister(i) ==
  /\ Edit /\ i \in store.known
  /\ store' = Purged(store, i)
  /\ cache' = Cleared(i)
  /\ linked' = {p \in linked : i \notin {p[1], p[2], Canonical(store, p[1])}}
  /\ UNCHANGED <<here, home, had, op>>

-----------------------------------------------------------------------------
Next ==
  \/ \E c \in Requests : Request(c)
  \/ FrameList
  \/ \E d \in Lan : Discover(d) \/ Answered(d) \/ \E a \in Ip : Move(d, a)
  \/ \E h \in Lan \cup Ip, config \in BOOLEAN : Begin(h, config)
  \/ Unanswered
  \/ \E i \in Id : Curate(i) \/ Deliver(i) \/ Rename(i) \/ Deregister(i)

Spec == Init /\ [][Next]_vars

-----------------------------------------------------------------------------
(* Properties.                                                             *)

(* An alias leads to a registered frame, so that a request that carries a  *)
(* known id always finds its frame: the assertion of resolve_served_frame. *)
AliasesResolve ==
  \A a \in Id : store.alias[a] # None => store.alias[a] \in store.known

(* Ids that a device has presented together lead to the same frame, in     *)
(* whatever order the device's ids turn up, until that frame is removed or *)
(* a listing gives one of them, its number, to another entry.  An id that  *)
(* still has an entry of its own then does not count.                      *)
SameDeviceSameFrame ==
  \A p \in linked : Canonical(store, p[1]) = Canonical(store, p[2])

(* A group of frames none of which has had an address that a frame outside *)
(* the group has had, too.                                                 *)
Secluded(G) == \A a \in Ip : had[a] \subseteq G \/ had[a] \cap G = {}

(* An address that passes from one frame to another makes the hub take the *)
(* one's entry for the other's and move its library.  The damage ends      *)
(* there: nothing that was curated for a frame outside a secluded group,   *)
(* which may be a single frame, is ever in a library of the group.         *)
KeepsToFrame ==
  \A i \in Id : \A d \in store.rows[i], G \in SUBSET Device :
    Secluded(G) /\ Meant(i) \subseteq G => d \in G

(* Only a user who removes it takes a frame's library away: not a change   *)
(* of its address, the first sight of its GUID or a merge of its entries.  *)
Held(d) == \E i \in store.known : d \in store.rows[i]
NothingLost ==
  [][\A d \in Device : Held(d) /\ ~Held(d)' => \E i \in Id : Deregister(i)]_vars

(* A photo that counts as delivered to a served frame is in its cache.     *)
(* Not so for an entry that others were merged into: their images stay     *)
(* under the old id.                                                       *)
DeliveredIsCached == store.sent \ store.merged \subseteq cache

(* A frame that is known by its GUID and has shared no address keeps the   *)
(* name that a user chose: no operation, config read or edit of another    *)
(* entry puts another in its place, only what it announces in a broadcast. *)
(* An entry named after its address is not as lucky: the config read that  *)
(* first sees the GUID re-keys it, and the name that the frame reports     *)
(* takes the place of the one chosen.  A merge of served frames keeps the  *)
(* name of one of them.  A name that looks like an address is no name.     *)
NameSticks ==
  [][\A i \in store.known : store.name[i] = "chosen" /\ store'.name[i] # "chosen" =>
       \/ Rename(i) \/ Deregister(i)
       \/ Unanswered \/ \E d \in Lan : Discover(d)
       \/ i \notin store'.known /\ (i \in Lan => ~Secluded({i}))]_vars
=============================================================================
