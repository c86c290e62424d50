-------------------------- MODULE Registry_proofs --------------------------
(***************************************************************************)
(* Proofs about Registry, for any frames, ids, addresses and requests.     *)
(*                                                                         *)
(* What a request or an answer does to the store is a composition of a few *)
(* operations, so each operation has its facts stated once, and each       *)
(* handler is shown to lead from a good store to a good one (Good): every  *)
(* alias still resolves, ids that led to one frame still do, no row says   *)
(* delivered that did not, and whatever was held for a device is held.     *)
(*                                                                         *)
(* SameDeviceSameFrame needs more than itself. Merging an entry re-points  *)
(* whatever its id was an alias of, so ids whose entry is not what they    *)
(* lead to (Astray) must be kept out of the pairs that are compared, and a *)
(* pair must lead somewhere (LinksKept). KeepsToFrame and NameSticks need  *)
(* to know which entries can be taken for one another at all. For a group  *)
(* of frames that shares no address with the others, the ids fall into     *)
(* those of the group and the rest (Ids), and rows, aliases, addresses and *)
(* the operation under way never cross that line (Sorted): shown at once   *)
(* for every group, and for any line that the devices' ids and addresses   *)
(* do not cross.                                                           *)
(***************************************************************************)
EXTENDS Registry, WellFoundedInduction, TLAPS

(* Ids presented together lead to the same frame, and do lead to one, and  *)
(* are not the ids of other entries.                                       *)
LinksKept ==
  \A p \in linked : /\ Canonical(store, p[1]) = Canonical(store, p[2])
                    /\ Canonical(store, p[1]) # None
                    /\ p[1] \notin Astray(store) /\ p[2] \notin Astray(store)

(* The inductive invariant.                                                *)
Base == TypeOK /\ AliasesResolve /\ DeliveredIsCached /\ LinksKept
IInv == Base

(* Every alias of store S leads to a registered frame.                     *)
Resolves(S) == \A a \in Id : S.alias[a] # None => S.alias[a] \in S.known

-----------------------------------------------------------------------------
(* The operations of the store.                                            *)

(* A set of naturals that is not empty has a least element.                *)
LEMMA LeastLemma ==
  ASSUME NEW T \in SUBSET Nat, T # {}
  PROVE  \E x \in T : \A y \in T : x <= y
<1>1. IsWellFoundedOn(OpToRel(<,Nat), Nat)
  BY NatLessThanWellFounded, Zenon
<1>2. PICK x \in T : \A y \in T : <<y, x>> \notin OpToRel(<,Nat)
  BY <1>1, WFMin, Zenon
<1>3. \A y \in T : ~(y < x)
  BY <1>2, Zenon DEF OpToRel
<1>4. QED
  BY <1>3

(* Registering a frame, table by table.                                    *)
UpsertedFacts(S, i, a, name, U) ==
  /\ U \in Store
  /\ U.known = S.known \cup {i}
  /\ \A j \in Id : U.addr[j] = IF j = i THEN a ELSE S.addr[j]
  /\ \A j \in Id : U.name[j] = IF j = i /\ name # "" THEN name ELSE S.name[j]
  /\ U.rows = S.rows /\ U.sent = S.sent /\ U.alias = S.alias /\ U.merged = S.merged

(* upsert_frame does that.                                                 *)
LEMMA UpsertedLemma ==
  ASSUME NEW S \in Store, NEW i \in Id, NEW a \in Ip \cup {None}, NEW name \in Names
  PROVE  UpsertedFacts(S, i, a, name, Upserted(S, i, a, name))
BY DEF Store, Upserted, UpsertedFacts

(* Merging frames into one, table by table.                                *)
RekeyedFacts(S, from, new, R) ==
  /\ R \in Store
  /\ R.known = S.known \ from
  /\ \A i \in Id : R.addr[i] = IF i \in from THEN None ELSE S.addr[i]
  /\ \A i \in Id : R.name[i] = IF i \in from THEN "" ELSE S.name[i]
  /\ \A i \in Id : R.rows[i] = IF i = new THEN UNION {S.rows[j] : j \in from \cup {new}}
                               ELSE IF i \in from THEN {} ELSE S.rows[i]
  /\ R.sent = IF S.sent \cap from = {} THEN S.sent ELSE (S.sent \ from) \cup {new}
  /\ \A a \in Id : R.alias[a] = IF a \in from \/ S.alias[a] \in from THEN new ELSE S.alias[a]
  /\ R.merged = IF from = {} THEN S.merged ELSE S.merged \cup {new}

(* rekey_frame does that.                                                  *)
LEMMA RekeyedLemma ==
  ASSUME NEW S \in Store, NEW olds \in SUBSET Id, NEW new \in Id
  PROVE  RekeyedFacts(S, olds \ {new}, new, Rekeyed(S, olds, new))
<1> DEFINE from == olds \ {new}
           R == Rekeyed(S, olds, new)
<1>1. /\ R.known = S.known \ from
      /\ R.sent = IF S.sent \cap from = {} THEN S.sent ELSE (S.sent \ from) \cup {new}
      /\ R.merged = IF from = {} THEN S.merged ELSE S.merged \cup {new}
  BY DEF Rekeyed, Store
<1>2. /\ R.addr = [i \in Id |-> IF i \in from THEN None ELSE S.addr[i]]
      /\ R.name = [i \in Id |-> IF i \in from THEN "" ELSE S.name[i]]
      /\ R.rows = [i \in Id |-> IF i = new THEN UNION {S.rows[j] : j \in from \cup {new}}
                                ELSE IF i \in from THEN {} ELSE S.rows[i]]
      /\ R.alias = [a \in Id |-> IF a \in from \/ S.alias[a] \in from THEN new ELSE S.alias[a]]
  BY DEF Rekeyed, Store
<1>3. R.known \in SUBSET Id /\ R.sent \in SUBSET Id /\ R.merged \in SUBSET Id
  <2>1. S.known \in SUBSET Id /\ S.sent \in SUBSET Id /\ S.merged \in SUBSET Id
    BY DEF Store
  <2> HIDE DEF R
  <2>2. QED
    BY <1>1, <2>1
<1>4. /\ R.addr \in [Id -> Ip \cup {None}] /\ R.name \in [Id -> Names]
      /\ R.alias \in [Id -> Id \cup {None}]
  <2>1. /\ S.addr \in [Id -> Ip \cup {None}] /\ S.name \in [Id -> Names]
        /\ S.alias \in [Id -> Id \cup {None}]
    BY DEF Store
  <2> HIDE DEF R
  <2>2. R.addr \in [Id -> Ip \cup {None}]
    <3>1. R.addr = [i \in Id |-> IF i \in from THEN None ELSE S.addr[i]]
      BY <1>2
    <3>2. \A i \in Id : (IF i \in from THEN None ELSE S.addr[i]) \in Ip \cup {None}
      BY <2>1
    <3>3. QED
      BY <3>1, <3>2
  <2>3. R.name \in [Id -> Names]
    <3>1. R.name = [i \in Id |-> IF i \in from THEN "" ELSE S.name[i]]
      BY <1>2
    <3>2. \A i \in Id : (IF i \in from THEN "" ELSE S.name[i]) \in Names
      BY <2>1 DEF Names
    <3>3. QED
      BY <3>1, <3>2
  <2>4. R.alias \in [Id -> Id \cup {None}]
    <3>1. R.alias = [a \in Id |-> IF a \in from \/ S.alias[a] \in from THEN new ELSE S.alias[a]]
      BY <1>2
    <3>2. \A a \in Id : (IF a \in from \/ S.alias[a] \in from THEN new ELSE S.alias[a])
                         \in Id \cup {None}
      BY <2>1
    <3>3. QED
      BY <3>1, <3>2
  <2>5. QED
    BY <2>2, <2>3, <2>4
<1>5. R.rows \in [Id -> SUBSET Device]
  <2>1. S.rows \in [Id -> SUBSET Device]
    BY DEF Store
  <2>2. \A i \in Id : UNION {S.rows[j] : j \in from \cup {new}} \in SUBSET Device
    BY <2>1
  <2> DEFINE row(i) == IF i = new THEN UNION {S.rows[j] : j \in from \cup {new}}
                         ELSE IF i \in from THEN {} ELSE S.rows[i]
  <2>4. \A i \in Id : row(i) \in SUBSET Device
    BY <2>1, <2>2
  <2>5. R.rows = [i \in Id |-> row(i)]
    BY <1>2
  <2> HIDE DEF R, row
  <2>6. QED
    BY <2>4, <2>5
<1>6. R \in Store
  <2>1. R = [S EXCEPT !.known = R.known, !.addr = R.addr, !.name = R.name, !.rows = R.rows,
                      !.sent = R.sent, !.alias = R.alias, !.merged = R.merged]
    BY DEF Rekeyed, Store
  <2> HIDE DEF R
  <2>2. QED
    BY <1>3, <1>4, <1>5, <2>1 DEF Store
<1> HIDE DEF R
<1>7. QED
  BY <1>2, <1>1, <1>6 DEF RekeyedFacts, R

(* Linking ids to a frame, table by table.                                 *)
LinkedFacts(S, ids, i, L) ==
  /\ L \in Store
  /\ L.known = S.known /\ L.addr = S.addr /\ L.name = S.name /\ L.rows = S.rows
  /\ L.sent = S.sent /\ L.merged = S.merged
  /\ \A a \in Id : L.alias[a] = IF a \in ids THEN i ELSE S.alias[a]

(* link_alias does that.                                                   *)
LEMMA LinkedLemma ==
  ASSUME NEW S \in Store, NEW ids, NEW i \in Id
  PROVE  LinkedFacts(S, ids, i, Linked(S, ids, i))
BY DEF Store, Linked, LinkedFacts

(* Removing a frame, table by table.                                       *)
PurgedFacts(S, i, P) ==
  /\ P \in Store
  /\ P.known = S.known \ {i}
  /\ \A j \in Id \ {i} : P.addr[j] = S.addr[j] /\ P.name[j] = S.name[j] /\ P.rows[j] = S.rows[j]
  /\ P.addr[i] = None /\ P.name[i] = "" /\ P.rows[i] = {}
  /\ P.sent = S.sent \ {i} /\ P.merged = S.merged \ {i}
  /\ \A a \in Id : P.alias[a] = IF a = i \/ S.alias[a] = i THEN None ELSE S.alias[a]

(* purge_frame does that.                                                  *)
LEMMA PurgedLemma ==
  ASSUME NEW S \in Store, NEW i \in Id
  PROVE  PurgedFacts(S, i, Purged(S, i))
BY DEF Store, Purged, PurgedFacts, Names

(* Naming a frame, table by table.                                         *)
NamedFacts(S, i, N) ==
  /\ N \in Store
  /\ N.known = S.known /\ N.addr = S.addr /\ N.rows = S.rows /\ N.sent = S.sent
  /\ N.alias = S.alias /\ N.merged = S.merged
  /\ \A j \in Id \ {i} : N.name[j] = S.name[j]

(* rename_frame and capture_name do that, and the latter leaves a name     *)
(* alone that looks like one.                                              *)
LEMMA NamedLemma ==
  ASSUME NEW S \in Store, NEW i \in Id, NEW name \in Names
  PROVE  /\ NamedFacts(S, i, Renamed(S, i, name))
         /\ NamedFacts(S, i, NameCaptured(S, i))
         /\ S.name[i] = "chosen" => NameCaptured(S, i).name[i] = "chosen"
BY DEF Store, Renamed, NameCaptured, NamedFacts, Names

-----------------------------------------------------------------------------
(* Serials that lead to one frame in S do in T; none goes astray.          *)
Keeps(S, T) ==
  \A a, b \in Serial \ Astray(S) :
    /\ a \notin Astray(T)
    /\ Canonical(S, a) = Canonical(S, b) /\ Canonical(S, a) # None =>
         Canonical(T, a) = Canonical(T, b) /\ Canonical(T, a) # None

(* T has no row that says delivered and is not in S, but for merged        *)
(* entries.                                                                *)
Spares(S, T) == T.sent \ T.merged \subseteq S.sent \ S.merged

(* Some registered entry holds a photo for device d.                       *)
HeldIn(S, d) == \E i \in S.known : d \in S.rows[i]
(* Whatever S holds for a device, T holds.                                 *)
Holds(S, T) == \A d \in Device : HeldIn(S, d) => HeldIn(T, d)

(* T is good, coming from a good S.                                        *)
Good(S, T) == T \in Store /\ Resolves(T) /\ Keeps(S, T) /\ Spares(S, T) /\ Holds(S, T)

(* Handlers compose.                                                       *)
LEMMA GoodTransitive ==
  ASSUME NEW S, NEW T, NEW U, Good(S, T), Good(T, U)
  PROVE  Good(S, U)
<1>1. Keeps(S, T) /\ Keeps(T, U)
  BY DEF Good
<1>2. Keeps(S, U)
  BY <1>1 DEF Keeps
<1>3. QED
  BY <1>2 DEF Good, Spares, Holds

(* What an id leads to is registered.                                      *)
LEMMA CanonicalLemma ==
  ASSUME NEW S \in Store, Resolves(S), NEW a \in Id
  PROVE  /\ Canonical(S, a) \in Id \cup {None}
         /\ Canonical(S, a) # None => Canonical(S, a) \in S.known
         /\ a \in S.known /\ a \notin Astray(S) => Canonical(S, a) = a
         /\ Canonical(S, a) = None => a \notin S.known /\ S.alias[a] = None
BY RegistryAssumption DEF Canonical, Resolves, Store, Astray

(* Registering a connected frame is good.                                  *)
LEMMA UpsertedGood ==
  ASSUME NEW S \in Store, Resolves(S), NEW i \in Id \ Serial, NEW a \in Ip \cup {None},
         NEW name \in Names
  PROVE  Good(S, Upserted(S, i, a, name))
<1> DEFINE U == Upserted(S, i, a, name)
<1>1. UpsertedFacts(S, i, a, name, U)
  BY UpsertedLemma
<1> HIDE DEF U
<1>2. Keeps(S, U)
  BY <1>1 DEF Keeps, UpsertedFacts, Canonical, Astray, Id
<1>3. Spares(S, U) /\ Resolves(U)
  BY <1>1 DEF UpsertedFacts, Resolves, Spares
<1>4. Holds(S, U)
  BY <1>1 DEF UpsertedFacts, Holds, HeldIn
<1>5. QED
  BY <1>1, <1>2, <1>3, <1>4 DEF Good, UpsertedFacts, U

(* Merging re-points ids that led to a merged entry, and no others.        *)
Follows(S, olds, new, R) ==
  \A a \in Id \ Astray(S) :
    /\ a \notin Astray(R)
    /\ Canonical(R, a) = IF Canonical(S, a) \in olds THEN new ELSE Canonical(S, a)

(* Merging keeps links, spares rows and holds libraries, but its target    *)
(* may not be registered yet.                                              *)
LEMMA RekeyedGood ==
  ASSUME NEW S \in Store, Resolves(S), NEW olds \in SUBSET S.known, NEW new \in Id
  PROVE  LET R == Rekeyed(S, olds, new) IN
         /\ RekeyedFacts(S, olds \ {new}, new, R)
         /\ \A a \in Id : R.alias[a] # None => R.alias[a] \in R.known \cup {new}
         /\ Keeps(S, R) /\ Spares(S, R)
         /\ \A d \in Device : HeldIn(S, d) => HeldIn(R, d) \/ d \in R.rows[new]
         /\ Follows(S, olds, new, R)
<1> DEFINE from == olds \ {new}
           R == Rekeyed(S, olds, new)
<1>1. RekeyedFacts(S, from, new, R)
  BY RekeyedLemma DEF Store
<1>2. S.known \subseteq Id /\ None \notin Id
  BY RegistryAssumption DEF Store
<1> HIDE DEF R
<1>3. \A a \in Id : R.alias[a] # None => R.alias[a] \in R.known \cup {new}
  BY <1>1, <1>2 DEF RekeyedFacts, Resolves
<1>4. ASSUME NEW a \in Id \ Astray(S)
      PROVE  /\ a \notin Astray(R)
             /\ Canonical(R, a) = IF Canonical(S, a) \in olds THEN new ELSE Canonical(S, a)
  BY <1>1, <1>2, <1>4 DEF RekeyedFacts, Astray, Canonical
<1>5. Keeps(S, R)
  <2>1. SUFFICES ASSUME NEW a \in Serial \ Astray(S), NEW b \in Serial \ Astray(S)
                 PROVE  /\ a \notin Astray(R)
                        /\ Canonical(S, a) = Canonical(S, b) /\ Canonical(S, a) # None =>
                             Canonical(R, a) = Canonical(R, b) /\ Canonical(R, a) # None
    BY DEF Keeps
  <2>2. a \in Id /\ b \in Id
    BY DEF Id
  <2>3. QED
    BY <1>2, <1>4, <2>2
<1>6. Spares(S, R)
  BY <1>1 DEF RekeyedFacts, Spares
<1>7. ASSUME NEW d \in Device, HeldIn(S, d)
      PROVE  HeldIn(R, d) \/ d \in R.rows[new]
  <2>1. PICK i \in S.known : d \in S.rows[i]
    BY <1>7 DEF HeldIn
  <2>2. CASE i \in from \cup {new}
    <3>1. d \in UNION {S.rows[j] : j \in from \cup {new}}
      BY <2>1, <2>2
    <3>2. R.rows[new] = UNION {S.rows[j] : j \in from \cup {new}}
      BY <1>1 DEF RekeyedFacts
    <3>3. QED
      BY <3>1, <3>2
  <2>3. CASE i \notin from \cup {new}
    BY <1>1, <1>2, <2>1, <2>3 DEF RekeyedFacts, HeldIn
  <2>4. QED
    BY <2>2, <2>3
<1>8. QED
  BY <1>1, <1>3, <1>4, <1>5, <1>6, <1>7 DEF R, Follows

(* Merging is good when its target is registered, or is registered next.   *)
LEMMA MergedGood ==
  ASSUME NEW S \in Store, Resolves(S), NEW olds \in SUBSET S.known, NEW new \in Id
  PROVE  /\ new \in S.known => Good(S, Rekeyed(S, olds, new))
         /\ Rekeyed(S, olds, new).known = S.known \ (olds \ {new})
         /\ Follows(S, olds, new, Rekeyed(S, olds, new))
         /\ new \notin Serial => \A a \in Ip \cup {None}, name \in Names :
              Good(S, Upserted(Rekeyed(S, olds, new), new, a, name))
<1> DEFINE R == Rekeyed(S, olds, new)
<1>1. /\ RekeyedFacts(S, olds \ {new}, new, R)
      /\ \A a \in Id : R.alias[a] # None => R.alias[a] \in R.known \cup {new}
      /\ Keeps(S, R) /\ Spares(S, R)
      /\ \A d \in Device : HeldIn(S, d) => HeldIn(R, d) \/ d \in R.rows[new]
      /\ Follows(S, olds, new, R)
  BY RekeyedGood
<1> HIDE DEF R
<1>2. new \in S.known => Good(S, R)
  BY <1>1 DEF Good, RekeyedFacts, Resolves, Holds, HeldIn
<1>3. ASSUME new \notin Serial, NEW a \in Ip \cup {None}, NEW name \in Names
      PROVE  Good(S, Upserted(R, new, a, name))
  <2> DEFINE U == Upserted(R, new, a, name)
  <2>1. UpsertedFacts(R, new, a, name, U)
    BY <1>1, UpsertedLemma DEF RekeyedFacts
  <2> HIDE DEF U
  <2>2. Resolves(U) /\ Spares(S, U)
    BY <1>1, <2>1 DEF UpsertedFacts, Resolves, Spares
  <2>3. Holds(S, U)
    BY <1>1, <2>1 DEF UpsertedFacts, Holds, HeldIn
  <2>4. Keeps(R, U)
    BY <1>3, <2>1 DEF Keeps, UpsertedFacts, Canonical, Astray, Id
  <2>5. Keeps(S, U)
    BY <1>1, <2>4 DEF Keeps
  <2>6. QED
    BY <2>1, <2>2, <2>3, <2>5 DEF Good, UpsertedFacts, U
<1>4. QED
  BY <1>1, <1>2, <1>3 DEF R, RekeyedFacts

-----------------------------------------------------------------------------
(* The handlers.                                                           *)

(* The entry that a request is resolved to.                                *)
FirstFacts(S, c) ==
  /\ First(S, c) \in Id
  /\ Found(S, c) = {} => First(S, c) \in Serial
  /\ Found(S, c) # {} => First(S, c) \in {Canonical(S, c[k]) : k \in Found(S, c)}

(* It is an id of the request, or what one leads to.                       *)
LEMMA FirstLemma ==
  ASSUME NEW S \in Store, Resolves(S), NEW c \in Requests
  PROVE  /\ \A k \in DOMAIN c : c[k] \in Serial
         /\ 1 \in DOMAIN c
         /\ FirstFacts(S, c)
<1>1. c \in Seq(Serial) /\ c # <<>>
  BY RegistryAssumption
<1>2. DOMAIN c \subseteq Nat /\ 1 \in DOMAIN c /\ \A k \in DOMAIN c : c[k] \in Serial
  BY <1>1
<1>3. CASE Found(S, c) = {}
  BY <1>2, <1>3 DEF First, Id, FirstFacts
<1>4. CASE Found(S, c) # {}
  <2>1. Found(S, c) \in SUBSET Nat
    BY <1>2 DEF Found
  <2>2. \E k \in Found(S, c) : \A j \in Found(S, c) : k <= j
    BY <1>4, <2>1, LeastLemma
  <2> DEFINE k == CHOOSE k \in Found(S, c) : \A j \in Found(S, c) : k <= j
  <2>3. k \in Found(S, c)
    BY <2>2
  <2>4. First(S, c) = Canonical(S, c[k])
    BY <1>4 DEF First
  <2> HIDE DEF k
  <2>5. Canonical(S, c[k]) \in Id
    BY <1>2, <2>3, CanonicalLemma DEF Found, Id
  <2>6. First(S, c) \in {Canonical(S, c[j]) : j \in Found(S, c)}
    BY <2>3, <2>4
  <2>7. First(S, c) \in Id
    BY <2>4, <2>5
  <2>8. QED
    BY <1>2, <1>4, <2>6, <2>7 DEF FirstFacts
<1>5. QED
  BY <1>2, <1>3, <1>4

(* After request c every id of it leads to the entry.                      *)
Reaches(S, c, T) ==
  /\ Good(S, T)
  /\ \A k \in DOMAIN c : /\ Canonical(T, c[k]) = First(S, c)
                         /\ c[k] \notin Astray(S) => c[k] \notin Astray(T)

(* A request of which no id is known is resolved to a new frame.           *)
LEMMA RegisteredLemma ==
  ASSUME NEW S \in Store, Resolves(S), NEW c \in Requests, Found(S, c) = {}
  PROVE  Reaches(S, c, Resolved(S, c))
<1> DEFINE it == First(S, c)
           ids == {c[k] : k \in DOMAIN c}
           M == Upserted(S, it, None, "")
           T == Linked(M, ids, it)
<1>1. /\ ids \subseteq Serial /\ it \in ids /\ it \in Id /\ None \notin Id /\ Serial \subseteq Id
      /\ it # None
  BY FirstLemma, RegistryAssumption DEF FirstFacts, Id, First
<1>2. \A a \in ids : Canonical(S, a) = None /\ S.alias[a] = None /\ a \notin S.known
  <2>1. \A k \in DOMAIN c : Canonical(S, c[k]) = None
    BY DEF Found
  <2>2. QED
    BY <1>1, <2>1, CanonicalLemma
<1>3. UpsertedFacts(S, it, None, "", M)
  BY <1>1, UpsertedLemma DEF Names
<1>4. LinkedFacts(M, ids, it, T)
  BY <1>1, <1>3, LinkedLemma DEF UpsertedFacts
<1>5. T = Resolved(S, c)
  BY DEF Resolved, Unified
<1> HIDE DEF M, T
<1>6. /\ T \in Store /\ T.known = S.known \cup {it} /\ T.rows = S.rows /\ T.sent = S.sent
      /\ T.merged = S.merged
      /\ \A a \in Id : T.alias[a] = IF a \in ids THEN it ELSE S.alias[a]
  BY <1>3, <1>4 DEF UpsertedFacts, LinkedFacts
<1> HIDE DEF ids, it
<1>7. Resolves(T)
  BY <1>6 DEF Resolves
<1>8. Spares(S, T) /\ Holds(S, T)
  BY <1>6 DEF Spares, Holds, HeldIn
<1>9. \A a \in Serial \ Astray(S) : a \notin Astray(T)
  BY <1>1, <1>2, <1>6 DEF Astray
<1>10. \A a \in Serial : Canonical(S, a) # None => Canonical(T, a) = Canonical(S, a)
  BY <1>1, <1>2, <1>6 DEF Canonical
<1>11. \A a \in ids : Canonical(T, a) = it
  BY <1>1, <1>6 DEF Canonical
<1>12. Keeps(S, T)
  BY <1>9, <1>10 DEF Keeps
<1>13. Reaches(S, c, T)
  <2>1. Good(S, T)
    BY <1>6, <1>7, <1>8, <1>12 DEF Good
  <2>2. \A k \in DOMAIN c : c[k] \in ids /\ c[k] \in Serial
    BY FirstLemma DEF ids
  <2>3. \A k \in DOMAIN c : Canonical(T, c[k]) = First(S, c)
    BY <1>11, <2>2 DEF it
  <2>4. QED
    BY <1>9, <2>1, <2>2, <2>3 DEF Reaches
<1>14. QED
  BY <1>5, <1>13

(* A request is resolved to a known frame, with the others merged into it. *)
LEMMA UnifiedLemma ==
  ASSUME NEW S \in Store, Resolves(S), NEW c \in Requests, Found(S, c) # {}
  PROVE  Reaches(S, c, Resolved(S, c))
<1> DEFINE it == First(S, c)
           ids == {c[k] : k \in DOMAIN c}
           olds == {Canonical(S, c[k]) : k \in Found(S, c)}
           M == Rekeyed(S, olds, it)
           T == Linked(M, ids, it)
<1>1. ids \subseteq Serial /\ it \in olds /\ it \in Id /\ None \notin Id /\ Serial \subseteq Id
  BY FirstLemma, RegistryAssumption DEF FirstFacts, Id
<1>2. \A a \in ids : Canonical(S, a) # None => Canonical(S, a) \in olds
  BY DEF Found
<1>3. olds \subseteq S.known
  <2>1. \A k \in Found(S, c) : c[k] \in Id /\ Canonical(S, c[k]) # None
    BY <1>1 DEF Found
  <2>2. QED
    BY <2>1, CanonicalLemma
<1> HIDE DEF olds, it
<1>4. it \in S.known /\ olds \in SUBSET S.known
  BY <1>1, <1>3
<1>5. Good(S, M)
  BY <1>1, <1>4, MergedGood
<1>6. Follows(S, olds, it, M)
  BY <1>1, <1>4, MergedGood
<1>7. M.known = S.known \ (olds \ {it})
  <2>1. RekeyedFacts(S, olds \ {it}, it, M)
    BY <1>1, <1>4, RekeyedLemma DEF Store
  <2>2. QED
    BY <2>1 DEF RekeyedFacts
<1>8. LinkedFacts(M, ids, it, T)
  BY <1>1, <1>5, LinkedLemma DEF Good
<1>9. T = Resolved(S, c)
  BY DEF Resolved, Unified, olds, it
<1> HIDE DEF M, T
<1>10. it \in M.known
  BY <1>4, <1>7
<1>11. \A a \in ids : Canonical(T, a) = it
  BY <1>1, <1>8 DEF LinkedFacts, Canonical
<1>12. ASSUME NEW a \in Serial \ Astray(S)
       PROVE  /\ a \notin Astray(T)
              /\ Canonical(S, a) # None =>
                   Canonical(T, a) = IF Canonical(S, a) \in olds THEN it ELSE Canonical(S, a)
  <2>1. CASE a \in ids
    <3>1. a \in M.known => a = it
      <4>1. a \in S.known => Canonical(S, a) = a
        BY <1>1, <1>12, CanonicalLemma
      <4>2. a \in S.known => a \in olds
        BY <1>1, <1>2, <2>1, <4>1
      <4>3. QED
        BY <1>7, <4>2
    <3>2. T.alias[a] = it /\ T.known = M.known
      BY <1>1, <1>8, <2>1 DEF LinkedFacts
    <3>3. QED
      BY <1>2, <1>11, <2>1, <3>1, <3>2 DEF Astray
  <2>2. CASE a \notin ids
    <3>1. T.alias[a] = M.alias[a] /\ T.known = M.known
      BY <1>1, <1>8, <2>2 DEF LinkedFacts
    <3>2. Canonical(T, a) = Canonical(M, a) /\ (a \in Astray(T) <=> a \in Astray(M))
      BY <3>1 DEF Canonical, Astray
    <3>3. QED
      BY <1>1, <1>6, <3>2 DEF Follows
  <2>3. QED
    BY <2>1, <2>2
<1>13. Keeps(S, T)
  BY <1>1, <1>12 DEF Keeps
<1>14. Good(S, T)
  BY <1>5, <1>8, <1>10, <1>13 DEF Good, LinkedFacts, Resolves, Spares, Holds, HeldIn
<1>15. \A k \in DOMAIN c : c[k] \in ids
  OBVIOUS
<1>16. Reaches(S, c, T)
  BY <1>1, <1>11, <1>12, <1>14, <1>15 DEF Reaches, it
<1>17. QED
  BY <1>9, <1>16

(* resolve_served_frame is good, and its ids lead to its frame.            *)
LEMMA ResolvedLemma ==
  ASSUME NEW S \in Store, Resolves(S), NEW c \in Requests
  PROVE  Reaches(S, c, Resolved(S, c))
BY RegisteredLemma, UnifiedLemma

(* What is found at an address is registered there.                        *)
LEMMA AtAddressLemma ==
  ASSUME NEW S \in Store, NEW a, NEW i \in AtAddress(S, a), i # None
  PROVE  i \in S.known /\ S.addr[i] = a /\ i \in Id
BY DEF AtAddress, Store

(* GUIDs and addresses are not ids of served frames.                       *)
LEMMA StableIdLemma ==
  ASSUME NEW d \in Lan, NEW a \in Ip
  PROVE  StableId(d, a) \in Id \ Serial /\ d \in Id \ Serial /\ a \in Id \ Serial
BY IdAssumption DEF StableId, Id

(* Discovery is good.                                                      *)
LEMMA DiscoveredLemma ==
  ASSUME NEW S \in Store, Resolves(S), NEW d \in Lan, home[d] \in Ip, NEW T \in Discovered(S, d)
  PROVE  Good(S, T)
<1> DEFINE a == home[d]
           i == StableId(d, a)
<1>1. PICK legacy \in AtAddress(S, a) :
        T = Upserted(IF i # a /\ legacy = a THEN Rekeyed(S, {a}, i) ELSE S, i, a, "reported")
  BY DEF Discovered
<1>2. i \in Id /\ i \notin Serial /\ a \in Ip \cup {None} /\ "reported" \in Names
  BY StableIdLemma DEF Names
<1>3. CASE i # a /\ legacy = a
  <2>1. {a} \in SUBSET S.known
    BY <1>3, AtAddressLemma, RegistryAssumption DEF Id
  <2>2. T = Upserted(Rekeyed(S, {a}, i), i, a, "reported")
    BY <1>1, <1>3
  <2> HIDE DEF i, a
  <2>3. QED
    BY <1>2, <2>1, <2>2, MergedGood
<1>4. CASE ~(i # a /\ legacy = a)
  <2>1. T = Upserted(S, i, a, "reported")
    BY <1>1, <1>4
  <2> HIDE DEF i, a
  <2>2. QED
    BY <1>2, <2>1, UpsertedGood
<1>5. QED
  BY <1>3, <1>4

(* Recording that a frame was reached is good.                             *)
LEMMA ReachedLemma ==
  ASSUME NEW S \in Store, Resolves(S), NEW a \in Ip
  PROVE  Good(S, Reached(S, a))
<1>1. Good(S, S)
  BY DEF Good, Keeps, Spares, Holds
<1>2. a \in Id \ Serial /\ "" \in Names
  BY IdAssumption DEF Id, Names
<1>3. QED
  BY <1>1, <1>2, UpsertedGood DEF Reached

(* Naming a frame is good.                                                 *)
LEMMA NameCapturedGood ==
  ASSUME NEW S \in Store, Resolves(S), NEW i \in Id, NEW name \in Names
  PROVE  Good(S, NameCaptured(S, i)) /\ Good(S, Renamed(S, i, name))
<1>1. ASSUME NEW N, NamedFacts(S, i, N)
      PROVE  Good(S, N)
  <2>1. Keeps(S, N) /\ Resolves(N)
    BY <1>1 DEF NamedFacts, Keeps, Resolves, Canonical, Astray
  <2>2. QED
    BY <1>1, <2>1 DEF NamedFacts, Good, Spares, Holds, HeldIn
<1>2. QED
  BY <1>1, NamedLemma

(* Capturing a GUID is good.                                               *)
LEMMA CapturedLemma ==
  ASSUME NEW S \in Store, Resolves(S), NEW d \in Lan, NEW a \in Ip, NEW T \in Captured(S, a, d)
  PROVE  Good(S, T)
<1> DEFINE It(current) == IF d \notin Guidless THEN d ELSE IF current # None THEN current ELSE a
           M(current) == IF current \notin {None, It(current)}
                         THEN Rekeyed(S, {current}, It(current)) ELSE S
           U(current) == Upserted(M(current), StableId(d, a), a, "")
<1>1. PICK current \in AtAddress(S, a) : T = NameCaptured(U(current), It(current))
  BY DEF Captured
<1>2. StableId(d, a) \in Id \ Serial /\ a \in Ip \cup {None} /\ "" \in Names
  BY StableIdLemma DEF Names
<1>3. It(current) \in Id
  BY AtAddressLemma, StableIdLemma
<1>4. Good(S, U(current))
  <2>1. CASE current \in {None, It(current)}
    BY <1>2, <2>1, UpsertedGood
  <2>2. CASE current \notin {None, It(current)}
    <3>1. It(current) = d /\ StableId(d, a) = d
      BY <2>2 DEF StableId
    <3>2. {current} \in SUBSET S.known
      BY <2>2, AtAddressLemma
    <3>3. U(current) = Upserted(Rekeyed(S, {current}, d), d, a, "")
      BY <2>2, <3>1
    <3>4. d \in Id /\ d \notin Serial
      BY <1>2, <3>1
    <3> HIDE DEF U, M, It
    <3>5. Good(S, Upserted(Rekeyed(S, {current}, d), d, a, ""))
      BY <1>2, <3>2, <3>4, MergedGood
    <3>6. QED
      BY <3>3, <3>5
  <2>3. QED
    BY <2>1, <2>2
<1>5. Good(U(current), T)
  <2> HIDE DEF U, It
  <2>1. U(current) \in Store /\ Resolves(U(current))
    BY <1>4 DEF Good
  <2>2. QED
    BY <1>1, <1>2, <1>3, <2>1, NameCapturedGood
<1> HIDE DEF U
<1>6. QED
  BY <1>4, <1>5, GoodTransitive

(* Removal is good to all others.                                          *)
Parts(S, i, P) ==
  /\ P \in Store /\ Resolves(P) /\ P.sent \ P.merged \subseteq (S.sent \ S.merged) \ {i}
  /\ \A a \in Id \ Astray(S) :
       /\ a \notin Astray(P)
       /\ i \notin {a, Canonical(S, a)} => Canonical(P, a) = Canonical(S, a)

(* purge_frame is.                                                         *)
LEMMA PurgedGood ==
  ASSUME NEW S \in Store, Resolves(S), NEW i \in Id
  PROVE  Parts(S, i, Purged(S, i))
<1>1. PurgedFacts(S, i, Purged(S, i))
  BY PurgedLemma
<1> DEFINE P == Purged(S, i)
<1> HIDE DEF P
<1>2. PurgedFacts(S, i, P) /\ None \notin Id
  BY <1>1, RegistryAssumption DEF P
<1>3. Resolves(P)
  BY <1>2 DEF PurgedFacts, Resolves
<1>4. P.sent \ P.merged \subseteq (S.sent \ S.merged) \ {i}
  BY <1>2 DEF PurgedFacts
<1>5. ASSUME NEW a \in Id \ Astray(S)
      PROVE  a \notin Astray(P) /\ (i \notin {a, Canonical(S, a)} => Canonical(P, a) = Canonical(S, a))
  BY <1>2, <1>5 DEF PurgedFacts, Astray, Canonical
<1>6. QED
  BY <1>2, <1>3, <1>4, <1>5 DEF P, Parts, PurgedFacts

-----------------------------------------------------------------------------
(* The inductive invariant.                                                *)

(* The invariant holds at first.                                           *)
LEMMA InitLemma == Init => IInv
<1> SUFFICES ASSUME Init PROVE IInv
  OBVIOUS
<1>1. store \in Store
  BY DEF Init, Store, Names
<1>2. TypeOK
  <2>1. home \in [Lan -> Ip] /\ \A d \in Lan : home[d] \in Leases[d]
    BY Zenon DEF Init
  <2>2. cache = {} /\ op = None /\ linked = {} /\ edits = 0 /\ here \in Homes
    BY DEF Init
  <2>3. had \in [Ip -> SUBSET Lan]
    BY DEF Init
  <2>4. 0 \in 0 .. Edits[here]
    BY <2>2, RegistryAssumption
  <2>5. QED
    BY <1>1, <2>1, <2>2, <2>3, <2>4 DEF TypeOK
<1>3. QED
  BY <1>2
     DEF IInv, Base, Init, AliasesResolve, DeliveredIsCached, LinksKept

(* A step from a good store to a good one keeps Base.                      *)
LEMMA GoodStep ==
  ASSUME Base, Good(store, store'), UNCHANGED linked, cache \subseteq cache'
  PROVE  store' \in Store /\ AliasesResolve' /\ DeliveredIsCached' /\ LinksKept'
<1>1. store' \in Store /\ AliasesResolve'
  BY DEF Good, Resolves, AliasesResolve
<1>2. DeliveredIsCached'
  BY DEF Good, Spares, Base, DeliveredIsCached
<1>3. LinksKept'
  <2>1. \A p \in linked : p[1] \in Serial /\ p[2] \in Serial
    BY DEF Base, TypeOK
  <2>2. Keeps(store, store')
    BY DEF Good
  <2>3. QED
    BY <2>1, <2>2 DEF Base, LinksKept, Keeps
<1>4. QED
  BY <1>1, <1>2, <1>3

(* An operation that is answered is good.                                  *)
LEMMA AnsweredGood ==
  ASSUME Base, NEW d \in Lan, Answered(d)
  PROVE  Good(store, store')
<1> DEFINE S == Reached(store, op.to)
<1>1. store \in Store /\ Resolves(store) /\ op \in Op
  BY DEF Base, TypeOK, AliasesResolve, Resolves, Answered
<1>2. op.to \in Ip
  BY <1>1 DEF Op
<1>3. Good(store, S)
  BY <1>1, <1>2, ReachedLemma
<1>4. \/ Address(S, op.host) \in Ip /\ store' \in Captured(S, Address(S, op.host), d)
      \/ store' = S
  BY DEF Answered
<1> HIDE DEF S
<1>5. S \in Store /\ Resolves(S)
  BY <1>3 DEF Good
<1>6. QED
  BY <1>3, <1>4, <1>5, CapturedLemma, GoodTransitive

(* So is one that is not.                                                  *)
LEMMA UnansweredGood ==
  ASSUME Base, Unanswered
  PROVE  Good(store, store')
<1>1. store \in Store /\ Resolves(store) /\ \A d \in Lan : home[d] \in Ip
  BY DEF Base, TypeOK, AliasesResolve, Resolves
<1>2. store' = store \/ \E d \in here \cap Lan : store' \in Discovered(store, d)
  BY DEF Unanswered
<1>3. Good(store, store)
  BY <1>1 DEF Good, Keeps, Spares, Holds
<1>4. QED
  BY <1>1, <1>2, <1>3, DiscoveredLemma

(* Every step preserves Base: one case per action.                         *)
LEMMA BaseLemma == IInv /\ [Next]_vars => Base'
<1> SUFFICES ASSUME IInv, Base, [Next]_vars PROVE Base'
  BY DEF IInv
<1>1. /\ TypeOK /\ store \in Store /\ Resolves(store) /\ None \notin Id
      /\ \A d \in Lan : home[d] \in Ip
  BY RegistryAssumption DEF IInv, Base, TypeOK, AliasesResolve, Resolves
<1>2. ASSUME NEW c \in Requests, Request(c) PROVE Base'
  <2>1. Reaches(store, c, store')
    BY <1>1, <1>2, ResolvedLemma DEF Request
  <2>2. UNCHANGED <<cache, here, home, had, op, edits>>
    BY <1>2 DEF Request
  <2> DEFINE new == {p \in {<<c[1], c[k]>> : k \in DOMAIN c \ {1}} : {p[1], p[2]} \cap Astray(store) = {}}
  <2>3. linked' = linked \cup new
    BY <1>2 DEF Request
  <2>4. store' \in Store /\ AliasesResolve' /\ DeliveredIsCached'
    BY <2>1, <2>2
       DEF Reaches, Good, Resolves, AliasesResolve, Spares, DeliveredIsCached, Base
  <2>5. new \subseteq Serial \X Serial
    BY <1>1, FirstLemma
  <2>6. TypeOK'
    BY <2>2, <2>3, <2>4, <2>5 DEF Base, TypeOK
  <2>7. ASSUME NEW p \in linked
        PROVE  /\ Canonical(store, p[1])' = Canonical(store, p[2])'
               /\ Canonical(store, p[1])' # None
               /\ p[1] \notin Astray(store)' /\ p[2] \notin Astray(store)'
    <3>1. p[1] \in Serial /\ p[2] \in Serial
      BY DEF Base, TypeOK
    <3>2. Keeps(store, store')
      BY <2>1 DEF Reaches, Good
    <3>3. QED
      BY <3>1, <3>2 DEF Base, LinksKept, Keeps
  <2>8. ASSUME NEW p \in new
        PROVE  /\ Canonical(store, p[1])' = Canonical(store, p[2])'
               /\ Canonical(store, p[1])' # None
               /\ p[1] \notin Astray(store)' /\ p[2] \notin Astray(store)'
    <3>1. PICK k \in DOMAIN c : p = <<c[1], c[k]>>
      OBVIOUS
    <3>2. c[1] \notin Astray(store) /\ c[k] \notin Astray(store)
      BY <3>1
    <3>3. 1 \in DOMAIN c /\ First(store, c) \in Id
      BY <1>1, FirstLemma DEF FirstFacts
    <3>4. QED
      BY <1>1, <2>1, <3>1, <3>2, <3>3 DEF Reaches
  <2> HIDE DEF new
  <2>9. LinksKept'
    BY <2>3, <2>7, <2>8 DEF LinksKept
  <2>10. QED
    BY <2>4, <2>6, <2>9 DEF Base
<1>3. CASE FrameList
  <2>1. UNCHANGED <<cache, here, home, had, op, edits>>
    BY <1>3 DEF FrameList
  <2> DEFINE served == store.known \cap Serial
  <2>2. store' = [store EXCEPT !.alias = [a \in Id |->
           IF \E i \in served : Numeric[i] = a
           THEN CHOOSE i \in served : Numeric[i] = a ELSE @[a]]]
    BY <1>3 DEF FrameList
  <2>3. /\ store'.alias = [a \in Id |-> IF \E i \in served : Numeric[i] = a
                                       THEN CHOOSE i \in served : Numeric[i] = a ELSE store.alias[a]]
        /\ store'.known = store.known /\ store'.sent = store.sent /\ store'.merged = store.merged
    BY <1>1, <2>2 DEF Store
  <2>4. \A a \in Id : store'.alias[a] \in served \cup {store.alias[a]}
    BY <2>3
  <2>5. store'.alias \in [Id -> Id \cup {None}]
    <3>1. \A a \in Id : store'.alias[a] \in Id \cup {None}
      BY <1>1, <2>4 DEF Store, Id
    <3>2. QED
      BY <2>3, <3>1
  <2>6. store' \in Store
    <3>1. store' = [store EXCEPT !.alias = store'.alias]
      BY <1>1, <2>2, <2>3 DEF Store
    <3>2. QED
      BY <1>1, <2>5, <3>1 DEF Store
  <2>7. AliasesResolve'
    BY <1>1, <2>3, <2>4 DEF AliasesResolve, Resolves
  <2>8. linked' = {p \in linked : /\ Canonical(store', p[1]) = Canonical(store', p[2])
                                  /\ {p[1], p[2]} \cap Astray(store') = {}}
    BY <1>3 DEF FrameList
  <2>9. TypeOK'
    BY <2>1, <2>6, <2>8 DEF Base, TypeOK
  <2>10. DeliveredIsCached'
    BY <2>1, <2>3 DEF Base, DeliveredIsCached
  <2>11. ASSUME NEW p \in linked' PROVE Canonical(store', p[1]) # None
    <3>1. p \in linked /\ p[1] \in Id
      BY <2>8 DEF Base, TypeOK, Id
    <3>2. Canonical(store, p[1]) # None
      BY <3>1 DEF Base, LinksKept
    <3>3. QED
      BY <1>1, <2>3, <2>4, <3>1, <3>2 DEF Canonical, Store
  <2>12. LinksKept'
    BY <2>8, <2>11 DEF LinksKept
  <2>13. QED
    BY <2>7, <2>9, <2>10, <2>12 DEF Base
<1>4. ASSUME NEW d \in Lan, Discover(d) PROVE Base'
  <2>1. Good(store, store') /\ UNCHANGED <<cache, here, home, had, op, linked, edits>>
    BY <1>1, <1>4, DiscoveredLemma DEF Discover
  <2>2. QED
    BY <2>1, GoodStep DEF Base, TypeOK
<1>5. ASSUME NEW d \in Lan, Answered(d) PROVE Base'
  <2>1. UNCHANGED <<cache, here, home, had, linked, edits>> /\ op' = None /\ op \in Op
    BY <1>5 DEF Answered, Base, TypeOK
  <2>2. Good(store, store')
    BY <1>5, AnsweredGood
  <2>3. QED
    BY <2>1, <2>2, GoodStep DEF Base, TypeOK
<1>6. ASSUME NEW d \in Lan, NEW a \in Ip, Move(d, a) PROVE Base'
  <2>1. /\ UNCHANGED <<store, cache, here, op, linked, edits>> /\ home' = [home EXCEPT ![d] = a]
        /\ had' = [had EXCEPT ![a] = @ \cup {d}] /\ a \in Leases[d]
    BY <1>6 DEF Move
  <2>2. TypeOK'
    BY <2>1, RegistryAssumption DEF Base, TypeOK
  <2>3. QED
    BY <2>1, <2>2 DEF Base, AliasesResolve, DeliveredIsCached, LinksKept
<1>7. ASSUME NEW h \in Lan \cup Ip, NEW config \in BOOLEAN, Begin(h, config) PROVE Base'
  <2>1. UNCHANGED <<store, cache, here, home, had, linked, edits>> /\ op' \in Op
    BY <1>7 DEF Begin, Op, Id
  <2>2. TypeOK'
    BY <2>1 DEF Base, TypeOK
  <2>3. QED
    BY <2>1, <2>2 DEF Base, AliasesResolve, DeliveredIsCached, LinksKept
<1>8. CASE Unanswered
  <2>1. UNCHANGED <<cache, here, home, had, linked, edits>> /\ op \in Op
    BY <1>8 DEF Unanswered, Base, TypeOK
  <2>2. op' \in Op \cup {None}
    BY <1>8, <2>1 DEF Unanswered, Op
  <2>4. Good(store, store')
    BY <1>8, UnansweredGood
  <2>5. QED
    BY <2>1, <2>2, <2>4, GoodStep DEF Base, TypeOK
<1>9. ASSUME NEW i \in Id, Curate(i) PROVE Base'
  <2>1. UNCHANGED <<cache, here, home, had, op, linked>> /\ edits' = edits + 1 /\ edits < Edits[here]
    BY <1>9 DEF Curate, Edit
  <2>2. edits' \in 0 .. Edits[here]'
    BY <2>1, RegistryAssumption DEF Base, TypeOK
  <2>3. PICK d \in Meant(i) : store' = [store EXCEPT !.rows[i] = @ \cup {d}]
    BY <1>9 DEF Curate
  <2>31. d \in Device
    <3>1. i \in Ip => had[i] \subseteq Lan
      BY <1>1 DEF TypeOK
    <3>2. QED
      BY <3>1 DEF Meant, Device, Id
  <2>4. Good(store, store')
    <3>1. store' = [store EXCEPT !.rows[i] = @ \cup {d}]
      BY <2>3
    <3>2. /\ store' \in Store /\ store'.known = store.known /\ store'.sent = store.sent
          /\ store'.alias = store.alias /\ store'.merged = store.merged
          /\ \A j \in Id : store.rows[j] \subseteq store'.rows[j]
      BY <1>1, <2>31, <3>1 DEF Store
    <3>3. store.known \subseteq Id
      BY <1>1 DEF Store
    <3>4. Keeps(store, store') /\ Spares(store, store') /\ Resolves(store')
      BY <1>1, <3>2 DEF Keeps, Spares, Resolves, Canonical, Astray
    <3>5. Holds(store, store')
      BY <3>2, <3>3 DEF Holds, HeldIn
    <3>6. QED
      BY <3>2, <3>4, <3>5 DEF Good
  <2>5. QED
    BY <2>1, <2>2, <2>4, GoodStep DEF Base, TypeOK
<1>10. ASSUME NEW i \in Id, Deliver(i) PROVE Base'
  <2>1. /\ UNCHANGED <<here, home, had, op, linked, edits>> /\ cache' = cache \cup {i}
        /\ store' = [store EXCEPT !.sent = @ \cup {i}]
    BY <1>10 DEF Deliver
  <2>2. /\ store' \in Store /\ store'.known = store.known /\ store'.alias = store.alias
        /\ store'.merged = store.merged /\ store'.sent = store.sent \cup {i}
    BY <1>1, <2>1 DEF Store
  <2>3. TypeOK'
    BY <2>1, <2>2 DEF Base, TypeOK
  <2>4. AliasesResolve' /\ DeliveredIsCached'
    BY <2>1, <2>2 DEF Base, AliasesResolve, DeliveredIsCached
  <2>5. LinksKept'
    BY <2>1, <2>2 DEF Base, LinksKept, Canonical, Astray
  <2>6. QED
    BY <2>3, <2>4, <2>5 DEF Base
<1>11. ASSUME NEW i \in Id, Rename(i) PROVE Base'
  <2>1. UNCHANGED <<cache, here, home, had, op, linked>> /\ edits' = edits + 1 /\ edits < Edits[here]
    BY <1>11 DEF Rename, Edit
  <2>2. Good(store, store')
    BY <1>1, <1>11, NameCapturedGood DEF Rename, Names
  <2>3. edits' \in 0 .. Edits[here]'
    BY <2>1, RegistryAssumption DEF Base, TypeOK
  <2>4. QED
    BY <2>1, <2>2, <2>3, GoodStep DEF Base, TypeOK
<1>12. ASSUME NEW i \in Id, Deregister(i) PROVE Base'
  <2>1. /\ UNCHANGED <<here, home, had, op>> /\ edits' = edits + 1 /\ edits < Edits[here]
        /\ store' = Purged(store, i) /\ cache' = cache \ {i}
        /\ linked' = {p \in linked : i \notin {p[1], p[2], Canonical(store, p[1])}}
    BY <1>12 DEF Deregister, Edit, Cleared
  <2>2. edits' \in 0 .. Edits[here]'
    BY <2>1, RegistryAssumption DEF Base, TypeOK
  <2>3. Parts(store, i, store')
    BY <1>1, <2>1, PurgedGood
  <2>4. TypeOK'
    BY <2>1, <2>2, <2>3 DEF Base, TypeOK, Parts
  <2>5. AliasesResolve' /\ DeliveredIsCached'
    BY <2>1, <2>3 DEF Base, AliasesResolve, DeliveredIsCached, Resolves, Parts
  <2>6. \A p \in linked : p[1] \in Id /\ p[2] \in Id
    BY DEF Base, TypeOK, Id
  <2>7. LinksKept'
    BY <2>1, <2>3, <2>6 DEF Base, LinksKept, Parts
  <2>8. QED
    BY <2>4, <2>5, <2>7 DEF Base
<1>13. CASE UNCHANGED vars
  BY <1>13 DEF vars, Base, TypeOK, AliasesResolve, DeliveredIsCached, LinksKept
<1>14. QED
  BY <1>2, <1>3, <1>4, <1>5, <1>6, <1>7, <1>8, <1>9, <1>10, <1>11, <1>12, <1>13 DEF Next

(* The invariant is inductive.                                             *)
LEMMA NextLemma == IInv /\ [Next]_vars => IInv'
BY BaseLemma DEF IInv

(* The inductive invariant holds: the tables have their types, aliases     *)
(* resolve, what counts as delivered is cached, and linked ids lead to one *)
(* frame.                                                                  *)
THEOREM Inductive == Spec => []IInv
BY InitLemma, NextLemma, PTL DEF Spec

(* An alias always leads to a registered frame: the assertion at the end   *)
(* of resolve_served_frame cannot fail.                                    *)
THEOREM AliasesResolveHolds == Spec => []AliasesResolve
<1>1. IInv => AliasesResolve
  BY DEF IInv, Base
<1>2. QED
  BY <1>1, Inductive, PTL

(* What counts as delivered to a served frame is in the cache under its    *)
(* id, unless others were merged into it.                                  *)
THEOREM DeliveredIsCachedHolds == Spec => []DeliveredIsCached
<1>1. IInv => DeliveredIsCached
  BY DEF IInv, Base
<1>2. QED
  BY <1>1, Inductive, PTL

(* However often entries are merged, re-pointed and removed, ids that a    *)
(* request has carried together lead to the same frame.                    *)
THEOREM SameDeviceSameFrameHolds == Spec => []SameDeviceSameFrame
<1>1. IInv => SameDeviceSameFrame
  BY DEF IInv, Base, LinksKept, SameDeviceSameFrame
<1>2. QED
  BY <1>1, Inductive, PTL

-----------------------------------------------------------------------------
(* What no step does.                                                      *)

(* Only a removal takes anything away.                                     *)
LEMMA HeldLemma ==
  ASSUME IInv, Next
  PROVE  Holds(store, store') \/ \E i \in Id : Deregister(i)
<1>1. /\ Base /\ store \in Store /\ Resolves(store) /\ store.known \subseteq Id
      /\ \A d \in Lan : home[d] \in Ip
  BY DEF IInv, Base, TypeOK, AliasesResolve, Resolves, Store
<1>2. ASSUME NEW c \in Requests, Request(c) PROVE Holds(store, store')
  BY <1>1, <1>2, ResolvedLemma DEF Request, Reaches, Good
<1>3. ASSUME NEW d \in Lan, Discover(d) PROVE Holds(store, store')
  BY <1>1, <1>3, DiscoveredLemma DEF Discover, Good
<1>4. ASSUME NEW d \in Lan, Answered(d) PROVE Holds(store, store')
  BY <1>1, <1>4, AnsweredGood DEF Good
<1>5. CASE Unanswered
  BY <1>1, <1>5, UnansweredGood DEF Good
<1>6. ASSUME NEW i \in Id, Rename(i) PROVE Holds(store, store')
  BY <1>1, <1>6, NameCapturedGood DEF Rename, Names, Good
<1>7. ASSUME store'.known = store.known, \A i \in Id : store.rows[i] \subseteq store'.rows[i]
      PROVE  Holds(store, store')
  BY <1>1, <1>7 DEF Holds, HeldIn
<1>8. CASE FrameList
  <2>1. store'.known = store.known /\ store'.rows = store.rows
    BY <1>1, <1>8 DEF FrameList, Store
  <2>2. QED
    BY <1>7, <2>1
<1>9. ASSUME NEW i \in Id, Curate(i) \/ Deliver(i) PROVE Holds(store, store')
  <2>1. store'.known = store.known /\ \A j \in Id : store.rows[j] \subseteq store'.rows[j]
    BY <1>1, <1>9 DEF Curate, Deliver, Store
  <2>2. QED
    BY <1>7, <2>1
<1>10. ASSUME NEW d \in Lan, NEW a \in Ip, Move(d, a) PROVE Holds(store, store')
  BY <1>10 DEF Move, Holds
<1>11. ASSUME NEW x \in Lan \cup Ip, NEW config \in BOOLEAN, Begin(x, config) PROVE Holds(store, store')
  BY <1>11 DEF Begin, Holds
<1>12. QED
  BY <1>2, <1>3, <1>4, <1>5, <1>6, <1>8, <1>9, <1>10, <1>11 DEF Next

(* No step but a user's removal takes a device's library away.             *)
THEOREM NothingLostHolds == Spec => NothingLost
<1>1. IInv /\ [Next]_vars =>
        [\A d \in Device : Held(d) /\ ~Held(d)' => \E i \in Id : Deregister(i)]_vars
  <2> SUFFICES ASSUME IInv, Next
               PROVE  \A d \in Device : Held(d) /\ ~Held(d)' => \E i \in Id : Deregister(i)
    OBVIOUS
  <2>1. QED
    BY HeldLemma DEF Holds, HeldIn, Held
<1>2. QED
  BY <1>1, Inductive, PTL DEF Spec, NothingLost

(* A chosen name of S is in T, unless its entry is gone.                   *)
Sticks(S, T) ==
  \A i \in S.known : S.name[i] = "chosen" => i \notin T.known \/ T.name[i] = "chosen"

(* Resolving a request leaves chosen names.                                *)
LEMMA ResolvedSticks ==
  ASSUME NEW S \in Store, Resolves(S), NEW c \in Requests
  PROVE  Sticks(S, Resolved(S, c))
<1> DEFINE it == First(S, c)
           ids == {c[k] : k \in DOMAIN c}
           olds == {Canonical(S, c[k]) : k \in Found(S, c)}
           M == Unified(S, c)
<1>1. it \in Id /\ "" \in Names /\ S.known \subseteq Id
  BY FirstLemma DEF FirstFacts, Names, Store
<1>2. olds \in SUBSET Id
  <2>1. \A k \in Found(S, c) : c[k] \in Id /\ Canonical(S, c[k]) # None
    BY FirstLemma DEF Found, Id
  <2>2. QED
    BY <2>1, CanonicalLemma
<1>3. M \in Store /\ Sticks(S, M)
  <2>1. CASE Found(S, c) = {}
    <3>1. M = Upserted(S, it, None, "")
      BY <2>1 DEF Unified
    <3> HIDE DEF M, it
    <3>2. UpsertedFacts(S, it, None, "", M)
      BY <1>1, <3>1, UpsertedLemma
    <3>3. QED
      BY <1>1, <3>2 DEF UpsertedFacts, Sticks
  <2>2. CASE Found(S, c) # {}
    <3>1. M = Rekeyed(S, olds, it)
      BY <2>2 DEF Unified
    <3> HIDE DEF M, it, olds
    <3>2. RekeyedFacts(S, olds \ {it}, it, M)
      BY <1>1, <1>2, <3>1, RekeyedLemma
    <3>3. QED
      BY <1>1, <3>2 DEF RekeyedFacts, Sticks
  <2>3. QED
    BY <2>1, <2>2
<1> HIDE DEF M, it
<1>4. LinkedFacts(M, ids, it, Linked(M, ids, it))
  BY <1>1, <1>3, LinkedLemma
<1>5. QED
  BY <1>3, <1>4 DEF LinkedFacts, Sticks, Resolved, M, it

(* So does capturing a GUID: a chosen name counts.                         *)
LEMMA CapturedSticks ==
  ASSUME NEW S \in Store, NEW d \in Lan, NEW a \in Ip, NEW T \in Captured(S, a, d)
  PROVE  Sticks(S, T)
<1> DEFINE It(current) == IF d \notin Guidless THEN d ELSE IF current # None THEN current ELSE a
           M(current) == IF current \notin {None, It(current)}
                         THEN Rekeyed(S, {current}, It(current)) ELSE S
           U(current) == Upserted(M(current), StableId(d, a), a, "")
<1>1. PICK current \in AtAddress(S, a) : T = NameCaptured(U(current), It(current))
  BY DEF Captured
<1>2. StableId(d, a) \in Id /\ "" \in Names /\ It(current) \in Id /\ S.known \subseteq Id
  BY AtAddressLemma, StableIdLemma DEF Names, Store
<1>3. /\ M(current) \in Store /\ M(current).known \subseteq S.known
      /\ \A i \in M(current).known : M(current).name[i] = S.name[i]
      /\ \A i \in S.known \ M(current).known : i # StableId(d, a)
  <2>1. CASE current \in {None, It(current)}
    BY <2>1
  <2>2. CASE current \notin {None, It(current)}
    <3>1. It(current) = d /\ StableId(d, a) = d /\ current \in Id
      BY <2>2, AtAddressLemma DEF StableId
    <3>2. M(current) = Rekeyed(S, {current}, d)
      BY <2>2, <3>1
    <3> HIDE DEF M, It
    <3>3. RekeyedFacts(S, {current} \ {d}, d, M(current))
      BY <1>2, <3>1, <3>2, RekeyedLemma
    <3>4. QED
      BY <1>2, <2>2, <3>1, <3>3 DEF RekeyedFacts
  <2>3. QED
    BY <2>1, <2>2
<1> HIDE DEF M, It
<1>4. UpsertedFacts(M(current), StableId(d, a), a, "", U(current))
  BY <1>2, <1>3, UpsertedLemma
<1> HIDE DEF U
<1>5. /\ NamedFacts(U(current), It(current), T)
      /\ U(current).name[It(current)] = "chosen" => T.name[It(current)] = "chosen"
  BY <1>1, <1>2, <1>4, NamedLemma DEF UpsertedFacts
<1>6. ASSUME NEW i \in S.known, S.name[i] = "chosen", i \in T.known
      PROVE  T.name[i] = "chosen"
  <2>1. i \in M(current).known /\ i \in Id
    BY <1>2, <1>3, <1>4, <1>5, <1>6 DEF UpsertedFacts, NamedFacts
  <2>2. U(current).name[i] = "chosen"
    BY <1>3, <1>4, <1>6, <2>1 DEF UpsertedFacts
  <2>3. QED
    BY <1>5, <2>1, <2>2 DEF NamedFacts
<1>7. QED
  BY <1>6 DEF Sticks

(* So does every step but discovery, for all entries that a user does not  *)
(* rename.                                                                 *)
LEMMA SticksLemma ==
  ASSUME IInv, Next
  PROVE  \/ Sticks(store, store') \/ Unanswered \/ \E d \in Lan : Discover(d)
         \/ \E i \in Id : Rename(i) /\ \A j \in Id \ {i} : store'.name[j] = store.name[j]
<1>1. Base /\ store \in Store /\ Resolves(store) /\ store.known \subseteq Id
  BY DEF IInv, Base, TypeOK, AliasesResolve, Resolves, Store
<1>2. ASSUME NEW c \in Requests, Request(c) PROVE Sticks(store, store')
  BY <1>1, <1>2, ResolvedSticks DEF Request
<1>3. ASSUME NEW d \in Lan, Answered(d) PROVE Sticks(store, store')
  <2> DEFINE S == Reached(store, op.to)
  <2>1. op \in Op /\ op.to \in Ip /\ op.to \in Id /\ "" \in Names
    BY <1>1, <1>3 DEF Answered, Base, TypeOK, Op, Id, Names
  <2>2. \/ Address(S, op.host) \in Ip /\ store' \in Captured(S, Address(S, op.host), d)
        \/ store' = S
    BY <1>3 DEF Answered
  <2>3. S \in Store /\ store.known \subseteq S.known /\ \A i \in Id : S.name[i] = store.name[i]
    <3>1. UpsertedFacts(store, op.to, op.to, "", Upserted(store, op.to, op.to, ""))
      BY <1>1, <2>1, UpsertedLemma
    <3>2. QED
      BY <1>1, <3>1 DEF Reached, UpsertedFacts
  <2> HIDE DEF S
  <2>4. Sticks(S, store')
    <3>1. CASE store' = S
      BY <3>1 DEF Sticks
    <3>2. QED
      BY <2>2, <2>3, <3>1, CapturedSticks
  <2>5. QED
    BY <1>1, <2>3, <2>4 DEF Sticks
<1>4. ASSUME NEW i \in Id, Rename(i)
      PROVE  \A j \in Id \ {i} : store'.name[j] = store.name[j]
  <2>1. PICK name \in {"chosen", "dotted"} : store' = Renamed(store, i, name)
    BY <1>4 DEF Rename
  <2>2. name \in Names
    BY DEF Names
  <2>3. NamedFacts(store, i, store')
    BY <1>1, <2>1, <2>2, NamedLemma
  <2>4. QED
    BY <2>3 DEF NamedFacts
<1>5. ASSUME NEW i \in Id, Deregister(i) PROVE Sticks(store, store')
  <2>1. PurgedFacts(store, i, store')
    BY <1>1, <1>5, PurgedLemma DEF Deregister
  <2>2. QED
    BY <1>1, <2>1 DEF PurgedFacts, Sticks
<1>6. ASSUME store'.name = store.name PROVE Sticks(store, store')
  BY <1>6 DEF Sticks
<1>7. CASE FrameList \/ \E i \in Id : Curate(i) \/ Deliver(i)
  <2>1. store'.name = store.name
    BY <1>1, <1>7 DEF FrameList, Curate, Deliver, Store
  <2>2. QED
    BY <1>6, <2>1
<1>8. ASSUME NEW d \in Lan, NEW a \in Ip, Move(d, a) PROVE Sticks(store, store')
  BY <1>6, <1>8 DEF Move
<1>9. ASSUME NEW x \in Lan \cup Ip, NEW config \in BOOLEAN, Begin(x, config) PROVE Sticks(store, store')
  BY <1>6, <1>9 DEF Begin
<1>10. QED
  BY <1>2, <1>3, <1>4, <1>5, <1>7, <1>8, <1>9 DEF Next

-----------------------------------------------------------------------------
(* Which entries can be taken for one another.                             *)

(* No alias and no recorded address leads across the line between the ids  *)
(* of K and the others; rows of the former are of In, those of the others  *)
(* of Out.                                                                 *)
Sorted(S, K, In, Out) ==
  \A i \in Id : /\ S.rows[i] \subseteq IF i \in K THEN In ELSE Out
                /\ S.alias[i] # None => (S.alias[i] \in K <=> i \in K)
                /\ S.addr[i] # None => (S.addr[i] \in K <=> i \in K)

(* The operation under way is tried on the frame's side.                   *)
OpSorted(K) == op # None => (op.host \in K <=> op.to \in K)

(* The line divides no device: not its ids, its GUID and present address,  *)
(* or what users mean by its entry.                                        *)
Divides(K, In, Out) ==
  /\ \A s, r \in Serial : Owner[s] = Owner[r] => (s \in K <=> r \in K)
  /\ \A d \in here \cap Lan : d \in K <=> home[d] \in K
  /\ \A i \in Id : Meant(i) \subseteq IF i \in K THEN In ELSE Out

(* Registering a frame at an address of its side.                          *)
LEMMA UpsertedSorted ==
  ASSUME NEW S \in Store, NEW K, NEW In, NEW Out, Sorted(S, K, In, Out),
         NEW i \in Id, NEW a \in Ip \cup {None}, NEW name \in Names,
         a # None => (a \in K <=> i \in K)
  PROVE  Sorted(Upserted(S, i, a, name), K, In, Out)
<1> DEFINE U == Upserted(S, i, a, name)
<1>1. UpsertedFacts(S, i, a, name, U)
  BY UpsertedLemma
<1> HIDE DEF U
<1>2. ASSUME NEW j \in Id
      PROVE  /\ U.rows[j] = S.rows[j] /\ U.alias[j] = S.alias[j]
             /\ U.addr[j] # None => (U.addr[j] \in K <=> j \in K)
  <2>1. U.rows = S.rows /\ U.alias = S.alias /\ U.addr[j] = IF j = i THEN a ELSE S.addr[j]
    BY <1>1 DEF UpsertedFacts
  <2>2. S.addr[j] # None => (S.addr[j] \in K <=> j \in K)
    BY DEF Sorted
  <2>3. CASE j = i
    BY <2>1, <2>3
  <2>4. CASE j # i
    BY <2>1, <2>2, <2>4
  <2>5. QED
    BY <2>1, <2>3, <2>4
<1>3. QED
  BY <1>2 DEF Sorted, U

(* Merging entries of one side.                                            *)
LEMMA RekeyedSorted ==
  ASSUME NEW S \in Store, NEW K, NEW In, NEW Out, Sorted(S, K, In, Out),
         NEW olds \in SUBSET Id, NEW new \in Id,
         \A j \in olds : j \in K <=> new \in K
  PROVE  Sorted(Rekeyed(S, olds, new), K, In, Out) /\ Rekeyed(S, olds, new) \in Store
<1> DEFINE R == Rekeyed(S, olds, new)
           from == olds \ {new}
           own(i) == IF i \in K THEN In ELSE Out
<1>1. RekeyedFacts(S, from, new, R)
  BY RekeyedLemma
<1> HIDE DEF R
<1>2. R.rows[new] \subseteq own(new)
  <2>1. \A j \in from \cup {new} : S.rows[j] \subseteq own(new)
    BY DEF Sorted
  <2>2. UNION {S.rows[j] : j \in from \cup {new}} \subseteq own(new)
    BY <2>1
  <2>3. R.rows[new] = UNION {S.rows[j] : j \in from \cup {new}}
    BY <1>1 DEF RekeyedFacts
  <2>4. QED
    BY <2>2, <2>3
<1>3. ASSUME NEW i \in Id
      PROVE  /\ R.rows[i] \subseteq own(i)
             /\ R.alias[i] # None => (R.alias[i] \in K <=> i \in K)
             /\ R.addr[i] # None => (R.addr[i] \in K <=> i \in K)
  <2>1. /\ i # new => R.rows[i] = IF i \in from THEN {} ELSE S.rows[i]
        /\ R.alias[i] = IF i \in from \/ S.alias[i] \in from THEN new ELSE S.alias[i]
        /\ R.addr[i] = IF i \in from THEN None ELSE S.addr[i]
    BY <1>1 DEF RekeyedFacts
  <2>2. S.alias[i] \in from => S.alias[i] # None
    BY RegistryAssumption
  <2>3. R.rows[i] \subseteq own(i)
    BY <1>2, <2>1 DEF Sorted
  <2>4. R.alias[i] # None => (R.alias[i] \in K <=> i \in K)
    BY <2>1, <2>2 DEF Sorted
  <2>5. R.addr[i] # None => (R.addr[i] \in K <=> i \in K)
    BY <2>1 DEF Sorted
  <2>6. QED
    BY <2>3, <2>4, <2>5
<1>4. QED
  BY <1>1, <1>3 DEF Sorted, R, RekeyedFacts

(* What touches neither rows, aliases nor addresses.                       *)
LEMMA SameSorted ==
  ASSUME NEW S, NEW T, NEW K, NEW In, NEW Out, Sorted(S, K, In, Out),
         T.rows = S.rows, T.alias = S.alias, T.addr = S.addr
  PROVE  Sorted(T, K, In, Out)
BY DEF Sorted

(* Resolving a request: all its ids are one device's.                      *)
LEMMA ResolvedSorted ==
  ASSUME NEW S \in Store, Resolves(S), NEW K, NEW In, NEW Out, Sorted(S, K, In, Out),
         \A s, r \in Serial : Owner[s] = Owner[r] => (s \in K <=> r \in K),
         NEW c \in Requests
  PROVE  Sorted(Resolved(S, c), K, In, Out)
<1> DEFINE it == First(S, c)
           ids == {c[k] : k \in DOMAIN c}
           olds == {Canonical(S, c[k]) : k \in Found(S, c)}
           M == Unified(S, c)
<1>1. it \in Id /\ FirstFacts(S, c) /\ "" \in Names
  BY FirstLemma DEF FirstFacts, Names
<1>2. \A k \in DOMAIN c : c[k] \in Id /\ (c[k] \in K <=> c[1] \in K)
  BY FirstLemma, RegistryAssumption DEF Id
<1>3. \A k \in Found(S, c) : /\ Canonical(S, c[k]) \in Id
                             /\ Canonical(S, c[k]) \in K <=> c[1] \in K
  <2>1. ASSUME NEW k \in Found(S, c)
        PROVE  Canonical(S, c[k]) \in Id /\ (Canonical(S, c[k]) \in K <=> c[1] \in K)
    <3>1. c[k] \in Id /\ (c[k] \in K <=> c[1] \in K) /\ Canonical(S, c[k]) # None
      BY <1>2 DEF Found
    <3>2. Canonical(S, c[k]) \in {c[k], S.alias[c[k]]}
      BY <3>1 DEF Canonical
    <3>3. QED
      BY <3>1, <3>2, CanonicalLemma DEF Sorted
  <2>2. QED
    BY <2>1
<1>4. olds \in SUBSET Id /\ \A j \in olds : j \in K <=> c[1] \in K
  BY <1>3
<1>5. it \in K <=> c[1] \in K
  <2>1. CASE Found(S, c) = {}
    BY <2>1 DEF First
  <2>2. CASE Found(S, c) # {}
    BY <1>1, <1>3, <2>2 DEF FirstFacts
  <2>3. QED
    BY <2>1, <2>2
<1>6. M \in Store /\ Sorted(M, K, In, Out)
  <2>1. CASE Found(S, c) = {}
    <3>1. M = Upserted(S, it, None, "")
      BY <2>1 DEF Unified
    <3> HIDE DEF M, it
    <3>2. QED
      BY <1>1, <3>1, UpsertedLemma, UpsertedSorted DEF UpsertedFacts
  <2>2. CASE Found(S, c) # {}
    <3>1. M = Rekeyed(S, olds, it)
      BY <2>2 DEF Unified
    <3> HIDE DEF M, it, olds
    <3>2. QED
      BY <1>1, <1>4, <1>5, <3>1, RekeyedSorted
  <2>3. QED
    BY <2>1, <2>2
<1> HIDE DEF M, it
<1>7. LinkedFacts(M, ids, it, Linked(M, ids, it))
  BY <1>1, <1>6, LinkedLemma
<1>8. \A i \in ids : i \in K <=> it \in K
  BY <1>2, <1>5
<1>9. QED
  BY <1>6, <1>7, <1>8 DEF LinkedFacts, Sorted, Resolved, M, it

(* Discovery.                                                              *)
LEMMA DiscoveredSorted ==
  ASSUME NEW S \in Store, NEW K, NEW In, NEW Out, Sorted(S, K, In, Out),
         NEW d \in Lan, home[d] \in Ip, d \in K <=> home[d] \in K, NEW T \in Discovered(S, d)
  PROVE  Sorted(T, K, In, Out) /\ T \in Store
<1> DEFINE a == home[d]
           i == StableId(d, a)
           M(legacy) == IF i # a /\ legacy = a THEN Rekeyed(S, {a}, i) ELSE S
<1>1. PICK legacy \in AtAddress(S, a) : T = Upserted(M(legacy), i, a, "reported")
  BY DEF Discovered
<1>2. /\ a \in Ip /\ "reported" \in Names /\ a \in Id /\ i \in Id
      /\ a \in K <=> i \in K
  BY DEF Names, StableId, Id
<1> HIDE DEF i, a
<1>3. Sorted(M(legacy), K, In, Out) /\ M(legacy) \in Store
  BY <1>2, RekeyedSorted
<1> HIDE DEF M
<1>4. QED
  BY <1>1, <1>2, <1>3, UpsertedSorted, UpsertedLemma DEF UpsertedFacts

(* Capturing a GUID: what is recorded at the address is on the side of the *)
(* frame that answered.                                                    *)
LEMMA CapturedSorted ==
  ASSUME NEW S \in Store, NEW K, NEW In, NEW Out, Sorted(S, K, In, Out),
         NEW d \in Lan, NEW a \in Ip, d \in K <=> a \in K,
         NEW T \in Captured(S, a, d)
  PROVE  Sorted(T, K, In, Out)
<1> DEFINE It(current) == IF d \notin Guidless THEN d ELSE IF current # None THEN current ELSE a
           M(current) == IF current \notin {None, It(current)}
                         THEN Rekeyed(S, {current}, It(current)) ELSE S
           U(current) == Upserted(M(current), StableId(d, a), a, "")
<1>1. PICK current \in AtAddress(S, a) : T = NameCaptured(U(current), It(current))
  BY DEF Captured
<1>2. current # None => current \in Id /\ (current \in K <=> a \in K)
  <2>1. current # None => current \in Id /\ S.addr[current] = a
    BY AtAddressLemma
  <2>2. a # None
    BY RegistryAssumption DEF Id
  <2>3. QED
    BY <2>1, <2>2 DEF Sorted
<1>3. /\ StableId(d, a) \in Id /\ (StableId(d, a) \in K <=> a \in K)
      /\ "" \in Names /\ It(current) \in Id /\ (It(current) \in K <=> a \in K)
  BY <1>2, StableIdLemma DEF Names, StableId
<1>4. Sorted(M(current), K, In, Out) /\ M(current) \in Store
  <2>1. current \notin {None, It(current)} =>
          {current} \in SUBSET Id /\ \A j \in {current} : j \in K <=> It(current) \in K
    BY <1>2, <1>3
  <2> HIDE DEF It
  <2>2. QED
    BY <1>3, <2>1, RekeyedSorted
<1> HIDE DEF M, It
<1>5. Sorted(U(current), K, In, Out) /\ U(current) \in Store
  BY <1>3, <1>4, UpsertedSorted, UpsertedLemma DEF UpsertedFacts
<1> HIDE DEF U
<1>6. NamedFacts(U(current), It(current), T)
  BY <1>1, <1>3, <1>5, NamedLemma
<1>7. QED
  BY <1>5, <1>6, SameSorted DEF NamedFacts

(* An operation is tried where the frame it is for was last seen.          *)
LEMMA AddressSorted ==
  ASSUME NEW S \in Store, NEW K, NEW In, NEW Out, Sorted(S, K, In, Out), NEW h \in Id
  PROVE  Address(S, h) \in K <=> h \in K
BY DEF Sorted, Address

(* No step crosses a line that divides no device.                          *)
LEMMA SortedLemma ==
  ASSUME IInv, NEW K, NEW In, NEW Out, Divides(K, In, Out),
         Sorted(store, K, In, Out), OpSorted(K), [Next]_vars
  PROVE  Sorted(store', K, In, Out) /\ OpSorted(K)'
<1>1. /\ Base /\ store \in Store /\ Resolves(store) /\ None \notin Id
      /\ \A d \in Lan : home[d] \in Ip
  BY RegistryAssumption DEF IInv, Base, TypeOK, AliasesResolve, Resolves
<1>2. ASSUME NEW c \in Requests, Request(c) PROVE Sorted(store', K, In, Out) /\ OpSorted(K)'
  BY <1>1, <1>2, ResolvedSorted DEF Request, OpSorted, Divides
<1>3. CASE FrameList
  <2> DEFINE served == store.known \cap Serial
  <2>1. /\ store'.alias = [a \in Id |-> IF \E i \in served : Numeric[i] = a
                                       THEN CHOOSE i \in served : Numeric[i] = a ELSE store.alias[a]]
        /\ store'.rows = store.rows /\ store'.addr = store.addr /\ UNCHANGED op
    BY <1>1, <1>3 DEF FrameList, Store
  <2>2. ASSUME NEW a \in Id, store'.alias[a] # None
        PROVE  store'.alias[a] \in K <=> a \in K
    <3>1. CASE \E i \in served : Numeric[i] = a
      <4>1. store'.alias[a] \in served /\ Numeric[store'.alias[a]] = a
        BY <2>1, <3>1
      <4>2. PICK i \in Serial : i = store'.alias[a] /\ Numeric[i] = a
        BY <4>1
      <4>3. a \in Serial /\ Owner[a] = Owner[i]
        <5>1. Numeric[i] \in Serial \cup {None}
          BY RegistryAssumption
        <5>2. a \in Serial
          BY <1>1, <4>2, <5>1
        <5>3. QED
          BY <4>2, <5>2, RegistryAssumption
      <4>4. QED
        BY <4>2, <4>3 DEF Divides
    <3>2. CASE ~\E i \in served : Numeric[i] = a
      <4>1. store'.alias[a] = store.alias[a]
        BY <2>1, <3>2
      <4>2. QED
        BY <2>2, <4>1 DEF Sorted
    <3>3. QED
      BY <3>1, <3>2
  <2>3. QED
    BY <2>1, <2>2 DEF Sorted, OpSorted
<1>4. ASSUME NEW d \in Lan, Discover(d) PROVE Sorted(store', K, In, Out) /\ OpSorted(K)'
  BY <1>1, <1>4, DiscoveredSorted DEF Discover, OpSorted, Divides
<1>5. ASSUME NEW d \in Lan, Answered(d) PROVE Sorted(store', K, In, Out) /\ OpSorted(K)'
  <2> DEFINE S == Reached(store, op.to)
  <2>1. /\ op \in Op /\ op' = None /\ op.to \in Ip /\ op.to \in Id /\ op.host \in Id /\ "" \in Names
        /\ d \in K <=> op.to \in K
        /\ d \in K <=> op.host \in K
    <3>1. op \in Op /\ op' = None /\ home[d] = op.to /\ op # None
      BY <1>1, <1>5 DEF Answered, Base, TypeOK
    <3>2. d \in K <=> op.to \in K
      BY <1>5, <3>1 DEF Divides, Answered
    <3>3. QED
      BY <3>1, <3>2 DEF Op, Id, Names, OpSorted
  <2>2. \/ Address(S, op.host) \in Ip /\ store' \in Captured(S, Address(S, op.host), d)
        \/ store' = S
    BY <1>5 DEF Answered
  <2>3. S \in Store /\ Sorted(S, K, In, Out)
    BY <1>1, <2>1, UpsertedSorted, UpsertedLemma DEF Reached, UpsertedFacts
  <2> HIDE DEF S
  <2>4. d \in K <=> Address(S, op.host) \in K
    BY <2>1, <2>3, AddressSorted
  <2>5. Sorted(store', K, In, Out)
    BY <2>2, <2>3, <2>4, CapturedSorted
  <2>6. QED
    BY <2>1, <2>5 DEF OpSorted
<1>6. CASE Unanswered
  <2>1. store' = store \/ \E d \in here \cap Lan : store' \in Discovered(store, d)
    BY <1>6 DEF Unanswered
  <2>2. Sorted(store', K, In, Out) /\ store' \in Store
    BY <1>1, <2>1, DiscoveredSorted DEF Divides
  <2>3. \/ op' = None
        \/ op' = [op EXCEPT !.to = Address(store', op.host), !.again = TRUE]
    BY <1>6 DEF Unanswered
  <2>4. op \in Op /\ op.host \in Id
    BY <1>1, <1>6 DEF Unanswered, Base, TypeOK, Op
  <2>5. Address(store', op.host) \in K <=> op.host \in K
    BY <2>2, <2>4, AddressSorted
  <2>6. QED
    BY <2>2, <2>3, <2>4, <2>5 DEF OpSorted, Op
<1>7. ASSUME NEW h \in Lan \cup Ip, NEW config \in BOOLEAN, Begin(h, config)
      PROVE  Sorted(store', K, In, Out) /\ OpSorted(K)'
  <2>1. store' = store /\ op'.host = h /\ op'.to = Address(store, h) /\ h \in Id
    BY <1>7 DEF Begin, Id
  <2>2. QED
    BY <1>1, <2>1, AddressSorted DEF OpSorted
<1>8. ASSUME NEW i \in Id, Curate(i) PROVE Sorted(store', K, In, Out) /\ OpSorted(K)'
  <2> DEFINE own(j) == IF j \in K THEN In ELSE Out
  <2>1. PICK d \in Meant(i) : store' = [store EXCEPT !.rows[i] = @ \cup {d}]
    BY <1>8 DEF Curate
  <2>2. /\ UNCHANGED op /\ store'.alias = store.alias /\ store'.addr = store.addr
        /\ \A j \in Id : store'.rows[j] = IF j = i THEN store.rows[j] \cup {d} ELSE store.rows[j]
    BY <1>1, <1>8, <2>1 DEF Curate, Store
  <2>3. d \in own(i)
    BY DEF Divides
  <2>4. ASSUME NEW j \in Id PROVE store'.rows[j] \subseteq own(j)
    <3>1. store.rows[j] \subseteq own(j)
      BY DEF Sorted
    <3> HIDE DEF own
    <3>2. QED
      BY <2>2, <2>3, <3>1
  <2>5. OpSorted(K)'
    BY <2>2 DEF OpSorted
  <2>6. QED
    BY <2>2, <2>4, <2>5 DEF Sorted
<1>9. CASE UNCHANGED op /\ store'.rows = store.rows /\ store'.alias = store.alias /\ store'.addr = store.addr
  BY <1>9, SameSorted DEF OpSorted
<1>10. ASSUME NEW i \in Id, Deliver(i) \/ Rename(i) PROVE Sorted(store', K, In, Out) /\ OpSorted(K)'
  <2>1. UNCHANGED op /\ store'.rows = store.rows /\ store'.alias = store.alias /\ store'.addr = store.addr
    BY <1>1, <1>10 DEF Deliver, Rename, Renamed, Store
  <2>2. QED
    BY <1>9, <2>1
<1>11. ASSUME NEW i \in Id, Deregister(i) PROVE Sorted(store', K, In, Out) /\ OpSorted(K)'
  <2>1. PurgedFacts(store, i, store') /\ UNCHANGED op
    BY <1>1, <1>11, PurgedLemma DEF Deregister
  <2>2. QED
    BY <2>1 DEF PurgedFacts, Sorted, OpSorted
<1>12. ASSUME NEW d \in Lan, NEW a \in Ip, Move(d, a) PROVE Sorted(store', K, In, Out) /\ OpSorted(K)'
  BY <1>9, <1>12 DEF Move
<1>13. CASE UNCHANGED vars
  BY <1>9, <1>13 DEF vars
<1>14. QED
  BY <1>2, <1>3, <1>4, <1>5, <1>6, <1>7, <1>8, <1>10, <1>11, <1>12, <1>13 DEF Next

(* The ids of the devices of group G, if A are its addresses.              *)
Ids(G, A) == {i \in Id : IF i \in Ip THEN i \in A
                         ELSE IF i \in Serial THEN Owner[i] \in G ELSE i \in G}
(* Only frames of the group have had an address of A, and no other address.*)
Fits(G, A) == \A a \in Ip : IF a \in A THEN had[a] \subseteq G ELSE had[a] \cap G = {}

(* A frame has had the address it has; no group's ids are taken for those  *)
(* of others, nor served frames for connected ones.                        *)
Apart ==
  /\ \A d \in here \cap Lan : d \in had[home[d]]
  /\ \A G \in SUBSET Device, A \in SUBSET Ip : Fits(G, A) =>
       Sorted(store, Ids(G, A), G, Device \ G) /\ OpSorted(Ids(G, A))
  /\ Sorted(store, Serial, Device, Device) /\ OpSorted(Serial)

(* A group that shares no address makes a line.                            *)
LEMMA DividesLemma ==
  ASSUME IInv, Apart, NEW G \in SUBSET Device, NEW A \in SUBSET Ip, Fits(G, A)
  PROVE  Divides(Ids(G, A), G, Device \ G)
<1> DEFINE K == Ids(G, A)
<1>1. TypeOK
  BY DEF IInv, Base
<1>2. /\ \A d \in Lan : d \in Id /\ (d \in K <=> d \in G)
      /\ \A a \in Ip : a \in Id /\ (a \in K <=> a \in A)
      /\ \A s \in Serial : s \in Id /\ (s \in K <=> Owner[s] \in G)
  BY IdAssumption DEF Ids, Id
<1> HIDE DEF K
<1>3. \A d \in here \cap Lan : d \in K <=> home[d] \in K
  BY <1>1, <1>2 DEF Apart, Fits, TypeOK
<1>4. ASSUME NEW i \in Id PROVE Meant(i) \subseteq IF i \in K THEN G ELSE Device \ G
  <2>1. CASE i \in Lan
    BY <1>2, <2>1 DEF Meant, Device
  <2>2. CASE i \in Serial
    BY <1>2, <2>2, IdAssumption DEF Meant, Device
  <2>3. CASE i \in Ip
    <3>1. Meant(i) = had[i] /\ had[i] \subseteq Device
      BY <1>1, <2>3, IdAssumption DEF Meant, TypeOK, Device
    <3>2. QED
      BY <1>2, <2>3, <3>1 DEF Fits
  <2>4. QED
    BY <2>1, <2>2, <2>3 DEF Id
<1>5. QED
  BY <1>2, <1>3, <1>4 DEF Divides, K

(* So do the ids of served frames.                                         *)
LEMMA ServedLemma ==
  ASSUME IInv
  PROVE  Divides(Serial, Device, Device)
<1>1. TypeOK
  BY DEF IInv, Base
<1>2. \A i \in Id : Meant(i) \subseteq Device
  <2>1. \A i \in Ip : had[i] \subseteq Device
    BY <1>1 DEF TypeOK, Device
  <2>2. QED
    BY <2>1 DEF Meant, Device, Id
<1>3. QED
  BY <1>1, <1>2, IdAssumption DEF Divides, TypeOK

(* Apart holds at first.                                                   *)
LEMMA ApartInit == Init => Apart
<1> SUFFICES ASSUME Init PROVE Apart
  OBVIOUS
<1>1. op = None /\ \A i \in Id : store.rows[i] = {} /\ store.alias[i] = None /\ store.addr[i] = None
  BY DEF Init
<1>2. \A d \in here \cap Lan : d \in had[home[d]]
  BY DEF Init
<1>3. \A K, In, Out : Sorted(store, K, In, Out) /\ OpSorted(K)
  BY <1>1 DEF Sorted, OpSorted
<1>4. QED
  BY <1>2, <1>3 DEF Apart

(* Every step preserves it: an address that changes hands only makes fewer *)
(* groups count.                                                           *)
LEMMA ApartNext == IInv /\ Apart /\ [Next]_vars => Apart'
<1> SUFFICES ASSUME IInv, Apart, [Next]_vars PROVE Apart'
  OBVIOUS
<1>1. TypeOK
  BY DEF IInv, Base
<1>2. /\ here' = here
      /\ \/ home' = home /\ had' = had
         \/ \E d \in Lan, a \in Ip : home' = [home EXCEPT ![d] = a] /\ had' = [had EXCEPT ![a] = @ \cup {d}]
  BY DEF Next, vars, Request, FrameList, Discover, Answered, Move, Begin, Unanswered,
         Curate, Deliver, Rename, Deregister
<1>3. (\A d \in here \cap Lan : d \in had[home[d]])'
  BY <1>1, <1>2 DEF Apart, TypeOK
<1>4. \A a \in Ip : had[a] \subseteq had'[a]
  BY <1>1, <1>2 DEF TypeOK
<1>5. ASSUME NEW G \in SUBSET Device, NEW A \in SUBSET Ip, Fits(G, A)'
      PROVE  Sorted(store', Ids(G, A), G, Device \ G) /\ OpSorted(Ids(G, A))'
  <2>1. Fits(G, A)
    BY <1>4, <1>5 DEF Fits
  <2>2. Sorted(store, Ids(G, A), G, Device \ G) /\ OpSorted(Ids(G, A))
    BY <2>1 DEF Apart
  <2>3. Divides(Ids(G, A), G, Device \ G)
    BY <2>1, DividesLemma
  <2> DEFINE K == Ids(G, A)
             Out == Device \ G
  <2>4. K' = K
    BY DEF Ids
  <2>5. Divides(K, G, Out) /\ Sorted(store, K, G, Out) /\ OpSorted(K)
    BY <2>2, <2>3
  <2> HIDE DEF K, Out
  <2>6. Sorted(store', K, G, Out) /\ OpSorted(K)'
    BY <2>5, SortedLemma
  <2>7. QED
    BY <2>6 DEF K, Out
<1>6. Sorted(store', Serial, Device, Device) /\ OpSorted(Serial)'
  BY ServedLemma, SortedLemma DEF Apart
<1>7. QED
  BY <1>3, <1>5, <1>6 DEF Apart

(* Whatever addresses pass from one frame to another, a photo is never in  *)
(* the library of a group of frames, or of one frame, that it was not      *)
(* curated for, unless some frame of the group has had an address that a   *)
(* frame outside has had, too.                                             *)
THEOREM KeepsToFrameHolds == Spec => []KeepsToFrame
<1>1. ASSUME IInv, Apart, NEW G \in SUBSET Device, Secluded(G), NEW i \in Id, Meant(i) \subseteq G
      PROVE  store.rows[i] \subseteq G
  <2> DEFINE A == {a \in Ip : had[a] \subseteq G}
  <2>1. Fits(G, A)
    BY <1>1 DEF Fits, Secluded
  <2>2. i \in Ids(G, A)
    BY <1>1, IdAssumption DEF Ids, Meant, Id
  <2>3. Sorted(store, Ids(G, A), G, Device \ G)
    BY <1>1, <2>1 DEF Apart
  <2>4. QED
    BY <2>2, <2>3 DEF Sorted
<1>2. IInv /\ Apart => KeepsToFrame
  BY <1>1 DEF KeepsToFrame
<1>3. QED
  BY <1>2, InitLemma, NextLemma, ApartInit, ApartNext, PTL DEF Spec

-----------------------------------------------------------------------------
(* Names.                                                                  *)

(* An entry that capturing a GUID does away with was recorded at the       *)
(* address, and is not the frame's own.                                    *)
LEMMA CapturedLeaves ==
  ASSUME NEW S \in Store, NEW d \in Lan, NEW a \in Ip, NEW T \in Captured(S, a, d),
         NEW i \in S.known, i \notin T.known
  PROVE  S.addr[i] = a /\ i # d
<1> DEFINE It(current) == IF d \notin Guidless THEN d ELSE IF current # None THEN current ELSE a
           M(current) == IF current \notin {None, It(current)}
                         THEN Rekeyed(S, {current}, It(current)) ELSE S
           U(current) == Upserted(M(current), StableId(d, a), a, "")
<1>1. PICK current \in AtAddress(S, a) : T = NameCaptured(U(current), It(current))
  BY DEF Captured
<1>2. T.known = M(current).known \cup {StableId(d, a)}
  BY <1>1 DEF NameCaptured, Upserted, Rekeyed, Store
<1>3. CASE current \in {None, It(current)}
  BY <1>2, <1>3
<1>4. CASE current \notin {None, It(current)}
  <2>1. It(current) = d /\ StableId(d, a) = d /\ S.addr[current] = a
    BY <1>4, AtAddressLemma DEF StableId
  <2>2. M(current).known = S.known \ {current}
    BY <1>4 DEF Rekeyed, Store
  <2>3. QED
    BY <1>2, <2>1, <2>2
<1>5. QED
  BY <1>3, <1>4

(* No request does away with the entry of a connected frame.               *)
LEMMA ResolvedLeaves ==
  ASSUME NEW S \in Store, Resolves(S), Sorted(S, Serial, Device, Device), NEW c \in Requests,
         NEW i \in S.known \cap Lan
  PROVE  i \in Resolved(S, c).known
<1> DEFINE it == First(S, c)
           olds == {Canonical(S, c[k]) : k \in Found(S, c)}
<1>1. \A k \in Found(S, c) : Canonical(S, c[k]) \in Serial
  BY FirstLemma, CanonicalLemma DEF Sorted, Found, Canonical, Id
<1>2. i \notin olds
  BY <1>1, IdAssumption
<1>3. /\ Resolved(S, c).known = Unified(S, c).known
  BY DEF Resolved, Linked, Unified, Upserted, Rekeyed, Store
<1>4. i \in Unified(S, c).known
  <2>1. CASE Found(S, c) = {}
    BY <2>1 DEF Unified, Upserted, Store
  <2>2. CASE Found(S, c) # {}
    <3>1. Unified(S, c).known = S.known \ (olds \ {it})
      BY <2>2 DEF Unified, Rekeyed, Store
    <3>2. QED
      BY <1>2, <3>1
  <2>3. QED
    BY <2>1, <2>2
<1>5. QED
  BY <1>3, <1>4

(* The entry of a GUID goes only when a user removes it, by discovery, or  *)
(* if its frame has shared an address with another.                        *)
LEMMA LeavesLemma ==
  ASSUME IInv, Apart, Next, NEW i \in store.known \cap Lan, i \notin store'.known
  PROVE  \/ Deregister(i) \/ Unanswered \/ \E d \in Lan : Discover(d)
         \/ ~Secluded({i})
<1>1. Base /\ store \in Store /\ Resolves(store) /\ store.known \subseteq Id
  BY DEF IInv, Base, TypeOK, AliasesResolve, Resolves, Store
<1>2. ASSUME NEW c \in Requests, Request(c) PROVE FALSE
  BY <1>1, <1>2, ResolvedLeaves DEF Request, Apart
<1>3. ASSUME NEW d \in Lan, Answered(d), Secluded({i}) PROVE FALSE
  <2> DEFINE S == Reached(store, op.to)
             A == {a \in Ip : had[a] \subseteq {i}}
             K == Ids({i}, A)
  <2>1. /\ op \in Op /\ op # None /\ op.to \in Ip /\ op.to \in Id /\ op.host \in Id
        /\ "" \in Names /\ home[d] = op.to /\ d \in here
    BY <1>1, <1>3 DEF Answered, Base, TypeOK, Op, Id, Names
  <2>2. Fits({i}, A) /\ A \in SUBSET Ip /\ {i} \in SUBSET Device
    BY <1>3 DEF Fits, Secluded, Device
  <2>3. Sorted(store, K, {i}, Device \ {i}) /\ OpSorted(K) /\ Divides(K, {i}, Device \ {i})
    BY <2>2, DividesLemma DEF Apart
  <2>4. i \in K /\ (d \in K <=> d = i)
    BY IdAssumption DEF Ids, Id
  <2>5. \/ Address(S, op.host) \in Ip /\ store' \in Captured(S, Address(S, op.host), d)
        \/ store' = S
    BY <1>3 DEF Answered
  <2> HIDE DEF K, A
  <2>6. d \in K <=> op.to \in K
    BY <2>1, <2>3 DEF Divides
  <2>7. op.host \in K <=> op.to \in K
    BY <2>1, <2>3 DEF OpSorted
  <2>8. S \in Store /\ Sorted(S, K, {i}, Device \ {i}) /\ store.known \subseteq S.known
    <3>1. UpsertedFacts(store, op.to, op.to, "", Upserted(store, op.to, op.to, ""))
      BY <1>1, <2>1, UpsertedLemma
    <3>2. Sorted(Upserted(store, op.to, op.to, ""), K, {i}, Device \ {i})
      BY <1>1, <2>1, <2>3, UpsertedSorted
    <3>3. QED
      BY <1>1, <2>3, <3>1, <3>2 DEF Reached, UpsertedFacts
  <2> HIDE DEF S
  <2>9. Address(S, op.host) \in K <=> op.host \in K
    BY <2>1, <2>8, AddressSorted
  <2>10. Address(S, op.host) \in Ip /\ store' \in Captured(S, Address(S, op.host), d)
    BY <2>5, <2>8
  <2>11. S.addr[i] = Address(S, op.host) /\ i # d
    BY <2>8, <2>10, CapturedLeaves
  <2>12. S.addr[i] \in K
    <3>1. S.addr[i] # None
      BY <2>10, <2>11, RegistryAssumption DEF Id
    <3>2. QED
      BY <1>1, <2>4, <2>8, <3>1 DEF Sorted
  <2>13. QED
    BY <2>4, <2>6, <2>7, <2>9, <2>11, <2>12
<1>4. ASSUME NEW j \in Id, Deregister(j) PROVE Deregister(i)
  <2>1. PurgedFacts(store, j, store')
    BY <1>1, <1>4, PurgedLemma DEF Deregister
  <2>2. j = i
    BY <2>1 DEF PurgedFacts
  <2>3. QED
    BY <1>4, <2>2
<1>5. ASSUME store'.known = store.known PROVE FALSE
  BY <1>5
<1>6. ASSUME FrameList \/ \E j \in Id : Curate(j) \/ Deliver(j) \/ Rename(j) PROVE FALSE
  BY <1>1, <1>5, <1>6 DEF FrameList, Curate, Deliver, Rename, Renamed, Store
<1>7. ASSUME NEW d \in Lan, NEW a \in Ip, Move(d, a) PROVE FALSE
  BY <1>5, <1>7 DEF Move
<1>8. ASSUME NEW x \in Lan \cup Ip, NEW config \in BOOLEAN, Begin(x, config) PROVE FALSE
  BY <1>5, <1>8 DEF Begin
<1>9. QED
  BY <1>2, <1>3, <1>4, <1>6, <1>7, <1>8 DEF Next

(* The name a user chose for a frame that is known by its GUID and shares  *)
(* no address gives way only to what it announces in a broadcast; that of  *)
(* any entry, only then or as the entry goes.                              *)
THEOREM NameSticksHolds == Spec => NameSticks
<1> DEFINE Sticky(i) ==
        \/ Rename(i) \/ Deregister(i)
        \/ Unanswered \/ \E d \in Lan : Discover(d)
        \/ i \notin store'.known /\ (i \in Lan => ~Secluded({i}))
<1>1. ASSUME IInv, Apart, Next, NEW i \in store.known,
             store.name[i] = "chosen", store'.name[i] # "chosen"
      PROVE  Sticky(i)
  <2>1. i \in Id
    BY <1>1 DEF IInv, Base, TypeOK, Store
  <2>2. CASE i \notin store'.known
    BY <1>1, <2>2, LeavesLemma
  <2>3. CASE i \in store'.known
    <3>1. CASE Sticks(store, store')
      BY <1>1, <2>3, <3>1 DEF Sticks
    <3>2. ASSUME NEW j \in Id, Rename(j), \A k \in Id \ {j} : store'.name[k] = store.name[k]
          PROVE  Rename(i)
      <4>1. j = i
        BY <1>1, <2>1, <3>2
      <4>2. QED
        BY <3>2, <4>1
    <3>3. QED
      BY <1>1, <3>1, <3>2, SticksLemma
  <2>4. QED
    BY <2>2, <2>3
<1>2. IInv /\ Apart /\ [Next]_vars =>
        [\A i \in store.known : store.name[i] = "chosen" /\ store'.name[i] # "chosen" => Sticky(i)]_vars
  BY <1>1
<1>3. QED
  BY <1>2, InitLemma, NextLemma, ApartInit, ApartNext, PTL DEF Spec, NameSticks
=============================================================================
