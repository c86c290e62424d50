------------------------- MODULE FrameState_proofs -------------------------
(***************************************************************************)
(* Proofs about FrameState, for any photos and any number of requests and  *)
(* restarts: a photo whose removal was confirmed never comes back          *)
(* (StaysRemovedHolds), and as long as no two saves have overlapped, one   *)
(* whose upload was confirmed is never lost (SurvivesHolds) and nothing    *)
(* refers to a photo that is not there (NothingDanglesHolds).              *)
(*                                                                         *)
(* A restart brings back what is on disk, so the invariant has to say of   *)
(* the state file, of a snapshot and of a temporary on its way there what  *)
(* the properties say of memory.  None of these need be up to date: what   *)
(* matters is how far the request under way has come.  Its photo is the    *)
(* one difference there may be between memory, the state files and the     *)
(* photo files (Whole), and the state that it puts on disk itself was      *)
(* taken after its change (StaysThere).  That needs saves to be one at a   *)
(* time (OneSave).  Only StaysGone holds whatever saves overlap: the photo *)
(* files, which a request changes before it saves, decide which photos a   *)
(* restart finds.                                                          *)
(***************************************************************************)
EXTENDS FrameState, WellFoundedInduction, TLAPS

(* The photos that are listed in an album of m, or shown in it.            *)
Dangling(m) == (Listed(m) \cup {m.shown}) \ {None}

(* What the thread that handles requests is doing.                         *)
Control == thread["control"]
(* The photos its request is about.                                        *)
Of == Control.files.of

(* A thread that is idle has no photo to write; the slideshow never has.   *)
Resting ==
  /\ \A t \in Thread : thread[t].at \in {"idle", "dead"} => thread[t].files.of = {}
  /\ thread["cycle"].files.of = {} /\ Control.at # "dead"

(* A photo whose removal was confirmed is neither in memory nor on disk;   *)
(* one that is being removed is not in memory and, once its file was       *)
(* deleted, not on disk.                                                   *)
StaysGone ==
  /\ removed \cap mem.photos = {} /\ removed \cap disk.files = {}
  /\ Control.files.do = "write" => Of \cap removed = {}
  /\ Control.files.do = "delete" =>
       /\ Of \cap mem.photos = {}
       /\ Control.at # "files" => Of \cap disk.files = {}

(* The state that a thread that saves is about to put on disk.             *)
OnItsWay(t) == IF thread[t].at = "tmp" THEN thread[t].snap ELSE disk.tmp

(* One save at a time.                                                     *)
OneSave ==
  /\ ~(Saving("control") /\ Saving("cycle"))
  /\ \A t \in Thread : Saving(t) => OnItsWay(t) \in State

(* A photo whose upload was confirmed is in memory, on disk, and in        *)
(* whatever is about to get there; one whose upload is under way is, as    *)
(* far as the request has come.                                            *)
StaysThere ==
  /\ confirmed \subseteq mem.photos /\ confirmed \subseteq disk.files
  /\ confirmed \subseteq disk.state.photos
  /\ \A t \in Thread : Saving(t) => confirmed \subseteq OnItsWay(t).photos
  /\ Control.files.do = "delete" => Of \cap confirmed = {}
  /\ Control.files.do = "write" =>
       /\ Of \subseteq mem.photos
       /\ Control.at # "files" => Of \subseteq disk.files
       /\ Saving("control") => Of \subseteq OnItsWay("control").photos

(* Nothing in state m refers to a photo that m does not have, and what it  *)
(* has is on disk, except for the photos P of the request under way and    *)
(* for those that a crash has cut short.                                   *)
Whole(m, P) ==
  /\ Dangling(m) \subseteq m.photos \cup torn
  /\ m.photos \subseteq disk.files \cup torn \cup P

(* Which states are whole, and up to which photos.                         *)
NoneDangles ==
  /\ Whole(mem, IF Control.at = "files" THEN Of ELSE {})
  /\ Whole(disk.state, Of)
  /\ Saving("control") => Whole(OnItsWay("control"), {})
  /\ Saving("cycle") => Whole(OnItsWay("cycle"), Of)

(* What holds as long as no two saves have overlapped.                     *)
Orderly == ~raced => OneSave /\ StaysThere /\ NoneDangles

(* The inductive invariant.                                                *)
IInv == TypeOK /\ Resting /\ StaysGone /\ Orderly

-----------------------------------------------------------------------------
(* s lists each of the photos P once.                                      *)
Holds(s, P) == s \in NoDuplicates /\ Range(s) = P

(* A set of naturals that is not empty has a least element.                *)
LEMMA LeastLemma ==
  ASSUME NEW S \in SUBSET Nat, S # {}
  PROVE  Min(S) \in S /\ \A y \in S : Min(S) <= y
<1>1. IsWellFoundedOn(OpToRel(<,Nat), Nat)
  BY NatLessThanWellFounded, Zenon
<1>2. PICK x \in S : \A y \in S : <<y, x>> \notin OpToRel(<,Nat)
  BY <1>1, WFMin, Zenon
<1>3. \A y \in S : ~(y < x)
  BY <1>2, Zenon DEF OpToRel
<1>4. \A y \in S : x <= y
  BY <1>3
<1>5. QED
  BY <1>4 DEF Min

(* What a sequence of photos lists.                                        *)
LEMMA RangeLemma ==
  ASSUME NEW s \in Seq(Photo)
  PROVE  /\ Range(s) \subseteq Photo
         /\ \A q : q \in Range(s) <=> \E i \in 1 .. Len(s) : q = s[i]
BY DEF Range

(* Taking the first occurrence of a photo out of an album takes the photo  *)
(* out, and nothing else.                                                  *)
LEMMA RemovedLemma ==
  ASSUME NEW s \in NoDuplicates, NEW p \in Photo
  PROVE  Holds(RemovedImage(s, p), Range(s) \ {p})
<1> DEFINE I == {i \in 1 .. Len(s) : s[i] = p}
           r == RemovedImage(s, p)
<1>1. s \in Seq(Photo) /\ \A i, j \in 1 .. Len(s) : s[i] = s[j] => i = j
  BY DEF NoDuplicates, IsInjective
<1>2. CASE I = {}
  <2>1. r = s
    BY <1>2 DEF RemovedImage, RemoveFirst
  <2>2. p \notin Range(s)
    BY <1>1, <1>2, RangeLemma
  <2> QED
    BY <2>1, <2>2 DEF Holds
<1>3. CASE I # {}
  <2> DEFINE k == Min(I)
             left == SubSeq(s, 1, k - 1)
             right == SubSeq(s, k + 1, Len(s))
  <2>1. k \in 1 .. Len(s) /\ s[k] = p
    <3>1. I \in SUBSET Nat
      BY <1>1
    <3>2. Min(I) \in I
      BY <3>1, <1>3, LeastLemma
    <3> QED
      BY <3>2
  <2>2. r = left \o right
    BY <1>3 DEF RemovedImage, RemoveFirst, RemoveAt, SelectInSeq
  <2> HIDE DEF k, r
  <2>3. /\ left \in Seq(Photo) /\ Len(left) = k - 1
        /\ \A i \in 1 .. (k - 1) : left[i] = s[i]
    BY <1>1, <2>1
  <2>4. /\ right \in Seq(Photo) /\ Len(right) = Len(s) - k
        /\ \A i \in 1 .. (Len(s) - k) : right[i] = s[k + i]
    BY <1>1, <2>1
  <2> HIDE DEF left, right
  <2>5. r \in Seq(Photo) /\ Len(r) = Len(s) - 1
    BY <1>1, <2>1, <2>2, <2>3, <2>4
  <2>6. \A i \in 1 .. Len(r) : r[i] = IF i < k THEN s[i] ELSE s[i + 1]
    <3> SUFFICES ASSUME NEW i \in 1 .. Len(r) PROVE r[i] = IF i < k THEN s[i] ELSE s[i + 1]
      OBVIOUS
    <3>1. Len(s) \in Nat /\ k \in Nat /\ i \in Nat
      BY <1>1, <2>1, <2>5
    <3>2. CASE i < k
      <4>1. i \in 1 .. Len(left) /\ r[i] = left[i]
        BY <3>1, <3>2, <2>2, <2>3, <2>4
      <4> QED
        BY <4>1, <3>2, <2>3
    <3>3. CASE ~(i < k)
      <4>1. i - (k - 1) \in 1 .. Len(right)
        BY <3>1, <3>3, <2>4, <2>5
      <4>2. r[i] = right[i - Len(left)]
        BY <3>1, <3>3, <2>2, <2>3, <2>4, <2>5, <4>1
      <4>3. right[i - (k - 1)] = s[k + (i - (k - 1))] /\ k + (i - (k - 1)) = i + 1
        BY <3>1, <4>1, <2>4
      <4> QED
        BY <4>2, <4>3, <3>3, <2>3
    <3> QED
      BY <3>2, <3>3
  <2>7. r \in NoDuplicates
    <3>1. \A i, j \in 1 .. Len(r) : r[i] = r[j] => i = j
      BY <1>1, <2>1, <2>5, <2>6
    <3> QED
      BY <3>1, <2>5 DEF NoDuplicates, IsInjective
  <2>8. \A q : q \in Range(r) <=> q \in Range(s) /\ q # p
    <3>1. ASSUME NEW i \in 1 .. Len(r) PROVE r[i] \in Range(s) /\ r[i] # p
      <4>1. CASE i < k
        BY <4>1, <1>1, <2>1, <2>5, <2>6, RangeLemma
      <4>2. CASE ~(i < k)
        <5>1. r[i] = s[i + 1] /\ i + 1 \in 1 .. Len(s) /\ i + 1 # k
          BY <4>2, <1>1, <2>1, <2>5, <2>6
        <5> QED
          BY <5>1, <1>1, <2>1, RangeLemma
      <4> QED
        BY <4>1, <4>2
    <3>2. ASSUME NEW i \in 1 .. Len(s), s[i] # p PROVE s[i] \in Range(r)
      <4>1. CASE i < k
        <5>1. i \in 1 .. Len(r) /\ r[i] = s[i]
          BY <4>1, <1>1, <2>1, <2>5, <2>6
        <5> QED
          BY <5>1, <2>5, RangeLemma
      <4>2. CASE i > k
        <5>1. i - 1 \in 1 .. Len(r) /\ r[i - 1] = s[i]
          BY <4>2, <1>1, <2>1, <2>5, <2>6
        <5> QED
          BY <5>1, <2>5, RangeLemma
      <4> QED
        BY <4>1, <4>2, <3>2, <2>1, <1>1
    <3> QED
      BY <3>1, <3>2, <1>1, <2>5, RangeLemma
  <2> QED
    BY <2>7, <2>8 DEF Holds, r
<1> QED
  BY <1>2, <1>3

(* A photo that was not listed is appended.                                *)
LEMMA AppendedLemma ==
  ASSUME NEW s \in NoDuplicates, NEW p \in Photo \ Range(s)
  PROVE  Holds(Append(s, p), Range(s) \cup {p})
<1> DEFINE r == Append(s, p)
<1>1. s \in Seq(Photo) /\ \A i, j \in 1 .. Len(s) : s[i] = s[j] => i = j
  BY DEF NoDuplicates, IsInjective
<1>2. /\ r \in Seq(Photo) /\ Len(r) = Len(s) + 1
      /\ \A i \in 1 .. Len(s) : r[i] = s[i]
      /\ r[Len(s) + 1] = p
  BY <1>1
<1> HIDE DEF r
<1>3. \A i \in 1 .. Len(s) : s[i] # p
  BY <1>1, RangeLemma
<1>4. \A i, j \in 1 .. Len(r) : r[i] = r[j] => i = j
  BY <1>1, <1>2, <1>3
<1>5. r \in NoDuplicates
  BY <1>2, <1>4 DEF NoDuplicates, IsInjective
<1>6. \A q : q \in Range(r) <=> q \in Range(s) \/ q = p
  <2>1. \A i \in 1 .. Len(r) : i = Len(s) + 1 \/ i \in 1 .. Len(s)
    BY <1>1, <1>2
  <2>2. Len(s) + 1 \in 1 .. Len(r) /\ \A i \in 1 .. Len(s) : i \in 1 .. Len(r)
    BY <1>1, <1>2
  <2> QED
    BY <2>1, <2>2, <1>1, <1>2, RangeLemma
<1> QED
  BY <1>5, <1>6 DEF Holds, r

(* An album without photos.                                                *)
LEMMA EmptyLemma == Holds(<<>>, {})
<1>1. <<>> \in Seq(Photo) /\ DOMAIN <<>> = {}
  OBVIOUS
<1> QED
  BY <1>1 DEF Holds, NoDuplicates, IsInjective, Range

(* An album of one photo.                                                  *)
LEMMA OneLemma == ASSUME NEW p \in Photo PROVE Holds(<<p>>, {p})
<1>1. Holds(Append(<<>>, p), {p})
  BY EmptyLemma, AppendedLemma DEF Holds
<1>2. Append(<<>>, p) = <<p>>
  OBVIOUS
<1> QED
  BY <1>1, <1>2

(* The photos of an album that there may not be.                           *)
In(s) == IF s = None THEN {} ELSE Range(s)

(* The first photo of an album is one of its photos.                       *)
LEMMA FirstOfLemma ==
  ASSUME NEW s \in NoDuplicates \cup {None}
  PROVE  FirstOf(s) \in In(s) \cup {None}
<1>1. CASE s = None \/ s = <<>>
  BY <1>1 DEF FirstOf
<1>2. CASE s # None /\ s # <<>>
  <2>1. s \in Seq(Photo) /\ s # <<>>
    BY <1>2 DEF NoDuplicates
  <2>2. Head(s) = s[1] /\ 1 \in 1 .. Len(s)
    BY <2>1
  <2> QED
    BY <1>2, <2>1, <2>2, RangeLemma DEF FirstOf, In
<1> QED
  BY <1>1, <1>2

(* What a state refers to, photo by photo.                                 *)
LEMMA DanglingLemma ==
  ASSUME NEW m
  PROVE  \A q : q \in Dangling(m) <=>
           /\ q # None
           /\ q = m.shown \/ \E a \in Album : q \in In(m.albums[a])
BY DEF Dangling, Listed, In

(* State m has the photos P and refers to nothing but Q.                   *)
Becomes(m, P, Q) == m \in State /\ m.photos = P /\ Dangling(m) \subseteq Q

(* The slideshow goes through photos that an album lists.                  *)
LEMMA NamesLemma ==
  ASSUME NEW m \in State
  PROVE  /\ Names(m) \in NoDuplicates /\ Range(Names(m)) \subseteq Photo
         /\ Range(Names(m)) \ {None} \subseteq Dangling(m)
<1>1. \A a \in Album : m.albums[a] \in NoDuplicates \cup {None}
  BY DEF State
<1>2. m.current \in Album /\ "Photos" \in Album
  BY DEF State, Album
<1>3. <<>> \in NoDuplicates /\ Range(<<>>) = {}
  BY EmptyLemma DEF Holds
<1>4. Names(m) \in NoDuplicates
  BY <1>1, <1>2, <1>3 DEF Names
<1>5. Range(Names(m)) \subseteq Photo
  BY <1>4, RangeLemma DEF NoDuplicates
<1>6. Names(m) = <<>> \/ \E a \in Album : m.albums[a] # None /\ Names(m) = m.albums[a]
  BY <1>2 DEF Names
<1>7. \A q \in Range(Names(m)) : \E a \in Album : q \in In(m.albums[a])
  BY <1>3, <1>6 DEF In
<1> QED
  BY <1>4, <1>5, <1>7, DanglingLemma

(* add_photo.                                                              *)
LEMMA AddedLemma ==
  ASSUME mem \in State, NEW p \in Photo
  PROVE  Becomes(Added(p), mem.photos \cup {p}, Dangling(mem) \cup {p})
<1> DEFINE old == mem.albums["Photos"]
           new == IF old = None THEN <<p>> ELSE IF p \in Range(old) THEN old ELSE Append(old, p)
           m == Added(p)
<1>1. old \in NoDuplicates \cup {None} /\ mem.albums \in [Album -> NoDuplicates \cup {None}]
      /\ "Photos" \in Album /\ mem.photos \subseteq Photo
  BY DEF State, Album
<1>2. new \in NoDuplicates /\ Range(new) \subseteq In(old) \cup {p}
  <2>1. CASE old = None
    BY <2>1, OneLemma DEF Holds
  <2>2. CASE old # None /\ p \in Range(old)
    BY <2>2, <1>1 DEF In
  <2>3. CASE old # None /\ p \notin Range(old)
    BY <2>3, <1>1, AppendedLemma DEF In, Holds
  <2> QED
    BY <2>1, <2>2, <2>3
<1>3. /\ m.photos = mem.photos \cup {p}
      /\ m.albums = [mem.albums EXCEPT !["Photos"] = new]
      /\ m.shown = IF mem.shown = None THEN p ELSE mem.shown
      /\ m = [mem EXCEPT !.photos = m.photos, !.albums = m.albums, !.shown = m.shown]
  BY DEF Added, State
<1> HIDE DEF m, new, old
<1>4. m.albums \in [Album -> NoDuplicates \cup {None}] /\ m.shown \in Photo \cup {None}
      /\ m.photos \in SUBSET Photo
  BY <1>1, <1>2, <1>3 DEF State
<1>5. m \in State
  BY <1>3, <1>4 DEF State
<1>6. \A a \in Album : In(m.albums[a]) \subseteq In(mem.albums[a]) \cup {p}
  BY <1>1, <1>2, <1>3 DEF In, old
<1>7. Dangling(m) \subseteq Dangling(mem) \cup {p}
  BY <1>3, <1>6, DanglingLemma
<1> QED
  BY <1>3, <1>5, <1>7 DEF Becomes, m

(* remove_photo leaves nothing that refers to the photo.                   *)
LEMMA WithoutLemma ==
  ASSUME mem \in State, NEW p \in Photo
  PROVE  Becomes(Without(p), mem.photos \ {p}, Dangling(mem) \ {p})
<1> DEFINE row(s) == IF s = None THEN None ELSE RemovedImage(s, p)
           albums == [a \in Album |-> row(mem.albums[a])]
           shown == IF mem.shown = p THEN FirstOf(albums[mem.current]) ELSE mem.shown
           m == Without(p)
<1>1. /\ mem.albums \in [Album -> NoDuplicates \cup {None}]
      /\ mem.current \in Album /\ mem.photos \subseteq Photo /\ mem.shown \in Photo \cup {None}
  BY DEF State
<1>2. ASSUME NEW s \in NoDuplicates \cup {None}
      PROVE  row(s) \in NoDuplicates \cup {None} /\ In(row(s)) \subseteq In(s) \ {p}
  BY RemovedLemma DEF In, Holds
<1>3. /\ m.photos = mem.photos \ {p}
      /\ m.albums = albums
      /\ m.shown = shown
      /\ m = [mem EXCEPT !.photos = m.photos, !.albums = m.albums, !.shown = m.shown]
  BY DEF Without, State
<1> HIDE DEF row, m
<1>4. /\ albums \in [Album -> NoDuplicates \cup {None}]
      /\ \A a \in Album : In(albums[a]) \subseteq In(mem.albums[a]) \ {p}
  BY <1>1, <1>2
<1> HIDE DEF albums
<1>5. shown \in Photo \cup {None} /\ shown # p
      /\ (shown = mem.shown \/ shown = None \/ shown \in In(albums[mem.current]))
  <2>1. FirstOf(albums[mem.current]) \in In(albums[mem.current]) \cup {None}
    BY <1>1, <1>4, FirstOfLemma
  <2>2. In(albums[mem.current]) \subseteq Photo
    BY <1>1, <1>4, RangeLemma DEF In, NoDuplicates
  <2>3. None # p /\ p \notin In(albums[mem.current])
    BY <1>1, <1>4, StateAssumption
  <2> QED
    BY <1>1, <2>1, <2>2, <2>3
<1> HIDE DEF shown
<1>6. m \in State
  <2>1. m.photos \in SUBSET Photo
    BY <1>1, <1>3
  <2> QED
    BY <2>1, <1>3, <1>4, <1>5 DEF State
<1>7. Dangling(m) \subseteq Dangling(mem) \ {p}
  <2> SUFFICES ASSUME NEW q \in Dangling(m)
               PROVE  /\ q # None /\ q # p
                      /\ q = mem.shown \/ \E a \in Album : q \in In(mem.albums[a])
    BY DanglingLemma
  <2>1. q # None /\ (q = shown \/ \E a \in Album : q \in In(albums[a]))
    BY <1>3, DanglingLemma
  <2>2. (q = mem.shown /\ q # p) \/ \E a \in Album : q \in In(albums[a])
    BY <2>1, <1>1, <1>5
  <2> QED
    BY <2>1, <2>2, <1>4
<1> QED
  BY <1>3, <1>6, <1>7 DEF Becomes, m

(* factory_reset.                                                          *)
LEMMA FactoryLemma == Becomes(Factory, {}, {})
<1>1. <<>> \in NoDuplicates /\ Range(<<>>) = {}
  BY EmptyLemma DEF Holds
<1>2. Factory \in State /\ Factory.photos = {} /\ Factory.shown = None
  BY <1>1 DEF Factory, State, Album
<1>3. \A a \in Album : In(Factory.albums[a]) = {}
  BY <1>1 DEF Factory, Album, In
<1> QED
  BY <1>2, <1>3, DanglingLemma DEF Becomes

(* Another image is shown.                                                 *)
LEMMA ShownLemma ==
  ASSUME NEW m \in State, NEW q \in Photo \cup {None},
         q \in Dangling(m) \cup m.photos \cup {None}
  PROVE  Becomes([m EXCEPT !.shown = q], m.photos, Dangling(m) \cup m.photos)
<1> DEFINE n == [m EXCEPT !.shown = q]
<1>1. n \in State /\ n.photos = m.photos /\ n.shown = q /\ n.albums = m.albums
  BY DEF State
<1> HIDE DEF n
<1>2. Dangling(n) \subseteq Dangling(m) \cup m.photos
  BY <1>1, DanglingLemma
<1> QED
  BY <1>1, <1>2 DEF Becomes, n

(* The slideshow stays within its album, forwards and backwards.           *)
LEMMA AdvancedLemma ==
  ASSUME mem \in State, NEW step \in {1, -1}, NEW m \in Advanced(step)
  PROVE  Becomes(m, mem.photos, Dangling(mem) \cup mem.photos)
<1> DEFINE names == Names(mem)
           at == {i \in DOMAIN names : names[i] = mem.shown}
           next == IF at = {} THEN 1
                   ELSE (((CHOOSE i \in at : TRUE) - 1 + step) % Len(names)) + 1
<1>1. /\ names \in NoDuplicates /\ Range(names) \subseteq Photo
      /\ Range(names) \ {None} \subseteq Dangling(mem)
  BY NamesLemma
<1>2. names \in Seq(Photo)
  BY <1>1 DEF NoDuplicates
<1>3. names # <<>> => names[next] \in Range(names)
  <2> SUFFICES ASSUME names # <<>> PROVE next \in 1 .. Len(names)
    BY <1>2, RangeLemma
  <2>1. Len(names) \in Nat \ {0}
    BY <1>2
  <2>2. CASE at = {}
    BY <2>1, <2>2
  <2>3. CASE at # {}
    <3> DEFINE i == CHOOSE i \in at : TRUE
               k == i - 1 + step
    <3>1. i \in at
      BY <2>3
    <3>2. k \in Int
      BY <3>1, <1>2
    <3> HIDE DEF k
    <3>3. k % Len(names) \in 0 .. (Len(names) - 1)
      BY <3>2, <2>1
    <3>4. next = (k % Len(names)) + 1
      BY <2>3 DEF k
    <3> QED
      BY <3>3, <3>4, <2>1
  <2> QED
    BY <2>2, <2>3
<1>4. \E q \in Range(names) \cup {None} : m = [mem EXCEPT !.shown = q]
  <2>1. \/ m \in {[mem EXCEPT !.shown = None]}
        \/ m \in {[mem EXCEPT !.shown = q] : q \in Range(names) \ {mem.shown}}
        \/ names # <<>> /\ m \in {[mem EXCEPT !.shown = names[next]]}
    BY DEF Advanced
  <2> HIDE DEF next, names
  <2> QED
    BY <2>1, <1>3
<1> QED
  BY <1>1, <1>4, ShownLemma

(* The hub changes its album: only photos that the frame has are put in.   *)
LEMMA FolderLemma ==
  ASSUME mem \in State, NEW m \in AlbumChanges
  PROVE  Becomes(m, mem.photos, Dangling(mem) \cup mem.photos)
<1> DEFINE folder == mem.albums["Folder"]
<1>1. folder \in NoDuplicates \cup {None} /\ mem.albums \in [Album -> NoDuplicates \cup {None}]
      /\ "Folder" \in Album /\ mem.photos \subseteq Photo
  BY DEF State, Album
<1>2. AddedAlbum(folder) \in NoDuplicates /\ Range(AddedAlbum(folder)) = In(folder)
  BY <1>1, EmptyLemma DEF AddedAlbum, In, Holds
<1>3. PICK f : /\ f \in {AddedAlbum(folder), None}
                        \cup {AddedImage(folder, p) : p \in mem.photos}
                        \cup {RemovedImage(folder, p) : p \in Range(AddedAlbum(folder))}
               /\ m = [mem EXCEPT !.albums["Folder"] = f]
  BY DEF AlbumChanges
<1>4. f \in NoDuplicates \cup {None} /\ In(f) \subseteq In(folder) \cup mem.photos
  <2>1. CASE f = AddedAlbum(folder) \/ f = None
    BY <2>1, <1>2 DEF In
  <2>2. ASSUME NEW p \in mem.photos, f = AddedImage(folder, p)
        PROVE  f \in NoDuplicates \cup {None} /\ In(f) \subseteq In(folder) \cup mem.photos
    <3>1. CASE p \in Range(AddedAlbum(folder))
      BY <2>2, <3>1, <1>1 DEF AddedImage
    <3>2. CASE p \notin Range(AddedAlbum(folder))
      <4>1. Holds(Append(AddedAlbum(folder), p), Range(AddedAlbum(folder)) \cup {p})
        BY <3>2, <1>1, <1>2, AppendedLemma
      <4> QED
        BY <4>1, <3>2, <2>2, <1>2 DEF AddedImage, In, Holds
    <3> QED
      BY <3>1, <3>2
  <2>3. ASSUME NEW p \in Range(AddedAlbum(folder)), f = RemovedImage(folder, p)
        PROVE  f \in NoDuplicates \cup {None} /\ In(f) \subseteq In(folder) \cup mem.photos
    <3>1. p \in Photo /\ folder # None
      BY <1>1, <1>2, RangeLemma DEF In, NoDuplicates
    <3>2. Holds(RemovedImage(folder, p), Range(folder) \ {p})
      BY <3>1, <1>1, RemovedLemma
    <3> QED
      BY <3>1, <3>2, <2>3 DEF In, Holds
  <2> QED
    BY <1>3, <2>1, <2>2, <2>3
<1>5. /\ m.photos = mem.photos /\ m.shown = mem.shown
      /\ m.albums = [mem.albums EXCEPT !["Folder"] = f]
      /\ m = [mem EXCEPT !.albums = m.albums]
  BY <1>3 DEF State
<1> HIDE DEF folder
<1>6. m.albums \in [Album -> NoDuplicates \cup {None}]
  BY <1>1, <1>4, <1>5
<1>7. m \in State
  BY <1>5, <1>6 DEF State
<1>8. \A a \in Album : In(m.albums[a]) \subseteq In(mem.albums[a]) \cup mem.photos
  BY <1>1, <1>4, <1>5 DEF folder
<1>9. Dangling(m) \subseteq Dangling(mem) \cup mem.photos
  BY <1>5, <1>8, DanglingLemma
<1> QED
  BY <1>5, <1>7, <1>9 DEF Becomes

(* Every other request leaves the photos alone and refers to no new one.   *)
LEMMA OtherLemma ==
  ASSUME mem \in State, NEW m \in AlbumChanges \cup SetupChanges \cup FlowChanges
  PROVE  Becomes(m, mem.photos, Dangling(mem) \cup mem.photos)
<1>1. CASE m \in AlbumChanges
  BY <1>1, FolderLemma
<1>2. CASE m \in Selected
  <2>1. PICK a \in Album : m = [mem EXCEPT !.current = a, !.shown = FirstOf(mem.albums[a])]
    BY <1>2 DEF Selected
  <2>2. mem.albums[a] \in NoDuplicates \cup {None}
    BY DEF State
  <2>3. FirstOf(mem.albums[a]) \in In(mem.albums[a]) \cup {None}
    BY <2>2, FirstOfLemma
  <2>4. In(mem.albums[a]) \subseteq Photo
    BY <2>2, RangeLemma DEF In, NoDuplicates
  <2> DEFINE n == [mem EXCEPT !.current = a]
  <2>5. n \in State /\ n.photos = mem.photos /\ n.albums = mem.albums /\ n.shown = mem.shown
        /\ m = [n EXCEPT !.shown = FirstOf(mem.albums[a])]
    BY <2>1 DEF State
  <2> HIDE DEF n
  <2>6. Dangling(n) = Dangling(mem)
    BY <2>5 DEF Dangling, Listed
  <2>7. In(mem.albums[a]) \subseteq Dangling(n)
    BY <2>4, <2>6, DanglingLemma, StateAssumption
  <2>8. Becomes(m, n.photos, Dangling(n) \cup n.photos)
    BY <2>3, <2>4, <2>5, <2>7, ShownLemma
  <2> QED
    BY <2>5, <2>6, <2>8
<1>3. CASE m \in Configured \cup Oriented
  <2> DEFINE set(b, c) == [mem EXCEPT !.on = b, !.shuffle = c]
  <2>1. Configured = {set(b, c) : b \in BOOLEAN, c \in BOOLEAN}
    BY DEF Configured
  <2> HIDE DEF set
  <2>2. m = mem \/ \E b \in BOOLEAN, c \in BOOLEAN : m = set(b, c)
    BY <2>1, <1>3 DEF Oriented
  <2>3. m \in State /\ m.photos = mem.photos /\ m.albums = mem.albums /\ m.shown = mem.shown
    BY <2>2 DEF State, set
  <2> QED
    BY <2>3 DEF Becomes, Dangling, Listed
<1>4. CASE m \in Displayed
  <2>1. PICK p \in mem.photos : m = [mem EXCEPT !.shown = p]
    BY <1>4 DEF Displayed
  <2>2. p \in Photo
    BY DEF State
  <2> QED
    BY <2>1, <2>2, ShownLemma
<1>5. CASE m \in Advanced(1) \/ m \in Advanced(-1)
  BY <1>5, AdvancedLemma
<1> QED
  BY <1>1, <1>2, <1>3, <1>4, <1>5 DEF SetupChanges, FlowChanges

(* A restart finds the photos that are in the state file and on disk.      *)
LEMMA LoadedLemma ==
  ASSUME disk.state \in State
  PROVE  Becomes(Loaded, disk.state.photos \cap disk.files, Dangling(disk.state))
<1> DEFINE s == disk.state
           m == Loaded
           new == IF s.albums["Photos"] = None THEN <<>> ELSE s.albums["Photos"]
<1>1. /\ s.albums \in [Album -> NoDuplicates \cup {None}] /\ "Photos" \in Album
      /\ s.photos \in SUBSET Photo
  BY DEF State, Album
<1>2. new \in NoDuplicates /\ Range(new) \subseteq In(s.albums["Photos"])
  BY <1>1, EmptyLemma DEF In, Holds
<1>3. /\ m.photos = s.photos \cap disk.files /\ m.shown = s.shown
      /\ m.albums = [s.albums EXCEPT !["Photos"] = new]
      /\ m = [s EXCEPT !.photos = m.photos, !.albums = m.albums]
  BY DEF Loaded, State
<1> HIDE DEF s, m, new
<1>4. m.albums \in [Album -> NoDuplicates \cup {None}] /\ m.photos \in SUBSET Photo
  BY <1>1, <1>2, <1>3
<1>5. m \in State
  BY <1>3, <1>4 DEF State, s
<1>6. \A a \in Album : In(m.albums[a]) \subseteq In(s.albums[a])
  BY <1>1, <1>2, <1>3 DEF In
<1>7. Dangling(m) \subseteq Dangling(s)
  BY <1>3, <1>6, DanglingLemma
<1> QED
  BY <1>3, <1>5, <1>7 DEF Becomes, s, m

-----------------------------------------------------------------------------
(* What a thread may be doing.                                             *)
ThreadType ==
  [at : {"idle", "files", "snapshot", "tmp", "replace", "dead"},
   files : Files, snap : State \cup {None}]

(* The invariant holds at the start.                                       *)
LEMMA InitLemma == Init => IInv
<1> SUFFICES ASSUME Init PROVE IInv
  OBVIOUS
<1>1. Factory \in State /\ Factory.photos = {} /\ Dangling(Factory) = {}
  BY FactoryLemma DEF Becomes
<1>2. Idle \in ThreadType /\ Idle.at = "idle" /\ Idle.files.of = {} /\ Idle.files.do = "write"
  BY DEF Idle, ThreadType, Files
<1>3. TypeOK
  <2>1. mem \in State /\ disk \in [state : State, tmp : State \cup {None}, files : SUBSET Photo]
    BY <1>1 DEF Init
  <2>2. thread \in [Thread -> ThreadType]
    BY <1>2 DEF Init
  <2>3. edits \in 0 .. Edits /\ crashes \in 0 .. Crashes
    BY StateAssumption DEF Init
  <2>4. confirmed = {} /\ removed = {} /\ torn = {} /\ raced = FALSE
    BY DEF Init
  <2> QED
    BY <2>1, <2>2, <2>3, <2>4 DEF TypeOK, ThreadType
<1>4. \A t \in Thread : thread[t] = Idle
  BY DEF Init
<1>5. "control" \in Thread /\ "cycle" \in Thread
  BY DEF Thread
<1>6. Resting
  BY <1>2, <1>4, <1>5 DEF Resting, Control
<1>7. StaysGone
  BY <1>1, <1>2, <1>4, <1>5 DEF Init, StaysGone, Control, Of
<1>8. Orderly
  BY <1>1, <1>2, <1>4, <1>5
     DEF Init, Orderly, OneSave, StaysThere, NoneDangles, Whole, Saving, Control, Of
<1> QED
  BY <1>3, <1>6, <1>7, <1>8 DEF IInv

(* Thread t changes memory to m and has photos P to write or delete.       *)
Begins(t, do, P, m) ==
  /\ thread[t].at = "idle"
  /\ mem' = m /\ m \in State
  /\ thread' = Busy(t, do, P) /\ UNCHANGED <<disk, torn, raced>>
  /\ edits' \in 0 .. Edits /\ crashes' = crashes

(* What the thread is doing then.                                          *)
LEMMA BeginsLemma ==
  ASSUME TypeOK, NEW t \in Thread, NEW do \in {"write", "delete"}, NEW P \in SUBSET Photo, NEW m,
         Begins(t, do, P, m)
  PROVE  /\ thread' \in [Thread -> ThreadType]
         /\ thread'[t].at = "files" /\ thread'[t].files.do = do /\ thread'[t].files.of = P
         /\ \A u \in Thread \ {t} : thread'[u] = thread[u]
<1> DEFINE r == [at |-> "files", files |-> [do |-> do, of |-> P], snap |-> None]
<1>1. r \in ThreadType /\ r.at = "files" /\ r.files.do = do /\ r.files.of = P
  BY DEF ThreadType, Files
<1>2. thread \in [Thread -> ThreadType] /\ thread' = [thread EXCEPT ![t] = r]
  BY DEF TypeOK, ThreadType, Begins, Busy
<1> HIDE DEF r
<1> QED
  BY <1>1, <1>2

(* A photo is uploaded.                                                    *)
LEMMA UploadLemma ==
  ASSUME IInv, NEW p \in Photo, Upload(p)
  PROVE  IInv'
<1> DEFINE m == Added(p)
<1>1. TypeOK /\ Resting /\ StaysGone /\ Orderly
  BY DEF IInv
<1>2. m \in State /\ m.photos = mem.photos \cup {p} /\ Dangling(m) \subseteq Dangling(mem) \cup {p}
  BY <1>1, AddedLemma DEF TypeOK, Becomes
<1>3. Begins("control", "write", {p}, m) /\ removed' = removed \ {p} /\ confirmed' = confirmed
  BY <1>1, <1>2, StateAssumption DEF Upload, Request, Begins, TypeOK
<1> HIDE DEF m
<1>4. /\ "control" \in Thread /\ "cycle" \in Thread
      /\ \A t \in Thread : t = "control" \/ t = "cycle"
  BY DEF Thread
<1>5. /\ thread' \in [Thread -> ThreadType]
      /\ Control'.at = "files" /\ Control'.files.do = "write" /\ Of' = {p}
      /\ thread'["cycle"] = thread["cycle"]
  BY <1>1, <1>3, <1>4, BeginsLemma DEF Control, Of
<1>6. Control.at = "idle" /\ Of = {} /\ mem' = m /\ UNCHANGED <<disk, torn, raced>>
  BY <1>1, <1>3, <1>4 DEF Begins, Resting, Control, Of
<1>7. TypeOK'
  BY <1>1, <1>2, <1>3, <1>5 DEF TypeOK, ThreadType, Begins
<1>8. Resting'
  BY <1>1, <1>4, <1>5 DEF Resting, Control
<1>9. StaysGone'
  BY <1>1, <1>2, <1>3, <1>5, <1>6 DEF StaysGone
<1>10. Orderly'
  <2> SUFFICES ASSUME ~raced PROVE (OneSave /\ StaysThere /\ NoneDangles)'
    BY <1>6 DEF Orderly
  <2>1. OneSave /\ StaysThere /\ NoneDangles
    BY <1>1 DEF Orderly
  <2>2. ~Saving("control")' /\ (Saving("cycle")' <=> Saving("cycle"))
        /\ (Saving("cycle") => OnItsWay("cycle")' = OnItsWay("cycle"))
    BY <1>5, <1>6 DEF Saving, Control, OnItsWay
  <2>3. OneSave'
    BY <2>1, <2>2, <1>4 DEF OneSave
  <2>4. StaysThere'
    BY <2>1, <2>2, <1>2, <1>3, <1>4, <1>5, <1>6 DEF StaysThere
  <2>5. NoneDangles'
    BY <2>1, <2>2, <1>2, <1>3, <1>4, <1>5, <1>6 DEF NoneDangles, Whole
  <2> QED
    BY <2>3, <2>4, <2>5
<1> QED
  BY <1>7, <1>8, <1>9, <1>10 DEF IInv

(* Photos are removed: one, or all of them.                                *)
LEMMA RemovesLemma ==
  ASSUME IInv, NEW P \in SUBSET Photo, NEW m, Begins("control", "delete", P, m),
         m.photos = mem.photos \ P, Dangling(m) \subseteq Dangling(mem) \ P,
         confirmed' = confirmed \ P, removed' = removed
  PROVE  IInv'
<1>1. TypeOK /\ Resting /\ StaysGone /\ Orderly
  BY DEF IInv
<1>2. /\ "control" \in Thread /\ "cycle" \in Thread
      /\ \A t \in Thread : t = "control" \/ t = "cycle"
  BY DEF Thread
<1>3. /\ thread' \in [Thread -> ThreadType]
      /\ Control'.at = "files" /\ Control'.files.do = "delete" /\ Of' = P
      /\ thread'["cycle"] = thread["cycle"]
  BY <1>1, <1>2, BeginsLemma DEF Control, Of
<1>4. Control.at = "idle" /\ Of = {} /\ mem' = m /\ m \in State /\ UNCHANGED <<disk, torn, raced>>
  BY <1>1, <1>2 DEF Begins, Resting, Control, Of
<1>5. TypeOK'
  BY <1>1, <1>3 DEF TypeOK, ThreadType, Begins
<1>6. Resting'
  BY <1>1, <1>2, <1>3 DEF Resting, Control
<1>7. StaysGone'
  BY <1>1, <1>3, <1>4 DEF StaysGone
<1>8. Orderly'
  <2> SUFFICES ASSUME ~raced PROVE (OneSave /\ StaysThere /\ NoneDangles)'
    BY <1>4 DEF Orderly
  <2>1. OneSave /\ StaysThere /\ NoneDangles
    BY <1>1 DEF Orderly
  <2>2. ~Saving("control")' /\ (Saving("cycle")' <=> Saving("cycle"))
        /\ (Saving("cycle") => OnItsWay("cycle")' = OnItsWay("cycle"))
    BY <1>3, <1>4 DEF Saving, Control, OnItsWay
  <2>3. OneSave'
    BY <2>1, <2>2, <1>2 DEF OneSave
  <2>4. StaysThere'
    BY <2>1, <2>2, <1>2, <1>3, <1>4 DEF StaysThere
  <2>5. NoneDangles'
    BY <2>1, <2>2, <1>2, <1>3, <1>4 DEF NoneDangles, Whole
  <2> QED
    BY <2>3, <2>4, <2>5
<1> QED
  BY <1>5, <1>6, <1>7, <1>8 DEF IInv

(* A photo is removed.                                                     *)
LEMMA DeleteLemma ==
  ASSUME IInv, NEW p \in Photo, Delete(p)
  PROVE  IInv'
<1>1. mem \in State /\ edits \in 0 .. Edits
  BY DEF IInv, TypeOK
<1>2. Becomes(Without(p), mem.photos \ {p}, Dangling(mem) \ {p})
  BY <1>1, WithoutLemma
<1>3. /\ Begins("control", "delete", {p}, Without(p))
      /\ UNCHANGED removed /\ confirmed' = confirmed \ {p}
  BY <1>1, <1>2, StateAssumption DEF Delete, Request, Begins, Becomes
<1> QED
  BY <1>2, <1>3, RemovesLemma DEF Becomes

(* All photos are removed.                                                 *)
LEMMA ResetLemma ==
  ASSUME IInv, FactoryReset
  PROVE  IInv'
<1>1. mem.photos \subseteq Photo /\ confirmed \subseteq Photo /\ edits \in 0 .. Edits
  BY DEF IInv, TypeOK, State
<1>2. Becomes(Factory, {}, {})
  BY FactoryLemma
<1>3. Begins("control", "delete", Photo, Factory) /\ UNCHANGED removed /\ confirmed' = {}
  BY <1>1, <1>2, StateAssumption DEF FactoryReset, Request, Begins, Becomes
<1>4. mem.photos \ Photo = {} /\ confirmed \ Photo = {}
  BY <1>1
<1>5. Factory.photos = mem.photos \ Photo /\ Dangling(Factory) \subseteq Dangling(mem) \ Photo
      /\ confirmed' = confirmed \ Photo
  BY <1>2, <1>3, <1>4 DEF Becomes
<1> QED
  BY <1>3, <1>5, RemovesLemma

(* A change that leaves the photos alone.                                  *)
LEMMA MovesLemma ==
  ASSUME IInv, NEW t \in Thread, NEW m, Begins(t, "write", {}, m),
         m.photos = mem.photos, Dangling(m) \subseteq Dangling(mem) \cup mem.photos,
         UNCHANGED <<confirmed, removed>>
  PROVE  IInv'
<1>1. TypeOK /\ Resting /\ StaysGone /\ Orderly
  BY DEF IInv
<1>2. /\ "control" \in Thread /\ "cycle" \in Thread
      /\ \A u \in Thread : u = "control" \/ u = "cycle"
  BY DEF Thread
<1>3. /\ thread' \in [Thread -> ThreadType]
      /\ thread'[t].at = "files" /\ thread'[t].files.do = "write" /\ thread'[t].files.of = {}
      /\ \A u \in Thread \ {t} : thread'[u] = thread[u]
  BY <1>1, BeginsLemma
<1>4. thread[t].at = "idle" /\ mem' = m /\ m \in State /\ UNCHANGED <<disk, torn, raced>>
  BY DEF Begins
<1>5. TypeOK'
  BY <1>1, <1>3 DEF TypeOK, ThreadType, Begins
<1>6. Resting'
  BY <1>1, <1>2, <1>3 DEF Resting, Control
<1>7. Of' = Of /\ (Control'.files = Control.files \/ Of' = {})
      /\ (Control'.at = Control.at \/ Of' = {})
  BY <1>1, <1>2, <1>3, <1>4 DEF Resting, Control, Of
<1>8. StaysGone'
  BY <1>1, <1>4, <1>7 DEF StaysGone
<1>9. Orderly'
  <2> SUFFICES ASSUME ~raced PROVE (OneSave /\ StaysThere /\ NoneDangles)'
    BY <1>4 DEF Orderly
  <2>1. OneSave /\ StaysThere /\ NoneDangles
    BY <1>1 DEF Orderly
  <2>2. ASSUME NEW u \in Thread
        PROVE  Saving(u)' => Saving(u) /\ OnItsWay(u)' = OnItsWay(u)
    BY <1>3, <1>4 DEF Saving, OnItsWay
  <2>3. OneSave'
    BY <2>1, <2>2, <1>2 DEF OneSave
  <2>4. StaysThere'
    BY <2>1, <2>2, <1>2, <1>4, <1>7 DEF StaysThere
  <2>5. NoneDangles'
    BY <2>1, <2>2, <1>2, <1>4, <1>7 DEF NoneDangles, Whole
  <2> QED
    BY <2>3, <2>4, <2>5
<1> QED
  BY <1>5, <1>6, <1>8, <1>9 DEF IInv

(* All other requests, and the slideshow.                                  *)
LEMMA OthersLemma ==
  ASSUME IInv, Other \/ Tick
  PROVE  IInv'
<1>1. mem \in State /\ edits \in 0 .. Edits /\ "control" \in Thread /\ "cycle" \in Thread
  BY DEF IInv, TypeOK, Thread
<1>2. CASE Other
  <2>1. Becomes(mem', mem.photos, Dangling(mem) \cup mem.photos)
    BY <1>1, <1>2, OtherLemma DEF Other
  <2>2. Begins("control", "write", {}, mem') /\ UNCHANGED <<confirmed, removed>>
    BY <1>1, <1>2, <2>1, StateAssumption DEF Other, Request, Begins, Becomes
  <2> QED
    BY <1>1, <2>1, <2>2, MovesLemma DEF Becomes
<1>3. CASE Tick
  <2>1. Becomes(mem', mem.photos, Dangling(mem) \cup mem.photos)
    BY <1>1, <1>3, AdvancedLemma DEF Tick
  <2>2. Begins("cycle", "write", {}, mem') /\ UNCHANGED <<confirmed, removed>>
    BY <1>1, <1>3, <2>1 DEF Tick, Begins, Becomes, promise
  <2> QED
    BY <1>1, <2>1, <2>2, MovesLemma DEF Becomes
<1> QED
  BY <1>2, <1>3

(* Photo files are written or deleted.                                     *)
LEMMA FilesLemma ==
  ASSUME IInv, NEW t \in Thread, PhotoFiles(t)
  PROVE  IInv'
<1>1. TypeOK /\ Resting /\ StaysGone /\ Orderly
  BY DEF IInv
<1>2. /\ "control" \in Thread /\ "cycle" \in Thread
      /\ \A u \in Thread : u = "control" \/ u = "cycle"
  BY DEF Thread
<1>3. thread \in [Thread -> ThreadType]
  BY <1>1 DEF TypeOK, ThreadType
<1>4. /\ thread' \in [Thread -> ThreadType]
      /\ thread[t].at = "files" /\ thread'[t].at = "snapshot" /\ thread'[t].files = thread[t].files
      /\ \A u \in Thread \ {t} : thread'[u] = thread[u]
      /\ UNCHANGED <<mem, confirmed, removed, torn, raced, edits, crashes>>
  BY <1>3 DEF PhotoFiles, ThreadType, promise
<1> DEFINE f == thread[t].files
<1>5. f.do \in {"write", "delete"} /\ f.of \subseteq Photo
  BY <1>3 DEF ThreadType, Files
<1>6. /\ disk' = [disk EXCEPT !.files = disk'.files]
      /\ disk'.state = disk.state /\ disk'.tmp = disk.tmp
      /\ disk'.files = IF f.do = "write" THEN disk.files \cup f.of ELSE disk.files \ f.of
  BY <1>1 DEF PhotoFiles, TypeOK
<1>7. TypeOK'
  <2>1. disk'.files \in SUBSET Photo
    BY <1>1, <1>5, <1>6 DEF TypeOK
  <2>2. disk' \in [state : State, tmp : State \cup {None}, files : SUBSET Photo]
    BY <2>1, <1>1, <1>6 DEF TypeOK
  <2> QED
    BY <2>2, <1>1, <1>4 DEF TypeOK, ThreadType
<1>8. Resting'
  BY <1>1, <1>2, <1>4 DEF Resting, Control
<1> HIDE DEF f
<1>9. /\ Of' = Of /\ Control'.files = Control.files
      /\ t = "cycle" => disk'.files = disk.files /\ Control' = Control
      /\ t = "control" => /\ f = Control.files /\ f.of = Of
                          /\ Control.at = "files" /\ Control'.at = "snapshot"
  BY <1>1, <1>2, <1>4, <1>5, <1>6 DEF Resting, Control, Of, f
<1>10. StaysGone'
  BY <1>1, <1>2, <1>4, <1>5, <1>6, <1>9 DEF StaysGone
<1>11. Orderly'
  <2> SUFFICES ASSUME ~raced PROVE (OneSave /\ StaysThere /\ NoneDangles)'
    BY <1>4 DEF Orderly
  <2>1. OneSave /\ StaysThere /\ NoneDangles
    BY <1>1 DEF Orderly
  <2>2. ASSUME NEW u \in Thread
        PROVE  Saving(u)' => Saving(u) /\ OnItsWay(u)' = OnItsWay(u)
    BY <1>4, <1>6 DEF Saving, OnItsWay
  <2>3. OneSave'
    BY <2>1, <2>2, <1>2 DEF OneSave
  <2>4. StaysThere'
    BY <2>1, <2>2, <1>2, <1>4, <1>5, <1>6, <1>9 DEF StaysThere
  <2>5. t = "control" => ~Saving("control")' 
    BY <1>4 DEF Saving
  <2>6. Control.files.do = "delete" => Of \cap mem.photos = {}
    BY <1>1 DEF StaysGone
  <2>7. NoneDangles'
    BY <2>1, <2>2, <2>5, <2>6, <1>2, <1>4, <1>5, <1>6, <1>9 DEF NoneDangles, Whole
  <2> QED
    BY <2>3, <2>4, <2>7
<1> QED
  BY <1>7, <1>8, <1>10, <1>11 DEF IInv

(* A snapshot is taken: from memory, which a request has changed before.   *)
LEMMA SnapshotLemma ==
  ASSUME IInv, NEW t \in Thread, Snapshot(t)
  PROVE  IInv'
<1>1. TypeOK /\ Resting /\ StaysGone /\ Orderly
  BY DEF IInv
<1>2. /\ "control" \in Thread /\ "cycle" \in Thread
      /\ \A u \in Thread : u = "control" \/ u = "cycle"
  BY DEF Thread
<1>3. thread \in [Thread -> ThreadType] /\ mem \in State
  BY <1>1 DEF TypeOK, ThreadType
<1>4. /\ thread' \in [Thread -> ThreadType]
      /\ thread[t].at = "snapshot" /\ thread'[t].at = "tmp"
      /\ thread'[t].files = thread[t].files /\ thread'[t].snap = mem
      /\ \A u \in Thread \ {t} : thread'[u] = thread[u]
      /\ UNCHANGED <<mem, disk, confirmed, removed, torn, edits, crashes>>
      /\ raced' = (raced \/ \E u \in Thread : Saving(u))
  BY <1>3 DEF Snapshot, ThreadType, promise
<1>5. TypeOK'
  BY <1>1, <1>4 DEF TypeOK, ThreadType
<1>6. Resting'
  BY <1>1, <1>2, <1>4 DEF Resting, Control
<1>7. /\ Of' = Of /\ Control'.files = Control.files
      /\ t = "cycle" => Control' = Control
      /\ t = "control" => Control.at = "snapshot" /\ Control'.at = "tmp"
  BY <1>1, <1>2, <1>4 DEF Control, Of
<1>8. StaysGone'
  BY <1>1, <1>2, <1>4, <1>7 DEF StaysGone
<1>9. Orderly'
  <2> SUFFICES ASSUME ~raced, \A u \in Thread : ~Saving(u)
               PROVE  (OneSave /\ StaysThere /\ NoneDangles)'
    BY <1>4 DEF Orderly
  <2>1. OneSave /\ StaysThere /\ NoneDangles
    BY <1>1 DEF Orderly
  <2>2. /\ Saving(t)' /\ OnItsWay(t)' = mem
        /\ \A u \in Thread \ {t} : ~Saving(u)'
    BY <1>4 DEF Saving, OnItsWay
  <2>3. OneSave'
    BY <2>1, <2>2, <1>2, <1>3 DEF OneSave
  <2>4. StaysThere'
    BY <2>1, <2>2, <1>2, <1>4, <1>7 DEF StaysThere
  <2>5. NoneDangles'
    BY <2>1, <2>2, <1>2, <1>4, <1>7 DEF NoneDangles, Whole
  <2> QED
    BY <2>3, <2>4, <2>5
<1> QED
  BY <1>5, <1>6, <1>8, <1>9 DEF IInv

(* The temporary is written.                                               *)
LEMMA WriteLemma ==
  ASSUME IInv, NEW t \in Thread, WriteTmp(t)
  PROVE  IInv'
<1>1. TypeOK /\ Resting /\ StaysGone /\ Orderly
  BY DEF IInv
<1>2. /\ "control" \in Thread /\ "cycle" \in Thread
      /\ \A u \in Thread : u = "control" \/ u = "cycle"
  BY DEF Thread
<1>3. thread \in [Thread -> ThreadType]
  BY <1>1 DEF TypeOK, ThreadType
<1>4. /\ thread' \in [Thread -> ThreadType]
      /\ thread[t].at = "tmp" /\ thread'[t].at = "replace" /\ thread'[t].files = thread[t].files
      /\ \A u \in Thread \ {t} : thread'[u] = thread[u]
      /\ UNCHANGED <<mem, confirmed, removed, torn, raced, edits, crashes>>
  BY <1>3 DEF WriteTmp, ThreadType, promise
<1>5. /\ disk' = [disk EXCEPT !.tmp = thread[t].snap]
      /\ disk'.state = disk.state /\ disk'.tmp = thread[t].snap /\ disk'.files = disk.files
  BY <1>1 DEF WriteTmp, TypeOK
<1>6. thread[t].snap \in State \cup {None}
  BY <1>3 DEF ThreadType
<1>7. TypeOK'
  <2>1. disk' \in [state : State, tmp : State \cup {None}, files : SUBSET Photo]
    BY <1>1, <1>5, <1>6 DEF TypeOK
  <2> QED
    BY <2>1, <1>1, <1>4 DEF TypeOK, ThreadType
<1>8. Resting'
  BY <1>1, <1>2, <1>4 DEF Resting, Control
<1>9. /\ Of' = Of /\ Control'.files = Control.files
      /\ t = "cycle" => Control' = Control
      /\ t = "control" => Control.at = "tmp" /\ Control'.at = "replace"
  BY <1>1, <1>2, <1>4 DEF Control, Of
<1>10. StaysGone'
  BY <1>1, <1>2, <1>4, <1>5, <1>9 DEF StaysGone
<1>11. Orderly'
  <2> SUFFICES ASSUME ~raced PROVE (OneSave /\ StaysThere /\ NoneDangles)'
    BY <1>4 DEF Orderly
  <2>1. OneSave /\ StaysThere /\ NoneDangles
    BY <1>1 DEF Orderly
  <2>2. Saving(t) /\ \A u \in Thread \ {t} : ~Saving(u)
    BY <2>1, <1>2, <1>4 DEF OneSave, Saving
  <2>3. /\ Saving(t)' /\ OnItsWay(t)' = OnItsWay(t)
        /\ \A u \in Thread \ {t} : ~Saving(u)'
    BY <2>2, <1>4, <1>5 DEF Saving, OnItsWay
  <2>4. OneSave'
    BY <2>1, <2>2, <2>3, <1>2 DEF OneSave
  <2>5. StaysThere'
    BY <2>1, <2>2, <2>3, <1>2, <1>4, <1>5, <1>9 DEF StaysThere
  <2>6. NoneDangles'
    BY <2>1, <2>2, <2>3, <1>2, <1>4, <1>5, <1>9 DEF NoneDangles, Whole
  <2> QED
    BY <2>4, <2>5, <2>6
<1> QED
  BY <1>7, <1>8, <1>10, <1>11 DEF IInv

(* The temporary becomes the state file, and the request is answered.      *)
LEMMA ReplaceLemma ==
  ASSUME IInv, NEW t \in Thread, Replace(t)
  PROVE  IInv'
<1>1. TypeOK /\ Resting /\ StaysGone /\ Orderly
  BY DEF IInv
<1>2. /\ "control" \in Thread /\ "cycle" \in Thread
      /\ \A u \in Thread : u = "control" \/ u = "cycle"
  BY DEF Thread
<1>3. thread \in [Thread -> ThreadType]
  BY <1>1 DEF TypeOK, ThreadType
<1> DEFINE f == thread[t].files
<1>4. f.do \in {"write", "delete"} /\ f.of \subseteq Photo
  BY <1>3 DEF ThreadType, Files
<1>5. /\ [Idle EXCEPT !.at = "dead"] \in ThreadType /\ Idle \in ThreadType
      /\ [Idle EXCEPT !.at = "dead"].files = Idle.files /\ [Idle EXCEPT !.at = "dead"].at = "dead"
      /\ [Idle EXCEPT !.at = Idle.at] = Idle /\ Idle.at = "idle"
      /\ Idle.files.of = {} /\ Idle.files.do = "write"
  BY DEF Idle, ThreadType, Files
<1>6. /\ thread' \in [Thread -> ThreadType]
      /\ thread[t].at = "replace" /\ thread'[t].at \in {"idle", "dead"}
      /\ thread'[t].at = "dead" => t = "cycle"
      /\ thread'[t].files.do = "write" /\ thread'[t].files.of = {}
      /\ \A u \in Thread \ {t} : thread'[u] = thread[u]
      /\ UNCHANGED <<mem, torn, raced, edits, crashes>>
  <2>1. \/ thread' = [thread EXCEPT ![t] = Idle]
        \/ t = "cycle" /\ thread' = [thread EXCEPT ![t] = [Idle EXCEPT !.at = "dead"]]
    BY <1>5 DEF Replace
  <2> QED
    BY <2>1, <1>3, <1>5 DEF Replace
<1>7. \/ disk.tmp = None /\ UNCHANGED <<disk, confirmed, removed>>
      \/ /\ disk.tmp # None
         /\ disk' = [disk EXCEPT !.state = disk.tmp, !.tmp = None]
         /\ confirmed' = IF f.do = "write" THEN confirmed \cup f.of ELSE confirmed
         /\ removed' = IF f.do = "delete" THEN removed \cup f.of ELSE removed
  BY DEF Replace
<1>8. /\ disk'.files = disk.files
      /\ disk.tmp # None => disk'.state = disk.tmp
      /\ disk' \in [state : State, tmp : State \cup {None}, files : SUBSET Photo]
  BY <1>1, <1>7 DEF TypeOK
<1>9. TypeOK'
  BY <1>1, <1>4, <1>6, <1>7, <1>8 DEF TypeOK, ThreadType
<1>10. Resting'
  BY <1>1, <1>2, <1>6 DEF Resting, Control
<1> HIDE DEF f
<1>11. /\ t = "cycle" => Control' = Control /\ Of' = Of /\ UNCHANGED <<confirmed, removed>>
       /\ t = "control" => /\ Control.at = "replace" /\ Control'.at = "idle" /\ Of' = {}
                           /\ f = Control.files /\ f.of = Of /\ Control'.files.do = "write"
  BY <1>1, <1>2, <1>6, <1>7 DEF Control, Of, f, Resting
<1>12. StaysGone'
  BY <1>1, <1>2, <1>4, <1>6, <1>7, <1>8, <1>11 DEF StaysGone
<1>13. Orderly'
  <2> SUFFICES ASSUME ~raced PROVE (OneSave /\ StaysThere /\ NoneDangles)'
    BY <1>6 DEF Orderly
  <2>1. OneSave /\ StaysThere /\ NoneDangles
    BY <1>1 DEF Orderly
  <2>2. Saving(t) /\ (\A u \in Thread \ {t} : ~Saving(u)) /\ OnItsWay(t) = disk.tmp
    BY <2>1, <1>2, <1>6 DEF OneSave, Saving, OnItsWay
  <2>3. disk.tmp \in State /\ disk.tmp # None /\ disk'.state = disk.tmp
    BY <2>1, <2>2, <1>8, NoneAssumption DEF OneSave
  <2>4. \A u \in Thread : ~Saving(u)'
    BY <2>2, <1>6 DEF Saving
  <2>5. OneSave'
    BY <2>4, <1>2 DEF OneSave
  <2>6. StaysThere'
    BY <2>1, <2>2, <2>3, <2>4, <1>2, <1>4, <1>6, <1>7, <1>8, <1>11 DEF StaysThere
  <2>7. NoneDangles'
    BY <2>1, <2>2, <2>3, <2>4, <1>2, <1>6, <1>8, <1>11 DEF NoneDangles, Whole
  <2> QED
    BY <2>5, <2>6, <2>7
<1> QED
  BY <1>9, <1>10, <1>12, <1>13 DEF IInv

(* The frame restarts, between any two steps of its threads.               *)
LEMMA RestartLemma ==
  ASSUME IInv, Restart
  PROVE  IInv'
<1>1. TypeOK /\ Resting /\ StaysGone /\ Orderly
  BY DEF IInv
<1>2. /\ "control" \in Thread /\ "cycle" \in Thread
      /\ \A u \in Thread : u = "control" \/ u = "cycle"
  BY DEF Thread
<1>3. disk.state \in State /\ Of \subseteq Photo
  BY <1>1, <1>2 DEF TypeOK, Files, Of, Control
<1>4. /\ mem' \in State /\ mem'.photos = disk.state.photos \cap disk.files
      /\ Dangling(mem') \subseteq Dangling(disk.state)
  BY <1>3, LoadedLemma DEF Restart, Becomes
<1>5. Idle \in ThreadType /\ Idle.at = "idle" /\ Idle.files.of = {} /\ Idle.files.do = "write"
  BY DEF Idle, ThreadType, Files
<1>6. /\ thread' = [u \in Thread |-> Idle] /\ torn' = torn \cup Of
      /\ UNCHANGED <<disk, confirmed, removed, raced, edits>>
  BY DEF Restart, Of, Control
<1>7. /\ Control'.at = "idle" /\ Control'.files.do = "write" /\ Of' = {}
      /\ \A u \in Thread : ~Saving(u)'
  BY <1>2, <1>5, <1>6 DEF Control, Of, Saving
<1>8. crashes' \in 0 .. Crashes
  BY <1>1, StateAssumption DEF Restart, TypeOK
<1>9. TypeOK'
  BY <1>1, <1>3, <1>4, <1>5, <1>6, <1>8 DEF TypeOK, ThreadType
<1>10. Resting'
  BY <1>2, <1>5, <1>6 DEF Resting, Control
<1>11. StaysGone'
  BY <1>1, <1>4, <1>6, <1>7 DEF StaysGone
<1>12. Orderly'
  <2> SUFFICES ASSUME ~raced PROVE (OneSave /\ StaysThere /\ NoneDangles)'
    BY <1>6 DEF Orderly
  <2>1. OneSave /\ StaysThere /\ NoneDangles
    BY <1>1 DEF Orderly
  <2>2. OneSave'
    BY <1>2, <1>7 DEF OneSave
  <2>3. StaysThere'
    BY <2>1, <1>4, <1>6, <1>7 DEF StaysThere
  <2>4. NoneDangles'
    BY <2>1, <1>2, <1>4, <1>6, <1>7 DEF NoneDangles, Whole
  <2> QED
    BY <2>2, <2>3, <2>4
<1> QED
  BY <1>9, <1>10, <1>11, <1>12 DEF IInv

(* Every step preserves the invariant.                                     *)
LEMMA NextLemma == IInv /\ [Next]_vars => IInv'
<1> SUFFICES ASSUME IInv, [Next]_vars PROVE IInv'
  OBVIOUS
<1>1. ASSUME NEW p \in Photo, Upload(p) \/ Delete(p) PROVE IInv'
  BY <1>1, UploadLemma, DeleteLemma
<1>2. CASE FactoryReset \/ Other \/ Tick \/ Restart
  BY <1>2, ResetLemma, OthersLemma, RestartLemma
<1>3. ASSUME NEW t \in Thread, Step(t) PROVE IInv'
  BY <1>3, FilesLemma, SnapshotLemma, WriteLemma, ReplaceLemma DEF Step
<1>4. CASE UNCHANGED vars
  BY <1>4
     DEF vars, promise, IInv, TypeOK, Resting, StaysGone, Orderly, OneSave,
         StaysThere,
     NoneDangles, Whole, Control, Of, OnItsWay, Saving
<1> QED
  BY <1>1, <1>2, <1>3, <1>4 DEF Next

-----------------------------------------------------------------------------
(* The invariant holds for ever.                                           *)
THEOREM Inductive == FairSpec => []IInv
BY InitLemma, NextLemma, PTL DEF FairSpec

(* A photo whose upload was confirmed is still there after a restart, as   *)
(* long as no two saves have overlapped.                                   *)
THEOREM SurvivesHolds == FairSpec => []Survives
<1>1. IInv => Survives
  BY DEF IInv, Orderly, StaysThere, Survives
<1> QED
  BY Inductive, <1>1, PTL

(* A photo whose removal was confirmed never comes back, whatever state a  *)
(* restart finds, overlapping saves included.                              *)
THEOREM StaysRemovedHolds == FairSpec => []StaysRemoved
<1>1. IInv => StaysRemoved
  BY DEF IInv, StaysGone, StaysRemoved
<1> QED
  BY Inductive, <1>1, PTL

(* No album lists, and the screen does not show, a photo that the frame    *)
(* does not have, as long as no two saves have overlapped and but for a    *)
(* photo whose upload or removal a crash cut short.                        *)
THEOREM NothingDanglesHolds == FairSpec => []NothingDangles
<1>1. IInv => NothingDangles
  BY DEF IInv, Orderly, NoneDangles, Whole, Dangling, NothingDangles
<1> QED
  BY Inductive, <1>1, PTL
=============================================================================
