------------------------- MODULE ServedFrame_proofs -------------------------
(***************************************************************************)
(* Proofs about ServedFrame, for any photos, wake intervals and limits:    *)
(* the hub turns to the next image at most once in a wake, and what it     *)
(* takes for shown is on the panel.                                        *)
(*                                                                         *)
(* Both rest on what a wake is.  A turn restarts the clock of the display, *)
(* and from then on that clock is no further than the time the frame has   *)
(* been awake, which is at most the least gap between two turns (OneTurn). *)
(* And from the moment the frame is told to display something until it     *)
(* reports, the image that is current is one the frame has not             *)
(* acknowledged, so no poll can turn to another: what the frame picks,     *)
(* draws and reports is all the same image (Faithful).                     *)
(***************************************************************************)
EXTENDS ServedFrame, FiniteSetTheorems, WellFoundedInduction, TLAPS

(* After the one turn of a wake the clock of the display lags behind the   *)
(* wake.                                                                   *)
OneTurn ==
  /\ turns <= 1
  /\ turns = 1 => since <= awake
  /\ frame = "asleep" => turns = 0

(* Unless the cache has lost an image since the frame was told: the        *)
(* current image is being worked on and is not acknowledged yet.           *)
Faithful ==
  ~lost =>
    /\ frame \in Busy => content \in cached /\ content # acked
    /\ frame = "picked" => target = content
    /\ frame = "drawn" => shown = content
    /\ AckedIsShown

(* The inductive invariant.                                                *)
IInv == TypeOK /\ OneTurn /\ Faithful

-----------------------------------------------------------------------------
(* A set of naturals that is not empty has a least element.                *)
LEMMA LeastLemma ==
  ASSUME NEW S \in SUBSET Nat, S # {}
  PROVE  Min(S) \in S /\ \A y \in S : Min(S) <= y
<1>1. IsWellFoundedOn(OpToRel(<,Nat), Nat)
  BY NatLessThanWellFounded, Zenon
<1>2. PICK x \in S : \A y \in S : <<y, x>> \notin OpToRel(<,Nat)
  BY <1>1, WFMin, Zenon
<1>3. \A y \in S : ~(y < x)
  BY <1>2, Zenon DEF OpToRel
<1>4. \A y \in S : x <= y
  BY <1>3
<1>5. QED
  BY <1>4 DEF Min

(* A finite set of naturals that is not empty has a greatest element: of   *)
(* the subsets without one, a smallest would lose nothing but one element  *)
(* to a set that has one.                                                  *)
LEMMA GreatestLemma ==
  ASSUME NEW S \in SUBSET Nat, S # {}, IsFiniteSet(S)
  PROVE  Max(S) \in S /\ \A y \in S : Max(S) >= y
<1> DEFINE Topped(R) == \E x \in R : \A y \in R : x >= y
           Sizes == {n \in Nat : \E R \in SUBSET S : R # {} /\ Cardinality(R) = n /\ ~Topped(R)}
<1>1. SUFFICES ASSUME ~Topped(S) PROVE FALSE
  <2>1. Topped(S)
    BY <1>1
  <2> QED
    BY <2>1 DEF Max
<1>2. \A R \in SUBSET S : IsFiniteSet(R) /\ Cardinality(R) \in Nat
  BY FS_Subset, FS_CardinalityType
<1>3. Cardinality(S) \in Sizes
  BY <1>1, <1>2
<1>4. PICK n \in Sizes : \A m \in Sizes : n <= m
  BY <1>3, LeastLemma
<1>5. PICK R \in SUBSET S : R # {} /\ Cardinality(R) = n /\ ~Topped(R)
  BY <1>4
<1>6. PICK a \in R : TRUE
  BY <1>5
<1> DEFINE Q == R \ {a}
<1>7. IsFiniteSet(Q) /\ Cardinality(Q) = n - 1
  BY <1>2, <1>5, <1>6, FS_RemoveElement
<1>8. Q # {}
  <2>1. \A y \in R : Q = {} => y = a
    OBVIOUS
  <2>2. a \in Nat
    BY <1>6
  <2> QED
    BY <2>1, <2>2, <1>5, <1>6
<1>9. Topped(Q)
  <2>1. n - 1 \notin Sizes
    BY <1>4
  <2>2. n - 1 \in Nat
    BY <1>2, <1>7
  <2> QED
    BY <2>1, <2>2, <1>7, <1>8
<1>10. PICK b \in Q : \A y \in Q : b >= y
  BY <1>9
<1>11. a \in Nat /\ b \in Nat /\ \A y \in R : y = a \/ y \in Q
  BY <1>6, <1>10
<1>12. \A y \in R : y \in Nat
  OBVIOUS
<1>13. CASE a >= b
  <2>1. \A y \in R : a >= y
    BY <1>10, <1>11, <1>12, <1>13
  <2> QED
    BY <2>1, <1>5, <1>6
<1>14. CASE b >= a
  <2>1. \A y \in R : b >= y
    BY <1>10, <1>11, <1>12, <1>14
  <2> QED
    BY <2>1, <1>5, <1>10
<1> QED
  BY <1>11, <1>13, <1>14

(* Min and Max of two numbers.                                             *)
LEMMA TwoLemma ==
  ASSUME NEW a \in Nat, NEW b \in Nat
  PROVE  /\ Min({a, b}) = IF a <= b THEN a ELSE b
         /\ Max({a, b}) = IF a <= b THEN b ELSE a
<1>1. Min({a, b}) \in {a, b} /\ Min({a, b}) <= a /\ Min({a, b}) <= b
  BY LeastLemma
<1>2. IsFiniteSet({a, b})
  <2>1. {a, b} = ({} \cup {a}) \cup {b}
    OBVIOUS
  <2>2. IsFiniteSet({} \cup {a})
    BY FS_EmptySet, FS_AddElement
  <2> QED
    BY <2>1, <2>2, FS_AddElement
<1>3. Max({a, b}) \in {a, b} /\ Max({a, b}) >= a /\ Max({a, b}) >= b
  BY <1>2, GreatestLemma
<1> QED
  BY <1>1, <1>3

-----------------------------------------------------------------------------
(* Whatever is stored as the wake interval, turns are at least MinGap and  *)
(* no more than MaxGap apart.                                              *)
LEMMA GapLemma ==
  ASSUME TypeOK
  PROVE  RotateGap \in Nat /\ MinGap <= RotateGap /\ RotateGap <= MaxGap
<1>1. Interval \in Nat
  BY ServedAssumption DEF TypeOK, Interval
<1> DEFINE half == Interval \div 2
<1>2. half \in Nat
  BY <1>1
<1> HIDE DEF half
<1>3. Min({half, MaxGap}) \in Nat /\ Min({half, MaxGap}) <= MaxGap
  BY <1>2, TwoLemma, ServedAssumption
<1> QED
  BY <1>3, TwoLemma, ServedAssumption DEF RotateGap, half

(* The next image is one of the cache, around its end too.                 *)
LEMMA FollowingLemma ==
  ASSUME TypeOK, content \in cached
  PROVE  Following(content) \in cached
<1> DEFINE later == {q \in cached : q > content}
<1>1. cached \in SUBSET Nat /\ later \in SUBSET Nat
  BY ServedAssumption DEF TypeOK
<1>2. Min(IF later = {} THEN cached ELSE later) \in cached
  BY <1>1, LeastLemma
<1> QED
  BY <1>2 DEF Following

(* What a status poll makes of the display: its image is cached, an image  *)
(* that has not been acknowledged stays, one that has gives way only after *)
(* the gap, and only a report makes an image acknowledged.                 *)
RotatedFacts ==
  /\ Rotated[1] \in cached \cup {None} /\ Rotated[2] \in {acked, None}
  /\ Rotated[1] = None <=> cached = {}
  /\ content \in cached /\ Rotated[1] # content => since > RotateGap
  /\ Rotated[1] = Rotated[2] /\ Rotated[1] # None => Rotated = <<content, acked>>
  /\ content \in cached /\ content # acked => Rotated = <<content, acked>>
  /\ Rotated = <<Rotated[1], Rotated[2]>>

(* Rotated does that.                                                      *)
LEMMA RotatedLemma ==
  ASSUME TypeOK
  PROVE  RotatedFacts
<1>1. cached \in SUBSET Nat /\ None \notin cached
  BY ServedAssumption DEF TypeOK
<1>2. CASE cached = {}
  BY <1>1, <1>2 DEF Rotated, RotatedFacts
<1>3. CASE cached # {} /\ content \notin cached
  <2>1. Min(cached) \in cached
    BY <1>1, <1>3, LeastLemma
  <2>2. Rotated = <<Min(cached), None>>
    BY <1>3 DEF Rotated
  <2> QED
    BY <1>1, <1>3, <2>1, <2>2 DEF RotatedFacts
<1>4. CASE content \in cached /\ content = acked /\ since > RotateGap
  <2>1. Following(content) \in cached
    BY <1>4, FollowingLemma
  <2>2. Rotated = <<Following(content), acked>>
    BY <1>4 DEF Rotated
  <2> QED
    BY <1>1, <1>4, <2>1, <2>2 DEF RotatedFacts
<1>5. CASE content \in cached /\ ~(content = acked /\ since > RotateGap)
  <2>1. Rotated = <<content, acked>>
    BY <1>5 DEF Rotated
  <2> QED
    BY <1>1, <1>5, <2>1 DEF RotatedFacts
<1> QED
  BY <1>2, <1>3, <1>4, <1>5

-----------------------------------------------------------------------------
(* The invariant holds at the start.                                       *)
LEMMA InitLemma == Init => IInv
<1> SUFFICES ASSUME Init PROVE IInv
  OBVIOUS
<1>1. MaxGap \in Nat /\ MinGap \in Nat /\ Edits \in Nat
  BY ServedAssumption
<1>2. TypeOK
  <2>1. since \in 0 .. MaxGap + 1 /\ awake \in 0 .. MinGap /\ edits \in 0 .. Edits /\ turns \in Nat
    BY <1>1 DEF Init
  <2>2. wakeUp \in Wakes \cup {Garbled, Default} /\ frame \in {"asleep", "polling"} \cup Busy
    BY DEF Init
  <2>3. cached \subseteq Photo /\ {content, acked, target, shown} \subseteq Photo \cup {None}
    BY DEF Init
  <2>4. lost \in BOOLEAN
    BY DEF Init
  <2> QED
    BY <2>1, <2>2, <2>3, <2>4 DEF TypeOK
<1>3. OneTurn /\ Faithful
  BY DEF Init, OneTurn, Faithful, AckedIsShown, Busy
<1> QED
  BY <1>2, <1>3 DEF IInv

(* A status poll, whether its answer arrives or not.                       *)
LEMMA PollLemma ==
  ASSUME IInv, Poll
  PROVE  IInv'
<1>1. TypeOK /\ OneTurn /\ Faithful
  BY DEF IInv
<1>2. RotatedFacts /\ RotateGap \in Nat /\ MinGap <= RotateGap
  BY <1>1, RotatedLemma, GapLemma
<1>3. /\ content' = Rotated[1] /\ acked' = Rotated[2]
      /\ since' = IF Rotated # <<content, acked>> THEN 0 ELSE since
      /\ turns' = IF content' # content /\ content \in cached THEN turns + 1 ELSE turns
      /\ UNCHANGED <<cached, wakeUp, edits, target, shown, awake>>
      /\ frame # "asleep"
      /\ \/ content' # None /\ content' # acked' /\ frame = "polling"
            /\ frame' = "told" /\ lost' = FALSE
         \/ UNCHANGED <<frame, lost>>
  BY DEF Poll, Status, SetDisplay, Display
<1>4. TypeOK'
  <2>1. content' \in Photo \cup {None} /\ acked' \in Photo \cup {None}
    BY <1>1, <1>2, <1>3 DEF TypeOK, RotatedFacts
  <2>2. since' \in 0 .. MaxGap + 1
    BY <1>1, <1>3, ServedAssumption DEF TypeOK
  <2>3. turns' \in Nat
    BY <1>1, <1>3 DEF TypeOK
  <2> QED
    BY <2>1, <2>2, <2>3, <1>1, <1>3 DEF TypeOK, Busy
<1>5. OneTurn'
  <2>1. content' # content /\ content \in cached => turns = 0
    <3> SUFFICES ASSUME content' # content, content \in cached, turns = 1 PROVE FALSE
      BY <1>1 DEF TypeOK, OneTurn
    <3>1. since > RotateGap
      BY <1>2, <1>3 DEF RotatedFacts
    <3> QED
      BY <3>1, <1>1, <1>2, ServedAssumption DEF TypeOK, OneTurn
  <2>2. content' # content => since' = 0
    BY <1>3
  <2>3. since' = 0 \/ since' = since
    BY <1>3
  <2> QED
    BY <2>1, <2>2, <2>3, <1>1, <1>3, ServedAssumption DEF TypeOK, OneTurn
<1>6. Faithful'
  <2>1. CASE UNCHANGED <<frame, lost>>
    <3> SUFFICES ASSUME ~lost PROVE Faithful'
      BY <2>1 DEF Faithful
    <3>1. CASE frame \in Busy
      <4>1. content' = content /\ acked' = acked
        BY <3>1, <1>1, <1>2, <1>3 DEF RotatedFacts, Faithful
      <4> QED
        BY <4>1, <2>1, <1>1, <1>3 DEF Faithful, AckedIsShown
    <3>2. CASE frame \notin Busy
      <4>1. content' # None /\ content' = acked' => content' = content /\ acked' = acked
        BY <1>2, <1>3 DEF RotatedFacts
      <4> QED
        BY <4>1, <3>2, <2>1, <1>1, <1>3 DEF Faithful, AckedIsShown, Busy
    <3> QED
      BY <3>1, <3>2
  <2>2. CASE content' # None /\ content' # acked' /\ frame' = "told"
    BY <2>2, <1>2, <1>3 DEF RotatedFacts, Faithful, AckedIsShown
  <2> QED
    BY <2>1, <2>2, <1>3
<1> QED
  BY <1>4, <1>5, <1>6 DEF IInv

(* The other steps of the frame.                                           *)
LEMMA DeviceLemma ==
  ASSUME IInv, WakeUp \/ Playlist \/ Download \/ Report \/ ReportLost \/ Sleep
  PROVE  IInv'
<1>1. TypeOK /\ OneTurn /\ Faithful
  BY DEF IInv
<1>2. CASE WakeUp
  BY <1>1, <1>2, ServedAssumption
  DEF IInv, WakeUp, TypeOK, OneTurn, Faithful, AckedIsShown, Busy, hub, user
<1>3. CASE Playlist
  <2>1. cached # {} => Newest \in cached
    <3>1. IsFiniteSet(cached) /\ cached \in SUBSET Nat
      BY <1>1, ServedAssumption, FS_Subset DEF TypeOK
    <3> QED
      BY <3>1, GreatestLemma DEF Newest
  <2>2. content \in cached => Newest = content
    BY DEF Newest
  <2> QED
    BY <2>1, <2>2, <1>1, <1>3, ServedAssumption
    DEF IInv, Playlist, TypeOK, OneTurn, Faithful, AckedIsShown, Busy, hub, user
<1>4. CASE Download
  BY <1>1, <1>4, ServedAssumption
  DEF IInv, Download, ResolveKey, TypeOK, OneTurn, Faithful, AckedIsShown, Busy, hub, user
<1>5. CASE Report
  BY <1>1, <1>5, ServedAssumption
  DEF IInv, Report, Callback, SetDisplay, TypeOK, OneTurn, Faithful, AckedIsShown, Busy, user
<1>6. CASE ReportLost
  BY <1>1, <1>6, ServedAssumption
  DEF IInv, ReportLost, TypeOK, OneTurn, Faithful, AckedIsShown, Busy, hub, user
<1>7. CASE Sleep
  BY <1>1, <1>7, ServedAssumption
  DEF IInv, Sleep, TypeOK, OneTurn, Faithful, AckedIsShown, Busy, hub, user
<1> QED
  BY <1>2, <1>3, <1>4, <1>5, <1>6, <1>7

(* Time passes.                                                            *)
LEMMA TickLemma ==
  ASSUME IInv, Tick
  PROVE  IInv'
<1>1. TypeOK /\ OneTurn /\ Faithful
  BY DEF IInv
<1>2. since' \in 0 .. MaxGap + 1 /\ since' <= since + 1
  BY <1>1, TwoLemma, ServedAssumption DEF Tick, TypeOK
<1> QED
  BY <1>1, <1>2, ServedAssumption
  DEF IInv, Tick, TypeOK, OneTurn, Faithful, AckedIsShown, Busy, user

(* Users and the delivery queue.                                           *)
LEMMA UserLemma ==
  ASSUME IInv,
         \/ \E p \in Photo : Publish(p) \/ PhotoDelete(p)
         \/ \E w \in Wakes \cup {Garbled} : SettingUpdate(w)
  PROVE  IInv'
<1>1. TypeOK /\ OneTurn /\ Faithful
  BY DEF IInv
<1>2. ASSUME NEW p \in Photo, Publish(p) PROVE IInv'
  BY <1>1, <1>2, ServedAssumption
  DEF IInv, Publish, Edit, TypeOK, OneTurn, Faithful, AckedIsShown, Busy, hub, device
<1>3. ASSUME NEW p \in Photo, PhotoDelete(p) PROVE IInv'
  <2>1. TypeOK'
    BY <1>1, <1>3, ServedAssumption DEF PhotoDelete, Edit, TypeOK, hub, device
  <2>2. OneTurn' /\ Faithful'
    BY <1>1, <1>3 DEF PhotoDelete, OneTurn, Faithful, AckedIsShown, Busy, hub, device
  <2> QED
    BY <2>1, <2>2 DEF IInv
<1>4. ASSUME NEW w \in Wakes \cup {Garbled}, SettingUpdate(w) PROVE IInv'
  BY <1>1, <1>4, ServedAssumption
  DEF IInv, SettingUpdate, SetSetting, Edit, TypeOK, OneTurn, Faithful, AckedIsShown, Busy,
      hub, device
<1> QED
  BY <1>2, <1>3, <1>4

(* Every step preserves the invariant.                                     *)
LEMMA NextLemma == IInv /\ [Next]_vars => IInv'
<1> SUFFICES ASSUME IInv, [Next]_vars PROVE IInv'
  OBVIOUS
<1>1. CASE Session
  BY <1>1, PollLemma, DeviceLemma DEF Session
<1>2. CASE Tick
  BY <1>2, TickLemma
<1>3. CASE \/ \E p \in Photo : Publish(p) \/ PhotoDelete(p)
           \/ \E w \in Wakes \cup {Garbled} : SettingUpdate(w)
  BY <1>3, UserLemma
<1>4. CASE UNCHANGED vars
  BY <1>4
     DEF IInv, TypeOK, OneTurn, Faithful, AckedIsShown, Busy, vars, hub, device, user
<1> QED
  BY <1>1, <1>2, <1>3, <1>4 DEF Next

-----------------------------------------------------------------------------
(* The invariant holds for ever.                                           *)
THEOREM Inductive == Spec => []IInv
BY InitLemma, NextLemma, PTL DEF Spec

(* However often the frame polls in one wake, and whatever interval is     *)
(* set, the hub turns to the next image at most once in it.                *)
THEOREM OncePerWakeHolds == Spec => []OncePerWake
<1>1. IInv => OncePerWake
  BY DEF IInv, OneTurn, OncePerWake
<1> QED
  BY Inductive, <1>1, PTL

(* What the hub takes for shown is on the panel, as long as the cache has  *)
(* lost no image while the frame was at work.                              *)
THEOREM AckedIsShownHolds == Spec => []AckedIsShown
<1>1. IInv => AckedIsShown
  BY DEF IInv, Faithful, AckedIsShown
<1> QED
  BY Inductive, <1>1, PTL
=============================================================================
