--------------------------- MODULE ImmichImport_proofs ---------------------------
(***************************************************************************)
(* What albums keep of a frame's folders, for any number of jobs, faults   *)
(* and edits.  Every job is accounted for by itself: what it holds comes   *)
(* from the lists and from the server (Honest), where it stands            *)
(* (OnCourse), what lies behind a job without a failure (Matching,         *)
(* FiledSoFar).  A step of another job can only add to a folder's history, *)
(* to the server and to the albums (Grown), which leaves all of that true. *)
(***************************************************************************)
EXTENDS ImmichImport, FiniteSetTheorems, SequenceTheorems,
  WellFoundedInduction, TLAPS

(* What a job has matched for an album; and that an album of the name has  *)
(* all of it.                                                              *)
IdsOf(r, t) == {r.ids[n] : n \in r.plan[t]} \ {None}
Filed(r, t) == \E i \in Called(t) : IdsOf(r, t) \subseteq album[i].members

Filling == {"albums", "create", "add", "done"}

(* What a job holds comes from the frame and is on the server.             *)
Honest(r) ==
  /\ \A f \in Folder \ {All} : r.plan[f] \subseteq once[f]
  /\ \A n \in Name : r.ids[n] # None => r.ids[n] \in Answers(n) \cap assets

(* Where a job stands.                                                     *)
OnCourse(r) ==
  /\ r.phase \notin {"photos", "settle"} => r.left = {}
  /\ r.mode = "import" => r.phase # "settle"
  /\ r.phase \in {"albums", "create", "add"} => r.mode # "dry"
  /\ r.phase \in {"create", "add"} => r.to \in Target
  /\ r.phase = "add" => r.into \in DOMAIN album /\ album[r.into].name = r.to
  /\ r.phase = "done" /\ r.mode # "dry" => r.todo = {}

(* What a job without a failure has behind it.                             *)
Matching(r) ==
  ~r.failed /\ r.mode = "import" => \A n \in r.names \ r.left : r.ids[n] # None
FiledSoFar(r) ==
  ~r.failed /\ r.mode # "dry" /\ r.phase \in Filling =>
    \A t \in Target \ r.todo :
      (r.phase \in {"create", "add"} => t # r.to) => IdsOf(r, t) = {} \/ Filed(r, t)

Good(r) == Honest(r) /\ OnCourse(r) /\ Matching(r) /\ FiledSoFar(r)

(* What the frame's lists showed once was in the folders.                  *)
Shown ==
  /\ \A f \in Folder : device[f] \ Owned \subseteq once[f]
  /\ manifest # None => \A f \in Folder : manifest[f] \ Owned \subseteq once[f]

(* A maker of albums that is alone finds its albums as it left them.       *)
Alone ==
  ~overlap =>
    /\ \A i, k \in DOMAIN album : album[i].name = album[k].name => i = k
    /\ \A j, k \in DOMAIN job : Makes(j) /\ Makes(k) => j = k
    /\ \A j \in DOMAIN job : job[j].phase = "create" => Called(job[j].to) = {}

AllGood == \A j \in DOMAIN job : Good(job[j])

(* The inductive invariant.                                                *)
IInv == TypeOK /\ Shown /\ AllGood /\ MirrorsFolders /\ Alone
-----------------------------------------------------------------------------
(* Types, and what a change of its surroundings leaves true of a job.      *)

ShelfOf(A) == [name : Target, members : SUBSET A]

LEMMA WidenLemma ==
  ASSUME NEW S, NEW T, NEW s \in Seq(S), \A i \in 1 .. Len(s) : s[i] \in T
  PROVE  s \in Seq(T)
OBVIOUS

LEMMA SequenceLemma ==
  ASSUME NEW T, NEW n \in Nat, NEW s \in [1 .. n -> T]
  PROVE  s \in Seq(T) /\ Len(s) = n
OBVIOUS

LEMMA ShelfLemma ==
  ASSUME NEW A, NEW B, A \subseteq B, NEW x \in ShelfOf(A)
  PROVE  x \in ShelfOf(B)
BY DEF ShelfOf

LEMMA JobLemma ==
  ASSUME NEW r \in Job
  PROVE  /\ r.mode \in {"import", "link", "dry"} /\ r.phase \in Phase
         /\ r.names \in SUBSET Name /\ r.left \in SUBSET Name /\ r.open \in SUBSET Name
         /\ r.plan \in [Target -> SUBSET Name] /\ r.ids \in [Name -> Asset \cup {None}]
         /\ r.todo \in SUBSET Target /\ r.to \in Target \cup {None} /\ r.into \in Nat
         /\ r.failed \in BOOLEAN
BY DEF Job

LEMMA TypesLemma ==
  ASSUME TypeOK
  PROVE  /\ job \in Seq(Job) /\ Len(job) \in Nat /\ DOMAIN job = 1 .. Len(job)
         /\ \A j \in DOMAIN job : job[j] \in Job
         /\ album \in Seq(ShelfOf(assets)) /\ Len(album) \in Nat
         /\ DOMAIN album = 1 .. Len(album)
         /\ \A i \in DOMAIN album : /\ album[i] \in ShelfOf(assets)
                                    /\ album[i].name \in Target
                                    /\ album[i].members \in SUBSET assets
<1>1. /\ job \in Seq(Job) /\ Len(job) \in Nat /\ DOMAIN job = 1 .. Len(job)
      /\ \A j \in DOMAIN job : job[j] \in Job
  BY DEF TypeOK
<1>2. album \in Seq(ShelfOf(assets))
  BY DEF TypeOK, ShelfOf
<1>3. /\ Len(album) \in Nat /\ DOMAIN album = 1 .. Len(album)
      /\ \A i \in DOMAIN album : album[i] \in ShelfOf(assets)
  BY <1>2
<1>4. \A i \in DOMAIN album : /\ album[i].name \in Target
                              /\ album[i].members \in SUBSET assets
  BY <1>3 DEF ShelfOf
<1>5. QED
  BY <1>1, <1>2, <1>3, <1>4

(* Nothing is taken away from a folder's history, the server or an album.  *)
Grown ==
  /\ \A f \in Folder : once[f] \subseteq once'[f]
  /\ assets \subseteq assets'
  /\ DOMAIN album \subseteq DOMAIN album'
  /\ \A i \in DOMAIN album : /\ album'[i].name = album[i].name
                             /\ album[i].members \subseteq album'[i].members

LEMMA GrownLemma ==
  ASSUME Grown, NEW r \in Job
  PROVE  /\ Honest(r) => Honest(r)'
         /\ OnCourse(r) => OnCourse(r)'
         /\ Matching(r) => Matching(r)'
         /\ FiledSoFar(r) => FiledSoFar(r)'
<1>1. Honest(r) => Honest(r)'
  BY DEF Grown, Honest, Answers
<1>2. OnCourse(r) => OnCourse(r)'
  BY DEF Grown, OnCourse
<1>3. Matching(r) => Matching(r)'
  BY DEF Matching
<1>4. \A t \in Target : Filed(r, t) => Filed(r, t)'
  <2>1. SUFFICES ASSUME NEW t \in Target, NEW i \in Called(t),
                        IdsOf(r, t) \subseteq album[i].members
                 PROVE  i \in Called(t)' /\ IdsOf(r, t) \subseteq album'[i].members
    BY DEF Filed, IdsOf
  <2>2. i \in DOMAIN album /\ album[i].name = t
    BY DEF Called
  <2>3. QED
    BY <2>1, <2>2 DEF Grown, Called
<1>5. FiledSoFar(r) => FiledSoFar(r)'
  BY <1>4 DEF FiledSoFar, IdsOf
<1>6. QED
  BY <1>1, <1>2, <1>3, <1>5

(* One job changes.                                                        *)
LEMMA OneJobLemma ==
  ASSUME TypeOK, AllGood, Grown, NEW j \in DOMAIN job, NEW r \in Job, Good(r)',
         job' = [job EXCEPT ![j] = r]
  PROVE  /\ job' \in Seq(Job) /\ Len(job') = Len(job) /\ DOMAIN job' = DOMAIN job
         /\ job'[j] = r /\ \A k \in DOMAIN job \ {j} : job'[k] = job[k]
         /\ AllGood'
         /\ \A k \in DOMAIN job' : job'[k].phase = "add" => job'[k].into \in DOMAIN album'
<1>1. /\ job \in Seq(Job) /\ DOMAIN job = 1 .. Len(job)
      /\ \A k \in DOMAIN job : job[k] \in Job
  BY TypesLemma
<1>2. /\ job' \in Seq(Job) /\ Len(job') = Len(job) /\ DOMAIN job' = DOMAIN job
      /\ job'[j] = r /\ \A k \in DOMAIN job \ {j} : job'[k] = job[k]
  BY <1>1
<1>3. \A k \in DOMAIN job : Good(job[k])
  BY DEF AllGood
<1>4. ASSUME NEW k \in DOMAIN job'
      PROVE  Good(job[k])'
  <2>1. PICK q \in Job : q = job'[k]
    BY <1>2
  <2>2. Good(q)'
    <3>1. CASE k = j
      BY <1>2, <2>1, <3>1
    <3>2. CASE k # j
      BY <1>2, <1>3, <2>1, <3>2, GrownLemma DEF Good
    <3>3. QED
      BY <3>1, <3>2
  <2>3. QED
    BY <2>1, <2>2 DEF Good, Honest, OnCourse, Matching, FiledSoFar, Filed, IdsOf
<1>5. AllGood'
  BY <1>4 DEF AllGood
<1>6. \A k \in DOMAIN job' : job'[k].phase = "add" => job'[k].into \in DOMAIN album'
  BY <1>5 DEF AllGood, Good, OnCourse
<1>7. QED
  BY <1>2, <1>5, <1>6

-----------------------------------------------------------------------------
(* A step of one job that leaves the albums alone.                         *)

LEMMA StepLemma ==
  ASSUME IInv, NEW j \in DOMAIN job, Running(j), NEW r \in Job, Good(r)',
         job' = [job EXCEPT ![j] = r], r.mode = job[j].mode,
         r.phase = "create" => Called(r.to) = {},
         UNCHANGED <<device, once, album, overlap, edits>>,
         manifest' \in Device \cup {None}, Shown',
         assets \subseteq assets', assets' \in SUBSET Asset, faults' \in 0 .. Faults
  PROVE  IInv'
<1>1. /\ TypeOK /\ Shown /\ AllGood /\ MirrorsFolders /\ Alone
      /\ album \in Seq(ShelfOf(assets)) /\ DOMAIN album = 1 .. Len(album)
  BY TypesLemma DEF IInv
<1>2. Grown
  BY DEF Grown
<1>3. /\ job' \in Seq(Job) /\ Len(job') = Len(job) /\ DOMAIN job' = DOMAIN job
      /\ job'[j] = r /\ \A k \in DOMAIN job \ {j} : job'[k] = job[k]
      /\ AllGood'
      /\ \A k \in DOMAIN job' : job'[k].phase = "add" => job'[k].into \in DOMAIN album'
  BY <1>1, <1>2, OneJobLemma
<1>4. album' \in Seq(ShelfOf(assets)')
  <2>1. \A i \in 1 .. Len(album) : album[i] \in ShelfOf(assets)'
    <3>1. \A i \in 1 .. Len(album) : album[i] \in ShelfOf(assets)
      BY <1>1
    <3>2. \A i \in 1 .. Len(album) : album[i] \in ShelfOf(assets')
      BY <3>1, ShelfLemma
    <3>3. QED
      BY <3>2 DEF ShelfOf
  <2>2. album \in Seq(ShelfOf(assets)')
    BY <1>1, <2>1, WidenLemma
  <2>3. QED
    BY <2>2
<1>5. TypeOK'
  BY <1>1, <1>3, <1>4 DEF TypeOK, ShelfOf
<1>6. MirrorsFolders'
  BY <1>1 DEF MirrorsFolders, Answers
<1>7. Alone'
  <2>1. SUFFICES ASSUME ~overlap
                 PROVE  Alone'
    BY DEF Alone
  <2>2. \A k \in DOMAIN job : Makes(k)' => Makes(k)
    BY <1>3 DEF Makes, Running
  <2>3. \A k \in DOMAIN job' : job'[k].phase = "create" => Called(job[k].to)' = {}
    <3>1. \A k \in DOMAIN job : job[k].phase = "create" => Called(job[k].to) = {}
      BY <1>1, <2>1 DEF Alone
    <3>2. ASSUME NEW k \in DOMAIN job', job'[k].phase = "create"
          PROVE  Called(job[k].to)' = {}
      <4>1. CASE k = j
        BY <1>3, <3>2, <4>1 DEF Called
      <4>2. CASE k # j
        BY <1>3, <3>1, <3>2, <4>2 DEF Called
      <4>3. QED
        BY <4>1, <4>2
    <3>3. QED
      BY <3>2
  <2>4. QED
    <3>1. \A i, k \in DOMAIN album' : album'[i].name = album'[k].name => i = k
      BY <1>1, <2>1 DEF Alone
    <3>2. \A k, l \in DOMAIN job' : Makes(k)' /\ Makes(l)' => k = l
      BY <1>1, <1>3, <2>1, <2>2 DEF Alone
    <3>3. QED
      BY <2>3, <3>1, <3>2 DEF Alone
<1>8. QED
  BY <1>3, <1>5, <1>6, <1>7 DEF IInv

(* What the steps below start from.                                        *)
LEMMA FactsLemma ==
  ASSUME IInv, NEW j \in DOMAIN job
  PROVE  /\ job[j] \in Job /\ Good(job[j])
         /\ manifest \in Device \cup {None} /\ device \in Device /\ Shown
         /\ assets \in SUBSET Asset /\ faults \in 0 .. Faults
         /\ Fault => faults' \in 0 .. Faults
         /\ Sound => faults' \in 0 .. Faults
<1>1. job[j] \in Job /\ Good(job[j])
  BY TypesLemma DEF IInv, AllGood
<1>2. /\ manifest \in Device \cup {None} /\ device \in Device /\ Shown
      /\ assets \in SUBSET Asset /\ faults \in 0 .. Faults
  BY DEF IInv, TypeOK
<1>3. /\ Fault => faults' \in 0 .. Faults
      /\ Sound => faults' \in 0 .. Faults
  BY <1>2, ImportAssumption DEF Fault, Sound
<1>4. QED
  BY <1>1, <1>2, <1>3

LEMMA NewJobLemma ==
  ASSUME NEW mode \in {"import", "link", "dry"}, NEW phase \in {"error", "gone"}, NEW r,
         r = NewJob(mode) \/ r = [NewJob(mode) EXCEPT !.phase = phase]
  PROVE  /\ r \in Job /\ r.mode = mode /\ Good(r)
         /\ r.phase = (IF r = NewJob(mode) THEN "new" ELSE phase)
<1>1. /\ phase \in Phase /\ "new" \in Phase /\ 0 \in Nat /\ FALSE \in BOOLEAN
  BY DEF Phase, Ended
<1> DEFINE p == [t \in Target |-> {}]
           i == [n \in Name |-> None]
           q == [mode |-> mode, phase |-> "new", names |-> {}, left |-> {}, open |-> {},
                 plan |-> p, ids |-> i, todo |-> {}, to |-> None, into |-> 0,
                 failed |-> FALSE]
<1>2. NewJob(mode) = q
  BY DEF NewJob
<1>3. /\ p \in [Target -> SUBSET Name] /\ i \in [Name -> Asset \cup {None}]
      /\ \A n \in Name : i[n] = None
      /\ \A t \in Target : p[t] = {}
  OBVIOUS
<1> HIDE DEF p, i
<1>4. q \in Job
  BY <1>1, <1>3 DEF Job
<1>5. r = q \/ r = [q EXCEPT !.phase = phase]
  BY <1>2
<1>6. r \in Job /\ r.mode = mode /\ r.left = {} /\ r.names = {} /\ r.plan = p /\ r.ids = i
  <2>1. CASE r = q
    BY <1>4, <2>1
  <2>2. CASE r = [q EXCEPT !.phase = phase]
    <3>1. r = [mode |-> mode, phase |-> phase, names |-> {}, left |-> {}, open |-> {},
               plan |-> p, ids |-> i, todo |-> {}, to |-> None, into |-> 0,
               failed |-> FALSE]
      BY <2>2
    <3>2. r \in Job
      BY <1>1, <1>3, <3>1 DEF Job
    <3>3. QED
      BY <3>1, <3>2
  <2>3. QED
    BY <1>5, <2>1, <2>2
<1>7. r.phase = (IF r = NewJob(mode) THEN "new" ELSE phase)
  BY <1>2, <1>4, <1>5 DEF Job
<1>8. Honest(r)
  BY <1>3, <1>6 DEF Honest, Target
<1>9. OnCourse(r) /\ Matching(r) /\ FiledSoFar(r)
  <2>1. r.phase \in {"new", "error", "gone"}
    BY <1>7
  <2>2. QED
    BY <1>6, <2>1 DEF OnCourse, Matching, FiledSoFar, Filling
<1>10. QED
  BY <1>6, <1>7, <1>8, <1>9 DEF Good

-----------------------------------------------------------------------------
(* The actions of a job up to its albums.                                  *)

LEMMA StartLemma ==
  ASSUME IInv, NEW mode \in {"import", "link", "dry"}, Start(mode)
  PROVE  IInv'
<1>1. /\ TypeOK /\ Shown /\ AllGood /\ MirrorsFolders /\ Alone
      /\ job \in Seq(Job) /\ Len(job) \in Nat /\ DOMAIN job = 1 .. Len(job)
      /\ \A k \in DOMAIN job : job[k] \in Job
  BY TypesLemma DEF IInv
<1>2. PICK r \in Job : r = NewJob(mode)
  BY NewJobLemma
<1>3. r.mode = mode /\ Good(r) /\ r.phase = "new"
  BY <1>2, NewJobLemma
<1>4. /\ job' = Append(job, r) /\ Len(job) < Jobs
      /\ overlap' = (overlap \/ (mode # "dry" /\ \E j \in DOMAIN job : Makes(j)))
      /\ UNCHANGED <<device, once, manifest, assets, album, faults, edits>>
  BY <1>2 DEF Start
<1>5. /\ job' \in Seq(Job) /\ Len(job') = Len(job) + 1
      /\ DOMAIN job' = DOMAIN job \cup {Len(job) + 1} /\ Len(job) + 1 \notin DOMAIN job
      /\ job'[Len(job) + 1] = r /\ \A k \in DOMAIN job : job'[k] = job[k]
  BY <1>1, <1>4
<1>6. Len(job') <= Jobs
  BY <1>1, <1>4, <1>5, ImportAssumption
<1>7. Grown
  BY <1>4 DEF Grown
<1>8. AllGood'
  <2>1. ASSUME NEW k \in DOMAIN job'
        PROVE  Good(job[k])'
    <3>1. PICK q \in Job : q = job'[k]
      BY <1>5
    <3>2. Good(q)
      BY <1>1, <1>3, <1>5, <3>1 DEF AllGood
    <3>3. Good(q)'
      BY <1>7, <3>2, GrownLemma DEF Good
    <3>4. QED
      BY <3>1, <3>3 DEF Good, Honest, OnCourse, Matching, FiledSoFar, Filed, IdsOf
  <2>2. QED
    BY <2>1 DEF AllGood
<1>9. TypeOK'
  <2>1. \A k \in DOMAIN job' : job'[k].phase = "add" => job'[k].into \in DOMAIN album'
    BY <1>8 DEF AllGood, Good, OnCourse
  <2>2. overlap' \in BOOLEAN
    BY <1>4
  <2>3. QED
    BY <1>1, <1>4, <1>5, <1>6, <2>1, <2>2 DEF TypeOK
<1>10. Shown' /\ MirrorsFolders'
  BY <1>1, <1>4 DEF Shown, MirrorsFolders, Answers
<1>11. Alone'
  <2>1. SUFFICES ASSUME ~overlap'
                 PROVE  Alone'
    BY DEF Alone
  <2>2. /\ \A i, k \in DOMAIN album : album[i].name = album[k].name => i = k
        /\ \A j, k \in DOMAIN job : Makes(j) /\ Makes(k) => j = k
        /\ \A j \in DOMAIN job : job[j].phase = "create" => Called(job[j].to) = {}
    <3>1. ~overlap
      BY <1>4, <2>1
    <3>2. QED
      BY <1>1, <3>1 DEF Alone
  <2>3. mode # "dry" => ~ \E j \in DOMAIN job : Makes(j)
    BY <1>4, <2>1
  <2>4. \A k \in DOMAIN job : Makes(k)' <=> Makes(k)
    BY <1>5 DEF Makes, Running
  <2>5. \A k, l \in DOMAIN job' : Makes(k)' /\ Makes(l)' => k = l
    <3>1. PICK n : n = Len(job) + 1
      OBVIOUS
    <3>2. Makes(n)' => mode # "dry"
      BY <1>3, <1>5, <3>1 DEF Makes
    <3>3. DOMAIN job' = DOMAIN job \cup {n}
      BY <1>5, <3>1
    <3>4. QED
      BY <2>2, <2>4, <2>3, <3>2, <3>3
  <2>6. \A k \in DOMAIN job' : job'[k].phase = "create" => Called(job[k].to)' = {}
    <3>1. \A k \in DOMAIN job : job[k].phase = "create" => Called(job[k].to) = {}
      BY <2>2
    <3>2. ASSUME NEW k \in DOMAIN job', job'[k].phase = "create"
          PROVE  Called(job[k].to)' = {}
      <4>1. k \in DOMAIN job /\ job'[k] = job[k]
        BY <1>3, <1>5, <3>2
      <4>2. QED
        BY <1>4, <3>1, <3>2, <4>1 DEF Called
    <3>3. QED
      BY <3>2
  <2>7. \A i, k \in DOMAIN album' : album'[i].name = album'[k].name => i = k
    BY <1>4, <2>2
  <2>8. QED
    BY <2>5, <2>6, <2>7 DEF Alone
<1>12. QED
  BY <1>8, <1>9, <1>10, <1>11 DEF IInv

(* The list of albums, from the frame or kept.                             *)
LEMMA PlannedLemma ==
  ASSUME IInv, NEW j \in DOMAIN job, job[j].phase = "new", NEW d \in Device, Planned(j, d),
         \A f \in Folder : d[f] \ Owned \subseteq once[f],
         UNCHANGED <<device, once, assets, album, overlap, edits>>,
         manifest' = d, faults' \in 0 .. Faults
  PROVE  IInv'
<1>1. /\ job[j] \in Job /\ Good(job[j]) /\ assets \in SUBSET Asset /\ Shown
  BY FactsLemma
<1>2. PICK p \in [Target -> SUBSET Name], e \in SUBSET Name :
        /\ p = PlanAlbums(d, Everything(d)) /\ e = Everything(d)
        /\ \A f \in Folder \ {All} : p[f] \subseteq once[f]
  <2>1. Everything(d) \in SUBSET Name
    BY DEF Everything, Device
  <2>2. /\ PlanAlbums(d, Everything(d)) \in [Target -> SUBSET Name]
        /\ \A f \in Folder \ {All} : PlanAlbums(d, Everything(d))[f] \subseteq d[f] \ Owned
    BY <2>1 DEF PlanAlbums, Device, Target
  <2>3. \A f \in Folder \ {All} : PlanAlbums(d, Everything(d))[f] \subseteq once[f]
    BY <2>2
  <2>4. QED
    BY <2>1, <2>2, <2>3
<1>3. PICK r : r = [job[j] EXCEPT !.phase = "photos", !.names = e, !.left = e, !.plan = p]
  OBVIOUS
<1>4. /\ r \in Job /\ r.mode = job[j].mode /\ r.phase = "photos" /\ r.names = e
      /\ r.left = e /\ r.plan = p /\ r.ids = job[j].ids
  <2>1. "photos" \in Phase
    BY DEF Phase
  <2>2. QED
    BY <1>1, <1>2, <1>3, <2>1 DEF Job
<1>5. job' = [job EXCEPT ![j] = r]
  BY <1>2, <1>3 DEF Planned
<1>6. Good(r)
  <2>1. Honest(r)
    BY <1>1, <1>2, <1>4 DEF Good, Honest
  <2>2. OnCourse(r) /\ Matching(r) /\ FiledSoFar(r)
    BY <1>4 DEF OnCourse, Matching, FiledSoFar, Filling
  <2>3. QED
    BY <2>1, <2>2 DEF Good
<1>7. Good(r)'
  <2>1. Grown
    BY DEF Grown
  <2>2. QED
    BY <1>4, <1>6, <2>1, GrownLemma DEF Good
<1>8. Shown'
  BY <1>1 DEF Shown
<1>9. Running(j)
  BY DEF Running, Ended
<1>10. QED
  <2>1. manifest' \in Device \cup {None}
    OBVIOUS
  <2>2. assets' \in SUBSET Asset /\ assets \subseteq assets'
    BY <1>1
  <2>3. r.phase = "create" => Called(r.to) = {}
    BY <1>4
  <2>4. QED
    BY <1>4, <1>5, <1>7, <1>8, <1>9, <2>1, <2>2, <2>3, StepLemma

LEMMA ReadManifestLemma ==
  ASSUME IInv, NEW j \in DOMAIN job, ReadManifest(j)
  PROVE  IInv'
<1>1. /\ job[j] \in Job /\ Good(job[j]) /\ assets \in SUBSET Asset
      /\ manifest \in Device \cup {None} /\ device \in Device /\ Shown
      /\ Fault => faults' \in 0 .. Faults
      /\ Sound => faults' \in 0 .. Faults
  BY FactsLemma
<1>2. /\ job[j].phase = "new"
      /\ UNCHANGED <<device, once, assets, album, overlap, edits>>
  BY DEF ReadManifest
<1>3. CASE Sound /\ SetManifest(device) /\ Planned(j, device)
  <2>1. \A f \in Folder : device[f] \ Owned \subseteq once[f]
    BY <1>1 DEF Shown
  <2>2. manifest' = device
    BY <1>3 DEF SetManifest
  <2>3. QED
    BY <1>1, <1>2, <1>3, <2>1, <2>2, PlannedLemma
<1>4. CASE Fault /\ manifest # None /\ UNCHANGED manifest /\ Planned(j, manifest)
  <2>1. manifest \in Device /\ \A f \in Folder : manifest[f] \ Owned \subseteq once[f]
    BY <1>1, <1>4 DEF Shown
  <2>2. QED
    BY <1>1, <1>2, <1>4, <2>1, PlannedLemma
<1>5. CASE /\ Fault /\ manifest = None /\ UNCHANGED manifest
           /\ job' = [job EXCEPT ![j] = Over(j, "error")]
  <2>1. PICK r : r = [NewJob(job[j].mode) EXCEPT !.phase = "error"]
    OBVIOUS
  <2>2. job[j].mode \in {"import", "link", "dry"}
    BY <1>1, JobLemma
  <2>3. r \in Job /\ r.mode = job[j].mode /\ Good(r)
    BY <2>1, <2>2, NewJobLemma
  <2>4. r.phase = "error"
    BY <2>1 DEF NewJob
  <2>5. job' = [job EXCEPT ![j] = r]
    BY <1>5, <2>1 DEF Over
  <2>6. Good(r)'
    <3>1. Grown
      BY <1>2 DEF Grown
    <3>2. QED
      BY <2>3, <3>1, GrownLemma DEF Good
  <2>7. Shown' /\ Running(j)
    BY <1>1, <1>2, <1>5 DEF Shown, Running, Ended
  <2>8. /\ manifest' \in Device \cup {None} /\ faults' \in 0 .. Faults
        /\ assets \subseteq assets' /\ assets' \in SUBSET Asset
    BY <1>1, <1>2, <1>5
  <2>9. r.phase = "create" => Called(r.to) = {}
    BY <2>4
  <2>10. QED
    BY <1>2, <2>3, <2>5, <2>6, <2>7, <2>8, <2>9, StepLemma
<1>6. QED
  BY <1>3, <1>4, <1>5 DEF ReadManifest

(* One photo is done with: matched, left open, or failed.                  *)
Onward(q, n, r) ==
  /\ r \in Job /\ r.mode = q.mode /\ r.phase = q.phase /\ r.names = q.names
  /\ r.plan = q.plan /\ r.left = q.left \ {n}

LEMMA PhotoLemma ==
  ASSUME IInv, NEW j \in DOMAIN job, job[j].phase \in {"photos", "settle"},
         NEW n \in Name, NEW a \in Answers(n) \cup {None}, a # None => a \in assets',
         NEW r \in Job, job' = [job EXCEPT ![j] = r], Onward(job[j], n, r),
         \/ /\ r.ids = [job[j].ids EXCEPT ![n] = a] /\ r.failed = job[j].failed
            /\ r.mode # "import" \/ a # None
         \/ r.ids = job[j].ids /\ r.failed,
         UNCHANGED <<device, once, manifest, album, overlap, edits>>,
         assets \subseteq assets', assets' \in SUBSET Asset, faults' \in 0 .. Faults
  PROVE  IInv'
<1>1. /\ job[j] \in Job /\ Good(job[j]) /\ Shown /\ manifest \in Device \cup {None}
      /\ r.mode = job[j].mode /\ r.phase = job[j].phase /\ r.names = job[j].names
      /\ r.plan = job[j].plan /\ r.left = job[j].left \ {n}
  BY FactsLemma DEF Onward
<1>2. /\ job[j].ids \in [Name -> Asset \cup {None}] /\ r.ids \in [Name -> Asset \cup {None}]
      /\ r.names \in SUBSET Name
  BY <1>1, JobLemma
<1>3. Honest(r)'
  <2>1. \A f \in Folder \ {All} : r.plan[f] \subseteq once'[f]
    BY <1>1 DEF Good, Honest
  <2>2. ASSUME NEW m \in Name, r.ids[m] # None
        PROVE  r.ids[m] \in Answers(m) \cap assets'
    <3>1. CASE r.ids[m] = job[j].ids[m]
      BY <1>1, <2>2, <3>1 DEF Good, Honest
    <3>2. CASE r.ids[m] # job[j].ids[m]
      <4>1. m = n /\ r.ids[m] = a
        BY <1>2, <3>2
      <4>2. QED
        BY <2>2, <4>1
    <3>3. QED
      BY <3>1, <3>2
  <2>3. QED
    BY <2>1, <2>2 DEF Honest, Answers
<1>4. OnCourse(r)'
  BY <1>1 DEF Good, OnCourse
<1>5. Matching(r)'
  <2>1. ASSUME ~r.failed, r.mode = "import", NEW m \in r.names \ r.left
        PROVE  r.ids[m] # None
    <3>1. /\ r.ids = [job[j].ids EXCEPT ![n] = a] /\ a # None
          /\ r.failed = job[j].failed /\ m \in Name
      BY <1>2, <2>1
    <3>2. CASE m = n
      BY <1>2, <3>1, <3>2
    <3>3. CASE m # n
      <4>1. m \in job[j].names \ job[j].left
        BY <1>1, <2>1, <3>3
      <4>2. job[j].ids[m] # None
        BY <1>1, <2>1, <3>1, <4>1 DEF Good, Matching
      <4>3. QED
        BY <1>2, <3>1, <3>3, <4>2
    <3>4. QED
      BY <3>2, <3>3
  <2>2. QED
    BY <2>1 DEF Matching
<1>6. FiledSoFar(r)'
  BY <1>1 DEF FiledSoFar, Filling
<1>7. Good(r)' /\ Running(j) /\ Shown'
  BY <1>1, <1>3, <1>4, <1>5, <1>6 DEF Good, Running, Ended, Shown
<1>8. r.phase = "create" => Called(r.to) = {}
  BY <1>1
<1>9. QED
  BY <1>1, <1>7, <1>8, StepLemma

LEMMA PhotoFailedLemma ==
  ASSUME IInv, NEW j \in DOMAIN job, job[j].phase \in {"photos", "settle"},
         NEW n \in Name, NEW r \in Job, job' = [job EXCEPT ![j] = r],
         Onward(job[j], n, r), r.ids = job[j].ids, r.failed,
         UNCHANGED <<device, once, manifest, album, overlap, edits>>,
         assets \subseteq assets', assets' \in SUBSET Asset, faults' \in 0 .. Faults
  PROVE  IInv'
<1>1. PICK a \in Answers(n) \cup {None} : a = None
  OBVIOUS
<1>2. QED
  BY <1>1, PhotoLemma

(* The job after a photo: matched or not, open, failed.                    *)
Done(q, n, a) == [q EXCEPT !.left = @ \ {n}, !.ids[n] = a]
Open(q, n) == [Done(q, n, None) EXCEPT !.open = @ \cup {n}]
Failed(q, n) == [q EXCEPT !.left = @ \ {n}, !.failed = TRUE]

LEMMA DoneLemma ==
  ASSUME NEW q \in Job, NEW n \in Name, NEW a \in Asset \cup {None}, NEW r, r = Done(q, n, a)
  PROVE  /\ Onward(q, n, r) /\ r.ids = [q.ids EXCEPT ![n] = a]
         /\ r.failed = q.failed /\ r.open = q.open
<1> DEFINE ids == [q.ids EXCEPT ![n] = a]
<1>1. r = [q EXCEPT !.left = @ \ {n}, !.ids = ids]
  BY DEF Job, Done
<1>2. q.left \ {n} \in SUBSET Name /\ ids \in [Name -> Asset \cup {None}]
  BY JobLemma
<1> HIDE DEF ids
<1>3. /\ Onward(q, n, r) /\ r.ids = ids /\ r.failed = q.failed /\ r.open = q.open
  BY <1>1, <1>2 DEF Job, Onward
<1>4. QED
  BY <1>3 DEF ids

LEMMA FailedLemma ==
  ASSUME NEW q \in Job, NEW n \in Name, NEW r, r = Failed(q, n)
  PROVE  Onward(q, n, r) /\ r.ids = q.ids /\ r.failed
<1>1. q.left \ {n} \in SUBSET Name
  BY JobLemma
<1>2. QED
  BY <1>1 DEF Job, Failed, Onward

LEMMA OpenLemma ==
  ASSUME NEW q \in Job, NEW n \in Name, NEW r, r = Open(q, n)
  PROVE  Onward(q, n, r) /\ r.ids = [q.ids EXCEPT ![n] = None] /\ r.failed = q.failed
<1>1. PICK s : s = Done(q, n, None)
  OBVIOUS
<1>2. /\ Onward(q, n, s) /\ s.ids = [q.ids EXCEPT ![n] = None]
      /\ s.failed = q.failed /\ s.open = q.open
  BY <1>1, DoneLemma
<1>3. r = [s EXCEPT !.open = @ \cup {n}]
  BY <1>1 DEF Open
<1>4. PICK ids : ids = [q.ids EXCEPT ![n] = None]
  OBVIOUS
<1>5. q.open \cup {n} \in SUBSET Name
  BY JobLemma
<1>6. QED
  BY <1>2, <1>3, <1>4, <1>5 DEF Job, Onward

(* The changes of the list of jobs, as changes of one job.                 *)
LEMMA ChangeLemma ==
  ASSUME TypeOK, NEW j \in DOMAIN job, NEW n
  PROVE  /\ \A a : PhotoDone(j, n, a) = [job EXCEPT ![j] = Done(job[j], n, a)]
         /\ [PhotoDone(j, n, None) EXCEPT ![j].open = @ \cup {n}]
              = [job EXCEPT ![j] = Open(job[j], n)]
         /\ PhotoFailed(j, n) = [job EXCEPT ![j] = Failed(job[j], n)]
<1>1. job \in Seq(Job) /\ DOMAIN job = 1 .. Len(job) /\ job[j] \in Job
  BY TypesLemma
<1>2. \A a : PhotoDone(j, n, a) = [job EXCEPT ![j] = Done(job[j], n, a)]
  BY <1>1 DEF PhotoDone, Done
<1>3. [PhotoDone(j, n, None) EXCEPT ![j].open = @ \cup {n}] = [job EXCEPT ![j] = Open(job[j], n)]
  <2>1. PICK done : done = Done(job[j], n, None)
    OBVIOUS
  <2>2. PhotoDone(j, n, None) = [job EXCEPT ![j] = done]
    BY <1>2, <2>1
  <2>3. Open(job[j], n) = [done EXCEPT !.open = @ \cup {n}]
    BY <2>1 DEF Open
  <2>4. QED
    BY <1>1, <2>2, <2>3
<1>4. PhotoFailed(j, n) = [job EXCEPT ![j] = Failed(job[j], n)]
  <2> DEFINE left == [job[j] EXCEPT !.left = @ \ {n}]
             fewer == [job EXCEPT ![j] = left]
  <2>1. fewer = [job EXCEPT ![j].left = @ \ {n}]
    OBVIOUS
  <2>2. PhotoFailed(j, n) = [fewer EXCEPT ![j].failed = TRUE]
    BY <2>1 DEF PhotoFailed
  <2>3. Failed(job[j], n) = [left EXCEPT !.failed = TRUE]
    BY DEF Failed
  <2> HIDE DEF left
  <2>4. QED
    BY <1>1, <2>2, <2>3
<1>5. QED
  BY <1>2, <1>3, <1>4

LEMMA FirstLemma ==
  ASSUME NEW S, S # {}
  PROVE  First(S) \in S
BY DEF First

LEMMA CopyPhotoLemma ==
  ASSUME IInv, NEW j \in DOMAIN job, CopyPhoto(j)
  PROVE  IInv'
<1>1. /\ job[j] \in Job /\ Good(job[j]) /\ assets \in SUBSET Asset
      /\ Fault => faults' \in 0 .. Faults
      /\ Sound => faults' \in 0 .. Faults
  BY FactsLemma
<1>2. /\ job[j].phase = "photos" /\ job[j].mode = "import" /\ job[j].left # {}
      /\ UNCHANGED <<device, once, manifest, album, overlap, edits>>
  BY DEF CopyPhoto
<1>3. PICK n \in Name : n = First(job[j].left)
  BY <1>1, <1>2, FirstLemma, JobLemma
<1>4. PICK a \in Asset \cap Answers(n) : a = n /\ a # None
  BY ImportAssumption DEF Asset, Answers
<1>5. PICK done, failed : done = Done(job[j], n, a) /\ failed = Failed(job[j], n)
  OBVIOUS
<1>6. /\ Onward(job[j], n, done) /\ Onward(job[j], n, failed)
      /\ done.ids = [job[j].ids EXCEPT ![n] = a] /\ done.failed = job[j].failed
      /\ failed.ids = job[j].ids /\ failed.failed
  <2>1. Onward(job[j], n, failed) /\ failed.ids = job[j].ids /\ failed.failed
    BY <1>1, <1>5, FailedLemma
  <2>2. Onward(job[j], n, done)
    BY <1>1, <1>5, DoneLemma
  <2>3. done.ids = [job[j].ids EXCEPT ![n] = a] /\ done.failed = job[j].failed
    BY <1>1, <1>5, DoneLemma
  <2>4. QED
    BY <2>1, <2>2, <2>3
<1>7. /\ PhotoDone(j, n, a) = [job EXCEPT ![j] = done]
      /\ PhotoFailed(j, n) = [job EXCEPT ![j] = failed]
  <2>1. TypeOK
    BY DEF IInv
  <2>2. \A b : PhotoDone(j, n, b) = [job EXCEPT ![j] = Done(job[j], n, b)]
    BY <2>1, ChangeLemma
  <2>3. PhotoFailed(j, n) = [job EXCEPT ![j] = failed]
    BY <1>5, <2>1, ChangeLemma
  <2>4. QED
    BY <1>5, <2>2, <2>3
<1>8. \/ Sound /\ assets' = assets \cup {a} /\ job' = [job EXCEPT ![j] = done]
      \/ Sound /\ UNCHANGED assets /\ job' = [job EXCEPT ![j] = failed]
      \/ Fault /\ assets' \in {assets, assets \cup {a}} /\ job' = [job EXCEPT ![j] = failed]
  BY <1>3, <1>4, <1>7 DEF CopyPhoto
<1>9. assets \subseteq assets' /\ assets' \in SUBSET Asset /\ faults' \in 0 .. Faults
  BY <1>1, <1>4, <1>8
<1>10. done \in Job /\ failed \in Job /\ done.mode = job[j].mode
  BY <1>6 DEF Onward
<1>11. CASE assets' = assets \cup {a} /\ job' = [job EXCEPT ![j] = done]
  <2>1. a \in Answers(n) \cup {None} /\ a \in assets'
    BY <1>4, <1>11
  <2>2. QED
    BY <1>2, <1>4, <1>6, <1>9, <1>10, <1>11, <2>1, PhotoLemma
<1>12. CASE job' = [job EXCEPT ![j] = failed]
  BY <1>2, <1>6, <1>9, <1>10, <1>12, PhotoFailedLemma
<1>13. QED
  BY <1>8, <1>11, <1>12

(* An answer to a search for a name bears the name or resembles it.        *)
LEMMA FoundLemma ==
  ASSUME assets \in SUBSET Asset, NEW n \in Name
  PROVE  /\ Found(n) \subseteq Answers(n) \cap assets
         /\ Candidates(n) \subseteq Answers(n) \cap assets
BY DEF Found, Filename, Candidates, Offered, Answers, Asset

LEMMA LookUpLemma ==
  ASSUME IInv, NEW j \in DOMAIN job, LookUp(j)
  PROVE  IInv'
<1>1. /\ job[j] \in Job /\ Good(job[j]) /\ assets \in SUBSET Asset
      /\ Fault => faults' \in 0 .. Faults
      /\ Sound => faults' \in 0 .. Faults
  BY FactsLemma
<1>2. /\ job[j].phase = "photos" /\ job[j].mode # "import" /\ job[j].left # {}
      /\ UNCHANGED <<device, once, manifest, assets, album, overlap, edits>>
  BY DEF LookUp
<1>3. PICK n \in Name : n = First(job[j].left)
  BY <1>1, <1>2, FirstLemma, JobLemma
<1>4. PICK a \in (Answers(n) \cap assets) \cup {None} :
        Cardinality(Found(n)) = 1 => a = (CHOOSE b \in Found(n) : TRUE)
  <2>1. CASE Cardinality(Found(n)) = 1
    <3>1. Found(n) # {}
      BY <2>1, FS_EmptySet
    <3>2. (CHOOSE b \in Found(n) : TRUE) \in Found(n)
      BY <3>1
    <3>3. QED
      BY <1>1, <3>2, FoundLemma
  <2>2. CASE Cardinality(Found(n)) # 1
    BY <2>2
  <2>3. QED
    BY <2>1, <2>2
<1>5. PICK done, open, failed : /\ done = Done(job[j], n, a) /\ open = Open(job[j], n)
                                 /\ failed = Failed(job[j], n)
  OBVIOUS
<1>6. a \in Answers(n) \cup {None} /\ (a # None => a \in assets') /\ a \in Asset \cup {None}
  BY <1>1, <1>2, <1>4
<1>7. /\ Onward(job[j], n, done) /\ Onward(job[j], n, failed)
      /\ done.ids = [job[j].ids EXCEPT ![n] = a] /\ done.failed = job[j].failed
      /\ failed.ids = job[j].ids /\ failed.failed
  <2>1. Onward(job[j], n, failed) /\ failed.ids = job[j].ids /\ failed.failed
    BY <1>1, <1>5, FailedLemma
  <2>2. Onward(job[j], n, done)
    BY <1>1, <1>5, <1>6, DoneLemma
  <2>3. done.ids = [job[j].ids EXCEPT ![n] = a] /\ done.failed = job[j].failed
    BY <1>1, <1>5, <1>6, DoneLemma
  <2>4. QED
    BY <2>1, <2>2, <2>3
<1>8. /\ Onward(job[j], n, open)
      /\ open.ids = [job[j].ids EXCEPT ![n] = None] /\ open.failed = job[j].failed
  BY <1>1, <1>5, OpenLemma
<1>9. /\ PhotoDone(j, n, a) = [job EXCEPT ![j] = done]
      /\ [PhotoDone(j, n, None) EXCEPT ![j].open = @ \cup {n}] = [job EXCEPT ![j] = open]
      /\ PhotoFailed(j, n) = [job EXCEPT ![j] = failed]
  <2>1. TypeOK
    BY DEF IInv
  <2>2. \A b : PhotoDone(j, n, b) = [job EXCEPT ![j] = Done(job[j], n, b)]
    BY <2>1, ChangeLemma
  <2>3. /\ [PhotoDone(j, n, None) EXCEPT ![j].open = @ \cup {n}] = [job EXCEPT ![j] = open]
        /\ PhotoFailed(j, n) = [job EXCEPT ![j] = failed]
    BY <1>5, <2>1, ChangeLemma
  <2>4. QED
    BY <1>5, <2>2, <2>3
<1>10. \/ Sound /\ job' = [job EXCEPT ![j] = done]
       \/ Sound /\ job' = [job EXCEPT ![j] = open]
       \/ Fault /\ job' = [job EXCEPT ![j] = failed]
  <2>1. \/ Sound /\ job' = IF Cardinality(Found(n)) = 1
                           THEN PhotoDone(j, n, CHOOSE b \in Found(n) : TRUE)
                           ELSE [PhotoDone(j, n, None) EXCEPT ![j].open = @ \cup {n}]
        \/ Fault /\ job' = PhotoFailed(j, n)
    BY <1>3 DEF LookUp
  <2>2. QED
    BY <1>4, <1>9, <2>1
<1>11. assets \subseteq assets' /\ assets' \in SUBSET Asset /\ faults' \in 0 .. Faults
  BY <1>1, <1>2, <1>10
<1>12. done \in Job /\ open \in Job /\ failed \in Job /\ done.mode # "import"
  BY <1>2, <1>7, <1>8 DEF Onward
<1>13. CASE job' = [job EXCEPT ![j] = done]
  BY <1>2, <1>6, <1>7, <1>11, <1>12, <1>13, PhotoLemma
<1>14. CASE job' = [job EXCEPT ![j] = open]
  <2>1. PICK none : none = None
    OBVIOUS
  <2>2. none \in Answers(n) \cup {None} /\ (none # None => none \in assets')
    BY <2>1
  <2>3. open.ids = [job[j].ids EXCEPT ![n] = none] /\ open.mode # "import"
    BY <1>2, <1>8, <2>1 DEF Onward
  <2>4. QED
    BY <1>2, <1>8, <1>11, <1>12, <1>14, <2>2, <2>3, PhotoLemma
<1>15. CASE job' = [job EXCEPT ![j] = failed]
  BY <1>2, <1>7, <1>11, <1>12, <1>15, PhotoFailedLemma
<1>16. QED
  BY <1>10, <1>13, <1>14, <1>15

(* The photos are behind the job.                                          *)
LEMMA PastLemma ==
  ASSUME IInv, NEW j \in DOMAIN job, job[j].phase \in {"photos", "settle"},
         job[j].left = {}, job' = PastPhotos(j),
         UNCHANGED <<device, once, manifest, assets, album, overlap, faults, edits>>
  PROVE  IInv'
<1>1. /\ job[j] \in Job /\ Good(job[j]) /\ assets \in SUBSET Asset /\ Shown
      /\ manifest \in Device \cup {None} /\ faults \in 0 .. Faults
  BY FactsLemma
<1>2. PICK r : r = IF job[j].mode = "dry" THEN [job[j] EXCEPT !.phase = "done", !.open = {}]
                   ELSE [job[j] EXCEPT !.phase = "albums", !.open = {}, !.todo = Target]
  OBVIOUS
<1>3. /\ r \in Job /\ r.mode = job[j].mode /\ r.names = job[j].names /\ r.left = {}
      /\ r.plan = job[j].plan /\ r.ids = job[j].ids /\ r.failed = job[j].failed
      /\ IF r.mode = "dry" THEN r.phase = "done" ELSE r.phase = "albums" /\ r.todo = Target
  <2>1. "done" \in Phase /\ "albums" \in Phase /\ {} \in SUBSET Name
    BY DEF Phase, Ended
  <2>2. CASE job[j].mode = "dry"
    BY <1>1, <1>2, <2>1, <2>2 DEF Job
  <2>3. CASE job[j].mode # "dry"
    BY <1>1, <1>2, <2>1, <2>3 DEF Job
  <2>4. QED
    BY <2>2, <2>3
<1>4. job' = [job EXCEPT ![j] = r]
  <2>1. job \in Seq(Job) /\ DOMAIN job = 1 .. Len(job)
    BY TypesLemma DEF IInv
  <2>2. CASE job[j].mode = "dry"
    <3> DEFINE moved == [job[j] EXCEPT !.phase = "done"]
               ended == [job EXCEPT ![j] = moved]
    <3>1. PastPhotos(j) = [ended EXCEPT ![j].open = {}]
      BY <2>2 DEF PastPhotos
    <3>2. r = [moved EXCEPT !.open = {}]
      BY <1>2, <2>2
    <3> HIDE DEF moved
    <3>3. QED
      BY <2>1, <3>1, <3>2
  <2>3. CASE job[j].mode # "dry"
    <3> DEFINE moved == [job[j] EXCEPT !.phase = "albums"]
               closed == [moved EXCEPT !.open = {}]
               later == [job EXCEPT ![j] = moved]
               shut == [job EXCEPT ![j] = closed]
    <3>1. PastPhotos(j) = [[later EXCEPT ![j].open = {}] EXCEPT ![j].todo = Target]
      BY <2>3 DEF PastPhotos
    <3>2. r = [closed EXCEPT !.todo = Target]
      BY <1>2, <2>3
    <3>3. [later EXCEPT ![j].open = {}] = shut
      <4> HIDE DEF moved
      <4>1. QED
        BY <2>1
    <3> HIDE DEF closed, later
    <3>4. QED
      BY <2>1, <3>1, <3>2, <3>3
  <2>4. QED
    BY <2>2, <2>3
<1>5. Good(r)
  <2>1. Honest(r)
    BY <1>1, <1>3 DEF Good, Honest
  <2>2. OnCourse(r)
    BY <1>3 DEF OnCourse
  <2>3. Matching(r)
    BY <1>1, <1>3 DEF Good, Matching
  <2>4. FiledSoFar(r)
    BY <1>3 DEF FiledSoFar
  <2>5. QED
    BY <2>1, <2>2, <2>3, <2>4 DEF Good
<1>6. Good(r)'
  <2>1. Grown
    BY DEF Grown
  <2>2. QED
    BY <1>3, <1>5, <2>1, GrownLemma DEF Good
<1>7. Shown' /\ Running(j) /\ (r.phase = "create" => Called(r.to) = {})
  BY <1>1, <1>3 DEF Shown, Running, Ended
<1>8. /\ manifest' \in Device \cup {None} /\ assets \subseteq assets'
      /\ assets' \in SUBSET Asset /\ faults' \in 0 .. Faults
  BY <1>1
<1>9. QED
  BY <1>3, <1>4, <1>6, <1>7, <1>8, StepLemma

LEMMA PhotosEndLemma ==
  ASSUME IInv, NEW j \in DOMAIN job, PhotosEnd(j)
  PROVE  IInv'
<1>1. /\ job[j] \in Job /\ Good(job[j]) /\ assets \in SUBSET Asset /\ Shown
      /\ manifest \in Device \cup {None} /\ faults \in 0 .. Faults
  BY FactsLemma
<1>2. /\ job[j].phase = "photos" /\ job[j].left = {}
      /\ UNCHANGED <<device, once, manifest, assets, album, overlap, faults, edits>>
  BY DEF PhotosEnd, server
<1>3. CASE job' = PastPhotos(j)
  BY <1>2, <1>3, PastLemma
<1>4. CASE job[j].mode # "import"
           /\ job' = [job EXCEPT ![j].phase = "settle", ![j].left = job[j].open]
  <2>1. PICK r : r = [job[j] EXCEPT !.phase = "settle", !.left = job[j].open]
    OBVIOUS
  <2>2. job' = [job EXCEPT ![j] = r]
    <3>1. job \in Seq(Job) /\ DOMAIN job = 1 .. Len(job)
      BY TypesLemma DEF IInv
    <3> DEFINE moved == [job[j] EXCEPT !.phase = "settle"]
               later == [job EXCEPT ![j] = moved]
    <3>2. job' = [later EXCEPT ![j].left = job[j].open]
      BY <1>4
    <3>3. r = [moved EXCEPT !.left = job[j].open]
      BY <2>1
    <3> HIDE DEF moved
    <3>4. QED
      BY <3>1, <3>2, <3>3
  <2>3. /\ r \in Job /\ r.mode = job[j].mode /\ r.phase = "settle"
        /\ r.plan = job[j].plan /\ r.ids = job[j].ids
    <3>1. "settle" \in Phase /\ job[j].open \in SUBSET Name
      BY <1>1, JobLemma DEF Phase
    <3>2. QED
      BY <1>1, <2>1, <3>1 DEF Job
  <2>4. Good(r)
    <3>1. Honest(r)
      BY <1>1, <2>3 DEF Good, Honest
    <3>2. OnCourse(r) /\ Matching(r) /\ FiledSoFar(r)
      BY <1>4, <2>3 DEF OnCourse, Matching, FiledSoFar, Filling
    <3>3. QED
      BY <3>1, <3>2 DEF Good
  <2>5. Good(r)'
    <3>1. Grown
      BY <1>2 DEF Grown
    <3>2. QED
      BY <2>3, <2>4, <3>1, GrownLemma DEF Good
  <2>6. Shown' /\ Running(j) /\ (r.phase = "create" => Called(r.to) = {})
    BY <1>1, <1>2, <2>3 DEF Shown, Running, Ended
  <2>7. /\ manifest' \in Device \cup {None} /\ assets \subseteq assets'
        /\ assets' \in SUBSET Asset /\ faults' \in 0 .. Faults
    BY <1>1, <1>2
  <2>8. QED
    BY <1>2, <2>2, <2>3, <2>5, <2>6, <2>7, StepLemma
<1>5. QED
  BY <1>3, <1>4 DEF PhotosEnd

LEMMA SettleLemma ==
  ASSUME IInv, NEW j \in DOMAIN job, Settle(j)
  PROVE  IInv'
<1>1. /\ job[j] \in Job /\ Good(job[j]) /\ assets \in SUBSET Asset
      /\ faults \in 0 .. Faults
  BY FactsLemma
<1>2. /\ job[j].phase = "settle"
      /\ UNCHANGED <<device, once, manifest, assets, album, overlap, faults, edits>>
  BY DEF Settle, server
<1>3. CASE job[j].left = {} /\ job' = PastPhotos(j)
  BY <1>2, <1>3, PastLemma
<1>4. CASE /\ job[j].left # {}
           /\ LET n == First(job[j].left) IN
                \E a \in Candidates(n) \cup {None} : job' = PhotoDone(j, n, a)
  <2>1. PICK n \in Name : n = First(job[j].left)
    BY <1>1, <1>4, FirstLemma, JobLemma
  <2>2. PICK a \in Candidates(n) \cup {None} : job' = PhotoDone(j, n, a)
    BY <1>4, <2>1
  <2>3. /\ a \in Answers(n) \cup {None} /\ (a # None => a \in assets')
        /\ a \in Asset \cup {None}
    BY <1>1, <1>2, <2>2, FoundLemma
  <2>4. PICK done : done = Done(job[j], n, a)
    OBVIOUS
  <2>5. /\ Onward(job[j], n, done)
        /\ done.ids = [job[j].ids EXCEPT ![n] = a] /\ done.failed = job[j].failed
    <3>1. Onward(job[j], n, done)
      BY <1>1, <2>3, <2>4, DoneLemma
    <3>2. done.ids = [job[j].ids EXCEPT ![n] = a] /\ done.failed = job[j].failed
      BY <1>1, <2>3, <2>4, DoneLemma
    <3>3. QED
      BY <3>1, <3>2
  <2>6. job' = [job EXCEPT ![j] = done]
    <3>1. TypeOK
      BY DEF IInv
    <3>2. \A b : PhotoDone(j, n, b) = [job EXCEPT ![j] = Done(job[j], n, b)]
      BY <3>1, ChangeLemma
    <3>3. QED
      BY <2>2, <2>4, <3>2
  <2>7. job[j].mode # "import"
    BY <1>1, <1>2 DEF Good, OnCourse
  <2>8. assets \subseteq assets' /\ assets' \in SUBSET Asset /\ faults' \in 0 .. Faults
    BY <1>1, <1>2
  <2>9. done \in Job /\ done.mode # "import"
    BY <2>5, <2>7 DEF Onward
  <2>10. QED
    BY <1>2, <2>3, <2>5, <2>6, <2>8, <2>9, PhotoLemma
<1>5. QED
  BY <1>3, <1>4 DEF Settle

-----------------------------------------------------------------------------
(* The actions of a job on the albums.                                     *)

(* Fields of one job, one after the other.                                 *)
LEMMA FieldLemma ==
  ASSUME NEW s, NEW j \in DOMAIN s, NEW x, NEW v
  PROVE  /\ [[s EXCEPT ![j] = x] EXCEPT ![j].phase = v] = [s EXCEPT ![j] = [x EXCEPT !.phase = v]]
         /\ [[s EXCEPT ![j] = x] EXCEPT ![j].to = v] = [s EXCEPT ![j] = [x EXCEPT !.to = v]]
         /\ [[s EXCEPT ![j] = x] EXCEPT ![j].into = v] = [s EXCEPT ![j] = [x EXCEPT !.into = v]]
         /\ [[s EXCEPT ![j] = x] EXCEPT ![j].todo = v] = [s EXCEPT ![j] = [x EXCEPT !.todo = v]]
         /\ [[s EXCEPT ![j] = x] EXCEPT ![j].failed = v]
              = [s EXCEPT ![j] = [x EXCEPT !.failed = v]]
OBVIOUS

LEMMA LeastLemma ==
  ASSUME NEW S \in SUBSET Nat, S # {}
  PROVE  (CHOOSE i \in S : \A k \in S : i <= k) \in S
<1>1. IsWellFoundedOn(OpToRel(<, Nat), Nat)
  BY NatLessThanWellFounded, Zenon
<1>2. PICK i \in S : \A k \in S : <<k, i>> \notin OpToRel(<, Nat)
  BY <1>1, WFMin, Zenon
<1>3. \A k \in S : ~(k < i)
  BY <1>2, Zenon DEF OpToRel
<1>4. \A k \in S : i <= k
  BY <1>3
<1>5. QED
  BY <1>4

(* The job with all that it matched.                                       *)
Same(q, r) ==
  /\ r \in Job /\ r.mode = q.mode /\ r.names = q.names /\ r.left = q.left
  /\ r.plan = q.plan /\ r.ids = q.ids

(* Back from an album.                                                     *)
LeftAlbum(q) == [[[q EXCEPT !.phase = "albums"] EXCEPT !.to = None] EXCEPT !.into = 0]

LEMMA LeftLemma ==
  ASSUME NEW j \in DOMAIN job, job[j] \in Job
  PROVE  /\ Same(job[j], LeftAlbum(job[j])) /\ LeftAlbum(job[j]).phase = "albums"
         /\ LeftAlbum(job[j]).todo = job[j].todo /\ LeftAlbum(job[j]).failed = job[j].failed
         /\ AlbumDone(j) = [job EXCEPT ![j] = LeftAlbum(job[j])]
         /\ AlbumFailed(j) = [job EXCEPT ![j] = [LeftAlbum(job[j]) EXCEPT !.failed = TRUE]]
<1>1. PICK x : x = [job[j] EXCEPT !.phase = "albums"]
  OBVIOUS
<1>2. PICK y : y = [x EXCEPT !.to = None]
  OBVIOUS
<1>3. PICK z : z = [y EXCEPT !.into = 0]
  OBVIOUS
<1>4. "albums" \in Phase /\ None \in Target \cup {None} /\ 0 \in Nat
  BY DEF Phase
<1>5. /\ x \in Job /\ Same(job[j], x) /\ x.phase = "albums" /\ x.todo = job[j].todo
      /\ x.failed = job[j].failed
  BY <1>1, <1>4 DEF Job, Same
<1>6. /\ y \in Job /\ Same(job[j], y) /\ y.phase = "albums" /\ y.todo = job[j].todo
      /\ y.failed = job[j].failed
  BY <1>2, <1>4, <1>5 DEF Job, Same
<1>7. /\ z \in Job /\ Same(job[j], z) /\ z.phase = "albums" /\ z.todo = job[j].todo
      /\ z.failed = job[j].failed
  BY <1>3, <1>4, <1>6 DEF Job, Same
<1>8. z = LeftAlbum(job[j])
  BY <1>1, <1>2, <1>3 DEF LeftAlbum
<1>9. AlbumDone(j) = [job EXCEPT ![j] = z]
  <2>1. AlbumDone(j) = [[[job EXCEPT ![j].phase = "albums"] EXCEPT ![j].to = None]
                          EXCEPT ![j].into = 0]
    BY DEF AlbumDone
  <2>2. [job EXCEPT ![j].phase = "albums"] = [job EXCEPT ![j] = x]
    BY <1>1
  <2>3. [[job EXCEPT ![j] = x] EXCEPT ![j].to = None] = [job EXCEPT ![j] = y]
    BY <1>2, FieldLemma
  <2>4. [[job EXCEPT ![j] = y] EXCEPT ![j].into = 0] = [job EXCEPT ![j] = z]
    BY <1>3, FieldLemma
  <2>5. QED
    BY <2>1, <2>2, <2>3, <2>4
<1>10. AlbumFailed(j) = [job EXCEPT ![j] = [z EXCEPT !.failed = TRUE]]
  BY <1>9, FieldLemma DEF AlbumFailed
<1>11. QED
  BY <1>7, <1>8, <1>9, <1>10

(* The next album is looked for, or left alone.                            *)
LEMMA FilingLemma ==
  ASSUME IInv, NEW j \in DOMAIN job, job[j].phase = "albums",
         NEW t \in job[j].todo, NEW r \in Job, Same(job[j], r),
         job' = [job EXCEPT ![j] = r], r.todo = job[j].todo \ {t},
         \/ /\ r.phase = "albums"
            /\ r.failed \/ (r.failed = job[j].failed /\ IdsOf(job[j], t) = {})
         \/ r.phase = "create" /\ r.to = t /\ r.failed = job[j].failed /\ Called(t) = {}
         \/ r.phase = "add" /\ r.to = t /\ r.failed = job[j].failed /\ r.into \in Called(t),
         UNCHANGED <<device, once, manifest, assets, album, overlap, edits>>,
         faults' \in 0 .. Faults
  PROVE  IInv'
<1>1. /\ job[j] \in Job /\ Good(job[j]) /\ Shown /\ manifest \in Device \cup {None}
      /\ assets \in SUBSET Asset
  BY FactsLemma
<1>2. /\ r.mode = job[j].mode /\ r.names = job[j].names /\ r.left = job[j].left
      /\ r.plan = job[j].plan /\ r.ids = job[j].ids
      /\ \A u : IdsOf(r, u) = IdsOf(job[j], u) /\ (Filed(r, u) <=> Filed(job[j], u))
  BY DEF Same, IdsOf, Filed
<1>3. job[j].todo \in SUBSET Target /\ t \in Target
  BY <1>1, JobLemma
<1>4. Honest(r)
  BY <1>1, <1>2 DEF Good, Honest
<1>5. OnCourse(r)
  BY <1>1, <1>2, <1>3 DEF Good, OnCourse, Called
<1>6. Matching(r)
  BY <1>1, <1>2 DEF Good, Matching
<1>7. FiledSoFar(r)
  <2>1. SUFFICES ASSUME ~r.failed, r.mode # "dry", NEW u \in Target \ r.todo,
                        r.phase \in {"create", "add"} => u # r.to
                 PROVE  IdsOf(r, u) = {} \/ Filed(r, u)
    BY DEF FiledSoFar
  <2>2. CASE u = t
    BY <1>2, <2>1, <2>2
  <2>3. CASE u # t
    <3>1. u \in Target \ job[j].todo /\ ~job[j].failed
      BY <2>1, <2>3
    <3>2. IdsOf(job[j], u) = {} \/ Filed(job[j], u)
      BY <1>1, <1>2, <2>1, <3>1 DEF Good, FiledSoFar, Filling
    <3>3. QED
      BY <1>2, <3>2
  <2>4. QED
    BY <2>2, <2>3
<1>8. Good(r)'
  <2>1. Grown
    BY DEF Grown
  <2>2. QED
    BY <1>4, <1>5, <1>6, <1>7, <2>1, GrownLemma DEF Good
<1>9. /\ Shown' /\ Running(j) /\ (r.phase = "create" => Called(r.to) = {})
      /\ manifest' \in Device \cup {None} /\ assets \subseteq assets'
      /\ assets' \in SUBSET Asset
  BY <1>1 DEF Shown, Running, Ended
<1>10. QED
  BY <1>2, <1>8, <1>9, StepLemma

LEMMA FindAlbumLemma ==
  ASSUME IInv, NEW j \in DOMAIN job, FindAlbum(j)
  PROVE  IInv'
<1>1. /\ job[j] \in Job /\ Good(job[j])
      /\ Fault => faults' \in 0 .. Faults
      /\ Sound => faults' \in 0 .. Faults
  BY FactsLemma
<1>2. /\ job[j].phase = "albums" /\ job[j].todo # {}
      /\ UNCHANGED <<device, once, manifest, assets, album, overlap, edits>>
  BY DEF FindAlbum, server
<1>3. PICK t \in job[j].todo : t = IF All \in job[j].todo THEN All ELSE First(job[j].todo)
  BY <1>2, FirstLemma
<1>4. t \in Target /\ job[j].todo \ {t} \in SUBSET Target
  BY <1>1, JobLemma
<1>5. \/ Sound /\ Ids(j, t) # {} /\ ToAlbum(j, t)
      \/ Sound /\ Ids(j, t) = {} /\ job' = [job EXCEPT ![j].todo = @ \ {t}]
      \/ Fault /\ Ids(j, t) # {} /\ job' = [AlbumFailed(j) EXCEPT ![j].todo = @ \ {t}]
  BY <1>3 DEF FindAlbum
<1>6. faults' \in 0 .. Faults
  BY <1>1, <1>5
<1>7. /\ job \in Seq(Job) /\ DOMAIN job = 1 .. Len(job) /\ DOMAIN album = 1 .. Len(album)
      /\ Len(album) \in Nat
  BY TypesLemma DEF IInv
<1>8. "create" \in Phase /\ "add" \in Phase
  BY DEF Phase
<1>9. CASE ToAlbum(j, t) /\ Called(t) = {}
  <2>1. PICK x : x = [job[j] EXCEPT !.to = t]
    OBVIOUS
  <2>2. PICK y : y = [x EXCEPT !.phase = "create"]
    OBVIOUS
  <2>3. PICK r : r = [y EXCEPT !.todo = job[j].todo \ {t}]
    OBVIOUS
  <2>4. EnsureAlbum(j, t) = [job EXCEPT ![j] = y]
    BY <1>7, <1>9, <2>1, <2>2, FieldLemma DEF EnsureAlbum
  <2>5. x \in Job /\ Same(job[j], x) /\ x.todo = job[j].todo /\ x.failed = job[j].failed /\ x.to = t
    BY <1>1, <1>4, <2>1 DEF Job, Same
  <2>6. /\ y \in Job /\ Same(job[j], y) /\ y.todo = job[j].todo /\ y.failed = job[j].failed
        /\ y.to = t /\ y.phase = "create"
    BY <1>8, <2>2, <2>5 DEF Job, Same
  <2>7. job' = [job EXCEPT ![j] = r]
    BY <1>7, <1>9, <2>3, <2>4, <2>6, FieldLemma DEF ToAlbum
  <2>8. /\ r \in Job /\ Same(job[j], r) /\ r.todo = job[j].todo \ {t}
        /\ r.failed = job[j].failed /\ r.to = t /\ r.phase = "create"
    BY <1>4, <2>3, <2>6 DEF Job, Same
  <2>9. QED
    BY <1>2, <1>6, <1>9, <2>7, <2>8, FilingLemma
<1>10. CASE ToAlbum(j, t) /\ Called(t) # {}
  <2>1. PICK i : i = CHOOSE l \in Called(t) : \A k \in Called(t) : l <= k
    OBVIOUS
  <2>2. i \in Called(t) /\ i \in Nat
    <3>1. Called(t) \in SUBSET Nat
      BY <1>7 DEF Called
    <3>2. i \in Called(t)
      BY <1>10, <2>1, <3>1, LeastLemma
    <3>3. QED
      BY <3>1, <3>2
  <2>3. PICK x : x = [job[j] EXCEPT !.to = t]
    OBVIOUS
  <2>4. PICK y : y = [x EXCEPT !.phase = "add"]
    OBVIOUS
  <2>5. PICK z : z = [y EXCEPT !.into = i]
    OBVIOUS
  <2>6. PICK r : r = [z EXCEPT !.todo = job[j].todo \ {t}]
    OBVIOUS
  <2>7. EnsureAlbum(j, t) = [job EXCEPT ![j] = z]
    <3>1. EnsureAlbum(j, t) = [[[job EXCEPT ![j].to = t] EXCEPT ![j].phase = "add"]
                                 EXCEPT ![j].into = i]
      BY <1>10, <2>1 DEF EnsureAlbum
    <3>2. [job EXCEPT ![j].to = t] = [job EXCEPT ![j] = x]
      BY <2>3
    <3>3. [[job EXCEPT ![j] = x] EXCEPT ![j].phase = "add"] = [job EXCEPT ![j] = y]
      BY <2>4, FieldLemma
    <3>4. [[job EXCEPT ![j] = y] EXCEPT ![j].into = i] = [job EXCEPT ![j] = z]
      BY <2>5, FieldLemma
    <3>5. QED
      BY <3>1, <3>2, <3>3, <3>4
  <2>8. x \in Job /\ Same(job[j], x) /\ x.todo = job[j].todo /\ x.failed = job[j].failed /\ x.to = t
    BY <1>1, <1>4, <2>3 DEF Job, Same
  <2>9. /\ y \in Job /\ Same(job[j], y) /\ y.todo = job[j].todo /\ y.failed = job[j].failed
        /\ y.to = t /\ y.phase = "add"
    BY <1>8, <2>4, <2>8 DEF Job, Same
  <2>10. /\ z \in Job /\ Same(job[j], z) /\ z.todo = job[j].todo /\ z.failed = job[j].failed
         /\ z.to = t /\ z.phase = "add" /\ z.into = i
    BY <2>2, <2>5, <2>9 DEF Job, Same
  <2>11. job' = [job EXCEPT ![j] = r]
    BY <1>7, <1>10, <2>6, <2>7, <2>10, FieldLemma DEF ToAlbum
  <2>12. /\ r \in Job /\ Same(job[j], r) /\ r.todo = job[j].todo \ {t}
         /\ r.failed = job[j].failed /\ r.to = t /\ r.phase = "add" /\ r.into = i
    BY <1>4, <2>6, <2>10 DEF Job, Same
  <2>13. QED
    BY <1>2, <1>6, <2>2, <2>11, <2>12, FilingLemma
<1>11. CASE Ids(j, t) = {} /\ job' = [job EXCEPT ![j].todo = @ \ {t}]
  <2>1. PICK r : r = [job[j] EXCEPT !.todo = job[j].todo \ {t}]
    OBVIOUS
  <2>2. job' = [job EXCEPT ![j] = r]
    BY <1>11, <2>1
  <2>3. /\ r \in Job /\ Same(job[j], r) /\ r.todo = job[j].todo \ {t}
        /\ r.failed = job[j].failed /\ r.phase = "albums"
    BY <1>1, <1>2, <1>4, <2>1 DEF Job, Same
  <2>4. IdsOf(job[j], t) = {}
    BY <1>11 DEF Ids, IdsOf
  <2>5. QED
    BY <1>2, <1>6, <2>2, <2>3, <2>4, FilingLemma
<1>12. CASE job' = [AlbumFailed(j) EXCEPT ![j].todo = @ \ {t}]
  <2>1. PICK x : x = LeftAlbum(job[j])
    OBVIOUS
  <2>2. AlbumFailed(j) = [job EXCEPT ![j] = [x EXCEPT !.failed = TRUE]]
    BY <1>7, <2>1, LeftLemma
  <2>3. x \in Job /\ Same(job[j], x) /\ x.phase = "albums" /\ x.todo = job[j].todo
    <3>1. Same(job[j], x) /\ x.phase = "albums" /\ x.todo = job[j].todo
      BY <1>1, <2>1, LeftLemma
    <3>2. QED
      BY <3>1 DEF Same
  <2>4. PICK y : y = [x EXCEPT !.failed = TRUE]
    OBVIOUS
  <2>5. y \in Job /\ Same(job[j], y) /\ y.phase = "albums" /\ y.todo = job[j].todo /\ y.failed
    BY <2>3, <2>4 DEF Job, Same
  <2>6. PICK r : r = [y EXCEPT !.todo = job[j].todo \ {t}]
    OBVIOUS
  <2>7. r \in Job /\ Same(job[j], r) /\ r.phase = "albums" /\ r.todo = job[j].todo \ {t} /\ r.failed
    BY <1>4, <2>5, <2>6 DEF Job, Same
  <2>8. job' = [job EXCEPT ![j] = r]
    BY <1>7, <1>12, <2>2, <2>4, <2>5, <2>6, FieldLemma
  <2>9. QED
    BY <1>2, <1>6, <2>7, <2>8, FilingLemma
<1>13. QED
  BY <1>5, <1>9, <1>10, <1>11, <1>12

(* A step that changes an album, by the one job that may when no two have  *)
(* run at once.                                                            *)
LEMMA AlbumLemma ==
  ASSUME IInv, NEW j \in DOMAIN job, Running(j), NEW r \in Job, Good(r)',
         job' = [job EXCEPT ![j] = r], Same(job[j], r), r.mode # "dry", r.phase # "create",
         album' \in Seq(ShelfOf(assets)), Grown, MirrorsFolders',
         ~overlap => \A i, k \in DOMAIN album' : album'[i].name = album'[k].name => i = k,
         UNCHANGED <<device, once, manifest, assets, overlap, edits>>,
         faults' \in 0 .. Faults
  PROVE  IInv'
<1>1. TypeOK /\ Shown /\ AllGood /\ Alone
  BY DEF IInv
<1>2. /\ job' \in Seq(Job) /\ Len(job') = Len(job) /\ DOMAIN job' = DOMAIN job
      /\ job'[j] = r /\ \A k \in DOMAIN job \ {j} : job'[k] = job[k]
      /\ AllGood'
      /\ \A k \in DOMAIN job' : job'[k].phase = "add" => job'[k].into \in DOMAIN album'
  BY <1>1, OneJobLemma
<1>3. album' \in Seq(ShelfOf(assets)')
  BY DEF ShelfOf
<1>4. TypeOK'
  BY <1>1, <1>2, <1>3 DEF TypeOK, ShelfOf
<1>5. Shown'
  BY <1>1 DEF Shown
<1>6. Alone'
  <2>1. SUFFICES ASSUME ~overlap
                 PROVE  Alone'
    BY DEF Alone
  <2>2. \A k, l \in DOMAIN job : Makes(k) /\ Makes(l) => k = l
    BY <1>1, <2>1 DEF Alone
  <2>3. r.mode = job[j].mode /\ Makes(j)
    BY DEF Same, Makes
  <2>4. \A k \in DOMAIN job : Makes(k)' => Makes(k)
    BY <1>2, <2>3 DEF Makes, Running
  <2>5. ASSUME NEW k \in DOMAIN job', job'[k].phase = "create"
        PROVE  FALSE
    <3>1. k \in DOMAIN job /\ k # j /\ job'[k] = job[k]
      BY <1>2, <2>5
    <3>2. Good(job[k])
      BY <1>1, <3>1 DEF AllGood
    <3>3. Makes(k)
      BY <2>5, <3>1, <3>2 DEF Good, OnCourse, Makes, Running, Ended
    <3>4. QED
      BY <2>2, <2>3, <3>1, <3>3
  <2>6. \A k, l \in DOMAIN job' : Makes(k)' /\ Makes(l)' => k = l
    BY <1>2, <2>2, <2>4
  <2>7. \A i, k \in DOMAIN album' : album'[i].name = album'[k].name => i = k
    BY <2>1
  <2>8. QED
    BY <2>5, <2>6, <2>7 DEF Alone
<1>7. QED
  BY <1>2, <1>4, <1>5, <1>6 DEF IInv

(* What a job matched for a folder belongs to photos that it held.         *)
LEMMA IdsLemma ==
  ASSUME NEW q \in Job, Honest(q), NEW t \in Target
  PROVE  /\ IdsOf(q, t) \subseteq assets
         /\ t \in Folder \ {All} => IdsOf(q, t) \subseteq UNION {Answers(n) : n \in once[t]}
<1>1. \A n \in q.plan[t] : n \in Name
  BY JobLemma
<1>2. IdsOf(q, t) \subseteq assets
  BY <1>1 DEF IdsOf, Honest
<1>3. ASSUME t \in Folder \ {All}, NEW a \in IdsOf(q, t)
      PROVE  a \in UNION {Answers(n) : n \in once[t]}
  <2>1. PICK n \in q.plan[t] : a = q.ids[n] /\ a # None
    BY DEF IdsOf
  <2>2. n \in once[t] /\ a \in Answers(n)
    BY <1>1, <1>3, <2>1 DEF Honest
  <2>3. QED
    BY <2>2
<1>4. QED
  BY <1>2, <1>3

(* What the job gives up for goes on record as a failure.                  *)
LEMMA GivenUpLemma ==
  ASSUME NEW j \in DOMAIN job, job[j] \in Job, Good(job[j]),
         job[j].phase \in {"create", "add"}, NEW r,
         r = [LeftAlbum(job[j]) EXCEPT !.failed = TRUE]
  PROVE  /\ r \in Job /\ Same(job[j], r) /\ r.phase = "albums" /\ r.failed
         /\ Good(r)
<1>1. PICK q : q = LeftAlbum(job[j])
  OBVIOUS
<1>2. Same(job[j], q) /\ q.phase = "albums"
  BY <1>1, LeftLemma
<1>3. r = [q EXCEPT !.failed = TRUE] /\ q \in Job
  BY <1>1, <1>2 DEF Same
<1>4. r \in Job /\ Same(job[j], r) /\ r.phase = "albums" /\ r.failed
  BY <1>2, <1>3 DEF Job, Same
<1>5. Honest(r)
  BY <1>4 DEF Good, Honest, Same
<1>6. OnCourse(r)
  BY <1>4 DEF Good, OnCourse, Same
<1>7. Matching(r) /\ FiledSoFar(r)
  BY <1>4 DEF Matching, FiledSoFar
<1>8. QED
  BY <1>4, <1>5, <1>6, <1>7 DEF Good

LEMMA CreateAlbumLemma ==
  ASSUME IInv, NEW j \in DOMAIN job, CreateAlbum(j)
  PROVE  IInv'
<1>1. /\ job[j] \in Job /\ Good(job[j])
      /\ Fault => faults' \in 0 .. Faults
      /\ Sound => faults' \in 0 .. Faults
  BY FactsLemma
<1>2. /\ job[j].phase = "create"
      /\ UNCHANGED <<device, once, manifest, assets, overlap, edits>>
  BY DEF CreateAlbum
<1>3. /\ job[j].mode # "dry" /\ job[j].to \in Target /\ Running(j)
  BY <1>1, <1>2 DEF Good, OnCourse, Running, Ended
<1>4. /\ album \in Seq(ShelfOf(assets)) /\ Len(album) \in Nat /\ DOMAIN album = 1 .. Len(album)
      /\ MirrorsFolders /\ Alone /\ job \in Seq(Job)
  BY TypesLemma DEF IInv
<1>5. PICK new \in ShelfOf(assets) : new = [name |-> job[j].to, members |-> {}]
  BY <1>3 DEF ShelfOf
<1>6. PICK created : created = Append(album, new)
  OBVIOUS
<1>7. /\ created \in Seq(ShelfOf(assets)) /\ Len(created) = Len(album) + 1
      /\ DOMAIN created = DOMAIN album \cup {Len(album) + 1}
      /\ Len(album) + 1 \notin DOMAIN album
      /\ \A i \in DOMAIN album : created[i] = album[i]
      /\ created[Len(album) + 1] = new
  BY <1>4, <1>6
<1>8. \/ /\ Sound /\ album' = created
         /\ job' = [job EXCEPT ![j].phase = "add", ![j].into = Len(created)]
      \/ Fault /\ album' \in {album, created} /\ job' = AlbumFailed(j)
  BY <1>5, <1>6 DEF CreateAlbum
<1>9. faults' \in 0 .. Faults /\ album' \in {album, created}
  BY <1>1, <1>8
<1>10. /\ album' \in Seq(ShelfOf(assets)) /\ Grown
  <2>1. CASE album' = album
    BY <1>2, <1>4, <2>1 DEF Grown
  <2>2. CASE album' = created
    BY <1>2, <1>7, <2>2 DEF Grown
  <2>3. QED
    BY <1>9, <2>1, <2>2
<1>11. MirrorsFolders'
  <2>1. CASE album' = album
    BY <1>2, <1>4, <2>1 DEF MirrorsFolders, Answers
  <2>2. CASE album' = created
    <3>1. ASSUME NEW i \in DOMAIN created, created[i].name \in Folder \ {All}
          PROVE  created[i].members \subseteq UNION {Answers(n) : n \in once[created[i].name]}
      <4>1. CASE i = Len(album) + 1
        BY <1>5, <1>7, <4>1
      <4>2. CASE i \in DOMAIN album
        BY <1>4, <1>7, <3>1, <4>2 DEF MirrorsFolders
      <4>3. QED
        BY <1>7, <4>1, <4>2
    <3>2. QED
      BY <1>2, <2>2, <3>1 DEF MirrorsFolders, Answers
  <2>3. QED
    BY <1>9, <2>1, <2>2
<1>12. ASSUME ~overlap
       PROVE  \A i, k \in DOMAIN album' : album'[i].name = album'[k].name => i = k
  <2>1. /\ \A i, k \in DOMAIN album : album[i].name = album[k].name => i = k
        /\ Called(job[j].to) = {}
    BY <1>2, <1>4, <1>12 DEF Alone
  <2>2. \A i \in DOMAIN album : album[i].name # job[j].to
    BY <2>1 DEF Called
  <2>3. CASE album' = album
    BY <2>1, <2>3
  <2>4. CASE album' = created
    <3>1. PICK n : n = Len(album) + 1
      OBVIOUS
    <3>2. /\ DOMAIN created = DOMAIN album \cup {n} /\ created[n].name = job[j].to
          /\ \A i \in DOMAIN album : created[i] = album[i]
      BY <1>5, <1>7, <3>1
    <3>3. QED
      BY <2>1, <2>2, <2>4, <3>2
  <2>5. QED
    BY <1>9, <2>3, <2>4
<1>13. CASE /\ album' = created
            /\ job' = [job EXCEPT ![j].phase = "add", ![j].into = Len(created)]
  <2>1. PICK x : x = [job[j] EXCEPT !.phase = "add"]
    OBVIOUS
  <2>2. PICK n \in Nat : n = Len(created)
    BY <1>4, <1>7
  <2>3. PICK r : r = [x EXCEPT !.into = n]
    OBVIOUS
  <2>4. job' = [job EXCEPT ![j] = r]
    <3>1. job' = [[job EXCEPT ![j].phase = "add"] EXCEPT ![j].into = n]
      BY <1>13, <2>2
    <3>2. [job EXCEPT ![j].phase = "add"] = [job EXCEPT ![j] = x]
      BY <2>1
    <3>3. [[job EXCEPT ![j] = x] EXCEPT ![j].into = n] = [job EXCEPT ![j] = r]
      BY <2>3, FieldLemma
    <3>4. QED
      BY <3>1, <3>2, <3>3
  <2>5. /\ x \in Job /\ Same(job[j], x) /\ x.phase = "add" /\ x.to = job[j].to
        /\ x.todo = job[j].todo /\ x.failed = job[j].failed
    <3>1. "add" \in Phase
      BY DEF Phase
    <3>2. QED
      BY <1>1, <2>1, <3>1 DEF Job, Same
  <2>6. /\ r \in Job /\ Same(job[j], r) /\ r.phase = "add" /\ r.to = job[j].to
        /\ r.todo = job[j].todo /\ r.failed = job[j].failed /\ r.into = n
    BY <2>3, <2>5 DEF Job, Same
  <2>7. Honest(r) /\ Matching(r)
    BY <1>1, <2>6 DEF Good, Honest, Matching, Same
  <2>8. FiledSoFar(r)
    BY <1>1, <1>2, <2>6 DEF Good, FiledSoFar, Filling, Filed, IdsOf, Same
  <2>9. OnCourse(r)'
    <3>1. n \in DOMAIN album' /\ album'[n].name = r.to
      BY <1>5, <1>7, <1>13, <2>2, <2>6
    <3>2. QED
      BY <1>1, <1>2, <1>3, <2>6, <3>1 DEF Good, OnCourse, Same
  <2>10. Good(r)'
    BY <1>10, <2>6, <2>7, <2>8, <2>9, GrownLemma DEF Good
  <2>11. r.mode # "dry" /\ r.phase # "create"
    BY <1>3, <2>6 DEF Same
  <2>12. QED
    BY <1>2, <1>3, <1>9, <1>10, <1>11, <1>12, <2>4, <2>6, <2>10, <2>11, AlbumLemma
<1>14. CASE job' = AlbumFailed(j)
  <2>1. PICK r : r = [LeftAlbum(job[j]) EXCEPT !.failed = TRUE]
    OBVIOUS
  <2>2. r \in Job /\ Same(job[j], r) /\ r.phase = "albums" /\ r.failed /\ Good(r)
    BY <1>1, <1>2, <2>1, GivenUpLemma
  <2>3. job' = [job EXCEPT ![j] = r]
    BY <1>1, <1>14, <2>1, LeftLemma
  <2>4. Good(r)'
    BY <1>10, <2>2, GrownLemma DEF Good
  <2>5. r.mode # "dry" /\ r.phase # "create"
    BY <1>3, <2>2 DEF Same
  <2>6. QED
    BY <1>2, <1>3, <1>9, <1>10, <1>11, <1>12, <2>2, <2>3, <2>4, <2>5, AlbumLemma
<1>15. QED
  BY <1>8, <1>13, <1>14

LEMMA AddAssetsLemma ==
  ASSUME IInv, NEW j \in DOMAIN job, AddAssets(j)
  PROVE  IInv'
<1>1. /\ job[j] \in Job /\ Good(job[j])
      /\ Fault => faults' \in 0 .. Faults
      /\ Sound => faults' \in 0 .. Faults
  BY FactsLemma
<1>2. /\ job[j].phase = "add"
      /\ UNCHANGED <<device, once, manifest, assets, overlap, edits>>
  BY DEF AddAssets
<1>3. PICK i \in DOMAIN album, t \in Target :
        i = job[j].into /\ t = job[j].to /\ album[i].name = t
  BY <1>1, <1>2 DEF Good, OnCourse
<1>4. job[j].mode # "dry" /\ Running(j)
  BY <1>1, <1>2 DEF Good, OnCourse, Running, Ended
<1>5. /\ album \in Seq(ShelfOf(assets)) /\ Len(album) \in Nat /\ DOMAIN album = 1 .. Len(album)
      /\ \A k \in DOMAIN album : album[k] \in ShelfOf(assets)
      /\ MirrorsFolders /\ Alone /\ job \in Seq(Job)
  BY TypesLemma DEF IInv
<1>6. Ids(j, t) = IdsOf(job[j], t)
  BY DEF Ids, IdsOf
<1>7. /\ IdsOf(job[j], t) \subseteq assets
      /\ t \in Folder \ {All} =>
           IdsOf(job[j], t) \subseteq UNION {Answers(n) : n \in once[t]}
  BY <1>1, IdsLemma DEF Good
<1>8. PICK S \in SUBSET IdsOf(job[j], t) :
        /\ album' = [album EXCEPT ![i].members = @ \cup S]
        /\ \/ Sound /\ S = IdsOf(job[j], t) /\ job' = AlbumDone(j)
           \/ Fault /\ job' = AlbumFailed(j)
  BY <1>3, <1>6 DEF AddAssets
<1>9. faults' \in 0 .. Faults
  BY <1>1, <1>8
<1>10. /\ album' \in Seq(ShelfOf(assets)) /\ DOMAIN album' = DOMAIN album
       /\ album'[i].name = album[i].name /\ album'[i].members = album[i].members \cup S
       /\ \A k \in DOMAIN album \ {i} : album'[k] = album[k]
  <2>1. PICK x : x = [album[i] EXCEPT !.members = @ \cup S]
    OBVIOUS
  <2>2. album' = [album EXCEPT ![i] = x]
    BY <1>8, <2>1
  <2>3. album[i] \in ShelfOf(assets)
    BY <1>5
  <2>4. x \in ShelfOf(assets) /\ x.name = album[i].name /\ x.members = album[i].members \cup S
    BY <1>7, <1>8, <2>1, <2>3 DEF ShelfOf
  <2>5. QED
    BY <1>5, <2>2, <2>4
<1>11. Grown
  BY <1>2, <1>10 DEF Grown
<1>12. MirrorsFolders'
  <2>1. ASSUME NEW k \in DOMAIN album', album'[k].name \in Folder \ {All}
        PROVE  album'[k].members \subseteq UNION {Answers(n) : n \in once[album'[k].name]}
    <3>1. /\ k \in DOMAIN album /\ album'[k].name = album[k].name
          /\ album[k].members \subseteq UNION {Answers(n) : n \in once[album[k].name]}
      BY <1>5, <1>10, <2>1 DEF MirrorsFolders
    <3>2. CASE k = i
      <4>1. S \subseteq UNION {Answers(n) : n \in once[t]}
        BY <1>3, <1>7, <2>1, <3>1, <3>2
      <4>2. QED
        BY <1>3, <1>10, <3>1, <3>2, <4>1
    <3>3. CASE k # i
      BY <1>10, <3>1, <3>3
    <3>4. QED
      BY <3>2, <3>3
  <2>2. QED
    BY <1>2, <2>1 DEF MirrorsFolders, Answers
<1>13. ASSUME ~overlap
       PROVE  \A k, l \in DOMAIN album' : album'[k].name = album'[l].name => k = l
  <2>1. \A k, l \in DOMAIN album : album[k].name = album[l].name => k = l
    BY <1>5, <1>13 DEF Alone
  <2>2. \A k \in DOMAIN album : album'[k].name = album[k].name
    BY <1>10
  <2>3. QED
    BY <1>10, <2>1, <2>2
<1>14. CASE S = IdsOf(job[j], t) /\ job' = AlbumDone(j)
  <2>1. PICK r : r = LeftAlbum(job[j])
    OBVIOUS
  <2>2. /\ Same(job[j], r) /\ r.phase = "albums" /\ r.todo = job[j].todo
        /\ r.failed = job[j].failed /\ job' = [job EXCEPT ![j] = r]
    BY <1>1, <1>14, <2>1, LeftLemma
  <2>3. r \in Job /\ r.mode # "dry" /\ r.phase # "create"
    BY <1>4, <2>2 DEF Same
  <2>4. Honest(r) /\ OnCourse(r) /\ Matching(r)
    BY <1>1, <1>2, <1>4, <2>2 DEF Good, Honest, OnCourse, Matching, Same
  <2>5. \A u : IdsOf(r, u) = IdsOf(job[j], u)
    BY <2>2 DEF Same, IdsOf
  <2>6. Filed(r, t)'
    <3>1. i \in Called(t)'
      BY <1>3, <1>10 DEF Called
    <3>2. IdsOf(r, t) \subseteq album'[i].members
      BY <1>10, <1>14, <2>5
    <3>3. QED
      BY <3>1, <3>2 DEF Filed, IdsOf
  <2>7. \A u \in Target : Filed(job[j], u) => Filed(r, u)'
    <3>1. SUFFICES ASSUME NEW u \in Target, NEW k \in Called(u),
                          IdsOf(job[j], u) \subseteq album[k].members
                   PROVE  k \in Called(u)' /\ IdsOf(r, u) \subseteq album'[k].members
      BY DEF Filed, IdsOf
    <3>2. k \in DOMAIN album /\ album[k].name = u
      BY DEF Called
    <3>3. k \in DOMAIN album' /\ album'[k].name = u /\ album[k].members \subseteq album'[k].members
      BY <1>11, <3>2 DEF Grown
    <3>4. QED
      BY <2>5, <3>1, <3>3 DEF Called
  <2>8. FiledSoFar(r)'
    <3>1. SUFFICES ASSUME ~r.failed, NEW u \in Target \ r.todo
                   PROVE  IdsOf(r, u) = {} \/ Filed(r, u)'
      BY DEF FiledSoFar, IdsOf
    <3>2. CASE u = t
      BY <2>6, <3>2
    <3>3. CASE u # t
      <4>1. IdsOf(job[j], u) = {} \/ Filed(job[j], u)
        BY <1>1, <1>2, <1>3, <1>4, <2>2, <3>1, <3>3 DEF Good, FiledSoFar, Filling
      <4>2. QED
        BY <2>5, <2>7, <4>1
    <3>4. QED
      BY <3>2, <3>3
  <2>9. Good(r)'
    BY <1>11, <2>3, <2>4, <2>8, GrownLemma DEF Good
  <2>10. QED
    BY <1>2, <1>4, <1>9, <1>10, <1>11, <1>12, <1>13, <2>2, <2>3, <2>9, AlbumLemma
<1>15. CASE job' = AlbumFailed(j)
  <2>1. PICK r : r = [LeftAlbum(job[j]) EXCEPT !.failed = TRUE]
    OBVIOUS
  <2>2. r \in Job /\ Same(job[j], r) /\ r.phase = "albums" /\ r.failed /\ Good(r)
    BY <1>1, <1>2, <2>1, GivenUpLemma
  <2>3. job' = [job EXCEPT ![j] = r]
    BY <1>1, <1>15, <2>1, LeftLemma
  <2>4. Good(r)'
    BY <1>11, <2>2, GrownLemma DEF Good
  <2>5. r.mode # "dry" /\ r.phase # "create"
    BY <1>4, <2>2 DEF Same
  <2>6. QED
    BY <1>2, <1>4, <1>9, <1>10, <1>11, <1>12, <1>13, <2>2, <2>3, <2>4, <2>5, AlbumLemma
<1>16. QED
  BY <1>8, <1>14, <1>15

LEMMA FinishLemma ==
  ASSUME IInv, NEW j \in DOMAIN job, Finish(j)
  PROVE  IInv'
<1>1. /\ job[j] \in Job /\ Good(job[j]) /\ Shown /\ manifest \in Device \cup {None}
      /\ assets \in SUBSET Asset /\ faults \in 0 .. Faults
  BY FactsLemma
<1>2. /\ job[j].phase = "albums" /\ job[j].todo = {}
      /\ UNCHANGED <<device, once, manifest, assets, album, overlap, faults, edits>>
  BY DEF Finish, server
<1>3. PICK r : r = [job[j] EXCEPT !.phase = "done"]
  OBVIOUS
<1>4. job' = [job EXCEPT ![j] = r]
  BY <1>3 DEF Finish
<1>5. /\ r \in Job /\ Same(job[j], r) /\ r.phase = "done" /\ r.todo = job[j].todo
      /\ r.failed = job[j].failed
  <2>1. "done" \in Phase
    BY DEF Phase, Ended
  <2>2. QED
    BY <1>1, <1>3, <2>1 DEF Job, Same
<1>6. Good(r)
  <2>1. Honest(r) /\ OnCourse(r) /\ Matching(r)
    BY <1>1, <1>2, <1>5 DEF Good, Honest, OnCourse, Matching, Same
  <2>2. FiledSoFar(r)
    BY <1>1, <1>2, <1>5 DEF Good, FiledSoFar, Filling, Filed, IdsOf, Same
  <2>3. QED
    BY <2>1, <2>2 DEF Good
<1>7. Good(r)'
  <2>1. Grown
    BY <1>2 DEF Grown
  <2>2. QED
    BY <1>5, <1>6, <2>1, GrownLemma DEF Good
<1>8. /\ Shown' /\ Running(j) /\ (r.phase = "create" => Called(r.to) = {})
      /\ manifest' \in Device \cup {None} /\ assets \subseteq assets'
      /\ assets' \in SUBSET Asset /\ faults' \in 0 .. Faults
  BY <1>1, <1>2, <1>5 DEF Shown, Running, Ended
<1>9. r.mode = job[j].mode
  BY <1>5 DEF Same
<1>10. QED
  BY <1>2, <1>4, <1>5, <1>7, <1>8, <1>9, StepLemma

-----------------------------------------------------------------------------
(* The process dies; the user moves files.                                 *)

LEMMA CrashLemma ==
  ASSUME IInv, Crash
  PROVE  IInv'
<1>1. /\ TypeOK /\ Shown /\ AllGood /\ MirrorsFolders /\ Alone
      /\ job \in Seq(Job) /\ Len(job) \in Nat /\ DOMAIN job = 1 .. Len(job)
      /\ \A k \in DOMAIN job : job[k] \in Job
  BY TypesLemma DEF IInv
<1>2. /\ job' = [j \in DOMAIN job |-> IF Running(j) THEN Over(j, "gone") ELSE job[j]]
      /\ UNCHANGED <<device, once, manifest, assets, album, overlap, edits>>
      /\ faults' \in 0 .. Faults
  BY <1>1, ImportAssumption DEF Crash, server, Fault, TypeOK
<1>3. ASSUME NEW k \in DOMAIN job
      PROVE  job'[k] \in Job /\ job'[k].phase \in Ended /\ Good(job'[k])
  <2>1. PICK r : r = job'[k]
    OBVIOUS
  <2>2. CASE Running(k)
    <3>1. r = [NewJob(job[k].mode) EXCEPT !.phase = "gone"]
      BY <1>2, <2>1, <2>2 DEF Over
    <3>2. job[k].mode \in {"import", "link", "dry"}
      BY <1>1, JobLemma
    <3>3. r.phase = "gone"
      BY <3>1 DEF NewJob
    <3>4. r \in Job /\ Good(r)
      BY <3>1, <3>2, NewJobLemma
    <3>5. QED
      BY <2>1, <3>3, <3>4 DEF Ended
  <2>3. CASE ~Running(k)
    BY <1>1, <1>2, <2>3 DEF Running, AllGood
  <2>4. QED
    BY <2>2, <2>3
<1>4. job' \in Seq(Job) /\ Len(job') = Len(job) /\ DOMAIN job' = DOMAIN job
  <2>1. job' \in [1 .. Len(job) -> Job]
    BY <1>1, <1>2, <1>3
  <2>2. QED
    BY <1>1, <2>1, SequenceLemma
<1>5. AllGood'
  <2>1. ASSUME NEW k \in DOMAIN job'
        PROVE  Good(job[k])'
    <3>1. PICK q \in Job : q = job'[k]
      BY <1>3, <1>4
    <3>2. Good(q)
      BY <1>3, <1>4, <3>1
    <3>3. Grown
      BY <1>2 DEF Grown
    <3>4. Good(q)'
      BY <3>2, <3>3, GrownLemma DEF Good
    <3>5. QED
      BY <3>1, <3>4 DEF Good, Honest, OnCourse, Matching, FiledSoFar, Filed, IdsOf
  <2>2. QED
    BY <2>1 DEF AllGood
<1>6. TypeOK'
  <2>1. \A k \in DOMAIN job' : job'[k].phase = "add" => job'[k].into \in DOMAIN album'
    BY <1>3, <1>4 DEF Ended
  <2>2. QED
    BY <1>1, <1>2, <1>4, <2>1 DEF TypeOK
<1>7. Shown' /\ MirrorsFolders'
  BY <1>1, <1>2 DEF Shown, MirrorsFolders, Answers
<1>8. Alone'
  <2>1. SUFFICES ASSUME ~overlap
                 PROVE  Alone'
    BY <1>2 DEF Alone
  <2>2. \A i, k \in DOMAIN album' : album'[i].name = album'[k].name => i = k
    BY <1>1, <1>2, <2>1 DEF Alone
  <2>3. \A k \in DOMAIN job' : ~Makes(k)' /\ job'[k].phase # "create"
    BY <1>3, <1>4 DEF Makes, Running, Ended
  <2>4. QED
    BY <2>2, <2>3 DEF Alone
<1>9. QED
  BY <1>5, <1>6, <1>7, <1>8 DEF IInv

LEMMA RearrangeLemma ==
  ASSUME IInv, Rearrange
  PROVE  IInv'
<1>1. /\ TypeOK /\ Shown /\ AllGood /\ MirrorsFolders /\ Alone
      /\ \A k \in DOMAIN job : job[k] \in Job
  BY TypesLemma DEF IInv
<1>2. /\ edits' \in 0 .. Edits
      /\ once' = [f \in Folder |-> once[f] \cup (device'[f] \ Owned)]
      /\ UNCHANGED <<manifest, assets, album, job, overlap, faults>>
  BY <1>1, ImportAssumption DEF Rearrange, server, TypeOK
<1>3. device' \in Device
  <2>1. device \in Device
    BY <1>1 DEF TypeOK
  <2>2. PICK n \in Everything(device) :
          \/ \E f \in Folder : device' = [device EXCEPT ![f] =
                                            IF n \in @ THEN @ \ {n} ELSE @ \cup {n}]
          \/ device' = [a \in DOMAIN device |-> device[a] \ {n}]
    BY DEF Rearrange
  <2>3. n \in Name
    BY <2>1, <2>2 DEF Everything, Device
  <2>4. QED
    BY <2>1, <2>2, <2>3 DEF Device
<1>4. /\ once' \in [Folder -> SUBSET Name]
      /\ \A f \in Folder : once[f] \subseteq once'[f] /\ device'[f] \ Owned \subseteq once'[f]
  BY <1>1, <1>2, <1>3 DEF TypeOK, Device
<1>5. Grown
  BY <1>2, <1>4 DEF Grown
<1>6. AllGood'
  <2>1. ASSUME NEW k \in DOMAIN job'
        PROVE  Good(job[k])'
    <3>1. PICK q \in Job : q = job[k] /\ q = job'[k]
      BY <1>1, <1>2
    <3>2. Good(q)
      BY <1>1, <1>2, <3>1 DEF AllGood
    <3>3. Good(q)'
      BY <1>5, <3>2, GrownLemma DEF Good
    <3>4. QED
      BY <3>1, <3>3 DEF Good, Honest, OnCourse, Matching, FiledSoFar, Filed, IdsOf
  <2>2. QED
    BY <2>1 DEF AllGood
<1>7. TypeOK'
  BY <1>1, <1>2, <1>3, <1>4 DEF TypeOK
<1>8. Shown'
  BY <1>1, <1>2, <1>4 DEF Shown
<1>9. MirrorsFolders'
  <2>1. ASSUME NEW i \in DOMAIN album, album[i].name \in Folder \ {All}
        PROVE  album[i].members \subseteq UNION {Answers(n) : n \in once'[album[i].name]}
    <3>1. album[i].members \subseteq UNION {Answers(n) : n \in once[album[i].name]}
      BY <1>1, <2>1 DEF MirrorsFolders
    <3>2. once[album[i].name] \subseteq once'[album[i].name]
      BY <1>4, <2>1
    <3>3. QED
      BY <3>1, <3>2
  <2>2. QED
    BY <1>2, <2>1 DEF MirrorsFolders, Answers
<1>10. Alone'
  BY <1>1, <1>2 DEF Alone, Makes, Running, Called
<1>11. QED
  BY <1>6, <1>7, <1>8, <1>9, <1>10 DEF IInv

-----------------------------------------------------------------------------
(* The invariant, and what follows from it.                                *)

LEMMA InitLemma ==
  ASSUME Init
  PROVE  IInv
<1>1. /\ device \in Device
      /\ \A f \in Folder : device[f] = Arranged[f]
  BY ImportAssumption DEF Init, Device
<1>2. /\ once \in [Folder -> SUBSET Name]
      /\ \A f \in Folder : once[f] = device[f] \ Owned
  BY <1>1 DEF Init, Device
<1>3. /\ DOMAIN job = {} /\ DOMAIN album = {} /\ job \in Seq(Job) /\ Len(job) = 0
      /\ album \in Seq(ShelfOf(assets))
  BY DEF Init
<1>4. TypeOK
  <2>1. manifest \in Device \cup {None} /\ assets \in SUBSET Asset /\ overlap \in BOOLEAN
    BY DEF Init, Asset
  <2>2. faults \in 0 .. Faults /\ edits \in 0 .. Edits /\ Len(job) <= Jobs
    BY <1>3, ImportAssumption DEF Init
  <2>3. album \in Seq([name : Target, members : SUBSET assets])
    BY <1>3 DEF ShelfOf
  <2>4. \A j \in DOMAIN job : job[j].phase = "add" => job[j].into \in DOMAIN album
    BY <1>3
  <2>5. QED
    BY <1>1, <1>2, <1>3, <2>1, <2>2, <2>3, <2>4 DEF TypeOK
<1>5. Shown /\ AllGood /\ MirrorsFolders /\ Alone
  BY <1>2, <1>3 DEF Shown, AllGood, MirrorsFolders, Alone, Init
<1>6. QED
  BY <1>4, <1>5 DEF IInv

LEMMA NextLemma ==
  ASSUME IInv, [Next]_vars
  PROVE  IInv'
<1>1. ASSUME NEW mode \in {"import", "link", "dry"}, Start(mode)
      PROVE  IInv'
  BY <1>1, StartLemma
<1>2. ASSUME NEW j \in DOMAIN job, Work(j)
      PROVE  IInv'
  BY <1>2, ReadManifestLemma, CopyPhotoLemma, LookUpLemma, PhotosEndLemma, SettleLemma,
     FindAlbumLemma, CreateAlbumLemma, AddAssetsLemma, FinishLemma DEF Work
<1>3. CASE Crash
  BY <1>3, CrashLemma
<1>4. CASE Rearrange
  BY <1>4, RearrangeLemma
<1>5. CASE UNCHANGED vars
  <2>1. /\ TypeOK /\ Shown /\ AllGood /\ MirrorsFolders /\ Alone
        /\ UNCHANGED <<device, once, manifest, assets, album, job, overlap, faults, edits>>
    BY <1>5 DEF IInv, vars
  <2>2. TypeOK'
    BY <2>1 DEF TypeOK
  <2>3. AllGood'
    BY <2>1 DEF AllGood, Good, Honest, OnCourse, Matching, FiledSoFar, Filed, IdsOf,
                Answers, Called
  <2>4. Shown' /\ MirrorsFolders' /\ Alone'
    BY <2>1 DEF Shown, MirrorsFolders, Answers, Alone, Makes, Running, Called
  <2>5. QED
    BY <2>2, <2>3, <2>4 DEF IInv
<1>6. QED
  BY <1>1, <1>2, <1>3, <1>4, <1>5 DEF Next

(* The invariant holds, whatever the interleaving of jobs and failures.    *)
THEOREM Inductive == FairSpec => []IInv
<1>1. Init => IInv
  BY InitLemma
<1>2. IInv /\ [Next]_vars => IInv'
  BY NextLemma
<1>3. QED
  BY <1>1, <1>2, PTL DEF FairSpec

(* Importing a frame again does not grow a second album of a name, however *)
(* the runs before it ended, unless two such jobs ran at once.             *)
THEOREM OneAlbumPerNameHolds == FairSpec => []OneAlbumPerName
<1>1. IInv => OneAlbumPerName
  BY DEF IInv, Alone, OneAlbumPerName
<1>2. QED
  BY <1>1, Inductive, PTL

(* An album holds only what belongs to photos that its folder has held.    *)
THEOREM MirrorsFoldersHolds == FairSpec => []MirrorsFolders
<1>1. IInv => MirrorsFolders
  BY DEF IInv
<1>2. QED
  BY <1>1, Inductive, PTL

(* A job without a failure has filed all that it matched, and an import    *)
(* has matched everything.                                                 *)
THEOREM CleanIsCompleteHolds == FairSpec => []CleanIsComplete
<1>1. IInv => CleanIsComplete
  <2>1. SUFFICES ASSUME IInv, NEW j \in DOMAIN job, job[j].phase = "done", ~job[j].failed
                 PROVE  /\ job[j].mode = "import" => \A n \in job[j].names : job[j].ids[n] # None
                        /\ job[j].mode # "dry" =>
                             \A t \in Target : Ids(j, t) # {} =>
                               \E i \in Called(t) : Ids(j, t) \subseteq album[i].members
    BY DEF CleanIsComplete
  <2>2. Good(job[j])
    BY <2>1, FactsLemma
  <2>3. job[j].left = {} /\ (job[j].mode # "dry" => job[j].todo = {})
    BY <2>1, <2>2 DEF Good, OnCourse
  <2>4. ASSUME job[j].mode = "import", NEW n \in job[j].names
        PROVE  job[j].ids[n] # None
    BY <2>1, <2>2, <2>3, <2>4 DEF Good, Matching
  <2>5. ASSUME job[j].mode # "dry", NEW t \in Target, Ids(j, t) # {}
        PROVE  \E i \in Called(t) : Ids(j, t) \subseteq album[i].members
    <3>1. Ids(j, t) = IdsOf(job[j], t)
      BY DEF Ids, IdsOf
    <3>2. IdsOf(job[j], t) = {} \/ Filed(job[j], t)
      BY <2>1, <2>2, <2>3, <2>5 DEF Good, FiledSoFar, Filling
    <3>3. QED
      BY <2>5, <3>1, <3>2 DEF Filed
  <2>6. QED
    BY <2>4, <2>5
<1>2. QED
  BY <1>1, Inductive, PTL
=============================================================================
