-------------------------- MODULE FrameChannel_proofs --------------------------
(***************************************************************************)
(* That the two channels of a session stay in step: what the hub takes for *)
(* an answer is the answer to what it asked, the bytes it takes for a      *)
(* photo are those of the photo, and what the frame stores is what was     *)
(* uploaded.                                                               *)
(*                                                                         *)
(* The protocol names its replies by kind only and its bytes not at all,   *)
(* so none of this can be seen in one message.  The invariant is about the *)
(* conversation as a whole: which requests and replies can be in the two   *)
(* queues of the session at each step of an operation, how the bytes that  *)
(* came, those on their way and those still to be sent continue one        *)
(* another, and which of these a session that goes on after a receipt was  *)
(* not waited for may still hold.                                          *)
(*                                                                         *)
(* ~Vanishes: a session whose file channel was opened is not lost before   *)
(* the frame's handler has claimed that channel.  What the bytes are and   *)
(* where they are stored depends on it.  The types and AnswersOwn do not:  *)
(* they follow, in the last part, from the control channel alone.          *)
(***************************************************************************)
EXTENDS FrameChannel, SequenceTheorems, TLAPS

(* The bytes of x from the one after the k-th on.                          *)
Run(s, x, k) == \A i \in 1 .. Len(s) : s[i] = <<x, k + i>>

(* A session that was not opened yet.                                      *)
Unused(s) ==
  /\ ~ctl[s].open /\ ctl[s].up = <<>> /\ ctl[s].down = <<>>
  /\ ~file[s].open /\ ~file[s].opened /\ ~file[s].arrived
  /\ file[s].up = <<>> /\ file[s].down = <<>>
  /\ ~handler[s].alive /\ handler[s].claimed = None /\ handler[s].doing = None

(* The handler has its own file channel, or none yet; and none can have    *)
(* been left behind by a session that is closed.                           *)
Matched(s) ==
  /\ handler[s].claimed \in {s, None}
  /\ handler[s].claimed = s => file[s].arrived
  /\ file[s].arrived => file[s].opened
  /\ file[s].opened /\ ~ctl[s].open => handler[s].claimed = s
  /\ handler[s].doing # None => file[s].opened
  /\ \A i \in 1 .. Len(ctl[s].up) : ctl[s].up[i].what # "show" => file[s].opened
  /\ ctl[s].open => (file[s].open <=> file[s].opened)

(* The bytes of one upload at a time are on their way to the handler that  *)
(* is to store them.                                                       *)
Storing(s) ==
  LET h == handler[s] IN
  /\ h.doing = None => h.got = <<>> /\ h.rest = <<>>
  /\ h.doing # None =>
       /\ h.alive /\ h.doing.what # "show" /\ ~h.doing.end
       /\ h.doing.what = "write" => h.doing.x \in Photo /\ h.rest = <<>>
       /\ h.doing.what # "write" => h.got = <<>>
  /\ h.alive /\ (h.doing = None \/ h.doing.what # "write") => file[s].up = <<>>
  /\ h.doing # None /\ h.doing.what = "write" =>
       /\ Run(h.got, h.doing.x, 0) /\ Run(file[s].up, h.doing.x, Len(h.got))
       /\ Len(h.got) + Len(file[s].up) \in {0, 2}

Asked(s) ==
  \A i \in 1 .. Len(ctl[s].up) : LET m == ctl[s].up[i] IN
       /\ m.what = "write" => m.x \in Photo
       /\ m.what = "list" => m.x = "list"

Writing(s) == Storing(s) /\ Asked(s)

Waiting == parked = IF cur # 0 /\ file[cur].arrived /\ handler[cur].claimed = None
                    THEN <<cur>> ELSE <<>>

Apart ==
  /\ \A s \in Session : /\ s > cur => Unused(s)
                        /\ ctl[s].open => s = cur
                        /\ Matched(s)
                        /\ Writing(s)
  /\ Waiting

(* Answers to reads and lists that were not waited for.                    *)
LateEnd(m) == m.end /\ m.what \in {"read", "list"}
LateOk(m) == m.act = "ok" /\ m.what \in {"read", "list"}

Up == ctl[cur].up
Down == ctl[cur].down
LateUp == \A i \in 1 .. Len(Up) : LateEnd(Up[i])
LateDown == \A i \in 1 .. Len(Down) : LateOk(Down[i])
Mine(end) == [what |-> op.what, end |-> end, x |-> op.x, n |-> op.n]

Free == handler[cur].doing = None
Busy == handler[cur].doing = Mine(FALSE)
Clear == file[cur].down = <<>>

(* Bytes of earlier reads may come, that is, be on their way or still to   *)
(* be sent; and when they may not, these two are empty.                    *)
Stale == early \/ (op = None /\ Short)
Still == ~Stale => Clear /\ handler[cur].rest = <<>>

(* The handler is at rest, or still sends what was not waited for.         *)
Sending == handler[cur].doing # None => handler[cur].doing.what \in {"read", "list"}

(* What has come of the photo or list, is on its way, and is still to be   *)
(* sent, one after the other.                                              *)
Streaming(size) ==
  LET got == op.got  down == file[cur].down  rest == handler[cur].rest IN
  ~early =>
    /\ Run(got, op.x, 0) /\ Run(down, op.x, Len(got))
    /\ Run(rest, op.x, Len(got) + Len(down))
    /\ Len(got) + Len(down) + Len(rest) <= size

(* Between two operations.                                                 *)
Resting == LateUp /\ LateDown /\ Sending /\ Still

(* The request is the last that the frame will see.                        *)
Requested ==
  /\ Up # <<>> /\ Up[Len(Up)] = Mine(FALSE)
  /\ \A i \in 1 .. Len(Up) - 1 : LateEnd(Up[i])
  /\ LateDown /\ Sending /\ Still

(* The frame has answered; its answer is the last to come.                 *)
Answered ==
  /\ Up = <<>> /\ Down # <<>>
  /\ \A i \in 1 .. Len(Down) - 1 : LateOk(Down[i])
  /\ LET m == Down[Len(Down)] IN
     /\ m.what = op.what /\ m.n = op.n
     /\ m.act = IF op.what = "show" THEN "ok" ELSE "started"
     /\ op.what \in {"read", "list"} => Streaming(m.size) /\ (Free \/ Busy)
     /\ op.what = "list" => m.size = 2
  /\ op.what = "show" => Free
  /\ op.what = "write" => /\ file[cur].up = <<>>
                          /\ handler[cur].alive => Busy /\ handler[cur].got = <<>>
  /\ op.what \in {"show", "write"} /\ ~early => Clear

Receiving ==
  /\ op.what \in {"read", "list"} /\ Up = <<>> /\ Down = <<>> /\ (Free \/ Busy)
  /\ Streaming(Len(op.got) + op.left) /\ Len(op.got) + op.left <= 2
  /\ op.what = "list" => Len(op.got) + op.left = 2

(* The closing request, or the answer to it, is all there is.              *)
Closing ==
  /\ op.what # "show"
  /\ \/ /\ Up = <<Mine(TRUE)>> /\ Down = <<>> /\ (Free \/ Busy)
        /\ op.what = "write" /\ Busy => Len(handler[cur].got) + Len(file[cur].up) = 2
        /\ op.what = "write" /\ Free /\ handler[cur].alive => stored[op.x] = Whole(op.x)
     \/ /\ Up = <<>> /\ Len(Down) = 1 /\ Free
        /\ Down[1].what = op.what /\ Down[1].act = "ok" /\ Down[1].n = op.n
        /\ op.what = "write" => stored[op.x] = Whole(op.x)
  /\ op.what = "read" => Len(op.got) <= 2
  /\ op.what \in {"read", "list"} /\ ~early => Run(op.got, op.x, 0)
  /\ op.what = "list" => Len(op.got) = 2
  /\ ~early /\ op.left = 0 => Clear /\ handler[cur].rest = <<>>

Conversing ==
  /\ op = None => Resting
  /\ op # None =>
       /\ op.pc = "begin" => Resting /\ op.got = <<>>
       /\ op.pc = "reply" => op.got = <<>> /\ (Requested \/ Answered)
       /\ op.pc = "bytes" => Receiving
       /\ op.pc = "ack" => Closing

Attended ==
  op # None => /\ Usable /\ done = None
               /\ op.what \in {"write", "read"} => op.x \in Photo
               /\ op.what = "list" => op.x = "list"
               /\ op.what # "show" => file[cur].opened
               /\ op.what # "read" /\ op.pc # "bytes" => op.left = 0

Results ==
  done # None =>
    /\ done.what \in {"show", "write"} => done.by = done.n
    /\ done.what = "read" => Len(done.got) <= 2
    /\ done.what = "list" => Len(done.got) = 2
    /\ done.what \in {"read", "list"} /\ ~early => Run(done.got, done.x, 0)
    /\ done.what = "list" => done.x = "list"
    /\ done.what = "write" => done.x \in Photo /\ stored[done.x] = Whole(done.x)

IInv ==
  /\ TypeOK /\ StoredWhole
  /\ Apart
  /\ Attended
  /\ Usable => Conversing
  /\ Results
-----------------------------------------------------------------------------
(* Lemmas about types and sequences.                                       *)

CtlType == [open : BOOLEAN, up : Seq(Request), down : Seq(Reply)]
FileType == [open : BOOLEAN, opened : BOOLEAN, arrived : BOOLEAN,
             up : Seq(Byte), down : Seq(Byte)]
HandlerType == [alive : BOOLEAN, claimed : Session \cup {None},
                doing : Request \cup {None}, got : Seq(Byte), rest : Seq(Byte)]

LEMMA FieldsLemma ==
  ASSUME TypeOK, NEW s \in Session
  PROVE  /\ ctl \in [Session -> CtlType] /\ ctl[s] \in CtlType
         /\ ctl[s].open \in BOOLEAN
         /\ ctl[s].up \in Seq(Request) /\ ctl[s].down \in Seq(Reply)
         /\ file \in [Session -> FileType] /\ file[s] \in FileType
         /\ file[s].open \in BOOLEAN /\ file[s].opened \in BOOLEAN
         /\ file[s].arrived \in BOOLEAN
         /\ file[s].up \in Seq(Byte) /\ file[s].down \in Seq(Byte)
         /\ handler \in [Session -> HandlerType] /\ handler[s] \in HandlerType
         /\ handler[s].alive \in BOOLEAN
         /\ handler[s].claimed \in Session \cup {None}
         /\ handler[s].doing \in Request \cup {None}
         /\ handler[s].got \in Seq(Byte) /\ handler[s].rest \in Seq(Byte)
<1>1. /\ ctl \in [Session -> CtlType] /\ file \in [Session -> FileType]
      /\ handler \in [Session -> HandlerType]
  BY DEF TypeOK, CtlType, FileType, HandlerType
<1>2. ctl[s] \in CtlType /\ file[s] \in FileType /\ handler[s] \in HandlerType
  BY <1>1
<1>3. /\ ctl[s].open \in BOOLEAN
      /\ ctl[s].up \in Seq(Request) /\ ctl[s].down \in Seq(Reply)
  BY <1>2 DEF CtlType
<1>4. /\ file[s].open \in BOOLEAN /\ file[s].opened \in BOOLEAN
      /\ file[s].arrived \in BOOLEAN
      /\ file[s].up \in Seq(Byte) /\ file[s].down \in Seq(Byte)
  BY <1>2 DEF FileType
<1>5. /\ handler[s].alive \in BOOLEAN
      /\ handler[s].claimed \in Session \cup {None}
      /\ handler[s].doing \in Request \cup {None}
      /\ handler[s].got \in Seq(Byte) /\ handler[s].rest \in Seq(Byte)
  BY <1>2 DEF HandlerType
<1>6. QED
  BY <1>1, <1>2, <1>3, <1>4, <1>5

(* A whole photo or list, and its parts.                                   *)
LEMMA WholeLemma ==
  ASSUME NEW x \in Name
  PROVE  /\ Whole(x) \in Seq(Byte) /\ Len(Whole(x)) = 2 /\ Run(Whole(x), x, 0)
         /\ Whole(x)[1] = <<x, 1>> /\ Whole(x)[2] = <<x, 2>>
         /\ Whole(x) # <<>>
         /\ \A s \in Seq(Byte) : Len(s) = 2 /\ Run(s, x, 0) => s = Whole(x)
<1>1. <<x, 1>> \in Byte /\ <<x, 2>> \in Byte
  BY DEF Byte
<1>2. /\ Whole(x) \in Seq(Byte) /\ Len(Whole(x)) = 2
      /\ Whole(x)[1] = <<x, 1>> /\ Whole(x)[2] = <<x, 2>>
  BY <1>1 DEF Whole
<1>3. Run(Whole(x), x, 0)
  BY <1>2 DEF Run
<1>4. ASSUME NEW s \in Seq(Byte), Len(s) = 2, Run(s, x, 0)
      PROVE  s = Whole(x)
  <2>1. \A i \in 1 .. Len(s) : s[i] = Whole(x)[i]
    BY <1>3, <1>4 , <1>2 DEF Run
  <2>2. QED
    BY <1>2, <1>4, <2>1, SeqEqual
<1>5. QED
  BY <1>2, <1>3, <1>4

LEMMA BlobLemma ==
  ASSUME TypeOK, StoredWhole, NEW x \in Name
  PROVE  /\ Blob(x) \in Seq(Byte) /\ Len(Blob(x)) \in {0, 2} /\ Run(Blob(x), x, 0)
         /\ x = "list" => Len(Blob(x)) = 2
<1>1. Blob(x) \in {<<>>, Whole(x)} /\ (x = "list" => Blob(x) = Whole(x))
  BY DEF Blob, StoredWhole, Name
<1>2. CASE Blob(x) = <<>>
  BY <1>1, <1>2, WholeLemma DEF Run
<1>3. CASE Blob(x) = Whole(x)
  BY <1>3, WholeLemma
<1>4. QED
  BY <1>1, <1>2, <1>3

(* Taking the first of a sequence, in the form the proofs below use.       *)
LEMMA HeadLemma ==
  ASSUME NEW S, NEW s \in Seq(S), s # <<>>
  PROVE  /\ Len(s) \in Nat /\ Len(s) > 0 /\ Head(s) = s[1] /\ Head(s) \in S
         /\ Tail(s) \in Seq(S) /\ Len(Tail(s)) = Len(s) - 1
         /\ \A i \in 1 .. Len(s) - 1 : Tail(s)[i] = s[i + 1]
         /\ Len(s) = 1 => Tail(s) = <<>>
<1>1. Len(s) \in Nat /\ Len(s) > 0 /\ Head(s) = s[1]
  BY EmptySeq
<1>2. /\ Head(s) \in S /\ Tail(s) \in Seq(S) /\ Len(Tail(s)) = Len(s) - 1
      /\ \A i \in 1 .. Len(Tail(s)) : Tail(s)[i] = s[i + 1]
  BY HeadTailProperties
<1>3. QED
  BY <1>1, <1>2, EmptySeq

(* What is left of a sequence when some of it are dropped.                 *)
LEMMA RemainderLemma ==
  ASSUME NEW S, NEW s \in Seq(S), NEW n \in 0 .. Len(s)
  PROVE  /\ SubSeq(s, n + 1, Len(s)) \in Seq(S)
         /\ n = Len(s) => SubSeq(s, n + 1, Len(s)) = <<>>
<1>1. Len(s) \in Nat /\ n \in Nat /\ n <= Len(s)
  OBVIOUS
<1>2. ASSUME NEW i \in n + 1 .. Len(s)
      PROVE  s[i] \in S
  <2>1. i \in 1 .. Len(s)
    BY <1>1
  <2>2. QED
    BY <2>1, ElementOfSeq
<1>3. SubSeq(s, n + 1, Len(s)) \in Seq(S)
  BY <1>1, <1>2, SubSeqProperties
<1>4. n = Len(s) => Len(SubSeq(s, n + 1, Len(s))) = 0
  BY <1>1, SubSeqProperties
<1>5. QED
  BY <1>3, <1>4, EmptySeq

(* The first of a run goes to the end of the run before it.                *)
LEMMA MoveLemma ==
  ASSUME NEW x, NEW k \in Nat, NEW a \in Seq(Byte), NEW b \in Seq(Byte),
         Run(a, x, k), Run(b, x, k + Len(a)), b # <<>>
  PROVE  /\ Append(a, Head(b)) \in Seq(Byte) /\ Tail(b) \in Seq(Byte)
         /\ Run(Append(a, Head(b)), x, k) /\ Run(Tail(b), x, k + Len(a) + 1)
         /\ Len(Append(a, Head(b))) = Len(a) + 1 /\ Len(Tail(b)) = Len(b) - 1
<1>1. /\ Len(b) \in Nat /\ Len(b) > 0 /\ Head(b) = b[1] /\ Head(b) \in Byte
      /\ Tail(b) \in Seq(Byte) /\ Len(Tail(b)) = Len(b) - 1
      /\ \A i \in 1 .. Len(b) - 1 : Tail(b)[i] = b[i + 1]
  BY HeadLemma
<1>2. /\ Append(a, Head(b)) \in Seq(Byte)
      /\ Len(Append(a, Head(b))) = Len(a) + 1
      /\ \A i \in 1 .. Len(a) : Append(a, Head(b))[i] = a[i]
      /\ Append(a, Head(b))[Len(a) + 1] = Head(b)
  BY <1>1, AppendProperties
<1>3. Len(a) \in Nat
  OBVIOUS
<1>4. Run(Append(a, Head(b)), x, k)
  <2>1. Head(b) = <<x, k + (Len(a) + 1)>>
    BY <1>1, <1>3 DEF Run
  <2>2. \A i \in 1 .. Len(a) : a[i] = <<x, k + i>>
    BY DEF Run
  <2>3. ASSUME NEW i \in 1 .. Len(a) + 1
        PROVE  Append(a, Head(b))[i] = <<x, k + i>>
    <3>1. CASE i = Len(a) + 1
      BY <1>2, <2>1, <3>1
    <3>2. CASE i # Len(a) + 1
      <4>1. i \in 1 .. Len(a)
        BY <1>3, <3>2
      <4>2. QED
        BY <1>2, <2>2, <4>1
    <3>3. QED
      BY <3>1, <3>2
  <2>4. QED
    BY <1>2, <2>3 DEF Run
<1>5. Run(Tail(b), x, k + Len(a) + 1)
  BY <1>1, <1>3 DEF Run
<1>6. QED
  BY <1>1, <1>2, <1>4, <1>5
-----------------------------------------------------------------------------
(* What stays as it is when a step is about something else.                *)

(* A step of one session.                                                  *)
LEMMA ApartLemma ==
  ASSUME Apart, cur' = cur, NEW s \in Session,
         \A t \in Session \ {s} : /\ ctl'[t] = ctl[t] /\ file'[t] = file[t]
                                  /\ handler'[t] = handler[t],
         s > cur => Unused(s)',
         ctl'[s].open => s = cur,
         Matched(s)', Writing(s)', Waiting'
  PROVE  Apart'
<1>1. ASSUME NEW t \in Session
      PROVE  /\ t > cur' => Unused(t)'
             /\ ctl'[t].open => t = cur'
             /\ Matched(t)'
             /\ Writing(t)'
  <2>1. CASE t = s
    BY <2>1
  <2>2. CASE t # s
    <3>1. ctl'[t] = ctl[t] /\ file'[t] = file[t] /\ handler'[t] = handler[t]
      BY <2>2
    <3>2. (t > cur => Unused(t)) /\ (ctl[t].open => t = cur) /\ Matched(t) /\ Writing(t)
      BY DEF Apart
    <3>3. t > cur' => Unused(t)'
      BY <3>1, <3>2 DEF Unused
    <3>4. Matched(t)'
      BY <3>1, <3>2 DEF Matched
    <3>5. Writing(t)'
      BY <3>1, <3>2 DEF Writing, Storing, Asked
    <3>6. QED
      BY <3>1, <3>2, <3>3, <3>4, <3>5
  <2>3. QED
    BY <2>1, <2>2
<1>2. QED
  BY <1>1 DEF Apart

(* A step that the conversation of the current session does not see.       *)
LEMMA ElsewhereLemma ==
  ASSUME Usable => Conversing, Attended, UNCHANGED <<cur, op, early, done>>,
         cur # 0 => /\ ctl'[cur] = ctl[cur]
                    /\ file'[cur].opened = file[cur].opened
                    /\ file'[cur].up = file[cur].up /\ file'[cur].down = file[cur].down
                    /\ handler'[cur].alive = handler[cur].alive
                    /\ handler'[cur].doing = handler[cur].doing
                    /\ handler'[cur].got = handler[cur].got
                    /\ handler'[cur].rest = handler[cur].rest,
         \A x \in Photo : stored[x] = Whole(x) => stored'[x] = Whole(x)
  PROVE  (Usable => Conversing)' /\ Attended'
<1>1. Usable' <=> Usable
  BY DEF Usable
<1>2. Attended'
  BY <1>1 DEF Attended, Usable
<1>3. ASSUME Usable
      PROVE  Conversing'
  <2>1. /\ ctl'[cur] = ctl[cur]
        /\ file'[cur].up = file[cur].up /\ file'[cur].down = file[cur].down
        /\ handler'[cur].alive = handler[cur].alive
        /\ handler'[cur].doing = handler[cur].doing
        /\ handler'[cur].got = handler[cur].got
        /\ handler'[cur].rest = handler[cur].rest
    BY <1>3 DEF Usable
  <2>2. Up' = Up /\ Down' = Down
    BY <2>1 DEF Up, Down
  <2>3. Resting => Resting'
    BY <2>1, <2>2 DEF Resting, LateUp, LateDown, Sending, Still, Stale, Short, Clear
  <2>4. Requested => Requested'
    BY <2>1, <2>2 DEF Requested, LateDown, Sending, Still, Stale, Short, Clear, Mine
  <2>5. \A size : Streaming(size) => Streaming(size)'
    BY <2>1 DEF Streaming
  <2>6. Answered => Answered'
    BY <2>1, <2>2, <2>5 DEF Answered, Free, Busy, Clear, Mine
  <2>7. Receiving => Receiving'
    BY <2>1, <2>2, <2>5 DEF Receiving, Free, Busy, Mine
  <2>8. op # None /\ op.pc = "ack" /\ Closing => Closing'
    BY <2>1, <2>2 DEF Closing, Free, Busy, Clear, Mine, Attended
  <2>9. QED
    BY <1>3, <2>1, <2>3, <2>4, <2>6, <2>7, <2>8 DEF Conversing, Clear
<1>4. QED
  BY <1>1, <1>2, <1>3

(* What was done stays done.                                               *)
LEMMA ResultsLemma ==
  ASSUME Results, done' = done, early' = early,
         \A x \in Photo : stored[x] = Whole(x) => stored'[x] = Whole(x)
  PROVE  Results'
BY DEF Results

(* The hub speaks in the current session, which is open.                   *)
LEMMA UsableLemma ==
  ASSUME IInv, Usable
  PROVE  cur \in Session /\ ctl[cur].open
BY DEF IInv, TypeOK, Usable, Session

-----------------------------------------------------------------------------
(* The initial states and the steps of the hub.                            *)

LEMMA InitLemma ==
  ASSUME Init
  PROVE  IInv
<1>1. ASSUME NEW s \in Session
      PROVE  /\ ctl[s] = [open |-> FALSE, up |-> <<>>, down |-> <<>>]
             /\ file[s] = [open |-> FALSE, opened |-> FALSE, arrived |-> FALSE,
                           up |-> <<>>, down |-> <<>>]
             /\ handler[s] = [alive |-> FALSE, claimed |-> None, doing |-> None,
                              got |-> <<>>, rest |-> <<>>]
  BY DEF Init
<1>2. ASSUME NEW s \in Session
      PROVE  ctl[s] \in CtlType /\ file[s] \in FileType /\ handler[s] \in HandlerType
  <2>1. [open |-> FALSE, up |-> <<>>, down |-> <<>>] \in CtlType
    BY DEF CtlType
  <2>2. [open |-> FALSE, opened |-> FALSE, arrived |-> FALSE,
         up |-> <<>>, down |-> <<>>] \in FileType
    BY DEF FileType
  <2>3. [alive |-> FALSE, claimed |-> None, doing |-> None,
         got |-> <<>>, rest |-> <<>>] \in HandlerType
    BY DEF HandlerType
  <2>4. QED
    BY <1>1, <2>1, <2>2, <2>3
<1>3. /\ ctl \in [Session -> CtlType] /\ file \in [Session -> FileType]
      /\ handler \in [Session -> HandlerType]
  BY <1>2 DEF Init
<1>4. StoredWhole /\ stored \in [Photo -> Seq(Byte)]
  BY WholeLemma DEF Init, StoredWhole, Name
<1>5. parked = <<>> /\ cur = 0 /\ op = None /\ ops = 0 /\ done = None /\ early = FALSE
  BY DEF Init
<1>6. TypeOK
  <2>1. parked \in Seq(Session) /\ IsInjective(parked)
    BY <1>5 DEF IsInjective
  <2>2. cur \in 0 .. Sessions /\ ops \in 0 .. Ops
    BY <1>5, ChannelAssumption
  <2>3. early \in BOOLEAN
    BY <1>5
  <2>4. QED
    BY <1>3, <1>4, <1>5, <2>1, <2>2, <2>3
       DEF TypeOK, CtlType, FileType, HandlerType
<1>7. ASSUME NEW s \in Session
      PROVE  Unused(s) /\ Matched(s) /\ Writing(s) /\ ~ctl[s].open
  <2>1. Unused(s) /\ ~ctl[s].open
    BY <1>1 DEF Unused
  <2>2. /\ handler[s].claimed = None /\ handler[s].doing = None /\ ~handler[s].alive
        /\ handler[s].got = <<>> /\ handler[s].rest = <<>> /\ Len(ctl[s].up) = 0
        /\ ~file[s].opened /\ ~file[s].arrived
    BY <1>1
  <2>3. Matched(s)
    BY <2>1, <2>2, NoneAssumption DEF Matched
  <2>4. Writing(s)
    BY <2>2 DEF Writing, Storing, Asked
  <2>5. QED
    BY <2>1, <2>3, <2>4
<1>8. Apart
  BY <1>5, <1>7 DEF Apart, Waiting
<1>9. QED
  BY <1>4, <1>5, <1>6, <1>8 DEF IInv, Attended, Usable, Results

LEMMA ConnectStep ==
  ASSUME IInv, Connect
  PROVE  IInv'
<1>1. PICK s \in Session : s = cur + 1
  BY ChannelAssumption DEF IInv, TypeOK, Connect, Session
<1>2. s \in Session /\ cur \in Nat /\ s > cur /\ s = cur + 1
  BY <1>1 DEF IInv, TypeOK
<1>3. /\ \A t \in Session \ {s} : ctl'[t] = ctl[t] /\ handler'[t] = handler[t]
      /\ ctl'[s] = [ctl[s] EXCEPT !.open = TRUE]
      /\ handler'[s] = [handler[s] EXCEPT !.alive = TRUE]
      /\ ctl' \in [Session -> CtlType] /\ handler' \in [Session -> HandlerType]
  <2>1. /\ ctl \in [Session -> CtlType] /\ handler \in [Session -> HandlerType]
        /\ ctl[s] \in CtlType /\ handler[s] \in HandlerType
    BY <1>2, FieldsLemma DEF IInv
  <2>2. [ctl[s] EXCEPT !.open = TRUE] \in CtlType
    BY <2>1 DEF CtlType
  <2>3. [handler[s] EXCEPT !.alive = TRUE] \in HandlerType
    BY <2>1 DEF HandlerType
  <2>4. /\ ctl' = [ctl EXCEPT ![s] = [ctl[s] EXCEPT !.open = TRUE]]
        /\ handler' = [handler EXCEPT ![s] = [handler[s] EXCEPT !.alive = TRUE]]
    BY <1>2 DEF Connect
  <2>5. QED
    BY <1>2, <2>1, <2>2, <2>3, <2>4
<1>4. /\ ctl'[s].open /\ ctl'[s].up = ctl[s].up /\ ctl'[s].down = ctl[s].down
      /\ handler'[s].alive /\ handler'[s].claimed = handler[s].claimed
      /\ handler'[s].doing = handler[s].doing
      /\ handler'[s].got = handler[s].got /\ handler'[s].rest = handler[s].rest
  BY <1>2, <1>3, FieldsLemma DEF IInv, CtlType, HandlerType
<1>5. /\ UNCHANGED <<file, parked, stored, op, ops>>
      /\ cur' = s /\ early' = FALSE /\ done' = None
  BY <1>2 DEF Connect
<1>6. op = None
  BY DEF Connect, IInv, Attended
<1>7. Unused(s) /\ Matched(s) /\ Writing(s)
  BY <1>2 DEF IInv, Apart
<1>8. TypeOK'
  <2>1. cur' \in 0 .. Sessions
    BY <1>2, <1>5, ChannelAssumption DEF Session
  <2>2. early' \in BOOLEAN
    BY <1>5
  <2>3. QED
    BY <1>3, <1>5, <2>1, <2>2, FieldsLemma
       DEF IInv, TypeOK, CtlType, FileType, HandlerType
<1>9. Apart'
  <2>1. ASSUME NEW t \in Session
        PROVE  /\ t > cur' => Unused(t)'
               /\ ctl'[t].open => t = cur'
               /\ Matched(t)'
               /\ Writing(t)'
    <3>1. CASE t = s
      <4>1. /\ handler'[s].claimed = None /\ handler'[s].doing = None
            /\ handler'[s].got = <<>> /\ handler'[s].rest = <<>>
            /\ Len(ctl'[s].up) = 0 /\ file'[s].up = <<>>
            /\ ~file'[s].open /\ ~file'[s].opened /\ ~file'[s].arrived
        BY <1>4, <1>5, <1>7 DEF Unused, Writing, Storing, Asked
      <4>2. Matched(s)'
        BY <1>2, <1>4, <4>1, NoneAssumption DEF Matched
      <4>3. Writing(s)'
        BY <4>1 DEF Writing, Storing, Asked
      <4>4. QED
        BY <1>2, <1>5, <3>1, <4>2, <4>3
    <3>2. CASE t # s
      <4>1. ctl'[t] = ctl[t] /\ file'[t] = file[t] /\ handler'[t] = handler[t]
        BY <1>3, <1>5, <3>2
      <4>2. (t > cur => Unused(t)) /\ (ctl[t].open => t = cur) /\ Matched(t) /\ Writing(t)
        BY DEF IInv, Apart
      <4>3. t > cur' => Unused(t)'
        BY <1>2, <1>5, <4>1, <4>2 DEF Unused, Session
      <4>4. ~ctl[t].open
        BY <4>2, <1>2 DEF Connect, Usable, Session
      <4>5. Matched(t)'
        BY <4>1, <4>2 DEF Matched
      <4>6. Writing(t)'
        BY <4>1, <4>2 DEF Writing, Storing, Asked
      <4>7. QED
        BY <4>1, <4>3, <4>4, <4>5, <4>6
    <3>3. QED
      BY <3>1, <3>2
  <2>2. Waiting'
    <3>1. parked = <<>>
      <4>1. cur # 0 => cur \in Session
        BY <1>2 DEF IInv, TypeOK, Session
      <4>2. cur # 0 /\ file[cur].arrived => handler[cur].claimed = cur
        BY <4>1 DEF IInv, Apart, Matched, Connect, Usable
      <4>3. cur # 0 => cur # None
        BY <4>1, NoneAssumption
      <4>4. QED
        BY <4>2, <4>3 DEF IInv, Apart, Waiting
    <3>2. ~file'[s].arrived
      BY <1>5, <1>7 DEF Unused
    <3>3. QED
      BY <1>5, <3>1, <3>2 DEF Waiting
  <2>3. QED
    BY <2>1, <2>2 DEF Apart
<1>10. Conversing'
  <2>1. handler'[s].doing = None /\ handler'[s].rest = <<>> /\ file'[s].down = <<>>
    BY <1>4, <1>5, <1>7 DEF Unused, Writing, Storing
  <2>2. LateUp' /\ LateDown'
    BY <1>4, <1>5, <1>7 DEF LateUp, LateDown, Up, Down, Unused
  <2>3. Sending' /\ Still'
    BY <1>5, <2>1 DEF Sending, Still, Clear
  <2>4. QED
    BY <1>5, <1>6, <2>2, <2>3 DEF Conversing, Resting
<1>11. QED
  BY <1>5, <1>6, <1>8, <1>9, <1>10
     DEF IInv, StoredWhole, Attended, Results

LEMMA BeginStep ==
  ASSUME IInv, NEW what \in Kind, NEW x \in Name, Begin(what, x),
         what \in {"write", "read"} => x \in Photo, what = "list" => x = "list"
  PROVE  IInv'
<1>1. PICK s \in Session : s = cur /\ ctl[s].open
  BY UsableLemma DEF Begin
<1>a. PICK arrived \in 0 .. Len(file[s].down) :
        /\ Opening(what, x, arrived)
        /\ file' = [file EXCEPT ![s].open = @ \/ what # "show",
                                ![s].opened = @ \/ what # "show",
                                ![s].down = IF what = "read"
                                            THEN SubSeq(@, arrived + 1, Len(@)) ELSE @]
  BY <1>1 DEF Begin
<1> DEFINE open == file[s].open \/ what # "show"
           opened == file[s].opened \/ what # "show"
           rem == SubSeq(file[s].down, arrived + 1, Len(file[s].down))
           down == IF what = "read" THEN rem ELSE file[s].down
           f == [file[s] EXCEPT !.open = open, !.opened = opened, !.down = down]
<1>2. /\ file \in [Session -> FileType] /\ file[s] \in FileType
      /\ file[s].down \in Seq(Byte)
  BY FieldsLemma DEF IInv
<1>b. rem \in Seq(Byte) /\ (arrived = Len(file[s].down) => rem = <<>>)
  BY <1>2, RemainderLemma
<1> HIDE DEF rem
<1>3. file' = [file EXCEPT ![s] = f]
  BY <1>2, <1>a DEF rem
<1>4. /\ f \in FileType /\ f.arrived = file[s].arrived /\ f.up = file[s].up
      /\ f.down = down
      /\ f.open <=> (file[s].open \/ what # "show")
      /\ f.opened <=> (file[s].opened \/ what # "show")
  <2>1. open \in BOOLEAN /\ opened \in BOOLEAN /\ down \in Seq(Byte)
    BY <1>2, <1>b
  <2> HIDE DEF open, opened, down
  <2>2. /\ f \in FileType /\ f.arrived = file[s].arrived /\ f.up = file[s].up
        /\ f.down = down /\ f.open = open /\ f.opened = opened
    BY <1>2, <2>1 DEF FileType
  <2>3. QED
    BY <2>2 DEF open, opened
<1> HIDE DEF f
<1>5. /\ file' \in [Session -> FileType] /\ file'[s] = f
      /\ \A t \in Session \ {s} : file'[t] = file[t]
  BY <1>2, <1>3, <1>4
<1>6. /\ UNCHANGED <<ctl, handler, parked, stored, cur>> /\ ops < Ops
      /\ op = None /\ op' = Fresh(what, x) /\ ops' = ops + 1 /\ done' = None
      /\ early' = ((early \/ Short)
                   /\ ~(what = "read" /\ arrived = Len(file[cur].down) /\ Idle))
  BY <1>a DEF Opening
<1>7. /\ op'.what = what /\ op'.x = x /\ op'.pc = "begin" /\ op'.got = <<>> /\ op'.left = 0
      /\ op' \in Op /\ ops' \in 0 .. Ops
  <2>1. ops \in Nat /\ ops + 1 \in 1 .. Ops /\ 0 \in 0 .. Ops
    BY <1>6, ChannelAssumption DEF IInv, TypeOK
  <2>2. op' \in Op
    BY <1>6, <2>1 DEF Fresh, Op
  <2>3. QED
    BY <1>6, <2>1, <2>2 DEF Fresh
<1>8. TypeOK'
  <2>1. early' \in BOOLEAN
    BY <1>6
  <2>2. ctl' \in [Session -> CtlType] /\ handler' \in [Session -> HandlerType]
    BY <1>6, FieldsLemma DEF IInv
  <2>3. /\ parked' \in Seq(Session) /\ IsInjective(parked')
        /\ stored' \in [Photo -> Seq(Byte)] /\ cur' \in 0 .. Sessions
    BY <1>6 DEF IInv, TypeOK
  <2>4. QED
    BY <1>5, <1>6, <1>7, <2>1, <2>2, <2>3
       DEF TypeOK, CtlType, FileType, HandlerType
<1>9. Apart'
  <2>1. Matched(s) /\ Writing(s)
    BY DEF IInv, Apart
  <2>2. Matched(s)'
    BY <1>1, <1>4, <1>5, <1>6, <2>1 DEF Matched
  <2>3. Writing(s)'
    BY <1>4, <1>5, <1>6, <2>1 DEF Writing, Storing, Asked
  <2>4. Waiting'
    BY <1>1, <1>4, <1>5, <1>6 DEF IInv, Apart, Waiting
  <2>5. ~(s > cur)
    BY <1>1 DEF Session
  <2>6. QED
    BY <1>1, <1>5, <1>6, <2>2, <2>3, <2>4, <2>5, ApartLemma DEF IInv
<1>10. Resting
  BY <1>6 DEF IInv, Conversing, Begin
<1>11. Conversing'
  <2>1. file'[s].down = IF what = "read" THEN rem ELSE file[s].down
    BY <1>4, <1>5 DEF down
  <2>2. Up' = Up /\ Down' = Down /\ handler' = handler
    BY <1>6 DEF Up, Down
  <2>3. LateUp' /\ LateDown' /\ Sending'
    BY <1>6, <1>10, <2>2 DEF Resting, LateUp, LateDown, Sending
  <2>4. Still'
    <3>1. SUFFICES ASSUME ~Stale' PROVE file'[s].down = <<>> /\ handler[s].rest = <<>>
      BY <1>1, <1>6, <2>2 DEF Still, Clear
    <3>2. ~early'
      BY <3>1 DEF Stale
    <3>3. CASE ~(early \/ Short)
      <4>1. file[s].down = <<>> /\ handler[s].rest = <<>>
        BY <1>1, <1>10, <3>3 DEF Resting, Still, Stale, Clear
      <4>2. arrived = Len(file[s].down)
        BY <4>1
      <4>3. QED
        BY <1>b, <2>1, <4>1, <4>2
    <3>4. CASE what = "read" /\ arrived = Len(file[cur].down) /\ Idle
      <4>1. handler[s].doing = None
        BY <1>1, <3>4 DEF Idle
      <4>2. handler[s].rest = <<>>
        BY <4>1 DEF IInv, Apart, Writing, Storing
      <4>3. QED
        BY <1>1, <1>b, <2>1, <3>4, <4>2
    <3>5. QED
      BY <1>6, <3>2, <3>3, <3>4
  <2>5. op' # None
    BY <1>7, NoneAssumption
  <2>6. QED
    BY <1>7, <2>3, <2>4, <2>5 DEF Conversing, Resting
<1>12. Attended'
  BY <1>1, <1>4, <1>5, <1>6, <1>7 DEF Attended, Usable, Session
<1>13. QED
  BY <1>6, <1>8, <1>9, <1>11, <1>12 DEF IInv, StoredWhole, Results

(* What changes on the control channel of session s alone.                 *)
LEMMA CtlLemma ==
  ASSUME TypeOK, NEW s \in Session,
         NEW up \in Seq(Request), NEW down \in Seq(Reply),
         ctl' = [ctl EXCEPT ![s] = [ctl[s] EXCEPT !.up = up, !.down = down]]
  PROVE  /\ ctl' \in [Session -> CtlType]
         /\ ctl'[s].open = ctl[s].open /\ ctl'[s].up = up /\ ctl'[s].down = down
         /\ \A t \in Session \ {s} : ctl'[t] = ctl[t]
<1>1. ctl \in [Session -> CtlType] /\ ctl[s] \in CtlType
  BY FieldsLemma
<1>2. LET c == [ctl[s] EXCEPT !.up = up, !.down = down] IN
        c \in CtlType /\ c.open = ctl[s].open /\ c.up = up /\ c.down = down
  BY <1>1 DEF CtlType
<1>3. QED
  BY <1>1, <1>2

(* What changes on the file channel of session s alone.                    *)
LEMMA FileLemma ==
  ASSUME TypeOK, NEW s \in Session, NEW up \in Seq(Byte), NEW down \in Seq(Byte),
         file' = [file EXCEPT ![s] = [file[s] EXCEPT !.up = up, !.down = down]]
  PROVE  /\ file' \in [Session -> FileType]
         /\ file'[s].open = file[s].open /\ file'[s].opened = file[s].opened
         /\ file'[s].arrived = file[s].arrived
         /\ file'[s].up = up /\ file'[s].down = down
         /\ \A t \in Session \ {s} : file'[t] = file[t]
<1>1. file \in [Session -> FileType] /\ file[s] \in FileType
  BY FieldsLemma
<1>2. LET c == [file[s] EXCEPT !.up = up, !.down = down] IN
        /\ c \in FileType /\ c.up = up /\ c.down = down
        /\ c.open = file[s].open /\ c.opened = file[s].opened
        /\ c.arrived = file[s].arrived
  BY <1>1 DEF FileType
<1>3. QED
  BY <1>1, <1>2

(* What changes in the handler of session s alone.                         *)
LEMMA HandlerLemma ==
  ASSUME TypeOK, NEW s \in Session, NEW alive \in BOOLEAN,
         NEW doing \in Request \cup {None}, NEW got \in Seq(Byte), NEW rest \in Seq(Byte),
         handler' = [handler EXCEPT ![s] =
           [handler[s] EXCEPT !.alive = alive, !.doing = doing, !.got = got, !.rest = rest]]
  PROVE  /\ handler' \in [Session -> HandlerType]
         /\ handler'[s].alive = alive /\ handler'[s].doing = doing
         /\ handler'[s].got = got /\ handler'[s].rest = rest
         /\ handler'[s].claimed = handler[s].claimed
         /\ \A t \in Session \ {s} : handler'[t] = handler[t]
<1>1. handler \in [Session -> HandlerType] /\ handler[s] \in HandlerType
  BY FieldsLemma
<1>2. LET c == [handler[s] EXCEPT !.alive = alive, !.doing = doing, !.got = got,
                                  !.rest = rest] IN
        /\ c \in HandlerType /\ c.alive = alive /\ c.doing = doing
        /\ c.got = got /\ c.rest = rest /\ c.claimed = handler[s].claimed
  BY <1>1 DEF HandlerType
<1>3. QED
  BY <1>1, <1>2

(* A handler, a file or a control channel is what its fields are.          *)
LEMMA SameLemma ==
  ASSUME TypeOK, NEW s \in Session
  PROVE  /\ \A u : [ctl[s] EXCEPT !.up = u]
                   = [ctl[s] EXCEPT !.up = u, !.down = ctl[s].down]
         /\ \A u : [file[s] EXCEPT !.up = u]
                   = [file[s] EXCEPT !.up = u, !.down = file[s].down]
         /\ \A d : [file[s] EXCEPT !.down = d]
                   = [file[s] EXCEPT !.up = file[s].up, !.down = d]
         /\ \A m, g, r : [handler[s] EXCEPT !.doing = m, !.got = g, !.rest = r]
                         = [handler[s] EXCEPT !.alive = handler[s].alive,
                                              !.doing = m, !.got = g, !.rest = r]
         /\ \A m, r : [handler[s] EXCEPT !.doing = m, !.rest = r]
                      = [handler[s] EXCEPT !.alive = handler[s].alive, !.doing = m,
                                           !.got = handler[s].got, !.rest = r]
         /\ \A r : [handler[s] EXCEPT !.rest = r]
                   = [handler[s] EXCEPT !.alive = handler[s].alive,
                                        !.doing = handler[s].doing,
                                        !.got = handler[s].got, !.rest = r]
         /\ \A g, m : [handler[s] EXCEPT !.got = g, !.doing = m]
                      = [handler[s] EXCEPT !.alive = handler[s].alive, !.doing = m,
                                           !.got = g, !.rest = handler[s].rest]
<1>1. ctl[s] \in CtlType /\ file[s] \in FileType /\ handler[s] \in HandlerType
  BY FieldsLemma
<1>2. QED
  BY <1>1 DEF CtlType, FileType, HandlerType

LEMMA OpLemma ==
  ASSUME IInv, op # None
  PROVE  /\ op \in Op /\ op.what \in Kind /\ op.x \in Name /\ op.n \in 1 .. Ops
         /\ op.left \in 0 .. 2 /\ op.got \in Seq(Byte)
         /\ \A e \in BOOLEAN : Mine(e) \in Request /\ Mine(e).what = op.what
                               /\ Mine(e).end = e /\ Mine(e).x = op.x /\ Mine(e).n = op.n
         /\ \A pc \in {"begin", "reply", "bytes", "ack"} :
              LET o == [op EXCEPT !.pc = pc] IN
              /\ o \in Op /\ o.pc = pc /\ o.what = op.what /\ o.x = op.x
              /\ o.n = op.n /\ o.got = op.got /\ o.left = op.left
         /\ Usable /\ cur \in Session /\ ctl[cur].open
<1>1. op \in Op
  BY DEF IInv, TypeOK
<1>2. op.what \in Kind /\ op.x \in Name /\ op.n \in 1 .. Ops
      /\ op.left \in 0 .. 2 /\ op.got \in Seq(Byte)
  BY <1>1 DEF Op
<1>3. \A e \in BOOLEAN : Mine(e) \in Request /\ Mine(e).what = op.what
                         /\ Mine(e).end = e /\ Mine(e).x = op.x /\ Mine(e).n = op.n
  BY <1>2 DEF Mine, Request
<1>4. \A pc \in {"begin", "reply", "bytes", "ack"} :
        LET o == [op EXCEPT !.pc = pc] IN
        /\ o \in Op /\ o.pc = pc /\ o.what = op.what /\ o.x = op.x
        /\ o.n = op.n /\ o.got = op.got /\ o.left = op.left
  BY <1>1 DEF Op
<1>5. Usable /\ cur \in Session /\ ctl[cur].open
  BY UsableLemma DEF IInv, Attended
<1>6. QED
  BY <1>1, <1>2, <1>3, <1>4, <1>5

LEMMA SendStep ==
  ASSUME IInv, Send
  PROVE  IInv'
<1>1. PICK s \in Session : s = cur /\ ctl[s].open
  BY UsableLemma DEF Send, Doing
<1>2. op # None /\ op.pc = "begin"
  BY DEF Send, Doing
<1>3. ctl[s].up \in Seq(Request) /\ ctl[s].down \in Seq(Reply) /\ ctl[s].open \in BOOLEAN
  BY FieldsLemma DEF IInv
<1>4. Mine(FALSE) \in Request
  BY <1>2, OpLemma
<1> DEFINE up == Append(ctl[s].up, Mine(FALSE))
<1>5. /\ up \in Seq(Request) /\ Len(up) = Len(ctl[s].up) + 1 /\ up # <<>>
      /\ \A i \in 1 .. Len(ctl[s].up) : up[i] = ctl[s].up[i]
      /\ up[Len(ctl[s].up) + 1] = Mine(FALSE)
  <2> DEFINE m == Mine(FALSE)
  <2>1. m \in Request
    BY <1>4
  <2>2. up = Append(ctl[s].up, m)
    OBVIOUS
  <2> HIDE DEF m, up
  <2>3. /\ up \in Seq(Request) /\ Len(up) = Len(ctl[s].up) + 1
        /\ \A i \in 1 .. Len(ctl[s].up) : up[i] = ctl[s].up[i]
        /\ up[Len(ctl[s].up) + 1] = m
    BY <1>3, <2>1, <2>2, AppendProperties
  <2>4. up # <<>>
    <3>1. Len(up) # 0
      BY <1>3, <2>3
    <3>2. QED
      BY <3>1
  <2>5. QED
    BY <2>3, <2>4 DEF m
<1> HIDE DEF up
<1>6. /\ ctl' \in [Session -> CtlType]
      /\ ctl'[s].open = ctl[s].open /\ ctl'[s].up = up /\ ctl'[s].down = ctl[s].down
      /\ \A t \in Session \ {s} : ctl'[t] = ctl[t]
  <2>1. ctl' = [ctl EXCEPT ![s] = [ctl[s] EXCEPT !.up = up]]
    BY <1>1 DEF Send, Sent, up, Mine
  <2>2. ctl' = [ctl EXCEPT ![s] = [ctl[s] EXCEPT !.up = up, !.down = ctl[s].down]]
    BY <2>1, SameLemma DEF IInv
  <2>3. QED
    BY <1>3, <1>5, <2>2, CtlLemma DEF IInv
<1>7. /\ op' \in Op /\ op'.pc = "reply" /\ op'.what = op.what /\ op'.x = op.x
      /\ op'.n = op.n /\ op'.got = op.got /\ op'.left = op.left
      /\ op' # None
  BY <1>2, OpLemma, NoneAssumption DEF Send
<1>8. UNCHANGED <<file, handler, parked, stored, cur, ops, done, early>>
  BY DEF Send
<1>9. TypeOK'
  BY <1>6, <1>7, <1>8 DEF IInv, TypeOK, CtlType
<1>10. op.what # "show" => file[s].opened
  BY <1>1, <1>2 DEF IInv, Attended
<1>11. op.what \in {"write", "read"} => op.x \in Photo
  BY <1>2 DEF IInv, Attended
<1>12. op.what = "list" => op.x = "list"
  BY <1>2 DEF IInv, Attended
<1>13. \A i \in 1 .. Len(up) : i \in 1 .. Len(ctl[s].up) \/ i = Len(ctl[s].up) + 1
  BY <1>3, <1>5
<1>14. Mine(FALSE).what = op.what /\ Mine(FALSE).x = op.x /\ Mine(FALSE)' = Mine(FALSE)
  BY <1>7 DEF Mine
<1>15. Apart'
  <2>1. Matched(s) /\ Writing(s) /\ Waiting
    BY DEF IInv, Apart
  <2>2. Matched(s)'
    BY <1>5, <1>6, <1>8, <1>10, <1>13, <1>14, <2>1 DEF Matched
  <2>3. Writing(s)'
    <3>1. \A i \in 1 .. Len(up) : (up[i].what = "write" => up[i].x \in Photo)
                                  /\ (up[i].what = "list" => up[i].x = "list")
      BY <1>5, <1>11, <1>12, <1>13, <1>14, <2>1 DEF Writing, Storing, Asked
    <3>2. handler'[s] = handler[s] /\ file'[s] = file[s]
      BY <1>8
    <3>3. QED
      <4>1. Storing(s)'
        BY <2>1, <3>2 DEF Writing, Storing
      <4>2. Asked(s)'
        BY <1>6, <3>1 DEF Asked
      <4>3. QED
        BY <4>1, <4>2 DEF Writing
  <2>4. Waiting'
    BY <1>8, <2>1 DEF Waiting
  <2>5. ~(s > cur)
    BY <1>1 DEF Session
  <2>6. QED
    BY <1>1, <1>6, <1>8, <2>2, <2>3, <2>4, <2>5, ApartLemma DEF IInv
<1>16. Requested'
  <2>1. Resting
    BY <1>2, OpLemma DEF IInv, Conversing
  <2>2. Up' = up /\ Down' = Down /\ Up = ctl[s].up
    BY <1>1, <1>6, <1>8 DEF Up, Down
  <2>3. \A i \in 1 .. Len(up) - 1 : LateEnd(up[i])
    BY <1>3, <1>5, <2>1, <2>2 DEF Resting, LateUp
  <2>4. up[Len(up)] = Mine(FALSE)
    BY <1>5
  <2>5. LateDown' /\ Sending' /\ Still'
    BY <1>2, <1>7, <1>8, <2>1, <2>2 DEF Resting, LateDown, Sending, Still, Stale, Clear
  <2>6. QED
    BY <1>5, <1>7, <1>8, <1>14, <2>2, <2>3, <2>4, <2>5 DEF Requested
<1>17. Conversing'
  BY <1>2, <1>7, <1>16, OpLemma DEF Conversing, IInv
<1>18. Attended'
  BY <1>1, <1>2, <1>6, <1>7, <1>8 DEF IInv, Attended, Usable, Session
<1>19. QED
  BY <1>8, <1>9, <1>15, <1>17, <1>18 DEF IInv, StoredWhole, Results

(* A step that ends the operation or takes it on, and leaves the channels. *)
LEMMA UnconfirmedStep ==
  ASSUME IInv, Unconfirmed
  PROVE  IInv'
<1>1. /\ op # None /\ op.pc = "ack" /\ op.what \in {"read", "list"}
      /\ done' = op /\ op' = None
      /\ UNCHANGED <<ctl, file, handler, parked, stored, cur, ops, early>>
  BY DEF Unconfirmed, Doing
<1>2. TypeOK'
  BY <1>1 DEF IInv, TypeOK
<1>3. Apart'
  BY <1>1 DEF IInv, Apart, Unused, Matched, Writing, Storing, Asked, Waiting
<1>4. Closing /\ cur \in Session
  BY <1>1, OpLemma DEF IInv, Conversing
<1>5. Sending
  <2>1. Free \/ Busy
    BY <1>4 DEF Closing
  <2>2. Mine(FALSE).what = op.what
    BY <1>1, OpLemma
  <2>3. QED
    BY <1>1, <2>1, <2>2 DEF Sending, Free, Busy
<1>6. LateUp /\ LateDown
  <2>1. CASE Up = <<Mine(TRUE)>> /\ Down = <<>>
    <3>1. Len(Up) = 1 /\ Up[1] = Mine(TRUE) /\ Len(Down) = 0
      BY <2>1
    <3>2. Mine(TRUE).end = TRUE /\ Mine(TRUE).what = op.what
      BY <1>1, OpLemma
    <3>3. LateEnd(Up[1])
      BY <1>1, <3>1, <3>2 DEF LateEnd
    <3>4. QED
      <4>1. LateUp
        <5>1. \A i \in 1 .. Len(Up) : i = 1
          BY <3>1
        <5>2. QED
          BY <3>3, <5>1 DEF LateUp
      <4>2. LateDown
        BY <3>1 DEF LateDown
      <4>3. QED
        BY <4>1, <4>2
  <2>2. CASE /\ Up = <<>> /\ Len(Down) = 1
             /\ Down[1].what = op.what /\ Down[1].act = "ok"
    BY <1>1, <2>2 DEF LateUp, LateDown, LateOk
  <2>3. QED
    BY <1>4, <2>1, <2>2 DEF Closing
<1>7. Resting'
  <2>1. Up' = Up /\ Down' = Down
    BY <1>1 DEF Up, Down
  <2>2. Still'
    <3>1. op.left \in Nat /\ (~(op.left > 0) => op.left = 0)
      BY <1>1, OpLemma
    <3>2. ~Stale' => ~early /\ op.left = 0
      BY <1>1, <3>1 DEF Stale, Short
    <3>3. QED
      BY <1>1, <1>4, <3>2 DEF Closing, Still, Clear
  <2>3. QED
    BY <1>1, <1>5, <1>6, <2>1, <2>2 DEF Resting, LateUp, LateDown, Sending
<1>8. Conversing' /\ Attended'
  BY <1>1, <1>7 DEF Conversing, Attended
<1>9. Results'
  BY <1>1, <1>4 DEF Results, Closing, IInv, Attended
<1>10. QED
  BY <1>1, <1>2, <1>3, <1>8, <1>9 DEF IInv, StoredWhole

(* The session is closed; no file channel of it waits any more.            *)
LEMMA CloseLemma ==
  ASSUME IInv, Usable, Claimed(cur), Close, op' = None,
         UNCHANGED <<handler, parked, stored, cur, ops, done, early>>
  PROVE  IInv'
<1>1. PICK s \in Session : s = cur /\ ctl[s].open
  BY UsableLemma
<1>2. /\ ctl[s].up \in Seq(Request) /\ file[s].up \in Seq(Byte)
      /\ file \in [Session -> FileType] /\ file[s] \in FileType
      /\ ctl \in [Session -> CtlType] /\ ctl[s] \in CtlType
  BY FieldsLemma DEF IInv
<1>3. /\ ctl' \in [Session -> CtlType]
      /\ ctl'[s].open = FALSE /\ ctl'[s].up = ctl[s].up
      /\ \A t \in Session \ {s} : ctl'[t] = ctl[t]
  <2>1. ctl' = [ctl EXCEPT ![s] = [ctl[s] EXCEPT !.open = FALSE, !.down = <<>>]]
    BY <1>1 DEF Close
  <2>2. LET c == [ctl[s] EXCEPT !.open = FALSE, !.down = <<>>] IN
          c \in CtlType /\ c.open = FALSE /\ c.up = ctl[s].up
    <3>1. <<>> \in Seq(Reply) /\ FALSE \in BOOLEAN
      OBVIOUS
    <3>2. QED
      BY <1>2, <3>1 DEF CtlType
  <2>3. QED
    BY <1>2, <2>1, <2>2
<1>4. /\ file' \in [Session -> FileType]
      /\ file'[s].opened = file[s].opened /\ file'[s].arrived = file[s].arrived
      /\ file'[s].up = file[s].up
      /\ \A t \in Session \ {s} : file'[t] = file[t]
  <2>1. file' = [file EXCEPT ![s] = [file[s] EXCEPT !.open = FALSE, !.down = <<>>]]
    BY <1>1 DEF Close
  <2>2. LET f == [file[s] EXCEPT !.open = FALSE, !.down = <<>>] IN
          /\ f \in FileType /\ f.opened = file[s].opened /\ f.arrived = file[s].arrived
          /\ f.up = file[s].up
    <3>1. <<>> \in Seq(Byte) /\ FALSE \in BOOLEAN
      OBVIOUS
    <3>2. QED
      BY <1>2, <3>1 DEF FileType
  <2>3. QED
    BY <1>2, <2>1, <2>2
<1>5. TypeOK'
  BY <1>3, <1>4 DEF IInv, TypeOK, CtlType, FileType
<1>6. Apart'
  <2>1. Matched(s) /\ Writing(s) /\ Waiting
    BY DEF IInv, Apart
  <2>2. Matched(s)'
    BY <1>1, <1>3, <1>4, <2>1 DEF Matched, Claimed
  <2>3. Writing(s)'
    BY <1>3, <1>4, <2>1 DEF Writing, Storing, Asked
  <2>4. Waiting'
    BY <1>1, <1>4, <2>1 DEF Waiting
  <2>5. ~(s > cur)
    BY <1>1 DEF Session
  <2>6. QED
    BY <1>1, <1>3, <1>4, <2>2, <2>3, <2>4, <2>5, ApartLemma DEF IInv
<1>7. ~Usable'
  BY <1>1, <1>3 DEF Usable
<1>8. QED
  BY <1>5, <1>6, <1>7 DEF IInv, StoredWhole, Attended, Results

LEMMA GiveUpStep ==
  ASSUME IInv, GiveUp
  PROVE  IInv'
BY CloseLemma DEF GiveUp

LEMMA LostStep ==
  ASSUME IInv, ~Vanishes, Lost
  PROVE  IInv'
BY CloseLemma DEF Lost

(* Which reply the hub takes: a late one while it waits, and else its own. *)
LEMMA ReplyLemma ==
  ASSUME IInv, NEW m, op # None, op.pc \in {"reply", "ack"}, Down # <<>>,
         m = Head(Down)
  PROVE  /\ m \in Reply /\ m = Down[1] /\ m.n \in 1 .. Ops /\ m.size \in {0, 2}
         /\ Wanted(m) /\ op.pc = "reply" =>
              /\ Answered /\ Len(Down) = 1 /\ m = Down[Len(Down)]
              /\ m.act = (IF op.what = "show" THEN "ok" ELSE "started")
         /\ op.pc = "ack" =>
              /\ Wanted(m) /\ m.act = "ok" /\ m.n = op.n /\ Closing
              /\ Up = <<>> /\ Len(Down) = 1 /\ Free
              /\ op.what = "write" => stored[op.x] = Whole(op.x)
         /\ ~Wanted(m) => /\ op.pc = "reply" /\ op.got = <<>>
                          /\ Requested \/ (Answered /\ Len(Down) > 1)
<1>1. Down \in Seq(Reply) /\ cur \in Session
  BY OpLemma, FieldsLemma DEF IInv, Down
<1>2. m \in Reply /\ m = Down[1] /\ Len(Down) \in Nat /\ Len(Down) > 0
  BY <1>1, HeadLemma
<1>3. m.n \in 1 .. Ops /\ m.size \in {0, 2} /\ m.what \in Kind /\ m.act \in {"started", "ok"}
  BY <1>2 DEF Reply
<1>4. Conversing
  BY OpLemma DEF IInv
<1>5. op.pc = "reply" => op.got = <<>> /\ (Requested \/ Answered)
  BY <1>4 DEF Conversing
<1>6. op.pc = "ack" => Closing
  BY <1>4 DEF Conversing
<1>7. LateOk(m) /\ op.pc = "reply" => ~Wanted(m)
  BY DEF LateOk, Wanted
<1>8. Requested => LateOk(m)
  BY <1>2 DEF Requested, LateDown
<1>9. Answered /\ Len(Down) > 1 => LateOk(m)
  <2>1. Len(Down) > 1 => 1 \in 1 .. Len(Down) - 1
    BY <1>2
  <2>2. QED
    BY <1>2, <2>1 DEF Answered
<1>10. Answered /\ Len(Down) = 1 /\ op.pc = "reply" =>
         /\ Wanted(m) /\ m = Down[Len(Down)]
         /\ m.act = (IF op.what = "show" THEN "ok" ELSE "started")
  BY <1>2 DEF Answered, Wanted
<1>11. op.pc = "ack" =>
         /\ Wanted(m) /\ m.act = "ok" /\ m.n = op.n
         /\ Up = <<>> /\ Len(Down) = 1 /\ Free
         /\ op.what = "write" => stored[op.x] = Whole(op.x)
  BY <1>2, <1>6 DEF Closing, Wanted
<1>12. Len(Down) = 1 \/ Len(Down) > 1
  <2>1. Len(Down) \in Nat /\ Len(Down) > 0
    BY <1>2
  <2>2. \A n \in Nat : n > 0 => n = 1 \/ n > 1
    OBVIOUS
  <2>3. QED
    BY <2>1, <2>2
<1>13. QED
  BY <1>2, <1>3, <1>5, <1>6, <1>7, <1>8, <1>9, <1>10, <1>11, <1>12

LEMMA ByLemma ==
  ASSUME op \in Op, NEW n \in 1 .. Ops
  PROVE  [op EXCEPT !.by = n] # None
<1>1. [op EXCEPT !.by = n] \in Op
  BY DEF Op
<1>2. QED
  BY <1>1, NoneAssumption

LEMMA TakeStep ==
  ASSUME IInv, Take
  PROVE  IInv'
<1>1. PICK s \in Session : s = cur /\ ctl[s].open
  BY UsableLemma DEF Take, Doing
<1>2. op # None /\ op.pc \in {"reply", "ack"} /\ Down # <<>> /\ Down = ctl[s].down
      /\ Up = ctl[s].up
  BY <1>1 DEF Take, Doing, Up, Down
<1>3. PICK m : m = Head(Down)
  OBVIOUS
<1> DEFINE upload == Wanted(m) /\ op.what = "write" /\ op.pc = "reply"
           last == Wanted(m) /\ m.act = "ok"
           up == IF upload THEN Append(Up, Mine(TRUE)) ELSE Up
           bytes == IF upload THEN file[s].up \o Whole(op.x) ELSE file[s].up
<1>4. /\ Up \in Seq(Request) /\ Down \in Seq(Reply) /\ file[s].up \in Seq(Byte)
      /\ file[s].down \in Seq(Byte)
  BY <1>2, FieldsLemma DEF IInv
<1>5. /\ Tail(Down) \in Seq(Reply) /\ Len(Tail(Down)) = Len(Down) - 1
      /\ \A i \in 1 .. Len(Down) - 1 : Tail(Down)[i] = Down[i + 1]
      /\ Len(Down) \in Nat /\ Len(Down) > 0
      /\ Len(Down) = 1 => Tail(Down) = <<>>
  BY <1>2, <1>4, HeadLemma
<1>6. up \in Seq(Request) /\ bytes \in Seq(Byte)
  <2>1. Mine(TRUE) \in Request /\ Whole(op.x) \in Seq(Byte)
    BY <1>2, OpLemma, WholeLemma
  <2> DEFINE r == Mine(TRUE)
  <2> HIDE DEF r
  <2>2. r \in Request
    BY <2>1 DEF r
  <2>3. Append(Up, r) \in Seq(Request)
    BY <1>4, <2>2, AppendProperties
  <2>4. file[s].up \o Whole(op.x) \in Seq(Byte)
    BY <1>4, <2>1, ConcatProperties
  <2>5. QED
    BY <1>4, <2>3, <2>4 DEF r
<1>7. /\ ctl' = [ctl EXCEPT ![s] = [ctl[s] EXCEPT !.up = up, !.down = Tail(Down)]]
      /\ IF upload THEN file' = [file EXCEPT ![s] = [file[s] EXCEPT !.up = bytes]]
                   ELSE file' = file
      /\ done' = IF last THEN [op EXCEPT !.by = m.n] ELSE done
      /\ op' = IF last THEN None
               ELSE IF upload THEN [op EXCEPT !.pc = "ack"]
               ELSE IF Wanted(m) THEN [op EXCEPT !.pc = "bytes", !.left = m.size]
               ELSE op
      /\ UNCHANGED <<handler, parked, stored, cur, ops, early>>
  <2>1. ctl' = [ctl EXCEPT ![cur].down = Tail(@), ![cur].up = IF upload THEN Sent(TRUE) ELSE @]
    BY <1>1, <1>2, <1>3 DEF Take
  <2>2. ctl' = [ctl EXCEPT ![s] = [ctl[s] EXCEPT !.up = up, !.down = Tail(Down)]]
    BY <1>1, <1>2, <2>1 DEF Sent, Mine
  <2>3. IF upload THEN file' = [file EXCEPT ![s] = [file[s] EXCEPT !.up = bytes]]
                  ELSE file' = file
    BY <1>1, <1>2, <1>3 DEF Take, SendBytes
  <2>4. done' = IF last THEN [op EXCEPT !.by = m.n] ELSE done
    BY <1>1, <1>2, <1>3 DEF Take
  <2>5. op' = IF last THEN None
              ELSE IF upload THEN [op EXCEPT !.pc = "ack"]
              ELSE IF Wanted(m) THEN [op EXCEPT !.pc = "bytes", !.left = m.size]
              ELSE op
    BY <1>1, <1>2, <1>3 DEF Take
  <2>6. UNCHANGED <<handler, parked, stored, cur, ops, early>>
    BY DEF Take
  <2>7. QED
    BY <2>2, <2>3, <2>4, <2>5, <2>6
<1>8. /\ ctl' \in [Session -> CtlType]
      /\ ctl'[s].open = ctl[s].open /\ ctl'[s].up = up /\ ctl'[s].down = Tail(Down)
      /\ \A t \in Session \ {s} : ctl'[t] = ctl[t]
  <2> HIDE DEF up
  <2>1. QED
    BY <1>5, <1>6, <1>7, CtlLemma DEF IInv
<1>9. /\ file' \in [Session -> FileType]
      /\ file'[s].open = file[s].open /\ file'[s].opened = file[s].opened
      /\ file'[s].arrived = file[s].arrived
      /\ file'[s].up = bytes /\ file'[s].down = file[s].down
      /\ \A t \in Session \ {s} : file'[t] = file[t]
  <2>1. CASE upload
    <3> HIDE DEF bytes
    <3>1. file' = [file EXCEPT ![s] = [file[s] EXCEPT !.up = bytes, !.down = file[s].down]]
      BY <1>7, <2>1, SameLemma DEF IInv
    <3>2. QED
      BY <1>4, <1>6, <3>1, FileLemma DEF IInv
  <2>2. CASE ~upload
    BY <1>7, <2>2, FieldsLemma DEF IInv
  <2>3. QED
    BY <2>1, <2>2
<1>10. /\ m \in Reply /\ m = Down[1] /\ m.n \in 1 .. Ops /\ m.size \in {0, 2}
       /\ Wanted(m) /\ op.pc = "reply" =>
            /\ Answered /\ Len(Down) = 1 /\ m = Down[Len(Down)]
            /\ m.act = (IF op.what = "show" THEN "ok" ELSE "started")
       /\ op.pc = "ack" =>
            /\ Wanted(m) /\ m.act = "ok" /\ m.n = op.n /\ Closing
            /\ Up = <<>> /\ Len(Down) = 1 /\ Free
            /\ op.what = "write" => stored[op.x] = Whole(op.x)
       /\ ~Wanted(m) => /\ op.pc = "reply" /\ op.got = <<>>
                        /\ Requested \/ (Answered /\ Len(Down) > 1)
  BY <1>2, <1>3, ReplyLemma
<1>11. op \in Op /\ op.what \in Kind /\ op.x \in Name /\ op.got \in Seq(Byte)
  BY <1>2, OpLemma
<1>12. TypeOK'
  <2>1. [op EXCEPT !.by = m.n] \in Op
    <3>1. m.n \in 0 .. Ops
      BY <1>10
    <3>2. QED
      BY <1>11, <3>1 DEF Op
  <2>2. [op EXCEPT !.pc = "ack"] \in Op
    BY <1>11 DEF Op
  <2>3. [op EXCEPT !.pc = "bytes", !.left = m.size] \in Op
    <3>1. m.size \in 0 .. 2
      BY <1>10
    <3>2. QED
      BY <1>11, <3>1 DEF Op
  <2>4. op' \in Op \cup {None} /\ done' \in Op \cup {None}
    <3> HIDE DEF upload, last
    <3>1. QED
      BY <1>7, <1>11, <2>1, <2>2, <2>3 DEF IInv, TypeOK
  <2>5. handler' = handler /\ parked' = parked /\ stored' = stored /\ cur' = cur
        /\ ops' = ops /\ early' = early
    BY <1>7
  <2>6. QED
    BY <1>8, <1>9, <2>4, <2>5 DEF IInv, TypeOK, CtlType, FileType
<1>13. upload =>
         /\ Up = <<>> /\ Len(Down) = 1 /\ Answered
         /\ file[s].up = <<>> /\ bytes = Whole(op.x)
         /\ Len(up) = 1 /\ up[1] = Mine(TRUE) /\ up = <<Mine(TRUE)>>
         /\ handler[s].alive => Busy /\ handler[s].got = <<>>
         /\ op.x \in Photo /\ file[s].opened
  <2> SUFFICES ASSUME upload
               PROVE  /\ Up = <<>> /\ Len(Down) = 1 /\ Answered
                      /\ file[s].up = <<>> /\ bytes = Whole(op.x)
                      /\ Len(up) = 1 /\ up[1] = Mine(TRUE) /\ up = <<Mine(TRUE)>>
                      /\ handler[s].alive => Busy /\ handler[s].got = <<>>
                      /\ op.x \in Photo /\ file[s].opened
    OBVIOUS
  <2>1. Answered /\ Len(Down) = 1 /\ op.what = "write"
    BY <1>10
  <2>2. Up = <<>> /\ file[s].up = <<>> /\ (handler[s].alive => Busy /\ handler[s].got = <<>>)
    BY <1>1, <2>1 DEF Answered
  <2>3. op.x \in Photo /\ file[s].opened
    BY <1>1, <1>2, <2>1 DEF IInv, Attended
  <2>4. Whole(op.x) \in Seq(Byte)
    BY <1>11, WholeLemma
  <2>5. bytes = <<>> \o Whole(op.x)
    BY <2>2
  <2>6. bytes = Whole(op.x)
    BY <2>4, <2>5, ConcatEmptySeq
  <2>7. \A r : /\ Append(<<>>, r) = <<r>>
               /\ Len(<<r>>) = 1 /\ <<r>>[1] = r
    OBVIOUS
  <2>8. Len(up) = 1 /\ up[1] = Mine(TRUE) /\ up = <<Mine(TRUE)>>
    <3>1. up = Append(<<>>, Mine(TRUE))
      BY <2>2
    <3>2. QED
      BY <2>7, <3>1
  <2>9. QED
    BY <2>1, <2>2, <2>3, <2>6, <2>8
<1>14. ~upload => up = Up /\ bytes = file[s].up
  OBVIOUS
<1>15. Apart'
  <2>1. Matched(s) /\ Storing(s) /\ Asked(s) /\ Waiting
    BY DEF IInv, Apart, Writing
  <2>2. Matched(s)'
    <3>1. \A i \in 1 .. Len(up) : up[i].what # "show" => file[s].opened
      <4>1. CASE upload
        BY <1>13, <4>1
      <4>2. CASE ~upload
        BY <1>2, <1>14, <2>1, <4>2 DEF Matched
      <4>3. QED
        BY <4>1, <4>2
    <3> HIDE DEF up, bytes, upload
    <3>2. QED
      BY <1>7, <1>8, <1>9, <2>1, <3>1 DEF Matched
  <2>3. Storing(s)'
    <3>1. CASE upload
      <4>1. /\ handler' = handler /\ file'[s].up = Whole(op.x)
            /\ handler[s].alive => Busy /\ handler[s].got = <<>>
        BY <1>7, <1>9, <1>13, <3>1
      <4>2. /\ Mine(FALSE).what = "write" /\ Mine(FALSE).x = op.x /\ Mine(FALSE) # None
        BY <1>2, <3>1, OpLemma, NoneAssumption
      <4>3. handler[s].doing # None =>
              /\ handler[s].alive /\ handler[s].got = <<>>
              /\ handler[s].doing.what = "write" /\ handler[s].doing.x = op.x
        BY <1>1, <2>1, <4>1, <4>2 DEF Storing, Busy
      <4>4. handler[s].alive => handler[s].doing # None /\ handler[s].doing.what = "write"
        BY <1>1, <4>1, <4>2 DEF Busy
      <4>5. Run(<<>>, op.x, 0) /\ Len(<<>>) = 0
        BY DEF Run
      <4>6. Run(Whole(op.x), op.x, 0) /\ Len(Whole(op.x)) = 2
        BY <1>11, WholeLemma
      <4>7. QED
        BY <2>1, <4>1, <4>3, <4>4, <4>5, <4>6 DEF Storing
    <3>2. CASE ~upload
      BY <1>7, <1>9, <1>14, <2>1, <3>2 DEF Storing
    <3>3. QED
      BY <3>1, <3>2
  <2>4. Asked(s)'
    <3>1. CASE upload
      <4>1. /\ ctl'[s].up = up /\ Len(up) = 1 /\ up[1] = Mine(TRUE)
            /\ Mine(TRUE).what = "write" /\ Mine(TRUE).x \in Photo
        BY <1>2, <1>8, <1>13, <3>1, OpLemma
      <4>2. \A i \in 1 .. Len(up) : up[i] = Mine(TRUE)
        <5> HIDE DEF up, upload
        <5>1. \A i \in 1 .. Len(up) : i = 1
          BY <4>1
        <5>2. QED
          BY <4>1, <5>1
      <4>3. QED
        BY <4>1, <4>2 DEF Asked
    <3>2. CASE ~upload
      BY <1>2, <1>8, <1>14, <2>1, <3>2 DEF Asked
    <3>3. QED
      BY <3>1, <3>2
  <2>5. Waiting'
    BY <1>1, <1>7, <1>9, <2>1 DEF Waiting
  <2>6. ~(s > cur)
    BY <1>1 DEF Session
  <2>7. handler' = handler /\ cur' = cur
    BY <1>7
  <2>8. QED
    BY <1>1, <1>8, <1>9, <2>2, <2>3, <2>4, <2>5, <2>6, <2>7, ApartLemma DEF IInv, Writing
<1>16. /\ Up' = up /\ Down' = Tail(Down) /\ Usable' /\ (Free' <=> Free) /\ (Clear' <=> Clear)
       /\ handler' = handler /\ stored' = stored /\ early' = early /\ cur' = cur
       /\ file'[cur].down = file[cur].down
  BY <1>1, <1>7, <1>8, <1>9 DEF Up, Down, Usable, Free, Clear
<1> HIDE DEF up, bytes
<1>17. CASE ~Wanted(m)
  <2>1. op' = op /\ done' = done /\ file' = file /\ up = Up
    BY <1>7, <1>14, <1>17
  <2>2. Mine(TRUE)' = Mine(TRUE) /\ Mine(FALSE)' = Mine(FALSE) /\ (Busy' <=> Busy)
    BY <1>16, <2>1 DEF Mine, Busy
  <2>3. op.pc = "reply" /\ op.got = <<>> /\ (Requested \/ (Answered /\ Len(Down) > 1))
    BY <1>10, <1>17
  <2>4. ASSUME Requested
        PROVE  Conversing'
    <3>1. LateDown'
      BY <1>5, <1>16, <2>4 DEF Requested, LateDown
    <3>2. Sending' /\ Still'
      BY <1>16, <2>1, <2>4 DEF Requested, Sending, Still, Stale, Short
    <3>3. Requested'
      BY <1>16, <2>1, <2>2, <2>4, <3>1, <3>2 DEF Requested
    <3>4. QED
      BY <1>2, <2>1, <2>3, <3>3 DEF Conversing
  <2>5. ASSUME Answered, Len(Down) > 1
        PROVE  Conversing'
    <3>1. /\ Len(Down') = Len(Down) - 1 /\ Down'[Len(Down')] = Down[Len(Down)]
          /\ Down' # <<>>
      BY <1>5, <1>16, <2>5
    <3>2. \A i \in 1 .. Len(Down') - 1 : LateOk(Down'[i])
      <4>1. ASSUME NEW i \in 1 .. Len(Down') - 1
            PROVE  LateOk(Down'[i])
        <5>1. i + 1 \in 1 .. Len(Down) - 1 /\ Down'[i] = Down[i + 1]
          BY <1>5, <1>16, <3>1, <4>1
        <5>2. QED
          BY <2>5, <5>1 DEF Answered
      <4>2. QED
        BY <4>1
    <3>3. \A size : Streaming(size) => Streaming(size)'
      BY <1>16, <2>1 DEF Streaming
    <3>4. Answered'
      BY <1>16, <2>1, <2>2, <2>5, <3>1, <3>2, <3>3 DEF Answered
    <3>5. QED
      BY <1>2, <2>1, <2>3, <3>4 DEF Conversing
  <2>6. Conversing'
    BY <2>3, <2>4, <2>5
  <2>7. Attended' /\ Results'
    BY <1>1, <1>16, <2>1 DEF IInv, Attended, Results
  <2>8. QED
    BY <1>12, <1>15, <1>16, <2>6, <2>7 DEF IInv, StoredWhole
<1>18. CASE last
  <2>1. op' = None /\ done' = [op EXCEPT !.by = m.n] /\ up = Up
    BY <1>7, <1>10, <1>14, <1>18
  <2>2. /\ done'.what = op.what /\ done'.x = op.x /\ done'.got = op.got
        /\ done'.n = op.n /\ done'.by = m.n /\ done'.left = op.left
    BY <1>11, <2>1 DEF Op
  <2>3. Tail(Down) = <<>> /\ Up = <<>> /\ Free /\ m.n = op.n
        /\ (~early /\ op.left = 0 => Clear)
    <3>1. CASE op.pc = "reply"
      BY <1>5, <1>10, <1>18, <3>1 DEF Answered
    <3>2. CASE op.pc = "ack"
      BY <1>5, <1>10, <3>2 DEF Closing
    <3>3. QED
      BY <1>2, <3>1, <3>2
  <2>4. Resting'
    <3>1. op.left \in Nat /\ (~(op.left > 0) => op.left = 0) /\ op # None
      BY <1>2, OpLemma
    <3>2. done' # None
      BY <1>10, <1>11, <2>1, ByLemma
    <3>3. ~Stale' => ~early /\ op.left = 0
      BY <1>16, <2>1, <2>2, <3>1, <3>2 DEF Stale, Short
    <3>4. handler[cur].doing = None /\ handler[cur].rest = <<>>
      BY <1>1, <2>3 DEF Free, IInv, Apart, Writing, Storing
    <3>5. Still' /\ Sending'
      BY <1>16, <2>3, <3>3, <3>4 DEF Still, Sending
    <3>6. QED
      BY <1>16, <2>1, <2>3, <3>5 DEF Resting, LateUp, LateDown
  <2>5. Conversing' /\ Attended'
    BY <2>1, <2>4 DEF Conversing, Attended
  <2>6. Results'
    <3>1. op.what \in {"read", "list", "write"} => op.pc = "ack"
      BY <1>2, <1>10, <1>18
    <3>2. /\ op.what = "read" => Len(op.got) <= 2
          /\ op.what = "list" => Len(op.got) = 2
          /\ op.what \in {"read", "list"} /\ ~early => Run(op.got, op.x, 0)
          /\ op.what = "write" => stored[op.x] = Whole(op.x)
      BY <1>10, <3>1 DEF Closing
    <3>3. /\ op.what = "list" => op.x = "list"
          /\ op.what = "write" => op.x \in Photo
      BY <1>2 DEF IInv, Attended
    <3>4. QED
      BY <1>16, <2>2, <2>3, <3>2, <3>3 DEF Results
  <2>7. QED
    BY <1>12, <1>15, <1>16, <2>5, <2>6 DEF IInv, StoredWhole
<1>19. CASE Wanted(m) /\ ~last
  <2>1. /\ op.pc = "reply" /\ Answered /\ Len(Down) = 1 /\ m = Down[Len(Down)]
        /\ op.what # "show" /\ Tail(Down) = <<>> /\ Up = <<>>
    BY <1>2, <1>5, <1>10, <1>19 DEF Answered
  <2>2. done' = done
    BY <1>7, <1>19
  <2>3. op.got = <<>>
    BY <1>2, <2>1, OpLemma DEF IInv, Conversing
  <2>4. CASE upload
    <3>1. op' = [op EXCEPT !.pc = "ack"]
      BY <1>7, <1>19, <2>4
    <3>2. /\ op' # None /\ op'.pc = "ack" /\ op'.what = op.what /\ op'.x = op.x
          /\ op'.n = op.n /\ op'.got = op.got /\ op'.left = op.left
      BY <1>2, <3>1, OpLemma, NoneAssumption
    <3>3. Mine(TRUE)' = Mine(TRUE) /\ (Busy' <=> Busy)
      BY <1>16, <3>2 DEF Mine, Busy
    <3>4. Up' = <<Mine(TRUE)'>> /\ Down' = <<>>
      BY <1>13, <1>16, <2>1, <2>4, <3>3
    <3>5. Storing(s)
      BY DEF IInv, Apart, Writing
    <3>6. handler[s].alive => Busy /\ handler[s].got = <<>>
      BY <1>13, <2>4
    <3>7. ~handler[s].alive => Free
      BY <1>1, <3>5 DEF Storing, Free
    <3>8. Busy => ~Free /\ handler[s].doing.what = "write"
      BY <1>1, <1>2, <2>4, OpLemma, NoneAssumption DEF Busy, Free
    <3>9. handler[s].rest = <<>>
      BY <1>1, <3>5, <3>6, <3>7, <3>8 DEF Storing, Free
    <3>10. Busy => Len(handler[cur].got) + Len(file'[cur].up) = 2
      <4>1. SUFFICES ASSUME Busy
                     PROVE  Len(handler[cur].got) + Len(file'[cur].up) = 2
        OBVIOUS
      <4>2. handler[s].alive
        BY <1>1, <3>5, <3>8, <4>1 DEF Storing, Free
      <4>3. handler[s].got = <<>> /\ file'[s].up = Whole(op.x)
        BY <1>9, <1>13, <2>4, <3>6, <4>2
      <4>4. QED
        BY <1>1, <1>11, <4>3, WholeLemma
    <3>11. Clear \/ early
      BY <2>1, <2>4 DEF Answered
    <3>12. Closing'
      BY <1>1, <1>16, <2>4, <3>2, <3>3, <3>4, <3>6, <3>7, <3>8, <3>9, <3>10, <3>11
         DEF Closing
    <3>13. Conversing'
      BY <3>2, <3>12 DEF Conversing
    <3>14. Attended' /\ Results'
      BY <1>1, <1>2, <1>9, <1>16, <2>1, <2>2, <3>2 DEF IInv, Attended, Results
    <3>15. QED
      BY <1>12, <1>15, <1>16, <3>13, <3>14 DEF IInv, StoredWhole
  <2>5. CASE ~upload
    <3>1. op' = [op EXCEPT !.pc = "bytes", !.left = m.size]
      BY <1>7, <1>19, <2>5
    <3>2. /\ op' # None /\ op'.pc = "bytes" /\ op'.what = op.what /\ op'.x = op.x
          /\ op'.n = op.n /\ op'.got = op.got /\ op'.left = m.size /\ op' \in Op
      <4>1. m.size \in 0 .. 2
        BY <1>10
      <4>2. /\ op' \in Op /\ op'.pc = "bytes" /\ op'.what = op.what /\ op'.x = op.x
            /\ op'.n = op.n /\ op'.got = op.got /\ op'.left = m.size
        BY <1>11, <3>1, <4>1 DEF Op
      <4>3. QED
        BY <4>2, NoneAssumption
    <3>3. Mine(TRUE)' = Mine(TRUE) /\ (Busy' <=> Busy)
      BY <1>16, <3>2 DEF Mine, Busy
    <3>4. op.what \in {"read", "list"}
      BY <1>11, <1>19, <2>1, <2>5 DEF Kind
    <3>5. Streaming(m.size) /\ (Free \/ Busy) /\ (op.what = "list" => m.size = 2)
      BY <2>1, <3>4 DEF Answered
    <3>6. Streaming(m.size)'
      BY <1>16, <3>2, <3>5 DEF Streaming
    <3>7. Len(op'.got) + op'.left = m.size
      BY <1>10, <2>3, <3>2
    <3>8. Up' = <<>> /\ Down' = <<>>
      BY <1>14, <1>16, <2>1, <2>5
    <3>9. Receiving'
      BY <1>10, <1>16, <3>2, <3>3, <3>4, <3>5, <3>6, <3>7, <3>8 DEF Receiving
    <3>10. Conversing'
      BY <3>2, <3>9 DEF Conversing
    <3>11. Attended' /\ Results'
      BY <1>1, <1>2, <1>9, <1>16, <2>2, <3>2 DEF IInv, Attended, Results
    <3>12. QED
      BY <1>12, <1>15, <1>16, <3>10, <3>11 DEF IInv, StoredWhole
  <2>6. QED
    BY <2>4, <2>5
<1>20. QED
  BY <1>17, <1>18, <1>19

LEMMA ReceiveStep ==
  ASSUME IInv, Receive
  PROVE  IInv'
<1>1. PICK s \in Session : s = cur /\ ctl[s].open
  BY UsableLemma DEF Receive, Doing
<1>2. op # None /\ op.pc = "bytes" /\ op.left > 0 /\ file[s].down # <<>>
  BY <1>1 DEF Receive, Doing
<1>3. /\ op \in Op /\ op.left \in 0 .. 2 /\ op.got \in Seq(Byte)
      /\ op.what \in Kind /\ op.x \in Name
  BY <1>2, OpLemma
<1>4. /\ file[s].up \in Seq(Byte) /\ file[s].down \in Seq(Byte)
      /\ handler[s].rest \in Seq(Byte)
  BY FieldsLemma DEF IInv
<1> DEFINE down == file[s].down
           got == Append(op.got, Head(down))
           left == op.left - 1
<1>5. /\ Head(down) \in Byte /\ Tail(down) \in Seq(Byte)
      /\ Len(Tail(down)) = Len(down) - 1 /\ Len(down) \in Nat
  BY <1>2, <1>4, HeadLemma
<1>6. got \in Seq(Byte) /\ Len(got) = Len(op.got) + 1 /\ left \in 0 .. 2
      /\ Len(op.got) \in Nat
  <2>1. left \in 0 .. 2
    BY <1>2, <1>3
  <2>2. QED
    BY <1>3, <1>5, <2>1, AppendProperties
<1>7. op' = [op EXCEPT !.got = got, !.left = left]
  BY <1>1 DEF Receive
<1>8. /\ op' \in Op /\ op'.pc = "bytes" /\ op'.what = op.what /\ op'.x = op.x
      /\ op'.n = op.n /\ op'.got = got /\ op'.left = left /\ op' # None
  <2> HIDE DEF got, left
  <2>1. /\ op' \in Op /\ op'.pc = "bytes" /\ op'.what = op.what /\ op'.x = op.x
        /\ op'.n = op.n /\ op'.got = got /\ op'.left = left
    BY <1>2, <1>3, <1>6, <1>7 DEF Op
  <2>2. QED
    BY <2>1, NoneAssumption
<1>9. /\ file' \in [Session -> FileType]
      /\ file'[s].open = file[s].open /\ file'[s].opened = file[s].opened
      /\ file'[s].arrived = file[s].arrived
      /\ file'[s].up = file[s].up /\ file'[s].down = Tail(down)
      /\ \A t \in Session \ {s} : file'[t] = file[t]
  <2>1. file' = [file EXCEPT ![s] = [file[s] EXCEPT !.down = Tail(down)]]
    BY <1>1 DEF Receive
  <2> HIDE DEF down
  <2>2. file' = [file EXCEPT ![s] = [file[s] EXCEPT !.up = file[s].up, !.down = Tail(down)]]
    BY <2>1, SameLemma DEF IInv
  <2>3. QED
    BY <1>4, <1>5, <2>2, FileLemma DEF IInv
<1>10. UNCHANGED <<ctl, handler, parked, stored, cur, ops, done, early>>
  BY DEF Receive
<1>11. TypeOK'
  BY <1>8, <1>9, <1>10 DEF IInv, TypeOK, FileType
<1>12. Apart'
  <2>1. Matched(s) /\ Storing(s) /\ Asked(s) /\ Waiting
    BY DEF IInv, Apart, Writing
  <2>2. Matched(s)'
    BY <1>9, <1>10, <2>1 DEF Matched
  <2>3. Storing(s)'
    BY <1>9, <1>10, <2>1 DEF Storing
  <2>4. Asked(s)'
    BY <1>10, <2>1 DEF Asked
  <2>5. Waiting'
    BY <1>1, <1>9, <1>10, <2>1 DEF Waiting
  <2>6. ~(s > cur)
    BY <1>1 DEF Session
  <2>7. QED
    BY <1>1, <1>9, <1>10, <2>2, <2>3, <2>4, <2>5, <2>6, ApartLemma DEF IInv, Writing
<1>13. Receiving
  BY <1>2, OpLemma DEF IInv, Conversing
<1>14. Receiving'
  <2>1. Mine(FALSE)' = Mine(FALSE) /\ Up' = Up /\ Down' = Down
        /\ (Free' <=> Free) /\ (Busy' <=> Busy)
    BY <1>8, <1>10 DEF Mine, Up, Down, Free, Busy
  <2> DEFINE size == Len(op.got) + op.left
  <2>2. Len(op'.got) + op'.left = size
    BY <1>3, <1>6, <1>8
  <2>3. Streaming(size)'
    <3>1. SUFFICES ASSUME ~early
                   PROVE  /\ Run(got, op.x, 0) /\ Run(Tail(down), op.x, Len(got))
                          /\ Run(handler[s].rest, op.x, Len(got) + Len(Tail(down)))
                          /\ Len(got) + Len(Tail(down)) + Len(handler[s].rest) <= size
      BY <1>1, <1>8, <1>9, <1>10, <2>2 DEF Streaming
    <3>2. /\ Run(op.got, op.x, 0) /\ Run(down, op.x, Len(op.got))
          /\ Run(handler[s].rest, op.x, Len(op.got) + Len(down))
          /\ Len(op.got) + Len(down) + Len(handler[s].rest) <= size
      BY <1>1, <1>13, <3>1 DEF Receiving, Streaming
    <3>3. Len(got) + Len(Tail(down)) = Len(op.got) + Len(down)
      <4> HIDE DEF got, down
      <4>1. QED
        BY <1>5, <1>6
    <3>4. 0 + Len(op.got) = Len(op.got) /\ 0 + Len(op.got) + 1 = Len(got)
      BY <1>6
    <3>5. Run(got, op.x, 0) /\ Run(Tail(down), op.x, Len(got))
      <4>1. 0 \in Nat /\ Run(down, op.x, 0 + Len(op.got))
        BY <3>2, <3>4
      <4>2. Run(got, op.x, 0) /\ Run(Tail(down), op.x, 0 + Len(op.got) + 1)
        BY <1>2, <1>3, <1>4, <3>2, <4>1, MoveLemma
      <4>3. QED
        BY <3>4, <4>2
    <3>6. QED
      BY <3>2, <3>3, <3>5
  <2>4. QED
    BY <1>8, <1>13, <2>1, <2>2, <2>3 DEF Receiving
<1>15. Conversing'
  BY <1>8, <1>14 DEF Conversing
<1>16. Attended' /\ Results'
  BY <1>1, <1>2, <1>8, <1>9, <1>10 DEF IInv, Attended, Usable, Results
<1>17. QED
  BY <1>10, <1>11, <1>12, <1>15, <1>16 DEF IInv, StoredWhole

LEMMA AllReceivedStep ==
  ASSUME IInv, AllReceived
  PROVE  IInv'
<1>1. PICK s \in Session : s = cur /\ ctl[s].open
  BY UsableLemma DEF AllReceived, Doing
<1>2. op # None /\ op.pc = "bytes"
  BY DEF AllReceived, Doing
<1>3. /\ op \in Op /\ op.left \in 0 .. 2 /\ op.got \in Seq(Byte)
      /\ op.what \in Kind /\ op.x \in Name
      /\ Mine(TRUE) \in Request /\ Mine(TRUE).what = op.what /\ Mine(TRUE).x = op.x
  BY <1>2, OpLemma
<1>4. /\ ctl[s].up \in Seq(Request) /\ ctl[s].down \in Seq(Reply)
      /\ file[s].down \in Seq(Byte) /\ handler[s].rest \in Seq(Byte)
      /\ early \in BOOLEAN
  BY FieldsLemma DEF IInv, TypeOK
<1>5. Receiving /\ ctl[s].up = <<>> /\ ctl[s].down = <<>>
  BY <1>1, <1>2, OpLemma DEF IInv, Conversing, Receiving, Up, Down
<1> DEFINE up == <<Mine(TRUE)>>
<1>6. up \in Seq(Request) /\ Len(up) = 1 /\ \A i \in 1 .. Len(up) : up[i] = Mine(TRUE)
  <2> DEFINE r == Mine(TRUE)
  <2>1. r \in Request
    BY <1>3
  <2> HIDE DEF r
  <2>2. <<r>> \in Seq(Request) /\ Len(<<r>>) = 1 /\ \A i \in 1 .. 1 : <<r>>[i] = r
    BY <2>1
  <2>3. QED
    BY <2>2 DEF r
<1>7. /\ ctl' \in [Session -> CtlType]
      /\ ctl'[s].open = ctl[s].open /\ ctl'[s].up = up /\ ctl'[s].down = <<>>
      /\ \A t \in Session \ {s} : ctl'[t] = ctl[t]
  <2>1. \A r : Append(<<>>, r) = <<r>>
    OBVIOUS
  <2>2. ctl' = [ctl EXCEPT ![s] = [ctl[s] EXCEPT !.up = Append(<<>>, Mine(TRUE))]]
    BY <1>1, <1>5 DEF AllReceived, Sent, Mine
  <2>3. ctl' = [ctl EXCEPT ![s] = [ctl[s] EXCEPT !.up = up]]
    BY <2>1, <2>2
  <2> HIDE DEF up
  <2>4. ctl' = [ctl EXCEPT ![s] = [ctl[s] EXCEPT !.up = up, !.down = ctl[s].down]]
    BY <2>3, SameLemma DEF IInv
  <2>5. QED
    BY <1>4, <1>5, <1>6, <2>4, CtlLemma DEF IInv
<1> HIDE DEF up
<1>8. /\ op' \in Op /\ op'.pc = "ack" /\ op'.what = op.what /\ op'.x = op.x
      /\ op'.n = op.n /\ op'.got = op.got /\ op'.left = op.left /\ op' # None
  BY <1>2, OpLemma, NoneAssumption DEF AllReceived
<1>9. UNCHANGED <<file, handler, parked, stored, cur, ops, done, early>>
  BY DEF AllReceived
<1>10. TypeOK'
  BY <1>7, <1>8, <1>9 DEF IInv, TypeOK, CtlType
<1>11. op.what \in {"read", "list"} /\ (op.what = "list" => op.x = "list") /\ file[s].opened
  BY <1>1, <1>2, <1>5 DEF IInv, Attended, Receiving
<1>12. Apart'
  <2>1. Matched(s) /\ Storing(s) /\ Asked(s) /\ Waiting
    BY DEF IInv, Apart, Writing
  <2>2. Matched(s)'
    BY <1>7, <1>9, <1>11, <2>1 DEF Matched
  <2>3. Storing(s)'
    BY <1>9, <2>1 DEF Storing
  <2>4. Asked(s)'
    BY <1>3, <1>6, <1>7, <1>11 DEF Asked
  <2>5. Waiting'
    BY <1>9, <2>1 DEF Waiting
  <2>6. ~(s > cur)
    BY <1>1 DEF Session
  <2>7. QED
    BY <1>1, <1>7, <1>9, <2>2, <2>3, <2>4, <2>5, <2>6, ApartLemma DEF IInv, Writing
<1>13. Closing'
  <2>1. /\ Mine(TRUE)' = Mine(TRUE) /\ (Free' <=> Free) /\ (Busy' <=> Busy)
        /\ Up' = <<Mine(TRUE)>> /\ Down' = <<>>
    BY <1>1, <1>7, <1>8, <1>9 DEF Mine, Up, Down, Free, Busy, up
  <2>2. Free \/ Busy
    BY <1>5 DEF Receiving
  <2>3. Len(op.got) \in Nat /\ Len(file[s].down) \in Nat /\ Len(handler[s].rest) \in Nat
    BY <1>3, <1>4
  <2>4. Len(op.got) + op.left <= 2 /\ (op.what = "list" => Len(op.got) + op.left = 2)
    BY <1>5 DEF Receiving
  <2>5. ~early =>
          /\ Run(op.got, op.x, 0)
          /\ Len(op.got) + Len(file[s].down) + Len(handler[s].rest) <= Len(op.got) + op.left
    BY <1>1, <1>5 DEF Receiving, Streaming
  <2>6. Len(op.got) <= 2
    BY <1>3, <2>3, <2>4
  <2>7. op.what = "list" => Len(op.got) = 2
    <3>1. SUFFICES ASSUME op.what = "list" PROVE Len(op.got) = 2
      OBVIOUS
    <3>2. op.left = 0 /\ Len(op.got) + op.left = 2
      BY <2>4, <3>1 DEF AllReceived
    <3>3. QED
      BY <2>3, <3>2
  <2>8. ~early /\ op.left = 0 => Clear' /\ handler'[cur'].rest = <<>>
    <3>1. SUFFICES ASSUME ~early, op.left = 0
                   PROVE  Len(file[s].down) = 0 /\ Len(handler[s].rest) = 0
      BY <1>1, <1>4, <1>9, EmptySeq DEF Clear
    <3>2. Len(op.got) + Len(file[s].down) + Len(handler[s].rest) <= Len(op.got) + 0
      BY <2>5, <3>1
    <3>3. \A a, b, c \in Nat : a + b + c <= a + 0 => b = 0 /\ c = 0
      OBVIOUS
    <3>4. QED
      BY <2>3, <3>2, <3>3
  <2>9. QED
    BY <1>8, <1>9, <1>11, <2>1, <2>2, <2>5, <2>6, <2>7, <2>8 DEF Closing
<1>14. Conversing'
  BY <1>8, <1>13 DEF Conversing
<1>15. Attended' /\ Results'
  <2>1. op.what # "read" => op.left = 0
    BY DEF AllReceived
  <2>2. QED
    BY <1>1, <1>2, <1>7, <1>8, <1>9, <1>11, <2>1 DEF IInv, Attended, Usable, Results
<1>16. QED
  BY <1>9, <1>10, <1>12, <1>14, <1>15 DEF IInv, StoredWhole

-----------------------------------------------------------------------------
(* The steps of the frame.                                                 *)

LEMMA ArriveStep ==
  ASSUME IInv, NEW s \in Session, Arrive(s)
  PROVE  IInv'
<1>1. /\ file \in [Session -> FileType] /\ file[s] \in FileType
      /\ file[s].opened /\ ~file[s].arrived
  BY FieldsLemma DEF IInv, Arrive
<1>2. Matched(s) /\ Storing(s) /\ Asked(s) /\ Waiting /\ (ctl[s].open => s = cur)
      /\ (s > cur => Unused(s))
  BY DEF IInv, Apart, Writing
<1>3. s = cur /\ handler[s].claimed = None /\ s # 0
  BY <1>1, <1>2, NoneAssumption DEF Matched, Session
<1>4. /\ file' \in [Session -> FileType]
      /\ file'[s].open = file[s].open /\ file'[s].opened = file[s].opened
      /\ file'[s].arrived
      /\ file'[s].up = file[s].up /\ file'[s].down = file[s].down
      /\ \A t \in Session \ {s} : file'[t] = file[t]
  <2>1. file' = [file EXCEPT ![s] = [file[s] EXCEPT !.arrived = TRUE]]
    BY DEF Arrive
  <2>2. LET f == [file[s] EXCEPT !.arrived = TRUE] IN
          /\ f \in FileType /\ f.open = file[s].open /\ f.opened = file[s].opened
          /\ f.arrived /\ f.up = file[s].up /\ f.down = file[s].down
    BY <1>1 DEF FileType
  <2>3. QED
    BY <1>1, <2>1, <2>2
<1>5. parked = <<>> /\ parked' = <<s>>
  <2>1. parked = <<>>
    BY <1>1, <1>2, <1>3 DEF Waiting
  <2>2. parked' = Append(<<>>, s)
    BY <2>1 DEF Arrive
  <2>3. QED
    BY <2>1, <2>2
<1>6. UNCHANGED <<ctl, handler, stored, cur, op, ops, done, early>>
  BY DEF Arrive, hub
<1>7. TypeOK'
  <2>1. parked' \in Seq(Session) /\ IsInjective(parked')
    BY <1>5 DEF IsInjective
  <2>2. QED
    BY <1>4, <1>6, <2>1 DEF IInv, TypeOK, FileType
<1>8. Apart'
  <2>1. Matched(s)'
    BY <1>1, <1>2, <1>4, <1>6 DEF Matched
  <2>2. Storing(s)' /\ Asked(s)'
    BY <1>2, <1>4, <1>6 DEF Storing, Asked
  <2>3. Waiting'
    BY <1>3, <1>4, <1>5, <1>6 DEF Waiting
  <2>4. ~(s > cur)
    BY <1>3 DEF Session
  <2>5. QED
    BY <1>2, <1>4, <1>6, <2>1, <2>2, <2>3, <2>4, ApartLemma DEF IInv, Writing
<1>9. (Usable => Conversing)' /\ Attended'
  BY <1>3, <1>4, <1>6, ElsewhereLemma DEF IInv
<1>10. QED
  BY <1>6, <1>7, <1>8, <1>9 DEF IInv, StoredWhole, Results

LEMMA ClaimStep ==
  ASSUME IInv, NEW s \in Session, Claim(s)
  PROVE  IInv'
<1>1. /\ handler \in [Session -> HandlerType] /\ handler[s] \in HandlerType
      /\ handler[s].doing # None /\ handler[s].claimed = None /\ parked # <<>>
  BY FieldsLemma DEF IInv, Claim
<1>2. Matched(s) /\ Storing(s) /\ Asked(s) /\ Waiting /\ (ctl[s].open => s = cur)
  BY DEF IInv, Apart, Writing
<1>3. s = cur /\ s # 0 /\ s # None
  BY <1>1, <1>2, NoneAssumption DEF Matched, Session
<1>4. parked = <<s>> /\ file[s].arrived
  BY <1>1, <1>2, <1>3 DEF Waiting
<1>5. /\ handler' \in [Session -> HandlerType]
      /\ handler'[s].alive = handler[s].alive /\ handler'[s].claimed = s
      /\ handler'[s].doing = handler[s].doing
      /\ handler'[s].got = handler[s].got /\ handler'[s].rest = handler[s].rest
      /\ \A t \in Session \ {s} : handler'[t] = handler[t]
  <2>1. handler' = [handler EXCEPT ![s] = [handler[s] EXCEPT !.claimed = s]]
    BY <1>4 DEF Claim
  <2>2. LET h == [handler[s] EXCEPT !.claimed = s] IN
          /\ h \in HandlerType /\ h.alive = handler[s].alive /\ h.claimed = s
          /\ h.doing = handler[s].doing
          /\ h.got = handler[s].got /\ h.rest = handler[s].rest
    BY <1>1 DEF HandlerType
  <2>3. QED
    BY <1>1, <2>1, <2>2
<1>6. UNCHANGED <<ctl, file, stored, cur, op, ops, done, early>> /\ parked' = <<>>
  BY <1>4 DEF Claim, hub
<1>7. TypeOK'
  <2>1. parked' \in Seq(Session) /\ IsInjective(parked')
    BY <1>6 DEF IsInjective
  <2>2. QED
    BY <1>5, <1>6, <2>1 DEF IInv, TypeOK, HandlerType
<1>8. Apart'
  <2>1. Matched(s)'
    BY <1>2, <1>4, <1>5, <1>6 DEF Matched
  <2>2. Storing(s)' /\ Asked(s)'
    BY <1>2, <1>5, <1>6 DEF Storing, Asked
  <2>3. Waiting'
    BY <1>3, <1>5, <1>6 DEF Waiting
  <2>4. ~(s > cur)
    BY <1>3 DEF Session
  <2>5. QED
    BY <1>2, <1>5, <1>6, <2>1, <2>2, <2>3, <2>4, ApartLemma DEF IInv, Writing
<1>9. (Usable => Conversing)' /\ Attended'
  BY <1>3, <1>5, <1>6, ElsewhereLemma DEF IInv
<1>10. QED
  BY <1>6, <1>7, <1>8, <1>9 DEF IInv, StoredWhole, Results

(* A handler ends only after its session: while the session is open, its   *)
(* file channel is there for the handler to take.                          *)
LEMMA HandlerEndsStep ==
  ASSUME IInv, NEW s \in Session, HandlerEnds(s)
  PROVE  IInv'
<1>1. /\ handler \in [Session -> HandlerType] /\ handler[s] \in HandlerType
      /\ ctl[s].open \in BOOLEAN
  BY FieldsLemma DEF IInv
<1>2. Matched(s) /\ Storing(s) /\ Asked(s) /\ Waiting /\ (ctl[s].open => s = cur)
      /\ (s > cur => Unused(s))
  BY DEF IInv, Apart, Writing
<1>3. ~ctl[s].open
  <2>1. CASE handler[s].doing = None /\ ~ctl[s].open
    BY <2>1
  <2>2. CASE /\ handler[s].doing # None /\ handler[s].claimed = None
             /\ parked = <<>> /\ (file[s].opened => file[s].arrived)
    <3>1. SUFFICES ASSUME ctl[s].open
                   PROVE  FALSE
      BY <1>1
    <3>2. s = cur /\ s # 0 /\ file[s].arrived
      BY <1>2, <2>2, <3>1 DEF Matched, Session
    <3>3. parked = <<cur>>
      BY <1>2, <2>2, <3>2 DEF Waiting
    <3>4. QED
      BY <2>2, <3>3
  <2>3. CASE /\ handler[s].doing # None /\ handler[s].claimed # None
             /\ ~file[handler[s].claimed].open
    BY <1>2, <2>3 DEF Matched
  <2>4. QED
    BY <2>1, <2>2, <2>3 DEF HandlerEnds
<1>4. s > cur => FALSE
  BY <1>2 DEF Unused, HandlerEnds
<1>5. /\ handler' \in [Session -> HandlerType]
      /\ ~handler'[s].alive /\ handler'[s].claimed = handler[s].claimed
      /\ handler'[s].doing = None /\ handler'[s].got = <<>> /\ handler'[s].rest = <<>>
      /\ \A t \in Session \ {s} : handler'[t] = handler[t]
  <2>1. handler' = [handler EXCEPT ![s] =
          [handler[s] EXCEPT !.alive = FALSE, !.doing = None, !.got = <<>>, !.rest = <<>>]]
    BY DEF HandlerEnds
  <2>2. LET h == [handler[s] EXCEPT !.alive = FALSE, !.doing = None, !.got = <<>>,
                                    !.rest = <<>>] IN
          /\ h \in HandlerType /\ ~h.alive /\ h.claimed = handler[s].claimed
          /\ h.doing = None /\ h.got = <<>> /\ h.rest = <<>>
    <3>1. <<>> \in Seq(Byte) /\ FALSE \in BOOLEAN
      OBVIOUS
    <3>2. QED
      BY <1>1, <3>1 DEF HandlerType
  <2>3. QED
    BY <1>1, <2>1, <2>2
<1>6. UNCHANGED <<ctl, file, parked, stored, cur, op, ops, done, early>>
  BY DEF HandlerEnds, hub
<1>7. TypeOK'
  BY <1>5, <1>6 DEF IInv, TypeOK, HandlerType
<1>8. Apart'
  <2>1. Matched(s)'
    BY <1>2, <1>5, <1>6 DEF Matched
  <2>2. Storing(s)' /\ Asked(s)'
    BY <1>2, <1>5, <1>6 DEF Storing, Asked
  <2>3. Waiting'
    BY <1>2, <1>5, <1>6 DEF Waiting, IInv, TypeOK, Session
  <2>4. QED
    BY <1>2, <1>4, <1>5, <1>6, <2>1, <2>2, <2>3, ApartLemma DEF IInv, Writing
<1>9. (Usable => Conversing)' /\ Attended'
  <2>1. CASE s = cur
    <3>1. ~Usable /\ ~Usable'
      BY <1>3, <1>6, <2>1 DEF Usable
    <3>2. op' = None
      BY <1>6, <3>1 DEF IInv, Attended
    <3>3. QED
      BY <3>1, <3>2 DEF Attended
  <2>2. CASE s # cur
    <3>1. cur # 0 => cur \in Session \ {s}
      BY <2>2 DEF IInv, TypeOK, Session
    <3>2. QED
      BY <1>5, <1>6, <3>1, ElsewhereLemma DEF IInv
  <2>3. QED
    BY <2>1, <2>2
<1>10. QED
  BY <1>6, <1>7, <1>8, <1>9 DEF IInv, StoredWhole, Results

(* What the frame does with a request, on both sides of it.                *)
LEMMA ServeLemma ==
  ASSUME IInv, NEW s \in Session, Serve(s), NEW m, m = Head(ctl[s].up)
  PROVE  /\ TypeOK' /\ Apart'
         /\ handler[s].alive /\ handler[s].doing = None
         /\ ctl[s].up # <<>> /\ m \in Request /\ m = ctl[s].up[1]
         /\ ctl'[s].open = ctl[s].open
         /\ ctl'[s].up = Tail(ctl[s].up) /\ ctl'[s].down \in Seq(Reply)
         /\ Len(ctl'[s].up) = Len(ctl[s].up) - 1
         /\ \A i \in 1 .. Len(ctl[s].up) - 1 : ctl'[s].up[i] = ctl[s].up[i + 1]
         /\ ctl[s].open =>
              /\ ctl'[s].down # <<>> /\ Len(ctl'[s].down) = Len(ctl[s].down) + 1
              /\ \A i \in 1 .. Len(ctl[s].down) : ctl'[s].down[i] = ctl[s].down[i]
              /\ LET r == ctl'[s].down[Len(ctl'[s].down)] IN
                 /\ r.what = m.what /\ r.n = m.n
                 /\ r.act = (IF m.end \/ m.what = "show" THEN "ok" ELSE "started")
                 /\ ~m.end /\ m.what \in {"read", "list"} => r.size = Len(Blob(m.x))
         /\ IF m.end \/ m.what = "show"
            THEN handler' = handler
            ELSE /\ handler'[s].alive /\ handler'[s].doing = m /\ handler'[s].got = <<>>
                 /\ m.what \in {"read", "list"} => handler'[s].rest = Blob(m.x)
                 /\ m.what = "write" => handler'[s].rest = <<>>
         /\ \A t \in Session \ {s} : ctl'[t] = ctl[t] /\ handler'[t] = handler[t]
         /\ UNCHANGED <<file, parked, stored, cur, op, ops, done, early>>
<1>1. /\ handler[s].alive /\ handler[s].doing = None /\ ctl[s].up # <<>>
      /\ UNCHANGED <<file, parked, stored, cur, op, ops, done, early>>
  BY DEF Serve, hub
<1>2. /\ ctl[s].up \in Seq(Request) /\ ctl[s].down \in Seq(Reply)
      /\ ctl[s].open \in BOOLEAN
      /\ handler \in [Session -> HandlerType] /\ handler[s] \in HandlerType
      /\ handler[s].alive \in BOOLEAN
  BY FieldsLemma DEF IInv
<1> DEFINE up == Tail(ctl[s].up)
<1>3. /\ m \in Request /\ m = ctl[s].up[1] /\ up \in Seq(Request)
      /\ Len(up) = Len(ctl[s].up) - 1 /\ Len(ctl[s].up) \in Nat
      /\ \A i \in 1 .. Len(ctl[s].up) - 1 : up[i] = ctl[s].up[i + 1]
      /\ 1 \in 1 .. Len(ctl[s].up)
      /\ \A i \in 1 .. Len(up) : i + 1 \in 1 .. Len(ctl[s].up)
  BY <1>1, <1>2, HeadLemma
<1>4. m.what \in Kind /\ m.end \in BOOLEAN /\ m.x \in Name /\ m.n \in 1 .. Ops
  BY <1>3 DEF Request
<1>5. /\ Blob(m.x) \in Seq(Byte) /\ Len(Blob(m.x)) \in {0, 2}
  BY <1>4, BlobLemma DEF IInv
<1> DEFINE quick == m.end \/ m.what = "show"
           blob == IF m.what \in {"read", "list"} THEN Blob(m.x) ELSE <<>>
           r == IF quick THEN [what |-> m.what, act |-> "ok", n |-> m.n, size |-> 0]
                ELSE [what |-> m.what, act |-> "started", n |-> m.n, size |-> Len(blob)]
           down == IF ctl[s].open THEN Append(ctl[s].down, r) ELSE ctl[s].down
<1>6. blob \in Seq(Byte) /\ Len(blob) \in {0, 2}
  BY <1>5
<1>7. /\ r \in Reply /\ r.what = m.what /\ r.n = m.n
      /\ r.act = (IF quick THEN "ok" ELSE "started")
      /\ ~quick => r.size = Len(blob)
  <2> HIDE DEF blob
  <2>1. QED
    BY <1>4, <1>6 DEF Reply
<1>8. ctl' = [ctl EXCEPT ![s] = [ctl[s] EXCEPT !.up = up, !.down = down]]
  <2>1. IF quick THEN Answer(s, m, "ok", 0) ELSE Answer(s, m, "started", Len(blob))
    BY DEF Serve
  <2>2. CASE quick
    BY <2>1, <2>2 DEF Answer
  <2>3. CASE ~quick
    BY <2>1, <2>3 DEF Answer
  <2>4. QED
    BY <2>2, <2>3
<1>9. IF quick THEN handler' = handler
      ELSE handler' = [handler EXCEPT ![s] =
                         [handler[s] EXCEPT !.doing = m, !.got = <<>>, !.rest = blob]]
  BY DEF Serve
<1> HIDE DEF r
<1>10. /\ down \in Seq(Reply)
       /\ ctl[s].open =>
            /\ down # <<>> /\ Len(down) = Len(ctl[s].down) + 1
            /\ \A i \in 1 .. Len(ctl[s].down) : down[i] = ctl[s].down[i]
            /\ down[Len(down)] = r
  <2>1. /\ Append(ctl[s].down, r) \in Seq(Reply)
        /\ Append(ctl[s].down, r) # <<>>
        /\ Len(Append(ctl[s].down, r)) = Len(ctl[s].down) + 1
        /\ \A i \in 1 .. Len(ctl[s].down) : Append(ctl[s].down, r)[i] = ctl[s].down[i]
        /\ Append(ctl[s].down, r)[Len(ctl[s].down) + 1] = r
    BY <1>2, <1>7, AppendProperties
  <2>2. QED
    BY <1>2, <2>1
<1> HIDE DEF down, up
<1>11. /\ ctl' \in [Session -> CtlType]
       /\ ctl'[s].open = ctl[s].open /\ ctl'[s].up = up /\ ctl'[s].down = down
       /\ \A t \in Session \ {s} : ctl'[t] = ctl[t]
  BY <1>3, <1>8, <1>10, CtlLemma DEF IInv
<1>12. /\ handler' \in [Session -> HandlerType]
       /\ handler'[s].alive /\ handler'[s].claimed = handler[s].claimed
       /\ ~quick => /\ handler'[s].doing = m /\ handler'[s].got = <<>>
                    /\ handler'[s].rest = blob
       /\ \A t \in Session \ {s} : handler'[t] = handler[t]
  <2>1. CASE quick
    BY <1>1, <1>2, <1>9, <2>1
  <2>2. CASE ~quick
    <3> HIDE DEF blob
    <3> DEFINE h == [handler[s] EXCEPT !.doing = m, !.got = <<>>, !.rest = blob]
    <3>1. /\ h \in HandlerType /\ h.alive = handler[s].alive
          /\ h.claimed = handler[s].claimed
          /\ h.doing = m /\ h.got = <<>> /\ h.rest = blob
      <4>1. <<>> \in Seq(Byte)
        OBVIOUS
      <4>2. QED
        BY <1>2, <1>3, <1>6, <4>1 DEF HandlerType
    <3> HIDE DEF h
    <3>2. handler' = [handler EXCEPT ![s] = h]
      BY <1>9, <2>2 DEF h
    <3>3. QED
      BY <1>1, <1>2, <3>1, <3>2
  <2>3. QED
    BY <2>1, <2>2
<1>13. TypeOK'
  BY <1>1, <1>11, <1>12 DEF IInv, TypeOK, CtlType, HandlerType
<1>14. Apart'
  <2>1. Matched(s) /\ Storing(s) /\ Asked(s) /\ Waiting /\ (ctl[s].open => s = cur)
        /\ (s > cur => Unused(s))
    BY DEF IInv, Apart, Writing
  <2>2. Matched(s)'
    <3>1. \A i \in 1 .. Len(up) : up[i].what # "show" => file[s].opened
      BY <1>3, <2>1 DEF Matched
    <3>2. ~quick => file[s].opened
      BY <1>3, <2>1 DEF Matched
    <3>3. handler'[s].doing # None => file[s].opened
      BY <1>1, <1>9, <3>2
    <3> HIDE DEF quick, blob
    <3>4. QED
      BY <1>1, <1>11, <1>12, <2>1, <3>1, <3>3 DEF Matched
  <2>3. Storing(s)'
    <3>1. CASE quick
      BY <1>1, <1>9, <2>1, <3>1 DEF Storing
    <3>2. CASE ~quick
      <4>1. /\ file[s].up = <<>> /\ file' = file
            /\ m.what = "write" => m.x \in Photo /\ blob = <<>>
        BY <1>1, <1>3, <2>1 DEF Storing, Asked
      <4>2. /\ handler'[s].alive /\ handler'[s].doing = m /\ handler'[s].got = <<>>
            /\ handler'[s].rest = blob /\ m # None
        BY <1>3, <1>12, <3>2, NoneAssumption
      <4>3. \A x, k : Run(<<>>, x, k)
        BY DEF Run
      <4>4. Len(<<>>) = 0 /\ 0 + 0 = 0
        OBVIOUS
      <4> HIDE DEF blob
      <4>5. QED
        BY <3>2, <4>1, <4>2, <4>3, <4>4 DEF Storing
    <3>3. QED
      BY <3>1, <3>2
  <2>4. Asked(s)'
    BY <1>3, <1>11, <2>1 DEF Asked
  <2>5. Waiting'
    <3>1. cur # 0 => cur \in Session
      BY DEF IInv, TypeOK, Session
    <3>2. cur # 0 => handler'[cur].claimed = handler[cur].claimed
      BY <1>12, <3>1
    <3>3. QED
      BY <1>1, <2>1, <3>2 DEF Waiting
  <2>6. s > cur => FALSE
    BY <1>1, <2>1 DEF Unused
  <2>7. QED
    BY <1>1, <1>11, <1>12, <2>1, <2>2, <2>3, <2>4, <2>5, <2>6, ApartLemma
       DEF IInv, Writing
<1>15. QED
  BY <1>1, <1>3, <1>7, <1>9, <1>10, <1>11, <1>12, <1>13, <1>14 DEF up

(* A reply to a late request stays one that no one waits for.              *)
LEMMA ServeStep ==
  ASSUME IInv, NEW s \in Session, Serve(s)
  PROVE  IInv'
<1>1. PICK m : m = Head(ctl[s].up)
  OBVIOUS
<1>2. /\ TypeOK' /\ Apart'
      /\ handler[s].alive /\ handler[s].doing = None
      /\ ctl[s].up # <<>> /\ m \in Request /\ m = ctl[s].up[1]
      /\ ctl'[s].open = ctl[s].open
      /\ ctl'[s].up = Tail(ctl[s].up) /\ ctl'[s].down \in Seq(Reply)
      /\ Len(ctl'[s].up) = Len(ctl[s].up) - 1
      /\ \A i \in 1 .. Len(ctl[s].up) - 1 : ctl'[s].up[i] = ctl[s].up[i + 1]
      /\ ctl[s].open =>
           /\ ctl'[s].down # <<>> /\ Len(ctl'[s].down) = Len(ctl[s].down) + 1
           /\ \A i \in 1 .. Len(ctl[s].down) : ctl'[s].down[i] = ctl[s].down[i]
           /\ LET r == ctl'[s].down[Len(ctl'[s].down)] IN
              /\ r.what = m.what /\ r.n = m.n
              /\ r.act = (IF m.end \/ m.what = "show" THEN "ok" ELSE "started")
              /\ ~m.end /\ m.what \in {"read", "list"} => r.size = Len(Blob(m.x))
      /\ IF m.end \/ m.what = "show"
         THEN handler' = handler
         ELSE /\ handler'[s].alive /\ handler'[s].doing = m /\ handler'[s].got = <<>>
              /\ m.what \in {"read", "list"} => handler'[s].rest = Blob(m.x)
              /\ m.what = "write" => handler'[s].rest = <<>>
      /\ \A t \in Session \ {s} : ctl'[t] = ctl[t] /\ handler'[t] = handler[t]
      /\ UNCHANGED <<file, parked, stored, cur, op, ops, done, early>>
  BY <1>1, ServeLemma
<1>3. StoredWhole' /\ Results'
  BY <1>2 DEF IInv, StoredWhole, Results
<1>4. cur # 0 => cur \in Session
  BY DEF IInv, TypeOK, Session
<1>5. ASSUME ~(s = cur /\ Usable)
      PROVE  (Usable => Conversing)' /\ Attended'
  <2>1. CASE s = cur
    <3>1. ~Usable /\ ~Usable'
      BY <1>2, <1>5, <2>1 DEF Usable
    <3>2. op' = None
      BY <1>2, <3>1 DEF IInv, Attended
    <3>3. QED
      BY <3>1, <3>2 DEF Attended
  <2>2. CASE s # cur
    BY <1>2, <1>4, <2>2, ElsewhereLemma DEF IInv
  <2>3. QED
    BY <2>1, <2>2
<1>6. ASSUME s = cur, Usable
      PROVE  (Usable => Conversing)' /\ Attended'
  <2>1. /\ Up = ctl[s].up /\ Down = ctl[s].down /\ ctl[s].open
        /\ Up' = ctl'[s].up /\ Down' = ctl'[s].down /\ Usable'
        /\ Up \in Seq(Request) /\ Down \in Seq(Reply) /\ Up # <<>>
        /\ Up' \in Seq(Request)
    BY <1>2, <1>6, FieldsLemma DEF Up, Down, Usable, IInv, TypeOK
  <2>2. PICK r : r = Down'[Len(Down')]
    OBVIOUS
  <2>3. /\ r.what = m.what /\ r.n = m.n
        /\ r.act = (IF m.end \/ m.what = "show" THEN "ok" ELSE "started")
        /\ ~m.end /\ m.what \in {"read", "list"} => r.size = Len(Blob(m.x))
    BY <1>2, <2>1, <2>2
  <2>4. /\ Len(Up) \in Nat /\ Len(Up) > 0 /\ Len(Up') = Len(Up) - 1
        /\ \A i \in 1 .. Len(Up') : Up'[i] = Up[i + 1] /\ i + 1 \in 1 .. Len(Up)
        /\ Len(Up') = 0 => Up' = <<>>
        /\ m = Up[1] /\ 1 \in 1 .. Len(Up)
    <3>1. Len(Up) \in Nat /\ Len(Up) > 0
      BY <2>1, EmptySeq
    <3>2. Len(Up') = Len(Up) - 1 /\ m = Up[1]
      BY <1>2, <2>1
    <3>3. \A i \in 1 .. Len(Up) - 1 : Up'[i] = Up[i + 1]
      BY <1>2, <2>1
    <3>4. Len(Up') = 0 => Up' = <<>>
      BY <2>1, EmptySeq
    <3>5. QED
      BY <3>1, <3>2, <3>3, <3>4
  <2>5. /\ Len(Down) \in Nat /\ Len(Down') = Len(Down) + 1 /\ Down' # <<>>
        /\ \A i \in 1 .. Len(Down) : Down'[i] = Down[i]
    BY <1>2, <2>1
  <2>6. /\ Free
        /\ Mine(TRUE)' = Mine(TRUE) /\ Mine(FALSE)' = Mine(FALSE) /\ (Clear' <=> Clear)
    BY <1>2, <1>6 DEF Free, Mine, Clear
  <2>7. Attended'
    BY <1>2, <1>6, <2>1 DEF IInv, Attended
  <2>8. Conversing
    BY <1>6 DEF IInv
  <2>9. ASSUME LateEnd(m), LateDown, Sending, Still
        PROVE  /\ LateDown' /\ Sending' /\ Still'
    <3>1. LateOk(r)
      BY <2>3, <2>9 DEF LateEnd, LateOk
    <3>2. \A i \in 1 .. Len(Down') : i \in 1 .. Len(Down) \/ Down'[i] = r
      BY <2>5, <2>2
    <3>3. LateDown'
      BY <2>5, <2>9, <3>1, <3>2 DEF LateDown
    <3>4. handler' = handler
      BY <1>2, <2>9 DEF LateEnd
    <3>5. Sending' /\ Still'
      BY <1>2, <2>9, <3>4 DEF Sending, Still, Stale, Short, Clear
    <3>6. QED
      BY <3>3, <3>5
  <2>10. Resting => Resting'
    <3>1. SUFFICES ASSUME Resting
                   PROVE  Resting'
      OBVIOUS
    <3>2. LateEnd(m) /\ LateDown
      BY <2>4, <3>1 DEF Resting, LateUp
    <3>3. LateUp'
      BY <2>4, <3>1 DEF Resting, LateUp
    <3>4. QED
      BY <2>9, <3>1, <3>2, <3>3 DEF Resting
  <2>11. CASE op = None
    <3>1. Resting'
      BY <2>8, <2>10, <2>11 DEF Conversing
    <3>2. QED
      BY <1>2, <2>7, <2>11, <3>1 DEF Conversing
  <2>12. CASE op # None /\ op.pc = "begin"
    <3>1. Resting' /\ op.got = <<>>
      BY <2>8, <2>10, <2>12 DEF Conversing
    <3>2. QED
      BY <1>2, <2>6, <2>7, <2>12, <3>1 DEF Conversing
  <2>13. CASE op # None /\ op.pc = "reply"
    <3>1. Requested /\ op.got = <<>>
      BY <2>1, <2>8, <2>13 DEF Conversing, Answered
    <3>2. CASE Len(Up) > 1
      <4>1. LateEnd(m)
        <5>1. 1 \in 1 .. Len(Up) - 1
          BY <2>4, <3>2
        <5>2. QED
          BY <2>4, <3>1, <5>1 DEF Requested
      <4>2. LateDown' /\ Sending' /\ Still'
        BY <2>9, <3>1, <4>1 DEF Requested
      <4>3. Up' # <<>> /\ Up'[Len(Up')] = Mine(FALSE)
        <5>1. Len(Up') \in 1 .. Len(Up') /\ Len(Up') + 1 = Len(Up) /\ Len(Up') # 0
          BY <2>4, <3>2
        <5>2. Up'[Len(Up')] = Up[Len(Up)]
          BY <2>4, <5>1
        <5>3. Up[Len(Up)] = Mine(FALSE)
          BY <3>1 DEF Requested
        <5>4. QED
          BY <5>1, <5>2, <5>3
      <4>4. \A i \in 1 .. Len(Up') - 1 : LateEnd(Up'[i])
        <5>1. ASSUME NEW i \in 1 .. Len(Up') - 1
              PROVE  LateEnd(Up'[i])
          <6>1. i \in 1 .. Len(Up') /\ i + 1 \in 1 .. Len(Up) - 1
            BY <2>4, <5>1
          <6>2. QED
            BY <2>4, <3>1, <6>1 DEF Requested
        <5>2. QED
          BY <5>1
      <4>5. Requested'
        BY <1>2, <2>6, <3>1, <4>2, <4>3, <4>4 DEF Requested
      <4>6. QED
        BY <1>2, <2>7, <2>13, <3>1, <4>5 DEF Conversing
    <3>3. CASE Len(Up) = 1
      <4>1. m = Mine(FALSE) /\ Up' = <<>>
        <5>1. Up[Len(Up)] = Mine(FALSE)
          BY <3>1 DEF Requested
        <5>2. m = Up[Len(Up)] /\ Len(Up') = 0
          BY <2>4, <3>3
        <5>3. QED
          BY <2>4, <5>1, <5>2
      <4>2. /\ m.what = op.what /\ ~m.end /\ m.n = op.n /\ m.x = op.x
            /\ op.what \in Kind /\ op.x \in Name
        BY <2>13, <4>1, OpLemma
      <4>3. \A i \in 1 .. Len(Down') - 1 : LateOk(Down'[i])
        BY <2>5, <3>1 DEF Requested, LateDown
      <4>4. op.what = "show" => Free'
        BY <1>2, <2>6, <4>2 DEF Free
      <4>5. op.what # "show" => /\ Busy' /\ handler'[cur].got = <<>>
                                /\ op.what \in {"read", "list"} =>
                                     handler'[cur].rest = Blob(op.x)
        <5>1. SUFFICES ASSUME op.what # "show"
                       PROVE  /\ Busy' /\ handler'[cur].got = <<>>
                              /\ op.what \in {"read", "list"} =>
                                   handler'[cur].rest = Blob(op.x)
          OBVIOUS
        <5>2. /\ handler'[s].doing = m /\ handler'[s].got = <<>>
              /\ m.what \in {"read", "list"} => handler'[s].rest = Blob(m.x)
          BY <1>2, <4>2, <5>1
        <5>3. Busy'
          BY <1>2, <1>6, <2>6, <4>1, <5>2 DEF Busy
        <5>4. QED
          BY <1>6, <4>2, <5>2, <5>3
      <4>6. op.what = "write" => file[cur].up = <<>>
        BY <1>2, <1>6 DEF IInv, Apart, Writing, Storing
      <4>7. op.what \in {"read", "list"} => Streaming(r.size)'
        <5>1. SUFFICES ASSUME op.what \in {"read", "list"}, ~early
                       PROVE  LET got == op.got  down == file[cur].down  rest == Blob(op.x) IN
                              /\ Run(got, op.x, 0) /\ Run(down, op.x, Len(got))
                              /\ Run(rest, op.x, Len(got) + Len(down))
                              /\ Len(got) + Len(down) + Len(rest) <= r.size
          <6>1. /\ cur' = cur /\ op' = op /\ early' = early /\ file' = file
                /\ op.what \in {"read", "list"} => handler'[cur].rest = Blob(op.x)
            BY <1>2, <4>5
          <6>2. QED
            BY <6>1 DEF Streaming
        <5>2. op.got = <<>> /\ file[cur].down = <<>>
          BY <2>13, <3>1, <5>1 DEF Requested, Still, Stale, Clear
        <5>3. r.size = Len(Blob(op.x))
          BY <2>3, <4>2, <5>1
        <5>4. Run(Blob(op.x), op.x, 0) /\ Len(Blob(op.x)) \in {0, 2}
          BY <4>2, BlobLemma DEF IInv
        <5>5. /\ \A x, k : Run(<<>>, x, k)
              /\ Len(<<>>) = 0 /\ 0 + 0 = 0
          BY DEF Run
        <5>6. QED
          BY <5>2, <5>3, <5>4, <5>5
      <4>8. op.what = "list" => r.size = 2
        <5>1. SUFFICES ASSUME op.what = "list"
                       PROVE  r.size = 2
          OBVIOUS
        <5>2. op.x = "list"
          BY <2>13, <5>1 DEF IInv, Attended
        <5>3. Len(Blob(op.x)) = 2
          BY <4>2, <5>2, BlobLemma DEF IInv
        <5>4. QED
          BY <2>3, <4>2, <5>1, <5>3
      <4>9. ~early => Clear
        BY <2>13, <3>1 DEF Requested, Still, Stale
      <4>10. Answered'
        <5>1. /\ cur' = cur /\ op' = op /\ early' = early /\ file' = file
          BY <1>2
        <5>2. /\ r.what = op.what /\ r.n = op.n
              /\ r.act = (IF op.what = "show" THEN "ok" ELSE "started")
          BY <2>3, <4>2
        <5>3. op.what \in {"show", "write"} /\ ~early => Clear'
          BY <2>6, <4>9
        <5>4. QED
          BY <2>5, <2>2, <4>1, <4>3, <4>4, <4>5, <4>6, <4>7, <4>8, <5>1, <5>2, <5>3
             DEF Answered
      <4>11. QED
        BY <1>2, <2>7, <2>13, <3>1, <4>10 DEF Conversing
    <3>4. QED
      BY <2>4, <3>2, <3>3
  <2>14. CASE op # None /\ op.pc = "bytes"
    BY <2>1, <2>8, <2>14 DEF Conversing, Receiving
  <2>15. CASE op # None /\ op.pc = "ack"
    <3>1. Closing /\ Up = <<Mine(TRUE)>> /\ Down = <<>>
      BY <2>1, <2>8, <2>15 DEF Conversing, Closing
    <3>2. m = Mine(TRUE) /\ Up' = <<>> /\ Len(Down') = 1
      <4>1. Len(Up) = 1 /\ Up[1] = Mine(TRUE) /\ Len(Down) = 0
        BY <3>1
      <4>2. QED
        BY <2>4, <2>5, <4>1
    <3>3. m.what = op.what /\ m.end /\ m.n = op.n
      BY <2>15, <3>2, OpLemma
    <3>4. handler' = handler /\ r.what = op.what /\ r.act = "ok" /\ r.n = op.n /\ r = Down'[1]
      BY <1>2, <2>3, <2>2, <3>2, <3>3
    <3>5. op.what = "write" => stored[op.x] = Whole(op.x)
      BY <1>2, <1>6, <2>6, <3>1 DEF Closing
    <3>6. Free'
      BY <1>2, <2>6, <3>4 DEF Free
    <3>7. Closing'
      BY <1>2, <2>6, <3>1, <3>2, <3>4, <3>5, <3>6 DEF Closing
    <3>8. QED
      BY <1>2, <2>7, <2>15, <3>7 DEF Conversing
  <2>16. op # None => op.pc \in {"begin", "reply", "bytes", "ack"}
    BY OpLemma DEF Op
  <2>17. QED
    BY <2>11, <2>12, <2>13, <2>14, <2>15, <2>16
<1>7. QED
  BY <1>2, <1>3, <1>5, <1>6 DEF IInv

LEMMA SendByteStep ==
  ASSUME IInv, NEW s \in Session, SendByte(s)
  PROVE  IInv'
<1>1. /\ file \in [Session -> FileType] /\ file[s] \in FileType
      /\ handler \in [Session -> HandlerType] /\ handler[s] \in HandlerType
      /\ file[s].up \in Seq(Byte) /\ file[s].down \in Seq(Byte)
      /\ handler[s].rest \in Seq(Byte) /\ handler[s].got \in Seq(Byte)
      /\ handler[s].doing \in Request \cup {None}
  BY FieldsLemma DEF IInv
<1>2. Matched(s) /\ Storing(s) /\ Asked(s) /\ Waiting /\ (ctl[s].open => s = cur)
      /\ (s > cur => Unused(s))
  BY DEF IInv, Apart, Writing
<1>3. /\ handler[s].claimed = s /\ handler[s].doing # None /\ handler[s].doing.what # "write"
      /\ handler[s].alive
      /\ UNCHANGED <<ctl, parked, stored, cur, op, ops, done, early>>
  BY <1>2 DEF SendByte, Matched, hub
<1>4. PICK down \in Seq(Byte), rest \in Seq(Byte), doing \in {handler[s].doing, None} :
        /\ file' = [file EXCEPT ![s] = [file[s] EXCEPT !.up = file[s].up, !.down = down]]
        /\ handler' = [handler EXCEPT ![s] =
             [handler[s] EXCEPT !.alive = handler[s].alive, !.doing = doing,
                                !.got = handler[s].got, !.rest = rest]]
        /\ doing = None => rest = <<>>
        /\ IF handler[s].rest = <<>>
           THEN down = file[s].down /\ rest = <<>>
           ELSE /\ file[s].open => down = Append(file[s].down, Head(handler[s].rest))
                /\ rest = Tail(handler[s].rest)
  <2> DEFINE r == handler[s].rest
             down == IF r = <<>> \/ ~file[s].open THEN file[s].down
                     ELSE Append(file[s].down, Head(r))
             rest == IF Len(r) <= 1 THEN <<>> ELSE Tail(r)
             doing == IF Len(r) <= 1 THEN None ELSE handler[s].doing
  <2>1. r # <<>> => /\ Head(r) \in Byte /\ Tail(r) \in Seq(Byte) /\ Len(r) \in Nat /\ Len(r) > 0
                    /\ Len(r) = 1 => Tail(r) = <<>>
    BY <1>1, HeadLemma
  <2>2. down \in Seq(Byte)
    BY <1>1, <2>1, AppendProperties
  <2>3. rest \in Seq(Byte) /\ (r = <<>> => rest = <<>>) /\ (r # <<>> => rest = Tail(r))
    <3>1. CASE r = <<>>
      <4>1. Len(r) = 0
        BY <3>1
      <4>2. QED
        BY <3>1, <4>1
    <3>2. CASE r # <<>>
      <4>1. /\ Tail(r) \in Seq(Byte) /\ Len(r) \in Nat /\ Len(r) > 0
            /\ Len(r) = 1 => Tail(r) = <<>>
        BY <2>1, <3>2
      <4> HIDE DEF r
      <4>2. Len(r) <= 1 => Len(r) = 1
        <5>1. \A n \in Nat : n > 0 /\ n <= 1 => n = 1
          OBVIOUS
        <5>2. QED
          BY <4>1, <5>1
      <4>3. rest = Tail(r)
        BY <4>1, <4>2
      <4>4. QED
        BY <3>2, <4>1, <4>3
    <3>3. QED
      BY <3>1, <3>2
  <2>4. file' = [file EXCEPT ![s] = [file[s] EXCEPT !.up = file[s].up, !.down = down]]
    <3>1. CASE r = <<>> \/ ~file[s].open
      <4>1. file' = file
        BY <1>3, <3>1 DEF SendByte
      <4>2. [file[s] EXCEPT !.up = file[s].up, !.down = down] = file[s]
        BY <1>1, <3>1 DEF FileType
      <4>3. QED
        BY <1>1, <4>1, <4>2
    <3>2. CASE ~(r = <<>> \/ ~file[s].open)
      <4>1. file' = [file EXCEPT ![s] = [file[s] EXCEPT !.down = down]]
        BY <1>3, <3>2 DEF SendByte
      <4> HIDE DEF down
      <4>2. QED
        BY <4>1, SameLemma DEF IInv
    <3>3. QED
      BY <3>1, <3>2
  <2>5. handler' = [handler EXCEPT ![s] =
             [handler[s] EXCEPT !.alive = handler[s].alive, !.doing = doing,
                                !.got = handler[s].got, !.rest = rest]]
    <3>1. CASE Len(r) <= 1
      <4>1. handler' = [handler EXCEPT ![s] = [handler[s] EXCEPT !.doing = None, !.rest = <<>>]]
        BY <3>1 DEF SendByte
      <4>2. handler' = [handler EXCEPT ![s] = [handler[s] EXCEPT !.doing = doing, !.rest = rest]]
        BY <3>1, <4>1
      <4> HIDE DEF doing, rest
      <4>3. QED
        BY <4>2, SameLemma DEF IInv
    <3>2. CASE ~(Len(r) <= 1)
      <4>1. handler' = [handler EXCEPT ![s] = [handler[s] EXCEPT !.rest = rest]]
        BY <3>2 DEF SendByte
      <4>2. handler' = [handler EXCEPT ![s] =
              [handler[s] EXCEPT !.alive = handler[s].alive, !.doing = handler[s].doing,
                                 !.got = handler[s].got, !.rest = rest]]
        <5> HIDE DEF rest
        <5>1. QED
          BY <4>1, SameLemma DEF IInv
      <4>3. QED
        BY <3>2, <4>2
    <3>3. QED
      BY <3>1, <3>2
  <2>6. doing \in {handler[s].doing, None} /\ (doing = None => rest = <<>>)
    BY <1>3
  <2>7. IF r = <<>> THEN down = file[s].down /\ rest = <<>>
                    ELSE /\ file[s].open => down = Append(file[s].down, Head(r))
                         /\ rest = Tail(r)
    BY <2>3
  <2> HIDE DEF down, rest, doing
  <2>8. QED
    BY <2>2, <2>3, <2>4, <2>5, <2>6, <2>7
<1>5. /\ file' \in [Session -> FileType]
      /\ file'[s].open = file[s].open /\ file'[s].opened = file[s].opened
      /\ file'[s].arrived = file[s].arrived
      /\ file'[s].up = file[s].up /\ file'[s].down = down
      /\ \A t \in Session \ {s} : file'[t] = file[t]
  BY <1>1, <1>4, FileLemma DEF IInv
<1>6. /\ handler' \in [Session -> HandlerType]
      /\ handler'[s].alive /\ handler'[s].doing = doing
      /\ handler'[s].got = handler[s].got /\ handler'[s].rest = rest
      /\ handler'[s].claimed = handler[s].claimed
      /\ \A t \in Session \ {s} : handler'[t] = handler[t]
  <2>1. handler[s].alive \in BOOLEAN /\ doing \in Request \cup {None}
    BY <1>1, <1>4, FieldsLemma DEF IInv
  <2>2. LET h == [handler[s] EXCEPT !.alive = handler[s].alive, !.doing = doing,
                                    !.got = handler[s].got, !.rest = rest] IN
          /\ h \in HandlerType /\ h.alive = handler[s].alive /\ h.doing = doing
          /\ h.got = handler[s].got /\ h.rest = rest /\ h.claimed = handler[s].claimed
    BY <1>1, <1>4, <2>1 DEF HandlerType
  <2>3. QED
    BY <1>1, <1>3, <1>4, <2>2
<1>7. TypeOK'
  BY <1>3, <1>5, <1>6 DEF IInv, TypeOK, FileType, HandlerType
<1>8. Apart'
  <2>1. Matched(s)'
    BY <1>2, <1>3, <1>4, <1>5, <1>6 DEF Matched
  <2>2. Storing(s)'
    <3>1. handler[s].got = <<>> /\ file[s].up = <<>>
      BY <1>2, <1>3 DEF Storing
    <3>2. CASE doing = None
      BY <1>4, <1>5, <1>6, <3>1, <3>2 DEF Storing
    <3>3. CASE doing = handler[s].doing
      BY <1>2, <1>3, <1>5, <1>6, <3>1, <3>3 DEF Storing
    <3>4. QED
      BY <1>4, <3>2, <3>3
  <2>3. Asked(s)'
    BY <1>2, <1>3 DEF Asked
  <2>4. Waiting'
    <3>1. cur # 0 => cur \in Session
      BY DEF IInv, TypeOK, Session
    <3>2. cur # 0 => /\ handler'[cur].claimed = handler[cur].claimed
                     /\ file'[cur].arrived = file[cur].arrived
      BY <1>5, <1>6, <3>1
    <3>3. QED
      BY <1>2, <1>3, <3>2 DEF Waiting
  <2>5. s > cur => FALSE
    BY <1>2, <1>3 DEF Unused
  <2>6. QED
    BY <1>2, <1>3, <1>5, <1>6, <2>1, <2>2, <2>3, <2>4, <2>5, ApartLemma DEF IInv, Writing
<1>9. StoredWhole' /\ Results'
  BY <1>3 DEF IInv, StoredWhole, Results
<1>10. ASSUME s # cur
       PROVE  (Usable => Conversing)' /\ Attended'
  <2>1. cur # 0 => cur \in Session \ {s}
    BY <1>10 DEF IInv, TypeOK, Session
  <2>2. QED
    BY <1>3, <1>5, <1>6, <2>1, ElsewhereLemma DEF IInv
<1>11. ASSUME s = cur
       PROVE  (Usable => Conversing)' /\ Attended'
  <2>1. /\ Usable' = Usable /\ Up' = Up /\ Down' = Down
        /\ Mine(TRUE)' = Mine(TRUE) /\ Mine(FALSE)' = Mine(FALSE)
    BY <1>3 DEF Usable, Up, Down, Mine
  <2>2. Attended'
    BY <1>3, <1>5, <1>11, <2>1 DEF IInv, Attended
  <2>3. SUFFICES ASSUME Usable, Conversing
                 PROVE  Conversing'
    BY <2>1, <2>2 DEF IInv
  <2>4. ~Free /\ (Busy => Free' \/ Busy')
    BY <1>3, <1>4, <1>6, <1>11, <2>1 DEF Free, Busy
  <2>e. Sending /\ Still => Sending' /\ Still'
    <3>1. Stale' <=> Stale
      BY <1>3 DEF Stale, Short
    <3>2. handler[s].rest = <<>> => down = file[s].down /\ rest = <<>>
      BY <1>4
    <3>3. Still => Still'
      BY <1>3, <1>5, <1>6, <1>11, <3>1, <3>2 DEF Still, Clear
    <3>4. Sending => Sending'
      BY <1>3, <1>4, <1>6, <1>11 DEF Sending
    <3>5. QED
      BY <3>3, <3>4
  <2>f. (Resting => Resting') /\ (Requested => Requested')
    BY <1>3, <2>1, <2>e DEF Resting, Requested, LateUp, LateDown
  <2>g. CASE op = None \/ op.pc = "begin"
    BY <1>3, <2>3, <2>f, <2>g DEF Conversing
  <2>5. SUFFICES ASSUME op # None, op.pc # "begin"
                 PROVE  Conversing'
    BY <2>g
  <2>6. Busy => op.what \in {"read", "list"}
    <3>1. SUFFICES ASSUME Busy
                   PROVE  op.what \in {"read", "list"}
      OBVIOUS
    <3>2. op.what = handler[s].doing.what /\ op.what \in Kind
      BY <1>11, <2>5, <3>1, OpLemma DEF Busy
    <3>3. op.what \notin {"show", "write"}
      BY <1>2, <1>3, <3>2 DEF Storing
    <3>4. QED
      BY <3>2, <3>3 DEF Kind
  <2>7. file[s].open
    BY <1>2, <1>3, <1>11, <2>3 DEF Matched, Usable
  <2>8. op.got \in Seq(Byte) /\ op.x \in Name
    BY <2>5, OpLemma
  <2>9. ASSUME NEW size, Streaming(size)
        PROVE  Streaming(size)'
    <3>1. SUFFICES ASSUME ~early
                   PROVE  /\ Run(op.got, op.x, 0) /\ Run(down, op.x, Len(op.got))
                          /\ Run(rest, op.x, Len(op.got) + Len(down))
                          /\ Len(op.got) + Len(down) + Len(rest) <= size
      BY <1>3, <1>5, <1>6, <1>11 DEF Streaming
    <3>2. LET d == file[s].down  r == handler[s].rest IN
          /\ Run(op.got, op.x, 0) /\ Run(d, op.x, Len(op.got))
          /\ Run(r, op.x, Len(op.got) + Len(d))
          /\ Len(op.got) + Len(d) + Len(r) <= size
      BY <1>11, <2>9, <3>1 DEF Streaming
    <3>3. CASE handler[s].rest = <<>>
      BY <1>4, <3>2, <3>3
    <3>4. CASE handler[s].rest # <<>>
      <4> DEFINE d == file[s].down
                 r == handler[s].rest
      <4>1. down = Append(d, Head(r)) /\ rest = Tail(r) /\ r # <<>>
        BY <1>4, <2>7, <3>4
      <4>2. /\ d \in Seq(Byte) /\ r \in Seq(Byte)
            /\ Len(op.got) \in Nat /\ Len(d) \in Nat /\ Len(r) \in Nat
        BY <1>1, <2>8
      <4> HIDE DEF d, r
      <4>3. Run(d, op.x, Len(op.got)) /\ Run(r, op.x, Len(op.got) + Len(d))
        BY <3>2 DEF d, r
      <4>4. /\ Run(down, op.x, Len(op.got)) /\ Run(rest, op.x, Len(op.got) + Len(d) + 1)
            /\ Len(down) = Len(d) + 1 /\ Len(rest) = Len(r) - 1
        BY <4>1, <4>2, <4>3, MoveLemma
      <4>5. \A a, b, c \in Nat : /\ a + b + 1 = a + (b + 1)
                                 /\ a + (b + 1) + (c - 1) = a + b + c
        OBVIOUS
      <4>6. Len(down) = Len(d) + 1 /\ Len(rest) = Len(r) - 1
        BY <4>4
      <4>7. /\ Len(op.got) + Len(d) + 1 = Len(op.got) + (Len(d) + 1)
             /\ Len(op.got) + (Len(d) + 1) + (Len(r) - 1) = Len(op.got) + Len(d) + Len(r)
        BY <4>2, <4>5
      <4>8. Len(op.got) + Len(d) + 1 = Len(op.got) + Len(down)
        BY <4>6, <4>7
      <4>9. Len(op.got) + Len(d) + Len(r) <= size
        BY <3>2 DEF d, r
      <4>10. Len(op.got) + Len(down) + Len(rest) = Len(op.got) + Len(d) + Len(r)
        BY <4>6, <4>7
      <4>11. QED
        BY <3>2, <4>4, <4>8, <4>9, <4>10
    <3>5. QED
      BY <3>3, <3>4
  <2>10. CASE op.pc = "reply"
    <3>1. op.got = <<>> /\ (Requested \/ Answered)
      BY <2>3, <2>5, <2>10 DEF Conversing
    <3>2. CASE Requested
      BY <1>3, <2>5, <2>10, <2>f, <3>1, <3>2 DEF Conversing
    <3>3. CASE Answered
      <4>1. op.what # "show" /\ op.what \in Kind
        BY <2>4, <2>5, <3>3, OpLemma DEF Answered
      <4>2. op.what # "write"
        BY <1>3, <1>11, <2>6, <3>3 DEF Answered
      <4>3. op.what \in {"read", "list"} /\ Busy
        BY <2>4, <3>3, <4>1, <4>2 DEF Kind, Answered
      <4>4. Answered'
        BY <1>3, <2>1, <2>4, <2>9, <3>3, <4>3 DEF Answered
      <4>5. QED
        BY <1>3, <2>5, <2>10, <3>1, <4>4 DEF Conversing
    <3>4. QED
      BY <3>1, <3>2, <3>3
  <2>11. CASE op.pc = "bytes"
    <3>1. Receiving
      BY <2>3, <2>5, <2>11 DEF Conversing
    <3>2. Receiving'
      BY <1>3, <2>1, <2>4, <2>9, <3>1 DEF Receiving
    <3>3. QED
      BY <1>3, <2>5, <2>11, <3>2 DEF Conversing
  <2>12. CASE op.pc = "ack"
    <3>1. /\ Closing /\ Busy /\ Up = <<Mine(TRUE)>> /\ Down = <<>>
          /\ op.what \in {"read", "list"}
      BY <2>3, <2>4, <2>5, <2>6, <2>12 DEF Conversing, Closing
    <3>2. ~early /\ op.left = 0 => Clear' /\ handler'[cur].rest = <<>>
      BY <1>3, <1>4, <1>5, <1>6, <1>11, <3>1 DEF Closing, Clear
    <3>3. Closing'
      BY <1>3, <2>1, <2>4, <3>1, <3>2 DEF Closing
    <3>4. QED
      BY <1>3, <2>5, <2>12, <3>3 DEF Conversing
  <2>13. op.pc \in {"begin", "reply", "bytes", "ack"}
    BY <2>5, OpLemma DEF Op
  <2>14. QED
    BY <2>5, <2>10, <2>11, <2>12, <2>13
<1>12. QED
  BY <1>7, <1>8, <1>9, <1>10, <1>11 DEF IInv

LEMMA ReceiveByteStep ==
  ASSUME IInv, NEW s \in Session, ReceiveByte(s)
  PROVE  IInv'
<1>1. /\ file \in [Session -> FileType] /\ file[s] \in FileType
      /\ handler \in [Session -> HandlerType] /\ handler[s] \in HandlerType
      /\ file[s].up \in Seq(Byte) /\ file[s].down \in Seq(Byte)
      /\ handler[s].rest \in Seq(Byte) /\ handler[s].got \in Seq(Byte)
      /\ handler[s].doing \in Request \cup {None} /\ handler[s].alive \in BOOLEAN
  BY FieldsLemma DEF IInv
<1>2. Matched(s) /\ Storing(s) /\ Asked(s) /\ Waiting /\ (ctl[s].open => s = cur)
      /\ (s > cur => Unused(s))
  BY DEF IInv, Apart, Writing
<1>3. /\ handler[s].claimed = s /\ handler[s].doing # None /\ handler[s].doing.what = "write"
      /\ handler[s].alive /\ file[s].up # <<>>
      /\ UNCHANGED <<ctl, parked, cur, op, ops, done, early>>
  BY <1>2 DEF ReceiveByte, Matched, hub
<1>4. PICK x : x = handler[s].doing.x
  OBVIOUS
<1>5. x \in Photo /\ x \in Name
  BY <1>2, <1>3, <1>4 DEF Storing, Name
<1>6. PICK got : got = Append(handler[s].got, Head(file[s].up))
  OBVIOUS
<1>7. /\ got \in Seq(Byte) /\ Tail(file[s].up) \in Seq(Byte)
      /\ Run(got, x, 0) /\ Run(Tail(file[s].up), x, Len(got))
      /\ Len(got) + Len(Tail(file[s].up)) = 2
      /\ Len(got) = 2 => Tail(file[s].up) = <<>>
      /\ Len(got) # 0
  <2> DEFINE g == handler[s].got
             u == file[s].up
  <2>1. g \in Seq(Byte) /\ u \in Seq(Byte) /\ u # <<>> /\ got = Append(g, Head(u))
    BY <1>1, <1>3, <1>6
  <2>2. Run(g, x, 0) /\ Run(u, x, Len(g)) /\ Len(g) + Len(u) \in {0, 2}
    BY <1>2, <1>3, <1>4 DEF Storing
  <2> HIDE DEF g, u
  <2>3. Len(g) \in Nat /\ Len(u) \in Nat /\ Len(u) > 0
    BY <2>1, HeadLemma
  <2>4. 0 \in Nat /\ Run(u, x, 0 + Len(g))
    BY <2>2, <2>3
  <2>5. /\ got \in Seq(Byte) /\ Tail(u) \in Seq(Byte)
        /\ Run(got, x, 0) /\ Run(Tail(u), x, 0 + Len(g) + 1)
        /\ Len(got) = Len(g) + 1 /\ Len(Tail(u)) = Len(u) - 1
    BY <2>1, <2>2, <2>4, MoveLemma
  <2>6. \A a, b \in Nat : b > 0 /\ a + b \in {0, 2} =>
          0 + a + 1 = a + 1 /\ (a + 1) + (b - 1) = 2 /\ (a + 1 = 2 => b - 1 = 0)
          /\ a + 1 # 0
    OBVIOUS
  <2>7. Len(got) = Len(g) + 1 /\ Len(Tail(u)) = Len(u) - 1
    BY <2>5
  <2>8. /\ 0 + Len(g) + 1 = Len(got) /\ Len(got) + Len(Tail(u)) = 2 /\ Len(got) # 0
        /\ Len(got) = 2 => Len(Tail(u)) = 0
    BY <2>2, <2>3, <2>6, <2>7
  <2>9. Run(Tail(u), x, Len(got))
    BY <2>5, <2>8
  <2>10. Len(got) = 2 => Tail(u) = <<>>
    BY <2>5, <2>8, EmptySeq
  <2>11. QED
    BY <2>5, <2>8, <2>9, <2>10 DEF u
<1>8. got = Whole(x) \/ Len(got) # 2
  BY <1>5, <1>7, WholeLemma
<1>9. /\ file' \in [Session -> FileType]
      /\ file'[s].open = file[s].open /\ file'[s].opened = file[s].opened
      /\ file'[s].arrived = file[s].arrived
      /\ file'[s].up = Tail(file[s].up) /\ file'[s].down = file[s].down
      /\ \A t \in Session \ {s} : file'[t] = file[t]
  <2> DEFINE u == Tail(file[s].up)
  <2>1. file' = [file EXCEPT ![s] = [file[s] EXCEPT !.up = u]]
    BY <1>3 DEF ReceiveByte
  <2>2. u \in Seq(Byte)
    BY <1>7
  <2> HIDE DEF u
  <2>3. file' = [file EXCEPT ![s] = [file[s] EXCEPT !.up = u, !.down = file[s].down]]
    BY <2>1, SameLemma DEF IInv
  <2>4. /\ file' \in [Session -> FileType]
        /\ file'[s].open = file[s].open /\ file'[s].opened = file[s].opened
        /\ file'[s].arrived = file[s].arrived
        /\ file'[s].up = u /\ file'[s].down = file[s].down
        /\ \A t \in Session \ {s} : file'[t] = file[t]
    BY <1>1, <2>2, <2>3, FileLemma DEF IInv
  <2>5. QED
    BY <2>4 DEF u
<1>10. PICK doing \in {handler[s].doing, None}, kept \in Seq(Byte) :
         /\ Len(got) = 2 => doing = None /\ kept = <<>>
         /\ Len(got) # 2 => doing = handler[s].doing /\ kept = got
         /\ handler' = [handler EXCEPT ![s] = [handler[s] EXCEPT !.got = kept, !.doing = doing]]
  <2> DEFINE doing == IF Len(got) = 2 THEN None ELSE handler[s].doing
             kept == IF Len(got) = 2 THEN <<>> ELSE got
  <2>1. handler' = [handler EXCEPT ![s] = [handler[s] EXCEPT !.got = kept, !.doing = doing]]
    BY <1>3, <1>6 DEF ReceiveByte
  <2>2. doing \in {handler[s].doing, None} /\ kept \in Seq(Byte)
    BY <1>7
  <2>3. /\ Len(got) = 2 => doing = None /\ kept = <<>>
        /\ Len(got) # 2 => doing = handler[s].doing /\ kept = got
    OBVIOUS
  <2> HIDE DEF doing, kept
  <2>4. QED
    BY <2>1, <2>2, <2>3
<1>11. /\ handler' \in [Session -> HandlerType]
       /\ handler'[s].alive /\ handler'[s].doing = doing
       /\ handler'[s].got = kept /\ handler'[s].rest = handler[s].rest
       /\ handler'[s].claimed = handler[s].claimed
       /\ \A t \in Session \ {s} : handler'[t] = handler[t]
  <2>1. doing \in Request \cup {None}
    BY <1>1, <1>10
  <2>2. LET h == [handler[s] EXCEPT !.got = kept, !.doing = doing] IN
          /\ h \in HandlerType /\ h.alive = handler[s].alive /\ h.doing = doing
          /\ h.got = kept /\ h.rest = handler[s].rest /\ h.claimed = handler[s].claimed
    BY <1>1, <1>10, <2>1 DEF HandlerType
  <2>3. QED
    BY <1>1, <1>3, <1>10, <2>2
<1>12. /\ Len(got) = 2 => stored' = [stored EXCEPT ![x] = Whole(x)]
       /\ Len(got) # 2 => stored' = stored
  BY <1>3, <1>4, <1>6, <1>8 DEF ReceiveByte
<1>13. /\ stored' \in [Photo -> Seq(Byte)] /\ StoredWhole'
       /\ \A y \in Photo : stored[y] = Whole(y) => stored'[y] = Whole(y)
       /\ Len(got) = 2 => stored'[x] = Whole(x)
  <2>1. stored \in [Photo -> Seq(Byte)] /\ StoredWhole /\ Whole(x) \in Seq(Byte)
    BY <1>5, WholeLemma DEF IInv, TypeOK
  <2>2. CASE Len(got) = 2
    <3>1. /\ stored' = [stored EXCEPT ![x] = Whole(x)]
          /\ stored'[x] = Whole(x) /\ \A y \in Photo \ {x} : stored'[y] = stored[y]
          /\ stored' \in [Photo -> Seq(Byte)]
      BY <1>5, <1>12, <2>1, <2>2
    <3>2. ASSUME NEW y \in Photo
          PROVE  /\ stored'[y] \in {<<>>, Whole(y)}
                 /\ stored[y] = Whole(y) => stored'[y] = Whole(y)
      <4>1. CASE y = x
        BY <3>1, <4>1
      <4>2. CASE y # x
        BY <2>1, <3>1, <4>2 DEF StoredWhole
      <4>3. QED
        BY <4>1, <4>2
    <3>3. QED
      BY <3>1, <3>2 DEF StoredWhole
  <2>3. CASE Len(got) # 2
    BY <1>12, <2>1, <2>3 DEF StoredWhole
  <2>4. QED
    BY <2>2, <2>3
<1>14. TypeOK'
  BY <1>3, <1>9, <1>11, <1>13 DEF IInv, TypeOK, FileType, HandlerType
<1>15. handler[s].rest = <<>>
  BY <1>2, <1>3 DEF Storing
<1>16. Apart'
  <2>1. Matched(s)'
    BY <1>2, <1>3, <1>9, <1>10, <1>11 DEF Matched
  <2>2. Storing(s)'
    <3>1. CASE Len(got) = 2
      BY <1>7, <1>9, <1>10, <1>11, <1>15, <3>1 DEF Storing
    <3>2. CASE Len(got) # 2
      <4>1. /\ handler'[s].doing = handler[s].doing /\ handler'[s].got = got
            /\ file'[s].up = Tail(file[s].up) /\ handler'[s].rest = <<>>
        BY <1>9, <1>10, <1>11, <1>15, <3>2
      <4>2. Len(got) + Len(Tail(file[s].up)) \in {0, 2}
        BY <1>7
      <4>3. QED
        BY <1>2, <1>3, <1>4, <1>7, <1>11, <4>1, <4>2 DEF Storing
    <3>3. QED
      BY <3>1, <3>2
  <2>3. Asked(s)'
    BY <1>2, <1>3 DEF Asked
  <2>4. Waiting'
    <3>1. cur # 0 => cur \in Session
      BY DEF IInv, TypeOK, Session
    <3>2. cur # 0 => /\ handler'[cur].claimed = handler[cur].claimed
                     /\ file'[cur].arrived = file[cur].arrived
      BY <1>9, <1>11, <3>1
    <3>3. QED
      BY <1>2, <1>3, <3>2 DEF Waiting
  <2>5. s > cur => FALSE
    BY <1>2, <1>3 DEF Unused
  <2>6. QED
    BY <1>2, <1>3, <1>9, <1>11, <2>1, <2>2, <2>3, <2>4, <2>5, ApartLemma DEF IInv, Writing
<1>17. Results'
  BY <1>3, <1>13, ResultsLemma DEF IInv
<1>18. ASSUME s # cur
       PROVE  (Usable => Conversing)' /\ Attended'
  <2>1. cur # 0 => cur \in Session \ {s}
    BY <1>18 DEF IInv, TypeOK, Session
  <2>2. QED
    BY <1>3, <1>9, <1>11, <1>13, <2>1, ElsewhereLemma DEF IInv
<1>19. ASSUME s = cur
       PROVE  (Usable => Conversing)' /\ Attended'
  <2>1. /\ Usable' = Usable /\ Up' = Up /\ Down' = Down /\ (Clear' <=> Clear)
        /\ Mine(TRUE)' = Mine(TRUE) /\ Mine(FALSE)' = Mine(FALSE)
    BY <1>3, <1>9, <1>19 DEF Usable, Up, Down, Mine, Clear
  <2>2. Attended'
    BY <1>3, <1>9, <1>19, <2>1 DEF IInv, Attended
  <2>3. SUFFICES ASSUME Usable, Conversing
                 PROVE  Conversing'
    BY <2>1, <2>2 DEF IInv
  <2>4. ~Free /\ (Busy => Free' \/ Busy')
    BY <1>3, <1>10, <1>11, <1>19, <2>1 DEF Free, Busy
  <2>a. ~Sending
    BY <1>3, <1>19 DEF Sending
  <2>5. op # None /\ op.pc # "begin"
    BY <2>3, <2>a DEF Conversing, Resting
  <2>6. Busy => op.what = "write" /\ op.x = x
    BY <1>3, <1>4, <1>19, <2>5, OpLemma DEF Busy
  <2>7. op.what \in Kind /\ op.pc \in {"begin", "reply", "bytes", "ack"}
    BY <2>5, OpLemma DEF Op
  <2>8. op.pc # "reply"
    <3>1. SUFFICES ASSUME op.pc = "reply"
                   PROVE  FALSE
      OBVIOUS
    <3>2. Answered
      BY <2>3, <2>5, <2>a, <3>1 DEF Conversing, Requested
    <3>3. op.what # "show" /\ op.what \notin {"read", "list"}
      BY <2>4, <2>6, <3>2 DEF Answered
    <3>4. op.what # "write"
      BY <1>3, <1>19, <3>2 DEF Answered
    <3>5. QED
      BY <2>7, <3>3, <3>4 DEF Kind
  <2>9. op.pc # "bytes"
    BY <2>3, <2>4, <2>5, <2>6 DEF Conversing, Receiving
  <2>10. op.pc = "ack"
    BY <2>5, <2>7, <2>8, <2>9
  <2>11. Closing /\ Busy /\ Up = <<Mine(TRUE)>> /\ Down = <<>> /\ op.what = "write" /\ op.x = x
    BY <2>3, <2>4, <2>5, <2>6, <2>10 DEF Conversing, Closing
  <2>12. CASE Len(got) = 2
    <3>1. Free' /\ handler'[cur].doing = None /\ handler'[cur].rest = <<>>
      BY <1>3, <1>10, <1>11, <1>15, <1>19, <2>12 DEF Free
    <3>2. stored'[op.x] = Whole(op.x)
      BY <1>13, <2>11, <2>12
    <3>3. Mine(FALSE) # None
      BY <2>5, OpLemma, NoneAssumption
    <3>4. ~Busy'
      BY <1>3, <2>1, <3>1, <3>3 DEF Busy
    <3>5. Closing'
      BY <1>3, <2>1, <2>11, <3>1, <3>2, <3>4 DEF Closing
    <3>6. QED
      BY <1>3, <2>5, <2>10, <3>5 DEF Conversing
  <2>13. CASE Len(got) # 2
    <3>1. /\ handler'[cur].doing = handler[cur].doing /\ handler'[cur].got = got
          /\ file'[cur].up = Tail(file[cur].up) /\ handler'[cur].rest = <<>>
      BY <1>9, <1>10, <1>11, <1>15, <1>19, <2>13
    <3>2. Busy' /\ ~Free'
      BY <1>3, <2>1, <2>4, <2>11, <3>1 DEF Busy, Free
    <3>3. Len(handler'[cur].got) + Len(file'[cur].up) = 2
      BY <1>7, <1>19, <3>1
    <3>4. Closing'
      BY <1>3, <2>1, <2>11, <3>1, <3>2, <3>3 DEF Closing
    <3>5. QED
      BY <1>3, <2>5, <2>10, <3>4 DEF Conversing
  <2>14. QED
    BY <2>12, <2>13
<1>20. QED
  BY <1>13, <1>14, <1>16, <1>17, <1>18, <1>19 DEF IInv

-----------------------------------------------------------------------------
(* Every step; and what follows.                                           *)

LEMMA NextLemma ==
  ASSUME IInv, ~Vanishes, [Next]_vars
  PROVE  IInv'
<1>1. CASE Connect
  BY <1>1, ConnectStep
<1>2. CASE Send
  BY <1>2, SendStep
<1>3. CASE Take
  BY <1>3, TakeStep
<1>4. CASE Receive
  BY <1>4, ReceiveStep
<1>5. CASE AllReceived
  BY <1>5, AllReceivedStep
<1>6. CASE Unconfirmed
  BY <1>6, UnconfirmedStep
<1>7. CASE GiveUp
  BY <1>7, GiveUpStep
<1>8. CASE Lost
  BY <1>8, LostStep
<1>9. CASE DisplayImage \/ GetAlbumData
  <2>1. "show" \in Kind /\ "list" \in Kind /\ "list" \in Name
    BY DEF Kind, Name
  <2>2. QED
    BY <1>9, <2>1, BeginStep DEF DisplayImage, GetAlbumData
<1>10. ASSUME NEW x \in Photo, UploadImage(x) \/ DownloadImage(x)
       PROVE  IInv'
  <2>1. "write" \in Kind /\ "read" \in Kind /\ x \in Name
    BY DEF Kind, Name
  <2>2. QED
    BY <1>10, <2>1, BeginStep DEF UploadImage, DownloadImage
<1>11. ASSUME NEW s \in Session, Arrive(s) \/ Serve(s) \/ Claim(s)
       PROVE  IInv'
  BY <1>11, ArriveStep, ServeStep, ClaimStep
<1>12. ASSUME NEW s \in Session, SendByte(s) \/ ReceiveByte(s) \/ HandlerEnds(s)
       PROVE  IInv'
  BY <1>12, SendByteStep, ReceiveByteStep, HandlerEndsStep
<1>13. CASE UNCHANGED vars
  <2>1. UNCHANGED <<ctl, file, handler, parked, stored, cur, op, ops, done, early>>
    BY <1>13 DEF vars, hub
  <2>2. TypeOK' /\ StoredWhole' /\ Attended' /\ Results'
    BY <2>1 DEF IInv, TypeOK, StoredWhole, Attended, Usable, Results
  <2>3. Apart'
    BY <2>1 DEF IInv, Apart, Unused, Matched, Writing, Storing, Asked, Waiting
  <2>4. (Usable => Conversing)'
    BY <2>1, ElsewhereLemma DEF IInv
  <2>5. QED
    BY <2>2, <2>3, <2>4 DEF IInv
<1>14. QED
  BY <1>1, <1>2, <1>3, <1>4, <1>5, <1>6, <1>7, <1>8, <1>9, <1>10, <1>11, <1>12, <1>13
     DEF Next

(* The invariant that the theorems below rest on.                          *)
THEOREM Inductive == ASSUME ~Vanishes PROVE Spec => []IInv
<1>1. Init => IInv
  BY InitLemma
<1>2. IInv /\ [Next]_vars => IInv'
  BY NextLemma
<1>3. QED
  BY <1>1, <1>2, PTL DEF Spec

(* PhotoClean: a photo that was read is the beginning of that photo,       *)
(* unless the rest of an earlier one may have come before it.              *)
THEOREM PhotoCleanHolds == ASSUME ~Vanishes PROVE Spec => []PhotoClean
<1>1. IInv => PhotoClean
  <2>1. SUFFICES ASSUME IInv, done # None, done.what = "read", ~early
                 PROVE  IsPrefix(done.got, Whole(done.x))
    BY DEF PhotoClean
  <2>2. done.got \in Seq(Byte) /\ done.x \in Name
    BY <2>1 DEF IInv, TypeOK, Op
  <2>3. Len(done.got) <= 2 /\ Run(done.got, done.x, 0)
    BY <2>1 DEF IInv, Results
  <2>4. /\ Whole(done.x) \in Seq(Byte) /\ Len(Whole(done.x)) = 2
        /\ Run(Whole(done.x), done.x, 0)
    BY <2>2, WholeLemma
  <2> DEFINE n == Len(done.got)
  <2>5. n \in 0 .. 2 /\ n \in Nat /\ 1 + n - 1 = n
    <3>1. \A k \in Nat : k <= 2 => k \in 0 .. 2 /\ 1 + k - 1 = k
      OBVIOUS
    <3>2. n \in Nat /\ n <= 2
      BY <2>2, <2>3
    <3>3. QED
      BY <3>1, <3>2
  <2>6. SubSeq(done.got, 1, n) = SubSeq(Whole(done.x), 1, n)
    <3>1. \A i \in 1 .. n : done.got[i] = Whole(done.x)[i]
      BY <2>3, <2>4, <2>5 DEF Run
    <3>2. QED
      BY <2>2, <2>4, <2>5, <3>1
  <2>7. QED
    BY <2>4, <2>5, <2>6 DEF IsPrefix
<1>2. QED
  BY <1>1, Inductive, PTL

(* ListIntact: a list that was read is whole, with the same exception.     *)
THEOREM ListIntactHolds == ASSUME ~Vanishes PROVE Spec => []ListIntact
<1>1. IInv => ListIntact
  <2>1. SUFFICES ASSUME IInv, done # None, done.what = "list", ~early
                 PROVE  done.got = Whole("list")
    BY DEF ListIntact
  <2>2. done.got \in Seq(Byte) /\ done.x \in Name
    BY <2>1 DEF IInv, TypeOK, Op
  <2>3. Len(done.got) = 2 /\ Run(done.got, done.x, 0) /\ done.x = "list"
    BY <2>1 DEF IInv, Results
  <2>4. QED
    BY <2>2, <2>3, WholeLemma
<1>2. QED
  BY <1>1, Inductive, PTL

(* UploadStored: what was uploaded is stored under its name, byte for      *)
(* byte.                                                                   *)
THEOREM UploadStoredHolds == ASSUME ~Vanishes PROVE Spec => []UploadStored
<1>1. IInv => UploadStored
  BY DEF IInv, Results, UploadStored
<1>2. QED
  BY <1>1, Inductive, PTL

(* StoredWhole: no part of a photo and no other photo's bytes are ever     *)
(* kept under a name.                                                      *)
THEOREM StoredWholeHolds == ASSUME ~Vanishes PROVE Spec => []StoredWhole
<1>1. IInv => StoredWhole
  BY DEF IInv
<1>2. QED
  BY <1>1, Inductive, PTL

(* Paired: a handler uses the file channel of its own session.             *)
THEOREM PairedHolds == ASSUME ~Vanishes PROVE Spec => []Paired
<1>1. IInv => Paired
  BY DEF IInv, Apart, Matched, Paired
<1>2. QED
  BY <1>1, Inductive, PTL

-----------------------------------------------------------------------------
(* That answers are not mixed up, and that everything keeps its type, does *)
(* not depend on whose file channel a handler has claimed.  So these two   *)
(* are proved without ~Vanishes, from an invariant of the control channel. *)

(* Which requests and replies are there at each step of an operation.      *)
TalkRequested ==
  /\ Up # <<>> /\ Up[Len(Up)] = Mine(FALSE)
  /\ \A i \in 1 .. Len(Up) - 1 : LateEnd(Up[i])
  /\ LateDown

TalkAnswered ==
  /\ Up = <<>> /\ Down # <<>>
  /\ \A i \in 1 .. Len(Down) - 1 : LateOk(Down[i])
  /\ Down[Len(Down)].what = op.what /\ Down[Len(Down)].n = op.n
  /\ Down[Len(Down)].act = IF op.what = "show" THEN "ok" ELSE "started"

TalkClosing ==
  /\ op.what # "show"
  /\ \/ Len(Up) = 1 /\ Up[1] = Mine(TRUE) /\ Down = <<>>
     \/ /\ Up = <<>> /\ Len(Down) = 1
        /\ Down[1].what = op.what /\ Down[1].n = op.n /\ Down[1].act = "ok"

Talk ==
  /\ op = None => LateUp /\ LateDown
  /\ op # None =>
       /\ op.pc = "begin" => LateUp /\ LateDown
       /\ op.pc = "reply" => TalkRequested \/ TalkAnswered
       /\ op.pc = "bytes" => op.what \in {"read", "list"} /\ Up = <<>> /\ Down = <<>>
       /\ op.pc = "ack" => TalkClosing

(* A photo is announced by its size: none, or two bytes.                   *)
Sized ==
  /\ \A x \in Photo : Len(stored[x]) \in {0, 2}
  /\ \A s \in Session : handler[s].doing # None /\ handler[s].doing.what = "write" =>
                          handler[s].doing.x \in Photo /\ Len(handler[s].got) < 2

Asks ==
  /\ \A s \in Session :
       /\ s > cur => ctl[s].up = <<>> /\ ctl[s].down = <<>>
       /\ \A i \in 1 .. Len(ctl[s].up) :
            ctl[s].up[i].what = "write" => ctl[s].up[i].x \in Photo
  /\ op # None => Usable /\ (op.what = "write" => op.x \in Photo)

(* A channel waits for a handler after it has arrived, and once.           *)
Queued == \A i \in 1 .. Len(parked) : file[parked[i]].arrived

Talks == TypeOK /\ Sized /\ Asks /\ Queued /\ (Usable => Talk) /\ AnswersOwn

LEMMA HereLemma ==
  ASSUME Talks, Usable
  PROVE  /\ cur \in Session /\ ctl[cur].open
         /\ Up \in Seq(Request) /\ Down \in Seq(Reply)
         /\ Len(Up) \in Nat /\ Len(Down) \in Nat
<1>1. cur \in Session
  BY DEF Talks, TypeOK, Usable, Session
<1>2. ctl[cur].up \in Seq(Request) /\ ctl[cur].down \in Seq(Reply)
  BY <1>1, FieldsLemma DEF Talks
<1>3. QED
  BY <1>1, <1>2 DEF Usable, Up, Down

(* A step that is not about what is said.                                  *)
LEMMA QuietLemma ==
  ASSUME Talks, UNCHANGED <<ctl, cur, op, done>>, TypeOK', Sized', Queued'
  PROVE  Talks'
<1>1. Asks' /\ AnswersOwn' /\ Usable' = Usable
  BY DEF Talks, Asks, AnswersOwn, Usable
<1>2. Usable' => Talk'
  BY <1>1 DEF Talks, Talk, TalkRequested, TalkAnswered, TalkClosing,
              LateUp, LateDown, LateEnd, LateOk, Up, Down, Mine
<1>3. QED
  BY <1>1, <1>2 DEF Talks

LEMMA TalksInit ==
  ASSUME Init
  PROVE  Talks
<1>1. TypeOK /\ StoredWhole
  BY InitLemma DEF IInv
<1>2. /\ \A s \in Session : /\ ctl[s].up = <<>> /\ ctl[s].down = <<>>
                            /\ handler[s].doing = None
      /\ parked = <<>> /\ cur = 0 /\ op = None /\ done = None
  BY DEF Init
<1>3. Sized
  <2>1. ASSUME NEW x \in Photo
        PROVE  Len(stored[x]) \in {0, 2}
    <3>1. stored[x] \in {<<>>, Whole(x)} /\ x \in Name
      BY <1>1 DEF StoredWhole, Name
    <3>2. QED
      BY <3>1, WholeLemma
  <2>2. QED
    BY <1>2, <2>1 DEF Sized
<1>4. QED
  BY <1>1, <1>2, <1>3 DEF Talks, Asks, Queued, AnswersOwn, Usable

-----------------------------------------------------------------------------
(* The steps that say nothing.                                             *)

LEMMA ArriveTalks ==
  ASSUME Talks, NEW s \in Session, Arrive(s)
  PROVE  Talks'
<1>1. file \in [Session -> FileType] /\ file[s] \in FileType /\ parked \in Seq(Session)
  BY FieldsLemma DEF Talks, TypeOK
<1>2. /\ UNCHANGED <<ctl, handler, stored, cur, op, ops, done, early>>
      /\ ~file[s].arrived /\ parked' = Append(parked, s)
      /\ file' = [file EXCEPT ![s] = [file[s] EXCEPT !.arrived = TRUE]]
  BY DEF Arrive, hub
<1>3. /\ file' \in [Session -> FileType] /\ file'[s].arrived
      /\ \A t \in Session \ {s} : file'[t] = file[t]
  <2>1. LET f == [file[s] EXCEPT !.arrived = TRUE] IN f \in FileType /\ f.arrived
    BY <1>1 DEF FileType
  <2>2. QED
    BY <1>1, <1>2, <2>1
<1>4. /\ parked' \in Seq(Session) /\ Len(parked') = Len(parked) + 1 /\ Len(parked) \in Nat
      /\ \A i \in 1 .. Len(parked) : parked'[i] = parked[i] /\ parked[i] \in Session \ {s}
      /\ parked'[Len(parked) + 1] = s
  <2>1. \A i \in 1 .. Len(parked) : parked[i] \in Session \ {s}
    BY <1>1, <1>2 DEF Talks, Queued
  <2>2. QED
    BY <1>1, <1>2, <2>1, AppendProperties
<1>5. IsInjective(parked')
  <2>1. IsInjective(parked) /\ DOMAIN parked = 1 .. Len(parked)
        /\ DOMAIN parked' = 1 .. Len(parked) + 1
    BY <1>1, <1>4 DEF Talks, TypeOK
  <2>2. \A i \in 1 .. Len(parked) + 1 : i \in 1 .. Len(parked) \/ i = Len(parked) + 1
    BY <1>4
  <2>3. QED
    BY <1>4, <2>1, <2>2 DEF IsInjective
<1>6. TypeOK'
  BY <1>2, <1>3, <1>4, <1>5 DEF Talks, TypeOK, FileType
<1>7. Sized'
  BY <1>2 DEF Talks, Sized
<1>8. Queued'
  <2>1. ASSUME NEW i \in 1 .. Len(parked')
        PROVE  file'[parked'[i]].arrived
    <3>1. i \in 1 .. Len(parked) \/ i = Len(parked) + 1
      BY <1>4
    <3>2. QED
      BY <1>3, <1>4, <3>1 DEF Talks, Queued
  <2>2. QED
    BY <2>1 DEF Queued
<1>9. QED
  BY <1>2, <1>6, <1>7, <1>8, QuietLemma

LEMMA ClaimTalks ==
  ASSUME Talks, NEW s \in Session, Claim(s)
  PROVE  Talks'
<1>1. /\ handler \in [Session -> HandlerType] /\ handler[s] \in HandlerType
      /\ parked \in Seq(Session) /\ parked # <<>>
  BY FieldsLemma DEF Talks, TypeOK, Claim
<1>2. /\ Len(parked) \in Nat /\ Len(parked) > 0 /\ Head(parked) \in Session
      /\ Tail(parked) \in Seq(Session) /\ Len(Tail(parked)) = Len(parked) - 1
      /\ \A i \in 1 .. Len(parked) - 1 : Tail(parked)[i] = parked[i + 1]
  BY <1>1, HeadLemma
<1>3. /\ UNCHANGED <<ctl, file, stored, cur, op, ops, done, early>>
      /\ parked' = Tail(parked)
      /\ handler' = [handler EXCEPT ![s] = [handler[s] EXCEPT !.claimed = Head(parked)]]
  BY DEF Claim, hub
<1>4. /\ handler' \in [Session -> HandlerType]
      /\ handler'[s].doing = handler[s].doing /\ handler'[s].got = handler[s].got
      /\ \A t \in Session \ {s} : handler'[t] = handler[t]
  <2>1. PICK c \in Session : c = Head(parked)
    BY <1>2
  <2>2. LET h == [handler[s] EXCEPT !.claimed = c] IN
          h \in HandlerType /\ h.doing = handler[s].doing /\ h.got = handler[s].got
    BY <1>1 DEF HandlerType
  <2>3. QED
    BY <1>1, <1>3, <2>1, <2>2
<1>5. \A i \in 1 .. Len(parked') : i + 1 \in 1 .. Len(parked) /\ parked'[i] = parked[i + 1]
  BY <1>2, <1>3
<1>6. IsInjective(parked')
  <2>1. IsInjective(parked) /\ DOMAIN parked = 1 .. Len(parked)
        /\ DOMAIN parked' = 1 .. Len(parked')
    BY <1>1, <1>2, <1>3 DEF Talks, TypeOK
  <2>2. ASSUME NEW i \in 1 .. Len(parked'), NEW j \in 1 .. Len(parked'),
               parked'[i] = parked'[j]
        PROVE  i = j
    <3>1. i + 1 = j + 1
      BY <1>5, <2>1, <2>2 DEF IsInjective
    <3>2. QED
      BY <1>2, <1>3, <3>1
  <2>3. QED
    BY <2>1, <2>2 DEF IsInjective
<1>7. TypeOK'
  BY <1>2, <1>3, <1>4, <1>6 DEF Talks, TypeOK, HandlerType
<1>8. Sized' /\ Queued'
  BY <1>3, <1>4, <1>5 DEF Talks, Sized, Queued
<1>9. QED
  BY <1>3, <1>7, <1>8, QuietLemma

LEMMA EndsTalks ==
  ASSUME Talks, NEW s \in Session, HandlerEnds(s)
  PROVE  Talks'
<1>1. handler \in [Session -> HandlerType] /\ handler[s] \in HandlerType
  BY FieldsLemma DEF Talks
<1>2. /\ handler' \in [Session -> HandlerType] /\ handler'[s].doing = None
      /\ \A t \in Session \ {s} : handler'[t] = handler[t]
  <2>1. handler' = [handler EXCEPT ![s] =
          [handler[s] EXCEPT !.alive = FALSE, !.doing = None, !.got = <<>>, !.rest = <<>>]]
    BY DEF HandlerEnds
  <2>2. LET h == [handler[s] EXCEPT !.alive = FALSE, !.doing = None, !.got = <<>>,
                                    !.rest = <<>>] IN
          h \in HandlerType /\ h.doing = None
    <3>1. <<>> \in Seq(Byte) /\ FALSE \in BOOLEAN
      OBVIOUS
    <3>2. QED
      BY <1>1, <3>1 DEF HandlerType
  <2>3. QED
    BY <1>1, <2>1, <2>2
<1>3. UNCHANGED <<ctl, file, parked, stored, cur, op, ops, done, early>>
  BY DEF HandlerEnds, hub
<1>4. TypeOK' /\ Queued'
  BY <1>2, <1>3 DEF Talks, TypeOK, HandlerType, Queued
<1>5. Sized'
  BY <1>2, <1>3 DEF Talks, Sized
<1>6. QED
  BY <1>3, <1>4, <1>5, QuietLemma

(* The bytes may go to the file channel of any session.                    *)
LEMMA SendByteTalks ==
  ASSUME Talks, NEW s \in Session, SendByte(s)
  PROVE  Talks'
<1>1. PICK c \in Session : c = handler[s].claimed
  BY FieldsLemma DEF Talks, SendByte
<1>2. /\ file \in [Session -> FileType] /\ file[c] \in FileType
      /\ handler \in [Session -> HandlerType] /\ handler[s] \in HandlerType
      /\ file[c].up \in Seq(Byte) /\ file[c].down \in Seq(Byte)
      /\ handler[s].rest \in Seq(Byte) /\ handler[s].doing \in Request \cup {None}
      /\ handler[s].alive \in BOOLEAN /\ handler[s].got \in Seq(Byte)
  BY FieldsLemma DEF Talks
<1>3. /\ handler[s].doing # None /\ handler[s].doing.what # "write"
      /\ UNCHANGED <<ctl, parked, stored, cur, op, ops, done, early>>
  BY DEF SendByte, hub
<1>4. /\ file' \in [Session -> FileType]
      /\ \A t \in Session : file'[t].arrived = file[t].arrived
  <2>1. CASE file' = file
    BY <1>2, <2>1
  <2>2. CASE handler[s].rest # <<>>
             /\ file' = [file EXCEPT ![c].down = Append(@, Head(handler[s].rest))]
    <3>1. PICK d \in Seq(Byte) : d = Append(file[c].down, Head(handler[s].rest))
      <4>1. Head(handler[s].rest) \in Byte
        BY <1>2, <2>2, HeadLemma
      <4>2. QED
        BY <1>2, <4>1, AppendProperties
    <3>2. file' = [file EXCEPT ![c] = [file[c] EXCEPT !.down = d]]
      BY <2>2, <3>1
    <3>3. file' = [file EXCEPT ![c] = [file[c] EXCEPT !.up = file[c].up, !.down = d]]
      BY <3>2, SameLemma DEF Talks
    <3>4. /\ file' \in [Session -> FileType] /\ file'[c].arrived = file[c].arrived
          /\ \A t \in Session \ {c} : file'[t] = file[t]
      BY <1>2, <3>3, FileLemma DEF Talks
    <3>5. QED
      BY <3>4
  <2>3. QED
    BY <1>1, <2>1, <2>2 DEF SendByte
<1>5. /\ handler' \in [Session -> HandlerType]
      /\ handler'[s].doing \in {handler[s].doing, None}
      /\ \A t \in Session \ {s} : handler'[t] = handler[t]
  <2>1. PICK m \in {handler[s].doing, None}, r \in Seq(Byte) :
          handler' = [handler EXCEPT ![s] = [handler[s] EXCEPT !.doing = m, !.rest = r]]
    <3>1. CASE handler' = [handler EXCEPT ![s].doing = None, ![s].rest = <<>>]
      <4>1. <<>> \in Seq(Byte)
        OBVIOUS
      <4>2. handler' = [handler EXCEPT ![s] = [handler[s] EXCEPT !.doing = None, !.rest = <<>>]]
        BY <3>1
      <4>3. QED
        BY <4>1, <4>2
    <3>2. CASE ~(Len(handler[s].rest) <= 1)
               /\ handler' = [handler EXCEPT ![s].rest = Tail(handler[s].rest)]
      <4>1. handler[s].rest # <<>>
        BY <3>2
      <4>2. PICK r \in Seq(Byte) : r = Tail(handler[s].rest)
        BY <1>2, <4>1, HeadLemma
      <4>3. handler' = [handler EXCEPT ![s] = [handler[s] EXCEPT !.rest = r]]
        BY <3>2, <4>2
      <4>4. [handler[s] EXCEPT !.rest = r]
              = [handler[s] EXCEPT !.doing = handler[s].doing, !.rest = r]
        BY <1>2 DEF HandlerType
      <4>5. QED
        BY <4>2, <4>3, <4>4
    <3>3. QED
      BY <3>1, <3>2 DEF SendByte
  <2>2. LET h == [handler[s] EXCEPT !.doing = m, !.rest = r] IN
          h \in HandlerType /\ h.doing = m
    BY <1>2, <2>1 DEF HandlerType
  <2>3. QED
    BY <1>2, <2>1, <2>2
<1>6. TypeOK' /\ Queued'
  <2>1. TypeOK'
    BY <1>3, <1>4, <1>5 DEF Talks, TypeOK, FileType, HandlerType
  <2>2. \A i \in 1 .. Len(parked) : parked[i] \in Session
    BY DEF Talks, TypeOK
  <2>3. QED
    BY <1>3, <1>4, <2>1, <2>2 DEF Talks, Queued
<1>7. Sized'
  BY <1>3, <1>5 DEF Talks, Sized
<1>8. QED
  BY <1>3, <1>6, <1>7, QuietLemma

LEMMA ReceiveByteTalks ==
  ASSUME Talks, NEW s \in Session, ReceiveByte(s)
  PROVE  Talks'
<1>1. PICK c \in Session : c = handler[s].claimed
  BY FieldsLemma DEF Talks, ReceiveByte
<1>2. /\ file \in [Session -> FileType] /\ file[c] \in FileType
      /\ handler \in [Session -> HandlerType] /\ handler[s] \in HandlerType
      /\ file[c].up \in Seq(Byte) /\ file[c].down \in Seq(Byte)
      /\ handler[s].rest \in Seq(Byte) /\ handler[s].doing \in Request \cup {None}
      /\ handler[s].alive \in BOOLEAN /\ handler[s].got \in Seq(Byte)
  BY FieldsLemma DEF Talks
<1>3. /\ handler[s].doing # None /\ handler[s].doing.what = "write" /\ file[c].up # <<>>
      /\ UNCHANGED <<ctl, parked, cur, op, ops, done, early>>
  BY <1>1 DEF ReceiveByte, hub
<1>4. PICK got : got = Append(handler[s].got, Head(file[c].up))
  OBVIOUS
<1>5. /\ got \in Seq(Byte) /\ Len(got) \in 1 .. 2 /\ Tail(file[c].up) \in Seq(Byte)
  <2>1. Head(file[c].up) \in Byte /\ Tail(file[c].up) \in Seq(Byte)
    BY <1>2, <1>3, HeadLemma
  <2>2. got \in Seq(Byte) /\ Len(got) = Len(handler[s].got) + 1
    BY <1>2, <1>4, <2>1, AppendProperties
  <2>3. Len(handler[s].got) \in Nat /\ Len(handler[s].got) < 2
    BY <1>2, <1>3 DEF Talks, Sized
  <2>4. QED
    BY <2>1, <2>2, <2>3
<1>6. /\ file' \in [Session -> FileType]
      /\ \A t \in Session : file'[t].arrived = file[t].arrived
  <2>1. PICK u \in Seq(Byte) : u = Tail(file[c].up)
    BY <1>5
  <2>2. file' = [file EXCEPT ![c] = [file[c] EXCEPT !.up = u]]
    BY <1>1, <2>1 DEF ReceiveByte
  <2>3. file' = [file EXCEPT ![c] = [file[c] EXCEPT !.up = u, !.down = file[c].down]]
    BY <2>2, SameLemma DEF Talks
  <2>4. /\ file' \in [Session -> FileType] /\ file'[c].arrived = file[c].arrived
        /\ \A t \in Session \ {c} : file'[t] = file[t]
    BY <1>2, <2>3, FileLemma DEF Talks
  <2>5. QED
    BY <2>4
<1>7. /\ handler' \in [Session -> HandlerType]
      /\ handler'[s].doing = IF Len(got) = 2 THEN None ELSE handler[s].doing
      /\ handler'[s].got = IF Len(got) = 2 THEN <<>> ELSE got
      /\ \A t \in Session \ {s} : handler'[t] = handler[t]
  <2>1. PICK m \in Request \cup {None}, g \in Seq(Byte) :
          /\ m = IF Len(got) = 2 THEN None ELSE handler[s].doing
          /\ g = IF Len(got) = 2 THEN <<>> ELSE got
    <3>1. <<>> \in Seq(Byte)
      OBVIOUS
    <3>2. QED
      BY <1>2, <1>5, <3>1
  <2>2. handler' = [handler EXCEPT ![s] = [handler[s] EXCEPT !.got = g, !.doing = m]]
    BY <1>1, <1>4, <2>1 DEF ReceiveByte
  <2>3. LET h == [handler[s] EXCEPT !.got = g, !.doing = m] IN
          h \in HandlerType /\ h.doing = m /\ h.got = g
    BY <1>2, <2>1 DEF HandlerType
  <2>4. QED
    BY <1>2, <2>1, <2>2, <2>3
<1>8. /\ stored' \in [Photo -> Seq(Byte)]
      /\ \A x \in Photo : Len(stored'[x]) \in {0, 2}
  <2>1. stored \in [Photo -> Seq(Byte)] /\ \A x \in Photo : Len(stored[x]) \in {0, 2}
    BY DEF Talks, TypeOK, Sized
  <2>2. CASE Len(got) = 2
    <3>1. PICK y : y = handler[s].doing.x
      OBVIOUS
    <3>2. stored' = [stored EXCEPT ![y] = got]
      BY <1>1, <1>4, <2>2, <3>1 DEF ReceiveByte
    <3>3. y \in Photo
      BY <1>3, <3>1 DEF Talks, Sized
    <3>4. QED
      BY <1>5, <2>1, <2>2, <3>2, <3>3
  <2>3. CASE Len(got) # 2
    <3>1. stored' = stored
      BY <1>1, <1>4, <2>3 DEF ReceiveByte
    <3>2. QED
      BY <2>1, <3>1
  <2>4. QED
    BY <2>2, <2>3
<1>9. TypeOK' /\ Queued'
  <2>1. TypeOK'
    BY <1>3, <1>6, <1>7, <1>8 DEF Talks, TypeOK, FileType, HandlerType
  <2>2. \A i \in 1 .. Len(parked) : parked[i] \in Session
    BY DEF Talks, TypeOK
  <2>3. QED
    BY <1>3, <1>6, <2>1, <2>2 DEF Talks, Queued
<1>10. Sized'
  <2>1. ASSUME NEW t \in Session, handler'[t].doing # None, handler'[t].doing.what = "write"
        PROVE  handler'[t].doing.x \in Photo /\ Len(handler'[t].got) < 2
    <3>1. CASE t = s
      <4>1. Len(got) # 2 /\ handler'[s].doing = handler[s].doing /\ handler'[s].got = got
        BY <1>7, <2>1, <3>1
      <4>2. Len(got) < 2
        <5>1. \A n \in 1 .. 2 : n # 2 => n < 2
          OBVIOUS
        <5>2. QED
          BY <1>5, <4>1, <5>1
      <4>3. QED
        BY <1>3, <3>1, <4>1, <4>2 DEF Talks, Sized
    <3>2. CASE t # s
      BY <1>7, <2>1, <3>2 DEF Talks, Sized
    <3>3. QED
      BY <3>1, <3>2
  <2>2. QED
    BY <1>8, <2>1 DEF Sized
<1>11. QED
  BY <1>3, <1>9, <1>10, QuietLemma

(* The hub takes a byte.                                                   *)
LEMMA ReceiveTalks ==
  ASSUME Talks, Receive
  PROVE  Talks'
<1>1. /\ Usable /\ op # None /\ op.pc = "bytes" /\ op.left > 0 /\ file[cur].down # <<>>
      /\ UNCHANGED <<ctl, handler, parked, stored, cur, ops, done, early>>
  BY DEF Receive, Doing
<1>2. PICK s \in Session : s = cur
  BY <1>1, HereLemma
<1>3. /\ file \in [Session -> FileType] /\ file[s] \in FileType
      /\ file[s].up \in Seq(Byte) /\ file[s].down \in Seq(Byte)
      /\ Head(file[s].down) \in Byte /\ Tail(file[s].down) \in Seq(Byte)
  BY <1>1, <1>2, FieldsLemma, HeadLemma DEF Talks
<1>4. op \in Op /\ op.left \in 0 .. 2 /\ op.got \in Seq(Byte)
  BY <1>1 DEF Talks, TypeOK, Op
<1>5. PICK g \in Seq(Byte), l \in 0 .. 2 :
        g = Append(op.got, Head(file[s].down)) /\ l = op.left - 1
  <2>1. op.left - 1 \in 0 .. 2
    BY <1>1, <1>4
  <2>2. QED
    BY <1>3, <1>4, <2>1, AppendProperties
<1>6. /\ op' \in Op /\ op'.pc = "bytes" /\ op'.what = op.what /\ op'.x = op.x /\ op' # None
  <2>1. op' = [op EXCEPT !.got = g, !.left = l]
    BY <1>2, <1>5 DEF Receive
  <2>2. op' \in Op /\ op'.pc = "bytes" /\ op'.what = op.what /\ op'.x = op.x
    BY <1>1, <1>4, <2>1 DEF Op
  <2>3. QED
    BY <2>2, NoneAssumption
<1>7. /\ file' \in [Session -> FileType]
      /\ \A t \in Session : file'[t].arrived = file[t].arrived
  <2>1. PICK d \in Seq(Byte) : d = Tail(file[s].down)
    BY <1>3
  <2>2. file' = [file EXCEPT ![s] = [file[s] EXCEPT !.down = d]]
    BY <1>2, <2>1 DEF Receive
  <2>3. file' = [file EXCEPT ![s] = [file[s] EXCEPT !.up = file[s].up, !.down = d]]
    BY <2>2, SameLemma DEF Talks
  <2>4. /\ file' \in [Session -> FileType] /\ file'[s].arrived = file[s].arrived
        /\ \A t \in Session \ {s} : file'[t] = file[t]
    BY <1>3, <2>3, FileLemma DEF Talks
  <2>5. QED
    BY <2>4
<1>8. TypeOK' /\ Sized' /\ Asks' /\ AnswersOwn' /\ Usable'
  <2>1. TypeOK'
    BY <1>1, <1>6, <1>7 DEF Talks, TypeOK, FileType
  <2>2. QED
    BY <1>1, <1>6, <2>1 DEF Talks, Sized, Asks, AnswersOwn, Usable
<1>9. Queued'
  <2>1. \A i \in 1 .. Len(parked) : parked[i] \in Session
    BY DEF Talks, TypeOK
  <2>2. QED
    BY <1>1, <1>7, <2>1 DEF Talks, Queued
<1>10. Talk'
  <2>1. op.what \in {"read", "list"} /\ Up = <<>> /\ Down = <<>>
    BY <1>1 DEF Talks, Talk
  <2>2. Up' = Up /\ Down' = Down
    BY <1>1 DEF Up, Down
  <2>3. QED
    BY <1>6, <2>1, <2>2 DEF Talk
<1>11. QED
  BY <1>8, <1>9, <1>10 DEF Talks

-----------------------------------------------------------------------------
(* The steps of the hub that open and close a session.                     *)

LEMMA ConnectTalks ==
  ASSUME Talks, Connect
  PROVE  Talks'
<1>1. PICK s \in Session : s = cur + 1
  BY ChannelAssumption DEF Talks, TypeOK, Connect, Session
<1>2. /\ UNCHANGED <<file, parked, stored, op, ops>> /\ op = None
      /\ cur' = s /\ early' = FALSE /\ done' = None
      /\ ctl' = [ctl EXCEPT ![s] = [ctl[s] EXCEPT !.open = TRUE]]
      /\ handler' = [handler EXCEPT ![s] = [handler[s] EXCEPT !.alive = TRUE]]
  BY <1>1 DEF Connect, Talks, Asks
<1>3. /\ ctl \in [Session -> CtlType] /\ handler \in [Session -> HandlerType]
      /\ ctl[s] \in CtlType /\ handler[s] \in HandlerType
  BY FieldsLemma DEF Talks
<1>4. /\ ctl' \in [Session -> CtlType]
      /\ \A t \in Session : ctl'[t].up = ctl[t].up /\ ctl'[t].down = ctl[t].down
  <2>1. LET k == [ctl[s] EXCEPT !.open = TRUE] IN
          k \in CtlType /\ k.up = ctl[s].up /\ k.down = ctl[s].down
    BY <1>3 DEF CtlType
  <2>2. QED
    BY <1>2, <1>3, <2>1
<1>5. /\ handler' \in [Session -> HandlerType]
      /\ \A t \in Session : handler'[t].doing = handler[t].doing
                           /\ handler'[t].got = handler[t].got
  <2>1. LET h == [handler[s] EXCEPT !.alive = TRUE] IN
          h \in HandlerType /\ h.doing = handler[s].doing /\ h.got = handler[s].got
    BY <1>3 DEF HandlerType
  <2>2. QED
    BY <1>2, <1>3, <2>1
<1>6. TypeOK'
  <2>1. cur' \in 0 .. Sessions
    BY <1>2, ChannelAssumption DEF Session
  <2>2. early' \in BOOLEAN
    BY <1>2
  <2>3. QED
    BY <1>2, <1>4, <1>5, <2>1, <2>2 DEF Talks, TypeOK, CtlType, HandlerType
<1>7. Sized' /\ Queued' /\ AnswersOwn'
  BY <1>2, <1>5 DEF Talks, Sized, Queued, AnswersOwn
<1>8. Asks' /\ ctl[s].up = <<>> /\ ctl[s].down = <<>>
  <2>1. cur \in Nat /\ \A t \in Session : t >= s => t > cur
    BY <1>1 DEF Talks, TypeOK, Session
  <2>2. s \in Nat
    BY DEF Session
  <2>3. QED
    BY <1>1, <1>2, <1>4, <2>1, <2>2 DEF Talks, Asks, Session
<1>9. Talk'
  BY <1>2, <1>4, <1>8 DEF Talk, LateUp, LateDown, Up, Down
<1>10. QED
  BY <1>6, <1>7, <1>8, <1>9 DEF Talks

LEMMA CloseTalks ==
  ASSUME Talks, GiveUp \/ Lost
  PROVE  Talks'
<1>1. /\ UNCHANGED <<handler, parked, stored, cur, ops, done, early>> /\ op' = None
      /\ Usable /\ Close
  BY DEF GiveUp, Lost
<1>2. PICK s \in Session : s = cur
  BY <1>1, HereLemma
<1>3. /\ ctl \in [Session -> CtlType] /\ ctl[s] \in CtlType
      /\ file \in [Session -> FileType] /\ file[s] \in FileType
  BY FieldsLemma DEF Talks
<1>4. /\ ctl' \in [Session -> CtlType] /\ ctl'[s].open = FALSE
      /\ ctl'[s].up = ctl[s].up
      /\ \A t \in Session \ {s} : ctl'[t] = ctl[t]
  <2>1. ctl' = [ctl EXCEPT ![s] = [ctl[s] EXCEPT !.open = FALSE, !.down = <<>>]]
    BY <1>1, <1>2 DEF Close
  <2>2. LET k == [ctl[s] EXCEPT !.open = FALSE, !.down = <<>>] IN
          k \in CtlType /\ k.open = FALSE /\ k.up = ctl[s].up
    <3>1. <<>> \in Seq(Reply) /\ FALSE \in BOOLEAN
      OBVIOUS
    <3>2. QED
      BY <1>3, <3>1 DEF CtlType
  <2>3. QED
    BY <1>3, <2>1, <2>2
<1>5. /\ file' \in [Session -> FileType]
      /\ \A t \in Session : file'[t].arrived = file[t].arrived
  <2>1. file' = [file EXCEPT ![s] = [file[s] EXCEPT !.open = FALSE, !.down = <<>>]]
    BY <1>1, <1>2 DEF Close
  <2>2. LET f == [file[s] EXCEPT !.open = FALSE, !.down = <<>>] IN
          f \in FileType /\ f.arrived = file[s].arrived
    <3>1. <<>> \in Seq(Byte) /\ FALSE \in BOOLEAN
      OBVIOUS
    <3>2. QED
      BY <1>3, <3>1 DEF FileType
  <2>3. QED
    BY <1>3, <2>1, <2>2
<1>6. TypeOK' /\ Sized' /\ AnswersOwn' /\ ~Usable'
  <2>1. TypeOK'
    BY <1>1, <1>4, <1>5 DEF Talks, TypeOK, CtlType, FileType
  <2>2. QED
    BY <1>1, <1>2, <1>4, <2>1 DEF Talks, Sized, AnswersOwn, Usable
<1>7. Asks'
  <2>1. ~(s > cur)
    BY <1>2 DEF Session
  <2>2. \A t \in Session : t > cur => t # s
    BY <2>1
  <2>3. QED
    BY <1>1, <1>4, <2>2 DEF Talks, Asks
<1>8. Queued'
  <2>1. \A i \in 1 .. Len(parked) : parked[i] \in Session
    BY DEF Talks, TypeOK
  <2>2. QED
    BY <1>1, <1>5, <2>1 DEF Talks, Queued
<1>9. QED
  BY <1>6, <1>7, <1>8 DEF Talks

-----------------------------------------------------------------------------
(* The steps of an operation.                                              *)

(* The operation under way.                                                *)
LEMMA UnderWayLemma ==
  ASSUME Talks, op # None
  PROVE  /\ op \in Op /\ op.what \in Kind /\ op.n \in 1 .. Ops /\ Usable
         /\ op.what = "write" => op.x \in Photo
         /\ \A e \in BOOLEAN : Mine(e) \in Request /\ Mine(e).what = op.what
                               /\ Mine(e).end = e /\ Mine(e).x = op.x /\ Mine(e).n = op.n
         /\ \A pc \in {"begin", "reply", "bytes", "ack"} :
              LET o == [op EXCEPT !.pc = pc] IN
              /\ o \in Op /\ o # None /\ o.pc = pc /\ o.what = op.what
              /\ o.x = op.x /\ o.n = op.n
<1>1. op \in Op
  BY DEF Talks, TypeOK
<1>2. op.what \in Kind /\ op.x \in Name /\ op.n \in 1 .. Ops
  BY <1>1 DEF Op
<1>3. \A e \in BOOLEAN : Mine(e) \in Request /\ Mine(e).what = op.what
                         /\ Mine(e).end = e /\ Mine(e).x = op.x /\ Mine(e).n = op.n
  BY <1>2 DEF Mine, Request
<1>4. ASSUME NEW pc \in {"begin", "reply", "bytes", "ack"}
      PROVE  LET o == [op EXCEPT !.pc = pc] IN
             /\ o \in Op /\ o # None /\ o.pc = pc /\ o.what = op.what
             /\ o.x = op.x /\ o.n = op.n
  <2>1. LET o == [op EXCEPT !.pc = pc] IN
        /\ o \in Op /\ o.pc = pc /\ o.what = op.what /\ o.x = op.x /\ o.n = op.n
    BY <1>1 DEF Op
  <2>2. QED
    BY <2>1, NoneAssumption
<1>5. QED
  BY <1>1, <1>2, <1>3, <1>4 DEF Talks, Asks

LEMMA BeginTalks ==
  ASSUME Talks, NEW what \in Kind, NEW x \in Name, Begin(what, x), what = "write" => x \in Photo
  PROVE  Talks'
<1>1. /\ UNCHANGED <<ctl, handler, parked, stored, cur>> /\ ops < Ops /\ Usable
      /\ op = None /\ op' = Fresh(what, x) /\ ops' = ops + 1 /\ done' = None
      /\ early' \in BOOLEAN
  BY DEF Begin, Opening
<1>2. PICK s \in Session : s = cur
  BY <1>1, HereLemma
<1>3. /\ file' \in [Session -> FileType]
      /\ \A t \in Session : file'[t].arrived = file[t].arrived
  <2>1. PICK o \in BOOLEAN, p \in BOOLEAN, d \in Seq(Byte) :
          file' = [file EXCEPT ![s] = [file[s] EXCEPT !.open = o, !.opened = p, !.down = d]]
    <3>a. PICK arrived \in 0 .. Len(file[s].down) :
            file' = [file EXCEPT ![s].open = @ \/ what # "show",
                                ![s].opened = @ \/ what # "show",
                                ![s].down = IF what = "read"
                                            THEN SubSeq(@, arrived + 1, Len(@)) ELSE @]
      BY <1>2 DEF Begin
    <3>b. file[s].down \in Seq(Byte)
      BY FieldsLemma DEF Talks
    <3> DEFINE o == file[s].open \/ what # "show"
               p == file[s].opened \/ what # "show"
               rem == SubSeq(file[s].down, arrived + 1, Len(file[s].down))
               d == IF what = "read" THEN rem ELSE file[s].down
    <3>c. rem \in Seq(Byte)
      BY <3>b, RemainderLemma
    <3> HIDE DEF rem
    <3>1. o \in BOOLEAN /\ p \in BOOLEAN /\ d \in Seq(Byte)
      BY <3>b, <3>c
    <3>2. file' = [file EXCEPT ![s] = [file[s] EXCEPT !.open = o, !.opened = p, !.down = d]]
      BY <3>a DEF rem
    <3> HIDE DEF o, p, d
    <3>3. QED
      BY <3>1, <3>2
  <2>2. file \in [Session -> FileType] /\ file[s] \in FileType
    BY FieldsLemma DEF Talks
  <2>3. LET f == [file[s] EXCEPT !.open = o, !.opened = p, !.down = d] IN
          f \in FileType /\ f.arrived = file[s].arrived
    BY <2>1, <2>2 DEF FileType
  <2>4. QED
    BY <2>1, <2>2, <2>3
<1>4. /\ op'.what = what /\ op'.x = x /\ op'.pc = "begin" /\ op' \in Op /\ op' # None
      /\ ops' \in 0 .. Ops
  <2>1. ops \in Nat /\ ops + 1 \in 1 .. Ops /\ 0 \in 0 .. Ops
    BY <1>1, ChannelAssumption DEF Talks, TypeOK
  <2>2. op' \in Op
    BY <1>1, <2>1 DEF Fresh, Op
  <2>3. QED
    BY <1>1, <2>1, <2>2, NoneAssumption DEF Fresh
<1>5. TypeOK'
  <2>1. early' \in BOOLEAN
    BY <1>1
  <2>2. ctl' \in [Session -> CtlType] /\ handler' \in [Session -> HandlerType]
    BY <1>1, FieldsLemma DEF Talks
  <2>3. /\ parked' \in Seq(Session) /\ IsInjective(parked')
        /\ stored' \in [Photo -> Seq(Byte)] /\ cur' \in 0 .. Sessions
    BY <1>1 DEF Talks, TypeOK
  <2>4. QED
    BY <1>1, <1>3, <1>4, <2>1, <2>2, <2>3 DEF TypeOK, CtlType, FileType, HandlerType
<1>6. Sized' /\ Asks' /\ AnswersOwn'
  BY <1>1, <1>4 DEF Talks, Sized, Asks, AnswersOwn, Usable
<1>7. Queued'
  <2>1. \A i \in 1 .. Len(parked) : parked[i] \in Session
    BY DEF Talks, TypeOK
  <2>2. QED
    BY <1>1, <1>3, <2>1 DEF Talks, Queued
<1>8. Talk'
  <2>1. LateUp /\ LateDown
    BY <1>1 DEF Talks, Talk
  <2>2. Up' = Up /\ Down' = Down
    BY <1>1 DEF Up, Down
  <2>3. LateUp' /\ LateDown'
    BY <2>1, <2>2 DEF LateUp, LateDown, LateEnd, LateOk
  <2>4. QED
    BY <1>4, <2>3 DEF Talk
<1>9. QED
  BY <1>5, <1>6, <1>7, <1>8 DEF Talks

(* A request more, at the end of the queue.                                *)
LEMMA AddLemma ==
  ASSUME NEW S, NEW q \in Seq(S), NEW m \in S, NEW r, r = Append(q, m)
  PROVE  /\ r \in Seq(S) /\ r # <<>> /\ Len(q) \in Nat /\ Len(r) = Len(q) + 1
         /\ Len(r) - 1 = Len(q)
         /\ \A i \in 1 .. Len(q) : r[i] = q[i]
         /\ r[Len(r)] = m
         /\ \A i \in 1 .. Len(r) : i \in 1 .. Len(q) \/ i = Len(r)
<1>1. /\ r \in Seq(S) /\ Len(r) = Len(q) + 1 /\ Len(q) \in Nat
      /\ \A i \in 1 .. Len(q) : r[i] = q[i]
      /\ r[Len(q) + 1] = m
  BY AppendProperties
<1>2. r # <<>>
  <2>1. Len(r) # 0
    BY <1>1
  <2>2. QED
    BY <2>1
<1>3. QED
  BY <1>1, <1>2

LEMMA SendTalks ==
  ASSUME Talks, Send
  PROVE  Talks'
<1>1. /\ Usable /\ op # None /\ op.pc = "begin"
      /\ UNCHANGED <<file, handler, parked, stored, cur, ops, done, early>>
      /\ op' = [op EXCEPT !.pc = "reply"]
  BY DEF Send, Doing
<1>2. PICK s \in Session : s = cur
  BY <1>1, HereLemma
<1>3. ctl[s].up \in Seq(Request) /\ ctl[s].down \in Seq(Reply) /\ Mine(FALSE) \in Request
  BY <1>1, FieldsLemma, UnderWayLemma DEF Talks
<1>4. PICK m \in Request : m = Mine(FALSE)
  BY <1>3
<1>5. PICK up : up = Append(ctl[s].up, m)
  OBVIOUS
<1>6. /\ up \in Seq(Request) /\ up # <<>> /\ Len(up) - 1 = Len(ctl[s].up)
      /\ \A i \in 1 .. Len(ctl[s].up) : up[i] = ctl[s].up[i]
      /\ up[Len(up)] = m
      /\ \A i \in 1 .. Len(up) : i \in 1 .. Len(ctl[s].up) \/ i = Len(up)
  BY <1>3, <1>5, AddLemma
<1>7. /\ ctl' \in [Session -> CtlType] /\ ctl'[s].open = ctl[s].open
      /\ ctl'[s].up = up /\ ctl'[s].down = ctl[s].down
      /\ \A t \in Session \ {s} : ctl'[t] = ctl[t]
  <2>1. ctl' = [ctl EXCEPT ![s] = [ctl[s] EXCEPT !.up = up]]
    BY <1>2, <1>4, <1>5 DEF Send, Sent, Mine
  <2>2. ctl' = [ctl EXCEPT ![s] = [ctl[s] EXCEPT !.up = up, !.down = ctl[s].down]]
    BY <2>1, SameLemma DEF Talks
  <2>3. QED
    BY <1>3, <1>6, <2>2, CtlLemma DEF Talks
<1>8. /\ op' \in Op /\ op' # None /\ op'.pc = "reply" /\ op'.what = op.what
      /\ op'.x = op.x /\ op'.n = op.n
  BY <1>1, UnderWayLemma
<1>9. TypeOK' /\ Sized' /\ Queued' /\ AnswersOwn' /\ Usable'
  <2>1. TypeOK'
    BY <1>1, <1>7, <1>8 DEF Talks, TypeOK, CtlType
  <2>2. QED
    BY <1>1, <1>2, <1>7, <2>1 DEF Talks, Sized, Queued, AnswersOwn, Usable
<1>10. Asks'
  <2>1. m.what = "write" => m.x \in Photo
    BY <1>1, <1>4, UnderWayLemma
  <2>2. ASSUME NEW i \in 1 .. Len(up), up[i].what = "write"
        PROVE  up[i].x \in Photo
    BY <1>6, <2>1, <2>2 DEF Talks, Asks
  <2>3. ~(s > cur)
    BY <1>2 DEF Session
  <2>4. QED
    BY <1>1, <1>7, <1>8, <1>9, <2>2, <2>3 DEF Talks, Asks
<1>11. Talk'
  <2>1. LateUp /\ LateDown
    BY <1>1 DEF Talks, Talk
  <2>2. Up' = up /\ Down' = Down /\ Up = ctl[s].up /\ Mine(FALSE)' = m
    BY <1>1, <1>2, <1>4, <1>7, <1>8 DEF Up, Down, Mine
  <2>3. \A i \in 1 .. Len(up) - 1 : LateEnd(up[i])
    BY <1>6, <2>1, <2>2 DEF LateUp
  <2>4. TalkRequested'
    BY <1>6, <2>1, <2>2, <2>3 DEF TalkRequested, LateDown, LateOk, LateEnd
  <2>5. QED
    BY <1>8, <2>4 DEF Talk
<1>12. QED
  BY <1>9, <1>10, <1>11 DEF Talks

LEMMA AllReceivedTalks ==
  ASSUME Talks, AllReceived
  PROVE  Talks'
<1>1. /\ Usable /\ op # None /\ op.pc = "bytes"
      /\ UNCHANGED <<file, handler, parked, stored, cur, ops, done, early>>
      /\ op' = [op EXCEPT !.pc = "ack"]
  BY DEF AllReceived, Doing
<1>2. PICK s \in Session : s = cur
  BY <1>1, HereLemma
<1>3. ctl[s].up = <<>> /\ ctl[s].down = <<>> /\ op.what \in {"read", "list"}
  BY <1>1, <1>2 DEF Talks, Talk, Up, Down
<1>4. PICK m \in Request : m = Mine(TRUE)
  BY <1>1, UnderWayLemma
<1>5. PICK up \in Seq(Request) : up = Append(<<>>, m) /\ Len(up) = 1 /\ up[1] = m
  <2>1. <<>> \in Seq(Request) /\ Len(<<>>) = 0
    OBVIOUS
  <2>2. PICK u : u = Append(<<>>, m)
    OBVIOUS
  <2>3. u \in Seq(Request) /\ Len(u) = 1 /\ u[1] = m
    BY <2>1, <2>2, AddLemma
  <2>4. QED
    BY <2>2, <2>3
<1>6. /\ ctl' \in [Session -> CtlType] /\ ctl'[s].open = ctl[s].open
      /\ ctl'[s].up = up /\ ctl'[s].down = <<>>
      /\ \A t \in Session \ {s} : ctl'[t] = ctl[t]
  <2>1. ctl' = [ctl EXCEPT ![s] = [ctl[s] EXCEPT !.up = up]]
    BY <1>2, <1>3, <1>4, <1>5 DEF AllReceived, Sent, Mine
  <2>2. ctl' = [ctl EXCEPT ![s] = [ctl[s] EXCEPT !.up = up, !.down = ctl[s].down]]
    BY <2>1, SameLemma DEF Talks
  <2>3. ctl[s].down \in Seq(Reply)
    BY FieldsLemma DEF Talks
  <2>4. QED
    BY <1>3, <2>2, <2>3, CtlLemma DEF Talks
<1>7. /\ op' \in Op /\ op' # None /\ op'.pc = "ack" /\ op'.what = op.what
      /\ op'.x = op.x /\ op'.n = op.n
  BY <1>1, UnderWayLemma
<1>8. TypeOK' /\ Sized' /\ Queued' /\ AnswersOwn' /\ Usable'
  <2>2. TypeOK'
    BY <1>1, <1>6, <1>7 DEF Talks, TypeOK, CtlType
  <2>3. QED
    BY <1>1, <1>2, <1>6, <2>2 DEF Talks, Sized, Queued, AnswersOwn, Usable
<1>9. Asks'
  <2>1. \A i \in 1 .. Len(up) : up[i].what = op.what
    <3>1. m.what = op.what
      BY <1>1, <1>4, UnderWayLemma
    <3>2. \A i \in 1 .. 1 : i = 1
      OBVIOUS
    <3>3. QED
      BY <1>5, <3>1, <3>2
  <2>2. ~(s > cur)
    BY <1>2 DEF Session
  <2>3. QED
    BY <1>1, <1>3, <1>6, <1>7, <1>8, <2>1, <2>2 DEF Talks, Asks
<1>10. Talk'
  <2>1. Up' = up /\ Down' = <<>> /\ Mine(TRUE)' = m
    BY <1>1, <1>2, <1>4, <1>6, <1>7 DEF Up, Down, Mine
  <2>2. TalkClosing'
    BY <1>3, <1>5, <1>7, <2>1 DEF TalkClosing
  <2>3. QED
    BY <1>7, <2>2 DEF Talk
<1>11. QED
  BY <1>8, <1>9, <1>10 DEF Talks

(* What was not waited for is late: it stands in a queue by itself.        *)
LEMMA UnconfirmedTalks ==
  ASSUME Talks, Unconfirmed
  PROVE  Talks'
<1>1. /\ Usable /\ op # None /\ op.pc = "ack" /\ op.what \in {"read", "list"}
      /\ UNCHANGED <<ctl, file, handler, parked, stored, cur, ops, early>>
      /\ done' = op /\ op' = None
  BY DEF Unconfirmed, Doing
<1>2. TypeOK' /\ Sized' /\ Asks' /\ Queued' /\ AnswersOwn' /\ Usable'
  <2>1. op \in Op
    BY <1>1, UnderWayLemma
  <2>2. TypeOK'
    BY <1>1, <2>1 DEF Talks, TypeOK
  <2>3. QED
    BY <1>1, <2>2 DEF Talks, Sized, Asks, Queued, AnswersOwn, Usable
<1>3. TalkClosing
  BY <1>1 DEF Talks, Talk
<1>4. LateUp /\ LateDown
  <2> \A i \in 1 .. 1 : i = 1
    OBVIOUS
  <2> \A i \in 1 .. 0 : FALSE
    OBVIOUS
  <2> Len(<<>>) = 0
    OBVIOUS
  <2>1. CASE Len(Up) = 1 /\ Up[1] = Mine(TRUE) /\ Down = <<>>
    <3>1. LateEnd(Up[1])
      BY <1>1, <2>1, UnderWayLemma DEF LateEnd
    <3>2. QED
      BY <2>1, <3>1 DEF LateUp, LateDown
  <2>2. CASE /\ Up = <<>> /\ Len(Down) = 1
             /\ Down[1].what = op.what /\ Down[1].act = "ok"
    <3>1. LateOk(Down[1])
      BY <1>1, <2>2 DEF LateOk
    <3>2. QED
      BY <2>2, <3>1 DEF LateUp, LateDown
  <2>3. QED
    BY <1>3, <2>1, <2>2 DEF TalkClosing
<1>5. Talk'
  <2>1. Up' = Up /\ Down' = Down
    BY <1>1 DEF Up, Down
  <2>2. LateUp' /\ LateDown'
    BY <1>4, <2>1 DEF LateUp, LateDown, LateEnd, LateOk
  <2>3. QED
    BY <1>1, <2>2 DEF Talk
<1>6. QED
  BY <1>2, <1>5 DEF Talks

(* What a reply that is taken can be.  What is passed over is late; what   *)
(* is waited for is the last, and the operation's own.                     *)
LEMMA HeardLemma ==
  ASSUME Talks, op # None, op.pc \in {"reply", "ack"}, Down # <<>>,
         NEW m, m = Head(Down), NEW rest, rest = Tail(Down)
  PROVE  /\ ~Wanted(m) => /\ op.pc = "reply"
                          /\ \/ TalkRequested /\ \A i \in 1 .. Len(rest) : LateOk(rest[i])
                             \/ /\ Up = <<>> /\ rest # <<>>
                                /\ \A i \in 1 .. Len(rest) - 1 : LateOk(rest[i])
                                /\ rest[Len(rest)].what = op.what /\ rest[Len(rest)].n = op.n
                                /\ rest[Len(rest)].act = IF op.what = "show" THEN "ok"
                                                         ELSE "started"
         /\ Wanted(m) => /\ Up = <<>> /\ rest = <<>> /\ m.n = op.n
                         /\ m.act = IF op.pc = "ack" \/ op.what = "show"
                                    THEN "ok" ELSE "started"
<1>1. Usable /\ Down \in Seq(Reply)
  BY HereLemma, UnderWayLemma
<1>2. /\ Len(Down) \in Nat /\ Len(Down) > 0 /\ m = Down[1]
      /\ rest \in Seq(Reply) /\ Len(rest) = Len(Down) - 1
      /\ \A i \in 1 .. Len(Down) - 1 : rest[i] = Down[i + 1]
      /\ Len(Down) = 1 => rest = <<>>
  BY <1>1, HeadLemma
<1>3. CASE op.pc = "ack"
  <2>1. TalkClosing
    BY <1>1, <1>3 DEF Talks, Talk
  <2>2. Up = <<>> /\ Len(Down) = 1 /\ m.what = op.what /\ m.n = op.n /\ m.act = "ok"
    BY <1>2, <2>1 DEF TalkClosing
  <2>3. QED
    BY <1>2, <1>3, <2>2 DEF Wanted
<1>4. CASE op.pc = "reply" /\ TalkRequested
  <2>1. \A i \in 1 .. Len(Down) : LateOk(Down[i])
    BY <1>4 DEF TalkRequested, LateDown
  <2>2. LateOk(m)
    BY <1>2, <2>1
  <2>3. ~Wanted(m)
    BY <1>4, <2>2 DEF LateOk, Wanted
  <2>4. \A i \in 1 .. Len(rest) : LateOk(rest[i])
    BY <1>2, <2>1
  <2>5. QED
    BY <1>4, <2>3, <2>4
<1>5. CASE op.pc = "reply" /\ TalkAnswered
  <2>1. /\ Up = <<>> /\ \A i \in 1 .. Len(Down) - 1 : LateOk(Down[i])
        /\ Down[Len(Down)].what = op.what /\ Down[Len(Down)].n = op.n
        /\ Down[Len(Down)].act = IF op.what = "show" THEN "ok" ELSE "started"
    BY <1>5 DEF TalkAnswered
  <2>2. CASE Len(Down) = 1
    <3>1. m.what = op.what /\ m.n = op.n
          /\ m.act = IF op.what = "show" THEN "ok" ELSE "started"
      BY <1>2, <2>1, <2>2
    <3>2. QED
      BY <1>2, <1>5, <2>1, <2>2, <3>1 DEF Wanted
  <2>3. CASE Len(Down) # 1
    <3>1. LateOk(m)
      BY <1>2, <2>1, <2>3
    <3>2. ~Wanted(m)
      BY <1>5, <3>1 DEF LateOk, Wanted
    <3>3. /\ rest # <<>> /\ rest[Len(rest)] = Down[Len(Down)]
          /\ \A i \in 1 .. Len(rest) - 1 : LateOk(rest[i])
      <4>1. Len(rest) > 0 /\ Len(rest) \in 1 .. Len(Down) - 1 /\ Len(rest) + 1 = Len(Down)
        BY <1>2, <2>3
      <4>2. rest # <<>>
        <5>1. Len(rest) # 0
          BY <4>1
        <5>2. QED
          BY <5>1
      <4>3. \A i \in 1 .. Len(rest) - 1 : LateOk(rest[i])
        BY <1>2, <2>1
      <4>4. QED
        BY <1>2, <4>1, <4>2, <4>3
    <3>4. QED
      BY <1>5, <2>1, <3>2, <3>3
  <2>4. QED
    BY <2>2, <2>3
<1>6. QED
  BY <1>1, <1>3, <1>4, <1>5 DEF Talks, Talk

LEMMA TakeTalks ==
  ASSUME Talks, Take
  PROVE  Talks'
<1>1. PICK s \in Session : s = cur /\ Usable
  BY HereLemma DEF Take, Doing
<1>2. /\ op # None /\ op.pc \in {"reply", "ack"} /\ Down # <<>> /\ Down = ctl[s].down
      /\ Up = ctl[s].up /\ Up \in Seq(Request) /\ Down \in Seq(Reply)
  BY <1>1, HereLemma DEF Take, Doing, Up, Down
<1>3. PICK m, rest : m = Head(Down) /\ rest = Tail(Down)
  OBVIOUS
<1>4. /\ m \in Reply /\ rest \in Seq(Reply) /\ m.size \in 0 .. 2 /\ m.n \in 0 .. Ops
  <2>1. m \in Reply /\ rest \in Seq(Reply)
    BY <1>2, <1>3, HeadLemma
  <2>2. QED
    BY <2>1, ChannelAssumption DEF Reply
<1>5. /\ ~Wanted(m) => /\ op.pc = "reply"
                       /\ \/ TalkRequested /\ \A i \in 1 .. Len(rest) : LateOk(rest[i])
                          \/ /\ Up = <<>> /\ rest # <<>>
                             /\ \A i \in 1 .. Len(rest) - 1 : LateOk(rest[i])
                             /\ rest[Len(rest)].what = op.what /\ rest[Len(rest)].n = op.n
                             /\ rest[Len(rest)].act = IF op.what = "show" THEN "ok"
                                                      ELSE "started"
      /\ Wanted(m) => /\ Up = <<>> /\ rest = <<>> /\ m.n = op.n
                      /\ m.act = IF op.pc = "ack" \/ op.what = "show"
                                 THEN "ok" ELSE "started"
  BY <1>2, <1>3, HeardLemma
<1> DEFINE upload == Wanted(m) /\ op.what = "write" /\ op.pc = "reply"
           last == Wanted(m) /\ m.act = "ok"
<1>6. /\ op \in Op /\ op.what \in Kind /\ op.n \in 1 .. Ops
      /\ op.what = "write" => op.x \in Photo
      /\ Mine(TRUE) \in Request /\ Mine(TRUE).what = op.what /\ Mine(TRUE).end = TRUE
      /\ Mine(TRUE).x = op.x /\ Mine(TRUE).n = op.n
  BY <1>2, UnderWayLemma
<1>7. PICK a \in Request : a = Mine(TRUE)
  BY <1>6
<1>8. PICK up \in Seq(Request) :
        /\ ctl' = [ctl EXCEPT ![s] = [ctl[s] EXCEPT !.up = up, !.down = rest]]
        /\ IF upload THEN up = Append(Up, a) ELSE up = Up
  <2> DEFINE u == IF upload THEN Append(Up, a) ELSE Up
  <2>1. u \in Seq(Request)
    BY <1>2, AppendProperties
  <2>2. ctl' = [ctl EXCEPT ![cur].down = Tail(@), ![cur].up = IF upload THEN Sent(TRUE) ELSE @]
    BY <1>1, <1>2, <1>3 DEF Take
  <2>3. ctl' = [ctl EXCEPT ![s] = [ctl[s] EXCEPT !.up = u, !.down = rest]]
    BY <1>1, <1>2, <1>3, <1>7, <2>2 DEF Sent, Mine
  <2> HIDE DEF upload
  <2>4. QED
    BY <2>1, <2>3
<1>9. /\ IF upload THEN file' = [file EXCEPT ![s].up = @ \o Whole(op.x)] ELSE file' = file
      /\ done' = IF last THEN [op EXCEPT !.by = m.n] ELSE done
      /\ op' = IF last THEN None
               ELSE IF upload THEN [op EXCEPT !.pc = "ack"]
               ELSE IF Wanted(m) THEN [op EXCEPT !.pc = "bytes", !.left = m.size]
               ELSE op
      /\ UNCHANGED <<handler, parked, stored, cur, ops, early>>
  BY <1>1, <1>2, <1>3 DEF Take, SendBytes
<1>10. /\ ctl' \in [Session -> CtlType]
       /\ ctl'[s].open = ctl[s].open /\ ctl'[s].up = up /\ ctl'[s].down = rest
       /\ \A t \in Session \ {s} : ctl'[t] = ctl[t]
  <2> HIDE DEF upload
  <2>1. QED
    BY <1>4, <1>8, CtlLemma DEF Talks
<1>11. /\ file' \in [Session -> FileType]
       /\ \A t \in Session : file'[t].arrived = file[t].arrived
  <2>1. file \in [Session -> FileType] /\ file[s] \in FileType /\ file[s].up \in Seq(Byte)
        /\ file[s].down \in Seq(Byte)
    BY FieldsLemma DEF Talks
  <2>2. CASE upload
    <3>1. PICK w \in Seq(Byte) : w = file[s].up \o Whole(op.x)
      <4>1. Whole(op.x) \in Seq(Byte)
        BY <1>6, <2>2, WholeLemma DEF Name
      <4>2. QED
        BY <2>1, <4>1, ConcatProperties
    <3>2. file' = [file EXCEPT ![s] = [file[s] EXCEPT !.up = w]]
      BY <1>9, <2>2, <3>1
    <3>3. file' = [file EXCEPT ![s] = [file[s] EXCEPT !.up = w, !.down = file[s].down]]
      BY <3>2, SameLemma DEF Talks
    <3>4. /\ file' \in [Session -> FileType] /\ file'[s].arrived = file[s].arrived
          /\ \A t \in Session \ {s} : file'[t] = file[t]
      BY <2>1, <3>3, FileLemma DEF Talks
    <3>5. QED
      BY <3>4
  <2>3. QED
    BY <1>9, <2>1, <2>2
<1>12. /\ op' \in Op \cup {None} /\ done' \in Op \cup {None}
       /\ op' # None => /\ op'.what = op.what /\ op'.x = op.x /\ op'.n = op.n
                        /\ op'.pc = IF upload THEN "ack" ELSE IF Wanted(m) THEN "bytes"
                                    ELSE op.pc
       /\ op' = None <=> last
  <2>1. LET d == [op EXCEPT !.by = m.n] IN d \in Op
    BY <1>4, <1>6 DEF Op
  <2>2. LET o == [op EXCEPT !.pc = "ack"] IN
        /\ o \in Op /\ o.pc = "ack" /\ o.what = op.what /\ o.x = op.x /\ o.n = op.n
    BY <1>2, UnderWayLemma
  <2>3. LET o == [op EXCEPT !.pc = "bytes", !.left = m.size] IN
        /\ o \in Op /\ o.pc = "bytes" /\ o.what = op.what /\ o.x = op.x /\ o.n = op.n
    BY <1>4, <1>6 DEF Op
  <2>4. done \in Op \cup {None} /\ None \notin Op
    BY NoneAssumption DEF Talks, TypeOK
  <2>5. CASE last
    BY <1>9, <2>1, <2>4, <2>5
  <2>6. CASE ~last /\ upload
    BY <1>9, <2>2, <2>4, <2>6
  <2>7. CASE ~last /\ ~upload /\ Wanted(m)
    BY <1>9, <2>3, <2>4, <2>7
  <2>8. CASE ~last /\ ~upload /\ ~Wanted(m)
    BY <1>2, <1>6, <1>9, <2>4, <2>8
  <2>9. QED
    BY <2>5, <2>6, <2>7, <2>8
<1>13. Usable' /\ TypeOK' /\ Sized'
  <2>1. TypeOK'
    BY <1>9, <1>10, <1>11, <1>12 DEF Talks, TypeOK, CtlType, FileType
  <2>2. QED
    BY <1>1, <1>9, <1>10, <2>1 DEF Talks, Sized, Usable
<1>14. Queued'
  <2>1. \A i \in 1 .. Len(parked) : parked[i] \in Session
    BY DEF Talks, TypeOK
  <2>2. QED
    BY <1>9, <1>11, <2>1 DEF Talks, Queued
<1>15. upload => up = Append(<<>>, a) /\ Len(up) = 1 /\ up[1] = a
  <2>1. <<>> \in Seq(Request) /\ Len(<<>>) = 0
    OBVIOUS
  <2>2. upload => up = Append(<<>>, a)
    BY <1>5, <1>8
  <2>3. up = Append(<<>>, a) => Len(up) = 1 /\ up[1] = a
    BY <2>1, AddLemma
  <2>4. QED
    BY <2>2, <2>3
<1>16. Asks'
  <2>1. \A i \in 1 .. Len(up) : up[i].what = "write" => up[i].x \in Photo
    <3>1. CASE upload
      <4>1. \A i \in 1 .. 1 : i = 1
        OBVIOUS
      <4>2. QED
        BY <1>6, <1>7, <1>15, <3>1, <4>1
    <3>2. CASE ~upload
      BY <1>2, <1>8, <3>2 DEF Talks, Asks
    <3>3. QED
      BY <3>1, <3>2
  <2>2. ~(s > cur)
    BY <1>1 DEF Session
  <2>3. op' # None => (op'.what = "write" => op'.x \in Photo)
    BY <1>6, <1>12
  <2>4. QED
    BY <1>9, <1>10, <1>13, <2>1, <2>2, <2>3 DEF Talks, Asks
<1>17. AnswersOwn'
  <2>1. CASE last
    <3>1. done' = [op EXCEPT !.by = op.n]
      BY <1>5, <1>9, <2>1
    <3>2. LET d == [op EXCEPT !.by = op.n] IN d.by = d.n
      BY <1>6 DEF Op
    <3>3. QED
      BY <3>1, <3>2 DEF AnswersOwn
  <2>2. CASE ~last
    BY <1>9, <2>2 DEF Talks, AnswersOwn
  <2>3. QED
    BY <2>1, <2>2
<1>18. Up' = up /\ Down' = rest
  BY <1>1, <1>9, <1>10 DEF Up, Down
<1>19. Talk'
  <2>1. CASE last
    <3>1. up = <<>> /\ rest = <<>> /\ op' = None
      BY <1>5, <1>8, <1>12, <2>1
    <3>2. \A i \in 1 .. Len(<<>>) : FALSE
      OBVIOUS
    <3>3. LateUp' /\ LateDown'
      BY <1>18, <3>1, <3>2 DEF LateUp, LateDown
    <3>4. QED
      BY <3>1, <3>3 DEF Talk
  <2>2. CASE ~last /\ upload
    <3>1. op' # None /\ op'.pc = "ack" /\ op'.what = "write" /\ rest = <<>>
      BY <1>5, <1>12, <2>2
    <3>2. Mine(TRUE)' = a
      BY <1>7, <1>12, <3>1 DEF Mine
    <3>3. TalkClosing'
      BY <1>15, <1>18, <2>2, <3>1, <3>2 DEF TalkClosing
    <3>4. QED
      BY <3>1, <3>3 DEF Talk
  <2>3. CASE ~last /\ ~upload /\ Wanted(m)
    <3>1. up = <<>> /\ rest = <<>> /\ op' # None /\ op'.pc = "bytes" /\ op'.what = op.what
      BY <1>5, <1>8, <1>12, <2>3
    <3>2. op.what \in {"read", "list"}
      BY <1>2, <1>5, <1>6, <2>3 DEF Kind
    <3>3. QED
      BY <1>18, <3>1, <3>2 DEF Talk
  <2>4. CASE ~Wanted(m)
    <3>1. op' = op /\ op.pc = "reply" /\ up = Up
      BY <1>5, <1>8, <1>9, <2>4
    <3>2. CASE TalkRequested /\ \A i \in 1 .. Len(rest) : LateOk(rest[i])
      <4>1. TalkRequested'
        BY <1>18, <3>1, <3>2 DEF TalkRequested, LateDown, LateOk, LateEnd, Mine
      <4>2. QED
        BY <3>1, <1>2, <4>1 DEF Talk
    <3>3. CASE /\ Up = <<>> /\ rest # <<>>
               /\ \A i \in 1 .. Len(rest) - 1 : LateOk(rest[i])
               /\ rest[Len(rest)].what = op.what /\ rest[Len(rest)].n = op.n
               /\ rest[Len(rest)].act = IF op.what = "show" THEN "ok" ELSE "started"
      <4>1. TalkAnswered'
        BY <1>18, <3>1, <3>3 DEF TalkAnswered, LateOk
      <4>2. QED
        BY <3>1, <1>2, <4>1 DEF Talk
    <3>4. QED
      BY <1>5, <2>4, <3>2, <3>3
  <2>5. QED
    BY <2>1, <2>2, <2>3, <2>4
<1>20. QED
  BY <1>13, <1>14, <1>16, <1>17, <1>19 DEF Talks

(* The frame answers, whoever the request is from.                         *)
LEMMA AnswerTalks ==
  ASSUME Talks, NEW s \in Session, Serve(s), NEW m, m = Head(ctl[s].up)
  PROVE  /\ TypeOK' /\ Sized' /\ Queued' /\ ~(s > cur)
         /\ ctl[s].up # <<>> /\ m \in Request /\ m = ctl[s].up[1]
         /\ ctl'[s].open = ctl[s].open
         /\ ctl'[s].up \in Seq(Request) /\ Len(ctl'[s].up) = Len(ctl[s].up) - 1
         /\ \A i \in 1 .. Len(ctl[s].up) - 1 : ctl'[s].up[i] = ctl[s].up[i + 1]
         /\ ctl[s].open => \E r \in Reply :
              /\ ctl'[s].down = Append(ctl[s].down, r)
              /\ r.what = m.what /\ r.n = m.n
              /\ r.act = (IF m.end \/ m.what = "show" THEN "ok" ELSE "started")
         /\ \A t \in Session \ {s} : ctl'[t] = ctl[t]
         /\ UNCHANGED <<file, parked, stored, cur, op, ops, done, early>>
<1>1. /\ ctl[s].up # <<>> /\ UNCHANGED <<file, parked, stored, cur, op, ops, done, early>>
  BY DEF Serve, hub
<1>2. /\ ctl[s].up \in Seq(Request) /\ ctl[s].down \in Seq(Reply)
      /\ ctl[s].open \in BOOLEAN
      /\ handler \in [Session -> HandlerType] /\ handler[s] \in HandlerType
  BY FieldsLemma DEF Talks
<1>3. PICK up : up = Tail(ctl[s].up)
  OBVIOUS
<1>4. /\ m \in Request /\ m = ctl[s].up[1] /\ up \in Seq(Request)
      /\ Len(up) = Len(ctl[s].up) - 1 /\ Len(ctl[s].up) \in Nat
      /\ \A i \in 1 .. Len(ctl[s].up) - 1 : up[i] = ctl[s].up[i + 1]
      /\ 1 \in 1 .. Len(ctl[s].up)
  BY <1>1, <1>2, <1>3, HeadLemma
<1>5. m.what \in Kind /\ m.end \in BOOLEAN /\ m.x \in Name /\ m.n \in 1 .. Ops
  BY <1>4 DEF Request
<1>6. Blob(m.x) \in Seq(Byte) /\ Len(Blob(m.x)) \in {0, 2}
  <2>1. CASE m.x = "list"
    BY <1>5, <2>1, WholeLemma DEF Blob
  <2>2. CASE m.x # "list"
    <3>1. m.x \in Photo /\ stored[m.x] \in Seq(Byte) /\ Len(stored[m.x]) \in {0, 2}
      BY <1>5, <2>2 DEF Name, Talks, TypeOK, Sized
    <3>2. QED
      BY <2>2, <3>1 DEF Blob
  <2>3. QED
    BY <2>1, <2>2
<1> DEFINE quick == m.end \/ m.what = "show"
<1>7. PICK blob : blob = IF m.what \in {"read", "list"} THEN Blob(m.x) ELSE <<>>
  OBVIOUS
<1>8. blob \in Seq(Byte) /\ Len(blob) \in {0, 2}
  BY <1>6, <1>7
<1>9. PICK r \in Reply :
        /\ r.what = m.what /\ r.n = m.n /\ r.act = (IF quick THEN "ok" ELSE "started")
        /\ r = IF quick THEN [what |-> m.what, act |-> "ok", n |-> m.n, size |-> 0]
               ELSE [what |-> m.what, act |-> "started", n |-> m.n, size |-> Len(blob)]
  <2>1. CASE quick
    <3>1. [what |-> m.what, act |-> "ok", n |-> m.n, size |-> 0] \in Reply
      BY <1>5 DEF Reply
    <3>2. QED
      BY <2>1, <3>1
  <2>2. CASE ~quick
    <3>1. [what |-> m.what, act |-> "started", n |-> m.n, size |-> Len(blob)] \in Reply
      BY <1>5, <1>8 DEF Reply
    <3>2. QED
      BY <2>2, <3>1
  <2>3. QED
    BY <2>1, <2>2
<1>10. PICK down \in Seq(Reply) :
         down = IF ctl[s].open THEN Append(ctl[s].down, r) ELSE ctl[s].down
  BY <1>2, <1>9, AppendProperties
<1>11. ctl' = [ctl EXCEPT ![s] = [ctl[s] EXCEPT !.up = up, !.down = down]]
  <2>1. IF quick THEN Answer(s, m, "ok", 0) ELSE Answer(s, m, "started", Len(blob))
    BY <1>7 DEF Serve
  <2>2. CASE quick
    BY <1>3, <1>9, <1>10, <2>1, <2>2 DEF Answer
  <2>3. CASE ~quick
    BY <1>3, <1>9, <1>10, <2>1, <2>3 DEF Answer
  <2>4. QED
    BY <2>2, <2>3
<1>12. /\ ctl' \in [Session -> CtlType]
       /\ ctl'[s].open = ctl[s].open /\ ctl'[s].up = up /\ ctl'[s].down = down
       /\ \A t \in Session \ {s} : ctl'[t] = ctl[t]
  <2>1. TypeOK /\ up \in Seq(Request) /\ down \in Seq(Reply)
    BY <1>4, <1>10 DEF Talks
  <2>2. QED
    BY <1>11, <2>1, CtlLemma
<1>13. /\ handler' \in [Session -> HandlerType]
       /\ handler'[s] = handler[s] \/ (handler'[s].doing = m /\ handler'[s].got = <<>>)
       /\ \A t \in Session \ {s} : handler'[t] = handler[t]
  <2>1. CASE quick
    BY <1>2, <2>1 DEF Serve
  <2>2. CASE ~quick
    <3>1. LET h == [handler[s] EXCEPT !.doing = m, !.got = <<>>, !.rest = blob] IN
          h \in HandlerType /\ h.doing = m /\ h.got = <<>>
      <4>1. <<>> \in Seq(Byte)
        OBVIOUS
      <4>2. QED
        BY <1>2, <1>4, <1>8, <4>1 DEF HandlerType
    <3>2. handler' = [handler EXCEPT ![s] =
                        [handler[s] EXCEPT !.doing = m, !.got = <<>>, !.rest = blob]]
      BY <1>7, <2>2 DEF Serve
    <3>3. QED
      BY <1>2, <3>1, <3>2
  <2>3. QED
    BY <2>1, <2>2
<1>14. TypeOK'
  BY <1>1, <1>12, <1>13 DEF Talks, TypeOK, CtlType, HandlerType
<1>15. Sized'
  <2>1. m.what = "write" => m.x \in Photo
    BY <1>4 DEF Talks, Asks
  <2>2. ASSUME NEW t \in Session, handler'[t].doing # None, handler'[t].doing.what = "write"
        PROVE  handler'[t].doing.x \in Photo /\ Len(handler'[t].got) < 2
    <3>1. CASE handler'[t] = handler[t]
      BY <2>2, <3>1 DEF Talks, Sized
    <3>2. CASE handler'[t].doing = m /\ handler'[t].got = <<>>
      <4>1. Len(<<>>) < 2
        OBVIOUS
      <4>2. QED
        BY <2>1, <2>2, <3>2, <4>1
    <3>3. QED
      BY <1>13, <3>1, <3>2
  <2>3. QED
    BY <1>1, <2>2 DEF Talks, Sized
<1>16. Queued' /\ ~(s > cur)
  BY <1>1 DEF Talks, Queued, Asks
<1>17. QED
  BY <1>1, <1>3, <1>4, <1>9, <1>10, <1>12, <1>14, <1>15, <1>16

(* A late request is answered late, the operation's own in its turn.       *)
LEMMA ServeTalks ==
  ASSUME Talks, NEW s \in Session, Serve(s)
  PROVE  Talks'
<1>1. PICK m : m = Head(ctl[s].up)
  OBVIOUS
<1>2. /\ TypeOK' /\ Sized' /\ Queued' /\ ~(s > cur)
      /\ ctl[s].up # <<>> /\ m \in Request /\ m = ctl[s].up[1]
      /\ ctl'[s].open = ctl[s].open
      /\ ctl'[s].up \in Seq(Request) /\ Len(ctl'[s].up) = Len(ctl[s].up) - 1
      /\ \A i \in 1 .. Len(ctl[s].up) - 1 : ctl'[s].up[i] = ctl[s].up[i + 1]
      /\ ctl[s].open => \E r \in Reply :
           /\ ctl'[s].down = Append(ctl[s].down, r)
           /\ r.what = m.what /\ r.n = m.n
           /\ r.act = (IF m.end \/ m.what = "show" THEN "ok" ELSE "started")
      /\ \A t \in Session \ {s} : ctl'[t] = ctl[t]
      /\ UNCHANGED <<file, parked, stored, cur, op, ops, done, early>>
  BY <1>1, AnswerTalks
<1>3. Usable' = Usable /\ AnswersOwn'
  <2>1. cur # 0 => cur \in Session
    BY DEF Talks, TypeOK, Session
  <2>2. cur # 0 => ctl'[cur].open = ctl[cur].open
    BY <1>2, <2>1
  <2>3. QED
    BY <1>2, <2>2 DEF Usable, Talks, AnswersOwn
<1>4. Asks'
  <2>1. ASSUME NEW i \in 1 .. Len(ctl'[s].up), ctl'[s].up[i].what = "write"
        PROVE  ctl'[s].up[i].x \in Photo
    <3>1. i + 1 \in 1 .. Len(ctl[s].up) /\ ctl'[s].up[i] = ctl[s].up[i + 1]
      <4>1. Len(ctl[s].up) \in Nat
        BY FieldsLemma DEF Talks
      <4>2. QED
        BY <1>2, <4>1
    <3>2. QED
      BY <2>1, <3>1 DEF Talks, Asks
  <2>2. QED
    BY <1>2, <1>3, <2>1 DEF Talks, Asks
<1>5. ASSUME Usable, s # cur
      PROVE  Talk'
  <2>1. Up' = Up /\ Down' = Down
    BY <1>2, <1>5, HereLemma DEF Up, Down
  <2>2. QED
    BY <1>2, <1>5, <2>1 DEF Talks, Talk, TalkRequested, TalkAnswered, TalkClosing,
                            LateUp, LateDown, LateEnd, LateOk, Mine
<1>6. ASSUME Usable, s = cur
      PROVE  Talk'
  <2>1. /\ Up = ctl[s].up /\ Down = ctl[s].down /\ ctl[s].open
        /\ Up' = ctl'[s].up /\ Down' = ctl'[s].down
        /\ Up \in Seq(Request) /\ Down \in Seq(Reply) /\ Up # <<>>
    BY <1>2, <1>6, FieldsLemma DEF Up, Down, Usable, Talks
  <2>2. /\ Len(Up) \in Nat /\ Len(Up) > 0 /\ Len(Up') = Len(Up) - 1
        /\ \A i \in 1 .. Len(Up') : Up'[i] = Up[i + 1] /\ i + 1 \in 1 .. Len(Up)
        /\ Len(Up') = 0 => Up' = <<>>
        /\ m = Up[1] /\ 1 \in 1 .. Len(Up)
    <3>1. Len(Up) \in Nat /\ Len(Up) > 0
      BY <2>1, EmptySeq
    <3>2. Len(Up') = Len(Up) - 1 /\ m = Up[1]
      BY <1>2, <2>1
    <3>3. \A i \in 1 .. Len(Up) - 1 : Up'[i] = Up[i + 1]
      BY <1>2, <2>1
    <3>4. Len(Up') = 0 => Up' = <<>>
      BY <1>2, <2>1, EmptySeq
    <3>5. QED
      BY <3>1, <3>2, <3>3, <3>4
  <2>3. PICK r \in Reply :
          /\ Down' = Append(Down, r)
          /\ r.what = m.what /\ r.n = m.n
          /\ r.act = (IF m.end \/ m.what = "show" THEN "ok" ELSE "started")
    BY <1>2, <2>1
  <2>4. /\ Down' # <<>> /\ Len(Down) \in Nat /\ Len(Down') - 1 = Len(Down)
        /\ \A i \in 1 .. Len(Down) : Down'[i] = Down[i]
        /\ Down'[Len(Down')] = r
        /\ \A i \in 1 .. Len(Down') : i \in 1 .. Len(Down) \/ i = Len(Down')
    <3>1. PICK d : d = Down'
      OBVIOUS
    <3>2. d = Append(Down, r)
      BY <2>3, <3>1
    <3>3. QED
      BY <2>1, <3>1, <3>2, AddLemma
  <2>5. Mine(TRUE)' = Mine(TRUE) /\ Mine(FALSE)' = Mine(FALSE)
    BY <1>2 DEF Mine
  <2>6. LateEnd(m) => LateOk(r)
    BY <2>3 DEF LateEnd, LateOk
  <2>7. LateDown /\ LateEnd(m) => LateDown'
    BY <2>4, <2>6 DEF LateDown, LateOk
  <2>8. LateUp => LateEnd(m) /\ LateUp'
    BY <2>2 DEF LateUp, LateEnd
  <2>9. CASE op = None \/ op.pc = "begin"
    <3>1. LateUp /\ LateDown
      BY <1>6, <2>9 DEF Talks, Talk
    <3>2. LateUp' /\ LateDown'
      BY <2>7, <2>8, <3>1
    <3>3. QED
      BY <1>2, <2>9, <3>2 DEF Talk
  <2>10. CASE op # None /\ op.pc = "reply"
    <3>1. TalkRequested
      BY <1>6, <2>1, <2>10 DEF Talks, Talk, TalkAnswered
    <3>2. CASE Len(Up) = 1
      <4>1. /\ r.what = op.what /\ r.n = op.n
            /\ r.act = IF op.what = "show" THEN "ok" ELSE "started"
        <5>1. m = Mine(FALSE)
          BY <2>2, <3>1, <3>2 DEF TalkRequested
        <5>2. m.what = op.what /\ m.n = op.n /\ m.end = FALSE
          BY <2>10, <5>1, UnderWayLemma
        <5>3. QED
          BY <2>3, <5>2
      <4>2. \A i \in 1 .. Len(Down') - 1 : LateOk(Down'[i])
        BY <2>4, <3>1 DEF TalkRequested, LateDown
      <4>3. TalkAnswered'
        BY <1>2, <2>2, <2>4, <3>2, <4>1, <4>2 DEF TalkAnswered, LateOk
      <4>4. QED
        BY <1>2, <2>10, <4>3 DEF Talk
    <3>3. CASE Len(Up) # 1
      <4>1. LateEnd(m)
        <5>1. 1 \in 1 .. Len(Up) - 1
          BY <2>2, <3>3
        <5>2. QED
          BY <2>2, <3>1, <5>1 DEF TalkRequested
      <4>2. LateDown'
        BY <2>7, <3>1, <4>1 DEF TalkRequested
      <4>3. /\ Up' # <<>> /\ Up'[Len(Up')] = Mine(FALSE)
            /\ \A i \in 1 .. Len(Up') - 1 : LateEnd(Up'[i])
        <5>1. Len(Up') \in 1 .. Len(Up') /\ Len(Up') + 1 = Len(Up) /\ Len(Up') # 0
          BY <2>2, <3>3
        <5>2. \A i \in 1 .. Len(Up') - 1 : i \in 1 .. Len(Up') /\ i + 1 \in 1 .. Len(Up) - 1
          BY <2>2
        <5>3. Len(<<>>) = 0
          OBVIOUS
        <5>4. QED
          BY <2>2, <3>1, <5>1, <5>2, <5>3 DEF TalkRequested
      <4>4. TalkRequested'
        BY <2>5, <4>2, <4>3 DEF TalkRequested, LateEnd
      <4>5. QED
        BY <1>2, <2>10, <4>4 DEF Talk
    <3>4. QED
      BY <3>2, <3>3
  <2>11. CASE op # None /\ op.pc = "bytes"
    BY <1>6, <2>1, <2>11 DEF Talks, Talk
  <2>12. CASE op # None /\ op.pc = "ack"
    <3>1. op.what # "show" /\ Len(Up) = 1 /\ Up[1] = Mine(TRUE) /\ Down = <<>>
      BY <1>6, <2>1, <2>12 DEF Talks, Talk, TalkClosing
    <3>2. m.what = op.what /\ m.n = op.n /\ m.end
      BY <2>2, <2>12, <3>1, UnderWayLemma
    <3>3. r.what = op.what /\ r.n = op.n /\ r.act = "ok"
      BY <2>3, <3>2
    <3>4. Len(Down') = 1 /\ Down'[1] = r
      <4>1. Len(<<>>) = 0
        OBVIOUS
      <4>2. QED
        BY <2>4, <3>1, <4>1
    <3>5. TalkClosing'
      BY <1>2, <2>2, <3>1, <3>3, <3>4 DEF TalkClosing
    <3>6. QED
      BY <1>2, <2>12, <3>5 DEF Talk
  <2>13. QED
    <3>1. op # None => op \in Op
      BY DEF Talks, TypeOK
    <3>2. op # None => op.pc \in {"begin", "reply", "bytes", "ack"}
      BY <3>1 DEF Op
    <3>3. QED
      BY <2>9, <2>10, <2>11, <2>12, <3>2
<1>7. QED
  BY <1>2, <1>3, <1>4, <1>5, <1>6 DEF Talks

-----------------------------------------------------------------------------
LEMMA TalksNext ==
  ASSUME Talks, [Next]_vars
  PROVE  Talks'
<1>1. CASE Connect
  BY <1>1, ConnectTalks
<1>2. CASE Send
  BY <1>2, SendTalks
<1>3. CASE Take
  BY <1>3, TakeTalks
<1>4. CASE Receive
  BY <1>4, ReceiveTalks
<1>5. CASE AllReceived
  BY <1>5, AllReceivedTalks
<1>6. CASE Unconfirmed
  BY <1>6, UnconfirmedTalks
<1>7. CASE GiveUp \/ Lost
  BY <1>7, CloseTalks
<1>8. CASE DisplayImage \/ GetAlbumData
  <2>1. "show" \in Kind /\ "list" \in Kind /\ "list" \in Name
    BY DEF Kind, Name
  <2>2. QED
    BY <1>8, <2>1, BeginTalks DEF DisplayImage, GetAlbumData
<1>9. ASSUME NEW x \in Photo, UploadImage(x) \/ DownloadImage(x)
      PROVE  Talks'
  <2>1. "write" \in Kind /\ "read" \in Kind /\ x \in Name
    BY DEF Kind, Name
  <2>2. QED
    BY <1>9, <2>1, BeginTalks DEF UploadImage, DownloadImage
<1>10. ASSUME NEW s \in Session, Arrive(s) \/ Serve(s) \/ Claim(s)
       PROVE  Talks'
  BY <1>10, ArriveTalks, ServeTalks, ClaimTalks
<1>11. ASSUME NEW s \in Session, SendByte(s) \/ ReceiveByte(s) \/ HandlerEnds(s)
       PROVE  Talks'
  BY <1>11, SendByteTalks, ReceiveByteTalks, EndsTalks
<1>12. CASE UNCHANGED vars
  <2>1. UNCHANGED <<ctl, file, handler, parked, stored, cur, op, ops, done, early>>
    BY <1>12 DEF vars, hub
  <2>2. TypeOK' /\ Sized' /\ Queued'
    BY <2>1 DEF Talks, TypeOK, Sized, Queued
  <2>3. QED
    BY <2>1, <2>2, QuietLemma
<1>13. QED
  BY <1>1, <1>2, <1>3, <1>4, <1>5, <1>6, <1>7, <1>8, <1>9, <1>10, <1>11, <1>12
     DEF Next

(* Whatever file channel a handler claims, everything keeps its type: a    *)
(* reply announces no bytes or two, and no file channel waits for a        *)
(* handler twice.                                                          *)
THEOREM TypeCorrect == Spec => []TypeOK
<1>1. Init => Talks
  BY TalksInit
<1>2. Talks /\ [Next]_vars => Talks'
  BY TalksNext
<1>3. Talks => TypeOK
  BY DEF Talks
<1>4. QED
  BY <1>1, <1>2, <1>3, PTL DEF Spec

(* AnswersOwn: what succeeded was answered itself; a reply that comes late *)
(* is never that of a command or of an upload.  This too does not depend   *)
(* on the file channels: a connection may be lost at any moment.           *)
THEOREM AnswersOwnHolds == Spec => []AnswersOwn
<1>1. Init => Talks
  BY TalksInit
<1>2. Talks /\ [Next]_vars => Talks'
  BY TalksNext
<1>3. Talks => AnswersOwn
  BY DEF Talks
<1>4. QED
  BY <1>1, <1>2, <1>3, PTL DEF Spec
=============================================================================
