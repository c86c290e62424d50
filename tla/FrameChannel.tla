---------------------------- MODULE FrameChannel ----------------------------
(***************************************************************************)
(* The two channels between the hub and a frame: requests and replies on   *)
(* the control channel, the bytes of files, unframed, on the file channel. *)
(* The client is memento_core's; the frame is the emulator, whose control  *)
(* handlers each claim a file connection from those that wait.             *)
(*                                                                         *)
(* Sessions of the hub follow one another: one that failed is closed       *)
(* before the next is opened.  The frame may still be busy with it.        *)
(***************************************************************************)
EXTENDS Naturals, Sequences, SequencesExt

CONSTANTS Photo,
  Held,       \* photos that the frame has from the start
  Embedded,   \* those in which an end-of-image marker may end a read early
  Sessions,   \* bound on the sessions opened
  Ops,        \* bound on the operations
  Vanishes,   \* may a connection be lost between the opening of its file channel
              \* and its first request for a transfer?
  None

ASSUME ChannelAssumption ==
  /\ Held \subseteq Photo /\ Embedded \subseteq Held
  /\ Sessions \in Nat /\ Ops \in Nat /\ Vanishes \in BOOLEAN
  /\ None \notin Photo /\ "list" \notin Photo

VARIABLES
  ctl,      \* session -> its control channel, requests up and replies down
  file,     \* session -> its file channel, bytes up and bytes down
  handler,  \* session -> the frame's handler of its control channel
  parked,   \* the file channels that wait for a handler, in order of arrival
  stored,   \* photo -> the bytes that the frame has under this name
  cur,      \* the hub's current session, 0 before the first
  op,       \* the operation under way, or None
  ops,      \* operations begun
  done,     \* the operation that succeeded last, or None
  early     \* may the rest of an earlier read come before what is sent next?

hub == <<cur, op, ops, done, early>>
vars == <<ctl, file, handler, parked, stored, hub>>

Session == 1 .. Sessions
Name == Photo \cup {"list"}
Kind == {"show", "write", "read", "list"}
Byte == Name \X {1, 2}
Whole(x) == <<<<x, 1>>, <<x, 2>>>>
Blob(x) == IF x = "list" THEN Whole(x) ELSE stored[x]

(* A transfer is requested, and closed by a request of its own.            *)
Request == [what : Kind, end : BOOLEAN, x : Name, n : 1 .. Ops]
Reply == [what : Kind, act : {"started", "ok"}, n : 1 .. Ops, size : {0, 2}]
Op == [what : Kind, x : Name, n : 1 .. Ops, pc : {"begin", "reply", "bytes", "ack"},
       left : 0 .. 2, got : Seq(Byte), by : 0 .. Ops]

(* None is no session, no request and no operation.                        *)
ASSUME NoneAssumption == None \notin Session \cup Request \cup Op

(* open: the hub has its end open.  alive: the handler runs; doing: the    *)
(* transfer it is busy with; rest: the bytes it has still to send.         *)
TypeOK ==
  /\ ctl \in [Session -> [open : BOOLEAN, up : Seq(Request), down : Seq(Reply)]]
  /\ file \in [Session -> [open : BOOLEAN, opened : BOOLEAN, arrived : BOOLEAN,
                       up : Seq(Byte), down : Seq(Byte)]]
  /\ handler \in [Session -> [alive : BOOLEAN, claimed : Session \cup {None},
                      doing : Request \cup {None}, got : Seq(Byte), rest : Seq(Byte)]]
  /\ parked \in Seq(Session) /\ IsInjective(parked)
  /\ stored \in [Photo -> Seq(Byte)]
  /\ cur \in 0 .. Sessions /\ ops \in 0 .. Ops
  /\ op \in Op \cup {None} /\ done \in Op \cup {None} /\ early \in BOOLEAN

Init ==
  /\ ctl = [s \in Session |-> [open |-> FALSE, up |-> <<>>, down |-> <<>>]]
  /\ file = [s \in Session |-> [open |-> FALSE, opened |-> FALSE, arrived |-> FALSE,
                                up |-> <<>>, down |-> <<>>]]
  /\ handler = [s \in Session |-> [alive |-> FALSE, claimed |-> None, doing |-> None,
                                   got |-> <<>>, rest |-> <<>>]]
  /\ stored = [x \in Photo |-> IF x \in Held THEN Whole(x) ELSE <<>>]
  /\ parked = <<>> /\ cur = 0 /\ op = None /\ ops = 0 /\ done = None /\ early = FALSE

-----------------------------------------------------------------------------
(* The hub: memento_core's client, as the warm session uses it.            *)

Usable == cur # 0 /\ ctl[cur].open
Doing(pc) == Usable /\ op # None /\ op.pc = pc

Connect ==
  /\ ~Usable /\ cur < Sessions
  /\ cur' = cur + 1 /\ early' = FALSE /\ done' = None
  /\ ctl' = [ctl EXCEPT ![cur + 1].open = TRUE]
  /\ handler' = [handler EXCEPT ![cur + 1].alive = TRUE]
  /\ UNCHANGED <<file, parked, stored, op, ops>>

Close == /\ ctl' = [ctl EXCEPT ![cur].open = FALSE, ![cur].down = <<>>]
         /\ file' = [file EXCEPT ![cur].open = FALSE, ![cur].down = <<>>]

Fresh(what, x) == [what |-> what, x |-> x, n |-> ops + 1, pc |-> "begin",
                   left |-> 0, got |-> <<>>, by |-> 0]

(* The operation before this one stopped before all that was announced.    *)
Short == done # None /\ done.left > 0

Idle == handler[cur].doing = None

(* An operation begins.  Of the bytes on their way to the hub, arrived     *)
(* have come: those that wait when a read is begun can be dropped, the     *)
(* others, and those that the frame has yet to send, come later.           *)
Opening(what, x, arrived) ==
  /\ op = None /\ ops < Ops
  /\ op' = Fresh(what, x) /\ ops' = ops + 1 /\ done' = None
  /\ early' = ((early \/ Short)
               /\ ~(what = "read" /\ arrived = Len(file[cur].down) /\ Idle))
  /\ UNCHANGED <<ctl, handler, parked, stored, cur>>

(* Variant: what is left of an earlier read stays.                         *)
BeginUndrained(what, x) ==
  Usable /\ \E arrived \in 0 .. Len(file[cur].down) :
    /\ Opening(what, x, arrived)
    /\ file' = [file EXCEPT ![cur].open = @ \/ what # "show", ![cur].opened = @ \/ what # "show"]

(* The file channel is opened for the first transfer.  Before a read, the  *)
(* end of which only silence tells, what waits on it is dropped.           *)
Begin(what, x) ==
  Usable /\ \E arrived \in 0 .. Len(file[cur].down) :
    /\ Opening(what, x, arrived)
    /\ file' = [file EXCEPT ![cur].open = @ \/ what # "show", ![cur].opened = @ \/ what # "show",
                            ![cur].down = IF what = "read" THEN SubSeq(@, arrived + 1, Len(@)) ELSE @]

DisplayImage == Begin("show", "list")
UploadImage(x) == Begin("write", x)
DownloadImage(x) == Begin("read", x)
GetAlbumData == Begin("list", "list")

Sent(end) == Append(ctl[cur].up, [what |-> op.what, end |-> end, x |-> op.x, n |-> op.n])

Send ==
  /\ Doing("begin")
  /\ ctl' = [ctl EXCEPT ![cur].up = Sent(FALSE)]
  /\ op' = [op EXCEPT !.pc = "reply"]
  /\ UNCHANGED <<file, handler, parked, stored, cur, ops, done, early>>

(* What a wait accepts: for a command a reply of its type, for a transfer  *)
(* one that names its kind and the step.  No one looks at the id.          *)
Wanted(m) ==
  /\ m.what = op.what
  /\ m.act = (IF op.pc = "ack" \/ op.what = "show" THEN "ok" ELSE "started")

SendBytes(x) == file' = [file EXCEPT ![cur].up = @ \o Whole(x)]

(* A reply is taken; if it is not the one waited for, it is passed over.   *)
(* An upload's bytes and closing request follow its first reply at once.   *)
Take ==
  /\ Doing("reply") \/ Doing("ack")
  /\ ctl[cur].down # <<>>
  /\ LET m == Head(ctl[cur].down)
         upload == Wanted(m) /\ op.what = "write" /\ op.pc = "reply"
         last == Wanted(m) /\ m.act = "ok"
     IN /\ ctl' = [ctl EXCEPT ![cur].down = Tail(@), ![cur].up = IF upload THEN Sent(TRUE) ELSE @]
        /\ IF upload THEN SendBytes(op.x) ELSE UNCHANGED file
        /\ done' = IF last THEN [op EXCEPT !.by = m.n] ELSE done
        /\ op' = IF last THEN None
                 ELSE IF upload THEN [op EXCEPT !.pc = "ack"]
                 ELSE IF Wanted(m) THEN [op EXCEPT !.pc = "bytes", !.left = m.size]
                 ELSE op
  /\ UNCHANGED <<handler, parked, stored, cur, ops, early>>

Receive ==
  /\ Doing("bytes") /\ op.left > 0 /\ file[cur].down # <<>>
  /\ op' = [op EXCEPT !.got = Append(@, Head(file[cur].down)), !.left = @ - 1]
  /\ file' = [file EXCEPT ![cur].down = Tail(@)]
  /\ UNCHANGED <<ctl, handler, parked, stored, cur, ops, done, early>>

(* The frame sends a file without a pause that would be taken for its end. *)
Quiet(s) ==
  /\ file[s].down = <<>>
  /\ handler[s].alive => handler[s].doing = None /\ ctl[s].up = <<>>

MarkerSeen == op.got # <<>> /\ op.got[Len(op.got)][1] \in Embedded

(* All that was announced has come; a read also ends where a chunk happens *)
(* to end with the marker, and when no more comes.                         *)
AllReceived ==
  /\ Doing("bytes")
  /\ op.left = 0 \/ (op.what = "read" /\ (MarkerSeen \/ Quiet(cur)))
  /\ ctl' = [ctl EXCEPT ![cur].up = Sent(TRUE)]
  /\ op' = [op EXCEPT !.pc = "ack"]
  /\ UNCHANGED <<file, handler, parked, stored, cur, ops, done, early>>

(* A file that has come is not given up for want of the receipt, for which *)
(* the frame may still be too busy sending what the read did not wait for. *)
Unconfirmed ==
  /\ Doing("ack") /\ op.what \in {"read", "list"}
  /\ done' = op /\ op' = None
  /\ UNCHANGED <<ctl, file, handler, parked, stored, cur, ops, early>>

Claimed(s) == ~file[s].opened \/ handler[s].claimed # None

(* Variant: the session is kept.                                           *)
GiveUpKeeps ==
  /\ Usable /\ op # None /\ (op.pc = "ack" => op.what = "write")
  /\ op' = None
  /\ UNCHANGED <<ctl, file, handler, parked, stored, cur, ops, done, early>>

(* Any other answer that does not come in time, or a channel found closed, *)
(* fails the operation and the session with it: a late reply may be in it. *)
GiveUp ==
  /\ Usable /\ op # None /\ (op.pc = "ack" => op.what = "write")
  /\ Claimed(cur)
  /\ op' = None
  /\ Close
  /\ UNCHANGED <<handler, parked, stored, cur, ops, done, early>>

(* The connection is lost, or the hub's process is.                        *)
Lost ==
  /\ Usable
  /\ Claimed(cur) \/ (Vanishes /\ Doing("begin"))
  /\ op' = None
  /\ Close
  /\ UNCHANGED <<handler, parked, stored, cur, ops, done, early>>

-----------------------------------------------------------------------------
(* The frame: the emulator's handlers.                                     *)

Arrive(s) ==
  /\ file[s].opened /\ ~file[s].arrived
  /\ file' = [file EXCEPT ![s].arrived = TRUE]
  /\ parked' = Append(parked, s)
  /\ UNCHANGED <<ctl, handler, stored, hub>>

Answer(s, m, act, size) ==
  ctl' = [ctl EXCEPT ![s].up = Tail(@), ![s].down = IF ~ctl[s].open THEN @ ELSE
            Append(@, [what |-> m.what, act |-> act, n |-> m.n, size |-> size])]

(* A command is carried out, and the end of a transfer confirmed, at once. *)
Serve(s) ==
  /\ handler[s].alive /\ handler[s].doing = None /\ ctl[s].up # <<>>
  /\ LET m == Head(ctl[s].up)
         blob == IF m.what \in {"read", "list"} THEN Blob(m.x) ELSE <<>>
     IN IF m.end \/ m.what = "show"
        THEN Answer(s, m, "ok", 0) /\ UNCHANGED handler
        ELSE /\ Answer(s, m, "started", Len(blob))
             /\ handler' = [handler EXCEPT ![s].doing = m, ![s].got = <<>>, ![s].rest = blob]
  /\ UNCHANGED <<file, parked, stored, hub>>

(* The oldest file channel that waits is taken, whosever it is.            *)
Claim(s) ==
  /\ handler[s].alive /\ handler[s].doing # None /\ handler[s].claimed = None
  /\ parked # <<>>
  /\ handler' = [handler EXCEPT ![s].claimed = Head(parked)]
  /\ parked' = Tail(parked)
  /\ UNCHANGED <<ctl, file, stored, hub>>

SendByte(s) ==
  /\ handler[s].alive /\ handler[s].doing # None /\ handler[s].claimed # None
  /\ handler[s].doing.what # "write"
  /\ LET c == handler[s].claimed  rest == handler[s].rest IN
     /\ file' = IF rest = <<>> \/ ~file[c].open THEN file
                ELSE [file EXCEPT ![c].down = Append(@, Head(rest))]
     /\ handler' = IF Len(rest) <= 1
                   THEN [handler EXCEPT ![s].doing = None, ![s].rest = <<>>]
                   ELSE [handler EXCEPT ![s].rest = Tail(rest)]
  /\ UNCHANGED <<ctl, parked, stored, hub>>

(* Variant: the picture is stored as its bytes come.                       *)
ReceiveByteStoring(s) ==
  /\ handler[s].alive /\ handler[s].doing # None /\ handler[s].claimed # None
  /\ handler[s].doing.what = "write" /\ file[handler[s].claimed].up # <<>>
  /\ LET c == handler[s].claimed
         got == Append(handler[s].got, Head(file[c].up))
     IN /\ file' = [file EXCEPT ![c].up = Tail(@)]
        /\ handler' = [handler EXCEPT ![s].got = got, ![s].doing = IF Len(got) = 2 THEN None ELSE @]
        /\ stored' = [stored EXCEPT ![handler[s].doing.x] = got]
  /\ UNCHANGED <<ctl, parked, hub>>

(* The photo is stored once as many bytes have come as were announced.     *)
ReceiveByte(s) ==
  /\ handler[s].alive /\ handler[s].doing # None /\ handler[s].claimed # None
  /\ handler[s].doing.what = "write" /\ file[handler[s].claimed].up # <<>>
  /\ LET c == handler[s].claimed
         got == Append(handler[s].got, Head(file[c].up))
     IN /\ file' = [file EXCEPT ![c].up = Tail(@)]
        /\ handler' = [handler EXCEPT ![s].got = IF Len(got) = 2 THEN <<>> ELSE got,
                                      ![s].doing = IF Len(got) = 2 THEN None ELSE @]
        /\ stored' = IF Len(got) = 2 THEN [stored EXCEPT ![handler[s].doing.x] = got] ELSE stored
  /\ UNCHANGED <<ctl, parked, hub>>

(* The handler ends when a channel turns out to be closed, or when no file *)
(* channel comes.  Requests it has not read yet may be lost with it.       *)
HandlerEnds(s) ==
  /\ handler[s].alive
  /\ LET doing == handler[s].doing  c == handler[s].claimed IN
     \/ /\ doing = None /\ ~ctl[s].open
        /\ ctl[s].up = <<>> \/ c # None
     \/ doing # None /\ c = None /\ parked = <<>> /\ (file[s].opened => file[s].arrived)
     \/ doing # None /\ c # None /\ ~file[c].open /\ (doing.what = "write" => file[c].up = <<>>)
  /\ handler' = [handler EXCEPT ![s].alive = FALSE, ![s].doing = None,
                                ![s].got = <<>>, ![s].rest = <<>>]
  /\ UNCHANGED <<ctl, file, parked, stored, hub>>

-----------------------------------------------------------------------------
Next ==
  \/ Connect \/ Send \/ Take \/ Receive \/ AllReceived \/ Unconfirmed \/ GiveUp \/ Lost
  \/ DisplayImage \/ GetAlbumData \/ \E x \in Photo : UploadImage(x) \/ DownloadImage(x)
  \/ \E s \in Session : \/ Arrive(s) \/ Serve(s) \/ Claim(s) \/ SendByte(s)
                        \/ ReceiveByte(s) \/ HandlerEnds(s)

Spec == Init /\ [][Next]_vars

-----------------------------------------------------------------------------
(* Properties.                                                             *)

(* A command or an upload that succeeds was answered itself, not by a late *)
(* reply to one that was given up.                                         *)
AnswersOwn == done # None /\ done.what \in {"show", "write"} => done.by = done.n

(* A photo that was read is the beginning of that photo.  The exception:   *)
(* an earlier read of the session stopped early, and no read since has     *)
(* begun with all of the rest sent and arrived.  Then left-over bytes may  *)
(* head a photo: what is dropped is only what has come.                    *)
PhotoClean ==
  done # None /\ done.what = "read" /\ ~early => IsPrefix(done.got, Whole(done.x))

(* A list is read whole, with the same exception: before a list, nothing   *)
(* is dropped.                                                             *)
ListIntact == done # None /\ done.what = "list" /\ ~early => done.got = Whole("list")

(* An upload that succeeded is stored under its name, byte for byte.       *)
UploadStored == done # None /\ done.what = "write" => stored[done.x] = Whole(done.x)

(* No part of a photo, and no other photo's bytes, are ever kept under a   *)
(* name: a broken upload leaves what was there.                            *)
StoredWhole == \A x \in Photo : stored[x] \in {<<>>, Whole(x)}

(* A handler uses the file channel of its own session, and never a stale   *)
(* one of a session that is closed.                                        *)
Paired == \A s \in Session : handler[s].claimed \in {s, None}
=============================================================================
