----------------------------- MODULE ServedFrame -----------------------------
(***************************************************************************)
(* A battery frame served by an impersonated vendor cloud.  The frame is   *)
(* asleep most of the time; when it wakes it polls its status in bursts,   *)
(* fetches the playlist and the image it is told about, reports that it    *)
(* has shown it and goes back to sleep.  The hub keeps, per frame, the     *)
(* image that is current, the one the frame has acknowledged and the time  *)
(* of the last change, and turns to the next image once per wake.          *)
(*                                                                         *)
(* Photos are numbered in the order in which the cache lists their keys.   *)
(* The frame's own program is external: a session takes one image at a     *)
(* time, polls at any moment of it, and may be cut short by sleep.  An     *)
(* answer of the hub may be lost on the way.                               *)
(***************************************************************************)
EXTENDS Naturals, FiniteSets, FiniteSetsExt

CONSTANTS
  Photo,      \* a set of numbers
  None,       \* no image
  Wakes,      \* the wake intervals the app may set, in clock ticks
  Garbled,    \* a stored wake interval that is no number
  Default,    \* the interval assumed then
  MinGap,     \* _ROTATE_MIN_GAP_MS
  MaxGap,     \* _ROTATE_MAX_GAP_MS
  Edits       \* bound on what users do

ASSUME ServedAssumption ==
  /\ Photo \subseteq Nat /\ IsFiniteSet(Photo) /\ None \notin Photo
  /\ Wakes \subseteq Nat /\ Garbled \notin Nat
  /\ {Default, MinGap, MaxGap, Edits} \subseteq Nat /\ MinGap <= MaxGap

VARIABLES
  cached,     \* the images in the frame's cache
  content,    \* the image that is current
  acked,      \* the image the frame has acknowledged
  since,      \* clock ticks since the last change, at most MaxGap + 1
  wakeUp,     \* the stored wake interval
  frame,      \* what the frame is doing
  target,     \* the image the frame has picked from the playlist
  shown,      \* the image on the panel
  awake,      \* clock ticks since the frame woke up, at most MinGap
  turns,      \* how often the hub has turned to the next image in this wake
  lost,       \* has the cache lost an image while the frame worked on one?
  edits       \* how often users have changed something

hub == <<content, acked, since>>
device == <<frame, target, shown, awake>>
user == <<cached, wakeUp, lost, edits>>
vars == <<hub, device, user, turns>>

Busy == {"told", "picked", "drawn"}

TypeOK ==
  /\ cached \subseteq Photo
  /\ {content, acked, target, shown} \subseteq Photo \cup {None}
  /\ since \in 0 .. MaxGap + 1 /\ awake \in 0 .. MinGap
  /\ wakeUp \in Wakes \cup {Garbled, Default}
  /\ frame \in {"asleep", "polling"} \cup Busy
  /\ lost \in BOOLEAN
  /\ turns \in Nat /\ edits \in 0 .. Edits

Init ==
  /\ cached \in SUBSET Photo             \* filled before the first poll
  /\ content = None /\ acked = None
  /\ since = MaxGap + 1                  \* last_update_ms '0'
  /\ wakeUp = Default
  /\ frame = "asleep" /\ target = None /\ shown = None /\ awake = 0
  /\ turns = 0 /\ lost = FALSE /\ edits = 0

-----------------------------------------------------------------------------
(* Users and the delivery queue.                                           *)

Edit == edits < Edits /\ edits' = edits + 1

Publish(p) ==
  /\ Edit
  /\ cached' = cached \cup {p}
  /\ UNCHANGED <<hub, device, wakeUp, lost, turns>>

(* The image, its original, its library row and its delivery all go.       *)
PhotoDelete(p) ==
  /\ Edit /\ p \in cached
  /\ cached' = cached \ {p}
  /\ lost' = (lost \/ frame \in Busy)
  /\ UNCHANGED <<hub, device, wakeUp, turns>>

SetSetting(w) == wakeUp' = w

SettingUpdate(w) ==
  /\ Edit
  /\ SetSetting(w)
  /\ UNCHANGED <<hub, device, cached, lost, turns>>

-----------------------------------------------------------------------------
(* The hub's handlers.                                                     *)

Interval == IF wakeUp = Garbled THEN Default ELSE wakeUp

(* Between the burst of one wake and the wake interval.                    *)
RotateGap == Max({MinGap, Min({Interval \div 2, MaxGap})})

(* Variant: the last image is not followed by the first.                   *)
FollowingNoWrap(p) ==
  LET later == {q \in cached : q > p} IN Min(IF later = {} THEN {p} ELSE later)

Following(p) ==
  LET later == {q \in cached : q > p} IN Min(IF later = {} THEN cached ELSE later)

(* Variant: an image that is put up in place of a deleted one counts as    *)
(* acknowledged.                                                           *)
RotatedAcked ==
  IF cached = {} THEN <<None, acked>>
  ELSE IF content \notin cached THEN <<Min(cached), Min(cached)>>
  ELSE IF content = acked /\ since > RotateGap THEN <<Following(content), acked>>
  ELSE <<content, acked>>

(* dev/frame/status: <<the current image, the acknowledged one>> after it. *)
Rotated ==
  IF cached = {} THEN <<None, acked>>
  ELSE IF content \notin cached THEN <<Min(cached), None>>
  ELSE IF content = acked /\ since > RotateGap THEN <<Following(content), acked>>
  ELSE <<content, acked>>

SetDisplay(current, confirmed) == content' = current /\ acked' = confirmed

(* Variant: the time of the change is not written with it.                 *)
StatusKeepsClock ==
  /\ SetDisplay(Rotated[1], Rotated[2])
  /\ UNCHANGED since
  /\ turns' = IF content' # content /\ content \in cached THEN turns + 1 ELSE turns

Status ==
  /\ SetDisplay(Rotated[1], Rotated[2])
  /\ since' = IF Rotated # <<content, acked>> THEN 0 ELSE since
  /\ turns' = IF content' # content /\ content \in cached THEN turns + 1 ELSE turns

Display == content' # None /\ content' # acked'

(* callback/action_status: what is current now counts as shown.            *)
Callback == SetDisplay(content, content) /\ UNCHANGED since

(* dev/playlist/detail dates the current image newest; if it has left the  *)
(* cache the last of the others is.                                        *)
Newest == IF content \in cached THEN content ELSE Max(cached)

-----------------------------------------------------------------------------
(* The frame.                                                              *)

WakeUp ==
  /\ frame = "asleep"
  /\ frame' = "polling"
  /\ UNCHANGED <<hub, user, target, shown, awake, turns>>

(* A frame that is idle and told to display starts on it.                  *)
Poll ==
  /\ frame # "asleep"
  /\ Status
  /\ \/ /\ Display /\ frame = "polling"
        /\ frame' = "told" /\ lost' = FALSE
     \/ UNCHANGED <<frame, lost>>           \* idle, busy, or the answer is lost
  /\ UNCHANGED <<cached, wakeUp, edits, target, shown, awake>>

Playlist ==
  /\ frame = "told"
  /\ IF cached = {}
     THEN frame' = "polling" /\ UNCHANGED target
     ELSE frame' = "picked" /\ target' = Newest
  /\ UNCHANGED <<hub, user, shown, awake, turns>>

ResolveKey(p) == IF p \in cached THEN p ELSE None

(* The image may have left the cache since: not found.                     *)
Download ==
  /\ frame = "picked"
  /\ IF ResolveKey(target) # None
     THEN frame' = "drawn" /\ shown' = ResolveKey(target)
     ELSE frame' = "polling" /\ UNCHANGED shown
  /\ target' = None
  /\ UNCHANGED <<hub, user, awake, turns>>

Report ==
  /\ frame = "drawn"
  /\ frame' = "polling"
  /\ Callback
  /\ UNCHANGED <<user, target, shown, awake, turns>>

(* The report never arrives.                                               *)
ReportLost ==
  /\ frame = "drawn"
  /\ frame' = "polling"
  /\ UNCHANGED <<hub, user, target, shown, awake, turns>>

Sleep ==
  /\ frame # "asleep"
  /\ frame' = "asleep" /\ target' = None /\ awake' = 0 /\ turns' = 0
  /\ UNCHANGED <<hub, user, shown>>

(* A wake lasts no longer than MinGap.                                     *)
Tick ==
  /\ frame = "asleep" \/ awake < MinGap
  /\ since' = Min({since + 1, MaxGap + 1})
  /\ awake' = IF frame = "asleep" THEN awake ELSE awake + 1
  /\ UNCHANGED <<content, acked, frame, target, shown, user, turns>>

-----------------------------------------------------------------------------
Session ==
  \/ WakeUp
  \/ Poll
  \/ Playlist
  \/ Download
  \/ Report
  \/ ReportLost
  \/ Sleep

Next ==
  \/ Session
  \/ Tick
  \/ \E p \in Photo : Publish(p) \/ PhotoDelete(p)
  \/ \E w \in Wakes \cup {Garbled} : SettingUpdate(w)

Spec == Init /\ [][Next]_vars

(* The frame wakes up again and again, stays asleep for a while and, as    *)
(* often as it polls, is answered and gets an image through now and then.  *)
Fairness ==
  /\ WF_vars(WakeUp) /\ WF_vars(Sleep) /\ WF_vars(Tick)
  /\ SF_vars(Tick /\ frame = "asleep")
  /\ SF_vars(Poll /\ frame = "polling")
  /\ SF_vars(Poll /\ frame' = "told")
  /\ SF_vars(Playlist) /\ SF_vars(Download) /\ SF_vars(Report)

FairSpec == Spec /\ Fairness

-----------------------------------------------------------------------------
(* Properties.                                                             *)

(* However often the frame polls in one wake, and whatever interval is     *)
(* set, the hub turns to the next image at most once in it.                *)
OncePerWake == turns <= 1

(* What the hub takes for shown is on the panel.  The report does not say  *)
(* which image it is about, so this needs that the cache has lost no image *)
(* while the frame was at work.                                            *)
AckedIsShown ==
  content # None /\ content = acked /\ ~lost => shown = content

(* Of two or more images that stay in the cache each is shown again and    *)
(* again: a lost answer, a lost report, a report about another image or a  *)
(* deleted image never stops the rotation.                                 *)
EveryPhotoShown ==
  \A p \in Photo :
    <>[](p \in cached /\ Cardinality(cached) > 1) => []<>(shown = p)
=============================================================================
