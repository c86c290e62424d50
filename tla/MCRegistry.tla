----------------------------- MODULE MCRegistry -----------------------------
(* Small instances of Registry for TLC: a frame with a GUID next to one    *)
(* without or to a second one with, each of which may get an address that  *)
(* the other had; and a served frame with three ids, one of them the       *)
(* number that the app is told, next to a second served frame.             *)
EXTENDS Registry

CONSTANTS g, h, n, a1, a2, a3, dev, serial, number, other, otherNumber, x, y

MCLeases == [d \in Lan |-> CASE d = g -> {a1, a2} [] d = h -> {a2, a3} [] d = n -> {a2, a3}]
MCOwner == [s \in Serial |-> IF s \in {other, otherNumber} THEN y ELSE x]
MCNumeric == [s \in Serial |-> CASE s = dev -> number [] s = other -> otherNumber [] OTHER -> None]
MCRequests == {<<dev>>, <<serial>>, <<number>>, <<dev, serial>>, <<serial, number>>,
               <<number, dev>>, <<other>>, <<otherNumber, other>>}

(* With two frames that have GUIDs, one user action: two are too many      *)
(* states.                                                                 *)
MCEdits == [H \in Homes |-> IF H = {g, h} THEN 1 ELSE 2]
=============================================================================
