----------------------------- MODULE MCDelivery -----------------------------
(* Small instances of Delivery for TLC: two Immich assets, their canonical *)
(* names, a name for an app upload and one for a file the device came with. *)
EXTENDS Delivery

CONSTANTS a1, a2, k1, k2, u1, p1, f1

MCSlug == [a \in Immich |-> IF a = a1 THEN k1 ELSE k2]

(* Clients that send back the names they were given...                     *)
OwnNames == [a \in Immich |-> {}]
(* ...and clients that reuse the first asset's name for another asset.     *)
SharedNames == [a \in Immich |-> IF k1 \in Key THEN {k1} ELSE {}]

AnyListing == SUBSET Immich
NoListing == {}
=============================================================================
