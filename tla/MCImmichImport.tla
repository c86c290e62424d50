--------------------------- MODULE MCImmichImport ---------------------------
(* A small instance of ImmichImport for TLC: two photos and a buffer of    *)
(* Slyde's on the frame, one folder, one photo of the server's own.        *)
EXTENDS ImmichImport, TLC

CONSTANTS n1, n2, b, o

(* One original has the first name; a search for the second's stem finds   *)
(* it too.  An import adds copies of the same names.                       *)
MCArranged == [f \in Folder |-> {n1, b}]
MCNameOf == o :> n1
MCAlike == [n \in Name |-> IF n = n2 THEN {o} ELSE {}]
=============================================================================
