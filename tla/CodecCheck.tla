----------------------------- MODULE CodecCheck -----------------------------
(***************************************************************************)
(* The codec checked against the reference value on every Width-digit hex *)
(* string: the initial state picks the string, and nothing changes.        *)
(***************************************************************************)
EXTENDS Codec

VARIABLE str   \* a dpid or port-number string as the controller sends it

Init == str \in [1..Width -> Digit]
Next == UNCHANGED str
Spec == Init /\ [][Next]_str

(* A node's label (sixteen_to_ten, shown at line 184) is the number its  *)
(* dpid denotes, so distinct switches get distinct labels.               *)
LabelExact == sixteen_to_ten(str) = HexRef(str)

=============================================================================
