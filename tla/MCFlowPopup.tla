---------------------------- MODULE MCFlowPopup ----------------------------
EXTENDS FlowPopup

(* 0x201 and 0x200 differ only in the lowest bit; 0x010 rounds to itself. *)
MCSwitches == {<<0, 1, 0>>, <<2, 0, 1>>, <<2, 0, 0>>}
=============================================================================
