----------------------------- MODULE FlowPopup -----------------------------
(***************************************************************************)
(* The flow-table popup (ryu.topology.js lines 69-101, 164).  Starting to *)
(* drag a switch pins it and asks the controller for its flows at          *)
(* /stats/flow/<dpid_to_int(dpid)>; the answer's callback reads            *)
(* data[dpid] and replaces the side panel's table.  Answers to several    *)
(* drags are independent HTTP requests and may arrive in any order.       *)
(* The controller side (Ryu's ofctl_rest, not in this tree) parses the    *)
(* decimal dpid exactly and answers 404 for a switch it does not know; d3 *)
(* then calls back with no data and data[dpid] throws.                    *)
(*                                                                         *)
(* A flow table is abstracted to the switch it belongs to.                 *)
(***************************************************************************)
EXTENDS Codec, FiniteSets

CONSTANTS
  Switches,   \* dpid strings of the switches that may connect
  MaxDrags,   \* bound on drag starts
  Churn       \* may switches connect and leave while the page is open?

ASSUME Switches \subseteq Seq(Digit) /\ MaxDrags \in Nat /\ Churn \in BOOLEAN

NoTable == <<>>   \* the panel before any table is drawn

VARIABLES
  up,        \* switches connected
  seen,      \* switches whose node may be on screen (a node stays drawn
             \* after its switch leaves until the page handles the leave)
  fixed,     \* switches whose node object has fixed = true
  inflight,  \* flow requests sent and not yet answered
  table,     \* the switch whose flows the panel shows
  last,      \* history: the switch dragged last
  drags      \* drag starts so far

popupVars == <<up, seen, fixed, inflight, table, last, drags>>

Request == [seq: 1..MaxDrags, sw: Switches, num: Nat]

(* The switch ofctl_rest finds for the URL's number, if any.             *)
FlowOwner(num) == {s \in up : HexRef(s) = num}

(* _dragstart(d): request the flows of d, then d.fixed = true.  Nothing   *)
(* checks that d's switch is still connected.                             *)
_dragstart(s) ==
  /\ s \in seen /\ drags < MaxDrags
  /\ drags' = drags + 1
  /\ inflight' = inflight \cup
                   {[seq |-> drags + 1, sw |-> s, num |-> dpid_to_int(s)]}
  /\ fixed' = fixed \cup {s}
  /\ last' = s
  /\ UNCHANGED <<up, seen, table>>

(* The dblclick handler: d.fixed = false.                                 *)
dblclick(s) ==
  /\ s \in fixed
  /\ fixed' = fixed \ {s}
  /\ UNCHANGED <<up, seen, inflight, table, last, drags>>

(* The d3.json callback: with data, the table is replaced by the flows of *)
(* data[dpid]; on a 404 data is undefined and the callback throws first.  *)
FlowReply(r) ==
  /\ r \in inflight
  /\ inflight' = inflight \ {r}
  /\ table' = IF FlowOwner(r.num) # {} THEN CHOOSE s \in FlowOwner(r.num) : TRUE
              ELSE table
  /\ UNCHANGED <<up, seen, fixed, last, drags>>

(* The controller (spec-modelled): a switch connects or leaves; a node     *)
(* object made on re-entry has no fixed flag.                             *)
SwitchEnter(s) ==
  /\ Churn /\ s \notin up
  /\ up' = up \cup {s} /\ seen' = seen \cup {s} /\ fixed' = fixed \ {s}
  /\ UNCHANGED <<inflight, table, last, drags>>

SwitchLeave(s) ==
  /\ Churn /\ s \in up /\ up' = up \ {s}
  /\ UNCHANGED <<seen, fixed, inflight, table, last, drags>>

Init ==
  /\ up \in SUBSET Switches /\ seen = up
  /\ fixed = {} /\ inflight = {} /\ table = NoTable /\ last = NoTable
  /\ drags = 0

Next ==
  \/ \E s \in Switches : _dragstart(s) \/ dblclick(s) \/ SwitchEnter(s) \/ SwitchLeave(s)
  \/ \E r \in inflight : FlowReply(r)

Spec == Init /\ [][Next]_popupVars

-----------------------------------------------------------------------------
(* The panel only ever shows the flows of a switch that was dragged for   *)
(* the answer that draws it: the number dpid_to_int puts in the URL names *)
(* the dragged switch and no other.                                       *)
ShowsRequestedSwitch ==
  [][table' # table =>
       \E r \in inflight \ inflight' : r.sw = table']_popupVars

(* Once every request is answered, the panel shows the flows of the       *)
(* switch dragged last.                                                   *)
TableMatchesLastDrag ==
  inflight = {} /\ drags > 0 => table = last

=============================================================================
