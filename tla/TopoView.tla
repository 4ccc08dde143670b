------------------------------ MODULE TopoView ------------------------------
(***************************************************************************)
(* What the topology page promises, as sets: once the snapshot is loaded,  *)
(* the view is that snapshot with every later controller event applied in *)
(* order, a switch event to the set of shown switches and a link event to *)
(* the set of drawn links (only the canonical direction, src < dst, is     *)
(* drawn).  The controller's events describe its own changes: folding      *)
(* them into its state gives its new state.  The abstraction keeps none   *)
(* of the page's arrays, indices or elements.                             *)
(***************************************************************************)
EXTENDS Naturals, Sequences, SequencesExt

CONSTANTS DPIDS

VARIABLES
  up,       \* switches connected to the controller
  clinks,   \* directed links the controller has discovered
  pending,  \* events sent to the page and not yet applied, in order
  shown,    \* switches the view shows
  drawn,    \* links the view draws, as <<src, dst>> with src < dst
  loaded    \* has the snapshot been loaded?

viewVars == <<up, clinks, pending, shown, drawn, loaded>>

Canon(ls) == {l \in ls : l[1] < l[2]}

(* A controller event's effect on the controller's own state.            *)
ApplyCtl(s, m) ==
  CASE m.kind = "switch_enter" -> <<s[1] \cup {m.src}, s[2]>>
    [] m.kind = "switch_leave" -> <<s[1] \ {m.src}, s[2]>>
    [] m.kind = "link_add"     -> <<s[1], s[2] \cup {<<m.src, m.dst>>}>>
    [] m.kind = "link_delete"  -> <<s[1], s[2] \ {<<m.src, m.dst>>}>>
    [] OTHER                   -> s

(* The same event's effect on the view (the rpc handler's intent).       *)
ApplyView(v, m) ==
  CASE m.kind = "switch_enter" -> <<v[1] \cup {m.src}, v[2]>>
    [] m.kind = "switch_leave" -> <<v[1] \ {m.src}, v[2]>>
    [] m.kind = "link_add"     -> <<v[1], v[2] \cup Canon({<<m.src, m.dst>>})>>
    [] m.kind = "link_delete"  -> <<v[1], v[2] \ {<<m.src, m.dst>>}>>
    [] OTHER                   -> v

(* initialize_topology: the view becomes the controller's topology.      *)
Load ==
  /\ ~loaded /\ loaded' = TRUE
  /\ shown' = up /\ drawn' = Canon(clinks)
  /\ UNCHANGED <<up, clinks, pending>>

(* The controller changes and appends the events that describe the       *)
(* change; it is quiet until the page has loaded.                        *)
Control ==
  /\ loaded
  /\ IsPrefix(pending, pending') /\ pending' # pending
  /\ LET s == FoldLeft(ApplyCtl, <<up, clinks>>,
                       SubSeq(pending', Len(pending) + 1, Len(pending')))
     IN  up' = s[1] /\ clinks' = s[2]
  /\ UNCHANGED <<shown, drawn, loaded>>

(* ws.onmessage: the oldest event is applied to the view.                *)
Handle ==
  /\ pending # <<>>
  /\ LET v == ApplyView(<<shown, drawn>>, Head(pending))
     IN  shown' = v[1] /\ drawn' = v[2]
  /\ pending' = Tail(pending)
  /\ UNCHANGED <<up, clinks, loaded>>

Init ==
  /\ up \subseteq DPIDS /\ clinks \subseteq (up \X up)
  /\ pending = <<>> /\ shown = {} /\ drawn = {} /\ loaded = FALSE

Next == Load \/ Control \/ Handle

Spec == Init /\ [][Next]_viewVars

=============================================================================
