------------------------------ MODULE TopoSync ------------------------------
(***************************************************************************)
(* The topology view and what feeds it.  The controller (Ryu's topology   *)
(* websocket app, not part of ryu.topology.js) owns the real topology and *)
(* pushes one JSON-RPC event per change over the websocket, in order, to  *)
(* a page whose socket is open.  At load the page opens the socket (line  *)
(* 14) and, independently, fetches /switches and then /links, and loads   *)
(* them with topo.initialize; events are handled whenever they arrive.    *)
(* Nothing reconciles the snapshot with the event stream.                 *)
(***************************************************************************)
EXTENDS TopoClient, FiniteSets

CONSTANTS
  MaxChanges,           \* bound on topology changes and route events
  ChangesDuringStartup, \* may the controller change while the page loads?
  UnknownMethods        \* event methods the controller may send that rpc lacks

ASSUME MaxChanges \in Nat /\ ChangesDuringStartup \in BOOLEAN

(* The methods the rpc table has a handler for.                          *)
KnownMethods == {"switch_enter", "switch_leave", "link_add", "link_delete",
                 "route_set", "route_set_dij"}

ASSUME UnknownMethods \cap KnownMethods = {}

VARIABLES
  up,        \* switches connected to the controller
  clinks,    \* directed links the controller has discovered, <<src, dst>>
  chan,      \* events sent on the websocket and not yet handled, in order
  wsOpen,    \* has the page's websocket connected?
  phase,     \* initialize_topology: "switches", "links", "init", "done"
  snapSw,    \* the /v1.0/topology/switches answer
  snapLinks, \* the /v1.0/topology/links answer
  changes    \* controller changes so far

envVars == <<up, clinks, chan, wsOpen, phase, snapSw, snapLinks, changes>>
vars == <<clientVars, envVars>>

Msg(kind, a, b) == [kind |-> kind, src |-> a, dst |-> b]
Seg(p) == [src |-> p[1], dst |-> p[2]]

(* The order of a set as some list; the controller's order is arbitrary.  *)
RECURSIVE AsSeq(_)
AsSeq(S) == IF S = {} THEN <<>>
            ELSE LET x == CHOOSE x \in S : TRUE IN <<x>> \o AsSeq(S \ {x})

-----------------------------------------------------------------------------
(* The controller (spec-modelled: its code is not in this source tree).   *)

(* An event reaches the page only if its socket is already connected.     *)
Notify(msgs) == chan' = IF wsOpen THEN chan \o msgs ELSE chan

CanChange ==
  /\ changes < MaxChanges
  /\ ChangesDuringStartup \/ (phase = "done" /\ wsOpen)

Change == CanChange /\ changes' = changes + 1

SwitchEnter(d) ==
  /\ Change /\ d \notin up
  /\ up' = up \cup {d}
  /\ Notify(<<Msg("switch_enter", d, d)>>)
  /\ UNCHANGED <<clinks, wsOpen, phase, snapSw, snapLinks, clientVars>>

(* A leaving switch takes its links with it: the leave event is followed  *)
(* by a delete event for each of its links.                               *)
SwitchLeave(d) ==
  /\ Change /\ d \in up
  /\ LET gone == {l \in clinks : d \in {l[1], l[2]}}
     IN  /\ up' = up \ {d}
         /\ clinks' = clinks \ gone
         /\ Notify(<<Msg("switch_leave", d, d)>> \o
                   [i \in 1..Cardinality(gone) |->
                      Msg("link_delete", AsSeq(gone)[i][1], AsSeq(gone)[i][2])])
  /\ UNCHANGED <<wsOpen, phase, snapSw, snapLinks, clientVars>>

LinkAdd(a, b) ==
  /\ Change /\ {a, b} \subseteq up /\ a # b /\ <<a, b>> \notin clinks
  /\ clinks' = clinks \cup {<<a, b>>}
  /\ Notify(<<Msg("link_add", a, b)>>)
  /\ UNCHANGED <<up, wsOpen, phase, snapSw, snapLinks, clientVars>>

LinkDelete(a, b) ==
  /\ Change /\ <<a, b>> \in clinks
  /\ clinks' = clinks \ {<<a, b>>}
  /\ Notify(<<Msg("link_delete", a, b)>>)
  /\ UNCHANGED <<up, wsOpen, phase, snapSw, snapLinks, clientVars>>

(* A computed route, one hop along a discovered link, for either set.     *)
RouteSet(kind, a, b) ==
  /\ Change /\ <<a, b>> \in clinks
  /\ Notify(<<Msg(kind, a, b)>>)
  /\ UNCHANGED <<up, clinks, wsOpen, phase, snapSw, snapLinks, clientVars>>

(* An event of a method the page has no handler for (Ryu's topology app  *)
(* also reports hosts, as event_host_add); it changes nothing shown here. *)
OtherEvent(kind, d) ==
  /\ Change /\ kind \in UnknownMethods
  /\ Notify(<<Msg(kind, d, d)>>)
  /\ UNCHANGED <<up, clinks, wsOpen, phase, snapSw, snapLinks, clientVars>>

(* Ryu's RPC client waits for the reply to each call before it sends the  *)
(* next event (spec section 6: one exchange per message, no pipelining),  *)
(* with no timeout: a call the page never answers holds back every later  *)
(* event to this page, which stay queued in chan.                         *)
Unanswered == unacked > 0

-----------------------------------------------------------------------------
(* The page.                                                              *)

WsConnect ==
  /\ ~wsOpen /\ wsOpen' = TRUE
  /\ UNCHANGED <<up, clinks, chan, phase, snapSw, snapLinks, changes, clientVars>>

(* d3.json("/v1.0/topology/switches"): the answer is the controller's     *)
(* state when it is served; its callback then requests the links.         *)
FetchSwitches ==
  /\ phase = "switches" /\ phase' = "links"
  /\ snapSw' = AsSeq(up)
  /\ UNCHANGED <<up, clinks, chan, wsOpen, snapLinks, changes, clientVars>>

FetchLinks ==
  /\ phase = "links" /\ phase' = "init"
  /\ snapLinks' = [i \in 1..Cardinality(clinks) |-> Seg(AsSeq(clinks)[i])]
  /\ UNCHANGED <<up, clinks, chan, wsOpen, snapSw, changes, clientVars>>

(* The links callback: topo.initialize({switches, links}); elem.update(). *)
LoadSnapshot ==
  /\ phase = "init" /\ phase' = "done"
  /\ initialize(snapSw, snapLinks)
  /\ UNCHANGED <<up, clinks, chan, wsOpen, snapSw, snapLinks, changes>>

(* ws.onmessage: rpc[data.method](data.params), then the reply.  For a    *)
(* method rpc lacks, the lookup gives undefined and calling it throws      *)
(* before anything changes or any reply is sent; the socket stays open.   *)
Deliver ==
  /\ chan # <<>> /\ ~Unanswered
  /\ LET m == Head(chan) IN
       \/ m.kind = "switch_enter" /\ event_switch_enter(m.src)
       \/ m.kind = "switch_leave" /\ event_switch_leave(m.src)
       \/ m.kind = "link_add" /\ event_link_add(Seg(<<m.src, m.dst>>))
       \/ m.kind = "link_delete" /\ event_link_delete(Seg(<<m.src, m.dst>>))
       \/ m.kind = "route_set" /\ event_route_set(<<Seg(<<m.src, m.dst>>)>>)
       \/ m.kind = "route_set_dij" /\ event_route_set_dij(<<Seg(<<m.src, m.dst>>)>>)
       \/ m.kind \notin KnownMethods /\ unacked' = unacked + 1
                                      /\ UNCHANGED <<topo, elem, objs>>
  /\ chan' = Tail(chan)
  /\ UNCHANGED <<up, clinks, wsOpen, phase, snapSw, snapLinks, changes>>

-----------------------------------------------------------------------------
Init ==
  /\ ClientInit
  /\ up \in SUBSET DPIDS
  /\ clinks \in SUBSET {p \in up \X up : p[1] # p[2]}
  /\ chan = <<>>
  /\ wsOpen = FALSE
  /\ phase = "switches"
  /\ snapSw = <<>>
  /\ snapLinks = <<>>
  /\ changes = 0

Next ==
  \/ \E d \in DPIDS : SwitchEnter(d) \/ SwitchLeave(d)
  \/ \E a, b \in DPIDS : LinkAdd(a, b) \/ LinkDelete(a, b)
  \/ \E a, b \in DPIDS : RouteSet("route_set", a, b) \/ RouteSet("route_set_dij", a, b)
  \/ \E k \in UnknownMethods, d \in DPIDS : OtherEvent(k, d)
  \/ WsConnect \/ FetchSwitches \/ FetchLinks \/ LoadSnapshot
  \/ Deliver

Spec == Init /\ [][Next]_vars

(* The event loop runs every queued callback: the socket's open and        *)
(* message events and the answers of the two GETs are each eventually     *)
(* handled once they are pending.  The controller is not obliged to act.  *)
(* Weak fairness of each page action.  For the two that run rpc handlers  *)
(* and elem.update it is written with the action's guard in place of      *)
(* ENABLED <<A>>_vars: each is its guard conjoined with total,             *)
(* state-changing steps (every handler returns), so the two are equal,    *)
(* and TLC evaluates the guard far faster than ENABLED of the handlers.   *)
Fairness ==
  /\ WF_vars(WsConnect)
  /\ WF_vars(FetchSwitches)
  /\ WF_vars(FetchLinks)
  /\ <>[](phase = "init") => []<><<LoadSnapshot>>_vars
  /\ <>[](chan # <<>> /\ ~Unanswered) => []<><<Deliver>>_vars

FairSpec == Spec /\ Fairness

-----------------------------------------------------------------------------
(* Type invariant.  Among others: every line entering the join gets an id *)
(* made of two switch dpids, i.e. force.start had resolved both ends of   *)
(* its link to node objects (not "p" + undefined + undefined).            *)
TypeOK ==
  /\ ClientTypeOK
  /\ up \subseteq DPIDS
  /\ clinks \subseteq DPIDS \X DPIDS
  /\ chan \in Seq([kind: KnownMethods \cup UnknownMethods, src: DPIDS, dst: DPIDS])
  /\ phase \in {"switches", "links", "init", "done"}
  /\ changes \in 0..MaxChanges

Quiescent == phase = "done" /\ chan = <<>>
CanonLinks == {l \in clinks : l[1] < l[2]}

(* Once the snapshot is loaded and every event handled, the view shows    *)
(* each connected switch exactly once and each discovered link exactly    *)
(* once, in its canonical direction: add_nodes, delete_nodes, add_links   *)
(* and delete_links together keep topo in step with the controller.       *)
MirrorsController ==
  Quiescent =>
    /\ Len(topo.nodes) = Cardinality(up)
    /\ {topo.nodes[i].dpid : i \in DOMAIN topo.nodes} = up
    /\ Len(topo.links) = Cardinality(CanonLinks)
    /\ {LinkId(topo.links[i]) : i \in DOMAIN topo.links} = CanonLinks

(* Every stored link is drawn between the node objects of its own two     *)
(* switches (the index add_links read from node_index was not stale), and *)
(* such an object is still in the simulation unless the link's delete     *)
(* event is already on its way.                                           *)
LinkEndsLive ==
  \A i \in DOMAIN topo.links :
    LET l == topo.links[i] IN
    \A e \in {<<l.source, l.src>>, <<l.target, l.dst>>} :
      /\ e[1].tag = "obj"
      /\ e[1].node.dpid = e[2]
      /\ \/ e[1].node \in ToSet(topo.nodes)
         \/ Contains(chan, Msg("link_delete", l.src, l.dst))

(* Every websocket event gets its reply: no handler dies in force.start   *)
(* on a link end node_index could not resolve.                            *)
EveryEventAcknowledged == unacked = 0

(* Every port element the tick moves is placed by get_port_point next to *)
(* the node object of its own switch, on the line toward the peer it      *)
(* faces: the link_idx that get_ports stamped at the last elem.update     *)
(* still names that port's link in topo.links.                            *)
PortsOnOwnLinks ==
  \A k \in DOMAIN elem.ports :
    LET d == elem.ports[k]
        p == get_port_point(topo, d)
    IN  /\ p[1].tag = "obj" /\ p[1].node.dpid = d.dpid
        /\ p[2].tag = "obj" /\ p[2].node.dpid = d.peer

LinkCount(links, p) == Cardinality({i \in DOMAIN links : LinkId(links[i]) = p})

(* A switch-leave removes only a node of that switch and a link-delete    *)
(* only a link with that (src, dst): an unmatched delete is a no-op.      *)
RemovesOnlyNamed ==
  [][ /\ \A n \in ToSet(topo.nodes) \ ToSet(topo'.nodes) :
           Head(chan) = Msg("switch_leave", n.dpid, n.dpid)
      /\ \A p \in DPIDS \X DPIDS :
           LinkCount(topo'.links, p) < LinkCount(topo.links, p) =>
             Head(chan) = Msg("link_delete", p[1], p[2]) ]_topo

(* Each line is drawn (by the tick) for the link at its position in      *)
(* topo.links; it shows the colour elem.update's loop computes for that   *)
(* link, whatever links were deleted before it.                           *)
RouteColorsFaithful ==
  \A k \in DOMAIN elem.lines :
    k <= Len(topo.links) =>
      elem.lines[k].style = LinkStyle(topo, LinkId(topo.links[k]))

(* Each node element is moved (by the tick) with the node at its         *)
(* position in topo.nodes and labelled with that node's dpid.             *)
NodeLabelsFaithful ==
  \A i \in DOMAIN elem.labels :
    i <= Len(topo.nodes) => elem.labels[i] = topo.nodes[i].dpid

(* A line that draws the link it is named after and lies on a route shows *)
(* the colour of spec section 4.4: the route colour when a primary route   *)
(* uses the link, whether or not the secondary route also does, and the   *)
(* alternate colour when only a secondary route uses it, whether or not a *)
(* primary route exists.  The code's recolouring loop decides it.         *)
RouteColorsAsSpecified ==
  \A k \in DOMAIN elem.lines :
    LET id == elem.lines[k].id IN
    k <= Len(topo.links) /\ id = LinkId(topo.links[k])
      /\ (OnRoute(topo.root_set, id) \/ OnRoute(topo.root_set_dij, id))
      => elem.lines[k].style = IF OnRoute(topo.root_set, id) THEN "route" ELSE "dij"

-----------------------------------------------------------------------------
(* Refinement: the page's arrays, read as sets, implement TopoView.       *)
View == INSTANCE TopoView WITH
          pending <- chan,
          shown   <- {topo.nodes[i].dpid : i \in DOMAIN topo.nodes},
          drawn   <- {LinkId(topo.links[i]) : i \in DOMAIN topo.links},
          loaded  <- phase = "done"

(* Each handler changes the view exactly as its event says (a leave       *)
(* removes that switch, a delete that link, an add of the reversed        *)
(* direction nothing), the snapshot load shows the controller's topology, *)
(* and the controller's events describe its changes.                     *)
ImplementsView == View!Spec

(* The page shows the controller's topology: one node per connected      *)
(* switch, one line per canonical link, nothing queued.                   *)
Mirrored ==
  /\ Quiescent
  /\ Len(topo.nodes) = Cardinality(up)
  /\ {topo.nodes[i].dpid : i \in DOMAIN topo.nodes} = up
  /\ Len(topo.links) = Cardinality(CanonLinks)
  /\ {LinkId(topo.links[i]) : i \in DOMAIN topo.links} = CanonLinks

Converges == <>[]Mirrored

=============================================================================
