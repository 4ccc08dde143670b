----------------------------- MODULE TopoClient -----------------------------
(***************************************************************************)
(* The browser side of the SDN topology view, ryu.topology.js: the graph   *)
(* model `topo`, the `rpc` handlers that mutate it, and `elem.update`,     *)
(* which re-seeds the d3 (v3) force layout and joins the SVG elements to   *)
(* the data.  Every handler is one atomic step: the JavaScript event loop  *)
(* runs it to completion, mutation, layout refresh and reply included.     *)
(*                                                                         *)
(* Data abstraction: a switch is its dpid, taken as the number its         *)
(* fixed-width hex string denotes (so `<` on the strings is `<` here).  A  *)
(* link carries one port per (switch, neighbour), so the port numbers of   *)
(* get_link_index's four-way match add nothing to the dpid pair.  Node     *)
(* objects get a serial `obj`, their identity as JavaScript objects.       *)
(* Positions, images and text layout are not modelled.                     *)
(***************************************************************************)
EXTENDS Naturals, Sequences, SequencesExt

CONSTANTS
  DPIDS          \* the switch identifiers that may appear

ASSUME DPIDS \subseteq Nat \ {0}

VARIABLES
  topo,     \* the `topo` object: nodes, node_index, links, root_set, root_set_dij
  elem,     \* the joined SVG elements: lines (id, style) and node labels
  objs,     \* node objects created so far (gives each one its identity)
  unacked   \* handlers that threw before ws.onmessage sent the reply

clientVars == <<topo, elem, objs, unacked>>

Node == [dpid: DPIDS, obj: Nat]
NoNode == [dpid |-> 0, obj |-> 0]

(* A link end as d3 sees it: a number (index into topo.nodes, 1-based      *)
(* here), a node object once force.start has resolved it, or undefined.    *)
Num(i) == [tag |-> "num", idx |-> i, node |-> NoNode]
Obj(n) == [tag |-> "obj", idx |-> 0, node |-> n]
Undefined == [tag |-> "undefined", idx |-> 0, node |-> NoNode]
End == [tag: {"num", "obj", "undefined"}, idx: Nat, node: Node \cup {NoNode}]

Link == [src: DPIDS, dst: DPIDS, source: End, target: End]
Segment == [src: DPIDS, dst: DPIDS]
Style == {"none", "default", "route", "dij"}
Line == [id: DPIDS \X DPIDS, style: Style]
(* A port object: its key (dpid, port_no) is its switch and the peer it   *)
(* faces, and get_ports stamps it with the link it is drawn on.           *)
Port == [dpid: DPIDS, peer: DPIDS, link_idx: Nat, link_dir: {"source", "target"}]

-----------------------------------------------------------------------------
(* Graph model: the methods of `topo`.                                     *)

(* Array.splice coerces the null of a failed lookup to 0: the first slot. *)
SpliceAt(i) == IF i = 0 THEN 1 ELSE i

is_valid_link_reversed(l) == l.src > l.dst

is_valid_link(l) == l.src < l.dst

(* The loop overwrites, so a dpid held twice maps to its last position.   *)
refresh_node_index(nodes) ==
  [d \in {nodes[i].dpid : i \in DOMAIN nodes} |->
     SelectLastInSeq(nodes, LAMBDA n : n.dpid = d)]

get_node_index(nodes, dpid) == SelectInSeq(nodes, LAMBDA n : n.dpid = dpid)

get_link_index(links, l) ==
  SelectInSeq(links, LAMBDA k : k.src = l.src /\ k.dst = l.dst)

(* node_index[dpid]: a number, or undefined for an unknown switch.        *)
IndexOf(t, dpid) ==
  IF dpid \in DOMAIN t.node_index THEN Num(t.node_index[dpid]) ELSE Undefined

(* Mutants: plausible slips in the methods below (used by mutation runs). *)
add_nodes_unindexed(t, ns) == [t EXCEPT !.nodes = @ \o ns]

delete_nodes_unindexed(t, ds) ==
  LET Drop(nodes, d) == RemoveAt(nodes, SpliceAt(get_node_index(nodes, d)))
  IN  [t EXCEPT !.nodes = FoldLeft(Drop, @, ds)]

add_links_unfiltered(t, ls) ==
  LET New(l) == [src |-> l.src, dst |-> l.dst,
                 source |-> IndexOf(t, l.src), target |-> IndexOf(t, l.dst)]
  IN  [t EXCEPT !.links = @ \o [i \in DOMAIN ls |-> New(ls[i])]]

delete_links_unfiltered(t, ls) ==
  LET Drop(links, l) == RemoveAt(links, SpliceAt(get_link_index(links, l)))
  IN  [t EXCEPT !.links = FoldLeft(Drop, @, ls)]

add_nodes(t, ns) ==
  LET nodes == t.nodes \o ns
  IN  [t EXCEPT !.nodes = nodes, !.node_index = refresh_node_index(nodes)]

delete_nodes(t, ds) ==
  LET Drop(nodes, d) == RemoveAt(nodes, SpliceAt(get_node_index(nodes, d)))
      rest == FoldLeft(Drop, t.nodes, ds)
  IN  [t EXCEPT !.nodes = rest, !.node_index = refresh_node_index(rest)]

add_links(t, ls) ==
  LET valid == SelectSeq(ls, is_valid_link)
      New(l) == [src |-> l.src, dst |-> l.dst,
                 source |-> IndexOf(t, l.src), target |-> IndexOf(t, l.dst)]
  IN  [t EXCEPT !.links = @ \o [i \in DOMAIN valid |-> New(valid[i])]]

delete_links(t, ls) ==
  LET Drop(links, l) ==
        IF is_valid_link(l) THEN RemoveAt(links, SpliceAt(get_link_index(links, l)))
                            ELSE links
  IN  [t EXCEPT !.links = FoldLeft(Drop, @, ls)]

add_routelink(t, segs) == [t EXCEPT !.root_set = @ \o segs]

add_routelink_dij(t, segs) == [t EXCEPT !.root_set_dij = @ \o segs]

(* Mutant: the two ends' directions exchanged.                          *)
get_ports_swapped(t) ==
  LET Ends(i) == <<[dpid |-> t.links[i].src, peer |-> t.links[i].dst,
                    link_idx |-> i, link_dir |-> "target"],
                   [dpid |-> t.links[i].dst, peer |-> t.links[i].src,
                    link_idx |-> i, link_dir |-> "source"]>>
      Key(p) == <<p.dpid, p.peer>>
      Push(ps, p) == IF \E j \in DOMAIN ps : Key(ps[j]) = Key(p) THEN ps ELSE Append(ps, p)
  IN  FoldLeft(Push, <<>>, FlattenSeq([i \in DOMAIN t.links |-> Ends(i)]))

(* Each link's source then target port, first occurrence of a key only,   *)
(* stamped with the link's index and the end it is at.                   *)
get_ports(t) ==
  LET Ends(i) == <<[dpid |-> t.links[i].src, peer |-> t.links[i].dst,
                    link_idx |-> i, link_dir |-> "source"],
                   [dpid |-> t.links[i].dst, peer |-> t.links[i].src,
                    link_idx |-> i, link_dir |-> "target"]>>
      Key(p) == <<p.dpid, p.peer>>
      Push(ps, p) == IF \E j \in DOMAIN ps : Key(ps[j]) = Key(p) THEN ps ELSE Append(ps, p)
  IN  FoldLeft(Push, <<>>, FlattenSeq([i \in DOMAIN t.links |-> Ends(i)]))

(* The two link ends get_port_point reads, the one the port is drawn next *)
(* to (weight 0.88) first; undefined when links[link_idx] is.            *)
get_port_point(t, d) ==
  IF d.link_idx \notin DOMAIN t.links THEN <<Undefined, Undefined>>
  ELSE LET link == t.links[d.link_idx]
       IN  IF d.link_dir = "target" THEN <<link.target, link.source>>
                                    ELSE <<link.source, link.target>>

-----------------------------------------------------------------------------
(* Layout: d3 v3 force.start() resolves numeric link ends against the     *)
(* node array, link by link, and throws a TypeError (++undefined.weight)  *)
(* at the first link with an end it cannot resolve; links before it stay  *)
(* resolved, links after it keep their numbers.                           *)

Resolve(t, e) ==
  IF e.tag = "num"
  THEN IF e.idx \in DOMAIN t.nodes THEN Obj(t.nodes[e.idx]) ELSE Undefined
  ELSE e

Resolved(t, l) == [l EXCEPT !.source = Resolve(t, @), !.target = Resolve(t, @)]

FirstUnresolvable(t) ==
  SelectInSeq(t.links, LAMBDA l : Undefined \in {Resolved(t, l).source,
                                                 Resolved(t, l).target})

(* Mutant: elem.update calling start() without .links(topo.links).     *)
force_start_nolinks(t) == t

force_start(t) ==
  LET bad == FirstUnresolvable(t)
  IN  [t EXCEPT !.links = [i \in DOMAIN @ |->
                             IF bad = 0 \/ i <= bad THEN Resolved(t, @[i]) ELSE @[i]]]

StartSucceeds(t) == FirstUnresolvable(t) = 0

(* The recolouring loop of elem.update for a link with ids `id`: the      *)
(* primary set is tried first, then a hit in the secondary set            *)
(* overwrites it; a set primary set is needed for any colour at all.      *)
OnRoute(segs, id) ==
  \E i \in DOMAIN segs : <<segs[i].src, segs[i].dst>> \in {id, <<id[2], id[1]>>}

LinkStyle(t, id) ==
  IF t.root_set = <<>> THEN "default"
  ELSE IF OnRoute(t.root_set_dij, id) THEN "dij"
  ELSE IF OnRoute(t.root_set, id) THEN "route"
  ELSE "default"

LinkId(l) == <<l.src, l.dst>>

(* elem.update after a successful start.  The joins have no key function: *)
(* data are matched to elements by position, and only entering elements   *)
(* get an id ("p" + source.dpid + target.dpid) or a label.  Colours are   *)
(* written through d3.select("#" + id), i.e. the first element with it.   *)
(* The port elements are all removed and made anew from get_ports.        *)
ElemUpdate(t, el) ==
  LET lines == [i \in DOMAIN t.links |->
                  IF i <= Len(el.lines) THEN el.lines[i]
                  ELSE [id |-> <<t.links[i].source.node.dpid,
                                 t.links[i].target.node.dpid>>,
                        style |-> "none"]]
      ids == {LinkId(t.links[j]) : j \in DOMAIN t.links}
      Selected(k) == SelectInSeq(lines, LAMBDA e : e.id = lines[k].id) = k
  IN  [lines  |-> [k \in DOMAIN lines |->
                     IF lines[k].id \in ids /\ Selected(k)
                     THEN [lines[k] EXCEPT !.style = LinkStyle(t, lines[k].id)]
                     ELSE lines[k]],
       labels |-> [i \in DOMAIN t.nodes |->
                     IF i <= Len(el.labels) THEN el.labels[i] ELSE t.nodes[i].dpid],
       ports  |-> get_ports(t)]

(* topo after a mutation `t` followed by elem.update(): the start either  *)
(* succeeds and the elements are joined, or throws and nothing is drawn.  *)
Update(t) ==
  /\ topo' = force_start(t)
  /\ elem' = IF StartSucceeds(t) THEN ElemUpdate(force_start(t), elem) ELSE elem

(* The reply of ws.onmessage is only sent when the handler returned.      *)
Reply(t) == unacked' = IF StartSucceeds(t) THEN unacked ELSE unacked + 1

-----------------------------------------------------------------------------
(* The rpc handlers, each with the elem.update() and reply that follow.   *)

NewNode(d) == [dpid |-> d, obj |-> objs + 1]

event_switch_enter(d) ==
  LET t == add_nodes(topo, <<NewNode(d)>>)
  IN  Update(t) /\ Reply(t) /\ objs' = objs + 1

event_switch_leave(d) ==
  LET t == delete_nodes(topo, <<d>>)
  IN  Update(t) /\ Reply(t) /\ UNCHANGED objs

event_link_add(l) ==
  LET t == add_links(topo, <<l>>)
  IN  Update(t) /\ Reply(t) /\ UNCHANGED objs

event_link_delete(l) ==
  LET t == delete_links(topo, <<l>>)
  IN  Update(t) /\ Reply(t) /\ UNCHANGED objs

event_route_set(segs) ==
  LET t == add_routelink(topo, segs)
  IN  Update(t) /\ Reply(t) /\ UNCHANGED objs

event_route_set_dij(segs) ==
  LET t == add_routelink_dij(topo, segs)
  IN  Update(t) /\ Reply(t) /\ UNCHANGED objs

(* initialize_topology's callback: topo.initialize(snapshot) then         *)
(* elem.update(); it answers no request, so there is no reply.            *)
initialize(switches, links) ==
  LET ns == [i \in DOMAIN switches |-> [dpid |-> switches[i], obj |-> objs + i]]
      t == add_links(add_nodes(topo, ns), links)
  IN  Update(t) /\ objs' = objs + Len(switches) /\ UNCHANGED unacked

ClientInit ==
  /\ topo = [nodes |-> <<>>, node_index |-> [d \in {} |-> 0], links |-> <<>>,
             root_set |-> <<>>, root_set_dij |-> <<>>]
  /\ elem = [lines |-> <<>>, labels |-> <<>>, ports |-> <<>>]
  /\ objs = 0
  /\ unacked = 0

ClientTypeOK ==
  /\ topo.nodes \in Seq(Node)
  /\ topo.links \in Seq(Link)
  /\ topo.root_set \in Seq(Segment)
  /\ topo.root_set_dij \in Seq(Segment)
  /\ elem.lines \in Seq(Line)
  /\ elem.labels \in Seq(DPIDS)
  /\ elem.ports \in Seq(Port)
  /\ objs \in Nat
  /\ unacked \in Nat
=============================================================================
