---------------------------- MODULE MindmapLayout ----------------------------
(***************************************************************************)
(* Where enrichWithDepth puts the nodes of a mindmap: which ones a set of  *)
(* collapsed nodes leaves visible, how deep they are, how much room the    *)
(* subtree of each takes, and the number a collapsed node shows.           *)
(*                                                                         *)
(* A map is a record of nodes and edges, pairs of a source and a target.   *)
(* The maps are trees, as the model is asked for: of other graphs the code *)
(* keeps the first place it finds for a node, which is not modelled.       *)
(***************************************************************************)
EXTENDS Integers, Sequences, SequencesExt, FiniteSets, FiniteSetsExt

Nodes(map) == ToSet(map.nodes)

\* The children of n, in the order of the edges.
ChildrenOf(map, n) ==
    LET from == SelectSeq(map.edges, LAMBDA e : e[1] = n) IN [i \in DOMAIN from |-> from[i][2]]

\* A map in which every node has a source is entered at its first node.
Roots(map) ==
    LET free == SelectSeq(map.nodes, LAMBDA n : \A i \in DOMAIN map.edges : map.edges[i][2] # n)
    IN IF free # <<>> THEN free ELSE SubSeq(map.nodes, 1, 1)

\* The search takes one round for each depth; it does not go below a collapsed node.
VisibleChildren(map, collapsed, n) == IF n \in collapsed THEN <<>> ELSE ChildrenOf(map, n)

Levels(map, collapsed) ==
    LET below(row) == FoldLeft(LAMBDA kids, n : kids \o VisibleChildren(map, collapsed, n), <<>>, row)
    IN FoldLeft(LAMBDA rows, n : Append(rows, below(Last(rows))), <<Roots(map)>>, map.nodes)

\* Every node comes after its parent.
Order(map, collapsed) == FlattenSeq(Levels(map, collapsed))

Visible(map, collapsed) == ToSet(Order(map, collapsed))

DepthOf(map, collapsed) ==
    LET rows == Levels(map, collapsed)
    IN [n \in Visible(map, collapsed) |-> Min({d \in DOMAIN rows : Contains(rows[d], n)}) - 1]

CountDescendants(map) ==
    LET plus(count, n) == FoldLeft(LAMBDA total, c : total + 1 + count[c], 0, ChildrenOf(map, n))
    IN FoldLeft(LAMBDA count, n : [count EXCEPT ![n] = plus(count, n)],
                [n \in Nodes(map) |-> 0], Reverse(Order(map, {})))

V_GAP == 30

NodeHeight(depth) == <<50, 40, 36>>[1 + Min({depth, 2})]

\* The room of subtrees one under the other.
Stacked(height, kids) == FoldLeft(LAMBDA total, c : total + height[c], 0, kids) + (Len(kids) - 1) * V_GAP

\* Mutant: the subtree takes the room of its node.
OwnHeight(map, collapsed) ==
    LET depth == DepthOf(map, collapsed) IN [n \in Visible(map, collapsed) |-> NodeHeight(depth[n])]

SubtreeHeight(map, collapsed) ==
    LET depth == DepthOf(map, collapsed)
        kids(n) == VisibleChildren(map, collapsed, n)
        room(height, n) == Max({NodeHeight(depth[n])} \cup {Stacked(height, k) : k \in {kids(n)} \ {<<>>}})
    IN FoldLeft(LAMBDA height, n : [height EXCEPT ![n] = room(height, n)],
                [n \in DOMAIN depth |-> 0], Reverse(Order(map, collapsed)))

\* The centres of subtrees one under the other, around a centre.
Spread(height, kids, centre, at) ==
    FoldLeft(LAMBDA row, c : [y |-> row.y + height[c] + V_GAP,
                              at |-> [row.at EXCEPT ![c] = row.y + height[c] \div 2]],
             [y |-> centre - Stacked(height, kids) \div 2, at |-> at], kids).at

\* The roots around zero, and the children of each node around it.
Place(map, collapsed) ==
    LET height == SubtreeHeight(map, collapsed)
        around(at, n) == Spread(height, VisibleChildren(map, collapsed, n), at[n], at)
    IN FoldLeft(around, Spread(height, Roots(map), 0, height), Order(map, collapsed))

\* What is drawn: the edges between visible nodes, none below a collapsed one.
DrawnEdges(map, collapsed) ==
    SelectSeq(map.edges, LAMBDA e : {e[1], e[2]} \subseteq Visible(map, collapsed) /\ e[1] \notin collapsed)

\* The number on a collapsed node.
HiddenCount(map, collapsed, n) == IF n \in collapsed THEN CountDescendants(map)[n] ELSE 0

HasChildren(map, n) == ChildrenOf(map, n) # <<>>
-----------------------------------------------------------------------------
\* Visible nodes of one depth never overlap, whatever is collapsed.
Apart(map, collapsed) ==
    LET depth == DepthOf(map, collapsed)
        place == Place(map, collapsed)
    IN \A m, n \in Visible(map, collapsed) :
        m # n /\ depth[m] = depth[n] =>
            LET gap == place[m] - place[n] IN Max({gap, -gap}) >= NodeHeight(depth[m]) + V_GAP

\* The numbers on the collapsed nodes say how many nodes are not drawn.
NothingUncounted(map, collapsed) ==
    LET seen == Visible(map, collapsed)
    IN FoldSet(LAMBDA n, total : total + HiddenCount(map, collapsed, n), 0, seen)
       + Cardinality(seen) = Len(map.nodes)
=============================================================================
