------------------------------- MODULE XanGraph -------------------------------
(***************************************************************************)
(* The graphs of xanlib (xangraph.c): nodes and directed edges with data.  *)
(* An edge is in three tables: the graph's, by its data, and those of its  *)
(* two nodes, by the node at the other end.                                *)
(*                                                                         *)
(* Nodes and edges are numbered in the order of their creation.  Of those  *)
(* with equal data a lookup finds the oldest (module XanHashTable); in the *)
(* tables of a node no key occurs twice, and they are functions here.  An  *)
(* edge that exists already aborts the program: no client asks for one.    *)
(***************************************************************************)
EXTENDS Naturals, FiniteSets, SequencesExt

CONSTANTS
  NodeData, EdgeData,
  MaxGraphNodes, MaxGraphEdges   (* bounds *)

VARIABLES
  nodes,     \* XanGraphNode: data, incomingEdges, outgoingEdges
  edges,     \* XanGraphEdge: data, p1, p2
  connected  \* history: the pairs of nodes that were connected

xanGraphVars == <<nodes, edges, connected>>

NewGraphNode(data) == [data |-> data, incomingEdges |-> <<>>, outgoingEdges |-> <<>>]

\* xanGraph_getNode and xanGraph_getEdge: the oldest, or 0.
Lookup(table, data) == SelectInSeq(table, LAMBDA x : x.data = data)

ExistDirectedEdge(g, n1, n2) == n2 \in DOMAIN g.nodes[n1].outgoingEdges

GetDirectedEdge(g, n1, n2) == g.nodes[n1].outgoingEdges[n2]

\* A table of a node, with edge e to or from node n entered.
Entered(table, n, e) == [m \in DOMAIN table \cup {n} |-> IF m = n THEN e ELSE table[m]]

Connect(g, n1, n2, data) ==
  LET e == Len(g.edges) + 1
  IN [edges |-> Append(g.edges, [data |-> data, p1 |-> n1, p2 |-> n2]),
      nodes |-> [g.nodes EXCEPT ![n1].outgoingEdges = Entered(@, n2, e),
                                ![n2].incomingEdges = Entered(@, n1, e)]]

Graph == [nodes |-> nodes, edges |-> edges]

-----------------------------------------------------------------------------
Init == nodes = <<>> /\ edges = <<>> /\ connected = {}

AddANewNode(data) ==
  /\ Len(nodes) < MaxGraphNodes
  /\ nodes' = Append(nodes, NewGraphNode(data))
  /\ UNCHANGED <<edges, connected>>

AddANewNodeIfNotExist(data) == Lookup(nodes, data) = 0 /\ AddANewNode(data)

AddDirectedEdge(n1, n2, data) ==
  LET g == Connect(Graph, n1, n2, data)
  IN /\ Len(edges) < MaxGraphEdges /\ ~ ExistDirectedEdge(Graph, n1, n2)
     /\ nodes' = g.nodes /\ edges' = g.edges
     /\ connected' = connected \cup {<<n1, n2>>}

\* Not a node with itself: the second edge would be the first.
AddUndirectedEdge(n1, n2, data) ==
  LET g == Connect(Connect(Graph, n1, n2, data), n2, n1, data)
  IN /\ Len(edges) + 2 <= MaxGraphEdges /\ n1 # n2
     /\ ~ ExistDirectedEdge(Graph, n1, n2) /\ ~ ExistDirectedEdge(Graph, n2, n1)
     /\ nodes' = g.nodes /\ edges' = g.edges
     /\ connected' = connected \cup {<<n1, n2>>, <<n2, n1>>}

\* The tables of the nodes, then the edges and the nodes, with their data.
DestroyGraph == nodes' = <<>> /\ edges' = <<>> /\ connected' = {}

Next ==
  \/ \E d \in NodeData : AddANewNode(d) \/ AddANewNodeIfNotExist(d)
  \/ \E n1, n2 \in DOMAIN nodes, d \in EdgeData :
       AddDirectedEdge(n1, n2, d) \/ AddUndirectedEdge(n1, n2, d)
  \/ DestroyGraph

Spec == Init /\ [][Next]_xanGraphVars

-----------------------------------------------------------------------------
(***************************************************************************)
(* The three tables agree: an edge is found from its first node under the  *)
(* second, from its second under the first, and in the graph; each pair    *)
(* that was connected has one, and no other pair has.                      *)
(***************************************************************************)
EdgesAtBothEnds ==
  /\ \A n1, n2 \in DOMAIN nodes :
       /\ ExistDirectedEdge(Graph, n1, n2) <=> <<n1, n2>> \in connected
       /\ n2 \in DOMAIN nodes[n1].outgoingEdges <=> n1 \in DOMAIN nodes[n2].incomingEdges
       /\ ExistDirectedEdge(Graph, n1, n2) =>
            LET e == GetDirectedEdge(Graph, n1, n2)
            IN /\ edges[e].p1 = n1 /\ edges[e].p2 = n2
               /\ nodes[n2].incomingEdges[n1] = e
               /\ Lookup(edges, edges[e].data) \in 1 .. e
  /\ Len(edges) = Cardinality(connected)
===============================================================================
