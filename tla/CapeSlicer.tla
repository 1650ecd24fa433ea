------------------------------ MODULE CapeSlicer ------------------------------
(***************************************************************************)
(* Slicer<NodeT>::slice of Slicing.h: after mark has tagged the nodes,     *)
(* slice(dg, sl_id) removes the root graph's basic blocks whose tag is not *)
(* sl_id (sliceBBlocks), then sweeps the nodes of the root graph           *)
(* (sliceNodes): a node whose tag is not sl_id is deleted, a kept call     *)
(* site recurses into each of its callee graphs not yet in sliced_graphs,  *)
(* and every sweep ends with the program's global nodes.                   *)
(*                                                                         *)
(* A program p is a record                                                 *)
(*   p.graphs  dependence-graph ids     p.root   the graph slice gets      *)
(*   p.nodes   [graphs -> SUBSET node]  (the graph's node map)             *)
(*   p.blocks  [graphs -> SUBSET block] p.bnodes [block -> SUBSET node]    *)
(*   p.subs    [call node -> SUBSET graphs]  (getSubgraphs)                *)
(*   p.globals the global nodes, shared by every graph of the module       *)
(*   p.marks   the taggings mark can leave: records [tag, btag] of the    *)
(*             node and block tags slice finds                            *)
(* Node and block ids are numbers; the node map is walked in ascending     *)
(* order (its keys are addresses, so any fixed order is one the code can  *)
(* take).  removeNode and removeBlock keep their default (always remove).  *)
(***************************************************************************)
EXTENDS Naturals, FiniteSets, Sequences, CapeCFG

CONSTANTS Programs, SlId

VARIABLES
    prog,      \* the module being sliced (never changes)
    tag,       \* node -> slice tag left by mark
    btag,      \* block -> slice tag left by mark
    live,      \* nodes still in their graph's node map (or the global map)
    liveBlks,  \* blocks still in the root graph's CFG
    sliced,    \* sliced_graphs
    stack,     \* active sliceNodes calls, innermost last: [g, todo, subs]
    phase,     \* "blocks" (in sliceBBlocks), "nodes" (in sliceNodes), "done"
    stats      \* SlicerStatistics

vars == <<prog, tag, btag, live, liveBlks, sliced, stack, phase, stats>>

AllNodes(p) == UNION {p.nodes[g] : g \in p.graphs} \cup p.globals
AllBlocks(p) == UNION {p.blocks[g] : g \in p.graphs}

\* SlicerStatistics(): every counter starts at zero.
SlicerStatistics == [nodesTotal |-> 0, nodesRemoved |-> 0, blocksRemoved |-> 0]

\* The default backend hooks: every node and block may be removed.
removeNode(n) == TRUE
removeBlock(b) == TRUE

\* Fault-injection variant: call sites are not followed into callees.
getSubgraphsNone(n) == {}
\* n->getSubgraphs(): the callee graphs of a call site.
getSubgraphs(n) == IF n \in DOMAIN prog.subs THEN prog.subs[n] ELSE {}

\* A sliceNodes activation: the graph and its remaining node map entries.
Frame(g, lv) == [g |-> g, todo |-> Ascending(prog.nodes[g] \cap lv), subs |-> {}]

Top == stack[Len(stack)]
SetTop(f) == [stack EXCEPT ![Len(stack)] = f]

\* slice(dg, sl_id) called on the tags the mark calls before it left.
Init ==
    /\ prog \in Programs
    /\ \E t \in prog.marks : tag = t.tag /\ btag = t.btag
    /\ live = AllNodes(prog)
    /\ liveBlks = AllBlocks(prog)
    /\ sliced = {}
    /\ stack = <<>>
    /\ phase = "blocks"
    /\ stats = SlicerStatistics

\* The blocks sliceBBlocks(graph, sl_id) gathers: tag other than sl_id.
doomedBlocks(g) == {b \in prog.blocks[g] \cap liveBlks : btag[b] # SlId}

\* sliceBBlocks(dg, sl_id): count and remove every gathered block with its
\* nodes (blk->remove()), then sliceNodes(dg, sl_id) on the root.
SliceBBlocks ==
    /\ phase = "blocks"
    /\ LET D    == {b \in doomedBlocks(prog.root) : removeBlock(b)}
           gone == UNION {prog.bnodes[b] : b \in D}
           size == Cardinality(UNION {prog.bnodes[b] : b \in doomedBlocks(prog.root)})
       IN  /\ liveBlks' = liveBlks \ D
           /\ live' = live \ gone
           /\ stats' = [stats EXCEPT !.nodesRemoved = @ + size, !.nodesTotal = @ + size,
                                     !.blocksRemoved = @ + Cardinality(doomedBlocks(prog.root))]
           /\ stack' = <<Frame(prog.root, live \ gone)>>
    /\ phase' = "nodes"
    /\ UNCHANGED <<prog, tag, btag, sliced>>

\* sliceNodes, a node whose tag is not slice_id: dg->deleteNode(n).
RemoveNode ==
    /\ phase = "nodes" /\ Top.todo # <<>> /\ Top.subs = {}
    /\ LET n == Head(Top.todo)
       IN  /\ tag[n] # SlId
           /\ live' = IF removeNode(n) THEN live \ {n} ELSE live
    /\ stack' = SetTop([Top EXCEPT !.todo = Tail(@)])
    /\ UNCHANGED <<prog, tag, btag, liveBlks, sliced, phase, stats>>

\* ... a node in the slice: its callee graphs are visited next.
KeepNode ==
    /\ phase = "nodes" /\ Top.todo # <<>> /\ Top.subs = {}
    /\ LET n == Head(Top.todo)
       IN  /\ tag[n] = SlId
           /\ stack' = SetTop([Top EXCEPT !.todo = Tail(@), !.subs = getSubgraphs(n)])
    /\ UNCHANGED <<prog, tag, btag, live, liveBlks, sliced, phase, stats>>

\* ... if (sliced_graphs.insert(sub).second) sliceNodes(sub, slice_id).
EnterSub ==
    /\ phase = "nodes" /\ Top.subs # {}
    /\ \E s \in Top.subs :
          LET rest == SetTop([Top EXCEPT !.subs = @ \ {s}])
          IN  IF s \notin sliced
              THEN /\ sliced' = sliced \cup {s}
                   /\ stack' = Append(rest, Frame(s, live))
              ELSE /\ stack' = rest
                   /\ UNCHANGED sliced
    /\ UNCHANGED <<prog, tag, btag, live, liveBlks, phase, stats>>

\* The end of a sliceNodes call: delete the global nodes not in the
\* slice (dg->deleteGlobalNode) and return to the caller.
SweepGlobals ==
    /\ phase = "nodes" /\ Top.todo = <<>> /\ Top.subs = {}
    /\ live' = live \ {n \in prog.globals : tag[n] # SlId /\ removeNode(n)}
    /\ stack' = Front(stack)
    /\ phase' = IF Len(stack) = 1 THEN "done" ELSE "nodes"
    /\ UNCHANGED <<prog, tag, btag, liveBlks, sliced, stats>>

\* slice returned.
Finished ==
    /\ phase = "done"
    /\ UNCHANGED vars

Next == SliceBBlocks \/ RemoveNode \/ KeepNode \/ EnterSub \/ SweepGlobals \/ Finished

Spec == Init /\ [][Next]_vars

\* Reference: the graphs reached from the root through call sites that
\* carry sl_id, as a closure over the call graph.
KeptCallees(g) ==
    UNION {prog.subs[c] : c \in {n \in prog.nodes[g] \cap DOMAIN prog.subs : tag[n] = SlId}}
RECURSIVE CallClosure(_, _)
CallClosure(front, seen) ==
    LET next == UNION {KeptCallees(g) : g \in front} \ seen
    IN  IF next = {} THEN seen ELSE CallClosure(next, seen \cup next)
SliceReached == CallClosure({prog.root}, {prog.root})

\* Spec 8.2 (slice soundness): when slice returns, the root graph and every
\* graph reached through call sites in the slice hold only nodes tagged
\* sl_id, no global node outside the slice survives, and no node tagged
\* sl_id was deleted, by sliceBBlocks' block removal or by sliceNodes.
SliceSound ==
    phase = "done" =>
        /\ \A g \in SliceReached : \A n \in prog.nodes[g] \cap live : tag[n] = SlId
        /\ \A n \in prog.globals \cap live : tag[n] = SlId
        /\ \A n \in AllNodes(prog) \ live : tag[n] # SlId

==============================================================================
