------------------------------ MODULE CapeCFG ------------------------------
(***************************************************************************)
(* The control-flow facts the instrumenter reads from the dependence graph *)
(* of one function, as operators over a program record p:                  *)
(*                                                                         *)
(*   p.blocks  set of basic-block ids          p.entry  the entry block    *)
(*   p.succ    [blocks -> SUBSET blocks]       p.code   [blocks -> Seq]    *)
(*   p.op      [Nodes -> opcode string]                                    *)
(*                                                                         *)
(* Dominators, post-dominators and control dependence are computed by     *)
(* LLVM and dg (PostDominators.cpp copies LLVM's trees into the blocks);   *)
(* they are given here by their textbook definitions.  The loop discovery  *)
(* used by the marking passes (getBrLoopBlocks, collectLoopBlks,           *)
(* isCondExit) is translated from Slicing.h.                               *)
(***************************************************************************)
EXTENDS Naturals, Sequences, FiniteSets, SequencesExt

\* The dominator-tree root dg creates for a function (droot) and the
\* virtual post-dominator-tree root (root): blocks without a node.
DRoot == -1
PRoot == 0
NoBlock == -2

Nodes(p) == UNION {ToSet(p.code[b]) : b \in p.blocks}
BlockOf(p, n) == CHOOSE b \in p.blocks : n \in ToSet(p.code[b])
\* getFirstNode / getLastNode of a block; the two roots hold no node.
FirstNode(p, b) == IF b \in p.blocks THEN Head(p.code[b]) ELSE 0
LastNode(p, b) == IF b \in p.blocks THEN Last(p.code[b]) ELSE 0
\* A set of node numbers as the ascending sequence (address order).
Ascending(S) ==
    [i \in 1..Cardinality(S) |-> CHOOSE x \in S : Cardinality({y \in S : y < x}) = i - 1]
Preds(p, b) == {a \in p.blocks : b \in p.succ[a]}
Exits(p) == {b \in p.blocks : p.succ[b] = {}}

\* Blocks reachable from the set front along successor edges, never
\* entering a block of avoid.
RECURSIVE ReachAvoid(_, _, _, _)
ReachAvoid(p, front, seen, avoid) ==
    LET next == UNION {p.succ[b] : b \in front} \ (seen \cup avoid)
    IN  IF next = {} THEN seen ELSE ReachAvoid(p, next, seen \cup next, avoid)

\* d dominates b: every path from the entry to b passes d.
Dom(p, d, b) ==
    d = b \/ d = p.entry \/ b \notin ReachAvoid(p, {p.entry}, {p.entry}, {d})
SDoms(p, b) == {d \in p.blocks \ {b} : Dom(p, d, b)}

\* BBlock::getIDom: the entry block's dominator is droot, droot has none.
IDom(p, b) ==
    CASE b = p.entry    -> DRoot
      [] b \in p.blocks -> CHOOSE d \in SDoms(p, b) : \A e \in SDoms(p, b) : Dom(p, e, d)
      [] OTHER          -> NoBlock

\* d post-dominates b: no path from b reaches a function exit avoiding d.
PDom(p, d, b) == d = b \/ ReachAvoid(p, {b}, {b}, {d}) \cap Exits(p) = {}
SPDoms(p, b) == {d \in p.blocks \ {b} : PDom(p, d, b)}

\* BBlock::getIPostDom as set by computePostDominators: the nearest strict
\* post-dominator, or the virtual root when LLVM's tree gives none.
IPostDom(p, b) ==
    IF SPDoms(p, b) = {} THEN PRoot
    ELSE CHOOSE d \in SPDoms(p, b) : \A e \in SPDoms(p, b) : PDom(p, e, d)

\* BBlock::revControlDependence: the blocks b is control dependent on
\* (post-dominance frontier of b).
RevCD(p, b) ==
    {a \in p.blocks : /\ \E s \in p.succ[a] : PDom(p, b, s)
                      /\ ~(a # b /\ PDom(p, b, a))}

\* computePostDominators: stores in every block its immediate dominator
\* (setIDom), immediate post-dominator (setIPostDom) and post-dominance
\* frontier (revControlDependence), once per function; the passes read
\* them back from the blocks.  The two roots have no dominator.
computePostDominators(p) ==
    p @@ [idom  |-> [b \in p.blocks \cup {DRoot, PRoot} |-> IDom(p, b)],
          ipdom |-> [b \in p.blocks |-> IPostDom(p, b)],
          pdf   |-> [b \in p.blocks |-> RevCD(p, b)]]

-----------------------------------------------------------------------------
(* Loop discovery of markSlice (Slicing.h).                                *)

\* collectLoopBlks(header, hpred): the header, the back-edge source and
\* every block that reaches the source backwards without crossing header.
collectLoopBlks(p, header, hpred) ==
    LET RECURSIVE Back(_, _)
        Back(front, seen) ==
            LET next == UNION {Preds(p, b) : b \in front} \ seen
            IN  IF next = {} THEN seen ELSE Back(next, seen \cup next)
    IN  Back({hpred}, {header, hpred})

\* A predecessor pred of blk is a back-edge source when blk occurs on the
\* idom chain that starts at pred's idom (so a self loop is never one);
\* the walk stops at droot, whose getIDom is NULL.  p is a program with
\* its trees computed (computePostDominators).
RECURSIVE IsBackEdge(_, _, _)
IsBackEdge(p, pred, blk) ==
    LET d == p.idom[pred]
    IN  d \in p.blocks /\ (d = blk \/ IsBackEdge(p, d, blk))

\* getBrLoopBlocks(ret, brBlk, data, header): walks the idom chain from
\* brBlk; at the first block with a back edge it collects the loop of the
\* first back-edge predecessor met (predecessors are a set ordered by
\* address, so any of them may come first) and returns, keeping the loop
\* only if it contains brBlk.  The result is the set of possible
\* <<loop blocks, header>> outcomes; <<{}, NoBlock>> when no loop is kept.
RECURSIVE BrLoopFrom(_, _, _)
BrLoopFrom(p, brBlk, blk) ==
    IF blk \notin p.blocks THEN {<<{}, NoBlock>>}
    ELSE LET bes == {q \in Preds(p, blk) : IsBackEdge(p, q, blk)}
         IN  IF bes = {} THEN BrLoopFrom(p, brBlk, p.idom[blk])
             ELSE {IF brBlk \in collectLoopBlks(p, blk, q)
                   THEN <<collectLoopBlks(p, blk, q), blk>>
                   ELSE <<{}, NoBlock>> : q \in bes}
getBrLoopBlocks(p, brBlk) == BrLoopFrom(p, brBlk, brBlk)

\* isCondExit(bb, loop): some successor of bb leaves the loop.
isCondExit(p, bb, loop) == \E s \in p.succ[bb] : s \notin loop

\* The condition markSlice tests on a branch: blks.count(B) && isCondExit.
IsLoopExit(p, B, lp) == B \in lp[1] /\ isCondExit(p, B, lp[1])
=============================================================================
