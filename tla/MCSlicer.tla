------------------------------ MODULE MCSlicer ------------------------------
(***************************************************************************)
(* Inputs for CapeSlicer: the dependence graphs of a module, reduced to    *)
(* the nodes slice tells apart (a node, its block, whether it calls a      *)
(* function of the module), and the tags mark leaves on them.              *)
(***************************************************************************)
EXTENDS CapeSlicer

\* What pass 0 of markSlice leaves on a set m of marked nodes:
\* n->setSlice(slice_id) and, with it, B->setSlice(slice_id) on the
\* node's block, so a block carries sl_id exactly when one of its nodes does.
Pass0Tagging(nodes, bnodes, m) ==
    [tag  |-> [n \in nodes |-> IF n \in m THEN SlId ELSE 0],
     btag |-> [b \in DOMAIN bnodes |-> IF bnodes[b] \cap m # {} THEN SlId ELSE 0]]

\* A call graph with the shapes sliceNodes' recursion meets: main calls f
\* from two sites, f calls g, g calls itself; one global.  Every set of
\* marked nodes is an input.
\*   main (1): entry 1; B1: 2 call f  3 condbr; B2: 4 call f; B3: 5 ret
\*   f (2):    entry 6; B4: 7 call g  8 ret
\*   g (3):    entry 9; B5: 10 call g  11 ret
\*   global 12
CallsBnodes == <<{2, 3}, {4}, {5}, {7, 8}, {10, 11}>>
CALLS ==
    [graphs  |-> {1, 2, 3}, root |-> 1,
     nodes   |-> <<1..5, 6..8, 9..11>>,
     blocks  |-> <<{1, 2, 3}, {4}, {5}>>,
     bnodes  |-> CallsBnodes,
     subs    |-> (2 :> {2}) @@ (4 :> {2}) @@ (7 :> {3}) @@ (10 :> {3}),
     globals |-> {12},
     marks   |-> {Pass0Tagging(1..12, CallsBnodes, m) : m \in SUBSET (1..12)}]

\* rsa.c's exp as MCCape.RSA numbers it (one graph, the calls to square
\* and multiply leave it):
\*   B1: 1 alloca res  2 br   B2: 3 condbr   B3: 4 load k[i] .. 8 condbr bit
\*   B4: 9 load x  10 call multiply  11 store res  12 br   B5: 13 br
\*   B6: 14 load res  15 ret
RsaBnodes == <<{1, 2}, {3}, {4, 5, 6, 7, 8}, {9, 10, 11, 12}, {13}, {14, 15}>>
RsaGraph(marks) ==
    [graphs |-> {1}, root |-> 1, nodes |-> <<1..15>>, blocks |-> <<1..6>>,
     bnodes |-> RsaBnodes, subs |-> <<>>, globals |-> {}, marks |-> marks]

\* The tags CapeInstrument's pass 0 leaves on RSA (seed 4): the bit test
\* and the multiply arm.
RSA_PASS0 == RsaGraph({Pass0Tagging(1..15, RsaBnodes, 8..12)})

\* The tags CapeInstrument leaves on RSA after the three chained mark
\* calls of the driver (sl_id 1, so tags are 1, 1+1, 1+2 and 777): the
\* accesses 9 and 11 are retagged slice_id+1, the alloca of res
\* slice_id+2, and preloadTransactionCode retags the blocks of the
\* transaction region, B3 and B4, 777.
RSA_MARKED ==
    RsaGraph({[tag  |-> <<3, 0, 0, 0, 0, 0, 0, 1, 2, 1, 2, 1, 0, 0, 0>>,
               btag |-> <<0, 0, 777, 777, 0, 0>>]})

SlicerPrograms == {CALLS, RSA_PASS0}
MarkedPrograms == {RSA_MARKED}
==============================================================================
