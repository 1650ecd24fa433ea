----------------------------- MODULE MCAllocStack -----------------------------
(***************************************************************************)
(* Allocating functions for CapeAllocStack.  Node numbers follow the      *)
(* function's instruction order; fixed-size allocas sit at the entry,      *)
(* variable-length arrays where they are declared.                         *)
(***************************************************************************)
EXTENDS CapeAllocStack

\* bsearch.c main: the VLA values[size] is passed to bsearch in a loop.
\*   B1: 1 loadInput  2 alloca values  3 constructArray  4 br
\*   B2: 5 condbr (B3 | B4)   B3: 6 call bsearch  7 br   B4: 8 printCycles  9 ret
BSEARCHMAIN ==
    [blocks |-> 1..4, entry |-> 1,
     succ   |-> <<{2}, {3, 4}, {2}, {}>>,
     code   |-> <<<<1, 2, 3, 4>>, <<5>>, <<6, 7>>, <<8, 9>>>>,
     op     |-> <<"other", "alloca", "other", "br", "condbr", "call", "br", "other", "ret">>,
     allocs |-> (2 :> "values"),
     runs   |-> 1]

\* dtree.c main: leafids[1] (entry alloca) and the VLA nodes[size] are
\* passed to lookup_leafids in a loop; the function falls off its end.
\*   B1: 1 alloca leafids  2 loadInput  3 alloca nodes  4 constructTree  5 br
\*   B2: 6 condbr (B3 | B4)   B3: 7 call lookup_leafids  8 br   B4: 9 printCycles  10 ret
DTREEMAIN ==
    [blocks |-> 1..4, entry |-> 1,
     succ   |-> <<{2}, {3, 4}, {2}, {}>>,
     code   |-> <<<<1, 2, 3, 4, 5>>, <<6>>, <<7, 8>>, <<9, 10>>>>,
     op     |-> <<"alloca", "other", "alloca", "other", "br", "condbr", "call", "br",
                  "other", "ret">>,
     allocs |-> (1 :> "leafids") @@ (3 :> "nodes"),
     runs   |-> 1]

\* A recursive helper entered three times, whose activations nest their buffers.
\*   B1: 1 alloca buf  2 condbr (B2 | B3)   B2: 3 self  4 br   B3: 5 call  6 ret
RECURSE ==
    [blocks |-> 1..3, entry |-> 1,
     succ   |-> <<{2, 3}, {3}, {}>>,
     code   |-> <<<<1, 2>>, <<3, 4>>, <<5, 6>>>>,
     op     |-> <<"alloca", "condbr", "self", "br", "call", "ret">>,
     allocs |-> (1 :> "buf"),
     runs   |-> 3]

\* A helper with an early return after its buffer, entered twice.
\*   B1: 1 alloca buf  2 condbr (B2 | B3)   B2: 3 ret   B3: 4 call  5 ret
EARLYRET ==
    [blocks |-> 1..3, entry |-> 1,
     succ   |-> <<{2, 3}, {}, {}>>,
     code   |-> <<<<1, 2>>, <<3>>, <<4, 5>>>>,
     op     |-> <<"alloca", "condbr", "ret", "call", "ret">>,
     allocs |-> (1 :> "buf"),
     runs   |-> 2]

SampleCallers == {BSEARCHMAIN, DTREEMAIN, RECURSE}
EarlyRetCallers == {EARLYRET}
==============================================================================
