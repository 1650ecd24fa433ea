------------------------------- MODULE MCCape --------------------------------
(***************************************************************************)
(* Input functions for model checking CapeExec.  Each is an LLVM function *)
(* shaped like one in samples/, reduced to the instructions the engine     *)
(* reacts to.  Nodes are numbered in program order; objects are strings.  *)
(***************************************************************************)
EXTENDS CapeExec, TLC

NoPts == [i \in {0, 1} |-> {}]
PtsLoad(os) == [i \in {0, 1} |-> IF i = 0 THEN os ELSE {}]
PtsStore(os) == [i \in {0, 1} |-> IF i = 1 THEN os ELSE {}]
PtsCopy(dst, src) == [i \in {0, 1} |-> IF i = 0 THEN dst ELSE src]
\* Fills the nodes a partial map leaves out with a default.
Total(k, f, d) == [n \in 1..k |-> IF n \in DOMAIN f THEN f[n] ELSE d]

\* rsa.c's square-and-multiply: for each key bit k[i] (secret), square,
\* and if the bit is set multiply by the public global x.
\*   B1: 1 alloca res   2 br          B2: 3 condbr i<n (B3 | B6)
\*   B3: 4 load k[i]  5 load res  6 call square  7 store res
\*       8 condbr bit (B4 | B5)
\*   B4: 9 load x  10 call multiply  11 store res  12 br
\*   B5: 13 br B2                     B6: 14 load res  15 ret
RSA ==
    [blocks |-> 1..6, entry |-> 1,
     succ   |-> <<{2}, {3, 6}, {4, 5}, {5}, {2}, {}>>,
     code   |-> <<<<1, 2>>, <<3>>, <<4, 5, 6, 7, 8>>, <<9, 10, 11, 12>>, <<13>>, <<14, 15>>>>,
     op     |-> <<"alloca", "br", "condbr", "load", "load", "call", "store", "condbr",
                  "load", "call", "store", "br", "br", "load", "ret">>,
     dep    |-> {<<4, 8>>, <<5, 6>>, <<6, 7>>, <<9, 10>>, <<10, 11>>, <<1, 5>>, <<1, 7>>,
                 <<1, 11>>, <<1, 14>>},
     pts    |-> Total(15, (4 :> PtsLoad({"K"})) @@ (5 :> PtsLoad({"res"}))
                          @@ (7 :> PtsStore({"res"})) @@ (9 :> PtsLoad({"X"}))
                          @@ (11 :> PtsStore({"res"})) @@ (14 :> PtsLoad({"res"})), NoPts),
     addr   |-> Total(15, (5 :> PtsLoad({1})) @@ (7 :> PtsStore({1})) @@ (11 :> PtsStore({1}))
                          @@ (14 :> PtsLoad({1})), NoPts),
     kind   |-> ("K" :> "secret") @@ ("res" :> "alloca") @@ ("X" :> "global"),
     def    |-> ("K" :> 0) @@ ("res" :> 1) @@ ("X" :> 0),
     callee |-> (6 :> "square") @@ (10 :> "multiply"),
     calls  |-> ("rsa" :> {"square", "multiply"}) @@ ("square" :> {"mulmod"})
                @@ ("multiply" :> {"mulmod"}) @@ ("mulmod" :> {}),
     fn     |-> "rsa",
     seeds  |-> {4}]

\* bsearch.c: the loop's exit (cmp == 0) depends on the secret key; p
\* points into the caller's array vals.
\*   B1: 1 br   B2: 2 phi lim  3 phi base  4 condbr lim != 0 (B3 | B6)
\*   B3: 5 gep p  6 load key  7 load *p  8 sub cmp  9 condbr cmp == 0 (B6 | B4)
\*   B4: 10 condbr cmp > 0 (B7 | B5)       B7: 11 gep base'  12 br
\*   B5: 13 phi  14 shr lim  15 br B2      B6: 16 phi ret  17 ret
BSEARCH ==
    [blocks |-> 1..7, entry |-> 1,
     succ   |-> <<{2}, {3, 6}, {6, 4}, {7, 5}, {2}, {}, {5}>>,
     code   |-> <<<<1>>, <<2, 3, 4>>, <<5, 6, 7, 8, 9>>, <<10>>, <<13, 14, 15>>,
                  <<16, 17>>, <<11, 12>>>>,
     op     |-> <<"br", "phi", "phi", "condbr", "other", "load", "load", "other",
                  "condbr", "condbr", "other", "br", "phi", "other", "br", "phi", "ret">>,
     dep    |-> {<<2, 4>>, <<2, 5>>, <<3, 5>>, <<5, 7>>, <<6, 8>>, <<7, 8>>, <<8, 9>>,
                 <<8, 10>>, <<5, 11>>, <<11, 13>>, <<13, 3>>, <<14, 2>>, <<5, 16>>,
                 <<16, 17>>},
     pts    |-> Total(17, (6 :> PtsLoad({"G"})) @@ (7 :> PtsLoad({"vals"})), NoPts),
     addr   |-> Total(17, 7 :> PtsLoad({5}), NoPts),
     kind   |-> ("G" :> "secret") @@ ("vals" :> "alloca"),
     def    |-> ("G" :> 0) @@ ("vals" :> 0),
     callee |-> <<>>,
     calls  |-> ("bsearch" :> {}),
     fn     |-> "bsearch",
     seeds  |-> {6}]

\* Nested secret decisions, each arm reading a public table.
\*   B1: 1 load s  2 condbr (B2 | B5)   B2: 3 load A  4 condbr s (B3 | B4)
\*   B3: 5 load C  6 br                 B4: 7 br      B5: 8 ret
NESTED ==
    [blocks |-> 1..5, entry |-> 1,
     succ   |-> <<{2, 5}, {3, 4}, {4}, {5}, {}>>,
     code   |-> <<<<1, 2>>, <<3, 4>>, <<5, 6>>, <<7>>, <<8>>>>,
     op     |-> <<"load", "condbr", "load", "condbr", "load", "br", "br", "ret">>,
     dep    |-> {<<1, 2>>, <<1, 4>>},
     pts    |-> Total(8, (1 :> PtsLoad({"S"})) @@ (3 :> PtsLoad({"A"}))
                         @@ (5 :> PtsLoad({"C"})), NoPts),
     addr   |-> Total(8, <<>>, NoPts),
     kind   |-> ("S" :> "secret") @@ ("A" :> "global") @@ ("C" :> "global"),
     def    |-> ("S" :> 0) @@ ("A" :> 0) @@ ("C" :> 0),
     callee |-> <<>>,
     calls  |-> ("dtree" :> {}),
     fn     |-> "dtree",
     seeds  |-> {1}]

\* aes.c's table lookup after a public argument check: T[key] with a
\* secret index, then a store of the result to the public global out.
\*   B1: 1 condbr len ok (B2 | B3)
\*   B2: 2 load key  3 gep T+key  4 load T[.]  5 store out  6 ret
\*   B3: 7 call abort  8 unreachable
ADDRDEP ==
    [blocks |-> 1..3, entry |-> 1,
     succ   |-> <<{2, 3}, {}, {}>>,
     code   |-> <<<<1>>, <<2, 3, 4, 5, 6>>, <<7, 8>>>>,
     op     |-> <<"condbr", "load", "other", "load", "store", "ret", "call", "unreachable">>,
     dep    |-> {<<2, 3>>, <<3, 4>>, <<4, 5>>},
     pts    |-> Total(8, (2 :> PtsLoad({"KEY"})) @@ (4 :> PtsLoad({"T"}))
                         @@ (5 :> PtsStore({"out"})), NoPts),
     addr   |-> Total(8, 4 :> PtsLoad({3}), NoPts),
     kind   |-> ("KEY" :> "secret") @@ ("T" :> "global") @@ ("out" :> "global"),
     def    |-> ("KEY" :> 0) @@ ("T" :> 0) @@ ("out" :> 0),
     callee |-> 7 :> "abort",
     calls  |-> ("aes" :> {"abort"}) @@ ("abort" :> {}),
     fn     |-> "aes",
     seeds  |-> {2}]

\* A lookup loop, run only when a public flag is set, that breaks when the
\* secret matches a table entry.
\*   B1: 1 condbr flag (B2 | B6)   B2: 2 br   B3: 3 condbr i<n (B4 | B6)
\*   B4: 4 load s  5 load T[i]  6 condbr s == T[i] (B6 | B5)
\*   B5: 7 br B3                   B6: 8 ret
LOOPINIF ==
    [blocks |-> 1..6, entry |-> 1,
     succ   |-> <<{2, 6}, {3}, {4, 6}, {6, 5}, {3}, {}>>,
     code   |-> <<<<1>>, <<2>>, <<3>>, <<4, 5, 6>>, <<7>>, <<8>>>>,
     op     |-> <<"condbr", "br", "condbr", "load", "load", "condbr", "br", "ret">>,
     dep    |-> {<<4, 6>>, <<5, 6>>},
     pts    |-> Total(8, (4 :> PtsLoad({"S"})) @@ (5 :> PtsLoad({"T"})), NoPts),
     addr   |-> Total(8, <<>>, NoPts),
     kind   |-> ("S" :> "secret") @@ ("T" :> "global"),
     def    |-> ("S" :> 0) @@ ("T" :> 0),
     callee |-> <<>>,
     calls  |-> ("find" :> {}),
     fn     |-> "find",
     seeds  |-> {4}]

\* dtree.c's lookup_leafids: the walk down the tree table nodes (the
\* caller's stack array) picks left or right by comparing the secret with
\* the node's threshold (a select), and breaks out at a leaf, storing the
\* leaf id into the caller's array leafids.  _node is a local struct.
\*   B1: 1 alloca _node  2 br        B2: 3 phi node  4 condbr node != -1 (B3 | B6)
\*   B3: 5 load left  6 load right  7 load fthresh  8 store _node
\*       9 condbr left == node (B4 | B5)
\*   B4: 10 store leafids[0]  11 br B6  (break)
\*   B5: 12 load sec  13 select  14 br B2           B6: 15 ret
DTREE ==
    [blocks |-> 1..6, entry |-> 1,
     succ   |-> <<{2}, {3, 6}, {4, 5}, {6}, {2}, {}>>,
     code   |-> <<<<1, 2>>, <<3, 4>>, <<5, 6, 7, 8, 9>>, <<10, 11>>, <<12, 13, 14>>, <<15>>>>,
     op     |-> <<"alloca", "br", "phi", "condbr", "load", "load", "load", "store",
                  "condbr", "store", "br", "load", "other", "br", "ret">>,
     dep    |-> {<<3, 4>>, <<3, 5>>, <<3, 6>>, <<3, 7>>, <<3, 9>>, <<5, 9>>, <<5, 13>>,
                 <<6, 13>>, <<6, 10>>, <<7, 13>>, <<12, 13>>, <<13, 3>>, <<1, 8>>, <<5, 8>>},
     pts    |-> Total(15, (5 :> PtsLoad({"nodes"})) @@ (6 :> PtsLoad({"nodes"}))
                          @@ (7 :> PtsLoad({"nodes"})) @@ (8 :> PtsStore({"_node"}))
                          @@ (10 :> PtsStore({"leafids"})) @@ (12 :> PtsLoad({"sec"})), NoPts),
     addr   |-> Total(15, (5 :> PtsLoad({3})) @@ (6 :> PtsLoad({3})) @@ (7 :> PtsLoad({3}))
                          @@ (8 :> PtsStore({1})), NoPts),
     kind   |-> ("sec" :> "secret") @@ ("nodes" :> "alloca") @@ ("_node" :> "alloca")
                @@ ("leafids" :> "alloca"),
     def    |-> ("sec" :> 0) @@ ("nodes" :> 0) @@ ("_node" :> 1) @@ ("leafids" :> 0),
     callee |-> <<>>,
     calls  |-> ("lookup_leafids" :> {}),
     fn     |-> "lookup_leafids",
     seeds  |-> {12}]

\* A loop whose trip count depends on the secret, reading a public table,
\* followed at its exit by a secret if reading another table.
\*   B1: 1 load s  2 br          B2: 3 condbr i != s (B3 | B4)
\*   B3: 4 load A  5 br B2       B4: 6 condbr s & 1 (B5 | B6)
\*   B5: 7 load T  8 br          B6: 9 ret
LOOPTHENIF ==
    [blocks |-> 1..6, entry |-> 1,
     succ   |-> <<{2}, {3, 4}, {2}, {5, 6}, {6}, {}>>,
     code   |-> <<<<1, 2>>, <<3>>, <<4, 5>>, <<6>>, <<7, 8>>, <<9>>>>,
     op     |-> <<"load", "br", "condbr", "load", "br", "condbr", "load", "br", "ret">>,
     dep    |-> {<<1, 3>>, <<1, 6>>},
     pts    |-> Total(9, (1 :> PtsLoad({"S"})) @@ (4 :> PtsLoad({"A"}))
                         @@ (7 :> PtsLoad({"T"})), NoPts),
     addr   |-> Total(9, <<>>, NoPts),
     kind   |-> ("S" :> "secret") @@ ("A" :> "global") @@ ("T" :> "global"),
     def    |-> ("S" :> 0) @@ ("A" :> 0) @@ ("T" :> 0),
     callee |-> <<>>,
     calls  |-> ("loopif" :> {}),
     fn     |-> "loopif",
     seeds  |-> {1}]

\* Nested ifs on two elements of one secret array s (its two loads are
\* the two seeds getSecretNodes finds) and a call in the inner arm: in one
\* seed order the inner if is placed first and claims its arm (777), so
\* the outer transaction's preloadTransactionCode skips the call there.
\*   B1: 1 load s[0]  2 condbr (B2 | B5)
\*   B2: 3 load G  4 load s[1]  5 condbr (B3 | B4)
\*   B3: 6 call f  7 load H  8 br     B4: 9 br     B5: 10 ret
NESTEDCALL ==
    [blocks |-> 1..5, entry |-> 1,
     succ   |-> <<{2, 5}, {3, 4}, {4}, {5}, {}>>,
     code   |-> <<<<1, 2>>, <<3, 4, 5>>, <<6, 7, 8>>, <<9>>, <<10>>>>,
     op     |-> <<"load", "condbr", "load", "load", "condbr", "call", "load", "br", "br", "ret">>,
     dep    |-> {<<1, 2>>, <<4, 5>>},
     pts    |-> Total(10, (1 :> PtsLoad({"S"})) @@ (3 :> PtsLoad({"G"}))
                          @@ (4 :> PtsLoad({"S"})) @@ (7 :> PtsLoad({"H"})), NoPts),
     addr   |-> Total(10, <<>>, NoPts),
     kind   |-> ("S" :> "secret") @@ ("G" :> "global") @@ ("H" :> "global"),
     def    |-> ("S" :> 0) @@ ("G" :> 0) @@ ("H" :> 0),
     callee |-> 6 :> "f",
     calls  |-> ("nested" :> {"f"}) @@ ("f" :> {"g"}) @@ ("g" :> {}),
     fn     |-> "nested",
     seeds  |-> {1, 4}]

\* Heap buffers: a local malloc M filled by memcpy from global G and a
\* caller's malloc H cleared by memset under a secret branch; M is freed.
\*   B1: 1 call malloc  2 load s  3 condbr (B2 | B3)
\*   B2: 4 memcpy(M, G)  5 memset(H)  6 br      B3: 7 free(M)  8 ret
HEAPFREE ==
    [blocks |-> 1..3, entry |-> 1,
     succ   |-> <<{2, 3}, {3}, {}>>,
     code   |-> <<<<1, 2, 3>>, <<4, 5, 6>>, <<7, 8>>>>,
     op     |-> <<"call", "load", "condbr", "memcpy", "memset", "br", "free", "ret">>,
     dep    |-> {<<2, 3>>, <<1, 4>>, <<1, 7>>},
     pts    |-> Total(8, (2 :> PtsLoad({"S"})) @@ (4 :> PtsCopy({"M"}, {"G"}))
                         @@ (5 :> PtsLoad({"H"})) @@ (7 :> PtsLoad({"M"})), NoPts),
     addr   |-> Total(8, 4 :> PtsLoad({1}), NoPts),
     kind   |-> ("S" :> "secret") @@ ("M" :> "malloc") @@ ("G" :> "global")
                @@ ("H" :> "malloc"),
     def    |-> ("S" :> 0) @@ ("M" :> 1) @@ ("G" :> 0) @@ ("H" :> 0),
     callee |-> (1 :> "malloc") @@ (4 :> "memcpy") @@ (5 :> "memset") @@ (7 :> "free"),
     calls  |-> ("heap" :> {"malloc", "free"}) @@ ("malloc" :> {}) @@ ("memcpy" :> {})
                @@ ("memset" :> {}) @@ ("free" :> {}),
     fn     |-> "heap",
     seeds  |-> {2}]

\* Two secret decisions in sequence; the second guards a public load.
\*   B1: 1 load s1  2 load s2  3 condbr s1 (B2 | B3)   B2: 4 br
\*   B3: 5 condbr s2 (B4 | B5)   B4: 6 load x  7 br    B5: 8 ret
TWOIFS ==
    [blocks |-> 1..5, entry |-> 1,
     succ   |-> <<{2, 3}, {3}, {4, 5}, {5}, {}>>,
     code   |-> <<<<1, 2, 3>>, <<4>>, <<5>>, <<6, 7>>, <<8>>>>,
     op     |-> <<"load", "load", "condbr", "br", "condbr", "load", "br", "ret">>,
     dep    |-> {<<1, 3>>, <<2, 5>>},
     pts    |-> Total(8, (1 :> PtsLoad({"S"})) @@ (2 :> PtsLoad({"S"}))
                         @@ (6 :> PtsLoad({"X"})), NoPts),
     addr   |-> Total(8, <<>>, NoPts),
     kind   |-> ("S" :> "secret") @@ ("X" :> "global"),
     def    |-> ("S" :> 0) @@ ("X" :> 0),
     callee |-> <<>>,
     calls  |-> ("twoifs" :> {}),
     fn     |-> "twoifs",
     seeds  |-> {1, 2}]

\* A secret check whose failing arm calls abort().
\*   B1: 1 load s  2 condbr (B2 | B3)   B2: 3 call abort  4 unreachable
\*   B3: 5 load x  6 ret
ABORTBR ==
    [blocks |-> 1..3, entry |-> 1,
     succ   |-> <<{2, 3}, {}, {}>>,
     code   |-> <<<<1, 2>>, <<3, 4>>, <<5, 6>>>>,
     op     |-> <<"load", "condbr", "call", "unreachable", "load", "ret">>,
     dep    |-> {<<1, 2>>},
     pts    |-> Total(6, (1 :> PtsLoad({"S"})) @@ (5 :> PtsLoad({"X"})), NoPts),
     addr   |-> Total(6, <<>>, NoPts),
     kind   |-> ("S" :> "secret") @@ ("X" :> "global"),
     def    |-> ("S" :> 0) @@ ("X" :> 0),
     callee |-> 3 :> "abort",
     calls  |-> ("check" :> {"abort"}) @@ ("abort" :> {}),
     fn     |-> "check",
     seeds  |-> {1}]

\* A loop left through abort() when a secret test fails.
\*   B1: 1 br   B2: 2 condbr i<n (B3 | B5)   B3: 3 load s  4 condbr (B4 | B6)
\*   B4: 5 load x  6 br B2   B5: 7 ret   B6: 8 call abort  9 unreachable
ABORTLOOP ==
    [blocks |-> 1..6, entry |-> 1,
     succ   |-> <<{2}, {3, 5}, {4, 6}, {2}, {}, {}>>,
     code   |-> <<<<1>>, <<2>>, <<3, 4>>, <<5, 6>>, <<7>>, <<8, 9>>>>,
     op     |-> <<"br", "condbr", "load", "condbr", "load", "br", "ret", "call",
                  "unreachable">>,
     dep    |-> {<<3, 4>>},
     pts    |-> Total(9, (3 :> PtsLoad({"S"})) @@ (5 :> PtsLoad({"X"})), NoPts),
     addr   |-> Total(9, <<>>, NoPts),
     kind   |-> ("S" :> "secret") @@ ("X" :> "global"),
     def    |-> ("S" :> 0) @@ ("X" :> 0),
     callee |-> 8 :> "abort",
     calls  |-> ("verify" :> {"abort"}) @@ ("abort" :> {}),
     fn     |-> "verify",
     seeds  |-> {3}]

\* Two secrets, each guarding a load of a different caller-owned array.
\*   B1: 1 load s1  2 condbr (B2 | B3)   B2: 3 load a  4 br
\*   B3: 5 load s2  6 condbr (B4 | B5)   B4: 7 load b  8 br   B5: 9 ret
TWOBUFS ==
    [blocks |-> 1..5, entry |-> 1,
     succ   |-> <<{2, 3}, {3}, {4, 5}, {5}, {}>>,
     code   |-> <<<<1, 2>>, <<3, 4>>, <<5, 6>>, <<7, 8>>, <<9>>>>,
     op     |-> <<"load", "condbr", "load", "br", "load", "condbr", "load", "br", "ret">>,
     dep    |-> {<<1, 2>>, <<5, 6>>},
     pts    |-> Total(9, (1 :> PtsLoad({"S"})) @@ (3 :> PtsLoad({"a"}))
                         @@ (5 :> PtsLoad({"S"})) @@ (7 :> PtsLoad({"b"})), NoPts),
     addr   |-> Total(9, <<>>, NoPts),
     kind   |-> ("S" :> "secret") @@ ("a" :> "alloca") @@ ("b" :> "alloca"),
     def    |-> ("S" :> 0) @@ ("a" :> 0) @@ ("b" :> 0),
     callee |-> <<>>,
     calls  |-> ("lookup" :> {}),
     fn     |-> "lookup",
     seeds  |-> {1, 5}]

SamplePrograms == {RSA, BSEARCH, NESTED, ADDRDEP, HEAPFREE, LOOPINIF, NESTEDCALL}
TwoIfsPrograms == {TWOIFS}
AbortBrPrograms == {ABORTBR}
AbortLoopPrograms == {ABORTLOOP}
HeapPrograms == {HEAPFREE}
TwoBufsPrograms == {TWOBUFS}
DtreePrograms == {DTREE}
LoopThenIfPrograms == {LOOPTHENIF}
=============================================================================
