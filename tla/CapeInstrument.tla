---------------------------- MODULE CapeInstrument ----------------------------
(***************************************************************************)
(* The secret-slicing and instrumentation engine of Slicing.h, driven as   *)
(* llvm-dg-dump.cpp drives it: for every secret seed node, in the order    *)
(* of the callsites set, Slicer::mark runs pass 0 (taint discovery), pass  *)
(* 1 (loops whose exit depends on the secret) and pass 2 (sensitive        *)
(* accesses), threading the buffer-id counter through the return values.   *)
(* Each mark call is a FIFO walk (WalkAndMark / NodesWalk) calling         *)
(* markSlice on every node it pops; one Walk step is one such call with    *)
(* everything markSlice does: tags, buffer ids and the calls it inserts.   *)
(*                                                                         *)
(* The function under instrumentation is the constant-valued variable     *)
(* prog, chosen in Init from Programs.  Extra fields of a program record:  *)
(*   dep    forward data/use edges <<def, user>>                           *)
(*   pts    [Nodes -> [{0,1} -> SUBSET Objs]] points-to set of operand i   *)
(*   addr   [Nodes -> [{0,1} -> SUBSET Nodes]] nodes whose value may be     *)
(*          operand i (the rev-data and user edges checkAddressDependency  *)
(*          scans)                                                         *)
(*   kind   [Objs -> {"secret","global","str","alloca","malloc","null"}]   *)
(*   def    [Objs -> Nodes \cup {0}] defining node in this function, or 0  *)
(*   callee [Nodes -> Funcs] called function of call nodes                *)
(*   calls  [Funcs -> SUBSET Funcs] functions called in a function's body  *)
(*   fn     this function's name      seeds  the secret nodes              *)
(***************************************************************************)
EXTENDS Naturals, Sequences, FiniteSets, SequencesExt, CapeCFG

CONSTANTS Programs

VARIABLES
    prog,     \* the function being instrumented (never changes)
    order,    \* the seed nodes in the order the driver visits them
    si,       \* index in order of the seed being processed
    pass,     \* pass_id of the running mark call
    phase,    \* "mark" while the driver runs, then "done" or "crashed"
    queue,    \* FIFO worklist of the running walk
    visited,  \* nodes enqueued by the running walk (NodesWalk's run id)
    tag,      \* node slice tags (getSlice/setSlice)
    btag,     \* block slice tags, including the virtual post-dom root
    dgtag,    \* the dependence graph's slice tag
    allocId,  \* the buffer-id counter (allocId / buff_id)
    bufId,    \* buffer id of each abstract memory object, 0 = not buffered
    ins,      \* calls inserted before each node, in program order
    funcs,    \* getFuncs(): functions already preloaded per branch node
    outside,  \* calls inserted into other functions (push/pop, malloc sets)
    taint     \* nodes pass 0 has marked (history, read by properties)

engineVars == <<prog, order, si, pass, phase, queue, visited, tag, btag, dgtag,
                allocId, bufId, ins, funcs, outside, taint>>

\* Slicer::mark turns the driver's slid 0 into 1; markSlice derives
\* slice_id = (sl_id - 1) * 5 + 1 and uses the next four values as stages.
SlId == 1
Sid == (SlId - 1) * 5 + 1
\* Sentinel tags: a preloaded transaction region, a placed loop pre-header.
Preloaded == 777
LoopPlaced == 888
\* buff_id is a uint16_t in the driver and in WalkAndMark::mark.
BuffWidth == 2^16

N == Nodes(prog)
Blocks == prog.blocks \cup {PRoot}
Objs == DOMAIN prog.kind
Op(n) == prog.op[n]
IsBr(n) == Op(n) \in {"br", "condbr"}
IsAccess(n) == Op(n) \in {"load", "store", "memcpy", "memset"}
\* The operand handlePreloadingForSensitiveAccesses reads: 0 of a load or
\* memset, 1 of a store, both of a memcpy (opIdx 9).
\* Fault-injection variant: the load and store operand indices swapped.
PtrOpsSwapped(n) == CASE Op(n) = "load" -> <<1>> [] Op(n) = "store" -> <<0>>
                [] Op(n) = "memcpy" -> <<0, 1>> [] OTHER -> <<0>>
PtrOps(n) == CASE Op(n) = "load" -> <<0>> [] Op(n) = "store" -> <<1>>
                [] Op(n) = "memcpy" -> <<0, 1>> [] OTHER -> <<0>>
BTag(b) == IF b \in Blocks THEN btag[b] ELSE 0
Call(k, i, o) == [k |-> k, id |-> i, o |-> o]
CallKinds == {"start", "end", "iterStack", "iterMalloc", "iterGlobal", "push",
              "pop", "insMalloc", "eraseMalloc", "preloadFn"}

\* The first non-phi instruction at or after n in its block.
SkipPhi(n) ==
    LET c == prog.code[BlockOf(prog, n)]
        i == CHOOSE j \in DOMAIN c : c[j] = n
    IN  c[Min({j \in i..Len(c) : Op(c[j]) # "phi"})]
\* The instruction after n, or n itself when n ends its block.
NextNode(n) ==
    LET c == prog.code[BlockOf(prog, n)]
        i == CHOOSE j \in DOMAIN c : c[j] = n
    IN  IF i = Len(c) THEN n ELSE c[i + 1]

\* The engine state a handler reads and writes.
St == [tag |-> tag, btag |-> btag, allocId |-> allocId, bufId |-> bufId,
       ins |-> ins, funcs |-> funcs, outside |-> outside, crash |-> FALSE]
Insert(s, n, cs) == [s EXCEPT !.ins[n] = @ \o cs]

-----------------------------------------------------------------------------
(* handlePreloadingForSensitiveAccesses(n, opIdx): for each operand of ops *)
(* it walks the points-to set; a secret global or a ".str." global returns *)
(* from the whole function, so only the pointees met before it count.     *)
(* Pointees are iterated in address order: any subset of the other         *)
(* pointees of that operand may have been met first.                       *)
RECURSIVE Processed(_, _)
Processed(n, ops) ==
    IF ops = <<>> THEN {{}}
    ELSE LET P    == prog.pts[n][Head(ops)]
             stop == {o \in P : prog.kind[o] \in {"secret", "str"}}
         IN  IF stop = {} THEN {P \cup Q : Q \in Processed(n, Tail(ops))}
             ELSE SUBSET (P \ stop)

IsForeignAlloca(o) == prog.kind[o] = "alloca" /\ prog.def[o] = 0
IsLocal(o) == prog.kind[o] \in {"alloca", "malloc"} /\ prog.def[o] # 0
\* Objects that receive a buffer id: allocas of other functions and mallocs.
Bufferable(o) == IsForeignAlloca(o) \/ prog.kind[o] = "malloc"

\* "just mark local nodes": the defining alloca or malloc of a local
\* pointee is tagged slice_id + 2.
MarkLocalDefs(tagf, Q) ==
    [m \in N |-> IF m \in {prog.def[o] : o \in {x \in Q : IsLocal(x)}}
                 THEN Sid + 2 ELSE tagf[m]]

\* The effect of processing the pointee set Q of node n: local allocas and
\* mallocs get their defining node tagged slice_id + 2; every unbuffered
\* bufferable object gets ++allocId, with pushAllocStack after its alloca
\* and popAllocStack at its function's return (both in another function),
\* or insertMallocSet right after its malloc call.  The result pairs the
\* new state with the allocs/mallocs/globals sets the caller collects.
ApplyPreload(s, Q) ==
    LET fresh == SetToSeq({o \in Q : Bufferable(o) /\ s.bufId[o] = 0})
        idOf  == [o \in Objs |-> IF \E i \in DOMAIN fresh : fresh[i] = o
                                 THEN s.allocId + CHOOSE i \in DOMAIN fresh : fresh[i] = o
                                 ELSE s.bufId[o]]
        newA  == {o \in ToSet(fresh) : IsForeignAlloca(o)}
        newLM == {o \in ToSet(fresh) : prog.kind[o] = "malloc" /\ prog.def[o] # 0}
        newFM == {o \in ToSet(fresh) : prog.kind[o] = "malloc" /\ prog.def[o] = 0}
    IN  <<[s EXCEPT
            !.tag = MarkLocalDefs(@, Q),
            !.allocId = @ + Len(fresh),
            !.bufId = idOf,
            !.ins = [m \in N |-> @[m] \o
                       SetToSeq({Call("insMalloc", idOf[o], o) :
                                 o \in {x \in newLM : NextNode(prog.def[x]) = m}})],
            !.outside = @ \cup {Call("push", idOf[o], o) : o \in newA}
                          \cup {Call("pop", idOf[o], o) : o \in newA}
                          \cup {Call("insMalloc", idOf[o], o) : o \in newFM}],
          [allocs  |-> {idOf[o] : o \in {x \in Q : IsForeignAlloca(x)}},
           mallocs |-> {idOf[o] : o \in {x \in Q : prog.kind[x] = "malloc"}},
           globals |-> {o \in Q : prog.kind[o] = "global"}]>>

handlePreloadingForSensitiveAccesses(s, n, ops) ==
    {ApplyPreload(s, Q) : Q \in Processed(n, ops)}

NoObjs == [allocs |-> {}, mallocs |-> {}, globals |-> {}]
UnionObjs(a, b) == [k \in {"allocs", "mallocs", "globals"} |-> a[k] \cup b[k]]
IsEmptyObjs(S) == S.allocs = {} /\ S.mallocs = {} /\ S.globals = {}

\* checkAddressDependency over rev-data predecessors, then users, of each
\* address operand in turn: the first node met that is marked, not with
\* the object-resolved tag slice_id + 2, and whose value is the operand is
\* tagged slice_id + 3 (here Sid + 3) and the check succeeds.
AddrOps(n) == IF Op(n) = "memcpy" THEN <<0, 1>> ELSE PtrOps(n)
checkAddressDependency(s, n) ==
    LET Match(i) == {m \in prog.addr[n][AddrOps(n)[i]] :
                        s.tag[m] > 0 /\ s.tag[m] # Sid + 2}
        first    == CHOOSE i \in 1..Len(AddrOps(n)) \cup {Len(AddrOps(n)) + 1} :
                        /\ i <= Len(AddrOps(n)) => Match(i) # {}
                        /\ \A j \in 1..(i - 1) : Match(j) = {}
    IN  IF first > Len(AddrOps(n)) THEN {<<FALSE, s>>}
        ELSE {<<TRUE, [s EXCEPT !.tag[m] = Sid + 3]>> : m \in Match(first)}

-----------------------------------------------------------------------------
(* Transaction placement and preload emission.                            *)

\* Functions called in function f's body; runtime functions have no body.
FnCalls(f) == IF f \in DOMAIN prog.calls THEN prog.calls[f] ELSE {}
\* Called functions of the calls in block b, including calls inserted
\* earlier (the runtime's own functions, named by their call kind).
BlockCallees(s, b) ==
    {prog.callee[n] : n \in {m \in ToSet(prog.code[b]) : m \in DOMAIN prog.callee}}
    \cup UNION {{c.k : c \in ToSet(s.ins[n])} : n \in ToSet(prog.code[b])}
\* preloadBB recursion: a function is preloaded, and its body walked, only
\* the first time its name enters funcs.
RECURSIVE FnClosure(_, _)
FnClosure(front, seen) ==
    LET next == UNION {FnCalls(f) : f \in front} \ seen
    IN  IF next = {} THEN seen ELSE FnClosure(next, seen \cup next)

\* preloadTransactionCode(start, end): once per start block (tag 777),
\* preloadInstAddr calls before start's terminator for this function and
\* for every function first called in the blocks between start and end
\* that no other region has claimed, which it tags 777.
\* Fault-injection variant: the callees met in the region are not collected.
preloadTransactionCodeNoCallees(s, start, end) ==
    IF s.btag[start] = Preloaded THEN s
    ELSE LET bn     == LastNode(prog, start)
             fs0    == s.funcs[bn]
             fs1    == fs0 \cup {prog.fn}
             region == ReachAvoid(prog, {start}, {start, end}, {}) \ {start, end}
             claim  == {b \in region : s.btag[b] # Preloaded}
         IN  [s EXCEPT
                !.ins[bn] = @ \o SetToSeq({Call("preloadFn", 0, f) : f \in fs1 \ fs0}),
                !.funcs[bn] = fs1,
                !.btag = [b \in Blocks |-> IF b \in claim \cup {start}
                                          THEN Preloaded ELSE @[b]]]
preloadTransactionCode(s, start, end) ==
    IF s.btag[start] = Preloaded THEN s
    ELSE LET bn     == LastNode(prog, start)
             fs0    == s.funcs[bn]
             fs1    == fs0 \cup {prog.fn}
             region == ReachAvoid(prog, {start}, {start, end}, {}) \ {start, end}
             claim  == {b \in region : s.btag[b] # Preloaded}
             direct == UNION {BlockCallees(s, b) : b \in claim} \ fs1
             newFs  == FnClosure(direct, fs1 \cup direct) \ fs1
             added  == (fs1 \ fs0) \cup newFs
         IN  [s EXCEPT
                !.ins[bn] = @ \o SetToSeq({Call("preloadFn", 0, f) : f \in added}),
                !.funcs[bn] = fs1 \cup newFs,
                !.btag = [b \in Blocks |-> IF b \in claim \cup {start}
                                          THEN Preloaded ELSE @[b]]]

\* addTransactionEnd(BB, isBr): endTransaction before the first non-phi of
\* BB's immediate post-dominator (of BB's own terminator when the start is
\* not a branch), then preloadTransactionCode(BB, ipostdom).  With the
\* virtual root as post-dominator there is no first node: it logs and
\* returns, the start call already inserted.
\* Fault-injection variant: every start treated as a branch start.
addTransactionEndAlwaysBr(s, BB, isBr) ==
    LET S     == prog.ipdom[BB]
        first == FirstNode(prog, S)
        s1    == Insert(s, SkipPhi(first), <<Call("end", 0, "")>>)
    IN  IF first = 0 THEN s ELSE preloadTransactionCode(s1, BB, S)
addTransactionEnd(s, BB, isBr) ==
    LET S     == prog.ipdom[BB]
        first == IF isBr THEN FirstNode(prog, S) ELSE LastNode(prog, BB)
        s1    == Insert(s, SkipPhi(first), <<Call("end", 0, "")>>)
    IN  IF first = 0 THEN s
        ELSE IF isBr THEN preloadTransactionCode(s1, BB, S) ELSE s1

\* addPreLoad: iterateAllocStack, iterateMallocSet, iterateGlobal calls.
addPreLoad(s, inst, S) ==
    Insert(s, inst, SetToSeq({Call("iterStack", i, "") : i \in S.allocs})
                    \o SetToSeq({Call("iterMalloc", i, "") : i \in S.mallocs})
                    \o SetToSeq({Call("iterGlobal", 0, g) : g \in S.globals}))

\* Fault-injection variant: no preload once the branch is placed.
processHighestBrPlacedOnly(s, bn, sl, S) ==
    LET inst == SkipPhi(bn)
        CD   == BlockOf(prog, bn)
    IN  IF s.btag[CD] # sl /\ s.btag[CD] # Preloaded
        THEN IF IsEmptyObjs(S) THEN s
             ELSE addPreLoad(addTransactionEnd(
                      Insert([s EXCEPT !.btag[CD] = sl], inst, <<Call("start", 0, "")>>),
                      CD, IsBr(inst)), inst, S)
        ELSE s
processHighestBr(s, bn, sl, S) ==
    LET inst == SkipPhi(bn)
        CD   == BlockOf(prog, bn)
    IN  IF s.btag[CD] # sl /\ s.btag[CD] # Preloaded
        THEN IF IsEmptyObjs(S) THEN s
             ELSE addPreLoad(addTransactionEnd(
                      Insert([s EXCEPT !.btag[CD] = sl], inst, <<Call("start", 0, "")>>),
                      CD, IsBr(inst)), inst, S)
        ELSE addPreLoad(s, inst, S)

\* The first block after preh on its ipostdom chain that is outside the
\* loop (the virtual root when the chain leaves the function).
\* Fault-injection variant: the walk goes one post-dominator too far.
LoopExitFromPastExit(b, blks) ==
    LET RECURSIVE Walk(_)
        Walk(c) == IF c = PRoot THEN c
                   ELSE IF c \notin blks THEN prog.ipdom[c]
                   ELSE Walk(prog.ipdom[c])
    IN  Walk(b)
RECURSIVE LoopExitFrom(_, _)
LoopExitFrom(b, blks) ==
    IF b = PRoot \/ b \notin blks THEN b ELSE LoopExitFrom(prog.ipdom[b], blks)

\* addTransactionEndForLoop: with the virtual root as exit, first is NULL
\* and first->getKey() dereferences it: the tool crashes.
addTransactionEndForLoop(s, preh, blks, sl) ==
    LET curB == LoopExitFrom(prog.ipdom[preh], blks)
        s1   == IF s.btag[curB] # sl
                THEN Insert([s EXCEPT !.btag[curB] = sl],
                            SkipPhi(FirstNode(prog, curB)), <<Call("end", 0, "")>>)
                ELSE s
    IN  IF curB = PRoot /\ s.btag[curB] # sl THEN [s EXCEPT !.crash = TRUE]
        ELSE preloadTransactionCode(s1, preh, curB)

\* placeTransForLoop(bn = the header's first node): the transaction starts
\* before the pre-header's (the header's idom's) terminator, tagged 888.
placeTransForLoop(s, header, blks, sl, S) ==
    LET preh == prog.idom[header]
        node == LastNode(prog, preh)
    IN  IF s.tag[node] # LoopPlaced
        THEN IF IsEmptyObjs(S) THEN s
             ELSE LET s1 == addTransactionEndForLoop(
                              Insert([s EXCEPT !.tag[node] = LoopPlaced], node,
                                     <<Call("start", 0, "")>>), preh, blks, sl)
                  IN  IF s1.crash THEN s1 ELSE addPreLoad(s1, node, S)
        ELSE addPreLoad(s, node, S)

\* processBBlockIDomsAndNodeRevCDs(BB): climbs marked immediate dominators
\* and, from the highest marked one up, takes the first marked branch
\* terminating a marked idom.  Result <<found, state>>.
RECURSIVE processBBlockIDomsAndNodeRevCDs(_, _, _, _)
processBBlockIDomsAndNodeRevCDs(s, BB, sl, S) ==
    LET CD   == prog.idom[BB]
        last == LastNode(prog, CD)
        up   == processBBlockIDomsAndNodeRevCDs(s, CD, sl, S)
    IN  IF BTag(BB) <= 0 \/ BTag(CD) <= 0 THEN <<FALSE, s>>
        ELSE IF up[1] THEN up
        ELSE IF last # 0 /\ s.tag[last] > 0 /\ IsBr(last)
             THEN <<TRUE, processHighestBr(s, last, sl, S)>>
        ELSE <<FALSE, s>>

\* processBBlockRevCDs: the first (in address order) marked block BB is
\* control dependent on, outside the loop, whose terminator is a marked
\* branch decides the transaction; without one, the loop or, for an
\* address dependency, BB's own first node.
processBBlockRevCDs(s, isLoop, addDep, BB, blks, sl, S) ==
    LET Q == {CD \in prog.pdf[BB] :
                /\ BTag(CD) > 0
                /\ ~(isLoop /\ CD \in blks)
                /\ s.tag[LastNode(prog, CD)] > 0
                /\ IsBr(LastNode(prog, CD))}
    IN  IF Q # {}
        THEN {LET r == processBBlockIDomsAndNodeRevCDs(s, CD, sl, S)
              IN  IF r[1] THEN r[2] ELSE processHighestBr(s, LastNode(prog, CD), sl, S)
              : CD \in Q}
        ELSE IF isLoop THEN {placeTransForLoop(s, BB, blks, sl, S)}
        ELSE IF addDep THEN {processHighestBr(s, FirstNode(prog, BB), sl, S)}
        ELSE {s}

-----------------------------------------------------------------------------
(* markSlice, one pass at a time.                                          *)

\* Forward control edges of a branch: every node of the blocks control
\* dependent on its block.
CDSucc(n) ==
    IF IsBr(n)
    THEN UNION {ToSet(prog.code[b]) :
                b \in {c \in prog.blocks : BlockOf(prog, n) \in prog.pdf[c]}}
    ELSE {}
DataSucc(n) == {d[2] : d \in {e \in prog.dep : e[1] = n}}

\* Pass 0 skips a load/store whose address may point to a secret global.
TouchesSecret(n) ==
    Op(n) \in {"load", "store"} /\ \E o \in prog.pts[n][PtrOps(n)[1]] : prog.kind[o] = "secret"

\* Pass 0 on a branch that conditionally exits its loop: the unmarked nodes
\* of the whole loop, force-enqueued.  One set per possible loop outcome.
ForcedByLoopExit(n) ==
    IF ~IsBr(n) THEN {{}}
    ELSE {IF IsLoopExit(prog, BlockOf(prog, n), lp)
          THEN {nd \in UNION {ToSet(prog.code[b]) : b \in lp[1]} : tag[nd] <= 0}
          ELSE {} : lp \in getBrLoopBlocks(prog, BlockOf(prog, n))}

\* Pass 1 over the loop's nodes: every load/store's pointees are resolved
\* into one allocs/mallocs/globals triple, and every node's tag reset to 0.
RECURSIVE LoopNodesFold(_, _)
LoopNodesFold(R, ns) ==
    IF ns = <<>> THEN R
    ELSE LET nd == Head(ns)
             Step(r) == IF Op(nd) \in {"load", "store"}
                        THEN {<<[h[1] EXCEPT !.tag[nd] = 0], UnionObjs(r[2], h[2])>> :
                              h \in handlePreloadingForSensitiveAccesses(r[1], nd, PtrOps(nd))}
                        ELSE {<<[r[1] EXCEPT !.tag[nd] = 0], r[2]>>}
         IN  LoopNodesFold(UNION {Step(r) : r \in R}, Tail(ns))

\* Pass 1 on a marked branch that conditionally exits its loop.
Pass1(s, n) ==
    IF ~IsBr(n) THEN {s}
    ELSE UNION {IF ~IsLoopExit(prog, BlockOf(prog, n), lp) THEN {s}
                ELSE UNION {processBBlockRevCDs(r[1], TRUE, FALSE, lp[2], lp[1], Sid + 4, r[2]) :
                            r \in LoopNodesFold({<<s, NoObjs>>},
                                     Ascending(UNION {ToSet(prog.code[b]) : b \in lp[1]}))}
                : lp \in getBrLoopBlocks(prog, BlockOf(prog, n))}

\* Pass 2 on a marked load, store, memcpy or memset.
Pass2(s, n) ==
    IF ~IsAccess(n) THEN {s}
    ELSE UNION {UNION {processBBlockRevCDs(d[2], FALSE, d[1], BlockOf(prog, n), {}, Sid + 4, h[2]) :
                       d \in checkAddressDependency(h[1], n)} :
                h \in handlePreloadingForSensitiveAccesses(
                          [s EXCEPT !.tag[n] = Sid + 1], n, PtrOps(n))}

\* handleFreeFunc: eraseMallocSet before every free of a buffered malloc.
handleFreeFunc(s) ==
    [s EXCEPT !.ins = [c \in N |->
        IF Op(c) = "free"
        THEN @[c] \o SetToSeq({Call("eraseMalloc", s.bufId[o], o) :
                               o \in {x \in prog.pts[c][0] :
                                        prog.kind[x] = "malloc" /\ s.bufId[x] # 0}})
        ELSE @[c]]]

Assign(s) ==
    /\ tag' = s.tag
    /\ btag' = s.btag
    /\ allocId' = s.allocId
    /\ bufId' = s.bufId
    /\ ins' = s.ins
    /\ funcs' = s.funcs
    /\ outside' = s.outside

\* NodesWalk: the popped node's unvisited successors join the queue, the
\* ones the callback enqueued first.  Edge sets are std::sets ordered by
\* node address; nodes are allocated in program order, so each batch is
\* taken in ascending node number.
Enqueue(n, forced, expand) ==
    LET rest == (DataSucc(n) \cup (IF expand THEN CDSucc(n) ELSE {})) \ (visited \cup forced)
        f    == forced \ visited
    IN  /\ queue' = Tail(queue) \o Ascending(f) \o Ascending(rest)
        /\ visited' = visited \cup f \cup rest

-----------------------------------------------------------------------------
EngineInit ==
    /\ prog \in {computePostDominators(p) : p \in Programs}
    /\ order \in SetToSeqs(prog.seeds)
    /\ si = 1
    /\ pass = 0
    /\ phase = "mark"
    /\ queue = <<order[1]>>
    /\ visited = {order[1]}
    /\ tag = [n \in N |-> 0]
    /\ btag = [b \in Blocks |-> 0]
    /\ dgtag = 0
    /\ allocId = 0
    /\ bufId = [o \in Objs |-> 0]
    /\ ins = [n \in N |-> <<>>]
    /\ funcs = [n \in N |-> {}]
    /\ outside = {}
    /\ taint = {}

\* markSlice with pass_id 0 on the head of the queue.
MarkTaint ==
    /\ phase = "mark" /\ pass = 0 /\ queue # <<>>
    /\ LET n == Head(queue) IN
       IF tag[n] > 0 \/ TouchesSecret(n)
       THEN /\ Enqueue(n, {}, FALSE)
            /\ UNCHANGED <<tag, btag, dgtag, taint>>
       ELSE /\ \E forced \in ForcedByLoopExit(n) : Enqueue(n, forced, Op(n) = "condbr")
            /\ tag' = [tag EXCEPT ![n] = Sid]
            /\ btag' = [btag EXCEPT ![BlockOf(prog, n)] = Sid]
            /\ dgtag' = Sid
            /\ taint' = taint \cup {n}
    /\ UNCHANGED <<prog, order, si, pass, phase, allocId, bufId, ins, funcs, outside>>

\* markSlice with pass_id 1 or 2: unmarked nodes are passed over.
MarkInstrument ==
    /\ phase = "mark" /\ pass \in {1, 2} /\ queue # <<>>
    /\ LET n == Head(queue) IN
       /\ \E s2 \in IF tag[n] <= 0 THEN {St}
                    ELSE IF pass = 1 THEN Pass1(St, n) ELSE Pass2(St, n) :
            IF s2.crash THEN /\ phase' = "crashed"
                             /\ UNCHANGED <<queue, visited, tag, btag, allocId, bufId,
                                            ins, funcs, outside>>
                        ELSE /\ Assign(s2) /\ phase' = phase
                             /\ Enqueue(n, {}, TRUE)
    /\ UNCHANGED <<prog, order, si, pass, dgtag, taint>>

\* The walk is over: Slicer::mark returns the uint16_t buff_id (pass 2 first
\* runs handleFreeFunc) and the driver starts the next mark call; the first
\* call for a seed passes no buff_id, so the counter restarts at 0.
MarkDone ==
    /\ phase = "mark" /\ queue = <<>>
    /\ LET s1   == IF pass = 2 THEN handleFreeFunc(St) ELSE St
           last == pass = 2 /\ si = Len(order)
           nsi  == IF pass = 2 THEN si + 1 ELSE si
       IN  /\ Assign([s1 EXCEPT !.allocId = IF pass = 2 /\ ~last THEN 0
                                            ELSE @ % BuffWidth])
           /\ IF last
              THEN /\ phase' = "done" /\ UNCHANGED <<si, pass, queue, visited>>
              ELSE /\ si' = nsi /\ pass' = (pass + 1) % 3
                   /\ queue' = <<order[nsi]>> /\ visited' = {order[nsi]}
                   /\ phase' = phase
    /\ UNCHANGED <<prog, order, dgtag, taint>>

EngineNext == MarkTaint \/ MarkInstrument \/ MarkDone
=============================================================================
