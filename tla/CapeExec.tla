------------------------------- MODULE CapeExec -------------------------------
(***************************************************************************)
(* The instrumented function, run.  After the driver's last mark call the *)
(* function executes along every path of its CFG (branch outcomes are     *)
(* free), running before each instruction the calls the engine inserted   *)
(* there, with the runtime effects of samples/common.h:                    *)
(*   startTransaction   _xbegin: RTM nests by counting (depth)             *)
(*   endTransaction     _xend only when _xtest says a transaction is open  *)
(*   iterateAllocStack  touches every buffer pushed under the id           *)
(*   iterateMallocSet   touches the malloc set of the id, which stays      *)
(*                      empty: insertMallocSet has an empty body           *)
(*   iterateGlobal      touches the global                                 *)
(*   preloadInstAddr    touches the named function's code                  *)
(* Objects of other functions were pushed by their callers before this    *)
(* function runs.  warm holds what was touched since the outermost start. *)
(***************************************************************************)
EXTENDS CapeInstrument

CONSTANTS
    MaxBlockSteps,  \* bound on block transitions of one execution
    MaxRetries      \* MAX_RETRIES of common.h (200 there)

VARIABLES
    epc,     \* [b: block, i: index in block, c: next inserted call,
             \*  st: "calls" | "node"]
    depth,   \* RTM nesting depth (_xtest is depth > 0)
    warm,    \* objects touched since the outermost transaction began
    warmFn,  \* functions whose code was touched since then
    steps,   \* block transitions taken
    txAt,    \* where the outermost startTransaction was called
    retries  \* startTransaction's local retry counter

execVars == <<epc, depth, warm, warmFn, steps, txAt, retries>>
vars == <<engineVars, execVars>>

CurNode == prog.code[epc.b][epc.i]

\* Fault-injection variant: endTransaction without its _xtest guard.
RunCallNoXtest(r, c) ==
    CASE c.k = "start" -> IF r[1] = 0 THEN <<1, {}, {}>> ELSE <<r[1] + 1, r[2], r[3]>>
      [] c.k = "end"   -> <<r[1] - 1, r[2], r[3]>>
      [] c.k = "iterStack" ->
            <<r[1], r[2] \cup {o \in Objs : IsForeignAlloca(o) /\ bufId[o] = c.id}, r[3]>>
      [] c.k = "iterGlobal" -> <<r[1], r[2] \cup {c.o}, r[3]>>
      [] c.k = "preloadFn"  -> <<r[1], r[2], r[3] \cup {c.o}>>
      [] OTHER -> r
\* The runtime effect of one inserted call on <<depth, warm, warmFn>>.
RunCall(r, c) ==
    CASE c.k = "start" -> IF r[1] = 0 THEN <<1, {}, {}>> ELSE <<r[1] + 1, r[2], r[3]>>
      [] c.k = "end"   -> IF r[1] > 0 THEN <<r[1] - 1, r[2], r[3]>> ELSE r
      [] c.k = "iterStack" ->
            <<r[1], r[2] \cup {o \in Objs : IsForeignAlloca(o) /\ bufId[o] = c.id}, r[3]>>
      [] c.k = "iterGlobal" -> <<r[1], r[2] \cup {c.o}, r[3]>>
      [] c.k = "preloadFn"  -> <<r[1], r[2], r[3] \cup {c.o}>>
      [] OTHER -> r   \* iterMalloc over an empty set; registry bookkeeping

ExecInit ==
    /\ epc = [b |-> prog.entry, i |-> 1, c |-> 1, st |-> "calls"]
    /\ depth = 0
    /\ warm = {}
    /\ warmFn = {}
    /\ steps = 0
    /\ txAt = epc
    /\ retries = 0

Init == EngineInit /\ ExecInit

\* The instrumented function starts once instrumentation is complete.
StartExec ==
    /\ phase = "done"
    /\ phase' = "exec"
    /\ UNCHANGED <<prog, order, si, pass, queue, visited, tag, btag, dgtag, allocId,
                   bufId, ins, funcs, outside, taint, execVars>>

\* The next call inserted before the current instruction.  An outermost
\* startTransaction is where an abort resumes, with a fresh retry count.
RunInserted ==
    /\ phase = "exec" /\ epc.st = "calls" /\ epc.c <= Len(ins[CurNode])
    /\ LET call == ins[CurNode][epc.c]
           r    == RunCall(<<depth, warm, warmFn>>, call)
       IN  /\ depth' = r[1] /\ warm' = r[2] /\ warmFn' = r[3]
           /\ IF call.k = "start" /\ depth = 0
              THEN txAt' = epc /\ retries' = 0
              ELSE UNCHANGED <<txAt, retries>>
    /\ epc' = [epc EXCEPT !.c = @ + 1]
    /\ UNCHANGED <<engineVars, steps>>

\* All inserted calls have run: the instruction itself is next.
Arrive ==
    /\ phase = "exec" /\ epc.st = "calls" /\ epc.c > Len(ins[CurNode])
    /\ epc' = [epc EXCEPT !.st = "node"]
    /\ UNCHANGED <<engineVars, depth, warm, warmFn, steps, txAt, retries>>

\* The instruction itself: ret and unreachable end the run, a branch moves
\* to one of its successors, anything else to the next instruction.
RunNode ==
    /\ phase = "exec" /\ epc.st = "node"
    /\ CASE Op(CurNode) = "ret" ->
              phase' = "returned" /\ UNCHANGED <<epc, steps>>
         [] Op(CurNode) = "unreachable" ->
              phase' = "aborted" /\ UNCHANGED <<epc, steps>>
         [] IsBr(CurNode) /\ steps = MaxBlockSteps ->
              phase' = "cut" /\ UNCHANGED <<epc, steps>>
         [] IsBr(CurNode) ->
              /\ \E t \in prog.succ[epc.b] : epc' = [b |-> t, i |-> 1, c |-> 1, st |-> "calls"]
              /\ steps' = steps + 1 /\ phase' = phase
         [] OTHER ->
              epc' = [epc EXCEPT !.i = @ + 1, !.c = 1, !.st = "calls"] /\ UNCHANGED <<phase, steps>>
    /\ UNCHANGED <<prog, order, si, pass, queue, visited, tag, btag, dgtag, allocId,
                   bufId, ins, funcs, outside, taint, depth, warm, warmFn, txAt, retries>>

\* An RTM abort (conflict, capacity, interrupt) while a transaction runs:
\* everything since the outermost _xbegin is rolled back and _xbegin
\* returns the abort status into startTransaction's loop, which gives up
\* with exit(status) once retries++ >= MAX_RETRIES and otherwise begins
\* again, the transaction's preloads still ahead.
RTMAbort ==
    /\ phase = "exec" /\ depth > 0
    /\ IF retries >= MaxRetries
       THEN /\ phase' = "exited" /\ depth' = 0
            /\ UNCHANGED <<epc, warm, warmFn, retries>>
       ELSE /\ retries' = retries + 1
            /\ epc' = [txAt EXCEPT !.c = @ + 1]
            /\ depth' = 1 /\ warm' = {} /\ warmFn' = {}
            /\ phase' = phase
    /\ UNCHANGED <<prog, order, si, pass, queue, visited, tag, btag, dgtag, allocId,
                   bufId, ins, funcs, outside, taint, steps, txAt>>

\* Runs end; the engine may crash.
Finished ==
    /\ phase \in {"returned", "aborted", "cut", "crashed", "exited"}
    /\ UNCHANGED vars

Next ==
    \/ EngineNext /\ UNCHANGED execVars
    \/ StartExec
    \/ RunInserted
    \/ Arrive
    \/ RunNode
    \/ RTMAbort
    \/ Finished

Spec == Init /\ [][Next]_vars

-----------------------------------------------------------------------------
(* Properties.                                                             *)

ExecTypeOK ==
    /\ phase \in {"mark", "done", "crashed", "exec", "returned", "aborted", "cut", "exited"}
    /\ pass \in {0, 1, 2}
    /\ si \in 1..Len(order)
    /\ queue \in Seq(N) /\ visited \subseteq N /\ taint \subseteq N
    /\ tag \in [N -> {0, Sid, Sid + 1, Sid + 2, Sid + 3, LoopPlaced}]
    /\ btag \in [Blocks -> {0, Sid, Sid + 4, Preloaded}]
    /\ allocId \in 0..(BuffWidth - 1)
    /\ bufId \in [Objs -> 0..allocId + Cardinality(Objs)]
    /\ \A n \in N : \A i \in DOMAIN ins[n] : ins[n][i].k \in CallKinds
    /\ epc.b \in prog.blocks /\ epc.i \in DOMAIN prog.code[epc.b]
    /\ epc.c \in 1..(Len(ins[CurNode]) + 1) /\ retries \in 0..MaxRetries
    /\ depth \in Nat /\ warm \subseteq Objs /\ steps \in 0..MaxBlockSteps

\* The pointees of an access's operands (only pointer operands have any).
AccessObjs(n) == UNION {prog.pts[n][i] : i \in {0, 1}}
\* Blocks whose execution a branch at the end of a block in bs decides:
\* the transitive control dependence of the block of n.
RECURSIVE Guards(_, _)
Guards(front, seen) ==
    LET next == UNION {prog.pdf[b] : b \in front} \ seen
    IN  IF next = {} THEN seen ELSE Guards(next, seen \cup next)
SecretGuarded(n) ==
    \E a \in Guards({BlockOf(prog, n)}, {}) :
        Op(LastNode(prog, a)) = "condbr" /\ LastNode(prog, a) \in taint
SecretAddressed(n) == \E i \in {0, 1} : prog.addr[n][i] \cap taint # {}
\* A sensitive access: a tainted load, store, memcpy or memset of public,
\* preloadable objects whose execution or address depends on the secret.
SensitiveAccess(n) ==
    /\ n \in taint /\ IsAccess(n)
    /\ \A o \in AccessObjs(n) : prog.kind[o] \notin {"secret", "str"}
    /\ \E o \in AccessObjs(n) : prog.kind[o] = "global" \/ Bufferable(o)
    /\ SecretGuarded(n) \/ SecretAddressed(n)
AtSensitiveAccess == phase = "exec" /\ epc.st = "node" /\ SensitiveAccess(CurNode)

\* The objects of a sensitive access the engine preloads: globals and
\* stack buffers of other functions.
PreloadableObjs(n) ==
    {o \in AccessObjs(n) : prog.kind[o] = "global" \/ IsForeignAlloca(o)}

\* The contract event the function is at: a sensitive access or a call
\* about to execute, the return, the exit of the retry loop, or none.
AtEvent ==
    CASE phase = "returned" -> [k |-> "ret"]
      [] phase = "exited"   -> [k |-> "exit"]
      [] AtSensitiveAccess  -> [k |-> "access", objs |-> PreloadableObjs(CurNode)]
      [] phase = "exec" /\ epc.st = "node" /\ CurNode \in DOMAIN prog.callee ->
            [k |-> "call", f |-> prog.callee[CurNode]]
      [] OTHER -> [k |-> "idle"]

TxC == INSTANCE CapeTxContract
           WITH open <- depth > 0, loaded <- warm \cup warmFn, at <- AtEvent

\* The instrumented function, aborts and retries included, implements the
\* contract: startTransaction/endTransaction pairs (nesting and _xtest
\* flattened) bracket every sensitive access, every iterate*/preloadInstAddr
\* call runs inside a transaction, every call made inside one is to a
\* function preloadTransactionCode named, and after an RTM abort the retry
\* runs the preloads again before the access.
TxContract == TxC!Spec

\* Spec 4.2's goal: every path reaching a sensitive access runs it inside a
\* transaction (the startTransaction placed by processHighestBr or
\* placeTransForLoop on a guarding branch, loop or address dependency).
SensitiveAccessInTx == AtSensitiveAccess => depth >= 1

\* ... and every global and stack object that access touches was preloaded
\* after the outermost transaction began (addPreLoad's iterateGlobal and
\* iterateAllocStack calls, with the ids handlePreloading assigned).
SensitiveAccessPreloaded ==
    AtSensitiveAccess =>
        {o \in AccessObjs(CurNode) : prog.kind[o] = "global" \/ IsForeignAlloca(o)} \subseteq warm

\* ... and so was every heap object it touches (iterateMallocSet reading the
\* set insertMallocSet filled).
HeapAccessPreloaded ==
    AtSensitiveAccess => {o \in AccessObjs(CurNode) : prog.kind[o] = "malloc"} \subseteq warm

\* Spec 8.3: every startTransaction is closed by an endTransaction on every
\* path to the function's return (addTransactionEnd at the post-dominator).
TxClosedOnReturn == phase = "returned" => depth = 0

\* Spec 7: a missing structural element is logged and skipped; the engine
\* never fails (addTransactionEndForLoop dereferences the post-dominator's
\* first node).
EngineNeverCrashes == phase # "crashed"

\* Spec 8.4: buffer ids are never reused within a run, across the chained
\* mark calls the driver threads buff_id through.
BufferIdsNeverReused ==
    \A o1, o2 \in Objs : o1 # o2 /\ bufId[o1] # 0 => bufId[o1] # bufId[o2]
=============================================================================
