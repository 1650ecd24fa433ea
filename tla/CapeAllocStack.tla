---------------------------- MODULE CapeAllocStack ----------------------------
(***************************************************************************)
(* The stack-buffer registry across activations of the function that owns *)
(* a buffered alloca.  handlePreloadingForSensitiveAccesses, on the first  *)
(* access to an alloca of another function, inserts pushAllocStack right   *)
(* after the alloca and popAllocStack before getFuncRet of that function:  *)
(* its first return instruction.  At run time allocMap[id].stack is a      *)
(* vector of base addresses; iterateAllocStack preloads every entry.       *)
(*                                                                         *)
(* The allocating function p is a program record as in CapeCFG, with       *)
(*   p.allocs  [alloca node -> buffered object]                            *)
(*   p.runs    how many times it is entered from outside                   *)
(* and opcodes alloca, call (the instrumented function, whose preloads     *)
(* read the registry), self (a recursive call), br, condbr, ret, other.    *)
(* A frame's base address is its depth on the call stack: repeated calls  *)
(* from the same site reuse the same address.                              *)
(***************************************************************************)
EXTENDS Naturals, Sequences, FiniteSets, SequencesExt, CapeCFG

CONSTANTS Callers, MaxDepth

VARIABLES
    caller,   \* the allocating function
    frames,   \* its activations, innermost last: [b, i, live]
    stacks,   \* allocMap: object (its buffer id) -> vector of bases
    calls     \* entries into the function from outside so far

vars == <<caller, frames, stacks, calls>>

Objs == {caller.allocs[n] : n \in DOMAIN caller.allocs}
Top == frames[Len(frames)]
Cur == caller.code[Top.b][Top.i]

\* getFuncRet: the first ReturnInst in the function's instruction order
\* (blocks in layout order; node numbers follow that order).
getFuncRet(p) ==
    LET rets == {n \in Nodes(p) : p.op[n] = "ret"}
    IN  CHOOSE r \in rets : \A q \in rets : r <= q

\* A successor may start a recursive call only below the depth bound.
Enterable(b) == caller.op[FirstNode(caller, b)] # "self" \/ Len(frames) < MaxDepth

\* The runtime's vector operations on allocMap[idx].stack.
pushAllocStack(st, base) == Append(st, base)
\* Fault-injection variant: the oldest entry is removed.
popAllocStackFront(st) == IF st = <<>> THEN <<>> ELSE Tail(st)
popAllocStack(st) == IF st = <<>> THEN <<>> ELSE Front(st)

Advance(f) == [f EXCEPT !.i = @ + 1]

Init ==
    /\ caller \in Callers
    /\ frames = <<>>
    /\ stacks = [o \in {caller.allocs[n] : n \in DOMAIN caller.allocs} |-> <<>>]
    /\ calls = 0

\* The function is entered from outside (main once, a helper as often as
\* its caller loops).
Enter ==
    /\ frames = <<>> /\ calls < caller.runs
    /\ frames' = <<[b |-> caller.entry, i |-> 1, live |-> {}]>>
    /\ calls' = calls + 1
    /\ UNCHANGED <<caller, stacks>>

\* The alloca, then the pushAllocStack(id, n, size, base) inserted right
\* after it: E->stack.push_back(pt).
Alloca ==
    /\ frames # <<>> /\ caller.op[Cur] = "alloca"
    /\ LET o == caller.allocs[Cur]
       IN  /\ frames' = [frames EXCEPT ![Len(frames)] =
                            [Advance(@) EXCEPT !.live = @ \cup {o}]]
           /\ stacks' = [stacks EXCEPT ![o] = pushAllocStack(@, Len(frames))]
    /\ UNCHANGED <<caller, calls>>

\* An instruction without effect on the registry; a call of the
\* instrumented function reads it (iterateAllocStack) and returns.
Other ==
    /\ frames # <<>> /\ caller.op[Cur] \in {"other", "call"}
    /\ frames' = [frames EXCEPT ![Len(frames)] = Advance(@)]
    /\ UNCHANGED <<caller, stacks, calls>>

Branch ==
    /\ frames # <<>> /\ caller.op[Cur] \in {"br", "condbr"}
    /\ \E s \in caller.succ[Top.b] :
          /\ Enterable(s)
          /\ frames' = [frames EXCEPT ![Len(frames)] = [b |-> s, i |-> 1, live |-> @.live]]
    /\ UNCHANGED <<caller, stacks, calls>>

\* A recursive call: the caller resumes after it when the callee returns.
Recurse ==
    /\ frames # <<>> /\ caller.op[Cur] = "self" /\ Len(frames) < MaxDepth
    /\ frames' = Append([frames EXCEPT ![Len(frames)] = Advance(@)],
                        [b |-> caller.entry, i |-> 1, live |-> {}])
    /\ UNCHANGED <<caller, stacks, calls>>

\* A return; before getFuncRet's instruction only, popAllocStack(id) for
\* every buffered alloca: if (!E->stack.empty()) E->stack.pop_back().
Return ==
    /\ frames # <<>> /\ caller.op[Cur] = "ret"
    /\ frames' = Front(frames)
    /\ stacks' = IF Cur = getFuncRet(caller)
                 THEN [o \in Objs |-> popAllocStack(stacks[o])]
                 ELSE stacks
    /\ UNCHANGED <<caller, calls>>

\* Every entry from outside has returned.
Finished ==
    /\ frames = <<>> /\ calls = caller.runs
    /\ UNCHANGED vars

Next == Enter \/ Alloca \/ Other \/ Branch \/ Recurse \/ Return \/ Finished

Spec == Init /\ [][Next]_vars

\* The bases of o's live activations, outermost first.
LiveBases(o) ==
    LET Has(k) == o \in frames[k].live
    IN  SelectSeq([k \in 1..Len(frames) |-> k], Has)

\* Spec 2: the buffer registry maps a stack buffer's id to its live base
\* addresses.  pushAllocStack after the alloca and popAllocStack before
\* getFuncRet's return keep allocMap[id].stack equal to the bases of the
\* activations that allocated it and have not returned: no entry of a
\* returned frame stays behind to grow the vector, and no live one is lost
\* for iterateAllocStack.
RegistryHoldsLiveBases == \A o \in Objs : stacks[o] = LiveBases(o)
==============================================================================
