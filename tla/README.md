# TLA+ model of the Cape instrumentation engine

This directory models the Cape engine under `src/`. The engine is an LLVM dependence-graph pass. Given the variables annotated as secret, it:

- inserts hardware-transaction boundaries (`startTransaction` / `endTransaction`) around code whose control flow or addresses depend on a secret;
- inserts preloads of every object and function that code touches.

It also models the runtime in `src/samples/common.h` that executes those calls. The model checks the instrumented function on every path.

## The system's parts and how they interact

| Part | Source | State | Operations |
|---|---|---|---|
| Driver | `src/tools/llvm-dg-dump.cpp` 239-258 | `buff_id` (uint16), the seed set `callsites` | per seed: `mark` pass 0, pass 1, pass 2 (with the free calls) |
| Slicer::mark | `Slicing.h` 1152-1189 | `sl_id = 1` | one `WalkAndMark::mark`, then `handleFreeFunc` in pass 2 |
| WalkAndMark / markSlice | `Slicing.h` 36-91, 853-1017 | node and block slice tags, `allocId`, the per-walk data | pass 0: taint and loop forcing; pass 1: loop pre-pass; pass 2: sensitive accesses |
| Placement | `Slicing.h` 119-585 | inserted calls, tags 5 / 777 / 888 | processBBlockRevCDs, processBBlockIDomsAndNodeRevCDs, processHighestBr, placeTransForLoop, addTransactionEnd(ForLoop), preloadTransactionCode, addPreLoad |
| Preloading | `Slicing.h` 700-851, 318-342 | buffer ids of objects, `outside` calls (push/pop/insertMalloc) | handlePreloadingForSensitiveAccesses, checkAddressDependency |
| Free handling | `Slicing.h` 1106-1150 | calls before `free` | handleFreeFunc |
| Dominators | `PostDominators.cpp` 69-157 | idom, ipostdom, post-dominance frontier | computed once per function and stored in the blocks (`computePostDominators`) |
| NodesWalk | dg legacy, not under `src/` | FIFO queue, run ids | enqueue once per walk, with the callback deciding control edges |
| Runtime | `samples/common.h` 149-320 | RTM nesting, alloc stacks, malloc sets, globals | start/end transaction, iterate*, push/pop |
| Slicer | `Slicing.h` 1020-1074, 1226-1320 | node map, CFG blocks, `sliced_graphs`, `SlicerStatistics` | `slice`: `sliceBBlocks` on the root graph, then `sliceNodes`, recursive through kept call sites |
| Allocating function | the caller of the instrumented function (bsearch.c, dtree.c `main`) | its activations; `allocMap[id].stack` | alloca + pushAllocStack, return (+ popAllocStack before the first return only) |

Everything runs sequentially: one seed after another, one node after another. The hard behaviours are therefore not thread interleavings. They are:

- the order in which seeds, control-dependence blocks and pointees are met, where the code takes the *first* one;
- the tags that a walk for one seed leaves for the next;
- the structural gaps: no post-dominator, or a loop left through `abort()`;
- the buffer-id counter threaded through chained calls;
- what the emitted calls do at run time on every path.

## Modules

- **CapeCFG**: the control-flow facts of one function, as operators over a program record. These are dominators, post-dominators and control dependence, by their definitions, because LLVM computes them (`PostDominators.cpp`). It also holds the loop discovery of `markSlice` (`collectLoopBlks`, `getBrLoopBlocks`, `isCondExit`), translated from `Slicing.h`. `getBrLoopBlocks` returns the *set* of possible outcomes: the back-edge predecessor it meets first depends on address order.
- **CapeInstrument**: the driver's seed loop and the three passes, as a state machine.
  - State: the node tags `tag`, block tags `btag`, `allocId`, object buffer ids `bufId`, the calls inserted before each node (`ins`), the calls inserted in other functions (`outside`), function preloads `funcs`, the taint set and the walk (`queue`, `visited`).
  - Actions:
    - `MarkTaint`: one `markSlice` step of pass 0.
    - `MarkInstrument`: one `markSlice` step of pass 1 or 2. This includes the whole placement / preloading cascade it calls.
    - `MarkDone`: the end of a walk. It runs `handleFreeFunc` after pass 2, moves to the next `mark` call, and threads the driver's `buff_id`.
  - Each handler's nested calls are operators over a record `St`, so an action is the whole handler.
- **CapeExec**: the instrumented function, executed on every CFG path after instrumentation. Before each instruction it runs the inserted calls with the runtime semantics of `common.h`:
  - the RTM nesting depth;
  - `endTransaction` guarded by `_xtest`;
  - `warm`, the objects and functions touched since the outermost start.

  The position `epc` holds a block, an instruction index, a call index and a stage. The actions are:
  - `StartExec`: execution begins after the engine is done.
  - `RunInserted`: one inserted call.
  - `Arrive`: the calls before an instruction are all done.
  - `RunNode`: the instruction itself, where a branch takes any successor, within `MaxBlockSteps`.
  - `RTMAbort`: an abort and the retry loop.

  Calls run one at a time, so an abort can fall between any two of them.
- **CapeTxContract**: the abstract specification of what an instrumented function promises at run time (spec 4.2 and 8.3). Its state is `open`, `loaded` (what was preloaded since the transaction last began) and `at` (the event under way: idle, a sensitive access of some objects, a call of a function, the return, or the exit of a failed retry loop). Its actions are Begin, Commit, Preload, Restart, Exit, Access, CallFn, Return and Leave. CapeExec instantiates it with `open <- depth > 0`, `loaded <- warm \cup warmFn` and `at <- AtEvent`, and checks `TxContract == TxC!Spec` as a property: the executions of the instrumented code refine the contract.
- **CapeAllocStack**: the stack-buffer registry across activations of the function that *owns* a buffered alloca. That function is the caller of the instrumented one, and it is given as a program record with its allocas (`allocs`) and how often it is entered (`runs`). The state is the activation stack `frames` (block, index and the buffered objects allocated so far), the runtime's `allocMap` stacks `stacks`, and the number of entries `calls`. The actions are:
  - `Enter`: the function is called from outside.
  - `Alloca`: the alloca followed by the `pushAllocStack` inserted after it (Slicing.h 757-785).
  - `Return`: the return, with `popAllocStack` only before `getFuncRet`'s first return (Slicing.h 786-799).
  - `Recurse`: a recursive call, with depth at most `MaxDepth`.
  - `Branch`, `Other` and `Finished`.

  A frame's base address is its depth, because repeated calls from one site reuse one address. `MCAllocStack` holds the inputs: `main` of bsearch.c and dtree.c, a recursive helper, and a helper with an early return.
- **CapeSlicer**: `Slicer::slice(dg, sl_id)`. A program is a set of dependence graphs (node map, blocks, the callee graphs of each call node, the global nodes all graphs share) and the taggings `mark` can leave, each a node tag and a block tag map. The state is the tags, the nodes and blocks still present (`live`, `liveBlks`), `sliced` (`sliced_graphs`), the stack of active `sliceNodes` calls and the statistics. The actions are:
  - `SliceBBlocks`: `sliceBBlocks(dg, sl_id)` gathers the root graph's blocks tagged other than `sl_id`, counts them in the statistics and removes them with their nodes, then calls `sliceNodes` on the root.
  - `RemoveNode` / `KeepNode`: one entry of the node map, deleted when its tag is not `sl_id`, else its callee graphs are taken next.
  - `EnterSub`: one callee graph; `sliceNodes` recurses into it only if `sliced_graphs.insert` succeeds.
  - `SweepGlobals`: the end of a `sliceNodes` call, which deletes the untagged global nodes and returns.
  - `Finished`.

  `MCSlicer` holds the inputs:
  - `CALLS`: a call graph where `main` calls `f` from two sites, `f` calls `g` and `g` calls itself. It comes under every one of its 4096 sets of marked nodes. Each set is tagged as pass 0 tags it (`Pass0Tagging`, Slicing.h 901-907): a block carries `sl_id` exactly when one of its nodes does.
  - `RSA_PASS0` and `RSA_MARKED`: rsa.c's `exp`, with the tags the engine model `CapeInstrument` computes for it. The first has the tags after pass 0. The second has them after all three chained `mark` calls, read off the engine model's final state.
- **MCCape**: the input functions and the sets the cfgs pick from.
  - `RSA` is `exp` of rsa.c. `BSEARCH` is bsearch.c. `ADDRDEP` is the first table lookup of `AES_encrypt`, with a public abort arm. `DTREE` is `lookup_leafids` of dtree.c.
  - `NESTED`, `LOOPINIF`, `HEAPFREE` and `NESTEDCALL` are small shapes: nested secret ifs, a secret-exit loop inside a public if, a buffered malloc with free, and two loads of one secret array whose transactions nest around a call (two seeds; the stale 777 function-preload case).
  - The violation inputs are `TWOIFS`, `ABORTBR`, `ABORTLOOP`, `TWOBUFS`, `DTREE`, `LOOPTHENIF` (a secret-exit loop followed by a secret if).

### Abstractions

- **Programs** are reduced to the instructions the engine reacts to: loads, stores, memcpy, branches, calls, alloca, malloc, ret, unreachable.
  - Points-to sets and data/use edges are given per program (`pts`, `addr`, `dd`). Object kinds are secret, str, global, alloca (foreign or local) and malloc.
- **Walk order**: NodesWalk enqueues the successors of a node in pointer order. The model fixes that order to ascending node number. The choices the code makes by address order that change placement are left nondeterministic:
  - the seed order;
  - the control-dependence block `processBBlockRevCDs` picks;
  - the loop back edge;
  - the node `checkAddressDependency` matches;
  - how many pointees `handlePreloading` handles before a secret one.
- **One function per program.** The reverse-control recursion into other dependence graphs (`Slicing.h` 536-577) is not modelled. Objects of other functions are "foreign" allocas, whose push/pop calls are recorded in `outside`.
- **Runtime**:
  - `RTMAbort` is the fault model. An abort may happen at any step inside the outermost transaction. It rolls execution back to the outermost `startTransaction` (`txAt`) and empties `warm`/`warmFn`, since the speculative loads are lost. `startTransaction`'s `_xbegin` loop retries, and after `MaxRetries` failed attempts it calls `exit`. The runs use `MaxRetries = 1`. The code's 200 only repeats the same retry cycle, and 1 is enough to reach both the retry and the exit branch.
  - Cache-line arithmetic is a touch of the whole object.
  - Branch outcomes are free.

## Runs

All runs use `MaxBlockSteps = 9`, which bounds the block transitions of one execution and is enough for two iterations of each sample loop. They also use `MaxRetries = 1` (see Runtime above). The `Programs` set fixes the inputs. The state spaces are small (thousands of states), and the interesting cases are the input shapes.

| Run | cfg | Expect | What it shows |
|---|---|---|---|
| samples | `MCCape_samples.cfg` | pass (2891 states) | On rsa, bsearch, nested ifs, the aes lookup, heap with free, and a loop in an if, with every seed order and every address-order choice: every sensitive access runs in a transaction (`SensitiveAccessInTx`) with its globals and stack buffers preloaded (`SensitiveAccessPreloaded`); the function never returns inside a transaction (`TxClosedOnReturn`); the engine never dereferences a missing node (`EngineNeverCrashes`); and the runtime state stays in range (`ExecTypeOK`, which would break if `endTransaction` lost its `_xtest` guard on LOOPINIF's else path). |
| twoifs | `MCCape_twoifs.cfg` | violation | Seeds s1 then s2, with two sequential secret ifs: the second seed climbs to the first if's branch, which ends its transaction before the access. The access under the second if runs outside any transaction. |
| abortbr | `MCCape_abortbr.cfg` | violation | A secret branch with an `abort()` arm: the start is emitted but `addTransactionEnd` gives up, and the function returns inside the transaction. |
| abortloop | `MCCape_abortloop.cfg` | violation | A secret loop left through `abort()`: `addTransactionEndForLoop` reaches the virtual root and dereferences its null first node. |
| heap | `MCCape_heap.cfg` | violation | `insertMallocSet` has an empty body, so a sensitive heap access runs without its object preloaded. |
| bufreuse | `MCCape_bufreuse.cfg` | violation | The driver restarts `buff_id` at 0 for each seed, so two seeds' buffers share an id. |
| samples (contract) | `MCCape_samples.cfg` | (same run) | The samples run also checks the property `TxContract`. On the sample inputs, with aborts and retries, every execution refines `CapeTxContract` (`TxContract`). An access or call inside a transaction has its memory and code preloaded since the transaction last (re)started. Loads happen only inside the transaction, and the function returns with none open. It covers function preloads: with NESTEDCALL's seed order <<4,1>> the outer transaction's preloads lack `f` (stale tag 777), and the property shows that the inner start's preload still runs before the call. |
| dtree | `MCCape_dtree.cfg` | violation | dtree.c: the store to `leafids` in the loop's `break` arm is outside the loop set `collectLoopBlks` builds. Pass 1 has zeroed the loop branches' tags, so pass 2 places nothing, and the store runs in the loop transaction without `leafids` preloaded (`SensitiveAccessPreloaded`). |
| loopthenif | `MCCape_loopthenif.cfg` | violation | The idom climb for an access under a secret if after a secret-exit loop accepts the loop's unconditional pre-header `br` (tag 888) as the guarding branch. Only a preload is added to the loop's transaction, so the access runs with no transaction open (`SensitiveAccessInTx`). |

The findings are in `PROJECT.json`. Every property of the passing runs has a mutant: a plausible bug in the mapped definition that TLC catches.

### Stack-buffer registry

| Run | cfg | Expect | What it shows |
|---|---|---|---|
| allocstack | `MCAllocStack.cfg` | pass (111 states, `MaxDepth = 5`) | For bsearch.c `main`, dtree.c `main` (two buffered allocas, one of them a VLA) and a recursive helper entered three times, `allocMap[id].stack` always equals the bases of the live activations that ran the alloca, in call order (`RegistryHoldsLiveBases`, spec 2's "buffer id → live base addresses"). With a single return, the `pop_back` undoes the matching push even across nested activations. The mutant that pops the oldest entry is caught on the recursive helper. |
| earlyret | `MCAllocStack_earlyret.cfg` | violation | A helper with an early return after its buffer's alloca, entered twice. `popAllocStack` sits only before the first return in instruction order, so leaving through the other return keeps the dead frame's base, and the vector grows by one entry per such call. |

A variable-length array declared inside a loop breaks the same property: each iteration pushes, and only one pop runs at the return. No sample has one, so this is listed as a hazard rather than run.

### Slicer

| Run | cfg | Expect | What it shows |
|---|---|---|---|
| slicer | `MCSlicer.cfg` | pass (51468 states) | On `CALLS` under every pass-0 tagging, and on `RSA_PASS0`, `SliceSound` holds (spec 8.2, checked against a closure over the call graph). When `slice` returns, the root and every graph reached through kept call sites hold only nodes tagged `sl_id`. No untagged global survives. No tagged node was deleted, either by block removal or by `sliceNodes`. The mutant does not recurse into callees. |
| marked | `MCSlicer_marked.cfg` | violation | `slice(dg, 1)` on the tags `exp` carries after the three chained `mark` calls. Pass 2's `preloadTransactionCode` has retagged blocks B3 and B4 to 777, while their nodes keep tag 1. `sliceBBlocks` removes every block of the function, the secret bit test and the multiply arm included (`SliceSound`). |

A pass-0 tagging never trips `sliceBBlocks`: pass 0 tags a node's block together with the node. Passes 1 and 2 break this. They retag blocks to 777, 888, `slice_id+1` or `slice_id+2` while leaving the pass-0 node tags. The driver's slicing-criterion path (no secret annotated) runs all three `mark` calls and then slices, so the marked run is the driver's order of calls. That path goes through `LLVMSlicer`, which is not in the repository. The same path passes id 0 to `slice`, although `Slicer::mark` tags with 1 when given 0. That mismatch is listed as a hazard.

The root graph is never put in `sliced_graphs`. A module whose `main` is called back from one of its callees would have `main` swept twice. The second sweep deletes only what the first would, so no property can see it, and no input does it. `sliceNodes` does not touch the statistics, so `nodesTotal` and `nodesRemoved` count only the nodes of removed blocks. Callee graphs get no `sliceBBlocks`, so a callee block whose nodes are all deleted stays in its CFG. Whether the driver's `LLVMSlicer` removes such blocks itself cannot be told from the repository, so no property states either behaviour.

## Fairness

No run assumes fairness; every property checked is a safety property. Termination is not checked. The engine's walk, the driver loop and `slice` end only because of the bounds the model itself imposes (finite inputs, `MaxBlockSteps`, `MaxRetries`), so a liveness property would show nothing about the code. `Finished` stutters in the terminal phases, so deadlock checking stays on.

The dominator tables are computed once per input (`computePostDominators`, as in the code) and kept in the program record. `Ascending` is written in closed form. This keeps TLC's evaluation of `ENABLED` polynomial.

## Not modelled

- Option parsing, module I/O and debug output.
- The backward walk mode.
- Modules with no secret or with several secret globals. The driver leaves `secret_vl` uninitialized in the first case, and seeds only from the last secret in the second. Every input has one secret object: NESTEDCALL's two seeds are two loads of the same secret array. Both cases are listed as hazards.
- Cross-function reverse control dependence.
- In the Slicer: `Slicer::mark`, which runs pass 0 with a NULL points-to analysis, and the BFS overload `sliceBBlocks(BBlock*)`, which `slice` never calls. The driver reaches `slice` only through LLVMSlicer, which is not in the repository, and only when no secret is annotated. The slicer model therefore takes its tags as inputs; for `exp` they are the tags `CapeInstrument` computes, carried over by hand rather than by composing the two modules.
- The allocating function and the instrumented one are separate models (`CapeAllocStack` and `CapeExec`). The registry model takes the instrumentation of the allocating function from the code's rule (push after each buffered alloca, pop before the first return), not from `CapeInstrument`'s `outside` set.
- The 16-bit wrap of buffer ids. The model keeps `% 2^16`, but 65536 objects are out of reach.

## Plan for later sittings

1. Cross-function reverse control dependence (Slicing.h 536-577), which needs two dependence graphs in `CapeInstrument`.
2. A refinement of the engine's output against a per-path statement of the instrumentation (the `ins` map judged statically, rather than through executions).
