# A TLA+ model of ptranalysis

`ptranalysis` is a whole-program Andersen-style pointer analysis for LLVM
bitcode: it turns a module into inclusion constraints, shrinks the constraint
system offline, solves it, and answers points-to queries. These modules model
every phase of it - the constraint generator, the offline optimisation, the
solver with its data structures, and the client interface. TLC checks them on
families of small programs and constraint systems; TLAPS proves for every
instance that the solver implements an abstract one that computes the least
solution, under conditions section 4 names, and invariants of its tables, its
worklist and its cache.

## 1. Inventory

The program is sequential: one thread, no locks, nothing persisted. What makes
it hard is that **data read before a change is used after it**. Nodes of the
constraint graph are merged while the loops over their edges, pointees and
constraints are running, through a union-find whose merges trigger further
merges; the order of the work is decided by priorities that go stale; caches are
keyed by IDs that are reused; recursive walks meet values whose own walk is in
progress; and several steps delete constraints because a merge makes them
redundant. A test sees the points-to sets of a few programs, and a lost pointee
looks like a precise answer.

| Component | Source | State | Modelled by |
|---|---|---|---|
| Constraint generator | `anders/obj_cons_id.cpp` | nodes, constraints, value and object maps, `icall_cons`, struct info | `Program`, `ConsGen` (functions); `StructLayout`, `StructTypes`, `GlobalInit`, `TraceInt`, `ObjConsId` (what comes before) |
| External functions | `anders/extinfo.cpp`, `extinfo.h` | a table by name | `Program` (kinds only) |
| Offline optimisation | `anders/cons_opt.cpp` | the constraint list, offline graph, `hcd_var`, the union-find | `ConsOpt`, `OfflineGraph`, `ConstraintGraph` |
| Online solver | `anders/solve.cpp` | constraint graph, worklist, LCD state, offset tables | `PtsInit`, `Solver`, `ConstraintGraph` |
| Worklist | `worklist.h`, `heap.h` | two binary heaps with index maps | `Heap`, `Worklist`, `PrioWorklist` |
| BDD-to-vector cache | `anders/util.cpp` | vectors by BDD ID, LRU queue | `BddCache` |
| Sparse bitmap | `bitmap.h` | list of words, cached element | `Bitmap`, `BitmapIterator`, `BitSet` |
| Lifecycle, client interface | `anders/main.cpp` | everything above, phase by phase | `Results` |
| Pass wrapper, printing, statistics, switches | `anders-aa/`, `print.cpp`, `printbuf.h`, `common.h`, `config.h` | - | not modelled |
| Vendored | `bdd.h`, `fdd.h`, `bvec.h`, `profiler.h` | - | not modelled; a BDD is the set it represents |

The phases run in a fixed order and communicate through shared members of
`Anders`: the generator fills `constraints`, `nodes` and `icall_cons`;
`cons_opt` rewrites them and fills `hcd_var` and the union-find; `pts_init`
builds the tables for pointees at an offset; `solve_init` distributes the
constraints over the nodes; `solve` runs to a fixpoint or to a limit;
`run_cleanup` and `pts_cleanup` keep only the points-to sets. `merge_nodes`,
of `cons_opt.cpp`, is called offline, from two places of the solver, and from
`pts_cleanup`.

What makes each part correct:

* generator: every value and object has its node, laid out as the struct types
  say; no assert fails; the least solution of the constraints is what the
  program means;
* offline passes: the least solution of the new list, read through the
  representatives, is that of the old one; the list is one the solver can start
  from;
* solver: it terminates; a run that converges leaves a solution; nothing outside
  the least solution ever gets into a points-to set; a run stopped by a limit
  leaves a part of the least solution; no assert fails; no queued work, no
  constraint and no call instruction is lost by a merge;
* `merge_nodes`: only equivalent nodes are merged, everything of the child goes
  to the parent, and the child keeps nothing;
* heap, bitmap, cache, tables: they agree with the set, map or relation they
  stand for, also while they are iterated over;
* results: a query answers what the solver found, whatever the cleanups merge
  and delete.

The hazards - the places where these can go wrong and a test would hardly
notice - are listed line by line in `PROJECT.json`.

## 2. The modules

```
Program                    functions, instructions, external kinds
  ConsGen                  id_func, visit_func, every instruction visitor
    ConsGenProperties      (ConstraintSystem, to say what the constraints mean)
StructLayout > StructTypes > GlobalInit \
TraceInt                                 > ObjConsId      phases before the functions

ConstraintSystem           constraints, what a solution is, the least solution
  Andersen                 abstract solver
  OfflineGraph             offline graph, HVN/HRU labels, HCD cycles
  ConstraintGraph          Node objects, add_copy_edge, merge_nodes
    ConsOpt                cons_opt.cpp, the searches frame by frame
      ConsOptProperties
    Solver                 solve.cpp, one action per loop iteration
      SolverProperties
      Results              after solve, and the clients;   ResultsProperties
      SolverProofs > PrecisionProofs > SoundProofs (also about Results)
PtsInit                    pts_init, the tables of offsets;  PtsInitProofs
Heap > Worklist            the dual heap;   PrioWorklist   what it implements
  HeapProofs > WorklistProofs
Bitmap > BitmapIterator    the sparse bitmap; BitSet       what it implements
  BitmapProperties > BitmapProofs
BddCache                   bdd2vec;   BddCacheProofs
```

**ConstraintSystem** has the constraints of `anders.h` and, independent of any
graph, the meaning the code gives them: `Bases` (what `addr_of`, `gep` and
allocating calls put into a set) and `Flows` (the inclusions that copies, loads,
stores and calls force), `IsSolution`, and `Least`, computed by rounds from the
empty assignment. `ObjSz[o]` is the number of fields of the (sub)object starting
at `o`, so `o+k` is a field of it exactly when `k < ObjSz[o]` (`Fits`, `Shift`).
The node of a function has the size of its block of return value and parameters;
those have size 1. A call of an external function does what `ExtEffect` says of
the pair of function and call instruction; `handle_ext` of `ConsGenProperties`
is what the code does for each kind.

**ConstraintGraph** is the vector of `Node` objects: one record of functions on
node IDs. `rep` is what `get_node_rep` returns, the union-find without path
compression. `merge_nodes` is written field by field (`MergedPointees`, ...,
`MergedHcd`) and put together in `Absorb`; `Parent` and `Child` follow the
ranks; `NestedMerge` gives the arguments of the recursive call on the HCD
variables.

**Solver** has the locals of the C++ functions as variables, because their
staleness is the point. `pc` names the loop the program is in. Each action is
one iteration of a loop:

| Actions | Code |
|---|---|
| `SwapIfEmpty`, `Converge`, `PopStale`, `Visit` | the loop of `solve` up to and into `solve_node` |
| `HcdMember`, `HcdDone` | `solve_node` merging its new pointees with the HCD variable |
| `NextPhase`, `LsCons`, `LoadMember`, `StoreMember`, `HandleExt`, `LsDone`, `GepCons` | loads, stores and GEPs, `solve_ls_cons`, `solve_ls_off`, `handle_ext` |
| `Prop` | `solve_prop` |
| `MergeNodes`, `MergeReturn`, `ReturnToHcd`, `ReturnToCollapse` | `merge_nodes` with its recursion (`mframes`) |
| `GiveUp`, `KeepGoing`, `RunLcd` | limits and the decision to run LCD |
| `LcdStart`, `LcdDone`, `DfsEdge`, `DfsReturn`, `DfsDone`, `CollapseNode`, `Collapsed` | `run_lcd` and `lcd_dfs` with its recursion (`frames`) |
| `Finish` | the checks and the cleanup at the end of `solve` |

A failed assert leads to `pc = "abort"`, as does the use of an iterator whose
bitmap a merge has emptied. Nondeterministic are the order of entries of equal
priority in a heap, and the order in which a member's call instructions are
handled, which are in a set of pointers (the members themselves come ascending,
as `bdd2vec` lists them); whether an edge added behind the cursor of a bitmap iterator, within
the word it has cached, is seen (`DfsReturn`); and whether a limit is exceeded
when it is looked at. Constraint lists, bitmaps and `std::set`s are gone over in
the order of their IDs, as in the code.

**ConsOpt** is `cons_opt` from the list of the generator to the list of the
solver: `clump_addr_taken` (a permutation `move_to`), `hvn`, the rounds of `hr`
with HVN and HRU, `hcd`, and `factor_ls`. A pass builds the offline graph
(`StartPass`), and then each call, edge and return of `hvn_dfs` and `hcd_dfs` is
an action on a stack of frames (`DfsStart`, `CheckEdge`, `DfsReturn`, `NotRoot`,
`HvnRoot`, `HcdRoot`), so that components are collapsed while callers hold edges
into them. `HvnRoot` labels a node in the moment its component is popped
(`hvn_label`, `hu_label`); `merge_ptr_eq` merges the nodes of equal labels and
rewrites the constraints and `icall_cons`; `merge_nodes` is the recursive one of
the code. **OfflineGraph** states the same conclusions on reachability; it
supplies the edges and is what `MCSystems` uses to give the solver only such
lists as `cons_opt` leaves.

**PtsInit** builds `off_nodes`, `geps` and `off_mask` in the loops of
`pts_init`; the BDD adder is addition modulo the size of the domain. **Heap**
is `heap.h` down to the single exchange of `perc_up` and `perc_dn`, **Worklist**
two of them with the member-wise swap. **Bitmap** is the list of elements with
the element used last (`CurrElementIter`), every operation that has a caller;
**BitmapIterator** is the iterator with its copy of the current word, over a
bitmap that the loops of `lcd_dfs` and `solve_ls_cons` change. **BddCache** is
`bdd2vec` with its LRU queue of uses, the eviction loop (one pop per action),
`clear_bdd2vec`, `sat2vec`'s expansion of don't-cares, and `Collect` for BDDs the
library drops. **Results** is what follows `solve` in `runOnModule`, and the
four queries.

**StructTypes** is `_analyze_struct` with its recursion as a stack (`calls`),
**GlobalInit** the nodes of globals and the mutual recursion of
`proc_global_init` and `proc_gep_ce`, **TraceInt** `trace_int` with its memo
and both orders of evaluating the operands of `|` and `&`. **ObjConsId** runs
them in the order of `obj_cons_id`. **ConsGen** is the loop over the functions:
`id_func` with the layout of a function's object, the traversal of the blocks in
`visit_func`, and one operator per instruction visitor, each on a record `gen` of
nodes, maps and constraints. A **Program** has functions, blocks and
instructions whose operands are values; types appear only where a branch reads
them. It also says how it was built: the width of `long`, whether `KSA` is
defined, and which operand of a call is the callee. The code takes it from
operand 0 (`obj_cons_id.cpp:615`) and looks for escaping functions in a call's
operands from 1 on and an invoke's from 3 (`1773`, `1777`): that is LLVM's order
of 2008, when this was written and the classes used under `KSA` existed. In the
LLVM that `common.h` includes, operand 0 is the first argument and the callee is
last. `Operands` gives either order; `Callee` and `escapes` read it as the code
does.

**Abstract specifications.** `Andersen`: an abstract solver that may discover
any part of the least solution, says "solved" only with a solution, or stops with
a part; `Solver` implements it with `pt <- Result`. `PrioWorklist`: two sets of
entries of which a lowest is popped; `Worklist` implements it. `BitSet`: a set
for each bitmap; `Bitmap` implements it. `Solver` uses the first as its
worklist and plain sets for bitmaps, so these two refinements are what makes
its data structures right. `KeepsSolution`, `MeansTheProgram` and `TablesExact`
do the same for the other phases: what one phase is checked to leave is what the
next one assumes.

## 3. Properties and runs

All runs are exhaustive and take at most two minutes with two workers.

| Run | Instances | States | Properties |
|---|---|---|---|
| `cons_gen` | 5176 programs of two internal and two external functions, for both operand orders of a call | 181 000 | `NoAbort`, `NodesConsistent`, `MeansTheProgram` |
| `generator` | 864 sets of struct types, 2066 of globals, 14 276 graphs of integers | 152 000 | `LayoutAsDocumented`, `SizesFit`, `GlobalsConstrained`, `FindsPointers`, `FindsUntraceableOffsets` |
| `offline` | 488 raw constraint lists | 102 000 | `KeepsSolution`, `ReadyToSolve` |
| `pts_init` | 510 layouts and sets of offsets | 11 000 | `TablesExact` |
| `solver_core` | 184 systems of loads, stores and copies | 957 000 | `TypeOK`, `NothingForgotten`, `Sound`, `NonRepEmpty`, `Precise` |
| `solver_lcd` | 14 with a copy cycle that runs through an object | 317 000 | `NoAbort`, `LcdComplete`, `OnlyGrows`, `LcdMergesCycles`, `Terminates`, `ImplementsAndersen` |
| `solver_calls` | 9 with fields, an internal and an external function | 645 000 | `ListsCurrent`, `CallsKept`, `Sound` |
| `results` | 18 with fields and an address-taken parameter | 692 000 | `RightAnswers`, `ClassesAreSets`, `CleanupKeeps` |
| `worklist` | four nodes, two priorities | 1 817 000 | `IndexInverse`, `HeapOrder`, `ImplementsQueue` |
| `bitmap` | three bitmaps of three bits, one of five | 34 000 | `CurValid`, `QueriesAgree`, `TakesAll`, `ImplementsBitSet`, `TakesInOrder` |
| `bdd_cache` | three IDs, four BDDs, room for one large vector | 262 000 | `NoAbort`, `ReturnsNumbers`, `EvictsOldest`, `Returns` |
| `nested_lost` | see below | - | `Complete`, violated |

* `NothingForgotten` says, between two visits, that every pointee of every node
  has gone along all its edges and through all its constraints, or a queued
  visit that will not be skipped as stale is going to take it. It is the reason
  why `Sound` holds, and fails long before `Sound` does.
* `Sound` is checked against the *original* list, so it covers the constraints
  the solver deletes on the way (HCD, duplicates). `Precise` compares with the
  least solution in every state, and asks that merged nodes have the same least
  sets.
* `CallsKept` follows each call instruction through the in-place rewriting of
  its constraints, the moving of its `icall_cons` entry and the deletion of
  duplicates.
* `LcdMergesCycles` and `LcdComplete`: cycle detection merges only nodes on
  a cycle of copy edges at that moment, and leaves no cycle that its start nodes
  reach.
* `KeepsSolution` compares the least solution before and after all of
  `cons_opt`. Equality is asked when every dereferenced pointer points to
  something; otherwise a cycle through `*p` is no cycle, the merge is imprecise,
  and the new solution contains the old one.
* `ReadyToSolve` is what `Solver` takes for granted: factored lists, `hcd_var`
  that names true cycles, no call instruction lost by merges and temporaries.
* `MeansTheProgram` compares the least solution of the generated constraints
  with a reference that gives each instruction its meaning directly, with
  calls resolved by pointer.
* `GlobalsConstrained`: every field that an initializer fills has its
  constraint, inside its object, and every constant GEP has its own, whichever
  walk meets it first.
* `SizesFit`: a field reached in one GEP or in two is the same node, and the
  object size at the intermediate node admits the second offset.
* `RightAnswers` has one exception, stated in it: the set of a variable
  represented by an object (below).
* `ReturnsNumbers` excludes IDs reused while their vector is cached (below).

*Bounds.* `lcd_sz` is 1 (20 in the code) and `lcd_period` 4 (50000), so that
cycle detection runs within a few visits and by both of its triggers; the limits
are looked at every 4 and 6 visits (1024 and 10000), except in `solver_calls`,
which has the real periods. `min_del` of `hr`, 1000 or 2 in `offline`, makes it
go on for a second round or not. The families have up to 24 nodes and some 16
constraints; what counts is not the size but that each has the cycle, the shared
pointee or the call that makes the hard case happen: HCD with a late pointee, a
store that queues the node being visited, a cycle closed while the search is in
it, function pointers that are merged after their calls were seen, components of
several variables with a reference, nested merges offline, two temporaries for
one call. Elements of the bitmap have two words of two bits (two of 64), so that
bits share a word, an element, or neither; `MaxIndex` bounds the elements. The
cache has `CacheMax` and `CacheKeep` in numbers instead of megabytes; `MaxTime`
bounds the calls between two clearings. Four queued nodes make a heap of three
levels with a node that has one child. The counters `vtime` and `n_node_runs`
need no bound because the solver terminates.

*Deadlock* is not checked where the program stops (`CHECK_DEADLOCK FALSE`); the
heap, bitmap and cache are checked for it.

*Fairness* is `WF_vars(Next)` for the solver and for the cache: one thread that
never waits, so some next step is always taken. No fairness of a particular
action of the solver is assumed; in the cache it is that of the steps of a call
in progress, as nothing obliges a caller to make the next one.

Each property has a mutant in the modules (an operator with the comment
"Mutation"), a plausible slip in the code that TLC must then find.

### Disagreements with the code's own comments and asserts

`nested_lost` ends in a violation (`cons_opt.cpp:219`, `solve.cpp:257`). The
node a nested merge returns is not pushed. When the child was the one that was
queued, its entry is skipped because it is not a representative, and the solver
converges with a pointee missing. The passing runs of the solver use inputs in
which the class of the merged pointers points to something.

The rest was met in the same way; each is reproduced by the configuration of the
run named, with one replacement. The families of the passing runs leave these
inputs out.

| Run and replacement | Violated | Code |
|---|---|---|
| `solver_core`, `Inputs <- MC_Empty` | `Precise` | `cons_opt.cpp:210` derives from the equivalence of N1 and N2 that their HCD variables are in one cycle. They are, through whatever N1 points to; if it never points to anything they are not, and are merged nevertheless. |
| `solver_core`, `Inputs <- MC_Ranked` | `NoAbort` | `cons_opt.cpp:222`: "the only way for N1 to get merged again" is not: with `rhv1 = n1` and a `rhv2` of higher rank `n1` becomes the child, and the assert in the other branch fails. |
| `solver_lcd`, `Inputs <- MC_Upstream` | `NoAbort` | `solve.cpp:923`: collapsing one component can merge, through HCD variables, a node still on the recursion stack of `lcd_dfs` and in no component with it. |
| `results`, invariant `NoAnswerLost` | `NoAnswerLost` | `main.cpp:73` empties the set of every object node that is no argument, also when it represents a variable merged with it, whose set is then empty for the clients. |
| `pts_init`, `Inputs <- NoObject`, invariant `OffsetsInTables` | `OffsetsInTables` | `solve.cpp:141`: the tables end at the size of the largest object, but are indexed by every offset used. |
| `generator`, `Programs <- NullPrograms` | `GlobalsConstrained` | `obj_cons_id.cpp:1435`: a null nested struct counts as one field, whatever its size. |
| `generator`, `Programs <- ArrayPrograms` | `GlobalsConstrained` | `obj_cons_id.cpp:1476`: "The offset returned ... will be the same every time" fails when an element leads back to the global, which is then marked as done with its whole size. |
| `generator`, `Programs <- UsePrograms` | `GlobalsConstrained` | `obj_cons_id.cpp:1511` provides for GEPs on GEPs, but only those on a global get a node up front; one that only an instruction uses fails the assert of `get_val_node_cptr`. |
| `generator`, `Programs <- SelectPrograms` | `FindsPointers` | `obj_cons_id.cpp:1963` traces the first two operands of a select, the condition and one value. |
| `cons_gen`, `Programs <- Programs64` | `NoAbort` | `obj_cons_id.cpp:445` compares a `u32` with `~0UL`: where `long` has 64 bits, a function without pointer parameters gets parameters up to the end of the list and beyond. |
| `cons_gen`, `Programs <- ProgramsAlloca` | `NoAbort` | `obj_cons_id.cpp:650` finds the allocated type only when `KSA` is defined, which no file does. |
| `cons_gen`, `Programs <- ProgramsMemmove` | `NoAbort` | `obj_cons_id.cpp:1162` uses `get_val_node` where the argument may be a constant expression. |
| `cons_gen`, `Programs <- ProgramsTooMany` | `NoAbort` | `obj_cons_id.cpp:1050` asserts that a call through a bitcast passes no more arguments than the callee has. |
| `cons_gen`, `Programs <- ProgramsNew`, property `ObjectsKept` | `ObjectsKept` | `obj_cons_id.cpp:1239` enters the object that a call stores in its argument under the argument's value, in place of the object that value already has. |
| `cons_gen`, `Programs <- ProgramsExtCast` | `MeansTheProgram` | `solve.cpp:840` looks up an argument with `get_val_node`, which does not find a bitcast of a function or global. |
| `cons_gen`, `Programs <- ProgramsFunctionPassed` | `NoAbort` | `obj_cons_id.cpp:615`: `run(@g)` is handled as a direct call of `g`. If `g` has no parameters the assert at `1050` ("too many args to non-vararg func.") fails; if its parameter is a pointer and nothing else takes `g`, it has no node. |
| `cons_gen`, `Programs <- ProgramsArgumentLost` | `MeansTheProgram` | The same with an external function passed: nothing is bound to the parameter of the function called. "V is an arg of some function call" (`1765`) does not hold for `escapes` either, which starts at operand 1 (`1773`). |
| `cons_gen`, `Programs <- ProgramsInvoke` | `NoAbort` | An invoke without arguments has a block as operand 0, so "the callee was not identified as a function" (`634`) although it is named. It is in no operand from 3 on (`1777`) and has no node: the assert of `get_val_node_cptr` at `1735` fails. |
| `cons_gen`, `Programs <- ProgramsLastExternal` | `MeansTheProgram` | `memcpy` and its like, called with arguments, go to `id_ind_call`; the solver knows only allocations and returned arguments of external functions (`solve.cpp:764`), so the copies and stores are lost. The same is true of static data and of variable arguments. |

The last four are of the builds that `common.h` asks for, with the callee as the
last operand (`callee = "last"`). There a call with arguments, or any invoke, is
an indirect one, unless its first argument is a function, and then it is a direct
call of that function. Indirect calls by name still come out right for functions
without variable arguments and external ones that allocate or return an argument,
because the callee then counts as escaping: `LastByName`, `LastExternal` and
`LastNoArgument` check that in the passing run, without functions as first
argument or as an argument that `escapes` skips and that is taken nowhere else,
without an argumentless invoke by name of a function taken nowhere else, and
without a pointer result of a function that returns none, which is lost too.
The other families have the callee first.

Three more are written into the models. `bdd2vec` keeps vectors by ID without a
reference to the BDD, so a reused ID returns the vector of the BDD that had it
before (`util.cpp:135`; `stale` in `BddCache`). `_analyze_struct` writes the
size of the first field of a struct without fields (`obj_cons_id.cpp:1591`;
`WholeFirst`). `trace_int` reads the result of a value whose trace is in
progress as "traceable" and keeps what it computes from it, so on a cycle with
other arithmetic than offsets it can miss an untraceable path
(`obj_cons_id.cpp:1798`; the condition in `FindsUntraceableOffsets`).

## 4. Proofs

| Module | Theorem | Statement |
|---|---|---|
| `SolverProofs` | `TypeCorrect` | `Spec => []TypeOK` |
| | `RepsOwnAll` | `Spec => []NonRepEmpty` |
| | `ListsFollowMerges` | `Spec => []ListsCurrent` |
| | `Monotone` | `Spec => OnlyGrows` |
| | `CallsAttached` | `Spec => []CallsKept` |
| `SolverProofs` | `LeastIsLeast` | `Least(s)` is a solution and below every solution |
| `PrecisionProofs` | `StaysPrecise` | `Spec /\ []NoNestedLcd => []Precise`, for faithful inputs |
| | `OneCycleStaysPrecise` | `Spec => []Precise`, for faithful inputs with one offline cycle |
| `SoundProofs` | `StaysSound` | `Spec /\ []AsExpected => []Sound` |
| | `OneCycleStaysSound` | `Spec => []Sound`, for simple inputs |
| | `SolverImplements` | `Spec /\ []AsExpected /\ []NoNestedLcd /\ Terminates => ImplementsAndersen`, for faithful inputs |
| | `OneCycleImplements` | `Spec /\ Terminates => ImplementsAndersen`, for simple inputs |
| | `ClassesRight` | `RSpec => []ClassesAreSets` |
| | `CleanupLosesNothing` | `RSpec => CleanupKeeps` |
| | `AnswersStayRight` | `RSpec /\ []SolvesAsExpected => []RightAnswers`, for faithful inputs |
| | `OneCycleAnswersRight` | `RSpec => []RightAnswers`, for simple inputs |
| `PtsInitProofs` | `TablesCorrect` | `Spec => []TablesExact` |
| `HeapProofs` | `HeapOrdered` | `Spec => []HeapOrder` |
| | `PositionsCorrect` | `Spec => []IndexInverse` |
| `WorklistProofs` | `WorklistIsQueue` | `WSpec => ImplementsQueue` |
| `BddCacheProofs` | `AssertionHolds` | `Spec => []NoAbort` |
| | `CachedIsQueued` | `Spec => []QueueHasCached` |
| | `OldestGoes` | `Spec => EvictsOldest` |
| | `ReturnsTheNumbers` | `Spec => []ReturnsNumbers`, where `VectorsRight` |
| `BitmapProofs` | `CurStaysValid` | `IterSpec => []CurValid` |
| | `QueriesAlwaysAgree` | `IterSpec => []QueriesAgree` |
| | `BitmapsImplementSets` | `IterSpec => ImplementsBitSet` |
| | `LoopTakesAll` | `IterSpec => []TakesAll` |
| | `LoopTakesInOrder` | `IterSpec => TakesInOrder` |

The theorems
rest on the named assumptions on the constants. These only type them, but for
three: the fields of an object are nodes; the lists satisfy what `add_cons`
asserts of `i2p`, with every call instruction attached to a listed load or store
(`WellFormedAssumption`, used by `CallsAttached` and the theorems after it); and
the null node is in no constraint, which `add_cons` asserts too, and in no effect of
an external call, whose operands have nodes when it has one (`NullAssumption`, used
only by the four theorems about `RSpec`).
Nothing is assumed of the ranks or, except for precision and in what builds on
it, of `hcd_var`: unlike the runs, the solver's theorems cover inputs that no
offline phase produces.

*Solver.* `NonRepEmpty` and `ListsCurrent` are not inductive. A step that adds
an edge or takes a constraint out of a list does so at the nodes held in local
variables, and has to know that those are representatives *now*. `IInv` adds
just that: `hcd_rep` is a representative from the end of the merges to the end
of the visit and so are both ends of the load or store in progress (`VisitInv`),
the node returned by `merge_nodes` is one (`MergeInv`), and the innermost
frame of `lcd_dfs` is one whenever it is not waiting for a recursive call
(`LcdInv`) - which holds because the code's own assert stops the program
otherwise. The other frames are *not* known to be representatives (see
`MC_Upstream` above). The null node is its own representative, since `hcd_rep`
may be 0 and `solve_node` pushes it all the same.

*Calls.* `CallsKept` says that some constraint in the right list still stands for
each call instruction. To be inductive it must know that the constraint is not
about to go: not deleted as the duplicate of another one (`Doomed`), and not
half-way through being rewritten to representatives. `SweepInv` follows the loop
over one list: what it has gone over is up to date, and everything a later
constraint is compared with is still in the list (`ConsInv`).

*Least solution.* `Least` is a recursive function that goes on until nothing
changes. That it ends, with a solution, is an induction on the number of
pointees still missing; as the induction theorems cannot be instantiated here, the
proof takes a counterexample with the fewest. The rounds stay below any solution
because `Bases` and `Flows` are monotone.

*Precision.* Take any solution `S` of the system in which the offline cycles are
cycles: if `x` has the HCD variable `w`, `x` points to something and everything
it points to has the set of `w` (`Faithful`; the least solution is the one that
matters). Then everything the solver holds follows from `S` (`BelowInv`): the
points-to sets lie below it, each copy edge is an inclusion of `S`, merged nodes
have equal sets, and the same is true of what the locals are about to cause - the
pointees `solve_ls_off` has yet to go over (`MemberOK`), the HCD variable that
stands for them (`VisitBelow`), the arguments of `merge_nodes` and what its
recursion returns to (`MergeBelow`).
What `BelowInv` needs from lazy cycle detection is that the nodes it merges are
equivalent in `S`. `LcdBelow` is Tarjan's invariant, of a search whose nodes may
be merged while it runs: the frames are a chain of inclusions (`PathInv`), a frame
leads to all that was stacked since it began (`DownInv`), a stacked node leads
back past every frame numbered above it (`UpInv`), and only a frame that will turn
out not to be a root has stacked nodes of an outer component on top of its own
(`OrderInv`). Together they give `S[x] = S[root]` for every node popped with the
root. The condition `NoNestedLcd` keeps `merge_nodes` from reaching, through two
HCD variables, nodes of the search other than the two it was given. It is a real
one: `MC_Upstream` has such a merge. `OneCycleStaysPrecise` does without it, where
at most one node is anybody's HCD variable. `Faithful` is real as well
(`MC_Empty`). TLC found it true of the systems of `solver_core`, `solver_lcd`
and `solver_calls`, as it found `ConsInv`, `BelowInv` and `LcdBelowInv` invariant in
them.

*Soundness.* A pointee of a node is *settled* when no visit has to take it any
further: all the node points to, or, for a node that will be visited again, what
it had at the last visit. `SoundInv` says that a settled pointee has gone along
every copy edge, through every load, store and GEP *of the original list* that
dereferences its node, to the HCD variable of its node, and, if it is an external
function, through every call instruction (`NoneLost`). What makes this inductive
is how it counts the nodes that will be visited again. They are not only those on
the worklist: a caller in the middle of `merge_nodes`, `solve_ls_off` or `lcd_dfs`
is still going to push some, and so is the visit of a queued node with new
pointees, which pushes its HCD variable, whose visit pushes another. Instead of
computing that closure the invariant quantifies over all sets `Q` that contain it
(`Covering`): a step then only has to show that a set covering what comes after
it covers what was before it. A constraint of the original list is there in one
of three ways: some constraint equal up to merges is in the list of its pointer
(`Listed`), it was replaced by an edge to or from the HCD variable (`Gone`), or
the visit in progress has still to come to it (`Pending`). For the loop over one
list, `SeenMet` says that a constraint in `cons_seen` already means, for the new
pointees, what each duplicate deleted for its sake meant; `HcdMet`, that the new
pointees are merged with the HCD variable before constraints are replaced by an
edge to it; `FramesLinked`, that the edges `lcd_dfs` deletes are the ones it has
a replacement for; `MergeChain`, that every caller of a nested merge has new
pointees, hence a visit to come, which pushes the node the nested call returns and
nobody else does. With nothing queued and no function running, the empty set
covers, everything is settled, and the original constraints hold
(`MeansSolution`).

`AsExpected` is what the argument needs of the code beyond that, and each part is
a state in which a pointee could be lost. `MergesSeen`: a nested merge happens
between classes of which one points to something; it is violated by `nested_lost`.
`TypesKept`: a node that is merged into one of a type that is no pointer has
such a type itself, as `solve_ls_off` looks at the representative's type and skips
the argument. `CallsApart`: a call and another load or store at the same offset do
not become equal by merges, as the second is deleted as a duplicate of the first
although one means functions and the other means the rest. `SimpleInput` has
conditions on the input alone from which the three follow (and `NoNestedLcd`): one
HCD variable at most, calls that have their offsets for themselves, and
`NonPtrVal` within the parameters, for which alone the generator makes nodes whatever
their type (`obj_cons_id.cpp:447`). TLC found them true of all systems of
`solver_core` and `solver_calls` and of 11 of the 14 of `solver_lcd`; the other
three have two HCD variables.

*Refinement.* With `Precise`, `Sound` and `OnlyGrows` each step of `Solver` is one
of `Andersen`: until it returns, its points-to sets grow within the least
solution, `Finish` with nothing queued is `Solved` and with a limit exceeded
`Exhausted`, and nothing follows. That `Andersen` answers is a hypothesis
(`Terminates`), which TLC checks.

*Results.* The loop of `pts_cleanup` hands `merge_nodes` the node it is at and the
representative of the first node seen with the same set, and `merge_nodes`
asserts that they are two different representatives, neither the null node nor
`i2p`. `TableInv` has the reason: for every set in the table, the representative
of its entry has that set, has been gone over, and is the only such node - so the
entry may be a node merged away since, but the node at hand, not gone over yet,
is another one. When the loop is over this says that a set belongs to one
representative, hence `ClassesAreSets`. The null node must be known to have no
pointees when `solve` returns, or it could be merged; that is an invariant of
the solver (`NullInv`): nothing points to it, no edge leads to it, no constraint that
was rewritten to representatives writes to it, and `lcd_dfs` does not put it in the
place of another end of an edge. For `RightAnswers` the solver's invariants are carried
until `run_cleanup`, which finds the least solution (`DoneIsLeast`, from `Precise`,
`SoundInv` and `LeastIsLeast`); from there on each step keeps the set of every
variable that no object represents (`KeepsAnswers`). TLC found `NullInv` an invariant of
the `solver_*` runs, and `RInv` and `SolvesAsExpected` of `results`, all of whose 18
inputs are simple.

*Tables.* `IInv` of `PtsInit` says what each loop has done so far: `off_nodes[k]`
holds exactly the nodes of which `k` is the largest valid offset, and, as the
offsets are gone through downwards, `om` is the set of nodes with a field at some
offset already done, which is that of nodes with a field at the last one.

*Heap.* Between two exchanges only the entry being moved may be out of order,
and its children are in order with its parent (`OrderInv`): without the second
half an exchange could break the order below it.

*Worklist.* `WorklistProofs` uses `HeapProofs` twice, once for each heap, and shows
that each step of the heaps is a step of `PrioWorklist` or none: exchanges leave
the entries alone, a push replaces the entry of its value, and what `pop` takes
has the least key - of the positions with a smaller key than the first, the
lowest would have a parent that is one too.

*Cache.* Every use in the queue is at most as late as the time of its cached
vector, and the time of every cached vector is itself in the queue, so popping
an older use never removes the vector and popping the last one always finds it
(`CacheInv`). What is cached for an ID is the vector of the BDD that has it, unless
the one it was made for has been collected since (`ContentInv`): a vector goes in
for the BDD of the call, and an ID changes hands only by a collection, which makes
its vector stale. `ReturnsTheNumbers` is about that bookkeeping; that the rows of a
BDD expand to its numbers is its hypothesis `VectorsRight`, arithmetic with powers of
two, which is true of the BDDs of the run: there TLC finds `ReturnsNumbers` without it.

*Bitmap.* Between two calls a list is ascending without empty elements
(`IsList`), and the cached iterator is at one of its elements or at the end
(`MapsInv`). The search then ends at the element wanted, or at a neighbour of its
place, wherever it starts (`SearchFinds`). The operations on two lists are walks,
functions over pairs of positions; such a function exists because each call is at
a pair of higher rank, the sum of the positions (`WalkExists`), and what a walk
returns is shown for the pair of highest rank that could be a counterexample
(`WalkMeans`, once for `|=`, `&=` and the removal of another bitmap). A set has
one list (`EqualBits`), which is why comparing lists compares sets. For a loop,
`IterInv` says that every bit there at the beginning that has not been taken is
still in the bitmap at or after the iterator, and in its copied word if it belongs
there (`Fits`). The bitmap changes behind the iterator or grows; a bit in the
copied word cannot be reset, since only bits taken are, and a bit of a later word
is found in the list when the iterator gets there, as words do not cross elements
(`WordElement`). The theorems hold for any number of words in an element and of
bits in a word.

Only model-checked: the two properties of cycle detection, `NoAbort` of the solver
and the generator, `NothingForgotten`; everything about `ConsOpt`, `ConsGen` and
`ObjConsId`. `NothingForgotten` is about the lists as they
are and looks one HCD variable ahead, which is what can be read off a state;
`SoundInv` takes its place in the proof.
`Terminates`, `Returns` and the refinements' liveness are out of the prover's
reach, as are facts about recursive operators: `merge_nodes` in
`ConsOpt`, the walks of `GlobalInit` and `TraceInt`.

## 5. Not modelled

* BDDs: points-to sets are sets. `bdd2vec` is the set's members in ascending
  order in `Solver`, and `BddCache` shows that it returns them.
* Path compression and the parent pointers of the union-find: `rep` is
  what `get_node_rep` returns.
* `set_range`, `clear_range`, `>>=` and the friends of the bitmap that no code
  calls; the worklists that `WL_ORDER` compiles out.
* `releaseMemory` and a second module in one process; statistics, printing and
  debugging checks; the table of external functions by name, which is data.
* In the generator: types beyond what a branch reads; fields of objects other
  than functions' in `ConsGen`, whose layout is `ObjConsId`'s subject; LLVM's own
  order of uses. `AnalyzeStructs` analyses every struct first, while the code
  meets literal ones on demand; `SizesFit` compares only analysed ones.
* The walks over uses (`obj_cons_id.cpp:1355`, `1648`, `1771`) test `*it` as the
  user of the value, and so do the models. In LLVM from 3.5 on `*it` is a `Use`,
  whose casts look at the used value, so with those headers a function would
  escape by any use and no constant GEP or cast of an allocation would be found.
* Asserts that follow from the caller: `main.cpp:187` in `Results`,
  `cons_opt.cpp:490`, `492`, `536` and `545` in `OffEdges`.
* The pass wrapper, the driver script and the BuDDy headers.

## 6. Plan

1. **Composition.** `PtsInit` with `Solver`, so that offsets are looked up in the
   tables; `Solver` started from what `ConsOpt` leaves.
2. **Lifecycle.** A sequence of modules with `releaseMemory` and the members
   that survive it.
