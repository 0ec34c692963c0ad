# A verification model of TenniS

TenniS (namespace `ts`) is a C++ inference engine for tensor programs.  A
`Module` holds a graph of operator nodes; `Compiler` turns it into a list of
stack instructions; `Workbench` runs that list on a stack of tensors.  This
directory holds TLA+ modules translated from the code, the TLC configurations
that check them on small instances, and theorems about them that TLAPS checks.
Paths below are relative to the repository.

To check a run, `tlc -config X.cfg M` with the module and configuration of the
table under [Runs](#runs); to check the proofs, `tlapm M_proof.tla`.

## Inventory

| Part | State | Operations | Interacts with |
|---|---|---|---|
| `Compiler` (`compiler/compiler.cpp`) | graph after zip and const folding, `simulator`, `working_nodes`, `unsolved_node_count`, `block`, data segment | `compile`, `build_node_refs`, `run_const_nodes`, `convert_operator_instruction` | `Module::list_reference_nodes`, `Zipper`, operator registries, `intime::run` |
| `Stack`, instructions (`runtime/stack.cpp`, `runtime/instruction*`) | `m_stack`, `m_base`, `m_base_stack` | push, index, swap, erase, push_base/pop_base, `OperatorInstruction::run` | run by `Workbench` |
| `Workbench` (`runtime/workbench.cpp`) | program environments, stack, inputs, outputs, runtime context | setup, bind, run, `launch_online`, `launch_offline`, `offline_run`, clone, hooks | `Program`, `Stack`, thread-local contexts, `ThreadPool` |
| `Program` (`runtime/program.cpp`) | instructions, data segment, input filters and types | Compile, clone, bind_filter, set_operator_param | `Compiler`, `Translator`, `Workbench` |
| `Module`, `Graph`, `Node`, `Bubble` (`module/*`) | nodes, links, inputs, outputs | load, save, sort_inputs, list_reference_nodes, Fusion | `Compiler`, `Translator` |
| Module files (`module/menu.cpp`, `bubble.cpp`, `core/tensor.cpp`, `encryption/*`) | what is read or written, blocks looked ahead | Save, Load, streams over enciphered blocks | `Module`, files |
| `Translator`, `Zipper`, options (`compiler/*`) | memo from old to new nodes; options | translate, zip, fp16, pack, winograd | rewrite a graph before it is compiled; change Consts of the module |
| `ThreadPool`, `Thread` (`runtime/inside/*`) | idle cores, a task per thread, shutdown flag | run, join, busy, destructor | `parallel_run` in kernels |
| `rwmutex` (`utils/mutex.h`) | reader and writer counts | lock and release, read and write | `SyncBlock`, registries |
| `SyncBlock`, `SyncMemory`, controllers (`core/sync/*`) | one value per device, shared by all views, and a default value per view | sync, value, view, broadcast, foreach | tensors shared by workbenches |
| Shape inference (`runtime/inferer.cpp`, `runtime/inferer/factory.cpp`) | prototypes of a call, `#value` of nodes | infer, a rule per operator | front end and compiler options; runs operators to get values |
| Operators (`backend/*`, `kernels/cpu`) | parameters | init, infer, run | instructions, shape inference, folding |
| `Vat`, `Pot`, flow controllers (`memory/*`) | blocks in use and free blocks | malloc, free, reset, deprecated, swap | allocation of the tensors of a run |
| `Smart`, `Tensor`, `HardMemory` (`core/*`) | reference counts, memory | copy, weak, dispose | everything |
| Thread-local contexts (`utils/ctxmgr_lite*`, `core/device_context.cpp`) | a pointer per thread and type | bind, unbind, get | `Workbench`, kernels |
| Kernels (`kernels/cpu`, `kernels/gpu`, `backend/base`) | buffers for the length of a call; transformed weights | run, loops and launches | instructions, `ThreadPool`, OpenMP, CUDA |
| Registries, hooks, profiler, C API, front end | tables filled at start-up, wrappers | query, run | `Compiler`, `Workbench` |

### How the parts interact

`Program::Compile` translates a module (`Translator`), gives its inputs and
outputs to `Compiler::compile`, and keeps the instructions and the data segment.
`compile` rewrites the graph twice (`Zipper::zip`, then `run_const_nodes`, which
already *runs* operators through `intime::run` on the bound workbench), collects
references (`build_node_refs`) and emits instructions backwards.

`Workbench::run` pushes an empty frame and the inputs onto the stack and
launches the program; the program's instructions call operators, each in a
frame of its own; inputs may be sent through other programs (filters) and casts
first, by nested launches on the same stack.  Whatever throws is unwound by
`ts::need` objects.  A hook bound by `run_hook` is called back by every operator.

Kernels hand ranges of their work to the `ThreadPool` bound to the thread
(`parallel_run`) and join it.  Tensors are allocated from flow memory, a `Vat`
per workbench, which gives blocks back to the device when the controller and
all tensors are gone.  Tensors shared between devices and workbenches are
`SyncBlock`s behind an `rwmutex`.

### What is hard about it

* compile time: the emitted code is only right if the compiler's idea of the
  stack, of its indices and of what is still needed stays exact through
  pops, pushes and swaps of nodes that occur several times; graphs share nodes,
  list outputs twice, and use outputs as inputs of outputs;
* passes before that: three recursive rewritings with memos, each of which copies,
  replaces or keeps nodes that others share, and options that write into the Consts
  they find;
* run time: nested frames and environments, exceptions at any operator, values
  kept from an earlier run, callbacks that match by name;
* shapes: every operator computes its output's shape in `infer`, and every rule of
  the inferer computes it again, in other terms, for sizes that may be unknown and
  are -1 then; padding operators compute what makes a third formula, that
  of the convolution, give the size of a fourth, that of another framework;
* threads: condition variables whose notifications can fall between a test and a
  wait, cores and tasks handed over in several steps, a destructor that races
  with the workers, writers that overtake readers, a lock that is given up and
  taken again between the look at a value and its making;
* kernels: loops that treat what is left over by vectors and tiles in another way
  than the rest, memory that is addressed in several layouts, iterations and blocks
  that run in any order, six paths for one operator;
* files: nothing in a file says where a piece ends, and the reader of an enciphered
  one must look a block ahead to know what the last one means;
* memory: blocks that outlive their pool, allocation that fails half way, a
  search that relies on an order nobody restores.

`PROJECT.json` lists each of these at its line, with the properties that watch
it or the reason why none does.

## Modules

| Module | Extends or uses | Models |
|---|---|---|
| `StackFrame` | | indices, frames and the operations of the stack on a sequence of cells |
| `Compiler` | `StackFrame` | `Compiler::compile` after the rewriting of the graph: the loop and the binding of inputs |
| `CompiledProgram` | `Compiler`, `Dataflow` | compiling a graph and then running the code |
| `Dataflow` | | abstract: evaluate every operator the outputs need, once, after its inputs; then deliver |
| `NodeRefs` | | `Module::list_reference_nodes` and `build_node_refs` |
| `Translator` | | bubbles, nodes, what they denote, and what the three rewritings have in common: calls, results, memo; `Translator::translate` with `Fp16TranslatorOption` and `PackTranslatorOption` |
| `Zipper` | `Translator` | `Zipper::zip` with `Conv2dZipperOption` |
| `ConstFolding` | `Zipper` | `run_const_nodes` and the recursion of `run_const_node` |
| `ProgramCompile` | `ConstFolding`, `NodeRefs` | `Program::Compile` up to the loop of `Compiler`, also for a module that was compiled before |
| `Workbench` | `StackFrame` | the user's calls, `run`, `run_hook`, nested launches, filters, casts, operators, hooks, exceptions |
| `Vat` | | flow memory: `VatMemoryController`, `Vat`, `Pot` |
| `ThreadPool` | `Executor` | `Thread` and `ThreadPool`, callers that run and join, destruction |
| `Executor` | | abstract: what a pool promises a caller that joins |
| `RWMutex` | `ReadWriteLock` | `rwmutex`, with waits, notifications and spurious wake-ups |
| `SyncBlock` | `RWMutex` | blocks and views that threads sync, read, write and broadcast |
| `ReadWriteLock` | | abstract: many readers or one writer |
| `Modules` | | `Module`: made of a graph, inputs sorted, several joined by `Fusion` |
| `EncryptedFile` | `Pipe` | the streams of `encryption/aes_fstream.cpp`, block by block |
| `Pipe` | | abstract: what a stream over a file promises |
| `ModuleFiles` | `EncryptedFile`, `Modules` | `Module::Save` and `Load` through such a file, piece by piece |
| `Prototypes` | | shapes, prototypes and nodes with parameters, and the arithmetic of windows that operators and rules share |
| `FrameworkPadding` | `Prototypes` | the padding operators of `backend/tf`, `onnx`, `mxnet` and `dragon` |
| `OperatorShapes` | `FrameworkPadding` | abstract for the rules: the shape that each operator computes when it runs, or that it throws, and the values of operators that the inferer runs |
| `ShapeRules` | `OperatorShapes` | the rules of `runtime/inferer/factory.cpp` |
| `Inferer` | `ShapeRules` | `runtime/inferer.cpp`: calls of `infer` on a graph, the prototypes of the call, the values kept on nodes |
| `Elementwise` | `Prototypes` | arithmetic with broadcast, activations, quantization, what is computed per channel |
| `Reductions` | `Elementwise` | sums, maxima, softmax and norms along dimensions, matrix products |
| `Movement` | `Reductions` | transpositions, padding, concatenation, slices, gathering, tiling |
| `Windows` | `Movement` | convolution by columns, tiles and channels, its transpose, pooling |
| `Vision` | `Windows` | sampling between cells, prior boxes, suppression of boxes |
| `Kernels` | `Vision` | a call of a kernel: its regions and launches, in any order; and, by definition, what operators promise |
| `MC*` | the module they are named after | instances for TLC |
| `*_proof` | the module they are named after | theorems |

A definition introduced by a comment `Mistake:` is no part of a specification:
it is the definition after it with a plausible error, and `PROJECT.json`
(`mutants`) says which property notices the error.

### Compiler and CompiledProgram

`simulator`, `working`, `unsolved`, `code` and `data` are the variables
`simulator`, `working_nodes`, `unsolved_node_count`, `block.instructions` and
`block.data_segment` of `compile`.  A turn of the loop is one action per case:
`CopyDuplicate` (case 1: a push), `LoadConst` (a datum), `SinkParameter`
(case 2: a swap), `PostponeReferenced` (case 3: a swap), `EmitOperator` or
`RejectOperator`.  After the loop, `RejectInputs`, `Satisfied` and `BindInputs`
are the three ways it can end.  `trail` is a history variable: the simulator before
every instruction, which is what the stack must look like when it is run.

`CompiledProgram` goes on with `Launch`, `RunInstruction` and `Return`.  A value
is the node it is the value of (`Garbage` for what operators compute from wrong
inputs), so a wrong index anywhere gives a wrong answer.  `Dataflow` is refined
under the mapping `answer <- Answer`; an operator instruction is its `Evaluate`,
everything else but the return is a stutter.

`IsGraph` states what the earlier passes guarantee: `refs` is what `NodeRefs`
computes and no operator is left on constants only; that the passes leave such a graph,
with these references, is `ProgramCompile`'s `CompilesAGraph`, which is proved.
`IsBindable` is the one assumption that
the code does not establish, see [Findings](#findings).

### The passes of Program::Compile

A module is compiled in phases, `translating`, `zipping`, `folding`, `compiling`.
`pool` holds all nodes there are, with their bubbles and links: those of
`module`, which have names, and those the passes make, which are numbered.
`calls` is the call stack of `translate_node`, `zip_node` or `run_const_node`, a
call per node with the inputs it has gone through; `results` is what was returned
for outputs so far, `ready` (and `readyConst`) the memo.  Each pass has an
action for a node found in the memo, for a node that is entered, for one whose inputs are
all there, and for what it throws.

What a Const holds is a term: the name of its data, and what was done to it
(`Transposed`, `Packed`, `raised` for an epsilon that was added).  `Applied` says
what an operator makes of terms; an operator that believes its kernel to
be packed, and is given one that is not, makes garbage.  `Denoted(pool)` gives the term of
every node.  Casts change no term: `PrecisionsMatch` speaks of types.

`PackKernel` and `WithTransposed` write into the Const of the module itself,
as the code does, while the pass goes on to copy that Const; the packing shows
in the copy only because nodes are copied after the operators that use them.
`MemoKey` is the aliasing of `run_const_node(node, node, ...)`: the result for
an output is remembered under itself.

When folding is over, `StartRefs` gives the graph to `NodeRefs`.  `Seed`,
`Take` and `Visit` are the walk with `map_node_depth` and `node_walker`; `Sort`
takes any order `std::sort` may leave equal depths in; `AddRefs` is a turn of
`build_node_refs`, with the entry that reading `map_node_refs[input]` creates.

### Workbench

`stack`, `base`, `bases`, `env`, `inputs`, `outputs` and `hooked` are the members
of the same names of `Stack` and `Workbench`; `calls` is the C++ call stack.  The
user's `setup`, `input`, `bind_filter`, `run` and `run_hook` come in any order
between runs.  `throwing` makes every function leave (`Unwind`), with what its
`ts::need` objects do.  An operator may always throw (`FailOperator`).

### ThreadPool

A step is what a thread does while nobody else can see a difference: taking a
mutex, testing `is_running`, testing `task`, beginning to wait, each is a step
of its own where the order matters.  A notification wakes who waits and nobody
else.  `RunTask` runs holding `task_mutex`, as in the code.  `~ThreadPool` deletes
the threads one after the other when the callers are done.

### RWMutex and Vat

`RWMutex` has one step per critical section of `m_mutex_counter`, with a
waiting thread in `waitingRead` or `waitingWrite` until it is notified or woken
for nothing.  `Vat` has an action for each outcome of an allocation (`Reuse`,
`Grow`, `OutOfMemory`), `free`, and the end of the controller (`deprecated`);
`binary_find` is the code's search, a function of the range `<<left, right>>` that is
left of the heap.

### SyncBlock

A thread calls `sync`, `value`, `view` or `broadcast` of the block all threads
share (`Root`) or of the view it keeps; `call` is what it is in the middle of.
The locks are those of `RWMutex`, all steps of which happen here too.  `Look` is
what is done under the read lock; `sync` without a value then takes the write lock
(`ComeAgain`) and looks again before it converts (`Copy`) and inserts
(`Insert`).  `Clear` and `Reinsert` are the two halves of `broadcast`.  Values are
`latest` or `old`: a client writes to its value when it calls `broadcast`, which
makes all others old.  `lost` is the pointer `m_default_value` whose value was
destroyed.  `CarefulClients` restricts who broadcasts to what the comment in the code asks
for (`TakesCare`).

### Operators and the inferer

A node is `[op, attr, in, val]`: its kind, its parameters, the prototypes of its
inputs and those of their values that are known.  A size that is not known is
-1, a shape a sequence, `Failed` what a throw gives, `VOID` a rule that gives
up.  `OperatorShapes` has an operator per operator of the source, named like its
class, for what `infer` computes with every check that throws, and
`Computed(n)` chooses by the operator's name, as `OperatorCreator` does.
`ShapeRules` does the same for the rules, named like the functions of
`factory.cpp`, and `Rule(n)` chooses.  The two are translated from different
files and share only what the code shares (`common_function.h`, `split_bins`,
`Tensor::reshape`, the padding operators, which a rule *runs*).

`Inferer` infers one node per step, the first whose inputs are done
(`Turn`), in the order of the recursion.  `problem` holds a graph and the shapes the
client may give its parameters between calls, `cache` the prototypes of the
call, `value` the attribute `#value`, which outlives it.  The reference
(`Running`) runs the graph under shapes in which every unknown size is replaced by one
of `UnknownSizes`, from `Computed` and `Evaluated`, without any rule.

### Modules and their files

`Modules` follows `Fusion` route by route: `linked` is what was cloned so far
(`linked_nodes` and `cloned_nodes` agree), `fused` the graph that grows.
A function that can throw is the set of what it may return, with a member for
each order a hash table leaves open.  `FusesAsRouted` compares the result with the composition
of the modules, defined without copies.

In `EncryptedFile` one action is one turn of a loop of `write` or `read`; `master` and
`second` are the two blocks the reader holds.  The cipher is any function on blocks
that the key undoes (`CipherAssumption`).  `ModuleFiles` has a queue of pieces to write (`writes`) and a stack
of pieces that the functions of `Load` have yet to read (`todo`, the innermost first); each is a call
of `write` or `read`.  The same file is used by a client that is free in
the sizes of its pieces, for `IsPipe`; `FileSpec` is any such client, for the proof.

### Kernels

A task is what a kernel sees.  The memory of a tensor is a function from offsets,
and a kernel is what its loops write: a sequence of regions, each a set of parts (the
iterations of a parallel loop, or all blocks of a launch), each part a function
from offsets to values.  `Kernels` runs the parts of a region in any order, and
the threads of a sum of the GPU statement by statement, with barriers between
the phases of a block and none between blocks.  Numbers are
integers, or the terms and fractions they stand for: what is computed in
`float` is exact.  The first half of `Kernels` translates; the second defines what the operators
promise from coordinates alone, and the invariants compare the two when a call is over.

## Runs

| Run | Module, configuration | Instance | Shows |
|---|---|---|---|
| `compiled_graphs` | `MCCompiledProgram`, `CompiledProgram` | every graph of two operators of one or two inputs over two parameters and a constant; one or two outputs, also equal; inputs in both orders or one missing; graphs with an operator nobody registered; chains and diamonds of three operators | `Inductive`, `ComputedOnce`, `FailsExactly`, `ReturnsOutputs`, `EvaluatesGraph`, `Terminates` |
| `unused_input` | `MCCompiledProgram`, `CompiledProgramUnusedInput` | programs with an input that no output needs | `OutputCountExpected` fails |
| `program_compile` | `MCProgramCompile`, `ProgramCompile` | some 5000 modules: three operators over a parameter and a constant, with a Variable, an unregistered operator, outputs that repeat or use each other; every kind of kernel and product, packed, left to winograd or refused; half precision with casts, Consts that are no floats, normalisations; some compiled twice | `SameMeaning`, `CompilesAGraph`, `StaysShared`, `PrecisionsMatch`, `Inductive` |
| `workbench` | `MCWorkbench`, `Workbench` | two runs of three programs and a filter, all sequences of the user's calls between them, a stack that is empty or not | `HookedAreDenoted`, `CallersTensorsKept`, `ReturnsDenoted` |
| `vat` | `Vat`, `Vat` | five addresses, four sizes, any number of calls | `Ownership`, `BlocksWithinPeak`, `GrowsOnlyIfNoneFits` |
| `thread_pool` | `MCThreadPool`, `ThreadPool` | no core or two, two callers of two tasks, one joins the pool, one joins one thread | `CoresConserved`, `WaitedAreDone`, `DestroyedIsSettled`, `NoTaskReplaced`, `RunsEachTask`, `CallersFinish` |
| `pool_destruction` | `MCThreadPool`, `ThreadPoolDestruction` | one core, one caller | `DestructionEnds` fails |
| `sync_block` | `SyncBlock`, `SyncBlock` | three threads, two devices, any number of careful calls | `Inductive`, `CopiedOnce`, `LatestSeen`, `IsReadWriteLock`, `SomebodyEnters` |
| `operators` | `MCOperators`, `Operators` | some 8000 graphs: every operator in each parameter that changes a shape, on shapes of up to four dimensions with sizes 1 to 6 and unknown ones; chains that compute the padding of a window or the shape of a reshape; two calls | `SoundShapes`, `SoundValues`, `ExactShapes`, `ThrowsAsRunning`, `PaddedAsFramework` |
| `modules` | `MCModules`, `Modules` | modules joined along one route or two, in either order; small modules with shared and repeated nodes saved and loaded; a client that writes and reads a file in pieces of any size | `FusesAsRouted`, `LoadedAsSaved`, `IsPipe` |
| `kernels` | `MCKernels`, `Kernels` | some 840 calls of the kernels of both devices on small tensors | `EachInItsPlace`, `CombinesTheRightOnes`, `MovesAsDefined`, `PartsApart` |
| `large_sum` | `MCKernels`, `LargeSum` | a sum of five elements by blocks of two threads | `AddsEveryElement` fails |

### Why the bounds are enough

* Graphs.  The compiler's cases depend on whether the top of the simulator occurs
  below, is a parameter, or is referenced from below, and on where the last unsolved
  node is.  Two operators with two inputs reach every case and most pairs of
  them; three operators add the nested ones (a node postponed twice, a diamond under an
  output that is an input of another output).  What no size covers is proved.
* `ProgramCompile`: three operators are enough for a shared operator to be
  reached as an output, from an output and from inside, in each order, and for a
  node to be moved down twice and entries of equal depth in every order.  A kernel or
  product has one operator before it and one after it, so that what is packed
  or cast is both an operand and a result.  Nothing bounds the numbers of new nodes.
* The modules of `program_compile` are careful in five respects, at each of which
  `SameMeaning` or `PrecisionsMatch` fails otherwise (see [Findings](#findings)): a kernel
  has one user, a module with kernels is compiled once, a B that is to be transposed
  is a Const, Consts that are no floats come last, and outputs of half precision are
  listed once and not used.
* `Workbench`: `MaxRuns` = 2 lets a run meet what one earlier run, failed or
  not, left in `outputs`, `hooked`, `env` and on the stack.  The programs cover a
  cast, a filter, a datum, a node computed twice, two outputs, an output count
  that is wrong, and a filter with a node named like the program's.
* `ThreadPool`: two cores and four tasks let a core be recycled to another caller
  while the first task is not yet cleared; `MaxWakes` = 1 bounds the spurious
  wake-ups.  The waits are loops, so that more of them repeat the same states.
* `SyncBlock` has no bound but the number of threads and devices: a reader, a
  writer and a third one in any role; the lock's safety properties are proved for
  any number of threads.  Two devices are the one a value is on and the one it is not.
* `Inferer`: `UnknownSizes` = 1 to 3 has the size that broadcasts, an even and
  an odd one, which is what the roundings and the broadcasts tell apart.
  `MaxCalls` = 2 lets values of one call meet the shapes of the next.  An operator's
  rule sees only the prototypes and the values of its inputs, so that graphs of one
  operator are enough for the rules; the chains are for values.
* `modules`: blocks of three bytes, pieces of up to five and files of up to seven
  have pieces that end in, at and behind the end of a block, and a last block that is full,
  or holds one byte.  Words of two bytes to base eight carry; the header of four is more than
  a block.
* `kernels`: blocks of `CudaThreads` = 4 threads and sizes up to some tens give every
  loop over vectors of four, tiles of four and eight, and blocks a full round and something
  left over, and the sums of the GPU a second launch.  Winograd's tiles have few channels
  and values from -1 to 1, with the fractions of its matrices cleared by a scale; where the
  code moves a place by 1e-5 the model moves it by one unit; `exp` in `yolo` is a power of
  two; the scores of boxes are distinct and their corners lie on a grid; casts are between
  integer types.
* `Vat` has finite state with five addresses and no bound on calls.  The addresses are
  interchangeable (`SYMMETRY`), and no liveness is checked there.

### Fairness

* `CompiledProgram`: sequential code takes its next step (`WF`
  of the next-state relation).  `Terminates` is no consequence of fairness:
  swaps add code without making the simulator shorter.
* `ThreadPool`: weak fairness of every thread, that is, the operating system
  runs threads that can run.  Spurious wake-ups are not fair.  Deadlock is not
  checked, as the destructor can really wait for ever, which is the finding; `CallersFinish`
  says which waits end.
* `SyncBlock`: weak fairness of the steps of a thread that is in the middle of a call
  and does not wait (`Continue`); nobody has to begin a call, and nobody has to be
  woken without a reason.
* `ProgramCompile`, `Workbench`, `Vat`, `Inferer`, `ModuleFiles` and `Kernels` are checked
  for safety only; deadlock is checked where the system never stops.

## Findings

* `unused_input`: a program that declares inputs of which its outputs need none
  gets the binding code `erase(0, -0)` (`compiler.cpp:347`).  `Stack::erase` turns -0
  into the position 0 and not into the end of the frame, so nothing is erased,
  and `launch_online` throws for the number of its outputs.  Hence the
  assumption `IsBindable` of `ReturnsOutputs`; it also says
  that inputs are distinct, because an input declared twice shifts the indices
  of those after it (`working_input_nodes.insert`, `compiler.cpp:346`, takes
  the size of a map that does not grow).  `Module::sort_inputs` accepts a name
  twice (`module.cpp:163`); the inputs reach `compile` like that when no
  translator option rebuilds the module.
* `pool_destruction`: `~Thread` clears `is_running` and notifies without
  `task_mutex`; a worker between its test and its wait misses both
  (`thread_pool.cpp:16`, `:44`), and `core.join()` never returns.
* `large_sum`: while there are more partial sums than a block has threads, `math::sum` sums
  them into the array that its other blocks still read (`math_gpu.cu:325`).  With blocks of
  512 threads this needs more than 262144 elements: an image of 300 by 300 by 3
  for `prewhiten`, which is said to add every element (`doc/zh_CN/operator.md:566`).

The model also made plain, without a run, in the compiler and the run time:

* `run_hook` puts the inputs into `m_hooked_tensor` (`// Save input`,
  `workbench.cpp:590`) and calls `run`, which clears it first (`:158`);
* `PackTranslatorOption` puts the packed kernel into the Const of the module it
  translates (`pack_translator_option.cpp:228`) and notes on the copied operator that
  it is packed.  The module is left with packed data that no operator knows of: its
  next compilation packs it again.  The transposed operands of a gemm (`:81`, `:100`)
  and the variance of a normalisation (`fp16_translator_option.cpp:136`) are written
  back in the same way, and a kernel with two users is packed twice in one
  compilation.  A module is given to the interface as `const ts_Module *`;
* `SyncBlock::broadcast` of a view clears the values that all blocks share
  (`sync_block.h:142`) and renews its own default value only; the block the view was
  made of keeps a pointer to a destroyed value.  Two tests go on with it
  (`test/sync_controller.cpp:30`, `test/mutex.cpp:91`); the comment in the code warns
  of views only.  `CarefulClientsSeeLatest` says what care is enough;
* the slots of a fused module's inputs and outputs are those of the modules it is made of, not
  those of the interface's comment (`module.h:76`, `api/module.cpp:64`);
* an output that is listed twice, or is an input of another one, may be copied
  or computed twice by `run_const_nodes` (`compiler.cpp:444`): the outermost
  call remembers its result under the new node.  `StaysShared` says how often;
* half precision: `const_to_fp16` is never set back, so that what comes behind a Const
  that is no float, the kernel of a `conv2d_v2` for example, is not cast
  (`fp16_translator_option.cpp:73`); an output that is also used, or listed twice, is
  looked up under the node and found without its cast (`translater.cpp:51`); `to_float` is
  taken for a half precision stream (`:78`);
* a gemm whose B is no Const loses `transB` (`pack_translator_option.cpp:84`);
* the zipper reads the value of a kernel before it knows that there is one
  (`winograd_zipper_option.cpp:61`), so a convolution with a computed kernel does not compile
  on ARM (`RejectWinograd`);
* `m_heap` is not sorted as `vat.h:69` says: `binary_find` cannot return the position
  behind the last pot (`vat.cpp:43`).  `GrowsOnlyIfNoneFits` shows that it does no harm;
* `DestroyedIsSettled` allows a task to be dropped: a pool that is destroyed
  before a worker takes its task does not run it (`thread_pool.cpp:45`);
* `Program::clone` does not copy `m_input_names` (`program.cpp:144`), which
  `run_hook` indexes (`workbench.cpp:595`).

In the kernels, where the tasks of `MCKernels` leave these calls out:

* products: in double, `inner_prod` and the convolutions of the CPU compute nothing
  (`math_cpu.cpp:380`), a transposed convolution adds an uninitialised buffer, and max pooling
  of 3 by 3 and 2 by 2 with stride 2 writes nothing; cuBLAS is given a row-major product in double
  without its operands' transpositions exchanged (`math_cublas.cpp:89`);
* windows: the 3 by 3 pooling with stride 2 reads behind images that are one wide; on the GPU the
  depthwise convolution ignores `padding_value`, and the transposed one of a 1 by 1 kernel
  copies four elements; a negative padding of the batch in `pad` reads outside;
* movement: `gather` on the GPU divides by the number of elements of the output
  where it means that of indices (`gather.cu:80`, `operator.md:599`); `spacetobatch4d` on the GPU uses
  the top padding for both directions; `broadcast_v2.cu:100` reads device memory on the
  host;
* reductions: `argmax` of negative floats starts from 0 (`argmax.cpp:52`); `topkv2` of the GPU is
  ascending; `l2_norm` of one element is 1 on the CPU; the buffer for the partial sums of
  `norm_image` and `prewhiten` is too small for small images;
* elements: the vectors of `quantize` round in another way than what is left over; a cast to
  BOOLEAN gives 0 or 1 on the CPU and the low byte on the GPU (`cast.cu:67`);
* vision: `resize2d` reads outside images of few pixels, its linear kind loses up to one at the
  last row and column, the cubic one wraps where it overshoots in `uint8`, and takes an image of the
  same size for done; affine sampling to the nearest cell counts the last row and column as outside
  if there is an outer value; the GPU rounds with `int(x + 0.5)`;
  `prior_box` appends to its sizes in each `init`; `yolo` cannot represent negative values in
  unsigned types; `yolo_poster` infers the batch of one image; suppression divides
  integers as integers.

### Where rules and operators differ

`SoundShapes`, `SoundValues`, `ExactShapes` and `ThrowsAsRunning` hold on the
instances of `MCOperators`, whose comments that begin with *Without* leave out
inputs for which the rule and the operator are known to differ:

* flatten and flatten2d multiply two unknown sizes, -1 each, to a known one;
* concat takes the ranks of its inputs for equal and an unknown first size for -1
  to which the others are added; `stack` does not check its axis;
* chunk finds three bins where `split_bins(0, 5, 4)` is asked for four
  (`base_chunk.cpp:47`);
* slice does not understand negative sizes; `slice_v3` takes negative axes as
  they are, and with a negative stride takes element 0 as well when `end` is before the
  first; `strided_slice` sees unknown sizes as 0, gives a new axis 0 elements and
  leaves a dimension for an empty ellipsis;
* window rules take four dimensions and, for NHWC, a square kernel for granted
  (`w[i + 2]`, the operator `w[d]`); the depthwise operator replaces dimension 2
  whatever the layout; `shape_index_patch` never has a shape;
* transpose without `permute` loses the swap of the last two dimensions
  (`base_transpose.cpp:63`) and its rule gives an empty shape (`factory.cpp:116`);
* letterbox, scale-resize and crop give -1 for sizes that are known; `divided` rounds
  an unknown size to 0; pad lets no size fall below 1 (the rule does not);
  non-maximum suppression has as many rows as boxes are left, not `max_output_size`;
* a rule that gives up leaves an older `#value` and older `#shape` on the node;
  `_shape` gives -1 for an unknown size, with which operators then calculate.

Two differences are in the operators: `Conv2DV2::infer` checks for two
inputs and reads the third (`base_conv2d_v2.cpp`), and
`Conv2DWinograd` keeps `m_k_transformed` from its first run
(`base_conv2d_winograd.cpp:146`).

## Theorems

All proofs are for any values of the constants that satisfy the modules'
assumptions; TLC evaluates these assumptions in the runs.  They hold of `Spec`
(of `EncryptedFile`, `FileSpec`) without fairness.

| Module | Theorem | Statement |
|---|---|---|
| `CompiledProgram_proof` | `InductiveInvariant` | `Spec => []Inductive` |
| | `TypeCorrect`, `BookkeepingExact`, `NoRepeatedComputation`, `FailureExact`, `DataStored`, `InstructionsInStep`, `OutputsCorrect` | the safety properties of `compiled_graphs` |
| | `ImplementsEvaluation` | compile and run implement `Dataflow` |
| `Workbench_proof` | `RunsInFrames` | `Spec => []Inductive`: every state is a point of a program's execution |
| | `GroundIsKept` | `Spec => CallersTensorsKept` |
| | `RunReturnsDenoted` | `Spec => ReturnsDenoted` |
| | `HookedAreTheNodes` | `Spec => []HookedAreDenoted` |
| `ProgramCompile_proof` | `InductiveInvariant`, `TypeCorrect`, `InputsComeFirst`, `RefsAreSolved` | `NodeRefs`'s `Spec`: the schedule is in order and the references are solved |
| | `PassesKeepPool` | `CompileSpec => []FullInv`: the passes keep a pool of nodes well formed |
| | `RefsOfCompiled` | `CompileSpec => []Inductive`: so are the references of what they leave |
| | `GraphIsCompilable` | `CompileSpec => []CompilesAGraph`: what `Compiler` assumes of graphs |
| | `PlainModulesKeepMeaning` | `CompileSpec => [](PlainModule => SameMeaning)`: compiling changes no result, unless it packs or raises a variance |
| `ThreadPool_proof` | `NoCoreIsLost`, `WaitersFindTheirTasksDone`, `DestructionSettles`, `TasksAreNotReplaced` | the safety properties of `thread_pool` |
| | `PoolIsExecutor` | the pool implements `Executor` |
| `SyncBlock_proof` | `InductiveInvariant`, `NobodyForgotten`, `ImplementsLock` | `rwmutex` keeps its counts, forgets nobody and implements `ReadWriteLock` |
| | `BlockIsLocked` | so it does under the clients of a block |
| | `OneCopyPerKey` | `BlockSpec => []CopiedOnce` |
| | `CarefulClientsSeeLatest` | `CarefulClients => (BlockSpec => []LatestSeen)` |
| `Vat_proof` | `FindsFirstFit` | what `binary_find` returns on a heap that is sorted except for its last pot |
| | `NoBlockIsLostOrShared`, `PoolWithinPeak`, `NoFitIsMissed` | the properties of `vat` |
| `Inferer_proof` | `PaddingFits` | `Spec => [](PaddingsUsable => PaddedAsFramework)`: paddings are those of the frameworks |
| `EncryptedFile_proof` | `SlicesInOrder` | `FileSpec => []Inductive`: every buffer is a known slice of what was sent |
| | `FilesArePipes` | `FileSpec => IsPipe`: the file implements `Pipe` |

**Compiler.**  `ReturnsOutputs` speaks of the end of the run, the bookkeeping of
one turn of the loop; what connects them is *Meant*: each emitted instruction,
executed on the stack `trail[k + 1]`, gives `trail[k]`.  To keep it, each case
of the loop needs the bookkeeping (`Tracked`: `working` holds the first
occurrence of every node on the simulator, or what a swap left of it;
`unsolved` is the number of unsolved cells) and lemmas on the stack operations.  That
nothing is computed twice needs two more facts: nodes already called are not
wanted by anything left on the simulator (third conjunct of `LoopInvariant`),
which holds because case 3 postpones a node that others refer to; and what the
outputs need is called, stored, or still wanted (`Complete`), which gives the
exactness of failures and of the data segment.  The binding of inputs is a
block of pushes and one erase whose meaning is proved by arithmetic on
indices; it is where `IsBindable` is used.  The run then walks the trail back
(`RunInvariant`).  The module begins with the lemmas on the stack operations, on `Track`, `Untrack` and
`Retrack` and on counting unsolved cells.

**Workbench.**  An activation of `launch_online` is a record of what is its own (program,
arguments, filters) and what is its caller's (`calls`, `env`, `bases`, the cells under
it).  `Active` lists the points it goes through, at each of which the members are a
function of that record and the frame is what the prepared arguments (`Ready`) or the
first k instructions (`Frames`) make, unless an exception is on its way: then only the
cells that were there before the run are known (`Holds`).  `Shape` says that the
workbench is at rest, at a point of the program that was set up (`Main`), or at a point of
the filter of one of its slots (`Filtering`).  A step takes one point to another
(`ActiveStep`), and a return or an unwinding takes the activation of a filter to the
point where its caller goes on.  The assumption on programs, `CodeAssumption`, is
that each instruction finds its cells on some frame of the right length; that it does
on any such frame, and that a frame on top of others does what it does alone
(`InstructionInFrame`, `OperatorInFrame`), is proved: the first by a
minimal counterexample in the length of the program.  For `HookedAreDenoted` the
invariant adds what `hooked` holds: of each name, the value of the last call that
the program has returned from (`Kept`).  It claims nothing before the
program is executed, as the operators of filters are hooked too.

**NodeRefs.**  Inputs are deeper than a node unless the node waits in the queue
or the walk has not come to that input (`InputsDeeper`).  An empty queue leaves
no exception, so in any sorted schedule inputs come first, keys are never
created by reading them, and `refs` of a node are below it in depth, so that it
is not among its own.

**The passes.**  The nodes there are and their links are a pool (`IsPool`): numbered
without gaps, each node as its operator needs it, and `Grounded`, that is, among any
nodes there is one that is linked to none of them.  The last is how a graph without
circles is said without speaking of paths, and is what a copied or relinked node can
keep.  A pass works with a set F of nodes that it has finished.  The translator
links a node late, and only to nodes of F, which is closed; so F and one more node are
closed again, and no circle arises although links of old nodes change (`GroundedRelinked`).
The folding's F holds besides no Variable and no operator that has Consts alone
(`Clean`): what a call knows of its inputs, `allConst` and `changed`, is exact
(`FoldCall`), so it keeps, copies or computes a node as it should.  A call on the stack has
gone through the first inputs of its node, and every caller waits for the node of
the call above it (`CallsOK`).  The nodes of the module keep their operators and
inputs (`KeepsModule`), which makes it possible to compile it again.  When the
passes are over, their pool is a graph as `NodeRefs` needs it; its walk stays in whatever
closed set holds the outputs (`StaysWithin`), so what it reaches is folded.
The assumptions are on the module: it has no circle, end points have no inputs, a gemm has
three (`pack_translator_option.cpp:48` reads them without a check), and its nodes are
finitely many.

**What outputs denote.**  `Denoted(p)` is a recursive function on a graph.  That it exists
and satisfies its equation on every pool, and that only one function does, is shown by
minimal counterexamples: a pool is `Grounded`, so if the claim failed for some nodes it
would fail for one that is linked to none of them (`DenotedValues`, `DenotedUnique`).
`Rewrites(p, q)` is what the steps of the passes
do to a pool: nodes are added, none changes its operator or its data, and a node that is linked anew
gets inputs which denote what its inputs did.  Then all nodes denote what they did
(`RewritingKeepsMeaning`).  The invariant `Means` says that memos, returned outputs and
the calls on the stack hold nodes that denote what they stand for: `new` of a call what its
`node` denotes, `inputs` of it what the first links of `new` denote.  Each action
has a lemma (`TranslateNodeMeans`, ..., `ComputeMeans`): a cast denotes what it casts,
winograd what its convolution denotes, a computed Const the operator it replaces.

`PlainModule` is a hypothesis on the module and the options: nothing is packed (with
`float16` the option `pack` does nothing), no product or convolution comes packed, and
no `batch_norm` that is to be raised has an `epsilon`.  Otherwise the translator writes into a
Const of the module itself, which denotes another value in the middle of the pass, and what the nodes
above it denote is right again only when they are linked to the copies.  No
pool of the pass is then a `Rewrites` of the one before, and the theorem would need a second notion
of what a half-translated node denotes.  TLC checks `SameMeaning` for these modules too, and
it found `PlainModule => Means` true in all states of `program_compile`, where
half-precision modules with casts, modules with winograd and modules that are only folded are plain.

**ThreadPool.**  The invariant says who holds each core: the queue of idle
ones, a caller that has taken it and not yet handed it on, or its own thread, which is
busy from the hand-over to `after_task`; that a thread whose core is idle again
may still have to drop its task, and whose step that is; and what the destructor has
behind it.  `NoTaskReplaced` is the step that hands a task over: the thread
has none then, because it drops it under the `task_mutex` that the caller
needs.  What joins return on is a count of idle cores, hence a
cardinality.  The one assumption, `TasksAssumption`, is that each task is handed over
once, which names them.

**SyncBlock.**  The lock's counts are cardinalities of sets of program counters; a
step moves one thread between sets, and lemmas on finite sets give the new counts.
`NoLostWakeup` is inductive together with exactness and exclusion.  `BlockSpec`
implies the lock's `Spec`, since each step of a client is one of the lock or leaves it
alone, so that all of this is true of a block as well.  `CopiedOnce` holds because who converts is
the writer, and has seen under the write lock that the value is missing; it needs no
care of the clients.  `LatestSeen` needs it: a client that broadcasts does so
where nobody has a view or is about to get one.  The invariant says that
a broadcaster is then alone in what it does, that values are old only while a broadcast is
under way, and that the default value is lost only between its two halves.

**Vat.**  The heap is sorted except for its last pot, which is what `InsertAt` makes of it
when `binary_find` cannot return the position behind the end.  That `binary_find`
stops, and where, is proved by a minimal counterexample in the width of its
range (the library's induction takes operators as parameters, its least number
principle does not).  Then a pot is taken only if it fits, and every larger one was
looked at.  `Ownership` says which set each address is in; `BlocksWithinPeak`
is a sum of two cardinalities, and goes through because a new pot is made only if none is
free or the one that is taken gives its block back.

**EncryptedFile.**  A position in what was sent is the end of one buffer and the start of the
next.  While the file is written, its blocks, the block that is collected and what the
write has not looked at are consecutive slices of `sent`; once it is closed, the blocks are
the slices of `Plain`, which is `sent` with a last block that is filled up with
how much is missing.  While it is read, what was given, what the read that runs has got, and
what is left in `master` are consecutive slices up to the end of the blocks that were
handed out, and `second` is the next block unless there is none.  That the last block is in
`second` until the reader knows that it is the last is what makes it take off the
padding there and nowhere else (`LooksAhead`), and that the padding is at least one byte
is why it must close with a block of padding if the last one is full.  `Pipe`'s
step is then a comparison of lengths.  The assumption is that a block is not empty, that a
byte holds its length, and that `InvCipher` undoes `Cipher`.  `aes.cpp` itself is not
modelled.

**Inferer.**  `PaddedAsFramework` has two sides.  The first is arithmetic (`NodePadding`): whatever the
image, the kernel, the stride, the dilation and the static padding, the two sides that the
operator computes give the convolution or pooling the output size of the framework.  An
output of y cells needs `Needed(d, y)` beside the static padding, and gets it in
one of three ways of dealing it out (`NeededFills`, `HalvesSum`); a window that then steps over the
image without a rest goes exactly y times, whether the framework rounds down or up
(`FilledExactly`); and y is the framework's own size, which for VALID is how often the window
fits (`ValidFits`), for SAME how many strides begin (`SameBegins`), for the pooling of dragon also
which part windows count (`DragonForward`).  A quotient is determined by the two inequalities it
satisfies (`TheQuotient`), which is all that these lemmas use of division.

The second side is that a padding which was found earlier in a call is still the one for
what is known now (`InfererInv`): nothing a found node was computed from changes, since its
inputs were found before it (`InputsFound`), a node is found once in a call, and every call,
shape and exception empties the cache.  That the inferer works on a node only when its inputs are found
is the walk of `Turn`, a recursive function: that it exists, and where it ends, is
shown by a minimal counterexample in the number of the node (`WalksExists`, `TurnReached`);
this is where `ProblemsAssumption`, that inputs come before the nodes that use them, is needed.

The theorem has a hypothesis, `PaddingsUsable`: each padding found belongs to a node whose
operator runs on what is known now; the window fits into the padded image unless the method is SAME;
the value of a kernel has the sizes that were inferred for it; and a convolution of dragon
has no dilation, which `backend/dragon/conv2d_padding.cpp` forgets.  The middle ones are properties
of the graph that comes in, the last is a restriction of the code.  On the instances
of `MCOperators` TLC finds `PaddingsUsable` and the rest of `InfererInv` true in every state, and
states with such paddings.

## Only model-checked

* Liveness: `Terminates`, `CallersFinish`, `SomebodyEnters`, and the liveness of
  `Dataflow` and `Executor`; it is out of the reach of the proof system.
* Of the passes, `StaysShared`, `PrecisionsMatch`, and `SameMeaning` for modules that
  are packed or have a variance raised; of the shapes, `SoundShapes`,
  `SoundValues`, `ExactShapes` and `ThrowsAsRunning`, which compare two tables of some
  sixty rules and operators, most of them folds over dimensions; `FusesAsRouted`, `LoadedAsSaved`;
  and what `Kernels` checks.  These are about recursive functions on graphs, files and shapes
  (`Denoted`, `Computed`, folds) and would need induction on data, or, in `Modules`,
  `ModuleFiles` and `Kernels`, are defined by `RECURSIVE` operators, which the provers do not take.

## Not modelled

Every component is listed with its status in `PROJECT.json`.  Left out are vendored code
(`third`, stb, half, the cipher, the SSD layers of `caffe` and what rests on them:
`detection_output`, `proposal`, `roi_align`), the tiled products of builds
without BLAS and CUDA, the Rockchip and XNNPACK back ends, `lstm`, the quantized
convolution, `conv2d_algorithm.cpp`, which no operator calls, mathematical tables, command-line
tools and the bindings of other languages.  The rounding of floating-point numbers is left
out wherever they occur.

Also left out: the front end and the C interface (wrappers), the profiler, dumps and board
(output), registries (filled at start-up; the sets `Supported` stand for them), contexts per
thread (every module works in the context its caller bound).  The memory of
tensors and their reference counts are abstracted to values.  `sample2d_v2` is the one rule without a
counterpart.

## Plan

1. *Done:* `StackFrame`, `Compiler`, `CompiledProgram` against `Dataflow`; `NodeRefs`;
   the passes of `ProgramCompile`; `ThreadPool` against `Executor`; `SyncBlock` on
   `RWMutex` against `ReadWriteLock`; `Workbench`; `Vat`; shapes; `Modules` and
   `ModuleFiles` against `Pipe`; `Kernels`; proofs of all but the rules of shapes, `Modules`, `ModuleFiles`,
   `Kernels` and what packing and raising do to the meaning of a graph.
2. `Program::clone` with the shared data segment and filters, and several
   workbenches on threads of their own, with the counts of `Smart`.
3. Contexts per thread (`ctxmgr_lite`) in nested and parallel scopes.
