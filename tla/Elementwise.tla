------------------------------ MODULE Elementwise ------------------------------
(***************************************************************************)
(* Kernels whose every output element comes from the elements in the same  *)
(* place of the inputs: arithmetic with broadcast, activations, and what   *)
(* is computed per channel; and what all kernels share.  The memory of a   *)
(* tensor is a function from offsets, counted from 0, to values, and what  *)
(* a loop does is the function it writes.  Values that are no integers are *)
(* terms, such as <<"exp", v>>.                                            *)
(*                                                                         *)
(* A task t is what a kernel sees: x and y, the memories of its inputs; l, *)
(* r and out, their shapes; dim; float, if it has the vector form; p, the  *)
(* parameters of a channel; n, the number of elements.                     *)
(***************************************************************************)
EXTENDS Prototypes

CONSTANTS
  CudaThreads   \* threads of a block of a launch, CUDA_THREAD_NUM

ASSUME CudaThreadsAssumption == CudaThreads \in Nat \ {0, 1}

Tensor(sizes, data) == [sizes |-> sizes, data |-> data]
Count(t) == Product(t.sizes)

\* The offsets a loop visits: one by one; four lanes while four are left, then
\* the others one by one; one for every thread of the blocks that is below n.
Loop(n) == 0 .. n - 1
Simd(n) ==
  {k * 4 + l : k \in {k \in 0 .. n : k * 4 < n - 3}, l \in 0 .. 3} \union ((n \div 4) * 4) .. n - 1
Grid(n) ==
  LET blocks == (n + CudaThreads - 1) \div CudaThreads
  IN  {i \in {b * CudaThreads + k : b \in 0 .. blocks - 1, k \in 0 .. CudaThreads - 1} : i < n}

\* The elements before, at and after a dimension, which counts from 0
Before(s, dim) == Product(SubSeq(s, 1, dim))
Width(s, dim) == s[dim + 1]
After(s, dim) == Product(SubSeq(s, dim + 2, Len(s)))

\* An offset's place in the dimension, as the threads of the GPU compute it
PlaceIn(i, s, dim) == (i % (Width(s, dim) * After(s, dim))) \div After(s, dim)

Total(f, from) == FoldSet(LAMBDA i, a : a + f[i], 0, from)
Largest(a, b) == IF a > b THEN a ELSE b
Smallest(a, b) == IF a < b THEN a ELSE b

\* A kernel is a sequence of regions.  The parts of a region run in any order, on the
\* threads of OpenMP or of the GPU; all are over when the next region begins.  A part
\* is what it writes.
Whole(written) == << <<written>> >>
Parallel(parts) == <<parts>>
InOrder(parts) == [k \in DOMAIN parts |-> <<parts[k]>>]

-------------------------------------------------------------------------------
(* ElementWiseReduce: which of the loops runs *)

Merge(s, i, j) ==
  SubSeq(s, 1, i - 1) \o <<Product(SubSeq(s, i, j - 1))>> \o SubSeq(s, j, Len(s))

\* Mistake: dimensions merge if each of them alone would do.
RECURSIVE reduce_mixed(_, _, _, _)
reduce_mixed(i, l, r, out) ==
  LET Alike(j) == \A d \in i .. j : l[d] = 1 \/ r[d] = 1 \/ l[d] = r[d]
      Ends == {j \in i + 1 .. Len(out) : ~ Alike(j)} \union {Len(out) + 1}
      j == CHOOSE e \in Ends : \A f \in Ends : e <= f
  IN  IF i > Len(out) THEN <<l, r, out>>
      ELSE reduce_mixed(i + 1, Merge(l, i, j), Merge(r, i, j), Merge(out, i, j))

\* From dimension i on: a run of dimensions in which l is one, r is one, or both
\* are equal becomes one dimension.
RECURSIVE reduce_shape(_, _, _, _)
reduce_shape(i, l, r, out) ==
  LET Alike(j) ==
        \/ \A d \in i .. j : l[d] = 1
        \/ \A d \in i .. j : r[d] = 1
        \/ \A d \in i .. j : l[d] = r[d]
      Ends == {j \in i + 1 .. Len(out) : ~ Alike(j)} \union {Len(out) + 1}
      j == CHOOSE e \in Ends : \A f \in Ends : e <= f
  IN  IF i > Len(out) THEN <<l, r, out>>
      ELSE IF ~ Alike(i) THEN reduce_shape(i + 1, l, r, out)
      ELSE IF j - i > 1
      THEN reduce_shape(i + 1, Merge(l, i, j), Merge(r, i, j), Merge(out, i, j))
      ELSE reduce_shape(j + 1, l, r, out)

is_scalar(s) == Product(s) = 1

\* The dimension that holds all of s, of the same size in the other; {} if none
BiasDims(other, s) == {d \in DOMAIN s : s[d] = Product(s) /\ other[d] = Product(s)}
is_bias(other, s) == BiasDims(other, s) # {}
BiasDim(other, s) == (CHOOSE d \in BiasDims(other, s) : \A e \in BiasDims(other, s) : d <= e) - 1

\* The shapes and the loop that ElementWiseReduce::run chooses for two inputs; l and r are
\* merged, and were the same if same.
ChosenLoop(same, l, r) ==
  CASE same -> "same_shape"
    [] ~ same /\ is_scalar(r) -> "scalar"
    [] ~ same /\ ~ is_scalar(r) /\ is_scalar(l) -> "scalar_cross"
    [] OTHER -> IF is_bias(l, r) THEN "bias" ELSE IF is_bias(r, l) THEN "bias_cross" ELSE "broadcast"
ChosenDim(path, l, r) ==
  CASE path = "bias" -> BiasDim(l, r) [] path = "bias_cross" -> BiasDim(r, l) [] OTHER -> 0
Chosen(x, y, float) ==
  LET dims == Largest(Len(x.sizes), Len(y.sizes))
      l == PadFront(x.sizes, dims)
      r == PadFront(y.sizes, dims)
      out == [d \in 1 .. dims |-> IF l[d] = r[d] THEN l[d] ELSE l[d] * r[d]]
      Task(path, merged) ==
        [path |-> path, x |-> x.data, y |-> y.data, l |-> merged[1], r |-> merged[2], out |-> merged[3],
         dim |-> ChosenDim(path, merged[1], merged[2]), float |-> float]
      Choice(merged) == Task(ChosenLoop(l = r, merged[1], merged[2]), merged)
  IN  Choice(reduce_shape(1, l, r, out))

Crossed(t) == [t EXCEPT !.x = t.y, !.y = t.x, !.l = t.r, !.r = t.l]

-------------------------------------------------------------------------------
(* The operators, and the loops of add.cpp that the others copy *)

Quotient(l, r) == IF r = 0 THEN IF l > 0 THEN <<"max">> ELSE <<"lowest">> ELSE <<l, r>>

\* reduce_operator of add, sub, mul, div and maximum
reduce_operator(op, l, r) ==
  CASE op = "add" -> l + r
    [] op = "sub" -> l - r
    [] op = "mul" -> l * r
    [] op = "div" -> Quotient(l, r)
    [] op = "maximum" -> Largest(l, r)

Visited(n, float) == IF float THEN Simd(n) ELSE Loop(n)

to_mod_index(s, c) == to_index([d \in DOMAIN c |-> c[d] % s[d]], s)

compute_run(op, t) ==
  [i \in Loop(Product(t.out)) |->
     LET c == to_coordinate(i, t.out)
     IN  reduce_operator(op, t.x[to_mod_index(t.l, c)], t.y[to_mod_index(t.r, c)])]

compute_run_scalar(op, t) ==
  [i \in Visited(Product(t.out), t.float) |-> reduce_operator(op, t.x[i], t.y[0])]
compute_run_scalar_cross(op, t) ==
  [i \in Visited(Product(t.out), t.float) |-> reduce_operator(op, t.x[0], t.y[i])]
compute_run_same_shape(op, t) ==
  [i \in Visited(Product(t.out), t.float) |-> reduce_operator(op, t.x[i], t.y[i])]

\* Every channel of every number is a scalar loop of its own, from offset on, or a
\* step of one loop over the channels if a channel has one element.
Channels(out, dim, float) ==
  LET count == After(out, dim)
      inner == IF count = 1 THEN {0} ELSE Visited(count, float)
  IN  {<<((n * Width(out, dim)) + c) * count + k, c>> :
         n \in Loop(Before(out, dim)), c \in Loop(Width(out, dim)), k \in inner}

\* The output starts as a copy of the input that is not the bias.
compute_run_bias(op, t) ==
  LET at == Channels(t.out, t.dim, t.float)
  IN  [i \in {w[1] : w \in at} |->
         reduce_operator(op, t.x[i], t.y[(CHOOSE w \in at : w[1] = i)[2]])] @@ t.x
compute_run_bias_cross(op, t) ==
  LET at == Channels(t.out, t.dim, t.float)
  IN  [i \in {w[1] : w \in at} |->
         reduce_operator(op, t.x[(CHOOSE w \in at : w[1] = i)[2]], t.y[i])] @@ t.y

-------------------------------------------------------------------------------
\* The loops that an operator's file has; a bias or a scalar at the left has loops of its
\* own where the operator is not commutative.
Loops(op, path, t) ==
  CASE path = "broadcast" -> compute_run(op, t)
    [] path = "scalar" -> compute_run_scalar(op, t)
    [] path = "scalar_cross" -> compute_run_scalar_cross(op, t)
    [] path = "same_shape" -> compute_run_same_shape(op, t)
    [] path = "bias" -> compute_run_bias(op, t)
    [] path = "bias_cross" -> compute_run_bias_cross(op, t)

add_loops(path, t) == Loops("add", path, t)
mul_loops(path, t) == Loops("mul", path, t)
sub_loops(path, t) == Loops("sub", path, t)
\* Without vector forms
div_loops(path, t) == Loops("div", path, [t EXCEPT !.float = FALSE])
maximum_loops(path, t) == Loops("maximum", path, t)

Straight(path) == CASE path = "scalar_cross" -> "scalar" [] path = "bias_cross" -> "bias" [] OTHER -> path
Crosses == {"scalar_cross", "bias_cross"}

Add(path, t) == IF path \in Crosses THEN add_loops(Straight(path), Crossed(t)) ELSE add_loops(path, t)
Mul(path, t) == IF path \in Crosses THEN mul_loops(Straight(path), Crossed(t)) ELSE mul_loops(path, t)
Sub(path, t) == sub_loops(path, t)
Div(path, t) == div_loops(path, t)
\* Without crosses: those of the base class broadcast.
Maximum(path, t) == maximum_loops(IF path \in Crosses THEN "broadcast" ELSE path, t)

Reduced(op, t) ==
  CASE op = "add" -> Add(t.path, t)
    [] op = "sub" -> Sub(t.path, t)
    [] op = "mul" -> Mul(t.path, t)
    [] op = "div" -> Div(t.path, t)
    [] op = "maximum" -> Maximum(t.path, t)
-------------------------------------------------------------------------------
(* The same on the GPU: one thread for every element *)

GpuCoordinate(i, out) ==
  [d \in DOMAIN out |->
     (IF d = 1 THEN i ELSE i % Strides(out)[d - 1]) \div Strides(out)[d]]

reduce_operator_kernel(op, t) ==
  [i \in Grid(Product(t.out)) |->
     LET c == GpuCoordinate(i, t.out)
     IN  reduce_operator(op, t.x[to_mod_index(t.l, c)], t.y[to_mod_index(t.r, c)])]
reduce_operator_scalar_kernel(op, t) ==
  [i \in Grid(Product(t.out)) |-> reduce_operator(op, t.x[i], t.y[0])]
reduce_operator_scalar_cross_kernel(op, t) ==
  [i \in Grid(Product(t.out)) |-> reduce_operator(op, t.x[0], t.y[i])]
reduce_operator_same_shape_kernel(op, t) ==
  [i \in Grid(Product(t.out)) |-> reduce_operator(op, t.x[i], t.y[i])]
reduce_operator_bias_kernel(op, t) ==
  [i \in Grid(Product(t.out)) |->
     reduce_operator(op, t.x[i], t.y[PlaceIn(i, t.out, t.dim)])]
reduce_operator_bias_cross_kernel(op, t) ==
  [i \in Grid(Product(t.out)) |->
     reduce_operator(op, t.x[PlaceIn(i, t.out, t.dim)], t.y[i])]

Launch(op, path, t) ==
  CASE path = "broadcast" -> reduce_operator_kernel(op, t)
    [] path = "scalar" -> reduce_operator_scalar_kernel(op, t)
    [] path = "scalar_cross" -> reduce_operator_scalar_cross_kernel(op, t)
    [] path = "same_shape" -> reduce_operator_same_shape_kernel(op, t)
    [] path = "bias" -> reduce_operator_bias_kernel(op, t)
    [] path = "bias_cross" -> reduce_operator_bias_cross_kernel(op, t)
div_kernels(path, t) == Launch("div", path, t)

\* All but the broadcast work on a copy of the input that has the output's shape.
Copied(path, t) ==
  CASE path = "broadcast" -> <<>> [] path \in Crosses -> t.y [] OTHER -> t.x
add_gpu_compute_run(path, t) == Launch("add", path, t) @@ Copied(path, t)
mul_gpu_compute_run(path, t) == Launch("mul", path, t) @@ Copied(path, t)
sub_gpu_compute_run(path, t) == Launch("sub", path, t) @@ Copied(path, t)
div_gpu_compute_run(path, t) == div_kernels(path, t) @@ Copied(path, t)
maxinum_gpu_compute_run(path, t) == Launch("maximum", path, t) @@ Copied(path, t)

AddGpu(path, t) ==
  IF path \in Crosses THEN add_gpu_compute_run(Straight(path), Crossed(t))
  ELSE add_gpu_compute_run(path, t)
MulGpu(path, t) ==
  IF path \in Crosses THEN mul_gpu_compute_run(Straight(path), Crossed(t))
  ELSE mul_gpu_compute_run(path, t)
SubGpu(path, t) == sub_gpu_compute_run(path, t)
DivGpu(path, t) == div_gpu_compute_run(path, t)
MaxinumGpu(path, t) == maxinum_gpu_compute_run(IF path \in Crosses THEN "broadcast" ELSE path, t)

ReducedGpu(op, t) ==
  CASE op = "add" -> AddGpu(t.path, t)
    [] op = "sub" -> SubGpu(t.path, t)
    [] op = "mul" -> MulGpu(t.path, t)
    [] op = "div" -> DivGpu(t.path, t)
    [] op = "maximum" -> MaxinumGpu(t.path, t)

-------------------------------------------------------------------------------
(* broadcast and _broadcast_v2 *)

Broadcast(t) ==
  [i \in Loop(Product(t.out)) |-> t.x[to_mod_index(t.l, to_coordinate(i, t.out))]]
BroadcastGpu(t) ==
  [i \in Grid(Product(t.out)) |-> t.x[to_mod_index(t.l, GpuCoordinate(i, t.out))]]

\* What memset writes: pairs of elements as one element twice as wide, as long as a
\* wider element exists, and the odd one at the end.
RECURSIVE memset_v2(_, _)
memset_v2(n, widenings) ==
  IF widenings = 0 THEN Loop(n)
  ELSE IF n > 1
  THEN {0, 1} \union (IF n % 2 = 1 THEN {n - 1} ELSE {})
       \union {2 + 2 * k + h : k \in memset_v2((n - 2) \div 2, widenings - 1), h \in {0, 1}}
  ELSE Loop(n)
\* From bytes to words of 8 bytes
Widenings(bytes) == CASE bytes = 1 -> 3 [] bytes = 2 -> 2 [] bytes = 4 -> 1 [] OTHER -> 0

BroadcastScalar(t, bytes) ==
  [i \in memset_v2(Product(t.out), Widenings(bytes)) |-> t.x[0]]

BroadcastBias(t, bytes) ==
  LET count == After(t.out, t.dim)
      channels == Width(t.out, t.dim)
      inner == IF count = 1 THEN {0} ELSE memset_v2(count, Widenings(bytes))
      at == {<<(n * channels + c) * count + k, c>> :
               n \in Loop(Before(t.out, t.dim)), c \in Loop(channels), k \in inner}
  IN  [i \in {w[1] : w \in at} |-> t.x[(CHOOSE w \in at : w[1] = i)[2]]]
BroadcastBiasGpu(t) ==
  [i \in Grid(Product(t.out)) |->
     t.x[(i \div After(t.out, t.dim)) % Width(t.out, t.dim)]]

\* BroadcastV2::run.  A scalar is read on the host, which the GPU cannot.
Broadcasts(x, merged) ==
  [x |-> x.data, l |-> merged[2], out |-> merged[3],
   dim |-> IF is_bias(merged[3], merged[2]) THEN BiasDim(merged[3], merged[2]) ELSE 0]
BroadcastV2(x, sizes, bytes) ==
  LET from == PadFront(x.sizes, Len(sizes))
      Run(t) ==
        CASE is_scalar(t.l) -> BroadcastScalar(t, bytes)
          [] ~ is_scalar(t.l) /\ is_bias(t.out, t.l) -> BroadcastBias(t, bytes)
          [] OTHER -> Broadcast(t)
  IN  IF from = sizes THEN x.data ELSE Run(Broadcasts(x, reduce_shape(1, sizes, from, sizes)))
BroadcastV2Gpu(x, sizes) ==
  LET from == PadFront(x.sizes, Len(sizes))
      Run(t) == IF is_bias(t.out, t.l) THEN BroadcastBiasGpu(t) ELSE BroadcastGpu(t)
  IN  IF from = sizes THEN x.data ELSE Run(Broadcasts(x, reduce_shape(1, sizes, from, sizes)))
-------------------------------------------------------------------------------
(* One value per channel: t.p are the memories of the other inputs *)

channel_value(op, v, p, k) ==
  CASE op = "add_bias" -> v + p[1][k]
    [] op = "prelu" -> Largest(v, 0) + p[1][k] * Smallest(v, 0)
    [] op = "batch_scale" -> v * p[1][k] + p[2][k]
    [] op = "batch_norm" -> <<v - p[1][k], "rsqrt", p[2][k]>>
    [] op = "fused_batch_norm" -> <<v - p[1][k], "rsqrt", p[2][k], p[3][k], p[4][k]>>

\* Mistake: a number is as long as one channel.
OfChannelMixed(op, t, k) ==
  LET back == After(t.out, t.dim)
  IN  [i \in {(n + k) * back + m : n \in Loop(Before(t.out, t.dim)), m \in Visited(back, t.float)} |->
         channel_value(op, t.x[i], t.p, k)]

\* What the iteration of channel k writes, in all numbers
OfChannel(op, t, k) ==
  LET back == After(t.out, t.dim)
  IN  [i \in {(n * Width(t.out, t.dim) + k) * back + m :
                n \in Loop(Before(t.out, t.dim)), m \in Visited(back, t.float)} |->
         channel_value(op, t.x[i], t.p, k)]
OfChannels(op, t) == [k \in 1 .. Width(t.out, t.dim) |-> OfChannel(op, t, k - 1)]

\* In float the channels are the iterations of a parallel loop.
AddBias(t) == IF t.float THEN Parallel(OfChannels("add_bias", t))
              ELSE InOrder(OfChannels("add_bias", t))
PReLU(t) == IF t.float THEN Parallel(OfChannels("prelu", t))
            ELSE InOrder(OfChannels("prelu", t))
BatchNorm(t) == InOrder(OfChannels("batch_norm", t))
FusedBatchNorm(t) == InOrder(OfChannels("fused_batch_norm", t))
BatchScale(t) == InOrder(OfChannels("batch_scale", t))

OfThreads(op, t) ==
  Whole([i \in Grid(Product(t.out)) |->
           channel_value(op, t.x[i], t.p, PlaceIn(i, t.out, t.dim))])
AddBiasGpu(t) == OfThreads("add_bias", t)
PReLUGpu(t) == OfThreads("prelu", t)
BatchNormGpu(t) == OfThreads("batch_norm", t)
FusedBatchNormGpu(t) == OfThreads("fused_batch_norm", t)
BatchScaleGpu(t) == OfThreads("batch_scale", t)

-------------------------------------------------------------------------------
(* Activations *)

Sigmoid(v) == <<"rec", <<"1+exp", -v>>>>
Clipped(v, bound) == Smallest(Largest(v, 0), bound)
Leaky(v, scale) == IF v > 0 THEN v ELSE v * scale

Abs(t) == [i \in Loop(t.n) |-> IF t.x[i] < 0 THEN -t.x[i] ELSE t.x[i]]
Sqrt(t) == [i \in Loop(t.n) |-> <<"sqrt", t.x[i]>>]
Square(t) == [i \in Loop(t.n) |-> t.x[i] * t.x[i]]
Rsqrt(t) == [i \in Loop(t.n) |-> <<"rec", <<"sqrt", t.x[i]>>>>]
Exp(t) == [i \in Loop(t.n) |-> <<"exp", t.x[i]>>]
Sigmoids(t) == [i \in Loop(t.n) |-> Sigmoid(t.x[i])]
Tanh(t) == [i \in Loop(t.n) |-> <<"2*-1", Sigmoid(2 * t.x[i])>>]
ReLU(t) == [i \in Visited(t.n, t.float) |-> Largest(t.x[i], 0)]
ReLUMax(t) == [i \in Visited(t.n, t.float) |-> Clipped(t.x[i], t.p)]
\* In the lanes it is the sum of the two halves of the value.
LeakyReLU(t) ==
  [i \in Visited(t.n, t.float) |->
     IF t.float /\ i < (t.n \div 4) * 4 THEN Largest(t.x[i], 0) + t.p * Smallest(t.x[i], 0)
     ELSE Leaky(t.x[i], t.p)]

AbsGpu(t) == [i \in Grid(t.n) |-> IF t.x[i] > 0 THEN t.x[i] ELSE -t.x[i]]
SqrtGpu(t) == [i \in Grid(t.n) |-> <<"sqrt", t.x[i]>>]
SquareGpu(t) == [i \in Grid(t.n) |-> t.x[i] * t.x[i]]
RsqrtGpu(t) == [i \in Grid(t.n) |-> <<"rec", <<"sqrt", t.x[i]>>>>]
ExpGpu(t) == [i \in Grid(t.n) |-> <<"exp", t.x[i]>>]
SigmoidGpu(t) == [i \in Grid(t.n) |-> Sigmoid(t.x[i])]
TanhGpu(t) == [i \in Grid(t.n) |-> <<"2*-1", Sigmoid(2 * t.x[i])>>]
ReLUGpu(t) == [i \in Grid(t.n) |-> IF t.x[i] > 0 THEN t.x[i] ELSE 0]
ReLUMaxGpu(t) == [i \in Grid(t.n) |-> Clipped(t.x[i], t.p)]
LeakyReLUGpu(t) == [i \in Grid(t.n) |-> Leaky(t.x[i], t.p)]

\* round and saturate; values are integers
to_int8(v) == IF v > 127 THEN 127 ELSE IF v < -128 THEN -128 ELSE v
\* One scale is for all elements, eight lanes at a time in float; more are for equal
\* blocks of the elements, of which the last may be short.
Quantize(t) ==
  LET groups == Len(t.p)
      block == (t.n + groups - 1) \div groups
      lanes == {k * 8 + l : k \in {k \in Loop(t.n) : k < t.n \div 8}, l \in Loop(8)}
      all == IF t.float THEN lanes \union ((t.n \div 8) * 8) .. t.n - 1 ELSE Loop(t.n)
      blocks == {<<i, g>> \in Loop(t.n) \X Loop(groups) : g * block <= i /\ i < (g + 1) * block}
  IN  IF groups = 1 THEN [i \in all |-> to_int8(t.x[i] * t.p[1])]
      ELSE [i \in {b[1] : b \in blocks} |->
              to_int8(t.x[i] * t.p[(CHOOSE b \in blocks : b[1] = i)[2] + 1])]

-------------------------------------------------------------------------------
(* _cast between types of integers; BOOLEAN is the type of one bit. *)

BoolType == [bits |-> 1, signed |-> FALSE]
static_cast(v, type) ==
  LET m == v % 2 ^ type.bits
  IN  IF type = BoolType THEN IF v = 0 THEN 0 ELSE 1
      ELSE IF type.signed /\ m >= 2 ^ (type.bits - 1) THEN m - 2 ^ type.bits ELSE m

\* Four at a time while four are left; the same type is copied.
type_cast(t) == [i \in Simd(t.n) |-> static_cast(t.x[i], t.to)]
Cast(t) == IF t.from = t.to THEN t.x ELSE type_cast(t)

gpu_cast_kernel(t, type) == [i \in Grid(t.n) |-> static_cast(t.x[i], type)]
\* To the GPU BOOLEAN is another name of UINT8.
CudaType(type) == IF type = BoolType THEN [bits |-> 8, signed |-> FALSE] ELSE type
CastGpu(t) == IF t.from = t.to THEN t.x ELSE gpu_cast_kernel(t, CudaType(t.to))
===============================================================================
