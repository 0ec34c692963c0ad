--------------------------------- MODULE Kernels ---------------------------------
(***************************************************************************)
(* One call of a kernel, step by step: the regions of a loop on the CPU    *)
(* and the launches on the GPU follow each other, what is inside one runs  *)
(* in any order.  The sums of the GPU run thread by thread: the threads of *)
(* a block wait for each other between the phases, the blocks of a launch  *)
(* do not.                                                                 *)
(*                                                                         *)
(* The second half is what the operators promise, from the coordinates of  *)
(* the elements and without a loop.                                        *)
(***************************************************************************)
EXTENDS Vision

CONSTANT Cases    \* the calls: kernel, the device, and the task the kernel sees

VARIABLES
  call,      \* the call that runs
  launches,  \* the regions and launches that are not over, the first of them running
  left,      \* the parts of the first that have not run
  blocks,    \* if it is a launch of a sum: the state of its blocks
  mem        \* the memories: out, and the buffers of the device

vars == <<call, launches, left, blocks, mem>>

-------------------------------------------------------------------------------
(* The launches of a sum *)

Blocks(n) == (n + CudaThreads - 1) \div CudaThreads

\* of n elements of memory from, after at, with load; every block stores its sum in to
Sums(load, n, grid, threads, from, at, to) ==
  [kind |-> "sum", load |-> load, n |-> n, grid |-> grid, threads |-> threads,
   from |-> from, at |-> at, to |-> to]

\* While there are more sums than a block has threads they are summed again, in place.
RECURSIVE Rest(_, _)
Rest(grid, to) ==
  IF grid > CudaThreads
  THEN << Sums("sum", grid, Blocks(grid), CudaThreads, "tmp", 0, "tmp") >> \o Rest(Blocks(grid), to)
  ELSE << Sums("sum", grid, 1, grid, "tmp", 0, to) >>

math_sum(load, n, from, at, to) ==
  << Sums(load, n, Blocks(n), CudaThreads, from, at, "tmp") >> \o Rest(Blocks(n), to)

\* norm_image and prewhiten: the mean, the squares of what differs from it, and then
\* all elements in place
Normalizing(t, op) ==
  LET count == Product(Tail(t.s))
      OfNumber(n) ==
        math_sum("sum", count, "out", n * count, "mean")
        \o << Sums("dev", count, Blocks(count), CudaThreads, "out", n * count, "buffer") >>
        \o math_sum("sum", Blocks(count), "buffer", 0, "dev")
        \o << [kind |-> "normalize", op |-> op, n |-> count, at |-> n * count] >>
  IN  << [kind |-> "parts", parts |-> << [i \in Loop(Product(t.s)) |-> t.x[i]] >>] >>
      \o FlattenSeq([n \in 1 .. t.s[1] |-> OfNumber(n - 1)])

\* What a thread finds first; the elements it does not reach with one step per launch
\* it reaches with the next.
Loaded(l, index) ==
  LET Mine == {i \in Loop(l.n) : i % (l.grid * l.threads) = index}
      x(i) == mem[l.from][l.at + i]
      term(i) == CASE l.load = "sum" -> x(i)
                   [] l.load = "asum" -> IF x(i) < 0 THEN -x(i) ELSE x(i)
                   [] l.load = "dot" -> x(i) * mem["y"][i]
                   [] l.load = "dev" -> LET d == l.n * x(i) - mem["mean"][0] IN d * d
  IN  FoldSet(LAMBDA i, a : a + term(i), 0, Mine)

\* The greatest power of two that is not above n
RECURSIVE floor_pow(_)
floor_pow(n) == IF n = 1 THEN 1 ELSE 2 * floor_pow(n \div 2)

\* After the load the threads above a power of two are added to the first ones, then
\* the upper half to the lower half, until one is left, which stores the sum.
RECURSIVE Halves(_)
Halves(i) ==
  IF i = 0 THEN <<>>
  ELSE << [does |-> "add", threads |-> Loop(i), to |-> 0, from |-> i] >> \o Halves(i \div 2)
\* Mistake: threads that are no power of two are not added to the others.
PhasesOfHalves(threads) ==
  << [does |-> "load", threads |-> Loop(threads)] >> \o Halves(floor_pow(threads) \div 2)
  \o << [does |-> "store", threads |-> {0}] >>

Phases(threads) ==
  LET pow == floor_pow(threads)
  IN  << [does |-> "load", threads |-> Loop(threads)] >>
      \o (IF pow = threads THEN <<>>
          ELSE << [does |-> "add", threads |-> pow .. threads - 1, to |-> -pow, from |-> 0] >>)
      \o Halves(pow \div 2)
      \o << [does |-> "store", threads |-> {0}] >>

-------------------------------------------------------------------------------
(* Which kernel a call is: its regions, or its launches *)

Arithmetics == {"add", "sub", "mul", "div", "maximum"}

OnCPU(k, t) ==
  CASE k \in Arithmetics -> Whole(Reduced(k, Chosen(t.x, t.y, t.float)))
    [] k = "broadcast" -> Whole(BroadcastV2(t.x, t.out, t.bytes))
    [] k = "add_bias" -> AddBias(t)
    [] k = "prelu" -> PReLU(t)
    [] k = "batch_norm" -> BatchNorm(t)
    [] k = "fused_batch_norm" -> FusedBatchNorm(t)
    [] k = "batch_scale" -> BatchScale(t)
    [] k = "abs" -> Whole(Abs(t))
    [] k = "sqrt" -> Whole(Sqrt(t))
    [] k = "square" -> Whole(Square(t))
    [] k = "rsqrt" -> Whole(Rsqrt(t))
    [] k = "exp" -> Whole(Exp(t))
    [] k = "sigmoid" -> Whole(Sigmoids(t))
    [] k = "tanh" -> Whole(Tanh(t))
    [] k = "relu" -> Whole(ReLU(t))
    [] k = "relu_max" -> Whole(ReLUMax(t))
    [] k = "leaky_relu" -> Whole(LeakyReLU(t))
    [] k = "quantize" -> Whole(Quantize(t))
    [] k = "cast" -> Whole(Cast(t))
    [] k = "softmax" -> Softmax(t)
    [] k = "l2_norm" -> cpu_l2_norm(t)
    [] k = "reduce_sum" -> ReduceSum(t)
    [] k = "reduce_mean" -> ReduceMean(t)
    [] k = "max" -> cpu_max(t)
    [] k = "argmax" -> cpu_argmax(t)
    [] k = "topkv2" -> cpu_topkv2_sorted(t)
    [] k = "norm_image" -> cpu_norm_image(t)
    [] k = "prewhiten" -> cpu_pre_whiten(t)
    [] k = "gemm" -> cpu_gemm(t)
    [] k = "inner_prod" -> cpu_inner_prod(t)
    [] k = "conv2d" -> cpu_conv2d_nchw(t)
    [] k = "conv2d_v2" -> Conv2DV2(t)
    [] k = "transpose_conv2d" -> cpu_transpose_conv2d_nchw(t)
    [] k = "depthwise_conv2d" -> cpu_depthwise_conv2d_nchw(t)
    [] k = "depthwise_conv2d_v2" -> DepthwiseConv2DV2(t)
    [] k = "conv2d_winograd" -> Conv2DWinograd(t)
    [] k = "conv2d_winograd_v2" -> Conv2DWinogradV2(t)
    [] k = "pooling2d" -> cpu_pooling2d(t)
    [] k = "pooling2d_v2" -> Pooling2DV2(t)
    [] k = "transpose" -> Transpose(t)
    [] k = "pad" -> PadOnCPU(t)
    [] k = "concat" -> Concat(t)
    [] k = "stack" -> StackTensor(t)
    [] k = "chunk" -> Chunk(t)
    [] k = "slice" -> cpu_slice(t)
    [] k = "slice_v2" -> SliceV2(t)
    [] k = "slice_v3" -> SliceV3(t)
    [] k = "strided_slice" -> cpu_compute_strided_slice(t)
    [] k = "gather" -> Gather(t)
    [] k = "gatherv2" -> GatherV2(t)
    [] k = "tile" -> Tile(t)
    [] k = "dimshuffle" -> Dimshuffle(t)
    [] k = "spacetobatch4d" -> cpu_spacetobatch4d(t)
    [] k = "batchtospace4d" -> cpu_batchtospace4d(t)
    [] k = "force_color" -> ForceColor(t)
    [] k = "force_gray" -> ForceGray(t)
    [] k = "resize2d" -> resize2d(t)
    [] k = "resize_nearest_neighbor" -> resize2d(Resize_Nearest_Neighbor(t))
    [] k = "sample2d_v2" -> resize2d(Sample2DV2(t))
    [] k = "affine_sample2d" -> affine_sample2d(t)
    [] k = "sample2d" -> affine_sample2d(Sample2D(t))
    [] k = "shape_index_patch" -> ShapeIndexPatch(t)
    [] k = "prior_box" -> PriorBox(t)
    [] k = "yolo" -> Yolo(t)
    [] k = "yolo_poster" -> YoloPoster(t)
    [] k = "non_max_suppression_v3" -> cpu_non_max_suppression_v3(t)

OnGPU(k, t) ==
  CASE k \in Arithmetics -> Whole(ReducedGpu(k, Chosen(t.x, t.y, FALSE)))
    [] k = "broadcast" -> Whole(BroadcastV2Gpu(t.x, t.out))
    [] k = "add_bias" -> AddBiasGpu(t)
    [] k = "prelu" -> PReLUGpu(t)
    [] k = "batch_norm" -> BatchNormGpu(t)
    [] k = "fused_batch_norm" -> FusedBatchNormGpu(t)
    [] k = "batch_scale" -> BatchScaleGpu(t)
    [] k = "abs" -> Whole(AbsGpu(t))
    [] k = "sqrt" -> Whole(SqrtGpu(t))
    [] k = "square" -> Whole(SquareGpu(t))
    [] k = "rsqrt" -> Whole(RsqrtGpu(t))
    [] k = "exp" -> Whole(ExpGpu(t))
    [] k = "sigmoid" -> Whole(SigmoidGpu(t))
    [] k = "tanh" -> Whole(TanhGpu(t))
    [] k = "relu" -> Whole(ReLUGpu(t))
    [] k = "relu_max" -> Whole(ReLUMaxGpu(t))
    [] k = "leaky_relu" -> Whole(LeakyReLUGpu(t))
    [] k = "cast" -> Whole(CastGpu(t))
    [] k = "softmax" -> SoftmaxGpu(t)
    [] k = "l2_norm" -> L2NormGpu(t)
    [] k = "reduce_sum" -> ReduceSumGpu(t)
    [] k = "reduce_mean" -> ReduceMeanGpu(t)
    [] k = "max" -> MaxGpu(t)
    [] k = "argmax" -> ArgMaxGpu(t)
    [] k = "topkv2" -> gpu_topkv2_kernel(t)
    [] k = "gemm" -> gpu_gemm(t)
    [] k = "inner_prod" -> gpu_inner_prod(t)
    [] k = "conv2d" -> gpu_conv2d_nchw(t)
    [] k = "transpose_conv2d" -> gpu_transpose_conv2d_nchw(t)
    [] k = "depthwise_conv2d" -> gpu_depthwise_conv2d_nchw(t)
    [] k = "pooling2d" -> gpu_pooling2d(t)
    [] k = "transpose" -> TransposeGpu(t)
    [] k = "pad" -> PadOnGPU(t)
    [] k = "concat" -> ConcatGpu(t)
    [] k = "stack" -> StackTensorGpu(t)
    [] k = "slice" -> gpu_slice(t)
    [] k = "slice_v2" -> SliceV2Gpu(t)
    [] k = "slice_v3" -> SliceV3Gpu(t)
    [] k = "strided_slice" -> gpu_compute_strided_slice(t)
    [] k = "gather" -> GatherGpu(t)
    [] k = "gatherv2" -> GatherV2Gpu(t)
    [] k = "tile" -> TileGpu(t)
    [] k = "dimshuffle" -> DimshuffleGpu(t)
    [] k = "spacetobatch4d" -> gpu_spacetobatch4d(t)
    [] k = "batchtospace4d" -> gpu_batchtospace4d(t)
    [] k = "force_color" -> ForceColorGpu(t)
    [] k = "force_gray" -> ForceGrayGpu(t)
    [] k = "resize2d" -> resize2d_gpu(t)
    [] k = "affine_sample2d" -> affine_sample2d_gpu(t)

OfParts(regions) == [r \in DOMAIN regions |-> [kind |-> "parts", parts |-> regions[r]]]
LaunchesOf(c) ==
  IF c.device = "CPU" THEN OfParts(OnCPU(c.kernel, c.task))
  ELSE IF c.kernel \in {"norm_image", "prewhiten"} THEN Normalizing(c.task, c.kernel)
  ELSE IF c.kernel \in {"sum", "asum", "dot"} THEN math_sum(c.kernel, Cardinality(DOMAIN c.task.x), "x", 0, "out")
  ELSE OfParts(OnGPU(c.kernel, c.task))

-------------------------------------------------------------------------------
Memories == {"out", "x", "y", "tmp", "buffer", "mean", "dev"}

\* What is to run for the first of some launches
LeftOf(ls) ==
  IF ls = <<>> \/ Head(ls).kind # "parts" THEN {} ELSE DOMAIN Head(ls).parts
BlocksOf(ls) ==
  IF ls = <<>> \/ Head(ls).kind # "sum" THEN <<>>
  ELSE [b \in 1 .. Head(ls).grid |->
          [phase |-> 1, threads |-> Loop(Head(ls).threads), cache |-> <<>>]]

Begin(ls) ==
  /\ launches' = ls
  /\ left' = LeftOf(ls)
  /\ blocks' = BlocksOf(ls)

Init ==
  /\ call \in Cases
  /\ launches = LaunchesOf(call)
  /\ left = LeftOf(launches)
  /\ blocks = BlocksOf(launches)
  /\ mem = [m \in Memories |->
              IF m = "x" /\ call.kernel \in {"sum", "asum", "dot"} THEN call.task.x
              ELSE IF m = "y" /\ call.kernel = "dot" THEN call.task.y ELSE <<>>]

\* An iteration of the loop, or a block of threads, runs.
RunPart(p) ==
  /\ mem' = [mem EXCEPT !["out"] = Head(launches).parts[p] @@ @]
  /\ left' = left \ {p}
  /\ UNCHANGED <<call, launches, blocks>>

\* All that a region or a launch does has been done.
NextLaunch ==
  /\ launches # <<>>
  /\ left = {}
  /\ \A b \in DOMAIN blocks : blocks[b].phase > Len(Phases(Head(launches).threads))
  /\ Head(launches).kind # "normalize"
  /\ Begin(Tail(launches))
  /\ UNCHANGED <<call, mem>>

\* A thread does what its block's phase asks of it; the last one ends the phase.
RunThread(b, t) ==
  LET l == Head(launches)
      phases == Phases(l.threads)
      phase == phases[blocks[b].phase]
      cache == blocks[b].cache
      rest == blocks[b].threads \ {t}
      next == blocks[b].phase + 1
  IN  /\ t \in blocks[b].threads
      /\ blocks' =
           [blocks EXCEPT
              ![b].cache = CASE phase.does = "load" -> (t :> Loaded(l, (b - 1) * l.threads + t)) @@ @
                             [] phase.does = "add" ->
                                  [@ EXCEPT ![t + phase.to] = @ + cache[t + phase.from]]
                             [] phase.does = "store" -> @,
              ![b].phase = IF rest = {} THEN next ELSE @,
              ![b].threads = IF rest # {} THEN rest
                             ELSE IF next > Len(phases) THEN {} ELSE phases[next].threads]
      /\ mem' = IF phase.does = "store" THEN [mem EXCEPT ![l.to] = (b - 1 :> cache[0]) @@ @] ELSE mem
      /\ UNCHANGED <<call, launches, left>>

\* prewhiten_kernel, in place
Normalize ==
  LET l == Head(launches)
      total == mem["dev"][0]
  IN  /\ launches # <<>>
      /\ l.kind = "normalize"
      /\ mem' = [mem EXCEPT !["out"] =
                    [i \in l.at .. l.at + l.n - 1 |->
                       <<l.n * @[i] - mem["mean"][0],
                         IF l.op = "prewhiten" THEN Largest(total, l.n * l.n) ELSE total, l.op>>] @@ @]
      /\ Begin(Tail(launches))
      /\ UNCHANGED call

Next ==
  \/ \E p \in left : RunPart(p)
  \/ NextLaunch
  \/ \E b \in DOMAIN blocks : \E t \in blocks[b].threads : RunThread(b, t)
  \/ Normalize

Spec == Init /\ [][Next]_vars

-------------------------------------------------------------------------------
(* What the operators promise *)

\* The memory of a tensor of which value(c) is the element at coordinate c
Filled(shape, value(_)) == [i \in Loop(Product(shape)) |-> value(to_coordinate(i, shape))]
Element(x, s, c) == x[to_index(c, s)]
Coordinates(s) == {to_coordinate(i, s) : i \in Loop(Product(s))}

\* NumPy's broadcast: a dimension of one element has that one everywhere.
Stretched(t, c) ==
  LET s == PadFront(t.sizes, Len(c))
  IN  Element(t.data, s, [d \in DOMAIN c |-> IF s[d] = 1 THEN 0 ELSE c[d]])
Arithmetic(k, t) ==
  LET dims == Largest(Len(t.x.sizes), Len(t.y.sizes))
      l == PadFront(t.x.sizes, dims)
      r == PadFront(t.y.sizes, dims)
  IN  Filled([d \in 1 .. dims |-> Largest(l[d], r[d])],
             LAMBDA c : reduce_operator(k, Stretched(t.x, c), Stretched(t.y, c)))

PerChannel(k, t) ==
  Filled(t.out, LAMBDA c : channel_value(k, Element(t.x, t.out, c), t.p, c[t.dim + 1]))

PerChannelKernels == {"add_bias", "prelu", "batch_norm", "fused_batch_norm", "batch_scale"}

Activations == {"abs", "sqrt", "square", "rsqrt", "exp", "sigmoid", "tanh", "relu", "relu_max", "leaky_relu"}
Activated(k, v, p) ==
  CASE k = "abs" -> IF v < 0 THEN -v ELSE v
    [] k = "sqrt" -> <<"sqrt", v>>
    [] k = "square" -> v * v
    [] k = "rsqrt" -> <<"rec", <<"sqrt", v>>>>
    [] k = "exp" -> <<"exp", v>>
    [] k = "sigmoid" -> Sigmoid(v)
    [] k = "tanh" -> <<"2*-1", Sigmoid(2 * v)>>
    [] k = "relu" -> IF v < 0 THEN 0 ELSE v
    [] k = "relu_max" -> IF v < 0 THEN 0 ELSE IF v > p THEN p ELSE v
    [] k = "leaky_relu" -> IF v < 0 THEN p * v ELSE v

\* One scale is everyone's; several are for equal blocks, the last maybe shorter.
Quantized(t) ==
  [i \in Loop(t.n) |-> to_int8(t.x[i] * t.p[(i \div CeilQuot(t.n, Len(t.p))) + 1])]

\* The value of the type that differs by a multiple of its range; of truth values, the
\* truth.
CastTo(type, v, w) ==
  IF type = BoolType THEN w = (IF v = 0 THEN 0 ELSE 1)
  ELSE /\ (w - v) % 2 ^ type.bits = 0
       /\ IF type.signed THEN w \in -(2 ^ (type.bits - 1)) .. 2 ^ (type.bits - 1) - 1
          ELSE w \in Loop(2 ^ type.bits)

\* The elements that differ from c in the dimension alone
RowAt(t, c) == [k \in 1 .. Width(t.s, t.dim) |-> Element(t.x, t.s, [c EXCEPT ![t.dim + 1] = k - 1])]
Single(s, dims) == [d \in DOMAIN s |-> IF d - 1 \in dims THEN 1 ELSE s[d]]
BoxAt(t, c) ==
  {e \in Coordinates(t.s) : \A d \in DOMAIN c : d - 1 \in t.dim .. t.last \/ e[d] = c[d]}

Reductionals == {"softmax", "l2_norm", "reduce_sum", "reduce_mean", "max", "argmax"}
AlongDimension(k, t) ==
  CASE k = "softmax" -> Filled(t.s, LAMBDA c : Share(RowAt(t, c), c[t.dim + 1] + 1))
    [] k = "l2_norm" -> Filled(t.s, LAMBDA c : <<Element(t.x, t.s, c), SumOf(Squares(RowAt(t, c)))>>)
    [] k = "reduce_sum" -> Filled(Single(t.s, {t.dim}), LAMBDA c : SumOf(RowAt(t, c)))
    [] k = "reduce_mean" ->
         Filled(Single(t.s, t.dim .. t.last),
                LAMBDA c : <<FoldSet(LAMBDA e, a : a + Element(t.x, t.s, e), 0, BoxAt(t, c)),
                             Cardinality(BoxAt(t, c))>>)
    [] k = "max" -> Filled(Single(t.s, {t.dim}), LAMBDA c : Max(Range(RowAt(t, c))))
    [] k = "argmax" ->
         Filled(Single(t.s, {t.dim}),
                LAMBDA c : Min({j \in Loop(Width(t.s, t.dim)) :
                                  RowAt(t, c)[j + 1] = Max(Range(RowAt(t, c)))}))

\* The k greatest of a row, with their places; who is first among them is not said.
GreatestOf(t, n) ==
  LET all == {<<t.x[n * Last(t.s) + j], j>> : j \in Loop(Last(t.s))}
  IN  {e \in all : Cardinality({f \in all : f[1] > e[1]}) < t.k}

\* For every number, the elements less the mean, and the sum of their squares
Normal(t, op) ==
  LET count == Product(Tail(t.s))
      OfNumber(i) == (i \div count) * count .. (i \div count) * count + count - 1
      apart(i) == count * t.x[i] - Total(t.x, OfNumber(i))
      total(i) == Total([j \in OfNumber(i) |-> apart(j) * apart(j)], OfNumber(i))
  IN  [i \in Loop(Product(t.s)) |->
         <<apart(i), IF op = "prewhiten" THEN Largest(total(i), count * count) ELSE total(i), op>>]

SumKernels == {"sum", "asum", "dot"}
TotalOf(k, t) ==
  CASE k = "sum" -> Total(t.x, DOMAIN t.x)
    [] k = "asum" -> Total([i \in DOMAIN t.x |-> Activated("abs", t.x[i], 0)], DOMAIN t.x)
    [] k = "dot" -> Total([i \in DOMAIN t.x |-> t.x[i] * t.y[i]], DOMAIN t.x)

Operand(a, rows, columns, transposed, i, j) ==
  IF transposed THEN Element(a, <<columns, rows>>, <<j, i>>) ELSE Element(a, <<rows, columns>>, <<i, j>>)
Matrix(t, transA, transB, alpha, beta, third(_)) ==
  Filled(<<t.m, t.n>>,
    LAMBDA c : alpha * SumOf([l \in 1 .. t.k |-> Operand(t.a, t.m, t.k, transA, c[1], l - 1)
                                                 * Operand(t.b, t.k, t.n, transB, l - 1, c[2])])
               + (IF beta = 0 THEN 0 ELSE beta * third(c)))
Products(k, t) ==
  IF k = "gemm"
  THEN Matrix(t, t.transA, t.transB, t.alpha, t.beta,
              LAMBDA c : Stretched([sizes |-> t.cs, data |-> t.c], c))
  ELSE Matrix([t EXCEPT !.b = t.weights], FALSE, t.transpose, 1, 0, LAMBDA c : 0)

\* Where an element of the output comes from
Inputs(t, i) == SumOf([j \in 1 .. i - 1 |-> t.ss[j][t.dim + 1]])
Found(k, t, c) ==
  CASE k = "transpose" ->
         Element(t.x, t.s, [d \in DOMAIN c |-> c[CHOOSE e \in DOMAIN c : t.permute[e] = d - 1]])
    [] k = "pad" ->
         LET e == [d \in DOMAIN c |-> c[d] - t.padding[d][1]]
         IN  IF \A d \in DOMAIN c : e[d] >= 0 /\ e[d] < t.s[d] THEN Element(t.x, t.s, e) ELSE t.value
    [] k = "concat" ->
         LET p == c[t.dim + 1]
             i == CHOOSE i \in DOMAIN t.xs : Inputs(t, i) <= p /\ p < Inputs(t, i + 1)
         IN  Element(t.xs[i], t.ss[i], [c EXCEPT ![t.dim + 1] = p - Inputs(t, i)])
    [] k = "stack" -> Element(t.xs[c[t.dim + 1] + 1], t.ss[1], EraseDim(c, t.dim))
    [] k \in {"slice", "slice_v2"} -> Element(t.x, t.s, [d \in DOMAIN c |-> t.begin[d] + c[d]])
    [] k \in {"slice_v3", "strided_slice"} ->
         Element(t.x, t.s,
           [d \in DOMAIN c |-> (IF d \in DOMAIN t.begin THEN t.begin[d] ELSE 0)
                                + c[d] * (IF d \in DOMAIN t.stride THEN t.stride[d] ELSE 1)])
    [] k = "gather" ->  \* with one dimension of indices, numpy.take
         Element(t.x, t.s, [c EXCEPT ![t.dim + 1] = t.indices[@]])
    [] k = "gatherv2" ->  \* with two dimensions of indices
         Element(t.x, t.s, [d \in DOMAIN t.s |-> IF d <= t.axis THEN t.indices[c[1] * t.axis + d - 1]
                                                 ELSE c[d - t.axis + 1]])
    [] k = "tile" -> Element(t.x, t.s, [d \in DOMAIN c |-> c[d] % t.s[d]])
    [] k = "dimshuffle" -> Element(t.x, t.s, [c EXCEPT ![t.dim + 1] = t.shuffle[@ + 1]])
    [] k = "spacetobatch4d" ->  \* of the padded image, from block to block
         LET block == c[1] \div t.s[1]
             h == c[3] * t.bh + (block \div t.bw) - t.top
             w == c[4] * t.bw + (block % t.bw) - t.left
         IN  IF h \in Loop(t.s[3]) /\ w \in Loop(t.s[4])
             THEN Element(t.x, t.s, <<c[1] % t.s[1], c[2], h, w>>) ELSE 0
    [] k = "batchtospace4d" ->  \* the element that the same blocks put there
         Element(t.x, t.s, CHOOSE e \in Coordinates(t.s) :
           /\ e[1] % t.out[1] = c[1]
           /\ e[2] = c[2]
           /\ e[3] * t.bh + ((e[1] \div t.out[1]) \div t.bw) - t.top = c[3]
           /\ e[4] * t.bw + ((e[1] \div t.out[1]) % t.bw) - t.left = c[4])
    [] k = "force_color" -> Element(t.x, t.s, [c EXCEPT ![Len(c)] = 0])
    [] k = "force_gray" ->
         SumOf([j \in 1 .. Last(t.s) |-> t.scale[j] * Element(t.x, t.s, [c EXCEPT ![Len(c)] = j - 1])])

Movements == {"transpose", "pad", "concat", "stack", "slice", "slice_v2", "slice_v3",
              "strided_slice", "gather", "gatherv2", "tile", "dimshuffle",
              "spacetobatch4d", "batchtospace4d", "force_color", "force_gray"}

\* The parts of a chunked tensor joined again
Rejoined(t, out) ==
  [i \in Loop(Product(t.s)) |->
     LET c == to_coordinate(i, t.s)
         o == CHOOSE o \in DOMAIN t.ss : Inputs(t, o) <= c[t.dim + 1] /\ c[t.dim + 1] < Inputs(t, o + 1)
     IN  out[<<o, to_index([c EXCEPT ![t.dim + 1] = @ - Inputs(t, o)], t.ss[o])>>]]

-------------------------------------------------------------------------------
\* The cell below element k of the kernel in the window at c, and what is there
CellBelow(t, c, k) ==
  <<c[3] * t.stride[1] - t.top + k[1] * t.dilation[1], c[4] * t.stride[2] - t.left + k[2] * t.dilation[2]>>
ValueAt(t, n, channel, cell) ==
  LET c == <<n, channel, cell[1], cell[2]>>
  IN  IF Inside(c, t.s) THEN Element(t.x, t.s, c) ELSE t.value

SumOver(set, value(_)) == FoldSet(LAMBDA e, a : a + value(e), 0, set)
KernelCells(t) == Loop(t.k[3]) \X Loop(t.k[4])
InsideBelow(t, c) ==
  {k \in KernelCells(t) : Inside(CellBelow(t, c, k), <<t.s[3], t.s[4]>>)}

Convolutions == {"conv2d", "depthwise_conv2d", "transpose_conv2d", "conv2d_winograd"}
Convolved(k, t, c) ==
  CASE k \in {"conv2d", "conv2d_winograd"} ->
         SumOver(Loop(t.k[2]) \X KernelCells(t),
           LAMBDA e : Element(t.weights, t.k, <<c[2], e[1]>> \o e[2])
                      * ValueAt(t, c[1], e[1], CellBelow(t, c, e[2])))
    [] k = "depthwise_conv2d" ->
         SumOver(KernelCells(t),
           LAMBDA e : Element(t.weights, t.k, <<0, c[2]>> \o e) * ValueAt(t, c[1], c[2], CellBelow(t, c, e)))
    [] k = "transpose_conv2d" ->  \* every element of x is spread over the window at it
         SumOver({<<e, cell>> \in Coordinates(Tail(t.s)) \X KernelCells(t) :
                    CellBelow(t, <<c[1]>> \o e, cell) = <<c[3], c[4]>>},
           LAMBDA p : Element(t.x, t.s, <<c[1]>> \o p[1])
                      * Element(t.weights, t.k, <<p[1][1], c[2]>> \o p[2]))

\* The mean as sum and count
PooledBelow(t, c) ==
  LET cells == InsideBelow(t, c)
      value(k) == ValueAt(t, c[1], c[2], CellBelow(t, c, k))
  IN  IF t.type = "max" THEN CHOOSE v \in {value(k) : k \in cells} : \A k \in cells : v >= value(k)
      ELSE <<SumOver(cells, value), IF t.white THEN t.k[3] * t.k[4] ELSE Cardinality(cells)>>

\* A second version is the first one with what this run was given.
FirstVersion(k) ==
  CASE k = "conv2d_v2" -> "conv2d" [] k = "depthwise_conv2d_v2" -> "depthwise_conv2d"
    [] k = "conv2d_winograd_v2" -> "conv2d_winograd" [] k = "pooling2d_v2" -> "pooling2d"
    [] OTHER -> k
Given(k, t) == IF FirstVersion(k) = k THEN t ELSE t.given @@ t

-------------------------------------------------------------------------------
\* Resampling: t.at is the dimension of rows, from 1, and that of columns follows it.
Resizings == {"resize2d", "resize_nearest_neighbor", "sample2d_v2"}
Resamplings == Resizings \union {"affine_sample2d", "sample2d"}

\* The place along axis 1 or 2 of the image for which an element of the output stands
PlaceOf(k, t, c, d) ==
  LET n == c[t.at + d - 1]
      from == t.sizes[t.at + d - 1]
      to == t.out[t.at + d - 1]
      rz == t.rz[3 - d]
  IN  CASE k \in Resizings /\ t.type = "hard" -> [at |-> n * from, unit |-> to]
        [] k \in Resizings /\ t.type # "hard" -> [at |-> (2 * n + 1) * from - to, unit |-> 2 * to]
        [] k = "sample2d" -> [at |-> n * t.scale[2], unit |-> t.scale[1]]
        [] OTHER -> [at |-> rz[1] * c[t.at + 1] + rz[2] * c[t.at] + rz[3], unit |-> t.unit]

\* A place for the lack of which the nearest in the image is taken; the code may stop just
\* before the last cell.
Nearest(t, p, d) ==
  LET size == t.sizes[t.at + d - 1]
      Confined(low, high) == Smallest(Largest(p.at, low * p.unit), high * p.unit)
      at == IF t.type = "cubic" THEN Confined(1, size - 3) ELSE Confined(0, size - 1)
  IN  {[p EXCEPT !.at = at]}
      \union {[p EXCEPT !.at = at - 1] : e \in IF t.type = "linear" /\ at = (size - 1) * p.unit THEN {1} ELSE {}}

\* What cell i counts at a place: a tent, the polynomials of Keys for a = -3/4, or which
\* cells are meant at all
Weight(type, p, i) ==
  LET u == p.unit
      d == Activated("abs", i * u - p.at, 0)
  IN  CASE type = "linear" -> Largest(u - d, 0)
        [] type = "cubic" /\ d <= u -> (5 * d - 9 * u) * d * d + 4 * u * u * u
        [] type = "cubic" /\ d > u /\ d < 2 * u -> ((-3 * d + 15 * u) * d - 24 * u * u) * d + 12 * u * u * u
        [] type = "nearest" -> IF 2 * d <= u THEN 1 ELSE 0
        [] type = "hard" -> IF i * u <= p.at /\ p.at < (i + 1) * u THEN 1 ELSE 0
        [] OTHER -> 0
OneOf(type, py, px) ==
  CASE type = "linear" -> py.unit * px.unit
    [] type = "cubic" -> 16 * py.unit * py.unit * py.unit * px.unit * px.unit * px.unit
    [] OTHER -> 1

CellAt(t, c, e) == Element(t.x, t.sizes, [c EXCEPT ![t.at] = e[1], ![t.at + 1] = e[2]])
MayBe(t, c, v, py, px) ==
  LET cells == Loop(t.sizes[t.at]) \X Loop(t.sizes[t.at + 1])
      Both(e) == Weight(t.type, py, e[1]) * Weight(t.type, px, e[2])
      sum == SumOver(cells, LAMBDA e : Both(e) * CellAt(t, c, e))
      one == OneOf(t.type, py, px)
  IN  IF t.type \in {"nearest", "hard"} THEN \E e \in cells : Both(e) = 1 /\ v = CellAt(t, c, e)
      ELSE v = IF t.float THEN sum ELSE Smallest(Largest(sum, 0) \div one, 255)

\* Around the last row and column, and before the first, nearest and hard may take a place
\* for an outer one.
Inner(t, p, d) ==
  LET size == t.sizes[t.at + d - 1]
  IN  CASE t.type = "linear" -> p.at >= 0 /\ p.at < (size - 1) * p.unit
        [] t.type = "cubic" -> p.at >= p.unit /\ p.at < (size - 3) * p.unit
        [] OTHER -> p.at >= 0 /\ 2 * p.at < (2 * size - 3) * p.unit
Outer(t, p, d) ==
  IF t.type \in {"linear", "cubic"} THEN ~ Inner(t, p, d)
  ELSE 2 * p.at < -3 * p.unit \/ 2 * p.at >= (2 * t.sizes[t.at + d - 1] + 1) * p.unit

Resampled(k, t, c, v) ==
  LET p == [d \in 1 .. 2 |-> PlaceOf(k, t, c, d)]
      outer == CASE k \in Resizings -> <<>> [] k = "sample2d" -> <<0>> [] OTHER -> t.outer
      mayBeOuter == outer # <<>> /\ \E d \in 1 .. 2 : ~ Inner(t, p[d], d)
      mustBeOuter == outer # <<>> /\ \E d \in 1 .. 2 : Outer(t, p[d], d)
  IN  \/ mayBeOuter /\ v = outer[1] * (IF t.float THEN OneOf(t.type, p[1], p[2]) ELSE 1)
      \/ /\ ~ mustBeOuter
         /\ \E py \in Nearest(t, p[1], 1), px \in Nearest(t, p[2], 2) : MayBe(t, c, v, py, px)

\* The patch whose middle is a landmark, or the next to it, with zero outside the image;
\* one that begins before the image begins at the next cell toward it.
PatchCell(t, c) ==
  LET Start(d) ==
        LET size == t.out[IF d = 1 THEN 3 ELSE 5]
            twice == 2 * t.pos[c[1] * t.count + 2 * c[4] + 2 - d] * (t.s[d + 2] - 1) - (size - 2) * t.unit
        IN  IF twice < 0 THEN -((-twice) \div (2 * t.unit)) ELSE twice \div (2 * t.unit)
      cell == <<c[1], c[2], Start(1) + c[3], Start(2) + c[5]>>
  IN  IF Inside(cell, t.s) THEN Element(t.x, t.s, cell) ELSE 0

\* t.priors: how high and wide they are; t.every: the pixels from one cell to the next
PriorEdge(t, c) ==
  LET d == IF c[5] \in {0, 2} THEN 2 ELSE 1
      size == t.priors[c[4] + 1][d]
      edge == (2 * c[d + 1] + 1) * t.every[d] * t.unit + (IF c[5] < 2 THEN -size ELSE size) * t.unit
      part == edge \div (2 * t.pixels[d])
  IN  IF c[1] = 1 THEN (IF Len(t.variance) = 4 THEN t.variance ELSE <<1>> \o t.variance)[
                         IF Len(t.variance) = 4 THEN c[5] + 1 ELSE Len(t.variance) + 1]
      ELSE IF t.clip THEN Smallest(Largest(part, 0), t.unit) ELSE part

\* The cells of a grid that a box covers tell how much of two boxes is common.
Overlapping(a, b, threshold) ==
  LET Covered(box) == (box[1] .. box[3] - 1) \X (box[2] .. box[4] - 1)
      common == Cardinality(Covered(a) \intersect Covered(b))
      all == Cardinality(Covered(a) \union Covered(b))
  IN  common * threshold[2] > all * threshold[1]

\* Of some boxes with different scores are kept those that overlap with no better one kept.
Settled(kept, all, score, overlapping(_, _)) ==
  \A i \in all : i \in kept <=> ~ \E j \in kept : score[j] > score[i] /\ overlapping(i, j)

\* The best t.max_output of them, best first
Suppressed(t, out) ==
  LET all == {i \in DOMAIN t.scores : t.scores[i] > t.score_threshold}
      kept == CHOOSE s \in SUBSET all :
                Settled(s, all, t.scores,
                        LAMBDA i, j : Overlapping(t.boxes[i + 1], t.boxes[j + 1], t.iou_threshold))
      Better(i) == Cardinality({j \in kept : t.scores[j] > t.scores[i]})
  IN  out = [o \in Loop(t.max_output) |->
               IF o < Cardinality(kept) THEN CHOOSE i \in kept : Better(i) = o ELSE -1]

\* What a number's anchors see, and the rows that are left of it: for every class the boxes
\* that no better one suppresses
Seen(t, number) ==
  {s \in {<<i, n, y, x>> : i \in DOMAIN t.layers, n \in 0 .. 1, y \in 0 .. 1, x \in 0 .. 1} :
     LET l == t.layers[s[1]]
     IN  /\ s[2] < Len(l.mask) /\ s[3] < l.s[3] /\ s[4] < l.s[4]
         /\ Element(l.x, l.s, <<number, s[2] * (5 + t.classes) + 4, s[3], s[4]>>) > t.thresh}
EntryOf(t, number, s, e) ==
  LET l == t.layers[s[1]] IN Element(l.x, l.s, <<number, s[2] * (5 + t.classes) + e, s[3], s[4]>>)
EdgeOf(t, number, s, d, sign) ==   \* in half units; d is 0 for x
  LET l == t.layers[s[1]]
      centre == ((4 * s[4 - d] + EntryOf(t, number, s, d)) * t.unit) \div (2 * l.s[4 - d])
      size == ((2 ^ EntryOf(t, number, s, d + 2)) * l.anchors[2 * l.mask[s[2] + 1] + d] * t.unit) \div t.net[2 - d]
  IN  Smallest(Largest(centre + sign * size, 0), 2 * t.unit)
KeptRows(t, k, box, score) ==
  LET all == {s \in DOMAIN score : score[s] > t.thresh * t.sure}
      Row(b, p) == <<b[1], b[2], b[3] - b[1], b[4] - b[2], p, k>>
  IN  {Row(box[s], score[s]) :
         s \in CHOOSE kept \in SUBSET all :
                 Settled(kept, all, score, LAMBDA a, b : Overlapping(box[a], box[b], t.nms))}
RowsOf(t, number) ==
  LET OfSeen(seen, box) ==
        UNION {KeptRows(t, k, box, [s \in seen |-> EntryOf(t, number, s, 4) * EntryOf(t, number, s, 5 + k)]) :
                 k \in Loop(t.classes)}
      Boxed(seen) ==
        OfSeen(seen, [s \in seen |-> [e \in 1 .. 4 |->
                        EdgeOf(t, number, s, (e - 1) % 2, IF e <= 2 THEN -1 ELSE 1)]])
  IN  Boxed(Seen(t, number))

-------------------------------------------------------------------------------
Done == launches = <<>>
Output == mem["out"]
Kernel == call.kernel

\* Every element is computed once from the elements that belong to it.  Arithmetic takes
\* those that broadcast brings together, whichever loop ElementWiseReduce chose after it
\* merged dimensions; a channel takes its own parameters; lanes, what is left after the
\* lanes, and the blocks of a scale leave nothing out, on the CPU and on the GPU.
EachInItsPlace ==
  Done =>
    /\ Kernel \in Arithmetics => Output = Arithmetic(Kernel, call.task)
    /\ Kernel = "broadcast" => Output = Filled(call.task.out, LAMBDA c : Stretched(call.task.x, c))
    /\ Kernel \in PerChannelKernels => Output = PerChannel(Kernel, call.task)
    /\ Kernel \in Activations =>
         Output = [i \in Loop(call.task.n) |-> Activated(Kernel, call.task.x[i], call.task.p)]
    /\ Kernel = "quantize" => Output = Quantized(call.task)
    /\ Kernel = "cast" =>
         /\ DOMAIN Output = Loop(call.task.n)
         /\ \A i \in DOMAIN Output : CastTo(call.task.to, call.task.x[i], Output[i])
    /\ Kernel \in Resamplings =>
         /\ DOMAIN Output = Loop(Product(call.task.out))
         /\ \A o \in DOMAIN Output :
              Resampled(Kernel, call.task, to_coordinate(o, call.task.out), Output[o])
    /\ Kernel = "shape_index_patch" => Output = Filled(call.task.out, LAMBDA c : PatchCell(call.task, c))
    /\ Kernel = "prior_box" => Output = Filled(call.task.out, LAMBDA c : PriorEdge(call.task, c))
    /\ Kernel = "yolo" =>
         Output = Filled(call.task.s,
                    LAMBDA c : LET v == Element(call.task.x, call.task.s, c)
                               IN  IF c[2] % (5 + call.task.classes) \in {2, 3} THEN v ELSE Sigmoid(v))

\* What is combined along dimensions, over an image, in a product or by the threads of a
\* launch is all that belongs together and no more, in whatever order rows, tiles, blocks
\* and threads run, also if the last block is not full.
CombinesTheRightOnes ==
  Done =>
    /\ Kernel \in Reductionals => Output = AlongDimension(Kernel, call.task)
    /\ Kernel = "topkv2" =>
         \A n \in Loop(Product(Front(call.task.s))) :
           {Output[i] : i \in n * call.task.k .. n * call.task.k + call.task.k - 1} = GreatestOf(call.task, n)
    /\ Kernel \in {"gemm", "inner_prod"} => Output = Products(Kernel, call.task)
    /\ FirstVersion(Kernel) \in Convolutions =>
         Output = Filled(call.task.out,
                    LAMBDA c : Convolved(FirstVersion(Kernel), Given(Kernel, call.task), c))
    /\ FirstVersion(Kernel) = "pooling2d" =>
         Output = Filled(call.task.out, LAMBDA c : PooledBelow(Given(Kernel, call.task), c))
    /\ Kernel = "non_max_suppression_v3" => Suppressed(call.task, Output)
    /\ Kernel = "yolo_poster" =>
         \A n \in 1 .. call.task.numbers :
           LET rows == RowsOf(call.task, n - 1)
           IN  /\ {p \in DOMAIN Output : p[1] = n} = {n} \X Loop(6 * Cardinality(rows))
               /\ {[e \in 1 .. 6 |-> Output[<<n, 6 * r + e - 1>>]] : r \in Loop(Cardinality(rows))} = rows
    /\ Kernel \in SumKernels => Output[0] = TotalOf(Kernel, call.task)
    /\ Kernel \in {"norm_image", "prewhiten"} => Output = Normal(call.task, Kernel)

\* Every element that is moved comes from where the operator's definition says, and all
\* elements of the output are written.
MovesAsDefined ==
  Done =>
    /\ Kernel \in Movements => Output = Filled(call.task.out, LAMBDA c : Found(Kernel, call.task, c))
    /\ Kernel = "chunk" => Rejoined(call.task, Output) = call.task.x

\* Two iterations of a parallel loop, or two blocks, never write the same element: what
\* is in the output does not depend on who runs first.
PartsApart ==
  launches # <<>> /\ Head(launches).kind = "parts" =>
    LET parts == Head(launches).parts
    IN  \A p, q \in DOMAIN parts : p # q => DOMAIN parts[p] \cap DOMAIN parts[q] = {}

\* norm_image and prewhiten are documented with a loop that adds every element to the
\* mean; so math::sum, which they call, would return the sum of all.
AddsEveryElement == Done /\ Kernel = "sum" => Output[0] = TotalOf("sum", call.task)
===============================================================================
