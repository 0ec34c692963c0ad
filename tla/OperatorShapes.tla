---------------------------- MODULE OperatorShapes ----------------------------
(***************************************************************************)
(* What the operators themselves compute: the prototype of the output that *)
(* infer (or run, where it differs) of backend/base, backend/zoo and       *)
(* kernels/cpu allocates when all inputs are there, with Failed for every  *)
(* check that throws.  One definition per operator class, under the name   *)
(* of the class; Computed is the table of the operator factory.            *)
(***************************************************************************)
EXTENDS FrameworkPadding

\* The same shape, whatever the parameters
Elementwise(n) == n.in[1]

ToFloat(n) == One("float", X(n))
CastV2(n) == One(n.attr.dtype, X(n))

Quantize(n) ==
  Checked(Len(n.attr.quantize_scale) = X(n)[1], One("int8", X(n)))

AddBias(n) ==
  Checked(/\ InDims(n.attr.dim, Len(X(n)))
          /\ W(n, 2) = <<X(n)[n.attr.dim + 1]>>
          /\ TypeOf(n, 1) = TypeOf(n, 2), n.in[1])

(* Windows *)

\* Padding, stride, dilation and kernel size are trivial in batch and channel.
NativeOnly(format, padding, fours) ==
  \A d \in {1, ChannelAt(format)} :
    /\ padding[2 * d - 1] = 0 /\ padding[2 * d] = 0
    /\ \A four \in fours : four[d] = 1

Window(n, channels, Extent(_)) ==
  Like(n, [d \in 1 .. 4 |->
    CASE d = 1 -> X(n)[1]
      [] d = ChannelAt(n.attr.format) -> channels
      [] OTHER -> Extent(d)])

\* The kernel is looked up in the layout of the image: w.size(2), w.size(3) for
\* NCHW, w.size(1), w.size(2) for NHWC.
ConvWindow(n, w, channels, padding) ==
  Window(n, channels, LAMBDA d :
    conv2d_forward(X(n)[d], PadOf(padding, d), n.attr.dilation[d], w[d], n.attr.stride[d]))

ConvChecks(n, w, padding) ==
  /\ Len(X(n)) = 4 /\ Len(w) = 4
  /\ w[2] = X(n)[2]
  /\ n.attr.format \in Formats
  /\ NativeOnly(n.attr.format, padding, {n.attr.stride, n.attr.dilation})

Conv2D(n) ==
  Checked(ConvChecks(n, W(n, 2), n.attr.padding) /\ TypeOf(n, 2) = TypeOf(n, 1),
          ConvWindow(n, W(n, 2), W(n, 2)[1], n.attr.padding))

\* Hands its second input to a conv2d as the padding.
Conv2DV2(n) ==
  Checked(ConvChecks(n, W(n, 3), Val(n, 2)) /\ TypeOf(n, 3) = TypeOf(n, 1),
          ConvWindow(n, W(n, 3), W(n, 3)[1], Val(n, 2)))

Conv2DQuantized(n) ==
  Checked(/\ ConvChecks(n, W(n, 2), n.attr.padding)
          /\ TypeOf(n, 1) = "int8" /\ TypeOf(n, 2) = "int8"
          /\ Len(n.attr.dequantize_scales) = W(n, 2)[1],
          One("float",
              ConvWindow(n, W(n, 2), W(n, 2)[1], n.attr.padding)[1].sizes))

\* Kernels of 3x3 with stride and dilation one, whatever shape w has
WinogradWindow(n, w, padding) ==
  Checked(/\ Len(X(n)) = 4 /\ Len(w) = 4 /\ n.attr.format \in Formats
          /\ NativeOnly(n.attr.format, padding, {}),
          Window(n, w[1],
                 LAMBDA d : conv2d_forward(X(n)[d], PadOf(padding, d), 1, 3, 1)))

Conv2DWinograd(n) == WinogradWindow(n, W(n, 2), n.attr.padding)
Conv2DWinogradV2(n) == WinogradWindow(n, W(n, 3), Val(n, 2))

DCNV2Forward(n) ==
  Checked(/\ Len(n.in) = 5
          /\ \A i \in 1 .. 5 : /\ TypeOf(n, i) = TypeOf(n, 1)
                               /\ Len(W(n, i)) = IF i = 3 THEN 1 ELSE 4,
          ConvWindow(n, W(n, 2), W(n, 2)[1], n.attr.padding))

\* A depthwise convolution is a convolution whose second size is replaced, in
\* either layout.
Depthwise(n, w, conv) ==
  IF conv = Failed THEN Failed
  ELSE Checked(w[1] = 1, Like(n, [conv[1].sizes EXCEPT ![2] = X(n)[2] * w[1]]))

DepthwiseConv2D(n) == Depthwise(n, W(n, 2), Conv2D(n))
DepthwiseConv2DV2(n) == Depthwise(n, W(n, 3), Conv2DV2(n))

Conv2DTranspose(n) ==
  Checked(/\ Len(X(n)) = 4 /\ Len(W(n, 2)) = 4
          /\ TypeOf(n, 1) = TypeOf(n, 2) /\ W(n, 2)[1] = X(n)[2]
          /\ NativeOnly(n.attr.format, n.attr.padding, {n.attr.stride, n.attr.dilation}),
          Window(n, W(n, 2)[2], LAMBDA d : conv2d_backward(X(n)[d],
                 PadOf(n.attr.padding, d), n.attr.dilation[d], W(n, 2)[d],
                 n.attr.stride[d])))

PoolWindow(n, padding, ksize, stride) ==
  Checked(/\ Len(X(n)) = 4 /\ n.attr.format \in Formats
          /\ NativeOnly(n.attr.format, padding, {ksize, stride}),
          Window(n, X(n)[ChannelAt(n.attr.format)], LAMBDA d :
            pooling2d_forward(X(n)[d], PadOf(padding, d), ksize[d], stride[d])))

Pooling2D(n) == PoolWindow(n, n.attr.padding, n.attr.ksize, n.attr.stride)

Pooling2DV2(n) ==
  Checked(Len(n.in) = 4 /\ Len(Val(n, 2)) = 8 /\ Len(Val(n, 3)) = 4 /\ Len(Val(n, 4)) = 4,
          PoolWindow(n, Val(n, 2), Val(n, 3), Val(n, 4)))

GlobalPooling2D(n) ==
  Checked(Len(X(n)) = 4 /\ n.attr.format \in Formats,
          Window(n, X(n)[ChannelAt(n.attr.format)], LAMBDA d : 1))

WinogradTransKernel(n) ==
  LET tile == IF n.attr.winograd_mode = "winograd_f63" THEN 8 ELSE 4
  IN  Checked(Len(X(n)) = 4 /\ X(n)[3] = 3 /\ X(n)[4] = 3,
              Like(n, <<X(n)[1], X(n)[2], tile, tile>>))

(* Elementwise operators of two inputs *)

\* ElementWiseReduce::reduce
ElementWiseReduce(n) ==
  LET l == PadFront(X(n), Len(W(n, 2)))
      r == PadFront(W(n, 2), Len(X(n)))
  IN  Checked(/\ TypeOf(n, 1) = TypeOf(n, 2)
              /\ \A i \in DOMAIN l : l[i] = r[i] \/ l[i] = 1 \/ r[i] = 1,
              Like(n, [i \in DOMAIN l |-> IF l[i] = r[i] THEN l[i] ELSE l[i] * r[i]]))

Broadcast(n) ==
  Checked(/\ Len(Val(n, 2)) = Len(X(n))
          /\ \A i \in DOMAIN X(n) : X(n)[i] \in {1, Val(n, 2)[i]},
          Like(n, Val(n, 2)))

InnerProd(n) ==
  LET l == IF Len(X(n)) = 2 THEN X(n) ELSE <<X(n)[1], Product(Tail(X(n)))>>
      t == AttrOr(n, "transpose", FALSE)
      r == IF t THEN Reverse(W(n, 2)) ELSE W(n, 2)
  IN  Checked(/\ X(n) # <<>> /\ Len(r) = 2 /\ l[2] = r[1]
              /\ TypeOf(n, 1) = TypeOf(n, 2),
              Like(n, <<l[1], r[2]>>))

Gemm(n) ==
  LET a == IF n.attr.transA THEN Reverse(X(n)) ELSE X(n)
      b == IF n.attr.transB THEN Reverse(W(n, 2)) ELSE W(n, 2)
      c == PadFront(W(n, 3), 2)
  IN  Checked(/\ Len(a) = 2 /\ Len(b) = 2 /\ Len(W(n, 3)) <= 2
              /\ TypeOf(n, 1) = TypeOf(n, 2) /\ TypeOf(n, 3) = TypeOf(n, 1)
              /\ a[2] = b[1]
              /\ c[1] \in {1, a[1]} /\ c[2] \in {1, b[2]},
              Like(n, <<a[1], b[2]>>))

(* New shapes of the same elements *)

NewShape(n, shape) == Checked(Product(shape) = Product(X(n)), Like(n, shape))

Flatten(n) ==
  LET x == X(n)
      need == FixDim(AttrOr(n, "dim", 1), Len(x)) + 1
  IN  NewShape(n, IF need < Len(x)
                  THEN Append(SubSeq(x, 1, need - 1), Product(SubSeq(x, need, Len(x))))
                  ELSE x \o Ones(need - Len(x)))

Flatten2D(n) ==
  LET x == X(n)
      dim == FixDim(AttrOr(n, "dim", 1), Len(x))
      cut == IF dim <= 0 THEN 0 ELSE IF dim >= Len(x) THEN Len(x) ELSE dim
  IN  NewShape(n, <<Product(SubSeq(x, 1, cut)), Product(SubSeq(x, cut + 1, Len(x)))>>)

\* A zero copies a size of x, one negative size takes what is left.  Reshape
\* leaves the copied sizes out of what it divides by, ReshapeV2 does not.
Filled(x, asked, CountsCopies) ==
  LET shape == [i \in DOMAIN asked |->
                  IF asked[i] = 0 /\ i <= Len(x) THEN x[i] ELSE asked[i]]
      free == {i \in DOMAIN asked : shape[i] < 0}
      others == Product([i \in DOMAIN asked |->
                  IF i \in free \/ (asked[i] = 0 /\ ~ CountsCopies) THEN 1 ELSE shape[i]])
      left == CQuot(Product(x), others)
  IN  IF \/ \E i \in DOMAIN asked : shape[i] = 0
         \/ Cardinality(free) > 1
         \/ free # {} /\ left * others # Product(x)
      THEN {} ELSE {[i \in DOMAIN asked |-> IF i \in free THEN left ELSE shape[i]]}

Refilled(n, asked, CountsCopies) ==
  LET ys == Filled(X(n), asked, CountsCopies)
  IN  IF ys = {} THEN Failed ELSE NewShape(n, CHOOSE y \in ys : TRUE)

Reshape(n) == Refilled(n, n.attr.shape, FALSE)
ReshapeV2(n) == Refilled(n, Val(n, 2), TRUE)

Squeeze(n) ==
  LET axes == AttrOr(n, "axes", <<>>)
      Cut(axis, ys) ==
        UNION { LET at == FixDim(axis, Len(y))
                IN  IF InDims(at, Len(y)) /\ y[at + 1] = 1 THEN {EraseDim(y, at)} ELSE {}
                : y \in ys }
      ys == FoldRight(Cut, axes, {X(n)})
  IN  IF axes = <<>> THEN NewShape(n, SelectSeq(X(n), LAMBDA size : size # 1))
      ELSE IF ys = {} THEN Failed ELSE NewShape(n, CHOOSE y \in ys : TRUE)

Unsqueeze(n) ==
  LET Put(ys, axis) ==
        UNION { IF axis > Len(y) \/ axis < -Len(y) THEN {}
                ELSE {InsertDim(y, IF axis >= 0 THEN axis ELSE Len(y) + axis + 1, 1)}
                : y \in ys }
      ys == FoldLeft(Put, {X(n)}, n.attr.axes)
  IN  IF ys = {} THEN Failed ELSE NewShape(n, CHOOSE y \in ys : TRUE)

\* front and end limit how many ones go to either side; negative is no limit.
Expand(n) ==
  LET dims == Val(n, 2)[1]
      missing == dims - Len(X(n))
      front == AttrOr(n, "front", -1)
      end == AttrOr(n, "end", -1)
      Take(limit, left) == IF limit < 0 \/ limit > left THEN left ELSE limit
      inverse == AttrOr(n, "inverse", FALSE)
      first == Take(IF inverse THEN end ELSE front, missing)
      second == Take(IF inverse THEN front ELSE end, missing - first)
      inFront == IF inverse THEN second ELSE first
      behind == IF inverse THEN first ELSE second
  IN  Checked(/\ missing >= 0
              /\ first + second = missing
              /\ ~ (missing > 0 /\ front > 0 /\ end > 0 /\ front + end < missing),
              Like(n, Ones(inFront) \o X(n) \o Ones(behind)))

Transpose(n) ==
  LET permute == n.attr.permute
      x == PadFront(X(n), Len(permute))
      y == [i \in DOMAIN permute |-> x[permute[i] + 1]]
  IN  Checked(/\ {permute[i] : i \in DOMAIN permute} = 0 .. (Len(permute) - 1)
              /\ Len(X(n)) <= Len(permute)
              /\ \A i \in DOMAIN y : y[i] > 0,
              Like(n, y))

(* Joining, cutting and repeating *)

Concat(n) ==
  LET dim == FixDim(n.attr.dim, Len(X(n)))
      Agrees(s) == /\ Len(s) = Len(X(n))
                   /\ \A j \in DOMAIN s : j = dim + 1 \/ s[j] = X(n)[j]
  IN  IF Len(n.in) = 1 THEN n.in[1]
      ELSE IF ~ /\ InDims(dim, Len(X(n)))
                /\ \A i \in DOMAIN n.in : TypeOf(n, i) = TypeOf(n, 1) /\ Agrees(W(n, i))
      THEN Failed
      ELSE Like(n, SetDim(X(n), dim,
                          SumFunction([i \in DOMAIN n.in |-> W(n, i)[dim + 1]])))

StackTensor(n) ==
  LET axis == FixDim(n.attr.axis, Len(X(n)) + 1)
  IN  Checked(/\ \A i \in DOMAIN n.in : n.in[i] = n.in[1]
              /\ InDims(axis, Len(X(n)) + 1),
              Like(n, InsertDim(X(n), axis, Len(n.in))))

\* The bins are as many as split_bins finds; a chunk without a bin is garbage.
Chunk(n) ==
  LET dim == FixDim(AttrOr(n, "dim", -2), Len(X(n)))
      bins == split_bins(0, X(n)[dim + 1], n.attr.chunks)
  IN  IF ~ (InDims(dim, Len(X(n))) /\ X(n)[dim + 1] >= n.attr.chunks) THEN Failed
      ELSE [i \in 1 .. n.attr.chunks |->
              [type |-> TypeOf(n, 1),
               sizes |-> SetDim(X(n), dim, bins[i][2] - bins[i][1])]]

Tile(n) ==
  LET x == PadFront(X(n), Len(n.attr.repeats))
      repeats == PadFront(n.attr.repeats, Len(x))
  IN  Checked(\A i \in DOMAIN repeats : repeats[i] >= 0,
              Like(n, [i \in DOMAIN x |-> x[i] * repeats[i]]))

Dimshuffle(n) ==
  LET dim == n.attr.dim
      shuffle == n.attr.shuffle
  IN  Checked(/\ InDims(dim, Len(X(n))) /\ shuffle # <<>>
              /\ \A i \in DOMAIN shuffle : InDims(shuffle[i], X(n)[dim + 1]),
              Like(n, SetDim(X(n), dim, Len(shuffle))))

Gather(n) ==
  LET axis == FixDim(AttrOr(n, "axis", 0), Len(X(n)))
  IN  Checked(X(n) # <<>> /\ InDims(axis, Len(X(n))),
        Like(n, SubSeq(X(n), 1, axis) \o W(n, 2) \o SubSeq(X(n), axis + 2, Len(X(n)))))

GatherV2(n) ==
  LET indices == W(n, 2)
  IN  Checked(X(n) # <<>> /\ indices # <<>> /\ Last(indices) <= Len(X(n)),
        Like(n, Front(indices) \o SubSeq(X(n), Last(indices) + 1, Len(X(n)))))

\* Pad leaves at least one element.
Padded(n, padding) ==
  Checked(Len(padding) = 2 * Len(X(n)),
    Like(n, [d \in DOMAIN X(n) |-> Max({1, X(n)[d] + PadOf(padding, d)})]))

Pad(n) == Padded(n, Val(n, 2))

\* Slice and SliceV2; a negative size takes the rest.
Slice(n, begin, size) ==
  LET Extent(i) == IF size[i] < 0 THEN X(n)[i] - begin[i] ELSE size[i]
  IN  Checked(/\ Len(begin) = Len(X(n)) /\ Len(size) = Len(X(n))
              /\ \A i \in DOMAIN X(n) :
                   InDims(begin[i], X(n)[i]) /\ begin[i] + Extent(i) <= X(n)[i],
              Like(n, [i \in DOMAIN X(n) |-> Extent(i)]))

(* Reductions *)

ArgMax(n) ==
  LET dim == FixDim(n.attr.dim, Len(X(n)))
  IN  Checked(InDims(dim, Len(X(n))), One("int", EraseDim(X(n), dim)))

\* Max and ReduceSum take one dimension.
ReducedOne(n, asked) ==
  LET dim == FixDim(asked, Len(X(n)))
  IN  Checked(InDims(dim, Len(X(n))),
        Like(n, IF n.attr.keep_dims THEN SetDim(X(n), dim, 1) ELSE EraseDim(X(n), dim)))

\* ReduceMean takes neighbouring dimensions in ascending order.
ReduceMean(n) ==
  LET dims == n.attr.dims
      fixed == {FixDim(dims[i], Len(X(n))) : i \in DOMAIN dims}
      kept == SelectSeq([d \in DOMAIN X(n) |-> d],
                        LAMBDA d : n.attr.keep_dims \/ d - 1 \notin fixed)
  IN  Checked(/\ dims # <<>>
              /\ \A i \in 1 .. Len(dims) - 1 : dims[i + 1] = dims[i] + 1
              /\ \A dim \in fixed : InDims(dim, Len(X(n))),
        Like(n, [k \in DOMAIN kept |->
                   IF kept[k] - 1 \in fixed THEN 1 ELSE X(n)[kept[k]]]))

Topkv2(n) ==
  LET y == IF X(n) = <<>> THEN X(n)
           ELSE SetDim(X(n), Len(X(n)) - 1, Min({Last(X(n)), n.attr.number}))
  IN  Like(n, y) \o One("int", y)

(* Questions about a shape *)

GetShape(n) == One("int", <<Len(X(n))>>)
Dims(n) == One("int", <<>>)

\* As many steps as stay below the limit
RangeSteps(start, limit, delta) ==
  LET steps == CQuot(limit - start, delta)
  IN  IF steps * delta + start < limit THEN steps + 1 ELSE steps

StepRange(n) ==
  Checked(\A i \in 1 .. 3 : Product(W(n, i)) = 1,
          Like(n, <<RangeSteps(Val(n, 1)[1], Val(n, 2)[1], Val(n, 3)[1])>>))

(* Slices of begin:end:stride, with the masks of TensorFlow as sets of positions *)

\* An ellipsis is merged into one dimension, as are the dimensions behind the
\* last entry; a new axis is a dimension of one.
infer_output(x, s, mask) ==
  LET k == Len(s.begin)
      sized == 1 .. k \ mask.new_axis
      left == Cardinality({i \in sized : \E e \in mask.ellipsis : i < e})
      right == Cardinality({i \in sized : \E e \in mask.ellipsis : i > e})
      middle == SubSeq(x, left + 1, Len(x) - right)
      merged == IF mask.ellipsis = {} THEN x
                ELSE SubSeq(x, 1, left) \o <<Product(middle)>>
                     \o SubSeq(x, Len(x) - right + 1, Len(x))
      NewAxis(y, i) == IF i \in mask.new_axis /\ i <= Len(y) + 1
                       THEN InsertAt(y, i, 1) ELSE y
      in == FoldLeft(NewAxis, merged, [i \in 1 .. k |-> i])
      Extent(i) ==
        SliceExtent(in[i], s.begin[i], s.end[i],
                    IF i \in mask.ellipsis THEN 1 ELSE s.stride[i],
                    i \in mask.begin \union mask.ellipsis,
                    i \in mask.end \union mask.ellipsis)
      Kept(i) == CASE i \in mask.ellipsis /\ middle # <<>> -> middle
                   [] i \in mask.shrink \ mask.ellipsis -> <<>>
                   [] OTHER -> <<Extent(i)>>
  IN  IF \/ k = 0 \/ Cardinality(mask.ellipsis) > 1 \/ Len(in) < k
         \/ Len(s.end) # k \/ Len(s.stride) # k
         \/ \E i \in mask.shrink \ mask.ellipsis : Extent(i) # 1
      THEN {}
      ELSE {FlattenSeq([i \in 1 .. k |-> Kept(i)]) \o SubSeq(in, k + 1, Len(in))}

SlicedTo(n, ys) == IF ys = {} THEN Failed ELSE Like(n, CHOOSE y \in ys : TRUE)

StridedSlice(n) == SlicedTo(n, infer_output(X(n), n.attr, n.attr.mask))

\* load_params: entries for the axes given and full slices below them.  A
\* negative axis would index outside the arrays.
load_params(n) ==
  LET starts == Val(n, 2)
      ends == Val(n, 3)
      axes == IF Len(n.in) > 3 THEN Val(n, 4) ELSE [i \in DOMAIN starts |-> i - 1]
      steps == IF Len(n.in) > 4 THEN Val(n, 5) ELSE Ones(Len(starts))
      At(d) == {i \in DOMAIN axes : axes[i] = d - 1}
      Entry(values, d, none) ==
        IF At(d) = {} THEN none ELSE values[CHOOSE i \in At(d) : TRUE]
      dims == 1 .. (Last(axes) + 1)
      unset == {d \in dims : At(d) = {}}
  IN  [ok |-> /\ starts # <<>> /\ Len(axes) = Len(starts)
              /\ \A i \in DOMAIN axes : InDims(axes[i], Len(X(n)))
              /\ \A i \in 1 .. Len(axes) - 1 : axes[i] < axes[i + 1],
       slices |-> [begin |-> [d \in dims |-> Entry(starts, d, 0)],
                   end |-> [d \in dims |-> Entry(ends, d, 0)],
                   stride |-> [d \in dims |-> Entry(steps, d, 1)]],
       mask |-> [begin |-> unset, end |-> unset, ellipsis |-> {},
                 new_axis |-> {}, shrink |-> {}]]

SliceV3(n) ==
  LET params == load_params(n)
  IN  IF ~ params.ok THEN Failed
      ELSE SlicedTo(n, infer_output(X(n), params.slices, params.mask))

(* Images *)

ResizedTo(n, size) ==
  LET at == find_resized_height_dim(X(n), size)
  IN  IF Len(size) # Len(X(n)) \/ Len(size) < 2 \/ at = {} THEN Failed
      ELSE Like(n, [i \in DOMAIN size |->
             IF i \in at \/ i - 1 \in at THEN size[i] ELSE X(n)[i]])

Resize2D(n) == ResizedTo(n, Val(n, 2))

ResizeNearestNeighbor(n) ==
  LET dim == n.attr.dim
      size == Val(n, 2)
  IN  IF ~ (Len(size) = 2 /\ InDims(dim, Len(X(n)) - 1)) THEN Failed
      ELSE IF ~ (size[1] > 0 /\ size[2] > 0) THEN Failed
      ELSE ResizedTo(n, [i \in DOMAIN X(n) |->
             CASE i = dim + 1 -> size[1] [] i = dim + 2 -> size[2] [] OTHER -> -1])

\* The sizes of two neighbouring dimensions are set.
SampledTo(n, dim, size) ==
  Checked(InDims(dim, Len(X(n)) - 1),
          Like(n, [X(n) EXCEPT ![dim + 1] = size[1], ![dim + 2] = size[2]]))

AffineSample2D(n) ==
  IF Len(Val(n, 2)) # 2 THEN Failed
  ELSE SampledTo(n, FixDim(n.attr.dim, Len(X(n))), Val(n, 2))

Sample2D(n) ==
  LET dim == FixDim(AttrOr(n, "dim", -2), Len(X(n)))
      Scaled(size) == (size * n.attr.scale[1]) \div n.attr.scale[2]
  IN  IF ~ InDims(dim, Len(X(n)) - 1) THEN Failed
      ELSE SampledTo(n, dim, <<Scaled(X(n)[dim + 1]), Scaled(X(n)[dim + 2])>>)

NHWCLetterBox(n) ==
  IF Len(X(n)) # 4 THEN Failed ELSE SampledTo(n, 1, Reverse(
    IF Len(n.attr.size) = 2 THEN n.attr.size ELSE n.attr.size \o n.attr.size))

NHWCScaleResize2D(n) ==
  LET size == n.attr.size
      h == X(n)[2]
      w == X(n)[3]
      hw == CASE Len(size) = 2 -> <<size[2], size[1]>>
              [] Len(size) # 2 /\ h > w -> <<CQuot(size[1] * h, w), size[1]>>
              [] OTHER -> <<size[1], CQuot(size[1] * w, h)>>
  IN  IF Len(X(n)) # 4 THEN Failed ELSE ResizedTo(n, <<-1, hw[1], hw[2], -1>>)

\* The operators that crop or pad do it with the padding they hand to Pad.
NHWCCenterCrop2D(n) ==
  LET Missing(d, size) == <<CQuot(size - X(n)[d], 2),
                            size - X(n)[d] - CQuot(size - X(n)[d], 2)>>
  IN  IF Len(X(n)) # 4 THEN Failed
      ELSE Padded(n, <<0, 0>> \o Missing(2, n.attr.size[2])
                     \o Missing(3, n.attr.size[1]) \o <<0, 0>>)

CropND(n) ==
  LET shape == Val(n, 2)
      shift == AttrOr(n, "shift", [i \in DOMAIN X(n) |-> 0])
      Missing(i) == shape[i] - X(n)[i]
      PadAt(i) ==
        CASE shape[i] <= 0 -> <<-shift[i], shift[i]>>
          [] shape[i] > 0 /\ Has(n, "shift") -> <<-shift[i], shift[i] + Missing(i)>>
          [] OTHER -> <<CQuot(Missing(i), 2), Missing(i) - CQuot(Missing(i), 2)>>
  IN  IF Len(shape) # Len(X(n)) \/ Len(shift) # Len(X(n)) THEN Failed
      ELSE Padded(n, FlattenSeq([i \in DOMAIN shape |-> PadAt(i)]))

Divided(n) ==
  LET size == PadFront(n.attr.size, Len(X(n)))
      Up(i) == IF size[i] = 1 THEN X(n)[i] ELSE CeilQuot(X(n)[i], size[i]) * size[i]
  IN  IF Len(n.attr.size) > Len(X(n)) THEN Failed
      ELSE Padded(n, FlattenSeq([i \in DOMAIN size |-> <<0, Up(i) - X(n)[i]>>]))

Limit(n) ==
  LET unbounded == Len(X(n)) - Len(n.attr.shape)
      Kept(i) == CASE i <= unbounded -> X(n)[i]
                   [] i > unbounded /\ n.attr.shape[i - unbounded] <= 0 -> X(n)[i]
                   [] OTHER -> Min({X(n)[i], n.attr.shape[i - unbounded]})
  IN  Checked(unbounded >= 0, Like(n, [i \in DOMAIN X(n) |-> Kept(i)]))

ForceColor(n) == Checked(X(n) # <<>>, Like(n, SetDim(X(n), Len(X(n)) - 1, 3)))
ForceGray(n) == Checked(X(n) # <<>>, Like(n, SetDim(X(n), Len(X(n)) - 1, 1)))

BatchToSpace4D(n) ==
  LET x == X(n)
      b == n.attr.block_shape
      c == n.attr.crop
  IN  Checked(Len(x) = 4 /\ x[1] > 0 /\ x[1] % (b[1] * b[2]) = 0,
        Like(n, <<x[1] \div (b[1] * b[2]), x[2], x[3] * b[1] - c[1] - c[2],
                  x[4] * b[2] - c[3] - c[4]>>))

SpaceToBatch4D(n) ==
  LET x == X(n)
      b == n.attr.block_shape
      p == n.attr.padding
  IN  Checked(/\ Len(x) = 4
              /\ (x[3] + p[1] + p[2]) % b[1] = 0 /\ (x[4] + p[3] + p[4]) % b[2] = 0,
        Like(n, <<x[1] * b[1] * b[2], x[2], (x[3] + p[1] + p[2]) \div b[1],
                  (x[4] + p[3] + p[4]) \div b[2]>>))

(* Boxes *)

NonMaxSuppressionV3(n) ==
  Checked(/\ Len(X(n)) = 2 /\ X(n)[2] = 4 /\ W(n, 2) = <<X(n)[1]>>
          /\ TypeOf(n, 1) = "float" /\ n.attr.max_output_size > 0,
          One("int", <<n.attr.max_output_size>>))

Proposal(n) ==
  LET levels == AttrOr(n, "max_level", 5) - AttrOr(n, "min_level", 2) + 1
  IN  Checked(Len(n.in) >= 3,
        [i \in 1 .. levels |-> [type |-> TypeOf(n, Len(n.in) - 2),
            sizes |-> <<X(n)[1] * AttrOr(n, "post_nms_top_n", 300), 5>>]])

ROIAlign(n) ==
  Checked(Len(n.in) = 2 /\ TypeOf(n, 1) = TypeOf(n, 2),
          Like(n, <<W(n, 2)[1], X(n)[2], n.attr.pool_h, n.attr.pool_w>>))

Yolo(n) ==
  LET x == X(n)
  IN  Checked(Len(x) = 4 /\ x[2] = Len(n.attr.mask) * (n.attr.classes + 4 + 1),
        Like(n, x) \o One("int", <<>>) \o One("int", <<Len(n.attr.mask)>>)
        \o One("float", <<Len(n.attr.anchors)>>))

\* The operators of the factory, by the names that TS_REGISTER_OPERATOR gives
\* them.
Computed(n) ==
  CASE n.op \in {"relu", "softmax", "batch_norm", "sigmoid", "_copy"} -> Elementwise(n)
    [] n.op = "to_float" -> ToFloat(n)
    [] n.op = "_cast" -> CastV2(n)
    [] n.op = "quantize" -> Quantize(n)
    [] n.op = "add_bias" -> AddBias(n)
    [] n.op = "conv2d" -> Conv2D(n)
    [] n.op = "conv2d_v2" -> Conv2DV2(n)
    [] n.op = "conv2d_quantized" -> Conv2DQuantized(n)
    [] n.op = "conv2d_winograd" -> Conv2DWinograd(n)
    [] n.op = "conv2d_winograd_v2" -> Conv2DWinogradV2(n)
    [] n.op = "dcn_v2_forward" -> DCNV2Forward(n)
    [] n.op = "depthwise_conv2d" -> DepthwiseConv2D(n)
    [] n.op = "depthwise_conv2d_v2" -> DepthwiseConv2DV2(n)
    [] n.op = "transpose_conv2d" -> Conv2DTranspose(n)
    [] n.op = "pooling2d" -> Pooling2D(n)
    [] n.op = "pooling2d_v2" -> Pooling2DV2(n)
    [] n.op = "global_pooling2d" -> GlobalPooling2D(n)
    [] n.op = "winograd_transform_kernel" -> WinogradTransKernel(n)
    [] n.op \in {"add", "sub", "mul", "div", "maximum"} -> ElementWiseReduce(n)
    [] n.op = "broadcast" -> Broadcast(n)
    [] n.op = "inner_prod" -> InnerProd(n)
    [] n.op = "gemm" -> Gemm(n)
    [] n.op = "flatten" -> Flatten(n)
    [] n.op = "flatten2d" -> Flatten2D(n)
    [] n.op = "_reshape" -> Reshape(n)
    [] n.op = "_reshape_v2" -> ReshapeV2(n)
    [] n.op = "squeeze" -> Squeeze(n)
    [] n.op = "unsqueeze" -> Unsqueeze(n)
    [] n.op = "_expand" -> Expand(n)
    [] n.op = "_transpose" -> Transpose(n)
    [] n.op = "concat" -> Concat(n)
    [] n.op = "stack" -> StackTensor(n)
    [] n.op = "chunk" -> Chunk(n)
    [] n.op = "tile" -> Tile(n)
    [] n.op = "_dimshuffle" -> Dimshuffle(n)
    [] n.op = "gather" -> Gather(n)
    [] n.op = "gatherv2" -> GatherV2(n)
    [] n.op = "pad" -> Pad(n)
    [] n.op = "slice" -> Slice(n, n.attr.begin, n.attr.size)
    [] n.op = "slice_v2" -> Slice(n, Val(n, 2), Val(n, 3))
    [] n.op = "slice_v3" -> SliceV3(n)
    [] n.op = "strided_slice" -> StridedSlice(n)
    [] n.op = "argmax" -> ArgMax(n)
    [] n.op = "max" -> ReducedOne(n, n.attr.dim[1])
    [] n.op = "reduce_sum" -> ReducedOne(n, n.attr.dims[1])
    [] n.op = "reduce_mean" -> ReduceMean(n)
    [] n.op = "topkv2" -> Topkv2(n)
    [] n.op = "_shape" -> GetShape(n)
    [] n.op = "_dims" -> Dims(n)
    [] n.op = "range" -> StepRange(n)
    [] n.op = "_resize2d" -> Resize2D(n)
    [] n.op = "resize_nearest_neighbor" -> ResizeNearestNeighbor(n)
    [] n.op = "affine_sample2d" -> AffineSample2D(n)
    [] n.op = "sample2d" -> Sample2D(n)
    [] n.op = "_nhwc_letterbox" -> NHWCLetterBox(n)
    [] n.op = "_nhwc_scale_resize2d" -> NHWCScaleResize2D(n)
    [] n.op = "_nhwc_center_crop2d" -> NHWCCenterCrop2D(n)
    [] n.op = "crop_nd" -> CropND(n)
    [] n.op = "divided" -> Divided(n)
    [] n.op = "_limit" -> Limit(n)
    [] n.op = "force_color" -> ForceColor(n)
    [] n.op = "force_gray" -> ForceGray(n)
    [] n.op = "batch_to_space4d" -> BatchToSpace4D(n)
    [] n.op = "space_to_batch4d" -> SpaceToBatch4D(n)
    [] n.op = "non_max_suppression_v3" -> NonMaxSuppressionV3(n)
    [] n.op = "proposal" -> Proposal(n)
    [] n.op = "roi_align" -> ROIAlign(n)
    [] n.op = "yolo" -> Yolo(n)
    [] OTHER -> Failed

-------------------------------------------------------------------------------
(***************************************************************************)
(* Operators on values: what infer_value and try_run get when they run an  *)
(* operator on inputs whose values are known.  Elements are in row-major   *)
(* order.                                                                  *)
(***************************************************************************)
\* Where element i of a broadcast comes from
BroadcastIndex(i, out, s) ==
  LET from == PadFront(s, Len(out))
      c == to_coordinate(i, out)
  IN  to_index([d \in DOMAIN out |-> IF from[d] = 1 THEN 0 ELSE c[d]], from)

\* The integer operators
Arithmetic(op, a, b) ==
  CASE op = "add" -> a + b
    [] op = "sub" -> a - b
    [] op = "mul" -> a * b
    [] op = "maximum" -> IF a > b THEN a ELSE b

\* Ops that hand their elements on, in whatever shape
SameElements == {"_copy", "_cast", "_reshape", "_reshape_v2", "flatten", "squeeze",
                 "unsqueeze", "_expand"}

\* The elements of the output, whose shape is out.  concat, stack and
\* strided_slice are those of lists.
Elements(n, out) ==
  CASE n.op \in SameElements -> Val(n, 1)
    [] n.op \in {"add", "sub", "mul", "maximum"} ->
         [i \in 1 .. Product(out) |->
            Arithmetic(n.op, Val(n, 1)[BroadcastIndex(i - 1, out, X(n)) + 1],
                             Val(n, 2)[BroadcastIndex(i - 1, out, W(n, 2)) + 1])]
    [] n.op \in {"concat", "stack"} -> FlattenSeq([i \in DOMAIN n.in |-> Val(n, i)])
    [] n.op = "gather" -> [i \in DOMAIN Val(n, 2) |-> Val(n, 1)[Val(n, 2)[i] + 1]]
    [] n.op = "strided_slice" ->
         [i \in 1 .. Product(out) |-> LET begin == FixDim(n.attr.begin[1], X(n)[1])
                                      IN  Val(n, 1)[begin + (i - 1) * n.attr.stride[1] + 1]]
    [] n.op = "range" ->
         [i \in 1 .. Product(out) |-> Val(n, 1)[1] + (i - 1) * Val(n, 3)[1]]
    [] n.op = "_shape" -> X(n)
    [] n.op = "_dims" -> <<Len(X(n))>>
    [] n.op \in PaddingOperators -> Padding(n)
    [] OTHER -> <<>>

\* The padding operators give padding for four dimensions.
Proto(n) == IF n.op \in PaddingOperators THEN Checked(PaddingRuns(n), One("int", <<4, 2>>))
            ELSE Computed(n)

\* The output of an operator that has one
Output(n, proto) ==
  IF proto = Failed \/ Len(proto) # 1 THEN {}
  ELSE {Value(proto[1].type, proto[1].sizes, Elements(n, proto[1].sizes))}

\* {} if the operator throws.  It sees the prototypes of the values.
Evaluated(asked) ==
  LET AsValues == [asked EXCEPT !.in = [i \in DOMAIN asked.val |->
                     One(The(asked.val[i]).type, The(asked.val[i]).sizes)]]
  IN  UNION {UNION {Output(n, proto) : proto \in {Proto(n)}} : n \in {AsValues}}
===============================================================================
