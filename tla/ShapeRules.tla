------------------------------ MODULE ShapeRules ------------------------------
(***************************************************************************)
(* The shape rules of runtime/inferer/factory.cpp: what the inferer says   *)
(* of a node's output from the prototypes of its inputs, before anything   *)
(* runs.  One definition per rule, under the name it has there; Rule is    *)
(* the table that TS_STATIC_ACTION fills.  A rule that gives up returns    *)
(* VOID, one that throws Failed.                                           *)
(***************************************************************************)
EXTENDS OperatorShapes

\* Mistakes: only zeros are looked for; a size of one is not one.
AllButZero(shape) == \A i \in DOMAIN shape : shape[i] # 0
AllAboveOne(shape) == \A i \in DOMAIN shape : shape[i] > 1

\* Whether every size is known and none is zero
valid_dims(shape) == \A i \in DOMAIN shape : shape[i] > 0

copy(n) == n.in[1]
to_float(n) == One("float", X(n))
cast(n) == One(n.attr.dtype, X(n))
quantize(n) == One("int8", X(n))

\* _resize2d and crop_nd: a positive entry of the second input replaces a size
resize2d(n) ==
  VoidUnless(Known(n, 2) /\ Len(Val(n, 2)) = Len(X(n)),
    Like(n, [i \in DOMAIN X(n) |->
               IF Val(n, 2)[i] > 0 THEN Val(n, 2)[i] ELSE X(n)[i]]))

\* Without permute the swapped order stays in a local variable and the empty
\* permute is applied.
transpose(n) ==
  LET permute == AttrOr(n, "permute", <<>>)
      x == PadFront(X(n), Len(permute))
  IN  IF ~ Has(n, "permute") /\ Len(X(n)) < 2 THEN n.in[1]
      ELSE VoidUnless(\A i \in DOMAIN permute : permute[i] < Len(x),
             Like(n, [i \in DOMAIN permute |-> x[permute[i] + 1]]))

\* What the window rules share: batch and channels, and an extent for every
\* spatial dimension that is known; i counts the spatial dimensions.
Windowed(n, channels, Extent(_, _)) ==
  VoidUnless(n.attr.format \in Formats,
    Like(n, [d \in 1 .. 4 |->
       CASE d = 1 -> X(n)[1]
         [] d = ChannelAt(n.attr.format) -> channels
         [] OTHER -> IF X(n)[d] < 0 THEN -1
                     ELSE Extent(d, d - FirstSpatial(n.attr.format) + 1)]))

Convolved(n, w, channels, padding) ==
  Windowed(n, channels, LAMBDA d, i : conv2d_forward(
    X(n)[d], PadOf(padding, d), n.attr.dilation[d], w[i + 2], n.attr.stride[d]))

conv2d(n) == Convolved(n, W(n, 2), W(n, 2)[1], n.attr.padding)

conv2d_v2(n) ==
  VoidUnless(Known(n, 2), Convolved(n, W(n, 3), W(n, 3)[1], Val(n, 2)))

conv2d_quantized(n) ==
  LET y == Convolved(n, W(n, 2), W(n, 2)[1], n.attr.padding)
  IN  VoidUnless(y # VOID, One("float", y[1].sizes))

Winograd(n, w, padding) ==
  Windowed(n, w[1], LAMBDA d, i :
    conv2d_forward(X(n)[d], PadOf(padding, d), 1, 3, 1))

conv2d_winograd(n) == Winograd(n, W(n, 2), n.attr.padding)
conv2d_winograd_v2(n) == Winograd(n, W(n, 3), Val(n, 2))

dcn_v2_forward(n) == Convolved(n, W(n, 2), W(n, 2)[1], n.attr.padding)

depthwise_conv2d(n) ==
  Convolved(n, W(n, 2), W(n, 2)[1] * X(n)[ChannelAt(n.attr.format)], n.attr.padding)

depthwise_conv2d_v2(n) ==
  Convolved(n, W(n, 3), W(n, 3)[1] * X(n)[ChannelAt(n.attr.format)], Val(n, 2))

transpose_conv2d(n) ==
  Windowed(n, W(n, 2)[2], LAMBDA d, i : conv2d_backward(
    X(n)[d], PadOf(n.attr.padding, d), n.attr.dilation[d], W(n, 2)[i + 2],
    n.attr.stride[d]))

pooling2d(n) ==
  Windowed(n, X(n)[ChannelAt(n.attr.format)], LAMBDA d, i : pooling2d_forward(
    X(n)[d], PadOf(n.attr.padding, d), n.attr.ksize[d], n.attr.stride[d]))

pooling2d_v2(n) ==
  VoidUnless(Known(n, 2) /\ Known(n, 3) /\ Known(n, 4),
    Windowed(n, X(n)[ChannelAt(n.attr.format)], LAMBDA d, i : pooling2d_forward(
      X(n)[d], PadOf(Val(n, 2), d), Val(n, 3)[d], Val(n, 4)[d])))

global_pooling2d(n) ==
  VoidUnless(n.attr.format \in Formats,
    Like(n, [d \in 1 .. 4 |->
               IF d \in {1, ChannelAt(n.attr.format)} THEN X(n)[d] ELSE 1]))

winograd_transform_kernel(n) ==
  LET tile == IF n.attr.winograd_mode = "winograd_f63" THEN 8 ELSE 4
  IN  Like(n, [X(n) EXCEPT ![3] = tile, ![4] = tile])

\* Mistake: an unknown size beside a one is one.
DimBesideOne(a, b) ==
  IF a <= 0 \/ a = 1 THEN b ELSE IF b <= 0 \/ b = 1 \/ a = b THEN a ELSE -1

\* One dimension of a broadcast, where a size below one is not known
eltwise_infer_dim(a, b) ==
  CASE a <= 0 -> IF b = 1 THEN -1 ELSE b
    [] a = 1 -> b
    [] OTHER -> IF b <= 0 \/ b = 1 \/ a = b THEN a ELSE -1

BroadcastShape(lhs, rhs) ==
  LET l == PadFront(lhs, Len(rhs))
      r == PadFront(rhs, Len(lhs))
  IN  [i \in DOMAIN l |-> eltwise_infer_dim(l[i], r[i])]

eltwise(n) == Like(n, BroadcastShape(X(n), W(n, 2)))

broadcast(n) == VoidUnless(Known(n, 2), Like(n, BroadcastShape(X(n), Val(n, 2))))

\* The dimensions behind dim are one; missing dimensions are ones.
flatten(n) ==
  LET x == X(n)
      dim == FixDim(AttrOr(n, "dim", 1), Len(x))
  IN  Like(n, IF dim + 1 < Len(x)
              THEN Append(SubSeq(x, 1, dim), Product(SubSeq(x, dim + 1, Len(x))))
              ELSE x \o Ones(dim + 1 - Len(x)))

flatten2d(n) ==
  LET x == X(n)
      dim == FixDim(AttrOr(n, "dim", 1), Len(x))
  IN  Like(n, CASE dim <= 0 -> <<1, Product(x)>>
                [] dim >= Len(x) -> <<Product(x), 1>>
                [] OTHER -> <<Product(SubSeq(x, 1, dim)),
                              Product(SubSeq(x, dim + 1, Len(x)))>>)

inner_prod(n) ==
  Like(n, <<X(n)[1], W(n, 2)[IF AttrOr(n, "transpose", FALSE) THEN 1 ELSE 2]>>)

gemm(n) ==
  Like(n, <<X(n)[IF n.attr.transA THEN 2 ELSE 1],
            W(n, 2)[IF n.attr.transB THEN 1 ELSE 2]>>)

\* A zero takes over the size of x; the rest is Tensor::reshape, if x is known.
Reshaped(n, asked) ==
  LET x == X(n)
      shape == [i \in DOMAIN asked |-> IF asked[i] = 0 THEN x[i] ELSE asked[i]]
      fixed == ReshapeTo(x, shape)
  IN  VoidUnless(\A i \in DOMAIN asked : asked[i] = 0 => i <= Len(x),
        IF ~ valid_dims(x) THEN Like(n, shape)
        ELSE Checked(fixed # {}, Like(n, CHOOSE s \in fixed : TRUE)))

reshape(n) == Reshaped(n, n.attr.shape)
reshape_v2(n) == VoidUnless(Known(n, 2), Reshaped(n, Val(n, 2)))

\* The padding operators of the frameworks; the value is computed by running.
dynamic_padding(n) ==
  VoidUnless(/\ AttrOr(n, "format", "NCHW") \in Formats
             /\ LET f == FirstSpatial(AttrOr(n, "format", "NCHW"))
                IN  X(n)[f] >= 0 /\ X(n)[f + 1] >= 0,
             One("int", <<4, 2>>))

\* A size that is not known stops the sum, but one of the first input is added to.
concat(n) ==
  LET x == X(n)
      dim == FixDim(n.attr.dim, Len(x))
      incs == [i \in 2 .. Len(n.in) |-> W(n, i)[dim + 1]]
  IN  VoidUnless(InDims(dim, Len(x)),
        Like(n, SetDim(x, dim,
          IF \E i \in 2 .. Len(n.in) : incs[i] < 0 THEN -1
          ELSE x[dim + 1] + FoldFunction(+, 0, incs))))

dims_rule(n) == One("int", <<>>)
shape_rule(n) == One("int", <<Len(X(n))>>)

\* front and end say on which sides ones may be added, inverse which goes first.
expand(n) ==
  LET size == Val(n, 2)[1]
      front == AttrOr(n, "front", size) > 0
      end == AttrOr(n, "end", size) > 0
      ones == Ones(size - Len(X(n)))
      atFront == front /\ (~ AttrOr(n, "inverse", FALSE) \/ ~ end)
  IN  VoidUnless(Known(n, 2),
        Like(n, CASE Len(X(n)) >= size \/ (~ front /\ ~ end) -> X(n)
                  [] OTHER -> IF atFront THEN ones \o X(n) ELSE X(n) \o ones))

dimshuffle(n) ==
  LET dim == FixDim(n.attr.dim, Len(X(n)))
  IN  VoidUnless(InDims(dim, Len(X(n))),
                 Like(n, SetDim(X(n), dim, Len(n.attr.shuffle))))

limit(n) ==
  VoidUnless(Len(n.attr.shape) = Len(X(n)),
    Like(n, [i \in DOMAIN X(n) |->
       IF n.attr.shape[i] > 0 /\ X(n)[i] > n.attr.shape[i]
       THEN n.attr.shape[i] ELSE X(n)[i]]))

\* Images of a width and a height that size gives, width first
nhwc_center_crop2d(n) ==
  VoidUnless(Len(n.attr.size) = 2 /\ Len(X(n)) = 4,
    Like(n, [X(n) EXCEPT ![2] = n.attr.size[2], ![3] = n.attr.size[1]]))

nhwc_letterbox(n) ==
  VoidUnless(n.attr.size # <<>> /\ Len(X(n)) = 4,
    Like(n, [X(n) EXCEPT ![2] = n.attr.size[IF Len(n.attr.size) > 1 THEN 2 ELSE 1],
                         ![3] = n.attr.size[1]]))

\* One size is that of the shorter side.
nhwc_scale_resize2d(n) ==
  LET size == n.attr.size
      h == X(n)[2]
      w == X(n)[3]
      hw == CASE Len(size) > 1 -> <<size[2], size[1]>>
              [] OTHER -> IF h > w THEN <<CQuot(size[1] * h, w), size[1]>>
                          ELSE <<size[1], CQuot(size[1] * w, h)>>
  IN  VoidUnless(size # <<>> /\ Len(X(n)) = 4,
                 Like(n, [X(n) EXCEPT ![2] = hw[1], ![3] = hw[2]]))

\* Two neighbouring dimensions take the sizes given.
Resized(n, dim, size) ==
  VoidUnless(InDims(dim, Len(X(n)) - 1),
             Like(n, [X(n) EXCEPT ![dim + 1] = size[1], ![dim + 2] = size[2]]))

affine_sample2d(n) ==
  VoidUnless(Known(n, 2),
             Resized(n, FixDim(AttrOr(n, "dim", -2), Len(X(n))), Val(n, 2)))

resize_nearest_neighbor(n) ==
  VoidUnless(Known(n, 2) /\ Has(n, "dim") /\ Len(Val(n, 2)) >= 2,
             Resized(n, FixDim(n.attr.dim, Len(X(n))), Val(n, 2)))

\* scale is a fraction <<numerator, denominator>>.
sample2d(n) ==
  LET dim == FixDim(AttrOr(n, "dim", -2), Len(X(n)))
      Scaled(size) == IF size > 0
                      THEN (size * n.attr.scale[1]) \div n.attr.scale[2] ELSE size
  IN  VoidUnless(InDims(dim, Len(X(n)) - 1),
        Resized(n, dim, <<Scaled(X(n)[dim + 1]), Scaled(X(n)[dim + 2])>>))

argmax(n) ==
  LET dim == FixDim(n.attr.dim, Len(X(n)))
  IN  VoidUnless(InDims(dim, Len(X(n))), One("int", EraseDim(X(n), dim)))

\* An unknown size stays unknown.
KnownOr(size, value) == IF size < 0 THEN -1 ELSE value

batch_to_space4d(n) ==
  LET x == X(n)
      b == n.attr.block_shape
      c == n.attr.crop
  IN  VoidUnless(Len(c) >= 4 /\ Len(b) >= 2,
        Like(n, <<KnownOr(x[1], CQuot(x[1], b[1] * b[2])), KnownOr(x[2], x[2]),
                  KnownOr(x[3], x[3] * b[1] - c[1] - c[2]),
                  KnownOr(x[4], x[4] * b[2] - c[3] - c[4])>>))

space_to_batch4d(n) ==
  LET x == X(n)
      b == n.attr.block_shape
      p == n.attr.padding
  IN  VoidUnless(Len(p) >= 4 /\ Len(b) >= 2,
        Like(n, <<KnownOr(x[1], x[1] * b[1] * b[2]), KnownOr(x[2], x[2]),
                  KnownOr(x[3], CQuot(x[3] + p[1] + p[2], b[1])),
                  KnownOr(x[4], CQuot(x[4] + p[3] + p[4], b[2]))>>))

field(n) ==
  LET offset == FixDim(n.attr.offset, Len(n.in[1]))
  IN  VoidUnless(InDims(offset, Len(n.in[1])), << n.in[1][offset + 1] >>)

pack(n) == [i \in DOMAIN n.in |-> n.in[i][1]]

\* One field per bin
chunk(n) ==
  LET dim == FixDim(n.attr.dim, Len(X(n)))
      bins == split_bins(0, X(n)[dim + 1], n.attr.chunks)
  IN  VoidUnless(InDims(dim, Len(X(n))),
        [i \in DOMAIN bins |-> [type |-> TypeOf(n, 1),
           sizes |-> SetDim(X(n), dim, bins[i][2] - bins[i][1])]])

\* Rounded up to a multiple of size
divided(n) ==
  LET size == PadFront(n.attr.size, Len(X(n)))
  IN  VoidUnless(Len(n.attr.size) <= Len(X(n)),
        Like(n, [i \in DOMAIN X(n) |->
                   IF size[i] = 1 THEN X(n)[i]
                   ELSE CeilQuot(X(n)[i], size[i]) * size[i]]))

force_color(n) == VoidUnless(X(n) # <<>>, Like(n, SetDim(X(n), Len(X(n)) - 1, 3)))
force_gray(n) == VoidUnless(X(n) # <<>>, Like(n, SetDim(X(n), Len(X(n)) - 1, 1)))

gather(n) ==
  LET axis == FixDim(n.attr.axis, Len(X(n)))
  IN  VoidUnless(InDims(axis, Len(X(n))),
        Like(n, SubSeq(X(n), 1, axis) \o W(n, 2)
                \o SubSeq(X(n), axis + 2, Len(X(n)))))

\* The last size of the indices is how many dimensions they replace.
gatherv2(n) ==
  LET x == X(n)
      indices == W(n, 2)
  IN  VoidUnless(x # <<>> /\ indices # <<>> /\ Last(indices) <= Len(x),
        Like(n, Front(indices) \o SubSeq(x, Last(indices) + 1, Len(x))))

\* ReductionOp: the axes leave, or stay with one element.
Reduction(n, axes) ==
  LET dims == Len(X(n))
      fixed == {FixDim(axes[i], dims) : i \in DOMAIN axes}
      kept == SelectSeq([i \in 1 .. dims |-> i],
                        LAMBDA i : n.attr.keep_dims \/ i - 1 \notin fixed)
  IN  VoidUnless(\A axis \in fixed : InDims(axis, dims),
        Like(n, [k \in DOMAIN kept |->
                   IF kept[k] - 1 \in fixed THEN 1 ELSE X(n)[kept[k]]]))

max_rule(n) == Reduction(n, n.attr.dim)
reduce_sum(n) == Reduction(n, n.attr.dims)

non_max_suppression_v3(n) ==
  VoidUnless(W(n, 2) # <<>>,
             One("int", <<Min({W(n, 2)[1], n.attr.max_output_size})>>))

pad(n) ==
  VoidUnless(Known(n, 2) /\ Len(Val(n, 2)) = 2 * Len(X(n)),
    Like(n, [d \in DOMAIN X(n) |->
       IF X(n)[d] < 0 THEN X(n)[d] ELSE X(n)[d] + PadOf(Val(n, 2), d)]))

proposal(n) ==
  LET count == AttrOr(n, "max_level", 5) - AttrOr(n, "min_level", 2) + 1
      images == X(n)[1]
      rois == IF images > 0 THEN images * AttrOr(n, "post_nms_top_n", 300) ELSE -1
  IN  VoidUnless(Len(n.in) >= 3,
        [i \in 1 .. count |->
           [type |-> TypeOf(n, Len(n.in) - 2), sizes |-> <<rois, 5>>]])

roi_align(n) ==
  VoidUnless(Len(n.in) = 2 /\ Has(n, "pool_h") /\ Has(n, "pool_w"),
    Like(n, <<W(n, 2)[1], X(n)[2], n.attr.pool_h, n.attr.pool_w>>))

\* Reads a second input that the first line has excluded.
shape_index_patch(n) == VOID

\* From the last axis given to the first; without axes nothing is removed.
squeeze(n) ==
  VoidUnless(/\ Has(n, "axes")
             /\ \A i \in DOMAIN n.attr.axes :
                  InDims(FixDim(n.attr.axes[i], Len(X(n))), Len(X(n))),
    Like(n, FoldRight(LAMBDA axis, y : EraseDim(y, FixDim(axis, Len(X(n)))),
                      n.attr.axes, X(n))))

\* An axis counts in the shape the axes before it have made.
Unsqueezed(x, axes) ==
  FoldLeft(LAMBDA ys, axis :
             UNION { IF axis > Len(y) \/ axis < -Len(y) THEN {}
                     ELSE {InsertDim(y, IF axis >= 0 THEN axis
                                        ELSE Len(y) + axis + 1, 1)} : y \in ys },
           {x}, axes)

unsqueeze(n) ==
  LET ys == Unsqueezed(X(n), n.attr.axes)
  IN  VoidUnless(Has(n, "axes") /\ ys # {}, Like(n, CHOOSE y \in ys : TRUE))

stack(n) ==
  LET at == IF n.attr.axis >= 0 THEN n.attr.axis ELSE Len(X(n)) + n.attr.axis + 1
  IN  VoidUnless(n.in # <<>> /\ Has(n, "axis"),
                 Like(n, InsertDim(X(n), at, Len(n.in))))

tile(n) ==
  LET x == PadFront(X(n), Len(n.attr.repeats))
      repeats == PadFront(n.attr.repeats, Len(x))
  IN  VoidUnless(Has(n, "repeats"),
        Like(n, [i \in DOMAIN x |-> KnownOr(x[i], x[i] * repeats[i])]))

topkv2(n) ==
  LET x == X(n)
      least == Min({Last(x), n.attr.number})
      y == IF x = <<>> THEN x
           ELSE SetDim(x, Len(x) - 1, IF least < 0 THEN n.attr.number ELSE least)
  IN  VoidUnless(Has(n, "number"), Like(n, y) \o One("int", y))

yolo(n) ==
  LET x == X(n)
      boxes == Len(n.attr.mask) * (n.attr.classes + 4 + 1)
  IN  VoidUnless(Len(x) = 4,
        Like(n, <<x[1], boxes, x[3], x[4]>>) \o One("int", <<>>)
        \o One("int", <<Len(n.attr.mask)>>) \o One("float", <<Len(n.attr.anchors)>>))

\* One field per image, with as many boxes as will be found
yolo_poster(n) ==
  LET images == W(n, Len(n.in))[1]
  IN  [i \in 1 .. (IF images < 0 THEN 1 ELSE images) |->
         [type |-> "float", sizes |-> <<-1, 6>>]]

\* slice and slice_v2: where x is not known the size is taken as it is.
Sliced(n, begin, size) ==
  VoidUnless(Len(begin) <= Len(X(n)) /\ Len(begin) = Len(size),
    Like(n, [i \in DOMAIN X(n) |->
       CASE i > Len(begin) -> X(n)[i]
         [] i <= Len(begin) /\ X(n)[i] < 0 -> size[i]
         [] i <= Len(begin) /\ X(n)[i] >= 0 ->
              IF begin[i] >= X(n)[i] THEN 0
              ELSE Min({X(n)[i], begin[i] + size[i]}) - begin[i]]))

slice(n) ==
  VoidUnless(Has(n, "begin") /\ Has(n, "size"), Sliced(n, n.attr.begin, n.attr.size))

slice_v2(n) ==
  VoidUnless(Known(n, 2) /\ Known(n, 3), Sliced(n, Val(n, 2), Val(n, 3)))

\* infer_output of slice_v3 and strided_slice: the bounds are only wrapped and cut if x is known.
infer_extent(x, begin, end, stride, beginFlag, endFlag) ==
  IF x >= 0 THEN SliceExtent(x, begin, end, stride, beginFlag, endFlag)
  ELSE CASE stride > 0 -> IF begin < end THEN (end - begin - 1) \div stride + 1 ELSE 0
         [] stride < 0 -> IF begin > end THEN (begin - end - 1) \div (-stride) + 1 ELSE 0
         [] OTHER -> -1

\* axes and steps are optional inputs; the axes are used as they are.
slice_v3(n) ==
  LET starts == Val(n, 2)
      ends == Val(n, 3)
      axes == IF Len(n.in) > 3 THEN Val(n, 4) ELSE [i \in DOMAIN starts |-> i - 1]
      steps == IF Len(n.in) > 4 THEN Val(n, 5) ELSE Ones(Len(starts))
      Cut(y, i) == SetDim(y, axes[i], infer_extent(y[axes[i] + 1], starts[i],
                                        ends[i], steps[i], FALSE, FALSE))
  IN  VoidUnless(/\ \A i \in 2 .. Len(n.in) : Known(n, i)
                 /\ {Len(ends), Len(axes), Len(steps)} = {Len(starts)},
        Like(n, FoldLeft(Cut, X(n), [i \in DOMAIN starts |-> i])))

\* What one entry of a strided slice does with the dimension it stands for; the
\* masks are sets of positions.
SliceDim(n, i) ==
  [begin |-> n.attr.begin[i], end |-> n.attr.end[i], stride |-> n.attr.stride[i],
   flags |-> {f \in DOMAIN n.attr.mask : i \in n.attr.mask[f]}]

strided_slice(n) ==
  LET dims == [i \in DOMAIN n.attr.begin |-> SliceDim(n, i)]
      ellipsis == {i \in DOMAIN dims : "ellipsis" \in dims[i].flags}
      sliced == Cardinality({i \in DOMAIN dims : dims[i].flags
                               \cap {"ellipsis", "new_axis"} = {}})
      full == [i \in 1 .. Len(X(n)) - sliced |->
                 [begin |-> 0, end |-> 0, stride |-> 1, flags |-> {"begin", "end"}]]
      all == IF ellipsis = {} THEN dims \o full
             ELSE FlattenSeq([i \in DOMAIN dims |->
                                IF i \in ellipsis THEN full ELSE <<dims[i]>>])
      Place(i) == Cardinality({j \in 1 .. i : "new_axis" \notin all[j].flags})
      Size(i) == infer_extent(X(n)[Place(i)], all[i].begin, all[i].end,
                   all[i].stride, "begin" \in all[i].flags, "end" \in all[i].flags)
  IN  VoidUnless(Cardinality(ellipsis) <= 1 /\ sliced <= Len(X(n)),
        Like(n, FlattenSeq([i \in DOMAIN all |->
           CASE "shrink" \in all[i].flags -> <<>>
             [] {"shrink", "new_axis"} \cap all[i].flags = {"new_axis"} -> <<1>>
             [] OTHER -> <<Size(i)>>])))

\* Runs the operator on the values of its inputs, or gives up.
try_run(n) ==
  IF \A i \in DOMAIN n.in : Known(n, i) THEN Evaluated(n) ELSE {}

range(n) ==
  The({IF Len(n.in) # 3 \/ ys = {} THEN VOID ELSE One(The(ys).type, The(ys).sizes) :
         ys \in {try_run(n)}})

\* dynamic_padding runs on an image of batch one whose channels, known or not,
\* are those of x.
OnImage(n) ==
  [n EXCEPT !.val[1] = {Value("float", [X(n) EXCEPT ![1] = 1], <<>>)}]

\* The rules that set #value themselves: to what, if they do.
RuleValue(n) ==
  CASE n.op = "_dims" -> {Value("int", <<>>, <<Len(X(n))>>)}
    [] n.op = "_shape" -> {Value("int", <<Len(X(n))>>, X(n))}
    [] n.op \in {"range"} \union PaddingOperators ->
         try_run(IF n.op = "range" THEN n ELSE OnImage(n))
    [] OTHER -> {}

\* ShapeInferer::Query and the rule it finds; without a rule nothing is known.
Rule(n) ==
  CASE n.op \in {"add_bias", "relu", "softmax", "batch_norm", "batch_scale",
         "fused_batch_norm", "sigmoid", "_copy", "abs", "exp", "l2_norm",
         "norm_image", "prelu", "prewhiten", "relu_max", "rsqrt", "sqrt",
         "square", "tanh", "leaky_relu"} -> copy(n)
    [] n.op \in {"add", "sub", "mul", "div", "maximum"} -> eltwise(n)
    [] n.op \in PaddingOperators -> dynamic_padding(n)
    [] n.op = "to_float" -> to_float(n)
    [] n.op = "_cast" -> cast(n)
    [] n.op = "quantize" -> quantize(n)
    [] n.op = "_resize2d" -> resize2d(n)
    [] n.op = "crop_nd" -> resize2d(n)
    [] n.op = "_transpose" -> transpose(n)
    [] n.op = "conv2d" -> conv2d(n)
    [] n.op = "conv2d_v2" -> conv2d_v2(n)
    [] n.op = "conv2d_quantized" -> conv2d_quantized(n)
    [] n.op = "conv2d_winograd" -> conv2d_winograd(n)
    [] n.op = "conv2d_winograd_v2" -> conv2d_winograd_v2(n)
    [] n.op = "dcn_v2_forward" -> dcn_v2_forward(n)
    [] n.op = "depthwise_conv2d" -> depthwise_conv2d(n)
    [] n.op = "depthwise_conv2d_v2" -> depthwise_conv2d_v2(n)
    [] n.op = "transpose_conv2d" -> transpose_conv2d(n)
    [] n.op = "pooling2d" -> pooling2d(n)
    [] n.op = "pooling2d_v2" -> pooling2d_v2(n)
    [] n.op = "global_pooling2d" -> global_pooling2d(n)
    [] n.op = "winograd_transform_kernel" -> winograd_transform_kernel(n)
    [] n.op = "broadcast" -> broadcast(n)
    [] n.op = "flatten" -> flatten(n)
    [] n.op = "flatten2d" -> flatten2d(n)
    [] n.op = "inner_prod" -> inner_prod(n)
    [] n.op = "gemm" -> gemm(n)
    [] n.op = "_reshape" -> reshape(n)
    [] n.op = "_reshape_v2" -> reshape_v2(n)
    [] n.op = "concat" -> concat(n)
    [] n.op = "_dims" -> dims_rule(n)
    [] n.op = "_shape" -> shape_rule(n)
    [] n.op = "_expand" -> expand(n)
    [] n.op = "_dimshuffle" -> dimshuffle(n)
    [] n.op = "_limit" -> limit(n)
    [] n.op = "_nhwc_center_crop2d" -> nhwc_center_crop2d(n)
    [] n.op = "_nhwc_letterbox" -> nhwc_letterbox(n)
    [] n.op = "_nhwc_scale_resize2d" -> nhwc_scale_resize2d(n)
    [] n.op = "affine_sample2d" -> affine_sample2d(n)
    [] n.op = "resize_nearest_neighbor" -> resize_nearest_neighbor(n)
    [] n.op = "sample2d" -> sample2d(n)
    [] n.op = "argmax" -> argmax(n)
    [] n.op = "batch_to_space4d" -> batch_to_space4d(n)
    [] n.op = "space_to_batch4d" -> space_to_batch4d(n)
    [] n.op = "_field" -> field(n)
    [] n.op = "_pack" -> pack(n)
    [] n.op = "chunk" -> chunk(n)
    [] n.op = "divided" -> divided(n)
    [] n.op = "force_color" -> force_color(n)
    [] n.op = "force_gray" -> force_gray(n)
    [] n.op = "gather" -> gather(n)
    [] n.op = "gatherv2" -> gatherv2(n)
    [] n.op = "max" -> max_rule(n)
    [] n.op = "reduce_sum" -> reduce_sum(n)
    [] n.op = "reduce_mean" -> reduce_sum(n)
    [] n.op = "non_max_suppression_v3" -> non_max_suppression_v3(n)
    [] n.op = "pad" -> pad(n)
    [] n.op = "proposal" -> proposal(n)
    [] n.op = "range" -> range(n)
    [] n.op = "roi_align" -> roi_align(n)
    [] n.op = "shape_index_patch" -> shape_index_patch(n)
    [] n.op = "squeeze" -> squeeze(n)
    [] n.op = "unsqueeze" -> unsqueeze(n)
    [] n.op = "stack" -> stack(n)
    [] n.op = "tile" -> tile(n)
    [] n.op = "topkv2" -> topkv2(n)
    [] n.op = "yolo" -> yolo(n)
    [] n.op = "yolo_poster" -> yolo_poster(n)
    [] n.op = "slice" -> slice(n)
    [] n.op = "slice_v2" -> slice_v2(n)
    [] n.op = "slice_v3" -> slice_v3(n)
    [] n.op = "strided_slice" -> strided_slice(n)
    [] OTHER -> VOID
===============================================================================
