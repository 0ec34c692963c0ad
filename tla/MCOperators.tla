------------------------------ MODULE MCOperators ------------------------------
(***************************************************************************)
(* Inferer on graphs of one operator, in every parameter that changes a    *)
(* shape, and on the chains that compute the padding of a window or the    *)
(* shape of a reshape.  A comment that begins with Without names what is   *)
(* left out because rule and operator differ there (see the README).       *)
(***************************************************************************)
EXTENDS Inferer

Param(type) == [op |-> "<param>", attr |-> [dtype |-> type], inputs |-> <<>>, value |-> {}]
Const(type, sizes, data) ==
  [op |-> "<const>", attr |-> <<>>, inputs |-> <<>>, value |-> {Value(type, sizes, data)}]
Scalar(k) == Const("int", <<>>, <<k>>)
List(data) == Const("int", <<Len(data)>>, data)
Sides(data) == Const("int", <<Len(data) \div 2, 2>>, data)
Weight(sizes) == Const("float", sizes, <<>>)
Op(op, attr, inputs) == [op |-> op, attr |-> attr, inputs |-> inputs, value |-> {}]

\* Operators whose inputs are parameters of the shapes in a tuple, then constants
Applying(ops, attrs, shapes, consts) ==
  {[graph |-> [i \in DOMAIN s |-> Param("float")] \o consts
                \o << Op(op, attr, [i \in 1 .. Len(s) + Len(consts) |-> i]) >>,
    shapes |-> {s}] :
      op \in ops, attr \in attrs, s \in shapes}

Unary(ops, attrs, xs) == Applying(ops, attrs, {<<x>> : x \in xs}, <<>>)
NoAttr == {<<>>}

-------------------------------------------------------------------------------
Known2 == {<<1>>, <<3>>, <<1, 3>>, <<2, 1>>, <<2, 3>>}
KnownShape == {<<>>, <<2, 1, 3>>, <<2, 2, 3>>, <<1, 2, 3, 2>>} \union Known2
OpenShape == {<<-1>>, <<-1, 2>>, <<3, -1, 1>>}
AnyShape == KnownShape \union OpenShape \union {<<-1, 2, 3, -1>>}

Elementwises ==
  Unary({"_copy", "relu", "softmax", "sigmoid", "to_float", "_dims"}, NoAttr, AnyShape)
  \union Unary({"_cast"}, [dtype : {"int8"}], AnyShape)
  \union Unary({"quantize"}, {[quantize_scale |-> <<1, 1>>]}, {<<2, 3>>, <<-1, 3>>, <<3, 3>>})
  \union Applying({"add_bias"}, [dim : {0, 1}],
                  {<<x, b>> : x \in {<<2, 3>>, <<-1, 3>>, <<3, -1, 2>>}, b \in {<<3>>, <<2>>}}, <<>>)
  \union Applying({"add", "sub", "mul", "div", "maximum"}, NoAttr,
                  {<<x, y>> : x \in AnyShape, y \in AnyShape}, <<>>)
  \union UNION {Applying({"broadcast"}, NoAttr, {<<x>> : x \in AnyShape}, <<List(s)>>) :
                  s \in {<<3>>, <<2, 3>>, <<2, 2, 3>>}}

\* Without two unknown sizes in a flattened shape, which multiply to a known one
Reshapes ==
  Unary({"flatten", "flatten2d"}, [dim : {-1, 0, 1, 2, 4}] \union NoAttr,
        KnownShape \union OpenShape)
  \union LET asked == {<<-1>>, <<0>>, <<0, -1>>, <<3, 0>>, <<-1, 2>>, <<2, -1, 3>>, <<6, 2>>}
         IN  Unary({"_reshape"}, [shape : asked], AnyShape)
             \union UNION {Applying({"_reshape_v2"}, NoAttr, {<<x>> : x \in AnyShape}, <<List(s)>>) :
                             s \in asked}
  \union Unary({"squeeze"}, [axes : {<<0>>, <<1>>, <<0, 1>>, <<1, 2>>, <<-1>>}], AnyShape)
  \union Unary({"unsqueeze"}, [axes : {<<0>>, <<1>>, <<0, 2>>, <<-1>>, <<1, -1>>, <<>>}], AnyShape)
  \union UNION {Applying({"_expand"}, NoAttr \union [front : {0}] \union [end : {0}]
                           \union [inverse : {TRUE}], {<<x>> : x \in AnyShape}, <<Scalar(k)>>) :
                  k \in {1, 4}}
  \union Unary({"_transpose"}, [permute : {<<1, 0>>, <<2, 0, 1>>, <<0>>}], AnyShape)

\* Without an unknown first size to which known ones are added, and with inputs
\* of as many dimensions, as the rule takes for granted
Joins ==
  Unary({"concat"}, [dim : {0, -1}], AnyShape \ {<<>>})
  \union
  Applying({"concat"}, [dim : {0, 1, -1}],
           {s \in {<<x, y>> : x \in KnownShape \ {<<>>}, y \in AnyShape} : Len(s[1]) = Len(s[2])}
           \union {<< <<x>>, <<y>>, <<z>> >> : x \in {1, 3}, y \in {1, -1}, z \in {1, -1}}
           \union {<< <<-1, 2>>, <<-1, 2>> >>}, <<>>)
  \union Applying({"stack"}, [axis : {0, 1, -1}],
                  {<<x, y>> : x \in AnyShape \ {<<>>}, y \in {<<2, 3>>, <<-1, 2>>}}
                  \union {<<x, x>> : x \in AnyShape \ {<<>>}}, <<>>)
  \union Unary({"tile"}, [repeats : {<<2>>, <<1, 3>>, <<3, 1, 2>>}], AnyShape)
  \union Unary({"_dimshuffle"}, [dim : {0, 1}, shuffle : {<<1>>, <<0, 1, 0>>}], AnyShape)
  \union Applying({"gather"}, [axis : {0, 1, -1}],
                  {<<x, y>> : x \in AnyShape, y \in {<<>>, <<2>>, <<-1>>, <<1, 2>>}}, <<>>)
  \union Applying({"gatherv2"}, NoAttr,
                  {<<x, y>> : x \in AnyShape, y \in {<<1>>, <<2>>, <<-1, 1>>, <<3, 2>>}}, <<>>)

\* Without a chunk that split_bins finds no bin for
Chunks ==
  Unary({"chunk"}, [dim : {0, -1}, chunks : {1, 2, 3}],
        {<<3>>, <<6>>, <<-1>>, <<2>>, <<1>>, <<5, 3>>, <<7, 8>>, <<-1, 3>>, <<3, -1>>})

\* Without negative sizes, which the rule does not understand, without unknown
\* sizes where a stride cuts (in a strided_slice: anywhere), and without new axes
Slices ==
  Unary({"slice"}, {[begin |-> <<b, 0>>, size |-> <<s, 2>>] : b \in {0, 1, 3}, s \in 0 .. 3},
        {<<3, 2>>, <<2, 3>>, <<-1, 2>>, <<3>>})
  \union UNION {Applying({"slice_v2"}, NoAttr, {<< <<3, 2>> >>, << <<-1, 2>> >>},
                         <<List(<<b, 0>>), List(<<s, 2>>)>>) : b \in {0, 1}, s \in 1 .. 3}
  \union UNION {Applying({"slice_v3"}, NoAttr, {<< <<4, 3>> >>, << <<3, -1>> >>},
                         <<List(<<b>>), List(<<e>>), List(<<0>>), List(<<s>>)>>) :
                  b \in {-5, -2, 0, 1, 4}, e \in {-3, -1, 0, 2, 6}, s \in {1, 2}}
  \union UNION {Applying({"slice_v3"}, NoAttr, {<< <<-1, 4>> >>},
                         <<List(<<b>>), List(<<e>>), List(<<1>>), List(<<s>>)>>) :
                  b \in {-2, 3, 5}, e \in {-3, 0, 1}, s \in {-1, -2}}
  \union Applying({"slice_v3"}, NoAttr, {<< <<4, 3>> >>, << <<3>> >>},
                  <<List(<<1, 0>>), List(<<3, 2>>)>>)

Masked(begin, end, ellipsis, new_axis, shrink) ==
  [begin |-> begin, end |-> end, ellipsis |-> ellipsis, new_axis |-> new_axis, shrink |-> shrink]

StridedSlices ==
  Unary({"strided_slice"},
        {[begin |-> <<b>>, end |-> <<e>>, stride |-> <<s>>, mask |-> Masked(bm, em, {}, {}, {})] :
           b \in {-5, -1, 0, 2, 5}, e \in {-2, 0, 1, 3, 7}, s \in {-2, 1, 2}, bm \in {{}, {1}}, em \in {{}, {1}}},
        {<<3>>, <<4, 2>>})
  \union Unary({"strided_slice"},
        {[begin |-> <<0, 1>>, end |-> <<1, 2>>, stride |-> <<1, 1>>, mask |-> Masked({}, {}, el, {}, sh)] :
           el \in {{}, {1}, {2}}, sh \in {{}, {1}, {2}}},
        {<<2, 3>>, <<3, 2, 2>>, <<1, 2, 3, 2>>})

Reductions ==
  Unary({"argmax"}, [dim : {0, 1, -1}], AnyShape)
  \union Unary({"max"}, [dim : {<<0>>, <<1>>, <<-1>>}, keep_dims : BOOLEAN], AnyShape)
  \union Unary({"reduce_sum"}, [dims : {<<0>>, <<1>>, <<-1>>}, keep_dims : BOOLEAN], AnyShape)
  \union Unary({"reduce_mean"}, [dims : {<<0>>, <<1, 2>>, <<-2, -1>>}, keep_dims : BOOLEAN], AnyShape)
  \union Unary({"topkv2"}, [number : {1, 2}], KnownShape \union {<<-1, 2>>})

Products ==
  Applying({"inner_prod"}, [transpose : BOOLEAN] \union NoAttr,
           {<<x, w>> : x \in {<<2, 3>>, <<-1, 3>>, <<2, 1, 3>>, <<3>>},
                       w \in {<<3, 2>>, <<2, 3>>, <<3, 3>>}}, <<>>)
  \union Applying({"gemm"}, [transA : BOOLEAN, transB : BOOLEAN],
           {<<x, w, c>> : x \in {<<2, 3>>, <<3, -1>>}, w \in {<<3, 4>>, <<4, 3>>, <<2, 4>>},
                          c \in {<<4>>, <<1, 4>>, <<>>}}, <<>>)
-------------------------------------------------------------------------------
Four(format, h, w) == IF format = "NCHW" THEN <<1, 1, h, w>> ELSE <<1, h, w, 1>>
Eight(format, s) == IF format = "NCHW" THEN <<0, 0, 0, 0>> \o s ELSE <<0, 0>> \o s \o <<0, 0>>
Image(format, b, c, h, w) == IF format = "NCHW" THEN <<b, c, h, w>> ELSE <<b, h, w, c>>

Images(format) ==
  {Image(format, b, 3, h, w) : b \in {2, -1}, h \in {3, 7, -1}, w \in {5, -1}}
  \union {Image(format, 1, -1, 3, 8)}

WindowAttrs(format) ==
  {[format |-> format, padding |-> Eight(format, p), stride |-> Four(format, s[1], s[2]),
    dilation |-> Four(format, 2, 1), ksize |-> Four(format, 2, 3),
    winograd_mode |-> "winograd_f63", dequantize_scales |-> <<1, 1, 1, 1>>] :
     p \in {<<0, 0, 0, 0>>, <<1, 2, 0, 1>>}, s \in {<<1, 1>>, <<2, 3>>}}
  \union {[format |-> "NCHW", padding |-> <<0, 1, 0, 0, 1, 1, 1, 1>>, stride |-> <<1, 1, 2, 2>>,
           dilation |-> <<1, 1, 1, 1>>, ksize |-> <<1, 1, 3, 2>>,
           winograd_mode |-> "winograd_f23", dequantize_scales |-> <<1>>]}

\* Without kernels of a layout other than the image's, for NHWC only square ones
\* of as many rows as the image
Kernels(format) == IF format = "NCHW" THEN {<<4, 3, 2, 3>>, <<3, 2, 3, 3>>} ELSE {<<4, 3, 3, 3>>}

Convolutions(format) ==
  Applying({"conv2d", "transpose_conv2d", "conv2d_winograd"}, WindowAttrs(format),
           {<<x, w>> : x \in Images(format), w \in Kernels(format) \union (IF format = "NCHW" THEN {<<3, 5, 3, 3>>} ELSE {})}, <<>>)
  \union Applying({"dcn_v2_forward"}, WindowAttrs(format), {<<x>> : x \in Images(format)},
           [i \in 1 .. 4 |-> Weight(IF i = 2 THEN <<4>> ELSE The(Kernels(format)))])
  \union Unary({"pooling2d", "global_pooling2d"}, WindowAttrs(format), Images(format))

\* Without depthwise convolutions of NHWC images, whose rows the operator takes
\* for the channels
Depthwises ==
  Applying({"depthwise_conv2d"}, WindowAttrs("NCHW"),
           {<<x, w>> : x \in Images("NCHW"), w \in {<<1, 3, 2, 3>>, <<2, 3, 2, 3>>}}, <<>>)

\* Padding, window and stride are inputs.
InputWindows ==
  UNION {{[graph |-> <<Param("float"), p, Weight(w),
                       Op(op, attr, <<1, 2, 3>>)>>,
           shapes |-> {<<x>> : x \in Images("NCHW")}] :
            op \in {"conv2d_v2", "conv2d_winograd_v2"}, attr \in WindowAttrs("NCHW"),
            w \in {<<4, 3, 3, 3>>, <<4, 2, 2, 1>>}}
         \union {[graph |-> <<Param("float"), p, Weight(<<1, 3, 3, 3>>),
                              Op("depthwise_conv2d_v2", attr, <<1, 2, 3>>)>>,
                  shapes |-> {<<x>> : x \in Images("NCHW")}] : attr \in WindowAttrs("NCHW")}
         \union {[graph |-> <<Param("float"), p, List(<<1, 1, 2, 3>>), List(<<1, 1, 3, 2>>),
                              Op("pooling2d_v2", [format |-> "NCHW"], <<1, 2, 3, 4>>)>>,
                  shapes |-> {<<x>> : x \in Images("NCHW")}]} :
           p \in {Sides(Eight("NCHW", s)) : s \in {<<0, 0, 0, 0>>, <<1, 0, 2, 1>>}}}

Int8Convolutions ==
  {[graph |-> <<Param("int8"), Param("int8"), Op("conv2d_quantized", attr, <<1, 2>>)>>,
    shapes |-> {<<x, w>> : x \in Images("NCHW"), w \in Kernels("NCHW")}] :
      attr \in WindowAttrs("NCHW")}

WinogradKernels ==
  Unary({"winograd_transform_kernel"}, [winograd_mode : {"winograd_f63", "winograd_f23"}],
        {<<4, 2, 3, 3>>, <<-1, 2, 3, 3>>, <<4, 2, 2, 3>>})

-------------------------------------------------------------------------------
\* The window over an image after the operator that computes its padding.
\* Without unknown channels, for which an earlier padding is kept, and without
\* the dilation that the padding of dragon forgets
PaddedConv(op, method, dilation) ==
  LET attr(p, s) == [format |-> "NCHW", method |-> method, padding |-> Eight("NCHW", p),
                     stride |-> <<1, 1, s, 3>>, dilation |-> <<1, 1, dilation, 1>>]
  IN  {[graph |-> <<Param("float"), Weight(<<4, 2, 3, 2>>), Op(op, attr(p, s), <<1, 2>>),
                    Op("conv2d_v2", attr(p, s), <<1, 3, 2>>)>>,
        shapes |-> {<< <<b, 2, h, w>> >> : b \in {1, -1}, h \in {5, 6, 7, -1}, w \in {4, 5}}] :
          p \in {<<0, 0, 0, 0>>, <<1, 0, 2, 1>>}, s \in {1, 2}}

PaddedPool(op, method, format, ceil) ==
  LET attr(p) == [format |-> format, method |-> method, padding |-> Eight(format, p), ceil |-> ceil]
  IN  {[graph |-> <<Param("float"), List(Four(format, 3, 2)), List(Four(format, s, 3)),
                    Op(op, attr(p), <<1, 2, 3>>),
                    Op("pooling2d_v2", attr(p), <<1, 4, 2, 3>>)>>,
        shapes |-> {<<Image(format, b, 2, h, w)>> : b \in {1, -1}, h \in {5, 6, 7, -1}, w \in {4, 5}}] :
          p \in {<<0, 0, 0, 0>>, <<1, 0, 1, 1>>}, s \in {1, 2, 4}}

Paddings ==
  UNION {PaddedConv("_tf_conv2d_padding", m, dl) : m \in {"SAME", "VALID"}, dl \in {1, 2}}
  \union UNION {PaddedConv("_dragon_conv2d_padding", m, 1) :
                  m \in {"SAME", "SAME_UPPER", "VALID", "NOTSET"}}
  \union UNION {PaddedPool("_tf_pooling2d_padding", m, f, TRUE) : m \in {"SAME", "VALID"}, f \in Formats}
  \union UNION {PaddedPool("_mx_pooling2d_padding", m, f, TRUE) : m \in {"VALID", "full"}, f \in Formats}
  \union UNION {PaddedPool("_onnx_pooling2d_padding", m, "NCHW", TRUE) :
                  m \in {"NOTSET", "VALID", "SAME_UPPER", "SAME_LOWER"}}
  \union UNION {PaddedPool("_dragon_pooling2d_padding", m, "NCHW", c) :
                  m \in {"VALID", "NOTSET", "SAME_UPPER", "SAME_LOWER"}, c \in BOOLEAN}

-------------------------------------------------------------------------------
\* Without a size that is not a number of bounds, sizes below one after a pad,
\* and unknown sizes that are rounded up or scaled to a known one
Pictures ==
  Applying({"pad"}, NoAttr, {<<x>> : x \in {<<2, 3>>, <<-1, 3>>, <<2, 3, 4>>}}, <<Sides(<<1, 0, -1, 2>>)>>)
  \union UNION {Applying({"_resize2d", "crop_nd"}, NoAttr, {<<x>> : x \in {<<1, 4, 5, 3>>, <<-1, 4, -1, 3>>}},
                         <<List(s)>>) : s \in {<<-1, 6, 7, -1>>, <<-1, 4, 7, -1>>, <<-1, -1, 7, 2>>}}
  \union UNION {Applying({"resize_nearest_neighbor", "affine_sample2d"}, [dim : {1, 2}],
                         {<<x>> : x \in {<<1, 4, 5, 3>>, <<-1, 4, -1, 3>>, <<4, 5>>}}, <<List(s)>>) :
                  s \in {<<6, 7>>, <<4, 7>>, <<4, 5>>}}
  \union Unary({"sample2d"}, [dim : {1, -2}, scale : {<<3, 2>>, <<1, 2>>}],
               {<<1, 4, 5, 3>>, <<-1, 4, -1, 3>>, <<4>>})
  \union Unary({"_nhwc_center_crop2d"}, [size : {<<3, 6>>, <<9, 2>>}], {<<1, 4, 5, 3>>, <<-1, 4, -1, 1>>})
  \union Unary({"_nhwc_letterbox"}, [size : {<<3, 6>>, <<9>>}], {<<1, 4, 5, 3>>, <<-1, 4, -1, 1>>})
  \union Unary({"_nhwc_scale_resize2d"}, [size : {<<3, 6>>, <<9>>, <<2>>}],
               {<<1, 4, 5, 3>>, <<1, 7, 4, 3>>, <<-1, 4, 4, 1>>})
  \union Unary({"divided"}, [size : {<<4>>, <<2, 3>>, <<1, 4, 1>>}], {<<5>>, <<4, 7>>, <<2, 9, 3>>})
  \union Unary({"divided"}, [size : {<<1>>, <<1, 4, 1>>}], {<<-1, 3, -1>>})
  \union Unary({"_limit"}, [shape : {<<-1, 2>>, <<3, 0>>}], {<<4, 1>>, <<2, 5>>})
  \union Unary({"force_color", "force_gray"}, NoAttr, AnyShape)
  \union Unary({"batch_to_space4d"}, [block_shape : {<<2, 3>>, <<1, 2>>}, crop : {<<0, 0, 0, 0>>, <<0, 1, 1, 0>>}],
               {<<12, 2, 3, 4>>, <<4, 2, 3, 4>>, <<-1, 2, 3, -1>>})
  \union Unary({"space_to_batch4d"}, [block_shape : {<<2, 3>>, <<1, 2>>}, padding : {<<0, 0, 0, 0>>, <<0, 1, 1, 0>>}],
               {<<1, 2, 4, 6>>, <<2, 2, 3, 5>>, <<-1, 2, 3, -1>>})

\* Without more boxes asked for than there are
Boxes ==
  Applying({"non_max_suppression_v3"}, [max_output_size : {1, 2}],
           {<<x, y>> : x \in {<<3, 4>>, <<-1, 4>>}, y \in {<<3>>, <<2>>}}, <<>>)
  \union Applying({"proposal"}, NoAttr \union [min_level : {2}, max_level : {3}, post_nms_top_n : {10}],
                  {<<x, <<1, 4>>, <<1, 3>> >> : x \in {<<2, 3>>, <<-1, 3>>}}, <<>>)
  \union Applying({"roi_align"}, [pool_h : {7}, pool_w : {5}],
                  {<<x, y>> : x \in {<<1, 3, 8, 8>>, <<1, -1, 8, 8>>}, y \in {<<4, 5>>, <<-1, 5>>}}, <<>>)
  \union Unary({"yolo"}, [mask : {<<0, 1, 2>>}, classes : {2}, anchors : {<<1, 2, 3, 4>>}],
               {<<1, 21, 4, 4>>, <<-1, 21, 4, -1>>, <<1, 20, 4, 4>>})

-------------------------------------------------------------------------------
\* Shapes computed from shapes, in a chain of ops on the nodes before.  Without
\* arithmetic on a size that is not known.
Chain(nodes, ops, xs) ==
  LET k == Len(nodes)
      At(i) == IF i > 0 THEN k + i ELSE -i     \* op i, or node -i
  IN  {[graph |-> nodes \o [i \in DOMAIN ops |->
                    Op(ops[i].op, ops[i].attr, [j \in DOMAIN ops[i].on |-> At(ops[i].on[j])])],
        shapes |-> {<<x>> : x \in xs}]}
Do(op, attr, on) == [op |-> op, attr |-> attr, on |-> on]

First == [begin |-> <<0>>, end |-> <<1>>, stride |-> <<1>>, mask |-> Masked({}, {}, {}, {}, {})]
Chains ==
  Chain(<<Param("float"), List(<<-1>>)>>,
        <<Do("_shape", <<>>, <<-1>>), Do("strided_slice", First, <<1>>),
          Do("concat", [dim |-> 0], <<2, -2>>), Do("_reshape_v2", <<>>, <<-1, 3>>)>>, AnyShape \ {<<>>})
  \union
  Chain(<<Param("float"), List(<<1, 0>>)>>,
        <<Do("_shape", <<>>, <<-1>>), Do("gather", [axis |-> 0], <<1, -2>>),
          Do("broadcast", <<>>, <<-1, 2>>), Do("_reshape_v2", <<>>, <<-1, 2>>)>>,
        {<<1, 1>>, <<2, 3>>, <<2, -1>>, <<2, 2>>})
  \union
  Chain(<<Param("float"), List(<<1, 2, 2, 1>>), List(<<0, 1, -1, 0>>)>>,
        <<Do("_shape", <<>>, <<-1>>), Do("mul", <<>>, <<1, -2>>), Do("sub", <<>>, <<2, -3>>),
          Do("_resize2d", <<>>, <<-1, 3>>), Do("add", <<>>, <<4, -1>>)>>, {<<1, 4, 5, 3>>, <<2, 1, 2, 1>>})
  \union
  Chain(<<Param("float"), Scalar(0), Scalar(1), Scalar(2)>>,
        <<Do("_dims", <<>>, <<-1>>), Do("range", <<>>, <<-2, 1, -3>>), Do("maximum", <<>>, <<2, -3>>),
          Do("_reshape_v2", <<>>, <<-1, 3>>), Do("add", <<>>, <<1, -4>>), Do("_expand", <<>>, <<-1, 5>>)>>,
        AnyShape \ {<<>>})
  \union
  Chain(<<Param("float"), Scalar(5), Scalar(2)>>,
        <<Do("_dims", <<>>, <<-1>>), Do("range", <<>>, <<1, -2, -3>>), Do("stack", [axis |-> 0], <<1, 1>>),
          Do("mul", <<>>, <<2, 1>>)>>, {<<>>, <<-1>>, <<1, 2>>, <<1, 2, 3>>})

AllProblems ==
  UNION {Elementwises, Reshapes, Joins, Chunks, Slices, StridedSlices, Reductions, Products,
         Convolutions("NCHW"), Convolutions("NHWC"), Depthwises, InputWindows, Int8Convolutions,
         WinogradKernels, Paddings, Pictures, Boxes, Chains}
===============================================================================
