-------------------------------- MODULE MCKernels --------------------------------
(***************************************************************************)
(* Calls of every kernel: sizes at which vectors, tiles and blocks have    *)
(* something left over, values of both signs, dimensions of one element.   *)
(***************************************************************************)
EXTENDS Kernels

Devices == {"CPU", "GPU"}
Case(kernel, device, task) == [kernel |-> kernel, device |-> device, task |-> task]
Data(n) == [i \in Loop(n) |-> IF i % 3 = 1 THEN -i ELSE i + 1]
Positive(n) == [i \in Loop(n) |-> ((i * 5) % 11) + 1]
Of(s) == Data(Product(s))

-------------------------------------------------------------------------------
Shapes ==
  {<< <<2, 3>>, <<2, 3>> >>, << <<2, 3>>, <<1>> >>, << <<1, 1>>, <<7>> >>,
   << <<2, 3, 5>>, <<3, 1>> >>, << <<3>>, <<2, 3>> >>, << <<2, 1, 1>>, <<2, 3, 2>> >>,
   << <<2, 1, 3>>, <<1, 2, 1>> >>, << <<2, 2, 1>>, <<1, 1, 3>> >>}
Arithmetical ==
  {Case(op, device, [x |-> [sizes |-> s[1], data |-> Of(s[1])],
                     y |-> [sizes |-> s[2], data |-> [i \in Loop(Product(s[2])) |-> 3 - i]],
                     float |-> float]) :
     op \in Arithmetics, device \in Devices, s \in Shapes, float \in BOOLEAN}

Broadcasting ==
  {Case("broadcast", "CPU",
        [x |-> [sizes |-> s[1], data |-> Of(s[1])], out |-> s[2], bytes |-> bytes]) :
     s \in {<< <<1>>, <<3, 5>> >>, << <<2, 1>>, <<2, 2, 5>> >>, << <<2, 1, 2>>, <<2, 3, 2>> >>,
            << <<2>>, <<3, 2>> >>},
     bytes \in {1, 2, 4, 8}}
  \union {Case("broadcast", "GPU", [x |-> [sizes |-> s[1], data |-> Of(s[1])], out |-> s[2]]) :
            s \in {<< <<2, 1>>, <<2, 2, 5>> >>, << <<2, 1, 2>>, <<2, 3, 2>> >>, << <<2>>, <<3, 2>> >>}}

Channelled ==
  {Case(op, device, [x |-> Of(s), out |-> s, dim |-> 1, float |-> float,
                     p |-> <<Positive(3), [k \in 0 .. 2 |-> k + 2], [k \in 0 .. 2 |-> -k], Positive(3)>>]) :
     op \in {"add_bias", "prelu", "batch_norm", "fused_batch_norm", "batch_scale"},
     device \in Devices, s \in {<<2, 3, 5>>, <<2, 3>>}, float \in BOOLEAN}

Signed(bits) == [bits |-> bits, signed |-> TRUE]
Unsigned(bits) == [bits |-> bits, signed |-> FALSE]
Activating ==
  {Case(op, device, [x |-> Data(7), n |-> 7, p |-> 2, float |-> float]) :
     op \in {"abs", "square", "exp", "sigmoid", "tanh", "relu", "relu_max", "leaky_relu"},
     device \in Devices, float \in BOOLEAN}
  \union {Case(op, device, [x |-> Positive(7), n |-> 7, p |-> 2]) :
            op \in {"sqrt", "rsqrt"}, device \in Devices}
  \union {Case("quantize", "CPU", [x |-> Data(19), n |-> 19, p |-> scales, float |-> float]) :
            scales \in {<<40>>, <<10, 20, 30, 40>>}, float \in BOOLEAN}
  \union {Case("cast", device, [x |-> [i \in Loop(7) |-> (i - 3) * 100], n |-> 7,
                               from |-> Signed(16), to |-> to]) :
            to \in {Signed(8), Signed(16), Unsigned(8), Unsigned(16)}, device \in Devices}
  \union {Case("cast", "CPU", [x |-> [i \in Loop(7) |-> (i - 3) * 128], n |-> 7,
                              from |-> Signed(16), to |-> BoolType])}

-------------------------------------------------------------------------------
Combined ==
  {Case(op, device, [x |-> Of(<<2, 3, 2>>), s |-> <<2, 3, 2>>, dim |-> dim, last |-> dim,
                     smooth |-> smooth, float |-> FALSE]) :
     op \in Reductionals, device \in Devices, dim \in 0 .. 2, smooth \in BOOLEAN}
  \union {Case("softmax", device, [x |-> Of(<<3, 1, 2>>), s |-> <<3, 1, 2>>, dim |-> 1, smooth |-> smooth]) :
            device \in Devices, smooth \in BOOLEAN}
  \union {Case("reduce_mean", device, [x |-> Of(<<2, 3, 2>>), s |-> <<2, 3, 2>>, dim |-> 1, last |-> 2]) :
            device \in Devices}
  \union {Case("argmax", device, [x |-> Positive(12), s |-> <<2, 3, 2>>, dim |-> 1, float |-> TRUE]) :
            device \in Devices}
  \union {Case("topkv2", device, [x |-> Positive(10), s |-> <<2, 5>>, k |-> n]) :
            device \in Devices, n \in {1, 3, 5}}
  \union {Case(op, "CPU", [x |-> Of(<<2, 5>>), s |-> <<2, 5>>]) : op \in {"norm_image", "prewhiten"}}

Multiplied ==
  {Case("gemm", "CPU", [m |-> 3, n |-> 2, k |-> 5, a |-> Data(15), b |-> Positive(10),
                        c |-> Data(6), cs |-> cs, alpha |-> 2, beta |-> beta,
                        transA |-> transA, transB |-> transB]) :
     cs \in {<<3, 2>>, <<1, 2>>, <<3, 1>>}, beta \in {0, 3}, transA \in BOOLEAN, transB \in BOOLEAN}
  \union {Case("inner_prod", "CPU",
               [m |-> m, n |-> 10, k |-> 5, a |-> Data(m * 5), weights |-> Positive(50),
                b |-> IF packed THEN pack8_B(5, 10, Positive(50), 10) ELSE Positive(50),
                packed |-> packed, transpose |-> FALSE, float |-> TRUE]) :
            m \in {2, 9}, packed \in BOOLEAN}
  \union {Case("inner_prod", "CPU",
               [m |-> 8, n |-> 9, k |-> 3, a |-> Data(24), weights |-> Positive(27), b |-> Positive(27),
                packed |-> FALSE, transpose |-> TRUE, float |-> TRUE])}

Summed ==
  {Case(op, "GPU", [x |-> Data(n), y |-> Positive(n)]) : op \in {"sum", "asum", "dot"}, n \in {1, 3, 7}}
  \union {Case("sum", "GPU", [x |-> Data(11), y |-> <<>>])}
  \union {Case(op, "GPU", [x |-> Of(<<2, 5>>), s |-> <<2, 5>>]) : op \in {"norm_image", "prewhiten"}}

-------------------------------------------------------------------------------
Transposed ==
  {Case("transpose", device,
        [x |-> Of(s[1]), s |-> s[1], permute |-> s[2], float |-> float,
         out |-> [d \in DOMAIN s[1] |-> s[1][s[2][d] + 1]]]) :
     s \in {<< <<2, 3, 2, 5>>, <<0, 2, 3, 1>> >>, << <<2, 2, 5, 3>>, <<0, 3, 1, 2>> >>,
            << <<1, 2, 2, 3>>, <<0, 2, 3, 1>> >>, << <<2, 3, 2>>, <<2, 0, 1>> >>, << <<2, 3>>, <<1, 0>> >>},
     device \in Devices, float \in BOOLEAN}

Padded ==
  {Case("pad", device,
        [x |-> Of(s[1]), s |-> s[1], padding |-> s[2], value |-> -77,
         out |-> [d \in DOMAIN s[1] |-> s[1][d] + s[2][d][1] + s[2][d][2]]]) :
     s \in {<< <<2, 3>>, << <<1, 0>>, <<-1, 2>> >> >>, << <<2, 3>>, << <<0, 0>>, <<0, 0>> >> >>,
            << <<2, 2, 3, 2>>, << <<0, 1>>, <<1, 0>>, <<-1, 1>>, <<0, 0>> >> >>,
            << <<1, 3, 2, 3>>, << <<0, 0>>, <<-1, -1>>, <<1, 1>>, <<1, -2>> >> >>},
     device \in Devices}

Joined3 == << <<2, 1, 2>>, <<2, 3, 2>>, <<2, 2, 2>> >>
Joining ==
  {Case("concat", device, [xs |-> [i \in 1 .. 3 |-> [o \in Loop(Product(Joined3[i])) |-> i * 100 + o]],
                           ss |-> Joined3, dim |-> 1, out |-> <<2, 6, 2>>]) : device \in Devices}
  \union {Case("stack", device, [xs |-> [i \in 1 .. 3 |-> [o \in Loop(4) |-> i * 100 + o]],
                                 ss |-> [i \in 1 .. 3 |-> <<2, 2>>], dim |-> dim,
                                 out |-> InsertDim(<<2, 2>>, dim, 3)]) : device \in Devices, dim \in 0 .. 2}
  \union {Case("chunk", "CPU", [x |-> Of(<<2, 6, 2>>), s |-> <<2, 6, 2>>, ss |-> Joined3, dim |-> 1])}

Sliced ==
  {Case(op, device, [x |-> Of(<<4, 5>>), s |-> <<4, 5>>, begin |-> <<1, 2>>, out |-> <<3, 2>>]) :
     op \in {"slice", "slice_v2"}, device \in Devices}
  \union {Case(op, device, [x |-> Of(<<4, 5, 2>>), s |-> <<4, 5, 2>>, begin |-> b[1], stride |-> b[2], out |-> b[3]]) :
            op \in {"slice_v3", "strided_slice"}, device \in Devices,
            b \in {<< <<1, 4>>, <<2, -2>>, <<2, 3, 2>> >>, << <<1>>, <<1>>, <<3, 5, 2>> >>,
                   << <<3, 0, 1>>, <<-1, 2, -1>>, <<4, 3, 2>> >>}}

Picking ==
  {Case("gather", "CPU", [x |-> Of(<<2, 4, 3>>), s |-> <<2, 4, 3>>, dim |-> dim,
                          indices |-> [i \in 0 .. 2 |-> (2 * i) % Width(<<2, 4, 3>>, dim)], count |-> 3,
                          out |-> SetDim(<<2, 4, 3>>, dim, 3)]) : dim \in 0 .. 2}
  \union {Case("gather", "GPU", [x |-> Of(<<4, 3>>), s |-> <<4, 3>>, dim |-> 0,
                                 indices |-> [i \in 0 .. 2 |-> 3 - i], count |-> 3, out |-> <<3, 3>>])}
  \union {Case("gatherv2", device, [x |-> Of(<<2, 3, 2>>), s |-> <<2, 3, 2>>, axis |-> 2, count |-> 10,
                                    indices |-> [i \in Loop(10) |-> IF i % 2 = 0 THEN (i \div 2) % 2 ELSE i % 3],
                                    out |-> <<5, 2>>]) : device \in Devices}
  \union {Case("tile", device, [x |-> Of(<<2, 3>>), s |-> <<2, 3>>, repeats |-> <<3, 2>>, out |-> <<6, 6>>]) :
            device \in Devices}
  \union {Case("dimshuffle", device, [x |-> Of(<<2, 3, 2>>), s |-> <<2, 3, 2>>, dim |-> 1,
                                      shuffle |-> <<2, 0, 2, 1>>, out |-> <<2, 4, 2>>]) : device \in Devices}

Blocked ==
  {Case("spacetobatch4d", device, [x |-> Of(<<2, 1, 3, 3>>), s |-> <<2, 1, 3, 3>>, top |-> 1, left |-> 1,
                                   bh |-> 2, bw |-> 3, out |-> <<12, 1, 2, 2>>]) : device \in Devices}
  \union {Case("spacetobatch4d", "CPU", [x |-> Of(<<2, 1, 3, 3>>), s |-> <<2, 1, 3, 3>>, top |-> 1, left |-> 2,
                                         bh |-> 2, bw |-> 3, out |-> <<12, 1, 2, 2>>])}
  \union {Case("batchtospace4d", device, [x |-> Of(<<12, 1, 2, 2>>), s |-> <<12, 1, 2, 2>>, top |-> 1, left |-> 2,
                                          bh |-> 2, bw |-> 3, out |-> <<2, 1, 3, 3>>]) : device \in Devices}

Coloured ==
  {Case("force_color", device, [x |-> Of(<<2, 3, 1>>), s |-> <<2, 3, 1>>, out |-> <<2, 3, 3>>]) : device \in Devices}
  \union {Case("force_gray", device, [x |-> Of(<<2, 3, 3>>), s |-> <<2, 3, 3>>, scale |-> <<1, 10, 100>>,
                                      out |-> <<2, 3, 1>>]) : device \in Devices}

-------------------------------------------------------------------------------
\* What windows slide over: p is the padding at the top, the bottom, the left and the right.
Slid(s, k, p, stride, dilation, value) ==
  [x |-> Of(s), s |-> s, k |-> k, w |-> Of(k), weights |-> Of(k), packed |-> FALSE, float |-> TRUE,
   value |-> value, top |-> p[1], bottom |-> p[2], left |-> p[3], right |-> p[4],
   stride |-> stride, dilation |-> dilation]
Sized(t, channels, size(_, _, _, _, _)) ==
  [out |-> <<t.s[1], channels, size(t.s[3], t.top + t.bottom, t.dilation[1], t.k[3], t.stride[1]),
             size(t.s[4], t.left + t.right, t.dilation[2], t.k[4], t.stride[2])>>] @@ t
Convolving(t) == Sized(t, t.k[1], conv2d_forward)
Packing(t) ==
  [t EXCEPT !.w = pack8_A(t.k[1], Product(Tail(t.k)), t.w, Product(Tail(t.k))), !.packed = TRUE]

Convolved1 ==
  {Convolving(Slid(<<2, 2, 3, 4>>, <<9, 2, 2, 2>>, <<0, 1, 1, 0>>, <<1, 2>>, <<1, 1>>, 5)),
   Convolving(Slid(<<1, 2, 4, 5>>, <<2, 2, 2, 3>>, <<1, 0, 2, 1>>, <<2, 1>>, <<2, 1>>, -3)),
   Convolving(Slid(<<2, 3, 2, 3>>, <<2, 3, 1, 1>>, <<0, 0, 0, 0>>, <<1, 1>>, <<1, 1>>, 5)),
   Convolving(Slid(<<1, 2, 2, 3>>, <<2, 2, 1, 1>>, <<1, 0, 0, 0>>, <<1, 1>>, <<1, 1>>, 5))}
Convoluted ==
  {Case("conv2d", device, t) : device \in Devices, t \in Convolved1}
  \union {Case("conv2d", "CPU", Packing(t)) : t \in Convolved1}
  \union {Case("transpose_conv2d", device, Sized(t, t.k[2], conv2d_backward)) :
            device \in Devices,
            t \in {Slid(<<2, 3, 2, 3>>, <<3, 2, 2, 3>>, <<0, 1, 1, 0>>, <<2, 1>>, <<1, 2>>, 0),
                   Slid(<<1, 2, 3, 2>>, <<2, 1, 3, 2>>, <<1, 1, 0, 0>>, <<1, 3>>, <<2, 1>>, 0)}}
  \union {Case("transpose_conv2d", "CPU",
               Sized(Slid(<<2, 2, 2, 3>>, <<2, 3, 1, 1>>, <<0, 0, 0, 0>>, <<1, 1>>, <<1, 1>>, 0), 3,
                     conv2d_backward))}

\* Wide enough for blocks of four columns and of two rows, and for what they leave over;
\* on the GPU the padding is zero.
Depthwise ==
  {Sized(t, t.k[2], conv2d_forward) : t \in
     {Slid(<<2, 2, 5, 9>>, <<1, 2, 3, 3>>, <<1, 1, 1, 0>>, <<1, 1>>, <<1, 1>>, value) : value \in {0, 4}}
     \union {Slid(<<1, 2, 7, 12>>, <<1, 2, 3, 3>>, p, <<2, 2>>, <<1, 1>>, 0) : p \in {<<1, 1, 1, 1>>, <<0, 1, 0, 2>>}}
     \union {Slid(<<1, 1, 4, 5>>, <<1, 1, 3, 3>>, <<1, 1, 1, 1>>, <<1, 1>>, <<1, 1>>, 0),
             Slid(<<1, 2, 4, 5>>, <<1, 2, 2, 3>>, <<1, 0, 2, 1>>, <<2, 1>>, <<1, 2>>, 0)}}
DepthwiseConvoluted ==
  {Case("depthwise_conv2d", "CPU", t) : t \in Depthwise}
  \union {Case("depthwise_conv2d", "GPU", t) : t \in {d \in Depthwise : d.value = 0}}

\* Weights and values of -1, 0 and 1; kept is of a run before with more channels, or of
\* another size.
Small(t) ==
  LET w == [i \in DOMAIN t.w |-> (((i * 2) % 5) % 3) - 1]
  IN  [t EXCEPT !.x = [i \in DOMAIN t.x |-> (((i * 7) % 5) % 3) - 1], !.w = w, !.weights = w]
Winogradian(t, mode) ==
  LET task == [mode |-> mode, kept |-> <<>>] @@ Small(Convolving(t))
  IN  IF mode = "f23" THEN task
      ELSE [task EXCEPT !.kept = [mode |-> mode, w |-> transform_kernel(task)]]
WinogradConvoluted ==
  {Case("conv2d_winograd", "CPU", Winogradian(t, "f23")) :
     t \in {Slid(<<2, 2, 5, 4>>, <<9, 2, 3, 3>>, <<1, 1, 0, 1>>, <<1, 1>>, <<1, 1>>, 1),
            Slid(<<1, 1, 6, 4>>, <<2, 1, 3, 3>>, <<0, 0, 0, 0>>, <<1, 1>>, <<1, 1>>, 0)}}
  \union {Case("conv2d_winograd", "CPU", Winogradian(t, "f63")) :
     t \in {Slid(<<1, 2, 8, 7>>, <<2, 2, 3, 3>>, <<1, 0, 1, 1>>, <<1, 1>>, <<1, 1>>, 1),
            Slid(<<1, 1, 8, 8>>, <<1, 1, 3, 3>>, <<0, 0, 0, 0>>, <<1, 1>>, <<1, 1>>, 0)}}

Pooling(t) == Sized([t EXCEPT !.dilation = <<1, 1>>], t.s[2], LAMBDA x, p, d, k, s : pooling2d_forward(x, p, k, s))
Pooled1 ==
  {[type |-> type, white |-> white] @@ Pooling(t) :
     type \in {"max", "avg"}, white \in BOOLEAN,
     t \in {Slid(<<2, 2, 5, 6>>, <<1, 1, 3, 2>>, <<1, 1, 0, 1>>, <<2, 1>>, <<1, 1>>, 0),
            Slid(<<1, 2, 9, 12>>, <<1, 1, 3, 3>>, <<1, 1, 1, 1>>, <<2, 2>>, <<1, 1>>, 0),
            Slid(<<1, 2, 8, 11>>, <<1, 1, 3, 3>>, <<0, 1, 0, 0>>, <<2, 2>>, <<1, 1>>, 0),
            Slid(<<1, 2, 5, 11>>, <<1, 1, 2, 2>>, <<0, 0, 1, 0>>, <<2, 2>>, <<1, 1>>, 0),
            Slid(<<2, 1, 4, 9>>, <<1, 1, 2, 2>>, <<1, 1, 0, 1>>, <<2, 2>>, <<1, 1>>, 0)}}
PoolingCases == {Case("pooling2d", device, t) : device \in Devices, t \in Pooled1}

\* The second run of an operator, with the padding of the first or with another one
Again(k, t, fields, before) ==
  Case(k, "CPU", [given |-> [f \in fields |-> t[f]], before |-> before] @@ t)
PadNames == {"top", "bottom", "left", "right"}
PadsOf(p) == [top |-> p[1], bottom |-> p[2], left |-> p[3], right |-> p[4]]
Renewing ==
  {Again("conv2d_v2", t, PadNames, PadsOf(p)) : t \in Convolved1, p \in {<<0, 1, 1, 0>>, <<2, 2, 0, 0>>}}
  \union {Again("depthwise_conv2d_v2", t, PadNames, PadsOf(<<0, 2, 0, 1>>)) : t \in Depthwise}
  \union {Again("conv2d_winograd_v2",
                Winogradian(Slid(<<1, 1, 5, 4>>, <<2, 1, 3, 3>>, <<1, 1, 0, 1>>, <<1, 1>>, <<1, 1>>, 1), "f23"),
                PadNames, PadsOf(<<0, 1, 2, 0>>))}
  \union {Again("pooling2d_v2", t, PadNames \union {"k", "stride"},
                [k |-> <<1, 1, 2, 2>>, stride |-> <<2, 2>>] @@ PadsOf(<<0, 0, 1, 0>>)) : t \in Pooled1}

GpuProducts ==
  {Case("gemm", "GPU", [c.task EXCEPT !.alpha = 3]) : c \in {m \in Multiplied : m.kernel = "gemm"}}
  \union {Case("inner_prod", "GPU",
               [m |-> 3, n |-> 4, k |-> 5, a |-> Data(15), weights |-> Positive(20), b |-> Positive(20),
                transpose |-> transpose]) : transpose \in BOOLEAN}

-------------------------------------------------------------------------------
\* Images whose rows are dimension at, counted from 1; a size of -1 keeps what is there.
Pixels(sizes) == [i \in Loop(Product(sizes)) |-> ((i * 7) % 11) * 25]
Sampling(sizes, at, out, type, float) ==
  [x |-> Pixels(sizes), sizes |-> sizes, at |-> at, dim |-> at - 1, to |-> <<out[at], out[at + 1]>>,
   out |-> out, type |-> type, float |-> float, outer |-> <<>>,
   size |-> [d \in DOMAIN out |-> IF d \in {at, at + 1} THEN out[d] ELSE -1]]
Types == {"linear", "nearest", "hard"}

Resized ==
  {Case("resize2d", device, Sampling(s[1], s[2], s[3], type, float)) :
     device \in Devices, type \in Types, float \in BOOLEAN,
     s \in {<< <<2, 2, 3, 2>>, 2, <<2, 3, 2, 2>> >>, << <<3, 4>>, 1, <<2, 5>> >>, << <<3, 4>>, 1, <<3, 2>> >>, << <<2, 2, 3>>, 2, <<2, 4, 1>> >>}}
  \union {Case("resize2d", device, Sampling(<<2, 2, 3>>, 2, <<2, 2, 3>>, type, FALSE)) :
            device \in Devices, type \in Types}
  \union {Case("resize2d", device, Sampling(<<5, 6, 2>>, 1, <<3, 2, 2>>, "cubic", TRUE)) : device \in Devices}
  \union {Case("resize2d", device, Sampling(<<1, 4, 7>>, 2, <<1, 2, 3>>, "cubic", TRUE)) : device \in Devices}
  \union {Case("resize_nearest_neighbor", "CPU", Sampling(<<2, 3, 2, 1>>, 2, <<2, 5, 3, 1>>, "nearest", FALSE))}
  \union {Case("sample2d_v2", "CPU",
               [scale |-> << <<1, 1>>, <<3, 2>>, <<1, 2>>, <<1, 1>> >>]
               @@ Sampling(<<1, 3, 4, 2>>, 2, <<1, 4, 2, 2>>, type, FALSE)) : type \in Types}

\* Turned, shrunk and moved, in halves and thirds of a cell; far enough for places outside
Affines ==
  {[unit |-> 2, rz |-> << <<2, 1, -3>>, <<-1, 3, 1>> >>], [unit |-> 3, rz |-> << <<4, 0, -2>>, <<0, 4, 5>> >>],
   [unit |-> 1, rz |-> << <<0, 1, 0>>, <<1, 0, 0>> >>], [unit |-> 2, rz |-> << <<-3, 1, 7>>, <<1, 1, -4>> >>]}
Transforming ==
  {Case("affine_sample2d", device, a @@ [outer |-> outer]
          @@ Sampling(<<2, 3, 4, 2>>, 2, <<2, 4, 3, 2>>, type, float)) :
     device \in Devices, type \in Types, float \in BOOLEAN, a \in Affines, outer \in {<<>>, <<9>>}}
  \union {Case("affine_sample2d", device, a @@ [outer |-> outer]
                 @@ Sampling(<<6, 7>>, 1, <<4, 3>>, "cubic", float)) :
            device \in Devices, float \in BOOLEAN, outer \in {<<>>, <<9>>},
            a \in {[unit |-> 2, rz |-> << <<2, 1, 1>>, <<1, 2, 0>> >>], [unit |-> 2, rz |-> << <<-3, 0, 9>>, <<0, 3, -1>> >>]}}
  \union {Case("affine_sample2d", device,  \* cubic weights reach beyond what uint8 holds
               [x |-> [i \in Loop(42) |-> IF (i \div 3) % 2 = 0 THEN 255 ELSE 0],
                unit |-> 2, rz |-> << <<1, 0, 3>>, <<0, 1, 3>> >>]
               @@ Sampling(<<6, 7>>, 1, <<4, 5>>, "cubic", FALSE)) : device \in Devices}
  \union {Case("sample2d", "CPU", [scale |-> scale]
                 @@ Sampling(<<1, 4, 4, 2>>, 2, <<1, (4 * scale[1]) \div scale[2], (4 * scale[1]) \div scale[2], 2>>,
                             type, float)) :
            scale \in {<<1, 2>>, <<3, 2>>}, type \in Types, float \in BOOLEAN}

Patching ==
  {Case("shape_index_patch", "CPU",
        [x |-> Pixels(<<2, 2, 4, 5>>), s |-> <<2, 2, 4, 5>>, count |-> 4, unit |-> 8, patch |-> patch[1],
         origin |-> <<8, 8>>, pos |-> [i \in Loop(8) |-> (i * 5) % 9], out |-> patch[2]]) :
     patch \in {<< <<4, 4>>, <<2, 2, 2, 2, 3>> >>, << <<2, 3>>, <<2, 2, 1, 2, 2>> >>}}

Priors ==
  {Case("prior_box", "CPU",
        p @@ [s |-> <<1, 1, 2, 3>>, image |-> <<8, 12>>, offset |-> <<1, 2>>, unit |-> 240,
              min |-> <<<<5, 2>>, <<4, 1>>>>, ratios |-> <<<<2, 1>>, <<1, 1>>, <<1, 2>>>>]) :
     p \in {[max |-> <<>>, flip |-> TRUE, clip |-> FALSE, img |-> <<0, 0>>, step |-> <<0, 0>>,
             variance |-> variance, every |-> <<4, 4>>, pixels |-> <<8, 12>>, out |-> <<2, 2, 3, 6, 4>>,
             priors |-> <<<<2, 2>>, <<1, 4>>, <<4, 1>>, <<4, 4>>, <<2, 8>>, <<8, 2>>>>] : variance \in {<<7>>, <<>>}}
     \union {
            [max |-> <<<<8, 1>>, <<9, 1>>>>, flip |-> FALSE, clip |-> TRUE, img |-> <<10, 20>>, step |-> <<4, 6>>,
             variance |-> <<1, 2, 3, 4>>, every |-> <<4, 6>>, pixels |-> <<10, 20>>, out |-> <<2, 2, 3, 8, 4>>,
             priors |-> <<<<2, 2>>, <<4, 4>>, <<1, 4>>, <<4, 1>>, <<4, 4>>, <<6, 6>>, <<2, 8>>, <<8, 2>>>>]}}

\* Boxes on a grid; in the second form one corner and the way to the other.
Corners == << <<0, 0, 4, 4>>, <<1, 1, 5, 5>>, <<0, 1, 4, 5>>, <<5, 0, 9, 3>>, <<6, 0, 9, 4>>, <<3, 3, 3, 7>> >>
Suppressing ==
  {Case("non_max_suppression_v3", "CPU",
        [x |-> [i \in Loop(24) |->
                  LET b == Corners[(i \div 4) + 1]
                      e == (i % 4) + 1
                  IN  IF mode = "xyxy" THEN b[((e + 1) % 4) + 1]
                      ELSE IF e <= 2 THEN b[e] ELSE b[e] - b[e - 2]],
         mode |-> mode, boxes |-> Corners, float |-> TRUE, scores |-> [i \in Loop(6) |-> (i * turn) % 7],
         score_threshold |-> score, max_output |-> most, iou_threshold |-> iou]) :
     mode \in {"xyxy", "xywh"}, turn \in {2, 3, 6}, score \in {-1, 1}, most \in {2, 5},
     iou \in {<<1, 4>>, <<2, 3>>}}
  \union {Case("non_max_suppression_v3", "CPU",
               [x |-> [i \in Loop(8) |-> i % 4], mode |-> "xyxy", boxes |-> << <<0, 1, 2, 3>>, <<0, 1, 2, 3>> >>,
                float |-> FALSE, scores |-> (0 :> 4) @@ (1 :> 3), score_threshold |-> 0, max_output |-> 3,
                iou_threshold |-> <<1, 2>>])}

\* Two layers of a net of 16 by 16, one and two anchors, a map of 2 by 2 and one of 1 by 2
Layer(s, mask) ==
  [s |-> s, classes |-> 2, mask |-> mask, anchors |-> [i \in Loop(6) |-> <<4, 8, 16, 4, 8, 12>>[i + 1]],
   x |-> [o \in Loop(Product(s)) |->
            LET c == to_coordinate(o, s)
                e == c[2] % 7
            IN  CASE e < 2 -> (o * 3) % 4
                  [] e \in {2, 3} -> (o * 5) % 3
                  [] e = 4 -> 2 + ((o * 3) % 7)
                  [] OTHER -> 1 + ((o * 11 + e * 5) % 9)]]
YoloLayers == << Layer(<<2, 14, 2, 2>>, <<1, 0>>), Layer(<<2, 7, 1, 2>>, <<2>>) >>
Detecting ==
  {Case("yolo", "CPU", l) : l \in Range(YoloLayers)}
  \union {Case("yolo_poster", "CPU",
               [layers |-> YoloLayers, classes |-> 2, numbers |-> 2, net |-> <<16, 16>>, unit |-> 16,
                thresh |-> thresh, sure |-> 10, nms |-> nms]) : thresh \in {2, 4}, nms \in {<<1, 5>>, <<1, 2>>}}

AllCases ==
  UNION {Arithmetical, Broadcasting, Channelled, Activating, Combined, Multiplied, Summed,
         Transposed, Padded, Joining, Sliced, Picking, Blocked, Coloured,
         Convoluted, DepthwiseConvoluted, WinogradConvoluted, PoolingCases, Renewing, GpuProducts,
         Resized, Transforming, Patching, Priors, Suppressing, Detecting}

-------------------------------------------------------------------------------
\* With two threads in a block, five elements are three sums, which are summed again in
\* place.
LargeSum == {Case("sum", "GPU", [x |-> Positive(5), y |-> <<>>])}

===============================================================================
