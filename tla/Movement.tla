-------------------------------- MODULE Movement --------------------------------
(***************************************************************************)
(* Kernels that move elements: where each element of the output comes      *)
(* from, as the loops and the threads compute it.                          *)
(*                                                                         *)
(* A task t has x and s, the memory and the shape of the input (xs and ss  *)
(* where there are several), out, the shape of the output, and the         *)
(* operator's own parameters.                                              *)
(***************************************************************************)
EXTENDS Reductions

\* What a loop over n writes that puts value(i) at at(i): the last one counts.
Scattered(n, at(_), value(_)) ==
  LET puts == {<<at(i), i>> : i \in Loop(n)}
  IN  [o \in {p[1] : p \in puts} |-> value(Max({p[2] : p \in {q \in puts : q[1] = o}}))]

-------------------------------------------------------------------------------
(* transpose *)

Transpose_transpose_run(t) ==
  Whole(Scattered(Product(t.s),
          LAMBDA i : LET c == to_coordinate(i, t.s)
                     IN  to_index([k \in DOMAIN c |-> c[t.permute[k] + 1]], t.out),
          LAMBDA i : t.x[i]))

\* Three channels: pixel by pixel, four at a time in float; the rows of a number are
\* the iterations of a parallel loop.
NC3HWToNHWC3(t) ==
  LET rows == t.s[3]
      width == t.s[4]
  IN  [n \in 1 .. t.s[1] |-> [h \in 1 .. rows |->
         [o \in {(((n - 1) * rows + h - 1) * width + w) * 3 + c :
                   w \in Visited(width, t.float), c \in 0 .. 2} |->
            t.x[(((n - 1) * 3 + (o % 3)) * rows + h - 1) * width + ((o \div 3) % width)]]]]
NHWC3ToNC3HW(t) ==
  LET rows == t.s[2]
      width == t.s[3]
      plane == rows * width
  IN  [n \in 1 .. t.s[1] |-> [h \in 1 .. rows |->
         [o \in {((n - 1) * 3 + c) * plane + (h - 1) * width + w :
                   w \in Visited(width, t.float), c \in 0 .. 2} |->
            t.x[(((n - 1) * rows + h - 1) * width + (o % width)) * 3 + ((o \div plane) % 3)]]]]

Transpose(t) ==
  IF t.permute = <<0, 3, 1, 2>> /\ t.s[4] = 3 THEN NHWC3ToNC3HW(t)
  ELSE IF t.permute = <<0, 2, 3, 1>> /\ t.s[2] = 3 THEN NC3HWToNHWC3(t)
  ELSE Transpose_transpose_run(t)

TransposeGpu(t) ==
  Whole([i \in Grid(Product(t.out)) |->
     LET c == GpuCoordinate(i, t.out)
     IN  t.x[SumOf([k \in DOMAIN c |-> c[k] * Strides(t.s)[t.permute[k] + 1]])]])

-------------------------------------------------------------------------------
(* pad: t.padding has for every dimension what goes before it and after it; less than
   zero crops. *)

transpose_pad(c, t) == [d \in DOMAIN c |-> c[d] - t.padding[d][1]]
Inside(c, s) == \A d \in DOMAIN c : c[d] \in Loop(s[d])

\* Four dimensions: all is filled, then rows that need not be cropped are copied.  A
\* number's planes are the iterations of a parallel loop.
pad_nchw_nhwc(t) ==
  LET kept(d) == t.s[d] + Smallest(t.padding[d][1], 0) + Smallest(t.padding[d][2], 0)
      skip(d) == Largest(-t.padding[d][1], 0)
      lead(d) == Largest(t.padding[d][1], 0)
      place(n, i, j, l, first(_), s) ==
        to_index(<<n + first(1), i + first(2), j + first(3), l + first(4)>>, s)
  IN  Whole([o \in Loop(Product(t.out)) |-> t.value])
      \o [n \in 1 .. t.s[1] |-> [i \in 1 .. kept(2) |->
            LET from == {<<place(n - 1, i - 1, j, l, lead, t.out),
                           place(n - 1, i - 1, j, l, skip, t.s)>> :
                           j \in Loop(kept(3)), l \in Loop(kept(4))}
            IN  [o \in {f[1] : f \in from} |-> t.x[(CHOOSE f \in from : f[1] = o)[2]]]]]

PadOnCPU(t) ==
  IF \A d \in DOMAIN t.padding : t.padding[d] = <<0, 0>>
  THEN Whole([i \in Loop(Product(t.s)) |-> t.x[i]])
  ELSE IF Len(t.padding) = 4 THEN pad_nchw_nhwc(t)
  ELSE Whole([i \in Loop(Product(t.out)) |->
         LET c == transpose_pad(to_coordinate(i, t.out), t)
         IN  IF Inside(c, t.s) THEN t.x[to_index(c, t.s)] ELSE t.value])

PadOnGPU(t) ==
  Whole([i \in Grid(Product(t.out)) |->
     LET c == transpose_pad(GpuCoordinate(i, t.out), t)
     IN  IF Inside(c, t.s) THEN t.x[to_index(c, t.s)] ELSE t.value])

-------------------------------------------------------------------------------
(* concat, stack and chunk *)

\* Where input i, or output i, begins in the dimension
Shift(t, i) == SumOf([j \in 1 .. i - 1 |-> Width(t.ss[j], t.dim)])

\* One input after the other, every run of elements with one memcpy
Concat(t) ==
  LET size == After(t.ss[1], t.dim)
      run == Width(t.out, t.dim) * size
  IN  InOrder([i \in DOMAIN t.xs |->
         LET width == Width(t.ss[i], t.dim) * size
             offset == Shift(t, i) * size
         IN  [o \in {j * run + offset + k : j \in Loop(Before(t.ss[1], t.dim)), k \in Loop(width)} |->
                t.xs[i][(o \div run) * width + (o % run) - offset]]])

ConcatGpu(t) ==
  LET width == After(t.out, t.dim)
      step == Width(t.out, t.dim) * width
      slice_map == [s \in Loop(Width(t.out, t.dim)) |->
                      Max({i \in DOMAIN t.xs : Shift(t, i) <= s /\ Width(t.ss[i], t.dim) > 0})]
  IN  Whole([o \in Grid(Product(t.out)) |->
         LET s == (o % step) \div width
             i == slice_map[s]
             n == o \div step
         IN  t.xs[i][(n * Width(t.ss[i], t.dim) + s - Shift(t, i)) * width
                       + ((o % step) % width)]])

\* stack: every input gets a dimension of one element, and they are concatenated.
StackTensor(t) == Concat([t EXCEPT !.ss = [i \in DOMAIN t.ss |-> InsertDim(t.ss[i], t.dim, 1)]])
StackTensorGpu(t) ==
  LET width == After(t.out, t.dim)
      step == Width(t.out, t.dim) * width
  IN  Whole([o \in Grid(Product(t.out)) |->
         t.xs[((o % step) \div width) + 1][(o \div step) * width + ((o % step) % width)]])

\* The offset o of output i is <<i, o>>; t.ss are the shapes of the outputs.
Chunk(t) ==
  LET size == After(t.ss[1], t.dim)
      run == Width(t.s, t.dim) * size
  IN  InOrder([i \in DOMAIN t.ss |->
         LET width == Width(t.ss[i], t.dim) * size
         IN  [o \in {i} \X Loop(Before(t.ss[1], t.dim) * width) |->
                t.x[(o[2] \div width) * run + Shift(t, i) * size + (o[2] % width)]]])

-------------------------------------------------------------------------------
(* slices *)

cpu_slice(t) ==
  Whole([i \in Loop(Product(t.out)) |->
     LET c == to_coordinate(i, t.out)
     IN  t.x[to_index([d \in DOMAIN c |-> c[d] + t.begin[d]], t.s)]])
SliceV2(t) == cpu_slice(t)

gpu_slice(t) ==
  Whole([i \in Grid(Product(t.out)) |->
     LET c == GpuCoordinate(i, t.out)
     IN  t.x[to_index([d \in DOMAIN c |-> c[d] + t.begin[d]], t.s)]])
SliceV2Gpu(t) == gpu_slice(t)

\* What is missing at the end of begin is zero, and of stride one.
Extended(seq, dims, value) == [d \in 1 .. dims |-> IF d <= Len(seq) THEN seq[d] ELSE value]

\* Mistake: the step is taken from the beginning of the dimension.
StridedFromZero(c, t) ==
  LET stride == Extended(t.stride, Len(t.s), 1)
  IN  to_index([d \in DOMAIN c |-> (c[d] * stride[d]) % t.s[d]], t.s)

Strided(c, t) ==
  LET begin == Extended(t.begin, Len(t.s), 0)
      stride == Extended(t.stride, Len(t.s), 1)
  IN  to_index([d \in DOMAIN c |-> c[d] * stride[d] + begin[d]], t.s)

cpu_compute_strided_slice(t) ==
  Whole([i \in Loop(Product(t.out)) |-> t.x[Strided(to_coordinate(i, t.out), t)]])
SliceV3(t) == cpu_compute_strided_slice(t)
gpu_compute_strided_slice(t) ==
  Whole([i \in Grid(Product(t.out)) |-> t.x[Strided(GpuCoordinate(i, t.out), t)]])
SliceV3Gpu(t) == gpu_compute_strided_slice(t)

-------------------------------------------------------------------------------
(* gather, gatherv2, tile and dimshuffle *)

\* t.indices is the memory of the indices and of what lies behind them, t.count how many
\* there are.
Gather(t) ==
  LET width == After(t.s, t.dim)
  IN  Whole([o \in Loop(Before(t.s, t.dim) * t.count * width) |->
         LET n == o \div (t.count * width)
             i == (o \div width) % t.count
         IN  t.x[(n * Width(t.s, t.dim) + t.indices[i]) * width + (o % width)]])

\* The whole output is taken for one slice: there is no number but 0.
GatherGpu(t) ==
  LET width == After(t.s, t.dim)
      out_slice == Product(t.out)
  IN  Whole([o \in Grid(Product(t.out)) |->
         LET n == o \div (out_slice * width)
             s == (o % (out_slice * width)) \div width
         IN  t.x[(n * Width(t.s, t.dim) + t.indices[s]) * width + (o % width)]])

\* t.axis indices at a time choose an element, or all that lies below it.
Picked(t, i) ==
  to_index([d \in DOMAIN t.s |-> IF d <= t.axis THEN t.indices[i * t.axis + d - 1] ELSE 0], t.s)
Runs(t, visited) ==
  LET width == Product(SubSeq(t.s, t.axis + 1, Len(t.s)))
  IN  [o \in {i * width + k : i \in visited, k \in Loop(width)} |->
         t.x[Picked(t, o \div width) + (o % width)]]
GatherV2(t) == Whole(Runs(t, Loop(t.count \div t.axis)))
GatherV2Gpu(t) == Whole(Runs(t, Grid(t.count \div t.axis)))

Tile(t) ==
  LET r == Product(t.repeats)
  IN  Whole(Scattered(Product(t.s) * r,
              LAMBDA j : LET at == to_coordinate(j \div r, t.s)
                             repeat == to_coordinate(j % r, t.repeats)
                         IN  to_index([d \in DOMAIN at |-> repeat[d] * t.s[d] + at[d]], t.out),
              LAMBDA j : t.x[j \div r]))
TileGpu(t) ==
  Whole([i \in Grid(Product(t.out)) |->
     LET c == GpuCoordinate(i, t.out)
     IN  t.x[to_index([d \in DOMAIN c |-> c[d] % t.s[d]], t.s)]])

Dimshuffle(t) ==
  LET back == After(t.s, t.dim)
      stride == Width(t.s, t.dim) * back
      newstride == back * Len(t.shuffle)
  IN  Whole([o \in Loop(Before(t.s, t.dim) * newstride) |->
         t.x[(o \div newstride) * stride
               + t.shuffle[((o % newstride) \div back) + 1] * back + (o % back)]])
DimshuffleGpu(t) ==
  Whole([i \in Grid(Product(t.out)) |->
     LET c == GpuCoordinate(i, t.out)
     IN  t.x[to_index([c EXCEPT ![t.dim + 1] = t.shuffle[c[t.dim + 1] + 1]], t.s)]])

-------------------------------------------------------------------------------
(* spacetobatch4d and batchtospace4d: t.top, t.left, what is padded or cropped there;
   t.bh and t.bw, the block *)

\* The coordinate of the batches for one of the space, n of a batch of number
InBatches(c, number, t, side) ==
  LET h == c[3] + t.top
      w == c[4] + t.left
  IN  <<((h % t.bh) * t.bw + ((c[4] + side) % t.bw)) * number + c[1], c[2], h \div t.bh, w \div t.bw>>

\* The output is zero first.
cpu_spacetobatch4d(t) ==
  Whole([o \in Loop(Product(t.out)) |-> 0])
  \o Whole(Scattered(Product(t.s),
             LAMBDA i : to_index(InBatches(to_coordinate(i, t.s), t.s[1], t, t.left), t.out),
             LAMBDA i : t.x[i]))
cpu_batchtospace4d(t) ==
  Whole([o \in Loop(Product(t.out)) |->
           t.x[to_index(InBatches(to_coordinate(o, t.out), t.out[1], t, t.left), t.s)]])

\* One thread for every element; the place in a block is computed with the padding of
\* the top in both directions.
gpu_spacetobatch4d(t) ==
  Whole([o \in Loop(Product(t.out)) |-> 0])
  \o Whole(Scattered(Product(t.s),
             LAMBDA i : to_index(InBatches(GpuCoordinate(i, t.s), t.s[1], t, t.top), t.out),
             LAMBDA i : t.x[i]))
gpu_batchtospace4d(t) ==
  Whole([o \in Grid(Product(t.out)) |->
           t.x[to_index(InBatches(GpuCoordinate(o, t.out), t.out[1], t, t.left), t.s)]])

-------------------------------------------------------------------------------
(* force_color and force_gray: of every pixel the first channel, or all by t.scale *)

ForceColor(t) ==
  Whole([o \in Loop(Product(t.out)) |-> t.x[(o \div Last(t.out)) * Last(t.s)]])
ForceGray(t) ==
  Whole([o \in Loop(Product(Front(t.s))) |->
           SumOf([j \in 1 .. Last(t.s) |-> t.scale[j] * t.x[o * Last(t.s) + j - 1]])])
OfPixels(t, channels) ==
  {i * channels + j : i \in Grid(Product(Front(t.s))), j \in Loop(channels)}
ForceColorGpu(t) ==
  Whole([o \in OfPixels(t, Last(t.out)) |-> t.x[(o \div Last(t.out)) * Last(t.s)]])
ForceGrayGpu(t) ==
  Whole([o \in OfPixels(t, 1) |->
           SumOf([j \in 1 .. Last(t.s) |-> t.scale[j] * t.x[o * Last(t.s) + j - 1]])])
===============================================================================
