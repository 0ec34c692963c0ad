-------------------------------- MODULE Windows --------------------------------
(***************************************************************************)
(* Kernels that slide a window over images: convolution by columns, by     *)
(* tiles and per channel, its transpose, and pooling; and the products of  *)
(* matrices on the GPU, which they use.                                    *)
(*                                                                         *)
(* A task t has x and s = <<numbers, channels, height, width>>; w and k,   *)
(* the memory and the shape of the weights; out; top, bottom, left and     *)
(* right, the padding, and value, what is there; stride and dilation, of   *)
(* rows and of columns; float.                                             *)
(***************************************************************************)
EXTENDS Movement

\* A buffer, and what the regions of a kernel have written when all are over
Stored(f) == f @@ <<>>
Merged(regions) ==
  FoldLeft(LAMBDA a, parts : FoldLeft(LAMBDA b, part : part @@ b, a, parts), <<>>, regions)
Moved(f, by) == [o \in {i + by : i \in DOMAIN f} |-> f[o - by]]

\* The output's memory at the number, counting from 1
AtNumber(t, n, f) == Moved(f, (n - 1) * Product(Tail(t.out)))
Image(t, n) ==
  LET size == Product(Tail(t.s)) IN [i \in Loop(size) |-> t.x[(n - 1) * size + i]]

\* The regions number by number
OfEach(t, regions) ==
  FlattenSeq([n \in 1 .. t.s[1] |->
    [r \in DOMAIN regions[n] |-> [p \in DOMAIN regions[n][r] |-> AtNumber(t, n, regions[n][r][p])]]])

-------------------------------------------------------------------------------
(* Columns: a column for every place of the window, a row for every cell of it *)

\* From image <<channels, rows, columns>>: the sizes of the columns, and the cell of the
\* image, maybe outside it, that an element of them stands for
ColumnShape(image, t) ==
  <<image[1], t.k[3], t.k[4],
    conv2d_forward(image[2], t.top + t.bottom, t.dilation[1], t.k[3], t.stride[1]),
    conv2d_forward(image[3], t.left + t.right, t.dilation[2], t.k[4], t.stride[2])>>
CellOf(o, shape, t) ==
  LET c == to_coordinate(o, shape)
  IN  <<c[1], c[4] * t.stride[1] - t.top + c[2] * t.dilation[1],
              c[5] * t.stride[2] - t.left + c[3] * t.dilation[2]>>

im2col_cpu(im, image, t) ==
  LET shape == ColumnShape(image, t)
  IN  [o \in Loop(Product(shape)) |->
         LET cell == CellOf(o, shape, t)
         IN  IF Inside(cell, image) THEN im[to_index(cell, image)] ELSE t.value]

\* The image is zero at first; every element is added where it stands.
col2im_cpu(col, image, t) ==
  LET shape == ColumnShape(image, t)
      puts == {<<o, CellOf(o, shape, t)>> : o \in Loop(Product(shape))}
  IN  [i \in Loop(Product(image)) |->
         Total(col, {p[1] : p \in {q \in puts : q[2] = to_coordinate(i, image)}})]

is_1x1_conv(t) ==
  /\ t.stride = <<1, 1>> /\ t.k[3] = 1 /\ t.k[4] = 1
  /\ t.top = 0 /\ t.bottom = 0 /\ t.left = 0 /\ t.right = 0

\* The product of the weights and the columns; the weights may have been packed before.
cpu_conv2d_nchw(t) ==
  IF ~ t.float THEN <<>>
  ELSE OfEach(t, [n \in 1 .. t.s[1] |->
         LET col == IF is_1x1_conv(t) THEN Image(t, n)
                    ELSE Stored(im2col_cpu(Image(t, n), Tail(t.s), t))
         IN  gemm(t.k[1], t.out[3] * t.out[4], Product(Tail(t.k)), t.w, ~ t.packed, col, TRUE)])

\* The columns are the product of the transposed weights and the image.  In float; for
\* other types nobody writes them.
cpu_transpose_conv2d_nchw(t) ==
  LET dims == Product(Tail(t.k))
      weights == [o \in Loop(dims * t.k[1]) |-> t.w[(o % t.k[1]) * dims + (o \div t.k[1])]]
  IN  OfEach(t, [n \in 1 .. t.s[1] |->
        LET col == Merged(gemm(dims, t.s[3] * t.s[4], t.k[1], weights, TRUE, Image(t, n), TRUE))
        IN  Whole(IF is_1x1_conv(t) THEN col ELSE col2im_cpu(col, Tail(t.out), t))])

-------------------------------------------------------------------------------
(* Depthwise: every channel has weights of its own *)

\* What the weights make of the window over channel c of number n at <<h, w>>
depthwise_general(t, n, c, h, w) ==
  SumOf([o \in 1 .. t.k[3] * t.k[4] |->
     LET cell == <<n, c, h * t.stride[1] - t.top + ((o - 1) \div t.k[4]) * t.dilation[1],
                         w * t.stride[2] - t.left + ((o - 1) % t.k[4]) * t.dilation[2]>>
     IN  t.w[c * t.k[3] * t.k[4] + o - 1]
           * (IF Inside(cell, t.s) THEN t.x[to_index(cell, t.s)] ELSE t.value)])

\* Of three rows and columns, and without dilation
depthwise_inner(t, n, c, h, w) == depthwise_general([t EXCEPT !.dilation = <<1, 1>>], n, c, h, w)

\* In the lanes nobody looks whether a cell is inside.
Lane(t, n, c, h, w) ==
  SumOf([o \in 1 .. 9 |->
     t.w[c * 9 + o - 1]
       * t.x[((n * t.s[2] + c) * t.s[3] + h * t.stride[1] - t.top + ((o - 1) \div 3)) * t.s[4]
             + w * t.stride[2] - t.left + ((o - 1) % 3)]])

\* What a loop from first on visits that takes size at a time while they are below end
InBlocks(first, end, size) ==
  {i \in first .. end - 1 : ((i - first) \div size + 1) * size <= end - first}

\* The places at which no window reaches into the padding, less what the blocks of rows
\* and of four columns leave over
LanesOf(t, rows) ==
  LET Reaches(padding, stride) == (padding + stride - 1) \div stride
  IN  InBlocks(Reaches(t.top, t.stride[1]), t.out[3] - Reaches(t.bottom, t.stride[1]), rows)
      \X InBlocks(Reaches(t.left, t.stride[2]), t.out[4] - Reaches(t.right, t.stride[2]), 4)

\* Numbers one after the other, the channels of one in parallel
ByLanes(t, lanes) ==
  [n \in 1 .. t.s[1] |-> [c \in 1 .. t.out[2] |->
     [o \in {((n - 1) * t.out[2] + c - 1) * t.out[3] * t.out[4] + i : i \in Loop(t.out[3] * t.out[4])} |->
        LET h == (o \div t.out[4]) % t.out[3]
            w == o % t.out[4]
        IN  IF <<h, w>> \in lanes THEN Lane(t, n - 1, c - 1, h, w)
            ELSE depthwise_inner(t, n - 1, c - 1, h, w)]]]
depthwise_3x3_s1(t) == ByLanes(t, LanesOf(t, 2))
depthwise_3x3_s2(t) == ByLanes(t, LanesOf(t, 1))

cpu_depthwise_conv2d_nchw(t) ==
  LET special == t.float /\ t.k[3] = 3 /\ t.k[4] = 3 /\ t.dilation = <<1, 1>>
  IN  IF special /\ t.stride = <<1, 1>> THEN depthwise_3x3_s1(t)
      ELSE IF special /\ t.stride = <<2, 2>> THEN depthwise_3x3_s2(t)
      ELSE Whole([o \in Loop(Product(t.out)) |->
             LET c == to_coordinate(o, t.out) IN depthwise_general(t, c[1], c[2], c[3], c[4])])

-------------------------------------------------------------------------------
(* Pooling: t.type is "max" or "avg"; in white padding the mean counts all cells *)

\* The cells of the image below the window at a coordinate of the output
Below(t, c) ==
  LET Cells(first, size, of) == Largest(first, 0) .. Smallest(first + size, of) - 1
  IN  Cells(c[3] * t.stride[1] - t.top, t.k[3], t.s[3])
      \X Cells(c[4] * t.stride[2] - t.left, t.k[4], t.s[4])
ValuesBelow(t, c) == [b \in Below(t, c) |-> t.x[to_index(<<c[1], c[2], b[1], b[2]>>, t.s)]]

cpu_max_pooling(t, c) == LET v == ValuesBelow(t, c) IN Max({v[b] : b \in DOMAIN v})
cpu_average_pooling(t, c) ==
  LET v == ValuesBelow(t, c)
  IN  IF DOMAIN v = {} THEN <<0, 1>> ELSE <<Total(v, DOMAIN v), Cardinality(DOMAIN v)>>
cpu_average_pooling_white(t, c) ==
  LET v == ValuesBelow(t, c) IN <<Total(v, DOMAIN v), t.k[3] * t.k[4]>>
Pooled(t, c) ==
  IF t.type = "max" THEN cpu_max_pooling(t, c)
  ELSE IF t.white THEN cpu_average_pooling_white(t, c)
  ELSE cpu_average_pooling(t, c)

\* Windows of kernel rows, or columns, two apart: what reaches over the end of size is
\* lost to the last of them, what is before the image to the first.  Between them are
\* blocks of four and the rest.
Lost(size, before, n, kernel) == Largest(2 * n + kernel - 2 - size, 0) - before
Between(n, before, lost) ==
  LET last == IF lost > 0 THEN n - 1 ELSE n IN {before + i : i \in Simd(last - before)}
Band(o, n, before, lost, kernel) ==
  CASE o = 0 /\ before = 1 -> 0 .. kernel - 2
    [] o = n - 1 /\ lost > 0 /\ ~ (o = 0 /\ before = 1) -> 2 * o - before .. 2 * o - before + kernel - 1 - lost
    [] OTHER -> 2 * o - before .. 2 * o - before + kernel - 1

max_pooling_s2(t, kernel) ==
  LET bottom == Lost(t.s[3], t.top, t.out[3], kernel)
      right == Lost(t.s[4], t.left, t.out[4], kernel)
      columns == Between(t.out[4], t.left, right)
                 \union (IF t.left = 1 THEN {0} ELSE {})
                 \union (IF right > 0 THEN {t.out[4] - 1} ELSE {})
  IN  Whole([o \in {to_index(<<n, c, h, w>>, t.out) :
                      n \in Loop(t.s[1]), c \in Loop(t.s[2]), h \in Loop(t.out[3]), w \in columns} |->
         LET c == to_coordinate(o, t.out)
         IN  Max({t.x[to_index(<<c[1], c[2], i, j>>, t.s)] :
                    i \in Band(c[3], t.out[3], t.top, bottom, kernel),
                    j \in Band(c[4], t.out[4], t.left, right, kernel)})])
\* For float alone; for other types they are empty.
max_pooling_k3s2(t) == IF t.float THEN max_pooling_s2(t, 3) ELSE <<>>
max_pooling_k2s2(t) == IF t.float THEN max_pooling_s2(t, 2) ELSE <<>>

get_pooling_kernel(t) ==
  LET plain == t.type # "max" \/ t.stride # <<2, 2>>
               \/ {t.top, t.bottom, t.left, t.right} \ {0, 1} # {}
  IN  IF ~ plain /\ t.k[3] = 3 /\ t.k[4] = 3 THEN "k3s2"
      ELSE IF ~ plain /\ t.k[3] = 2 /\ t.k[4] = 2 THEN "k2s2" ELSE "none"
cpu_pooling2d(t) ==
  CASE get_pooling_kernel(t) = "k3s2" -> max_pooling_k3s2(t)
    [] get_pooling_kernel(t) = "k2s2" -> max_pooling_k2s2(t)
    [] OTHER -> Whole([o \in Loop(Product(t.out)) |-> Pooled(t, to_coordinate(o, t.out))])

-------------------------------------------------------------------------------
(* Winograd: tiles of the output from tiles of the input, two cells wider.  t.mode is the
   tile; w, or what packed weights come from, has three rows and columns. *)

Dot(a, b) == SumOf([j \in DOMAIN a |-> a[j] * b[j]])
\* m . x . transposed m, for a square x
Sandwich(m, x) ==
  LET rows == [r \in DOMAIN x |-> [i \in DOMAIN m |-> Dot(m[i], x[r])]]
  IN  [i \in DOMAIN m |-> [j \in DOMAIN m |-> Dot(m[i], [r \in DOMAIN x |-> rows[r][j]])]]

\* Without fractions: f23 has 2 times G, f63 180 times G and 4 times BT, so the output is
\* scale times as great.
Winograd ==
  [f23 |->
     [tile |-> 2, scale |-> 4,
      G |-> << <<2, 0, 0>>, <<1, 1, 1>>, <<1, -1, 1>>, <<0, 0, 2>> >>,
      BT |-> << <<1, 0, -1, 0>>, <<0, 1, 1, 0>>, <<0, -1, 1, 0>>, <<0, 1, 0, -1>> >>,
      AT |-> << <<1, 1, 1, 0>>, <<0, 1, -1, -1>> >>],
   f63 |->
     [tile |-> 6, scale |-> 180 * 180 * 4 * 4,
      G |-> << <<180, 0, 0>>, <<-40, -40, -40>>, <<-40, 40, -40>>, <<2, 4, 8>>, <<2, -4, 8>>,
               <<4, 2, 1>>, <<4, -2, 1>>, <<0, 0, 180>> >>,
      BT |-> << <<4, 0, -21, 0, 21, 0, -4, 0>>, <<0, 4, 4, -17, -17, 4, 4, 0>>,
                <<0, -4, 4, 17, -17, -4, 4, 0>>, <<0, 2, 1, -10, -5, 8, 4, 0>>,
                <<0, -2, 1, 10, -5, -8, 4, 0>>, <<0, 8, 16, -10, -20, 2, 4, 0>>,
                <<0, -8, 16, 10, -20, -2, 4, 0>>, <<0, -4, 0, 21, 0, -21, 0, 4>> >>,
      AT |-> << <<1, 1, 1, 1, 1, 32, 32, 0>>, <<0, 1, -1, 2, -2, 16, -16, 0>>,
                <<0, 1, 1, 4, 4, 8, 8, 0>>, <<0, 1, -1, 8, -8, 4, -4, 0>>,
                <<0, 1, 1, 16, 16, 2, 2, 0>>, <<0, 1, -1, 32, -32, 1, -1, 1>> >>]]

\* For every element of a tile the matrix of the weights' elements, packed
winograd_transform_and_pack_kernel(t, g) ==
  LET channels == t.k[2]
      kernel == [m \in Loop(t.k[1] * channels) |->
                   Sandwich(g, [i \in 1 .. 3 |-> [j \in 1 .. 3 |-> t.w[m * 9 + (i - 1) * 3 + j - 1]]])]
      from == kernel @@ <<>>
  IN  [e \in Loop(Len(g) * Len(g)) |->
         pack8_A(t.k[1], channels,
                 [m \in DOMAIN from |-> from[m][(e \div Len(g)) + 1][(e % Len(g)) + 1]], channels)]
winograd_f23_transform_and_pack_kernel(t) == winograd_transform_and_pack_kernel(t, Winograd["f23"].G)
winograd_f63_transform_and_pack_kernel(t) == winograd_transform_and_pack_kernel(t, Winograd["f63"].G)
transform_kernel(t) ==
  IF t.mode = "f63" THEN winograd_f63_transform_and_pack_kernel(t)
  ELSE winograd_f23_transform_and_pack_kernel(t)

round_up(n, to) == ((n + to - 1) \div to) * to

\* The output becomes whole tiles, and the input what they need.
in_out_pad_and_fix_size(t, tile) ==
  LET height == round_up(t.out[3], tile)
      width == round_up(t.out[4], tile)
  IN  [in |-> <<t.s[1], t.s[2], Largest(t.s[3] + t.top + t.bottom, height + 2),
                Largest(t.s[4] + t.left + t.right, width + 2)>>,
       out |-> <<t.s[1], t.out[2], height, width>>]
pad2d(t, shape) ==
  [o \in Loop(Product(shape)) |->
     LET c == to_coordinate(o, shape)
         cell == <<c[1], c[2], c[3] - t.top, c[4] - t.left>>
     IN  IF Inside(cell, t.s) THEN t.x[to_index(cell, t.s)] ELSE t.value]

\* Memory x of the channels of shape s, as regions over the numbers and channels of out
cut2d(x, s, out) ==
  LET plane == out[3] * out[4]
  IN  [n \in 1 .. out[1] |-> [c \in 1 .. out[2] |->
         LET first == ((n - 1) * out[2] + c - 1) * plane
         IN  [o \in first .. first + plane - 1 |-> x[to_index(to_coordinate(o, out), s)]]]]

\* The tile of number n and channel c that begins at row h and column w
Tile8(x, s, n, c, h, w, size) ==
  [i \in 1 .. size |-> [j \in 1 .. size |-> x[to_index(<<n, c, h + i - 1, w + j - 1>>, s)]]]

\* For every element of a tile the matrix of channels and tiles
winograd_transform_and_pack_input(x, s, n, mode) ==
  LET tile == Winograd[mode].tile
      across == CeilQuot(s[4] - 2, tile)
      tiles == CeilQuot(s[3] - 2, tile) * across
      size == tile + 2
      v == [m \in Loop(s[2] * tiles) |->
              Sandwich(Winograd[mode].BT,
                       Tile8(x, s, n, m \div tiles, (((m % tiles) \div across)) * tile,
                             ((m % tiles) % across) * tile, size))]
      from == v @@ <<>>
  IN  [e \in Loop(size * size) |->
         [m \in DOMAIN from |-> from[m][(e \div size) + 1][(e % size) + 1]]]
winograd_f23_transform_and_pack_input(x, s, n) == winograd_transform_and_pack_input(x, s, n, "f23")
winograd_f63_transform_and_pack_input(x, s, n) == winograd_transform_and_pack_input(x, s, n, "f63")

\* The channels of one number in parallel
winograd_transform_output(product, s, n, mode) ==
  LET wino == Winograd[mode]
      size == wino.tile + 2
      across == s[4] \div wino.tile
      tiles == (s[3] \div wino.tile) * across
      plane == s[3] * s[4]
  IN  [c \in 1 .. s[2] |->
         LET y == [b \in Loop(tiles) |->
                     Sandwich(wino.AT,
                       [i \in 1 .. size |-> [j \in 1 .. size |->
                          product[(i - 1) * size + j - 1][(c - 1) * tiles + b]]])]
             of == y @@ <<>>
             first == (n * s[2] + c - 1) * plane
         IN  [o \in first .. first + plane - 1 |->
                LET h == (o - first) \div s[4]
                    w == (o - first) % s[4]
                IN  of[(h \div wino.tile) * across + (w \div wino.tile)]
                      [(h % wino.tile) + 1][(w % wino.tile) + 1] \div wino.scale]]
winograd_f23_transform_output(product, s, n) == winograd_transform_output(product, s, n, "f23")
winograd_f63_transform_output(product, s, n) == winograd_transform_output(product, s, n, "f63")

\* weights: those of this run transformed, or what is left of an earlier run's
winograd_tiles(t, mode, weights, Input(_, _, _), Output(_, _, _)) ==
  LET size == in_out_pad_and_fix_size(t, Winograd[mode].tile)
      x == Stored(pad2d(t, size.in))
      tiles == (size.out[3] \div Winograd[mode].tile) * (size.out[4] \div Winograd[mode].tile)
      kernel == Stored(weights)
      Product2(n) ==
        LET input == Input(x, size.in, n)
        IN  [e \in DOMAIN kernel |->
               Merged(gemm(t.k[1], tiles, t.k[2], kernel[e], FALSE, input[e], TRUE))] @@ <<>>
      regions == [n \in 1 .. t.s[1] |-> Output(Product2(n - 1), size.out, n - 1)]
  IN  IF size.out = t.out THEN regions ELSE cut2d(Merged(regions), size.out, t.out)
winograd_f23(t) ==
  winograd_tiles(t, "f23", IF t.packed THEN t.w ELSE winograd_f23_transform_and_pack_kernel(t),
                 winograd_f23_transform_and_pack_input, winograd_f23_transform_output)
winograd_f63(t) ==
  winograd_tiles(t, "f63", IF t.packed THEN t.w ELSE winograd_f63_transform_and_pack_kernel(t),
                 winograd_f63_transform_and_pack_input, winograd_f63_transform_output)
conv2d_winograd(t) == IF t.mode = "f63" THEN winograd_f63(t) ELSE winograd_f23(t)

winograd_mode_select_on_arm(s, channels) ==
  IF s[2] * channels >= 256 * 256 /\ s[3] > 16 /\ s[4] > 16 THEN "f63" ELSE "f23"

\* t.kept is what the operator kept of its first run: the tile and the weights of then.
KeptOf(t) == [mode |-> t.mode, w |-> transform_kernel(t)]
WithKept(t, kept) == conv2d_winograd([t EXCEPT !.mode = kept.mode, !.w = kept.w, !.packed = TRUE])
Conv2DWinograd(t) ==
  WithKept(t, IF t.kept # <<>> THEN t.kept
              ELSE KeptOf([t EXCEPT !.mode = winograd_mode_select_on_arm(t.s, t.k[1])]))

-------------------------------------------------------------------------------
(* The GPU *)

\* The library multiplies matrices whose columns lie one after the other.
cublasSgemm(transA, transB, m, n, k, alpha, a, lda, b, ldb, beta, c, ldc) ==
  LET A(i, l) == IF transA THEN a[l + i * lda] ELSE a[i + l * lda]
      B(l, j) == IF transB THEN b[j + l * ldb] ELSE b[l + j * ldb]
  IN  [o \in {i + j * ldc : i \in Loop(m), j \in Loop(n)} |->
         alpha * SumOf([l \in 1 .. k |-> A(o % ldc, l - 1) * B(l - 1, o \div ldc)])
         + (IF beta = 0 THEN 0 ELSE beta * c[o])]

\* Rows that lie one after the other are columns of the transposed matrix: the product is
\* that of b and a.
cublas_gemm(transA, transB, m, n, k, alpha, a, b, beta, c) ==
  LET lda == IF transA THEN m ELSE k
      ldb == IF transB THEN k ELSE n
  IN  cublasSgemm(transB, transA, n, m, k, alpha, b, ldb, a, lda, beta, c, n)

gpu_inner_prod(t) == Whole(cublas_gemm(FALSE, t.transpose, t.m, t.n, t.k, 1, t.a, t.b, 0, <<>>))

\* c is broadcast into the output first, if beta is not zero.
gpu_gemm_broadcast(t) ==
  [i \in Grid(t.m * t.n) |-> t.c[to_mod_index(t.cs, GpuCoordinate(i, <<t.m, t.n>>))]]
gpu_gemm(t) ==
  LET c == IF t.cs = <<t.m, t.n>> THEN t.c ELSE gpu_gemm_broadcast(t)
  IN  (IF t.beta = 0 THEN <<>> ELSE Whole(c))
      \o Whole(cublas_gemm(t.transA, t.transB, t.m, t.n, t.k, t.alpha, t.a, t.b, t.beta, c))

\* A thread for every column and channel, which fills that channel's cells
gpu_im2col_kernel(im, image, t) ==
  LET shape == ColumnShape(image, t)
      plane == shape[4] * shape[5]
      cells == shape[2] * shape[3]
      at == {((i \div plane) * cells + k) * plane + (i % plane) :
               i \in Grid(image[1] * plane), k \in Loop(cells)}
  IN  [o \in at |->
         LET cell == CellOf(o, shape, t)
         IN  IF Inside(cell, image) THEN im[to_index(cell, image)] ELSE t.value]

gpu_conv2d_nchw(t) ==
  OfEach(t, [n \in 1 .. t.s[1] |->
    LET col == IF is_1x1_conv(t) THEN Image(t, n)
               ELSE Stored(gpu_im2col_kernel(Image(t, n), Tail(t.s), t))
    IN  Whole(cublas_gemm(FALSE, FALSE, t.k[1], t.out[3] * t.out[4], Product(Tail(t.k)), 1, t.w, col, 0, <<>>))])

\* A thread for every cell of the image finds the columns that have it.
gpu_col2im_kernel(col, image, t) ==
  LET shape == ColumnShape(image, t)
      Windows(at, kernel, stride, dilation, n) ==
        LET extent == (kernel - 1) * dilation + 1
            first == IF at < extent THEN 0 ELSE (at - extent) \div stride + 1
        IN  {p \in first .. Smallest(at \div stride + 1, n) - 1 : (at - p * stride) % dilation = 0}
  IN  [i \in Grid(Product(image)) |->
         LET c == to_coordinate(i, image)
             h == c[2] + t.top
             w == c[3] + t.left
         IN  Total(col, {to_index(<<c[1], (h - p * t.stride[1]) \div t.dilation[1],
                                    (w - q * t.stride[2]) \div t.dilation[2], p, q>>, shape) :
                           p \in Windows(h, t.k[3], t.stride[1], t.dilation[1], shape[4]),
                           q \in Windows(w, t.k[4], t.stride[2], t.dilation[2], shape[5])})]

\* Of a window of one cell as many elements are copied as the output has dimensions.
gpu_transpose_conv2d_nchw(t) ==
  LET dims == Product(Tail(t.k))
  IN  OfEach(t, [n \in 1 .. t.s[1] |->
        LET col == Stored(cublas_gemm(TRUE, FALSE, dims, t.s[3] * t.s[4], t.k[1], 1, t.w, Image(t, n), 0, <<>>))
        IN  Whole(IF is_1x1_conv(t) THEN [i \in Loop(Smallest(Len(t.out), Cardinality(DOMAIN col))) |-> col[i]]
                  ELSE gpu_col2im_kernel(col, Tail(t.out), t))])

\* The padding counts as zero, whatever its value.
gpu_depthwise_conv2d_nchw(t) ==
  Whole([o \in Grid(Product(t.out)) |->
     LET c == to_coordinate(o, t.out) IN depthwise_general([t EXCEPT !.value = 0], c[1], c[2], c[3], c[4])])

\* Values are compared with that of the first cell below the window.
gpu_max_pooling(t) ==
  Whole([o \in Grid(Product(t.out)) |->
     LET v == ValuesBelow(t, to_coordinate(o, t.out)) IN Max({v[b] : b \in DOMAIN v})])
gpu_average_pooling(t) ==
  Whole([o \in Grid(Product(t.out)) |-> cpu_average_pooling(t, to_coordinate(o, t.out))])
gpu_average_pooling_white(t) ==
  Whole([o \in Grid(Product(t.out)) |-> cpu_average_pooling_white(t, to_coordinate(o, t.out))])
gpu_pooling2d(t) ==
  IF t.type = "max" THEN gpu_max_pooling(t)
  ELSE IF t.white THEN gpu_average_pooling_white(t) ELSE gpu_average_pooling(t)

-------------------------------------------------------------------------------
(* Operators that get padding, size or stride with every run, and set the operator below
   anew if they differ from those of the run before: t.given and t.before *)

is_int_equal(l, r) == DOMAIN l = DOMAIN r /\ \A i \in DOMAIN l : l[i] = r[i]
\* Mistake: what has the same shape counts as equal.
RenewedByShape(t) == IF DOMAIN t.given = DOMAIN t.before THEN t.before @@ t ELSE t.given @@ t
Renewed(t) == IF is_int_equal(t.given, t.before) THEN t.before @@ t ELSE t.given @@ t

Conv2DV2(t) == cpu_conv2d_nchw(Renewed(t))
DepthwiseConv2DV2(t) == cpu_depthwise_conv2d_nchw(Renewed(t))
Conv2DWinogradV2(t) == Conv2DWinograd(Renewed(t))
Pooling2DV2(t) == cpu_pooling2d(Renewed(t))
===============================================================================
