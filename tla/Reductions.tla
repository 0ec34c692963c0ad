------------------------------ MODULE Reductions ------------------------------
(***************************************************************************)
(* Kernels that combine elements: along a dimension, over an image, or in  *)
(* a product of matrices.  Exact where the code rounds: a quotient is the  *)
(* pair of its parts, and a share of a sum of exponentials is the tuple of *)
(* the exponents, less its own.                                            *)
(*                                                                         *)
(* A task t has x, the memory of the input, s, its shape, and dim.         *)
(***************************************************************************)
EXTENDS Elementwise

\* The elements of row <<n, w>> along the dimension, in order
Along(t, n, w) ==
  [k \in 1 .. Width(t.s, t.dim) |->
     t.x[(n * Width(t.s, t.dim) + k - 1) * After(t.s, t.dim) + w]]

\* What a loop over row <<n, w>> writes back, value(k) at place k from 1
Back(t, n, w, value(_)) ==
  [i \in {(n * Width(t.s, t.dim) + k) * After(t.s, t.dim) + w : k \in Loop(Width(t.s, t.dim))} |->
     value(PlaceIn(i, t.s, t.dim) + 1)]

SumOf(seq) == FoldLeft(LAMBDA a, b : a + b, 0, seq)
Tallest(seq) == FoldLeft(Largest, seq[1], seq)
Share(seq, k) == [j \in DOMAIN seq |-> seq[j] - seq[k]]
Squares(seq) == [k \in DOMAIN seq |-> seq[k] * seq[k]]
Shifted(seq, by) == [k \in DOMAIN seq |-> seq[k] - by]

\* Along a dimension of one element memset writes 1, the share of one exponential.
cpu_softmax(t) ==
  IF Width(t.s, t.dim) = 1 THEN Whole([i \in Loop(Product(t.s)) |-> <<0>>])
  ELSE [n \in 1 .. Before(t.s, t.dim) |->
          [w \in 1 .. After(t.s, t.dim) |->
             Back(t, n - 1, w - 1, LAMBDA k : Share(Along(t, n - 1, w - 1), k))]]
cpu_smooth_softmax(t) ==
  IF Width(t.s, t.dim) = 1 THEN Whole([i \in Loop(Product(t.s)) |-> <<0>>])
  ELSE [n \in 1 .. Before(t.s, t.dim) |->
          [w \in 1 .. After(t.s, t.dim) |->
             LET row == Along(t, n - 1, w - 1)
             IN  Back(t, n - 1, w - 1, LAMBDA k : Share(Shifted(row, Tallest(row)), k))]]
Softmax(t) == IF t.smooth THEN cpu_smooth_softmax(t) ELSE cpu_softmax(t)

cpu_l2_norm(t) ==
  IF Width(t.s, t.dim) = 1 THEN Whole([i \in Loop(Product(t.s)) |-> <<1>>])
  ELSE InOrder([r \in 1 .. Before(t.s, t.dim) * After(t.s, t.dim) |->
         LET n == (r - 1) \div After(t.s, t.dim)
             w == (r - 1) % After(t.s, t.dim)
             row == Along(t, n, w)
         IN  Back(t, n, w, LAMBDA k : <<row[k], SumOf(Squares(row))>>)])

\* The output is zero at first; every channel is added in turn.
AddChannels(t) ==
  LET width == After(t.s, t.dim)
      channels == Width(t.s, t.dim)
      sum[c \in 0 .. channels] ==
        IF c = 0 THEN [o \in Loop(Before(t.s, t.dim) * width) |-> 0]
        ELSE LET before == sum[c - 1]
             IN  [o \in DOMAIN before |->
                    before[o] + t.x[((o \div width) * channels + c - 1) * width + (o % width)]]
  IN  sum[channels]
ReduceSum(t) == Whole(AddChannels(t))

\* Over the dimensions t.dim to t.last as if they were one
Joined(t) ==
  [t EXCEPT !.s = SubSeq(t.s, 1, t.dim) \o <<Product(SubSeq(t.s, t.dim + 1, t.last + 1))>>
                    \o SubSeq(t.s, t.last + 2, Len(t.s))]
ReduceMean(t) ==
  LET joined == Joined(t)
      sum == AddChannels(joined)
  IN  Whole([o \in DOMAIN sum |-> <<sum[o], Width(joined.s, joined.dim)>>])

OfRows(t, value(_)) ==
  [o \in Loop(Before(t.s, t.dim) * After(t.s, t.dim)) |->
     value(Along(t, o \div After(t.s, t.dim), o % After(t.s, t.dim)))]

\* The first of the greatest, from 0: only a greater one replaces it.
First(seq) ==
  FoldLeft(LAMBDA best, k : IF seq[k] > seq[best] THEN k ELSE best, 1, [k \in DOMAIN seq |-> k]) - 1

cpu_max(t) == Whole(OfRows(t, Tallest))

\* argmax runs for the type of its output, int32: it reads floats as integers, in which
\* the sign is the highest bit and the rest grows away from zero.
IntBits(v) == IF v < 0 THEN ((-v) - 1) - 2147483647 ELSE v
AsInt32(t) == IF t.float THEN [t EXCEPT !.x = [i \in DOMAIN t.x |-> IntBits(t.x[i])]] ELSE t
cpu_argmax(t) == Whole(OfRows(AsInt32(t), First))

-------------------------------------------------------------------------------
(* The same on the GPU, where a launch begins when the one before is over *)

Threads(n, value(_)) == [i \in Grid(n) |-> value(i)]

\* For every row what a thread of max_kernel or sum_kernel finds
OfRow(t, value(_)) ==
  Threads(Before(t.s, t.dim) * After(t.s, t.dim),
          LAMBDA i : value(Along(t, i \div After(t.s, t.dim), i % After(t.s, t.dim))))

\* The row of an element, as substract_kernel and div_kernel compute it
RowOf(i, t) ==
  ((i \div Width(t.s, t.dim)) \div After(t.s, t.dim)) * After(t.s, t.dim) + (i % After(t.s, t.dim))

SoftmaxGpu(t) ==
  LET scale == OfRow(t, Tallest)
      out == IF t.smooth THEN [i \in Grid(Product(t.s)) |-> t.x[i] - scale[RowOf(i, t)]] ELSE t.x
      sum == OfRow([t EXCEPT !.x = out], LAMBDA row : row)
  IN  Whole([i \in Grid(Product(t.s)) |->
               [j \in DOMAIN sum[RowOf(i, t)] |-> sum[RowOf(i, t)][j] - out[i]]])

L2NormGpu(t) ==
  LET square == [i \in Grid(Product(t.s)) |-> t.x[i] * t.x[i]]
      scale == OfRow([t EXCEPT !.x = square], SumOf)
  IN  Whole([i \in Grid(Product(t.s)) |-> <<t.x[i], scale[RowOf(i, t)]>>])

ReduceSumGpu(t) == Whole(OfRow(t, SumOf))
ReduceMeanGpu(t) ==
  LET joined == Joined(t)
      sum == OfRow(joined, SumOf)
  IN  Whole([o \in DOMAIN sum |-> <<sum[o], Width(joined.s, joined.dim)>>])

\* A thread for every number, which does all its rows
OfNumbers(t, value(_)) ==
  LET after == After(t.s, t.dim)
      at == {index * after + k : index \in Grid(Before(t.s, t.dim)), k \in Loop(after)}
  IN  [o \in at |-> value(Along(t, o \div after, o % after))]
MaxGpu(t) == Whole(OfNumbers(t, Tallest))
ArgMaxGpu(t) == Whole(OfNumbers(AsInt32(t), First))

-------------------------------------------------------------------------------
(* topkv2: the k greatest of every row, as pairs of value and index *)

Entries(t, n) == [j \in Loop(Last(t.s)) |-> <<t.x[n * Last(t.s) + j], j>>]
ToRow(n, k, entries) == [o \in n * k .. n * k + k - 1 |-> entries[o - n * k]]

\* partial_sort, whatever sorted says.  Of equal ones any may be first.
cpu_topkv2_sorted(t) ==
  InOrder([n \in 1 .. Product(Front(t.s)) |->
             LET all == Range(Entries(t, n - 1))
                 sorted == SetToSortSeq(all, LAMBDA a, b : a[1] > b[1])
             IN  ToRow(n - 1, t.k, [j \in Loop(t.k) |-> sorted[j + 1]])])

Swapped(arr, i, j) == [arr EXCEPT ![i] = arr[j], ![j] = arr[i]]

RECURSIVE adjust_node(_, _, _)
adjust_node(arr, n, len) ==
  LET l == 2 * n + 1
      r == 2 * n + 2
      left == IF l < len /\ arr[l][1] > arr[n][1] THEN l ELSE n
      max == IF r < len /\ arr[r][1] > arr[left][1] THEN r ELSE left
  IN  IF max = n THEN arr ELSE adjust_node(Swapped(arr, n, max), max, len)

\* Nodes i to 0 become heaps; then the greatest of those up to i goes to i.
RECURSIVE Heaped(_, _, _), Drained(_, _)
Heaped(arr, i, len) ==
  IF i < 0 THEN arr
  ELSE LET next == adjust_node(arr, i, len) IN Heaped(next, i - 1, len)
Drained(arr, i) ==
  IF i < 0 THEN arr
  ELSE LET next == adjust_node(Swapped(arr, 0, i), 0, i) IN Drained(next, i - 1)
sort_heap(arr, len) == LET heap == Heaped(arr, len \div 2, len) IN Drained(heap, len - 1)

\* The least of those kept is the first; one that is not less takes its place.
RECURSIVE Kept(_, _, _, _)
Kept(arr, all, i, k) ==
  IF i \notin DOMAIN all THEN arr
  ELSE IF all[i][1] < arr[0][1] THEN Kept(arr, all, i + 1, k)
  ELSE LET next == sort_heap([arr EXCEPT ![0] = all[i]], k) IN Kept(next, all, i + 1, k)
gpu_topkv2_kernel(t) ==
  Parallel([n \in 1 .. Product(Front(t.s)) |->
              LET all == Entries(t, n - 1)
                  some == sort_heap([j \in Loop(t.k) |-> all[j]], t.k)
              IN  ToRow(n - 1, t.k, Kept(some, all, t.k, t.k))])

-------------------------------------------------------------------------------
(* norm_image and prewhiten: an image less its mean, over its deviation.  Exact: with
   count elements, <<count * (x - mean), the sum of the squares of that, what the
   deviation is corrected by>>. *)

Normalized(t, op, n, sum, count) ==
  LET x == [i \in Loop(count) |-> count * t.x[n * count + i] - sum]
      squares == [i \in Loop(count) |-> x[i] * x[i]]
      total == Total(squares, Loop(count))
  IN  [i \in n * count .. n * count + count - 1 |->
         <<x[i - n * count], IF op = "prewhiten" THEN Largest(total, count * count) ELSE total, op>>]

OfImages(t, op) ==
  LET count == Product(Tail(t.s))
  IN  InOrder([n \in 1 .. t.s[1] |->
         Normalized(t, op, n - 1,
                    Total([i \in Loop(count) |-> t.x[(n - 1) * count + i]], Loop(count)), count)])
cpu_norm_image(t) == OfImages(t, "norm_image")
cpu_pre_whiten(t) == OfImages(t, "prewhiten")

-------------------------------------------------------------------------------
(* Products of matrices in row-major order: a is m by k, b is k by n *)

inline_dot(n, x, ox, incx, y, oy, incy) ==
  Total([i \in Simd(n) |-> x[ox + i * incx] * y[oy + i * incy]], Simd(n))

\* Every row of c is a step of a parallel loop; c is scaled by beta before.
inline_gemm_row_major(transA, transB, m, n, k, alpha, a, b, beta, c) ==
  LET A(i) == IF transA THEN <<i, m>> ELSE <<i * k, 1>>
      B(j) == IF transB THEN <<j * k, 1>> ELSE <<j, n>>
      scaled == [o \in Loop(m * n) |-> IF beta = 0 THEN 0 ELSE c[o] * beta]
  IN  Whole(scaled)
      \o (IF alpha = 0 THEN <<>>
          ELSE Parallel([i \in 1 .. m |->
                 [o \in (i - 1) * n .. i * n - 1 |->
                    scaled[o] + alpha * inline_dot(k, a, A(i - 1)[1], A(i - 1)[2],
                                                   b, B(o % n)[1], B(o % n)[2])]]))

\* Gemm: c is broadcast into the output first, if beta is not zero.
cpu_gemm(t) ==
  LET broadcast == [i \in Loop(t.m * t.n) |-> t.c[to_mod_index(t.cs, to_coordinate(i, <<t.m, t.n>>))]]
  IN  (IF t.beta = 0 THEN <<>> ELSE Whole(broadcast))
      \o inline_gemm_row_major(t.transA, t.transB, t.m, t.n, t.k, t.alpha, t.a, t.b, t.beta, broadcast)

\* Eight rows, or columns, at a time side by side; the others one after the other
pack8_A(row, col, from, lda) ==
  [o \in Loop(row * col) |->
     LET n == (o \div (8 * col)) * 8
     IN  IF n < (row \div 8) * 8 THEN from[(n + (o % 8)) * lda + ((o - n * col) \div 8)]
         ELSE from[(o \div col) * lda + (o % col)]]
pack8_B(row, col, from, ldb) ==
  [o \in Loop(row * col) |->
     LET n == (o \div (8 * row)) * 8
     IN  IF n < (col \div 8) * 8 THEN from[n + (o % 8) + ((o - n * row) \div 8) * ldb]
         ELSE from[(o \div row) + (o % row) * ldb]]

\* What the products of packed columns m and n come to, k apart by the two strides
Packed(k, a, oa, sa, b, ob, sb) == Total([i \in Simd(k) |-> a[oa + i * sa] * b[ob + i * sb]], Simd(k))

\* Rows m to m + 7
Tiles8x8(m, k, n, a, b) ==
  [o \in {(m + r) * n + j : r \in 0 .. 7, j \in Loop((n \div 8) * 8)} |->
     LET j == ((o % n) \div 8) * 8
     IN  Packed(k, a, m * k + (o \div n) - m, 8, b, j * k + (o % n) - j, 8)]
Columns8(m, k, n, a, b) ==
  [o \in {(m + r) * n + j : r \in 0 .. 7, j \in (n \div 8) * 8 .. n - 1} |->
     Packed(k, a, m * k + (o \div n) - m, 8, b, (o % n) * k, 1)]
\* Row m alone
Row1(m, k, n, a, b) ==
  [o \in m * n .. m * n + n - 1 |->
     LET j == ((o % n) \div 8) * 8
     IN  IF j < (n \div 8) * 8 THEN Packed(k, a, m * k, 1, b, j * k + (o % n) - j, 8)
         ELSE Packed(k, a, m * k, 1, b, (o % n) * k, 1)]

\* For float alone; for other types it is empty.
kernel_8x8(m, k, n, a, b) ==
  << [i \in 1 .. m \div 8 |->
        Tiles8x8((i - 1) * 8, k, n, a, b) @@ Columns8((i - 1) * 8, k, n, a, b)],
     [i \in 1 .. m % 8 |-> Row1((m \div 8) * 8 + i - 1, k, n, a, b)] >>

gemm(m, n, k, a, aNeedPack, b, bNeedPack) ==
  kernel_8x8(m, k, n, IF aNeedPack THEN pack8_A(m, k, a, k) ELSE a,
                      IF bNeedPack THEN pack8_B(k, n, b, n) ELSE b)

\* The weights may have been packed when the program was compiled.
cpu_inner_prod(t) ==
  LET b == IF t.transpose THEN [o \in Loop(t.k * t.n) |-> t.b[(o % t.n) * t.k + (o \div t.n)]] ELSE t.b
  IN  IF ~ t.float THEN <<>> ELSE gemm(t.m, t.n, t.k, t.a, TRUE, b, ~ t.packed)
===============================================================================
