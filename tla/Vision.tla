-------------------------------- MODULE Vision --------------------------------
(***************************************************************************)
(* Kernels that take an image at places between its cells, and that find   *)
(* boxes in it: resize2d, affine_sample2d and the operators above them,    *)
(* shape_index_patch, prior_box, yolo, yolo_poster and                     *)
(* non_max_suppression_v3.                                                 *)
(*                                                                         *)
(* A place along an axis is at / unit cells after the first cell: what the *)
(* code computes in double is exact here.  What is weighed has the units   *)
(* of its weights, its scale, if t.float; otherwise it is cut to uint8.    *)
(***************************************************************************)
EXTENDS Windows

Floored(p) == p.at \div p.unit
Truncated(p) == IF p.at < 0 THEN -((-p.at) \div p.unit) ELSE p.at \div p.unit
Rounded(p) ==  \* std::round: halves away from zero
  IF p.at < 0 THEN -((p.unit - 2 * p.at) \div (2 * p.unit)) ELSE (2 * p.at + p.unit) \div (2 * p.unit)
RoundedUp(p) == Truncated([at |-> 2 * p.at + p.unit, unit |-> 2 * p.unit])
Nearby(i, size) == Largest(Smallest(i, size - 1), 0)

\* A place on the last cell or after it becomes one just before it: by 1e-5 in the code,
\* by one unit here.
JustBefore(p, size) ==
  [p EXCEPT !.at = IF p.at < (size - 1) * p.unit THEN Largest(p.at, 0) ELSE (size - 1) * p.unit - 1]
Bordering(p, size) == Floored(p) < 1 \/ Floored(p) >= size - 3
AwayFromBorder(p, size) ==
  [p EXCEPT !.at = IF Floored(p) >= size - 3 THEN (size - 3) * p.unit
                   ELSE IF Floored(p) < 1 THEN p.unit ELSE p.at]

\* The weights of the cells around a place, times the unit, or 4 times its third power
LinearWeights(p) ==
  LET rest == p.at % p.unit
  IN  (Floored(p) :> p.unit - rest) @@ (Floored(p) + 1 :> rest)
CubicWeights(p) ==
  LET u == p.unit
      f == p.at % u
      g == u - f
      Inner(a) == (5 * a - 9 * u) * a * a + 4 * u * u * u
      first == ((-3 * (f + u) + 15 * u) * (f + u) - 24 * u * u) * (f + u) + 12 * u * u * u
      at == Floored(p)
  IN  (at - 1 :> first) @@ (at :> Inner(f)) @@ (at + 1 :> Inner(g))
      @@ (at + 2 :> 4 * u * u * u - first - Inner(f) - Inner(g))
LinearScale(py, px) == py.unit * px.unit
CubicScale(py, px) == 16 * py.unit * py.unit * py.unit * px.unit * px.unit * px.unit

\* Images <<number, height, width, channels>>; c is a cell of the output.
At(t, c, i, j) == t.x[to_index(<<c[1], i, j, c[4]>>, t.s)]
Weighed(t, c, wy, wx) ==
  LET around == (DOMAIN wy) \X (DOMAIN wx)
  IN  Total([e \in around |-> wy[e[1]] * wx[e[2]] * At(t, c, e[1], e[2])], around)
Exact(t, v, scale) == IF t.float THEN v * scale ELSE v
Cut(t, v, scale) == IF t.float THEN v ELSE Truncated([at |-> v, unit |-> scale]) % 256
clamp(t, v, scale) ==
  IF t.float THEN v ELSE Truncated([at |-> Largest(0, Smallest(255 * scale, v)), unit |-> scale])

-------------------------------------------------------------------------------
(* resize2d *)

\* The centre of cell n of to cells, and its beginning, among as many as from
Centre(n, from, to) == [at |-> from * (2 * n + 1) - to, unit |-> 2 * to]
Beginning(n, from, to) == [at |-> from * n, unit |-> to]
SameSize(t) == t.s[2] = t.out[2] /\ t.s[3] = t.out[3]

Resize2d_ResizeImageLinear_kernel(t, c) ==
  LET py == JustBefore(Centre(c[2], t.s[2], t.out[2]), t.s[2])
      px == JustBefore(Centre(c[3], t.s[3], t.out[3]), t.s[3])
  IN  Cut(t, Weighed(t, c, LinearWeights(py), LinearWeights(px)), LinearScale(py, px))
Resize2d_ResizeImageCubic_kernel(t, c) ==
  LET py == AwayFromBorder(Centre(c[2], t.s[2], t.out[2]), t.s[2])
      px == AwayFromBorder(Centre(c[3], t.s[3], t.out[3]), t.s[3])
  IN  Cut(t, Weighed(t, c, CubicWeights(py), CubicWeights(px)), CubicScale(py, px))
Resize2d_ResizeNearest_kernel(t, c) ==
  At(t, c, Nearby(RoundedUp(Centre(c[2], t.s[2], t.out[2])), t.s[2]),
           Nearby(RoundedUp(Centre(c[3], t.s[3], t.out[3])), t.s[3]))
Resize2d_ResizeHard_kernel(t, c) ==
  At(t, c, Nearby(Truncated(Beginning(c[2], t.s[2], t.out[2])), t.s[2]),
           Nearby(Truncated(Beginning(c[3], t.s[3], t.out[3])), t.s[3]))

\* On the CPU an image of the same size is copied, unless cubic.
Resize2d_ResizeImageLinear(t, c) ==
  IF SameSize(t) THEN Exact(t, At(t, c, c[2], c[3]), 4 * t.out[2] * t.out[3])
  ELSE Resize2d_ResizeImageLinear_kernel(t, c)
Resize2d_ResizeImageCubic(t, c) == Resize2d_ResizeImageCubic_kernel(t, c)
Resize2d_ResizeHard(t, c) ==
  IF SameSize(t) THEN At(t, c, c[2], c[3]) ELSE Resize2d_ResizeHard_kernel(t, c)
Resize2d_ResizeNearest(t, c) ==
  IF SameSize(t) THEN At(t, c, c[2], c[3])
  ELSE At(t, c, Nearby(Rounded(Centre(c[2], t.s[2], t.out[2])), t.s[2]),
                Nearby(Rounded(Centre(c[3], t.s[3], t.out[3])), t.s[3]))

\* One number after the other: on the CPU its rows in parallel, on the GPU its blocks
ByRows(t, value(_)) ==
  LET row == t.out[3] * t.out[4]
  IN  [n \in 1 .. t.out[1] |-> [h \in 1 .. t.out[2] |->
         [i \in {((n - 1) * t.out[2] + h - 1) * row + e : e \in Loop(row)} |-> value(to_coordinate(i, t.out))]]]
ByBlocks(t, value(_)) ==
  LET count == t.out[2] * t.out[3] * t.out[4]
  IN  [n \in 1 .. t.out[1] |-> [b \in 1 .. CeilQuot(count, CudaThreads) |->
         [i \in {(n - 1) * count + e : e \in {g \in Grid(count) : g \div CudaThreads = b - 1}} |->
            value(to_coordinate(i, t.out))]]]

batch_resize(t) ==
  CASE t.type = "linear" -> ByRows(t, LAMBDA c : Resize2d_ResizeImageLinear(t, c))
    [] t.type = "cubic" -> ByRows(t, LAMBDA c : Resize2d_ResizeImageCubic(t, c))
    [] t.type = "hard" -> ByRows(t, LAMBDA c : Resize2d_ResizeHard(t, c))
    [] t.type = "nearest" -> ByRows(t, LAMBDA c : Resize2d_ResizeNearest(t, c))
batch_resize_gpu(t) ==
  CASE t.type = "linear" -> ByBlocks(t, LAMBDA c : Resize2d_ResizeImageLinear_kernel(t, c))
    [] t.type = "cubic" -> ByBlocks(t, LAMBDA c : Resize2d_ResizeImageCubic_kernel(t, c))
    [] t.type = "hard" -> ByBlocks(t, LAMBDA c : Resize2d_ResizeHard_kernel(t, c))
    [] t.type = "nearest" -> ByBlocks(t, LAMBDA c : Resize2d_ResizeNearest_kernel(t, c))

\* The images in a tensor whose dimension at, from 1, and the next become to
Images(t, at, to) ==
  LET shape(h, w) == <<Product(SubSeq(t.sizes, 1, at - 1)), h, w, Product(SubSeq(t.sizes, at + 2, Len(t.sizes)))>>
  IN  [s |-> shape(t.sizes[at], t.sizes[at + 1]), out |-> shape(to[1], to[2])] @@ t

\* A tensor that has the size already is the output itself.
Ready(t, at) == t.sizes[at] = t.size[at] /\ t.sizes[at + 1] = t.size[at + 1]
ResizeDim(t) == CHOOSE at \in find_resized_height_dim(t.sizes, t.size) : TRUE
Resizing(t) == LET at == ResizeDim(t) IN Images(t, at, <<t.size[at], t.size[at + 1]>>)
resize2d(t) == IF Ready(t, ResizeDim(t)) THEN Whole(t.x) ELSE batch_resize(Resizing(t))
resize2d_gpu(t) == IF Ready(t, ResizeDim(t)) THEN Whole(t.x) ELSE batch_resize_gpu(Resizing(t))

Resize_Nearest_Neighbor(t) ==
  [t EXCEPT !.type = "nearest",
            !.size = [d \in DOMAIN t.sizes |-> CASE d = t.dim + 1 -> t.to[1] [] d = t.dim + 2 -> t.to[2] [] OTHER -> -1]]
\* t.scale: a fraction for every dimension
Sample2DV2(t) ==
  [t EXCEPT !.size = [d \in DOMAIN t.sizes |-> (t.sizes[d] * t.scale[d][1]) \div t.scale[d][2]]]

-------------------------------------------------------------------------------
(* affine_sample2d: t.rz are the first two rows of the matrix in parts of t.unit; the third
   does not count.  What is outside gets t.outer, or the nearest there is if it is <<>>. *)

transform(t, c) ==
  [r \in 1 .. 2 |-> [at |-> t.rz[r][1] * c[3] + t.rz[r][2] * c[2] + t.rz[r][3], unit |-> t.unit]]

affine_sample2d_linear(t, c) ==
  LET p == transform(t, c)
      inner == /\ p[1].at >= 0 /\ p[1].at < (t.s[3] - 1) * t.unit
               /\ p[2].at >= 0 /\ p[2].at < (t.s[2] - 1) * t.unit
      py == JustBefore(p[2], t.s[2])
      px == JustBefore(p[1], t.s[3])
  IN  IF ~ inner /\ t.outer # <<>> THEN Exact(t, t.outer[1], LinearScale(py, px))
      ELSE clamp(t, Weighed(t, c, LinearWeights(py), LinearWeights(px)), LinearScale(py, px))

\* The last row and the last column do not count as inner.
AtCell(t, c, h, w) ==
  LET inner == w >= 0 /\ w < t.s[3] - 1 /\ h >= 0 /\ h < t.s[2] - 1
  IN  IF ~ inner /\ t.outer # <<>> THEN t.outer[1] ELSE At(t, c, Nearby(h, t.s[2]), Nearby(w, t.s[3]))
affine_sample2d_nearest(t, c) == LET p == transform(t, c) IN AtCell(t, c, Rounded(p[2]), Rounded(p[1]))
affine_sample2d_nearest_kernel(t, c) ==
  LET p == transform(t, c) IN AtCell(t, c, RoundedUp(p[2]), RoundedUp(p[1]))
affine_sample2d_hard(t, c) == LET p == transform(t, c) IN AtCell(t, c, Truncated(p[2]), Truncated(p[1]))

affine_sample2d_cubic(t, c) ==
  LET p == transform(t, c)
      py == AwayFromBorder(p[2], t.s[2])
      px == AwayFromBorder(p[1], t.s[3])
  IN  IF (Bordering(p[2], t.s[2]) \/ Bordering(p[1], t.s[3])) /\ t.outer # <<>>
      THEN Exact(t, t.outer[1], CubicScale(py, px))
      ELSE clamp(t, Weighed(t, c, CubicWeights(py), CubicWeights(px)), CubicScale(py, px))

\* The kernels of the GPU are copies of the loops' bodies, but for the nearest one.
affine_sample2d_linear_kernel(t, c) == affine_sample2d_linear(t, c)
affine_sample2d_hard_kernel(t, c) == affine_sample2d_hard(t, c)
affine_sample2d_cubic_kernel(t, c) == affine_sample2d_cubic(t, c)

batch_affine_sample2d(t) ==
  CASE t.type = "cubic" -> ByRows(t, LAMBDA c : affine_sample2d_cubic(t, c))
    [] t.type = "nearest" -> ByRows(t, LAMBDA c : affine_sample2d_nearest(t, c))
    [] t.type = "hard" -> ByRows(t, LAMBDA c : affine_sample2d_hard(t, c))
    [] t.type = "linear" -> ByRows(t, LAMBDA c : affine_sample2d_linear(t, c))
batch_affine_sample2d_gpu(t) ==
  CASE t.type = "cubic" -> ByBlocks(t, LAMBDA c : affine_sample2d_cubic_kernel(t, c))
    [] t.type = "nearest" -> ByBlocks(t, LAMBDA c : affine_sample2d_nearest_kernel(t, c))
    [] t.type = "hard" -> ByBlocks(t, LAMBDA c : affine_sample2d_hard_kernel(t, c))
    [] t.type = "linear" -> ByBlocks(t, LAMBDA c : affine_sample2d_linear_kernel(t, c))

affine_sample2d(t) == batch_affine_sample2d(Images(t, FixDim(t.dim, Len(t.sizes)) + 1, t.to))
affine_sample2d_gpu(t) == batch_affine_sample2d_gpu(Images(t, FixDim(t.dim, Len(t.sizes)) + 1, t.to))

\* By one scale, a fraction, with zero outside
Sample2D(t) ==
  LET at == FixDim(t.dim, Len(t.sizes)) + 1
  IN  [to |-> [d \in 1 .. 2 |-> (t.sizes[at + d - 1] * t.scale[1]) \div t.scale[2]],
       rz |-> << <<t.scale[2], 0, 0>>, <<0, t.scale[2], 0>> >>, unit |-> t.scale[1], outer |-> <<0>>] @@ t

-------------------------------------------------------------------------------
(* Patches around landmarks: t.pos has x and y of each as parts of t.unit of the image. *)

\* The size of a patch of the original in the feature map
PatchSize(patch, size, origin) == RoundedUp([at |-> patch * size, unit |-> origin])

ShapeIndexPatch(t) ==
  LET Landmarks == t.count \div 2
      Size(d) == PatchSize(t.patch[d], t.s[d + 2], t.origin[d])
      out == <<t.s[1], t.s[2], Size(1), Landmarks, Size(2)>>
      Corner(n, i, d) ==
        RoundedUp([at |-> 2 * t.pos[to_index(<<n, 2 * i + 2 - d>>, <<t.s[1], t.count>>)] * (t.s[d + 2] - 1)
                          - (Size(d) - 1) * t.unit,
                   unit |-> 2 * t.unit])
      Cell(c) == <<c[1], c[2], Corner(c[1], c[4], 1) + c[3], Corner(c[1], c[4], 2) + c[5]>>
  IN  Whole([o \in Loop(Product(out)) |->
         LET cell == Cell(to_coordinate(o, out))
         IN  IF Inside(cell, t.s) THEN t.x[to_index(cell, t.s)] ELSE 0])

-------------------------------------------------------------------------------
(* prior_box: a ratio is given by its square root, a fraction; sizes are fractions of
   pixels; the image is t.unit high and wide. *)

\* The ratio of one first, then the others, none of them twice
aspect_ratios(t) ==
  FoldLeft(LAMBDA known, r : IF r \in Range(known) THEN known
                             ELSE known \o (IF t.flip THEN <<r, <<r[2], r[1]>> >> ELSE <<r>>),
           << <<1, 1>> >>, t.ratios)
num_priors(t) == Len(aspect_ratios(t)) * Len(t.min) + Len(t.max)

\* Heights and widths of the boxes of a cell; what min and max have after the point is cut.
BoxesOfCell(t) ==
  LET Uncut(size) == size[1] \div size[2]
      Root(p) == CHOOSE r \in 0 .. p : r * r = p
      Equal(size) == << <<size, 1>>, <<size, 1>> >>
      Stretch(min, r) == << <<min * r[2], r[1]>>, <<min * r[1], r[2]>> >>
      Others == SelectSeq(aspect_ratios(t), LAMBDA r : r # <<1, 1>>)
      OfSize(s) ==
        LET min == Uncut(t.min[s])
        IN  <<Equal(min)>>
            \o (IF t.max = <<>> THEN <<>> ELSE <<Equal(Root(min * Uncut(t.max[s])))>>)
            \o [r \in DOMAIN Others |-> Stretch(min, Others[r])]
  IN  FlattenSeq([s \in DOMAIN t.min |-> OfSize(s)])

\* What is not given, or zero, is taken from the image, whose steps then fill it.
ImageOf(t) == IF t.img[1] = 0 \/ t.img[2] = 0 THEN t.image ELSE t.img
StepOf(t, d) ==
  IF t.step[1] = 0 \/ t.step[2] = 0 THEN <<ImageOf(t)[d], t.s[d + 2]>> ELSE <<t.step[d], 1>>

\* Four values, or one for all; in tenths
VarianceOf(t, k) ==
  CASE Len(t.variance) > 1 -> t.variance[k] [] Len(t.variance) = 1 -> t.variance[1] [] OTHER -> 1

PriorBox(t) ==
  LET Centred(d, at) == ((at * t.offset[2] + t.offset[1]) * StepOf(t, d)[1] * t.unit)
                        \div (t.offset[2] * StepOf(t, d)[2] * ImageOf(t)[d])
      Half(d, size) == (size[1] * t.unit) \div (2 * size[2] * ImageOf(t)[d])
      boxes == BoxesOfCell(t)
      shape == <<t.s[3], t.s[4], Len(boxes), 4>>
      Edge(c) ==  \* xmin, ymin, xmax, ymax
        LET d == IF c[4] % 2 = 0 THEN 2 ELSE 1
            half == Half(d, boxes[c[3] + 1][d])
        IN  Centred(d, c[d]) + (IF c[4] < 2 THEN -half ELSE half)
      WithinImage(v) == IF t.clip THEN Smallest(Largest(v, 0), t.unit) ELSE v
      dim == t.s[3] * t.s[4] * num_priors(t) * 4
  IN  InOrder(<< [o \in Loop(Product(shape)) |-> WithinImage(Edge(to_coordinate(o, shape)))],
                 [o \in dim .. 2 * dim - 1 |-> VarianceOf(t, ((o - dim) % 4) + 1)] >>)

-------------------------------------------------------------------------------
(* Boxes that suppress others; a threshold is a fraction. *)

Area(a) == (a[3] - a[1]) * (a[4] - a[2])
Common(a, b) ==
  Largest(Smallest(a[3], b[3]) - Largest(a[1], b[1]), 0) * Largest(Smallest(a[4], b[4]) - Largest(a[2], b[2]), 0)

\* Box i is two corners, or one corner and the way to the other.
CornersOf(t, i) ==
  LET b(k) == t.x[i * 4 + k]
      Far(k) == IF t.mode = "xyxy" THEN b(k + 2) ELSE b(k) + b(k + 2)
  IN  <<Smallest(b(0), Far(0)), Smallest(b(1), Far(1)), Largest(b(0), Far(0)), Largest(b(1), Far(1))>>

\* Integers are divided as such, and the threshold is cut.
check_suppress(t, i, j) ==
  LET Suppress(a, b, common, threshold) ==
        /\ Area(a) > 0 /\ Area(b) > 0
        /\ IF t.float THEN common * threshold[2] > (Area(a) + Area(b) - common) * threshold[1]
           ELSE common \div (Area(a) + Area(b) - common) > threshold[1] \div threshold[2]
      Boxes(a, b) == Suppress(a, b, Common(a, b), t.iou_threshold)
  IN  Boxes(CornersOf(t, i), CornersOf(t, j))

\* No two scores are the same.
cpu_non_max_suppression_v3(t) ==
  LET all == [i \in 1 .. Cardinality(DOMAIN t.scores) |-> i - 1]
      candidates == SortSeq(SelectSeq(all, LAMBDA i : t.scores[i] > t.score_threshold),
                            LAMBDA i, j : t.scores[i] > t.scores[j])
      Select(selected, i) ==
        IF Len(selected) < t.max_output /\ \A j \in Range(selected) : ~ check_suppress(t, i, j)
        THEN Append(selected, i) ELSE selected
      selected == FoldLeft(Select, <<>>, candidates)
  IN  Whole([i \in Loop(t.max_output) |-> IF i < Len(selected) THEN selected[i + 1] ELSE -1])

-------------------------------------------------------------------------------
(* yolo: for every anchor of the mask and every cell of the map x, y, w, h, how sure it is
   of an object, and of every class. *)

CellsOf(l) == l.s[3] * l.s[4]
entry_index(l, batch, location, entry) ==
  batch * Product(Tail(l.s)) + ((location \div CellsOf(l)) * (5 + l.classes) + entry) * CellsOf(l)
  + (location % CellsOf(l))

\* In place, in a copy of x
Yolo(t) ==
  LET Planes(first, count) == first .. first + count * CellsOf(t) - 1
      activated ==
        UNION {Planes(entry_index(t, b, n * CellsOf(t), 0), 2)
               \union Planes(entry_index(t, b, n * CellsOf(t), 4), 1 + t.classes) :
                 b \in Loop(t.s[1]), n \in Loop(Len(t.mask))}
  IN  InOrder(<<t.x, [o \in activated |-> Sigmoid(t.x[o])]>>)

\* The edges <<left, top, right, bottom>> in half units, of which the image has
\* 2 * t.unit; x and y are quarters of a cell, and exp is to the base of 2.
get_yolo_box(t, l, index, cell, anchor) ==
  LET entry(e) == l.x[index + e * CellsOf(l)]
      Middle(at, e, d) == ((4 * at + entry(e)) * 2 * t.unit) \div (4 * l.s[d + 2])
      Half(e, d) == ((2 ^ entry(e)) * l.anchors[2 * anchor + e - 2] * t.unit) \div t.net[d]
      Box(x, y, w, h) == <<x - w, y - h, x + w, y + h>>
  IN  Box(Middle(cell % l.s[4], 0, 2), Middle(cell \div l.s[4], 1, 1), Half(2, 2), Half(3, 1))

\* What one layer sees in a number; what it is sure of counts t.sure for one.
get_yolo_detections(t, l, number) ==
  LET Detection(cell, n, index) ==
        LET entry(e) == l.x[index + e * CellsOf(l)]
            Sure(prob) == IF prob > t.thresh * t.sure THEN prob ELSE 0
        IN  IF entry(4) <= t.thresh THEN <<>>
            ELSE << [box |-> get_yolo_box(t, l, index, cell, l.mask[n + 1]),
                     prob |-> [j \in Loop(l.classes) |-> Sure(entry(4) * entry(5 + j))]] >>
      anchors == Len(l.mask)
  IN  FlattenSeq([i \in 1 .. CellsOf(l) * anchors |->
        Detection((i - 1) \div anchors, (i - 1) % anchors,
                  entry_index(l, number, ((i - 1) % anchors) * CellsOf(l) + ((i - 1) \div anchors), 0))])

ClampedBox(t, box) == [e \in DOMAIN box |-> Largest(0, Smallest(2 * t.unit, box[e]))]
box_iou_above(a, b, threshold) ==
  Common(a, b) * threshold[2] > (Area(a) + Area(b) - Common(a, b)) * threshold[1]

\* What is left of the probabilities of class k; no two of them are the same, unless zero.
do_nms_sort(dets, k, threshold) ==
  LET sorted == SortSeq([d \in DOMAIN dets |-> d], LAMBDA a, b : dets[a].prob[k] > dets[b].prob[k])
      Suppress(prob, i) ==
        IF prob[sorted[i]] = 0 THEN prob
        ELSE [d \in DOMAIN prob |->
                IF /\ \E j \in i + 1 .. Len(sorted) : sorted[j] = d
                   /\ box_iou_above(dets[sorted[i]].box, dets[d].box, threshold)
                THEN 0 ELSE prob[d]]
  IN  FoldLeft(Suppress, [d \in DOMAIN dets |-> dets[d].prob[k]], [i \in DOMAIN sorted |-> i])

\* For every number a tensor of x, y, w, h, score and label
WithinImage(t, found) == [d \in DOMAIN found |-> [found[d] EXCEPT !.box = ClampedBox(t, @)]]
RowsLeft(t, dets, prob) ==
  LET Row(b, p, k) ==
        IF p > t.thresh * t.sure THEN << <<b[1], b[2], b[3] - b[1], b[4] - b[2], p, k>> >> ELSE <<>>
  IN  FlattenSeq([i \in 1 .. Len(dets) * t.classes |->
        LET d == ((i - 1) \div t.classes) + 1
            k == (i - 1) % t.classes
        IN  Row(dets[d].box, prob[k][d], k)])
RowsOfDetections(t, dets) == RowsLeft(t, dets, [k \in Loop(t.classes) |-> do_nms_sort(dets, k, t.nms)])
YoloPoster(t) ==
  LET Found(number) ==
        FlattenSeq([i \in DOMAIN t.layers |-> get_yolo_detections(t, t.layers[i], number)])
      Written(n, rows) == [p \in {n} \X Loop(6 * Len(rows)) |-> rows[(p[2] \div 6) + 1][(p[2] % 6) + 1]]
  IN  InOrder([n \in 1 .. t.numbers |-> Written(n, RowsOfDetections(t, WithinImage(t, Found(n - 1))))])
===============================================================================
