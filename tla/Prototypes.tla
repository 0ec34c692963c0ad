------------------------------ MODULE Prototypes ------------------------------
(***************************************************************************)
(* Tensor prototypes and the arithmetic on shapes that the shape rules of  *)
(* runtime/inferer and the infer methods of backend/base share.            *)
(*                                                                         *)
(* A shape is a sequence of sizes; a negative size is not known before the *)
(* program runs.  A prototype is the sequence of its fields, each a type   *)
(* and a shape; VOID, which has no field, says that nothing is known, and  *)
(* Failed stands for an exception.  Positions count from 1 here, so that   *)
(* dimension d of the code is element d + 1.                               *)
(*                                                                         *)
(* An operator is applied to n == [op, attr, in, val]: its name, its       *)
(* parameters (a record that has the fields that are set), the prototypes  *)
(* of its inputs, and for each input the set {v} of its value, or {} if    *)
(* the value is not known.  A value is a tensor: its type, its shape and   *)
(* its elements, of which only integers are told apart.                    *)
(***************************************************************************)
EXTENDS Integers, Sequences, SequencesExt, FiniteSetsExt, TLC

VOID == <<>>

Failed == << [type |-> "exception", sizes |-> <<>>] >>

\* A tensor with one field.
One(type, sizes) == << [type |-> type, sizes |-> sizes] >>

\* What an operator returns that checks something of its inputs first.
Checked(ok, proto) == IF ok THEN proto ELSE Failed

VoidUnless(known, proto) == IF known THEN proto ELSE VOID

X(n) == n.in[1][1].sizes
W(n, i) == n.in[i][1].sizes
TypeOf(n, i) == n.in[i][1].type
Like(n, sizes) == One(TypeOf(n, 1), sizes)

Has(n, a) == a \in DOMAIN n.attr
AttrOr(n, a, default) == IF Has(n, a) THEN n.attr[a] ELSE default

Value(type, sizes, data) == [type |-> type, sizes |-> sizes, data |-> data]

Known(n, i) == n.val[i] # {}
The(values) == CHOOSE v \in values : TRUE
Val(n, i) == The(n.val[i]).data

Product(s) == FoldSeq(LAMBDA a, b : a * b, 1, s)

Ones(k) == [i \in 1 .. k |-> 1]

\* size elements of s in front, as front_append_ones and begin_insert_ones do
PadFront(s, size) == Ones(IF size > Len(s) THEN size - Len(s) ELSE 0) \o s

\* Division of C++, which rounds towards zero, and rounding up of a quotient
CQuot(a, b) == IF a >= 0 THEN a \div b ELSE -((-a) \div b)
CeilQuot(a, b) == -((-a) \div b)

\* dim as an index of a shape with `dims' dimensions: negative counts from the end
FixDim(dim, dims) == IF dim < 0 THEN dim + dims ELSE dim

InDims(dim, dims) == dim >= 0 /\ dim < dims

SetDim(s, dim, size) == ReplaceAt(s, dim + 1, size)
EraseDim(s, dim) == RemoveAt(s, dim + 1)
InsertDim(s, dim, size) == InsertAt(s, dim + 1, size)

\* Image layouts: where the spatial dimensions and the channels are.
Formats == {"NCHW", "NHWC"}
ChannelAt(format) == IF format = "NCHW" THEN 2 ELSE 4
FirstSpatial(format) == IF format = "NCHW" THEN 3 ELSE 2

\* Both sides of the padding of position d in a 4x2 list.
PadOf(padding, d) == padding[2 * d - 1] + padding[2 * d]

\* The window arithmetic of include/backend/common_function.h, one dimension.
conv2d_forward(x, padding, dilation, kernel, stride) ==
  CQuot(x + padding - (dilation * (kernel - 1) + 1), stride) + 1

conv2d_backward(y, padding, dilation, kernel, stride) ==
  (y - 1) * stride + (dilation * (kernel - 1) + 1) - padding

pooling2d_forward(x, padding, kernel, stride) ==
  CeilQuot(x + padding - kernel, stride) + 1

pooling2d_backward(y, padding, kernel, stride) ==
  (y - 1) * stride + kernel - padding

\* Tensor::reshape: one negative size takes what the others leave.
ReshapeTo(x, shape) ==
  LET free == {i \in DOMAIN shape : shape[i] < 0}
      fixed == [i \in DOMAIN shape |->
                  IF i \in free THEN CQuot(Product(x),
                       Product([j \in DOMAIN shape |-> IF j = i THEN 1 ELSE shape[j]]))
                  ELSE shape[i]]
  IN  IF Cardinality(free) > 1 THEN {}
      ELSE IF Product(fixed) # Product(x) THEN {} ELSE {fixed}

\* utils/box.cpp: [first, second) in steps of the rounded up share
split_bins(first, second, bins) ==
  LET step == IF bins <= 1 THEN second - first
              ELSE CeilQuot(second - first, bins)
      count == IF second <= first THEN 0 ELSE CeilQuot(second - first, step)
  IN  [i \in 1 .. count |->
         <<first + (i - 1) * step,
           IF i = count THEN second ELSE first + i * step>>]

\* The three infer_output of the slices: how many elements begin:end:stride
\* takes from x, where a flag stands for an omitted bound.
SliceExtent(x, begin, end, stride, beginFlag, endFlag) ==
  LET none == \/ /\ ~ beginFlag
                 /\ \/ stride > 0 /\ begin >= x
                    \/ stride <= 0 /\ begin < -x
              \/ /\ ~ endFlag
                 /\ \/ stride > 0 /\ end <= -x
                    \/ stride <= 0 /\ end > x
      b == CASE beginFlag -> IF stride > 0 THEN 0 ELSE x - 1
             [] ~ beginFlag /\ begin < -x -> 0
             [] ~ beginFlag /\ begin >= x -> x - 1
             [] OTHER -> IF begin < 0 THEN begin + x ELSE begin
      e == CASE endFlag -> IF stride > 0 THEN x ELSE -1
             [] ~ endFlag /\ stride > 0 /\ end > x -> x
             [] ~ endFlag /\ stride <= 0 /\ end <= -x -> -1
             [] OTHER -> IF end < 0 THEN end + x ELSE end
  IN  CASE none -> 0
        [] ~ none /\ stride > 0 -> IF b < e THEN (e - b - 1) \div stride + 1 ELSE 0
        [] ~ none /\ stride < 0 -> IF b > e THEN (b - e - 1) \div (-stride) + 1 ELSE 0
        [] OTHER -> 0
\* The two neighbouring dimensions that a list of sizes asks to resize, where a
\* negative size keeps what is there: the index of the first, if there is one.
find_resized_height_dim(x, size) ==
  LET Kept(i) == size[i] < 0 \/ x[i] = size[i]
      Candidate(i) == /\ size[i] > 0
                      /\ x[i] # size[i] \/ \A j \in i + 2 .. Len(x) : Kept(j)
      found == {i \in DOMAIN x : /\ Candidate(i)
                                 /\ \A j \in 1 .. i - 1 : size[j] # 0 /\ ~ Candidate(j)}
  IN  {i \in found : /\ i < Len(x) /\ size[i + 1] > 0
                     /\ \A j \in i + 2 .. Len(x) : Kept(j) /\ size[j] # 0}

-------------------------------------------------------------------------------
\* HypeShape: row-major coordinates of an index, and back; all from 0
Strides(s) == [d \in DOMAIN s |-> Product(SubSeq(s, d + 1, Len(s)))]
to_coordinate(i, s) == [d \in DOMAIN s |-> (i \div Strides(s)[d]) % s[d]]
to_index(c, s) == FoldSeq(+, 0, [d \in DOMAIN s |-> c[d] * Strides(s)[d]])
===============================================================================
