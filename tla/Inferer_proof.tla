---------------------------- MODULE Inferer_proof ----------------------------
(***************************************************************************)
(* Proof that the paddings which infer leaves in a graph are those of the  *)
(* frameworks: the padding operators of backend/tf, onnx, mxnet and dragon *)
(* compute, for every image, kernel, stride and dilation, the padding with *)
(* which conv2d_forward and pooling2d_forward give the output the size     *)
(* that the framework it was exported from gives it; and a padding that    *)
(* infer has found is the one for the shapes found since.                  *)
(***************************************************************************)
EXTENDS Inferer, SequenceTheorems, WellFoundedInduction, TLAPS

\* A product grows with its factor.
LEMMA Monotone ==
    ASSUME NEW i \in Int, NEW j \in Int, NEW b \in Nat, i <= j
    PROVE  i * b <= j * b
<1>1. j - i >= 0 /\ j - i \in Nat
  OBVIOUS
<1>2. (j - i) * b >= 0
  <2> DEFINE c == j - i
  <2> HIDE DEF c
  <2>1. c \in Nat
    BY <1>1 DEF c
  <2>2. c * b \in Nat
    BY <2>1
  <2> QED
    BY <2>2 DEF c
<1>3. (j - i) * b = j * b - i * b
  OBVIOUS
<1> QED
  BY <1>2, <1>3

\* What a quotient by a positive number is
LEMMA Quotient ==
    ASSUME NEW a \in Int, NEW b \in Nat \ {0}
    PROVE  a \div b \in Int /\ (a \div b) * b <= a /\ a < (a \div b) * b + b
OBVIOUS

\* ... and nothing else is it.
LEMMA TheQuotient ==
    ASSUME NEW a \in Int, NEW b \in Nat \ {0}, NEW q \in Int, q * b <= a, a < q * b + b
    PROVE  a \div b = q
<1> DEFINE r == a \div b
<1>1. r \in Int /\ r * b <= a /\ a < r * b + b
  BY Quotient
<1> HIDE DEF r
<1>2. ASSUME NEW i \in Int, NEW j \in Int, i < j  PROVE i * b + b <= j * b
  <2>1. i + 1 \in Int /\ i + 1 <= j /\ (i + 1) * b = i * b + b
    BY <1>2
  <2> QED
    BY <2>1, Monotone
<1>3. ~(r < q)
  BY <1>1, <1>2
<1>4. ~(q < r)
  BY <1>1, <1>2
<1> QED
  BY <1>1, <1>3, <1>4 DEF r

\* The same for a quotient that rounds up
LEMMA CeilQuotient ==
    ASSUME NEW a \in Int, NEW b \in Nat \ {0}
    PROVE  /\ CeilQuot(a, b) \in Int
           /\ (CeilQuot(a, b) - 1) * b < a /\ a <= CeilQuot(a, b) * b
<1> DEFINE q == (-a) \div b
<1>1. q \in Int /\ q * b <= -a /\ -a < q * b + b
  BY Quotient
<1>2. CeilQuot(a, b) = -q
  BY DEF CeilQuot
<1> HIDE DEF q
<1>3. (-q) * b = -(q * b) /\ (-q - 1) * b = -(q * b) - b
  BY <1>1
<1> QED
  BY <1>1, <1>2, <1>3

\* ... and nothing else is it.
LEMMA TheCeilQuotient ==
    ASSUME NEW a \in Int, NEW b \in Nat \ {0}, NEW q \in Int, (q - 1) * b < a, a <= q * b
    PROVE  CeilQuot(a, b) = q
<1>1. (-q) * b = -(q * b) /\ (q - 1) * b = q * b - b
  OBVIOUS
<1>2. (-q) * b <= -a /\ -a < (-q) * b + b
  BY <1>1
<1>3. (-a) \div b = -q
  BY <1>2, TheQuotient
<1> QED
  BY <1>3 DEF CeilQuot

-------------------------------------------------------------------------------
IsWindow(d) == /\ d.x \in Nat \ {0} /\ d.before \in Nat /\ d.after \in Nat
               /\ d.k \in Nat \ {0} /\ d.dilation \in Nat \ {0} /\ d.stride \in Nat \ {0}

\* A kernel and a padded image have a size of at least one; a kernel without dilation is
\* as large as its cells.
LEMMA Extents ==
    ASSUME NEW d, IsWindow(d)
    PROVE  /\ KernelExtent(d) \in Nat \ {0} /\ Whole(d) \in Nat \ {0}
           /\ d.dilation * (d.k - 1) + 1 = KernelExtent(d)
           /\ d.dilation = 1 => KernelExtent(d) = d.k
<1>1. (d.k - 1) * d.dilation \in Nat
  <2> DEFINE m == d.k - 1
  <2>1. m \in Nat /\ d.dilation \in Nat
    BY DEF IsWindow
  <2> HIDE DEF m
  <2>2. m * d.dilation \in Nat
    BY <2>1
  <2> QED
    BY <2>2 DEF m
<1>2. d.dilation * (d.k - 1) = (d.k - 1) * d.dilation
  BY DEF IsWindow
<1>3. d.dilation = 1 => (d.k - 1) * d.dilation = d.k - 1
  BY DEF IsWindow
<1> QED
  BY <1>1, <1>2, <1>3 DEF IsWindow, KernelExtent, Whole

\* A window that steps over an image without a rest gets as far as it goes.
LEMMA FilledExactly ==
    ASSUME NEW d, IsWindow(d), NEW p \in Int, NEW y \in Nat \ {0},
           d.x + p - KernelExtent(d) = (y - 1) * d.stride
    PROVE  /\ conv2d_forward(d.x, p, d.dilation, d.k, d.stride) = y
           /\ d.dilation = 1 => pooling2d_forward(d.x, p, d.k, d.stride) = y
<1> DEFINE s == d.stride  m == y - 1  K == KernelExtent(d)
<1>1. s \in Nat \ {0} /\ m \in Nat /\ d.x \in Nat /\ K \in Nat
  BY Extents DEF IsWindow
<1>2. m * s \in Nat /\ d.x + p - K = m * s
  <2> HIDE DEF s, m
  <2>1. m * s \in Nat
    BY <1>1
  <2> QED
    BY <2>1 DEF s, m
<1>3. (m * s) \div s = m /\ CeilQuot(m * s, s) = m
  <2> HIDE DEF s, m
  <2>1. m * s <= m * s /\ m * s < m * s + s /\ (m - 1) * s < m * s
    BY <1>1, <1>2
  <2>2. m \in Int /\ m * s \in Int
    BY <1>1, <1>2
  <2> QED
    BY <1>1, <2>1, <2>2, TheQuotient, TheCeilQuotient
<1>4. d.x + p - (d.dilation * (d.k - 1) + 1) = m * s
  BY <1>2, Extents
<1>5. conv2d_forward(d.x, p, d.dilation, d.k, d.stride) = m + 1
  BY <1>2, <1>3, <1>4 DEF conv2d_forward, CQuot
<1>6. ASSUME d.dilation = 1 PROVE pooling2d_forward(d.x, p, d.k, d.stride) = m + 1
  <2>1. d.x + p - d.k = m * s
    BY <1>2, <1>6, Extents
  <2> QED
    BY <1>3, <2>1 DEF pooling2d_forward
<1> QED
  BY <1>5, <1>6

\* conv2d_backward gives a window as much as it needs.
LEMMA NeededFills ==
    ASSUME NEW d, IsWindow(d), NEW y \in Nat \ {0}
    PROVE  /\ Needed(d, y) \in Int
           /\ d.x + (d.before + d.after + Needed(d, y)) - KernelExtent(d) = (y - 1) * d.stride
<1> DEFINE m == (y - 1) * d.stride  K == KernelExtent(d)
<1>1. /\ m \in Int /\ K \in Int /\ d.x \in Int /\ d.before \in Int /\ d.after \in Int
      /\ d.dilation * (d.k - 1) + 1 = K
  <2>1. y - 1 \in Int /\ d.stride \in Int
    BY DEF IsWindow
  <2>2. m \in Int
    <3> DEFINE z == y - 1
    <3> HIDE DEF z
    <3>1. \A i, j \in Int : i * j \in Int
      OBVIOUS
    <3> QED
      BY <2>1, <3>1 DEF z
  <2> HIDE DEF m
  <2> QED
    BY <2>2, Extents DEF IsWindow
<1>2. Needed(d, y) = (m + ((d.dilation * (d.k - 1) + 1) - (d.before + d.after))) - d.x
  BY DEF Needed, conv2d_backward
<1> HIDE DEF m, K
<1>3. Needed(d, y) = m + K - (d.before + d.after) - d.x
  BY <1>1, <1>2
<1>4. Needed(d, y) \in Int /\ d.x + (d.before + d.after + Needed(d, y)) - K = m
  BY <1>1, <1>3
<1> QED
  BY <1>4 DEF m, K

\* However the rest r is dealt out to the two sides, both together hold the static padding and r.
LEMMA HalvesSum ==
    ASSUME NEW d, IsWindow(d), NEW r \in Int
    PROVE  /\ AtTheEnd(d, r)[1] + AtTheEnd(d, r)[2] = d.before + d.after + r
           /\ Halved(d, r)[1] + Halved(d, r)[2] = d.before + d.after + r
           /\ HalvedLower(d, r)[1] + HalvedLower(d, r)[2] = d.before + d.after + r
<1> DEFINE h == CQuot(r, 2)
<1>1. h \in Int
  BY DEF CQuot
<1>2. /\ AtTheEnd(d, r) = <<d.before, d.after + r>>
      /\ Halved(d, r) = <<d.before + h, d.after + (r - h)>>
      /\ HalvedLower(d, r) = <<d.before + (r - h), d.after + h>>
  BY DEF AtTheEnd, Halved, HalvedLower
<1> HIDE DEF h
<1> QED
  BY <1>1, <1>2 DEF IsWindow

-------------------------------------------------------------------------------
\* How often a window fits in, and how many cells apart begin over an image
FitsOf(d) == (Whole(d) - KernelExtent(d)) \div d.stride + 1
CoversOf(d) == CeilQuot(Whole(d) - KernelExtent(d), d.stride) + 1
BeginsOf(size, d) == CeilQuot(size, d.stride)

\* The VALID output of a convolution has one cell for each place at which the window fits in.
LEMMA ValidFits ==
    ASSUME NEW d, IsWindow(d), KernelExtent(d) <= Whole(d)
    PROVE  forward_valid(d) = FitsOf(d) /\ FitsOf(d) \in Nat \ {0}
<1> DEFINE m == Whole(d) - KernelExtent(d)  s == d.stride  q == m \div s
<1>1. m \in Nat /\ s \in Nat \ {0}
  BY Extents DEF IsWindow
<1>2. forward_valid(d) = CeilQuot(m + 1, s)
  BY DEF forward_valid
<1>3. FitsOf(d) = q + 1
  BY DEF FitsOf
<1> HIDE DEF m, s
<1>4. q \in Int /\ q * s <= m /\ m < q * s + s
  BY <1>1, Quotient
<1> HIDE DEF q
<1>5. q >= 0
  <2> SUFFICES ASSUME q < 0  PROVE FALSE
    BY <1>4
  <2>1. q + 1 \in Int /\ 0 \in Int /\ q + 1 <= 0 /\ s \in Nat
    BY <1>1, <1>4
  <2>2. (q + 1) * s <= 0 * s
    BY ONLY <2>1, Monotone
  <2>3. (q + 1) * s = q * s + s /\ 0 * s = 0
    BY <1>1, <1>4
  <2> QED
    BY <1>1, <1>4, <2>2, <2>3
<1>6. CeilQuot(m + 1, s) = q + 1
  <2>1. ((q + 1) - 1) * s < m + 1 /\ m + 1 <= (q + 1) * s
    BY <1>1, <1>4
  <2>2. m + 1 \in Int /\ q + 1 \in Int
    BY <1>1, <1>4
  <2> QED
    BY <1>1, <2>1, <2>2, TheCeilQuotient
<1> QED
  BY <1>2, <1>3, <1>4, <1>5, <1>6

\* The SAME output has one cell for each stride that begins over the image.
LEMMA SameBegins ==
    ASSUME NEW w \in Nat \ {0}, NEW s \in Nat \ {0}
    PROVE  /\ CeilQuot(w, s) \in Nat \ {0}
           /\ CeilQuot(w, s) = CHOOSE y \in 0 .. w : (y - 1) * s < w /\ w <= y * s
<1> DEFINE y == CeilQuot(w, s)
<1>1. y \in Int /\ (y - 1) * s < w /\ w <= y * s
  BY CeilQuotient
<1>2. \A z \in Int : (z - 1) * s < w /\ w <= z * s => z = y
  BY TheCeilQuotient
<1> HIDE DEF y
<1>3. y > 0
  <2> SUFFICES ASSUME y <= 0  PROVE FALSE
    BY <1>1
  <2>1. y * s <= 0 * s
    BY <1>1, Monotone
  <2> QED
    BY <1>1, <2>1
<1>4. y <= w
  <2> SUFFICES ASSUME w <= y - 1  PROVE FALSE
    BY <1>1
  <2>1. w * s <= (y - 1) * s
    BY <1>1, Monotone
  <2>2. w * 1 <= w * s
    <3>1. 1 * w <= s * w
      BY Monotone
    <3> QED
      BY <3>1
  <2> QED
    BY <1>1, <2>1, <2>2
<1>5. y \in 0 .. w /\ (y - 1) * s < w /\ w <= y * s
  BY <1>1, <1>3, <1>4
<1>6. \A z \in 0 .. w : (z - 1) * s < w /\ w <= z * s => z = y
  BY <1>2
<1> DEFINE P(z) == (z - 1) * s < w /\ w <= z * s
<1>7. y \in 0 .. w /\ P(y) /\ \A z \in 0 .. w : P(z) => z = y
  BY <1>5, <1>6
<1> HIDE DEF P
<1>8. y = CHOOSE z \in 0 .. w : P(z)
  BY <1>7
<1> QED
  BY <1>3, <1>5, <1>8 DEF y, P

-------------------------------------------------------------------------------
Sum2(sides) == sides[1] + sides[2]

\* With sides of p altogether, the window goes over the image y times.
GoesOver(d, p, y) ==
  /\ conv2d_forward(d.x, p, d.dilation, d.k, d.stride) = y
  /\ d.dilation = 1 => pooling2d_forward(d.x, p, d.k, d.stride) = y

\* With the padding that y cells need, dealt out in any of the three ways, the window goes y times.
LEMMA NeededGoes ==
    ASSUME NEW d, IsWindow(d), NEW y \in Nat \ {0}
    PROVE  /\ GoesOver(d, Sum2(AtTheEnd(d, Needed(d, y))), y)
           /\ GoesOver(d, Sum2(Halved(d, Needed(d, y))), y)
           /\ GoesOver(d, Sum2(HalvedLower(d, Needed(d, y))), y)
<1> DEFINE p == d.before + d.after + Needed(d, y)
<1>1. Needed(d, y) \in Int /\ p \in Int /\ d.x + p - KernelExtent(d) = (y - 1) * d.stride
  BY NeededFills DEF IsWindow
<1>2. /\ Sum2(AtTheEnd(d, Needed(d, y))) = p
      /\ Sum2(Halved(d, Needed(d, y))) = p
      /\ Sum2(HalvedLower(d, Needed(d, y))) = p
  BY <1>1, HalvesSum DEF Sum2
<1> HIDE DEF p
<1>3. GoesOver(d, p, y)
  BY <1>1, FilledExactly DEF GoesOver
<1> QED
  BY <1>2, <1>3

\* dynamic_padding_valid gives as many cells as there are places in which the window fits.
LEMMA ValidGoes ==
    ASSUME NEW d, IsWindow(d), KernelExtent(d) <= Whole(d)
    PROVE  GoesOver(d, Sum2(dynamic_padding_valid(d)), FitsOf(d))
BY ValidFits, NeededGoes DEF dynamic_padding_valid

\* dynamic_padding_same and dynamic_padding_same_lower give one cell per stride begun.
LEMMA SameGoes ==
    ASSUME NEW d, IsWindow(d)
    PROVE  /\ GoesOver(d, Sum2(dynamic_padding_same(d)), BeginsOf(Whole(d), d))
           /\ GoesOver(d, Sum2(dynamic_padding_same_lower(d)), BeginsOf(Whole(d), d))
<1>1. forward_same(d) = BeginsOf(Whole(d), d)
  BY DEF forward_same, BeginsOf
<1>2. BeginsOf(Whole(d), d) \in Nat \ {0}
  BY Extents, SameBegins DEF IsWindow, BeginsOf
<1> QED
  BY <1>1, <1>2, NeededGoes DEF dynamic_padding_same, dynamic_padding_same_lower

\* How far the last whole step of a window reaches
LEMMA FitsExactly ==
    ASSUME NEW d, IsWindow(d), KernelExtent(d) <= Whole(d)
    PROVE  /\ FitsOf(d) \in Nat \ {0}
           /\ (FitsOf(d) - 1) * d.stride =
                (Whole(d) - KernelExtent(d))
                  - CRem(Whole(d) - KernelExtent(d), d.stride)
           /\ CRem(Whole(d) - KernelExtent(d), d.stride) \in Int
<1> DEFINE m == Whole(d) - KernelExtent(d)  s == d.stride  q == m \div s
<1>1. m \in Nat /\ s \in Nat \ {0}
  BY Extents DEF IsWindow
<1>2. FitsOf(d) = q + 1 /\ FitsOf(d) \in Nat \ {0}
  BY ValidFits DEF FitsOf
<1> HIDE DEF m, s
<1>3. CRem(m, s) = m - q * s
  BY <1>1 DEF CRem, CQuot
<1>4. q \in Int
  BY <1>1, Quotient
<1> HIDE DEF q
<1>5. q * s \in Int
  BY <1>1, <1>4
<1>6. CRem(m, s) \in Int /\ ((q + 1) - 1) * s = m - CRem(m, s)
  BY <1>1, <1>3, <1>4, <1>5
<1> QED
  BY <1>2, <1>6 DEF m, s

\* dynamic_padding_notset drops what the last whole step leaves over.
LEMMA NotSetGoes ==
    ASSUME NEW d, IsWindow(d), KernelExtent(d) <= Whole(d), d.dilation = 1
    PROVE  GoesOver(d, Sum2(dynamic_padding_notset(d)), FitsOf(d))
<1> DEFINE r == CRem(Whole(d) - KernelExtent(d), d.stride)  p == d.before + d.after - r
<1>1. /\ KernelExtent(d) = d.k /\ KernelExtent(d) \in Nat
      /\ r \in Int /\ FitsOf(d) \in Nat \ {0}
      /\ (FitsOf(d) - 1) * d.stride = (Whole(d) - KernelExtent(d)) - r
  BY Extents, FitsExactly
<1>2. dynamic_padding_notset(d) = <<d.before, d.after + (-r)>>
  BY <1>1 DEF dynamic_padding_notset, AtTheEnd
<1>3. Whole(d) = d.x + d.before + d.after /\ d.x \in Int /\ d.before \in Int /\ d.after \in Int
  BY DEF Whole, IsWindow
<1> HIDE DEF r
<1>4. p \in Int /\ Sum2(dynamic_padding_notset(d)) = p
  BY <1>1, <1>2, <1>3 DEF Sum2
<1>5. d.x + p - KernelExtent(d) = (FitsOf(d) - 1) * d.stride
  BY <1>1, <1>3
<1> HIDE DEF p
<1>6. GoesOver(d, p, FitsOf(d))
  BY <1>1, <1>4, <1>5, FilledExactly DEF GoesOver
<1> QED
  BY <1>4, <1>6

\* With the static padding alone a convolution rounds down, a pooling up.
LEMMA StaticGoes ==
    ASSUME NEW d, IsWindow(d), KernelExtent(d) <= Whole(d)
    PROVE  /\ conv2d_forward(d.x, d.before + d.after, d.dilation, d.k, d.stride) = FitsOf(d)
           /\ d.dilation = 1 =>
                pooling2d_forward(d.x, d.before + d.after, d.k, d.stride) = CoversOf(d)
<1> DEFINE m == Whole(d) - KernelExtent(d)
<1>1. m \in Nat /\ d.dilation * (d.k - 1) + 1 = KernelExtent(d)
  BY Extents
<1>2. d.dilation = 1 => KernelExtent(d) = d.k
  BY Extents
<1>3. Whole(d) = d.x + d.before + d.after /\ d.x \in Int /\ d.before \in Int /\ d.after \in Int
      /\ KernelExtent(d) \in Int
  BY Extents DEF Whole, IsWindow
<1>4. d.x + (d.before + d.after) - KernelExtent(d) = m
  BY <1>3
<1>5. conv2d_forward(d.x, d.before + d.after, d.dilation, d.k, d.stride) = CQuot(m, d.stride) + 1
  BY <1>1, <1>4 DEF conv2d_forward
<1>6. d.dilation = 1 => pooling2d_forward(d.x, d.before + d.after, d.k, d.stride)
                          = CeilQuot(m, d.stride) + 1
  BY <1>2, <1>4 DEF pooling2d_forward
<1>7. CQuot(m, d.stride) = m \div d.stride
  BY <1>1 DEF CQuot
<1> QED
  BY <1>5, <1>6, <1>7 DEF FitsOf, CoversOf

\* The larger of 0 and a number is a number.
LEMMA LargerOfZero ==
    ASSUME NEW a \in Int
    PROVE  Max({0, a}) \in Int
<1>1. \E x \in {0, a} : \A y \in {0, a} : x >= y
  <2>1. CASE a >= 0
    BY <2>1
  <2>2. CASE ~ (a >= 0)
    BY <2>2
  <2> QED
    BY <2>1, <2>2
<1> QED
  BY <1>1 DEF Max

\* The SAME padding of dragon, small side first or last, gives one cell per stride begun.
LEMMA DragonSameGoes ==
    ASSUME NEW d, IsWindow(d), d.dilation = 1, NEW small \in BOOLEAN
    PROVE  GoesOver(d, Sum2(DragonSame(d, small)), BeginsOf(d.x, d))
<1> DEFINE y == BeginsOf(d.x, d)
           needed == Max({0, conv2d_backward(y, 0, d.dilation, d.k, d.stride) - d.x})
           before == IF small THEN needed \div 2 ELSE needed - needed \div 2
           rest == pooling2d_backward(y, d.before + d.after, d.k, d.stride) - d.x
           static == d.before + d.after
           m == (y - 1) * d.stride
<1>1. /\ d.x \in Nat \ {0} /\ static \in Int /\ d.k \in Int /\ d.stride \in Nat \ {0}
      /\ KernelExtent(d) = d.k
  BY Extents DEF IsWindow
<1>2. y \in Nat \ {0}
  BY <1>1, SameBegins DEF BeginsOf
<1>3. DragonSame(d, small) = <<before, static + (rest - before)>>
  BY DEF DragonSame, BeginsOf
<1>4. m \in Int
  <2> DEFINE z == y - 1
  <2>1. z \in Int /\ d.stride \in Int
    BY <1>1, <1>2
  <2> HIDE DEF z
  <2>2. z * d.stride \in Int
    BY <2>1
  <2> QED
    BY <2>2 DEF z
<1>5. needed \in Int
  <2>1. conv2d_backward(y, 0, d.dilation, d.k, d.stride) = m + ((1 * (d.k - 1) + 1) - 0)
    BY DEF conv2d_backward
  <2> HIDE DEF m, y
  <2>2. conv2d_backward(y, 0, d.dilation, d.k, d.stride) - d.x \in Int
    BY <1>1, <1>4, <2>1
  <2> QED
    BY <2>2, LargerOfZero
<1>6. rest = (m + (d.k - static)) - d.x
  BY DEF pooling2d_backward
<1> HIDE DEF needed, rest, m, y
<1>7. before \in Int
  <2>1. needed \div 2 \in Int
    BY <1>5, Quotient
  <2> QED
    BY <1>5, <2>1
<1> HIDE DEF before, static
<1>8. Sum2(DragonSame(d, small)) = static + rest
  <2>1. rest \in Int
    BY <1>1, <1>4, <1>6
  <2>2. before + (static + (rest - before)) = static + rest
    BY <1>1, <1>7, <2>1
  <2> QED
    BY <1>3, <2>2 DEF Sum2
<1>9. static + rest \in Int /\ d.x + (static + rest) - d.k = m
  BY <1>1, <1>4, <1>6
<1>10. GoesOver(d, static + rest, y)
  BY <1>1, <1>2, <1>9, FilledExactly DEF GoesOver, m
<1> QED
  BY <1>8, <1>10 DEF y

\* How often a pooling of dragon goes over an image: rounded up, it does not
\* begin behind the end.
DragonGoes(d, ceil_mode) ==
  IF ceil_mode THEN Min({CoversOf(d), (Whole(d) - 1) \div d.stride + 1}) ELSE FitsOf(d)

\* The smaller of two numbers
LEMMA SmallerOfTwo ==
    ASSUME NEW a \in Int, NEW b \in Int
    PROVE  Min({a, b}) = IF a <= b THEN a ELSE b
<1> DEFINE c == IF a <= b THEN a ELSE b
<1>1. c \in {a, b} /\ \A y \in {a, b} : c <= y
  OBVIOUS
<1>2. \A x \in {a, b} : (\A y \in {a, b} : x <= y) => x = c
  OBVIOUS
<1>3. Min({a, b}) = CHOOSE x \in {a, b} : \A y \in {a, b} : x <= y
  BY DEF Min
<1> QED
  BY <1>1, <1>2, <1>3

\* The VALID output of dragon: with ceil_mode the part windows count that begin over the image.
LEMMA DragonForward ==
    ASSUME NEW d, IsWindow(d), KernelExtent(d) <= Whole(d), d.dilation = 1, NEW ceil \in BOOLEAN
    PROVE  /\ dragon_forward_valid(d, ceil) = DragonGoes(d, ceil)
           /\ dragon_forward_valid(d, ceil) \in Nat \ {0}
<1> DEFINE w == Whole(d)  m == w - KernelExtent(d)  s == d.stride
<1>1. m \in Nat /\ m < w /\ w \in Nat \ {0} /\ s \in Nat \ {0} /\ KernelExtent(d) = d.k
  BY Extents DEF IsWindow
<1>2. \A i, j \in Int : i * s \in Int /\ (i + 1) * s = i * s + s /\ (i <= j => i * s <= j * s)
  <2> TAKE i, j \in Int
  <2>1. i * s \in Int /\ (i + 1) * s = i * s + s
    BY <1>1
  <2>2. i <= j => i * s <= j * s
    BY <1>1, Monotone
  <2> QED
    BY <2>1, <2>2
<1>3. CASE ~ ceil
  <2> DEFINE y == m \div s + 1
  <2>1. dragon_forward_valid(d, ceil) = IF (y - 1) * s >= w THEN y - 1 ELSE y
    BY <1>1, <1>3 DEF dragon_forward_valid
  <2>2. DragonGoes(d, ceil) = y /\ y \in Nat \ {0}
    BY <1>3, ValidFits DEF DragonGoes, FitsOf
  <2>3. (y - 1) * s <= m
    <3> DEFINE q == m \div s
    <3> HIDE DEF m, s
    <3>1. q \in Int /\ q * s <= m
      BY <1>1, Quotient
    <3> HIDE DEF q
    <3>2. (q + 1) - 1 = q
      BY <3>1
    <3> QED
      BY <3>1, <3>2 DEF q
  <2> HIDE DEF y, m, w, s
  <2>4. (y - 1) * s \in Int
    BY <1>2, <2>2
  <2>5. ~((y - 1) * s >= w)
    BY <1>1, <2>3, <2>4
  <2> QED
    BY <2>1, <2>2, <2>5
<1>4. CASE ceil
  <2> DEFINE c == CeilQuot(m, s)  q == (w - 1) \div s
  <2>1. dragon_forward_valid(d, ceil) = IF ((c + 1) - 1) * s >= w THEN (c + 1) - 1 ELSE c + 1
    BY <1>1, <1>4 DEF dragon_forward_valid
  <2>2. DragonGoes(d, ceil) = Min({c + 1, q + 1})
    BY <1>4 DEF DragonGoes, CoversOf
  <2> HIDE DEF m, w, s
  <2>3. c \in Int /\ (c - 1) * s < m /\ m <= c * s
    BY <1>1, CeilQuotient
  <2>4. q \in Int /\ q * s <= w - 1 /\ w - 1 < q * s + s
    BY <1>1, Quotient
  <2> HIDE DEF c, q
  <2>5. (c + 1) - 1 = c /\ (q + 1) * s = q * s + s /\ c * s \in Int /\ q * s \in Int
        /\ (c - 1) * s \in Int
    BY <1>2, <2>3, <2>4
  <2>6. c >= 0
    <3> SUFFICES ASSUME c <= -1  PROVE FALSE
      BY <2>3
    <3>1. c * s <= (-1) * s /\ (-1) * s = -s
      BY <1>1, <1>2, <2>3
    <3> QED
      BY <1>1, <2>3, <3>1
  <2>7. DragonGoes(d, ceil) = IF c <= q THEN c + 1 ELSE q + 1
    BY <2>2, <2>3, <2>4, SmallerOfTwo
  <2>8. CASE c * s >= w
    <3>1. ~(c <= q)
      BY <1>1, <1>2, <2>3, <2>4, <2>5, <2>8
    <3>2. c - 1 <= q
      <4> SUFFICES ASSUME q + 1 <= c - 1  PROVE FALSE
        BY <2>3, <2>4
      <4>1. (q + 1) * s <= (c - 1) * s
        BY <1>2, <2>3, <2>4
      <4> QED
        BY <1>1, <2>3, <2>4, <2>5, <4>1
    <3>3. c = q + 1
      BY <2>3, <2>4, <3>1, <3>2
    <3>4. c # 0
      <4> SUFFICES ASSUME c = 0  PROVE FALSE
        OBVIOUS
      <4>1. c * s = 0
        BY <1>1
      <4> QED
        BY <1>1, <2>8, <4>1
    <3> QED
      BY <2>1, <2>3, <2>5, <2>6, <2>7, <2>8, <3>1, <3>3, <3>4
  <2>9. CASE ~(c * s >= w)
    <3>1. c <= q
      <4> SUFFICES ASSUME q + 1 <= c  PROVE FALSE
        BY <2>3, <2>4
      <4>1. (q + 1) * s <= c * s
        BY <1>2, <2>3, <2>4
      <4> QED
        BY <1>1, <2>4, <2>5, <2>9, <4>1
    <3> QED
      BY <2>1, <2>3, <2>5, <2>6, <2>7, <2>9, <3>1
  <2> QED
    BY <2>8, <2>9
<1> QED
  BY <1>3, <1>4

\* dragon_padding_valid gives as many cells as dragon counts.
LEMMA DragonValidGoes ==
    ASSUME NEW d, IsWindow(d), KernelExtent(d) <= Whole(d), d.dilation = 1, NEW ceil \in BOOLEAN
    PROVE  GoesOver(d, Sum2(dragon_padding_valid(d, ceil)), DragonGoes(d, ceil))
BY DragonForward, NeededGoes DEF dragon_padding_valid

-------------------------------------------------------------------------------
SameMethods == {"SAME", "SAME_UPPER", "SAME_LOWER"}

MethodsOf(op) ==
  CASE op \in {"_tf_conv2d_padding", "_tf_pooling2d_padding"} -> {"SAME", "VALID"}
    [] op = "_onnx_pooling2d_padding" -> {"NOTSET", "VALID", "SAME_UPPER", "SAME_LOWER"}
    [] op = "_mx_pooling2d_padding" -> {"VALID", "full"}
    [] OTHER -> SameMethods \union {"VALID", "NOTSET"}

\* The padding of dragon forgets a dilation.
CanPad(n, i) ==
  /\ n.op \in PaddingOperators /\ n.attr.method \in MethodsOf(n.op)
  /\ AttrOr(n, "ceil", TRUE) \in BOOLEAN
  /\ IsWindow(DimAt(n, i))
  /\ n.attr.method \notin SameMethods => KernelExtent(DimAt(n, i)) <= Whole(DimAt(n, i))
  /\ n.op = "_dragon_conv2d_padding" /\ n.attr.method \in SameMethods => DimAt(n, i).dilation = 1

PadsAsFramework(n, i, sides) ==
  FrameworkSize(n, i) = IF n.op \in ConvPaddings THEN PaddedSize(DimAt(n, i), sides)
                        ELSE PooledSize(DimAt(n, i), sides)

\* What the framework of each padding operator computes for an output size, method by method
LEMMA Frameworks ==
    ASSUME NEW n, NEW i, CanPad(n, i)
    PROVE  LET d == DimAt(n, i)
               m == n.attr.method
           IN  /\ m \in SameMethods => FrameworkSize(n, i) =
                    BeginsOf(IF n.op \in {"_dragon_conv2d_padding", "_dragon_pooling2d_padding"}
                             THEN d.x ELSE Whole(d), d)
               /\ m \notin SameMethods /\ n.op = "_dragon_pooling2d_padding" =>
                    FrameworkSize(n, i) = DragonGoes(d, AttrOr(n, "ceil", TRUE))
               /\ m = "full" => FrameworkSize(n, i) = CoversOf(d)
               /\ m \in {"VALID", "NOTSET"} /\ n.op # "_dragon_pooling2d_padding" =>
                    FrameworkSize(n, i) = FitsOf(d)
<1> DEFINE d == DimAt(n, i)
           m == n.attr.method
           dragon == n.op \in {"_dragon_conv2d_padding", "_dragon_pooling2d_padding"}
           whole == IF dragon THEN d.x ELSE Whole(d)
           size == FrameworkSize(n, i)
           begins == CHOOSE y \in 0 .. whole : (y - 1) * d.stride < whole /\ whole <= y * d.stride
<1>1. size =
        CASE m \in {"SAME", "SAME_LOWER", "SAME_UPPER"} -> begins
          [] n.op = "_dragon_pooling2d_padding" /\ DragonMethod(m) = "VALID" ->
               DragonGoes(d, AttrOr(n, "ceil", TRUE))
          [] n.op = "_mx_pooling2d_padding" /\ m # "VALID" -> CoversOf(d)
          [] OTHER -> FitsOf(d)
  BY DEF FrameworkSize, DragonGoes, CoversOf, FitsOf
<1>2. whole \in Nat \ {0} /\ d.stride \in Nat \ {0}
  BY Extents DEF CanPad, IsWindow
<1> HIDE DEF whole
<1>3. begins = BeginsOf(whole, d)
  BY <1>2, SameBegins DEF BeginsOf
<1>4. m \in MethodsOf(n.op) /\ n.op \in PaddingOperators
  BY DEF CanPad
<1> HIDE DEF size, m, d, begins
<1>5. ASSUME m \in SameMethods  PROVE size = BeginsOf(whole, d)
  <2>1. m \in {"SAME", "SAME_LOWER", "SAME_UPPER"}
    BY <1>5 DEF SameMethods
  <2>2. DragonMethod(m) # "VALID" /\ ~(n.op = "_mx_pooling2d_padding")
    BY <1>4, <2>1 DEF MethodsOf, DragonMethod
  <2>3. size = begins
    BY ONLY <1>1, <2>1, <2>2
  <2> QED
    BY <1>3, <2>3
<1>6. m \notin SameMethods /\ n.op = "_dragon_pooling2d_padding" =>
        size = DragonGoes(d, AttrOr(n, "ceil", TRUE))
  BY <1>1, <1>4 DEF SameMethods, MethodsOf, DragonMethod
<1>7. m = "full" => size = CoversOf(d)
  BY <1>1, <1>4 DEF SameMethods, MethodsOf, DragonMethod, PaddingOperators
<1>8. m \in {"VALID", "NOTSET"} /\ n.op # "_dragon_pooling2d_padding" => size = FitsOf(d)
  BY <1>1, <1>4 DEF SameMethods, MethodsOf, PaddingOperators
<1> QED
  BY <1>5, <1>6, <1>7, <1>8 DEF size, m, d, whole

\* The padding that the operator computes for dimension i of node n gives the output the size
\* that the framework of that node gives it (DynamicPadding of backend/tf, onnx, mxnet, dragon).
LEMMA NodePadding ==
    ASSUME NEW n, NEW i, CanPad(n, i)
    PROVE  PadsAsFramework(n, i, PaddingAt(n, i))
<1> DEFINE d == DimAt(n, i)
           m == n.attr.method
           ceil == AttrOr(n, "ceil", TRUE)
           sides == PaddingAt(n, i)
           size == FrameworkSize(n, i)
           conv == n.op \in ConvPaddings
<1>1. /\ n.op \in PaddingOperators /\ m \in MethodsOf(n.op) /\ ceil \in BOOLEAN /\ IsWindow(d)
      /\ m \notin SameMethods => KernelExtent(d) <= Whole(d)
      /\ n.op = "_dragon_conv2d_padding" /\ m \in SameMethods => d.dilation = 1
  BY DEF CanPad
<1>2. ~conv => d.dilation = 1
  BY DEF DimAt
<1>3. sides = PadDim(n.op, m, ceil, d)
  BY DEF PaddingAt
<1>4. ASSUME GoesOver(d, Sum2(sides), size)  PROVE PadsAsFramework(n, i, sides)
  BY <1>2, <1>4 DEF GoesOver, PadsAsFramework, PaddedSize, PooledSize, Sum2
<1>5. /\ m \in SameMethods => size = BeginsOf(
           IF n.op \in {"_dragon_conv2d_padding", "_dragon_pooling2d_padding"}
           THEN d.x ELSE Whole(d), d)
      /\ m \notin SameMethods /\ n.op = "_dragon_pooling2d_padding" => size = DragonGoes(d, ceil)
      /\ m = "full" => size = CoversOf(d)
      /\ m \in {"VALID", "NOTSET"} /\ n.op # "_dragon_pooling2d_padding" => size = FitsOf(d)
  BY Frameworks
<1> SUFFICES PadsAsFramework(n, i, sides)
  OBVIOUS
<1> HIDE DEF d, ceil, sides, size, m
<1>6. CASE n.op \in {"_tf_conv2d_padding", "_tf_pooling2d_padding"}
  <2>1. CASE m = "SAME"
    <3>1. sides = dynamic_padding_same(d) /\ size = BeginsOf(Whole(d), d)
      BY <1>3, <1>5, <1>6, <2>1 DEF PadDim, SameMethods
    <3> QED
      BY <1>1, <1>4, <3>1, SameGoes
  <2>2. CASE m = "VALID"
    <3>1. sides = dynamic_padding_valid(d) /\ size = FitsOf(d) /\ KernelExtent(d) <= Whole(d)
      BY <1>1, <1>3, <1>5, <1>6, <2>2 DEF PadDim, SameMethods
    <3> QED
      BY <1>1, <1>4, <3>1, ValidGoes
  <2> QED
    BY <1>1, <1>6, <2>1, <2>2 DEF MethodsOf
<1>7. CASE n.op = "_onnx_pooling2d_padding"
  <2>1. CASE m = "NOTSET"
    <3>1. /\ sides = dynamic_padding_notset(d) /\ size = FitsOf(d) /\ KernelExtent(d) <= Whole(d)
          /\ d.dilation = 1
      BY <1>1, <1>2, <1>3, <1>5, <1>7, <2>1 DEF PadDim, SameMethods, ConvPaddings
    <3> QED
      BY <1>1, <1>4, <3>1, NotSetGoes
  <2>2. CASE m = "VALID"
    <3>1. sides = dynamic_padding_valid(d) /\ size = FitsOf(d) /\ KernelExtent(d) <= Whole(d)
      BY <1>1, <1>3, <1>5, <1>7, <2>2 DEF PadDim, SameMethods
    <3> QED
      BY <1>1, <1>4, <3>1, ValidGoes
  <2>3. CASE m = "SAME_UPPER"
    <3>1. sides = dynamic_padding_same(d) /\ size = BeginsOf(Whole(d), d)
      BY <1>3, <1>5, <1>7, <2>3 DEF PadDim, SameMethods
    <3> QED
      BY <1>1, <1>4, <3>1, SameGoes
  <2>4. CASE m = "SAME_LOWER"
    <3>1. sides = dynamic_padding_same_lower(d) /\ size = BeginsOf(Whole(d), d)
      BY <1>3, <1>5, <1>7, <2>4 DEF PadDim, SameMethods
    <3> QED
      BY <1>1, <1>4, <3>1, SameGoes
  <2> QED
    BY <1>1, <1>7, <2>1, <2>2, <2>3, <2>4 DEF MethodsOf
<1>8. CASE n.op = "_mx_pooling2d_padding"
  <2>0. ~conv /\ d.dilation = 1
    BY <1>2, <1>8 DEF ConvPaddings
  <2>1. CASE m = "VALID"
    <3>1. sides = dynamic_padding_notset(d) /\ size = FitsOf(d) /\ KernelExtent(d) <= Whole(d)
      BY <1>1, <1>3, <1>5, <1>8, <2>1 DEF PadDim, SameMethods
    <3> QED
      BY <1>1, <1>4, <2>0, <3>1, NotSetGoes
  <2>2. CASE m = "full"
    <3>1. sides = <<d.before, d.after>> /\ size = CoversOf(d) /\ KernelExtent(d) <= Whole(d)
      BY <1>1, <1>3, <1>5, <1>8, <2>2 DEF PadDim, SameMethods
    <3>2. PooledSize(d, sides) = CoversOf(d)
      BY <1>1, <2>0, <3>1, StaticGoes DEF PooledSize
    <3> QED
      BY <2>0, <3>1, <3>2 DEF PadsAsFramework, d, size, sides
  <2> QED
    BY <1>1, <1>8, <2>1, <2>2 DEF MethodsOf
<1>9. CASE n.op = "_dragon_conv2d_padding"
  <2>0. conv
    BY <1>9 DEF ConvPaddings
  <2>1. CASE m \in SameMethods
    <3>1. PICK small \in BOOLEAN : sides = DragonSame(d, small)
      BY <1>3, <1>9, <2>1 DEF PadDim, SameMethods, DragonMethod, dragon_conv2d_same
    <3>2. size = BeginsOf(d.x, d)
      BY <1>5, <1>9, <2>1
    <3> QED
      BY <1>1, <1>4, <1>9, <2>1, <3>1, <3>2, DragonSameGoes
  <2>2. CASE m \in {"VALID", "NOTSET"}
    <3>1. sides = <<d.before, d.after>> /\ size = FitsOf(d) /\ KernelExtent(d) <= Whole(d)
      BY <1>1, <1>3, <1>5, <1>9, <2>2 DEF PadDim, SameMethods, DragonMethod, dragon_conv2d_valid
    <3>2. PaddedSize(d, sides) = FitsOf(d)
      BY <1>1, <3>1, StaticGoes DEF PaddedSize
    <3> QED
      BY <2>0, <3>1, <3>2 DEF PadsAsFramework, d, size, sides
  <2> QED
    BY <1>1, <1>9, <2>1, <2>2 DEF MethodsOf
<1>10. CASE n.op = "_dragon_pooling2d_padding"
  <2>0. d.dilation = 1
    BY <1>2, <1>10 DEF ConvPaddings
  <2>1. CASE m \in SameMethods
    <3>1. PICK small \in BOOLEAN : sides = DragonSame(d, small)
      BY <1>3, <1>10, <2>1 DEF PadDim, SameMethods, DragonMethod, dragon_pooling_same
    <3>2. size = BeginsOf(d.x, d)
      BY <1>5, <1>10, <2>1
    <3> QED
      BY <1>1, <1>4, <2>0, <3>1, <3>2, DragonSameGoes
  <2>2. CASE m \in {"VALID", "NOTSET"}
    <3>1. sides = dragon_padding_valid(d, ceil) /\ size = DragonGoes(d, ceil)
          /\ KernelExtent(d) <= Whole(d)
      BY <1>1, <1>3, <1>5, <1>10, <2>2 DEF PadDim, SameMethods, DragonMethod
    <3> QED
      BY <1>1, <1>4, <2>0, <3>1, DragonValidGoes
  <2> QED
    BY <1>1, <1>10, <2>1, <2>2 DEF MethodsOf
<1> QED
  BY <1>1, <1>6, <1>7, <1>8, <1>9, <1>10 DEF PaddingOperators

-------------------------------------------------------------------------------
\* Numbers, if any, have a least one.
LEMMA LeastOf ==
    ASSUME NEW S, S \subseteq Nat, S # {}
    PROVE  \E n \in S : \A m \in S : n <= m
<1> DEFINE R == {p \in Nat \X Nat : p[1] < p[2]}
<1>1. IsWellFoundedOn(R, Nat)
  BY NatLessThanWellFounded DEF OpToRel
<1>2. PICK x \in S : \A y \in S : ~ (<<y, x>> \in R)
  <2> HIDE DEF R
  <2> QED
    BY <1>1, WFMin
<1>3. \A y \in S : <<y, x>> \in R <=> y < x
  OBVIOUS
<1>4. \A m \in S : ~ (m < x)
  BY <1>2, <1>3
<1> QED
  BY <1>4

\* The inputs of node i that are not found yet, and the node whose turn it is from i on
OpenInputs(i) ==
  {k \in DOMAIN graph[i].inputs : \/ graph[i].inputs[k] \notin DOMAIN cache
                                  \/ cache[graph[i].inputs[k]] = VOID}
FirstOpen(i) == graph[i].inputs[Min(OpenInputs(i))]
TurnOf(f, i) ==
  IF OpenInputs(i) = {} THEN i ELSE IF FirstOpen(i) \in DOMAIN cache THEN i ELSE f[FirstOpen(i)]
Walks(f) == f = [i \in Nodes |-> TurnOf(f, i)]

\* Turn is the value at target of a function that walks back to the first open input.
LEMMA TurnIs == Turn = (CHOOSE f : Walks(f))[target]
BY Zenon DEF Turn, Walks, TurnOf, OpenInputs, FirstOpen

\* A node's inputs come before it.
LEMMA InputsAreBefore ==
    ASSUME problem \in Problems, NEW i \in Nodes
    PROVE  /\ Nodes \subseteq Nat \ {0} /\ i \in Nat
           /\ \A k \in DOMAIN graph[i].inputs :
                k \in Nat /\ graph[i].inputs[k] \in Nodes /\ graph[i].inputs[k] < i
<1>1. Nodes = 1 .. Len(graph) /\ graph[i].inputs \in Seq(1 .. i - 1)
  BY ProblemsAssumption DEF Nodes, graph
<1>2. Len(graph) \in Int
  BY <1>1
<1> QED
  BY <1>1, <1>2

\* So does its first open input, and if that one is VOID the node is blocked.
LEMMA FirstOpenIsBefore ==
    ASSUME problem \in Problems, NEW i \in Nodes, OpenInputs(i) # {}
    PROVE  /\ FirstOpen(i) \in Nodes /\ FirstOpen(i) < i
           /\ FirstOpen(i) \in DOMAIN cache => Blocked(i)
<1> DEFINE S == OpenInputs(i)
<1>0. FirstOpen(i) = graph[i].inputs[Min(S)]
  BY DEF FirstOpen
<1>1. S \subseteq DOMAIN graph[i].inputs /\ S \subseteq Nat
  BY InputsAreBefore DEF OpenInputs
<1>2. Min(S) \in S
  <2> HIDE DEF S
  <2>1. \E n \in S : \A m \in S : n <= m
    BY <1>1, LeastOf DEF S
  <2> QED
    BY <2>1 DEF Min
<1>3. Min(S) \in DOMAIN graph[i].inputs
  <2> HIDE DEF S
  <2> QED
    BY ONLY <1>1, <1>2
<1>4. FirstOpen(i) \in DOMAIN cache => Blocked(i)
  BY <1>0, <1>2, <1>3 DEF OpenInputs, Blocked
<1> HIDE DEF S
<1> QED
  BY <1>0, <1>3, <1>4, InputsAreBefore

\* Where the walk goes from a node depends on the nodes before it.
LEMMA TurnOfDependsOnSmaller ==
    ASSUME problem \in Problems, NEW i \in Nodes, NEW f, NEW g,
           \A j \in Nodes : j < i => f[j] = g[j]
    PROVE  TurnOf(f, i) = TurnOf(g, i)
<1>1. CASE OpenInputs(i) = {}
  BY <1>1 DEF TurnOf
<1>2. CASE OpenInputs(i) # {}
  <2>1. f[FirstOpen(i)] = g[FirstOpen(i)]
    BY <1>2, FirstOpenIsBefore
  <2> QED
    BY <2>1 DEF TurnOf
<1> QED
  BY <1>1, <1>2

\* There is such a walk: on the nodes up to any one, by the least node without.
LEMMA WalksExists ==
    ASSUME problem \in Problems
    PROVE  \E f : Walks(f)
<1> DEFINE L == Len(graph)
           Upto(f, n) == \A i \in Nodes : i <= n => f[i] = TurnOf(f, i)
           Bad == {n \in Nat : ~ \E f : Upto(f, n)}
<1>1. Nodes = 1 .. L /\ L \in Int
  BY ProblemsAssumption DEF Nodes, graph
<1>2. ASSUME NEW n \in Nat, NEW f, \A i \in Nodes : i < n => f[i] = TurnOf(f, i)
      PROVE  n \notin Bad
  <2> DEFINE g == [i \in Nodes |-> IF i < n THEN f[i] ELSE TurnOf(f, i)]
  <2>1. ASSUME NEW i \in Nodes, i <= n
        PROVE  g[i] = TurnOf(g, i)
    <3>1. \A j \in Nodes : j < i => g[j] = f[j]
      BY <1>1, <2>1
    <3>2. g[i] = TurnOf(f, i)
      BY <1>2
    <3> HIDE DEF g
    <3> QED
      BY <3>1, <3>2, TurnOfDependsOnSmaller
  <2> HIDE DEF g
  <2> QED
    BY <2>1
<1>3. Bad = {}
  <2> SUFFICES ASSUME Bad # {}  PROVE FALSE
    OBVIOUS
  <2> HIDE DEF Upto
  <2>1. PICK n \in Bad : \A m \in Bad : n <= m
    BY LeastOf
  <2>2. n \in Nat
    OBVIOUS
  <2>3. PICK f : \A i \in Nodes : i < n => f[i] = TurnOf(f, i)
    <3>1. CASE n = 0
      BY <1>1, <3>1
    <3>2. CASE n # 0
      <4>1. n - 1 \in Nat /\ n - 1 \notin Bad
        BY <2>1, <2>2, <3>2
      <4>2. PICK f : Upto(f, n - 1)
        BY <4>1
      <4>3. \A i \in Nodes : i < n => i <= n - 1
        BY <1>1, <2>2
      <4> QED
        BY <4>2, <4>3 DEF Upto
    <3> QED
      BY <3>1, <3>2
  <2> QED
    BY <1>2, <2>1, <2>2, <2>3
<1>4. PICK m \in Nat : \A i \in Nodes : i <= m
  <2>1. CASE L \in Nat
    BY <1>1, <2>1
  <2>2. CASE L \notin Nat
    <3>1. Nodes = {}
      BY <1>1, <2>2
    <3> QED
      BY <3>1
  <2> QED
    BY <2>1, <2>2
<1>5. PICK f : Upto(f, m)
  BY <1>3
<1> DEFINE g == [i \in Nodes |-> f[i]]
<1>6. ASSUME NEW i \in Nodes  PROVE g[i] = TurnOf(g, i)
  <2>1. g[i] = TurnOf(f, i)
    BY <1>4, <1>5
  <2>2. \A j \in Nodes : j < i => g[j] = f[j]
    OBVIOUS
  <2> HIDE DEF g
  <2> QED
    BY <2>1, <2>2, TurnOfDependsOnSmaller
<1>7. g = [i \in Nodes |-> TurnOf(g, i)]
  BY <1>6
<1> QED
  BY <1>7 DEF Walks

\* The node whose turn it is, is not found yet; of its inputs all are found, or one is VOID.
LEMMA TurnReached ==
    ASSUME problem \in Problems, target \in Nodes, target \notin DOMAIN cache
    PROVE  /\ Turn \in Nodes /\ Turn \notin DOMAIN cache
           /\ OpenInputs(Turn) = {} \/ Blocked(Turn)
<1> DEFINE f == CHOOSE f : Walks(f)
           Good(i) == /\ f[i] \in Nodes /\ f[i] \notin DOMAIN cache
                      /\ OpenInputs(f[i]) = {} \/ Blocked(f[i])
           Bad == {i \in Nodes : i \notin DOMAIN cache /\ ~Good(i)}
<1>1. Turn = f[target]
  BY TurnIs
<1>2. Walks(f)
  BY WalksExists
<1> HIDE DEF f
<1>3. \A i \in Nodes : f[i] = TurnOf(f, i)
  BY <1>2 DEF Walks
<1>4. Bad = {}
  <2> SUFFICES ASSUME Bad # {}  PROVE FALSE
    OBVIOUS
  <2>1. Bad \subseteq Nat
    BY InputsAreBefore
  <2> HIDE DEF Good
  <2>2. PICK i \in Bad : \A j \in Bad : i <= j
    BY <2>1, LeastOf
  <2>3. i \in Nodes /\ i \notin DOMAIN cache /\ ~Good(i) /\ f[i] = TurnOf(f, i) /\ i \in Nat
    BY <1>3, <2>1
  <2>4. CASE OpenInputs(i) = {}
    BY <2>3, <2>4 DEF TurnOf, Good
  <2>5. CASE OpenInputs(i) # {}
    <3>1. /\ FirstOpen(i) \in Nodes /\ FirstOpen(i) < i /\ FirstOpen(i) \in Nat
          /\ FirstOpen(i) \in DOMAIN cache => Blocked(i)
      BY <2>3, <2>5, FirstOpenIsBefore, InputsAreBefore
    <3>2. CASE FirstOpen(i) \in DOMAIN cache
      <4>1. f[i] = i
        BY <2>3, <2>5, <3>2 DEF TurnOf
      <4> QED
        BY <2>3, <3>1, <3>2, <4>1 DEF Good
    <3>3. CASE FirstOpen(i) \notin DOMAIN cache
      <4>1. f[i] = f[FirstOpen(i)]
        BY <2>3, <2>5, <3>3 DEF TurnOf
      <4>2. FirstOpen(i) \notin Bad
        BY <2>2, <2>3, <3>1
      <4>3. Good(FirstOpen(i))
        BY <3>1, <3>3, <4>2
      <4> QED
        BY <2>3, <4>1, <4>3 DEF Good
    <3> QED
      BY <3>2, <3>3
  <2> QED
    BY <2>4, <2>5
<1>5. Good(target)
  BY <1>4
<1> QED
  BY <1>1, <1>5

-------------------------------------------------------------------------------
InputsFound(i) == \A k \in DOMAIN graph[i].inputs : graph[i].inputs[k] \in DOMAIN cache

\* The value that running a padding operator gives, or {} if it does not run
PaddingOf(n) == try_run(OnImage(n))

PaddingIsCurrent(i) == PaddingOf(Applied(i)) = {} \/ value[i] = PaddingOf(Applied(i))

IsPaddingFound(i) == graph[i].op \in PaddingOperators /\ cache[i] # VOID

InfererInv ==
  /\ problem \in Problems /\ DOMAIN cache \subseteq Nodes /\ DOMAIN value = Nodes
  /\ target \in Nodes \union {0} /\ target \notin DOMAIN cache
  /\ \A i \in DOMAIN cache : IsPaddingFound(i) => InputsFound(i) /\ PaddingIsCurrent(i)

\* Nothing is found at the start.
LEMMA InfererInit == Init => InfererInv
<1> SUFFICES ASSUME Init  PROVE InfererInv
  OBVIOUS
<1>1. DOMAIN cache = {}
  BY DEF Init
<1> QED
  BY <1>1 DEF Init, InfererInv

\* Nothing that a found node was computed from changes when node i is found.
LEMMA AppliedStays ==
    ASSUME problem \in Problems, problem' = problem, NEW i \in Nodes, i \notin DOMAIN cache, NEW proto,
           cache' = [j \in DOMAIN cache \union {i} |-> IF j = i THEN proto ELSE cache[j]],
           \A j \in Nodes : j # i => value'[j] = value[j],
           NEW j \in Nodes, InputsFound(j)
    PROVE  Applied(j)' = Applied(j) /\ InputsFound(j)'
<1> DEFINE inputs == graph[j].inputs
<1>1. graph' = graph
  BY DEF graph
<1>2. ASSUME NEW k \in DOMAIN inputs
      PROVE  /\ inputs[k] \in DOMAIN cache' /\ cache'[inputs[k]] = cache[inputs[k]]
             /\ get_value(inputs[k])' = get_value(inputs[k])
  <2>1. inputs[k] \in DOMAIN cache /\ inputs[k] # i /\ inputs[k] \in Nodes
    BY InputsAreBefore DEF InputsFound
  <2> QED
    BY <1>1, <2>1 DEF get_value
<1>3. InputsFound(j)'
  BY <1>1, <1>2 DEF InputsFound
<1>4. [k \in DOMAIN inputs |-> cache'[inputs[k]]] = [k \in DOMAIN inputs |-> cache[inputs[k]]]
  BY <1>2
<1>5. [k \in DOMAIN inputs |-> get_value(inputs[k])'] = [k \in DOMAIN inputs |-> get_value(inputs[k])]
  BY <1>2
<1>6. Applied(j)' = Applied(j)
  <2> DEFINE in == [k \in DOMAIN inputs |-> cache[inputs[k]]]
             val == [k \in DOMAIN inputs |-> get_value(inputs[k])]
  <2>1. Applied(j) = [op |-> graph[j].op, attr |-> graph[j].attr, in |-> in, val |-> val]
    BY Zenon DEF Applied
  <2>2. Applied(j)' = [op |-> graph'[j].op, attr |-> graph'[j].attr, in |-> in', val |-> val']
    BY Zenon DEF Applied
  <2>3. in' = in
    BY <1>1, <1>4, Zenon
  <2>4. val' = val
    BY <1>1, <1>5, Zenon
  <2> HIDE DEF in, val
  <2> QED
    BY ONLY <1>1, <2>1, <2>2, <2>3, <2>4
<1> QED
  BY <1>3, <1>6

\* What was found stays current, and so does what is found now, if it was run on what is there.
LEMMA FindStep ==
    ASSUME InfererInv, problem' = problem, NEW i \in Nodes, i \notin DOMAIN cache, NEW proto,
           cache' = [j \in DOMAIN cache \union {i} |-> IF j = i THEN proto ELSE cache[j]],
           target # 0, target' = (IF i = target THEN 0 ELSE target),
           DOMAIN value' = Nodes, \A j \in Nodes : j # i => value'[j] = value[j],
           graph[i].op \in PaddingOperators /\ proto # VOID =>
             /\ InputsFound(i)
             /\ PaddingOf(Applied(i)) = {} \/ value'[i] = PaddingOf(Applied(i))
    PROVE  InfererInv'
<1>1. graph' = graph /\ Nodes' = Nodes /\ Nodes \subseteq Nat \ {0} /\ problem \in Problems
  BY InputsAreBefore DEF InfererInv, graph, Nodes
<1>2. DOMAIN cache' = DOMAIN cache \union {i} /\ cache'[i] = proto
      /\ \A j \in DOMAIN cache : cache'[j] = cache[j]
  OBVIOUS
<1>3. target' \in (Nodes \union {0})' /\ target' \notin DOMAIN cache'
  BY <1>1, <1>2 DEF InfererInv
<1>4. ASSUME NEW j \in DOMAIN cache', IsPaddingFound(j)'
      PROVE  InputsFound(j)' /\ PaddingIsCurrent(j)'
  <2>1. InputsFound(j) /\ j \in Nodes /\ (PaddingOf(Applied(j)) = {} \/ value'[j] = PaddingOf(Applied(j)))
    <3>1. CASE j = i
      BY <1>1, <1>2, <1>4, <3>1 DEF IsPaddingFound
    <3>2. CASE j # i
      <4>1. j \in DOMAIN cache /\ j \in Nodes /\ IsPaddingFound(j)
        BY <1>1, <1>2, <1>4, <3>2 DEF IsPaddingFound, InfererInv
      <4>2. InputsFound(j) /\ PaddingIsCurrent(j) /\ value'[j] = value[j]
        BY <3>2, <4>1 DEF InfererInv
      <4> QED
        BY <4>1, <4>2 DEF PaddingIsCurrent
    <3> QED
      BY <3>1, <3>2
  <2>2. Applied(j)' = Applied(j) /\ InputsFound(j)'
    BY <1>1, <2>1, AppliedStays
  <2>3. PaddingOf(Applied(j))' = PaddingOf(Applied(j))
    BY <2>2 DEF PaddingOf
  <2> QED
    BY <2>1, <2>2, <2>3 DEF PaddingIsCurrent
<1>5. problem' \in Problems /\ DOMAIN cache' \subseteq Nodes' /\ DOMAIN value' = Nodes'
  BY <1>1, <1>2 DEF InfererInv
<1> QED
  BY <1>3, <1>4, <1>5 DEF InfererInv

\* A padding operator that runs leaves what it computed as the node's value.
LEMMA RunGivesValue ==
    ASSUME NEW i, NEW n, n.op = graph[i].op, graph[i].op \in PaddingOperators
    PROVE  PaddingOf(n) = {} \/ NewValue(i, n) = PaddingOf(n)
<1>1. i \notin Params /\ graph[i].op # "<const>"
  BY DEF Params, PaddingOperators
<1>2. RuleValue(n) = PaddingOf(n)
  BY DEF RuleValue, PaddingOf, PaddingOperators
<1> QED
  BY <1>1, <1>2 DEF NewValue, Either

\* A step of the inferer that finds a node, without or with a value, keeps the invariant; one
\* that throws or sets a shape empties the cache.
LEMMA InfererNext == InfererInv /\ [Next]_vars => InfererInv'
<1> SUFFICES ASSUME InfererInv, [Next]_vars  PROVE InfererInv'
  OBVIOUS
<1>1. ASSUME NEW s \in problem.shapes, SetShape(s)  PROVE InfererInv'
  <2>1. DOMAIN cache' = {} /\ graph' = graph
    BY <1>1 DEF SetShape, graph
  <2> QED
    BY <1>1, <2>1 DEF SetShape, InfererInv, Nodes
<1>2. ASSUME NEW i \in Nodes, Call(i)  PROVE InfererInv'
  <2>1. DOMAIN cache' = {} /\ graph' = graph
    BY <1>2 DEF Call, graph
  <2> QED
    BY <1>2, <2>1 DEF Call, InfererInv, Nodes
<1>3. CASE Step
  <2>1. PICK i : /\ i = Turn /\ target # 0
                 /\ InferNothing(i) \/ (~ Blocked(i) /\ \E n \in {Applied(i)} : Infer(i, n) \/ Throw(i, n))
    BY <1>3 DEF Step
  <2>2. /\ target \in Nodes /\ target \notin DOMAIN cache /\ problem \in Problems
        /\ DOMAIN value = Nodes
    BY <2>1 DEF InfererInv
  <2>3. i \in Nodes /\ i \notin DOMAIN cache /\ (OpenInputs(i) = {} \/ Blocked(i))
    BY <2>1, <2>2, TurnReached
  <2>4. CASE InferNothing(i)
    <3>1. /\ problem' = problem /\ value' = value
          /\ cache' = [j \in DOMAIN cache \union {i} |-> IF j = i THEN VOID ELSE cache[j]]
          /\ target' = (IF i = target THEN 0 ELSE target)
      BY <2>4 DEF InferNothing, Remember
    <3> QED
      BY <2>1, <2>2, <2>3, <3>1, FindStep
  <2>5. CASE ~ Blocked(i) /\ Infer(i, Applied(i))
    <3>1. PICK proto :
            /\ problem' = problem
            /\ cache' = [j \in DOMAIN cache \union {i} |-> IF j = i THEN proto ELSE cache[j]]
            /\ target' = (IF i = target THEN 0 ELSE target)
            /\ value' = IF proto = VOID THEN value
                        ELSE [value EXCEPT ![i] = NewValue(i, Applied(i))]
      BY <2>5 DEF Infer, Remember
    <3>2. InputsFound(i)
      BY <2>3, <2>5 DEF OpenInputs, InputsFound
    <3>3. Applied(i).op = graph[i].op
      BY DEF Applied
    <3>4. graph[i].op \in PaddingOperators /\ proto # VOID =>
            PaddingOf(Applied(i)) = {} \/ value'[i] = PaddingOf(Applied(i))
      BY <2>2, <2>3, <3>1, <3>3, RunGivesValue
    <3>5. DOMAIN value' = Nodes /\ \A j \in Nodes : j # i => value'[j] = value[j]
      BY <2>2, <3>1
    <3> QED
      BY <2>1, <2>3, <3>1, <3>2, <3>4, <3>5, FindStep
  <2>6. CASE Throw(i, Applied(i))
    <3>1. DOMAIN cache' = {} /\ graph' = graph
      BY <2>6 DEF Throw, graph
    <3> QED
      BY <2>6, <3>1 DEF Throw, InfererInv, Nodes
  <2> QED
    BY <2>1, <2>4, <2>5, <2>6
<1>4. CASE UNCHANGED vars
  <2>1. graph' = graph /\ cache' = cache /\ value' = value /\ target' = target /\ problem' = problem
    BY <1>4 DEF vars, graph
  <2>2. \A i : Applied(i)' = Applied(i) /\ InputsFound(i)' = InputsFound(i)
    BY <2>1 DEF Applied, get_value, InputsFound
  <2> QED
    BY <1>4, <2>1, <2>2 DEF InfererInv, Nodes, IsPaddingFound, PaddingIsCurrent, PaddingOf
<1> QED
  BY <1>1, <1>2, <1>3, <1>4 DEF Next

\* InfererInv holds throughout.
LEMMA InfererInvariant == Spec => []InfererInv
BY InfererInit, InfererNext, PTL DEF Spec

-------------------------------------------------------------------------------
\* What running a padding operator gives is the padding for the node as it was asked.
IsNode(n) ==
  /\ n = [op |-> n.op, attr |-> n.attr, in |-> n.in, val |-> n.val]
  /\ DOMAIN n.val = DOMAIN n.in

Shaped(n) ==
  /\ DOMAIN n.in = 1 .. IF n.op \in ConvPaddings THEN 2 ELSE 3
  /\ Spatial(n) \subseteq DOMAIN X(n)
  /\ n.op \in ConvPaddings => The(n.val[2]).sizes = W(n, 2)

\* The node that the operator sees
Seen(n) ==
  [op |-> n.op, attr |-> n.attr, val |-> OnImage(n).val,
   in |-> [k \in DOMAIN OnImage(n).val |->
             One(The(OnImage(n).val[k]).type, The(OnImage(n).val[k]).sizes)]]

\* What running a padding operator gives is the eight numbers of the node as the operator sees it.
LEMMA ValueIsPadding ==
    ASSUME NEW n, IsNode(n), Shaped(n), n.op \in PaddingOperators, NEW v \in PaddingOf(n)
    PROVE  v.data = Padding(Seen(n))
<1> DEFINE m == OnImage(n)
           a == [m EXCEPT !.in = [k \in DOMAIN m.val |-> One(The(m.val[k]).type, The(m.val[k]).sizes)]]
<1>1. v \in Evaluated(m)
  BY DEF PaddingOf, try_run
<1>2. m = [op |-> n.op, attr |-> n.attr, in |-> n.in, val |-> m.val]
  <2> DEFINE u == {Value("float", [X(n) EXCEPT ![1] = 1], <<>>)}
             y == [n.val EXCEPT ![1] = u]
  <2>1. m = [n EXCEPT !.val = y]
    BY DEF OnImage
  <2> HIDE DEF m, y
  <2>2. m = [op |-> n.op, attr |-> n.attr, in |-> n.in, val |-> y]
    BY <2>1 DEF IsNode
  <2> QED
    BY <2>2
<1>3. a = Seen(n)
  BY <1>2 DEF Seen
<1>4. v \in UNION {UNION {Output(b, proto) : proto \in {Proto(b)}} : b \in {a}}
  BY <1>1 DEF Evaluated
<1> HIDE DEF a, m
<1>5. v \in Output(a, Proto(a))
  BY <1>4
<1>6. PICK type, sizes, out : v = Value(type, sizes, Elements(a, out))
  BY <1>5 DEF Output
<1>7. a.op \in PaddingOperators
  BY <1>3 DEF Seen
<1>8. Elements(a, out) = Padding(a)
  BY <1>7 DEF Elements, PaddingOperators, SameElements
<1> QED
  BY <1>3, <1>6, <1>8 DEF Value

\* The operator sees the sizes that the inferer knows, so it computes the same padding for them.
LEMMA SeenSame ==
    ASSUME NEW n, IsNode(n), Shaped(n), n.op \in PaddingOperators, NEW d \in Spatial(n)
    PROVE  /\ Spatial(Seen(n)) = Spatial(n)
           /\ PaddingAt(Seen(n), d) = PaddingAt(n, d)
<1> DEFINE a == Seen(n)  x == [X(n) EXCEPT ![1] = 1]
<1>1. a.op = n.op /\ a.attr = n.attr
  BY DEF Seen
<1>2. OnImage(n).val = [n.val EXCEPT ![1] = {Value("float", x, <<>>)}]
  BY DEF OnImage, IsNode
<1>3. /\ 1 \in DOMAIN n.val /\ 2 \in DOMAIN n.val
      /\ n.op \notin ConvPaddings => 3 \in DOMAIN n.val
  BY DEF Shaped, IsNode
<1>4. The({Value("float", x, <<>>)}) = Value("float", x, <<>>)
  BY DEF The
<1>5. /\ DOMAIN OnImage(n).val = DOMAIN n.val
      /\ OnImage(n).val[1] = {Value("float", x, <<>>)}
      /\ OnImage(n).val[2] = n.val[2]
      /\ n.op \notin ConvPaddings => OnImage(n).val[3] = n.val[3]
  BY <1>2, <1>3
<1>6. X(a) = x
  <2>1. a.in[1] = One(The(OnImage(n).val[1]).type, The(OnImage(n).val[1]).sizes)
    BY <1>3, <1>5 DEF Seen
  <2> HIDE DEF x
  <2>2. The(OnImage(n).val[1]).sizes = x
    BY <1>4, <1>5 DEF Value
  <2> QED
    BY <2>1, <2>2 DEF X, One
<1>7. W(a, 2) = The(n.val[2]).sizes
  <2>1. a.in[2] = One(The(OnImage(n).val[2]).type, The(OnImage(n).val[2]).sizes)
    BY <1>3, <1>5 DEF Seen
  <2> QED
    BY <1>5, <2>1 DEF W, One
<1>8. Val(a, 2) = Val(n, 2) /\ (n.op \notin ConvPaddings => Val(a, 3) = Val(n, 3))
  BY <1>5 DEF Val, Seen
<1>9. \A name, default : AttrOr(a, name, default) = AttrOr(n, name, default)
  BY <1>1 DEF AttrOr, Has
<1> HIDE DEF a
<1>10. FormatOf(a) = FormatOf(n) /\ StaticPadding(a) = StaticPadding(n)
  BY <1>9 DEF FormatOf, StaticPadding
<1>11. Spatial(a) = Spatial(n)
  BY <1>10 DEF Spatial
<1>12. X(a)[d] = X(n)[d]
  <2>1. d # 1 /\ d \in DOMAIN X(n)
    BY DEF Shaped, Spatial, FirstSpatial
  <2> QED
    BY <1>6, <2>1
<1>13. DimAt(a, d) = DimAt(n, d)
  <2>1. CASE n.op \in ConvPaddings
    <3>1. W(a, 2) = W(n, 2)
      BY <1>7, <2>1 DEF Shaped
    <3> QED
      BY <1>1, <1>10, <1>12, <2>1, <3>1 DEF DimAt
  <2>2. CASE n.op \notin ConvPaddings
    BY <1>1, <1>8, <1>10, <1>12, <2>2 DEF DimAt
  <2> QED
    BY <2>1, <2>2
<1>14. PaddingAt(a, d) = PaddingAt(n, d)
  BY <1>1, <1>9, <1>13 DEF PaddingAt
<1> QED
  BY <1>11, <1>14 DEF a

\* Both sides of dimension d in the eight numbers
LEMMA SidesOfPadding ==
    ASSUME NEW a, NEW d \in Spatial(a), NEW p, p = Padding(a),
           NEW sides, sides = SubSeq(p, 2 * d - 1, 2 * d)
    PROVE  sides[1] = PaddingAt(a, d)[1] /\ sides[2] = PaddingAt(a, d)[2]
<1>1. d \in {2, 3, 4}
  BY DEF Spatial, FirstSpatial
<1>2. p[2 * d - 1] = PaddingAt(a, d)[1] /\ p[2 * d] = PaddingAt(a, d)[2]
  <2>1. 2 * d - 1 \in 1 .. 8 /\ 2 * d \in 1 .. 8
    BY <1>1
  <2>2. /\ ((2 * d - 1) + 1) \div 2 = d /\ 2 - ((2 * d - 1) % 2) = 1
        /\ (2 * d + 1) \div 2 = d /\ 2 - ((2 * d) % 2) = 2
    BY <1>1
  <2> QED
    BY <2>1, <2>2 DEF Padding
<1>3. sides = [i \in 1 .. 2 |-> p[i + (2 * d - 1) - 1]]
  <2>1. 1 + 2 * d - (2 * d - 1) = 2
    BY <1>1
  <2> QED
    BY <2>1, <1>1 DEF SubSeq
<1>4. sides[1] = p[2 * d - 1] /\ sides[2] = p[2 * d]
  BY <1>1, <1>3
<1> QED
  BY <1>2, <1>4

-------------------------------------------------------------------------------
Usable(n) == PaddingOf(n) # {} /\ Shaped(n) /\ \A d \in Spatial(n) : CanPad(n, d)

PaddingsUsable == \A i \in DOMAIN cache : IsPaddingFound(i) => Usable(Applied(i))

\* If the operator runs on what is there now, the numbers it gives are what the framework pads with.
LEMMA UsablePadding ==
    ASSUME NEW n, IsNode(n), Usable(n), n.op \in PaddingOperators, NEW v \in PaddingOf(n),
           NEW d \in Spatial(n)
    PROVE  PadsAsFramework(n, d, SubSeq(v.data, 2 * d - 1, 2 * d))
<1> DEFINE a == Seen(n)  sides == SubSeq(v.data, 2 * d - 1, 2 * d)
<1>1. Shaped(n) /\ CanPad(n, d)
  BY DEF Usable
<1>2. v.data = Padding(a)
  BY <1>1, ValueIsPadding
<1>3. Spatial(a) = Spatial(n) /\ PaddingAt(a, d) = PaddingAt(n, d)
  BY <1>1, SeenSame
<1> HIDE DEF a
<1>4. sides[1] = PaddingAt(n, d)[1] /\ sides[2] = PaddingAt(n, d)[2]
  <2>1. d \in Spatial(a)
    BY <1>3
  <2>2. sides = SubSeq(v.data, 2 * d - 1, 2 * d)
    OBVIOUS
  <2> HIDE DEF sides
  <2>3. sides[1] = PaddingAt(a, d)[1] /\ sides[2] = PaddingAt(a, d)[2]
    BY ONLY <1>2, <2>1, <2>2, SidesOfPadding
  <2> QED
    BY <1>3, <2>3
<1>5. PadsAsFramework(n, d, PaddingAt(n, d))
  BY <1>1, NodePadding
<1> HIDE DEF sides
<1>6. /\ PaddedSize(DimAt(n, d), sides) = PaddedSize(DimAt(n, d), PaddingAt(n, d))
      /\ PooledSize(DimAt(n, d), sides) = PooledSize(DimAt(n, d), PaddingAt(n, d))
  BY <1>4 DEF PaddedSize, PooledSize
<1>7. PadsAsFramework(n, d, sides)
  BY <1>5, <1>6 DEF PadsAsFramework
<1> QED
  BY <1>7 DEF sides

\* Paddings that are current, and that the operators can be run for, are the frameworks'.
LEMMA CurrentPaddingsFit == InfererInv /\ PaddingsUsable => PaddedAsFramework
<1> SUFFICES ASSUME InfererInv, PaddingsUsable,
                    NEW i \in DOMAIN cache, graph[i].op \in PaddingOperators, cache[i] # VOID,
                    NEW v \in value[i], NEW d \in Spatial(Applied(i))
             PROVE  PadsAsFramework(Applied(i), d, SubSeq(v.data, 2 * d - 1, 2 * d))
  BY DEF PaddedAsFramework, PadsAsFramework
<1> DEFINE n == Applied(i)
<1>1. IsPaddingFound(i)
  BY DEF IsPaddingFound
<1>2. Usable(n) /\ PaddingIsCurrent(i)
  BY <1>1 DEF PaddingsUsable, InfererInv
<1>3. v \in PaddingOf(n)
  BY <1>2 DEF PaddingIsCurrent, Usable
<1>4. IsNode(n) /\ n.op \in PaddingOperators
  BY DEF Applied, IsNode
<1> HIDE DEF n
<1> QED
  BY <1>2, <1>3, <1>4, UsablePadding DEF n

\* As long as every padding found is one that its operator can be run for on the shapes and
\* values known now (PaddingsUsable: the window fits into the padded image, the kernel's value
\* has the kernel's sizes, dragon's convolution has no dilation, which dragon forgets), every
\* padding that infer has stored gives the convolution or pooling behind it the output size of
\* its framework: the inferer of module/infer with the padding operators.
THEOREM PaddingFits == Spec => [](PaddingsUsable => PaddedAsFramework)
BY InfererInvariant, CurrentPaddingsFit, PTL
===============================================================================
