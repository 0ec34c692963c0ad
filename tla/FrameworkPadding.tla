--------------------------- MODULE FrameworkPadding ---------------------------
(***************************************************************************)
(* The operators that compute, from the size of an image, the padding with *)
(* which conv2d_v2 and pooling2d_v2 give the output size another framework *)
(* gives: backend/tf, backend/onnx, backend/mxnet and backend/dragon.      *)
(*                                                                         *)
(* One spatial dimension d == [x, before, after, k, dilation, stride]: the *)
(* size, the static padding, and the window.  A padding is the pair of     *)
(* what comes before and after.  A name without a framework is shared by   *)
(* the frameworks.                                                         *)
(***************************************************************************)
EXTENDS Prototypes

Whole(d) == d.x + d.before + d.after
KernelExtent(d) == (d.k - 1) * d.dilation + 1

forward_valid(d) == CeilQuot(Whole(d) - KernelExtent(d) + 1, d.stride)
forward_same(d) == CeilQuot(Whole(d), d.stride)

\* What an output of y elements needs beyond the input
Needed(d, y) ==
  conv2d_backward(y, d.before + d.after, d.dilation, d.k, d.stride) - d.x

\* The rest goes to the end, or is halved with the larger half after or before.
AtTheEnd(d, rest) == <<d.before, d.after + rest>>

Halved(d, rest) ==
  <<d.before + CQuot(rest, 2), d.after + (rest - CQuot(rest, 2))>>

HalvedLower(d, rest) ==
  <<d.before + (rest - CQuot(rest, 2)), d.after + CQuot(rest, 2)>>

\* tf::Conv2DPadding, tf::Pooling2DPadding and the modes of the others that do
\* the same
dynamic_padding_valid(d) == AtTheEnd(d, Needed(d, forward_valid(d)))
dynamic_padding_same(d) == Halved(d, Needed(d, forward_same(d)))
dynamic_padding_same_lower(d) == HalvedLower(d, Needed(d, forward_same(d)))

\* The remainder of C++ takes the sign of the dividend.
CRem(a, b) == a - CQuot(a, b) * b

\* onnx NOTSET and mxnet valid: what no window reaches is cut off.
dynamic_padding_notset(d) == AtTheEnd(d, -CRem(Whole(d) - d.k, d.stride))

\* Mistake: the last window may begin behind the end.
dragon_forward_overhanging(d, ceil_mode) ==
  (IF ceil_mode THEN CeilQuot(Whole(d) - d.k, d.stride)
   ELSE (Whole(d) - d.k) \div d.stride) + 1

\* dragon pooling: a window may overhang the end but not begin behind it.
dragon_forward_valid(d, ceil_mode) ==
  LET y == (IF ceil_mode THEN CeilQuot(Whole(d) - d.k, d.stride)
            ELSE (Whole(d) - d.k) \div d.stride) + 1
  IN  IF (y - 1) * d.stride >= Whole(d) THEN y - 1 ELSE y

dragon_padding_valid(d, ceil_mode) ==
  AtTheEnd(d, Needed(d, dragon_forward_valid(d, ceil_mode)))

\* dragon: the static padding only counts in the sum, the smaller half of what
\* is needed goes to the side that smallBefore says; pooling2d_backward does not
\* know a dilation.
DragonSame(d, smallBefore) ==
  LET y == CeilQuot(d.x, d.stride)
      needed == Max({0, conv2d_backward(y, 0, d.dilation, d.k, d.stride) - d.x})
      before == IF smallBefore THEN needed \div 2 ELSE needed - needed \div 2
      rest == pooling2d_backward(y, d.before + d.after, d.k, d.stride) - d.x
  IN  <<before, d.before + d.after + (rest - before)>>

dragon_pooling_same(d, method) == DragonSame(d, method = "SAME_UPPER")
dragon_conv2d_same(d, method) == DragonSame(d, method # "SAME_UPPER")

dragon_conv2d_valid(d) == <<d.before, d.after>>

-------------------------------------------------------------------------------
(***************************************************************************)
(* The operators.  Their inputs are the image and either the kernel or the *)
(* window and the stride; m is padding_method, auto_pad or valid.          *)
(***************************************************************************)
PaddingOperators == {"_tf_conv2d_padding", "_tf_pooling2d_padding",
  "_onnx_pooling2d_padding", "_mx_pooling2d_padding", "_dragon_conv2d_padding",
  "_dragon_pooling2d_padding"}

ConvPaddings == {"_tf_conv2d_padding", "_dragon_conv2d_padding"}

\* "SAME" and "NOTSET" are what init of the dragon operators makes of them.
DragonMethod(m) ==
  CASE m \in {"SAME", "SAME_LOWER"} -> "SAME_LOWER"
    [] m \in {"VALID", "NOTSET"} -> "VALID"
    [] OTHER -> m

PadDim(op, m, ceil_mode, d) ==
  CASE op \in {"_tf_conv2d_padding", "_tf_pooling2d_padding"} ->
         IF m = "SAME" THEN dynamic_padding_same(d) ELSE dynamic_padding_valid(d)
    [] op = "_onnx_pooling2d_padding" ->
         (CASE m = "NOTSET" -> dynamic_padding_notset(d)
            [] m = "VALID" -> dynamic_padding_valid(d)
            [] m = "SAME_UPPER" -> dynamic_padding_same(d)
            [] m = "SAME_LOWER" -> dynamic_padding_same_lower(d))
    [] op = "_mx_pooling2d_padding" ->
         IF m = "VALID" THEN dynamic_padding_notset(d) ELSE <<d.before, d.after>>
    [] op = "_dragon_conv2d_padding" ->
         IF DragonMethod(m) = "VALID" THEN dragon_conv2d_valid(d)
         ELSE dragon_conv2d_same(d, DragonMethod(m))
    [] op = "_dragon_pooling2d_padding" ->
         IF DragonMethod(m) = "VALID" THEN dragon_padding_valid(d, ceil_mode)
         ELSE dragon_pooling_same(d, DragonMethod(m))

FormatOf(n) == AttrOr(n, "format", "NCHW")
Spatial(n) == {FirstSpatial(FormatOf(n)), FirstSpatial(FormatOf(n)) + 1}
StaticPadding(n) == AttrOr(n, "padding", <<0, 0, 0, 0, 0, 0, 0, 0>>)

\* Dimension i of the image with its window
DimAt(n, i) ==
  LET conv == n.op \in ConvPaddings
  IN  [x |-> X(n)[i], before |-> StaticPadding(n)[2 * i - 1],
       after |-> StaticPadding(n)[2 * i],
       k |-> IF conv THEN W(n, 2)[i] ELSE Val(n, 2)[i],
       dilation |-> IF conv THEN n.attr.dilation[i] ELSE 1,
       stride |-> IF conv THEN n.attr.stride[i] ELSE Val(n, 3)[i]]

PaddingAt(n, i) ==
  PadDim(n.op, n.attr.method, AttrOr(n, "ceil", TRUE), DimAt(n, i))

\* The run methods: the checks, and the 4x2 padding as eight numbers
PaddingRuns(n) ==
  n.op \in ConvPaddings =>
    /\ Len(X(n)) = 4 /\ Len(W(n, 2)) = 4
    /\ TypeOf(n, 1) = TypeOf(n, 2)
    /\ W(n, 2)[2] = X(n)[2]

Padding(n) ==
  [p \in 1 .. 8 |-> LET i == (p + 1) \div 2
                    IN  IF i \in Spatial(n) THEN PaddingAt(n, i)[2 - (p % 2)] ELSE 0]

-------------------------------------------------------------------------------
(***************************************************************************)
(* What the frameworks make of the dimension: expected_output_size.        *)
(***************************************************************************)
FrameworkSize(n, i) ==
  LET d == DimAt(n, i)
      m == n.attr.method
      dragon == n.op \in {"_dragon_conv2d_padding", "_dragon_pooling2d_padding"}
      whole == IF dragon THEN d.x ELSE Whole(d)
      floor == (Whole(d) - KernelExtent(d)) \div d.stride + 1
      ceil == CeilQuot(Whole(d) - KernelExtent(d), d.stride) + 1
  IN  CASE m \in {"SAME", "SAME_LOWER", "SAME_UPPER"} ->
             CHOOSE y \in 0 .. whole : (y - 1) * d.stride < whole /\ whole <= y * d.stride
        [] n.op = "_dragon_pooling2d_padding" /\ DragonMethod(m) = "VALID" ->
             IF AttrOr(n, "ceil", TRUE) THEN Min({ceil, (Whole(d) - 1) \div d.stride + 1})
             ELSE floor
        [] n.op = "_mx_pooling2d_padding" /\ m # "VALID" -> ceil
        [] OTHER -> floor
===============================================================================
