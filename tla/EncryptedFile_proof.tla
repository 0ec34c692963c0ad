--------------------------- MODULE EncryptedFile_proof ---------------------------
(***************************************************************************)
(* An enciphered file is a pipe (module Pipe) for every length of a block, *)
(* every cipher that can be undone, and pieces of every size.              *)
(***************************************************************************)
EXTENDS EncryptedFile, TLAPS, SequenceTheorems

-----------------------------------------------------------------------------
(***************************************************************************)
(* Pieces of what is sent: Slice(s, a, b) is what comes behind the first a *)
(* and is among the first b.                                               *)
(***************************************************************************)
Slice(s, a, b) == SubSeq(s, a + 1, b)

\* Where the k-th block ends
End(k) == k * BlockLen

\* What is missing in the last block, and what the blocks hold together
Filling == End(Len(file)) - Len(sent)
Pad(f) == [i \in 1 .. f |-> f]
Plain == sent \o Pad(Filling)

\* The blocks that were handed out, or are in m_master; how far those reach
Done == IF second = <<>> THEN at ELSE at - 1
Upto == IF eof THEN Len(sent) ELSE End(Done)

-----------------------------------------------------------------------------
(***************************************************************************)
(* The inductive invariant: every buffer is a known slice of what was      *)
(* sent, one behind the other.                                             *)
(***************************************************************************)
Enciphered == {Cipher(block) : block \in Blocks}

FileTypeOK ==
    /\ mode \in {"writing", "closed", "reading"}
    /\ sent \in Seq(Bytes) /\ pending \in Seq(Bytes) /\ master \in Seq(Bytes)
    /\ buffer \in Seq(Bytes) /\ got \in Seq(Bytes)
    /\ file \in Seq(Enciphered)
    /\ at \in Nat /\ eof \in BOOLEAN /\ want \in Nat \union {-1}

\* The reader is new until the writer has closed the file.
Unread == second = <<>> /\ at = 0 /\ ~eof /\ want = -1 /\ buffer = <<>> /\ got = <<>> /\ answer = <<>>

WritesInOrder ==
    LET start == End(Len(file))
    IN  /\ Unread
        /\ Len(master) <= BlockLen
        /\ Len(sent) = start + Len(master) + Len(pending)
        /\ master = Slice(sent, start, start + Len(master))
        /\ pending = Slice(sent, start + Len(master), Len(sent))
        /\ \A i \in 1 .. Len(file) : file[i] = Cipher(Slice(sent, End(i - 1), End(i)))

\* The last block is never full of what was sent.
FileIsWhole ==
    /\ Len(file) > 0
    /\ Filling \in 1 .. BlockLen
    /\ \A i \in 1 .. Len(file) : file[i] = Cipher(Slice(Plain, End(i - 1), End(i)))

\* The last block is in second until it is known to be the last one.
LooksAhead ==
    /\ second # <<>> => at \in 2 .. Len(file) /\ second = Slice(Plain, End(at - 1), End(at))
    /\ second = <<>> => at = (IF eof THEN Len(file) ELSE 0)
    /\ eof => second = <<>>

ReadsInOrder ==
    /\ LooksAhead
    /\ got = Slice(sent, 0, Len(got))
    /\ buffer = Slice(sent, Len(got), Len(got) + Len(buffer))
    /\ master = Slice(sent, Len(got) + Len(buffer), Upto)
    /\ Len(got) + Len(buffer) + Len(master) = Upto
    /\ want = -1 => buffer = <<>>
    /\ want # -1 => ~eof /\ master = <<>> /\ Len(buffer) < want

Inductive ==
    /\ FileTypeOK
    /\ mode = "writing" => WritesInOrder
    /\ mode = "closed"  => FileIsWhole /\ Unread /\ master = <<>>
    /\ mode = "reading" => FileIsWhole /\ ReadsInOrder

-----------------------------------------------------------------------------
(***************************************************************************)
(* Slices                                                                  *)
(***************************************************************************)

\* A slice has the length it should have, and its elements are those of the sequence.
LEMMA SliceProperties ==
    ASSUME NEW s \in Seq(Bytes), NEW a \in Nat, NEW b \in Nat, a <= b, b <= Len(s)
    PROVE  /\ Slice(s, a, b) \in Seq(Bytes)
           /\ Len(Slice(s, a, b)) = b - a
           /\ \A i \in 1 .. b - a : Slice(s, a, b)[i] = s[a + i]
<1>1. \A i \in a + 1 .. b : s[i] \in Bytes
  BY ElementOfSeq, LenProperties
<1>2. /\ SubSeq(s, a + 1, b) \in Seq(Bytes)
      /\ Len(SubSeq(s, a + 1, b)) = IF a + 1 <= b THEN b - (a + 1) + 1 ELSE 0
      /\ \A i \in 1 .. b - (a + 1) + 1 : SubSeq(s, a + 1, b)[i] = s[a + 1 + i - 1]
  <2>1. a + 1 \in Int /\ b \in Int
    OBVIOUS
  <2> QED BY <1>1, <2>1, SubSeqProperties
<1>3. b - (a + 1) + 1 = b - a /\ (IF a + 1 <= b THEN b - (a + 1) + 1 ELSE 0) = b - a
  OBVIOUS
<1>4. \A i \in 1 .. b - a : a + 1 + i - 1 = a + i
  OBVIOUS
<1> QED BY <1>2, <1>3, <1>4 DEF Slice

\* Slices that meet are one.
LEMMA SlicesJoin ==
    ASSUME NEW s \in Seq(Bytes), NEW a \in Nat, NEW b \in Nat, NEW c \in Nat,
           a <= b, b <= c, c <= Len(s)
    PROVE  Slice(s, a, b) \o Slice(s, b, c) = Slice(s, a, c)
<1> DEFINE t == Slice(s, a, b)
           u == Slice(s, b, c)
           v == Slice(s, a, c)
<1>0. Len(s) \in Nat /\ b <= Len(s) /\ a <= c
  BY LenProperties
<1>1. t \in Seq(Bytes) /\ Len(t) = b - a /\ \A i \in 1 .. b - a : t[i] = s[a + i]
  BY <1>0, SliceProperties
<1>2. u \in Seq(Bytes) /\ Len(u) = c - b /\ \A i \in 1 .. c - b : u[i] = s[b + i]
  BY <1>0, SliceProperties
<1>3. v \in Seq(Bytes) /\ Len(v) = c - a /\ \A i \in 1 .. c - a : v[i] = s[a + i]
  BY <1>0, SliceProperties
<1> HIDE DEF t, u, v
<1>4. /\ t \o u \in Seq(Bytes)
      /\ Len(t \o u) = Len(t) + Len(u)
      /\ \A i \in 1 .. Len(t) + Len(u) : (t \o u)[i] = IF i <= Len(t) THEN t[i] ELSE u[i - Len(t)]
  BY <1>1, <1>2, ConcatProperties
<1>5. Len(t \o u) = Len(v)
  BY <1>1, <1>2, <1>3, <1>4
<1>6. \A i \in 1 .. Len(t \o u) : (t \o u)[i] = v[i]
  <2> SUFFICES ASSUME NEW i \in 1 .. c - a PROVE (t \o u)[i] = v[i]
    BY <1>1, <1>2, <1>4
  <2>1. CASE i <= b - a
    BY <2>1, <1>1, <1>2, <1>3, <1>4
  <2>2. CASE ~(i <= b - a)
    <3>1. i - (b - a) \in 1 .. c - b /\ b + (i - (b - a)) = a + i
      BY <2>2
    <3>2. (t \o u)[i] = u[i - (b - a)]
      BY <2>2, <1>1, <1>2, <1>4
    <3>3. u[i - (b - a)] = s[a + i]
      BY <3>1, <1>2
    <3> QED BY <3>2, <3>3, <1>3
  <2> QED BY <2>1, <2>2
<1>7. t \o u = v
  BY <1>3, <1>4, <1>5, <1>6, SeqEqual
<1> QED BY <1>7 DEF t, u, v

\* The front of a slice is a slice.
LEMMA SliceFront ==
    ASSUME NEW s \in Seq(Bytes), NEW a \in Nat, NEW b \in Nat, NEW c \in Nat, b <= c, c <= Len(s),
           NEW n \in Nat, n = b - a
    PROVE  SubSeq(Slice(s, a, c), 1, n) = Slice(s, a, b)
<1> DEFINE v == Slice(s, a, c)
           w == Slice(v, 0, n)
           t == Slice(s, a, b)
<1>0. Len(s) \in Nat /\ a <= b /\ a <= c /\ b <= Len(s)
  BY LenProperties
<1>1. t \in Seq(Bytes) /\ Len(t) = b - a /\ \A i \in 1 .. b - a : t[i] = s[a + i]
  BY <1>0, SliceProperties
<1>2. v \in Seq(Bytes) /\ Len(v) = c - a /\ \A i \in 1 .. c - a : v[i] = s[a + i]
  BY <1>0, SliceProperties
<1> HIDE DEF v, t
<1>3. w \in Seq(Bytes) /\ Len(w) = n - 0 /\ \A i \in 1 .. n - 0 : w[i] = v[0 + i]
  <2>1. 0 \in Nat /\ 0 <= n /\ n <= Len(v) /\ v \in Seq(Bytes)
    BY <1>0, <1>2
  <2> QED BY ONLY <2>1, n \in Nat, SliceProperties
<1>4. w = SubSeq(v, 1, n)
  BY DEF Slice
<1> HIDE DEF w
<1>5. \A i \in 1 .. Len(t) : w[i] = t[i]
  BY <1>0, <1>1, <1>2, <1>3
<1>6. Len(w) = Len(t)
  BY <1>1, <1>3
<1>7. w = t
  BY <1>1, <1>3, <1>5, <1>6, SeqEqual
<1> QED BY <1>4, <1>7 DEF v, t

\* So is what is left behind it.
LEMMA SliceBack ==
    ASSUME NEW s \in Seq(Bytes), NEW a \in Nat, NEW b \in Nat, NEW c \in Nat, a <= b, b <= c, c <= Len(s),
           NEW next \in Nat, next = b - a + 1
    PROVE  SubSeq(Slice(s, a, c), next, Len(Slice(s, a, c))) = Slice(s, b, c)
<1> DEFINE v == Slice(s, a, c)
           n == b - a
           w == Slice(v, n, Len(v))
           u == Slice(s, b, c)
<1>0. Len(s) \in Nat /\ a <= c /\ n \in Nat
  BY LenProperties
<1>1. u \in Seq(Bytes) /\ Len(u) = c - b /\ \A i \in 1 .. c - b : u[i] = s[b + i]
  BY <1>0, SliceProperties
<1>2. v \in Seq(Bytes) /\ Len(v) = c - a /\ \A i \in 1 .. c - a : v[i] = s[a + i]
  BY <1>0, SliceProperties
<1> HIDE DEF v, u
<1>3. w \in Seq(Bytes) /\ Len(w) = Len(v) - n /\ \A i \in 1 .. Len(v) - n : w[i] = v[n + i]
  <2>1. Len(v) \in Nat /\ n <= Len(v) /\ Len(v) <= Len(v) /\ v \in Seq(Bytes)
    BY <1>0, <1>2
  <2> HIDE DEF n
  <2> QED BY ONLY <2>1, <1>0, SliceProperties
<1>4. w = SubSeq(v, next, Len(v))
  BY DEF Slice
<1>5. Len(v) - n = c - b /\ \A i \in 1 .. c - b : n + i \in 1 .. c - a /\ a + (n + i) = b + i
  BY <1>0, <1>2
<1> HIDE DEF w, n
<1>6. \A i \in 1 .. Len(u) : w[i] = u[i]
  BY <1>1, <1>2, <1>3, <1>5
<1>7. Len(w) = Len(u)
  BY <1>1, <1>3, <1>5
<1>8. w = u
  BY <1>1, <1>3, <1>6, <1>7, SeqEqual
<1> QED BY <1>4, <1>8 DEF v, u

\* A slice of what was there is not changed by what comes behind.
LEMMA SliceBefore ==
    ASSUME NEW s \in Seq(Bytes), NEW t \in Seq(Bytes), NEW a \in Nat, NEW b \in Nat, a <= b, b <= Len(s)
    PROVE  Slice(s \o t, a, b) = Slice(s, a, b)
<1> DEFINE st == s \o t
<1>1. /\ st \in Seq(Bytes) /\ Len(st) = Len(s) + Len(t)
      /\ \A i \in 1 .. Len(s) + Len(t) : st[i] = IF i <= Len(s) THEN s[i] ELSE t[i - Len(s)]
  BY ConcatProperties
<1>2. Len(s) \in Nat /\ Len(t) \in Nat
  BY LenProperties
<1> HIDE DEF st
<1>3. Slice(st, a, b) = Slice(s, a, b)
  <2>1. b <= Len(st) /\ st \in Seq(Bytes)
    BY <1>1, <1>2
  <2>2. /\ Slice(st, a, b) \in Seq(Bytes) /\ Len(Slice(st, a, b)) = b - a
        /\ \A i \in 1 .. b - a : Slice(st, a, b)[i] = st[a + i]
    BY <2>1, SliceProperties
  <2>3. /\ Slice(s, a, b) \in Seq(Bytes) /\ Len(Slice(s, a, b)) = b - a
        /\ \A i \in 1 .. b - a : Slice(s, a, b)[i] = s[a + i]
    BY SliceProperties
  <2>4. \A i \in 1 .. b - a : st[a + i] = s[a + i]
    BY <1>1, <1>2
  <2>5. \A i \in 1 .. Len(Slice(st, a, b)) : Slice(st, a, b)[i] = Slice(s, a, b)[i]
    BY <2>2, <2>3, <2>4
  <2> QED BY <2>2, <2>3, <2>5, SeqEqual
<1> QED BY <1>3 DEF st

\* What was there to the end goes on with it.
LEMMA SliceThrough ==
    ASSUME NEW s \in Seq(Bytes), NEW t \in Seq(Bytes), NEW a \in Nat, NEW b \in Nat, a <= b,
           a <= Len(s), b = Len(s) + Len(t)
    PROVE  Slice(s \o t, a, b) = Slice(s, a, Len(s)) \o t
<1> DEFINE st == s \o t
<1>1. /\ st \in Seq(Bytes) /\ Len(st) = Len(s) + Len(t)
      /\ \A i \in 1 .. Len(s) + Len(t) : st[i] = IF i <= Len(s) THEN s[i] ELSE t[i - Len(s)]
  BY ConcatProperties
<1>2. Len(s) \in Nat /\ Len(t) \in Nat
  BY LenProperties
<1> HIDE DEF st
<1>3. Slice(st, a, b) = Slice(s, a, Len(s)) \o t
  <2> DEFINE n == Len(s)
             k == Len(t)
             u == Slice(s, a, n)
             v == Slice(st, a, b)
  <2>0. n \in Nat /\ k \in Nat /\ a <= n /\ b = n + k /\ n <= Len(s) /\ b <= Len(st) /\ st \in Seq(Bytes)
    BY <1>1, <1>2
  <2>1. \A i \in 1 .. n + k : st[i] = IF i <= n THEN s[i] ELSE t[i - n]
    BY <1>1
  <2>2. Len(t) = k
    OBVIOUS
  <2> HIDE DEF n, k
  <2>3. u \in Seq(Bytes) /\ Len(u) = n - a /\ \A i \in 1 .. n - a : u[i] = s[a + i]
    BY <2>0, SliceProperties
  <2>4. v \in Seq(Bytes) /\ Len(v) = b - a /\ \A i \in 1 .. b - a : v[i] = st[a + i]
    <3>1. a <= b /\ b <= Len(st) /\ st \in Seq(Bytes)
      BY <2>0
    <3> QED BY ONLY <3>1, a \in Nat, b \in Nat, SliceProperties
  <2> HIDE DEF u, v
  <2>5. /\ u \o t \in Seq(Bytes) /\ Len(u \o t) = Len(u) + Len(t)
        /\ \A i \in 1 .. Len(u) + Len(t) : (u \o t)[i] = IF i <= Len(u) THEN u[i] ELSE t[i - Len(u)]
    BY <2>3, ConcatProperties
  <2>6. Len(u \o t) = Len(v)
    BY <2>0, <2>2, <2>3, <2>4, <2>5
  <2>7. ASSUME NEW i \in 1 .. b - a PROVE v[i] = (u \o t)[i]
    <3>1. v[i] = st[a + i] /\ a + i \in 1 .. n + k
      BY <2>0, <2>4
    <3>2. (u \o t)[i] = IF i <= n - a THEN u[i] ELSE t[i - (n - a)]
      BY <2>0, <2>2, <2>3, <2>5
    <3>3. st[a + i] = IF a + i <= n THEN s[a + i] ELSE t[(a + i) - n]
      BY <3>1, <2>1
    <3>4. CASE a + i <= n
      <4>1. i <= n - a /\ i \in 1 .. n - a
        BY <3>4, <2>0
      <4> QED BY <4>1, <3>1, <3>2, <3>3, <3>4, <2>3
    <3>5. CASE ~(a + i <= n)
      <4>1. ~(i <= n - a) /\ ~(a + i <= n) /\ (a + i) - n = i - (n - a)
        BY <3>5, <2>0
      <4> QED BY <4>1, <3>1, <3>2, <3>3
    <3> QED BY <3>4, <3>5
  <2>8. v = u \o t
    BY <2>4, <2>5, <2>6, <2>7, SeqEqual
  <2> QED BY <2>8 DEF u, v, n
<1> QED BY <1>3 DEF st

\* An empty slice
LEMMA SliceEmpty ==
    ASSUME NEW s, NEW a \in Nat
    PROVE  Slice(s, a, a) = <<>>
BY SubSeqEmpty DEF Slice

\* The whole
LEMMA SliceFull ==
    ASSUME NEW s \in Seq(Bytes)
    PROVE  Slice(s, 0, Len(s)) = s
BY SubSeqFull DEF Slice

-----------------------------------------------------------------------------
(***************************************************************************)
(* Where blocks end                                                        *)
(***************************************************************************)

\* Blocks end one after the other.
LEMMA Ends ==
    /\ End(0) = 0
    /\ \A k \in Nat : End(k) \in Nat /\ End(k + 1) = End(k) + BlockLen
    /\ \A k \in Nat, m \in Nat : k <= m => End(k) <= End(m)
<1>1. BlockLen \in Nat
  BY CipherAssumption
<1>2. End(0) = 0 /\ \A k \in Nat : End(k) \in Nat /\ End(k + 1) = End(k) + BlockLen
  BY <1>1 DEF End
<1>3. ASSUME NEW k \in Nat, NEW m \in Nat, k <= m PROVE End(k) <= End(m)
  <2>1. m = k + (m - k) /\ m - k \in Nat
    BY <1>3
  <2> DEFINE d == m - k
  <2>2. (k + d) * BlockLen = k * BlockLen + d * BlockLen /\ d * BlockLen \in Nat /\ k * BlockLen \in Nat
    BY <1>1, <2>1
  <2> QED BY <2>1, <2>2 DEF End
<1> QED BY <1>2, <1>3

\* The bytes a block is filled up with
LEMMA PadProperties ==
    ASSUME NEW f \in 1 .. BlockLen
    PROVE  /\ Pad(f) \in Seq(Bytes)
           /\ Len(Pad(f)) = f
           /\ \A i \in 1 .. f : Pad(f)[i] = f
<1>1. f \in Bytes /\ f \in Nat
  BY CipherAssumption DEF Bytes
<1>2. [i \in 1 .. f |-> f] \in Seq(Bytes)
  BY <1>1, IsASeq
<1>3. DOMAIN Pad(f) = 1 .. f /\ Pad(f) \in Seq(Bytes)
  BY <1>2 DEF Pad
<1>4. Len(Pad(f)) \in Nat /\ DOMAIN Pad(f) = 1 .. Len(Pad(f))
  BY <1>3, LenProperties
<1>5. Len(Pad(f)) = f
  <2> DEFINE n == Len(Pad(f))
  <2>1. n \in Nat /\ 1 .. n = 1 .. f
    BY <1>3, <1>4
  <2> HIDE DEF n
  <2>2. n = f
    BY <2>1, <1>1
  <2> QED BY <2>2 DEF n
<1> QED BY <1>3, <1>5 DEF Pad

-----------------------------------------------------------------------------
(***************************************************************************)
(* Reading blocks                                                          *)
(***************************************************************************)

\* A block of what was sent and filled up is a block; if it is the last one, it tells how
\* much of it to take off, and what is left was sent.
LEMMA PaddedBlock ==
    ASSUME NEW s \in Seq(Bytes), NEW L \in Nat, L = Len(s), NEW f \in 1 .. BlockLen,
           NEW a \in Nat, NEW b \in Nat, b = a + BlockLen, b <= L + f
    PROVE  LET block == Slice(s \o Pad(f), a, b)
           IN  /\ block \in Blocks /\ block # <<>>
               /\ a <= L
               /\ b <= L => block = Slice(s, a, b)
               /\ b = L + f => block[BlockLen] = f /\ SubSeq(block, 1, BlockLen - f) = Slice(s, a, L)
<1> DEFINE p == s \o Pad(f)
           block == Slice(p, a, b)
<1>1. BlockLen \in Nat /\ BlockLen > 0 /\ f \in Nat /\ f > 0 /\ f <= BlockLen
  BY CipherAssumption
<1>2. /\ Pad(f) \in Seq(Bytes) /\ Len(Pad(f)) = f
      /\ \A i \in 1 .. f : Pad(f)[i] = f
  BY PadProperties
<1>3. /\ p \in Seq(Bytes) /\ Len(p) = L + f
      /\ \A i \in 1 .. L + f : p[i] = IF i <= L THEN s[i] ELSE Pad(f)[i - L]
  <2> DEFINE t == Pad(f)
  <2>1. t \in Seq(Bytes) /\ Len(t) = f /\ s \in Seq(Bytes) /\ L = Len(s)
    BY <1>2
  <2> HIDE DEF t
  <2>2. /\ s \o t \in Seq(Bytes) /\ Len(s \o t) = Len(s) + Len(t)
        /\ \A i \in 1 .. Len(s) + Len(t) : (s \o t)[i] = IF i <= Len(s) THEN s[i] ELSE t[i - Len(s)]
    BY ONLY <2>1, ConcatProperties
  <2>3. /\ s \o t \in Seq(Bytes) /\ Len(s \o t) = L + f
        /\ \A i \in 1 .. L + f : (s \o t)[i] = IF i <= L THEN s[i] ELSE t[i - L]
    BY ONLY <2>1, <2>2
  <2> QED
    BY <2>3 DEF t
<1>4. b <= L => Slice(p, a, b) = Slice(s, a, b)
  <2>1. a <= b
    BY <1>1
  <2> QED BY <2>1, <1>2, SliceBefore
<1>5. L = Len(s) /\ a <= L /\ a <= b
  BY <1>1
<1>6. Slice(p, a, L) = Slice(s, a, L)
  BY <1>2, <1>5, SliceBefore
<1> HIDE DEF p
<1>7. /\ block \in Seq(Bytes) /\ Len(block) = b - a
      /\ \A i \in 1 .. b - a : block[i] = p[a + i]
  <2>1. p \in Seq(Bytes) /\ a <= b /\ b <= Len(p)
    BY <1>3, <1>5
  <2> QED BY ONLY <2>1, a \in Nat, b \in Nat, SliceProperties
<1>8. ASSUME b = L + f PROVE block[BlockLen] = f
  <2>1. BlockLen \in 1 .. b - a /\ a + BlockLen = L + f
    BY <1>1, <1>8
  <2>2. block[BlockLen] = p[L + f]
    BY <2>1, <1>7
  <2>3. L + f \in 1 .. L + f /\ ~(L + f <= L) /\ (L + f) - L = f /\ f \in 1 .. f
    BY <1>1
  <2>4. p[L + f] = Pad(f)[f]
    BY <2>3, <1>3
  <2> QED BY <2>2, <2>3, <2>4, <1>2
<1>9. ASSUME b = L + f PROVE SubSeq(block, 1, BlockLen - f) = Slice(s, a, L)
  <2> DEFINE m == BlockLen - f
  <2>1. m \in Nat /\ a + m = L /\ a + m <= b /\ b <= Len(p)
    BY <1>1, <1>3, <1>9
  <2> HIDE DEF m
  <2>2. SubSeq(Slice(p, a, b), 1, m) = Slice(p, a, L)
    <3>1. p \in Seq(Bytes) /\ b <= Len(p) /\ L <= b /\ m = L - a /\ m \in Nat
      BY <2>1, <1>3
    <3> QED BY ONLY <3>1, a \in Nat, b \in Nat, L \in Nat, SliceFront
  <2> QED BY <2>1, <2>2, <1>6 DEF m
<1>10. block \in Blocks /\ block # <<>>
  <2>1. Len(block) = BlockLen
    BY <1>1, <1>7
  <2>2. block \in [1 .. Len(block) -> Bytes]
    BY <1>7, LenProperties
  <2>3. block # <<>>
    <3>1. Len(block) # 0
      BY <2>1, <1>1
    <3> HIDE DEF block
    <3> QED BY <3>1, EmptySeq
  <2> QED BY <2>1, <2>2, <2>3 DEF Blocks
<1> QED BY <1>4, <1>5, <1>8, <1>9, <1>10 DEF p

\* A block that is read is a slice of what was sent, once the padding is off the last.
LEMMA BlockRead ==
    ASSUME FileTypeOK, FileIsWhole, NEW k \in 1 .. Len(file), NEW last \in BOOLEAN,
           last <=> k = Len(file)
    PROVE  LET first == Slice(Plain, End(k - 1), End(k))
               stop == IF last THEN Len(sent) ELSE End(k)
           IN  /\ InvCipher(file[k]) = first
               /\ first # <<>>
               /\ Unpadded(first, last) = Slice(sent, End(k - 1), stop)
               /\ stop \in Nat /\ End(k - 1) <= stop /\ stop <= Len(sent)
<1> DEFINE a == End(k - 1)
           b == End(k)
           n == Len(file)
           L == Len(sent)
           f == Filling
           first == Slice(Plain, a, b)
<1>1. n \in Nat /\ L \in Nat /\ sent \in Seq(Bytes) /\ f \in 1 .. BlockLen /\ k \in 1 .. n
  BY LenProperties DEF FileTypeOK, FileIsWhole
<1>2. f = End(n) - L
  BY DEF Filling
<1>3. file[k] = Cipher(first)
  BY DEF FileIsWhole
<1>4. Plain = sent \o Pad(f) /\ L = Len(sent) /\ (last <=> k = n)
  BY DEF Plain
<1> HIDE DEF n, L, f
<1>5. BlockLen \in Nat /\ BlockLen > 0
  BY CipherAssumption
<1>6. /\ a \in Nat /\ b \in Nat /\ b = a + BlockLen /\ b <= End(n) /\ End(n) \in Nat
      /\ k # n => b <= End(n - 1) /\ End(n) = End(n - 1) + BlockLen /\ End(n - 1) \in Nat
  <2>1. /\ k - 1 \in Nat /\ k \in Nat /\ k <= n /\ (k - 1) + 1 = k
        /\ n - 1 \in Nat /\ (n - 1) + 1 = n /\ (k # n => k <= n - 1)
    BY <1>1
  <2>2. a \in Nat /\ b = a + BlockLen
    BY <2>1, Ends
  <2>3. b <= End(n) /\ b \in Nat /\ End(n) \in Nat
    BY <2>1, <1>1, Ends
  <2>4. End(n) = End(n - 1) + BlockLen /\ End(n - 1) \in Nat
    BY <2>1, Ends
  <2>5. k # n => b <= End(n - 1)
    BY <2>1, Ends
  <2> QED BY <2>2, <2>3, <2>4, <2>5
<1>7. k = n => b = L + f
  BY <1>1, <1>2, <1>5, <1>6
<1>8. k # n => b <= L
  BY <1>1, <1>2, <1>5, <1>6
<1>9. b <= L + f
  BY <1>1, <1>2, <1>5, <1>6
<1> HIDE DEF a, b
<1>10. /\ first \in Blocks /\ first # <<>>
       /\ a <= L
       /\ b <= L => first = Slice(sent, a, b)
       /\ b = L + f => first[BlockLen] = f /\ SubSeq(first, 1, BlockLen - f) = Slice(sent, a, L)
  BY ONLY <1>1, <1>4, <1>6, <1>9, PaddedBlock
<1>11. InvCipher(file[k]) = first
  BY <1>3, <1>10, CipherAssumption
<1> HIDE DEF first
<1>12. CASE k # n
  BY <1>1, <1>4, <1>5, <1>6, <1>8, <1>10, <1>11, <1>12 DEF Unpadded, a, b, L, first
<1>13. CASE k = n
  <2>1. Unpadded(first, last) = Slice(sent, a, L)
    BY <1>4, <1>7, <1>10, <1>13 DEF Unpadded
  <2>2. last = TRUE /\ a <= L /\ L \in Nat /\ L <= L
    BY <1>1, <1>4, <1>10, <1>13
  <2> QED BY <2>1, <2>2, <1>10, <1>11 DEF a, b, L, first
<1> QED BY <1>12, <1>13

-----------------------------------------------------------------------------
(***************************************************************************)
(* What a pipe hands out                                                   *)
(***************************************************************************)

\* A read of n that goes on from what was got to where n ends, or to the end if that
\* is nearer, is a read of the pipe.
LEMMA PipeRead ==
    ASSUME mode = "reading", sent \in Seq(Bytes), got \in Seq(Bytes), Len(got) <= Len(sent),
           NEW n \in Nat, NEW e \in Nat,
           e = IF Len(got) + n <= Len(sent) THEN Len(got) + n ELSE Len(sent),
           got' = got \o Slice(sent, Len(got), e),
           answer' = <<n, e - Len(got)>>, UNCHANGED <<mode, sent>>
    PROVE  Stream!Next
<1> DEFINE g == Len(got)
           L == Len(sent)
           rest == Slice(sent, g, L)
<1>1. g \in Nat /\ L \in Nat /\ L <= L
  BY LenProperties
<1>2. g <= L /\ L <= Len(sent) /\ e = (IF g + n <= L THEN g + n ELSE L)
  BY <1>1
<1>3. Stream!Left = rest
  BY DEF Stream!Left, Slice
<1>4. got' = got \o Slice(sent, g, e) /\ answer' = <<n, e - g>>
  OBVIOUS
<1> HIDE DEF g, L
<1>5. rest \in Seq(Bytes) /\ Len(rest) = L - g
  BY <1>1, <1>2, SliceProperties
<1>6. Stream!AtMost(n, rest) = Slice(sent, g, e)
  <2>1. CASE n < L - g
    <3>1. e = g + n /\ g + n <= L
      BY ONLY <2>1, <1>1, <1>2, n \in Nat
    <3>2. n = e - g /\ e <= L /\ L <= Len(sent) /\ L \in Nat /\ g \in Nat /\ n \in Nat /\ e \in Nat
      BY ONLY <3>1, <1>1, <1>2, n \in Nat, e \in Nat
    <3>3. SubSeq(Slice(sent, g, L), 1, n) = Slice(sent, g, e)
      BY ONLY <3>2, sent \in Seq(Bytes), SliceFront
    <3> QED BY <3>3, <2>1, <1>5 DEF Stream!AtMost
  <2>2. CASE ~(n < L - g)
    <3>1. e = L
      BY <2>2, <1>1, <1>2
    <3> QED BY <3>1, <2>2, <1>5 DEF Stream!AtMost
  <2> QED BY <2>1, <2>2
<1>7. Len(Slice(sent, g, e)) = e - g
  <2>1. g <= e /\ e <= Len(sent)
    BY <1>1, <1>2
  <2> QED BY <2>1, <1>1, SliceProperties
<1>8. Stream!Read(n)
  BY <1>3, <1>4, <1>6, <1>7 DEF Stream!Read
<1>9. answer' # <<>> /\ answer'[1] = n
  BY <1>4
<1> QED BY <1>8, <1>9 DEF Stream!Next

-----------------------------------------------------------------------------
(***************************************************************************)
(* The writer's steps.  Each keeps the invariant, and is a step of the     *)
(* pipe or none.                                                           *)
(***************************************************************************)
Maps == Stream!Next \/ UNCHANGED Stream!pipeVars

\* How the lengths fit together while a client writes
LEMMA WritingLengths ==
    ASSUME Inductive, mode = "writing"
    PROVE  /\ FileTypeOK /\ WritesInOrder
           /\ Len(file) \in Nat /\ Len(sent) \in Nat /\ Len(master) \in Nat /\ Len(pending) \in Nat
           /\ End(Len(file)) \in Nat
           /\ Len(sent) = End(Len(file)) + Len(master) + Len(pending)
           /\ Len(master) <= BlockLen /\ BlockLen \in Nat /\ BlockLen > 0
<1>1. FileTypeOK /\ WritesInOrder
  BY DEF Inductive
<1>2. Len(file) \in Nat /\ Len(sent) \in Nat /\ Len(master) \in Nat /\ Len(pending) \in Nat
  BY <1>1, LenProperties DEF FileTypeOK
<1>3. End(Len(file)) \in Nat
  BY <1>2, Ends
<1>4. BlockLen \in Nat /\ BlockLen > 0
  BY CipherAssumption
<1> QED BY <1>1, <1>2, <1>3, <1>4 DEF WritesInOrder

\* write begins: what is sent grows at its end.
LEMMA WriteStep ==
    ASSUME Inductive, NEW data \in Seq(Bytes), Write(data)
    PROVE  Inductive' /\ Maps
<1> DEFINE k == Len(file)
           m == Len(master)
           L == Len(sent)
           d == Len(data)
           a == End(k)
<1>0. mode = "writing" /\ pending = <<>> /\ sent' = sent \o data /\ pending' = data
      /\ UNCHANGED <<mode, file, master, second, at, eof, want, buffer, got, answer>>
  BY DEF Write, CanWrite, readerVars
<1>1. /\ FileTypeOK /\ WritesInOrder /\ Unread
      /\ k \in Nat /\ L \in Nat /\ m \in Nat /\ a \in Nat /\ L = a + m
  BY <1>0, WritingLengths, EmptySeq DEF WritesInOrder
<1>2. /\ sent \in Seq(Bytes) /\ d \in Nat
      /\ sent' \in Seq(Bytes) /\ Len(sent') = L + d
  BY <1>0, <1>1, ConcatProperties, LenProperties DEF FileTypeOK
<1>3. FileTypeOK'
  BY <1>0, <1>1, <1>2 DEF FileTypeOK
<1>4. Slice(sent', a, a + m) = Slice(sent, a, a + m)
  <2>1. a + m <= Len(sent) /\ a + m \in Nat /\ a <= a + m
    BY <1>1
  <2>2. a \in Nat /\ sent \in Seq(Bytes)
    BY <1>1, <1>2
  <2> HIDE DEF a, m
  <2>3. Slice(sent \o data, a, a + m) = Slice(sent, a, a + m)
    BY ONLY <2>1, <2>2, data \in Seq(Bytes), SliceBefore
  <2> QED BY <2>3, <1>0
<1>5. Slice(sent', L, L + d) = data
  <2>1. L <= Len(sent) /\ L + d = Len(sent) + Len(data) /\ L <= L + d /\ L + d \in Nat
    BY <1>1, <1>2
  <2>2. Slice(sent \o data, L, L + d) = Slice(sent, L, Len(sent)) \o data
    <3>1. L \in Nat /\ sent \in Seq(Bytes)
      BY <1>1, <1>2
    <3> QED BY ONLY <2>1, <3>1, data \in Seq(Bytes), SliceThrough
  <2>3. Slice(sent, L, Len(sent)) = <<>>
    BY <1>1, SliceEmpty
  <2> QED BY <2>2, <2>3, <1>0, ConcatEmptySeq
<1>6. \A i \in 1 .. k : Slice(sent', End(i - 1), End(i)) = Slice(sent, End(i - 1), End(i))
  <2> SUFFICES ASSUME NEW i \in 1 .. k PROVE Slice(sent', End(i - 1), End(i)) = Slice(sent, End(i - 1), End(i))
    OBVIOUS
  <2>1. i \in Nat /\ i - 1 \in Nat /\ i - 1 <= i /\ i <= k
    BY <1>1
  <2>2. End(i - 1) \in Nat /\ End(i) \in Nat /\ End(i - 1) <= End(i) /\ End(i) <= a
    BY <2>1, <1>1, Ends
  <2>3. End(i) <= Len(sent)
    BY <2>2, <1>1
  <2> QED BY <2>2, <2>3, <1>0, <1>2, SliceBefore
<1>7. WritesInOrder'
  <2>1. Unread'
    BY <1>0, <1>1 DEF Unread
  <2>2. Len(master') <= BlockLen /\ Len(sent') = End(Len(file')) + Len(master') + Len(pending')
    BY <1>0, <1>1, <1>2 DEF WritesInOrder
  <2>3. master' = Slice(sent', End(Len(file')), End(Len(file')) + Len(master'))
    BY <1>0, <1>1, <1>4 DEF WritesInOrder
  <2>4. pending' = Slice(sent', End(Len(file')) + Len(master'), Len(sent'))
    BY <1>0, <1>1, <1>2, <1>5
  <2>5. \A i \in 1 .. Len(file') : file'[i] = Cipher(Slice(sent', End(i - 1), End(i)))
    BY <1>0, <1>1, <1>6 DEF WritesInOrder
  <2> QED BY <2>1, <2>2, <2>3, <2>4, <2>5 DEF WritesInOrder, End
<1>8. Inductive'
  BY <1>0, <1>3, <1>7 DEF Inductive
<1>9. CASE data = <<>>
  <2>1. sent' = sent
    BY <1>0, <1>2, <1>9, ConcatEmptySeq
  <2> QED BY <2>1, <1>0, <1>8 DEF Maps, Stream!pipeVars
<1>10. CASE data # <<>>
  <2>1. d > 0
    BY <1>10, EmptySeq
  <2>2. Slice(sent', 0, L) = sent
    <3>1. 0 <= L /\ L <= Len(sent)
      BY <1>1
    <3>2. Slice(sent', 0, L) = Slice(sent, 0, L)
      BY <3>1, <1>0, <1>1, <1>2, SliceBefore
    <3> QED BY <3>2, <1>2, SliceFull
  <2>3. Len(sent') > Len(sent) /\ Len(sent) <= Len(sent')
    BY <2>1, <1>1, <1>2
  <2>4. sent = SubSeq(sent', 1, Len(sent))
    BY <2>2 DEF Slice
  <2>5. Stream!IsShorter(sent, sent')
    BY <2>3, <2>4 DEF Stream!IsShorter
  <2>6. Stream!Write
    BY <2>3, <2>5, <1>0 DEF Stream!Write
  <2> QED BY <2>6, <1>8 DEF Maps, Stream!Next
<1> QED BY <1>9, <1>10

\* What is left fits into the block.
LEMMA CollectStep ==
    ASSUME Inductive, Collect
    PROVE  Inductive' /\ Maps
<1> DEFINE k == Len(file)
           m == Len(master)
           L == Len(sent)
           n == Len(pending)
           a == End(k)
<1>0. /\ mode = "writing" /\ BlockLen - m >= n
      /\ master' = master \o pending /\ pending' = <<>>
      /\ UNCHANGED <<mode, sent, file, second, at, eof, want, buffer, got, answer>>
  BY DEF Collect, Writing, readerVars
<1>1. /\ FileTypeOK /\ WritesInOrder /\ Unread
      /\ k \in Nat /\ L \in Nat /\ m \in Nat /\ a \in Nat /\ n \in Nat /\ L = a + m + n
      /\ BlockLen \in Nat /\ m <= BlockLen
  BY <1>0, WritingLengths DEF WritesInOrder
<1>2. sent \in Seq(Bytes) /\ master \in Seq(Bytes) /\ pending \in Seq(Bytes)
  BY <1>1 DEF FileTypeOK
<1>3. master' \in Seq(Bytes) /\ Len(master') = m + n
  BY <1>0, <1>2, ConcatProperties
<1>4. FileTypeOK'
  BY <1>0, <1>1, <1>3, EmptySeq DEF FileTypeOK
<1>5. master' = Slice(sent, a, L)
  <2>1. a <= a + m /\ a + m <= L /\ L <= Len(sent) /\ a + m \in Nat
    BY <1>1
  <2>2. master = Slice(sent, a, a + m) /\ pending = Slice(sent, a + m, L)
    BY <1>1 DEF WritesInOrder
  <2>3. a \in Nat /\ L \in Nat
    BY <1>1
  <2> HIDE DEF a, m, L
  <2>4. Slice(sent, a, a + m) \o Slice(sent, a + m, L) = Slice(sent, a, L)
    BY ONLY <2>1, <2>3, <1>2, SlicesJoin
  <2> QED BY <2>2, <2>4, <1>0
<1>6. WritesInOrder'
  <2>1. Unread'
    BY <1>0, <1>1 DEF Unread
  <2>2. Len(pending') = 0
    BY <1>0
  <2>3. a + Len(master') = L
    BY <1>1, <1>3
  <2>4. Len(master') <= BlockLen /\ Len(sent') = End(Len(file')) + Len(master') + Len(pending')
    BY <2>2, <2>3, <1>0, <1>1, <1>3
  <2>5. master' = Slice(sent', End(Len(file')), End(Len(file')) + Len(master'))
    BY <2>3, <1>0, <1>5
  <2>6. pending' = Slice(sent', End(Len(file')) + Len(master'), Len(sent'))
    BY <2>3, <1>0, <1>1, SliceEmpty
  <2>7. \A i \in 1 .. Len(file') : file'[i] = Cipher(Slice(sent', End(i - 1), End(i)))
    BY <1>0, <1>1 DEF WritesInOrder
  <2> QED BY <2>1, <2>4, <2>5, <2>6, <2>7 DEF WritesInOrder, End
<1>7. Inductive'
  BY <1>0, <1>4, <1>6 DEF Inductive
<1> QED BY <1>0, <1>7 DEF Maps, Stream!pipeVars

\* A block is full and more is to come: what it holds is a whole slice.
LEMMA WriteBlockStep ==
    ASSUME Inductive, WriteBlock
    PROVE  Inductive' /\ Maps
<1> DEFINE k == Len(file)
           m == Len(master)
           L == Len(sent)
           n == Len(pending)
           a == End(k)
           b == End(k + 1)
           room == BlockLen - m
           block == master \o SubSeq(pending, 1, room)
<1>0. /\ mode = "writing" /\ room < n
      /\ file' = Append(file, Cipher(block)) /\ pending' = SubSeq(pending, room + 1, n) /\ master' = <<>>
      /\ UNCHANGED <<mode, sent, second, at, eof, want, buffer, got, answer>>
  BY DEF WriteBlock, Writing, readerVars
<1>1. /\ FileTypeOK /\ WritesInOrder /\ Unread
      /\ k \in Nat /\ L \in Nat /\ m \in Nat /\ a \in Nat /\ n \in Nat /\ L = a + m + n
      /\ BlockLen \in Nat /\ m <= BlockLen
  BY <1>0, WritingLengths DEF WritesInOrder
<1>2. sent \in Seq(Bytes) /\ master = Slice(sent, a, a + m) /\ pending = Slice(sent, a + m, L)
  BY <1>1 DEF FileTypeOK, WritesInOrder
<1>3. b \in Nat /\ b = a + BlockLen
  BY <1>1, Ends
<1>4. room \in Nat /\ a + m + room = b /\ b <= L
  BY <1>0, <1>1, <1>3
<1>5. /\ SubSeq(pending, 1, room) = Slice(sent, a + m, b)
      /\ SubSeq(pending, room + 1, n) = Slice(sent, b, L)
  <2> DEFINE c == a + m
  <2>1. /\ c \in Nat /\ b \in Nat /\ L \in Nat /\ b <= L /\ L <= Len(sent) /\ sent \in Seq(Bytes)
        /\ room \in Nat /\ room = b - c /\ c <= b /\ room + 1 \in Nat /\ room + 1 = b - c + 1
    BY <1>1, <1>2, <1>3, <1>4, SMTT(30)
  <2>2. pending = Slice(sent, c, L) /\ n = Len(pending)
    BY <1>2
  <2> HIDE DEF c, room, b, L, n
  <2>3. SubSeq(Slice(sent, c, L), 1, room) = Slice(sent, c, b)
    BY ONLY <2>1, SliceFront
  <2>4. SubSeq(Slice(sent, c, L), room + 1, Len(Slice(sent, c, L))) = Slice(sent, b, L)
    BY ONLY <2>1, SliceBack
  <2> QED BY <2>2, <2>3, <2>4 DEF c
<1>6. block = Slice(sent, a, b)
  <2> DEFINE c == a + m
  <2>1. a \in Nat /\ b \in Nat /\ c \in Nat /\ a <= c /\ c <= b /\ b <= Len(sent) /\ sent \in Seq(Bytes)
    BY <1>1, <1>2, <1>3, <1>4
  <2>2. block = Slice(sent, a, c) \o Slice(sent, c, b)
    BY <1>2, <1>5
  <2> HIDE DEF a, b, c, block
  <2>3. Slice(sent, a, c) \o Slice(sent, c, b) = Slice(sent, a, b)
    BY ONLY <2>1, SlicesJoin
  <2> QED BY <2>2, <2>3
<1>7. block \in Blocks
  <2>1. b - a = BlockLen /\ a <= b /\ b <= Len(sent)
    BY <1>1, <1>3, <1>4
  <2>2. block \in Seq(Bytes) /\ Len(block) = b - a
    <3>1. a \in Nat /\ b \in Nat /\ sent \in Seq(Bytes) /\ block = Slice(sent, a, b)
      BY <1>1, <1>2, <1>3, <1>6
    <3> HIDE DEF a, b, block
    <3> QED BY ONLY <2>1, <3>1, SliceProperties
  <2> HIDE DEF block
  <2> QED BY <2>1, <2>2, LenProperties DEF Blocks
<1>8. /\ Len(file') = k + 1 /\ file' \in Seq(Enciphered)
      /\ \A i \in 1 .. k : file'[i] = file[i]
      /\ file'[k + 1] = Cipher(block)
  <2>1. file \in Seq(Enciphered) /\ Cipher(block) \in Enciphered
    BY <1>1, <1>7 DEF FileTypeOK, Enciphered
  <2> HIDE DEF block
  <2> QED BY <2>1, <1>0, AppendProperties
<1>9. pending' \in Seq(Bytes) /\ Len(pending') = L - b
  <2>1. b <= L /\ L <= Len(sent)
    BY <1>1, <1>4
  <2>2. pending' = Slice(sent, b, L)
    BY <1>0, <1>5
  <2> HIDE DEF b, L
  <2> QED BY <2>1, <2>2, <1>1, <1>2, <1>3, SliceProperties
<1>10. FileTypeOK'
  BY <1>0, <1>1, <1>8, <1>9, EmptySeq DEF FileTypeOK
<1>11. WritesInOrder'
  <2>1. Unread'
    BY <1>0, <1>1 DEF Unread
  <2>2. Len(master') = 0 /\ End(Len(file')) = b
    BY <1>0, <1>8
  <2>3. Len(master') <= BlockLen /\ Len(sent') = End(Len(file')) + Len(master') + Len(pending')
    <3>1. Len(sent') = L
      BY <1>0
    <3> HIDE DEF b, L
    <3> QED BY <2>2, <3>1, <1>1, <1>3, <1>9
  <2>4. master' = Slice(sent', End(Len(file')), End(Len(file')) + Len(master'))
    <3>1. b + 0 = b
      BY <1>3
    <3> QED BY <2>2, <3>1, <1>0, <1>3, SliceEmpty
  <2>5. pending' = Slice(sent', End(Len(file')) + Len(master'), Len(sent'))
    <3>1. b + 0 = b
      BY <1>3
    <3> QED BY <2>2, <3>1, <1>0, <1>5
  <2>6. ASSUME NEW i \in 1 .. k + 1 PROVE file'[i] = Cipher(Slice(sent', End(i - 1), End(i)))
    <3>1. CASE i \in 1 .. k
      BY <3>1, <1>0, <1>1, <1>8 DEF WritesInOrder
    <3>2. CASE i = k + 1
      <4>1. i - 1 = k
        BY <3>2, <1>1
      <4> QED BY <4>1, <3>2, <1>0, <1>6, <1>8
    <3>3. i \in 1 .. k \/ i = k + 1
      <4> HIDE DEF k
      <4> QED BY <1>1
    <3> QED BY <3>1, <3>2, <3>3
  <2>7. \A i \in 1 .. Len(file') : file'[i] = Cipher(Slice(sent', End(i - 1), End(i)))
    BY <2>6, <1>8
  <2> QED BY <2>1, <2>3, <2>4, <2>5, <2>7 DEF WritesInOrder, End
<1>12. Inductive'
  BY <1>0, <1>10, <1>11 DEF Inductive
<1> QED BY <1>0, <1>12 DEF Maps, Stream!pipeVars

\* The last block goes to the file, filled up; if it is full, a block of padding follows.
LEMMA CloseStep ==
    ASSUME Inductive, Close
    PROVE  Inductive' /\ Maps
<1> DEFINE k == Len(file)
           m == Len(master)
           L == Len(sent)
           a == End(k)
           f == IF m = BlockLen THEN BlockLen ELSE BlockLen - m
           n == IF m = BlockLen THEN k + 2 ELSE k + 1
           p == sent \o Pad(f)
           Block(i) == Slice(p, End(i - 1), End(i))
<1>0. /\ mode = "writing" /\ pending = <<>> /\ file' = file \o LastBlocks /\ master' = <<>> /\ mode' = "closed"
      /\ UNCHANGED <<sent, pending, second, at, eof, want, buffer, got, answer>>
  BY DEF Close, CanWrite, readerVars
<1>1. /\ FileTypeOK /\ WritesInOrder /\ Unread
      /\ k \in Nat /\ L \in Nat /\ m \in Nat /\ a \in Nat /\ L = a + m
      /\ BlockLen \in Nat /\ BlockLen > 0 /\ m <= BlockLen
  BY <1>0, WritingLengths, EmptySeq DEF WritesInOrder
<1>2. sent \in Seq(Bytes) /\ master = Slice(sent, a, L) /\ file \in Seq(Enciphered)
  BY <1>1 DEF FileTypeOK, WritesInOrder
<1>3. f \in 1 .. BlockLen /\ n \in Nat /\ n > 0 /\ k <= n
  BY <1>1
<1>4. End(n) = L + f
  <2>1. End(k + 1) = a + BlockLen /\ End(k + 1) \in Nat
    BY <1>1, Ends
  <2>2. End(k + 2) = End(k + 1) + BlockLen
    <3>1. k + 1 \in Nat /\ (k + 1) + 1 = k + 2
      BY <1>1
    <3> QED BY <3>1, Ends
  <2> HIDE DEF a, k, L, m
  <2>3. CASE m = BlockLen
    BY <2>1, <2>2, <2>3, <1>1
  <2>4. CASE m # BlockLen
    BY <2>1, <2>4, <1>1
  <2> QED BY <2>3, <2>4
<1>5. ASSUME NEW i \in 1 .. n
      PROVE  /\ Block(i) \in Blocks
             /\ End(i) <= L => Block(i) = Slice(sent, End(i - 1), End(i))
  <2>1. i \in Nat /\ i - 1 \in Nat /\ (i - 1) + 1 = i /\ i <= n
    BY <1>3
  <2>2. End(i - 1) \in Nat /\ End(i) \in Nat /\ End(i) = End(i - 1) + BlockLen /\ End(i) <= L + f
    BY <2>1, <1>3, <1>4, Ends
  <2>3. L \in Nat /\ L = Len(sent) /\ sent \in Seq(Bytes) /\ f \in 1 .. BlockLen
    BY <1>1, <1>2, <1>3
  <2> HIDE DEF f, L
  <2> QED BY ONLY <2>2, <2>3, PaddedBlock
<1>6. ASSUME NEW i \in 1 .. k PROVE End(i) <= L
  <2>1. i \in Nat /\ i <= k
    BY <1>1
  <2>2. End(i) <= a /\ End(i) \in Nat
    BY <2>1, <1>1, Ends
  <2> QED BY <2>2, <1>1
<1>7. Pad(f) \in Seq(Bytes) /\ Len(Pad(f)) = f
  BY <1>3, PadProperties
<1>8. Len(file') = n /\ file' \in Seq(Enciphered) /\ \A i \in 1 .. n : file'[i] = Cipher(Block(i))
  <2>1. ASSUME NEW i \in 1 .. k PROVE file[i] = Cipher(Block(i))
    <3>1. i \in 1 .. n
      BY <1>1, <1>3
    <3>2. Block(i) = Slice(sent, End(i - 1), End(i))
      BY <3>1, <1>5, <1>6
    <3>3. file[i] = Cipher(Slice(sent, End(i - 1), End(i)))
      BY <1>1 DEF WritesInOrder
    <3> QED BY <3>2, <3>3
  <2>2. CASE m = BlockLen
    <3>1. n = k + 2 /\ f = BlockLen /\ LastBlocks = << Cipher(master), Cipher(Padded(<<>>)) >>
      BY <2>2 DEF LastBlocks
    <3>2. k + 1 \in 1 .. n /\ k + 2 \in 1 .. n /\ (k + 1) - 1 = k /\ (k + 2) - 1 = k + 1
      BY <3>1, <1>1
    <3>3. End(k + 1) = L
      BY <2>2, <1>1, Ends
    <3>4. Block(k + 1) = master
      <4>1. Block(k + 1) = Slice(sent, End(k), End(k + 1))
        BY <3>2, <3>3, <1>1, <1>5
      <4> QED BY <4>1, <3>3, <1>2
    <3>5. Block(k + 2) = Padded(<<>>)
      <4>1. Block(k + 2) = Slice(p, L, L + f)
        BY <3>1, <3>2, <3>3, <1>4
      <4>2. Slice(p, L, L + f) = Slice(sent, L, L) \o Pad(f)
        <5>1. f \in Nat
          BY <1>1, <1>3
        <5> HIDE DEF f
        <5>2. L \in Nat /\ L + f \in Nat /\ L <= L + f /\ L <= Len(sent) /\ L + f = Len(sent) + Len(Pad(f))
          BY <5>1, <1>1, <1>7
        <5>3. Slice(sent \o Pad(f), L, L + f) = Slice(sent, L, Len(sent)) \o Pad(f)
          BY ONLY <5>2, <1>2, <1>7, SliceThrough
        <5> QED BY <5>3
      <4>3. Slice(sent, L, L) = <<>>
        BY <1>1, SliceEmpty
      <4>4. Padded(<<>>) = <<>> \o Pad(f)
        <5>1. BlockLen - Len(<<>>) = BlockLen
          BY <1>1
        <5> QED BY <5>1, <3>1 DEF Padded, Pad
      <4> QED BY <4>1, <4>2, <4>3, <4>4
    <3>6. LastBlocks = << Cipher(Block(k + 1)), Cipher(Block(k + 2)) >>
      BY <3>1, <3>4, <3>5
    <3>7. Cipher(Block(k + 1)) \in Enciphered /\ Cipher(Block(k + 2)) \in Enciphered
      BY <3>2, <1>5 DEF Enciphered
    <3> HIDE DEF Block
    <3>8. LastBlocks \in Seq(Enciphered) /\ Len(LastBlocks) = 2
          /\ LastBlocks[1] = Cipher(Block(k + 1)) /\ LastBlocks[2] = Cipher(Block(k + 2))
      BY <3>6, <3>7
    <3> HIDE DEF k, m, n
    <3>9. /\ file' \in Seq(Enciphered) /\ Len(file') = k + 2
          /\ \A i \in 1 .. k + 2 : file'[i] = IF i <= k THEN file[i] ELSE LastBlocks[i - k]
      <4>1. /\ file' \in Seq(Enciphered) /\ Len(file') = Len(file) + Len(LastBlocks)
            /\ \A i \in 1 .. Len(file) + Len(LastBlocks) :
                  file'[i] = IF i <= Len(file) THEN file[i] ELSE LastBlocks[i - Len(file)]
        BY <3>8, <1>0, <1>2, ConcatProperties
      <4> QED BY <4>1, <3>8 DEF k
    <3>10. ASSUME NEW i \in 1 .. k + 2 PROVE file'[i] = Cipher(Block(i))
      <4>1. CASE i \in 1 .. k
        BY <4>1, <3>9, <2>1, <1>1
      <4>2. CASE i = k + 1
        <5>1. ~(i <= k) /\ i - k = 1
          BY <4>2, <1>1
        <5> QED BY <5>1, <4>2, <3>8, <3>9
      <4>3. CASE i = k + 2
        <5>1. ~(i <= k) /\ i - k = 2
          BY <4>3, <1>1
        <5> QED BY <5>1, <4>3, <3>8, <3>9
      <4> QED BY <4>1, <4>2, <4>3, <1>1
    <3> QED BY <3>1, <3>9, <3>10
  <2>3. CASE m # BlockLen
    <3>1. n = k + 1 /\ f = BlockLen - m /\ LastBlocks = << Cipher(Padded(master)) >>
      BY <2>3 DEF LastBlocks
    <3>2. k + 1 \in 1 .. n /\ (k + 1) - 1 = k
      BY <3>1, <1>1
    <3>3. Block(k + 1) = Padded(master)
      <4>1. Block(k + 1) = Slice(p, a, L + f)
        BY <3>1, <3>2, <1>4
      <4>2. Slice(p, a, L + f) = master \o Pad(f)
        <5>1. a \in Nat /\ L + f \in Nat /\ a <= L + f /\ a <= Len(sent) /\ L + f = Len(sent) + Len(Pad(f))
          BY <1>1, <1>3, <1>7
        <5>2. Slice(sent \o Pad(f), a, L + f) = Slice(sent, a, Len(sent)) \o Pad(f)
          <6> DEFINE t == Pad(f)  b == L + f
          <6>1. /\ sent \in Seq(Bytes) /\ t \in Seq(Bytes) /\ a \in Nat /\ b \in Nat /\ a <= b
                /\ a <= Len(sent) /\ b = Len(sent) + Len(t)
            BY <5>1, <1>2, <1>7
          <6> HIDE DEF a, b, t
          <6>2. Slice(sent \o t, a, b) = Slice(sent, a, Len(sent)) \o t
            BY ONLY <6>1, SliceThrough
          <6> QED BY <6>2 DEF b, t
        <5> QED BY <5>2, <1>2
      <4>3. Padded(master) = master \o Pad(f)
        BY <3>1 DEF Padded, Pad
      <4> QED BY <4>1, <4>2, <4>3
    <3>4. LastBlocks = << Cipher(Block(k + 1)) >>
      BY <3>1, <3>3
    <3>5. Cipher(Block(k + 1)) \in Enciphered
      BY <3>2, <1>5 DEF Enciphered
    <3> HIDE DEF Block
    <3>6. LastBlocks \in Seq(Enciphered) /\ Len(LastBlocks) = 1 /\ LastBlocks[1] = Cipher(Block(k + 1))
      BY <3>4, <3>5
    <3> HIDE DEF k, m, n
    <3>7. /\ file' \in Seq(Enciphered) /\ Len(file') = k + 1
          /\ \A i \in 1 .. k + 1 : file'[i] = IF i <= k THEN file[i] ELSE LastBlocks[i - k]
      <4>1. /\ file' \in Seq(Enciphered) /\ Len(file') = Len(file) + Len(LastBlocks)
            /\ \A i \in 1 .. Len(file) + Len(LastBlocks) :
                  file'[i] = IF i <= Len(file) THEN file[i] ELSE LastBlocks[i - Len(file)]
        BY <3>6, <1>0, <1>2, ConcatProperties
      <4> QED BY <4>1, <3>6 DEF k
    <3>8. ASSUME NEW i \in 1 .. k + 1 PROVE file'[i] = Cipher(Block(i))
      <4>1. CASE i \in 1 .. k
        BY <4>1, <3>7, <2>1, <1>1
      <4>2. CASE i = k + 1
        <5>1. ~(i <= k) /\ i - k = 1
          BY <4>2, <1>1
        <5> QED BY <5>1, <4>2, <3>6, <3>7
      <4> QED BY <4>1, <4>2, <1>1
    <3> QED BY <3>1, <3>7, <3>8
  <2> QED BY <2>2, <2>3
<1>9. Filling' = f
  <2>1. Filling' = End(n) - L
    BY <1>0, <1>8 DEF Filling, End
  <2> HIDE DEF f, L, n
  <2> QED BY <2>1, <1>1, <1>3, <1>4
<1>10. Plain' = p
  BY <1>0, <1>9 DEF Plain, Pad
<1>11. FileIsWhole'
  <2>1. \A i \in 1 .. Len(file') : file'[i] = Cipher(Slice(Plain', End(i - 1), End(i)))
    BY <1>8, <1>10
  <2>2. Len(file') > 0
    BY <1>3, <1>8
  <2> HIDE DEF f, n
  <2> QED BY <2>1, <2>2, <1>3, <1>9 DEF FileIsWhole, End
<1>12. FileTypeOK'
  BY <1>0, <1>1, <1>8, EmptySeq DEF FileTypeOK
<1>13. Unread'
  BY <1>0, <1>1 DEF Unread
<1>14. Inductive'
  BY <1>0, <1>11, <1>12, <1>13 DEF Inductive
<1>15. Stream!Close
  BY <1>0 DEF Stream!Close
<1> QED BY <1>14, <1>15 DEF Maps, Stream!Next

-----------------------------------------------------------------------------
(***************************************************************************)
(* The reader's steps                                                      *)
(***************************************************************************)

\* What a reader knows
LEMMA ReadingLengths ==
    ASSUME Inductive, mode = "reading"
    PROVE  /\ FileTypeOK /\ FileIsWhole /\ ReadsInOrder
           /\ Len(sent) \in Nat /\ Len(got) \in Nat /\ Len(buffer) \in Nat /\ Len(master) \in Nat
           /\ Upto \in Nat /\ Upto <= Len(sent)
           /\ Len(got) + Len(buffer) + Len(master) = Upto
<1>1. FileTypeOK /\ FileIsWhole /\ ReadsInOrder /\ LooksAhead
  BY DEF Inductive, ReadsInOrder
<1>2. /\ Len(sent) \in Nat /\ Len(got) \in Nat /\ Len(buffer) \in Nat /\ Len(master) \in Nat
      /\ Len(file) \in Nat /\ Len(file) > 0
  BY <1>1, LenProperties DEF FileTypeOK, FileIsWhole
<1>3. Upto \in Nat /\ Upto <= Len(sent)
  <2>1. CASE eof
    BY <2>1, <1>2 DEF Upto
  <2>2. CASE ~eof /\ second = <<>>
    <3>1. Done = 0
      BY <2>2, <1>1 DEF Done, LooksAhead
    <3> QED BY <3>1, <2>2, <1>2, Ends DEF Upto
  <2>3. CASE ~eof /\ second # <<>>
    <3> DEFINE n == Len(file)
               L == Len(sent)
    <3>1. Done = at - 1 /\ at \in 2 .. n
      BY <2>3, <1>1 DEF Done, LooksAhead
    <3>2. Filling \in 1 .. BlockLen /\ Filling = End(n) - L /\ BlockLen \in Nat
      BY <1>1, CipherAssumption DEF Filling, FileIsWhole
    <3>3. n \in Nat /\ L \in Nat
      BY <1>2
    <3> HIDE DEF n, L
    <3>4. Done \in Nat /\ n - 1 \in Nat /\ Done <= n - 1 /\ (n - 1) + 1 = n
      BY <3>1, <3>3
    <3>5. End(Done) <= End(n - 1) /\ End(Done) \in Nat /\ End(n - 1) \in Nat /\ End(n) = End(n - 1) + BlockLen
      BY <3>4, Ends
    <3>6. End(Done) <= L
      BY <3>2, <3>3, <3>5
    <3> QED BY <3>5, <3>6, <2>3 DEF Upto, L
  <2> QED BY <2>1, <2>2, <2>3
<1> QED BY <1>1, <1>2, <1>3 DEF ReadsInOrder

\* Slices that follow each other are what a reader must keep.
LEMMA ReadAgain ==
    ASSUME mode' = "reading", FileTypeOK, FileIsWhole, UNCHANGED <<sent, pending, file>>, LooksAhead',
           at' \in Nat, eof' \in BOOLEAN, want' \in Nat \union {-1},
           NEW g \in Nat, NEW b \in Nat, NEW u \in Nat, g <= b, b <= u, u <= Len(sent), Upto' = u,
           got' = Slice(sent, 0, g), buffer' = Slice(sent, g, b), master' = Slice(sent, b, u),
           want' = -1 => b = g,
           want' # -1 => ~eof' /\ b = u /\ b - g < want'
    PROVE  Inductive'
<1>1. sent \in Seq(Bytes) /\ Len(sent) \in Nat
  BY LenProperties DEF FileTypeOK
<1>2. g <= Len(sent) /\ b <= Len(sent) /\ 0 <= g /\ 0 \in Nat
  BY <1>1
<1>3. got' \in Seq(Bytes) /\ Len(got') = g - 0
  <2>1. 0 \in Nat /\ g \in Nat /\ 0 <= g /\ g <= Len(sent) /\ sent \in Seq(Bytes)
    BY <1>1, <1>2
  <2>2. Slice(sent, 0, g) \in Seq(Bytes) /\ Len(Slice(sent, 0, g)) = g - 0
    BY ONLY <2>1, SliceProperties
  <2> QED
    BY <2>2
<1>4. buffer' \in Seq(Bytes) /\ Len(buffer') = b - g
  <2>1. g \in Nat /\ b \in Nat /\ g <= b /\ b <= Len(sent) /\ sent \in Seq(Bytes)
    BY <1>1, <1>2
  <2>2. Slice(sent, g, b) \in Seq(Bytes) /\ Len(Slice(sent, g, b)) = b - g
    BY ONLY <2>1, SliceProperties
  <2> QED
    BY <2>2
<1>5. master' \in Seq(Bytes) /\ Len(master') = u - b
  <2>1. b \in Nat /\ u \in Nat /\ b <= u /\ u <= Len(sent) /\ sent \in Seq(Bytes)
    BY <1>1, <1>2
  <2>2. Slice(sent, b, u) \in Seq(Bytes) /\ Len(Slice(sent, b, u)) = u - b
    BY ONLY <2>1, SliceProperties
  <2> QED
    BY <2>2
<1>6. FileTypeOK'
  BY <1>3, <1>4, <1>5 DEF FileTypeOK
<1>7. FileIsWhole'
  BY DEF FileIsWhole, Plain, Filling, End, Pad
<1>8. /\ Len(got') = g /\ Len(got') + Len(buffer') = b
      /\ Len(got') + Len(buffer') + Len(master') = u
  BY <1>3, <1>4, <1>5, SMTT(30)
<1>9. ReadsInOrder'
  <2>1. want' = -1 => buffer' = <<>>
    BY SliceEmpty
  <2>2. want' # -1 => ~eof' /\ master' = <<>> /\ Len(buffer') < want'
    BY <1>4, SliceEmpty
  <2> QED BY <2>1, <2>2, <1>8 DEF ReadsInOrder
<1> QED BY <1>6, <1>7, <1>9 DEF Inductive

\* A reader is made: nothing was read.
LEMMA OpenStep ==
    ASSUME Inductive, Open
    PROVE  Inductive' /\ Maps
<1>0. /\ mode = "closed" /\ mode' = "reading"
      /\ UNCHANGED <<sent, pending, file, master, second, at, eof, want, buffer, got, answer>>
  BY DEF Open, readerVars
<1>1. FileTypeOK /\ FileIsWhole /\ Unread /\ master = <<>>
  BY <1>0 DEF Inductive
<1>2. Len(file) \in Nat /\ Len(sent) \in Nat /\ 0 \in Nat /\ 0 <= Len(sent)
  BY <1>1, LenProperties DEF FileTypeOK
<1>3. LooksAhead'
  BY <1>0, <1>1 DEF Unread, LooksAhead
<1>4. Upto' = 0
  <2>1. Done' = 0
    BY <1>0, <1>1 DEF Unread, Done
  <2> QED BY <2>1, <1>0, <1>1, Ends DEF Unread, Upto, End
<1>5. Slice(sent, 0, 0) = <<>>
  BY SliceEmpty
<1>6. /\ at' \in Nat /\ eof' \in BOOLEAN /\ want' = -1
      /\ got' = Slice(sent, 0, 0) /\ buffer' = Slice(sent, 0, 0) /\ master' = Slice(sent, 0, 0)
  <2>1. at' = 0 /\ eof' = FALSE /\ want' = -1
    BY <1>0, <1>1 DEF Unread, FileTypeOK
  <2>2. got' = <<>> /\ buffer' = <<>> /\ master' = <<>>
    BY <1>0, <1>1 DEF Unread
  <2> QED BY <2>1, <2>2, <1>5
<1>7. Inductive'
  BY <1>0, <1>1, <1>2, <1>3, <1>4, <1>6, ReadAgain
<1>8. Stream!Open
  BY <1>0 DEF Stream!Open
<1> QED BY <1>7, <1>8 DEF Maps, Stream!Next

\* What no read looks at stays as it is.
LEMMA SameBlocks ==
    ASSUME LooksAhead, UNCHANGED <<sent, file, second, at, eof>>
    PROVE  LooksAhead' /\ Upto' = Upto
BY DEF LooksAhead, Upto, Done, Plain, Filling, Pad, End

\* There is enough in m_master.
LEMMA ReadMasterStep ==
    ASSUME Inductive, NEW n \in Nat, ReadMaster(n)
    PROVE  Inductive' /\ Maps
<1> DEFINE g == Len(got)
           e == g + n
           u == Upto
<1>0. /\ mode = "reading" /\ want = -1 /\ Len(master) >= n
      /\ got' = got \o SubSeq(master, 1, n) /\ master' = SubSeq(master, n + 1, Len(master))
      /\ answer' = <<n, n>>
      /\ UNCHANGED <<mode, sent, pending, file, second, at, eof, want, buffer>>
  BY DEF ReadMaster, CanRead
<1>1. /\ FileTypeOK /\ FileIsWhole /\ ReadsInOrder /\ LooksAhead /\ buffer = <<>>
      /\ g \in Nat /\ Len(sent) \in Nat /\ Len(master) \in Nat
      /\ u \in Nat /\ u <= Len(sent) /\ g + Len(master) = u
  <2>1. ReadsInOrder /\ Len(got) + Len(buffer) + Len(master) = Upto
    BY <1>0, ReadingLengths
  <2>2. buffer = <<>> /\ LooksAhead
    BY <2>1, <1>0 DEF ReadsInOrder
  <2>3. Len(buffer) = 0
    BY <2>2
  <2> QED BY <2>1, <2>2, <2>3, <1>0, ReadingLengths
<1>2. sent \in Seq(Bytes) /\ got \in Seq(Bytes) /\ got = Slice(sent, 0, g) /\ master = Slice(sent, g, u)
  <2>1. Len(buffer) = 0 /\ g + 0 = g
    BY <1>1
  <2> QED BY <2>1, <1>1 DEF FileTypeOK, ReadsInOrder
<1>3. LooksAhead' /\ Upto' = u
  BY <1>0, <1>1, SameBlocks
<1>4. e \in Nat /\ g <= e /\ e <= u /\ n = e - g /\ n + 1 \in Nat /\ n + 1 = e - g + 1 /\ e <= Len(sent)
  BY <1>0, <1>1
<1> HIDE DEF e, g, u
<1>5. SubSeq(master, 1, n) = Slice(sent, g, e)
  <2>1. SubSeq(Slice(sent, g, u), 1, n) = Slice(sent, g, e)
    <3>1. g \in Nat /\ e \in Nat /\ u \in Nat /\ e <= u /\ u <= Len(sent) /\ sent \in Seq(Bytes) /\ n = e - g
      BY <1>1, <1>2, <1>4
    <3> QED BY ONLY <3>1, n \in Nat, SliceFront
  <2> QED BY <2>1, <1>2
<1>6. master' = Slice(sent, e, u)
  <2>1. SubSeq(Slice(sent, g, u), n + 1, Len(Slice(sent, g, u))) = Slice(sent, e, u)
    <3>1. /\ g \in Nat /\ e \in Nat /\ u \in Nat /\ g <= e /\ e <= u /\ u <= Len(sent) /\ sent \in Seq(Bytes)
          /\ n + 1 \in Nat /\ n + 1 = e - g + 1
      BY <1>1, <1>2, <1>4
    <3> QED BY ONLY <3>1, SliceBack, SMTT(30)
  <2> QED BY <2>1, <1>0, <1>2
<1>7. got' = got \o Slice(sent, g, e)
  BY <1>0, <1>5
<1>8. got' = Slice(sent, 0, e)
  <2>1. Slice(sent, 0, g) \o Slice(sent, g, e) = Slice(sent, 0, e)
    <3>1. 0 \in Nat /\ 0 <= g /\ g \in Nat /\ e \in Nat /\ g <= e /\ e <= Len(sent) /\ sent \in Seq(Bytes)
      BY <1>1, <1>2, <1>4
    <3> QED BY ONLY <3>1, SlicesJoin
  <2> QED BY <2>1, <1>2, <1>7
<1>9. Inductive'
  <2>1. buffer' = Slice(sent, e, e)
    BY <1>0, <1>1, <1>4, SliceEmpty
  <2>2. at' \in Nat /\ eof' \in BOOLEAN /\ want' = -1
    BY <1>0, <1>1 DEF FileTypeOK
  <2>3. e <= e /\ mode' = "reading" /\ UNCHANGED <<sent, pending, file>>
    BY <1>0, <1>4
  <2> QED BY <2>1, <2>2, <2>3, <1>1, <1>3, <1>4, <1>6, <1>8, ReadAgain
<1>10. Stream!Next
  <2>1. /\ Len(got) <= Len(sent)
        /\ e = IF Len(got) + n <= Len(sent) THEN Len(got) + n ELSE Len(sent)
    BY <1>1, <1>4 DEF e, g
  <2>2. got' = got \o Slice(sent, Len(got), e) /\ answer' = <<n, e - Len(got)>>
    BY <1>0, <1>4, <1>7 DEF g
  <2> QED BY <2>1, <2>2, <1>0, <1>2, <1>4, PipeRead
<1> QED BY <1>9, <1>10 DEF Maps

\* Behind the end of the file, a read takes what is left.
LEMMA ReadLastStep ==
    ASSUME Inductive, NEW n \in Nat, ReadLast(n)
    PROVE  Inductive' /\ Maps
<1> DEFINE g == Len(got)
           L == Len(sent)
<1>0. /\ mode = "reading" /\ want = -1 /\ Len(master) < n /\ eof
      /\ got' = got \o master /\ master' = <<>>
      /\ answer' = IF master = <<>> THEN <<>> ELSE <<n, Len(master)>>
      /\ UNCHANGED <<mode, sent, pending, file, second, at, eof, want, buffer>>
  BY DEF ReadLast, CanRead
<1>1. /\ FileTypeOK /\ FileIsWhole /\ ReadsInOrder /\ LooksAhead /\ buffer = <<>>
      /\ g \in Nat /\ L \in Nat /\ Len(master) \in Nat /\ Upto = L /\ g + Len(master) = L
  <2>1. ReadsInOrder /\ Len(got) + Len(buffer) + Len(master) = Upto
    BY <1>0, ReadingLengths
  <2>2. buffer = <<>> /\ LooksAhead /\ Upto = L
    BY <2>1, <1>0 DEF ReadsInOrder, Upto
  <2>3. Len(buffer) = 0
    BY <2>2
  <2> QED BY <2>1, <2>2, <2>3, <1>0, ReadingLengths
<1>2. sent \in Seq(Bytes) /\ got \in Seq(Bytes) /\ got = Slice(sent, 0, g) /\ master = Slice(sent, g, L)
  <2>1. Len(buffer) = 0 /\ g + 0 = g
    BY <1>1
  <2> QED BY <2>1, <1>1 DEF FileTypeOK, ReadsInOrder
<1>3. LooksAhead' /\ Upto' = L
  BY <1>0, <1>1, SameBlocks
<1>4. g <= L /\ L - g = Len(master) /\ L <= Len(sent) /\ L = Len(sent) /\ g = Len(got)
  BY <1>1
<1> HIDE DEF g, L
<1>5. got' = Slice(sent, 0, L)
  <2>1. Slice(sent, 0, g) \o Slice(sent, g, L) = Slice(sent, 0, L)
    <3>1. 0 \in Nat /\ 0 <= g /\ g \in Nat /\ L \in Nat /\ g <= L /\ L <= Len(sent) /\ sent \in Seq(Bytes)
      BY <1>1, <1>2, <1>4
    <3> QED BY ONLY <3>1, SlicesJoin
  <2> QED BY <2>1, <1>0, <1>2
<1>6. Inductive'
  <2>1. buffer' = Slice(sent, L, L) /\ master' = Slice(sent, L, L)
    BY <1>0, <1>1, SliceEmpty
  <2>2. at' \in Nat /\ eof' \in BOOLEAN /\ want' = -1
    BY <1>0, <1>1 DEF FileTypeOK
  <2>3. L <= L /\ mode' = "reading" /\ UNCHANGED <<sent, pending, file>>
    BY <1>0, <1>1
  <2> QED BY <2>1, <2>2, <2>3, <1>1, <1>3, <1>4, <1>5, ReadAgain
<1>7. CASE master = <<>>
  <2>1. Stream!Left = <<>>
    BY <1>2, <1>4, <1>7 DEF Stream!Left, Slice
  <2>2. got' = got
    BY <1>0, <1>2, <1>7, ConcatEmptySeq
  <2>3. Stream!Fail
    BY <2>1, <2>2, <1>0, <1>7 DEF Stream!Fail
  <2> QED BY <2>3, <1>6 DEF Maps, Stream!Next
<1>8. CASE master # <<>>
  <2>1. L = IF Len(got) + n <= Len(sent) THEN Len(got) + n ELSE Len(sent)
    BY <1>0, <1>1, <1>4
  <2>2. got' = got \o Slice(sent, Len(got), L) /\ answer' = <<n, L - Len(got)>>
    BY <1>0, <1>2, <1>4, <1>8
  <2>3. Len(got) <= Len(sent) /\ L \in Nat
    BY <1>1, <1>4
  <2>4. Stream!Next
    BY <2>1, <2>2, <2>3, <1>0, <1>2, PipeRead
  <2> QED BY <2>4, <1>6 DEF Maps
<1> QED BY <1>7, <1>8

\* What there is is not enough: the blocks are looked at.
LEMMA StartReadStep ==
    ASSUME Inductive, NEW n \in Nat, StartRead(n)
    PROVE  Inductive' /\ Maps
<1> DEFINE g == Len(got)
           u == Upto
<1>0. /\ mode = "reading" /\ want = -1 /\ Len(master) < n /\ ~eof
      /\ want' = n /\ buffer' = master /\ master' = <<>>
      /\ UNCHANGED <<mode, sent, pending, file, second, at, eof, got, answer>>
  BY DEF StartRead, CanRead
<1>1. /\ FileTypeOK /\ FileIsWhole /\ ReadsInOrder /\ LooksAhead /\ buffer = <<>>
      /\ g \in Nat /\ Len(sent) \in Nat /\ Len(master) \in Nat
      /\ u \in Nat /\ u <= Len(sent) /\ g + Len(master) = u
  <2>1. ReadsInOrder /\ Len(got) + Len(buffer) + Len(master) = Upto
    BY <1>0, ReadingLengths
  <2>2. buffer = <<>> /\ LooksAhead
    BY <2>1, <1>0 DEF ReadsInOrder
  <2>3. Len(buffer) = 0
    BY <2>2
  <2> QED BY <2>1, <2>2, <2>3, <1>0, ReadingLengths
<1>2. got = Slice(sent, 0, g) /\ master = Slice(sent, g, u)
  <2>1. Len(buffer) = 0 /\ g + 0 = g
    BY <1>1
  <2> QED BY <2>1, <1>1 DEF ReadsInOrder
<1>3. LooksAhead' /\ Upto' = u
  BY <1>0, <1>1, SameBlocks
<1>4. g <= u /\ u <= u /\ u - g < n
  BY <1>0, <1>1
<1> HIDE DEF g, u
<1>5. master' = Slice(sent, u, u)
  BY <1>0, <1>1, SliceEmpty
<1>6. /\ at' \in Nat /\ eof' \in BOOLEAN /\ ~eof' /\ want' \in Nat \union {-1}
      /\ want' # -1 /\ u - g < want'
  BY <1>0, <1>1, <1>4 DEF FileTypeOK
<1>7. /\ mode' = "reading" /\ UNCHANGED <<sent, pending, file>>
      /\ got' = Slice(sent, 0, g) /\ buffer' = Slice(sent, g, u)
  BY <1>0, <1>2
<1>8. Inductive'
  BY <1>1, <1>3, <1>4, <1>5, <1>6, <1>7, ReadAgain
<1> QED BY <1>0, <1>8 DEF Maps, Stream!pipeVars

\* What one turn of the loop in read does: a block becomes the part of what was sent that
\* it holds, and the one behind it is read ahead ...
Moved(u, stop, last, block) ==
    /\ u = Upto /\ u <= stop /\ stop <= Len(sent) /\ (last => stop = Len(sent))
    /\ block = Slice(sent, u, stop) /\ Len(block) = stop - u
    /\ LooksAhead' /\ Upto' = stop
    /\ at' \in Nat /\ eof' = last

\* ... and the block is handed out, up to what is needed.
HandedOut(needed, last, block) ==
    \/ /\ Len(block) >= needed
       /\ Return(buffer \o SubSeq(block, 1, needed), SubSeq(block, needed + 1, Len(block)))
    \/ /\ Len(block) < needed
       /\ last
       /\ Return(buffer \o block, <<>>)
    \/ /\ Len(block) < needed
       /\ ~last
       /\ buffer' = buffer \o block
       /\ master' = <<>>
       /\ UNCHANGED <<want, got, answer>>

LEMMA BlockMoved ==
    ASSUME Inductive, ReadBlock
    PROVE  \E u \in Nat, stop \in Nat, last \in BOOLEAN, block \in Seq(Bytes) :
              Moved(u, stop, last, block) /\ HandedOut(want - Len(buffer), last, block)
<1> DEFINE n == Len(file)
           k == IF second # <<>> THEN at ELSE at + 1
           first == IF second # <<>> THEN second ELSE InvCipher(file[at + 1])
           last == ~HasMore(k)
           block == Unpadded(first, last)
           u == Upto
           stop == IF last THEN Len(sent) ELSE End(k)
<1>0. mode = "reading" /\ want # -1 /\ UNCHANGED <<mode, sent, pending, file>>
  BY DEF ReadBlock, Reading
<1>1. /\ FileTypeOK /\ FileIsWhole /\ LooksAhead /\ ~eof /\ Len(sent) \in Nat /\ n \in Nat /\ n > 0
      /\ sent \in Seq(Bytes)
  <2>1. FileTypeOK /\ FileIsWhole /\ ReadsInOrder /\ Len(sent) \in Nat
    BY <1>0, ReadingLengths
  <2> QED BY <2>1, <1>0, LenProperties DEF FileTypeOK, FileIsWhole, ReadsInOrder
<1>2. k \in 1 .. n /\ (second = <<>> => at = 0) /\ Done = k - 1
  BY <1>1 DEF LooksAhead, Done
<1>3. last \in BOOLEAN /\ (last <=> k = Len(file))
  BY <1>1, <1>2 DEF HasMore
<1>4. u = End(k - 1)
  BY <1>1, <1>2 DEF Upto
<1>5. /\ InvCipher(file[k]) = Slice(Plain, End(k - 1), End(k))
      /\ Unpadded(Slice(Plain, End(k - 1), End(k)), last) = Slice(sent, End(k - 1), stop)
      /\ stop \in Nat /\ End(k - 1) <= stop /\ stop <= Len(sent)
  <2> HIDE DEF k, last
  <2> QED BY <1>1, <1>2, <1>3, BlockRead
<1>6. first = Slice(Plain, End(k - 1), End(k))
  BY <1>1, <1>2, <1>5 DEF LooksAhead
<1>7. block = Slice(sent, u, stop) /\ u <= stop
  BY <1>4, <1>5, <1>6
<1>8. u \in Nat
  BY <1>0, ReadingLengths
<1>9. block \in Seq(Bytes) /\ Len(block) = stop - u
  <2>1. u \in Nat /\ stop \in Nat /\ u <= stop /\ stop <= Len(sent) /\ block = Slice(sent, u, stop)
    BY <1>5, <1>7, <1>8
  <2> HIDE DEF u, stop, block
  <2> QED BY ONLY <2>1, <1>1, SliceProperties
<1>10. /\ second' = IF last THEN <<>> ELSE InvCipher(file[k + 1])
       /\ at' = IF last THEN k ELSE k + 1
       /\ eof' = last
  BY DEF ReadBlock
<1>11. ~last => k + 1 \in 1 .. n /\ InvCipher(file[k + 1]) = Slice(Plain, End(k), End(k + 1))
                /\ InvCipher(file[k + 1]) # <<>>
  <2> SUFFICES ASSUME ~last
               PROVE  /\ k + 1 \in 1 .. n /\ InvCipher(file[k + 1]) = Slice(Plain, End(k), End(k + 1))
                      /\ InvCipher(file[k + 1]) # <<>>
    OBVIOUS
  <2>1. k + 1 \in 1 .. n /\ (k + 1) - 1 = k
    <3> HIDE DEF k, n
    <3> QED BY <1>1, <1>2, <1>3 DEF n
  <2> DEFINE i == k + 1
             more == i = Len(file)
  <2>2. i \in 1 .. Len(file) /\ i - 1 = k /\ more \in BOOLEAN /\ (more <=> i = Len(file))
    BY <2>1
  <2> HIDE DEF i, more, k
  <2>3. InvCipher(file[i]) = Slice(Plain, End(i - 1), End(i)) /\ Slice(Plain, End(i - 1), End(i)) # <<>>
    BY <2>2, <1>1, BlockRead
  <2> QED BY <2>1, <2>2, <2>3 DEF i
<1>12. Plain' = Plain
  BY <1>0 DEF Plain, Filling, Pad, End
<1>13. LooksAhead' /\ Upto' = stop /\ at' \in Nat
  <2>1. k \in Nat /\ k \in 1 .. n /\ Len(file') = n
    BY <1>0, <1>2
  <2>2. CASE last
    <3>1. second' = <<>> /\ at' = Len(file') /\ eof' = TRUE
      BY <2>1, <2>2, <1>3, <1>10
    <3>2. LooksAhead'
      BY <3>1 DEF LooksAhead
    <3>3. Upto' = Len(sent)
      BY <3>1, <1>0 DEF Upto
    <3> QED BY <3>1, <3>2, <3>3, <2>1, <2>2
  <2>3. CASE ~last
    <3>1. second' = Slice(Plain, End(k), End(k + 1)) /\ second' # <<>> /\ at' = k + 1 /\ eof' = FALSE
          /\ k + 1 \in 2 .. n
      <4>1. k + 1 \in 1 .. n /\ InvCipher(file[k + 1]) = Slice(Plain, End(k), End(k + 1))
            /\ InvCipher(file[k + 1]) # <<>>
        BY <2>3, <1>11
      <4>2. second' = InvCipher(file[k + 1]) /\ at' = k + 1 /\ eof' = FALSE
        BY <2>3, <1>10
      <4> HIDE DEF k, n
      <4>3. k + 1 \in 2 .. n
        BY <2>1, <4>1, <1>1 DEF n
      <4> QED BY <4>1, <4>2, <4>3
    <3>2. at' - 1 = k /\ at' \in 2 .. Len(file')
      BY <3>1, <2>1
    <3> HIDE DEF k, n
    <3>3. LooksAhead'
      BY <3>1, <3>2, <1>12 DEF LooksAhead, End
    <3>4. Done' = k
      BY <3>1, <3>2 DEF Done
    <3>5. Upto' = End(k)
      BY <3>1, <3>4 DEF Upto, End
    <3> QED BY <3>1, <3>3, <3>5, <2>1, <2>3
  <2> QED BY <2>2, <2>3
<1>14. HandedOut(want - Len(buffer), last, block)
  BY DEF ReadBlock, HandedOut
<1>15. last => stop = Len(sent)
  OBVIOUS
<1>16. stop \in Nat /\ stop <= Len(sent)
  BY <1>5
<1> HIDE DEF n, k, last, block, stop, first
<1>17. Moved(u, stop, last, block)
  BY <1>7, <1>9, <1>10, <1>13, <1>15, <1>16 DEF Moved
<1> QED BY <1>3, <1>8, <1>9, <1>14, <1>16, <1>17

\* A turn returns what was asked for, or what there is at the end, or goes on.
LEMMA ReadBlockStep ==
    ASSUME Inductive, ReadBlock
    PROVE  Inductive' /\ Maps
<1> DEFINE g == Len(got)
           b == Len(buffer)
           needed == want - Len(buffer)
<1>0. mode = "reading" /\ mode' = "reading" /\ want # -1 /\ UNCHANGED <<mode, sent, pending, file>>
  BY DEF ReadBlock, Reading
<1>a. PICK u \in Nat, stop \in Nat, last \in BOOLEAN, block \in Seq(Bytes) :
             Moved(u, stop, last, block) /\ HandedOut(want - Len(buffer), last, block)
  BY BlockMoved
<1>1. /\ FileTypeOK /\ FileIsWhole /\ ReadsInOrder
      /\ g \in Nat /\ b \in Nat /\ Len(sent) \in Nat /\ g + b = u
      /\ want \in Nat /\ b < want /\ needed = want - b
  <2>1. ReadsInOrder /\ FileTypeOK /\ Len(got) + Len(buffer) + Len(master) = Upto
        /\ Len(got) \in Nat /\ Len(buffer) \in Nat
    BY <1>0, ReadingLengths
  <2>2. master = <<>> /\ Len(buffer) < want /\ want \in Nat
    BY <2>1, <1>0 DEF ReadsInOrder, FileTypeOK
  <2>3. Len(master) = 0 /\ u = Upto
    BY <2>2, <1>a DEF Moved
  <2>4. g + b = u /\ needed = want - b
    BY <2>1, <2>3
  <2> QED BY <2>1, <2>2, <2>4, <1>0, ReadingLengths
<1>2. sent \in Seq(Bytes) /\ got \in Seq(Bytes) /\ buffer \in Seq(Bytes)
  BY <1>1 DEF FileTypeOK
<1>3. got = Slice(sent, 0, g) /\ buffer = Slice(sent, g, u)
  BY <1>1 DEF ReadsInOrder
<1>4. block = Slice(sent, u, stop) /\ Len(block) = stop - u /\ u <= stop /\ stop <= Len(sent) /\ u \in Nat /\ stop \in Nat
  BY <1>a DEF Moved
<1>5. /\ LooksAhead' /\ Upto' = stop /\ at' \in Nat /\ eof' \in BOOLEAN /\ mode' = "reading"
      /\ UNCHANGED <<sent, pending, file>>
  BY <1>0, <1>a DEF Moved
<1>6. g <= u /\ g <= stop /\ g = Len(got)
  BY <1>1, <1>4
<1> HIDE DEF g, b
\* got grows up to e when the read returns.
<1>7. ASSUME NEW e \in Nat, u <= e, e <= stop, NEW buf, buf = buffer \o Slice(sent, u, e),
             e = IF g + want <= Len(sent) THEN g + want ELSE Len(sent),
             NEW rest, rest = Slice(sent, e, stop), Return(buf, rest)
      PROVE  Inductive' /\ Maps
  <2>1. /\ u \in Nat /\ e \in Nat /\ g \in Nat /\ 0 \in Nat /\ g <= u /\ u <= e /\ g <= e /\ 0 <= g
        /\ e <= Len(sent) /\ sent \in Seq(Bytes)
    BY <1>1, <1>2, <1>4, <1>6, <1>7
  <2>2. buf = Slice(sent, g, e)
    <3>1. Slice(sent, g, u) \o Slice(sent, u, e) = Slice(sent, g, e)
      BY ONLY <2>1, SlicesJoin
    <3> QED BY <3>1, <1>3, <1>7
  <2>3. got' = got \o Slice(sent, g, e)
    BY <2>2, <1>7 DEF Return
  <2>4. got' = Slice(sent, 0, e)
    <3>1. Slice(sent, 0, g) \o Slice(sent, g, e) = Slice(sent, 0, e)
      BY ONLY <2>1, SlicesJoin
    <3> QED BY <3>1, <2>3, <1>3
  <2>5. Len(buf) = e - g
    BY <2>1, <2>2, SliceProperties
  <2>6. answer' = <<want, e - g>> /\ want' = -1 /\ buffer' = <<>> /\ master' = Slice(sent, e, stop)
    BY <2>5, <1>7 DEF Return
  <2>7. Inductive'
    <3>1. buffer' = Slice(sent, e, e) /\ e <= e
      BY <2>1, <2>6, SliceEmpty
    <3>2. FileTypeOK /\ FileIsWhole /\ want' = -1 /\ want' \in Nat \union {-1}
      BY <2>6, <1>1
    <3> QED BY <3>1, <3>2, <2>1, <2>4, <2>6, <1>4, <1>5, <1>7, ReadAgain
  <2>8. Stream!Next
    <3>1. /\ got' = got \o Slice(sent, Len(got), e) /\ answer' = <<want, e - Len(got)>>
          /\ e = IF Len(got) + want <= Len(sent) THEN Len(got) + want ELSE Len(sent)
          /\ Len(got) <= Len(sent)
      BY <2>1, <2>3, <2>6, <1>6, <1>7 DEF g
    <3> QED BY <3>1, <1>0, <1>1, <1>2, PipeRead
  <2> QED BY <2>7, <2>8 DEF Maps
<1>8. CASE /\ Len(block) >= needed
           /\ Return(buffer \o SubSeq(block, 1, needed), SubSeq(block, needed + 1, Len(block)))
  <2> DEFINE e == g + want
  <2>1. /\ e \in Nat /\ u <= e /\ e <= stop /\ needed \in Nat /\ needed = e - u
        /\ needed + 1 \in Nat /\ needed + 1 = e - u + 1
        /\ g + want <= Len(sent)
    <3> HIDE DEF needed
    <3> QED BY <1>1, <1>4, <1>8
  <2> HIDE DEF needed
  <2>2. e = IF g + want <= Len(sent) THEN g + want ELSE Len(sent)
    BY <2>1
  <2> HIDE DEF e
  <2>3. SubSeq(block, 1, needed) = Slice(sent, u, e)
    <3>1. /\ sent \in Seq(Bytes) /\ u \in Nat /\ e \in Nat /\ stop \in Nat /\ e <= stop /\ stop <= Len(sent)
          /\ needed \in Nat /\ needed = e - u
      BY <2>1, <1>2, <1>4
    <3>2. SubSeq(Slice(sent, u, stop), 1, needed) = Slice(sent, u, e)
      BY ONLY <3>1, SliceFront
    <3> QED BY <3>2, <1>4
  <2>4. SubSeq(block, needed + 1, Len(block)) = Slice(sent, e, stop)
    <3> DEFINE next == needed + 1
    <3>1. /\ sent \in Seq(Bytes) /\ u \in Nat /\ e \in Nat /\ stop \in Nat /\ u <= e /\ e <= stop
          /\ stop <= Len(sent) /\ next \in Nat /\ next = e - u + 1
      BY <2>1, <1>2, <1>4
    <3> HIDE DEF next
    <3>2. SubSeq(Slice(sent, u, stop), next, Len(Slice(sent, u, stop))) = Slice(sent, e, stop)
      BY ONLY <3>1, SliceBack
    <3> QED BY <3>2, <1>4 DEF next
  <2> QED BY <2>1, <2>2, <2>3, <2>4, <1>7, <1>8
<1>9. CASE Len(block) < needed /\ last /\ Return(buffer \o block, <<>>)
  <2>1. stop = Len(sent)
    BY <1>9, <1>a DEF Moved
  <2>2. ~(g + want <= Len(sent))
    <3> HIDE DEF needed
    <3> QED BY <2>1, <1>1, <1>4, <1>9
  <2>3. Slice(sent, stop, stop) = <<>>
    BY SliceEmpty
  <2>4. u <= stop /\ stop <= stop
    BY <1>4
  <2> QED BY <2>1, <2>2, <2>3, <2>4, <1>4, <1>7, <1>9
<1>10. CASE /\ Len(block) < needed
            /\ ~last
            /\ buffer' = buffer \o block
            /\ master' = <<>>
            /\ UNCHANGED <<want, got, answer>>
  <2>1. buffer' = Slice(sent, g, stop)
    <3>1. g \in Nat /\ g <= u
      BY <1>1, <1>6
    <3>2. Slice(sent, g, u) \o Slice(sent, u, stop) = Slice(sent, g, stop)
      BY ONLY <3>1, <1>2, <1>4, SlicesJoin
    <3> QED BY <3>2, <1>3, <1>4, <1>10
  <2>2. master' = Slice(sent, stop, stop) /\ stop <= stop
    BY <1>4, <1>10, SliceEmpty
  <2>3. want' \in Nat /\ want' # -1 /\ ~eof' /\ stop - g < want' /\ got' = Slice(sent, 0, g)
    <3>1. want' = want /\ got' = got /\ ~eof'
      BY <1>10, <1>a DEF Moved
    <3>2. stop - u < needed
      BY <1>4, <1>10
    <3> HIDE DEF needed
    <3>3. stop - g < want
      BY <3>2, <1>1, <1>4
    <3> QED BY <3>1, <3>3, <1>1, <1>3
  <2>4. Inductive'
    BY <2>1, <2>2, <2>3, <1>1, <1>4, <1>5, <1>6, ReadAgain
  <2> QED BY <2>4, <1>0, <1>10 DEF Maps, Stream!pipeVars
<1> QED BY <1>a, <1>8, <1>9, <1>10 DEF HandedOut

-----------------------------------------------------------------------------
(***************************************************************************)
(* The theorems                                                            *)
(***************************************************************************)

\* Whatever the client does next, the invariant holds and the pipe has a step for it.
LEMMA FileStep ==
    ASSUME Inductive, [FileNext]_fileVars
    PROVE  Inductive' /\ Maps
<1>1. ASSUME NEW data \in Seq(Bytes), Write(data) PROVE Inductive' /\ Maps
  BY <1>1, WriteStep
<1>2. CASE Close
  BY <1>2, CloseStep
<1>3. CASE Open
  BY <1>3, OpenStep
<1>4. ASSUME NEW n \in Nat, Read(n) PROVE Inductive' /\ Maps
  BY <1>4, ReadMasterStep, ReadLastStep, StartReadStep DEF Read
<1>5. CASE Turn
  BY <1>5, CollectStep, WriteBlockStep, ReadBlockStep DEF Turn
<1>6. CASE UNCHANGED fileVars
  <2>1. UNCHANGED <<mode, sent, pending, file, master, second, at, eof, want, buffer, got, answer>>
    BY <1>6 DEF fileVars
  <2>2. Inductive'
    BY <2>1 DEF Inductive, FileTypeOK, WritesInOrder, FileIsWhole, ReadsInOrder, Unread, LooksAhead,
                Upto, Done, Plain, Filling, Pad, End, Slice, Enciphered
  <2> QED BY <2>1, <2>2 DEF Maps, Stream!pipeVars
<1> QED BY <1>1, <1>2, <1>3, <1>4, <1>5, <1>6 DEF FileNext

\* Every buffer of a stream, and every block of its file, is the slice of what was sent
\* that it should be, for clients that write and read pieces of any sizes.
THEOREM SlicesInOrder == FileSpec => []Inductive
<1>1. OpenToWrite => Inductive
  <2> SUFFICES ASSUME OpenToWrite PROVE Inductive
    OBVIOUS
  <2>1. Len(<<>>) = 0 /\ <<>> \in Seq(Bytes) /\ <<>> \in Seq(Enciphered) /\ BlockLen \in Nat
    BY EmptySeq, CipherAssumption
  <2>2. FileTypeOK
    BY <2>1 DEF OpenToWrite, FileTypeOK
  <2>3. Len(file) = 0 /\ Len(sent) = 0 /\ Len(master) = 0 /\ Len(pending) = 0 /\ End(0) = 0
    BY <2>1, Ends DEF OpenToWrite
  <2>4. Slice(sent, 0, 0) = <<>>
    BY SliceEmpty
  <2>5. WritesInOrder
    BY <2>1, <2>3, <2>4 DEF OpenToWrite, WritesInOrder, Unread
  <2> QED BY <2>2, <2>5 DEF Inductive, OpenToWrite
<1>2. Inductive /\ [FileNext]_fileVars => Inductive'
  BY FileStep
<1> QED BY <1>1, <1>2, PTL DEF FileSpec

\* An enciphered file is a pipe: what reads return is what was written, in order, as much
\* as was asked for unless nothing is left.
THEOREM FilesArePipes == FileSpec => IsPipe
<1>1. OpenToWrite => Stream!Init
  BY DEF OpenToWrite, Stream!Init
<1>2. Inductive /\ [FileNext]_fileVars => [Stream!Next]_Stream!pipeVars
  BY FileStep DEF Maps
<1> QED BY <1>1, <1>2, SlicesInOrder, PTL DEF FileSpec, IsPipe, Stream!Spec
=============================================================================
