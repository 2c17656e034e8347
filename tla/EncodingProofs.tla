---------------------------- MODULE EncodingProofs ----------------------------
(***************************************************************************)
(* What holds of the generated encodings for a word of any width, whatever *)
(* the messages, the bytes that arrive, and the messages within messages.  *)
(***************************************************************************)
EXTENDS MessageTransfer, FiniteSums, SequenceTheorems

-------------------------------------------------------------------------------
(* Powers of two.                                                          *)

\* The function that Pow2 defines, up to n.
Powers(f, n) == f = [i \in 0 .. n |-> IF i = 0 THEN 1 ELSE 2 * f[i - 1]]

(* There are powers of any number of factors. *)
LEMMA PowersExist ==
    ASSUME NEW n \in Nat
    PROVE  \E f : Powers(f, n)
  <1> DEFINE B == {m \in 0 .. n : ~ \E f : Powers(f, m)}
  <1> SUFFICES ASSUME B # {} PROVE FALSE  OBVIOUS
  <1>1. PICK k \in B : \A m \in B : k <= m
    <2>1. B \subseteq 0 .. n  OBVIOUS
    <2> HIDE DEF B
    <2> QED  BY <2>1, SmallestNumber
  <1>2. k \in 0 .. n /\ ~ \E f : Powers(f, k)  BY <1>1
  <1>3. k # 0
    <2>1. Powers([i \in 0 .. 0 |-> 1], 0)  BY DEF Powers
    <2> QED  BY <1>2, <2>1
  <1>4. k - 1 \in 0 .. n /\ k - 1 \notin B  BY <1>1, <1>2, <1>3
  <1>5. PICK f : Powers(f, k - 1)  BY <1>4
  <1> DEFINE g == [i \in 0 .. k |-> IF i = k THEN 2 * f[k - 1] ELSE f[i]]
  <1>6. ASSUME NEW i \in 0 .. k
        PROVE  g[i] = IF i = 0 THEN 1 ELSE 2 * g[i - 1]
    <2>1. CASE i = k
      <3>1. k - 1 \in 0 .. k /\ k - 1 # k  BY <1>2, <1>3
      <3> QED  BY <1>2, <1>3, <2>1, <3>1
    <2>2. CASE i # k
      <3>1. i \in 0 .. k - 1  BY <1>2, <2>2
      <3>2. g[i] = f[i]  BY <2>2
      <3>3. i # 0 => i - 1 \in 0 .. k /\ i - 1 # k  BY <1>2, <3>1
      <3>4. i # 0 => g[i - 1] = f[i - 1]  BY <3>3
      <3>5. f[i] = IF i = 0 THEN 1 ELSE 2 * f[i - 1]  BY <1>5, <3>1 DEF Powers
      <3> QED  BY <3>2, <3>4, <3>5
    <2> QED  BY <2>1, <2>2
  <1>7. Powers(g, k)
    <2>1. g = [i \in 0 .. k |-> g[i]]  OBVIOUS
    <2> HIDE DEF g
    <2> QED  BY <1>6, <2>1 DEF Powers
  <1> QED  BY <1>2, <1>7

(* Each power of two is twice the one before. *)
LEMMA Pow2Doubles ==
    /\ Pow2[0] = 1
    /\ \A n \in 1 .. WordBits : Pow2[n] = 2 * Pow2[n - 1]
  <1>1. WordBits \in Nat  BY WidthAssumption
  <1>2. Powers(Pow2, WordBits)
    <2>1. \E f : Powers(f, WordBits)  BY <1>1, PowersExist
    <2> QED  BY <2>1 DEF Pow2, Powers
  <1>3. \A n \in 0 .. WordBits : Pow2[n] = IF n = 0 THEN 1 ELSE 2 * Pow2[n - 1]
    BY <1>2 DEF Powers
  <1> QED  BY <1>1, <1>3

(* Powers of two are positive. *)
LEMMA Pow2Positive == \A n \in 0 .. WordBits : Pow2[n] \in Nat \ {0}
  <1> DEFINE B == {n \in 0 .. WordBits : Pow2[n] \notin Nat \ {0}}
  <1> SUFFICES ASSUME B # {} PROVE FALSE  OBVIOUS
  <1>1. WordBits \in Nat  BY WidthAssumption
  <1>2. PICK k \in B : \A m \in B : k <= m
    <2>1. B \subseteq 0 .. WordBits  OBVIOUS
    <2> HIDE DEF B
    <2> QED  BY <1>1, <2>1, SmallestNumber
  <1>3. k # 0  BY <1>2, Pow2Doubles
  <1>4. k - 1 \in 0 .. WordBits /\ k \in 1 .. WordBits  BY <1>1, <1>2, <1>3
  <1>5. Pow2[k - 1] \in Nat \ {0}  BY <1>1, <1>2, <1>4
  <1> QED  BY <1>2, <1>4, <1>5, Pow2Doubles

(* A word and its sign bit. *)
LEMMA WordHalves ==
    /\ WordBits \in Nat /\ Word \in Nat /\ MaxInt \in Nat
    /\ Word = 2 * (MaxInt + 1)
    /\ Pow2[WordBits] = Word /\ Pow2[WordBits - 1] = MaxInt + 1
  <1>1. WordBits \in Nat /\ WordBits \in 1 .. WordBits /\ WordBits - 1 \in 0 .. WordBits
        /\ WordBits \in 0 .. WordBits
    BY WidthAssumption
  <1> QED  BY <1>1, Pow2Doubles, Pow2Positive DEF Word, MaxInt

(* An int is the number it holds, as long as that number fits. *)
LEMMA SignedFits ==
    ASSUME NEW x \in Nat, x < Word
    PROVE  /\ Signed(x, WordBits) \in Int
           /\ x <= MaxInt => Signed(x, WordBits) = x
           /\ x > MaxInt => Signed(x, WordBits) < 0
  <1>1. x % Word = x  BY WordHalves
  <1> QED  BY <1>1, WordHalves DEF Signed

-------------------------------------------------------------------------------
(* Reading one value.                                                      *)

(* The shift of a group that a varint may have is within a word. *)
LEMMA GroupShift ==
    ASSUME NEW n \in 1 .. (WordBits + 6) \div 7, NEW k \in 1 .. n
    PROVE  7 * (k - 1) \in 0 .. WordBits - 1
  BY WordHalves

(* A byte is a number, and so are its low bits. *)
LEMMA ByteAt ==
    ASSUME NEW d \in Seq(Byte), NEW j \in 1 .. Len(d)
    PROVE  d[j] \in 0 .. 255 /\ d[j] \in Nat /\ d[j] % 128 \in Nat
  <1>1. d[j] \in Byte  BY ElementOfSeq
  <1>2. ASSUME NEW b \in 0 .. 255 PROVE b \in Nat /\ b % 128 \in Nat  OBVIOUS
  <1> QED  BY <1>1, <1>2 DEF Byte

(* Where a varint ends, and that it is a word. *)
LEMMA VarintReads ==
    ASSUME NEW d \in Seq(Byte), NEW i \in 0 .. Len(d), Varint(d, i).ok
    PROVE  /\ Varint(d, i).iNdEx \in i + 1 .. Len(d)
           /\ Varint(d, i).value \in 0 .. Word - 1
  <1> DEFINE n == CHOOSE k \in VarintEnds(d, i) : TRUE
             f == [k \in 1 .. n |-> (d[i + k] % 128) * Pow2[7 * (k - 1)]]
  <1>1. VarintEnds(d, i) # {}  BY DEF Varint, Failed
  <1>2. n \in VarintEnds(d, i)  BY <1>1
  <1>3. n \in 1 .. (WordBits + 6) \div 7 /\ i + n <= Len(d) /\ n \in Nat
    BY <1>2, WordHalves DEF VarintEnds
  <1>4. Varint(d, i) = [ok |-> TRUE, iNdEx |-> i + n, value |-> Unsigned(SumFunction(f))]
    BY <1>1 DEF Varint
  <1> HIDE DEF n
  <1>5. ASSUME NEW k \in 1 .. n PROVE f[k] \in Nat
    <2>1. 7 * (k - 1) \in 0 .. WordBits  BY <1>3, GroupShift, WordHalves
    <2>2. Pow2[7 * (k - 1)] \in Nat  BY <2>1, Pow2Positive
    <2>3. i + k \in 1 .. Len(d)  BY <1>3
    <2>5. d[i + k] % 128 \in Nat  BY ONLY <2>3, d \in Seq(Byte), ByteAt
    <2>6. f[k] = (d[i + k] % 128) * Pow2[7 * (k - 1)]  OBVIOUS
    <2> HIDE DEF f
    <2>7. ASSUME NEW a \in Nat, NEW b \in Nat PROVE a * b \in Nat  OBVIOUS
    <2> QED  BY <2>2, <2>5, <2>6, <2>7
  <1>6. DOMAIN f = 1 .. n  OBVIOUS
  <1> HIDE DEF f
  <1>7. SumFunction(f) \in Nat
    <2>1. IsFiniteSet(1 .. n)  BY <1>3, FS_Interval
    <2>2. SumFunctionOnSet(f, 1 .. n) \in Nat  BY <1>5, <2>1, SumNat
    <2> QED  BY <1>6, <2>2 DEF SumFunction
  <1>8. Unsigned(SumFunction(f)) \in 0 .. Word - 1
    BY <1>7, WordHalves, Pow2Positive DEF Unsigned, Word
  <1> QED  BY <1>3, <1>4, <1>8

(* A value with a length ends behind its length, within the buffer. *)
LEMMA DelimitedReads ==
    ASSUME NEW d \in Seq(Byte), Len(d) <= MaxInt, NEW i \in 0 .. Len(d), Delimited(d, i).ok
    PROVE  Delimited(d, i).iNdEx \in i + 1 .. Len(d)
  <1> DEFINE length == Varint(d, i)
             n == Signed(length.value, WordBits)
             post == Signed(length.iNdEx + n, WordBits)
  <1>1. /\ length.ok /\ ~ (n < 0) /\ ~ (post < 0) /\ ~ (post > Len(d))
        /\ Delimited(d, i).iNdEx = post
    BY DEF Delimited, Failed
  <1>2. length.iNdEx \in i + 1 .. Len(d) /\ length.value \in 0 .. Word - 1
    BY <1>1, VarintReads
  <1> HIDE DEF length
  <1>3. n \in 0 .. MaxInt
    <2>1. length.value \in Nat /\ length.value < Word  BY <1>2, WordHalves
    <2>2. length.value <= MaxInt \/ length.value > MaxInt  BY <2>1, WordHalves
    <2> QED  BY <1>1, <2>1, <2>2, SignedFits, WordHalves
  <1> HIDE DEF n
  <1>4. length.iNdEx + n \in Nat /\ length.iNdEx + n < Word
    BY <1>2, <1>3, WordHalves
  <1>5. post = length.iNdEx + n
    BY <1>1, <1>4, SignedFits, WordHalves
  <1> QED  BY <1>1, <1>2, <1>3, <1>5
-------------------------------------------------------------------------------
(* Skipping a field.                                                       *)

(* What is skipped for one tag ends behind the tag. *)
LEMMA SkipOneMoves ==
    ASSUME NEW d \in Seq(Byte), Len(d) <= MaxInt, NEW i \in 0 .. Len(d), SkipOne(d, i).ok
    PROVE  /\ SkipOne(d, i).iNdEx \in Nat /\ i < SkipOne(d, i).iNdEx
           /\ SkipOne(d, i).value \in {-1, 0, 1}
  <1> DEFINE wire     == Varint(d, i)
             wireType == wire.value % 8
             operand  == Varint(d, wire.iNdEx)
             length   == Signed(operand.value, WordBits)
             far      == Signed(operand.iNdEx + length, WordBits)
             past     == CASE wireType = 0 -> operand.iNdEx
                           [] wireType = 1 -> wire.iNdEx + 8
                           [] wireType = 2 -> far
                           [] wireType = 5 -> wire.iNdEx + 4
                           [] OTHER -> wire.iNdEx
  <1>1. /\ wire.ok /\ wireType \notin {6, 7}
        /\ wireType \in {0, 2} => operand.ok
        /\ wireType = 2 => ~ (length < 0)
        /\ ~ (past < 0)
        /\ SkipOne(d, i).iNdEx = past
        /\ SkipOne(d, i).value = CASE wireType = 3 -> 1 [] wireType = 4 -> -1 [] OTHER -> 0
    <2> DEFINE refused == \/ ~ wire.ok \/ wireType \in {6, 7}
                          \/ wireType \in {0, 2} /\ ~ operand.ok
                          \/ wireType = 2 /\ length < 0
                          \/ past < 0
               change == CASE wireType = 3 -> 1 [] wireType = 4 -> -1 [] OTHER -> 0
    <2>1. SkipOne(d, i) = IF refused THEN Failed ELSE [ok |-> TRUE, iNdEx |-> past, value |-> change]
      BY DEF SkipOne
    <2> HIDE DEF wire, wireType, operand, length, past, change
    <2>2. ~ refused  BY <2>1 DEF Failed
    <2>3. SkipOne(d, i).iNdEx = past /\ SkipOne(d, i).value = change
      <3> HIDE DEF refused
      <3> QED  BY <2>1, <2>2
    <2> QED  BY <2>2, <2>3 DEF change
  <1>2. wire.iNdEx \in i + 1 .. Len(d)  BY <1>1, VarintReads
  <1>3. wireType \in {0, 2} => /\ operand.iNdEx \in wire.iNdEx + 1 .. Len(d)
                               /\ operand.value \in 0 .. Word - 1
    <2>1. wire.iNdEx \in 0 .. Len(d)  BY <1>2
    <2> HIDE DEF wire
    <2> QED  BY <1>1, <2>1, VarintReads
  <1> HIDE DEF wire, operand, wireType
  <1>4. wireType = 2 => far = operand.iNdEx + length /\ length \in Nat
    <2> SUFFICES ASSUME wireType = 2 PROVE far = operand.iNdEx + length /\ length \in Nat
      OBVIOUS
    <2>1. operand.value \in Nat /\ operand.value < Word  BY <1>3, WordHalves
    <2>2. operand.value <= MaxInt \/ operand.value > MaxInt  BY <2>1, WordHalves
    <2>3. length \in 0 .. MaxInt  BY <1>1, <2>1, <2>2, SignedFits, WordHalves
    <2>4. past = far  OBVIOUS
    <2> HIDE DEF length, past
    <2>5. operand.iNdEx \in 0 .. MaxInt
      <3>1. operand.iNdEx \in wire.iNdEx + 1 .. Len(d)  BY <1>3
      <3>2. wire.iNdEx \in Nat /\ Len(d) \in Nat  BY <1>2
      <3> QED  BY ONLY <3>1, <3>2, Len(d) <= MaxInt, WordHalves
    <2>6. operand.iNdEx + length \in Nat /\ operand.iNdEx + length < Word
      BY ONLY <2>3, <2>5, WordHalves
    <2> QED  BY <1>1, <2>3, <2>4, <2>6, SignedFits, WordHalves
  <1> HIDE DEF far, length
  <1>5. past \in Nat /\ i < past
    <2>1. wire.iNdEx \in Nat /\ i < wire.iNdEx  BY <1>2
    <2>2. wireType \in {0, 2} => operand.iNdEx \in Nat /\ i < operand.iNdEx
      BY <1>3, <2>1
    <2>3. wireType = 2 => far \in Nat /\ i < far  BY <1>4, <2>2
    <2> QED  BY ONLY <2>1, <2>2, <2>3, i \in 0 .. Len(d)
  <1> HIDE DEF past
  <1>6. SkipOne(d, i).value \in {-1, 0, 1}  BY <1>1
  <1> QED  BY <1>1, <1>5, <1>6

\* The function that SkipFrom defines, from index lo on, and its body.
SkipStep(f, d, iNdEx, depth) ==
    LET one     == SkipOne(d, iNdEx)
        nesting == depth + one.value
    IN  IF ~ one.ok \/ nesting < 0 THEN Failed
        ELSE IF nesting = 0 THEN [ok |-> TRUE, iNdEx |-> one.iNdEx, value |-> 0]
        ELSE IF one.iNdEx > Len(d) THEN Failed
        ELSE f[one.iNdEx][nesting]

Skips(f, d, lo) ==
    f = [iNdEx \in lo .. Len(d) |-> [depth \in Nat |-> SkipStep(f, d, iNdEx, depth)]]

(* A step of the loop looks only at what follows. *)
LEMMA SkipStepSame ==
    ASSUME NEW d \in Seq(Byte), Len(d) <= MaxInt, NEW i \in 0 .. Len(d), NEW depth \in Nat,
           NEW f, NEW g,
           \A j \in i + 1 .. Len(d), n \in Nat : f[j][n] = g[j][n]
    PROVE  SkipStep(f, d, i, depth) = SkipStep(g, d, i, depth)
  <1> DEFINE one == SkipOne(d, i)
             nesting == depth + one.value
  <1> SUFFICES ASSUME one.ok, ~ (nesting < 0), nesting # 0, ~ (one.iNdEx > Len(d))
               PROVE  f[one.iNdEx][nesting] = g[one.iNdEx][nesting]
    BY DEF SkipStep
  <1>1. one.iNdEx \in Nat /\ i < one.iNdEx /\ one.value \in {-1, 0, 1}
    BY SkipOneMoves
  <1> HIDE DEF one
  <1>2. one.iNdEx \in i + 1 .. Len(d)  BY <1>1
  <1>3. nesting \in Int  BY <1>1
  <1>4. nesting \in Nat  BY <1>3
  <1> QED  BY <1>2, <1>4

(* The loop has a result from every index and depth. *)
LEMMA SkipsExist ==
    ASSUME NEW d \in Seq(Byte), Len(d) <= MaxInt
    PROVE  \E f : Skips(f, d, 0)
  <1> DEFINE B == {m \in 0 .. Len(d) : ~ \E f : Skips(f, d, Len(d) - m)}
  <1>0. Len(d) \in Nat  OBVIOUS
  <1> SUFFICES ASSUME B # {} PROVE FALSE
    <2>1. Len(d) \in 0 .. Len(d) /\ Len(d) - Len(d) = 0  BY <1>0
    <2> QED  BY <2>1
  <1>1. PICK k \in B : \A m \in B : k <= m
    <2>1. B \subseteq 0 .. Len(d)  OBVIOUS
    <2> HIDE DEF B
    <2> QED  BY <1>0, <2>1, SmallestNumber
  <1> DEFINE lo == Len(d) - k
  <1>2. k \in 0 .. Len(d) /\ lo \in 0 .. Len(d) /\ ~ \E f : Skips(f, d, lo)  BY <1>0, <1>1
  <1>3. \E f : k # 0 => Skips(f, d, lo + 1)
    <2>1. CASE k = 0  BY <2>1
    <2>2. CASE k # 0
      <3>1. k - 1 \in 0 .. Len(d) /\ k - 1 \notin B  BY <1>0, <1>1, <1>2, <2>2
      <3>2. \E f : Skips(f, d, Len(d) - (k - 1))  BY <3>1
      <3>3. Len(d) - (k - 1) = lo + 1  BY <1>0, <1>2
      <3> QED  BY <3>2, <3>3
    <2> QED  BY <2>1, <2>2
  <1>4. PICK f : k # 0 => Skips(f, d, lo + 1)  BY <1>3
  <1> DEFINE g == [i \in lo .. Len(d) |-> [n \in Nat |-> IF i = lo THEN SkipStep(f, d, i, n) ELSE f[i][n]]]
  <1> HIDE DEF B
  <1>5. \A j \in lo + 1 .. Len(d), n \in Nat : g[j][n] = f[j][n]
    BY <1>0, <1>2
  <1>6. ASSUME NEW i \in lo .. Len(d), NEW n \in Nat
        PROVE  g[i][n] = SkipStep(g, d, i, n)
    <2>1. g[i][n] = SkipStep(f, d, i, n)
      <3>1. CASE i = lo  BY <3>1
      <3>2. CASE i # lo
        <4>1. i \in lo + 1 .. Len(d) /\ k # 0  BY <1>0, <1>2, <3>2
        <4>2. f[i][n] = SkipStep(f, d, i, n)  BY <1>4, <4>1 DEF Skips
        <4> QED  BY <3>2, <4>2
      <3> QED  BY <3>1, <3>2
    <2>2. i \in 0 .. Len(d) /\ \A j \in i + 1 .. Len(d) : j \in lo + 1 .. Len(d)  BY <1>0, <1>2
    <2> HIDE DEF g, lo
    <2>3. \A j \in i + 1 .. Len(d), m \in Nat : f[j][m] = g[j][m]  BY <1>5, <2>2
    <2>4. SkipStep(f, d, i, n) = SkipStep(g, d, i, n)  BY <2>2, <2>3, SkipStepSame
    <2> QED  BY <2>1, <2>4
  <1>7. Skips(g, d, lo)
    <2>1. g = [i \in lo .. Len(d) |-> [n \in Nat |-> g[i][n]]]  OBVIOUS
    <2> HIDE DEF g
    <2> QED  BY <1>6, <2>1 DEF Skips
  <1> QED  BY <1>2, <1>7

(* skipSwap's loop, unfolded once. *)
LEMMA SkipUnfolds ==
    ASSUME NEW d \in Seq(Byte), Len(d) <= MaxInt, NEW i \in 0 .. Len(d), NEW n \in Nat
    PROVE  SkipFrom(d)[i][n] = SkipStep(SkipFrom(d), d, i, n)
  <1> DEFINE f == CHOOSE g : Skips(g, d, 0)
  <1>1. Skips(f, d, 0)  BY SkipsExist
  <1>2. SkipFrom(d) = f  BY DEF SkipFrom, Skips, SkipStep
  <1> HIDE DEF f
  <1>3. f[i] = [depth \in Nat |-> SkipStep(f, d, i, depth)]  BY <1>1 DEF Skips
  <1>4. f[i][n] = SkipStep(f, d, i, n)  BY <1>3
  <1> QED  BY <1>2, <1>4

(* What is skipped ends behind where it begins. *)
LEMMA SkipMoves ==
    ASSUME NEW d \in Seq(Byte), Len(d) <= MaxInt, skip(d).ok
    PROVE  skip(d).iNdEx \in Nat \ {0}
  <1> DEFINE L == Len(d)
             Moves(i, n) == SkipFrom(d)[i][n].ok =>
                                /\ SkipFrom(d)[i][n].iNdEx \in Nat /\ i < SkipFrom(d)[i][n].iNdEx
             B == {m \in 0 .. L : ~ \A n \in Nat : Moves(L - m, n)}
  <1>0. L \in Nat  OBVIOUS
  <1>1. B = {}
    <2> SUFFICES ASSUME B # {} PROVE FALSE  OBVIOUS
    <2>1. PICK k \in B : \A m \in B : k <= m
      <3>1. B \subseteq 0 .. L  OBVIOUS
      <3> HIDE DEF B, L
      <3> QED  BY <1>0, <3>1, SmallestNumber
    <2> DEFINE lo == L - k
    <2>2. k \in 0 .. L /\ lo \in 0 .. L /\ ~ \A n \in Nat : Moves(lo, n)  BY <1>0, <2>1
    <2>3. \A j \in lo + 1 .. L : \A n \in Nat : Moves(j, n)
      <3> SUFFICES ASSUME NEW j \in lo + 1 .. L PROVE \A n \in Nat : Moves(j, n)
        OBVIOUS
      <3>1. L - j \in 0 .. L /\ L - j < k /\ L - (L - j) = j  BY <1>0, <2>2
      <3>2. L - j \notin B  BY <1>0, <2>1, <2>2, <3>1
      <3> QED  BY <3>1, <3>2
    <2>4. PICK n \in Nat : ~ Moves(lo, n)  BY <2>2
    <2> DEFINE one == SkipOne(d, lo)
               nesting == n + one.value
    <2>5. SkipFrom(d)[lo][n] = SkipStep(SkipFrom(d), d, lo, n)  BY <2>2, SkipUnfolds
    <2>6. SkipFrom(d)[lo][n].ok  BY <2>4
    <2>7. one.ok /\ ~ (nesting < 0)  BY <2>5, <2>6 DEF SkipStep, Failed
    <2>8. one.iNdEx \in Nat /\ lo < one.iNdEx /\ one.value \in {-1, 0, 1}
      BY <2>2, <2>7, SkipOneMoves
    <2>9. nesting # 0
      <3> SUFFICES ASSUME nesting = 0 PROVE FALSE  OBVIOUS
      <3>1. SkipFrom(d)[lo][n].iNdEx = one.iNdEx  BY <2>5, <2>7 DEF SkipStep
      <3> QED  BY <2>4, <2>8, <3>1
    <2>10. ~ (one.iNdEx > L) /\ SkipFrom(d)[lo][n] = SkipFrom(d)[one.iNdEx][nesting]
      BY <2>5, <2>6, <2>7, <2>9 DEF SkipStep, Failed
    <2>11. one.iNdEx \in lo + 1 .. L /\ nesting \in Nat
      <3> HIDE DEF one, lo, L
      <3>1. one.iNdEx \in lo + 1 .. L  BY <1>0, <2>2, <2>8, <2>10
      <3>2. nesting \in Int  BY <2>8
      <3> QED  BY <2>7, <3>1, <3>2
    <2>12. Moves(one.iNdEx, nesting)  BY <2>3, <2>11
    <2> DEFINE s == SkipFrom(d)[lo][n]
               t == SkipFrom(d)[one.iNdEx][nesting]
    <2>13. s.ok /\ s = t /\ (t.ok => t.iNdEx \in Nat /\ one.iNdEx < t.iNdEx)
      BY <2>6, <2>10, <2>12
    <2>14. ~ (s.ok => s.iNdEx \in Nat /\ lo < s.iNdEx)  BY <2>4
    <2>15. lo \in Nat  BY <2>2
    <2> HIDE DEF s, t, lo, one
    <2> QED  BY ONLY <2>8, <2>13, <2>14, <2>15
  <1>2. 0 \in 0 .. L /\ L \in 0 .. L /\ L - L = 0  BY <1>0
  <1>3. \A n \in Nat : Moves(L - L, n)  BY <1>1, <1>2
  <1>4. Moves(0, 0)  BY <1>2, <1>3
  <1> QED  BY <1>4 DEF skip
-------------------------------------------------------------------------------
(* One pass of Unmarshal's loop.                                           *)

\* A reader at an index within its buffer, and what a pass may make of it.
ReaderAt(r, d) ==
    r = [ok |-> r.ok, iNdEx |-> r.iNdEx, m |-> r.m] /\ r.iNdEx \in 0 .. Len(d)

Advances(r, s, d) ==
    /\ s = [ok |-> s.ok, iNdEx |-> s.iNdEx, m |-> s.m]
    /\ s.ok => s.iNdEx \in r.iNdEx + 1 .. Len(d)

(* A field that the reader knows, whatever the message in it. *)
LEMMA KnownAdvances ==
    ASSUME NEW d \in Seq(Byte), Len(d) <= MaxInt, NEW r, ReaderAt(r, d),
           NEW c, NEW wireType, NEW i \in r.iNdEx + 1 .. Len(d)
    PROVE  Advances(r, ReadKnown(c, wireType, d, i, r), d)
  <1> DEFINE v == Varint(d, i)
             e == Delimited(d, i)
             s == ReadKnown(c, wireType, d, i, r)
  <1>1. i \in 0 .. Len(d) /\ r.iNdEx \in Nat  BY DEF ReaderAt
  <1>2. CASE c.wireType = 0
    <2>1. s = [ok |-> v.ok /\ wireType = 0, iNdEx |-> v.iNdEx, m |-> s.m]
      BY <1>2 DEF ReadKnown, ReaderAt
    <2>2. v.ok => v.iNdEx \in i + 1 .. Len(d)  BY <1>1, VarintReads
    <2> HIDE DEF s, v
    <2>3. s.iNdEx = v.iNdEx /\ (s.ok => v.ok)
      <3> DEFINE good == v.ok /\ wireType = 0
      <3>1. s = [ok |-> good, iNdEx |-> v.iNdEx, m |-> s.m]  BY <2>1
      <3>2. good => v.ok  OBVIOUS
      <3> HIDE DEF good
      <3>3. s.ok = good /\ s.iNdEx = v.iNdEx  BY <3>1
      <3> QED  BY <3>2, <3>3
    <2>4. s = [ok |-> s.ok, iNdEx |-> s.iNdEx, m |-> s.m]  BY <2>1
    <2>5. s.ok => s.iNdEx \in r.iNdEx + 1 .. Len(d)  BY <1>1, <2>2, <2>3
    <2> QED  BY <2>4, <2>5 DEF Advances, s
  <1>3. CASE c.wireType # 0 /\ (~ e.ok \/ wireType # 2)
    <2>1. s = [ok |-> FALSE, iNdEx |-> r.iNdEx, m |-> r.m]
      BY <1>3 DEF ReadKnown, ReaderAt
    <2> HIDE DEF s
    <2> QED  BY <2>1 DEF Advances, s
  <1>4. CASE c.wireType # 0 /\ e.ok /\ wireType = 2
    <2>1. s = [ok |-> s.ok, iNdEx |-> e.iNdEx, m |-> s.m]
      BY <1>4 DEF ReadKnown, ReaderAt
    <2>2. e.iNdEx \in i + 1 .. Len(d)  BY <1>1, <1>4, DelimitedReads
    <2> HIDE DEF s, e
    <2> QED  BY <1>1, <2>1, <2>2 DEF Advances, s
  <1> QED  BY <1>2, <1>3, <1>4

(* A field that it does not know. *)
LEMMA UnknownAdvances ==
    ASSUME NEW d \in Seq(Byte), Len(d) <= MaxInt, NEW r, ReaderAt(r, d)
    PROVE  Advances(r, SkipUnknown(d, r), d)
  <1> DEFINE rest == SubSeq(d, r.iNdEx + 1, Len(d))
             s == skip(rest)
  <1>1. r.iNdEx \in 0 .. Len(d)  BY DEF ReaderAt
  <1>2. rest \in Seq(Byte) /\ Len(rest) = Len(d) - r.iNdEx
    BY <1>1, SubSeqProperties
  <1>3. Len(rest) <= MaxInt  BY <1>1, <1>2, WordHalves
  <1> HIDE DEF rest
  <1>4. s.ok => s.iNdEx \in Nat \ {0}  BY <1>2, <1>3, SkipMoves
  <1>5. CASE ~ s.ok \/ r.iNdEx + s.iNdEx > Len(d)
    BY <1>5 DEF SkipUnknown, SkipPast, ReaderAt, Advances, rest
  <1>6. CASE s.ok /\ ~ (r.iNdEx + s.iNdEx > Len(d))
    <2>1. SkipUnknown(d, r) = [ok |-> r.ok, iNdEx |-> r.iNdEx + s.iNdEx, m |-> r.m]
      BY <1>6 DEF SkipUnknown, SkipPast, ReaderAt, rest
    <2> HIDE DEF s
    <2>2. r.iNdEx + s.iNdEx \in r.iNdEx + 1 .. Len(d)  BY <1>1, <1>4, <1>6
    <2> QED  BY <2>1, <2>2 DEF Advances
  <1> QED  BY <1>5, <1>6

(* A pass moves forward within the buffer, or fails. *)
LEMMA FieldAdvances ==
    ASSUME NEW d \in Seq(Byte), Len(d) <= MaxInt, NEW r, ReaderAt(r, d), NEW c
    PROVE  Advances(r, ReadField(c, d, r), d)
  <1> DEFINE tag      == Varint(d, r.iNdEx)
             fieldNum == Signed(tag.value \div 8, Int32Bits)
             wireType == tag.value % 8
             refused  == ~ tag.ok \/ wireType = 4 \/ fieldNum <= 0
  <1>1. r.iNdEx \in 0 .. Len(d)  BY DEF ReaderAt
  <1>2. tag.ok => tag.iNdEx \in r.iNdEx + 1 .. Len(d)  BY <1>1, VarintReads
  <1>3. \/ ReadField(c, d, r) = [r EXCEPT !.ok = FALSE]
        \/ tag.ok /\ ReadField(c, d, r) = ReadKnown(c[fieldNum], wireType, d, tag.iNdEx, r)
        \/ ReadField(c, d, r) = SkipUnknown(d, r)
    <2>1. CASE refused  BY <2>1 DEF ReadField
    <2>2. CASE ~ refused /\ fieldNum \in DOMAIN c  BY <2>2 DEF ReadField
    <2>3. CASE ~ refused /\ fieldNum \notin DOMAIN c  BY <2>3 DEF ReadField
    <2> QED  BY <2>1, <2>2, <2>3
  <1> HIDE DEF tag, fieldNum, wireType
  <1>4. CASE ReadField(c, d, r) = [r EXCEPT !.ok = FALSE]
    <2>1. ReadField(c, d, r) = [ok |-> FALSE, iNdEx |-> r.iNdEx, m |-> r.m]  BY <1>4 DEF ReaderAt
    <2> QED  BY <2>1 DEF Advances
  <1>5. CASE tag.ok /\ ReadField(c, d, r) = ReadKnown(c[fieldNum], wireType, d, tag.iNdEx, r)
    BY <1>2, <1>5, KnownAdvances
  <1>6. CASE ReadField(c, d, r) = SkipUnknown(d, r)  BY <1>6, UnknownAdvances
  <1> QED  BY <1>3, <1>4, <1>5, <1>6
-------------------------------------------------------------------------------
(* Readers of messages.                                                    *)

\* TypeOK, and that a reader has not begun before its message arrives.
ReaderInv ==
    /\ TypeOK
    /\ phase = "carried" => reader.iNdEx = 0
    /\ phase # "returned" /\ reader.ok => reader.iNdEx \in 0 .. Len(data)

LEMMA InitReaderInv == Init /\ IsSlice => ReaderInv
  <1> SUFFICES ASSUME Init, IsSlice PROVE ReaderInv  OBVIOUS
  <1>1. reader = [ok |-> TRUE, iNdEx |-> 0, m |-> New(cases)]  BY DEF Init, Start
  <1>2. extended = FALSE /\ garbled = FALSE  BY DEF Init
  <1>3. phase \in {"carried", "panicked"}  BY DEF Init, Marshalled
  <1>4. 0 \in 0 .. Len(data)  BY DEF IsSlice
  <1> QED  BY <1>1, <1>2, <1>3, <1>4 DEF ReaderInv, TypeOK

LEMMA NextReaderInv == ReaderInv /\ IsSlice' /\ [Next]_vars => ReaderInv'
  <1> SUFFICES ASSUME ReaderInv, IsSlice', [Next]_vars PROVE ReaderInv'  OBVIOUS
  <1> USE DEF ReaderInv, TypeOK
  <1>1. CASE Extend
    <2>1. /\ phase = "carried" /\ extended' = TRUE
          /\ UNCHANGED <<cases, sent, garbled, phase, reader>>
      BY <1>1 DEF Extend
    <2>2. 0 \in 0 .. Len(data')  BY DEF IsSlice
    <2> QED  BY <2>1, <2>2
  <1>2. CASE Garble
    <2>1. /\ phase = "carried" /\ garbled' = TRUE
          /\ UNCHANGED <<cases, sent, extended, phase, reader>>
      BY <1>2 DEF Garble
    <2>2. 0 \in 0 .. Len(data')  BY DEF IsSlice
    <2> QED  BY <2>1, <2>2
  <1>3. CASE Deliver  BY <1>3 DEF Deliver
  <1>4. CASE ReadNext
    <2>1. ReaderAt(reader, data) /\ data \in Seq(Byte) /\ Len(data) <= MaxInt
      BY <1>4 DEF ReadNext, ReaderAt, IsSlice
    <2>2. Advances(reader, reader', data)  BY <1>4, <2>1, FieldAdvances DEF ReadNext
    <2>3. UNCHANGED <<cases, sent, data, extended, garbled, phase>> /\ phase = "reading"
      BY <1>4 DEF ReadNext
    <2>4. reader.iNdEx \in Nat  BY <2>1 DEF ReaderAt
    <2>5. reader'.ok => reader'.iNdEx \in 0 .. Len(data)  BY <2>1, <2>2, <2>4 DEF Advances
    <2> QED  BY <2>2, <2>3, <2>5 DEF Advances
  <1>5. CASE Return
    <2>1. /\ phase' = "returned"
          /\ reader' = [reader EXCEPT !.ok = reader.ok /\ reader.iNdEx = Len(data)]
          /\ UNCHANGED <<cases, sent, data, extended, garbled>>
      BY <1>5 DEF Return
    <2>2. reader'.iNdEx = reader.iNdEx /\ (reader'.ok => reader.ok)
          /\ reader' = [ok |-> reader'.ok, iNdEx |-> reader'.iNdEx, m |-> reader'.m]
      BY <2>1
    <2> QED  BY <2>1, <2>2
  <1>6. CASE UNCHANGED vars  BY <1>6 DEF vars
  <1> QED  BY <1>1, <1>2, <1>3, <1>4, <1>5, <1>6 DEF Next

LEMMA SpecReaderInv == Spec /\ []IsSlice => []ReaderInv
  BY InitReaderInv, NextReaderInv, PTL DEF Spec

(* A reader that has not failed stands within its buffer: of any bytes, as *)
(* long as an int can count them, and whatever the readers of the messages *)
(* inside the message make of theirs.                                      *)
THEOREM ReadersStayInside == Spec /\ []IsSlice => []TypeOK
  <1>1. ReaderInv => TypeOK  BY DEF ReaderInv
  <1> QED  BY <1>1, SpecReaderInv, PTL

(* Every pass of Unmarshal's loop moves forward within the buffer or fails, *)
(* so reading bytes of unknown origin ends.                                *)
THEOREM ReadersAdvance == Spec /\ []IsSlice => ReaderAdvances
  <1> DEFINE Step == phase = "reading" /\ phase' = "reading" /\ reader'.ok =>
                        reader.iNdEx < reader'.iNdEx /\ reader'.iNdEx <= Len(data)
  <1>1. ReaderInv /\ [Next]_vars => [Step]_vars
    <2> SUFFICES ASSUME ReaderInv, Next, phase = "reading", phase' = "reading", reader'.ok
                 PROVE  reader.iNdEx < reader'.iNdEx /\ reader'.iNdEx <= Len(data)
      OBVIOUS
    <2>1. ReadNext  BY DEF Next, Extend, Garble, Deliver, Return
    <2>2. ReaderAt(reader, data) /\ data \in Seq(Byte) /\ Len(data) <= MaxInt
      BY <2>1 DEF ReadNext, ReaderAt, IsSlice, ReaderInv, TypeOK
    <2>3. Advances(reader, reader', data)  BY <2>1, <2>2, FieldAdvances DEF ReadNext
    <2>4. reader.iNdEx \in Nat  BY <2>2 DEF ReaderAt
    <2> QED  BY <2>2, <2>3, <2>4 DEF Advances
  <1> QED  BY <1>1, SpecReaderInv, PTL DEF Spec, ReaderAdvances
-------------------------------------------------------------------------------
(* Writing a varint and reading it.                                        *)

(* Seven doublings. *)
LEMMA Pow2Group ==
    ASSUME NEW m \in Nat, NEW j \in 0 .. 7, m + j <= WordBits
    PROVE  /\ Pow2[m + j] <= 128 * Pow2[m]
           /\ j = 7 => Pow2[m + j] = 128 * Pow2[m]
  <1>1. ASSUME NEW i \in 1 .. 7, m + i <= WordBits
        PROVE  Pow2[m + i] = 2 * Pow2[m + (i - 1)]
    <2>1. m + i \in 1 .. WordBits /\ (m + i) - 1 = m + (i - 1)  BY <1>1, WordHalves
    <2> QED  BY <2>1, Pow2Doubles
  <1>2. m \in 0 .. WordBits /\ m + 0 = m  BY WordHalves
  <1>3. Pow2[m] \in Nat \ {0}  BY <1>2, Pow2Positive
  <1>4. m + 1 <= WordBits => Pow2[m + 1] = 2 * Pow2[m]  BY <1>1, <1>2
  <1>5. m + 2 <= WordBits => Pow2[m + 2] = 4 * Pow2[m]  BY <1>1, <1>3, <1>4, WordHalves
  <1>6. m + 3 <= WordBits => Pow2[m + 3] = 8 * Pow2[m]  BY <1>1, <1>3, <1>5, WordHalves
  <1>7. m + 4 <= WordBits => Pow2[m + 4] = 16 * Pow2[m]  BY <1>1, <1>3, <1>6, WordHalves
  <1>8. m + 5 <= WordBits => Pow2[m + 5] = 32 * Pow2[m]  BY <1>1, <1>3, <1>7, WordHalves
  <1>9. m + 6 <= WordBits => Pow2[m + 6] = 64 * Pow2[m]  BY <1>1, <1>3, <1>8, WordHalves
  <1>10. m + 7 <= WordBits => Pow2[m + 7] = 128 * Pow2[m]  BY <1>1, <1>3, <1>9, WordHalves
  <1>11. j \in {0, 1, 2, 3, 4, 5, 6, 7}  OBVIOUS
  <1> QED  BY <1>2, <1>3, <1>4, <1>5, <1>6, <1>7, <1>8, <1>9, <1>10, <1>11

(* More factors, a larger power. *)
LEMMA Pow2Grows ==
    ASSUME NEW m \in 0 .. WordBits, NEW n \in m .. WordBits
    PROVE  Pow2[m] <= Pow2[n]
  <1> DEFINE B == {k \in 0 .. WordBits : m <= k /\ Pow2[k] < Pow2[m]}
  <1>0. WordBits \in Nat  BY WordHalves
  <1>1. B = {}
    <2> SUFFICES ASSUME B # {} PROVE FALSE  OBVIOUS
    <2>1. PICK k \in B : \A l \in B : k <= l
      <3>1. B \subseteq 0 .. WordBits  OBVIOUS
      <3> HIDE DEF B
      <3> QED  BY <1>0, <3>1, SmallestNumber
    <2>2. k \in 0 .. WordBits /\ m <= k /\ Pow2[k] < Pow2[m]  BY <2>1
    <2>3. Pow2[m] \in Nat /\ Pow2[k] \in Nat  BY <2>2, Pow2Positive
    <2>4. k # m  BY <2>2, <2>3
    <2>5. k - 1 \in 0 .. WordBits /\ k - 1 >= m /\ k \in 1 .. WordBits  BY <1>0, <2>2, <2>4
    <2>6. Pow2[k - 1] \in Nat /\ Pow2[k] = 2 * Pow2[k - 1]  BY <2>5, Pow2Positive, Pow2Doubles
    <2>7. k - 1 \notin B
      <3> HIDE DEF B
      <3> QED  BY <2>1, <2>2
    <2>8. ~ (Pow2[k - 1] < Pow2[m])  BY <2>5, <2>7
    <2> QED  BY <2>2, <2>3, <2>6, <2>8
  <1>2. n \in 0 .. WordBits /\ m <= n /\ n \notin B  BY <1>0, <1>1
  <1>3. ~ (Pow2[n] < Pow2[m])  BY <1>2
  <1>4. Pow2[m] \in Nat /\ Pow2[n] \in Nat  BY <1>2, Pow2Positive
  <1> QED  BY <1>3, <1>4

(* The bits of a number. *)
LEMMA BitsOf ==
    ASSUME NEW v \in 0 .. Word - 1
    PROVE  /\ Len64(v) \in 1 .. WordBits /\ v < Pow2[Len64(v)]
           /\ \A k \in 1 .. Len64(v) - 1 : Pow2[k] <= v
  <1> DEFINE B == {n \in 1 .. WordBits : v < Pow2[n]}
  <1>1. WordBits \in 1 .. WordBits /\ v < Pow2[WordBits] /\ WordBits \in Nat /\ v \in Nat
    BY WordHalves, WidthAssumption
  <1>2. PICK n \in B : \A m \in B : n <= m
    <2>1. B # {} /\ B \subseteq 0 .. WordBits  BY <1>1
    <2> HIDE DEF B
    <2> QED  BY <1>1, <2>1, SmallestNumber
  <1>3. n \in 1 .. WordBits /\ v < Pow2[n]  BY <1>2
  <1>4. \A k \in 1 .. n - 1 : Pow2[k] <= v
    <2> SUFFICES ASSUME NEW k \in 1 .. n - 1 PROVE Pow2[k] <= v  OBVIOUS
    <2>1. k \in 1 .. WordBits /\ k \in 0 .. WordBits /\ k < n  BY <1>1, <1>3
    <2>2. k \notin B  BY <1>2, <1>3, <2>1
    <2>3. Pow2[k] \in Nat  BY <2>1, Pow2Positive
    <2> QED  BY <1>1, <2>1, <2>2, <2>3
  <1> HIDE DEF B
  <1> QED  BY <1>3, <1>4 DEF Len64

(* The groups of a number: as many as encodeVarint writes and no more. *)
LEMMA GroupsOf ==
    ASSUME NEW v \in 0 .. Word - 1
    PROVE  /\ sov(v) \in 1 .. (WordBits + 6) \div 7
           /\ v < 128 * Pow2[7 * (sov(v) - 1)]
           /\ \A k \in 1 .. sov(v) - 1 : /\ 7 * k \in 1 .. WordBits
                                         /\ Pow2[7 * k] = 128 * Pow2[7 * (k - 1)]
                                         /\ Pow2[7 * k] <= v
  <1> DEFINE bits == Len64(v)
             n == sov(v)
             low == 7 * (n - 1)
  <1>1. /\ bits \in 1 .. WordBits /\ v < Pow2[bits]
        /\ \A k \in 1 .. bits - 1 : Pow2[k] <= v
    BY BitsOf
  <1>2. n = (bits + 6) \div 7  BY DEF sov
  <1> HIDE DEF bits, n
  <1>3. n \in 1 .. (WordBits + 6) \div 7 /\ low \in Nat /\ low < bits /\ bits - low \in 0 .. 7
    BY <1>1, <1>2, WordHalves
  <1>4. v < 128 * Pow2[low]
    <2>1. low + (bits - low) = bits /\ bits <= WordBits  BY <1>1, <1>3, WordHalves
    <2> DEFINE j == bits - low
    <2>2. j \in 0 .. 7 /\ low \in Nat /\ low + j <= WordBits /\ low + j = bits  BY <1>3, <2>1
    <2> HIDE DEF j, low
    <2>3. Pow2[low + j] <= 128 * Pow2[low]  BY <2>2, Pow2Group
    <2>4. low \in 0 .. WordBits /\ bits \in 0 .. WordBits  BY <1>1, <2>2, WordHalves
    <2>5. Pow2[low] \in Nat /\ Pow2[bits] \in Nat  BY <2>4, Pow2Positive
    <2>6. v \in Nat  BY WordHalves
    <2> QED  BY <1>1, <2>2, <2>3, <2>5, <2>6
  <1>5. ASSUME NEW k \in 1 .. n - 1
        PROVE  7 * k \in 1 .. WordBits /\ Pow2[7 * k] = 128 * Pow2[7 * (k - 1)] /\ Pow2[7 * k] <= v
    <2>1. 7 * k \in 1 .. bits - 1 /\ 7 * k \in 1 .. WordBits  BY <1>1, <1>3, WordHalves
    <2> DEFINE m == 7 * (k - 1)
    <2>2. m \in Nat /\ m + 7 = 7 * k /\ m + 7 <= WordBits  BY <1>3, <2>1, WordHalves
    <2> HIDE DEF m
    <2>3. Pow2[m + 7] = 128 * Pow2[m]  BY <2>2, Pow2Group
    <2> QED  BY <1>1, <2>1, <2>2, <2>3 DEF m
  <1> QED  BY <1>3, <1>4, <1>5 DEF n

(* Quotient and remainder. *)
LEMMA Divides ==
    ASSUME NEW v \in Nat, NEW P \in Nat \ {0}
    PROVE  v \div P \in Nat /\ v % P \in 0 .. P - 1 /\ v = P * (v \div P) + (v % P)
  OBVIOUS

LEMMA QuotientIs ==
    ASSUME NEW v \in Nat, NEW P \in Nat \ {0}, NEW q \in Nat, NEW r \in 0 .. P - 1,
           v = P * q + r
    PROVE  v \div P = q
  <1> DEFINE a == v \div P
             b == v % P
  <1>1. a \in Nat /\ b \in 0 .. P - 1 /\ v = P * a + b  BY Divides
  <1> HIDE DEF a, b
  <1>2. ASSUME NEW x \in Nat, NEW y \in Nat, x < y PROVE P * x + P <= P * y
    <2>1. P * (x + 1) <= P * y  BY <1>2
    <2> QED  BY <2>1
  <1>3. P * a \in Nat /\ P * q \in Nat  BY <1>1
  <1>4. ~ (a < q) /\ ~ (q < a)
    <2>1. a < q => P * a + P <= P * q  BY <1>1, <1>2
    <2>2. q < a => P * q + P <= P * a  BY <1>1, <1>2
    <2> QED  BY <1>1, <1>3, <2>1, <2>2
  <1>5. a = q  BY <1>1, <1>4
  <1> QED  BY <1>5 DEF a

(* The rest of a number behind one more group. *)
LEMMA NextGroup ==
    \A v, P, Q : v \in Nat /\ P \in Nat \ {0} /\ Q = 128 * P =>
        ((v \div P) % 128) * P = P * (v \div P) - Q * (v \div Q)
  <1> TAKE v, P, Q
  <1> HAVE v \in Nat /\ P \in Nat \ {0} /\ Q = 128 * P
  <1> DEFINE q == v \div P
             r == v % P
             s == q \div 128
             t == q % 128
  <1>1. q \in Nat /\ r \in 0 .. P - 1 /\ v = P * q + r  BY Divides
  <1> HIDE DEF q, r
  <1>2. s \in Nat /\ t \in 0 .. 127 /\ q = 128 * s + t  BY <1>1
  <1> HIDE DEF s, t
  <1>3. Q \in Nat \ {0}  OBVIOUS
  <1>4. P * q = Q * s + P * t
    <2>1. P * (128 * s + t) = Q * s + P * t  BY <1>2
    <2> QED  BY <1>2, <2>1
  <1>5. P * t + r \in 0 .. Q - 1
    <2>1. P * t \in Nat /\ P * t <= 127 * P  BY <1>2
    <2> QED  BY <1>1, <2>1
  <1>6. v \div Q = s
    <2>1. v = Q * s + (P * t + r)
      <3>1. P * t \in Int /\ Q * s \in Int /\ P * q \in Int  BY <1>1, <1>2
      <3> QED  BY <1>1, <1>4, <3>1
    <2> QED  BY <1>2, <1>3, <1>5, <2>1, QuotientIs
  <1>7. t * P = P * q - Q * s
    <2>1. P * t \in Int /\ Q * s \in Int /\ P * q \in Int  BY <1>1, <1>2
    <2>2. t * P = P * t  BY <1>2
    <2> QED  BY <1>4, <2>1, <2>2
  <1> QED  BY ONLY <1>6, <1>7 DEF q, s, t

(* What is written: seven bits in each byte, and a mark on all but the last. *)
LEMMA WrittenBytes ==
    ASSUME NEW v \in 0 .. Word - 1
    PROVE  /\ encodeVarint(v) \in Seq(Byte) /\ Len(encodeVarint(v)) = sov(v)
           /\ \A k \in 1 .. sov(v) : /\ encodeVarint(v)[k] \in 0 .. 255
                                     /\ encodeVarint(v)[k] % 128 = (v \div Pow2[7 * (k - 1)]) % 128
           /\ \A k \in 1 .. sov(v) - 1 : encodeVarint(v)[k] >= 128
           /\ encodeVarint(v)[sov(v)] < 128
           /\ v \div Pow2[7 * (sov(v) - 1)] < 128
  <1> DEFINE n == sov(v)
             P(k) == Pow2[7 * (k - 1)]
             rest(k) == v \div P(k)
             w == encodeVarint(v)
  <1>1. /\ n \in 1 .. (WordBits + 6) \div 7 /\ v < 128 * P(n)
        /\ \A k \in 1 .. n - 1 : 7 * k \in 1 .. WordBits /\ Pow2[7 * k] = 128 * P(k) /\ Pow2[7 * k] <= v
    BY GroupsOf
  <1>2. w = [k \in 1 .. n |-> IF rest(k) >= 128 THEN (rest(k) % 128) + 128 ELSE rest(k)]
    BY DEF encodeVarint
  <1> HIDE DEF n, w
  <1>3. v \in Nat /\ n \in Nat \ {0}  BY <1>1, WordHalves
  <1>4. ASSUME NEW k \in 1 .. n
        PROVE  P(k) \in Nat \ {0}
    <2> DEFINE m == 7 * (k - 1)
    <2>1. m \in 0 .. WordBits - 1  BY <1>1, GroupShift
    <2>2. m \in 0 .. WordBits  BY <2>1, WordHalves
    <2> HIDE DEF m
    <2>3. Pow2[m] \in Nat \ {0}  BY <2>2, Pow2Positive
    <2> QED  BY <2>3 DEF m
  <1> HIDE DEF P
  <1>5. ASSUME NEW k \in 1 .. n
        PROVE  /\ rest(k) \in Nat
               /\ k < n => rest(k) >= 128
               /\ k = n => rest(k) < 128
    <2>1. /\ P(k) \in Nat \ {0}
          /\ rest(k) \in Nat /\ v % P(k) \in 0 .. P(k) - 1 /\ v = P(k) * rest(k) + (v % P(k))
      BY <1>3, <1>4, Divides
    <2>2. k < n => 128 * P(k) <= v
      <3> SUFFICES ASSUME k < n PROVE 128 * P(k) <= v  OBVIOUS
      <3>1. k \in 1 .. n - 1  BY <1>3
      <3> QED  BY <1>1, <3>1
    <2>3. k = n => v < 128 * P(k)  BY <1>1
    <2>4. ASSUME NEW p \in Nat \ {0}, NEW q \in Nat, NEW r \in 0 .. p - 1, v = p * q + r
          PROVE  (128 * p <= v => q >= 128) /\ (v < 128 * p => q < 128)
      <3>1. ASSUME q <= 127 PROVE v < 128 * p
        <4>1. p * q <= p * 127 /\ p * q \in Nat  BY <3>1
        <4> QED  BY <2>4, <4>1
      <3>2. ASSUME q >= 128 PROVE 128 * p <= v
        <4>1. p * 128 <= p * q /\ p * q \in Nat  BY <3>2
        <4> QED  BY <2>4, <4>1
      <3> QED  BY <1>3, <3>1, <3>2
    <2> HIDE DEF rest
    <2> QED  BY <2>1, <2>2, <2>3, <2>4
  <1> HIDE DEF rest
  <1>6. ASSUME NEW k \in 1 .. n
        PROVE  /\ w[k] \in 0 .. 255 /\ w[k] % 128 = rest(k) % 128
               /\ k < n => w[k] >= 128
               /\ k = n => w[k] < 128
    <2>1. w[k] = IF rest(k) >= 128 THEN (rest(k) % 128) + 128 ELSE rest(k)  BY <1>2
    <2>2. ASSUME NEW x \in Nat, NEW y, y = IF x >= 128 THEN (x % 128) + 128 ELSE x
          PROVE  /\ y \in 0 .. 255 /\ y % 128 = x % 128
                 /\ x >= 128 => y >= 128
                 /\ x < 128 => y < 128
      <3> DEFINE q == x % 128
      <3>1. q \in 0 .. 127  OBVIOUS
      <3>2. x < 128 => x \in 0 .. 127  OBVIOUS
      <3>3. y = IF x >= 128 THEN q + 128 ELSE x  BY <2>2
      <3>4. CASE x >= 128
        <4> HIDE DEF q
        <4>1. y = q + 128 /\ y \in 0 .. 255 /\ y >= 128  BY <3>1, <3>3, <3>4
        <4>2. y % 128 = q  BY ONLY <3>1, <4>1
        <4> QED  BY <3>4, <4>1, <4>2 DEF q
      <3>5. CASE x < 128
        <4>1. y = x  BY <3>3, <3>5
        <4> QED  BY <3>2, <3>5, <4>1
      <3> QED  BY <3>4, <3>5
    <2> QED  BY <1>5, <2>1, <2>2
  <1>7. w \in Seq(Byte) /\ Len(w) = n
    <2>1. w = [k \in 1 .. n |-> w[k]]  BY <1>2
    <2>2. \A k \in 1 .. n : w[k] \in Byte  BY <1>6 DEF Byte
    <2> QED  BY <1>3, <2>1, <2>2
  <1>8. \A k \in 1 .. n - 1 : k \in 1 .. n /\ k < n  BY <1>3
  <1>9. n \in 1 .. n  BY <1>3
  <1> QED  BY <1>5, <1>6, <1>7, <1>8, <1>9 DEF n, w, rest, P

(* The groups of a number, each in its place, add up to it. *)
LEMMA GroupsSum ==
    ASSUME NEW v \in 0 .. Word - 1, NEW f,
           f = [k \in 1 .. sov(v) |-> ((v \div Pow2[7 * (k - 1)]) % 128) * Pow2[7 * (k - 1)]]
    PROVE  SumFunction(f) = v
  <1> DEFINE n == sov(v)
             P(k) == Pow2[7 * (k - 1)]
             rest(k) == v \div P(k)
             S(k) == SumFunctionOnSet(f, 1 .. k)
             B == {k \in 0 .. n - 1 : S(k) # v - P(k + 1) * rest(k + 1)}
  <1>1. /\ n \in 1 .. (WordBits + 6) \div 7
        /\ \A k \in 1 .. n - 1 : Pow2[7 * k] = 128 * P(k)
    BY GroupsOf
  <1>2. rest(n) < 128  BY WrittenBytes
  <1> HIDE DEF n
  <1>3. v \in Nat /\ n \in Nat \ {0}  BY <1>1, WordHalves
  <1>4. ASSUME NEW k \in 1 .. n
        PROVE  P(k) \in Nat \ {0}
    <2> DEFINE m == 7 * (k - 1)
    <2>1. m \in 0 .. WordBits - 1  BY <1>1, GroupShift
    <2>2. m \in 0 .. WordBits  BY <2>1, WordHalves
    <2> HIDE DEF m
    <2>3. Pow2[m] \in Nat \ {0}  BY <2>2, Pow2Positive
    <2> QED  BY <2>3 DEF m
  <1>5. \A k \in 1 .. n - 1 : P(k + 1) = 128 * P(k)
    <2> SUFFICES ASSUME NEW k \in 1 .. n - 1 PROVE P(k + 1) = 128 * P(k)  OBVIOUS
    <2>1. 7 * ((k + 1) - 1) = 7 * k  OBVIOUS
    <2> QED  BY <1>1, <2>1
  <1>6. P(1) = 1  BY Pow2Doubles
  <1>7. \A k \in 1 .. n : f[k] = (rest(k) % 128) * P(k)  BY DEF n
  <1>8. DOMAIN f = 1 .. n  BY DEF n
  <1> HIDE DEF P
  <1>9. \A k \in 1 .. n : rest(k) \in Nat /\ f[k] \in Nat
    <2> SUFFICES ASSUME NEW k \in 1 .. n PROVE rest(k) \in Nat /\ f[k] \in Nat  OBVIOUS
    <2>1. rest(k) \in Nat /\ P(k) \in Nat  BY <1>3, <1>4, Divides
    <2>2. ASSUME NEW a \in Nat, NEW p \in Nat PROVE (a % 128) * p \in Nat  OBVIOUS
    <2>3. f[k] = (rest(k) % 128) * P(k)  BY <1>7
    <2> HIDE DEF rest
    <2>4. (rest(k) % 128) * P(k) \in Nat  BY <2>1, <2>2
    <2> QED  BY <2>1, <2>3, <2>4
  <1>10. ASSUME NEW k \in 1 .. n
         PROVE  S(k) = f[k] + S(k - 1) /\ S(k - 1) \in Nat
    <2>1. IsFiniteSet(1 .. k - 1) /\ k \notin 1 .. k - 1 /\ (1 .. k - 1) \cup {k} = 1 .. k
      <3>1. IsFiniteSet(1 .. k - 1)  BY <1>3, FS_Interval
      <3> QED  BY <1>3, <3>1
    <2>2. \A j \in (1 .. k - 1) \cup {k} : f[j] \in Nat
      <3>1. \A j \in 1 .. k : j \in 1 .. n  BY <1>3
      <3> QED  BY <1>9, <2>1, <3>1
    <2>3. ASSUME NEW I, IsFiniteSet(I), k \notin I, \A j \in I \cup {k} : f[j] \in Nat
          PROVE  /\ SumFunctionOnSet(f, I \cup {k}) = f[k] + SumFunctionOnSet(f, I)
                 /\ SumFunctionOnSet(f, I) \in Nat
      BY ONLY <2>3, SumAdd, SumNat
    <2>4. S(k) = f[k] + S(k - 1) /\ S(k - 1) \in Nat  BY ONLY <2>1, <2>2, <2>3
    <2> QED  BY <2>4
  <1>11. S(0) = 0
    <2>1. 1 .. 0 = {}  OBVIOUS
    <2> QED  BY <2>1, SumEmpty
  <1> HIDE DEF S
  <1>12. B = {}
    <2> SUFFICES ASSUME B # {} PROVE FALSE  OBVIOUS
    <2>1. PICK k \in B : \A l \in B : k <= l
      <3>1. B \subseteq 0 .. n - 1 /\ n - 1 \in Nat  BY <1>3
      <3> HIDE DEF B
      <3> QED  BY <3>1, SmallestNumber
    <2>2. k \in 0 .. n - 1 /\ S(k) # v - P(k + 1) * rest(k + 1)  BY <2>1
    <2>3. k # 0
      <3>1. rest(1) = v  BY <1>3, <1>6
      <3>2. v - P(1) * rest(1) = 0  BY <1>3, <1>6, <3>1
      <3> SUFFICES ASSUME k = 0 PROVE FALSE  OBVIOUS
      <3> HIDE DEF rest
      <3> QED  BY <1>11, <2>2, <3>2
    <2>4. k \in 1 .. n - 1 /\ k - 1 \in 0 .. n - 1 /\ (k - 1) + 1 = k /\ k \in 1 .. n
      BY <1>3, <2>2, <2>3
    <2>5. k - 1 \notin B
      <3> HIDE DEF B
      <3> QED  BY <2>1, <2>4
    <2>6. S(k - 1) = v - P(k) * rest(k)  BY <2>4, <2>5
    <2>7. P(k) \in Nat \ {0} /\ P(k + 1) = 128 * P(k)  BY <1>4, <1>5, <2>4
    <2>8. (rest(k) % 128) * P(k) = P(k) * rest(k) - P(k + 1) * rest(k + 1)
      <3>1. v \in Nat  BY <1>3
      <3> QED  BY ONLY <2>7, <3>1, NextGroup
    <2>9. f[k] = P(k) * rest(k) - P(k + 1) * rest(k + 1)  BY <1>7, <2>4, <2>8
    <2>10. S(k) = f[k] + S(k - 1)  BY <1>10, <2>4
    <2>11. rest(k) \in Nat /\ rest(k + 1) \in Nat /\ P(k + 1) \in Nat
      <3>1. k + 1 \in 1 .. n  BY <1>3, <2>2
      <3> QED  BY <1>4, <1>9, <2>4, <3>1
    <2> DEFINE a == P(k) * rest(k)
               b == P(k + 1) * rest(k + 1)
    <2>12. a \in Int /\ b \in Int
      <3> HIDE DEF rest
      <3> QED  BY <2>7, <2>11
    <2>13. S(k) = (a - b) + (v - a) /\ S(k) # v - b  BY <2>2, <2>6, <2>9, <2>10
    <2> HIDE DEF a, b
    <2> QED  BY <1>3, <2>12, <2>13
  <1>13. S(n - 1) = v - P(n) * rest(n)
    <2>1. n - 1 \in 0 .. n - 1 /\ (n - 1) + 1 = n  BY <1>3
    <2> QED  BY <1>12, <2>1
  <1>14. f[n] = P(n) * rest(n)
    <2>1. n \in 1 .. n  BY <1>3
    <2>2. f[n] = (rest(n) % 128) * P(n) /\ rest(n) \in Nat /\ P(n) \in Nat  BY <1>4, <1>7, <1>9, <2>1
    <2> HIDE DEF rest
    <2>3. rest(n) % 128 = rest(n)  BY <1>2, <2>2
    <2>4. rest(n) * P(n) = P(n) * rest(n)  BY <2>2
    <2> QED  BY <2>2, <2>3, <2>4
  <1>15. S(n) = v
    <2>1. n \in 1 .. n /\ S(n) = f[n] + S(n - 1)  BY <1>3, <1>10
    <2>2. f[n] \in Nat  BY <1>9, <2>1
    <2> QED  BY <1>3, <1>13, <1>14, <2>1, <2>2
  <1> QED  BY <1>8, <1>15 DEF SumFunction, S
\* Bytes between others.
Within(before, bytes, after) == before \o bytes \o after

LEMMA WithinAt ==
    ASSUME NEW before \in Seq(Byte), NEW bytes \in Seq(Byte), NEW after \in Seq(Byte)
    PROVE  /\ Within(before, bytes, after) \in Seq(Byte)
           /\ Len(Within(before, bytes, after)) = Len(before) + Len(bytes) + Len(after)
           /\ \A k \in 1 .. Len(bytes) : Within(before, bytes, after)[Len(before) + k] = bytes[k]
           /\ Len(before) \in Nat /\ Len(bytes) \in Nat /\ Len(after) \in Nat
  <1> DEFINE d == Within(before, bytes, after)
             e == before \o bytes
  <1>1. e \in Seq(Byte) /\ Len(e) = Len(before) + Len(bytes)  BY ConcatProperties
  <1>2. \A k \in 1 .. Len(bytes) : e[Len(before) + k] = bytes[k]
    <2> SUFFICES ASSUME NEW k \in 1 .. Len(bytes) PROVE e[Len(before) + k] = bytes[k]  OBVIOUS
    <2>1. Len(before) + k \in 1 .. Len(before) + Len(bytes) /\ ~ (Len(before) + k <= Len(before))
          /\ (Len(before) + k) - Len(before) = k
      OBVIOUS
    <2> QED  BY <2>1, ConcatProperties
  <1> HIDE DEF e
  <1>3. d = e \o after  BY DEF Within, e
  <1> HIDE DEF d
  <1>4. d \in Seq(Byte) /\ Len(d) = Len(e) + Len(after)  BY <1>1, <1>3, ConcatProperties
  <1>5. \A j \in 1 .. Len(e) : d[j] = e[j]  BY <1>1, <1>3, ConcatProperties
  <1>6. \A k \in 1 .. Len(bytes) : Len(before) + k \in 1 .. Len(e)  BY <1>1
  <1> QED  BY <1>1, <1>2, <1>4, <1>5, <1>6 DEF d

(* A varint that was written, among whatever other bytes, is read to its *)
(* end and is the number it was: lengths, tags and the fields of a       *)
(* message, of any size up to a word's.                                  *)
THEOREM VarintsArrive ==
    ASSUME NEW v \in 0 .. Word - 1, NEW before \in Seq(Byte), NEW after \in Seq(Byte)
    PROVE  Varint(Within(before, encodeVarint(v), after), Len(before))
             = [ok |-> TRUE, iNdEx |-> Len(before) + sov(v), value |-> v]
  <1> DEFINE d == Within(before, encodeVarint(v), after)
             i == Len(before)
             n == sov(v)
             w == encodeVarint(v)
             Ends == VarintEnds(d, i)
             P(k) == Pow2[7 * (k - 1)]
  <1>1. /\ w \in Seq(Byte) /\ Len(w) = n
        /\ \A k \in 1 .. n : w[k] \in 0 .. 255 /\ w[k] % 128 = (v \div P(k)) % 128
        /\ \A k \in 1 .. n - 1 : w[k] >= 128
        /\ w[n] < 128
    BY WrittenBytes
  <1>2. n \in 1 .. (WordBits + 6) \div 7  BY GroupsOf
  <1>3. /\ d \in Seq(Byte) /\ Len(d) = i + n + Len(after) /\ i \in Nat /\ Len(after) \in Nat
        /\ \A k \in 1 .. n : d[i + k] = w[k]
    <2> HIDE DEF w, n
    <2>1. d = Within(before, w, after)  BY DEF w
    <2>2. w \in Seq(Byte) /\ Len(w) = n  BY <1>1
    <2>3. /\ d \in Seq(Byte) /\ Len(d) = Len(before) + Len(w) + Len(after)
          /\ \A k \in 1 .. Len(w) : d[Len(before) + k] = w[k]
          /\ Len(before) \in Nat /\ Len(after) \in Nat
      <3> HIDE DEF d, i
      <3>1. Within(before, w, after) \in Seq(Byte)  BY <2>2, WithinAt
      <3>2. Len(Within(before, w, after)) = Len(before) + Len(w) + Len(after)  BY <2>2, WithinAt
      <3>3. \A k \in 1 .. Len(w) : Within(before, w, after)[Len(before) + k] = w[k]  BY <2>2, WithinAt
      <3>4. Len(before) \in Nat /\ Len(after) \in Nat  BY <2>2, WithinAt
      <3> QED BY <2>1, <3>1, <3>2, <3>3, <3>4
    <2> QED  BY <2>2, <2>3
  <1> HIDE DEF d, i, n, w, P
  <1>4. n \in Nat \ {0} /\ n \in 1 .. n  BY <1>2, WordHalves
  <1>5. ASSUME NEW b \in 0 .. 255 PROVE ~ (b < 128 /\ b >= 128)  OBVIOUS
  <1>6. Ends = {n}
    <2>1. n \in Ends
      <3>1. i + n <= Len(d)  BY <1>3, <1>4
      <3>2. d[i + n] < 128  BY <1>1, <1>3, <1>4
      <3>3. \A k \in 1 .. n - 1 : d[i + k] >= 128
        <4>1. \A k \in 1 .. n - 1 : k \in 1 .. n  BY <1>4
        <4> QED  BY <1>1, <1>3, <4>1
      <3> QED  BY <1>2, <3>1, <3>2, <3>3 DEF VarintEnds
    <2>2. ASSUME NEW m \in Ends, m # n PROVE FALSE
      <3>1. /\ m \in 1 .. (WordBits + 6) \div 7 /\ d[i + m] < 128
            /\ \A k \in 1 .. m - 1 : d[i + k] >= 128
        BY <2>2 DEF VarintEnds
      <3>2. m \in 1 .. n - 1 \/ n \in 1 .. m - 1  BY <1>4, <2>2, <3>1, WordHalves
      <3>3. CASE m \in 1 .. n - 1
        <4>1. m \in 1 .. n  BY <1>4, <3>3
        <4>2. d[i + m] = w[m] /\ w[m] >= 128 /\ w[m] \in 0 .. 255  BY <1>1, <1>3, <3>3, <4>1
        <4> QED  BY <1>5, <3>1, <4>2
      <3>4. CASE n \in 1 .. m - 1
        <4>1. d[i + n] = w[n] /\ w[n] < 128 /\ w[n] \in 0 .. 255  BY <1>1, <1>3, <1>4
        <4>2. d[i + n] >= 128  BY <3>1, <3>4
        <4> QED  BY <1>5, <4>1, <4>2
      <3> QED  BY <3>2, <3>3, <3>4
    <2> QED  BY <2>1, <2>2
  <1>7. (CHOOSE k \in Ends : TRUE) = n  BY <1>6
  <1> DEFINE f == [k \in 1 .. n |-> (d[i + k] % 128) * Pow2[7 * (k - 1)]]
  <1>8. Varint(d, i) = [ok |-> TRUE, iNdEx |-> i + n, value |-> Unsigned(SumFunction(f))]
    <2>1. Ends # {}  BY <1>6
    <2> QED  BY <1>7, <2>1 DEF Varint
  <1>9. SumFunction(f) = v
    <2>1. \A k \in 1 .. n : f[k] = ((v \div P(k)) % 128) * P(k)
      <3> SUFFICES ASSUME NEW k \in 1 .. n PROVE f[k] = ((v \div P(k)) % 128) * P(k)  OBVIOUS
      <3>1. f[k] = (d[i + k] % 128) * P(k)  BY DEF P
      <3>2. d[i + k] % 128 = (v \div P(k)) % 128  BY <1>1, <1>3
      <3> QED  BY ONLY <3>1, <3>2
    <2>2. f = [k \in 1 .. n |-> f[k]]  OBVIOUS
    <2> HIDE DEF f
    <2>3. f = [k \in 1 .. n |-> ((v \div P(k)) % 128) * P(k)]  BY <2>1, <2>2
    <2> QED  BY <2>3, GroupsSum DEF n, P
  <1>10. Unsigned(v) = v  BY WordHalves DEF Unsigned
  <1> QED  BY <1>8, <1>9, <1>10 DEF d, i, n

(* A length has a varint, and the bytes before a value and after it may be *)
(* split there.                                                            *)
LEMMA LengthFits ==
    ASSUME NEW x \in Seq(Byte), Len(x) <= MaxInt
    PROVE  /\ Len(x) \in 0 .. Word - 1 /\ Signed(Len(x), WordBits) = Len(x)
           /\ encodeVarint(Len(x)) \in Seq(Byte)
           /\ Len(encodeVarint(Len(x))) = sov(Len(x)) /\ sov(Len(x)) \in Nat \ {0}
  <1>1. Len(x) \in 0 .. Word - 1 /\ Len(x) \in Nat /\ Len(x) < Word  BY WordHalves
  <1>2. Signed(Len(x), WordBits) = Len(x)  BY <1>1, SignedFits
  <1> DEFINE l == Len(x)
  <1>3. l \in 0 .. Word - 1  BY <1>1
  <1> HIDE DEF l
  <1>4. sov(l) \in 1 .. (WordBits + 6) \div 7  BY <1>3, GroupsOf
  <1>5. sov(l) \in Nat \ {0}  BY <1>4, WordHalves
  <1>6. encodeVarint(l) \in Seq(Byte) /\ Len(encodeVarint(l)) = sov(l)  BY <1>3, WrittenBytes
  <1> QED  BY <1>1, <1>2, <1>5, <1>6 DEF l

LEMMA ConcatBytes ==
    ASSUME NEW s \in Seq(Byte), NEW t \in Seq(Byte)
    PROVE  /\ s \o t \in Seq(Byte) /\ Len(s \o t) = Len(s) + Len(t)
           /\ \A u \in Seq(Byte) : (s \o t) \o u = s \o (t \o u)
  BY ConcatProperties, ConcatAssociative

LEMMA WithinSplits ==
    ASSUME NEW before \in Seq(Byte), NEW x \in Seq(Byte), NEW y \in Seq(Byte), NEW after \in Seq(Byte)
    PROVE  /\ Within(before, x \o y, after) = Within(before, x, y \o after)
           /\ Within(before, x \o y, after) = Within(before \o x, y, after)
           /\ x \o y \in Seq(Byte) /\ y \o after \in Seq(Byte) /\ before \o x \in Seq(Byte)
           /\ Len(x \o y) = Len(x) + Len(y) /\ Len(before \o x) = Len(before) + Len(x)
  <1>1. x \o y \in Seq(Byte) /\ y \o after \in Seq(Byte) /\ before \o x \in Seq(Byte)
    BY ConcatBytes
  <1>2. Len(x \o y) = Len(x) + Len(y) /\ Len(before \o x) = Len(before) + Len(x)
    BY ConcatBytes
  <1>3. (before \o x) \o y = before \o (x \o y)
    <2>1. \A s, t, u \in Seq(Byte) : (s \o t) \o u = s \o (t \o u)  BY ConcatBytes
    <2> QED  BY ONLY <2>1, before \in Seq(Byte), x \in Seq(Byte), y \in Seq(Byte)
  <1>4. ((before \o x) \o y) \o after = (before \o x) \o (y \o after)
    <2>1. ASSUME NEW b \in Seq(Byte) PROVE (b \o y) \o after = b \o (y \o after)
      BY ConcatBytes
    <2> QED  BY ONLY <1>1, <2>1
  <1>5. Within(before, x \o y, after) = Within(before \o x, y, after)  BY <1>3 DEF Within
  <1>6. Within(before \o x, y, after) = Within(before, x, y \o after)  BY <1>4 DEF Within
  <1> QED  BY <1>1, <1>2, <1>5, <1>6

(* The bytes between others, cut out. *)
LEMMA WithinCut ==
    ASSUME NEW before \in Seq(Byte), NEW x \in Seq(Byte), NEW after \in Seq(Byte)
    PROVE  SubSeq(Within(before, x, after), Len(before) + 1, Len(before) + Len(x)) = x
  <1> DEFINE d == Within(before, x, after)
             m == Len(before) + 1
             n == Len(before) + Len(x)
  <1>1. /\ d \in Seq(Byte) /\ Len(d) = Len(before) + Len(x) + Len(after)
        /\ \A k \in 1 .. Len(x) : d[Len(before) + k] = x[k]
        /\ Len(before) \in Nat /\ Len(x) \in Nat /\ Len(after) \in Nat
    <2> HIDE DEF d
    <2> QED  BY WithinAt DEF d
  <1> HIDE DEF d
  <1>2. m \in Int /\ n \in Int /\ n - m + 1 = Len(x) /\ (m <= n <=> Len(x) > 0)  BY <1>1
  <1>3. \A i \in m .. n : d[i] \in Byte
    <2> SUFFICES ASSUME NEW i \in m .. n PROVE d[i] \in Byte  OBVIOUS
    <2>1. i \in 1 .. Len(d)  BY <1>1
    <2> QED  BY <1>1, <2>1, ElementOfSeq
  <1>4. \A k \in 1 .. Len(x) : d[m + k - 1] = x[k]
    <2>1. \A k \in 1 .. Len(x) : m + k - 1 = Len(before) + k  BY <1>1
    <2> QED  BY <1>1, <2>1
  <1> HIDE DEF m, n
  <1> DEFINE y == SubSeq(d, m, n)
  <1>5. /\ y \in Seq(Byte) /\ Len(y) = (IF m <= n THEN n - m + 1 ELSE 0)
        /\ \A k \in 1 .. n - m + 1 : y[k] = d[m + k - 1]
    BY <1>2, <1>3, SubSeqProperties
  <1> HIDE DEF y
  <1>6. Len(y) = Len(x)  BY <1>1, <1>2, <1>5
  <1>7. \A k \in 1 .. Len(y) : y[k] = x[k]  BY <1>2, <1>4, <1>5, <1>6
  <1>8. y = x  BY <1>5, <1>6, <1>7, SeqEqual
  <1> QED  BY <1>8 DEF y, d, m, n

(* A string, a number or a message that was written with its length is read *)
(* to its end and is the bytes it was, in a buffer that an int can index.   *)
THEOREM ValuesArrive ==
    ASSUME NEW x \in Seq(Byte), Len(x) <= MaxInt,
           NEW before \in Seq(Byte), NEW after \in Seq(Byte),
           Len(Within(before, encodeVarint(Len(x)) \o x, after)) <= MaxInt
    PROVE  Delimited(Within(before, encodeVarint(Len(x)) \o x, after), Len(before))
             = [ok |-> TRUE, iNdEx |-> Len(before) + sov(Len(x)) + Len(x), value |-> x]
  <1> DEFINE l == Len(x)
             w == encodeVarint(l)
             n == sov(l)
             i == Len(before)
             d == Within(before, w \o x, after)
  <1>1. /\ l \in 0 .. Word - 1 /\ Signed(l, WordBits) = l
        /\ w \in Seq(Byte) /\ Len(w) = n /\ n \in Nat \ {0}
    BY LengthFits
  <1>2. i \in Nat /\ l \in Nat /\ Len(after) \in Nat  OBVIOUS
  <1> HIDE DEF w, n
  <1>3. /\ d = Within(before, w, x \o after) /\ d = Within(before \o w, x, after)
        /\ x \o after \in Seq(Byte) /\ before \o w \in Seq(Byte)
        /\ Len(before \o w) = i + n
    <2>1. ASSUME NEW b \in Seq(Byte)
          PROVE  /\ Within(before, b \o x, after) = Within(before, b, x \o after)
                 /\ Within(before, b \o x, after) = Within(before \o b, x, after)
                 /\ x \o after \in Seq(Byte) /\ before \o b \in Seq(Byte)
                 /\ Len(before \o b) = Len(before) + Len(b)
      BY WithinSplits
    <2> QED  BY ONLY <1>1, <2>1
  <1>4. Varint(d, i) = [ok |-> TRUE, iNdEx |-> i + n, value |-> l]
    <2> HIDE DEF d, l
    <2>1. Varint(Within(before, encodeVarint(l), x \o after), Len(before))
            = [ok |-> TRUE, iNdEx |-> Len(before) + sov(l), value |-> l]
      BY <1>1, <1>3, VarintsArrive
    <2> QED  BY <1>3, <2>1 DEF w, n
  <1>5. Len(d) = i + n + l + Len(after)
    <2> DEFINE b == before \o w
    <2>1. b \in Seq(Byte) /\ Len(b) = i + n  BY <1>3
    <2> HIDE DEF b
    <2>2. Len(Within(b, x, after)) = Len(b) + Len(x) + Len(after)  BY <2>1, WithinAt
    <2> HIDE DEF d
    <2> QED  BY <1>3, <2>1, <2>2 DEF b
  <1>6. Len(d) <= MaxInt  BY DEF w
  <1> HIDE DEF d
  <1>7. SubSeq(d, i + n + 1, i + n + l) = x
    <2> DEFINE b == before \o w
    <2>1. b \in Seq(Byte) /\ Len(b) = i + n  BY <1>3
    <2> HIDE DEF b
    <2>2. SubSeq(Within(b, x, after), Len(b) + 1, Len(b) + Len(x)) = x  BY <2>1, WithinCut
    <2> QED  BY <1>3, <2>1, <2>2 DEF b
  <1> HIDE DEF l, i
  <1>8. i + n + l \in Nat /\ i + n + l <= MaxInt /\ i + n + l < Word
        /\ i + n + l <= Len(d)
    BY <1>1, <1>2, <1>5, <1>6, WordHalves
  <1>9. Signed(i + n + l, WordBits) = i + n + l  BY <1>8, SignedFits
  <1>10. ~ (l < 0) /\ ~ (i + n + l < 0) /\ ~ (i + n + l > Len(d))
    BY <1>1, <1>2, <1>5, <1>8
  <1>11. Delimited(d, i) = [ok |-> TRUE, iNdEx |-> i + n + l, value |-> SubSeq(d, i + n + 1, i + n + l)]
    <2> DEFINE v == Varint(d, i)
    <2>1. v.ok /\ v.iNdEx = i + n /\ v.value = l  BY <1>4
    <2> HIDE DEF v
    <2>2. Signed(v.value, WordBits) = l /\ Signed(v.iNdEx + l, WordBits) = i + n + l
      BY <1>1, <1>9, <2>1
    <2> QED  BY <1>10, <2>1, <2>2 DEF Delimited, v
  <1> QED  BY <1>7, <1>11 DEF d, i, l, n, w
\* What may follow a tag: a number, bytes and their number, 8 bytes, or 4.
IsOperand(wireType, operand) ==
    \/ wireType = 0 /\ \E v \in 0 .. Word - 1 : operand = encodeVarint(v)
    \/ wireType = 2 /\ \E x \in Seq(Byte) : Len(x) <= MaxInt /\ operand = encodeVarint(Len(x)) \o x
    \/ wireType = 1 /\ operand \in Seq(Byte) /\ Len(operand) = 8
    \/ wireType = 5 /\ operand \in Seq(Byte) /\ Len(operand) = 4

(* A number's varint. *)
LEMMA EncodingOf ==
    ASSUME NEW v \in 0 .. Word - 1
    PROVE  /\ encodeVarint(v) \in Seq(Byte) /\ Len(encodeVarint(v)) = sov(v)
           /\ sov(v) \in Nat \ {0}
  <1>1. sov(v) \in 1 .. (WordBits + 6) \div 7  BY GroupsOf
  <1>2. sov(v) \in Nat \ {0}  BY <1>1, WordHalves
  <1>3. encodeVarint(v) \in Seq(Byte) /\ Len(encodeVarint(v)) = sov(v)  BY WrittenBytes
  <1> QED  BY <1>2, <1>3

LEMMA OperandBytes ==
    ASSUME NEW wireType, NEW operand, IsOperand(wireType, operand)
    PROVE  operand \in Seq(Byte)
  <1>1. \A v \in 0 .. Word - 1 : encodeVarint(v) \in Seq(Byte)  BY EncodingOf
  <1>2. ASSUME NEW x \in Seq(Byte), Len(x) <= MaxInt
        PROVE  encodeVarint(Len(x)) \o x \in Seq(Byte)
    <2>1. encodeVarint(Len(x)) \in Seq(Byte)  BY <1>2, LengthFits
    <2> QED  BY <2>1, ConcatProperties
  <1> QED  BY <1>1, <1>2 DEF IsOperand

(* skipSwap's loop for the tags that are no groups. *)
LEMMA SkipOneCases ==
    ASSUME NEW d, NEW i, NEW n, NEW tag, NEW past,
           Varint(d, i) = [ok |-> TRUE, iNdEx |-> n, value |-> tag],
           ~ (past < 0),
           \/ tag % 8 = 0 /\ Varint(d, n).ok /\ past = Varint(d, n).iNdEx
           \/ /\ tag % 8 = 2 /\ Varint(d, n).ok
              /\ ~ (Signed(Varint(d, n).value, WordBits) < 0)
              /\ past = Signed(Varint(d, n).iNdEx + Signed(Varint(d, n).value, WordBits), WordBits)
           \/ tag % 8 = 1 /\ past = n + 8
           \/ tag % 8 = 5 /\ past = n + 4
    PROVE  SkipOne(d, i) = [ok |-> TRUE, iNdEx |-> past, value |-> 0]
  <1> DEFINE wire    == Varint(d, i)
             operand == Varint(d, wire.iNdEx)
             length  == Signed(operand.value, WordBits)
             far     == Signed(operand.iNdEx + length, WordBits)
             t       == wire.value % 8
             end     == CASE t = 0 -> operand.iNdEx [] t = 1 -> wire.iNdEx + 8 [] t = 2 -> far
                          [] t = 5 -> wire.iNdEx + 4 [] OTHER -> wire.iNdEx
             refused == \/ ~ wire.ok \/ t \in {6, 7}
                        \/ t \in {0, 2} /\ ~ operand.ok
                        \/ t = 2 /\ length < 0
                        \/ end < 0
             change  == CASE t = 3 -> 1 [] t = 4 -> -1 [] OTHER -> 0
  <1>1. SkipOne(d, i) = IF refused THEN Failed ELSE [ok |-> TRUE, iNdEx |-> end, value |-> change]
    BY DEF SkipOne
  <1>2. wire.ok /\ wire.iNdEx = n /\ wire.value = tag /\ t = tag % 8  OBVIOUS
  <1>3. operand = Varint(d, n)  BY <1>2
  <1>4. \/ t = 0 /\ operand.ok /\ past = operand.iNdEx
        \/ t = 2 /\ operand.ok /\ ~ (length < 0) /\ past = far
        \/ t = 1 /\ past = wire.iNdEx + 8
        \/ t = 5 /\ past = wire.iNdEx + 4
    BY <1>2, <1>3
  <1> HIDE DEF wire, operand, length, far, t
  <1>5. end = past /\ change = 0  BY <1>4
  <1> HIDE DEF end, change
  <1>6. ~ refused  BY <1>2, <1>4, <1>5
  <1> QED  BY <1>1, <1>5, <1>6

(* skipSwap passes over a tag and its operand. *)
LEMMA SkipsField ==
    ASSUME NEW tag \in 0 .. Word - 1, NEW operand, IsOperand(tag % 8, operand),
           NEW after \in Seq(Byte), NEW d, d = Within(encodeVarint(tag), operand, after),
           Len(d) <= MaxInt
    PROVE  SkipOne(d, 0) = [ok |-> TRUE, iNdEx |-> sov(tag) + Len(operand), value |-> 0]
  <1> DEFINE w == encodeVarint(tag)
             n == sov(tag)
             m == Len(operand)
             far == Varint(d, n)
  <1>1. w \in Seq(Byte) /\ Len(w) = n /\ n \in Nat \ {0}  BY EncodingOf
  <1>2. operand \in Seq(Byte) /\ m \in Nat
    <2>1. operand \in Seq(Byte)  BY OperandBytes
    <2> QED  BY <2>1
  <1> HIDE DEF w, n, m
  <1>3. d \in Seq(Byte) /\ Len(d) = n + m + Len(after) /\ Len(after) \in Nat
    <2>1. ASSUME NEW b \in Seq(Byte), NEW c \in Seq(Byte)
          PROVE  /\ Within(b, c, after) \in Seq(Byte)
                 /\ Len(Within(b, c, after)) = Len(b) + Len(c) + Len(after) /\ Len(after) \in Nat
      BY WithinAt
    <2>2. d = Within(w, operand, after)  BY DEF w
    <2> QED  BY ONLY <1>1, <1>2, <2>1, <2>2 DEF m
  <1>4. Varint(d, 0) = [ok |-> TRUE, iNdEx |-> n, value |-> tag]
    <2>1. ASSUME NEW b \in Seq(Byte), NEW c \in Seq(Byte)
          PROVE  c \o after \in Seq(Byte) /\ Within(b, c, after) = Within(<<>>, b, c \o after)
      <3>1. c \o after \in Seq(Byte)  BY ConcatBytes
      <3>2. (b \o c) \o after = b \o (c \o after)  BY ConcatBytes
      <3>3. <<>> \o b = b  BY ConcatEmptySeq
      <3> QED  BY <3>1, <3>2, <3>3 DEF Within
    <2>2. d = Within(<<>>, encodeVarint(tag), operand \o after) /\ operand \o after \in Seq(Byte)
      BY ONLY <1>1, <1>2, <2>1, d = Within(encodeVarint(tag), operand, after) DEF w
    <2>3. <<>> \in Seq(Byte) /\ Len(<<>>) = 0  OBVIOUS
    <2> DEFINE rest == operand \o after
    <2>4. rest \in Seq(Byte)  BY <2>2
    <2> HIDE DEF rest
    <2>5. Varint(Within(<<>>, encodeVarint(tag), rest), Len(<<>>))
            = [ok |-> TRUE, iNdEx |-> Len(<<>>) + sov(tag), value |-> tag]
      BY <2>3, <2>4, VarintsArrive
    <2> QED  BY <1>1, <2>2, <2>3, <2>5 DEF rest, n
  <1>5. CASE tag % 8 = 0
    <2>1. PICK v \in 0 .. Word - 1 : operand = encodeVarint(v)  BY <1>5 DEF IsOperand
    <2>2. Varint(Within(w, encodeVarint(v), after), Len(w))
            = [ok |-> TRUE, iNdEx |-> Len(w) + sov(v), value |-> v]
      BY <1>1, VarintsArrive
    <2>3. m = sov(v)  BY <2>1, EncodingOf DEF m
    <2>4. far = [ok |-> TRUE, iNdEx |-> n + m, value |-> v]
      BY <1>1, <2>1, <2>2, <2>3 DEF w
    <2>5. ~ (n + m < 0)  BY <1>1, <1>2
    <2>6. far.ok /\ far.iNdEx = n + m  BY <2>4
    <2> QED  BY ONLY <1>4, <1>5, <2>5, <2>6, SkipOneCases DEF n, m
  <1>6. CASE tag % 8 = 2
    <2>1. PICK x \in Seq(Byte) : Len(x) <= MaxInt /\ operand = encodeVarint(Len(x)) \o x
      BY <1>6 DEF IsOperand
    <2> DEFINE l == Len(x)
               u == encodeVarint(l)
    <2>2. /\ l \in 0 .. Word - 1 /\ Signed(l, WordBits) = l
          /\ u \in Seq(Byte) /\ Len(u) = sov(l) /\ sov(l) \in Nat \ {0}
      BY <2>1, LengthFits
    <2> HIDE DEF u, l
    <2>3. d = Within(w, u, x \o after) /\ x \o after \in Seq(Byte)
      <3>1. ASSUME NEW b \in Seq(Byte), NEW c \in Seq(Byte)
            PROVE  Within(b, c \o x, after) = Within(b, c, x \o after) /\ x \o after \in Seq(Byte)
        BY WithinSplits
      <3>2. d = Within(w, u \o x, after)  BY <2>1 DEF w, u, l
      <3> QED  BY ONLY <1>1, <2>2, <3>1, <3>2
    <2> DEFINE rest == x \o after
    <2>4. rest \in Seq(Byte) /\ d = Within(w, u, rest)  BY <2>3
    <2> HIDE DEF rest
    <2>5. Varint(Within(w, encodeVarint(l), rest), Len(w))
            = [ok |-> TRUE, iNdEx |-> Len(w) + sov(l), value |-> l]
      BY <1>1, <2>2, <2>4, VarintsArrive
    <2>6. far = [ok |-> TRUE, iNdEx |-> n + sov(l), value |-> l]
      BY <1>1, <2>4, <2>5 DEF u
    <2>7. m = sov(l) + l
      <3>1. ASSUME NEW b \in Seq(Byte) PROVE Len(b \o x) = Len(b) + Len(x)  BY ConcatProperties
      <3>2. operand = u \o x  BY <2>1 DEF u, l
      <3> QED  BY ONLY <2>2, <3>1, <3>2 DEF m, l
    <2>8. l \in Nat /\ n + sov(l) + l = n + m /\ n + m \in Nat /\ n + m < Word /\ n + m <= MaxInt
      <3>1. n \in Nat /\ m \in Nat /\ l \in Nat /\ sov(l) \in Nat  BY <1>1, <1>2, <2>2, WordHalves
      <3>2. Len(d) = n + m + Len(after) /\ Len(after) \in Nat /\ MaxInt \in Nat
            /\ Word = 2 * (MaxInt + 1)
        BY <1>3, WordHalves
      <3> QED  BY ONLY <2>7, <3>1, <3>2, Len(d) <= MaxInt
    <2>9. Signed(n + sov(l) + l, WordBits) = n + m  BY <2>8, SignedFits
    <2> HIDE DEF far
    <2>10. far.ok /\ Signed(far.value, WordBits) = l
           /\ Signed(far.iNdEx + l, WordBits) = n + m /\ ~ (l < 0) /\ ~ (n + m < 0)
      BY <2>2, <2>6, <2>8, <2>9
    <2>11. Signed(far.iNdEx + Signed(far.value, WordBits), WordBits) = n + m  BY <2>10
    <2>12. /\ tag % 8 = 2 /\ Varint(d, n).ok
           /\ ~ (Signed(Varint(d, n).value, WordBits) < 0)
           /\ n + m = Signed(Varint(d, n).iNdEx + Signed(Varint(d, n).value, WordBits), WordBits)
      BY ONLY <1>6, <2>10, <2>11 DEF far
    <2>13. SkipOne(d, 0) = [ok |-> TRUE, iNdEx |-> n + m, value |-> 0]
      <3>1. ASSUME NEW past, past = n + m
            PROVE  SkipOne(d, 0) = [ok |-> TRUE, iNdEx |-> past, value |-> 0]
        <4>1. ~ (past < 0)  BY <2>10, <3>1
        <4>2. /\ tag % 8 = 2 /\ Varint(d, n).ok
              /\ ~ (Signed(Varint(d, n).value, WordBits) < 0)
              /\ past = Signed(Varint(d, n).iNdEx + Signed(Varint(d, n).value, WordBits), WordBits)
          BY <2>12, <3>1
        <4> QED  BY ONLY <1>4, <4>1, <4>2, SkipOneCases
      <3> QED  BY ONLY <3>1
    <2> QED  BY <2>13 DEF n, m
  <1>7. CASE tag % 8 \in {1, 5}
    <2>1. m = IF tag % 8 = 1 THEN 8 ELSE 4  BY <1>7 DEF IsOperand, m
    <2>2. ~ (n + m < 0)  BY <1>1, <1>2
    <2> QED  BY ONLY <1>4, <1>7, <2>1, <2>2, SkipOneCases DEF n, m
  <1>8. tag % 8 \in {0, 1, 2, 5}  BY DEF IsOperand
  <1> QED  BY <1>5, <1>6, <1>7, <1>8

(* A field that a newer version of a message has, a tag with its operand, is *)
(* passed over from its first byte to its last, and nothing else changes: the *)
(* reader of an older version goes on with the field that follows.            *)
THEOREM UnknownFieldsSkipped ==
    ASSUME NEW tag \in 0 .. Word - 1, NEW operand, IsOperand(tag % 8, operand),
           NEW before \in Seq(Byte), NEW after \in Seq(Byte),
           NEW d, d = Within(before, encodeVarint(tag) \o operand, after), Len(d) <= MaxInt,
           NEW r, ReaderAt(r, d), r.iNdEx = Len(before)
    PROVE  SkipUnknown(d, r)
             = [r EXCEPT !.iNdEx = Len(before) + Len(encodeVarint(tag) \o operand)]
  <1> DEFINE w == encodeVarint(tag)
             field == w \o operand
             i == Len(before)
             m == Len(field)
             rest == field \o after
  <1>1. w \in Seq(Byte) /\ Len(w) = sov(tag) /\ sov(tag) \in Nat \ {0} /\ operand \in Seq(Byte)
    BY EncodingOf, OperandBytes
  <1> HIDE DEF w
  <1>2. /\ field \in Seq(Byte) /\ m = sov(tag) + Len(operand) /\ Len(operand) \in Nat
        /\ rest \in Seq(Byte) /\ rest = Within(w, operand, after)
        /\ Len(rest) = m + Len(after) /\ Len(after) \in Nat
    <2>1. field \in Seq(Byte) /\ Len(field) = Len(w) + Len(operand)  BY <1>1, ConcatProperties
    <2> HIDE DEF field
    <2>2. rest \in Seq(Byte) /\ Len(rest) = Len(field) + Len(after)  BY <2>1, ConcatProperties
    <2>3. Len(operand) \in Nat /\ Len(after) \in Nat  BY <1>1
    <2>4. rest = Within(w, operand, after)  BY DEF Within, field
    <2> HIDE DEF rest
    <2> QED  BY <1>1, <2>1, <2>2, <2>3, <2>4
  <1>3. Len(d) = i + m + Len(after) /\ i \in Nat /\ m \in Nat \ {0}
    <2>1. ASSUME NEW b \in Seq(Byte)
          PROVE  Len(Within(before, b, after)) = Len(before) + Len(b) + Len(after)
      BY WithinAt
    <2>2. Len(d) = i + m + Len(after)
      BY ONLY <1>2, <2>1, d = Within(before, encodeVarint(tag) \o operand, after) DEF w
    <2>3. i \in Nat  OBVIOUS
    <2> HIDE DEF m
    <2>4. m \in Nat \ {0}  BY ONLY <1>1, <1>2
    <2> QED  BY <2>2, <2>3, <2>4
  <1>4. SubSeq(d, i + 1, Len(d)) = rest
    <2>1. ASSUME NEW b \in Seq(Byte)
          PROVE  /\ Within(before, b \o after, <<>>) = Within(before, b, after)
                 /\ SubSeq(Within(before, b \o after, <<>>), Len(before) + 1, Len(before) + Len(b \o after))
                      = b \o after
      <3>1. after \o <<>> = after /\ <<>> \in Seq(Byte)  BY ConcatEmptySeq
      <3>2. ASSUME NEW c \in Seq(Byte), c = <<>>
            PROVE  Within(before, b \o after, c) = Within(before, b, after \o c)
        BY WithinSplits
      <3>3. b \o after \in Seq(Byte)  BY ConcatProperties
      <3>4. ASSUME NEW x \in Seq(Byte)
            PROVE  SubSeq(Within(before, x, <<>>), Len(before) + 1, Len(before) + Len(x)) = x
        BY <3>1, WithinCut
      <3> QED  BY ONLY <3>1, <3>2, <3>3, <3>4
    <2>2. d = Within(before, field, after)  BY DEF w
    <2>3. SubSeq(d, i + 1, i + Len(rest)) = rest  BY ONLY <1>2, <2>1, <2>2
    <2> HIDE DEF rest, m, i, field
    <2>4. i + Len(rest) = Len(d)  BY ONLY <1>2, <1>3
    <2> QED  BY <2>3, <2>4
  <1> HIDE DEF rest, m, i, field
  <1>5. Len(rest) <= MaxInt
    <2>1. Len(rest) = m + Len(after) /\ Len(d) = i + m + Len(after)
          /\ m \in Nat /\ i \in Nat /\ Len(after) \in Nat
      BY ONLY <1>2, <1>3
    <2>2. MaxInt \in Nat  BY WordHalves
    <2> QED  BY ONLY <2>1, <2>2, Len(d) <= MaxInt
  <1>6. SkipOne(rest, 0) = [ok |-> TRUE, iNdEx |-> m, value |-> 0]
    <2>1. rest = Within(encodeVarint(tag), operand, after)  BY <1>2 DEF w
    <2>2. SkipOne(rest, 0) = [ok |-> TRUE, iNdEx |-> sov(tag) + Len(operand), value |-> 0]
      BY ONLY <1>5, <2>1, SkipsField, tag \in 0 .. Word - 1, after \in Seq(Byte),
              IsOperand(tag % 8, operand)
    <2> QED  BY <1>2, <2>2
  <1>7. skip(rest) = [ok |-> TRUE, iNdEx |-> m, value |-> 0]
    <2>1. 0 \in 0 .. Len(rest) /\ 0 \in Nat  BY <1>2
    <2>2. SkipFrom(rest)[0][0] = SkipStep(SkipFrom(rest), rest, 0, 0)
      BY <1>2, <1>5, <2>1, SkipUnfolds
    <2> DEFINE one == SkipOne(rest, 0)
    <2>3. one.ok /\ one.iNdEx = m /\ one.value = 0  BY <1>6
    <2> HIDE DEF one
    <2>4. 0 + one.value = 0 /\ ~ (0 + one.value < 0)  BY <2>3
    <2>5. SkipStep(SkipFrom(rest), rest, 0, 0) = [ok |-> TRUE, iNdEx |-> m, value |-> 0]
      BY <2>3, <2>4 DEF SkipStep, one
    <2> QED  BY <2>2, <2>5 DEF skip
  <1>8. ~ (i + m > Len(d)) /\ r.iNdEx = i  BY <1>2, <1>3 DEF i
  <1>9. SkipUnknown(d, r) = [r EXCEPT !.iNdEx = i + m]
    <2> DEFINE s == skip(rest)
    <2>1. s.ok /\ s.iNdEx = m  BY <1>7
    <2>2. SubSeq(d, r.iNdEx + 1, Len(d)) = rest  BY <1>4, <1>8
    <2> HIDE DEF s
    <2>3. r.iNdEx + s.iNdEx = i + m  BY <1>8, <2>1
    <2> QED  BY <1>8, <2>1, <2>2, <2>3 DEF SkipUnknown, SkipPast, s
  <1> QED  BY <1>9 DEF i, m, field, w

(* An int survives the way: as a word, and back. *)
LEMMA IntsSurvive ==
    ASSUME NEW v \in (-1 - MaxInt) .. MaxInt
    PROVE  Unsigned(v) \in 0 .. Word - 1 /\ Signed(Unsigned(v), WordBits) = v
  <1>1. MaxInt \in Nat /\ Word = 2 * (MaxInt + 1) /\ Word \in Nat  BY WordHalves
  <1>2. CASE v \in Nat
    <2>1. v < Word /\ v <= MaxInt  BY <1>1
    <2>2. Unsigned(v) = v  BY <1>1, <1>2, <2>1 DEF Unsigned
    <2> QED  BY <1>1, <1>2, <2>1, <2>2, SignedFits
  <1>3. CASE v \notin Nat
    <2> DEFINE u == v + Word
    <2>1. u \in Nat /\ u < Word /\ ~ (u < MaxInt + 1) /\ v = u - Word  BY <1>1, <1>3
    <2>2. v % Word = u
      <3>1. ASSUME NEW W \in Nat, NEW x \in Int, x < 0, 0 <= x + W PROVE x % W = x + W
        BY <3>1
      <3> QED  BY <1>1, <1>3, <2>1, <3>1
    <2>3. u % Word = u  BY <1>1, <2>1
    <2> HIDE DEF u
    <2>4. Signed(u, WordBits) = u - Word  BY <2>1, <2>3, WordHalves DEF Signed
    <2> QED  BY <1>1, <2>1, <2>2, <2>4 DEF Unsigned
  <1> QED  BY <1>2, <1>3

(* A tag of less than 128 is one byte. *)
LEMMA TagByte ==
    ASSUME NEW tag \in 0 .. 127
    PROVE  tag \in 0 .. Word - 1 /\ encodeVarint(tag) = <<tag>> /\ sov(tag) = 1
  <1>1. WordBits \in Nat /\ 7 <= WordBits  BY WidthAssumption
  <1>2. Pow2[7] = 128 /\ Pow2[0] = 1
    <2>1. 0 \in Nat /\ 7 \in 0 .. 7 /\ 0 + 7 = 7 /\ 0 + 7 <= WordBits  BY <1>1
    <2>2. Pow2[0 + 7] = 128 * Pow2[0]  BY <2>1, Pow2Group
    <2> QED  BY <2>1, <2>2, Pow2Doubles
  <1>3. tag \in 0 .. Word - 1
    <2>1. 7 \in 0 .. WordBits /\ WordBits \in 7 .. WordBits  BY <1>1
    <2>2. Pow2[7] <= Pow2[WordBits]  BY <2>1, Pow2Grows
    <2> QED  BY <1>2, <2>2, WordHalves
  <1> DEFINE bits == Len64(tag)
  <1>4. bits \in 1 .. WordBits /\ \A k \in 1 .. bits - 1 : Pow2[k] <= tag  BY <1>3, BitsOf
  <1> HIDE DEF bits
  <1>5. bits \in 1 .. 7
    <2> SUFFICES ASSUME bits > 7 PROVE FALSE  BY <1>1, <1>4
    <2>1. 7 \in 1 .. bits - 1  BY <1>1, <1>4
    <2> QED  BY <1>2, <1>4, <2>1
  <1>6. sov(tag) = 1  BY <1>5 DEF sov, bits
  <1>7. tag \div Pow2[7 * (1 - 1)] = tag  BY <1>2
  <1>8. encodeVarint(tag) = [k \in 1 .. 1 |-> tag]
    <2>1. encodeVarint(tag)[1] = tag  BY <1>6, <1>7 DEF encodeVarint
    <2>2. encodeVarint(tag) = [k \in 1 .. 1 |-> encodeVarint(tag)[k]]  BY <1>6 DEF encodeVarint
    <2>3. \A k \in 1 .. 1 : k = 1  OBVIOUS
    <2> HIDE DEF encodeVarint
    <2> QED  BY <2>1, <2>2, <2>3
  <1>9. [k \in 1 .. 1 |-> tag] = <<tag>>  OBVIOUS
  <1> QED  BY <1>3, <1>6, <1>8, <1>9

\* A field: a tag, which is one byte for every number the messages use, and an
\* operand; and a tag whose case a reader has.
Tagged(tag, operand) == <<tag>> \o operand
FieldOf(tag) == Signed(tag \div 8, Int32Bits)
WireOf(tag) == tag % 8
Knows(c, tag) == FieldOf(tag) \in DOMAIN c /\ 0 < FieldOf(tag) /\ WireOf(tag) # 4

\* The field that is written for a value which is not empty, of each kind that
\* holds no message.
IsWritten(f, tag, value, field) ==
    \/ /\ f = Int64(f.name) /\ WireOf(tag) = 0 /\ field = VarintField(tag, value)
       /\ value \in (-1 - MaxInt) .. MaxInt /\ value # 0
    \/ /\ f = Enum(f.name) /\ WireOf(tag) = 0 /\ field = VarintField(tag, value)
       /\ value \in 1 .. 255
    \/ /\ f = Bool(f.name) /\ WireOf(tag) = 0 /\ field = BoolField(tag, value)
       /\ value = TRUE
    \/ /\ f = Bytes(f.name) /\ WireOf(tag) = 2 /\ field = BytesField(tag, value)
       /\ value \in Seq(Byte) /\ value # <<>> /\ Len(value) <= MaxInt
    \/ /\ f = SdkInt(f.name) /\ WireOf(tag) = 2 /\ field = Embedded(tag, MarshalInt(value))
       /\ value \in Seq(Byte) /\ value # <<>> /\ Len(value) <= MaxInt /\ IsIntText(value)

\* What stands behind the tag, over whatever the field held before.
IsNumber(f, value, operand) ==
    /\ f.wireType = 0
    /\ \E word \in 0 .. Word - 1 : operand = encodeVarint(word) /\ value = FromVarint(f.kind, word)
IsBytes(f, old, value, operand) ==
    /\ f.wireType = 2
    /\ \E x \in Seq(Byte) : /\ Len(x) <= MaxInt /\ operand = encodeVarint(Len(x)) \o x
                            /\ Merge(f, old, x) = [ok |-> TRUE, value |-> value]

Carries(wire, f, old, value, operand) ==
    \/ wire = 0 /\ IsNumber(f, value, operand)
    \/ wire = 2 /\ IsBytes(f, old, value, operand)

(* The power that a byte stays below. *)
LEMMA Pow2OfByte == Pow2[8] = 256
  <1>1. 8 \in 0 .. WordBits /\ 7 \in 0 .. WordBits /\ 8 # 0 /\ 8 - 1 = 7  BY WidthAssumption
  <1>2. Pow2[7] = 128
    <2>1. 0 \in Nat /\ 7 \in 0 .. 7 /\ 0 + 7 = 7 /\ 0 + 7 <= WordBits  BY WidthAssumption
    <2>2. Pow2[0 + 7] = 128 * Pow2[0]  BY <2>1, Pow2Group
    <2> QED  BY <2>1, <2>2, Pow2Doubles
  <1> QED  BY <1>1, <1>2, Pow2Doubles

(* A byte fits an int. *)
LEMMA ByteFits == 255 <= MaxInt /\ 255 < Word
  <1>1. Pow2[8] = 256  BY Pow2OfByte
  <1>2. 8 \in 0 .. WordBits /\ WordBits - 1 \in 8 .. WordBits  BY WidthAssumption
  <1>3. Pow2[8] <= Pow2[WordBits - 1]  BY <1>2, Pow2Grows
  <1>4. Pow2[WordBits - 1] \in Nat  BY <1>2, Pow2Positive
  <1>5. 255 <= MaxInt  BY <1>1, <1>3, <1>4 DEF MaxInt
  <1> QED  BY <1>5, WordHalves

LEMMA FieldIsInt == \A tag \in 0 .. 127 : FieldOf(tag) \in Int
  <1> SUFFICES ASSUME NEW tag \in 0 .. 127 PROVE FieldOf(tag) \in Int  OBVIOUS
  <1> DEFINE x == tag \div 8
  <1>1. x \in Int  OBVIOUS
  <1> HIDE DEF x
  <1>2. Int32Bits \in 1 .. WordBits  BY WidthAssumption
  <1>3. Pow2[Int32Bits] \in Nat \ {0}  BY <1>2, WidthAssumption, Pow2Positive
  <1>4. Signed(x, Int32Bits) \in Int  BY <1>1, <1>3 DEF Signed
  <1> QED  BY <1>4 DEF FieldOf, x

LEMMA TaggedValue ==
    ASSUME NEW tag \in 0 .. 127, NEW x \in Seq(Byte), Len(x) <= MaxInt
    PROVE  /\ Embedded(tag, x) = Tagged(tag, encodeVarint(Len(x)) \o x)
           /\ encodeVarint(Len(x)) \o x \in Seq(Byte)
  <1> DEFINE w == encodeVarint(Len(x))
             b == <<tag>>
  <1>1. b \in Seq(Byte) /\ b \o (w \o x) = Tagged(tag, w \o x) /\ Embedded(tag, x) = b \o w \o x
    BY DEF Byte, Tagged, Embedded
  <1>2. Len(x) \in 0 .. Word - 1  BY LengthFits
  <1>3. w \in Seq(Byte)  BY <1>2, EncodingOf
  <1> HIDE DEF w, b
  <1>4. w \o x \in Seq(Byte) /\ b \o w \o x = b \o (w \o x)  BY <1>1, <1>3, ConcatBytes
  <1> QED  BY <1>1, <1>4 DEF w

(* A field that is written is its tag and the operand of its value. *)
LEMMA FieldOperand ==
    ASSUME NEW tag \in 0 .. 127, NEW f, NEW value, NEW field, IsWritten(f, tag, value, field), NEW old
    PROVE  \E operand \in Seq(Byte) :
              field = Tagged(tag, operand) /\ Carries(WireOf(tag), f, old, value, operand)
  <1> USE DEF Carries
  <1>1. CASE /\ f = Int64(f.name) /\ WireOf(tag) = 0 /\ field = VarintField(tag, value)
             /\ value \in (-1 - MaxInt) .. MaxInt /\ value # 0
    <2> DEFINE word == Unsigned(value)
               operand == encodeVarint(word)
    <2>1. word \in 0 .. Word - 1 /\ Signed(word, WordBits) = value  BY <1>1, IntsSurvive
    <2>2. f.kind = "int" /\ f.wireType = 0
      <3>1. ASSUME NEW n, f = Int64(n) PROVE f.kind = "int" /\ f.wireType = 0
        BY <3>1 DEF Int64, Case
      <3> QED  BY <1>1, <3>1
    <2>3. field = Tagged(tag, operand)  BY <1>1 DEF VarintField, Tagged
    <2> HIDE DEF word
    <2>4. operand \in Seq(Byte)  BY <2>1, EncodingOf
    <2>5. value = FromVarint(f.kind, word)  BY <2>1, <2>2 DEF FromVarint
    <2> QED  BY <1>1, <2>1, <2>2, <2>3, <2>4, <2>5 DEF IsNumber
  <1>2. CASE /\ f = Enum(f.name) /\ WireOf(tag) = 0 /\ field = VarintField(tag, value)
             /\ value \in 1 .. 255
    <2>1. 255 < Word  BY ByteFits
    <2>2. value \in 0 .. Word - 1 /\ value # 0 /\ value % 256 = value  BY <1>2, <2>1, WordHalves
    <2>3. Unsigned(value) = value  BY <2>2, WordHalves DEF Unsigned
    <2> DEFINE operand == encodeVarint(value)
    <2>4. f.kind = "byte" /\ f.wireType = 0
      <3>1. ASSUME NEW n, f = Enum(n) PROVE f.kind = "byte" /\ f.wireType = 0
        BY <3>1 DEF Enum, Case
      <3> QED  BY <1>2, <3>1
    <2>5. field = Tagged(tag, operand)  BY <1>2, <2>2, <2>3 DEF VarintField, Tagged
    <2>6. operand \in Seq(Byte)  BY <2>2, EncodingOf
    <2>7. value = FromVarint(f.kind, value)  BY <2>2, <2>4 DEF FromVarint
    <2> QED  BY <1>2, <2>2, <2>4, <2>5, <2>6, <2>7 DEF IsNumber
  <1>3. CASE /\ f = Bool(f.name) /\ WireOf(tag) = 0 /\ field = BoolField(tag, value)
             /\ value = TRUE
    <2> DEFINE operand == encodeVarint(1)
    <2>1. 1 \in 0 .. Word - 1 /\ operand = <<1>>
      <3>1. 1 \in 0 .. 127  OBVIOUS
      <3> QED  BY <3>1, TagByte
    <2>2. f.kind = "bool" /\ f.wireType = 0
      <3>1. ASSUME NEW n, f = Bool(n) PROVE f.kind = "bool" /\ f.wireType = 0
        BY <3>1 DEF Bool, Case
      <3> QED  BY <1>3, <3>1
    <2>3. field = Tagged(tag, operand)
      <3>1. field = <<tag, 1>>  BY <1>3 DEF BoolField
      <3>2. <<tag>> \o <<1>> = <<tag, 1>>
        <4>1. <<tag>> \in Seq(Nat) /\ <<1>> \in Seq(Nat) /\ Len(<<tag>>) = 1 /\ Len(<<1>>) = 1
          OBVIOUS
        <4> DEFINE a == <<tag>>
                   b == <<1>>
                   y == <<tag, 1>>
        <4>2. y \in Seq(Nat) /\ Len(y) = 2 /\ y[1] = tag /\ y[2] = 1 /\ a[1] = tag /\ b[1] = 1
          OBVIOUS
        <4> HIDE DEF a, b, y
        <4>3. a \o b \in Seq(Nat) /\ Len(a \o b) = 2 /\ (a \o b)[1] = a[1] /\ (a \o b)[2] = b[1]
          BY <4>1, ConcatProperties DEF a, b
        <4>4. \A i \in 1 .. Len(a \o b) : (a \o b)[i] = y[i]  BY <4>2, <4>3
        <4>5. a \o b = y  BY <4>2, <4>3, <4>4, SeqEqual
        <4> QED  BY <4>5 DEF a, b, y
      <3> HIDE DEF operand
      <3> QED  BY <2>1, <3>1, <3>2 DEF Tagged
    <2>4. operand \in Seq(Byte)  BY <2>1, EncodingOf
    <2>5. FromVarint(f.kind, 1) = TRUE
      <3> DEFINE one == 1
                 set == one # 0
      <3>1. set = TRUE  OBVIOUS
      <3> HIDE DEF one
      <3>2. FromVarint("bool", one) = set  BY DEF FromVarint
      <3> QED  BY <2>2, <3>1, <3>2 DEF one
    <2> QED  BY <1>3, <2>1, <2>2, <2>3, <2>4, <2>5 DEF IsNumber
  <1>4. CASE /\ f = Bytes(f.name) /\ WireOf(tag) = 2 /\ field = BytesField(tag, value)
             /\ value \in Seq(Byte) /\ value # <<>> /\ Len(value) <= MaxInt
    <2> DEFINE operand == encodeVarint(Len(value)) \o value
    <2>1. f.kind = "bytes" /\ f.wireType = 2
      <3>1. ASSUME NEW n, f = Bytes(n) PROVE f.kind = "bytes" /\ f.wireType = 2
        BY <3>1 DEF Bytes, Case
      <3> QED  BY <1>4, <3>1
    <2>2. field = Tagged(tag, operand)  BY <1>4, TaggedValue DEF BytesField
    <2>3. operand \in Seq(Byte)  BY <1>4, TaggedValue
    <2>4. Merge(f, old, value) = [ok |-> TRUE, value |-> value]  BY <2>1 DEF Merge
    <2> QED  BY <1>4, <2>1, <2>2, <2>3, <2>4 DEF IsBytes
  <1>5. CASE /\ f = SdkInt(f.name) /\ WireOf(tag) = 2 /\ field = Embedded(tag, MarshalInt(value))
             /\ value \in Seq(Byte) /\ value # <<>> /\ Len(value) <= MaxInt /\ IsIntText(value)
    <2> DEFINE operand == encodeVarint(Len(value)) \o value
    <2>1. f.kind = "Int" /\ f.wireType = 2
      <3>1. ASSUME NEW n, f = SdkInt(n) PROVE f.kind = "Int" /\ f.wireType = 2
        BY <3>1 DEF SdkInt, Case
      <3> QED  BY <1>5, <3>1
    <2>2. field = Tagged(tag, operand)  BY <1>5, TaggedValue DEF MarshalInt
    <2>3. operand \in Seq(Byte)  BY <1>5, TaggedValue
    <2>4. Merge(f, old, value) = [ok |-> IsIntText(value), value |-> value]  BY <2>1 DEF Merge
    <2>5. IsIntText(value) = TRUE  BY <1>5, Zenon DEF IsIntText
    <2> QED  BY <1>5, <2>1, <2>2, <2>3, <2>4, <2>5 DEF IsBytes
  <1> QED  BY <1>1, <1>2, <1>3, <1>4, <1>5 DEF IsWritten

\* A pass puts a value into a field and ends at n.
Puts(c, d, r, n, name, value) ==
    ReadField(c, d, r) = [ok |-> TRUE, iNdEx |-> n, m |-> [r.m EXCEPT ![name] = value]]

(* The pass that stands before a field whose case it has and whose operand is *)
(* that of a value.                                                           *)
LEMMA OperandArrives ==
    ASSUME NEW tag \in 0 .. 127, NEW c, Knows(c, tag), NEW f, f = c[FieldOf(tag)],
           NEW value, NEW operand \in Seq(Byte), NEW field, field = Tagged(tag, operand),
           NEW before \in Seq(Byte), NEW after \in Seq(Byte),
           NEW d, d = Within(before, field, after), Len(d) <= MaxInt,
           NEW r, ReaderAt(r, d), r.iNdEx = Len(before),
           Carries(WireOf(tag), f, r.m[f.name], value, operand)
    PROVE  Puts(c, d, r, Len(before) + Len(field), f.name, value)
  <1> DEFINE old  == r.m[f.name]
             wire == WireOf(tag)
             i    == Len(before) + 1
  <1>1. /\ field = Tagged(tag, operand)
        /\ \/ wire = 0 /\ IsNumber(f, value, operand)
           \/ wire = 2 /\ IsBytes(f, old, value, operand)
    BY DEF Carries
  <1> HIDE DEF wire
  <1>2. tag \in 0 .. Word - 1 /\ encodeVarint(tag) = <<tag>> /\ sov(tag) = 1  BY TagByte
  <1>3. <<tag>> \in Seq(Byte) /\ Len(<<tag>>) = 1  BY DEF Byte
  <1>4. /\ d = Within(before, <<tag>>, operand \o after) /\ operand \o after \in Seq(Byte)
        /\ d = Within(before \o <<tag>>, operand, after)
        /\ before \o <<tag>> \in Seq(Byte) /\ Len(before \o <<tag>>) = i
    <2>1. ASSUME NEW x \in Seq(Byte)
          PROVE  /\ Within(before, x \o operand, after) = Within(before, x, operand \o after)
                 /\ Within(before, x \o operand, after) = Within(before \o x, operand, after)
                 /\ operand \o after \in Seq(Byte) /\ before \o x \in Seq(Byte)
                 /\ Len(before \o x) = Len(before) + Len(x)
      BY WithinSplits
    <2> DEFINE x == <<tag>>
    <2>2. x \in Seq(Byte) /\ Len(x) = 1 /\ d = Within(before, x \o operand, after)
      BY <1>1, <1>3 DEF Tagged
    <2> HIDE DEF x
    <2>3. /\ d = Within(before, x, operand \o after) /\ operand \o after \in Seq(Byte)
          /\ d = Within(before \o x, operand, after)
          /\ before \o x \in Seq(Byte) /\ Len(before \o x) = i
      BY ONLY <2>1, <2>2
    <2> QED  BY <2>3 DEF x
  <1>5. PICK b \in Seq(Byte) : Len(b) = i /\ d = Within(b, operand, after)  BY <1>4
  <1>6. Len(field) = 1 + Len(operand)  BY <1>1, <1>3, ConcatBytes DEF Tagged
  <1>7. Varint(d, Len(before)) = [ok |-> TRUE, iNdEx |-> i, value |-> tag]
    <2> DEFINE rest == operand \o after
    <2>1. rest \in Seq(Byte)  BY <1>4
    <2> HIDE DEF rest
    <2>2. Varint(Within(before, encodeVarint(tag), rest), Len(before))
            = [ok |-> TRUE, iNdEx |-> Len(before) + sov(tag), value |-> tag]
      BY <1>2, <2>1, VarintsArrive
    <2> QED  BY <1>2, <1>4, <2>2 DEF rest
  <1> HIDE DEF i
  <1>8. ReadField(c, d, r) = ReadKnown(f, wire, d, i, r)
    <2> DEFINE read     == Varint(d, r.iNdEx)
               fieldNum == Signed(read.value \div 8, Int32Bits)
               wireType == read.value % 8
    <2>1. read.ok /\ read.iNdEx = i /\ read.value = tag  BY <1>7
    <2>2. fieldNum = FieldOf(tag) /\ wireType = wire  BY <2>1 DEF FieldOf, WireOf, wire
    <2>3. FieldOf(tag) \in Int  BY FieldIsInt
    <2>4. ~ (fieldNum <= 0) /\ wireType # 4 /\ fieldNum \in DOMAIN c
      BY <2>2, <2>3 DEF Knows, wire
    <2> HIDE DEF read, fieldNum, wireType
    <2>5. ReadField(c, d, r) = ReadKnown(c[fieldNum], wireType, d, read.iNdEx, r)
      BY <2>1, <2>4 DEF ReadField, read, fieldNum, wireType
    <2> QED  BY <2>1, <2>2, <2>5
  <1>9. PICK x, y, z : r = [ok |-> x, iNdEx |-> y, m |-> z]  BY DEF ReaderAt
  <1> DEFINE s == ReadKnown(f, wire, d, i, r)
             m == [r.m EXCEPT ![f.name] = value]
             n == i + Len(operand)
  <1>10. s = [r EXCEPT !.ok = TRUE, !.iNdEx = n, !.m = m]
    <2>1. CASE wire = 0 /\ IsNumber(f, value, operand)
      <3>1. PICK word \in 0 .. Word - 1 :
                operand = encodeVarint(word) /\ value = FromVarint(f.kind, word)
        BY <2>1 DEF IsNumber
      <3>2. Len(operand) = sov(word)  BY <3>1, EncodingOf
      <3> DEFINE v == Varint(d, i)
      <3>3. v = [ok |-> TRUE, iNdEx |-> n, value |-> word]
        <4>1. Varint(Within(b, encodeVarint(word), after), Len(b))
                = [ok |-> TRUE, iNdEx |-> Len(b) + sov(word), value |-> word]
          BY VarintsArrive
        <4> QED  BY <1>5, <3>1, <3>2, <4>1
      <3>4. v.ok = TRUE /\ v.iNdEx = n /\ v.value = word  BY <3>3
      <3>5. f.wireType = 0  BY <2>1 DEF IsNumber
      <3> DEFINE ok == v.ok /\ wire = 0
      <3>6. s = [r EXCEPT !.ok = ok, !.iNdEx = n, !.m = m]  BY <3>1, <3>4, <3>5 DEF ReadKnown
      <3>7. ok = TRUE  BY <2>1, <3>4
      <3> HIDE DEF ok, s, n, m
      <3> QED  BY ONLY <3>6, <3>7
    <2>2. CASE wire = 2 /\ IsBytes(f, old, value, operand)
      <3>1. PICK t \in Seq(Byte) :
                /\ Len(t) <= MaxInt /\ operand = encodeVarint(Len(t)) \o t
                /\ Merge(f, old, t) = [ok |-> TRUE, value |-> value]
        BY <2>2 DEF IsBytes
      <3> DEFINE e == Delimited(d, i)
                 u == Merge(f, old, e.value)
      <3>2. Len(operand) = sov(Len(t)) + Len(t)
        <4>1. encodeVarint(Len(t)) \in Seq(Byte) /\ Len(encodeVarint(Len(t))) = sov(Len(t))
          BY <3>1, LengthFits
        <4> QED  BY <3>1, <4>1, ConcatBytes
      <3>3. e = [ok |-> TRUE, iNdEx |-> n, value |-> t]
        <4>1. Len(Within(b, encodeVarint(Len(t)) \o t, after)) <= MaxInt  BY <1>5, <3>1
        <4>2. Delimited(Within(b, encodeVarint(Len(t)) \o t, after), Len(b))
                = [ok |-> TRUE, iNdEx |-> Len(b) + sov(Len(t)) + Len(t), value |-> t]
          BY <3>1, <4>1, ValuesArrive
        <4>3. Len(b) + sov(Len(t)) + Len(t) = n
          <5>1. sov(Len(t)) \in Nat  BY <3>1, LengthFits
          <5> QED  BY <1>5, <3>2, <5>1
        <4> QED  BY <1>5, <3>1, <4>2, <4>3
      <3>4. e.ok = TRUE /\ e.iNdEx = n /\ e.value = t  BY <3>3
      <3>5. u.ok = TRUE /\ u.value = value  BY <3>1, <3>4
      <3>6. f.wireType = 2  BY <2>2 DEF IsBytes
      <3>7. ~ (f.wireType = 0) /\ ~ (~ e.ok \/ wire # 2)  BY <2>2, <3>4, <3>6
      <3> HIDE DEF e, u
      <3>8. s = [r EXCEPT !.ok = u.ok, !.iNdEx = e.iNdEx, !.m = [@ EXCEPT ![f.name] = u.value]]
        BY <3>7 DEF ReadKnown, e, u
      <3> HIDE DEF s, n
      <3> QED  BY <3>4, <3>5, <3>8
    <2> QED  BY <1>1, <2>1, <2>2
  <1> HIDE DEF s, m, n
  <1>11. s = [ok |-> TRUE, iNdEx |-> n, m |-> m]  BY ONLY <1>9, <1>10
  <1>12. n = Len(before) + Len(field)
    <2>1. Len(before) \in Nat /\ Len(operand) \in Nat  OBVIOUS
    <2> QED  BY <1>6, <2>1 DEF n, i
  <1> QED  BY <1>8, <1>11, <1>12 DEF s, m, Puts

(* Of a field that a message's Marshal writes for a number, an enum, a flag, *)
(* a string or an amount, the pass of Unmarshal's loop that stands before it *)
(* makes the value it was written for, wherever in the message it is and     *)
(* whatever the field held, and ends behind it.                              *)
THEOREM FieldsArrive ==
    ASSUME NEW tag \in 0 .. 127, NEW c, Knows(c, tag), NEW f, f = c[FieldOf(tag)],
           NEW value, NEW field, IsWritten(f, tag, value, field),
           NEW before \in Seq(Byte), NEW after \in Seq(Byte),
           NEW d, d = Within(before, field, after), Len(d) <= MaxInt,
           NEW r, ReaderAt(r, d), r.iNdEx = Len(before)
    PROVE  ReadField(c, d, r)
             = [ok |-> TRUE, iNdEx |-> Len(before) + Len(field),
                m |-> [r.m EXCEPT ![f.name] = value]]
  <1>1. PICK operand \in Seq(Byte) :
              field = Tagged(tag, operand) /\ Carries(WireOf(tag), f, r.m[f.name], value, operand)
    BY FieldOperand
  <1>2. Puts(c, d, r, Len(before) + Len(field), f.name, value)
    BY <1>1, OperandArrives
  <1> QED  BY <1>2 DEF Puts
-------------------------------------------------------------------------------
(* The size of what is written.                                            *)

(* For a field of any kind that holds no list, Size counts the bytes that    *)
(* Marshal writes: too small a count would write past the start of the       *)
(* buffer, too large a one would leave zeros before the message.             *)
THEOREM FieldsSized ==
    ASSUME NEW tag \in 0 .. 127
    PROVE  /\ \A v \in (-1 - MaxInt) .. MaxInt :
                 VarintField(tag, v) \in Seq(Byte) /\ Len(VarintField(tag, v)) = VarintSize(v)
           /\ \A b \in BOOLEAN :
                 BoolField(tag, b) \in Seq(Byte) /\ Len(BoolField(tag, b)) = BoolSize(b)
           /\ \A x \in Seq(Byte) : Len(x) <= MaxInt =>
                 /\ Embedded(tag, x) \in Seq(Byte) /\ Len(Embedded(tag, x)) = EmbeddedSize(Len(x))
                 /\ BytesField(tag, x) \in Seq(Byte) /\ Len(BytesField(tag, x)) = BytesSize(x)
  <1> DEFINE t == <<tag>>
  <1>1. t \in Seq(Byte) /\ Len(t) = 1  BY DEF Byte
  <1>2. <<>> \in Seq(Byte) /\ Len(<<>>) = 0  OBVIOUS
  <1>3. ASSUME NEW v \in (-1 - MaxInt) .. MaxInt
        PROVE  VarintField(tag, v) \in Seq(Byte) /\ Len(VarintField(tag, v)) = VarintSize(v)
    <2> DEFINE u == Unsigned(v)
               w == encodeVarint(u)
    <2>1. u \in 0 .. Word - 1  BY IntsSurvive
    <2> HIDE DEF u
    <2>2. w \in Seq(Byte) /\ Len(w) = sov(u) /\ sov(u) \in Nat  BY <2>1, EncodingOf
    <2> HIDE DEF w, t
    <2>3. t \o w \in Seq(Byte) /\ Len(t \o w) = 1 + sov(u)  BY <1>1, <2>2, ConcatBytes
    <2>4. CASE v = 0  BY <1>2, <2>4 DEF VarintField, VarintSize
    <2>5. CASE v # 0
      <3>1. VarintField(tag, v) = t \o w /\ VarintSize(v) = 1 + sov(u)
        BY <2>5 DEF VarintField, VarintSize, t, u, w
      <3> QED  BY <2>3, <3>1
    <2> QED  BY <2>4, <2>5
  <1>4. ASSUME NEW b \in BOOLEAN
        PROVE  BoolField(tag, b) \in Seq(Byte) /\ Len(BoolField(tag, b)) = BoolSize(b)
    <2>1. <<tag, 1>> \in Seq(Byte) /\ Len(<<tag, 1>>) = 2  BY DEF Byte
    <2>2. CASE b  BY <2>1, <2>2 DEF BoolField, BoolSize
    <2>3. CASE ~ b  BY <1>2, <2>3 DEF BoolField, BoolSize
    <2> QED  BY <2>2, <2>3
  <1>5. ASSUME NEW x \in Seq(Byte), Len(x) <= MaxInt
        PROVE  /\ Embedded(tag, x) \in Seq(Byte) /\ Len(Embedded(tag, x)) = EmbeddedSize(Len(x))
               /\ BytesField(tag, x) \in Seq(Byte) /\ Len(BytesField(tag, x)) = BytesSize(x)
    <2> DEFINE w == encodeVarint(Len(x))
               l == Len(x)
    <2>1. w \in Seq(Byte) /\ Len(w) = sov(l) /\ sov(l) \in Nat /\ l \in Nat  BY <1>5, LengthFits
    <2> HIDE DEF w, t
    <2>2. t \o w \in Seq(Byte) /\ Len(t \o w) = 1 + sov(l)  BY <1>1, <2>1, ConcatBytes
    <2>3. (t \o w) \o x \in Seq(Byte) /\ Len((t \o w) \o x) = 1 + sov(l) + l  BY <2>2, ConcatBytes
    <2>4. Embedded(tag, x) = (t \o w) \o x  BY DEF Embedded, t, w
    <2> HIDE DEF l
    <2>5. EmbeddedSize(l) = 1 + sov(l) + l  BY <2>1 DEF EmbeddedSize
    <2>6. Embedded(tag, x) \in Seq(Byte) /\ Len(Embedded(tag, x)) = EmbeddedSize(l)
      BY <2>3, <2>4, <2>5
    <2>7. CASE x = <<>>  BY <1>2, <2>6, <2>7 DEF BytesField, BytesSize, l
    <2>8. CASE x # <<>>  BY <2>6, <2>8 DEF BytesField, BytesSize, l
    <2> QED  BY <2>6, <2>7, <2>8 DEF l
  <1> QED  BY <1>3, <1>4, <1>5
\* Bytes that are as many as were counted.
Sized(w, n) == w \in Seq(Byte) /\ Len(w) = n /\ n \in Nat

(* The sizes of fields add up. *)
LEMMA SizesAdd ==
    ASSUME NEW w, NEW n, NEW x, NEW k, Sized(w, n), Sized(x, k)
    PROVE  Sized(w \o x, n + k)
  <1>1. ASSUME NEW s \in Seq(Byte), NEW t \in Seq(Byte)
        PROVE  s \o t \in Seq(Byte) /\ Len(s \o t) = Len(s) + Len(t) /\ Len(s) + Len(t) \in Nat
    BY ConcatBytes
  <1>2. w \in Seq(Byte) /\ x \in Seq(Byte) /\ Len(w) = n /\ Len(x) = k  BY DEF Sized
  <1> QED  BY <1>1, <1>2 DEF Sized

LEMMA FourSizesAdd ==
    ASSUME NEW w, NEW n, Sized(w, n), NEW w1, NEW n1, Sized(w1, n1), NEW w2, NEW n2, Sized(w2, n2),
           NEW w3, NEW n3, Sized(w3, n3), NEW w4, NEW n4, Sized(w4, n4)
    PROVE  Sized(w \o w1 \o w2 \o w3 \o w4, n + n1 + n2 + n3 + n4)
  <1>1. Sized(w \o w1, n + n1)  BY SizesAdd
  <1>2. Sized(w \o w1 \o w2, n + n1 + n2)  BY ONLY <1>1, Sized(w2, n2), SizesAdd
  <1>3. Sized(w \o w1 \o w2 \o w3, n + n1 + n2 + n3)  BY ONLY <1>2, Sized(w3, n3), SizesAdd
  <1> QED  BY ONLY <1>3, Sized(w4, n4), SizesAdd

(* A buffer of the counted size is filled exactly. *)
LEMMA SizedFills ==
    ASSUME NEW w, NEW n, Sized(w, n)
    PROVE  FitsBuffer(n, w) /\ Filled(n, w) = w
  <1>1. w \in Seq(Byte) /\ Len(w) = n /\ n \in Nat  BY DEF Sized
  <1> DEFINE zeros == [i \in 1 .. n - Len(w) |-> 0]
  <1>2. zeros = <<>>
    <2>1. n - Len(w) = 0  BY <1>1
    <2>2. 1 .. n - Len(w) = {}  BY <2>1
    <2>3. zeros \in Seq(Byte) /\ Len(zeros) = 0  BY <2>1 DEF Byte
    <2> HIDE DEF zeros
    <2> QED  BY <2>3, EmptySeq
  <1>3. zeros \o w = w
    <2>1. <<>> \o w = w  BY <1>1, ConcatEmptySeq
    <2> QED  BY <1>2, <2>1
  <1>4. SubSeq(w, 1, Len(w)) = w  BY <1>1, SubSeqFull
  <1> QED  BY <1>1, <1>3, <1>4 DEF FitsBuffer, Filled

(* A list of one message. *)
LEMMA OneFlattened == ASSUME NEW x PROVE FlattenSeq(<<x>>) = x
  <1> DEFINE s == <<x>>
             F(f) == f = [i \in 1 .. 1 |-> IF i = 1 THEN s[i] ELSE f[i - 1] \o s[i]]
             g == [i \in 1 .. 1 |-> x]
  <1>1. Len(s) = 1 /\ s[1] = x  OBVIOUS
  <1>2. F(g)
    <2>1. \A i \in 1 .. 1 : i = 1  OBVIOUS
    <2> QED  BY <1>1, <2>1
  <1> DEFINE h == CHOOSE f : F(f)
  <1>3. F(h)  BY <1>2
  <1> HIDE DEF h
  <1>4. h[1] = x  BY <1>1, <1>3
  <1>5. FlattenSeq(s) = h[1]  BY <1>1 DEF FlattenSeq, h
  <1> QED  BY <1>4, <1>5

LEMMA OneListed ==
    ASSUME NEW tag, NEW c
    PROVE  ListField(tag, <<c>>, MarshalCoin) = Embedded(tag, MarshalCoin(c))
  <1> DEFINE s == <<c>>
             x == Embedded(tag, MarshalCoin(c))
             fields == [i \in DOMAIN s |-> Embedded(tag, MarshalCoin(s[i]))]
  <1>1. ListField(tag, s, MarshalCoin) = FlattenSeq(fields)  BY DEF ListField
  <1>2. fields = <<x>>
    <2>1. DOMAIN s = 1 .. 1 /\ s[1] = c /\ \A i \in 1 .. 1 : i = 1  OBVIOUS
    <2> HIDE DEF s, x
    <2>2. \A i \in DOMAIN s : Embedded(tag, MarshalCoin(s[i])) = x  BY <2>1 DEF x
    <2>3. fields = [i \in 1 .. 1 |-> x]  BY <2>1, <2>2
    <2>4. [i \in 1 .. 1 |-> x] = <<x>>  OBVIOUS
    <2> QED  BY <2>3, <2>4
  <1> HIDE DEF fields
  <1> QED  BY <1>1, <1>2, OneFlattened

LEMMA OneCounted == ASSUME NEW c PROVE ListSize(<<c>>, SizeCoin) = 0 + EmbeddedSize(SizeCoin(c))
  <1> DEFINE s == <<c>>
             size(i) == EmbeddedSize(SizeCoin(s[i]))
             pick(T) == CHOOSE x \in T : TRUE
             F(f) == f = [T \in SUBSET {1} |-> IF T = {} THEN 0
                                              ELSE LET x == pick(T) IN f[T \ {x}] + size(x)]
             g == [T \in SUBSET {1} |-> IF T = {} THEN 0 ELSE 0 + size(1)]
  <1>1. DOMAIN s = {1} /\ s[1] = c  OBVIOUS
  <1>2. \A T \in SUBSET {1} : T # {} => T = {1} /\ pick(T) = 1 /\ T \ {pick(T)} = {}
    OBVIOUS
  <1>3. {} \in SUBSET {1} /\ {1} \in SUBSET {1} /\ {1} # {}  OBVIOUS
  <1> HIDE DEF size, pick, s
  <1>4. F(g)
    <2>1. ASSUME NEW T \in SUBSET {1}
          PROVE  g[T] = IF T = {} THEN 0 ELSE LET x == pick(T) IN g[T \ {x}] + size(x)
      <3>1. CASE T = {}  BY <3>1
      <3>2. CASE T # {}
        <4>1. T = {1} /\ pick(T) = 1 /\ T \ {pick(T)} = {}  BY <1>2, <3>2
        <4>2. g[T \ {pick(T)}] = 0 /\ g[T] = 0 + size(1)  BY <1>3, <3>2, <4>1
        <4> QED  BY <3>2, <4>1, <4>2
      <3> QED  BY <3>1, <3>2
    <2> DEFINE body(T) == IF T = {} THEN 0 ELSE LET x == pick(T) IN g[T \ {x}] + size(x)
    <2>2. \A T \in SUBSET {1} : g[T] = body(T)  BY <2>1
    <2>3. g = [T \in SUBSET {1} |-> g[T]]  OBVIOUS
    <2> HIDE DEF g, body
    <2>4. g = [T \in SUBSET {1} |-> body(T)]  BY <2>2, <2>3
    <2> QED  BY <2>4 DEF body
  <1> DEFINE h == CHOOSE f : F(f)
  <1> HIDE DEF g
  <1>5. F(h)  BY <1>4
  <1>6. ListSize(s, SizeCoin) = h[{1}]
    BY <1>1 DEF ListSize, FoldSeq, FoldFunction, FoldFunctionOnSet, MapThenFoldSet, h, size, pick
  <1> HIDE DEF h
  <1>7. h[{1}] = h[{1} \ {pick({1})}] + size(pick({1}))  BY <1>3, <1>5
  <1>8. h[{}] = 0  BY <1>3, <1>5
  <1>9. h[{1}] = 0 + size(1)  BY <1>2, <1>3, <1>7, <1>8
  <1> QED  BY <1>1, <1>6, <1>9 DEF s, size

\* What the fields of a message hold in the program.
IsText(x)  == x \in Seq(Byte) /\ Len(x) <= MaxInt
IsInt64(v) == v \in (-1 - MaxInt) .. MaxInt
IsCoin(c)  == IsText(c.Denom) /\ IsText(c.Amount) /\ SizeCoin(c) <= MaxInt

LEMMA SizedFields ==
    ASSUME NEW tag \in 0 .. 127
    PROVE  /\ \A v : IsInt64(v) => Sized(VarintField(tag, v), VarintSize(v))
           /\ \A b \in BOOLEAN : Sized(BoolField(tag, b), BoolSize(b))
           /\ \A x : IsText(x) => Sized(BytesField(tag, x), BytesSize(x))
           /\ \A x : IsText(x) => Sized(Embedded(tag, x), EmbeddedSize(Len(x)))
  <1>1. ASSUME NEW w \in Seq(Byte), NEW n, Len(w) = n PROVE Sized(w, n)  BY <1>1 DEF Sized
  <1>2. ASSUME NEW v, IsInt64(v) PROVE Sized(VarintField(tag, v), VarintSize(v))
    BY <1>1, <1>2, FieldsSized DEF IsInt64
  <1>3. ASSUME NEW b \in BOOLEAN PROVE Sized(BoolField(tag, b), BoolSize(b))
    BY <1>1, FieldsSized
  <1>4. ASSUME NEW x, IsText(x)
        PROVE  Sized(BytesField(tag, x), BytesSize(x)) /\ Sized(Embedded(tag, x), EmbeddedSize(Len(x)))
    BY <1>1, <1>4, FieldsSized DEF IsText
  <1> QED  BY <1>2, <1>3, <1>4

(* A coin, and a list of one. *)
LEMMA OneCoinSized == ASSUME NEW c, IsCoin(c) PROVE Sized(MarshalCoin(c), SizeCoin(c))
  <1> DEFINE amount == MarshalInt(c.Amount)
  <1>1. IsText(amount)
    <2>1. <<48>> \in Seq(Byte) /\ Len(<<48>>) = 1  BY DEF Byte
    <2>2. 1 <= MaxInt
      <3>1. 255 <= MaxInt  BY ByteFits
      <3> QED  BY <3>1, WordHalves
    <2> QED  BY <2>1, <2>2 DEF MarshalInt, IsCoin, IsText
  <1>2. 10 \in 0 .. 127 /\ 18 \in 0 .. 127  OBVIOUS
  <1>3. Sized(BytesField(10, c.Denom), BytesSize(c.Denom))  BY <1>2, SizedFields DEF IsCoin
  <1>4. Sized(Embedded(18, amount), EmbeddedSize(Len(amount)))
    <2> HIDE DEF amount
    <2> QED  BY <1>1, <1>2, SizedFields
  <1>5. Sized(BytesField(10, c.Denom) \o Embedded(18, amount),
              BytesSize(c.Denom) + EmbeddedSize(Len(amount)))
    BY ONLY <1>3, <1>4, SizesAdd
  <1> QED  BY <1>5 DEF MarshalCoin, SizeCoin

LEMMA CoinSized ==
    ASSUME NEW tag \in 0 .. 127, NEW c, IsCoin(c)
    PROVE  Sized(ListField(tag, <<c>>, MarshalCoin), ListSize(<<c>>, SizeCoin))
  <1> DEFINE coin == MarshalCoin(c)
             s    == <<c>>
  <1>2. Sized(coin, SizeCoin(c))  BY OneCoinSized
  <1> HIDE DEF coin
  <1>3. IsText(coin) /\ Len(coin) = SizeCoin(c)  BY <1>2 DEF Sized, IsText, IsCoin
  <1>4. Sized(Embedded(tag, coin), EmbeddedSize(Len(coin)))  BY <1>3, SizedFields
  <1>5. ListField(tag, s, MarshalCoin) = Embedded(tag, coin)  BY OneListed DEF s, coin
  <1>6. ListSize(s, SizeCoin) = EmbeddedSize(Len(coin))
    <2>1. EmbeddedSize(Len(coin)) \in Nat  BY <1>4 DEF Sized
    <2> DEFINE n == EmbeddedSize(Len(coin))
    <2>2. ListSize(<<c>>, SizeCoin) = 0 + EmbeddedSize(SizeCoin(c))  BY OneCounted
    <2>3. ListSize(s, SizeCoin) = 0 + n  BY <1>3, <2>2
    <2> HIDE DEF n, s
    <2>4. 0 + n = n  BY <2>1 DEF n
    <2> QED  BY <2>3, <2>4 DEF n
  <1> QED  BY <1>4, <1>5, <1>6 DEF s
\* A swap, and the messages of the three transactions, as the program has them:
\* strings and bytes that an int can count, and one coin.
IsAtomicSwap(m) ==
    /\ \E c : IsCoin(c) /\ m.Amount = <<c>>
    /\ IsText(m.RandomNumberHash) /\ IsText(m.Sender) /\ IsText(m.Recipient)
    /\ IsText(m.SenderOtherChain) /\ IsText(m.RecipientOtherChain)
    /\ IsInt64(m.ExpireTimestamp) /\ IsInt64(m.Timestamp) /\ IsInt64(m.ClosedBlock)
    /\ IsInt64(m.Status) /\ IsInt64(m.Direction) /\ m.CrossChain \in BOOLEAN

IsMsgCreate(m) ==
    /\ \E c : IsCoin(c) /\ m.Amount = <<c>>
    /\ IsText(m.From) /\ IsText(m.To) /\ IsText(m.RecipientOtherChain)
    /\ IsText(m.SenderOtherChain) /\ IsText(m.RandomNumberHash)
    /\ IsInt64(m.Timestamp) /\ IsInt64(m.TimeSpanMin)

(* A swap of one coin, which is what a message stores, fills the buffer of  *)
(* its Size exactly, so SetAtomicSwap's MustMarshal never writes outside it *)
(* and returns every byte it wrote.                                         *)
THEOREM SwapsFillBuffers ==
    ASSUME NEW m, IsAtomicSwap(m)
    PROVE  /\ Len(MarshalAtomicSwap(m)) = SizeAtomicSwap(m)
           /\ FitsBuffer(SizeAtomicSwap(m), MarshalAtomicSwap(m))
           /\ Filled(SizeAtomicSwap(m), MarshalAtomicSwap(m)) = MarshalAtomicSwap(m)
  <1>1. PICK c : IsCoin(c) /\ m.Amount = <<c>>  BY DEF IsAtomicSwap
  <1>2. \A tag \in {10, 18, 24, 32, 42, 50, 58, 66, 72, 80, 88, 96} : tag \in 0 .. 127  OBVIOUS
  <1>3. Sized(ListField(10, m.Amount, MarshalCoin), ListSize(m.Amount, SizeCoin))
    BY <1>1, <1>2, CoinSized
  <1>4. /\ Sized(BytesField(18, m.RandomNumberHash), BytesSize(m.RandomNumberHash))
        /\ Sized(BytesField(42, m.Sender), BytesSize(m.Sender))
        /\ Sized(BytesField(50, m.Recipient), BytesSize(m.Recipient))
        /\ Sized(BytesField(58, m.SenderOtherChain), BytesSize(m.SenderOtherChain))
        /\ Sized(BytesField(66, m.RecipientOtherChain), BytesSize(m.RecipientOtherChain))
    BY <1>2, SizedFields DEF IsAtomicSwap
  <1>5. /\ Sized(VarintField(24, m.ExpireTimestamp), VarintSize(m.ExpireTimestamp))
        /\ Sized(VarintField(32, m.Timestamp), VarintSize(m.Timestamp))
        /\ Sized(VarintField(72, m.ClosedBlock), VarintSize(m.ClosedBlock))
        /\ Sized(VarintField(80, m.Status), VarintSize(m.Status))
        /\ Sized(VarintField(96, m.Direction), VarintSize(m.Direction))
    BY <1>2, SizedFields DEF IsAtomicSwap
  <1>6. Sized(BoolField(88, m.CrossChain), BoolSize(m.CrossChain))
    BY <1>2, SizedFields DEF IsAtomicSwap
  <1> DEFINE first  == ListField(10, m.Amount, MarshalCoin) \o BytesField(18, m.RandomNumberHash)
                         \o VarintField(24, m.ExpireTimestamp) \o VarintField(32, m.Timestamp)
                         \o BytesField(42, m.Sender)
             firstN == ListSize(m.Amount, SizeCoin) + BytesSize(m.RandomNumberHash)
                         + VarintSize(m.ExpireTimestamp) + VarintSize(m.Timestamp)
                         + BytesSize(m.Sender)
             next   == first \o BytesField(50, m.Recipient) \o BytesField(58, m.SenderOtherChain)
                         \o BytesField(66, m.RecipientOtherChain) \o VarintField(72, m.ClosedBlock)
             nextN  == firstN + BytesSize(m.Recipient) + BytesSize(m.SenderOtherChain)
                         + BytesSize(m.RecipientOtherChain) + VarintSize(m.ClosedBlock)
  <1>7. Sized(first, firstN)  BY ONLY <1>3, <1>4, <1>5, FourSizesAdd
  <1> HIDE DEF first, firstN
  <1>8. Sized(next, nextN)  BY ONLY <1>4, <1>5, <1>7, FourSizesAdd
  <1> HIDE DEF next, nextN
  <1>9. Sized(next \o VarintField(80, m.Status) \o BoolField(88, m.CrossChain)
                \o VarintField(96, m.Direction),
              nextN + VarintSize(m.Status) + BoolSize(m.CrossChain) + VarintSize(m.Direction))
    <2>1. Sized(next \o VarintField(80, m.Status), nextN + VarintSize(m.Status))
      BY ONLY <1>5, <1>8, SizesAdd
    <2>2. Sized(next \o VarintField(80, m.Status) \o BoolField(88, m.CrossChain),
                nextN + VarintSize(m.Status) + BoolSize(m.CrossChain))
      BY ONLY <1>6, <2>1, SizesAdd
    <2> QED  BY ONLY <1>5, <2>2, SizesAdd
  <1>10. Sized(MarshalAtomicSwap(m), SizeAtomicSwap(m))
    BY <1>9 DEF MarshalAtomicSwap, SizeAtomicSwap, next, nextN, first, firstN
  <1>11. Len(MarshalAtomicSwap(m)) = SizeAtomicSwap(m)  BY <1>10 DEF Sized
  <1> QED  BY <1>10, <1>11, SizedFills

(* The same of the messages that create, claim and refund a swap: no client *)
(* that has built one panics when it sends it.                             *)
THEOREM TransactionsFillBuffers ==
    /\ \A m : IsMsgCreate(m) =>
          Filled(SizeMsgCreateAtomicSwap(m), MarshalMsgCreateAtomicSwap(m)) = MarshalMsgCreateAtomicSwap(m)
          /\ FitsBuffer(SizeMsgCreateAtomicSwap(m), MarshalMsgCreateAtomicSwap(m))
    /\ \A m : IsText(m.From) /\ IsText(m.SwapID) /\ IsText(m.RandomNumber) =>
          Filled(SizeMsgClaimAtomicSwap(m), MarshalMsgClaimAtomicSwap(m)) = MarshalMsgClaimAtomicSwap(m)
          /\ FitsBuffer(SizeMsgClaimAtomicSwap(m), MarshalMsgClaimAtomicSwap(m))
    /\ \A m : IsText(m.From) /\ IsText(m.SwapID) =>
          Filled(SizeMsgRefundAtomicSwap(m), MarshalMsgRefundAtomicSwap(m)) = MarshalMsgRefundAtomicSwap(m)
          /\ FitsBuffer(SizeMsgRefundAtomicSwap(m), MarshalMsgRefundAtomicSwap(m))
  <1>1. \A tag \in {10, 18, 26, 34, 42, 48, 58, 64} : tag \in 0 .. 127  OBVIOUS
  <1>2. ASSUME NEW m, IsMsgCreate(m)
        PROVE  Sized(MarshalMsgCreateAtomicSwap(m), SizeMsgCreateAtomicSwap(m))
    <2>1. PICK c : IsCoin(c) /\ m.Amount = <<c>>  BY <1>2 DEF IsMsgCreate
    <2>2. Sized(ListField(58, m.Amount, MarshalCoin), ListSize(m.Amount, SizeCoin))
      BY <1>1, <2>1, CoinSized
    <2>3. /\ Sized(BytesField(10, m.From), BytesSize(m.From))
          /\ Sized(BytesField(18, m.To), BytesSize(m.To))
          /\ Sized(BytesField(26, m.RecipientOtherChain), BytesSize(m.RecipientOtherChain))
          /\ Sized(BytesField(34, m.SenderOtherChain), BytesSize(m.SenderOtherChain))
          /\ Sized(BytesField(42, m.RandomNumberHash), BytesSize(m.RandomNumberHash))
      BY <1>1, <1>2, SizedFields DEF IsMsgCreate
    <2>4. /\ Sized(VarintField(48, m.Timestamp), VarintSize(m.Timestamp))
          /\ Sized(VarintField(64, m.TimeSpanMin), VarintSize(m.TimeSpanMin))
      BY <1>1, <1>2, SizedFields DEF IsMsgCreate
    <2> DEFINE first  == BytesField(10, m.From) \o BytesField(18, m.To)
                           \o BytesField(26, m.RecipientOtherChain)
                           \o BytesField(34, m.SenderOtherChain) \o BytesField(42, m.RandomNumberHash)
               firstN == BytesSize(m.From) + BytesSize(m.To) + BytesSize(m.RecipientOtherChain)
                           + BytesSize(m.SenderOtherChain) + BytesSize(m.RandomNumberHash)
    <2>5. Sized(first, firstN)  BY ONLY <2>3, FourSizesAdd
    <2> HIDE DEF first, firstN
    <2>6. Sized(first \o VarintField(48, m.Timestamp), firstN + VarintSize(m.Timestamp))
      BY ONLY <2>4, <2>5, SizesAdd
    <2>7. Sized(first \o VarintField(48, m.Timestamp) \o ListField(58, m.Amount, MarshalCoin),
                firstN + VarintSize(m.Timestamp) + ListSize(m.Amount, SizeCoin))
      BY ONLY <2>2, <2>6, SizesAdd
    <2>8. Sized(first \o VarintField(48, m.Timestamp) \o ListField(58, m.Amount, MarshalCoin)
                  \o VarintField(64, m.TimeSpanMin),
                firstN + VarintSize(m.Timestamp) + ListSize(m.Amount, SizeCoin)
                  + VarintSize(m.TimeSpanMin))
      BY ONLY <2>4, <2>7, SizesAdd
    <2> QED  BY <2>8 DEF MarshalMsgCreateAtomicSwap, SizeMsgCreateAtomicSwap, first, firstN
  <1>3. ASSUME NEW m, IsText(m.From), IsText(m.SwapID)
        PROVE  /\ Sized(BytesField(10, m.From) \o BytesField(18, m.SwapID),
                        BytesSize(m.From) + BytesSize(m.SwapID))
               /\ IsText(m.RandomNumber) => Sized(MarshalMsgClaimAtomicSwap(m), SizeMsgClaimAtomicSwap(m))
    <2>1. Sized(BytesField(10, m.From), BytesSize(m.From))
          /\ Sized(BytesField(18, m.SwapID), BytesSize(m.SwapID))
      BY <1>1, <1>3, SizedFields
    <2>2. Sized(BytesField(10, m.From) \o BytesField(18, m.SwapID),
                BytesSize(m.From) + BytesSize(m.SwapID))
      BY ONLY <2>1, SizesAdd
    <2>3. ASSUME IsText(m.RandomNumber)
          PROVE  Sized(MarshalMsgClaimAtomicSwap(m), SizeMsgClaimAtomicSwap(m))
      <3>1. Sized(BytesField(26, m.RandomNumber), BytesSize(m.RandomNumber))
        BY <1>1, <2>3, SizedFields
      <3>2. Sized(BytesField(10, m.From) \o BytesField(18, m.SwapID) \o BytesField(26, m.RandomNumber),
                  BytesSize(m.From) + BytesSize(m.SwapID) + BytesSize(m.RandomNumber))
        BY ONLY <2>2, <3>1, SizesAdd
      <3> QED  BY <3>2 DEF MarshalMsgClaimAtomicSwap, SizeMsgClaimAtomicSwap
    <2> QED  BY <2>2, <2>3
  <1>4. ASSUME NEW m, IsText(m.From), IsText(m.SwapID)
        PROVE  Sized(MarshalMsgRefundAtomicSwap(m), SizeMsgRefundAtomicSwap(m))
    BY <1>3, <1>4 DEF MarshalMsgRefundAtomicSwap, SizeMsgRefundAtomicSwap
  <1>5. ASSUME NEW m, IsMsgCreate(m)
        PROVE  Filled(SizeMsgCreateAtomicSwap(m), MarshalMsgCreateAtomicSwap(m)) = MarshalMsgCreateAtomicSwap(m)
               /\ FitsBuffer(SizeMsgCreateAtomicSwap(m), MarshalMsgCreateAtomicSwap(m))
    BY <1>2, <1>5, SizedFills
  <1>6. ASSUME NEW m, IsText(m.From), IsText(m.SwapID), IsText(m.RandomNumber)
        PROVE  Filled(SizeMsgClaimAtomicSwap(m), MarshalMsgClaimAtomicSwap(m)) = MarshalMsgClaimAtomicSwap(m)
               /\ FitsBuffer(SizeMsgClaimAtomicSwap(m), MarshalMsgClaimAtomicSwap(m))
    BY <1>3, <1>6, SizedFills
  <1>7. ASSUME NEW m, IsText(m.From), IsText(m.SwapID)
        PROVE  Filled(SizeMsgRefundAtomicSwap(m), MarshalMsgRefundAtomicSwap(m)) = MarshalMsgRefundAtomicSwap(m)
               /\ FitsBuffer(SizeMsgRefundAtomicSwap(m), MarshalMsgRefundAtomicSwap(m))
    BY <1>4, <1>7, SizedFills
  <1> QED  BY <1>5, <1>6, <1>7
-------------------------------------------------------------------------------
(* Whole messages.                                                         *)

\* A reader that has not failed.
ReaderOf(i, m) == [ok |-> TRUE, iNdEx |-> i, m |-> m]

\* The loop of Unmarshal takes a reader of d from r to s: s is in every set that
\* has r and with each reader what a pass makes of it.
Reads(c, d, r, s) ==
    \A R : /\ r \in R
           /\ \A q \in R : q.ok /\ q.iNdEx < Len(d) => ReadField(c, d, q) \in R
           => s \in R

\* A pass over the bytes w, wherever they are, puts the value into a field that
\* holds nothing yet.
Arrives(c, k, value, w) ==
    /\ w # <<>>
    /\ \A before \in Seq(Byte), after \in Seq(Byte) : \A m :
          Len(Within(before, w, after)) <= MaxInt /\ m[c[k].name] = c[k].zero =>
             ReadField(c, Within(before, w, after), ReaderOf(Len(before), m))
               = ReaderOf(Len(before) + Len(w), [m EXCEPT ![c[k].name] = value])

LEMMA ReadsPass ==
    ASSUME NEW c, NEW d, NEW r, NEW q, Reads(c, d, r, q), q.ok = TRUE, q.iNdEx < Len(d)
    PROVE  Reads(c, d, r, ReadField(c, d, q))
  <1> SUFFICES ASSUME NEW R, r \in R,
                      \A x \in R : x.ok /\ x.iNdEx < Len(d) => ReadField(c, d, x) \in R
               PROVE  ReadField(c, d, q) \in R
    BY DEF Reads
  <1>1. q \in R  BY DEF Reads
  <1> QED  BY <1>1

\* A message as its first j fields are read.
Partial(c, n, ix, m, j) ==
    [x \in {c[i].name : i \in 1 .. n} |-> IF ix[x] <= j THEN m[x] ELSE c[ix[x]].zero]

\* Of a message with n fields, w[j] is what is written for the j-th and b[j] for
\* the first j.
Written(n, w, b) ==
    /\ b[0] = <<>>
    /\ \A j \in 0 .. n : b[j] \in Seq(Byte)
    /\ \A j \in 1 .. n : w[j] \in Seq(Byte) /\ b[j] = b[j - 1] \o w[j]

\* The first fields of a message are what the whole of it begins with.
Extends(n, b) == \A j \in 0 .. n : \E a \in Seq(Byte) : b[n] = b[j] \o a

(* There are bytes behind the first fields of a message, or none. *)
LEMMA FieldsBehind ==
    ASSUME NEW n \in Nat, NEW w, NEW b, Written(n, w, b)
    PROVE  Extends(n, b)
  <1> DEFINE d == b[n]
  <1>0. /\ d \in Seq(Byte) /\ \A j \in 0 .. n : b[j] \in Seq(Byte)
        /\ \A j \in 1 .. n : w[j] \in Seq(Byte) /\ b[j] = b[j - 1] \o w[j]
    <2>1. n \in 0 .. n  OBVIOUS
    <2>2. \A j \in 0 .. n : b[j] \in Seq(Byte)  BY DEF Written
    <2>3. \A j \in 1 .. n : w[j] \in Seq(Byte) /\ b[j] = b[j - 1] \o w[j]  BY DEF Written
    <2> QED  BY <2>1, <2>2, <2>3
  <1> DEFINE Cut(j) == \E a \in Seq(Byte) : b[n] = b[j] \o a
             Bad == {i \in 0 .. n : ~ Cut(n - i)}
  <1>1. SUFFICES ASSUME Bad # {} PROVE FALSE
    <2> SUFFICES ASSUME NEW j \in 0 .. n, ~ Cut(j) PROVE Bad # {}  BY DEF Extends
    <2>1. n - j \in 0 .. n /\ n - (n - j) = j  OBVIOUS
    <2> HIDE DEF Cut
    <2>2. n - j \in Bad  BY <2>1
    <2> QED  BY <2>2
  <1>2. PICK k \in Bad : \A i \in Bad : k <= i
    <2>1. Bad \subseteq 0 .. n  OBVIOUS
    <2> HIDE DEF Bad
    <2> QED  BY <1>1, <2>1, SmallestNumber
  <1>3. k \in 0 .. n /\ ~ Cut(n - k)  OBVIOUS
  <1>4. k # 0
    <2>1. d = b[n] \o <<>>  BY <1>0, ConcatEmptySeq
    <2>2. <<>> \in Seq(Byte) /\ n - 0 = n  OBVIOUS
    <2> QED  BY <1>3, <2>1, <2>2
  <1>5. k - 1 \in 0 .. n /\ ~ (k <= k - 1)  BY <1>3, <1>4
  <1>6. Cut(n - (k - 1))
    <2> HIDE DEF Cut
    <2> QED  BY <1>2, <1>5
  <1> DEFINE j == n - (k - 1)
  <1>7. j \in 1 .. n /\ j - 1 = n - k /\ j - 1 \in 0 .. n  BY <1>3, <1>4
  <1>8. PICK a \in Seq(Byte) : d = b[j] \o a  BY <1>6
  <1> HIDE DEF j
  <1>9. w[j] \in Seq(Byte) /\ b[j - 1] \in Seq(Byte) /\ b[j] = b[j - 1] \o w[j]  BY <1>0, <1>7
  <1>10. d = b[j - 1] \o (w[j] \o a) /\ w[j] \o a \in Seq(Byte)
    <2>1. ASSUME NEW x \in Seq(Byte), NEW y \in Seq(Byte)
          PROVE  (x \o y) \o a = x \o (y \o a) /\ y \o a \in Seq(Byte)
      BY ConcatBytes
    <2> DEFINE x == b[j - 1]
               y == w[j]
    <2>2. x \in Seq(Byte) /\ y \in Seq(Byte) /\ d = (x \o y) \o a  BY <1>8, <1>9
    <2> HIDE DEF x, y
    <2>3. d = x \o (y \o a) /\ y \o a \in Seq(Byte)  BY <2>1, <2>2
    <2> QED  BY <2>3 DEF x, y
  <1> QED  BY <1>3, <1>7, <1>10

(* A message of any type, of any number of fields, is read field by field to *)
(* its end and is what it was, if each of its fields is nothing, for a value *)
(* that a new message has, or bytes that arrive.                             *)
THEOREM FieldByField ==
    ASSUME NEW n \in Nat, NEW c, DOMAIN c = 1 .. n,
           NEW ix, \A i \in 1 .. n : ix[c[i].name] = i,
           NEW m, m = [x \in {c[i].name : i \in 1 .. n} |-> m[x]],
           NEW w, NEW b, Written(n, w, b), NEW d \in Seq(Byte), d = b[n], Len(d) <= MaxInt,
           \A k \in 1 .. n : \/ w[k] = <<>> /\ m[c[k].name] = c[k].zero
                             \/ Arrives(c, k, m[c[k].name], w[k])
    PROVE  Reads(c, d, ReaderOf(0, New(c)), ReaderOf(Len(d), m))
  <1>0. \A j \in 0 .. n : \E a \in Seq(Byte) : d = b[j] \o a
    <2>1. Extends(n, b)  BY ONLY n \in Nat, Written(n, w, b), FieldsBehind
    <2> QED  BY <2>1 DEF Extends
  <1> DEFINE start == ReaderOf(0, New(c))
             At(j) == ReaderOf(Len(b[j]), Partial(c, n, ix, m, j))
             Names == {c[i].name : i \in 1 .. n}
             Bad   == {j \in 0 .. n : ~ Reads(c, d, start, At(j))}
  <1>1. \A x \in Names : ix[x] \in 1 .. n /\ c[ix[x]].name = x  OBVIOUS
  <1>2. Partial(c, n, ix, m, 0) = New(c)
    <2>1. ASSUME NEW x \in Names PROVE (CHOOSE i \in 1 .. n : c[i].name = x) = ix[x]
      <3>1. \A i \in 1 .. n : c[i].name = x => i = ix[x]  OBVIOUS
      <3> QED  BY <1>1, <3>1
    <2>2. New(c) = [x \in Names |-> c[CHOOSE i \in 1 .. n : c[i].name = x].zero]  BY DEF New
    <2>3. New(c) = [x \in Names |-> c[ix[x]].zero]  BY <2>1, <2>2
    <2>4. \A x \in Names : ~ (ix[x] <= 0)  BY <1>1
    <2> QED  BY <2>3, <2>4 DEF Partial
  <1>3. Partial(c, n, ix, m, n) = m
    <2>1. \A x \in Names : ix[x] <= n  BY <1>1
    <2> QED  BY <2>1 DEF Partial
  <1>4. SUFFICES ASSUME Bad # {} PROVE FALSE
    <2>1. Reads(c, d, start, At(n)) => Reads(c, d, start, ReaderOf(Len(d), m))
      BY <1>3
    <2>2. n \in 0 .. n  OBVIOUS
    <2> HIDE DEF start, At
    <2>3. Bad = {} => Reads(c, d, start, At(n))  BY <2>2
    <2> QED  BY <2>1, <2>3 DEF start
  <1>5. PICK k \in Bad : \A i \in Bad : k <= i
    <2>1. Bad \subseteq 0 .. n  OBVIOUS
    <2> HIDE DEF Bad
    <2> QED  BY <1>4, <2>1, SmallestNumber
  <1>6. k \in 0 .. n /\ ~ Reads(c, d, start, At(k))  OBVIOUS
  <1>7. k # 0
    <2>1. At(0) = start  BY <1>2 DEF Written
    <2>2. Reads(c, d, start, start)  BY DEF Reads
    <2> HIDE DEF At, start
    <2> QED  BY <1>6, <2>1, <2>2
  <1> DEFINE j == k - 1
  <1>8. j \in 0 .. n /\ k \in 1 .. n /\ ~ (k <= j)  BY <1>6, <1>7
  <1>9. Reads(c, d, start, At(j))
    <2> HIDE DEF At, start, j
    <2> QED  BY <1>5, <1>8
  <1> DEFINE old   == Partial(c, n, ix, m, j)
             value == m[c[k].name]
  <1>10. old[c[k].name] = c[k].zero
    <2>1. c[k].name \in Names /\ ix[c[k].name] = k  BY <1>8
    <2> QED  BY <1>8, <2>1 DEF Partial
  <1>11. Partial(c, n, ix, m, k) = [old EXCEPT ![c[k].name] = value]
    <2>1. ASSUME NEW x \in Names, x # c[k].name PROVE ix[x] <= k <=> ix[x] <= j
      <3>1. ix[x] # k  BY <1>1, <2>1
      <3> QED  BY <1>1, <1>8, <3>1
    <2>2. c[k].name \in Names /\ ix[c[k].name] <= k  BY <1>8
    <2> DEFINE new == Partial(c, n, ix, m, k)
    <2>3. \A x \in Names : new[x] = IF x = c[k].name THEN value ELSE old[x]
      BY <2>1, <2>2 DEF Partial
    <2>4. new = [x \in Names |-> new[x]] /\ old = [x \in Names |-> old[x]]  BY DEF Partial
    <2> HIDE DEF new, old, value, Names
    <2>5. new = [old EXCEPT ![c[k].name] = value]  BY <2>2, <2>3, <2>4
    <2> QED  BY <2>5 DEF new
  <1>12. b[j] \in Seq(Byte) /\ w[k] \in Seq(Byte) /\ b[k] = b[j] \o w[k]  BY <1>8 DEF Written
  <1>13. CASE w[k] = <<>> /\ value = c[k].zero
    <2>1. b[k] = b[j]  BY <1>12, <1>13, ConcatEmptySeq
    <2>2. [old EXCEPT ![c[k].name] = value] = old
      <3>1. old = [x \in Names |-> old[x]]  BY DEF Partial
      <3> HIDE DEF old, value
      <3> QED  BY <1>10, <1>13, <3>1
    <2>3. At(k) = At(j)  BY <1>11, <2>1, <2>2
    <2> HIDE DEF At, start, j
    <2> QED  BY <1>6, <1>9, <2>3
  <1>14. CASE Arrives(c, k, value, w[k])
    <2>1. PICK a \in Seq(Byte) : d = b[k] \o a  BY <1>0, <1>8
    <2>2. d = Within(b[j], w[k], a)  BY <1>12, <2>1 DEF Within
    <2>3. w[k] # <<>>  BY <1>14 DEF Arrives
    <2>4. Len(w[k]) \in Nat \ {0} /\ Len(b[j]) \in Nat /\ Len(a) \in Nat  BY <1>12, <2>3, EmptySeq
    <2>5. Len(b[k]) = Len(b[j]) + Len(w[k]) /\ Len(d) = Len(b[k]) + Len(a)
      BY <1>8, <1>12, <2>1, ConcatBytes
    <2>6. Len(b[j]) < Len(d)
      <3> DEFINE x == Len(b[j])
                 y == Len(w[k])
                 z == Len(a)
      <3>1. x \in Nat /\ y \in Nat \ {0} /\ z \in Nat  BY <2>4
      <3>2. Len(d) = (x + y) + z  BY <2>5
      <3> HIDE DEF x, y, z
      <3>3. x < (x + y) + z  BY ONLY <3>1
      <3> QED  BY ONLY <3>2, <3>3 DEF x
    <2>7. ReadField(c, d, At(j)) = At(k)
      <3>1. Len(Within(b[j], w[k], a)) <= MaxInt  BY <2>2
      <3>2. ReadField(c, Within(b[j], w[k], a), ReaderOf(Len(b[j]), old))
              = ReaderOf(Len(b[j]) + Len(w[k]), [old EXCEPT ![c[k].name] = value])
        <4> HIDE DEF j, old, value
        <4>1. b[j] \in Seq(Byte) /\ a \in Seq(Byte)  BY <1>12
        <4> QED  BY ONLY <1>10, <1>14, <3>1, <4>1 DEF Arrives
      <3> QED  BY <1>11, <2>2, <2>5, <3>2
    <2>8. At(j).ok = TRUE /\ At(j).iNdEx < Len(d)  BY <2>6 DEF ReaderOf
    <2> HIDE DEF At, start, j
    <2>9. Reads(c, d, start, ReadField(c, d, At(j)))  BY <1>9, <2>8, ReadsPass
    <2> QED  BY <1>6, <2>7, <2>9
  <1> QED  BY <1>8, <1>13, <1>14
\* A field that is nothing, for a value that a new message has, or bytes that arrive.
Delivers(c, k, value, w) ==
    w \in Seq(Byte) /\ ((w = <<>> /\ value = c[k].zero) \/ Arrives(c, k, value, w))

\* The k-th case is f, and its tag has wire type wire.
HasCase(c, tag, k, wire, f) ==
    k \in DOMAIN c /\ k \in 1 .. 15 /\ c[k] = f /\ tag = 8 * k + wire

(* The number of a field is read from its tag. *)
LEMMA FieldNumber == \A tag \in 0 .. 127 : FieldOf(tag) = tag \div 8
  <1> SUFFICES ASSUME NEW tag \in 0 .. 127 PROVE FieldOf(tag) = tag \div 8  OBVIOUS
  <1> DEFINE x == tag \div 8
  <1>1. x \in 0 .. 15  OBVIOUS
  <1> HIDE DEF x
  <1>2. Pow2[8] = 256  BY Pow2OfByte
  <1>3. 8 \in 0 .. WordBits /\ Int32Bits - 1 \in 8 .. WordBits /\ Int32Bits \in 1 .. WordBits
    BY WidthAssumption
  <1> DEFINE h == Pow2[Int32Bits - 1]
             p == Pow2[Int32Bits]
  <1>4. 256 <= h /\ h \in Nat  BY <1>2, <1>3, Pow2Grows, Pow2Positive
  <1>5. p = 2 * h  BY <1>3, Pow2Doubles
  <1> HIDE DEF h, p
  <1>6. x % p = x /\ x < h  BY <1>1, <1>4, <1>5
  <1>7. Signed(x, Int32Bits) = x  BY <1>6 DEF Signed, h, p
  <1> QED  BY <1>7 DEF FieldOf, x

(* The case of a field is known by its tag. *)
LEMMA CaseKnown ==
    ASSUME NEW c, NEW tag, NEW k, NEW wire \in {0, 2}, NEW f, HasCase(c, tag, k, wire, f)
    PROVE  tag \in 0 .. 127 /\ FieldOf(tag) = k /\ WireOf(tag) = wire /\ Knows(c, tag)
  <1>1. k \in 1 .. 15 /\ tag = 8 * k + wire /\ k \in DOMAIN c  BY DEF HasCase
  <1>2. tag \in 0 .. 127 /\ tag \div 8 = k /\ tag % 8 = wire  BY <1>1
  <1>3. FieldOf(tag) = k /\ WireOf(tag) = wire  BY <1>2, FieldNumber DEF WireOf
  <1> QED  BY <1>1, <1>2, <1>3 DEF Knows

LEMMA OperandDelivered ==
    ASSUME NEW tag \in 0 .. 127, NEW c, Knows(c, tag), NEW value, NEW operand \in Seq(Byte),
           Carries(WireOf(tag), c[FieldOf(tag)], c[FieldOf(tag)].zero, value, operand)
    PROVE  Arrives(c, FieldOf(tag), value, Tagged(tag, operand))
           /\ Tagged(tag, operand) \in Seq(Byte)
  <1> DEFINE k == FieldOf(tag)
             w == Tagged(tag, operand)
             b == <<tag>>
  <1>1. b \in Seq(Byte) /\ Len(b) = 1 /\ w = b \o operand  BY DEF Byte, Tagged
  <1> HIDE DEF b, w
  <1>c. ASSUME NEW x \in Seq(Byte), NEW y \in Seq(Byte)
        PROVE  x \o y \in Seq(Byte) /\ Len(x \o y) = Len(x) + Len(y)
    BY ConcatBytes
  <1>2. w \in Seq(Byte) /\ Len(w) = 1 + Len(operand) /\ Len(operand) \in Nat
    <2>1. b \o operand \in Seq(Byte) /\ Len(b \o operand) = Len(b) + Len(operand)  BY <1>1, <1>c
    <2>2. Len(operand) \in Nat  OBVIOUS
    <2> QED  BY <1>1, <2>1, <2>2
  <1>3. w # <<>>  BY <1>2, EmptySeq
  <1> HIDE DEF k
  <1>4. ASSUME NEW before \in Seq(Byte), NEW after \in Seq(Byte), NEW m,
               Len(Within(before, w, after)) <= MaxInt, m[c[k].name] = c[k].zero
        PROVE  ReadField(c, Within(before, w, after), ReaderOf(Len(before), m))
                 = ReaderOf(Len(before) + Len(w), [m EXCEPT ![c[k].name] = value])
    <2> DEFINE d == Within(before, w, after)
               r == ReaderOf(Len(before), m)
    <2>1. d \in Seq(Byte) /\ Len(before) \in 0 .. Len(d)
      <3>1. Within(before, w, after) \in Seq(Byte)
              /\ Len(Within(before, w, after)) = Len(before) + Len(w) + Len(after)
        <4>1. before \o w \in Seq(Byte) /\ Len(before \o w) = Len(before) + Len(w)
          BY <1>2, <1>c
        <4> DEFINE x == before \o w
        <4>2. x \in Seq(Byte) /\ Len(x) = Len(before) + Len(w)  BY <4>1
        <4> HIDE DEF x
        <4>3. x \o after \in Seq(Byte) /\ Len(x \o after) = Len(x) + Len(after)  BY <4>2, <1>c
        <4> QED  BY <4>2, <4>3 DEF Within, x
      <3>2. Len(before) \in Nat /\ Len(after) \in Nat /\ Len(w) \in Nat  BY <1>2
      <3> QED  BY <3>1, <3>2
    <2>2. r = [ok |-> r.ok, iNdEx |-> r.iNdEx, m |-> r.m] /\ r.iNdEx = Len(before) /\ r.m = m
      BY DEF ReaderOf
    <2> DEFINE f == c[k]
    <2>3. ReaderAt(r, d)  BY <2>1, <2>2 DEF ReaderAt
    <2>4. Carries(WireOf(tag), f, r.m[f.name], value, operand)  BY <1>4, <2>2 DEF k
    <2>5. f = c[FieldOf(tag)] /\ d = Within(before, w, after) /\ Len(d) <= MaxInt
            /\ w = Tagged(tag, operand)
      BY <1>4 DEF k, w
    <2> HIDE DEF r, d, f
    <2>6. Puts(c, d, r, Len(before) + Len(w), f.name, value)
      BY <2>2, <2>3, <2>4, <2>5, OperandArrives
    <2> QED  BY <2>2, <2>6 DEF Puts, ReaderOf, d, f, r
  <1>5. Arrives(c, k, value, w)  BY <1>3, <1>4 DEF Arrives
  <1> QED  BY <1>2, <1>5 DEF k, w

(* A field that a Marshal writes arrives in a message that is new. *)
LEMMA WrittenDelivered ==
    ASSUME NEW c, NEW tag, NEW k, NEW wire \in {0, 2}, NEW f, HasCase(c, tag, k, wire, f),
           NEW value, NEW field, IsWritten(f, tag, value, field)
    PROVE  Delivers(c, k, value, field)
  <1>1. tag \in 0 .. 127 /\ FieldOf(tag) = k /\ WireOf(tag) = wire /\ Knows(c, tag)
    BY CaseKnown
  <1>2. c[k] = f  BY DEF HasCase
  <1> DEFINE old == f.zero
  <1>3. PICK operand \in Seq(Byte) :
              field = Tagged(tag, operand) /\ Carries(WireOf(tag), f, old, value, operand)
    <2> HIDE DEF old
    <2> QED  BY <1>1, FieldOperand
  <1>4. Arrives(c, FieldOf(tag), value, Tagged(tag, operand))
          /\ Tagged(tag, operand) \in Seq(Byte)
    BY <1>1, <1>2, <1>3, OperandDelivered
  <1> QED  BY <1>1, <1>3, <1>4 DEF Delivers

(* A field of the k-th case that is written, or nothing for a value that a new *)
(* message has.                                                               *)
LEMMA FieldDelivered ==
    ASSUME NEW c, NEW tag, NEW k, NEW wire \in {0, 2}, NEW f, HasCase(c, tag, k, wire, f),
           NEW value, NEW field, IsWritten(f, tag, value, field) \/ (field = <<>> /\ value = f.zero)
    PROVE  Delivers(c, k, value, field)
  <1>1. CASE IsWritten(f, tag, value, field)  BY <1>1, WrittenDelivered
  <1>2. CASE field = <<>> /\ value = f.zero
    <2>1. c[k] = f  BY DEF HasCase
    <2>2. <<>> \in Seq(Byte)  OBVIOUS
    <2> QED  BY <1>2, <2>1, <2>2 DEF Delivers
  <1> QED  BY <1>1, <1>2

(* The fields of messages that hold none, of every value the program gives them. *)
LEMMA TextDelivered ==
    ASSUME NEW c, NEW tag, NEW k, NEW name, HasCase(c, tag, k, 2, Bytes(name)), NEW x, IsText(x)
    PROVE  Delivers(c, k, x, BytesField(tag, x))
  <1> DEFINE f == Bytes(name)
  <1>1. f.zero = <<>> /\ f = Bytes(f.name)  BY DEF Bytes, Case
  <1>2. 2 \in {0, 2}  OBVIOUS
  <1>3. WireOf(tag) = 2  BY <1>2, CaseKnown
  <1> HIDE DEF f
  <1>4. IsWritten(f, tag, x, BytesField(tag, x)) \/ (BytesField(tag, x) = <<>> /\ x = f.zero)
    <2>1. CASE x = <<>>  BY <1>1, <2>1 DEF BytesField
    <2>2. CASE x # <<>>  BY <1>1, <1>3, <2>2 DEF IsWritten, IsText
    <2> QED  BY <2>1, <2>2
  <1> QED  BY <1>2, <1>4, FieldDelivered DEF f

LEMMA IntDelivered ==
    ASSUME NEW c, NEW tag, NEW k, NEW name, HasCase(c, tag, k, 0, Int64(name)), NEW v, IsInt64(v)
    PROVE  Delivers(c, k, v, VarintField(tag, v))
  <1> DEFINE f == Int64(name)
  <1>1. f.zero = 0 /\ f = Int64(f.name)  BY DEF Int64, Case
  <1>2. 0 \in {0, 2}  OBVIOUS
  <1>3. WireOf(tag) = 0  BY <1>2, CaseKnown
  <1> HIDE DEF f
  <1>4. IsWritten(f, tag, v, VarintField(tag, v)) \/ (VarintField(tag, v) = <<>> /\ v = f.zero)
    <2>1. CASE v = 0  BY <1>1, <2>1 DEF VarintField
    <2>2. CASE v # 0  BY <1>1, <1>3, <2>2 DEF IsWritten, IsInt64
    <2> QED  BY <2>1, <2>2
  <1> QED  BY <1>2, <1>4, FieldDelivered DEF f

LEMMA EnumDelivered ==
    ASSUME NEW c, NEW tag, NEW k, NEW name, HasCase(c, tag, k, 0, Enum(name)), NEW v \in 0 .. 255
    PROVE  Delivers(c, k, v, VarintField(tag, v))
  <1> DEFINE f == Enum(name)
  <1>1. f.zero = 0 /\ f = Enum(f.name)  BY DEF Enum, Case
  <1>2. 0 \in {0, 2}  OBVIOUS
  <1>3. WireOf(tag) = 0  BY <1>2, CaseKnown
  <1> HIDE DEF f
  <1>4. IsWritten(f, tag, v, VarintField(tag, v)) \/ (VarintField(tag, v) = <<>> /\ v = f.zero)
    <2>1. CASE v = 0  BY <1>1, <2>1 DEF VarintField
    <2>2. CASE v # 0
      <3>1. v \in 1 .. 255  BY <2>2
      <3> QED  BY <1>1, <1>3, <3>1 DEF IsWritten
    <2> QED  BY <2>1, <2>2
  <1> QED  BY <1>2, <1>4, FieldDelivered DEF f

LEMMA FlagDelivered ==
    ASSUME NEW c, NEW tag, NEW k, NEW name, HasCase(c, tag, k, 0, Bool(name)), NEW b \in BOOLEAN
    PROVE  Delivers(c, k, b, BoolField(tag, b))
  <1> DEFINE f == Bool(name)
  <1>1. f.zero = FALSE /\ f = Bool(f.name)  BY DEF Bool, Case
  <1>2. 0 \in {0, 2}  OBVIOUS
  <1>3. WireOf(tag) = 0  BY <1>2, CaseKnown
  <1> HIDE DEF f
  <1>4. IsWritten(f, tag, b, BoolField(tag, b)) \/ (BoolField(tag, b) = <<>> /\ b = f.zero)
    <2>1. CASE b = FALSE  BY <1>1, <2>1 DEF BoolField
    <2>2. CASE b = TRUE  BY <1>1, <1>3, <2>2 DEF IsWritten
    <2> QED  BY <2>1, <2>2
  <1> QED  BY <1>2, <1>4, FieldDelivered DEF f

LEMMA AmountDelivered ==
    ASSUME NEW c, NEW tag, NEW k, NEW name, HasCase(c, tag, k, 2, SdkInt(name)),
           NEW x, IsText(x), x # <<>>, IsIntText(x)
    PROVE  Delivers(c, k, x, Embedded(tag, MarshalInt(x)))
  <1> DEFINE f == SdkInt(name)
  <1>1. f = SdkInt(f.name)  BY DEF SdkInt, Case
  <1>2. 2 \in {0, 2}  OBVIOUS
  <1>3. WireOf(tag) = 2  BY <1>2, CaseKnown
  <1> HIDE DEF f
  <1>4. IsWritten(f, tag, x, Embedded(tag, MarshalInt(x)))  BY <1>1, <1>3 DEF IsWritten, IsText
  <1> QED  BY <1>2, <1>4, FieldDelivered DEF f

\* Unmarshal of a message within a message is the same loop: it returns the reader
\* at the end of the bytes that the loop reaches.
UnmarshalLoops ==
    \A c, m : \A d \in Seq(Byte) :
        Reads(c, d, Start(c), ReaderOf(Len(d), m)) =>
            Unmarshal(c, d, New(c)) = ReaderOf(Len(d), m)

\* A message of the n fields of c, which have names of their own.
IsMessage(c, n, m) ==
    /\ DOMAIN c = 1 .. n
    /\ \A i, j \in 1 .. n : c[i].name = c[j].name => i = j
    /\ m = [x \in {c[i].name : i \in 1 .. n} |-> m[x]]

(* What is written up to each field. *)
LEMMA PrefixesExist ==
    ASSUME NEW n \in Nat, NEW w, \A j \in 1 .. n : w[j] \in Seq(Byte)
    PROVE  \E b : Written(n, w, b)
  <1> DEFINE Bad == {k \in 0 .. n : ~ \E b : Written(k, w, b)}
  <1>1. SUFFICES ASSUME Bad # {} PROVE FALSE
    <2>1. n \in 0 .. n  OBVIOUS
    <2> QED  BY <2>1
  <1>2. PICK k \in Bad : \A i \in Bad : k <= i
    <2>1. Bad \subseteq 0 .. n  OBVIOUS
    <2> HIDE DEF Bad
    <2> QED  BY <1>1, <2>1, SmallestNumber
  <1>3. k \in 0 .. n /\ ~ \E b : Written(k, w, b)  OBVIOUS
  <1>4. k # 0
    <2> DEFINE b == [j \in 0 .. 0 |-> <<>>]
    <2>1. Written(0, w, b)
      <3>1. \A j \in 0 .. 0 : b[j] = <<>> /\ <<>> \in Seq(Byte)  OBVIOUS
      <3>2. 1 .. 0 = {} /\ 0 \in 0 .. 0  OBVIOUS
      <3> HIDE DEF b
      <3> QED  BY <3>1, <3>2 DEF Written
    <2> QED  BY <1>3, <2>1
  <1>5. k - 1 \in 0 .. n /\ ~ (k <= k - 1) /\ k \in 1 .. n  BY <1>3, <1>4
  <1>6. PICK a : Written(k - 1, w, a)
    <2>1. k - 1 \notin Bad  BY <1>2, <1>5
    <2> QED  BY <1>5, <2>1
  <1>7. /\ a[0] = <<>> /\ \A j \in 0 .. k - 1 : a[j] \in Seq(Byte)
        /\ \A j \in 1 .. k - 1 : a[j] = a[j - 1] \o w[j]
    BY <1>6 DEF Written
  <1> DEFINE last == a[k - 1] \o w[k]
             b == [j \in 0 .. k |-> IF j = k THEN last ELSE a[j]]
  <1>8. last \in Seq(Byte)
    <2>1. ASSUME NEW x \in Seq(Byte), NEW y \in Seq(Byte) PROVE x \o y \in Seq(Byte)
      BY ConcatBytes
    <2>2. a[k - 1] \in Seq(Byte) /\ w[k] \in Seq(Byte)
      <3>1. k - 1 \in 0 .. k - 1  BY <1>5
      <3> QED  BY <1>5, <1>7, <3>1
    <2> QED  BY <2>1, <2>2
  <1>9. Written(k, w, b)
    <2>1. \A j \in 0 .. k - 1 : j \in 0 .. k /\ j # k /\ b[j] = a[j]  BY <1>5
    <2>0. k \in 0 .. k  BY <1>5
    <2> HIDE DEF last
    <2>2. b[k] = last /\ k \in 0 .. k  BY <2>0
    <2>3. b[k] = a[k - 1] \o w[k]  BY <2>2 DEF last
    <2> HIDE DEF b
    <2>4. b[0] = <<>>
      <3>1. 0 \in 0 .. k - 1  BY <1>5
      <3> QED  BY <1>7, <2>1, <3>1
    <2>5. ASSUME NEW j \in 0 .. k PROVE b[j] \in Seq(Byte)
      <3>1. CASE j = k  BY <1>8, <2>2, <3>1
      <3>2. CASE j # k
        <4>1. j \in 0 .. k - 1  BY <1>5, <3>2
        <4> QED  BY <1>7, <2>1, <4>1
      <3> QED  BY <3>1, <3>2
    <2>6. ASSUME NEW j \in 1 .. k PROVE w[j] \in Seq(Byte) /\ b[j] = b[j - 1] \o w[j]
      <3>1. w[j] \in Seq(Byte)
        <4>1. j \in 1 .. n  BY <1>5
        <4> QED  BY <4>1
      <3>2. j - 1 \in 0 .. k - 1  BY <1>5
      <3>3. b[j - 1] = a[j - 1]  BY <2>1, <3>2
      <3>4. CASE j = k  BY <2>3, <3>1, <3>3, <3>4
      <3>5. CASE j # k
        <4>1. j \in 1 .. k - 1 /\ j \in 0 .. k - 1  BY <1>5, <3>5
        <4>2. b[j] = a[j] /\ a[j] = a[j - 1] \o w[j]  BY <1>7, <2>1, <4>1
        <4> QED  BY <3>1, <3>3, <4>2
      <3> QED  BY <3>4, <3>5
    <2> QED  BY <2>4, <2>5, <2>6 DEF Written
  <1> QED  BY <1>3, <1>9

AllDelivered(c, n, m, w) == \A k \in 1 .. n : Delivers(c, k, m[c[k].name], w[k])

(* A message whose fields arrive does. *)
LEMMA MessageArrives ==
    ASSUME NEW n \in Nat, NEW c, NEW m, IsMessage(c, n, m), NEW w, NEW b, Written(n, w, b),
           AllDelivered(c, n, m, w),
           NEW d, d = b[n], Len(d) <= MaxInt
    PROVE  Reads(c, d, Start(c), ReaderOf(Len(d), m))
  <1>1. DOMAIN c = 1 .. n /\ \A i, j \in 1 .. n : c[i].name = c[j].name => i = j
    BY DEF IsMessage
  <1>2. m = [x \in {c[i].name : i \in 1 .. n} |-> m[x]]  BY DEF IsMessage
  <1> DEFINE ix == [x \in {c[i].name : i \in 1 .. n} |-> CHOOSE i \in 1 .. n : c[i].name = x]
  <1>3. \A i \in 1 .. n : ix[c[i].name] = i  BY <1>1
  <1> HIDE DEF ix
  <1>4. d \in Seq(Byte)
    <2>1. n \in 0 .. n  OBVIOUS
    <2> QED  BY <2>1 DEF Written
  <1>5. \A k \in 1 .. n : \/ w[k] = <<>> /\ m[c[k].name] = c[k].zero
                          \/ Arrives(c, k, m[c[k].name], w[k])
    BY DEF AllDelivered, Delivers
  <1>6. Reads(c, d, ReaderOf(0, New(c)), ReaderOf(Len(d), m))
    BY ONLY n \in Nat, Written(n, w, b), d = b[n], Len(d) <= MaxInt, <1>1, <1>2, <1>3, <1>4,
            <1>5, FieldByField
  <1> QED  BY <1>6 DEF Start, ReaderOf

(* A coin is as long as its Size. *)
LEMMA CoinFits == ASSUME NEW c, IsCoin(c) PROVE Len(MarshalCoin(c)) <= MaxInt
  <1>1. Sized(MarshalCoin(c), SizeCoin(c))  BY OneCoinSized
  <1> QED  BY <1>1 DEF Sized, IsCoin

\* The messages as records of the program: the amount of a coin has digits, and
\* an enum, which Unmarshal reads into a byte, one of its few values.
IsWholeCoin(c) ==
    /\ c = [Denom |-> c.Denom, Amount |-> c.Amount]
    /\ IsCoin(c) /\ c.Amount # <<>> /\ IsIntText(c.Amount)

IsSwap(m) ==
    /\ m = [Amount |-> m.Amount, RandomNumberHash |-> m.RandomNumberHash,
            ExpireTimestamp |-> m.ExpireTimestamp, Timestamp |-> m.Timestamp,
            Sender |-> m.Sender, Recipient |-> m.Recipient, SenderOtherChain |-> m.SenderOtherChain,
            RecipientOtherChain |-> m.RecipientOtherChain, ClosedBlock |-> m.ClosedBlock,
            Status |-> m.Status, CrossChain |-> m.CrossChain, Direction |-> m.Direction]
    /\ IsAtomicSwap(m) /\ m.Status \in 0 .. 255 /\ m.Direction \in 0 .. 255
    /\ \E coin : IsWholeCoin(coin) /\ m.Amount = <<coin>>

IsCreate(m) ==
    /\ m = [From |-> m.From, To |-> m.To, RecipientOtherChain |-> m.RecipientOtherChain,
            SenderOtherChain |-> m.SenderOtherChain, RandomNumberHash |-> m.RandomNumberHash,
            Timestamp |-> m.Timestamp, Amount |-> m.Amount, TimeSpanMin |-> m.TimeSpanMin]
    /\ IsMsgCreate(m)
    /\ \E coin : IsWholeCoin(coin) /\ m.Amount = <<coin>>

IsClaim(m) ==
    /\ m = [From |-> m.From, SwapID |-> m.SwapID, RandomNumber |-> m.RandomNumber]
    /\ IsText(m.From) /\ IsText(m.SwapID) /\ IsText(m.RandomNumber)

IsRefund(m) ==
    /\ m = [From |-> m.From, SwapID |-> m.SwapID]
    /\ IsText(m.From) /\ IsText(m.SwapID)

(* A message of two fields. *)
LEMMA TwoFields ==
    ASSUME NEW c, NEW m, IsMessage(c, 2, m), NEW w1, NEW w2,
           Delivers(c, 1, m[c[1].name], w1), Delivers(c, 2, m[c[2].name], w2),
           NEW d, d = w1 \o w2, Len(d) <= MaxInt
    PROVE  Reads(c, d, Start(c), ReaderOf(Len(d), m))
  <1> DEFINE w == <<w1, w2>>
  <1>1. w[1] = w1 /\ w[2] = w2  OBVIOUS
  <1> HIDE DEF w
  <1>2. AllDelivered(c, 2, m, w)
    <2>1. \A k \in 1 .. 2 : k = 1 \/ k = 2  OBVIOUS
    <2> QED  BY <1>1, <2>1 DEF AllDelivered
  <1>3. \A k \in 1 .. 2 : w[k] \in Seq(Byte)  BY <1>2 DEF AllDelivered, Delivers
  <1>4. PICK b : Written(2, w, b)  BY <1>3, PrefixesExist
  <1>5. b[0] = <<>> /\ b[1] = b[0] \o w[1] /\ b[2] = b[1] \o w[2]
    <2>1. 1 \in 1 .. 2 /\ 2 \in 1 .. 2 /\ 1 - 1 = 0 /\ 2 - 1 = 1  OBVIOUS
    <2> QED  BY <1>4, <2>1 DEF Written
  <1>6. b[1] = w1
    <2>1. w1 \in Seq(Byte)  BY <1>1, <1>3
    <2> QED  BY <1>1, <1>5, <2>1, ConcatEmptySeq
  <1>7. d = b[2]  BY <1>1, <1>5, <1>6
  <1>8. 2 \in Nat  OBVIOUS
  <1> QED  BY ONLY IsMessage(c, 2, m), Len(d) <= MaxInt, <1>2, <1>4, <1>7, <1>8, MessageArrives

(* What is written of a refund is read to its end as it was. *)
LEMMA RefundArrives ==
    ASSUME NEW m, IsRefund(m), NEW d, d = MarshalMsgRefundAtomicSwap(m), Len(d) <= MaxInt
    PROVE  Reads(MsgRefundAtomicSwapCases, d, Start(MsgRefundAtomicSwapCases), ReaderOf(Len(d), m))
  <1> DEFINE c == MsgRefundAtomicSwapCases
  <1>1. DOMAIN c = 1 .. 2 /\ c[1] = Bytes("From") /\ c[2] = Bytes("SwapID")
    BY DEF MsgRefundAtomicSwapCases
  <1>2. c[1].name = "From" /\ c[2].name = "SwapID"  BY <1>1 DEF Bytes, Case
  <1> HIDE DEF c
  <1>3. IsMessage(c, 2, m)
    <2>1. \A k \in 1 .. 2 : k = 1 \/ k = 2  OBVIOUS
    <2>2. \A i, j \in 1 .. 2 : c[i].name = c[j].name => i = j  BY <1>2, <2>1
    <2>3. {c[i].name : i \in 1 .. 2} = {"From", "SwapID"}  BY <1>2, <2>1
    <2>4. m = [x \in {"From", "SwapID"} |-> m[x]]  BY DEF IsRefund
    <2> QED  BY <1>1, <2>2, <2>3, <2>4 DEF IsMessage
  <1>4. HasCase(c, 10, 1, 2, Bytes("From")) /\ HasCase(c, 18, 2, 2, Bytes("SwapID"))
    BY <1>1 DEF HasCase
  <1>5. Delivers(c, 1, m.From, BytesField(10, m.From))
          /\ Delivers(c, 2, m.SwapID, BytesField(18, m.SwapID))
    BY <1>4, TextDelivered DEF IsRefund
  <1>6. Delivers(c, 1, m[c[1].name], BytesField(10, m.From))
          /\ Delivers(c, 2, m[c[2].name], BytesField(18, m.SwapID))
    BY <1>2, <1>5
  <1>7. d = BytesField(10, m.From) \o BytesField(18, m.SwapID)
    BY DEF MarshalMsgRefundAtomicSwap
  <1>8. Reads(c, d, Start(c), ReaderOf(Len(d), m))
    BY ONLY Len(d) <= MaxInt, <1>3, <1>6, <1>7, TwoFields
  <1> QED  BY <1>8 DEF c

(* The same of a claim, and, with coins, of a creation and a swap. *)
LEMMA ClaimArrives ==
    ASSUME NEW m, IsClaim(m), NEW d, d = MarshalMsgClaimAtomicSwap(m), Len(d) <= MaxInt
    PROVE  Reads(MsgClaimAtomicSwapCases, d, Start(MsgClaimAtomicSwapCases), ReaderOf(Len(d), m))
  <1> DEFINE c == MsgClaimAtomicSwapCases
             w == << BytesField(10, m.From),
                     BytesField(18, m.SwapID),
                     BytesField(26, m.RandomNumber) >>
             p1 == BytesField(10, m.From)
             p2 == p1 \o BytesField(18, m.SwapID)
             p3 == p2 \o BytesField(26, m.RandomNumber)
  <1>1. /\ DOMAIN c = 1 .. 3
        /\ c[1] = Bytes("From")
        /\ c[2] = Bytes("SwapID")
        /\ c[3] = Bytes("RandomNumber")
    BY DEF MsgClaimAtomicSwapCases
  <1>2. /\ w[1] = BytesField(10, m.From)
        /\ w[2] = BytesField(18, m.SwapID)
        /\ w[3] = BytesField(26, m.RandomNumber)
    OBVIOUS
  <1>3. d = p3  BY DEF MarshalMsgClaimAtomicSwap
  <1>4. /\ c[1].name = "From"
        /\ c[2].name = "SwapID"
        /\ c[3].name = "RandomNumber"
    BY <1>1 DEF Bytes, Case
  <1> HIDE DEF c, w, p1, p2, p3
  <1>5. \A k \in 1 .. 3 : k = 1 \/ k = 2 \/ k = 3
    OBVIOUS
  <1>6. IsMessage(c, 3, m)
    <2>1. \A j \in 1 .. 3 : c[j].name = c[1].name => j = 1  BY ONLY <1>4, <1>5
    <2>2. \A j \in 1 .. 3 : c[j].name = c[2].name => j = 2  BY ONLY <1>4, <1>5
    <2>3. \A j \in 1 .. 3 : c[j].name = c[3].name => j = 3  BY ONLY <1>4, <1>5
    <2>4. \A i, j \in 1 .. 3 : c[j].name = c[i].name => j = i
      BY ONLY <1>5, <2>1, <2>2, <2>3
    <2> DEFINE Names == {"From", "SwapID", "RandomNumber"}
    <2>5. {c[i].name : i \in 1 .. 3} = Names  BY ONLY <1>4, <1>5
    <2>6. m = [x \in Names |-> m[x]]  BY DEF IsClaim
    <2> QED  BY <1>1, <2>4, <2>5, <2>6 DEF IsMessage
  <1>7. AllDelivered(c, 3, m, w)
    <2>1. Delivers(c, 1, m[c[1].name], w[1])
      <3>1. HasCase(c, 10, 1, 2, Bytes("From"))  BY <1>1 DEF HasCase
      <3>2. IsText(m.From)  BY DEF IsClaim
      <3>3. Delivers(c, 1, m.From, BytesField(10, m.From))
        BY ONLY <3>1, <3>2, TextDelivered
      <3> QED  BY ONLY <1>2, <1>4, <3>3
    <2>2. Delivers(c, 2, m[c[2].name], w[2])
      <3>1. HasCase(c, 18, 2, 2, Bytes("SwapID"))  BY <1>1 DEF HasCase
      <3>2. IsText(m.SwapID)  BY DEF IsClaim
      <3>3. Delivers(c, 2, m.SwapID, BytesField(18, m.SwapID))
        BY ONLY <3>1, <3>2, TextDelivered
      <3> QED  BY ONLY <1>2, <1>4, <3>3
    <2>3. Delivers(c, 3, m[c[3].name], w[3])
      <3>1. HasCase(c, 26, 3, 2, Bytes("RandomNumber"))  BY <1>1 DEF HasCase
      <3>2. IsText(m.RandomNumber)  BY DEF IsClaim
      <3>3. Delivers(c, 3, m.RandomNumber, BytesField(26, m.RandomNumber))
        BY ONLY <3>1, <3>2, TextDelivered
      <3> QED  BY ONLY <1>2, <1>4, <3>3
    <2> QED  BY ONLY <1>5, <2>1, <2>2, <2>3
                     DEF AllDelivered
  <1>8. \A k \in 1 .. 3 : w[k] \in Seq(Byte)  BY <1>7 DEF AllDelivered, Delivers
  <1>9. PICK b : Written(3, w, b)  BY <1>8, PrefixesExist
  <1>10. d = b[3]
    <2>0. b[0] = <<>> /\ \A j \in 1 .. 3 : b[j] = b[j - 1] \o w[j]  BY <1>9 DEF Written
    <2>1. b[1] = p1
      <3>1. 1 \in 1 .. 3 /\ 1 - 1 = 0  OBVIOUS
      <3>2. b[1] = b[0] \o w[1]  BY ONLY <2>0, <3>1
      <3>3. w[1] \in Seq(Byte)  BY ONLY <1>8, <3>1
      <3>4. <<>> \o w[1] = w[1]  BY ONLY <3>3, ConcatEmptySeq
      <3> QED  BY ONLY <1>2, <2>0, <3>2, <3>4 DEF p1
    <2>2. b[2] = p2
      <3>1. 2 \in 1 .. 3 /\ 2 - 1 = 1  OBVIOUS
      <3>2. b[2] = b[1] \o w[2]  BY ONLY <2>0, <3>1
      <3> QED  BY ONLY <1>2, <2>1, <3>2 DEF p2
    <2>3. b[3] = p3
      <3>1. 3 \in 1 .. 3 /\ 3 - 1 = 2  OBVIOUS
      <3>2. b[3] = b[2] \o w[3]  BY ONLY <2>0, <3>1
      <3> QED  BY ONLY <1>2, <2>2, <3>2 DEF p3
    <2> QED  BY ONLY <1>3, <2>3
  <1>11. 3 \in Nat  OBVIOUS
  <1>12. Reads(c, d, Start(c), ReaderOf(Len(d), m))
    BY ONLY Len(d) <= MaxInt, <1>6, <1>7, <1>9, <1>10, <1>11, MessageArrives
  <1> QED  BY <1>12 DEF c

(* A coin, and a list of one, which the loop enters for its coin. *)
LEMMA CoinArrives ==
    ASSUME UnmarshalLoops, NEW m, IsWholeCoin(m), NEW d, d = MarshalCoin(m)
    PROVE  Unmarshal(CoinCases, d, New(CoinCases)) = ReaderOf(Len(d), m) /\ d \in Seq(Byte)
  <1> DEFINE c == CoinCases
  <1>1. DOMAIN c = 1 .. 2 /\ c[1] = Bytes("Denom") /\ c[2] = SdkInt("Amount")
    BY DEF CoinCases
  <1>2. c[1].name = "Denom" /\ c[2].name = "Amount"  BY <1>1 DEF Bytes, SdkInt, Case
  <1> HIDE DEF c
  <1>3. IsMessage(c, 2, m)
    <2>1. \A k \in 1 .. 2 : k = 1 \/ k = 2  OBVIOUS
    <2>2. \A i, j \in 1 .. 2 : c[i].name = c[j].name => i = j  BY <1>2, <2>1
    <2>3. {c[i].name : i \in 1 .. 2} = {"Denom", "Amount"}  BY <1>2, <2>1
    <2>4. m = [x \in {"Denom", "Amount"} |-> m[x]]  BY DEF IsWholeCoin
    <2> QED  BY <1>1, <2>2, <2>3, <2>4 DEF IsMessage
  <1>4. HasCase(c, 10, 1, 2, Bytes("Denom")) /\ HasCase(c, 18, 2, 2, SdkInt("Amount"))
    BY <1>1 DEF HasCase
  <1>5. Delivers(c, 1, m.Denom, BytesField(10, m.Denom))
        /\ Delivers(c, 2, m.Amount, Embedded(18, MarshalInt(m.Amount)))
    BY <1>4, TextDelivered, AmountDelivered DEF IsWholeCoin, IsCoin
  <1>6. Delivers(c, 1, m[c[1].name], BytesField(10, m.Denom))
        /\ Delivers(c, 2, m[c[2].name], Embedded(18, MarshalInt(m.Amount)))
    BY <1>2, <1>5
  <1>7. d = BytesField(10, m.Denom) \o Embedded(18, MarshalInt(m.Amount))  BY DEF MarshalCoin
  <1>8. d \in Seq(Byte)
    <2>1. ASSUME NEW x \in Seq(Byte), NEW y \in Seq(Byte) PROVE x \o y \in Seq(Byte)
      BY ConcatBytes
    <2> QED  BY <1>5, <1>7, <2>1 DEF Delivers
  <1>9. Len(d) <= MaxInt  BY CoinFits DEF IsWholeCoin
  <1>10. Reads(c, d, Start(c), ReaderOf(Len(d), m))
    BY ONLY <1>3, <1>6, <1>7, <1>9, TwoFields
  <1>11. Unmarshal(c, d, New(c)) = ReaderOf(Len(d), m)  BY <1>8, <1>10 DEF UnmarshalLoops
  <1> QED  BY <1>8, <1>11 DEF c

(* A list of one coin. *)
LEMMA CoinsDelivered ==
    ASSUME UnmarshalLoops, NEW c, NEW tag, NEW k, NEW name, NEW s,
           \E coin : IsWholeCoin(coin) /\ s = <<coin>>,
           HasCase(c, tag, k, 2, List(name, CoinCases))
    PROVE  Delivers(c, k, s, ListField(tag, s, MarshalCoin))
  <1>1. PICK coin : IsWholeCoin(coin) /\ s = <<coin>>  OBVIOUS
  <1> DEFINE x == MarshalCoin(coin)
             f == List(name, CoinCases)
  <1>2. Unmarshal(CoinCases, x, New(CoinCases)) = ReaderOf(Len(x), coin) /\ x \in Seq(Byte)
    BY <1>1, CoinArrives
  <1>3. Len(x) <= MaxInt  BY <1>1, CoinFits DEF IsWholeCoin
  <1>4. f.kind = "list" /\ f.of = CoinCases /\ f.wireType = 2 /\ f.zero = <<>>
    BY DEF List, Case
  <1>5. tag \in 0 .. 127 /\ FieldOf(tag) = k /\ WireOf(tag) = 2 /\ Knows(c, tag)
    <2>1. 2 \in {0, 2}  OBVIOUS
    <2> QED  BY <2>1, CaseKnown
  <1>6. c[k] = f  BY DEF HasCase
  <1> HIDE DEF x, f
  <1>7. Merge(f, <<>>, x) = [ok |-> TRUE, value |-> s]
    <2> DEFINE u == Unmarshal(f.of, x, New(f.of))
    <2>1. u.ok = TRUE /\ u.m = coin  BY <1>2, <1>4 DEF ReaderOf
    <2>2. Merge(f, <<>>, x) = [ok |-> u.ok, value |-> Append(<<>>, u.m)]  BY <1>4 DEF Merge
    <2>3. Append(<<>>, coin) = <<coin>>  OBVIOUS
    <2> HIDE DEF u
    <2> QED  BY <1>1, <2>1, <2>2, <2>3
  <1> DEFINE operand == encodeVarint(Len(x)) \o x
  <1>8. operand \in Seq(Byte) /\ Embedded(tag, x) = Tagged(tag, operand)
    BY <1>2, <1>3, <1>5, TaggedValue
  <1>9. Carries(2, f, f.zero, s, operand)
    BY <1>2, <1>3, <1>4, <1>7 DEF Carries, IsBytes
  <1>10. ListField(tag, s, MarshalCoin) = Embedded(tag, x)  BY <1>1, OneListed DEF x
  <1> HIDE DEF operand
  <1>11. Arrives(c, k, s, Tagged(tag, operand)) /\ Tagged(tag, operand) \in Seq(Byte)
    BY <1>5, <1>6, <1>8, <1>9, OperandDelivered
  <1> QED  BY <1>8, <1>10, <1>11 DEF Delivers

LEMMA CreateArrives ==
    ASSUME UnmarshalLoops, NEW m, IsCreate(m), NEW d, d = MarshalMsgCreateAtomicSwap(m),
           Len(d) <= MaxInt
    PROVE  Reads(MsgCreateAtomicSwapCases, d, Start(MsgCreateAtomicSwapCases), ReaderOf(Len(d), m))
  <1> DEFINE c == MsgCreateAtomicSwapCases
             w == << BytesField(10, m.From),
                     BytesField(18, m.To),
                     BytesField(26, m.RecipientOtherChain),
                     BytesField(34, m.SenderOtherChain),
                     BytesField(42, m.RandomNumberHash),
                     VarintField(48, m.Timestamp),
                     ListField(58, m.Amount, MarshalCoin),
                     VarintField(64, m.TimeSpanMin) >>
             p1 == BytesField(10, m.From)
             p2 == p1 \o BytesField(18, m.To)
             p3 == p2 \o BytesField(26, m.RecipientOtherChain)
             p4 == p3 \o BytesField(34, m.SenderOtherChain)
             p5 == p4 \o BytesField(42, m.RandomNumberHash)
             p6 == p5 \o VarintField(48, m.Timestamp)
             p7 == p6 \o ListField(58, m.Amount, MarshalCoin)
             p8 == p7 \o VarintField(64, m.TimeSpanMin)
  <1>1. /\ DOMAIN c = 1 .. 8
        /\ c[1] = Bytes("From")
        /\ c[2] = Bytes("To")
        /\ c[3] = Bytes("RecipientOtherChain")
        /\ c[4] = Bytes("SenderOtherChain")
        /\ c[5] = Bytes("RandomNumberHash")
        /\ c[6] = Int64("Timestamp")
        /\ c[7] = List("Amount", CoinCases)
        /\ c[8] = Int64("TimeSpanMin")
    BY DEF MsgCreateAtomicSwapCases
  <1>2. /\ w[1] = BytesField(10, m.From)
        /\ w[2] = BytesField(18, m.To)
        /\ w[3] = BytesField(26, m.RecipientOtherChain)
        /\ w[4] = BytesField(34, m.SenderOtherChain)
        /\ w[5] = BytesField(42, m.RandomNumberHash)
        /\ w[6] = VarintField(48, m.Timestamp)
        /\ w[7] = ListField(58, m.Amount, MarshalCoin)
        /\ w[8] = VarintField(64, m.TimeSpanMin)
    OBVIOUS
  <1>3. d = p8  BY DEF MarshalMsgCreateAtomicSwap
  <1>4. /\ c[1].name = "From"
        /\ c[2].name = "To"
        /\ c[3].name = "RecipientOtherChain"
        /\ c[4].name = "SenderOtherChain"
        /\ c[5].name = "RandomNumberHash"
        /\ c[6].name = "Timestamp"
        /\ c[7].name = "Amount"
        /\ c[8].name = "TimeSpanMin"
    BY <1>1 DEF Bytes, Int64, List, Case
  <1> HIDE DEF c, w, p1, p2, p3, p4, p5, p6, p7, p8
  <1>5. \A k \in 1 .. 8 : k = 1 \/ k = 2 \/ k = 3 \/ k = 4 \/ k = 5 \/ k = 6 \/ k = 7
          \/ k = 8
    OBVIOUS
  <1>6. IsMessage(c, 8, m)
    <2>1. \A j \in 1 .. 8 : c[j].name = c[1].name => j = 1  BY ONLY <1>4, <1>5
    <2>2. \A j \in 1 .. 8 : c[j].name = c[2].name => j = 2  BY ONLY <1>4, <1>5
    <2>3. \A j \in 1 .. 8 : c[j].name = c[3].name => j = 3  BY ONLY <1>4, <1>5
    <2>4. \A j \in 1 .. 8 : c[j].name = c[4].name => j = 4  BY ONLY <1>4, <1>5
    <2>5. \A j \in 1 .. 8 : c[j].name = c[5].name => j = 5  BY ONLY <1>4, <1>5
    <2>6. \A j \in 1 .. 8 : c[j].name = c[6].name => j = 6  BY ONLY <1>4, <1>5
    <2>7. \A j \in 1 .. 8 : c[j].name = c[7].name => j = 7  BY ONLY <1>4, <1>5
    <2>8. \A j \in 1 .. 8 : c[j].name = c[8].name => j = 8  BY ONLY <1>4, <1>5
    <2>9. \A i, j \in 1 .. 8 : c[j].name = c[i].name => j = i
      BY ONLY <1>5, <2>1, <2>2, <2>3, <2>4, <2>5, <2>6, <2>7, <2>8
    <2> DEFINE Names == {"From", "To", "RecipientOtherChain", "SenderOtherChain",
                        "RandomNumberHash", 
            "Timestamp", "Amount", "TimeSpanMin"}
    <2>10. {c[i].name : i \in 1 .. 8} = Names  BY ONLY <1>4, <1>5
    <2>11. m = [x \in Names |-> m[x]]  BY DEF IsCreate
    <2> QED  BY <1>1, <2>9, <2>10, <2>11 DEF IsMessage
  <1>7. AllDelivered(c, 8, m, w)
    <2>1. Delivers(c, 1, m[c[1].name], w[1])
      <3>1. HasCase(c, 10, 1, 2, Bytes("From"))  BY <1>1 DEF HasCase
      <3>2. IsText(m.From)  BY DEF IsCreate, IsMsgCreate
      <3>3. Delivers(c, 1, m.From, BytesField(10, m.From))
        BY ONLY <3>1, <3>2, TextDelivered
      <3> QED  BY ONLY <1>2, <1>4, <3>3
    <2>2. Delivers(c, 2, m[c[2].name], w[2])
      <3>1. HasCase(c, 18, 2, 2, Bytes("To"))  BY <1>1 DEF HasCase
      <3>2. IsText(m.To)  BY DEF IsCreate, IsMsgCreate
      <3>3. Delivers(c, 2, m.To, BytesField(18, m.To))
        BY ONLY <3>1, <3>2, TextDelivered
      <3> QED  BY ONLY <1>2, <1>4, <3>3
    <2>3. Delivers(c, 3, m[c[3].name], w[3])
      <3>1. HasCase(c, 26, 3, 2, Bytes("RecipientOtherChain"))  BY <1>1 DEF HasCase
      <3>2. IsText(m.RecipientOtherChain)  BY DEF IsCreate, IsMsgCreate
      <3>3. Delivers(c, 3, m.RecipientOtherChain, BytesField(26, m.RecipientOtherChain))
        BY ONLY <3>1, <3>2, TextDelivered
      <3> QED  BY ONLY <1>2, <1>4, <3>3
    <2>4. Delivers(c, 4, m[c[4].name], w[4])
      <3>1. HasCase(c, 34, 4, 2, Bytes("SenderOtherChain"))  BY <1>1 DEF HasCase
      <3>2. IsText(m.SenderOtherChain)  BY DEF IsCreate, IsMsgCreate
      <3>3. Delivers(c, 4, m.SenderOtherChain, BytesField(34, m.SenderOtherChain))
        BY ONLY <3>1, <3>2, TextDelivered
      <3> QED  BY ONLY <1>2, <1>4, <3>3
    <2>5. Delivers(c, 5, m[c[5].name], w[5])
      <3>1. HasCase(c, 42, 5, 2, Bytes("RandomNumberHash"))  BY <1>1 DEF HasCase
      <3>2. IsText(m.RandomNumberHash)  BY DEF IsCreate, IsMsgCreate
      <3>3. Delivers(c, 5, m.RandomNumberHash, BytesField(42, m.RandomNumberHash))
        BY ONLY <3>1, <3>2, TextDelivered
      <3> QED  BY ONLY <1>2, <1>4, <3>3
    <2>6. Delivers(c, 6, m[c[6].name], w[6])
      <3>1. HasCase(c, 48, 6, 0, Int64("Timestamp"))  BY <1>1 DEF HasCase
      <3>2. IsInt64(m.Timestamp)  BY DEF IsCreate, IsMsgCreate
      <3>3. Delivers(c, 6, m.Timestamp, VarintField(48, m.Timestamp))
        BY ONLY <3>1, <3>2, IntDelivered
      <3> QED  BY ONLY <1>2, <1>4, <3>3
    <2>7. Delivers(c, 7, m[c[7].name], w[7])
      <3>1. HasCase(c, 58, 7, 2, List("Amount", CoinCases))  BY <1>1 DEF HasCase
      <3>2. \E coin : IsWholeCoin(coin) /\ m.Amount = <<coin>>  BY DEF IsCreate, IsMsgCreate
      <3>3. Delivers(c, 7, m.Amount, ListField(58, m.Amount, MarshalCoin))
        BY ONLY UnmarshalLoops, <3>1, <3>2, CoinsDelivered
      <3> QED  BY ONLY <1>2, <1>4, <3>3
    <2>8. Delivers(c, 8, m[c[8].name], w[8])
      <3>1. HasCase(c, 64, 8, 0, Int64("TimeSpanMin"))  BY <1>1 DEF HasCase
      <3>2. IsInt64(m.TimeSpanMin)  BY DEF IsCreate, IsMsgCreate
      <3>3. Delivers(c, 8, m.TimeSpanMin, VarintField(64, m.TimeSpanMin))
        BY ONLY <3>1, <3>2, IntDelivered
      <3> QED  BY ONLY <1>2, <1>4, <3>3
    <2> QED  BY ONLY <1>5, <2>1, <2>2, <2>3, <2>4, <2>5, <2>6, <2>7, <2>8
                     DEF AllDelivered
  <1>8. \A k \in 1 .. 8 : w[k] \in Seq(Byte)  BY <1>7 DEF AllDelivered, Delivers
  <1>9. PICK b : Written(8, w, b)  BY <1>8, PrefixesExist
  <1>10. d = b[8]
    <2>0. b[0] = <<>> /\ \A j \in 1 .. 8 : b[j] = b[j - 1] \o w[j]  BY <1>9 DEF Written
    <2>1. b[1] = p1
      <3>1. 1 \in 1 .. 8 /\ 1 - 1 = 0  OBVIOUS
      <3>2. b[1] = b[0] \o w[1]  BY ONLY <2>0, <3>1
      <3>3. w[1] \in Seq(Byte)  BY ONLY <1>8, <3>1
      <3>4. <<>> \o w[1] = w[1]  BY ONLY <3>3, ConcatEmptySeq
      <3> QED  BY ONLY <1>2, <2>0, <3>2, <3>4 DEF p1
    <2>2. b[2] = p2
      <3>1. 2 \in 1 .. 8 /\ 2 - 1 = 1  OBVIOUS
      <3>2. b[2] = b[1] \o w[2]  BY ONLY <2>0, <3>1
      <3> QED  BY ONLY <1>2, <2>1, <3>2 DEF p2
    <2>3. b[3] = p3
      <3>1. 3 \in 1 .. 8 /\ 3 - 1 = 2  OBVIOUS
      <3>2. b[3] = b[2] \o w[3]  BY ONLY <2>0, <3>1
      <3> QED  BY ONLY <1>2, <2>2, <3>2 DEF p3
    <2>4. b[4] = p4
      <3>1. 4 \in 1 .. 8 /\ 4 - 1 = 3  OBVIOUS
      <3>2. b[4] = b[3] \o w[4]  BY ONLY <2>0, <3>1
      <3> QED  BY ONLY <1>2, <2>3, <3>2 DEF p4
    <2>5. b[5] = p5
      <3>1. 5 \in 1 .. 8 /\ 5 - 1 = 4  OBVIOUS
      <3>2. b[5] = b[4] \o w[5]  BY ONLY <2>0, <3>1
      <3> QED  BY ONLY <1>2, <2>4, <3>2 DEF p5
    <2>6. b[6] = p6
      <3>1. 6 \in 1 .. 8 /\ 6 - 1 = 5  OBVIOUS
      <3>2. b[6] = b[5] \o w[6]  BY ONLY <2>0, <3>1
      <3> QED  BY ONLY <1>2, <2>5, <3>2 DEF p6
    <2>7. b[7] = p7
      <3>1. 7 \in 1 .. 8 /\ 7 - 1 = 6  OBVIOUS
      <3>2. b[7] = b[6] \o w[7]  BY ONLY <2>0, <3>1
      <3> QED  BY ONLY <1>2, <2>6, <3>2 DEF p7
    <2>8. b[8] = p8
      <3>1. 8 \in 1 .. 8 /\ 8 - 1 = 7  OBVIOUS
      <3>2. b[8] = b[7] \o w[8]  BY ONLY <2>0, <3>1
      <3> QED  BY ONLY <1>2, <2>7, <3>2 DEF p8
    <2> QED  BY ONLY <1>3, <2>8
  <1>11. 8 \in Nat  OBVIOUS
  <1>12. Reads(c, d, Start(c), ReaderOf(Len(d), m))
    BY ONLY Len(d) <= MaxInt, <1>6, <1>7, <1>9, <1>10, <1>11, MessageArrives
  <1> QED  BY <1>12 DEF c

LEMMA SwapArrives ==
    ASSUME UnmarshalLoops, NEW m, IsSwap(m), NEW d, d = MarshalAtomicSwap(m), Len(d) <= MaxInt
    PROVE  Reads(AtomicSwapCases, d, Start(AtomicSwapCases), ReaderOf(Len(d), m))
  <1> DEFINE c == AtomicSwapCases
             w == << ListField(10, m.Amount, MarshalCoin),
                     BytesField(18, m.RandomNumberHash),
                     VarintField(24, m.ExpireTimestamp),
                     VarintField(32, m.Timestamp),
                     BytesField(42, m.Sender),
                     BytesField(50, m.Recipient),
                     BytesField(58, m.SenderOtherChain),
                     BytesField(66, m.RecipientOtherChain),
                     VarintField(72, m.ClosedBlock),
                     VarintField(80, m.Status),
                     BoolField(88, m.CrossChain),
                     VarintField(96, m.Direction) >>
             p1 == ListField(10, m.Amount, MarshalCoin)
             p2 == p1 \o BytesField(18, m.RandomNumberHash)
             p3 == p2 \o VarintField(24, m.ExpireTimestamp)
             p4 == p3 \o VarintField(32, m.Timestamp)
             p5 == p4 \o BytesField(42, m.Sender)
             p6 == p5 \o BytesField(50, m.Recipient)
             p7 == p6 \o BytesField(58, m.SenderOtherChain)
             p8 == p7 \o BytesField(66, m.RecipientOtherChain)
             p9 == p8 \o VarintField(72, m.ClosedBlock)
             p10 == p9 \o VarintField(80, m.Status)
             p11 == p10 \o BoolField(88, m.CrossChain)
             p12 == p11 \o VarintField(96, m.Direction)
  <1>1. /\ DOMAIN c = 1 .. 12
        /\ c[1] = List("Amount", CoinCases)
        /\ c[2] = Bytes("RandomNumberHash")
        /\ c[3] = Int64("ExpireTimestamp")
        /\ c[4] = Int64("Timestamp")
        /\ c[5] = Bytes("Sender")
        /\ c[6] = Bytes("Recipient")
        /\ c[7] = Bytes("SenderOtherChain")
        /\ c[8] = Bytes("RecipientOtherChain")
        /\ c[9] = Int64("ClosedBlock")
        /\ c[10] = Enum("Status")
        /\ c[11] = Bool("CrossChain")
        /\ c[12] = Enum("Direction")
    BY DEF AtomicSwapCases
  <1>2. /\ w[1] = ListField(10, m.Amount, MarshalCoin)
        /\ w[2] = BytesField(18, m.RandomNumberHash)
        /\ w[3] = VarintField(24, m.ExpireTimestamp)
        /\ w[4] = VarintField(32, m.Timestamp)
        /\ w[5] = BytesField(42, m.Sender)
        /\ w[6] = BytesField(50, m.Recipient)
        /\ w[7] = BytesField(58, m.SenderOtherChain)
        /\ w[8] = BytesField(66, m.RecipientOtherChain)
        /\ w[9] = VarintField(72, m.ClosedBlock)
        /\ w[10] = VarintField(80, m.Status)
        /\ w[11] = BoolField(88, m.CrossChain)
        /\ w[12] = VarintField(96, m.Direction)
    OBVIOUS
  <1>3. d = p12  BY DEF MarshalAtomicSwap
  <1>4. /\ c[1].name = "Amount"
        /\ c[2].name = "RandomNumberHash"
        /\ c[3].name = "ExpireTimestamp"
        /\ c[4].name = "Timestamp"
        /\ c[5].name = "Sender"
        /\ c[6].name = "Recipient"
        /\ c[7].name = "SenderOtherChain"
        /\ c[8].name = "RecipientOtherChain"
        /\ c[9].name = "ClosedBlock"
        /\ c[10].name = "Status"
        /\ c[11].name = "CrossChain"
        /\ c[12].name = "Direction"
    BY <1>1 DEF Bool, Bytes, Enum, Int64, List, Case
  <1> HIDE DEF c, w, p1, p2, p3, p4, p5, p6, p7, p8, p9, p10, p11, p12
  <1>5. \A k \in 1 .. 12 : k = 1 \/ k = 2 \/ k = 3 \/ k = 4 \/ k = 5 \/ k = 6 \/ k = 7
          \/ k = 8 \/ k = 9 \/ k = 10 \/ k = 11 \/ k = 12
    OBVIOUS
  <1>6. IsMessage(c, 12, m)
    <2>1. \A j \in 1 .. 12 : c[j].name = c[1].name => j = 1  BY ONLY <1>4, <1>5
    <2>2. \A j \in 1 .. 12 : c[j].name = c[2].name => j = 2  BY ONLY <1>4, <1>5
    <2>3. \A j \in 1 .. 12 : c[j].name = c[3].name => j = 3  BY ONLY <1>4, <1>5
    <2>4. \A j \in 1 .. 12 : c[j].name = c[4].name => j = 4  BY ONLY <1>4, <1>5
    <2>5. \A j \in 1 .. 12 : c[j].name = c[5].name => j = 5  BY ONLY <1>4, <1>5
    <2>6. \A j \in 1 .. 12 : c[j].name = c[6].name => j = 6  BY ONLY <1>4, <1>5
    <2>7. \A j \in 1 .. 12 : c[j].name = c[7].name => j = 7  BY ONLY <1>4, <1>5
    <2>8. \A j \in 1 .. 12 : c[j].name = c[8].name => j = 8  BY ONLY <1>4, <1>5
    <2>9. \A j \in 1 .. 12 : c[j].name = c[9].name => j = 9  BY ONLY <1>4, <1>5
    <2>10. \A j \in 1 .. 12 : c[j].name = c[10].name => j = 10  BY ONLY <1>4, <1>5
    <2>11. \A j \in 1 .. 12 : c[j].name = c[11].name => j = 11  BY ONLY <1>4, <1>5
    <2>12. \A j \in 1 .. 12 : c[j].name = c[12].name => j = 12  BY ONLY <1>4, <1>5
    <2>13. \A i, j \in 1 .. 12 : c[j].name = c[i].name => j = i
      BY ONLY <1>5, <2>1, <2>2, <2>3, <2>4, <2>5, <2>6, <2>7, <2>8, <2>9, <2>10, <2>11, <2>12
    <2> DEFINE Names == {"Amount", "RandomNumberHash", "ExpireTimestamp", "Timestamp",
                        "Sender", 
            "Recipient", "SenderOtherChain", "RecipientOtherChain", "ClosedBlock", "Status", 
            "CrossChain", "Direction"}
    <2>14. {c[i].name : i \in 1 .. 12} = Names  BY ONLY <1>4, <1>5
    <2>15. m = [x \in Names |-> m[x]]  BY DEF IsSwap
    <2> QED  BY <1>1, <2>13, <2>14, <2>15 DEF IsMessage
  <1>7. AllDelivered(c, 12, m, w)
    <2>1. Delivers(c, 1, m[c[1].name], w[1])
      <3>1. HasCase(c, 10, 1, 2, List("Amount", CoinCases))  BY <1>1 DEF HasCase
      <3>2. \E coin : IsWholeCoin(coin) /\ m.Amount = <<coin>>  BY DEF IsSwap, IsAtomicSwap
      <3>3. Delivers(c, 1, m.Amount, ListField(10, m.Amount, MarshalCoin))
        BY ONLY UnmarshalLoops, <3>1, <3>2, CoinsDelivered
      <3> QED  BY ONLY <1>2, <1>4, <3>3
    <2>2. Delivers(c, 2, m[c[2].name], w[2])
      <3>1. HasCase(c, 18, 2, 2, Bytes("RandomNumberHash"))  BY <1>1 DEF HasCase
      <3>2. IsText(m.RandomNumberHash)  BY DEF IsSwap, IsAtomicSwap
      <3>3. Delivers(c, 2, m.RandomNumberHash, BytesField(18, m.RandomNumberHash))
        BY ONLY <3>1, <3>2, TextDelivered
      <3> QED  BY ONLY <1>2, <1>4, <3>3
    <2>3. Delivers(c, 3, m[c[3].name], w[3])
      <3>1. HasCase(c, 24, 3, 0, Int64("ExpireTimestamp"))  BY <1>1 DEF HasCase
      <3>2. IsInt64(m.ExpireTimestamp)  BY DEF IsSwap, IsAtomicSwap
      <3>3. Delivers(c, 3, m.ExpireTimestamp, VarintField(24, m.ExpireTimestamp))
        BY ONLY <3>1, <3>2, IntDelivered
      <3> QED  BY ONLY <1>2, <1>4, <3>3
    <2>4. Delivers(c, 4, m[c[4].name], w[4])
      <3>1. HasCase(c, 32, 4, 0, Int64("Timestamp"))  BY <1>1 DEF HasCase
      <3>2. IsInt64(m.Timestamp)  BY DEF IsSwap, IsAtomicSwap
      <3>3. Delivers(c, 4, m.Timestamp, VarintField(32, m.Timestamp))
        BY ONLY <3>1, <3>2, IntDelivered
      <3> QED  BY ONLY <1>2, <1>4, <3>3
    <2>5. Delivers(c, 5, m[c[5].name], w[5])
      <3>1. HasCase(c, 42, 5, 2, Bytes("Sender"))  BY <1>1 DEF HasCase
      <3>2. IsText(m.Sender)  BY DEF IsSwap, IsAtomicSwap
      <3>3. Delivers(c, 5, m.Sender, BytesField(42, m.Sender))
        BY ONLY <3>1, <3>2, TextDelivered
      <3> QED  BY ONLY <1>2, <1>4, <3>3
    <2>6. Delivers(c, 6, m[c[6].name], w[6])
      <3>1. HasCase(c, 50, 6, 2, Bytes("Recipient"))  BY <1>1 DEF HasCase
      <3>2. IsText(m.Recipient)  BY DEF IsSwap, IsAtomicSwap
      <3>3. Delivers(c, 6, m.Recipient, BytesField(50, m.Recipient))
        BY ONLY <3>1, <3>2, TextDelivered
      <3> QED  BY ONLY <1>2, <1>4, <3>3
    <2>7. Delivers(c, 7, m[c[7].name], w[7])
      <3>1. HasCase(c, 58, 7, 2, Bytes("SenderOtherChain"))  BY <1>1 DEF HasCase
      <3>2. IsText(m.SenderOtherChain)  BY DEF IsSwap, IsAtomicSwap
      <3>3. Delivers(c, 7, m.SenderOtherChain, BytesField(58, m.SenderOtherChain))
        BY ONLY <3>1, <3>2, TextDelivered
      <3> QED  BY ONLY <1>2, <1>4, <3>3
    <2>8. Delivers(c, 8, m[c[8].name], w[8])
      <3>1. HasCase(c, 66, 8, 2, Bytes("RecipientOtherChain"))  BY <1>1 DEF HasCase
      <3>2. IsText(m.RecipientOtherChain)  BY DEF IsSwap, IsAtomicSwap
      <3>3. Delivers(c, 8, m.RecipientOtherChain, BytesField(66, m.RecipientOtherChain))
        BY ONLY <3>1, <3>2, TextDelivered
      <3> QED  BY ONLY <1>2, <1>4, <3>3
    <2>9. Delivers(c, 9, m[c[9].name], w[9])
      <3>1. HasCase(c, 72, 9, 0, Int64("ClosedBlock"))  BY <1>1 DEF HasCase
      <3>2. IsInt64(m.ClosedBlock)  BY DEF IsSwap, IsAtomicSwap
      <3>3. Delivers(c, 9, m.ClosedBlock, VarintField(72, m.ClosedBlock))
        BY ONLY <3>1, <3>2, IntDelivered
      <3> QED  BY ONLY <1>2, <1>4, <3>3
    <2>10. Delivers(c, 10, m[c[10].name], w[10])
      <3>1. HasCase(c, 80, 10, 0, Enum("Status"))  BY <1>1 DEF HasCase
      <3>2. m.Status \in 0 .. 255  BY DEF IsSwap, IsAtomicSwap
      <3>3. Delivers(c, 10, m.Status, VarintField(80, m.Status))
        BY ONLY <3>1, <3>2, EnumDelivered
      <3> QED  BY ONLY <1>2, <1>4, <3>3
    <2>11. Delivers(c, 11, m[c[11].name], w[11])
      <3>1. HasCase(c, 88, 11, 0, Bool("CrossChain"))  BY <1>1 DEF HasCase
      <3>2. m.CrossChain \in BOOLEAN  BY DEF IsSwap, IsAtomicSwap
      <3>3. Delivers(c, 11, m.CrossChain, BoolField(88, m.CrossChain))
        BY ONLY <3>1, <3>2, FlagDelivered
      <3> QED  BY ONLY <1>2, <1>4, <3>3
    <2>12. Delivers(c, 12, m[c[12].name], w[12])
      <3>1. HasCase(c, 96, 12, 0, Enum("Direction"))  BY <1>1 DEF HasCase
      <3>2. m.Direction \in 0 .. 255  BY DEF IsSwap, IsAtomicSwap
      <3>3. Delivers(c, 12, m.Direction, VarintField(96, m.Direction))
        BY ONLY <3>1, <3>2, EnumDelivered
      <3> QED  BY ONLY <1>2, <1>4, <3>3
    <2> QED
      BY ONLY <1>5, <2>1, <2>2, <2>3, <2>4, <2>5, <2>6, <2>7, <2>8, <2>9, <2>10, <2>11, <2>12
                     DEF AllDelivered
  <1>8. \A k \in 1 .. 12 : w[k] \in Seq(Byte)  BY <1>7 DEF AllDelivered, Delivers
  <1>9. PICK b : Written(12, w, b)  BY <1>8, PrefixesExist
  <1>10. d = b[12]
    <2>0. b[0] = <<>> /\ \A j \in 1 .. 12 : b[j] = b[j - 1] \o w[j]  BY <1>9 DEF Written
    <2>1. b[1] = p1
      <3>1. 1 \in 1 .. 12 /\ 1 - 1 = 0  OBVIOUS
      <3>2. b[1] = b[0] \o w[1]  BY ONLY <2>0, <3>1
      <3>3. w[1] \in Seq(Byte)  BY ONLY <1>8, <3>1
      <3>4. <<>> \o w[1] = w[1]  BY ONLY <3>3, ConcatEmptySeq
      <3> QED  BY ONLY <1>2, <2>0, <3>2, <3>4 DEF p1
    <2>2. b[2] = p2
      <3>1. 2 \in 1 .. 12 /\ 2 - 1 = 1  OBVIOUS
      <3>2. b[2] = b[1] \o w[2]  BY ONLY <2>0, <3>1
      <3> QED  BY ONLY <1>2, <2>1, <3>2 DEF p2
    <2>3. b[3] = p3
      <3>1. 3 \in 1 .. 12 /\ 3 - 1 = 2  OBVIOUS
      <3>2. b[3] = b[2] \o w[3]  BY ONLY <2>0, <3>1
      <3> QED  BY ONLY <1>2, <2>2, <3>2 DEF p3
    <2>4. b[4] = p4
      <3>1. 4 \in 1 .. 12 /\ 4 - 1 = 3  OBVIOUS
      <3>2. b[4] = b[3] \o w[4]  BY ONLY <2>0, <3>1
      <3> QED  BY ONLY <1>2, <2>3, <3>2 DEF p4
    <2>5. b[5] = p5
      <3>1. 5 \in 1 .. 12 /\ 5 - 1 = 4  OBVIOUS
      <3>2. b[5] = b[4] \o w[5]  BY ONLY <2>0, <3>1
      <3> QED  BY ONLY <1>2, <2>4, <3>2 DEF p5
    <2>6. b[6] = p6
      <3>1. 6 \in 1 .. 12 /\ 6 - 1 = 5  OBVIOUS
      <3>2. b[6] = b[5] \o w[6]  BY ONLY <2>0, <3>1
      <3> QED  BY ONLY <1>2, <2>5, <3>2 DEF p6
    <2>7. b[7] = p7
      <3>1. 7 \in 1 .. 12 /\ 7 - 1 = 6  OBVIOUS
      <3>2. b[7] = b[6] \o w[7]  BY ONLY <2>0, <3>1
      <3> QED  BY ONLY <1>2, <2>6, <3>2 DEF p7
    <2>8. b[8] = p8
      <3>1. 8 \in 1 .. 12 /\ 8 - 1 = 7  OBVIOUS
      <3>2. b[8] = b[7] \o w[8]  BY ONLY <2>0, <3>1
      <3> QED  BY ONLY <1>2, <2>7, <3>2 DEF p8
    <2>9. b[9] = p9
      <3>1. 9 \in 1 .. 12 /\ 9 - 1 = 8  OBVIOUS
      <3>2. b[9] = b[8] \o w[9]  BY ONLY <2>0, <3>1
      <3> QED  BY ONLY <1>2, <2>8, <3>2 DEF p9
    <2>10. b[10] = p10
      <3>1. 10 \in 1 .. 12 /\ 10 - 1 = 9  OBVIOUS
      <3>2. b[10] = b[9] \o w[10]  BY ONLY <2>0, <3>1
      <3> QED  BY ONLY <1>2, <2>9, <3>2 DEF p10
    <2>11. b[11] = p11
      <3>1. 11 \in 1 .. 12 /\ 11 - 1 = 10  OBVIOUS
      <3>2. b[11] = b[10] \o w[11]  BY ONLY <2>0, <3>1
      <3> QED  BY ONLY <1>2, <2>10, <3>2 DEF p11
    <2>12. b[12] = p12
      <3>1. 12 \in 1 .. 12 /\ 12 - 1 = 11  OBVIOUS
      <3>2. b[12] = b[11] \o w[12]  BY ONLY <2>0, <3>1
      <3> QED  BY ONLY <1>2, <2>11, <3>2 DEF p12
    <2> QED  BY ONLY <1>3, <2>12
  <1>11. 12 \in Nat  OBVIOUS
  <1>12. Reads(c, d, Start(c), ReaderOf(Len(d), m))
    BY ONLY Len(d) <= MaxInt, <1>6, <1>7, <1>9, <1>10, <1>11, MessageArrives
  <1> QED  BY <1>12 DEF c
-------------------------------------------------------------------------------
(* Messages on their way.                                                  *)

(* The loop goes on towards the reader that it reaches, and stops at it. *)
LEMMA ReadsOn ==
    ASSUME NEW c, NEW d, NEW r, NEW s, Reads(c, d, r, s), r # s
    PROVE  Reads(c, d, ReadField(c, d, r), s)
  <1> SUFFICES ASSUME NEW R, ReadField(c, d, r) \in R,
                      \A q \in R : q.ok /\ q.iNdEx < Len(d) => ReadField(c, d, q) \in R
               PROVE  s \in R
    BY DEF Reads
  <1> DEFINE T == R \union {r}
  <1>1. \A q \in T : ReadField(c, d, q) \in R \/ ~ (q.ok /\ q.iNdEx < Len(d))  OBVIOUS
  <1>2. s \in T  BY <1>1 DEF Reads
  <1> QED  BY <1>2

LEMMA ReadsStop ==
    ASSUME NEW c, NEW d, NEW r, NEW s, Reads(c, d, r, s), ~ (r.ok /\ r.iNdEx < Len(d))
    PROVE  r = s
  <1> DEFINE R == {r}
  <1>1. \A q \in R : ~ (q.ok /\ q.iNdEx < Len(d))  OBVIOUS
  <1>2. s \in R  BY <1>1 DEF Reads
  <1> QED  BY <1>2

\* The message is that of a transaction, or a swap that is stored.
Sends(m) ==
    \/ /\ IsSwap(m)
       /\ Marshalled(AtomicSwapCases, m, SizeAtomicSwap(m), MarshalAtomicSwap(m))
    \/ /\ IsCreate(m)
       /\ Marshalled(MsgCreateAtomicSwapCases, m, SizeMsgCreateAtomicSwap(m),
                     MarshalMsgCreateAtomicSwap(m))
    \/ /\ IsClaim(m)
       /\ Marshalled(MsgClaimAtomicSwapCases, m, SizeMsgClaimAtomicSwap(m),
                     MarshalMsgClaimAtomicSwap(m))
    \/ /\ IsRefund(m)
       /\ Marshalled(MsgRefundAtomicSwapCases, m, SizeMsgRefundAtomicSwap(m),
                     MarshalMsgRefundAtomicSwap(m))

\* While the bytes are those that were written, the loop still reaches the message.
ArrivalInv ==
    /\ ReaderInv
    /\ phase # "panicked"
    /\ phase = "carried" => reader = Start(cases)
    /\ ~ extended /\ ~ garbled =>
          /\ phase # "returned" => Reads(cases, data, reader, ReaderOf(Len(data), sent))
          /\ phase = "returned" => reader.ok /\ reader.m = sent

LEMMA SentArrivalInv ==
    ASSUME UnmarshalLoops, Init, IsSlice, NEW m, Sends(m)
    PROVE  ArrivalInv
  <1>1. ASSUME NEW c, NEW size, NEW w, Marshalled(c, m, size, w), FitsBuffer(size, w),
               Filled(size, w) = w,
               Len(w) <= MaxInt => Reads(c, w, Start(c), ReaderOf(Len(w), m))
        PROVE  ArrivalInv
    <2>1. cases = c /\ sent = m /\ data = w /\ phase = "carried"  BY <1>1 DEF Marshalled
    <2>2. reader = Start(cases)  BY DEF Init
    <2>3. Reads(cases, data, reader, ReaderOf(Len(data), sent))  BY <1>1, <2>1, <2>2 DEF IsSlice
    <2>4. ReaderInv  BY InitReaderInv
    <2> QED  BY <2>1, <2>2, <2>3, <2>4 DEF ArrivalInv
  <1>2. CASE IsSwap(m)
               /\ Marshalled(AtomicSwapCases, m, SizeAtomicSwap(m), MarshalAtomicSwap(m))
    <2> DEFINE w == MarshalAtomicSwap(m)
    <2>1. Len(w) <= MaxInt => Reads(AtomicSwapCases, w, Start(AtomicSwapCases),
          ReaderOf(Len(w), m))
      BY <1>2, SwapArrives
    <2>2. FitsBuffer(SizeAtomicSwap(m), w) /\ Filled(SizeAtomicSwap(m), w) = w
      BY <1>2, SwapsFillBuffers DEF IsSwap
    <2> QED  BY <1>1, <1>2, <2>1, <2>2
  <1>3. CASE IsCreate(m) /\ Marshalled(MsgCreateAtomicSwapCases, m, SizeMsgCreateAtomicSwap(m),
                                       MarshalMsgCreateAtomicSwap(m))
    <2> DEFINE w == MarshalMsgCreateAtomicSwap(m)
               c == MsgCreateAtomicSwapCases
    <2>1. Len(w) <= MaxInt => Reads(c, w, Start(c), ReaderOf(Len(w), m))
      BY <1>3, CreateArrives
    <2>2. FitsBuffer(SizeMsgCreateAtomicSwap(m), w) /\ Filled(SizeMsgCreateAtomicSwap(m), w) = w
      BY <1>3, TransactionsFillBuffers DEF IsCreate
    <2> QED  BY <1>1, <1>3, <2>1, <2>2
  <1>4. CASE IsClaim(m) /\ Marshalled(MsgClaimAtomicSwapCases, m, SizeMsgClaimAtomicSwap(m),
                                      MarshalMsgClaimAtomicSwap(m))
    <2> DEFINE w == MarshalMsgClaimAtomicSwap(m)
               c == MsgClaimAtomicSwapCases
    <2>1. Len(w) <= MaxInt => Reads(c, w, Start(c), ReaderOf(Len(w), m))
      BY <1>4, ClaimArrives
    <2>2. FitsBuffer(SizeMsgClaimAtomicSwap(m), w) /\ Filled(SizeMsgClaimAtomicSwap(m), w) = w
      BY <1>4, TransactionsFillBuffers DEF IsClaim
    <2> QED  BY <1>1, <1>4, <2>1, <2>2
  <1>5. CASE IsRefund(m) /\ Marshalled(MsgRefundAtomicSwapCases, m, SizeMsgRefundAtomicSwap(m),
                                       MarshalMsgRefundAtomicSwap(m))
    <2> DEFINE w == MarshalMsgRefundAtomicSwap(m)
               c == MsgRefundAtomicSwapCases
    <2>1. Len(w) <= MaxInt => Reads(c, w, Start(c), ReaderOf(Len(w), m))
      BY <1>5, RefundArrives
    <2>2. FitsBuffer(SizeMsgRefundAtomicSwap(m), w) /\ Filled(SizeMsgRefundAtomicSwap(m), w) = w
      BY <1>5, TransactionsFillBuffers DEF IsRefund
    <2> QED  BY <1>1, <1>5, <2>1, <2>2
  <1> QED  BY <1>2, <1>3, <1>4, <1>5 DEF Sends

LEMMA NextArrivalInv == ArrivalInv /\ IsSlice' /\ [Next]_vars => ArrivalInv'
  <1> SUFFICES ASSUME ArrivalInv, IsSlice', [Next]_vars PROVE ArrivalInv'  OBVIOUS
  <1>1. ReaderInv' /\ ReaderInv  BY NextReaderInv DEF ArrivalInv
  <1> DEFINE final == ReaderOf(Len(data), sent)
  <1>2. final.ok = TRUE /\ final.iNdEx = Len(data) /\ final.m = sent  BY DEF ReaderOf
  <1>3. CASE Extend
    <2>1. extended' = TRUE /\ phase = "carried" /\ UNCHANGED <<cases, phase, reader>>
      BY <1>3 DEF Extend
    <2> QED  BY <1>1, <2>1 DEF ArrivalInv
  <1>4. CASE Garble
    <2>1. garbled' = TRUE /\ phase = "carried" /\ UNCHANGED <<cases, phase, reader>>
      BY <1>4 DEF Garble
    <2> QED  BY <1>1, <2>1 DEF ArrivalInv
  <1>5. CASE Deliver
    <2>1. phase = "carried" /\ phase' = "reading"
            /\ UNCHANGED <<cases, sent, data, extended, garbled, reader>>
      BY <1>5 DEF Deliver
    <2> QED  BY <1>1, <2>1 DEF ArrivalInv
  <1>6. CASE ReadNext
    <2>1. /\ phase = "reading" /\ reader.iNdEx < Len(data)
            /\ reader' = ReadField(cases, data, reader)
          /\ UNCHANGED <<cases, sent, data, extended, garbled, phase>>
      BY <1>6 DEF ReadNext
    <2>2. ASSUME ~ extended, ~ garbled PROVE Reads(cases, data, reader', final)
      <3>1. Reads(cases, data, reader, final)  BY <2>1, <2>2 DEF ArrivalInv
      <3>2. Len(data) \in Nat  BY <1>1 DEF ReaderInv, TypeOK, IsSlice
      <3>3. reader # final  BY <1>2, <2>1, <3>2
      <3> HIDE DEF final
      <3> QED  BY <2>1, <3>1, <3>3, ReadsOn
    <2> QED  BY <1>1, <2>1, <2>2 DEF ArrivalInv
  <1>7. CASE Return
    <2>1. /\ phase = "reading" /\ phase' = "returned"
            /\ (~ reader.ok \/ reader.iNdEx >= Len(data))
          /\ reader' = [reader EXCEPT !.ok = reader.ok /\ reader.iNdEx = Len(data)]
          /\ UNCHANGED <<cases, sent, data, extended, garbled>>
      BY <1>7 DEF Return
    <2>2. ASSUME ~ extended, ~ garbled PROVE reader'.ok /\ reader'.m = sent
      <3>1. Reads(cases, data, reader, final)  BY <2>1, <2>2 DEF ArrivalInv
      <3>2. ~ (reader.ok /\ reader.iNdEx < Len(data))
        <4>1. reader.ok => reader.iNdEx \in 0 .. Len(data)  BY <1>1 DEF ReaderInv, TypeOK
        <4>2. Len(data) \in Nat  BY <1>1 DEF ReaderInv, TypeOK, IsSlice
        <4> QED  BY <2>1, <4>1, <4>2
      <3>3. reader = final
        <4> HIDE DEF final
        <4> QED  BY <3>1, <3>2, ReadsStop
      <3>4. reader = [ok |-> TRUE, iNdEx |-> Len(data), m |-> sent]  BY <3>3 DEF ReaderOf
      <3> QED  BY <2>1, <3>4
    <2> QED  BY <1>1, <2>1, <2>2 DEF ArrivalInv
  <1>8. CASE UNCHANGED vars
    BY <1>1, <1>8 DEF vars, ArrivalInv
  <1> QED  BY <1>3, <1>4, <1>5, <1>6, <1>7, <1>8 DEF Next

(* A swap that is stored, and the message of a transaction that creates,    *)
(* claims or refunds one, is written without a panic and read back as it    *)
(* was, unless a field was added to it or its bytes were altered.           *)
THEOREM SwapsArrive ==
    ASSUME UnmarshalLoops
    PROVE  Spec /\ (\E m : Sends(m)) /\ []IsSlice => [](~ extended => MessagesArrive)
  <1>1. Init /\ (\E m : Sends(m)) /\ IsSlice => ArrivalInv  BY SentArrivalInv
  <1>2. ArrivalInv => (~ extended => MessagesArrive)  BY DEF ArrivalInv, MessagesArrive
  <1> QED  BY <1>1, <1>2, NextArrivalInv, PTL DEF Spec
===============================================================================
