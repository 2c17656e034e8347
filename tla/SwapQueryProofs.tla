---------------------------- MODULE SwapQueryProofs ----------------------------
(***************************************************************************)
(* Every question is answered with the records that match it, each once    *)
(* and in the order of the store, whatever the store, the filters and the  *)
(* size of the pages.                                                      *)
(***************************************************************************)
EXTENDS SwapQuery, FiniteSums, SequenceTheorems

-------------------------------------------------------------------------------
(* The loop that filters swaps.                                            *)

\* The function that Matching defines, for the first n swaps.
Filters(f, swaps, q, n) ==
    f = [i \in 0 .. n |->
            IF i = 0 THEN <<>>
            ELSE IF Matches(swaps[i], q) THEN Append(f[i - 1], i)
            ELSE f[i - 1]]

(* The loop has a result after any number of swaps. *)
LEMMA FiltersExists ==
    ASSUME NEW swaps, NEW q, NEW n \in Nat
    PROVE  \E f : Filters(f, swaps, q, n)
  <1> DEFINE B == {m \in 0 .. n : ~ \E f : Filters(f, swaps, q, m)}
  <1> SUFFICES ASSUME B # {} PROVE FALSE  OBVIOUS
  <1>1. PICK k \in B : \A m \in B : k <= m
    <2>1. B \subseteq 0 .. n  OBVIOUS
    <2> HIDE DEF B
    <2> QED  BY <2>1, SmallestNumber
  <1>2. k \in 0 .. n /\ ~ \E f : Filters(f, swaps, q, k)  BY <1>1
  <1>3. k # 0
    <2>1. Filters([i \in 0 .. 0 |-> <<>>], swaps, q, 0)  BY DEF Filters
    <2> QED  BY <1>2, <2>1
  <1>4. k - 1 \in 0 .. n /\ k - 1 \notin B  BY <1>1, <1>2, <1>3
  <1>5. PICK f : Filters(f, swaps, q, k - 1)  BY <1>4
  <1> DEFINE last == IF Matches(swaps[k], q) THEN Append(f[k - 1], k) ELSE f[k - 1]
             g == [i \in 0 .. k |-> IF i = k THEN last ELSE f[i]]
  <1>6. ASSUME NEW i \in 0 .. k
        PROVE  g[i] = IF i = 0 THEN <<>>
                      ELSE IF Matches(swaps[i], q) THEN Append(g[i - 1], i)
                      ELSE g[i - 1]
    <2>1. CASE i = k
      <3>1. k - 1 \in 0 .. k /\ k - 1 # k  BY <1>2, <1>3
      <3>2. g[k - 1] = f[k - 1]  BY <3>1
      <3>3. g[k] = last  BY <1>2
      <3> QED  BY <1>3, <2>1, <3>2, <3>3
    <2>2. CASE i # k
      <3>1. i \in 0 .. k - 1  BY <1>2, <2>2
      <3>2. g[i] = f[i]  BY <2>2
      <3>3. i # 0 => i - 1 \in 0 .. k /\ i - 1 # k  BY <1>2, <3>1
      <3>4. i # 0 => g[i - 1] = f[i - 1]  BY <3>3
      <3>5. f[i] = IF i = 0 THEN <<>> ELSE IF Matches(swaps[i], q) THEN Append(f[i - 1], i) ELSE f[i - 1]
        BY <1>5, <3>1 DEF Filters
      <3> QED  BY <3>2, <3>4, <3>5
    <2> QED  BY <2>1, <2>2
  <1>7. Filters(g, swaps, q, k)
    <2>1. g = [i \in 0 .. k |-> g[i]]  OBVIOUS
    <2> HIDE DEF g
    <2> QED  BY <1>6, <2>1 DEF Filters
  <1> QED  BY <1>2, <1>7

\* A list of all numbers of a set, each once and in their order.
Lists(seq, S) ==
    /\ seq \in Seq(S) /\ Len(seq) = Cardinality(S)
    /\ \A i, j \in 1 .. Len(seq) : i < j => seq[i] < seq[j]

\* The places of the first n swaps that match.
MatchingPlaces(swaps, q, n) == {i \in 1 .. n : Matches(swaps[i], q)}

(* A list stays one when a number beyond it is appended. *)
LEMMA ListsAppend ==
    ASSUME NEW k \in Nat, NEW S, S \subseteq 1 .. k - 1, NEW seq, Lists(seq, S)
    PROVE  Lists(Append(seq, k), S \cup {k})
  <1> DEFINE new == Append(seq, k)
  <1>1. seq \in Seq(S) /\ Len(seq) = Cardinality(S) /\ Len(seq) \in Nat  BY DEF Lists
  <1>2. seq \in Seq(S \cup {k})  BY <1>1
  <1>3. /\ new \in Seq(S \cup {k}) /\ Len(new) = Len(seq) + 1
        /\ \A i \in 1 .. Len(seq) : new[i] = seq[i]
        /\ new[Len(seq) + 1] = k
    BY <1>2
  <1>4. IsFiniteSet(S)
    <2>1. IsFiniteSet(1 .. k - 1)  BY FS_Interval
    <2> QED  BY <2>1, FS_Subset
  <1>5. k \notin S  OBVIOUS
  <1>6. Cardinality(S \cup {k}) = Cardinality(S) + 1  BY <1>4, <1>5, FS_AddElement
  <1>7. \A i \in 1 .. Len(seq) : seq[i] \in S  BY <1>1
  <1>8. \A x \in S : x < k  OBVIOUS
  <1>9. ASSUME NEW i \in 1 .. Len(new), NEW j \in 1 .. Len(new), i < j
        PROVE  new[i] < new[j]
    <2> HIDE DEF new
    <2>1. i \in 1 .. Len(seq) /\ new[i] = seq[i] /\ seq[i] \in S  BY <1>1, <1>3, <1>7, <1>9
    <2>2. CASE j \in 1 .. Len(seq)  BY <1>3, <1>9, <2>1, <2>2 DEF Lists
    <2>3. CASE j \notin 1 .. Len(seq)
      <3>1. j = Len(seq) + 1  BY <1>1, <1>3, <2>3
      <3>2. new[j] = k  BY <1>3, <3>1
      <3>3. seq[i] < k  BY <1>8, <2>1
      <3> QED  BY <2>1, <3>2, <3>3
    <2> QED  BY <2>2, <2>3
  <1> HIDE DEF new
  <1> QED  BY <1>1, <1>3, <1>6, <1>9 DEF Lists

(* The loop lists the places of the swaps that match. *)
LEMMA FiltersLists ==
    ASSUME NEW swaps, NEW q, NEW n \in Nat, NEW f, Filters(f, swaps, q, n)
    PROVE  Lists(f[n], MatchingPlaces(swaps, q, n))
  <1> DEFINE B == {m \in 0 .. n : ~ Lists(f[m], MatchingPlaces(swaps, q, m))}
  <1> SUFFICES ASSUME B # {} PROVE FALSE  OBVIOUS
  <1>1. PICK k \in B : \A m \in B : k <= m
    <2>1. B \subseteq 0 .. n  OBVIOUS
    <2> HIDE DEF B
    <2> QED  BY <2>1, SmallestNumber
  <1>2. k \in 0 .. n /\ ~ Lists(f[k], MatchingPlaces(swaps, q, k))  BY <1>1
  <1>3. f[k] = IF k = 0 THEN <<>> ELSE IF Matches(swaps[k], q) THEN Append(f[k - 1], k) ELSE f[k - 1]
    BY <1>2 DEF Filters
  <1>4. k # 0
    <2>1. MatchingPlaces(swaps, q, 0) = {}  BY DEF MatchingPlaces
    <2>2. Cardinality({}) = 0  BY FS_EmptySet
    <2>3. Lists(<<>>, {})  BY <2>2 DEF Lists
    <2> QED  BY <1>2, <1>3, <2>1, <2>3
  <1>5. k \in Nat /\ k - 1 \in 0 .. n /\ k - 1 \notin B  BY <1>1, <1>2, <1>4
  <1>6. Lists(f[k - 1], MatchingPlaces(swaps, q, k - 1))  BY <1>5
  <1>7. CASE Matches(swaps[k], q)
    <2>1. MatchingPlaces(swaps, q, k) = MatchingPlaces(swaps, q, k - 1) \cup {k}
      BY <1>4, <1>5, <1>7 DEF MatchingPlaces
    <2>2. MatchingPlaces(swaps, q, k - 1) \subseteq 1 .. k - 1  BY DEF MatchingPlaces
    <2>3. Lists(Append(f[k - 1], k), MatchingPlaces(swaps, q, k - 1) \cup {k})
      BY <1>5, <1>6, <2>2, ListsAppend
    <2> QED  BY <1>2, <1>3, <1>4, <1>7, <2>1, <2>3
  <1>8. CASE ~ Matches(swaps[k], q)
    <2>1. MatchingPlaces(swaps, q, k) = MatchingPlaces(swaps, q, k - 1)
      BY <1>4, <1>5, <1>8 DEF MatchingPlaces
    <2> QED  BY <1>2, <1>3, <1>4, <1>6, <1>8, <2>1
  <1> QED  BY <1>7, <1>8

(* filterAtomicSwaps keeps the swaps that match, in order (querier.go:135). *)
LEMMA MatchingLists ==
    ASSUME NEW swaps, NEW q, Len(swaps) \in Nat
    PROVE  Lists(Matching(swaps, q), MatchingPlaces(swaps, q, Len(swaps)))
  <1> DEFINE n == Len(swaps)
             f == CHOOSE g : Filters(g, swaps, q, n)
  <1>1. \E g : Filters(g, swaps, q, n)  BY FiltersExists
  <1>2. Filters(f, swaps, q, n)  BY <1>1
  <1>3. Matching(swaps, q) = f[n]  BY DEF Matching, Filters
  <1>4. Lists(f[n], MatchingPlaces(swaps, q, n))
    <2> HIDE DEF f
    <2> QED  BY <1>2, FiltersLists
  <1> QED  BY <1>3, <1>4

(* A list of numbers is a sequence of numbers. *)
LEMMA ListsNumbers ==
    ASSUME NEW S, S \subseteq Nat, NEW seq, Lists(seq, S)
    PROVE  seq \in Seq(Nat)
  <1>1. seq \in Seq(S)  BY DEF Lists
  <1>2. Len(seq) \in Nat /\ seq = [i \in 1 .. Len(seq) |-> seq[i]]  BY <1>1
  <1>3. \A i \in 1 .. Len(seq) : seq[i] \in Nat  BY <1>1, ElementOfSeq
  <1> QED  BY <1>2, <1>3

(* The loop has one result. *)
LEMMA FiltersUnique ==
    ASSUME NEW swaps, NEW q, NEW n \in Nat, NEW f, NEW g,
           Filters(f, swaps, q, n), Filters(g, swaps, q, n)
    PROVE  f = g
  <1> DEFINE B == {m \in 0 .. n : f[m] # g[m]}
  <1>1. B = {}
    <2> SUFFICES ASSUME B # {} PROVE FALSE  OBVIOUS
    <2>1. PICK k \in B : \A m \in B : k <= m
      <3>1. B \subseteq 0 .. n  OBVIOUS
      <3> HIDE DEF B
      <3> QED  BY <3>1, SmallestNumber
    <2>2. k \in 0 .. n /\ f[k] # g[k]  BY <2>1
    <2>3. /\ f[k] = IF k = 0 THEN <<>> ELSE IF Matches(swaps[k], q) THEN Append(f[k - 1], k) ELSE f[k - 1]
          /\ g[k] = IF k = 0 THEN <<>> ELSE IF Matches(swaps[k], q) THEN Append(g[k - 1], k) ELSE g[k - 1]
      BY <2>2 DEF Filters
    <2>4. k # 0  BY <2>2, <2>3
    <2>5. k - 1 \in 0 .. n /\ k - 1 \notin B  BY <2>1, <2>2, <2>4
    <2>6. f[k - 1] = g[k - 1]  BY <2>5
    <2> QED  BY <2>2, <2>3, <2>4, <2>6
  <1>2. \A m \in 0 .. n : f[m] = g[m]  BY <1>1
  <1>3. f = [m \in 0 .. n |-> f[m]] /\ g = [m \in 0 .. n |-> g[m]]  BY DEF Filters
  <1> QED  BY <1>2, <1>3

(* Requests for other pages filter the same swaps. *)
LEMMA MatchingSame ==
    ASSUME NEW swaps, Len(swaps) \in Nat, NEW q, NEW r, \A s : Matches(s, q) <=> Matches(s, r)
    PROVE  Matching(swaps, q) = Matching(swaps, r)
  <1> DEFINE n == Len(swaps)
             f == CHOOSE h : Filters(h, swaps, q, n)
             g == CHOOSE h : Filters(h, swaps, r, n)
  <1>1. (\E h : Filters(h, swaps, q, n)) /\ \E h : Filters(h, swaps, r, n)  BY FiltersExists
  <1>2. Filters(f, swaps, q, n) /\ Filters(g, swaps, r, n)  BY <1>1
  <1>3. Matching(swaps, q) = f[n] /\ Matching(swaps, r) = g[n]  BY DEF Matching, Filters
  <1>4. f = g
    <2> HIDE DEF f, g
    <2>1. Filters(g, swaps, q, n)  BY <1>2 DEF Filters
    <2> QED  BY <1>2, <2>1, FiltersUnique
  <1> QED  BY <1>3, <1>4

-------------------------------------------------------------------------------
(* Pages.                                                                  *)

PageSize(q) == IF q.limit = 0 THEN DefaultLimit ELSE q.limit

PageStart(q) == (q.page - 1) * PageSize(q)

\* The first n elements of a list, or all of them if there are fewer.
Begins(part, seq, n) ==
    /\ part \in Seq(Nat) /\ Len(part) = IF n <= Len(seq) THEN n ELSE Len(seq)
    /\ \A i \in 1 .. Len(part) : part[i] = seq[i]

(* A list that begins another one goes on with what comes next. *)
LEMMA BeginsLonger ==
    ASSUME NEW seq \in Seq(Nat), NEW start \in Nat, NEW end \in Nat, start < end, end <= Len(seq),
           NEW part, Begins(part, seq, start)
    PROVE  /\ SubSeq(seq, start + 1, end) # <<>>
           /\ Begins(part \o SubSeq(seq, start + 1, end), seq, end)
  <1> DEFINE answer == SubSeq(seq, start + 1, end)
  <1>1. Len(seq) \in Nat /\ \A i \in 1 .. Len(seq) : seq[i] \in Nat  OBVIOUS
  <1>2. /\ answer \in Seq(Nat) /\ Len(answer) = end - start
        /\ \A i \in 1 .. end - start : answer[i] = seq[start + i]
    <2>1. \A i \in start + 1 .. end : seq[i] \in Nat  BY <1>1
    <2>2. start + 1 \in Int /\ end \in Int  OBVIOUS
    <2>3. /\ answer \in Seq(Nat)
          /\ Len(answer) = IF start + 1 <= end THEN end - (start + 1) + 1 ELSE 0
          /\ \A i \in 1 .. end - (start + 1) + 1 : answer[i] = seq[start + 1 + i - 1]
      BY <2>1, <2>2, SubSeqProperties
    <2> HIDE DEF answer
    <2>4. end - (start + 1) + 1 = end - start /\ start + 1 <= end  OBVIOUS
    <2>5. \A i \in 1 .. end - start : start + 1 + i - 1 = start + i  OBVIOUS
    <2> QED  BY <2>3, <2>4, <2>5
  <1>3. /\ part \in Seq(Nat) /\ Len(part) = start
        /\ \A i \in 1 .. start : part[i] = seq[i]
    BY <1>1 DEF Begins
  <1> HIDE DEF answer
  <1> DEFINE longer == part \o answer
  <1>4. /\ longer \in Seq(Nat) /\ Len(longer) = Len(part) + Len(answer)
        /\ \A i \in 1 .. Len(part) + Len(answer) :
              longer[i] = IF i <= Len(part) THEN part[i] ELSE answer[i - Len(part)]
    <2>1. part \in Seq(Nat) /\ answer \in Seq(Nat)  BY <1>2, <1>3
    <2> QED  BY ONLY <2>1, ConcatProperties
  <1> HIDE DEF longer
  <1>5. Len(part) + Len(answer) = end  BY <1>2, <1>3
  <1>6. ASSUME NEW i \in 1 .. end PROVE longer[i] = seq[i]
    <2>1. CASE i <= start
      <3>1. i \in 1 .. start  BY <2>1
      <3> QED  BY <1>3, <1>4, <1>5, <2>1, <3>1
    <2>2. CASE ~ (i <= start)
      <3>1. i - start \in 1 .. end - start /\ start + (i - start) = i  BY <2>2
      <3>2. longer[i] = answer[i - start]  BY <1>3, <1>4, <1>5, <2>2
      <3>3. answer[i - start] = seq[start + (i - start)]  BY <1>2, <3>1
      <3> QED  BY <3>1, <3>2, <3>3
    <2> QED  BY <2>1, <2>2
  <1>7. Begins(longer, seq, end)  BY <1>4, <1>5, <1>6 DEF Begins
  <1>8. answer # <<>>
    <2>1. Len(answer) > 0  BY <1>2
    <2> QED  BY <2>1
  <1> QED  BY <1>7, <1>8 DEF longer, answer

(* A list that has everything has as much as one more page. *)
LEMMA BeginsAll ==
    ASSUME NEW seq \in Seq(Nat), NEW n \in Nat, n >= Len(seq), NEW m \in Nat, m >= Len(seq),
           NEW part, Begins(part, seq, n)
    PROVE  Len(part) = Len(seq) /\ Begins(part, seq, m)
  BY DEF Begins

(* Where a page starts. *)
LEMMA PageTypes ==
    ASSUME NEW q, q.page \in Nat \ {0}, q.limit \in Nat
    PROVE  PageSize(q) \in Nat \ {0} /\ PageStart(q) \in Nat
  <1>1. PageSize(q) \in Nat \ {0}  BY QueryAssumption DEF PageSize
  <1>2. q.page - 1 \in Nat  OBVIOUS
  <1> QED  BY <1>1, <1>2 DEF PageStart

(* The range of a page, when it has one. *)
LEMMA PaginateRange ==
    ASSUME NEW len \in Nat, NEW q, q.page \in Nat \ {0}, q.limit \in Nat
    PROVE  Paginate(len, q.page, q.limit) =
             IF PageStart(q) >= len THEN <<-1, -1>>
             ELSE <<PageStart(q), IF PageStart(q) + PageSize(q) >= len THEN len
                                  ELSE PageStart(q) + PageSize(q)>>
  BY DEF Paginate, PageStart, PageSize

(* What filterAtomicSwaps cuts out of the swaps that match.                 *)
LEMMA PageOfSwaps ==
    ASSUME NEW swaps, NEW q, q.page \in Nat \ {0}, q.limit \in Nat, Len(Matching(swaps, q)) \in Nat
    PROVE  LET len == Len(Matching(swaps, q))
               end == PageStart(q) + PageSize(q)
           IN  filterAtomicSwaps(swaps, q) =
                 IF PageStart(q) >= len THEN <<>>
                 ELSE SubSeq(Matching(swaps, q), PageStart(q) + 1, IF end >= len THEN len ELSE end)
  <1> DEFINE seq == Matching(swaps, q)
             len == Len(seq)
             start == PageStart(q)
             size == PageSize(q)
             end == IF start + size >= len THEN len ELSE start + size
             range == Paginate(len, q.page, q.limit)
  <1>1. /\ size \in Nat \ {0} /\ start \in Nat
        /\ range = IF start >= len THEN <<-1, -1>> ELSE <<start, end>>
    BY PageTypes, PaginateRange
  <1>2. filterAtomicSwaps(swaps, q) =
            IF range[1] < 0 \/ range[2] < 0 THEN <<>> ELSE SubSeq(seq, range[1] + 1, range[2])
    BY DEF filterAtomicSwaps
  <1>3. end \in Nat  BY <1>1
  <1> HIDE DEF range, seq, start, size, end, len
  <1>4. CASE start >= len
    <2>1. range[1] = -1  BY <1>1, <1>4
    <2>2. filterAtomicSwaps(swaps, q) = <<>>  BY <1>2, <2>1
    <2> QED  BY <1>4, <2>2 DEF start, len, seq
  <1>5. CASE ~ (start >= len)
    <2>1. range[1] = start /\ range[2] = end  BY <1>1, <1>5
    <2>2. ~ (range[1] < 0) /\ ~ (range[2] < 0)  BY <1>1, <1>3, <2>1
    <2>3. filterAtomicSwaps(swaps, q) = SubSeq(seq, start + 1, end)  BY <1>2, <2>1, <2>2
    <2> QED  BY <1>5, <2>3 DEF start, size, end, len, seq
  <1> QED  BY <1>4, <1>5

(* An empty page says that the pages before it have everything; and a page  *)
(* continues them.                                                         *)
LEMMA PageContinues ==
    ASSUME NEW swaps, NEW q, q.page \in Nat \ {0}, q.limit \in Nat,
           Matching(swaps, q) \in Seq(Nat), NEW part, Begins(part, Matching(swaps, q), PageStart(q))
    PROVE  /\ filterAtomicSwaps(swaps, q) = <<>> => Len(part) = Len(Matching(swaps, q))
           /\ Begins(part \o filterAtomicSwaps(swaps, q), Matching(swaps, q), PageStart(q) + PageSize(q))
  <1> DEFINE seq == Matching(swaps, q)
             len == Len(seq)
             start == PageStart(q)
             size == PageSize(q)
             end == IF start + size >= len THEN len ELSE start + size
             answer == filterAtomicSwaps(swaps, q)
  <1>1. seq \in Seq(Nat) /\ len \in Nat  OBVIOUS
  <1>2. size \in Nat \ {0} /\ start \in Nat  BY PageTypes
  <1>3. answer = IF start >= len THEN <<>> ELSE SubSeq(seq, start + 1, end)  BY PageOfSwaps
  <1>4. Begins(part, seq, start)  OBVIOUS
  <1> HIDE DEF seq, start, size, answer
  <1>5. CASE start >= len
    <2>1. answer = <<>>  BY <1>3, <1>5
    <2>2. start + size \in Nat /\ start + size >= len  BY <1>1, <1>2, <1>5
    <2>3. Len(part) = len /\ Begins(part, seq, start + size)
      BY <1>1, <1>2, <1>4, <1>5, <2>2, BeginsAll
    <2>4. part \o answer = part
      <3>1. part \in Seq(Nat)  BY <1>4 DEF Begins
      <3> QED  BY <2>1, <3>1, ConcatEmptySeq
    <2> QED  BY <2>3, <2>4 DEF seq, start, size, answer
  <1>6. CASE start < len
    <2>1. end \in Nat /\ start < end /\ end <= len  BY <1>1, <1>2, <1>6
    <2>2. answer = SubSeq(seq, start + 1, end)  BY <1>1, <1>2, <1>3, <1>6
    <2> HIDE DEF end
    <2>3. answer # <<>> /\ Begins(part \o answer, seq, end)
      BY <1>1, <1>2, <1>4, <2>1, <2>2, BeginsLonger
    <2>4. Begins(part \o answer, seq, start + size)
      <3>1. CASE start + size < len
        <4>1. end = start + size  BY <1>1, <1>2, <3>1 DEF end
        <4> QED  BY <2>3, <4>1
      <3>2. CASE start + size >= len
        <4>1. end = len  BY <3>2 DEF end
        <4>2. start + size \in Nat /\ len >= len  BY <1>1, <1>2
        <4> QED  BY <1>1, <2>3, <3>2, <4>1, <4>2, BeginsAll
      <3> QED  BY <1>1, <1>2, <3>1, <3>2
    <2> QED  BY <2>3, <2>4 DEF seq, start, size, answer
  <1> QED  BY <1>1, <1>2, <1>5, <1>6

-------------------------------------------------------------------------------
(* The request of a question about swaps.                                   *)

\* The request for a page of the swaps that are asked for.
PageOf(page, limit) == [NewQueryAtomicSwaps(question, limit) EXCEPT !.page = page]

(* Words that are not refused filter as they say (querier.go:138-156).      *)
LEMMA FiltersAsAsked ==
    ASSUME question \in Question, question.rpc = "Swaps", ~ Refused(question),
           NEW page \in Nat, NEW limit \in Nat, NEW s
    PROVE  Matches(s, PageOf(page, limit)) <=> AskedSwap(s)
  <1> DEFINE q == PageOf(page, limit)
  <1>1. /\ q.involve = question.involve /\ q.expiration = question.expiration
        /\ q.status = NewSwapStatusFromString(question.status)
        /\ q.direction = NewSwapDirectionFromString(question.direction)
    BY DEF PageOf, NewQueryAtomicSwaps
  <1>2. question.expiration \in Nat  BY DEF Question
  <1>3. (StatusIsValid(q.status) => s.status = q.status)
           <=> StandsFor(question.status, StatusWords, s.status)
    <2>1. NotAsked \notin DOMAIN StatusWords  BY DEF NotAsked, StatusWords
    <2>2. ~ StatusIsValid("NULL")  BY DEF StatusIsValid
    <2>3. question.status # NotAsked => StatusIsValid(NewSwapStatusFromString(question.status))
      BY DEF Refused
    <2> QED  BY <1>1, <2>1, <2>2, <2>3 DEF StandsFor, NewSwapStatusFromString
  <1>4. (DirectionIsValid(q.direction) => s.direction = q.direction)
           <=> StandsFor(question.direction, DirectionWords, s.direction)
    <2>1. NotAsked \notin DOMAIN DirectionWords  BY DEF NotAsked, DirectionWords
    <2>2. ~ DirectionIsValid("INVALID")  BY DEF DirectionIsValid
    <2>3. question.direction # NotAsked => DirectionIsValid(NewSwapDirectionFromString(question.direction))
      BY DEF Refused
    <2> QED  BY <1>1, <2>1, <2>2, <2>3 DEF StandsFor, NewSwapDirectionFromString
  <1>5. (q.involve # NotAsked => s.sender = q.involve \/ s.recipient = q.involve)
           <=> question.involve \in {NotAsked, s.sender, s.recipient}
    BY <1>1
  <1>6. (q.expiration > 0 => s.expire <= q.expiration)
           <=> question.expiration = 0 \/ s.expire <= question.expiration
    BY <1>1, <1>2
  <1> HIDE DEF q
  <1> QED  BY <1>3, <1>4, <1>5, <1>6 DEF Matches, AskedSwap, q

(* So the places that match are those of the swaps asked for.               *)
LEMMA AskedPlaces ==
    ASSUME store \in Store, question \in Question, question.rpc = "Swaps", ~ Refused(question),
           NEW page \in Nat, NEW limit \in Nat
    PROVE  /\ Len(store.swaps) \in Nat
           /\ Lists(Matching(store.swaps, PageOf(page, limit)), Asked)
           /\ Matching(store.swaps, PageOf(page, limit)) \in Seq(Nat)
  <1> DEFINE q == PageOf(page, limit)
             n == Len(store.swaps)
  <1>1. store.swaps \in Seq(Swaps)  BY DEF Store
  <1>2. n \in Nat /\ DOMAIN store.swaps = 1 .. n  BY <1>1
  <1>3. Asked = {i \in 1 .. n : AskedSwap(store.swaps[i])}  BY <1>2 DEF Asked
  <1>4. \A s : Matches(s, q) <=> AskedSwap(s)  BY FiltersAsAsked
  <1> HIDE DEF q, n
  <1>5. Asked = MatchingPlaces(store.swaps, q, n)  BY <1>3, <1>4 DEF MatchingPlaces
  <1>6. Lists(Matching(store.swaps, q), Asked)  BY <1>2, <1>5, MatchingLists DEF n
  <1>7. Asked \subseteq Nat  BY <1>3
  <1>8. Matching(store.swaps, q) \in Seq(Nat)  BY <1>6, <1>7, ListsNumbers
  <1> QED  BY <1>2, <1>6, <1>8 DEF q, n

-------------------------------------------------------------------------------
(* What a reader has.                                                      *)

\* The pages before the one that is asked for next.
ReadingPages ==
    /\ question.rpc = "Swaps"
    /\ \E page \in Nat \ {0}, limit \in Nat :
          /\ query = [rpc |-> "Swaps", params |-> PageOf(page, limit)]
          /\ Begins(received, Matching(store.swaps, PageOf(page, limit)), PageStart(PageOf(page, limit)))

\* A request that is answered at once, for what was asked.
ReadingAll ==
    /\ "params" \notin DOMAIN query /\ query.rpc = question.rpc
    /\ question.rpc = "AssetSupply" => query.denom = question.denom
    /\ question.rpc = "Swap" => query.swapID = question.swapID
    /\ question.rpc = "Swaps" => \A s : AskedSwap(s)

\* The gateway answers Swaps with the handler of Swap.
Misrouted == client = "gateway" /\ question.rpc = "Swaps"

ReaderInv ==
    /\ store \in Stores /\ question \in Questions
    /\ phase \in {"asking", "refused"} => received = <<>>
    /\ phase = "reading" /\ ~ Misrouted => ~ Refused(question) /\ (ReadingPages \/ ReadingAll)

(* A list of some numbers of a set is a partial answer.                     *)
LEMMA ListAnswers ==
    ASSUME NEW S, S \subseteq Nat, NEW seq, Lists(seq, S), NEW n \in Nat, NEW part, Begins(part, seq, n)
    PROVE  /\ \A i, j \in DOMAIN part : i < j => part[i] < part[j]
           /\ \A i \in DOMAIN part : part[i] \in S
           /\ Len(part) = Len(seq) => Len(part) = Cardinality(S)
  <1>1. seq \in Seq(S) /\ Len(seq) \in Nat /\ \A i \in 1 .. Len(seq) : seq[i] \in S  BY DEF Lists
  <1>2. /\ part \in Seq(Nat) /\ DOMAIN part = 1 .. Len(part) /\ Len(part) \in Nat
        /\ Len(part) <= Len(seq) /\ \A i \in 1 .. Len(part) : part[i] = seq[i]
    BY <1>1 DEF Begins
  <1>3. \A i \in DOMAIN part : i \in 1 .. Len(seq) /\ part[i] = seq[i]  BY <1>1, <1>2
  <1>4. Len(seq) = Cardinality(S) /\ \A i, j \in 1 .. Len(seq) : i < j => seq[i] < seq[j]
    BY DEF Lists
  <1> QED  BY <1>1, <1>3, <1>4

(* An empty list has every record that is asked for, if there is none.       *)
LEMMA NothingReceived ==
    ASSUME received = <<>>, phase \notin {"done", "notFound", "failed"} \/ Cardinality(Asked) = 0
    PROVE  Answered
  BY DEF Answered

(* A client that has read pages has what it asked for, and all of it when a  *)
(* page is empty.                                                          *)
LEMMA PagesAnswer ==
    ASSUME store \in Store, question \in Question, question.rpc = "Swaps", ~ Refused(question),
           NEW page \in Nat \ {0}, NEW limit \in Nat,
           Begins(received, Matching(store.swaps, PageOf(page, limit)), PageStart(PageOf(page, limit)))
    PROVE  LET answer == filterAtomicSwaps(store.swaps, PageOf(page, limit))
               next   == PageOf(page + 1, limit)
           IN  /\ Begins(received \o answer, Matching(store.swaps, next), PageStart(next))
               /\ \A i, j \in DOMAIN (received \o answer) :
                     i < j => (received \o answer)[i] < (received \o answer)[j]
               /\ \A i \in DOMAIN (received \o answer) : (received \o answer)[i] \in Asked
               /\ answer = <<>> => Len(received \o answer) = Cardinality(Asked)
  <1> DEFINE q == PageOf(page, limit)
             next == PageOf(page + 1, limit)
             seq == Matching(store.swaps, q)
             answer == filterAtomicSwaps(store.swaps, q)
             longer == received \o answer
  <1>1. q.page = page /\ q.limit = limit /\ next.page = page + 1 /\ next.limit = limit
    BY DEF PageOf, NewQueryAtomicSwaps
  <1>2. page \in Nat /\ page + 1 \in Nat  OBVIOUS
  <1>3. Len(store.swaps) \in Nat /\ Lists(seq, Asked) /\ seq \in Seq(Nat)  BY <1>2, AskedPlaces
  <1>4. Matching(store.swaps, next) = seq
    <2>1. \A s : Matches(s, q) <=> Matches(s, next)
      <3>1. ASSUME NEW s PROVE Matches(s, q) <=> Matches(s, next)
        <4>1. Matches(s, q) <=> AskedSwap(s)  BY <1>2, FiltersAsAsked
        <4>2. Matches(s, next) <=> AskedSwap(s)  BY <1>2, FiltersAsAsked
        <4> QED  BY <4>1, <4>2
      <3> QED  BY <3>1
    <2> HIDE DEF q, next
    <2> QED  BY <1>3, <2>1, MatchingSame DEF seq
  <1>5. PageStart(q) \in Nat /\ PageSize(q) \in Nat \ {0} /\ PageStart(next) \in Nat
    <2> HIDE DEF q, next
    <2> QED  BY <1>1, <1>2, PageTypes
  <1>6. PageStart(next) = PageStart(q) + PageSize(q)
    <2>1. PageSize(next) = PageSize(q)  BY <1>1 DEF PageSize
    <2>2. page + 1 - 1 = (page - 1) + 1  OBVIOUS
    <2> HIDE DEF q, next
    <2>3. \A m \in Nat, k \in Nat : (m + 1) * k = m * k + k  OBVIOUS
    <2>4. page - 1 \in Nat  OBVIOUS
    <2> QED  BY <1>1, <1>5, <2>1, <2>2, <2>3, <2>4 DEF PageStart
  <1>7. /\ answer = <<>> => Len(received) = Len(seq)
        /\ Begins(longer, seq, PageStart(q) + PageSize(q))
    <2>1. Begins(received, seq, PageStart(q))  OBVIOUS
    <2>2. q.page \in Nat \ {0} /\ q.limit \in Nat  BY <1>1
    <2> HIDE DEF q
    <2> QED  BY <1>3, <2>1, <2>2, PageContinues
  <1>8. Asked \subseteq Nat
    <2>1. store.swaps \in Seq(Swaps)  BY DEF Store
    <2> QED  BY <2>1 DEF Asked
  <1> HIDE DEF q, next, seq, answer
  <1>9. answer = <<>> => longer = received
    <2>1. received \in Seq(Nat)  BY DEF Begins
    <2> QED  BY <2>1, ConcatEmptySeq
  <1>10. Begins(longer, seq, PageStart(next))  BY <1>6, <1>7
  <1> HIDE DEF longer
  <1>11. /\ \A i, j \in DOMAIN longer : i < j => longer[i] < longer[j]
         /\ \A i \in DOMAIN longer : longer[i] \in Asked
         /\ Len(longer) = Len(seq) => Len(longer) = Cardinality(Asked)
    BY <1>3, <1>5, <1>8, <1>10, ListAnswers
  <1> QED  BY <1>4, <1>7, <1>9, <1>10, <1>11 DEF q, next, seq, answer, longer

(* A record is found under its key; a store has it once.                   *)
LEMMA LookupAnswers ==
    ASSUME NEW S, S \subseteq Nat, \A i, j \in S : i = j
    PROVE  /\ \A i, j \in DOMAIN Lookup(S) : i < j => Lookup(S)[i] < Lookup(S)[j]
           /\ \A i \in DOMAIN Lookup(S) : Lookup(S)[i] \in S
           /\ Len(Lookup(S)) = Cardinality(S)
  <1>1. CASE S = {}
    <2>1. Lookup(S) = <<>> /\ Cardinality(S) = 0  BY <1>1, FS_EmptySet DEF Lookup
    <2> QED  BY <2>1
  <1>2. CASE S # {}
    <2> DEFINE x == CHOOSE i \in S : TRUE
    <2>1. x \in S /\ Lookup(S) = <<x>>  BY <1>2 DEF Lookup
    <2> HIDE DEF x
    <2>2. S = {x}  BY <2>1
    <2>3. Cardinality({x}) = 1  BY FS_Singleton
    <2> QED  BY <2>1, <2>2, <2>3
  <1> QED  BY <1>1, <1>2

(* All places of a list.                                                   *)
LEMMA AllAnswers ==
    ASSUME NEW n \in Nat
    PROVE  LET all == [i \in 1 .. n |-> i]
           IN  /\ \A i, j \in DOMAIN all : i < j => all[i] < all[j]
               /\ \A i \in DOMAIN all : all[i] \in 1 .. n
               /\ Len(all) = Cardinality(1 .. n)
  <1>1. Cardinality(1 .. n) = n
    <2>1. Cardinality(1 .. n) = IF 1 > n THEN 0 ELSE n - 1 + 1  BY FS_Interval
    <2> QED  BY <2>1
  <1>2. Len([i \in 1 .. n |-> i]) = n  OBVIOUS
  <1> QED  BY <1>1, <1>2

(* An answer without pages has the records that are asked for.               *)
LEMMA AnswerAll ==
    ASSUME store \in Store, store \in Stores, question \in Question, ReadingAll
    PROVE  LET answer == Answer(query)
           IN  /\ \A i, j \in DOMAIN answer : i < j => answer[i] < answer[j]
               /\ \A i \in DOMAIN answer : answer[i] \in Asked
               /\ Len(answer) = Cardinality(Asked)
  <1> DEFINE n == Len(store.swaps)
             m == Len(store.supplies)
  <1>1. store.swaps \in Seq(Swaps) /\ store.supplies \in Seq(STRING)  BY DEF Store
  <1>2. n \in Nat /\ DOMAIN store.swaps = 1 .. n /\ m \in Nat /\ DOMAIN store.supplies = 1 .. m
    BY <1>1
  <1>3. query.rpc = question.rpc /\ "params" \notin DOMAIN query  BY DEF ReadingAll
  <1> HIDE DEF n, m
  <1>4. CASE question.rpc = "AssetSupply"
    <2> DEFINE S == {i \in 1 .. m : store.supplies[i] = question.denom}
    <2>1. query.denom = question.denom  BY <1>4 DEF ReadingAll
    <2>2. Answer(query) = Lookup(S) /\ Asked = S  BY <1>2, <1>3, <1>4, <2>1 DEF Answer, Asked
    <2>3. S \subseteq Nat /\ \A i, j \in S : i = j  BY <1>2, SuppliesHaveKeys
    <2> HIDE DEF S
    <2> QED  BY <2>2, <2>3, LookupAnswers
  <1>5. CASE question.rpc = "AssetSupplies"
    <2>1. Answer(query) = [i \in 1 .. m |-> i] /\ Asked = 1 .. m  BY <1>2, <1>3, <1>5 DEF Answer, Asked
    <2> QED  BY <1>2, <2>1, AllAnswers
  <1>6. CASE question.rpc = "Swap"
    <2> DEFINE S == {question.swapID} \cap 1 .. n
    <2>1. query.swapID = question.swapID  BY <1>6 DEF ReadingAll
    <2>2. Answer(query) = Lookup(S) /\ Asked = S  BY <1>2, <1>3, <1>6, <2>1 DEF Answer, Asked
    <2>3. S \subseteq Nat /\ \A i, j \in S : i = j  OBVIOUS
    <2> HIDE DEF S
    <2> QED  BY <2>2, <2>3, LookupAnswers
  <1>7. CASE question.rpc = "Swaps"
    <2>1. \A s : AskedSwap(s)  BY <1>7 DEF ReadingAll
    <2>2. Asked = 1 .. n  BY <1>2, <1>7, <2>1 DEF Asked
    <2>3. Answer(query) = [i \in 1 .. n |-> i]  BY <1>2, <1>3, <1>7 DEF Answer
    <2> QED  BY <1>2, <2>2, <2>3, AllAnswers
  <1> QED  BY <1>4, <1>5, <1>6, <1>7 DEF Question

-------------------------------------------------------------------------------
(* The steps.                                                              *)

(* Before anybody has asked, nothing is received.                          *)
LEMMA InitReader == Init => ReaderInv /\ PagesAnswerQuestion
  <1> SUFFICES ASSUME Init PROVE ReaderInv /\ PagesAnswerQuestion  OBVIOUS
  <1>1. ReaderInv  BY DEF Init, ReaderInv
  <1>2. Answered  BY NothingReceived DEF Init
  <1> QED  BY <1>1, <1>2 DEF PagesAnswerQuestion

(* A client that asks for swaps reads from the first page on.               *)
LEMMA FirstPage ==
    ASSUME question.rpc = "Swaps", question \in Question, store \in Store, received = <<>>,
           ~ Refused(question), NEW limit \in Nat
    PROVE  LET params == NewQueryAtomicSwaps(question, limit)
           IN  /\ Request(question, params) = [rpc |-> "Swaps", params |-> PageOf(1, limit)]
               /\ Begins(received, Matching(store.swaps, PageOf(1, limit)), PageStart(PageOf(1, limit)))
  <1> DEFINE q == PageOf(1, limit)
             seq == Matching(store.swaps, q)
  <1>1. NewQueryAtomicSwaps(question, limit) = q  BY DEF PageOf, NewQueryAtomicSwaps
  <1>2. q.page = 1 /\ q.limit = limit  BY DEF PageOf, NewQueryAtomicSwaps
  <1>3. seq \in Seq(Nat)  BY AskedPlaces
  <1> HIDE DEF q, seq
  <1>4. PageStart(q) = 0
    <2>1. PageSize(q) \in Nat  BY <1>2, PageTypes
    <2> QED  BY <1>2, <2>1 DEF PageStart
  <1>5. Begins(received, seq, 0)  BY <1>3 DEF Begins
  <1> QED  BY <1>1, <1>4, <1>5 DEF Request, q, seq

(* The gateway hands every path but that of Swaps to the RPC it belongs to.  *)
LEMMA RoutedTo ==
    ASSUME NEW rpc \in {"AssetSupply", "AssetSupplies", "Swap"}
    PROVE  Routed(Pattern[rpc]) = rpc
  <1> DEFINE P(i) == /\ Pattern[Registered[i]] = Pattern[rpc]
                     /\ \A j \in 1 .. i - 1 : Pattern[Registered[j]] # Pattern[rpc]
  <1>1. DOMAIN Registered = {1, 2, 3, 4}  BY DEF Registered
  <1>2. /\ Registered[1] = "AssetSupply" /\ Registered[2] = "AssetSupplies"
        /\ Registered[3] = "Swap" /\ Registered[4] = "Swaps"
    BY DEF Registered
  <1>3. /\ Pattern["AssetSupply"] = "supply" /\ Pattern["AssetSupplies"] = "supplies"
        /\ Pattern["Swap"] = "swap" /\ Pattern["Swaps"] = "swap"
    BY DEF Pattern
  <1>4. \A i \in {1, 2, 3, 4} : P(i) <=> Registered[i] = rpc
    BY <1>2, <1>3
  <1>5. \E i \in DOMAIN Registered : P(i)  BY <1>1, <1>2, <1>4
  <1> DEFINE k == CHOOSE i \in DOMAIN Registered : P(i)
  <1>6. k \in DOMAIN Registered /\ P(k)  BY <1>5
  <1>7. Routed(Pattern[rpc]) = Registered[k]  BY DEF Routed
  <1> HIDE DEF k
  <1> QED  BY <1>1, <1>4, <1>6, <1>7

(* A question about one record, or about all supplies, is its own request,   *)
(* from the gateway, too.                                                  *)
LEMMA OwnRequest ==
    ASSUME question \in Question, question.rpc # "Swaps",
           NEW params, NEW request,
           \/ request = Request(question, params)
           \/ request = LET form == Request(question, params)
                        IN  GatewayRequest(Routed(Pattern[form.rpc]), form)
    PROVE  /\ "params" \notin DOMAIN request /\ request.rpc = question.rpc
           /\ question.rpc = "AssetSupply" => request.denom = question.denom
           /\ question.rpc = "Swap" => request.swapID = question.swapID
  <1>1. Request(question, params) = question  BY DEF Request
  <1>2. /\ question.rpc \in {"AssetSupply", "AssetSupplies", "Swap"}
        /\ question.rpc = "AssetSupply" => DOMAIN question = {"rpc", "denom"}
        /\ question.rpc = "AssetSupplies" => DOMAIN question = {"rpc"}
        /\ question.rpc = "Swap" => DOMAIN question = {"rpc", "swapID"}
    BY DEF Question
  <1>3. CASE request = question  BY <1>2, <1>3
  <1>4. CASE request = GatewayRequest(question.rpc, question)
    <2>1. request = [field \in {"rpc"} \cup (RequestFields[question.rpc]
                                               \cap (DOMAIN question \cup DOMAIN ZeroValues)) |->
                        IF field = "rpc" THEN question.rpc
                        ELSE IF field \in DOMAIN question THEN question[field] ELSE ZeroValues[field]]
      BY <1>4 DEF GatewayRequest
    <2>2. /\ RequestFields["AssetSupply"] = {"denom"} /\ RequestFields["AssetSupplies"] = {}
          /\ RequestFields["Swap"] = {"swapID"}
      BY DEF RequestFields
    <2>3. "params" \notin RequestFields[question.rpc]  BY <1>2, <2>2
    <2>4. "params" \notin DOMAIN request /\ request["rpc"] = question.rpc  BY <2>1, <2>3
    <2>5. question.rpc = "AssetSupply" => request["denom"] = question["denom"]  BY <1>2, <2>1, <2>2
    <2>6. question.rpc = "Swap" => request["swapID"] = question["swapID"]  BY <1>2, <2>1, <2>2
    <2> QED  BY <2>4, <2>5, <2>6
  <1>5. Routed(Pattern[question.rpc]) = question.rpc  BY <1>2, RoutedTo
  <1> QED  BY <1>1, <1>3, <1>4, <1>5

(* Whoever asks reads the first page of the swaps, or all at once.           *)
LEMMA AskReads ==
    ASSUME ReaderInv, PagesAnswerQuestion, CliAsk \/ RestAsk \/ GatewayAsk \/ StubAsk
    PROVE  ReaderInv' /\ PagesAnswerQuestion'
  <1>1. /\ UNCHANGED <<store, question, received>> /\ received = <<>> /\ phase' = "reading"
        /\ ~ Refused(question) /\ store \in Stores /\ question \in Questions
    BY DEF ReaderInv, CliAsk, RestAsk, GatewayAsk, StubAsk, Ask
  <1>2. store \in Store /\ question \in Question  BY <1>1, QueryAssumption
  <1>3. PagesAnswerQuestion'
    <2>1. Answered'  BY <1>1 DEF Answered
    <2> QED  BY <2>1 DEF PagesAnswerQuestion
  <1>4. CASE question.rpc # "Swaps"
    <2>1. PICK params : \/ query' = Request(question, params)
                        \/ query' = LET form == Request(question, params)
                                    IN  GatewayRequest(Routed(Pattern[form.rpc]), form)
      BY <1>4 DEF CliAsk, RestAsk, GatewayAsk, StubAsk, Ask
    <2>2. /\ "params" \notin DOMAIN query' /\ (query').rpc = question.rpc
          /\ question.rpc = "AssetSupply" => (query').denom = question.denom
          /\ question.rpc = "Swap" => (query').swapID = question.swapID
      BY <1>2, <1>4, <2>1, OwnRequest
    <2>3. ReadingAll'  BY <1>1, <1>4, <2>2 DEF ReadingAll
    <2> QED  BY <1>1, <1>3, <2>3 DEF ReaderInv
  <1>5. CASE question.rpc = "Swaps" /\ (CliAsk \/ RestAsk)
    <2>1. question.limit \in Nat  BY <1>2, <1>5 DEF Question
    <2>2. PICK limit \in Nat : query' = Request(question, NewQueryAtomicSwaps(question, limit))
      BY <1>5, <2>1, QueryAssumption DEF CliAsk, RestAsk, Ask, CliQuery, RestQuery
    <2>3. /\ query' = [rpc |-> "Swaps", params |-> PageOf(1, limit)]
          /\ Begins(received, Matching(store.swaps, PageOf(1, limit)), PageStart(PageOf(1, limit)))
      BY <1>1, <1>2, <1>5, <2>2, FirstPage
    <2>4. ReadingPages'
      <3>1. PageOf(1, limit)' = PageOf(1, limit)  BY <1>1 DEF PageOf
      <3> QED  BY <1>1, <1>5, <2>3, <3>1 DEF ReadingPages
    <2> QED  BY <1>1, <1>3, <2>4 DEF ReaderInv
  <1>6. CASE question.rpc = "Swaps" /\ GatewayAsk
    <2>1. Misrouted'  BY <1>1, <1>6 DEF Misrouted, GatewayAsk, Ask
    <2> QED  BY <1>1, <1>3, <2>1 DEF ReaderInv
  <1>7. CASE StubAsk
    <2>1. query' = [rpc |-> "Swaps"] /\ question.rpc = "Swaps"  BY <1>7 DEF StubAsk, Ask
    <2>2. "params" \notin DOMAIN query' /\ (query').rpc = "Swaps"  BY <2>1
    <2>3. \A s : AskedSwap(s)  BY <1>7 DEF StubAsk, AskedSwap, StandsFor
    <2>4. ReadingAll'  BY <1>1, <2>1, <2>2, <2>3 DEF ReadingAll, AskedSwap
    <2> QED  BY <1>1, <1>3, <2>4 DEF ReaderInv
  <1> QED  BY <1>4, <1>5, <1>6, <1>7

(* A page goes on where the last one ended; after an empty one the client    *)
(* has everything.                                                         *)
LEMMA ReadPageReads ==
    ASSUME ReaderInv, ReadPage
    PROVE  ReaderInv' /\ PagesAnswerQuestion'
  <1>1. /\ store \in Stores /\ question \in Questions /\ phase = "reading"
        /\ UNCHANGED <<store, question, client>> /\ phase' \in {"done", "reading"}
    BY DEF ReaderInv, ReadPage
  <1>2. store \in Store /\ question \in Question  BY <1>1, QueryAssumption
  <1>3. CASE Misrouted
    <2>1. Misrouted'  BY <1>1, <1>3 DEF Misrouted
    <2> QED  BY <1>1, <2>1 DEF ReaderInv, PagesAnswerQuestion, Misrouted
  <1>4. CASE ~ Misrouted
    <2>1. ~ Refused(question) /\ ReadingPages  BY <1>1, <1>4 DEF ReaderInv, ReadingAll, ReadPage
    <2>2. PICK page \in Nat \ {0}, limit \in Nat :
              /\ query = [rpc |-> "Swaps", params |-> PageOf(page, limit)]
              /\ Begins(received, Matching(store.swaps, PageOf(page, limit)), PageStart(PageOf(page, limit)))
      BY <2>1 DEF ReadingPages
    <2> DEFINE answer == filterAtomicSwaps(store.swaps, PageOf(page, limit))
               next == PageOf(page + 1, limit)
    <2>3. Answer(query) = answer
      <3>1. query.rpc = "Swaps" /\ "params" \in DOMAIN query /\ query.params = PageOf(page, limit)
        BY <2>2
      <3> QED  BY <3>1 DEF Answer
    <2>4. received' = received \o answer /\ phase' = IF answer = <<>> THEN "done" ELSE "reading"
      BY <2>3 DEF ReadPage
    <2>5. query' = [rpc |-> "Swaps", params |-> next]
      <3>1. query' = [query EXCEPT !.params.page = @ + 1]  BY DEF ReadPage
      <3> QED  BY <2>2, <3>1 DEF PageOf, NewQueryAtomicSwaps
    <2>6. question.rpc = "Swaps"  BY <2>1 DEF ReadingPages
    <2>7. /\ Begins(received', Matching(store.swaps, next), PageStart(next))
          /\ \A i, j \in DOMAIN received' : i < j => received'[i] < received'[j]
          /\ \A i \in DOMAIN received' : received'[i] \in Asked
          /\ answer = <<>> => Len(received') = Cardinality(Asked)
      BY <1>2, <2>1, <2>2, <2>4, <2>6, PagesAnswer
    <2>8. Asked' = Asked  BY <1>1 DEF Asked, AskedSwap
    <2>9. Answered'  BY <2>4, <2>7, <2>8 DEF Answered
    <2>10. ReadingPages'
      <3>1. next' = next  BY <1>1 DEF PageOf
      <3>2. page + 1 \in Nat \ {0}  OBVIOUS
      <3> QED  BY <1>1, <2>5, <2>6, <2>7, <3>1, <3>2 DEF ReadingPages
    <2> QED  BY <1>1, <2>1, <2>9, <2>10 DEF ReaderInv, PagesAnswerQuestion
  <1> QED  BY <1>3, <1>4

(* An answer without pages is everything.                                   *)
LEMMA ReadAnswerReads ==
    ASSUME ReaderInv, ReadAnswer
    PROVE  ReaderInv' /\ PagesAnswerQuestion'
  <1>1. /\ store \in Stores /\ question \in Questions /\ phase = "reading"
        /\ UNCHANGED <<store, question, client>> /\ phase' \in {"done", "notFound"}
        /\ received' = Answer(query)
    BY DEF ReaderInv, ReadAnswer
  <1>2. store \in Store /\ question \in Question  BY <1>1, QueryAssumption
  <1>3. ReaderInv'  BY <1>1 DEF ReaderInv
  <1>4. CASE Misrouted  BY <1>1, <1>3, <1>4 DEF PagesAnswerQuestion, Misrouted
  <1>5. CASE ~ Misrouted
    <2>1. ReadingAll  BY <1>1, <1>5 DEF ReaderInv, ReadingPages, ReadAnswer
    <2>2. /\ \A i, j \in DOMAIN received' : i < j => received'[i] < received'[j]
          /\ \A i \in DOMAIN received' : received'[i] \in Asked
          /\ Len(received') = Cardinality(Asked)
      BY <1>1, <1>2, <2>1, AnswerAll
    <2>3. Asked' = Asked  BY <1>1 DEF Asked, AskedSwap
    <2>4. Answered'  BY <2>2, <2>3 DEF Answered
    <2> QED  BY <1>3, <2>4 DEF PagesAnswerQuestion
  <1> QED  BY <1>3, <1>4, <1>5

(* Only the gateway names no ID, of a swap nobody asked for.                 *)
LEMMA FailReads ==
    ASSUME ReaderInv, Fail
    PROVE  ReaderInv' /\ PagesAnswerQuestion'
  <1>1. /\ store \in Stores /\ question \in Questions /\ phase = "reading" /\ phase' = "failed"
        /\ UNCHANGED <<store, question, client>> /\ query.rpc = "Swap" /\ query.swapID = NoSwapID
    BY DEF ReaderInv, Fail, HasNilKey
  <1>2. ReaderInv'  BY <1>1 DEF ReaderInv
  <1>3. Misrouted
    <2> SUFFICES ASSUME ~ Misrouted PROVE FALSE  OBVIOUS
    <2>1. ReadingPages \/ ReadingAll  BY <1>1 DEF ReaderInv
    <2>2. question.rpc = "Swap" /\ question.swapID = NoSwapID
      <3>1. CASE ReadingPages
        <4>1. query.rpc = "Swaps"  BY <3>1 DEF ReadingPages
        <4> QED  BY <1>1, <4>1
      <3>2. CASE ReadingAll  BY <1>1, <3>2 DEF ReadingAll
      <3> QED  BY <2>1, <3>1, <3>2
    <2>3. question \in Question  BY <1>1, QueryAssumption
    <2> QED  BY <2>2, <2>3 DEF Question
  <1> QED  BY <1>1, <1>2, <1>3 DEF PagesAnswerQuestion, Misrouted

(* The steps of clients and server.                                        *)
LEMMA NextReader ==
    ASSUME ReaderInv, PagesAnswerQuestion, [Next]_vars
    PROVE  ReaderInv' /\ PagesAnswerQuestion'
  <1>1. CASE \E c \in {"cli", "rest"} : Refuse(c)
    <2>1. /\ UNCHANGED <<store, question, received>> /\ received = <<>> /\ phase' = "refused"
          /\ store \in Stores /\ question \in Questions
      BY <1>1 DEF Refuse, ReaderInv
    <2>2. Answered'  BY <2>1 DEF Answered
    <2> QED  BY <2>1, <2>2 DEF ReaderInv, PagesAnswerQuestion
  <1>2. CASE CliAsk \/ RestAsk \/ GatewayAsk \/ StubAsk  BY <1>2, AskReads
  <1>3. CASE ReadPage  BY <1>3, ReadPageReads
  <1>4. CASE ReadAnswer  BY <1>4, ReadAnswerReads
  <1>5. CASE Fail  BY <1>5, FailReads
  <1>6. CASE UNCHANGED vars
    <2>1. ReaderInv'
      BY <1>6 DEF vars, ReaderInv, Misrouted, ReadingPages, ReadingAll, PageOf, AskedSwap
    <2>2. PagesAnswerQuestion'
      BY <1>6 DEF vars, PagesAnswerQuestion, Answered, Asked, AskedSwap
    <2> QED  BY <2>1, <2>2
  <1> QED  BY <1>1, <1>2, <1>3, <1>4, <1>5, <1>6 DEF Next

(* Whatever is asked for, with filters and pages of any size, is received:   *)
(* each record once, in the order of the store (querier.go:132), but for the *)
(* swaps the gateway is asked for.                                          *)
THEOREM QuestionsAnswered == Spec => []PagesAnswerQuestion
  <1>1. Init => ReaderInv /\ PagesAnswerQuestion  BY InitReader
  <1>2. ReaderInv /\ PagesAnswerQuestion /\ [Next]_vars => ReaderInv' /\ PagesAnswerQuestion'
    BY NextReader
  <1> QED  BY <1>1, <1>2, PTL DEF Spec
===============================================================================
