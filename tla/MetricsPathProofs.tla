--------------------------- MODULE MetricsPathProofs ---------------------------
(***************************************************************************)
(* The records made of a request fit their schemas, and their rows are the *)
(* points of the request, one by one: for any request, and for whatever an *)
(* SNMP target, its agent and its network come up with.                    *)
(***************************************************************************)
EXTENDS MetricsPath, SequenceTheorems, FunctionTheorems, FiniteSetTheorems, TLAPS

-----------------------------------------------------------------------------
(* Induction over the natural numbers, on a set instead of a predicate,    *)
(* and the functions defined by recursion, with their equations.           *)

LEMMA Least ==
  ASSUME NEW T, T \subseteq Nat, T # {}
  PROVE  \E n \in T : \A k \in T : n <= k
<1> DEFINE R == OpToRel(<, Nat)
<1>1. IsWellFoundedOn(R, Nat)
  BY NatLessThanWellFounded
<1>2. \A x, y \in Nat : y < x => <<y, x>> \in R
  BY DEF OpToRel
<1> HIDE DEF R
<1>3. PICK n \in T : \A y \in T : ~(<<y, n>> \in R)
  BY <1>1, WFMin
<1>4. ASSUME NEW k \in T PROVE n <= k
  <2>1. ~(k < n)
    BY <1>2, <1>3
  <2> QED BY <2>1
<1> QED BY <1>4

(* The least number outside S would follow one inside. *)
LEMMA Induct ==
  ASSUME NEW S, 0 \in S, \A n \in Nat : n \in S => n + 1 \in S
  PROVE  Nat \subseteq S
<1> SUFFICES ASSUME Nat \ S # {} PROVE FALSE
  OBVIOUS
<1>1. PICK n \in Nat \ S : \A k \in Nat \ S : n <= k
  BY Least
<1>2. n # 0 /\ n - 1 \in Nat
  BY <1>1
<1>3. n - 1 \in S
  BY <1>1, <1>2
<1> QED BY <1>1, <1>2, <1>3

(* g[n] takes the n-th value to the next; s runs through them from a. *)
Steps(g, V)      == g \in [Nat -> [V -> V]]
Runs(s, V, a, g) == s \in [Nat -> V] /\ s[0] = a /\ \A n \in Nat : s[n + 1] = g[n][s[n]]

(* A function defined by recursion exists: the approximations up to each n *)
(* exist by induction, they agree by induction, and their diagonal is it.  *)
LEMMA RecursionExists ==
  ASSUME NEW V, NEW a \in V, NEW g, Steps(g, V)
  PROVE  \E s : Runs(s, V, a, g)
<1> USE DEF Steps
<1> DEFINE Upto(n, s) == s[0] = a /\ \A i \in Nat : i < n => s[i + 1] = g[i][s[i]]
           S == {n \in Nat : \E s \in [Nat -> V] : Upto(n, s)}
<1>1. 0 \in S
  <2>1. [i \in Nat |-> a] \in [Nat -> V] /\ Upto(0, [i \in Nat |-> a])
    OBVIOUS
  <2> QED BY <2>1
<1>2. ASSUME NEW n \in Nat, n \in S PROVE n + 1 \in S
  <2>1. PICK s \in [Nat -> V] : Upto(n, s)
    BY <1>2
  <2> DEFINE t == [s EXCEPT ![n + 1] = g[n][s[n]]]
  <2>2. t \in [Nat -> V]
    OBVIOUS
  <2>3. Upto(n + 1, t)
    BY <2>1
  <2> HIDE DEF t
  <2> QED BY <2>2, <2>3
<1>3. S = Nat
  BY <1>1, <1>2, Induct
<1> DEFINE T(n) == CHOOSE s \in [Nat -> V] : Upto(n, s)
<1>4. \A n \in Nat : T(n) \in [Nat -> V] /\ Upto(n, T(n))
  BY <1>3, Zenon
<1> HIDE DEF T
<1>5. ASSUME NEW m \in Nat, NEW n \in Nat, m <= n PROVE T(m)[m] = T(n)[m]
  <2> DEFINE A == {i \in Nat : i <= m => T(m)[i] = T(n)[i]}
  <2>1. 0 \in A
    BY <1>4
  <2>2. ASSUME NEW i \in Nat, i \in A PROVE i + 1 \in A
    <3> SUFFICES ASSUME i + 1 <= m PROVE T(m)[i + 1] = T(n)[i + 1]
      OBVIOUS
    <3>1. T(m)[i + 1] = g[i][T(m)[i]] /\ T(n)[i + 1] = g[i][T(n)[i]]
      BY <1>4, <1>5
    <3>2. T(m)[i] = T(n)[i]
      BY <2>2
    <3> QED BY <3>1, <3>2
  <2>3. m \in A
    BY <2>1, <2>2, Induct
  <2> QED BY <2>3
<1> DEFINE d == [n \in Nat |-> T(n)[n]]
<1>6. d \in [Nat -> V] /\ d[0] = a
  BY <1>4
<1>7. ASSUME NEW n \in Nat PROVE d[n + 1] = g[n][d[n]]
  <2>1. T(n + 1)[n + 1] = g[n][T(n + 1)[n]]
    BY <1>4
  <2>2. T(n)[n] = T(n + 1)[n]
    BY <1>5
  <2> QED BY <2>1, <2>2
<1> HIDE DEF d
<1> QED BY <1>6, <1>7 DEF Runs

-----------------------------------------------------------------------------
(* Sequences of sequences. *)

LEMMA SeqFacts ==
  ASSUME NEW s, IsSeq(s)
  PROVE  /\ Len(s) \in Nat /\ DOMAIN s = 1 .. Len(s)
         /\ \A U : (\A n \in DOMAIN s : s[n] \in U) => s \in Seq(U)
<1>1. Len(s) \in Nat /\ DOMAIN s = 1 .. Len(s) /\ s \in [1 .. Len(s) -> Range(s)]
  BY LenProperties DEF IsSeq
<1>2. ASSUME NEW U, \A n \in DOMAIN s : s[n] \in U PROVE s \in Seq(U)
  <2>1. s \in [1 .. Len(s) -> U]
    BY <1>1, <1>2
  <2> QED BY <1>1, <2>1, SeqDef
<1> QED BY <1>1, <1>2

LEMMA TypedIsSeq ==
  ASSUME NEW U, NEW s \in Seq(U)
  PROVE  IsSeq(s)
<1>1. Len(s) \in Nat /\ DOMAIN s = 1 .. Len(s) /\ s \in [1 .. Len(s) -> U]
  BY LenProperties
<1>2. s \in [1 .. Len(s) -> Range(s)]
  BY <1>1 DEF Range
<1> QED BY <1>1, <1>2, SeqDef DEF IsSeq

(* A function on 1 .. n is a sequence. *)
LEMMA FunctionIsSeq ==
  ASSUME NEW n \in Nat, NEW s, DOMAIN s = 1 .. n, s = [i \in 1 .. n |-> s[i]]
  PROVE  IsSeq(s) /\ Len(s) = n
<1>1. s \in [1 .. n -> Range(s)]
  BY DEF Range
<1>2. s \in Seq(Range(s))
  BY <1>1, SeqDef
<1>3. Len(s) = n
  BY <1>2, LenProperties
<1> QED BY <1>2, <1>3 DEF IsSeq

LEMMA SmallSeqs ==
  /\ IsSeq(<<>>) /\ DOMAIN <<>> = {}
  /\ \A x : IsSeq(<<x>>) /\ DOMAIN <<x>> = {1} /\ <<x>>[1] = x
<1>1. <<>> \in Seq({}) /\ DOMAIN <<>> = {}
  OBVIOUS
<1>2. ASSUME NEW x PROVE IsSeq(<<x>>) /\ DOMAIN <<x>> = {1} /\ <<x>>[1] = x
  <2>1. <<x>> \in Seq({x})
    OBVIOUS
  <2>2. DOMAIN <<x>> = {1} /\ <<x>>[1] = x
    OBVIOUS
  <2> QED BY <2>1, <2>2, TypedIsSeq
<1>3. IsSeq(<<>>)
  BY <1>1, TypedIsSeq
<1> QED BY <1>1, <1>2, <1>3

LEMMA MapIsSeq ==
  ASSUME NEW s, IsSeq(s), NEW t, t = [n \in DOMAIN s |-> t[n]]
  PROVE  IsSeq(t) /\ DOMAIN t = DOMAIN s
<1>1. Len(s) \in Nat /\ DOMAIN s = 1 .. Len(s)
  BY SeqFacts
<1>2. DOMAIN t = 1 .. Len(s) /\ t = [n \in 1 .. Len(s) |-> t[n]]
  BY <1>1
<1> QED BY <1>1, <1>2, FunctionIsSeq

LEMMA CatIsSeq ==
  ASSUME NEW a, NEW b, IsSeq(a), IsSeq(b)
  PROVE  /\ IsSeq(a \o b)
         /\ \A n \in DOMAIN a : n \in DOMAIN (a \o b) /\ (a \o b)[n] = a[n]
         /\ \A n \in DOMAIN b : Len(a) + n \in DOMAIN (a \o b) /\ (a \o b)[Len(a) + n] = b[n]
         /\ \A n \in DOMAIN (a \o b) :
              \/ n \in DOMAIN a /\ (a \o b)[n] = a[n]
              \/ n - Len(a) \in DOMAIN b /\ (a \o b)[n] = b[n - Len(a)]
<1> DEFINE A == Len(a)
           B == Len(b)
           c == a \o b
           U == Range(a) \cup Range(b)
<1>1. A \in Nat /\ DOMAIN a = 1 .. A /\ B \in Nat /\ DOMAIN b = 1 .. B
  BY SeqFacts
<1>2. a \in Seq(U) /\ b \in Seq(U)
  <2>1. (\A n \in DOMAIN a : a[n] \in U) /\ (\A n \in DOMAIN b : b[n] \in U)
    BY DEF Range
  <2> HIDE DEF U
  <2> QED BY <2>1, SeqFacts
<1> HIDE DEF U
<1>3. /\ c \in Seq(U) /\ Len(c) = A + B
      /\ \A i \in 1 .. A + B : c[i] = IF i <= A THEN a[i] ELSE b[i - A]
  BY <1>2, ConcatProperties
<1> HIDE DEF c, A, B
<1>4. IsSeq(c) /\ DOMAIN c = 1 .. A + B
  BY <1>3, TypedIsSeq, LenProperties
<1>5. /\ \A n \in DOMAIN a : n \in DOMAIN c /\ c[n] = a[n]
      /\ \A n \in DOMAIN b : A + n \in DOMAIN c /\ c[A + n] = b[n]
  BY <1>1, <1>3, <1>4
<1>6. ASSUME NEW n \in DOMAIN c
      PROVE  \/ n \in DOMAIN a /\ c[n] = a[n]
             \/ n - A \in DOMAIN b /\ c[n] = b[n - A]
  <2>1. CASE n \in 1 .. A
    BY <1>1, <1>5, <2>1
  <2>2. CASE n \notin 1 .. A
    <3>1. n - A \in 1 .. B /\ A + (n - A) = n
      BY <1>1, <1>4, <2>2
    <3> QED BY <1>1, <1>5, <3>1
  <2> QED BY <2>1, <2>2
<1> QED BY <1>4, <1>5, <1>6 DEF A, c

LEMMA NestedIsTyped ==
  ASSUME NEW s, IsSeq(s), \A n \in DOMAIN s : IsSeq(s[n])
  PROVE  \E U : s \in Seq(Seq(U))
<1> DEFINE U == UNION {Range(s[n]) : n \in DOMAIN s}
<1>1. ASSUME NEW n \in DOMAIN s PROVE s[n] \in Seq(U)
  <2>1. \A i \in DOMAIN s[n] : s[n][i] \in U
    BY DEF Range
  <2> HIDE DEF U
  <2> QED BY <2>1, SeqFacts
<1> HIDE DEF U
<1> QED BY <1>1, SeqFacts

(* c[n] is the concatenation of the first n sequences of s. *)
Concatenates(c, s) ==
  /\ c[0] = <<>>
  /\ \A n \in Nat : n < Len(s) => c[n + 1] = c[n] \o s[n + 1]
  /\ FlattenSeq(s) = c[Len(s)]

LEMMA FlattenPrefixes ==
  ASSUME NEW U, NEW s \in Seq(Seq(U))
  PROVE  \E c : Concatenates(c, s) /\ \A n \in 0 .. Len(s) : c[n] \in Seq(U)
<1> DEFINE L == Len(s)
           V == Seq(U)
<1>0. L \in Nat /\ DOMAIN s = 1 .. L /\ (\A i \in 1 .. L : s[i] \in V) /\ <<>> \in V
  BY LenProperties, EmptySeq
<1>1. CASE L = 0
  <2>1. s = <<>>
    BY <1>1, EmptySeq
  <2>2. Concatenates([n \in Nat |-> <<>>], s)
    BY <1>1, <2>1 DEF Concatenates, FlattenSeq
  <2> QED BY <1>0, <1>1, <2>2
<1>2. CASE L # 0
  <2> DEFINE g == [n \in Nat |-> [x \in V |-> IF n + 1 \in 1 .. L THEN x \o s[n + 1] ELSE x]]
  <2>1. Steps(g, V)
    <3>1. ASSUME NEW x \in V, NEW i \in 1 .. L PROVE x \o s[i] \in V
      BY <1>0, ConcatProperties
    <3> HIDE DEF V
    <3> QED BY <3>1 DEF Steps
  <2>2. \A n \in Nat, x \in V : n < L => g[n][x] = x \o s[n + 1]
    BY <1>0
  <2> HIDE DEF g
  <2>3. PICK d : Runs(d, V, <<>>, g)
    BY <1>0, <2>1, RecursionExists
  <2>4. /\ d \in [Nat -> V] /\ d[0] = <<>>
        /\ \A n \in Nat : n < L => d[n + 1] = d[n] \o s[n + 1]
    BY <2>2, <2>3 DEF Runs
  <2> DEFINE f[i \in 1 .. L] == IF i = 1 THEN s[i] ELSE f[i - 1] \o s[i]
  <2>5. \E e : e = [i \in 1 .. L |-> IF i = 1 THEN s[i] ELSE e[i - 1] \o s[i]]
    <3> DEFINE e == [i \in 1 .. L |-> d[i]]
    <3>1. ASSUME NEW i \in 1 .. L PROVE e[i] = IF i = 1 THEN s[i] ELSE e[i - 1] \o s[i]
      <4>1. i - 1 \in Nat /\ i - 1 < L /\ (i - 1) + 1 = i
        BY <1>0
      <4>2. d[i] = d[i - 1] \o s[i]
        BY <2>4, <4>1
      <4>3. CASE i = 1
        <5>1. i - 1 = 0
          BY <4>3
        <5>2. d[i] = <<>> \o s[i]
          BY <2>4, <4>2, <5>1
        <5> QED BY <1>0, <4>3, <5>2, ConcatEmptySeq
      <4>4. CASE i # 1
        <5>1. i - 1 \in 1 .. L
          BY <1>0, <4>4
        <5> QED BY <4>2, <4>4, <5>1
      <4> QED BY <4>3, <4>4
    <3>2. e = [i \in 1 .. L |-> IF i = 1 THEN s[i] ELSE e[i - 1] \o s[i]]
      BY <3>1
    <3> HIDE DEF e
    <3> QED BY <3>2
  <2>6. f = [i \in 1 .. L |-> IF i = 1 THEN s[i] ELSE f[i - 1] \o s[i]]
    BY <2>5
  <2>7. FlattenSeq(s) = f[L]
    BY <1>2 DEF FlattenSeq
  <2> HIDE DEF f
  <2> DEFINE c == [n \in 0 .. L |-> IF n = 0 THEN <<>> ELSE f[n]]
  <2>8. c[0] = <<>> /\ FlattenSeq(s) = c[L]
    BY <1>0, <1>2, <2>7
  <2>9. ASSUME NEW n \in Nat, n < L PROVE c[n + 1] = c[n] \o s[n + 1]
    <3>1. n + 1 \in 1 .. L /\ n \in 0 .. L /\ n + 1 \in 0 .. L /\ n + 1 # 0 /\ (n + 1) - 1 = n
      BY <1>0, <2>9
    <3>2. CASE n = 0
      <4>0. n + 1 = 1
        BY <3>2
      <4>1. c[n + 1] = s[n + 1]
        BY <2>6, <3>1, <4>0
      <4> QED BY <1>0, <2>8, <3>1, <3>2, <4>1, ConcatEmptySeq
    <3>3. CASE n # 0
      <4>1. \A i \in 1 .. L : i # 1 => f[i] = f[i - 1] \o s[i]
        BY <2>6
      <4>2. n + 1 # 1
        BY <3>3
      <4>3. f[n + 1] = f[n] \o s[n + 1]
        BY <3>1, <4>1, <4>2
      <4> QED BY <3>1, <3>3, <4>3
    <3> QED BY <3>2, <3>3
  <2> HIDE DEF c
  <2>10. \A n \in 0 .. L : c[n] \in V
    <3> DEFINE T == {n \in Nat : n <= L => c[n] \in V}
    <3>1. 0 \in T
      BY <1>0, <2>8
    <3>2. ASSUME NEW n \in Nat, n \in T PROVE n + 1 \in T
      <4> SUFFICES ASSUME n + 1 <= L PROVE c[n + 1] \in V
        OBVIOUS
      <4>1. n < L /\ n + 1 \in 1 .. L /\ c[n] \in V
        BY <1>0, <3>2
      <4> QED BY <1>0, <2>9, <4>1, ConcatProperties
    <3>3. Nat \subseteq T
      <4> HIDE DEF T
      <4> QED BY <3>1, <3>2, Induct
    <3> QED BY <1>0, <3>3
  <2> QED BY <2>8, <2>9, <2>10 DEF Concatenates
<1> QED BY <1>1, <1>2

(* The elements of a concatenation are those of the sequences it is of.    *)
LEMMA FlattenElements ==
  ASSUME NEW s, IsSeq(s), \A n \in DOMAIN s : IsSeq(s[n])
  PROVE  /\ IsSeq(FlattenSeq(s))
         /\ \A i \in DOMAIN FlattenSeq(s) :
              \E n \in DOMAIN s : \E j \in DOMAIN s[n] : FlattenSeq(s)[i] = s[n][j]
<1> DEFINE U == UNION {Range(s[n]) : n \in DOMAIN s}
<1>1. \A x \in U : \E n \in DOMAIN s : \E j \in DOMAIN s[n] : x = s[n][j]
  BY DEF Range
<1>2. ASSUME NEW n \in DOMAIN s PROVE s[n] \in Seq(U)
  <2>1. \A i \in DOMAIN s[n] : s[n][i] \in U
    BY DEF Range
  <2> HIDE DEF U
  <2> QED BY <2>1, SeqFacts
<1> HIDE DEF U
<1>3. s \in Seq(Seq(U))
  BY <1>2, SeqFacts
<1>4. FlattenSeq(s) \in Seq(U)
  <2>1. PICK c : Concatenates(c, s) /\ \A n \in 0 .. Len(s) : c[n] \in Seq(U)
    BY <1>3, FlattenPrefixes
  <2>2. Len(s) \in 0 .. Len(s)
    BY SeqFacts
  <2> QED BY <2>1, <2>2 DEF Concatenates
<1>5. \A i \in DOMAIN FlattenSeq(s) : FlattenSeq(s)[i] \in U
  BY <1>4, LenProperties
<1> QED BY <1>1, <1>4, <1>5, TypedIsSeq

LEMMA FlattenCat ==
  ASSUME NEW U, NEW s \in Seq(Seq(U)), NEW t \in Seq(Seq(U))
  PROVE  FlattenSeq(s \o t) = FlattenSeq(s) \o FlattenSeq(t)
<1> DEFINE V == Seq(U)
           S == Len(s)
           T == Len(t)
<1>1. /\ S \in Nat /\ T \in Nat
      /\ s \o t \in Seq(Seq(U)) /\ Len(s \o t) = S + T
      /\ \A n \in 1 .. S : (s \o t)[n] = s[n]
      /\ \A n \in 1 .. T : (s \o t)[S + n] = t[n] /\ t[n] \in V
  BY LenProperties, ConcatProperties
<1>2. PICK a : Concatenates(a, s) /\ \A n \in 0 .. S : a[n] \in V
  BY FlattenPrefixes
<1>3. PICK b : Concatenates(b, t) /\ \A n \in 0 .. T : b[n] \in V
  BY FlattenPrefixes
<1>4. PICK c : Concatenates(c, s \o t)
  BY <1>1, FlattenPrefixes
<1>9. Len(s) = S /\ Len(t) = T /\ \A x \in V : x \o <<>> = x
  BY ConcatEmptySeq
<1>10. \A x, y, z \in V : (x \o y) \o z = x \o (y \o z)
  BY ConcatAssociative
<1> HIDE DEF S, T, V
<1>5. c[S] = a[S]
  <2> DEFINE N == {n \in Nat : n <= S => c[n] = a[n]}
  <2>1. 0 \in N
    BY <1>2, <1>4 DEF Concatenates
  <2>2. ASSUME NEW n \in Nat, n \in N PROVE n + 1 \in N
    <3> SUFFICES ASSUME n + 1 <= S PROVE c[n + 1] = a[n + 1]
      OBVIOUS
    <3>1. n < S /\ n < S + T /\ n + 1 \in 1 .. S /\ c[n] = a[n]
      BY <1>1, <2>2
    <3>2. c[n + 1] = c[n] \o (s \o t)[n + 1] /\ a[n + 1] = a[n] \o s[n + 1]
      BY <1>1, <1>2, <1>4, <1>9, <3>1 DEF Concatenates
    <3> QED BY <1>1, <3>1, <3>2
  <2>3. Nat \subseteq N
    <3> HIDE DEF N
    <3> QED BY <2>1, <2>2, Induct
  <2> QED BY <1>1, <2>3
<1>6. c[S + T] = a[S] \o b[T]
  <2> DEFINE C == [n \in Nat |-> c[S + n]]
             E == [n \in Nat |-> a[S] \o b[n]]
  <2>8. S \in Nat /\ T \in Nat
    BY <1>1
  <2>0. a[S] \in V
    BY <1>1, <1>2
  <2>1. C[0] = E[0]
    <3>1. b[0] = <<>> /\ S + 0 = S
      BY <1>1, <1>3 DEF Concatenates
    <3> QED BY <1>5, <1>9, <2>0, <3>1
  <2>2. ASSUME NEW n \in Nat, n < T PROVE C[n + 1] = C[n] \o t[n + 1]
    <3>1. /\ n + 1 \in 1 .. T /\ S + n \in Nat /\ S + n < S + T
          /\ (S + n) + 1 = S + (n + 1)
      BY <1>1, <2>2
    <3>2. c[(S + n) + 1] = c[S + n] \o (s \o t)[(S + n) + 1]
      BY <1>1, <1>4, <3>1 DEF Concatenates
    <3>3. (s \o t)[S + (n + 1)] = t[n + 1]
      BY <1>1, <3>1
    <3>4. c[S + (n + 1)] = c[S + n] \o t[n + 1]
      BY <3>1, <3>2, <3>3
    <3>5. C[n] = c[S + n] /\ C[n + 1] = c[S + (n + 1)]
      OBVIOUS
    <3> QED BY <3>4, <3>5
  <2>3. ASSUME NEW n \in Nat, n < T PROVE E[n + 1] = E[n] \o t[n + 1]
    <3>1. n + 1 \in 1 .. T /\ n \in 0 .. T
      BY <1>1, <2>3
    <3>2. b[n + 1] = b[n] \o t[n + 1]
      BY <1>3, <1>9, <2>3 DEF Concatenates
    <3>3. t[n + 1] \in V /\ b[n] \in V
      BY <1>1, <1>3, <3>1
    <3>4. (a[S] \o b[n]) \o t[n + 1] = a[S] \o (b[n] \o t[n + 1])
      BY ONLY <1>10, <2>0, <3>3
    <3>5. \A k \in Nat : E[k] = a[S] \o b[k]
      OBVIOUS
    <3> HIDE DEF E
    <3>6. E[n] = a[S] \o b[n] /\ E[n + 1] = a[S] \o b[n + 1]
      <4>1. n + 1 \in Nat
        OBVIOUS
      <4> QED BY ONLY <3>5, <4>1, n \in Nat
    <3> QED BY <3>2, <3>4, <3>6
  <2> HIDE DEF C, E
  <2> DEFINE N == {n \in Nat : n <= T => C[n] = E[n]}
  <2>4. 0 \in N
    BY <2>1
  <2>5. ASSUME NEW n \in Nat, n \in N PROVE n + 1 \in N
    <3> SUFFICES ASSUME n + 1 <= T PROVE C[n + 1] = E[n + 1]
      BY <2>8
    <3>1. n < T /\ C[n] = E[n]
      BY <1>1, <2>5
    <3> QED BY <2>2, <2>3, <3>1
  <2>6. Nat \subseteq N
    <3> HIDE DEF N
    <3> QED BY <2>4, <2>5, Induct
  <2>7. C[T] = E[T]
    <3>1. T \in N
      BY <2>8, <2>6
    <3> QED BY <3>1, <2>8
  <2> QED BY <1>1, <2>7 DEF C, E
<1> QED BY <1>1, <1>2, <1>3, <1>4, <1>6, <1>9 DEF Concatenates

-----------------------------------------------------------------------------
(* The columns of a sequence of appends. *)

Pieces(a, col) == [n \in DOMAIN a |-> IF a[n].col = col THEN <<a[n].cell>> ELSE <<>>]

LEMMA ColumnIsFlat == \A a, col : Column(a, col) = FlattenSeq(Pieces(a, col))
  BY DEF Column, ForEach, Pieces

CellSet(U) == {a.cell : a \in U}

LEMMA PiecesType ==
  ASSUME NEW U, NEW a \in Seq(U), NEW col
  PROVE  Pieces(a, col) \in Seq(Seq(CellSet(U))) /\ Len(Pieces(a, col)) = Len(a)
<1>1. Len(a) \in Nat /\ DOMAIN a = 1 .. Len(a) /\ \A n \in 1 .. Len(a) : a[n] \in U
  BY LenProperties
<1>2. ASSUME NEW n \in 1 .. Len(a) PROVE Pieces(a, col)[n] \in Seq(CellSet(U))
  <2>1. a[n].cell \in CellSet(U)
    BY <1>1 DEF CellSet
  <2>2. <<>> \in Seq(CellSet(U)) /\ <<a[n].cell>> \in Seq(CellSet(U))
    BY <2>1
  <2> QED BY <1>1, <2>2 DEF Pieces
<1>3. Pieces(a, col) \in [1 .. Len(a) -> Seq(CellSet(U))]
  BY <1>1, <1>2 DEF Pieces
<1>4. Pieces(a, col) \in Seq(Seq(CellSet(U)))
  BY <1>1, <1>3, SeqDef
<1> QED BY <1>1, <1>3, <1>4, LenProperties

LEMMA ColumnCat ==
  ASSUME NEW U, NEW a \in Seq(U), NEW b \in Seq(U), NEW col
  PROVE  Column(a \o b, col) = Column(a, col) \o Column(b, col)
<1> DEFINE A == Pieces(a, col)
           B == Pieces(b, col)
           C == Pieces(a \o b, col)
<1>1. /\ Len(a) \in Nat /\ DOMAIN a = 1 .. Len(a)
      /\ Len(b) \in Nat /\ DOMAIN b = 1 .. Len(b)
      /\ a \o b \in Seq(U) /\ Len(a \o b) = Len(a) + Len(b)
      /\ DOMAIN (a \o b) = 1 .. Len(a) + Len(b)
      /\ \A i \in 1 .. Len(a) + Len(b) :
           (a \o b)[i] = IF i <= Len(a) THEN a[i] ELSE b[i - Len(a)]
  BY LenProperties, ConcatProperties
<1> DEFINE W == Seq(CellSet(U))
<1>2. /\ A \in Seq(W) /\ Len(A) = Len(a)
      /\ B \in Seq(W) /\ Len(B) = Len(b)
      /\ C \in Seq(W) /\ Len(C) = Len(a) + Len(b)
  BY <1>1, PiecesType, LenProperties
<1> HIDE DEF A, B, C, W
<1>3. /\ A \o B \in Seq(W) /\ Len(A \o B) = Len(a) + Len(b)
      /\ \A i \in 1 .. Len(a) + Len(b) : (A \o B)[i] = IF i <= Len(a) THEN A[i] ELSE B[i - Len(a)]
  <2>1. /\ A \o B \in Seq(W) /\ Len(A \o B) = Len(A) + Len(B)
        /\ \A i \in 1 .. Len(A) + Len(B) : (A \o B)[i] = IF i <= Len(A) THEN A[i] ELSE B[i - Len(A)]
    <3>1. A \in Seq(W) /\ B \in Seq(W)
      BY <1>2
    <3> QED BY ONLY <3>1, ConcatProperties
  <2> QED BY <1>2, <2>1
<1>4. ASSUME NEW i \in 1 .. Len(a) + Len(b) PROVE C[i] = (A \o B)[i]
  <2>1. CASE i <= Len(a)
    <3>1. i \in DOMAIN a /\ (a \o b)[i] = a[i] /\ (A \o B)[i] = A[i] /\ i \in DOMAIN (a \o b)
      BY <1>1, <1>3, <2>1
    <3> QED BY <3>1 DEF A, B, C, Pieces
  <2>2. CASE ~(i <= Len(a))
    <3>1. /\ i - Len(a) \in DOMAIN b /\ (a \o b)[i] = b[i - Len(a)]
          /\ (A \o B)[i] = B[i - Len(a)] /\ i \in DOMAIN (a \o b)
      BY <1>1, <1>3, <2>2
    <3> QED BY <3>1 DEF A, B, C, Pieces
  <2> QED BY <2>1, <2>2
<1>5. C = A \o B
  <2>1. C \in [1 .. Len(a) + Len(b) -> W] /\ A \o B \in [1 .. Len(a) + Len(b) -> W]
    BY <1>2, <1>3, LenProperties
  <2> QED BY <1>4, <2>1
<1>6. FlattenSeq(C) = FlattenSeq(A) \o FlattenSeq(B)
  BY <1>2, <1>5, FlattenCat DEF W
<1> QED BY <1>6, ColumnIsFlat DEF A, B, C

(* A column to which one append is made has that one cell. *)
LEMMA ColumnOnce ==
  ASSUME NEW U, NEW a \in Seq(U), NEW col, NEW k \in DOMAIN a,
         \A n \in DOMAIN a : a[n].col = col <=> n = k
  PROVE  Column(a, col) = <<a[k].cell>>
<1> DEFINE P == Pieces(a, col)
           L == Len(a)
           one == <<a[k].cell>>
<1>1. L \in Nat /\ DOMAIN a = 1 .. L /\ k \in 1 .. L /\ (\A n \in 1 .. L : a[n] \in U)
  BY LenProperties
<1>2. P \in Seq(Seq(CellSet(U))) /\ Len(P) = L
  BY PiecesType
<1>3. \A n \in 1 .. L : P[n] = IF n = k THEN one ELSE <<>>
  BY <1>1 DEF Pieces
<1> HIDE DEF P
<1>4. PICK c : Concatenates(c, P)
  BY <1>2, FlattenPrefixes
<1>5. one \in Seq(CellSet(U)) /\ <<>> \in Seq(CellSet(U))
  <2>1. a[k].cell \in CellSet(U)
    BY <1>1 DEF CellSet
  <2> QED BY <2>1
<1> HIDE DEF one
<1> DEFINE N == {n \in Nat : n <= L => c[n] = IF n < k THEN <<>> ELSE one}
<1>6. 0 \in N
  BY <1>1, <1>4 DEF Concatenates
<1>7. ASSUME NEW n \in Nat, n \in N PROVE n + 1 \in N
  <2> SUFFICES ASSUME n + 1 <= L PROVE c[n + 1] = IF n + 1 < k THEN <<>> ELSE one
    OBVIOUS
  <2>1. n < L /\ n + 1 \in 1 .. L /\ c[n] = IF n < k THEN <<>> ELSE one
    BY <1>1, <1>7
  <2>2. c[n + 1] = c[n] \o P[n + 1]
    BY <1>2, <1>4, <2>1 DEF Concatenates
  <2>3. CASE n + 1 = k
    <3>1. c[n] = <<>> /\ P[n + 1] = one
      BY <1>1, <1>3, <2>1, <2>3
    <3> QED BY <1>1, <1>5, <2>2, <2>3, <3>1, ConcatEmptySeq
  <2>4. CASE n + 1 # k
    <3>1. c[n + 1] = c[n] \o <<>> /\ c[n] \in Seq(CellSet(U))
      BY <1>3, <1>5, <2>1, <2>2, <2>4
    <3>2. c[n + 1] = c[n]
      BY <3>1, ConcatEmptySeq
    <3> QED BY <1>1, <2>1, <2>4, <3>2
  <2> QED BY <2>3, <2>4
<1>8. Nat \subseteq N
  <2> HIDE DEF N
  <2> QED BY <1>6, <1>7, Induct
<1>9. c[L] = one
  BY <1>1, <1>8
<1>10. FlattenSeq(P) = one
  BY <1>2, <1>4, <1>9 DEF Concatenates
<1> QED BY <1>10, ColumnIsFlat DEF P, one

(* If every row appends one cell to a column, the column holds those cells *)
(* in the order of the rows.                                               *)
LEMMA ColumnOfRows ==
  ASSUME NEW U, NEW rows \in Seq(Seq(U)), NEW col, NEW cell,
         \A r \in DOMAIN rows : Column(rows[r], col) = <<cell[r]>>
  PROVE  Column(FlattenSeq(rows), col) = [r \in DOMAIN rows |-> cell[r]]
<1> DEFINE L == Len(rows)
<1>1. L \in Nat /\ DOMAIN rows = 1 .. L /\ \A r \in 1 .. L : rows[r] \in Seq(U)
  BY LenProperties
<1>2. PICK c : Concatenates(c, rows) /\ \A n \in 0 .. L : c[n] \in Seq(U)
  BY FlattenPrefixes
<1> DEFINE N == {n \in Nat : n <= L => Column(c[n], col) = [r \in 1 .. n |-> cell[r]]}
<1>3. 0 \in N
  <2>1. Pieces(<<>>, col) = <<>>
    BY DEF Pieces
  <2>2. Column(<<>>, col) = <<>>
    BY <2>1, ColumnIsFlat DEF FlattenSeq
  <2>3. [r \in 1 .. 0 |-> cell[r]] = <<>>
    OBVIOUS
  <2> QED BY <1>2, <2>2, <2>3 DEF Concatenates
<1>4. ASSUME NEW n \in Nat, n \in N PROVE n + 1 \in N
  <2> SUFFICES ASSUME n + 1 <= L PROVE Column(c[n + 1], col) = [r \in 1 .. n + 1 |-> cell[r]]
    OBVIOUS
  <2>1. n < L /\ n + 1 \in 1 .. L /\ n \in 0 .. L /\ Column(c[n], col) = [r \in 1 .. n |-> cell[r]]
    BY <1>1, <1>4
  <2>2. c[n + 1] = c[n] \o rows[n + 1] /\ c[n] \in Seq(U) /\ rows[n + 1] \in Seq(U)
    BY <1>1, <1>2, <2>1 DEF Concatenates
  <2>3. Column(c[n + 1], col) = [r \in 1 .. n |-> cell[r]] \o <<cell[n + 1]>>
    <3>1. \A x, y \in Seq(U) : Column(x \o y, col) = Column(x, col) \o Column(y, col)
      BY ColumnCat
    <3>2. Column(c[n + 1], col) = Column(c[n], col) \o Column(rows[n + 1], col)
      BY <2>2, <3>1
    <3> QED BY <1>1, <2>1, <3>2
  <2>4. [r \in 1 .. n |-> cell[r]] \o <<cell[n + 1]>> = [r \in 1 .. n + 1 |-> cell[r]]
    <3> DEFINE W == {cell[r] : r \in 1 .. n + 1}
               d == [r \in 1 .. n |-> cell[r]]
               e == [r \in 1 .. n + 1 |-> cell[r]]
    <3>1. d \in [1 .. n -> W] /\ e \in [1 .. n + 1 -> W] /\ cell[n + 1] \in W
      OBVIOUS
    <3>4. \A i \in 1 .. n : d[i] = cell[i]
      OBVIOUS
    <3>5. \A i \in 1 .. n + 1 : e[i] = cell[i]
      OBVIOUS
    <3> HIDE DEF W, d, e
    <3>2. d \in Seq(W) /\ e \in Seq(W)
      BY <3>1, SeqDef
    <3>3. Len(d) = n /\ Len(e) = n + 1
      BY <3>1, <3>2, LenProperties
    <3>6. Append(d, cell[n + 1]) = d \o <<cell[n + 1]>>
      BY <3>1, <3>2, AppendIsConcat
    <3>7. Append(d, cell[n + 1]) = e
      <4>1. Append(d, cell[n + 1]) \in Seq(W) /\ Len(Append(d, cell[n + 1])) = n + 1
        BY <3>1, <3>2, <3>3
      <4>2. \A i \in 1 .. n + 1 : Append(d, cell[n + 1])[i] = e[i]
        BY <3>2, <3>3, <3>4, <3>5
      <4> QED BY <3>1, <4>1, <4>2, LenProperties
    <3> QED BY <3>6, <3>7 DEF d, e
  <2> QED BY <2>3, <2>4
<1>5. Nat \subseteq N
  <2> HIDE DEF N
  <2> QED BY <1>3, <1>4, Induct
<1>6. Column(c[L], col) = [r \in 1 .. L |-> cell[r]]
  BY <1>1, <1>5
<1> QED BY <1>1, <1>2, <1>6 DEF Concatenates

-----------------------------------------------------------------------------
(* The rows. *)

(* A row asks for every column of the schema once, as its type. *)
Fills(row, schema) ==
  /\ IsSeq(row)
  /\ {<<row[n].col, row[n].type>> : n \in DOMAIN row} = schema
  /\ \A n, k \in DOMAIN row : row[n].col = row[k].col => n = k

LEMMA CommonFills ==
  ASSUME NEW res, NEW scope, NEW m, NEW dp
  PROVE  Fills(Common(res, scope, m, dp), MetricsCommonFields)
<1> DEFINE row == Common(res, scope, m, dp)
<1>1. DOMAIN row = 1 .. 14 /\ row \in Seq({row[n] : n \in 1 .. 14})
  BY DEF Common
<1>2. /\ row[1].col = "ResourceAttributes" /\ row[1].type = "string"
      /\ row[2].col = "ResourceSchemaUrl" /\ row[2].type = "string"
      /\ row[3].col = "ScopeName" /\ row[3].type = "string"
      /\ row[4].col = "ScopeVersion" /\ row[4].type = "string"
      /\ row[5].col = "ScopeAttributes" /\ row[5].type = "string"
      /\ row[6].col = "ScopeSchemaUrl" /\ row[6].type = "string"
      /\ row[7].col = "ServiceName" /\ row[7].type = "string"
      /\ row[8].col = "MetricName" /\ row[8].type = "string"
      /\ row[9].col = "MetricDescription" /\ row[9].type = "string"
      /\ row[10].col = "MetricUnit" /\ row[10].type = "string"
      /\ row[11].col = "Attributes" /\ row[11].type = "string"
      /\ row[12].col = "StartTimeUnix" /\ row[12].type = "int64"
      /\ row[13].col = "TimeUnix" /\ row[13].type = "int64"
      /\ row[14].col = "Flags" /\ row[14].type = "int32"
  BY DEF Common, Str, I64, I32, Append1
<1> HIDE DEF row
<1>3. \A n \in 1 .. 14 : <<row[n].col, row[n].type>> \in MetricsCommonFields
  BY <1>2 DEF MetricsCommonFields, Of
<1>4. \A field \in MetricsCommonFields : \E n \in 1 .. 14 : field = <<row[n].col, row[n].type>>
  BY <1>2 DEF MetricsCommonFields, Of
<1>5. \A n, k \in 1 .. 14 : row[n].col = row[k].col => n = k
  BY <1>2
<1>6. Fills(row, MetricsCommonFields)
  <2>1. {<<row[n].col, row[n].type>> : n \in DOMAIN row} = MetricsCommonFields
    BY ONLY <1>1, <1>3, <1>4
  <2> QED BY ONLY <1>1, <1>5, <2>1, TypedIsSeq DEF Fills
<1> QED BY <1>6 DEF row

(* What each kind of metric adds to the common columns. *)
GaugeFields ==
  Of("float64", {"Value"}) \cup Of("list", {"Exemplars"})
SumFields ==
  Of("float64", {"Value"}) \cup Of("int32", {"AggregationTemporality"})
  \cup Of("bool", {"IsMonotonic"}) \cup Of("list", {"Exemplars"})
HistogramFields ==
  Of("int64", {"Count"}) \cup Of("nullable", {"Sum", "Min", "Max"})
  \cup Of("int32", {"AggregationTemporality"})
  \cup Of("list", {"BucketCounts", "ExplicitBounds", "Exemplars"})
ExpHistogramFields ==
  Of("int64", {"Count", "ZeroCount"})
  \cup Of("nullable", {"Sum", "Min", "Max"})
  \cup Of("int32", {"Scale", "PositiveOffset", "NegativeOffset", "AggregationTemporality"})
  \cup Of("list", {"PositiveBucketCounts", "NegativeBucketCounts", "Exemplars"})
SummaryFields ==
  Of("int64", {"Count"}) \cup Of("float64", {"Sum"})
  \cup Of("list", {"ValueAtQuantiles"})

LEMMA GaugeFills ==
  ASSUME NEW m, NEW dp
  PROVE  Fills(GaugeRow(m, dp), GaugeFields)
<1> DEFINE row == GaugeRow(m, dp)
<1>1. DOMAIN row = 1 .. 2 /\ row \in Seq({row[n] : n \in 1 .. 2})
  BY DEF GaugeRow
<1>2. /\ row[1].col = "Value" /\ row[1].type = "float64"
      /\ row[2].col = "Exemplars" /\ row[2].type = "list"
  BY DEF GaugeRow, F64, List, Append1
<1> HIDE DEF row
<1>3. \A n \in 1 .. 2 : <<row[n].col, row[n].type>> \in GaugeFields
  BY <1>2 DEF GaugeFields, Of
<1>4. \A field \in GaugeFields : \E n \in 1 .. 2 : field = <<row[n].col, row[n].type>>
  BY <1>2 DEF GaugeFields, Of
<1>5. \A n, k \in 1 .. 2 : row[n].col = row[k].col => n = k
  BY <1>2
<1>6. Fills(row, GaugeFields)
  <2>1. {<<row[n].col, row[n].type>> : n \in DOMAIN row} = GaugeFields
    BY ONLY <1>1, <1>3, <1>4
  <2> QED BY ONLY <1>1, <1>5, <2>1, TypedIsSeq DEF Fills
<1> QED BY <1>6 DEF row

LEMMA SumFills ==
  ASSUME NEW m, NEW dp
  PROVE  Fills(SumRow(m, dp), SumFields)
<1> DEFINE row == SumRow(m, dp)
<1>1. DOMAIN row = 1 .. 4 /\ row \in Seq({row[n] : n \in 1 .. 4})
  BY DEF SumRow
<1>2. /\ row[1].col = "Value" /\ row[1].type = "float64"
      /\ row[2].col = "AggregationTemporality" /\ row[2].type = "int32"
      /\ row[3].col = "IsMonotonic" /\ row[3].type = "bool"
      /\ row[4].col = "Exemplars" /\ row[4].type = "list"
  BY DEF SumRow, I32, F64, Boolean, List, Append1
<1> HIDE DEF row
<1>3. \A n \in 1 .. 4 : <<row[n].col, row[n].type>> \in SumFields
  BY <1>2 DEF SumFields, Of
<1>4. \A field \in SumFields : \E n \in 1 .. 4 : field = <<row[n].col, row[n].type>>
  BY <1>2 DEF SumFields, Of
<1>5. \A n, k \in 1 .. 4 : row[n].col = row[k].col => n = k
  BY <1>2
<1>6. Fills(row, SumFields)
  <2>1. {<<row[n].col, row[n].type>> : n \in DOMAIN row} = SumFields
    BY ONLY <1>1, <1>3, <1>4
  <2> QED BY ONLY <1>1, <1>5, <2>1, TypedIsSeq DEF Fills
<1> QED BY <1>6 DEF row

LEMMA HistogramFills ==
  ASSUME NEW m, NEW dp
  PROVE  Fills(HistogramRow(m, dp), HistogramFields)
<1> DEFINE row == HistogramRow(m, dp)
<1>1. DOMAIN row = 1 .. 8 /\ row \in Seq({row[n] : n \in 1 .. 8})
  BY DEF HistogramRow
<1>2. /\ row[1].col = "Count" /\ row[1].type = "int64"
      /\ row[2].col = "Sum" /\ row[2].type = "nullable"
      /\ row[3].col = "BucketCounts" /\ row[3].type = "list"
      /\ row[4].col = "ExplicitBounds" /\ row[4].type = "list"
      /\ row[5].col = "Min" /\ row[5].type = "nullable"
      /\ row[6].col = "Max" /\ row[6].type = "nullable"
      /\ row[7].col = "AggregationTemporality" /\ row[7].type = "int32"
      /\ row[8].col = "Exemplars" /\ row[8].type = "list"
  BY DEF HistogramRow, I64ListFromUint, I64, I32, List, F64OrNull, Append1
<1> HIDE DEF row
<1>3. \A n \in 1 .. 8 : <<row[n].col, row[n].type>> \in HistogramFields
  BY <1>2 DEF HistogramFields, Of
<1>4. \A field \in HistogramFields : \E n \in 1 .. 8 : field = <<row[n].col, row[n].type>>
  BY <1>2 DEF HistogramFields, Of
<1>5. \A n, k \in 1 .. 8 : row[n].col = row[k].col => n = k
  BY <1>2
<1>6. Fills(row, HistogramFields)
  <2>1. {<<row[n].col, row[n].type>> : n \in DOMAIN row} = HistogramFields
    BY ONLY <1>1, <1>3, <1>4
  <2> QED BY ONLY <1>1, <1>5, <2>1, TypedIsSeq DEF Fills
<1> QED BY <1>6 DEF row

LEMMA ExpHistogramFills ==
  ASSUME NEW m, NEW dp
  PROVE  Fills(ExpHistogramRow(m, dp), ExpHistogramFields)
<1> DEFINE row == ExpHistogramRow(m, dp)
<1>1. DOMAIN row = 1 .. 12 /\ row \in Seq({row[n] : n \in 1 .. 12})
  BY DEF ExpHistogramRow
<1>2. /\ row[1].col = "Count" /\ row[1].type = "int64"
      /\ row[2].col = "Sum" /\ row[2].type = "nullable"
      /\ row[3].col = "Scale" /\ row[3].type = "int32"
      /\ row[4].col = "ZeroCount" /\ row[4].type = "int64"
      /\ row[5].col = "PositiveOffset" /\ row[5].type = "int32"
      /\ row[6].col = "PositiveBucketCounts" /\ row[6].type = "list"
      /\ row[7].col = "NegativeOffset" /\ row[7].type = "int32"
      /\ row[8].col = "NegativeBucketCounts" /\ row[8].type = "list"
      /\ row[9].col = "Min" /\ row[9].type = "nullable"
      /\ row[10].col = "Max" /\ row[10].type = "nullable"
      /\ row[11].col = "AggregationTemporality" /\ row[11].type = "int32"
      /\ row[12].col = "Exemplars" /\ row[12].type = "list"
  BY DEF ExpHistogramRow, I64ListFromUint, I64, I32, List, F64OrNull, Append1
<1> HIDE DEF row
<1>3. \A n \in 1 .. 12 : <<row[n].col, row[n].type>> \in ExpHistogramFields
  BY <1>2 DEF ExpHistogramFields, Of
<1>4. \A field \in ExpHistogramFields : \E n \in 1 .. 12 : field = <<row[n].col, row[n].type>>
  BY <1>2 DEF ExpHistogramFields, Of
<1>5. \A n, k \in 1 .. 12 : row[n].col = row[k].col => n = k
  BY <1>2
<1>6. Fills(row, ExpHistogramFields)
  <2>1. {<<row[n].col, row[n].type>> : n \in DOMAIN row} = ExpHistogramFields
    BY ONLY <1>1, <1>3, <1>4
  <2> QED BY ONLY <1>1, <1>5, <2>1, TypedIsSeq DEF Fills
<1> QED BY <1>6 DEF row

LEMMA SummaryFills ==
  ASSUME NEW m, NEW dp
  PROVE  Fills(SummaryRow(m, dp), SummaryFields)
<1> DEFINE row == SummaryRow(m, dp)
<1>1. DOMAIN row = 1 .. 3 /\ row \in Seq({row[n] : n \in 1 .. 3})
  BY DEF SummaryRow
<1>2. /\ row[1].col = "Count" /\ row[1].type = "int64"
      /\ row[2].col = "Sum" /\ row[2].type = "float64"
      /\ row[3].col = "ValueAtQuantiles" /\ row[3].type = "list"
  BY DEF SummaryRow, I64, F64, List, Append1
<1> HIDE DEF row
<1>3. \A n \in 1 .. 3 : <<row[n].col, row[n].type>> \in SummaryFields
  BY <1>2 DEF SummaryFields, Of
<1>4. \A field \in SummaryFields : \E n \in 1 .. 3 : field = <<row[n].col, row[n].type>>
  BY <1>2 DEF SummaryFields, Of
<1>5. \A n, k \in 1 .. 3 : row[n].col = row[k].col => n = k
  BY <1>2
<1>6. Fills(row, SummaryFields)
  <2>1. {<<row[n].col, row[n].type>> : n \in DOMAIN row} = SummaryFields
    BY ONLY <1>1, <1>3, <1>4
  <2> QED BY ONLY <1>1, <1>5, <2>1, TypedIsSeq DEF Fills
<1> QED BY <1>6 DEF row

LEMMA SpanFills ==
  ASSUME NEW res, NEW scope, NEW s
  PROVE  Fills(SpanRow(res, scope, s), TracesSchema)
<1> DEFINE row == SpanRow(res, scope, s)
<1>1. DOMAIN row = 1 .. 17 /\ row \in Seq({row[n] : n \in 1 .. 17})
  BY DEF SpanRow
<1>2. /\ row[1].col = "Timestamp" /\ row[1].type = "int64"
      /\ row[2].col = "TraceId" /\ row[2].type = "string"
      /\ row[3].col = "SpanId" /\ row[3].type = "string"
      /\ row[4].col = "ParentSpanId" /\ row[4].type = "string"
      /\ row[5].col = "TraceState" /\ row[5].type = "string"
      /\ row[6].col = "SpanName" /\ row[6].type = "string"
      /\ row[7].col = "SpanKind" /\ row[7].type = "string"
      /\ row[8].col = "ServiceName" /\ row[8].type = "string"
      /\ row[9].col = "ResourceAttributes" /\ row[9].type = "string"
      /\ row[10].col = "ScopeName" /\ row[10].type = "string"
      /\ row[11].col = "ScopeVersion" /\ row[11].type = "string"
      /\ row[12].col = "SpanAttributes" /\ row[12].type = "string"
      /\ row[13].col = "Duration" /\ row[13].type = "int64"
      /\ row[14].col = "StatusCode" /\ row[14].type = "string"
      /\ row[15].col = "StatusMessage" /\ row[15].type = "string"
      /\ row[16].col = "Events" /\ row[16].type = "list"
      /\ row[17].col = "Links" /\ row[17].type = "list"
  BY DEF SpanRow, Str, I64, List, Append1
<1> HIDE DEF row
<1>3. \A n \in 1 .. 17 : <<row[n].col, row[n].type>> \in TracesSchema
  BY <1>2 DEF TracesSchema, Of
<1>4. \A field \in TracesSchema : \E n \in 1 .. 17 : field = <<row[n].col, row[n].type>>
  BY <1>2 DEF TracesSchema, Of
<1>5. \A n, k \in 1 .. 17 : row[n].col = row[k].col => n = k
  BY <1>2
<1>6. Fills(row, TracesSchema)
  <2>1. {<<row[n].col, row[n].type>> : n \in DOMAIN row} = TracesSchema
    BY ONLY <1>1, <1>3, <1>4
  <2> QED BY ONLY <1>1, <1>5, <2>1, TypedIsSeq DEF Fills
<1> QED BY <1>6 DEF row

LEMMA LogFills ==
  ASSUME NEW res, NEW scope, NEW lr
  PROVE  Fills(LogRow(res, scope, lr), LogsSchema)
<1> DEFINE row == LogRow(res, scope, lr)
<1>1. DOMAIN row = 1 .. 14 /\ row \in Seq({row[n] : n \in 1 .. 14})
  BY DEF LogRow
<1>2. /\ row[1].col = "Timestamp" /\ row[1].type = "int64"
      /\ row[2].col = "TraceId" /\ row[2].type = "string"
      /\ row[3].col = "SpanId" /\ row[3].type = "string"
      /\ row[4].col = "TraceFlags" /\ row[4].type = "int32"
      /\ row[5].col = "SeverityText" /\ row[5].type = "string"
      /\ row[6].col = "SeverityNumber" /\ row[6].type = "int32"
      /\ row[7].col = "ServiceName" /\ row[7].type = "string"
      /\ row[8].col = "Body" /\ row[8].type = "string"
      /\ row[9].col = "ResourceAttributes" /\ row[9].type = "string"
      /\ row[10].col = "ScopeName" /\ row[10].type = "string"
      /\ row[11].col = "ScopeVersion" /\ row[11].type = "string"
      /\ row[12].col = "ScopeAttributes" /\ row[12].type = "string"
      /\ row[13].col = "LogAttributes" /\ row[13].type = "string"
      /\ row[14].col = "EventName" /\ row[14].type = "string"
  BY DEF LogRow, Str, I64, I32, Append1
<1> HIDE DEF row
<1>3. \A n \in 1 .. 14 : <<row[n].col, row[n].type>> \in LogsSchema
  BY <1>2 DEF LogsSchema, Of
<1>4. \A field \in LogsSchema : \E n \in 1 .. 14 : field = <<row[n].col, row[n].type>>
  BY <1>2 DEF LogsSchema, Of
<1>5. \A n, k \in 1 .. 14 : row[n].col = row[k].col => n = k
  BY <1>2
<1>6. Fills(row, LogsSchema)
  <2>1. {<<row[n].col, row[n].type>> : n \in DOMAIN row} = LogsSchema
    BY ONLY <1>1, <1>3, <1>4
  <2> QED BY ONLY <1>1, <1>5, <2>1, TypedIsSeq DEF Fills
<1> QED BY <1>6 DEF row

-----------------------------------------------------------------------------
(* Rows of two parts, and all the rows of a request. *)

LEMMA FillsBoth ==
  ASSUME NEW a, NEW b, NEW s, NEW t, Fills(a, s), Fills(b, t),
         \A f \in s, h \in t : f[1] # h[1]
  PROVE  Fills(a \o b, s \cup t)
<1> DEFINE A == Len(a)
           c == a \o b
           Field(row, n) == <<row[n].col, row[n].type>>
<1>1. IsSeq(a) /\ A \in Nat /\ DOMAIN a = 1 .. A /\ IsSeq(b)
  BY SeqFacts DEF Fills
<1>2. /\ IsSeq(c)
      /\ \A n \in DOMAIN a : n \in DOMAIN c /\ c[n] = a[n]
      /\ \A n \in DOMAIN b : A + n \in DOMAIN c /\ c[A + n] = b[n]
      /\ \A n \in DOMAIN c : \/ n \in DOMAIN a /\ c[n] = a[n]
                             \/ n - A \in DOMAIN b /\ c[n] = b[n - A]
  BY <1>1, CatIsSeq
<1>3. DOMAIN c \subseteq Nat
  BY <1>2, SeqFacts
<1> HIDE DEF A, c
<1>4. /\ {Field(a, n) : n \in DOMAIN a} = s /\ {Field(b, n) : n \in DOMAIN b} = t
      /\ \A n, k \in DOMAIN a : a[n].col = a[k].col => n = k
      /\ \A n, k \in DOMAIN b : b[n].col = b[k].col => n = k
  BY DEF Fills
<1>5. {Field(c, n) : n \in DOMAIN c} = s \cup t
  <2>1. ASSUME NEW n \in DOMAIN c PROVE Field(c, n) \in s \cup t
    BY <1>2, <1>4
  <2>2. ASSUME NEW f \in s PROVE \E n \in DOMAIN c : f = Field(c, n)
    <3>1. PICK n \in DOMAIN a : f = Field(a, n)
      BY <1>4
    <3>2. n \in DOMAIN c /\ c[n] = a[n]
      BY <1>1, <1>2
    <3> QED BY <3>1, <3>2
  <2>3. ASSUME NEW f \in t PROVE \E n \in DOMAIN c : f = Field(c, n)
    <3>1. PICK n \in DOMAIN b : f = Field(b, n)
      BY <1>4
    <3>2. A + n \in DOMAIN c /\ c[A + n] = b[n]
      BY <1>1, <1>2
    <3> QED BY <3>1, <3>2
  <2> QED BY <2>1, <2>2, <2>3
<1>6. \A n \in DOMAIN a, k \in DOMAIN b : a[n].col # b[k].col
  <2> TAKE n \in DOMAIN a, k \in DOMAIN b
  <2>1. Field(a, n) \in s /\ Field(b, k) \in t
    BY <1>4
  <2> QED BY <2>1
<1>7. ASSUME NEW n \in DOMAIN c, NEW k \in DOMAIN c, c[n].col = c[k].col PROVE n = k
  <2>1. n \in Nat /\ k \in Nat
    BY <1>3
  <2>2. CASE n \in DOMAIN a /\ c[n] = a[n] /\ k \in DOMAIN a /\ c[k] = a[k]
    BY <1>4, <1>7, <2>2
  <2>3. CASE n - A \in DOMAIN b /\ c[n] = b[n - A] /\ k - A \in DOMAIN b /\ c[k] = b[k - A]
    <3>1. n - A = k - A
      BY <1>4, <1>7, <2>3
    <3> QED BY <1>1, <2>1, <3>1
  <2> QED BY <1>2, <1>6, <1>7, <2>2, <2>3
<1> QED BY <1>2, <1>5, <1>7 DEF Fills, c

LEMMA MetricFills ==
  ASSUME NEW kind \in MetricKinds, NEW res, NEW scope, NEW m, NEW dp, m.type = kind
  PROVE  Fills(Common(res, scope, m, dp) \o RowOf(m, dp), Schema(kind))
<1>1. Fills(Common(res, scope, m, dp), MetricsCommonFields)
  BY CommonFills
<1>2. CASE kind = "gauge"
  <2>1. Fills(RowOf(m, dp), GaugeFields)
    BY <1>2, GaugeFills DEF RowOf
  <2>2. \A f \in MetricsCommonFields, h \in GaugeFields : f[1] # h[1]
    BY DEF MetricsCommonFields, GaugeFields, Of
  <2>3. Schema(kind) = MetricsCommonFields \cup GaugeFields
    BY <1>2 DEF Schema, MetricsGaugeSchema, GaugeFields
  <2> QED BY <1>1, <2>1, <2>2, <2>3, FillsBoth
<1>3. CASE kind = "sum"
  <2>1. Fills(RowOf(m, dp), SumFields)
    BY <1>3, SumFills DEF RowOf
  <2>2. \A f \in MetricsCommonFields, h \in SumFields : f[1] # h[1]
    BY DEF MetricsCommonFields, SumFields, Of
  <2>3. Schema(kind) = MetricsCommonFields \cup SumFields
    BY <1>3 DEF Schema, MetricsSumSchema, SumFields
  <2> QED BY <1>1, <2>1, <2>2, <2>3, FillsBoth
<1>4. CASE kind = "histogram"
  <2>1. Fills(RowOf(m, dp), HistogramFields)
    BY <1>4, HistogramFills DEF RowOf
  <2>2. \A f \in MetricsCommonFields, h \in HistogramFields : f[1] # h[1]
    BY DEF MetricsCommonFields, HistogramFields, Of
  <2>3. Schema(kind) = MetricsCommonFields \cup HistogramFields
    BY <1>4 DEF Schema, MetricsHistogramSchema, HistogramFields
  <2> QED BY <1>1, <2>1, <2>2, <2>3, FillsBoth
<1>5. CASE kind = "exphistogram"
  <2>1. Fills(RowOf(m, dp), ExpHistogramFields)
    BY <1>5, ExpHistogramFills DEF RowOf
  <2>2. \A f \in MetricsCommonFields, h \in ExpHistogramFields : f[1] # h[1]
    BY DEF MetricsCommonFields, ExpHistogramFields, Of
  <2>3. Schema(kind) = MetricsCommonFields \cup ExpHistogramFields
    BY <1>5 DEF Schema, MetricsExpHistogramSchema, ExpHistogramFields
  <2> QED BY <1>1, <2>1, <2>2, <2>3, FillsBoth
<1>6. CASE kind = "summary"
  <2>1. Fills(RowOf(m, dp), SummaryFields)
    BY <1>6, SummaryFills DEF RowOf
  <2>2. \A f \in MetricsCommonFields, h \in SummaryFields : f[1] # h[1]
    BY DEF MetricsCommonFields, SummaryFields, Of
  <2>3. Schema(kind) = MetricsCommonFields \cup SummaryFields
    BY <1>6 DEF Schema, MetricsSummarySchema, SummaryFields
  <2> QED BY <1>1, <2>1, <2>2, <2>3, FillsBoth
<1> QED BY <1>2, <1>3, <1>4, <1>5, <1>6 DEF MetricKinds

(* Rows that each fill a schema, and sequences of them. *)
AllFill(rows, schema) == IsSeq(rows) /\ \A n \in DOMAIN rows : Fills(rows[n], schema)

LEMMA FlattenFills ==
  ASSUME NEW s, NEW schema, IsSeq(s), \A n \in DOMAIN s : AllFill(s[n], schema)
  PROVE  AllFill(FlattenSeq(s), schema)
<1>1. \A n \in DOMAIN s : IsSeq(s[n]) /\ \A j \in DOMAIN s[n] : Fills(s[n][j], schema)
  BY DEF AllFill
<1>2. /\ IsSeq(FlattenSeq(s))
      /\ \A i \in DOMAIN FlattenSeq(s) :
           \E n \in DOMAIN s : \E j \in DOMAIN s[n] : FlattenSeq(s)[i] = s[n][j]
  BY <1>1, FlattenElements
<1> QED BY <1>1, <1>2 DEF AllFill

SignalKinds(signal) == CASE signal = "traces"  -> {"traces"}
                         [] signal = "logs"    -> {"logs"}
                         [] signal = "metrics" -> MetricKinds

LEMMA ItemRowsFill ==
  ASSUME NEW kind, kind \in {"traces", "logs"} \cup MetricKinds, NEW res, NEW scope, NEW item,
         kind \in MetricKinds => IsSeq(item.points)
  PROVE  AllFill(ItemRows(kind, res, scope, item), Schema(kind))
<1>1. CASE kind = "traces"
  <2>1. ItemRows(kind, res, scope, item) = <<SpanRow(res, scope, item)>>
    BY <1>1 DEF ItemRows
  <2>2. Fills(SpanRow(res, scope, item), Schema(kind))
    BY <1>1, SpanFills DEF Schema
  <2> QED BY <2>1, <2>2, SmallSeqs DEF AllFill
<1>2. CASE kind = "logs"
  <2>1. ItemRows(kind, res, scope, item) = <<LogRow(res, scope, item)>>
    BY <1>2 DEF ItemRows
  <2>2. Fills(LogRow(res, scope, item), Schema(kind))
    BY <1>2, LogFills DEF Schema
  <2> QED BY <2>1, <2>2, SmallSeqs DEF AllFill
<1>3. CASE kind \in MetricKinds /\ item.type # kind
  <2>1. ItemRows(kind, res, scope, item) = <<>>
    BY <1>3 DEF ItemRows, AppendMetric, MetricKinds
  <2> QED BY <2>1, SmallSeqs DEF AllFill
<1>4. CASE kind \in MetricKinds /\ item.type = kind
  <2> DEFINE rows == [n \in DOMAIN item.points |->
                        Common(res, scope, item, item.points[n]) \o RowOf(item, item.points[n])]
  <2>1. ItemRows(kind, res, scope, item) = rows
    BY <1>4 DEF ItemRows, AppendMetric, MetricKinds
  <2>2. IsSeq(rows) /\ DOMAIN rows = DOMAIN item.points
    <3>1. rows = [n \in DOMAIN item.points |-> rows[n]]
      OBVIOUS
    <3> HIDE DEF rows
    <3> QED BY <1>4, <3>1, MapIsSeq
  <2>3. \A n \in DOMAIN rows : Fills(rows[n], Schema(kind))
    BY <1>4, MetricFills
  <2> QED BY <2>1, <2>2, <2>3 DEF AllFill
<1> QED BY <1>1, <1>2, <1>3, <1>4

LEMMA RowsFill ==
  ASSUME NEW req, WellFormed(req), NEW kind \in SignalKinds(req.signal)
  PROVE  AllFill(RowsFor(kind, req), Schema(kind))
<1> DEFINE OfScope1(res, scope) ==
             [n \in DOMAIN scope.items |-> ItemRows(kind, res, scope, scope.items[n])]
           OfResource1(res) ==
             [n \in DOMAIN res.scopes |-> FlattenSeq(OfScope1(res, res.scopes[n]))]
           OfRequest ==
             [n \in DOMAIN req.resources |-> FlattenSeq(OfResource1(req.resources[n]))]
<1>1. RowsFor(kind, req) = FlattenSeq(OfRequest)
  BY DEF RowsFor, ForEach
<1>2. /\ IsSeq(req.resources)
      /\ kind \in {"traces", "logs"} \cup MetricKinds
      /\ kind \in MetricKinds => req.signal = "metrics"
  BY DEF WellFormed, SignalKinds, MetricKinds
<1>3. ASSUME NEW res \in Range(req.resources) PROVE AllFill(FlattenSeq(OfResource1(res)), Schema(kind))
  <2>1. IsSeq(res.scopes)
    BY DEF WellFormed
  <2>2. ASSUME NEW scope \in Range(res.scopes)
        PROVE  AllFill(FlattenSeq(OfScope1(res, scope)), Schema(kind))
    <3>1. IsSeq(scope.items) /\ \A m \in Range(scope.items) : kind \in MetricKinds => IsSeq(m.points)
      BY <1>2 DEF WellFormed
    <3> DEFINE t == OfScope1(res, scope)
    <3>2. \A n \in DOMAIN scope.items : t[n] = ItemRows(kind, res, scope, scope.items[n])
      OBVIOUS
    <3>3. t = [n \in DOMAIN scope.items |-> t[n]]
      OBVIOUS
    <3> HIDE DEF t
    <3>4. IsSeq(t) /\ DOMAIN t = DOMAIN scope.items
      BY <3>1, <3>3, MapIsSeq
    <3>5. ASSUME NEW n \in DOMAIN t PROVE AllFill(t[n], Schema(kind))
      <4>1. scope.items[n] \in Range(scope.items)
        BY <3>4 DEF Range
      <4>2. kind \in MetricKinds => IsSeq(scope.items[n].points)
        BY <3>1, <4>1
      <4> QED BY <1>2, <3>2, <3>4, <4>2, ItemRowsFill
    <3>6. AllFill(FlattenSeq(t), Schema(kind))
      BY <3>4, <3>5, FlattenFills
    <3> QED BY <3>6 DEF t
  <2> DEFINE t == OfResource1(res)
  <2>3. \A n \in DOMAIN res.scopes : t[n] = FlattenSeq(OfScope1(res, res.scopes[n]))
    OBVIOUS
  <2>4. t = [n \in DOMAIN res.scopes |-> t[n]]
    OBVIOUS
  <2> HIDE DEF OfScope1, t
  <2>5. IsSeq(t) /\ DOMAIN t = DOMAIN res.scopes
    BY <2>1, <2>4, MapIsSeq
  <2>6. ASSUME NEW n \in DOMAIN t PROVE AllFill(t[n], Schema(kind))
    <3>1. res.scopes[n] \in Range(res.scopes)
      BY <2>5 DEF Range
    <3> QED BY <2>2, <2>3, <2>5, <3>1
  <2>7. AllFill(FlattenSeq(t), Schema(kind))
    BY <2>5, <2>6, FlattenFills
  <2> QED BY <2>7 DEF t
<1> DEFINE t == OfRequest
<1>4. \A n \in DOMAIN req.resources : t[n] = FlattenSeq(OfResource1(req.resources[n]))
  OBVIOUS
<1>5. t = [n \in DOMAIN req.resources |-> t[n]]
  OBVIOUS
<1> HIDE DEF OfResource1, t
<1>6. IsSeq(t) /\ DOMAIN t = DOMAIN req.resources
  BY <1>2, <1>5, MapIsSeq
<1>7. ASSUME NEW n \in DOMAIN t PROVE AllFill(t[n], Schema(kind))
  <2>1. req.resources[n] \in Range(req.resources)
    BY <1>6 DEF Range
  <2> QED BY <1>3, <1>4, <1>6, <2>1
<1>8. AllFill(FlattenSeq(t), Schema(kind))
  BY <1>6, <1>7, FlattenFills
<1> QED BY <1>1, <1>8 DEF t

(* The cell that a row appends to a column. *)
CellIn(row, col) == row[CHOOSE n \in DOMAIN row : row[n].col = col].cell

(* If every row fills the schema, the columns are what the rows appended,  *)
(* cell by cell, and nothing else was appended.                            *)
LEMMA ColumnsOfRows ==
  ASSUME NEW rows, NEW schema, AllFill(rows, schema)
  PROVE  /\ \A field \in schema :
              Column(FlattenSeq(rows), field[1])
                = [n \in DOMAIN rows |-> CellIn(rows[n], field[1])]
         /\ {<<FlattenSeq(rows)[n].col, FlattenSeq(rows)[n].type>> :
               n \in DOMAIN FlattenSeq(rows)} \subseteq schema
<1>1. /\ IsSeq(rows)
      /\ \A n \in DOMAIN rows : IsSeq(rows[n])
  BY DEF AllFill, Fills
<1>2. PICK U : rows \in Seq(Seq(U))
  BY <1>1, NestedIsTyped
<1>3. ASSUME NEW field \in schema
      PROVE  Column(FlattenSeq(rows), field[1]) = [n \in DOMAIN rows |-> CellIn(rows[n], field[1])]
  <2> DEFINE col == field[1]
             cell == [n \in DOMAIN rows |-> CellIn(rows[n], col)]
  <2>1. ASSUME NEW n \in DOMAIN rows PROVE Column(rows[n], col) = <<cell[n]>>
    <3> DEFINE row == rows[n]
               k == CHOOSE i \in DOMAIN row : row[i].col = col
    <3>1. /\ row \in Seq(U)
          /\ {<<row[i].col, row[i].type>> : i \in DOMAIN row} = schema
          /\ \A i, j \in DOMAIN row : row[i].col = row[j].col => i = j
      BY <1>2, LenProperties DEF AllFill, Fills
    <3>2. \E i \in DOMAIN row : row[i].col = col
      BY <3>1
    <3>3. k \in DOMAIN row /\ row[k].col = col
      BY <3>2
    <3>4. cell[n] = row[k].cell
      BY DEF CellIn
    <3> HIDE DEF row, k, cell, col
    <3>5. \A i \in DOMAIN row : row[i].col = col <=> i = k
      BY <3>1, <3>3
    <3>6. Column(row, col) = <<row[k].cell>>
      BY <3>1, <3>3, <3>5, ColumnOnce
    <3> QED BY <3>4, <3>6 DEF row
  <2> HIDE DEF cell, col
  <2>2. Column(FlattenSeq(rows), col) = [n \in DOMAIN rows |-> cell[n]]
    BY <1>2, <2>1, ColumnOfRows
  <2> QED BY <2>2 DEF cell, col
<1>4. \A i \in DOMAIN FlattenSeq(rows) :
        \E n \in DOMAIN rows : \E j \in DOMAIN rows[n] : FlattenSeq(rows)[i] = rows[n][j]
  BY <1>1, FlattenElements
<1>5. \A n \in DOMAIN rows : \A j \in DOMAIN rows[n] : <<rows[n][j].col, rows[n][j].type>> \in schema
  BY DEF AllFill, Fills
<1> QED BY <1>3, <1>4, <1>5

-----------------------------------------------------------------------------
(* What the SNMP receiver builds is a request of that form. *)

LEMMA ForEachIsSeq ==
  ASSUME NEW s, IsSeq(s), NEW t, t = [n \in DOMAIN s |-> t[n]],
         \A n \in DOMAIN s : IsSeq(t[n])
  PROVE  /\ IsSeq(FlattenSeq(t))
         /\ \A i \in DOMAIN FlattenSeq(t) :
              \E n \in DOMAIN s : \E j \in DOMAIN t[n] : FlattenSeq(t)[i] = t[n][j]
<1>1. IsSeq(t) /\ DOMAIN t = DOMAIN s
  BY MapIsSeq
<1> QED BY <1>1, FlattenElements

LEMMA SetToSeqIsSeq ==
  ASSUME NEW S, IsFiniteSet(S)
  PROVE  IsSeq(SetToSeq(S))
<1>1. Cardinality(S) \in Nat /\ \E f \in [1 .. Cardinality(S) -> S] : IsInjective(f)
  BY FS_CardinalityType DEF ExistsBijection, Bijection, Injection
<1>2. SetToSeq(S) \in [1 .. Cardinality(S) -> S]
  BY <1>1 DEF SetToSeq
<1>3. SetToSeq(S) \in Seq(S)
  BY <1>1, <1>2, SeqDef
<1> QED BY <1>3, TypedIsSeq

(* Metrics with points. *)
Measured(cs) == IsSeq(cs) /\ \A n \in DOMAIN cs : IsSeq(cs[n].points)

LEMMA ScalarsMeasured ==
  ASSUME NEW g \in DOMAIN Groups
  PROVE  Measured(CollectScalar(Groups[g]))
<1> DEFINE ms == Groups[g].metrics
           One(m) == <<[name |-> m.name, type |-> m.type,
                        points |-> <<[value |-> Scalars[m.oid], labels |-> <<>>]>>]>>
           t == [n \in DOMAIN ms |-> IF ms[n].oid \notin DOMAIN Scalars THEN <<>> ELSE One(ms[n])]
<1>1. CollectScalar(Groups[g]) = FlattenSeq(t)
  BY DEF CollectScalar, ForEach
<1>2. IsSeq(ms) /\ t = [n \in DOMAIN ms |-> t[n]]
  BY GroupsAssumption
<1>3. ASSUME NEW n \in DOMAIN ms
      PROVE  IsSeq(t[n]) /\ \A j \in DOMAIN t[n] : IsSeq(t[n][j].points)
  <2>1. CASE ms[n].oid \notin DOMAIN Scalars
    BY <2>1, SmallSeqs
  <2>2. CASE ms[n].oid \in DOMAIN Scalars
    <3> DEFINE m == [name |-> ms[n].name, type |-> ms[n].type,
                     points |-> <<[value |-> Scalars[ms[n].oid], labels |-> <<>>]>>]
    <3>1. t[n] = <<m>>
      BY <2>2
    <3>2. IsSeq(m.points)
      BY SmallSeqs
    <3> HIDE DEF m, t
    <3> QED BY <3>1, <3>2, SmallSeqs
  <2> QED BY <2>1, <2>2
<1> HIDE DEF t
<1>4. /\ IsSeq(FlattenSeq(t))
      /\ \A i \in DOMAIN FlattenSeq(t) :
           \E n \in DOMAIN ms : \E j \in DOMAIN t[n] : FlattenSeq(t)[i] = t[n][j]
  BY <1>2, <1>3, ForEachIsSeq
<1> QED BY <1>1, <1>3, <1>4 DEF Measured

LEMMA TableMeasured ==
  ASSUME NEW g \in DOMAIN Groups, NEW w, DOMAIN w[1] \subseteq Indexes
  PROVE  Measured(CollectTable(Groups[g], w))
<1> DEFINE ms == Groups[g].metrics
           is == TableIndexes(w)
           Points(c, i) == [n \in DOMAIN ByIndex(w, c, i) |->
                              [value  |-> ByIndex(w, c, i)[n],
                               labels |-> TableLabels(Groups[g], w, i)]]
           Column1(c) == [k \in DOMAIN is |-> Points(c, is[k])]
           t == [c \in DOMAIN ms |-> [name |-> ms[c].name, type |-> ms[c].type,
                                      points |-> FlattenSeq(Column1(c))]]
<1>1. CollectTable(Groups[g], w) = t
  BY DEF CollectTable, ForEach
<1>2. IsSeq(is)
  <2>1. IsFiniteSet(DOMAIN w[1])
    BY IndexesAssumption, FS_Subset
  <2> QED BY <2>1, SetToSeqIsSeq DEF TableIndexes
<1>3. ASSUME NEW c, NEW i PROVE IsSeq(Points(c, i))
  <2> DEFINE v == ByIndex(w, c, i)
             q == Points(c, i)
  <2>1. IsSeq(v)
    BY SmallSeqs DEF ByIndex
  <2>2. q = [n \in DOMAIN v |-> q[n]]
    OBVIOUS
  <2> HIDE DEF q, v
  <2>3. IsSeq(q)
    BY <2>1, <2>2, MapIsSeq
  <2> QED BY <2>3 DEF q
<1>4. ASSUME NEW c PROVE IsSeq(FlattenSeq(Column1(c)))
  <2> DEFINE q == Column1(c)
  <2>1. q = [n \in DOMAIN is |-> q[n]] /\ \A n \in DOMAIN is : q[n] = Points(c, is[n])
    OBVIOUS
  <2> HIDE DEF q, Points, is
  <2>2. IsSeq(FlattenSeq(q))
    BY <1>2, <1>3, <2>1, ForEachIsSeq
  <2> QED BY <2>2 DEF q
<1>5. IsSeq(t) /\ DOMAIN t = DOMAIN ms
  <2>1. IsSeq(ms) /\ t = [c \in DOMAIN ms |-> t[c]]
    BY GroupsAssumption
  <2> HIDE DEF t, ms
  <2> QED BY <2>1, MapIsSeq
<1>6. \A c \in DOMAIN ms : IsSeq(t[c].points)
  <2> HIDE DEF Column1
  <2> QED BY <1>4
<1> HIDE DEF t
<1> QED BY <1>1, <1>5, <1>6 DEF Measured

(* A metric as WellFormed demands it. *)
Pointed(m) == IsSeq(m.points) /\ \A dp \in Range(m.points) : PointNumbers(m, dp)

LEMMA BuiltIsWellFormed ==
  ASSUME NEW cs, Measured(cs)
  PROVE  WellFormed(BuildMetrics(cs))
<1> DEFINE t == [n \in DOMAIN cs |-> IF Known(cs[n]) THEN <<BuiltMetric(cs[n])>> ELSE <<>>]
           scope == [name |-> "snmpreceiver", version |-> "", attributes |-> <<>>,
                     schemaUrl |-> "", items |-> FlattenSeq(t)]
           res == [attributes |-> ResourceAttributes, schemaUrl |-> "", scopes |-> <<scope>>]
<1>1. BuildMetrics(cs) = [signal |-> "metrics", resources |-> <<res>>]
  BY DEF BuildMetrics, ForEach
<1>2. ASSUME NEW n \in DOMAIN cs PROVE Pointed(BuiltMetric(cs[n]))
  <2> DEFINE m == BuiltMetric(cs[n])
             ps == cs[n].points
             q == [k \in DOMAIN ps |->
                     IF IsSupportedNumber(ps[k].value) THEN <<NumberPoint(ps[k])>> ELSE <<>>]
  <2>1. BuiltMetric(cs[n]).points = FlattenSeq(q)
    BY DEF BuiltMetric, ForEach
  <2>2. IsSeq(ps) /\ q = [k \in DOMAIN ps |-> q[k]] /\ \A k \in DOMAIN ps : IsSeq(q[k])
    BY SmallSeqs DEF Measured
  <2>3. m.type \in {"gauge", "sum"}
    BY DEF BuiltMetric
  <2>4. ASSUME NEW p PROVE PointNumbers(m, NumberPoint(p))
    BY <2>3 DEF PointNumbers, NumberPoint
  <2>5. \A k \in DOMAIN ps : \A j \in DOMAIN q[k] : \E p : q[k][j] = NumberPoint(p)
    BY SmallSeqs
  <2>6. m.points = FlattenSeq(q)
    BY <2>1
  <2> HIDE DEF q, ps, m
  <2>7. /\ IsSeq(FlattenSeq(q))
        /\ \A i \in DOMAIN FlattenSeq(q) :
             \E k \in DOMAIN ps : \E j \in DOMAIN q[k] : FlattenSeq(q)[i] = q[k][j]
    BY <2>2, ForEachIsSeq
  <2>8. \A i \in DOMAIN m.points : \E p : m.points[i] = NumberPoint(p)
    BY <2>5, <2>6, <2>7
  <2>9. Pointed(m)
    BY <2>4, <2>6, <2>7, <2>8 DEF Pointed, Range
  <2> QED BY <2>9 DEF m
<1>3. ASSUME NEW n \in DOMAIN cs
      PROVE  IsSeq(t[n]) /\ \A j \in DOMAIN t[n] : Pointed(t[n][j])
  <2>1. CASE Known(cs[n])
    <3>1. t[n] = <<BuiltMetric(cs[n])>>
      BY <2>1
    <3> HIDE DEF t
    <3> QED BY <1>2, <3>1, SmallSeqs
  <2>2. CASE ~Known(cs[n])
    BY <2>2, SmallSeqs
  <2> QED BY <2>1, <2>2
<1>4. /\ IsSeq(FlattenSeq(t))
      /\ \A i \in DOMAIN FlattenSeq(t) : Pointed(FlattenSeq(t)[i])
  <2>1. IsSeq(cs) /\ t = [n \in DOMAIN cs |-> t[n]]
    BY DEF Measured
  <2> HIDE DEF t
  <2>2. /\ IsSeq(FlattenSeq(t))
        /\ \A i \in DOMAIN FlattenSeq(t) :
             \E n \in DOMAIN cs : \E j \in DOMAIN t[n] : FlattenSeq(t)[i] = t[n][j]
    BY <1>3, <2>1, ForEachIsSeq
  <2> QED BY <1>3, <2>2
<1>5. IsSeq(scope.items) /\ \A m \in Range(scope.items) : Pointed(m)
  <2> HIDE DEF t
  <2> QED BY <1>4 DEF Range
<1> HIDE DEF scope
<1>6. IsSeq(res.scopes) /\ Range(res.scopes) = {scope}
  BY SmallSeqs DEF Range
<1> HIDE DEF res
<1>7. IsSeq(<<res>>) /\ Range(<<res>>) = {res}
  BY SmallSeqs DEF Range
<1> DEFINE req == [signal |-> "metrics", resources |-> <<res>>]
<1>8. req.signal = "metrics" /\ req.resources = <<res>>
  OBVIOUS
<1> HIDE DEF req
<1>9. WellFormed(req)
  BY <1>5, <1>6, <1>7, <1>8 DEF WellFormed, Pointed
<1> QED BY <1>1, <1>9 DEF req

-----------------------------------------------------------------------------
(* The records of a request. *)

LEMMA RecordsOfRequest ==
  ASSUME NEW req, WellFormed(req), NEW kind \in DOMAIN ToRecords(req)
  PROVE  LET rows   == RowsFor(kind, req)
             record == ToRecords(req)[kind]
         IN /\ record.types \subseteq Schema(kind)
            /\ record.rows = Len(rows) /\ Len(rows) \in Nat
            /\ \A col \in ColumnNames(kind) :
                 record.columns[col] = [n \in 1 .. Len(rows) |-> CellIn(rows[n], col)]
<1> DEFINE rows   == RowsFor(kind, req)
           record == ToRecords(req)[kind]
<1>1. kind \in Kinds(req) /\ record = RecordOf(kind, req)
  BY DEF ToRecords
<1>2. kind \in SignalKinds(req.signal)
  BY <1>1 DEF WellFormed, Kinds, SignalKinds
<1>3. AllFill(rows, Schema(kind))
  BY <1>2, RowsFill
<1>4. Len(rows) \in Nat /\ DOMAIN rows = 1 .. Len(rows)
  BY <1>3, SeqFacts DEF AllFill
<1>5. /\ record.rows = Len(rows)
      /\ record.types = {<<FlattenSeq(rows)[n].col, FlattenSeq(rows)[n].type>> :
                           n \in DOMAIN FlattenSeq(rows)}
      /\ \A col \in ColumnNames(kind) : record.columns[col] = Column(FlattenSeq(rows), col)
  BY <1>1 DEF RecordOf
<1> HIDE DEF rows, record
<1>6. /\ \A field \in Schema(kind) :
           Column(FlattenSeq(rows), field[1]) = [n \in DOMAIN rows |-> CellIn(rows[n], field[1])]
      /\ record.types \subseteq Schema(kind)
  BY <1>3, <1>5, ColumnsOfRows
<1>7. ASSUME NEW col \in ColumnNames(kind)
      PROVE  record.columns[col] = [n \in 1 .. Len(rows) |-> CellIn(rows[n], col)]
  <2>1. PICK field \in Schema(kind) : col = field[1]
    BY DEF ColumnNames
  <2> QED BY <1>4, <1>5, <1>6, <2>1
<1> QED BY <1>4, <1>5, <1>6, <1>7 DEF rows, record

-----------------------------------------------------------------------------
(* The invariant: what the receiver has read is what it can build a        *)
(* request from, and the records are those of the last request.            *)

Reading ==
  /\ stage = "reading" => group \in DOMAIN Groups
  /\ Measured(collected)
  /\ IsSeq(walks) /\ \A n \in DOMAIN walks : DOMAIN walks[n] \subseteq Indexes
  /\ DOMAIN part \subseteq Indexes

Pushed == WellFormed(request) /\ records = ToRecords(request)

PathInv == Reading /\ Pushed

LEMMA NoRequestIsWellFormed == WellFormed(NoRequest)
<1>1. IsSeq(NoRequest.resources) /\ Range(NoRequest.resources) = {}
  BY SmallSeqs DEF NoRequest, Range
<1> QED BY <1>1 DEF WellFormed, NoRequest

LEMMA NothingRead == Measured(<<>>) /\ IsSeq(<<>>) /\ DOMAIN <<>> = {}
  BY SmallSeqs DEF Measured

LEMMA FirstGroup == Groups # <<>> => 1 \in DOMAIN Groups
<1>1. IsSeq(Groups)
  BY GroupsAssumption
<1>2. Groups \in Seq(Range(Groups))
  BY <1>1 DEF IsSeq
<1> QED BY <1>2, EmptySeq, LenProperties

LEMMA MeasuredCat ==
  ASSUME NEW a, NEW b, Measured(a), Measured(b)
  PROVE  Measured(a \o b)
<1>1. IsSeq(a) /\ IsSeq(b)
  BY DEF Measured
<1>2. IsSeq(a \o b)
  BY <1>1, CatIsSeq
<1>3. ASSUME NEW n \in DOMAIN (a \o b) PROVE IsSeq((a \o b)[n].points)
  <2>1. \/ n \in DOMAIN a /\ (a \o b)[n] = a[n]
        \/ n - Len(a) \in DOMAIN b /\ (a \o b)[n] = b[n - Len(a)]
    BY <1>1, CatIsSeq
  <2>2. /\ \A k \in DOMAIN a : IsSeq(a[k].points)
        /\ \A k \in DOMAIN b : IsSeq(b[k].points)
    BY DEF Measured
  <2> QED BY <2>1, <2>2
<1> QED BY <1>2, <1>3 DEF Measured

(* A column more. *)
LEMMA ColumnRead ==
  ASSUME Reading
  PROVE  LET w == Append(walks, part)
         IN IsSeq(w) /\ 1 \in DOMAIN w /\ \A n \in DOMAIN w : DOMAIN w[n] \subseteq Indexes
<1> DEFINE w == Append(walks, part)
           U == Range(walks) \cup {part}
<1>1. Len(walks) \in Nat /\ DOMAIN walks = 1 .. Len(walks)
  BY SeqFacts DEF Reading
<1>2. walks \in Seq(U)
  <2>1. \A n \in DOMAIN walks : walks[n] \in U
    BY DEF Range
  <2> HIDE DEF U
  <2> QED BY <2>1, SeqFacts DEF Reading
<1>3. part \in U
  OBVIOUS
<1> HIDE DEF U
<1>4. /\ w \in Seq(U) /\ Len(w) = Len(walks) + 1
      /\ \A n \in 1 .. Len(walks) : w[n] = walks[n]
      /\ w[Len(walks) + 1] = part
  BY <1>2, <1>3
<1> HIDE DEF w
<1>5. IsSeq(w) /\ DOMAIN w = 1 .. Len(walks) + 1
  BY <1>4, TypedIsSeq, LenProperties
<1>6. ASSUME NEW n \in DOMAIN w PROVE DOMAIN w[n] \subseteq Indexes
  <2>1. CASE n \in DOMAIN walks
    <3>1. w[n] = walks[n]
      BY <1>1, <1>4, <2>1
    <3> QED BY <2>1, <3>1 DEF Reading
  <2>2. CASE n \notin DOMAIN walks
    <3>1. n = Len(walks) + 1
      BY <1>1, <1>5, <2>2
    <3> QED BY <1>4, <3>1 DEF Reading
  <2> QED BY <2>1, <2>2
<1> QED BY <1>1, <1>5, <1>6 DEF w

LEMMA GroupDoneReads ==
  ASSUME Reading, stage = "reading", NEW cs, Measured(cs), NEW ok, GroupDone(cs, ok)
  PROVE  Reading'
<1>1. collected' = cs /\ walks' = <<>> /\ part' = <<>>
  BY DEF GroupDone
<1>2. stage' = "reading" => group' \in DOMAIN Groups
  <2>1. Len(Groups) \in Nat /\ DOMAIN Groups = 1 .. Len(Groups) /\ group \in DOMAIN Groups
    BY GroupsAssumption, SeqFacts DEF Reading
  <2>2. CASE group < Len(Groups)
    BY <2>1, <2>2 DEF GroupDone
  <2>3. CASE ~(group < Len(Groups))
    BY <2>3 DEF GroupDone
  <2> QED BY <2>2, <2>3
<1> QED BY <1>1, <1>2, NothingRead DEF Reading

LEMMA StartRoundReads ==
  ASSUME NEW as, StartRound(as)
  PROVE  Reading'
  BY FirstGroup, NothingRead DEF StartRound, Reading

LEMMA CollectReads ==
  ASSUME Reading, Collect
  PROVE  Reading'
<1>1. CASE WalkRow
  <2>1. PICK i : i \in Ahead /\ DOMAIN part' = DOMAIN part \cup {i}
    <3> DEFINE i == CHOOSE i \in Ahead : \A j \in Ahead : i <= j
    <3>1. Ahead \subseteq Nat /\ Ahead # {}
      BY <1>1, IndexesAssumption DEF Ahead, WalkRow
    <3>2. i \in Ahead
      BY <3>1, Least
    <3>3. DOMAIN part' = DOMAIN part \cup {i}
      BY <1>1 DEF WalkRow
    <3> HIDE DEF i
    <3> QED BY <3>2, <3>3
  <2>2. DOMAIN part' \subseteq Indexes
    BY <2>1 DEF Ahead, Reading
  <2>3. UNCHANGED <<stage, group, collected, walks>>
    BY <1>1 DEF WalkRow
  <2> QED BY <2>2, <2>3 DEF Reading
<1>2. CASE WalkEnds
  <2> DEFINE w == Append(walks, part)
  <2>1. IsSeq(w) /\ 1 \in DOMAIN w /\ \A n \in DOMAIN w : DOMAIN w[n] \subseteq Indexes
    BY ColumnRead
  <2>2. stage = "reading" /\ group \in DOMAIN Groups
    BY <1>2 DEF WalkEnds, Reading
  <2>3. CASE Len(w) = Len(Columns(Current))
    <3>1. GroupDone(collected \o CollectTable(Current, w), TRUE)
      BY <1>2, <2>3 DEF WalkEnds
    <3>2. Measured(CollectTable(Current, w))
      <4> HIDE DEF w
      <4> QED BY <2>1, <2>2, TableMeasured DEF Current
    <3>3. Measured(collected \o CollectTable(Current, w))
      BY <3>2, MeasuredCat DEF Reading
    <3> HIDE DEF w
    <3> QED BY <2>2, <3>1, <3>3, GroupDoneReads
  <2>4. CASE Len(w) # Len(Columns(Current))
    <3>1. walks' = w /\ part' = <<>> /\ UNCHANGED <<stage, group, collected>>
      BY <1>2, <2>4 DEF WalkEnds
    <3> HIDE DEF w
    <3> QED BY <2>1, <3>1, NothingRead DEF Reading
  <2> QED BY <2>3, <2>4
<1>3. CASE ScalarGet
  <2>1. stage = "reading" /\ group \in DOMAIN Groups /\ Measured(collected)
    BY <1>3 DEF ScalarGet, Reading
  <2>2. Measured(collected \o CollectScalar(Current))
    BY <2>1, ScalarsMeasured, MeasuredCat DEF Current
  <2> QED BY <1>3, <2>1, <2>2, GroupDoneReads DEF ScalarGet
<1>4. CASE RequestFails
  BY <1>4, GroupDoneReads DEF RequestFails, Reading
<1> QED BY <1>1, <1>2, <1>3, <1>4 DEF Collect

LEMMA PathInit == Init => PathInv
  BY NoRequestIsWellFormed, NothingRead DEF Init, CollectInit, PathInv, Reading, Pushed

LEMMA PathStep == PathInv /\ [Next]_vars => PathInv'
<1> SUFFICES ASSUME PathInv, [Next]_vars PROVE PathInv'
  OBVIOUS
<1>0. Reading /\ Pushed
  BY DEF PathInv
<1>1. CASE Poll
  <2>1. WellFormed(BuildMetrics(collected))
    BY <1>0, BuiltIsWellFormed DEF Reading
  <2>2. Pushed'
    BY <1>1, <2>1 DEF Poll, Push, Pushed
  <2>3. Reading'
    BY <1>0, <1>1 DEF Poll, Sent, Reading
  <2> QED BY <2>2, <2>3 DEF PathInv
<1>2. CASE Receive
  <2>1. Pushed'
    BY <1>2, RequestsAssumption DEF Receive, Push, Pushed
  <2>2. Reading'
    BY <1>0, <1>2 DEF Receive, Reading, collectVars
  <2> QED BY <2>1, <2>2 DEF PathInv
<1>3. CASE (AttributesRead \/ NextRound) /\ Forget
  <2>1. Pushed'
    BY <1>3, NoRequestIsWellFormed DEF Forget, Pushed
  <2>2. Reading'
    BY <1>3, StartRoundReads DEF AttributesRead, NextRound
  <2> QED BY <2>1, <2>2 DEF PathInv
<1>4. CASE (Agent \/ Collect) /\ UNCHANGED path
  <2>1. Pushed'
    BY <1>0, <1>4 DEF path, Pushed
  <2>2. Reading'
    <3>1. CASE Agent
      BY <1>0, <3>1 DEF Agent, Counts, Changes, reading, Reading
    <3>2. CASE Collect
      BY <1>0, <3>2, CollectReads
    <3> QED BY <1>4, <3>1, <3>2
  <2> QED BY <2>1, <2>2 DEF PathInv
<1>5. CASE UNCHANGED vars
  BY <1>0, <1>5 DEF vars, PathInv, Reading, Pushed
<1> QED BY <1>1, <1>2, <1>3, <1>4, <1>5 DEF Next

LEMMA PathInvariant == Spec => []PathInv
  BY PathInit, PathStep, PTL DEF Spec

(* No record the exporter builds, of a request from NATS or of what an     *)
(* SNMP target was read to be, panics in NewRecord or lacks a cell: every  *)
(* builder gets one cell per row, of the type its column has.              *)
THEOREM EveryRecordFits == Spec => []RecordsFitSchema
<1>1. PathInv => RecordsFitSchema
  <2> SUFFICES ASSUME PathInv, NEW kind \in DOMAIN records
               PROVE  /\ records[kind].types \subseteq Schema(kind)
                      /\ \A c \in ColumnNames(kind) : Len(records[kind].columns[c]) = records[kind].rows
    BY DEF RecordsFitSchema
  <2>1. WellFormed(request) /\ records = ToRecords(request)
    BY DEF PathInv, Pushed
  <2> DEFINE rows == RowsFor(kind, request)
  <2>2. /\ records[kind].types \subseteq Schema(kind)
        /\ records[kind].rows = Len(rows) /\ Len(rows) \in Nat
        /\ \A col \in ColumnNames(kind) :
             records[kind].columns[col] = [n \in 1 .. Len(rows) |-> CellIn(rows[n], col)]
    BY <2>1, RecordsOfRequest
  <2>3. ASSUME NEW c \in ColumnNames(kind) PROVE Len(records[kind].columns[c]) = records[kind].rows
    <3> DEFINE q == records[kind].columns[c]
    <3>1. q = [n \in 1 .. Len(rows) |-> CellIn(rows[n], c)]
      BY <2>2
    <3>2. DOMAIN q = 1 .. Len(rows) /\ q = [n \in 1 .. Len(rows) |-> q[n]]
      BY <3>1
    <3> HIDE DEF q, rows
    <3>3. Len(q) = Len(rows)
      BY <2>2, <3>2, FunctionIsSeq
    <3> QED BY <2>2, <3>3 DEF q
  <2> QED BY <2>2, <2>3
<1> QED BY <1>1, PathInvariant, PTL

(* The cells of a column are, in the order of the rows, what each row      *)
(* appends to it: none slips into the row before or after its own.         *)
CellsInTheirRows ==
  \A kind \in DOMAIN records : \A col \in ColumnNames(kind) :
    records[kind].columns[col]
      = [n \in 1 .. records[kind].rows |-> CellIn(RowsFor(kind, request)[n], col)]

(* Whatever a request holds, the n-th cell of every column of a record is  *)
(* the one that was appended for its n-th row.                             *)
THEOREM EveryCellInItsRow == Spec => []CellsInTheirRows
<1>1. PathInv => CellsInTheirRows
  <2> SUFFICES ASSUME PathInv, NEW kind \in DOMAIN records, NEW col \in ColumnNames(kind)
               PROVE  records[kind].columns[col]
                        = [n \in 1 .. records[kind].rows |-> CellIn(RowsFor(kind, request)[n], col)]
    BY DEF CellsInTheirRows
  <2>1. WellFormed(request) /\ records = ToRecords(request)
    BY DEF PathInv, Pushed
  <2> QED BY <2>1, RecordsOfRequest
<1> QED BY <1>1, PathInvariant, PTL

-----------------------------------------------------------------------------
(* The order of the places. *)

Quads == Nat \X Nat \X Nat \X Nat

LEMMA EarlierInSteps ==
  ASSUME NEW p \in Quads, NEW q \in Quads
  PROVE  Earlier(p, q) <=> \/ p[1] < q[1]
                           \/ p[1] = q[1] /\ p[2] < q[2]
                           \/ p[1] = q[1] /\ p[2] = q[2] /\ p[3] < q[3]
                           \/ p[1] = q[1] /\ p[2] = q[2] /\ p[3] = q[3] /\ p[4] < q[4]
<1>1. ASSUME NEW n \in 1 .. 4
      PROVE  n = 1 \/ n = 2 \/ n = 3 \/ n = 4
  OBVIOUS
<1>2. /\ \A k \in 1 .. 0 : FALSE
      /\ \A k \in 1 .. 1 : k = 1
      /\ \A k \in 1 .. 2 : k = 1 \/ k = 2
      /\ \A k \in 1 .. 3 : k = 1 \/ k = 2 \/ k = 3
      /\ 1 - 1 = 0 /\ 2 - 1 = 1 /\ 3 - 1 = 2 /\ 4 - 1 = 3
      /\ 1 \in 1 .. 1 /\ 1 \in 1 .. 2 /\ 2 \in 1 .. 2 /\ 1 \in 1 .. 3 /\ 2 \in 1 .. 3 /\ 3 \in 1 .. 3
  OBVIOUS
<1>3. Earlier(p, q) <=> \/ p[1] < q[1] /\ \A k \in 1 .. 0 : p[k] = q[k]
                        \/ p[2] < q[2] /\ \A k \in 1 .. 1 : p[k] = q[k]
                        \/ p[3] < q[3] /\ \A k \in 1 .. 2 : p[k] = q[k]
                        \/ p[4] < q[4] /\ \A k \in 1 .. 3 : p[k] = q[k]
  BY <1>1, <1>2 DEF Earlier
<1> QED BY <1>2, <1>3

LEMMA EarlierIsStrict ==
  ASSUME NEW p \in Quads, NEW q \in Quads, Earlier(p, q)
  PROVE  p # q /\ ~Earlier(q, p)
<1>1. /\ p[1] \in Nat /\ p[2] \in Nat /\ p[3] \in Nat /\ p[4] \in Nat
      /\ q[1] \in Nat /\ q[2] \in Nat /\ q[3] \in Nat /\ q[4] \in Nat
  BY DEF Quads
<1> QED BY <1>1, EarlierInSteps

-----------------------------------------------------------------------------
(* Rows that are, one by one and in their order, those of some places. *)

(* at[i] is the place of row i. *)
OnePlaceEach(at, rows, places, row) ==
  /\ at \in Seq(places) /\ Len(at) = Len(rows)
  /\ \A i \in 1 .. Len(at) : rows[i] = row[at[i]]
  /\ \A i, j \in 1 .. Len(at) : i < j => Earlier(at[i], at[j])
  /\ \A p \in places : \E i \in 1 .. Len(at) : at[i] = p

Lists(rows, places, row) ==
  /\ IsSeq(rows) /\ places \subseteq Quads
  /\ \E at : OnePlaceEach(at, rows, places, row)

LEMMA NoRows == \A row : Lists(<<>>, {}, row)
<1>1. IsSeq(<<>>) /\ Len(<<>>) = 0 /\ <<>> \in Seq({})
  BY SmallSeqs, EmptySeq
<1>2. \A row : OnePlaceEach(<<>>, <<>>, {}, row)
  BY <1>1 DEF OnePlaceEach
<1> QED BY <1>1, <1>2 DEF Lists

LEMMA ListsBoth ==
  ASSUME NEW row, NEW a, NEW b, NEW A, NEW B, Lists(a, A, row), Lists(b, B, row),
         \A p \in A, q \in B : Earlier(p, q)
  PROVE  Lists(a \o b, A \cup B, row)
<1>1. PICK f : OnePlaceEach(f, a, A, row)
  BY DEF Lists
<1>2. PICK g : OnePlaceEach(g, b, B, row)
  BY DEF Lists
<1> DEFINE F == Len(f)
           G == Len(g)
           h == f \o g
           c == a \o b
<1>3. /\ F \in Nat /\ G \in Nat /\ F = Len(a) /\ G = Len(b)
      /\ \A i \in 1 .. F : f[i] \in A
      /\ \A i \in 1 .. G : g[i] \in B
  BY <1>1, <1>2, LenProperties DEF OnePlaceEach
<1>4. a \in Seq(Range(a) \cup Range(b)) /\ b \in Seq(Range(a) \cup Range(b))
  BY SeqFacts DEF Lists, Range
<1>5. /\ c \in Seq(Range(a) \cup Range(b)) /\ Len(c) = F + G
      /\ \A i \in 1 .. F + G : c[i] = IF i <= F THEN a[i] ELSE b[i - F]
  BY <1>3, <1>4, ConcatProperties
<1>6. f \in Seq(A \cup B) /\ g \in Seq(A \cup B)
  BY <1>1, <1>2 DEF OnePlaceEach
<1>7. /\ h \in Seq(A \cup B) /\ Len(h) = F + G
      /\ \A i \in 1 .. F + G : h[i] = IF i <= F THEN f[i] ELSE g[i - F]
  BY <1>3, <1>6, ConcatProperties
<1>12. /\ \A i \in 1 .. F : a[i] = row[f[i]]
       /\ \A i, j \in 1 .. F : i < j => Earlier(f[i], f[j])
       /\ \A i \in 1 .. G : b[i] = row[g[i]]
       /\ \A i, j \in 1 .. G : i < j => Earlier(g[i], g[j])
  BY <1>1, <1>2 DEF OnePlaceEach
<1> HIDE DEF h, c, F, G
<1>8. ASSUME NEW i \in 1 .. F + G
      PROVE  c[i] = row[h[i]]
  <2>1. CASE i <= F
    <3>1. i \in 1 .. F
      BY <1>3, <2>1
    <3> QED BY <1>5, <1>7, <1>12, <2>1, <3>1
  <2>2. CASE ~(i <= F)
    <3>1. i - F \in 1 .. G
      BY <1>3, <2>2
    <3> QED BY <1>5, <1>7, <1>12, <2>2, <3>1
  <2> QED BY <2>1, <2>2
<1>9. ASSUME NEW i \in 1 .. F + G, NEW j \in 1 .. F + G, i < j
      PROVE  Earlier(h[i], h[j])
  <2>1. CASE j <= F
    <3>1. i \in 1 .. F /\ j \in 1 .. F
      BY <1>3, <1>9, <2>1
    <3>2. h[i] = f[i] /\ h[j] = f[j]
      BY <1>3, <1>7, <2>1, <3>1
    <3> QED BY <1>9, <1>12, <3>1, <3>2
  <2>2. CASE i <= F /\ ~(j <= F)
    <3>1. i \in 1 .. F /\ j - F \in 1 .. G
      BY <1>3, <2>2
    <3>2. h[i] \in A /\ h[j] \in B
      BY <1>3, <1>7, <2>2, <3>1
    <3> QED BY <3>2
  <2>3. CASE ~(i <= F)
    <3>1. i - F \in 1 .. G /\ j - F \in 1 .. G /\ i - F < j - F /\ ~(j <= F)
      BY <1>3, <1>9, <2>3
    <3>2. Earlier(g[i - F], g[j - F])
      BY <1>12, <3>1
    <3> QED BY <1>7, <2>3, <3>1, <3>2
  <2> QED BY <2>1, <2>2, <2>3
<1>10. ASSUME NEW p \in A \cup B PROVE \E i \in 1 .. F + G : h[i] = p
  <2>1. CASE p \in A
    <3>1. PICK i \in 1 .. F : f[i] = p
      BY <1>1, <2>1 DEF OnePlaceEach, F
    <3>2. i \in 1 .. F + G /\ i <= F
      BY <1>3
    <3> QED BY <1>7, <3>1, <3>2
  <2>2. CASE p \in B
    <3>1. PICK i \in 1 .. G : g[i] = p
      BY <1>2, <2>2 DEF OnePlaceEach, G
    <3>2. F + i \in 1 .. F + G /\ ~(F + i <= F) /\ (F + i) - F = i
      BY <1>3
    <3> QED BY <1>7, <3>1, <3>2
  <2> QED BY <2>1, <2>2
<1>11. OnePlaceEach(h, c, A \cup B, row)
  BY <1>5, <1>7, <1>8, <1>9, <1>10 DEF OnePlaceEach
<1>13. IsSeq(c)
  BY <1>5, TypedIsSeq
<1>14. A \cup B \subseteq Quads
  BY DEF Lists
<1> QED BY <1>11, <1>13, <1>14 DEF Lists, c

(* What the bodies of a loop list, one after the other, the loop lists. *)
LEMMA ListsFlatten ==
  ASSUME NEW row, NEW s, IsSeq(s), NEW P, \A n \in DOMAIN s : Lists(s[n], P[n], row),
         \A n, k \in DOMAIN s : n < k => \A p \in P[n], q \in P[k] : Earlier(p, q)
  PROVE  Lists(FlattenSeq(s), UNION {P[n] : n \in DOMAIN s}, row)
<1> DEFINE L == Len(s)
           Q(n) == UNION {P[k] : k \in 1 .. n}
<1>1. L \in Nat /\ DOMAIN s = 1 .. L
  BY SeqFacts
<1>2. \A n \in DOMAIN s : IsSeq(s[n])
  BY DEF Lists
<1>3. PICK U : s \in Seq(Seq(U))
  BY <1>2, NestedIsTyped
<1>4. PICK c : Concatenates(c, s) /\ \A n \in 0 .. L : c[n] \in Seq(U)
  BY <1>3, FlattenPrefixes
<1> DEFINE N == {n \in Nat : n <= L => Lists(c[n], Q(n), row)}
<1>5. 0 \in N
  <2>1. Q(0) = {}
    OBVIOUS
  <2> QED BY <1>4, <2>1, NoRows DEF Concatenates
<1>6. ASSUME NEW n \in N PROVE n + 1 \in N
  <2>1. CASE n + 1 <= L
    <3>1. n < L /\ n \in Nat /\ n + 1 \in DOMAIN s
      BY <1>1, <2>1
    <3>2. Lists(c[n], Q(n), row) /\ Lists(s[n + 1], P[n + 1], row)
      BY <1>1, <3>1
    <3>3. Q(n + 1) = Q(n) \cup P[n + 1]
      <4>1. 1 .. n + 1 = 1 .. n \cup {n + 1}
        BY <3>1
      <4> QED BY <4>1
    <3>4. ASSUME NEW p \in Q(n), NEW q \in P[n + 1] PROVE Earlier(p, q)
      <4>1. PICK k \in 1 .. n : p \in P[k]
        OBVIOUS
      <4>2. k \in DOMAIN s /\ k < n + 1
        BY <1>1, <3>1
      <4> QED BY <3>1, <4>1, <4>2
    <3>5. c[n + 1] = c[n] \o s[n + 1]
      BY <1>4, <3>1 DEF Concatenates
    <3>6. Lists(c[n] \o s[n + 1], Q(n) \cup P[n + 1], row)
      <4> HIDE DEF Q
      <4> QED BY <3>2, <3>4, ListsBoth
    <3>7. Lists(c[n + 1], Q(n + 1), row)
      BY <3>3, <3>5, <3>6
    <3> HIDE DEF Q
    <3> QED BY <3>1, <3>7
  <2>2. CASE ~(n + 1 <= L)
    BY <2>2
  <2> QED BY <2>1, <2>2
<1>7. L \in N
  <2> HIDE DEF N
  <2> QED BY <1>1, <1>5, <1>6, Induct
<1>8. c[L] = FlattenSeq(s) /\ Q(L) = UNION {P[n] : n \in DOMAIN s}
  BY <1>1, <1>4 DEF Concatenates
<1> QED BY <1>1, <1>7, <1>8
-----------------------------------------------------------------------------
(* The rows of a request are those of its places. *)

(* The row that the loops make at a place. *)
PlaceRows(kind, req) ==
  [p \in Quads |-> LET res   == req.resources[p[1]]
                       scope == res.scopes[p[2]]
                   IN ItemRows(kind, res, scope, scope.items[p[3]])[p[4]]]

LEMMA ItemHasPoints ==
  ASSUME NEW kind, kind \in {"traces", "logs"} \cup MetricKinds, NEW res, NEW scope, NEW item,
         kind \in MetricKinds => IsSeq(item.points)
  PROVE  /\ IsSeq(ItemRows(kind, res, scope, item))
         /\ DOMAIN ItemRows(kind, res, scope, item) = PointsOf(kind, item)
<1>1. CASE kind \in {"traces", "logs"}
  <2>1. PointsOf(kind, item) = {1}
    BY <1>1 DEF PointsOf, MetricKinds
  <2>2. \/ ItemRows(kind, res, scope, item) = <<SpanRow(res, scope, item)>>
        \/ ItemRows(kind, res, scope, item) = <<LogRow(res, scope, item)>>
    BY <1>1 DEF ItemRows
  <2> QED BY <2>1, <2>2, SmallSeqs
<1>2. CASE kind \in MetricKinds /\ item.type # kind
  <2>1. ItemRows(kind, res, scope, item) = <<>> /\ PointsOf(kind, item) = {}
    BY <1>2 DEF ItemRows, AppendMetric, PointsOf, MetricKinds
  <2> QED BY <2>1, SmallSeqs
<1>3. CASE kind \in MetricKinds /\ item.type = kind
  <2> DEFINE rows == [n \in DOMAIN item.points |->
                        Common(res, scope, item, item.points[n]) \o RowOf(item, item.points[n])]
  <2>1. ItemRows(kind, res, scope, item) = rows /\ PointsOf(kind, item) = DOMAIN item.points
    BY <1>3 DEF ItemRows, AppendMetric, PointsOf, MetricKinds
  <2>2. rows = [n \in DOMAIN item.points |-> rows[n]]
    OBVIOUS
  <2> HIDE DEF rows
  <2>3. IsSeq(rows) /\ DOMAIN rows = DOMAIN item.points
    BY <1>3, <2>2, MapIsSeq
  <2> QED BY <2>1, <2>3
<1> QED BY <1>1, <1>2, <1>3

LEMMA QuadFields ==
  ASSUME NEW a \in Nat, NEW b \in Nat, NEW c \in Nat, NEW d \in Nat
  PROVE  /\ <<a, b, c, d>> \in Quads
         /\ <<a, b, c, d>>[1] = a /\ <<a, b, c, d>>[2] = b
         /\ <<a, b, c, d>>[3] = c /\ <<a, b, c, d>>[4] = d
  BY DEF Quads

LEMMA ItemListed ==
  ASSUME NEW kind, kind \in {"traces", "logs"} \cup MetricKinds, NEW req,
         NEW a \in Nat, NEW b \in Nat, NEW c \in Nat,
         kind \in MetricKinds => IsSeq(req.resources[a].scopes[b].items[c].points)
  PROVE  LET res   == req.resources[a]
             scope == res.scopes[b]
             item  == scope.items[c]
         IN Lists(ItemRows(kind, res, scope, item),
                  {<<a, b, c, d>> : d \in PointsOf(kind, item)}, PlaceRows(kind, req))
<1> DEFINE res    == req.resources[a]
           scope  == res.scopes[b]
           item   == scope.items[c]
           rows   == ItemRows(kind, res, scope, item)
           points == PointsOf(kind, item)
           places == {<<a, b, c, d>> : d \in points}
           row    == PlaceRows(kind, req)
           L      == Len(rows)
           at     == [d \in 1 .. L |-> <<a, b, c, d>>]
<1>1. IsSeq(rows) /\ DOMAIN rows = points
  BY ItemHasPoints
<1>2. L \in Nat /\ points = 1 .. L
  <2> HIDE DEF rows, points
  <2> QED BY <1>1, SeqFacts
<1>3. ASSUME NEW d \in 1 .. L PROVE /\ <<a, b, c, d>> \in Quads
                                    /\ row[<<a, b, c, d>>] = rows[d]
  <2>1. d \in Nat
    BY <1>2
  <2> DEFINE p == <<a, b, c, d>>
  <2>2. p \in Quads /\ p[1] = a /\ p[2] = b /\ p[3] = c /\ p[4] = d
    BY <2>1, QuadFields
  <2> HIDE DEF p
  <2>3. row[p] = rows[d]
    BY <2>2 DEF PlaceRows
  <2> QED BY <2>2, <2>3 DEF p
<1> HIDE DEF rows, points, row, L
<1>4. /\ DOMAIN at = 1 .. L /\ at \in [1 .. L -> places]
      /\ \A d \in 1 .. L : at[d] = <<a, b, c, d>>
  BY <1>2
<1>5. places \subseteq Quads /\ \A p \in places : \E i \in 1 .. L : p = <<a, b, c, i>>
  BY <1>2, <1>3
<1> HIDE DEF at, places
<1>6. at \in Seq(places) /\ Len(at) = L
  BY <1>2, <1>4, SeqDef, LenProperties
<1>7. ASSUME NEW i \in 1 .. L, NEW j \in 1 .. L, i < j PROVE Earlier(at[i], at[j])
  <2>1. i \in Nat /\ j \in Nat
    BY <1>2
  <2> DEFINE p == <<a, b, c, i>>
             q == <<a, b, c, j>>
  <2>2. /\ p \in Quads /\ p[1] = a /\ p[2] = b /\ p[3] = c /\ p[4] = i
        /\ q \in Quads /\ q[1] = a /\ q[2] = b /\ q[3] = c /\ q[4] = j
    BY <2>1, QuadFields
  <2>3. at[i] = p /\ at[j] = q
    BY <1>4
  <2> HIDE DEF p, q
  <2> QED BY <1>7, <2>2, <2>3, EarlierInSteps
<1>8. \A i \in 1 .. L : rows[i] = row[at[i]]
  BY <1>3, <1>4
<1>9. \A p \in places : \E i \in 1 .. L : at[i] = p
  BY <1>4, <1>5
<1>10. OnePlaceEach(at, rows, places, row)
  BY <1>6, <1>7, <1>8, <1>9 DEF OnePlaceEach, L
<1>11. Lists(rows, places, row)
  BY <1>1, <1>5, <1>10 DEF Lists
<1> QED BY <1>11 DEF rows, places, points, row

(* Loops over lists with different lists in their bodies: the places of    *)
(* one turn differ from those of the next in a field before the others.    *)
ItemPlaces(kind, req, a, b, c) ==
  {<<a, b, c, d>> : d \in PointsOf(kind, req.resources[a].scopes[b].items[c])}
ScopePlaces(kind, req, a, b) ==
  UNION {ItemPlaces(kind, req, a, b, c) : c \in DOMAIN req.resources[a].scopes[b].items}
ResourcePlaces(kind, req, a) ==
  UNION {ScopePlaces(kind, req, a, b) : b \in DOMAIN req.resources[a].scopes}

LEMMA PlacesFollow ==
  ASSUME NEW P \in SUBSET Quads, NEW Q \in SUBSET Quads,
         \/ \A p \in P, q \in Q : p[1] < q[1]
         \/ \A p \in P, q \in Q : p[1] = q[1] /\ p[2] < q[2]
         \/ \A p \in P, q \in Q : p[1] = q[1] /\ p[2] = q[2] /\ p[3] < q[3]
  PROVE  \A p \in P, q \in Q : Earlier(p, q)
  BY EarlierInSteps

LEMMA PlacesInside ==
  ASSUME NEW kind, kind \in {"traces", "logs"} \cup MetricKinds, NEW req, WellFormed(req),
         kind \in MetricKinds => req.signal = "metrics"
  PROVE  \A a \in DOMAIN req.resources :
           /\ a \in Nat
           /\ req.resources[a] \in Range(req.resources)
           /\ IsSeq(req.resources[a].scopes)
           /\ \A b \in DOMAIN req.resources[a].scopes :
                /\ b \in Nat
                /\ IsSeq(req.resources[a].scopes[b].items)
                /\ \A c \in DOMAIN req.resources[a].scopes[b].items :
                     /\ c \in Nat
                     /\ kind \in MetricKinds
                          => IsSeq(req.resources[a].scopes[b].items[c].points)
                     /\ \A p \in ItemPlaces(kind, req, a, b, c) :
                          p \in Quads /\ p[1] = a /\ p[2] = b /\ p[3] = c
<1>1. TAKE a \in DOMAIN req.resources
<1> DEFINE res == req.resources[a]
<1>2. a \in Nat /\ res \in Range(req.resources) /\ IsSeq(res.scopes)
  BY SeqFacts DEF WellFormed, Range
<1>3. ASSUME NEW b \in DOMAIN res.scopes
      PROVE  /\ b \in Nat
             /\ IsSeq(res.scopes[b].items)
             /\ \A c \in DOMAIN res.scopes[b].items :
                  /\ c \in Nat
                  /\ kind \in MetricKinds => IsSeq(res.scopes[b].items[c].points)
                  /\ \A p \in ItemPlaces(kind, req, a, b, c) :
                       p \in Quads /\ p[1] = a /\ p[2] = b /\ p[3] = c
  <2> DEFINE scope == res.scopes[b]
  <2>1. b \in Nat /\ scope \in Range(res.scopes)
    BY <1>2, SeqFacts DEF Range
  <2>2. /\ IsSeq(scope.items)
        /\ kind \in MetricKinds => \A m \in Range(scope.items) : IsSeq(m.points)
    BY <1>2, <2>1 DEF WellFormed
  <2>3. ASSUME NEW c \in DOMAIN scope.items
        PROVE  /\ c \in Nat
               /\ kind \in MetricKinds => IsSeq(scope.items[c].points)
               /\ \A p \in ItemPlaces(kind, req, a, b, c) :
                    p \in Quads /\ p[1] = a /\ p[2] = b /\ p[3] = c
    <3>1. c \in Nat /\ scope.items[c] \in Range(scope.items)
      BY <2>2, SeqFacts DEF Range
    <3>2. kind \in MetricKinds => IsSeq(scope.items[c].points)
      BY <2>2, <3>1
    <3>3. \A d \in PointsOf(kind, scope.items[c]) : d \in Nat
      <4>1. CASE kind \in MetricKinds
        BY <3>2, <4>1, SeqFacts DEF PointsOf
      <4>2. CASE kind \notin MetricKinds
        BY <4>2 DEF PointsOf
      <4> QED BY <4>1, <4>2
    <3>4. \A d \in PointsOf(kind, scope.items[c]) :
            LET p == <<a, b, c, d>> IN p \in Quads /\ p[1] = a /\ p[2] = b /\ p[3] = c
      BY <1>2, <2>1, <3>1, <3>3, QuadFields
    <3> QED BY <3>1, <3>2, <3>4 DEF ItemPlaces
  <2> QED BY <2>1, <2>2, <2>3
<1> QED BY <1>2, <1>3

LEMMA RowsListed ==
  ASSUME NEW req, WellFormed(req), NEW kind \in SignalKinds(req.signal)
  PROVE  Lists(RowsFor(kind, req), Places(kind, req), PlaceRows(kind, req))
<1> DEFINE row == PlaceRows(kind, req)
           OfScope1(res, scope) ==
             [n \in DOMAIN scope.items |-> ItemRows(kind, res, scope, scope.items[n])]
           OfResource1(res) ==
             [n \in DOMAIN res.scopes |-> FlattenSeq(OfScope1(res, res.scopes[n]))]
           OfRequest ==
             [n \in DOMAIN req.resources |-> FlattenSeq(OfResource1(req.resources[n]))]
<1>1. RowsFor(kind, req) = FlattenSeq(OfRequest)
  BY DEF RowsFor, ForEach
<1>2. /\ IsSeq(req.resources)
      /\ kind \in {"traces", "logs"} \cup MetricKinds
      /\ kind \in MetricKinds => req.signal = "metrics"
  BY DEF WellFormed, SignalKinds, MetricKinds
<1> HIDE DEF row
<1>3. ASSUME NEW a \in DOMAIN req.resources
      PROVE  Lists(FlattenSeq(OfResource1(req.resources[a])), ResourcePlaces(kind, req, a), row)
  <2> DEFINE res == req.resources[a]
  <2>1. a \in Nat /\ IsSeq(res.scopes)
    BY <1>2, PlacesInside
  <2>2. ASSUME NEW b \in DOMAIN res.scopes
        PROVE  Lists(FlattenSeq(OfScope1(res, res.scopes[b])), ScopePlaces(kind, req, a, b), row)
    <3> DEFINE items == res.scopes[b].items
               t == OfScope1(res, res.scopes[b])
               P == [c \in DOMAIN items |-> ItemPlaces(kind, req, a, b, c)]
    <3>1. b \in Nat /\ IsSeq(items)
      BY <1>2, PlacesInside
    <3>2. /\ \A c \in DOMAIN items : t[c] = ItemRows(kind, res, res.scopes[b], items[c])
          /\ t = [c \in DOMAIN items |-> t[c]]
      OBVIOUS
    <3>3. /\ ScopePlaces(kind, req, a, b) = UNION {P[c] : c \in DOMAIN items}
          /\ \A c \in DOMAIN items : P[c] = ItemPlaces(kind, req, a, b, c)
      BY DEF ScopePlaces
    <3> HIDE DEF t, P
    <3>4. IsSeq(t) /\ DOMAIN t = DOMAIN items
      BY <3>1, <3>2, MapIsSeq
    <3>5. ASSUME NEW c \in DOMAIN t PROVE Lists(t[c], P[c], row)
      <4>1. c \in Nat /\ (kind \in MetricKinds => IsSeq(items[c].points))
        BY <1>2, <3>4, PlacesInside
      <4>2. Lists(ItemRows(kind, res, res.scopes[b], items[c]),
                  {<<a, b, c, d>> : d \in PointsOf(kind, items[c])}, PlaceRows(kind, req))
        BY <1>2, <2>1, <3>1, <4>1, ItemListed
      <4> QED BY <3>2, <3>3, <3>4, <4>2 DEF ItemPlaces, row
    <3>6. ASSUME NEW n \in DOMAIN t, NEW k \in DOMAIN t, n < k
          PROVE  \A p \in P[n], q \in P[k] : Earlier(p, q)
      <4>1. /\ \A p \in P[n] : p \in Quads /\ p[1] = a /\ p[2] = b /\ p[3] = n
            /\ \A q \in P[k] : q \in Quads /\ q[1] = a /\ q[2] = b /\ q[3] = k
        BY <1>2, <3>3, <3>4, PlacesInside
      <4> QED BY <3>6, <4>1, PlacesFollow
    <3>7. Lists(FlattenSeq(t), UNION {P[c] : c \in DOMAIN t}, row)
      BY <3>4, <3>5, <3>6, ListsFlatten
    <3> QED BY <3>3, <3>4, <3>7 DEF t
  <2> DEFINE t == OfResource1(res)
             P == [b \in DOMAIN res.scopes |-> ScopePlaces(kind, req, a, b)]
  <2>3. /\ \A b \in DOMAIN res.scopes : t[b] = FlattenSeq(OfScope1(res, res.scopes[b]))
        /\ t = [b \in DOMAIN res.scopes |-> t[b]]
    OBVIOUS
  <2>4. /\ ResourcePlaces(kind, req, a) = UNION {P[b] : b \in DOMAIN res.scopes}
        /\ \A b \in DOMAIN res.scopes : P[b] = ScopePlaces(kind, req, a, b)
    BY DEF ResourcePlaces
  <2> HIDE DEF OfScope1, t, P
  <2>5. IsSeq(t) /\ DOMAIN t = DOMAIN res.scopes
    BY <2>1, <2>3, MapIsSeq
  <2>6. \A b \in DOMAIN t : Lists(t[b], P[b], row)
    BY <2>2, <2>3, <2>4, <2>5
  <2>7. ASSUME NEW n \in DOMAIN t, NEW k \in DOMAIN t, n < k
        PROVE  \A p \in P[n], q \in P[k] : Earlier(p, q)
    <3>1. /\ \A p \in P[n] : p \in Quads /\ p[1] = a /\ p[2] = n
          /\ \A q \in P[k] : q \in Quads /\ q[1] = a /\ q[2] = k
      BY <1>2, <2>4, <2>5, PlacesInside DEF ScopePlaces
    <3> QED BY <2>7, <3>1, PlacesFollow
  <2>8. Lists(FlattenSeq(t), UNION {P[b] : b \in DOMAIN t}, row)
    BY <2>5, <2>6, <2>7, ListsFlatten
  <2> QED BY <2>4, <2>5, <2>8 DEF t
<1> DEFINE t == OfRequest
           P == [a \in DOMAIN req.resources |-> ResourcePlaces(kind, req, a)]
<1>4. /\ \A a \in DOMAIN req.resources : t[a] = FlattenSeq(OfResource1(req.resources[a]))
      /\ t = [a \in DOMAIN req.resources |-> t[a]]
  OBVIOUS
<1>5. /\ Places(kind, req) = UNION {P[a] : a \in DOMAIN req.resources}
      /\ \A a \in DOMAIN req.resources : P[a] = ResourcePlaces(kind, req, a)
  <2>1. Places(kind, req) = UNION {ResourcePlaces(kind, req, a) : a \in DOMAIN req.resources}
    BY Zenon DEF Places, ResourcePlaces, ScopePlaces, ItemPlaces
  <2>2. {P[a] : a \in DOMAIN req.resources}
          = {ResourcePlaces(kind, req, a) : a \in DOMAIN req.resources}
    OBVIOUS
  <2> QED BY <2>1, <2>2
<1> HIDE DEF OfResource1, t, P
<1>6. IsSeq(t) /\ DOMAIN t = DOMAIN req.resources
  BY <1>2, <1>4, MapIsSeq
<1>7. \A a \in DOMAIN t : Lists(t[a], P[a], row)
  BY <1>3, <1>4, <1>5, <1>6
<1>8. ASSUME NEW n \in DOMAIN t, NEW k \in DOMAIN t, n < k
      PROVE  \A p \in P[n], q \in P[k] : Earlier(p, q)
  <2>1. /\ \A p \in P[n] : p \in Quads /\ p[1] = n
        /\ \A q \in P[k] : q \in Quads /\ q[1] = k
    BY <1>2, <1>5, <1>6, PlacesInside DEF ResourcePlaces, ScopePlaces
  <2> QED BY <1>8, <2>1, PlacesFollow
<1>9. Lists(FlattenSeq(t), UNION {P[a] : a \in DOMAIN t}, row)
  BY <1>6, <1>7, <1>8, ListsFlatten
<1> QED BY <1>1, <1>5, <1>6, <1>9 DEF t, row

(* The row of a place comes after as many rows as there are earlier places. *)
LEMMA RowAtItsRank ==
  ASSUME NEW rows, NEW places, NEW row, Lists(rows, places, row)
  PROVE  /\ Len(rows) \in Nat /\ Cardinality(places) = Len(rows)
         /\ \A p \in places :
              LET n == 1 + Cardinality({q \in places : Earlier(q, p)})
              IN n \in 1 .. Len(rows) /\ rows[n] = row[p]
<1> DEFINE L == Len(rows)
<1>1. PICK at : OnePlaceEach(at, rows, places, row)
  BY DEF Lists
<1>2. /\ L \in Nat /\ Len(at) = L /\ DOMAIN at = 1 .. L /\ at \in [1 .. L -> places]
      /\ \A i \in 1 .. L : rows[i] = row[at[i]]
      /\ \A i, j \in 1 .. L : i < j => Earlier(at[i], at[j])
      /\ \A p \in places : \E i \in 1 .. L : at[i] = p
  BY <1>1, LenProperties DEF OnePlaceEach
<1>3. places \subseteq Quads
  BY DEF Lists
<1> HIDE DEF L
<1>4. ASSUME NEW i \in 1 .. L, NEW j \in 1 .. L
      PROVE  /\ at[i] = at[j] => i = j
             /\ Earlier(at[i], at[j]) <=> i < j
  <2>1. at[i] \in Quads /\ at[j] \in Quads
    BY <1>2, <1>3
  <2>2. i < j \/ i = j \/ j < i
    BY <1>2
  <2>3. CASE i < j
    BY <1>2, <2>1, <2>3, EarlierIsStrict
  <2>4. CASE i = j
    BY <1>2, <2>1, <2>4, EarlierIsStrict
  <2>5. CASE j < i
    <3>1. Earlier(at[j], at[i])
      BY <1>2, <2>5
    <3> QED BY <1>2, <2>1, <2>5, <3>1, EarlierIsStrict
  <2> QED BY <2>2, <2>3, <2>4, <2>5
<1>5. ASSUME NEW n \in 0 .. L
      PROVE  LET image == {at[i] : i \in 1 .. n}
             IN IsFiniteSet(image) /\ Cardinality(image) = n
  <2> DEFINE image == {at[i] : i \in 1 .. n}
             f == [i \in 1 .. n |-> at[i]]
  <2>1. \A i \in 1 .. n : i \in 1 .. L
    BY <1>2
  <2>2. f \in Bijection(1 .. n, image)
    BY <1>4, <2>1, Fun_IsBij
  <2>3. ExistsBijection(1 .. n, image)
    BY <2>2 DEF ExistsBijection
  <2>4. IsFiniteSet(1 .. n) /\ Cardinality(1 .. n) = n
    BY <1>2, FS_Interval
  <2> QED BY <2>3, <2>4, FS_Bijection
<1>6. places = {at[i] : i \in 1 .. L}
  BY <1>2
<1>7. Cardinality(places) = L
  <2>1. L \in 0 .. L
    BY <1>2
  <2>2. Cardinality({at[i] : i \in 1 .. L}) = L
    BY <1>5, <2>1
  <2> QED BY <1>6, <2>2
<1>8. ASSUME NEW p \in places
      PROVE  LET n == 1 + Cardinality({q \in places : Earlier(q, p)})
             IN n \in 1 .. L /\ rows[n] = row[p]
  <2>1. PICK i \in 1 .. L : at[i] = p
    BY <1>2
  <2>2. i - 1 \in 0 .. L /\ i - 1 \in Nat
    BY <1>2
  <2>3. {q \in places : Earlier(q, p)} = {at[j] : j \in 1 .. i - 1}
    <3>1. ASSUME NEW q \in places, Earlier(q, p) PROVE \E j \in 1 .. i - 1 : q = at[j]
      <4>1. PICK j \in 1 .. L : at[j] = q
        BY <1>2
      <4>2. j < i
        BY <1>4, <2>1, <3>1, <4>1
      <4>3. j \in 1 .. i - 1
        BY <1>2, <4>2
      <4> QED BY <4>1, <4>3
    <3>2. ASSUME NEW j \in 1 .. i - 1 PROVE at[j] \in places /\ Earlier(at[j], p)
      <4>1. j \in 1 .. L /\ j < i
        BY <1>2
      <4> QED BY <1>2, <2>1, <4>1
    <3> QED BY <3>1, <3>2
  <2>4. Cardinality({q \in places : Earlier(q, p)}) = i - 1
    BY <1>5, <2>2, <2>3
  <2>5. 1 + (i - 1) = i
    BY <1>2
  <2> QED BY <1>2, <2>1, <2>4, <2>5
<1> QED BY <1>2, <1>7, <1>8 DEF L

-----------------------------------------------------------------------------
(* The cells of a row are those of its point. *)

LEMMA AttributesKept ==
  ASSUME NEW m
  PROVE  SameAttributes(AttributesToJSON(m), m)
<1>1. CASE ValuesOf(m) \cap Rejected = {}
  BY <1>1 DEF AttributesToJSON, SameAttributes
<1>2. CASE ValuesOf(m) \cap Rejected # {}
  <2> DEFINE j == [k \in DOMAIN m |-> SanitizeForJSON(m[k])]
  <2>1. AttributesToJSON(m) = j
    BY <1>2 DEF AttributesToJSON
  <2>2. \A k \in DOMAIN m : m[k] \in Rejected \/ j[k] = m[k]
    BY DEF SanitizeForJSON, Rejected
  <2> QED BY <2>1, <2>2 DEF SameAttributes
<1> QED BY <1>1, <1>2

(* The columns that are not simply a field of the point. *)
Derived == {"ResourceAttributes", "ScopeAttributes", "Attributes", "SpanAttributes",
            "LogAttributes", "Sum", "Min", "Max", "Value", "Duration",
            "ResourceSchemaUrl", "ServiceName", "ScopeName", "ScopeVersion", "ScopeSchemaUrl",
            "MetricName", "MetricDescription", "MetricUnit", "AggregationTemporality",
            "IsMonotonic"} \cup Unsigned64 \cup Unsigned32 \cup Buckets

LEMMA CellRules ==
  ASSUME NEW kind, NEW c, NEW cell, NEW res, NEW scope, NEW m, NEW item
  PROVE  LET Right == CellIs(kind, c, cell, res, scope, m, item)
         IN /\ c = "ResourceAttributes" /\ SameAttributes(cell, res.attributes) => Right
            /\ c = "ScopeAttributes" /\ SameAttributes(cell, scope.attributes) => Right
            /\ c \in {"Attributes", "SpanAttributes", "LogAttributes"}
                 /\ SameAttributes(cell, item[c]) => Right
            /\ c \in {"Sum", "Min", "Max"} /\ kind # "summary"
                 /\ cell = (IF c \in item.has THEN item[c] ELSE NULL) => Right
            /\ c = "Sum" /\ kind = "summary" /\ cell = item[c] => Right
            /\ c = "Value" /\ cell = (IF item.Value.kind = "int" THEN ToDouble(item.Value.n)
                                                                 ELSE item.Value.n) => Right
            /\ c = "ResourceSchemaUrl" /\ cell = res.schemaUrl => Right
            /\ c = "ServiceName" /\ cell = ServiceName(res) => Right
            /\ c = "ScopeName" /\ cell = scope.name => Right
            /\ c = "ScopeVersion" /\ cell = scope.version => Right
            /\ c = "ScopeSchemaUrl" /\ cell = scope.schemaUrl => Right
            /\ kind \in MetricKinds =>
                 /\ c = "MetricName" /\ cell = m.name => Right
                 /\ c = "MetricDescription" /\ cell = m.description => Right
                 /\ c = "MetricUnit" /\ cell = m.unit => Right
                 /\ c = "AggregationTemporality" /\ cell = m.temporality => Right
                 /\ c = "IsMonotonic" /\ cell = m.monotonic => Right
            /\ c \in Unsigned64 /\ SameBits(cell, item[c], Width) => Right
            /\ c \in Unsigned32 /\ SameBits(cell, item[c], Half) => Right
            /\ c \in Buckets /\ SameCounts(cell, item[c]) => Right
            /\ c \notin Derived /\ cell = item[c] => Right
<1> DEFINE Right == CellIs(kind, c, cell, res, scope, m, item)
<1>1. /\ DOMAIN OfResource(res) = {"ResourceSchemaUrl", "ServiceName"}
      /\ OfResource(res)["ResourceSchemaUrl"] = res.schemaUrl
      /\ OfResource(res)["ServiceName"] = ServiceName(res)
  BY DEF OfResource
<1>2. /\ DOMAIN OfScope(scope) = {"ScopeName", "ScopeVersion", "ScopeSchemaUrl"}
      /\ OfScope(scope)["ScopeName"] = scope.name
      /\ OfScope(scope)["ScopeVersion"] = scope.version
      /\ OfScope(scope)["ScopeSchemaUrl"] = scope.schemaUrl
  BY DEF OfScope
<1>3. /\ DOMAIN OfMetric(m) = {"MetricName", "MetricDescription", "MetricUnit",
                               "AggregationTemporality", "IsMonotonic"}
      /\ OfMetric(m)["MetricName"] = m.name
      /\ OfMetric(m)["MetricDescription"] = m.description
      /\ OfMetric(m)["MetricUnit"] = m.unit
      /\ OfMetric(m)["AggregationTemporality"] = m.temporality
      /\ OfMetric(m)["IsMonotonic"] = m.monotonic
  BY DEF OfMetric
<1>4. /\ c = "ResourceAttributes" /\ SameAttributes(cell, res.attributes) => Right
      /\ c = "ScopeAttributes" /\ SameAttributes(cell, scope.attributes) => Right
      /\ c \in {"Attributes", "SpanAttributes", "LogAttributes"}
           /\ SameAttributes(cell, item[c]) => Right
      /\ c \in {"Sum", "Min", "Max"} /\ kind # "summary"
           /\ cell = (IF c \in item.has THEN item[c] ELSE NULL) => Right
      /\ c = "Value" /\ cell = (IF item.Value.kind = "int" THEN ToDouble(item.Value.n)
                                                           ELSE item.Value.n) => Right
  BY <1>1, <1>2, <1>3, SMTT(30) DEF CellIs, Unsigned64, Unsigned32, Buckets
<1>5. /\ c = "ResourceSchemaUrl" /\ cell = res.schemaUrl => Right
      /\ c = "ServiceName" /\ cell = ServiceName(res) => Right
  BY <1>1, <1>2, <1>3, SMTT(30) DEF CellIs
<1>6. /\ c = "ScopeName" /\ cell = scope.name => Right
      /\ c = "ScopeVersion" /\ cell = scope.version => Right
      /\ c = "ScopeSchemaUrl" /\ cell = scope.schemaUrl => Right
  BY <1>1, <1>2, <1>3, SMTT(30) DEF CellIs
<1>7. ASSUME kind \in MetricKinds
      PROVE  /\ c = "MetricName" /\ cell = m.name => Right
             /\ c = "MetricDescription" /\ cell = m.description => Right
             /\ c = "MetricUnit" /\ cell = m.unit => Right
             /\ c = "AggregationTemporality" /\ cell = m.temporality => Right
             /\ c = "IsMonotonic" /\ cell = m.monotonic => Right
  BY <1>1, <1>2, <1>3, <1>7, SMTT(30) DEF CellIs
<1>8. /\ c = "Sum" /\ kind = "summary" /\ cell = item[c] => Right
      /\ c \notin Derived /\ cell = item[c] => Right
  BY <1>1, <1>2, <1>3, SMTT(60) DEF CellIs, Derived, Unsigned64, Unsigned32, Buckets
<1>9. /\ c \in Unsigned64 /\ SameBits(cell, item[c], Width) => Right
      /\ c \in Unsigned32 /\ SameBits(cell, item[c], Half) => Right
      /\ c \in Buckets /\ SameCounts(cell, item[c]) => Right
  BY <1>1, <1>2, <1>3, SMTT(30) DEF CellIs, Unsigned64, Unsigned32, Buckets
<1> QED BY <1>4, <1>5, <1>6, <1>7, <1>8, <1>9

(* The conversions keep the bits. *)
LEMMA BitsKept ==
  ASSUME NEW v \in Nat
  PROVE  SameBits(ToInt(v), v, Width) /\ SameBits(ToInt32(v), v, Half)
<1>1. ASSUME NEW w \in Nat \ {0} PROVE SameBits(AsSigned(v, w), v, w)
  <2>1. 2 ^ w \in Int /\ 2 ^ (w - 1) \in Int
    <3>1. w \in Nat /\ w - 1 \in Nat
      OBVIOUS
    <3> QED BY <3>1
  <2>2. MaxSigned(w) \in Int
    BY <2>1 DEF MaxSigned
  <2>3. CASE v <= MaxSigned(w)
    BY <2>2, <2>3 DEF SameBits, AsSigned
  <2>4. CASE v > MaxSigned(w)
    <3>1. AsSigned(v, w) = v - 2 ^ w
      BY <2>2, <2>4 DEF AsSigned
    <3>2. v - 2 ^ w + 2 ^ w = v
      BY <2>1
    <3> QED BY <2>2, <2>4, <3>1, <3>2 DEF SameBits
  <2> QED BY <2>2, <2>3, <2>4
<1> QED BY <1>1, WidthAssumption, HalfAssumption DEF ToInt, ToInt32

LEMMA CountsKept ==
  ASSUME NEW counts \in Seq(Nat), NEW cell, cell = [n \in DOMAIN counts |-> ToInt(counts[n])]
  PROVE  SameCounts(cell, counts)
<1>1. \A n \in DOMAIN counts : counts[n] \in Nat
  OBVIOUS
<1> QED BY <1>1, BitsKept DEF SameCounts

(* Every append of a row is right. *)
RightCells(row, kind, res, scope, m, item) ==
  \A n \in DOMAIN row : CellIs(kind, row[n].col, row[n].cell, res, scope, m, item)

LEMMA CommonCells ==
  ASSUME NEW kind, kind \in MetricKinds, NEW res, NEW scope, NEW m, NEW dp,
         PointNumbers(m, dp)
  PROVE  RightCells(Common(res, scope, m, dp), kind, res, scope, m, dp)
<1> DEFINE row == Common(res, scope, m, dp)
           Right(n) == CellIs(kind, row[n].col, row[n].cell, res, scope, m, dp)
<1>1. DOMAIN row = 1 .. 14
  BY DEF Common
<1>2. /\ row[1].col = "ResourceAttributes" /\ row[1].cell = AttributesToJSON(res.attributes)
      /\ row[2].col = "ResourceSchemaUrl" /\ row[2].cell = res.schemaUrl
      /\ row[3].col = "ScopeName" /\ row[3].cell = scope.name
      /\ row[4].col = "ScopeVersion" /\ row[4].cell = scope.version
      /\ row[5].col = "ScopeAttributes" /\ row[5].cell = AttributesToJSON(scope.attributes)
      /\ row[6].col = "ScopeSchemaUrl" /\ row[6].cell = scope.schemaUrl
      /\ row[7].col = "ServiceName" /\ row[7].cell = ServiceName(res)
      /\ row[8].col = "MetricName" /\ row[8].cell = m.name
      /\ row[9].col = "MetricDescription" /\ row[9].cell = m.description
      /\ row[10].col = "MetricUnit" /\ row[10].cell = m.unit
      /\ row[11].col = "Attributes" /\ row[11].cell = AttributesToJSON(dp.Attributes)
      /\ row[12].col = "StartTimeUnix" /\ row[12].cell = ToInt(dp.StartTimeUnix)
      /\ row[13].col = "TimeUnix" /\ row[13].cell = ToInt(dp.TimeUnix)
      /\ row[14].col = "Flags" /\ row[14].cell = ToInt32(dp.Flags)
  BY DEF Common, Str, I64, I32, Append1
<1> HIDE DEF row
<1>3. Right(1) /\ Right(2) /\ Right(3) /\ Right(4)
  BY <1>2, CellRules, AttributesKept DEF Derived, Unsigned64, Unsigned32, Buckets,
     NumberValue, MetricKinds
<1>4. Right(5) /\ Right(6) /\ Right(7) /\ Right(8)
  BY <1>2, CellRules, AttributesKept DEF Derived, Unsigned64, Unsigned32, Buckets,
     NumberValue, MetricKinds
<1>5. Right(9) /\ Right(10) /\ Right(11)
  BY <1>2, CellRules, AttributesKept DEF Derived, Unsigned64, Unsigned32, Buckets,
     NumberValue, MetricKinds
<1>7. Right(12) /\ Right(13) /\ Right(14)
  <2>1. /\ SameBits(ToInt(dp.StartTimeUnix), dp["StartTimeUnix"], Width)
        /\ SameBits(ToInt(dp.TimeUnix), dp["TimeUnix"], Width)
        /\ SameBits(ToInt32(dp.Flags), dp["Flags"], Half)
    BY BitsKept, CountsKept DEF PointNumbers
  <2> QED BY <1>2, <2>1, CellRules DEF Unsigned64, Unsigned32, Buckets
<1>8. \A n \in 1 .. 14 : Right(n)
  BY <1>3, <1>4, <1>5, <1>7
<1> QED BY <1>1, <1>8 DEF RightCells, row

LEMMA GaugeCells ==
  ASSUME NEW kind, kind = "gauge", NEW res, NEW scope, NEW m, NEW dp
  PROVE  RightCells(GaugeRow(m, dp), kind, res, scope, m, dp)
<1> DEFINE row == GaugeRow(m, dp)
           Right(n) == CellIs(kind, row[n].col, row[n].cell, res, scope, m, dp)
<1>1. DOMAIN row = 1 .. 2
  BY DEF GaugeRow
<1>2. /\ row[1].col = "Value" /\ row[1].cell = NumberValue(dp.Value)
      /\ row[2].col = "Exemplars" /\ row[2].cell = dp.Exemplars
  BY DEF GaugeRow, F64, List, Append1
<1> HIDE DEF row
<1>3. Right(1) /\ Right(2)
  BY <1>2, CellRules, AttributesKept DEF Derived, Unsigned64, Unsigned32, Buckets,
     NumberValue, MetricKinds
<1>4. \A n \in 1 .. 2 : Right(n)
  BY <1>3
<1> QED BY <1>1, <1>4 DEF RightCells, row

LEMMA SumCells ==
  ASSUME NEW kind, kind = "sum", NEW res, NEW scope, NEW m, NEW dp
  PROVE  RightCells(SumRow(m, dp), kind, res, scope, m, dp)
<1> DEFINE row == SumRow(m, dp)
           Right(n) == CellIs(kind, row[n].col, row[n].cell, res, scope, m, dp)
<1>1. DOMAIN row = 1 .. 4
  BY DEF SumRow
<1>2. /\ row[1].col = "Value" /\ row[1].cell = NumberValue(dp.Value)
      /\ row[2].col = "AggregationTemporality" /\ row[2].cell = m.temporality
      /\ row[3].col = "IsMonotonic" /\ row[3].cell = m.monotonic
      /\ row[4].col = "Exemplars" /\ row[4].cell = dp.Exemplars
  BY DEF SumRow, F64, I32, Boolean, List, Append1
<1> HIDE DEF row
<1>3. Right(1) /\ Right(2) /\ Right(3) /\ Right(4)
  BY <1>2, CellRules, AttributesKept DEF Derived, Unsigned64, Unsigned32, Buckets,
     NumberValue, MetricKinds
<1>4. \A n \in 1 .. 4 : Right(n)
  BY <1>3
<1> QED BY <1>1, <1>4 DEF RightCells, row

LEMMA HistogramCells ==
  ASSUME NEW kind, kind = "histogram", NEW res, NEW scope, NEW m, NEW dp,
         m.type = kind, PointNumbers(m, dp)
  PROVE  RightCells(HistogramRow(m, dp), kind, res, scope, m, dp)
<1> DEFINE row == HistogramRow(m, dp)
           Right(n) == CellIs(kind, row[n].col, row[n].cell, res, scope, m, dp)
<1>1. DOMAIN row = 1 .. 8
  BY DEF HistogramRow
<1>2. /\ row[1].col = "Count" /\ row[1].cell = ToInt(dp.Count)
      /\ row[2].col = "Sum" /\ row[2].cell = (IF "Sum" \in dp.has THEN dp.Sum ELSE NULL)
      /\ row[3].col = "BucketCounts"
           /\ row[3].cell = [n \in DOMAIN dp.BucketCounts |-> ToInt(dp.BucketCounts[n])]
      /\ row[4].col = "ExplicitBounds" /\ row[4].cell = dp.ExplicitBounds
      /\ row[5].col = "Min" /\ row[5].cell = (IF "Min" \in dp.has THEN dp.Min ELSE NULL)
      /\ row[6].col = "Max" /\ row[6].cell = (IF "Max" \in dp.has THEN dp.Max ELSE NULL)
      /\ row[7].col = "AggregationTemporality" /\ row[7].cell = m.temporality
      /\ row[8].col = "Exemplars" /\ row[8].cell = dp.Exemplars
  BY DEF HistogramRow, I64, I64ListFromUint, F64OrNull, List, I32, Append1
<1> HIDE DEF row
<1>3. Right(2) /\ Right(4)
  BY <1>2, CellRules, AttributesKept DEF Derived, Unsigned64, Unsigned32, Buckets,
     NumberValue, MetricKinds
<1>4. Right(5) /\ Right(6) /\ Right(7) /\ Right(8)
  BY <1>2, CellRules, AttributesKept DEF Derived, Unsigned64, Unsigned32, Buckets,
     NumberValue, MetricKinds
<1>5. Right(1) /\ Right(3)
  <2>1. /\ SameBits(ToInt(dp.Count), dp["Count"], Width)
        /\ SameCounts([n \in DOMAIN dp.BucketCounts |-> ToInt(dp.BucketCounts[n])], dp["BucketCounts"])
    BY BitsKept, CountsKept DEF PointNumbers
  <2> QED BY <1>2, <2>1, CellRules DEF Unsigned64, Unsigned32, Buckets
<1>6. \A n \in 1 .. 8 : Right(n)
  BY <1>3, <1>4, <1>5
<1> QED BY <1>1, <1>6 DEF RightCells, row

LEMMA ExpHistogramCells ==
  ASSUME NEW kind, kind = "exphistogram", NEW res, NEW scope, NEW m, NEW dp,
         m.type = kind, PointNumbers(m, dp)
  PROVE  RightCells(ExpHistogramRow(m, dp), kind, res, scope, m, dp)
<1> DEFINE row == ExpHistogramRow(m, dp)
           Right(n) == CellIs(kind, row[n].col, row[n].cell, res, scope, m, dp)
<1>1. DOMAIN row = 1 .. 12
  BY DEF ExpHistogramRow
<1>2. /\ row[1].col = "Count" /\ row[1].cell = ToInt(dp.Count)
      /\ row[2].col = "Sum" /\ row[2].cell = (IF "Sum" \in dp.has THEN dp.Sum ELSE NULL)
      /\ row[3].col = "Scale" /\ row[3].cell = dp.Scale
      /\ row[4].col = "ZeroCount" /\ row[4].cell = ToInt(dp.ZeroCount)
      /\ row[5].col = "PositiveOffset" /\ row[5].cell = dp.PositiveOffset
      /\ row[6].col = "PositiveBucketCounts"
           /\ row[6].cell = [n \in DOMAIN dp.PositiveBucketCounts |-> ToInt(dp.PositiveBucketCounts[n])]
      /\ row[7].col = "NegativeOffset" /\ row[7].cell = dp.NegativeOffset
      /\ row[8].col = "NegativeBucketCounts"
           /\ row[8].cell = [n \in DOMAIN dp.NegativeBucketCounts |-> ToInt(dp.NegativeBucketCounts[n])]
      /\ row[9].col = "Min" /\ row[9].cell = (IF "Min" \in dp.has THEN dp.Min ELSE NULL)
      /\ row[10].col = "Max" /\ row[10].cell = (IF "Max" \in dp.has THEN dp.Max ELSE NULL)
      /\ row[11].col = "AggregationTemporality" /\ row[11].cell = m.temporality
      /\ row[12].col = "Exemplars" /\ row[12].cell = dp.Exemplars
  BY DEF ExpHistogramRow, I64, I64ListFromUint, F64OrNull, I32, List, Append1
<1> HIDE DEF row
<1>3. Right(2) /\ Right(3)
  BY <1>2, CellRules, AttributesKept DEF Derived, Unsigned64, Unsigned32, Buckets,
     NumberValue, MetricKinds
<1>4. Right(5) /\ Right(7)
  BY <1>2, CellRules, AttributesKept DEF Derived, Unsigned64, Unsigned32, Buckets,
     NumberValue, MetricKinds
<1>5. Right(9) /\ Right(10) /\ Right(11) /\ Right(12)
  BY <1>2, CellRules, AttributesKept DEF Derived, Unsigned64, Unsigned32, Buckets,
     NumberValue, MetricKinds
<1>6. Right(1) /\ Right(4) /\ Right(6) /\ Right(8)
  <2>1. /\ SameBits(ToInt(dp.Count), dp["Count"], Width)
        /\ SameBits(ToInt(dp.ZeroCount), dp["ZeroCount"], Width)
        /\ SameCounts([n \in DOMAIN dp.PositiveBucketCounts |-> ToInt(dp.PositiveBucketCounts[n])], dp["PositiveBucketCounts"])
        /\ SameCounts([n \in DOMAIN dp.NegativeBucketCounts |-> ToInt(dp.NegativeBucketCounts[n])], dp["NegativeBucketCounts"])
    BY BitsKept, CountsKept DEF PointNumbers
  <2> QED BY <1>2, <2>1, CellRules DEF Unsigned64, Unsigned32, Buckets
<1>7. \A n \in 1 .. 12 : Right(n)
  BY <1>3, <1>4, <1>5, <1>6
<1> QED BY <1>1, <1>7 DEF RightCells, row

LEMMA SummaryCells ==
  ASSUME NEW kind, kind = "summary", NEW res, NEW scope, NEW m, NEW dp,
         m.type = kind, PointNumbers(m, dp)
  PROVE  RightCells(SummaryRow(m, dp), kind, res, scope, m, dp)
<1> DEFINE row == SummaryRow(m, dp)
           Right(n) == CellIs(kind, row[n].col, row[n].cell, res, scope, m, dp)
<1>1. DOMAIN row = 1 .. 3
  BY DEF SummaryRow
<1>2. /\ row[1].col = "Count" /\ row[1].cell = ToInt(dp.Count)
      /\ row[2].col = "Sum" /\ row[2].cell = dp.Sum
      /\ row[3].col = "ValueAtQuantiles" /\ row[3].cell = dp.ValueAtQuantiles
  BY DEF SummaryRow, I64, F64, List, Append1
<1> HIDE DEF row
<1>3. Right(2) /\ Right(3)
  BY <1>2, CellRules, AttributesKept DEF Derived, Unsigned64, Unsigned32, Buckets,
     NumberValue, MetricKinds
<1>4. Right(1)
  <2>1. /\ SameBits(ToInt(dp.Count), dp["Count"], Width)
    BY BitsKept, CountsKept DEF PointNumbers
  <2> QED BY <1>2, <2>1, CellRules DEF Unsigned64, Unsigned32, Buckets
<1>5. \A n \in 1 .. 3 : Right(n)
  BY <1>3, <1>4
<1> QED BY <1>1, <1>5 DEF RightCells, row

LEMMA SpanCells ==
  ASSUME NEW kind, kind = "traces", NEW res, NEW scope, NEW s,
         s.Timestamp \in Nat, s.end \in Nat
  PROVE  RightCells(SpanRow(res, scope, s), kind, res, scope, s, s)
<1> DEFINE row == SpanRow(res, scope, s)
           Right(n) == CellIs(kind, row[n].col, row[n].cell, res, scope, s, s)
<1>1. DOMAIN row = 1 .. 17
  BY DEF SpanRow
<1>2. /\ row[1].col = "Timestamp" /\ row[1].cell = ToInt(s.Timestamp)
      /\ row[2].col = "TraceId" /\ row[2].cell = s.TraceId
      /\ row[3].col = "SpanId" /\ row[3].cell = s.SpanId
      /\ row[4].col = "ParentSpanId" /\ row[4].cell = s.ParentSpanId
      /\ row[5].col = "TraceState" /\ row[5].cell = s.TraceState
      /\ row[6].col = "SpanName" /\ row[6].cell = s.SpanName
      /\ row[7].col = "SpanKind" /\ row[7].cell = s.SpanKind
      /\ row[8].col = "ServiceName" /\ row[8].cell = ServiceName(res)
      /\ row[9].col = "ResourceAttributes" /\ row[9].cell = AttributesToJSON(res.attributes)
      /\ row[10].col = "ScopeName" /\ row[10].cell = scope.name
      /\ row[11].col = "ScopeVersion" /\ row[11].cell = scope.version
      /\ row[12].col = "SpanAttributes" /\ row[12].cell = AttributesToJSON(s.SpanAttributes)
      /\ row[13].col = "Duration" /\ row[13].cell = DurationOf(s.Timestamp, s.end)
      /\ row[14].col = "StatusCode" /\ row[14].cell = s.StatusCode
      /\ row[15].col = "StatusMessage" /\ row[15].cell = s.StatusMessage
      /\ row[16].col = "Events" /\ row[16].cell = s.Events
      /\ row[17].col = "Links" /\ row[17].cell = s.Links
  BY DEF SpanRow, I64, Str, List, Append1
<1> HIDE DEF row
<1>3. Right(1)
  BY <1>2, BitsKept, CellRules DEF Unsigned64
<1>4. Right(13)
  <2>1. row[13].cell = DurationOf(s.Timestamp, s.end)
    BY <1>2
  <2>2. s.end - s.Timestamp <= MaxInt =>
          /\ row[13].cell >= 0
          /\ s.end >= s.Timestamp => s.Timestamp + row[13].cell = s.end
    BY <2>1 DEF DurationOf, ToInt, AsSigned, MaxInt
  <2> QED BY <1>2, <2>2 DEF CellIs, OfResource, OfScope, MetricKinds,
                            Unsigned64, Unsigned32, Buckets
<1>5. Right(2) /\ Right(3) /\ Right(4) /\ Right(5)
  BY <1>2, CellRules, AttributesKept DEF Derived, Unsigned64, Unsigned32, Buckets,
     NumberValue, MetricKinds
<1>6. Right(6) /\ Right(7) /\ Right(8) /\ Right(9)
  BY <1>2, CellRules, AttributesKept DEF Derived, Unsigned64, Unsigned32, Buckets,
     NumberValue, MetricKinds
<1>7. Right(10) /\ Right(11) /\ Right(12) /\ Right(14)
  BY <1>2, CellRules, AttributesKept DEF Derived, Unsigned64, Unsigned32, Buckets,
     NumberValue, MetricKinds
<1>8. Right(15) /\ Right(16) /\ Right(17)
  BY <1>2, CellRules, AttributesKept DEF Derived, Unsigned64, Unsigned32, Buckets,
     NumberValue, MetricKinds
<1>9. \A n \in 1 .. 17 : Right(n)
  BY <1>3, <1>4, <1>5, <1>6, <1>7, <1>8
<1> QED BY <1>1, <1>9 DEF RightCells, row

LEMMA LogCells ==
  ASSUME NEW kind, kind = "logs", NEW res, NEW scope, NEW lr,
         lr.Timestamp \in Nat, lr.TraceFlags \in Nat
  PROVE  RightCells(LogRow(res, scope, lr), kind, res, scope, lr, lr)
<1> DEFINE row == LogRow(res, scope, lr)
           Right(n) == CellIs(kind, row[n].col, row[n].cell, res, scope, lr, lr)
<1>1. DOMAIN row = 1 .. 14
  BY DEF LogRow
<1>2. /\ row[1].col = "Timestamp" /\ row[1].cell = ToInt(lr.Timestamp)
      /\ row[2].col = "TraceId" /\ row[2].cell = lr.TraceId
      /\ row[3].col = "SpanId" /\ row[3].cell = lr.SpanId
      /\ row[4].col = "TraceFlags" /\ row[4].cell = ToInt32(lr.TraceFlags)
      /\ row[5].col = "SeverityText" /\ row[5].cell = lr.SeverityText
      /\ row[6].col = "SeverityNumber" /\ row[6].cell = lr.SeverityNumber
      /\ row[7].col = "ServiceName" /\ row[7].cell = ServiceName(res)
      /\ row[8].col = "Body" /\ row[8].cell = lr.Body
      /\ row[9].col = "ResourceAttributes" /\ row[9].cell = AttributesToJSON(res.attributes)
      /\ row[10].col = "ScopeName" /\ row[10].cell = scope.name
      /\ row[11].col = "ScopeVersion" /\ row[11].cell = scope.version
      /\ row[12].col = "ScopeAttributes" /\ row[12].cell = AttributesToJSON(scope.attributes)
      /\ row[13].col = "LogAttributes" /\ row[13].cell = AttributesToJSON(lr.LogAttributes)
      /\ row[14].col = "EventName" /\ row[14].cell = lr.EventName
  BY DEF LogRow, I64, Str, I32, Append1
<1> HIDE DEF row
<1>3. Right(2) /\ Right(3)
  BY <1>2, CellRules, AttributesKept DEF Derived, Unsigned64, Unsigned32, Buckets,
     NumberValue, MetricKinds
<1>4. Right(5) /\ Right(6) /\ Right(7) /\ Right(8)
  BY <1>2, CellRules, AttributesKept DEF Derived, Unsigned64, Unsigned32, Buckets,
     NumberValue, MetricKinds
<1>5. Right(9) /\ Right(10) /\ Right(11) /\ Right(12)
  BY <1>2, CellRules, AttributesKept DEF Derived, Unsigned64, Unsigned32, Buckets,
     NumberValue, MetricKinds
<1>6. Right(13) /\ Right(14)
  BY <1>2, CellRules, AttributesKept DEF Derived, Unsigned64, Unsigned32, Buckets,
     NumberValue, MetricKinds
<1>7. Right(1) /\ Right(4)
  <2>1. /\ SameBits(ToInt(lr.Timestamp), lr["Timestamp"], Width)
        /\ SameBits(ToInt32(lr.TraceFlags), lr["TraceFlags"], Half)
    BY BitsKept, CountsKept
  <2> QED BY <1>2, <2>1, CellRules DEF Unsigned64, Unsigned32, Buckets
<1>8. \A n \in 1 .. 14 : Right(n)
  BY <1>3, <1>4, <1>5, <1>6, <1>7
<1> QED BY <1>1, <1>8 DEF RightCells, row

LEMMA MetricCells ==
  ASSUME NEW kind \in MetricKinds, NEW res, NEW scope, NEW m, NEW dp, m.type = kind,
         PointNumbers(m, dp)
  PROVE  RightCells(Common(res, scope, m, dp) \o RowOf(m, dp), kind, res, scope, m, dp)
<1> DEFINE a == Common(res, scope, m, dp)
           b == RowOf(m, dp)
           row == a \o b
<1>1. RightCells(a, kind, res, scope, m, dp)
  BY CommonCells
<1>2. RightCells(b, kind, res, scope, m, dp)
  <2>1. CASE kind = "gauge"
    BY <2>1, GaugeCells DEF RowOf
  <2>2. CASE kind = "sum"
    BY <2>2, SumCells DEF RowOf
  <2>3. CASE kind = "histogram"
    BY <2>3, HistogramCells DEF RowOf
  <2>4. CASE kind = "exphistogram"
    BY <2>4, ExpHistogramCells DEF RowOf
  <2>5. CASE kind = "summary"
    BY <2>5, SummaryCells DEF RowOf
  <2> QED BY <2>1, <2>2, <2>3, <2>4, <2>5 DEF MetricKinds
<1>3. IsSeq(a)
  BY CommonFills DEF Fills
<1>4. IsSeq(b)
  <2>1. CASE kind = "gauge"
    BY <2>1, GaugeFills DEF RowOf, Fills
  <2>2. CASE kind = "sum"
    BY <2>2, SumFills DEF RowOf, Fills
  <2>3. CASE kind = "histogram"
    BY <2>3, HistogramFills DEF RowOf, Fills
  <2>4. CASE kind = "exphistogram"
    BY <2>4, ExpHistogramFills DEF RowOf, Fills
  <2>5. CASE kind = "summary"
    BY <2>5, SummaryFills DEF RowOf, Fills
  <2> QED BY <2>1, <2>2, <2>3, <2>4, <2>5 DEF MetricKinds
<1> HIDE DEF a, b
<1>5. \A n \in DOMAIN row : \/ n \in DOMAIN a /\ row[n] = a[n]
                            \/ n - Len(a) \in DOMAIN b /\ row[n] = b[n - Len(a)]
  BY <1>3, <1>4, CatIsSeq
<1>6. ASSUME NEW n \in DOMAIN row
      PROVE  CellIs(kind, row[n].col, row[n].cell, res, scope, m, dp)
  <2>1. CASE n \in DOMAIN a /\ row[n] = a[n]
    BY <1>1, <2>1 DEF RightCells
  <2>2. CASE n - Len(a) \in DOMAIN b /\ row[n] = b[n - Len(a)]
    BY <1>2, <2>2 DEF RightCells
  <2> QED BY <1>5, <2>1, <2>2
<1> QED BY <1>6 DEF RightCells, a, b

(* The row of a place has the cells of the point at that place. *)
LEMMA PlaceHasCells ==
  ASSUME NEW req, WellFormed(req), NEW kind \in SignalKinds(req.signal),
         NEW p \in Places(kind, req)
  PROVE  LET res   == req.resources[p[1]]
             scope == res.scopes[p[2]]
             m     == scope.items[p[3]]
             item  == IF kind \in MetricKinds THEN m.points[p[4]] ELSE m
         IN RightCells(PlaceRows(kind, req)[p], kind, res, scope, m, item)
<1>1. /\ kind \in {"traces", "logs"} \cup MetricKinds
      /\ kind \in MetricKinds => req.signal = "metrics"
      /\ kind = "traces" => req.signal = "traces"
      /\ kind = "logs" => req.signal = "logs"
  BY DEF WellFormed, SignalKinds, MetricKinds
<1>2. PICK a \in DOMAIN req.resources : \E b \in DOMAIN req.resources[a].scopes :
        \E c \in DOMAIN req.resources[a].scopes[b].items :
          \E d \in PointsOf(kind, req.resources[a].scopes[b].items[c]) : p = <<a, b, c, d>>
  BY DEF Places
<1>3. PICK b \in DOMAIN req.resources[a].scopes :
        \E c \in DOMAIN req.resources[a].scopes[b].items :
          \E d \in PointsOf(kind, req.resources[a].scopes[b].items[c]) : p = <<a, b, c, d>>
  BY <1>2
<1>4. PICK c \in DOMAIN req.resources[a].scopes[b].items :
        \E d \in PointsOf(kind, req.resources[a].scopes[b].items[c]) : p = <<a, b, c, d>>
  BY <1>3
<1> DEFINE res   == req.resources[a]
           scope == res.scopes[b]
           m     == scope.items[c]
           item  == IF kind \in MetricKinds THEN m.points[p[4]] ELSE m
           rows  == ItemRows(kind, res, scope, m)
<1>5. PICK d \in PointsOf(kind, m) : p = <<a, b, c, d>>
  BY <1>4
<1>6. /\ a \in Nat /\ res \in Range(req.resources) /\ IsSeq(res.scopes)
      /\ b \in Nat /\ IsSeq(scope.items) /\ c \in Nat
      /\ kind \in MetricKinds => IsSeq(m.points)
      /\ p \in Quads
  BY <1>1, <1>5, PlacesInside DEF ItemPlaces
<1>7. /\ p[1] = a /\ p[2] = b /\ p[3] = c /\ p[4] = d
      /\ d \in Nat
  <2>1. d \in Nat
    <3>1. CASE kind \in MetricKinds
      <4>1. d \in DOMAIN m.points
        BY <3>1 DEF PointsOf
      <4>2. IsSeq(m.points)
        BY <1>6, <3>1
      <4> QED BY <4>1, <4>2, SeqFacts
    <3>2. CASE kind \notin MetricKinds
      BY <3>2 DEF PointsOf
    <3> QED BY <3>1, <3>2
  <2> QED BY <1>5, <1>6, <2>1, QuadFields
<1>8. PlaceRows(kind, req)[p] = rows[d]
  BY <1>6, <1>7 DEF PlaceRows
<1>9. RightCells(rows[d], kind, res, scope, m, item)
  <2>1. CASE kind = "traces"
    <3>1. scope \in Range(res.scopes) /\ m \in Range(scope.items)
      BY DEF Range
    <3>2. m.Timestamp \in Nat /\ m.end \in Nat
      BY <1>1, <1>6, <2>1, <3>1 DEF WellFormed
    <3>3. d = 1 /\ item = m /\ rows = <<SpanRow(res, scope, m)>>
      BY <2>1 DEF PointsOf, MetricKinds, ItemRows
    <3>4. rows[d] = SpanRow(res, scope, m)
      BY <3>3, SmallSeqs
    <3> QED BY <2>1, <3>2, <3>3, <3>4, SpanCells
  <2>2. CASE kind = "logs"
    <3>1. d = 1 /\ item = m /\ rows = <<LogRow(res, scope, m)>>
      BY <2>2 DEF PointsOf, MetricKinds, ItemRows
    <3>2. rows[d] = LogRow(res, scope, m)
      BY <3>1, SmallSeqs
    <3>3. scope \in Range(res.scopes) /\ m \in Range(scope.items)
      BY DEF Range
    <3>4. m.Timestamp \in Nat /\ m.TraceFlags \in Nat
      BY <1>1, <1>6, <2>2, <3>3 DEF WellFormed
    <3> QED BY <2>2, <3>1, <3>2, <3>4, LogCells
  <2>3. CASE kind \in MetricKinds
    <3>1. m.type = kind /\ d \in DOMAIN m.points /\ item = m.points[d]
      BY <1>7, <2>3 DEF PointsOf
    <3>2. rows = [n \in DOMAIN m.points |->
                    Common(res, scope, m, m.points[n]) \o RowOf(m, m.points[n])]
      BY <2>3, <3>1 DEF ItemRows, AppendMetric, MetricKinds
    <3>3. rows[d] = Common(res, scope, m, item) \o RowOf(m, item)
      BY <3>1, <3>2
    <3>4. /\ scope \in Range(res.scopes) /\ m \in Range(scope.items)
          /\ item \in Range(m.points)
      BY <3>1 DEF Range
    <3>5. PointNumbers(m, item)
      BY <1>1, <1>6, <2>3, <3>4 DEF WellFormed
    <3> QED BY <2>3, <3>1, <3>3, <3>5, MetricCells
  <2> QED BY <1>1, <2>1, <2>2, <2>3
<1> HIDE DEF rows
<1> QED BY <1>7, <1>8, <1>9

(* Whatever a request holds, its points are the rows of the records: each  *)
(* of them once, in their order, with the cells of its own.                *)
THEOREM EveryPointIsARow == Spec => []RowsArePoints
<1>1. PathInv => RowsArePoints
  <2> SUFFICES ASSUME PathInv PROVE RowsArePoints
    OBVIOUS
  <2>1. WellFormed(request) /\ records = ToRecords(request) /\ DOMAIN records = Kinds(request)
    BY DEF PathInv, Pushed, ToRecords
  <2>2. ASSUME NEW kind \in SignalKinds(request.signal)
        PROVE  LET rows   == RowsFor(kind, request)
                   places == Places(kind, request)
               IN /\ Len(rows) \in Nat /\ Cardinality(places) = Len(rows)
                  /\ \A p \in places :
                       LET n == 1 + Cardinality({q \in places : Earlier(q, p)})
                       IN n \in 1 .. Len(rows) /\ rows[n] = PlaceRows(kind, request)[p]
    BY <2>1, <2>2, RowsListed, RowAtItsRank
  <2>3. ASSUME NEW kind \in DOMAIN records
        PROVE  LET places == Places(kind, request)
               IN /\ records[kind].rows = Cardinality(places)
                  /\ \A p \in places :
                       CellsOf(kind, 1 + Cardinality({q \in places : Earlier(q, p)}), p)
    <3> DEFINE rows   == RowsFor(kind, request)
               places == Places(kind, request)
               Rank(p) == 1 + Cardinality({q \in places : Earlier(q, p)})
    <3>1. kind \in SignalKinds(request.signal)
      BY <2>1 DEF WellFormed, Kinds, SignalKinds
    <3>2. /\ records[kind].rows = Len(rows)
          /\ \A col \in ColumnNames(kind) :
               records[kind].columns[col] = [n \in 1 .. Len(rows) |-> CellIn(rows[n], col)]
      BY <2>1, RecordsOfRequest
    <3>3. DOMAIN records[kind].columns = ColumnNames(kind)
      BY <2>1 DEF ToRecords, RecordOf
    <3>4. AllFill(rows, Schema(kind)) /\ DOMAIN rows = 1 .. Len(rows)
      <4>1. AllFill(rows, Schema(kind))
        BY <2>1, <3>1, RowsFill
      <4> HIDE DEF rows
      <4> QED BY <4>1, SeqFacts DEF AllFill
    <3>5. ASSUME NEW p \in places PROVE CellsOf(kind, Rank(p), p)
      <4> DEFINE n     == Rank(p)
                 res   == request.resources[p[1]]
                 scope == res.scopes[p[2]]
                 m     == scope.items[p[3]]
                 item  == IF kind \in MetricKinds THEN m.points[p[4]] ELSE m
                 row   == rows[n]
      <4>1. n \in 1 .. Len(rows) /\ row = PlaceRows(kind, request)[p]
        BY <2>2, <3>1
      <4>2. RightCells(row, kind, res, scope, m, item)
        BY <2>1, <3>1, <4>1, PlaceHasCells
      <4>3. Fills(row, Schema(kind))
        BY <3>4, <4>1 DEF AllFill
      <4> HIDE DEF rows, Rank, n, row, res, scope, m, item
      <4>4. ASSUME NEW c \in ColumnNames(kind)
            PROVE  CellIs(kind, c, CellIn(row, c), res, scope, m, item)
        <5>1. \E k \in DOMAIN row : row[k].col = c
          <6>1. PICK field \in Schema(kind) : field[1] = c
            BY DEF ColumnNames
          <6>2. PICK k \in DOMAIN row : field = <<row[k].col, row[k].type>>
            BY <4>3 DEF Fills
          <6> QED BY <6>1, <6>2
        <5>2. PICK k \in DOMAIN row : row[k].col = c /\ CellIn(row, c) = row[k].cell
          BY <5>1 DEF CellIn
        <5> QED BY <4>2, <5>2 DEF RightCells
      <4>5. ASSUME NEW c \in ColumnNames(kind)
            PROVE  CellIs(kind, c, records[kind].columns[c][n], res, scope, m, item)
        <5>1. records[kind].columns[c][n] = CellIn(row, c)
          BY <3>2, <4>1 DEF row
        <5> QED BY <4>4, <5>1
      <4>6. \A c \in DOMAIN records[kind].columns :
              CellIs(kind, c, records[kind].columns[c][n], res, scope, m, item)
        BY <3>3, <4>5
      <4> QED BY <4>6 DEF CellsOf, n, res, scope, m, item
    <3> QED BY <2>2, <3>1, <3>2, <3>5
  <2>4. ASSUME request.signal = "metrics", NEW kind \in MetricKinds, kind \notin DOMAIN records
        PROVE  Places(kind, request) = {}
    <3>1. RowsFor(kind, request) = <<>> /\ kind \in SignalKinds(request.signal)
      BY <2>1, <2>4 DEF Kinds, SignalKinds
    <3>2. Len(RowsFor(kind, request)) = 0
      BY <3>1, EmptySeq
    <3>3. \A p \in Places(kind, request) :
            1 + Cardinality({q \in Places(kind, request) : Earlier(q, p)}) \in 1 .. 0
      BY <2>2, <3>1, <3>2
    <3>4. 1 .. 0 = {}
      OBVIOUS
    <3> QED BY <3>3, <3>4
  <2> QED BY <2>3, <2>4 DEF RowsArePoints
<1> QED BY <1>1, PathInvariant, PTL
=============================================================================
