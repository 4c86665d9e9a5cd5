--------------------------- MODULE SequenceLemmas ---------------------------
(***************************************************************************)
(* Facts about numbers, finite sets and sequences that the proofs of the   *)
(* components use: what is true of 0 and kept by + 1 is true up to any     *)
(* number, a recursive definition along the numbers has a value, and so    *)
(* the folds and concatenations of lists have the ones one expects.        *)
(***************************************************************************)
EXTENDS Integers, Sequences, FiniteSets, FiniteSetsExt, SequencesExt,
        FiniteSetTheorems, WellFoundedInduction, TLAPS

-----------------------------------------------------------------------------
(* Induction, for sets of numbers                                          *)

\* A nonempty set of numbers has a smallest one.
LEMMA LeastNumber ==
  ASSUME NEW S, S \subseteq Nat, S # {}
  PROVE  \E m \in S : \A n \in S : m <= n
<1>1. PICK m \in S : \A n \in S : ~(<<n, m>> \in OpToRel(<, Nat))
  BY NatLessThanWellFounded, WFMin
<1>2. \A n \in S : ~(n < m)
  BY <1>1 DEF OpToRel
<1> QED
  BY <1>2

\* A set with 0 that has n + 1 with each n below N has all numbers to N.
LEMMA UpTo ==
  ASSUME NEW N \in Nat, NEW S, 0 \in S, \A n \in 0..N - 1 : n \in S => n + 1 \in S
  PROVE  \A n \in 0..N : n \in S
<1> DEFINE Missing == {n \in 0..N : n \notin S}
<1> SUFFICES ASSUME Missing # {} PROVE FALSE
  OBVIOUS
<1>1. PICK m \in Missing : \A n \in Missing : m <= n
  <2>1. Missing \subseteq Nat
    OBVIOUS
  <2> HIDE DEF Missing
  <2> QED
    BY <2>1, LeastNumber
<1>2. m # 0 /\ m \in 0..N /\ m \notin S
  BY <1>1
<1>3. m - 1 \in 0..N - 1 /\ m - 1 \in 0..N /\ m - 1 + 1 = m
  BY <1>2
<1>4. m - 1 \notin Missing
  <2> HIDE DEF Missing
  <2>1. ~(m <= m - 1)
    BY <1>3
  <2> QED
    BY <1>1, <2>1
<1>5. m - 1 \in S
  BY <1>3, <1>4
<1> QED
  BY <1>2, <1>3, <1>5

-----------------------------------------------------------------------------
(* Sequences, whatever their elements are                                *)

\* A sequence, whatever its elements are.
Sequence(s) == s \in Seq({s[n] : n \in DOMAIN s})

\* A function on 1..n is a sequence of length n.
LEMMA MadeSequence ==
  ASSUME NEW s, NEW n \in Nat, s = [j \in 1..n |-> s[j]]
  PROVE  Sequence(s) /\ Len(s) = n
<1> DEFINE U == {s[j] : j \in DOMAIN s}
<1>1. DOMAIN s = 1..n
  BY Zenon
<1>2. \A j \in 1..n : s[j] \in U
  BY <1>1
<1> HIDE DEF U
<1>3. s \in [1..n -> U]
  BY <1>2
<1>4. s \in Seq(U) /\ Len(s) = n
  BY <1>3
<1> QED
  BY <1>4 DEF Sequence, U

\* What the definitions make of sequences.
LEMMA SequenceOf ==
  ASSUME NEW S, NEW s \in Seq(S)
  PROVE  Sequence(s) /\ DOMAIN s = 1..Len(s) /\ Len(s) \in Nat
<1>1. Len(s) \in Nat /\ s = [n \in 1..Len(s) |-> s[n]]
  OBVIOUS
<1> QED
  BY <1>1, MadeSequence

\* The empty sequence.
LEMMA EmptySequence == Sequence(<<>>) /\ Len(<<>>) = 0
BY DEF Sequence

\* The elements of a sequence may be more.
LEMMA SeqMonotone ==
  ASSUME NEW S, NEW T, S \subseteq T, NEW s \in Seq(S)
  PROVE  s \in Seq(T)
<1>1. Len(s) \in Nat /\ s \in [1..Len(s) -> S]
  OBVIOUS
<1>2. s \in [1..Len(s) -> T]
  BY <1>1
<1> QED
  BY <1>1, <1>2

\* Appending keeps what was there and adds one element.
LEMMA AppendSequence ==
  ASSUME NEW s, NEW x, Sequence(s)
  PROVE  /\ Sequence(Append(s, x))
         /\ Len(s) \in Nat /\ DOMAIN s = 1..Len(s)
         /\ Len(Append(s, x)) = Len(s) + 1
         /\ DOMAIN Append(s, x) = 1..Len(s) + 1
         /\ Append(s, x)[Len(s) + 1] = x
         /\ \A n \in 1..Len(s) : Append(s, x)[n] = s[n]
<1> DEFINE R == {s[n] : n \in DOMAIN s}
<1>1. s \in Seq(R)
  BY DEF Sequence
<1>2. s \in Seq(R \cup {x})
  <2>1. /\ Len(s) \in Nat /\ DOMAIN s = 1..Len(s) /\ s = [n \in 1..Len(s) |-> s[n]]
        /\ \A n \in 1..Len(s) : s[n] \in R
    BY <1>1
  <2> HIDE DEF R
  <2>2. s \in [1..Len(s) -> R \cup {x}]
    BY <2>1
  <2> QED
    BY <2>1, <2>2
<1> HIDE DEF R
<1>3. /\ Append(s, x) \in Seq(R \cup {x})
      /\ Len(s) \in Nat /\ DOMAIN s = 1..Len(s)
      /\ Len(Append(s, x)) = Len(s) + 1
      /\ Append(s, x)[Len(s) + 1] = x
      /\ \A n \in 1..Len(s) : Append(s, x)[n] = s[n]
  BY <1>2
<1> DEFINE a == Append(s, x)
<1> HIDE DEF a
<1>4. /\ a \in Seq(R \cup {x}) /\ Len(a) = Len(s) + 1
      /\ DOMAIN a = 1..Len(s) + 1 /\ a = [n \in 1..Len(s) + 1 |-> a[n]]
  <2>1. a \in Seq(R \cup {x}) /\ Len(a) = Len(s) + 1
    BY <1>3 DEF a
  <2> QED
    BY <2>1
<1>6. a \in Seq({a[n] : n \in DOMAIN a})
  <2> DEFINE U == {a[n] : n \in DOMAIN a}
  <2>1. \A n \in 1..Len(s) + 1 : a[n] \in U
    BY <1>4
  <2> HIDE DEF U
  <2>2. a \in [1..Len(s) + 1 -> U]
    BY <1>4, <2>1
  <2>3. Len(s) + 1 \in Nat
    BY <1>3
  <2>4. a \in Seq(U)
    BY <2>2, <2>3
  <2> QED
    BY <2>4 DEF U
<1> QED
  BY <1>3, <1>4, <1>6 DEF Sequence, a

\* Sequences of one length with the same elements in their places are the same.
LEMMA SameSequence ==
  ASSUME NEW S, NEW s \in Seq(S), NEW u \in Seq(S), Len(s) = Len(u),
         \A n \in 1..Len(s) : s[n] = u[n]
  PROVE  s = u
<1>1. s = [n \in 1..Len(s) |-> s[n]] /\ u = [n \in 1..Len(s) |-> u[n]]
  OBVIOUS
<1> QED
  BY <1>1

\* The tail has the elements but the first, one place earlier.
LEMMA TailSequence ==
  ASSUME NEW s, Sequence(s), s # <<>>
  PROVE  /\ Sequence(Tail(s)) /\ Len(s) \in Nat \ {0} /\ Len(Tail(s)) = Len(s) - 1
         /\ Head(s) = s[1]
         /\ \A j \in 1..Len(s) - 1 : Tail(s)[j] = s[j + 1]
<1> DEFINE R == {s[n] : n \in DOMAIN s}
           u == Tail(s)
<1>1. s \in Seq(R)
  BY DEF Sequence
<1> HIDE DEF R
<1>2. /\ Len(s) \in Nat \ {0} /\ Len(u) = Len(s) - 1 /\ Head(s) = s[1] /\ u \in Seq(R)
      /\ \A j \in 1..Len(s) - 1 : u[j] = s[j + 1]
  BY <1>1
<1> HIDE DEF u
<1>3. Sequence(u)
  <2> DEFINE U == {u[n] : n \in DOMAIN u}
  <2>1. /\ Len(u) \in Nat /\ u = [n \in 1..Len(u) |-> u[n]]
        /\ \A n \in 1..Len(u) : u[n] \in U
    BY <1>2
  <2> HIDE DEF U
  <2>2. u \in [1..Len(u) -> U]
    BY <2>1
  <2>3. u \in Seq(U)
    BY <2>1, <2>2
  <2> QED
    BY <2>3 DEF Sequence, U
<1> QED
  BY <1>2, <1>3 DEF u

\* The elements of a sequence are its head and those of its tail.
LEMMA HeadAndTail ==
  ASSUME NEW s, Sequence(s), s # <<>>
  PROVE  /\ Sequence(Tail(s)) /\ Head(s) \in Range(s)
         /\ Range(Tail(s)) \subseteq Range(s) /\ Range(s) \subseteq Range(Tail(s)) \cup {Head(s)}
         /\ Len(s) = 1 => Range(s) = {Head(s)}
         /\ Len(s) # 1 => Tail(s) # <<>>
<1> DEFINE u == Tail(s)
           l == Len(s)
<1>1. /\ Sequence(u) /\ l \in Nat \ {0} /\ Len(u) = l - 1 /\ Head(s) = s[1]
      /\ \A j \in 1..l - 1 : u[j] = s[j + 1]
  BY TailSequence
<1>2. DOMAIN s = 1..l /\ DOMAIN u = 1..l - 1
  <2>1. DOMAIN s = 1..l /\ DOMAIN u = 1..Len(u)
    BY <1>1, AppendSequence
  <2> QED
    BY <1>1, <2>1
<1>3. l # 1 => u # <<>>
  <2>1. l # 1 => Len(u) # 0
    BY <1>1
  <2> QED
    BY <2>1, EmptySequence
<1> HIDE DEF u, l
<1>4. Head(s) \in Range(s)
  <2>1. 1 \in DOMAIN s
    BY <1>1, <1>2
  <2> QED
    BY <1>1, <2>1 DEF Range
<1>5. Range(u) \subseteq Range(s)
  <2> SUFFICES ASSUME NEW j \in 1..l - 1 PROVE u[j] \in Range(s)
    BY <1>2 DEF Range
  <2>1. j + 1 \in DOMAIN s
    BY <1>1, <1>2
  <2> QED
    BY <1>1, <2>1 DEF Range
<1>6. Range(s) \subseteq Range(u) \cup {Head(s)}
  <2> SUFFICES ASSUME NEW j \in 1..l PROVE s[j] \in Range(u) \cup {Head(s)}
    BY <1>2 DEF Range
  <2>1. CASE j = 1
    BY <1>1, <2>1
  <2>2. CASE j # 1
    <3>1. j - 1 \in 1..l - 1 /\ (j - 1) + 1 = j
      BY <1>1, <2>2
    <3>2. u[j - 1] = s[j] /\ j - 1 \in DOMAIN u
      BY <1>1, <1>2, <3>1
    <3> QED
      BY <3>2 DEF Range
  <2> QED
    BY <2>1, <2>2
<1>7. l = 1 => Range(s) = {Head(s)}
  <2> HAVE l = 1
  <2>1. \A j \in DOMAIN s : s[j] = Head(s)
    BY <1>1, <1>2
  <2> QED
    BY <1>4, <2>1 DEF Range
<1> QED
  BY <1>1, <1>3, <1>4, <1>5, <1>6, <1>7 DEF u, l

\* A part of a sequence has its elements from a on to b.
LEMMA SubSequence ==
  ASSUME NEW s, Sequence(s), NEW a \in Nat \ {0}, NEW b \in Nat, a <= b + 1,
         b <= Len(s) \/ a = b + 1
  PROVE  /\ Sequence(SubSeq(s, a, b)) /\ Len(SubSeq(s, a, b)) = b + 1 - a
         /\ DOMAIN SubSeq(s, a, b) = 1..b + 1 - a
         /\ \A n \in 1..b + 1 - a : SubSeq(s, a, b)[n] = s[a + n - 1]
<1> DEFINE S == {s[n] : n \in DOMAIN s}
           u == SubSeq(s, a, b)
           U == {u[n] : n \in DOMAIN u}
<1>1. s \in Seq(S) /\ Len(s) \in Nat
  BY DEF Sequence
<1>2. b + 1 - a \in Nat
  OBVIOUS
<1> HIDE DEF S
<1>3. /\ Len(u) = b + 1 - a /\ DOMAIN u = 1..b + 1 - a
      /\ u = [n \in 1..b + 1 - a |-> u[n]]
      /\ \A n \in 1..b + 1 - a : u[n] = s[a + n - 1]
  BY <1>1, <1>2
<1> HIDE DEF u
<1>4. \A n \in 1..b + 1 - a : u[n] \in U
  BY <1>3
<1> HIDE DEF U
<1>5. u \in [1..b + 1 - a -> U]
  BY <1>3, <1>4
<1>6. u \in Seq(U)
  BY <1>2, <1>5
<1> QED
  BY <1>3, <1>6 DEF Sequence, u, U

\* A concatenation has the elements of the one and then those of the other.
LEMMA Concatenated ==
  ASSUME NEW s, NEW u, Sequence(s), Sequence(u)
  PROVE  /\ Sequence(s \o u) /\ Len(s \o u) = Len(s) + Len(u)
         /\ Len(s) \in Nat /\ Len(u) \in Nat
         /\ \A n \in 1..Len(s) : (s \o u)[n] = s[n]
         /\ \A n \in 1..Len(u) : (s \o u)[Len(s) + n] = u[n]
<1> DEFINE A == {s[n] : n \in DOMAIN s}
           B == {u[n] : n \in DOMAIN u}
           S == A \cup B
           v == s \o u
           V == {v[n] : n \in DOMAIN v}
<1>1. s \in Seq(A) /\ u \in Seq(B)
  BY DEF Sequence
<1>2. s \in Seq(S) /\ u \in Seq(S)
  <2>1. /\ Len(s) \in Nat /\ s \in [1..Len(s) -> A]
        /\ Len(u) \in Nat /\ u \in [1..Len(u) -> B]
    BY <1>1
  <2> HIDE DEF A, B
  <2>2. s \in [1..Len(s) -> S] /\ u \in [1..Len(u) -> S]
    BY <2>1
  <2> HIDE DEF S
  <2> QED
    BY <2>1, <2>2
<1> HIDE DEF S, A, B
<1>3. /\ v \in Seq(S) /\ Len(v) = Len(s) + Len(u) /\ Len(s) \in Nat /\ Len(u) \in Nat
      /\ \A n \in 1..Len(s) : v[n] = s[n]
  BY <1>2
<1>4. \A n \in 1..Len(u) : v[Len(s) + n] = u[n]
  BY <1>2
<1> HIDE DEF v
<1>5. Sequence(v)
  <2>1. /\ Len(v) \in Nat /\ v = [n \in 1..Len(v) |-> v[n]]
        /\ \A n \in 1..Len(v) : v[n] \in V
    BY <1>3
  <2> HIDE DEF V
  <2>2. v \in [1..Len(v) -> V]
    BY <2>1
  <2>3. v \in Seq(V)
    BY <2>1, <2>2
  <2> QED
    BY <2>3 DEF V, Sequence
<1> QED
  BY <1>3, <1>4, <1>5 DEF v

\* One element before a sequence.
LEMMA FirstAdded ==
  ASSUME NEW x, NEW u, Sequence(u)
  PROVE  /\ Sequence(<<x>> \o u) /\ Len(<<x>> \o u) = 1 + Len(u) /\ (<<x>> \o u)[1] = x
         /\ \A m \in 1..Len(u) : (<<x>> \o u)[1 + m] = u[m]
<1> DEFINE d == <<x>>
<1>1. d = [j \in 1..1 |-> d[j]] /\ d[1] = x
  OBVIOUS
<1> HIDE DEF d
<1>2. Sequence(d) /\ Len(d) = 1
  BY <1>1, MadeSequence
<1>3. /\ Sequence(d \o u) /\ Len(d \o u) = Len(d) + Len(u)
      /\ \A m \in 1..Len(d) : (d \o u)[m] = d[m]
      /\ \A m \in 1..Len(u) : (d \o u)[Len(d) + m] = u[m]
  <2>1. Sequence(d)
    BY <1>2
  <2>2. Sequence(u)
    OBVIOUS
  <2> QED
    BY ONLY <2>1, <2>2, Concatenated
<1>4. /\ Sequence(d \o u) /\ Len(d \o u) = 1 + Len(u) /\ (d \o u)[1] = x
      /\ \A m \in 1..Len(u) : (d \o u)[1 + m] = u[m]
  BY <1>1, <1>2, <1>3
<1> QED
  BY <1>4 DEF d

\* An element not above any other is the minimum.
LEMMA MinIs ==
  ASSUME NEW S, S \subseteq Int, NEW x \in S, \A y \in S : x <= y
  PROVE  Min(S) = x
<1>1. Min(S) \in S /\ \A y \in S : Min(S) <= y
  BY DEF Min
<1>2. Min(S) \in Int /\ x \in Int /\ Min(S) <= x /\ x <= Min(S)
  BY <1>1
<1> QED
  BY <1>2

\* A nonempty sequence of integers has a smallest element.
LEMMA SmallestElement ==
  ASSUME NEW s, Sequence(s), Len(s) > 0, \A n \in 1..Len(s) : s[n] \in Int
  PROVE  \E i \in 1..Len(s) : \A j \in 1..Len(s) : s[i] <= s[j]
<1>0. Len(s) \in Nat /\ DOMAIN s = 1..Len(s)
  BY AppendSequence
<1> DEFINE Bad == {k \in 1..Len(s) : \A i \in 1..k : \E j \in 1..k : s[j] < s[i]}
<1>1. ASSUME Bad # {} PROVE FALSE
  <2>0. Bad \subseteq Nat
    BY <1>0
  <2>1. PICK k \in Bad : \A l \in Bad : k <= l
    <3> HIDE DEF Bad
    <3> QED
      BY <1>1, <2>0, LeastNumber
  <2>2. k \in 1..Len(s) /\ k # 1
    BY <1>0, <2>1
  <2>3. k - 1 \in 1..Len(s) /\ k - 1 \notin Bad
    <3>1. k - 1 \in 1..Len(s) /\ ~(k <= k - 1)
      BY <1>0, <2>2
    <3> HIDE DEF Bad
    <3> QED
      BY <2>1, <3>1
  <2>4. PICK i \in 1..k - 1 : \A j \in 1..k - 1 : ~(s[j] < s[i])
    BY <2>3
  <2>5. CASE s[k] < s[i]
    <3>1. \A j \in 1..k : ~(s[j] < s[k])
      BY <1>0, <2>2, <2>4, <2>5
    <3>2. k \in 1..k
      BY <1>0, <2>2
    <3> QED
      BY <2>1, <3>1, <3>2
  <2>6. CASE ~(s[k] < s[i])
    <3>1. \A j \in 1..k : ~(s[j] < s[i])
      BY <1>0, <2>2, <2>4, <2>6
    <3>2. i \in 1..k
      BY <1>0, <2>2
    <3> QED
      BY <2>1, <3>1, <3>2
  <2> QED
    BY <2>5, <2>6
<1>2. Len(s) \in 1..Len(s) /\ Len(s) \notin Bad
  <2>1. Len(s) \in 1..Len(s)
    BY <1>0
  <2> HIDE DEF Bad
  <2> QED
    BY <1>1, <2>1
<1>3. PICK i \in 1..Len(s) : \A j \in 1..Len(s) : ~(s[j] < s[i])
  BY <1>2
<1> QED
  BY <1>0, <1>3

-----------------------------------------------------------------------------
(* Recursion                                                               *)

\* f begins with b and follows the steps of G to N.
Recursion(N, b, G, f) == f[0] = b /\ \A n \in 1..N : f[n] = G[n][f[n - 1]]

\* What is defined from b on, step by step.
LEMMA RecursionExists ==
  ASSUME NEW N \in Nat, NEW V, NEW b \in V, NEW G \in [1..N -> [V -> V]]
  PROVE  \E f \in [0..N -> V] : Recursion(N, b, G, f)
<1> DEFINE S == {n \in 0..N : \E f \in [0..n -> V] : Recursion(n, b, G, f)}
<1>1. 0 \in S
  <2> DEFINE f == [n \in 0..0 |-> b]
  <2>1. f \in [0..0 -> V] /\ f[0] = b /\ 0 \in 0..N /\ 1..0 = {}
    OBVIOUS
  <2> HIDE DEF f
  <2>2. Recursion(0, b, G, f)
    BY <2>1 DEF Recursion
  <2> QED
    BY <2>1, <2>2
<1>2. ASSUME NEW n \in 0..N - 1, n \in S PROVE n + 1 \in S
  <2>1. PICK f \in [0..n -> V] : Recursion(n, b, G, f)
    BY <1>2
  <2> DEFINE g == [m \in 0..n + 1 |-> IF m <= n THEN f[m] ELSE G[n + 1][f[n]]]
  <2>2. g \in [0..n + 1 -> V]
    <3>1. n \in 0..n /\ n + 1 \in 1..N /\ f[n] \in V
      OBVIOUS
    <3>2. G[n + 1][f[n]] \in V
      BY <3>1
    <3> QED
      BY <3>2
  <2>3. g[0] = b
    BY <2>1 DEF Recursion
  <2>4. ASSUME NEW m \in 1..n + 1 PROVE g[m] = G[m][g[m - 1]]
    <3>1. CASE m = n + 1
      BY <3>1
    <3>2. CASE m \in 1..n
      BY <2>1, <3>2 DEF Recursion
    <3> QED
      BY <3>1, <3>2
  <2> HIDE DEF g
  <2> QED
    BY <2>2, <2>3, <2>4 DEF Recursion
<1> HIDE DEF S
<1>3. N \in S
  <2>1. \A n \in 0..N - 1 : n \in S => n + 1 \in S
    BY <1>2
  <2>2. \A n \in 0..N : n \in S
    BY <1>1, <2>1, UpTo
  <2> QED
    BY <2>2
<1> QED
  BY <1>3 DEF S

\* The largest of the numbers to n + 1, when n + 1 is one of them.
LEMMA MaxOfUpTo ==
  ASSUME NEW n \in Nat, NEW s, s \subseteq 1..n, n \in s
  PROVE  Max(s) = n
<1>1. n \in s /\ \A y \in s : n >= y
  OBVIOUS
<1>2. Max(s) \in s /\ \A y \in s : Max(s) >= y
  BY <1>1 DEF Max
<1>3. Max(s) \in 1..n
  BY <1>2
<1> QED
  BY <1>1, <1>2, <1>3

\* A nonempty set of numbers to n has a largest one.
LEMMA MaxOfSome ==
  ASSUME NEW n \in Nat, NEW s, s \subseteq 1..n, s # {}
  PROVE  Max(s) \in s /\ \A x \in s : x <= Max(s)
<1> DEFINE U == {m \in Nat : \A x \in s : x <= m}
<1>1. U \subseteq Nat /\ n \in U
  OBVIOUS
<1>2. PICK m \in U : \A k \in U : m <= k
  <2> HIDE DEF U
  <2> QED
    BY <1>1, LeastNumber
<1>3. m \in s
  <2> SUFFICES ASSUME m \notin s PROVE FALSE
    OBVIOUS
  <2>1. PICK x \in s : TRUE
    OBVIOUS
  <2>2. m > 0 /\ m \in Nat /\ \A y \in s : y <= m /\ y # m
    BY <2>1
  <2>3. m - 1 \in U
    BY <2>2
  <2> HIDE DEF U
  <2>4. m <= m - 1
    BY <1>2, <2>3
  <2> QED
    BY <2>2, <2>4
<1>4. m \in s /\ \A x \in s : m >= x
  BY <1>3
<1>5. Max(s) \in s /\ \A x \in s : Max(s) >= x
  BY <1>4 DEF Max
<1>6. \A x \in s : x \in 1..n
  OBVIOUS
<1> QED
  BY <1>5, <1>6

\* f begins with b and follows the steps of G from set to set of numbers to N,
\* the largest last.
Folding(N, b, G, f) ==
    \A s \in SUBSET (1..N) : f[s] = IF s = {} THEN b ELSE G[Max(s)][f[s \ {Max(s)}]]

\* The recursion of a fold along the numbers to n, over the sets of them.
LEMMA FoldExists ==
  ASSUME NEW N \in Nat, NEW V, NEW b \in V, NEW G \in [1..N -> [V -> V]]
  PROVE  \E f \in [SUBSET (1..N) -> V] : Folding(N, b, G, f)
<1> DEFINE S == {n \in 0..N : \E f \in [SUBSET (1..n) -> V] : Folding(n, b, G, f)}
<1>1. 0 \in S
  <2>1. 1..0 = {}
    OBVIOUS
  <2> DEFINE f == [s \in SUBSET (1..0) |-> b]
  <2>2. f \in [SUBSET (1..0) -> V] /\ 0 \in 0..N
    OBVIOUS
  <2>3. \A s \in SUBSET (1..0) : s = {} /\ f[s] = b
    BY <2>1
  <2> HIDE DEF f
  <2>4. Folding(0, b, G, f)
    BY <2>3 DEF Folding
  <2> QED
    BY <2>2, <2>4
<1>2. ASSUME NEW n \in 0..N - 1, n \in S PROVE n + 1 \in S
  <2>1. PICK f \in [SUBSET (1..n) -> V] : Folding(n, b, G, f)
    BY <1>2
  <2> DEFINE g == [s \in SUBSET (1..n + 1) |->
                      IF n + 1 \in s THEN G[n + 1][f[s \ {n + 1}]] ELSE f[s]]
  <2>2. ASSUME NEW s \in SUBSET (1..n + 1)
        PROVE  /\ n + 1 \in s => Max(s) = n + 1 /\ s \ {n + 1} \in SUBSET (1..n)
               /\ n + 1 \notin s => s \in SUBSET (1..n)
    <3>1. n + 1 \in s => Max(s) = n + 1
      <4>1. n + 1 \in Nat /\ s \subseteq 1..n + 1
        OBVIOUS
      <4> QED
        BY <4>1, MaxOfUpTo
    <3>2. \A x \in 1..n + 1 : x # n + 1 => x \in 1..n
      OBVIOUS
    <3> QED
      BY <3>1, <3>2
  <2>3. g \in [SUBSET (1..n + 1) -> V]
    <3> SUFFICES ASSUME NEW s \in SUBSET (1..n + 1)
                 PROVE  (IF n + 1 \in s THEN G[n + 1][f[s \ {n + 1}]] ELSE f[s]) \in V
      OBVIOUS
    <3>0. n + 1 \in 1..N
      OBVIOUS
    <3> QED
      BY <2>2, <3>0
  <2>4. ASSUME NEW s \in SUBSET (1..n + 1)
        PROVE  g[s] = IF s = {} THEN b ELSE G[Max(s)][g[s \ {Max(s)}]]
    <3>1. CASE n + 1 \in s
      <4>1. Max(s) = n + 1 /\ s \ {n + 1} \in SUBSET (1..n + 1) /\ n + 1 \notin s \ {n + 1}
        BY <2>2, <3>1
      <4>2. g[s \ {n + 1}] = f[s \ {n + 1}]
        BY <4>1
      <4> QED
        BY <3>1, <4>1, <4>2
    <3>2. CASE n + 1 \notin s
      <4>1. g[s] = f[s] /\ s \in SUBSET (1..n)
        BY <2>2, <3>2
      <4>2. ASSUME s # {} PROVE g[s \ {Max(s)}] = f[s \ {Max(s)}]
        <5>1. s \ {Max(s)} \in SUBSET (1..n + 1) /\ n + 1 \notin s \ {Max(s)}
          BY <3>2
        <5> QED
          BY <5>1
      <4> HIDE DEF g
      <4> QED
        BY <2>1, <4>1, <4>2 DEF Folding
    <3> QED
      BY <3>1, <3>2
  <2> HIDE DEF g
  <2>5. Folding(n + 1, b, G, g)
    BY <2>4 DEF Folding
  <2>6. n + 1 \in 0..N
    OBVIOUS
  <2> QED
    BY <2>3, <2>5, <2>6
<1> HIDE DEF S
<1>3. N \in S
  <2>1. \A n \in 0..N - 1 : n \in S => n + 1 \in S
    BY <1>2
  <2>2. \A n \in 0..N : n \in S
    BY <1>1, <2>1, UpTo
  <2> QED
    BY <2>2
<1> QED
  BY <1>3 DEF S

\* it does so as far as its values are in V.
FoldingIn(N, V, b, G, it) ==
    /\ it[{}] = b
    /\ \A s \in SUBSET (1..N) : s # {} /\ it[s \ {Max(s)}] \in V =>
          it[s] = G[Max(s)][it[s \ {Max(s)}]]

\* Its value is that of the recursion along the numbers.
LEMMA FoldSteps ==
  ASSUME NEW N \in Nat, NEW V, NEW b \in V, NEW G \in [1..N -> [V -> V]], NEW it,
         FoldingIn(N, V, b, G, it)
  PROVE  \E h \in [0..N -> V] :
            Recursion(N, b, G, h) /\ it[1..N] = h[N]
<1>1. PICK h \in [0..N -> V] : Recursion(N, b, G, h)
  BY RecursionExists
<1> DEFINE S == {n \in 0..N : it[1..n] = h[n]}
<1>2. 0 \in S
  <2>1. 1..0 = {}
    OBVIOUS
  <2> QED
    BY <1>1, <2>1 DEF Recursion, FoldingIn
<1>3. ASSUME NEW n \in 0..N - 1, n \in S PROVE n + 1 \in S
  <2> DEFINE s == 1..n + 1
  <2>1. s \in SUBSET (1..N) /\ n + 1 \in s /\ s \ {n + 1} = 1..n
    OBVIOUS
  <2>2. Max(s) = n + 1
    BY <2>1, MaxOfUpTo
  <2>3. it[s \ {Max(s)}] = h[n] /\ h[n] \in V
    BY <1>3, <2>1, <2>2
  <2>4. n + 1 \in 1..N /\ n + 1 - 1 = n /\ n + 1 \in 0..N
    OBVIOUS
  <2>5. h[n + 1] = G[n + 1][h[n]]
    BY <1>1, <2>4 DEF Recursion
  <2> HIDE DEF s
  <2>6. it[s] = G[n + 1][h[n]]
    BY <2>1, <2>2, <2>3 DEF FoldingIn
  <2> QED
    BY <2>4, <2>5, <2>6 DEF s
<1> HIDE DEF S
<1>4. N \in S
  <2>1. \A n \in 0..N - 1 : n \in S => n + 1 \in S
    BY <1>3
  <2>2. \A n \in 0..N : n \in S
    BY <1>2, <2>1, UpTo
  <2> QED
    BY <2>2
<1> QED
  BY <1>1, <1>4 DEF S

-----------------------------------------------------------------------------
(* A list of lists in one                                                  *)

\* Where each of the lists ends.
Ends(lists, at) ==
    /\ at \in [0..Len(lists) -> Nat] /\ at[0] = 0
    /\ \A i \in 1..Len(lists) : at[i] = at[i - 1] + Len(lists[i])

\* A list joined from the first n lists.
JoinedTo(lists, at, n, list) ==
    /\ Sequence(list) /\ Len(list) = at[n]
    /\ \A i \in 1..n : \A j \in 1..Len(lists[i]) :
          at[i - 1] + j \in 1..at[n] /\ list[at[i - 1] + j] = lists[i][j]

\* The ends of lists exist, and follow from the lengths.
LEMMA EndsExist ==
  ASSUME NEW lists, Sequence(lists), \A i \in 1..Len(lists) : Len(lists[i]) \in Nat
  PROVE  \E at : Ends(lists, at)
<1> DEFINE n == Len(lists)
           G == [m \in 1..n |-> [v \in Nat |-> v + Len(lists[m])]]
<1>1. n \in Nat
  BY AppendSequence
<1>2. G \in [1..n -> [Nat -> Nat]]
  OBVIOUS
<1>3. \A m \in 1..n : \A v \in Nat : G[m][v] = v + Len(lists[m])
  OBVIOUS
<1> HIDE DEF G
<1>4. PICK at \in [0..n -> Nat] : Recursion(n, 0, G, at)
  BY <1>1, <1>2, RecursionExists
<1>5. ASSUME NEW i \in 1..n PROVE at[i] = at[i - 1] + Len(lists[i])
  <2>1. i - 1 \in 0..n /\ at[i - 1] \in Nat
    BY <1>1
  <2> QED
    BY <1>3, <1>4, <2>1 DEF Recursion
<1> QED
  BY <1>4, <1>5 DEF Ends, Recursion

\* Lists as long as others end where those end.
LEMMA SameEnds ==
  ASSUME NEW lists, NEW others, NEW at, NEW to, Ends(lists, at), Ends(others, to),
         Len(lists) \in Nat, Len(others) = Len(lists),
         \A i \in 1..Len(lists) : Len(others[i]) = Len(lists[i])
  PROVE  \A n \in 0..Len(lists) : to[n] = at[n]
<1> DEFINE S == {n \in 0..Len(lists) : to[n] = at[n]}
<1>1. 0 \in S
  BY DEF Ends
<1>2. \A n \in 0..Len(lists) - 1 : n \in S => n + 1 \in S
  <2> TAKE n \in 0..Len(lists) - 1
  <2> HAVE n \in S
  <2>1. n + 1 \in 1..Len(lists) /\ n + 1 - 1 = n /\ n + 1 \in 0..Len(lists)
    OBVIOUS
  <2> QED
    BY <2>1 DEF Ends
<1> HIDE DEF S
<1>3. \A n \in 0..Len(lists) : n \in S
  BY <1>1, <1>2, UpTo
<1> QED
  BY <1>3 DEF S

\* One more list is joined.
LEMMA JoinsNext ==
  ASSUME NEW lists, NEW at, Ends(lists, at), NEW n \in Nat, n < Len(lists),
         Len(lists) \in Nat, Sequence(lists[n + 1]),
         NEW list, JoinedTo(lists, at, n, list)
  PROVE  JoinedTo(lists, at, n + 1, list \o lists[n + 1])
<1> DEFINE more == lists[n + 1]
           all == list \o more
<1>0. n \in 0..Len(lists) /\ n + 1 \in 1..Len(lists) /\ n + 1 - 1 = n
  OBVIOUS
<1>1. at[n] \in Nat /\ at[n + 1] = at[n] + Len(more) /\ Len(more) \in Nat
  BY <1>0, AppendSequence DEF Ends
<1>2. /\ Sequence(all) /\ Len(all) = Len(list) + Len(more)
      /\ \A m \in 1..Len(list) : all[m] = list[m]
      /\ \A m \in 1..Len(more) : all[Len(list) + m] = more[m]
  <2>1. Sequence(list) /\ Sequence(more)
    BY DEF JoinedTo
  <2> HIDE DEF more
  <2> QED
    BY <2>1, Concatenated
<1>3. Len(list) = at[n]
  BY DEF JoinedTo
<1> HIDE DEF all
<1>4. ASSUME NEW i \in 1..n + 1, NEW j \in 1..Len(lists[i])
      PROVE  at[i - 1] + j \in 1..at[n + 1] /\ all[at[i - 1] + j] = lists[i][j]
  <2>1. CASE i = n + 1
    <3>1. at[i - 1] + j = Len(list) + j /\ j \in 1..Len(more)
      BY <1>0, <1>3, <2>1
    <3>2. at[i - 1] + j \in 1..at[n + 1]
      BY <1>1, <1>3, <3>1
    <3> QED
      BY <1>2, <2>1, <3>1, <3>2
  <2>2. CASE i # n + 1
    <3>1. i \in 1..n
      BY <2>2
    <3>2. at[i - 1] + j \in 1..at[n] /\ list[at[i - 1] + j] = lists[i][j]
      BY <3>1 DEF JoinedTo
    <3> QED
      BY <1>1, <1>2, <1>3, <3>2, SMTT(30)
  <2> QED
    BY <2>1, <2>2
<1> QED
  BY <1>1, <1>2, <1>3, <1>4 DEF JoinedTo, all

\* FlattenSeq joins all of them.
LEMMA Flattened ==
  ASSUME NEW lists, Sequence(lists), \A i \in 1..Len(lists) : Sequence(lists[i]),
         NEW at, Ends(lists, at)
  PROVE  JoinedTo(lists, at, Len(lists), FlattenSeq(lists))
<1> DEFINE N == Len(lists)
<1>0. N \in Nat
  BY AppendSequence
<1>1. CASE N = 0
  <2>1. FlattenSeq(lists) = lists
    BY <1>1 DEF FlattenSeq
  <2>2. at[0] = 0
    BY DEF Ends
  <2> QED
    BY <1>1, <2>1, <2>2 DEF JoinedTo
<1>2. CASE N # 0
  <2> DEFINE E == UNION {{lists[i][j] : j \in 1..Len(lists[i])} : i \in 1..N}
             V == Seq(E)
             G == [m \in 1..N |-> [v \in V |-> IF m = 1 THEN lists[m] ELSE v \o lists[m]]]
  <2>1. ASSUME NEW i \in 1..N PROVE lists[i] \in V
    <3> DEFINE s == lists[i]
    <3>1. /\ Len(s) \in Nat /\ DOMAIN s = 1..Len(s)
          /\ s \in Seq({s[j] : j \in DOMAIN s})
      BY AppendSequence DEF Sequence
    <3>2. {s[j] : j \in DOMAIN s} \subseteq E
      BY <3>1
    <3> HIDE DEF E, s
    <3>3. s \in Seq(E)
      BY <3>1, <3>2, SeqMonotone
    <3> QED
      BY <3>3 DEF s
  <2> HIDE DEF E
  <2>2. <<>> \in V
    OBVIOUS
  <2>3. G \in [1..N -> [V -> V]]
    BY <2>1
  <2>4. \A m \in 1..N : \A v \in V : G[m][v] = IF m = 1 THEN lists[m] ELSE v \o lists[m]
    OBVIOUS
  <2> HIDE DEF G, V
  <2>5. PICK f \in [0..N -> V] : Recursion(N, <<>>, G, f)
    BY <1>0, <2>2, <2>3, RecursionExists
  <2> DEFINE g == [i \in 1..N |-> f[i]]
             it == CHOOSE h : h = [i \in 1..N |-> IF i = 1 THEN lists[i]
                                                  ELSE h[i - 1] \o lists[i]]
  <2>6. g = [i \in 1..N |-> IF i = 1 THEN lists[i] ELSE g[i - 1] \o lists[i]]
    <3>1. ASSUME NEW i \in 1..N
          PROVE  f[i] = IF i = 1 THEN lists[i] ELSE g[i - 1] \o lists[i]
      <4>1. i - 1 \in 0..N /\ f[i] = G[i][f[i - 1]] /\ f[i - 1] \in V
        BY <1>0, <2>5, SMTT(30) DEF Recursion
      <4>2. i # 1 => g[i - 1] = f[i - 1]
        BY <1>0
      <4> QED
        BY <2>4, <4>1, <4>2
    <3> QED
      BY <3>1
  <2> HIDE DEF g
  <2>7. it = [i \in 1..N |-> IF i = 1 THEN lists[i] ELSE it[i - 1] \o lists[i]]
    BY <2>6
  <2>8. FlattenSeq(lists) = it[N]
    BY <1>2 DEF FlattenSeq
  <2> HIDE DEF it
  <2>15. ASSUME NEW i \in 1..N
         PROVE  it[i] = IF i = 1 THEN lists[i] ELSE it[i - 1] \o lists[i]
    BY <2>7, Zenon
  <2>9. JoinedTo(lists, at, 1, it[1])
    <3>1. it[1] = lists[1] /\ 1 \in 1..N
      BY <1>0, <1>2, <2>7
    <3>2. at[1 - 1] = 0 /\ at[1] = Len(lists[1]) /\ Len(lists[1]) \in Nat
      BY <3>1, AppendSequence DEF Ends
    <3> QED
      BY <3>1, <3>2 DEF JoinedTo
  <2> DEFINE S == {n \in 0..N - 1 : JoinedTo(lists, at, n + 1, it[n + 1])}
  <2>10. 0 \in S
    BY <1>0, <1>2, <2>9
  <2>11. \A n \in 0..N - 1 - 1 : n \in S => n + 1 \in S
    <3> TAKE n \in 0..N - 1 - 1
    <3> HAVE n \in S
    <3>1. /\ n + 1 \in Nat /\ n + 1 < Len(lists) /\ n + 1 \in 0..N - 1 /\ n + 2 \in 1..N
          /\ n + 1 + 1 = n + 2 /\ n + 2 - 1 = n + 1 /\ n + 2 # 1
      BY <1>0
    <3>2. it[n + 2] = it[n + 1] \o lists[n + 2]
      <4> DEFINE k == n + 2
      <4>1. k \in 1..N /\ k # 1 /\ k - 1 = n + 1
        BY <3>1
      <4> HIDE DEF k
      <4>2. it[k] = it[k - 1] \o lists[k]
        BY <2>15, <4>1
      <4> QED
        BY <4>1, <4>2 DEF k
    <3>3. JoinedTo(lists, at, n + 1, it[n + 1])
      OBVIOUS
    <3>4. JoinedTo(lists, at, n + 1 + 1, it[n + 1] \o lists[n + 1 + 1])
      BY <1>0, <3>1, <3>3, JoinsNext
    <3> QED
      BY <3>1, <3>2, <3>4
  <2> HIDE DEF S
  <2>12. \A n \in 0..N - 1 : n \in S
    <3>1. N - 1 \in Nat
      BY <1>0, <1>2
    <3> QED
      BY <2>10, <2>11, <3>1, UpTo
  <2>13. N - 1 \in 0..N - 1 /\ N - 1 + 1 = N
    BY <1>0, <1>2
  <2>14. JoinedTo(lists, at, N, it[N])
    BY <2>12, <2>13 DEF S
  <2> QED
    BY <2>8, <2>14
<1> QED
  BY <1>1, <1>2

\* Each element is one of one of the lists.
LEMMA JoinedFrom ==
  ASSUME NEW lists, NEW at, Ends(lists, at), Len(lists) \in Nat,
         \A i \in 1..Len(lists) : Len(lists[i]) \in Nat,
         NEW m \in 1..at[Len(lists)]
  PROVE  \E i \in 1..Len(lists) : \E j \in 1..Len(lists[i]) : m = at[i - 1] + j
<1> DEFINE N == Len(lists)
           S == {n \in 0..N : m <= at[n] =>
                    \E i \in 1..N : \E j \in 1..Len(lists[i]) : m = at[i - 1] + j}
<1>0. \A n \in 0..N : at[n] \in Nat
  BY DEF Ends
<1>1. m \in Nat \ {0} /\ m <= at[N]
  BY <1>0
<1>2. 0 \in S
  BY <1>1 DEF Ends
<1>3. \A n \in 0..N - 1 : n \in S => n + 1 \in S
  <2> TAKE n \in 0..N - 1
  <2> HAVE n \in S
  <2>1. n + 1 \in 1..N /\ n + 1 - 1 = n /\ n + 1 \in 0..N /\ n \in 0..N
    OBVIOUS
  <2>2. at[n + 1] = at[n] + Len(lists[n + 1]) /\ at[n] \in Nat /\ Len(lists[n + 1]) \in Nat
    BY <1>0, <2>1 DEF Ends
  <2>3. ASSUME m > at[n], m <= at[n + 1]
        PROVE  \E i \in 1..N : \E j \in 1..Len(lists[i]) : m = at[i - 1] + j
    <3>1. m - at[n] \in 1..Len(lists[n + 1]) /\ m = at[n + 1 - 1] + (m - at[n])
      BY <1>1, <2>1, <2>2, <2>3
    <3> QED
      BY <2>1, <3>1
  <2> QED
    BY <1>0, <1>1, <2>1, <2>3
<1> HIDE DEF S
<1>4. \A n \in 0..N : n \in S
  BY <1>2, <1>3, UpTo
<1> QED
  BY <1>1, <1>4 DEF S

-----------------------------------------------------------------------------
(* Finite sets of integers                                                 *)

\* The elements of a nonempty finite set as a list.
LEMMA Listed ==
  ASSUME NEW S, IsFiniteSet(S), S # {}
  PROVE  \E n \in Nat \ {0} : \E f \in [1..n -> S] : \A x \in S : \E i \in 1..n : f[i] = x
<1>1. Cardinality(S) \in Nat /\ ExistsBijection(1..Cardinality(S), S)
  BY FS_CardinalityType
<1>2. Cardinality(S) # 0
  BY FS_EmptySet
<1>3. PICK f : f \in Bijection(1..Cardinality(S), S)
  BY <1>1 DEF ExistsBijection
<1>4. f \in [1..Cardinality(S) -> S] /\ \A x \in S : \E i \in 1..Cardinality(S) : f[i] = x
  BY <1>3 DEF Bijection, Surjection
<1> QED
  BY <1>1, <1>2, <1>4

\* A nonempty finite set of integers has a smallest one and a largest one.
LEMMA MinOfFinite ==
  ASSUME NEW S, IsFiniteSet(S), S # {}, S \subseteq Int
  PROVE  Min(S) \in S /\ \A y \in S : Min(S) <= y
<1>0. PICK n \in Nat \ {0} : \E f \in [1..n -> S] : \A x \in S : \E i \in 1..n : f[i] = x
  BY Listed
<1>1. PICK f \in [1..n -> S] : \A x \in S : \E i \in 1..n : f[i] = x
  BY <1>0
<1>2. Sequence(f) /\ Len(f) = n
  <2>1. f = [j \in 1..n |-> f[j]]
    OBVIOUS
  <2> QED
    BY <2>1, MadeSequence
<1>3. PICK i \in 1..n : \A j \in 1..n : f[i] <= f[j]
  <2>0. n > 0 /\ \A j \in 1..n : f[j] \in Int
    <3>1. \A j \in 1..n : f[j] \in S
      OBVIOUS
    <3>2. n > 0
      OBVIOUS
    <3> QED
      BY ONLY <3>1, <3>2, S \subseteq Int
  <2>1. Len(f) > 0 /\ \A j \in 1..Len(f) : f[j] \in Int
    BY ONLY <1>2, <2>0
  <2>2. \E i \in 1..Len(f) : \A j \in 1..Len(f) : f[i] <= f[j]
    BY <1>2, <2>1, SmallestElement
  <2> QED
    BY <1>2, <2>2
<1>4. f[i] \in S /\ \A y \in S : f[i] <= y
  BY <1>1, <1>3
<1> QED
  BY <1>4 DEF Min

\* The largest one is the maximum.
LEMMA MaxOfFinite ==
  ASSUME NEW S, IsFiniteSet(S), S # {}, S \subseteq Int
  PROVE  Max(S) \in S /\ \A y \in S : Max(S) >= y
<1>0. PICK n \in Nat \ {0} : \E f \in [1..n -> S] : \A x \in S : \E i \in 1..n : f[i] = x
  BY Listed
<1>1. PICK f \in [1..n -> S] : \A x \in S : \E i \in 1..n : f[i] = x
  BY <1>0
<1> DEFINE g == [j \in 1..n |-> 0 - f[j]]
<1>2. g = [j \in 1..n |-> g[j]] /\ \A j \in 1..n : g[j] = 0 - f[j] /\ f[j] \in Int
  OBVIOUS
<1> HIDE DEF g
<1>3. Sequence(g) /\ Len(g) = n
  BY <1>2, MadeSequence
<1>4. PICK i \in 1..n : \A j \in 1..n : g[i] <= g[j]
  <2>1. Len(g) > 0 /\ \A j \in 1..Len(g) : g[j] \in Int
    BY <1>2, <1>3
  <2>2. \E i \in 1..Len(g) : \A j \in 1..Len(g) : g[i] <= g[j]
    BY <1>3, <2>1, SmallestElement
  <2> QED
    BY <1>3, <2>2
<1>5. \A j \in 1..n : f[i] >= f[j]
  BY <1>2, <1>4
<1>6. f[i] \in S /\ \A y \in S : f[i] >= y
  BY <1>1, <1>5
<1> QED
  BY <1>6 DEF Max

\* The elements of a sequence are finitely many.
LEMMA FiniteElements ==
  ASSUME NEW s, Sequence(s)
  PROVE  IsFiniteSet({s[n] : n \in DOMAIN s})
<1> DEFINE R == {s[n] : n \in DOMAIN s}
<1>1. Len(s) \in Nat /\ DOMAIN s = 1..Len(s) /\ s = [n \in 1..Len(s) |-> s[n]]
  <2>1. Len(s) \in Nat /\ DOMAIN s = 1..Len(s)
    BY AppendSequence
  <2>2. s \in Seq(R)
    BY DEF Sequence
  <2> HIDE DEF R
  <2> QED
    BY <2>1, <2>2
<1>2. IsFiniteSet(DOMAIN s)
  BY <1>1, FS_Interval
<1>3. s \in Surjection(DOMAIN s, R)
  <2>1. \A n \in DOMAIN s : s[n] \in R
    OBVIOUS
  <2>2. \A x \in R : \E n \in DOMAIN s : s[n] = x
    OBVIOUS
  <2> HIDE DEF R
  <2>3. s \in [DOMAIN s -> R]
    BY <1>1, <2>1
  <2> QED
    BY <2>2, <2>3 DEF Surjection
<1> QED
  BY <1>2, <1>3, FS_Surjection

\* Fewer elements, all of them among the others.
LEMMA FewerElements ==
  ASSUME NEW S, IsFiniteSet(S), NEW T, T \subseteq S, NEW x \in S, x \notin T
  PROVE  Cardinality(T) \in Nat /\ Cardinality(S) \in Nat /\ Cardinality(T) < Cardinality(S)
<1>1. IsFiniteSet(T) /\ Cardinality(T) <= Cardinality(S) /\ Cardinality(T) # Cardinality(S)
  BY FS_Subset
<1> QED
  BY <1>1, FS_CardinalityType

-----------------------------------------------------------------------------
(* Division, and numbers written place by place                            *)

\* A factor keeps an order.
LEMMA Larger ==
  ASSUME NEW b \in Nat, NEW x \in Nat, NEW y \in Nat, x <= y
  PROVE  b * x <= b * y /\ b * x \in Nat /\ b * y \in Nat
<1>1. PICK d \in Nat : y = x + d
  <2>1. y - x \in Nat /\ y = x + (y - x)
    OBVIOUS
  <2> QED
    BY <2>1
<1>2. b * y = b * x + b * d /\ b * d \in Nat /\ b * x \in Nat
  BY <1>1
<1> QED
  BY <1>2

\* A number, its quotient and its remainder.
LEMMA Division ==
  ASSUME NEW a \in Nat, NEW b \in Nat \ {0}
  PROVE  /\ a \div b \in Nat /\ a % b \in 0..b - 1
         /\ a = b * (a \div b) + (a % b)
OBVIOUS

\* They are the only ones.
LEMMA Quotient ==
  ASSUME NEW a \in Nat, NEW b \in Nat \ {0}, NEW q \in Nat, NEW r \in 0..b - 1, a = b * q + r
  PROVE  a \div b = q /\ a % b = r
<1> DEFINE p == a \div b
           s == a % b
<1>1. p \in Nat /\ s \in 0..b - 1 /\ a = b * p + s
  BY Division
<1> HIDE DEF p, s
<1>2. ASSUME NEW x \in Nat, NEW y \in Nat, x + 1 <= y PROVE b * x + b <= b * y
  <2>1. b * (x + 1) <= b * y /\ x + 1 \in Nat
    BY <1>2, Larger
  <2>2. b * (x + 1) = b * x + b
    OBVIOUS
  <2> QED
    BY <2>1, <2>2
<1>3. b * p \in Nat /\ b * q \in Nat
  BY <1>1
<1>4. ~(p + 1 <= q)
  BY <1>1, <1>2, <1>3
<1>5. ~(q + 1 <= p)
  BY <1>1, <1>2, <1>3
<1>6. p = q
  BY <1>1, <1>4, <1>5
<1>7. s = r
  BY <1>1, <1>3, <1>6
<1> QED
  BY <1>6, <1>7 DEF p, s

\* To divide by a product is to divide twice.
LEMMA DivisionTwice ==
  ASSUME NEW a \in Nat, NEW b \in Nat \ {0}, NEW c \in Nat \ {0}
  PROVE  c * b \in Nat \ {0} /\ a \div (c * b) = (a \div b) \div c
<1> DEFINE q == a \div b
           r == a % b
           p == q \div c
           s == q % c
<1>1. q \in Nat /\ r \in 0..b - 1 /\ a = b * q + r
  BY Division
<1> HIDE DEF q, r
<1>2. p \in Nat /\ s \in 0..c - 1 /\ q = c * p + s
  BY <1>1, Division
<1> HIDE DEF p, s
<1>3. c * b \in Nat \ {0} /\ b * s \in Nat
  BY <1>2
<1>4. a = (c * b) * p + (b * s + r)
  <2>1. b * (c * p + s) = (c * b) * p + b * s
    BY <1>2
  <2> QED
    BY <1>1, <1>2, <1>3, <2>1
<1>5. b * s + r \in 0..c * b - 1
  <2>1. b * s <= b * (c - 1)
    BY <1>2, Larger
  <2>2. b * (c - 1) = c * b - b
    OBVIOUS
  <2> QED
    BY <1>1, <1>3, <2>1, <2>2
<1>6. a \div (c * b) = p
  <2> DEFINE d == c * b
             t == b * s + r
  <2>1. d \in Nat \ {0} /\ t \in 0..d - 1 /\ a = d * p + t
    BY <1>3, <1>4, <1>5
  <2> HIDE DEF d, t
  <2>2. a \div d = p
    BY <1>2, <2>1, Quotient
  <2> QED
    BY <2>2 DEF d
<1> QED
  BY <1>3, <1>6 DEF p, q

\* Numbers written with a base for each place: the weights of the places, the
\* first the number of numbers.
Weights(N, P, L) ==
    /\ P[N] = 1 /\ \A i \in 0..N : P[i] \in Nat
    /\ \A i \in 1..N : L[i] \in Nat \ {0} /\ P[i - 1] = L[i] * P[i]
WrittenAs(m, N, P, L, d) == \A i \in 1..N : (m \div P[i]) % L[i] = d[i]

\* Every weight counts something.
LEMMA WeightsPositive ==
  ASSUME NEW N \in Nat, NEW P, NEW L, Weights(N, P, L)
  PROVE  \A i \in 0..N : P[i] \in Nat \ {0}
<1> DEFINE S == {j \in 0..N : P[N - j] # 0}
<1>1. 0 \in S
  BY DEF Weights
<1>2. \A j \in 0..N - 1 : j \in S => j + 1 \in S
  <2> TAKE j \in 0..N - 1
  <2> HAVE j \in S
  <2> DEFINE i == N - j
  <2>1. i \in 1..N /\ i - 1 \in 0..N /\ i \in 0..N /\ N - (j + 1) = i - 1 /\ j + 1 \in 0..N
    OBVIOUS
  <2>2. P[i] # 0
    OBVIOUS
  <2> HIDE DEF i
  <2>3. P[i - 1] = L[i] * P[i] /\ L[i] \in Nat \ {0} /\ P[i] \in Nat
    BY <2>1 DEF Weights
  <2>4. P[i - 1] # 0
    BY <2>2, <2>3
  <2> QED
    BY <2>1, <2>4
<1> HIDE DEF S
<1>3. \A j \in 0..N : j \in S
  BY <1>1, <1>2, UpTo
<1> TAKE i \in 0..N
<1>4. N - i \in 0..N /\ N - (N - i) = i
  OBVIOUS
<1>5. P[i] # 0
  <2>1. N - i \in S
    BY <1>3, <1>4
  <2> QED
    BY <1>4, <2>1 DEF S
<1> QED
  BY <1>5 DEF Weights

\* A number is written in one way, and every way writes a number.
LEMMA WrittenOnce ==
  ASSUME NEW N \in Nat, NEW P, NEW L, NEW d, Weights(N, P, L),
         \A i \in 1..N : d[i] \in 0..L[i] - 1
  PROVE  \E u \in 0..P[0] - 1 : \A m \in 0..P[0] - 1 : WrittenAs(m, N, P, L, d) <=> m = u
<1> DEFINE G == [i \in 1..N |-> [v \in Nat |-> L[i] * v + d[i]]]
<1>1. \A i \in 0..N : P[i] \in Nat \ {0}
  BY WeightsPositive
<1>2. \A i \in 1..N : L[i] \in Nat \ {0} /\ d[i] \in Nat /\ P[i - 1] = L[i] * P[i]
  BY DEF Weights
<1>3. \A i \in 1..N : \A v \in Nat : L[i] * v + d[i] \in Nat /\ G[i][v] = L[i] * v + d[i]
  BY <1>2
<1>4. G \in [1..N -> [Nat -> Nat]]
  BY <1>3
<1> HIDE DEF G
<1>5. PICK u \in [0..N -> Nat] : Recursion(N, 0, G, u)
  <2>1. 0 \in Nat
    OBVIOUS
  <2> QED
    BY <1>4, <2>1, RecursionExists
<1>6. ASSUME NEW i \in 1..N
      PROVE  /\ u[i - 1] \in Nat /\ u[i] \in Nat /\ u[i] = L[i] * u[i - 1] + d[i]
             /\ u[i] \div L[i] = u[i - 1] /\ u[i] % L[i] = d[i]
  <2>1. i - 1 \in 0..N /\ i \in 0..N
    OBVIOUS
  <2>2. u[i - 1] \in Nat /\ u[i] \in Nat /\ u[i] = G[i][u[i - 1]]
    BY <1>5, <2>1 DEF Recursion
  <2>3. u[i] = L[i] * u[i - 1] + d[i]
    BY <1>3, <2>2
  <2>4. L[i] \in Nat \ {0} /\ d[i] \in 0..L[i] - 1
    BY <1>2
  <2>5. u[i] \div L[i] = u[i - 1] /\ u[i] % L[i] = d[i]
    <3> DEFINE a == u[i]
               b == L[i]
               q == u[i - 1]
               r == d[i]
    <3>1. a \in Nat /\ b \in Nat \ {0} /\ q \in Nat /\ r \in 0..b - 1 /\ a = b * q + r
      BY <2>2, <2>3, <2>4
    <3> HIDE DEF a, b, q, r
    <3>2. a \div b = q /\ a % b = r
      BY ONLY <3>1, Quotient
    <3> QED
      BY <3>2 DEF a, b, q, r
  <2> QED
    BY <2>2, <2>3, <2>5
<1>7. u[0] = 0 /\ u[N] \in Nat
  BY <1>5 DEF Recursion
<1>8. ASSUME NEW m \in Nat, NEW i \in 1..N PROVE m \div P[i - 1] = (m \div P[i]) \div L[i]
  <2>1. P[i] \in Nat \ {0} /\ L[i] \in Nat \ {0} /\ P[i - 1] = L[i] * P[i]
    BY <1>1, <1>2
  <2> QED
    BY <2>1, DivisionTwice, SMTT(30)
<1> DEFINE S == {j \in 0..N : u[N] \div P[N - j] = u[N - j]}
<1>9. 0 \in S
  <2>1. P[N] = 1 /\ N - 0 = N
    BY DEF Weights
  <2> QED
    BY <1>7, <2>1
<1>10. \A j \in 0..N - 1 : j \in S => j + 1 \in S
  <2> TAKE j \in 0..N - 1
  <2> HAVE j \in S
  <2> DEFINE i == N - j
  <2>1. i \in 1..N /\ i - 1 \in 0..N /\ N - (j + 1) = i - 1 /\ j + 1 \in 0..N
    OBVIOUS
  <2>2. u[N] \div P[i] = u[i]
    OBVIOUS
  <2> HIDE DEF i
  <2>3. u[N] \div P[i - 1] = u[i - 1]
    BY <1>6, <1>7, <1>8, <2>1, <2>2
  <2> QED
    BY <2>1, <2>3
<1> HIDE DEF S
<1>11. \A j \in 0..N : j \in S
  BY <1>9, <1>10, UpTo
<1>12. ASSUME NEW i \in 0..N PROVE u[N] \div P[i] = u[i]
  <2>1. N - i \in 0..N /\ N - (N - i) = i
    OBVIOUS
  <2>2. N - i \in S
    BY <1>11, <2>1
  <2> QED
    BY <2>1, <2>2 DEF S
<1>13. u[N] \in 0..P[0] - 1
  <2> DEFINE b == P[0]
  <2>1. b \in Nat \ {0} /\ u[N] \div b = 0
    BY <1>1, <1>7, <1>12
  <2> HIDE DEF b
  <2>2. u[N] % b \in 0..b - 1 /\ u[N] = b * (u[N] \div b) + (u[N] % b)
    BY <1>7, <2>1, Division
  <2> QED
    BY <1>7, <2>1, <2>2 DEF b
<1>14. WrittenAs(u[N], N, P, L, d)
  <2> SUFFICES ASSUME NEW i \in 1..N PROVE (u[N] \div P[i]) % L[i] = d[i]
    BY DEF WrittenAs
  <2>1. u[N] \div P[i] = u[i]
    BY <1>12
  <2> QED
    BY <1>6, <2>1
<1>15. ASSUME NEW m \in 0..P[0] - 1, WrittenAs(m, N, P, L, d) PROVE m = u[N]
  <2> DEFINE T == {i \in 0..N : m \div P[i] = u[i]}
  <2>0. m \in Nat
    BY <1>1
  <2>1. 0 \in T
    <3> DEFINE b == P[0]
    <3>1. b \in Nat \ {0} /\ m \in 0..b - 1
      BY <1>1
    <3> HIDE DEF b
    <3>2. m = b * 0 + m /\ 0 \in Nat
      BY <3>1
    <3>3. m \div b = 0
      BY <2>0, <3>1, <3>2, Quotient
    <3> QED
      BY <1>7, <3>3 DEF b
  <2>2. \A n \in 0..N - 1 : n \in T => n + 1 \in T
    <3> TAKE n \in 0..N - 1
    <3> HAVE n \in T
    <3> DEFINE i == n + 1
    <3>1. i \in 1..N /\ i - 1 = n /\ i \in 0..N /\ n + 1 = i
      OBVIOUS
    <3>2. m \div P[n] = u[n]
      OBVIOUS
    <3> HIDE DEF i, T
    <3> DEFINE a == m \div P[i]
    <3>3. a \in Nat
      BY <1>1, <2>0, <3>1, Division
    <3>4. a \div L[i] = u[i - 1] /\ a % L[i] = d[i]
      BY <1>8, <1>15, <2>0, <3>1, <3>2 DEF WrittenAs
    <3> HIDE DEF a
    <3>5. a = L[i] * (a \div L[i]) + (a % L[i])
      BY <1>2, <3>1, <3>3, Division
    <3>6. a = u[i]
      BY <1>6, <3>1, <3>4, <3>5
    <3>7. i \in T
      BY <3>1, <3>6 DEF a, T
    <3> QED
      BY <3>1, <3>7
  <2> HIDE DEF T
  <2>3. \A n \in 0..N : n \in T
    BY <2>1, <2>2, UpTo
  <2>4. m \div P[N] = u[N]
    BY <2>3 DEF T
  <2>5. P[N] = 1
    BY DEF Weights
  <2> QED
    BY <2>0, <2>4, <2>5
<1> QED
  BY <1>13, <1>14, <1>15

\* An image of a finite set is finite.
LEMMA FiniteImage ==
  ASSUME NEW S, IsFiniteSet(S), NEW f, DOMAIN f = S
  PROVE  IsFiniteSet({f[x] : x \in S})
<1> DEFINE R == {f[x] : x \in S}
           g == [x \in S |-> f[x]]
<1>1. g \in [S -> R] /\ \A y \in R : \E x \in S : g[x] = y
  OBVIOUS
<1>2. g \in Surjection(S, R)
  BY <1>1 DEF Surjection
<1> HIDE DEF R, g
<1>3. IsFiniteSet(R)
  BY <1>2, FS_Surjection
<1> QED
  BY <1>3 DEF R
=============================================================================
