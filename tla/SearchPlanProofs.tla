-------------------------- MODULE SearchPlanProofs --------------------------
(***************************************************************************)
(* What a search asks for and how it ranks: each engine covers the space   *)
(* it promises with as many evaluations as it announced, and the ranks of  *)
(* traverse and of the feature selection are those of the knobs tried.     *)
(***************************************************************************)
EXTENDS EngineTasksProofs

-----------------------------------------------------------------------------
(* The list of traverse                                                    *)

\* The elements of a list other than d.
Others(tried, d) ==
    FoldLeft(LAMBDA list, v : IF v = d THEN list ELSE Append(list, v), <<>>, tried)

\* None of the others is the value they differ from.
LEMMA OthersDiffer ==
  ASSUME NEW tried, Sequence(tried), NEW d
  PROVE  Sequence(Others(tried, d)) /\ \A j \in 1..Len(Others(tried, d)) : Others(tried, d)[j] # d
<1> DEFINE N == Len(tried)
           it == CHOOSE f : f = [s \in SUBSET (DOMAIN tried) |->
                      IF s = {} THEN <<>>
                      ELSE IF tried[Max(s)] = d THEN f[s \ {Max(s)}]
                           ELSE Append(f[s \ {Max(s)}], tried[Max(s)])]
<1>1. Others(tried, d) = it[DOMAIN tried]
  BY DEF Others, FoldLeft, MapThenFoldSet
<1>2. N \in Nat /\ DOMAIN tried = 1..N
  BY AppendSequence
<1> DEFINE E == {tried[n] : n \in 1..N} \ {d}
           V == Seq(E)
           G == [n \in 1..N |-> [v \in V |-> IF tried[n] = d THEN v ELSE Append(v, tried[n])]]
<1>3. <<>> \in V
  OBVIOUS
<1>4. \A n \in 1..N : tried[n] # d => tried[n] \in E
  OBVIOUS
<1> HIDE DEF E
<1>5. G \in [1..N -> [V -> V]]
  BY <1>4
<1>6. \A n \in 1..N : \A v \in V :
         G[n][v] = IF tried[n] = d THEN v ELSE Append(v, tried[n])
  OBVIOUS
<1> HIDE DEF G, V, N
<1>7. PICK f \in [SUBSET (1..N) -> V] : Folding(N, <<>>, G, f)
  BY <1>2, <1>3, <1>5, FoldExists
<1> DEFINE Next(g, s) == IF s = {} THEN <<>>
                         ELSE IF tried[Max(s)] = d THEN g[s \ {Max(s)}]
                              ELSE Append(g[s \ {Max(s)}], tried[Max(s)])
<1>8. ASSUME NEW s \in SUBSET (1..N), s # {} PROVE Max(s) \in 1..N
  BY <1>2, <1>8, MaxOfSome
<1>9. ASSUME NEW s \in SUBSET (1..N) PROVE f[s] = Next(f, s)
  <2>1. CASE s = {}
    BY <1>7, <2>1 DEF Folding
  <2>2. CASE s # {}
    <3>1. Max(s) \in 1..N /\ f[s] = G[Max(s)][f[s \ {Max(s)}]] /\ f[s \ {Max(s)}] \in V
      BY <1>7, <1>8, <2>2 DEF Folding
    <3> QED
      BY <1>6, <2>2, <3>1
  <2> QED
    BY <2>1, <2>2
<1>10. f = [s \in SUBSET (1..N) |-> Next(f, s)]
  BY <1>9
<1>11. it = [s \in SUBSET (1..N) |-> Next(it, s)]
  BY <1>2, <1>10
<1> HIDE DEF it
<1>12. ASSUME NEW s \in SUBSET (1..N) PROVE it[s] = Next(it, s)
  BY <1>11, Zenon
<1>13. it[{}] = <<>>
  BY <1>12
<1>14. FoldingIn(N, V, <<>>, G, it)
  BY <1>6, <1>8, <1>12, <1>13 DEF FoldingIn
<1>15. PICK h \in [0..N -> V] : Recursion(N, <<>>, G, h) /\ it[1..N] = h[N]
  BY <1>2, <1>3, <1>5, <1>14, FoldSteps
<1>16. Others(tried, d) \in Seq(E)
  BY <1>1, <1>2, <1>15 DEF V
<1>17. Sequence(Others(tried, d)) /\ \A j \in 1..Len(Others(tried, d)) : Others(tried, d)[j] \in E
  BY <1>16, SequenceOf
<1> QED
  BY <1>17 DEF E

\* What is tried of a knob is a list of values other than its default.
LEMMA AlternativesDiffer ==
  ASSUME NEW k, Sequence(k.options)
  PROVE  /\ Sequence(Alternatives(k))
         /\ \A j \in 1..Len(Alternatives(k)) : Alternatives(k)[j] # k.ref
<1> DEFINE high == Max(UNION {{p[1], p[2]} : p \in Pairs(k)})
           low == Min(UNION {{p[1], p[2]} : p \in Pairs(k)})
           tried == IF k.options # <<>> THEN k.options ELSE <<high, low>>
<1>1. Alternatives(k) = Others(tried, k.ref)
  BY DEF Alternatives, Others
<1> HIDE DEF high, low
<1>2. Sequence(<<high, low>>)
  <2> DEFINE u == <<high, low>>
  <2>1. u = [j \in 1..2 |-> u[j]]
    OBVIOUS
  <2> HIDE DEF u
  <2>2. Sequence(u)
    BY <2>1, MadeSequence
  <2> QED
    BY <2>2 DEF u
<1>3. Sequence(tried)
  BY <1>2
<1> HIDE DEF tried
<1> QED
  BY <1>1, <1>3, OthersDiffer

\* The knobs of a task are a list, and so are the options of each.
KnobList(knobs) ==
    Sequence(knobs) /\ \A i \in 1..Len(knobs) : Sequence(knobs[i].options)

\* Setting n of the list is that of a value of a knob.
TraversesAt(knobs, list, owner, n, i, j) ==
    /\ list[n] = [Defaults(knobs) EXCEPT ![i] = Alternatives(knobs[i])[j]]
    /\ owner[n] = i

\* The list of traverse is the default and each other value of each knob.
Traverses(knobs, list, owner) ==
    /\ Sequence(list) /\ Sequence(owner) /\ Len(owner) = Len(list) /\ Len(list) >= 1
    /\ list[1] = Defaults(knobs) /\ owner[1] = 0
    /\ \A n \in 2..Len(list) :
          \E i \in 1..Len(knobs) : \E j \in 1..Len(Alternatives(knobs[i])) :
             TraversesAt(knobs, list, owner, n, i, j)
    /\ \A i \in 1..Len(knobs) : \A j \in 1..Len(Alternatives(knobs[i])) :
          \E n \in 2..Len(list) : TraversesAt(knobs, list, owner, n, i, j)

\* The list traverse evaluates: the defaults, and each knob at its alternatives.
LEMMA TraverseListOf ==
  ASSUME NEW knobs, KnobList(knobs)
  PROVE  Traverses(knobs, TraverseList(knobs), Owner(knobs))
<1> DEFINE N == Len(knobs)
           L(i) == Len(Alternatives(knobs[i]))
           ofKnob == [i \in DOMAIN knobs |->
                        [j \in DOMAIN Alternatives(knobs[i]) |->
                            [Defaults(knobs) EXCEPT ![i] = Alternatives(knobs[i])[j]]]]
           ofOwner == [i \in DOMAIN knobs |-> [j \in DOMAIN Alternatives(knobs[i]) |-> i]]
           settings == FlattenSeq(ofKnob)
           owners == FlattenSeq(ofOwner)
<1>1. N \in Nat /\ DOMAIN knobs = 1..N
  BY AppendSequence DEF KnobList
<1>2. ASSUME NEW i \in 1..N
      PROVE  L(i) \in Nat /\ DOMAIN Alternatives(knobs[i]) = 1..L(i)
  BY <1>2, AlternativesDiffer, AppendSequence DEF KnobList
<1>3. /\ Sequence(ofKnob) /\ Len(ofKnob) = N
      /\ \A i \in 1..N : /\ Sequence(ofKnob[i]) /\ Len(ofKnob[i]) = L(i)
                         /\ \A j \in 1..L(i) : ofKnob[i][j]
                               = [Defaults(knobs) EXCEPT ![i] = Alternatives(knobs[i])[j]]
  <2>1. ofKnob = [i \in 1..N |-> ofKnob[i]]
    BY <1>1
  <2>2. ASSUME NEW i \in 1..N
        PROVE  /\ Sequence(ofKnob[i]) /\ Len(ofKnob[i]) = L(i)
               /\ \A j \in 1..L(i) : ofKnob[i][j]
                     = [Defaults(knobs) EXCEPT ![i] = Alternatives(knobs[i])[j]]
    <3> DEFINE u == ofKnob[i]
    <3>1. u = [j \in 1..L(i) |-> [Defaults(knobs) EXCEPT ![i] = Alternatives(knobs[i])[j]]]
      BY <1>1, <1>2
    <3> HIDE DEF u
    <3>2. u = [j \in 1..L(i) |-> u[j]]
      BY <3>1
    <3>3. Sequence(u) /\ Len(u) = L(i)
      BY <1>2, <3>2, MadeSequence
    <3> QED
      BY <3>1, <3>3 DEF u
  <2> HIDE DEF ofKnob
  <2>3. Sequence(ofKnob) /\ Len(ofKnob) = N
    BY <1>1, <2>1, MadeSequence
  <2> QED
    BY <2>2, <2>3
<1>4. /\ Sequence(ofOwner) /\ Len(ofOwner) = N
      /\ \A i \in 1..N : /\ Sequence(ofOwner[i]) /\ Len(ofOwner[i]) = L(i)
                         /\ \A j \in 1..L(i) : ofOwner[i][j] = i
  <2>1. ofOwner = [i \in 1..N |-> ofOwner[i]]
    BY <1>1
  <2>2. ASSUME NEW i \in 1..N
        PROVE  /\ Sequence(ofOwner[i]) /\ Len(ofOwner[i]) = L(i)
               /\ \A j \in 1..L(i) : ofOwner[i][j] = i
    <3> DEFINE u == ofOwner[i]
    <3>1. u = [j \in 1..L(i) |-> i]
      BY <1>1, <1>2
    <3> HIDE DEF u
    <3>2. u = [j \in 1..L(i) |-> u[j]]
      BY <3>1
    <3>3. Sequence(u) /\ Len(u) = L(i)
      BY <1>2, <3>2, MadeSequence
    <3> QED
      BY <3>1, <3>3 DEF u
  <2> HIDE DEF ofOwner
  <2>3. Sequence(ofOwner) /\ Len(ofOwner) = N
    BY <1>1, <2>1, MadeSequence
  <2> QED
    BY <2>2, <2>3
<1>5. TraverseList(knobs) = <<Defaults(knobs)>> \o settings
  BY DEF TraverseList
<1>6. Owner(knobs) = <<0>> \o owners
  BY DEF Owner
<1> HIDE DEF ofKnob, ofOwner
<1>7. PICK at : Ends(ofKnob, at)
  BY <1>2, <1>3, EndsExist
<1>8. PICK to : Ends(ofOwner, to)
  BY <1>2, <1>4, EndsExist
<1>9. \A n \in 0..N : to[n] = at[n]
  BY <1>1, <1>3, <1>4, <1>7, <1>8, SameEnds
<1>10. JoinedTo(ofKnob, at, N, settings)
  BY <1>3, <1>7, Flattened
<1>11. JoinedTo(ofOwner, to, N, owners)
  BY <1>4, <1>8, Flattened
<1> HIDE DEF settings, owners
<1>12. /\ Sequence(settings) /\ Sequence(owners) /\ Len(owners) = Len(settings)
       /\ Len(settings) = at[N] /\ at[N] \in Nat
  BY <1>1, <1>3, <1>7, <1>9, <1>10, <1>11 DEF JoinedTo, Ends
<1> DEFINE list == TraverseList(knobs)
           owner == Owner(knobs)
<1>13. /\ Sequence(list) /\ Sequence(owner) /\ Len(list) = 1 + at[N] /\ Len(owner) = 1 + at[N]
       /\ list[1] = Defaults(knobs) /\ owner[1] = 0
       /\ \A m \in 1..at[N] : list[1 + m] = settings[m] /\ owner[1 + m] = owners[m]
  <2>1. /\ Sequence(list) /\ Len(list) = 1 + Len(settings)
        /\ list[1] = Defaults(knobs)
        /\ \A m \in 1..Len(settings) : list[1 + m] = settings[m]
    BY <1>5, <1>12, FirstAdded
  <2>2. /\ Sequence(owner) /\ Len(owner) = 1 + Len(owners)
        /\ owner[1] = 0
        /\ \A m \in 1..Len(owners) : owner[1 + m] = owners[m]
    BY <1>6, <1>12, FirstAdded
  <2> HIDE DEF list, owner
  <2> QED
    BY <1>12, <2>1, <2>2
<1>14. ASSUME NEW i \in 1..N, NEW j \in 1..L(i)
       PROVE  /\ 1 + (at[i - 1] + j) \in 2..1 + at[N]
              /\ TraversesAt(knobs, list, owner, 1 + (at[i - 1] + j), i, j)
  <2> HIDE DEF list, owner
  <2>1. /\ at[i - 1] + j \in 1..at[N]
        /\ settings[at[i - 1] + j] = [Defaults(knobs) EXCEPT ![i] = Alternatives(knobs[i])[j]]
    BY <1>3, <1>10, <1>14 DEF JoinedTo
  <2>2. owners[to[i - 1] + j] = i
    <3>1. Len(ofOwner[i]) = L(i) /\ ofOwner[i][j] = i
      BY <1>4, <1>14
    <3>2. \A k \in 1..Len(ofOwner[i]) : owners[to[i - 1] + k] = ofOwner[i][k]
      BY <1>11, <1>14 DEF JoinedTo
    <3> QED
      BY <1>14, <3>1, <3>2
  <2>3. to[i - 1] = at[i - 1]
    BY <1>1, <1>9
  <2>4. 1 + (at[i - 1] + j) \in 2..1 + at[N]
    BY <1>12, <2>1
  <2>5. /\ list[1 + (at[i - 1] + j)] = settings[at[i - 1] + j]
        /\ owner[1 + (at[i - 1] + j)] = owners[at[i - 1] + j]
    BY <1>13, <2>1
  <2> QED
    BY <2>1, <2>2, <2>3, <2>4, <2>5 DEF TraversesAt
<1>15. ASSUME NEW n \in 2..1 + at[N]
       PROVE  \E i \in 1..N : \E j \in 1..L(i) : TraversesAt(knobs, list, owner, n, i, j)
  <2> HIDE DEF list, owner
  <2>1. n - 1 \in 1..at[N] /\ 1 + (n - 1) = n
    BY <1>12
  <2>2. \E i \in 1..Len(ofKnob) : \E j \in 1..Len(ofKnob[i]) : n - 1 = at[i - 1] + j
    <3>1. Len(ofKnob) \in Nat /\ \A i \in 1..Len(ofKnob) : Len(ofKnob[i]) \in Nat
      BY <1>1, <1>2, <1>3
    <3>2. n - 1 \in 1..at[Len(ofKnob)]
      BY <1>3, <2>1
    <3> QED
      BY <1>7, <3>1, <3>2, JoinedFrom
  <2>3. PICK i \in 1..N : \E j \in 1..L(i) : n - 1 = at[i - 1] + j
    BY <1>3, <2>2
  <2>4. PICK j \in 1..L(i) : n - 1 = at[i - 1] + j
    BY <2>3
  <2>5. TraversesAt(knobs, list, owner, 1 + (at[i - 1] + j), i, j)
    BY <1>14
  <2> QED
    BY <2>1, <2>4, <2>5
<1> HIDE DEF list, owner
<1>16. \A i \in 1..N : \A j \in 1..L(i) :
          \E n \in 2..Len(list) : TraversesAt(knobs, list, owner, n, i, j)
  BY <1>13, <1>14
<1>17. \A n \in 2..Len(list) : \E i \in 1..N : \E j \in 1..L(i) :
          TraversesAt(knobs, list, owner, n, i, j)
  BY <1>13, <1>15
<1>18. Len(list) >= 1 /\ Len(owner) = Len(list)
  BY <1>12, <1>13
<1>19. Traverses(knobs, list, owner)
  BY <1>13, <1>16, <1>17, <1>18 DEF Traverses
<1> QED
  BY <1>19 DEF list, owner

-----------------------------------------------------------------------------
(* The ranks of traverse                                                   *)

\* A knob that was tried has evaluations.
LEMMA ResultsOf ==
  ASSUME NEW knobs, KnobList(knobs), NEW perf, Sequence(perf),
         \A n \in 1..Len(perf) : perf[n] \in Int, Len(perf) = Len(TraverseList(knobs)),
         NEW default, NEW i \in Traversed(knobs)
  PROVE  /\ IsFiniteSet(Results(knobs, perf, default)[i])
         /\ Results(knobs, perf, default)[i] # {}
         /\ Results(knobs, perf, default)[i] \subseteq Int
         /\ \A n \in 1..Len(perf) :
               Owner(knobs)[n] = i => perf[n] \in Results(knobs, perf, default)[i]
<1> DEFINE owner == Owner(knobs)
           list == TraverseList(knobs)
           R == {perf[n] : n \in DOMAIN perf}
           some == {perf[n] : n \in {m \in DOMAIN perf : owner[m] = i}}
           res == Results(knobs, perf, default)[i]
<1>1. Len(perf) \in Nat /\ DOMAIN perf = 1..Len(perf)
  BY AppendSequence
<1>2. Traverses(knobs, list, owner)
  BY TraverseListOf
<1>3. res = some \cup (IF default[i] THEN {perf[1]} ELSE {})
  BY DEF Results
<1> HIDE DEF res, list, owner
<1>4. 1 \in 1..Len(perf)
  BY <1>1, <1>2 DEF Traverses, list
<1>5. res \subseteq R
  BY <1>1, <1>3, <1>4
<1>6. IsFiniteSet(res)
  <2>1. IsFiniteSet(R) /\ res \in SUBSET R
    BY <1>5, FiniteElements
  <2> HIDE DEF R
  <2> QED
    BY <2>1, FS_Subset
<1>7. R \subseteq Int
  BY <1>1
<1>8. \A n \in 1..Len(perf) : owner[n] = i => perf[n] \in res
  BY <1>1, <1>3
<1>9. res # {}
  <2>1. i \in 1..Len(knobs) /\ Alternatives(knobs[i]) # <<>>
    BY AppendSequence DEF Traversed, KnobList
  <2> DEFINE a == Alternatives(knobs[i])
  <2>2. Sequence(a)
    BY <2>1, AlternativesDiffer DEF KnobList
  <2>3. 1 \in 1..Len(a)
    <3>1. Len(a) \in Nat
      BY <2>2, AppendSequence
    <3>2. Len(a) # 0
      <4>1. a # <<>>
        BY <2>1
      <4> HIDE DEF a
      <4> QED
        BY <2>2, <4>1 DEF Sequence
    <3> QED
      BY <3>1, <3>2
  <2>4. PICK n \in 2..Len(list) : TraversesAt(knobs, list, owner, n, i, 1)
    BY <1>2, <2>1, <2>3 DEF Traverses
  <2>5. n \in 1..Len(perf) /\ owner[n] = i
    BY <1>1, <2>4 DEF TraversesAt, list
  <2> QED
    BY <1>8, <2>5
<1> QED
  BY <1>5, <1>6, <1>7, <1>8, <1>9 DEF res, owner

\* The two figures by which traverse ranks a knob are numbers, the first of them
\* not above any evaluation of the knob.
LEMMA LowestAndDifference ==
  ASSUME NEW knobs, KnobList(knobs), NEW perf, Sequence(perf),
         \A n \in 1..Len(perf) : perf[n] \in Int, Len(perf) = Len(TraverseList(knobs))
  PROVE  /\ DOMAIN Lowest(knobs, perf) = Traversed(knobs)
         /\ \A i \in Traversed(knobs) :
               /\ Lowest(knobs, perf)[i] \in Int /\ Difference(knobs, perf)[i] \in Int
               /\ \A n \in 1..Len(perf) :
                     Owner(knobs)[n] = i => Lowest(knobs, perf)[i] <= perf[n]
<1> DEFINE byOptions == [i \in DOMAIN knobs |-> knobs[i].options # <<>>]
           orSingle == [i \in DOMAIN knobs |->
                          knobs[i].options # <<>> \/ Len(Alternatives(knobs[i])) = 1]
           low == Results(knobs, perf, byOptions)
           diff == Results(knobs, perf, orSingle)
<1>1. DOMAIN low = Traversed(knobs) /\ DOMAIN diff = Traversed(knobs)
  BY DEF Results
<1>2. Lowest(knobs, perf) = [i \in DOMAIN low |-> Min(low[i])]
  BY DEF Lowest
<1>3. Difference(knobs, perf) = [i \in DOMAIN diff |-> Max(diff[i]) - Min(diff[i])]
  BY DEF Difference
<1> HIDE DEF byOptions, orSingle
<1>4. ASSUME NEW i \in Traversed(knobs)
      PROVE  /\ Lowest(knobs, perf)[i] \in Int /\ Difference(knobs, perf)[i] \in Int
             /\ \A n \in 1..Len(perf) :
                   Owner(knobs)[n] = i => Lowest(knobs, perf)[i] <= perf[n]
  <2>1. /\ IsFiniteSet(low[i]) /\ low[i] # {} /\ low[i] \subseteq Int
        /\ \A n \in 1..Len(perf) : Owner(knobs)[n] = i => perf[n] \in low[i]
    BY ResultsOf
  <2>2. IsFiniteSet(diff[i]) /\ diff[i] # {} /\ diff[i] \subseteq Int
    BY ResultsOf
  <2> HIDE DEF low, diff
  <2>3. Min(low[i]) \in low[i] /\ \A y \in low[i] : Min(low[i]) <= y
    BY <2>1, MinOfFinite
  <2>4. Min(diff[i]) \in diff[i] /\ Max(diff[i]) \in diff[i]
    BY <2>2, MinOfFinite, MaxOfFinite
  <2>5. Min(low[i]) \in Int /\ Max(diff[i]) - Min(diff[i]) \in Int
    BY <2>1, <2>2, <2>3, <2>4
  <2> QED
    BY <1>1, <1>2, <1>3, <2>1, <2>3, <2>5
<1> QED
  BY <1>1, <1>2, <1>4

\* A smaller evaluation and a larger difference put a knob further ahead in both
\* lists.
LEMMA PlacesOrdered ==
  ASSUME NEW lowest, NEW difference, IsFiniteSet(DOMAIN lowest), DOMAIN lowest \subseteq Int,
         \A k \in DOMAIN lowest : lowest[k] \in Int /\ difference[k] \in Int,
         NEW i \in DOMAIN lowest, NEW j \in DOMAIN lowest,
         lowest[i] < lowest[j], difference[i] > difference[j]
  PROVE  Places(lowest, difference, i) < Places(lowest, difference, j)
<1> DEFINE D == DOMAIN lowest
           A(m) == {k \in D : lowest[k] < lowest[m] \/ (lowest[k] = lowest[m] /\ k < m)}
           B(m) == {k \in D : \/ difference[k] > difference[m]
                              \/ difference[k] = difference[m] /\ k > m}
<1>0. \A m \in D : IsFiniteSet(A(m)) /\ IsFiniteSet(B(m))
  <2> TAKE m \in D
  <2>1. A(m) \in SUBSET D /\ B(m) \in SUBSET D
    OBVIOUS
  <2> HIDE DEF A, B
  <2> QED
    BY <2>1, FS_Subset
<1>1. A(i) \subseteq A(j) /\ i \in A(j) /\ i \notin A(i)
  OBVIOUS
<1>2. B(i) \subseteq B(j) /\ i \in B(j) /\ i \notin B(i)
  OBVIOUS
<1>3. \A m : Places(lowest, difference, m) = Cardinality(A(m)) + Cardinality(B(m))
  BY DEF Places
<1> HIDE DEF A, B
<1>4. /\ Cardinality(A(i)) \in Nat /\ Cardinality(A(j)) \in Nat
      /\ Cardinality(A(i)) < Cardinality(A(j))
  BY <1>0, <1>1, FewerElements
<1>5. /\ Cardinality(B(i)) \in Nat /\ Cardinality(B(j)) \in Nat
      /\ Cardinality(B(i)) < Cardinality(B(j))
  BY <1>0, <1>2, FewerElements
<1>6. Cardinality(A(i)) + Cardinality(B(i)) < Cardinality(A(j)) + Cardinality(B(j))
  BY <1>4, <1>5
<1> QED
  BY <1>3, <1>6

-----------------------------------------------------------------------------
(* What the steps of a worker change of its plan                           *)

\* What was settled when the worker started.
SamePlan == w'.announced = w.announced /\ w'.done = w.done

\* A proposal is the head of the plan, or one of the calls that are left.
LEMMA AskFields ==
  ASSUME DOMAIN w = SearchFields, Ask
  PROVE  /\ SamePlan /\ SameEvaluations /\ w.pc = "search" /\ w'.pc = "objective"
         /\ w'.best = w.best /\ w'.knob = w.knob /\ w'.rank = w.rank
         /\ \/ /\ w.plan # <<>> /\ w'.asked = Head(w.plan) /\ w'.plan = Tail(w.plan)
               /\ w'.calls = w.calls
            \/ w.calls > 0 /\ w'.plan = w.plan /\ w'.calls = w.calls - 1
<1>1. SameEvaluations
  BY OtherSteps DEF OtherStep
<1>2. CASE w.plan # <<>> /\ w' = [w EXCEPT !.pc = "objective", !.asked = Head(w.plan),
                                           !.plan = Tail(w.plan)]
  BY <1>1, <1>2 DEF Ask, SearchFields, SamePlan
<1>3. ASSUME NEW s, w.calls > 0,
             w' = [w EXCEPT !.pc = "objective", !.asked = s, !.calls = w.calls - 1]
      PROVE  /\ SamePlan /\ w'.pc = "objective" /\ w'.best = w.best /\ w'.knob = w.knob
             /\ w'.rank = w.rank /\ w'.plan = w.plan /\ w'.calls = w.calls - 1
  BY <1>3 DEF SearchFields, SamePlan
<1> QED
  BY <1>1, <1>2, <1>3 DEF Ask

\* An evaluation changes neither the plan nor the rank.
LEMMA TellKeeps ==
  ASSUME DOMAIN w = SearchFields, NEW v \in Values, Tell(v)
  PROVE  SamePlan /\ w.pc = "objective" /\ w'.rank = w.rank
<1> DEFINE told == [w EXCEPT !.pc = "search", !.perf = Append(w.perf, v),
                             !.options = Append(w.options, w.asked)]
           next == NextSweep(Append(w.perf, v))
<1>1. /\ w.pc = "objective"
      /\ w' = IF w.engine = "abtest" /\ w.plan = <<>>
              THEN [told EXCEPT !.best = next.best, !.knob = next.knob, !.plan = next.plan]
              ELSE told
  BY DEF Tell
<1> HIDE DEF next
<1> QED
  BY <1>1 DEF SearchFields, SamePlan

\* The worker has asked for all, and what it has made of it.
LEMMA FinishFields ==
  ASSUME DOMAIN w = SearchFields, Finish
  PROVE  /\ SamePlan /\ SameEvaluations /\ w.pc = "search" /\ w.plan = <<>> /\ w.calls = 0
         /\ w'.pc \in {"rank", "done", "select"}
         /\ w'.best = w.best /\ w'.knob = w.knob /\ w'.rank = w.rank
         /\ w'.pc = "rank" => w'.lowest = Lowest(w.knobs, w.perf)
                              /\ w'.difference = Difference(w.knobs, w.perf)
         /\ w'.pc = "rank" <=> w.engine = "traverse"
<1>1. /\ SameEvaluations /\ w.pc = "search" /\ w.plan = <<>> /\ w.calls = 0
      /\ w'.best = w.best
  BY OtherSteps, FinishReports DEF OtherStep
<1>2. ASSUME w.engine = "traverse"
      PROVE  /\ SamePlan /\ w'.pc = "rank" /\ w'.knob = w.knob /\ w'.rank = w.rank
             /\ w'.lowest = Lowest(w.knobs, w.perf)
             /\ w'.difference = Difference(w.knobs, w.perf)
  <2>1. PICK cut \in Cuts : w' = [w EXCEPT !.pc = "rank", !.final = Report(cut),
                                          !.lowest = Lowest(w.knobs, w.perf),
                                          !.difference = Difference(w.knobs, w.perf)]
    BY <1>2 DEF Finish
  <2> QED
    BY <2>1 DEF SamePlan, SearchFields
<1>3. ASSUME w.engine # "traverse"
      PROVE  /\ SamePlan /\ w'.pc \in {"done", "select"} /\ w'.knob = w.knob
             /\ w'.rank = w.rank
  <2>1. PICK cut \in Cuts :
           \/ w' = [w EXCEPT !.pc = "done", !.final = Report(cut)]
           \/ w' = [w EXCEPT !.pc = "select", !.final = Report(cut),
                             !.fitting = IF w.sel = "wefs" THEN Regressors ELSE {}]
    BY <1>3 DEF Finish
  <2> QED
    BY <2>1 DEF SamePlan, SearchFields
<1> QED
  BY <1>1, <1>2, <1>3

\* The rank of traverse is one of those its two figures allow.
LEMMA RankFields ==
  ASSUME DOMAIN w = SearchFields, RankTraversed
  PROVE  /\ SamePlan /\ SameEvaluations /\ w.pc = "rank" /\ w'.pc = "done"
         /\ w'.best = w.best /\ w'.lowest = w.lowest /\ w'.difference = w.difference
         /\ w'.rank \in TraverseRanks(w.lowest, w.difference)
<1>1. SameEvaluations
  BY OtherSteps DEF OtherStep
<1>2. PICK r \in TraverseRanks(w.lowest, w.difference) :
         w.pc = "rank" /\ w' = [w EXCEPT !.pc = "done", !.rank = r]
  BY DEF RankTraversed
<1> QED
  BY <1>1, <1>2 DEF SamePlan, SearchFields

\* A feature selection ends with every knob in one place of the rank.
LEMMA SelectFields ==
  ASSUME DOMAIN w = SearchFields, Select \/ \E r \in Regressors : RegressorEnds(r)
  PROVE  /\ SamePlan /\ SameEvaluations /\ w.pc = "select" /\ w'.pc \in {"select", "done"}
         /\ w'.best = w.best
         /\ w'.pc = "select" => w'.rank = w.rank
         /\ w'.pc = "done" => w'.rank \in Bijection(DOMAIN w.knobs, DOMAIN w.knobs)
<1>1. SameEvaluations
  BY OtherSteps DEF OtherStep
<1>2. CASE Select
  <2>1. PICK r \in Bijection(DOMAIN w.knobs, DOMAIN w.knobs) :
           w.pc = "select" /\ w' = [w EXCEPT !.pc = "done", !.rank = r]
    BY <1>2 DEF Select
  <2> QED
    BY <1>1, <2>1 DEF SamePlan, SearchFields
<1>3. CASE \E r \in Regressors : RegressorEnds(r)
  BY <1>1, <1>3 DEF RegressorEnds, SamePlan, SearchFields
<1> QED
  BY <1>2, <1>3

\* A failure changes neither the plan nor the rank.
LEMMA FailFields ==
  ASSUME DOMAIN w = SearchFields, Fails
  PROVE  /\ SamePlan /\ SameEvaluations /\ w'.best = w.best /\ w'.rank = w.rank
         /\ \/ w.pc = "search" /\ w'.pc \in {"error", "crashed"}
            \/ w.pc = "select" /\ w'.pc \in {"select", "crashed"}
BY FailureSteps DEF SamePlan

\* A new worker has no plan yet.
LEMMA NewFields ==
  ASSUME DOMAIN w = SearchFields, (\E t \in Tasks : CreateTask(t)) \/ Lose
  PROVE  /\ w'.pc = "start" /\ w'.plan = <<>> /\ w'.calls = 0 /\ w'.options = <<>>
         /\ w'.perf = <<>> /\ w'.rank = <<>> /\ log' = log
         /\ \/ /\ w.pc = "idle" /\ w'.done = 0
               /\ \E t \in Tasks : w'.knobs = t.knobs /\ w'.engine = t.engine
            \/ /\ w.pc \in {"search", "objective"} /\ w'.done = Len(log)
               /\ w'.engine = w.engine /\ w'.knobs = w.knobs
               /\ Len(log) < MaxEval \/ w.engine \in {"gridsearch", "abtest"}
<1>1. ASSUME NEW t \in Tasks, CreateTask(t)
      PROVE  /\ w'.pc = "start" /\ w'.plan = <<>> /\ w'.calls = 0 /\ w'.options = <<>>
             /\ w'.perf = <<>> /\ w'.rank = <<>> /\ log' = log
             /\ w.pc = "idle" /\ w'.done = 0 /\ w'.knobs = t.knobs /\ w'.engine = t.engine
  BY <1>1 DEF CreateTask, NewWorker
<1>2. CASE Lose
  <2>1. /\ w' = NewWorker([w EXCEPT !.lives = @ - 1], Len(log)) /\ log' = log
        /\ w.pc \in {"search", "objective"}
        /\ Len(log) < MaxEval \/ w.engine \in {"gridsearch", "abtest"}
    BY <1>2 DEF Lose
  <2>2. w'.engine = w.engine /\ w'.knobs = w.knobs
    BY <2>1 DEF NewWorker, SearchFields
  <2> QED
    BY <2>1, <2>2 DEF NewWorker
<1> QED
  BY <1>1, <1>2

\* The steps that may change a worker.
LEMMA WorkerCases ==
  ASSUME [EngineNext]_engineVars
  PROVE  \/ (\E t \in Tasks : CreateTask(t)) \/ Lose
         \/ StartABtest \/ StartGridsearch \/ StartTraverse \/ StartSampling \/ StartModel
         \/ Ask \/ (\E v \in Values : Tell(v)) \/ Finish \/ RankTraversed
         \/ Select \/ (\E r \in Regressors : RegressorEnds(r)) \/ Fails
         \/ w' = w /\ log' = log
BY DEF EngineNext, SearchTask, FilesTask, ModelsTask, engineVars, searchVars, SearchNext,
       WorkerStep, Fails

-----------------------------------------------------------------------------
(* A plan that was made at the start                                       *)

Asking(v) == IF v.pc = "objective" THEN 1 ELSE 0

\* Of a list so many settings have been evaluated, the next may be under way,
\* and the rest is planned.
OnPlan(v, made, list) ==
    /\ Sequence(v.plan) /\ v.calls = 0
    /\ made + Asking(v) + Len(v.plan) = Len(list)
    /\ v.pc = "objective" => v.asked = list[made + 1]
    /\ \A n \in 1..Len(v.plan) : v.plan[n] = list[made + Asking(v) + n]

\* Asking takes the next setting of the plan.
LEMMA PlanAsks ==
  ASSUME DOMAIN w = SearchFields, Ask, NEW made \in Nat, NEW list, OnPlan(w, made, list)
  PROVE  OnPlan(w', made, list)
<1> DEFINE plan == w.plan
           l == Len(plan)
<1>1. /\ w.pc = "search" /\ w'.pc = "objective" /\ plan # <<>> /\ w'.asked = Head(plan)
      /\ w'.plan = Tail(plan) /\ w'.calls = w.calls
  BY AskFields DEF OnPlan
<1>2. /\ Sequence(plan) /\ made + 0 + l = Len(list) /\ w.calls = 0
      /\ \A n \in 1..l : plan[n] = list[made + 0 + n]
  BY <1>1 DEF OnPlan, Asking
<1> HIDE DEF plan
<1>3. /\ Sequence(Tail(plan)) /\ l \in Nat \ {0} /\ Len(Tail(plan)) = l - 1
      /\ Head(plan) = plan[1]
      /\ \A j \in 1..l - 1 : Tail(plan)[j] = plan[j + 1]
  BY <1>1, <1>2, TailSequence
<1>4. Asking(w') = 1
  BY <1>1 DEF Asking
<1>5. made + 1 + (l - 1) = Len(list) /\ Head(plan) = list[made + 1]
  BY <1>2, <1>3
<1>6. \A n \in 1..l - 1 : Tail(plan)[n] = list[made + 1 + n]
  <2> TAKE n \in 1..l - 1
  <2>1. n + 1 \in 1..l /\ made + 0 + (n + 1) = made + 1 + n
    BY <1>3
  <2> QED
    BY <1>2, <1>3, <2>1
<1> QED
  BY <1>1, <1>2, <1>3, <1>4, <1>5, <1>6 DEF OnPlan

\* The evaluation told is that of the next setting of the plan.
LEMMA PlanTells ==
  ASSUME NEW made \in Nat, NEW list, OnPlan(w, made, list), w.pc = "objective",
         w'.pc = "search", w'.plan = w.plan, w'.calls = w.calls
  PROVE  OnPlan(w', made + 1, list) /\ w.asked = list[made + 1] /\ made + 1 <= Len(list)
<1>1. Asking(w) = 1 /\ Asking(w') = 0
  BY DEF Asking
<1>2. /\ Sequence(w.plan) /\ made + 1 + Len(w.plan) = Len(list) /\ w.calls = 0
      /\ \A n \in 1..Len(w.plan) : w.plan[n] = list[made + 1 + n]
      /\ w.asked = list[made + 1]
  BY <1>1 DEF OnPlan
<1>3. Len(w.plan) \in Nat
  BY <1>2, AppendSequence
<1>4. /\ made + 1 <= Len(list) /\ made + 1 + 0 + Len(w.plan) = Len(list)
      /\ \A n \in 1..Len(w.plan) : made + 1 + 0 + n = made + 1 + n
  <2> DEFINE l == Len(w.plan)
  <2>1. l \in Nat /\ made + 1 + l = Len(list)
    BY <1>2, <1>3
  <2> HIDE DEF l
  <2>2. /\ made + 1 <= made + 1 + l /\ made + 1 + 0 + l = made + 1 + l
        /\ \A n \in 1..l : made + 1 + 0 + n = made + 1 + n
    BY <2>1
  <2> QED
    BY <2>1, <2>2 DEF l
<1> QED
  BY <1>1, <1>2, <1>4 DEF OnPlan

\* An empty plan has been asked for as a whole.
LEMMA PlanEnds ==
  ASSUME NEW made \in Nat, NEW list, OnPlan(w, made, list), w.pc = "search", w.plan = <<>>
  PROVE  made = Len(list)
BY EmptySequence DEF OnPlan, Asking

-----------------------------------------------------------------------------
(* traverse                                                                *)

\* Every task lists its knobs, and each knob its options.
KnobsListed == \A t \in Tasks : KnobList(t.knobs)

KnobsInv == w.pc # "idle" => KnobList(w.knobs)

\* Ranks are given at the end.
RankInv ==
    /\ w.pc # "done" => w.rank = <<>>
    /\ w.pc = "rank" => w.engine = "traverse"
    /\ w.pc = "done" /\ w.engine # "traverse" =>
          w.rank = <<>> \/ w.rank \in Bijection(DOMAIN w.knobs, DOMAIN w.knobs)

\* The settings evaluated are the first of a list.
FirstOf(settings, list) == \A n \in 1..Len(settings) : settings[n] = list[n]

Traversing(list) ==
    /\ w.pc = "start" => w.options = <<>> /\ w.calls = 0
    /\ w.pc \in {"search", "objective"} => OnPlan(w, Len(w.options), list)
    /\ w.pc \in {"search", "objective", "rank", "done"} =>
          w.announced = Len(list) /\ FirstOf(w.options, list)
    /\ w.pc \in {"rank", "done"} =>
          /\ Len(w.options) = Len(list)
          /\ w.lowest = Lowest(w.knobs, w.perf) /\ w.difference = Difference(w.knobs, w.perf)
    /\ w.pc = "done" => w.rank \in TraverseRanks(w.lowest, w.difference)
    /\ w.pc \in {"start", "search", "objective", "rank", "done", "error", "crashed"}

TraverseInv ==
    w.pc # "idle" /\ w.engine = "traverse" => Traversing(TraverseList(w.knobs))

RankedInv == SearchInv /\ KnobsInv /\ RankInv /\ TraverseInv

\* The knobs of a task stay a sequence of knobs.
LEMMA KnobsInvStep ==
  ASSUME KnobsListed, SearchInv, KnobsInv, [EngineNext]_engineVars
  PROVE  KnobsInv'
<1>0. DOMAIN w = SearchFields
  BY DEF SearchInv, OwnInv
<1>1. CASE (\E t \in Tasks : CreateTask(t)) \/ Lose
  BY <1>0, <1>1, NewFields DEF KnobsInv, KnobsListed
<1>2. ASSUME NEW v \in Values, Tell(v) PROVE KnobsInv'
  <2>1. w.pc # "idle" /\ w'.knobs = w.knobs
    BY <1>0, <1>2, TellFields, TellKeeps
  <2> QED
    BY <2>1 DEF KnobsInv
<1>3. CASE OtherStep
  <2>1. w.pc # "idle" /\ w'.knobs = w.knobs
    BY <1>0, <1>3, OtherSteps, WorkerRuns DEF SameEvaluations
  <2> QED
    BY <2>1 DEF KnobsInv
<1>4. CASE w' = w /\ log' = log
  BY <1>4 DEF KnobsInv
<1> QED
  BY <1>1, <1>2, <1>3, <1>4, WorkerCases DEF OtherStep

\* What the start of a worker settles.
LEMMA StartFields ==
  ASSUME DOMAIN w = SearchFields,
         StartABtest \/ StartGridsearch \/ StartTraverse \/ StartSampling \/ StartModel
  PROVE  /\ SameEvaluations /\ w.pc = "start" /\ w'.pc \in {"search", "error"}
         /\ w'.rank = w.rank /\ w'.done = w.done
<1>0. SameEvaluations
  BY OtherSteps DEF OtherStep
<1>1. CASE StartABtest
  BY <1>0, <1>1 DEF StartABtest, SearchFields
<1>2. CASE StartGridsearch
  BY <1>0, <1>2 DEF StartGridsearch, SearchFields
<1>3. CASE StartTraverse
  BY <1>0, <1>3 DEF StartTraverse, SearchFields
<1>4. CASE StartSampling
  BY <1>0, <1>4 DEF StartSampling, SearchFields
<1>5. CASE StartModel
  <2>1. CASE w' = [w EXCEPT !.pc = "error"]
    BY <1>0, <1>5, <2>1 DEF StartModel, SearchFields
  <2>2. ASSUME NEW c, w' = [w EXCEPT !.pc = "search", !.calls = c]
        PROVE  /\ w.pc = "start" /\ w'.pc = "search" /\ w'.rank = w.rank
               /\ w'.done = w.done
    BY <1>0, <1>5, <2>2 DEF StartModel, SearchFields
  <2> QED
    BY <1>0, <1>5, <2>1, <2>2 DEF StartModel
<1> QED
  BY <1>1, <1>2, <1>3, <1>4, <1>5

\* Every step of the search keeps what is known of the rank.
LEMMA RankInvStep ==
  ASSUME SearchInv, RankInv, [EngineNext]_engineVars
  PROVE  RankInv'
<1>0. DOMAIN w = SearchFields
  BY DEF SearchInv, OwnInv
<1>1. CASE (\E t \in Tasks : CreateTask(t)) \/ Lose
  BY <1>0, <1>1, NewFields DEF RankInv
<1>2. ASSUME NEW v \in Values, Tell(v) PROVE RankInv'
  BY <1>0, <1>2, TellFields, TellKeeps DEF RankInv
<1>3. CASE StartABtest \/ StartGridsearch \/ StartTraverse \/ StartSampling \/ StartModel
  BY <1>0, <1>3, StartFields DEF RankInv
<1>4. CASE Ask
  BY <1>0, <1>4, AskFields DEF RankInv
<1>5. CASE Finish
  BY <1>0, <1>5, FinishFields DEF RankInv, SameEvaluations
<1>6. CASE RankTraversed
  BY <1>0, <1>6, RankFields DEF RankInv, SameEvaluations
<1>7. CASE Select \/ \E r \in Regressors : RegressorEnds(r)
  BY <1>0, <1>7, SelectFields DEF RankInv, SameEvaluations
<1>8. CASE w' = w /\ log' = log
  BY <1>8 DEF RankInv
<1>9. CASE Fails
  BY <1>0, <1>9, FailFields DEF RankInv, SameEvaluations
<1> QED
  BY <1>1, <1>2, <1>3, <1>4, <1>5, <1>6, <1>7, <1>8, <1>9, WorkerCases

\* traverse starts with its whole list as the plan.
LEMMA TraverseStarts ==
  ASSUME SearchInv, w.engine = "traverse", KnobList(w.knobs), w.options = <<>>, StartTraverse,
         w.calls = 0
  PROVE  Traversing(TraverseList(w.knobs))'
<1> DEFINE list == TraverseList(w.knobs)
<1>0. DOMAIN w = SearchFields
  BY DEF SearchInv, OwnInv
<1>1. w'.knobs = w.knobs /\ w'.options = <<>> /\ Len(w'.options) = 0
  BY <1>0, StartFields, EmptySequence DEF SameEvaluations
<1>2. CASE w' = [w EXCEPT !.pc = "error"]
  BY <1>0, <1>1, <1>2 DEF Traversing, SearchFields
<1>3. CASE w' = [w EXCEPT !.pc = "search", !.announced = Len(TraverseList(w.knobs)),
                          !.plan = TraverseList(w.knobs)]
  <2>1. /\ w'.pc = "search" /\ w'.announced = Len(list) /\ w'.plan = list /\ w'.calls = 0
    BY <1>0, <1>3 DEF SearchFields
  <2>2. Sequence(list)
    BY TraverseListOf DEF Traverses
  <2> HIDE DEF list
  <2>3. Len(list) \in Nat
    BY <2>2, AppendSequence
  <2>4. OnPlan(w', 0, list)
    <3>1. Asking(w') = 0
      BY <2>1 DEF Asking
    <3>2. 0 + 0 + Len(list) = Len(list) /\ \A n \in 1..Len(list) : 0 + 0 + n = n
      BY <2>3
    <3> QED
      BY <2>1, <2>2, <3>1, <3>2 DEF OnPlan
  <2>5. FirstOf(w'.options, list)
    BY <1>1 DEF FirstOf
  <2>6. TraverseList(w'.knobs) = list
    BY <1>1 DEF list
  <2> QED
    BY <1>1, <2>1, <2>4, <2>5, <2>6 DEF Traversing
<1> QED
  BY <1>2, <1>3 DEF StartTraverse

\* What traverse asks is the next of its list.
LEMMA TraverseAsks ==
  ASSUME SearchInv, NEW list, Traversing(list), Ask, Sequence(w.options)
  PROVE  /\ w'.pc = "objective" /\ OnPlan(w', Len(w'.options), list)
         /\ w'.announced = Len(list) /\ FirstOf(w'.options, list)
<1>0. DOMAIN w = SearchFields
  BY DEF SearchInv, OwnInv
<1>1. /\ w.pc = "search" /\ w'.pc = "objective" /\ w'.options = w.options
      /\ w'.announced = w.announced
  BY <1>0, AskFields DEF SameEvaluations, SamePlan
<1>2. Len(w.options) \in Nat /\ OnPlan(w, Len(w.options), list)
  BY <1>1, AppendSequence DEF Traversing
<1>3. OnPlan(w', Len(w.options), list)
  BY <1>0, <1>2, PlanAsks
<1> QED
  BY <1>1, <1>3 DEF Traversing

\* One more evaluation of what was planned.
LEMMA FirstTold ==
  ASSUME Sequence(w.options), NEW list, FirstOf(w.options, list),
         w'.options = Append(w.options, w.asked), w.asked = list[Len(w.options) + 1]
  PROVE  Len(w.options) \in Nat /\ Len(w'.options) = Len(w.options) + 1
         /\ FirstOf(w'.options, list)
<1> DEFINE l == Len(w.options)
           told == Append(w.options, w.asked)
<1>1. /\ l \in Nat /\ Len(told) = l + 1 /\ told[l + 1] = w.asked
      /\ \A n \in 1..l : told[n] = w.options[n]
  BY AppendSequence
<1>2. w'.options = told
  OBVIOUS
<1> HIDE DEF told
<1>3. ASSUME NEW n \in 1..l + 1 PROVE told[n] = list[n]
  <2>1. CASE n = l + 1
    BY <1>1, <2>1
  <2>2. CASE n \in 1..l
    BY <1>1, <2>2 DEF FirstOf
  <2> QED
    BY <1>1, <2>1, <2>2
<1> QED
  BY <1>1, <1>2, <1>3 DEF FirstOf

\* What traverse is told is the evaluation of that one.
LEMMA TraverseTells ==
  ASSUME SearchInv, NEW list, Traversing(list), w.engine # "abtest", NEW v \in Values, Tell(v)
  PROVE  /\ w'.pc = "search" /\ OnPlan(w', Len(w'.options), list)
         /\ w'.announced = Len(list) /\ FirstOf(w'.options, list)
<1>0. DOMAIN w = SearchFields /\ Sequence(w.options)
  BY DEF SearchInv, OwnInv
<1>1. /\ w.pc = "objective" /\ w'.pc = "search"
      /\ w'.options = Append(w.options, w.asked)
      /\ w'.announced = w.announced /\ w'.plan = w.plan /\ w'.calls = w.calls
  BY <1>0, TellFields, TellKeeps DEF SamePlan
<1>2. Len(w.options) \in Nat /\ OnPlan(w, Len(w.options), list) /\ FirstOf(w.options, list)
  BY <1>0, <1>1, AppendSequence DEF Traversing
<1>3. OnPlan(w', Len(w.options) + 1, list) /\ w.asked = list[Len(w.options) + 1]
  BY <1>1, <1>2, PlanTells
<1>4. Len(w'.options) = Len(w.options) + 1 /\ FirstOf(w'.options, list)
  BY <1>0, <1>1, <1>2, <1>3, FirstTold
<1> QED
  BY <1>1, <1>3, <1>4 DEF Traversing

\* Every step keeps the evaluations of traverse the first ones of its list.
LEMMA TraverseInvStep ==
  ASSUME KnobsListed, SearchInv, KnobsInv, RankInv, TraverseInv, KnobsInv',
         [EngineNext]_engineVars
  PROVE  TraverseInv'
<1>0. DOMAIN w = SearchFields /\ Sequence(w.options)
  BY DEF SearchInv, OwnInv
<1> SUFFICES ASSUME w'.pc # "idle", w'.engine = "traverse"
             PROVE  Traversing(TraverseList(w.knobs))'
  BY DEF TraverseInv
<1> DEFINE list == TraverseList(w.knobs)
<1>1. CASE (\E t \in Tasks : CreateTask(t)) \/ Lose
  <2>1. w'.pc = "start" /\ w'.options = <<>> /\ w'.calls = 0
    BY <1>0, <1>1, NewFields
  <2> QED
    BY <2>1 DEF Traversing
<1>2. ASSUME w.pc # "idle", w'.engine = w.engine, w'.knobs = w.knobs
      PROVE  Traversing(list) /\ TraverseList(w'.knobs) = list /\ w.engine = "traverse"
  BY <1>2 DEF TraverseInv
<1>3. ASSUME NEW v \in Values, Tell(v) PROVE Traversing(TraverseList(w.knobs))'
  <2>1. Traversing(list) /\ TraverseList(w'.knobs) = list /\ w.engine = "traverse"
    BY <1>0, <1>2, <1>3, TellFields, TellKeeps
  <2> HIDE DEF list
  <2>2. /\ w'.pc = "search" /\ OnPlan(w', Len(w'.options), list)
        /\ w'.announced = Len(list) /\ FirstOf(w'.options, list)
    BY <1>3, <2>1, TraverseTells
  <2> QED
    BY <2>1, <2>2 DEF Traversing
<1>4. CASE Ask
  <2>1. Traversing(list) /\ TraverseList(w'.knobs) = list
    BY <1>0, <1>2, <1>4, AskFields DEF SameEvaluations
  <2> HIDE DEF list
  <2>2. /\ w'.pc = "objective" /\ OnPlan(w', Len(w'.options), list)
        /\ w'.announced = Len(list) /\ FirstOf(w'.options, list)
    BY <1>0, <1>4, <2>1, TraverseAsks
  <2> QED
    BY <2>1, <2>2 DEF Traversing
<1>5. CASE StartTraverse
  <2>1. w.pc = "start" /\ w.engine = "traverse"
    BY <1>5 DEF StartTraverse
  <2>2. w.options = <<>> /\ w.calls = 0 /\ KnobList(w.knobs)
    BY <2>1 DEF TraverseInv, Traversing, KnobsInv
  <2> QED
    BY <1>5, <2>1, <2>2, TraverseStarts
<1>6. CASE StartABtest \/ StartGridsearch \/ StartSampling \/ StartModel
  <2>1. w.engine # "traverse"
    BY <1>6 DEF StartABtest, StartGridsearch, StartSampling, StartModel
  <2>2. w'.engine = w.engine
    BY <1>0, <1>6, StartFields DEF SameEvaluations
  <2> QED
    BY <2>1, <2>2
<1>7. CASE Finish
  <2>1. /\ Traversing(list) /\ TraverseList(w'.knobs) = list /\ w.engine = "traverse"
        /\ w'.knobs = w.knobs /\ w'.perf = w.perf /\ w'.options = w.options
        /\ w'.announced = w.announced
        /\ w.pc = "search" /\ w.plan = <<>> /\ w'.pc = "rank"
        /\ w'.lowest = Lowest(w.knobs, w.perf) /\ w'.difference = Difference(w.knobs, w.perf)
    BY <1>0, <1>2, <1>7, FinishFields DEF SameEvaluations, SamePlan
  <2> HIDE DEF list
  <2>2. /\ Len(w.options) \in Nat /\ OnPlan(w, Len(w.options), list)
        /\ w.announced = Len(list) /\ FirstOf(w.options, list)
    BY <1>0, <2>1, AppendSequence DEF Traversing
  <2>3. Len(w.options) = Len(list)
    BY <2>1, <2>2, PlanEnds
  <2> QED
    BY <2>1, <2>2, <2>3 DEF Traversing
<1>8. CASE RankTraversed
  <2>1. /\ Traversing(list) /\ TraverseList(w'.knobs) = list
        /\ w'.knobs = w.knobs /\ w'.perf = w.perf /\ w'.options = w.options
        /\ w'.announced = w.announced /\ w.pc = "rank" /\ w'.pc = "done"
        /\ w'.lowest = w.lowest /\ w'.difference = w.difference
        /\ w'.rank \in TraverseRanks(w.lowest, w.difference)
    BY <1>0, <1>2, <1>8, RankFields DEF SameEvaluations, SamePlan
  <2> HIDE DEF list
  <2> QED
    BY <2>1 DEF Traversing
<1>9. CASE Select \/ \E r \in Regressors : RegressorEnds(r)
  <2>1. Traversing(list) /\ w.pc = "select"
    BY <1>0, <1>2, <1>9, SelectFields DEF SameEvaluations
  <2> QED
    BY <2>1 DEF Traversing
<1>10. CASE w' = w /\ log' = log
  BY <1>10 DEF TraverseInv, Traversing
<1>11. CASE Fails
  <2>1. Traversing(list) /\ w'.pc \in {"error", "crashed"}
    BY <1>0, <1>2, <1>11, FailFields DEF SameEvaluations, Traversing
  <2> QED
    BY <2>1 DEF Traversing
<1> QED
  BY <1>1, <1>3, <1>4, <1>5, <1>6, <1>7, <1>8, <1>9, <1>10, <1>11, WorkerCases

\* A search starts with nothing evaluated and no rank.
LEMMA RankedInvInit == ASSUME SearchInit PROVE RankedInv
<1>1. w.pc = "idle" /\ w.rank = <<>>
  BY DEF SearchInit, NewWorker
<1>2. SearchInv
  BY SearchInvInit
<1> QED
  BY <1>1, <1>2 DEF RankedInv, KnobsInv, RankInv, TraverseInv

\* What traverse was asked to evaluate it has evaluated, in that order, and what
\* it ranks is what came of it.
THEOREM TraverseRanked ==
  ASSUME KnobsListed PROVE EngineSpec => []RankedInv
<1>1. EngineInit => RankedInv
  BY RankedInvInit DEF EngineInit
<1>2. RankedInv /\ [EngineNext]_engineVars => RankedInv'
  <2> SUFFICES ASSUME RankedInv, [EngineNext]_engineVars PROVE RankedInv'
    OBVIOUS
  <2>1. SearchInv /\ KnobsInv /\ RankInv /\ TraverseInv
    BY DEF RankedInv
  <2>2. SearchInv' /\ KnobsInv' /\ RankInv'
    BY <2>1, SearchInvStep, SearchAssumption, KnobsInvStep, RankInvStep
  <2>3. TraverseInv'
    BY <2>1, <2>2, TraverseInvStep
  <2> QED
    BY <2>2, <2>3 DEF RankedInv
<1> QED
  BY <1>1, <1>2, PTL DEF EngineSpec

\* A rank given to features or by traverse is sound.
LEMMA RankedInvSound == ASSUME RankedInv PROVE RankSound
<1> DEFINE knobs == w.knobs
           perf == w.perf
           list == TraverseList(knobs)
           owner == Owner(knobs)
           rank == w.rank
<1> SUFFICES ASSUME w.pc = "done", rank # <<>>
             PROVE  /\ rank \in Bijection(DOMAIN rank, 1..Cardinality(DOMAIN rank))
                    /\ w.engine = "traverse" =>
                         /\ \A n \in 2..Len(perf) : \E i \in DOMAIN rank :
                               w.options[n][i] # knobs[i].ref
                         /\ \A n \in 2..Len(perf) : \A i \in DOMAIN rank :
                               w.options[n][i] # knobs[i].ref => w.lowest[i] <= perf[n]
                         /\ \A i, j \in DOMAIN rank :
                               w.lowest[i] < w.lowest[j] /\ w.difference[i] > w.difference[j]
                               => rank[i] > rank[j]
  BY DEF RankSound
<1>0. KnobList(knobs) /\ Len(knobs) \in Nat /\ DOMAIN knobs = 1..Len(knobs)
  BY AppendSequence DEF RankedInv, KnobsInv, KnobList
<1>1. CASE w.engine # "traverse"
  <2>1. rank \in Bijection(DOMAIN knobs, DOMAIN knobs)
    BY <1>1 DEF RankedInv, RankInv
  <2>2. DOMAIN rank = 1..Len(knobs)
    BY <1>0, <2>1 DEF Bijection, Injection
  <2>3. Cardinality(1..Len(knobs)) = Len(knobs)
    BY <1>0, FS_Interval
  <2> QED
    BY <1>0, <1>1, <2>1, <2>2, <2>3
<1>2. CASE w.engine = "traverse"
  <2> DEFINE low == w.lowest
             diff == w.difference
             all == Traversed(knobs)
  <2>1. /\ FirstOf(w.options, list) /\ Len(w.options) = Len(list)
        /\ low = Lowest(knobs, perf) /\ diff = Difference(knobs, perf)
        /\ rank \in TraverseRanks(low, diff)
    BY <1>2 DEF RankedInv, TraverseInv, Traversing
  <2>2. /\ Sequence(perf) /\ Len(perf) = Len(list) /\ Len(w.options) = Len(perf)
        /\ \A n \in 1..Len(perf) : perf[n] \in Int
    BY <2>1 DEF RankedInv, SearchInv, OwnInv
  <2>3. Len(perf) \in Nat
    BY <2>2, AppendSequence
  <2>4. Traverses(knobs, list, owner)
    BY <1>0, TraverseListOf
  <2>5. /\ DOMAIN low = all
        /\ \A i \in all : /\ low[i] \in Int /\ diff[i] \in Int
                          /\ \A n \in 1..Len(perf) : owner[n] = i => low[i] <= perf[n]
    BY <1>0, <2>1, <2>2, LowestAndDifference
  <2>6. /\ rank \in Bijection(all, 1..Cardinality(all)) /\ DOMAIN rank = all
        /\ \A i, j \in all : Places(low, diff, i) < Places(low, diff, j) => rank[i] > rank[j]
    BY <2>1, <2>5 DEF TraverseRanks, Bijection, Injection
  <2> HIDE DEF low, diff, list, owner, knobs, perf, rank
  <2>7. ASSUME NEW n \in 2..Len(perf)
        PROVE  /\ owner[n] \in all
               /\ \A i \in all : w.options[n][i] # knobs[i].ref <=> i = owner[n]
    <3>0. n \in 2..Len(list) /\ w.options[n] = list[n]
      BY <2>1, <2>2, <2>3 DEF FirstOf
    <3>1. PICK i \in 1..Len(knobs) : \E j \in 1..Len(Alternatives(knobs[i])) :
                 TraversesAt(knobs, list, owner, n, i, j)
      BY <2>4, <3>0 DEF Traverses
    <3>2. PICK j \in 1..Len(Alternatives(knobs[i])) :
                 TraversesAt(knobs, list, owner, n, i, j)
      BY <3>1
    <3>3. /\ owner[n] = i
          /\ w.options[n] = [Defaults(knobs) EXCEPT ![i] = Alternatives(knobs[i])[j]]
      BY <3>0, <3>2 DEF TraversesAt
    <3>4. Sequence(Alternatives(knobs[i])) /\ Alternatives(knobs[i])[j] # knobs[i].ref
      BY <1>0, AlternativesDiffer DEF KnobList
    <3>5. Alternatives(knobs[i]) # <<>>
      BY <3>4, EmptySequence
    <3>6. i \in all
      BY <1>0, <3>5 DEF Traversed
    <3>7. \A k \in DOMAIN knobs : Defaults(knobs)[k] = knobs[k].ref
      BY DEF Defaults
    <3>8. DOMAIN Defaults(knobs) = DOMAIN knobs /\ all \subseteq DOMAIN knobs
      BY DEF Defaults, Traversed
    <3> QED
      BY <3>3, <3>4, <3>6, <3>7, <3>8
  <2>8. \A n \in 2..Len(perf) : \E i \in DOMAIN rank : w.options[n][i] # knobs[i].ref
    BY <2>6, <2>7
  <2>9. \A n \in 2..Len(perf) : \A i \in DOMAIN rank :
           w.options[n][i] # knobs[i].ref => low[i] <= perf[n]
    <3> TAKE n \in 2..Len(perf)
    <3> TAKE i \in DOMAIN rank
    <3> HAVE w.options[n][i] # knobs[i].ref
    <3>1. i \in all /\ owner[n] = i /\ n \in 1..Len(perf)
      BY <2>3, <2>6, <2>7
    <3> QED
      BY <2>5, <3>1
  <2>10. \A i, j \in DOMAIN rank : low[i] < low[j] /\ diff[i] > diff[j] => rank[i] > rank[j]
    <3> TAKE i, j \in DOMAIN rank
    <3> HAVE low[i] < low[j] /\ diff[i] > diff[j]
    <3>1. all \subseteq 1..Len(knobs) /\ all \subseteq Int
      BY <1>0 DEF Traversed
    <3>2. IsFiniteSet(1..Len(knobs))
      BY <1>0, FS_Interval
    <3>3. IsFiniteSet(all)
      BY <3>1, <3>2, FS_Subset
    <3>4. i \in DOMAIN low /\ j \in DOMAIN low
      BY <2>5, <2>6
    <3> HIDE DEF all
    <3>5. Places(low, diff, i) < Places(low, diff, j)
      BY <2>5, <3>1, <3>3, <3>4, PlacesOrdered
    <3> QED
      BY <2>5, <2>6, <3>4, <3>5
  <2> QED
    BY <2>6, <2>8, <2>9, <2>10 DEF low, diff, knobs, perf, rank
<1> QED
  BY <1>1, <1>2

\* The ranks are 1 to n, one for each knob that was tried, and in the order of
\* what the knobs reached and how much they changed (get_traverse_rank).
THEOREM RanksSound ==
  ASSUME KnobsListed PROVE EngineSpec => []RankSound
BY TraverseRanked, RankedInvSound, PTL

-----------------------------------------------------------------------------
(* How many evaluations the other engines ask for                          *)

Engines == {"abtest", "gridsearch", "traverse", "lhs", "bayes", "tpe", "ppo"}

\* A worker starts without a plan, and knows how many evaluations there are.
StartInv ==
    /\ w.pc = "idle" => log = <<>>
    /\ w.pc = "start" =>
          /\ w.options = <<>> /\ w.plan = <<>> /\ w.calls = 0 /\ w.done = Len(log)
          /\ w.engine \in {"gridsearch", "abtest"} \/ Len(log) <= MaxEval
    /\ w.pc \notin {"idle", "start"} => w.engine \in Engines

\* So many calls of the objective are left of the total.
CallsLeft(v, made, total) ==
    /\ v.pc \in {"search", "objective"} =>
          v.plan = <<>> /\ v.calls \in Nat /\ made + Asking(v) + v.calls = total
    /\ v.pc \in {"select", "rank", "done"} => made = total

Rollouts == 5 * ((MaxEval + 4) \div 5)

CallsInv ==
    w.pc # "idle" =>
        /\ w.engine = "bayes" => CallsLeft(w, Len(log), MaxEval)
        /\ w.engine = "tpe" => CallsLeft(w, Len(w.options), MaxEval)
        /\ w.engine = "ppo" => CallsLeft(w, Len(w.options), Rollouts)

\* The samples are a list of max_eval settings.
Sampling(v) ==
    /\ v.pc \in {"search", "objective"} =>
          \E list : OnPlan(v, Len(v.options), list) /\ Len(list) = MaxEval
    /\ v.pc \in {"select", "rank", "done"} => Len(v.options) = MaxEval
SamplingInv == w.pc # "idle" /\ w.engine = "lhs" => Sampling(w)

\* Before it starts an engine has no plan and no evaluation.
LEMMA StartInvStep ==
  ASSUME SearchAssumption, SearchInv, StartInv, [EngineNext]_engineVars
  PROVE  StartInv'
<1>0. DOMAIN w = SearchFields /\ Len(log) \in Nat
  BY AppendSequence DEF SearchInv, OwnInv, LogInv
<1>1. CASE (\E t \in Tasks : CreateTask(t)) \/ Lose
  <2>1. /\ w'.pc = "start" /\ w'.options = <<>> /\ w'.plan = <<>> /\ w'.calls = 0 /\ log' = log
        /\ \/ w.pc = "idle" /\ w'.done = 0
           \/ /\ w'.done = Len(log) /\ w'.engine = w.engine
              /\ Len(log) < MaxEval \/ w.engine \in {"gridsearch", "abtest"}
    BY <1>0, <1>1, NewFields
  <2>2. CASE w.pc = "idle" /\ w'.done = 0
    <3>1. log = <<>> /\ Len(log) = 0 /\ MaxEval \in Nat
      BY <2>2, EmptySequence DEF StartInv, SearchAssumption
    <3>2. 0 <= MaxEval
      BY <3>1
    <3> QED
      BY <2>1, <2>2, <3>1, <3>2 DEF StartInv
  <2>3. CASE /\ w'.done = Len(log) /\ w'.engine = w.engine
             /\ Len(log) < MaxEval \/ w.engine \in {"gridsearch", "abtest"}
    <3>1. Len(log) < MaxEval => Len(log) <= MaxEval
      BY <1>0 DEF SearchAssumption
    <3> QED
      BY <2>1, <2>3, <3>1 DEF StartInv
  <2> QED
    BY <2>1, <2>2, <2>3
<1>2. ASSUME NEW v \in Values, Tell(v) PROVE StartInv'
  <2>1. w.pc = "objective" /\ w'.pc = "search" /\ w'.engine = w.engine
    BY <1>0, <1>2, TellFields, TellKeeps
  <2> QED
    BY <2>1 DEF StartInv
<1>3. CASE StartABtest \/ StartGridsearch \/ StartTraverse \/ StartSampling \/ StartModel
  <2>1. w'.pc \in {"search", "error"} /\ w'.engine = w.engine
    BY <1>0, <1>3, StartFields DEF SameEvaluations
  <2>2. w.engine \in Engines
    BY <1>3 DEF StartABtest, StartGridsearch, StartTraverse, StartSampling, StartModel, Engines
  <2> QED
    BY <2>1, <2>2 DEF StartInv
<1>4. CASE Ask
  BY <1>0, <1>4, AskFields DEF StartInv, SameEvaluations
<1>5. CASE Finish
  BY <1>0, <1>5, FinishFields DEF StartInv, SameEvaluations
<1>6. CASE RankTraversed
  BY <1>0, <1>6, RankFields DEF StartInv, SameEvaluations
<1>7. CASE Select \/ \E r \in Regressors : RegressorEnds(r)
  BY <1>0, <1>7, SelectFields DEF StartInv, SameEvaluations
<1>8. CASE w' = w /\ log' = log
  BY <1>8 DEF StartInv
<1>9. CASE Fails
  BY <1>0, <1>9, FailFields DEF StartInv, SameEvaluations
<1> QED
  BY <1>1, <1>2, <1>3, <1>4, <1>5, <1>6, <1>7, <1>8, <1>9, WorkerCases

\* A step of the worker after its start, made evaluations of which made are told.
LEMMA CallsStep ==
  ASSUME DOMAIN w = SearchFields, NEW made \in Nat, NEW total, CallsLeft(w, made, total)
  PROVE  /\ Ask => CallsLeft(w', made, total)
         /\ w.pc = "objective" /\ w'.pc = "search" /\ w'.plan = w.plan /\ w'.calls = w.calls
               => CallsLeft(w', made + 1, total)
         /\ Finish => CallsLeft(w', made, total)
         /\ RankTraversed => CallsLeft(w', made, total)
         /\ (Select \/ \E r \in Regressors : RegressorEnds(r)) => CallsLeft(w', made, total)
         /\ Fails => CallsLeft(w', made, total)
<1>1. ASSUME Ask PROVE CallsLeft(w', made, total)
  <2>1. /\ w.pc = "search" /\ w'.pc = "objective" /\ w.plan = <<>> /\ w.calls \in Nat
        /\ made + Asking(w) + w.calls = total
        /\ w.calls > 0 /\ w'.plan = w.plan /\ w'.calls = w.calls - 1
    BY <1>1, AskFields DEF CallsLeft
  <2>2. Asking(w) = 0 /\ Asking(w') = 1
    BY <2>1 DEF Asking
  <2>3. w'.calls \in Nat /\ made + 1 + w'.calls = total
    BY <2>1, <2>2
  <2> QED
    BY <2>1, <2>2, <2>3 DEF CallsLeft
<1>2. ASSUME w.pc = "objective", w'.pc = "search", w'.plan = w.plan, w'.calls = w.calls
      PROVE  CallsLeft(w', made + 1, total)
  <2>1. Asking(w) = 1 /\ Asking(w') = 0
    BY <1>2 DEF Asking
  <2>2. w.plan = <<>> /\ w.calls \in Nat /\ made + 1 + w.calls = total
    BY <1>2, <2>1 DEF CallsLeft
  <2>3. made + 1 + 0 + w.calls = total
    BY <2>2
  <2> QED
    BY <1>2, <2>1, <2>2, <2>3 DEF CallsLeft
<1>3. ASSUME Finish PROVE CallsLeft(w', made, total)
  <2>1. w.pc = "search" /\ w.calls = 0 /\ w'.pc \in {"rank", "done", "select"}
    BY <1>3, FinishFields
  <2>2. made + 0 + 0 = total
    BY <2>1 DEF CallsLeft, Asking
  <2> QED
    BY <2>1, <2>2 DEF CallsLeft
<1>4. ASSUME RankTraversed PROVE CallsLeft(w', made, total)
  BY <1>4, RankFields DEF CallsLeft
<1>5. ASSUME Select \/ \E r \in Regressors : RegressorEnds(r) PROVE CallsLeft(w', made, total)
  BY <1>5, SelectFields DEF CallsLeft
<1>6. ASSUME Fails PROVE CallsLeft(w', made, total)
  BY <1>6, FailFields DEF CallsLeft
<1> QED
  BY <1>1, <1>2, <1>3, <1>4, <1>5, <1>6

\* The rollouts of the policy are enough for the evaluations of any task.
LEMMA RolloutsEnough ==
  ASSUME SearchAssumption PROVE Rollouts \in Nat /\ Rollouts >= MaxEval
<1>1. MaxEval \in Nat
  BY DEF SearchAssumption
<1>2. (MaxEval + 4) \div 5 \in Nat /\ 5 * ((MaxEval + 4) \div 5) >= MaxEval
  BY <1>1
<1> QED
  BY <1>2 DEF Rollouts

\* A model that starts may be called as often as was announced.
LEMMA CallsStart ==
  ASSUME SearchAssumption, SearchInv, StartInv, StartModel
  PROVE  CallsInv'
<1>0. DOMAIN w = SearchFields /\ Len(log) \in Nat
  BY AppendSequence DEF SearchInv, OwnInv, LogInv
<1> DEFINE calls == CASE w.engine = "bayes" -> MaxEval - w.done
                      [] w.engine = "tpe" -> MaxEval
                      [] w.engine = "ppo" -> 5 * ((MaxEval + 4) \div 5)
<1>e. CASE w' = [w EXCEPT !.pc = "error"]
  <2>1. w'.pc = "error"
    BY <1>0, <1>e DEF SearchFields
  <2> QED
    BY <2>1 DEF CallsInv, CallsLeft
<1> SUFFICES ASSUME w' # [w EXCEPT !.pc = "error"] PROVE CallsInv'
  BY <1>e
<1>1. w.pc = "start" /\ w' = [w EXCEPT !.pc = "search", !.calls = calls] /\ log' = log
  BY DEF StartModel
<1>2. /\ w.engine = "bayes" => calls = MaxEval - w.done
      /\ w.engine = "tpe" => calls = MaxEval
      /\ w.engine = "ppo" => calls = Rollouts
  BY DEF Rollouts
<1> HIDE DEF calls
<1>3. /\ w'.pc = "search" /\ w'.calls = calls /\ w'.plan = w.plan /\ w'.options = w.options
      /\ w'.engine = w.engine /\ Asking(w') = 0
  BY <1>0, <1>1 DEF SearchFields, Asking
<1>4. /\ w.options = <<>> /\ w.plan = <<>> /\ w.done = Len(log)
      /\ w.engine = "bayes" => Len(log) <= MaxEval
  BY <1>1 DEF StartInv
<1>5. MaxEval \in Nat /\ Rollouts \in Nat
  BY RolloutsEnough DEF SearchAssumption
<1>6. w.engine = "bayes" => CallsLeft(w', Len(log'), MaxEval)
  <2> HAVE w.engine = "bayes"
  <2>1. calls \in Nat /\ Len(log) + 0 + calls = MaxEval
    BY <1>0, <1>2, <1>4, <1>5
  <2> QED
    BY <1>1, <1>3, <1>4, <2>1 DEF CallsLeft
<1>7. w.engine = "tpe" => CallsLeft(w', Len(w'.options), MaxEval)
  <2> HAVE w.engine = "tpe"
  <2>1. calls \in Nat /\ 0 + 0 + calls = MaxEval
    BY <1>2, <1>5
  <2> QED
    BY <1>3, <1>4, <2>1, EmptySequence DEF CallsLeft
<1>8. w.engine = "ppo" => CallsLeft(w', Len(w'.options), Rollouts)
  <2> HAVE w.engine = "ppo"
  <2>1. calls \in Nat /\ 0 + 0 + calls = Rollouts
    BY <1>2, <1>5
  <2> QED
    BY <1>3, <1>4, <2>1, EmptySequence DEF CallsLeft
<1> QED
  BY <1>3, <1>6, <1>7, <1>8 DEF CallsInv, Rollouts

\* The calls left and the evaluations made stay what was announced.
LEMMA CallsInvStep ==
  ASSUME SearchAssumption, SearchInv, StartInv, CallsInv, [EngineNext]_engineVars
  PROVE  CallsInv'
<1>0. /\ DOMAIN w = SearchFields /\ Len(log) \in Nat /\ Len(w.options) \in Nat
      /\ Sequence(log) /\ Sequence(w.options)
  BY AppendSequence DEF SearchInv, OwnInv, LogInv
<1>1. CASE (\E t \in Tasks : CreateTask(t)) \/ Lose
  <2>1. w'.pc = "start"
    BY <1>0, <1>1, NewFields
  <2> QED
    BY <2>1 DEF CallsInv, CallsLeft
<1>2. ASSUME NEW v \in Values, Tell(v) PROVE CallsInv'
  <2>1. /\ w.pc = "objective" /\ w'.pc = "search" /\ w'.engine = w.engine
        /\ w'.options = Append(w.options, w.asked)
        /\ log' = Append(log, [setting |-> w.asked, value |-> v])
        /\ w.engine # "abtest" => w'.plan = w.plan /\ w'.calls = w.calls
    BY <1>0, <1>2, TellFields, TellKeeps
  <2>2. Len(w'.options) = Len(w.options) + 1 /\ Len(log') = Len(log) + 1
    BY <1>0, <2>1, AppendSequence
  <2>3. w.engine = "bayes" => CallsLeft(w', Len(log) + 1, MaxEval)
    BY <1>0, <2>1, CallsStep DEF CallsInv
  <2>4. w.engine = "tpe" => CallsLeft(w', Len(w.options) + 1, MaxEval)
    BY <1>0, <2>1, CallsStep DEF CallsInv
  <2>5. w.engine = "ppo" => CallsLeft(w', Len(w.options) + 1, Rollouts)
    BY <1>0, <2>1, CallsStep DEF CallsInv
  <2> QED
    BY <2>1, <2>2, <2>3, <2>4, <2>5 DEF CallsInv, Rollouts
<1>3. CASE StartModel
  BY <1>3, CallsStart
<1>4. CASE StartABtest \/ StartGridsearch \/ StartTraverse \/ StartSampling
  <2>1. w.engine \notin {"bayes", "tpe", "ppo"}
    BY <1>4 DEF StartABtest, StartGridsearch, StartTraverse, StartSampling
  <2>2. w'.engine = w.engine
    BY <1>0, <1>4, StartFields DEF SameEvaluations
  <2> QED
    BY <2>1, <2>2 DEF CallsInv
<1>5. CASE \/ Ask \/ Finish \/ RankTraversed \/ Select
           \/ (\E r \in Regressors : RegressorEnds(r)) \/ Fails
  <2>1. /\ w.pc # "idle" /\ w'.engine = w.engine /\ w'.options = w.options /\ log' = log
    BY <1>0, <1>5, OtherSteps, WorkerRuns DEF SameEvaluations, OtherStep
  <2>2. w.engine = "bayes" => CallsLeft(w', Len(log), MaxEval)
    BY <1>0, <1>5, <2>1, CallsStep DEF CallsInv
  <2>3. w.engine = "tpe" => CallsLeft(w', Len(w.options), MaxEval)
    BY <1>0, <1>5, <2>1, CallsStep DEF CallsInv
  <2>4. w.engine = "ppo" => CallsLeft(w', Len(w.options), Rollouts)
    BY <1>0, <1>5, <2>1, CallsStep DEF CallsInv
  <2> QED
    BY <2>1, <2>2, <2>3, <2>4 DEF CallsInv, Rollouts
<1>6. CASE w' = w /\ log' = log
  BY <1>6 DEF CallsInv
<1> QED
  BY <1>1, <1>2, <1>3, <1>4, <1>5, <1>6, WorkerCases

\* Every step keeps the evaluations of the engines that sample.
LEMMA SamplingInvStep ==
  ASSUME SearchAssumption, SearchInv, StartInv, SamplingInv, [EngineNext]_engineVars
  PROVE  SamplingInv'
<1>0. DOMAIN w = SearchFields /\ Len(w.options) \in Nat /\ Sequence(w.options)
  BY AppendSequence DEF SearchInv, OwnInv
<1> SUFFICES ASSUME w'.pc # "idle", w'.engine = "lhs" PROVE Sampling(w')
  BY DEF SamplingInv
<1>1. CASE (\E t \in Tasks : CreateTask(t)) \/ Lose
  <2>1. w'.pc = "start"
    BY <1>0, <1>1, NewFields
  <2> QED
    BY <2>1 DEF Sampling
<1>2. ASSUME NEW v \in Values, Tell(v) PROVE Sampling(w')
  <2>1. /\ w.pc = "objective" /\ w'.pc = "search" /\ w.engine = "lhs"
        /\ w'.options = Append(w.options, w.asked)
        /\ w'.plan = w.plan /\ w'.calls = w.calls
    BY <1>0, <1>2, TellFields, TellKeeps
  <2>2. Len(w'.options) = Len(w.options) + 1
    BY <1>0, <2>1, AppendSequence
  <2>3. PICK list : OnPlan(w, Len(w.options), list) /\ Len(list) = MaxEval
    BY <2>1 DEF SamplingInv, Sampling
  <2>4. OnPlan(w', Len(w.options) + 1, list)
    BY <1>0, <2>1, <2>3, PlanTells
  <2> QED
    BY <2>1, <2>2, <2>3, <2>4 DEF Sampling
<1>3. CASE StartSampling
  <2> DEFINE D == [1..MaxEval ->
                     Product([i \in DOMAIN w.knobs |-> ToSet(SamplingItems(w.knobs[i]))])]
  <2>1. PICK draw \in D : w.pc = "start" /\ w' = [w EXCEPT !.pc = "search", !.plan = draw]
    BY <1>3 DEF StartSampling
  <2>2. draw = [n \in 1..MaxEval |-> draw[n]] /\ MaxEval \in Nat
    BY DEF SearchAssumption
  <2> HIDE DEF D
  <2>3. Sequence(draw) /\ Len(draw) = MaxEval
    BY <2>2, MadeSequence
  <2>4. /\ w'.pc = "search" /\ w'.plan = draw /\ w'.options = <<>> /\ w'.calls = 0
        /\ Len(w'.options) = 0
    BY <1>0, <2>1, EmptySequence DEF StartInv, SearchFields
  <2>5. Asking(w') = 0
    BY <2>4 DEF Asking
  <2>6. 0 + 0 + Len(draw) = Len(draw) /\ \A n \in 1..Len(draw) : 0 + 0 + n = n
    BY <2>2, <2>3
  <2>7. OnPlan(w', 0, draw)
    BY <2>3, <2>4, <2>5, <2>6 DEF OnPlan
  <2> QED
    BY <2>3, <2>4, <2>7 DEF Sampling
<1>4. CASE StartABtest \/ StartGridsearch \/ StartTraverse \/ StartModel
  <2>1. w.engine # "lhs"
    BY <1>4 DEF StartABtest, StartGridsearch, StartTraverse, StartModel
  <2>2. w'.engine = w.engine
    BY <1>0, <1>4, StartFields DEF SameEvaluations
  <2> QED
    BY <2>1, <2>2
<1>5. CASE Ask
  <2>1. /\ w.pc = "search" /\ w'.pc = "objective" /\ w.engine = "lhs" /\ w'.options = w.options
    BY <1>0, <1>5, AskFields DEF SameEvaluations
  <2>2. PICK list : OnPlan(w, Len(w.options), list) /\ Len(list) = MaxEval
    BY <2>1 DEF SamplingInv, Sampling
  <2>3. OnPlan(w', Len(w.options), list)
    BY <1>0, <1>5, <2>2, PlanAsks
  <2> QED
    BY <2>1, <2>2, <2>3 DEF Sampling
<1>6. CASE Finish
  <2>1. /\ w.pc = "search" /\ w.plan = <<>> /\ w.engine = "lhs" /\ w'.options = w.options
        /\ w'.pc \in {"rank", "done", "select"}
    BY <1>0, <1>6, FinishFields DEF SameEvaluations
  <2>2. PICK list : OnPlan(w, Len(w.options), list) /\ Len(list) = MaxEval
    BY <2>1 DEF SamplingInv, Sampling
  <2>3. Len(w.options) = MaxEval
    BY <1>0, <2>1, <2>2, PlanEnds
  <2> QED
    BY <2>1, <2>3 DEF Sampling
<1>7. CASE RankTraversed
  BY <1>0, <1>7, RankFields DEF Sampling, SamplingInv, SameEvaluations
<1>8. CASE Select \/ \E r \in Regressors : RegressorEnds(r)
  BY <1>0, <1>8, SelectFields DEF Sampling, SamplingInv, SameEvaluations
<1>9. CASE w' = w /\ log' = log
  BY <1>9 DEF SamplingInv
<1>10. CASE Fails
  BY <1>0, <1>10, FailFields DEF Sampling, SamplingInv, SameEvaluations
<1> QED
  BY <1>1, <1>2, <1>3, <1>4, <1>5, <1>6, <1>7, <1>8, <1>9, <1>10, WorkerCases

-----------------------------------------------------------------------------
(* abtest covers the items of every knob                                   *)

ItemLists(knobs) == [i \in 1..Len(knobs) |-> ABtestItems(knobs[i])]
Announced(knobs) == FoldLeft(LAMBDA a, k : a + Len(ABtestItems(k)), 0, knobs)

\* What abtest announces is the number of all items.
LEMMA AllItems ==
  ASSUME NEW knobs, Triable(knobs), NEW at, Ends(ItemLists(knobs), at)
  PROVE  Announced(knobs) = at[Len(knobs)]
<1> DEFINE N == Len(knobs)
           it == CHOOSE f : f = [s \in SUBSET (DOMAIN knobs) |->
                      IF s = {} THEN 0
                      ELSE f[s \ {Max(s)}] + Len(ABtestItems(knobs[Max(s)]))]
           G == [n \in 1..N |-> [v \in Nat |-> v + Len(ABtestItems(knobs[n]))]]
<1>1. Announced(knobs) = it[DOMAIN knobs]
  BY DEF Announced, FoldLeft, MapThenFoldSet
<1>2. N \in Nat /\ DOMAIN knobs = 1..N
  BY AppendSequence DEF Triable
<1>3. \A n \in 1..N : Len(ABtestItems(knobs[n])) \in Nat
  <2> TAKE n \in 1..N
  <2>1. Sequence(ABtestItems(knobs[n]))
    BY DEF Triable
  <2> QED
    BY <2>1, AppendSequence
<1>4. G \in [1..N -> [Nat -> Nat]]
  BY <1>3
<1>5. \A n \in 1..N : \A v \in Nat : G[n][v] = v + Len(ABtestItems(knobs[n]))
  OBVIOUS
<1> HIDE DEF G, N
<1>6. PICK f \in [SUBSET (1..N) -> Nat] : Folding(N, 0, G, f)
  <2>1. 0 \in Nat
    OBVIOUS
  <2> QED
    BY <1>2, <1>4, <2>1, FoldExists
<1> DEFINE Next(g, s) == IF s = {} THEN 0
                         ELSE g[s \ {Max(s)}] + Len(ABtestItems(knobs[Max(s)]))
<1>7. ASSUME NEW s \in SUBSET (1..N), s # {} PROVE Max(s) \in 1..N
  BY <1>2, <1>7, MaxOfSome
<1>8. ASSUME NEW s \in SUBSET (1..N) PROVE f[s] = Next(f, s)
  <2>1. CASE s = {}
    BY <1>6, <2>1 DEF Folding
  <2>2. CASE s # {}
    <3>1. Max(s) \in 1..N /\ f[s] = G[Max(s)][f[s \ {Max(s)}]] /\ f[s \ {Max(s)}] \in Nat
      BY <1>6, <1>7, <2>2 DEF Folding
    <3> QED
      BY <1>5, <2>2, <3>1
  <2> QED
    BY <2>1, <2>2
<1>9. f = [s \in SUBSET (1..N) |-> Next(f, s)]
  BY <1>8
<1>10. it = [s \in SUBSET (1..N) |-> Next(it, s)]
  BY <1>2, <1>9
<1> HIDE DEF it
<1>11. ASSUME NEW s \in SUBSET (1..N) PROVE it[s] = Next(it, s)
  BY <1>10, Zenon
<1>12. it[{}] = 0
  BY <1>11
<1>13. FoldingIn(N, Nat, 0, G, it)
  BY <1>5, <1>7, <1>11, <1>12 DEF FoldingIn
<1>14. PICK h \in [0..N -> Nat] : Recursion(N, 0, G, h) /\ it[1..N] = h[N]
  <2> DEFINE V == Nat
             none == 0
  <2>1. /\ N \in Nat /\ none \in V /\ G \in [1..N -> [V -> V]]
        /\ FoldingIn(N, V, none, G, it)
    BY <1>2, <1>4, <1>13
  <2> HIDE DEF V, none
  <2>2. \E h \in [0..N -> V] : Recursion(N, none, G, h) /\ it[1..N] = h[N]
    BY ONLY <2>1, FoldSteps
  <2> QED
    BY <2>2 DEF V, none
<1> DEFINE S == {n \in 0..N : h[n] = at[n]}
<1>15. 0 \in S
  BY <1>2, <1>14 DEF Recursion, Ends
<1>16. \A n \in 0..N - 1 : n \in S => n + 1 \in S
  <2> TAKE n \in 0..N - 1
  <2> HAVE n \in S
  <2>1. n + 1 \in 1..N /\ n + 1 - 1 = n /\ n + 1 \in 0..N /\ n \in 0..N
    BY <1>2
  <2>2. h[n + 1] = G[n + 1][h[n]] /\ h[n] \in Nat
    BY <1>14, <2>1 DEF Recursion
  <2>3. h[n + 1] = h[n] + Len(ABtestItems(knobs[n + 1]))
    BY <1>5, <2>1, <2>2
  <2>4. at[n + 1] = at[n] + Len(ABtestItems(knobs[n + 1]))
    <3> DEFINE lists == ItemLists(knobs)
    <3>1. Len(lists) = N /\ lists[n + 1] = ABtestItems(knobs[n + 1])
      BY <1>2, <2>1 DEF ItemLists, N
    <3> HIDE DEF lists
    <3>2. at[n + 1] = at[n + 1 - 1] + Len(lists[n + 1])
      BY <2>1, <3>1 DEF Ends, lists
    <3> QED
      BY <2>1, <3>1, <3>2
  <2> QED
    BY <2>1, <2>3, <2>4
<1> HIDE DEF S
<1>17. \A n \in 0..N : n \in S
  BY <1>2, <1>15, <1>16, UpTo
<1>18. h[N] = at[N]
  BY <1>2, <1>17 DEF S
<1> QED
  BY <1>1, <1>2, <1>14, <1>18 DEF N

\* Evaluation n was that of item j of knob i, with the best of the knobs before
\* it and the first items of those after it.
SweptAt(v, n, i, j) ==
    /\ n \in 1..Len(v.options)
    /\ \A l \in 1..Len(v.knobs) :
          v.options[n][l] = IF l < i THEN v.best[l]
                            ELSE IF l = i THEN ABtestItems(v.knobs[i])[j]
                            ELSE ABtestItems(v.knobs[l])[1]
SweptKnob(v, at, i) ==
    \A j \in 1..Len(ABtestItems(v.knobs[i])) : SweptAt(v, at[i - 1] + j, i, j)
SweptTo(v, at, top) == \A i \in 1..top : SweptKnob(v, at, i)

\* The sweep of knob i with best is what v evaluated last.
LastSwept(v, at, i, best) ==
    /\ best = [j \in 1..Len(v.knobs) |-> best[j]]
    /\ \A j \in i..Len(v.knobs) : best[j] = ABtestItems(v.knobs[j])[1]
    /\ \A j \in 1..Len(v.knobs) : j # i => v.best[j] = best[j]
    /\ Len(v.options) = at[i]
    /\ \A j \in 1..Len(ABtestItems(v.knobs[i])) :
          v.options[at[i - 1] + j] = Sweep(v.knobs, best, i)[j]

SweepUnderway(v, at, m) ==
    Descending(v, m) /\ Len(v.options) = at[v.knob - 1] + m

Sweeping(v, at) ==
    /\ v.pc \in {"search", "objective"} =>
          /\ v.announced = at[Len(v.knobs)] /\ SweptTo(v, at, v.knob - 1)
          /\ \E m \in Nat : SweepUnderway(v, at, m)
    /\ v.pc \in {"select", "done"} =>
          /\ v.announced = at[Len(v.knobs)] /\ SweptTo(v, at, Len(v.knobs))
          /\ Len(v.options) = at[Len(v.knobs)]

SweepingInv ==
    w.pc # "idle" /\ w.engine = "abtest" =>
        \A at : Ends(ItemLists(w.knobs), at) => Sweeping(w, at)

\* Where the items of the knobs end.
LEMMA ItemEnds ==
  ASSUME NEW knobs, Triable(knobs), NEW at, Ends(ItemLists(knobs), at)
  PROVE  /\ Len(knobs) \in Nat /\ \A i \in 0..Len(knobs) : at[i] \in Nat
         /\ at[0] = 0
         /\ \A i \in 1..Len(knobs) : /\ Len(ABtestItems(knobs[i])) \in Nat \ {0}
                                     /\ Sequence(ABtestItems(knobs[i]))
                                     /\ at[i] = at[i - 1] + Len(ABtestItems(knobs[i]))
<1> DEFINE lists == ItemLists(knobs)
<1>1. Len(knobs) \in Nat
  BY AppendSequence DEF Triable
<1>2. lists = [i \in 1..Len(knobs) |-> ABtestItems(knobs[i])]
  BY DEF ItemLists
<1>3. Len(lists) = Len(knobs) /\ \A i \in 1..Len(knobs) : lists[i] = ABtestItems(knobs[i])
  BY <1>1, <1>2
<1> HIDE DEF lists
<1>4. \A i \in 1..Len(knobs) : /\ Len(ABtestItems(knobs[i])) \in Nat \ {0}
                               /\ Sequence(ABtestItems(knobs[i]))
  <2> TAKE i \in 1..Len(knobs)
  <2>1. Sequence(ABtestItems(knobs[i])) /\ Len(ABtestItems(knobs[i])) > 0
    BY DEF Triable
  <2> QED
    BY <2>1, AppendSequence
<1>5. at \in [0..Len(knobs) -> Nat] /\ at[0] = 0
      /\ \A i \in 1..Len(knobs) : at[i] = at[i - 1] + Len(lists[i])
  BY <1>3 DEF Ends, lists
<1> QED
  BY <1>1, <1>3, <1>4, <1>5

\* abtest starts with the first item of its first knob.
LEMMA SweepingStarts ==
  ASSUME SearchInv, SteadyInv, w.engine = "abtest", w.options = <<>>, w.calls = 0, StartABtest,
         NEW at, Ends(ItemLists(w.knobs), at)
  PROVE  Sweeping(w', at)
<1>0. DOMAIN w = SearchFields
  BY DEF SearchInv, OwnInv
<1>1. w.pc = "start" /\ Triable(w.knobs)
  BY DEF StartABtest, SteadyInv
<1>2. w' = [w EXCEPT !.pc = "search", !.knob = 1, !.best = FirstItems(w.knobs),
                     !.announced = Announced(w.knobs),
                     !.plan = Sweep(w.knobs, FirstItems(w.knobs), 1)]
  BY DEF StartABtest, Announced
<1>3. /\ w'.pc = "search" /\ w'.knob = 1 /\ w'.announced = Announced(w.knobs)
      /\ w'.options = <<>> /\ w'.knobs = w.knobs
  BY <1>0, <1>2 DEF SearchFields
<1>4. Descending(w', 0)
  BY <1>1, DescentStarts
<1>5. w'.announced = at[Len(w'.knobs)]
  BY <1>1, <1>3, AllItems
<1>6. SweptTo(w', at, w'.knob - 1)
  BY <1>3 DEF SweptTo
<1>7. SweepUnderway(w', at, 0)
  <2>1. at[0] = 0 /\ Len(w'.options) = 0
    BY <1>1, <1>3, ItemEnds, EmptySequence
  <2>2. w'.knob - 1 = 0
    BY <1>3
  <2> QED
    BY <1>4, <2>1, <2>2 DEF SweepUnderway
<1> QED
  BY <1>3, <1>5, <1>6, <1>7 DEF Sweeping

\* What was swept stays swept.
LEMMA SweptStays ==
  ASSUME NEW v, NEW u, NEW at, NEW top \in Nat, SweptTo(v, at, top), u.knobs = v.knobs,
         top <= Len(v.knobs), Len(v.knobs) \in Nat,
         Len(v.options) \in Nat, Len(u.options) \in Nat, Len(v.options) <= Len(u.options),
         \A n \in 1..Len(v.options) : u.options[n] = v.options[n],
         \A l \in 1..top : u.best[l] = v.best[l]
  PROVE  SweptTo(u, at, top)
<1> SUFFICES ASSUME NEW i \in 1..top, NEW j \in 1..Len(ABtestItems(v.knobs[i]))
             PROVE  SweptAt(u, at[i - 1] + j, i, j)
  BY DEF SweptTo, SweptKnob
<1> DEFINE n == at[i - 1] + j
<1>1. SweptAt(v, n, i, j)
  BY DEF SweptTo, SweptKnob
<1> HIDE DEF n
<1>2. n \in 1..Len(u.options) /\ u.options[n] = v.options[n]
  BY <1>1 DEF SweptAt
<1>3. \A l \in 1..Len(v.knobs) : l < i => l \in 1..top
  OBVIOUS
<1>4. SweptAt(u, n, i, j)
  BY <1>1, <1>2, <1>3 DEF SweptAt
<1> QED
  BY <1>4 DEF n

\* The sweep of one more knob is over.
LEMMA SweptNext ==
  ASSUME NEW v, NEW at, Ends(ItemLists(v.knobs), at), Triable(v.knobs),
         NEW i \in 1..Len(v.knobs), NEW best, LastSwept(v, at, i, best)
  PROVE  SweptKnob(v, at, i)
<1> SUFFICES ASSUME NEW j \in 1..Len(ABtestItems(v.knobs[i]))
             PROVE  SweptAt(v, at[i - 1] + j, i, j)
  BY DEF SweptKnob
<1> USE DEF LastSwept
<1>0. Sweep(v.knobs, best, i)[j] = [best EXCEPT ![i] = ABtestItems(v.knobs[i])[j]]
  <2> DEFINE knobs == v.knobs
  <2>1. Sequence(ABtestItems(knobs[i]))
    BY ItemEnds
  <2> HIDE DEF knobs
  <2>2. \A k \in 1..Len(ABtestItems(knobs[i])) :
           Sweep(knobs, best, i)[k] = [best EXCEPT ![i] = ABtestItems(knobs[i])[k]]
    BY ONLY <2>1, SweepItems
  <2> QED
    BY <2>2 DEF knobs
<1> DEFINE items == ABtestItems(v.knobs[i])
           n == at[i - 1] + j
<1>1. /\ Len(v.knobs) \in Nat /\ at[i] \in Nat /\ at[i - 1] \in Nat
      /\ at[i] = at[i - 1] + Len(items) /\ Len(items) \in Nat /\ Sequence(items)
  BY ItemEnds
<1>2. v.options[n] = [best EXCEPT ![i] = items[j]]
  <2>1. v.options[at[i - 1] + j] = Sweep(v.knobs, best, i)[j]
    OBVIOUS
  <2> QED
    BY <1>0, <2>1
<1>3. n \in 1..Len(v.options)
  BY <1>1
<1> HIDE DEF n, items
<1>4. ASSUME NEW l \in 1..Len(v.knobs)
      PROVE  v.options[n][l] = IF l < i THEN v.best[l]
                               ELSE IF l = i THEN items[j]
                               ELSE ABtestItems(v.knobs[l])[1]
  <2>1. DOMAIN best = 1..Len(v.knobs)
    OBVIOUS
  <2>2. CASE l = i
    <3>1. ~(l < i)
      BY <1>1, <2>2
    <3> QED
      BY <1>2, <2>1, <2>2, <3>1
  <2>3. CASE l # i
    <3>1. v.options[n][l] = best[l]
      BY <1>2, <2>1, <2>3
    <3>2. v.best[l] = best[l]
      BY <2>3
    <3>3. ~(l < i) => l \in i..Len(v.knobs)
      BY <1>1
    <3> QED
      BY <2>3, <3>1, <3>2, <3>3
  <2> QED
    BY <2>2, <2>3
<1> QED
  BY <1>3, <1>4 DEF SweptAt, n, items

\* An evaluation of abtest is that of the item its sweep is at.
LEMMA SweepingTells ==
  ASSUME SearchAssumption, ABtestInv, w.engine = "abtest",
         NEW at, Ends(ItemLists(w.knobs), at), Sweeping(w, at), NEW value \in Values, Tell(value)
  PROVE  Sweeping(w', at)
<1> DEFINE i == w.knob
           N == Len(w.knobs)
           items == ABtestItems(w.knobs[i])
           options == Append(w.options, w.asked)
           l == Len(w.options)
<1>0. /\ SearchInv /\ SteadyInv /\ DOMAIN w = SearchFields /\ Sequence(w.options)
  BY DEF ABtestInv, SearchInv, OwnInv
<1>1. /\ w.pc = "objective" /\ w'.pc = "search" /\ w'.knobs = w.knobs
      /\ w'.options = options /\ w'.announced = w.announced
  BY <1>0, TellFields, TellKeeps DEF SamePlan
<1>2. w.announced = at[N] /\ SweptTo(w, at, i - 1)
  BY <1>1 DEF Sweeping
<1>3. PICK m \in Nat : SweepUnderway(w, at, m)
  BY <1>1 DEF Sweeping
<1>4. Descending(w, m) /\ l = at[i - 1] + m
  BY <1>3 DEF SweepUnderway
<1>5. Triable(w.knobs)
  BY <1>0, <1>1 DEF SteadyInv
<1>6. /\ l \in Nat /\ Sequence(options) /\ Len(options) = l + 1
      /\ \A n \in 1..l : options[n] = w.options[n]
  BY <1>0, AppendSequence
<1>7. Swept(w, options, Append(w.perf, value), m + 1)
  BY <1>0, <1>1, <1>4, DescentSwept
<1>8. KnobsKept(w) /\ DescendsTo(m)
  BY <1>0, <1>1, <1>4, DescentTold DEF Descending
<1>9. N \in Nat /\ i \in 1..N
  <2>1. N \in Nat
    BY <1>5, ItemEnds
  <2>2. i \in 1..N + 1 /\ i <= N
    BY <1>7, <1>8 DEF KnobsKept, Swept
  <2> QED
    BY <2>1, <2>2
<1>10. /\ at[i - 1] \in Nat /\ at[i] = at[i - 1] + Len(items) /\ Len(items) \in Nat
       /\ i - 1 \in Nat /\ i - 1 <= N
  <2>1. /\ \A j \in 0..N : at[j] \in Nat
        /\ \A j \in 1..N : /\ Len(ABtestItems(w.knobs[j])) \in Nat
                           /\ at[j] = at[j - 1] + Len(ABtestItems(w.knobs[j]))
    BY <1>5, ItemEnds
  <2> HIDE DEF N
  <2>2. i - 1 \in 0..N /\ i - 1 \in Nat /\ i - 1 <= N
    BY <1>9
  <2>3. at[i - 1] \in Nat
    BY <2>1, <2>2
  <2>4. Len(items) \in Nat /\ at[i] = at[i - 1] + Len(items)
    BY <1>9, <2>1
  <2> QED
    BY <2>2, <2>3, <2>4
<1> HIDE DEF options, items
<1>a. ASSUME \A j \in 1..i - 1 : w'.best[j] = w.best[j] PROVE SweptTo(w', at, i - 1)
  <2> DEFINE v == w
             u == w'
             top == i - 1
  <2>1. /\ top \in Nat /\ SweptTo(v, at, top) /\ u.knobs = v.knobs
        /\ top <= Len(v.knobs) /\ Len(v.knobs) \in Nat
        /\ Len(v.options) \in Nat /\ Len(u.options) \in Nat /\ Len(v.options) <= Len(u.options)
        /\ \A n \in 1..Len(v.options) : u.options[n] = v.options[n]
        /\ \A j \in 1..top : u.best[j] = v.best[j]
    BY <1>1, <1>2, <1>6, <1>9, <1>10, <1>a
  <2> HIDE DEF v, u, top
  <2>2. SweptTo(u, at, top)
    BY ONLY <2>1, SweptStays
  <2> QED
    BY <2>2 DEF u, top
<1>b. i = w.knob /\ N = Len(w.knobs) /\ l = Len(w.options)
  OBVIOUS
<1> HIDE DEF i, N, l
<1>c. Len(w'.options) = at[i - 1] + (m + 1) /\ at[i - 1] + (m + 1) \in Nat
  <2>1. Len(w'.options) = l + 1
    BY <1>1, <1>6
  <2> QED
    BY <1>4, <1>6, <1>10, <2>1
<1>11. CASE w.plan # <<>>
  <2>1. Descending(w', m + 1) /\ w'.best = w.best /\ w'.knob = i
    BY <1>8, <1>b, <1>11 DEF DescendsTo
  <2>2. SweptTo(w', at, w'.knob - 1)
    BY <1>a, <2>1
  <2>3. Len(w'.options) = at[w'.knob - 1] + (m + 1)
    BY <1>c, <2>1
  <2>4. SweepUnderway(w', at, m + 1) /\ m + 1 \in Nat
    BY <2>1, <2>3 DEF SweepUnderway
  <2>5. w'.announced = at[Len(w'.knobs)]
    BY <1>1, <1>2, <1>b
  <2> QED
    BY <1>1, <2>2, <2>4, <2>5 DEF Sweeping
<1>12. CASE w.plan = <<>>
  <2>1. /\ Descending(w', 0) /\ m + 1 = Len(items) /\ w'.knob = i + 1
        /\ \A j \in 1..N : j # i => w'.best[j] = w.best[j]
    BY <1>8, <1>b, <1>12 DEF DescendsTo, items
  <2>2. SweptTo(w', at, i - 1)
    <3>1. \A j \in 1..i - 1 : w'.best[j] = w.best[j]
      BY <1>9, <2>1
    <3> QED
      BY <1>a, <3>1
  <2>3. Len(w'.options) = at[i]
    BY <1>c, <1>10, <2>1
  <2>4. SweptKnob(w', at, i)
    <3> DEFINE best == w.best
               v == w'
    <3>1. /\ best = [j \in 1..N |-> best[j]]
          /\ \A j \in i..N : best[j] = ABtestItems(w.knobs[j])[1]
      BY <1>8, <1>b DEF KnobsKept
    <3>2. \A j \in 1..Len(items) : v.options[at[i - 1] + j] = Sweep(w.knobs, best, i)[j]
      <4>1. \A j \in 1..m + 1 :
               options[Len(options) - (m + 1) + j] = Sweep(w.knobs, w.best, i)[j]
        BY <1>7, <1>b DEF Swept
      <4>2. Len(options) - (m + 1) = at[i - 1]
        BY <1>1, <1>c, <1>10
      <4> QED
        BY <1>1, <2>1, <4>1, <4>2
    <3>3. v.knobs = w.knobs /\ Len(v.options) = at[i]
          /\ \A j \in 1..N : j # i => v.best[j] = best[j]
      BY <1>1, <2>1, <2>3
    <3> HIDE DEF best, v
    <3>4. /\ Ends(ItemLists(v.knobs), at) /\ Triable(v.knobs) /\ i \in 1..Len(v.knobs)
          /\ LastSwept(v, at, i, best)
      <4>1. Ends(ItemLists(v.knobs), at) /\ Triable(v.knobs) /\ i \in 1..Len(v.knobs)
        BY <1>5, <1>9, <1>b, <3>3
      <4>2. /\ \A j \in i..N : best[j] = ABtestItems(v.knobs[j])[1]
            /\ \A j \in 1..Len(ABtestItems(v.knobs[i])) :
                  v.options[at[i - 1] + j] = Sweep(v.knobs, best, i)[j]
            /\ best = [j \in 1..Len(v.knobs) |-> best[j]]
        BY <1>b, <3>1, <3>2, <3>3, ZenonT(60) DEF items
      <4>3. Len(v.knobs) = N /\ Len(v.options) = at[i]
            /\ \A j \in 1..N : j # i => v.best[j] = best[j]
        BY <1>b, <3>3
      <4> QED
        BY ONLY <4>1, <4>2, <4>3 DEF LastSwept
    <3>5. SweptKnob(v, at, i)
      BY ONLY <3>4, SweptNext
    <3> QED
      BY <3>5 DEF v
  <2>5. SweptTo(w', at, i)
    <3>1. \A k \in 1..i : k = i \/ k \in 1..i - 1
      BY <1>9
    <3> QED
      BY <2>2, <2>4, <3>1 DEF SweptTo
  <2>6. w'.knob - 1 = i /\ at[i] + 0 = at[i]
    BY <1>c, <1>9, <2>1, <2>3
  <2>7. SweepUnderway(w', at, 0)
    BY <2>1, <2>3, <2>6 DEF SweepUnderway
  <2>8. w'.announced = at[Len(w'.knobs)] /\ SweptTo(w', at, w'.knob - 1)
    BY <1>1, <1>2, <1>b, <2>5, <2>6
  <2> QED
    BY <1>1, <2>7, <2>8 DEF Sweeping
<1> QED
  BY <1>11, <1>12

\* What was swept depends on the knobs, the evaluations and the best only.
LEMMA SweptSame ==
  ASSUME NEW v, NEW u, NEW at, NEW top, SweptTo(v, at, top),
         u.knobs = v.knobs, u.options = v.options, u.best = v.best
  PROVE  SweptTo(u, at, top)
<1>1. ASSUME NEW n, NEW i, NEW j, SweptAt(v, n, i, j) PROVE SweptAt(u, n, i, j)
  BY <1>1 DEF SweptAt
<1>2. ASSUME NEW i, SweptKnob(v, at, i) PROVE SweptKnob(u, at, i)
  BY <1>1, <1>2 DEF SweptKnob
<1> QED
  BY <1>2 DEF SweptTo

\* Asking changes nothing of the sweeps made.
LEMMA SweepingAsks ==
  ASSUME ABtestInv, w.engine = "abtest", NEW at, Sweeping(w, at), Ask
  PROVE  Sweeping(w', at)
<1>0. SearchInv /\ DOMAIN w = SearchFields
  BY DEF ABtestInv, SearchInv, OwnInv
<1>1. /\ w.pc = "search" /\ w'.pc = "objective" /\ w'.knobs = w.knobs /\ w'.best = w.best
      /\ w'.options = w.options /\ w'.announced = w.announced /\ w'.knob = w.knob
  BY <1>0, AskFields DEF SameEvaluations, SamePlan
<1>2. PICK m \in Nat : SweepUnderway(w, at, m)
  BY <1>1 DEF Sweeping
<1>3. SweepUnderway(w', at, m)
  BY <1>0, <1>1, <1>2, DescentAsks DEF SweepUnderway
<1>4. SweptTo(w', at, w'.knob - 1)
  BY <1>1 DEF Sweeping, SweptTo, SweptKnob, SweptAt
<1> QED
  BY <1>1, <1>3, <1>4 DEF Sweeping

\* A sweep that ends leaves its best item for the next ones.
LEMMA SweepingFinishes ==
  ASSUME ABtestInv, w.engine = "abtest", NEW at, Ends(ItemLists(w.knobs), at),
         Sweeping(w, at), Finish
  PROVE  Sweeping(w', at)
<1>0. SearchInv /\ DOMAIN w = SearchFields
  BY DEF ABtestInv, SearchInv, OwnInv
<1>1. /\ w.pc = "search" /\ w.plan = <<>> /\ w'.pc \in {"rank", "done", "select"}
      /\ w'.pc # "rank" /\ w'.knobs = w.knobs /\ w'.best = w.best
      /\ w'.options = w.options /\ w'.announced = w.announced /\ w'.knob = w.knob
  BY <1>0, FinishFields DEF SameEvaluations, SamePlan
<1>2. PICK m \in Nat : SweepUnderway(w, at, m)
  BY <1>1 DEF Sweeping
<1>3. Descending(w, m) /\ Len(w.options) = at[w.knob - 1] + m
  BY <1>2 DEF SweepUnderway
<1>4. Triable(w.knobs)
  BY <1>1 DEF ABtestInv, SteadyInv
<1>5. Len(w.knobs) \in Nat /\ at[Len(w.knobs)] \in Nat
  <2>1. Len(w.knobs) \in Nat /\ \A i \in 0..Len(w.knobs) : at[i] \in Nat
    BY <1>4, ItemEnds
  <2> QED
    BY <2>1
<1>6. ~(w.knob <= Len(w.knobs))
  <2> SUFFICES ASSUME w.knob <= Len(w.knobs) PROVE FALSE
    OBVIOUS
  <2>1. SweepAt(w, ABtestItems(w.knobs[w.knob]), Sweep(w.knobs, w.best, w.knob), m, 0)
    BY <1>1, <1>3 DEF Descending
  <2> QED
    BY <1>1, <2>1 DEF SweepAt
<1>7. w.knob = Len(w.knobs) + 1
  <2>1. w.knob \in 1..Len(w.knobs) + 1
    BY <1>3 DEF Descending, KnobsKept
  <2> QED
    BY <1>5, <1>6, <2>1
<1>8. w.knob - 1 = Len(w.knobs) /\ w.knob > Len(w.knobs)
  BY <1>5, <1>7
<1>9. m = 0
  BY <1>3, <1>8 DEF Descending
<1>10. Len(w.options) = at[Len(w.knobs)]
  BY <1>3, <1>5, <1>8, <1>9
<1>11. SweptTo(w, at, Len(w.knobs)) /\ w.announced = at[Len(w.knobs)]
  BY <1>1, <1>8 DEF Sweeping
<1>12. SweptTo(w', at, Len(w.knobs))
  BY <1>1, <1>11, SweptSame
<1> QED
  BY <1>1, <1>10, <1>11, <1>12 DEF Sweeping

\* Every step keeps the sweeps of abtest whole up to the present one.
LEMMA SweepingInvStep ==
  ASSUME SearchAssumption, ABtestInv, StartInv, SweepingInv, [EngineNext]_engineVars
  PROVE  SweepingInv'
<1>0. SearchInv /\ SteadyInv /\ DescentInv /\ DOMAIN w = SearchFields
  BY DEF ABtestInv, SearchInv, OwnInv
<1> SUFFICES ASSUME w'.pc # "idle", w'.engine = "abtest", NEW at, Ends(ItemLists(w'.knobs), at)
             PROVE  Sweeping(w', at)
  BY DEF SweepingInv
<1>1. CASE (\E t \in Tasks : CreateTask(t)) \/ Lose
  <2>1. w'.pc = "start"
    BY <1>0, <1>1, NewFields
  <2> QED
    BY <2>1 DEF Sweeping
<1>2. ASSUME w.pc # "idle", w'.engine = w.engine, w'.knobs = w.knobs
      PROVE  Sweeping(w, at) /\ Ends(ItemLists(w.knobs), at) /\ w.engine = "abtest"
  BY <1>2 DEF SweepingInv
<1>3. ASSUME NEW v \in Values, Tell(v) PROVE Sweeping(w', at)
  <2>1. Sweeping(w, at) /\ Ends(ItemLists(w.knobs), at) /\ w.engine = "abtest"
    BY <1>0, <1>2, <1>3, TellFields, TellKeeps
  <2> QED
    BY <1>3, <2>1, SweepingTells
<1>4. CASE StartABtest
  <2>1. w.pc = "start" /\ w.engine = "abtest" /\ w'.knobs = w.knobs
    BY <1>0, <1>4, StartFields DEF StartABtest, SameEvaluations
  <2>2. w.options = <<>> /\ w.calls = 0
    BY <2>1 DEF StartInv
  <2> QED
    BY <1>0, <1>4, <2>1, <2>2, SweepingStarts
<1>5. CASE StartGridsearch \/ StartTraverse \/ StartSampling \/ StartModel
  <2>1. w.engine # "abtest"
    BY <1>5 DEF StartGridsearch, StartTraverse, StartSampling, StartModel
  <2>2. w'.engine = w.engine
    BY <1>0, <1>5, StartFields DEF SameEvaluations
  <2> QED
    BY <2>1, <2>2
<1>6. CASE Ask
  <2>1. Sweeping(w, at) /\ w.engine = "abtest"
    BY <1>0, <1>2, <1>6, AskFields DEF SameEvaluations
  <2> QED
    BY <1>6, <2>1, SweepingAsks
<1>7. CASE Finish
  <2>1. Sweeping(w, at) /\ Ends(ItemLists(w.knobs), at) /\ w.engine = "abtest"
    BY <1>0, <1>2, <1>7, FinishFields DEF SameEvaluations
  <2> QED
    BY <1>7, <2>1, SweepingFinishes
<1>8. CASE RankTraversed
  <2>1. w.pc = "rank" /\ w'.engine = w.engine
    BY <1>0, <1>8, RankFields DEF SameEvaluations
  <2> QED
    BY <1>0, <2>1 DEF DescentInv
<1>9. CASE (Select \/ (\E r \in Regressors : RegressorEnds(r)) \/ Fails) /\ w.pc = "select"
  <2>1. /\ w.pc = "select" /\ w'.pc \in {"select", "done", "crashed"} /\ w'.knobs = w.knobs
        /\ w'.best = w.best /\ w'.options = w.options /\ w'.announced = w.announced
        /\ w'.engine = w.engine
    BY <1>0, <1>9, SelectFields, FailFields DEF SameEvaluations, SamePlan
  <2>2. Sweeping(w, at)
    BY <1>2, <2>1
  <2>3. /\ w.announced = at[Len(w.knobs)] /\ SweptTo(w, at, Len(w.knobs))
        /\ Len(w.options) = at[Len(w.knobs)]
    BY <2>1, <2>2 DEF Sweeping
  <2>4. SweptTo(w', at, Len(w.knobs))
    BY <2>1, <2>3, SweptSame
  <2> QED
    BY <2>1, <2>3, <2>4 DEF Sweeping
<1>10. CASE w' = w /\ log' = log
  BY <1>10 DEF SweepingInv
<1>11. CASE Fails /\ w.pc # "select"
  <2>1. w'.pc \in {"error", "crashed"}
    BY <1>0, <1>11, FailFields
  <2> QED
    BY <2>1 DEF Sweeping
<1>12. Select \/ (\E r \in Regressors : RegressorEnds(r)) => w.pc = "select"
  BY <1>0, SelectFields
<1> QED
  BY <1>1, <1>3, <1>4, <1>5, <1>6, <1>7, <1>8, <1>9, <1>10, <1>11, <1>12, WorkerCases

-----------------------------------------------------------------------------
(* gridsearch: all combinations                                            *)

\* The number of combinations of the first items, knob after knob.
Products(items, h) ==
    h[0] = 1 /\ \A n \in 1..Len(items) : h[n] \in Nat /\ h[n] = h[n - 1] * Len(items[n])

Lists(items) == Sequence(items) /\ \A n \in 1..Len(items) : Len(items[n]) \in Nat

\* The number of combinations is the product of the lengths.
LEMMA CombinationsOf ==
  ASSUME NEW items, Lists(items)
  PROVE  \E h : Products(items, h) /\ Combinations(items) = h[Len(items)]
<1> DEFINE N == Len(items)
           it == CHOOSE f : f = [s \in SUBSET (DOMAIN items) |->
                      IF s = {} THEN 1
                      ELSE f[s \ {Max(s)}] * Len(items[Max(s)])]
           G == [n \in 1..N |-> [v \in Nat |-> v * Len(items[n])]]
<1>1. Combinations(items) = it[DOMAIN items]
  BY DEF Combinations, FoldLeft, MapThenFoldSet
<1>2. N \in Nat /\ DOMAIN items = 1..N
  BY AppendSequence DEF Lists
<1>3. \A n \in 1..N : Len(items[n]) \in Nat
  BY DEF Lists
<1>4. G \in [1..N -> [Nat -> Nat]]
  <2>1. \A n \in 1..N : \A v \in Nat : v * Len(items[n]) \in Nat
    BY <1>3
  <2> QED
    BY <2>1
<1>5. \A n \in 1..N : \A v \in Nat : G[n][v] = v * Len(items[n])
  OBVIOUS
<1> HIDE DEF G, N
<1>6. PICK f \in [SUBSET (1..N) -> Nat] : Folding(N, 1, G, f)
  <2>1. 1 \in Nat
    OBVIOUS
  <2> QED
    BY <1>2, <1>4, <2>1, FoldExists
<1> DEFINE Next(g, s) == IF s = {} THEN 1
                         ELSE g[s \ {Max(s)}] * Len(items[Max(s)])
<1>7. ASSUME NEW s \in SUBSET (1..N), s # {} PROVE Max(s) \in 1..N
  BY <1>2, <1>7, MaxOfSome
<1>8. ASSUME NEW s \in SUBSET (1..N) PROVE f[s] = Next(f, s)
  <2>1. CASE s = {}
    BY <1>6, <2>1 DEF Folding
  <2>2. CASE s # {}
    <3>1. Max(s) \in 1..N /\ f[s] = G[Max(s)][f[s \ {Max(s)}]] /\ f[s \ {Max(s)}] \in Nat
      BY <1>6, <1>7, <2>2 DEF Folding
    <3> QED
      BY <1>5, <2>2, <3>1
  <2> QED
    BY <2>1, <2>2
<1>9. f = [s \in SUBSET (1..N) |-> Next(f, s)]
  BY <1>8
<1>10. it = [s \in SUBSET (1..N) |-> Next(it, s)]
  BY <1>2, <1>9
<1> HIDE DEF it
<1>11. ASSUME NEW s \in SUBSET (1..N) PROVE it[s] = Next(it, s)
  BY <1>10, Zenon
<1>12. it[{}] = 1
  BY <1>11
<1>13. FoldingIn(N, Nat, 1, G, it)
  BY <1>5, <1>7, <1>11, <1>12 DEF FoldingIn
<1>14. PICK h \in [0..N -> Nat] : Recursion(N, 1, G, h) /\ it[1..N] = h[N]
  <2> DEFINE V == Nat
             one == 1
  <2>1. /\ N \in Nat /\ one \in V /\ G \in [1..N -> [V -> V]]
        /\ FoldingIn(N, V, one, G, it)
    BY <1>2, <1>4, <1>13
  <2> HIDE DEF V, one
  <2>2. \E h \in [0..N -> V] : Recursion(N, one, G, h) /\ it[1..N] = h[N]
    BY ONLY <2>1, FoldSteps
  <2> QED
    BY <2>2 DEF V, one
<1>15. Products(items, h)
  <2>1. h[0] = 1
    BY <1>14 DEF Recursion
  <2>2. ASSUME NEW n \in 1..N PROVE h[n] \in Nat /\ h[n] = h[n - 1] * Len(items[n])
    <3>1. n - 1 \in 0..N /\ n \in 0..N
      BY <1>2
    <3>2. h[n - 1] \in Nat /\ h[n] = G[n][h[n - 1]] /\ h[n] \in Nat
      BY <1>14, <3>1 DEF Recursion
    <3> QED
      BY <1>5, <3>2
  <2> QED
    BY <2>1, <2>2 DEF Products, N
<1> QED
  BY <1>1, <1>2, <1>14, <1>15 DEF N

\* One more list in front.
LEMMA CombinationsNext ==
  ASSUME NEW u, NEW t, Lists(u), Lists(t), Len(u) = Len(t) + 1,
         \A n \in 1..Len(t) : u[n + 1] = t[n]
  PROVE  /\ Combinations(t) \in Nat /\ Combinations(u) \in Nat
         /\ Combinations(u) = Len(u[1]) * Combinations(t)
<1>1. PICK h : Products(u, h) /\ Combinations(u) = h[Len(u)]
  BY CombinationsOf
<1>2. PICK g : Products(t, g) /\ Combinations(t) = g[Len(t)]
  BY CombinationsOf
<1> DEFINE N == Len(t)
           first == Len(u[1])
           S == {n \in 0..N : g[n] \in Nat /\ h[n + 1] = first * g[n]}
<1>3. N \in Nat /\ Len(u) = N + 1
  BY AppendSequence DEF Lists
<1>4. first \in Nat
  BY <1>3 DEF Lists
<1>5. g[0] = 1 /\ \A n \in 1..N : g[n] \in Nat /\ g[n] = g[n - 1] * Len(t[n])
  BY <1>2 DEF Products
<1>6. h[0] = 1 /\ \A n \in 1..N + 1 : h[n] \in Nat /\ h[n] = h[n - 1] * Len(u[n])
  BY <1>1, <1>3 DEF Products
<1>7. \A n \in 1..N : u[n + 1] = t[n] /\ Len(t[n]) \in Nat
  BY DEF Lists
<1>8. 0 \in S
  <2>1. 1 \in 1..N + 1 /\ 1 - 1 = 0 /\ 0 \in 0..N
    BY <1>3
  <2>2. h[1] = h[1 - 1] * Len(u[1])
    BY <1>6, <2>1
  <2>3. h[0 + 1] = first * g[0]
    BY <1>4, <1>5, <1>6, <2>1, <2>2
  <2> QED
    BY <1>5, <2>1, <2>3
<1> HIDE DEF first, N
<1>9. \A n \in 0..N - 1 : n \in S => n + 1 \in S
  <2> TAKE n \in 0..N - 1
  <2> HAVE n \in S
  <2> DEFINE k == n + 1
  <2>1. /\ k \in 1..N /\ k - 1 = n /\ k + 1 \in 1..N + 1 /\ (k + 1) - 1 = k /\ k \in 0..N
        /\ n + 1 = k
    BY <1>3
  <2> HIDE DEF k
  <2>2. g[k] \in Nat /\ g[k] = g[n] * Len(t[k]) /\ Len(t[k]) \in Nat /\ u[k + 1] = t[k]
    BY <1>5, <1>7, <2>1
  <2>3. h[k + 1] = h[k] * Len(t[k])
    <3> DEFINE m == k + 1
    <3>1. m \in 1..N + 1 /\ m - 1 = k /\ u[m] = t[k]
      BY <2>1, <2>2
    <3> HIDE DEF m
    <3>2. h[m] = h[m - 1] * Len(u[m])
      BY <1>6, <3>1
    <3> QED
      BY <3>1, <3>2 DEF m
  <2>4. h[k] = first * g[n] /\ g[n] \in Nat
    BY <2>1
  <2>5. (first * g[n]) * Len(t[k]) = first * (g[n] * Len(t[k]))
    BY <1>4, <2>2, <2>4
  <2>6. h[k + 1] = first * g[k]
    BY <2>2, <2>3, <2>4, <2>5
  <2>7. k \in S
    BY <2>1, <2>2, <2>6
  <2> QED
    BY <2>1, <2>7
<1> HIDE DEF S
<1>10. N \in S
  <2>1. \A n \in 0..N : n \in S
    BY <1>3, <1>8, <1>9, UpTo
  <2> QED
    BY <1>3, <2>1
<1>11. g[N] \in Nat /\ h[N + 1] = first * g[N]
  BY <1>10 DEF S
<1>12. h[N + 1] \in Nat
  BY <1>3, <1>6
<1> QED
  BY <1>1, <1>2, <1>3, <1>11, <1>12 DEF N, first

\* The lists after the first i.
After(items, i) == SubSeq(items, i + 1, Len(items))

\* Each list multiplies the combinations of those after it.
LEMMA CombinationsAfter ==
  ASSUME NEW items, Lists(items)
  PROVE  /\ \A i \in 0..Len(items) : Combinations(After(items, i)) \in Nat
         /\ Combinations(After(items, 0)) = Combinations(items)
         /\ Combinations(After(items, Len(items))) = 1
         /\ \A i \in 1..Len(items) :
               Combinations(After(items, i - 1)) = Len(items[i]) * Combinations(After(items, i))
<1> DEFINE N == Len(items)
<1>1. N \in Nat /\ Sequence(items) /\ \A n \in 1..N : Len(items[n]) \in Nat
  BY AppendSequence DEF Lists
<1>2. ASSUME NEW i \in 0..N
      PROVE  /\ Sequence(After(items, i)) /\ Len(After(items, i)) = N - i
             /\ \A n \in 1..N - i : After(items, i)[n] = items[i + n]
  <2> DEFINE a == i + 1
  <2>1. a \in Nat \ {0} /\ a <= N + 1 /\ N + 1 - a = N - i
        /\ \A n \in 1..N - i : a + n - 1 = i + n
    BY <1>1
  <2>2. After(items, i) = SubSeq(items, a, N)
    BY DEF After
  <2> HIDE DEF a, N
  <2>3. /\ Sequence(SubSeq(items, a, N)) /\ Len(SubSeq(items, a, N)) = N + 1 - a
        /\ \A n \in 1..N + 1 - a : SubSeq(items, a, N)[n] = items[a + n - 1]
    <3>1. /\ Sequence(items) /\ a \in Nat \ {0} /\ N \in Nat /\ a <= N + 1
          /\ N <= Len(items) \/ a = N + 1
      BY <1>1, <2>1 DEF N
    <3> QED
      BY ONLY <3>1, SubSequence
  <2> QED
    BY <2>1, <2>2, <2>3
<1>3. \A i \in 0..N : Lists(After(items, i))
  <2> TAKE i \in 0..N
  <2>1. ASSUME NEW n \in 1..N - i PROVE Len(After(items, i)[n]) \in Nat
    <3>1. i + n \in 1..N
      BY <1>1
    <3> QED
      BY <1>1, <1>2, <3>1
  <2> QED
    BY <1>2, <2>1 DEF Lists
<1>4. After(items, 0) = items
  <2> DEFINE s == After(items, 0)
  <2>1. Sequence(s) /\ Len(s) = N /\ \A n \in 1..N : s[n] = items[n]
    <3>1. 0 \in 0..N /\ N - 0 = N /\ \A n \in 1..N : 0 + n = n
      BY <1>1
    <3> QED
      BY <1>2, <3>1
  <2> HIDE DEF s
  <2>2. DOMAIN s = 1..N /\ DOMAIN items = 1..N
    BY <1>1, <2>1, AppendSequence
  <2>3. {s[n] : n \in DOMAIN s} = {items[n] : n \in DOMAIN items}
    BY <2>1, <2>2
  <2> DEFINE S == {items[n] : n \in DOMAIN items}
  <2>4. s \in Seq(S) /\ items \in Seq(S) /\ Len(s) = Len(items)
    BY <1>1, <2>1, <2>3 DEF Sequence
  <2> HIDE DEF S
  <2>5. s = items
    BY <2>1, <2>4, SameSequence
  <2> QED
    BY <2>5 DEF s
<1> HIDE DEF N
<1>5. ASSUME NEW i \in 1..N
      PROVE  /\ Combinations(After(items, i - 1)) \in Nat /\ Combinations(After(items, i)) \in Nat
             /\ Combinations(After(items, i - 1)) = Len(items[i]) * Combinations(After(items, i))
  <2> DEFINE k == i - 1
             u == After(items, k)
             t == After(items, i)
  <2>1. k \in 0..N /\ i \in 0..N /\ k + 1 = i /\ N - k = (N - i) + 1
        /\ 1 \in 1..N - k
        /\ \A n \in 1..N - i : n + 1 \in 1..N - k /\ k + (n + 1) = i + n
    BY <1>1
  <2>2. Lists(u) /\ Lists(t) /\ Len(u) = Len(t) + 1 /\ u[1] = items[i]
        /\ Len(t) = N - i
    BY <1>2, <1>3, <2>1
  <2>3. \A n \in 1..Len(t) : u[n + 1] = t[n]
    <3> TAKE n \in 1..Len(t)
    <3> DEFINE m == n + 1
    <3>1. n \in 1..N - i /\ m \in 1..N - k /\ k + m = i + n
      BY <2>1, <2>2
    <3> HIDE DEF m
    <3>2. u[m] = items[k + m] /\ t[n] = items[i + n]
      BY <1>2, <2>1, <3>1
    <3> QED
      BY <3>1, <3>2 DEF m
  <2> HIDE DEF u, t
  <2>4. /\ Combinations(t) \in Nat /\ Combinations(u) \in Nat
        /\ Combinations(u) = Len(u[1]) * Combinations(t)
    BY ONLY <2>2, <2>3, CombinationsNext
  <2> QED
    BY <2>2, <2>4 DEF u, t
<1>6. Combinations(After(items, N)) = 1
  <2> DEFINE s == After(items, N)
  <2>1. N \in 0..N /\ N - N = 0
    BY <1>1
  <2>2. Lists(s) /\ Len(s) = 0
    BY <1>2, <1>3, <2>1
  <2> HIDE DEF s
  <2>3. PICK h : Products(s, h) /\ Combinations(s) = h[Len(s)]
    BY <2>2, CombinationsOf
  <2>4. Combinations(s) = 1
    BY <2>2, <2>3 DEF Products
  <2> QED
    BY <2>4 DEF s
<1>7. \A i \in 0..N : Combinations(After(items, i)) \in Nat
  <2> TAKE i \in 0..N
  <2>1. CASE i = N
    BY <1>6, <2>1
  <2>2. CASE i # N
    <3>1. i + 1 \in 1..N /\ (i + 1) - 1 = i
      BY <1>1, <2>2
    <3> QED
      BY <1>5, <3>1
  <2> QED
    BY <2>1, <2>2
<1> QED
  BY <1>4, <1>5, <1>6, <1>7 DEF N

\* Nothing is listed twice.
Distinct(s) == Sequence(s) /\ \A m, n \in 1..Len(s) : s[m] = s[n] => m = n

\* A combination of the values of lists that list nothing twice.
Combination(s, items) ==
    /\ Sequence(items) /\ \A i \in 1..Len(items) : Distinct(items[i])
    /\ s = [i \in 1..Len(items) |-> s[i]]
    /\ \A i \in 1..Len(items) : \E j \in 1..Len(items[i]) : s[i] = items[i][j]
OnceIn(s, list) ==
    \E u \in 1..Len(list) : \A n \in 1..Len(list) : list[n] = s <=> n = u

\* Every combination is at one place of the expansion: its places in the lists are
\* the digits of a number whose bases are the lengths of the lists.
LEMMA ExpandsOnce ==
  ASSUME NEW items, NEW s, Combination(s, items)
  PROVE  OnceIn(s, Expand(items))
<1> SUFFICES ASSUME Sequence(items), \A i \in 1..Len(items) : Distinct(items[i]),
                    s = [i \in 1..Len(items) |-> s[i]],
                    \A i \in 1..Len(items) : \E j \in 1..Len(items[i]) : s[i] = items[i][j]
             PROVE  \E u \in 1..Len(Expand(items)) :
                       \A n \in 1..Len(Expand(items)) : Expand(items)[n] = s <=> n = u
  BY DEF Combination, OnceIn
<1> DEFINE N == Len(items)
           P == [i \in 0..N |-> Combinations(After(items, i))]
           L == [i \in 1..N |-> Len(items[i])]
           size == Combinations(items)
           digit == [i \in 1..N |-> CHOOSE j \in 1..Len(items[i]) : s[i] = items[i][j]]
           d == [i \in 1..N |-> digit[i] - 1]
<1>1. N \in Nat /\ DOMAIN items = 1..N
  BY AppendSequence
<1>2. \A i \in 1..N : Len(items[i]) \in Nat
  <2> TAKE i \in 1..N
  <2>1. Sequence(items[i])
    BY DEF Distinct
  <2> QED
    BY <2>1, AppendSequence
<1>3. Lists(items)
  BY <1>2 DEF Lists
<1>4. \A i \in 1..N : digit[i] \in 1..Len(items[i]) /\ s[i] = items[i][digit[i]]
  OBVIOUS
<1> HIDE DEF digit
<1>5. \A i \in 1..N : L[i] = Len(items[i]) /\ d[i] = digit[i] - 1
  OBVIOUS
<1>6. \A i \in 0..N : P[i] = Combinations(After(items, i))
  OBVIOUS
<1> HIDE DEF L, d, P, N
<1>7. \A i \in 1..N : L[i] \in Nat \ {0} /\ d[i] \in 0..L[i] - 1
  <2> TAKE i \in 1..N
  <2> DEFINE l == Len(items[i])
             k == digit[i]
  <2>1. l \in Nat /\ k \in 1..l /\ L[i] = l /\ d[i] = k - 1
    BY <1>2, <1>4, <1>5
  <2> HIDE DEF l, k
  <2> QED
    BY <2>1
<1>8. /\ \A i \in 0..N : Combinations(After(items, i)) \in Nat
      /\ Combinations(After(items, 0)) = size
      /\ Combinations(After(items, N)) = 1
      /\ \A i \in 1..N :
            Combinations(After(items, i - 1)) = Len(items[i]) * Combinations(After(items, i))
  BY <1>3, CombinationsAfter DEF N
<1>9. Weights(N, P, L) /\ P[0] = size /\ size \in Nat
  <2>1. 0 \in 0..N /\ N \in 0..N /\ \A i \in 1..N : i - 1 \in 0..N /\ i \in 0..N
    BY <1>1
  <2>2. \A i \in 1..N : P[i - 1] = L[i] * P[i]
    BY <1>5, <1>6, <1>8, <2>1
  <2> QED
    BY <1>6, <1>7, <1>8, <2>1, <2>2 DEF Weights
<1>10. PICK u \in 0..P[0] - 1 : \A m \in 0..P[0] - 1 : WrittenAs(m, N, P, L, d) <=> m = u
  <2>1. \A i \in 1..N : d[i] \in 0..L[i] - 1
    BY <1>7
  <2> QED
    BY ONLY <1>1, <1>9, <2>1, WrittenOnce
<1> HIDE DEF size
<1>11. /\ Len(Expand(items)) = size
       /\ \A n \in 1..size : Expand(items)[n] =
             [i \in 1..N |->
                items[i][(((n - 1) \div Combinations(After(items, i))) % Len(items[i])) + 1]]
  BY <1>1, <1>9 DEF Expand, After, N, size
<1>12. ASSUME NEW n \in 1..size
       PROVE  Expand(items)[n] = s <=> WrittenAs(n - 1, N, P, L, d)
  <2> DEFINE At(i) == ((n - 1) \div P[i]) % L[i]
  <2>1. Expand(items)[n] = [i \in 1..N |-> items[i][At(i) + 1]]
    <3>1. \A i \in 1..N : i \in 0..N
      BY <1>1
    <3> QED
      BY <1>5, <1>6, <1>11, <3>1
  <2>2. s = [i \in 1..N |-> s[i]]
    BY DEF N
  <2>3. ASSUME NEW i \in 1..N PROVE items[i][At(i) + 1] = s[i] <=> At(i) = d[i]
    <3>1. P[i] \in Nat \ {0} /\ L[i] \in Nat \ {0} /\ n - 1 \in Nat
      <4>1. i \in 0..N
        BY <1>1
      <4> QED
        BY <1>1, <1>7, <1>9, <4>1, WeightsPositive
    <3> DEFINE m == n - 1
               b == P[i]
               c == L[i]
               k == digit[i]
               a == At(i)
    <3>2. m \in Nat /\ b \in Nat \ {0} /\ c \in Nat \ {0} /\ a = (m \div b) % c
      BY <3>1
    <3>3. c = Len(items[i]) /\ k \in 1..c /\ d[i] = k - 1 /\ s[i] = items[i][k]
      BY <1>4, <1>5
    <3> HIDE DEF m, b, c, k, a
    <3>4. a \in 0..c - 1
      <4> DEFINE q == m \div b
      <4>1. q \in Nat
        BY <3>2, Division
      <4> HIDE DEF q
      <4>2. q % c \in 0..c - 1
        BY <3>2, <4>1, Division
      <4> QED
        BY <3>2, <4>2 DEF q
    <3>5. a + 1 \in 1..c
      BY <3>2, <3>4
    <3>6. items[i][a + 1] = s[i] <=> a + 1 = k
      <4>1. \A x, y \in 1..c : items[i][x] = items[i][y] => x = y
        BY <3>3 DEF Distinct, N
      <4> QED
        BY <3>3, <3>5, <4>1
    <3>7. a + 1 = k <=> a = d[i]
      <4>1. a \in Int /\ k \in Int /\ d[i] = k - 1
        BY <3>2, <3>3, <3>4
      <4> QED
        BY ONLY <4>1
    <3> QED
      BY <3>6, <3>7 DEF a
  <2> HIDE DEF At
  <2>4. [i \in 1..N |-> items[i][At(i) + 1]] = s <=> \A i \in 1..N : items[i][At(i) + 1] = s[i]
    BY <2>2
  <2>5. WrittenAs(n - 1, N, P, L, d) <=> \A i \in 1..N : At(i) = d[i]
    BY DEF WrittenAs, At
  <2> QED
    BY <2>1, <2>3, <2>4, <2>5
<1>13. u + 1 \in 1..size
  BY <1>9, <1>10
<1>14. ASSUME NEW n \in 1..size PROVE Expand(items)[n] = s <=> n = u + 1
  <2>1. n - 1 \in 0..P[0] - 1
    BY <1>9
  <2>2. WrittenAs(n - 1, N, P, L, d) <=> n - 1 = u
    BY <1>10, <2>1
  <2>3. n - 1 = u <=> n = u + 1
    BY <1>9, <1>10
  <2> QED
    BY <1>12, <2>2, <2>3
<1> QED
  BY <1>11, <1>13, <1>14

\* A knob that gridsearch can try: no option and no item that stands alone is
\* listed twice, and the bounds are numbers.
GridKnob(k) ==
    IF IsText(k) THEN Distinct(k.options)
    ELSE /\ Sequence(k.items) /\ (k.range = <<>> => Distinct(k.items))
         /\ Sequence(k.range) /\ \A n \in 1..Len(k.range) : k.range[n] \in Int

\* A range has so many numbers, whatever its bounds.
LEMMA ArangeFinite ==
  ASSUME NEW k, Sequence(k.range), \A n \in 1..Len(k.range) : k.range[n] \in Int
  PROVE  IsFiniteSet(Arange(k, 1))
<1> DEFINE N == Len(k.range) \div 2
           pair == [i \in 1..N |-> <<k.range[2 * i - 1], k.range[2 * i]>>]
           steps == [p \in Pairs(k) |-> Steps(k, p, 1)]
<1>1. Len(k.range) \in Nat /\ N \in Nat /\ 2 * N <= Len(k.range)
  <2> DEFINE l == Len(k.range)
             rest == l % 2
  <2>1. l \in Nat
    BY AppendSequence
  <2> HIDE DEF l
  <2>2. l \div 2 \in Nat /\ l % 2 \in 0..2 - 1 /\ l = 2 * (l \div 2) + (l % 2)
    BY <2>1, Division
  <2>3. 2 * (l \div 2) <= l
    BY <2>1, <2>2
  <2> QED
    BY <2>1, <2>2, <2>3 DEF l
<1>2. Pairs(k) = {pair[i] : i \in 1..N} /\ DOMAIN pair = 1..N
  BY DEF Pairs
<1> HIDE DEF N
<1>3. IsFiniteSet(1..N)
  BY <1>1, FS_Interval
<1>4. IsFiniteSet(Pairs(k))
  <2> HIDE DEF pair
  <2>1. DOMAIN pair = 1..N
    BY <1>2
  <2>2. IsFiniteSet({pair[i] : i \in 1..N})
    BY ONLY <1>3, <2>1, FiniteImage
  <2> QED
    BY <1>2, <2>2
<1>5. ASSUME NEW p \in Pairs(k) PROVE p[1] \in Int /\ p[2] \in Int
  <2>1. PICK i \in 1..N : p = <<k.range[2 * i - 1], k.range[2 * i]>>
    BY DEF Pairs, N
  <2>2. 2 * i - 1 \in 1..Len(k.range) /\ 2 * i \in 1..Len(k.range)
    BY <1>1
  <2> QED
    BY <2>1, <2>2
<1>6. ASSUME NEW p \in Pairs(k) PROVE IsFiniteSet(steps[p])
  <2> DEFINE a == p[1]
             b == p[2] - 1 + 1
  <2>1. a \in Int /\ b \in Int
    BY <1>5
  <2>2. steps[p] \subseteq a..b
    BY DEF Steps
  <2> HIDE DEF a, b, steps
  <2>3. IsFiniteSet(a..b)
    BY <2>1, FS_Interval
  <2> QED
    BY <2>2, <2>3, FS_Subset
<1> DEFINE parts == {steps[p] : p \in Pairs(k)}
<1>7. DOMAIN steps = Pairs(k) /\ Arange(k, 1) = UNION parts
  BY DEF Arange
<1> HIDE DEF steps
<1>8. IsFiniteSet(parts)
  BY <1>4, <1>7, FiniteImage
<1>9. \A T \in parts : IsFiniteSet(T)
  BY <1>6
<1> HIDE DEF parts
<1>10. IsFiniteSet(UNION parts)
  BY <1>8, <1>9, FS_UNION
<1> QED
  BY <1>7, <1>10

\* What the numbers and the texts of a knob are before they are put in an order.
AllValues(k) ==
    {[type |-> "text", value |-> x] : x \in ToSet(k.items)}
    \cup {[type |-> "number", value |-> x] : x \in Arange(k, 1)}
Orders(k) == IF Mixed(k) THEN SetToSeqs(AllValues(k)) ELSE {SetToSeq(AllValues(k))}
InOrder(o) == [i \in DOMAIN o |-> o[i].value]

\* A knob of numbers has finitely many values.
LEMMA AllValuesFinite ==
  ASSUME NEW k, GridKnob(k), ~IsText(k)
  PROVE  IsFiniteSet(AllValues(k))
<1> DEFINE S == ToSet(k.items)
           T == Arange(k, 1)
           f == [x \in S |-> [type |-> "text", value |-> x]]
           g == [x \in T |-> [type |-> "number", value |-> x]]
<1>1. IsFiniteSet(S)
  BY FiniteElements DEF GridKnob, ToSet
<1>2. IsFiniteSet(T)
  BY ArangeFinite DEF GridKnob
<1>3. AllValues(k) = {f[x] : x \in S} \cup {g[x] : x \in T} /\ DOMAIN f = S /\ DOMAIN g = T
  BY DEF AllValues
<1> HIDE DEF S, T, f, g
<1>4. IsFiniteSet({f[x] : x \in S}) /\ IsFiniteSet({g[x] : x \in T})
  <2>1. DOMAIN f = S /\ DOMAIN g = T
    BY <1>3
  <2> QED
    BY ONLY <1>1, <1>2, <2>1, FiniteImage
<1> DEFINE A == {f[x] : x \in S}
           B == {g[x] : x \in T}
<1>5. AllValues(k) = A \cup B /\ IsFiniteSet(A) /\ IsFiniteSet(B)
  BY <1>3, <1>4
<1> HIDE DEF A, B
<1>6. IsFiniteSet(A \cup B)
  BY ONLY <1>5, FS_Union
<1> QED
  BY <1>5, <1>6

\* Each order of the values is a list of all of them.
LEMMA OrdersOf ==
  ASSUME NEW k, GridKnob(k), ~IsText(k)
  PROVE  /\ Cardinality(AllValues(k)) \in Nat /\ Orders(k) # {}
         /\ \A o \in Orders(k) :
               /\ o \in [1..Cardinality(AllValues(k)) -> AllValues(k)]
               /\ \A i, j \in 1..Cardinality(AllValues(k)) : o[i] = o[j] => i = j
<1> DEFINE S == AllValues(k)
           N == Cardinality(S)
<1>1. IsFiniteSet(S)
  BY AllValuesFinite
<1>2. Orders(k) = IF Mixed(k) THEN SetToSeqs(S) ELSE {SetToSeq(S)}
  BY DEF Orders
<1> HIDE DEF S
<1>3. N \in Nat /\ \E f \in [1..N -> S] : IsInjective(f)
  <2>1. N \in Nat /\ ExistsBijection(1..N, S)
    BY <1>1, FS_CardinalityType
  <2>2. PICK f : f \in Bijection(1..N, S)
    BY <2>1 DEF ExistsBijection
  <2>3. f \in [1..N -> S] /\ IsInjective(f)
    BY <2>2 DEF Bijection, Injection, IsInjective
  <2> QED
    BY <2>1, <2>3
<1>4. SetToSeq(S) \in [1..N -> S] /\ IsInjective(SetToSeq(S))
  BY <1>3 DEF SetToSeq
<1>5. ASSUME NEW o \in [1..N -> S], IsInjective(o)
      PROVE  \A i, j \in 1..N : o[i] = o[j] => i = j
  BY <1>5 DEF IsInjective
<1>6. CASE ~Mixed(k)
  BY <1>2, <1>3, <1>4, <1>5, <1>6 DEF S
<1>7. CASE Mixed(k)
  <2>1. SetToSeqs(S) = {f \in [1..N -> S] : \A i, j \in 1..N : i # j => f[i] # f[j]}
    BY DEF SetToSeqs
  <2>2. SetToSeqs(S) # {}
    BY <1>3, <1>5, <2>1
  <2> QED
    BY <1>2, <1>3, <1>7, <2>1, <2>2 DEF S
<1> QED
  BY <1>6, <1>7

\* The lists of values of a knob: all are as long as each other, and without
\* a mixture there is just one, with no value twice.
LEMMA GridItemsOf ==
  ASSUME NEW k, GridKnob(k)
  PROVE  /\ GridItems(k) # {}
         /\ \A g \in GridItems(k) : Sequence(g)
         /\ \A g, h \in GridItems(k) : Len(g) = Len(h)
         /\ ~Mixed(k) => \A g, h \in GridItems(k) : g = h /\ Distinct(g)
<1>1. CASE IsText(k)
  <2>1. GridItems(k) = {k.options} /\ Distinct(k.options)
    BY <1>1 DEF GridItems, GridKnob
  <2> QED
    BY <2>1 DEF Distinct
<1>2. CASE ~IsText(k) /\ k.range = <<>>
  <2>1. GridItems(k) = {k.items} /\ Distinct(k.items)
    BY <1>2 DEF GridItems, GridKnob
  <2> QED
    BY <2>1 DEF Distinct
<1>3. CASE ~IsText(k) /\ k.range # <<>>
  <2> DEFINE N == Cardinality(AllValues(k))
  <2>1. GridItems(k) = {InOrder(o) : o \in Orders(k)}
    BY <1>3 DEF GridItems, AllValues, Orders, InOrder
  <2>2. /\ N \in Nat /\ Orders(k) # {}
        /\ \A o \in Orders(k) : /\ o \in [1..N -> AllValues(k)]
                                /\ \A i, j \in 1..N : o[i] = o[j] => i = j
    BY <1>3, OrdersOf
  <2> HIDE DEF N
  <2>3. ASSUME NEW o \in Orders(k)
        PROVE  /\ Sequence(InOrder(o)) /\ Len(InOrder(o)) = N
               /\ \A i \in 1..N : InOrder(o)[i] = o[i].value
    <3> DEFINE s == InOrder(o)
    <3>1. s = [i \in 1..N |-> o[i].value]
      BY <2>2 DEF InOrder
    <3> HIDE DEF s
    <3>2. s = [i \in 1..N |-> s[i]]
      BY <3>1
    <3>3. Sequence(s) /\ Len(s) = N
      BY <2>2, <3>2, MadeSequence
    <3> QED
      BY <3>1, <3>3 DEF s
  <2>4. ASSUME ~Mixed(k) PROVE \A g, h \in GridItems(k) : g = h /\ Distinct(g)
    <3>1. k.items = <<>> /\ Orders(k) = {SetToSeq(AllValues(k))}
      BY <1>3, <2>4 DEF Mixed, Orders
    <3>2. ToSet(k.items) = {}
      BY <3>1 DEF ToSet
    <3>3. \A a, b \in AllValues(k) : a.value = b.value => a = b
      BY <3>2 DEF AllValues
    <3>4. PICK o \in Orders(k) : GridItems(k) = {InOrder(o)}
      BY <2>1, <3>1
    <3>5. Distinct(InOrder(o))
      <4> SUFFICES ASSUME NEW m \in 1..N, NEW n \in 1..N, InOrder(o)[m] = InOrder(o)[n]
                   PROVE  m = n
        BY <2>3 DEF Distinct
      <4>1. o[m].value = o[n].value /\ o[m] \in AllValues(k) /\ o[n] \in AllValues(k)
        BY <2>2, <2>3
      <4>2. o[m] = o[n]
        BY <3>3, <4>1
      <4> QED
        BY <2>2, <4>2
    <3> QED
      BY <3>4, <3>5
  <2>5. GridItems(k) # {} /\ \A g \in GridItems(k) : Sequence(g) /\ Len(g) = N
    BY <2>1, <2>2, <2>3
  <2> QED
    BY <2>4, <2>5
<1> QED
  BY <1>1, <1>2, <1>3

\* As many combinations as of lists of the same lengths.
LEMMA CombinationsSame ==
  ASSUME NEW u, NEW t, Lists(u), Lists(t), Len(u) = Len(t),
         \A n \in 1..Len(t) : Len(u[n]) = Len(t[n])
  PROVE  Combinations(u) = Combinations(t) /\ Combinations(u) \in Nat
<1>1. PICK h : Products(u, h) /\ Combinations(u) = h[Len(u)]
  BY CombinationsOf
<1>2. PICK g : Products(t, g) /\ Combinations(t) = g[Len(t)]
  BY CombinationsOf
<1> DEFINE N == Len(t)
           S == {n \in 0..N : h[n] = g[n] /\ h[n] \in Nat}
<1>3. N \in Nat
  BY AppendSequence DEF Lists
<1>4. g[0] = 1 /\ h[0] = 1
  BY <1>1, <1>2 DEF Products
<1>5. \A n \in 1..N : /\ g[n] \in Nat /\ g[n] = g[n - 1] * Len(t[n])
                      /\ h[n] \in Nat /\ h[n] = h[n - 1] * Len(t[n])
  BY <1>1, <1>2 DEF Products
<1> HIDE DEF N
<1>6. 0 \in S
  BY <1>3, <1>4
<1>7. \A n \in 0..N - 1 : n \in S => n + 1 \in S
  <2> TAKE n \in 0..N - 1
  <2> HAVE n \in S
  <2> DEFINE k == n + 1
  <2>1. k \in 1..N /\ k - 1 = n /\ k \in 0..N /\ n + 1 = k
    BY <1>3
  <2> HIDE DEF k
  <2>2. k \in S
    BY <1>5, <2>1
  <2> QED
    BY <2>1, <2>2
<1> HIDE DEF S
<1>8. \A n \in 0..N : n \in S
  BY <1>3, <1>6, <1>7, UpTo
<1>9. N \in S
  BY <1>3, <1>8
<1> QED
  BY <1>1, <1>2, <1>9 DEF S, N

\* The tasks of gridsearch have knobs that it can try.
GridKnobs(knobs) == Sequence(knobs) /\ \A i \in 1..Len(knobs) : GridKnob(knobs[i])
GridsListed == \A t \in Tasks : t.engine = "gridsearch" => GridKnobs(t.knobs)

GridChoices(knobs) == Product([i \in DOMAIN knobs |-> GridItems(knobs[i])])
GridChoice(knobs) == [i \in DOMAIN knobs |-> CHOOSE g \in GridItems(knobs[i]) : TRUE]
Grid(knobs) == Expand(GridChoice(knobs))
Unmixed(knobs) == \A k \in ToSet(knobs) : ~Mixed(k)

\* A list of as many combinations; without mixtures there is only one.
GridPlan(knobs, list) ==
    /\ Sequence(list) /\ Len(list) \in Nat /\ Len(list) = Len(Grid(knobs))
    /\ Unmixed(knobs) => list = Grid(knobs)

\* What it means to choose a list for each knob.
LEMMA Chosen ==
  ASSUME NEW knobs, NEW items
  PROVE  /\ items \in GridChoices(knobs) =>
               /\ items = [i \in DOMAIN knobs |-> items[i]]
               /\ \A i \in DOMAIN knobs : items[i] \in GridItems(knobs[i])
         /\ GridKnobs(knobs) => \A i \in DOMAIN knobs : GridChoice(knobs)[i] \in GridItems(knobs[i])
<1>1. ASSUME items \in GridChoices(knobs)
      PROVE  /\ items = [i \in DOMAIN knobs |-> items[i]]
             /\ \A i \in DOMAIN knobs : items[i] \in GridItems(knobs[i])
  <2> DEFINE sets == [i \in DOMAIN knobs |-> GridItems(knobs[i])]
  <2>1. items \in Product(sets) /\ DOMAIN sets = DOMAIN knobs
    BY <1>1 DEF GridChoices
  <2>2. \A i \in DOMAIN knobs : sets[i] = GridItems(knobs[i])
    OBVIOUS
  <2> HIDE DEF sets
  <2> QED
    BY <2>1, <2>2 DEF Product
<1>2. ASSUME GridKnobs(knobs), NEW i \in DOMAIN knobs
      PROVE  GridChoice(knobs)[i] \in GridItems(knobs[i])
  <2>1. GridKnob(knobs[i])
    BY <1>2, AppendSequence DEF GridKnobs
  <2>2. GridItems(knobs[i]) # {}
    BY <2>1, GridItemsOf
  <2> QED
    BY <2>2 DEF GridChoice
<1> QED
  BY <1>1, <1>2

\* The items chosen for the knobs are lists, without repetition for knobs that
\* are not a mixture of options and ranges.
LEMMA ChosenLists ==
  ASSUME NEW knobs, GridKnobs(knobs), NEW items, items = [i \in DOMAIN knobs |-> items[i]],
         \A i \in DOMAIN knobs : items[i] \in GridItems(knobs[i])
  PROVE  /\ Lists(items) /\ Len(items) = Len(knobs) /\ DOMAIN items = DOMAIN knobs
         /\ DOMAIN knobs = 1..Len(knobs)
         /\ Unmixed(knobs) => \A i \in 1..Len(items) : Distinct(items[i])
<1>1. Len(knobs) \in Nat /\ DOMAIN knobs = 1..Len(knobs)
  BY AppendSequence DEF GridKnobs
<1>2. Sequence(items) /\ Len(items) = Len(knobs)
  <2>1. items = [i \in 1..Len(knobs) |-> items[i]]
    BY <1>1
  <2> QED
    BY <1>1, <2>1, MadeSequence
<1>3. ASSUME NEW i \in 1..Len(knobs)
      PROVE  Len(items[i]) \in Nat /\ (~Mixed(knobs[i]) => Distinct(items[i]))
  <2>1. GridKnob(knobs[i]) /\ items[i] \in GridItems(knobs[i])
    BY <1>1 DEF GridKnobs
  <2>2. Sequence(items[i]) /\ (~Mixed(knobs[i]) => Distinct(items[i]))
    BY <2>1, GridItemsOf
  <2> QED
    BY <2>2, AppendSequence
<1>4. Unmixed(knobs) => \A i \in 1..Len(knobs) : ~Mixed(knobs[i])
  BY <1>1 DEF Unmixed, ToSet
<1> QED
  BY <1>1, <1>2, <1>3, <1>4 DEF Lists

\* The plan of gridsearch is the expansion of the items of its knobs.
LEMMA GridPlanned ==
  ASSUME NEW knobs, GridKnobs(knobs), NEW items \in GridChoices(knobs)
  PROVE  GridPlan(knobs, Expand(items))
<1> DEFINE first == GridChoice(knobs)
<1>1. /\ items = [i \in DOMAIN knobs |-> items[i]]
      /\ \A i \in DOMAIN knobs : items[i] \in GridItems(knobs[i])
  BY Chosen
<1>2. /\ first = [i \in DOMAIN knobs |-> first[i]]
      /\ \A i \in DOMAIN knobs : first[i] \in GridItems(knobs[i])
  <2>1. \A i \in DOMAIN knobs : first[i] \in GridItems(knobs[i])
    BY Chosen
  <2> QED
    BY <2>1 DEF GridChoice
<1> HIDE DEF first
<1>3. /\ Lists(items) /\ Len(items) = Len(knobs)
      /\ Lists(first) /\ Len(first) = Len(knobs) /\ DOMAIN knobs = 1..Len(knobs)
  BY <1>1, <1>2, ChosenLists
<1>4. ASSUME NEW i \in 1..Len(knobs)
      PROVE  Len(items[i]) = Len(first[i]) /\ (~Mixed(knobs[i]) => items[i] = first[i])
  <2>1. /\ GridKnob(knobs[i]) /\ items[i] \in GridItems(knobs[i])
        /\ first[i] \in GridItems(knobs[i])
    BY <1>1, <1>2, <1>3 DEF GridKnobs
  <2> QED
    BY <2>1, GridItemsOf
<1>5. Combinations(items) = Combinations(first) /\ Combinations(items) \in Nat
  BY <1>3, <1>4, CombinationsSame
<1>6. ASSUME NEW lists, Combinations(lists) \in Nat
      PROVE  Sequence(Expand(lists)) /\ Len(Expand(lists)) = Combinations(lists)
  <2> DEFINE s == Expand(lists)
             n == Combinations(lists)
  <2>1. s = [j \in 1..n |-> s[j]]
    BY DEF Expand
  <2> HIDE DEF s, n
  <2>2. n \in Nat
    BY <1>6 DEF n
  <2>3. Sequence(s) /\ Len(s) = n
    BY <2>1, <2>2, MadeSequence
  <2> QED
    BY <2>3 DEF s, n
<1>7. /\ Sequence(Expand(items)) /\ Len(Expand(items)) \in Nat
      /\ Len(Expand(items)) = Len(Expand(first))
  BY <1>5, <1>6
<1>8. ASSUME Unmixed(knobs) PROVE items = first
  <2>1. \A i \in DOMAIN knobs : ~Mixed(knobs[i])
    BY <1>8 DEF Unmixed, ToSet
  <2>2. \A i \in DOMAIN knobs : items[i] = first[i]
    BY <1>3, <1>4, <2>1
  <2> QED
    BY <1>1, <1>2, <2>2
<1> QED
  BY <1>7, <1>8 DEF GridPlan, Grid, first

\* There is a list of as many combinations.
LEMMA GridSized ==
  ASSUME NEW knobs, GridKnobs(knobs)
  PROVE  GridPlan(knobs, Grid(knobs))
<1> DEFINE first == GridChoice(knobs)
<1>1. \A i \in DOMAIN knobs : first[i] \in GridItems(knobs[i])
  BY Chosen
<1>2. first \in GridChoices(knobs)
  <2> DEFINE sets == [i \in DOMAIN knobs |-> GridItems(knobs[i])]
  <2>1. DOMAIN sets = DOMAIN knobs /\ \A i \in DOMAIN knobs : sets[i] = GridItems(knobs[i])
    OBVIOUS
  <2>2. first = [i \in DOMAIN knobs |-> first[i]]
    BY DEF GridChoice
  <2> HIDE DEF sets, first
  <2>3. \A i \in DOMAIN knobs : first[i] \in UNION {sets[j] : j \in DOMAIN sets}
    BY <1>1, <2>1
  <2>4. first \in [DOMAIN sets -> UNION {sets[j] : j \in DOMAIN sets}]
    BY <2>1, <2>2, <2>3
  <2>5. DOMAIN first = DOMAIN sets
    BY <2>1, <2>2
  <2>6. \A i \in DOMAIN first : first[i] \in sets[i]
    BY <1>1, <2>1, <2>5
  <2>7. first \in Product(sets)
    BY <2>4, <2>6 DEF Product
  <2> QED
    BY <2>7 DEF GridChoices, sets
<1> HIDE DEF first
<1>3. GridPlan(knobs, Expand(first))
  BY <1>2, GridPlanned
<1> QED
  BY <1>3 DEF Grid, first

\* The evaluations of the search, lost workers' too, are the first of the list.
InGridOrder(knobs, lines) ==
    \A n \in 1..Len(lines) : lines[n].setting = Grid(knobs)[n]
Gridding(v, lines) ==
    /\ GridKnobs(v.knobs) /\ Len(lines) <= Len(Grid(v.knobs))
    /\ Unmixed(v.knobs) => InGridOrder(v.knobs, lines)
    /\ v.pc \in {"search", "objective"} =>
          /\ v.announced = Len(Grid(v.knobs))
          /\ \E list : GridPlan(v.knobs, list) /\ OnPlan(v, Len(lines), list)
    /\ v.pc \in {"select", "done"} =>
          v.announced = Len(Grid(v.knobs)) /\ Len(lines) = Len(Grid(v.knobs))
GridInv == w.pc # "idle" /\ w.engine = "gridsearch" => Gridding(w, log)

\* gridsearch starts with the whole grid, but for the part of a continued task.
LEMMA GridStarts ==
  ASSUME SearchInv, StartInv, Sequence(log), StartGridsearch, Gridding(w, log)
  PROVE  Gridding(w', log')
<1> DEFINE l == Len(log)
           knobs == w.knobs
<1>0. DOMAIN w = SearchFields
  BY DEF SearchInv, OwnInv
<1>1. PICK items \in GridChoices(knobs) :
         w' = [w EXCEPT !.pc = "search", !.announced = Len(Expand(items)),
                        !.plan = SubSeq(Expand(items), w.done + 1, Len(Expand(items)))]
  BY DEF StartGridsearch, GridChoices
<1>2. w.pc = "start" /\ log' = log
  BY DEF StartGridsearch
<1>3. w.done = l /\ w.calls = 0
  BY <1>2 DEF StartInv
<1> DEFINE list == Expand(items)
<1>4. GridKnobs(knobs) /\ l <= Len(Grid(knobs))
  BY DEF Gridding
<1>5. GridPlan(knobs, list)
  BY <1>4, GridPlanned
<1>6. /\ w'.pc = "search" /\ w'.announced = Len(list) /\ w'.calls = 0 /\ w'.knobs = knobs
      /\ w'.plan = SubSeq(list, l + 1, Len(list))
  BY <1>0, <1>1, <1>3 DEF SearchFields
<1> HIDE DEF list
<1>7. l \in Nat /\ Len(list) \in Nat /\ l <= Len(list) /\ Sequence(list)
      /\ Len(list) = Len(Grid(knobs))
  BY <1>4, <1>5, AppendSequence DEF GridPlan
<1> HIDE DEF l
<1>8. OnPlan(w', l, list)
  <2> DEFINE a == l + 1
             b == Len(list)
             plan == SubSeq(list, a, b)
  <2>1. /\ Sequence(list) /\ a \in Nat \ {0} /\ b \in Nat /\ a <= b + 1
        /\ b <= Len(list) \/ a = b + 1
    BY <1>7
  <2>2. b + 1 - a = b - l /\ \A n \in 1..b - l : a + n - 1 = l + 0 + n
    BY <1>7
  <2> HIDE DEF a, b, plan
  <2>3. /\ Sequence(SubSeq(list, a, b)) /\ Len(SubSeq(list, a, b)) = b + 1 - a
        /\ \A n \in 1..b + 1 - a : SubSeq(list, a, b)[n] = list[a + n - 1]
    BY ONLY <2>1, SubSequence
  <2>4. /\ Sequence(plan) /\ Len(plan) = b - l
        /\ \A n \in 1..b - l : plan[n] = list[l + 0 + n]
    BY <2>2, <2>3 DEF plan
  <2>5. w'.plan = plan /\ b = Len(list)
    BY <1>6 DEF plan, a, b
  <2>6. Asking(w') = 0 /\ l + 0 + (b - l) = b
    BY <1>6, <1>7, <2>1 DEF Asking
  <2> QED
    BY <1>6, <2>4, <2>5, <2>6 DEF OnPlan
<1>9. Unmixed(knobs) => InGridOrder(knobs, log)
  BY DEF Gridding
<1>10. \E x : GridPlan(w'.knobs, x) /\ OnPlan(w', Len(log'), x)
  BY <1>2, <1>5, <1>6, <1>8 DEF l
<1> HIDE DEF knobs
<1> QED
  BY <1>2, <1>4, <1>6, <1>7, <1>9, <1>10 DEF Gridding, l

\* What gridsearch is told is the evaluation of the next of its grid.
LEMMA GridTells ==
  ASSUME SearchInv, Sequence(log), NEW value \in Values, Tell(value), w.engine = "gridsearch",
         Gridding(w, log)
  PROVE  Gridding(w', log')
<1> DEFINE l == Len(log)
           line == [setting |-> w.asked, value |-> value]
           lines == Append(log, line)
           knobs == w.knobs
<1>0. DOMAIN w = SearchFields
  BY DEF SearchInv, OwnInv
<1>1. /\ w.pc = "objective" /\ w'.pc = "search" /\ w'.knobs = knobs /\ log' = lines
      /\ w'.announced = w.announced /\ w'.plan = w.plan /\ w'.calls = w.calls
  BY <1>0, TellFields, TellKeeps DEF SamePlan
<1>2. PICK list : GridPlan(knobs, list) /\ OnPlan(w, l, list)
  BY <1>1 DEF Gridding
<1>3. /\ l \in Nat /\ Len(lines) = l + 1 /\ lines[l + 1] = line
      /\ \A n \in 1..l : lines[n] = log[n]
  BY AppendSequence
<1>4. OnPlan(w', l + 1, list) /\ w.asked = list[l + 1] /\ l + 1 <= Len(list)
  BY <1>1, <1>2, <1>3, PlanTells
<1>5. line.setting = w.asked
  OBVIOUS
<1> HIDE DEF lines, line, l, knobs
<1>6. Unmixed(knobs) => InGridOrder(knobs, lines)
  <2> SUFFICES ASSUME Unmixed(knobs), NEW n \in 1..l + 1
               PROVE  lines[n].setting = Grid(knobs)[n]
    BY <1>3 DEF InGridOrder
  <2>1. CASE n = l + 1
    BY <1>2, <1>3, <1>4, <1>5, <2>1 DEF GridPlan
  <2>2. CASE n # l + 1
    <3>1. n \in 1..l
      BY <1>3, <2>2
    <3>2. InGridOrder(knobs, log)
      BY DEF Gridding, knobs
    <3> QED
      BY <1>3, <3>1, <3>2 DEF InGridOrder, l
  <2> QED
    BY <2>1, <2>2
<1>7. Len(lines) <= Len(Grid(knobs)) /\ GridKnobs(knobs) /\ w.announced = Len(Grid(knobs))
  <2>1. Len(list) = Len(Grid(knobs))
    BY <1>2 DEF GridPlan
  <2> QED
    BY <1>1, <1>3, <1>4, <2>1 DEF Gridding, knobs
<1>8. \E x : GridPlan(w'.knobs, x) /\ OnPlan(w', Len(log'), x)
  BY <1>1, <1>2, <1>3, <1>4
<1> QED
  BY <1>1, <1>6, <1>7, <1>8 DEF Gridding

\* Every step keeps the evaluations of gridsearch the first ones of its grid.
LEMMA GridInvStep ==
  ASSUME GridsListed, SearchInv, StartInv, RankInv, GridInv, Sequence(log),
         [EngineNext]_engineVars
  PROVE  GridInv'
<1>0. DOMAIN w = SearchFields
  BY DEF SearchInv, OwnInv
<1>l. Len(log) \in Nat
  BY AppendSequence
<1> SUFFICES ASSUME w'.pc # "idle", w'.engine = "gridsearch" PROVE Gridding(w', log')
  BY DEF GridInv
<1>1. CASE (\E t \in Tasks : CreateTask(t)) \/ Lose
  <2>1. w'.pc = "start" /\ log' = log
    BY <1>0, <1>1, NewFields
  <2>2. CASE w.pc = "idle" /\ \E t \in Tasks : w'.knobs = t.knobs /\ w'.engine = t.engine
    <3>1. GridKnobs(w'.knobs)
      BY <2>2 DEF GridsListed
    <3>2. log = <<>> /\ Len(log) = 0
      BY <2>2, EmptySequence DEF StartInv
    <3>3. Len(Grid(w'.knobs)) \in Nat
      BY <3>1, GridSized DEF GridPlan
    <3>4. InGridOrder(w'.knobs, log')
      BY <2>1, <3>2 DEF InGridOrder
    <3> QED
      BY <2>1, <3>1, <3>2, <3>3, <3>4 DEF Gridding
  <2>3. CASE w.pc \in {"search", "objective"} /\ w'.engine = w.engine /\ w'.knobs = w.knobs
    <3>1. Gridding(w, log)
      BY <2>3 DEF GridInv
    <3> QED
      BY <2>1, <2>3, <3>1 DEF Gridding
  <2> QED
    BY <1>0, <1>1, <2>2, <2>3, NewFields
<1>2. ASSUME NEW v \in Values, Tell(v) PROVE Gridding(w', log')
  <2>1. w.pc = "objective" /\ w.engine = "gridsearch"
    BY <1>0, <1>2, TellFields, TellKeeps
  <2>2. Gridding(w, log)
    BY <2>1 DEF GridInv
  <2> QED
    BY <1>2, <2>1, <2>2, GridTells
<1>3. CASE StartGridsearch
  <2>1. w.pc = "start" /\ w.engine = "gridsearch"
    BY <1>3 DEF StartGridsearch
  <2>2. Gridding(w, log)
    BY <2>1 DEF GridInv
  <2> QED
    BY <1>3, <2>2, GridStarts
<1>4. CASE StartABtest \/ StartSampling \/ StartTraverse \/ StartModel
  <2>1. w.engine # "gridsearch"
    BY <1>4 DEF StartABtest, StartSampling, StartTraverse, StartModel
  <2>2. w'.engine = w.engine
    BY <1>0, <1>4, StartFields DEF SameEvaluations
  <2> QED
    BY <2>1, <2>2
<1>5. CASE Ask
  <2>1. /\ w.pc = "search" /\ w'.pc = "objective" /\ w.engine = "gridsearch" /\ log' = log
        /\ w'.knobs = w.knobs /\ w'.announced = w.announced
    BY <1>0, <1>5, AskFields DEF SameEvaluations, SamePlan
  <2>2. Gridding(w, log)
    BY <2>1 DEF GridInv
  <2>3. PICK list : GridPlan(w.knobs, list) /\ OnPlan(w, Len(log), list)
    BY <2>1, <2>2 DEF Gridding
  <2>4. OnPlan(w', Len(log), list)
    BY <1>0, <1>5, <1>l, <2>3, PlanAsks
  <2> QED
    BY <2>1, <2>2, <2>3, <2>4 DEF Gridding
<1>6. CASE Finish
  <2>1. /\ w.pc = "search" /\ w.plan = <<>> /\ w.engine = "gridsearch" /\ log' = log
        /\ w'.pc \in {"rank", "done", "select"} /\ w'.pc # "rank"
        /\ w'.knobs = w.knobs /\ w'.announced = w.announced
    BY <1>0, <1>6, FinishFields DEF SameEvaluations, SamePlan
  <2>2. Gridding(w, log)
    BY <2>1 DEF GridInv
  <2>3. PICK list : GridPlan(w.knobs, list) /\ OnPlan(w, Len(log), list)
    BY <2>1, <2>2 DEF Gridding
  <2>4. Len(log) = Len(Grid(w.knobs))
    BY <1>l, <2>1, <2>3, PlanEnds DEF GridPlan
  <2> QED
    BY <2>1, <2>2, <2>4 DEF Gridding
<1>7. CASE RankTraversed
  <2>1. w.pc = "rank" /\ w'.engine = w.engine
    BY <1>0, <1>7, RankFields DEF SameEvaluations
  <2> QED
    BY <2>1 DEF RankInv
<1>8. CASE Fails \/ Select \/ \E r \in Regressors : RegressorEnds(r)
  <2>1. /\ \/ w.pc = "search" /\ w'.pc \in {"error", "crashed"}
           \/ w.pc = "select" /\ w'.pc \in {"select", "done", "crashed"}
        /\ w.engine = "gridsearch"
        /\ log' = log /\ w'.knobs = w.knobs /\ w'.announced = w.announced
    BY <1>0, <1>8, SelectFields, FailFields DEF SameEvaluations, SamePlan
  <2>2. Gridding(w, log)
    BY <2>1 DEF GridInv
  <2> QED
    BY <2>1, <2>2 DEF Gridding
<1>9. CASE w' = w /\ log' = log
  BY <1>9 DEF GridInv
<1> QED
  BY <1>1, <1>2, <1>3, <1>4, <1>5, <1>6, <1>7, <1>8, <1>9, WorkerCases

-----------------------------------------------------------------------------
(* What a search asks for                                                  *)

\* The worker's own evaluations are those of its settings.
LEMMA OwnSettings ==
  ASSUME SearchInv
  PROVE  /\ Len(w.options) \in Nat /\ Len(Own) = Len(w.options)
         /\ DOMAIN Own = 1..Len(w.options)
         /\ \A n \in 1..Len(w.options) : Own[n].setting = w.options[n]
<1> DEFINE l == Len(log)
           p == Len(w.perf)
           first == l - p + 1
<1>1. /\ Sequence(log) /\ l \in Nat /\ p \in Nat /\ p <= l /\ Len(w.options) = p
      /\ \A n \in 1..p : log[l - p + n].setting = w.options[n]
  BY AppendSequence DEF SearchInv, LogInv, OwnInv
<1>2. Own = SubSeq(log, first, l) /\ l = Len(log)
  BY DEF Own
<1> HIDE DEF l, p
<1>3. /\ first \in Nat \ {0} /\ first <= l + 1 /\ l + 1 - first = p
      /\ \A n \in 1..p : first + n - 1 = l - p + n
  BY <1>1
<1> HIDE DEF first
<1>4. /\ Len(SubSeq(log, first, l)) = l + 1 - first
      /\ DOMAIN SubSeq(log, first, l) = 1..l + 1 - first
      /\ \A n \in 1..l + 1 - first : SubSeq(log, first, l)[n] = log[first + n - 1]
  <2>1. /\ Sequence(log) /\ first \in Nat \ {0} /\ l \in Nat /\ first <= l + 1
        /\ l <= Len(log) \/ first = l + 1
    BY <1>1, <1>2, <1>3
  <2> QED
    BY ONLY <2>1, SubSequence
<1>5. ASSUME NEW n \in 1..p PROVE Own[n].setting = w.options[n]
  <2>1. Own[n] = log[l - p + n]
    BY <1>2, <1>3, <1>4
  <2> QED
    BY <1>1, <2>1
<1> QED
  BY <1>1, <1>2, <1>3, <1>4, <1>5

\* A gridsearch that is done has evaluated each combination once.
LEMMA GridCovers ==
  ASSUME SearchInv, GridInv, w.pc = "done", w.engine = "gridsearch"
  PROVE  /\ Len(log) = w.announced
         /\ (\A k \in ToSet(w.knobs) : ~Mixed(k)) =>
               \A s \in Product([i \in DOMAIN w.knobs |->
                                    ToSet(CHOOSE g \in GridItems(w.knobs[i]) : TRUE)]) :
                  Times(s) = 1
<1> DEFINE knobs == w.knobs
           items == GridChoice(knobs)
           sets == [i \in DOMAIN knobs |-> ToSet(CHOOSE g \in GridItems(knobs[i]) : TRUE)]
<1>1. /\ GridKnobs(knobs) /\ w.announced = Len(Grid(knobs)) /\ Len(log) = Len(Grid(knobs))
      /\ Unmixed(knobs) => InGridOrder(knobs, log)
  BY DEF GridInv, Gridding
<1> SUFFICES ASSUME Unmixed(knobs), NEW s \in Product(sets) PROVE Times(s) = 1
  BY <1>1 DEF Unmixed
<1>2. items = [i \in DOMAIN knobs |-> items[i]]
      /\ \A i \in DOMAIN knobs : items[i] \in GridItems(knobs[i])
  <2>1. \A i \in DOMAIN knobs : items[i] \in GridItems(knobs[i])
    BY <1>1, Chosen
  <2> QED
    BY <2>1 DEF GridChoice
<1>3. DOMAIN sets = DOMAIN knobs /\ \A i \in DOMAIN knobs : sets[i] = ToSet(items[i])
  BY DEF GridChoice
<1>4. Grid(knobs) = Expand(items)
  BY DEF Grid
<1> HIDE DEF items, sets, knobs
<1>5. /\ Lists(items) /\ DOMAIN knobs = 1..Len(items)
      /\ \A i \in 1..Len(items) : Distinct(items[i])
  BY <1>1, <1>2, ChosenLists
<1>6. s = [i \in 1..Len(items) |-> s[i]] /\ \A i \in 1..Len(items) : s[i] \in ToSet(items[i])
  BY <1>3, <1>5 DEF Product
<1>7. ASSUME NEW i \in 1..Len(items) PROVE \E j \in 1..Len(items[i]) : s[i] = items[i][j]
  <2>1. DOMAIN items[i] = 1..Len(items[i])
    BY <1>5, AppendSequence DEF Distinct
  <2> QED
    BY <1>6, <2>1 DEF ToSet
<1>8. PICK u \in 1..Len(Expand(items)) :
         \A n \in 1..Len(Expand(items)) : Expand(items)[n] = s <=> n = u
  <2>1. Sequence(items)
    BY <1>5 DEF Lists
  <2>2. Combination(s, items)
    BY <1>5, <1>6, <1>7, <2>1 DEF Combination
  <2>3. OnceIn(s, Expand(items))
    BY ONLY <2>2, ExpandsOnce
  <2> QED
    BY <2>3 DEF OnceIn
<1>9. DOMAIN log = 1..Len(log) /\ Len(log) = Len(Expand(items))
  BY <1>1, <1>4, AppendSequence DEF SearchInv, LogInv
<1>10. \A n \in DOMAIN log : log[n].setting = Expand(items)[n]
  BY <1>1, <1>4, <1>9 DEF InGridOrder
<1>11. {n \in DOMAIN log : log[n].setting = s} = {u}
  BY <1>8, <1>9, <1>10
<1> QED
  BY <1>11, FS_Singleton DEF Times

\* An abtest that is done has tried each item of each knob, those before it at
\* their best and those after it at their first.
LEMMA ABtestCovers ==
  ASSUME ABtestInv, SweepingInv, w.pc = "done", w.engine = "abtest"
  PROVE  /\ Len(Own) = w.announced
         /\ \A i \in DOMAIN w.knobs : \A v \in ToSet(ABtestItems(w.knobs[i])) :
               \E n \in DOMAIN Own : \A j \in DOMAIN w.knobs :
                  Own[n].setting[j] = IF j < i THEN w.best[j] ELSE IF j = i THEN v
                                      ELSE ABtestItems(w.knobs[j])[1]
<1> DEFINE lists == ItemLists(w.knobs)
           N == Len(w.knobs)
<1>1. SearchInv /\ Triable(w.knobs)
  BY DEF ABtestInv, SteadyInv
<1>2. /\ N \in Nat /\ DOMAIN w.knobs = 1..N
      /\ \A i \in 1..N : /\ Len(ABtestItems(w.knobs[i])) \in Nat
                         /\ DOMAIN ABtestItems(w.knobs[i]) = 1..Len(ABtestItems(w.knobs[i]))
  BY <1>1, AppendSequence DEF Triable
<1>3. /\ Sequence(lists) /\ Len(lists) = N
      /\ \A i \in 1..N : lists[i] = ABtestItems(w.knobs[i])
  <2>1. lists = [i \in 1..N |-> ABtestItems(w.knobs[i])]
    BY DEF ItemLists
  <2> HIDE DEF lists, N
  <2>2. lists = [i \in 1..N |-> lists[i]]
    BY <2>1
  <2> QED
    BY <1>2, <2>1, <2>2, MadeSequence
<1>4. PICK at : Ends(ItemLists(w.knobs), at)
  <2>1. \A i \in 1..Len(lists) : Len(lists[i]) \in Nat
    BY <1>2, <1>3
  <2> HIDE DEF lists
  <2>2. \E at : Ends(lists, at)
    BY <1>3, <2>1, EndsExist
  <2> QED
    BY <2>2 DEF lists
<1>5. /\ w.announced = at[N] /\ SweptTo(w, at, N) /\ Len(w.options) = at[N]
  BY <1>4 DEF SweepingInv, Sweeping
<1>6. /\ Len(Own) = Len(w.options) /\ DOMAIN Own = 1..Len(w.options)
      /\ \A n \in 1..Len(w.options) : Own[n].setting = w.options[n]
  BY <1>1, OwnSettings
<1> HIDE DEF N, lists
<1>7. ASSUME NEW i \in DOMAIN w.knobs, NEW v \in ToSet(ABtestItems(w.knobs[i]))
      PROVE  \E n \in DOMAIN Own : \A j \in DOMAIN w.knobs :
                Own[n].setting[j] = IF j < i THEN w.best[j] ELSE IF j = i THEN v
                                    ELSE ABtestItems(w.knobs[j])[1]
  <2>0. i \in 1..N /\ DOMAIN w.knobs = 1..N
    BY <1>2
  <2>1. PICK k \in 1..Len(ABtestItems(w.knobs[i])) : v = ABtestItems(w.knobs[i])[k]
    BY <1>2, <2>0 DEF ToSet
  <2> DEFINE n == at[i - 1] + k
  <2>2. SweptAt(w, n, i, k)
    BY <1>5, <2>0 DEF SweptTo, SweptKnob
  <2> HIDE DEF n
  <2>3. n \in DOMAIN Own /\ Own[n].setting = w.options[n]
    BY <1>6, <2>2 DEF SweptAt
  <2>4. \A j \in 1..N : w.options[n][j] = IF j < i THEN w.best[j]
                                          ELSE IF j = i THEN ABtestItems(w.knobs[i])[k]
                                          ELSE ABtestItems(w.knobs[j])[1]
    BY <2>0, <2>2 DEF SweptAt, N
  <2> QED
    BY <2>0, <2>1, <2>3, <2>4
<1>8. Len(Own) = w.announced
  BY <1>5, <1>6
<1> QED
  BY <1>7, <1>8

\* A traverse that is done has tried each alternative of each knob alone.
LEMMA TraverseCovers ==
  ASSUME RankedInv, w.pc = "done", w.engine = "traverse"
  PROVE  /\ Len(Own) = w.announced
         /\ \A i \in DOMAIN w.knobs : \A v \in ToSet(Alternatives(w.knobs[i])) :
               \E n \in DOMAIN Own : Own[n].setting = [Defaults(w.knobs) EXCEPT ![i] = v]
<1> DEFINE list == TraverseList(w.knobs)
<1>1. SearchInv /\ KnobList(w.knobs) /\ Traversing(list)
  BY DEF RankedInv, KnobsInv, TraverseInv
<1>2. Traverses(w.knobs, list, Owner(w.knobs))
  BY <1>1, TraverseListOf
<1> HIDE DEF list
<1>3. w.announced = Len(list) /\ FirstOf(w.options, list) /\ Len(w.options) = Len(list)
  BY <1>1 DEF Traversing
<1>4. /\ Len(w.options) \in Nat /\ Len(Own) = Len(w.options) /\ DOMAIN Own = 1..Len(w.options)
      /\ \A n \in 1..Len(w.options) : Own[n].setting = w.options[n]
  BY <1>1, OwnSettings
<1>5. DOMAIN w.knobs = 1..Len(w.knobs)
  BY <1>1, AppendSequence DEF KnobList
<1>6. ASSUME NEW i \in 1..Len(w.knobs), NEW v \in ToSet(Alternatives(w.knobs[i]))
      PROVE  \E n \in DOMAIN Own : Own[n].setting = [Defaults(w.knobs) EXCEPT ![i] = v]
  <2>1. Sequence(Alternatives(w.knobs[i]))
    BY <1>1, AlternativesDiffer DEF KnobList
  <2>2. DOMAIN Alternatives(w.knobs[i]) = 1..Len(Alternatives(w.knobs[i]))
    BY <2>1, AppendSequence
  <2>3. PICK j \in 1..Len(Alternatives(w.knobs[i])) : v = Alternatives(w.knobs[i])[j]
    BY <2>2 DEF ToSet
  <2>4. PICK n \in 2..Len(list) : TraversesAt(w.knobs, list, Owner(w.knobs), n, i, j)
    BY <1>2, <2>3 DEF Traverses
  <2>5. list[n] = [Defaults(w.knobs) EXCEPT ![i] = v]
    BY <2>3, <2>4 DEF TraversesAt
  <2>6. n \in 1..Len(w.options)
    BY <1>3, <1>4
  <2>7. n \in DOMAIN Own /\ Own[n].setting = w.options[n]
    BY <1>4, <2>6
  <2>8. w.options[n] = list[n]
    BY <1>3, <2>6 DEF FirstOf
  <2> QED
    BY <2>5, <2>7, <2>8
<1> QED
  BY <1>3, <1>4, <1>5, <1>6

\* What covers the space: how each engine has planned its evaluations.
CoveringInv ==
    /\ RankedInv /\ ABtestInv /\ StartInv
    /\ CallsInv /\ SamplingInv /\ SweepingInv /\ GridInv

\* The parts of the invariant give what CoversSpace says of each engine.
LEMMA CoveringInvSound ==
  ASSUME SearchAssumption, CoveringInv
  PROVE  CoversSpace
<1> USE DEF CoveringInv
<1> SUFFICES ASSUME w.pc = "done"
             PROVE  CASE w.engine = "gridsearch" ->
                /\ Len(log) = w.announced
                /\ (\A k \in ToSet(w.knobs) : ~Mixed(k)) =>
                     \A s \in Product([i \in DOMAIN w.knobs |->
                                          ToSet(CHOOSE g \in GridItems(w.knobs[i]) : TRUE)]) :
                         Times(s) = 1
          [] w.engine = "abtest" ->
                /\ Len(Own) = w.announced
                /\ \A i \in DOMAIN w.knobs : \A v \in ToSet(ABtestItems(w.knobs[i])) :
                     \E n \in DOMAIN Own : \A j \in DOMAIN w.knobs :
                        Own[n].setting[j] = IF j < i THEN w.best[j] ELSE IF j = i THEN v
                                            ELSE ABtestItems(w.knobs[j])[1]
          [] w.engine = "traverse" ->
                /\ Len(Own) = w.announced
                /\ \A i \in DOMAIN w.knobs : \A v \in ToSet(Alternatives(w.knobs[i])) :
                     \E n \in DOMAIN Own :
                        Own[n].setting = [Defaults(w.knobs) EXCEPT ![i] = v]
          [] w.engine = "bayes" -> Len(log) = MaxEval
          [] w.engine = "ppo" -> Len(Own) >= MaxEval
          [] OTHER -> Len(Own) = MaxEval
  BY DEF CoversSpace
<1>1. SearchInv /\ Len(Own) = Len(w.options) /\ w.engine \in Engines
  BY OwnSettings DEF RankedInv, StartInv
<1>2. CASE w.engine = "gridsearch"
  BY <1>1, <1>2, GridCovers
<1>3. CASE w.engine = "abtest"
  BY <1>3, ABtestCovers
<1>4. CASE w.engine = "traverse"
  BY <1>4, TraverseCovers
<1>5. CASE w.engine = "bayes"
  <2>1. Len(log) = MaxEval
    BY <1>5 DEF CallsInv, CallsLeft
  <2> QED
    BY <1>5, <2>1
<1>6. CASE w.engine = "ppo"
  <2>1. Len(Own) >= MaxEval
    BY <1>1, <1>6, RolloutsEnough DEF CallsInv, CallsLeft
  <2> QED
    BY <1>6, <2>1
<1>7. CASE w.engine \in {"lhs", "tpe"}
  <2>1. Len(Own) = MaxEval
    BY <1>1, <1>7 DEF CallsInv, CallsLeft, SamplingInv, Sampling
  <2> QED
    BY <1>7, <2>1
<1> QED
  BY <1>1, <1>2, <1>3, <1>4, <1>5, <1>6, <1>7 DEF Engines

\* The invariant holds when nothing has been evaluated.
LEMMA CoveringInvInit ==
  ASSUME SearchInit, RankedInv, ABtestInv PROVE CoveringInv
<1>1. w.pc = "idle" /\ log = <<>>
  BY DEF SearchInit, NewWorker
<1> QED
  BY <1>1 DEF CoveringInv, StartInv, CallsInv, SamplingInv, SweepingInv, GridInv

\* Until a search ends, what has been evaluated, what is under way and what is
\* planned are together what its engine promises to ask for.
THEOREM SearchCovers ==
  ASSUME KnobsListed, ABtestsTriable, GridsListed PROVE EngineSpec => []CoveringInv
<1>1. EngineInit /\ RankedInv /\ ABtestInv => CoveringInv
  BY CoveringInvInit DEF EngineInit
<1>2. /\ CoveringInv /\ RankedInv' /\ ABtestInv' /\ [EngineNext]_engineVars
      => CoveringInv'
  <2> SUFFICES ASSUME CoveringInv, RankedInv', ABtestInv', [EngineNext]_engineVars
               PROVE  CoveringInv'
    OBVIOUS
  <2>1. /\ RankedInv /\ ABtestInv /\ StartInv /\ CallsInv /\ SamplingInv /\ SweepingInv
        /\ GridInv
    BY DEF CoveringInv
  <2>2. SearchInv /\ RankInv /\ Sequence(log)
    BY <2>1 DEF RankedInv, SearchInv, LogInv
  <2>3. StartInv' /\ CallsInv' /\ SamplingInv'
    BY <2>1, <2>2, SearchAssumption, StartInvStep, CallsInvStep, SamplingInvStep
  <2>4. SweepingInv' /\ GridInv'
    BY <2>1, <2>2, SearchAssumption, SweepingInvStep, GridInvStep
  <2> QED
    BY <2>3, <2>4 DEF CoveringInv
<1> QED
  BY <1>1, <1>2, TraverseRanked, ABtestDescends, PTL DEF EngineSpec

\* A search that has finished has asked for what its engine promises and for as
\* many evaluations as it announced (do_gridsearch, do_abtest_tuning,
\* get_traverse_list, run), whatever came back and however often it was lost.
THEOREM SpacesCovered ==
  ASSUME KnobsListed, ABtestsTriable, GridsListed PROVE EngineSpec => []CoversSpace
<1>1. CoveringInv => CoversSpace
  BY CoveringInvSound, SearchAssumption
<1> QED
  BY <1>1, SearchCovers, PTL
=============================================================================
