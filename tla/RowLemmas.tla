------------------------------ MODULE RowLemmas ------------------------------
(***************************************************************************)
(* Lemmas about rows in order, and the induction they rest on: for sets      *)
(* instead of predicates, which the provers cannot instantiate, and for      *)
(* computations by steps, which a recursive function unfolds to.             *)
(***************************************************************************)
EXTENDS Rows, FiniteSets, FiniteSetTheorems, SequenceTheorems, TLAPS

(***************************************************************************)
(* Induction.                                                               *)
(***************************************************************************)
\* A set of natural numbers that is not empty has a least element: among the
\* intervals 1..n of its elements, one is in no other.
LEMMA LeastNat ==
  ASSUME NEW T \in SUBSET Nat, T # {}
  PROVE  \E n \in T : \A m \in T : n <= m
<1> DEFINE Down == {1..n : n \in T}
           R == StrictSubsetOrdering(Nat)
<1>1. Down \subseteq FiniteSubsetsOf(Nat)
  <2> SUFFICES ASSUME NEW n \in T PROVE 1..n \in FiniteSubsetsOf(Nat)
    OBVIOUS
  <2>1. IsFiniteSet(1..n)
    BY FS_Interval
  <2> QED  BY <2>1 DEF FiniteSubsetsOf
<1>2. Down # {}
  OBVIOUS
<1>3. PICK D \in Down : \A E \in Down : ~(<<E, D>> \in R)
  <2> HIDE DEF Down, R
  <2>1. IsWellFoundedOn(R, FiniteSubsetsOf(Nat))
    BY FS_StrictSubsetOrderingWellFounded DEF R
  <2> QED  BY <1>1, <1>2, <2>1, WFMin
<1>4. PICK n \in T : D = 1..n
  OBVIOUS
<1>5. ASSUME NEW m \in T, m < n PROVE FALSE
  <2>1. 1..m \in Down /\ 1..m \subseteq D /\ 1..m # D /\ D \subseteq Nat
    <3>1. n \in D /\ n \notin 1..m
      BY <1>4, <1>5
    <3> QED  BY <1>4, <1>5, <3>1
  <2> HIDE DEF Down
  <2>2. <<1..m, D>> \in R
    BY <2>1 DEF StrictSubsetOrdering
  <2> QED  BY <1>3, <2>1, <2>2
<1> QED  BY <1>5

\* A set with 0, and with the successor of each of its elements, has them all.
LEMMA Induction ==
  ASSUME NEW T, 0 \in T, \A n \in Nat : n \in T => n + 1 \in T
  PROVE  Nat \subseteq T
<1> SUFFICES ASSUME Nat \ T # {} PROVE FALSE
  OBVIOUS
<1>1. PICK n \in Nat \ T : \A m \in Nat \ T : n <= m
  BY LeastNat
<1>2. n # 0 /\ n - 1 \in Nat /\ n - 1 \in T
  BY <1>1
<1> QED BY <1>2

\* A computation that takes a step for each of 1..N has a value after each of them.
LEMMA StepsExist ==
  ASSUME NEW S, NEW base \in S, NEW N \in Nat, NEW step \in [1..N -> [S -> S]]
  PROVE  \E f \in [0..N -> S] : f[0] = base /\ \A n \in 1..N : f[n] = step[n][f[n-1]]
<1> DEFINE Steps(f, n) == f[0] = base /\ \A i \in 1..n : f[i] = step[i][f[i-1]]
           T == {n \in Nat : n <= N => \E f \in [0..n -> S] : Steps(f, n)}
<1>1. 0 \in T
  <2> DEFINE g == [i \in 0..0 |-> base]
  <2>1. g \in [0..0 -> S]
    OBVIOUS
  <2>2. Steps(g, 0)
    OBVIOUS
  <2> HIDE DEF g, Steps
  <2> QED  BY <2>1, <2>2
<1>2. ASSUME NEW n \in Nat, n \in T PROVE n + 1 \in T
  <2> SUFFICES ASSUME n + 1 <= N PROVE \E f \in [0..(n+1) -> S] : Steps(f, n + 1)
    OBVIOUS
  <2>1. PICK f \in [0..n -> S] : Steps(f, n)
    BY <1>2
  <2> DEFINE g == [i \in 0..(n+1) |-> IF i <= n THEN f[i] ELSE step[n + 1][f[n]]]
  <2>2. step[n + 1][f[n]] \in S
    <3>1. f[n] \in S /\ n + 1 \in 1..N
      OBVIOUS
    <3> QED  BY <3>1
  <2>3. g \in [0..(n+1) -> S]
    BY <2>2
  <2>4. /\ \A i \in 0..n : g[i] = f[i]
        /\ g[n+1] = step[n+1][f[n]]
    OBVIOUS
  <2> HIDE DEF g
  <2>5. ASSUME NEW i \in 1..(n+1) PROVE g[i] = step[i][g[i-1]]
    <3>1. CASE i \in 1..n
      <4>1. g[i] = f[i] /\ g[i-1] = f[i-1]
        BY <2>4, <3>1
      <4> QED  BY <2>1, <3>1, <4>1
    <3>2. CASE i = n + 1
      <4>1. i - 1 = n /\ g[i-1] = f[n]
        BY <2>4, <3>2
      <4> QED  BY <2>4, <3>2, <4>1
    <3> QED  BY <3>1, <3>2
  <2>6. Steps(g, n + 1)
    BY <2>1, <2>4, <2>5
  <2> HIDE DEF Steps
  <2> QED  BY <2>3, <2>6
<1>3. N \in T
  <2> HIDE DEF T
  <2> QED  BY <1>1, <1>2, Induction
<1> QED  BY <1>3

(***************************************************************************)
(* Rows in order.                                                           *)
(***************************************************************************)
\* Without(s, S) is computed row by row.
Unfolds(s, S, A) ==
  \E kept \in [0..Len(s) -> Seq(A)] :
    /\ Without(s, S) = kept[Len(s)] /\ kept[0] = <<>>
    /\ \A n \in 1..Len(s) :
         kept[n] = IF s[n] \in S THEN kept[n-1] ELSE Append(kept[n-1], s[n])

\* The recursion equation of Without.
LEMMA WithoutSteps ==
  ASSUME NEW A, NEW s \in Seq(A), NEW S
  PROVE  Unfolds(s, S, A)
<1>n. PICK N \in Nat : N = Len(s)
  OBVIOUS
<1>q. PICK Q : Q = Seq(A)
  OBVIOUS
<1> DEFINE NextOf(x, n) == IF s[n] \in S THEN x ELSE Append(x, s[n])
           step == [n \in 1..N |-> [x \in Q |-> NextOf(x, n)]]
           Upto(f, n) == IF n = 0 THEN <<>> ELSE NextOf(f[n-1], n)
           kept == CHOOSE f : f = [n \in 0..N |-> Upto(f, n)]
<1>1. <<>> \in Q /\ \A x \in Q, n \in 1..N : NextOf(x, n) \in Q
  BY <1>n, <1>q
<1>2. Without(s, S) = kept[N]
  BY <1>n DEF Without
<1> HIDE DEF NextOf
<1>3. \A x \in Q, n \in 1..N : step[n][x] = NextOf(x, n)
  OBVIOUS
<1>4. step \in [1..N -> [Q -> Q]]
  BY <1>1
<1> HIDE DEF step
<1>5. PICK f \in [0..N -> Q] : f[0] = <<>> /\ \A n \in 1..N : f[n] = step[n][f[n-1]]
  <2>1. PICK base : base = <<>>
    OBVIOUS
  <2>2. base \in Q
    BY <1>1, <2>1
  <2>3. \E f \in [0..N -> Q] : f[0] = base /\ \A n \in 1..N : f[n] = step[n][f[n-1]]
    BY <1>4, <2>2, StepsExist
  <2> QED  BY <2>1, <2>3
<1>6. f = [n \in 0..N |-> Upto(f, n)]
  <2>1. \A n \in 0..N : f[n] = Upto(f, n)
    <3> SUFFICES ASSUME NEW n \in 0..N, n # 0 PROVE f[n] = NextOf(f[n-1], n)
      BY <1>5
    <3>1. n \in 1..N /\ f[n-1] \in Q
      OBVIOUS
    <3> QED  BY <1>3, <1>5, <3>1
  <2> HIDE DEF Upto
  <2> QED  BY <2>1
<1>7. kept = [n \in 0..N |-> Upto(kept, n)]
  <2> HIDE DEF Upto
  <2> QED  BY <1>6
<1> HIDE DEF kept
<1>8. \A n \in 0..N : kept[n] = Upto(kept, n)
  <2> HIDE DEF Upto
  <2> QED  BY <1>7
<1>9. \A n \in 0..N : kept[n] \in Q
  <2> DEFINE T == {n \in Nat : n <= N => kept[n] \in Q}
  <2>1. 0 \in T
    BY <1>1, <1>8
  <2>2. ASSUME NEW n \in Nat, n \in T PROVE n + 1 \in T
    <3> SUFFICES ASSUME n + 1 <= N PROVE kept[n+1] \in Q
      OBVIOUS
    <3>1. kept[n] \in Q /\ (n + 1) - 1 = n /\ n + 1 \in 0..N /\ n + 1 # 0 /\ n + 1 \in 1..N
      BY <2>2
    <3>2. kept[n+1] = NextOf(kept[n], n + 1)
      BY <1>8, <3>1
    <3> QED  BY <1>1, <3>1, <3>2
  <2>3. Nat \subseteq T
    <3> HIDE DEF T
    <3> QED  BY <2>1, <2>2, Induction
  <2> QED  BY <2>3
<1>10. kept \in [0..N -> Q]
  <2> HIDE DEF Upto
  <2> QED  BY <1>7, <1>9
<1>11. /\ kept[0] = <<>>
       /\ \A n \in 1..N : kept[n] = IF s[n] \in S THEN kept[n-1] ELSE Append(kept[n-1], s[n])
  BY <1>8 DEF NextOf
<1> QED  BY <1>n, <1>q, <1>2, <1>10, <1>11 DEF Unfolds

\* Without keeps the rows outside the set, each once, in their order.
LEMMA WithoutRows ==
  ASSUME NEW A, NEW s \in Seq(A), Distinct(s), NEW S
  PROVE  /\ Without(s, S) \in Seq(A) /\ Distinct(Without(s, S))
         /\ Members(Without(s, S)) = Members(s) \ S
         /\ \A d, e : d \notin S /\ e \notin S /\ Before(s, d, e) => Before(Without(s, S), d, e)
<1> DEFINE N == Len(s)
<1>1. PICK kept \in [0..N -> Seq(A)] :
        /\ Without(s, S) = kept[N] /\ kept[0] = <<>>
        /\ \A n \in 1..N : kept[n] = IF s[n] \in S THEN kept[n-1] ELSE Append(kept[n-1], s[n])
  <2>1. Unfolds(s, S, A)
    BY WithoutSteps
  <2> QED  BY <2>1 DEF Unfolds
<1> DEFINE From(n) == \A i \in DOMAIN kept[n] : \E m \in 1..n : kept[n][i] = s[m] /\ s[m] \notin S
           All(n)  == \A m \in 1..n : s[m] \notin S => \E i \in DOMAIN kept[n] : kept[n][i] = s[m]
           Order(n) == \A i, j \in DOMAIN kept[n] : \A a, b \in 1..n :
                         i < j /\ kept[n][i] = s[a] /\ kept[n][j] = s[b] => a < b
           T == {n \in Nat : n <= N => From(n) /\ All(n) /\ Order(n)}
<1>2. 0 \in T
  BY <1>1
<1>3. ASSUME NEW n \in Nat, n \in T PROVE n + 1 \in T
  <2> SUFFICES ASSUME n + 1 <= N PROVE From(n + 1) /\ All(n + 1) /\ Order(n + 1)
    OBVIOUS
  <2>1. /\ From(n) /\ All(n) /\ Order(n)
        /\ n \in 0..N /\ n + 1 \in 1..N /\ (n + 1) - 1 = n
    BY <1>3
  <2>2. PICK k \in Seq(A), l \in Seq(A) : k = kept[n] /\ l = kept[n+1]
    BY <2>1
  <2>3. l = IF s[n+1] \in S THEN k ELSE Append(k, s[n+1])
    BY <1>1, <2>1, <2>2
  <2>4. /\ \A i \in DOMAIN k : \E m \in 1..n : k[i] = s[m] /\ s[m] \notin S
        /\ \A m \in 1..n : s[m] \notin S => \E i \in DOMAIN k : k[i] = s[m]
        /\ \A i, j \in DOMAIN k : \A a, b \in 1..n :
             i < j /\ k[i] = s[a] /\ k[j] = s[b] => a < b
    BY <2>1, <2>2
  <2>s. \A a, b \in 1..(n+1) : s[a] = s[b] => a = b
    <3>1. 1..(n+1) \subseteq DOMAIN s
      BY <2>1
    <3> QED  BY <3>1 DEF Distinct
  <2>5. CASE s[n+1] \in S
    <3>1. l = k
      BY <2>3, <2>5
    <3>2. \A i \in DOMAIN l : \A a \in 1..(n+1) : l[i] = s[a] => a \in 1..n
      BY <2>1, <2>4, <2>5, <3>1
    <3>3. \A i, j \in DOMAIN l : \A a, b \in 1..(n+1) :
             i < j /\ l[i] = s[a] /\ l[j] = s[b] => a < b
      BY <2>4, <3>1, <3>2
    <3>4. /\ \A i \in DOMAIN l : \E m \in 1..(n+1) : l[i] = s[m] /\ s[m] \notin S
          /\ \A m \in 1..(n+1) : s[m] \notin S => \E i \in DOMAIN l : l[i] = s[m]
      BY <2>1, <2>4, <2>5, <3>1
    <3> QED  BY <2>2, <3>3, <3>4
  <2>6. CASE s[n+1] \notin S
    <3>1. /\ l = Append(k, s[n+1]) /\ s[n+1] \in A
          /\ DOMAIN k = 1..Len(k) /\ DOMAIN l = 1..(Len(k) + 1) /\ Len(k) \in Nat
          /\ \A i \in DOMAIN k : l[i] = k[i]
          /\ l[Len(k) + 1] = s[n+1]
      BY <2>1, <2>3, <2>6, AppendProperties
    <3>2. \A i \in DOMAIN l : \E m \in 1..(n+1) : l[i] = s[m] /\ s[m] \notin S
      BY <2>1, <2>4, <2>6, <3>1
    <3>3. \A m \in 1..(n+1) : s[m] \notin S => \E i \in DOMAIN l : l[i] = s[m]
      BY <2>1, <2>4, <2>6, <3>1
    <3>4. ASSUME NEW i \in DOMAIN l, NEW j \in DOMAIN l, NEW a \in 1..(n+1), NEW b \in 1..(n+1),
                 i < j, l[i] = s[a], l[j] = s[b]
          PROVE  a < b
      <4>1. i \in DOMAIN k /\ k[i] = s[a]
        BY <3>1, <3>4
      <4>2. PICK m \in 1..n : k[i] = s[m]
        BY <2>4, <4>1
      <4>3. a = m
        <5>1. m \in 1..(n+1)
          BY <2>1
        <5> QED  BY <2>s, <4>1, <4>2, <5>1
      <4>4. CASE j \in DOMAIN k
        <5>1. PICK m2 \in 1..n : k[j] = s[m2]
          BY <2>4, <4>4
        <5>2. b = m2
          BY <2>1, <2>s, <3>1, <3>4, <4>4, <5>1
        <5> QED  BY <2>4, <3>1, <3>4, <4>1, <4>3, <4>4, <5>2
      <4>5. CASE j = Len(k) + 1
        <5>1. b = n + 1
          <6>1. s[b] = s[n+1] /\ n + 1 \in 1..(n+1)
            BY <2>1, <3>1, <3>4, <4>5
          <6> QED  BY <2>s, <6>1
        <5> QED  BY <4>3, <5>1
      <4> QED  BY <3>1, <4>4, <4>5
    <3> QED  BY <2>2, <3>2, <3>3, <3>4
  <2> QED  BY <2>5, <2>6
<1>4. N \in T
  <2> HIDE DEF T
  <2>1. Nat \subseteq T
    BY <1>2, <1>3, Induction
  <2>2. N \in Nat
    OBVIOUS
  <2> QED  BY <2>1, <2>2
<1>5. PICK w \in Seq(A) : w = kept[N] /\ w = Without(s, S)
  BY <1>1
<1>6. /\ \A i \in DOMAIN w : \E m \in 1..N : w[i] = s[m] /\ s[m] \notin S
      /\ \A m \in 1..N : s[m] \notin S => \E i \in DOMAIN w : w[i] = s[m]
      /\ \A i, j \in DOMAIN w : \A a, b \in 1..N : i < j /\ w[i] = s[a] /\ w[j] = s[b] => a < b
  <2>1. N \in Nat /\ From(N) /\ All(N) /\ Order(N)
    BY <1>4
  <2> QED  BY <1>5, <2>1
<1>7. \A i, j \in DOMAIN w : i < j => w[i] # w[j]
  BY <1>6
<1>8. Distinct(w)
  BY <1>7 DEF Distinct
<1>9. Members(w) = Members(s) \ S
  <2>1. DOMAIN s = 1..N
    OBVIOUS
  <2>2. ASSUME NEW e \in Members(w) PROVE e \in Members(s) \ S
    <3>1. PICK i \in DOMAIN w : w[i] = e
      BY DEF Members
    <3> QED  BY <1>6, <2>1, <3>1 DEF Members
  <2>3. ASSUME NEW e \in Members(s) \ S PROVE e \in Members(w)
    <3>1. PICK m \in 1..N : s[m] = e
      BY <2>1 DEF Members
    <3> QED  BY <1>6, <3>1 DEF Members
  <2> QED  BY <2>2, <2>3
<1>10. ASSUME NEW d, NEW e, d \notin S, e \notin S, Before(s, d, e)
       PROVE  Before(w, d, e)
  <2>1. PICK a, b \in 1..N : a < b /\ s[a] = d /\ s[b] = e
    BY <1>10 DEF Before
  <2>2. PICK i, j \in DOMAIN w : w[i] = d /\ w[j] = e
    BY <1>6, <1>10, <2>1
  <2>3. i \in Nat /\ j \in Nat /\ a \in Nat /\ b \in Nat
    OBVIOUS
  <2>4. ~(j < i)
    <3> SUFFICES ASSUME j < i PROVE b < a
      BY <2>1, <2>3
    <3> QED  BY <1>6, <2>1, <2>2
  <2>5. i # j
    BY <2>1, <2>2, <2>3 DEF Distinct
  <2>6. i < j
    BY <2>3, <2>4, <2>5
  <2> QED  BY <2>2, <2>6 DEF Before
<1> QED  BY <1>5, <1>8, <1>9, <1>10

\* The first rows of s.
LEMMA FirstRows ==
  ASSUME NEW A, NEW s \in Seq(A), Distinct(s), NEW k \in 0..Len(s)
  PROVE  /\ SubSeq(s, 1, k) \in Seq(A) /\ Len(SubSeq(s, 1, k)) = k
         /\ Distinct(SubSeq(s, 1, k))
         /\ Members(SubSeq(s, 1, k)) \subseteq Members(s)
         /\ \A d, e : Before(s, d, e) /\ e \in Members(SubSeq(s, 1, k)) => Before(SubSeq(s, 1, k), d, e)
<1>1. PICK r : r = SubSeq(s, 1, k)
  OBVIOUS
<1>2. r \in Seq(A) /\ Len(r) = k /\ \A i \in 1..k : r[i] = s[i]
  BY <1>1
<1>3. DOMAIN r = 1..k /\ 1..k \subseteq DOMAIN s
  BY <1>2
<1>4. Distinct(r) /\ Members(r) \subseteq Members(s)
  BY <1>2, <1>3 DEF Distinct, Members
<1>5. ASSUME NEW d, NEW e, Before(s, d, e), e \in Members(r) PROVE Before(r, d, e)
  <2>1. PICK i \in DOMAIN s, j \in DOMAIN s : i < j /\ s[i] = d /\ s[j] = e
    BY <1>5 DEF Before
  <2>2. PICK m \in 1..k : r[m] = e
    BY <1>3, <1>5 DEF Members
  <2>3. m = j
    BY <1>2, <1>3, <2>1, <2>2 DEF Distinct
  <2>4. i \in 1..k
    BY <2>1, <2>3
  <2> QED  BY <1>2, <1>3, <2>1, <2>2, <2>3, <2>4 DEF Before
<1> QED  BY <1>1, <1>2, <1>4, <1>5

\* The rows of s behind its first one.
LEMMA RestOfRows ==
  ASSUME NEW A, NEW s \in Seq(A), Distinct(s), s # <<>>
  PROVE  /\ Head(s) \in Members(s) /\ \A d : ~Before(s, d, Head(s))
         /\ Tail(s) \in Seq(A) /\ Distinct(Tail(s))
         /\ Members(Tail(s)) = Members(s) \ {Head(s)}
         /\ \A d, e : Before(s, d, e) /\ d # Head(s) => Before(Tail(s), d, e)
<1>1. PICK r : r = Tail(s)
  OBVIOUS
<1>2. /\ r \in Seq(A) /\ Len(r) = Len(s) - 1 /\ Len(s) \in Nat /\ Len(s) > 0
      /\ \A i \in 1..(Len(s)-1) : r[i] = s[i+1]
      /\ DOMAIN r = 1..(Len(s)-1) /\ DOMAIN s = 1..Len(s)
  BY <1>1
<1>3. Head(s) = s[1] /\ 1 \in DOMAIN s
  BY <1>2
<1>4. \A d : ~Before(s, d, Head(s))
  BY <1>2, <1>3 DEF Before, Distinct
<1>5. Distinct(r)
  <2> SUFFICES ASSUME NEW i \in DOMAIN r, NEW j \in DOMAIN r, r[i] = r[j] PROVE i = j
    BY DEF Distinct
  <2>1. i + 1 \in DOMAIN s /\ j + 1 \in DOMAIN s /\ s[i+1] = s[j+1]
    BY <1>2
  <2>2. i + 1 = j + 1
    BY <2>1 DEF Distinct
  <2> QED  BY <1>2, <2>2
<1>6. Members(r) = Members(s) \ {Head(s)}
  <2>1. ASSUME NEW e \in Members(r) PROVE e \in Members(s) \ {Head(s)}
    <3>1. PICK i \in DOMAIN r : r[i] = e
      BY DEF Members
    <3>2. i + 1 \in DOMAIN s /\ s[i+1] = e /\ i + 1 # 1
      BY <1>2, <3>1
    <3> QED  BY <1>3, <3>2 DEF Members, Distinct
  <2>2. ASSUME NEW e \in Members(s) \ {Head(s)} PROVE e \in Members(r)
    <3>1. PICK i \in DOMAIN s : s[i] = e
      BY DEF Members
    <3>2. i # 1
      BY <1>3, <3>1
    <3>3. i - 1 \in DOMAIN r /\ r[i-1] = s[(i-1)+1] /\ (i-1)+1 = i
      BY <1>2, <3>2
    <3> QED  BY <3>1, <3>3 DEF Members
  <2> QED  BY <2>1, <2>2
<1>7. ASSUME NEW d, NEW e, Before(s, d, e), d # Head(s) PROVE Before(r, d, e)
  <2>1. PICK i \in DOMAIN s, j \in DOMAIN s : i < j /\ s[i] = d /\ s[j] = e
    BY <1>7 DEF Before
  <2>2. i # 1
    BY <1>3, <1>7, <2>1
  <2>3. /\ i - 1 \in DOMAIN r /\ r[i-1] = s[(i-1)+1] /\ (i-1)+1 = i
        /\ j - 1 \in DOMAIN r /\ r[j-1] = s[(j-1)+1] /\ (j-1)+1 = j
        /\ i - 1 < j - 1
    BY <1>2, <2>1, <2>2
  <2> QED  BY <2>1, <2>3 DEF Before
<1>8. Head(s) \in Members(s)
  BY <1>3 DEF Members
<1> QED  BY <1>1, <1>2, <1>4, <1>5, <1>6, <1>7, <1>8

\* A new row at the end of s.
LEMMA RowAppended ==
  ASSUME NEW A, NEW s \in Seq(A), Distinct(s), NEW x \in A, x \notin Members(s)
  PROVE  /\ Append(s, x) \in Seq(A) /\ Distinct(Append(s, x))
         /\ Members(Append(s, x)) = Members(s) \cup {x}
         /\ \A d, e : Before(s, d, e) => Before(Append(s, x), d, e)
         /\ \A d \in Members(s) : Before(Append(s, x), d, x)
<1>1. PICK r : r = Append(s, x)
  OBVIOUS
<1>2. /\ r \in Seq(A) /\ Len(s) \in Nat
      /\ DOMAIN r = 1..(Len(s)+1) /\ DOMAIN s = 1..Len(s)
      /\ \A i \in DOMAIN s : r[i] = s[i]
      /\ r[Len(s)+1] = x
  BY <1>1, AppendProperties
<1>3. \A i \in DOMAIN s : s[i] # x
  BY DEF Members
<1>4. Distinct(r)
  <2> SUFFICES ASSUME NEW i \in DOMAIN r, NEW j \in DOMAIN r, r[i] = r[j] PROVE i = j
    BY DEF Distinct
  <2>1. CASE i \in DOMAIN s /\ j \in DOMAIN s
    BY <1>2, <2>1 DEF Distinct
  <2>2. CASE i = Len(s) + 1 \/ j = Len(s) + 1
    BY <1>2, <1>3, <2>2
  <2> QED  BY <1>2, <2>1, <2>2
<1>5. Members(r) = Members(s) \cup {x}
  <2>1. ASSUME NEW e \in Members(r) PROVE e \in Members(s) \cup {x}
    <3>1. PICK i \in DOMAIN r : r[i] = e
      BY DEF Members
    <3>2. i \in DOMAIN s \/ i = Len(s) + 1
      BY <1>2
    <3> QED  BY <1>2, <3>1, <3>2 DEF Members
  <2>2. x \in Members(r)
    BY <1>2 DEF Members
  <2>3. ASSUME NEW e \in Members(s) PROVE e \in Members(r)
    <3>1. PICK i \in DOMAIN s : s[i] = e
      BY DEF Members
    <3> QED  BY <1>2, <3>1 DEF Members
  <2> QED  BY <2>1, <2>2, <2>3
<1>6. DOMAIN s \subseteq DOMAIN r /\ Len(s) + 1 \in DOMAIN r /\ \A i \in DOMAIN s : i < Len(s) + 1
  BY <1>2
<1>7. \A d, e : Before(s, d, e) => Before(r, d, e)
  BY <1>2, <1>6 DEF Before
<1>8. \A d \in Members(s) : Before(r, d, x)
  BY <1>2, <1>6 DEF Before, Members
<1> QED  BY <1>1, <1>2, <1>4, <1>5, <1>7, <1>8

\* n has the rows r behind the first k of s, and the others of s behind them.
PutBehind(n, s, r, k) ==
  /\ Len(n) = Len(s) + Len(r)
  /\ \A i \in 1..k : n[i] = s[i]
  /\ \A i \in 1..Len(r) : n[k + i] = r[i]
  /\ \A i \in (k+1)..Len(s) : n[i + Len(r)] = s[i]

\* SubSeq and concatenation put them there.
LEMMA InsertedPositions ==
  ASSUME NEW A, NEW S \in Nat, NEW R \in Nat, NEW k \in Nat, k <= S,
         NEW s \in Seq(A), Len(s) = S, NEW r \in Seq(A), Len(r) = R
  PROVE  \E n \in Seq(A) :
         n = SubSeq(s, 1, k) \o r \o SubSeq(s, k + 1, S) /\ PutBehind(n, s, r, k)
<1>1. PICK a : a = SubSeq(s, 1, k)
  OBVIOUS
<1>2. PICK b : b = SubSeq(s, k + 1, S)
  OBVIOUS
<1>3. a \in Seq(A) /\ Len(a) = k /\ \A i \in 1..k : a[i] = s[i]
  BY <1>1
<1>4. b \in Seq(A) /\ Len(b) = S - k /\ \A i \in 1..(S-k) : b[i] = s[k+i]
  <2>1. \A i \in (k+1)..S : s[i] \in A
    OBVIOUS
  <2>2. k + 1 \in Int /\ S \in Int
    OBVIOUS
  <2>3. /\ b \in Seq(A) /\ Len(b) = IF k + 1 <= S THEN S - (k + 1) + 1 ELSE 0
        /\ \A i \in 1..(S - (k + 1) + 1) : b[i] = s[k + 1 + i - 1]
    BY <1>2, <2>1, <2>2, SubSeqProperties
  <2>4. Len(b) = S - k /\ S - (k + 1) + 1 = S - k
    BY <2>3
  <2>5. \A i \in 1..(S - k) : k + 1 + i - 1 = k + i
    OBVIOUS
  <2> QED  BY <2>3, <2>4, <2>5
<1>5. PICK c : c = a \o r
  OBVIOUS
<1>6. /\ c \in Seq(A) /\ Len(c) = k + R
      /\ \A i \in 1..(k + R) : c[i] = IF i <= k THEN a[i] ELSE r[i - k]
  BY <1>3, <1>5, ConcatProperties
<1>7. PICK n : n = c \o b
  OBVIOUS
<1>8. /\ n \in Seq(A) /\ Len(n) = S + R
      /\ \A i \in 1..(S + R) : n[i] = IF i <= k + R THEN c[i] ELSE b[i - (k + R)]
  <2>1. (k + R) + (S - k) = S + R
    OBVIOUS
  <2>2. /\ n \in Seq(A) /\ Len(n) = Len(c) + Len(b)
        /\ \A i \in 1..(Len(c) + Len(b)) : n[i] = IF i <= Len(c) THEN c[i] ELSE b[i - Len(c)]
    <3>1. c \in Seq(A) /\ b \in Seq(A)
      BY <1>4, <1>6
    <3> QED  BY <1>7, <3>1, ConcatProperties
  <2> QED  BY <1>4, <1>6, <2>1, <2>2
<1>9. ASSUME NEW i \in 1..k PROVE n[i] = s[i]
  <2>1. i \in 1..(k+R) /\ i <= k /\ i <= k + R /\ i \in 1..(S+R)
    OBVIOUS
  <2> QED  BY <1>3, <1>6, <1>8, <2>1
<1>10. ASSUME NEW i \in 1..R PROVE n[k + i] = r[i]
  <2>1. k + i \in 1..(k+R) /\ ~(k + i <= k) /\ k + i <= k + R /\ k + i - k = i /\ k + i \in 1..(S+R)
    OBVIOUS
  <2> QED  BY <1>6, <1>8, <2>1
<1>11. ASSUME NEW i \in (k+1)..S PROVE n[i + R] = s[i]
  <2>1. /\ ~(i + R <= k + R) /\ i + R - (k + R) = i - k /\ i - k \in 1..(S-k) /\ k + (i - k) = i
        /\ i + R \in 1..(S+R)
    OBVIOUS
  <2> QED  BY <1>4, <1>8, <2>1
<1>12. n = SubSeq(s, 1, k) \o r \o SubSeq(s, k + 1, S)
  BY <1>1, <1>2, <1>5, <1>7
<1>13. PutBehind(n, s, r, k)
  BY <1>8, <1>9, <1>10, <1>11 DEF PutBehind
<1> QED  BY <1>8, <1>12, <1>13

\* Then n has the rows of both, in the order of each.
LEMMA RowsBetween ==
  ASSUME NEW A, NEW s \in Seq(A), NEW r \in Seq(A), NEW k \in 0..Len(s),
         NEW n \in Seq(A), PutBehind(n, s, r, k),
         Distinct(s), Distinct(r), Members(s) \cap Members(r) = {}
  PROVE  /\ Distinct(n)
         /\ Members(n) = Members(s) \cup Members(r)
         /\ \A d, e : Before(s, d, e) \/ Before(r, d, e) => Before(n, d, e)
<1>1. PICK S \in Nat, R \in Nat : S = Len(s) /\ R = Len(r)
  OBVIOUS
<1>k. k \in Nat /\ k <= S
  BY <1>1
<1>2. DOMAIN s = 1..S /\ DOMAIN r = 1..R
  BY <1>1
<1> HIDE <1>1
<1>3. /\ \A i \in 1..k : n[i] = s[i]
      /\ \A i \in 1..R : n[k + i] = r[i]
      /\ \A i \in (k+1)..S : n[i + R] = s[i]
      /\ Len(n) = S + R
  BY <1>1 DEF PutBehind
<1>4. DOMAIN n = 1..(S + R)
  BY <1>3
<1>5. ASSUME NEW i \in 1..(S+R), i \notin 1..k, \A m \in 1..R : i # k + m
      PROVE  i - R \in (k+1)..S /\ i = (i - R) + R
  <2>1. i > k /\ (i - k \in 1..R => i # k + (i - k))
    BY <1>k, <1>5
  <2>2. i - k \notin 1..R
    BY <1>k, <2>1
  <2> QED  BY <1>k, <2>1, <2>2
<1> DEFINE At(m) == IF m <= k THEN m ELSE m + R
<1>6. /\ \A m \in 1..S : At(m) \in 1..(S+R) /\ n[At(m)] = s[m]
      /\ \A m \in 1..R : k + m \in 1..(S+R) /\ n[k+m] = r[m]
      /\ \A m, l \in 1..S : m < l => At(m) < At(l)
  <2>1. ASSUME NEW m \in 1..S PROVE At(m) \in 1..(S+R) /\ n[At(m)] = s[m]
    <3>1. CASE m \in 1..k
      BY <1>3, <3>1
    <3>2. CASE m \in (k+1)..S
      BY <1>3, <3>2
    <3> QED  BY <3>1, <3>2
  <2>2. \A m \in 1..R : k + m \in 1..(S+R) /\ n[k+m] = r[m]
    BY <1>k, <1>3
  <2>3. \A m, l \in 1..S : m < l => At(m) < At(l)
    OBVIOUS
  <2> QED  BY <2>1, <2>2, <2>3
<1>7. \A i \in 1..(S+R) : (\E m \in 1..S : i = At(m)) \/ \E m \in 1..R : i = k + m
  <2> SUFFICES ASSUME NEW i \in 1..(S+R), \A m \in 1..R : i # k + m PROVE \E m \in 1..S : i = At(m)
    OBVIOUS
  <2>1. CASE i \in 1..k
    <3>1. i \in 1..S /\ At(i) = i
      BY <1>k, <2>1
    <3> QED  BY <3>1
  <2>2. CASE i \notin 1..k
    <3>1. i - R \in (k+1)..S /\ i = (i - R) + R
      BY <1>5, <2>2
    <3>2. i - R \in 1..S /\ At(i - R) = i
      BY <3>1
    <3> QED  BY <3>2
  <2> QED  BY <2>1, <2>2
<1> HIDE DEF At
<1>8. Members(n) = Members(s) \cup Members(r)
  <2>1. ASSUME NEW e \in Members(n) PROVE e \in Members(s) \cup Members(r)
    <3>1. PICK i \in 1..(S+R) : n[i] = e
      BY <1>4 DEF Members
    <3>2. ASSUME NEW m \in 1..S, i = At(m) PROVE e \in Members(s)
      BY <1>2, <1>6, <3>1, <3>2 DEF Members
    <3>3. ASSUME NEW m \in 1..R, i = k + m PROVE e \in Members(r)
      BY <1>2, <1>6, <3>1, <3>3 DEF Members
    <3> QED  BY <1>7, <3>2, <3>3
  <2>2. ASSUME NEW e \in Members(s) PROVE e \in Members(n)
    <3>1. PICK m \in 1..S : s[m] = e
      BY <1>2 DEF Members
    <3> QED  BY <1>4, <1>6, <3>1 DEF Members
  <2>3. ASSUME NEW e \in Members(r) PROVE e \in Members(n)
    <3>1. PICK m \in 1..R : r[m] = e
      BY <1>2 DEF Members
    <3> QED  BY <1>4, <1>6, <3>1 DEF Members
  <2> QED  BY <2>1, <2>2, <2>3
<1>9. Distinct(n)
  <2> SUFFICES ASSUME NEW i \in 1..(S+R), NEW j \in 1..(S+R), n[i] = n[j] PROVE i = j
    BY <1>4 DEF Distinct
  <2>1. \A m \in 1..S, l \in 1..R : s[m] # r[l]
    BY <1>2 DEF Members
  <2>2. \A m, l \in 1..S : s[m] = s[l] => m = l
    BY <1>2 DEF Distinct
  <2>3. \A m, l \in 1..R : r[m] = r[l] => m = l
    BY <1>2 DEF Distinct
  <2>4. ASSUME NEW m \in 1..S, i = At(m) PROVE i = j
    <3>1. n[j] = s[m]
      BY <1>6, <2>4
    <3>2. PICK l \in 1..S : j = At(l)
      <4>1. ASSUME NEW l \in 1..R, j = k + l PROVE FALSE
        <5>1. n[j] = r[l]
          BY <1>6, <4>1
        <5> QED  BY <2>1, <3>1, <5>1
      <4> QED  BY <1>7, <4>1
    <3>3. m = l
      BY <1>6, <2>2, <3>1, <3>2
    <3> QED  BY <2>4, <3>2, <3>3
  <2>5. ASSUME NEW m \in 1..R, i = k + m PROVE i = j
    <3>1. n[j] = r[m]
      BY <1>6, <2>5
    <3>2. PICK l \in 1..R : j = k + l
      <4>1. ASSUME NEW l \in 1..S, j = At(l) PROVE FALSE
        <5>1. n[j] = s[l]
          BY <1>6, <4>1
        <5> QED  BY <2>1, <3>1, <5>1
      <4> QED  BY <1>7, <4>1
    <3>3. m = l
      BY <1>6, <2>3, <3>1, <3>2
    <3> QED  BY <2>5, <3>2, <3>3
  <2> QED  BY <1>7, <2>4, <2>5
<1>10. ASSUME NEW d, NEW e, Before(s, d, e) PROVE Before(n, d, e)
  <2>1. PICK i \in 1..S, j \in 1..S : i < j /\ s[i] = d /\ s[j] = e
    BY <1>2, <1>10 DEF Before
  <2>2. /\ At(i) \in DOMAIN n /\ At(j) \in DOMAIN n /\ At(i) < At(j)
        /\ n[At(i)] = d /\ n[At(j)] = e
    BY <1>4, <1>6, <2>1
  <2> QED  BY <2>2 DEF Before
<1>11. ASSUME NEW d, NEW e, Before(r, d, e) PROVE Before(n, d, e)
  <2>1. PICK i \in 1..R, j \in 1..R : i < j /\ r[i] = d /\ r[j] = e
    BY <1>2, <1>11 DEF Before
  <2>2. /\ k + i \in DOMAIN n /\ k + j \in DOMAIN n /\ k + i < k + j
        /\ n[k + i] = d /\ n[k + j] = e
    BY <1>4, <1>6, <2>1
  <2> QED  BY <2>2 DEF Before
<1> QED  BY <1>8, <1>9, <1>10, <1>11

\* The rows r, inserted into s behind its first k.
LEMMA RowsInserted ==
  ASSUME NEW A, NEW s \in Seq(A), Distinct(s), NEW r \in Seq(A), Distinct(r),
         Members(s) \cap Members(r) = {}, NEW k \in 0..Len(s)
  PROVE  \E n \in Seq(A) :
         /\ n = Insert(s, k, r) /\ PutBehind(n, s, r, k)
         /\ Distinct(n) /\ Members(n) = Members(s) \cup Members(r)
         /\ \A d, e : Before(s, d, e) \/ Before(r, d, e) => Before(n, d, e)
<1>1. PICK S \in Nat, R \in Nat : S = Len(s) /\ R = Len(r) /\ k \in Nat /\ k <= S
  OBVIOUS
<1>2. \E n \in Seq(A) :
        n = SubSeq(s, 1, k) \o r \o SubSeq(s, k + 1, S) /\ PutBehind(n, s, r, k)
  BY <1>1, InsertedPositions
<1>n. PICK n \in Seq(A) :
        n = SubSeq(s, 1, k) \o r \o SubSeq(s, k + 1, S) /\ PutBehind(n, s, r, k)
  BY <1>2
<1>3. PutBehind(n, s, r, k)
  BY <1>n
<1>4. /\ Distinct(n) /\ Members(n) = Members(s) \cup Members(r)
      /\ \A d, e : Before(s, d, e) \/ Before(r, d, e) => Before(n, d, e)
  BY <1>3, RowsBetween
<1>5. n = Insert(s, k, r)
  BY <1>1, <1>n DEF Insert
<1> QED  BY <1>3, <1>4, <1>5

\* The rows of s and r in one sequence.
LEMMA RowsInterleaved ==
  ASSUME NEW A, NEW s \in Seq(A), NEW r \in Seq(A), NEW n \in Interleavings(s, r)
  PROVE  /\ n \in Seq(A) /\ Distinct(n) /\ Members(n) = Members(s) \cup Members(r)
         /\ \A d, e : Before(s, d, e) \/ Before(r, d, e) => Before(n, d, e)
<1>1. PICK both : both = Members(s) \cup Members(r)
  OBVIOUS
<1>2. /\ n \in [1..(Len(s) + Len(r)) -> both] /\ Distinct(n) /\ Members(n) = both
      /\ \A d, e \in both : Before(s, d, e) \/ Before(r, d, e) => Before(n, d, e)
  BY <1>1 DEF Interleavings
<1>3. both \subseteq A
  BY <1>1 DEF Members
<1>4. n \in Seq(A)
  <2>1. Len(s) + Len(r) \in Nat
    OBVIOUS
  <2> QED  BY <1>2, <1>3, <2>1
<1>5. \A d, e : Before(s, d, e) \/ Before(r, d, e) => d \in both /\ e \in both
  BY <1>1 DEF Before, Members
<1> QED  BY <1>1, <1>2, <1>4, <1>5

\* As many rows as members.
LEMMA RowsAreCounted ==
  ASSUME NEW A, NEW s \in Seq(A), Distinct(s)
  PROVE  Cardinality(Members(s)) = Len(s)
<1>1. s \in Bijection(1..Len(s), Members(s))
  <2>1. s \in [1..Len(s) -> Members(s)] /\ DOMAIN s = 1..Len(s)
    BY DEF Members
  <2>2. s \in Injection(1..Len(s), Members(s))
    BY <2>1 DEF Distinct, Injection, IsInjective
  <2>3. s \in Surjection(1..Len(s), Members(s))
    BY <2>1 DEF Members, Surjection
  <2> QED  BY <2>2, <2>3 DEF Bijection
<1>2. ExistsBijection(1..Len(s), Members(s))
  BY <1>1 DEF ExistsBijection
<1>3. IsFiniteSet(1..Len(s)) /\ Cardinality(1..Len(s)) = Len(s)
  <2>1. PICK N \in Nat : N = Len(s)
    OBVIOUS
  <2>2. IsFiniteSet(1..N) /\ Cardinality(1..N) = N
    BY FS_Interval
  <2> QED  BY <2>1, <2>2
<1> QED  BY <1>2, <1>3, FS_Bijection
(***************************************************************************)
(* Places.                                                                  *)
(***************************************************************************)
\* A row that occurs once has one place.
LEMMA PlaceIs ==
  ASSUME NEW s, Distinct(s), NEW i \in DOMAIN s
  PROVE  Place(s, s[i]) = i
<1>1. \A j \in DOMAIN s : s[j] = s[i] <=> j = i
  BY DEF Distinct
<1> QED  BY <1>1 DEF Place

\* The places of two rows are in their order.
LEMMA PlacesInOrder ==
  ASSUME NEW A, NEW s \in Seq(A), Distinct(s), NEW d \in Members(s), NEW e \in Members(s)
  PROVE  /\ Place(s, d) \in 1..Len(s) /\ s[Place(s, d)] = d
         /\ Before(s, d, e) <=> Place(s, d) < Place(s, e)
         /\ d = e <=> Place(s, d) = Place(s, e)
<1>1. PICK i \in DOMAIN s : s[i] = d /\ Place(s, d) = i
  BY PlaceIs DEF Members
<1>2. PICK j \in DOMAIN s : s[j] = e /\ Place(s, e) = j
  BY PlaceIs DEF Members
<1>3. DOMAIN s = 1..Len(s)
  OBVIOUS
<1>4. Before(s, d, e) <=> i < j
  BY <1>1, <1>2 DEF Before, Distinct
<1>5. d = e <=> i = j
  BY <1>1, <1>2 DEF Distinct
<1> QED  BY <1>1, <1>2, <1>3, <1>4, <1>5

(***************************************************************************)
(* Sums.                                                                    *)
(***************************************************************************)
\* Total(s) is computed row by row.
Adds(s) ==
  \E sum \in [0..Len(s) -> Int] :
    /\ Total(s) = sum[Len(s)] /\ sum[0] = 0
    /\ \A n \in 1..Len(s) : sum[n] = sum[n-1] + s[n]

\* The recursion equation of Total.
LEMMA TotalSteps ==
  ASSUME NEW s \in Seq(Int)
  PROVE  Adds(s)
<1>n. PICK N \in Nat : N = Len(s)
  OBVIOUS
<1> DEFINE step == [n \in 1..N |-> [x \in Int |-> x + s[n]]]
           Upto(f, n) == IF n = 0 THEN 0 ELSE f[n-1] + s[n]
           sum == CHOOSE f : f = [n \in 0..N |-> Upto(f, n)]
<1>1. \A n \in 1..N : s[n] \in Int
  BY <1>n
<1>2. Total(s) = sum[N]
  BY <1>n DEF Total
<1>3. step \in [1..N -> [Int -> Int]] /\ \A n \in 1..N, x \in Int : step[n][x] = x + s[n]
  BY <1>1
<1> HIDE DEF step
<1>4. PICK f \in [0..N -> Int] : f[0] = 0 /\ \A n \in 1..N : f[n] = step[n][f[n-1]]
  <2>1. PICK base, S : base = 0 /\ S = Int
    OBVIOUS
  <2>2. base \in S /\ step \in [1..N -> [S -> S]]
    BY <1>3, <2>1
  <2>3. \E f \in [0..N -> S] : f[0] = base /\ \A n \in 1..N : f[n] = step[n][f[n-1]]
    BY <2>2, StepsExist
  <2> QED  BY <2>1, <2>3
<1>5. f = [n \in 0..N |-> Upto(f, n)]
  <2>1. \A n \in 0..N : f[n] = Upto(f, n)
    <3> SUFFICES ASSUME NEW n \in 0..N, n # 0 PROVE f[n] = f[n-1] + s[n]
      BY <1>4
    <3>1. n \in 1..N /\ f[n-1] \in Int
      OBVIOUS
    <3> QED  BY <1>3, <1>4, <3>1
  <2> HIDE DEF Upto
  <2> QED  BY <2>1
<1>6. sum = [n \in 0..N |-> Upto(sum, n)]
  <2> HIDE DEF Upto
  <2> QED  BY <1>5
<1> HIDE DEF sum
<1>7. \A n \in 0..N : sum[n] = Upto(sum, n)
  <2> HIDE DEF Upto
  <2> QED  BY <1>6
<1>8. \A n \in 0..N : sum[n] \in Int
  <2> DEFINE T == {n \in Nat : n <= N => sum[n] \in Int}
  <2>1. 0 \in T
    BY <1>7
  <2>2. ASSUME NEW n \in Nat, n \in T PROVE n + 1 \in T
    <3> SUFFICES ASSUME n + 1 <= N PROVE sum[n+1] \in Int
      OBVIOUS
    <3>1. sum[n] \in Int /\ (n + 1) - 1 = n /\ n + 1 \in 0..N /\ n + 1 # 0 /\ n + 1 \in 1..N
      BY <2>2
    <3>2. sum[n+1] = sum[n] + s[n+1]
      BY <1>7, <3>1
    <3> QED  BY <1>1, <3>1, <3>2
  <2>3. Nat \subseteq T
    <3> HIDE DEF T
    <3> QED  BY <2>1, <2>2, Induction
  <2> QED  BY <2>3
<1>9. sum \in [0..N -> Int]
  <2> HIDE DEF Upto
  <2> QED  BY <1>6, <1>8
<1>10. sum[0] = 0 /\ \A n \in 1..N : sum[n] = sum[n-1] + s[n]
  BY <1>7
<1> QED  BY <1>n, <1>2, <1>9, <1>10 DEF Adds

\* One more row adds to the sum.
LEMMA TotalOfMore ==
  ASSUME NEW s \in Seq(Int), NEW r \in Seq(Int), Len(r) = Len(s) + 1,
         \A i \in 1..Len(s) : r[i] = s[i]
  PROVE  Total(s) \in Int /\ Total(r) = Total(s) + r[Len(r)]
<1>n. PICK N \in Nat : N = Len(s)
  OBVIOUS
<1>1. PICK f \in [0..N -> Int] :
        Total(s) = f[N] /\ f[0] = 0 /\ \A n \in 1..N : f[n] = f[n-1] + s[n]
  <2>1. Adds(s)
    BY TotalSteps
  <2> QED  BY <1>n, <2>1 DEF Adds
<1>2. PICK g \in [0..(N+1) -> Int] :
        Total(r) = g[N+1] /\ g[0] = 0 /\ \A n \in 1..(N+1) : g[n] = g[n-1] + r[n]
  <2>1. Adds(r)
    BY TotalSteps
  <2> QED  BY <1>n, <2>1 DEF Adds
<1>3. \A i \in 1..N : r[i] = s[i]
  BY <1>n
<1> DEFINE T == {n \in Nat : n <= N => f[n] = g[n]}
<1>4. 0 \in T
  BY <1>1, <1>2
<1>5. ASSUME NEW n \in Nat, n \in T PROVE n + 1 \in T
  <2> SUFFICES ASSUME n + 1 <= N PROVE f[n+1] = g[n+1]
    OBVIOUS
  <2>1. f[n] = g[n] /\ (n + 1) - 1 = n /\ n + 1 \in 1..N /\ n + 1 \in 1..(N+1)
    BY <1>5
  <2>2. f[n+1] = f[n] + s[n+1] /\ g[n+1] = g[n] + r[n+1]
    BY <1>1, <1>2, <2>1
  <2> QED  BY <1>3, <2>1, <2>2
<1>6. N \in T
  <2> HIDE DEF T
  <2> QED  BY <1>4, <1>5, Induction
<1>7. f[N] = g[N] /\ g[N+1] = g[N] + r[N+1] /\ f[N] \in Int
  <2>1. N + 1 \in 1..(N+1) /\ (N + 1) - 1 = N /\ N \in 0..N
    OBVIOUS
  <2> QED  BY <1>2, <1>6, <2>1
<1> QED  BY <1>n, <1>1, <1>2, <1>7

LEMMA TotalOfNone == ASSUME NEW s \in Seq(Int), Len(s) = 0 PROVE Total(s) = 0
<1>1. Adds(s)
  BY TotalSteps
<1> QED  BY <1>1 DEF Adds
=============================================================================
