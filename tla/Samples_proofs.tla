--------------------------- MODULE Samples_proofs ---------------------------
(***************************************************************************)
(* What is proved of the operators of Samples: Total, Keep and Mean by one *)
(* sample more, and where a mean lies.  Nothing here takes an operator for *)
(* a parameter.  Induction is a fact about sets of numbers, and a fold is  *)
(* the last of a function of partial results, the p of Partials, which is  *)
(* shown to be what FoldLeft looks up in its table.                        *)
(***************************************************************************)
EXTENDS Samples, SequenceTheorems, FiniteSetTheorems, TLAPS

------------------------------------------------------------------------------
(* Induction, as a fact about sets of numbers. *)

(* Any numbers but none have a least one: the intervals from 0 up to them    *)
(* are finite sets, and a well-founded order of these is in the library.     *)
LEMMA LeastNumber ==
  ASSUME NEW T \in SUBSET Nat, T # {}
  PROVE  \E n \in T : \A m \in T : n <= m
<1>1. PICK t \in T : TRUE
  OBVIOUS
<1> DEFINE U == {n \in T : n <= t}
           Below == {0..n : n \in U}
<1>2. IsFiniteSet(0..t)
  BY FS_Interval
<1>3. IsWellFoundedOn(StrictSubsetOrdering(0..t), FiniteSubsetsOf(0..t))
  BY <1>2, FS_StrictSubsetOrderingWellFounded
<1>4. Below \subseteq FiniteSubsetsOf(0..t) /\ Below # {}
  <2>1. ASSUME NEW n \in U PROVE 0..n \in FiniteSubsetsOf(0..t)
    BY FS_Interval DEF FiniteSubsetsOf
  <2> QED BY <2>1
<1>5. PICK x \in Below : \A y \in Below :
                           ~ (<<y, x>> \in StrictSubsetOrdering(0..t))
  BY <1>3, <1>4, WFMin
<1>6. PICK n \in U : x = 0..n
  OBVIOUS
<1>7. ASSUME NEW m \in U, m < n PROVE FALSE
  <2>1. 0..m \in Below /\ m \in Nat /\ n \in Nat /\ m <= t /\ n <= t
    OBVIOUS
  <2>2. 0..m \subseteq 0..n /\ 0..m # 0..n /\ 0..n \subseteq 0..t
    BY <2>1, <1>7
  <2>3. <<0..m, 0..n>> \in StrictSubsetOrdering(0..t)
    BY <2>2 DEF StrictSubsetOrdering
  <2> QED BY <2>1, <2>3, <1>5, <1>6
<1> QED BY <1>7

(* A set of numbers with 0, and with the next of each, is all of them.       *)
LEMMA Induction ==
  ASSUME NEW T \in SUBSET Nat, 0 \in T, \A n \in T : n + 1 \in T
  PROVE  T = Nat
<1> SUFFICES ASSUME Nat \ T # {} PROVE FALSE
  OBVIOUS
<1>1. PICK n \in Nat \ T : \A m \in Nat \ T : n <= m
  BY LeastNumber
<1>2. n - 1 \in Nat /\ n - 1 \in T
  BY <1>1
<1> QED BY <1>2

(* Finitely many numbers have a bound.                                       *)
LEMMA FiniteIsBounded ==
  ASSUME NEW S \in SUBSET Nat, IsFiniteSet(S)
  PROVE  \E b \in Nat : \A x \in S : x <= b
<1> DEFINE T == {n \in Nat : \A U \in SUBSET S :
                   IsFiniteSet(U) /\ Cardinality(U) = n =>
                     \E b \in Nat : \A x \in U : x <= b}
<1>1. 0 \in T
  BY FS_EmptySet
<1>2. ASSUME NEW n \in Nat, n \in T PROVE n + 1 \in T
  <2> SUFFICES ASSUME NEW U \in SUBSET S, IsFiniteSet(U),
                      Cardinality(U) = n + 1
               PROVE  \E b \in Nat : \A x \in U : x <= b
    OBVIOUS
  <2>1. \E y \in U : TRUE
    <3> HIDE DEF T
    <3>1. U # {}
      BY FS_EmptySet
    <3> QED BY <3>1
  <2>2. PICK y \in U : TRUE
    BY <2>1
  <2>3. IsFiniteSet(U \ {y}) /\ Cardinality(U \ {y}) = n
    <3> HIDE DEF T
    <3>1. IsFiniteSet(U \ {y}) /\ Cardinality(U \ {y}) = Cardinality(U) - 1
      BY FS_RemoveElement
    <3> QED BY <3>1
  <2>4. PICK b \in Nat : \A x \in U \ {y} : x <= b
    BY <1>2, <2>3
  <2>5. y \in Nat /\ \A x \in U : x <= b + y
    BY <2>4
  <2> QED BY <2>5
<1>3. T = Nat
  <2>1. T \subseteq Nat
    OBVIOUS
  <2> HIDE DEF T
  <2> QED BY <1>1, <1>2, <2>1, Induction
<1>4. Cardinality(S) \in T
  BY <1>3, FS_CardinalityType
<1> QED BY <1>4

(* Min and Max choose what their names say, of any numbers but none and,     *)
(* for Max, of finitely many.                                                *)
LEMMA MinIsLeast ==
  ASSUME NEW S \in SUBSET Nat, S # {}
  PROVE  Min(S) \in S /\ \A x \in S : Min(S) <= x
BY LeastNumber DEF Min

(* The greatest is the one that is least below a bound.                      *)
LEMMA MaxIsGreatest ==
  ASSUME NEW S \in SUBSET Nat, IsFiniteSet(S), S # {}
  PROVE  Max(S) \in S /\ \A x \in S : x <= Max(S)
<1>1. PICK b \in Nat : \A x \in S : x <= b
  BY FiniteIsBounded
<1> DEFINE D == {b - x : x \in S}
<1>2. D \subseteq Nat /\ D # {}
  <2>1. \A x \in S : b - x \in Nat
    BY <1>1
  <2>2. \E x \in S : b - x \in D
    OBVIOUS
  <2> QED BY <2>1, <2>2
<1>3. PICK d \in D : \A e \in D : d <= e
  BY <1>2, LeastNumber
<1>4. PICK x \in S : d = b - x
  OBVIOUS
<1>5. \A y \in S : x >= y
  BY <1>1, <1>3, <1>4
<1> QED BY <1>5 DEF Max

------------------------------------------------------------------------------
(* Folds. *)

(* The same of indices, which are bounded already.                           *)
LEMMA MaxOfIndices ==
  ASSUME NEW n \in Nat, NEW t \in SUBSET (1..n), t # {}
  PROVE  Max(t) \in t /\ \A x \in t : x <= Max(t)
<1>1. IsFiniteSet(t)
  <2>1. IsFiniteSet(1..n)
    BY FS_Interval
  <2> QED BY <2>1, FS_Subset
<1>2. t \in SUBSET Nat
  OBVIOUS
<1> QED BY <1>1, <1>2, MaxIsGreatest

(* FoldLeft looks its result up in a table: at a set of indices, what the    *)
(* samples at these indices come to.  G[k] is what sample k does to a value. *)
Table(h, A, base, G, n) ==
  /\ h \in [SUBSET (1..n) -> A]
  /\ h[{}] = base
  /\ \A t \in SUBSET (1..n) : t # {} => h[t] = G[Max(t)][h[t \ {Max(t)}]]

(* A table for n samples extends to one for n + 1.                           *)
LEMMA TableGrows ==
  ASSUME NEW A, NEW base \in A, NEW N \in Nat, NEW G \in [1..N -> [A -> A]],
         NEW n \in Nat, n + 1 <= N, NEW h, Table(h, A, base, G, n)
  PROVE  \E g : Table(g, A, base, G, n + 1)
<1> DEFINE g == [t \in SUBSET (1..(n + 1)) |->
                   IF n + 1 \in t THEN G[n + 1][h[t \ {n + 1}]] ELSE h[t]]
<1>0. /\ h \in [SUBSET (1..n) -> A] /\ h[{}] = base
      /\ \A t \in SUBSET (1..n) : t # {} => h[t] = G[Max(t)][h[t \ {Max(t)}]]
      /\ G[n + 1] \in [A -> A]
  BY DEF Table
<1>1. ASSUME NEW t \in SUBSET (1..(n + 1))
      PROVE  /\ g[t] \in A
             /\ t # {} => g[t] = G[Max(t)][g[t \ {Max(t)}]]
  <2>1. CASE n + 1 \in t
    <3>0. n + 1 \in Nat /\ t # {}
      BY <2>1
    <3>1. Max(t) \in t /\ \A x \in t : x <= Max(t)
      BY <3>0, MaxOfIndices
    <3>2. Max(t) \in 1..(n + 1) /\ n + 1 <= Max(t)
      BY <3>1, <2>1
    <3>3. Max(t) = n + 1
      BY <3>2
    <3>4. t \ {n + 1} \in SUBSET (1..n) /\ n + 1 \notin t \ {n + 1}
      OBVIOUS
    <3>5. g[t \ {n + 1}] = h[t \ {n + 1}] /\ h[t \ {n + 1}] \in A
      BY <3>4, <1>0
    <3> QED BY <2>1, <3>3, <3>5, <1>0
  <2>2. CASE n + 1 \notin t
    <3>1. t \in SUBSET (1..n)
      BY <2>2
    <3>2. g[t] = h[t]
      BY <2>2
    <3>3. ASSUME t # {} PROVE g[t \ {Max(t)}] = h[t \ {Max(t)}]
      BY <2>2
    <3> QED BY <3>1, <3>2, <3>3, <1>0
  <2> QED BY <2>1, <2>2
<1>2. Table(g, A, base, G, n + 1)
  <2>1. g[{}] = base
    BY <1>0
  <2> QED BY <1>1, <2>1 DEF Table
<1> HIDE DEF g
<1> QED BY <1>2

(* There is a table for any samples.                                         *)
LEMMA TableExists ==
  ASSUME NEW A, NEW base \in A, NEW N \in Nat, NEW G \in [1..N -> [A -> A]]
  PROVE  \E h : Table(h, A, base, G, N)
<1> DEFINE T == {m \in Nat : m <= N => \E h : Table(h, A, base, G, m)}
<1>1. 0 \in T
  <2> DEFINE h == [t \in {{}} |-> base]
  <2>1. 1..0 = {}
    OBVIOUS
  <2>2. SUBSET (1..0) = {{}}
    BY <2>1
  <2>3. h \in [{{}} -> A] /\ h[{}] = base
    OBVIOUS
  <2> HIDE DEF h
  <2>4. Table(h, A, base, G, 0)
    BY <2>2, <2>3 DEF Table
  <2> QED BY <2>4
<1>2. ASSUME NEW m \in Nat, m \in T PROVE m + 1 \in T
  <2> SUFFICES ASSUME m + 1 <= N PROVE \E h : Table(h, A, base, G, m + 1)
    OBVIOUS
  <2>1. m <= N
    OBVIOUS
  <2>2. PICK h : Table(h, A, base, G, m)
    BY <1>2, <2>1
  <2> QED BY <2>2, TableGrows
<1>3. T = Nat
  <2>1. T \subseteq Nat
    OBVIOUS
  <2> HIDE DEF T
  <2> QED BY <1>1, <1>2, <2>1, Induction
<1>4. N \in T /\ N <= N
  <2>1. N <= N
    OBVIOUS
  <2> HIDE DEF T
  <2> QED BY <1>3, <2>1
<1> QED BY <1>4

(* p has what the first samples come to: none, one, two, and so on.          *)
Partials(p, A, base, G, n) ==
  /\ p \in [0..n -> A]
  /\ p[0] = base
  /\ \A k \in 1..n : p[k] = G[k][p[k - 1]]

(* The same of an h that is only known to be a solution.                     *)
Solves(h, A, base, G, n) ==
  /\ h[{}] = base
  /\ \A t \in SUBSET (1..n) :
       t # {} /\ h[t \ {Max(t)}] \in A => h[t] = G[Max(t)][h[t \ {Max(t)}]]

(* What it has at the sets of the first indices is partial results.          *)
LEMMA TableIsPartials ==
  ASSUME NEW A, NEW base \in A, NEW N \in Nat, NEW G \in [1..N -> [A -> A]],
         NEW h, Solves(h, A, base, G, N)
  PROVE  \E p : Partials(p, A, base, G, N) /\ p[N] = h[1..N]
<1>0. /\ h[{}] = base
      /\ \A t \in SUBSET (1..N) :
           t # {} /\ h[t \ {Max(t)}] \in A =>
             h[t] = G[Max(t)][h[t \ {Max(t)}]]
  BY DEF Solves
<1>1. h[1..0] = base
  <2>1. 1..0 = {}
    OBVIOUS
  <2> QED BY <1>0, <2>1
<1>2. ASSUME NEW n \in 1..N, h[1..(n - 1)] \in A
      PROVE  h[1..n] = G[n][h[1..(n - 1)]]
  <2>0. n \in Nat /\ 1 <= n /\ n <= N
    OBVIOUS
  <2>1. 1..n \in SUBSET (1..N) /\ n \in 1..n
    <3>1. \A x \in 1..n : x \in 1..N
      BY <2>0
    <3> QED BY <2>0, <3>1
  <2>2. Max(1..n) \in 1..n /\ n <= Max(1..n)
    <3>1. Max(1..n) \in 1..n /\ \A x \in 1..n : x <= Max(1..n)
      BY <2>0, <2>1, MaxOfIndices
    <3> QED BY <3>1, <2>1
  <2>3. Max(1..n) = n
    BY <2>0, <2>2
  <2>4. (1..n) \ {n} = 1..(n - 1)
    BY <2>0
  <2> QED BY <2>1, <2>3, <2>4, <1>0, <1>2
<1> DEFINE T == {n \in Nat : n <= N => h[1..n] \in A}
<1>3. 0 \in T
  BY <1>1
<1>4. ASSUME NEW n \in Nat, n \in T PROVE n + 1 \in T
  <2> SUFFICES ASSUME n + 1 <= N PROVE h[1..(n + 1)] \in A
    OBVIOUS
  <2>1. h[1..n] \in A /\ n + 1 \in 1..N /\ n + 1 - 1 = n
    BY <1>4
  <2>2. G[n + 1] \in [A -> A]
    BY <2>1
  <2>3. h[1..(n + 1)] = G[n + 1][h[1..n]]
    BY <2>1, <1>2
  <2> QED BY <2>1, <2>2, <2>3
<1>5. T = Nat
  <2>1. T \subseteq Nat
    OBVIOUS
  <2> HIDE DEF T
  <2> QED BY <1>3, <1>4, <2>1, Induction
<1> DEFINE p == [n \in 0..N |-> h[1..n]]
<1>6. p \in [0..N -> A] /\ p[0] = base /\ p[N] = h[1..N]
  BY <1>1, <1>5
<1>7. ASSUME NEW n \in 1..N PROVE p[n] = G[n][p[n - 1]]
  <2>1. n \in 0..N /\ n - 1 \in 0..N
    OBVIOUS
  <2>2. h[1..(n - 1)] \in A
    BY <2>1, <1>5
  <2> QED BY <2>1, <2>2, <1>2
<1>8. Partials(p, A, base, G, N)
  BY <1>6, <1>7 DEF Partials
<1> HIDE DEF p
<1> QED BY <1>6, <1>8

(* There are partial results of any samples.                                 *)
LEMMA PartialsExist ==
  ASSUME NEW A, NEW base \in A, NEW N \in Nat, NEW G \in [1..N -> [A -> A]]
  PROVE  \E p : Partials(p, A, base, G, N)
<1>1. PICK h : Table(h, A, base, G, N)
  BY TableExists
<1>2. Solves(h, A, base, G, N)
  BY <1>1 DEF Table, Solves
<1> QED BY <1>2, TableIsPartials

(* Partial results depend only on the samples they are of.                   *)
LEMMA PartialsAgree ==
  ASSUME NEW A, NEW base \in A, NEW N \in Nat, NEW G, NEW p,
         Partials(p, A, base, G, N),
         NEW M \in Nat, N <= M, NEW H, NEW q, Partials(q, A, base, H, M),
         \A k \in 1..N : G[k] = H[k]
  PROVE  p[N] = q[N]
<1> DEFINE T == {n \in Nat : n <= N => p[n] = q[n]}
<1>1. 0 \in T
  BY DEF Partials
<1>2. ASSUME NEW n \in Nat, n \in T PROVE n + 1 \in T
  <2> SUFFICES ASSUME n + 1 <= N PROVE p[n + 1] = q[n + 1]
    OBVIOUS
  <2>1. /\ p[n] = q[n] /\ n + 1 \in 1..N /\ n + 1 \in 1..M
        /\ n + 1 - 1 = n
    BY <1>2
  <2> QED BY <2>1 DEF Partials
<1>3. T = Nat
  <2>1. T \subseteq Nat
    OBVIOUS
  <2> HIDE DEF T
  <2> QED BY <1>1, <1>2, <2>1, Induction
<1> QED BY <1>3

------------------------------------------------------------------------------
(* Total. *)

Plus(x) == [a \in Int |-> a + x]
Adding(s) == [k \in 1..Len(s) |-> Plus(s[k])]

(* Total is the last of the partial results of adding.                       *)
LEMMA TotalIsPartials ==
  ASSUME NEW s \in Seq(Int)
  PROVE  \E p : Partials(p, Int, 0, Adding(s), Len(s)) /\ Total(s) = p[Len(s)]
<1> DEFINE N == Len(s)
           G == Adding(s)
           Eq(h) == h = [t \in SUBSET (1..N) |->
                           IF t = {} THEN 0 ELSE h[t \ {Max(t)}] + s[Max(t)]]
           iter == CHOOSE h : Eq(h)
<1>0. N \in Nat /\ DOMAIN s = 1..N /\ \A k \in 1..N : s[k] \in Int
  OBVIOUS
<1>1. /\ G \in [1..N -> [Int -> Int]]
      /\ \A k \in 1..N : \A a \in Int : G[k][a] = a + s[k]
  BY <1>0 DEF Adding, Plus
<1>2. \E h : Table(h, Int, 0, G, N)
  <2>1. 0 \in Int
    OBVIOUS
  <2> HIDE DEF N, G
  <2> QED BY <2>1, <1>0, <1>1, TableExists
<1>3. \A t \in SUBSET (1..N) : t # {} => Max(t) \in 1..N
  <2> HIDE DEF N
  <2>1. ASSUME NEW t \in SUBSET (1..N), t # {} PROVE Max(t) \in 1..N
    <3>1. N \in Nat
      BY <1>0
    <3>2. Max(t) \in t
      BY <2>1, <3>1, MaxOfIndices
    <3> QED BY <3>2
  <2> QED BY <2>1
<1>4. \E h : Eq(h)
  <2>1. PICK h : Table(h, Int, 0, G, N)
    BY <1>2
  <2>2. /\ h \in [SUBSET (1..N) -> Int] /\ h[{}] = 0
        /\ \A t \in SUBSET (1..N) : t # {} =>
             h[t] = G[Max(t)][h[t \ {Max(t)}]]
    BY <2>1 DEF Table
  <2> HIDE DEF N, G
  <2>3. ASSUME NEW t \in SUBSET (1..N), t # {}
        PROVE  h[t] = h[t \ {Max(t)}] + s[Max(t)]
    <3>1. h[t \ {Max(t)}] \in Int
      BY <2>2
    <3>2. Max(t) \in 1..N
      BY <2>3, <1>3
    <3> QED BY <3>1, <3>2, <2>2, <2>3, <1>1
  <2>4. Eq(h)
    BY <2>2, <2>3
  <2> HIDE DEF Eq
  <2> QED BY <2>4
<1>5. Eq(iter)
  <2> HIDE DEF Eq
  <2> QED BY <1>4
<1>6. Total(s) = iter[1..N]
  BY <1>0 DEF Total, FoldLeft, MapThenFoldSet
<1> HIDE DEF iter
<1>7. iter[{}] = 0
  BY <1>5
<1>8. ASSUME NEW t \in SUBSET (1..N), t # {}, iter[t \ {Max(t)}] \in Int
      PROVE  iter[t] = G[Max(t)][iter[t \ {Max(t)}]]
  <2>1. iter[t] = iter[t \ {Max(t)}] + s[Max(t)]
    BY <1>5, <1>8
  <2>2. Max(t) \in 1..N
    BY <1>3, <1>8
  <2> HIDE DEF G, Eq
  <2> QED BY <1>1, <1>8, <2>1, <2>2
<1>9. \E p : Partials(p, Int, 0, G, N) /\ p[N] = iter[1..N]
  <2> DEFINE A == Int
             base == 0
  <2>1. base \in A /\ N \in Nat /\ G \in [1..N -> [A -> A]]
    BY <1>0, <1>1
  <2>2. Solves(iter, A, base, G, N)
    BY <1>7, <1>8 DEF Solves
  <2>3. \E p : Partials(p, A, base, G, N) /\ p[N] = iter[1..N]
    <3> HIDE DEF A, base, N, G
    <3> QED BY <2>1, <2>2, TableIsPartials
  <2> QED BY <2>3
<1> QED BY <1>6, <1>9

(* A sample more leaves the earlier additions as they are.                   *)
LEMMA AddingAgrees ==
  ASSUME NEW s \in Seq(Int), NEW x \in Int
  PROVE  /\ Append(s, x) \in Seq(Int)
         /\ Len(Append(s, x)) = Len(s) + 1
         /\ \A k \in 1..Len(s) : Adding(s)[k] = Adding(Append(s, x))[k]
         /\ Adding(Append(s, x))[Len(s) + 1] = Plus(x)
<1>1. /\ Append(s, x) \in Seq(Int)
      /\ Len(Append(s, x)) = Len(s) + 1
      /\ Append(s, x)[Len(s) + 1] = x
      /\ \A k \in 1..Len(s) : Append(s, x)[k] = s[k]
  OBVIOUS
<1> QED BY <1>1 DEF Adding

(* What an empty sequence comes to, and one with a sample more.              *)
LEMMA TotalOfNone == Total(<<>>) = 0
<1>1. <<>> \in Seq(Int) /\ Len(<<>>) = 0
  OBVIOUS
<1>2. PICK p : /\ Partials(p, Int, 0, Adding(<<>>), Len(<<>>))
               /\ Total(<<>>) = p[Len(<<>>)]
  BY <1>1, TotalIsPartials
<1> QED BY <1>1, <1>2 DEF Partials

(* The total of one sample more is the total and that sample.                *)
LEMMA TotalOfOneMore ==
  ASSUME NEW s \in Seq(Int), NEW x \in Int
  PROVE  Total(s) \in Int /\ Total(Append(s, x)) = Total(s) + x
<1> DEFINE N == Len(s)
           t == Append(s, x)
<1>1. N \in Nat /\ N + 1 \in Nat /\ N <= N + 1 /\ N + 1 \in 1..(N + 1)
      /\ N \in 0..N /\ N + 1 - 1 = N
  OBVIOUS
<1>2. /\ t \in Seq(Int) /\ Len(t) = N + 1
      /\ \A k \in 1..N : Adding(s)[k] = Adding(t)[k]
      /\ Adding(t)[N + 1] = Plus(x)
  BY AddingAgrees
<1> HIDE DEF t
<1>3. PICK p : Partials(p, Int, 0, Adding(s), N) /\ Total(s) = p[N]
  BY TotalIsPartials
<1>4. PICK q : Partials(q, Int, 0, Adding(t), N + 1) /\ Total(t) = q[N + 1]
  BY <1>2, TotalIsPartials
<1> HIDE DEF N
<1>5. p[N] = q[N]
  <2> DEFINE A == Int
             base == 0
             M == N + 1
             G == Adding(s)
             H == Adding(t)
  <2>1. /\ base \in A /\ N \in Nat /\ M \in Nat /\ N <= M
        /\ Partials(p, A, base, G, N) /\ Partials(q, A, base, H, M)
        /\ \A k \in 1..N : G[k] = H[k]
    BY <1>1, <1>2, <1>3, <1>4
  <2> HIDE DEF A, base, M, G, H
  <2> QED BY <2>1, PartialsAgree
<1>6. p[N] \in Int /\ q[N + 1] = Adding(t)[N + 1][q[N]]
  BY <1>1, <1>3, <1>4 DEF Partials
<1>7. q[N + 1] = p[N] + x
  BY <1>2, <1>5, <1>6 DEF Plus
<1> QED BY <1>3, <1>4, <1>6, <1>7 DEF t

(* Sequences grow by one element at a time.                                  *)
LEMMA SequencesGrow ==
  ASSUME NEW A, NEW T \in SUBSET Seq(A), <<>> \in T,
         \A s \in T : \A x \in A : Append(s, x) \in T
  PROVE  T = Seq(A)
<1> DEFINE U == {n \in Nat : \A s \in Seq(A) : Len(s) = n => s \in T}
<1>1. 0 \in U
  <2>1. \A s \in Seq(A) : Len(s) = 0 => s = <<>>
    OBVIOUS
  <2> QED BY <2>1
<1>2. ASSUME NEW n \in Nat, n \in U PROVE n + 1 \in U
  <2> SUFFICES ASSUME NEW s \in Seq(A), Len(s) = n + 1 PROVE s \in T
    OBVIOUS
  <2>1. s # <<>>
    OBVIOUS
  <2>2. PICK f \in Seq(A), x \in A : s = Append(f, x)
    BY <2>1, SequenceEmptyOrAppend
  <2>3. Len(f) = n
    BY <2>2
  <2>4. f \in T
    BY <1>2, <2>3
  <2> QED BY <2>2, <2>4
<1>3. U = Nat
  <2>1. U \subseteq Nat
    OBVIOUS
  <2> HIDE DEF U
  <2> QED BY <1>1, <1>2, <2>1, Induction
<1>4. ASSUME NEW s \in Seq(A) PROVE s \in T
  <2>1. Len(s) \in U
    BY <1>3
  <2> QED BY <2>1
<1> QED BY <1>4

(* A sample more is an element more.                                         *)
LEMMA ToSetOfOneMore ==
  ASSUME NEW A, NEW s \in Seq(A), NEW x \in A
  PROVE  ToSet(Append(s, x)) = ToSet(s) \union {x}
<1> DEFINE t == Append(s, x)
<1>1. /\ DOMAIN t = 1..(Len(s) + 1) /\ DOMAIN s = 1..Len(s)
      /\ \A k \in 1..Len(s) : t[k] = s[k]
      /\ t[Len(s) + 1] = x /\ Len(s) \in Nat
  OBVIOUS
<1> HIDE DEF t
<1>2. 1..(Len(s) + 1) = 1..Len(s) \union {Len(s) + 1}
  BY <1>1
<1>3. {t[k] : k \in 1..(Len(s) + 1)} = {s[k] : k \in 1..Len(s)} \union {x}
  BY <1>1, <1>2
<1> QED BY <1>1, <1>3 DEF ToSet, t

(* The elements of a sequence are finitely many, and some if it is not empty.*)
LEMMA ToSetIsFinite ==
  ASSUME NEW A, NEW s \in Seq(A)
  PROVE  /\ ToSet(s) \subseteq A
         /\ IsFiniteSet(ToSet(s))
         /\ s # <<>> => ToSet(s) # {}
         /\ \A k \in 1..Len(s) : s[k] \in ToSet(s)
<1>1. DOMAIN s = 1..Len(s) /\ Len(s) \in Nat /\ \A k \in 1..Len(s) : s[k] \in A
  OBVIOUS
<1> DEFINE T == {q \in Seq(A) : IsFiniteSet(ToSet(q))}
<1>2. <<>> \in T
  <2>1. ToSet(<<>>) = {} /\ <<>> \in Seq(A)
    BY DEF ToSet
  <2> QED BY <2>1, FS_EmptySet
<1>3. ASSUME NEW q \in T, NEW x \in A PROVE Append(q, x) \in T
  <2>1. ToSet(Append(q, x)) = ToSet(q) \union {x} /\ Append(q, x) \in Seq(A)
    BY ToSetOfOneMore
  <2>2. IsFiniteSet(ToSet(q))
    OBVIOUS
  <2> QED BY <2>1, <2>2, FS_AddElement
<1>4. T = Seq(A)
  <2>1. T \subseteq Seq(A)
    OBVIOUS
  <2> HIDE DEF T
  <2> QED BY <1>2, <1>3, <2>1, SequencesGrow
<1>5. s # <<>> => 1 \in 1..Len(s)
  OBVIOUS
<1>6. IsFiniteSet(ToSet(s))
  BY <1>4
<1> QED BY <1>1, <1>5, <1>6 DEF ToSet

(* A total lies between as many times the least sample and the greatest.     *)
LEMMA TotalIsBounded ==
  ASSUME NEW lo \in Int, NEW hi \in Int, NEW s \in Seq(Int),
         \A k \in 1..Len(s) : lo <= s[k] /\ s[k] <= hi
  PROVE  /\ Total(s) \in Int
         /\ Len(s) * lo <= Total(s) /\ Total(s) <= Len(s) * hi
<1> DEFINE A == {i \in Int : lo <= i /\ i <= hi}
           Fits(q) == /\ Total(q) \in Int
                      /\ Len(q) * lo <= Total(q) /\ Total(q) <= Len(q) * hi
           T == {q \in Seq(A) : Fits(q)}
<1>1. <<>> \in T
  BY TotalOfNone
<1>2. ASSUME NEW q \in T, NEW x \in A PROVE Append(q, x) \in T
  <2>1. q \in Seq(Int) /\ x \in Int /\ lo <= x /\ x <= hi
    OBVIOUS
  <2>2. Total(q) \in Int /\ Total(Append(q, x)) = Total(q) + x
    BY <2>1, TotalOfOneMore
  <2>3. Append(q, x) \in Seq(A) /\ Len(Append(q, x)) = Len(q) + 1
    OBVIOUS
  <2>4. Fits(q)
    OBVIOUS
  <2>5. Len(q) \in Nat
    OBVIOUS
  <2>6. (Len(q) + 1) * lo = Len(q) * lo + lo
        /\ (Len(q) + 1) * hi = Len(q) * hi + hi
    BY <2>5
  <2> QED BY <2>1, <2>2, <2>3, <2>4, <2>5, <2>6
<1>3. T = Seq(A)
  <2>1. T \subseteq Seq(A)
    OBVIOUS
  <2> HIDE DEF T, A
  <2> QED BY <1>1, <1>2, <2>1, SequencesGrow
<1>4. s \in Seq(A)
  OBVIOUS
<1>5. s \in T
  BY <1>3, <1>4
<1> QED BY <1>5

(* A mean lies between the least sample and the greatest.                    *)
LEMMA MeanIsBounded ==
  ASSUME NEW lo \in Int, NEW hi \in Int, NEW s \in Seq(Int), s # <<>>,
         \A k \in 1..Len(s) : lo <= s[k] /\ s[k] <= hi
  PROVE  Mean(s) \in Int /\ lo <= Mean(s) /\ Mean(s) <= hi
<1> DEFINE n == Len(s)
           t == Total(s)
           q == t \div n
<1>1. n \in Nat /\ n > 0 /\ t \in Int /\ n * lo <= t /\ t <= n * hi
  <2>1. n \in Nat /\ n > 0
    OBVIOUS
  <2> QED BY <2>1, TotalIsBounded
<1> HIDE DEF n, t
<1>2. q \in Int /\ n * q <= t /\ t < n * q + n
  BY <1>1
<1> HIDE DEF q
<1>3. lo <= q
  BY <1>1, <1>2
<1>4. q <= hi
  BY <1>1, <1>2
<1> QED BY <1>2, <1>3, <1>4 DEF Mean, q, n, t

(* So it does when other numbers join in the search for the least and the    *)
(* greatest, as the values that a minimum and a maximum start from do.       *)
LEMMA MeanIsBetween ==
  ASSUME NEW s \in Seq(Nat), s # <<>>, NEW T \in SUBSET Nat,
         NEW U \in SUBSET Nat, IsFiniteSet(U)
  PROVE  /\ Mean(s) \in Int
         /\ Min(ToSet(s) \union T) <= Mean(s)
         /\ Mean(s) <= Max(ToSet(s) \union U)
<1> DEFINE low == ToSet(s) \union T
           high == ToSet(s) \union U
           lo == Min(low)
           hi == Max(high)
<1>1. /\ ToSet(s) \subseteq Nat /\ IsFiniteSet(ToSet(s)) /\ ToSet(s) # {}
      /\ \A k \in 1..Len(s) : s[k] \in ToSet(s)
  BY ToSetIsFinite
<1>2. /\ low \in SUBSET Nat /\ high \in SUBSET Nat /\ low # {} /\ high # {}
      /\ \A k \in 1..Len(s) : s[k] \in low /\ s[k] \in high
  BY <1>1
<1>3. IsFiniteSet(high)
  BY <1>1, FS_Union
<1> HIDE DEF low, high
<1>4. /\ lo \in low /\ hi \in high
      /\ \A x \in low : lo <= x
      /\ \A x \in high : x <= hi
  BY <1>2, <1>3, MinIsLeast, MaxIsGreatest
<1> HIDE DEF lo, hi
<1>5. lo \in Int /\ hi \in Int
  BY <1>2, <1>4
<1>6. \A k \in 1..Len(s) : lo <= s[k] /\ s[k] <= hi
  BY <1>2, <1>4
<1>7. s \in Seq(Int)
  OBVIOUS
<1>8. Mean(s) \in Int /\ lo <= Mean(s) /\ Mean(s) <= hi
  BY <1>5, <1>6, <1>7, MeanIsBounded
<1> QED BY <1>8 DEF lo, hi, low, high

(* A running minimum and a running maximum are those of all samples so far.  *)
LEMMA LeastOfOneMore ==
  ASSUME NEW s \in Seq(Nat), NEW x \in Nat
  PROVE  Min(ToSet(Append(s, x))) =
           IF s = <<>> THEN x ELSE Min({Min(ToSet(s)), x})
<1> DEFINE S == ToSet(s)
           T == ToSet(Append(s, x))
<1>1. S \in SUBSET Nat /\ (s # <<>> => S # {}) /\ (s = <<>> => S = {})
  <2>1. S \in SUBSET Nat /\ (s # <<>> => S # {})
    BY ToSetIsFinite
  <2>2. s = <<>> => S = {}
    BY DEF ToSet
  <2> QED BY <2>1, <2>2
<1>2. T = S \union {x}
  BY ToSetOfOneMore
<1> HIDE DEF S, T
<1>3. T \in SUBSET Nat /\ T # {}
  BY <1>1, <1>2
<1>4. Min(T) \in T /\ \A y \in T : Min(T) <= y
  BY <1>3, MinIsLeast
<1>5. CASE s = <<>>
  BY <1>1, <1>2, <1>4, <1>5 DEF T
<1>6. CASE s # <<>>
  <2> DEFINE m == Min(S)
             P == {m, x}
  <2>1. m \in S /\ \A y \in S : m <= y
    BY <1>1, <1>6, MinIsLeast
  <2> HIDE DEF m
  <2>2. P \in SUBSET Nat /\ P # {} /\ \A y \in P : y = m \/ y = x
    BY <1>1, <2>1
  <2>3. m \in P /\ x \in P
    OBVIOUS
  <2> HIDE DEF P
  <2>4. Min(P) \in P /\ \A y \in P : Min(P) <= y
    BY <2>2, MinIsLeast
  <2>5. Min(P) \in Nat /\ Min(T) \in Nat /\ Min(P) <= m /\ Min(P) <= x
    BY <2>2, <2>3, <2>4, <1>3, <1>4
  <2>6. Min(P) \in T /\ Min(T) <= Min(P)
    BY <2>1, <2>2, <2>4, <1>2, <1>4
  <2>7. Min(P) <= Min(T)
    <3>1. CASE Min(T) \in S
      <4>1. m \in Nat /\ m <= Min(T)
        BY <3>1, <2>1, <1>1
      <4> QED BY <4>1, <2>5
    <3>2. CASE Min(T) = x
      BY <3>2, <2>5
    <3> QED BY <3>1, <3>2, <1>2, <1>4
  <2>8. Min(T) = Min(P)
    BY <2>5, <2>6, <2>7
  <2> QED BY <1>6, <2>8 DEF m, P, S, T
<1> QED BY <1>5, <1>6

(* The same of the greatest.                                                 *)
LEMMA GreatestOfOneMore ==
  ASSUME NEW s \in Seq(Nat), NEW x \in Nat
  PROVE  Max(ToSet(Append(s, x))) =
           IF s = <<>> THEN x ELSE Max({Max(ToSet(s)), x})
<1> DEFINE S == ToSet(s)
           T == ToSet(Append(s, x))
<1>1. S \in SUBSET Nat /\ (s # <<>> => S # {}) /\ (s = <<>> => S = {})
      /\ IsFiniteSet(S)
  <2>1. S \in SUBSET Nat /\ (s # <<>> => S # {}) /\ IsFiniteSet(S)
    BY ToSetIsFinite
  <2>2. s = <<>> => S = {}
    BY DEF ToSet
  <2> QED BY <2>1, <2>2
<1>2. T = S \union {x}
  BY ToSetOfOneMore
<1> HIDE DEF S, T
<1>3. T \in SUBSET Nat /\ T # {} /\ IsFiniteSet(T)
  BY <1>1, <1>2, FS_AddElement
<1>4. Max(T) \in T /\ \A y \in T : y <= Max(T)
  BY <1>3, MaxIsGreatest
<1>5. CASE s = <<>>
  BY <1>1, <1>2, <1>4, <1>5 DEF T
<1>6. CASE s # <<>>
  <2> DEFINE m == Max(S)
             P == {m, x}
  <2>1. m \in S /\ \A y \in S : y <= m
    BY <1>1, <1>6, MaxIsGreatest
  <2> HIDE DEF m
  <2>2. P \in SUBSET Nat /\ P # {} /\ \A y \in P : y = m \/ y = x
    BY <1>1, <2>1
  <2>3. m \in P /\ x \in P
    OBVIOUS
  <2>f. IsFiniteSet(P)
    <3>1. IsFiniteSet({m})
      BY FS_Singleton
    <3>2. IsFiniteSet({m} \union {x})
      BY <3>1, FS_AddElement
    <3>3. P = {m} \union {x}
      OBVIOUS
    <3> HIDE DEF P
    <3> QED BY <3>2, <3>3
  <2> HIDE DEF P
  <2>4. Max(P) \in P /\ \A y \in P : y <= Max(P)
    BY <2>2, <2>f, MaxIsGreatest
  <2>5. Max(P) \in Nat /\ Max(T) \in Nat /\ m <= Max(P) /\ x <= Max(P)
    BY <2>2, <2>3, <2>4, <1>3, <1>4
  <2>6. Max(P) \in T /\ Max(P) <= Max(T)
    BY <2>1, <2>2, <2>4, <1>2, <1>4
  <2>7. Max(T) <= Max(P)
    <3>1. CASE Max(T) \in S
      <4>1. m \in Nat /\ Max(T) <= m
        BY <3>1, <2>1, <1>1
      <4> QED BY <4>1, <2>5
    <3>2. CASE Max(T) = x
      BY <3>2, <2>5
    <3> QED BY <3>1, <3>2, <1>2, <1>4
  <2>8. Max(T) = Max(P)
    BY <2>5, <2>6, <2>7
  <2> QED BY <1>6, <2>8 DEF m, P, S, T
<1> QED BY <1>5, <1>6

------------------------------------------------------------------------------
(* Keep. *)

KeepOne(A, S, x) ==
  [kept \in Seq(A) |-> IF x \in S THEN Append(kept, x) ELSE kept]
Keeping(s, A, S) == [k \in 1..Len(s) |-> KeepOne(A, S, s[k])]

(* Keep is the last of the partial results of keeping.                       *)
LEMMA KeepIsPartials ==
  ASSUME NEW A, NEW S, NEW s \in Seq(A)
  PROVE  \E p : /\ Partials(p, Seq(A), <<>>, Keeping(s, A, S), Len(s))
               /\ Keep(s, S) = p[Len(s)]
<1> DEFINE N == Len(s)
           Q == Seq(A)
           base == <<>>
           G == Keeping(s, A, S)
           Eq(h) == h = [t \in SUBSET (1..N) |->
                           IF t = {} THEN <<>>
                           ELSE IF s[Max(t)] \in S
                                THEN Append(h[t \ {Max(t)}], s[Max(t)])
                                ELSE h[t \ {Max(t)}]]
           iter == CHOOSE h : Eq(h)
<1>0. N \in Nat /\ DOMAIN s = 1..N /\ base \in Q
      /\ \A k \in 1..N : s[k] \in A
  OBVIOUS
<1>1. /\ G \in [1..N -> [Q -> Q]]
      /\ \A k \in 1..N : \A a \in Q :
           G[k][a] = IF s[k] \in S THEN Append(a, s[k]) ELSE a
  <2>1. \A k \in 1..N : KeepOne(A, S, s[k]) \in [Q -> Q]
    BY <1>0 DEF KeepOne
  <2>2. \A k \in 1..N : G[k] = KeepOne(A, S, s[k])
    BY DEF Keeping
  <2>3. G \in [1..N -> [Q -> Q]]
    <3> HIDE DEF Q
    <3> QED BY <2>1 DEF Keeping
  <2> QED BY <2>2, <2>3 DEF KeepOne
<1>2. \E h : Table(h, Q, base, G, N)
  <2> HIDE DEF N, G, Q, base
  <2> QED BY <1>0, <1>1, TableExists
<1>3. \A t \in SUBSET (1..N) : t # {} => Max(t) \in 1..N
  <2> HIDE DEF N
  <2>1. ASSUME NEW t \in SUBSET (1..N), t # {} PROVE Max(t) \in 1..N
    <3>1. N \in Nat
      BY <1>0
    <3>2. Max(t) \in t
      BY <2>1, <3>1, MaxOfIndices
    <3> QED BY <3>2
  <2> QED BY <2>1
<1>4. \E h : Eq(h)
  <2>1. PICK h : Table(h, Q, base, G, N)
    BY <1>2
  <2>2. /\ h \in [SUBSET (1..N) -> Q] /\ h[{}] = <<>>
        /\ \A t \in SUBSET (1..N) : t # {} =>
             h[t] = G[Max(t)][h[t \ {Max(t)}]]
    BY <2>1 DEF Table
  <2> HIDE DEF N, G, Q
  <2>3. ASSUME NEW t \in SUBSET (1..N), t # {}
        PROVE  h[t] = IF s[Max(t)] \in S
                      THEN Append(h[t \ {Max(t)}], s[Max(t)])
                      ELSE h[t \ {Max(t)}]
    <3>1. h[t \ {Max(t)}] \in Q
      BY <2>2
    <3>2. Max(t) \in 1..N
      BY <2>3, <1>3
    <3> QED BY <3>1, <3>2, <2>2, <2>3, <1>1
  <2>4. Eq(h)
    BY <2>2, <2>3
  <2> HIDE DEF Eq
  <2> QED BY <2>4
<1>5. Eq(iter)
  <2> HIDE DEF Eq
  <2> QED BY <1>4
<1>6. Keep(s, S) = iter[1..N]
  BY <1>0 DEF Keep, FoldLeft, MapThenFoldSet
<1> HIDE DEF iter
<1>7. iter[{}] = <<>>
  BY <1>5
<1>8. ASSUME NEW t \in SUBSET (1..N), t # {}, iter[t \ {Max(t)}] \in Q
      PROVE  iter[t] = G[Max(t)][iter[t \ {Max(t)}]]
  <2>1. iter[t] = IF s[Max(t)] \in S
                  THEN Append(iter[t \ {Max(t)}], s[Max(t)])
                  ELSE iter[t \ {Max(t)}]
    BY <1>5, <1>8
  <2>2. Max(t) \in 1..N
    BY <1>3, <1>8
  <2> HIDE DEF G, Eq, Q
  <2> QED BY <1>1, <1>8, <2>1, <2>2
<1>9. \E p : Partials(p, Q, base, G, N) /\ p[N] = iter[1..N]
  <2>1. Solves(iter, Q, base, G, N)
    <3> HIDE DEF G, Q, N
    <3> QED BY <1>7, <1>8 DEF Solves
  <2> HIDE DEF Q, base, N, G, Eq
  <2> QED BY <1>0, <1>1, <2>1, TableIsPartials
<1> QED BY <1>6, <1>9

(* Of no samples none is kept.                                               *)
LEMMA KeepOfNone == ASSUME NEW S PROVE Keep(<<>>, S) = <<>>
<1>1. <<>> \in Seq({}) /\ Len(<<>>) = 0
  OBVIOUS
<1>2. PICK p : /\ Partials(p, Seq({}), <<>>, Keeping(<<>>, {}, S), Len(<<>>))
               /\ Keep(<<>>, S) = p[Len(<<>>)]
  BY <1>1, KeepIsPartials
<1> QED BY <1>1, <1>2 DEF Partials

(* A sample more is kept if it is in S.                                      *)
LEMMA KeepOfOneMore ==
  ASSUME NEW A, NEW S, NEW s \in Seq(A), NEW x \in A
  PROVE  /\ Keep(s, S) \in Seq(A)
         /\ Keep(Append(s, x), S) =
              IF x \in S THEN Append(Keep(s, S), x) ELSE Keep(s, S)
<1> DEFINE N == Len(s)
           M == N + 1
           t == Append(s, x)
           Q == Seq(A)
           base == <<>>
           G == Keeping(s, A, S)
           H == Keeping(t, A, S)
<1>1. N \in Nat /\ M \in Nat /\ N <= M /\ M \in 1..M /\ N \in 0..N
      /\ M - 1 = N /\ base \in Q
  OBVIOUS
<1>2. /\ t \in Seq(A) /\ Len(t) = M /\ t[M] = x
      /\ \A k \in 1..N : t[k] = s[k]
  OBVIOUS
<1>3. H[M] = KeepOne(A, S, x) /\ \A k \in 1..N : G[k] = H[k]
  <2> HIDE DEF t
  <2> QED BY <1>1, <1>2 DEF Keeping
<1>4. PICK p : Partials(p, Q, base, G, N) /\ Keep(s, S) = p[N]
  BY KeepIsPartials
<1>5. PICK q : Partials(q, Q, base, H, M) /\ Keep(t, S) = q[M]
  <2>1. \E q : /\ Partials(q, Seq(A), <<>>, Keeping(t, A, S), Len(t))
               /\ Keep(t, S) = q[Len(t)]
    <3> HIDE DEF t
    <3> QED BY <1>2, KeepIsPartials
  <2> HIDE DEF t, M
  <2> QED BY <2>1, <1>2
<1>6. p[N] = q[N] /\ p[N] \in Q /\ q[M] = H[M][q[N]]
  <2> HIDE DEF N, M, Q, base, G, H
  <2>1. p[N] = q[N]
    BY <1>1, <1>3, <1>4, <1>5, PartialsAgree
  <2> QED BY <2>1, <1>1, <1>4, <1>5 DEF Partials
<1>7. q[M] = IF x \in S THEN Append(p[N], x) ELSE p[N]
  <2> HIDE DEF M, N, H, G
  <2> QED BY <1>3, <1>6 DEF KeepOne
<1> QED BY <1>4, <1>5, <1>6, <1>7

(* What is kept is some of the samples, all of those in S and nothing else.  *)
LEMMA KeepKeeps ==
  ASSUME NEW A, NEW S, NEW s \in Seq(A)
  PROVE  /\ Keep(s, S) \in Seq(A \cap S)
         /\ Len(Keep(s, S)) <= Len(s)
         /\ ToSet(Keep(s, S)) = ToSet(s) \cap S
<1> DEFINE Some(q) == /\ Keep(q, S) \in Seq(A \cap S)
                      /\ Len(Keep(q, S)) <= Len(q)
                      /\ ToSet(Keep(q, S)) = ToSet(q) \cap S
           T == {q \in Seq(A) : Some(q)}
<1>1. <<>> \in T
  <2>1. ToSet(<<>>) = {} /\ <<>> \in Seq(A \cap S) /\ <<>> \in Seq(A)
    BY DEF ToSet
  <2>2. Keep(<<>>, S) = <<>>
    BY KeepOfNone
  <2>3. Some(<<>>)
    <3> DEFINE none == <<>>
               kept == Keep(none, S)
    <3>1. kept = none /\ none \in Seq(A \cap S) /\ ToSet(none) = {}
          /\ Len(none) = 0
      BY <2>1, <2>2
    <3> HIDE DEF none, kept
    <3>2. /\ kept \in Seq(A \cap S) /\ Len(kept) <= Len(none)
          /\ ToSet(kept) = ToSet(none) \cap S
      BY <3>1
    <3> QED BY <3>2 DEF none, kept
  <2> QED BY <2>1, <2>3
<1>2. ASSUME NEW q \in T, NEW x \in A PROVE Append(q, x) \in T
  <2> DEFINE k == Keep(q, S)
  <2>1. q \in Seq(A) /\ Some(q)
    OBVIOUS
  <2>2. Keep(Append(q, x), S) = IF x \in S THEN Append(k, x) ELSE k
    BY <2>1, KeepOfOneMore
  <2>3. Append(q, x) \in Seq(A) /\ Len(Append(q, x)) = Len(q) + 1
        /\ Len(q) \in Nat
    BY <2>1
  <2>4. ToSet(Append(q, x)) = ToSet(q) \union {x}
    BY <2>1, ToSetOfOneMore
  <2>5. k \in Seq(A \cap S) /\ Len(k) <= Len(q) /\ ToSet(k) = ToSet(q) \cap S
        /\ Len(k) \in Nat
    BY <2>1
  <2> HIDE DEF k, T
  <2>6. CASE x \in S
    <3>1. x \in A \cap S
      BY <2>6
    <3>2. Append(k, x) \in Seq(A \cap S) /\ Len(Append(k, x)) = Len(k) + 1
      BY <2>5, <3>1
    <3>3. ToSet(Append(k, x)) = ToSet(k) \union {x}
      BY <2>5, <3>1, ToSetOfOneMore
    <3>4. ToSet(Append(k, x)) = (ToSet(q) \union {x}) \cap S
      BY <2>5, <2>6, <3>3
    <3>5. Keep(Append(q, x), S) = Append(k, x)
      BY <2>2, <2>6
    <3>6. Len(k) + 1 <= Len(q) + 1
      BY <2>3, <2>5
    <3>7. Some(Append(q, x))
      BY <2>3, <2>4, <3>2, <3>4, <3>5, <3>6
    <3> QED BY <2>3, <3>7 DEF T
  <2>7. CASE x \notin S
    <3>1. ToSet(k) = (ToSet(q) \union {x}) \cap S
      BY <2>5, <2>7
    <3>2. Keep(Append(q, x), S) = k /\ Len(k) <= Len(q) + 1
      BY <2>2, <2>3, <2>5, <2>7
    <3>3. Some(Append(q, x))
      BY <2>3, <2>4, <2>5, <3>1, <3>2
    <3> QED BY <2>3, <3>3 DEF T
  <2> QED BY <2>6, <2>7
<1>3. T = Seq(A)
  <2>1. T \subseteq Seq(A)
    OBVIOUS
  <2> HIDE DEF T
  <2> QED BY <1>1, <1>2, <2>1, SequencesGrow
<1> QED BY <1>3

=============================================================================
