----------------------------- MODULE Arithmetic -----------------------------
(***************************************************************************)
(* Facts about division, and about sums: SumFunctionOnSet(f, S) is the sum *)
(* of f[x] for x in a finite set S, which the library defines by recursion *)
(* on the subsets of S.  The facts follow by induction over them, which is *)
(* here the existence of a smallest subset that is not in a given set.     *)
(***************************************************************************)
EXTENDS Integers, FiniteSets, Functions, FiniteSetTheorems, TLAPS

LEMMA Division ==
    ASSUME NEW a \in Nat, NEW n \in Nat \ {0}
    PROVE  /\ a = n * (a \div n) + (a % n)
           /\ a \div n \in Nat
           /\ a % n \in 0 .. n - 1
OBVIOUS

\* Equal but for less than a divisor.
LEMMA LessThanOne ==
    ASSUME NEW n \in Nat \ {0}, NEW p \in Int, NEW q \in Int, n * p < n * q + n
    PROVE  p <= q
<1> SUFFICES ASSUME p >= q + 1 PROVE FALSE
  OBVIOUS
<1>1. PICK k \in Nat : p = q + 1 + k
  <2>1. p - (q + 1) \in Nat /\ p = q + 1 + (p - (q + 1))
    OBVIOUS
  <2> QED
    BY <2>1
<1>2. n * p = n * q + n + n * k
  BY <1>1
<1>3. n * k \in Nat
  BY <1>1
<1> DEFINE x == n * p
           y == n * q
           z == n * k
<1>4. x \in Int /\ y \in Int
  OBVIOUS
<1>5. x = y + n + z /\ z \in Nat /\ x < y + n
  BY <1>2, <1>3
<1> HIDE DEF x, y, z
<1> QED
  BY <1>4, <1>5

\* Quotient and remainder are the only ones.
LEMMA Quotient ==
    ASSUME NEW a \in Nat, NEW n \in Nat \ {0}, NEW q \in Int, NEW r \in 0 .. n - 1,
           a = n * q + r
    PROVE  q = a \div n /\ r = a % n
<1> DEFINE p == a \div n
           s == a % n
<1>1. a = n * p + s /\ p \in Nat /\ s \in 0 .. n - 1
  BY Division
<1> HIDE DEF p, s
<1>2. n * p \in Int /\ n * q \in Int
  BY <1>1
<1>3. n * p < n * q + n /\ n * q < n * p + n
  BY <1>1, <1>2
<1>4. p <= q /\ q <= p
  BY <1>1, <1>3, LessThanOne
<1>5. p = q
  BY <1>1, <1>4
<1>6. r = s
  BY <1>1, <1>2, <1>5
<1> QED
  BY <1>5, <1>6 DEF p, s

\* A larger number does not have a smaller quotient.
LEMMA Ordered ==
    ASSUME NEW a \in Nat, NEW b \in Nat, a <= b, NEW n \in Nat \ {0}
    PROVE  a \div n <= b \div n
<1> DEFINE p == a \div n
           q == b \div n
<1>1. a = n * p + (a % n) /\ p \in Nat /\ a % n \in 0 .. n - 1
  BY Division
<1>2. b = n * q + (b % n) /\ q \in Nat /\ b % n \in 0 .. n - 1
  BY Division
<1> HIDE DEF p, q
<1>3. n * p \in Int /\ n * q \in Int
  BY <1>1, <1>2
<1>4. n * p < n * q + n
  BY <1>1, <1>2, <1>3
<1>5. p <= q
  BY <1>1, <1>2, <1>4, LessThanOne
<1> QED
  BY <1>5 DEF p, q

\* Division by a product.
LEMMA Nested ==
    ASSUME NEW a \in Nat, NEW m \in Nat \ {0}, NEW n \in Nat \ {0}
    PROVE  /\ a \div (m * n) = (a \div m) \div n
           /\ a % (m * n) = m * ((a \div m) % n) + (a % m)
<1> DEFINE q == a \div m
           r == a % m
           s == q \div n
           t == q % n
<1>1. a = m * q + r /\ q \in Nat /\ r \in 0 .. m - 1
  BY Division
<1>2. q = n * s + t /\ s \in Nat /\ t \in 0 .. n - 1
  BY <1>1, Division
<1> HIDE DEF q, r, s, t
<1>3. a = (m * n) * s + (m * t + r)
  <2>1. m * q = m * (n * s) + m * t
    BY <1>2
  <2>2. m * (n * s) = (m * n) * s
    BY <1>2
  <2> QED
    BY <1>1, <1>2, <2>1, <2>2
<1>4. m * t + r \in 0 .. (m * n) - 1
  <2>1. m * t \in Nat /\ m * n \in Nat
    BY <1>2
  <2>2. PICK k \in Nat : n = t + 1 + k
    <3>1. n - (t + 1) \in Nat /\ n = t + 1 + (n - (t + 1))
      BY <1>2
    <3> QED
      BY <3>1
  <2>3. m * n = m * t + m + m * k /\ m * k \in Nat
    BY <1>2, <2>2
  <2> QED
    BY <1>1, <2>1, <2>3
<1>5. m * n \in Nat \ {0}
  OBVIOUS
<1>6. s = a \div (m * n) /\ m * t + r = a % (m * n)
  <2> DEFINE k == m * n
             u == m * t + r
  <2>1. k \in Nat \ {0} /\ u \in 0 .. k - 1 /\ a = k * s + u /\ s \in Int
    BY <1>2, <1>3, <1>4, <1>5
  <2> HIDE DEF k, u
  <2>2. s = a \div k /\ u = a % k
    BY <2>1, Quotient
  <2> QED
    BY <2>2 DEF k, u
<1> QED
  BY <1>6 DEF q, r, s, t

\* Numbers of equal quotient and remainder are equal.
LEMMA SameParts ==
    ASSUME NEW a \in Nat, NEW b \in Nat, NEW n \in Nat \ {0},
           a \div n = b \div n, a % n = b % n
    PROVE  a = b
BY Division

\* Of n successive numbers no two have the same remainder.
LEMMA Apart ==
    ASSUME NEW a \in Nat, NEW b \in Nat, NEW n \in Nat \ {0},
           a <= b, b < a + n, a % n = b % n
    PROVE  a = b
<1> DEFINE p == a \div n
           q == b \div n
           r == a % n
<1>1. a = n * p + r /\ p \in Nat /\ r \in 0 .. n - 1
  BY Division
<1>2. b = n * q + r /\ q \in Nat
  BY Division
<1> HIDE DEF p, q, r
<1>3. n * p \in Int /\ n * q \in Int
  BY <1>1, <1>2
<1>4. n * q < n * p + n /\ n * p < n * q + n
  BY <1>1, <1>2, <1>3
<1>5. p <= q /\ q <= p
  BY <1>1, <1>2, <1>4, LessThanOne
<1> QED
  BY <1>1, <1>2, <1>5

LEMMA Turn ==
    ASSUME NEW a \in Nat, NEW n \in Nat \ {0}
    PROVE  (a + n) % n = a % n /\ (a + n) \div n = a \div n + 1
<1> DEFINE q == a \div n
           r == a % n
<1>1. a = n * q + r /\ q \in Nat /\ r \in 0 .. n - 1
  BY Division
<1> HIDE DEF q, r
<1>2. a + n = n * (q + 1) + r
  BY <1>1
<1>3. q + 1 = (a + n) \div n /\ r = (a + n) % n
  BY <1>1, <1>2, Quotient
<1> QED
  BY <1>3 DEF q, r

LEMMA Successor ==
    ASSUME NEW a \in Nat, NEW n \in Nat \ {0}
    PROVE  /\ (a + 1) % n # 0 => (a + 1) \div n = a \div n
           /\ (a + 1) % n = 0 => (a + 1) \div n = a \div n + 1
<1> DEFINE q == a \div n
           r == a % n
<1>1. a = n * q + r /\ q \in Nat /\ r \in 0 .. n - 1
  BY Division
<1> HIDE DEF q, r
<1>2. CASE r = n - 1
  <2>1. a + 1 = n * (q + 1) + 0
    BY <1>1, <1>2
  <2>2. q + 1 = (a + 1) \div n /\ 0 = (a + 1) % n
    BY <1>1, <2>1, Quotient
  <2> QED
    BY <2>2 DEF q
<1>3. CASE r # n - 1
  <2>1. a + 1 = n * q + (r + 1) /\ r + 1 \in 0 .. n - 1
    BY <1>1, <1>3
  <2>2. q = (a + 1) \div n /\ r + 1 = (a + 1) % n
    BY <1>1, <2>1, Quotient
  <2> QED
    BY <1>1, <2>2 DEF q
<1> QED
  BY <1>2, <1>3

LEMMA Reaches ==
    ASSUME NEW a \in Nat, NEW n \in Nat \ {0}, NEW x \in Int
    PROVE  a >= n * x <=> a \div n >= x
<1> DEFINE q == a \div n
           r == a % n
<1>1. a = n * q + r /\ q \in Nat /\ r \in 0 .. n - 1
  BY Division
<1> HIDE DEF q, r
<1>2. n * x \in Int /\ n * q \in Int
  BY <1>1
<1>3. ASSUME a >= n * x PROVE q >= x
  <2>1. n * x < n * q + n
    BY <1>1, <1>2, <1>3
  <2> QED
    BY <1>1, <2>1, LessThanOne
<1>4. ASSUME q >= x PROVE a >= n * x
  <2>1. q - x \in Nat
    BY <1>1, <1>4
  <2>2. n * (q - x) \in Nat
    BY <2>1
  <2>3. n * q = n * x + n * (q - x)
    BY <1>1
  <2> QED
    BY <1>1, <1>2, <2>2, <2>3
<1> QED
  BY <1>3, <1>4 DEF q
-----------------------------------------------------------------------------
LEMMA Smallest ==
    ASSUME NEW S, IsFiniteSet(S), NEW C, C \subseteq SUBSET S, C # {}
    PROVE  \E T \in C : \A U \in C : U \subseteq T => U = T
<1> DEFINE R == StrictSubsetOrdering(S)
<1>1. IsWellFoundedOn(R, SUBSET S)
  BY FS_StrictSubsetOrderingWellFounded, FS_FiniteSubsetsOfFinite
<1> HIDE DEF R
<1>2. PICK T \in C : \A U \in C : <<U, T>> \notin R
  BY <1>1, WFMin
<1>3. \A U \in C : U \subseteq T => U = T
  BY <1>2 DEF R, StrictSubsetOrdering
<1> QED
  BY <1>3

\* C has every subset of S if it has a set whenever it has its proper subsets.
LEMMA SubsetInduction ==
    ASSUME NEW S, IsFiniteSet(S), NEW C,
           \A T \in SUBSET S : (\A U \in SUBSET T : U # T => U \in C) => T \in C
    PROVE  SUBSET S \subseteq C
<1> DEFINE N == (SUBSET S) \ C
<1> SUFFICES ASSUME N # {} PROVE FALSE
  OBVIOUS
<1>1. PICK T \in N : \A U \in N : U \subseteq T => U = T
  <2>1. N \subseteq SUBSET S
    OBVIOUS
  <2> HIDE DEF N
  <2> QED
    BY <2>1, Smallest
<1>2. \A U \in SUBSET T : U # T => U \in C
  BY <1>1
<1> QED
  BY <1>2
-----------------------------------------------------------------------------
(***************************************************************************)
(* The recursion.                                                          *)
(***************************************************************************)
Chosen(s) == CHOOSE x \in s : TRUE

\* What the recursive function of the library is at s.
Step(f, g, s) == IF s = {} THEN 0 ELSE f[Chosen(s)] + g[s \ {Chosen(s)}]

IsFold(f, S, g) == g = [s \in SUBSET S |-> Step(f, g, s)]

LEMMA SumDefinition ==
    ASSUME NEW f, NEW S
    PROVE  SumFunctionOnSet(f, S) = (CHOOSE g : IsFold(f, S, g))[S]
BY DEF SumFunctionOnSet, FoldFunctionOnSet, MapThenFoldSet, IsFold, Step, Chosen

LEMMA ChosenIn == \A s : s # {} => Chosen(s) \in s
BY DEF Chosen

LEMMA FoldAgrees ==
    ASSUME NEW f, NEW A, IsFiniteSet(A), NEW B, A \subseteq B,
           NEW g, IsFold(f, A, g), NEW h, IsFold(f, B, h)
    PROVE  g[A] = h[A]
<1> DEFINE C == {s \in SUBSET A : g[s] = h[s]}
<1>1. \A s \in SUBSET A : g[s] = Step(f, g, s) /\ h[s] = Step(f, h, s)
  <2>1. \A s \in SUBSET A : s \in SUBSET B
    OBVIOUS
  <2>2. g = [s \in SUBSET A |-> Step(f, g, s)] /\ h = [s \in SUBSET B |-> Step(f, h, s)]
    BY DEF IsFold
  <2>3. \A s \in SUBSET A : g[s] = Step(f, g, s)
    BY <2>2
  <2>4. \A s \in SUBSET B : h[s] = Step(f, h, s)
    BY <2>2
  <2> QED
    BY <2>1, <2>3, <2>4
<1>2. ASSUME NEW s \in SUBSET A, \A u \in SUBSET s : u # s => u \in C
      PROVE  s \in C
  <2>1. CASE s = {}
    BY <1>1, <2>1 DEF Step
  <2>2. CASE s # {}
    <3>1. Chosen(s) \in s
      BY <2>2, ChosenIn
    <3>2. s \ {Chosen(s)} \in C
      BY <1>2, <3>1
    <3> QED
      BY <1>1, <2>2, <3>2 DEF Step
  <2> QED
    BY <2>1, <2>2
<1>3. SUBSET A \subseteq C
  <2> HIDE DEF C
  <2> QED
    BY <1>2, SubsetInduction
<1> QED
  BY <1>3

LEMMA FoldExists ==
    ASSUME NEW f, NEW S, IsFiniteSet(S) PROVE \E g : IsFold(f, S, g)
<1> DEFINE C == {T \in SUBSET S : \E g : IsFold(f, T, g)}
           Val(s) == (CHOOSE g : IsFold(f, s, g))[s]
<1>1. ASSUME NEW T \in SUBSET S, \A U \in SUBSET T : U # T => U \in C
      PROVE  T \in C
  <2> DEFINE h == [s \in SUBSET T |-> IF s = {} THEN 0
                                      ELSE f[Chosen(s)] + Val(s \ {Chosen(s)})]
  <2> HIDE DEF Val
  <2>1. ASSUME NEW u \in SUBSET T, u # T PROVE h[u] = Val(u)
    <3>1. \E g : IsFold(f, u, g)
      BY <1>1, <2>1
    <3> DEFINE g == CHOOSE g : IsFold(f, u, g)
    <3>2. IsFold(f, u, g) /\ Val(u) = g[u]
      BY <3>1 DEF Val
    <3> HIDE DEF g
    <3>3. g = [s \in SUBSET u |-> Step(f, g, s)]
      BY <3>2 DEF IsFold
    <3>4. g[u] = Step(f, g, u)
      BY <3>3
    <3>5. CASE u = {}
      BY <3>2, <3>4, <3>5 DEF Step
    <3>6. CASE u # {}
      <4> DEFINE v == u \ {Chosen(u)}
      <4>1. Chosen(u) \in u /\ v \in SUBSET T /\ v # T /\ v \subseteq u
        BY <3>6, ChosenIn
      <4> HIDE DEF v
      <4>2. \E k : IsFold(f, v, k)
        BY <1>1, <4>1
      <4>3. PICK k : IsFold(f, v, k) /\ Val(v) = k[v]
        BY <4>2 DEF Val
      <4>4. IsFiniteSet(v)
        BY <4>1, FS_Subset
      <4>5. k[v] = g[v]
        BY <3>2, <4>1, <4>3, <4>4, FoldAgrees
      <4> QED
        BY <3>2, <3>4, <3>6, <4>3, <4>5 DEF Step, v
    <3> QED
      BY <3>5, <3>6
  <2>2. ASSUME NEW s \in SUBSET T PROVE h[s] = Step(f, h, s)
    <3>1. CASE s = {}
      BY <3>1 DEF Step
    <3>2. CASE s # {}
      <4>1. Chosen(s) \in s
        BY <3>2, ChosenIn
      <4>2. s \ {Chosen(s)} \in SUBSET T /\ s \ {Chosen(s)} # T
        BY <4>1
      <4>3. h[s \ {Chosen(s)}] = Val(s \ {Chosen(s)})
        BY <2>1, <4>2
      <4> QED
        BY <3>2, <4>3 DEF Step
    <3> QED
      BY <3>1, <3>2
  <2>3. IsFold(f, T, h)
    <3>1. h = [s \in SUBSET T |-> h[s]]
      OBVIOUS
    <3> HIDE DEF h
    <3> QED
      BY <2>2, <3>1 DEF IsFold
  <2> QED
    BY <2>3
<1>2. SUBSET S \subseteq C
  <2> HIDE DEF C
  <2> QED
    BY <1>1, SubsetInduction
<1> QED
  BY <1>2

LEMMA SumEmpty == ASSUME NEW f PROVE SumFunctionOnSet(f, {}) = 0
<1>1. PICK g : IsFold(f, {}, g) /\ SumFunctionOnSet(f, {}) = g[{}]
  BY FoldExists, FS_EmptySet, SumDefinition
<1>2. g = [s \in SUBSET {} |-> Step(f, g, s)]
  BY <1>1 DEF IsFold
<1>3. g[{}] = Step(f, g, {})
  BY <1>2
<1> QED
  BY <1>1, <1>3 DEF Step

LEMMA SumChosen ==
    ASSUME NEW f, NEW S, IsFiniteSet(S), S # {}
    PROVE  SumFunctionOnSet(f, S) =
               f[Chosen(S)] + SumFunctionOnSet(f, S \ {Chosen(S)})
<1> DEFINE v == S \ {Chosen(S)}
<1>1. PICK g : IsFold(f, S, g) /\ SumFunctionOnSet(f, S) = g[S]
  BY FoldExists, SumDefinition
<1>2. IsFiniteSet(v) /\ v \subseteq S
  BY FS_RemoveElement
<1> HIDE DEF v
<1>3. PICK h : IsFold(f, v, h) /\ SumFunctionOnSet(f, v) = h[v]
  BY <1>2, FoldExists, SumDefinition
<1>4. h[v] = g[v]
  BY <1>1, <1>2, <1>3, FoldAgrees
<1>5. g = [s \in SUBSET S |-> Step(f, g, s)]
  BY <1>1 DEF IsFold
<1>6. g[S] = Step(f, g, S)
  BY <1>5
<1> QED
  BY <1>1, <1>3, <1>4, <1>6 DEF Step, v
-----------------------------------------------------------------------------
(***************************************************************************)
(* Adding numbers.                                                         *)
(***************************************************************************)
Numbers(f, S) == \A x \in S : f[x] \in Nat

LEMMA SumType ==
    ASSUME NEW f, NEW S, IsFiniteSet(S), Numbers(f, S)
    PROVE  SumFunctionOnSet(f, S) \in Nat
<1> DEFINE C == {T \in SUBSET S : SumFunctionOnSet(f, T) \in Nat}
<1>1. ASSUME NEW T \in SUBSET S, \A U \in SUBSET T : U # T => U \in C
      PROVE  T \in C
  <2>1. CASE T = {}
    BY <2>1, SumEmpty
  <2>2. CASE T # {}
    <3>1. Chosen(T) \in T /\ T \ {Chosen(T)} \in C
      BY <1>1, <2>2, ChosenIn
    <3>2. f[Chosen(T)] \in Nat
      BY <3>1 DEF Numbers
    <3>3. IsFiniteSet(T)
      BY FS_Subset
    <3> QED
      BY <2>2, <3>1, <3>2, <3>3, SumChosen
  <2> QED
    BY <2>1, <2>2
<1>2. SUBSET S \subseteq C
  <2> HIDE DEF C
  <2> QED
    BY <1>1, SubsetInduction
<1> QED
  BY <1>2

\* The order of the terms makes no difference.
LEMMA SumRemove ==
    ASSUME NEW f, NEW S, IsFiniteSet(S), Numbers(f, S), NEW x \in S
    PROVE  SumFunctionOnSet(f, S) = f[x] + SumFunctionOnSet(f, S \ {x})
<1> DEFINE C == {T \in SUBSET S : \A y \in T :
                     SumFunctionOnSet(f, T) = f[y] + SumFunctionOnSet(f, T \ {y})}
<1>1. ASSUME NEW T \in SUBSET S, \A U \in SUBSET T : U # T => U \in C
      PROVE  T \in C
  <2> SUFFICES ASSUME NEW y \in T
               PROVE  SumFunctionOnSet(f, T) = f[y] + SumFunctionOnSet(f, T \ {y})
    OBVIOUS
  <2> DEFINE p == Chosen(T)
  <2>1. p \in T /\ IsFiniteSet(T)
    BY ChosenIn, FS_Subset
  <2>2. SumFunctionOnSet(f, T) = f[p] + SumFunctionOnSet(f, T \ {p})
    BY <2>1, SumChosen
  <2> HIDE DEF p
  <2>3. CASE y = p
    BY <2>2, <2>3
  <2>4. CASE y # p
    <3>1. T \ {p} \in C /\ T \ {y} \in C /\ y \in T \ {p} /\ p \in T \ {y}
      BY <1>1, <2>1, <2>4
    <3>2. (T \ {p}) \ {y} = (T \ {y}) \ {p}
      OBVIOUS
    <3> DEFINE r == SumFunctionOnSet(f, (T \ {y}) \ {p})
    <3>3. SumFunctionOnSet(f, T \ {p}) = f[y] + r /\ SumFunctionOnSet(f, T \ {y}) = f[p] + r
      BY <3>1, <3>2
    <3>4. r \in Nat /\ f[y] \in Nat /\ f[p] \in Nat
      <4>1. IsFiniteSet((T \ {y}) \ {p})
        BY <2>1, FS_RemoveElement
      <4>2. Numbers(f, (T \ {y}) \ {p})
        BY DEF Numbers
      <4> QED
        BY <2>1, <4>1, <4>2, SumType DEF Numbers
    <3> HIDE DEF r
    <3> QED
      BY <2>2, <3>3, <3>4
  <2> QED
    BY <2>3, <2>4
<1>2. SUBSET S \subseteq C
  <2> HIDE DEF C
  <2> QED
    BY <1>1, SubsetInduction
<1> QED
  BY <1>2

LEMMA SumAdd ==
    ASSUME NEW f, NEW S, IsFiniteSet(S), NEW x, x \notin S, Numbers(f, S \cup {x})
    PROVE  SumFunctionOnSet(f, S \cup {x}) = f[x] + SumFunctionOnSet(f, S)
<1>1. IsFiniteSet(S \cup {x}) /\ (S \cup {x}) \ {x} = S
  BY FS_AddElement
<1> QED
  BY <1>1, SumRemove

LEMMA SumSame ==
    ASSUME NEW f, NEW g, NEW S, IsFiniteSet(S), \A x \in S : f[x] = g[x]
    PROVE  SumFunctionOnSet(f, S) = SumFunctionOnSet(g, S)
<1> DEFINE C == {T \in SUBSET S : SumFunctionOnSet(f, T) = SumFunctionOnSet(g, T)}
<1>1. ASSUME NEW T \in SUBSET S, \A U \in SUBSET T : U # T => U \in C
      PROVE  T \in C
  <2>1. CASE T = {}
    BY <2>1, SumEmpty
  <2>2. CASE T # {}
    <3>1. Chosen(T) \in T /\ T \ {Chosen(T)} \in C
      BY <1>1, <2>2, ChosenIn
    <3>2. IsFiniteSet(T) /\ f[Chosen(T)] = g[Chosen(T)]
      BY <3>1, FS_Subset
    <3>3. /\ SumFunctionOnSet(f, T) = f[Chosen(T)] + SumFunctionOnSet(f, T \ {Chosen(T)})
          /\ SumFunctionOnSet(g, T) = g[Chosen(T)] + SumFunctionOnSet(g, T \ {Chosen(T)})
      BY <2>2, <3>2, SumChosen
    <3> QED
      BY <3>1, <3>2, <3>3
  <2> QED
    BY <2>1, <2>2
<1>2. SUBSET S \subseteq C
  <2> HIDE DEF C
  <2> QED
    BY <1>1, SubsetInduction
<1> QED
  BY <1>2

LEMMA SumBelow ==
    ASSUME NEW f, NEW g, NEW S, IsFiniteSet(S), Numbers(f, S), Numbers(g, S),
           \A x \in S : f[x] <= g[x]
    PROVE  SumFunctionOnSet(f, S) <= SumFunctionOnSet(g, S)
<1> DEFINE C == {T \in SUBSET S : SumFunctionOnSet(f, T) <= SumFunctionOnSet(g, T)}
<1>1. ASSUME NEW T \in SUBSET S, \A U \in SUBSET T : U # T => U \in C
      PROVE  T \in C
  <2>1. CASE T = {}
    BY <2>1, SumEmpty
  <2>2. CASE T # {}
    <3> DEFINE x == Chosen(T)
               U == T \ {x}
    <3>1. x \in T /\ U \in C
      BY <1>1, <2>2, ChosenIn
    <3>2. IsFiniteSet(T) /\ IsFiniteSet(U) /\ Numbers(f, U) /\ Numbers(g, U)
      BY FS_Subset DEF Numbers
    <3>3. /\ SumFunctionOnSet(f, T) = f[x] + SumFunctionOnSet(f, U)
          /\ SumFunctionOnSet(g, T) = g[x] + SumFunctionOnSet(g, U)
      BY <2>2, <3>2, SumChosen
    <3>4. SumFunctionOnSet(f, U) \in Nat /\ SumFunctionOnSet(g, U) \in Nat
      BY <3>2, SumType
    <3>5. f[x] \in Nat /\ g[x] \in Nat /\ f[x] <= g[x]
      BY <3>1 DEF Numbers
    <3> HIDE DEF x, U
    <3>6. SumFunctionOnSet(f, T) <= SumFunctionOnSet(g, T)
      BY <3>1, <3>3, <3>4, <3>5
    <3> QED
      BY <3>6
  <2> QED
    BY <2>1, <2>2
<1>2. SUBSET S \subseteq C
  <2> HIDE DEF C
  <2> QED
    BY <1>1, SubsetInduction
<1> QED
  BY <1>2

LEMMA SumZero ==
    ASSUME NEW f, NEW S, IsFiniteSet(S), \A x \in S : f[x] = 0
    PROVE  SumFunctionOnSet(f, S) = 0
<1> DEFINE C == {T \in SUBSET S : SumFunctionOnSet(f, T) = 0}
<1>1. ASSUME NEW T \in SUBSET S, \A U \in SUBSET T : U # T => U \in C
      PROVE  T \in C
  <2>1. CASE T = {}
    BY <2>1, SumEmpty
  <2>2. CASE T # {}
    <3>1. Chosen(T) \in T /\ T \ {Chosen(T)} \in C
      BY <1>1, <2>2, ChosenIn
    <3>2. IsFiniteSet(T) /\ f[Chosen(T)] = 0
      BY <3>1, FS_Subset
    <3> QED
      BY <2>2, <3>1, <3>2, SumChosen
  <2> QED
    BY <2>1, <2>2
<1>2. SUBSET S \subseteq C
  <2> HIDE DEF C
  <2> QED
    BY <1>1, SubsetInduction
<1> QED
  BY <1>2

\* Terms that are zero may be left out.
LEMMA SumExtend ==
    ASSUME NEW f, NEW S, IsFiniteSet(S), Numbers(f, S), NEW P,
           \A x \in S : x \notin P => f[x] = 0
    PROVE  SumFunctionOnSet(f, S) = SumFunctionOnSet(f, S \cap P)
<1> DEFINE C == {T \in SUBSET S : SumFunctionOnSet(f, T) = SumFunctionOnSet(f, T \cap P)}
<1>1. ASSUME NEW T \in SUBSET S, \A U \in SUBSET T : U # T => U \in C
      PROVE  T \in C
  <2>1. CASE T = {}
    <3>1. T \cap P = T
      BY <2>1
    <3> QED
      BY <3>1
  <2>2. CASE T # {}
    <3> DEFINE x == Chosen(T)
               U == T \ {x}
    <3>1. x \in T /\ U \in SUBSET S /\ SumFunctionOnSet(f, U) = SumFunctionOnSet(f, U \cap P)
      BY <1>1, <2>2, ChosenIn
    <3>2. IsFiniteSet(T) /\ IsFiniteSet(U \cap P) /\ Numbers(f, T) /\ f[x] \in Nat
      BY <3>1, FS_Subset DEF Numbers
    <3>3. SumFunctionOnSet(f, T) = f[x] + SumFunctionOnSet(f, U)
      BY <3>1, <3>2, SumRemove
    <3>4. SumFunctionOnSet(f, U \cap P) \in Nat
      <4>1. Numbers(f, U \cap P)
        BY DEF Numbers
      <4> QED
        BY <3>2, <4>1, SumType
    <3> HIDE DEF x
    <3>5. CASE x \in P
      <4> DEFINE V == U \cap P
      <4>1. T \cap P = V \cup {x} /\ x \notin V /\ Numbers(f, V \cup {x})
        BY <3>1, <3>5 DEF Numbers
      <4>2. IsFiniteSet(V)
        BY <3>2
      <4> HIDE DEF V
      <4>3. SumFunctionOnSet(f, V \cup {x}) = f[x] + SumFunctionOnSet(f, V)
        BY <4>1, <4>2, SumAdd
      <4> QED
        BY <3>1, <3>3, <4>1, <4>3 DEF V
    <3>6. CASE x \notin P
      <4>1. T \cap P = U \cap P /\ f[x] = 0
        BY <3>1, <3>6
      <4>2. SumFunctionOnSet(f, T \cap P) = SumFunctionOnSet(f, U \cap P)
        BY <4>1
      <4> QED
        BY <3>1, <3>3, <3>4, <4>1, <4>2
    <3> QED
      BY <3>5, <3>6
  <2> QED
    BY <2>1, <2>2
<1>2. SUBSET S \subseteq C
  <2> HIDE DEF C
  <2> QED
    BY <1>1, SubsetInduction
<1> QED
  BY <1>2

\* One term grows.
LEMMA SumChange ==
    ASSUME NEW f, NEW g, NEW S, IsFiniteSet(S), Numbers(f, S), NEW x \in S, NEW d \in Nat,
           g[x] = d + f[x], \A y \in S : y # x => g[y] = f[y]
    PROVE  SumFunctionOnSet(g, S) = d + SumFunctionOnSet(f, S)
<1>1. IsFiniteSet(S \ {x}) /\ Numbers(f, S \ {x}) /\ Numbers(g, S) /\ f[x] \in Nat
  BY FS_RemoveElement DEF Numbers
<1>2. SumFunctionOnSet(f, S \ {x}) = SumFunctionOnSet(g, S \ {x})
  BY <1>1, SumSame
<1>3. /\ SumFunctionOnSet(f, S) = f[x] + SumFunctionOnSet(f, S \ {x})
      /\ SumFunctionOnSet(g, S) = g[x] + SumFunctionOnSet(g, S \ {x})
  BY <1>1, SumRemove
<1>4. SumFunctionOnSet(f, S \ {x}) \in Nat
  BY <1>1, SumType
<1> QED
  BY <1>1, <1>2, <1>3, <1>4

\* The sum of the sums of the parts into which a key divides a set.
Part(k, S, i) == {x \in S : k[x] = i}

LEMMA SumParts ==
    ASSUME NEW f, NEW S, IsFiniteSet(S), Numbers(f, S),
           NEW K, IsFiniteSet(K), NEW k \in [S -> K],
           NEW a, \A i \in K : a[i] = SumFunctionOnSet(f, Part(k, S, i))
    PROVE  SumFunctionOnSet(a, K) = SumFunctionOnSet(f, S)
<1> DEFINE of(T) == [i \in K |-> SumFunctionOnSet(f, Part(k, T, i))]
           C == {T \in SUBSET S : SumFunctionOnSet(of(T), K) = SumFunctionOnSet(f, T)}
<1>1. \A T \in SUBSET S : \A i \in K : of(T)[i] = SumFunctionOnSet(f, Part(k, T, i))
  OBVIOUS
<1> HIDE DEF of
<1>2. ASSUME NEW T \in SUBSET S, \A U \in SUBSET T : U # T => U \in C
      PROVE  T \in C
  <2>1. CASE T = {}
    <3>1. \A i \in K : Part(k, T, i) = {}
      BY <2>1 DEF Part
    <3>2. \A i \in K : of(T)[i] = 0
      <4>1. SumFunctionOnSet(f, {}) = 0
        BY SumEmpty
      <4>2. \A i \in K : SumFunctionOnSet(f, Part(k, T, i)) = 0
        BY <3>1, <4>1
      <4> QED
        BY <1>1, <4>2
    <3> QED
      BY <2>1, <3>2, SumZero, SumEmpty
  <2>2. CASE T # {}
    <3> DEFINE x == Chosen(T)
               U == T \ {x}
    <3>1. x \in T /\ U \in SUBSET S /\ SumFunctionOnSet(of(U), K) = SumFunctionOnSet(f, U)
      BY <1>2, <2>2, ChosenIn
    <3> HIDE DEF x
    <3>2. IsFiniteSet(T) /\ IsFiniteSet(U) /\ Numbers(f, T) /\ k[x] \in K /\ f[x] \in Nat
      BY <3>1, FS_Subset DEF Numbers
    <3>3. \A i \in K : IsFiniteSet(Part(k, U, i)) /\ Numbers(f, Part(k, U, i))
      BY <3>1, FS_Subset DEF Part, Numbers
    <3>4. Numbers(of(U), K)
      <4>1. \A i \in K : SumFunctionOnSet(f, Part(k, U, i)) \in Nat
        BY <3>3, SumType
      <4> QED
        BY <1>1, <3>1, <4>1 DEF Numbers
    <3>5. of(T)[k[x]] = f[x] + of(U)[k[x]]
      <4>1. Part(k, T, k[x]) = Part(k, U, k[x]) \cup {x} /\ x \notin Part(k, U, k[x])
        BY <3>1 DEF Part
      <4>2. Numbers(f, Part(k, U, k[x]) \cup {x})
        BY <3>2, <3>3 DEF Numbers
      <4>3. SumFunctionOnSet(f, Part(k, T, k[x]))
                = f[x] + SumFunctionOnSet(f, Part(k, U, k[x]))
        <5> DEFINE P == Part(k, U, k[x])
        <5>1. IsFiniteSet(P) /\ x \notin P /\ Numbers(f, P \cup {x})
          BY <3>2, <3>3, <4>1, <4>2
        <5> HIDE DEF P
        <5>2. SumFunctionOnSet(f, P \cup {x}) = f[x] + SumFunctionOnSet(f, P)
          BY <5>1, SumAdd
        <5> QED
          BY <4>1, <5>2 DEF P
      <4> QED
        BY <1>1, <3>1, <3>2, <4>3
    <3>6. \A i \in K : i # k[x] => of(T)[i] = of(U)[i]
      <4>1. \A i \in K : i # k[x] => Part(k, T, i) = Part(k, U, i)
        BY DEF Part
      <4> QED
        BY <1>1, <3>1, <4>1
    <3>7. SumFunctionOnSet(of(T), K) = f[x] + SumFunctionOnSet(of(U), K)
      <4> DEFINE b == of(T)
                 c == of(U)
                 j == k[x]
      <4>1. /\ Numbers(c, K) /\ j \in K /\ b[j] = f[x] + c[j]
            /\ \A i \in K : i # j => b[i] = c[i]
        BY <3>2, <3>4, <3>5, <3>6
      <4> HIDE DEF b, c, j
      <4>2. SumFunctionOnSet(b, K) = f[x] + SumFunctionOnSet(c, K)
        BY <3>2, <4>1, SumChange
      <4> QED
        BY <4>2 DEF b, c
    <3>8. SumFunctionOnSet(f, T) = f[x] + SumFunctionOnSet(f, U)
      BY <3>1, <3>2, SumRemove
    <3> QED
      BY <3>1, <3>7, <3>8
  <2> QED
    BY <2>1, <2>2
<1>3. SUBSET S \subseteq C
  <2> HIDE DEF C
  <2> QED
    BY <1>2, SubsetInduction
<1>4. SumFunctionOnSet(a, K) = SumFunctionOnSet(of(S), K)
  BY <1>1, SumSame
<1> QED
  BY <1>3, <1>4
=============================================================================
