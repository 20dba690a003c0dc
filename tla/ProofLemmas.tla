----------------------------- MODULE ProofLemmas ------------------------------
(***************************************************************************)
(* Facts that the proofs about several modules rest on: the arithmetic of  *)
(* the indexes of a ring of n slots, of which one stays empty (the two     *)
(* rings of HardwareSerial), quotients and remainders, of which the        *)
(* provers know little, sums over finite sets, and what folds over         *)
(* sequences come to.                                                      *)
(***************************************************************************)
EXTENDS Integers, FiniteSetsExt, FiniteSetTheorems, WellFoundedInduction, TLAPS

(***************************************************************************)
(* The ring. The facts are stated by cases on the wrap.                    *)
(***************************************************************************)

\* The slot that follows slot i.
After(n, i) == (i + 1) % n

\* The number of bytes from the tail t up to the head h.
Between(n, h, t) == (n + h - t) % n

\* The slot of the k-th of the bytes that begin at the tail t.
Place(n, t, k) == (t + k - 1) % n

\* Below the size, the modulus changes nothing.
LEMMA ModSmall ==
  ASSUME NEW n \in Nat \ {0}, NEW x \in 0 .. n - 1
  PROVE  x % n = x
BY Z3

\* Between the size and twice the size, it subtracts the size once.
LEMMA ModWrap ==
  ASSUME NEW n \in Nat \ {0}, NEW x \in n .. 2 * n - 1
  PROVE  x % n = x - n
BY Z3

\* The next slot is the following one, or the first after the last.
LEMMA AfterCases ==
  ASSUME NEW n \in Nat \ {0}, NEW i \in 0 .. n - 1
  PROVE  /\ After(n, i) \in 0 .. n - 1
         /\ i < n - 1 => After(n, i) = i + 1
         /\ i = n - 1 => After(n, i) = 0
<1>1. CASE i < n - 1
  <2>1. i + 1 \in 0 .. n - 1
    BY <1>1
  <2> QED
    BY <1>1, <2>1, ModSmall DEF After
<1>2. CASE i = n - 1
  <2>1. i + 1 \in n .. 2 * n - 1
    BY <1>2
  <2> QED
    BY <1>2, <2>1, ModWrap DEF After
<1> QED
  BY <1>1, <1>2

LEMMA BetweenCases ==
  ASSUME NEW n \in Nat \ {0}, NEW h \in 0 .. n - 1, NEW t \in 0 .. n - 1
  PROVE  /\ Between(n, h, t) \in 0 .. n - 1
         /\ h >= t => Between(n, h, t) = h - t
         /\ h < t => Between(n, h, t) = n + h - t
<1>1. CASE h >= t
  <2>1. n + h - t \in n .. 2 * n - 1
    BY <1>1
  <2> QED
    BY <1>1, <2>1, ModWrap DEF Between
<1>2. CASE h < t
  <2>1. n + h - t \in 0 .. n - 1
    BY <1>2
  <2> QED
    BY <1>2, <2>1, ModSmall DEF Between
<1> QED
  BY <1>1, <1>2

\* Moving the head one slot on adds one byte, unless the ring was full.
LEMMA BetweenHead ==
  ASSUME NEW n \in Nat \ {0}, NEW h \in 0 .. n - 1, NEW t \in 0 .. n - 1,
         After(n, h) # t
  PROVE  /\ Between(n, After(n, h), t) = Between(n, h, t) + 1
         /\ Between(n, h, t) < n - 1
<1> DEFINE a == After(n, h)
<1>1. /\ a \in 0 .. n - 1
      /\ h < n - 1 => a = h + 1
      /\ h = n - 1 => a = 0
  BY AfterCases
<1>2. /\ a >= t => Between(n, a, t) = a - t
      /\ a < t => Between(n, a, t) = n + a - t
  BY <1>1, BetweenCases
<1>3. /\ h >= t => Between(n, h, t) = h - t
      /\ h < t => Between(n, h, t) = n + h - t
  BY BetweenCases
<1> HIDE DEF a
<1>4. a # t
  BY DEF a
<1>5. /\ Between(n, a, t) = Between(n, h, t) + 1
      /\ Between(n, h, t) < n - 1
  BY <1>1, <1>2, <1>3, <1>4
<1> QED
  BY <1>5 DEF a

\* A head just behind the tail means n - 1 bytes.
LEMMA BetweenFull ==
  ASSUME NEW n \in Nat \ {0}, NEW h \in 0 .. n - 1, NEW t \in 0 .. n - 1,
         After(n, h) = t
  PROVE  Between(n, h, t) = n - 1
<1>1. /\ h < n - 1 => t = h + 1
      /\ h = n - 1 => t = 0
  BY AfterCases
<1>2. /\ h >= t => Between(n, h, t) = h - t
      /\ h < t => Between(n, h, t) = n + h - t
  BY BetweenCases
<1> QED
  BY <1>1, <1>2

\* Moving the tail one slot on takes one byte away, unless there was none.
LEMMA BetweenTail ==
  ASSUME NEW n \in Nat \ {0}, NEW h \in 0 .. n - 1, NEW t \in 0 .. n - 1,
         h # t
  PROVE  /\ Between(n, h, After(n, t)) = Between(n, h, t) - 1
         /\ Between(n, h, t) > 0
<1> DEFINE a == After(n, t)
<1>1. /\ a \in 0 .. n - 1
      /\ t < n - 1 => a = t + 1
      /\ t = n - 1 => a = 0
  BY AfterCases
<1>2. /\ h >= a => Between(n, h, a) = h - a
      /\ h < a => Between(n, h, a) = n + h - a
  BY <1>1, BetweenCases
<1>3. /\ h >= t => Between(n, h, t) = h - t
      /\ h < t => Between(n, h, t) = n + h - t
  BY BetweenCases
<1> HIDE DEF a
<1>4. /\ Between(n, h, a) = Between(n, h, t) - 1
      /\ Between(n, h, t) > 0
  BY <1>1, <1>2, <1>3
<1> QED
  BY <1>4 DEF a

LEMMA PlaceCases ==
  ASSUME NEW n \in Nat \ {0}, NEW t \in 0 .. n - 1, NEW k \in 1 .. n
  PROVE  /\ Place(n, t, k) \in 0 .. n - 1
         /\ t + k - 1 < n => Place(n, t, k) = t + k - 1
         /\ t + k - 1 >= n => Place(n, t, k) = t + k - 1 - n
<1>1. CASE t + k - 1 < n
  <2>1. t + k - 1 \in 0 .. n - 1
    BY <1>1
  <2> QED
    BY <1>1, <2>1, ModSmall DEF Place
<1>2. CASE t + k - 1 >= n
  <2>1. t + k - 1 \in n .. 2 * n - 1
    BY <1>2
  <2> QED
    BY <1>2, <2>1, ModWrap DEF Place
<1> QED
  BY <1>1, <1>2

\* The slot after the last byte is the head; no earlier one is.
LEMMA PlaceHead ==
  ASSUME NEW n \in Nat \ {0}, NEW h \in 0 .. n - 1, NEW t \in 0 .. n - 1
  PROVE  /\ Place(n, t, Between(n, h, t) + 1) = h
         /\ \A k \in 1 .. Between(n, h, t) : Place(n, t, k) # h
<1> DEFINE d == Between(n, h, t)
<1>1. /\ d \in 0 .. n - 1
      /\ h >= t => d = h - t
      /\ h < t => d = n + h - t
  BY BetweenCases
<1> HIDE DEF d
<1>2. Place(n, t, d + 1) = h
  <2>1. d + 1 \in 1 .. n
    BY <1>1
  <2>2. /\ t + (d + 1) - 1 < n => Place(n, t, d + 1) = t + (d + 1) - 1
        /\ t + (d + 1) - 1 >= n => Place(n, t, d + 1) = t + (d + 1) - 1 - n
    BY <2>1, PlaceCases
  <2> QED
    BY <1>1, <2>2
<1>3. ASSUME NEW k \in 1 .. d PROVE Place(n, t, k) # h
  <2>1. k \in 1 .. n
    BY <1>1
  <2>2. /\ t + k - 1 < n => Place(n, t, k) = t + k - 1
        /\ t + k - 1 >= n => Place(n, t, k) = t + k - 1 - n
    BY <2>1, PlaceCases
  <2> QED
    BY <1>1, <2>2
<1> QED
  BY <1>2, <1>3 DEF d

\* Counting from the next tail is counting one further from this one.
LEMMA PlaceNext ==
  ASSUME NEW n \in Nat \ {0}, NEW t \in 0 .. n - 1, NEW k \in 1 .. n - 1
  PROVE  Place(n, After(n, t), k) = Place(n, t, k + 1)
<1> DEFINE a == After(n, t)
<1>1. /\ a \in 0 .. n - 1
      /\ t < n - 1 => a = t + 1
      /\ t = n - 1 => a = 0
  BY AfterCases
<1> HIDE DEF a
<1>2. k \in 1 .. n /\ k + 1 \in 1 .. n
  OBVIOUS
<1>3. /\ a + k - 1 < n => Place(n, a, k) = a + k - 1
      /\ a + k - 1 >= n => Place(n, a, k) = a + k - 1 - n
  BY <1>1, <1>2, PlaceCases
<1>4. /\ t + (k + 1) - 1 < n => Place(n, t, k + 1) = t + (k + 1) - 1
      /\ t + (k + 1) - 1 >= n => Place(n, t, k + 1) = t + (k + 1) - 1 - n
  BY <1>2, PlaceCases
<1>5. Place(n, a, k) = Place(n, t, k + 1)
  BY <1>1, <1>3, <1>4
<1> QED
  BY <1>5 DEF a

(***************************************************************************)
(* Quotients, remainders and products.                                     *)
(***************************************************************************)

\* Products grow with their factors.
LEMMA ProductBounds ==
  ASSUME NEW a \in Nat, NEW b \in Nat, NEW c \in Nat, NEW d \in Nat, a <= c, b <= d
  PROVE  a * b <= c * d /\ a * b \in Nat
<1>1. a * b <= c * b
  BY SMT
<1>2. c * b <= c * d
  BY SMT
<1>3. a * b \in Nat /\ c * b \in Nat /\ c * d \in Nat
  BY SMT
<1> QED BY <1>1, <1>2, <1>3

\* Quotient and remainder give the number back.
LEMMA DivLaw ==
  ASSUME NEW n \in Int, NEW r \in Nat \ {0}
  PROVE  n = r * (n \div r) + (n % r) /\ n \div r \in Int /\ n % r \in 0 .. r - 1
<1>1. n = (n \div r) * r + (n % r)
  BY SMTT(60)
<1>2. n \div r \in Int /\ n % r \in 0 .. r - 1
  BY SMT
<1> DEFINE q == n \div r
           m == n % r
<1>3. n = q * r + m /\ q \in Int /\ m \in 0 .. r - 1
  BY <1>1, <1>2, Zenon
<1> HIDE DEF q, m
<1>4. q * r = r * q
  BY <1>3, SMT
<1>5. n = r * q + m
  BY <1>3, SMT
<1> QED BY <1>3, <1>5 DEF q, m

\* There is one quotient and one remainder.
LEMMA DivUnique ==
  ASSUME NEW r \in Nat \ {0}, NEW q \in Int, NEW m \in 0 .. r - 1
  PROVE  (r * q + m) \div r = q /\ (r * q + m) % r = m
<1> DEFINE n == r * q + m
           k == n \div r
           j == n % r
<1>1. r * q \in Int /\ n \in Int
  BY SMT
<1>2. n = r * k + j /\ k \in Int /\ j \in 0 .. r - 1
  BY <1>1, DivLaw
<1>3. n = r * q + m
  OBVIOUS
<1> HIDE DEF n, k, j
<1>4. r * k \in Int
  BY <1>2, SMT
<1>5. ~(k < q)
  <2> SUFFICES ASSUME k < q PROVE FALSE
    OBVIOUS
  <2>1. r * (k + 1) <= r * q /\ r * (k + 1) = r * k + r
    BY <1>2, SMT
  <2> QED BY <2>1, <1>1, <1>2, <1>3, <1>4
<1>6. ~(q < k)
  <2> SUFFICES ASSUME q < k PROVE FALSE
    OBVIOUS
  <2>1. r * (q + 1) <= r * k /\ r * (q + 1) = r * q + r
    BY <1>2, SMT
  <2> QED BY <2>1, <1>1, <1>2, <1>3, <1>4
<1>7. k = q
  BY <1>2, <1>5, <1>6
<1>8. j = m
  BY <1>1, <1>2, <1>3, <1>7
<1> QED BY <1>7, <1>8 DEF k, j, n

\* A difference of two indexes or times, modulo their range.
LEMMA DifferenceMod ==
  ASSUME NEW w \in Nat \ {0}, NEW x \in 0 .. w - 1, NEW y \in 0 .. w - 1
  PROVE  (x + w - y) % w = IF x < y THEN x + w - y ELSE x - y
<1>1. CASE x < y
  <2>1. x + w - y \in 0 .. w - 1 BY <1>1
  <2> QED BY <2>1, <1>1
<1>2. CASE ~(x < y)
  <2>1. x - y \in 0 .. w - 1 BY <1>2
  <2>2. (x - y + w) % w = (x - y) % w BY <2>1
  <2>3. (x - y) % w = x - y BY <2>1
  <2>4. x + w - y = x - y + w OBVIOUS
  <2> QED BY <2>2, <2>3, <2>4, <1>2
<1> QED BY <1>1, <1>2

\* A sum of two indexes or times, modulo their range.
LEMMA SumMod ==
  ASSUME NEW w \in Nat \ {0}, NEW x \in 0 .. w - 1, NEW t \in 0 .. w - 1
  PROVE  (x + t) % w = IF x + t < w THEN x + t ELSE x + t - w
<1>1. CASE x + t < w
  <2>1. x + t \in 0 .. w - 1 BY <1>1
  <2> QED BY <2>1, <1>1
<1>2. CASE ~(x + t < w)
  <2>1. x + t - w \in 0 .. w - 1 BY <1>2
  <2>2. (x + t - w + w) % w = (x + t - w) % w BY <2>1
  <2>3. (x + t - w) % w = x + t - w BY <2>1
  <2>4. x + t = x + t - w + w OBVIOUS
  <2> QED BY <2>2, <2>3, <2>4, <1>2
<1> QED BY <1>1, <1>2

(***************************************************************************)
(* Sums over finite sets, and the induction they need: the library's rule  *)
(* for finite sets takes a predicate, this one a set of sets.              *)
(***************************************************************************)

\* Induction over the subsets of a finite set, with a set in the place of the predicate.
LEMMA SubsetInduction ==
  ASSUME NEW S, IsFiniteSet(S), NEW G,
         \A T \in SUBSET S : (\A U \in SUBSET T : U # T => U \in G) => T \in G
  PROVE  SUBSET S \subseteq G
<1> SUFFICES ASSUME ~(SUBSET S \subseteq G) PROVE FALSE
  OBVIOUS
<1> DEFINE B == {T \in SUBSET S : T \notin G}
<1>1. B \subseteq FiniteSubsetsOf(S) /\ B # {}
  BY FS_FiniteSubsetsOfFinite
<1>2. IsWellFoundedOn(StrictSubsetOrdering(S), FiniteSubsetsOf(S))
  BY FS_StrictSubsetOrderingWellFounded
<1> HIDE DEF B
<1>3. \E T \in B : \A U \in B : <<U, T>> \notin StrictSubsetOrdering(S)
  BY <1>1, <1>2, WFMin
<1>4. PICK T \in B : \A U \in B : <<U, T>> \notin StrictSubsetOrdering(S)
  BY <1>3
<1>5. T \in SUBSET S /\ T \notin G
  BY DEF B
<1>6. ASSUME NEW U \in SUBSET T, U # T PROVE U \in G
  <2>1. <<U, T>> \in StrictSubsetOrdering(S)
    BY <1>5, <1>6 DEF StrictSubsetOrdering
  <2> QED BY <2>1, <1>4, <1>5 DEF B
<1> QED BY <1>5, <1>6

\* Which element a sum over s takes first.
First(s) == CHOOSE x \in s : TRUE
\* The equation of a sum of f over the subsets of S.
Sums(S, f) ==
  {g \in [SUBSET S -> Nat] :
     \A s \in SUBSET S : g[s] = IF s = {} THEN 0 ELSE f[First(s)] + g[s \ {First(s)}]}

LEMMA FirstIn == \A s : s # {} => First(s) \in s
BY DEF First

\* It has one solution at most.
LEMMA SumsAgree ==
  ASSUME NEW S, IsFiniteSet(S), NEW f, NEW U \in SUBSET S, NEW V \in SUBSET S,
         NEW g \in Sums(U, f), NEW h \in Sums(V, f)
  PROVE  \A s \in SUBSET S : s \subseteq U /\ s \subseteq V => g[s] = h[s]
<1> DEFINE G == {s \in SUBSET S : s \subseteq U /\ s \subseteq V => g[s] = h[s]}
<1>1. ASSUME NEW T \in SUBSET S, \A W \in SUBSET T : W # T => W \in G
      PROVE  T \in G
  <2> SUFFICES ASSUME T \subseteq U, T \subseteq V PROVE g[T] = h[T]
    OBVIOUS
  <2>1. CASE T = {}
    BY <2>1 DEF Sums
  <2>2. CASE T # {}
    <3>1. T \ {First(T)} \in SUBSET T /\ T \ {First(T)} # T
      BY <2>2, FirstIn
    <3>2. g[T \ {First(T)}] = h[T \ {First(T)}]
      BY <3>1, <1>1
    <3> QED BY <3>2, <2>2 DEF Sums
  <2> QED BY <2>1, <2>2
<1> HIDE DEF G
<1>2. SUBSET S \subseteq G
  BY <1>1, SubsetInduction
<1> QED BY <1>2 DEF G

\* And it has one.
LEMMA SumsExist ==
  ASSUME NEW S, IsFiniteSet(S), NEW f, \A x \in S : f[x] \in Nat
  PROVE  Sums(S, f) # {}
<1> DEFINE G == {T \in SUBSET S : Sums(T, f) # {}}
<1>1. ASSUME NEW T \in SUBSET S, \A U \in SUBSET T : U # T => U \in G
      PROVE  T \in G
  <2> DEFINE part(s) == CHOOSE g : g \in Sums(s, f)
             at(s)   == IF s = {} THEN 0
                        ELSE f[First(s)] + part(s \ {First(s)})[s \ {First(s)}]
             h       == [s \in SUBSET T |-> at(s)]
  <2>1. ASSUME NEW s \in SUBSET T, s # T
        PROVE  part(s) \in Sums(s, f)
    BY <1>1, <2>1
  <2>2. ASSUME NEW s \in SUBSET T, s # {}
        PROVE  /\ First(s) \in s /\ s \ {First(s)} \in SUBSET s
               /\ s \ {First(s)} \in SUBSET T /\ s \ {First(s)} # T
    BY <2>2, FirstIn
  <2> HIDE DEF part
  <2>3. ASSUME NEW s \in SUBSET T, s # {}
        PROVE  part(s \ {First(s)})[s \ {First(s)}] \in Nat
    <3> DEFINE r == s \ {First(s)}
    <3>1. part(r) \in Sums(r, f)
      BY <2>1, <2>2, <2>3
    <3> HIDE DEF r
    <3>2. part(r)[r] \in Nat
      BY <3>1 DEF Sums
    <3> QED BY <3>2 DEF r
  <2>4. \A s \in SUBSET T : at(s) \in Nat
    BY <2>2, <2>3
  <2>5. ASSUME NEW s \in SUBSET T, s # T
        PROVE  at(s) = part(s)[s]
    <3>1. part(s) \in Sums(s, f)
      BY <2>1, <2>5
    <3>2. CASE s = {}
      BY <3>1, <3>2 DEF Sums
    <3>3. CASE s # {}
      <4> DEFINE r == s \ {First(s)}
      <4>1. r \in SUBSET s /\ r \in SUBSET T /\ r # T
        BY <2>2, <3>3
      <4>2. part(r) \in Sums(r, f)
        BY <2>1, <4>1
      <4>3. IsFiniteSet(T) 
        BY FS_Subset
      <4>4. part(r)[r] = part(s)[r]
        BY <3>1, <4>1, <4>2, <4>3, SumsAgree
      <4>5. part(s)[s] = f[First(s)] + part(s)[r]
        BY <3>1, <3>3 DEF Sums
      <4> QED BY <4>4, <4>5, <3>3
    <3> QED BY <3>2, <3>3
  <2>6. h \in [SUBSET T -> Nat]
    BY <2>4
  <2>7. ASSUME NEW s \in SUBSET T
        PROVE  h[s] = IF s = {} THEN 0 ELSE f[First(s)] + h[s \ {First(s)}]
    <3>1. CASE s = {}
      BY <3>1
    <3>2. CASE s # {}
      <4>1. h[s \ {First(s)}] = part(s \ {First(s)})[s \ {First(s)}]
        BY <2>2, <2>5, <3>2
      <4> QED BY <4>1, <3>2
    <3> QED BY <3>1, <3>2
  <2> HIDE DEF h
  <2>8. h \in Sums(T, f)
    BY <2>6, <2>7 DEF Sums
  <2> QED BY <2>8
<1> HIDE DEF G
<1>2. SUBSET S \subseteq G
  BY <1>1, SubsetInduction
<1> QED BY <1>2 DEF G

\* The sum as the model writes it.
SumOf(f, S) == MapThenSumSet(LAMBDA i : f[i], S)

\* So the sum of natural numbers over a finite set is the solution's value at the set.
LEMMA SumOver ==
  ASSUME NEW S, IsFiniteSet(S), NEW f, \A x \in S : f[x] \in Nat
  PROVE  \E g \in Sums(S, f) : SumOf(f, S) = g[S]
<1> DEFINE Body(g) == [s \in SUBSET S |->
                         IF s = {} THEN 0 ELSE f[First(s)] + g[s \ {First(s)}]]
           it == CHOOSE g : g = Body(g)
<1>1. SumOf(f, S) = it[S]
  BY DEF SumOf, MapThenSumSet, MapThenFoldSet, First
<1>2. PICK g : g \in Sums(S, f)
  BY SumsExist
<1>3. g = Body(g)
  <2>1. g = [s \in SUBSET S |-> g[s]]
    BY <1>2 DEF Sums
  <2>2. \A s \in SUBSET S : g[s] = IF s = {} THEN 0 ELSE f[First(s)] + g[s \ {First(s)}]
    BY <1>2 DEF Sums
  <2> QED BY <2>1, <2>2
<1>4. it = Body(it)
  BY <1>3
<1> HIDE DEF it
<1>5. it \in Sums(S, f)
  <2> DEFINE G == {s \in SUBSET S : it[s] \in Nat}
  <2>1. \A s \in SUBSET S : it[s] = IF s = {} THEN 0 ELSE f[First(s)] + it[s \ {First(s)}]
    BY <1>4
  <2>2. ASSUME NEW T \in SUBSET S, \A U \in SUBSET T : U # T => U \in G
        PROVE  T \in G
    <3>1. CASE T = {}
      <4>1. it[T] = 0
        BY <2>1, <3>1
      <4> QED BY <4>1
    <3>2. CASE T # {}
      <4>1. First(T) \in T /\ T \ {First(T)} \in SUBSET T /\ T \ {First(T)} # T
        BY <3>2, FirstIn
      <4>2. it[T \ {First(T)}] \in Nat
        BY <4>1, <2>2
      <4> QED BY <4>1, <4>2, <2>1, <3>2
    <3> QED BY <3>1, <3>2
  <2> HIDE DEF G
  <2>3. SUBSET S \subseteq G
    BY <2>2, SubsetInduction
  <2>4. it \in [SUBSET S -> Nat]
    BY <1>4, <2>3 DEF G
  <2> QED BY <2>1, <2>4 DEF Sums
<1> QED BY <1>1, <1>5

\* A sum of natural numbers is one; it is at least the number of its terms times a bound
\* below all of them, and 0 if all of them are.
LEMMA SumBounds ==
  ASSUME NEW S, IsFiniteSet(S), NEW f, \A x \in S : f[x] \in Nat
  PROVE  /\ SumOf(f, S) \in Nat
         /\ (\A x \in S : f[x] = 0) => SumOf(f, S) = 0
         /\ \A m \in Nat : (\A x \in S : f[x] >= m) => SumOf(f, S) >= m * Cardinality(S)
<1>1. PICK g \in Sums(S, f) : SumOf(f, S) = g[S]
  BY SumOver
<1>2. \A T \in SUBSET S : g[T] = IF T = {} THEN 0 ELSE f[First(T)] + g[T \ {First(T)}]
  BY DEF Sums
<1>3. \A T \in SUBSET S : g[T] \in Nat
  BY DEF Sums
<1>4. ASSUME \A x \in S : f[x] = 0 PROVE SumOf(f, S) = 0
  <2> DEFINE G == {T \in SUBSET S : g[T] = 0}
  <2>1. ASSUME NEW T \in SUBSET S, \A U \in SUBSET T : U # T => U \in G
        PROVE  T \in G
    <3>1. CASE T = {}
      BY <3>1, <1>2
    <3>2. CASE T # {}
      <4>1. First(T) \in T
        BY <3>2, FirstIn
      <4>2. T \ {First(T)} \in G
        BY <4>1, <2>1
      <4>3. g[T] = f[First(T)] + g[T \ {First(T)}]
        BY <1>2, <3>2
      <4>4. f[First(T)] = 0 /\ g[T \ {First(T)}] = 0
        BY <4>1, <4>2, <1>4
      <4> QED BY <4>3, <4>4
    <3> QED BY <3>1, <3>2
  <2> HIDE DEF G
  <2>2. SUBSET S \subseteq G
    BY <2>1, SubsetInduction
  <2> QED BY <2>2, <1>1 DEF G
<1>5. ASSUME NEW m \in Nat, \A x \in S : f[x] >= m PROVE SumOf(f, S) >= m * Cardinality(S)
  <2> DEFINE G == {T \in SUBSET S : g[T] >= m * Cardinality(T)}
  <2>1. ASSUME NEW T \in SUBSET S, \A U \in SUBSET T : U # T => U \in G
        PROVE  T \in G
    <3>1. CASE T = {}
      <4>1. m * Cardinality(T) = 0
        BY <3>1, FS_EmptySet
      <4> QED BY <4>1, <3>1, <1>2
    <3>2. CASE T # {}
      <4> DEFINE R == T \ {First(T)}
      <4>1. First(T) \in T
        BY <3>2, FirstIn
      <4>2. R \in G
        BY <4>1, <2>1
      <4>3. g[T] = f[First(T)] + g[R]
        BY <1>2, <3>2
      <4>4. IsFiniteSet(T)
        BY FS_Subset
      <4>5. Cardinality(R) = Cardinality(T) - 1 /\ Cardinality(T) \in Nat /\ Cardinality(R) \in Nat
        BY <4>1, <4>4, FS_RemoveElement, FS_CardinalityType
      <4>6. m * Cardinality(T) = m * Cardinality(R) + m /\ m * Cardinality(R) \in Nat
        BY <4>5, Z3
      <4>7. g[R] >= m * Cardinality(R) /\ f[First(T)] >= m /\ f[First(T)] \in Nat /\ g[R] \in Nat
        BY <4>1, <4>2, <1>3, <1>5
      <4> HIDE DEF R
      <4>8. g[T] >= m * Cardinality(T)
        BY <4>3, <4>6, <4>7
      <4> QED BY <4>8
    <3> QED BY <3>1, <3>2
  <2> HIDE DEF G
  <2>2. SUBSET S \subseteq G
    BY <2>1, SubsetInduction
  <2> QED BY <2>2, <1>1 DEF G
<1> QED BY <1>1, <1>3, <1>4, <1>5

\* A sum does not depend on which term is taken first.
LEMMA SumPick ==
  ASSUME NEW S, IsFiniteSet(S), NEW f, \A x \in S : f[x] \in Nat, NEW a \in S
  PROVE  SumOf(f, S) = f[a] + SumOf(f, S \ {a})
<1>1. PICK g \in Sums(S, f) : SumOf(f, S) = g[S]
  BY SumOver
<1>2. /\ \A T \in SUBSET S : g[T] \in Nat
      /\ \A T \in SUBSET S : T # {} => g[T] = f[First(T)] + g[T \ {First(T)}]
  BY DEF Sums
<1> DEFINE G == {T \in SUBSET S : \A x \in T : g[T] = f[x] + g[T \ {x}]}
<1>3. ASSUME NEW T \in SUBSET S, \A U \in SUBSET T : U # T => U \in G
      PROVE  T \in G
  <2> SUFFICES ASSUME NEW x \in T PROVE g[T] = f[x] + g[T \ {x}]
    OBVIOUS
  <2> DEFINE y == First(T)
  <2>1. y \in T /\ g[T] = f[y] + g[T \ {y}]
    BY <1>2, FirstIn
  <2> HIDE DEF y
  <2>2. CASE x = y
    BY <2>1, <2>2
  <2>3. CASE x # y
    <3> DEFINE U == T \ {x}
               V == T \ {y}
               W == T \ {x, y}
    <3>1. U \in SUBSET T /\ U # T /\ V \in SUBSET T /\ V # T /\ W \in SUBSET S
      BY <2>1
    <3>2. U \in G /\ V \in G /\ y \in U /\ x \in V
      BY <3>1, <1>3, <2>1, <2>3
    <3>3. g[U] = f[y] + g[U \ {y}] /\ g[V] = f[x] + g[V \ {x}]
      BY <3>2
    <3>4. U \ {y} = W /\ V \ {x} = W
      OBVIOUS
    <3>5. f[x] \in Nat /\ f[y] \in Nat /\ g[W] \in Nat
      BY <2>1, <3>1, <1>2
    <3>6. g[T] = f[y] + g[V]
      BY <2>1
    <3> HIDE DEF U, V, W
    <3>7. g[T] = f[x] + g[U]
      BY ONLY <3>3, <3>4, <3>5, <3>6
    <3> QED BY <3>7 DEF U
  <2> QED BY <2>2, <2>3
<1> HIDE DEF G
<1>4. S \in G
  BY <1>3, SubsetInduction
<1>5. g[S] = f[a] + g[S \ {a}]
  BY <1>4 DEF G
<1>6. SumOf(f, S \ {a}) = g[S \ {a}]
  <2> DEFINE R == S \ {a}
  <2>1. R \in SUBSET S /\ IsFiniteSet(R) /\ \A x \in R : f[x] \in Nat
    BY FS_Subset
  <2> HIDE DEF R
  <2>2. PICK h \in Sums(R, f) : SumOf(f, R) = h[R]
    BY <2>1, SumOver
  <2>3. h[R] = g[R]
    BY <2>1, SumsAgree
  <2> QED BY <2>2, <2>3 DEF R
<1> QED BY <1>1, <1>5, <1>6

\* Ten times all terms make ten times the sum.
LEMMA SumTenfold ==
  ASSUME NEW S, IsFiniteSet(S), NEW f, NEW h, \A x \in S : f[x] \in Nat /\ h[x] = 10 * f[x]
  PROVE  SumOf(f, S) \in Nat /\ SumOf(h, S) = 10 * SumOf(f, S)
<1>1. PICK p \in Sums(S, f) : SumOf(f, S) = p[S]
  BY SumOver
<1>2. PICK q \in Sums(S, h) : SumOf(h, S) = q[S]
  <2>1. \A x \in S : h[x] \in Nat
    OBVIOUS
  <2> QED BY <2>1, SumOver
<1>3. /\ \A T \in SUBSET S : p[T] \in Nat
      /\ \A T \in SUBSET S : p[T] = IF T = {} THEN 0 ELSE f[First(T)] + p[T \ {First(T)}]
  BY DEF Sums
<1>4. /\ \A T \in SUBSET S : q[T] \in Nat
      /\ \A T \in SUBSET S : q[T] = IF T = {} THEN 0 ELSE h[First(T)] + q[T \ {First(T)}]
  BY DEF Sums
<1> DEFINE G == {T \in SUBSET S : q[T] = 10 * p[T]}
<1>5. ASSUME NEW T \in SUBSET S, \A U \in SUBSET T : U # T => U \in G
      PROVE  T \in G
  <2> SUFFICES q[T] = 10 * p[T]
    OBVIOUS
  <2>1. CASE T = {}
    <3>1. p[T] = 0
      BY <1>3, <2>1
    <3>2. q[T] = 0
      BY <1>4, <2>1
    <3> QED BY <3>1, <3>2
  <2>2. CASE T # {}
    <3> DEFINE y == First(T)
               R == T \ {y}
    <3>1. y \in T
      BY <2>2, FirstIn
    <3>2. R \in SUBSET T /\ R # T /\ R \in SUBSET S
      BY <3>1
    <3>3. q[R] = 10 * p[R] /\ p[R] \in Nat
      BY <3>2, <1>3, <1>5
    <3>4. p[T] = f[y] + p[R] /\ q[T] = h[y] + q[R]
      BY <1>3, <1>4, <2>2
    <3>5. f[y] \in Nat /\ h[y] = 10 * f[y]
      BY <3>1
    <3> HIDE DEF y, R
    <3> QED BY ONLY <3>3, <3>4, <3>5
  <2> QED BY <2>1, <2>2
<1> HIDE DEF G
<1>6. S \in G
  BY <1>5, SubsetInduction
<1> QED BY <1>1, <1>2, <1>3, <1>6 DEF G

\* Four numbers that differ are four.
LEMMA FourNumbers ==
  ASSUME NEW a, NEW b, NEW c, NEW d, a # b, a # c, a # d, b # c, b # d, c # d
  PROVE  IsFiniteSet({a, b, c, d}) /\ Cardinality({a, b, c, d}) = 4
<1>1. IsFiniteSet({a}) /\ Cardinality({a}) = 1
  BY FS_Singleton
<1>2. {a, b} = {a} \cup {b} /\ {a, b, c} = {a, b} \cup {c} /\ {a, b, c, d} = {a, b, c} \cup {d}
  OBVIOUS
<1>3. IsFiniteSet({a, b}) /\ Cardinality({a, b}) = 2
  BY <1>1, <1>2, FS_AddElement
<1>4. IsFiniteSet({a, b, c}) /\ Cardinality({a, b, c}) = 3
  BY <1>2, <1>3, FS_AddElement
<1> QED BY <1>2, <1>4, FS_AddElement

(***************************************************************************)
(* The least and the greatest of a set of numbers, counting up, and folds  *)
(* over the numbers up to n, of which the community modules make those     *)
(* over sequences: that the equation of a fold has a solution.             *)
(***************************************************************************)

\* A set of natural numbers has a least element, ...
LEMMA LeastExists ==
  ASSUME NEW T \in SUBSET Nat, T # {}
  PROVE  \E m \in T : \A y \in T : m <= y
<1>1. IsWellFoundedOn(OpToRel(<, Nat), Nat)
  BY NatLessThanWellFounded
<1>2. \E m \in T : \A y \in T : <<y, m>> \notin OpToRel(<, Nat)
  <2>1. PICK x : x \in T OBVIOUS
  <2> QED BY <1>1, <2>1, WFMin
<1>3. PICK m \in T : \A y \in T : <<y, m>> \notin OpToRel(<, Nat)
  BY <1>2
<1>4. ASSUME NEW y \in T PROVE m <= y
  <2>1. <<y, m>> \notin OpToRel(<, Nat)
    BY <1>3
  <2>2. ~(y < m)
    BY <2>1 DEF OpToRel
  <2> QED BY <2>2
<1> QED BY <1>4

\* ... which Min finds, and if it is bounded a greatest one, which Max finds.
LEMMA MinFinds ==
  ASSUME NEW T \in SUBSET Nat, T # {}
  PROVE  Min(T) \in T /\ \A y \in T : Min(T) <= y
BY LeastExists DEF Min

LEMMA MaxFinds ==
  ASSUME NEW T \in SUBSET Nat, T # {}, NEW b \in Nat, \A x \in T : x <= b
  PROVE  Max(T) \in T /\ \A y \in T : y <= Max(T)
<1> DEFINE U == {b - x : x \in T}
<1>1. U \in SUBSET Nat /\ U # {}
  <2>1. \A x \in T : b - x \in Nat
    OBVIOUS
  <2>2. PICK x : x \in T
    OBVIOUS
  <2>3. b - x \in U
    BY <2>2
  <2> QED BY <2>1, <2>3
<1>2. PICK m \in U : \A y \in U : m <= y
  BY <1>1, LeastExists
<1>3. PICK x \in T : m = b - x
  BY <1>2
<1>4. ASSUME NEW y \in T PROVE x >= y
  <2>1. b - y \in U
    OBVIOUS
  <2>2. b - x <= b - y
    BY <2>1, <1>2, <1>3
  <2> QED BY <2>2
<1>5. \E z \in T : \A y \in T : z >= y
  BY <1>4
<1>6. Max(T) \in T /\ \A y \in T : Max(T) >= y
  BY <1>5, Zenon DEF Max
<1> QED BY <1>6

LEMMA MaxIs ==
  ASSUME NEW T \in SUBSET Nat, NEW m \in T, \A y \in T : y <= m
  PROVE  Max(T) = m
<1>1. \E z \in T : \A y \in T : z >= y
  OBVIOUS
<1>2. Max(T) \in T /\ \A y \in T : Max(T) >= y
  BY <1>1, Zenon DEF Max
<1>3. Max(T) \in Nat /\ m \in Nat /\ Max(T) >= m /\ Max(T) <= m
  BY <1>2
<1> QED BY <1>3

\* The greatest of a set of numbers up to n.
LEMMA GreatestIn ==
  ASSUME NEW n \in Nat, NEW s \in SUBSET (1 .. n + 1)
  PROVE  /\ n + 1 \in s => Max(s) = n + 1
         /\ n + 1 \notin s => s \in SUBSET (1 .. n)
<1>1. s \in SUBSET Nat /\ \A y \in s : y <= n + 1
  OBVIOUS
<1>2. n + 1 \in s => Max(s) = n + 1
  BY <1>1, MaxIs
<1>3. n + 1 \notin s => s \in SUBSET (1 .. n)
  OBVIOUS
<1> QED BY <1>2, <1>3

\* Induction up to a number, with a set in the place of the predicate.
LEMMA CountUp ==
  ASSUME NEW n \in Nat, NEW G, 0 \in G, \A k \in 0 .. n : k < n /\ k \in G => k + 1 \in G
  PROVE  \A k \in 0 .. n : k \in G
<1> DEFINE T == {k \in 0 .. n : k \notin G}
<1> SUFFICES ASSUME T # {} PROVE FALSE
  OBVIOUS
<1>1. T \in SUBSET Nat
  OBVIOUS
<1> HIDE DEF T
<1>2. PICK k \in T : \A y \in T : k <= y
  BY <1>1, LeastExists
<1>3. k \in 0 .. n /\ k \notin G
  BY <1>2 DEF T
<1>4. k # 0 /\ k - 1 \in 0 .. n /\ k - 1 < n /\ k - 1 + 1 = k /\ ~(k <= k - 1)
  BY <1>3
<1>5. k - 1 \in G
  BY <1>2, <1>4 DEF T
<1> QED BY <1>3, <1>4, <1>5

\* The greatest of some numbers up to n is one of them.
LEMMA GreatestIsIn ==
  ASSUME NEW n \in Nat, NEW t \in SUBSET (1 .. n), t # {}
  PROVE  Max(t) \in t /\ Max(t) \in 1 .. n
<1>1. t \in SUBSET Nat /\ \A y \in t : y <= n
  OBVIOUS
<1>2. Max(t) \in t
  BY <1>1, MaxFinds
<1> QED BY <1>2

\* The equation of a fold over the numbers up to n, taken from the greatest of a set.
SolvesFold(g, F, base, n) ==
  \A s \in SUBSET (1 .. n) : g[s] = IF s = {} THEN base ELSE F[Max(s)][g[s \ {Max(s)}]]

\* A fold has a solution, whatever it folds.
LEMMA FoldExists ==
  ASSUME NEW n \in Nat, NEW V, NEW base \in V, NEW F,
         \A v \in V, i \in 1 .. n : F[i][v] \in V
  PROVE  \E g \in [SUBSET (1 .. n) -> V] : SolvesFold(g, F, base, n)
<1> SUFFICES ASSUME ~\E g \in [SUBSET (1 .. n) -> V] : SolvesFold(g, F, base, n) PROVE FALSE
  OBVIOUS
<1> DEFINE T == {k \in 0 .. n : ~\E g \in [SUBSET (1 .. k) -> V] : SolvesFold(g, F, base, k)}
<1>1. T \in SUBSET Nat /\ n \in T
  <2>1. n \in 0 .. n /\ 0 .. n \subseteq Nat
    OBVIOUS
  <2>2. n \in T
    BY <2>1, Zenon
  <2>3. T \subseteq 0 .. n
    OBVIOUS
  <2> HIDE DEF T
  <2> QED BY <2>1, <2>2, <2>3
<1> HIDE DEF T
<1>2. PICK k \in T : \A y \in T : k <= y
  BY <1>1, LeastExists
<1>3. k \in 0 .. n /\ ~\E g \in [SUBSET (1 .. k) -> V] : SolvesFold(g, F, base, k)
  BY <1>2 DEF T
<1>4. k # 0
  <2> SUFFICES ASSUME k = 0 PROVE FALSE
    OBVIOUS
  <2> DEFINE g == [s \in SUBSET (1 .. 0) |-> base]
  <2>1. 1 .. 0 = {}
    OBVIOUS
  <2>2. \A s \in SUBSET (1 .. 0) : s = {} /\ g[s] = base
    BY <2>1
  <2>3. g \in [SUBSET (1 .. 0) -> V]
    OBVIOUS
  <2> HIDE DEF g
  <2>4. SolvesFold(g, F, base, 0)
    BY <2>2, Zenon DEF SolvesFold
  <2> QED BY <2>3, <2>4, <1>3
<1>5. k - 1 \in 0 .. n /\ k - 1 \notin T /\ k - 1 + 1 = k
  <2>1. k - 1 \in 0 .. n /\ ~(k <= k - 1) /\ k - 1 + 1 = k
    BY <1>3, <1>4
  <2> QED BY <2>1, <1>2
<1>6. PICK h \in [SUBSET (1 .. k - 1) -> V] : SolvesFold(h, F, base, k - 1)
  BY <1>5 DEF T
<1> DEFINE g == [s \in SUBSET (1 .. k) |-> IF k \in s THEN F[k][h[s \ {k}]] ELSE h[s]]
<1>7. ASSUME NEW s \in SUBSET (1 .. k), k \in s
      PROVE  s \ {k} \in SUBSET (1 .. k - 1) /\ Max(s) = k
  <2>1. k - 1 \in Nat
    BY <1>5
  <2>2. Max(s) = k
    BY <1>5, <1>7, <2>1, GreatestIn
  <2>3. s \ {k} \in SUBSET (1 .. k - 1)
    BY <1>3
  <2> QED BY <2>2, <2>3
<1>8. ASSUME NEW s \in SUBSET (1 .. k), k \notin s
      PROVE  s \in SUBSET (1 .. k - 1)
  BY <1>3, <1>8
<1>9. g \in [SUBSET (1 .. k) -> V]
  <2>1. \A s \in SUBSET (1 .. k) : (IF k \in s THEN F[k][h[s \ {k}]] ELSE h[s]) \in V
    <3> SUFFICES ASSUME NEW s \in SUBSET (1 .. k)
                 PROVE  (IF k \in s THEN F[k][h[s \ {k}]] ELSE h[s]) \in V
      OBVIOUS
    <3>1. CASE k \in s
      <4>1. h[s \ {k}] \in V
        BY <1>6, <1>7, <3>1
      <4>2. k \in 1 .. n
        BY <1>3, <1>4
      <4> QED BY <4>1, <4>2, <3>1
    <3>2. CASE k \notin s
      BY <1>6, <1>8, <3>2
    <3> QED BY <3>1, <3>2
  <2> QED BY <2>1
<1>10. \A s \in SUBSET (1 .. k) : g[s] = IF k \in s THEN F[k][h[s \ {k}]] ELSE h[s]
  OBVIOUS
<1> HIDE DEF g
<1>11. SolvesFold(g, F, base, k)
  <2> SUFFICES ASSUME NEW s \in SUBSET (1 .. k)
               PROVE  g[s] = IF s = {} THEN base ELSE F[Max(s)][g[s \ {Max(s)}]]
    BY DEF SolvesFold
  <2>1. CASE k \in s
    <3>1. s \ {k} \in SUBSET (1 .. k) /\ k \notin s \ {k} /\ Max(s) = k /\ s # {}
      BY <1>7, <2>1
    <3>2. g[s \ {k}] = h[s \ {k}]
      BY <3>1, <1>10
    <3>3. g[s] = F[k][h[s \ {k}]]
      BY <2>1, <1>10
    <3> QED BY <3>1, <3>2, <3>3
  <2>2. CASE k \notin s
    <3>1. s \in SUBSET (1 .. k - 1) /\ g[s] = h[s]
      BY <2>2, <1>8, <1>10
    <3>2. h[s] = IF s = {} THEN base ELSE F[Max(s)][h[s \ {Max(s)}]]
      BY <3>1, <1>6 DEF SolvesFold
    <3>3. ASSUME s # {} PROVE g[s \ {Max(s)}] = h[s \ {Max(s)}]
      <4>1. s \ {Max(s)} \in SUBSET (1 .. k) /\ k \notin s \ {Max(s)}
        BY <2>2
      <4> QED BY <4>1, <1>10
    <3> QED BY <3>1, <3>2, <3>3
  <2> QED BY <2>1, <2>2
<1> QED BY <1>3, <1>9, <1>11

\* The values of a fold on the first numbers, one after the other.
LEMMA FoldSteps ==
  ASSUME NEW n \in Nat, NEW base, NEW F, NEW g, SolvesFold(g, F, base, n)
  PROVE  /\ g[1 .. 0] = base
         /\ \A i \in 1 .. n : g[1 .. i] = F[i][g[1 .. i - 1]]
<1>1. 1 .. 0 = {} /\ 1 .. 0 \in SUBSET (1 .. n)
  OBVIOUS
<1>2. g[1 .. 0] = base
  BY <1>1 DEF SolvesFold
<1>3. ASSUME NEW i \in 1 .. n PROVE g[1 .. i] = F[i][g[1 .. i - 1]]
  <2>1. 1 .. i \in SUBSET (1 .. n) /\ 1 .. i \in SUBSET Nat /\ i \in 1 .. i /\ \A y \in 1 .. i : y <= i
    OBVIOUS
  <2>2. Max(1 .. i) = i
    BY <2>1, MaxIs
  <2>3. (1 .. i) \ {i} = 1 .. i - 1
    OBVIOUS
  <2>4. g[1 .. i] = F[Max(1 .. i)][g[(1 .. i) \ {Max(1 .. i)}]]
    BY <2>1 DEF SolvesFold
  <2> QED BY <2>2, <2>3, <2>4
<1> QED BY <1>2, <1>3

\* Recursion over the natural numbers has a solution.
LEMMA NatRecursion ==
  ASSUME NEW V, NEW base \in V, NEW F, \A v \in V : F[v] \in V
  PROVE  \E h \in [Nat -> V] : h[0] = base /\ \A n \in Nat : h[n + 1] = F[h[n]]
<1> DEFINE Fs(n) == [i \in 1 .. n |-> F]
           Solves(g, n) == g \in [SUBSET (1 .. n) -> V] /\ SolvesFold(g, Fs(n), base, n)
           e(n) == CHOOSE g : Solves(g, n)
           h == [n \in Nat |-> e(n)[1 .. n]]
<1>1. ASSUME NEW n \in Nat PROVE Solves(e(n), n)
  <2>1. \E g : Solves(g, n)
    <3> DEFINE A == Fs(n)
    <3>1. \A v \in V, i \in 1 .. n : A[i][v] \in V
      OBVIOUS
    <3> HIDE DEF A
    <3>2. \E g \in [SUBSET (1 .. n) -> V] : SolvesFold(g, A, base, n)
      BY <3>1, FoldExists
    <3> QED BY <3>2 DEF A
  <2> HIDE DEF Solves
  <2> QED BY <2>1, Zenon
<1> HIDE DEF e
<1>2. ASSUME NEW n \in Nat
      PROVE  /\ e(n)[1 .. 0] = base /\ \A i \in 0 .. n : e(n)[1 .. i] \in V
             /\ \A i \in 1 .. n : e(n)[1 .. i] = F[e(n)[1 .. i - 1]]
  <2> DEFINE A == Fs(n)
             g == e(n)
  <2>1. g \in [SUBSET (1 .. n) -> V] /\ SolvesFold(g, A, base, n)
    BY <1>1
  <2>2. \A i \in 1 .. n : A[i] = F
    OBVIOUS
  <2> HIDE DEF A, g
  <2>3. g[1 .. 0] = base /\ \A i \in 1 .. n : g[1 .. i] = A[i][g[1 .. i - 1]]
    BY <2>1, FoldSteps
  <2>4. \A i \in 0 .. n : 1 .. i \in SUBSET (1 .. n)
    OBVIOUS
  <2>5. \A i \in 0 .. n : g[1 .. i] \in V
    BY <2>1, <2>4
  <2>6. \A i \in 1 .. n : g[1 .. i] = F[g[1 .. i - 1]]
    BY ONLY <2>2, <2>3, Zenon
  <2> QED BY <2>3, <2>5, <2>6 DEF g
<1>3. ASSUME NEW n \in Nat PROVE e(n + 1)[1 .. n] = e(n)[1 .. n]
  <2> DEFINE g == e(n)
             q == e(n + 1)
             G == {i \in 0 .. n : q[1 .. i] = g[1 .. i]}
  <2>1. g[1 .. 0] = base /\ \A i \in 1 .. n : g[1 .. i] = F[g[1 .. i - 1]]
    BY <1>2
  <2>2. q[1 .. 0] = base /\ \A i \in 1 .. n + 1 : q[1 .. i] = F[q[1 .. i - 1]]
    BY <1>2
  <2> HIDE DEF g, q
  <2>3. 0 \in G
    BY <2>1, <2>2
  <2>4. \A k \in 0 .. n : k < n /\ k \in G => k + 1 \in G
    <3> SUFFICES ASSUME NEW k \in 0 .. n, k < n, k \in G PROVE k + 1 \in G
      OBVIOUS
    <3>1. k + 1 \in 1 .. n /\ k + 1 \in 1 .. n + 1 /\ k + 1 \in 0 .. n /\ k + 1 - 1 = k
      OBVIOUS
    <3>2. q[1 .. k] = g[1 .. k]
      OBVIOUS
    <3> DEFINE l == k + 1
    <3>3. g[1 .. l] = F[g[1 .. l - 1]] /\ q[1 .. l] = F[q[1 .. l - 1]] /\ l - 1 = k /\ l \in 0 .. n
      BY <2>1, <2>2, <3>1
    <3> HIDE DEF l
    <3>4. q[1 .. l] = g[1 .. l]
      BY ONLY <3>2, <3>3
    <3> QED BY <3>3, <3>4 DEF l
  <2> HIDE DEF G
  <2>5. n \in G
    BY <2>3, <2>4, CountUp
  <2> QED BY <2>5 DEF G, g, q
<1>4. h \in [Nat -> V] /\ h[0] = base
  <2>1. \A n \in Nat : e(n)[1 .. n] \in V
    BY <1>2
  <2>2. e(0)[1 .. 0] = base
    BY <1>2
  <2> QED BY <2>1, <2>2
<1>5. ASSUME NEW n \in Nat PROVE h[n + 1] = F[h[n]]
  <2>1. n + 1 \in Nat /\ n + 1 \in 1 .. n + 1 /\ n + 1 - 1 = n
    OBVIOUS
  <2>2. h[n + 1] = e(n + 1)[1 .. n + 1] /\ h[n] = e(n)[1 .. n]
    BY <2>1
  <2>3. e(n + 1)[1 .. n + 1] = F[e(n + 1)[1 .. n + 1 - 1]]
    BY <2>1, <1>2
  <2>4. e(n + 1)[1 .. n + 1 - 1] = e(n)[1 .. n]
    BY <2>1, <1>3
  <2> HIDE DEF h
  <2> QED BY ONLY <2>2, <2>3, <2>4
<1> HIDE DEF h
<1> QED BY <1>4, <1>5
==============================================================================
