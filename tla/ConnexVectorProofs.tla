------------------------- MODULE ConnexVectorProofs -------------------------
(***************************************************************************)
(* What the operators of ConnexVector compute, for cells of any number of  *)
(* bits and vectors of any length.                                         *)
(***************************************************************************)
EXTENDS ConnexVector, FiniteSetTheorems, Induction

-----------------------------------------------------------------------------
(***************************************************************************)
(* Division by any positive number.                                        *)
(***************************************************************************)
LEMMA Division ==
    ASSUME NEW v \in Nat \ {0}, NEW a \in Int
    PROVE  /\ a % v \in 0..(v - 1) /\ a \div v \in Int
           /\ a = v * (a \div v) + (a % v)
OBVIOUS

\* Quotient and rest, of a number that is composed of them.
LEMMA DividedUniquely ==
    ASSUME NEW v \in Nat \ {0}, NEW q \in Int, NEW r \in 0..(v - 1)
    PROVE  (v * q + r) % v = r /\ (v * q + r) \div v = q
OBVIOUS

\* A multiple more leaves the same rest.
LEMMA SameRest ==
    ASSUME NEW v \in Nat \ {0}, NEW a \in Int, NEW k \in Int
    PROVE  (a + v * k) % v = a % v /\ (a + v * k) \div v = (a \div v) + k
  <1> DEFINE q == a \div v  r == a % v
  <1>1. q \in Int /\ r \in 0..(v - 1) /\ a = v * q + r
    BY Division
  <1> HIDE DEF q, r
  <1>2. a + v * k = v * (q + k) + r
    BY <1>1
  <1>3. q + k \in Int
    BY <1>1
  <1>4. (v * (q + k) + r) % v = r /\ (v * (q + k) + r) \div v = q + k
    BY <1>1, <1>3, DividedUniquely
  <1> QED BY <1>2, <1>4 DEF q, r

\* A number below the divisor is its own rest.
LEMMA SmallRest ==
    ASSUME NEW v \in Nat \ {0}, NEW a \in 0..(v - 1)
    PROVE  a % v = a /\ a \div v = 0
OBVIOUS

-----------------------------------------------------------------------------
(***************************************************************************)
(* Powers of two, by the number of the subsets of a set.                   *)
(***************************************************************************)
LEMMA PowerIsNat ==
    ASSUME NEW n \in Nat
    PROVE  2^n \in Nat
  <1>1. IsFiniteSet(1..n) /\ Cardinality(1..n) = n
    BY FS_Interval
  <1> QED BY <1>1, FS_SUBSET, FS_CardinalityType

\* The next power of two.
LEMMA PowerDoubles ==
    ASSUME NEW n \in Nat
    PROVE  2^(n + 1) = 2 * 2^n
  <1> DEFINE S == 1..n  T == 1..(n + 1)
             U == {s \in SUBSET T : n + 1 \in s}
  <1>1. IsFiniteSet(S) /\ Cardinality(S) = n /\ IsFiniteSet(T) /\ Cardinality(T) = n + 1
    BY FS_Interval
  <1>2. /\ IsFiniteSet(SUBSET S) /\ Cardinality(SUBSET S) = 2^n
        /\ IsFiniteSet(SUBSET T) /\ Cardinality(SUBSET T) = 2^(n + 1)
    BY <1>1, FS_SUBSET
  <1>3. SUBSET T = (SUBSET S) \cup U /\ (SUBSET S) \cap U = {}
    <2>1. S \subseteq T /\ n + 1 \notin S /\ T \ {n + 1} = S
      OBVIOUS
    <2> QED BY <2>1
  <1>4. IsFiniteSet(U) /\ Cardinality(U) = Cardinality(SUBSET S)
    <2> DEFINE f == [s \in SUBSET S |-> s \cup {n + 1}]
    <2>1. S \subseteq T /\ n + 1 \notin S /\ n + 1 \in T /\ T \ {n + 1} = S
      OBVIOUS
    <2>2. f \in Injection(SUBSET S, U)
      <3>1. f \in [SUBSET S -> U]
        BY <2>1
      <3>2. ASSUME NEW s \in SUBSET S, NEW t \in SUBSET S, f[s] = f[t] PROVE s = t
        <4> DEFINE e == n + 1
        <4>1. s \cup {e} = t \cup {e}
          BY <3>2
        <4>2. e \notin s /\ e \notin t
          BY <2>1
        <4> HIDE DEF e
        <4> HIDE DEF S, f
        <4> QED BY <4>1, <4>2
      <3> HIDE DEF S, U, f
      <3> QED BY <3>1, <3>2 DEF Injection, IsInjective
    <2>3. f \in Surjection(SUBSET S, U)
      <3>1. ASSUME NEW u \in U PROVE \E s \in SUBSET S : f[s] = u
        <4>1. u \ {n + 1} \in SUBSET S /\ (u \ {n + 1}) \cup {n + 1} = u
          BY <2>1
        <4> QED BY <4>1
      <3> QED BY <2>2, <3>1 DEF Surjection, Injection
    <2>4. ExistsBijection(SUBSET S, U)
      BY <2>2, <2>3 DEF Bijection, ExistsBijection
    <2> HIDE DEF S, U
    <2> QED BY <1>2, <2>4, FS_Bijection
  <1>5. Cardinality((SUBSET S) \cup U)
            = Cardinality(SUBSET S) + Cardinality(U) - Cardinality((SUBSET S) \cap U)
    BY <1>2, <1>4, FS_Union
  <1>6. Cardinality((SUBSET S) \cap U) = 0
    BY <1>3, FS_EmptySet
  <1> QED
    <2> DEFINE p == Cardinality(SUBSET S)
    <2>1. p \in Nat
      BY <1>2, FS_CardinalityType
    <2>2. 2^(n + 1) = p + p - 0
      BY <1>2, <1>3, <1>4, <1>5, <1>6
    <2> QED BY <1>2, <2>1, <2>2

\* Every power of two is a positive number.
LEMMA PowerPositive ==
    \A n \in Nat : 2^n \in Nat \ {0}
  <1> DEFINE T == {n \in Nat : 2^n \in Nat \ {0}}
  <1>1. 0 \in T
    <2>1. 2^0 = 1
      OBVIOUS
    <2> QED BY <2>1
  <1>2. ASSUME NEW n \in Nat, n \in T PROVE n + 1 \in T
    BY <1>2, PowerDoubles
  <1>3. \A n \in Nat : n \in T
    <2> HIDE DEF T
    <2> QED BY <1>1, <1>2, SetInduction
  <1> QED BY <1>3

\* The power of a sum is the product of the powers.
LEMMA PowersMultiply ==
    ASSUME NEW m \in Nat
    PROVE  \A n \in Nat : 2^(m + n) = 2^m * 2^n
  <1> DEFINE T == {n \in Nat : 2^(m + n) = 2^m * 2^n}
  <1>1. 0 \in T
    <2>1. 2^0 = 1 /\ m + 0 = m
      OBVIOUS
    <2> QED BY <2>1, PowerPositive
  <1>2. ASSUME NEW n \in Nat, n \in T PROVE n + 1 \in T
    <2> DEFINE p == 2^m  q == 2^n
    <2>1. p \in Nat /\ q \in Nat
      BY PowerPositive
    <2>2. 2^((m + n) + 1) = 2 * 2^(m + n) /\ 2^(n + 1) = 2 * q
      BY PowerDoubles
    <2>3. (m + n) + 1 = m + (n + 1)
      OBVIOUS
    <2>4. 2^(m + n) = p * q
      BY <1>2
    <2> HIDE DEF p, q
    <2>5. 2 * (p * q) = p * (2 * q)
      BY <2>1
    <2>6. 2^(m + (n + 1)) = p * (2 * q)
      BY <2>2, <2>3, <2>4, <2>5
    <2> QED BY <2>2, <2>6 DEF p
  <1>3. \A n \in Nat : n \in T
    <2> HIDE DEF T
    <2> QED BY <1>1, <1>2, SetInduction
  <1> QED BY <1>3

\* A higher exponent does not lower the power.
LEMMA PowersGrow ==
    ASSUME NEW m \in Nat, NEW n \in Nat, m <= n
    PROVE  2^m <= 2^n
  <1> DEFINE p == 2^m  q == 2^(n - m)
  <1>1. n - m \in Nat /\ m + (n - m) = n
    OBVIOUS
  <1>2. p \in Nat /\ q \in Nat \ {0}
    BY <1>1, PowerPositive
  <1>3. 2^n = p * q
    BY <1>1, PowersMultiply
  <1> HIDE DEF p, q
  <1>4. p <= p * q
    BY <1>2
  <1> QED BY <1>3, <1>4 DEF p

-----------------------------------------------------------------------------
(***************************************************************************)
(* Cells and the numbers they stand for.                                   *)
(***************************************************************************)
Half == 2^(RegisterBits - 1)

\* The number of values of a cell (Cell.h) is even: half of them are negative.
LEMMA ValuesEven ==
    /\ Half \in Nat \ {0} /\ Values \in Nat \ {0}
    /\ Values = 2 * Half
    /\ RegisterBits \in Nat
  <1>1. RegisterBits - 1 \in Nat /\ (RegisterBits - 1) + 1 = RegisterBits
    BY VectorAssumption
  <1> QED BY <1>1, PowerPositive, PowerDoubles DEF Half, Values

\* What is stored in a cell is one of its values.
LEMMA CellIsCell ==
    ASSUME NEW n \in Int
    PROVE  Cell(n) \in Cells
BY ValuesEven, Division DEF Cell, Cells

\* A cell stores its own value unchanged.
LEMMA CellOfCell ==
    ASSUME NEW c \in Cells
    PROVE  Cell(c) = c /\ c \in Nat /\ c < Values
BY ValuesEven, SmallRest DEF Cell, Cells

\* A cell and its number differ by none or one times the number of values.
LEMMA SignedRange ==
    ASSUME NEW c \in Cells
    PROVE  /\ Signed(c) \in Int /\ -Half <= Signed(c) /\ Signed(c) < Half
           /\ \E k \in {-1, 0} : Signed(c) = c + Values * k
BY ValuesEven DEF Signed, Cells

\* Conversion back to the element type.
LEMMA CellOfSum ==
    ASSUME NEW a \in Int, NEW k \in Int
    PROVE  Cell(a + Values * k) = Cell(a)
BY ValuesEven, SameRest DEF Cell

\* Storing what a cell reads as, signed, stores the cell.
LEMMA CellOfSigned ==
    ASSUME NEW c \in Cells
    PROVE  Cell(Signed(c)) = c
  <1>1. PICK k \in {-1, 0} : Signed(c) = c + Values * k
    BY SignedRange
  <1>2. c \in Int /\ k \in Int
    BY CellOfCell
  <1> QED BY <1>1, <1>2, CellOfSum, CellOfCell

\* A number that fits is read back from its cell.
LEMMA SignedOfCell ==
    ASSUME NEW n \in Int, -Half <= n, n < Half
    PROVE  Signed(Cell(n)) = n
  <1>1. CASE n >= 0
    <2>1. n \in 0..(Values - 1) /\ 2 * n < Values
      BY <1>1, ValuesEven
    <2> QED BY <2>1, ValuesEven, SmallRest DEF Cell, Signed
  <1>2. CASE n < 0
    <2> DEFINE c == n + Values
    <2>1. c \in 0..(Values - 1) /\ 2 * c >= Values /\ c - Values = n
      BY <1>2, ValuesEven
    <2>2. n = c + Values * (-1)
      BY <2>1, ValuesEven
    <2> HIDE DEF c
    <2>3. c \in Cells
      BY <2>1 DEF Cells
    <2>4. Cell(n) = c
      <3>1. Cell(c + Values * (-1)) = Cell(c)
        BY <2>1, CellOfSum
      <3> QED BY <2>2, <2>3, <3>1, CellOfCell
    <2> QED BY <2>1, <2>4, ValuesEven DEF Signed
  <1> QED BY <1>1, <1>2

\* Cells that read alike are alike.
LEMMA SignedOne ==
    ASSUME NEW c \in Cells, NEW d \in Cells
    PROVE  Signed(c) = Signed(d) <=> c = d
BY CellOfSigned

\* Sums and differences of numbers are those of cells.
LEMMA SumOfCells ==
    ASSUME NEW c \in Cells, NEW d \in Cells
    PROVE  /\ Cell(Signed(c) + Signed(d)) = Cell(c + d)
           /\ Cell(Signed(c) - Signed(d)) = Cell(c - d)
  <1>1. PICK k \in {-1, 0} : Signed(c) = c + Values * k
    BY SignedRange
  <1>2. PICK j \in {-1, 0} : Signed(d) = d + Values * j
    BY SignedRange
  <1>3. c \in Int /\ d \in Int /\ k \in Int /\ j \in Int /\ Values \in Int
    BY CellOfCell, ValuesEven
  <1>4. /\ Signed(c) + Signed(d) = (c + d) + Values * (k + j)
        /\ Signed(c) - Signed(d) = (c - d) + Values * (k - j)
    BY <1>1, <1>2, <1>3
  <1>5. c + d \in Int /\ c - d \in Int /\ k + j \in Int /\ k - j \in Int
    BY <1>3
  <1> QED BY <1>4, <1>5, CellOfSum

\* A cell is added or subtracted before or after another one.
LEMMA CellWithin ==
    ASSUME NEW a \in Int, NEW b \in Int
    PROVE  Cell(Cell(a) + b) = Cell(a + b) /\ Cell(Cell(a) - b) = Cell(a - b)
  <1> DEFINE q == a \div Values
  <1>1. q \in Int /\ Cell(a) \in Int /\ a = Values * q + Cell(a)
    <2>1. Values \in Nat \ {0}
      BY ValuesEven
    <2>2. /\ a % Values \in 0..(Values - 1) /\ a \div Values \in Int
          /\ a = Values * (a \div Values) + (a % Values)
      BY <2>1, Division
    <2> QED BY <2>1, <2>2 DEF Cell
  <1> HIDE DEF q
  <1>2. a + b = (Cell(a) + b) + Values * q /\ a - b = (Cell(a) - b) + Values * q
    BY <1>1, ValuesEven
  <1>3. Cell(a) + b \in Int /\ Cell(a) - b \in Int
    BY <1>1
  <1> QED BY <1>1, <1>2, <1>3, CellOfSum

-----------------------------------------------------------------------------
(***************************************************************************)
(* Sums over finite sets: MapThenSumSet of FiniteSetsExt, for a function.  *)
(***************************************************************************)
SumOver(f, S) == MapThenSumSet(LAMBDA x : f[x], S)

\* What is proved of a set and one element more holds of a finite set.
LEMMA SubsetInduction ==
    ASSUME NEW S, IsFiniteSet(S), NEW T, {} \in T,
           \A s \in SUBSET S : \A x \in S \ s : s \in T => s \cup {x} \in T
    PROVE  S \in T
  <1> DEFINE U == {n \in Nat : \A s \in SUBSET S : Cardinality(s) = n => s \in T}
  <1>1. \A s \in SUBSET S : IsFiniteSet(s) /\ Cardinality(s) \in Nat
    BY FS_Subset, FS_CardinalityType
  <1>2. 0 \in U
    BY <1>1, FS_EmptySet
  <1>3. ASSUME NEW n \in Nat, n \in U PROVE n + 1 \in U
    <2> SUFFICES ASSUME NEW s \in SUBSET S, Cardinality(s) = n + 1 PROVE s \in T
      OBVIOUS
    <2>1. PICK x \in s : TRUE
      BY <1>1, FS_EmptySet
    <2> DEFINE r == s \ {x}
    <2>2. Cardinality(r) = Cardinality(s) - 1
      BY <1>1, <2>1, FS_RemoveElement
    <2>3. r \in SUBSET S /\ Cardinality(r) = n
      BY <2>2
    <2>4. r \in T
      BY <1>3, <2>3
    <2>5. x \in S \ r /\ s = r \cup {x}
      BY <2>1
    <2> HIDE DEF r
    <2> QED BY <2>3, <2>4, <2>5
  <1>4. \A n \in Nat : n \in U
    <2> HIDE DEF U
    <2> QED BY <1>2, <1>3, SetInduction
  <1> QED BY <1>1, <1>4

\* The function that MapThenFoldSet takes its value from.
SumRule(g, f, S) ==
    g = [s \in SUBSET S |->
            IF s = {} THEN 0
            ELSE f[CHOOSE x \in s : TRUE] + g[s \ {CHOOSE x \in s : TRUE}]]

\* The sums over all parts of a finite set are a function.
LEMMA SumRuleExists ==
    ASSUME NEW S, IsFiniteSet(S), NEW f
    PROVE  \E g : SumRule(g, f, S)
  <1> DEFINE Small(n) == {s \in SUBSET S : Cardinality(s) <= n}
             Rule(g, n) ==
                 \A s \in Small(n) :
                     g[s] = IF s = {} THEN 0
                            ELSE f[CHOOSE x \in s : TRUE] + g[s \ {CHOOSE x \in s : TRUE}]
             U == {n \in Nat : \E g : Rule(g, n)}
  <1>1. \A s \in SUBSET S : IsFiniteSet(s) /\ Cardinality(s) \in Nat
    BY FS_Subset, FS_CardinalityType
  <1>2. \A s \in SUBSET S : s # {} =>
            /\ s \ {CHOOSE x \in s : TRUE} \in SUBSET S
            /\ Cardinality(s \ {CHOOSE x \in s : TRUE}) = Cardinality(s) - 1
    BY <1>1, FS_RemoveElement
  <1>3. 0 \in U
    <2>1. \A s \in Small(0) : s = {}
      BY <1>1, FS_EmptySet
    <2>2. Rule([s \in SUBSET S |-> 0], 0)
      BY <2>1
    <2> QED BY <2>2
  <1>4. ASSUME NEW n \in Nat, n \in U PROVE n + 1 \in U
    <2>1. PICK g : Rule(g, n)
      BY <1>4
    <2> DEFINE h == [s \in SUBSET S |->
                        IF s \in Small(n) THEN g[s]
                        ELSE f[CHOOSE x \in s : TRUE] + g[s \ {CHOOSE x \in s : TRUE}]]
    <2>2. ASSUME NEW s \in Small(n + 1), s # {}
          PROVE  h[s] = f[CHOOSE x \in s : TRUE] + h[s \ {CHOOSE x \in s : TRUE}]
      <3> DEFINE c == CHOOSE x \in s : TRUE
      <3>1. s \ {c} \in Small(n)
        BY <1>1, <1>2, <2>2
      <3>2. h[s] = f[c] + g[s \ {c}]
        BY <2>1, <2>2
      <3>3. h[s \ {c}] = g[s \ {c}]
        BY <3>1
      <3> QED BY <3>2, <3>3
    <2>3. h[{}] = 0
      <3>1. {} \in Small(n)
        BY FS_EmptySet
      <3> QED BY <2>1, <3>1
    <2>4. Rule(h, n + 1)
      <3> SUFFICES ASSUME NEW s \in Small(n + 1)
                   PROVE  h[s] = IF s = {} THEN 0
                                 ELSE f[CHOOSE x \in s : TRUE]
                                          + h[s \ {CHOOSE x \in s : TRUE}]
        OBVIOUS
      <3> HIDE DEF h, Small
      <3>1. CASE s = {}
        BY <2>3, <3>1
      <3>2. CASE s # {}
        BY <2>2, <3>2
      <3> QED BY <3>1, <3>2
    <2>5. n + 1 \in Nat /\ \E k : Rule(k, n + 1)
      <3> HIDE DEF h, Rule
      <3> QED BY <2>4
    <2> HIDE DEF Rule
    <2> QED BY <2>5
  <1>5. \A n \in Nat : n \in U
    <2> HIDE DEF U
    <2> QED BY <1>3, <1>4, SetInduction
  <1>6. PICK g : Rule(g, Cardinality(S))
    BY <1>1, <1>5
  <1>7. Small(Cardinality(S)) = SUBSET S
    BY <1>1, FS_Subset
  <1> DEFINE h == [s \in SUBSET S |-> g[s]]
  <1>8. SumRule(h, f, S)
    BY ZenonT(60), <1>2, <1>6, <1>7 DEF SumRule
  <1> QED BY <1>8

\* There is one such function, and for a smaller set the same.
LEMMA SumRuleUnique ==
    ASSUME NEW S, IsFiniteSet(S), NEW R \in SUBSET S, NEW f, NEW e,
           \A x \in R : f[x] = e[x],
           NEW g, SumRule(g, f, S), NEW h, SumRule(h, e, R)
    PROVE  g[R] = h[R]
  <1> DEFINE T == {n \in Nat : \A s \in SUBSET R : Cardinality(s) = n => g[s] = h[s]}
  <1>1. \A s \in SUBSET R :
            s \in SUBSET S /\ IsFiniteSet(s) /\ Cardinality(s) \in Nat
    BY FS_Subset, FS_CardinalityType
  <1>2. \A s \in SUBSET R : s = {} => g[s] = 0 /\ h[s] = 0
    BY <1>1 DEF SumRule
  <1>3. 0 \in T
    BY <1>1, <1>2, FS_EmptySet
  <1>4. ASSUME NEW n \in Nat, n \in T PROVE n + 1 \in T
    <2> SUFFICES ASSUME NEW s \in SUBSET R, Cardinality(s) = n + 1 PROVE g[s] = h[s]
      OBVIOUS
    <2>1. s # {}
      BY FS_EmptySet
    <2> DEFINE c == CHOOSE x \in s : TRUE
    <2>2. c \in s /\ s \ {c} \in SUBSET R
      BY <2>1
    <2>3. Cardinality(s \ {c}) = n
      <3> HIDE DEF c
      <3>1. Cardinality(s \ {c}) = Cardinality(s) - 1
        BY <1>1, <2>2, FS_RemoveElement
      <3> QED BY <3>1
    <2>4. g[s] = f[c] + g[s \ {c}] /\ h[s] = e[c] + h[s \ {c}]
      BY <1>1, <2>1 DEF SumRule
    <2>5. f[c] = e[c] /\ g[s \ {c}] = h[s \ {c}]
      BY <1>4, <2>2, <2>3
    <2> QED BY <2>4, <2>5
  <1>5. \A n \in Nat : n \in T
    <2> HIDE DEF T
    <2> QED BY <1>3, <1>4, SetInduction
  <1> QED BY <1>1, <1>5

\* A sum over a finite set follows that rule.
LEMMA SumOverRule ==
    ASSUME NEW S, IsFiniteSet(S), NEW f
    PROVE  \E g : SumRule(g, f, S) /\ SumOver(f, S) = g[S]
  <1> DEFINE g == CHOOSE g : SumRule(g, f, S)
  <1>1. SumRule(g, f, S)
    BY SumRuleExists
  <1>2. SumOver(f, S) = g[S]
    BY DEF SumOver, MapThenSumSet, MapThenFoldSet, SumRule
  <1> QED BY <1>1, <1>2

\* A sum is known by the values that the function has in the set.
LEMMA SumsAgree ==
    ASSUME NEW S, IsFiniteSet(S), NEW f, NEW e, \A x \in S : f[x] = e[x]
    PROVE  SumOver(f, S) = SumOver(e, S)
  <1>1. PICK g : SumRule(g, f, S) /\ SumOver(f, S) = g[S]
    BY SumOverRule
  <1>2. PICK h : SumRule(h, e, S) /\ SumOver(e, S) = h[S]
    BY SumOverRule
  <1>3. S \in SUBSET S
    OBVIOUS
  <1> QED BY <1>1, <1>2, <1>3, SumRuleUnique

\* The sum over nothing.
LEMMA SumOfNone ==
    ASSUME NEW f
    PROVE  SumOver(f, {}) = 0
  <1>1. IsFiniteSet({})
    BY FS_EmptySet
  <1>2. PICK g : SumRule(g, f, {}) /\ SumOver(f, {}) = g[{}]
    BY <1>1, SumOverRule
  <1> QED BY <1>2 DEF SumRule

\* The element that is chosen first.
LEMMA SumOfChosen ==
    ASSUME NEW S, IsFiniteSet(S), S # {}, NEW f
    PROVE  \E c \in S : SumOver(f, S) = f[c] + SumOver(f, S \ {c})
  <1> DEFINE c == CHOOSE x \in S : TRUE
  <1>1. c \in S /\ S \ {c} \in SUBSET S /\ IsFiniteSet(S \ {c})
    BY FS_Subset
  <1>2. PICK g : SumRule(g, f, S) /\ SumOver(f, S) = g[S]
    BY SumOverRule
  <1>3. PICK h : SumRule(h, f, S \ {c}) /\ SumOver(f, S \ {c}) = h[S \ {c}]
    BY <1>1, SumOverRule
  <1>4. g[S] = f[c] + g[S \ {c}]
    BY <1>2 DEF SumRule
  <1>5. g[S \ {c}] = h[S \ {c}]
    BY <1>1, <1>2, <1>3, SumRuleUnique
  <1> QED BY <1>1, <1>2, <1>3, <1>4, <1>5

\* Sums of integers are integers.
LEMMA SumIsInt ==
    ASSUME NEW S, IsFiniteSet(S), NEW f, \A x \in S : f[x] \in Int
    PROVE  \A s \in SUBSET S : SumOver(f, s) \in Int
  <1> DEFINE T == {n \in Nat : \A s \in SUBSET S : Cardinality(s) = n => SumOver(f, s) \in Int}
  <1>1. \A s \in SUBSET S : IsFiniteSet(s) /\ Cardinality(s) \in Nat
    BY FS_Subset, FS_CardinalityType
  <1>2. 0 \in T
    BY <1>1, FS_EmptySet, SumOfNone
  <1>3. ASSUME NEW n \in Nat, n \in T PROVE n + 1 \in T
    <2> SUFFICES ASSUME NEW s \in SUBSET S, Cardinality(s) = n + 1
                 PROVE  SumOver(f, s) \in Int
      OBVIOUS
    <2>1. s # {} /\ IsFiniteSet(s)
      BY <1>1, FS_EmptySet
    <2>2. PICK c \in s : SumOver(f, s) = f[c] + SumOver(f, s \ {c})
      BY <2>1, SumOfChosen
    <2>3. Cardinality(s \ {c}) = Cardinality(s) - 1
      BY <1>1, <2>2, FS_RemoveElement
    <2>4. s \ {c} \in SUBSET S /\ Cardinality(s \ {c}) = n
      BY <2>3
    <2>5. SumOver(f, s \ {c}) \in Int
      BY <1>3, <2>4
    <2> QED BY <2>2, <2>5
  <1>4. \A n \in Nat : n \in T
    <2> HIDE DEF T
    <2> QED BY <1>2, <1>3, SetInduction
  <1> QED BY <1>1, <1>4

\* Any element may be taken first.
LEMMA SumOfOneAndRest ==
    ASSUME NEW S, IsFiniteSet(S), NEW f, \A x \in S : f[x] \in Int
    PROVE  \A s \in SUBSET S : \A x \in s : SumOver(f, s) = f[x] + SumOver(f, s \ {x})
  <1> DEFINE Any(s) == \A x \in s : SumOver(f, s) = f[x] + SumOver(f, s \ {x})
             T == {n \in Nat : \A s \in SUBSET S : Cardinality(s) = n => Any(s)}
  <1>1. \A s \in SUBSET S : IsFiniteSet(s) /\ Cardinality(s) \in Nat
    BY FS_Subset, FS_CardinalityType
  <1>2. 0 \in T
    BY <1>1, FS_EmptySet
  <1>3. ASSUME NEW n \in Nat, n \in T PROVE n + 1 \in T
    <2> SUFFICES ASSUME NEW s \in SUBSET S, Cardinality(s) = n + 1, NEW x \in s
                 PROVE  SumOver(f, s) = f[x] + SumOver(f, s \ {x})
      OBVIOUS
    <2>1. s # {} /\ IsFiniteSet(s)
      BY <1>1
    <2>2. PICK c \in s : SumOver(f, s) = f[c] + SumOver(f, s \ {c})
      BY <2>1, SumOfChosen
    <2>3. CASE c = x
      BY <2>2, <2>3
    <2>4. CASE c # x
      <3> DEFINE both == (s \ {c}) \ {x}
      <3>1. \A y \in s : s \ {y} \in SUBSET S /\ Cardinality(s \ {y}) = n
        <4> TAKE y \in s
        <4>1. Cardinality(s \ {y}) = Cardinality(s) - 1
          BY <1>1, FS_RemoveElement
        <4> QED BY <4>1
      <3>2. Any(s \ {c}) /\ Any(s \ {x})
        BY <1>3, <3>1
      <3>3. SumOver(f, s \ {c}) = f[x] + SumOver(f, both)
        BY <2>4, <3>2
      <3>4. SumOver(f, s \ {x}) = f[c] + SumOver(f, both)
        <4>1. c \in s \ {x} /\ (s \ {x}) \ {c} = both
          BY <2>4
        <4> QED BY <3>2, <4>1
      <3>5. SumOver(f, both) \in Int /\ f[x] \in Int /\ f[c] \in Int
        BY SumIsInt
      <3> HIDE DEF both
      <3> QED BY <2>2, <3>3, <3>4, <3>5
    <2> QED BY <2>3, <2>4
  <1>4. \A n \in Nat : n \in T
    <2> HIDE DEF T
    <2> QED BY <1>2, <1>3, SetInduction
  <1> QED BY <1>1, <1>4

\* The sum over a set with one element more.
LEMMA SumOfMore ==
    ASSUME NEW S, IsFiniteSet(S), NEW f, \A x \in S : f[x] \in Int,
           NEW s \in SUBSET S, NEW x \in S, x \notin s
    PROVE  SumOver(f, s \cup {x}) = f[x] + SumOver(f, s)
  <1>1. s \cup {x} \in SUBSET S /\ x \in s \cup {x} /\ (s \cup {x}) \ {x} = s
    OBVIOUS
  <1> QED BY <1>1, SumOfOneAndRest

\* Two sets that have nothing in common.
LEMMA SumOfDisjoint ==
    ASSUME NEW S, IsFiniteSet(S), NEW f, \A x \in S : f[x] \in Int,
           NEW r \in SUBSET S, NEW s \in SUBSET S, r \cap s = {}
    PROVE  SumOver(f, r \cup s) = SumOver(f, r) + SumOver(f, s)
  <1> DEFINE T == {t \in SUBSET s : SumOver(f, r \cup t) = SumOver(f, r) + SumOver(f, t)}
  <1>1. \A t \in SUBSET S : SumOver(f, t) \in Int
    BY SumIsInt
  <1>2. {} \in T
    <2>1. r \cup {} = r /\ SumOver(f, {}) = 0
      BY SumOfNone
    <2> QED BY <1>1, <2>1
  <1>3. ASSUME NEW t \in SUBSET s, NEW x \in s \ t, t \in T
        PROVE  t \cup {x} \in T
    <2>1. /\ t \in SUBSET S /\ r \cup t \in SUBSET S
          /\ x \in S /\ x \notin t /\ x \notin r \cup t
      OBVIOUS
    <2>2. SumOver(f, t \cup {x}) = f[x] + SumOver(f, t)
      BY <2>1, SumOfMore
    <2>3. SumOver(f, (r \cup t) \cup {x}) = f[x] + SumOver(f, r \cup t)
      BY <2>1, SumOfMore
    <2>4. (r \cup t) \cup {x} = r \cup (t \cup {x})
      OBVIOUS
    <2>5. SumOver(f, r \cup t) = SumOver(f, r) + SumOver(f, t)
      BY <1>3
    <2>6. f[x] \in Int /\ SumOver(f, r) \in Int /\ SumOver(f, t) \in Int
      BY <1>1, <2>1
    <2>7. SumOver(f, r \cup (t \cup {x})) = SumOver(f, r) + SumOver(f, t \cup {x})
      <3>1. \A a, b, c \in Int : a + (b + c) = b + (a + c)
        OBVIOUS
      <3>2. f[x] + (SumOver(f, r) + SumOver(f, t)) = SumOver(f, r) + (f[x] + SumOver(f, t))
        BY ONLY <2>6, <3>1
      <3> QED BY ONLY <2>2, <2>3, <2>4, <2>5, <3>2
    <2> QED BY <2>7
  <1>4. IsFiniteSet(s)
    BY FS_Subset
  <1>5. s \in T
    <2> HIDE DEF T
    <2> QED BY <1>2, <1>3, <1>4, SubsetInduction
  <1> QED BY <1>5

-----------------------------------------------------------------------------
(***************************************************************************)
(* Bits.                                                                   *)
(***************************************************************************)
Powers == [k \in Nat |-> 2^k]

\* The number that a set of bit positions stands for, as FromBits defines it over the
\* parts of B.
BitRule(g, B) ==
    g = [s \in SUBSET B |->
            IF s = {} THEN 0
            ELSE 2^(CHOOSE x \in s : TRUE) + g[s \ {CHOOSE x \in s : TRUE}]]

\* That number is the sum of the powers at those positions.
LEMMA FromBitsIsSum ==
    ASSUME NEW B, B \subseteq Nat, IsFiniteSet(B)
    PROVE  FromBits(B) = SumOver(Powers, B)
  <1>1. ASSUME NEW s \in SUBSET B, s # {}
        PROVE  Powers[CHOOSE x \in s : TRUE] = 2^(CHOOSE x \in s : TRUE)
    <2> DEFINE c == CHOOSE x \in s : TRUE
    <2>1. c \in Nat
      BY <1>1
    <2> QED BY <2>1 DEF Powers
  <1>2. \A g : [s \in SUBSET B |->
                   IF s = {} THEN 0
                   ELSE Powers[CHOOSE x \in s : TRUE] + g[s \ {CHOOSE x \in s : TRUE}]]
               = [s \in SUBSET B |->
                   IF s = {} THEN 0
                   ELSE 2^(CHOOSE x \in s : TRUE) + g[s \ {CHOOSE x \in s : TRUE}]]
    BY <1>1
  <1>3. \A g : SumRule(g, Powers, B) <=> BitRule(g, B)
    BY <1>2 DEF SumRule, BitRule
  <1> DEFINE g == CHOOSE g : BitRule(g, B)
  <1>4. BitRule(g, B)
    BY <1>3, SumRuleExists
  <1>5. FromBits(B) = g[B]
    BY DEF FromBits, MapThenSumSet, MapThenFoldSet, BitRule
  <1>6. PICK h : SumRule(h, Powers, B) /\ SumOver(Powers, B) = h[B]
    BY SumOverRule
  <1>7. B \in SUBSET B /\ SumRule(g, Powers, B)
    BY <1>3, <1>4
  <1> HIDE DEF g
  <1>8. g[B] = h[B]
    BY <1>6, <1>7, SumRuleUnique
  <1> QED BY <1>5, <1>6, <1>8

\* The positions of a number of n bits, their powers and their sums.
LEMMA BitPositions ==
    ASSUME NEW n \in Nat
    PROVE  /\ IsFiniteSet(0..(n - 1))
           /\ \A x \in 0..(n - 1) : Powers[x] = 2^x /\ Powers[x] \in Nat
           /\ \A B \in SUBSET (0..(n - 1)) :
                  B \subseteq Nat /\ IsFiniteSet(B) /\ FromBits(B) = SumOver(Powers, B)
  <1>1. IsFiniteSet(0..(n - 1))
    BY FS_Interval
  <1>2. \A x \in 0..(n - 1) : Powers[x] = 2^x /\ Powers[x] \in Nat
    BY PowerPositive DEF Powers
  <1>3. ASSUME NEW B \in SUBSET (0..(n - 1))
        PROVE  B \subseteq Nat /\ IsFiniteSet(B) /\ FromBits(B) = SumOver(Powers, B)
    <2>1. B \subseteq Nat
      OBVIOUS
    <2>2. IsFiniteSet(B)
      BY <1>1, FS_Subset
    <2> QED BY <2>1, <2>2, FromBitsIsSum
  <1> QED BY <1>1, <1>2, <1>3

\* A power more.
LEMMA PowersTakenApart ==
    ASSUME NEW S, IsFiniteSet(S), \A x \in S : Powers[x] \in Int,
           NEW s \in SUBSET S, NEW x \in S, x \notin s
    PROVE  SumOver(Powers, s \cup {x}) = Powers[x] + SumOver(Powers, s)
  BY SumOfMore

\* One bit more.
LEMMA BitAdded ==
    ASSUME NEW n \in Nat, NEW B \in SUBSET (0..(n - 1))
    PROVE  FromBits(B) \in Int /\ FromBits(B \cup {n}) = 2^n + FromBits(B)
  <1> DEFINE S == 0..n
  <1>1. B \in SUBSET S /\ n \in S /\ n \notin B /\ B \cup {n} \in SUBSET S
    OBVIOUS
  <1>2. /\ IsFiniteSet(S)
        /\ \A x \in S : Powers[x] = 2^x /\ Powers[x] \in Nat
        /\ \A C \in SUBSET S : FromBits(C) = SumOver(Powers, C)
    <2> DEFINE m == n + 1
    <2>1. m \in Nat /\ S = 0..(m - 1)
      OBVIOUS
    <2> HIDE DEF m, S
    <2> QED BY <2>1, BitPositions
  <1> HIDE DEF S
  <1>3. \A x \in S : Powers[x] \in Int
    BY <1>2
  <1>4. SumOver(Powers, B \cup {n}) = Powers[n] + SumOver(Powers, B)
    <2>1. IsFiniteSet(S)
      BY <1>2
    <2>2. B \in SUBSET S
      BY <1>1
    <2>3. n \in S
      BY <1>1
    <2>4. n \notin B
      BY <1>1
    <2> QED BY ONLY <1>3, <2>1, <2>2, <2>3, <2>4, PowersTakenApart
  <1>5. SumOver(Powers, B) \in Int
    BY <1>1, <1>2, <1>3, SumIsInt
  <1> QED BY <1>1, <1>2, <1>4, <1>5

\* Numbers of n bits.
LEMMA FromBitsRange ==
    \A n \in Nat : \A B \in SUBSET (0..(n - 1)) : FromBits(B) \in 0..(2^n - 1)
  <1> DEFINE T == {n \in Nat : \A B \in SUBSET (0..(n - 1)) : FromBits(B) \in 0..(2^n - 1)}
  <1>1. 0 \in T
    <2>1. \A B \in SUBSET (0..(0 - 1)) : B = {}
      OBVIOUS
    <2>2. FromBits({}) = 0
      BY FromBitsIsSum, SumOfNone, FS_EmptySet
    <2>3. 2^0 = 1
      OBVIOUS
    <2>4. \A B \in SUBSET (0..(0 - 1)) : FromBits(B) \in 0..(2^0 - 1)
      <3>1. 0 \in 0..(1 - 1)
        OBVIOUS
      <3>2. 0 \in 0..(2^0 - 1)
        BY <2>3, <3>1
      <3> QED BY <2>1, <2>2, <3>2
    <2> QED BY <2>4
  <1>2. ASSUME NEW n \in Nat, n \in T PROVE n + 1 \in T
    <2> DEFINE p == 2^n
    <2>1. p \in Nat \ {0} /\ 2^(n + 1) = 2 * p
      BY PowerPositive, PowerDoubles
    <2> SUFFICES ASSUME NEW B \in SUBSET (0..n)
                 PROVE  FromBits(B) \in 0..(2 * p - 1)
      BY <2>1
    <2>2. B \ {n} \in SUBSET (0..(n - 1))
      OBVIOUS
    <2>3. FromBits(B \ {n}) \in 0..(p - 1)
      BY <1>2, <2>2
    <2>4. CASE n \in B
      <3>1. B = (B \ {n}) \cup {n}
        BY <2>4
      <3>2. FromBits((B \ {n}) \cup {n}) = p + FromBits(B \ {n})
        BY <2>2, BitAdded
      <3>3. FromBits(B) = p + FromBits(B \ {n})
        BY <3>1, <3>2
      <3> HIDE DEF p
      <3> QED BY <2>1, <2>3, <3>3
    <2>5. CASE n \notin B
      <3>1. B = B \ {n}
        BY <2>5
      <3>2. FromBits(B) \in 0..(p - 1)
        BY <2>3, <3>1
      <3> HIDE DEF p
      <3> QED BY <2>1, <3>2
    <2> QED BY <2>4, <2>5
  <1>3. \A n \in Nat : n \in T
    <2> HIDE DEF T
    <2> QED BY <1>1, <1>2, SetInduction
  <1> QED BY <1>3

\* The bits of a number below the n-th.
BitsBelow(c, n) == {k \in 0..(n - 1) : (c \div 2^k) % 2 = 1}

\* The n lowest bits of a number stand for its rest modulo 2^n.
LEMMA BitsOfRest ==
    ASSUME NEW c \in Nat
    PROVE  \A n \in Nat : FromBits(BitsBelow(c, n)) = c % 2^n
  <1> DEFINE T == {n \in Nat : FromBits(BitsBelow(c, n)) = c % 2^n}
  <1>1. 0 \in T
    <2>1. BitsBelow(c, 0) = {}
      BY DEF BitsBelow
    <2>2. FromBits({}) = 0
      BY FromBitsIsSum, SumOfNone, FS_EmptySet
    <2>3. 2^0 = 1 /\ c % 1 = 0
      OBVIOUS
    <2> QED BY <2>1, <2>2, <2>3
  <1>2. ASSUME NEW n \in Nat, n \in T PROVE n + 1 \in T
    <2> DEFINE p == 2^n  q == c \div 2^n  r == c % 2^n
    <2>1. p \in Nat \ {0} /\ 2^(n + 1) = 2 * p
      BY PowerPositive, PowerDoubles
    <2>2. q \in Int /\ r \in 0..(p - 1) /\ c = p * q + r
      <3>1. p \in Nat \ {0} /\ c \in Int
        BY <2>1
      <3> HIDE DEF p
      <3> QED BY <3>1, Division DEF p
    <2>3. FromBits(BitsBelow(c, n)) = r
      BY <1>2
    <2>4. BitsBelow(c, n) \in SUBSET (0..(n - 1))
      BY DEF BitsBelow
    <2>5. BitsBelow(c, n + 1) = IF q % 2 = 1 THEN BitsBelow(c, n) \cup {n} ELSE BitsBelow(c, n)
      <3>1. 0..((n + 1) - 1) = (0..(n - 1)) \cup {n} /\ n \notin 0..(n - 1)
        OBVIOUS
      <3> DEFINE S == 0..(n - 1)  One(k) == (c \div 2^k) % 2 = 1
      <3>2. BitsBelow(c, n + 1) = {k \in S \cup {n} : One(k)} /\ BitsBelow(c, n) = {k \in S : One(k)}
        BY <3>1 DEF BitsBelow
      <3>3. One(n) <=> q % 2 = 1
        OBVIOUS
      <3> HIDE DEF S, One, q
      <3> QED BY <3>2, <3>3
    <2>6. FromBits(BitsBelow(c, n) \cup {n}) = p + r
      BY <2>3, <2>4, BitAdded
    <2> HIDE DEF p, q, r
    <2>7. FromBits(BitsBelow(c, n + 1)) = IF q % 2 = 1 THEN p + r ELSE r
      BY <2>3, <2>5, <2>6
    <2>8. PICK h \in Int, b \in {0, 1} : q = 2 * h + b /\ q % 2 = b
      BY <2>2
    <2>9. c = (2 * p) * h + (p * b + r)
      BY <2>1, <2>2, <2>8
    <2>10. p * b + r \in 0..(2 * p - 1) /\ 2 * p \in Nat \ {0}
      BY <2>1, <2>2, <2>8
    <2>11. c % (2 * p) = p * b + r
      BY <2>9, <2>10, DividedUniquely
    <2>12. p * b + r = IF q % 2 = 1 THEN p + r ELSE r
      BY <2>1, <2>2, <2>8
    <2> QED BY <2>1, <2>7, <2>11, <2>12
  <1>3. \A n \in Nat : n \in T
    <2> HIDE DEF T
    <2> QED BY <1>1, <1>2, SetInduction
  <1> QED BY <1>3

\* A cell is the number its bits stand for.
LEMMA BitsOfCell ==
    ASSUME NEW c \in Cells
    PROVE  Bits(c) \in SUBSET (0..(RegisterBits - 1)) /\ FromBits(Bits(c)) = c
  <1>1. c \in Nat /\ RegisterBits \in Nat /\ c % Values = c
    BY CellOfCell, ValuesEven, SmallRest DEF Cells
  <1>2. Bits(c) = BitsBelow(c, RegisterBits)
    BY DEF Bits, BitsBelow
  <1>3. Bits(c) \in SUBSET (0..(RegisterBits - 1))
    BY DEF Bits
  <1> QED BY <1>1, <1>2, <1>3, BitsOfRest DEF Values

\* Bits at the positions of a cell stand for a cell.
LEMMA FromBitsIsCell ==
    ASSUME NEW B \in SUBSET (0..(RegisterBits - 1))
    PROVE  FromBits(B) \in Cells
BY FromBitsRange, ValuesEven DEF Cells, Values

\* The positions of a cell, as the lemmas on sums need them.
LEMMA CellPositions ==
    /\ IsFiniteSet(0..(RegisterBits - 1))
    /\ \A x \in 0..(RegisterBits - 1) : Powers[x] \in Int
    /\ \A B \in SUBSET (0..(RegisterBits - 1)) : FromBits(B) = SumOver(Powers, B)
  <1>1. RegisterBits \in Nat
    BY ValuesEven
  <1>2. \A x \in 0..(RegisterBits - 1) : Powers[x] \in Int
    <2>1. \A x \in 0..(RegisterBits - 1) : Powers[x] \in Nat
      BY <1>1, BitPositions
    <2> QED BY <2>1
  <1> QED BY <1>1, <1>2, BitPositions

\* Two numbers together have the bits of either and once more those of both.
LEMMA BitsOfTwo ==
    ASSUME NEW c \in Cells, NEW d \in Cells
    PROVE  /\ FromBits(Bits(c) \cap Bits(d)) \in Cells
           /\ FromBits(Bits(c) \cup Bits(d)) \in Cells
           /\ FromBits((Bits(c) \cup Bits(d)) \ (Bits(c) \cap Bits(d))) \in Cells
           /\ FromBits(Bits(c) \cup Bits(d)) = c + d - FromBits(Bits(c) \cap Bits(d))
           /\ FromBits((Bits(c) \cup Bits(d)) \ (Bits(c) \cap Bits(d)))
                  = c + d - 2 * FromBits(Bits(c) \cap Bits(d))
  <1> DEFINE S == 0..(RegisterBits - 1)
             C == Bits(c)  D == Bits(d)  both == C \cap D
             onlyC == C \ both  onlyD == D \ both
             sum(B) == SumOver(Powers, B)
  <1>1. /\ C \in SUBSET S /\ D \in SUBSET S
        /\ FromBits(C) = c /\ FromBits(D) = d
    BY BitsOfCell
  <1>2. /\ IsFiniteSet(S)
        /\ \A x \in S : Powers[x] \in Int
        /\ \A B \in SUBSET S : FromBits(B) = sum(B)
    BY CellPositions
  <1>3. \A B \in SUBSET S : FromBits(B) \in Cells
    BY FromBitsIsCell
  <1>4. /\ both \in SUBSET S /\ onlyC \in SUBSET S /\ onlyD \in SUBSET S
        /\ onlyC \cup onlyD \in SUBSET S
        /\ both \cap onlyC = {} /\ both \cap onlyD = {} /\ onlyC \cap onlyD = {}
        /\ both \cap (onlyC \cup onlyD) = {}
        /\ C = both \cup onlyC /\ D = both \cup onlyD
        /\ C \cup D = both \cup (onlyC \cup onlyD)
        /\ (C \cup D) \ (C \cap D) = onlyC \cup onlyD
    BY <1>1
  <1> HIDE DEF S, C, D, both, onlyC, onlyD
  <1>5. \A r, s \in SUBSET S : r \cap s = {} =>
            sum(r \cup s) = sum(r) + sum(s)
    BY <1>2, SumOfDisjoint
  <1>6. \A r \in SUBSET S : sum(r) \in Int
    BY <1>2, SumIsInt
  <1> HIDE DEF sum
  <1>7. /\ c = sum(both) + sum(onlyC)
        /\ d = sum(both) + sum(onlyD)
        /\ sum(onlyC \cup onlyD) = sum(onlyC) + sum(onlyD)
        /\ sum(C \cup D) = sum(both) + sum(onlyC \cup onlyD)
    <2>1. c = sum(C) /\ d = sum(D)
      BY <1>1, <1>2
    <2>2. sum(both \cup onlyC) = sum(both) + sum(onlyC)
      BY <1>4, <1>5
    <2>3. sum(both \cup onlyD) = sum(both) + sum(onlyD)
      BY <1>4, <1>5
    <2>4. sum(onlyC \cup onlyD) = sum(onlyC) + sum(onlyD)
      BY <1>4, <1>5
    <2>5. sum(both \cup (onlyC \cup onlyD)) = sum(both) + sum(onlyC \cup onlyD)
      BY <1>4, <1>5
    <2> QED BY <2>1, <2>2, <2>3, <2>4, <2>5, <1>4
  <1>8. /\ sum(both) \in Int /\ sum(onlyC) \in Int /\ sum(onlyD) \in Int
    BY <1>4, <1>6
  <1>9. /\ sum(C \cup D) = c + d - sum(both)
        /\ sum(onlyC \cup onlyD) = c + d - 2 * sum(both)
    BY <1>7, <1>8
  <1>10. C \cup D \in SUBSET S
    BY <1>1
  <1>11. /\ FromBits(both) = sum(both)
         /\ FromBits(C \cup D) = sum(C \cup D)
         /\ FromBits(onlyC \cup onlyD) = sum(onlyC \cup onlyD)
    BY <1>2, <1>4, <1>10
  <1>12. /\ FromBits(both) \in Cells
         /\ FromBits(C \cup D) \in Cells
         /\ FromBits(onlyC \cup onlyD) \in Cells
    BY <1>3, <1>4, <1>10
  <1>13. C \cap D = both
    BY DEF both
  <1>14. (C \cup D) \ (C \cap D) = onlyC \cup onlyD
    BY <1>4
  <1> QED BY <1>9, <1>11, <1>12, <1>13, <1>14 DEF C, D

\* All bits are set in the greatest number.
LEMMA AllBits ==
    \A n \in Nat : FromBits(0..(n - 1)) = 2^n - 1
  <1> DEFINE T == {n \in Nat : FromBits(0..(n - 1)) = 2^n - 1}
  <1>1. 0 \in T
    <2>1. 0..(0 - 1) = {}
      OBVIOUS
    <2>2. FromBits({}) = 0
      BY FromBitsIsSum, SumOfNone, FS_EmptySet
    <2>3. 2^0 = 1
      OBVIOUS
    <2>4. FromBits(0..(0 - 1)) = 2^0 - 1
      <3>1. 0 = 1 - 1
        OBVIOUS
      <3> QED BY <2>1, <2>2, <2>3, <3>1
    <2> QED BY <2>4
  <1>2. ASSUME NEW n \in Nat, n \in T PROVE n + 1 \in T
    <2> DEFINE p == 2^n  S == 0..(n - 1)
    <2>1. p \in Nat \ {0} /\ 2^(n + 1) = 2 * p
      BY PowerPositive, PowerDoubles
    <2>2. S \in SUBSET (0..(n - 1)) /\ 0..((n + 1) - 1) = S \cup {n}
      OBVIOUS
    <2>3. FromBits(S \cup {n}) = p + FromBits(S)
      BY <2>2, BitAdded
    <2>4. FromBits(S) = p - 1
      BY <1>2
    <2> HIDE DEF p, S
    <2>5. FromBits(0..((n + 1) - 1)) = 2^(n + 1) - 1
      <3>1. p + (p - 1) = 2 * p - 1
        BY <2>1
      <3> QED BY <2>1, <2>2, <2>3, <2>4, <3>1
    <2> QED BY <2>5
  <1>3. \A n \in Nat : n \in T
    <2> HIDE DEF T
    <2> QED BY <1>1, <1>2, SetInduction
  <1> QED BY <1>3

\* NOT of a cell (the operator ~ of ConnexVector.cpp) is what it lacks to all ones.
LEMMA ComplementOfCell ==
    ASSUME NEW c \in Cells
    PROVE  Complement(c) \in Cells /\ Complement(c) = Values - 1 - c
  <1> DEFINE S == 0..(RegisterBits - 1)  C == Bits(c)
  <1>1. C \in SUBSET S /\ FromBits(C) = c
    BY BitsOfCell
  <1>2. /\ IsFiniteSet(S)
        /\ \A x \in S : Powers[x] \in Int
        /\ \A B \in SUBSET S : FromBits(B) = SumOver(Powers, B)
    BY CellPositions
  <1>3. FromBits(S) = Values - 1
    BY ValuesEven, AllBits DEF Values
  <1>4. FromBits(S \ C) \in Cells
    <2>1. S \ C \in SUBSET (0..(RegisterBits - 1))
      OBVIOUS
    <2> QED BY <2>1, FromBitsIsCell
  <1>5. Complement(c) = FromBits(S \ C)
    BY DEF Complement
  <1> HIDE DEF S, C
  <1>6. S \in SUBSET S /\ S \ C \in SUBSET S /\ C \cap (S \ C) = {} /\ C \cup (S \ C) = S
    BY <1>1
  <1>7. SumOver(Powers, C \cup (S \ C)) = SumOver(Powers, C) + SumOver(Powers, S \ C)
    BY <1>1, <1>2, <1>6, SumOfDisjoint
  <1>8. FromBits(S) = c + FromBits(S \ C)
    BY <1>1, <1>2, <1>6, <1>7
  <1>9. c \in Int /\ FromBits(S \ C) \in Int /\ Values \in Int
    BY <1>4, ValuesEven DEF Cells
  <1> QED BY <1>3, <1>4, <1>5, <1>8, <1>9

\* A number is less than its power: counts of bits fit in a cell.
LEMMA MoreThanItsExponent ==
    \A n \in Nat : n < 2^n
  <1> DEFINE T == {n \in Nat : n < 2^n}
  <1>1. 0 \in T
    <2>1. 2^0 = 1
      OBVIOUS
    <2> QED BY <2>1
  <1>2. ASSUME NEW n \in Nat, n \in T PROVE n + 1 \in T
    <2>1. 2^n \in Nat \ {0} /\ 2^(n + 1) = 2 * 2^n
      BY PowerPositive, PowerDoubles
    <2> QED BY <1>2, <2>1
  <1>3. \A n \in Nat : n \in T
    <2> HIDE DEF T
    <2> QED BY <1>1, <1>2, SetInduction
  <1> QED BY <1>3

\* POPCNT of a cell is a cell.
LEMMA PopCountOfCell ==
    ASSUME NEW c \in Cells
    PROVE  PopCount(c) \in Cells
  <1>1. RegisterBits \in Nat /\ Values \in Nat /\ RegisterBits < Values
    BY ValuesEven, MoreThanItsExponent DEF Values
  <1>2. IsFiniteSet(0..(RegisterBits - 1)) /\ Cardinality(0..(RegisterBits - 1)) = RegisterBits
    BY <1>1, FS_Interval
  <1>3. Bits(c) \subseteq 0..(RegisterBits - 1)
    BY DEF Bits
  <1>4. IsFiniteSet(Bits(c)) /\ Cardinality(Bits(c)) <= RegisterBits
    BY <1>2, <1>3, FS_Subset
  <1>5. Cardinality(Bits(c)) \in Nat
    BY <1>4, FS_CardinalityType
  <1> QED BY <1>1, <1>4, <1>5 DEF PopCount, Cells

\* BIT_REVERSE of a cell is a cell.
LEMMA ReversedCell ==
    ASSUME NEW c \in Cells
    PROVE  Reversed(c) \in Cells
  <1>1. RegisterBits \in Nat /\ Bits(c) \in SUBSET (0..(RegisterBits - 1))
    BY ValuesEven, BitsOfCell
  <1>2. {RegisterBits - 1 - k : k \in Bits(c)} \in SUBSET (0..(RegisterBits - 1))
    BY <1>1
  <1> QED BY <1>2, FromBitsIsCell DEF Reversed

-----------------------------------------------------------------------------
(***************************************************************************)
(* The operators.                                                          *)
(***************************************************************************)
LEMMA ResultIsCell ==
    ASSUME NEW x \in Cells, NEW y \in Cells,
           NEW op \in {"+", "-", "==", "<", "|", "&", "^"}
    PROVE  Result(op, x, y) \in Cells
  <1>1. x \in Int /\ y \in Int /\ x + y \in Int /\ x - y \in Int
    BY CellOfCell
  <1>2. Cell(x + y) \in Cells /\ Cell(x - y) \in Cells
    BY <1>1, CellIsCell
  <1>3. 0 \in Cells /\ 1 \in Cells
    BY ValuesEven DEF Cells
  <1>4. CASE op = "+"
    BY <1>2, <1>4 DEF Result
  <1>5. CASE op = "-"
    BY <1>2, <1>5 DEF Result
  <1>6. CASE op = "=="
    BY <1>3, <1>6 DEF Result
  <1>7. CASE op = "<"
    BY <1>3, <1>7 DEF Result
  <1>8. CASE op = "|"
    BY <1>8, BitsOfTwo DEF Result
  <1>9. CASE op = "&"
    BY <1>9, BitsOfTwo DEF Result
  <1>10. CASE op = "^"
    BY <1>10, BitsOfTwo DEF Result
  <1> QED BY <1>4, <1>5, <1>6, <1>7, <1>8, <1>9, <1>10

\* The two parts that a shift cuts a cell into.
LEMMA CutAt ==
    ASSUME NEW n \in Nat
    PROVE  LET p == Positions(n) IN
           /\ p \in 0..RegisterBits
           /\ 2^p \in Nat \ {0} /\ 2^(RegisterBits - p) \in Nat \ {0}
           /\ Values = 2^p * 2^(RegisterBits - p)
  <1> DEFINE p == Positions(n)
  <1>1. p \in 0..RegisterBits /\ RegisterBits \in Nat
    BY ValuesEven DEF Positions
  <1>2. p \in Nat /\ RegisterBits - p \in Nat /\ p + (RegisterBits - p) = RegisterBits
    BY <1>1
  <1> HIDE DEF p
  <1>3. 2^(p + (RegisterBits - p)) = 2^p * 2^(RegisterBits - p)
    BY <1>2, PowersMultiply
  <1>4. 2^p \in Nat \ {0} /\ 2^(RegisterBits - p) \in Nat \ {0}
    BY <1>2, PowerPositive
  <1>5. Values = 2^p * 2^(RegisterBits - p)
    BY <1>2, <1>3 DEF Values
  <1>6. /\ p \in 0..RegisterBits
        /\ 2^p \in Nat \ {0} /\ 2^(RegisterBits - p) \in Nat \ {0}
        /\ Values = 2^p * 2^(RegisterBits - p)
    BY <1>1, <1>4, <1>5
  <1> QED BY <1>6 DEF p

\* SHL multiplies by a power of two, within the cell.
LEMMA LeftShift ==
    ASSUME NEW x \in Cells, NEW n \in Nat
    PROVE  /\ ShiftedLeft(x, n) \in Cells
           /\ ShiftedLeft(x, n) = Cell(Signed(x) * 2^Positions(n))
  <1> DEFINE p == 2^Positions(n)  q == 2^(RegisterBits - Positions(n))
             h == x \div q  r == x % q
  <1>1. p \in Nat \ {0} /\ q \in Nat \ {0} /\ Values = p * q
    BY CutAt
  <1>2. ShiftedLeft(x, n) = r * p
    BY DEF ShiftedLeft
  <1>3. x \in Int
    BY CellOfCell
  <1> HIDE DEF p, q
  <1>4. h \in Int /\ r \in 0..(q - 1) /\ x = q * h + r
    BY <1>1, <1>3, Division
  <1>5. PICK k \in {-1, 0} : Signed(x) = x + Values * k
    BY SignedRange
  <1> HIDE DEF h, r
  <1>6. Signed(x) * p = r * p + Values * (h + k * p)
    <2>1. \A a, b, c, d, e \in Int :
              ((b * c + d) + (a * b) * e) * a = d * a + (a * b) * (c + e * a)
      OBVIOUS
    <2>2. p \in Int /\ q \in Int /\ k \in Int /\ h \in Int /\ r \in Int
      BY <1>1, <1>4
    <2>3. ((q * h + r) + (p * q) * k) * p = r * p + (p * q) * (h + k * p)
      BY ONLY <2>1, <2>2
    <2> QED BY <1>1, <1>4, <1>5, <2>3
  <1>7. r * p \in Int /\ h + k * p \in Int
    BY <1>1, <1>4, <1>5
  <1>8. Cell(Signed(x) * p) = Cell(r * p)
    BY <1>6, <1>7, CellOfSum
  <1>9. r * p \in Cells
    <2>1. 0 <= r * p /\ r * p <= (q - 1) * p /\ (q - 1) * p = p * q - p
      BY <1>1, <1>4
    <2>2. r * p < p * q
      BY <1>1, <1>7, <2>1
    <2> QED BY <1>1, <1>7, <2>1, <2>2 DEF Cells
  <1> QED BY <1>2, <1>8, <1>9, CellOfCell DEF p

\* SHR of a cell is a cell.
LEMMA RightShift ==
    ASSUME NEW x \in Cells, NEW n \in Nat
    PROVE  ShiftedRight(x, n) \in Cells
  <1> DEFINE p == 2^Positions(n)
  <1>1. p \in Nat \ {0}
    BY CutAt
  <1>2. x \in Nat /\ x < Values /\ Values \in Nat
    BY CellOfCell, ValuesEven
  <1>3. ShiftedRight(x, n) = x \div p
    BY DEF ShiftedRight
  <1> HIDE DEF p
  <1>4. x \div p \in Int /\ 0 <= x \div p /\ x \div p <= x
    BY <1>1, <1>2
  <1> QED BY <1>2, <1>3, <1>4 DEF Cells

\* SHRA divides the signed value by a power of two, downwards.
LEMMA ArithmeticShift ==
    ASSUME NEW x \in Cells, NEW n \in Nat
    PROVE  /\ ShiftedArithmetic(x, n) \in Cells
           /\ Signed(ShiftedArithmetic(x, n)) = Signed(x) \div 2^Positions(n)
  <1> DEFINE p == 2^Positions(n)  s == Signed(x)
  <1>1. p \in Nat \ {0}
    BY CutAt
  <1>2. s \in Int /\ -Half <= s /\ s < Half /\ Half \in Nat \ {0}
    BY SignedRange, ValuesEven
  <1>3. ShiftedArithmetic(x, n) = Cell(s \div p)
    BY DEF ShiftedArithmetic
  <1> HIDE DEF p, s
  <1>4. s \div p \in Int /\ -Half <= s \div p /\ s \div p < Half
    BY <1>1, <1>2
  <1> QED BY <1>3, <1>4, CellIsCell, SignedOfCell DEF p, s

\* Each of the three shifts yields a cell.
LEMMA ShiftIsCell ==
    ASSUME NEW x \in Cells, NEW n \in Nat, NEW op \in {"shl", "shr", "shra"}
    PROVE  ShiftBy(op, x, n) \in Cells
BY LeftShift, RightShift, ArithmeticShift DEF ShiftBy

\* A shift by none, as Operand copies registers.
LEMMA NoShift ==
    ASSUME NEW x \in Cells
    PROVE  ShiftBy("shl", x, 0) = x
  <1>1. Positions(0) = 0
    BY VectorAssumption DEF Positions
  <1>2. 2^Positions(0) = 1
    <2>1. 2^0 = 1
      OBVIOUS
    <2> QED BY <1>1, <2>1
  <1>3. Signed(x) \in Int
    BY SignedRange
  <1>4. ShiftedLeft(x, 0) = Cell(Signed(x) * 1)
    BY <1>2, LeftShift
  <1> QED BY <1>3, <1>4, CellOfSigned DEF ShiftBy

\* MULT_LO and MULT_HI yield cells.
LEMMA HalvesAreCells ==
    ASSUME NEW p \in Int
    PROVE  LowHalf(p) \in Cells /\ HighHalf(p) \in Cells
  <1>1. p \div Values \in Int
    BY ValuesEven, Division
  <1> QED BY <1>1, CellIsCell DEF LowHalf, HighHalf

-----------------------------------------------------------------------------
(***************************************************************************)
(* Lanes.                                                                  *)
(***************************************************************************)
LEMMA LaneNumbers ==
    /\ VectorLength \in Nat \ {0}
    /\ IsFiniteSet(Lanes)
    /\ 0 \in Lanes
    /\ \A n \in Int : n % VectorLength \in Lanes
    /\ \A l \in Lanes : l \in Int /\ l % VectorLength = l
  <1>1. VectorLength \in Nat \ {0}
    BY VectorAssumption, PowerPositive
  <1>2. IsFiniteSet(Lanes)
    BY <1>1, FS_Interval DEF Lanes
  <1>3. \A n \in Int : n % VectorLength \in Lanes
    BY <1>1, Division DEF Lanes
  <1>4. \A l \in Lanes : l \in Int /\ l % VectorLength = l
    BY <1>1, SmallRest DEF Lanes
  <1> QED BY <1>1, <1>2, <1>3, <1>4 DEF Lanes

\* However often undefined shifts are taken, they are by some number.
LEMMA ShiftNumbersAreNumbers ==
    ASSUME NEW counts, NEW number \in ShiftNumbers(counts)
    PROVE  \A l \in DOMAIN counts : number[l] \in Nat
  <1> DEFINE undefined == {l \in DOMAIN counts : counts[l] \notin 0..31}
  <1>1. PICK other \in [undefined -> 0..RegisterBits] :
            number = [l \in DOMAIN counts |-> IF l \in undefined THEN other[l] ELSE counts[l]]
    BY DEF ShiftNumbers
  <1>2. \A l \in undefined : other[l] \in Nat
    BY ValuesEven
  <1> QED BY <1>1, <1>2

\* A shift by 0..31 positions has one outcome: the count that was asked for.
LEMMA DefinedShifts ==
    ASSUME NEW counts, \A l \in DOMAIN counts : counts[l] \in 0..31,
           NEW number \in ShiftNumbers(counts)
    PROVE  \A l \in DOMAIN counts : number[l] = counts[l]
BY DEF ShiftNumbers

-----------------------------------------------------------------------------
(***************************************************************************)
(* The rounds of a shift between lanes.                                    *)
(***************************************************************************)
Round(before, counts, direction, n) ==
    [l \in Lanes |-> IF counts[l] >= n THEN before[(l + direction) % VectorLength]
                     ELSE before[l]]

\* The vectors after each round of CELL_SHL and CELL_SHR.
Rounds(f, vector, counts, direction, last) ==
    f = [n \in 0..last |-> IF n = 0 THEN vector
                           ELSE Round(f[n - 1], counts, direction, n)]

\* They exist, for any number of rounds.
LEMMA RoundsExist ==
    ASSUME NEW vector, NEW counts, NEW direction
    PROVE  \A last \in Nat : \E f : Rounds(f, vector, counts, direction, last)
  <1> DEFINE T == {last \in Nat : \E f : Rounds(f, vector, counts, direction, last)}
  <1>1. 0 \in T
    <2>1. Rounds([n \in 0..0 |-> vector], vector, counts, direction, 0)
      BY DEF Rounds
    <2> QED BY <2>1
  <1>2. ASSUME NEW last \in Nat, last \in T PROVE last + 1 \in T
    <2>1. PICK f : Rounds(f, vector, counts, direction, last)
      BY <1>2
    <2>2. \A n \in 0..last :
              f[n] = IF n = 0 THEN vector ELSE Round(f[n - 1], counts, direction, n)
      BY <2>1 DEF Rounds
    <2> DEFINE g == [n \in 0..(last + 1) |->
                        IF n <= last THEN f[n] ELSE Round(f[last], counts, direction, n)]
    <2>3. \A n \in 0..(last + 1) :
              g[n] = IF n = 0 THEN vector ELSE Round(g[n - 1], counts, direction, n)
      BY <2>2
    <2>4. Rounds(g, vector, counts, direction, last + 1)
      BY <2>3 DEF Rounds
    <2> QED BY <2>4
  <1>3. \A last \in Nat : last \in T
    <2> HIDE DEF T
    <2> QED BY <1>1, <1>2, SetInduction
  <1> QED BY <1>3

\* There are as many rounds as the greatest count says.
IsLast(n, counts) == n \in {counts[l] : l \in Lanes} /\ \A l \in Lanes : counts[l] <= n

\* The loop of the cell shift ends: some round is the last one.
LEMMA GreatestCount ==
    ASSUME NEW counts, \A l \in Lanes : counts[l] \in Nat,
           NEW bound \in Nat, \A l \in Lanes : counts[l] <= bound
    PROVE  \E n \in Nat : IsLast(n, counts)
  <1> DEFINE T == {bound - counts[l] : l \in Lanes}
  <1>1. T \subseteq Nat /\ T # {}
    <2>1. 0 \in Lanes
      BY LaneNumbers
    <2> QED BY <2>1
  <1>2. PICK x \in T : \A y \in T : x <= y
    <2> HIDE DEF T
    <2> QED BY <1>1, LeastNumber
  <1>3. PICK m \in Lanes : x = bound - counts[m]
    BY <1>2
  <1>4. ASSUME NEW l \in Lanes PROVE counts[l] <= counts[m]
    <2>1. bound - counts[m] <= bound - counts[l]
      BY <1>2, <1>3
    <2>2. counts[m] \in Nat /\ counts[l] \in Nat
      OBVIOUS
    <2> QED BY <2>1, <2>2
  <1> QED BY <1>3, <1>4 DEF IsLast

\* What ShiftedCells chooses is the vector after the last round.
LEMMA ShiftedCellsRounds ==
    ASSUME NEW vector, NEW counts, \A l \in Lanes : counts[l] \in Nat,
           NEW bound \in Nat, \A l \in Lanes : counts[l] <= bound,
           NEW direction
    PROVE  \E last, f :
               /\ last \in Nat
               /\ IsLast(last, counts)
               /\ Rounds(f, vector, counts, direction, last)
               /\ ShiftedCells(vector, counts, direction) = f[last]
  <1> DEFINE last == CHOOSE n \in {counts[l] : l \in Lanes} : \A l \in Lanes : counts[l] <= n
             f == CHOOSE f : Rounds(f, vector, counts, direction, last)
  <1>1. last \in Nat /\ IsLast(last, counts)
    <2>1. PICK n \in Nat : IsLast(n, counts)
      BY GreatestCount
    <2>2. \E k \in {counts[l] : l \in Lanes} : \A l \in Lanes : counts[l] <= k
      BY <2>1 DEF IsLast
    <2> QED BY <2>2 DEF IsLast
  <1>2. ShiftedCells(vector, counts, direction) = f[last]
    BY DEF ShiftedCells, Rounds, Round
  <1> HIDE DEF last
  <1>3. Rounds(f, vector, counts, direction, last)
    BY <1>1, RoundsExist
  <1> QED BY <1>1, <1>2, <1>3

\* A vector shifted by cells is a vector of cells.
LEMMA ShiftedCellsTyped ==
    ASSUME NEW vector \in Vectors, NEW counts, \A l \in Lanes : counts[l] \in Nat,
           NEW bound \in Nat, \A l \in Lanes : counts[l] <= bound,
           NEW direction \in {-1, 1}
    PROVE  ShiftedCells(vector, counts, direction) \in Vectors
  <1>1. PICK last, f :
            /\ last \in Nat
            /\ Rounds(f, vector, counts, direction, last)
            /\ ShiftedCells(vector, counts, direction) = f[last]
    BY ShiftedCellsRounds
  <1>2. \A n \in 0..last :
            f[n] = IF n = 0 THEN vector ELSE Round(f[n - 1], counts, direction, n)
    BY <1>1 DEF Rounds
  <1> DEFINE T == {n \in Nat : n <= last => f[n] \in Vectors}
  <1>3. 0 \in T
    BY <1>2
  <1>4. ASSUME NEW n \in Nat, n \in T PROVE n + 1 \in T
    <2> SUFFICES ASSUME n + 1 <= last PROVE f[n + 1] \in Vectors
      OBVIOUS
    <2>1. f[n] \in Vectors
      BY <1>1, <1>4
    <2>2. f[n + 1] = Round(f[n], counts, direction, n + 1)
      BY <1>2
    <2>3. \A l \in Lanes : (l + direction) % VectorLength \in Lanes
      BY LaneNumbers
    <2> QED BY <2>1, <2>2, <2>3 DEF Round, Vectors
  <1>5. \A n \in Nat : n \in T
    <2> HIDE DEF T
    <2> QED BY <1>3, <1>4, SetInduction
  <1> QED BY <1>1, <1>5

\* Lanes that are all shifted by the same number find what is as many lanes on.
LEMMA ShiftedTogether ==
    ASSUME NEW vector, NEW count \in Nat, NEW counts,
           \A l \in Lanes : counts[l] = count, NEW direction \in {-1, 1}
    PROVE  \A l \in Lanes :
               ShiftedCells(vector, counts, direction)[l]
                   = vector[(l + direction * count) % VectorLength]
  <1>1. PICK last, f :
            /\ last \in Nat
            /\ IsLast(last, counts)
            /\ Rounds(f, vector, counts, direction, last)
            /\ ShiftedCells(vector, counts, direction) = f[last]
    <2>1. \A l \in Lanes : counts[l] \in Nat /\ counts[l] <= count
      OBVIOUS
    <2> QED BY <2>1, ShiftedCellsRounds
  <1>2. last = count
    BY <1>1 DEF IsLast
  <1>3. \A n \in 0..last :
            f[n] = IF n = 0 THEN vector ELSE Round(f[n - 1], counts, direction, n)
    BY <1>1 DEF Rounds
  <1> DEFINE Moved(n) == \A l \in Lanes : f[n][l] = vector[(l + direction * n) % VectorLength]
             T == {n \in Nat : n <= last => Moved(n)}
  <1>4. 0 \in T
    <2>1. \A l \in Lanes : (l + direction * 0) % VectorLength = l
      BY LaneNumbers
    <2>2. f[0] = vector
      BY <1>1, <1>3
    <2> QED BY <2>1, <2>2
  <1>5. ASSUME NEW n \in Nat, n \in T PROVE n + 1 \in T
    <2> SUFFICES ASSUME n + 1 <= last, NEW l \in Lanes
                 PROVE  f[n + 1][l] = vector[(l + direction * (n + 1)) % VectorLength]
      OBVIOUS
    <2> DEFINE m == (l + direction) % VectorLength
    <2>1. m \in Lanes /\ l \in Int /\ l + direction \in Int /\ VectorLength \in Nat \ {0}
      BY LaneNumbers
    <2>2. f[n + 1][l] = f[n][m]
      <3>1. f[n + 1] = Round(f[n], counts, direction, n + 1)
        BY <1>3
      <3>2. counts[l] >= n + 1
        BY <1>2
      <3> QED BY <3>1, <3>2 DEF Round
    <2>3. f[n][m] = vector[(m + direction * n) % VectorLength]
      <3>1. n <= last
        BY <1>1
      <3>2. Moved(n)
        BY <1>5, <3>1
      <3> HIDE DEF m
      <3> QED BY <2>1, <3>2
    <2>4. (m + direction * n) % VectorLength = (l + direction * (n + 1)) % VectorLength
      <3> DEFINE q == (l + direction) \div VectorLength
      <3>1. q \in Int /\ m \in Int /\ l + direction = VectorLength * q + m
        BY <2>1, Division, LaneNumbers
      <3> HIDE DEF q, m
      <3>2. direction * n \in Int /\ m + direction * n \in Int
        BY <3>1
      <3>3. l + direction * (n + 1) = (m + direction * n) + VectorLength * q
        <4>1. direction * (n + 1) = direction * n + direction
          OBVIOUS
        <4> QED BY <2>1, <3>1, <3>2, <4>1
      <3> DEFINE a == m + direction * n
                 b == l + direction * (n + 1)
                 v == VectorLength
      <3>4. v \in Nat \ {0} /\ a \in Int /\ q \in Int /\ b = a + v * q
        BY <2>1, <3>1, <3>2, <3>3
      <3> HIDE DEF a, b, v
      <3>5. b % v = a % v
        BY ONLY <3>4, SameRest
      <3> QED BY ONLY <3>5 DEF a, b, v
    <2> QED BY <2>2, <2>3, <2>4
  <1>6. \A n \in Nat : n \in T
    <2> HIDE DEF T
    <2> QED BY <1>4, <1>5, SetInduction
  <1> QED BY <1>1, <1>2, <1>6

-----------------------------------------------------------------------------
(***************************************************************************)
(* Reductions.                                                             *)
(***************************************************************************)
SignedRule(g, cells, B) ==
    g = [s \in SUBSET B |->
            IF s = {} THEN 0
            ELSE Signed(cells[CHOOSE x \in s : TRUE]) + g[s \ {CHOOSE x \in s : TRUE}]]

\* The sum that REDUCE takes, over a function.
LEMMA SumOfSigned ==
    ASSUME NEW cells, NEW B \in SUBSET Lanes
    PROVE  SumOf(LAMBDA l : Signed(cells[l]), B)
               = SumOver([l \in Lanes |-> Signed(cells[l])], B)
  <1> DEFINE f == [l \in Lanes |-> Signed(cells[l])]
  <1>1. ASSUME NEW s \in SUBSET B, s # {}
        PROVE  f[CHOOSE x \in s : TRUE] = Signed(cells[CHOOSE x \in s : TRUE])
    BY <1>1
  <1> HIDE DEF f
  <1>2. \A g : [s \in SUBSET B |->
                   IF s = {} THEN 0
                   ELSE f[CHOOSE x \in s : TRUE] + g[s \ {CHOOSE x \in s : TRUE}]]
               = [s \in SUBSET B |->
                   IF s = {} THEN 0
                   ELSE Signed(cells[CHOOSE x \in s : TRUE]) + g[s \ {CHOOSE x \in s : TRUE}]]
    BY <1>1
  <1>3. \A g : SumRule(g, f, B) <=> SignedRule(g, cells, B)
    BY <1>2 DEF SumRule, SignedRule
  <1>4. IsFiniteSet(B)
    BY LaneNumbers, FS_Subset
  <1> DEFINE g == CHOOSE g : SignedRule(g, cells, B)
  <1>5. SignedRule(g, cells, B)
    BY <1>3, <1>4, SumRuleExists
  <1>6. SumOf(LAMBDA l : Signed(cells[l]), B) = g[B]
    BY DEF SumOf, MapThenSumSet, MapThenFoldSet, SignedRule
  <1>7. PICK h : SumRule(h, f, B) /\ SumOver(f, B) = h[B]
    BY <1>4, SumOverRule
  <1>8. B \in SUBSET B /\ SumRule(g, f, B)
    BY <1>3, <1>5
  <1> HIDE DEF g
  <1>9. g[B] = h[B]
    BY <1>4, <1>7, <1>8, SumRuleUnique
  <1>10. SumOf(LAMBDA l : Signed(cells[l]), B) = SumOver(f, B)
    BY <1>6, <1>7, <1>9
  <1> QED BY <1>10 DEF f

-----------------------------------------------------------------------------
(***************************************************************************)
(* Numbers of two cells: what is left of their sums, differences and       *)
(* products, from the sums, differences and products of their halves.      *)
(***************************************************************************)
\* A number of two cells is less than the number of their values, and what a
\* number is but for a multiple of that is its rest.
LEMMA PairIsRest ==
    ASSUME NEW h \in Cells, NEW c \in Cells, NEW k \in Int, NEW n \in Int,
           n = Values * h + c + (Values * Values) * k
    PROVE  n % (Values * Values) = Values * h + c
  <1>1. PICK v : v = Values
    OBVIOUS
  <1>2. v \in Nat \ {0} /\ h \in 0..(v - 1) /\ c \in 0..(v - 1)
    BY <1>1, ValuesEven DEF Cells
  <1>3. v * v \in Nat \ {0}
    BY ONLY <1>2
  <1>4. v * h + c \in 0..(v * v - 1)
    <2>1. h <= v - 1 /\ c <= v - 1 /\ h \in Nat /\ c \in Nat /\ v \in Nat
      BY ONLY <1>2
    <2>2. v * h <= v * (v - 1) /\ v * h \in Nat
      BY ONLY <2>1
    <2>3. v * (v - 1) = v * v - v
      BY ONLY <2>1
    <2>4. v * v \in Nat
      BY ONLY <2>1
    <2> QED BY ONLY <2>1, <2>2, <2>3, <2>4
  <1>5. PICK w : w = v * v
    OBVIOUS
  <1>6. PICK r : r = v * h + c
    OBVIOUS
  <1>7. n = r + w * k
    BY <1>1, <1>5, <1>6
  <1>8. w \in Nat \ {0} /\ r \in 0..(w - 1)
    BY ONLY <1>3, <1>4, <1>5, <1>6
  <1>9. (r + w * k) % w = r % w /\ r % w = r
    <2>1. r \in Int
      BY ONLY <1>8
    <2> QED BY ONLY <1>8, <2>1, SameRest, SmallRest
  <1> QED BY ONLY <1>1, <1>5, <1>6, <1>7, <1>9

\* What a number of cells is but for a multiple of their values.
LEMMA CellAndRest ==
    ASSUME NEW n \in Int
    PROVE  \E q \in Int : n = Values * q + Cell(n)
  <1>1. Values \in Nat \ {0}
    BY ValuesEven
  <1>2. n \div Values \in Int /\ n = Values * (n \div Values) + (n % Values)
    BY <1>1, Division
  <1> QED BY <1>2 DEF Cell

\* The carry of a sum, and the borrow of a difference.
Carry(a, b)  == IF a + b >= Values THEN 1 ELSE 0
Borrow(a, b) == IF a < b THEN 1 ELSE 0

\* A sum and a difference of cells, from what is left in the register and what
\* ADD and SUB leave for ADDC and SUBC.
LEMMA CarriedOut ==
    ASSUME NEW a \in Cells, NEW b \in Cells
    PROVE  /\ a + b = Values * Carry(a, b) + Cell(a + b)
           /\ a - b = Cell(a - b) - Values * Borrow(a, b)
  <1>1. PICK v : v = Values
    OBVIOUS
  <1>2. v \in Nat \ {0} /\ a \in 0..(v - 1) /\ b \in 0..(v - 1)
    BY <1>1, ValuesEven DEF Cells
  <1>3. \A q \in Int : \A r \in 0..(v - 1) : (v * q + r) % v = r
    BY ONLY <1>2, DividedUniquely
  <1>4. ASSUME a + b >= v
        PROVE  a + b = v * 1 + ((a + b) % v)
    <2>1. a + b - v \in 0..(v - 1) /\ a + b = v * 1 + (a + b - v)
      BY ONLY <1>2, <1>4
    <2> QED BY ONLY <1>2, <1>3, <2>1
  <1>5. ASSUME ~(a + b >= v)
        PROVE  a + b = v * 0 + ((a + b) % v)
    <2>1. a + b \in 0..(v - 1) /\ a + b = v * 0 + (a + b)
      BY ONLY <1>2, <1>5
    <2> QED BY ONLY <1>2, <1>3, <2>1
  <1>6. ASSUME a < b
        PROVE  a - b = ((a - b) % v) - v * 1
    <2>1. a - b + v \in 0..(v - 1) /\ a - b = v * (-1) + (a - b + v)
      BY ONLY <1>2, <1>6
    <2>2. (a - b) % v = a - b + v
      BY ONLY <1>2, <1>3, <2>1
    <2> QED BY ONLY <1>2, <2>2
  <1>7. ASSUME ~(a < b)
        PROVE  a - b = ((a - b) % v) - v * 0
    <2>1. a - b \in 0..(v - 1) /\ a - b = v * 0 + (a - b)
      BY ONLY <1>2, <1>7
    <2>2. (a - b) % v = a - b
      BY ONLY <1>2, <1>3, <2>1
    <2> QED BY ONLY <1>2, <2>2
  <1> QED BY <1>1, <1>4, <1>5, <1>6, <1>7 DEF Cell, Carry, Borrow

\* Sums and differences of numbers of two cells: what ADD and ADDC, SUB and SUBC
\* leave in two registers.
LEMMA SumOfPairs ==
    ASSUME NEW a0 \in Cells, NEW a1 \in Cells, NEW a2 \in Cells, NEW a3 \in Cells
    PROVE  /\ Values * Cell(a2 + a3 + Carry(a0, a1)) + Cell(a0 + a1)
                  = ((Values * a2 + a0) + (Values * a3 + a1)) % (Values * Values)
           /\ Values * Cell(a2 - a3 - Borrow(a0, a1)) + Cell(a0 - a1)
                  = ((Values * a2 + a0) - (Values * a3 + a1)) % (Values * Values)
  <1>1. PICK v : v = Values
    OBVIOUS
  <1>2. v \in Int /\ a0 \in Int /\ a1 \in Int /\ a2 \in Int /\ a3 \in Int
    BY <1>1, ValuesEven DEF Cells
  <1>3. PICK s : s = a2 + a3 + Carry(a0, a1)
    OBVIOUS
  <1>4. PICK d : d = a2 - a3 - Borrow(a0, a1)
    OBVIOUS
  <1>5. PICK c \in {0, 1} : c = Carry(a0, a1)
    BY DEF Carry
  <1>6. PICK b \in {0, 1} : b = Borrow(a0, a1)
    BY DEF Borrow
  <1>7. s \in Int /\ d \in Int /\ s = a2 + a3 + c /\ d = a2 - a3 - b
    BY ONLY <1>2, <1>3, <1>4, <1>5, <1>6
  <1>8. PICK q \in Int : s = Values * q + Cell(s)
    BY <1>7, CellAndRest
  <1>9. PICK p \in Int : d = Values * p + Cell(d)
    BY <1>7, CellAndRest
  <1>10. /\ Cell(s) \in Cells /\ Cell(d) \in Cells
         /\ Cell(a0 + a1) \in Cells /\ Cell(a0 - a1) \in Cells
    BY <1>2, <1>7, CellIsCell
  <1>11. PICK x : x = Cell(s)
    OBVIOUS
  <1>12. PICK y : y = Cell(d)
    OBVIOUS
  <1>13. PICK e : e = Cell(a0 + a1)
    OBVIOUS
  <1>14. PICK f : f = Cell(a0 - a1)
    OBVIOUS
  <1>15. x \in Int /\ y \in Int /\ e \in Int /\ f \in Int
    BY <1>10, <1>11, <1>12, <1>13, <1>14, ValuesEven DEF Cells
  <1>16. a0 + a1 = v * c + e /\ a0 - a1 = f - v * b
    BY <1>1, <1>5, <1>6, <1>13, <1>14, CarriedOut
  <1>17. s = v * q + x /\ d = v * p + y
    BY <1>1, <1>8, <1>9, <1>11, <1>12
  <1>18. (v * a2 + a0) + (v * a3 + a1) = v * x + e + (v * v) * q
    <2>1. (v * a2 + a0) + (v * a3 + a1) = v * (a2 + a3 + c) + e
      BY ONLY <1>2, <1>5, <1>15, <1>16
    <2>2. v * (v * q + x) = v * x + (v * v) * q
      BY ONLY <1>2, <1>8, <1>15
    <2>3. a2 + a3 + c = v * q + x
      BY <1>7, <1>17
    <2>4. v * x \in Int /\ (v * v) * q \in Int
      BY ONLY <1>2, <1>8, <1>15
    <2> QED BY ONLY <1>15, <2>1, <2>2, <2>3, <2>4
  <1>19. (v * a2 + a0) - (v * a3 + a1) = v * y + f + (v * v) * p
    <2>1. (v * a2 + a0) - (v * a3 + a1) = v * (a2 - a3 - b) + f
      BY ONLY <1>2, <1>6, <1>15, <1>16
    <2>2. v * (v * p + y) = v * y + (v * v) * p
      BY ONLY <1>2, <1>9, <1>15
    <2> QED BY ONLY <1>2, <1>6, <1>7, <1>9, <1>15, <1>17, <2>1, <2>2
  <1>20. x \in Cells /\ y \in Cells /\ e \in Cells /\ f \in Cells
    BY <1>10, <1>11, <1>12, <1>13, <1>14
  <1>21. /\ (v * a2 + a0) + (v * a3 + a1) \in Int
         /\ (v * a2 + a0) - (v * a3 + a1) \in Int
    BY ONLY <1>2
  <1>22. ((v * a2 + a0) + (v * a3 + a1)) % (v * v) = v * x + e
    BY <1>1, <1>8, <1>18, <1>20, <1>21, PairIsRest
  <1>23. ((v * a2 + a0) - (v * a3 + a1)) % (v * v) = v * y + f
    BY <1>1, <1>9, <1>19, <1>20, <1>21, PairIsRest
  <1> QED BY <1>1, <1>3, <1>4, <1>11, <1>12, <1>13, <1>14, <1>22, <1>23

\* The product of two of them, from the products of their halves.
LEMMA ProductOfPairs ==
    ASSUME NEW a0 \in Cells, NEW a1 \in Cells, NEW a2 \in Cells, NEW a3 \in Cells
    PROVE  Values * Cell((a0 * a1) \div Values + a0 * a3 + a2 * a1) + Cell(a0 * a1)
               = ((Values * a2 + a0) * (Values * a3 + a1)) % (Values * Values)
  <1>1. PICK v : v = Values
    OBVIOUS
  <1>2. v \in Int /\ a0 \in Int /\ a1 \in Int /\ a2 \in Int /\ a3 \in Int
    BY <1>1, ValuesEven DEF Cells
  <1>3. PICK p : p = a0 * a1
    OBVIOUS
  <1>4. PICK d : d = p \div v
    OBVIOUS
  <1>5. PICK e : e = Cell(p)
    OBVIOUS
  <1>6. p \in Int
    BY ONLY <1>2, <1>3
  <1>7. d \in Int /\ p = v * d + e /\ e \in Cells
    BY <1>1, <1>4, <1>5, <1>6, Division, ValuesEven, CellIsCell DEF Cell
  <1>8. e \in Int
    BY <1>7, ValuesEven DEF Cells
  <1>9. PICK m : m = a0 * a3
    OBVIOUS
  <1>10. PICK n : n = a2 * a1
    OBVIOUS
  <1>11. m \in Int /\ n \in Int
    BY ONLY <1>2, <1>9, <1>10
  <1>12. d + m + n \in Int
    BY ONLY <1>7, <1>11
  <1>13. PICK q \in Int : d + m + n = Values * q + Cell(d + m + n)
    BY <1>12, CellAndRest
  <1>14. PICK h : h = Cell(d + m + n)
    OBVIOUS
  <1>15. h \in Cells
    BY <1>12, <1>14, CellIsCell
  <1>16. h \in Int
    BY <1>15, ValuesEven DEF Cells
  <1>17. d + m + n = v * q + h
    BY <1>1, <1>13, <1>14
  <1>18. (v * a2 + a0) * (v * a3 + a1) = v * h + e + (v * v) * (a2 * a3 + q)
    <2>1. (v * a2 + a0) * (v * a3 + a1)
              = (v * v) * (a2 * a3) + v * (a2 * a1) + v * (a0 * a3) + a0 * a1
      BY ONLY <1>2
    <2>2. (v * a2 + a0) * (v * a3 + a1) = (v * v) * (a2 * a3) + v * n + v * m + v * d + e
      BY ONLY <1>2, <1>3, <1>7, <1>8, <1>9, <1>10, <2>1
    <2>3. v * n + v * m + v * d = v * (d + m + n)
      BY ONLY <1>2, <1>7, <1>11
    <2>4. v * (v * q + h) = (v * v) * q + v * h
      BY ONLY <1>2, <1>13, <1>16
    <2>5. (v * v) * (a2 * a3 + q) = (v * v) * (a2 * a3) + (v * v) * q
      BY ONLY <1>2, <1>13
    <2>6. v * n + v * m + v * d = (v * v) * q + v * h
      BY <1>17, <2>3, <2>4
    <2>7. /\ (v * v) * (a2 * a3) \in Int /\ v * n \in Int /\ v * m \in Int /\ v * d \in Int
          /\ (v * v) * q \in Int /\ v * h \in Int
      BY ONLY <1>2, <1>7, <1>11, <1>13, <1>16
    <2> QED BY ONLY <1>8, <2>2, <2>5, <2>6, <2>7
  <1>19. (v * a2 + a0) * (v * a3 + a1) \in Int /\ a2 * a3 + q \in Int
    BY ONLY <1>2, <1>13
  <1>20. ((v * a2 + a0) * (v * a3 + a1)) % (v * v) = v * h + e
    BY <1>1, <1>7, <1>15, <1>18, <1>19, PairIsRest
  <1> QED BY <1>1, <1>3, <1>4, <1>5, <1>9, <1>10, <1>14, <1>20

\* Of a number below zero, the number without its sign: zero less its halves.
LEMMA PairNegated ==
    ASSUME NEW a0 \in Cells, NEW a2 \in Cells, Signed(a2) < 0,
           NEW z, z = Values * Cell(0 - a2 - Borrow(0, a0)) + Cell(0 - a0)
    PROVE  /\ z = Values * Values - (Values * a2 + a0)
           /\ ~(2 * (Values * a2 + a0) < Values * Values)
  <1>1. PICK v : v = Values
    OBVIOUS
  <1>2. PICK x : x = v * a2 + a0
    OBVIOUS
  <1>3. /\ v \in Nat \ {0} /\ a0 \in 0..(v - 1) /\ a2 \in 0..(v - 1) /\ ~(2 * a2 < v)
        /\ 0 \in Cells
    BY <1>1, ValuesEven DEF Cells, Signed
  <1>4. z = (0 - x) % (v * v)
    <2>1. Values * 0 + 0 = 0
      BY ValuesEven
    <2>2. z = ((Values * 0 + 0) - (Values * a2 + a0)) % (Values * Values)
      BY <1>3, SumOfPairs
    <2> QED BY <1>1, <1>2, <2>1, <2>2
  <1>5. a2 \in Nat /\ a0 \in Nat /\ v \in Nat /\ a2 <= v - 1 /\ a0 <= v - 1 /\ 1 <= a2 /\ v <= 2 * a2
    BY ONLY <1>3
  <1>6. /\ v * a2 <= v * (v - 1) /\ v * 1 <= v * a2 /\ v * v <= v * (2 * a2)
        /\ v * a2 \in Nat /\ v * v \in Nat
        /\ v * (v - 1) = v * v - v /\ v * (2 * a2) = 2 * (v * a2)
    BY ONLY <1>5
  <1>7. PICK w : w = v * v
    OBVIOUS
  <1>8. /\ w \in Nat \ {0} /\ x \in Int /\ 0 < x /\ x < w /\ ~(2 * x < w)
    BY ONLY <1>2, <1>3, <1>5, <1>6, <1>7
  <1>9. w - x \in 0..(w - 1) /\ 0 - x = w * (-1) + (w - x)
    BY ONLY <1>8
  <1>10. (0 - x) % w = w - x
    <2>1. (w * (-1) + (w - x)) % w = w - x
      BY ONLY <1>8, <1>9, DividedUniquely
    <2> QED BY ONLY <1>9, <2>1
  <1> QED BY <1>1, <1>2, <1>4, <1>7, <1>8, <1>10

\* A number that is not below zero is in the lower half of the numbers of two cells.
LEMMA PairPositive ==
    ASSUME NEW a0 \in Cells, NEW a2 \in Cells, ~(Signed(a2) < 0)
    PROVE  2 * (Values * a2 + a0) < Values * Values /\ Signed(a2) = a2
  <1>1. PICK v : v = Values
    OBVIOUS
  <1>2. PICK h : h = Half
    OBVIOUS
  <1>3. /\ v \in Nat /\ h \in Nat /\ a0 \in 0..(v - 1) /\ a2 \in 0..(v - 1) /\ 2 * a2 < v
        /\ v = 2 * h /\ Signed(a2) = a2
    BY <1>1, <1>2, ValuesEven DEF Cells, Signed
  <1>4. a2 <= h - 1 /\ a2 \in Nat /\ a0 \in Nat /\ a0 <= v - 1
    BY ONLY <1>3
  <1>5. v * a2 <= v * (h - 1) /\ v * a2 \in Nat /\ v * (h - 1) = v * h - v
    BY ONLY <1>3, <1>4
  <1>6. v * v = 2 * (v * h) /\ v * h \in Nat
    BY ONLY <1>3
  <1>7. 2 * (v * a2 + a0) < v * v
    BY ONLY <1>3, <1>4, <1>5, <1>6
  <1> QED BY <1>1, <1>3, <1>7

\* Half of the numbers of two cells are those whose upper cell is below Half.
LEMMA HalfOfPairs ==
    (Values * Values) \div 2 = Values * Half /\ 2 * (Values * Half) = Values * Values
  <1>1. PICK v : v = Values
    OBVIOUS
  <1>2. PICK h : h = Half
    OBVIOUS
  <1>3. v \in Nat /\ h \in Nat /\ v = 2 * h
    BY <1>1, <1>2, ValuesEven
  <1>4. v * v = 2 * (v * h) /\ v * h \in Nat
    BY ONLY <1>3
  <1>5. (v * v) \div 2 = v * h
    BY ONLY <1>4
  <1> QED BY <1>1, <1>2, <1>4, <1>5

\* What the upper half with its sign and the lower half without one amount to:
\* REDUCE of the upper halves and REDUCE_U of the lower ones see these.
LEMMA PairWithSign ==
    ASSUME NEW c \in Cells, NEW h \in Cells, NEW z, z = Values * h + c,
           ~(Values * Values < 2 * z)
    PROVE  Values * Signed(h) + c = IF z = (Values * Values) \div 2 THEN -z ELSE z
  <1>1. PICK v : v = Values
    OBVIOUS
  <1>2. PICK b : b = Half
    OBVIOUS
  <1>3. v \in Nat \ {0} /\ b \in Nat /\ v = 2 * b /\ c \in 0..(v - 1) /\ h \in 0..(v - 1)
    BY <1>1, <1>2, ValuesEven DEF Cells
  <1>4. /\ v \in Nat /\ c \in Nat /\ h \in Nat /\ z \in Nat /\ ~(v * v < 2 * z)
        /\ z = v * h + c /\ v * h \in Nat /\ v * b \in Nat
    <2>1. z = v * h + c
      BY <1>1
    <2>2. ~(v * v < 2 * z)
      BY <1>1
    <2>3. v * h \in Nat /\ v * b \in Nat
      BY ONLY <1>3
    <2> QED BY ONLY <1>3, <2>1, <2>2, <2>3
  <1>5. (Values * Values) \div 2 = v * b /\ 2 * (v * b) = v * v
    BY <1>1, <1>2, HalfOfPairs
  <1>6. CASE 2 * h < v
    <2>1. Signed(h) = h
      BY <1>1, <1>6 DEF Signed
    <2>2. ~(h < b) => FALSE
      BY ONLY <1>3, <1>6
    <2>3. h <= b - 1
      BY ONLY <1>3, <2>2
    <2>4. v * h <= v * (b - 1) /\ v * (b - 1) = v * b - v
      BY ONLY <1>3, <1>4, <2>3
    <2>5. z # v * b
      <3>1. c <= v - 1
        BY ONLY <1>3
      <3> QED BY ONLY <1>4, <2>4, <3>1
    <2> QED BY <1>1, <1>4, <1>5, <2>1, <2>5
  <1>7. CASE ~(2 * h < v)
    <2>1. Signed(h) = h - v
      BY <1>1, <1>7 DEF Signed
    <2>2. b <= h
      BY ONLY <1>3, <1>7
    <2>3. v * b <= v * h
      BY ONLY <1>3, <1>4, <2>2
    <2>4. z = v * b
      BY ONLY <1>4, <1>5, <2>3
    <2>5. v * (h - v) = v * h - v * v /\ v * v \in Nat
      BY ONLY <1>3, <1>4
    <2>6. v * (h - v) + c = -z
      BY ONLY <1>4, <1>5, <2>4, <2>5
    <2> QED BY <1>1, <1>5, <2>1, <2>4, <2>6
  <1> QED BY <1>6, <1>7

\* The sum of numbers of two cells is made of the sums of their halves.
LEMMA SumOfHalves ==
    ASSUME NEW S, IsFiniteSet(S), NEW v \in Int, NEW high, NEW low, NEW both,
           \A x \in S : /\ high[x] \in Int /\ low[x] \in Int
                        /\ both[x] = v * high[x] + low[x]
    PROVE  v * SumOver(high, S) + SumOver(low, S) = SumOver(both, S)
  <1> DEFINE Good == {s \in SUBSET S :
                         v * SumOver(high, s) + SumOver(low, s) = SumOver(both, s)}
  <1>1. \A x \in S : both[x] \in Int
    <2> SUFFICES ASSUME NEW x \in S PROVE both[x] \in Int
      OBVIOUS
    <2>1. PICK h : h = high[x]
      OBVIOUS
    <2>2. v * h \in Int
      BY <2>1
    <2> QED BY <2>1, <2>2
  <1>2. {} \in Good
    BY SumOfNone
  <1>3. ASSUME NEW s \in SUBSET S, NEW x \in S \ s, s \in Good
        PROVE  s \cup {x} \in Good
    <2>1. /\ SumOver(high, s \cup {x}) = high[x] + SumOver(high, s)
          /\ SumOver(low, s \cup {x}) = low[x] + SumOver(low, s)
          /\ SumOver(both, s \cup {x}) = both[x] + SumOver(both, s)
      BY <1>1, SumOfMore
    <2>2. /\ SumOver(high, s) \in Int /\ SumOver(low, s) \in Int
          /\ SumOver(both, s) \in Int
      BY <1>1, SumIsInt
    <2>3. v * SumOver(high, s) + SumOver(low, s) = SumOver(both, s)
      BY <1>3
    <2>4. PICK a : a = SumOver(high, s)
      OBVIOUS
    <2>5. PICK b : b = SumOver(low, s)
      OBVIOUS
    <2>6. PICK h : h = high[x]
      OBVIOUS
    <2>7. PICK c : c = low[x]
      OBVIOUS
    <2>8. a \in Int /\ b \in Int /\ h \in Int /\ c \in Int
      BY <2>2, <2>4, <2>5, <2>6, <2>7
    <2>9. v * (h + a) + (c + b) = (v * h + c) + (v * a + b)
      BY ONLY <2>8, v \in Int
    <2> QED BY <2>1, <2>3, <2>4, <2>5, <2>6, <2>7, <2>9
  <1> HIDE DEF Good
  <1>4. S \in Good
    BY <1>2, <1>3, SubsetInduction
  <1> QED BY <1>4 DEF Good

=============================================================================
