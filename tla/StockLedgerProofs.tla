-------------------------- MODULE StockLedgerProofs --------------------------
(***************************************************************************)
(* What the components that move stock share in their proofs: what the     *)
(* stock promise gives to each that keeps it, and the sums their services  *)
(* compare (the reduce calls over the lines of a transfer or an order).    *)
(***************************************************************************)
EXTENDS StockLedger, FiniteSetsExt, FiniteSetTheorems, TLAPS

StockInv == NonNegative /\ Balanced

\* Whoever only changes stock by posting what they move, from empty stock on,
\* never oversells a position and can always rebuild it from its movements.
THEOREM PromiseMeansSafe == Spec => [](NonNegative /\ Balanced)
<1>1. Init => StockInv
  BY DEF Init, StockInv, NonNegative, Balanced
<1>2. StockInv /\ [Commit]_stockVars => StockInv'
  <2>. SUFFICES ASSUME StockInv, [Commit]_stockVars PROVE StockInv'
    OBVIOUS
  <2>1. CASE Commit
    <3>. SUFFICES ASSUME NEW i \in Items PROVE ledger'[i] = onHand'[i]
      BY <2>1 DEF Commit, StockInv, NonNegative, Balanced
    <3>1. /\ onHand[i] \in Int /\ ledger[i] \in Int
          /\ onHand'[i] \in Int /\ ledger'[i] \in Int
          /\ ledger[i] = onHand[i]
          /\ ledger'[i] - ledger[i] = onHand'[i] - onHand[i]
      BY <2>1 DEF Commit, StockInv, NonNegative, Balanced
    <3>. QED
      BY <3>1
  <2>2. CASE UNCHANGED stockVars
    BY <2>2 DEF stockVars, StockInv, NonNegative, Balanced
  <2>. QED
    BY <2>1, <2>2
<1>. QED
  BY <1>1, <1>2, PTL DEF Spec, StockInv

-----------------------------------------------------------------------------
(* Sums over finite sets. MapThenSumSet is a recursive function over the   *)
(* subsets of its set; that this function exists, and that it does not     *)
(* depend on the set it was defined for, is proved by induction.           *)

\* Induction over the naturals, for a set instead of a predicate.
LEMMA NatSetInduction ==
  ASSUME NEW T \in SUBSET Nat, 0 \in T, \A n \in T : n + 1 \in T
  PROVE  T = Nat
<1> SUFFICES ASSUME Nat \ T # {} PROVE FALSE
  OBVIOUS
<1>1. PICK x \in Nat \ T : \A y \in Nat \ T : ~(y < x)
  <2> DEFINE R == OpToRel(<, Nat)
  <2>1. IsWellFoundedOn(R, Nat)
    BY NatLessThanWellFounded
  <2>2. \A x, y \in Nat : y < x => <<y, x>> \in R
    BY DEF OpToRel
  <2> HIDE DEF R
  <2>3. Nat \ T \subseteq Nat
    OBVIOUS
  <2>4. PICK x \in Nat \ T : \A y \in Nat \ T : ~(<<y, x>> \in R)
    BY <2>1, <2>3, WFMin
  <2> QED
    BY <2>2, <2>4
<1>2. x # 0 /\ x - 1 \in Nat /\ x - 1 < x /\ (x - 1) + 1 = x
  OBVIOUS
<1>4. x - 1 \in T
  BY <1>1, <1>2
<1> QED
  BY <1>1, <1>2, <1>4

\* The element of a set at which MapThenSumSet splits it.
AnyOf(s) == CHOOSE x \in s : TRUE

\* g maps every set of D to the sum of f over it.
IsSum(g, f, D) ==
  g = [s \in D |-> IF s = {} THEN 0 ELSE f[AnyOf(s)] + g[s \ {AnyOf(s)}]]

\* Total and the sums over orders are of this form.
SumOf(f, S) == MapThenSumSet(LAMBDA x : f[x], S)

\* The recursive function inside MapThenSumSet is such a g, if there is one.
LEMMA SumUnfolds ==
  ASSUME NEW f, NEW S, \E g : IsSum(g, f, SUBSET S)
  PROVE  \E g : IsSum(g, f, SUBSET S) /\ SumOf(f, S) = g[S]
BY DEF IsSum, SumOf, MapThenSumSet, MapThenFoldSet, AnyOf

\* The subsets of S with at most n elements.
UpTo(S, n) == {s \in SUBSET S : Cardinality(s) <= n}

\* For a finite set there is one: by induction over the size of its subsets.
LEMMA SumGraphExists ==
  ASSUME NEW f, NEW S, IsFiniteSet(S)
  PROVE  \E g : IsSum(g, f, SUBSET S)
<1> DEFINE T == {n \in Nat : \E g : IsSum(g, f, UpTo(S, n))}
<1>1. 0 \in T
  <2> DEFINE g == [s \in UpTo(S, 0) |-> 0]
  <2>1. \A s \in UpTo(S, 0) : s = {}
    <3> SUFFICES ASSUME NEW s \in UpTo(S, 0) PROVE s = {}
      OBVIOUS
    <3>1. IsFiniteSet(s) /\ Cardinality(s) \in Nat
      BY FS_Subset, FS_CardinalityType DEF UpTo
    <3> QED
      BY <3>1, FS_EmptySet DEF UpTo
  <2>2. IsSum(g, f, UpTo(S, 0))
    BY <2>1 DEF IsSum
  <2> QED
    BY <2>2
<1>2. \A n \in T : n + 1 \in T
  <2> SUFFICES ASSUME NEW n \in T PROVE n + 1 \in T
    OBVIOUS
  <2>1. PICK g : IsSum(g, f, UpTo(S, n))
    OBVIOUS
  <2> DEFINE h == [s \in UpTo(S, n + 1) |->
                     IF s = {} THEN 0 ELSE f[AnyOf(s)] + g[s \ {AnyOf(s)}]]
  <2>2. n \in Nat /\ UpTo(S, n) \subseteq UpTo(S, n + 1)
    <3> SUFFICES ASSUME NEW s \in UpTo(S, n) PROVE s \in UpTo(S, n + 1)
      OBVIOUS
    <3>1. Cardinality(s) \in Nat
      BY FS_Subset, FS_CardinalityType DEF UpTo
    <3> QED
      BY <3>1 DEF UpTo
  <2>3. \A s \in UpTo(S, n) : h[s] = g[s]
    BY <2>1, <2>2 DEF IsSum
  <2>4. ASSUME NEW s \in UpTo(S, n + 1), s # {}
        PROVE  s \ {AnyOf(s)} \in UpTo(S, n)
    <3>1. IsFiniteSet(s) /\ AnyOf(s) \in s /\ Cardinality(s) <= n + 1 /\ s \subseteq S
      BY <2>4, FS_Subset DEF UpTo, AnyOf
    <3>2. Cardinality(s \ {AnyOf(s)}) = Cardinality(s) - 1 /\ Cardinality(s) \in Nat
      BY <3>1, FS_RemoveElement, FS_CardinalityType
    <3> QED
      BY <2>2, <3>1, <3>2 DEF UpTo
  <2>5. \A s \in UpTo(S, n + 1) : h[s] = IF s = {} THEN 0 ELSE f[AnyOf(s)] + h[s \ {AnyOf(s)}]
    <3> SUFFICES ASSUME NEW s \in UpTo(S, n + 1), s # {}
                 PROVE  h[s] = f[AnyOf(s)] + h[s \ {AnyOf(s)}]
      OBVIOUS
    <3>1. h[s] = f[AnyOf(s)] + g[s \ {AnyOf(s)}]
      OBVIOUS
    <3> HIDE DEF h
    <3> QED
      BY <2>3, <2>4, <3>1
  <2>6. h = [s \in UpTo(S, n + 1) |-> h[s]]
    OBVIOUS
  <2> HIDE DEF h
  <2>7. IsSum(h, f, UpTo(S, n + 1))
    BY <2>5, <2>6 DEF IsSum
  <2> QED
    BY <2>2, <2>7
<1>3. T = Nat
  <2> HIDE DEF T
  <2>1. T \in SUBSET Nat
    BY DEF T
  <2> QED
    BY <1>1, <1>2, <2>1, NatSetInduction
<1>4. Cardinality(S) \in T
  BY <1>3, FS_CardinalityType
<1>5. UpTo(S, Cardinality(S)) = SUBSET S
  BY FS_Subset DEF UpTo
<1> QED
  BY <1>4, <1>5

\* Induction over the subsets of a finite set, one element at a time.
LEMMA SetInduction ==
  ASSUME NEW S, IsFiniteSet(S), NEW P \in SUBSET SUBSET S, {} \in P,
         \A s \in SUBSET S : s # {} /\ s \ {AnyOf(s)} \in P => s \in P
  PROVE  P = SUBSET S
<1> DEFINE T == {n \in Nat : UpTo(S, n) \subseteq P}
<1>1. 0 \in T
  <2>1. \A s \in UpTo(S, 0) : s = {}
    <3> SUFFICES ASSUME NEW s \in UpTo(S, 0) PROVE s = {}
      OBVIOUS
    <3>1. IsFiniteSet(s) /\ Cardinality(s) \in Nat
      BY FS_Subset, FS_CardinalityType DEF UpTo
    <3> QED
      BY <3>1, FS_EmptySet DEF UpTo
  <2> QED
    BY <2>1
<1>2. \A n \in T : n + 1 \in T
  <2> SUFFICES ASSUME NEW n \in T PROVE n + 1 \in T
    OBVIOUS
  <2> SUFFICES ASSUME NEW s \in UpTo(S, n + 1), s # {} PROVE s \in P
    OBVIOUS
  <2>1. IsFiniteSet(s) /\ AnyOf(s) \in s /\ Cardinality(s) <= n + 1 /\ s \subseteq S
    BY FS_Subset DEF UpTo, AnyOf
  <2>2. Cardinality(s \ {AnyOf(s)}) = Cardinality(s) - 1 /\ Cardinality(s) \in Nat
    BY <2>1, FS_RemoveElement, FS_CardinalityType
  <2>3. s \ {AnyOf(s)} \in UpTo(S, n)
    BY <2>1, <2>2 DEF UpTo
  <2> QED
    BY <2>1, <2>3
<1>3. T = Nat
  <2> HIDE DEF T
  <2>1. T \in SUBSET Nat
    BY DEF T
  <2> QED
    BY <1>1, <1>2, <2>1, NatSetInduction
<1>4. Cardinality(S) \in T
  BY <1>3, FS_CardinalityType
<1>5. UpTo(S, Cardinality(S)) = SUBSET S
  BY FS_Subset DEF UpTo
<1> QED
  BY <1>4, <1>5

\* One function gives the sums over all subsets.
LEMMA SumGraph ==
  ASSUME NEW f, NEW S, IsFiniteSet(S)
  PROVE  \E g : IsSum(g, f, SUBSET S) /\ \A s \in SUBSET S : SumOf(f, s) = g[s]
<1>1. PICK g : IsSum(g, f, SUBSET S)
  BY SumGraphExists
<1>2. ASSUME NEW s \in SUBSET S PROVE SumOf(f, s) = g[s]
  <2>1. IsFiniteSet(s)
    BY FS_Subset
  <2>2. PICK k : IsSum(k, f, SUBSET s) /\ SumOf(f, s) = k[s]
    BY <2>1, SumGraphExists, SumUnfolds
  <2> DEFINE P == {u \in SUBSET s : k[u] = g[u]}
  <2>3. {} \in P
    BY <1>1, <2>2 DEF IsSum
  <2>4. \A u \in SUBSET s : u # {} /\ u \ {AnyOf(u)} \in P => u \in P
    BY <1>1, <2>2 DEF IsSum
  <2>5. P = SUBSET s
    <3> HIDE DEF P
    <3>1. P \in SUBSET SUBSET s
      BY DEF P
    <3> QED
      BY <2>1, <2>3, <2>4, <3>1, SetInduction
  <2> QED
    BY <2>2, <2>5
<1> QED
  BY <1>1, <1>2

\* And no other function that is built in the same way gives another sum.
LEMMA SumUnique ==
  ASSUME NEW f, NEW S, IsFiniteSet(S), NEW k, IsSum(k, f, SUBSET S)
  PROVE  k[S] = SumOf(f, S)
<1>1. PICK g : IsSum(g, f, SUBSET S) /\ \A s \in SUBSET S : SumOf(f, s) = g[s]
  BY SumGraph
<1> DEFINE P == {s \in SUBSET S : k[s] = g[s]}
<1>2. {} \in P
  BY <1>1 DEF IsSum
<1>3. \A s \in SUBSET S : s # {} /\ s \ {AnyOf(s)} \in P => s \in P
  BY <1>1 DEF IsSum
<1>4. P = SUBSET S
  <2> HIDE DEF P
  <2>1. P \in SUBSET SUBSET S
    BY DEF P
  <2> QED
    BY <1>2, <1>3, <2>1, SetInduction
<1> QED
  BY <1>1, <1>4

\* What a sum is: nothing over the empty set, otherwise an element's value and
\* the sum over the rest.
LEMMA SumEmpty ==
  ASSUME NEW f PROVE SumOf(f, {}) = 0
<1>1. IsFiniteSet({})
  BY FS_EmptySet
<1> QED
  BY <1>1, SumGraph DEF IsSum

LEMMA SumStep ==
  ASSUME NEW f, NEW S, IsFiniteSet(S), S # {}
  PROVE  /\ AnyOf(S) \in S
         /\ SumOf(f, S) = f[AnyOf(S)] + SumOf(f, S \ {AnyOf(S)})
<1>1. AnyOf(S) \in S
  BY DEF AnyOf
<1>2. PICK g : IsSum(g, f, SUBSET S) /\ \A s \in SUBSET S : SumOf(f, s) = g[s]
  BY SumGraph
<1>3. g[S] = f[AnyOf(S)] + g[S \ {AnyOf(S)}]
  BY <1>2 DEF IsSum
<1> QED
  BY <1>1, <1>2, <1>3

\* A sum of naturals is a natural number.
LEMMA SumType ==
  ASSUME NEW f, NEW S, IsFiniteSet(S), \A x \in S : f[x] \in Nat
  PROVE  SumOf(f, S) \in Nat
<1> DEFINE P == {s \in SUBSET S : SumOf(f, s) \in Nat}
<1>1. {} \in P
  BY SumEmpty
<1>2. \A s \in SUBSET S : s # {} /\ s \ {AnyOf(s)} \in P => s \in P
  <2> SUFFICES ASSUME NEW s \in SUBSET S, s # {}, s \ {AnyOf(s)} \in P PROVE s \in P
    OBVIOUS
  <2>1. AnyOf(s) \in s /\ SumOf(f, s) = f[AnyOf(s)] + SumOf(f, s \ {AnyOf(s)})
    BY SumStep, FS_Subset
  <2> QED
    BY <2>1
<1>3. P = SUBSET S
  <2> HIDE DEF P
  <2>1. P \in SUBSET SUBSET S
    BY DEF P
  <2> QED
    BY <1>1, <1>2, <2>1, SetInduction
<1> QED
  BY <1>3

\* A sum of integers is an integer.
LEMMA SumInt ==
  ASSUME NEW f, NEW S, IsFiniteSet(S), \A x \in S : f[x] \in Int
  PROVE  SumOf(f, S) \in Int
<1> DEFINE P == {s \in SUBSET S : SumOf(f, s) \in Int}
<1>1. {} \in P
  BY SumEmpty
<1>2. \A s \in SUBSET S : s # {} /\ s \ {AnyOf(s)} \in P => s \in P
  <2> SUFFICES ASSUME NEW s \in SUBSET S, s # {}, s \ {AnyOf(s)} \in P PROVE s \in P
    OBVIOUS
  <2>1. AnyOf(s) \in s /\ SumOf(f, s) = f[AnyOf(s)] + SumOf(f, s \ {AnyOf(s)})
    BY SumStep, FS_Subset
  <2> QED
    BY <2>1
<1>3. P = SUBSET S
  <2> HIDE DEF P
  <2>1. P \in SUBSET SUBSET S
    BY DEF P
  <2> QED
    BY <1>1, <1>2, <2>1, SetInduction
<1> QED
  BY <1>3

\* Zeros add up to zero.
LEMMA SumOfZeros ==
  ASSUME NEW f, NEW S, IsFiniteSet(S), \A x \in S : f[x] = 0
  PROVE  SumOf(f, S) = 0
<1> DEFINE P == {s \in SUBSET S : SumOf(f, s) = 0}
<1>1. {} \in P
  BY SumEmpty
<1>2. \A s \in SUBSET S : s # {} /\ s \ {AnyOf(s)} \in P => s \in P
  <2> SUFFICES ASSUME NEW s \in SUBSET S, s # {}, s \ {AnyOf(s)} \in P PROVE s \in P
    OBVIOUS
  <2>1. AnyOf(s) \in s /\ SumOf(f, s) = f[AnyOf(s)] + SumOf(f, s \ {AnyOf(s)})
    BY SumStep, FS_Subset
  <2> QED
    BY <2>1
<1>3. P = SUBSET S
  <2> HIDE DEF P
  <2>1. P \in SUBSET SUBSET S
    BY DEF P
  <2> QED
    BY <1>1, <1>2, <2>1, SetInduction
<1> QED
  BY <1>3

\* Values that are nowhere greater have no greater sum, and the same sum only
\* when they are the same everywhere: comparing totals compares every line.
LEMMA SumMonotone ==
  ASSUME NEW f, NEW h, NEW S, IsFiniteSet(S),
         \A x \in S : f[x] \in Int /\ h[x] \in Int /\ f[x] <= h[x]
  PROVE  /\ SumOf(f, S) <= SumOf(h, S)
         /\ SumOf(f, S) = SumOf(h, S) <=> \A x \in S : f[x] = h[x]
<1> DEFINE P == {s \in SUBSET S :
                  /\ SumOf(f, s) <= SumOf(h, s)
                  /\ SumOf(f, s) = SumOf(h, s) <=> \A x \in s : f[x] = h[x]}
<1>1. {} \in P
  BY SumEmpty
<1>2. \A s \in SUBSET S : s # {} /\ s \ {AnyOf(s)} \in P => s \in P
  <2> SUFFICES ASSUME NEW s \in SUBSET S, s # {}, s \ {AnyOf(s)} \in P PROVE s \in P
    OBVIOUS
  <2> DEFINE y == AnyOf(s)
             u == s \ {y}
  <2>1. IsFiniteSet(s) /\ IsFiniteSet(u)
    BY FS_Subset
  <2>2. /\ y \in s
        /\ SumOf(f, s) = f[y] + SumOf(f, u)
        /\ SumOf(h, s) = h[y] + SumOf(h, u)
    BY <2>1, SumStep
  <2>3. SumOf(f, u) \in Int /\ SumOf(h, u) \in Int
    BY <2>1, SumInt
  <2>4. f[y] \in Int /\ h[y] \in Int /\ f[y] <= h[y]
    BY <2>2
  <2>5. /\ SumOf(f, u) <= SumOf(h, u)
        /\ SumOf(f, u) = SumOf(h, u) <=> \A x \in u : f[x] = h[x]
    OBVIOUS
  <2>6. (\A x \in s : f[x] = h[x]) <=> f[y] = h[y] /\ \A x \in u : f[x] = h[x]
    BY <2>2
  <2> HIDE DEF y, u
  <2>7. /\ SumOf(f, s) <= SumOf(h, s)
        /\ SumOf(f, s) = SumOf(h, s) <=> f[y] = h[y] /\ SumOf(f, u) = SumOf(h, u)
    BY <2>2, <2>3, <2>4, <2>5
  <2> QED
    BY <2>5, <2>6, <2>7
<1>3. P = SUBSET S
  <2> HIDE DEF P
  <2>1. P \in SUBSET SUBSET S
    BY DEF P
  <2> QED
    BY <1>1, <1>2, <2>1, SetInduction
<1> QED
  BY <1>3

\* Changing one value changes the sum by as much.
LEMMA SumUpdate ==
  ASSUME NEW f, NEW h, NEW S, IsFiniteSet(S), NEW z \in S,
         \A x \in S : f[x] \in Nat /\ h[x] \in Nat,
         \A x \in S \ {z} : h[x] = f[x]
  PROVE  SumOf(h, S) = SumOf(f, S) - f[z] + h[z]
<1> DEFINE P == {s \in SUBSET S :
                  SumOf(h, s) = SumOf(f, s) + (IF z \in s THEN h[z] - f[z] ELSE 0)}
<1>1. {} \in P
  BY SumEmpty
<1>2. \A s \in SUBSET S : s # {} /\ s \ {AnyOf(s)} \in P => s \in P
  <2> SUFFICES ASSUME NEW s \in SUBSET S, s # {}, s \ {AnyOf(s)} \in P PROVE s \in P
    OBVIOUS
  <2> DEFINE y == AnyOf(s)
             u == s \ {y}
  <2>1. IsFiniteSet(s) /\ IsFiniteSet(u)
    BY FS_Subset
  <2>2. /\ y \in s
        /\ SumOf(f, s) = f[y] + SumOf(f, u)
        /\ SumOf(h, s) = h[y] + SumOf(h, u)
    BY <2>1, SumStep
  <2>3. SumOf(f, u) \in Nat /\ SumOf(h, u) \in Nat
    BY <2>1, SumType
  <2>4. /\ f[y] \in Nat /\ h[y] \in Nat /\ f[z] \in Nat /\ h[z] \in Nat
        /\ y # z => h[y] = f[y]
    BY <2>2
  <2>5. SumOf(h, u) = SumOf(f, u) + (IF z \in u THEN h[z] - f[z] ELSE 0)
    OBVIOUS
  <2>6. z \in u <=> z \in s /\ z # y
    OBVIOUS
  <2> HIDE DEF y, u
  <2>7. SumOf(h, s) = SumOf(f, s) + (IF z \in s THEN h[z] - f[z] ELSE 0)
    <3>1. CASE y = z
      BY <2>2, <2>3, <2>4, <2>5, <2>6, <3>1
    <3>2. CASE y # z
      BY <2>2, <2>3, <2>4, <2>5, <2>6, <3>2
    <3> QED
      BY <3>1, <3>2
  <2> QED
    BY <2>7
<1>3. P = SUBSET S
  <2> HIDE DEF P
  <2>1. P \in SUBSET SUBSET S
    BY DEF P
  <2> QED
    BY <1>1, <1>2, <2>1, SetInduction
<1>4. SumOf(h, S) = SumOf(f, S) + (h[z] - f[z])
  BY <1>3
<1>5. SumOf(f, S) \in Nat /\ f[z] \in Nat /\ h[z] \in Nat
  BY SumType
<1> QED
  BY <1>4, <1>5

\* The order of adding does not matter: any element can be split off.
LEMMA SumRemove ==
  ASSUME NEW f, NEW S, IsFiniteSet(S), NEW z \in S, \A x \in S : f[x] \in Int
  PROVE  SumOf(f, S) = f[z] + SumOf(f, S \ {z})
<1> DEFINE T == {n \in Nat : \A s \in UpTo(S, n) : \A x \in s :
                   SumOf(f, s) = f[x] + SumOf(f, s \ {x})}
<1>1. 0 \in T
  <2>1. \A s \in UpTo(S, 0) : s = {}
    <3> SUFFICES ASSUME NEW s \in UpTo(S, 0) PROVE s = {}
      OBVIOUS
    <3>1. IsFiniteSet(s) /\ Cardinality(s) \in Nat
      BY FS_Subset, FS_CardinalityType DEF UpTo
    <3> QED
      BY <3>1, FS_EmptySet DEF UpTo
  <2> QED
    BY <2>1
<1>2. \A n \in T : n + 1 \in T
  <2> SUFFICES ASSUME NEW n \in T PROVE n + 1 \in T
    OBVIOUS
  <2> SUFFICES ASSUME NEW s \in UpTo(S, n + 1), NEW x \in s
               PROVE  SumOf(f, s) = f[x] + SumOf(f, s \ {x})
    OBVIOUS
  <2> DEFINE y == AnyOf(s)
  <2>1. IsFiniteSet(s) /\ s # {} /\ s \subseteq S /\ Cardinality(s) <= n + 1
    BY FS_Subset DEF UpTo
  <2>2. y \in s /\ SumOf(f, s) = f[y] + SumOf(f, s \ {y})
    BY <2>1, SumStep
  <2>3. \A v \in s : s \ {v} \in UpTo(S, n)
    <3> SUFFICES ASSUME NEW v \in s PROVE s \ {v} \in UpTo(S, n)
      OBVIOUS
    <3>1. Cardinality(s \ {v}) = Cardinality(s) - 1 /\ Cardinality(s) \in Nat
      BY <2>1, FS_RemoveElement, FS_CardinalityType
    <3> QED
      BY <2>1, <3>1 DEF UpTo
  <2> HIDE DEF y
  <2>4. CASE y = x
    BY <2>2, <2>4
  <2>5. CASE y # x
    <3>1. SumOf(f, s \ {y}) = f[x] + SumOf(f, (s \ {y}) \ {x})
      BY <2>2, <2>3, <2>5
    <3>2. SumOf(f, s \ {x}) = f[y] + SumOf(f, (s \ {x}) \ {y})
      BY <2>2, <2>3, <2>5
    <3>3. (s \ {y}) \ {x} = (s \ {x}) \ {y}
      OBVIOUS
    <3>4. SumOf(f, (s \ {x}) \ {y}) \in Int
      BY <2>1, FS_Subset, SumInt
    <3>5. f[x] \in Int /\ f[y] \in Int
      BY <2>1, <2>2
    <3> DEFINE rest == SumOf(f, (s \ {x}) \ {y})
    <3>6. SumOf(f, s) = f[y] + (f[x] + rest) /\ SumOf(f, s \ {x}) = f[y] + rest
      BY <2>2, <3>1, <3>2, <3>3
    <3>7. rest \in Int
      BY <3>4
    <3> HIDE DEF rest
    <3> QED
      BY <3>5, <3>6, <3>7
  <2> QED
    BY <2>4, <2>5
<1>3. T = Nat
  <2> HIDE DEF T
  <2>1. T \in SUBSET Nat
    BY DEF T
  <2> QED
    BY <1>1, <1>2, <2>1, NatSetInduction
<1>4. Cardinality(S) \in T /\ S \in UpTo(S, Cardinality(S))
  BY <1>3, FS_CardinalityType DEF UpTo
<1> QED
  BY <1>4

\* A sum over part of a set is one over all of it that counts the rest as zero.
LEMMA SumFilter ==
  ASSUME NEW f, NEW h, NEW S, IsFiniteSet(S), NEW F \in SUBSET S,
         \A x \in F : f[x] \in Int,
         \A x \in S : h[x] = IF x \in F THEN f[x] ELSE 0
  PROVE  SumOf(f, F) = SumOf(h, S)
<1> DEFINE P == {s \in SUBSET S : SumOf(f, F \cap s) = SumOf(h, s)}
<1>1. {} \in P
  <2>1. F \cap {} = {}
    OBVIOUS
  <2> QED
    BY <2>1, SumEmpty
<1>2. \A s \in SUBSET S : s # {} /\ s \ {AnyOf(s)} \in P => s \in P
  <2> SUFFICES ASSUME NEW s \in SUBSET S, s # {}, s \ {AnyOf(s)} \in P PROVE s \in P
    OBVIOUS
  <2> DEFINE y == AnyOf(s)
             u == s \ {y}
  <2>1. IsFiniteSet(s) /\ IsFiniteSet(u) /\ IsFiniteSet(F \cap s)
    BY FS_Subset
  <2>2. y \in s /\ SumOf(h, s) = h[y] + SumOf(h, u)
    BY <2>1, SumStep
  <2>3. SumOf(f, F \cap u) = SumOf(h, u)
    OBVIOUS
  <2>4. SumOf(h, u) \in Int
    BY <2>1, SumInt
  <2> HIDE DEF y
  <2>5. SumOf(f, F \cap s) = SumOf(h, s)
    <3>1. CASE y \in F
      <4>1. SumOf(f, F \cap s) = f[y] + SumOf(f, (F \cap s) \ {y})
        BY <2>1, <2>2, <3>1, SumRemove
      <4>2. (F \cap s) \ {y} = F \cap u
        OBVIOUS
      <4> HIDE DEF u
      <4> QED
        BY <2>2, <2>3, <3>1, <4>1, <4>2
    <3>2. CASE y \notin F
      <4>1. F \cap s = F \cap u
        BY <3>2
      <4>2. h[y] = 0
        BY <2>2, <3>2
      <4> HIDE DEF u
      <4>3. SumOf(h, s) = SumOf(h, u)
        BY <2>2, <2>4, <4>2
      <4> QED
        BY <2>3, <4>1, <4>3
    <3> QED
      BY <3>1, <3>2
  <2> QED
    BY <2>5
<1>3. P = SUBSET S
  <2> HIDE DEF P
  <2>1. P \in SUBSET SUBSET S
    BY DEF P
  <2> QED
    BY <1>1, <1>2, <2>1, SetInduction
<1>4. F \cap S = F
  OBVIOUS
<1> QED
  BY <1>3, <1>4

\* Adding value by value adds the sums.
LEMMA SumAdd ==
  ASSUME NEW f, NEW h, NEW g, NEW S, IsFiniteSet(S),
         \A x \in S : f[x] \in Int /\ h[x] \in Int /\ g[x] = f[x] + h[x]
  PROVE  SumOf(g, S) = SumOf(f, S) + SumOf(h, S)
<1> DEFINE P == {s \in SUBSET S : SumOf(g, s) = SumOf(f, s) + SumOf(h, s)}
<1>1. {} \in P
  BY SumEmpty
<1>2. \A s \in SUBSET S : s # {} /\ s \ {AnyOf(s)} \in P => s \in P
  <2> SUFFICES ASSUME NEW s \in SUBSET S, s # {}, s \ {AnyOf(s)} \in P PROVE s \in P
    OBVIOUS
  <2> DEFINE y == AnyOf(s)
             u == s \ {y}
  <2>1. IsFiniteSet(s) /\ IsFiniteSet(u)
    BY FS_Subset
  <2>2. /\ y \in s
        /\ SumOf(f, s) = f[y] + SumOf(f, u)
        /\ SumOf(h, s) = h[y] + SumOf(h, u)
        /\ SumOf(g, s) = g[y] + SumOf(g, u)
    BY <2>1, SumStep
  <2>3. SumOf(f, u) \in Int /\ SumOf(h, u) \in Int
    BY <2>1, SumInt
  <2>4. f[y] \in Int /\ h[y] \in Int /\ g[y] = f[y] + h[y]
    BY <2>2
  <2>5. SumOf(g, u) = SumOf(f, u) + SumOf(h, u)
    OBVIOUS
  <2> HIDE DEF y, u
  <2>6. SumOf(g, s) = SumOf(f, s) + SumOf(h, s)
    BY <2>2, <2>3, <2>4, <2>5
  <2> QED
    BY <2>6
<1>3. P = SUBSET S
  <2> HIDE DEF P
  <2>1. P \in SUBSET SUBSET S
    BY DEF P
  <2> QED
    BY <1>1, <1>2, <2>1, SetInduction
<1> QED
  BY <1>3

\* The same value for some of the elements adds up to that value, as often as
\* there are such elements.
LEMMA SumConstant ==
  ASSUME NEW a \in Int, NEW g, NEW S, IsFiniteSet(S), NEW C \in SUBSET S,
         \A x \in S : g[x] = IF x \in C THEN a ELSE 0
  PROVE  SumOf(g, S) = a * Cardinality(C)
<1> DEFINE P == {s \in SUBSET S : SumOf(g, s) = a * Cardinality(C \cap s)}
<1>1. {} \in P
  <2>1. C \cap {} = {}
    OBVIOUS
  <2> QED
    BY <2>1, SumEmpty, FS_EmptySet
<1>2. \A s \in SUBSET S : s # {} /\ s \ {AnyOf(s)} \in P => s \in P
  <2> SUFFICES ASSUME NEW s \in SUBSET S, s # {}, s \ {AnyOf(s)} \in P PROVE s \in P
    OBVIOUS
  <2> DEFINE y == AnyOf(s)
             u == s \ {y}
  <2>1. IsFiniteSet(s) /\ IsFiniteSet(C \cap s) /\ IsFiniteSet(C \cap u)
    BY FS_Subset
  <2>2. y \in s /\ SumOf(g, s) = g[y] + SumOf(g, u)
    BY <2>1, SumStep
  <2>3. SumOf(g, u) = a * Cardinality(C \cap u)
    OBVIOUS
  <2>4. Cardinality(C \cap u) \in Nat /\ Cardinality(C \cap s) \in Nat
    BY <2>1, FS_CardinalityType
  <2> HIDE DEF y
  <2>5. SumOf(g, s) = a * Cardinality(C \cap s)
    <3>1. CASE y \in C
      <4>1. C \cap u = (C \cap s) \ {y} /\ y \in C \cap s
        BY <2>2, <3>1
      <4>2. Cardinality(C \cap u) = Cardinality(C \cap s) - 1
        <5>1. PICK A : A = C \cap s
          OBVIOUS
        <5>2. Cardinality(A \ {y}) = Cardinality(A) - 1
          BY <2>1, <4>1, <5>1, FS_RemoveElement
        <5> QED
          BY <4>1, <5>1, <5>2
      <4>3. g[y] = a
        BY <2>2, <3>1
      <4> DEFINE n == Cardinality(C \cap u)
                 m == Cardinality(C \cap s)
      <4>4. n \in Nat /\ m = n + 1 /\ SumOf(g, s) = a + a * n
        BY <2>2, <2>3, <2>4, <4>2, <4>3
      <4> HIDE DEF n
      <4>5. a * m = a + a * n
        <5> HIDE DEF m
        <5> QED
          BY <4>4
      <4> QED
        BY <4>4, <4>5
    <3>2. CASE y \notin C
      <4>1. C \cap s = C \cap u
        BY <3>2
      <4>2. g[y] = 0
        BY <2>2, <3>2
      <4> DEFINE n == a * Cardinality(C \cap u)
      <4>3. n \in Int
        BY <2>4
      <4> HIDE DEF u
      <4>4. SumOf(g, s) = n
        <5>1. SumOf(g, u) = n
          BY <2>3
        <5> HIDE DEF n
        <5> QED
          BY <2>2, <4>2, <4>3, <5>1
      <4> QED
        BY <4>1, <4>4
    <3> QED
      BY <3>1, <3>2
  <2> QED
    BY <2>5
<1>3. P = SUBSET S
  <2> HIDE DEF P
  <2>1. P \in SUBSET SUBSET S
    BY DEF P
  <2> QED
    BY <1>1, <1>2, <2>1, SetInduction
<1>4. C \cap S = C
  OBVIOUS
<1> QED
  BY <1>3, <1>4

\* Part of a set adds up to no more than all of it.
LEMMA SumPart ==
  ASSUME NEW f, NEW S, IsFiniteSet(S), NEW U \in SUBSET S, \A x \in S : f[x] \in Nat
  PROVE  SumOf(f, U) <= SumOf(f, S)
<1> DEFINE h == [x \in S |-> IF x \in U THEN f[x] ELSE 0]
<1>1. \A x \in S : h[x] \in Nat /\ f[x] \in Nat /\ h[x] <= f[x]
  OBVIOUS
<1>2. \A x \in S : h[x] = IF x \in U THEN f[x] ELSE 0
  OBVIOUS
<1> HIDE DEF h
<1>3. SumOf(f, U) = SumOf(h, S)
  BY <1>2, SumFilter
<1>4. SumOf(h, S) <= SumOf(f, S)
  BY <1>1, SumMonotone
<1> QED
  BY <1>3, <1>4

\* Sums over groups: a set is split into groups that may overlap, x being in
\* each of groups[x]; the sums of the groups add up to the sum in which every
\* element counts as often as it is in a group.
LEMMA SumGroups ==
  ASSUME NEW f, NEW S, IsFiniteSet(S), \A x \in S : f[x] \in Int,
         NEW K, IsFiniteSet(K), NEW groups, \A x \in S : groups[x] \in SUBSET K,
         NEW group, \A k \in K : group[k] \in SUBSET S /\ \A x \in S : x \in group[k] <=> k \in groups[x],
         NEW g, \A k \in K : g[k] = SumOf(f, group[k]),
         NEW h, \A x \in S : h[x] = f[x] * Cardinality(groups[x])
  PROVE  SumOf(g, K) = SumOf(h, S)
<1> DEFINE In(s, k) == {x \in s : k \in groups[x]}
           G(s) == [k \in K |-> SumOf(f, In(s, k))]
           P == {s \in SUBSET S : SumOf(G(s), K) = SumOf(h, s)}
<1>1. {} \in P
  <2>1. \A k \in K : G({})[k] = 0
    <3> SUFFICES ASSUME NEW k \in K PROVE G({})[k] = 0
      OBVIOUS
    <3>1. In({}, k) = {}
      OBVIOUS
    <3> QED
      BY <3>1, SumEmpty
  <2>2. PICK z : z = G({})
    OBVIOUS
  <2>3. SumOf(z, K) = 0
    BY <2>1, <2>2, SumOfZeros
  <2> QED
    BY <2>2, <2>3, SumEmpty
<1>2. \A s \in SUBSET S : s # {} /\ s \ {AnyOf(s)} \in P => s \in P
  <2> SUFFICES ASSUME NEW s \in SUBSET S, s # {}, s \ {AnyOf(s)} \in P PROVE s \in P
    OBVIOUS
  <2> DEFINE y == AnyOf(s)
             u == s \ {y}
             c == [k \in K |-> IF k \in groups[y] THEN f[y] ELSE 0]
  <2>1. IsFiniteSet(s) /\ IsFiniteSet(u)
    BY FS_Subset
  <2>2. y \in s /\ y \in S /\ SumOf(h, s) = h[y] + SumOf(h, u)
    BY <2>1, SumStep
  <2>3. SumOf(G(u), K) = SumOf(h, u)
    OBVIOUS
  <2> HIDE DEF y, P
  <2>4. ASSUME NEW k \in K PROVE G(u)[k] \in Int /\ c[k] \in Int /\ G(s)[k] = G(u)[k] + c[k]
    <3>1. IsFiniteSet(In(s, k)) /\ IsFiniteSet(In(u, k))
      BY <2>1, FS_Subset
    <3>2. SumOf(f, In(u, k)) \in Int
      BY <3>1, SumInt
    <3>3. CASE k \in groups[y]
      <4>1. y \in In(s, k) /\ In(s, k) \ {y} = In(u, k)
        BY <2>2, <3>3
      <4> HIDE DEF In, u
      <4>2. SumOf(f, In(s, k)) = f[y] + SumOf(f, In(u, k))
        <5>1. PICK A : A = In(s, k)
          OBVIOUS
        <5>2. \A x \in A : f[x] \in Int
          BY <5>1 DEF In
        <5>3. SumOf(f, A) = f[y] + SumOf(f, A \ {y})
          BY <3>1, <4>1, <5>1, <5>2, SumRemove
        <5> QED
          BY <4>1, <5>1, <5>3
      <4>3. f[y] \in Int
        BY <2>2
      <4> QED
        BY <3>2, <3>3, <4>2, <4>3
    <3>4. CASE k \notin groups[y]
      <4>1. In(s, k) = In(u, k)
        BY <3>4
      <4> HIDE DEF In, u
      <4> QED
        BY <3>2, <3>4, <4>1
    <3> QED
      BY <3>3, <3>4
  <2>5. PICK a, b : a = G(s) /\ b = G(u)
    OBVIOUS
  <2>6. SumOf(a, K) = SumOf(b, K) + SumOf(c, K)
    <3>1. \A k \in K : b[k] \in Int /\ c[k] \in Int /\ a[k] = b[k] + c[k]
      BY <2>4, <2>5
    <3> HIDE DEF c, G
    <3> QED
      BY <3>1, SumAdd
  <2>7. f[y] \in Int /\ groups[y] \in SUBSET K /\ h[y] = f[y] * Cardinality(groups[y])
    BY <2>2
  <2>8. SumOf(c, K) = h[y]
    <3>1. PICK v, C : v = f[y] /\ C = groups[y]
      OBVIOUS
    <3>2. v \in Int /\ C \in SUBSET K /\ \A k \in K : c[k] = IF k \in C THEN v ELSE 0
      BY <2>7, <3>1
    <3> HIDE DEF c
    <3>3. SumOf(c, K) = v * Cardinality(C)
      BY <3>2, SumConstant
    <3> QED
      BY <2>7, <3>1, <3>3
  <2>9. SumOf(b, K) \in Int /\ SumOf(c, K) \in Int
    <3>1. \A k \in K : b[k] \in Int /\ c[k] \in Int
      BY <2>4, <2>5
    <3> HIDE DEF c, G
    <3> QED
      BY <3>1, SumInt
  <2>10. SumOf(a, K) = SumOf(h, s)
    <3> HIDE DEF c, u, G
    <3> QED
      BY <2>2, <2>3, <2>5, <2>6, <2>8, <2>9
  <2>11. SumOf(G(s), K) = SumOf(h, s)
    BY <2>5, <2>10
  <2> QED
    BY <2>11 DEF P
<1>3. P = SUBSET S
  <2> HIDE DEF P
  <2>1. P \in SUBSET SUBSET S
    BY DEF P
  <2> QED
    BY <1>1, <1>2, <2>1, SetInduction
<1>4. SumOf(G(S), K) = SumOf(h, S)
  BY <1>3
<1>5. PICK a : a = G(S)
  OBVIOUS
<1>6. \A k \in K : a[k] = g[k] /\ a[k] \in Int /\ g[k] \in Int
  <2> SUFFICES ASSUME NEW k \in K PROVE a[k] = g[k] /\ a[k] \in Int
    OBVIOUS
  <2>1. IsFiniteSet(In(S, k)) /\ In(S, k) \in SUBSET S
    BY FS_Subset
  <2>2. SumOf(f, In(S, k)) \in Int
    BY <2>1, SumInt
  <2>3. group[k] = In(S, k)
    OBVIOUS
  <2>4. g[k] = SumOf(f, In(S, k))
    BY <2>3
  <2> HIDE DEF In
  <2> QED
    BY <1>5, <2>2, <2>4
<1>7. SumOf(a, K) = SumOf(g, K)
  BY <1>6, SumMonotone
<1> QED
  BY <1>4, <1>5, <1>7

\* When every element is in one group the sums of the groups add up to the sum.
LEMMA SumByKey ==
  ASSUME NEW f, NEW S, IsFiniteSet(S), \A x \in S : f[x] \in Int,
         NEW K, IsFiniteSet(K), NEW key, \A x \in S : key[x] \in K,
         NEW group, \A k \in K : group[k] \in SUBSET S /\ \A x \in S : x \in group[k] <=> key[x] = k,
         NEW g, \A k \in K : g[k] = SumOf(f, group[k])
  PROVE  SumOf(g, K) = SumOf(f, S)
<1>1. PICK groups : groups = [x \in S |-> {key[x]}]
  OBVIOUS
<1>2. \A x \in S : groups[x] \in SUBSET K
  BY <1>1
<1>3. \A x \in S : f[x] = f[x] * Cardinality(groups[x])
  <2>1. \A x \in S : Cardinality(groups[x]) = 1
    BY <1>1, FS_Singleton
  <2> QED
    BY <2>1
<1>4. \A k \in K : group[k] \in SUBSET S /\ \A x \in S : x \in group[k] <=> k \in groups[x]
  BY <1>1
<1> QED
  BY <1>2, <1>3, <1>4, SumGroups
=============================================================================
