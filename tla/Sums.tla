------------------------------- MODULE Sums -------------------------------
(***************************************************************************)
(* What the proofs need to know of MapThenSumSet, the sum the models take  *)
(* over the documents, orders or cells of the warehouse.  It is a          *)
(* recursive function on the subsets of its set, and none of the facts     *)
(* about it is given: that the recursion has a solution, that only one     *)
(* has, and that the order in which the elements are picked does not       *)
(* matter.  All three go by the size of the set; the induction is the      *)
(* first-order one, that a set of numbers that is not empty has a least    *)
(* element.                                                                *)
(***************************************************************************)
EXTENDS Integers, FiniteSetTheorems, TLAPS

\* f has a number for every element of S.
Summable(f, S) == IsFiniteSet(S) /\ \A x \in S : f[x] \in Int

----------------------------------------------------------------------------
\* Finite sets

LEMMA FiniteEmpty == IsFiniteSet({})
BY FS_EmptySet

LEMMA FiniteWithOne ==
    ASSUME NEW S, IsFiniteSet(S), NEW x
    PROVE  IsFiniteSet(S \cup {x})
BY FS_AddElement

LEMMA FiniteSubset ==
    ASSUME NEW S, IsFiniteSet(S), NEW T \in SUBSET S
    PROVE  IsFiniteSet(T)
BY FS_Subset

LEMMA FiniteProduct ==
    ASSUME NEW S, IsFiniteSet(S), NEW T, IsFiniteSet(T)
    PROVE  IsFiniteSet(S \X T)
BY FS_Product

\* A set is finite if its elements can be told apart by those of a finite one.
LEMMA FiniteByCode ==
    ASSUME NEW S, IsFiniteSet(S), NEW T, NEW code,
           code = [x \in T |-> code[x]], \A x \in T : code[x] \in S,
           \A x, y \in T : code[x] = code[y] => x = y
    PROVE  IsFiniteSet(T)
<1>1. code \in Injection(T, S)
  BY DEF Injection, IsInjective
<1>. QED BY <1>1, FS_Injection

LEMMA FiniteInterval ==
    ASSUME NEW a \in Int, NEW b \in Int
    PROVE  IsFiniteSet(a .. b)
BY FS_Interval

LEMMA FiniteCardinality ==
    ASSUME NEW S, IsFiniteSet(S)
    PROVE  Cardinality(S) \in Nat
BY FS_CardinalityType

----------------------------------------------------------------------------
\* The recursion

\* The element the sum takes off next.
Pick1(s) == CHOOSE x \in s : TRUE

\* The subsets of S of at most n elements.
Upto(S, n) == {s \in SUBSET S : Cardinality(s) <= n}

\* g solves the recursion for f on the subsets in D.
Solves(f, D, g) ==
    g = [s \in D |-> IF s = {} THEN 0 ELSE f[Pick1(s)] + g[s \ {Pick1(s)}]]

\* The solution MapThenSumSet stands for, and the sum of f over S.
Fold(f, S) == CHOOSE g : Solves(f, SUBSET S, g)
Total(f, S) == Fold(f, S)[S]

\* A set of numbers that is not empty has a least element.
LEMMA LeastNat ==
    ASSUME NEW T \in SUBSET Nat, T # {}
    PROVE  \E n \in T : \A m \in T : n <= m
<1>1. \E n \in T : \A m \in T : <<m, n>> \notin OpToRel(<, Nat)
  BY NatLessThanWellFounded, WFMin
<1>2. ASSUME NEW m \in Nat, NEW n \in Nat, <<m, n>> \notin OpToRel(<, Nat)
      PROVE  n <= m
  <2>1. <<m, n>> \in Nat \X Nat /\ <<m, n>>[1] = m /\ <<m, n>>[2] = n
    OBVIOUS
  <2>2. ~(m < n)
    BY <1>2, <2>1 DEF OpToRel
  <2>. QED BY <2>2
<1>. QED BY <1>1, <1>2

\* The subsets of a finite set are finite, and taking the picked element off one
\* makes it smaller.
LEMMA Smaller ==
    ASSUME NEW S, IsFiniteSet(S), NEW s \in SUBSET S, s # {}
    PROVE  /\ Pick1(s) \in s
           /\ s \ {Pick1(s)} \in SUBSET S
           /\ Cardinality(s) \in Nat
           /\ Cardinality(s \ {Pick1(s)}) = Cardinality(s) - 1
<1>1. Pick1(s) \in s
  BY DEF Pick1
<1>2. IsFiniteSet(s)
  BY FS_Subset
<1>. QED BY <1>1, <1>2, FS_RemoveElement, FS_CardinalityType

\* The recursion has a solution on the subsets of at most n elements.
LEMMA SolutionUpto ==
    ASSUME NEW f, NEW S, IsFiniteSet(S), NEW n \in Nat
    PROVE  \E g : Solves(f, Upto(S, n), g)
<1>. DEFINE Bad == {m \in Nat : ~ \E g : Solves(f, Upto(S, m), g)}
<1>. SUFFICES ASSUME Bad # {} PROVE FALSE
  OBVIOUS
<1>1. PICK m \in Bad : \A k \in Bad : m <= k
  BY LeastNat
<1>2. CASE m = 0
  <2>. DEFINE h == [s \in Upto(S, 0) |-> 0]
  <2>1. \A s \in Upto(S, 0) : s = {}
    <3>1. \A s \in SUBSET S : IsFiniteSet(s) /\ Cardinality(s) \in Nat
      BY FS_Subset, FS_CardinalityType
    <3>2. \A s \in Upto(S, 0) : Cardinality(s) = 0
      BY <3>1 DEF Upto
    <3>. QED BY <3>1, <3>2, FS_EmptySet DEF Upto
  <2>2. Solves(f, Upto(S, 0), h)
    BY <2>1 DEF Solves
  <2>. QED BY <1>2, <2>2
<1>3. CASE m # 0
  <2>1. m - 1 \in Nat /\ m - 1 \notin Bad
    BY <1>1, <1>3
  <2>2. PICK g : Solves(f, Upto(S, m - 1), g)
    BY <2>1
  <2>. DEFINE h == [s \in Upto(S, m) |-> IF s = {} THEN 0 ELSE f[Pick1(s)] + g[s \ {Pick1(s)}]]
  <2>3. \A s \in Upto(S, m - 1) : s \in Upto(S, m) /\ h[s] = g[s]
    <3>1. \A s \in Upto(S, m - 1) : s \in Upto(S, m)
      <4>1. \A s \in SUBSET S : Cardinality(s) \in Nat
        BY FS_Subset, FS_CardinalityType
      <4>. QED BY <4>1, <2>1 DEF Upto
    <3>. QED BY <2>2, <3>1 DEF Solves
  <2>4. \A s \in Upto(S, m) : s # {} => s \ {Pick1(s)} \in Upto(S, m - 1)
    BY <2>1, Smaller DEF Upto
  <2>5. \A s \in Upto(S, m) : s # {} => h[s \ {Pick1(s)}] = g[s \ {Pick1(s)}]
    BY <2>3, <2>4
  <2>6. Solves(f, Upto(S, m), h)
    BY <2>5 DEF Solves
  <2>. QED BY <2>6
<1>. QED BY <1>2, <1>3

\* So it has one on all subsets of a finite set, and MapThenSumSet's is such a one.
LEMMA FoldSolves ==
    ASSUME NEW f, NEW S, IsFiniteSet(S)
    PROVE  Solves(f, SUBSET S, Fold(f, S))
<1>1. Upto(S, Cardinality(S)) = SUBSET S /\ Cardinality(S) \in Nat
  BY FS_Subset, FS_CardinalityType DEF Upto
<1>2. \E g : Solves(f, Upto(S, Cardinality(S)), g)
  BY <1>1, SolutionUpto
<1>3. \E g : Solves(f, SUBSET S, g)
  BY <1>1, <1>2
<1>. QED BY <1>3 DEF Fold

\* Two solutions agree wherever both are defined.
LEMMA OneSolution ==
    ASSUME NEW f, NEW S, NEW T, IsFiniteSet(S), IsFiniteSet(T), T \subseteq S,
           NEW g, NEW h, Solves(f, SUBSET S, g), Solves(f, SUBSET T, h)
    PROVE  \A s \in SUBSET T : g[s] = h[s]
<1>. DEFINE Bad == {m \in Nat : \E s \in SUBSET T : Cardinality(s) = m /\ g[s] # h[s]}
<1>1. \A s \in SUBSET T : Cardinality(s) \in Nat
  BY FS_Subset, FS_CardinalityType
<1>2. CASE Bad = {}
  BY <1>1, <1>2
<1>3. CASE Bad # {}
  <2>1. PICK m \in Bad : \A k \in Bad : m <= k
    BY <1>3, LeastNat
  <2>2. PICK s \in SUBSET T : Cardinality(s) = m /\ g[s] # h[s]
    BY <2>1
  <2>3. s # {}
    <3>1. g[{}] = 0 /\ h[{}] = 0
      BY DEF Solves
    <3>. QED BY <2>2, <3>1
  <2>. DEFINE t == s \ {Pick1(s)}
  <2>4. t \in SUBSET T /\ Cardinality(t) = m - 1
    BY <2>2, <2>3, Smaller
  <2>5. g[t] = h[t]
    <3>1. Cardinality(t) \in Nat
      BY <1>1, <2>4
    <3>2. ~(m <= Cardinality(t))
      BY <2>1, <2>4
    <3>3. Cardinality(t) \notin Bad
      BY <2>1, <3>2
    <3>. QED BY <2>4, <3>1, <3>3
  <2>6. g[s] = f[Pick1(s)] + g[t] /\ h[s] = f[Pick1(s)] + h[t]
    BY <2>3 DEF Solves
  <2>. QED BY <2>2, <2>5, <2>6
<1>. QED BY <1>2, <1>3

\* The sum over the empty set is zero, and over any other set it is one element
\* and the sum of the rest.
LEMMA TotalUnfolds ==
    ASSUME NEW f, NEW S, IsFiniteSet(S)
    PROVE  Total(f, S) = IF S = {} THEN 0 ELSE f[Pick1(S)] + Total(f, S \ {Pick1(S)})
<1>1. Fold(f, S)[S] = IF S = {} THEN 0 ELSE f[Pick1(S)] + Fold(f, S)[S \ {Pick1(S)}]
  <2>1. Solves(f, SUBSET S, Fold(f, S)) /\ S \in SUBSET S
    BY FoldSolves
  <2>. QED BY <2>1 DEF Solves
<1>2. ASSUME NEW T \in SUBSET S
      PROVE  Fold(f, S)[T] = Fold(f, T)[T]
  <2>1. IsFiniteSet(T) /\ T \subseteq S /\ T \in SUBSET T
    BY FS_Subset
  <2>2. Solves(f, SUBSET S, Fold(f, S))
    BY FoldSolves
  <2>3. Solves(f, SUBSET T, Fold(f, T))
    BY <2>1, FoldSolves
  <2>4. \A s \in SUBSET T : Fold(f, S)[s] = Fold(f, T)[s]
    BY <2>1, <2>2, <2>3, OneSolution
  <2>. QED BY <2>1, <2>4
<1>3. Fold(f, S)[S \ {Pick1(S)}] = Fold(f, S \ {Pick1(S)})[S \ {Pick1(S)}]
  <2>1. S \ {Pick1(S)} \in SUBSET S
    OBVIOUS
  <2>. QED BY <2>1, <1>2
<1>. QED BY <1>1, <1>3 DEF Total

----------------------------------------------------------------------------
\* The facts

\* The sum over nothing is zero.
LEMMA TotalEmpty ==
    ASSUME NEW f
    PROVE  Total(f, {}) = 0
BY TotalUnfolds, FS_EmptySet

\* A sum of numbers is a number, and any of its elements can be taken off first.
LEMMA TotalRemove ==
    ASSUME NEW f, NEW S, Summable(f, S)
    PROVE  /\ Total(f, S) \in Int
           /\ \A x \in S : Total(f, S) = f[x] + Total(f, S \ {x})
<1>. DEFINE Good(s) == /\ Total(f, s) \in Int
                       /\ \A x \in s : Total(f, s) = f[x] + Total(f, s \ {x})
            Bad == {m \in Nat : \E s \in SUBSET S : Cardinality(s) = m /\ ~Good(s)}
<1>. USE DEF Summable
<1>1. \A s \in SUBSET S : IsFiniteSet(s) /\ Cardinality(s) \in Nat
  BY FS_Subset, FS_CardinalityType
<1>2. CASE Bad = {}
  <2>1. S \in SUBSET S /\ Cardinality(S) \in Nat
    BY <1>1
  <2>2. Good(S)
    BY <1>2, <2>1
  <2>. QED BY <2>2
<1>3. CASE Bad # {}
  <2>1. PICK m \in Bad : \A k \in Bad : m <= k
    BY <1>3, LeastNat
  <2>2. PICK s \in SUBSET S : Cardinality(s) = m /\ ~Good(s)
    BY <2>1
  <2>3. ASSUME NEW t \in SUBSET s, t # s
        PROVE  Good(t)
    <3>1. t \in SUBSET S /\ Cardinality(t) \in Nat /\ Cardinality(t) < m
      BY <1>1, <2>2, <2>3, FS_Subset
    <3>2. Cardinality(t) \notin Bad
      BY <2>1, <3>1
    <3>. QED BY <3>1, <3>2
  <2>4. s # {}
    <3>1. Good({})
      BY TotalEmpty
    <3>. QED BY <2>2, <3>1
  <2>. DEFINE c == Pick1(s)
  <2>5. c \in s /\ f[c] \in Int /\ Total(f, s \ {c}) \in Int
    BY <2>3, <2>4 DEF Pick1
  <2>6. Total(f, s) = f[c] + Total(f, s \ {c})
    BY <1>1, <2>4, TotalUnfolds
  <2>7. ASSUME NEW x \in s
        PROVE  Total(f, s) = f[x] + Total(f, s \ {x})
    <3>1. CASE x = c
      BY <2>6, <3>1
    <3>2. CASE x # c
      <4>1. /\ Total(f, s \ {c}) = f[x] + Total(f, (s \ {c}) \ {x})
            /\ Total(f, s \ {x}) = f[c] + Total(f, (s \ {x}) \ {c})
            /\ Total(f, (s \ {c}) \ {x}) = Total(f, s \ {c}) - f[x]
            /\ f[x] \in Int
        <5>1. x \in s \ {c} /\ c \in s \ {x} /\ f[x] \in Int
          BY <2>5, <3>2
        <5>2. /\ Total(f, s \ {c}) = f[x] + Total(f, (s \ {c}) \ {x})
              /\ Total(f, s \ {x}) = f[c] + Total(f, (s \ {x}) \ {c})
          BY <2>3, <2>5, <5>1
        <5>3. Total(f, (s \ {c}) \ {x}) \in Int
          BY <2>3, <5>1
        <5>. QED BY <2>5, <5>1, <5>2, <5>3
      <4>2. (s \ {c}) \ {x} = (s \ {x}) \ {c}
        OBVIOUS
      <4>3. Total(f, s \ {x}) = f[c] + (Total(f, s \ {c}) - f[x])
        BY <4>1, <4>2
      <4>. QED BY <2>5, <2>6, <4>1, <4>3
    <3>. QED BY <3>1, <3>2
  <2>8. Good(s)
    BY <2>5, <2>6, <2>7
  <2>. QED BY <2>2, <2>8
<1>. QED BY <1>2, <1>3

\* Induction over a finite set: a family of its subsets that has the empty one,
\* and with every subset that misses an element the one that has it too, has them all.
LEMMA SetInduction ==
    ASSUME NEW S, IsFiniteSet(S), NEW G \in SUBSET (SUBSET S), {} \in G,
           \A s \in SUBSET S : \A x \in s : s \ {x} \in G => s \in G
    PROVE  S \in G
<1>. DEFINE Bad == {m \in Nat : \E s \in SUBSET S : Cardinality(s) = m /\ s \notin G}
<1>1. \A s \in SUBSET S : IsFiniteSet(s) /\ Cardinality(s) \in Nat
  BY FS_Subset, FS_CardinalityType
<1>2. CASE Bad = {}
  <2>1. S \in SUBSET S /\ Cardinality(S) \in Nat
    BY <1>1
  <2>. QED BY <1>2, <2>1
<1>3. CASE Bad # {}
  <2>1. PICK m \in Bad : \A k \in Bad : m <= k
    BY <1>3, LeastNat
  <2>2. PICK s \in SUBSET S : Cardinality(s) = m /\ s \notin G
    BY <2>1
  <2>3. PICK x \in s : TRUE
    BY <2>2
  <2>4. Cardinality(s \ {x}) = m - 1 /\ s \ {x} \in SUBSET S
    BY <1>1, <2>2, FS_RemoveElement
  <2>5. Cardinality(s \ {x}) \in Nat /\ ~(m <= Cardinality(s \ {x}))
    BY <1>1, <2>1, <2>4
  <2>6. s \ {x} \in G
    BY <2>1, <2>4, <2>5
  <2>. QED BY <2>2, <2>3, <2>6
<1>. QED BY <1>2, <1>3

\* Functions that agree on S have the same sum over it.
LEMMA TotalAgrees ==
    ASSUME NEW f, NEW g, NEW S, Summable(f, S), \A x \in S : f[x] = g[x]
    PROVE  Total(f, S) = Total(g, S)
<1>. DEFINE G == {s \in SUBSET S : Total(f, s) = Total(g, s)}
<1>1. {} \in G
  BY TotalEmpty
<1>2. ASSUME NEW s \in SUBSET S, NEW x \in s, s \ {x} \in G
      PROVE  s \in G
  <2>1. Summable(f, s) /\ Summable(g, s)
    BY FS_Subset DEF Summable
  <2>2. Total(f, s) = f[x] + Total(f, s \ {x}) /\ Total(g, s) = g[x] + Total(g, s \ {x})
    BY <2>1, TotalRemove
  <2>. QED BY <1>2, <2>2
<1>3. G \in SUBSET (SUBSET S) /\ IsFiniteSet(S)
  BY DEF Summable
<1>4. S \in G
  <2>. HIDE DEF G
  <2>. QED BY <1>1, <1>2, <1>3, SetInduction
<1>. QED BY <1>4

\* Changing f at one element changes the sum by as much.
LEMMA TotalChanges ==
    ASSUME NEW f, NEW g, NEW S, Summable(f, S), Summable(g, S),
           NEW x \in S, \A y \in S \ {x} : f[y] = g[y]
    PROVE  Total(g, S) = Total(f, S) + (g[x] - f[x])
<1>1. Summable(f, S \ {x}) /\ Summable(g, S \ {x})
  BY FS_Subset DEF Summable
<1>2. Total(f, S \ {x}) = Total(g, S \ {x})
  BY <1>1, TotalAgrees
<1>3. Total(f, S) = f[x] + Total(f, S \ {x}) /\ Total(g, S) = g[x] + Total(g, S \ {x})
  BY TotalRemove
<1>4. Total(f, S \ {x}) \in Int /\ f[x] \in Int /\ g[x] \in Int
  BY <1>1, TotalRemove DEF Summable
<1>. QED BY <1>2, <1>3, <1>4

\* Nothing but zeros sums to zero.
LEMMA TotalOfZeros ==
    ASSUME NEW f, NEW S, IsFiniteSet(S), \A x \in S : f[x] = 0
    PROVE  Total(f, S) = 0
<1>. DEFINE G == {s \in SUBSET S : Total(f, s) = 0}
<1>1. {} \in G
  BY TotalEmpty
<1>2. ASSUME NEW s \in SUBSET S, NEW x \in s, s \ {x} \in G
      PROVE  s \in G
  <2>1. Summable(f, s)
    BY FS_Subset DEF Summable
  <2>2. Total(f, s) = f[x] + Total(f, s \ {x}) /\ f[x] = 0
    BY <2>1, TotalRemove
  <2>. QED BY <1>2, <2>2
<1>3. G \in SUBSET (SUBSET S)
  OBVIOUS
<1>4. S \in G
  <2>. HIDE DEF G
  <2>. QED BY <1>1, <1>2, <1>3, SetInduction
<1>. QED BY <1>4

\* The sum of the sums is the sum over both.
LEMMA TotalPlus ==
    ASSUME NEW f, NEW g, NEW h, NEW S, Summable(f, S), Summable(g, S),
           \A x \in S : h[x] = f[x] + g[x]
    PROVE  Total(h, S) = Total(f, S) + Total(g, S)
<1>. DEFINE G == {s \in SUBSET S : Total(h, s) = Total(f, s) + Total(g, s)}
<1>1. {} \in G
  BY TotalEmpty
<1>2. ASSUME NEW s \in SUBSET S, NEW x \in s, s \ {x} \in G
      PROVE  s \in G
  <2>1. Summable(f, s) /\ Summable(g, s) /\ Summable(h, s)
    BY FS_Subset DEF Summable
  <2>2. Summable(f, s \ {x}) /\ Summable(g, s \ {x})
    BY <2>1, FS_Subset DEF Summable
  <2>3. /\ Total(f, s) = f[x] + Total(f, s \ {x})
        /\ Total(g, s) = g[x] + Total(g, s \ {x})
        /\ Total(h, s) = h[x] + Total(h, s \ {x})
        /\ Total(f, s \ {x}) \in Int /\ Total(g, s \ {x}) \in Int
    BY <2>1, <2>2, TotalRemove
  <2>4. Total(h, s \ {x}) = Total(f, s \ {x}) + Total(g, s \ {x})
    BY <1>2
  <2>5. h[x] = f[x] + g[x] /\ f[x] \in Int /\ g[x] \in Int
    BY DEF Summable
  <2>. QED BY <2>3, <2>4, <2>5
<1>3. IsFiniteSet(S)
  BY DEF Summable
<1>. HIDE DEF G
<1>4. S \in G
  <2>1. G \in SUBSET (SUBSET S)
    BY DEF G
  <2>. QED BY <1>1, <1>2, <1>3, <2>1, SetInduction
<1>. QED BY <1>4 DEF G

\* A sum of natural numbers is one.
LEMMA TotalNatural ==
    ASSUME NEW f, NEW S, IsFiniteSet(S), \A x \in S : f[x] \in Nat
    PROVE  Total(f, S) \in Nat
<1>. DEFINE G == {s \in SUBSET S : Total(f, s) \in Nat}
<1>1. {} \in G
  BY TotalEmpty
<1>2. ASSUME NEW s \in SUBSET S, NEW x \in s, s \ {x} \in G
      PROVE  s \in G
  <2>1. Summable(f, s)
    BY FS_Subset DEF Summable
  <2>2. Total(f, s) = f[x] + Total(f, s \ {x})
    BY <2>1, TotalRemove
  <2>. QED BY <1>2, <2>2
<1>. HIDE DEF G
<1>3. S \in G
  <2>1. G \in SUBSET (SUBSET S)
    BY DEF G
  <2>. QED BY <1>1, <1>2, <2>1, SetInduction
<1>. QED BY <1>3 DEF G

\* Elements that count nothing may be left out.
LEMMA TotalOnSubset ==
    ASSUME NEW f, NEW T, NEW S, Summable(f, T), S \subseteq T, \A x \in T \ S : f[x] = 0
    PROVE  Total(f, T) = Total(f, S)
<1>. DEFINE G == {s \in SUBSET (T \ S) : Total(f, S \cup s) = Total(f, S)}
<1>1. {} \in G
  <2>1. S \cup {} = S
    OBVIOUS
  <2>. QED BY <2>1
<1>2. ASSUME NEW s \in SUBSET (T \ S), NEW x \in s, s \ {x} \in G
      PROVE  s \in G
  <2>1. Summable(f, S \cup s)
    BY FS_Subset DEF Summable
  <2>2. Total(f, S \cup s) = f[x] + Total(f, (S \cup s) \ {x})
    BY <2>1, TotalRemove
  <2>3. (S \cup s) \ {x} = S \cup (s \ {x}) /\ f[x] = 0
    OBVIOUS
  <2>4. Total(f, S \cup (s \ {x})) = Total(f, S)
    BY <1>2
  <2>5. Summable(f, S)
    BY FS_Subset DEF Summable
  <2>6. Total(f, S) \in Int
    BY <2>5, TotalRemove
  <2>7. Total(f, S \cup s) = 0 + Total(f, S)
    BY <2>2, <2>3, <2>4
  <2>8. Total(f, S \cup s) = Total(f, S)
    BY <2>6, <2>7
  <2>. QED BY <2>8
<1>3. IsFiniteSet(T \ S)
  BY FS_Subset DEF Summable
<1>4. S \cup (T \ S) = T
  OBVIOUS
<1>. HIDE DEF G
<1>5. T \ S \in G
  <2>1. G \in SUBSET (SUBSET (T \ S))
    BY DEF G
  <2>. QED BY <1>1, <1>2, <1>3, <2>1, SetInduction
<1>. QED BY <1>4, <1>5 DEF G

\* The elements of S that g takes to t.
Fibre(g, S, t) == {x \in S : g[x] = t}

\* A sum taken group by group: g says which group of T each element belongs to.
LEMMA TotalByGroup ==
    ASSUME NEW f, NEW g, NEW S, NEW T, Summable(f, S), IsFiniteSet(T), \A x \in S : g[x] \in T
    PROVE  Total([t \in T |-> Total(f, Fibre(g, S, t))], T) = Total(f, S)
<1>. DEFINE Groups(s) == [t \in T |-> Total(f, Fibre(g, s, t))]
            G == {s \in SUBSET S : Total(Groups(s), T) = Total(f, s)}
<1>1. {} \in G
  <2>1. \A t \in T : Groups({})[t] = 0
    <3>1. \A t \in T : Fibre(g, {}, t) = {}
      BY DEF Fibre
    <3>. QED BY <3>1, TotalEmpty
  <2>. HIDE DEF Groups
  <2>2. Total(Groups({}), T) = 0
    BY <2>1, TotalOfZeros
  <2>. QED BY <2>2, TotalEmpty
<1>2. \A s \in SUBSET S : \A t \in T : Summable(f, Fibre(g, s, t)) /\ Groups(s)[t] \in Int
  <2>1. ASSUME NEW s \in SUBSET S, NEW t \in T
        PROVE  Summable(f, Fibre(g, s, t)) /\ Groups(s)[t] \in Int
    <3>1. Fibre(g, s, t) \subseteq S
      BY DEF Fibre
    <3>2. Summable(f, Fibre(g, s, t))
      BY <3>1, FS_Subset DEF Summable
    <3>3. Total(f, Fibre(g, s, t)) \in Int
      BY <3>2, TotalRemove
    <3>. QED BY <3>2, <3>3
  <2>. QED BY <2>1
<1>3. ASSUME NEW s \in SUBSET S, NEW x \in s, s \ {x} \in G
      PROVE  s \in G
  <2>. DEFINE r == s \ {x}
  <2>1. \A t \in T \ {g[x]} : Fibre(g, r, t) = Fibre(g, s, t)
    BY DEF Fibre
  <2>2. x \in Fibre(g, s, g[x]) /\ Fibre(g, s, g[x]) \ {x} = Fibre(g, r, g[x])
    BY DEF Fibre
  <2>3. g[x] \in T /\ r \in SUBSET S
    OBVIOUS
  <2>4. Total(f, Fibre(g, s, g[x])) = f[x] + Total(f, Fibre(g, r, g[x]))
    <3>1. Summable(f, Fibre(g, s, g[x]))
      BY <1>2, <2>3
    <3>2. Total(f, Fibre(g, s, g[x])) = f[x] + Total(f, Fibre(g, s, g[x]) \ {x})
      BY <2>2, <3>1, TotalRemove
    <3>. QED BY <2>2, <3>2
  <2>5. /\ \A t \in T \ {g[x]} : Groups(r)[t] = Groups(s)[t]
        /\ Groups(s)[g[x]] = f[x] + Groups(r)[g[x]]
    BY <2>1, <2>3, <2>4
  <2>6. \A t \in T : Groups(s)[t] \in Int /\ Groups(r)[t] \in Int
    BY <1>2, <2>3
  <2>7. Total(Groups(r), T) = Total(f, r)
    BY <1>3
  <2>8. f[x] \in Int /\ Total(f, s) = f[x] + Total(f, r) /\ Total(f, r) \in Int
    <3>1. Summable(f, s) /\ Summable(f, r)
      BY FS_Subset DEF Summable
    <3>. QED BY <3>1, TotalRemove DEF Summable
  <2>. HIDE DEF Groups, r
  <2>9. Total(Groups(s), T) = Total(Groups(r), T) + (Groups(s)[g[x]] - Groups(r)[g[x]])
    <3>1. Summable(Groups(s), T) /\ Summable(Groups(r), T)
      BY <2>6 DEF Summable
    <3>. QED BY <2>3, <2>5, <3>1, TotalChanges
  <2>10. Total(Groups(s), T) = Total(f, s)
    BY <2>3, <2>5, <2>6, <2>7, <2>8, <2>9
  <2>. QED BY <2>10
<1>4. IsFiniteSet(S)
  BY DEF Summable
<1>5. G \in SUBSET (SUBSET S)
  OBVIOUS
<1>6. S \in G => Total([t \in T |-> Total(f, Fibre(g, S, t))], T) = Total(f, S)
  OBVIOUS
<1>. HIDE DEF G
<1>. QED BY <1>1, <1>3, <1>4, <1>5, <1>6, SetInduction

=============================================================================
