------------------------------ MODULE SumLemmas ------------------------------
(***************************************************************************)
(* Sums over finite sets of any size: SumFunctionOnSet(f, S) adds up f[x]  *)
(* for the x of S.  The community module defines it as a recursive fold    *)
(* that takes one chosen element out of the set after another; the lemmas  *)
(* below let a proof take out, put in or change any summand instead.       *)
(*                                                                         *)
(* Induction is by well-founded minima (WFMin): it is stated with sets,    *)
(* which a first-order prover can instantiate, not with predicates.        *)
(*                                                                         *)
(* The last section is about the running sums of a list of numbers.        *)
(***************************************************************************)
EXTENDS FiniteSetTheorems, TLAPS

-----------------------------------------------------------------------------
(* The fold, and why its order makes no difference *)

\* A set of naturals that has 0, and n + 1 when it has n, has all of them.
LEMMA NatSetInduction ==
  ASSUME NEW S \in SUBSET Nat, 0 \in S, \A n \in S : n + 1 \in S
  PROVE  S = Nat
<1> SUFFICES ASSUME Nat \ S # {} PROVE FALSE
  OBVIOUS
<1>0. PICK R : R = OpToRel(<, Nat)
  OBVIOUS
<1>1. PICK x \in Nat \ S : \A y \in Nat \ S : <<y, x>> \notin R
  <2>1. IsWellFoundedOn(R, Nat)
    BY <1>0, NatLessThanWellFounded
  <2>2. PICK T : T = Nat \ S
    OBVIOUS
  <2>3. \E x \in T : \A y \in T : ~(<<y, x>> \in R)
    BY <2>1, <2>2, WFMin
  <2>4. QED
    BY <2>2, <2>3
<1>2. x \in Nat /\ x # 0 /\ x \notin S
  BY <1>1
<1>3. x - 1 \in Nat /\ x - 1 < x /\ (x - 1) + 1 = x
  BY <1>2
<1>3a. <<x - 1, x>> \in R
  BY <1>0, <1>2, <1>3 DEF OpToRel
<1>4. x - 1 \in S
  BY <1>1, <1>3, <1>3a
<1>5. x \in S
  BY <1>3, <1>4
<1>6. QED
  BY <1>2, <1>5

\* A set of naturals that is not empty has a least element.
LEMMA LeastOf ==
  ASSUME NEW S \in SUBSET Nat, S # {}
  PROVE  \E x \in S : \A y \in S : x <= y
<1> SUFFICES ASSUME \A x \in S : \E y \in S : ~(x <= y) PROVE FALSE
  OBVIOUS
<1> DEFINE Below == {n \in Nat : \A x \in S : n <= x}
<1>1. 0 \in Below
  OBVIOUS
<1>2. ASSUME NEW n \in Below PROVE n + 1 \in Below
  <2>1. n \notin S
    OBVIOUS
  <2>2. \A x \in S : n <= x /\ n # x
    BY <2>1
  <2>3. QED
    BY <2>2
<1>3. Below = Nat
  <2>1. Below \in SUBSET Nat
    OBVIOUS
  <2> HIDE DEF Below
  <2>2. QED
    BY <1>1, <1>2, <2>1, NatSetInduction
<1>4. PICK x \in S : TRUE
  OBVIOUS
<1>5. x + 1 \in Below
  BY <1>3
<1>6. QED
  BY <1>5

\* A fold of the values of f, that takes c[s] out of the set s first, is the value
\* at the whole set of a function g that solves this equation on its subsets D.
FoldStep(f, c, s, g) == IF s = {} THEN 0 ELSE f[c[s]] + g[s \ {c[s]}]
Solves(g, D, f, c) == g = [s \in D |-> FoldStep(f, c, s, g)]
UpTo(S, n) == {s \in SUBSET S : Cardinality(s) <= n}

\* A solution on the sets of up to n elements extends to those of n + 1.
LEMMA IterateGrows ==
  ASSUME NEW S, IsFiniteSet(S), NEW f, NEW c, NEW n \in Nat, NEW g,
         \A s \in SUBSET S : s # {} => c[s] \in s,
         Solves(g, UpTo(S, n), f, c)
  PROVE  \E h : Solves(h, UpTo(S, n + 1), f, c)
<1> DEFINE h == [s \in UpTo(S, n + 1) |-> FoldStep(f, c, s, g)]
<1>1. \A s \in UpTo(S, n) : s \in UpTo(S, n + 1) /\ h[s] = g[s]
  <2>1. \A s \in UpTo(S, n) : s \in UpTo(S, n + 1)
    BY FS_Subset, FS_CardinalityType DEF UpTo
  <2>2. QED
    BY <2>1 DEF Solves
<1>2. ASSUME NEW s \in UpTo(S, n + 1), s # {} PROVE s \ {c[s]} \in UpTo(S, n)
  <2>1. s \in SUBSET S /\ Cardinality(s) <= n + 1 /\ c[s] \in s
    BY <1>2 DEF UpTo
  <2>2. IsFiniteSet(s) /\ Cardinality(s) \in Nat
    BY <2>1, FS_Subset, FS_CardinalityType
  <2>3. Cardinality(s \ {c[s]}) = Cardinality(s) - 1
    BY <2>1, <2>2, FS_RemoveElement
  <2>4. QED
    BY <2>1, <2>2, <2>3 DEF UpTo
<1>3. \A s \in UpTo(S, n + 1) : FoldStep(f, c, s, g) = FoldStep(f, c, s, h)
  BY <1>1, <1>2 DEF FoldStep
<1>4. Solves(h, UpTo(S, n + 1), f, c)
  BY <1>3 DEF Solves
<1>5. QED
  BY <1>4

\* The equation has a solution on all subsets of a finite set.
LEMMA IterateExists ==
  ASSUME NEW S, IsFiniteSet(S), NEW f, NEW c,
         \A s \in SUBSET S : s # {} => c[s] \in s
  PROVE  \E g : Solves(g, SUBSET S, f, c)
<1>1. PICK N : N = {n \in Nat : \E g : Solves(g, UpTo(S, n), f, c)}
  OBVIOUS
<1>2. 0 \in N
  <2>1. UpTo(S, 0) = {{}}
    <3>1. \A s \in SUBSET S : IsFiniteSet(s) /\ Cardinality(s) \in Nat
      BY FS_Subset, FS_CardinalityType
    <3>2. QED
      BY <3>1, FS_EmptySet DEF UpTo
  <2>2. Solves([s \in {{}} |-> 0], {{}}, f, c)
    BY DEF Solves, FoldStep
  <2>3. QED
    BY <1>1, <2>1, <2>2
<1>3. \A n \in N : n + 1 \in N
  BY <1>1, IterateGrows
<1>4. N = Nat
  <2>1. N \in SUBSET Nat
    BY <1>1
  <2>2. QED
    BY <1>2, <1>3, <2>1, NatSetInduction
<1>5. Cardinality(S) \in Nat /\ UpTo(S, Cardinality(S)) = SUBSET S
  BY FS_Subset, FS_CardinalityType DEF UpTo
<1>6. PICK g : Solves(g, UpTo(S, Cardinality(S)), f, c)
  BY <1>1, <1>4, <1>5
<1>7. QED
  BY <1>5, <1>6

\* The element that SumFunctionOnSet takes out of a set first.
Chosen(S) == [s \in SUBSET S |-> CHOOSE x \in s : TRUE]

\* SumFunctionOnSet is such a solution at the whole set.
LEMMA SumIterates ==
  ASSUME NEW S, IsFiniteSet(S), NEW f
  PROVE  \E g : SumFunctionOnSet(f, S) = g[S] /\ Solves(g, SUBSET S, f, Chosen(S))
<1> DEFINE iter == CHOOSE iter : iter = [s \in SUBSET S |-> IF s = {} THEN 0
              ELSE f[CHOOSE x \in s : TRUE] + iter[s \ {CHOOSE x \in s : TRUE}]]
<1>1. PICK c : c = Chosen(S)
  OBVIOUS
<1>2. \A s \in SUBSET S : c[s] = CHOOSE x \in s : TRUE
  BY <1>1 DEF Chosen
<1>3. PICK g : Solves(g, SUBSET S, f, c)
  <2>1. \A s \in SUBSET S : s # {} => c[s] \in s
    BY <1>2
  <2>2. QED
    BY <2>1, IterateExists
<1>4. g = [s \in SUBSET S |-> IF s = {} THEN 0
             ELSE f[CHOOSE x \in s : TRUE] + g[s \ {CHOOSE x \in s : TRUE}]]
  BY <1>2, <1>3 DEF Solves, FoldStep
<1>5. iter = [s \in SUBSET S |-> IF s = {} THEN 0
             ELSE f[CHOOSE x \in s : TRUE] + iter[s \ {CHOOSE x \in s : TRUE}]]
  BY <1>4
<1>6. SumFunctionOnSet(f, S) = iter[S]
  BY Zenon DEF SumFunctionOnSet, FoldFunctionOnSet, MapThenFoldSet
<1> HIDE DEF iter
<1>7. Solves(iter, SUBSET S, f, c)
  BY <1>2, <1>5 DEF Solves, FoldStep
<1>8. QED
  BY <1>1, <1>6, <1>7

\* f has finitely many summands on S; g sums them up on its subsets, in some order;
\* f and e are the same on S.
Summable(f, S) == IsFiniteSet(S) /\ \A x \in S : f[x] \in Int
IsSum(g, f, S) ==
  \E c : (\A s \in SUBSET S : s # {} => c[s] \in s) /\ Solves(g, SUBSET S, f, c)
Agree(f, e, S) == \A x \in S : f[x] = e[x]

\* The sum of f over S is the value at S of a function that sums f up in some order.
LEMMA SumIsSum ==
  ASSUME NEW S, NEW f, Summable(f, S)
  PROVE  \E g : SumFunctionOnSet(f, S) = g[S] /\ IsSum(g, f, S)
<1>1. PICK g : SumFunctionOnSet(f, S) = g[S] /\ Solves(g, SUBSET S, f, Chosen(S))
  BY SumIterates DEF Summable
<1>2. \A s \in SUBSET S : s # {} => Chosen(S)[s] \in s
  BY DEF Chosen
<1>3. QED
  BY <1>1, <1>2 DEF IsSum

\* g has a number at s, and any element of s may be the one taken out.
FreeAt(g, f, s) == g[s] \in Int /\ \A x \in s : g[s] = f[x] + g[s \ {x}]

\* If that is so of the smaller sets, it is so of s, where one element can be.
LEMMA AnyOther ==
  ASSUME NEW f, NEW g, NEW s, \A x \in s : f[x] \in Int,
         NEW y \in s, g[s] = f[y] + g[s \ {y}],
         \A x \in s : FreeAt(g, f, s \ {x}),
         \A x \in s : g[(s \ {x}) \ {y}] \in Int
  PROVE  FreeAt(g, f, s)
<1>1. g[s] \in Int
  BY DEF FreeAt
<1>2. ASSUME NEW x \in s, x # y PROVE g[s] = f[x] + g[s \ {x}]
  <2>1. PICK t : t = (s \ {x}) \ {y}
    OBVIOUS
  <2>2. (s \ {y}) \ {x} = t
    BY <2>1
  <2>3. g[s \ {y}] = f[x] + g[t]
    BY <1>2, <2>2 DEF FreeAt
  <2>4. g[s \ {x}] = f[y] + g[t]
    BY <1>2, <2>1 DEF FreeAt
  <2>5. PICK a \in Int, b \in Int, r \in Int : a = f[x] /\ b = f[y] /\ r = g[t]
    BY <2>1
  <2>6. g[s] = b + (a + r) /\ g[s \ {x}] = b + r
    BY <2>3, <2>4, <2>5
  <2>7. b + (a + r) = a + (b + r)
    OBVIOUS
  <2>8. QED
    BY <2>5, <2>6, <2>7
<1>3. QED
  BY <1>1, <1>2 DEF FreeAt

\* Which element is taken out of a set makes no difference to a sum.
LEMMA AnyOrder ==
  ASSUME NEW S, NEW f, NEW g, Summable(f, S), IsSum(g, f, S)
  PROVE  g[{}] = 0 /\ \A s : s \subseteq S => FreeAt(g, f, s)
<1>1. PICK N : N = {n \in Nat : \A s \in UpTo(S, n) : FreeAt(g, f, s)}
  OBVIOUS
<1>2. PICK c : /\ \A s \in SUBSET S : s # {} => c[s] \in s
               /\ Solves(g, SUBSET S, f, c)
  BY DEF IsSum
<1>3. g[{}] = 0 /\ \A s \in SUBSET S : s # {} => g[s] = f[c[s]] + g[s \ {c[s]}]
  BY <1>2 DEF Solves, FoldStep
<1>4. /\ \A x \in S : f[x] \in Int
      /\ \A s \in SUBSET S : IsFiniteSet(s) /\ Cardinality(s) \in Nat
  BY FS_Subset, FS_CardinalityType DEF Summable
<1>5. FreeAt(g, f, {})
  BY <1>3 DEF FreeAt
<1>6. 0 \in N
  <2>1. \A s \in UpTo(S, 0) : s = {}
    BY <1>4, FS_EmptySet DEF UpTo
  <2>2. QED
    BY <1>1, <1>5, <2>1
<1>7. ASSUME NEW n \in N PROVE n + 1 \in N
  <2>1. n \in Nat /\ \A s \in SUBSET S : Cardinality(s) <= n => FreeAt(g, f, s)
    BY <1>1 DEF UpTo
  <2>2. ASSUME NEW s \in UpTo(S, n + 1), s # {} PROVE FreeAt(g, f, s)
    <3>1. s \in SUBSET S /\ Cardinality(s) <= n + 1
      BY DEF UpTo
    <3>2. PICK y \in s : g[s] = f[y] + g[s \ {y}]
      BY <1>2, <1>3, <2>2, <3>1
    <3>3. ASSUME NEW x \in s
          PROVE  FreeAt(g, f, s \ {x}) /\ FreeAt(g, f, (s \ {x}) \ {y})
      <4>1. PICK t : t = s \ {x}
        OBVIOUS
      <4>2. t \in SUBSET S /\ Cardinality(t) <= n
        BY <1>4, <2>1, <3>1, <4>1, FS_RemoveElement
      <4>3. PICK u : u = t \ {y}
        OBVIOUS
      <4>4. u \in SUBSET S /\ u \in SUBSET t
        BY <4>2, <4>3
      <4>5. Cardinality(u) <= Cardinality(t)
        BY <1>4, <4>2, <4>4, FS_Subset
      <4>6. Cardinality(u) <= n
        BY <1>4, <2>1, <4>2, <4>4, <4>5
      <4>7. QED
        BY <2>1, <4>1, <4>2, <4>3, <4>4, <4>6
    <3>4. \A x \in s : g[(s \ {x}) \ {y}] \in Int /\ f[x] \in Int
      BY <1>4, <3>1, <3>3 DEF FreeAt
    <3>5. QED
      BY <3>2, <3>3, <3>4, AnyOther
  <2>3. \A s \in UpTo(S, n + 1) : FreeAt(g, f, s)
    BY <1>5, <2>2
  <2>4. QED
    BY <1>1, <2>1, <2>3
<1>8. N = Nat
  <2>1. N \in SUBSET Nat
    BY <1>1
  <2>2. QED
    BY <1>6, <1>7, <2>1, NatSetInduction
<1>9. ASSUME NEW s, s \subseteq S PROVE FreeAt(g, f, s)
  <2>1. s \in UpTo(S, Cardinality(s)) /\ Cardinality(s) \in N
    BY <1>4, <1>8, <1>9 DEF UpTo
  <2>2. QED
    BY <1>1, <2>1
<1>10. QED
  BY <1>3, <1>9

\* Two sums agree on a set where the functions that they sum up agree.
LEMMA SumsAgree ==
  ASSUME NEW S, NEW f, NEW g, Summable(f, S), IsSum(g, f, S),
         NEW T, NEW e, NEW h, Summable(e, T), IsSum(h, e, T),
         NEW U, U \subseteq S, U \subseteq T, Agree(f, e, U)
  PROVE  g[U] = h[U]
<1>1. PICK N : N = {n \in Nat : \A s \in UpTo(U, n) : g[s] = h[s]}
  OBVIOUS
<1>2. IsFiniteSet(U) /\ \A s \in SUBSET U : IsFiniteSet(s) /\ Cardinality(s) \in Nat
  <2>1. IsFiniteSet(U)
    BY FS_Subset DEF Summable
  <2>2. QED
    BY <2>1, FS_Subset, FS_CardinalityType
<1>3. g[{}] = 0 /\ \A s : s \subseteq S => FreeAt(g, f, s)
  BY AnyOrder
<1>4. h[{}] = 0 /\ \A s : s \subseteq T => FreeAt(h, e, s)
  BY AnyOrder
<1>5. 0 \in N
  <2>1. \A s \in UpTo(U, 0) : s = {}
    BY <1>2, FS_EmptySet DEF UpTo
  <2>2. QED
    BY <1>1, <1>3, <1>4, <2>1
<1>6. ASSUME NEW n \in N PROVE n + 1 \in N
  <2>1. n \in Nat /\ \A s \in UpTo(U, n) : g[s] = h[s]
    BY <1>1
  <2>2. ASSUME NEW s \in UpTo(U, n + 1), s # {} PROVE g[s] = h[s]
    <3>1. s \in SUBSET U /\ Cardinality(s) <= n + 1 /\ s \subseteq S /\ s \subseteq T
      BY DEF UpTo
    <3>2. PICK x \in s : TRUE
      BY <2>2
    <3>3. Cardinality(s \ {x}) = Cardinality(s) - 1
      BY <1>2, <3>1, FS_RemoveElement
    <3>4. g[s \ {x}] = h[s \ {x}]
      BY <1>2, <2>1, <3>1, <3>3 DEF UpTo
    <3>5. g[s] = f[x] + g[s \ {x}] /\ h[s] = e[x] + h[s \ {x}] /\ f[x] = e[x]
      BY <1>3, <1>4, <3>1 DEF Agree, FreeAt
    <3>6. QED
      BY <3>4, <3>5
  <2>3. \A s \in UpTo(U, n + 1) : g[s] = h[s]
    BY <1>3, <1>4, <2>2
  <2>4. QED
    BY <1>1, <2>1, <2>3
<1>7. N = Nat
  <2>1. N \in SUBSET Nat
    BY <1>1
  <2>2. QED
    BY <1>5, <1>6, <2>1, NatSetInduction
<1>8. U \in UpTo(U, Cardinality(U)) /\ Cardinality(U) \in N
  BY <1>2, <1>7 DEF UpTo
<1>9. QED
  BY <1>1, <1>8

-----------------------------------------------------------------------------
(* Sums over finite sets *)

\* The sum is the same for every function that agrees on the set.
LEMMA SumAgrees ==
  ASSUME NEW S, NEW f, NEW e, Summable(f, S), Agree(f, e, S)
  PROVE  SumFunctionOnSet(f, S) = SumFunctionOnSet(e, S)
<1>1. Summable(e, S)
  BY DEF Summable, Agree
<1>2. PICK g : SumFunctionOnSet(f, S) = g[S] /\ IsSum(g, f, S)
  BY SumIsSum
<1>3. PICK h : SumFunctionOnSet(e, S) = h[S] /\ IsSum(h, e, S)
  BY <1>1, SumIsSum
<1>4. g[S] = h[S]
  BY <1>1, <1>2, <1>3, SumsAgree
<1>5. QED
  BY <1>2, <1>3, <1>4

\* A sum is an integer, and one summand can be taken out of it.
LEMMA SumTakesOut ==
  ASSUME NEW S, NEW f, Summable(f, S)
  PROVE  /\ SumFunctionOnSet(f, S) \in Int
         /\ S = {} => SumFunctionOnSet(f, S) = 0
         /\ \A x \in S : SumFunctionOnSet(f, S) = f[x] + SumFunctionOnSet(f, S \ {x})
<1>1. PICK g : SumFunctionOnSet(f, S) = g[S] /\ IsSum(g, f, S)
  BY SumIsSum
<1>2. /\ g[{}] = 0 /\ g[S] \in Int
      /\ \A x \in S : g[S] = f[x] + g[S \ {x}]
  BY <1>1, AnyOrder DEF FreeAt
<1>3. ASSUME NEW x \in S PROVE g[S \ {x}] = SumFunctionOnSet(f, S \ {x})
  <2>1. PICK T : T = S \ {x}
    OBVIOUS
  <2>2. T \subseteq S /\ Summable(f, T) /\ Agree(f, f, T)
    BY <2>1, FS_Subset DEF Summable, Agree
  <2>3. PICK h : SumFunctionOnSet(f, T) = h[T] /\ IsSum(h, f, T)
    BY <2>2, SumIsSum
  <2>4. g[T] = h[T]
    BY <1>1, <2>2, <2>3, SumsAgree
  <2>5. QED
    BY <2>1, <2>3, <2>4
<1>4. QED
  BY <1>1, <1>2, <1>3

\* The same for a summand that is put in.
LEMMA SumPutsIn ==
  ASSUME NEW S, NEW f, NEW x, x \notin S, Summable(f, S \cup {x})
  PROVE  /\ Summable(f, S) /\ SumFunctionOnSet(f, S) \in Int
         /\ SumFunctionOnSet(f, S \cup {x}) = f[x] + SumFunctionOnSet(f, S)
<1>1. PICK T : T = S \cup {x}
  OBVIOUS
<1>2. T \ {x} = S /\ x \in T /\ Summable(f, T) /\ S \subseteq T
  BY <1>1
<1>3. Summable(f, S)
  BY <1>2, FS_Subset DEF Summable
<1>4. SumFunctionOnSet(f, T) = f[x] + SumFunctionOnSet(f, T \ {x})
  BY <1>2, SumTakesOut
<1>5. QED
  BY <1>1, <1>2, <1>3, <1>4, SumTakesOut

\* A change of one summand changes the sum by as much.
LEMMA SumChanges ==
  ASSUME NEW S, NEW f, Summable(f, S), NEW e, NEW x \in S, e[x] \in Int,
         Agree(f, e, S \ {x})
  PROVE  /\ Summable(e, S)
         /\ SumFunctionOnSet(e, S) = SumFunctionOnSet(f, S) - f[x] + e[x]
<1>1. Summable(e, S)
  BY DEF Summable, Agree
<1>2. PICK T : T = S \ {x}
  OBVIOUS
<1>3. Summable(f, T) /\ Agree(f, e, T)
  BY <1>2, FS_Subset DEF Summable, Agree
<1>4. PICK r \in Int : SumFunctionOnSet(f, T) = r /\ SumFunctionOnSet(e, T) = r
  BY <1>3, SumTakesOut, SumAgrees
<1>5. SumFunctionOnSet(f, S) = f[x] + r /\ SumFunctionOnSet(e, S) = e[x] + r
  BY <1>1, <1>2, <1>4, SumTakesOut
<1>6. f[x] \in Int
  BY DEF Summable
<1>7. QED
  BY <1>1, <1>4, <1>5, <1>6

\* Induction on the subsets of a finite set: what is so of the empty set, and of a set
\* when it is so with one element less, is so of all.
LEMMA SubsetInduction ==
  ASSUME NEW S, IsFiniteSet(S), NEW H, {} \in H,
         \A s \in SUBSET S : \A x \in s : s \ {x} \in H => s \in H
  PROVE  S \in H
<1>1. PICK N : N = {n \in Nat : UpTo(S, n) \subseteq H}
  OBVIOUS
<1>2. \A s \in SUBSET S : IsFiniteSet(s) /\ Cardinality(s) \in Nat
  BY FS_Subset, FS_CardinalityType
<1>3. 0 \in N
  <2>1. \A s \in UpTo(S, 0) : s = {}
    BY <1>2, FS_EmptySet DEF UpTo
  <2>2. QED
    BY <1>1, <2>1
<1>4. ASSUME NEW n \in N PROVE n + 1 \in N
  <2>1. n \in Nat /\ \A s \in SUBSET S : Cardinality(s) <= n => s \in H
    BY <1>1 DEF UpTo
  <2>2. ASSUME NEW s \in UpTo(S, n + 1), s # {} PROVE s \in H
    <3>1. s \in SUBSET S /\ Cardinality(s) <= n + 1
      BY DEF UpTo
    <3>2. PICK x \in s : TRUE
      BY <2>2
    <3>3. Cardinality(s \ {x}) = Cardinality(s) - 1
      BY <1>2, <3>1, FS_RemoveElement
    <3>4. s \ {x} \in H
      BY <1>2, <2>1, <3>1, <3>3
    <3>5. QED
      BY <3>1, <3>4
  <2>3. UpTo(S, n + 1) \subseteq H
    BY <2>2
  <2>4. QED
    BY <1>1, <2>1, <2>3
<1>5. N = Nat
  <2>1. N \in SUBSET Nat
    BY <1>1
  <2>2. QED
    BY <1>3, <1>4, <2>1, NatSetInduction
<1>6. S \in UpTo(S, Cardinality(S)) /\ Cardinality(S) \in N
  BY <1>2, <1>5 DEF UpTo
<1>7. QED
  BY <1>1, <1>6

\* A sum of numbers that are not negative is none, and no less than each of them.
LEMMA SumBounds ==
  ASSUME NEW S, NEW f, Summable(f, S), \A x \in S : f[x] >= 0
  PROVE  /\ SumFunctionOnSet(f, S) >= 0
         /\ \A x \in S : f[x] <= SumFunctionOnSet(f, S)
<1>1. PICK H : H = {s \in SUBSET S : SumFunctionOnSet(f, s) >= 0}
  OBVIOUS
<1>2. \A s \in SUBSET S : Summable(f, s)
  BY FS_Subset DEF Summable
<1>3. \A x \in S : f[x] \in Int
  BY DEF Summable
<1>4. {} \in H
  <2>1. SumFunctionOnSet(f, {}) = 0
    BY <1>2, SumTakesOut
  <2>2. QED
    BY <1>1, <2>1
<1>5. ASSUME NEW s \in SUBSET S, NEW x \in s, s \ {x} \in H PROVE s \in H
  <2>1. SumFunctionOnSet(f, s) = f[x] + SumFunctionOnSet(f, s \ {x})
    BY <1>2, SumTakesOut
  <2>2. SumFunctionOnSet(f, s \ {x}) \in Int
    BY <1>2, SumTakesOut
  <2>3. QED
    BY <1>1, <1>3, <1>5, <2>1, <2>2
<1>6. S \in H
  BY <1>4, <1>5, SubsetInduction DEF Summable
<1>7. ASSUME NEW x \in S PROVE f[x] <= SumFunctionOnSet(f, S)
  <2>1. PICK T : T = S \ {x} /\ T \subseteq S
    OBVIOUS
  <2>2. T \in H
    <3>1. Summable(f, T) /\ IsFiniteSet(T)
      BY <1>2, <2>1 DEF Summable
    <3>2. \A s \in SUBSET T : \A y \in s : s \ {y} \in H => s \in H
      BY <1>5, <2>1
    <3>3. QED
      BY <1>4, <3>1, <3>2, SubsetInduction
  <2>3. SumFunctionOnSet(f, S) = f[x] + SumFunctionOnSet(f, T)
    BY <2>1, SumTakesOut
  <2>4. SumFunctionOnSet(f, T) \in Int /\ SumFunctionOnSet(f, T) >= 0
    BY <1>1, <1>2, <2>1, <2>2, SumTakesOut
  <2>5. QED
    BY <1>3, <2>3, <2>4
<1>8. QED
  BY <1>1, <1>6, <1>7

\* A sum over a part is no more than over the whole, if nothing is negative.
LEMMA SumOfPart ==
  ASSUME NEW S, NEW f, Summable(f, S), \A x \in S : f[x] >= 0, NEW T \in SUBSET S
  PROVE  SumFunctionOnSet(f, T) <= SumFunctionOnSet(f, S)
<1>1. PICK H : H = {s \in SUBSET (S \ T) :
                      SumFunctionOnSet(f, T) <= SumFunctionOnSet(f, T \cup s)}
  OBVIOUS
<1>2. \A s \in SUBSET S : Summable(f, s) /\ SumFunctionOnSet(f, s) \in Int
  BY FS_Subset, SumTakesOut DEF Summable
<1>3. {} \in H
  <2>1. T \cup {} = T
    OBVIOUS
  <2>2. QED
    BY <1>1, <1>2, <2>1
<1>4. ASSUME NEW s \in SUBSET (S \ T), NEW x \in s, s \ {x} \in H PROVE s \in H
  <2>1. PICK U, V : U = T \cup s /\ V = T \cup (s \ {x})
    OBVIOUS
  <2>2. U \in SUBSET S /\ V \in SUBSET S /\ x \in U /\ U \ {x} = V
    BY <2>1
  <2>3. SumFunctionOnSet(f, U) = f[x] + SumFunctionOnSet(f, V)
    BY <1>2, <2>2, SumTakesOut
  <2>4. f[x] \in Int /\ f[x] >= 0
    BY DEF Summable
  <2>5. SumFunctionOnSet(f, T) <= SumFunctionOnSet(f, U)
    BY <1>1, <1>2, <1>4, <2>1, <2>2, <2>3, <2>4
  <2>6. QED
    BY <1>1, <2>1, <2>5
<1>5. PICK R : R = S \ T /\ R \in SUBSET S /\ T \cup R = S
  OBVIOUS
<1>6. R \in H
  <2>1. IsFiniteSet(R)
    BY <1>5, FS_Subset DEF Summable
  <2>2. QED
    BY <1>3, <1>4, <1>5, <2>1, SubsetInduction
<1>7. QED
  BY <1>1, <1>5, <1>6

\* m gives each element of S a name of its own, and e is f under those names.
OneToOne(m, S) == \A x, y \in S : m[x] = m[y] => x = y
Renamed(e, m, f, S) == \A x \in S : e[m[x]] = f[x]

\* A sum is the same under other names for its summands.
LEMMA SumRenamed ==
  ASSUME NEW S, NEW f, Summable(f, S), NEW m, OneToOne(m, S), NEW e, Renamed(e, m, f, S)
  PROVE  SumFunctionOnSet(e, {m[x] : x \in S}) = SumFunctionOnSet(f, S)
<1>1. PICK H : H = {s \in SUBSET S : /\ Summable(e, {m[x] : x \in s})
                                    /\ SumFunctionOnSet(e, {m[x] : x \in s})
                                         = SumFunctionOnSet(f, s)}
  OBVIOUS
<1>2. \A s \in SUBSET S : Summable(f, s)
  BY FS_Subset DEF Summable
<1>3. {} \in H
  <2>1. PICK E : E = {m[x] : x \in {}} /\ E = {}
    OBVIOUS
  <2>2. Summable(e, E) /\ SumFunctionOnSet(e, E) = 0
    BY <2>1, FS_EmptySet, SumTakesOut DEF Summable
  <2>3. SumFunctionOnSet(f, {}) = 0
    BY <1>2, SumTakesOut
  <2>4. QED
    BY <1>1, <2>1, <2>2, <2>3
<1>4. ASSUME NEW s \in SUBSET S, NEW y \in s, s \ {y} \in H PROVE s \in H
  <2>1. PICK M, E : M = {m[x] : x \in s} /\ E = {m[x] : x \in s \ {y}}
    OBVIOUS
  <2>2. M = E \cup {m[y]} /\ m[y] \notin E
    BY <2>1 DEF OneToOne
  <2>3. Summable(e, E) /\ SumFunctionOnSet(e, E) = SumFunctionOnSet(f, s \ {y})
    BY <1>1, <1>4, <2>1
  <2>4. Summable(e, E \cup {m[y]})
    BY <2>3, FS_AddElement DEF Summable, Renamed
  <2>5. SumFunctionOnSet(e, E \cup {m[y]}) = e[m[y]] + SumFunctionOnSet(e, E)
    BY <2>2, <2>4, SumPutsIn
  <2>6. SumFunctionOnSet(f, s) = f[y] + SumFunctionOnSet(f, s \ {y})
    BY <1>2, SumTakesOut
  <2>7. QED
    BY <1>1, <2>1, <2>2, <2>3, <2>4, <2>5, <2>6 DEF Renamed
<1>5. S \in H
  BY <1>3, <1>4, SubsetInduction DEF Summable
<1>6. QED
  BY <1>1, <1>5

\* The sum of as many times k as there are elements.
LEMMA SumOfSame ==
  ASSUME NEW S, IsFiniteSet(S), NEW k \in Nat, NEW f, \A x \in S : f[x] = k
  PROVE  SumFunctionOnSet(f, S) = k * Cardinality(S)
<1>1. PICK H : H = {s \in SUBSET S : SumFunctionOnSet(f, s) = k * Cardinality(s)}
  OBVIOUS
<1>2. \A s \in SUBSET S : Summable(f, s) /\ Cardinality(s) \in Nat
  BY FS_Subset, FS_CardinalityType DEF Summable
<1>3. {} \in H
  <2>1. SumFunctionOnSet(f, {}) = 0 /\ Cardinality({}) = 0
    BY <1>2, SumTakesOut, FS_EmptySet
  <2>2. QED
    BY <1>1, <2>1
<1>4. ASSUME NEW s \in SUBSET S, NEW x \in s, s \ {x} \in H PROVE s \in H
  <2>1. SumFunctionOnSet(f, s) = k + SumFunctionOnSet(f, s \ {x})
    BY <1>2, SumTakesOut
  <2>2. PICK n \in Nat : n = Cardinality(s \ {x})
    BY <1>2
  <2>3. Cardinality(s) = n + 1
    BY <1>2, <2>2, FS_RemoveElement DEF Summable
  <2>4. k + k * n = k * (n + 1)
    OBVIOUS
  <2>5. QED
    BY <1>1, <1>4, <2>1, <2>2, <2>3, <2>4
<1>5. S \in H
  BY <1>3, <1>4, SubsetInduction
<1>6. QED
  BY <1>1, <1>5

-----------------------------------------------------------------------------
(* Running sums: f[i] is the sum of the first i values of d *)

Running(f, n, d) ==
  /\ f \in [0..n -> Nat] /\ f[0] = 0
  /\ \A i \in 1..n : f[i] = f[i - 1] + d[i]

\* There is one for every length.
LEMMA RunningExists ==
  ASSUME NEW m \in Nat, NEW d \in [1..m -> Nat]
  PROVE  \E f : Running(f, m, d)
<1> DEFINE Reached == {n \in Nat : n <= m => \E f : Running(f, n, d)}
<1>1. 0 \in Reached
  <2>1. Running([i \in 0..0 |-> 0], 0, d)
    BY DEF Running
  <2>2. QED
    BY <2>1
<1>2. ASSUME NEW n \in Reached PROVE n + 1 \in Reached
  <2> SUFFICES ASSUME n + 1 <= m PROVE \E f : Running(f, n + 1, d)
    OBVIOUS
  <2>1. PICK f : Running(f, n, d)
    OBVIOUS
  <2>2. PICK x \in Nat : x = f[n] + d[n + 1]
    BY <2>1 DEF Running
  <2>3. PICK g : g = [i \in 0..(n + 1) |-> IF i = n + 1 THEN x ELSE f[i]]
    OBVIOUS
  <2>4. g \in [0..(n + 1) -> Nat] /\ g[0] = 0 /\ g[n + 1] = x /\ g[n] = f[n]
    BY <2>1, <2>2, <2>3 DEF Running
  <2>5. ASSUME NEW i \in 1..(n + 1) PROVE g[i] = g[i - 1] + d[i]
    <3>1. CASE i = n + 1
      BY <3>1, <2>2, <2>4
    <3>2. CASE i # n + 1
      <4>1. i \in 1..n /\ i - 1 \in 0..n /\ i \in 0..n /\ i # n + 1 /\ i - 1 # n + 1
        BY <3>2
      <4>2. g[i] = f[i] /\ g[i - 1] = f[i - 1]
        BY <4>1, <2>3
      <4>3. QED
        BY <4>1, <4>2, <2>1 DEF Running
    <3>3. QED
      BY <3>1, <3>2
  <2>6. Running(g, n + 1, d)
    BY <2>4, <2>5 DEF Running
  <2>7. QED
    BY <2>6
<1>3. Reached = Nat
  <2>1. Reached \in SUBSET Nat
    OBVIOUS
  <2> HIDE DEF Reached
  <2>2. QED
    BY <1>1, <1>2, <2>1, NatSetInduction
<1>4. m \in Reached
  BY <1>3
<1>5. QED
  BY <1>4

\* And only one: of two, the shorter is a part of the longer.
LEMMA RunningUnique ==
  ASSUME NEW m \in Nat, NEW n \in Nat, m <= n, NEW d, NEW e, NEW f, NEW g,
         \A i \in 1..m : d[i] = e[i],
         Running(f, m, d), Running(g, n, e)
  PROVE  \A i \in 0..m : f[i] = g[i]
<1> DEFINE Same == {i \in Nat : i <= m => f[i] = g[i]}
<1>1. 0 \in Same
  BY DEF Running
<1>2. ASSUME NEW i \in Same PROVE i + 1 \in Same
  <2> SUFFICES ASSUME i + 1 <= m PROVE f[i + 1] = g[i + 1]
    OBVIOUS
  <2>1. f[i] = g[i] /\ i + 1 \in 1..m /\ i + 1 \in 1..n /\ (i + 1) - 1 = i
    OBVIOUS
  <2>2. f[i + 1] = f[i] + d[i + 1] /\ g[i + 1] = g[i] + e[i + 1]
    BY <2>1 DEF Running
  <2>3. QED
    BY <2>1, <2>2
<1>3. Same = Nat
  <2>1. Same \in SUBSET Nat
    OBVIOUS
  <2> HIDE DEF Same
  <2>2. QED
    BY <1>1, <1>2, <2>1, NatSetInduction
<1>4. \A i \in 0..m : i \in Same
  BY <1>3
<1>5. QED
  BY <1>4

\* It grows by every summand.
LEMMA RunningGrows ==
  ASSUME NEW n \in Nat, NEW d \in [1..n -> Nat], NEW f, Running(f, n, d),
         NEW i \in 0..n, NEW j \in 0..n, i < j
  PROVE  f[j] >= f[i + 1] /\ f[i + 1] = f[i] + d[i + 1]
<1> DEFINE Above == {k \in Nat : i + 1 + k <= n => f[i + 1 + k] >= f[i + 1]}
<1>0. f \in [0..n -> Nat]
  BY DEF Running
<1>1. 0 \in Above
  BY <1>0
<1>2. ASSUME NEW k \in Above PROVE k + 1 \in Above
  <2> SUFFICES ASSUME i + 1 + (k + 1) <= n PROVE f[i + 1 + (k + 1)] >= f[i + 1]
    OBVIOUS
  <2>1. PICK p \in 1..n : p = i + 1 + (k + 1) /\ p - 1 = i + 1 + k /\ p - 1 \in 0..n
    OBVIOUS
  <2>2. f[p] = f[p - 1] + d[p] /\ f[p - 1] >= f[i + 1]
    BY <2>1 DEF Running
  <2>3. {f[p], f[p - 1], d[p], f[i + 1]} \subseteq Nat
    BY <1>0, <2>1
  <2>4. QED
    BY <2>1, <2>2, <2>3
<1>3. Above = Nat
  <2>1. Above \in SUBSET Nat
    OBVIOUS
  <2> HIDE DEF Above
  <2>2. QED
    BY <1>1, <1>2, <2>1, NatSetInduction
<1>4. j - i - 1 \in Nat /\ i + 1 + (j - i - 1) = j
  OBVIOUS
<1>5. j - i - 1 \in Above
  BY <1>3, <1>4
<1>6. f[j] >= f[i + 1]
  BY <1>4, <1>5
<1>7. i + 1 \in 1..n /\ (i + 1) - 1 = i
  OBVIOUS
<1>8. QED
  BY <1>6, <1>7 DEF Running
=============================================================================
