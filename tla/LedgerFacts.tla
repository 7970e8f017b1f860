---------------------------- MODULE LedgerFacts -----------------------------
(***************************************************************************)
(* Facts that the proofs about append-only records share.  First sums:     *)
(* SumFunctionOnSet is the sum of f[x] over a finite set of indices; the   *)
(* recursive function behind the fold is shown to exist, to be unique and  *)
(* not to depend on the order in which the elements are chosen, and the    *)
(* inductions are minimal counterexamples in the well-founded order of the *)
(* natural numbers.  Then numbered records: the entries of one key in a    *)
(* sequence carry the revisions 1 .. v in their order.                     *)
(***************************************************************************)
EXTENDS Integers, Functions, FiniteSetTheorems, TLAPS

(* The positions P of the sequence f hold the revisions 1 .. v, in order.  *)
Numbered(P, f, v) ==
  /\ \A n \in P : f[n].rev \in 1 .. v
  /\ \A r \in 1 .. v : \E n \in P : f[n].rev = r
  /\ \A i, j \in P : i < j => f[i].rev < f[j].rev

(* The function h that the fold of f over S defines.                       *)
Pick(s) == CHOOSE x \in s : TRUE
Summing(f, S, h) ==
  h = [s \in SUBSET S |-> IF s = {} THEN 0 ELSE f[Pick(s)] + h[s \ {Pick(s)}]]
-----------------------------------------------------------------------------
(* Every nonempty set of natural numbers has a least element.              *)
LEMMA LeastNatural ==
  ASSUME NEW T \in SUBSET Nat, T # {}
  PROVE  \E x \in T : \A y \in T : x <= y
<1>1. IsWellFoundedOn(OpToRel(<, Nat), Nat)
  BY NatLessThanWellFounded
<1>2. \E x \in T : \A y \in T : ~(<<y, x>> \in OpToRel(<, Nat))
  BY <1>1, WFMin
<1>3. ASSUME NEW x \in T, NEW y \in T, ~(<<y, x>> \in OpToRel(<, Nat)) PROVE x <= y
  BY <1>3 DEF OpToRel
<1> QED BY <1>2, <1>3

(* Among sets of subsets of a finite set there is a smallest one.          *)
LEMMA SmallestSet ==
  ASSUME NEW S, IsFiniteSet(S), NEW B \in SUBSET SUBSET S, B # {}
  PROVE  \E t \in B : \A u \in B : ~(u \subseteq t /\ u # t)
<1> DEFINE T == {Cardinality(t) : t \in B}
<1>1. \A t \in B : IsFiniteSet(t) /\ Cardinality(t) \in Nat
  BY FS_Subset, FS_CardinalityType
<1>2. T \in SUBSET Nat /\ T # {}
  BY <1>1
<1>3. PICK n \in T : \A m \in T : n <= m
  BY <1>2, LeastNatural
<1>4. PICK t \in B : n = Cardinality(t)
  BY <1>3
<1>5. ASSUME NEW u \in B, u \subseteq t, u # t PROVE FALSE
  <2>1. Cardinality(u) <= Cardinality(t) /\ Cardinality(t) # Cardinality(u)
    BY <1>1, <1>5, FS_Subset
  <2>2. Cardinality(t) <= Cardinality(u)
    BY <1>3, <1>4
  <2> QED BY <1>1, <2>1, <2>2
<1> QED BY <1>4, <1>5

LEMMA Picked == ASSUME NEW s, s # {} PROVE Pick(s) \in s
BY DEF Pick

(* The library's definition, written with Summing.                         *)
LEMMA SumIsFold ==
  ASSUME NEW f, NEW S PROVE SumFunctionOnSet(f, S) = (CHOOSE h : Summing(f, S, h))[S]
BY Zenon DEF SumFunctionOnSet, FoldFunctionOnSet, MapThenFoldSet, Summing, Pick

(* The recursion defines a function: it exists for the subsets of up to n  *)
(* elements, for every n.                                                  *)
LEMMA SummingExists ==
  ASSUME NEW f, NEW S, IsFiniteSet(S) PROVE \E h : Summing(f, S, h)
<1> DEFINE UpTo(n) == {s \in SUBSET S : Cardinality(s) <= n}
           Sums(n, h) == h = [s \in UpTo(n) |-> IF s = {} THEN 0 ELSE f[Pick(s)] + h[s \ {Pick(s)}]]
           T == {n \in Nat : ~ \E h : Sums(n, h)}
<1>0. \A s \in SUBSET S : IsFiniteSet(s) /\ Cardinality(s) \in Nat /\ (Cardinality(s) = 0 <=> s = {})
  BY FS_Subset, FS_CardinalityType, FS_EmptySet
<1>1. ASSUME NEW s \in SUBSET S, s # {} PROVE s \ {Pick(s)} \in SUBSET S /\ Cardinality(s \ {Pick(s)}) = Cardinality(s) - 1
  BY <1>0, <1>1, Picked, FS_RemoveElement
<1>2. T = {}
  <2> SUFFICES ASSUME T # {} PROVE FALSE
    OBVIOUS
  <2>1. PICK n \in T : \A m \in T : n <= m
    <3>1. T \in SUBSET Nat
      OBVIOUS
    <3> HIDE DEF T
    <3> QED BY <3>1, LeastNatural
  <2>2. n \in Nat /\ ~ \E h : Sums(n, h)
    BY <2>1
  <2>3. CASE n = 0
    <3> DEFINE h == [s \in UpTo(0) |-> 0]
    <3>1. \A s \in UpTo(0) : s = {}
      BY <1>0
    <3>2. Sums(0, h)
      BY <3>1
    <3> QED BY <2>2, <2>3, <3>2
  <2>4. CASE n # 0
    <3>1. n - 1 \in Nat /\ n - 1 \notin T
      <4> HIDE DEF T
      <4>1. n - 1 \in Nat /\ ~(n <= n - 1)
        BY <2>2, <2>4
      <4> QED BY <2>1, <4>1
    <3>2. PICK g : Sums(n - 1, g)
      BY <3>1
    <3> DEFINE h == [s \in UpTo(n) |-> IF s = {} THEN 0 ELSE f[Pick(s)] + g[s \ {Pick(s)}]]
    <3>3. ASSUME NEW s \in UpTo(n), s # {} PROVE g[s \ {Pick(s)}] = h[s \ {Pick(s)}]
      <4>1. s \ {Pick(s)} \in UpTo(n - 1) /\ s \ {Pick(s)} \in UpTo(n)
        BY <1>0, <1>1, <2>2, <3>3
      <4> DEFINE u == s \ {Pick(s)}
      <4> HIDE DEF u
      <4>2. u \in UpTo(n - 1) /\ u \in UpTo(n)
        BY <4>1 DEF u
      <4>3. g[u] = IF u = {} THEN 0 ELSE f[Pick(u)] + g[u \ {Pick(u)}]
        BY <3>2, <4>2
      <4>4. h[u] = IF u = {} THEN 0 ELSE f[Pick(u)] + g[u \ {Pick(u)}]
        BY <4>2
      <4> QED BY <4>3, <4>4 DEF u
    <3>4. Sums(n, h)
      BY <3>3
    <3> QED BY <2>2, <3>4
  <2> QED BY <2>3, <2>4
<1>3. Cardinality(S) \in Nat /\ UpTo(Cardinality(S)) = SUBSET S
  BY <1>0, FS_Subset
<1>4. PICK h : Sums(Cardinality(S), h)
  BY <1>2, <1>3
<1>5. Summing(f, S, h)
  BY <1>3, <1>4 DEF Summing
<1> QED BY <1>5

LEMMA SumFunctionIs ==
  ASSUME NEW f, NEW S, IsFiniteSet(S) PROVE \E h : Summing(f, S, h) /\ SumFunctionOnSet(f, S) = h[S]
<1>1. Summing(f, S, CHOOSE h : Summing(f, S, h))
  BY SummingExists
<1> QED BY <1>1, SumIsFold

(* On a subset U of S the recursion gives what it gives for U.             *)
LEMMA SummingAgree ==
  ASSUME NEW f, NEW S, NEW U, IsFiniteSet(S), NEW h, Summing(f, S, h), NEW k, Summing(f, U, k),
         U \subseteq S
  PROVE  h[U] = k[U]
<1> DEFINE B == {t \in SUBSET U : h[t] # k[t]}
<1> SUFFICES ASSUME B # {} PROVE FALSE
  OBVIOUS
<1>1. IsFiniteSet(U)
  BY FS_Subset, U \in SUBSET S
<1>2. PICK t \in B : \A u \in B : ~(u \subseteq t /\ u # t)
  <2>1. B \in SUBSET SUBSET U
    OBVIOUS
  <2> HIDE DEF B
  <2> QED BY <1>1, <2>1, SmallestSet
<1>3. t \in SUBSET S /\ t \in SUBSET U /\ h[t] # k[t]
  BY <1>2
<1>4. /\ h[t] = IF t = {} THEN 0 ELSE f[Pick(t)] + h[t \ {Pick(t)}]
      /\ k[t] = IF t = {} THEN 0 ELSE f[Pick(t)] + k[t \ {Pick(t)}]
  BY <1>3 DEF Summing
<1>5. t # {}
  BY <1>3, <1>4
<1>6. Pick(t) \in t
  BY <1>5, Picked
<1>7. h[t \ {Pick(t)}] = k[t \ {Pick(t)}]
  BY <1>2, <1>3, <1>6
<1> QED BY <1>3, <1>4, <1>5, <1>7
-----------------------------------------------------------------------------
(* The sum of nothing.                                                     *)
LEMMA SumEmpty == ASSUME NEW f PROVE SumFunctionOnSet(f, {}) = 0
<1>1. PICK h : Summing(f, {}, h) /\ SumFunctionOnSet(f, {}) = h[{}]
  BY SumFunctionIs, FS_EmptySet
<1> QED BY <1>1 DEF Summing

(* The first element the fold takes.                                       *)
LEMMA SumFirst ==
  ASSUME NEW f, NEW S, IsFiniteSet(S), S # {}
  PROVE  /\ Pick(S) \in S /\ IsFiniteSet(S \ {Pick(S)})
         /\ SumFunctionOnSet(f, S) = f[Pick(S)] + SumFunctionOnSet(f, S \ {Pick(S)})
<1> DEFINE R == S \ {Pick(S)}
<1>1. Pick(S) \in S /\ IsFiniteSet(R) /\ R \subseteq S
  BY Picked, FS_RemoveElement
<1>2. PICK h : Summing(f, S, h) /\ SumFunctionOnSet(f, S) = h[S]
  BY SumFunctionIs
<1>3. PICK k : Summing(f, R, k) /\ SumFunctionOnSet(f, R) = k[R]
  BY <1>1, SumFunctionIs
<1>4. h[R] = k[R]
  BY <1>1, <1>2, <1>3, SummingAgree
<1>5. h[S] = f[Pick(S)] + h[R]
  BY <1>2 DEF Summing
<1> QED BY <1>1, <1>2, <1>3, <1>4, <1>5

(* The sum depends on the values of f at the indices alone.                *)
LEMMA SumSame ==
  ASSUME NEW f, NEW g, NEW S, IsFiniteSet(S), \A x \in S : f[x] = g[x]
  PROVE  SumFunctionOnSet(f, S) = SumFunctionOnSet(g, S)
<1> DEFINE B == {t \in SUBSET S : SumFunctionOnSet(f, t) # SumFunctionOnSet(g, t)}
<1> SUFFICES ASSUME B # {} PROVE FALSE
  OBVIOUS
<1>1. PICK t \in B : \A u \in B : ~(u \subseteq t /\ u # t)
  <2>1. B \in SUBSET SUBSET S
    OBVIOUS
  <2> HIDE DEF B
  <2> QED BY <2>1, SmallestSet
<1>2. t \in SUBSET S /\ SumFunctionOnSet(f, t) # SumFunctionOnSet(g, t)
  BY <1>1
<1>3. t # {} /\ IsFiniteSet(t)
  BY <1>2, SumEmpty, FS_Subset
<1>4. Pick(t) \in t /\ Pick(t) \in S
  BY <1>2, <1>3, SumFirst
<1>5. /\ SumFunctionOnSet(f, t) = f[Pick(t)] + SumFunctionOnSet(f, t \ {Pick(t)})
      /\ SumFunctionOnSet(g, t) = g[Pick(t)] + SumFunctionOnSet(g, t \ {Pick(t)})
  BY <1>3, SumFirst
<1>6. SumFunctionOnSet(f, t \ {Pick(t)}) = SumFunctionOnSet(g, t \ {Pick(t)})
  BY <1>1, <1>2, <1>4
<1> QED BY <1>2, <1>4, <1>5, <1>6

(* A sum of integers is one.                                               *)
LEMMA SumInt ==
  ASSUME NEW f, NEW S, IsFiniteSet(S), \A x \in S : f[x] \in Int
  PROVE  SumFunctionOnSet(f, S) \in Int
<1> DEFINE B == {t \in SUBSET S : SumFunctionOnSet(f, t) \notin Int}
<1> SUFFICES ASSUME B # {} PROVE FALSE
  OBVIOUS
<1>1. PICK t \in B : \A u \in B : ~(u \subseteq t /\ u # t)
  <2>1. B \in SUBSET SUBSET S
    OBVIOUS
  <2> HIDE DEF B
  <2> QED BY <2>1, SmallestSet
<1>2. t # {} /\ IsFiniteSet(t) /\ t \in SUBSET S /\ SumFunctionOnSet(f, t) \notin Int
  <2>1. t \in SUBSET S /\ SumFunctionOnSet(f, t) \notin Int
    BY <1>1
  <2>2. IsFiniteSet(t)
    BY <2>1, FS_Subset
  <2>3. t # {}
    BY <2>1, SumEmpty
  <2> QED BY <2>1, <2>2, <2>3
<1>3. /\ Pick(t) \in t
      /\ SumFunctionOnSet(f, t) = f[Pick(t)] + SumFunctionOnSet(f, t \ {Pick(t)})
  BY <1>2, SumFirst
<1>4. SumFunctionOnSet(f, t \ {Pick(t)}) \in Int
  BY <1>1, <1>2, <1>3
<1>5. f[Pick(t)] \in Int
  BY <1>2, <1>3
<1> QED BY <1>2, <1>3, <1>4, <1>5

(* Any element may be taken first.                                         *)
LEMMA SumRemove ==
  ASSUME NEW f, NEW S, IsFiniteSet(S), \A x \in S : f[x] \in Int, NEW e \in S
  PROVE  SumFunctionOnSet(f, S) = f[e] + SumFunctionOnSet(f, S \ {e})
<1> DEFINE First(t, x) == SumFunctionOnSet(f, t) = f[x] + SumFunctionOnSet(f, t \ {x})
           B == {t \in SUBSET S : \E x \in t : ~First(t, x)}
<1> SUFFICES ASSUME B # {} PROVE FALSE
  OBVIOUS
<1>1. PICK t \in B : \A u \in B : ~(u \subseteq t /\ u # t)
  <2>1. B \in SUBSET SUBSET S
    OBVIOUS
  <2> HIDE DEF B
  <2> QED BY <2>1, SmallestSet
<1>2. t \in SUBSET S /\ IsFiniteSet(t)
  <2>1. t \in SUBSET S
    BY <1>1
  <2> QED BY <2>1, FS_Subset
<1>3. PICK x \in t : ~First(t, x)
  BY <1>1
<1> DEFINE p == Pick(t)
<1>4. p \in t /\ First(t, p)
  BY <1>2, <1>3, SumFirst
<1> HIDE DEF p
<1>5. p # x
  BY <1>3, <1>4
<1>6. First(t \ {p}, x)
  <2>1. t \ {p} \in SUBSET S /\ x \in t \ {p} /\ t \ {p} \subseteq t /\ t \ {p} # t
    BY <1>2, <1>3, <1>4, <1>5
  <2> QED BY <1>1, <2>1
<1>7. First(t \ {x}, p)
  <2>1. t \ {x} \in SUBSET S /\ p \in t \ {x} /\ t \ {x} \subseteq t /\ t \ {x} # t
    BY <1>2, <1>3, <1>4, <1>5
  <2> QED BY <1>1, <2>1
<1> DEFINE rest == SumFunctionOnSet(f, (t \ {p}) \ {x})
<1>8. rest = SumFunctionOnSet(f, (t \ {x}) \ {p})
  <2>1. (t \ {p}) \ {x} = (t \ {x}) \ {p}
    OBVIOUS
  <2> QED BY <2>1
<1>9. rest \in Int /\ f[p] \in Int /\ f[x] \in Int
  <2>1. IsFiniteSet((t \ {p}) \ {x}) /\ \A y \in (t \ {p}) \ {x} : f[y] \in Int
    BY <1>2, FS_RemoveElement
  <2> QED BY <1>2, <1>3, <1>4, <2>1, SumInt
<1>10. /\ SumFunctionOnSet(f, t) = f[p] + (f[x] + rest)
       /\ SumFunctionOnSet(f, t \ {x}) = f[p] + rest
  BY <1>4, <1>6, <1>7, <1>8
<1>11. SumFunctionOnSet(f, t) = f[x] + SumFunctionOnSet(f, t \ {x})
  <2> HIDE DEF rest
  <2> QED BY <1>9, <1>10
<1> QED BY <1>3, <1>11

(* One index more.                                                         *)
LEMMA SumAdd ==
  ASSUME NEW f, NEW S, IsFiniteSet(S), NEW e, e \notin S, \A x \in S \cup {e} : f[x] \in Int
  PROVE  SumFunctionOnSet(f, S \cup {e}) = SumFunctionOnSet(f, S) + f[e]
<1>1. IsFiniteSet(S \cup {e}) /\ (S \cup {e}) \ {e} = S
  BY FS_AddElement
<1>2. SumFunctionOnSet(f, S \cup {e}) = f[e] + SumFunctionOnSet(f, S)
  BY <1>1, SumRemove
<1>3. SumFunctionOnSet(f, S) \in Int /\ f[e] \in Int
  BY SumInt
<1> QED BY <1>2, <1>3

(* One value that changes moves the sum by as much.                        *)
LEMMA SumChange ==
  ASSUME NEW f, NEW g, NEW S, IsFiniteSet(S), NEW e \in S,
         \A x \in S : f[x] \in Int /\ g[x] \in Int, \A x \in S \ {e} : g[x] = f[x]
  PROVE  SumFunctionOnSet(g, S) = SumFunctionOnSet(f, S) + g[e] - f[e]
<1>1. IsFiniteSet(S \ {e})
  BY FS_RemoveElement
<1>2. SumFunctionOnSet(f, S) = f[e] + SumFunctionOnSet(f, S \ {e})
  BY SumRemove
<1>3. SumFunctionOnSet(g, S) = g[e] + SumFunctionOnSet(g, S \ {e})
  BY SumRemove
<1>4. SumFunctionOnSet(g, S \ {e}) = SumFunctionOnSet(f, S \ {e})
  BY <1>1, SumSame
<1>5. SumFunctionOnSet(f, S \ {e}) \in Int /\ f[e] \in Int /\ g[e] \in Int
  BY <1>1, SumInt
<1> QED BY <1>2, <1>3, <1>4, <1>5

(* A sum of natural numbers is one.                                        *)
LEMMA SumNat ==
  ASSUME NEW f, NEW S, IsFiniteSet(S), \A x \in S : f[x] \in Nat
  PROVE  SumFunctionOnSet(f, S) \in Nat
<1> DEFINE B == {t \in SUBSET S : SumFunctionOnSet(f, t) \notin Nat}
<1> SUFFICES ASSUME B # {} PROVE FALSE
  OBVIOUS
<1>1. PICK t \in B : \A u \in B : ~(u \subseteq t /\ u # t)
  <2>1. B \in SUBSET SUBSET S
    OBVIOUS
  <2> HIDE DEF B
  <2> QED BY <2>1, SmallestSet
<1>2. t # {} /\ IsFiniteSet(t) /\ t \in SUBSET S /\ SumFunctionOnSet(f, t) \notin Nat
  <2>1. t \in SUBSET S /\ SumFunctionOnSet(f, t) \notin Nat
    BY <1>1
  <2>2. IsFiniteSet(t)
    BY <2>1, FS_Subset
  <2>3. t # {}
    BY <2>1, SumEmpty
  <2> QED BY <2>1, <2>2, <2>3
<1>3. /\ Pick(t) \in t
      /\ SumFunctionOnSet(f, t) = f[Pick(t)] + SumFunctionOnSet(f, t \ {Pick(t)})
  BY <1>2, SumFirst
<1>4. SumFunctionOnSet(f, t \ {Pick(t)}) \in Nat
  BY <1>1, <1>2, <1>3
<1>5. f[Pick(t)] \in Nat
  BY <1>2, <1>3
<1> QED BY <1>2, <1>3, <1>4, <1>5
-----------------------------------------------------------------------------
(* The same for the sum of all the values of a function.                   *)
LEMMA SumFunctionInt ==
  ASSUME NEW f, IsFiniteSet(DOMAIN f), \A x \in DOMAIN f : f[x] \in Int
  PROVE  SumFunction(f) \in Int
BY SumInt DEF SumFunction

LEMMA SumFunctionNat ==
  ASSUME NEW f, IsFiniteSet(DOMAIN f), \A x \in DOMAIN f : f[x] \in Nat
  PROVE  SumFunction(f) \in Nat
BY SumNat DEF SumFunction

LEMMA SumFunctionSame ==
  ASSUME NEW f, NEW g, IsFiniteSet(DOMAIN f), DOMAIN g = DOMAIN f, \A x \in DOMAIN f : f[x] = g[x]
  PROVE  SumFunction(g) = SumFunction(f)
BY SumSame DEF SumFunction

LEMMA SumFunctionGrows ==
  ASSUME NEW f, NEW g, IsFiniteSet(DOMAIN f), NEW e, e \notin DOMAIN f, DOMAIN g = DOMAIN f \cup {e},
         \A x \in DOMAIN f : f[x] = g[x], \A x \in DOMAIN g : g[x] \in Int
  PROVE  SumFunction(g) = SumFunction(f) + g[e]
<1> DEFINE S == DOMAIN f
<1>1. SumFunctionOnSet(g, S \cup {e}) = SumFunctionOnSet(g, S) + g[e]
  BY SumAdd
<1>2. SumFunctionOnSet(f, S) = SumFunctionOnSet(g, S)
  BY SumSame
<1> QED BY <1>1, <1>2 DEF SumFunction
-----------------------------------------------------------------------------
(* The next revision comes behind all others.                              *)
LEMMA NumberedNext ==
  ASSUME NEW P \in SUBSET Nat, NEW f, NEW v \in Nat, Numbered(P, f, v), NEW m \in Nat, \A n \in P : n < m,
         NEW g, \A n \in P : g[n] = f[n], g[m].rev = v + 1
  PROVE  Numbered(P \cup {m}, g, v + 1)
<1>1. \A n \in P : g[n].rev = f[n].rev /\ f[n].rev \in 1 .. v
  BY DEF Numbered
<1>2. ASSUME NEW n \in P \cup {m} PROVE g[n].rev \in 1 .. v + 1
  <2>1. CASE n \in P
    BY <1>1, <2>1
  <2>2. CASE n = m
    BY <2>2
  <2> QED
    BY <2>1, <2>2
<1>3. ASSUME NEW r \in 1 .. v + 1 PROVE \E n \in P \cup {m} : g[n].rev = r
  <2>1. CASE r = v + 1
    BY <2>1
  <2>2. CASE r \in 1 .. v
    <3>1. PICK n \in P : f[n].rev = r
      BY <2>2 DEF Numbered
    <3> QED
      BY <1>1, <3>1
  <2> QED
    BY <2>1, <2>2
<1>4. ASSUME NEW i \in P \cup {m}, NEW j \in P \cup {m}, i < j PROVE g[i].rev < g[j].rev
  <2>1. i \in P
    <3>1. \A n \in P : n \in Nat /\ n < m
      OBVIOUS
    <3>2. CASE i = m /\ j \in P
      BY <1>4, <3>1, <3>2
    <3>3. CASE i = m /\ j = m
      BY <1>4, <3>3
    <3> QED
      BY <3>2, <3>3
  <2>2. CASE j = m
    <3>1. g[j].rev = v + 1 /\ g[i].rev \in 1 .. v
      BY <1>1, <2>1, <2>2
    <3> QED
      BY <3>1
  <2>3. CASE j \in P
    <3>1. f[i].rev < f[j].rev
      BY <1>4, <2>1, <2>3 DEF Numbered
    <3> QED
      BY <1>1, <2>1, <2>3, <3>1
  <2> QED
    BY <2>2, <2>3
<1> QED
  BY <1>2, <1>3, <1>4 DEF Numbered

(* Entries that stay where they were keep their numbers.                   *)
LEMMA NumberedSame ==
  ASSUME NEW P, NEW f, NEW v, Numbered(P, f, v), NEW g, \A n \in P : g[n] = f[n]
  PROVE  Numbered(P, g, v)
BY DEF Numbered

(* What the numbers are.                                                   *)
LEMMA NumberedAre ==
  ASSUME NEW P, NEW f, NEW v, Numbered(P, f, v)
  PROVE  {f[n].rev : n \in P} = 1 .. v /\ \A i, j \in P : i < j => f[i].rev < f[j].rev
BY DEF Numbered
=============================================================================
