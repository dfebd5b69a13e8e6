---------------------------- MODULE TotalsProofs ----------------------------
(***************************************************************************)
(* What a sum over the rows of a table obeys: it is taken row by row in    *)
(* any order, a change of one row changes it by as much, and it grows and  *)
(* shrinks with the set of rows.                                           *)
(*                                                                         *)
(* Total is a fold, a recursive function over the subsets of S that takes  *)
(* out one chosen element after another.  The induction is on a minimal    *)
(* counterexample among the subsets of a finite set (MinimalSubset): in    *)
(* that form it is about a set of subsets and needs no operator for the    *)
(* formula that is proved.                                                 *)
(***************************************************************************)
EXTENDS Totals, FiniteSetTheorems, WellFoundedInduction, TLAPS

Pick(s) == CHOOSE x \in s : TRUE

(* One equation of the fold, and a function that satisfies all of them.    *)
Entry(f, g, s) == IF s = {} THEN 0 ELSE f[Pick(s)] + g[s \ {Pick(s)}]
Adds(f, S, g) == g = [s \in SUBSET S |-> Entry(f, g, s)]

(* Any class of subsets of a finite set has a smallest one in it.          *)
LEMMA MinimalSubset ==
    ASSUME NEW S, IsFiniteSet(S), NEW C \in SUBSET SUBSET S, C # {}
    PROVE  \E T \in C : \A U \in C : U \subseteq T => U = T
<1>1. IsWellFoundedOn(StrictSubsetOrdering(S), FiniteSubsetsOf(S))
  BY FS_StrictSubsetOrderingWellFounded
<1>2. C \subseteq FiniteSubsetsOf(S)
  BY FS_Subset DEF FiniteSubsetsOf
<1>3. \E T \in C : \A U \in C : ~ (<<U, T>> \in StrictSubsetOrdering(S))
  BY <1>1, <1>2, WFMin
<1>4. QED
  BY <1>2, <1>3 DEF StrictSubsetOrdering, FiniteSubsetsOf

(* Total is the last value of the function that the fold chooses.          *)
LEMMA TotalIsChosen ==
    ASSUME NEW f, NEW S
    PROVE  Total(f, S) = (CHOOSE g : Adds(f, S, g))[S]
BY DEF Total, MapThenSumSet, MapThenFoldSet, Adds, Entry, Pick

(* Two such functions agree wherever both are defined.                     *)
LEMMA AddsAgree ==
    ASSUME NEW f, NEW S, IsFiniteSet(S), NEW T \in SUBSET S, NEW g, NEW h,
           Adds(f, S, g), Adds(f, T, h)
    PROVE  g[T] = h[T]
<1> DEFINE Bad == {s \in SUBSET T : g[s] # h[s]}
<1>1. SUFFICES ASSUME Bad # {} PROVE FALSE
  OBVIOUS
<1>2. IsFiniteSet(T)
  BY FS_Subset
<1>3. PICK s \in Bad : \A u \in Bad : u \subseteq s => u = s
  <2>1. Bad \in SUBSET SUBSET T
    OBVIOUS
  <2> HIDE DEF Bad
  <2>2. QED
    BY <1>1, <1>2, <2>1, MinimalSubset
<1>4. g[s] = Entry(f, g, s) /\ h[s] = Entry(f, h, s)
  BY DEF Adds
<1>5. s # {}
  BY <1>4 DEF Entry
<1>6. Pick(s) \in s
  BY <1>5 DEF Pick
<1>7. s \ {Pick(s)} \notin Bad
  BY <1>3, <1>6
<1>8. g[s \ {Pick(s)}] = h[s \ {Pick(s)}]
  BY <1>7
<1>9. QED
  BY <1>4, <1>5, <1>8 DEF Entry

(* If the fold is well defined on S and on what is left of S without one   *)
(* element, it satisfies its equation there.                               *)
LEMMA TotalStep ==
    ASSUME NEW f, NEW S, IsFiniteSet(S),
           \A T \in SUBSET S : T # S \/ T = S => \E g : Adds(f, T, g)
    PROVE  Total(f, S) = IF S = {} THEN 0 ELSE f[Pick(S)] + Total(f, S \ {Pick(S)})
<1> DEFINE g == CHOOSE h : Adds(f, S, h)
           T == S \ {Pick(S)}
           k == CHOOSE h : Adds(f, T, h)
<1>1. Adds(f, S, g) /\ Adds(f, T, k)
  OBVIOUS
<1>2. g[S] = Entry(f, g, S)
  BY <1>1 DEF Adds
<1>3. g[T] = k[T]
  <2> HIDE DEF g, k
  <2> QED BY <1>1, AddsAgree
<1>4. Total(f, S) = g[S] /\ Total(f, T) = k[T]
  BY TotalIsChosen
<1>5. QED
  BY <1>2, <1>3, <1>4 DEF Entry

(* The fold is well defined on every finite set.                           *)
LEMMA AddsExists ==
    ASSUME NEW f, NEW S, IsFiniteSet(S)
    PROVE  \E g : Adds(f, S, g)
<1> DEFINE Bad == {T \in SUBSET S : ~ \E g : Adds(f, T, g)}
<1>1. SUFFICES ASSUME Bad # {} PROVE FALSE
  OBVIOUS
<1>2. PICK T \in Bad : \A U \in Bad : U \subseteq T => U = T
  <2>1. Bad \in SUBSET SUBSET S
    OBVIOUS
  <2> HIDE DEF Bad
  <2>2. QED
    BY <1>1, <2>1, MinimalSubset
<1>3. \A U \in SUBSET T : U # T => \E g : Adds(f, U, g)
  BY <1>2
<1> DEFINE value(s) == IF s = {} THEN 0 ELSE f[Pick(s)] + Total(f, s \ {Pick(s)})
           g == [s \in SUBSET T |-> value(s)]
<1>4. ASSUME NEW U \in SUBSET T, U # T
      PROVE  Total(f, U) = value(U)
  <2>1. IsFiniteSet(U)
    BY FS_Subset
  <2>2. \A V \in SUBSET U : V # U \/ V = U => \E h : Adds(f, V, h)
    BY <1>3, <1>4
  <2>3. QED
    BY <2>1, <2>2, TotalStep
<1>5. ASSUME NEW s \in SUBSET T
      PROVE  value(s) = Entry(f, g, s)
  <2>1. CASE s = {}
    BY <2>1 DEF Entry
  <2>2. CASE s # {}
    <3>1. Pick(s) \in s
      BY <2>2 DEF Pick
    <3>2. s \ {Pick(s)} \in SUBSET T /\ s \ {Pick(s)} # T
      BY <3>1
    <3>3. g[s \ {Pick(s)}] = Total(f, s \ {Pick(s)})
      BY <3>2, <1>4
    <3>4. QED
      BY <2>2, <3>3 DEF Entry
  <2>3. QED
    BY <2>1, <2>2
<1>6. Adds(f, T, g)
  BY <1>5 DEF Adds
<1>7. QED
  BY <1>6

-----------------------------------------------------------------------------
LEMMA TotalOfNone == ASSUME NEW f PROVE Total(f, {}) = 0
<1>1. IsFiniteSet({})
  BY FS_EmptySet
<1>2. \A T \in SUBSET {} : T # {} \/ T = {} => \E g : Adds(f, T, g)
  BY <1>1, AddsExists, FS_Subset
<1>3. QED
  BY <1>1, <1>2, TotalStep

LEMMA TotalPicks ==
    ASSUME NEW f, NEW S, IsFiniteSet(S), S # {}
    PROVE  Total(f, S) = f[Pick(S)] + Total(f, S \ {Pick(S)})
<1>1. \A T \in SUBSET S : T # S \/ T = S => \E g : Adds(f, T, g)
  BY AddsExists, FS_Subset
<1>2. QED
  BY <1>1, TotalStep

(* A sum of integers is an integer, one of naturals a natural.             *)
LEMMA TotalInt ==
    ASSUME NEW f, NEW S, IsFiniteSet(S), \A x \in S : f[x] \in Int
    PROVE  Total(f, S) \in Int
<1> DEFINE Bad == {T \in SUBSET S : Total(f, T) \notin Int}
<1>1. SUFFICES ASSUME Bad # {} PROVE FALSE
  OBVIOUS
<1>2. PICK T \in Bad : \A U \in Bad : U \subseteq T => U = T
  <2>1. Bad \in SUBSET SUBSET S
    OBVIOUS
  <2> HIDE DEF Bad
  <2>2. QED
    BY <1>1, <2>1, MinimalSubset
<1>3. T # {}
  BY TotalOfNone
<1>4. Pick(T) \in T /\ IsFiniteSet(T)
  BY <1>3, FS_Subset DEF Pick
<1>5. Total(f, T \ {Pick(T)}) \in Int
  BY <1>2, <1>4
<1>6. QED
  BY <1>3, <1>4, <1>5, TotalPicks

LEMMA TotalNat ==
    ASSUME NEW f, NEW S, IsFiniteSet(S), \A x \in S : f[x] \in Nat
    PROVE  Total(f, S) \in Nat
<1> DEFINE Bad == {T \in SUBSET S : Total(f, T) \notin Nat}
<1>1. SUFFICES ASSUME Bad # {} PROVE FALSE
  OBVIOUS
<1>2. PICK T \in Bad : \A U \in Bad : U \subseteq T => U = T
  <2>1. Bad \in SUBSET SUBSET S
    OBVIOUS
  <2> HIDE DEF Bad
  <2>2. QED
    BY <1>1, <2>1, MinimalSubset
<1>3. T # {}
  BY TotalOfNone
<1>4. Pick(T) \in T /\ IsFiniteSet(T)
  BY <1>3, FS_Subset DEF Pick
<1>5. Total(f, T \ {Pick(T)}) \in Nat
  BY <1>2, <1>4
<1>6. QED
  BY <1>3, <1>4, <1>5, TotalPicks

(* The rows may be taken in any order: any one of them first.              *)
LEMMA TotalTakes ==
    ASSUME NEW f, NEW S, IsFiniteSet(S), \A y \in S : f[y] \in Int, NEW x \in S
    PROVE  Total(f, S) = f[x] + Total(f, S \ {x})
<1> DEFINE Bad == {T \in SUBSET S : \E y \in T : Total(f, T) # f[y] + Total(f, T \ {y})}
<1>1. SUFFICES ASSUME Bad # {} PROVE FALSE
  OBVIOUS
<1>2. PICK T \in Bad : \A U \in Bad : U \subseteq T => U = T
  <2>1. Bad \in SUBSET SUBSET S
    OBVIOUS
  <2> HIDE DEF Bad
  <2>2. QED
    BY <1>1, <2>1, MinimalSubset
<1>3. PICK y \in T : Total(f, T) # f[y] + Total(f, T \ {y})
  BY <1>2
<1> DEFINE z == Pick(T)
<1>4. z \in T /\ IsFiniteSet(T)
  BY <1>3, FS_Subset DEF Pick
<1>5. Total(f, T) = f[z] + Total(f, T \ {z})
  BY <1>3, <1>4, TotalPicks
<1> HIDE DEF z
<1>6. z # y
  BY <1>3, <1>5
<1>7. T \ {z} \notin Bad /\ T \ {y} \notin Bad
  BY <1>2, <1>3, <1>4
<1>8. /\ Total(f, T \ {z}) = f[y] + Total(f, (T \ {z}) \ {y})
      /\ Total(f, T \ {y}) = f[z] + Total(f, (T \ {y}) \ {z})
  BY <1>3, <1>4, <1>6, <1>7
<1>9. (T \ {z}) \ {y} = (T \ {y}) \ {z}
  OBVIOUS
<1>10. IsFiniteSet((T \ {y}) \ {z})
  BY <1>4, FS_RemoveElement
<1>11. Total(f, (T \ {y}) \ {z}) \in Int
  BY <1>10, TotalInt
<1>12. f[y] \in Int /\ f[z] \in Int
  BY <1>3, <1>4
<1>13. Total(f, T \ {z}) = f[y] + Total(f, (T \ {y}) \ {z})
  BY <1>8, <1>9
<1>14. Total(f, T) = f[y] + Total(f, T \ {y})
  BY <1>5, <1>8, <1>11, <1>12, <1>13
<1>15. QED
  BY <1>3, <1>14

(* Only the rows count that are in the set.                                *)
LEMMA TotalSame ==
    ASSUME NEW f, NEW g, NEW S, IsFiniteSet(S), \A x \in S : f[x] = g[x]
    PROVE  Total(f, S) = Total(g, S)
<1> DEFINE Bad == {T \in SUBSET S : Total(f, T) # Total(g, T)}
<1>1. SUFFICES ASSUME Bad # {} PROVE FALSE
  OBVIOUS
<1>2. PICK T \in Bad : \A U \in Bad : U \subseteq T => U = T
  <2>1. Bad \in SUBSET SUBSET S
    OBVIOUS
  <2> HIDE DEF Bad
  <2>2. QED
    BY <1>1, <2>1, MinimalSubset
<1>3. T # {}
  BY TotalOfNone
<1>4. Pick(T) \in T /\ IsFiniteSet(T)
  BY <1>3, FS_Subset DEF Pick
<1>5. Total(f, T \ {Pick(T)}) = Total(g, T \ {Pick(T)})
  BY <1>2, <1>4
<1>6. QED
  BY <1>3, <1>4, <1>5, TotalPicks

(* A change of one row.                                                    *)
LEMMA TotalChanges ==
    ASSUME NEW f, NEW g, NEW S, IsFiniteSet(S), NEW x \in S,
           \A y \in S : f[y] \in Int /\ g[y] \in Int,
           \A y \in S \ {x} : f[y] = g[y]
    PROVE  Total(g, S) = Total(f, S) - f[x] + g[x]
<1>1. IsFiniteSet(S \ {x})
  BY FS_RemoveElement
<1>2. Total(f, S \ {x}) = Total(g, S \ {x})
  BY <1>1, TotalSame
<1>3. Total(f, S) = f[x] + Total(f, S \ {x}) /\ Total(g, S) = g[x] + Total(g, S \ {x})
  BY TotalTakes
<1>4. Total(f, S \ {x}) \in Int
  BY <1>1, TotalInt
<1>5. QED
  BY <1>2, <1>3, <1>4

(* A row that comes into the set, its value there and the others as before.*)
LEMMA TotalGains ==
    ASSUME NEW f, NEW g, NEW S, IsFiniteSet(S), NEW x, x \notin S,
           \A y \in S \union {x} : g[y] \in Int,
           \A y \in S : f[y] = g[y]
    PROVE  Total(g, S \union {x}) = Total(f, S) + g[x]
<1>1. IsFiniteSet(S \union {x})
  BY FS_AddElement
<1>2. (S \union {x}) \ {x} = S
  OBVIOUS
<1>3. Total(g, S \union {x}) = g[x] + Total(g, S)
  BY <1>1, <1>2, TotalTakes
<1>4. Total(g, S) = Total(f, S) /\ Total(g, S) \in Int /\ g[x] \in Int
  BY TotalSame, TotalInt
<1>5. QED
  BY <1>3, <1>4

(* No row is more than the whole.                                          *)
LEMMA TotalHolds ==
    ASSUME NEW f, NEW S, IsFiniteSet(S), \A y \in S : f[y] \in Nat, NEW x \in S
    PROVE  f[x] <= Total(f, S)
<1>1. IsFiniteSet(S \ {x})
  BY FS_RemoveElement
<1>2. Total(f, S \ {x}) \in Nat
  BY <1>1, TotalNat
<1>3. Total(f, S) = f[x] + Total(f, S \ {x})
  BY TotalTakes
<1>4. QED
  BY <1>2, <1>3

(* Nothing adds up to nothing, and only nothing does.                      *)
LEMMA TotalZero ==
    ASSUME NEW f, NEW S, IsFiniteSet(S), \A y \in S : f[y] \in Nat
    PROVE  Total(f, S) = 0 <=> \A y \in S : f[y] = 0
<1>1. ASSUME Total(f, S) = 0, NEW y \in S
      PROVE  f[y] = 0
  BY <1>1, TotalHolds
<1>2. ASSUME \A y \in S : f[y] = 0
      PROVE  Total(f, S) = 0
  <2> DEFINE Bad == {T \in SUBSET S : Total(f, T) # 0}
  <2>1. SUFFICES ASSUME Bad # {} PROVE FALSE
    OBVIOUS
  <2>2. PICK T \in Bad : \A U \in Bad : U \subseteq T => U = T
    <3>1. Bad \in SUBSET SUBSET S
      OBVIOUS
    <3> HIDE DEF Bad
    <3>2. QED
      BY <2>1, <3>1, MinimalSubset
  <2>3. T # {}
    BY TotalOfNone
  <2>4. Pick(T) \in T /\ IsFiniteSet(T)
    BY <2>3, FS_Subset DEF Pick
  <2>5. Total(f, T \ {Pick(T)}) = 0
    BY <2>2, <2>4
  <2>6. QED
    BY <1>2, <2>3, <2>4, <2>5, TotalPicks
<1>3. QED
  BY <1>1, <1>2

(* Rows that no other shares: two sets add up.                             *)
LEMMA TotalOfBoth ==
    ASSUME NEW f, NEW S, IsFiniteSet(S), NEW T, IsFiniteSet(T), S \cap T = {},
           \A y \in S \union T : f[y] \in Int
    PROVE  Total(f, S \union T) = Total(f, S) + Total(f, T)
<1> DEFINE Bad == {U \in SUBSET S : Total(f, U \union T) # Total(f, U) + Total(f, T)}
<1>1. SUFFICES ASSUME Bad # {} PROVE FALSE
  OBVIOUS
<1>2. PICK U \in Bad : \A V \in Bad : V \subseteq U => V = U
  <2>1. Bad \in SUBSET SUBSET S
    OBVIOUS
  <2> HIDE DEF Bad
  <2>2. QED
    BY <1>1, <2>1, MinimalSubset
<1>3. Total(f, T) \in Int
  BY TotalInt
<1>4. U # {}
  <2>1. Total(f, {} \union T) = Total(f, {}) + Total(f, T)
    <3>1. {} \union T = T
      OBVIOUS
    <3>2. QED
      BY <1>3, <3>1, TotalOfNone
  <2>2. QED
    BY <2>1
<1>5. PICK x : x \in U
  BY <1>4
<1>6. IsFiniteSet(U) /\ IsFiniteSet(U \union T) /\ IsFiniteSet(U \ {x})
  BY FS_Subset, FS_Union, FS_RemoveElement
<1>7. (U \union T) \ {x} = (U \ {x}) \union T
  BY <1>5
<1>8. Total(f, U \union T) = f[x] + Total(f, (U \ {x}) \union T)
  BY <1>5, <1>6, <1>7, TotalTakes
<1>9. Total(f, U) = f[x] + Total(f, U \ {x})
  BY <1>5, <1>6, TotalTakes
<1>10. Total(f, (U \ {x}) \union T) = Total(f, U \ {x}) + Total(f, T)
  BY <1>2, <1>5
<1>11. Total(f, U \ {x}) \in Int /\ f[x] \in Int
  BY <1>5, <1>6, TotalInt
<1>12. QED
  BY <1>3, <1>8, <1>9, <1>10, <1>11

(* A table that is nowhere larger adds up to no more.                      *)
LEMMA TotalMonotone ==
    ASSUME NEW f, NEW g, NEW S, IsFiniteSet(S),
           \A y \in S : f[y] \in Int /\ g[y] \in Int /\ f[y] <= g[y]
    PROVE  Total(f, S) <= Total(g, S)
<1> DEFINE Bad == {T \in SUBSET S : ~ (Total(f, T) <= Total(g, T))}
<1>1. SUFFICES ASSUME Bad # {} PROVE FALSE
  OBVIOUS
<1>2. PICK T \in Bad : \A U \in Bad : U \subseteq T => U = T
  <2>1. Bad \in SUBSET SUBSET S
    OBVIOUS
  <2> HIDE DEF Bad
  <2>2. QED
    BY <1>1, <2>1, MinimalSubset
<1>3. T # {}
  BY TotalOfNone
<1>4. Pick(T) \in T /\ IsFiniteSet(T) /\ IsFiniteSet(T \ {Pick(T)})
  BY <1>3, FS_Subset, FS_RemoveElement DEF Pick
<1>5. Total(f, T \ {Pick(T)}) <= Total(g, T \ {Pick(T)})
  BY <1>2, <1>4
<1>6. /\ Total(f, T) = f[Pick(T)] + Total(f, T \ {Pick(T)})
      /\ Total(g, T) = g[Pick(T)] + Total(g, T \ {Pick(T)})
  BY <1>3, <1>4, TotalPicks
<1>7. Total(f, T \ {Pick(T)}) \in Int /\ Total(g, T \ {Pick(T)}) \in Int
  BY <1>4, TotalInt
<1>8. QED
  BY <1>2, <1>4, <1>5, <1>6, <1>7

(* A row more is a sum that much greater.                                  *)
LEMMA TotalGreater ==
    ASSUME NEW f, NEW g, NEW S, IsFiniteSet(S),
           \A y \in S : f[y] \in Int /\ g[y] \in Int /\ f[y] <= g[y],
           NEW x \in S, f[x] < g[x]
    PROVE  Total(f, S) < Total(g, S)
<1>1. IsFiniteSet(S \ {x})
  BY FS_RemoveElement
<1>2. Total(f, S) = f[x] + Total(f, S \ {x}) /\ Total(g, S) = g[x] + Total(g, S \ {x})
  BY TotalTakes
<1>3. Total(f, S \ {x}) <= Total(g, S \ {x})
  BY <1>1, TotalMonotone
<1>4. Total(f, S \ {x}) \in Int /\ Total(g, S \ {x}) \in Int
  BY <1>1, TotalInt
<1>5. QED
  BY <1>2, <1>3, <1>4

(* The rows that count may be picked out by their set or by their value.   *)
LEMMA TotalOfPart ==
    ASSUME NEW f, NEW g, NEW S, IsFiniteSet(S), NEW T \in SUBSET S,
           \A y \in T : f[y] \in Nat /\ g[y] = f[y],
           \A y \in S \ T : g[y] = 0
    PROVE  Total(f, T) = Total(g, S)
<1>1. IsFiniteSet(T) /\ IsFiniteSet(S \ T)
  BY FS_Subset
<1>2. Total(g, S \ T) = 0
  BY <1>1, TotalZero
<1>3. Total(f, T) = Total(g, T)
  BY <1>1, TotalSame
<1>4. Total(g, T) \in Nat
  BY <1>1, TotalNat
<1>5. Total(g, T \union (S \ T)) = Total(g, T) + Total(g, S \ T)
  <2>1. T \cap (S \ T) = {} /\ \A y \in T \union (S \ T) : g[y] \in Int
    OBVIOUS
  <2>2. QED
    BY <1>1, <2>1, TotalOfBoth
<1>6. T \union (S \ T) = S
  OBVIOUS
<1>7. QED
  BY <1>2, <1>3, <1>4, <1>5, <1>6
=============================================================================
