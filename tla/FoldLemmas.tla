----------------------------- MODULE FoldLemmas -----------------------------
(***************************************************************************)
(* What a loop establishes.  The models write the loops of the code as     *)
(* folds (FoldLeft over a sequence, FoldSet over a set), and a fold is a   *)
(* recursive function over the sets of elements still to be handled.  The  *)
(* theorems are about one fold with a constant operator, so that a proof   *)
(* module gets them for its own loop body by INSTANCE.                     *)
(***************************************************************************)
EXTENDS FiniteSetTheorems, WellFoundedInduction, TLAPS

CONSTANTS
    Op(_,_,_),    \* the loop body: its context, what is accumulated, the element
    Pick(_)       \* the element of a set that is handled last

\* One equation of the fold, at s, for a function g that holds the results so far.
At(c, base, g, s) ==
    IF s = {} THEN base ELSE Op(c, g[s \ {Pick(s)}], Pick(s))

Fixed(c, base, S, g) == g = [s \in SUBSET S |-> At(c, base, g, s)]

\* The function the folds of the community modules compute.
Iter(c, base, S) ==
    CHOOSE iter : iter = [s \in SUBSET S |->
        IF s = {} THEN base ELSE Op(c, iter[s \ {Pick(s)}], Pick(s))]

Picks(S) == \A s \in SUBSET S : s # {} => Pick(s) \in s

-----------------------------------------------------------------------------
\* A set of subsets of a finite set has a minimal member.
LEMMA MinimalSubset ==
    ASSUME NEW S, IsFiniteSet(S), NEW Bad \in SUBSET SUBSET S, Bad # {}
    PROVE  \E T \in Bad : \A U \in SUBSET T : U # T => U \notin Bad
<1>1. IsWellFoundedOn(StrictSubsetOrdering(S), FiniteSubsetsOf(S))
  BY FS_StrictSubsetOrderingWellFounded
<1>2. Bad \subseteq FiniteSubsetsOf(S)
  BY FS_Subset DEF FiniteSubsetsOf
<1>3. PICK T \in Bad : \A U \in Bad : ~ (<<U, T>> \in StrictSubsetOrdering(S))
  BY <1>1, <1>2, WFMin
<1>4. ASSUME NEW U \in SUBSET T, U # T, U \in Bad PROVE FALSE
  <2>1. <<U, T>> \in StrictSubsetOrdering(S)
    BY <1>4 DEF StrictSubsetOrdering
  <2> QED BY <2>1, <1>3, <1>4
<1> QED BY <1>3, <1>4

\* The equations have one solution.
LEMMA FoldUnique ==
    ASSUME NEW c, NEW base, NEW S, IsFiniteSet(S), Picks(S),
           NEW g, NEW h, Fixed(c, base, S, g), Fixed(c, base, S, h)
    PROVE  g = h
<1> DEFINE Bad == {s \in SUBSET S : g[s] # h[s]}
<1>1. g = [s \in SUBSET S |-> At(c, base, g, s)]
  BY DEF Fixed
<1>2. h = [s \in SUBSET S |-> At(c, base, h, s)]
  BY DEF Fixed
<1>3. ASSUME Bad # {} PROVE FALSE
  <2> HIDE DEF Bad
  <2>1. Bad \in SUBSET SUBSET S
    BY DEF Bad
  <2>2. PICK T \in Bad : \A U \in SUBSET T : U # T => U \notin Bad
    BY <1>3, <2>1, MinimalSubset
  <2>3. T \in SUBSET S /\ g[T] # h[T]
    BY DEF Bad
  <2>4. g[T] = At(c, base, g, T) /\ h[T] = At(c, base, h, T)
    <3>1. \A s \in SUBSET S : g[s] = At(c, base, g, s)
      BY <1>1
    <3>2. \A s \in SUBSET S : h[s] = At(c, base, h, s)
      BY <1>2
    <3> QED BY <3>1, <3>2, <2>3
  <2>5. CASE T = {}
    BY <2>3, <2>4, <2>5 DEF At
  <2>6. CASE T # {}
    <3>1. Pick(T) \in T
      BY <2>3, <2>6 DEF Picks
    <3>2. T \ {Pick(T)} \notin Bad
      BY <3>1, <2>2
    <3>3. g[T \ {Pick(T)}] = h[T \ {Pick(T)}]
      BY <3>2, <2>3 DEF Bad
    <3> QED BY <2>3, <2>4, <2>6, <3>3 DEF At
  <2> QED BY <2>5, <2>6
<1>4. \A s \in SUBSET S : g[s] = h[s]
  BY <1>3
<1>5. g = [s \in SUBSET S |-> g[s]] /\ h = [s \in SUBSET S |-> h[s]]
  <2>1. \A s \in SUBSET S : g[s] = At(c, base, g, s)
    BY <1>1
  <2>2. \A s \in SUBSET S : h[s] = At(c, base, h, s)
    BY <1>2
  <2> QED BY <1>1, <1>2, <2>1, <2>2
<1> QED BY <1>4, <1>5

\* A solution for S is one for every subset of S.
LEMMA FoldRestrict ==
    ASSUME NEW c, NEW base, NEW S, Picks(S), NEW g, Fixed(c, base, S, g),
           NEW T \in SUBSET S
    PROVE  Fixed(c, base, T, [s \in SUBSET T |-> g[s]])
<1> DEFINE h == [s \in SUBSET T |-> g[s]]
<1>1. \A s \in SUBSET S : g[s] = At(c, base, g, s)
  <2>1. g = [s \in SUBSET S |-> At(c, base, g, s)]
    BY DEF Fixed
  <2> QED BY <2>1
<1>2. ASSUME NEW s \in SUBSET T PROVE h[s] = At(c, base, h, s)
  <2>1. h[s] = At(c, base, g, s)
    BY <1>1
  <2>2. CASE s = {}
    BY <2>1, <2>2 DEF At
  <2>3. CASE s # {}
    <3>1. s \ {Pick(s)} \in SUBSET T
      OBVIOUS
    <3>2. h[s \ {Pick(s)}] = g[s \ {Pick(s)}]
      BY <3>1
    <3> QED BY <2>1, <2>3, <3>2 DEF At
  <2> QED BY <2>2, <2>3
<1>3. h = [s \in SUBSET T |-> At(c, base, h, s)]
  BY <1>2
<1> QED BY <1>3 DEF Fixed

\* The equations have a solution, whatever finite set is folded.
LEMMA FoldExists ==
    ASSUME NEW c, NEW base, NEW S, IsFiniteSet(S), Picks(S)
    PROVE  \E g : Fixed(c, base, S, g)
<1> DEFINE Bad == {T \in SUBSET S : ~ \E g : Fixed(c, base, T, g)}
<1>1. ASSUME Bad # {} PROVE FALSE
  <2> HIDE DEF Bad
  <2>1. Bad \in SUBSET SUBSET S
    BY DEF Bad
  <2>2. PICK T \in Bad : \A U \in SUBSET T : U # T => U \notin Bad
    BY <1>1, <2>1, MinimalSubset
  <2>3. T \in SUBSET S /\ ~ \E g : Fixed(c, base, T, g)
    BY DEF Bad
  <2> DEFINE sol(U) == CHOOSE g : Fixed(c, base, U, g)
             val(U) == sol(U)[U]
             all == [s \in SUBSET T |->
                       IF s = {} THEN base ELSE Op(c, val(s \ {Pick(s)}), Pick(s))]
  <2>4. ASSUME NEW U \in SUBSET T, U # T PROVE Fixed(c, base, U, sol(U))
    <3>1. \E g : Fixed(c, base, U, g)
      BY <2>2, <2>3, <2>4 DEF Bad
    <3> QED BY <3>1
  <2>5. ASSUME NEW U \in SUBSET T, U # T PROVE all[U] = val(U)
    <3>1. Fixed(c, base, U, sol(U))
      BY <2>4, <2>5
    <3>2. \A s \in SUBSET U : sol(U)[s] = At(c, base, sol(U), s)
      <4>1. sol(U) = [s \in SUBSET U |-> At(c, base, sol(U), s)]
        BY <3>1 DEF Fixed
      <4> HIDE DEF sol
      <4> QED BY <4>1
    <3>3. val(U) = At(c, base, sol(U), U)
      BY <3>2
    <3>4. CASE U = {}
      BY <3>3, <3>4 DEF At
    <3>5. CASE U # {}
      <4> DEFINE V == U \ {Pick(U)}
      <4>1. Pick(U) \in U
        BY <3>5, <2>3 DEF Picks
      <4>2. V \in SUBSET U /\ V \in SUBSET T /\ V # T /\ V \in SUBSET S /\ U \in SUBSET S
        BY <4>1, <2>3
      <4>3. Fixed(c, base, V, sol(V))
        BY <4>2, <2>4
      <4>4. Picks(U) /\ Picks(V) /\ IsFiniteSet(V)
        BY <4>2, FS_Subset DEF Picks
      <4>5. Fixed(c, base, V, [s \in SUBSET V |-> sol(U)[s]])
        <5> HIDE DEF V, sol
        <5> QED BY <4>2, <4>4, <3>1, FoldRestrict
      <4>6. sol(V) = [s \in SUBSET V |-> sol(U)[s]]
        <5> HIDE DEF V, sol
        <5> QED BY <4>3, <4>4, <4>5, FoldUnique
      <4>7. val(V) = sol(U)[V]
        <5> HIDE DEF sol
        <5> QED BY <4>6
      <4>8. all[U] = Op(c, val(V), Pick(U))
        <5> HIDE DEF val
        <5> QED BY <3>5
      <4>9. val(U) = Op(c, sol(U)[V], Pick(U))
        <5> HIDE DEF sol
        <5> QED BY <3>3, <3>5 DEF At
      <4> QED BY <4>7, <4>8, <4>9
    <3> QED BY <3>4, <3>5
  <2>6. ASSUME NEW s \in SUBSET T PROVE all[s] = At(c, base, all, s)
    <3>1. CASE s = {}
      BY <3>1 DEF At
    <3>2. CASE s # {}
      <4>1. Pick(s) \in s
        BY <3>2, <2>3 DEF Picks
      <4>2. s \ {Pick(s)} \in SUBSET T /\ s \ {Pick(s)} # T
        BY <4>1
      <4>3. all[s \ {Pick(s)}] = val(s \ {Pick(s)})
        BY <4>2, <2>5
      <4>4. all[s] = Op(c, val(s \ {Pick(s)}), Pick(s))
        <5> HIDE DEF val
        <5> QED BY <3>2
      <4> QED BY <4>3, <4>4, <3>2 DEF At
    <3> QED BY <3>1, <3>2
  <2>7. Fixed(c, base, T, all)
    <3>1. all = [s \in SUBSET T |-> all[s]]
      OBVIOUS
    <3> HIDE DEF all
    <3>2. all = [s \in SUBSET T |-> At(c, base, all, s)]
      BY <3>1, <2>6
    <3> QED BY <3>2 DEF Fixed
  <2> QED BY <2>3, <2>7
<1>2. S \notin Bad
  BY <1>1
<1> QED BY <1>2

\* The fold satisfies its equations.
THEOREM FoldEquation ==
    ASSUME NEW c, NEW base, NEW S, IsFiniteSet(S), Picks(S),
           NEW s \in SUBSET S
    PROVE  Iter(c, base, S)[s]
             = IF s = {} THEN base ELSE Op(c, Iter(c, base, S)[s \ {Pick(s)}], Pick(s))
<1>1. \E g : Fixed(c, base, S, g)
  BY FoldExists
<1>2. Iter(c, base, S) = CHOOSE g : Fixed(c, base, S, g)
  BY DEF Iter, Fixed, At
<1>3. Fixed(c, base, S, Iter(c, base, S))
  BY <1>1, <1>2
<1>4. Iter(c, base, S) = [x \in SUBSET S |-> At(c, base, Iter(c, base, S), x)]
  BY <1>3 DEF Fixed
<1>5. Iter(c, base, S)[s] = At(c, base, Iter(c, base, S), s)
  BY <1>4
<1> QED BY <1>5 DEF At

\* The rule for loops: what holds of the base when nothing was handled, and what
\* one more turn carries on, holds of the result when everything was handled.
THEOREM FoldKeeps ==
    ASSUME NEW c, NEW base, NEW S, IsFiniteSet(S), Picks(S),
           NEW W, base \in W[{}],
           \A s \in SUBSET S : s # {} =>
              \A w \in W[s \ {Pick(s)}] : Op(c, w, Pick(s)) \in W[s]
    PROVE  Iter(c, base, S)[S] \in W[S]
<1> DEFINE it == Iter(c, base, S)
           Bad == {s \in SUBSET S : it[s] \notin W[s]}
<1>1. ASSUME Bad # {} PROVE FALSE
  <2> HIDE DEF Bad, it
  <2>1. Bad \in SUBSET SUBSET S
    BY DEF Bad
  <2>2. PICK T \in Bad : \A U \in SUBSET T : U # T => U \notin Bad
    BY <1>1, <2>1, MinimalSubset
  <2>3. T \in SUBSET S /\ it[T] \notin W[T]
    BY DEF Bad
  <2>4. it[T] = IF T = {} THEN base ELSE Op(c, it[T \ {Pick(T)}], Pick(T))
    BY <2>3, FoldEquation DEF it
  <2>5. CASE T = {}
    BY <2>3, <2>4, <2>5
  <2>6. CASE T # {}
    <3>1. Pick(T) \in T
      BY <2>3, <2>6 DEF Picks
    <3>2. T \ {Pick(T)} \notin Bad
      BY <3>1, <2>2
    <3>3. it[T \ {Pick(T)}] \in W[T \ {Pick(T)}]
      BY <3>2, <2>3 DEF Bad
    <3> QED BY <2>3, <2>4, <2>6, <3>3
  <2> QED BY <2>5, <2>6
<1>2. S \notin Bad
  BY <1>1
<1> QED BY <1>2

-----------------------------------------------------------------------------
(* The choice that FoldLeft and the loops over numbers make.                *)

Highest(s) == CHOOSE x \in s : \A y \in s : x >= y

\* A non-empty finite set of numbers has a highest member.
THEOREM HighestExists ==
    ASSUME NEW S \in SUBSET Nat, IsFiniteSet(S), S # {}
    PROVE  Highest(S) \in S /\ \A y \in S : Highest(S) >= y
<1> DEFINE Has(T) == \E x \in T : \A y \in T : x >= y
           Bad == {T \in SUBSET S : T # {} /\ ~Has(T)}
<1>1. ASSUME Bad # {} PROVE FALSE
  <2> HIDE DEF Bad
  <2>1. Bad \in SUBSET SUBSET S
    BY DEF Bad
  <2>2. PICK T \in Bad : \A U \in SUBSET T : U # T => U \notin Bad
    BY <1>1, <2>1, MinimalSubset
  <2>3. T \in SUBSET S /\ T # {} /\ ~Has(T)
    BY DEF Bad
  <2>4. PICK x \in T : x \in Nat
    BY <2>3
  <2>5. CASE T = {x}
    <3>1. \A y \in T : x >= y
      BY <2>4, <2>5
    <3> QED BY <2>3, <2>4, <3>1
  <2>6. CASE T # {x}
    <3>1. T \ {x} \in SUBSET S /\ T \ {x} # {} /\ T \ {x} \notin Bad
      BY <2>2, <2>3, <2>4, <2>6
    <3>2. PICK z \in T \ {x} : \A y \in T \ {x} : z >= y
      BY <3>1 DEF Bad
    <3>3. z \in T /\ z \in Nat
      BY <2>3, <3>2
    <3>4. CASE x >= z
      <4>1. \A y \in T : y \in Nat /\ (y # x => z >= y)
        BY <2>3, <3>2
      <4>2. \A y \in T : x >= y
        BY <2>4, <3>3, <3>4, <4>1
      <4> QED BY <2>3, <2>4, <4>2
    <3>5. CASE ~(x >= z)
      <4>1. \A y \in T : z >= y
        BY <2>4, <3>2, <3>3, <3>5
      <4> QED BY <2>3, <3>3, <4>1
    <3> QED BY <3>4, <3>5
  <2> QED BY <2>5, <2>6
<1>2. S \notin Bad
  BY <1>1
<1>3. Has(S)
  BY <1>2
<1> QED BY <1>3 DEF Highest

\* So a loop over numbers that handles the highest last can pick one every time.
THEOREM HighestPicks ==
    ASSUME NEW S \in SUBSET Nat, IsFiniteSet(S)
    PROVE  \A s \in SUBSET S : s # {} => Highest(s) \in s
<1> SUFFICES ASSUME NEW s \in SUBSET S, s # {} PROVE Highest(s) \in s
  OBVIOUS
<1>1. s \in SUBSET Nat /\ IsFiniteSet(s)
  BY FS_Subset
<1> QED BY <1>1, HighestExists

=============================================================================
