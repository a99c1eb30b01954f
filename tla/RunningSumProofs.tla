--------------------------- MODULE RunningSumProofs ---------------------------
(***************************************************************************)
(* What a sum of consecutive values is: that the recursive function that   *)
(* defines it exists, and how it depends on its end and its values; and    *)
(* the forms of induction this and other proofs use, stated about sets     *)
(* instead of predicates.                                                  *)
(***************************************************************************)
EXTENDS RunningSum, WellFoundedInduction, TLAPS

Less == {p \in Nat \X Nat : p[1] < p[2]}

\* A set of natural numbers that is not empty has a least element.
LEMMA LeastNatural ==
  ASSUME NEW T, T \subseteq Nat, T # {}
  PROVE  \E m \in T : \A y \in T : m <= y
<1>1. IsWellFoundedOn(Less, Nat)
  BY NatLessThanWellFounded DEF OpToRel, Less
<1>2. \E m \in T : \A y \in T : ~(<<y, m>> \in Less)
  BY <1>1, WFMin
<1>3. PICK m \in T : \A y \in T : ~(<<y, m>> \in Less)
  BY <1>2
<1>4. \A y \in T : ~(y < m)
  BY <1>3 DEF Less
<1>5. QED BY <1>4

\* Induction: a set that has 0, and with a natural number the next, has all of them.
LEMMA AllNaturals ==
  ASSUME NEW T, 0 \in T, \A n \in Nat : n \in T => n + 1 \in T
  PROVE  Nat \subseteq T
<1> DEFINE Out == {n \in Nat : n \notin T}
<1>1. SUFFICES ASSUME Out # {} PROVE FALSE
  OBVIOUS
<1>2. PICK m \in Out : \A n \in Out : m <= n
  <2>1. Out \subseteq Nat
    OBVIOUS
  <2> HIDE DEF Out
  <2>2. QED BY <1>1, <2>1, LeastNatural
<1>3. m \in Nat /\ m # 0 /\ m \notin T
  OBVIOUS
<1>4. m - 1 \in Nat /\ m - 1 \notin Out
  BY <1>2, <1>3
<1>5. m - 1 \in T
  BY <1>4
<1>6. (m - 1) + 1 \in T
  BY <1>4, <1>5
<1>7. QED BY <1>3, <1>6

-----------------------------------------------------------------------------
(* The recursive function. *)

\* f is the function of SumOver's definition.
IsRunning(f, v, lo, hi) ==
  f = [k \in (lo - 1)..hi |-> IF k = lo - 1 THEN 0 ELSE f[k - 1] + v[k]]

\* There is one, however many values are summed.
LEMMA RunningExists ==
  ASSUME NEW v, NEW lo \in Int
  PROVE  \A n \in Nat : \E f : IsRunning(f, v, lo, lo - 1 + n)
<1> DEFINE T == {n \in Nat : \E f : IsRunning(f, v, lo, lo - 1 + n)}
<1>1. 0 \in T
  <2> DEFINE f == [k \in (lo - 1)..(lo - 1 + 0) |-> 0]
  <2>1. IsRunning(f, v, lo, lo - 1 + 0)
    BY DEF IsRunning
  <2>2. QED BY <2>1
<1>2. ASSUME NEW n \in Nat, n \in T PROVE n + 1 \in T
  <2> DEFINE hi == lo - 1 + n
  <2>1. PICK g : IsRunning(g, v, lo, hi)
    BY <1>2
  <2> DEFINE f == [k \in (lo - 1)..(hi + 1) |-> IF k = hi + 1 THEN g[hi] + v[hi + 1] ELSE g[k]]
  <2>2. hi \in Int /\ lo - 1 <= hi
    OBVIOUS
  <2> HIDE DEF hi
  <2>3. \A k \in (lo - 1)..hi : g[k] = IF k = lo - 1 THEN 0 ELSE g[k - 1] + v[k]
    BY <2>1 DEF IsRunning
  <2>4. ASSUME NEW k \in (lo - 1)..(hi + 1)
        PROVE  f[k] = IF k = lo - 1 THEN 0 ELSE f[k - 1] + v[k]
    <3>1. CASE k = hi + 1
      BY <2>2, <3>1
    <3>2. CASE k \in (lo - 1)..hi
      BY <2>2, <2>3, <3>2
    <3>3. QED BY <2>2, <3>1, <3>2
  <2>5. f = [k \in (lo - 1)..(hi + 1) |-> f[k]]
    OBVIOUS
  <2>6. IsRunning(f, v, lo, hi + 1)
    <3> HIDE DEF f
    <3> QED BY <2>4, <2>5 DEF IsRunning
  <2>7. hi + 1 = lo - 1 + (n + 1)
    BY DEF hi
  <2> HIDE DEF f
  <2>8. QED BY <2>6, <2>7
<1> HIDE DEF T
<1>3. Nat \subseteq T
  BY <1>1, <1>2, AllNaturals
<1>4. QED BY <1>3 DEF T

\* v and w have the same values from lo to hi.
Agree(v, w, lo, hi) == \A k \in lo..hi : v[k] = w[k]

\* Two of them agree as far as both go, if their values do.
LEMMA RunningAgree ==
  ASSUME NEW lo \in Int, NEW m \in Int, NEW n \in Int, m <= n, NEW v, NEW w, Agree(v, w, lo, m),
         NEW f, NEW g, IsRunning(f, v, lo, m), IsRunning(g, w, lo, n)
  PROVE  Agree(f, g, lo - 1, m)
<1> USE DEF Agree
<1> DEFINE T == {i \in Nat : lo - 1 + i <= m => f[lo - 1 + i] = g[lo - 1 + i]}
<1>1. \A k \in (lo - 1)..m : f[k] = IF k = lo - 1 THEN 0 ELSE f[k - 1] + v[k]
  BY DEF IsRunning
<1>2. \A k \in (lo - 1)..n : g[k] = IF k = lo - 1 THEN 0 ELSE g[k - 1] + w[k]
  BY DEF IsRunning
<1>3. 0 \in T
  BY <1>1, <1>2
<1>4. ASSUME NEW i \in Nat, i \in T PROVE i + 1 \in T
  <2> DEFINE k == lo - 1 + (i + 1)
  <2>1. SUFFICES ASSUME k <= m PROVE f[k] = g[k]
    OBVIOUS
  <2>2. f[k - 1] = g[k - 1]
    <3>1. k - 1 = lo - 1 + i /\ lo - 1 + i <= m
      BY <2>1
    <3>2. QED BY <1>4, <3>1
  <2>3. k \in (lo - 1)..m /\ k \in (lo - 1)..n /\ k \in lo..m /\ k # lo - 1
    BY <2>1
  <2> HIDE DEF k
  <2>4. QED BY <1>1, <1>2, <2>2, <2>3
<1> HIDE DEF T
<1>5. Nat \subseteq T
  BY <1>3, <1>4, AllNaturals
<1>6. ASSUME NEW k \in (lo - 1)..m PROVE f[k] = g[k]
  <2>1. k - (lo - 1) \in Nat /\ lo - 1 + (k - (lo - 1)) = k /\ k <= m
    OBVIOUS
  <2>2. k - (lo - 1) \in T
    BY <1>5, <2>1
  <2>3. QED BY <2>1, <2>2 DEF T
<1>7. QED BY <1>6

\* SumOver is a value of such a function.
LEMMA SumIsRunning ==
  ASSUME NEW v, NEW lo \in Int, NEW hi \in Int, lo - 1 <= hi
  PROVE  \E f : IsRunning(f, v, lo, hi) /\ SumOver(v, lo, hi) = f[hi]
<1> DEFINE f == CHOOSE f : IsRunning(f, v, lo, hi)
<1>1. \E g : IsRunning(g, v, lo, hi)
  <2>1. hi - (lo - 1) \in Nat /\ lo - 1 + (hi - (lo - 1)) = hi
    OBVIOUS
  <2>2. QED BY <2>1, RunningExists
<1>2. IsRunning(f, v, lo, hi)
  BY <1>1
<1>3. SumOver(v, lo, hi) = f[hi]
  BY DEF SumOver, IsRunning
<1>4. QED BY <1>2, <1>3

-----------------------------------------------------------------------------
(* Sums. *)

\* The sum of nothing.
LEMMA SumOfNone ==
  ASSUME NEW v, NEW lo \in Int
  PROVE  SumOver(v, lo, lo - 1) = 0
<1>1. PICK f : IsRunning(f, v, lo, lo - 1) /\ SumOver(v, lo, lo - 1) = f[lo - 1]
  BY SumIsRunning
<1>2. f[lo - 1] = 0
  BY <1>1 DEF IsRunning
<1>3. QED BY <1>1, <1>2

\* One value more, whatever the values after it are.
LEMMA SumOfMore ==
  ASSUME NEW v, NEW w, NEW lo \in Int, NEW n \in Int, lo - 1 <= n, Agree(v, w, lo, n)
  PROVE  SumOver(w, lo, n + 1) = SumOver(v, lo, n) + w[n + 1]
<1> DEFINE hi == n + 1
<1>1. hi \in Int /\ lo <= hi /\ n <= hi /\ hi - 1 = n
  OBVIOUS
<1> HIDE DEF hi
<1>2. PICK f : IsRunning(f, v, lo, n) /\ SumOver(v, lo, n) = f[n]
  BY SumIsRunning
<1>3. PICK g : IsRunning(g, w, lo, hi) /\ SumOver(w, lo, hi) = g[hi]
  BY <1>1, SumIsRunning
<1>4. f[n] = g[n]
  <2>1. Agree(f, g, lo - 1, n)
    BY <1>1, <1>2, <1>3, RunningAgree
  <2>2. QED BY <2>1 DEF Agree
<1>5. g[hi] = g[hi - 1] + w[hi]
  BY <1>1, <1>3 DEF IsRunning
<1>6. QED BY <1>1, <1>2, <1>3, <1>4, <1>5 DEF hi

\* Sums of the same values are the same.
LEMMA SumOfSame ==
  ASSUME NEW v, NEW w, NEW lo \in Int, NEW hi \in Int, lo - 1 <= hi,
         Agree(v, w, lo, hi)
  PROVE  SumOver(w, lo, hi) = SumOver(v, lo, hi)
<1>1. PICK f : IsRunning(f, v, lo, hi) /\ SumOver(v, lo, hi) = f[hi]
  BY SumIsRunning
<1>2. PICK g : IsRunning(g, w, lo, hi) /\ SumOver(w, lo, hi) = g[hi]
  BY SumIsRunning
<1>3. Agree(f, g, lo - 1, hi)
  <2>1. hi <= hi
    OBVIOUS
  <2>2. QED BY <1>1, <1>2, <2>1, RunningAgree
<1>4. QED BY <1>1, <1>2, <1>3 DEF Agree
===============================================================================
