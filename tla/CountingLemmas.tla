---------------------------- MODULE CountingLemmas ----------------------------
(***************************************************************************)
(* Facts about numbers and sums that the proofs of several components rest *)
(* on.                                                                     *)
(***************************************************************************)
EXTENDS Integers, FiniteSetTheorems, WellFoundedInduction, TLAPS

-----------------------------------------------------------------------------
\* A set of numbers has a least one: the intervals below its elements are
\* finite sets, which the strict subset relation orders well.
LEMMA LeastElement ==
  ASSUME NEW S, S \subseteq Nat, S # {}
  PROVE  \E x \in S : \A y \in S : x <= y
<1>. DEFINE Below == {0 .. x - 1 : x \in S}
<1>1. \A x \in S : 0 .. x - 1 \in FiniteSubsetsOf(Nat)
  BY FS_Interval DEF FiniteSubsetsOf
<1>2. Below \subseteq FiniteSubsetsOf(Nat) /\ Below # {}
  BY <1>1
<1>3. IsWellFoundedOn(StrictSubsetOrdering(Nat), FiniteSubsetsOf(Nat))
  BY FS_StrictSubsetOrderingWellFounded
<1>4. PICK b \in Below : \A c \in Below : <<c, b>> \notin StrictSubsetOrdering(Nat)
  <2>. HIDE DEF Below
  <2>. QED
    BY <1>2, <1>3, WFMin
<1>5. PICK x \in S : b = 0 .. x - 1
  BY <1>4
<1>6. ASSUME NEW y \in S, y < x
      PROVE  FALSE
  <2>1. 0 .. y - 1 \subseteq 0 .. x - 1 /\ y \in 0 .. x - 1 /\ y \notin 0 .. y - 1
    BY <1>6
  <2>2. <<0 .. y - 1, b>> \in StrictSubsetOrdering(Nat)
    BY <2>1, <1>5 DEF StrictSubsetOrdering
  <2>. QED
    BY <2>2, <1>4
<1>. QED
  BY <1>6

\* A function on a nonempty set that is bounded takes a greatest value.
LEMMA GreatestValue ==
  ASSUME NEW S, S # {}, NEW n \in Int, NEW f \in [S -> Int], \A x \in S : f[x] <= n
  PROVE  \E x \in S : \A y \in S : f[y] <= f[x]
<1>. DEFINE Gaps == {n - f[x] : x \in S}
<1>1. Gaps \subseteq Nat /\ Gaps # {}
  OBVIOUS
<1>2. PICK g \in Gaps : \A h \in Gaps : g <= h
  <2>. HIDE DEF Gaps
  <2>. QED
    BY <1>1, LeastElement
<1>3. PICK x \in S : g = n - f[x]
  BY <1>2
<1>4. \A y \in S : n - f[x] <= n - f[y]
  BY <1>2, <1>3
<1>. QED
  BY <1>4

\* Going d steps up from a, the remainder goes d steps up, around n.
LEMMA ModShift ==
  ASSUME NEW n \in Nat \ {0}, NEW a \in Nat, NEW d \in Nat, d < n
  PROVE  /\ a % n \in 0 .. n - 1
         /\ (a + d) % n = IF (a % n) + d < n THEN (a % n) + d ELSE (a % n) + d - n
OBVIOUS
-----------------------------------------------------------------------------
\* Among the subsets of a finite set with some property one is minimal.
LEMMA MinimalSubset ==
  ASSUME NEW S, IsFiniteSet(S), NEW Bad, Bad \subseteq SUBSET S, Bad # {}
  PROVE  \E s \in Bad : \A u \in SUBSET s : u # s => u \notin Bad
<1>1. Bad \subseteq FiniteSubsetsOf(S)
  BY FS_Subset DEF FiniteSubsetsOf
<1>2. IsWellFoundedOn(StrictSubsetOrdering(S), FiniteSubsetsOf(S))
  BY FS_StrictSubsetOrderingWellFounded
<1>3. PICK s \in Bad : \A u \in Bad : <<u, s>> \notin StrictSubsetOrdering(S)
  BY <1>1, <1>2, WFMin
<1>. QED
  BY <1>3 DEF StrictSubsetOrdering

-----------------------------------------------------------------------------
(***************************************************************************)
(* Sums.  g has the sums of F over the subsets of S, as MapThenSumSet adds *)
(* them up: an element is picked, and the sum over the others added to it. *)
(***************************************************************************)
Picked(s) == CHOOSE x \in s : TRUE

IsSum(F, S, g) ==
  g = [s \in SUBSET S |-> IF s = {} THEN 0 ELSE F[Picked(s)] + g[s \ {Picked(s)}]]

SumOf(F, S) == (CHOOSE g : IsSum(F, S, g))[S]

\* The picked element is one of the set.
LEMMA PickedIn == \A s : s # {} => Picked(s) \in s
BY DEF Picked

\* Functions of sums agree where they are both defined, also those of two
\* functions that agree there.
LEMMA SumsAgree ==
  ASSUME NEW S, IsFiniteSet(S), NEW T, NEW U, U \subseteq S, U \subseteq T, NEW F, NEW G,
         \A x \in U : F[x] = G[x],
         NEW g, IsSum(F, S, g), NEW h, IsSum(G, T, h)
  PROVE  g[U] = h[U]
<1>. DEFINE Bad == {u \in SUBSET U : g[u] # h[u]}
<1>1. SUFFICES ASSUME Bad # {} PROVE FALSE
  OBVIOUS
<1>2. PICK s \in Bad : \A u \in SUBSET s : u # s => u \notin Bad
  <2>1. Bad \subseteq SUBSET U /\ IsFiniteSet(U)
    BY FS_Subset
  <2>. HIDE DEF Bad
  <2>. QED
    BY <1>1, <2>1, MinimalSubset
<1>3. \A u \in SUBSET s : u \subseteq U
  BY <1>2
<1>4. CASE s = {}
  BY <1>2, <1>4 DEF IsSum
<1>5. CASE s # {}
  <2>1. Picked(s) \in s
    BY <1>5, PickedIn
  <2>2. s \ {Picked(s)} \in SUBSET s /\ s \ {Picked(s)} # s
    BY <2>1
  <2>3. g[s \ {Picked(s)}] = h[s \ {Picked(s)}]
    BY <1>2, <1>3, <2>2
  <2>4. s \in SUBSET S /\ s \in SUBSET T /\ F[Picked(s)] = G[Picked(s)]
    BY <1>2, <2>1
  <2>5. /\ g[s] = F[Picked(s)] + g[s \ {Picked(s)}]
        /\ h[s] = G[Picked(s)] + h[s \ {Picked(s)}]
    BY <1>5, <2>4 DEF IsSum
  <2>. QED
    BY <1>2, <2>3, <2>4, <2>5
<1>. QED
  BY <1>4, <1>5

\* The sums over the subsets of a set contain those over the subsets of each.
LEMMA SumWithin ==
  ASSUME NEW S, NEW F, NEW g, IsSum(F, S, g), NEW U, U \subseteq S
  PROVE  IsSum(F, U, [s \in SUBSET U |-> g[s]])
<1>. DEFINE h == [s \in SUBSET U |-> g[s]]
<1>1. \A s \in SUBSET U : h[s] = IF s = {} THEN 0 ELSE F[Picked(s)] + h[s \ {Picked(s)}]
  <2>. TAKE s \in SUBSET U
  <2>1. s \in SUBSET S /\ s \ {Picked(s)} \in SUBSET U
    OBVIOUS
  <2>. QED
    BY <2>1 DEF IsSum
<1>. QED
  BY <1>1 DEF IsSum

\* A finite set has its sums.
LEMMA SumExists ==
  ASSUME NEW S, IsFiniteSet(S), NEW F
  PROVE  \E g : IsSum(F, S, g)
<1>. DEFINE Bad == {u \in SUBSET S : \A g : ~ IsSum(F, u, g)}
<1>1. SUFFICES ASSUME Bad # {} PROVE FALSE
  BY <1>1
<1>2. PICK s \in Bad : \A u \in SUBSET s : u # s => u \notin Bad
  <2>1. Bad \subseteq SUBSET S
    OBVIOUS
  <2>. HIDE DEF Bad
  <2>. QED
    BY <1>1, <2>1, MinimalSubset
<1>. DEFINE Of(u) == CHOOSE g : IsSum(F, u, g)
            h     == [u \in SUBSET s |->
                        IF u = {} THEN 0
                        ELSE F[Picked(u)] + Of(u \ {Picked(u)})[u \ {Picked(u)}]]
<1>3. \A u \in SUBSET s : u # s => IsSum(F, u, Of(u))
  BY <1>2
<1>4. ASSUME NEW u \in SUBSET s, u # s PROVE Of(u)[u] = h[u]
  <2>1. IsSum(F, u, Of(u))
    BY <1>3, <1>4
  <2>2. CASE u = {}
    <3>. HIDE DEF Of
    <3>. QED
      BY <2>1, <2>2 DEF IsSum
  <2>3. CASE u # {}
    <3>. DEFINE v == u \ {Picked(u)}
    <3>1. v \in SUBSET u /\ v \in SUBSET s /\ v # s /\ u \in SUBSET u
      BY <1>4
    <3>2. IsSum(F, v, Of(v))
      BY <1>3, <3>1
    <3>3. IsFiniteSet(u)
      BY <1>2, FS_Subset
    <3>. HIDE DEF Of
    <3>4. Of(u)[v] = Of(v)[v]
      <4>. HIDE DEF v
      <4>. QED
        BY <2>1, <3>1, <3>2, <3>3, SumsAgree
    <3>5. Of(u)[u] = F[Picked(u)] + Of(u)[v]
      BY <2>1, <2>3 DEF IsSum
    <3>. QED
      BY <2>3, <3>4, <3>5
  <2>. QED
    BY <2>2, <2>3
<1>5. ASSUME NEW u \in SUBSET s
      PROVE  h[u] = IF u = {} THEN 0 ELSE F[Picked(u)] + h[u \ {Picked(u)}]
  <2>1. CASE u = {}
    BY <2>1
  <2>2. CASE u # {}
    <3>. DEFINE v == u \ {Picked(u)}
    <3>1. v \in SUBSET s /\ v # s
      BY <2>2, PickedIn
    <3>2. Of(v)[v] = h[v]
      BY <1>4, <3>1
    <3>3. h[u] = F[Picked(u)] + Of(v)[v]
      <4>. HIDE DEF Of
      <4>. QED
        BY <2>2
    <3>. HIDE DEF h, Of
    <3>. QED
      BY <2>2, <3>2, <3>3
  <2>. QED
    BY <2>1, <2>2
<1>6. h = [u \in SUBSET s |-> IF u = {} THEN 0 ELSE F[Picked(u)] + h[u \ {Picked(u)}]]
  <2>1. DOMAIN h = SUBSET s /\ h = [u \in DOMAIN h |-> h[u]]
    OBVIOUS
  <2>. HIDE DEF h
  <2>. QED
    BY <1>5, <2>1
<1>7. IsSum(F, s, h)
  <2>. HIDE DEF h
  <2>. QED
    BY <1>6 DEF IsSum
<1>. QED
  BY <1>2, <1>7

\* The sum is that of each function of sums ...
LEMMA SumIs ==
  ASSUME NEW S, IsFiniteSet(S), NEW F, NEW g, IsSum(F, S, g)
  PROVE  SumOf(F, S) = g[S]
<1>. DEFINE h == CHOOSE x : IsSum(F, S, x)
<1>1. IsSum(F, S, h)
  OBVIOUS
<1>. HIDE DEF h
<1>2. h[S] = g[S]
  BY <1>1, SumsAgree
<1>3. SumOf(F, S) = h[S]
  BY DEF SumOf, h
<1>. QED
  BY <1>2, <1>3

\* ... depends on the values over the set only ...
LEMMA SumEqual ==
  ASSUME NEW S, IsFiniteSet(S), NEW F, NEW G, \A x \in S : F[x] = G[x]
  PROVE  SumOf(F, S) = SumOf(G, S)
<1>1. PICK g : IsSum(F, S, g)
  BY SumExists
<1>2. PICK h : IsSum(G, S, h)
  BY SumExists
<1>3. g[S] = h[S]
  BY <1>1, <1>2, SumsAgree
<1>. QED
  BY <1>1, <1>2, <1>3, SumIs

\* ... is 0 for no element, and otherwise that of one element and the others.
LEMMA SumStep ==
  ASSUME NEW S, IsFiniteSet(S), NEW F
  PROVE  /\ S = {} => SumOf(F, S) = 0
         /\ S # {} => SumOf(F, S) = F[Picked(S)] + SumOf(F, S \ {Picked(S)})
<1>1. PICK g : IsSum(F, S, g)
  BY SumExists
<1>2. SumOf(F, S) = g[S]
  BY <1>1, SumIs
<1>3. CASE S = {}
  BY <1>1, <1>2, <1>3 DEF IsSum
<1>4. CASE S # {}
  <2>. DEFINE U == S \ {Picked(S)}
              h == [s \in SUBSET U |-> g[s]]
  <2>1. U \subseteq S /\ IsFiniteSet(U)
    BY FS_Subset
  <2>2. IsSum(F, U, h)
    <3>. HIDE DEF U
    <3>. QED
      BY <1>1, <2>1, SumWithin
  <2>3. SumOf(F, U) = g[U]
    <3>1. h[U] = g[U]
      OBVIOUS
    <3>. HIDE DEF U, h
    <3>. QED
      BY <2>1, <2>2, <3>1, SumIs
  <2>4. g[S] = F[Picked(S)] + g[U]
    BY <1>1, <1>4 DEF IsSum
  <2>. HIDE DEF U
  <2>5. SumOf(F, S) = F[Picked(S)] + SumOf(F, U)
    BY <1>2, <2>3, <2>4
  <2>. QED
    BY <1>4, <2>5 DEF U
<1>. QED
  BY <1>3, <1>4

\* Sums of numbers are numbers, and those of natural ones natural.
LEMMA SumType ==
  ASSUME NEW S, IsFiniteSet(S), NEW F, \A x \in S : F[x] \in Int
  PROVE  /\ SumOf(F, S) \in Int
         /\ (\A x \in S : F[x] \in Nat) => SumOf(F, S) \in Nat
<1>. DEFINE Good(u) == SumOf(F, u) \in Int /\ ((\A x \in S : F[x] \in Nat) => SumOf(F, u) \in Nat)
            Bad     == {u \in SUBSET S : ~ Good(u)}
<1>1. SUFFICES ASSUME Bad # {} PROVE FALSE
  BY <1>1
<1>2. PICK s \in Bad : \A u \in SUBSET s : u # s => u \notin Bad
  <2>1. Bad \subseteq SUBSET S
    OBVIOUS
  <2>. HIDE DEF Bad
  <2>. QED
    BY <1>1, <2>1, MinimalSubset
<1>3. s \subseteq S /\ ~ Good(s) /\ IsFiniteSet(s)
  BY <1>2, FS_Subset
<1>4. CASE s = {}
  <2>1. SumOf(F, s) = 0
    BY <1>3, <1>4, SumStep
  <2>. QED
    BY <1>3, <2>1
<1>5. CASE s # {}
  <2>. DEFINE u == s \ {Picked(s)}
  <2>1. u \in SUBSET s /\ u # s /\ Picked(s) \in S
    BY <1>3, <1>5, PickedIn
  <2>2. Good(u)
    BY <1>2, <1>3, <2>1
  <2>3. SumOf(F, s) = F[Picked(s)] + SumOf(F, u)
    BY <1>3, <1>5, SumStep
  <2>. HIDE DEF u
  <2>. QED
    BY <1>3, <2>1, <2>2, <2>3
<1>. QED
  BY <1>4, <1>5

\* If one of the numbers grows by d, so does the sum.
LEMMA SumChange ==
  ASSUME NEW S, IsFiniteSet(S), NEW x \in S, NEW d \in Int, NEW F, \A y \in S : F[y] \in Int,
         NEW G, \A y \in S : G[y] = IF y = x THEN F[y] + d ELSE F[y]
  PROVE  SumOf(G, S) = SumOf(F, S) + d
<1>. DEFINE Good(u) == SumOf(G, u) = SumOf(F, u) + d
            Bad     == {u \in SUBSET S : x \in u /\ ~ Good(u)}
<1>1. SUFFICES ASSUME Bad # {} PROVE FALSE
  BY <1>1
<1>2. PICK s \in Bad : \A u \in SUBSET s : u # s => u \notin Bad
  <2>1. Bad \subseteq SUBSET S
    OBVIOUS
  <2>. HIDE DEF Bad
  <2>. QED
    BY <1>1, <2>1, MinimalSubset
<1>3. s \subseteq S /\ x \in s /\ ~ Good(s) /\ IsFiniteSet(s)
  BY <1>2, FS_Subset
<1>. DEFINE u == s \ {Picked(s)}
<1>4. u \in SUBSET s /\ u # s /\ Picked(s) \in s /\ IsFiniteSet(u)
  BY <1>3, PickedIn, FS_Subset
<1>5. /\ SumOf(F, s) = F[Picked(s)] + SumOf(F, u)
      /\ SumOf(G, s) = G[Picked(s)] + SumOf(G, u)
  BY <1>3, SumStep
<1>6. F[Picked(s)] \in Int /\ SumOf(F, u) \in Int
  BY <1>3, <1>4, SumType
<1>7. CASE Picked(s) = x
  <2>1. \A y \in u : F[y] = G[y]
    BY <1>3, <1>7
  <2>2. G[Picked(s)] = F[Picked(s)] + d
    BY <1>7
  <2>. HIDE DEF u
  <2>3. SumOf(F, u) = SumOf(G, u)
    BY <1>4, <2>1, SumEqual
  <2>. QED
    BY <1>3, <1>5, <1>6, <2>2, <2>3
<1>8. CASE Picked(s) # x
  <2>1. x \in u /\ G[Picked(s)] = F[Picked(s)]
    BY <1>3, <1>4, <1>8
  <2>2. Good(u)
    BY <1>2, <1>3, <1>4, <2>1
  <2>. HIDE DEF u
  <2>. QED
    BY <1>3, <1>5, <1>6, <2>1, <2>2
<1>. QED
  BY <1>7, <1>8

\* The sum of zeros is 0.
LEMMA SumZero ==
  ASSUME NEW S, IsFiniteSet(S), NEW F, \A x \in S : F[x] = 0
  PROVE  SumOf(F, S) = 0
<1>. DEFINE Bad == {u \in SUBSET S : SumOf(F, u) # 0}
<1>1. SUFFICES ASSUME Bad # {} PROVE FALSE
  BY <1>1
<1>2. PICK s \in Bad : \A u \in SUBSET s : u # s => u \notin Bad
  <2>1. Bad \subseteq SUBSET S
    OBVIOUS
  <2>. HIDE DEF Bad
  <2>. QED
    BY <1>1, <2>1, MinimalSubset
<1>3. s \subseteq S /\ SumOf(F, s) # 0 /\ IsFiniteSet(s)
  BY <1>2, FS_Subset
<1>4. s # {}
  BY <1>3, SumStep
<1>. DEFINE u == s \ {Picked(s)}
<1>5. u \in SUBSET s /\ u # s /\ F[Picked(s)] = 0
  BY <1>3, <1>4, PickedIn
<1>6. SumOf(F, u) = 0
  BY <1>2, <1>3, <1>5
<1>7. SumOf(F, s) = F[Picked(s)] + SumOf(F, u)
  BY <1>3, <1>4, SumStep
<1>. HIDE DEF u
<1>. QED
  BY <1>3, <1>5, <1>6, <1>7

\* A linear combination can be summed term by term.
LEMMA SumLinear ==
  ASSUME NEW S, IsFiniteSet(S), NEW a \in Int, NEW b \in Int,
         NEW F, \A x \in S : F[x] \in Int, NEW G, \A x \in S : G[x] \in Int,
         NEW H, \A x \in S : H[x] = a * F[x] + b * G[x]
  PROVE  SumOf(H, S) = a * SumOf(F, S) + b * SumOf(G, S)
<1>. DEFINE Good(u) == SumOf(H, u) = a * SumOf(F, u) + b * SumOf(G, u)
            Bad     == {u \in SUBSET S : ~ Good(u)}
<1>1. SUFFICES ASSUME Bad # {} PROVE FALSE
  BY <1>1
<1>2. PICK s \in Bad : \A u \in SUBSET s : u # s => u \notin Bad
  <2>1. Bad \subseteq SUBSET S
    OBVIOUS
  <2>. HIDE DEF Bad
  <2>. QED
    BY <1>1, <2>1, MinimalSubset
<1>3. s \subseteq S /\ ~ Good(s) /\ IsFiniteSet(s)
  BY <1>2, FS_Subset
<1>4. s # {}
  <2>1. s = {} => SumOf(F, s) = 0 /\ SumOf(G, s) = 0 /\ SumOf(H, s) = 0
    BY <1>3, SumStep
  <2>. QED
    BY <1>3, <2>1
<1>. DEFINE u == s \ {Picked(s)}
            x == Picked(s)
<1>5. u \in SUBSET s /\ u # s /\ x \in S /\ IsFiniteSet(u) /\ u \subseteq S
  BY <1>3, <1>4, PickedIn, FS_Subset
<1>6. Good(u)
  BY <1>2, <1>3, <1>5
<1>7. /\ SumOf(F, s) = F[x] + SumOf(F, u)
      /\ SumOf(G, s) = G[x] + SumOf(G, u)
      /\ SumOf(H, s) = H[x] + SumOf(H, u)
  BY <1>3, <1>4, SumStep
<1>8. /\ F[x] \in Int /\ G[x] \in Int /\ H[x] = a * F[x] + b * G[x]
  BY <1>5
<1>9. SumOf(F, u) \in Int /\ SumOf(G, u) \in Int
  BY <1>5, SumType
<1>. HIDE DEF u, x
<1>10. SumOf(H, s) = (a * F[x] + b * G[x]) + (a * SumOf(F, u) + b * SumOf(G, u))
  BY <1>6, <1>7, <1>8
<1>11. \A p, q \in Int : a * (p + q) = a * p + a * q /\ b * (p + q) = b * p + b * q
  OBVIOUS
<1>12. /\ a * SumOf(F, s) = a * F[x] + a * SumOf(F, u)
       /\ b * SumOf(G, s) = b * G[x] + b * SumOf(G, u)
  BY <1>7, <1>8, <1>9, <1>11
<1>13. /\ a * F[x] \in Int /\ b * G[x] \in Int
       /\ a * SumOf(F, u) \in Int /\ b * SumOf(G, u) \in Int
  BY <1>8, <1>9
<1>14. SumOf(H, s) = a * SumOf(F, s) + b * SumOf(G, s)
  BY <1>10, <1>12, <1>13
<1>. QED
  BY <1>3, <1>14

\* Any element can be the one that is taken out of a sum.
LEMMA SumAdds ==
  ASSUME NEW S, IsFiniteSet(S), NEW F, \A y \in S : F[y] \in Int, NEW x \in S
  PROVE  SumOf(F, S) = F[x] + SumOf(F, S \ {x})
<1>. DEFINE Good(u, y) == SumOf(F, u) = F[y] + SumOf(F, u \ {y})
            Bad        == {u \in SUBSET S : \E y \in u : ~ Good(u, y)}
<1>1. SUFFICES ASSUME Bad # {} PROVE FALSE
  BY <1>1
<1>2. PICK s \in Bad : \A u \in SUBSET s : u # s => u \notin Bad
  <2>1. Bad \subseteq SUBSET S
    OBVIOUS
  <2>. HIDE DEF Bad
  <2>. QED
    BY <1>1, <2>1, MinimalSubset
<1>3. PICK y \in s : ~ Good(s, y)
  BY <1>2
<1>4. s \subseteq S /\ IsFiniteSet(s) /\ s # {}
  BY <1>2, <1>3, FS_Subset
<1>. DEFINE p == Picked(s)
            u == s \ {p}
            v == s \ {y}
            w == s \ {p, y}
<1>5. p \in s /\ SumOf(F, s) = F[p] + SumOf(F, u)
  BY <1>4, PickedIn, SumStep
<1>6. p # y
  BY <1>3, <1>5
<1>7. /\ u \in SUBSET s /\ u # s /\ y \in u /\ u \ {y} = w
      /\ v \in SUBSET s /\ v # s /\ p \in v /\ v \ {p} = w
  BY <1>5, <1>6
<1>8. SumOf(F, u) = F[y] + SumOf(F, w) /\ SumOf(F, v) = F[p] + SumOf(F, w)
  <2>1. u \in SUBSET S /\ v \in SUBSET S /\ u \notin Bad /\ v \notin Bad
    BY <1>2, <1>4, <1>7
  <2>2. Good(u, y) /\ Good(v, p)
    BY <1>7, <2>1
  <2>. QED
    BY <1>7, <2>2
<1>9. SumOf(F, w) \in Int
  <2>1. IsFiniteSet(w) /\ w \subseteq S
    BY <1>4, FS_Subset
  <2>. QED
    BY <2>1, SumType
<1>10. F[p] \in Int /\ F[y] \in Int
  BY <1>4, <1>5
<1>. HIDE DEF p, u, w
<1>. QED
  BY <1>3, <1>5, <1>8, <1>9, <1>10

\* Elements whose value is 0 can be left out of a sum.
LEMMA SumSubset ==
  ASSUME NEW S, IsFiniteSet(S), NEW T, T \subseteq S,
         NEW F, \A x \in S : F[x] \in Int, \A x \in S \ T : F[x] = 0
  PROVE  SumOf(F, S) = SumOf(F, T)
<1>. DEFINE Good(u) == SumOf(F, u) = SumOf(F, u \cap T)
            Bad     == {u \in SUBSET S : ~ Good(u)}
<1>1. SUFFICES ASSUME Bad # {} PROVE FALSE
  <2>1. Good(S)
    BY <1>1
  <2>2. S \cap T = T
    OBVIOUS
  <2>. QED
    BY <2>1, <2>2
<1>2. PICK s \in Bad : \A u \in SUBSET s : u # s => u \notin Bad
  <2>1. Bad \subseteq SUBSET S
    OBVIOUS
  <2>. HIDE DEF Bad
  <2>. QED
    BY <1>1, <2>1, MinimalSubset
<1>3. s \subseteq S /\ ~ Good(s) /\ IsFiniteSet(s)
  BY <1>2, FS_Subset
<1>4. CASE s \subseteq T
  <2>1. s \cap T = s
    BY <1>4
  <2>. QED
    BY <1>3, <2>1
<1>5. CASE ~ (s \subseteq T)
  <2>1. PICK x \in s : x \notin T
    BY <1>5
  <2>. DEFINE u == s \ {x}
  <2>2. u \in SUBSET s /\ u # s /\ u \cap T = s \cap T /\ IsFiniteSet(u) /\ u \subseteq S
    BY <1>3, <2>1, FS_Subset
  <2>3. SumOf(F, u) = SumOf(F, s \cap T)
    BY <1>2, <1>3, <2>2
  <2>4. SumOf(F, s) = F[x] + SumOf(F, u)
    BY <1>3, <2>1, SumAdds
  <2>5. F[x] = 0 /\ SumOf(F, u) \in Int
    BY <1>3, <2>1, <2>2, SumType
  <2>. QED
    BY <1>3, <2>3, <2>4, <2>5
<1>. QED
  BY <1>4, <1>5

\* The sum of one value is that value, as often as there are elements.
LEMMA SumConstant ==
  ASSUME NEW S, IsFiniteSet(S), NEW c \in Int, NEW F, \A x \in S : F[x] = c
  PROVE  SumOf(F, S) = Cardinality(S) * c
<1>. DEFINE Good(u) == SumOf(F, u) = Cardinality(u) * c
            Bad     == {u \in SUBSET S : ~ Good(u)}
<1>1. SUFFICES ASSUME Bad # {} PROVE FALSE
  BY <1>1
<1>2. PICK s \in Bad : \A u \in SUBSET s : u # s => u \notin Bad
  <2>1. Bad \subseteq SUBSET S
    OBVIOUS
  <2>. HIDE DEF Bad
  <2>. QED
    BY <1>1, <2>1, MinimalSubset
<1>3. s \subseteq S /\ ~ Good(s) /\ IsFiniteSet(s)
  BY <1>2, FS_Subset
<1>4. s # {}
  <2>1. SumOf(F, {}) = 0 /\ Cardinality({}) = 0
    BY FS_EmptySet, SumStep
  <2>2. 0 * c = 0
    OBVIOUS
  <2>. QED
    BY <1>3, <2>1, <2>2
<1>5. PICK x, u : x = Picked(s) /\ u = s \ {x}
  OBVIOUS
<1>6. x \in s /\ u \in SUBSET s /\ u # s /\ u \subseteq S /\ IsFiniteSet(u) /\ F[x] = c
  BY <1>3, <1>4, <1>5, PickedIn, FS_Subset
<1>7. SumOf(F, u) = Cardinality(u) * c
  BY <1>2, <1>6
<1>8. SumOf(F, s) = c + SumOf(F, u)
  BY <1>3, <1>4, <1>5, <1>6, SumStep
<1>9. PICK n \in Nat : n = Cardinality(u) /\ Cardinality(s) = n + 1
  <2>1. Cardinality(u) \in Nat /\ Cardinality(s) \in Nat /\ Cardinality(u) = Cardinality(s) - 1
    BY <1>3, <1>5, <1>6, FS_RemoveElement, FS_CardinalityType
  <2>. QED
    BY <2>1
<1>10. (n + 1) * c = c + n * c
  OBVIOUS
<1>. QED
  BY <1>3, <1>7, <1>8, <1>9, <1>10

\* A sum of naturals is no less than that over some of the elements.
LEMMA SumOfSome ==
  ASSUME NEW S, IsFiniteSet(S), NEW T, T \subseteq S, NEW F, \A x \in S : F[x] \in Nat
  PROVE  SumOf(F, T) \in Nat /\ SumOf(F, S) \in Nat /\ SumOf(F, T) <= SumOf(F, S)
<1>1. PICK G : G = [x \in S |-> IF x \in T THEN F[x] ELSE 0]
  OBVIOUS
<1>2. PICK H : H = [x \in S |-> IF x \in T THEN 0 ELSE F[x]]
  OBVIOUS
<1>3. \A x \in S : /\ G[x] \in Int /\ H[x] \in Nat /\ H[x] \in Int /\ F[x] \in Int
                   /\ F[x] = 1 * G[x] + 1 * H[x]
  BY <1>1, <1>2
<1>4. SumOf(F, S) = 1 * SumOf(G, S) + 1 * SumOf(H, S)
  <2>1. 1 \in Int
    OBVIOUS
  <2>. QED
    BY <1>3, <2>1, SumLinear
<1>5. IsFiniteSet(T)
  BY FS_Subset
<1>6. SumOf(G, S) = SumOf(F, T)
  <2>1. \A x \in S \ T : G[x] = 0
    BY <1>1
  <2>2. SumOf(G, S) = SumOf(G, T)
    BY <1>3, <2>1, SumSubset
  <2>3. \A x \in T : G[x] = F[x]
    BY <1>1
  <2>4. SumOf(G, T) = SumOf(F, T)
    BY <1>5, <2>3, SumEqual
  <2>. QED
    BY <2>2, <2>4
<1>7. SumOf(H, S) \in Nat
  BY <1>3, SumType
<1>8. SumOf(F, T) \in Nat
  <2>1. \A x \in T : F[x] \in Int /\ F[x] \in Nat
    OBVIOUS
  <2>. QED
    BY <1>5, <2>1, SumType
<1>9. SumOf(F, S) \in Nat
  BY <1>3, SumType
<1>10. PICK a \in Nat, b \in Nat : a = SumOf(F, T) /\ b = SumOf(H, S)
  BY <1>7, <1>8
<1>. QED
  BY <1>4, <1>6, <1>8, <1>9, <1>10

\* How often f takes a value of the set V on X, for every line.
CountIn(L, X, f, V) == [l \in L |-> Cardinality({x \in X : f[l][x] \in V})]

\* The counts of the values one by one, over all lines.
CountsEach(L, X, f, V, G) == \A g \in V : G[g] = SumOf(CountIn(L, X, f, {g}), L)

\* Counting the values one by one, and over the lines for each, is counting
\* those in the set, line by line.
LEMMA SumOfCounts ==
  ASSUME NEW L, IsFiniteSet(L), NEW X, IsFiniteSet(X), NEW f, NEW V, IsFiniteSet(V),
         NEW G, CountsEach(L, X, f, V, G)
  PROVE  SumOf(G, V) = SumOf(CountIn(L, X, f, V), L)
<1>. DEFINE Good(u) == SumOf(G, u) = SumOf(CountIn(L, X, f, u), L)
            Bad     == {u \in SUBSET V : ~ Good(u)}
<1>1. SUFFICES ASSUME Bad # {} PROVE FALSE
  BY <1>1
<1>2. PICK s \in Bad : \A u \in SUBSET s : u # s => u \notin Bad
  <2>1. Bad \subseteq SUBSET V
    OBVIOUS
  <2>. HIDE DEF Bad
  <2>. QED
    BY <1>1, <2>1, MinimalSubset
<1>3. s \subseteq V /\ ~ Good(s) /\ IsFiniteSet(s)
  BY <1>2, FS_Subset
<1>4. ASSUME NEW v, NEW g \in v, NEW l \in L
      PROVE  CountIn(L, X, f, v)[l] = CountIn(L, X, f, {g})[l] + CountIn(L, X, f, v \ {g})[l]
  <2>1. PICK A : A = {x \in X : f[l][x] \in {g}}
    OBVIOUS
  <2>2. PICK B : B = {x \in X : f[l][x] \in v \ {g}}
    OBVIOUS
  <2>3. A \cup B = {x \in X : f[l][x] \in v}
    BY <2>1, <2>2
  <2>4. A \cap B = {}
    BY <2>1, <2>2
  <2>5. /\ IsFiniteSet(A) /\ Cardinality(A) \in Nat
        /\ IsFiniteSet(B) /\ Cardinality(B) \in Nat
    <3>1. A \subseteq X /\ B \subseteq X
      BY <2>1, <2>2
    <3>. QED
      BY <3>1, FS_Subset, FS_CardinalityType
  <2>6. Cardinality(A \cup B) = Cardinality(A) + Cardinality(B)
    <3>1. Cardinality(A \cap B) = 0
      BY <2>4, FS_EmptySet
    <3>2. Cardinality(A \cup B) = Cardinality(A) + Cardinality(B) - Cardinality(A \cap B)
      BY <2>5, FS_Union
    <3>. QED
      BY <2>5, <3>1, <3>2
  <2>7. /\ CountIn(L, X, f, v)[l] = Cardinality(A \cup B)
        /\ CountIn(L, X, f, {g})[l] = Cardinality(A)
        /\ CountIn(L, X, f, v \ {g})[l] = Cardinality(B)
    BY <2>1, <2>2, <2>3 DEF CountIn
  <2>. QED
    BY <2>5, <2>6, <2>7
<1>5. CASE s = {}
  <2>1. SumOf(G, s) = 0
    BY <1>3, <1>5, SumStep
  <2>2. PICK F : F = CountIn(L, X, f, s)
    OBVIOUS
  <2>3. \A l \in L : F[l] = 0
    <3>. TAKE l \in L
    <3>1. {x \in X : f[l][x] \in s} = {}
      BY <1>5
    <3>. QED
      BY <2>2, <3>1, FS_EmptySet DEF CountIn
  <2>4. SumOf(F, L) = 0
    BY <2>3, SumZero
  <2>. QED
    BY <1>3, <2>1, <2>2, <2>4
<1>6. CASE s # {}
  <2>1. PICK g \in s : TRUE
    BY <1>6
  <2>2. PICK u : u = s \ {g}
    OBVIOUS
  <2>3. Good(u)
    BY <1>2, <1>3, <2>1, <2>2
  <2>4. PICK A, B, C : /\ A = CountIn(L, X, f, {g}) /\ B = CountIn(L, X, f, u)
                       /\ C = CountIn(L, X, f, s)
    OBVIOUS
  <2>5. \A l \in L : A[l] \in Int /\ B[l] \in Int /\ C[l] = 1 * A[l] + 1 * B[l]
    <3>. TAKE l \in L
    <3>1. C[l] = A[l] + B[l]
      BY <1>4, <2>1, <2>2, <2>4
    <3>2. \A v : Cardinality({x \in X : f[l][x] \in v}) \in Nat
      <4>. TAKE v
      <4>1. {x \in X : f[l][x] \in v} \subseteq X
        OBVIOUS
      <4>. QED
        BY <4>1, FS_Subset, FS_CardinalityType
    <3>3. A[l] \in Nat /\ B[l] \in Nat
      BY <2>4, <3>2 DEF CountIn
    <3>. QED
      BY <3>1, <3>3
  <2>6. SumOf(C, L) = 1 * SumOf(A, L) + 1 * SumOf(B, L)
    <3>1. 1 \in Int
      OBVIOUS
    <3>. QED
      BY <2>5, <3>1, SumLinear
  <2>7. SumOf(A, L) \in Int /\ SumOf(B, L) \in Int
    BY <2>5, SumType
  <2>8. SumOf(G, s) = G[g] + SumOf(G, u)
    <3>1. \A h \in s : G[h] \in Int
      <4>. TAKE h \in s
      <4>1. PICK D : D = CountIn(L, X, f, {h})
        OBVIOUS
      <4>2. \A l \in L : D[l] \in Int
        <5>. TAKE l \in L
        <5>1. {x \in X : f[l][x] \in {h}} \subseteq X
          OBVIOUS
        <5>2. Cardinality({x \in X : f[l][x] \in {h}}) \in Nat
          BY <5>1, FS_Subset, FS_CardinalityType
        <5>. QED
          BY <4>1, <5>2 DEF CountIn
      <4>3. SumOf(D, L) \in Int
        BY <4>2, SumType
      <4>. QED
        BY <1>3, <4>1, <4>3 DEF CountsEach
    <3>. QED
      BY <1>3, <2>1, <2>2, <3>1, SumAdds
  <2>9. G[g] = SumOf(A, L)
    BY <1>3, <2>1, <2>4 DEF CountsEach
  <2>10. SumOf(G, s) = SumOf(C, L)
    BY <2>3, <2>4, <2>6, <2>7, <2>8, <2>9
  <2>. QED
    BY <1>3, <2>4, <2>10
<1>. QED
  BY <1>5, <1>6

\* A sum can be taken over two disjoint sets one after the other.
LEMMA SumDisjoint ==
  ASSUME NEW A, IsFiniteSet(A), NEW B, IsFiniteSet(B), A \cap B = {},
         NEW F, \A x \in A \cup B : F[x] \in Int
  PROVE  SumOf(F, A \cup B) = SumOf(F, A) + SumOf(F, B)
<1>. DEFINE S == A \cup B
<1>0. IsFiniteSet(S) /\ A \subseteq S /\ B \subseteq S
  BY FS_Union
<1>1. PICK G : G = [x \in S |-> IF x \in A THEN F[x] ELSE 0]
  OBVIOUS
<1>2. PICK H : H = [x \in S |-> IF x \in A THEN 0 ELSE F[x]]
  OBVIOUS
<1>3. \A x \in S : /\ G[x] \in Int /\ H[x] \in Int
                   /\ F[x] = 1 * G[x] + 1 * H[x]
  BY <1>1, <1>2
<1>4. SumOf(F, S) = 1 * SumOf(G, S) + 1 * SumOf(H, S)
  <2>1. 1 \in Int
    OBVIOUS
  <2>. HIDE DEF S
  <2>. QED
    BY <1>0, <1>3, <2>1, SumLinear
<1>5. SumOf(G, S) = SumOf(F, A)
  <2>1. (\A x \in S \ A : G[x] = 0) /\ (\A x \in A : G[x] = F[x])
    BY <1>1
  <2>. HIDE DEF S
  <2>2. SumOf(G, S) = SumOf(G, A)
    BY <1>0, <1>3, <2>1, SumSubset
  <2>3. SumOf(G, A) = SumOf(F, A)
    BY <2>1, SumEqual
  <2>. QED
    BY <2>2, <2>3
<1>6. SumOf(H, S) = SumOf(F, B)
  <2>1. (\A x \in S \ B : H[x] = 0) /\ (\A x \in B : H[x] = F[x])
    BY <1>2
  <2>. HIDE DEF S
  <2>2. SumOf(H, S) = SumOf(H, B)
    BY <1>0, <1>3, <2>1, SumSubset
  <2>3. SumOf(H, B) = SumOf(F, B)
    BY <2>1, SumEqual
  <2>. QED
    BY <2>2, <2>3
<1>7. SumOf(F, A) \in Int /\ SumOf(F, B) \in Int
  BY SumType
<1>. QED
  BY <1>4, <1>5, <1>6, <1>7

\* The sum over one element is its value.
LEMMA SumSingle ==
  ASSUME NEW x, NEW F, F[x] \in Int
  PROVE  SumOf(F, {x}) = F[x]
<1>1. IsFiniteSet({x}) /\ IsFiniteSet({}) /\ {x} \ {x} = {} /\ x \in {x}
  BY FS_Singleton, FS_EmptySet
<1>2. SumOf(F, {}) = 0
  BY <1>1, SumStep
<1>3. SumOf(F, {x}) = F[x] + SumOf(F, {x} \ {x})
  <2>1. \A y \in {x} : F[y] \in Int
    OBVIOUS
  <2>. QED
    BY <1>1, <2>1, SumAdds
<1>. QED
  BY <1>1, <1>2, <1>3

\* P has disjoint finite sets, and G the sums over them.
AreParts(I, P, F, G) ==
  /\ IsFiniteSet(I)
  /\ \A i \in I : IsFiniteSet(P[i]) /\ G[i] = SumOf(F, P[i]) /\ \A x \in P[i] : F[x] \in Int
  /\ \A i, j \in I : i # j => P[i] \cap P[j] = {}

AllParts(I, P) == UNION {P[i] : i \in I}

\* A sum can be taken part by part.
LEMMA SumByParts ==
  ASSUME NEW I, NEW P, NEW F, NEW G, AreParts(I, P, F, G)
  PROVE  IsFiniteSet(AllParts(I, P)) /\ SumOf(G, I) = SumOf(F, AllParts(I, P))
<1>. DEFINE Good(u) == /\ IsFiniteSet(AllParts(u, P))
                       /\ SumOf(G, u) = SumOf(F, AllParts(u, P))
            Bad     == {u \in SUBSET I : ~ Good(u)}
<1>0. /\ IsFiniteSet(I)
      /\ \A i \in I : IsFiniteSet(P[i]) /\ G[i] = SumOf(F, P[i]) /\ \A x \in P[i] : F[x] \in Int
      /\ \A i, j \in I : i # j => P[i] \cap P[j] = {}
  BY DEF AreParts
<1>1. SUFFICES ASSUME Bad # {} PROVE FALSE
  BY <1>1
<1>2. PICK s \in Bad : \A u \in SUBSET s : u # s => u \notin Bad
  <2>1. Bad \subseteq SUBSET I
    OBVIOUS
  <2>. HIDE DEF Bad
  <2>. QED
    BY <1>0, <1>1, <2>1, MinimalSubset
<1>3. s \subseteq I /\ ~ Good(s) /\ IsFiniteSet(s)
  BY <1>0, <1>2, FS_Subset
<1>4. CASE s = {}
  <2>1. AllParts(s, P) = {}
    BY <1>4 DEF AllParts
  <2>2. IsFiniteSet({}) /\ SumOf(G, {}) = 0 /\ SumOf(F, {}) = 0
    BY FS_EmptySet, SumStep
  <2>. QED
    BY <1>3, <1>4, <2>1, <2>2
<1>5. CASE s # {}
  <2>1. PICK i \in s : TRUE
    BY <1>5
  <2>2. PICK u : u = s \ {i}
    OBVIOUS
  <2>3. u \in SUBSET s /\ u # s /\ u \subseteq I /\ i \in I
    BY <1>3, <2>1, <2>2
  <2>4. Good(u)
    BY <1>2, <1>3, <2>3
  <2>5. PICK A, B : A = P[i] /\ B = AllParts(u, P)
    OBVIOUS
  <2>6. AllParts(s, P) = A \cup B
    BY <2>1, <2>2, <2>5 DEF AllParts
  <2>7. A \cap B = {}
    BY <1>0, <2>2, <2>3, <2>5 DEF AllParts
  <2>8. IsFiniteSet(A) /\ IsFiniteSet(B) /\ IsFiniteSet(A \cup B)
    BY <1>0, <2>3, <2>4, <2>5, FS_Union
  <2>9. \A x \in A \cup B : F[x] \in Int
    BY <1>0, <2>3, <2>5 DEF AllParts
  <2>10. SumOf(F, A \cup B) = SumOf(F, A) + SumOf(F, B)
    BY <2>7, <2>8, <2>9, SumDisjoint
  <2>11. SumOf(G, s) = G[i] + SumOf(G, u)
    <3>1. \A j \in s : G[j] \in Int
      <4>. TAKE j \in s
      <4>1. IsFiniteSet(P[j]) /\ (\A x \in P[j] : F[x] \in Int) /\ G[j] = SumOf(F, P[j])
        BY <1>0, <1>3
      <4>2. SumOf(F, P[j]) \in Int
        BY <4>1, SumType
      <4>. QED
        BY <4>1, <4>2
    <3>. QED
      BY <1>3, <2>1, <2>2, <3>1, SumAdds
  <2>12. G[i] = SumOf(F, A) /\ SumOf(G, u) = SumOf(F, B)
    BY <1>0, <2>3, <2>4, <2>5
  <2>. QED
    BY <1>3, <2>6, <2>8, <2>10, <2>11, <2>12
<1>. QED
  BY <1>4, <1>5

-----------------------------------------------------------------------------
(***************************************************************************)
(* Powers of two, which the provers know nothing of, as numbers of         *)
(* subsets.                                                                *)
(***************************************************************************)
\* Each power is twice the one before.
LEMMA PowerOfTwo ==
  ASSUME NEW n \in Nat
  PROVE  2 ^ n \in Nat \ {0} /\ 2 ^ (n + 1) = 2 * 2 ^ n
<1>. DEFINE A == SUBSET (1 .. n)
            f == [s \in A |-> s \cup {n + 1}]
            B == {f[s] : s \in A}
<1>1. ASSUME NEW m \in Nat
      PROVE  /\ IsFiniteSet(SUBSET (1 .. m)) /\ Cardinality(SUBSET (1 .. m)) = 2 ^ m
             /\ 2 ^ m \in Nat
  <2>1. IsFiniteSet(1 .. m) /\ Cardinality(1 .. m) = m
    BY FS_Interval
  <2>2. IsFiniteSet(SUBSET (1 .. m)) /\ Cardinality(SUBSET (1 .. m)) = 2 ^ m
    BY <2>1, FS_SUBSET
  <2>. QED
    BY <2>2, FS_CardinalityType
<1>2. f \in Bijection(A, B)
  <2>1. \A s, u \in A : f[s] = f[u] => s = u
    <3>. SUFFICES ASSUME NEW s \in A, NEW u \in A, s \cup {n + 1} = u \cup {n + 1} PROVE s = u
      OBVIOUS
    <3>1. n + 1 \notin s /\ n + 1 \notin u
      OBVIOUS
    <3>. QED
      BY <3>1
  <2>2. f \in [A -> B] /\ DOMAIN f = A /\ \A b \in B : \E s \in A : f[s] = b
    OBVIOUS
  <2>. HIDE DEF f, A, B
  <2>. QED
    BY <2>1, <2>2 DEF Bijection, Injection, Surjection, IsInjective
<1>3. IsFiniteSet(B) /\ Cardinality(B) = 2 ^ n /\ IsFiniteSet(A) /\ Cardinality(A) = 2 ^ n
  <2>1. ExistsBijection(A, B)
    BY <1>2 DEF ExistsBijection
  <2>. HIDE DEF B
  <2>. QED
    BY <1>1, <2>1, FS_Bijection
<1>4. A \cap B = {} /\ A \cup B = SUBSET (1 .. n + 1)
  <2>1. \A s \in B : n + 1 \in s
    OBVIOUS
  <2>2. \A s \in A : n + 1 \notin s
    OBVIOUS
  <2>3. ASSUME NEW s \in SUBSET (1 .. n + 1) PROVE s \in A \cup B
    <3>1. CASE n + 1 \in s
      <4>1. s \ {n + 1} \in A /\ f[s \ {n + 1}] = s
        BY <3>1
      <4>. QED
        BY <4>1
    <3>2. CASE n + 1 \notin s
      <4>1. \A i \in 1 .. n + 1 : i \in 1 .. n \/ i = n + 1
        OBVIOUS
      <4>2. s \in SUBSET (1 .. n)
        BY <3>2, <4>1
      <4>. QED
        BY <4>2
    <3>. QED
      BY <3>1, <3>2
  <2>4. \A s \in A : s \in SUBSET (1 .. n + 1) /\ f[s] \in SUBSET (1 .. n + 1)
    OBVIOUS
  <2>5. \A s \in B : s \in SUBSET (1 .. n + 1)
    BY <2>4
  <2>. HIDE DEF A, B
  <2>. QED
    BY <2>1, <2>2, <2>3, <2>4, <2>5
<1>5. Cardinality(A \cup B) = Cardinality(A) + Cardinality(B) - Cardinality(A \cap B)
  <2>. HIDE DEF A, B
  <2>. QED
    BY <1>3, FS_Union
<1>6. 2 ^ (n + 1) = 2 ^ n + 2 ^ n
  <2>1. Cardinality(A \cup B) = 2 ^ (n + 1)
    <3>1. n + 1 \in Nat
      OBVIOUS
    <3>. QED
      BY <1>1, <1>4, <3>1
  <2>2. Cardinality(A \cap B) = 0 /\ 2 ^ n \in Nat
    BY <1>1, <1>4, FS_EmptySet
  <2>. HIDE DEF A, B
  <2>3. 2 ^ (n + 1) = 2 ^ n + 2 ^ n - 0
    BY <1>3, <1>5, <2>1, <2>2
  <2>. QED
    BY <2>2, <2>3
<1>7. 2 ^ n # 0
  <2>1. {} \in A
    OBVIOUS
  <2>. HIDE DEF A
  <2>. QED
    BY <1>3, <2>1, FS_EmptySet
<1>8. 2 ^ n \in Nat
  BY <1>1
<1>. HIDE DEF A, B, f
<1>. QED
  BY <1>6, <1>7, <1>8

\* The powers of a sum are products.
LEMMA PowerOfSum ==
  ASSUME NEW m \in Nat, NEW d \in Nat
  PROVE  2 ^ (m + d) = 2 ^ m * 2 ^ d
<1>. DEFINE Bad == {e \in Nat : 2 ^ (m + e) # 2 ^ m * 2 ^ e}
<1>1. SUFFICES ASSUME Bad # {} PROVE FALSE
  BY <1>1
<1>2. PICK e \in Bad : \A i \in Bad : e <= i
  <2>1. Bad \subseteq Nat
    OBVIOUS
  <2>. HIDE DEF Bad
  <2>. QED
    BY <1>1, <2>1, LeastElement
<1>3. CASE e = 0
  <2>1. 2 ^ 0 = 1
    OBVIOUS
  <2>2. 2 ^ m \in Nat
    BY PowerOfTwo
  <2>. QED
    BY <1>2, <1>3, <2>1, <2>2
<1>4. CASE e # 0
  <2>. DEFINE i == e - 1
  <2>1. i \in Nat /\ i + 1 = e /\ (m + i) + 1 = m + e /\ m + i \in Nat
    BY <1>2, <1>4
  <2>2. 2 ^ (m + i) = 2 ^ m * 2 ^ i
    BY <1>2, <2>1
  <2>. HIDE DEF i
  <2>3. 2 ^ (m + e) = 2 * 2 ^ (m + i) /\ 2 ^ e = 2 * 2 ^ i
    BY <2>1, PowerOfTwo
  <2>4. 2 ^ m \in Nat /\ 2 ^ i \in Nat
    BY <2>1, PowerOfTwo
  <2>5. \A p, q \in Nat : p * (2 * q) = 2 * (p * q)
    OBVIOUS
  <2>6. 2 ^ (m + e) = 2 ^ m * 2 ^ e
    BY <2>2, <2>3, <2>4, <2>5
  <2>. QED
    BY <1>2, <2>6
<1>. QED
  BY <1>3, <1>4

\* A greater exponent gives a power at least as great, and no power is 0.
LEMMA PowerGrows ==
  ASSUME NEW m \in Nat, NEW n \in Nat, m <= n
  PROVE  2 ^ m <= 2 ^ n /\ 2 ^ n = 2 ^ m * 2 ^ (n - m)
<1>1. n - m \in Nat /\ m + (n - m) = n
  OBVIOUS
<1>2. 2 ^ n = 2 ^ m * 2 ^ (n - m)
  BY <1>1, PowerOfSum
<1>3. 2 ^ m \in Nat \ {0} /\ 2 ^ (n - m) \in Nat \ {0}
  BY <1>1, PowerOfTwo
<1>4. \A p, q \in Nat \ {0} : p <= p * q
  OBVIOUS
<1>. QED
  BY <1>2, <1>3, <1>4

\* A number is less than its power.
LEMMA PowerAbove ==
  ASSUME NEW n \in Nat
  PROVE  n < 2 ^ n
<1>. DEFINE Bad == {e \in Nat : ~ (e < 2 ^ e)}
<1>1. SUFFICES ASSUME Bad # {} PROVE FALSE
  BY <1>1
<1>2. PICK e \in Bad : \A i \in Bad : e <= i
  <2>1. Bad \subseteq Nat
    OBVIOUS
  <2>. HIDE DEF Bad
  <2>. QED
    BY <1>1, <2>1, LeastElement
<1>3. 2 ^ 0 = 1
  OBVIOUS
<1>4. ASSUME e = 0 PROVE FALSE
  <2>1. 2 ^ e = 1 /\ ~ (e < 2 ^ e)
    BY <1>2, <1>3, <1>4
  <2>. QED
    BY <1>4, <2>1
<1>. DEFINE i == e - 1
<1>5. i \in Nat /\ i + 1 = e /\ i < 2 ^ i
  BY <1>2, <1>4
<1>. HIDE DEF i
<1>6. 2 ^ e = 2 * 2 ^ i /\ 2 ^ i \in Nat
  BY <1>5, PowerOfTwo
<1>. QED
  BY <1>2, <1>5, <1>6

-----------------------------------------------------------------------------
(***************************************************************************)
(* Loops of a bounded number of turns.                                     *)
(***************************************************************************)
\* What holds before the first turn, and after each turn if it held before
\* it, holds after all turns.
LEMMA AllTurns ==
  ASSUME NEW n \in Nat, NEW Good, 0 \in Good, \A i \in 1 .. n : i - 1 \in Good => i \in Good
  PROVE  \A i \in 0 .. n : i \in Good
<1>. DEFINE Bad == {i \in 0 .. n : i \notin Good}
<1>1. SUFFICES ASSUME Bad # {} PROVE FALSE
  BY <1>1
<1>2. PICK i \in Bad : \A j \in Bad : i <= j
  <2>1. Bad \subseteq Nat
    OBVIOUS
  <2>. HIDE DEF Bad
  <2>. QED
    BY <1>1, <2>1, LeastElement
<1>3. i \in 1 .. n /\ i \notin Good
  BY <1>2
<1>4. i - 1 \in 0 .. n /\ ~ (i <= i - 1)
  BY <1>3
<1>5. i - 1 \in Good
  BY <1>2, <1>4
<1>. QED
  BY <1>3, <1>5

\* A loop whose turns F keep its state in S has a state after each turn.
IsLoop(n, S, x, F) ==
  n \in Nat /\ x \in S /\ \A i \in 1 .. n : \A y \in S : F[<<i, y>>] \in S

Runs(n, S, x, F, h) ==
  h \in [0 .. n -> S] /\ h[0] = x /\ \A i \in 1 .. n : h[i] = F[<<i, h[i - 1]>>]

\* A loop of n turns has a value after each turn.
LEMMA TurnsExist ==
  ASSUME NEW n, NEW S, NEW x, NEW F, IsLoop(n, S, x, F)
  PROVE  \E h : Runs(n, S, x, F, h)
<1>. n \in Nat /\ x \in S /\ \A i \in 1 .. n : \A y \in S : F[<<i, y>>] \in S
  BY DEF IsLoop
<1>. DEFINE Upto(m, h) == h[0] = x /\ \A i \in 1 .. m : h[i] = F[<<i, h[i - 1]>>]
            Good == {m \in 0 .. n : \E h \in [0 .. m -> S] : Upto(m, h)}
<1>1. 0 \in Good
  <2>1. PICK h : h = [i \in 0 .. 0 |-> x]
    OBVIOUS
  <2>2. h \in [0 .. 0 -> S] /\ h[0] = x
    BY <2>1
  <2>3. Upto(0, h)
    BY <2>2
  <2>. QED
    BY <2>2, <2>3
<1>2. ASSUME NEW m \in 1 .. n, m - 1 \in Good PROVE m \in Good
  <2>1. PICK h \in [0 .. m - 1 -> S] : Upto(m - 1, h)
    BY <1>2
  <2>2. m - 1 \in 0 .. m - 1 /\ F[<<m, h[m - 1]>>] \in S
    BY <2>1
  <2>3. PICK g : g = [i \in 0 .. m |-> IF i = m THEN F[<<m, h[m - 1]>>] ELSE h[i]]
    OBVIOUS
  <2>4. g \in [0 .. m -> S] /\ g[0] = x
    BY <2>1, <2>2, <2>3
  <2>5. ASSUME NEW i \in 1 .. m PROVE g[i] = F[<<i, g[i - 1]>>]
    <3>1. i - 1 \in 0 .. m /\ i - 1 # m /\ g[i - 1] = h[i - 1] /\ i \in 0 .. m
      BY <2>3
    <3>2. CASE i = m
      BY <2>3, <3>1, <3>2
    <3>3. CASE i # m
      <4>1. i \in 1 .. m - 1
        BY <3>3
      <4>. QED
        BY <2>1, <2>3, <3>1, <3>3, <4>1
    <3>. QED
      BY <3>2, <3>3
  <2>. QED
    BY <2>4, <2>5
<1>3. n \in Good
  <2>1. n \in 0 .. n
    OBVIOUS
  <2>. HIDE DEF Good
  <2>. QED
    BY <1>1, <1>2, <2>1, AllTurns
<1>. QED
  BY <1>3 DEF Runs
=============================================================================
