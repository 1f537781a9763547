------------------------- MODULE ScoringLedgerProofs -------------------------
(***************************************************************************)
(* The balances of flag submission: the totals the service keeps by        *)
(* increments are, at any moment, what the rows of solves add up to, for   *)
(* any number of teams, challenges and concurrent requests.                *)
(*                                                                         *)
(* SumFunction is a fold over a finite set.  Its recursion is opened once, *)
(* in SumPick, and the sums are then handled by three facts: what one more *)
(* element adds, what one changed value adds, and that equal values give   *)
(* equal sums.  The inductions they need are over the subsets of a finite  *)
(* set, by a smallest counterexample.                                      *)
(***************************************************************************)
EXTENDS ScoringRejoins, ScoringRefinementProofs, WellFoundedInduction

(* A family of subsets of a finite set has a minimal member. *)
LEMMA MinimalSubset ==
  ASSUME NEW S, IsFiniteSet(S), NEW U, U \subseteq SUBSET S, U # {}
  PROVE  \E M \in U : \A N \in U : N \subseteq M => N = M
<1>1. IsWellFoundedOn(StrictSubsetOrdering(S), SUBSET S)
  BY FS_StrictSubsetOrderingWellFounded, FS_FiniteSubsetsOfFinite
<1>2. \E M \in U : \A N \in U : ~ (<<N, M>> \in StrictSubsetOrdering(S))
  BY <1>1, WFMin, Zenon
<1>3. \A M, N \in SUBSET S :
        <<N, M>> \in StrictSubsetOrdering(S) <=> N \subseteq M /\ N # M
  BY DEF StrictSubsetOrdering
<1> QED
  BY <1>2, <1>3

(* The element a fold takes first, and the equation its iteration solves.  *)
Pick(s) == CHOOSE x \in s : TRUE

Iterates(h, f, S) ==
  h = [s \in SUBSET S |-> IF s = {} THEN 0 ELSE f[Pick(s)] + h[s \ {Pick(s)}]]

LEMMA SumIsIterate ==
  ASSUME NEW f, NEW S
  PROVE  SumFunctionOnSet(f, S) = (CHOOSE h : Iterates(h, f, S))[S]
BY DEF SumFunctionOnSet, FoldFunctionOnSet, MapThenFoldSet, Iterates, Pick

LEMMA IteratesAt ==
  ASSUME NEW h, NEW f, NEW S, Iterates(h, f, S), NEW s \in SUBSET S
  PROVE  /\ s = {} => h[s] = 0
         /\ s # {} => Pick(s) \in s /\ h[s] = f[Pick(s)] + h[s \ {Pick(s)}]
<1>1. h[s] = IF s = {} THEN 0 ELSE f[Pick(s)] + h[s \ {Pick(s)}]
  BY Zenon DEF Iterates
<1>2. s # {} => Pick(s) \in s
  BY DEF Pick
<1> QED
  BY <1>1, <1>2

(* Two solutions agree where both are defined. *)
LEMMA IteratesAgree ==
  ASSUME NEW f, NEW S, IsFiniteSet(S), NEW T, S \subseteq T,
         NEW h, Iterates(h, f, S), NEW k, Iterates(k, f, T)
  PROVE  \A s \in SUBSET S : h[s] = k[s]
<1> DEFINE U == {s \in SUBSET S : h[s] # k[s]}
<1> SUFFICES ASSUME U # {} PROVE FALSE
  OBVIOUS
<1>1. PICK s \in U : \A N \in U : N \subseteq s => N = s
  <2> HIDE DEF U
  <2>1. U \subseteq SUBSET S
    BY DEF U
  <2> QED
    BY <2>1, MinimalSubset
<1>2. s \in SUBSET S /\ s \in SUBSET T /\ h[s] # k[s]
  BY <1>1
<1>3. s # {} /\ Pick(s) \in s
  BY <1>2, IteratesAt
<1>4. h[s \ {Pick(s)}] = k[s \ {Pick(s)}]
  BY <1>1, <1>2, <1>3
<1> QED
  BY <1>2, <1>3, <1>4, IteratesAt

LEMMA IterateExists ==
  ASSUME NEW f, NEW S, IsFiniteSet(S)
  PROVE  \E h : Iterates(h, f, S)
<1> DEFINE U == {T \in SUBSET S : ~ \E h : Iterates(h, f, T)}
<1> SUFFICES ASSUME U # {} PROVE FALSE
  <2>1. S \in SUBSET S
    OBVIOUS
  <2> QED
    BY <2>1
<1>1. PICK T \in U : \A N \in U : N \subseteq T => N = T
  <2> HIDE DEF U
  <2>1. U \subseteq SUBSET S
    BY DEF U
  <2> QED
    BY <2>1, MinimalSubset
<1>2. T \in SUBSET S /\ ~ \E h : Iterates(h, f, T)
  BY <1>1
<1> DEFINE Sol(N) == CHOOSE h : Iterates(h, f, N)
<1>3. ASSUME NEW N \in SUBSET T, N # T PROVE Iterates(Sol(N), f, N)
  BY <1>1, <1>2, <1>3
<1> DEFINE v(s) == IF s = {} THEN 0 ELSE f[Pick(s)] + Sol(s \ {Pick(s)})[s \ {Pick(s)}]
           g == [s \in SUBSET T |-> v(s)]
<1> HIDE DEF Sol
<1>4. ASSUME NEW s \in SUBSET T, s # T PROVE g[s] = Sol(s)[s]
  <2>1. Iterates(Sol(s), f, s) /\ IsFiniteSet(s)
    BY <1>2, <1>3, <1>4, FS_Subset
  <2>2. CASE s = {}
    BY <2>1, <2>2, IteratesAt
  <2>3. CASE s # {}
    <3> DEFINE r == s \ {Pick(s)}
    <3>1. Sol(s)[s] = f[Pick(s)] + Sol(s)[r] /\ Pick(s) \in s
      BY <2>1, <2>3, IteratesAt
    <3>2. r \in SUBSET T /\ r # T /\ r \subseteq s /\ IsFiniteSet(r)
      BY <1>4, <2>1, <3>1, FS_Subset
    <3>3. Iterates(Sol(r), f, r)
      BY <1>3, <3>2
    <3> HIDE DEF r
    <3>4. Sol(r)[r] = Sol(s)[r]
      BY <2>1, <3>2, <3>3, IteratesAgree
    <3> QED
      BY <2>3, <3>1, <3>4 DEF r
  <2> QED
    BY <2>2, <2>3
<1>5. ASSUME NEW s \in SUBSET T, s # {} PROVE v(s) = f[Pick(s)] + g[s \ {Pick(s)}]
  <2>1. Pick(s) \in s
    BY <1>5 DEF Pick
  <2>2. s \ {Pick(s)} \in SUBSET T /\ s \ {Pick(s)} # T
    BY <2>1
  <2> HIDE DEF g
  <2> QED
    BY <1>4, <1>5, <2>2
<1>6. Iterates(g, f, T)
  <2>1. \A s \in SUBSET T : v(s) = IF s = {} THEN 0 ELSE f[Pick(s)] + g[s \ {Pick(s)}]
    BY <1>5
  <2> DEFINE w(s) == IF s = {} THEN 0 ELSE f[Pick(s)] + g[s \ {Pick(s)}]
  <2>2. g = [s \in SUBSET T |-> v(s)]
    OBVIOUS
  <2> HIDE DEF g, v
  <2>3. [s \in SUBSET T |-> v(s)] = [s \in SUBSET T |-> w(s)]
    BY <2>1
  <2> QED
    BY <2>2, <2>3 DEF Iterates
<1> QED
  BY <1>2, <1>6

(* The recursion of a sum. *)
LEMMA SumPick ==
  ASSUME NEW f, NEW S, IsFiniteSet(S)
  PROVE  /\ S = {} => SumFunctionOnSet(f, S) = 0
         /\ S # {} => /\ Pick(S) \in S
                      /\ SumFunctionOnSet(f, S) =
                           f[Pick(S)] + SumFunctionOnSet(f, S \ {Pick(S)})
<1> DEFINE h == CHOOSE g : Iterates(g, f, S)
           T == S \ {Pick(S)}
           k == CHOOSE g : Iterates(g, f, T)
<1>1. IsFiniteSet(T) /\ T \subseteq S /\ S \in SUBSET S /\ T \in SUBSET T
  BY FS_Subset
<1>2. Iterates(h, f, S)
  BY IterateExists
<1>3. Iterates(k, f, T)
  <2> HIDE DEF T
  <2> QED
    BY <1>1, IterateExists
<1>4. SumFunctionOnSet(f, S) = h[S] /\ SumFunctionOnSet(f, T) = k[T]
  BY SumIsIterate
<1> HIDE DEF h, k
<1>5. h[T] = k[T]
  BY <1>1, <1>2, <1>3, IteratesAgree
<1> QED
  BY <1>1, <1>2, <1>4, <1>5, IteratesAt

LEMMA SumType ==
  ASSUME NEW f, NEW S, IsFiniteSet(S), \A x \in S : f[x] \in Int
  PROVE  SumFunctionOnSet(f, S) \in Int
<1> DEFINE U == {T \in SUBSET S : SumFunctionOnSet(f, T) \notin Int}
<1> SUFFICES ASSUME U # {} PROVE FALSE
  <2>1. S \in SUBSET S
    OBVIOUS
  <2> QED
    BY <2>1
<1>1. PICK T \in U : \A N \in U : N \subseteq T => N = T
  <2> HIDE DEF U
  <2>1. U \subseteq SUBSET S
    BY DEF U
  <2> QED
    BY <2>1, MinimalSubset
<1>2. T \in SUBSET S /\ SumFunctionOnSet(f, T) \notin Int /\ IsFiniteSet(T)
  BY <1>1, FS_Subset
<1>3. T # {} /\ Pick(T) \in T
  <2>1. T # {}
    <3>1. T = {} => SumFunctionOnSet(f, T) = 0
      BY <1>2, SumPick
    <3> QED
      BY <1>2, <3>1
  <2> QED
    BY <1>2, <2>1, SumPick
<1>4. SumFunctionOnSet(f, T \ {Pick(T)}) \in Int
  BY <1>1, <1>2, <1>3
<1>5. SumFunctionOnSet(f, T) = f[Pick(T)] + SumFunctionOnSet(f, T \ {Pick(T)})
  BY <1>2, <1>3, SumPick
<1> QED
  BY <1>2, <1>3, <1>4, <1>5

(* Any element may be taken first. *)
LEMMA SumTake ==
  ASSUME NEW f, NEW S, IsFiniteSet(S), \A x \in S : f[x] \in Int, NEW x \in S
  PROVE  SumFunctionOnSet(f, S) = f[x] + SumFunctionOnSet(f, S \ {x})
<1> DEFINE s(T) == SumFunctionOnSet(f, T)
           U == {T \in SUBSET S : \E y \in T : s(T) # f[y] + s(T \ {y})}
<1> SUFFICES ASSUME U # {} PROVE FALSE
  <2>1. S \in SUBSET S
    OBVIOUS
  <2> QED
    BY <2>1
<1>1. PICK T \in U : \A N \in U : N \subseteq T => N = T
  <2> HIDE DEF U
  <2>1. U \subseteq SUBSET S
    BY DEF U
  <2> QED
    BY <2>1, MinimalSubset
<1>2. PICK y \in T : s(T) # f[y] + s(T \ {y})
  BY <1>1
<1> DEFINE p == Pick(T)
<1>3. T \in SUBSET S /\ T # {} /\ IsFiniteSet(T)
  BY <1>1, <1>2, FS_Subset
<1>4. p \in T /\ s(T) = f[p] + s(T \ {p})
  BY <1>3, SumPick
<1> HIDE DEF p
<1>5. p # y
  BY <1>2, <1>4
<1>6. s(T \ {p}) = f[y] + s((T \ {p}) \ {y})
  <2>1. T \ {p} \in SUBSET S /\ T \ {p} \subseteq T /\ T \ {p} # T /\ y \in T \ {p}
    BY <1>2, <1>3, <1>4, <1>5
  <2>2. T \ {p} \notin U
    BY <1>1, <2>1
  <2> QED
    BY <2>1, <2>2
<1>7. s(T \ {y}) = f[p] + s((T \ {y}) \ {p})
  <2>1. T \ {y} \in SUBSET S /\ T \ {y} \subseteq T /\ T \ {y} # T /\ p \in T \ {y}
    BY <1>2, <1>3, <1>4, <1>5
  <2>2. T \ {y} \notin U
    BY <1>1, <2>1
  <2> QED
    BY <2>1, <2>2
<1>8. (T \ {y}) \ {p} = (T \ {p}) \ {y}
  OBVIOUS
<1>9. s((T \ {p}) \ {y}) \in Int
  <2>1. (T \ {p}) \ {y} \in SUBSET S
    BY <1>3
  <2>2. IsFiniteSet((T \ {p}) \ {y})
    BY <2>1, FS_Subset
  <2> QED
    BY <2>1, <2>2, SumType
<1>10. f[p] \in Int /\ f[y] \in Int
  BY <1>2, <1>3, <1>4
<1> HIDE DEF s
<1> QED
  BY <1>2, <1>4, <1>6, <1>7, <1>8, <1>9, <1>10

(* Equal values give equal sums. *)
LEMMA SumEqual ==
  ASSUME NEW f, NEW g, NEW S, IsFiniteSet(S), \A x \in S : f[x] = g[x]
  PROVE  SumFunctionOnSet(f, S) = SumFunctionOnSet(g, S)
<1> DEFINE U == {T \in SUBSET S : SumFunctionOnSet(f, T) # SumFunctionOnSet(g, T)}
<1> SUFFICES ASSUME U # {} PROVE FALSE
  <2>1. S \in SUBSET S
    OBVIOUS
  <2> QED
    BY <2>1
<1>1. PICK T \in U : \A N \in U : N \subseteq T => N = T
  <2> HIDE DEF U
  <2>1. U \subseteq SUBSET S
    BY DEF U
  <2> QED
    BY <2>1, MinimalSubset
<1>2. /\ T \in SUBSET S /\ SumFunctionOnSet(f, T) # SumFunctionOnSet(g, T)
      /\ IsFiniteSet(T)
  BY <1>1, FS_Subset
<1>3. T # {} /\ Pick(T) \in T
  BY <1>2, SumPick
<1>4. SumFunctionOnSet(f, T \ {Pick(T)}) = SumFunctionOnSet(g, T \ {Pick(T)})
  BY <1>1, <1>2, <1>3
<1>5. /\ SumFunctionOnSet(f, T) = f[Pick(T)] + SumFunctionOnSet(f, T \ {Pick(T)})
      /\ SumFunctionOnSet(g, T) = g[Pick(T)] + SumFunctionOnSet(g, T \ {Pick(T)})
  BY <1>2, <1>3, SumPick
<1> QED
  BY <1>2, <1>3, <1>4, <1>5

(* What a new element adds, and what a changed value does. *)
LEMMA SumMore ==
  ASSUME NEW f, NEW g, NEW S, IsFiniteSet(S), NEW x, x \notin S,
         \A y \in S : f[y] \in Int /\ g[y] = f[y], g[x] \in Int
  PROVE  SumFunctionOnSet(g, S \cup {x}) = SumFunctionOnSet(f, S) + g[x]
<1>1. IsFiniteSet(S \cup {x}) /\ (S \cup {x}) \ {x} = S
  BY FS_AddElement
<1>2. SumFunctionOnSet(g, S \cup {x}) = g[x] + SumFunctionOnSet(g, S)
  <2>1. x \in S \cup {x} /\ \A y \in S \cup {x} : g[y] \in Int
    OBVIOUS
  <2> QED
    BY <1>1, <2>1, SumTake
<1>3. SumFunctionOnSet(g, S) = SumFunctionOnSet(f, S)
  BY SumEqual
<1>4. SumFunctionOnSet(f, S) \in Int
  BY SumType
<1> QED
  BY <1>2, <1>3, <1>4

LEMMA SumChanged ==
  ASSUME NEW f, NEW g, NEW S, IsFiniteSet(S), NEW x \in S, NEW d \in Int,
         \A y \in S : f[y] \in Int,
         \A y \in S : y # x => g[y] = f[y],
         g[x] = f[x] - d
  PROVE  SumFunctionOnSet(g, S) = SumFunctionOnSet(f, S) - d
<1>1. IsFiniteSet(S \ {x})
  BY FS_Subset
<1>2. \A y \in S : g[y] \in Int
  OBVIOUS
<1>3. /\ SumFunctionOnSet(f, S) = f[x] + SumFunctionOnSet(f, S \ {x})
      /\ SumFunctionOnSet(g, S) = g[x] + SumFunctionOnSet(g, S \ {x})
  BY <1>2, SumTake
<1>4. SumFunctionOnSet(g, S \ {x}) = SumFunctionOnSet(f, S \ {x})
  BY <1>1, SumEqual
<1>5. SumFunctionOnSet(f, S \ {x}) \in Int
  BY <1>1, SumType
<1> QED
  BY <1>3, <1>4, <1>5
-----------------------------------------------------------------------------
(* Paid and Worth for the row l of a link and the sequence s of its solves. *)
IndexIn(s, t) == CHOOSE i \in DOMAIN s : s[i].team = t

PaidIn(s, t) == s[IndexIn(s, t)].score

WorthIn(l, s, t) == PaidIn(s, t) - (Before(l, s, IndexIn(s, t) + 1) - l.reward)

(* A solver has an index, and only one. *)
LEMMA IndexOfSolver ==
  ASSUME NEW s \in Seq(SolveRow), DistinctTeams(s), NEW t \in Solvers(s)
  PROVE  /\ IndexIn(s, t) \in 1 .. Len(s) /\ s[IndexIn(s, t)].team = t
         /\ \A i \in 1 .. Len(s) : s[i].team = t => i = IndexIn(s, t)
<1>1. DOMAIN s = 1 .. Len(s)
  BY LenProperties
<1>2. \E i \in DOMAIN s : s[i].team = t
  BY DEF Solvers
<1>3. IndexIn(s, t) \in DOMAIN s /\ s[IndexIn(s, t)].team = t
  BY <1>2 DEF IndexIn
<1> QED
  BY <1>1, <1>3 DEF DistinctTeams

LEMMA WorthType ==
  ASSUME NEW s \in Seq(SolveRow), NEW l \in LinkRow, DistinctTeams(s), NEW t \in Solvers(s)
  PROVE  PaidIn(s, t) \in Int /\ WorthIn(l, s, t) \in Int
<1> DEFINE i == IndexIn(s, t)
<1>1. i \in 1 .. Len(s) /\ Len(s) \in Nat
  BY IndexOfSolver, LenProperties
<1> HIDE DEF i
<1>2. \A j \in 1 .. Len(s) : s[j] \in SolveRow
  BY ElementOfSeq
<1>3. \A j \in 1 .. Len(s) : s[j].score \in Int
  BY <1>2 DEF SolveRow
<1>4. l.reward \in Int /\ l.rewardFirstBlood \in Int
  BY DEF LinkRow
<1>5. Before(l, s, i + 1) \in Int
  BY <1>1, <1>3, <1>4 DEF Before
<1> QED
  BY <1>1, <1>3, <1>4, <1>5 DEF PaidIn, WorthIn, i

(* One more solve leaves the indices of the earlier solvers as they are.   *)
LEMMA IndexAfterSolve ==
  ASSUME NEW s \in Seq(SolveRow), NEW r \in SolveRow, DistinctTeams(s),
         r.team \notin Solvers(s)
  PROVE  /\ IndexIn(Append(s, r), r.team) = Len(s) + 1
         /\ PaidIn(Append(s, r), r.team) = r.score
         /\ \A v \in Solvers(s) :
              /\ IndexIn(s, v) \in 1 .. Len(s)
              /\ IndexIn(Append(s, r), v) = IndexIn(s, v)
              /\ PaidIn(Append(s, r), v) = PaidIn(s, v)
<1> DEFINE a == Append(s, r)
           n == Len(s)
<1>1. /\ n \in Nat /\ DOMAIN s = 1 .. n /\ DOMAIN a = 1 .. n + 1 /\ Len(a) = n + 1
      /\ \A i \in 1 .. n : a[i] = s[i]
      /\ a[n + 1] = r /\ a \in Seq(SolveRow)
  BY AppendProperties, LenProperties
<1>2. DistinctTeams(a) /\ Solvers(a) = Solvers(s) \cup {r.team}
  BY AppendSolve
<1> HIDE DEF a
<1>3. IndexIn(a, r.team) = n + 1
  <2>1. \A i \in 1 .. Len(a) : a[i].team = r.team => i = IndexIn(a, r.team)
    BY <1>1, <1>2, IndexOfSolver
  <2> QED
    BY <1>1, <2>1
<1>4. ASSUME NEW v \in Solvers(s)
      PROVE  IndexIn(s, v) \in 1 .. n /\ IndexIn(a, v) = IndexIn(s, v)
  <2>1. IndexIn(s, v) \in 1 .. n /\ s[IndexIn(s, v)].team = v
    BY <1>4, IndexOfSolver
  <2>2. \A i \in 1 .. Len(a) : a[i].team = v => i = IndexIn(a, v)
    BY <1>1, <1>2, <1>4, IndexOfSolver
  <2> QED
    BY <1>1, <2>1, <2>2
<1> QED
  BY <1>1, <1>3, <1>4 DEF PaidIn, a

(***************************************************************************)
(* One more solve is worth its points to its team, and costs every earlier *)
(* solver what the reward loses.                                           *)
(***************************************************************************)
LEMMA WorthAfterSolve ==
  ASSUME NEW s \in Seq(SolveRow), NEW k \in LinkRow, NEW m \in LinkRow,
         NEW r \in SolveRow, DistinctTeams(s), r.team \notin Solvers(s),
         k.firstBlood = NoTeam <=> s = <<>>,
         r.score = PointsToAward(k),
         m.rewardFirstBlood = k.rewardFirstBlood
  PROVE  /\ WorthIn(m, Append(s, r), r.team) = r.score
         /\ \A v \in Solvers(s) :
              WorthIn(m, Append(s, r), v) = WorthIn(k, s, v) - (k.reward - m.reward)
<1> DEFINE a == Append(s, r)
           n == Len(s)
<1>1. n \in Nat
  BY LenProperties
<1>2. /\ IndexIn(a, r.team) = n + 1 /\ PaidIn(a, r.team) = r.score
      /\ \A v \in Solvers(s) : /\ IndexIn(s, v) \in 1 .. n
                               /\ IndexIn(a, v) = IndexIn(s, v) /\ PaidIn(a, v) = PaidIn(s, v)
  BY IndexAfterSolve
<1>3. /\ \A i \in 1 .. n + 1 : Before(m, a, i) = Before(k, s, i)
      /\ Before(m, a, n + 2) = m.reward
  BY BeforeAppend
<1>4. k.reward \in Int /\ k.rewardFirstBlood \in Int /\ m.reward \in Int /\ r.score \in Int
  BY DEF LinkRow, SolveRow
<1> HIDE DEF a
<1>5. WorthIn(m, a, r.team) = r.score
  <2>1. (n + 1) + 1 = n + 2
    BY <1>1
  <2> HIDE DEF n
  <2> QED
    BY <1>2, <1>3, <1>4, <2>1 DEF WorthIn
<1>6. ASSUME NEW v \in Solvers(s)
      PROVE  WorthIn(m, a, v) = WorthIn(k, s, v) - (k.reward - m.reward)
  <2> DEFINE i == IndexIn(s, v)
             b == Before(k, s, i + 1)
             p == PaidIn(s, v)
  <2>1. i \in 1 .. n
    BY <1>2, <1>6
  <2>2. Before(m, a, i + 1) = b
    BY <1>1, <1>3, <2>1
  <2>3. p \in Int
    BY <1>6, WorthType
  <2>4. b \in Int
    <3>1. i + 1 =< n => s[i + 1] \in SolveRow
      BY <1>1, <2>1, ElementOfSeq
    <3>2. i + 1 =< n => s[i + 1].score \in Int
      BY <3>1 DEF SolveRow
    <3> HIDE DEF i
    <3> QED
      BY <1>1, <1>4, <2>1, <3>2 DEF Before
  <2>5. WorthIn(k, s, v) = p - (b - k.reward) /\ WorthIn(m, a, v) = p - (b - m.reward)
    BY <1>2, <1>6, <2>2 DEF WorthIn
  <2> HIDE DEF b, p
  <2> QED
    BY <1>4, <2>3, <2>4, <2>5
<1> QED
  BY <1>5, <1>6 DEF a
-----------------------------------------------------------------------------
(* The sum a team's score is compared with. *)
WorthSum(t) == SumFunction([c \in SolvedBy(t) |-> Worth(t, c)])

LedgerInv(t) ==
  /\ IsFiniteSet(SolvedBy(t))
  /\ (t \in registered /\ Settled(t)) =>
       score[t] = WorthSum(t) /\ solved[t] = Cardinality(SolvedBy(t))

LedgersInv == \A t \in Teams : LedgerInv(t)

LEMMA PaidWorth ==
  \A t, c : /\ SolveIndex(t, c) = IndexIn(rows[c], t)
            /\ Paid(t, c) = PaidIn(rows[c], t)
            /\ Worth(t, c) = WorthIn(link[c], rows[c], t)
<1> TAKE t, c
<1>1. SolveIndex(t, c) = IndexIn(rows[c], t)
  BY DEF SolveIndex, IndexIn
<1>2. \A i : RewardBefore(c, i) = Before(link[c], rows[c], i)
  BY DEF RewardBefore, Before
<1> QED
  BY <1>1, <1>2 DEF Paid, PaidIn, Worth, WorthIn

LEMMA PaidWorthNext ==
  \A t, c : /\ Paid(t, c)' = PaidIn(rows'[c], t)
            /\ Worth(t, c)' = WorthIn(link'[c], rows'[c], t)
<1> TAKE t, c
<1>1. SolveIndex(t, c)' = IndexIn(rows'[c], t)
  BY DEF SolveIndex, IndexIn
<1>2. \A i : RewardBefore(c, i)' = Before(link'[c], rows'[c], i)
  BY DEF RewardBefore, Before
<1>3. Paid(t, c)' = PaidIn(rows'[c], t)
  BY <1>1 DEF Paid, PaidIn
<1>4. Worth(t, c)' = Paid(t, c)' - (RewardBefore(c, SolveIndex(t, c) + 1)' - link'[c].reward)
  BY DEF Worth
<1>5. RewardBefore(c, SolveIndex(t, c) + 1)' = Before(link'[c], rows'[c], IndexIn(rows'[c], t) + 1)
  BY <1>1 DEF RewardBefore, Before
<1> QED
  BY <1>3, <1>4, <1>5 DEF WorthIn

LEMMA SumsOnSet ==
  \A t : WorthSum(t) = SumFunctionOnSet([c \in SolvedBy(t) |-> Worth(t, c)], SolvedBy(t))
BY DEF WorthSum, SumFunction

LEMMA InitLedger == Init => LedgersInv
<1> SUFFICES ASSUME Init, NEW t \in Teams PROVE LedgerInv(t)
  BY DEF LedgersInv
<1>1. SolvedBy(t) = {}
  BY DEF Init, InitBoard, SolvedBy, Solvers
<1>2. IsFiniteSet(SolvedBy(t)) /\ Cardinality(SolvedBy(t)) = 0
  BY <1>1, FS_EmptySet
<1>3. WorthSum(t) = 0
  BY <1>1, <1>2, SumsOnSet, SumPick
<1> QED
  BY <1>2, <1>3 DEF Init, InitBoard, LedgerInv

(* A step that leaves the solves alone, and the totals of whoever is       *)
(* settled after it, who was settled before it with the same links.        *)
LEMMA LedgerKept ==
  ASSUME NEW t \in Teams, LedgerInv(t), UNCHANGED rows,
         (t \in registered' /\ Settled(t)') =>
           /\ \A c \in SolvedBy(t) : link'[c] = link[c]
           /\ \/ /\ t \in registered /\ Settled(t)
                 /\ score'[t] = score[t] /\ solved'[t] = solved[t]
              \/ SolvedBy(t) = {} /\ score'[t] = 0 /\ solved'[t] = 0
  PROVE  LedgerInv(t)'
<1>1. SolvedBy(t)' = SolvedBy(t)
  BY DEF SolvedBy
<1>3. ASSUME t \in registered', Settled(t)'
      PROVE  score'[t] = WorthSum(t)' /\ solved'[t] = Cardinality(SolvedBy(t))
  <2>1. \A c \in SolvedBy(t) : Worth(t, c)' = Worth(t, c)
    BY <1>3 DEF Worth, Paid, SolveIndex, RewardBefore
  <2>2. WorthSum(t)' = WorthSum(t)
    BY <1>1, <2>1 DEF WorthSum
  <2>3. CASE t \in registered /\ Settled(t) /\ score'[t] = score[t] /\ solved'[t] = solved[t]
    BY <2>2, <2>3 DEF LedgerInv
  <2>4. CASE SolvedBy(t) = {} /\ score'[t] = 0 /\ solved'[t] = 0
    <3>1. WorthSum(t) = 0 /\ Cardinality(SolvedBy(t)) = 0
      BY <2>4, FS_EmptySet, SumsOnSet, SumPick
    <3> QED
      BY <2>2, <2>4, <3>1
  <2> QED
    BY <1>3, <2>3, <2>4
<1> QED
  BY <1>1, <1>3 DEF LedgerInv

(***************************************************************************)
(* The commit of a submission: its team gains a solve, every registered    *)
(* team that solved the challenge before pays what its worth loses, unless *)
(* it joined again meanwhile, and nobody else's score moves.               *)
(***************************************************************************)
Loss(c) == link[c].reward - link'[c].reward

Booked(q, c, t) ==
  /\ c \in Challenges /\ t \in Teams
  /\ UNCHANGED <<registered, entries, touched>>
  /\ tx[q].points \in Int /\ Loss(c) \in Int
  /\ link[c].reward \in Int /\ link'[c].reward \in Int
  /\ \A v \in Teams :
       /\ score'[v] = ScoreAfter(v, t, tx[q].points, Charged(q), Loss(c))
       /\ solved'[v] = IF v = t /\ t \in registered THEN solved[v] + 1 ELSE solved[v]
       /\ SolvedBy(v)' = IF v = t THEN SolvedBy(v) \cup {c} ELSE SolvedBy(v)
       /\ SolvedBy(v) \subseteq Challenges
       /\ \A d \in SolvedBy(v) : d \in Untouched => Worth(v, d) \in Int
       /\ Steady(v)' => Steady(v) /\ (c \in SolvedBy(v)' => c \in Untouched /\ Loss(c) >= 0)
       /\ \A d \in Challenges \ {c} : Worth(v, d)' = Worth(v, d) /\ link'[d] = link[d]
       /\ (c \in Untouched /\ c \in SolvedBy(v)) => Worth(v, c)' = Worth(v, c) - Loss(c)
  /\ c \in Untouched => Worth(t, c)' = tx[q].points
  /\ c \notin SolvedBy(t) /\ t \notin Charged(q)
  /\ \A v \in Charged(q) : Loss(c) > 0 /\ c \in SolvedBy(v)
  /\ Loss(c) > 0 => \A v \in registered :
                      c \in SolvedBy(v) => v \in Charged(q) \/ entries[v] > 1

LEMMA RecordBooked ==
  ASSUME RInv, RInv', NEW q \in Requests, RecordSolve(q),
         NEW c, c = ctx[q].chall, NEW t, t = ctx[q].team
  PROVE  Booked(q, c, t)
<1> DEFINE l == tx[q].link
           k == link[c]
           m == link'[c]
           s == rows[c]
           r == [team |-> t, score |-> tx[q].points]
           loss == k.reward - m.reward
<1>1. /\ pc[q] = "scored" /\ RequestInv(q) /\ TxInv(q) /\ ChargeInv(q) /\ TypeOK /\ TypeOK'
  BY DEF RecordSolve, RInv, SInv, IInv, LockInv
<1>2. /\ c \in Challenges /\ t \in Teams /\ k # NoLink /\ t \notin Solvers(s)
      /\ ScoredCopy(q) /\ tx[q].todo = {}
  BY <1>1 DEF RequestInv, TxInv, InTransaction, RecordSolve
<1>3. /\ k \in LinkRow /\ s \in Seq(SolveRow) /\ r \in SolveRow /\ BoardInv(c)
      /\ DistinctTeams(s)
  BY <1>1, <1>2 DEF TypeOK, Local, SolveRow, RInv, SInv, BoardInv
<1>4. /\ m = [k EXCEPT !.attempts = l.attempts, !.solves = l.solves,
                       !.reward = l.reward, !.firstBlood = l.firstBlood]
      /\ rows'[c] = Append(s, r)
      /\ \A d \in Challenges : d # c => link'[d] = link[d] /\ rows'[d] = rows[d]
  BY <1>1, <1>2 DEF RecordSolve, TypeOK
<1>5. /\ m.reward = l.reward /\ m.rewardMin = k.rewardMin /\ m.initial = k.initial
      /\ m.rewardFirstBlood = k.rewardFirstBlood /\ m # NoLink /\ m \in LinkRow
  <2>1. l \in LinkRow
    BY <1>1 DEF RequestInv, InTransaction
  <2>2. m \in LinkRow
    <3> HIDE DEF k, l, m
    <3> QED
      BY <1>3, <1>4, <2>1, WrittenRowType
  <2> HIDE DEF k, l, m
  <2> QED
    BY <1>3, <1>4, <2>2, ScoreboardAssumption DEF LinkRow
<1>6. /\ m.reward \in CalculateNewReward(k) /\ r.score = PointsToAward(k)
      /\ tx[q].loss = loss /\ tx[q].points = r.score
  <2>1. /\ l.reward \in CalculateNewReward(k) /\ tx[q].points = PointsToAward(k)
        /\ tx[q].loss = k.reward - l.reward
    BY <1>2 DEF ScoredCopy
  <2>2. r.score = tx[q].points
    OBVIOUS
  <2> HIDE DEF k, l, m, r
  <2> QED
    BY <1>5, <2>1, <2>2
<1>7. /\ UNCHANGED <<registered, entries, touched>>
      /\ \A v \in Teams :
           /\ score'[v] = ScoreAfter(v, t, r.score, Charged(q), loss)
           /\ solved'[v] = IF v = t /\ t \in registered THEN solved[v] + 1 ELSE solved[v]
  <2> HIDE DEF loss, r
  <2>1. /\ UNCHANGED <<registered, entries, touched>>
        /\ score' = [v \in Teams |-> ScoreAfter(v, t, r.score, Charged(q), loss)]
        /\ solved' = [solved EXCEPT ![t] = IF t \in registered THEN @ + 1 ELSE @]
    BY <1>6 DEF RecordSolve
  <2> QED
    BY <1>1, <2>1 DEF TypeOK
<1>8. /\ t \notin Charged(q)
      /\ \A v \in Charged(q) : loss > 0 /\ v \in Solvers(s)
      /\ loss > 0 => \A v \in registered \cap Solvers(s) :
                       v \in Charged(q) \/ entries[v] > 1
  <2>1. registered \subseteq Teams
    BY <1>1 DEF TypeOK
  <2> QED
    BY <1>1, <1>2, <1>6, <2>1 DEF ChargeInv, Charged
<1>9. /\ k.reward \in Int /\ m.reward \in Int /\ r.score \in Int /\ k.rewardMin \in Int
      /\ k.initial \in Int /\ k.decay \in Nat /\ k.solves \in Nat
  <2> HIDE DEF k, m, r
  <2> QED
    BY <1>3, <1>5 DEF LinkRow, SolveRow
<1>11. Solvers(Append(s, r)) = Solvers(s) \cup {t}
  BY <1>3, AppendSolve
<1>12. ASSUME c \in Untouched
       PROVE  /\ WorthIn(m, Append(s, r), t) = r.score
              /\ \A v \in Solvers(s) :
                   WorthIn(m, Append(s, r), v) = WorthIn(k, s, v) - loss
              /\ k.rewardMin =< k.initial => loss >= 0
  <2>1. RowAgrees(k, s)
    BY <1>3, <1>12 DEF BoardInv
  <2>2. k.firstBlood = NoTeam <=> s = <<>>
    <3>1. s # <<>> => 1 \in 1 .. Len(s)
      BY <1>3, EmptySeq
    <3>2. s # <<>> => s[1] \in SolveRow
      BY <1>3, <3>1, ElementOfSeq
    <3> QED
      BY <2>1, <3>2, ScoreboardAssumption DEF RowAgrees, SolveRow
  <2>3. k.rewardMin =< k.initial => m.reward =< k.reward
    <3>1. m.reward \in DecayedReward(k.reward, k.rewardMin, k.decay, k.solves)
      BY <1>6, <2>1 DEF CalculateNewReward, RowAgrees, ChainOf
    <3>2. k.rewardMin =< k.initial => k.rewardMin =< k.reward
      BY <1>9, <2>1 DEF RowAgrees
    <3> HIDE DEF k, m
    <3> QED
      BY <1>9, <3>1, <3>2, DecayTowardsMinimum
  <2>4. r.team = t
    OBVIOUS
  <2> HIDE DEF k, m, s, r
  <2>5. /\ WorthIn(m, Append(s, r), r.team) = r.score
        /\ \A v \in Solvers(s) :
             WorthIn(m, Append(s, r), v) = WorthIn(k, s, v) - (k.reward - m.reward)
    BY <1>2, <1>3, <1>5, <1>6, <2>2, <2>4, WorthAfterSolve
  <2> QED
    BY <1>9, <2>3, <2>4, <2>5
<1> HIDE DEF r, s, k, m, l
<1>13. ASSUME NEW v, NEW d \in Challenges, d # c
       PROVE  Worth(v, d)' = Worth(v, d)
  BY <1>4, <1>13, PaidWorth, PaidWorthNext
<1>14. \A v : /\ Worth(v, c) = WorthIn(k, s, v)
              /\ Worth(v, c)' = WorthIn(m, Append(s, r), v)
  BY <1>4, PaidWorth, PaidWorthNext DEF s, k, m
<1>15. ASSUME NEW v \in Teams
       PROVE  /\ SolvedBy(v)' = IF v = t THEN SolvedBy(v) \cup {c} ELSE SolvedBy(v)
              /\ c \in SolvedBy(v) <=> v \in Solvers(s)
              /\ \A d \in SolvedBy(v) : v \in Solvers(rows[d]) /\ d \in Challenges
  BY <1>2, <1>4, <1>11, <1>15 DEF SolvedBy, s
<1>16. \A v \in Teams : \A d \in SolvedBy(v) : d \in Untouched => Worth(v, d) \in Int
  <2> SUFFICES ASSUME NEW v \in Teams, NEW d \in SolvedBy(v), d \in Untouched
               PROVE  Worth(v, d) \in Int
    OBVIOUS
  <2>1. d \in Challenges /\ v \in Solvers(rows[d])
    BY <1>15
  <2>2. rows[d] \in Seq(SolveRow) /\ DistinctTeams(rows[d]) /\ link[d] \in LinkRow
    BY <1>1, <2>1 DEF TypeOK, RInv, SInv, BoardInv, Untouched, Linked
  <2> QED
    BY <2>1, <2>2, WorthType, PaidWorth
<1>17. ASSUME NEW v \in Teams, Steady(v)'
       PROVE  Steady(v) /\ (c \in SolvedBy(v)' => c \in Untouched /\ loss >= 0)
  <2>1. \A d \in SolvedBy(v)' : d \in Untouched' /\ link'[d].rewardMin =< link'[d].initial /\ d \in Challenges
    BY <1>17 DEF Steady, SolvedBy
  <2>2. ASSUME NEW d \in SolvedBy(v)'
        PROVE  d \in Untouched /\ link[d].rewardMin =< link[d].initial
    <3>1. CASE d = c
      BY <1>2, <1>5, <1>7, <2>1, <3>1 DEF Untouched, Linked, k, m
    <3>2. CASE d # c
      BY <1>4, <1>7, <2>1, <3>2 DEF Untouched, Linked
    <3> QED
      BY <3>1, <3>2
  <2>3. SolvedBy(v) \subseteq SolvedBy(v)'
    BY <1>15
  <2>4. Steady(v)
    BY <2>2, <2>3 DEF Steady
  <2>5. ASSUME c \in SolvedBy(v)' PROVE c \in Untouched /\ loss >= 0
    BY <1>12, <2>2, <2>5 DEF k
  <2> QED
    BY <2>4, <2>5
<1>18. tx[q].points \in Int /\ loss \in Int
  BY <1>6, <1>9
<1>19. loss = Loss(c)
  BY DEF Loss, k, m, loss
<1>20. link[c].reward \in Int /\ link'[c].reward \in Int
  BY <1>9 DEF k, m
<1>21. \A v \in Teams : (c \in Untouched /\ c \in SolvedBy(v)) => Worth(v, c)' = Worth(v, c) - loss
  BY <1>12, <1>14, <1>15
<1>22. c \in Untouched => Worth(t, c)' = tx[q].points
  BY <1>6, <1>12, <1>14
<1>23. /\ c \notin SolvedBy(t) /\ t \notin Charged(q)
       /\ \A v \in Charged(q) : loss > 0 /\ c \in SolvedBy(v)
       /\ loss > 0 => \A v \in registered :
                       c \in SolvedBy(v) => v \in Charged(q) \/ entries[v] > 1
  <2>1. registered \subseteq Teams /\ Charged(q) \subseteq Teams
    BY <1>1 DEF TypeOK, Charged
  <2> HIDE DEF loss
  <2> QED
    BY <1>2, <1>8, <1>15, <2>1 DEF s
<1>24. \A v \in Teams :
         /\ score'[v] = ScoreAfter(v, t, tx[q].points, Charged(q), loss)
         /\ solved'[v] = IF v = t /\ t \in registered THEN solved[v] + 1 ELSE solved[v]
         /\ SolvedBy(v)' = IF v = t THEN SolvedBy(v) \cup {c} ELSE SolvedBy(v)
         /\ SolvedBy(v) \subseteq Challenges
         /\ \A d \in Challenges \ {c} : Worth(v, d)' = Worth(v, d) /\ link'[d] = link[d]
  BY <1>4, <1>6, <1>7, <1>13, <1>15
<1> HIDE DEF loss
<1> QED
  BY <1>2, <1>7, <1>16, <1>17, <1>18, <1>19, <1>20, <1>21, <1>22, <1>23, <1>24 DEF Booked

(* What the booking does to a team that joined once. *)
LEMMA RecordLedger ==
  ASSUME RInv, RInv', LedgersInv, NEW q \in Requests, RecordSolve(q),
         NEW c, c = ctx[q].chall, NEW t, t = ctx[q].team
  PROVE  LedgersInv'
<1> DEFINE loss == Loss(c)
           points == tx[q].points
<1>1. Booked(q, c, t)
  BY RecordBooked
<1> HIDE DEF loss, points
<1> SUFFICES ASSUME NEW v \in Teams PROVE LedgerInv(v)'
  BY DEF LedgersInv
<1> DEFINE S  == SolvedBy(v)
           g  == [d \in SolvedBy(v) |-> Worth(v, d)]
           g2 == [d \in SolvedBy(v)' |-> Worth(v, d)']
<1>2. /\ IsFiniteSet(S)
      /\ (v \in registered /\ Settled(v)) =>
           score[v] = SumFunctionOnSet(g, S) /\ solved[v] = Cardinality(S)
  BY SumsOnSet DEF LedgersInv, LedgerInv
<1>3. WorthSum(v)' = SumFunctionOnSet(g2, S')
  BY DEF WorthSum, SumFunction
<1>4. score[v] \in Int /\ loss \in Int /\ points \in Int
  BY <1>1 DEF Booked, RInv, SInv, IInv, TypeOK, loss, points
<1>5. ASSUME v \in registered', Settled(v)'
      PROVE  /\ v \in registered /\ Settled(v) /\ S \subseteq Untouched /\ entries[v] = 1
             /\ c \in S' => c \in Untouched /\ loss >= 0
             /\ score[v] = SumFunctionOnSet(g, S) /\ solved[v] = Cardinality(S)
             /\ \A d \in S : g[d] \in Int
             /\ \A d \in S : d # c => g2[d] = g[d]
  <2>1. entries[v] = 1 /\ v \in registered /\ Steady(v) /\ (c \in S' => c \in Untouched /\ loss >= 0)
    BY <1>1, <1>5 DEF Booked, Settled, loss
  <2>2. Settled(v) /\ S \subseteq Untouched
    BY <2>1 DEF Settled, Steady
  <2>3. \A d \in S : d \in S' /\ d \in Challenges
    BY <1>1 DEF Booked
  <2> QED
    BY <1>1, <1>2, <2>1, <2>2, <2>3 DEF Booked
<1>6. CASE v = t
  <2>1. S' = S \cup {c} /\ c \notin S
    BY <1>1, <1>6 DEF Booked
  <2>2. IsFiniteSet(S') /\ Cardinality(S') = Cardinality(S) + 1
    <3> HIDE DEF S
    <3> QED
      BY <1>2, <2>1, FS_AddElement
  <2>3. ASSUME v \in registered', Settled(v)'
        PROVE  score'[v] = WorthSum(v)' /\ solved'[v] = Cardinality(S')
    <3>1. g2[c] = points
      <4>1. c \in S' /\ c \in Untouched
        BY <1>5, <2>1, <2>3
      <4>2. Worth(v, c)' = points
        BY <1>1, <1>6, <4>1 DEF Booked, points
      <4> QED
        BY <4>1, <4>2
    <3>2. \A d \in S : g[d] \in Int /\ g2[d] = g[d]
      BY <1>5, <2>1, <2>3
    <3>3. SumFunctionOnSet(g2, S') = SumFunctionOnSet(g, S) + points
      <4> HIDE DEF g, g2, S
      <4>1. IsFiniteSet(S) /\ c \notin S /\ g2[c] \in Int
        BY <1>2, <1>4, <2>1, <3>1
      <4>2. SumFunctionOnSet(g2, S \cup {c}) = SumFunctionOnSet(g, S) + g2[c]
        BY <3>2, <4>1, SumMore
      <4> QED
        BY <2>1, <3>1, <4>2
    <3>4. score'[v] = score[v] + points /\ solved'[v] = solved[v] + 1
      <4>1. v \in registered
        BY <1>5, <2>3
      <4>2. /\ score'[v] = ScoreAfter(v, t, points, Charged(q), loss)
            /\ solved'[v] = solved[v] + 1 /\ t \notin Charged(q)
        BY <1>1, <1>6, <4>1 DEF Booked, points, loss
      <4> QED
        BY <1>4, <1>6, <4>1, <4>2 DEF ScoreAfter
    <3> QED
      BY <1>3, <1>5, <2>2, <2>3, <3>3, <3>4
  <2> QED
    BY <2>2, <2>3 DEF LedgerInv
<1>7. CASE v # t
  <2>1. S' = S
    BY <1>1, <1>7 DEF Booked
  <2>2. ASSUME v \in registered', Settled(v)'
        PROVE  score'[v] = WorthSum(v)' /\ solved'[v] = Cardinality(S')
    <3>1. solved'[v] = solved[v]
      BY <1>1, <1>7 DEF Booked
    <3>2. CASE c \in S
      <4>1. g2[c] = g[c] - loss
        <5>1. c \in Untouched
          BY <1>5, <2>1, <2>2, <3>2
        <5>2. Worth(v, c)' = Worth(v, c) - loss
          BY <1>1, <3>2, <5>1 DEF Booked, loss
        <5> QED
          BY <2>1, <3>2, <5>2
      <4>2. SumFunctionOnSet(g2, S') = SumFunctionOnSet(g, S) - loss
        <5> HIDE DEF g, g2, S
        <5> QED
          BY <1>2, <1>4, <1>5, <2>1, <2>2, <3>2, <4>1, SumChanged
      <4>3. score'[v] = score[v] - loss
        <5>1. loss >= 0 /\ (loss > 0 => v \in Charged(q))
          BY <1>1, <1>4, <1>5, <2>1, <2>2, <3>2 DEF Booked, loss
        <5>2. v \in Charged(q) => loss > 0
          BY <1>1 DEF Booked, loss
        <5> QED
          BY <1>1, <1>4, <1>7, <5>1, <5>2 DEF Booked, ScoreAfter, loss
      <4> QED
        BY <1>3, <1>5, <2>1, <2>2, <3>1, <4>2, <4>3
    <3>3. CASE c \notin S
      <4>1. SumFunctionOnSet(g2, S') = SumFunctionOnSet(g, S)
        <5>1. \A d \in S : g2[d] = g[d]
          BY <1>5, <2>2, <3>3
        <5> HIDE DEF g, g2, S
        <5> QED
          BY <1>2, <2>1, <5>1, SumEqual
      <4>2. score'[v] = score[v]
        BY <1>1, <1>4, <1>7, <3>3 DEF Booked, ScoreAfter, loss
      <4> QED
        BY <1>3, <1>5, <2>1, <2>2, <3>1, <4>1, <4>2
    <3> QED
      BY <3>2, <3>3
  <2> QED
    BY <1>2, <2>1, <2>2 DEF LedgerInv
<1> QED
  BY <1>6, <1>7

(* A team joins: it has no solve, or it was registered before. *)
LEMMA JoinLedger ==
  ASSUME RInv, LedgersInv, NEW q \in Requests, JoinInsert(q)
  PROVE  LedgersInv'
<1>1. TypeOK /\ UNCHANGED <<rows, link, touched>>
  BY DEF JoinInsert, Refuse, boardVars, RInv, SInv, IInv
<1> SUFFICES ASSUME NEW v \in Teams PROVE LedgerInv(v)'
  BY DEF LedgersInv
<1>2. ASSUME v \in registered', Settled(v)'
      PROVE  \/ /\ v \in registered /\ Settled(v)
                /\ score'[v] = score[v] /\ solved'[v] = solved[v]
             \/ SolvedBy(v) = {} /\ score'[v] = 0 /\ solved'[v] = 0
  <2>1. CASE UNCHANGED <<registered, score, solved, entries>>
    BY <1>1, <1>2, <2>1 DEF Settled, Steady, SolvedBy, Untouched, Linked
  <2>2. CASE /\ ctx[q].team \notin registered
             /\ registered' = registered \cup {ctx[q].team}
             /\ score' = [score EXCEPT ![ctx[q].team] = 0]
             /\ solved' = [solved EXCEPT ![ctx[q].team] = 0]
             /\ entries' = [entries EXCEPT ![ctx[q].team] = @ + 1]
    <3>1. CASE v = ctx[q].team
      <4>1. entries[v] = 0
        BY <1>1, <1>2, <2>2, <3>1 DEF Settled, Steady, TypeOK
      <4>2. SolvedBy(v) = {}
        BY <4>1 DEF SolvedBy, RInv, EntriesInv
      <4> QED
        BY <1>1, <2>2, <3>1, <4>2 DEF TypeOK
    <3>2. CASE v # ctx[q].team
      BY <1>1, <1>2, <2>2, <3>2 DEF TypeOK, Settled, Steady, SolvedBy, Untouched, Linked
    <3> QED
      BY <3>1, <3>2
  <2> QED
    BY <2>1, <2>2 DEF JoinInsert, Refuse, boardVars
<1> QED
  BY <1>1, <1>2, LedgerKept DEF LedgersInv

(* A step after which whoever is registered was, and the links of the      *)
(* challenges no organizer touched are what they were or are new.          *)
LEMMA QuietLedger ==
  ASSUME RInv, LedgersInv,
         UNCHANGED <<rows, score, solved, entries>>,
         registered' \subseteq registered, touched \subseteq touched',
         \A c \in Untouched' : link'[c] = link[c] \/ rows[c] = <<>>
  PROVE  LedgersInv'
<1> SUFFICES ASSUME NEW v \in Teams PROVE LedgerInv(v)'
  BY DEF LedgersInv
<1>1. ASSUME Settled(v)'
      PROVE  Settled(v) /\ \A c \in SolvedBy(v) : link'[c] = link[c]
  <2>1. SolvedBy(v)' = SolvedBy(v)
    BY DEF SolvedBy
  <2>2. \A c \in SolvedBy(v) : c \in Untouched' /\ link'[c].rewardMin =< link'[c].initial
    BY <1>1, <2>1 DEF Settled, Steady
  <2>3. \A c \in SolvedBy(v) : rows[c] # <<>>
    BY DEF SolvedBy, Solvers
  <2>4. \A c \in SolvedBy(v) : link'[c] = link[c] /\ c \in Untouched
    BY <2>2, <2>3 DEF Untouched, Linked
  <2> QED
    BY <1>1, <2>2, <2>4 DEF Settled, Steady
<1> QED
  BY <1>1, LedgerKept DEF LedgersInv

LEMMA StepLedger ==
  RInv /\ RInv' /\ LedgersInv /\ [Next]_vars => LedgersInv'
<1> SUFFICES ASSUME RInv, RInv', LedgersInv, [Next]_vars
             PROVE  LedgersInv'
  OBVIOUS
<1>1. CASE UNCHANGED <<boardVars, touched>>
  BY <1>1, QuietLedger DEF boardVars, Untouched, Linked
<1>2. ASSUME NEW q \in Requests, RecordSolve(q) PROVE LedgersInv'
  BY <1>2, RecordLedger
<1>3. ASSUME NEW q \in Requests, JoinInsert(q) PROVE LedgersInv'
  BY <1>3, JoinLedger
<1>4. ASSUME NEW q \in Requests, LeaveEvent(q) PROVE LedgersInv'
  BY <1>4, QuietLedger DEF LeaveEvent, Untouched, Linked
<1>5. ASSUME NEW c \in Challenges,
             \/ \E cfg \in Configs : UpdateChallenge(c, cfg) \/ \E k \in Presets : LinkChallenge(c, cfg, k)
             \/ UnlinkChallenge(c)
      PROVE  LedgersInv'
  <2>1. /\ UNCHANGED <<rows, score, solved, entries, registered>>
        /\ touched \subseteq touched'
        /\ \A d \in Challenges : d # c => link'[d] = link[d]
    BY <1>5 DEF LinkChallenge, UpdateChallenge, UnlinkChallenge, RInv, SInv, IInv, TypeOK
  <2>2. c \in Untouched' => rows[c] = <<>>
    <3>1. c \in touched' \/ (c \notin Linked /\ touched' = touched)
      BY <1>5 DEF LinkChallenge, UpdateChallenge, UnlinkChallenge
    <3>2. BoardInv(c)
      BY DEF RInv, SInv
    <3> QED
      BY <3>1, <3>2 DEF Untouched, BoardInv
  <2>3. \A d \in Untouched' : link'[d] = link[d] \/ rows[d] = <<>>
    BY <2>1, <2>2 DEF Untouched, Linked
  <2> QED
    BY <2>1, <2>3, QuietLedger
<1>6. CASE StartEvent \/ StopEvent \/ SyncCtfStatus \/ Restart \/ UNCHANGED vars
  BY <1>1, <1>6 DEF StartEvent, StopEvent, SyncCtfStatus, Restart, vars
<1>7. ASSUME NEW q \in Requests,
             \/ \E t \in Teams : PlayerAuth(q, t) \/ ChargeSolver(q, t)
             \/ \E c \in Challenges, f \in BOOLEAN : EnsureEventAccess(q, c, f)
             \/ RefuseCall(q) \/ JoinCheck(q) \/ LockLink(q) \/ TouchParticipation(q)
             \/ RejectFlag(q) \/ ScoreSolve(q) \/ DeadlockAbort(q)
      PROVE  LedgersInv'
  <2>1. UNCHANGED <<boardVars, touched>>
    BY <1>7 DEF PlayerAuth, ChargeSolver, EnsureEventAccess, RefuseCall, JoinCheck, LockLink,
                TouchParticipation, RejectFlag, ScoreSolve, DeadlockAbort, Rollback, Refuse
  <2> QED
    BY <1>1, <2>1
<1> QED
  BY <1>2, <1>3, <1>4, <1>5, <1>6, <1>7 DEF Next, Handle, Organize

LEMMA AlwaysLedger == Spec => []LedgersInv
BY InitLedger, StepLedger, AlwaysRInv, PTL DEF Spec

(***************************************************************************)
(* A registered team that never left has exactly the score its rows in     *)
(* solves account for: what it was paid for each, minus all the rewards    *)
(* have lost since.  No increment or decrement of participations.score is  *)
(* lost or made twice, however submissions, joins, leaves, edits of other  *)
(* challenges, deadlocks and crashes interleave.                           *)
(***************************************************************************)
THEOREM ScoresAreExplained == Spec => []ScoreLedger
<1>1. RInv /\ LedgersInv => ScoreLedger
  <2> SUFFICES ASSUME RInv, LedgersInv, NEW t \in registered, Settled(t)
               PROVE  /\ score[t] = SumFunction([c \in SolvedBy(t) |-> Worth(t, c)])
                      /\ solved[t] = Cardinality(SolvedBy(t))
    BY DEF ScoreLedger
  <2>1. t \in Teams
    BY DEF RInv, SInv, IInv, TypeOK
  <2> QED
    BY <2>1 DEF LedgersInv, LedgerInv, WorthSum
<1> QED
  BY <1>1, AlwaysLedger, AlwaysRInv, PTL
-----------------------------------------------------------------------------
(* Teams that leave and join again.                                        *)
OwedSum(t) == SumFunction([c \in SolvedBy(t) |-> Owed(t, c)])

(***************************************************************************)
(* The history of a registered team speaks of challenges it has solved,    *)
(* and its totals are bounded by it.                                       *)
(***************************************************************************)
OwedInv(t) ==
  t \in registered =>
    /\ DOMAIN base[t] \subseteq SolvedBy(t)
    /\ \A c \in DOMAIN base[t] : base[t][c] \in Int
    /\ Steady(t) => /\ score[t] >= OwedSum(t)
                    /\ solved[t] = Cardinality(SolvedBy(t) \ DOMAIN base[t])

OwedsInv == \A t \in Teams : OwedInv(t)

LEMMA OwedOnSet ==
  \A t : OwedSum(t) = SumFunctionOnSet([c \in SolvedBy(t) |-> Owed(t, c)], SolvedBy(t))
BY DEF OwedSum, SumFunction

(* A sum of zeros. *)
LEMMA SumZero ==
  ASSUME NEW f, NEW S, IsFiniteSet(S), \A x \in S : f[x] = 0
  PROVE  SumFunctionOnSet(f, S) = 0
<1> DEFINE U == {T \in SUBSET S : SumFunctionOnSet(f, T) # 0}
<1> SUFFICES ASSUME U # {} PROVE FALSE
  <2>1. S \in SUBSET S
    OBVIOUS
  <2> QED
    BY <2>1
<1>1. PICK T \in U : \A N \in U : N \subseteq T => N = T
  <2> HIDE DEF U
  <2>1. U \subseteq SUBSET S
    BY DEF U
  <2> QED
    BY <2>1, MinimalSubset
<1>2. T \in SUBSET S /\ SumFunctionOnSet(f, T) # 0 /\ IsFiniteSet(T)
  BY <1>1, FS_Subset
<1>3. T # {} /\ Pick(T) \in T
  BY <1>2, SumPick
<1>4. SumFunctionOnSet(f, T \ {Pick(T)}) = 0
  BY <1>1, <1>2, <1>3
<1>5. SumFunctionOnSet(f, T) = f[Pick(T)] + SumFunctionOnSet(f, T \ {Pick(T)})
  BY <1>2, <1>3, SumPick
<1> QED
  BY <1>2, <1>3, <1>4, <1>5

(* A step that leaves a team's solves, totals and history alone. *)
LEMMA OwedKept ==
  ASSUME NEW t \in Teams, OwedInv(t), UNCHANGED rows,
         t \in registered, base'[t] = base[t],
         score'[t] = score[t], solved'[t] = solved[t],
         Steady(t)' => Steady(t) /\ \A c \in SolvedBy(t) : link'[c] = link[c]
  PROVE  OwedInv(t)'
<1>1. SolvedBy(t)' = SolvedBy(t)
  BY DEF SolvedBy
<1>2. ASSUME Steady(t)' PROVE OwedSum(t)' = OwedSum(t)
  <2>1. \A c \in SolvedBy(t) : Owed(t, c)' = Owed(t, c)
    BY <1>2 DEF Owed, Worth, Paid, SolveIndex, RewardBefore
  <2> QED
    BY <1>1, <2>1 DEF OwedSum
<1> QED
  BY <1>1, <1>2 DEF OwedInv

(* A team joins, perhaps again: what it solved before adds nothing yet. *)
LEMMA OwedJoined ==
  ASSUME NEW t \in Teams, UNCHANGED <<rows, link, touched>>, TypeOK,
         IsFiniteSet(SolvedBy(t)), score'[t] = 0, solved'[t] = 0,
         base'[t] = [c \in SolvedBy(t) \cap Untouched |-> link[c].reward]
  PROVE  OwedInv(t)'
<1>1. SolvedBy(t)' = SolvedBy(t) /\ Untouched' = Untouched
  BY DEF SolvedBy, Untouched, Linked
<1>2. ASSUME NEW c \in Untouched PROVE link[c].reward \in Int
  BY <1>2, ScoreboardAssumption DEF Untouched, Linked, TypeOK, LinkRow
<1>3. /\ DOMAIN base'[t] = SolvedBy(t) \cap Untouched
      /\ \A c \in SolvedBy(t) \cap Untouched : base'[t][c] = link[c].reward
  OBVIOUS
<1>4. ASSUME Steady(t)'
      PROVE  OwedSum(t)' = 0 /\ Cardinality(SolvedBy(t) \ DOMAIN base'[t]) = 0
  <2>1. SolvedBy(t) \subseteq Untouched
    BY <1>1, <1>4 DEF Steady
  <2>2. SolvedBy(t) \ DOMAIN base'[t] = {}
    BY <1>3, <2>1
  <2>3. \A c \in SolvedBy(t) : Owed(t, c)' = 0
    BY <1>2, <1>3, <2>1 DEF Owed
  <2> DEFINE g == [c \in SolvedBy(t)' |-> Owed(t, c)']
  <2>4. OwedSum(t)' = SumFunctionOnSet(g, SolvedBy(t)')
    BY DEF OwedSum, SumFunction
  <2>5. \A c \in SolvedBy(t) : g[c] = 0
    BY <1>1, <2>3
  <2> HIDE DEF g
  <2>6. SumFunctionOnSet(g, SolvedBy(t)) = 0
    BY <2>5, SumZero
  <2> QED
    BY <1>1, <2>2, <2>4, <2>6, FS_EmptySet
<1> QED
  BY <1>1, <1>2, <1>3, <1>4 DEF OwedInv

(* What the booking does to the totals of a team that joined again. *)
LEMMA RecordOwed ==
  ASSUME RInv, RInv', LedgersInv, LedgersInv', NEW q \in Requests, RecordSolve(q),
         NEW c, c = ctx[q].chall, NEW t, t = ctx[q].team,
         NEW v \in Teams, OwedInv(v), v \in registered, base'[v] = base[v]
  PROVE  OwedInv(v)'
<1> DEFINE loss == Loss(c)
           points == tx[q].points
<1>1. Booked(q, c, t)
  BY RecordBooked
<1> HIDE DEF loss, points
<1> DEFINE S  == SolvedBy(v)
           B  == DOMAIN base[v]
           g  == [d \in SolvedBy(v) |-> Owed(v, d)]
           g2 == [d \in SolvedBy(v)' |-> Owed(v, d)']
<1>2. /\ IsFiniteSet(S) /\ IsFiniteSet(S') /\ B \subseteq S
      /\ \A d \in B : base[v][d] \in Int
      /\ Steady(v) => score[v] >= SumFunctionOnSet(g, S) /\ solved[v] = Cardinality(S \ B)
  BY OwedOnSet DEF LedgersInv, LedgerInv, OwedInv
<1>3. OwedSum(v)' = SumFunctionOnSet(g2, S') /\ DOMAIN base'[v] = B
  BY DEF OwedSum, SumFunction
<1>4. score[v] \in Int /\ loss \in Int /\ points \in Int
  BY <1>1 DEF Booked, RInv, SInv, IInv, TypeOK, loss, points
<1>5. S \subseteq S' /\ S \subseteq Challenges
  BY <1>1 DEF Booked
<1>6. ASSUME Steady(v)'
      PROVE  /\ Steady(v) /\ S \subseteq Untouched
             /\ c \in S' => c \in Untouched /\ loss >= 0
             /\ \A d \in S : g[d] \in Int
             /\ \A d \in S : d # c => g2[d] = g[d]
  <2>1. Steady(v) /\ (c \in S' => c \in Untouched /\ loss >= 0)
    BY <1>1, <1>6 DEF Booked, loss
  <2>2. S \subseteq Untouched
    BY <2>1 DEF Steady
  <2>3. ASSUME NEW d \in S PROVE g[d] \in Int
    <3>1. link[d].reward \in Int
      BY <1>1, <1>5, <2>2, <2>3, ScoreboardAssumption
         DEF Untouched, Linked, RInv, SInv, IInv, TypeOK, LinkRow
    <3>2. Worth(v, d) \in Int
      BY <1>1, <2>2, <2>3 DEF Booked
    <3>3. Owed(v, d) \in Int
      BY <1>2, <3>1, <3>2 DEF Owed
    <3> QED
      BY <2>3, <3>3
  <2>4. ASSUME NEW d \in S, d # c PROVE g2[d] = g[d]
    <3>1. Worth(v, d)' = Worth(v, d) /\ link'[d] = link[d]
      BY <1>1, <1>5, <2>4 DEF Booked
    <3>2. Owed(v, d)' = Owed(v, d)
      BY <3>1 DEF Owed
    <3> QED
      BY <1>5, <2>4, <3>2
  <2> QED
    BY <2>1, <2>2, <2>3, <2>4
<1>7. SumFunctionOnSet(g, S) \in Int \/ ~ Steady(v)'
  <2>1. Steady(v)' => \A d \in S : g[d] \in Int
    BY <1>6
  <2> HIDE DEF g, S
  <2> QED
    BY <1>2, <2>1, SumType
<1>8. CASE v = t
  <2>1. S' = S \cup {c} /\ c \notin S
    BY <1>1, <1>8 DEF Booked
  <2>2. c \notin B /\ S' \ B = (S \ B) \cup {c}
    BY <1>2, <2>1
  <2>3. Cardinality(S' \ B) = Cardinality(S \ B) + 1
    <3>1. IsFiniteSet(S \ B)
      BY <1>2, FS_Subset
    <3> HIDE DEF S, B
    <3> QED
      BY <2>1, <2>2, <3>1, FS_AddElement
  <2>4. ASSUME Steady(v)'
        PROVE  score'[v] >= OwedSum(v)' /\ solved'[v] = Cardinality(S' \ B)
    <3>1. g2[c] = points
      <4>1. Worth(v, c)' = points
        BY <1>1, <1>6, <1>8, <2>1, <2>4 DEF Booked, points
      <4>2. Owed(v, c)' = points
        BY <1>3, <2>2, <4>1 DEF Owed
      <4> QED
        BY <2>1, <4>2
    <3>2. SumFunctionOnSet(g2, S') = SumFunctionOnSet(g, S) + points
      <4>1. \A d \in S : g[d] \in Int /\ g2[d] = g[d]
        BY <1>6, <2>1, <2>4
      <4> HIDE DEF g, g2, S
      <4>2. SumFunctionOnSet(g2, S \cup {c}) = SumFunctionOnSet(g, S) + g2[c]
        BY <1>2, <1>4, <2>1, <3>1, <4>1, SumMore
      <4> QED
        BY <2>1, <3>1, <4>2
    <3>3. score'[v] = score[v] + points /\ solved'[v] = solved[v] + 1
      <4>1. /\ score'[v] = ScoreAfter(v, t, points, Charged(q), loss)
            /\ solved'[v] = solved[v] + 1 /\ t \notin Charged(q)
        BY <1>1, <1>8 DEF Booked, points, loss
      <4> QED
        BY <1>4, <1>8, <4>1 DEF ScoreAfter
    <3> HIDE DEF g, g2, S, B
    <3> QED
      BY <1>2, <1>3, <1>4, <1>6, <1>7, <2>3, <2>4, <3>2, <3>3
  <2> QED
    BY <1>2, <1>3, <1>5, <2>4 DEF OwedInv
<1>9. CASE v # t
  <2>1. S' = S
    BY <1>1, <1>9 DEF Booked
  <2>2. ASSUME Steady(v)'
        PROVE  score'[v] >= OwedSum(v)' /\ solved'[v] = Cardinality(S' \ B)
    <3>1. solved'[v] = solved[v]
      BY <1>1, <1>9 DEF Booked
    <3>2. /\ score'[v] = ScoreAfter(v, t, points, Charged(q), loss)
          /\ v \in Charged(q) => loss > 0 /\ c \in S
      BY <1>1 DEF Booked, points, loss
    <3>3. score'[v] >= SumFunctionOnSet(g2, S')
      <4>1. CASE c \in S
        <5>1. loss >= 0 /\ c \in Untouched
          BY <1>6, <2>1, <2>2, <4>1
        <5>2. g2[c] = g[c] - loss
          <6>1. Worth(v, c)' = Worth(v, c) - loss /\ link'[c].reward = link[c].reward - loss
            BY <1>1, <4>1, <5>1 DEF Booked, Loss, loss
          <6>2. link[c].reward \in Int
            BY <1>1 DEF Booked
          <6>3. Owed(v, c)' = Owed(v, c) - loss
            BY <1>2, <1>3, <1>4, <6>1, <6>2 DEF Owed
          <6> QED
            BY <2>1, <4>1, <6>3
        <5>3. SumFunctionOnSet(g2, S') = SumFunctionOnSet(g, S) - loss
          <6>1. \A d \in S : g[d] \in Int /\ (d # c => g2[d] = g[d])
            BY <1>6, <2>2
          <6> HIDE DEF g, g2, S
          <6>2. SumFunctionOnSet(g2, S) = SumFunctionOnSet(g, S) - loss
            BY <1>2, <1>4, <4>1, <5>2, <6>1, SumChanged
          <6> QED
            BY <2>1, <6>2
        <5>4. score'[v] >= score[v] - loss
          BY <1>4, <1>9, <3>2, <5>1 DEF ScoreAfter
        <5>5. score[v] >= SumFunctionOnSet(g, S)
          BY <1>2, <1>6, <2>2
        <5>6. score'[v] \in Int
          BY DEF RInv, SInv, IInv, TypeOK
        <5> HIDE DEF g, g2, S
        <5> QED
          BY <1>4, <1>7, <2>2, <5>3, <5>4, <5>5, <5>6
      <4>2. CASE c \notin S
        <5>1. \A d \in S : g2[d] = g[d]
          BY <1>6, <2>2, <4>2
        <5>2. SumFunctionOnSet(g2, S') = SumFunctionOnSet(g, S)
          <6> HIDE DEF g, g2, S
          <6> QED
            BY <1>2, <2>1, <5>1, SumEqual
        <5>3. score'[v] = score[v]
          BY <1>4, <1>9, <3>2, <4>2 DEF ScoreAfter
        <5> QED
          BY <1>2, <1>6, <2>2, <5>2, <5>3
      <4> QED
        BY <4>1, <4>2
    <3> QED
      BY <1>2, <1>3, <1>6, <2>1, <2>2, <3>1, <3>3
  <2> QED
    BY <1>2, <1>3, <1>5, <2>2 DEF OwedInv
<1> QED
  BY <1>8, <1>9

(* What every other step leaves alone. *)
LEMMA QuietRows ==
  ASSUME RInv, [Next]_vars, \A q \in Requests : ~ RecordSolve(q)
  PROVE  /\ UNCHANGED rows /\ touched \subseteq touched'
         /\ \A c \in Untouched' : link'[c] = link[c] \/ rows[c] = <<>>
         /\ \A t \in registered \cap registered' :
              score'[t] = score[t] /\ solved'[t] = solved[t]
         /\ registered' \subseteq registered \/
              \E t \in Teams : /\ registered' = registered \cup {t} /\ t \notin registered
                              /\ score'[t] = 0 /\ solved'[t] = 0
                              /\ UNCHANGED <<link, touched>>
<1> USE DEF Untouched, Linked
<1>1. CASE UNCHANGED <<boardVars, touched>>
  BY <1>1 DEF boardVars
<1>2. ASSUME NEW q \in Requests, JoinInsert(q), ~ Refuse(q)
      PROVE  /\ UNCHANGED <<rows, link, touched>> /\ ctx[q].team \in Teams
             /\ registered' = registered \cup {ctx[q].team} /\ ctx[q].team \notin registered
             /\ score' = [score EXCEPT ![ctx[q].team] = 0]
             /\ solved' = [solved EXCEPT ![ctx[q].team] = 0] /\ TypeOK
  BY <1>2 DEF JoinInsert, RInv, SInv, IInv, LockInv, RequestInv
<1>3. ASSUME NEW q \in Requests, JoinInsert(q), ~ Refuse(q)
      PROVE  /\ \A t \in registered : score'[t] = score[t] /\ solved'[t] = solved[t]
             /\ score'[ctx[q].team] = 0 /\ solved'[ctx[q].team] = 0
  BY <1>2, <1>3 DEF TypeOK
<1>4. ASSUME NEW q \in Requests, JoinInsert(q), Refuse(q) PROVE UNCHANGED <<boardVars, touched>>
  BY <1>4 DEF Refuse
<1>5. ASSUME NEW q \in Requests, LeaveEvent(q)
      PROVE  UNCHANGED <<rows, link, score, solved, touched>> /\ registered' \subseteq registered
  BY <1>5 DEF LeaveEvent
<1>6. ASSUME NEW c \in Challenges,
             \/ \E cfg \in Configs : UpdateChallenge(c, cfg) \/ \E k \in Presets : LinkChallenge(c, cfg, k)
             \/ UnlinkChallenge(c)
      PROVE  /\ UNCHANGED <<rows, score, solved, registered>> /\ touched \subseteq touched'
             /\ \A d \in Untouched' : link'[d] = link[d] \/ rows[d] = <<>>
  <2>1. /\ UNCHANGED <<rows, score, solved, registered>>
        /\ touched \subseteq touched'
        /\ \A d \in Challenges : d # c => link'[d] = link[d]
    BY <1>6 DEF LinkChallenge, UpdateChallenge, UnlinkChallenge, RInv, SInv, IInv, TypeOK
  <2>2. c \in Untouched' => rows[c] = <<>>
    <3>1. c \in touched' \/ (c \notin Linked /\ touched' = touched)
      BY <1>6 DEF LinkChallenge, UpdateChallenge, UnlinkChallenge
    <3>2. BoardInv(c)
      BY DEF RInv, SInv
    <3> QED
      BY <3>1, <3>2 DEF BoardInv
  <2> QED
    BY <2>1, <2>2
<1>7. CASE StartEvent \/ StopEvent \/ SyncCtfStatus \/ Restart \/ UNCHANGED vars
  BY <1>1, <1>7 DEF StartEvent, StopEvent, SyncCtfStatus, Restart, vars
<1>8. ASSUME NEW q \in Requests,
             \/ \E t \in Teams : PlayerAuth(q, t) \/ ChargeSolver(q, t)
             \/ \E c \in Challenges, f \in BOOLEAN : EnsureEventAccess(q, c, f)
             \/ RefuseCall(q) \/ JoinCheck(q) \/ LockLink(q) \/ TouchParticipation(q)
             \/ RejectFlag(q) \/ ScoreSolve(q) \/ DeadlockAbort(q)
      PROVE  UNCHANGED <<boardVars, touched>>
  BY <1>8 DEF PlayerAuth, ChargeSolver, EnsureEventAccess, RefuseCall, JoinCheck, LockLink,
              TouchParticipation, RejectFlag, ScoreSolve, DeadlockAbort, Rollback, Refuse
<1>9. CASE \E q \in Requests : JoinInsert(q) /\ ~ Refuse(q)
  BY <1>2, <1>3, <1>9
<1>10. CASE \E q \in Requests : LeaveEvent(q)
  BY <1>5, <1>10
<1>11. CASE Organize
  BY <1>6, <1>7, <1>11 DEF Organize
<1> QED
  BY <1>1, <1>4, <1>7, <1>8, <1>9, <1>10, <1>11 DEF Next, Handle

LEMMA StepOwed ==
  RInv /\ RInv' /\ LedgersInv /\ LedgersInv' /\ OwedsInv /\ [RejoinNext]_rejoinVars => OwedsInv'
<1> SUFFICES ASSUME RInv, RInv', LedgersInv, LedgersInv', OwedsInv, [RejoinNext]_rejoinVars
             PROVE  OwedsInv'
  OBVIOUS
<1>1. TypeOK /\ registered' \subseteq Teams
  BY DEF RInv, SInv, IInv, TypeOK
<1>2. CASE UNCHANGED rejoinVars
  <2> SUFFICES ASSUME NEW t \in Teams, t \in registered PROVE OwedInv(t)'
    BY <1>2 DEF OwedsInv, OwedInv, rejoinVars, vars, boardVars
  <2>1. UNCHANGED <<rows, link, registered, score, solved, touched, base>>
    BY <1>2 DEF rejoinVars, vars, boardVars
  <2>2. Steady(t)' => Steady(t)
    BY <2>1 DEF Steady, SolvedBy, Untouched, Linked
  <2> QED
    BY <2>1, <2>2, OwedKept DEF OwedsInv
<1>3. CASE RejoinNext
  <2>1. [Next]_vars
    BY <1>3 DEF RejoinNext
  <2>2. /\ \A t \in registered \cap registered' : base'[t] = base[t]
        /\ \A t \in registered' \ registered :
             base'[t] = [c \in SolvedBy(t) \cap Untouched |-> link[c].reward]
    BY <1>1, <1>3 DEF RejoinNext
  <2> SUFFICES ASSUME NEW t \in Teams, t \in registered' PROVE OwedInv(t)'
    BY DEF OwedsInv, OwedInv
  <2>3. ASSUME NEW q \in Requests, RecordSolve(q) PROVE OwedInv(t)'
    <3>1. t \in registered
      BY <2>3 DEF RecordSolve
    <3> QED
      BY <2>2, <2>3, <3>1, RecordOwed DEF OwedsInv
  <2>4. CASE \A q \in Requests : ~ RecordSolve(q)
    <3>1. /\ UNCHANGED rows /\ touched \subseteq touched'
          /\ \A c \in Untouched' : link'[c] = link[c] \/ rows[c] = <<>>
          /\ \A v \in registered \cap registered' :
               score'[v] = score[v] /\ solved'[v] = solved[v]
          /\ registered' \subseteq registered \/
               \E v \in Teams : /\ registered' = registered \cup {v} /\ v \notin registered
                               /\ score'[v] = 0 /\ solved'[v] = 0
                               /\ UNCHANGED <<link, touched>>
      BY <2>1, <2>4, QuietRows
    <3>2. CASE t \in registered
      <4>1. ASSUME Steady(t)'
            PROVE  Steady(t) /\ \A c \in SolvedBy(t) : link'[c] = link[c]
        <5>1. SolvedBy(t)' = SolvedBy(t)
          BY <3>1 DEF SolvedBy
        <5>2. \A c \in SolvedBy(t) : c \in Untouched' /\ link'[c].rewardMin =< link'[c].initial
          BY <4>1, <5>1 DEF Steady
        <5>3. \A c \in SolvedBy(t) : rows[c] # <<>>
          BY DEF SolvedBy, Solvers
        <5>4. \A c \in SolvedBy(t) : link'[c] = link[c] /\ c \in Untouched
          BY <3>1, <5>2, <5>3 DEF Untouched, Linked
        <5> QED
          BY <5>2, <5>4 DEF Steady
      <4> QED
        BY <2>2, <3>1, <3>2, <4>1, OwedKept DEF OwedsInv
    <3>3. CASE t \notin registered
      <4>1. /\ score'[t] = 0 /\ solved'[t] = 0 /\ UNCHANGED <<rows, link, touched>>
            /\ IsFiniteSet(SolvedBy(t))
        BY <3>1, <3>3 DEF LedgersInv, LedgerInv
      <4> QED
        BY <1>1, <2>2, <3>3, <4>1, OwedJoined
    <3> QED
      BY <3>2, <3>3
  <2> QED
    BY <2>3, <2>4
<1> QED
  BY <1>2, <1>3

(***************************************************************************)
(* A team that left the event and joined again counts the solves it made   *)
(* since, and pays for its earlier solves at most what their rewards have  *)
(* lost since it is back: no submission in flight while it was away, or    *)
(* through a deadlock, a crash or another leave, charges it for more.      *)
(***************************************************************************)
THEOREM RejoinedAreNotOvercharged == RejoinSpec => []NeverOvercharged
<1>1. RejoinSpec => Spec
  <2>1. RejoinInit => Init
    BY DEF RejoinInit
  <2>2. [RejoinNext]_rejoinVars => [Next]_vars
    BY DEF RejoinNext, rejoinVars
  <2> QED
    BY <2>1, <2>2, PTL DEF RejoinSpec, Spec
<1>2. RejoinInit => OwedsInv
  BY DEF RejoinInit, Init, InitBoard, OwedsInv, OwedInv
<1>3. RejoinSpec => []OwedsInv
  BY <1>1, <1>2, StepOwed, AlwaysLedger, AlwaysRInv, PTL DEF RejoinSpec
<1>4. RInv /\ OwedsInv => NeverOvercharged
  BY DEF RInv, SInv, IInv, TypeOK, OwedsInv, OwedInv, OwedSum, NeverOvercharged
<1> QED
  BY <1>1, <1>3, <1>4, AlwaysRInv, PTL
=============================================================================
