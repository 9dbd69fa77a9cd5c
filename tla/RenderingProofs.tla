---------------------------- MODULE RenderingProofs ----------------------------
(***************************************************************************)
(* Proofs about what the studio renders and publishes, for any values of   *)
(* the constants: the models that are loaded for it fit into the memory,   *)
(* jobs, stale artifacts and the nodes of a plan are taken after what they *)
(* are made from, of the creators of a package one publishes, a derivative *)
(* is published once and whole, and what a call returns is what it left    *)
(* behind.                                                                 *)
(***************************************************************************)
EXTENDS EditingProofs

-----------------------------------------------------------------------------
(* VRAM.                                                                   *)

\* What the scheduler counts is a sum.
LEMMA UsedIsSum == \A S : Vram!Used(S) = SumOf(ModelSize, S)
BY DEF Vram!Used, SumOf, IsSum, Round, First, Vram!MapThenSumSet, Vram!MapThenFoldSet

\* More models need more memory, and one more adds its size at most.
LEMMA UsedGrows ==
    ASSUME NEW S, S \subseteq Models
    PROVE  /\ Vram!Used(S) \in Nat
           /\ \A P \in SUBSET S : Vram!Used(P) <= Vram!Used(S)
           /\ \A m \in Models : Vram!Used(S \cup {m}) <= ModelSize[m] + Vram!Used(S)
<1>1. IsFiniteSet(Models) /\ ModelSize \in [Models -> Nat]
  BY StudioConstants DEF StudioConstants, Vram!VramConstants, Vram!IsFiniteSet, IsFiniteSet
<1>2. IsFiniteSet(S)
  BY <1>1, FS_Subset
<1>3. Vram!Used(S) \in Nat
  BY <1>1, <1>2, SumUnfolds, UsedIsSum
<1>4. ASSUME NEW P \in SUBSET S PROVE Vram!Used(P) <= Vram!Used(S)
  BY <1>1, <1>2, SumOfPart, UsedIsSum
<1>5. ASSUME NEW m \in Models PROVE Vram!Used(S \cup {m}) <= ModelSize[m] + Vram!Used(S)
  <2>1. CASE m \in S
    <3>1. S \cup {m} = S
      BY <2>1
    <3>2. Vram!Used(S \cup {m}) = Vram!Used(S) /\ ModelSize[m] \in Nat
      BY <1>1, <3>1
    <3> QED
      BY <1>3, <3>2
  <2>2. CASE m \notin S
    <3>1. IsFiniteSet(S \cup {m}) /\ S \cup {m} \subseteq Models /\ (S \cup {m}) \ {m} = S
      BY <1>2, <2>2, FS_AddElement
    <3>2. SumOf(ModelSize, S \cup {m})
            = ModelSize[m] + SumOf(ModelSize, (S \cup {m}) \ {m})
      BY <1>1, <3>1, SumOfAny
    <3>3. Vram!Used(S \cup {m}) = ModelSize[m] + Vram!Used(S) /\ ModelSize[m] \in Nat
      BY <1>1, <3>1, <3>2, UsedIsSum
    <3> QED
      BY <1>3, <3>3
  <2> QED
    BY <2>1, <2>2
<1> QED
  BY <1>3, <1>4, <1>5

\* The models that are loaded are of the catalogue and fit, and whoever was
\* evicted ranked low enough.
WithinBudget(models, for, evicted) ==
    /\ models \subseteq Models /\ for \subseteq Models /\ evicted \subseteq Models
    /\ Vram!Used(models) <= Budget
    /\ \A m \in for, o \in evicted :
         /\ Priority[o] < Priority[m]
         /\ \A k \in models : Priority[o] <= Priority[k]

VramInvariant == WithinBudget(loaded, wanted.for, wanted.evicted)

\* A load keeps the budget, whatever it evicts and whether it succeeds.
LEMMA LoadKeepsBudget ==
    ASSUME VramInvariant, NEW m \in Models, NEW evict \in BOOLEAN, Vram!ScheduleLoad(m, evict)
    PROVE  VramInvariant'
<1>1. PICK e \in IF evict /\ ModelSize[m] > Vram!Available(loaded)
                 THEN Vram!Evictions(m) ELSE {{}} :
        /\ loaded' = IF ModelSize[m] <= Vram!Available(loaded \ e)
                     THEN (loaded \ e) \cup ({m} \cap verified)
                     ELSE loaded \ e
        /\ wanted' = [for |-> {m}, evicted |-> e]
  BY DEF Vram!ScheduleLoad
<1>2. loaded \subseteq Models /\ Vram!Used(loaded) <= Budget /\ Budget \in Nat
      /\ ModelSize[m] \in Nat /\ Priority \in [Models -> Int]
  BY StudioConstants
  DEF VramInvariant, WithinBudget, StudioConstants, Vram!VramConstants
<1>3. /\ e \subseteq loaded
      /\ \A o \in e : Priority[o] < Priority[m]
      /\ \A o \in e, k \in loaded \ e : Priority[o] <= Priority[k]
  <2>1. CASE e = {}
    BY <2>1
  <2>2. CASE e # {}
    <3>1. e \in Vram!Evictions(m)
      BY <1>1, <2>2
    <3>2. /\ e \subseteq Vram!Lower(m)
          /\ \A o \in e, k \in Vram!Lower(m) \ e : Priority[o] <= Priority[k]
      BY <3>1 DEF Vram!Evictions
    <3>3. e \subseteq loaded /\ \A o \in e : Priority[o] < Priority[m]
      BY <3>2 DEF Vram!Lower
    <3>4. ASSUME NEW o \in e, NEW k \in loaded \ e PROVE Priority[o] <= Priority[k]
      <4>1. CASE k \in Vram!Lower(m)
        BY <4>1, <3>2
      <4>2. CASE k \notin Vram!Lower(m)
        <5>1. ~(Priority[k] < Priority[m]) /\ Priority[o] < Priority[m]
          BY <4>2, <3>3 DEF Vram!Lower
        <5>2. Priority[k] \in Int /\ Priority[m] \in Int /\ Priority[o] \in Int
          BY <1>2, <3>3
        <5> QED
          BY <5>1, <5>2
      <4> QED
        BY <4>1, <4>2
    <3> QED
      BY <3>3, <3>4
  <2> QED
    BY <2>1, <2>2
<1> DEFINE rest == loaded \ e
<1>4. rest \subseteq Models /\ Vram!Used(rest) \in Nat /\ Vram!Used(rest) <= Budget
  <2>1. rest \in SUBSET loaded /\ rest \subseteq Models
    BY <1>2
  <2>2. Vram!Used(rest) <= Vram!Used(loaded) /\ Vram!Used(loaded) \in Nat /\ Vram!Used(rest) \in Nat
    BY <1>2, <2>1, UsedGrows
  <2> QED
    BY <1>2, <2>1, <2>2
<1>5. /\ loaded' \subseteq rest \cup {m}
      /\ Vram!Used(loaded') <= Budget
  <2>1. CASE loaded' = rest
    BY <2>1, <1>4
  <2>2. CASE loaded' # rest
    <3>1. loaded' = rest \cup {m} /\ ModelSize[m] <= Vram!Available(rest)
      BY <1>1, <2>2
    <3>2. Vram!Used(rest \cup {m}) <= ModelSize[m] + Vram!Used(rest)
          /\ Vram!Used(rest \cup {m}) \in Nat
      BY <1>4, UsedGrows
    <3>3. Vram!Available(rest) = Budget - Vram!Used(rest)
      BY <1>2, <1>4 DEF Vram!Available
    <3> QED
      BY <1>2, <1>4, <3>1, <3>2, <3>3
  <2> QED
    BY <2>1, <2>2
<1>6. ASSUME NEW o \in e
      PROVE  Priority[o] < Priority[m] /\ \A k \in loaded' : Priority[o] <= Priority[k]
  <2>1. o \in Models
    BY <1>2, <1>3
  <2> QED
    BY <1>2, <1>3, <1>5, <2>1
<1>7. wanted'.for = {m} /\ wanted'.evicted = e
  BY <1>1
<1>8. WithinBudget(loaded', {m}, e)
  BY <1>2, <1>3, <1>5, <1>6 DEF WithinBudget
<1> QED
  BY <1>7, <1>8 DEF VramInvariant

\* A step of the studio is one of the scheduler, or leaves it alone.
LEMMA VramRun ==
    /\ StudioInit => Vram!Init
    /\ [StudioNext]_studioVars => [Vram!Next]_vramVars
BY DEF StudioInit, StudioNext, studioVars, vramVars

\* Every call of the scheduler keeps the budget.
LEMMA VramStep ==
    ASSUME VramInvariant, [Vram!Next]_vramVars PROVE VramInvariant'
<1>1. CASE UNCHANGED vramVars
  BY <1>1 DEF vramVars, VramInvariant
<1>2. ASSUME NEW m \in Models, Vram!Verify(m) PROVE VramInvariant'
  <2>1. loaded' = loaded /\ wanted'.for = {} /\ wanted'.evicted = {}
    BY <1>2 DEF Vram!Verify, Vram!Quiet
  <2>2. WithinBudget(loaded, {}, {})
    BY DEF VramInvariant, WithinBudget
  <2> QED
    BY <2>1, <2>2 DEF VramInvariant
<1>3. ASSUME NEW m \in Models, Vram!Unload(m) PROVE VramInvariant'
  <2>1. loaded \subseteq Models /\ loaded' \in SUBSET loaded
        /\ wanted'.for = {} /\ wanted'.evicted = {}
    BY <1>3 DEF Vram!Unload, VramInvariant, WithinBudget, Vram!Quiet
  <2>2. Vram!Used(loaded) \in Nat /\ Vram!Used(loaded') <= Vram!Used(loaded)
        /\ Vram!Used(loaded') \in Nat /\ Vram!Used(loaded) <= Budget /\ Budget \in Nat
    BY <2>1, UsedGrows, StudioConstants
    DEF VramInvariant, WithinBudget, StudioConstants, Vram!VramConstants
  <2>3. WithinBudget(loaded', {}, {})
    BY <2>1, <2>2 DEF WithinBudget
  <2> QED
    BY <2>1, <2>3 DEF VramInvariant
<1> QED
  BY <1>1, <1>2, <1>3, LoadKeepsBudget DEF Vram!Next

\* In the beginning nothing is loaded, which fits.
LEMMA VramInit == StudioInit => VramInvariant
<1>1. SUFFICES ASSUME StudioInit PROVE VramInvariant
  OBVIOUS
<1>2. loaded = {} /\ wanted.for = {} /\ wanted.evicted = {}
  <2>1. Vram!Init
    BY <1>1, VramRun
  <2> QED
    BY <2>1 DEF Vram!Init, Vram!Quiet
<1>3. Vram!Used({}) = 0 /\ Budget \in Nat
  <2>1. {} \subseteq Models /\ IsFiniteSet({}) /\ ModelSize \in [Models -> Nat] /\ Budget \in Nat
    BY FS_EmptySet, StudioConstants DEF StudioConstants, Vram!VramConstants
  <2> QED
    BY <2>1, UsedIsSum, SumUnfolds
<1>4. WithinBudget({}, {}, {})
  BY <1>3 DEF WithinBudget
<1> QED
  BY <1>2, <1>4 DEF VramInvariant

\* vram_scheduler.py: whatever is loaded, evicted or refused, the models fit
\* the budget, and an evicted one ranks below the one it gave way to and no
\* higher than any that stayed.
THEOREM BudgetHolds == StudioSpec => []BudgetAndRankKept
<1>1. StudioInit => VramInvariant
  BY VramInit
<1>2. VramInvariant /\ [StudioNext]_studioVars => VramInvariant'
  BY VramRun, VramStep
<1>3. VramInvariant => BudgetAndRankKept
  BY DEF VramInvariant, WithinBudget, BudgetAndRankKept, Vram!BudgetAndRankKept
<1> QED
  BY <1>1, <1>2, <1>3, PTL DEF StudioSpec

-----------------------------------------------------------------------------
(* Lists in which everything stands once.                                  *)

\* What is in a list.
Listed(q) == {q[i] : i \in DOMAIN q}

OnceEach(q) == \A i, j \in DOMAIN q : q[i] = q[j] => i = j

\* What an element is made from, of a set, stands before it.
AfterInputs(order, up, set) ==
    \A i \in DOMAIN order : \A x \in up[order[i]] \cap set :
        \E j \in DOMAIN order : j < i /\ order[j] = x

\* An element that is new goes behind a list.
LEMMA ListedBehind ==
    ASSUME NEW S, NEW q \in Seq(S), NEW x \in S, OnceEach(q), x \notin Listed(q)
    PROVE  /\ Append(q, x) \in Seq(S) /\ OnceEach(Append(q, x))
           /\ Listed(Append(q, x)) = Listed(q) \cup {x}
<1>1. Len(q) \in Nat /\ DOMAIN q = 1..Len(q)
  BY LenProperties
<1> DEFINE p == Append(q, x)
<1>2. /\ p \in Seq(S) /\ DOMAIN p = 1..Len(q) + 1
      /\ \A i \in 1..Len(q) : p[i] = q[i]
      /\ p[Len(q) + 1] = x
  BY <1>1, AppendProperties, LenProperties
<1>3. \A i \in 1..Len(q) + 1 : i \in 1..Len(q) \/ i = Len(q) + 1
  BY <1>1
<1>4. 1..Len(q) \subseteq 1..Len(q) + 1 /\ Len(q) + 1 \in 1..Len(q) + 1
  BY <1>1
<1> HIDE DEF p
<1>5. \A i \in DOMAIN q : q[i] # x
  BY DEF Listed
<1>6. OnceEach(p)
  BY <1>1, <1>2, <1>3, <1>5 DEF OnceEach
<1>7. Listed(p) = Listed(q) \cup {x}
  BY <1>1, <1>2, <1>3, <1>4 DEF Listed
<1> QED
  BY <1>2, <1>6, <1>7 DEF p

\* The head is taken.
LEMMA ListedTaken ==
    ASSUME NEW S, NEW q \in Seq(S), q # <<>>, OnceEach(q)
    PROVE  /\ Tail(q) \in Seq(S) /\ OnceEach(Tail(q)) /\ Head(q) \in S
           /\ Head(q) \in Listed(q) /\ Listed(Tail(q)) = Listed(q) \ {Head(q)}
<1> DEFINE p == Tail(q)
<1>1. Len(q) \in Nat /\ DOMAIN q = 1..Len(q) /\ Len(q) >= 1
  BY LenProperties, EmptySeq
<1>2. /\ p \in Seq(S) /\ DOMAIN p = 1..Len(q) - 1
      /\ \A i \in 1..Len(q) - 1 : p[i] = q[i + 1]
  BY <1>1, HeadTailProperties, LenProperties
<1>3. Head(q) = q[1] /\ 1 \in 1..Len(q) /\ q[1] \in S
  BY <1>1, HeadTailProperties
<1>4. /\ \A i \in 1..Len(q) - 1 : i + 1 \in 1..Len(q) /\ i + 1 # 1
      /\ \A i \in 1..Len(q) : i = 1 \/ (i - 1 \in 1..Len(q) - 1 /\ (i - 1) + 1 = i)
      /\ \A i, j \in 1..Len(q) - 1 : i + 1 = j + 1 => i = j
  BY <1>1
<1> HIDE DEF p
<1>5. OnceEach(p)
  <2>1. ASSUME NEW i \in 1..Len(q) - 1, NEW j \in 1..Len(q) - 1, p[i] = p[j] PROVE i = j
    <3>1. q[i + 1] = q[j + 1] /\ i + 1 \in DOMAIN q /\ j + 1 \in DOMAIN q
      BY <1>1, <1>2, <1>4, <2>1
    <3>2. i + 1 = j + 1
      BY <3>1 DEF OnceEach
    <3> QED
      BY <1>4, <3>2
  <2> QED
    BY <1>2, <2>1 DEF OnceEach
<1>6. \A i \in 1..Len(q) - 1 : p[i] \in Listed(q) /\ p[i] # q[1]
  BY <1>1, <1>2, <1>3, <1>4 DEF OnceEach, Listed
<1>7. \A i \in 1..Len(q) : i = 1 \/ q[i] \in Listed(p)
  <2> TAKE i \in 1..Len(q)
  <2>1. SUFFICES ASSUME i # 1 PROVE q[i] \in Listed(p)
    OBVIOUS
  <2>2. p[i - 1] = q[i] /\ i - 1 \in DOMAIN p
    BY <1>2, <1>4, <2>1
  <2> QED
    BY <2>2 DEF Listed
<1>8. Listed(p) = Listed(q) \ {q[1]}
  <2>1. Listed(p) \subseteq Listed(q) \ {q[1]}
    BY <1>2, <1>6 DEF Listed
  <2>2. Listed(q) \ {q[1]} \subseteq Listed(p)
    BY <1>1, <1>7 DEF Listed
  <2> QED
    BY <2>1, <2>2
<1> QED
  BY <1>1, <1>2, <1>3, <1>5, <1>8 DEF p, Listed

\* One list goes behind another.
LEMMA ListedTogether ==
    ASSUME NEW S, NEW q \in Seq(S), NEW r \in Seq(S), OnceEach(q), OnceEach(r),
           Listed(q) \cap Listed(r) = {}
    PROVE  /\ q \o r \in Seq(S) /\ OnceEach(q \o r)
           /\ Listed(q \o r) = Listed(q) \cup Listed(r)
<1> DEFINE p == q \o r
           n == Len(q)
           m == Len(r)
<1>1. n \in Nat /\ DOMAIN q = 1..n /\ m \in Nat /\ DOMAIN r = 1..m
  BY LenProperties
<1>2. p \in Seq(S) /\ Len(p) = n + m /\ DOMAIN p = 1..n + m
  BY <1>1, ConcatProperties, LenProperties
<1>3. \A i \in 1..n + m : p[i] = IF i <= n THEN q[i] ELSE r[i - n]
  BY <1>1, ConcatProperties
<1> HIDE DEF p, n, m
<1>4. \A i \in 1..n : i \in 1..n + m /\ p[i] = q[i]
  BY <1>1, <1>3
<1>5. \A i \in 1..m : n + i \in 1..n + m /\ p[n + i] = r[i]
  <2> TAKE i \in 1..m
  <2>1. n + i \in 1..n + m /\ ~(n + i <= n) /\ (n + i) - n = i
    BY <1>1
  <2> QED
    BY <1>3, <2>1
<1>6. \A i \in 1..n + m : i \in 1..n \/ (i - n \in 1..m /\ n + (i - n) = i)
  BY <1>1
<1>7. \A i \in 1..n, j \in 1..m : q[i] # r[j]
  BY <1>1 DEF Listed
<1>8. ASSUME NEW i \in 1..n + m, NEW j \in 1..n + m, p[i] = p[j] PROVE i = j
  <2>1. CASE i \in 1..n /\ j \in 1..n
    BY <1>1, <1>4, <1>8, <2>1 DEF OnceEach
  <2>2. CASE i \notin 1..n /\ j \notin 1..n
    <3>1. i - n \in 1..m /\ j - n \in 1..m /\ n + (i - n) = i /\ n + (j - n) = j
      BY <1>6, <2>2
    <3>2. p[i] = r[i - n] /\ p[j] = r[j - n]
      BY <1>5, <3>1
    <3>3. i - n = j - n
      BY <1>1, <1>8, <3>1, <3>2 DEF OnceEach
    <3> QED
      BY <3>1, <3>3
  <2>3. ASSUME NEW a \in 1..n, NEW b \in 1..n + m, b \notin 1..n PROVE p[a] # p[b]
    <3>1. b - n \in 1..m /\ p[b] = r[b - n]
      BY <1>5, <1>6, <2>3
    <3> QED
      BY <1>4, <1>7, <3>1
  <2> QED
    BY <1>8, <2>1, <2>2, <2>3
<1>9. OnceEach(p)
  BY <1>2, <1>8 DEF OnceEach
<1>10. \A i \in 1..n + m : p[i] \in Listed(q) \cup Listed(r)
  <2> TAKE i \in 1..n + m
  <2>1. CASE i \in 1..n
    BY <1>1, <1>4, <2>1 DEF Listed
  <2>2. CASE i \notin 1..n
    <3>1. i - n \in 1..m /\ n + (i - n) = i
      BY <1>6, <2>2
    <3>2. p[i] = r[i - n]
      BY <1>5, <3>1
    <3> QED
      BY <1>1, <3>1, <3>2 DEF Listed
  <2> QED
    BY <2>1, <2>2
<1>11. Listed(p) \subseteq Listed(q) \cup Listed(r)
  BY <1>2, <1>10 DEF Listed
<1>12. Listed(q) \cup Listed(r) \subseteq Listed(p)
  <2>1. \A i \in 1..n : q[i] \in Listed(p)
    BY <1>2, <1>4 DEF Listed
  <2>2. \A i \in 1..m : r[i] \in Listed(p)
    BY <1>2, <1>5 DEF Listed
  <2> QED
    BY <1>1, <2>1, <2>2 DEF Listed
<1>13. Listed(p) = Listed(q) \cup Listed(r)
  BY <1>11, <1>12
<1> QED
  BY <1>2, <1>9, <1>13 DEF p

\* An element goes behind all that it is made from.
LEMMA InputsAreBefore ==
    ASSUME NEW S, NEW q \in Seq(S), NEW x \in S, NEW up,
           AfterInputs(q, up, S), up[x] \cap S \subseteq Listed(q)
    PROVE  AfterInputs(Append(q, x), up, S)
<1> DEFINE p == Append(q, x)
<1>1. Len(q) \in Nat /\ DOMAIN q = 1..Len(q)
  BY LenProperties
<1>2. /\ DOMAIN p = 1..Len(q) + 1
      /\ \A i \in 1..Len(q) : p[i] = q[i]
      /\ p[Len(q) + 1] = x
  BY <1>1, AppendProperties, LenProperties
<1>3. \A i \in 1..Len(q) : i \in 1..Len(q) + 1 /\ i < Len(q) + 1
  BY <1>1
<1> HIDE DEF p
<1>4. ASSUME NEW i \in 1..Len(q) + 1, NEW y \in up[p[i]] \cap S
      PROVE  \E j \in 1..Len(q) + 1 : j < i /\ p[j] = y
  <2>1. CASE i = Len(q) + 1
    <3>1. y \in Listed(q)
      BY <1>2, <1>4, <2>1
    <3>2. PICK j \in 1..Len(q) : q[j] = y
      BY <1>1, <3>1 DEF Listed
    <3> QED
      BY <1>2, <1>3, <2>1, <3>2
  <2>2. CASE i # Len(q) + 1
    <3>1. i \in 1..Len(q)
      BY <1>1, <2>2
    <3>2. PICK j \in 1..Len(q) : j < i /\ q[j] = y
      BY <1>1, <1>2, <1>4, <3>1 DEF AfterInputs
    <3> QED
      BY <1>2, <1>3, <3>2
  <2> QED
    BY <2>1, <2>2
<1>5. AfterInputs(p, up, S)
  BY <1>2, <1>4 DEF AfterInputs
<1> QED
  BY <1>5 DEF p

-----------------------------------------------------------------------------
(* Searches through a graph, in rounds.                                    *)

\* One round: what has something that was found above it is found as well.
Grown(up, found) == found \cup {x \in DOMAIN up : up[x] \cap found # {}}

\* g is a search of n rounds that begins with the set s.
IsSearch(up, s, n, g) ==
    g = [i \in 0..n |-> IF i = 0 THEN s ELSE Grown(up, g[i - 1])]

\* Each round of a search adds to the one before.
LEMMA SearchRounds ==
    ASSUME NEW up, NEW s, NEW n \in Nat, NEW g, IsSearch(up, s, n, g)
    PROVE  g[0] = s /\ \A i \in 1..n : g[i] = Grown(up, g[i - 1])
<1>1. \A i \in 0..n : g[i] = IF i = 0 THEN s ELSE Grown(up, g[i - 1])
  BY DEF IsSearch
<1> QED
  BY <1>1

\* A search of any length can be made.
LEMMA SearchExists ==
    ASSUME NEW up, NEW s, NEW k \in Nat
    PROVE  \E g : IsSearch(up, s, k, g)
<1> DEFINE Bad == {n \in Nat : ~ \E g : IsSearch(up, s, n, g)}
<1>1. SUFFICES ASSUME Bad # {} PROVE FALSE
  OBVIOUS
<1>2. PICK n \in Bad : \A t \in Bad : n <= t
  <2>1. Bad \subseteq Nat
    OBVIOUS
  <2> HIDE DEF Bad
  <2> QED
    BY <1>1, <2>1, LeastExists
<1>3. CASE n = 0
  <2> DEFINE g == [i \in 0..0 |-> s]
  <2>1. g = [i \in 0..0 |-> IF i = 0 THEN s ELSE Grown(up, g[i - 1])]
    OBVIOUS
  <2> HIDE DEF g
  <2> QED
    BY <1>3, <2>1 DEF IsSearch
<1>4. CASE n # 0
  <2>1. n - 1 \in Nat /\ n - 1 \notin Bad
    <3>1. n \in Nat
      OBVIOUS
    <3>2. n - 1 \in Nat
      BY <1>4, <3>1
    <3> HIDE DEF Bad
    <3> QED
      BY <1>2, <3>1, <3>2
  <2>2. PICK g : IsSearch(up, s, n - 1, g)
    BY <2>1
  <2>3. g[0] = s /\ \A i \in 1..n - 1 : g[i] = Grown(up, g[i - 1])
    BY <2>1, <2>2, SearchRounds
  <2> DEFINE h == [i \in 0..n |-> IF i = 0 THEN s ELSE Grown(up, g[i - 1])]
  <2>4. \A i \in 0..n - 1 : h[i] = g[i]
    BY <2>1, <2>3
  <2>5. \A i \in 0..n : i # 0 => i - 1 \in 0..n - 1
    OBVIOUS
  <2>6. \A i \in 0..n : h[i] = IF i = 0 THEN s ELSE Grown(up, h[i - 1])
    BY <2>4, <2>5
  <2>7. h = [i \in 0..n |-> h[i]]
    OBVIOUS
  <2> HIDE DEF h
  <2>8. IsSearch(up, s, n, h)
    BY <2>6, <2>7 DEF IsSearch
  <2> QED
    BY <2>8
<1> QED
  BY <1>3, <1>4

\* What a search has found stays within any set that has its beginning and
\* whatever is below its elements.
LEMMA SearchIsLeast ==
    ASSUME NEW up, NEW s, NEW k \in Nat, NEW g, IsSearch(up, s, k, g),
           NEW c, s \subseteq c, Grown(up, c) \subseteq c, NEW m \in 0..k
    PROVE  g[m] \subseteq c
<1> DEFINE Bad == {n \in Nat : n <= k /\ ~(g[n] \subseteq c)}
<1>1. SUFFICES ASSUME Bad # {} PROVE FALSE
  OBVIOUS
<1>2. PICK n \in Bad : \A t \in Bad : n <= t
  <2>1. Bad \subseteq Nat
    OBVIOUS
  <2> HIDE DEF Bad
  <2> QED
    BY <1>1, <2>1, LeastExists
<1>3. n # 0
  BY SearchRounds
<1>4. n - 1 \in Nat /\ n - 1 \notin Bad /\ n - 1 <= k /\ n \in 1..k
  <2>1. n \in Nat /\ n <= k
    OBVIOUS
  <2>2. n - 1 \in Nat /\ n - 1 <= k /\ n \in 1..k
    BY <1>3, <2>1
  <2> HIDE DEF Bad
  <2> QED
    BY <1>2, <2>1, <2>2
<1>5. g[n - 1] \subseteq c
  BY <1>4
<1>6. g[n] = Grown(up, g[n - 1])
  BY <1>4, SearchRounds
<1>7. Grown(up, g[n - 1]) \subseteq Grown(up, c)
  BY <1>5 DEF Grown
<1> QED
  BY <1>6, <1>7

\* After as many rounds as there are elements nothing more is found, and what
\* the search began with is there.
LEMMA SearchCloses ==
    ASSUME NEW D, IsFiniteSet(D), NEW up, DOMAIN up = D, NEW s, s \subseteq D,
           NEW g, IsSearch(up, s, Cardinality(D), g)
    PROVE  /\ s \subseteq g[Cardinality(D)] /\ g[Cardinality(D)] \subseteq D
           /\ Grown(up, g[Cardinality(D)]) = g[Cardinality(D)]
<1> DEFINE N == Cardinality(D)
<1>1. N \in Nat
  BY FS_CardinalityType
<1>2. g[0] = s /\ \A i \in 1..N : g[i] = Grown(up, g[i - 1])
  <2>1. IsSearch(up, s, N, g)
    OBVIOUS
  <2> HIDE DEF N
  <2> QED
    BY <1>1, <2>1, SearchRounds
<1>3. \A i \in 0..N : g[i] \subseteq D
  <2>1. Grown(up, D) \subseteq D
    BY DEF Grown
  <2> QED
    BY <1>1, <2>1, SearchIsLeast
<1>4. \A i \in 0..N : IsFiniteSet(g[i]) /\ Cardinality(g[i]) \in Nat
  BY <1>3, FS_Subset, FS_CardinalityType
<1> HIDE DEF N
<1> DEFINE Short(n) == Grown(up, g[n]) # g[n] /\ ~(Cardinality(g[n]) >= n)
           Bad == {n \in Nat : n <= N /\ (Short(n) \/ ~(s \subseteq g[n]))}
<1>5. Bad = {}
  <2>1. SUFFICES ASSUME Bad # {} PROVE FALSE
    OBVIOUS
  <2>2. Bad \subseteq Nat
    OBVIOUS
  <2>3. PICK n \in Bad : \A t \in Bad : n <= t
    <3> HIDE DEF Bad
    <3> QED
      BY <2>1, <2>2, LeastExists
  <2>4. n \in Nat /\ n <= N /\ (Short(n) \/ ~(s \subseteq g[n]))
    OBVIOUS
  <2>5. n # 0
    BY <1>1, <1>2, <1>4, <2>4
  <2>6. n - 1 \in Nat /\ n - 1 <= N /\ n \in 1..N /\ n - 1 \in 0..N /\ n \in 0..N
    BY <1>1, <2>4, <2>5
  <2>7. ~Short(n - 1) /\ s \subseteq g[n - 1]
    <3>1. n - 1 \notin Bad
      <4> HIDE DEF Bad
      <4> QED
        BY <2>3, <2>4, <2>6
    <3> QED
      BY <2>6, <3>1
  <2>8. g[n] = Grown(up, g[n - 1]) /\ g[n - 1] \subseteq g[n]
    BY <1>2, <2>6 DEF Grown
  <2>9. Short(n)
    BY <2>4, <2>7, <2>8
  <2>10. g[n] # g[n - 1]
    BY <2>9, <2>8, <2>7, <2>4, <2>6, <1>4
  <2>11. Cardinality(g[n - 1]) <= Cardinality(g[n]) /\ Cardinality(g[n - 1]) # Cardinality(g[n])
    BY <1>4, <2>6, <2>8, <2>10, FS_Subset
  <2>12. Cardinality(g[n - 1]) >= n - 1
    BY <2>7, <2>8, <2>10
  <2> QED
    BY <1>4, <2>4, <2>6, <2>9, <2>11, <2>12
<1>6. N \in 0..N
  BY <1>1
<1>7. ~Short(N) /\ s \subseteq g[N]
  BY <1>1, <1>5
<1>8. Grown(up, g[N]) = g[N]
  <2>1. SUFFICES ASSUME Cardinality(g[N]) >= N PROVE Grown(up, g[N]) = g[N]
    BY <1>7
  <2>2. Cardinality(g[N]) <= N /\ (Cardinality(g[N]) = N => g[N] = D)
    BY <1>3, <1>6, FS_Subset DEF N
  <2>3. g[N] = D
    BY <1>1, <1>4, <1>6, <2>1, <2>2
  <2> QED
    BY <2>3 DEF Grown
<1> QED
  BY <1>3, <1>6, <1>7, <1>8 DEF N

-----------------------------------------------------------------------------
(* Render plans.                                                           *)

\* Render!needs is inputs.  Which nodes were looked at, and with what end:
\* in the first pass no node from the cursor on, afterwards all.
PassIsOrderly ==
    /\ status \in [DOMAIN inputs -> {"pending", "completed", "skipped"}]
    /\ passes \in 1..2 /\ cursor \in Nat \ {0}
    /\ \A n \in DOMAIN inputs : status[n] = "pending" <=> passes = 1 /\ n >= cursor

CompletedHaveInputs ==
    \A n \in DOMAIN inputs : status[n] = "completed" =>
        \A d \in inputs[n] \cap DOMAIN inputs :
            status[d] = "completed" /\ (passes = 1 => d < n)

OrderedAreCompleted ==
    (\A n \in DOMAIN inputs : inputs[n] \cap DOMAIN inputs \subseteq 1 .. n - 1) =>
        \A n \in DOMAIN inputs : n < cursor => status[n] = "completed"

RenderInvariant ==
    /\ \E k \in Nat : DOMAIN inputs = 1..k /\ cursor <= k + 1
    /\ PassIsOrderly /\ CompletedHaveInputs /\ OrderedAreCompleted

\* A step of the studio is one of the render plan, or leaves it alone.
LEMMA RenderRun ==
    /\ StudioInit /\ service = "render" => Render!Init
    /\ [StudioNext]_studioVars =>
         service' = service /\ (service = "render" => [Render!Next]_renderVars)
BY DEF StudioInit, StudioNext, studioVars, renderVars

\* In the beginning nothing of a plan is rendered.
LEMMA RenderInit == Render!Init => RenderInvariant
<1> SUFFICES ASSUME Render!Init PROVE RenderInvariant
  OBVIOUS
<1>1. PICK k \in Nat : DOMAIN inputs = 1..k
  <2>1. CASE inputs \in RenderPlans
    <3>1. inputs \in Seq(SUBSET Nat)
      BY <2>1, StudioConstants DEF StudioConstants, Render!RenderConstants
    <3> QED
      BY <3>1, LenProperties
  <2>2. CASE inputs = Render!DefaultPlan
    BY <2>2 DEF Render!DefaultPlan
  <2> QED
    BY <2>1, <2>2 DEF Render!Init
<1>2. status = [n \in DOMAIN inputs |-> "pending"] /\ cursor = 1 /\ passes = 1
  BY DEF Render!Init, Render!Nodes
<1> QED
  BY <1>1, <1>2 DEF RenderInvariant, PassIsOrderly, CompletedHaveInputs, OrderedAreCompleted

\* Every node that is looked at keeps the invariant.
LEMMA RenderStep ==
    ASSUME RenderInvariant, [Render!Next]_renderVars PROVE RenderInvariant'
<1>1. PICK k \in Nat : DOMAIN inputs = 1..k /\ cursor <= k + 1
  BY DEF RenderInvariant
<1> USE DEF PassIsOrderly
<1>2. CASE UNCHANGED renderVars
  BY <1>2 DEF renderVars, RenderInvariant, CompletedHaveInputs, OrderedAreCompleted
<1>3. CASE Render!Execute
  <2>1. /\ cursor \in 1..k /\ cursor' = cursor + 1 /\ inputs' = inputs /\ passes' = passes
        /\ status' = [status EXCEPT ![cursor] =
                        IF Render!Ready(cursor) THEN "completed" ELSE "skipped"]
    BY <1>1, <1>3 DEF Render!Execute, Render!Nodes
  <2>2. Render!Ready(cursor) <=>
          \A d \in inputs[cursor] \cap DOMAIN inputs : status[d] = "completed"
    BY DEF Render!Ready, Render!Nodes
  <2>3. /\ \A n \in DOMAIN inputs : n # cursor => status'[n] = status[n]
        /\ status'[cursor] = IF Render!Ready(cursor) THEN "completed" ELSE "skipped"
        /\ DOMAIN status' = DOMAIN inputs
    BY <1>1, <2>1 DEF RenderInvariant
  <2>4. PassIsOrderly'
    BY <1>1, <2>1, <2>3 DEF RenderInvariant
  <2>5. \A n \in DOMAIN inputs : status[n] = "completed" => status'[n] = "completed"
    <3>1. status[cursor] = "completed" => Render!Ready(cursor)
      BY <1>1, <2>1, <2>2 DEF RenderInvariant, CompletedHaveInputs
    <3> QED
      BY <2>3, <3>1
  <2>6. CompletedHaveInputs'
    <3>1. SUFFICES ASSUME NEW n \in DOMAIN inputs, status'[n] = "completed",
                          NEW d \in inputs[n] \cap DOMAIN inputs
                   PROVE  status'[d] = "completed" /\ (passes = 1 => d < n)
      BY <2>1 DEF CompletedHaveInputs
    <3>2. CASE n # cursor
      BY <2>3, <2>5, <3>1, <3>2 DEF RenderInvariant, CompletedHaveInputs
    <3>3. CASE n = cursor
      <4>1. status[d] = "completed"
        BY <2>2, <2>3, <3>1, <3>3
      <4>2. passes = 1 => ~(d >= cursor)
        BY <4>1 DEF RenderInvariant
      <4> QED
        BY <1>1, <2>1, <2>5, <3>3, <4>1, <4>2
    <3> QED
      BY <3>2, <3>3
  <2>8. OrderedAreCompleted'
    <3>1. SUFFICES ASSUME \A n \in DOMAIN inputs :
                            inputs[n] \cap DOMAIN inputs \subseteq 1 .. n - 1,
                          NEW n \in DOMAIN inputs, n < cursor + 1
                   PROVE  status'[n] = "completed"
      BY <2>1 DEF OrderedAreCompleted
    <3>2. \A m \in DOMAIN inputs : m < cursor => status[m] = "completed"
      BY <3>1 DEF RenderInvariant, OrderedAreCompleted
    <3>3. CASE n # cursor
      BY <1>1, <2>1, <2>3, <3>1, <3>2, <3>3
    <3>4. CASE n = cursor
      <4>1. \A d \in inputs[cursor] \cap DOMAIN inputs : d < cursor
        BY <1>1, <2>1, <3>1
      <4> QED
        BY <2>2, <2>3, <3>2, <3>4, <4>1
    <3> QED
      BY <3>3, <3>4
  <2>9. DOMAIN inputs' = 1..k /\ cursor' <= k + 1
    BY <1>1, <2>1
  <2> QED
    BY <2>4, <2>6, <2>8, <2>9 DEF RenderInvariant
<1>4. CASE Render!ExecuteAgain
  <2>1. /\ cursor \notin 1..k /\ cursor' = 1 /\ passes = 1 /\ passes' = 2
        /\ inputs' = inputs /\ status' = status
    BY <1>1, <1>4 DEF Render!ExecuteAgain, Render!Nodes, RenderInvariant
  <2>2. cursor = k + 1
    BY <1>1, <2>1 DEF RenderInvariant
  <2>3. PassIsOrderly'
    BY <1>1, <2>1, <2>2 DEF RenderInvariant
  <2>4. CompletedHaveInputs'
    BY <2>1 DEF RenderInvariant, CompletedHaveInputs
  <2>5. OrderedAreCompleted'
    <3>1. SUFFICES ASSUME \A n \in DOMAIN inputs :
                            inputs[n] \cap DOMAIN inputs \subseteq 1 .. n - 1,
                          NEW n \in DOMAIN inputs
                   PROVE  status'[n] = "completed"
      BY <2>1 DEF OrderedAreCompleted
    <3>2. n < cursor
      BY <1>1, <2>2
    <3> QED
      BY <2>1, <3>1, <3>2 DEF RenderInvariant, OrderedAreCompleted
  <2>6. DOMAIN inputs' = 1..k /\ cursor' <= k + 1
    BY <1>1, <2>1
  <2> QED
    BY <2>3, <2>4, <2>5, <2>6 DEF RenderInvariant
<1> QED
  BY <1>2, <1>3, <1>4 DEF Render!Next

\* The invariant says that nothing is rendered without its inputs, and what a
\* plan in dependency order renders.
LEMMA RenderKept == RenderInvariant => Render!RendersFromInputs
<1> SUFFICES ASSUME RenderInvariant PROVE Render!RendersFromInputs
  OBVIOUS
<1>1. PICK k \in Nat : DOMAIN inputs = 1..k /\ cursor <= k + 1
  BY DEF RenderInvariant
<1>2. ASSUME \A n \in DOMAIN inputs : inputs[n] \cap DOMAIN inputs \subseteq 1 .. n - 1,
             NEW n \in 1 .. cursor - 1
      PROVE  status[n] = "completed"
  BY <1>1, <1>2 DEF RenderInvariant, OrderedAreCompleted, PassIsOrderly
<1> QED
  BY <1>1, <1>2 DEF Render!RendersFromInputs, Render!Nodes, RenderInvariant, CompletedHaveInputs

-----------------------------------------------------------------------------
(* Invalidation.                                                           *)

\* The graph has the artifacts that were added, each on earlier ones only, so
\* that of any artifacts one is made from none of the others.
GraphGrows(n, up) ==
    /\ n \subseteq Keys /\ up \in [Keys -> SUBSET n]
    /\ \A k \in Keys \ n : up[k] = {}
    /\ \A s \in SUBSET n : s # {} => \E e \in s : up[e] \cap s = {}

\* What is below the elements of a set in the graph.
LEMMA ChildrenGrow ==
    ASSUME GraphGrows(nodes, parents), NEW found
    PROVE  found \cup UNION {Artifacts!Children(c) : c \in found} = Grown(parents, found)
BY DEF GraphGrows, Artifacts!Children, Grown

\* affected_by() returns whatever is made from k, and nothing else.
LEMMA AffectedIsReach ==
    ASSUME GraphGrows(nodes, parents), NEW k
    PROVE  LET a == Artifacts!AffectedBy(k) IN
           /\ Artifacts!Children(k) \subseteq a /\ a \subseteq nodes
           /\ Grown(parents, a) = a
           /\ \A c : Artifacts!Children(k) \subseteq c /\ Grown(parents, c) \subseteq c
                       => a \subseteq c
<1> DEFINE N == Cardinality(Keys)
           s == Artifacts!Children(k)
           Finds(g) == g = [i \in 0..N |->
                              IF i = 0 THEN s
                              ELSE g[i - 1] \cup UNION {Artifacts!Children(c) : c \in g[i - 1]}]
           found == CHOOSE g : Finds(g)
<1>1. N \in Nat /\ IsFiniteSet(Keys)
  BY StudioConstants, FS_CardinalityType
  DEF StudioConstants, Artifacts!InvalidationConstants, Artifacts!IsFiniteSet, IsFiniteSet
<1>2. Artifacts!AffectedBy(k) = found[N]
  BY DEF Artifacts!AffectedBy, Artifacts!Cardinality, Cardinality
<1>3. \A g : Finds(g) <=> IsSearch(parents, s, N, g)
  <2> TAKE g
  <2>1. \A i \in 0..N : g[i - 1] \cup UNION {Artifacts!Children(c) : c \in g[i - 1]}
                          = Grown(parents, g[i - 1])
    BY ChildrenGrow
  <2>2. [i \in 0..N |-> IF i = 0 THEN s
                        ELSE g[i - 1] \cup UNION {Artifacts!Children(c) : c \in g[i - 1]}]
          = [i \in 0..N |-> IF i = 0 THEN s ELSE Grown(parents, g[i - 1])]
    <3> HIDE DEF s, N
    <3> QED
      BY <2>1
  <2> QED
    BY <2>2 DEF IsSearch
<1>4. IsSearch(parents, s, N, found)
  <2>1. \E g : IsSearch(parents, s, N, g)
    <3> HIDE DEF s, N
    <3> QED
      BY <1>1, SearchExists
  <2>2. \E g : Finds(g)
    BY <1>3, <2>1
  <2>3. Finds(found)
    <3> HIDE DEF Finds
    <3> QED
      BY <2>2
  <2> HIDE DEF found, Finds
  <2> QED
    BY <1>3, <2>3
<1>5. s \subseteq nodes /\ s \subseteq Keys /\ DOMAIN parents = Keys
  BY DEF GraphGrows, Artifacts!Children
<1> HIDE DEF found, s
<1>6. /\ s \subseteq found[N]
      /\ Grown(parents, found[N]) = found[N]
  BY <1>1, <1>4, <1>5, SearchCloses
<1> HIDE DEF N
<1>7. ASSUME NEW c, s \subseteq c, Grown(parents, c) \subseteq c PROVE found[N] \subseteq c
  <2>1. N \in 0..N
    BY <1>1
  <2> QED
    BY <1>1, <1>4, <1>7, <2>1, SearchIsLeast
<1>8. Grown(parents, nodes) \subseteq nodes
  BY DEF GraphGrows, Grown
<1>9. found[N] \subseteq nodes
  BY <1>5, <1>7, <1>8
<1> QED
  BY <1>2, <1>6, <1>7, <1>9 DEF s

\* A listing of a set has every element once.
LEMMA ListingListsAll ==
    ASSUME NEW set, IsFiniteSet(set), NEW l \in Artifacts!Listings(set)
    PROVE  /\ l \in Seq(set) /\ Len(l) = Cardinality(set) /\ Len(l) \in Nat
           /\ DOMAIN l = 1..Len(l)
           /\ \A x \in set : \E i \in DOMAIN l : l[i] = x
           /\ \A i, j \in DOMAIN l : l[i] = l[j] => i = j
<1>1. Cardinality(set) \in Nat
  BY FS_CardinalityType
<1>2. /\ l \in [1..Cardinality(set) -> set]
      /\ \A i, j \in DOMAIN l : l[i] = l[j] => i = j
  BY DEF Artifacts!Listings, Artifacts!Cardinality, Cardinality
<1>3. l \in Seq(set) /\ Len(l) = Cardinality(set)
  BY <1>1, <1>2, SeqDef
<1>4. l \in Injection(1..Cardinality(set), set)
  BY <1>2 DEF Injection, IsInjective
<1>5. l \in Surjection(1..Cardinality(set), set)
  <2>1. Cardinality(1..Cardinality(set)) = Cardinality(set)
    BY <1>1, FS_Interval
  <2> QED
    BY <1>4, <2>1, FS_Injection
<1>6. \A x \in set : \E i \in DOMAIN l : l[i] = x
  BY <1>5, <1>2 DEF Surjection
<1> QED
  BY <1>1, <1>2, <1>3, <1>6

\* A plan in the making: what is stale, and the order in which it will be
\* rendered, with the number of inputs that are still missing.
PlanIsStale(n, up, root, stale) ==
    /\ root \subseteq stale /\ stale \subseteq n
    /\ Grown(up, stale) \subseteq stale
    /\ \A c : root \subseteq c /\ Grown(up, c) \subseteq c => stale \subseteq c

PlanIsOrdered(up, stale, degree, queue, order) ==
    /\ order \in Seq(stale) /\ queue \in Seq(stale)
    /\ OnceEach(order) /\ OnceEach(queue) /\ Listed(order) \cap Listed(queue) = {}
    /\ degree \in [stale -> Nat]
    /\ \A k \in stale : degree[k] = Cardinality((up[k] \cap stale) \ Listed(order))
    /\ \A k \in stale : degree[k] = 0 <=> k \in Listed(order) \cup Listed(queue)
    /\ AfterInputs(order, up, stale)

ArtifactsInvariant ==
    /\ GraphGrows(nodes, parents)
    /\ plan # Artifacts!NoPlan =>
         /\ PlanIsStale(nodes, parents, plan.root, plan.stale)
         /\ PlanIsOrdered(parents, plan.stale, plan.degree, plan.queue, plan.order)
         /\ plan = [root |-> plan.root, stale |-> plan.stale, degree |-> plan.degree,
                    queue |-> plan.queue, order |-> plan.order]

\* A step of the studio is one of the graph, or leaves it alone.
LEMMA ArtifactsRun ==
    /\ StudioInit /\ service = "artifacts" => Artifacts!Init
    /\ [StudioNext]_studioVars =>
         service' = service /\ (service = "artifacts" => [Artifacts!Next]_artifactsVars)
BY DEF StudioInit, StudioNext, studioVars, artifactsVars

\* In the beginning there are no artifacts.
LEMMA ArtifactsInit == Artifacts!Init => ArtifactsInvariant
BY DEF Artifacts!Init, ArtifactsInvariant, GraphGrows

\* A new artifact is made from earlier ones.
LEMMA ArtifactIsAdded ==
    ASSUME ArtifactsInvariant, NEW k \in Keys, NEW dependencies \in SUBSET Keys,
           Artifacts!Add(k, dependencies)
    PROVE  ArtifactsInvariant'
<1>1. /\ plan = Artifacts!NoPlan /\ plan' = plan
      /\ k \notin nodes /\ dependencies \subseteq nodes
      /\ nodes' = nodes \cup {k}
      /\ parents' = [parents EXCEPT ![k] = dependencies]
  BY DEF Artifacts!Add
<1>2. nodes \subseteq Keys /\ parents \in [Keys -> SUBSET nodes]
  BY DEF ArtifactsInvariant, GraphGrows
<1>3. nodes' \subseteq Keys /\ parents' \in [Keys -> SUBSET nodes']
  BY <1>1, <1>2
<1>4. \A x \in Keys \ nodes' : parents'[x] = {}
  BY <1>1, <1>2 DEF ArtifactsInvariant, GraphGrows
<1>5. ASSUME NEW s \in SUBSET nodes', s # {}
      PROVE  \E e \in s : parents'[e] \cap s = {}
  <2>1. CASE s \ {k} = {}
    BY <1>1, <1>2, <1>5, <2>1
  <2>2. CASE s \ {k} # {}
    <3>1. PICK e \in s \ {k} : parents[e] \cap (s \ {k}) = {}
      BY <1>1, <2>2 DEF ArtifactsInvariant, GraphGrows
    <3>2. k \notin parents[e] /\ parents'[e] = parents[e]
      BY <1>1, <1>2, <3>1
    <3> QED
      BY <3>1, <3>2
  <2> QED
    BY <2>1, <2>2
<1>6. GraphGrows(nodes', parents')
  BY <1>3, <1>4, <1>5 DEF GraphGrows
<1> QED
  BY <1>1, <1>6 DEF ArtifactsInvariant, Artifacts!NoPlan

\* What goes stale is the least that the roots are in and nothing leaves.
LEMMA StaleIsLeast ==
    ASSUME GraphGrows(nodes, parents), NEW roots, roots \subseteq nodes
    PROVE  PlanIsStale(nodes, parents, roots, Artifacts!Stale(roots))
<1> DEFINE stale == Artifacts!Stale(roots)
<1>1. stale = roots \cup UNION {Artifacts!AffectedBy(r) : r \in roots}
  BY DEF Artifacts!Stale
<1>2. ASSUME NEW r \in roots
      PROVE  /\ Artifacts!Children(r) \subseteq Artifacts!AffectedBy(r)
             /\ Artifacts!AffectedBy(r) \subseteq nodes
             /\ Grown(parents, Artifacts!AffectedBy(r)) = Artifacts!AffectedBy(r)
             /\ \A c : Artifacts!Children(r) \subseteq c /\ Grown(parents, c) \subseteq c
                         => Artifacts!AffectedBy(r) \subseteq c
  BY AffectedIsReach
<1> HIDE DEF stale
<1>3. roots \subseteq stale /\ stale \subseteq nodes
  BY <1>1, <1>2
<1>4. ASSUME NEW x \in DOMAIN parents, NEW y \in parents[x], y \in stale PROVE x \in stale
  <2>1. x \in nodes
    BY <1>4 DEF GraphGrows
  <2>2. CASE y \in roots
    <3>1. x \in Artifacts!Children(y)
      BY <1>4, <2>1 DEF Artifacts!Children
    <3> QED
      BY <1>1, <1>2, <2>2, <3>1
  <2>3. ASSUME NEW r \in roots, y \in Artifacts!AffectedBy(r) PROVE x \in stale
    <3>1. x \in Grown(parents, Artifacts!AffectedBy(r))
      BY <1>4, <2>3 DEF Grown
    <3> QED
      BY <1>1, <1>2, <3>1
  <2> QED
    BY <1>1, <1>4, <2>2, <2>3
<1>5. Grown(parents, stale) \subseteq stale
  BY <1>4 DEF Grown
<1>6. ASSUME NEW c, roots \subseteq c, Grown(parents, c) \subseteq c PROVE stale \subseteq c
  <2>1. ASSUME NEW r \in roots PROVE Artifacts!Children(r) \subseteq c
    BY <1>6, <2>1 DEF Artifacts!Children, Grown, GraphGrows
  <2> QED
    BY <1>1, <1>2, <1>6, <2>1
<1> QED
  BY <1>3, <1>5, <1>6 DEF PlanIsStale, stale

\* Sets of artifacts are finite.
LEMMA ArtifactsAreFinite ==
    ASSUME GraphGrows(nodes, parents), NEW s, s \subseteq nodes
    PROVE  IsFiniteSet(s) /\ Cardinality(s) \in Nat /\ (Cardinality(s) = 0 <=> s = {})
<1>1. IsFiniteSet(Keys)
  BY StudioConstants
  DEF StudioConstants, Artifacts!InvalidationConstants, Artifacts!IsFiniteSet, IsFiniteSet
<1>2. IsFiniteSet(s)
  BY <1>1, FS_Subset DEF GraphGrows
<1> QED
  BY <1>2, FS_CardinalityType, FS_EmptySet

\* A plan begins with what is stale and waits for nothing stale.
LEMMA PlanBegins ==
    ASSUME ArtifactsInvariant, NEW what, Artifacts!BeginPlan(what)
    PROVE  ArtifactsInvariant'
<1> DEFINE roots == Artifacts!Roots(what)
           stale == Artifacts!Stale(roots)
           free == {k \in stale : parents[k] \cap stale = {}}
           degree == [k \in stale |-> Cardinality(parents[k] \cap stale)]
<1>1. PICK queue \in Artifacts!Listings(free) :
        plan' = [root |-> roots, stale |-> stale, degree |-> degree, queue |-> queue,
                 order |-> <<>>]
  BY DEF Artifacts!BeginPlan, Artifacts!Cardinality, Cardinality
<1>2. UNCHANGED <<nodes, kind, parents>> /\ GraphGrows(nodes, parents)
  BY DEF Artifacts!BeginPlan, ArtifactsInvariant
<1>3. PlanIsStale(nodes, parents, roots, stale)
  BY <1>2, StaleIsLeast DEF Artifacts!Roots
<1> HIDE DEF roots, stale
<1>4. stale \subseteq nodes /\ \A k \in stale : parents[k] \subseteq nodes
  BY <1>2, <1>3 DEF PlanIsStale, GraphGrows
<1>5. /\ queue \in Seq(free) /\ OnceEach(queue)
      /\ \A k \in free : \E i \in DOMAIN queue : queue[i] = k
      /\ DOMAIN queue = 1..Len(queue)
  <2>1. IsFiniteSet(free)
    BY <1>2, <1>4, ArtifactsAreFinite
  <2> HIDE DEF free
  <2> QED
    BY <2>1, ListingListsAll DEF OnceEach
<1>6. Listed(queue) = free /\ queue \in Seq(stale)
  <2>1. \A i \in DOMAIN queue : queue[i] \in free
    BY <1>5
  <2>2. queue \in [1..Len(queue) -> stale] /\ Len(queue) \in Nat
    BY <1>5, <2>1, LenProperties
  <2> QED
    BY <1>5, <2>1, <2>2, SeqDef DEF Listed
<1>7. /\ <<>> \in Seq(stale) /\ OnceEach(<<>>) /\ Listed(<<>>) = {}
      /\ AfterInputs(<<>>, parents, stale)
  BY DEF OnceEach, Listed, AfterInputs
<1>8. \A k \in stale : /\ degree[k] \in Nat
                       /\ degree[k] = Cardinality((parents[k] \cap stale) \ {})
                       /\ degree[k] = 0 <=> k \in free
  <2> TAKE k \in stale
  <2>1. degree[k] = Cardinality(parents[k] \cap stale)
    OBVIOUS
  <2>2. (parents[k] \cap stale) \ {} = parents[k] \cap stale
    OBVIOUS
  <2>3. Cardinality(parents[k] \cap stale) \in Nat
        /\ (Cardinality(parents[k] \cap stale) = 0 <=> parents[k] \cap stale = {})
    BY <1>2, <1>4, ArtifactsAreFinite
  <2> HIDE DEF degree
  <2> QED
    BY <2>1, <2>2, <2>3
<1>9. PlanIsOrdered(parents, stale, degree, queue, <<>>)
  <2>1. degree \in [stale -> Nat]
    BY <1>8
  <2> HIDE DEF degree, free
  <2> QED
    BY <1>5, <1>6, <1>7, <1>8, <2>1 DEF PlanIsOrdered
<1> HIDE DEF degree, free
<1> QED
  BY <1>1, <1>2, <1>3, <1>9 DEF ArtifactsInvariant

\* One round of the loop: the artifact taken is one that nothing keeps waiting,
\* and those that it frees were waiting for it alone.
LEMMA PlanGoesOn ==
    ASSUME ArtifactsInvariant, Artifacts!TakeNext
    PROVE  ArtifactsInvariant'
<1> DEFINE stale == plan.stale
           queue == plan.queue
           order == plan.order
           node == Head(queue)
           hit == Artifacts!Children(node) \cap stale
           degree == [k \in stale |-> plan.degree[k] - (IF k \in hit THEN 1 ELSE 0)]
           free == {c \in hit : degree[c] = 0}
<1>1. PICK freed \in Artifacts!Listings(free) :
        plan' = [plan EXCEPT !.degree = degree, !.order = Append(order, node),
                             !.queue = Tail(queue) \o freed]
  BY DEF Artifacts!TakeNext
<1>2. queue # <<>> /\ UNCHANGED <<nodes, kind, parents>> /\ GraphGrows(nodes, parents)
  BY DEF Artifacts!TakeNext, ArtifactsInvariant
<1>3. plan # Artifacts!NoPlan
  BY <1>2 DEF Artifacts!NoPlan
<1>4. /\ PlanIsStale(nodes, parents, plan.root, stale)
      /\ PlanIsOrdered(parents, stale, plan.degree, queue, order)
      /\ plan = [root |-> plan.root, stale |-> stale, degree |-> plan.degree,
                 queue |-> queue, order |-> order]
  BY <1>3 DEF ArtifactsInvariant
<1>5. plan' = [root |-> plan.root, stale |-> stale, degree |-> degree,
               queue |-> Tail(queue) \o freed, order |-> Append(order, node)]
  <2> DEFINE o == Append(order, node)
             q == Tail(queue) \o freed
  <2>1. plan' = [plan EXCEPT !.degree = degree, !.order = o, !.queue = q]
    BY <1>1
  <2> HIDE DEF degree, o, q
  <2>2. plan' = [root |-> plan.root, stale |-> plan.stale, degree |-> degree,
                 queue |-> q, order |-> o]
    BY <1>4, <2>1
  <2> QED
    BY <2>2 DEF o, q
<1>6. /\ stale \subseteq nodes
      /\ order \in Seq(stale) /\ queue \in Seq(stale)
      /\ OnceEach(order) /\ OnceEach(queue) /\ Listed(order) \cap Listed(queue) = {}
      /\ \A k \in stale : plan.degree[k] = Cardinality((parents[k] \cap stale) \ Listed(order))
      /\ \A k \in stale : plan.degree[k] = 0 <=> k \in Listed(order) \cup Listed(queue)
      /\ AfterInputs(order, parents, stale)
  BY <1>4 DEF PlanIsStale, PlanIsOrdered
<1> HIDE DEF stale, queue, order
<1>7. /\ Tail(queue) \in Seq(stale) /\ OnceEach(Tail(queue)) /\ node \in stale
      /\ node \in Listed(queue) /\ Listed(Tail(queue)) = Listed(queue) \ {node}
  BY <1>2, <1>6, ListedTaken
<1> HIDE DEF node
<1>8. /\ Append(order, node) \in Seq(stale) /\ OnceEach(Append(order, node))
      /\ Listed(Append(order, node)) = Listed(order) \cup {node}
  BY <1>6, <1>7, ListedBehind
<1>9. \A k \in stale : k \in hit <=> node \in parents[k]
  BY <1>6 DEF Artifacts!Children
<1> HIDE DEF hit
<1>10. ASSUME NEW k \in stale
       PROVE  /\ degree[k] \in Nat
              /\ degree[k] = Cardinality((parents[k] \cap stale) \ (Listed(order) \cup {node}))
              /\ k \in hit => plan.degree[k] # 0
              /\ k \notin hit => degree[k] = plan.degree[k]
  <2> DEFINE w == (parents[k] \cap stale) \ Listed(order)
  <2>1. w \subseteq nodes
    BY <1>6
  <2>2. IsFiniteSet(w) /\ Cardinality(w) \in Nat /\ plan.degree[k] = Cardinality(w)
    BY <1>2, <1>6, <2>1, ArtifactsAreFinite
  <2>3. (parents[k] \cap stale) \ (Listed(order) \cup {node}) = w \ {node}
    OBVIOUS
  <2>4. CASE k \in hit
    <3>1. node \in w
      BY <1>6, <1>7, <1>9, <2>4
    <3> HIDE DEF w
    <3>2. Cardinality(w \ {node}) = Cardinality(w) - 1 /\ Cardinality(w \ {node}) \in Nat
      BY <2>2, <3>1, FS_RemoveElement, FS_CardinalityType
    <3>3. degree[k] = plan.degree[k] - 1
      BY <2>4
    <3> HIDE DEF degree
    <3> QED
      BY <2>2, <2>3, <2>4, <3>2, <3>3
  <2>5. CASE k \notin hit
    <3>1. node \notin w
      BY <1>9, <2>5
    <3>2. w \ {node} = w
      BY <3>1
    <3>3. degree[k] = plan.degree[k] - 0
      BY <2>5
    <3>4. Cardinality((parents[k] \cap stale) \ (Listed(order) \cup {node})) = plan.degree[k]
      BY <2>2, <2>3, <3>2
    <3>5. plan.degree[k] \in Nat
      BY <2>2
    <3> HIDE DEF degree, w
    <3>6. degree[k] = plan.degree[k]
      BY <3>3, <3>5
    <3> QED
      BY <2>5, <3>4, <3>5, <3>6
  <2> QED
    BY <2>4, <2>5
<1>11. degree \in [stale -> Nat]
  BY <1>10
<1> HIDE DEF degree
<1>12. free \subseteq stale /\ free \cap (Listed(order) \cup Listed(queue)) = {}
  <2>1. hit \subseteq stale
    BY DEF hit
  <2> QED
    BY <1>6, <1>10, <2>1
<1>13. freed \in Seq(stale) /\ OnceEach(freed) /\ Listed(freed) = free
  <2>1. IsFiniteSet(free)
    BY <1>2, <1>6, <1>12, ArtifactsAreFinite
  <2> HIDE DEF free
  <2>2. /\ freed \in Seq(free) /\ Len(freed) \in Nat /\ DOMAIN freed = 1..Len(freed)
        /\ \A x \in free : \E i \in DOMAIN freed : freed[i] = x
        /\ OnceEach(freed)
    BY <2>1, ListingListsAll DEF OnceEach
  <2>3. \A i \in DOMAIN freed : freed[i] \in free
    BY <2>2
  <2>4. freed \in [1..Len(freed) -> stale]
    BY <1>12, <2>2, <2>3, LenProperties
  <2>5. Listed(freed) = free
    BY <2>2, <2>3 DEF Listed
  <2> QED
    BY <2>2, <2>4, <2>5, SeqDef
<1>14. /\ Tail(queue) \o freed \in Seq(stale) /\ OnceEach(Tail(queue) \o freed)
       /\ Listed(Tail(queue) \o freed) = (Listed(queue) \ {node}) \cup free
  <2> DEFINE rest == Tail(queue)
  <2>1. Listed(rest) \cap Listed(freed) = {}
    BY <1>7, <1>12, <1>13
  <2>2. rest \in Seq(stale) /\ OnceEach(rest) /\ freed \in Seq(stale) /\ OnceEach(freed)
    BY <1>7, <1>13
  <2>3. Listed(rest) = Listed(queue) \ {node} /\ Listed(freed) = free
    BY <1>7, <1>13
  <2> HIDE DEF free, rest
  <2>4. /\ rest \o freed \in Seq(stale) /\ OnceEach(rest \o freed)
        /\ Listed(rest \o freed) = Listed(rest) \cup Listed(freed)
    BY <2>1, <2>2, ListedTogether
  <2>5. /\ rest \o freed \in Seq(stale) /\ OnceEach(rest \o freed)
        /\ Listed(rest \o freed) = (Listed(queue) \ {node}) \cup free
    BY <2>3, <2>4
  <2> QED
    BY <2>5 DEF rest
<1>15. \A k \in stale : degree[k] = 0 <=> k \in Listed(order) \cup Listed(queue) \cup free
  <2> TAKE k \in stale
  <2>1. CASE k \in hit
    BY <1>6, <1>10, <2>1
  <2>2. CASE k \notin hit
    BY <1>6, <1>10, <2>2
  <2> QED
    BY <2>1, <2>2
<1>16. AfterInputs(Append(order, node), parents, stale)
  <2>1. parents[node] \cap stale \subseteq Listed(order)
    <3>1. plan.degree[node] = 0
      BY <1>6, <1>7
    <3>2. (parents[node] \cap stale) \ Listed(order) \subseteq nodes
      BY <1>6
    <3>3. (parents[node] \cap stale) \ Listed(order) = {}
      <4>1. Cardinality((parents[node] \cap stale) \ Listed(order)) = 0
        BY <1>6, <1>7, <3>1
      <4> QED
        BY <1>2, <3>2, <4>1, ArtifactsAreFinite
    <3> QED
      BY <3>3
  <2> QED
    BY <1>6, <1>7, <2>1, InputsAreBefore
<1> DEFINE later == Tail(queue) \o freed
           after == Append(order, node)
<1>17. /\ Listed(after) \cup Listed(later) = Listed(order) \cup Listed(queue) \cup free
       /\ Listed(after) \cap Listed(later) = {}
  BY <1>6, <1>7, <1>8, <1>12, <1>14
<1>18. PlanIsOrdered(parents, stale, degree, later, after)
  <2>1. \A k \in stale : degree[k] = Cardinality((parents[k] \cap stale) \ Listed(after))
    BY <1>8, <1>10
  <2>2. \A k \in stale : degree[k] = 0 <=> k \in Listed(after) \cup Listed(later)
    BY <1>15, <1>17
  <2>3. after \in Seq(stale) /\ later \in Seq(stale) /\ OnceEach(after) /\ OnceEach(later)
    BY <1>8, <1>14
  <2>4. AfterInputs(after, parents, stale)
    BY <1>16
  <2> HIDE DEF after, later
  <2> QED
    BY <1>11, <1>17, <2>1, <2>2, <2>3, <2>4 DEF PlanIsOrdered
<1>19. plan' = [root |-> plan.root, stale |-> stale, degree |-> degree,
                queue |-> later, order |-> after]
  BY <1>5 DEF stale, queue, order, node
<1> HIDE DEF later, after
<1>20. /\ plan'.root = plan.root /\ plan'.stale = stale /\ plan'.degree = degree
       /\ plan'.queue = later /\ plan'.order = after
  BY <1>19
<1>21. PlanIsStale(nodes', parents', plan'.root, plan'.stale)
  BY <1>2, <1>4, <1>20 DEF stale
<1>22. PlanIsOrdered(parents', plan'.stale, plan'.degree, plan'.queue, plan'.order)
  BY <1>2, <1>18, <1>20
<1> QED
  BY <1>2, <1>19, <1>20, <1>21, <1>22 DEF ArtifactsInvariant

\* Every step of the graph and of a plan keeps the invariant.
LEMMA ArtifactsStep ==
    ASSUME ArtifactsInvariant, [Artifacts!Next]_artifactsVars
    PROVE  ArtifactsInvariant'
<1>1. CASE UNCHANGED artifactsVars
  BY <1>1 DEF artifactsVars, ArtifactsInvariant
<1>2. CASE Artifacts!Rendered
  BY <1>2 DEF Artifacts!Rendered, ArtifactsInvariant
<1> QED
  BY <1>1, <1>2, ArtifactIsAdded, PlanBegins, PlanGoesOn DEF Artifacts!Next

\* A finished plan has every stale artifact once, after its stale inputs: one
\* that was left out would have had nothing left to wait for.
LEMMA PlansAreExact == ArtifactsInvariant => Artifacts!PartialRenderIsExact
<1> SUFFICES ASSUME ArtifactsInvariant, plan # Artifacts!NoPlan
             PROVE  Artifacts!PartialRenderIsExact
  BY DEF Artifacts!PartialRenderIsExact, Artifacts!NothingStaleIsReused,
         Artifacts!NothingFreshIsRendered, Artifacts!OrderIsRunnable, Artifacts!Complete
<1> DEFINE stale == plan.stale
           order == plan.order
<1>1. /\ GraphGrows(nodes, parents)
      /\ PlanIsStale(nodes, parents, plan.root, stale)
      /\ PlanIsOrdered(parents, stale, plan.degree, plan.queue, order)
  BY DEF ArtifactsInvariant
<1>2. DOMAIN parents = Keys /\ nodes \subseteq Keys /\ \A k \in Keys \ nodes : parents[k] = {}
  BY <1>1 DEF GraphGrows
<1>3. Artifacts!NothingStaleIsReused
  BY <1>1, <1>2 DEF Artifacts!NothingStaleIsReused, PlanIsStale, Grown
<1>4. Artifacts!NothingFreshIsRendered
  <2>1. ASSUME NEW s \in SUBSET nodes, plan.root \subseteq s,
               \A k \in nodes : parents[k] \cap s # {} => k \in s
        PROVE  stale \subseteq s
    <3>1. Grown(parents, s) \subseteq s
      BY <1>2, <2>1 DEF Grown
    <3> QED
      BY <1>1, <2>1, <3>1 DEF PlanIsStale
  <2> QED
    BY <2>1 DEF Artifacts!NothingFreshIsRendered
<1>5. ASSUME plan.queue = <<>> PROVE Listed(order) = stale
  <2>1. order \in Seq(stale) /\ stale \subseteq nodes
    BY <1>1 DEF PlanIsOrdered, PlanIsStale
  <2>2. Listed(order) \subseteq stale
    BY <2>1, LenProperties DEF Listed
  <2> DEFINE stuck == stale \ Listed(order)
  <2>3. SUFFICES ASSUME stuck # {} PROVE FALSE
    BY <2>2
  <2>4. PICK e \in stuck : parents[e] \cap stuck = {}
    BY <1>1, <2>1, <2>3 DEF GraphGrows
  <2>5. (parents[e] \cap stale) \ Listed(order) = {}
    BY <2>4
  <2>6. plan.degree[e] = 0
    BY <1>1, <2>4, <2>5, FS_EmptySet DEF PlanIsOrdered
  <2>7. Listed(plan.queue) = {}
    BY <1>5 DEF Listed
  <2> QED
    BY <1>1, <2>4, <2>6, <2>7 DEF PlanIsOrdered
<1>6. order \in Seq(stale) /\ OnceEach(order) /\ AfterInputs(order, parents, stale)
  BY <1>1 DEF PlanIsOrdered
<1>7. Len(order) \in Nat /\ DOMAIN order = 1..Len(order) /\ order \in [1..Len(order) -> stale]
  BY <1>6, LenProperties
<1> HIDE DEF order, stale
<1>8. ASSUME Listed(order) = stale PROVE Len(order) = Cardinality(stale)
  <2>1. order \in Bijection(1..Len(order), stale)
    BY <1>6, <1>7, <1>8
    DEF Bijection, Injection, Surjection, IsInjective, OnceEach, Listed
  <2>2. Cardinality(1..Len(order)) = Len(order) /\ IsFiniteSet(1..Len(order))
    BY <1>7, FS_Interval
  <2> QED
    BY <2>1, <2>2, FS_Bijection DEF ExistsBijection
<1>9. \A i, j \in DOMAIN order : order[j] \in parents[order[i]] => j < i
  <2> TAKE i, j \in DOMAIN order
  <2>1. SUFFICES ASSUME order[j] \in parents[order[i]] PROVE j < i
    OBVIOUS
  <2>2. order[j] \in stale
    BY <1>7
  <2>3. PICK m \in DOMAIN order : m < i /\ order[m] = order[j]
    BY <1>6, <2>1, <2>2 DEF AfterInputs
  <2> QED
    BY <1>6, <2>3 DEF OnceEach
<1>10. Artifacts!OrderIsRunnable
  BY <1>5, <1>8, <1>9
  DEF Artifacts!OrderIsRunnable, Artifacts!Complete, Artifacts!Cardinality, Cardinality,
      Listed, order, stale
<1> QED
  BY <1>3, <1>4, <1>10 DEF Artifacts!PartialRenderIsExact

-----------------------------------------------------------------------------
(* The graph of jobs.                                                      *)

\* There are as many jobs as the constant says.
LEMMA JobsAreFinite ==
    /\ NumJobs \in Nat /\ Graph!Jobs = 1..NumJobs
    /\ IsFiniteSet(Graph!Jobs) /\ Cardinality(Graph!Jobs) = NumJobs
<1>1. NumJobs \in Nat /\ Graph!Jobs = 1..NumJobs
  BY StudioConstants DEF StudioConstants, Graph!JobGraphConstants, Graph!Jobs
<1> QED
  BY <1>1, FS_Interval

\* How many of a set of numbers are smaller: a number of its own for each, up
\* to the size of the set.
LEMMA RanksAreDistinct ==
    ASSUME NEW set, set \subseteq Nat, IsFiniteSet(set)
    PROVE  [j \in set |-> Cardinality({k \in set : k < j})]
             \in Bijection(set, 0..Cardinality(set) - 1)
<1> DEFINE below(j) == {k \in set : k < j}
           rank == [j \in set |-> Cardinality(below(j))]
           n == Cardinality(set)
<1>1. n \in Nat
  BY FS_CardinalityType
<1>2. ASSUME NEW j \in set PROVE Cardinality(below(j)) \in 0..n - 1
  <2>1. below(j) \subseteq set /\ below(j) # set
    OBVIOUS
  <2> HIDE DEF below
  <2> QED
    BY <1>1, <2>1, FS_Subset, FS_CardinalityType
<1>3. ASSUME NEW i \in set, NEW j \in set, i < j
      PROVE  Cardinality(below(i)) # Cardinality(below(j))
  <2>1. below(i) \subseteq below(j) /\ below(i) # below(j)
    <3>1. i \in Nat /\ j \in Nat
      OBVIOUS
    <3>2. \A k \in set : k \in Nat /\ (k < i => k < j)
      BY <1>3, <3>1
    <3>3. i \in below(j) /\ i \notin below(i)
      BY <1>3, <3>1
    <3> QED
      BY <3>2, <3>3
  <2>2. below(j) \subseteq set
    OBVIOUS
  <2> HIDE DEF below
  <2>3. IsFiniteSet(below(j))
    BY <2>2, FS_Subset
  <2> QED
    BY <2>1, <2>3, FS_Subset
<1> HIDE DEF below
<1>4. rank \in [set -> 0..n - 1]
  BY <1>2
<1>5. \A i, j \in set : rank[i] = rank[j] => i = j
  <2> TAKE i, j \in set
  <2>1. i = j \/ i < j \/ j < i
    OBVIOUS
  <2> QED
    BY <1>3, <2>1
<1>6. rank \in Injection(set, 0..n - 1)
  <2>1. DOMAIN rank = set
    OBVIOUS
  <2> HIDE DEF rank, n
  <2>2. IsInjective(rank)
    BY <1>5, <2>1 DEF IsInjective
  <2> QED
    BY <1>4, <2>2 DEF Injection
<1>7. IsFiniteSet(0..n - 1) /\ Cardinality(0..n - 1) = n
  <2> HIDE DEF n
  <2>1. 0 \in Int /\ n - 1 \in Int /\ (0 > n - 1 => n = 0) /\ (n - 1) - 0 + 1 = n
    BY <1>1
  <2> QED
    BY <2>1, FS_Interval
<1>8. rank \in Surjection(set, 0..n - 1)
  <2> HIDE DEF rank
  <2> QED
    BY <1>6, <1>7, FS_Injection DEF n
<1> QED
  BY <1>6, <1>8 DEF Bijection, below

\* Sorted() lists every element of a set once.
LEMMA SortedListsAll ==
    ASSUME NEW set, set \subseteq Graph!Jobs
    PROVE  /\ Graph!Sorted(set) \in Seq(set) /\ OnceEach(Graph!Sorted(set))
           /\ Listed(Graph!Sorted(set)) = set
<1> DEFINE n == Cardinality(set)
           rank == [j \in set |-> Cardinality({k \in set : k < j})]
           s == Graph!Sorted(set)
<1>1. IsFiniteSet(set) /\ set \subseteq Nat
  <2>1. Graph!Jobs \subseteq Nat /\ IsFiniteSet(Graph!Jobs)
    BY JobsAreFinite
  <2> QED
    BY <2>1, FS_Subset
<1>2. n \in Nat
  BY <1>1, FS_CardinalityType
<1>3. rank \in Bijection(set, 0..n - 1)
  BY <1>1, RanksAreDistinct
<1>4. /\ DOMAIN rank = set
      /\ \A j \in set : rank[j] \in 0..n - 1
      /\ \A i, j \in set : rank[i] = rank[j] => i = j
      /\ \A m \in 0..n - 1 : \E j \in set : rank[j] = m
  <2> HIDE DEF rank, n
  <2> QED
    BY <1>3 DEF Bijection, Injection, Surjection, IsInjective
<1>5. \A j \in set : rank[j] = Graph!Cardinality({k \in set : k < j})
  BY DEF Graph!Cardinality, Cardinality
<1>6. s = [i \in 1..n |-> CHOOSE j \in set : Graph!Cardinality({k \in set : k < j}) = i - 1]
  BY DEF Graph!Sorted, Graph!Cardinality, Cardinality
<1> HIDE DEF rank, n, s
<1>7. ASSUME NEW i \in 1..n PROVE s[i] \in set /\ rank[s[i]] = i - 1
  <2>1. i - 1 \in 0..n - 1
    BY <1>2
  <2>2. \E j \in set : Graph!Cardinality({k \in set : k < j}) = i - 1
    BY <1>4, <1>5, <2>1
  <2>3. s[i] = CHOOSE j \in set : Graph!Cardinality({k \in set : k < j}) = i - 1
    BY <1>6
  <2>4. s[i] \in set /\ Graph!Cardinality({k \in set : k < s[i]}) = i - 1
    BY <2>2, <2>3
  <2> QED
    BY <1>5, <2>4
<1>8. s \in [1..n -> set]
  BY <1>6, <1>7
<1>9. \A i, j \in 1..n : s[i] = s[j] => i = j
  <2> TAKE i, j \in 1..n
  <2>1. rank[s[i]] = i - 1 /\ rank[s[j]] = j - 1
    BY <1>7
  <2> QED
    BY <1>2, <2>1
<1>10. ASSUME NEW x \in set PROVE \E i \in 1..n : s[i] = x
  <2>1. rank[x] \in 0..n - 1
    BY <1>4
  <2>2. rank[x] + 1 \in 1..n /\ (rank[x] + 1) - 1 = rank[x]
    BY <1>2, <2>1
  <2>3. s[rank[x] + 1] \in set /\ rank[s[rank[x] + 1]] = rank[x]
    BY <1>7, <2>2
  <2> QED
    BY <1>4, <2>2, <2>3
<1>11. s \in Seq(set) /\ DOMAIN s = 1..n
  BY <1>2, <1>8, SeqDef
<1> QED
  BY <1>8, <1>9, <1>10, <1>11 DEF OnceEach, Listed, s

\* A loop of n rounds.
IsLoop(deps, n, g) ==
    g = [i \in 0..n |-> IF i = 0 THEN Graph!Begun(deps) ELSE Graph!Taken(deps, g[i - 1])]

\* Each round of the loop takes from what the one before left.
LEMMA LoopRounds ==
    ASSUME NEW deps, NEW n \in Nat, NEW g, IsLoop(deps, n, g)
    PROVE  g[0] = Graph!Begun(deps) /\ \A i \in 1..n : g[i] = Graph!Taken(deps, g[i - 1])
<1>1. \A i \in 0..n : g[i] = IF i = 0 THEN Graph!Begun(deps) ELSE Graph!Taken(deps, g[i - 1])
  BY DEF IsLoop
<1> QED
  BY <1>1

\* A loop of any length can be made.
LEMMA LoopExists ==
    ASSUME NEW deps, NEW k \in Nat
    PROVE  \E g : IsLoop(deps, k, g)
<1> DEFINE Bad == {n \in Nat : ~ \E g : IsLoop(deps, n, g)}
<1>1. SUFFICES ASSUME Bad # {} PROVE FALSE
  OBVIOUS
<1>2. PICK n \in Bad : \A t \in Bad : n <= t
  <2>1. Bad \subseteq Nat
    OBVIOUS
  <2> HIDE DEF Bad
  <2> QED
    BY <1>1, <2>1, LeastExists
<1>3. CASE n = 0
  <2> DEFINE g == [i \in 0..0 |-> Graph!Begun(deps)]
  <2>1. g = [i \in 0..0 |-> IF i = 0 THEN Graph!Begun(deps) ELSE Graph!Taken(deps, g[i - 1])]
    OBVIOUS
  <2> HIDE DEF g
  <2> QED
    BY <1>3, <2>1 DEF IsLoop
<1>4. CASE n # 0
  <2>1. n - 1 \in Nat /\ n - 1 \notin Bad
    <3>1. n \in Nat
      OBVIOUS
    <3>2. n - 1 \in Nat
      BY <1>4, <3>1
    <3> HIDE DEF Bad
    <3> QED
      BY <1>2, <3>1, <3>2
  <2>2. PICK g : IsLoop(deps, n - 1, g)
    BY <2>1
  <2>3. g[0] = Graph!Begun(deps) /\ \A i \in 1..n - 1 : g[i] = Graph!Taken(deps, g[i - 1])
    BY <2>1, <2>2, LoopRounds
  <2> DEFINE h == [i \in 0..n |-> IF i = 0 THEN Graph!Begun(deps)
                                  ELSE Graph!Taken(deps, g[i - 1])]
  <2>4. \A i \in 0..n - 1 : h[i] = g[i]
    BY <2>1, <2>3
  <2>5. \A i \in 0..n : i # 0 => i - 1 \in 0..n - 1
    OBVIOUS
  <2>6. \A i \in 0..n : h[i] = IF i = 0 THEN Graph!Begun(deps) ELSE Graph!Taken(deps, h[i - 1])
    BY <2>4, <2>5
  <2>7. h = [i \in 0..n |-> h[i]]
    OBVIOUS
  <2> HIDE DEF h
  <2>8. IsLoop(deps, n, h)
    BY <2>6, <2>7 DEF IsLoop
  <2> QED
    BY <2>8
<1> QED
  BY <1>3, <1>4

\* The loop after some rounds: what was put into the result stands after what
\* it depends on, and what is ready depends on nothing else.
LoopIsSound(deps, ready, taken) ==
    /\ ready \in Seq(Graph!Jobs) /\ taken \in Seq(Graph!Jobs)
    /\ OnceEach(ready) /\ OnceEach(taken) /\ Listed(ready) \cap Listed(taken) = {}
    /\ \A j \in Listed(ready) \cup Listed(taken) : deps[j] \subseteq Listed(taken)
    /\ AfterInputs(taken, deps, Graph!Jobs)

\* The loop begins with the jobs that need nothing.
LEMMA LoopBegins ==
    ASSUME NEW deps \in [Graph!Jobs -> SUBSET Graph!Jobs]
    PROVE  LoopIsSound(deps, Graph!Begun(deps).ready, Graph!Begun(deps).result)
<1> DEFINE free == {j \in Graph!Jobs : deps[j] = {}}
           ready == Graph!Sorted(free)
<1>1. Graph!Begun(deps).ready = ready /\ Graph!Begun(deps).result = <<>>
  BY DEF Graph!Begun
<1>2. ready \in Seq(free) /\ OnceEach(ready) /\ Listed(ready) = free
  BY SortedListsAll
<1> HIDE DEF ready
<1>3. ready \in Seq(Graph!Jobs)
  <2>1. ready \in [1..Len(ready) -> Graph!Jobs] /\ Len(ready) \in Nat
    BY <1>2, LenProperties
  <2> QED
    BY <2>1, SeqDef
<1>4. /\ <<>> \in Seq(Graph!Jobs) /\ OnceEach(<<>>) /\ Listed(<<>>) = {}
      /\ AfterInputs(<<>>, deps, Graph!Jobs)
  BY DEF OnceEach, Listed, AfterInputs
<1>5. \A j \in Listed(ready) : deps[j] = {}
  BY <1>2
<1> QED
  BY <1>1, <1>2, <1>3, <1>4, <1>5 DEF LoopIsSound

\* A round takes a job whose needs are taken, and readies what it frees.
LEMMA LoopGoesOn ==
    ASSUME NEW deps \in [Graph!Jobs -> SUBSET Graph!Jobs], NEW before,
           LoopIsSound(deps, before.ready, before.result)
    PROVE  LoopIsSound(deps, Graph!Taken(deps, before).ready, Graph!Taken(deps, before).result)
<1> DEFINE ready == before.ready
           taken == before.result
           node == Head(ready)
           after == Append(taken, node)
           free == {j \in Graph!Jobs : node \in deps[j] /\ deps[j] \subseteq Listed(after)}
           freed == Graph!Sorted(free)
           later == Tail(ready) \o freed
<1>1. CASE ready = <<>>
  BY <1>1 DEF Graph!Taken
<1>2. ASSUME ready # <<>>
      PROVE  LoopIsSound(deps, Graph!Taken(deps, before).ready,
                         Graph!Taken(deps, before).result)
  <2>1. Graph!Taken(deps, before) = [ready |-> later, result |-> after]
    BY <1>2 DEF Graph!Taken, Listed
  <2>2. /\ ready \in Seq(Graph!Jobs) /\ taken \in Seq(Graph!Jobs)
        /\ OnceEach(ready) /\ OnceEach(taken) /\ Listed(ready) \cap Listed(taken) = {}
        /\ \A j \in Listed(ready) \cup Listed(taken) : deps[j] \subseteq Listed(taken)
        /\ AfterInputs(taken, deps, Graph!Jobs)
    BY DEF LoopIsSound
  <2> HIDE DEF ready, taken
  <2>3. /\ Tail(ready) \in Seq(Graph!Jobs) /\ OnceEach(Tail(ready)) /\ node \in Graph!Jobs
        /\ node \in Listed(ready) /\ Listed(Tail(ready)) = Listed(ready) \ {node}
    BY <1>2, <2>2, ListedTaken
  <2> HIDE DEF node
  <2>4. /\ after \in Seq(Graph!Jobs) /\ OnceEach(after)
        /\ Listed(after) = Listed(taken) \cup {node}
    BY <2>2, <2>3, ListedBehind
  <2>5. AfterInputs(after, deps, Graph!Jobs)
    BY <2>2, <2>3, InputsAreBefore
  <2>6. freed \in Seq(free) /\ OnceEach(freed) /\ Listed(freed) = free
    BY SortedListsAll
  <2>7. free \cap (Listed(ready) \cup Listed(taken)) = {}
    BY <2>2, <2>3
  <2>8. \A j \in free : deps[j] \subseteq Listed(after)
    OBVIOUS
  <2>9. free \subseteq Graph!Jobs
    OBVIOUS
  <2> HIDE DEF freed, free, after
  <2>10. freed \in Seq(Graph!Jobs)
    <3>1. freed \in [1..Len(freed) -> Graph!Jobs] /\ Len(freed) \in Nat
      BY <2>6, <2>9, LenProperties
    <3> QED
      BY <3>1, SeqDef
  <2>11. /\ later \in Seq(Graph!Jobs) /\ OnceEach(later)
         /\ Listed(later) = Listed(Tail(ready)) \cup Listed(freed)
    <3> DEFINE rest == Tail(ready)
    <3>1. rest \in Seq(Graph!Jobs) /\ OnceEach(rest) /\ Listed(rest) \cap Listed(freed) = {}
      BY <2>3, <2>6, <2>7
    <3> HIDE DEF rest
    <3>2. /\ rest \o freed \in Seq(Graph!Jobs) /\ OnceEach(rest \o freed)
          /\ Listed(rest \o freed) = Listed(rest) \cup Listed(freed)
      BY <2>6, <2>10, <3>1, ListedTogether
    <3> QED
      BY <3>2 DEF rest
  <2> HIDE DEF later
  <2>12. Listed(later) = (Listed(ready) \ {node}) \cup free
    BY <2>3, <2>6, <2>11
  <2>13. Listed(later) \cap Listed(after) = {}
    BY <2>2, <2>3, <2>4, <2>7, <2>12
  <2>14. \A j \in Listed(later) \cup Listed(after) : deps[j] \subseteq Listed(after)
    BY <2>2, <2>3, <2>4, <2>8, <2>12
  <2>15. Graph!Taken(deps, before).ready = later /\ Graph!Taken(deps, before).result = after
    BY <2>1
  <2> QED
    BY <2>4, <2>5, <2>11, <2>13, <2>14, <2>15 DEF LoopIsSound
<1> QED
  BY <1>1, <1>2

\* The loop does what its rounds do, however many jobs there are.
LEMMA LoopHolds ==
    ASSUME NEW deps \in [Graph!Jobs -> SUBSET Graph!Jobs]
    PROVE  LET last == Graph!Loop(deps)[NumJobs] IN LoopIsSound(deps, last.ready, last.result)
<1> DEFINE g == Graph!Loop(deps)
<1>1. NumJobs \in Nat
  BY JobsAreFinite
<1>2. IsLoop(deps, NumJobs, g)
  <2>1. \E h : IsLoop(deps, NumJobs, h)
    BY <1>1, LoopExists
  <2>2. g = CHOOSE h : IsLoop(deps, NumJobs, h)
    BY DEF Graph!Loop, IsLoop
  <2> HIDE DEF g
  <2> QED
    BY <2>1, <2>2
<1> HIDE DEF g
<1>3. g[0] = Graph!Begun(deps) /\ \A i \in 1..NumJobs : g[i] = Graph!Taken(deps, g[i - 1])
  BY <1>1, <1>2, LoopRounds
<1> DEFINE Bad == {n \in Nat : n <= NumJobs /\ ~LoopIsSound(deps, g[n].ready, g[n].result)}
<1>4. Bad = {}
  <2>1. SUFFICES ASSUME Bad # {} PROVE FALSE
    OBVIOUS
  <2>2. Bad \subseteq Nat
    OBVIOUS
  <2>3. PICK n \in Bad : \A t \in Bad : n <= t
    <3> HIDE DEF Bad
    <3> QED
      BY <2>1, <2>2, LeastExists
  <2>4. n \in Nat /\ n <= NumJobs /\ ~LoopIsSound(deps, g[n].ready, g[n].result)
    OBVIOUS
  <2>5. n # 0
    BY <1>3, <2>4, LoopBegins
  <2>6. n - 1 \in Nat /\ n - 1 <= NumJobs /\ n \in 1..NumJobs
    BY <1>1, <2>4, <2>5
  <2>7. LoopIsSound(deps, g[n - 1].ready, g[n - 1].result)
    <3>1. n - 1 \notin Bad
      <4> HIDE DEF Bad
      <4> QED
        BY <2>3, <2>4, <2>6
    <3> QED
      BY <2>6, <3>1
  <2>8. g[n] = Graph!Taken(deps, g[n - 1])
    BY <1>3, <2>6
  <2> QED
    BY <2>4, <2>7, <2>8, LoopGoesOn
<1>5. NumJobs \notin Bad
  BY <1>4
<1> QED
  BY <1>1, <1>5 DEF g

\* Descendants() returns whatever depends on a job, however far, and nothing
\* else.
LEMMA DescendantsAreReach ==
    ASSUME needs \in [Graph!Jobs -> SUBSET Graph!Jobs], NEW one
    PROVE  LET a == Graph!Descendants(one)
               s == {j \in Graph!Jobs : one \in needs[j]} IN
           /\ s \subseteq a /\ a \subseteq Graph!Jobs /\ Grown(needs, a) = a
           /\ \A c : s \subseteq c /\ Grown(needs, c) \subseteq c => a \subseteq c
<1> DEFINE s == {j \in Graph!Jobs : one \in needs[j]}
           Finds(g) == g = [i \in 0..NumJobs |->
                              IF i = 0 THEN s
                              ELSE g[i - 1] \cup {j \in Graph!Jobs : needs[j] \cap g[i - 1] # {}}]
           found == CHOOSE g : Finds(g)
<1>1. NumJobs \in Nat /\ IsFiniteSet(Graph!Jobs) /\ Cardinality(Graph!Jobs) = NumJobs
  BY JobsAreFinite
<1>2. Graph!Descendants(one) = found[NumJobs]
  BY DEF Graph!Descendants
<1>3. \A g : Finds(g) <=> IsSearch(needs, s, NumJobs, g)
  <2> TAKE g
  <2>1. \A i \in 0..NumJobs : g[i - 1] \cup {j \in Graph!Jobs : needs[j] \cap g[i - 1] # {}}
                                = Grown(needs, g[i - 1])
    BY DEF Grown
  <2>2. [i \in 0..NumJobs |-> IF i = 0 THEN s
                  ELSE g[i - 1] \cup {j \in Graph!Jobs : needs[j] \cap g[i - 1] # {}}]
          = [i \in 0..NumJobs |-> IF i = 0 THEN s ELSE Grown(needs, g[i - 1])]
    <3> HIDE DEF s
    <3> QED
      BY <2>1
  <2> QED
    BY <2>2 DEF IsSearch
<1>4. IsSearch(needs, s, NumJobs, found)
  <2>1. \E g : IsSearch(needs, s, NumJobs, g)
    <3> HIDE DEF s
    <3> QED
      BY <1>1, SearchExists
  <2>2. \E g : Finds(g)
    BY <1>3, <2>1
  <2>3. Finds(found)
    <3> HIDE DEF Finds
    <3> QED
      BY <2>2
  <2> HIDE DEF found, Finds
  <2> QED
    BY <1>3, <2>3
<1>5. s \subseteq Graph!Jobs /\ DOMAIN needs = Graph!Jobs
  OBVIOUS
<1> HIDE DEF found, s
<1>6. /\ s \subseteq found[NumJobs] /\ found[NumJobs] \subseteq Graph!Jobs
      /\ Grown(needs, found[NumJobs]) = found[NumJobs]
  BY <1>1, <1>4, <1>5, SearchCloses
<1>7. ASSUME NEW c, s \subseteq c, Grown(needs, c) \subseteq c PROVE found[NumJobs] \subseteq c
  <2>1. NumJobs \in 0..NumJobs
    BY <1>1
  <2> QED
    BY <1>1, <1>4, <1>7, <2>1, SearchIsLeast
<1> QED
  BY <1>2, <1>6, <1>7 DEF s

\* No job depends on itself, however far: the order says so.  No job runs or
\* ends before all that it depends on has completed.
JobsInvariant ==
    /\ needs \in [Graph!Jobs -> SUBSET Graph!Jobs] /\ Graph!OrderRespectsNeeds
    /\ completed \cup active \cup failed \subseteq Graph!Jobs
    /\ completed \cap failed = {}
    /\ active \cap (completed \cup failed) = {}
    /\ \A j \in completed \cup active \cup failed : needs[j] \subseteq completed

\* A step of the studio is one of the job graph, or leaves it alone.
LEMMA JobsRun ==
    /\ StudioInit /\ service = "jobs" => Graph!Init
    /\ [StudioNext]_studioVars =>
         service' = service /\ (service = "jobs" => [Graph!Next]_jobsVars)
BY DEF StudioInit, StudioNext, studioVars, jobsVars

\* An order that is long enough has every job, and none before what it needs.
LEMMA ValidIsOrdered ==
    ASSUME needs \in [Graph!Jobs -> SUBSET Graph!Jobs], Graph!Valid(needs)
    PROVE  Graph!OrderRespectsNeeds
<1> DEFINE order == Graph!TopologicalOrder(needs)
           last == Graph!Loop(needs)[NumJobs]
<1>1. NumJobs \in Nat /\ IsFiniteSet(Graph!Jobs) /\ Cardinality(Graph!Jobs) = NumJobs
  BY JobsAreFinite
<1>2. order = last.result
  BY DEF Graph!TopologicalOrder
<1>3. LoopIsSound(needs, last.ready, last.result)
  BY LoopHolds
<1> HIDE DEF last, order
<1>4. order \in Seq(Graph!Jobs) /\ OnceEach(order) /\ AfterInputs(order, needs, Graph!Jobs)
  BY <1>2, <1>3 DEF LoopIsSound
<1>5. Len(order) = NumJobs
  BY DEF Graph!Valid, order
<1>6. DOMAIN order = 1..NumJobs /\ order \in [1..NumJobs -> Graph!Jobs]
  BY <1>4, <1>5, LenProperties
<1>7. order \in Injection(1..NumJobs, Graph!Jobs)
  <2>1. IsInjective(order)
    BY <1>4, <1>6 DEF OnceEach, IsInjective
  <2> QED
    BY <1>6, <2>1 DEF Injection
<1>8. Cardinality(1..NumJobs) = NumJobs
  BY <1>1, FS_Interval
<1>9. order \in Surjection(1..NumJobs, Graph!Jobs)
  BY <1>1, <1>7, <1>8, FS_Injection
<1>10. {order[i] : i \in DOMAIN order} = Graph!Jobs
  BY <1>6, <1>9 DEF Surjection
<1>11. \A i, j \in DOMAIN order : order[j] \in needs[order[i]] => j < i
  <2> TAKE i, j \in DOMAIN order
  <2>1. SUFFICES ASSUME order[j] \in needs[order[i]] PROVE j < i
    OBVIOUS
  <2>2. order[j] \in Graph!Jobs
    BY <1>6
  <2>3. PICK m \in DOMAIN order : m < i /\ order[m] = order[j]
    BY <1>4, <2>1, <2>2 DEF AfterInputs
  <2> QED
    BY <1>4, <2>3 DEF OnceEach
<1> QED
  BY <1>5, <1>10, <1>11 DEF Graph!OrderRespectsNeeds, order

\* Of any jobs, one depends on none of the others: the first in the order.
LEMMA OneIsFirst ==
    ASSUME needs \in [Graph!Jobs -> SUBSET Graph!Jobs], Graph!OrderRespectsNeeds,
           NEW s, s \subseteq Graph!Jobs, s # {}
    PROVE  \E e \in s : needs[e] \cap s = {}
<1> DEFINE order == Graph!TopologicalOrder(needs)
           At == {i \in 1..NumJobs : order[i] \in s}
<1>1. /\ {order[i] : i \in DOMAIN order} = Graph!Jobs /\ Len(order) = NumJobs
      /\ \A i, j \in DOMAIN order : order[j] \in needs[order[i]] => j < i
  BY DEF Graph!OrderRespectsNeeds
<1>2. DOMAIN order = 1..NumJobs
  <2>1. order \in Seq(Graph!Jobs)
    BY LoopHolds DEF LoopIsSound, Graph!TopologicalOrder
  <2> HIDE DEF order
  <2> QED
    BY <1>1, <2>1, LenProperties
<1> HIDE DEF order
<1>3. At # {} /\ At \subseteq Nat
  BY <1>1, <1>2, JobsAreFinite
<1>4. PICK i \in At : \A j \in At : i <= j
  <2> HIDE DEF At
  <2> QED
    BY <1>3, LeastExists
<1>5. i \in 1..NumJobs /\ order[i] \in s
  BY <1>4
<1>6. ASSUME NEW x \in needs[order[i]] \cap s PROVE FALSE
  <2>1. PICK j \in 1..NumJobs : order[j] = x
    BY <1>1, <1>2, <1>6
  <2>2. j \in At
    BY <1>6, <2>1
  <2>3. i <= j
    <3> HIDE DEF At
    <3> QED
      BY <1>4, <2>2
  <2>4. j < i
    BY <1>1, <1>2, <1>5, <1>6, <2>1
  <2>5. i \in Nat /\ j \in Nat
    BY <1>5, <2>1, JobsAreFinite
  <2> QED
    BY <2>3, <2>4, <2>5
<1> QED
  BY <1>5, <1>6

\* In the beginning no job of a valid graph was started.
LEMMA JobsInit == Graph!Init => JobsInvariant
<1> SUFFICES ASSUME Graph!Init PROVE JobsInvariant
  OBVIOUS
<1>1. needs \in [Graph!Jobs -> SUBSET Graph!Jobs] /\ Graph!Valid(needs)
  BY DEF Graph!Init
<1> QED
  BY <1>1, ValidIsOrdered DEF Graph!Init, JobsInvariant

\* Every job that starts, completes or fails keeps the invariant.
LEMMA JobsStep ==
    ASSUME JobsInvariant, [Graph!Next]_jobsVars
    PROVE  JobsInvariant'
<1>1. needs' = needs
  BY DEF Graph!Next, Graph!StartJob, Graph!CompleteJob, Graph!FailJob, jobsVars
<1>2. Graph!OrderRespectsNeeds' /\ (needs \in [Graph!Jobs -> SUBSET Graph!Jobs])'
  BY <1>1 DEF JobsInvariant, Graph!OrderRespectsNeeds
<1>3. ASSUME NEW j \in Graph!Jobs, Graph!StartJob(j) PROVE JobsInvariant'
  BY <1>1, <1>2, <1>3 DEF JobsInvariant, Graph!StartJob, Graph!Ready
<1>4. ASSUME NEW j \in Graph!Jobs, Graph!CompleteJob(j) PROVE JobsInvariant'
  BY <1>1, <1>2, <1>4 DEF JobsInvariant, Graph!CompleteJob
<1>5. ASSUME NEW j \in Graph!Jobs, Graph!FailJob(j) PROVE JobsInvariant'
  BY <1>1, <1>2, <1>5 DEF JobsInvariant, Graph!FailJob
<1>6. CASE UNCHANGED jobsVars
  BY <1>1, <1>2, <1>6 DEF JobsInvariant, jobsVars
<1> QED
  BY <1>3, <1>4, <1>5, <1>6 DEF Graph!Next

\* What depends on a failed job has not been started; and what was not, while
\* nothing runs and nothing is offered, depends on one.
LEMMA DispatchKept == JobsInvariant => Graph!DispatchIsSound
<1> SUFFICES ASSUME JobsInvariant PROVE Graph!DispatchIsSound
  OBVIOUS
<1>1. needs \in [Graph!Jobs -> SUBSET Graph!Jobs] /\ DOMAIN needs = Graph!Jobs
  BY DEF JobsInvariant
<1> DEFINE idle == Graph!Jobs \ (completed \cup active \cup failed)
<1>2. \A f \in failed : f \in Graph!Jobs /\ f \notin completed
  BY DEF JobsInvariant
<1>3. ASSUME NEW f \in failed
      PROVE  Graph!Descendants(f) \subseteq idle
  <2>1. {j \in Graph!Jobs : f \in needs[j]} \subseteq idle
    BY <1>2 DEF JobsInvariant
  <2>2. Grown(needs, idle) \subseteq idle
    BY <1>1 DEF JobsInvariant, Grown
  <2> HIDE DEF idle
  <2> QED
    BY <1>1, <2>1, <2>2, DescendantsAreReach
<1>4. Graph!NothingRunsEarly
  BY <1>3 DEF JobsInvariant, Graph!NothingRunsEarly
<1>5. ASSUME active = {}, \A j \in Graph!Jobs : ~Graph!Ready(j)
      PROVE  idle \subseteq UNION {Graph!Descendants(f) : f \in failed}
  <2> DEFINE stuck == idle \ UNION {Graph!Descendants(f) : f \in failed}
  <2>1. SUFFICES ASSUME stuck # {} PROVE FALSE
    OBVIOUS
  <2>2. stuck \subseteq Graph!Jobs
    OBVIOUS
  <2>3. PICK e \in stuck : needs[e] \cap stuck = {}
    <3> HIDE DEF stuck
    <3> QED
      BY <2>1, <2>2, OneIsFirst DEF JobsInvariant
  <2>4. e \in Graph!Jobs /\ e \notin completed \cup active \cup failed
    BY <2>3
  <2>5. ASSUME NEW f \in failed PROVE e \notin Graph!Descendants(f)
    BY <2>3, <2>5
  <2>6. ASSUME NEW f \in failed, NEW d \in needs[e], d = f \/ d \in Graph!Descendants(f)
        PROVE  FALSE
    <3> DEFINE a == Graph!Descendants(f)
    <3>1. {j \in Graph!Jobs : f \in needs[j]} \subseteq a /\ Grown(needs, a) = a
      BY <1>1, DescendantsAreReach
    <3>2. e \notin a
      BY <2>5
    <3>3. d = f \/ d \in a
      BY <2>6
    <3> HIDE DEF a
    <3>4. d # f
      BY <2>4, <2>6, <3>1, <3>2
    <3>5. d \notin a
      BY <1>1, <2>4, <2>6, <3>1, <3>2 DEF Grown
    <3> QED
      BY <3>3, <3>4, <3>5
  <2>7. needs[e] \cap failed = {}
    BY <2>6
  <2>8. needs[e] \subseteq Graph!Jobs
    BY <1>1, <2>4
  <2>9. ASSUME NEW d \in needs[e], d \notin completed PROVE FALSE
    <3>1. d \in idle
      BY <1>5, <2>7, <2>8, <2>9
    <3>2. d \in stuck
      BY <2>6, <3>1
    <3> QED
      BY <2>3, <3>2
  <2>10. Graph!Ready(e)
    BY <2>4, <2>7, <2>9 DEF Graph!Ready
  <2> QED
    BY <1>5, <2>4, <2>10
<1>6. Graph!OnlyFailureBlocks
  <2>1. SUFFICES ASSUME active = {}, \A j \in Graph!Jobs : ~Graph!Ready(j)
        PROVE  Graph!Jobs \ (completed \cup failed)
                 = UNION {Graph!Descendants(f) : f \in failed}
    BY DEF Graph!OnlyFailureBlocks
  <2>2. Graph!Jobs \ (completed \cup failed) = idle
    BY <2>1
  <2>3. idle \subseteq UNION {Graph!Descendants(f) : f \in failed}
    BY <1>5, <2>1
  <2> HIDE DEF idle
  <2> QED
    BY <1>3, <2>2, <2>3
<1> QED
  BY <1>4, <1>6 DEF Graph!DispatchIsSound, JobsInvariant

\* graph.py, invalidation.py, render_orchestrator.py: for any number of jobs,
\* artifacts and nodes and any edges between them, nothing is taken before
\* what it is made from, nothing waits but for what failed, a partial render
\* has everything stale and nothing fresh, no node of a plan is rendered from
\* inputs that were not, and a plan whose nodes are in the order of their
\* dependencies is rendered whole.
THEOREM OrderHolds == StudioSpec => []RendersInOrder
<1> DEFINE Inv == /\ service = "jobs" => JobsInvariant
                  /\ service = "artifacts" => ArtifactsInvariant
                  /\ service = "render" => RenderInvariant
<1>1. StudioInit => Inv
  BY JobsRun, JobsInit, ArtifactsRun, ArtifactsInit, RenderRun, RenderInit
<1>2. Inv /\ [StudioNext]_studioVars => Inv'
  BY JobsRun, JobsStep, ArtifactsRun, ArtifactsStep, RenderRun, RenderStep
<1>3. Inv => RendersInOrder
  BY DispatchKept, PlansAreExact, RenderKept DEF RendersInOrder
<1> QED
  BY <1>1, <1>2, <1>3, PTL DEF StudioSpec

-----------------------------------------------------------------------------
(* Packages.                                                               *)

\* What is at the destination or has passed the second look is whole, and it
\* is a creator's own from its rename on.
PackagesInvariant ==
    /\ Packages!TypeOK
    /\ destination.by = None => destination.parts = 0
    /\ destination.by \in Creators => destination.parts = Packages!Whole
    /\ \A c \in Creators : creatorAt[c] = "checked" => building[c] = Packages!Whole
    /\ \A c \in Creators : creatorAt[c] \in {"renamed", "created"} => destination.by = c

\* A behaviour of the studio begins and goes on for creators as create() does.
LEMMA PackagesRun ==
    /\ StudioInit => Packages!Init
    /\ [StudioNext]_studioVars => [Packages!Next]_packagesVars
BY DEF StudioInit, StudioNext, studioVars, packagesVars

\* Six parts make a whole package.
LEMMA WholeIsSix == Packages!Whole = 6
BY DEF Packages!Whole, Packages!Parts

\* In the beginning there is no package and nobody makes one.
LEMMA PackagesInit == Packages!Init => PackagesInvariant
BY StudioConstants, WholeIsSix
DEF PackagesInvariant, Packages!Init, Packages!TypeOK, Packages!Vacant, Packages!Stages,
    Packages!PackageConstants

\* Every step of a creator, and of others, keeps the invariant.
LEMMA PackagesStep ==
    PackagesInvariant /\ [Packages!Next]_packagesVars => PackagesInvariant'
<1> SUFFICES ASSUME PackagesInvariant, [Packages!Next]_packagesVars PROVE PackagesInvariant'
  OBVIOUS
<1> USE StudioConstants, WholeIsSix
    DEF PackagesInvariant, Packages!TypeOK, Packages!Vacant, Packages!Stages,
        Packages!PackageConstants
<1>1. ASSUME NEW c \in Creators, Packages!Begin(c) PROVE PackagesInvariant'
  BY <1>1 DEF Packages!Begin
<1>2. ASSUME NEW c \in Creators, Packages!Build(c) PROVE PackagesInvariant'
  BY <1>2 DEF Packages!Build
<1>3. ASSUME NEW c \in Creators, Packages!Check(c) PROVE PackagesInvariant'
  BY <1>3 DEF Packages!Check
<1>4. ASSUME NEW c \in Creators, Packages!Rename(c) PROVE PackagesInvariant'
  BY <1>4 DEF Packages!Rename
<1>5. ASSUME NEW c \in Creators, Packages!Open(c) PROVE PackagesInvariant'
  BY <1>5 DEF Packages!Open
<1>6. ASSUME NEW c \in Creators, Packages!Fail(c) PROVE PackagesInvariant'
  BY <1>6 DEF Packages!Fail
<1>7. CASE Packages!MakeDirectory
  BY <1>7 DEF Packages!MakeDirectory, Packages!Foreign
<1>8. CASE UNCHANGED packagesVars
  BY <1>8 DEF packagesVars
<1> QED
  BY <1>1, <1>2, <1>3, <1>4, <1>5, <1>6, <1>7, <1>8 DEF Packages!Next

\* A step leaves the destination alone, publishes one whole package where
\* none was, or changes what is nobody's package.
LEMMA PackagePublished ==
    ASSUME PackagesInvariant, [Packages!Next]_packagesVars,
           destination' # destination
    PROVE  /\ destination.by \notin Creators
           /\ destination'.by \in Creators => destination' \in Packages!Packages
<1> USE StudioConstants, WholeIsSix
    DEF PackagesInvariant, Packages!TypeOK, Packages!Vacant, Packages!PackageConstants
<1>1. ASSUME NEW c \in Creators, Packages!Rename(c)
      PROVE  destination.by \notin Creators /\ destination' \in Packages!Packages
  BY <1>1 DEF Packages!Rename, Packages!Packages
<1>2. CASE Packages!MakeDirectory
  BY <1>2 DEF Packages!MakeDirectory, Packages!Foreign
<1> QED
  BY <1>1, <1>2 DEF Packages!Next, Packages!Begin, Packages!Build, Packages!Check,
     Packages!Open, Packages!Fail, packagesVars

-----------------------------------------------------------------------------
(* Derivatives.                                                            *)

\* Where generate() stands: with FFmpeg done and its output whole from the
\* validation on; what it linked is whole; and the reason that it raises for
\* is never one for which it has published.
DerivativeInvariant ==
    /\ staged \in {"absent", "partial", "whole"} /\ target \in {"absent", "mine", "rival"}
    /\ ffmpeg \in {"none", "running", "done", "bad", "killed"}
    /\ ffmpeg = "done" => staged # "partial"
    /\ derivativeAt = "idle" => ffmpeg = "none" /\ staged = "absent" /\ target # "mine"
    /\ derivativeAt \in {"idle", "loop", "listening", "ran", "valid", "hashed", "flushed",
                         "linked"} =>
         outcome = "none"
    /\ derivativeAt \in {"ran", "valid", "hashed", "flushed", "linked"} => ffmpeg = "done"
    /\ derivativeAt \in {"valid", "hashed", "flushed"} => staged = "whole"
    /\ derivativeAt = "linked" => target = "mine"
    /\ target = "mine" =>
         /\ linked = "whole" /\ ffmpeg = "done"
         /\ derivativeAt \in {"linked", "cleanup", "over"}
         /\ derivativeAt = "cleanup" => outcome = "unlink"
    /\ derivativeAt = "stopping" => outcome \in {"cancelled", "late", "failed"}
    /\ derivativeAt = "cleanup" =>
         /\ outcome \in {"cancelled", "late", "failed", "exists", "unlink"}
         /\ outcome = "exists" => ffmpeg # "running"
    /\ derivativeAt = "over" =>
         outcome \in {"result", "cancelled", "late", "failed", "exists", "unlink", "died"}
    /\ outcome = "result" => derivativeAt = "over" /\ target = "mine"
    /\ Derivative!DerivativeRunIsClean

\* A behaviour of the studio begins and goes on for a derivative as
\* generate() does.
LEMMA DerivativeRuns ==
    /\ StudioInit => Derivative!Init
    /\ [StudioNext]_studioVars => [Derivative!Next]_derivativeVars
BY DEF StudioInit, StudioNext, studioVars, derivativeVars

\* Before generate() is called it has done nothing.
LEMMA DerivativeInit == Derivative!Init => DerivativeInvariant
BY DEF DerivativeInvariant, Derivative!Init, Derivative!DerivativeRunIsClean

\* Every step of FFmpeg, the readers, generate() and the others keeps the
\* invariant.
LEMMA DerivativeStep ==
    DerivativeInvariant /\ [Derivative!Next]_derivativeVars => DerivativeInvariant'
<1> SUFFICES ASSUME DerivativeInvariant, [Derivative!Next]_derivativeVars
             PROVE  DerivativeInvariant'
  OBVIOUS
<1> USE DEF DerivativeInvariant, Derivative!DerivativeRunIsClean, Derivative!fileVars,
            Derivative!readerVars, Derivative!processVars, Derivative!Raise
<1>1. ASSUME NEW r \in {"stdout", "stderr"},
             \/ Derivative!Prints(r) \/ Derivative!PipeRead(r)
             \/ Derivative!PipeEnd(r) \/ Derivative!PipeClose(r)
      PROVE  DerivativeInvariant'
  BY <1>1 DEF Derivative!Prints, Derivative!PipeRead, Derivative!PipeEnd, Derivative!PipeClose
<1>2. ASSUME NEW bytes \in {"partial", "whole"}, Derivative!Write(bytes)
      PROVE  DerivativeInvariant'
  BY <1>2 DEF Derivative!Write, Derivative!Opens
<1>3. ASSUME NEW code \in {"done", "bad"}, Derivative!Exit(code)
      PROVE  DerivativeInvariant'
  BY <1>3 DEF Derivative!Exit
<1>4. CASE Derivative!Begin
  BY <1>4 DEF Derivative!Begin
<1>5. CASE Derivative!Look \/ Derivative!Receive \/ Derivative!ReceiveNothing
  BY <1>5 DEF Derivative!Look, Derivative!Receive, Derivative!ReceiveNothing
<1>6. CASE Derivative!Break
  BY <1>6 DEF Derivative!Break, Derivative!Trouble
<1>7. CASE Derivative!Stop
  BY <1>7 DEF Derivative!Stop
<1>8. CASE Derivative!Return
  BY <1>8 DEF Derivative!Return, Derivative!Going
<1>9. CASE Derivative!Validate
  BY <1>9 DEF Derivative!Validate
<1>10. CASE Derivative!Hash
  BY <1>10 DEF Derivative!Hash
<1>11. CASE Derivative!Flush
  BY <1>11 DEF Derivative!Flush
<1>12. CASE Derivative!Link
  BY <1>12 DEF Derivative!Link
<1>13. CASE Derivative!Unlink
  BY <1>13 DEF Derivative!Unlink
<1>14. CASE Derivative!Cleanup
  BY <1>14 DEF Derivative!Cleanup
<1>15. CASE Derivative!Signal
  BY <1>15 DEF Derivative!Signal
<1>16. CASE Derivative!RivalPublishes
  BY <1>16 DEF Derivative!RivalPublishes
<1>17. CASE Derivative!Die
  BY <1>17 DEF Derivative!Die
<1>18. CASE UNCHANGED derivativeVars
  BY <1>18 DEF derivativeVars
<1> QED
  BY <1>1, <1>2, <1>3, <1>4, <1>5, <1>6, <1>7, <1>8, <1>9, <1>10, <1>11, <1>12, <1>13,
     <1>14, <1>15, <1>16, <1>17, <1>18 DEF Derivative!Next, Derivative!Pipes

\* While the target is there it stays what it is, and FFmpeg writes to it no
\* more; it appears absent, whole or from a rival.
LEMMA DerivativePublished ==
    ASSUME DerivativeInvariant, [Derivative!Next]_derivativeVars
    PROVE  \/ target' = target /\ (target = "mine" => linked' = linked)
           \/ target = "absent" /\ target' = "mine" /\ linked' = "whole"
           \/ target = "absent" /\ target' = "rival"
BY DEF DerivativeInvariant, derivativeVars, Derivative!Next, Derivative!Pipes,
    Derivative!fileVars, Derivative!readerVars, Derivative!processVars, Derivative!Raise,
    Derivative!Prints, Derivative!PipeRead, Derivative!PipeEnd, Derivative!PipeClose,
    Derivative!Write, Derivative!Exit, Derivative!Begin, Derivative!Look,
    Derivative!Receive, Derivative!ReceiveNothing, Derivative!Break,
    Derivative!Stop, Derivative!Return, Derivative!Validate, Derivative!Hash,
    Derivative!Flush, Derivative!Link, Derivative!Unlink, Derivative!Cleanup,
    Derivative!Signal, Derivative!RivalPublishes, Derivative!Die

-----------------------------------------------------------------------------
(* The GPU's jobs.                                                         *)

\* The GPU's supervisor moves like the local one, of which this is proved.
P == INSTANCE WorkerSupervisorProofs WITH
    Jobs <- GpuJobs, NoJob <- None,
    active <- gpuActive, call <- gpuCall, asked <- gpuAsked, last <- gpuLast

\* A behaviour of the studio begins and goes on for the GPU as its supervisor
\* and worker do.
LEMMA GpuRuns ==
    /\ StudioInit => Gpu!Init
    /\ [StudioNext]_studioVars => [Gpu!Next]_gpuVars
BY DEF StudioInit, StudioNext, studioVars, gpuVars

\* It begins without a worker.
LEMMA GpuInit == Gpu!Init => P!SupervisorInvariant
BY StudioConstants, P!InvariantInit
DEF Gpu!GpuConstants, Gpu!Init, Gpu!Worker!Init, P!Init, Gpu!Worker!Message, P!Message

\* Every step of it is a step of the local supervisor.
LEMMA GpuIsSupervisor == [Gpu!Next]_gpuVars => [P!Next]_(P!vars)
<1>1. /\ Gpu!Worker!Start => P!Start
      /\ Gpu!Worker!Restart => P!Restart
  BY DEF Gpu!Worker!Start, P!Start, Gpu!Worker!Restart, P!Restart, Gpu!Worker!NewWorker,
      P!NewWorker, Gpu!Worker!Message, P!Message
<1>2. /\ Gpu!Worker!StartReady => P!StartReady
      /\ Gpu!Worker!StartFails => P!StartFails
      /\ Gpu!Worker!NoticeDeath => P!NoticeDeath
  BY DEF Gpu!Worker!StartReady, P!StartReady, Gpu!Worker!StartFails, P!StartFails,
      Gpu!Worker!NoticeDeath, P!NoticeDeath, Gpu!Worker!queues, P!queues,
      Gpu!Worker!worker, P!worker, Gpu!Worker!ghosts, P!ghosts
<1>3. /\ Gpu!Worker!Wait => P!Wait
      /\ Gpu!Worker!WaitMessage => P!WaitMessage
      /\ Gpu!Worker!WaitEmpty => P!WaitEmpty
      /\ Gpu!Worker!WaitCheck => P!WaitCheck
      /\ Gpu!Worker!WaitTimeout => P!WaitTimeout
  BY DEF Gpu!Worker!Wait, P!Wait, Gpu!Worker!WaitMessage, P!WaitMessage, Gpu!Worker!WaitEmpty,
      P!WaitEmpty, Gpu!Worker!WaitCheck, P!WaitCheck, Gpu!Worker!WaitTimeout,
      P!WaitTimeout, Gpu!Worker!queues, P!queues, Gpu!Worker!worker, P!worker,
      Gpu!Worker!ghosts, P!ghosts, Gpu!Worker!Message, P!Message, Gpu!Worker!Results,
      P!Results
<1>4. Gpu!Worker!Terminate => P!Terminate
  BY DEF Gpu!Worker!Terminate, P!Terminate, Gpu!Worker!NoWorker, P!NoWorker,
      Gpu!Worker!ghosts, P!ghosts, Gpu!Worker!Message, P!Message
<1>5. Gpu!Worker!WorkerDies => P!WorkerDies
  BY DEF Gpu!Worker!WorkerDies, P!WorkerDies, Gpu!Worker!ghosts, P!ghosts, Gpu!Worker!Message,
      P!Message
<1>6. \A j \in GpuJobs :
        (Gpu!Worker!Submit(j) => P!Submit(j)) /\ (Gpu!Worker!Cancel(j) => P!Cancel(j))
  BY DEF Gpu!Worker!Submit, P!Submit, Gpu!Worker!Cancel, P!Cancel, Gpu!Worker!worker,
      P!worker, Gpu!Worker!Message, P!Message
<1>7. Gpu!Worker!WorkerStep => P!WorkerStep
  BY DEF Gpu!Worker!WorkerStep, P!WorkerStep, Gpu!Worker!WorkerReady, P!WorkerReady,
      Gpu!Worker!WorkerGet, P!WorkerGet, Gpu!Worker!Progress, P!Progress,
      Gpu!Worker!HandlerEnds, P!HandlerEnds, Gpu!Worker!Checkpoint, P!Checkpoint,
      Gpu!Worker!Finish, P!Finish, Gpu!Worker!Put, P!Put, Gpu!Worker!Event, P!Event,
      Gpu!Worker!supervisor, P!supervisor, Gpu!Worker!worker, P!worker, Gpu!Worker!ghosts,
      P!ghosts, Gpu!Worker!Message, P!Message
<1>8. UNCHANGED gpuVars => UNCHANGED P!vars
  BY DEF gpuVars, P!vars, P!supervisor, P!queues, P!worker, P!ghosts
<1> QED
  BY <1>1, <1>2, <1>3, <1>4, <1>5, <1>6, <1>7, <1>8
  DEF Gpu!Next, Gpu!Start, Gpu!Restart, Gpu!Handshake, Gpu!Wait, Gpu!EnsureAlive,
      Gpu!Terminate, Gpu!Submit, Gpu!Cancel, P!Next, P!ClientStep

\* So the invariant of the local supervisor is one of the GPU's.
LEMMA GpuStep == P!SupervisorInvariant /\ [Gpu!Next]_gpuVars => P!SupervisorInvariant'
BY StudioConstants, GpuIsSupervisor, P!InvariantStep DEF Gpu!GpuConstants

-----------------------------------------------------------------------------
(* The theorems.                                                           *)

\* The three invariants hold in every state of the studio.
LEMMA PublicationAlways ==
    StudioSpec => [](PackagesInvariant /\ DerivativeInvariant /\ P!SupervisorInvariant)
<1>1. StudioInit => PackagesInvariant /\ DerivativeInvariant /\ P!SupervisorInvariant
  BY PackagesRun, PackagesInit, DerivativeRuns, DerivativeInit, GpuRuns, GpuInit
<1>2. PackagesInvariant /\ DerivativeInvariant /\ P!SupervisorInvariant
        /\ [StudioNext]_studioVars
          => (PackagesInvariant /\ DerivativeInvariant /\ P!SupervisorInvariant)'
  BY PackagesRun, PackagesStep, DerivativeRuns, DerivativeStep, GpuRuns, GpuStep
<1> QED
  BY <1>1, <1>2, PTL DEF StudioSpec

\* projects.py, derivatives.py: whoever else creates, publishes, fails or
\* dies, the destination gets one whole package of one creator and the target
\* one whole derivative, and neither is ever replaced.
THEOREM PublishedOnce == StudioSpec => PublishesOnce
<1>1. StudioInit => Packages!Once!Init /\ Derivative!Once!Init
  BY PackagesRun, DerivativeRuns, StudioConstants
  DEF Packages!Once!Init, Derivative!Once!Init, Packages!Init, Derivative!Init,
      Packages!Vacant, Packages!PackageConstants
<1>2. ASSUME PackagesInvariant, [StudioNext]_studioVars
      PROVE  [Packages!Once!Publish]_(IF destination.by \in Creators THEN destination
                                      ELSE Packages!Vacant)
  <2>1. CASE destination' = destination
    BY <2>1
  <2>2. CASE destination' # destination
    BY <1>2, <2>2, PackagesRun, PackagePublished DEF Packages!Once!Publish
  <2> QED
    BY <2>1, <2>2
<1>3. ASSUME DerivativeInvariant, [StudioNext]_studioVars
      PROVE  [Derivative!Once!Publish]_(CASE target = "absent" -> <<>>
                                          [] target = "mine" -> <<"mine", linked>>
                                          [] target = "rival" -> <<"rival", "whole">>)
  <2>1. CASE target' = target /\ (target = "mine" => linked' = linked)
    BY <1>3, <2>1 DEF DerivativeInvariant
  <2>2. CASE target = "absent" /\ target' = "mine" /\ linked' = "whole"
    BY <2>2 DEF Derivative!Once!Publish
  <2>3. CASE target = "absent" /\ target' = "rival"
    BY <2>3 DEF Derivative!Once!Publish
  <2> QED
    BY <1>3, <2>1, <2>2, <2>3, DerivativeRuns, DerivativePublished
<1> QED
  BY <1>1, <1>2, <1>3, PublicationAlways, PTL
  DEF StudioSpec, PublishesOnce, Packages!PublishesOnePackage, Packages!Once!Spec,
      Derivative!PublishesDerivativeOnce, Derivative!Once!Spec

\* projects.py, derivatives.py, gpu_supervisor.py: who returns has published
\* what it says, who fails has published nothing and left nothing staged, and
\* a job that the GPU's supervisor takes for active is the only one and is
\* somewhere.
THEOREM OutcomesReal == StudioSpec => []OutcomesAreReal
<1>1. PackagesInvariant => Packages!ReturnsItsPackage
  BY DEF PackagesInvariant, Packages!ReturnsItsPackage
<1>2. DerivativeInvariant => Derivative!DerivativeRunIsClean
  BY DEF DerivativeInvariant
<1>3. P!SupervisorInvariant => Gpu!OneJobOnTheGpu
  <2>1. P!Serialised => Gpu!Worker!Serialised
    BY DEF P!Serialised, Gpu!Worker!Serialised, P!JobMessages, Gpu!Worker!JobMessages,
           P!Holds, Gpu!Worker!Holds, P!Results, Gpu!Worker!Results
  <2>2. P!ActiveIsSomewhere => Gpu!Worker!ActiveIsSomewhere
    BY DEF P!ActiveIsSomewhere, Gpu!Worker!ActiveIsSomewhere, P!JobMessages,
           Gpu!Worker!JobMessages, P!Holds, Gpu!Worker!Holds, P!Results, Gpu!Worker!Results
  <2> QED
    BY <2>1, <2>2, StudioConstants, P!InvariantSerialises
    DEF Gpu!GpuConstants, P!SupervisorInvariant, Gpu!OneJobOnTheGpu
<1> QED
  BY <1>1, <1>2, <1>3, PublicationAlways, PTL DEF OutcomesAreReal

-----------------------------------------------------------------------------
(* The types of the services.                                              *)

\* Models that are loaded were verified.
LEMMA VramTypes ==
    /\ Vram!Init => Vram!TypeOK
    /\ VramInvariant /\ Vram!TypeOK /\ [Vram!Next]_vramVars => Vram!TypeOK'
<1>1. Vram!Init => Vram!TypeOK
  BY DEF Vram!Init, Vram!TypeOK, Vram!Quiet
<1> SUFFICES ASSUME VramInvariant, Vram!TypeOK, [Vram!Next]_vramVars PROVE Vram!TypeOK'
  BY <1>1
<1>2. wanted'.for \subseteq Models /\ wanted'.evicted \subseteq Models
  BY VramStep DEF VramInvariant, WithinBudget
<1>3. loaded \subseteq verified /\ verified \subseteq Models
  BY DEF Vram!TypeOK
<1>4. loaded' \subseteq verified' /\ verified' \subseteq Models
  <2>1. CASE UNCHANGED vramVars
    BY <1>3, <2>1 DEF vramVars
  <2>2. ASSUME NEW m \in Models, Vram!Verify(m) \/ Vram!Unload(m)
        PROVE  loaded' \subseteq verified' /\ verified' \subseteq Models
    BY <1>3, <2>2 DEF Vram!Verify, Vram!Unload
  <2>3. ASSUME NEW m \in Models, NEW evict \in BOOLEAN, Vram!ScheduleLoad(m, evict)
        PROVE  loaded' \subseteq verified' /\ verified' \subseteq Models
    <3>1. PICK e : /\ loaded' = (loaded \ e) \cup ({m} \cap verified) \/ loaded' = loaded \ e
                   /\ verified' = verified
      BY <2>3 DEF Vram!ScheduleLoad
    <3> QED
      BY <1>3, <3>1
  <2> QED
    BY <2>1, <2>2, <2>3 DEF Vram!Next
<1> QED
  BY <1>2, <1>4 DEF Vram!TypeOK

\* What an artifact is stays as it was.
LEMMA ArtifactsTypes ==
    /\ Artifacts!Init => Artifacts!TypeOK
    /\ ArtifactsInvariant /\ Artifacts!TypeOK /\ [Artifacts!Next]_artifactsVars
         => Artifacts!TypeOK'
<1>1. Artifacts!Init => kind \in [Keys -> ArtifactKinds]
  BY DEF Artifacts!Init
<1>2. Artifacts!TypeOK /\ [Artifacts!Next]_artifactsVars => kind' = kind
  BY DEF artifactsVars, Artifacts!Next, Artifacts!Add, Artifacts!BeginPlan,
     Artifacts!TakeNext, Artifacts!Rendered
<1>3. Artifacts!TypeOK => kind \in [Keys -> ArtifactKinds]
  BY DEF Artifacts!TypeOK
<1>4. ASSUME ArtifactsInvariant, kind \in [Keys -> ArtifactKinds] PROVE Artifacts!TypeOK
  <2>1. plan.stale \subseteq nodes
    BY <1>4 DEF ArtifactsInvariant, PlanIsStale, Artifacts!NoPlan
  <2> QED
    BY <1>4, <2>1 DEF ArtifactsInvariant, GraphGrows, Artifacts!TypeOK
<1>5. ASSUME ArtifactsInvariant', kind' \in [Keys -> ArtifactKinds] PROVE Artifacts!TypeOK'
  <2>1. plan'.stale \subseteq nodes'
    BY <1>5 DEF ArtifactsInvariant, PlanIsStale, Artifacts!NoPlan
  <2> QED
    BY <1>5, <2>1 DEF ArtifactsInvariant, GraphGrows, Artifacts!TypeOK
<1> QED
  BY <1>1, <1>2, <1>3, <1>4, <1>5, ArtifactsInit, ArtifactsStep

\* The pass is at a node of the plan, or behind the last.
LEMMA RenderTypes == RenderInvariant => Render!TypeOK
<1> SUFFICES ASSUME RenderInvariant PROVE Render!TypeOK
  OBVIOUS
<1>1. PICK k \in Nat : DOMAIN inputs = 1..k /\ cursor <= k + 1
  BY DEF RenderInvariant
<1>2. Cardinality(1..k) = k
  BY <1>1, FS_Interval
<1>3. Render!Cardinality(Render!Nodes) = k
  BY <1>1, <1>2 DEF Render!Nodes, Render!Cardinality, Cardinality
<1>4. cursor \in 1 .. k + 1
  BY <1>1 DEF RenderInvariant, PassIsOrderly
<1> QED
  BY <1>3, <1>4 DEF RenderInvariant, PassIsOrderly, Render!TypeOK, Render!Nodes

\* The pipes and the queue between FFmpeg and the loop.
PipesTyped ==
    /\ printed \in [Derivative!Pipes -> 0..MaxPrinted] /\ read \in [Derivative!Pipes -> Nat]
    /\ \A r \in Derivative!Pipes : read[r] <= printed[r]
    /\ reader \in [Derivative!Pipes -> {"reading", "closing", "gone"}]
    /\ messages \in Seq(Derivative!Pipes \X {"chunk", "end"}) /\ Len(messages) <= QueueSize
    /\ ended \subseteq Derivative!Pipes

\* A chunk is read after it was printed, and queued while there is room.
LEMMA PipesTypes ==
    /\ Derivative!Init => PipesTyped
    /\ PipesTyped /\ [Derivative!Next]_derivativeVars => PipesTyped'
    /\ PipesTyped /\ DerivativeInvariant => Derivative!TypeOK
<1> DEFINE M == Derivative!Pipes \X {"chunk", "end"}
<1>1. QueueSize \in Nat \ {0} /\ MaxPrinted \in Nat
  BY StudioConstants DEF Derivative!DerivativeConstants
<1>2. Derivative!Init => PipesTyped
  BY <1>1, EmptySeq DEF Derivative!Init, PipesTyped
<1>3. ASSUME PipesTyped, DerivativeInvariant PROVE Derivative!TypeOK
  <2>1. \A r \in Derivative!Pipes : read[r] \in 0..printed[r]
    BY <1>1, <1>3 DEF PipesTyped
  <2> QED
    BY <1>3, <2>1 DEF PipesTyped, DerivativeInvariant, Derivative!TypeOK
<1> SUFFICES ASSUME PipesTyped, [Derivative!Next]_derivativeVars PROVE PipesTyped'
  BY <1>2, <1>3
<1>4. /\ printed \in [Derivative!Pipes -> 0..MaxPrinted] /\ read \in [Derivative!Pipes -> Nat]
      /\ \A r \in Derivative!Pipes : read[r] <= printed[r]
      /\ reader \in [Derivative!Pipes -> {"reading", "closing", "gone"}]
      /\ messages \in Seq(M) /\ Len(messages) \in Nat /\ Len(messages) <= QueueSize
      /\ ended \subseteq Derivative!Pipes
  BY LenProperties DEF PipesTyped
<1>5. \A m \in M : /\ Append(messages, m) \in Seq(M)
                  /\ Len(Append(messages, m)) = Len(messages) + 1
  <2> HIDE DEF M
  <2> QED
    BY <1>4, AppendProperties
<1>6. ASSUME printed' = printed, read' = read, reader' = reader, messages' = messages, ended' = ended
      PROVE  PipesTyped'
  BY <1>4, <1>6 DEF PipesTyped
<1>7. CASE \/ UNCHANGED derivativeVars
           \/ Derivative!Break \/ Derivative!Stop \/ Derivative!Return \/ Derivative!Validate
           \/ Derivative!Hash \/ Derivative!Flush \/ Derivative!Link \/ Derivative!Unlink
           \/ Derivative!Cleanup \/ Derivative!Signal \/ Derivative!RivalPublishes
           \/ Derivative!Look \/ Derivative!ReceiveNothing
           \/ \E text \in {"partial", "whole"} : Derivative!Write(text)
           \/ \E code \in {"done", "bad"} : Derivative!Exit(code)
  <2>1. printed' = printed /\ read' = read /\ reader' = reader /\ messages' = messages /\ ended' = ended
    BY <1>7 DEF derivativeVars, Derivative!Break, Derivative!Stop, Derivative!Return,
       Derivative!Validate, Derivative!Hash, Derivative!Flush, Derivative!Link,
       Derivative!Unlink, Derivative!Cleanup, Derivative!Signal, Derivative!RivalPublishes,
       Derivative!Write, Derivative!Exit, Derivative!Look, Derivative!ReceiveNothing,
       Derivative!processVars, Derivative!readerVars
  <2> QED
    BY <1>6, <2>1
<1>8. CASE Derivative!Begin \/ Derivative!Die
  <2>1. /\ printed' = printed /\ read' = read /\ messages' = messages /\ ended' = ended
        /\ \/ reader' = reader
           \/ reader' = [r \in Derivative!Pipes |-> "reading"]
           \/ reader' = [r \in Derivative!Pipes |-> "gone"]
    BY <1>8 DEF Derivative!Begin, Derivative!Die, Derivative!processVars
  <2>2. reader' \in [Derivative!Pipes -> {"reading", "closing", "gone"}]
    BY <1>4, <2>1
  <2> QED
    BY <1>4, <2>1, <2>2 DEF PipesTyped
<1>9. CASE Derivative!Receive
  <2>1. /\ printed' = printed /\ read' = read /\ reader' = reader /\ messages # <<>>
        /\ messages' = Tail(messages)
        /\ ended' = ended \/ ended' = ended \cup {Head(messages)[1]}
    BY <1>9 DEF Derivative!Receive, Derivative!processVars, Derivative!readerVars
  <2>2. /\ Head(messages) \in M /\ Tail(messages) \in Seq(M)
        /\ Len(Tail(messages)) = Len(messages) - 1
    BY <1>4, <2>1, HeadTailProperties
  <2>3. Head(messages)[1] \in Derivative!Pipes
    BY <2>2
  <2>4. Len(messages') <= QueueSize
    BY <1>1, <1>4, <2>1, <2>2
  <2> QED
    BY <1>4, <2>1, <2>2, <2>3, <2>4 DEF PipesTyped
<1>10. ASSUME NEW r \in Derivative!Pipes, Derivative!Prints(r) PROVE PipesTyped'
  <2>1. /\ printed' = [printed EXCEPT ![r] = @ + 1] /\ printed[r] < MaxPrinted
        /\ read' = read /\ reader' = reader /\ messages' = messages /\ ended' = ended
    BY <1>10 DEF Derivative!Prints, Derivative!readerVars
  <2>2. printed' \in [Derivative!Pipes -> 0..MaxPrinted]
    BY <1>1, <1>4, <2>1
  <2>3. \A s \in Derivative!Pipes : read[s] <= printed'[s]
    BY <1>1, <1>4, <2>1
  <2> QED
    BY <1>4, <2>1, <2>2, <2>3 DEF PipesTyped
<1>11. ASSUME NEW r \in Derivative!Pipes, Derivative!PipeRead(r) PROVE PipesTyped'
  <2>1. /\ read' = [read EXCEPT ![r] = @ + 1] /\ read[r] < printed[r]
        /\ printed' = printed /\ ended' = ended
        /\ \/ Len(messages) < QueueSize /\ messages' = Append(messages, <<r, "chunk">>)
           \/ messages' = messages
        /\ reader' = reader \/ reader' = [reader EXCEPT ![r] = "closing"]
    BY <1>11 DEF Derivative!PipeRead, Derivative!processVars
  <2>2. /\ read' \in [Derivative!Pipes -> Nat]
        /\ \A s \in Derivative!Pipes : read'[s] <= printed[s]
    BY <1>1, <1>4, <2>1
  <2>3. <<r, "chunk">> \in M
    OBVIOUS
  <2>4. messages' \in Seq(M) /\ Len(messages') <= QueueSize
    <3>1. CASE Len(messages) < QueueSize /\ messages' = Append(messages, <<r, "chunk">>)
      <4>1. PICK m \in M : messages' = Append(messages, m)
        BY <2>3, <3>1
      <4>2. messages' \in Seq(M) /\ Len(messages') = Len(messages) + 1
        BY <1>5, <4>1
      <4> QED
        BY <1>1, <1>4, <3>1, <4>2
    <3>2. CASE messages' = messages
      BY <1>4, <3>2
    <3> QED
      BY <2>1, <3>1, <3>2
  <2>5. reader' \in [Derivative!Pipes -> {"reading", "closing", "gone"}]
    BY <1>4, <2>1
  <2> QED
    BY <1>4, <2>1, <2>2, <2>4, <2>5 DEF PipesTyped
<1>12. ASSUME NEW r \in Derivative!Pipes, Derivative!PipeEnd(r) \/ Derivative!PipeClose(r)
       PROVE  PipesTyped'
  <2>1. /\ read' = read /\ printed' = printed /\ ended' = ended
        /\ \/ Len(messages) < QueueSize /\ messages' = Append(messages, <<r, "end">>)
           \/ messages' = messages
        /\ \/ reader' = [reader EXCEPT ![r] = "closing"]
           \/ reader' = [reader EXCEPT ![r] = "gone"]
    BY <1>12 DEF Derivative!PipeEnd, Derivative!PipeClose, Derivative!processVars
  <2>2. <<r, "end">> \in M
    OBVIOUS
  <2>3. messages' \in Seq(M) /\ Len(messages') <= QueueSize
    <3>1. CASE Len(messages) < QueueSize /\ messages' = Append(messages, <<r, "end">>)
      <4>1. PICK m \in M : messages' = Append(messages, m)
        BY <2>2, <3>1
      <4>2. messages' \in Seq(M) /\ Len(messages') = Len(messages) + 1
        BY <1>5, <4>1
      <4> QED
        BY <1>1, <1>4, <3>1, <4>2
    <3>2. CASE messages' = messages
      BY <1>4, <3>2
    <3> QED
      BY <2>1, <3>1, <3>2
  <2>4. reader' \in [Derivative!Pipes -> {"reading", "closing", "gone"}]
    BY <1>4, <2>1
  <2> QED
    BY <1>4, <2>1, <2>3, <2>4 DEF PipesTyped
<1> HIDE DEF M
<1> QED
  BY <1>7, <1>8, <1>9, <1>10, <1>11, <1>12 DEF Derivative!Next

\* The invariant of the supervisor has its types.
LEMMA GpuTypes == P!SupervisorInvariant => Gpu!TypeOK
BY DEF P!SupervisorInvariant, P!TypeOK, Gpu!TypeOK, Gpu!Worker!TypeOK, P!Calls,
   Gpu!Worker!Calls, P!WorkerSites, Gpu!Worker!WorkerSites, P!Outcomes, Gpu!Worker!Outcomes,
   P!Results, Gpu!Worker!Results

-----------------------------------------------------------------------------
\* The services that render, follow and publish have their types.
RenderingTyped ==
    /\ VramInvariant /\ Vram!TypeOK /\ FacesTyped /\ PipesTyped
    /\ service = "render" => RenderInvariant
    /\ service = "artifacts" => ArtifactsInvariant /\ Artifacts!TypeOK
    /\ service = "jobs" => JobsInvariant

\* They have them in the beginning.
LEMMA RenderingBegins == StudioInit => RenderingTyped
<1> SUFFICES ASSUME StudioInit PROVE RenderingTyped
  OBVIOUS
<1>1. VramInvariant
  BY VramInit
<1>2. Vram!TypeOK /\ FacesTyped /\ PipesTyped
  BY VramRun, VramTypes, FacesRun, FacesTypes, DerivativeRuns, PipesTypes
<1>3. /\ service = "render" => RenderInvariant
      /\ service = "artifacts" => ArtifactsInvariant /\ Artifacts!TypeOK
      /\ service = "jobs" => JobsInvariant
  BY RenderRun, RenderInit, ArtifactsRun, ArtifactsInit, ArtifactsTypes, JobsRun, JobsInit
<1> QED
  BY <1>1, <1>2, <1>3 DEF RenderingTyped

\* Every step of the studio leaves them theirs.
LEMMA RenderingGoesOn == RenderingTyped /\ [StudioNext]_studioVars => RenderingTyped'
<1> SUFFICES ASSUME RenderingTyped, [StudioNext]_studioVars PROVE RenderingTyped'
  OBVIOUS
<1>1. VramInvariant' /\ Vram!TypeOK'
  BY VramRun, VramStep, VramTypes DEF RenderingTyped
<1>2. FacesTyped' /\ PipesTyped'
  BY FacesRun, FacesTypes, DerivativeRuns, PipesTypes DEF RenderingTyped
<1>3. service' = service
  BY RenderRun
<1>4. service = "render" => RenderInvariant'
  BY RenderRun, RenderStep DEF RenderingTyped
<1>5. service = "artifacts" => ArtifactsInvariant' /\ Artifacts!TypeOK'
  BY ArtifactsRun, ArtifactsStep, ArtifactsTypes DEF RenderingTyped
<1>6. service = "jobs" => JobsInvariant'
  BY JobsRun, JobsStep DEF RenderingTyped
<1> QED
  BY <1>1, <1>2, <1>3, <1>4, <1>5, <1>6 DEF RenderingTyped

\* Whatever service a behaviour is about, its state has the type that its
\* module says, for all values of the constants: the dispatch, the placement,
\* the bounds of queues, lists and counters.
THEOREM TypesHold == StudioSpec => []TypesOK
<1> DEFINE Typed == /\ ServicesTyped /\ AccountInvariant /\ RenderingTyped
                    /\ PackagesInvariant /\ DerivativeInvariant /\ P!SupervisorInvariant
<1>1. ASSUME Typed PROVE TypesOK
  <2>1. /\ TypeOK /\ Commands!TypeOK /\ Rights!TypeOK /\ Router!TypeOK /\ Fitter!TypeOK
        /\ Takes!TypeOK /\ Schema!TypeOK /\ Catalog!TypeOK
    BY <1>1 DEF ServicesTyped, StoreInvariant, RouterInvariant
  <2>2. Entity!TypeOK /\ (service = "undo" => Undo!TypeOK)
    BY <1>1, EntityTyped, UndoTypes DEF ServicesTyped, UndoInvariant
  <2>3. /\ service = "speech" => Speech!TypeOK
        /\ service = "subtitles" => Subtitles!TypeOK
        /\ service = "batch" => Batch!TypeOK
        /\ service = "analysis" => Analysis!TypeOK
        /\ service = "clock" => Clock!TypeOK
        /\ service = "clips" => Clips!TypeOK
    BY <1>1, SpeechTypes, SubtitleTypes, BatchTypes, AnalysisTypes, ClockKept, ClipsKept
    DEF AccountInvariant
  <2>4. /\ Vram!TypeOK /\ Faces!TypeOK /\ Derivative!TypeOK
        /\ service = "artifacts" => Artifacts!TypeOK
        /\ service = "render" => Render!TypeOK
    BY <1>1, FacesTypes, PipesTypes, RenderTypes DEF RenderingTyped
  <2>5. service = "jobs" => Graph!TypeOK
    BY <1>1 DEF RenderingTyped, JobsInvariant, Graph!TypeOK
  <2>6. Packages!TypeOK /\ Gpu!TypeOK
    BY <1>1, GpuTypes DEF PackagesInvariant
  <2> QED
    BY <2>1, <2>2, <2>3, <2>4, <2>5, <2>6 DEF TypesOK
<1>2. StudioSpec => [](ServicesTyped /\ AccountInvariant /\ RenderingTyped)
  <2>1. StudioInit => ServicesTyped /\ AccountInvariant /\ RenderingTyped
    BY ServicesBegin, AccountInit, RenderingBegins
  <2>2. ServicesTyped /\ AccountInvariant /\ RenderingTyped /\ [StudioNext]_studioVars
          => (ServicesTyped /\ AccountInvariant /\ RenderingTyped)'
    BY ServicesGoOn, AccountStep, RenderingGoesOn
  <2> QED
    BY <2>1, <2>2, PTL DEF StudioSpec
<1> QED
  BY <1>1, <1>2, PublicationAlways, PTL

===============================================================================
