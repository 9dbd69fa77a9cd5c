----------------------------- MODULE ServicesProofs -----------------------------
(***************************************************************************)
(* Proofs about the services of the studio whose state is small enough to  *)
(* be kept by an invariant of its own: the rights ledger, the provider     *)
(* router, the timing fitter, schema migrations, the job entity, takes,    *)
(* the catalog, the undo history, the store of transcripts and the         *)
(* commands on them, for any number of what they manage.                   *)
(***************************************************************************)
EXTENDS Studio, SequenceTheorems, FiniteSetTheorems, WellFoundedInduction, TLAPS

-----------------------------------------------------------------------------
(* Sequences that grow at their end, and sets of numbers.                  *)

\* What is in a sequence stays where it is when something is appended to it.
LEMMA Appended ==
    ASSUME NEW s, \E S : s \in Seq(S), NEW e
    PROVE  /\ \E S : Append(s, e) \in Seq(S)
           /\ Len(s) \in Nat /\ DOMAIN s = 1..Len(s)
           /\ Len(Append(s, e)) = Len(s) + 1 /\ DOMAIN Append(s, e) = 1..Len(s) + 1
           /\ \A i \in 1..Len(s) : Append(s, e)[i] = s[i]
           /\ Append(s, e)[Len(s) + 1] = e
<1>1. PICK S : s \in Seq(S)
  OBVIOUS
<1>2. Len(s) \in Nat /\ DOMAIN s = 1..Len(s) /\ s \in [1..Len(s) -> S]
  BY <1>1, LenProperties
<1>3. s \in Seq(S \cup {e})
  BY <1>2, SeqDef
<1> QED
  BY <1>2, <1>3, AppendProperties

\* Among some natural numbers one is the least.
LEMMA LeastExists ==
    ASSUME NEW S, S \subseteq Nat, S # {}
    PROVE  \E s \in S : \A t \in S : s <= t
<1> DEFINE R == OpToRel(<, Nat)
<1>1. IsWellFoundedOn(R, Nat)
  BY NatLessThanWellFounded
<1>2. \A s, t \in Nat : t < s => <<t, s>> \in R
  BY DEF OpToRel
<1> HIDE DEF R
<1>3. PICK s \in S : \A t \in S : ~(<<t, s>> \in R)
  BY <1>1, WFMin
<1>4. \A t \in S : ~(t < s)
  BY <1>2, <1>3
<1> QED
  BY <1>3, <1>4

-----------------------------------------------------------------------------
(* Sums over finite sets.  MapThenSumSet takes the elements in the order   *)
(* of CHOOSE; what it computes does not depend on it.                      *)

\* The element that a sum takes first.
First(s) == CHOOSE x \in s : TRUE

\* One round of the sum: what g says of s, from what it says of the rest.
Round(f, g, s) == IF s = {} THEN 0 ELSE f[First(s)] + g[s \ {First(s)}]

\* g is the function that MapThenSumSet defines on the subsets of S.
IsSum(f, g, S) == g = [s \in SUBSET S |-> Round(f, g, s)]

SumOf(f, S) == (CHOOSE g : IsSum(f, g, S))[S]

\* What is taken first is an element, and leaves one fewer.
LEMMA FirstIsIn ==
    ASSUME NEW S, IsFiniteSet(S), S # {}
    PROVE  /\ First(S) \in S /\ IsFiniteSet(S \ {First(S)})
           /\ Cardinality(S) \in Nat /\ Cardinality(S) > 0
           /\ Cardinality(S \ {First(S)}) = Cardinality(S) - 1
<1>1. First(S) \in S
  BY DEF First
<1>2. Cardinality(S) \in Nat /\ Cardinality(S) # 0
  BY FS_EmptySet, FS_CardinalityType
<1> QED
  BY <1>1, <1>2, FS_RemoveElement

\* g is right about the sets of at most n elements.
RightUpTo(f, g, S, n) ==
    \A s \in SUBSET S : Cardinality(s) <= n => g[s] = Round(f, g, s)

\* There is a function that is right about sets of any bounded size.
LEMMA SumUpTo ==
    ASSUME NEW D, NEW f \in [D -> Nat], NEW S, S \subseteq D, IsFiniteSet(S), NEW k \in Nat
    PROVE  \E g \in [SUBSET S -> Nat] : RightUpTo(f, g, S, k)
<1> DEFINE Bad == {n \in Nat : ~ \E g \in [SUBSET S -> Nat] : RightUpTo(f, g, S, n)}
<1>1. \A s \in SUBSET S : IsFiniteSet(s) /\ Cardinality(s) \in Nat
  BY FS_Subset, FS_CardinalityType
<1>2. ASSUME NEW g \in [SUBSET S -> Nat]
      PROVE  \A s \in SUBSET S : Round(f, g, s) \in Nat
  <2>1. TAKE s \in SUBSET S
  <2>2. CASE s = {}
    BY <2>2 DEF Round
  <2>3. CASE s # {}
    <3>1. First(s) \in S /\ s \ {First(s)} \in SUBSET S
      BY <2>3, <1>1, FirstIsIn
    <3> QED
      BY <3>1, <2>3 DEF Round
  <2> QED
    BY <2>2, <2>3
<1>3. SUFFICES ASSUME Bad # {} PROVE FALSE
  OBVIOUS
<1>4. PICK n \in Bad : \A t \in Bad : n <= t
  BY <1>3, LeastExists
<1>5. CASE n = 0
  <2> DEFINE z == [s \in SUBSET S |-> 0]
  <2>1. z \in [SUBSET S -> Nat]
    OBVIOUS
  <2>2. \A s \in SUBSET S : Cardinality(s) <= 0 => z[s] = Round(f, z, s)
    BY <1>1, FS_EmptySet DEF Round
  <2> HIDE DEF z
  <2>3. RightUpTo(f, z, S, n)
    BY <1>5, <2>2 DEF RightUpTo
  <2> QED
    BY <1>4, <2>1, <2>3
<1>6. CASE n # 0
  <2>1. n - 1 \in Nat /\ n - 1 \notin Bad
    <3>1. Bad \subseteq Nat
      OBVIOUS
    <3>2. n - 1 \in Nat
      BY <1>6, <3>1
    <3> HIDE DEF Bad
    <3> QED
      BY <1>4, <3>1, <3>2
  <2>2. PICK g \in [SUBSET S -> Nat] : RightUpTo(f, g, S, n - 1)
    BY <2>1
  <2> DEFINE h == [s \in SUBSET S |-> Round(f, g, s)]
  <2>3. h \in [SUBSET S -> Nat]
    BY <1>2
  <2>4. \A s \in SUBSET S : Cardinality(s) <= n - 1 => h[s] = g[s]
    BY <2>2 DEF RightUpTo
  <2>5. ASSUME NEW s \in SUBSET S, Cardinality(s) <= n PROVE h[s] = Round(f, h, s)
    <3>1. CASE s = {}
      BY <3>1 DEF Round
    <3>2. CASE s # {}
      <4>1. /\ s \ {First(s)} \in SUBSET S
            /\ Cardinality(s \ {First(s)}) <= n - 1
        BY <3>2, <2>5, <1>1, FirstIsIn
      <4>2. h[s \ {First(s)}] = g[s \ {First(s)}]
        BY <4>1, <2>4
      <4> QED
        BY <4>2, <3>2 DEF Round
    <3> QED
      BY <3>1, <3>2
  <2> HIDE DEF h
  <2>6. RightUpTo(f, h, S, n)
    BY <2>5 DEF RightUpTo
  <2> QED
    BY <2>3, <2>6
<1> QED
  BY <1>5, <1>6

\* The function that defines a sum exists.
LEMMA SumExists ==
    ASSUME NEW D, NEW f \in [D -> Nat], NEW S, S \subseteq D, IsFiniteSet(S)
    PROVE  \E g \in [SUBSET S -> Nat] : IsSum(f, g, S)
<1>1. Cardinality(S) \in Nat /\ \A s \in SUBSET S : Cardinality(s) <= Cardinality(S)
  BY FS_Subset, FS_CardinalityType
<1>2. PICK g \in [SUBSET S -> Nat] : RightUpTo(f, g, S, Cardinality(S))
  BY <1>1, SumUpTo
<1>3. \A s \in SUBSET S : g[s] = Round(f, g, s)
  BY <1>1, <1>2 DEF RightUpTo
<1>4. g = [s \in SUBSET S |-> Round(f, g, s)]
  BY <1>3
<1> QED
  BY <1>4 DEF IsSum

\* And it is the same for every set that it is looked at for.
LEMMA SumsAgree ==
    ASSUME NEW f, NEW S, NEW T, NEW g, NEW h, IsSum(f, g, S), IsSum(f, h, T),
           NEW s, s \subseteq S, s \subseteq T, IsFiniteSet(s)
    PROVE  g[s] = h[s]
<1> DEFINE Bad == {n \in Nat : \E u \in SUBSET s : Cardinality(u) = n /\ g[u] # h[u]}
<1>1. \A u \in SUBSET s : IsFiniteSet(u) /\ Cardinality(u) \in Nat
  BY FS_Subset, FS_CardinalityType
<1>2. SUFFICES ASSUME Bad # {} PROVE FALSE
  BY <1>1
<1>3. PICK n \in Bad : \A t \in Bad : n <= t
  BY <1>2, LeastExists
<1>4. PICK u \in SUBSET s : Cardinality(u) = n /\ g[u] # h[u]
  BY <1>3
<1>5. g[u] = Round(f, g, u) /\ h[u] = Round(f, h, u)
  <2>1. u \in SUBSET S /\ u \in SUBSET T
    OBVIOUS
  <2> QED
    BY <2>1 DEF IsSum
<1>6. u # {}
  BY <1>4, <1>5 DEF Round
<1>7. u \ {First(u)} \in SUBSET s /\ Cardinality(u \ {First(u)}) = n - 1 /\ n - 1 \in Nat
  BY <1>1, <1>4, <1>6, FirstIsIn
<1>8. g[u \ {First(u)}] = h[u \ {First(u)}]
  BY <1>3, <1>7
<1> QED
  BY <1>4, <1>5, <1>6, <1>8 DEF Round

\* What a sum is: nothing for the empty set, and one element and the rest.
LEMMA SumUnfolds ==
    ASSUME NEW D, NEW f \in [D -> Nat], NEW S, S \subseteq D, IsFiniteSet(S)
    PROVE  /\ SumOf(f, S) \in Nat
           /\ S = {} => SumOf(f, S) = 0
           /\ S # {} => SumOf(f, S) = f[First(S)] + SumOf(f, S \ {First(S)})
<1> DEFINE g == CHOOSE g : IsSum(f, g, S)
<1>1. IsSum(f, g, S)
  BY SumExists
<1>2. PICK h \in [SUBSET S -> Nat] : IsSum(f, h, S)
  BY SumExists
<1>3. g[S] = h[S] /\ SumOf(f, S) = g[S]
  BY <1>1, <1>2, SumsAgree DEF SumOf
<1>4. g[S] = Round(f, g, S)
  <2> HIDE DEF g
  <2>1. S \in SUBSET S
    OBVIOUS
  <2> QED
    BY <1>1, <2>1 DEF IsSum
<1>5. ASSUME S # {} PROVE SumOf(f, S) = f[First(S)] + SumOf(f, S \ {First(S)})
  <2> DEFINE T == S \ {First(S)}
             k == CHOOSE k : IsSum(f, k, T)
  <2>1. T \subseteq S /\ T \subseteq D /\ IsFiniteSet(T)
    BY <1>5, FirstIsIn
  <2>2. IsSum(f, k, T)
    BY <2>1, SumExists
  <2>3. k[T] = g[T]
    <3> HIDE DEF g, k, T
    <3> QED
      BY <1>1, <2>1, <2>2, SumsAgree
  <2>4. SumOf(f, T) = k[T]
    BY DEF SumOf
  <2> HIDE DEF g, k
  <2> QED
    BY <1>3, <1>4, <1>5, <2>3, <2>4 DEF Round
<1> HIDE DEF g
<1> QED
  BY <1>2, <1>3, <1>4, <1>5 DEF Round

\* A sum is any of its elements and the rest.
LEMMA SumOfAny ==
    ASSUME NEW D, NEW f \in [D -> Nat], NEW S, S \subseteq D, IsFiniteSet(S), NEW x \in S
    PROVE  SumOf(f, S) = f[x] + SumOf(f, S \ {x})
<1> DEFINE Off(s, y) == SumOf(f, s) # f[y] + SumOf(f, s \ {y})
           Bad == {n \in Nat : \E s \in SUBSET S : Cardinality(s) = n /\ \E y \in s : Off(s, y)}
<1>1. \A s \in SUBSET S : s \subseteq D /\ IsFiniteSet(s) /\ Cardinality(s) \in Nat
  BY FS_Subset, FS_CardinalityType
<1>2. SUFFICES ASSUME Bad # {} PROVE FALSE
  <2>1. Off(S, x) => Cardinality(S) \in Bad
    BY <1>1
  <2> QED
    BY <2>1
<1>3. PICK n \in Bad : \A t \in Bad : n <= t
  BY <1>2, LeastExists
<1>4. PICK s \in SUBSET S : Cardinality(s) = n /\ \E y \in s : Off(s, y)
  BY <1>3
<1>5. PICK y \in s : Off(s, y)
  BY <1>4
<1> DEFINE c == First(s)
<1>6. /\ c \in s /\ SumOf(f, s) = f[c] + SumOf(f, s \ {c})
      /\ Cardinality(s \ {c}) = n - 1 /\ Cardinality(s \ {y}) = n - 1 /\ n - 1 \in Nat
  <2>1. IsFiniteSet(s) /\ s # {} /\ s \subseteq D
    BY <1>1, <1>5
  <2>2. Cardinality(s \ {c}) = n - 1 /\ n - 1 \in Nat /\ c \in s
    BY <1>4, <2>1, FirstIsIn
  <2>3. Cardinality(s \ {y}) = n - 1
    BY <1>4, <1>5, <2>1, FS_RemoveElement
  <2>4. SumOf(f, s) = f[c] + SumOf(f, s \ {c})
    BY <2>1, SumUnfolds
  <2> QED
    BY <2>2, <2>3, <2>4
<1> HIDE DEF c
<1>7. c # y
  BY <1>5, <1>6
<1>8. n - 1 \notin Bad
  BY <1>3, <1>6
<1>9. s \ {c} \in SUBSET S /\ s \ {y} \in SUBSET S
  OBVIOUS
<1>10. ~Off(s \ {c}, y) /\ ~Off(s \ {y}, c)
  BY <1>5, <1>6, <1>7, <1>8, <1>9
<1>11. (s \ {c}) \ {y} = (s \ {y}) \ {c}
  OBVIOUS
<1>12. /\ SumOf(f, s \ {c}) = f[y] + SumOf(f, (s \ {c}) \ {y})
       /\ SumOf(f, s \ {y}) = f[c] + SumOf(f, (s \ {c}) \ {y})
  BY <1>10, <1>11
<1>13. SumOf(f, (s \ {c}) \ {y}) \in Nat /\ f[c] \in Nat /\ f[y] \in Nat
  <2>1. (s \ {c}) \ {y} \in SUBSET S
    OBVIOUS
  <2> QED
    BY <2>1, <1>1, <1>6, SumUnfolds
<1>14. SumOf(f, s) # f[y] + SumOf(f, s \ {y})
  BY <1>5
<1> QED
  BY <1>6, <1>12, <1>13, <1>14

\* The sum of a part is no more than the whole.
LEMMA SumOfPart ==
    ASSUME NEW D, NEW f \in [D -> Nat], NEW S, S \subseteq D, IsFiniteSet(S), NEW P, P \subseteq S
    PROVE  SumOf(f, P) <= SumOf(f, S)
<1> DEFINE Bad == {n \in Nat : \E s \in SUBSET S : /\ Cardinality(s) = n /\ P \subseteq s
                                                   /\ ~(SumOf(f, P) <= SumOf(f, s))}
<1>1. \A s \in SUBSET S : s \subseteq D /\ IsFiniteSet(s) /\ Cardinality(s) \in Nat
  BY FS_Subset, FS_CardinalityType
<1>2. SUFFICES ASSUME Bad # {} PROVE FALSE
  BY <1>1
<1>3. PICK n \in Bad : \A t \in Bad : n <= t
  BY <1>2, LeastExists
<1>4. PICK s \in SUBSET S : Cardinality(s) = n /\ P \subseteq s /\ ~(SumOf(f, P) <= SumOf(f, s))
  BY <1>3
<1>5. SumOf(f, P) \in Nat /\ \A u \in SUBSET S : SumOf(f, u) \in Nat
  <2>1. P \in SUBSET S
    OBVIOUS
  <2>2. \A u \in SUBSET S : SumOf(f, u) \in Nat
    BY <1>1, SumUnfolds
  <2> QED
    BY <2>1, <2>2
<1>6. PICK y \in s : y \notin P
  <2>1. P # s
    BY <1>4, <1>5
  <2> QED
    BY <1>4, <2>1
<1>7. SumOf(f, s) = f[y] + SumOf(f, s \ {y}) /\ f[y] \in Nat
  BY <1>1, SumOfAny
<1>8. /\ s \ {y} \in SUBSET S /\ P \subseteq s \ {y}
      /\ Cardinality(s \ {y}) = n - 1 /\ n - 1 \in Nat
  <2>1. IsFiniteSet(s) /\ s # {}
    BY <1>1
  <2>2. Cardinality(s) # 0
    BY <2>1, FS_EmptySet
  <2> QED
    BY <1>1, <1>4, <1>6, <2>1, <2>2, FS_RemoveElement
<1>9. SumOf(f, P) <= SumOf(f, s \ {y})
  BY <1>3, <1>8
<1> QED
  BY <1>4, <1>5, <1>7, <1>8, <1>9

-----------------------------------------------------------------------------
(* The ledger of voice rights.                                             *)

ProfileEvents == {"profile_registered", "profile_disabled"}
ConsentEvents == {"consent_registered"}

\* An active profile is the one that its last entry in the ledger registered.
ProfileExplained(v) ==
    profiles[v] # None =>
      /\ DOMAIN profiles[v] = {"id", "project", "origin", "status", "areas", "consent"}
      /\ profiles[v].consent \in ConsentIds \cup {None}
      /\ profiles[v].status = "active" =>
           \E i \in DOMAIN ledger :
             /\ Rights!LastBefore(i, Len(ledger) + 1, ProfileEvents, "profile", v)
             /\ ledger[i].kind = "profile_registered" /\ ledger[i].subject = profiles[v]

\* A consent is the one that was registered last.
ConsentExplained(c) ==
    consents[c] # None =>
      \E j \in DOMAIN ledger :
        /\ Rights!LastBefore(j, Len(ledger) + 1, ConsentEvents, "consent", c)
        /\ ledger[j].subject = consents[c]

\* Whatever is in place, and whatever was authorised, the ledger explains.
RightsInvariant ==
    /\ \E S : ledger \in Seq(S)
    /\ \A v \in ProfileIds : ProfileExplained(v)
    /\ \A c \in ConsentIds : ConsentExplained(c)
    /\ \E S : profiles \in [ProfileIds -> S]
    /\ \E S : consents \in [ConsentIds -> S]
    /\ Rights!LedgerExplainsUse

\* A step of the studio is one of the rights service, or leaves it alone.
LEMMA RightsRun ==
    /\ StudioInit => Rights!Init
    /\ [StudioNext]_studioVars => [Rights!Next]_rightsVars
BY DEF StudioInit, StudioNext, studioVars, rightsVars

\* In the beginning nothing is registered.
LEMMA RightsInit == Rights!Init => RightsInvariant
<1> SUFFICES ASSUME Rights!Init PROVE RightsInvariant
  OBVIOUS
<1>1. ledger \in Seq({}) /\ DOMAIN ledger = {}
  BY DEF Rights!Init
<1>2. \E S : ledger \in Seq(S)
  BY <1>1
<1>3. profiles \in [ProfileIds -> {None}] /\ consents \in [ConsentIds -> {None}]
  BY DEF Rights!Init
<1>4. /\ \A v \in ProfileIds : ProfileExplained(v)
      /\ \A c \in ConsentIds : ConsentExplained(c)
  BY <1>3 DEF ProfileExplained, ConsentExplained
<1>5. (\E S : profiles \in [ProfileIds -> S]) /\ (\E S : consents \in [ConsentIds -> S])
  BY <1>3
<1> QED
  BY <1>1, <1>2, <1>4, <1>5 DEF RightsInvariant, Rights!LedgerExplainsUse

\* What the ledger said, it says after another entry.
LEMMA LastStays ==
    ASSUME \E S : ledger \in Seq(S), NEW e, ledger' = Append(ledger, e),
           NEW n \in 1..Len(ledger) + 1, NEW i \in DOMAIN ledger,
           NEW kinds, NEW field, NEW id
    PROVE  Rights!LastBefore(i, n, kinds, field, id)' <=> Rights!LastBefore(i, n, kinds, field, id)
<1>1. /\ Len(ledger) \in Nat /\ DOMAIN ledger = 1..Len(ledger)
      /\ \A j \in 1..Len(ledger) : ledger'[j] = ledger[j]
  BY Appended
<1>2. \A j \in i + 1 .. n - 1 : ledger'[j] = ledger[j]
  BY <1>1
<1> QED
  BY <1>1, <1>2 DEF Rights!LastBefore

\* An entry about something else leaves the last one the last one.
LEMMA LastGoesOn ==
    ASSUME \E S : ledger \in Seq(S), NEW e, ledger' = Append(ledger, e),
           NEW i \in DOMAIN ledger, NEW kinds, NEW field, NEW id,
           Rights!LastBefore(i, Len(ledger) + 1, kinds, field, id),
           ~(e.kind \in kinds /\ e[field] = id)
    PROVE  /\ i \in DOMAIN ledger' /\ ledger'[i] = ledger[i]
           /\ Rights!LastBefore(i, Len(ledger) + 1, kinds, field, id)'
<1>1. /\ Len(ledger) \in Nat /\ DOMAIN ledger = 1..Len(ledger)
      /\ Len(ledger') = Len(ledger) + 1 /\ DOMAIN ledger' = 1..Len(ledger) + 1
      /\ \A j \in 1..Len(ledger) : ledger'[j] = ledger[j]
      /\ ledger'[Len(ledger) + 1] = e
  BY Appended
<1>2. \A j \in i + 1 .. Len(ledger) : ~(ledger'[j].kind \in kinds /\ ledger'[j][field] = id)
  BY <1>1 DEF Rights!LastBefore
<1>3. \A j \in i + 1 .. Len(ledger) + 1 : ~(ledger'[j].kind \in kinds /\ ledger'[j][field] = id)
  BY <1>1, <1>2
<1> QED
  BY <1>1, <1>3 DEF Rights!LastBefore

\* A new entry is the last of its kind about what it is about.
LEMMA NewIsLast ==
    ASSUME \E S : ledger \in Seq(S), NEW e, ledger' = Append(ledger, e),
           NEW kinds, NEW field, NEW id, e.kind \in kinds, e[field] = id
    PROVE  /\ Len(ledger') \in DOMAIN ledger' /\ ledger'[Len(ledger')] = e
           /\ Rights!LastBefore(Len(ledger), Len(ledger) + 1, kinds, field, id)'
BY Appended DEF Rights!LastBefore

\* What the profile v has to say for the use e.
ProfileGrants(v, e) ==
    /\ v.status = "active"
    /\ v.project = e.subject.project
    /\ {AnyArea, e.subject.area} \cap v.areas # {}
    /\ v.consent = e.consent

\* Entry i of the ledger, and perhaps entry j, explain the use e at place n.
Explains(i, n, e) ==
    /\ Rights!LastBefore(i, n, ProfileEvents, "profile", e.profile)
    /\ ledger[i].kind = "profile_registered"
    /\ ProfileGrants(ledger[i].subject, e)
    /\ \/ ledger[i].subject.origin = "synthetic_stock" /\ e.consent = None
       \/ \E j \in DOMAIN ledger :
            /\ Rights!LastBefore(j, n, ConsentEvents, "consent", e.consent)
            /\ Rights!GrantsUse(ledger[j].subject, e.subject, e.at)

\* What explained a use goes on explaining it.
LEMMA StillExplains ==
    ASSUME \E S : ledger \in Seq(S), NEW e, ledger' = Append(ledger, e),
           NEW n \in 1..Len(ledger) + 1, NEW i \in DOMAIN ledger, NEW u, Explains(i, n, u)
    PROVE  i \in DOMAIN ledger' /\ Explains(i, n, u)'
<1>1. /\ Len(ledger) \in Nat /\ DOMAIN ledger = 1..Len(ledger)
      /\ DOMAIN ledger' = 1..Len(ledger) + 1
      /\ \A j \in DOMAIN ledger : j \in DOMAIN ledger' /\ ledger'[j] = ledger[j]
  BY Appended
<1>2. /\ Rights!LastBefore(i, n, ProfileEvents, "profile", u.profile)'
      /\ ledger'[i].kind = "profile_registered"
      /\ ProfileGrants(ledger'[i].subject, u)
  BY <1>1, LastStays DEF Explains, ProfileEvents
<1>3. CASE ledger[i].subject.origin = "synthetic_stock" /\ u.consent = None
  BY <1>1, <1>2, <1>3 DEF Explains
<1>4. CASE \E j \in DOMAIN ledger :
             /\ Rights!LastBefore(j, n, ConsentEvents, "consent", u.consent)
             /\ Rights!GrantsUse(ledger[j].subject, u.subject, u.at)
  <2>1. PICK j \in DOMAIN ledger :
             /\ Rights!LastBefore(j, n, ConsentEvents, "consent", u.consent)
             /\ Rights!GrantsUse(ledger[j].subject, u.subject, u.at)
    BY <1>4
  <2>2. Rights!LastBefore(j, n, ConsentEvents, "consent", u.consent)'
    BY <2>1, LastStays
  <2>3. j \in DOMAIN ledger' /\ ledger'[j] = ledger[j]
    BY <1>1
  <2> QED
    BY <1>1, <1>2, <2>1, <2>2, <2>3 DEF Explains
<1> QED
  BY <1>1, <1>3, <1>4 DEF Explains

\* Every use stays explained, if the new entry is.
LEMMA StillExplained ==
    ASSUME RightsInvariant, NEW e, ledger' = Append(ledger, e),
           e.kind = "voice_authorized" =>
             \E i \in DOMAIN ledger : Explains(i, Len(ledger) + 1, e)
    PROVE  Rights!LedgerExplainsUse'
<1>1. /\ Len(ledger) \in Nat /\ DOMAIN ledger = 1..Len(ledger)
      /\ DOMAIN ledger' = 1..Len(ledger) + 1
      /\ \A j \in 1..Len(ledger) : ledger'[j] = ledger[j]
      /\ ledger'[Len(ledger) + 1] = e
  BY Appended DEF RightsInvariant
<1>2. ASSUME NEW n \in DOMAIN ledger', ledger'[n].kind = "voice_authorized"
      PROVE  \E i \in DOMAIN ledger : Explains(i, n, ledger'[n])
  <2>1. CASE n \in 1..Len(ledger)
    BY <1>1, <1>2, <2>1 DEF RightsInvariant, Rights!LedgerExplainsUse, Explains, ProfileGrants, ProfileEvents, ConsentEvents
  <2>2. CASE n = Len(ledger) + 1
    BY <1>1, <1>2, <2>2
  <2> QED
    BY <1>1, <2>1, <2>2
<1>3. ASSUME NEW n \in DOMAIN ledger', ledger'[n].kind = "voice_authorized"
      PROVE  \E i \in DOMAIN ledger' : Explains(i, n, ledger[n])'
  <2>1. PICK i \in DOMAIN ledger : Explains(i, n, ledger'[n])
    BY <1>2, <1>3
  <2>2. PICK u : u = ledger'[n]
    OBVIOUS
  <2>3. Explains(i, n, u) /\ n \in 1..Len(ledger) + 1
    BY <1>1, <2>1, <2>2
  <2>4. i \in DOMAIN ledger' /\ Explains(i, n, u)'
    BY <2>3, StillExplains DEF RightsInvariant
  <2> QED
    BY <2>2, <2>4 DEF Explains
<1> QED
  BY <1>3 DEF Rights!LedgerExplainsUse, Explains, ProfileGrants, ProfileEvents, ConsentEvents

\* A profile that the entry is not about stays explained.
LEMMA ProfileStays ==
    ASSUME RightsInvariant, NEW e, ledger' = Append(ledger, e),
           NEW v \in ProfileIds, profiles'[v] = profiles[v],
           ~(e.kind \in ProfileEvents /\ e["profile"] = v)
    PROVE  ProfileExplained(v)'
<1>1. CASE profiles[v] # None /\ profiles[v].status = "active"
  <2>1. PICK i \in DOMAIN ledger :
          /\ Rights!LastBefore(i, Len(ledger) + 1, ProfileEvents, "profile", v)
          /\ ledger[i].kind = "profile_registered" /\ ledger[i].subject = profiles[v]
    BY <1>1 DEF RightsInvariant, ProfileExplained
  <2>2. /\ i \in DOMAIN ledger' /\ ledger'[i] = ledger[i]
        /\ Rights!LastBefore(i, Len(ledger) + 1, ProfileEvents, "profile", v)'
    BY <2>1, LastGoesOn DEF RightsInvariant, ProfileEvents
  <2> QED
    BY <1>1, <2>1, <2>2 DEF RightsInvariant, ProfileExplained, ProfileEvents
<1>2. CASE profiles[v] = None \/ profiles[v].status # "active"
  BY <1>2 DEF RightsInvariant, ProfileExplained
<1> QED
  BY <1>1, <1>2

\* A consent that the entry is not about stays explained.
LEMMA ConsentStays ==
    ASSUME RightsInvariant, NEW e, ledger' = Append(ledger, e),
           NEW c \in ConsentIds, consents'[c] = consents[c],
           ~(e.kind \in ConsentEvents /\ e["consent"] = c)
    PROVE  ConsentExplained(c)'
<1>1. CASE consents[c] # None
  <2>1. PICK j \in DOMAIN ledger :
          /\ Rights!LastBefore(j, Len(ledger) + 1, ConsentEvents, "consent", c)
          /\ ledger[j].subject = consents[c]
    BY <1>1 DEF RightsInvariant, ConsentExplained
  <2>2. /\ j \in DOMAIN ledger' /\ ledger'[j] = ledger[j]
        /\ Rights!LastBefore(j, Len(ledger) + 1, ConsentEvents, "consent", c)'
    BY <2>1, LastGoesOn DEF RightsInvariant
  <2> QED
    BY <1>1, <2>1, <2>2 DEF ConsentExplained
<1>2. CASE consents[c] = None
  BY <1>2 DEF ConsentExplained
<1> QED
  BY <1>1, <1>2

\* A profile is registered.
LEMMA ProfileIsRegistered ==
    ASSUME RightsInvariant, NEW new \in ProfileOffers, Rights!RegisterProfile(new)
    PROVE  RightsInvariant'
<1> DEFINE e == Rights!Entry("profile_registered", new.id, None, new)
<1>1. /\ ledger' = Append(ledger, e) /\ profiles' = [profiles EXCEPT ![new.id] = new]
      /\ consents' = consents
  BY DEF Rights!RegisterProfile, Rights!Append_
<1>2. /\ e.kind = "profile_registered" /\ e["profile"] = new.id /\ e.subject = new
      /\ e.kind # "voice_authorized" /\ e.kind \in ProfileEvents /\ e.kind \notin ConsentEvents
  BY DEF Rights!Entry, ProfileEvents, ConsentEvents
<1> HIDE DEF e
<1>3. /\ DOMAIN new = {"id", "project", "origin", "status", "areas", "consent"}
      /\ new.id \in ProfileIds /\ new.consent \in ConsentIds \cup {None}
  BY StudioConstants DEF Rights!RightsConstants
<1>4. PICK S : profiles \in [ProfileIds -> S]
  BY DEF RightsInvariant
<1>5. profiles' \in [ProfileIds -> S \cup {new}] /\ profiles'[new.id] = new
      /\ \A v \in ProfileIds : v # new.id => profiles'[v] = profiles[v]
  BY <1>1, <1>3, <1>4
<1>6. ASSUME NEW v \in ProfileIds PROVE ProfileExplained(v)'
  <2>1. CASE v # new.id
    BY <1>1, <1>2, <1>5, <2>1, ProfileStays
  <2>2. CASE v = new.id
    <3>1. PICK f : f = e
      OBVIOUS
    <3>2. /\ ledger' = Append(ledger, f) /\ f.kind \in ProfileEvents /\ f["profile"] = new.id
          /\ \E T : ledger \in Seq(T)
      BY <1>1, <1>2, <3>1 DEF RightsInvariant, ProfileEvents
    <3>3. /\ Len(ledger') \in DOMAIN ledger' /\ ledger'[Len(ledger')] = f
          /\ Rights!LastBefore(Len(ledger), Len(ledger) + 1, ProfileEvents, "profile", new.id)'
      BY <3>2, NewIsLast
    <3> QED
      BY <1>2, <1>3, <1>5, <2>2, <3>1, <3>3 DEF ProfileExplained, ProfileEvents
  <2> QED
    BY <2>1, <2>2
<1>7. ASSUME NEW c \in ConsentIds PROVE ConsentExplained(c)'
  BY <1>1, <1>2, ConsentStays
<1>8. (\E T : ledger' \in Seq(T)) /\ Rights!LedgerExplainsUse'
  BY <1>1, <1>2, Appended, StillExplained DEF RightsInvariant
<1>9. (\E T : profiles' \in [ProfileIds -> T]) /\ (\E T : consents' \in [ConsentIds -> T])
  BY <1>1, <1>5 DEF RightsInvariant
<1> QED
  BY <1>6, <1>7, <1>8, <1>9 DEF RightsInvariant

\* A consent is registered.
LEMMA ConsentIsRegistered ==
    ASSUME RightsInvariant, NEW new \in ConsentOffers, Rights!RegisterConsent(new)
    PROVE  RightsInvariant'
<1> DEFINE e == Rights!Entry("consent_registered", None, new.id, new)
<1>1. /\ ledger' = Append(ledger, e) /\ consents' = [consents EXCEPT ![new.id] = new]
      /\ profiles' = profiles
  BY DEF Rights!RegisterConsent, Rights!Append_
<1>2. /\ e.kind = "consent_registered" /\ e["consent"] = new.id /\ e.subject = new
      /\ e.kind # "voice_authorized" /\ e.kind \notin ProfileEvents
  BY DEF Rights!Entry, ProfileEvents
<1> HIDE DEF e
<1>3. new.id \in ConsentIds
  BY StudioConstants DEF Rights!RightsConstants
<1>4. PICK S : consents \in [ConsentIds -> S]
  BY DEF RightsInvariant
<1>5. consents' \in [ConsentIds -> S \cup {new}] /\ consents'[new.id] = new
      /\ \A c \in ConsentIds : c # new.id => consents'[c] = consents[c]
  BY <1>1, <1>3, <1>4
<1>6. ASSUME NEW c \in ConsentIds PROVE ConsentExplained(c)'
  <2>1. CASE c # new.id
    BY <1>1, <1>2, <1>5, <2>1, ConsentStays
  <2>2. CASE c = new.id
    <3>1. PICK f : f = e
      OBVIOUS
    <3>2. /\ ledger' = Append(ledger, f) /\ f.kind \in ConsentEvents /\ f["consent"] = new.id
          /\ \E T : ledger \in Seq(T)
      BY <1>1, <1>2, <3>1 DEF RightsInvariant, ConsentEvents
    <3>3. /\ Len(ledger') \in DOMAIN ledger' /\ ledger'[Len(ledger')] = f
          /\ Rights!LastBefore(Len(ledger), Len(ledger) + 1, ConsentEvents, "consent", new.id)'
      BY <3>2, NewIsLast
    <3> QED
      BY <1>2, <1>5, <2>2, <3>1, <3>3 DEF ConsentExplained
  <2> QED
    BY <2>1, <2>2
<1>7. ASSUME NEW v \in ProfileIds PROVE ProfileExplained(v)'
  BY <1>1, <1>2, ProfileStays
<1>8. (\E T : ledger' \in Seq(T)) /\ Rights!LedgerExplainsUse'
  BY <1>1, <1>2, Appended, StillExplained DEF RightsInvariant
<1>9. (\E T : profiles' \in [ProfileIds -> T]) /\ (\E T : consents' \in [ConsentIds -> T])
  BY <1>1, <1>5 DEF RightsInvariant
<1> QED
  BY <1>6, <1>7, <1>8, <1>9 DEF RightsInvariant

\* An entry that is neither a registration nor about a profile's status.
LEMMA OtherEntry ==
    ASSUME RightsInvariant, NEW e, ledger' = Append(ledger, e), UNCHANGED <<profiles, consents>>,
           e.kind \notin ProfileEvents, e.kind \notin ConsentEvents,
           e.kind = "voice_authorized" =>
             \E i \in DOMAIN ledger : Explains(i, Len(ledger) + 1, e)
    PROVE  RightsInvariant'
<1>1. ASSUME NEW v \in ProfileIds PROVE ProfileExplained(v)'
  BY ProfileStays
<1>2. ASSUME NEW c \in ConsentIds PROVE ConsentExplained(c)'
  BY ConsentStays
<1>3. (\E T : ledger' \in Seq(T)) /\ Rights!LedgerExplainsUse'
  BY Appended, StillExplained DEF RightsInvariant
<1> QED
  BY <1>1, <1>2, <1>3 DEF RightsInvariant

\* A profile is disabled: it is not active any more.
LEMMA ProfileIsDisabled ==
    ASSUME RightsInvariant, NEW v \in ProfileIds, Rights!DisableProfile(v)
    PROVE  RightsInvariant'
<1> DEFINE e == Rights!Entry("profile_disabled", v, None, profiles[v])
           new == [profiles[v] EXCEPT !.status = "disabled"]
<1>1. /\ ledger' = Append(ledger, e) /\ profiles' = [profiles EXCEPT ![v] = new]
      /\ consents' = consents /\ profiles[v] # None
  BY DEF Rights!DisableProfile, Rights!Append_
<1>2. /\ e.kind = "profile_disabled" /\ e["profile"] = v
      /\ e.kind # "voice_authorized" /\ e.kind \notin ConsentEvents
  BY DEF Rights!Entry, ConsentEvents
<1> HIDE DEF e
<1>3. /\ DOMAIN profiles[v] = {"id", "project", "origin", "status", "areas", "consent"}
      /\ profiles[v].consent \in ConsentIds \cup {None}
  BY <1>1 DEF RightsInvariant, ProfileExplained
<1>4. /\ DOMAIN new = {"id", "project", "origin", "status", "areas", "consent"}
      /\ new.consent \in ConsentIds \cup {None} /\ new.status # "active"
  BY <1>3
<1> HIDE DEF new
<1>5. PICK S : profiles \in [ProfileIds -> S]
  BY DEF RightsInvariant
<1>6. profiles' \in [ProfileIds -> S \cup {new}] /\ profiles'[v] = new
      /\ \A w \in ProfileIds : w # v => profiles'[w] = profiles[w]
  BY <1>1, <1>5
<1>7. ASSUME NEW w \in ProfileIds PROVE ProfileExplained(w)'
  <2>1. CASE w # v
    BY <1>1, <1>2, <1>6, <2>1, ProfileStays
  <2>2. CASE w = v
    BY <1>4, <1>6, <2>2 DEF ProfileExplained
  <2> QED
    BY <2>1, <2>2
<1>8. ASSUME NEW c \in ConsentIds PROVE ConsentExplained(c)'
  BY <1>1, <1>2, ConsentStays
<1>9. (\E T : ledger' \in Seq(T)) /\ Rights!LedgerExplainsUse'
  BY <1>1, <1>2, Appended, StillExplained DEF RightsInvariant
<1>10. (\E T : profiles' \in [ProfileIds -> T]) /\ (\E T : consents' \in [ConsentIds -> T])
  BY <1>1, <1>6 DEF RightsInvariant
<1> QED
  BY <1>7, <1>8, <1>9, <1>10 DEF RightsInvariant

\* A use is authorised: the entries that put profile and consent in place
\* explain it.
LEMMA UseIsExplained ==
    ASSUME RightsInvariant, NEW v \in ProfileIds, NEW wish, profiles[v] # None,
           Rights!UseAuthorized(profiles[v], Rights!ConsentOf(profiles[v]), wish),
           NEW e, e = Rights!Entry("voice_authorized", v, profiles[v].consent, wish)
    PROVE  \E i \in DOMAIN ledger : Explains(i, Len(ledger) + 1, e)
<1>1. /\ e.profile = v /\ e.consent = profiles[v].consent /\ e.subject = wish /\ e.at = clock
  BY DEF Rights!Entry
<1>2. /\ profiles[v].status = "active" /\ profiles[v].project = wish.project
      /\ {AnyArea, wish.area} \cap profiles[v].areas # {}
      /\ \/ profiles[v].origin = "synthetic_stock" /\ profiles[v].consent = None
         \/ /\ Rights!ConsentOf(profiles[v]) # None
            /\ Rights!ConsentOf(profiles[v]).project \in {None, wish.project}
            /\ Rights!Permits(Rights!ConsentOf(profiles[v]), wish, clock)
  BY DEF Rights!UseAuthorized
<1>6. ProfileGrants(profiles[v], e)
  BY <1>1, <1>2 DEF ProfileGrants
<1>3. PICK i \in DOMAIN ledger :
        /\ Rights!LastBefore(i, Len(ledger) + 1, ProfileEvents, "profile", v)
        /\ ledger[i].kind = "profile_registered" /\ ledger[i].subject = profiles[v]
  BY <1>2 DEF RightsInvariant, ProfileExplained
<1>4. CASE profiles[v].origin = "synthetic_stock" /\ profiles[v].consent = None
  BY <1>1, <1>3, <1>4, <1>6 DEF Explains
<1>5. CASE /\ Rights!ConsentOf(profiles[v]) # None
           /\ Rights!ConsentOf(profiles[v]).project \in {None, wish.project}
           /\ Rights!Permits(Rights!ConsentOf(profiles[v]), wish, clock)
  <2> DEFINE c == profiles[v].consent
  <2>1. c \in ConsentIds /\ consents[c] # None /\ Rights!ConsentOf(profiles[v]) = consents[c]
    BY <1>5 DEF Rights!ConsentOf, RightsInvariant, ProfileExplained
  <2>2. PICK j \in DOMAIN ledger :
          /\ Rights!LastBefore(j, Len(ledger) + 1, ConsentEvents, "consent", c)
          /\ ledger[j].subject = consents[c]
    BY <2>1 DEF RightsInvariant, ConsentExplained
  <2>3. Rights!GrantsUse(consents[c], wish, clock)
    BY <1>5, <2>1 DEF Rights!Permits, Rights!GrantsUse
  <2> QED
    BY <1>1, <1>3, <1>6, <2>2, <2>3 DEF Explains
<1> QED
  BY <1>2, <1>4, <1>5

\* Every step of the rights service keeps the invariant.
LEMMA RightsStep == RightsInvariant /\ [Rights!Next]_rightsVars => RightsInvariant'
<1> SUFFICES ASSUME RightsInvariant, [Rights!Next]_rightsVars PROVE RightsInvariant'
  OBVIOUS
<1>1. ASSUME NEW v \in ProfileIds, NEW wish \in Requests, Rights!Authorize(v, wish)
      PROVE  RightsInvariant'
  <2>1. CASE \E c : Rights!Append_("voice_blocked", v, c, wish)
    <3>1. PICK c : Rights!Append_("voice_blocked", v, c, wish)
      BY <2>1
    <3> DEFINE e == Rights!Entry("voice_blocked", v, c, wish)
    <3>2. /\ ledger' = Append(ledger, e) /\ UNCHANGED <<profiles, consents>>
          /\ e.kind \notin ProfileEvents /\ e.kind \notin ConsentEvents
          /\ e.kind # "voice_authorized"
      BY <1>1, <3>1
      DEF Rights!Authorize, Rights!Append_, Rights!Entry, ProfileEvents, ConsentEvents
    <3> HIDE DEF e
    <3> QED
      BY <3>2, OtherEntry
  <2>2. CASE /\ profiles[v] # None
             /\ Rights!UseAuthorized(profiles[v], Rights!ConsentOf(profiles[v]), wish)
             /\ Rights!Append_("voice_authorized", v, profiles[v].consent, wish)
    <3> DEFINE e == Rights!Entry("voice_authorized", v, profiles[v].consent, wish)
    <3>1. /\ ledger' = Append(ledger, e) /\ UNCHANGED <<profiles, consents>>
          /\ e.kind \notin ProfileEvents /\ e.kind \notin ConsentEvents
      BY <1>1, <2>2
      DEF Rights!Authorize, Rights!Append_, Rights!Entry, ProfileEvents, ConsentEvents
    <3>2. \E i \in DOMAIN ledger : Explains(i, Len(ledger) + 1, e)
      BY <2>2, UseIsExplained
    <3> HIDE DEF e
    <3> QED
      BY <3>1, <3>2, OtherEntry
  <2> QED
    BY <1>1, <2>1, <2>2 DEF Rights!Authorize
<1>2. ASSUME NEW c \in ConsentIds, Rights!RevokeConsent(c) PROVE RightsInvariant'
  <2> DEFINE e == Rights!Entry("consent_revoked", None, c, consents[c])
  <2>1. /\ ledger' = Append(ledger, e) /\ UNCHANGED <<profiles, consents>>
        /\ e.kind \notin ProfileEvents /\ e.kind \notin ConsentEvents
        /\ e.kind # "voice_authorized"
    BY <1>2
    DEF Rights!RevokeConsent, Rights!Append_, Rights!Entry, ProfileEvents, ConsentEvents
  <2> HIDE DEF e
  <2> QED
    BY <2>1, OtherEntry
<1>3. CASE UNCHANGED <<profiles, consents, ledger>>
  <2>1. ASSUME NEW i, NEW n, NEW kinds, NEW field, NEW id
        PROVE  Rights!LastBefore(i, n, kinds, field, id)' <=> Rights!LastBefore(i, n, kinds, field, id)
    BY <1>3 DEF Rights!LastBefore
  <2>2. ASSUME NEW v \in ProfileIds PROVE ProfileExplained(v)'
    BY <1>3 DEF RightsInvariant, ProfileExplained, Rights!LastBefore
  <2>3. ASSUME NEW c \in ConsentIds PROVE ConsentExplained(c)'
    BY <1>3 DEF RightsInvariant, ConsentExplained, Rights!LastBefore
  <2>4. Rights!LedgerExplainsUse'
    BY <1>3, <2>1 DEF RightsInvariant, Rights!LedgerExplainsUse
  <2> QED
    BY <1>3, <2>2, <2>3, <2>4 DEF RightsInvariant
<1> QED
  BY <1>1, <1>2, <1>3, ProfileIsRegistered, ConsentIsRegistered, ProfileIsDisabled
  DEF Rights!Next, Rights!Tick, rightsVars

\* voice_rights_service.py: every use that the ledger has as authorised was of
\* a profile that was registered and not disabled since, and, unless the voice
\* is a stock one, on a consent whose last registration grants it.
THEOREM UsesAreExplained == StudioSpec => []LedgerExplainsUse
<1>1. StudioInit => RightsInvariant
  BY RightsRun, RightsInit
<1>2. RightsInvariant /\ [StudioNext]_studioVars => RightsInvariant'
  BY RightsRun, RightsStep
<1>3. RightsInvariant => LedgerExplainsUse
  BY DEF RightsInvariant, LedgerExplainsUse
<1> QED
  BY <1>1, <1>2, <1>3, PTL DEF StudioSpec

-----------------------------------------------------------------------------
(* The provider router.                                                    *)

CallStates == [at: 0..Len(Adapters), attempt: 0..MaxRetries, step: Router!CallSteps,
               count: Nat, tried: SUBSET Router!Kinds,
               outcome: {"none", "answered", "exhausted", "raised"}]

\* A caller in state s is within the breaker of k.
InBreaker(s, k) == s.step \notin {"look", "trying"} /\ Adapters[s.at] = k

\* Count, state and time of a breaker that nobody is in.
Settled(f, w, o) ==
    /\ w = "closed" <=> f < Threshold
    /\ w = "open" => o # "none"

\* Those of a breaker that a caller in state s is in alone.
Halfway(s, f, w, o) ==
    /\ s.step \in {"stamped", "elapsed", "reopen"} => f >= Threshold /\ w = "open" /\ o # "none"
    /\ s.step \in {"answer", "store"} => Settled(f, w, o)
    /\ s.step = "store" => s.count = f
    /\ s.step = "compare" => (f < Threshold => w = "closed") /\ (w = "open" => o # "none")
    /\ s.step \in {"open", "stamp"} => f >= Threshold
    /\ s.step = "stamp" => w = "open"
    /\ s.step \in {"close", "forget"} => f = 0
    /\ s.step = "forget" => w = "closed"

\* A breaker as it is when, at most, a caller in state s is in it.
BreakerFits(s, k, f, w, o) == IF InBreaker(s, k) THEN Halfway(s, f, w, o) ELSE Settled(f, w, o)

\* What a caller in state s may rely on, when the kinds failed as often as b
\* says: adapters behind it failed it or had failed often, and what it is about
\* to write does not exceed what is to blame for it.
CallIsExplained(s, b) ==
    /\ s.at = 0 => s.step = "look"
    /\ s.at > 0 => s.outcome = "none"
    /\ s.step = "store" => s.count + 1 <= b[Adapters[s.at]]
    /\ s.step \in {"stamped", "elapsed", "reopen", "open", "stamp"} =>
            b[Adapters[s.at]] >= Threshold
    /\ s.step \in {"store", "compare", "open", "stamp"} => Adapters[s.at] \in s.tried
    /\ \A n \in 1..Len(Adapters) : n < s.at =>
            Adapters[n] \in s.tried \/ b[Adapters[n]] >= Threshold
    /\ s.outcome = "exhausted" =>
            \A k \in Router!Kinds : k \in s.tried \/ b[k] >= Threshold

\* A breaker in which callers never met is settled, or left halfway by the one
\* who is in it.
MetNobody(k) ==
    ~crossed[k] =>
        /\ \A c, d \in Callers : InBreaker(call[c], k) /\ InBreaker(call[d], k) => c = d
        /\ (\A c \in Callers : ~InBreaker(call[c], k)) =>
                Settled(failures[k], circuit[k], opened[k])
        /\ \A c \in Callers : InBreaker(call[c], k) =>
                Halfway(call[c], failures[k], circuit[k], opened[k])

RouterInvariant ==
    /\ Router!TypeOK /\ Router!OpenedByFailures /\ Router!OnlyRacesRaise
    /\ \A c \in Callers : CallIsExplained(call[c], blamed)
    /\ \A k \in Router!Kinds : MetNobody(k)

\* A step of the studio is one of the router, or leaves it alone.
LEMMA RouterRun ==
    /\ StudioInit => Router!Init
    /\ [StudioNext]_studioVars => [Router!Next]_routerVars
BY DEF StudioInit, StudioNext, studioVars, routerVars

\* There are adapters, and their kinds are the kinds.
LEMMA AdaptersAreThere ==
    /\ Len(Adapters) \in Nat \ {0} /\ Threshold \in Nat \ {0}
    /\ \A n \in 1..Len(Adapters) : Adapters[n] \in Router!Kinds
    /\ \A k \in Router!Kinds : \E n \in 1..Len(Adapters) : Adapters[n] = k
    /\ MaxRetries \in Nat /\ MaxFailures \in [Router!Kinds -> Nat]
<1>1. /\ Adapters \in Seq(Router!Kinds) /\ Adapters # <<>> /\ Threshold \in Nat \ {0}
      /\ MaxRetries \in Nat /\ MaxFailures \in [Router!Kinds -> Nat]
  BY StudioConstants DEF Router!RouterConstants
<1>2. Len(Adapters) \in Nat \ {0} /\ DOMAIN Adapters = 1..Len(Adapters)
  BY <1>1, EmptySeq, LenProperties
<1> QED
  BY <1>1, <1>2 DEF Router!Kinds


\* In the beginning every circuit is closed and nobody is to blame.
LEMMA RouterInit == Router!Init => RouterInvariant
<1> SUFFICES ASSUME Router!Init PROVE RouterInvariant
  OBVIOUS
<1>1. /\ Len(Adapters) \in Nat /\ Threshold \in Nat \ {0} /\ MaxRetries \in Nat
      /\ MaxFailures \in [Router!Kinds -> Nat]
  BY AdaptersAreThere
<1>2. PICK t : t = Router!Fresh(0, {}, "none")
  OBVIOUS
<1>3. /\ t \in CallStates /\ t.at = 0 /\ t.step = "look" /\ t.tried = {} /\ t.outcome = "none"
  BY <1>1, <1>2 DEF Router!Fresh, CallStates, Router!CallSteps
<1>4. call = [c \in Callers |-> t]
  BY <1>2 DEF Router!Init
<1>5. Router!TypeOK
  BY <1>1, <1>3, <1>4 DEF Router!Init, Router!TypeOK, CallStates
<1>6. \A c \in Callers : CallIsExplained(call[c], blamed)
  BY <1>1, <1>3, <1>4 DEF CallIsExplained
<1>7. Router!OpenedByFailures /\ Router!OnlyRacesRaise
  BY <1>3, <1>4 DEF Router!Init, Router!OpenedByFailures, Router!OnlyRacesRaise
<1>8. \A k \in Router!Kinds : MetNobody(k)
  BY <1>1, <1>3, <1>4 DEF Router!Init, MetNobody, InBreaker, Settled
<1> QED
  BY <1>5, <1>6, <1>7, <1>8 DEF RouterInvariant

\* c comes to state t by a step that touches no breaker but k, and leaves k as
\* t says, unless callers have met in it.
Moves(c, k, t) ==
    /\ call' = [call EXCEPT ![c] = t] /\ CallIsExplained(t, blamed')
    /\ failures' \in [Router!Kinds -> Nat] /\ blamed' \in [Router!Kinds -> Nat]
    /\ circuit' \in [Router!Kinds -> {"closed", "open", "half_open"}]
    /\ opened' \in [Router!Kinds -> {"none", "recent", "old"}]
    /\ crossed' \in [Router!Kinds -> BOOLEAN]
    /\ \A j \in Router!Kinds \ {k} :
           /\ failures'[j] = failures[j] /\ circuit'[j] = circuit[j]
           /\ opened'[j] = opened[j] /\ blamed'[j] = blamed[j] /\ crossed'[j] = crossed[j]
    /\ blamed[k] <= blamed'[k] /\ blamed'[k] <= MaxFailures[k] /\ failures'[k] <= blamed'[k]
    /\ circuit'[k] # "closed" => blamed'[k] >= Threshold
    /\ crossed[k] => crossed'[k]
    /\ t.outcome = "raised" => crossed'[k]
    /\ \A j \in Router!Kinds : InBreaker(t, j) \/ InBreaker(call[c], j) => j = k
    /\ ~crossed'[k] =>
           /\ \/ InBreaker(call[c], k)
              \/ \A d \in Callers \ {c} : ~InBreaker(call[d], k)
           /\ BreakerFits(call[c], k, failures[k], circuit[k], opened[k]) =>
                  BreakerFits(t, k, failures'[k], circuit'[k], opened'[k])

\* Such a step keeps the invariant.
LEMMA CallerMoves ==
    ASSUME RouterInvariant, NEW c \in Callers, NEW k \in Router!Kinds, NEW t \in CallStates,
           Moves(c, k, t)
    PROVE  RouterInvariant'
<1> USE DEF Moves
<1>1. /\ call \in [Callers -> CallStates] /\ call' \in [Callers -> CallStates] /\ call'[c] = t
      /\ \A d \in Callers \ {c} : call'[d] = call[d]
      /\ failures \in [Router!Kinds -> Nat] /\ blamed \in [Router!Kinds -> Nat]
      /\ \A j \in Router!Kinds : blamed[j] <= MaxFailures[j] /\ blamed[j] <= blamed'[j]
  <2>1. /\ call \in [Callers -> CallStates]
        /\ failures \in [Router!Kinds -> Nat] /\ blamed \in [Router!Kinds -> Nat]
        /\ \A j \in Router!Kinds : blamed[j] <= MaxFailures[j]
    BY DEF RouterInvariant, Router!TypeOK, CallStates
  <2>2. /\ call' \in [Callers -> CallStates] /\ call'[c] = t
        /\ \A d \in Callers \ {c} : call'[d] = call[d]
    BY <2>1
  <2>3. \A j \in Router!Kinds : blamed[j] <= blamed'[j]
    <3>1. \A j \in Router!Kinds : j # k => blamed'[j] = blamed[j] /\ blamed[j] \in Nat
      BY <2>1
    <3> QED
      BY <3>1
  <2> QED
    BY <2>1, <2>2, <2>3
<1>2. Router!TypeOK'
  BY <1>1 DEF Router!TypeOK, CallStates
<1>3. Router!OpenedByFailures'
  BY <1>1 DEF RouterInvariant, Router!OpenedByFailures
<1>4. Router!OnlyRacesRaise'
  <2>1. ASSUME NEW d \in Callers, call'[d].outcome = "raised"
        PROVE  \E j \in Router!Kinds : crossed'[j]
    <3>1. CASE d = c
      BY <1>1, <2>1, <3>1
    <3>2. CASE d # c
      <4>1. PICK j \in Router!Kinds : crossed[j]
        BY <1>1, <2>1, <3>2 DEF RouterInvariant, Router!OnlyRacesRaise
      <4> QED
        BY <4>1
    <3> QED
      BY <3>1, <3>2
  <2> QED
    BY <2>1 DEF Router!OnlyRacesRaise
<1>5. ASSUME NEW d \in Callers PROVE CallIsExplained(call'[d], blamed')
  <2>1. CASE d = c
    BY <1>1, <2>1
  <2>2. CASE d # c
    <3>1. CallIsExplained(call[d], blamed) /\ call'[d] = call[d] /\ call[d] \in CallStates
      BY <1>1, <2>2 DEF RouterInvariant
    <3>2. PICK s \in CallStates : s = call[d]
      BY <3>1
    <3>3. \A n \in 1..Len(Adapters) : Adapters[n] \in Router!Kinds
      BY AdaptersAreThere
    <3>4. s.at = 0 \/ Adapters[s.at] \in Router!Kinds
      BY <3>3, AdaptersAreThere DEF CallStates
    <3>5. ASSUME CallIsExplained(s, blamed) PROVE CallIsExplained(s, blamed')
      <4>1. /\ Threshold \in Nat /\ s.count \in Nat
            /\ \A j \in Router!Kinds : /\ blamed[j] \in Nat /\ blamed'[j] \in Nat
                                      /\ blamed[j] <= blamed'[j]
        BY <1>1, AdaptersAreThere DEF CallStates
      <4>2. /\ s.at = 0 => s.step = "look"
            /\ s.at > 0 => s.outcome = "none"
            /\ s.step = "store" => s.count + 1 <= blamed'[Adapters[s.at]]
            /\ s.step \in {"stamped", "elapsed", "reopen", "open", "stamp"} =>
                    blamed'[Adapters[s.at]] >= Threshold
            /\ s.step \in {"store", "compare", "open", "stamp"} => Adapters[s.at] \in s.tried
        <5>1. CASE s.at = 0
          BY <3>5, <5>1 DEF CallIsExplained
        <5>2. CASE s.at # 0
          <6>1. PICK j \in Router!Kinds : j = Adapters[s.at]
            BY <3>4, <5>2
          <6> QED
            BY <3>5, <4>1, <5>2, <6>1 DEF CallIsExplained
        <5> QED
          BY <5>1, <5>2
      <4>3. \A n \in 1..Len(Adapters) : n < s.at =>
                Adapters[n] \in s.tried \/ blamed'[Adapters[n]] >= Threshold
        <5>1. ASSUME NEW n \in 1..Len(Adapters), n < s.at
              PROVE  Adapters[n] \in s.tried \/ blamed'[Adapters[n]] >= Threshold
          <6>1. PICK j \in Router!Kinds : j = Adapters[n]
            BY <3>3
          <6>2. j \in s.tried \/ blamed[j] >= Threshold
            BY <3>5, <5>1, <6>1 DEF CallIsExplained
          <6> QED
            BY <4>1, <6>1, <6>2
        <5> QED
          BY <5>1
      <4>4. s.outcome = "exhausted" =>
                \A j \in Router!Kinds : j \in s.tried \/ blamed'[j] >= Threshold
        BY <3>5, <4>1 DEF CallIsExplained
      <4> QED
        BY <4>2, <4>3, <4>4 DEF CallIsExplained
    <3> QED
      BY <3>1, <3>2, <3>5
  <2> QED
    BY <2>1, <2>2
<1>6. ASSUME NEW j \in Router!Kinds PROVE MetNobody(j)'
  <2>1. MetNobody(j)
    BY DEF RouterInvariant
  <2>2. CASE j # k
    <3>1. /\ \A d \in Callers : InBreaker(call'[d], j) <=> InBreaker(call[d], j)
          /\ \A d \in Callers : InBreaker(call[d], j) => call'[d] = call[d]
      BY <1>1, <2>2
    <3> QED
      BY <2>1, <2>2, <3>1 DEF MetNobody
  <2>3. CASE j = k
    <3> SUFFICES ASSUME ~crossed'[k] PROVE MetNobody(k)'
      BY <2>3 DEF MetNobody
    <3>1. ~crossed[k] /\ MetNobody(k)
      BY <2>1, <2>3
    <3>2. \A d \in Callers \ {c} : ~InBreaker(call[d], k)
      BY <3>1 DEF MetNobody
    <3>3. BreakerFits(call[c], k, failures[k], circuit[k], opened[k])
      BY <3>1, <3>2 DEF MetNobody, BreakerFits
    <3>4. BreakerFits(t, k, failures'[k], circuit'[k], opened'[k])
      BY <3>3
    <3>5. \A d \in Callers \ {c} : ~InBreaker(call'[d], k)
      BY <1>1, <3>2
    <3> QED
      BY <1>1, <3>4, <3>5 DEF MetNobody, BreakerFits
  <2> QED
    BY <2>2, <2>3
<1> QED
  BY <1>2, <1>3, <1>4, <1>5, <1>6 DEF RouterInvariant

\* A caller in a call has an adapter, and what is known of it.
LEMMA CallerHasAdapter ==
    ASSUME RouterInvariant, NEW c \in Callers, call[c].at > 0
    PROVE  /\ Router!Kind(c) \in Router!Kinds /\ Router!Kind(c) = Adapters[call[c].at]
           /\ call[c] \in CallStates /\ call[c].at \in 1..Len(Adapters)
           /\ CallIsExplained(call[c], blamed)
           /\ call \in [Callers -> CallStates]
BY AdaptersAreThere DEF RouterInvariant, Router!TypeOK, CallStates, Router!Kind

\* A step within a method changes a call's step and nothing else of it.
LEMMA OneStep ==
    ASSUME RouterInvariant, NEW c \in Callers, NEW from, NEW to \in Router!CallSteps,
           Router!Steps(c, from, to)
    PROVE  \E t \in CallStates :
               /\ call' = [call EXCEPT ![c] = t] /\ call[c].at > 0 /\ call[c].step = from
               /\ t.at = call[c].at /\ t.step = to /\ t.count = call[c].count
               /\ t.tried = call[c].tried /\ t.outcome = call[c].outcome
<1>1. call \in [Callers -> CallStates] /\ call[c].at > 0 /\ call[c].step = from
  BY CallerHasAdapter DEF Router!Steps, Router!Stands
<1>2. PICK s \in CallStates : s = call[c]
  BY <1>1
<1>3. PICK t : t = [s EXCEPT !.step = to]
  OBVIOUS
<1>4. /\ t \in CallStates /\ t.at = s.at /\ t.step = to /\ t.count = s.count
      /\ t.tried = s.tried /\ t.outcome = s.outcome
  BY <1>2, <1>3 DEF CallStates
<1>5. call' = [call EXCEPT ![c] = t]
  BY <1>2, <1>3 DEF Router!Steps
<1> QED
  BY <1>1, <1>2, <1>4, <1>5

\* Going on to the next adapter, or giving up, after one that failed the call
\* or had failed often before.
LEMMA OnwardIsExplained ==
    ASSUME RouterInvariant, NEW c \in Callers, call[c].at > 0,
           \/ Router!Kind(c) \in call[c].tried
           \/ blamed[Router!Kind(c)] >= Threshold
    PROVE  \E t \in CallStates :
               /\ t = Router!Onward(c) /\ CallIsExplained(t, blamed)
               /\ t.step = "look" /\ t.outcome # "raised"
<1>1. /\ Router!Kind(c) = Adapters[call[c].at]
      /\ call[c].at \in 1..Len(Adapters) /\ call[c] \in CallStates
      /\ CallIsExplained(call[c], blamed)
  BY CallerHasAdapter
<1>2. PICK s \in CallStates : s = call[c]
  BY <1>1
<1>3. /\ \A n \in 1..Len(Adapters) : n < s.at =>
            Adapters[n] \in s.tried \/ blamed[Adapters[n]] >= Threshold
      /\ Adapters[s.at] \in s.tried \/ blamed[Adapters[s.at]] >= Threshold
      /\ s.at \in 1..Len(Adapters) /\ s.tried \in SUBSET Router!Kinds /\ Len(Adapters) \in Nat
  BY <1>1, <1>2, AdaptersAreThere DEF CallIsExplained, CallStates
<1>4. CASE s.at < Len(Adapters)
  <2>1. PICK t : t = Router!Fresh(s.at + 1, s.tried, "none")
    OBVIOUS
  <2>2. /\ t.at = s.at + 1 /\ t.step = "look" /\ t.tried = s.tried /\ t.outcome = "none"
        /\ t \in CallStates
    BY <1>3, <1>4, <2>1, AdaptersAreThere DEF Router!Fresh, CallStates, Router!CallSteps
  <2>3. \A n \in 1..Len(Adapters) : n < s.at + 1 =>
            Adapters[n] \in s.tried \/ blamed[Adapters[n]] >= Threshold
    <3>1. \A n \in 1..Len(Adapters) : n < s.at + 1 => n < s.at \/ n = s.at
      BY <1>3
    <3> QED
      BY <1>3, <3>1
  <2>4. CallIsExplained(t, blamed)
    BY <1>3, <2>2, <2>3 DEF CallIsExplained
  <2>5. t = Router!Onward(c)
    BY <1>2, <1>4, <2>1 DEF Router!Onward
  <2> QED
    BY <2>2, <2>4, <2>5
<1>5. CASE ~(s.at < Len(Adapters))
  <2>1. PICK t : t = Router!Fresh(0, s.tried, "exhausted")
    OBVIOUS
  <2>2. /\ t.at = 0 /\ t.step = "look" /\ t.tried = s.tried /\ t.outcome = "exhausted"
        /\ t \in CallStates
    BY <1>3, <2>1, AdaptersAreThere DEF Router!Fresh, CallStates, Router!CallSteps
  <2>3. \A j \in Router!Kinds : j \in s.tried \/ blamed[j] >= Threshold
    <3>1. ASSUME NEW j \in Router!Kinds PROVE j \in s.tried \/ blamed[j] >= Threshold
      <4>1. PICK n \in 1..Len(Adapters) : Adapters[n] = j
        BY AdaptersAreThere
      <4>2. n < s.at \/ n = s.at
        BY <1>3, <1>5
      <4> QED
        BY <1>3, <4>1, <4>2
    <3> QED
      BY <3>1
  <2>4. CallIsExplained(t, blamed)
    BY <1>3, <2>2, <2>3 DEF CallIsExplained
  <2>5. t = Router!Onward(c)
    BY <1>2, <1>5, <2>1 DEF Router!Onward
  <2> QED
    BY <2>2, <2>4, <2>5
<1> QED
  BY <1>4, <1>5

\* After a failure that is counted, the next attempt or the next adapter.
LEMMA AfterFailureIsExplained ==
    ASSUME RouterInvariant, NEW c \in Callers, call[c].at > 0, NEW retryable \in BOOLEAN,
           call[c].step \in {"compare", "stamp"}
    PROVE  \E t \in CallStates :
               /\ t = Router!AfterFailure(c, retryable) /\ CallIsExplained(t, blamed)
               /\ t.step \in {"look", "trying"} /\ t.outcome # "raised"
<1>1. /\ Router!Kind(c) = Adapters[call[c].at] /\ call[c] \in CallStates
      /\ CallIsExplained(call[c], blamed)
  BY CallerHasAdapter
<1>2. PICK s \in CallStates : s = call[c]
  BY <1>1
<1>3. CASE ~(retryable /\ s.attempt < MaxRetries)
  <2>1. Router!AfterFailure(c, retryable) = Router!Onward(c)
    BY <1>2, <1>3 DEF Router!AfterFailure
  <2>2. Router!Kind(c) \in call[c].tried
    BY <1>1 DEF CallIsExplained
  <2> QED
    BY <2>1, <2>2, OnwardIsExplained
<1>4. CASE retryable /\ s.attempt < MaxRetries
  <2>1. PICK t : t = [s EXCEPT !.attempt = s.attempt + 1, !.step = "trying", !.count = 0]
    OBVIOUS
  <2>2. s.attempt + 1 \in 0..MaxRetries
    BY <1>4, AdaptersAreThere DEF CallStates
  <2>3. /\ t \in CallStates /\ t.at = s.at /\ t.step = "trying" /\ t.tried = s.tried
        /\ t.outcome = s.outcome
    BY <2>1, <2>2 DEF CallStates, Router!CallSteps
  <2>4. CallIsExplained(t, blamed)
    BY <1>1, <1>2, <2>3 DEF CallIsExplained
  <2>5. t = Router!AfterFailure(c, retryable)
    BY <1>2, <1>4, <2>1 DEF Router!AfterFailure
  <2>6. s.outcome = "none"
    BY <1>1, <1>2 DEF CallIsExplained
  <2> QED
    BY <2>3, <2>4, <2>5, <2>6
<1> QED
  BY <1>3, <1>4

\* What holds of the breakers at any time.
LEMMA BreakersAreTyped ==
    ASSUME RouterInvariant
    PROVE  /\ failures \in [Router!Kinds -> Nat]
           /\ circuit \in [Router!Kinds -> {"closed", "open", "half_open"}]
           /\ opened \in [Router!Kinds -> {"none", "recent", "old"}]
           /\ blamed \in [Router!Kinds -> Nat]
           /\ crossed \in [Router!Kinds -> BOOLEAN]
           /\ \A k \in Router!Kinds :
                 /\ blamed[k] <= MaxFailures[k] /\ failures[k] <= blamed[k]
                 /\ circuit[k] # "closed" => blamed[k] >= Threshold
BY DEF RouterInvariant, Router!TypeOK, Router!OpenedByFailures

\* c comes to state t and leaves the breakers alone, its own one as t says.
Reads(c, k, t) ==
    /\ call[c].at > 0 /\ k = Router!Kind(c) /\ InBreaker(call[c], k)
    /\ call' = [call EXCEPT ![c] = t]
    /\ UNCHANGED <<failures, circuit, opened, blamed, crossed>>
    /\ CallIsExplained(t, blamed)
    /\ t.outcome = "raised" => crossed[k]
    /\ t.step \notin {"look", "trying"} => t.at = call[c].at
    /\ BreakerFits(call[c], k, failures[k], circuit[k], opened[k]) =>
           BreakerFits(t, k, failures[k], circuit[k], opened[k])

\* Such a step keeps the invariant.
LEMMA CallerReads ==
    ASSUME RouterInvariant, NEW c \in Callers, NEW k, NEW t \in CallStates, Reads(c, k, t)
    PROVE  RouterInvariant'
<1>1. k \in Router!Kinds /\ k = Adapters[call[c].at]
  BY CallerHasAdapter DEF Reads
<1>2. \A j \in Router!Kinds : InBreaker(t, j) \/ InBreaker(call[c], j) => j = k
  BY <1>1 DEF InBreaker, Reads
<1>3. blamed' = blamed /\ failures' = failures /\ circuit' = circuit /\ opened' = opened
      /\ crossed' = crossed /\ call' = [call EXCEPT ![c] = t]
  BY DEF Reads
<1>4. /\ blamed'[k] <= MaxFailures[k] /\ blamed[k] <= blamed'[k] /\ failures'[k] <= blamed'[k]
      /\ circuit'[k] # "closed" => blamed'[k] >= Threshold
      /\ crossed[k] => crossed'[k]
  <2>1. blamed[k] \in Nat
    BY <1>1, BreakersAreTyped
  <2> QED
    BY <1>1, <1>3, <2>1, BreakersAreTyped
<1>5. /\ failures' \in [Router!Kinds -> Nat]
      /\ circuit' \in [Router!Kinds -> {"closed", "open", "half_open"}]
      /\ opened' \in [Router!Kinds -> {"none", "recent", "old"}]
      /\ blamed' \in [Router!Kinds -> Nat] /\ crossed' \in [Router!Kinds -> BOOLEAN]
  BY <1>3, BreakersAreTyped
<1>6. CallIsExplained(t, blamed') /\ (t.outcome = "raised" => crossed'[k])
  BY <1>3 DEF Reads
<1>7. /\ InBreaker(call[c], k)
      /\ BreakerFits(call[c], k, failures[k], circuit[k], opened[k]) =>
             BreakerFits(t, k, failures'[k], circuit'[k], opened'[k])
  BY <1>3 DEF Reads
<1>8. Moves(c, k, t)
  BY <1>2, <1>3, <1>4, <1>5, <1>6, <1>7 DEF Moves
<1> QED
  BY <1>1, <1>8, CallerMoves

\* A caller that begins.
LEMMA CallBegins ==
    ASSUME RouterInvariant, NEW c \in Callers, Router!Begin(c) PROVE RouterInvariant'
<1>1. PICK t : t = Router!Fresh(1, {}, "none")
  OBVIOUS
<1>2. /\ t.at = 1 /\ t.step = "look" /\ t.tried = {} /\ t.outcome = "none" /\ t \in CallStates
  BY <1>1, AdaptersAreThere DEF Router!Fresh, CallStates, Router!CallSteps
<1>3. PICK k \in Router!Kinds : TRUE
  BY AdaptersAreThere
<1>4. CallIsExplained(t, blamed)
  BY <1>2, AdaptersAreThere DEF CallIsExplained
<1>5. CallIsExplained(call[c], blamed) /\ call[c].at = 0
  BY DEF RouterInvariant, Router!Begin
<1>6. \A j \in Router!Kinds : ~InBreaker(t, j) /\ ~InBreaker(call[c], j)
  BY <1>2, <1>5 DEF InBreaker, CallIsExplained
<1>7. /\ call' = [call EXCEPT ![c] = t] /\ blamed' = blamed /\ failures' = failures
      /\ circuit' = circuit /\ opened' = opened /\ crossed' = crossed
  BY <1>1 DEF Router!Begin
<1>8. call' \in [Callers -> CallStates] /\ call'[c] = t
      /\ \A d \in Callers \ {c} : call'[d] = call[d]
  BY <1>2, <1>7 DEF RouterInvariant, Router!TypeOK, CallStates
<1>9. Router!TypeOK' /\ Router!OpenedByFailures'
  BY <1>7, <1>8, BreakersAreTyped
  DEF CallStates, RouterInvariant, Router!TypeOK, Router!OpenedByFailures
<1>10. Router!OnlyRacesRaise'
  BY <1>2, <1>7, <1>8 DEF RouterInvariant, Router!OnlyRacesRaise
<1>11. \A d \in Callers : CallIsExplained(call'[d], blamed')
  BY <1>4, <1>7, <1>8 DEF RouterInvariant
<1>12. ASSUME NEW j \in Router!Kinds PROVE MetNobody(j)'
  <2>1. /\ MetNobody(j)
        /\ \A d \in Callers : InBreaker(call'[d], j) <=> InBreaker(call[d], j)
        /\ \A d \in Callers : InBreaker(call[d], j) => call'[d] = call[d]
    BY <1>6, <1>8 DEF RouterInvariant
  <2> QED
    BY <1>7, <2>1 DEF MetNobody
<1> QED
  BY <1>9, <1>10, <1>11, <1>12 DEF RouterInvariant

\* Two callers that are within a breaker at once have met.
LEMMA EnteringMeets ==
    ASSUME RouterInvariant, NEW c \in Callers, call[c].at > 0, Router!Enters(c)
    PROVE  /\ crossed' \in [Router!Kinds -> BOOLEAN]
           /\ \A j \in Router!Kinds : j # Router!Kind(c) => crossed'[j] = crossed[j]
           /\ crossed[Router!Kind(c)] => crossed'[Router!Kind(c)]
           /\ ~crossed'[Router!Kind(c)] =>
                  \A d \in Callers \ {c} : ~InBreaker(call[d], Router!Kind(c))
<1>1. PICK k \in Router!Kinds : k = Router!Kind(c)
  BY CallerHasAdapter
<1>2. PICK b \in BOOLEAN :
        /\ b <=> (crossed[k] \/ \E d \in Callers \ {c} : Router!Within(d) /\ Router!Kind(d) = k)
        /\ crossed' = [crossed EXCEPT ![k] = b]
  <2>1. crossed' = [crossed EXCEPT ![k] = crossed[k] \/
                        \E d \in Callers \ {c} : Router!Within(d) /\ Router!Kind(d) = k]
    BY <1>1 DEF Router!Enters
  <2>2. (crossed[k] \/ \E d \in Callers \ {c} : Router!Within(d) /\ Router!Kind(d) = k) \in BOOLEAN
    BY BreakersAreTyped, Zenon
  <2> QED
    BY <2>1, <2>2, Zenon
<1>3. /\ crossed' \in [Router!Kinds -> BOOLEAN] /\ crossed'[k] = b
      /\ \A j \in Router!Kinds : j # k => crossed'[j] = crossed[j]
  BY <1>2, BreakersAreTyped
<1>4. ~b => \A d \in Callers \ {c} : ~InBreaker(call[d], k)
  BY <1>2 DEF InBreaker, Router!Within, Router!Kind
<1> QED
  BY <1>1, <1>2, <1>3, <1>4

\* A caller that only reads in the breaker keeps the invariant.
LEMMA ReadingKeeps ==
    ASSUME RouterInvariant, NEW c \in Callers, NEW retryable \in BOOLEAN,
           \/ Router!Stamped(c) \/ Router!Elapsed(c) \/ Router!Answer(c)
           \/ Router!Compare(c, retryable)
    PROVE  RouterInvariant'
<1>1. /\ call[c].at > 0 /\ call[c].step \in {"stamped", "elapsed", "answer", "compare"}
      /\ UNCHANGED <<failures, circuit, opened, blamed, crossed>>
  BY DEF Router!Stamped, Router!Elapsed, Router!Answer, Router!Compare, Router!Steps,
         Router!Stands
<1>2. PICK k \in Router!Kinds : k = Router!Kind(c) /\ k = Adapters[call[c].at]
  BY <1>1, CallerHasAdapter
<1>3. /\ InBreaker(call[c], k) /\ CallIsExplained(call[c], blamed) /\ call[c] \in CallStates
      /\ MetNobody(k)
  BY <1>1, <1>2, CallerHasAdapter DEF InBreaker, RouterInvariant
<1>4. Threshold \in Nat /\ failures[k] \in Nat /\ blamed[k] \in Nat
  BY <1>2, AdaptersAreThere, BreakersAreTyped
<1>5. CASE Router!Stamped(c)
  <2>1. PICK to \in {"answer", "elapsed"} :
          /\ to = IF opened[k] = "none" THEN "answer" ELSE "elapsed"
          /\ Router!Steps(c, "stamped", to)
    BY <1>2, <1>5 DEF Router!Stamped
  <2>2. PICK t \in CallStates :
          /\ call' = [call EXCEPT ![c] = t] /\ call[c].step = "stamped"
          /\ t.at = call[c].at /\ t.step = to /\ t.count = call[c].count
          /\ t.tried = call[c].tried /\ t.outcome = call[c].outcome
    BY <2>1, OneStep DEF Router!CallSteps
  <2>3. CallIsExplained(t, blamed) /\ t.outcome # "raised"
    BY <1>1, <1>3, <2>2 DEF CallIsExplained
  <2>4. InBreaker(t, k)
    BY <1>2, <2>2 DEF InBreaker
  <2>5. BreakerFits(call[c], k, failures[k], circuit[k], opened[k]) =>
            BreakerFits(t, k, failures[k], circuit[k], opened[k])
    BY <1>3, <2>4, <1>4, <2>1, <2>2 DEF Halfway, Settled, BreakerFits
  <2>7. Reads(c, k, t)
    BY <1>1, <1>2, <1>3, <2>2, <2>3, <2>4, <2>5 DEF Reads
  <2> QED
    BY <2>7, CallerReads
<1>6. CASE Router!Elapsed(c) /\ opened[k] # "none"
  <2>1. PICK to \in {"answer", "reopen"} : Router!Steps(c, "elapsed", to)
    BY <1>2, <1>6 DEF Router!Elapsed
  <2>2. PICK t \in CallStates :
          /\ call' = [call EXCEPT ![c] = t] /\ call[c].step = "elapsed"
          /\ t.at = call[c].at /\ t.step = to /\ t.count = call[c].count
          /\ t.tried = call[c].tried /\ t.outcome = call[c].outcome
    BY <2>1, OneStep DEF Router!CallSteps
  <2>3. CallIsExplained(t, blamed) /\ t.outcome # "raised"
    BY <1>1, <1>3, <2>2 DEF CallIsExplained
  <2>4. InBreaker(t, k)
    BY <1>2, <2>2 DEF InBreaker
  <2>5. BreakerFits(call[c], k, failures[k], circuit[k], opened[k]) =>
            BreakerFits(t, k, failures[k], circuit[k], opened[k])
    BY <1>3, <2>4, <1>4, <2>1, <2>2 DEF Halfway, Settled, BreakerFits
  <2>7. Reads(c, k, t)
    BY <1>1, <1>2, <1>3, <2>2, <2>3, <2>4, <2>5 DEF Reads
  <2> QED
    BY <2>7, CallerReads
<1>7. CASE Router!Elapsed(c) /\ opened[k] = "none"
  <2>1. PICK t : t = Router!Fresh(0, {}, "raised")
    OBVIOUS
  <2>2. /\ t \in CallStates /\ t.at = 0 /\ t.step = "look" /\ t.tried = {} /\ t.outcome = "raised"
        /\ call' = [call EXCEPT ![c] = t] /\ call[c].step = "elapsed"
    BY <1>2, <1>7, <2>1, AdaptersAreThere
    DEF Router!Elapsed, Router!Stands, Router!Fresh, CallStates, Router!CallSteps
  <2>3. CallIsExplained(t, blamed)
    BY <2>2, AdaptersAreThere DEF CallIsExplained
  <2>4. ~Halfway(call[c], failures[k], circuit[k], opened[k])
    BY <1>7, <2>2 DEF Halfway
  <2>5. crossed[k]
    BY <1>3, <2>4 DEF MetNobody
  <2>6. BreakerFits(call[c], k, failures[k], circuit[k], opened[k]) =>
            BreakerFits(t, k, failures[k], circuit[k], opened[k])
    BY <1>3, <2>4 DEF BreakerFits
  <2>7. Reads(c, k, t)
    BY <1>1, <1>2, <1>3, <2>2, <2>3, <2>5, <2>6 DEF Reads
  <2>8. t \in CallStates
    BY <2>2
  <2> QED
    BY <2>7, <2>8, CallerReads
<1>8. CASE Router!Answer(c) /\ circuit[k] # "open"
  <2>1. Router!Steps(c, "answer", "trying")
    BY <1>2, <1>8 DEF Router!Answer
  <2>2. PICK t \in CallStates :
          /\ call' = [call EXCEPT ![c] = t] /\ call[c].step = "answer"
          /\ t.at = call[c].at /\ t.step = "trying" /\ t.count = call[c].count
          /\ t.tried = call[c].tried /\ t.outcome = call[c].outcome
    BY <2>1, OneStep DEF Router!CallSteps
  <2>3. CallIsExplained(t, blamed) /\ t.outcome # "raised"
    BY <1>1, <1>3, <2>2 DEF CallIsExplained
  <2>4. ~InBreaker(t, k)
    BY <2>2 DEF InBreaker
  <2>5. BreakerFits(call[c], k, failures[k], circuit[k], opened[k]) =>
            BreakerFits(t, k, failures[k], circuit[k], opened[k])
    BY <1>3, <2>4, <2>2 DEF Halfway, BreakerFits
  <2>7. Reads(c, k, t)
    BY <1>1, <1>2, <1>3, <2>2, <2>3, <2>4, <2>5 DEF Reads
  <2> QED
    BY <2>7, CallerReads
<1>9. CASE Router!Answer(c) /\ circuit[k] = "open"
  <2>1. call' = [call EXCEPT ![c] = Router!Onward(c)] /\ call[c].step = "answer"
    BY <1>2, <1>9 DEF Router!Answer, Router!Stands
  <2>2. blamed[k] >= Threshold
    BY <1>9, BreakersAreTyped
  <2>3. PICK t \in CallStates :
          /\ t = Router!Onward(c) /\ CallIsExplained(t, blamed)
          /\ t.step = "look" /\ t.outcome # "raised"
    BY <1>1, <1>2, <2>2, OnwardIsExplained
  <2>4. ~InBreaker(t, k)
    BY <2>3 DEF InBreaker
  <2>5. BreakerFits(call[c], k, failures[k], circuit[k], opened[k]) =>
            BreakerFits(t, k, failures[k], circuit[k], opened[k])
    BY <1>3, <2>4, <2>1 DEF Halfway, BreakerFits
  <2>7. Reads(c, k, t)
    BY <1>1, <1>2, <1>3, <2>1, <2>3, <2>4, <2>5 DEF Reads
  <2> QED
    BY <2>7, CallerReads
<1>10. CASE Router!Compare(c, retryable) /\ failures[k] >= Threshold
  <2>1. Router!Steps(c, "compare", "open")
    BY <1>2, <1>4, <1>10 DEF Router!Compare
  <2>2. PICK t \in CallStates :
          /\ call' = [call EXCEPT ![c] = t] /\ call[c].step = "compare"
          /\ t.at = call[c].at /\ t.step = "open" /\ t.count = call[c].count
          /\ t.tried = call[c].tried /\ t.outcome = call[c].outcome
    BY <2>1, OneStep DEF Router!CallSteps
  <2>3. CallIsExplained(t, blamed) /\ t.outcome # "raised"
    <3>1. blamed[k] >= Threshold
      <4>1. failures[k] <= blamed[k]
        BY BreakersAreTyped
      <4> QED
        BY <1>4, <1>10, <4>1
    <3> QED
      BY <1>1, <1>2, <1>3, <2>2, <3>1 DEF CallIsExplained
  <2>4. InBreaker(t, k)
    BY <1>2, <2>2 DEF InBreaker
  <2>5. BreakerFits(t, k, failures[k], circuit[k], opened[k])
    BY <1>10, <2>2, <2>4 DEF Halfway, BreakerFits
  <2>7. Reads(c, k, t)
    BY <1>1, <1>2, <1>3, <2>2, <2>3, <2>4, <2>5 DEF Reads
  <2> QED
    BY <2>7, CallerReads
<1>11. CASE Router!Compare(c, retryable) /\ failures[k] < Threshold
  <2>1. call' = [call EXCEPT ![c] = Router!AfterFailure(c, retryable)] /\ call[c].step = "compare"
    BY <1>2, <1>4, <1>11 DEF Router!Compare, Router!Stands
  <2>2. PICK t \in CallStates :
          /\ t = Router!AfterFailure(c, retryable) /\ CallIsExplained(t, blamed)
          /\ t.step \in {"look", "trying"} /\ t.outcome # "raised"
    BY <1>1, <2>1, AfterFailureIsExplained
  <2>3. ~InBreaker(t, k)
    BY <2>2 DEF InBreaker
  <2>4. BreakerFits(call[c], k, failures[k], circuit[k], opened[k]) =>
            BreakerFits(t, k, failures[k], circuit[k], opened[k])
    BY <1>3, <2>3, <1>11, <2>1 DEF Halfway, Settled, BreakerFits
  <2>7. Reads(c, k, t)
    BY <1>1, <1>2, <1>3, <2>1, <2>2, <2>3, <2>4 DEF Reads
  <2> QED
    BY <2>7, CallerReads
<1> QED
  BY <1>4, <1>5, <1>6, <1>7, <1>8, <1>9, <1>10, <1>11

\* c comes to state t and leaves count f, state w, time o and blame b in its
\* breaker, which it enters or is in.
Writes(c, k, t, f, w, o, b) ==
    /\ call[c].at > 0 /\ k = Router!Kind(c)
    /\ call' = [call EXCEPT ![c] = t] /\ CallIsExplained(t, blamed')
    /\ failures' = [failures EXCEPT ![k] = f] /\ circuit' = [circuit EXCEPT ![k] = w]
    /\ opened' = [opened EXCEPT ![k] = o] /\ blamed' = [blamed EXCEPT ![k] = b]
    /\ \/ Router!Enters(c) /\ ~InBreaker(call[c], k)
       \/ crossed' = crossed /\ InBreaker(call[c], k)
    /\ f <= b /\ blamed[k] <= b /\ b <= MaxFailures[k] /\ (w # "closed" => b >= Threshold)
    /\ t.outcome # "raised"
    /\ t.step \notin {"look", "trying"} => t.at = call[c].at
    /\ BreakerFits(call[c], k, failures[k], circuit[k], opened[k]) => BreakerFits(t, k, f, w, o)

\* Such a step keeps the invariant.
LEMMA CallerWrites ==
    ASSUME RouterInvariant, NEW c \in Callers, NEW k, NEW t \in CallStates,
           NEW f \in Nat, NEW w \in {"closed", "open", "half_open"},
           NEW o \in {"none", "recent", "old"}, NEW b \in Nat, Writes(c, k, t, f, w, o, b)
    PROVE  RouterInvariant'
<1>1. k \in Router!Kinds /\ k = Adapters[call[c].at]
  BY CallerHasAdapter DEF Writes
<1>2. \A j \in Router!Kinds : InBreaker(t, j) \/ InBreaker(call[c], j) => j = k
  BY <1>1 DEF InBreaker, Writes
<1>3. /\ failures' \in [Router!Kinds -> Nat] /\ failures'[k] = f
      /\ circuit' \in [Router!Kinds -> {"closed", "open", "half_open"}] /\ circuit'[k] = w
      /\ opened' \in [Router!Kinds -> {"none", "recent", "old"}] /\ opened'[k] = o
      /\ blamed' \in [Router!Kinds -> Nat] /\ blamed'[k] = b
      /\ \A j \in Router!Kinds \ {k} :
            /\ failures'[j] = failures[j] /\ circuit'[j] = circuit[j]
            /\ opened'[j] = opened[j] /\ blamed'[j] = blamed[j]
  BY <1>1, BreakersAreTyped DEF Writes
<1>4. /\ crossed' \in [Router!Kinds -> BOOLEAN] /\ (crossed[k] => crossed'[k])
      /\ \A j \in Router!Kinds \ {k} : crossed'[j] = crossed[j]
      /\ ~crossed'[k] =>
             \/ InBreaker(call[c], k)
             \/ \A d \in Callers \ {c} : ~InBreaker(call[d], k)
  BY <1>1, EnteringMeets, BreakersAreTyped DEF Writes
<1>5. /\ blamed[k] <= blamed'[k] /\ blamed'[k] <= MaxFailures[k] /\ failures'[k] <= blamed'[k]
      /\ circuit'[k] # "closed" => blamed'[k] >= Threshold
      /\ BreakerFits(call[c], k, failures[k], circuit[k], opened[k]) =>
             BreakerFits(t, k, failures'[k], circuit'[k], opened'[k])
  BY <1>3 DEF Writes
<1>6. CallIsExplained(t, blamed') /\ (t.outcome = "raised" => crossed'[k])
      /\ call' = [call EXCEPT ![c] = t]
  BY DEF Writes
<1>7. Moves(c, k, t)
  BY <1>2, <1>3, <1>4, <1>5, <1>6 DEF Moves
<1> QED
  BY <1>1, <1>7, CallerMoves

\* A caller that writes to the breaker, or enters it, keeps the invariant.
LEMMA WritingKeeps ==
    ASSUME RouterInvariant, NEW c \in Callers, NEW retryable \in BOOLEAN,
           \/ Router!Look(c) \/ Router!Reopen(c) \/ Router!Reset(c) \/ Router!Close(c)
           \/ Router!Forget(c) \/ Router!Load(c) \/ Router!Store(c) \/ Router!Open(c)
           \/ Router!Stamp(c, retryable)
    PROVE  RouterInvariant'
<1>1. call[c].at > 0
  BY DEF Router!Look, Router!Reopen, Router!Reset, Router!Close, Router!Forget, Router!Load,
         Router!Store, Router!Open, Router!Stamp, Router!Steps, Router!Stands
<1>2. PICK k \in Router!Kinds : k = Router!Kind(c) /\ k = Adapters[call[c].at]
  BY <1>1, CallerHasAdapter
<1>3. /\ CallIsExplained(call[c], blamed) /\ call[c] \in CallStates
      /\ call \in [Callers -> CallStates]
  BY <1>1, CallerHasAdapter DEF RouterInvariant
<1>4. /\ Threshold \in Nat \ {0} /\ failures[k] \in Nat /\ blamed[k] \in Nat
      /\ MaxFailures[k] \in Nat /\ failures[k] <= blamed[k] /\ blamed[k] <= MaxFailures[k]
      /\ circuit[k] # "closed" => blamed[k] >= Threshold
      /\ circuit[k] \in {"closed", "open", "half_open"}
      /\ opened[k] \in {"none", "recent", "old"}
  BY <1>2, AdaptersAreThere, BreakersAreTyped
<1>5. /\ failures = [failures EXCEPT ![k] = failures[k]]
      /\ circuit = [circuit EXCEPT ![k] = circuit[k]]
      /\ opened = [opened EXCEPT ![k] = opened[k]]
      /\ blamed = [blamed EXCEPT ![k] = blamed[k]]
  BY BreakersAreTyped
<1>15. /\ failures[k] \in Nat /\ blamed[k] \in Nat /\ 0 \in Nat
       /\ circuit[k] \in {"closed", "open", "half_open"}
       /\ opened[k] \in {"none", "recent", "old"}
  BY <1>4
<1>6. CASE Router!Look(c)
  <2>1. PICK to \in {"stamped", "answer"} :
          /\ to = IF circuit[k] = "open" THEN "stamped" ELSE "answer"
          /\ Router!Steps(c, "look", to)
    BY <1>2, <1>6 DEF Router!Look
  <2>2. PICK t \in CallStates :
          /\ call' = [call EXCEPT ![c] = t] /\ call[c].step = "look"
          /\ t.at = call[c].at /\ t.step = to /\ t.count = call[c].count
          /\ t.tried = call[c].tried /\ t.outcome = call[c].outcome
    BY <2>1, OneStep DEF Router!CallSteps
  <2>3. /\ failures' = [failures EXCEPT ![k] = failures[k]]
        /\ circuit' = [circuit EXCEPT ![k] = circuit[k]]
        /\ opened' = [opened EXCEPT ![k] = opened[k]] /\ blamed' = [blamed EXCEPT ![k] = blamed[k]]
        /\ Router!Enters(c) /\ ~InBreaker(call[c], k)
        /\ blamed' = blamed
    BY <1>2, <1>5, <1>6, <2>2 DEF Router!Look, InBreaker
  <2>4. CallIsExplained(t, blamed') /\ t.outcome # "raised"
    BY <1>1, <1>2, <1>3, <1>4, <2>1, <2>2, <2>3 DEF CallIsExplained
  <2>5. InBreaker(t, k)
    BY <1>2, <2>2 DEF InBreaker
  <2>6. BreakerFits(call[c], k, failures[k], circuit[k], opened[k]) =>
            BreakerFits(t, k, failures[k], circuit[k], opened[k])
    BY <1>4, <2>1, <2>2, <2>3, <2>5 DEF Halfway, Settled, BreakerFits
  <2>12. Writes(c, k, t, failures[k], circuit[k], opened[k], blamed[k])
    BY <1>1, <1>2, <1>4, <2>2, <2>3, <2>4, <2>5, <2>6 DEF Writes
  <2> QED
    BY <1>15, <2>12, CallerWrites
<1>7. CASE Router!Reopen(c)
  <2>1. Router!Steps(c, "reopen", "answer")
    BY <1>2, <1>7 DEF Router!Reopen
  <2>2. PICK t \in CallStates :
          /\ call' = [call EXCEPT ![c] = t] /\ call[c].step = "reopen"
          /\ t.at = call[c].at /\ t.step = "answer" /\ t.count = call[c].count
          /\ t.tried = call[c].tried /\ t.outcome = call[c].outcome
    BY <2>1, OneStep DEF Router!CallSteps
  <2>3. /\ failures' = [failures EXCEPT ![k] = failures[k]]
        /\ circuit' = [circuit EXCEPT ![k] = "half_open"]
        /\ opened' = [opened EXCEPT ![k] = opened[k]] /\ blamed' = [blamed EXCEPT ![k] = blamed[k]]
        /\ crossed' = crossed /\ InBreaker(call[c], k)
        /\ blamed' = blamed
    BY <1>2, <1>5, <1>7, <2>2 DEF Router!Reopen, InBreaker
  <2>4. CallIsExplained(t, blamed') /\ t.outcome # "raised"
    BY <1>1, <1>2, <1>3, <1>4, <2>1, <2>2, <2>3 DEF CallIsExplained
  <2>5. InBreaker(t, k)
    BY <1>2, <2>2 DEF InBreaker
  <2>6. BreakerFits(call[c], k, failures[k], circuit[k], opened[k]) =>
            BreakerFits(t, k, failures[k], "half_open", opened[k])
    BY <1>4, <2>1, <2>2, <2>3, <2>5 DEF Halfway, Settled, BreakerFits
  <2>7. blamed[k] >= Threshold
    BY <1>2, <1>3, <2>2 DEF CallIsExplained
  <2>12. Writes(c, k, t, failures[k], "half_open", opened[k], blamed[k])
    BY <1>1, <1>2, <1>4, <2>2, <2>3, <2>4, <2>5, <2>6, <2>7 DEF Writes
  <2> QED
    BY <1>15, <2>12, CallerWrites
<1>8. CASE Router!Reset(c)
  <2>1. Router!Steps(c, "trying", "close")
    BY <1>2, <1>8 DEF Router!Reset
  <2>2. PICK t \in CallStates :
          /\ call' = [call EXCEPT ![c] = t] /\ call[c].step = "trying"
          /\ t.at = call[c].at /\ t.step = "close" /\ t.count = call[c].count
          /\ t.tried = call[c].tried /\ t.outcome = call[c].outcome
    BY <2>1, OneStep DEF Router!CallSteps
  <2>3. /\ failures' = [failures EXCEPT ![k] = 0]
        /\ circuit' = [circuit EXCEPT ![k] = circuit[k]]
        /\ opened' = [opened EXCEPT ![k] = opened[k]] /\ blamed' = [blamed EXCEPT ![k] = blamed[k]]
        /\ Router!Enters(c) /\ ~InBreaker(call[c], k)
        /\ blamed' = blamed
    BY <1>2, <1>5, <1>8, <2>2 DEF Router!Reset, InBreaker
  <2>4. CallIsExplained(t, blamed') /\ t.outcome # "raised"
    BY <1>1, <1>2, <1>3, <1>4, <2>1, <2>2, <2>3 DEF CallIsExplained
  <2>5. InBreaker(t, k)
    BY <1>2, <2>2 DEF InBreaker
  <2>6. BreakerFits(call[c], k, failures[k], circuit[k], opened[k]) =>
            BreakerFits(t, k, 0, circuit[k], opened[k])
    BY <1>4, <2>1, <2>2, <2>3, <2>5 DEF Halfway, Settled, BreakerFits
  <2>12. Writes(c, k, t, 0, circuit[k], opened[k], blamed[k])
    BY <1>1, <1>2, <1>4, <2>2, <2>3, <2>4, <2>5, <2>6 DEF Writes
  <2> QED
    BY <1>15, <2>12, CallerWrites
<1>9. CASE Router!Close(c)
  <2>1. Router!Steps(c, "close", "forget")
    BY <1>2, <1>9 DEF Router!Close
  <2>2. PICK t \in CallStates :
          /\ call' = [call EXCEPT ![c] = t] /\ call[c].step = "close"
          /\ t.at = call[c].at /\ t.step = "forget" /\ t.count = call[c].count
          /\ t.tried = call[c].tried /\ t.outcome = call[c].outcome
    BY <2>1, OneStep DEF Router!CallSteps
  <2>3. /\ failures' = [failures EXCEPT ![k] = failures[k]]
        /\ circuit' = [circuit EXCEPT ![k] = "closed"]
        /\ opened' = [opened EXCEPT ![k] = opened[k]] /\ blamed' = [blamed EXCEPT ![k] = blamed[k]]
        /\ crossed' = crossed /\ InBreaker(call[c], k)
        /\ blamed' = blamed
    BY <1>2, <1>5, <1>9, <2>2 DEF Router!Close, InBreaker
  <2>4. CallIsExplained(t, blamed') /\ t.outcome # "raised"
    BY <1>1, <1>2, <1>3, <1>4, <2>1, <2>2, <2>3 DEF CallIsExplained
  <2>5. InBreaker(t, k)
    BY <1>2, <2>2 DEF InBreaker
  <2>6. BreakerFits(call[c], k, failures[k], circuit[k], opened[k]) =>
            BreakerFits(t, k, failures[k], "closed", opened[k])
    BY <1>4, <2>1, <2>2, <2>3, <2>5 DEF Halfway, Settled, BreakerFits
  <2>12. Writes(c, k, t, failures[k], "closed", opened[k], blamed[k])
    BY <1>1, <1>2, <1>4, <2>2, <2>3, <2>4, <2>5, <2>6 DEF Writes
  <2> QED
    BY <1>15, <2>12, CallerWrites
<1>10. CASE Router!Open(c)
  <2>1. Router!Steps(c, "open", "stamp")
    BY <1>2, <1>10 DEF Router!Open
  <2>2. PICK t \in CallStates :
          /\ call' = [call EXCEPT ![c] = t] /\ call[c].step = "open"
          /\ t.at = call[c].at /\ t.step = "stamp" /\ t.count = call[c].count
          /\ t.tried = call[c].tried /\ t.outcome = call[c].outcome
    BY <2>1, OneStep DEF Router!CallSteps
  <2>3. /\ failures' = [failures EXCEPT ![k] = failures[k]]
        /\ circuit' = [circuit EXCEPT ![k] = "open"]
        /\ opened' = [opened EXCEPT ![k] = opened[k]] /\ blamed' = [blamed EXCEPT ![k] = blamed[k]]
        /\ crossed' = crossed /\ InBreaker(call[c], k)
        /\ blamed' = blamed
    BY <1>2, <1>5, <1>10, <2>2 DEF Router!Open, InBreaker
  <2>4. CallIsExplained(t, blamed') /\ t.outcome # "raised"
    BY <1>1, <1>2, <1>3, <1>4, <2>1, <2>2, <2>3 DEF CallIsExplained
  <2>5. InBreaker(t, k)
    BY <1>2, <2>2 DEF InBreaker
  <2>6. BreakerFits(call[c], k, failures[k], circuit[k], opened[k]) =>
            BreakerFits(t, k, failures[k], "open", opened[k])
    BY <1>4, <2>1, <2>2, <2>3, <2>5 DEF Halfway, Settled, BreakerFits
  <2>7. blamed[k] >= Threshold
    BY <1>2, <1>3, <2>2 DEF CallIsExplained
  <2>12. Writes(c, k, t, failures[k], "open", opened[k], blamed[k])
    BY <1>1, <1>2, <1>4, <2>2, <2>3, <2>4, <2>5, <2>6, <2>7 DEF Writes
  <2> QED
    BY <1>15, <2>12, CallerWrites
<1>11. CASE Router!Store(c)
  <2>1. Router!Steps(c, "store", "compare")
    BY <1>2, <1>11 DEF Router!Store
  <2>2. PICK t \in CallStates :
          /\ call' = [call EXCEPT ![c] = t] /\ call[c].step = "store"
          /\ t.at = call[c].at /\ t.step = "compare" /\ t.count = call[c].count
          /\ t.tried = call[c].tried /\ t.outcome = call[c].outcome
    BY <2>1, OneStep DEF Router!CallSteps
  <2>3. PICK f \in Nat : f = call[c].count + 1 /\ f <= blamed[k]
    BY <1>2, <1>3, <2>2 DEF CallIsExplained, CallStates
  <2>4. /\ failures' = [failures EXCEPT ![k] = f] /\ circuit' = [circuit EXCEPT ![k] = circuit[k]]
        /\ opened' = [opened EXCEPT ![k] = opened[k]] /\ blamed' = [blamed EXCEPT ![k] = blamed[k]]
        /\ crossed' = crossed /\ InBreaker(call[c], k) /\ blamed' = blamed
    BY <1>2, <1>5, <1>11, <2>2, <2>3 DEF Router!Store, InBreaker
  <2>5. CallIsExplained(t, blamed') /\ t.outcome # "raised"
    BY <1>1, <1>2, <1>3, <1>4, <2>2, <2>4 DEF CallIsExplained
  <2>6. InBreaker(t, k)
    BY <1>2, <2>2 DEF InBreaker
  <2>7. BreakerFits(call[c], k, failures[k], circuit[k], opened[k]) =>
            BreakerFits(t, k, f, circuit[k], opened[k])
    BY <1>4, <2>2, <2>3, <2>4, <2>6 DEF Halfway, Settled, BreakerFits
  <2>12. Writes(c, k, t, f, circuit[k], opened[k], blamed[k])
    BY <1>1, <1>2, <1>4, <2>2, <2>3, <2>4, <2>5, <2>6, <2>7 DEF Writes
  <2> QED
    BY <1>15, <2>3, <2>12, CallerWrites
<1>12. CASE Router!Load(c)
  <2>1. /\ call[c].step = "trying" /\ blamed[k] < MaxFailures[k]
        /\ call' = [call EXCEPT ![c] = [call[c] EXCEPT !.step = "store",
                        !.count = failures[k], !.tried = call[c].tried \cup {k}]]
        /\ blamed' = [blamed EXCEPT ![k] = blamed[k] + 1] /\ Router!Enters(c)
        /\ failures' = failures /\ circuit' = circuit /\ opened' = opened
    BY <1>2, <1>12 DEF Router!Load, Router!Stands
  <2>2. PICK s \in CallStates : s = call[c]
    BY <1>3
  <2>3. PICK t : t = [s EXCEPT !.step = "store", !.count = failures[k],
                               !.tried = s.tried \cup {k}]
    OBVIOUS
  <2>4. /\ t \in CallStates /\ t.at = s.at /\ t.step = "store" /\ t.count = failures[k]
        /\ t.tried = s.tried \cup {k} /\ t.outcome = s.outcome
    BY <1>4, <2>2, <2>3 DEF CallStates, Router!CallSteps
  <2>5. call' = [call EXCEPT ![c] = t]
    BY <2>1, <2>2, <2>3
  <2>6. /\ failures' = [failures EXCEPT ![k] = failures[k]]
        /\ circuit' = [circuit EXCEPT ![k] = circuit[k]]
        /\ opened' = [opened EXCEPT ![k] = opened[k]]
        /\ ~InBreaker(call[c], k) /\ blamed[k] + 1 \in Nat
        /\ failures[k] <= blamed[k] + 1 /\ blamed[k] <= blamed[k] + 1
        /\ blamed[k] + 1 <= MaxFailures[k]
        /\ circuit[k] # "closed" => blamed[k] + 1 >= Threshold
    BY <1>4, <1>5, <2>1 DEF InBreaker
  <2>7. /\ blamed'[k] = blamed[k] + 1
        /\ \A j \in Router!Kinds : blamed'[j] \in Nat /\ blamed[j] \in Nat /\ blamed[j] <= blamed'[j]
    BY <1>4, <2>1, BreakersAreTyped
  <2>8. CallIsExplained(t, blamed') /\ t.outcome # "raised"
    <3>1. s.at \in 1..Len(Adapters) /\ s.outcome = "none" /\ Adapters[s.at] = k
          /\ \A n \in 1..Len(Adapters) : n < s.at =>
                Adapters[n] \in s.tried \/ blamed[Adapters[n]] >= Threshold
      BY <1>1, <1>2, <1>3, <2>2, AdaptersAreThere DEF CallIsExplained, CallStates
    <3>2. \A n \in 1..Len(Adapters) : n < t.at =>
                Adapters[n] \in t.tried \/ blamed'[Adapters[n]] >= Threshold
      <4>1. ASSUME NEW n \in 1..Len(Adapters), n < t.at
            PROVE  Adapters[n] \in t.tried \/ blamed'[Adapters[n]] >= Threshold
        <5>1. PICK j \in Router!Kinds : j = Adapters[n]
          BY AdaptersAreThere
        <5>2. j \in s.tried \/ blamed[j] >= Threshold
          BY <2>4, <3>1, <4>1, <5>1
        <5> QED
          BY <1>4, <2>4, <2>7, <5>1, <5>2
      <4> QED
        BY <4>1
    <3>3. t.count + 1 <= blamed'[k]
      BY <1>4, <2>4, <2>7
    <3> QED
      BY <2>4, <3>1, <3>2, <3>3 DEF CallIsExplained
  <2>9. InBreaker(t, k)
    BY <1>2, <2>2, <2>4 DEF InBreaker
  <2>10. BreakerFits(call[c], k, failures[k], circuit[k], opened[k]) =>
            BreakerFits(t, k, failures[k], circuit[k], opened[k])
    BY <2>4, <2>6, <2>9 DEF Halfway, BreakerFits
  <2>11. t.at = call[c].at
    BY <2>2, <2>4
  <2>12. Writes(c, k, t, failures[k], circuit[k], opened[k], blamed[k] + 1)
    BY <1>1, <1>2, <1>4, <2>1, <2>4, <2>5, <2>6, <2>8, <2>9, <2>10, <2>11 DEF Writes
  <2>13. t \in CallStates /\ blamed[k] + 1 \in Nat
    BY <2>4, <2>6
  <2> QED
    BY <1>15, <2>12, <2>13, CallerWrites
<1>13. CASE Router!Forget(c)
  <2>1. PICK t : t = Router!Fresh(0, {}, "answered")
    OBVIOUS
  <2>2. /\ t \in CallStates /\ t.at = 0 /\ t.step = "look" /\ t.tried = {}
        /\ t.outcome = "answered"
        /\ call' = [call EXCEPT ![c] = t] /\ call[c].step = "forget"
    BY <1>2, <1>13, <2>1, AdaptersAreThere
    DEF Router!Forget, Router!Stands, Router!Fresh, CallStates, Router!CallSteps
  <2>3. /\ failures' = [failures EXCEPT ![k] = failures[k]]
        /\ circuit' = [circuit EXCEPT ![k] = circuit[k]]
        /\ opened' = [opened EXCEPT ![k] = "none"] /\ blamed' = [blamed EXCEPT ![k] = blamed[k]]
        /\ crossed' = crossed /\ InBreaker(call[c], k) /\ ~InBreaker(t, k)
    BY <1>2, <1>5, <1>13, <2>2 DEF Router!Forget, InBreaker
  <2>4. CallIsExplained(t, blamed')
    BY <2>2, AdaptersAreThere DEF CallIsExplained
  <2>5. BreakerFits(call[c], k, failures[k], circuit[k], opened[k]) =>
            BreakerFits(t, k, failures[k], circuit[k], "none")
    BY <1>4, <2>2, <2>3 DEF Halfway, Settled, BreakerFits
  <2>12. Writes(c, k, t, failures[k], circuit[k], "none", blamed[k])
    BY <1>1, <1>2, <1>4, <2>2, <2>3, <2>4, <2>5 DEF Writes
  <2> QED
    BY <1>15, <2>2, <2>12, CallerWrites
<1>14. CASE Router!Stamp(c, retryable)
  <2>1. /\ call' = [call EXCEPT ![c] = Router!AfterFailure(c, retryable)]
        /\ call[c].step = "stamp" /\ blamed' = blamed
    BY <1>14 DEF Router!Stamp, Router!Stands
  <2>2. PICK t \in CallStates :
          /\ t = Router!AfterFailure(c, retryable) /\ CallIsExplained(t, blamed)
          /\ t.step \in {"look", "trying"} /\ t.outcome # "raised"
    BY <1>1, <2>1, AfterFailureIsExplained
  <2>3. /\ failures' = [failures EXCEPT ![k] = failures[k]]
        /\ circuit' = [circuit EXCEPT ![k] = circuit[k]]
        /\ opened' = [opened EXCEPT ![k] = "recent"] /\ blamed' = [blamed EXCEPT ![k] = blamed[k]]
        /\ crossed' = crossed /\ InBreaker(call[c], k) /\ ~InBreaker(t, k)
    BY <1>2, <1>5, <1>14, <2>1, <2>2 DEF Router!Stamp, InBreaker
  <2>4. BreakerFits(call[c], k, failures[k], circuit[k], opened[k]) =>
            BreakerFits(t, k, failures[k], circuit[k], "recent")
    BY <1>4, <2>1, <2>3 DEF Halfway, Settled, BreakerFits
  <2>5. /\ CallIsExplained(t, blamed') /\ call' = [call EXCEPT ![c] = t]
        /\ t.outcome # "raised" /\ t.step \in {"look", "trying"}
    BY <2>1, <2>2
  <2>12. Writes(c, k, t, failures[k], circuit[k], "recent", blamed[k])
    BY <1>1, <1>2, <1>4, <2>3, <2>4, <2>5 DEF Writes
  <2> QED
    BY <1>15, <2>2, <2>12, CallerWrites
<1> QED
  BY <1>6, <1>7, <1>8, <1>9, <1>10, <1>11, <1>12, <1>13, <1>14

\* Every step of the router keeps its invariant.
LEMMA RouterStep == RouterInvariant /\ [Router!Next]_routerVars => RouterInvariant'
<1> SUFFICES ASSUME RouterInvariant, [Router!Next]_routerVars PROVE RouterInvariant'
  OBVIOUS
<1>1. ASSUME NEW k \in Router!Kinds, Router!Cool(k) PROVE RouterInvariant'
  <2>1. /\ opened[k] = "recent" /\ opened' = [opened EXCEPT ![k] = "old"]
        /\ failures' = failures /\ circuit' = circuit /\ call' = call
        /\ blamed' = blamed /\ crossed' = crossed
    BY <1>1 DEF Router!Cool
  <2>2. /\ opened' \in [Router!Kinds -> {"none", "recent", "old"}]
        /\ \A j \in Router!Kinds : opened'[j] = "none" <=> opened[j] = "none"
    BY <2>1, BreakersAreTyped
  <2>3. /\ Router!TypeOK' /\ Router!OpenedByFailures' /\ Router!OnlyRacesRaise'
        /\ \A c \in Callers : CallIsExplained(call'[c], blamed')
    BY <2>1, <2>2
    DEF RouterInvariant, Router!TypeOK, Router!OpenedByFailures, Router!OnlyRacesRaise
  <2>4. ASSUME NEW j \in Router!Kinds PROVE MetNobody(j)'
    <3>1. /\ Settled(failures[j], circuit[j], opened[j]) =>
                 Settled(failures[j], circuit[j], opened'[j])
          /\ \A c \in Callers : Halfway(call[c], failures[j], circuit[j], opened[j]) =>
                 Halfway(call[c], failures[j], circuit[j], opened'[j])
      BY <2>2 DEF Settled, Halfway
    <3>2. MetNobody(j)
      BY DEF RouterInvariant
    <3> QED
      BY <2>1, <3>1, <3>2 DEF MetNobody
  <2> QED
    BY <2>3, <2>4 DEF RouterInvariant
<1>2. CASE UNCHANGED routerVars
  BY <1>2 DEF routerVars, RouterInvariant, Router!TypeOK, Router!OpenedByFailures,
              Router!OnlyRacesRaise, MetNobody
<1>3. ASSUME NEW c \in Callers, NEW retryable \in BOOLEAN,
             \/ Router!Compare(c, retryable) \/ Router!Stamp(c, retryable)
      PROVE  RouterInvariant'
  BY <1>3, ReadingKeeps, WritingKeeps
<1>4. ASSUME NEW c \in Callers,
             \/ Router!Begin(c) \/ Router!Look(c) \/ Router!Stamped(c) \/ Router!Elapsed(c)
             \/ Router!Reopen(c) \/ Router!Answer(c) \/ Router!Reset(c) \/ Router!Close(c)
             \/ Router!Forget(c) \/ Router!Load(c) \/ Router!Store(c) \/ Router!Open(c)
      PROVE  RouterInvariant'
  <2>1. PICK retryable \in BOOLEAN : TRUE
    OBVIOUS
  <2> QED
    BY <1>4, <2>1, CallBegins, ReadingKeeps, WritingKeeps
<1> QED
  BY <1>1, <1>2, <1>3, <1>4, Zenon DEF Router!Next

\* router.py: whatever statements of however many callers interleave in the
\* breakers, a circuit opens for as many failures as its threshold only, stays
\* in order as long as callers do not meet in it, and a request is given up
\* only when every kind failed it or had failed often.
THEOREM TroubleStaysWithItsKind == StudioSpec => []RouterFailsOver
<1>1. StudioInit => RouterInvariant
  BY RouterRun, RouterInit
<1>2. RouterInvariant /\ [StudioNext]_studioVars => RouterInvariant'
  BY RouterRun, RouterStep
<1>3. RouterInvariant => RouterFailsOver
  <2> SUFFICES ASSUME RouterInvariant PROVE Router!RouterFailsOver
    BY DEF RouterFailsOver
  <2>1. Router!HealthyKindAnswers
    BY DEF RouterInvariant, CallIsExplained, Router!HealthyKindAnswers
  <2>2. Router!CircuitMatchesCount
    <3>1. ASSUME NEW k \in Router!Kinds, ~crossed[k],
                 \A c \in Callers : Router!Within(c) => Router!Kind(c) # k
          PROVE  Settled(failures[k], circuit[k], opened[k])
      <4>1. \A c \in Callers : ~InBreaker(call[c], k)
        BY <3>1 DEF InBreaker, Router!Within, Router!Kind
      <4> QED
        BY <3>1, <4>1 DEF RouterInvariant, MetNobody
    <3> QED
      BY <3>1 DEF Settled, Router!CircuitMatchesCount
  <2> QED
    BY <2>1, <2>2 DEF RouterInvariant, Router!RouterFailsOver
<1> QED
  BY <1>1, <1>2, <1>3, PTL DEF StudioSpec

-----------------------------------------------------------------------------
(* The timing fitter.                                                      *)

\* What FitIsHonest says of a fit.
IsHonest(f) ==
    /\ f.flagged => ~f.within
    /\ ~f.flagged =>
         Fitter!Distance(f.fitted, f.slot) <= IF f.tolerance = 0 THEN 1 ELSE f.tolerance
    /\ f.trimmed > 0 => f.take - f.trimmed >= f.slot /\ f.trimmed <= TrimMax

\* What a fit says is a length.
HasLengths(f) == f.fitted \in Nat /\ f.trimmed \in Nat

\* A trim leaves the slot filled and takes no more than it may.
TrimFits(take, slot, trimmed) ==
    /\ trimmed \in Nat
    /\ trimmed > 0 => take - trimmed >= slot /\ trimmed <= TrimMax

\* How far off a fit may be that nobody is asked about.
NearSlot(fitted, slot, tolerance) ==
    Fitter!Distance(fitted, slot) <= IF tolerance = 0 THEN 1 ELSE tolerance

\* Multiplying and dividing by the same number leads back.
LEMMA ProductDivided == ASSUME NEW p \in Nat, p > 0, NEW s \in Nat PROVE (p * s) \div p = s
<1>1. PICK q \in Int : q = (p * s) \div p
  OBVIOUS
<1>2. PICK r \in Int : r = (p * s) % p
  OBVIOUS
<1>3. p * s = p * q + r /\ 0 <= r /\ r < p
  BY <1>1, <1>2
<1>4. PICK d \in Int : d = s - q
  BY <1>1
<1>5. p * d = r
  BY <1>3, <1>4
<1>6. d >= 1 => p * d >= p
  BY <1>4
<1>7. d <= -1 => p * d <= -p
  BY <1>4
<1> QED
  BY <1>1, <1>3, <1>4, <1>5, <1>6, <1>7

\* int() of a quotient is the whole part, or one less, and never negative.
LEMMA TruncatedIsLength ==
    ASSUME NEW n \in Nat, NEW d \in Nat \ {0}, NEW t \in Fitter!Truncated(n, d)
    PROVE  t \in Nat /\ t \in {n \div d, n \div d - 1}
<1>1. PICK q \in Nat : q = n \div d
  OBVIOUS
<1>2. PICK r \in Nat : r = n % d
  OBVIOUS
<1>3. n = d * q + r
  BY <1>1, <1>2
<1>4. q = 0 => n = r
  BY <1>3
<1>5. n > 0 /\ r = 0 => q - 1 \in Nat
  BY <1>1, <1>4
<1>6. t = q \/ (t = q - 1 /\ n > 0 /\ r = 0)
  BY <1>1, <1>2 DEF Fitter!Truncated
<1> QED
  BY <1>1, <1>5, <1>6

\* _result(): a fit that is accepted is honest if it is near its slot.
LEMMA AcceptedIsHonest ==
    ASSUME NEW strategy, NEW take \in Nat, NEW slot \in Nat, NEW trimmed, NEW pace, NEW stretch,
           NEW fitted \in Nat, NEW tolerance \in Nat, TrimFits(take, slot, trimmed),
           NearSlot(fitted, slot, tolerance),
           NEW f, f = Fitter!Accepted(strategy, take, slot, trimmed, pace, stretch, fitted, tolerance)
    PROVE  IsHonest(f) /\ HasLengths(f)
<1> DEFINE near == Fitter!Distance(fitted, slot) <= tolerance
           far == /\ Fitter!Distance(fitted, slot) > tolerance
                  /\ Fitter!Distance(fitted, slot) * 100 >= ReviewThreshold * Fitter!AtLeastOne(slot)
<1>1. /\ f.within = near /\ f.flagged = far /\ f.trimmed = trimmed /\ f.take = take
      /\ f.slot = slot /\ f.fitted = fitted /\ f.tolerance = tolerance
  BY DEF Fitter!Accepted
<1>2. far => ~near
  BY DEF Fitter!Distance
<1> HIDE DEF near, far
<1>3. f.flagged => ~f.within
  BY <1>1, <1>2
<1> QED
  BY <1>1, <1>3 DEF IsHonest, HasLengths, TrimFits, NearSlot

\* A fit that goes to review says so.
LEMMA ReviewedIsHonest ==
    ASSUME NEW take \in Nat, NEW slot \in Nat, NEW trimmed, NEW pace, NEW stretch,
           NEW fitted \in Nat, NEW tolerance, TrimFits(take, slot, trimmed),
           NEW f, f = Fitter!Reviewed(take, slot, trimmed, pace, stretch, fitted, tolerance)
    PROVE  IsHonest(f) /\ HasLengths(f)
<1>1. /\ f.within = FALSE /\ f.flagged = TRUE /\ f.trimmed = trimmed /\ f.take = take
      /\ f.slot = slot /\ f.fitted = fitted
  BY DEF Fitter!Reviewed
<1> QED
  BY <1>1 DEF IsHonest, HasLengths, TrimFits

\* A take that is stretched within the limits fills its slot but for the
\* millisecond that int() may cut.  A take of no length is not stretched, unless
\* the slot has one millisecond.
LEMMA StretchFits ==
    ASSUME NEW paced \in Nat, NEW slot \in Nat, NEW tolerance \in Nat,
           NEW stretch, stretch = <<slot, Fitter!AtLeastOne(paced)>>,
           Fitter!Clamped(stretch, Fitter!Shortest, Fitter!Longest) = stretch,
           NEW fitted \in Fitter!Truncated(paced * stretch[1], stretch[2])
    PROVE  fitted \in Nat /\ NearSlot(fitted, slot, tolerance)
<1>1. PICK n \in Nat, d \in Nat \ {0} : n = paced * slot /\ d = Fitter!AtLeastOne(paced)
  <2>1. Fitter!AtLeastOne(paced) \in Nat \ {0}
    BY DEF Fitter!AtLeastOne
  <2> QED
    BY <2>1
<1>2. fitted \in Fitter!Truncated(n, d)
  BY <1>1
<1>3. fitted \in Nat /\ fitted \in {n \div d, n \div d - 1}
  BY <1>2, TruncatedIsLength
<1>4. fitted \in {slot, slot - 1}
  <2>1. CASE paced > 0
    <3>1. d = paced
      BY <1>1, <2>1 DEF Fitter!AtLeastOne
    <3> QED
      BY <1>1, <1>3, <2>1, <3>1, ProductDivided
  <2>2. CASE paced = 0
    <3>1. d = 1 /\ n = 0
      BY <1>1, <2>2 DEF Fitter!AtLeastOne
    <3>2. fitted = 0
      BY <1>3, <3>1
    <3>3. StretchMax \in 0..30
      BY StudioConstants DEF Fitter!FitConstants
    <3>4. stretch = <<slot, 1>>
      BY <1>1, <3>1
    <3>5. slot <= 1
      BY <3>3, <3>4 DEF Fitter!Clamped, Fitter!Shortest, Fitter!Longest, Fitter!Below
    <3> QED
      BY <3>2, <3>5
  <2> QED
    BY <2>1, <2>2
<1> QED
  BY <1>3, <1>4 DEF NearSlot, Fitter!Distance

\* Steps 4 and 5 of fit().
LEMMA StretchIsFair ==
    ASSUME NEW take \in Nat, NEW slot \in Nat, NEW trimmed, NEW pace, NEW paced \in Nat,
           NEW tolerance \in Nat, TrimFits(take, slot, trimmed),
           Fitter!Stretch(take, slot, trimmed, pace, paced, tolerance)
    PROVE  IsHonest(fit') /\ HasLengths(fit')
<1>1. PICK stretch : stretch = <<slot, Fitter!AtLeastOne(paced)>>
  OBVIOUS
<1>2. PICK limited : limited = Fitter!Clamped(stretch, Fitter!Shortest, Fitter!Longest)
  OBVIOUS
<1>3. \/ /\ limited = stretch
         /\ \E fitted \in Fitter!Truncated(paced * stretch[1], stretch[2]) :
              fit' = Fitter!Accepted("time_stretch", take, slot, trimmed, pace, stretch, fitted,
                                     tolerance)
      \/ \E edge : \E fitted \in Fitter!Truncated(paced * limited[1], limited[2]) :
              fit' = Fitter!Reviewed(take, slot, trimmed, pace, edge, fitted, tolerance)
  BY <1>1, <1>2 DEF Fitter!Stretch
<1>4. ASSUME limited = stretch, NEW fitted \in Fitter!Truncated(paced * stretch[1], stretch[2]),
             fit' = Fitter!Accepted("time_stretch", take, slot, trimmed, pace, stretch, fitted,
                                    tolerance)
      PROVE  IsHonest(fit') /\ HasLengths(fit')
  <2>1. fitted \in Nat /\ NearSlot(fitted, slot, tolerance)
    BY <1>1, <1>2, <1>4, StretchFits
  <2> QED
    BY <1>4, <2>1, AcceptedIsHonest
<1>5. ASSUME NEW edge, NEW fitted \in Fitter!Truncated(paced * limited[1], limited[2]),
             fit' = Fitter!Reviewed(take, slot, trimmed, pace, edge, fitted, tolerance)
      PROVE  IsHonest(fit') /\ HasLengths(fit')
  <2>1. StretchMax \in 0..30 /\ Fitter!AtLeastOne(paced) \in Nat \ {0}
    BY StudioConstants DEF Fitter!FitConstants, Fitter!AtLeastOne
  <2>2. 100 - StretchMax \in Nat /\ 100 + StretchMax \in Nat
    BY <2>1
  <2>3. limited[1] \in Nat /\ limited[2] \in Nat \ {0}
    BY <1>1, <1>2, <2>1, <2>2 DEF Fitter!Clamped, Fitter!Shortest, Fitter!Longest
  <2>4. PICK n \in Nat, d \in Nat \ {0} : n = paced * limited[1] /\ d = limited[2]
    BY <2>3
  <2>5. fitted \in Fitter!Truncated(n, d)
    BY <1>5, <2>4
  <2>6. fitted \in Nat
    BY <2>5, TruncatedIsLength
  <2> QED
    BY <1>5, <2>6, ReviewedIsHonest
<1> QED
  BY <1>3, <1>4, <1>5

\* fit(), each of its five ways out.
LEMMA FitIsFair ==
    ASSUME NEW take \in Nat, NEW slot \in Nat, NEW silence \in Nat, silence <= take,
           NEW tolerance \in Nat, Fitter!FitTake(take, slot, silence, tolerance)
    PROVE  IsHonest(fit') /\ HasLengths(fit')
<1>1. PICK trimmed : trimmed = Fitter!Trimmed(take, slot, silence)
  OBVIOUS
<1>2. TrimFits(take, slot, trimmed) /\ TrimFits(take, slot, 0) /\ take - trimmed \in Nat
  BY <1>1, StudioConstants DEF TrimFits, Fitter!FitConstants, Fitter!Trimmed, Fitter!Least
<1>3. PICK length \in Nat : length = take - trimmed
  BY <1>2
<1>4. PICK pace : pace = Fitter!Rate(length, slot)
  OBVIOUS
<1>5. \/ /\ Fitter!Distance(take, slot) <= tolerance
         /\ fit' = Fitter!Accepted("exact_fit", take, slot, 0, Fitter!One, Fitter!One, take,
                                   tolerance)
      \/ /\ Fitter!Distance(length, slot) <= tolerance
         /\ fit' = Fitter!Accepted("silence_trim", take, slot, trimmed, Fitter!One, Fitter!One,
                                   length, tolerance)
      \/ \E paced \in Fitter!Paced(length, pace) :
           \/ /\ Fitter!Distance(paced, slot) <= tolerance
              /\ fit' = Fitter!Accepted("rate_control", take, slot, trimmed, pace, Fitter!One,
                                        paced, tolerance)
           \/ Fitter!Stretch(take, slot, trimmed, pace, paced, tolerance)
  BY <1>1, <1>3, <1>4 DEF Fitter!FitTake
<1>6. ASSUME NEW strategy, NEW trim, NEW by, NEW fitted \in Nat, TrimFits(take, slot, trim),
             Fitter!Distance(fitted, slot) <= tolerance,
             fit' = Fitter!Accepted(strategy, take, slot, trim, by, Fitter!One, fitted, tolerance)
      PROVE  IsHonest(fit') /\ HasLengths(fit')
  <2>1. NearSlot(fitted, slot, tolerance)
    BY <1>6 DEF NearSlot, Fitter!Distance
  <2> QED
    BY <1>6, <2>1, AcceptedIsHonest
<1>7. ASSUME NEW paced \in Fitter!Paced(length, pace) PROVE paced \in Nat
  <2>1. RateMin \in 50..100 /\ RateMax \in 100..200 /\ Fitter!AtLeastOne(length) \in Nat \ {0}
    BY StudioConstants DEF Fitter!FitConstants, Fitter!AtLeastOne
  <2>2. pace[1] \in Nat \ {0} /\ pace[2] \in Nat
    BY <1>4, <2>1 DEF Fitter!Rate, Fitter!Clamped, Fitter!Below
  <2>3. PICK n \in Nat, d \in Nat \ {0} : n = length * pace[2] /\ d = pace[1]
    BY <2>2
  <2>4. paced \in Fitter!Truncated(n, d)
    BY <1>7, <2>3 DEF Fitter!Paced
  <2> QED
    BY <2>4, TruncatedIsLength
<1>8. ASSUME NEW paced \in Nat, Fitter!Stretch(take, slot, trimmed, pace, paced, tolerance)
      PROVE  IsHonest(fit') /\ HasLengths(fit')
  BY <1>2, <1>8, StretchIsFair
<1> QED
  BY <1>2, <1>3, <1>5, <1>6, <1>7, <1>8

\* A step of the studio is one of the fitter, or leaves it alone.
LEMMA FitterRun ==
    /\ StudioInit => Fitter!Init
    /\ [StudioNext]_studioVars => [Fitter!Next]_fit
BY DEF StudioInit, StudioNext, studioVars

\* Every step of the fitter leaves an honest fit.
LEMMA FitterStep ==
    ASSUME Fitter!Next
    PROVE  IsHonest(fit') /\ HasLengths(fit')
<1>1. PICK take \in TakeLengths, slot \in SlotLengths, silence \in Silences,
           tolerance \in Tolerances :
             silence <= take /\ Fitter!FitTake(take, slot, silence, tolerance)
  BY DEF Fitter!Next
<1>2. take \in Nat /\ slot \in Nat /\ silence \in Nat /\ tolerance \in Nat
  BY <1>1, StudioConstants DEF Fitter!FitConstants
<1> QED
  BY <1>1, <1>2, FitIsFair

\* timing_fitter.py: for all lengths, settings and tolerances, a fit that is not
\* flagged is within tolerance, the threshold of _result() notwithstanding (or,
\* where nothing is tolerated, off by the one millisecond that int() cuts); a
\* flagged one is not announced as fitting; and trimming never makes a long
\* take too short.
THEOREM FitsAreHonest == StudioSpec => []FitIsHonest
<1>1. StudioInit => Fitter!FitIsHonest
  BY DEF StudioInit, Fitter!Init, Fitter!FitIsHonest, Fitter!FlaggedWhenUnfit,
         Fitter!TrimKeepsSlot
<1>2. Fitter!FitIsHonest /\ [StudioNext]_studioVars => Fitter!FitIsHonest'
  <2> SUFFICES ASSUME Fitter!FitIsHonest, [StudioNext]_studioVars PROVE Fitter!FitIsHonest'
    OBVIOUS
  <2>1. Fitter!Next \/ fit' = fit
    BY FitterRun
  <2>2. CASE Fitter!Next
    BY <2>2, FitterStep
    DEF IsHonest, Fitter!FitIsHonest, Fitter!FlaggedWhenUnfit, Fitter!TrimKeepsSlot
  <2>3. CASE fit' = fit
    BY <2>3 DEF Fitter!NoFit, Fitter!FitIsHonest, Fitter!FlaggedWhenUnfit, Fitter!TrimKeepsSlot
  <2> QED
    BY <2>1, <2>2, <2>3
<1>3. Fitter!FitIsHonest => FitIsHonest
  BY DEF FitIsHonest
<1> QED
  BY <1>1, <1>2, <1>3, PTL DEF StudioSpec

-----------------------------------------------------------------------------
(* The schema migrations and the job of the domain.                        *)

Rows == [checksum: Schema!Checksums, by: Apps]

\* The first rows of history h, below place n, are migrations of program a.
Agrees(h, a, n) == \A u \in 1..Len(h) : u < n => h[u].checksum = Migrations[a][u]

\* What the first n rows of history h put in effect.
Effect(h, n) == UNION {Schema!Applied(h[v].checksum, Statements) : v \in 1..n}

\* History h is of one line, and schema s and the backups are of it.
HistoryFits(h, s, saved) ==
    /\ h \in Seq(Rows)
    /\ \A v \in 1..Len(h) : Agrees(h, h[v].by, v + 1)
    /\ s = Effect(h, Len(h))
    /\ \A b \in saved : \E n \in 1..Len(h) : b = Effect(h, n)

\* Process a, which is in the given state and at migration n, has seen a
\* history that agrees with its own below n, and has all of them when ready.
ProcessFits(a, h, state, n) ==
    /\ state \in {"idle", "saved", "applying", "ready", "refused"} /\ n \in Nat \ {0}
    /\ state = "applying" =>
         n <= Len(h) + 1 /\ n <= Len(Migrations[a]) + 1 /\ Agrees(h, a, n)
    /\ state = "ready" => Len(h) >= Len(Migrations[a]) /\ Agrees(h, a, Len(Migrations[a]) + 1)

SchemaInvariant ==
    /\ HistoryFits(history, schema, backups)
    /\ DOMAIN appAt = Apps /\ DOMAIN appNext = Apps
    /\ \A a \in Apps : ProcessFits(a, history, appAt[a], appNext[a])
    /\ \A a \in Apps : writer = a => appAt[a] = "applying" /\ appNext[a] <= Len(Migrations[a])

\* A step of the studio is one of the migrations, or leaves them alone.
LEMMA SchemaRun ==
    /\ StudioInit => Schema!Init
    /\ [StudioNext]_studioVars => [Schema!Next]_schemaVars
BY DEF StudioInit, StudioNext, studioVars, schemaVars

\* The migrations of a program are a sequence, and nobody is no program.
LEMMA Programs ==
    /\ None \notin Apps
    /\ \A a \in Apps : Migrations[a] \in Seq(Schema!Checksums) /\ Len(Migrations[a]) \in Nat
BY StudioConstants, LenProperties DEF Schema!SchemaConstants

\* In the beginning there is no history and no schema.
LEMMA SchemaInit == Schema!Init => SchemaInvariant
<1> SUFFICES ASSUME Schema!Init PROVE SchemaInvariant
  OBVIOUS
<1>1. history = <<>> /\ history \in Seq(Rows) /\ Len(history) = 0
  BY EmptySeq DEF Schema!Init
<1>2. HistoryFits(history, schema, backups)
  BY <1>1 DEF Schema!Init, HistoryFits, Effect
<1> QED
  BY <1>2, Programs DEF Schema!Init, SchemaInvariant, ProcessFits

\* A row that a program adds where its own migrations go on.
LEMMA HistoryGrows ==
    ASSUME NEW h, NEW s, NEW saved, HistoryFits(h, s, saved), NEW row \in Rows, NEW c \in Apps,
           Agrees(h, c, Len(h) + 1), row.by = c, row.checksum = Migrations[c][Len(h) + 1],
           NEW g, g = Append(h, row)
    PROVE  /\ HistoryFits(g, s \cup Schema!Applied(row.checksum, Statements), saved)
           /\ Agrees(g, c, Len(h) + 2)
           /\ Len(g) = Len(h) + 1 /\ Len(h) \in Nat
           /\ \A a : \A n \in Nat : n <= Len(h) + 1 /\ Agrees(h, a, n) => Agrees(g, a, n)
<1>1. /\ g \in Seq(Rows) /\ Len(g) = Len(h) + 1 /\ Len(h) \in Nat
      /\ g[Len(h) + 1] = row
      /\ \A u \in 1..Len(h) : g[u] = h[u]
  BY AppendProperties, LenProperties DEF HistoryFits
<1>2. ASSUME NEW a, NEW n \in Nat, n <= Len(h) + 1, Agrees(h, a, n)
      PROVE  Agrees(g, a, n)
  BY <1>1, <1>2 DEF Agrees
<1>3. Agrees(g, c, Len(h) + 2)
  BY <1>1 DEF Agrees
<1>4. \A v \in 1..Len(g) : Agrees(g, g[v].by, v + 1)
  <2> TAKE v \in 1..Len(g)
  <2>1. CASE v = Len(h) + 1
    <3>1. g[v].by = c /\ v + 1 = Len(h) + 2
      BY <1>1, <2>1
    <3> QED
      BY <1>3, <3>1
  <2>2. CASE v # Len(h) + 1
    <3>1. v \in 1..Len(h) /\ v + 1 \in Nat /\ v + 1 <= Len(h) + 1 /\ g[v] = h[v]
      BY <1>1, <2>2
    <3>2. Agrees(h, h[v].by, v + 1)
      BY <3>1 DEF HistoryFits
    <3> QED
      BY <1>2, <3>1, <3>2
  <2> QED
    BY <2>1, <2>2
<1>5. ASSUME NEW n \in 0..Len(h) PROVE Effect(g, n) = Effect(h, n)
  BY <1>1 DEF Effect
<1>6. s \cup Schema!Applied(row.checksum, Statements) = Effect(g, Len(g))
  <2>1. Effect(g, Len(g)) = Effect(g, Len(h)) \cup Schema!Applied(row.checksum, Statements)
    BY <1>1 DEF Effect
  <2>2. s = Effect(h, Len(h)) /\ Effect(g, Len(h)) = Effect(h, Len(h))
    BY <1>1, <1>5 DEF HistoryFits
  <2> QED
    BY <2>1, <2>2
<1>7. ASSUME NEW b \in saved PROVE \E n \in 1..Len(g) : b = Effect(g, n)
  <2>1. PICK n \in 1..Len(h) : b = Effect(h, n)
    BY DEF HistoryFits
  <2>2. b = Effect(g, n) /\ n \in 1..Len(g)
    BY <1>1, <1>5, <2>1
  <2> QED
    BY <2>2
<1>8. HistoryFits(g, s \cup Schema!Applied(row.checksum, Statements), saved)
  BY <1>1, <1>4, <1>6, <1>7 DEF HistoryFits
<1> QED
  BY <1>1, <1>2, <1>3, <1>8

\* A commit adds the row of the migration to the rows that agree.
LEMMA CommitKeeps ==
    ASSUME SchemaInvariant, NEW c \in Apps, Schema!Commit(c)
    PROVE  SchemaInvariant'
<1>1. PICK row : row = [checksum |-> Schema!Checksum(c), by |-> c]
  OBVIOUS
<1>2. /\ appNext[c] \in 1..Len(Migrations[c]) /\ appAt[c] = "applying"
      /\ appNext[c] = Len(history) + 1 /\ Agrees(history, c, Len(history) + 1)
  BY DEF SchemaInvariant, ProcessFits, Schema!Commit, Schema!Version
<1>3. row \in Rows /\ row.checksum = Migrations[c][Len(history) + 1] /\ row.by = c
  BY <1>1, <1>2, Programs, ElementOfSeq DEF Rows, Schema!Checksum
<1>4. /\ history' = Append(history, row)
      /\ schema' = schema \cup Schema!Applied(row.checksum, Statements)
      /\ appNext' = [appNext EXCEPT ![c] = @ + 1]
      /\ writer' = None /\ appAt' = appAt /\ backups' = backups
  BY <1>1 DEF Schema!Commit
<1>5. /\ HistoryFits(history', schema', backups') /\ Agrees(history', c, Len(history) + 2)
      /\ Len(history') = Len(history) + 1 /\ Len(history) \in Nat
      /\ \A a : \A n \in Nat :
           n <= Len(history) + 1 /\ Agrees(history, a, n) => Agrees(history', a, n)
  <2>1. HistoryFits(history, schema, backups)
    BY DEF SchemaInvariant
  <2> QED
    BY <1>2, <1>3, <1>4, <2>1, HistoryGrows
<1>6. ASSUME NEW a \in Apps PROVE ProcessFits(a, history', appAt'[a], appNext'[a])
  <2>1. ProcessFits(a, history, appAt[a], appNext[a]) /\ Len(Migrations[a]) \in Nat
    BY Programs DEF SchemaInvariant
  <2>2. CASE a = c
    <3>1. appNext'[a] = Len(history) + 2 /\ appAt'[a] = "applying"
      BY <1>2, <1>4, <1>5, <2>2 DEF SchemaInvariant
    <3>2. Len(history) + 2 <= Len(Migrations[a]) + 1
      BY <1>2, <1>5, <2>1, <2>2
    <3> QED
      BY <1>5, <2>1, <2>2, <3>1, <3>2 DEF ProcessFits
  <2>3. CASE a # c
    <3>1. appNext'[a] = appNext[a] /\ appAt'[a] = appAt[a]
      BY <1>4, <2>3 DEF SchemaInvariant
    <3>2. ASSUME appAt[a] = "applying" PROVE Agrees(history', a, appNext[a])
      BY <1>5, <2>1, <3>2 DEF ProcessFits
    <3>3. ASSUME appAt[a] = "ready" PROVE Agrees(history', a, Len(Migrations[a]) + 1)
      BY <1>5, <2>1, <3>3 DEF ProcessFits
    <3> QED
      BY <1>5, <2>1, <3>1, <3>2, <3>3 DEF ProcessFits
  <2> QED
    BY <2>2, <2>3
<1>7. DOMAIN appNext' = Apps /\ DOMAIN appAt' = Apps /\ \A a \in Apps : writer' # a
  BY <1>4, Programs DEF SchemaInvariant
<1> QED
  BY <1>5, <1>6, <1>7 DEF SchemaInvariant

\* Every step of a process keeps the invariant.
LEMMA SchemaStep == SchemaInvariant /\ [Schema!Next]_schemaVars => SchemaInvariant'
<1> SUFFICES ASSUME SchemaInvariant, [Schema!Next]_schemaVars PROVE SchemaInvariant'
  OBVIOUS
<1>1. Len(history) \in Nat
  BY LenProperties DEF SchemaInvariant, HistoryFits
<1>2. ASSUME NEW a \in Apps, Schema!Backup(a) PROVE SchemaInvariant'
  <2>1. HistoryFits(history', schema', backups')
    <3>1. /\ history' = history /\ schema' = schema
          /\ \A b \in backups' : b \in backups \/ (0 < Len(history) /\ b = schema)
      BY <1>2 DEF Schema!Backup, Schema!Version
    <3> QED
      BY <1>1, <3>1 DEF SchemaInvariant, HistoryFits
  <2> QED
    BY <1>2, <2>1 DEF Schema!Backup, SchemaInvariant, ProcessFits
<1>3. ASSUME NEW a \in Apps, Schema!Read(a) PROVE SchemaInvariant'
  <2>1. history' = history /\ schema' = schema /\ writer' = writer /\ backups' = backups
        /\ appAt[a] = "saved"
    BY <1>3 DEF Schema!Read
  <2>2. CASE Schema!Compatible(a) /\ appAt' = [appAt EXCEPT ![a] = "applying"]
             /\ appNext' = [appNext EXCEPT ![a] = Len(history) + 1]
    <3>1. Len(history) <= Len(Migrations[a]) /\ Agrees(history, a, Len(history) + 1)
      BY <1>1, <2>2, Programs
      DEF Schema!Compatible, Schema!Version, Schema!Supported, Agrees
    <3>2. ProcessFits(a, history, "applying", Len(history) + 1)
      BY <1>1, <3>1, Programs DEF ProcessFits
    <3> QED
      BY <2>1, <2>2, <3>2 DEF SchemaInvariant
  <2>3. CASE appAt' = [appAt EXCEPT ![a] = "refused"] /\ appNext' = appNext
    BY <2>1, <2>3 DEF SchemaInvariant, ProcessFits
  <2> QED
    BY <1>3, <2>2, <2>3 DEF Schema!Read, Schema!Version
<1>4. ASSUME NEW a \in Apps, Schema!Begin(a) PROVE SchemaInvariant'
  BY <1>4 DEF Schema!Begin, Schema!Supported, SchemaInvariant
<1>5. ASSUME NEW a \in Apps, Schema!Execute(a) PROVE SchemaInvariant'
  BY <1>5 DEF Schema!Execute, SchemaInvariant
<1>6. ASSUME NEW a \in Apps, Schema!Commit(a) PROVE SchemaInvariant'
  BY <1>6, CommitKeeps
<1>7. ASSUME NEW a \in Apps, Schema!Rollback(a) PROVE SchemaInvariant'
  BY <1>7, Programs DEF Schema!Rollback, SchemaInvariant, ProcessFits
<1>8. ASSUME NEW a \in Apps, Schema!Return(a) PROVE SchemaInvariant'
  <2>1. ProcessFits(a, history, appAt[a], appNext[a]) /\ appAt[a] = "applying"
        /\ appNext[a] > Len(Migrations[a]) /\ Len(Migrations[a]) \in Nat
    BY <1>8, Programs DEF Schema!Return, Schema!Supported, SchemaInvariant
  <2>2. appNext[a] = Len(Migrations[a]) + 1
    BY <2>1 DEF ProcessFits
  <2>3. ProcessFits(a, history, "ready", appNext[a])
    BY <1>1, <2>1, <2>2 DEF ProcessFits
  <2>4. writer # a
    BY <2>1, <2>2 DEF SchemaInvariant
  <2> QED
    BY <1>8, <2>3, <2>4 DEF Schema!Return, SchemaInvariant
<1>9. ASSUME NEW a \in Apps, Schema!Reopen(a) PROVE SchemaInvariant'
  BY <1>9 DEF Schema!Reopen, SchemaInvariant, ProcessFits
<1>10. CASE UNCHANGED schemaVars
  BY <1>10 DEF schemaVars, SchemaInvariant
<1> QED
  BY <1>2, <1>3, <1>4, <1>5, <1>6, <1>7, <1>8, <1>9, <1>10 DEF Schema!Next

\* What the property says, from the invariant.
LEMMA MigrationsWhole == SchemaInvariant => Schema!MigrationsAreWhole
<1> SUFFICES ASSUME SchemaInvariant PROVE Schema!MigrationsAreWhole
  OBVIOUS
<1>1. Len(history) \in Nat
  BY LenProperties DEF SchemaInvariant, HistoryFits
<1>2. Schema!SchemaIsItsHistory
  BY DEF SchemaInvariant, HistoryFits, Effect, Schema!SchemaIsItsHistory, Schema!Version,
         Schema!Whole
<1>3. ASSUME NEW v \in 1..Len(history), NEW u \in 1..v
      PROVE  history[u].checksum = Migrations[history[v].by][u]
  BY <1>1 DEF SchemaInvariant, HistoryFits, Agrees
<1>4. ASSUME NEW a \in Apps, appAt[a] = "ready"
      PROVE  /\ Len(history) >= Len(Migrations[a])
             /\ \A v \in 1..Len(Migrations[a]) : history[v].checksum = Migrations[a][v]
  BY <1>1, <1>4, Programs DEF SchemaInvariant, ProcessFits, Agrees
<1> QED
  BY <1>2, <1>3, <1>4
  DEF Schema!MigrationsAreWhole, Schema!HistoryIsOneLine, Schema!Version, Schema!Supported

\* What is known of a job: it is valid, and its attempts are its runs.
EntityInvariant ==
    /\ job \in [status: DOMAIN Entity!Allowed, attempt: Nat, started: BOOLEAN, finished: BOOLEAN,
                error: BOOLEAN, complete: BOOLEAN]
    /\ Entity!Valid(job) /\ job.attempt = runs

\* A step of the studio is one of the job, or leaves it alone.
LEMMA EntityRun ==
    /\ StudioInit => Entity!Init
    /\ [StudioNext]_studioVars => [Entity!Next]_entityVars
BY DEF StudioInit, StudioNext, studioVars, entityVars

\* The fields of the job that a transition leads to.
LEMMA ChangedJob ==
    ASSUME EntityInvariant, NEW goal \in DOMAIN Entity!Allowed, NEW j,
           j = Entity!Changed(goal)
    PROVE  /\ j.status = goal
           /\ j.started <=> job.started \/ goal = "RUNNING"
           /\ j.attempt = IF goal = "RUNNING" THEN job.attempt + 1 ELSE job.attempt
           /\ j.finished <=> goal \in Entity!Terminal
           /\ j.error <=> goal = "FAILED"
           /\ j.complete <=> job.complete \/ goal = "SUCCEEDED"
BY DEF Entity!Changed, EntityInvariant

\* A job that is there was never refused.
LEMMA EntityStep ==
    /\ Entity!Init => EntityInvariant
    /\ EntityInvariant /\ [Entity!Next]_entityVars => EntityInvariant'
<1>1. Entity!Init => EntityInvariant
  BY StudioConstants
  DEF Entity!EntityConstants, Entity!Init, EntityInvariant, Entity!Valid, Entity!Terminal,
      Entity!Records!Terminal, Entity!Allowed, Entity!Records!Allowed
<1>2. ASSUME EntityInvariant, NEW goal \in DOMAIN Entity!Allowed, NEW error \in BOOLEAN,
             Entity!TransitionTo(goal, error)
      PROVE  EntityInvariant'
  <2>1. PICK j : j = Entity!Changed(goal)
    OBVIOUS
  <2>2. job' = j /\ Entity!Valid(j) /\ runs' = IF goal = "RUNNING" THEN runs + 1 ELSE runs
    BY <1>2, <2>1 DEF Entity!TransitionTo
  <2>3. \E tried, started, finished, failing, done \in BOOLEAN :
          j = [job EXCEPT !.status = goal, !.started = started,
                          !.attempt = IF tried THEN @ + 1 ELSE @,
                          !.finished = finished, !.error = failing, !.complete = done]
    <3>1. /\ (job.started \/ goal = "RUNNING") \in BOOLEAN
          /\ (job.complete \/ goal = "SUCCEEDED") \in BOOLEAN
          /\ (goal \in Entity!Terminal) \in BOOLEAN
          /\ (goal = "FAILED") \in BOOLEAN /\ (goal = "RUNNING") \in BOOLEAN
      OBVIOUS
    <3> QED
      BY <2>1, <3>1, ZenonT(30) DEF Entity!Changed
  <2>4. j \in [status: DOMAIN Entity!Allowed, attempt: Nat, started: BOOLEAN,
               finished: BOOLEAN, error: BOOLEAN, complete: BOOLEAN]
    <3> DEFINE States == [status: DOMAIN Entity!Allowed, attempt: Nat, started: BOOLEAN,
                          finished: BOOLEAN, error: BOOLEAN, complete: BOOLEAN]
    <3>1. PICK tried \in BOOLEAN, started \in BOOLEAN, finished \in BOOLEAN,
               failing \in BOOLEAN, done \in BOOLEAN :
            j = [job EXCEPT !.status = goal, !.started = started,
                            !.attempt = IF tried THEN @ + 1 ELSE @,
                            !.finished = finished, !.error = failing, !.complete = done]
      BY <2>3
    <3>2. job \in States
      BY <1>2 DEF EntityInvariant
    <3>3. PICK n \in Nat : n = IF tried THEN job.attempt + 1 ELSE job.attempt
      BY <3>2
    <3>4. PICK k \in States : k = [job EXCEPT !.status = goal, !.started = started]
      BY <3>2
    <3>5. PICK l \in States : l = [k EXCEPT !.attempt = n, !.finished = finished]
      BY <3>4
    <3>6. PICK m \in States : m = [l EXCEPT !.error = failing, !.complete = done]
      BY <3>5
    <3>7. j = m
      <4>1. k.attempt = job.attempt
        BY <3>2, <3>4
      <4> QED
        BY <3>1, <3>3, <3>4, <3>5, <3>6, <4>1
    <3> QED
      BY <3>7
  <2>5. j.attempt = IF goal = "RUNNING" THEN job.attempt + 1 ELSE job.attempt
    BY <1>2, <2>1, ChangedJob
  <2>6. Entity!Valid(job)'
    BY <2>2 DEF Entity!Valid, Entity!Terminal, Entity!Records!Terminal
  <2> QED
    BY <1>2, <2>2, <2>4, <2>5, <2>6 DEF EntityInvariant
<1>3. EntityInvariant /\ UNCHANGED entityVars => EntityInvariant'
  BY DEF EntityInvariant, entityVars, Entity!Valid
<1> QED
  BY <1>1, <1>2, <1>3 DEF Entity!Next, entityVars

\* What the state machine allows the validation lets pass, but for one run
\* more than the attempts there are.
LEMMA AllowedIsValid ==
    ASSUME EntityInvariant, NEW goal \in Entity!Allowed[job.status]
    PROVE  Entity!Valid(Entity!Changed(goal)) \/ (goal = "RUNNING" /\ runs = MaxAttempts)
<1>1. /\ job.status \in DOMAIN Entity!Allowed /\ goal \in DOMAIN Entity!Allowed
      /\ goal \in {"PAUSING", "SUCCEEDED"} => job.status = "RUNNING"
      /\ goal = "PAUSED" => job.status = "PAUSING"
  BY DEF EntityInvariant, Entity!Allowed, Entity!Records!Allowed
<1>2. PICK j : j = Entity!Changed(goal)
  OBVIOUS
<1>3. /\ j.status = goal /\ (j.started <=> job.started \/ goal = "RUNNING")
      /\ j.attempt = IF goal = "RUNNING" THEN job.attempt + 1 ELSE job.attempt
      /\ j.finished <=> goal \in Entity!Terminal
      /\ j.error <=> goal = "FAILED"
      /\ j.complete <=> job.complete \/ goal = "SUCCEEDED"
  BY <1>1, <1>2, ChangedJob
<1>4. job.status \in {"RUNNING", "PAUSING"} => job.started
  BY DEF EntityInvariant, Entity!Valid
<1>5. j.attempt <= MaxAttempts \/ (goal = "RUNNING" /\ runs = MaxAttempts)
  BY <1>3, StudioConstants DEF EntityInvariant, Entity!Valid, Entity!EntityConstants
<1>6. goal \in {"RUNNING", "PAUSING", "PAUSED", "SUCCEEDED"} => j.started
  BY <1>1, <1>3, <1>4
<1> QED
  BY <1>2, <1>3, <1>5, <1>6 DEF Entity!Valid

\* job.py: the property, from the invariant: a job that is not at an end can
\* be cancelled or fail.
LEMMA JobUsable == EntityInvariant => Entity!MachineIsUsable
<1> SUFFICES ASSUME EntityInvariant PROVE Entity!MachineIsUsable
  OBVIOUS
<1>1. ASSUME job.status \notin Entity!Terminal \cup {"STALE"}
      PROVE  \E goal \in Entity!Allowed[job.status] : Entity!Valid(Entity!Changed(goal))
  <2>1. PICK goal \in Entity!Allowed[job.status] : goal # "RUNNING"
    BY <1>1
    DEF EntityInvariant, Entity!Terminal, Entity!Records!Terminal, Entity!Allowed,
        Entity!Records!Allowed
  <2> QED
    BY <2>1, AllowedIsValid
<1> QED
  BY <1>1, AllowedIsValid DEF EntityInvariant, Entity!MachineIsUsable

\* migrations.py, job.py: for any programs and migrations, the schema in effect
\* is whole and that of its history, which is of one line, and a program that
\* is ready finds all it needs; a job can take every step it is allowed but
\* for a run too many, and can always be brought to an end.
THEOREM StepsAreWhole == StudioSpec => []OnlyWholeSteps
<1> DEFINE Inv == SchemaInvariant /\ EntityInvariant
<1>1. StudioInit => Inv
  BY SchemaRun, SchemaInit, EntityRun, EntityStep
<1>2. Inv /\ [StudioNext]_studioVars => Inv'
  BY SchemaRun, SchemaStep, EntityRun, EntityStep
<1>3. Inv => OnlyWholeSteps
  BY MigrationsWhole, JobUsable DEF OnlyWholeSteps
<1> QED
  BY <1>1, <1>2, <1>3, PTL DEF StudioSpec

-----------------------------------------------------------------------------
(* The takes of an utterance, the catalog of projects and the undo history. *)

\* Among some places of a sequence one is the last.
LEMMA GreatestExists ==
    ASSUME NEW n \in Nat, NEW T, T \subseteq 1..n, T # {}
    PROVE  \E m \in T : \A j \in T : j <= m
<1> DEFINE S == {k \in Nat : n - k \in T}
<1>1. S \subseteq Nat /\ S # {}
  <2>1. PICK j \in T : TRUE
    OBVIOUS
  <2>2. n - j \in Nat /\ n - (n - j) = j
    OBVIOUS
  <2> QED
    BY <2>1, <2>2
<1>2. PICK s \in S : \A t \in S : s <= t
  <2> HIDE DEF S
  <2> QED
    BY <1>1, LeastExists
<1>3. n - s \in T /\ s \in Nat
  BY <1>2
<1>4. ASSUME NEW j \in T PROVE j <= n - s
  <2>1. n - j \in Nat /\ n - (n - j) = j
    OBVIOUS
  <2>2. n - j \in S
    BY <2>1
  <2>3. s <= n - j
    BY <1>2, <2>2
  <2> HIDE DEF S
  <2> QED
    BY <1>3, <2>3
<1> QED
  BY <1>3, <1>4

TakeRecords == [id: TakeIds, status: Takes!Statuses, born: Takes!Statuses]

\* What the property says of the takes, and what their statuses are.
TakesInvariant ==
    /\ takes \in Seq(TakeRecords)
    /\ \A choice \in Takes!Exclusive : \A i, j \in DOMAIN takes :
         i < j /\ takes[i].status = choice /\ takes[j].status = choice =>
             takes[j].born = choice
    /\ \A i, j \in DOMAIN takes : takes[i].id = takes[j].id => i = j

\* A step of the studio is one of the take manager, or leaves it alone.
LEMMA TakesRun ==
    /\ StudioInit => Takes!Init
    /\ [StudioNext]_studioVars => [Takes!Next]_takes
BY DEF StudioInit, StudioNext, studioVars

\* Every call of the take manager keeps the invariant.
LEMMA TakesStep ==
    /\ Takes!Init => TakesInvariant
    /\ TakesInvariant /\ [Takes!Next]_takes => TakesInvariant'
<1>1. Takes!Init => TakesInvariant
  BY EmptySeq DEF Takes!Init, TakesInvariant
<1> SUFFICES ASSUME TakesInvariant, [Takes!Next]_takes PROVE TakesInvariant'
  BY <1>1
<1>2. Len(takes) \in Nat /\ DOMAIN takes = 1..Len(takes)
  BY LenProperties DEF TakesInvariant
<1>3. ASSUME NEW id \in TakeIds, NEW first \in Takes!Statuses, Takes!AddTake(id, first)
      PROVE  TakesInvariant'
  <2>1. PICK new : new = [id |-> id, status |-> first, born |-> first]
    OBVIOUS
  <2>2. /\ new \in TakeRecords
        /\ new.born = new.status
        /\ \A i \in DOMAIN takes : takes[i].id # new.id
        /\ takes' = Append(takes, new)
    BY <1>3, <2>1 DEF Takes!AddTake, TakeRecords
  <2>3. /\ takes' \in Seq(TakeRecords)
        /\ DOMAIN takes' = 1..Len(takes) + 1
        /\ takes'[Len(takes) + 1] = new
        /\ \A i \in 1..Len(takes) : takes'[i] = takes[i]
    <3>1. takes \in Seq(TakeRecords)
      BY DEF TakesInvariant
    <3>2. takes' \in Seq(TakeRecords) /\ Len(takes') = Len(takes) + 1
          /\ takes'[Len(takes) + 1] = new
          /\ \A i \in 1..Len(takes) : takes'[i] = takes[i]
      BY <2>2, <3>1, AppendProperties
    <3> QED
      BY <3>2, LenProperties
  <2>4. ASSUME NEW choice \in Takes!Exclusive, NEW i \in DOMAIN takes', NEW j \in DOMAIN takes',
               i < j, takes'[i].status = choice, takes'[j].status = choice
        PROVE  takes'[j].born = choice
    <3>1. CASE j = Len(takes) + 1
      BY <2>2, <2>3, <2>4, <3>1
    <3>2. CASE j # Len(takes) + 1
      <4>1. i \in 1..Len(takes) /\ j \in 1..Len(takes)
        BY <1>2, <2>3, <2>4, <3>2
      <4> QED
        BY <1>2, <2>3, <2>4, <4>1 DEF TakesInvariant
    <3> QED
      BY <3>1, <3>2
  <2>5. ASSUME NEW i \in DOMAIN takes', NEW j \in DOMAIN takes', takes'[i].id = takes'[j].id
        PROVE  i = j
    <3>1. i \in 1..Len(takes) \/ i = Len(takes) + 1
      BY <1>2, <2>3
    <3>2. j \in 1..Len(takes) \/ j = Len(takes) + 1
      BY <1>2, <2>3
    <3>3. \A n \in 1..Len(takes) : takes'[n].id # new.id
      BY <1>2, <2>2, <2>3
    <3>4. CASE i \in 1..Len(takes) /\ j \in 1..Len(takes)
      BY <1>2, <2>3, <2>5, <3>4 DEF TakesInvariant
    <3> QED
      BY <2>3, <2>5, <3>1, <3>2, <3>3, <3>4
  <2> QED
    BY <2>3, <2>4, <2>5 DEF TakesInvariant
<1>4. ASSUME NEW k \in DOMAIN takes, NEW goal \in Takes!Statuses \ {"generated"},
             Takes!Transition(k, goal)
      PROVE  TakesInvariant'
  <2>1. /\ DOMAIN takes' = 1..Len(takes)
        /\ takes' = [j \in 1..Len(takes) |-> takes'[j]]
        /\ takes'[k] = [takes[k] EXCEPT !.status = goal]
        /\ \A j \in DOMAIN takes \ {k} :
             takes'[j] = IF goal \in Takes!Exclusive /\ takes[j].status = goal
                         THEN [takes[j] EXCEPT !.status = "generated"] ELSE takes[j]
    BY <1>2, <1>4 DEF Takes!Transition
  <2>2. \A j \in DOMAIN takes : takes[j] \in TakeRecords
    BY <1>2, ElementOfSeq DEF TakesInvariant
  <2>3. ASSUME NEW j \in DOMAIN takes
        PROVE  /\ takes'[j] \in TakeRecords
               /\ takes'[j].id = takes[j].id /\ takes'[j].born = takes[j].born
               /\ j = k => takes'[j].status = goal
               /\ j # k => \/ takes'[j].status = "generated" /\ takes[j].status # "generated"
                           \/ /\ takes'[j].status = takes[j].status
                              /\ ~(goal \in Takes!Exclusive /\ takes[j].status = goal)
    <3>1. CASE j = k
      BY <2>1, <2>2, <3>1 DEF TakeRecords
    <3>2. CASE j # k /\ goal \in Takes!Exclusive /\ takes[j].status = goal
      <4>1. takes'[j] = [takes[j] EXCEPT !.status = "generated"] /\ takes[j] \in TakeRecords
        BY <2>1, <2>2, <3>2
      <4> QED
        BY <3>2, <4>1 DEF TakeRecords, Takes!Statuses, Takes!Exclusive
    <3>3. CASE j # k /\ ~(goal \in Takes!Exclusive /\ takes[j].status = goal)
      BY <2>1, <2>2, <3>3
    <3> QED
      BY <3>1, <3>2, <3>3
  <2>4. takes' \in Seq(TakeRecords)
    BY <1>2, <2>1, <2>3, SeqDef
  <2>5. ASSUME NEW choice \in Takes!Exclusive, NEW i \in DOMAIN takes, NEW j \in DOMAIN takes,
               i < j, takes'[i].status = choice, takes'[j].status = choice
        PROVE  takes'[j].born = choice
    <3>1. i # j
      BY <1>2, <2>5
    <3>2. CASE goal = choice
      BY <2>3, <2>5, <3>1, <3>2 DEF Takes!Exclusive
    <3>3. CASE goal # choice
      <4>1. takes[i].status = choice /\ takes[j].status = choice
        BY <2>3, <2>5, <3>3 DEF Takes!Exclusive
      <4> QED
        BY <2>3, <2>5, <4>1 DEF TakesInvariant
    <3> QED
      BY <3>2, <3>3
  <2>6. ASSUME NEW i \in DOMAIN takes, NEW j \in DOMAIN takes, takes'[i].id = takes'[j].id
        PROVE  i = j
    BY <2>3, <2>6 DEF TakesInvariant
  <2> QED
    BY <1>2, <2>1, <2>4, <2>5, <2>6 DEF TakesInvariant
<1>5. CASE UNCHANGED takes
  BY <1>5 DEF TakesInvariant
<1> QED
  BY <1>3, <1>4, <1>5 DEF Takes!Next

\* Of the takes with a status there is a latest one.
LEMMA LatestIsThere ==
    ASSUME TakesInvariant, NEW choice
    PROVE  Takes!Latest(choice) # {} <=> \E i \in DOMAIN takes : takes[i].status = choice
<1> DEFINE T == {i \in DOMAIN takes : takes[i].status = choice}
<1>1. Len(takes) \in Nat /\ DOMAIN takes = 1..Len(takes)
  BY LenProperties DEF TakesInvariant
<1>2. Takes!Latest(choice) # {} => T # {}
  BY DEF Takes!Latest
<1>3. ASSUME T # {} PROVE Takes!Latest(choice) # {}
  <2>1. PICK m \in T : \A j \in T : j <= m
    <3>1. T \subseteq 1..Len(takes)
      BY <1>1
    <3> HIDE DEF T
    <3> QED
      BY <1>1, <1>3, <3>1, GreatestExists
  <2>2. m \in Takes!Latest(choice)
    BY <1>1, <2>1 DEF Takes!Latest
  <2> QED
    BY <2>2
<1> QED
  BY <1>2, <1>3

\* take_manager.py: the property, from the invariant.
LEMMA QueueHasItsTake == TakesInvariant => Takes!RenderQueueHasItsTake
<1> SUFFICES ASSUME TakesInvariant PROVE Takes!RenderQueueHasItsTake
  OBVIOUS
<1>1. Len(takes) \in Nat /\ DOMAIN takes = 1..Len(takes)
  BY LenProperties DEF TakesInvariant
<1>2. \A i \in DOMAIN takes : takes[i].status \in Takes!Statuses
  <2>1. \A i \in DOMAIN takes : takes[i] \in TakeRecords
    BY <1>1, ElementOfSeq DEF TakesInvariant
  <2> QED
    BY <2>1 DEF TakeRecords
<1>3. (\E i \in DOMAIN takes : takes[i].status \notin Takes!Retired) <=> Takes!RenderTake # {}
  <2>1. (\E i \in DOMAIN takes : takes[i].status \notin Takes!Retired)
        <=> \E choice \in {"master", "selected", "generated"} :
              \E i \in DOMAIN takes : takes[i].status = choice
    BY <1>2 DEF Takes!Statuses, Takes!Retired
  <2>2. Takes!RenderTake # {} <=> \E choice \in {"master", "selected", "generated"} :
                                    Takes!Latest(choice) # {}
    BY DEF Takes!RenderTake
  <2> QED
    BY <2>1, <2>2, LatestIsThere
<1>4. ASSUME NEW i \in DOMAIN takes, NEW j \in Takes!RenderTake, takes[i].status = "master"
      PROVE  i <= j /\ takes[j].status = "master"
  <2>1. Takes!Latest("master") # {}
    BY <1>4, LatestIsThere
  <2>2. j \in Takes!Latest("master")
    BY <1>4, <2>1 DEF Takes!RenderTake
  <2>3. /\ j \in DOMAIN takes /\ takes[j].status = "master"
        /\ i \notin j + 1 .. Len(takes)
    BY <1>4, <2>2 DEF Takes!Latest
  <2> QED
    BY <1>1, <2>3
<1> QED
  BY <1>3, <1>4 DEF TakesInvariant, Takes!RenderQueueHasItsTake

CatalogRows == [path: Paths \cup {None}, pinned: BOOLEAN]

\* What is known of the catalog: a row has a path, unless there is none.
CatalogInvariant ==
    /\ rows \in [Projects -> CatalogRows]
    /\ asked \in [Projects -> BOOLEAN]
    /\ place \in [Projects -> Paths \cup {None}]
    /\ \A p \in Projects : rows[p].pinned = asked[p]
    /\ \A p \in Projects : rows[p].path = None => rows[p].pinned = FALSE
    /\ \A p, q \in Projects : rows[p].path = rows[q].path /\ rows[p].path # None => p = q

\* A step of the studio is one of the catalog, or leaves it alone.
LEMMA CatalogRun ==
    /\ StudioInit => Catalog!Init
    /\ [StudioNext]_studioVars => [Catalog!Next]_catalogVars
BY DEF StudioInit, StudioNext, studioVars, catalogVars

\* A row of a path and a pin.
LEMMA RowOf ==
    ASSUME NEW path \in Paths \cup {None}, NEW pin \in BOOLEAN,
           NEW row, row = [path |-> path, pinned |-> pin]
    PROVE  row \in CatalogRows /\ row.path = path /\ row.pinned = pin
<1>1. CASE pin = TRUE
  BY <1>1 DEF CatalogRows
<1>2. CASE pin = FALSE
  BY <1>2 DEF CatalogRows
<1> QED
  BY <1>1, <1>2, Zenon

\* One row changes, and its pin with what was asked for.
LEMMA OneRowChanges ==
    ASSUME CatalogInvariant, NEW p \in Projects, NEW row \in CatalogRows, NEW pin \in BOOLEAN,
           row.pinned = pin, row.path = None => pin = FALSE,
           rows' = [rows EXCEPT ![p] = row],
           asked' = [asked EXCEPT ![p] = pin], place' = place,
           row.path # None => \A q \in Projects \ {p} : rows[q].path # row.path
    PROVE  CatalogInvariant'
<1>1. /\ rows' \in [Projects -> CatalogRows]
      /\ \A q \in Projects : rows'[q] = IF q = p THEN row ELSE rows[q]
  BY DEF CatalogInvariant
<1>2. /\ asked' \in [Projects -> BOOLEAN]
      /\ \A q \in Projects : asked'[q] = IF q = p THEN pin ELSE asked[q]
  BY DEF CatalogInvariant
<1>3. \A q \in Projects : rows'[q].pinned = asked'[q]
  BY <1>1, <1>2 DEF CatalogInvariant
<1>4. \A q \in Projects : rows'[q].path = None => rows'[q].pinned = FALSE
  BY <1>1 DEF CatalogInvariant
<1>5. \A q, o \in Projects : rows'[q].path = rows'[o].path /\ rows'[q].path # None => q = o
  BY <1>1 DEF CatalogInvariant
<1> QED
  BY <1>1, <1>2, <1>3, <1>4, <1>5 DEF CatalogInvariant

\* Every call of the catalog keeps the invariant.
LEMMA CatalogStep ==
    /\ Catalog!Init => CatalogInvariant
    /\ CatalogInvariant /\ [Catalog!Next]_catalogVars => CatalogInvariant'
<1>1. Catalog!Init => CatalogInvariant
  <2>1. PICK row \in CatalogRows : row = Catalog!NoRow /\ row.path = None /\ row.pinned = FALSE
    BY RowOf DEF Catalog!NoRow
  <2> QED
    BY <2>1 DEF Catalog!Init, CatalogInvariant
<1> SUFFICES ASSUME CatalogInvariant, [Catalog!Next]_catalogVars PROVE CatalogInvariant'
  BY <1>1
<1>2. ASSUME NEW p \in Projects, NEW pin \in {{}, {TRUE}, {FALSE}}, Catalog!UpsertProject(p, pin)
      PROVE  CatalogInvariant'
  <2>1. rows[p].pinned = asked[p] /\ asked[p] \in BOOLEAN /\ (TRUE \in pin) \in BOOLEAN
    BY DEF CatalogInvariant
  <2>2. PICK chosen \in BOOLEAN : chosen = IF pin = {} THEN asked[p] ELSE TRUE \in pin
    BY <2>1, Zenon
  <2>3. /\ place[p] \in Paths \cup {None} /\ place[p] # None
        /\ \A q \in Projects \ {p} : rows[q].path # place[p]
        /\ rows' = [rows EXCEPT ![p] = [path |-> place[p], pinned |-> chosen]]
        /\ asked' = [asked EXCEPT ![p] = chosen] /\ place' = place
    <3>1. chosen = IF pin = {} THEN rows[p].pinned ELSE TRUE \in pin
      BY <2>1, <2>2, Zenon
    <3> QED
      BY <1>2, <2>2, <3>1, Zenon DEF Catalog!UpsertProject, CatalogInvariant
  <2>4. PICK row : row = [path |-> place[p], pinned |-> chosen]
    OBVIOUS
  <2>5. row \in CatalogRows /\ row.path = place[p] /\ row.pinned = chosen
    BY <2>3, <2>4, RowOf
  <2> QED
    BY <2>3, <2>4, <2>5, OneRowChanges
<1>3. ASSUME NEW p \in Projects, NEW pin \in BOOLEAN, Catalog!SetPinned(p, pin)
      PROVE  CatalogInvariant'
  <2>1. rows[p] \in CatalogRows /\ rows[p].path # None
    <3>1. rows[p] \in CatalogRows /\ rows[p] # [path |-> None, pinned |-> FALSE]
          /\ (rows[p].path = None => rows[p].pinned = FALSE)
      BY <1>3 DEF Catalog!SetPinned, Catalog!Registered, Catalog!NoRow, CatalogInvariant
    <3>2. rows[p] = [path |-> rows[p].path, pinned |-> rows[p].pinned]
      BY <3>1 DEF CatalogRows
    <3> QED
      BY <3>1, <3>2
  <2>2. PICK row : row = [rows[p] EXCEPT !.pinned = pin]
    OBVIOUS
  <2>3. row \in CatalogRows /\ row.path = rows[p].path /\ row.pinned = pin
    <3>1. ASSUME pin = TRUE PROVE row \in CatalogRows /\ row.path = rows[p].path /\ row.pinned = pin
      BY <2>1, <2>2, <3>1 DEF CatalogRows
    <3>2. ASSUME pin = FALSE PROVE row \in CatalogRows /\ row.path = rows[p].path /\ row.pinned = pin
      BY <2>1, <2>2, <3>2 DEF CatalogRows
    <3> QED
      BY <3>1, <3>2, Zenon
  <2>4. /\ rows' = [rows EXCEPT ![p] = row]
        /\ asked' = [asked EXCEPT ![p] = pin] /\ place' = place
    BY <1>3, <2>2 DEF Catalog!SetPinned
  <2>5. \A q \in Projects \ {p} : rows[q].path # rows[p].path
    BY <2>1 DEF CatalogInvariant
  <2> QED
    BY <2>1, <2>3, <2>4, <2>5, OneRowChanges
<1>4. ASSUME NEW p \in Projects, Catalog!RemoveProject(p) PROVE CatalogInvariant'
  <2>1. PICK row \in CatalogRows : row = Catalog!NoRow /\ row.path = None /\ row.pinned = FALSE
    BY RowOf DEF Catalog!NoRow
  <2> QED
    BY <1>4, <2>1, OneRowChanges DEF Catalog!RemoveProject
<1>5. ASSUME NEW p \in Projects, NEW path \in Paths \cup {None}, Catalog!Move(p, path)
      PROVE  CatalogInvariant'
  BY <1>5 DEF Catalog!Move, CatalogInvariant
<1>6. ASSUME Catalog!Preflight \/ Catalog!Initialize \/ Catalog!InitializeElsewhere
             \/ UNCHANGED catalogVars
      PROVE  CatalogInvariant'
  BY <1>6 DEF Catalog!Preflight, Catalog!Initialize, Catalog!InitializeElsewhere, catalogVars,
              CatalogInvariant
<1> QED
  BY <1>2, <1>3, <1>4, <1>5, <1>6 DEF Catalog!Next

\* catalog.py: the property, from the invariant.
LEMMA PinsKept == CatalogInvariant => Catalog!CatalogKeepsPins
<1> SUFFICES ASSUME CatalogInvariant, NEW p \in Catalog!Registered
             PROVE  rows[p].path # None
  BY DEF CatalogInvariant, Catalog!CatalogKeepsPins, Catalog!Registered
<1>1. /\ rows[p] \in CatalogRows
      /\ rows[p] # [path |-> None, pinned |-> FALSE]
      /\ rows[p].path = None => rows[p].pinned = FALSE
  BY DEF CatalogInvariant, Catalog!Registered, Catalog!NoRow
<1>2. rows[p] = [path |-> rows[p].path, pinned |-> rows[p].pinned]
  BY <1>1 DEF CatalogRows
<1> QED
  BY <1>1, <1>2

UndoCommands == [before: TimelineStates, after: TimelineStates]

\* The two stacks, the timeline and the states it went through are one line.
OneLine(state, older, newer, through) ==
    /\ state \in TimelineStates /\ through \in Seq(TimelineStates)
    /\ older \in Seq(UndoCommands) /\ newer \in Seq(UndoCommands)
    /\ Len(through) = Len(older) + 1 /\ through[Len(older) + 1] = state
    /\ \A n \in 1..Len(older) :
         older[n].before = through[n] /\ older[n].after = through[n + 1]
    /\ Len(newer) > 0 => newer[Len(newer)].before = state
    /\ \A n \in 2..Len(newer) : newer[n].after = newer[n - 1].before
    /\ Len(older) + Len(newer) <= MaxLevels

UndoInvariant == service = "undo" => OneLine(timeline, undone, redone, past)

\* All but the last of a sequence.
LEMMA FrontOfSequence ==
    ASSUME NEW S, NEW s \in Seq(S), s # <<>>
    PROVE  /\ Undo!Front(s) \in Seq(S) /\ Len(Undo!Front(s)) = Len(s) - 1
           /\ Len(s) \in Nat \ {0} /\ s[Len(s)] \in S /\ Undo!Last(s) = s[Len(s)]
           /\ \A n \in 1 .. Len(s) - 1 : Undo!Front(s)[n] = s[n]
<1>1. Len(s) \in Nat \ {0}
  BY EmptySeq, LenProperties
<1>2. \A n \in 1 .. Len(s) - 1 : s[n] \in S
  BY <1>1, ElementOfSeq
<1>3. /\ SubSeq(s, 1, Len(s) - 1) \in Seq(S)
      /\ Len(SubSeq(s, 1, Len(s) - 1)) = Len(s) - 1
      /\ \A n \in 1 .. Len(s) - 1 : SubSeq(s, 1, Len(s) - 1)[n] = s[n]
  <2>1. PICK m \in Nat : m = Len(s) - 1
    BY <1>1
  <2>2. /\ SubSeq(s, 1, m) \in Seq(S)
        /\ Len(SubSeq(s, 1, m)) = IF 1 <= m THEN m - 1 + 1 ELSE 0
        /\ \A n \in 1 .. m - 1 + 1 : SubSeq(s, 1, m)[n] = s[1 + n - 1]
    <3>1. 1 \in Int /\ m \in Int /\ \A n \in 1..m : s[n] \in S
      BY <1>2, <2>1
    <3> QED
      BY <3>1, SubSeqProperties
  <2>3. Len(SubSeq(s, 1, m)) = m /\ \A n \in 1..m : SubSeq(s, 1, m)[n] = s[n]
    BY <2>1, <2>2
  <2> QED
    BY <2>1, <2>2, <2>3
<1>4. s[Len(s)] \in S
  BY <1>1, ElementOfSeq
<1> QED
  BY <1>1, <1>3, <1>4 DEF Undo!Front, Undo!Last

\* undo() goes one state back.
LEMMA UndoKeepsLine ==
    ASSUME OneLine(timeline, undone, redone, past), Undo!Undo
    PROVE  OneLine(timeline', undone', redone', past')
<1>1. /\ past \in Seq(TimelineStates) /\ undone \in Seq(UndoCommands)
      /\ redone \in Seq(UndoCommands)
      /\ \A n \in 1..Len(undone) : undone[n].before = past[n] /\ undone[n].after = past[n + 1]
      /\ \A n \in 2..Len(redone) : redone[n].after = redone[n - 1].before
      /\ Len(redone) > 0 => redone[Len(redone)].before = timeline
  BY DEF OneLine
<1>2. /\ Undo!Front(undone) \in Seq(UndoCommands) /\ Len(Undo!Front(undone)) = Len(undone) - 1
      /\ Len(undone) \in Nat \ {0} /\ Undo!Last(undone) = undone[Len(undone)]
      /\ undone[Len(undone)] \in UndoCommands
      /\ \A n \in 1 .. Len(undone) - 1 : Undo!Front(undone)[n] = undone[n]
  BY FrontOfSequence DEF OneLine, Undo!Undo
<1>3. Len(redone) \in Nat /\ Len(past) = Len(undone) + 1 /\ past # <<>>
  BY <1>2, LenProperties, EmptySeq DEF OneLine
<1>4. /\ Undo!Front(past) \in Seq(TimelineStates) /\ Len(Undo!Front(past)) = Len(undone)
      /\ \A n \in 1 .. Len(undone) : Undo!Front(past)[n] = past[n]
  <2>1. /\ Undo!Front(past) \in Seq(TimelineStates) /\ Len(Undo!Front(past)) = Len(past) - 1
        /\ \A n \in 1 .. Len(past) - 1 : Undo!Front(past)[n] = past[n]
    BY <1>1, <1>3, FrontOfSequence
  <2>2. Len(past) - 1 = Len(undone)
    BY <1>2, <1>3
  <2> QED
    BY <2>1, <2>2
<1>5. PICK top \in UndoCommands : top = undone[Len(undone)] /\ top = Undo!Last(undone)
  BY <1>2
<1>6. /\ top.before \in TimelineStates /\ top.before = past[Len(undone)]
      /\ top.after = timeline
  BY <1>2, <1>5 DEF OneLine, UndoCommands
<1>7. /\ redone' = Append(redone, top) /\ undone' = Undo!Front(undone)
      /\ timeline' = top.before /\ past' = Undo!Front(past)
  BY <1>5 DEF Undo!Undo
<1>8. /\ redone' \in Seq(UndoCommands) /\ Len(redone') = Len(redone) + 1
      /\ redone'[Len(redone) + 1] = top
      /\ \A n \in 1..Len(redone) : redone'[n] = redone[n]
  BY <1>7, AppendProperties DEF OneLine
<1>9. Len(past') = Len(undone') + 1 /\ past'[Len(undone') + 1] = timeline'
  BY <1>2, <1>4, <1>6, <1>7
<1>10. ASSUME NEW n \in 1..Len(undone')
      PROVE  undone'[n].before = past'[n] /\ undone'[n].after = past'[n + 1]
  <2>1. /\ n \in 1 .. Len(undone) - 1 /\ n \in 1..Len(undone) /\ n + 1 \in 1..Len(undone)
    BY <1>2, <1>7
  <2> QED
    BY <1>1, <1>2, <1>4, <1>7, <2>1
<1>11. ASSUME NEW n \in 2..Len(redone') PROVE redone'[n].after = redone'[n - 1].before
  <2>1. CASE n <= Len(redone)
    <3>1. n \in 2..Len(redone) /\ n \in 1..Len(redone) /\ n - 1 \in 1..Len(redone)
      BY <1>3, <1>8, <2>1
    <3> QED
      BY <1>1, <1>8, <3>1
  <2>2. CASE n = Len(redone) + 1
    <3>1. n - 1 = Len(redone) /\ Len(redone) \in 1..Len(redone) /\ Len(redone) > 0
      BY <1>3, <1>8, <2>2
    <3> QED
      BY <1>1, <1>6, <1>8, <2>2, <3>1
  <2> QED
    BY <1>3, <1>8, <2>1, <2>2
<1>12. Len(undone') + Len(redone') <= MaxLevels
  BY <1>2, <1>3, <1>7, <1>8, StudioConstants DEF OneLine, Undo!UndoConstants
<1>13. redone'[Len(redone')].before = timeline'
  BY <1>3, <1>7, <1>8
<1> QED
  BY <1>2, <1>4, <1>6, <1>7, <1>8, <1>9, <1>10, <1>11, <1>12, <1>13 DEF OneLine

\* redo() goes one state forward again.
LEMMA RedoKeepsLine ==
    ASSUME OneLine(timeline, undone, redone, past), Undo!Redo
    PROVE  OneLine(timeline', undone', redone', past')
<1>1. /\ past \in Seq(TimelineStates) /\ undone \in Seq(UndoCommands)
      /\ redone \in Seq(UndoCommands)
      /\ \A n \in 1..Len(undone) : undone[n].before = past[n] /\ undone[n].after = past[n + 1]
      /\ \A n \in 2..Len(redone) : redone[n].after = redone[n - 1].before
      /\ Len(redone) > 0 => redone[Len(redone)].before = timeline
  BY DEF OneLine
<1>2. /\ Undo!Front(redone) \in Seq(UndoCommands) /\ Len(Undo!Front(redone)) = Len(redone) - 1
      /\ Len(redone) \in Nat \ {0} /\ Undo!Last(redone) = redone[Len(redone)]
      /\ redone[Len(redone)] \in UndoCommands
      /\ \A n \in 1 .. Len(redone) - 1 : Undo!Front(redone)[n] = redone[n]
  BY FrontOfSequence DEF OneLine, Undo!Redo
<1>3. Len(undone) \in Nat /\ Len(past) = Len(undone) + 1
  BY LenProperties DEF OneLine
<1>4. PICK top \in UndoCommands : top = redone[Len(redone)] /\ top = Undo!Last(redone)
  BY <1>2
<1>5. top.after \in TimelineStates /\ top.before = timeline
  BY <1>2, <1>4 DEF OneLine, UndoCommands
<1>6. /\ undone' = Append(undone, top) /\ redone' = Undo!Front(redone)
      /\ timeline' = top.after /\ past' = Append(past, top.after)
  BY <1>4 DEF Undo!Redo
<1>7. /\ undone' \in Seq(UndoCommands) /\ Len(undone') = Len(undone) + 1
      /\ undone'[Len(undone) + 1] = top
      /\ \A n \in 1..Len(undone) : undone'[n] = undone[n]
  BY <1>6, AppendProperties DEF OneLine
<1>8. /\ past' \in Seq(TimelineStates) /\ Len(past') = Len(past) + 1
      /\ past'[Len(past) + 1] = top.after
      /\ \A n \in 1..Len(past) : past'[n] = past[n]
  BY <1>5, <1>6, AppendProperties DEF OneLine
<1>9. Len(past') = Len(undone') + 1 /\ past'[Len(undone') + 1] = timeline'
  BY <1>3, <1>6, <1>7, <1>8
<1>10. ASSUME NEW n \in 1..Len(undone')
      PROVE  undone'[n].before = past'[n] /\ undone'[n].after = past'[n + 1]
  <2>1. CASE n <= Len(undone)
    <3>1. n \in 1..Len(undone) /\ n \in 1..Len(past) /\ n + 1 \in 1..Len(past)
      BY <1>3, <1>7, <2>1
    <3> QED
      BY <1>1, <1>7, <1>8, <3>1
  <2>2. CASE n = Len(undone) + 1
    BY <1>3, <1>5, <1>7, <1>8, <2>2 DEF OneLine
  <2> QED
    BY <1>3, <1>7, <2>1, <2>2
<1>11. \A n \in 2..Len(redone') : redone'[n].after = redone'[n - 1].before
  BY <1>2, <1>6 DEF OneLine
<1>12. Len(redone') > 0 => redone'[Len(redone')].before = timeline'
  BY <1>2, <1>4, <1>6 DEF OneLine
<1>13. Len(undone') + Len(redone') <= MaxLevels
  BY <1>2, <1>3, <1>6, <1>7, StudioConstants DEF OneLine, Undo!UndoConstants
<1> QED
  BY <1>2, <1>5, <1>6, <1>7, <1>8, <1>9, <1>10, <1>11, <1>12, <1>13 DEF OneLine
\* Sequence t is s and then e, without the first ones of s.
Shifted(S, s, e, t, cut) ==
    /\ t \in Seq(S) /\ Len(t) = Len(s) + 1 - cut
    /\ t[Len(t)] = e
    /\ \A n \in 1 .. Len(s) - cut : t[n] = s[n + cut]

\* The oldest of a sequence gives way when there are too many.
LEMMA BoundedSequence ==
    ASSUME NEW S, NEW s \in Seq(S), NEW e \in S, NEW bound \in Nat \ {0}, Len(s) <= bound,
           NEW t, t = Undo!Bounded(Append(s, e), bound),
           NEW cut, cut = IF Len(s) = bound THEN 1 ELSE 0
    PROVE  Shifted(S, s, e, t, cut)
<1> DEFINE a == Append(s, e)
<1>1. /\ a \in Seq(S) /\ Len(a) = Len(s) + 1 /\ a # <<>> /\ Len(s) \in Nat
      /\ a[Len(s) + 1] = e
      /\ \A n \in 1..Len(s) : a[n] = s[n]
  BY AppendProperties, LenProperties
<1> HIDE DEF a
<1>2. CASE Len(s) = bound
  <2>1. Undo!Bounded(a, bound) = Tail(a)
    BY <1>1, <1>2 DEF Undo!Bounded
  <2>2. /\ Tail(a) \in Seq(S) /\ Len(Tail(a)) = Len(s)
        /\ \A n \in 1..Len(s) : Tail(a)[n] = a[n + 1]
    <3>1. /\ Tail(a) \in Seq(S) /\ Len(Tail(a)) = Len(a) - 1
          /\ \A n \in 1..Len(Tail(a)) : Tail(a)[n] = a[n + 1]
      BY <1>1, HeadTailProperties
    <3>2. Len(a) - 1 = Len(s)
      BY <1>1
    <3> QED
      BY <3>1, <3>2
  <2>3. Tail(a)[Len(s)] = e
    BY <1>1, <1>2, <2>2
  <2>4. \A n \in 1 .. Len(s) - 1 : Tail(a)[n] = s[n + 1]
    BY <1>1, <2>2
  <2> QED
    BY <1>1, <1>2, <2>1, <2>2, <2>3, <2>4 DEF a, Shifted
<1>3. CASE Len(s) # bound
  <2>1. Undo!Bounded(a, bound) = a
    BY <1>1, <1>3 DEF Undo!Bounded
  <2> QED
    BY <1>1, <1>3, <2>1 DEF a, Shifted
<1> QED
  BY <1>2, <1>3

\* A command that is executed ends the states that undo() took back.
LEMMA ExecuteKeepsLine ==
    ASSUME OneLine(timeline, undone, redone, past), NEW state \in TimelineStates,
           Undo!Execute(state)
    PROVE  OneLine(timeline', undone', redone', past')
<1>1. /\ past \in Seq(TimelineStates) /\ undone \in Seq(UndoCommands) /\ timeline \in TimelineStates
      /\ \A n \in 1..Len(undone) : undone[n].before = past[n] /\ undone[n].after = past[n + 1]
      /\ past[Len(undone) + 1] = timeline
  BY DEF OneLine
<1>2. /\ Len(undone) \in Nat /\ Len(past) = Len(undone) + 1 /\ Len(undone) <= MaxLevels
      /\ MaxLevels \in Nat \ {0}
  BY LenProperties, StudioConstants DEF OneLine, Undo!UndoConstants
<1>3. PICK new : new = [before |-> timeline, after |-> state]
  OBVIOUS
<1>4. new \in UndoCommands /\ new.before = timeline /\ new.after = state
  BY <1>1, <1>3 DEF UndoCommands
<1>5. PICK cut \in {0, 1} : cut = IF Len(undone) = MaxLevels THEN 1 ELSE 0
  OBVIOUS
<1>6. /\ undone' \in Seq(UndoCommands) /\ Len(undone') = Len(undone) + 1 - cut
      /\ undone'[Len(undone')] = new
      /\ \A n \in 1 .. Len(undone) - cut : undone'[n] = undone[n + cut]
  <2>1. undone' = Undo!Bounded(Append(undone, new), MaxLevels)
    BY <1>3 DEF Undo!Execute
  <2>2. Shifted(UndoCommands, undone, new, undone', cut)
    BY <1>1, <1>2, <1>5, <1>4, <2>1, BoundedSequence
  <2> QED
    BY <2>2 DEF Shifted
<1>7. /\ past' \in Seq(TimelineStates) /\ Len(past') = Len(past) + 1 - cut
      /\ past'[Len(past')] = state
      /\ \A n \in 1 .. Len(past) - cut : past'[n] = past[n + cut]
  <2>1. past' = Undo!Bounded(Append(past, state), MaxLevels + 1)
    BY DEF Undo!Execute
  <2>2. MaxLevels + 1 \in Nat \ {0} /\ Len(past) <= MaxLevels + 1
        /\ cut = IF Len(past) = MaxLevels + 1 THEN 1 ELSE 0
    BY <1>2, <1>5
  <2>3. Shifted(TimelineStates, past, state, past', cut)
    BY <1>1, <2>1, <2>2, BoundedSequence
  <2> QED
    BY <2>3 DEF Shifted
<1>8. redone' = <<>> /\ redone' \in Seq(UndoCommands) /\ Len(redone') = 0 /\ timeline' = state
  BY EmptySeq DEF Undo!Execute
<1>9. Len(past') = Len(undone') + 1 /\ past'[Len(undone') + 1] = timeline'
  BY <1>2, <1>5, <1>6, <1>7, <1>8
<1>10. ASSUME NEW n \in 1..Len(undone')
      PROVE  undone'[n].before = past'[n] /\ undone'[n].after = past'[n + 1]
  <2>1. CASE n < Len(undone')
    <3>1. /\ n \in 1 .. Len(undone) - cut /\ n + cut \in 1..Len(undone)
          /\ n \in 1 .. Len(past) - cut /\ n + 1 \in 1 .. Len(past) - cut
          /\ n + 1 + cut = n + cut + 1
      BY <1>2, <1>5, <1>6, <2>1
    <3>2. past'[n] = past[n + cut] /\ past'[n + 1] = past[n + cut + 1]
      BY <1>7, <3>1
    <3> QED
      BY <1>1, <1>6, <3>1, <3>2
  <2>2. CASE n = Len(undone')
    <3>1. /\ n \in 1 .. Len(past) - cut /\ n + cut = Len(undone) + 1 /\ n + 1 = Len(past')
      BY <1>2, <1>5, <1>6, <1>7, <2>2
    <3>2. past'[n] = timeline /\ past'[n + 1] = state
      BY <1>1, <1>7, <3>1
    <3> QED
      BY <1>4, <1>6, <2>2, <3>2
  <2> QED
    BY <1>2, <1>5, <1>6, <2>1, <2>2
<1>11. Len(undone') + Len(redone') <= MaxLevels
  BY <1>2, <1>5, <1>6, <1>8
<1> QED
  BY <1>6, <1>7, <1>8, <1>9, <1>10, <1>11 DEF OneLine

\* A step of the studio is one of the undo history, or leaves it alone.
LEMMA UndoRun ==
    /\ StudioInit => UndoInvariant
    /\ UndoInvariant /\ [StudioNext]_studioVars => UndoInvariant'
<1>1. ASSUME StudioInit, service = "undo" PROVE OneLine(timeline, undone, redone, past)
  <2>1. timeline \in TimelineStates /\ undone = <<>> /\ redone = <<>> /\ past = <<timeline>>
    BY <1>1 DEF StudioInit, Undo!Init
  <2>2. undone \in Seq(UndoCommands) /\ Len(undone) = 0 /\ redone \in Seq(UndoCommands)
        /\ Len(redone) = 0
    BY <2>1, EmptySeq
  <2>3. past \in Seq(TimelineStates) /\ Len(past) = 1 /\ past[1] = timeline
    BY <2>1
  <2> QED
    BY <2>1, <2>2, <2>3, StudioConstants DEF OneLine, Undo!UndoConstants
<1>2. ASSUME UndoInvariant, [StudioNext]_studioVars, service' = "undo"
      PROVE  OneLine(timeline', undone', redone', past')
  <2>1. service = "undo" /\ OneLine(timeline, undone, redone, past)
    BY <1>2 DEF UndoInvariant, StudioNext, studioVars
  <2>2. Undo!Next \/ UNCHANGED undoVars
    BY <1>2, <2>1 DEF StudioNext, studioVars, undoVars
  <2>3. CASE Undo!Clear
    <3>1. timeline' = timeline /\ undone' = <<>> /\ redone' = <<>> /\ past' = <<timeline>>
          /\ timeline \in TimelineStates
      BY <2>1, <2>3 DEF Undo!Clear, OneLine
    <3>2. undone' \in Seq(UndoCommands) /\ Len(undone') = 0 /\ redone' \in Seq(UndoCommands)
          /\ Len(redone') = 0
      BY <3>1, EmptySeq
    <3>3. past' \in Seq(TimelineStates) /\ Len(past') = 1 /\ past'[1] = timeline
      BY <3>1
    <3> QED
      BY <3>1, <3>2, <3>3, StudioConstants DEF OneLine, Undo!UndoConstants
  <2>4. CASE UNCHANGED undoVars
    BY <2>1, <2>4 DEF undoVars
  <2> QED
    BY <2>1, <2>2, <2>3, <2>4, UndoKeepsLine, RedoKeepsLine, ExecuteKeepsLine DEF Undo!Next
<1> QED
  BY <1>1, <1>2 DEF UndoInvariant

\* undo_redo.py: the property, from the invariant.
LEMMA HistoryLine ==
    ASSUME OneLine(timeline, undone, redone, past) PROVE Undo!HistoryIsALine
<1>1. /\ Len(undone) \in Nat /\ DOMAIN undone = 1..Len(undone) /\ Len(redone) \in Nat
      /\ \A n \in 1..Len(undone) : undone[n] \in UndoCommands
  BY LenProperties, ElementOfSeq DEF OneLine
<1>2. \A n \in DOMAIN undone : undone[n] = [before |-> past[n], after |-> past[n + 1]]
  BY <1>1 DEF OneLine, UndoCommands
<1>3. redone # <<>> => Len(redone) > 0
  BY EmptySeq, <1>1 DEF OneLine
<1> QED
  BY <1>1, <1>2, <1>3 DEF OneLine, Undo!HistoryIsALine, Undo!Last

\* take_manager.py, catalog.py, undo_redo.py: for any number of takes, projects
\* and levels, what the user chose is what is there: one take to render, the
\* pin last asked for and one project to a path, and a history that undo()
\* takes back along the states of the timeline.
THEOREM ChoicesHold == StudioSpec => []ChoicesAreKept
<1> DEFINE Inv == TakesInvariant /\ CatalogInvariant /\ UndoInvariant
<1>1. StudioInit => Inv
  BY TakesRun, TakesStep, CatalogRun, CatalogStep, UndoRun
<1>2. Inv /\ [StudioNext]_studioVars => Inv'
  BY TakesRun, TakesStep, CatalogRun, CatalogStep, UndoRun
<1>3. Inv => ChoicesAreKept
  BY QueueHasItsTake, PinsKept, HistoryLine DEF ChoicesAreKept, UndoInvariant
<1> QED
  BY <1>1, <1>2, <1>3, PTL DEF StudioSpec

-----------------------------------------------------------------------------
(***************************************************************************)
(* Several editors of one transcript: no edit is lost, who edits saw what  *)
(* the edit went on, the audit rows are complete, and the store implements *)
(* one linear history.                                                     *)
(***************************************************************************)

\* What is looked at was a revision of the store: it is the stored one as
\* long as the numbers agree.
ViewsAreRevisions ==
    \A e \in Editors : view[e].present =>
        /\ snapshot.present
        /\ view[e].revision <= snapshot.revision
        /\ view[e].revision = snapshot.revision => view[e].content = snapshot.content

\* What waits for its commit goes one edit beyond what its editor looked at,
\* which is the stored transcript as long as the expected revision is stored.
LoadedGoesOneBeyond ==
    \A e \in Editors : pc[e] = "loaded" =>
        /\ snapshot.present
        /\ result[e].expected <= snapshot.revision
        /\ result[e].new = result[e].expected + 1
        /\ result[e].content = result[e].seen \cup {result[e].edit}
        /\ result[e].edit \notin result[e].seen
        /\ result[e].expected = snapshot.revision => result[e].seen = snapshot.content

\* Before its creation a transcript has no revision.
NothingBeforeCreation == ~snapshot.present => snapshot.revision = 0

\* The inductive invariant: the properties, and what the editors hold.
StoreInvariant ==
    /\ TypeOK
    /\ HistoryIsComplete
    /\ NoLostEdit
    /\ EditorsSawWhatTheyReplaced
    /\ NothingBeforeCreation
    /\ ViewsAreRevisions
    /\ LoadedGoesOneBeyond

-----------------------------------------------------------------------------

\* A result is a record of its own kind, never the placeholder.
LEMMA LoadedResult ==
    ASSUME TypeOK, NEW e \in Editors, pc[e] = "loaded"
    PROVE  result[e] \in Result
BY DEF TypeOK

\* A transcript of revision 0 has no mutation and no edit.
LEMMA EmptyAtFirst ==
    ASSUME TypeOK, HistoryIsComplete, NoLostEdit, snapshot.revision = 0
    PROVE  mutations = {} /\ snapshot.content = {}
<1>1. mutations = {}
  <2>1. SUFFICES ASSUME NEW m \in mutations PROVE FALSE
    OBVIOUS
  <2>2. m.revision \in 1 .. 0
    BY DEF HistoryIsComplete
  <2>3. QED BY <2>2
<1>2. QED BY <1>1 DEF NoLostEdit

\* Nothing is stored and nobody edits in the beginning.
LEMMA InitEstablishes == Init => StoreInvariant
<1>1. SUFFICES ASSUME Init PROVE StoreInvariant
  OBVIOUS
<1>2. TypeOK
  BY <1>1, StoreConstants DEF Init, TypeOK, Absent, Snapshot, MutationRow
<1>3. HistoryIsComplete /\ NoLostEdit /\ EditorsSawWhatTheyReplaced
  BY <1>1 DEF Init, Absent, HistoryIsComplete, NoLostEdit, EditorsSawWhatTheyReplaced
<1>4. NothingBeforeCreation /\ ViewsAreRevisions /\ LoadedGoesOneBeyond
  BY <1>1 DEF Init, Absent, NothingBeforeCreation, ViewsAreRevisions, LoadedGoesOneBeyond
<1>5. QED BY <1>2, <1>3, <1>4 DEF StoreInvariant

-----------------------------------------------------------------------------
(* Each action keeps the invariant.                                        *)

\* The first transcript is revision one of nobody's edits.
LEMMA CreateKeeps ==
    ASSUME StoreInvariant, NEW e \in Editors, Create(e)
    PROVE  StoreInvariant'
<1> USE DEF StoreInvariant
<1>1. snapshot.revision = 0 /\ snapshot.content = {} /\ mutations = {}
  BY EmptyAtFirst DEF Create, NothingBeforeCreation
<1>2. snapshot' = [revision |-> 0, content |-> {}, present |-> TRUE]
  BY DEF Create, Absent
<1>3. TypeOK'
  <2>1. snapshot' \in Snapshot
    BY <1>2, StoreConstants DEF Snapshot
  <2>2. QED BY <2>1 DEF Create, TypeOK
<1>4. HistoryIsComplete' /\ NoLostEdit' /\ EditorsSawWhatTheyReplaced'
  BY <1>1, <1>2 DEF Create, HistoryIsComplete, NoLostEdit, EditorsSawWhatTheyReplaced
<1>5. NothingBeforeCreation' /\ ViewsAreRevisions' /\ LoadedGoesOneBeyond'
  BY <1>2 DEF Create, NothingBeforeCreation, ViewsAreRevisions, LoadedGoesOneBeyond
<1>6. QED BY <1>3, <1>4, <1>5

\* An editor that looks sees the revision that is stored.
LEMMA LookKeeps ==
    ASSUME StoreInvariant, NEW e \in Editors, Look(e)
    PROVE  StoreInvariant'
<1> USE DEF StoreInvariant
<1>1. TypeOK'
  BY DEF Look, TypeOK
<1>2. HistoryIsComplete' /\ NoLostEdit' /\ EditorsSawWhatTheyReplaced'
  BY DEF Look, HistoryIsComplete, NoLostEdit, EditorsSawWhatTheyReplaced
<1>3. ViewsAreRevisions'
  <2>1. \A f \in Editors : view'[f] = IF f = e THEN snapshot ELSE view[f]
    BY DEF Look, TypeOK
  <2>2. snapshot.revision \in Nat
    BY StoreConstants DEF TypeOK, Snapshot
  <2>3. QED BY <2>1, <2>2 DEF Look, ViewsAreRevisions
<1>4. NothingBeforeCreation' /\ LoadedGoesOneBeyond'
  BY DEF Look, NothingBeforeCreation, LoadedGoesOneBeyond
<1>5. QED BY <1>1, <1>2, <1>3, <1>4

\* A command makes one revision more, in memory only.
LEMMA ApplyKeeps ==
    ASSUME StoreInvariant, NEW e \in Editors, NEW d \in Edits, Apply(e, d)
    PROVE  StoreInvariant'
<1> USE DEF StoreInvariant
<1> DEFINE applied == [edit |-> d, content |-> snapshot.content \cup {d},
                       expected |-> snapshot.revision, new |-> snapshot.revision + 1,
                       seen |-> view[e].content]
<1>1. snapshot.revision \in 0 .. MaxRevision /\ snapshot.revision < MaxRevision
      /\ snapshot.content \in SUBSET Edits
  BY DEF Apply, TypeOK, Snapshot
<1>2. view[e].content = snapshot.content /\ snapshot.present
  BY DEF Apply, ViewsAreRevisions
<1>3. applied \in Result
  BY <1>1, <1>2, StoreConstants DEF Result
<1>4. /\ \A f \in Editors : result'[f] = IF f = e THEN applied ELSE result[f]
      /\ \A f \in Editors : pc'[f] = IF f = e THEN "loaded" ELSE pc[f]
      /\ UNCHANGED <<snapshot, mutations, view>>
  BY DEF Apply, TypeOK
<1>5. TypeOK'
  <2>1. pc' \in [Editors -> {"idle", "loaded"}] /\ DOMAIN result' = Editors
    BY DEF Apply, TypeOK
  <2>2. \A f \in Editors :
           result'[f] \in IF pc'[f] = "idle" THEN {NoResult} ELSE Result
    BY <1>3, <1>4 DEF TypeOK
  <2>3. QED BY <1>4, <2>1, <2>2 DEF TypeOK
<1>6. HistoryIsComplete' /\ NoLostEdit' /\ EditorsSawWhatTheyReplaced'
  BY <1>4 DEF HistoryIsComplete, NoLostEdit, EditorsSawWhatTheyReplaced
<1>7. NothingBeforeCreation' /\ ViewsAreRevisions'
  BY <1>4 DEF NothingBeforeCreation, ViewsAreRevisions
<1>8. LoadedGoesOneBeyond'
  <2>1. d \notin snapshot.content
    BY DEF Apply
  <2>2. QED BY <1>1, <1>2, <1>4, <2>1 DEF LoadedGoesOneBeyond
<1>9. QED BY <1>5, <1>6, <1>7, <1>8

\* A commit that is refused changes nothing that is stored.
LEMMA CommitFailsKeeps ==
    ASSUME StoreInvariant, NEW e \in Editors, CommitFails(e)
    PROVE  StoreInvariant'
<1> USE DEF StoreInvariant
<1>1. /\ \A f \in Editors : result'[f] = IF f = e THEN NoResult ELSE result[f]
      /\ \A f \in Editors : pc'[f] = IF f = e THEN "idle" ELSE pc[f]
      /\ UNCHANGED <<snapshot, mutations, view>>
  BY DEF CommitFails, TypeOK
<1>2. TypeOK'
  <2>1. pc' \in [Editors -> {"idle", "loaded"}] /\ DOMAIN result' = Editors
    BY DEF CommitFails, TypeOK
  <2>2. \A f \in Editors :
           result'[f] \in IF pc'[f] = "idle" THEN {NoResult} ELSE Result
    BY <1>1 DEF TypeOK
  <2>3. QED BY <1>1, <2>1, <2>2 DEF TypeOK
<1>3. HistoryIsComplete' /\ NoLostEdit' /\ EditorsSawWhatTheyReplaced'
  BY <1>1 DEF HistoryIsComplete, NoLostEdit, EditorsSawWhatTheyReplaced
<1>4. NothingBeforeCreation' /\ ViewsAreRevisions' /\ LoadedGoesOneBeyond'
  BY <1>1 DEF NothingBeforeCreation, ViewsAreRevisions, LoadedGoesOneBeyond
<1>5. QED BY <1>2, <1>3, <1>4

-----------------------------------------------------------------------------

\* What a commit does, said once: the next revision is the stored one with
\* one edit more, and its row is new.
CommitsOneBeyond(e) ==
    /\ snapshot' = [revision |-> snapshot.revision + 1,
                    content |-> snapshot.content \cup {result[e].edit},
                    present |-> TRUE]
    /\ mutations' = mutations \cup {Mutation(result[e])}
    /\ Mutation(result[e]) \in MutationRow
    /\ Mutation(result[e]).revision = snapshot.revision + 1
    /\ Mutation(result[e]).digest = snapshot.content \cup {result[e].edit}
    /\ Mutation(result[e]).edit = result[e].edit
    /\ Mutation(result[e]).seen = snapshot.content
    /\ result[e].edit \in Edits \ snapshot.content

\* A commit that goes through is of the revision that is stored.
LEMMA CommitEffect ==
    ASSUME StoreInvariant, NEW e \in Editors, Commit(e)
    PROVE  CommitsOneBeyond(e)
<1> USE DEF StoreInvariant
<1>1. pc[e] = "loaded" /\ snapshot.revision = result[e].expected /\ snapshot.present
  BY DEF Commit
<1>2. result[e] \in Result
  BY <1>1, LoadedResult
<1>3. /\ result[e].new = snapshot.revision + 1
      /\ result[e].seen = snapshot.content
      /\ result[e].content = snapshot.content \cup {result[e].edit}
      /\ result[e].edit \notin snapshot.content
  BY <1>1 DEF LoadedGoesOneBeyond
<1>4. snapshot' = [revision |-> snapshot.revision + 1,
                   content |-> snapshot.content \cup {result[e].edit},
                   present |-> TRUE]
  BY <1>1, <1>3 DEF Commit, TypeOK, Snapshot
<1>5. Mutation(result[e]) \in MutationRow
  BY <1>2 DEF Mutation, MutationRow, Result
<1>6. QED
  BY <1>2, <1>3, <1>4, <1>5 DEF Commit, CommitsOneBeyond, Mutation, Result

\* A commit that goes through keeps the history complete.
LEMMA CommitKeepsStore ==
    ASSUME StoreInvariant, NEW e \in Editors, Commit(e)
    PROVE  StoreInvariant'
<1> USE DEF StoreInvariant
<1> DEFINE new == Mutation(result[e])
<1>1. CommitsOneBeyond(e)
  BY CommitEffect
<1>2. snapshot.revision \in Nat
  BY StoreConstants DEF TypeOK, Snapshot
<1>3. /\ \A f \in Editors : result'[f] = IF f = e THEN NoResult ELSE result[f]
      /\ \A f \in Editors : pc'[f] = IF f = e THEN "idle" ELSE pc[f]
      /\ view' = view
  BY DEF Commit, TypeOK
<1>4. TypeOK'
  <2>1. pc' \in [Editors -> {"idle", "loaded"}] /\ DOMAIN result' = Editors
    BY DEF Commit, TypeOK
  <2>2. \A f \in Editors :
           result'[f] \in IF pc'[f] = "idle" THEN {NoResult} ELSE Result
    BY <1>3 DEF TypeOK
  <2>3. snapshot.revision + 1 \in 1 .. MaxRevision
    BY <1>1 DEF CommitsOneBeyond, MutationRow
  <2>4. snapshot' \in Snapshot
    BY <1>1, <2>3, StoreConstants DEF CommitsOneBeyond, TypeOK, Snapshot
  <2>5. mutations' \subseteq MutationRow
    BY <1>1 DEF CommitsOneBeyond, TypeOK
  <2>6. QED BY <1>3, <2>1, <2>2, <2>4, <2>5 DEF TypeOK
<1>5. HistoryIsComplete'
  <2>1. \A m \in mutations : m.revision \in 1 .. snapshot.revision
    BY DEF HistoryIsComplete
  <2>2. {m.revision : m \in mutations'} = 1 .. snapshot'.revision
    <3>1. {m.revision : m \in mutations'} =
             {m.revision : m \in mutations} \cup {snapshot.revision + 1}
      BY <1>1 DEF CommitsOneBeyond
    <3>2. snapshot'.revision = snapshot.revision + 1
      BY <1>1 DEF CommitsOneBeyond
    <3>3. 1 .. (snapshot.revision + 1) =
             (1 .. snapshot.revision) \cup {snapshot.revision + 1}
      BY <1>2
    <3>4. QED BY <3>1, <3>2, <3>3 DEF HistoryIsComplete
  <2>3. \A m, n \in mutations' : m.revision = n.revision => m = n
    BY <1>1, <1>2, <2>1 DEF CommitsOneBeyond, HistoryIsComplete
  <2>4. \A m \in mutations' :
           m.revision = snapshot'.revision => m.digest = snapshot'.content
    BY <1>1, <1>2, <2>1 DEF CommitsOneBeyond
  <2>5. QED BY <2>2, <2>3, <2>4 DEF HistoryIsComplete
<1>6. NoLostEdit'
  <2>1. {m.edit : m \in mutations'} = {m.edit : m \in mutations} \cup {result[e].edit}
    BY <1>1 DEF CommitsOneBeyond
  <2>2. QED BY <1>1, <2>1 DEF CommitsOneBeyond, NoLostEdit
<1>7. EditorsSawWhatTheyReplaced'
  BY <1>1 DEF CommitsOneBeyond, EditorsSawWhatTheyReplaced
<1>8. NothingBeforeCreation'
  BY <1>1 DEF CommitsOneBeyond, NothingBeforeCreation
<1>9. ViewsAreRevisions'
  <2>1. \A f \in Editors : view[f].revision \in Nat
    BY StoreConstants DEF TypeOK, Snapshot
  <2>2. QED BY <1>1, <1>2, <1>3, <2>1 DEF CommitsOneBeyond, ViewsAreRevisions
<1>10. LoadedGoesOneBeyond'
  <2>1. SUFFICES ASSUME NEW f \in Editors, pc'[f] = "loaded"
                 PROVE  /\ snapshot'.present
                        /\ result'[f].expected <= snapshot'.revision
                        /\ result'[f].new = result'[f].expected + 1
                        /\ result'[f].content = result'[f].seen \cup {result'[f].edit}
                        /\ result'[f].edit \notin result'[f].seen
                        /\ result'[f].expected = snapshot'.revision
                              => result'[f].seen = snapshot'.content
    BY DEF LoadedGoesOneBeyond
  <2>2. f # e /\ pc[f] = "loaded" /\ result'[f] = result[f]
    BY <1>3, <2>1
  <2>3. result[f].expected \in Nat
    BY <2>2, LoadedResult, StoreConstants DEF Result
  <2>4. QED BY <1>1, <1>2, <2>2, <2>3 DEF CommitsOneBeyond, LoadedGoesOneBeyond
<1>11. QED BY <1>4, <1>5, <1>6, <1>7, <1>8, <1>9, <1>10

\* Every step keeps the invariant.
LEMMA StepKeeps == StoreInvariant /\ [Next]_vars => StoreInvariant'
<1>1. SUFFICES ASSUME StoreInvariant, [Next]_vars PROVE StoreInvariant'
  OBVIOUS
<1>2. CASE UNCHANGED vars
  BY <1>1, <1>2 DEF vars, StoreInvariant, TypeOK, HistoryIsComplete, NoLostEdit,
     EditorsSawWhatTheyReplaced, NothingBeforeCreation, ViewsAreRevisions,
     LoadedGoesOneBeyond
<1>3. CASE Next
  <2>1. PICK e \in Editors : \/ Create(e) \/ Look(e)
                             \/ \E d \in Edits : Apply(e, d)
                             \/ Commit(e) \/ CommitFails(e)
    BY <1>3 DEF Next
  <2>2. CASE Create(e) BY <1>1, <2>2, CreateKeeps
  <2>3. CASE Look(e) BY <1>1, <2>3, LookKeeps
  <2>4. CASE \E d \in Edits : Apply(e, d) BY <1>1, <2>4, ApplyKeeps
  <2>5. CASE Commit(e) BY <1>1, <2>5, CommitKeepsStore
  <2>6. CASE CommitFails(e) BY <1>1, <2>6, CommitFailsKeeps
  <2>7. QED BY <2>1, <2>2, <2>3, <2>4, <2>5, <2>6
<1>4. QED BY <1>1, <1>2, <1>3

\* So it holds in every state.
LEMMA InvariantHolds == Spec => []StoreInvariant
<1>1. QED BY InitEstablishes, StepKeeps, PTL DEF Spec

-----------------------------------------------------------------------------

\* The store, the rows and what every editor holds keep their types.
THEOREM StoreTypes == Spec => []TypeOK
<1>1. StoreInvariant => TypeOK
  BY DEF StoreInvariant
<1>2. QED BY <1>1, InvariantHolds, PTL

\* repository.py, commit(): whatever was committed between anybody's load and
\* commit, the stored transcript has every edit that was committed.
THEOREM NoEditIsLost == Spec => []NoLostEdit
<1>1. StoreInvariant => NoLostEdit
  BY DEF StoreInvariant
<1>2. QED BY <1>1, InvariantHolds, PTL

\* ADR-010, conflicts are explicit: a mutation replaced the very transcript
\* that its editor had in view.
THEOREM NobodyEditsUnseen == Spec => []EditorsSawWhatTheyReplaced
<1>1. StoreInvariant => EditorsSawWhatTheyReplaced
  BY DEF StoreInvariant
<1>2. QED BY <1>1, InvariantHolds, PTL

\* ADR-010, every mutation is audited: the rows have no gap and no double,
\* and the last is of the stored transcript.
THEOREM AuditIsComplete == Spec => []HistoryIsComplete
<1>1. StoreInvariant => HistoryIsComplete
  BY DEF StoreInvariant
<1>2. QED BY <1>1, InvariantHolds, PTL

-----------------------------------------------------------------------------
(* The store implements TranscriptHistory: content[n] is the digest of the *)
(* row of revision n.                                                      *)

\* A revision has one row, so its content is that row's digest.
LEMMA ContentOfRow ==
    ASSUME HistoryIsComplete, NEW m \in mutations, m.revision # 0
    PROVE  ContentAt(m.revision) = m.digest
<1>1. (CHOOSE k \in mutations : k.revision = m.revision) = m
  BY DEF HistoryIsComplete
<1>2. QED BY <1>1 DEF ContentAt

\* The content of the stored revision is the stored content.
LEMMA ContentOfStored ==
    ASSUME StoreInvariant
    PROVE  ContentAt(snapshot.revision) = snapshot.content
<1> USE DEF StoreInvariant
<1>1. snapshot.revision \in Nat
  BY StoreConstants DEF TypeOK, Snapshot
<1>2. CASE snapshot.revision = 0
  BY <1>2, EmptyAtFirst DEF ContentAt
<1>3. CASE snapshot.revision # 0
  <2>1. snapshot.revision \in {m.revision : m \in mutations}
    BY <1>1, <1>3 DEF HistoryIsComplete
  <2>2. PICK m \in mutations : m.revision = snapshot.revision
    BY <2>1
  <2>3. m.digest = snapshot.content
    BY <2>2 DEF HistoryIsComplete
  <2>4. QED BY <1>3, <2>2, <2>3, ContentOfRow
<1>4. QED BY <1>2, <1>3

\* A commit leaves the content of every earlier revision as it was.
LEMMA ContentStays ==
    ASSUME StoreInvariant, NEW e \in Editors, Commit(e),
           NEW n \in 0 .. snapshot.revision
    PROVE  ContentAt(n)' = ContentAt(n)
<1> USE DEF StoreInvariant
<1>1. snapshot.revision \in Nat
  BY StoreConstants DEF TypeOK, Snapshot
<1>2. CASE n = 0
  BY <1>2 DEF ContentAt
<1>3. CASE n # 0
  <2>1. n \in {m.revision : m \in mutations}
    BY <1>1, <1>3 DEF HistoryIsComplete
  <2>2. PICK m \in mutations : m.revision = n
    BY <2>1
  <2>3. \A k \in mutations' : k.revision = n <=> k = m
    BY <1>1, <2>2, CommitEffect DEF CommitsOneBeyond, HistoryIsComplete
  <2>4. m \in mutations'
    BY CommitEffect DEF CommitsOneBeyond
  <2>5. (CHOOSE k \in mutations' : k.revision = n) = m
    BY <2>3, <2>4
  <2>6. ContentAt(n)' = m.digest
    BY <1>3, <2>5 DEF ContentAt
  <2>7. QED BY <1>3, <2>2, <2>6, ContentOfRow
<1>4. QED BY <1>2, <1>3

\* The content of the new revision is the stored one with the edit.
LEMMA ContentOfNew ==
    ASSUME StoreInvariant, NEW e \in Editors, Commit(e),
           NEW n, n = snapshot.revision + 1
    PROVE  ContentAt(n)' = snapshot.content \cup {result[e].edit}
<1>1. CommitsOneBeyond(e) /\ StoreInvariant'
  BY CommitEffect, CommitKeepsStore
<1>2. snapshot'.revision = n /\ snapshot'.content = snapshot.content \cup {result[e].edit}
  BY <1>1 DEF CommitsOneBeyond
<1>3. (ContentAt(snapshot.revision) = snapshot.content)'
  BY <1>1, ContentOfStored, PTL
<1>4. QED BY <1>2, <1>3

-----------------------------------------------------------------------------

\* A step that leaves the rows and the stored revision alone is a stutter of
\* the history, whatever editors hold.
LEMMA StuttersOtherwise ==
    ASSUME UNCHANGED <<snapshot, mutations>>
    PROVE  UNCHANGED <<snapshot.present, snapshot.revision,
                       [n \in 0 .. snapshot.revision |-> ContentAt(n)]>>
BY DEF ContentAt

\* Creation is the history's.
LEMMA CreateCreates ==
    ASSUME StoreInvariant, NEW e \in Editors, Create(e)
    PROVE  History!Create
<1>1. ~snapshot.present /\ snapshot.revision = 0
  BY DEF Create, StoreInvariant, NothingBeforeCreation
<1>2. snapshot' = [revision |-> 0, content |-> {}, present |-> TRUE]
  BY DEF Create, Absent
<1>3. mutations' = mutations
  BY DEF Create
<1>4. [n \in 0 .. snapshot.revision |-> ContentAt(n)]'
         = [n \in 0 .. snapshot.revision |-> ContentAt(n)]
  BY <1>1, <1>2, <1>3 DEF ContentAt
<1>5. QED BY <1>1, <1>2, <1>4 DEF History!Create

\* A commit extends the history by its edit.
LEMMA CommitExtends ==
    ASSUME StoreInvariant, NEW e \in Editors, Commit(e)
    PROVE  \E d \in Edits : History!Extend(d)
<1> DEFINE digests == [n \in 0 .. snapshot.revision |-> ContentAt(n)]
<1>1. CommitsOneBeyond(e) /\ snapshot.present
  BY CommitEffect DEF Commit
<1>2. snapshot.revision \in Nat
  BY StoreConstants DEF StoreInvariant, TypeOK, Snapshot
<1>3. digests[snapshot.revision] = snapshot.content
  BY <1>2, ContentOfStored
<1>4. snapshot'.revision = snapshot.revision + 1 /\ snapshot'.present
  BY <1>1 DEF CommitsOneBeyond
<1>5. digests' = [n \in 0 .. snapshot.revision + 1 |->
                    IF n \in 0 .. snapshot.revision THEN digests[n]
                    ELSE digests[snapshot.revision] \cup {result[e].edit}]
  <2>1. ASSUME NEW n \in 0 .. snapshot.revision + 1
        PROVE  ContentAt(n)' = IF n \in 0 .. snapshot.revision THEN digests[n]
                               ELSE digests[snapshot.revision] \cup {result[e].edit}
    <3>1. CASE n \in 0 .. snapshot.revision
      BY <3>1, ContentStays
    <3>2. CASE n \notin 0 .. snapshot.revision
      <4>1. n = snapshot.revision + 1
        BY <1>2, <3>2
      <4>2. ContentAt(n)' = snapshot.content \cup {result[e].edit}
        BY <4>1, ContentOfNew
      <4>3. QED BY <1>3, <3>2, <4>2
    <3>3. QED BY <3>1, <3>2
  <2>2. digests' = [n \in 0 .. snapshot.revision + 1 |-> ContentAt(n)']
    BY <1>4
  <2>3. QED BY <2>1, <2>2
<1>6. result[e].edit \in Edits /\ result[e].edit \notin digests[snapshot.revision]
  BY <1>1, <1>3 DEF CommitsOneBeyond
<1>7. History!Extend(result[e].edit)
  BY <1>1, <1>4, <1>5, <1>6 DEF History!Extend
<1>8. QED BY <1>6, <1>7

\* transcripts.py over repository.py: loads, refusals and lost commits between
\* them, the store is one linear history that grows by one edit at a time.
THEOREM StoreImplementsHistory == Spec => ImplementsHistory
<1> DEFINE abstract == <<snapshot.present, snapshot.revision,
                         [n \in 0 .. snapshot.revision |-> ContentAt(n)]>>
<1>1. Init => History!Init
  BY DEF Init, Absent, History!Init, ContentAt
<1>2. StoreInvariant /\ [Next]_vars => [History!Next]_abstract
  <2>1. SUFFICES ASSUME StoreInvariant, [Next]_vars
                 PROVE  History!Next \/ UNCHANGED abstract
    OBVIOUS
  <2>2. CASE UNCHANGED vars
    BY <2>2, StuttersOtherwise DEF vars
  <2>3. CASE Next
    <3>1. PICK e \in Editors : \/ Create(e) \/ Look(e)
                               \/ \E d \in Edits : Apply(e, d)
                               \/ Commit(e) \/ CommitFails(e)
      BY <2>3 DEF Next
    <3>2. CASE Create(e)
      BY <2>1, <3>2, CreateCreates DEF History!Next
    <3>3. CASE Look(e) \/ (\E d \in Edits : Apply(e, d)) \/ CommitFails(e)
      BY <3>3, StuttersOtherwise DEF Look, Apply, CommitFails
    <3>4. CASE Commit(e)
      BY <2>1, <3>4, CommitExtends DEF History!Next
    <3>5. QED BY <3>1, <3>2, <3>3, <3>4
  <2>4. QED BY <2>1, <2>2, <2>3
<1>3. QED
  BY <1>1, <1>2, InvariantHolds, PTL DEF Spec, ImplementsHistory, History!Spec

-----------------------------------------------------------------------------
(***************************************************************************)
(* The transcript commands, for any lines, texts, lock sets and recognizer *)
(* proposals: what an approval, a field lock and the invalidation roots    *)
(* are worth.  A command rewrites a line in place, puts two lines for one, *)
(* or one for two; each property is proved once for these three shapes.    *)
(***************************************************************************)

(* The inductive invariant, and the shapes.                                *)

\* The lines are typed, and an identifier belongs to one of them.
CommandsInvariant == lines \in Seq(Commands!Line) /\ Commands!ValidLines(lines)

\* What a command may make of a line: its locked fields stay.
KeepsLocked(old, new) ==
    /\ "source_text" \in old.locks => new.text = old.text
    /\ "source_timing" \in old.locks => new.source = old.source /\ new.words = old.words
    /\ "edit_timing" \in old.locks => new.edit = old.edit
    /\ "speaker" \in old.locks => new.speaker = old.speaker
    /\ "character" \in old.locks => new.character = old.character

\* What a command may make of a line that it leaves in its place.
KeepsApproval(old, new) ==
    new.status = "approved" =>
        /\ Commands!Content(new) = Commands!Content(old)
        /\ old.status \in {"review", "approved"}
        /\ fact'.automated => new = old

\* Line i is rewritten in place.
Rewrites(i) ==
    /\ DOMAIN lines' = DOMAIN lines
    /\ \A j \in DOMAIN lines : j # i => lines'[j] = lines[j]
    /\ lines'[i].id = lines[i].id
    /\ fact'.affected = {lines[i].id}
    /\ KeepsLocked(lines[i], lines'[i])
    /\ KeepsApproval(lines[i], lines'[i])
    /\ Commands!Content(lines'[i]) = Commands!Content(lines[i]) \/ fact'.roots = {lines[i].id}

\* Two new lines take the place of line i.
Splits(i) ==
    /\ DOMAIN lines' = 1..Len(lines) + 1
    /\ \A j \in 1..i - 1 : lines'[j] = lines[j]
    /\ \A j \in i + 2 .. Len(lines) + 1 : lines'[j] = lines[j - 1]
    /\ lines'[i].id # lines'[i + 1].id
    /\ \A k \in {i, i + 1} :
        /\ \A j \in DOMAIN lines : lines[j].id # lines'[k].id
        /\ KeepsLocked(lines[i], lines'[k])
    /\ fact'.affected = {lines[i].id, lines'[i].id, lines'[i + 1].id}
    /\ fact'.roots = fact'.affected

\* A new line takes the place of lines i and i + 1.
Merges(i) ==
    /\ i + 1 \in DOMAIN lines
    /\ DOMAIN lines' = 1..Len(lines) - 1
    /\ \A j \in 1..i - 1 : lines'[j] = lines[j]
    /\ \A j \in i + 1 .. Len(lines) - 1 : lines'[j] = lines[j + 1]
    /\ \A j \in DOMAIN lines : lines[j].id # lines'[i].id
    /\ KeepsLocked(lines[i], lines'[i]) /\ KeepsLocked(lines[i + 1], lines'[i])
    /\ fact'.affected = {lines[i].id, lines[i + 1].id, lines'[i].id}
    /\ fact'.roots = fact'.affected

-----------------------------------------------------------------------------
(* Every command has one of the shapes.                                    *)

\* An accepted command leaves valid lines.
LEMMA FinishLeaves ==
    ASSUME NEW op, NEW ls, NEW affected, NEW st, NEW automated,
           Commands!Finish(op, ls, affected, st, automated)
    PROVE  /\ lines' = ls /\ Commands!ValidLines(ls)
           /\ fact'.affected = affected /\ fact'.automated = automated
           /\ fact'.roots = IF st = None THEN {} ELSE affected
BY DEF Commands!Finish

\* A command that replaces a line by one of the same identifier.
LEMMA ReplacedRewrites ==
    ASSUME CommandsInvariant, NEW i \in DOMAIN lines, NEW new \in Commands!Line,
           NEW op, NEW st, NEW automated,
           Commands!Finish(op, Commands!Replaced(i, new), {lines[i].id}, st, automated),
           new.id = lines[i].id,
           KeepsLocked(lines[i], new),
           new.status = "approved" =>
             /\ Commands!Content(new) = Commands!Content(lines[i])
             /\ lines[i].status \in {"review", "approved"}
             /\ ~automated,
           Commands!Content(new) = Commands!Content(lines[i]) \/ st # None
    PROVE  CommandsInvariant' /\ Rewrites(i)
<1>1. lines' = [lines EXCEPT ![i] = new] /\ Commands!ValidLines(lines)'
  BY FinishLeaves DEF Commands!Replaced, Commands!ValidLines
<1>2. lines' \in Seq(Commands!Line) /\ DOMAIN lines' = DOMAIN lines
      /\ lines'[i] = new /\ \A j \in DOMAIN lines : j # i => lines'[j] = lines[j]
  BY <1>1 DEF CommandsInvariant
<1> QED
  BY <1>1, <1>2, FinishLeaves DEF CommandsInvariant, Rewrites, KeepsApproval

\* A line of the transcript has every field a line has.
LEMMA LinesAreLines ==
    ASSUME CommandsInvariant, NEW i \in DOMAIN lines
    PROVE  lines[i] \in Commands!Line
BY DEF CommandsInvariant

\* The constants of the commands, one by one.
LEMMA LockSetsAreFields == \A f \in LockSets : f \subseteq Commands!Fields
BY StudioConstants DEF Commands!CommandsConstants

\* What a recognizer proposes.
LEMMA ProposalsAreTyped ==
    ASSUME NEW p \in Proposals
    PROVE  /\ p.text \in Texts \cup {None} /\ p.source \in (Ticks \X Ticks) \cup {None}
           /\ p.edit \in (Ticks \X Ticks) \cup {None}
           /\ p.words \in (SUBSET (Ticks \X Ticks)) \cup {None}
           /\ p.confidence \in 0..1 \cup {None}
BY StudioConstants DEF Commands!CommandsConstants

\* A command that changes what later stages are made from, and takes the
\* approval away.
LEMMA ChangedRewrites ==
    ASSUME CommandsInvariant, NEW i \in DOMAIN lines, NEW new \in Commands!Line,
           NEW op, NEW st, NEW automated,
           Commands!Finish(op, Commands!Replaced(i, new), {lines[i].id}, st, automated),
           new.id = lines[i].id, KeepsLocked(lines[i], new), new.status # "approved", st # None
    PROVE  CommandsInvariant' /\ Rewrites(i)
BY ReplacedRewrites

\* The commands that leave the line in its place.
LEMMA TextIsEdited ==
    ASSUME CommandsInvariant, NEW i \in DOMAIN lines, NEW t \in Texts, Commands!EditText(i, t)
    PROVE  CommandsInvariant' /\ Rewrites(i)
<1> DEFINE new == [lines[i] EXCEPT !.text = t, !.status = Commands!AfterContentChange(@)]
<1>1. new \in Commands!Line /\ new.id = lines[i].id /\ new.status # "approved"
  BY LinesAreLines, ZenonT(60)
  DEF Commands!Line, Commands!AfterContentChange, Commands!Statuses
<1>2. KeepsLocked(lines[i], new)
  BY LinesAreLines DEF Commands!EditText, Commands!Unlocked, KeepsLocked, Commands!Line
<1>3. "transcript" # None
  BY StudioConstants DEF Commands!CommandsConstants
<1> QED
  BY <1>1, <1>2, <1>3, ReplacedRewrites DEF Commands!EditText

\* Locks are put on.
LEMMA FieldsAreLocked ==
    ASSUME CommandsInvariant, NEW i \in DOMAIN lines, NEW f \in LockSets,
           Commands!LockFields(i, f)
    PROVE  CommandsInvariant' /\ Rewrites(i)
<1> DEFINE new == [lines[i] EXCEPT !.locks = @ \cup f]
<1>1. lines[i] \in Commands!Line /\ f \subseteq Commands!Fields
  BY LinesAreLines, LockSetsAreFields
<1>2. new \in Commands!Line /\ new.id = lines[i].id /\ new.status = lines[i].status
  BY <1>1 DEF Commands!Line
<1>3. Commands!Content(new) = Commands!Content(lines[i])
  BY <1>1 DEF Commands!Line, Commands!Content
<1>4. KeepsLocked(lines[i], new)
  BY LinesAreLines DEF KeepsLocked, Commands!Line
<1> QED
  BY <1>2, <1>4, <1>3, ReplacedRewrites DEF Commands!LockFields

\* Locks are taken off.
LEMMA FieldsAreUnlocked ==
    ASSUME CommandsInvariant, NEW i \in DOMAIN lines, NEW f \in LockSets,
           Commands!UnlockFields(i, f)
    PROVE  CommandsInvariant' /\ Rewrites(i)
<1> DEFINE new == [lines[i] EXCEPT !.locks = @ \ f]
<1>1. lines[i] \in Commands!Line /\ f \subseteq Commands!Fields
  BY LinesAreLines, LockSetsAreFields
<1>2. new \in Commands!Line /\ new.id = lines[i].id /\ new.status = lines[i].status
  BY <1>1 DEF Commands!Line
<1>3. Commands!Content(new) = Commands!Content(lines[i])
  BY <1>1 DEF Commands!Line, Commands!Content
<1>4. KeepsLocked(lines[i], new)
  BY LinesAreLines DEF KeepsLocked, Commands!Line
<1> QED
  BY <1>2, <1>4, <1>3, ReplacedRewrites DEF Commands!UnlockFields

\* A recognizer proposes.
LEMMA RecognizerUpdates ==
    ASSUME CommandsInvariant, NEW i \in DOMAIN lines, NEW p \in Proposals,
           Commands!AutomatedAsrUpdate(i, p)
    PROVE  CommandsInvariant' /\ Rewrites(i)
<1> DEFINE updated == Commands!AsrUpdated(lines[i], p)
           new == [updated EXCEPT !.status = Commands!AfterContentChange(@)]
<1>1. lines[i] \in Commands!Line
  BY LinesAreLines
<1>2. updated \in Commands!Line /\ updated.id = lines[i].id /\ updated.locks = lines[i].locks
      /\ updated.speaker = lines[i].speaker /\ updated.character = lines[i].character
  <2>1. /\ Commands!Proposed(p.text, lines[i].text) \in Texts
        /\ Commands!Proposed(p.source, lines[i].source) \in Ticks \X Ticks
        /\ Commands!Proposed(p.words, lines[i].words) \in SUBSET (Ticks \X Ticks)
        /\ Commands!Proposed(p.edit, lines[i].edit) \in Ticks \X Ticks
        /\ Commands!Proposed(p.confidence, lines[i].confidence) \in 0..1
    <3>1. /\ lines[i].text \in Texts /\ lines[i].source \in Ticks \X Ticks
          /\ lines[i].words \in SUBSET (Ticks \X Ticks) /\ lines[i].edit \in Ticks \X Ticks
          /\ lines[i].confidence \in 0..1
      BY <1>1 DEF Commands!Line
    <3>2. /\ p.text \in Texts \cup {None} /\ p.source \in (Ticks \X Ticks) \cup {None}
          /\ p.words \in (SUBSET (Ticks \X Ticks)) \cup {None}
          /\ p.edit \in (Ticks \X Ticks) \cup {None}
          /\ p.confidence \in 0..1 \cup {None}
      BY ProposalsAreTyped
    <3>3. Commands!Proposed(p.text, lines[i].text) \in Texts
      BY <3>1, <3>2 DEF Commands!Proposed
    <3>4. Commands!Proposed(p.source, lines[i].source) \in Ticks \X Ticks
      BY <3>1, <3>2 DEF Commands!Proposed
    <3>5. Commands!Proposed(p.words, lines[i].words) \in SUBSET (Ticks \X Ticks)
      BY <3>1, <3>2 DEF Commands!Proposed
    <3>6. Commands!Proposed(p.edit, lines[i].edit) \in Ticks \X Ticks
      BY <3>1, <3>2 DEF Commands!Proposed
    <3>7. Commands!Proposed(p.confidence, lines[i].confidence) \in 0..1
      BY <3>1, <3>2 DEF Commands!Proposed
    <3> QED
      BY <3>3, <3>4, <3>5, <3>6, <3>7
  <2> QED
    BY <1>1, <2>1 DEF Commands!Line, Commands!AsrUpdated
<1>3. new \in Commands!Line /\ new.id = lines[i].id /\ new.status # "approved"
      /\ new.speaker = lines[i].speaker /\ new.character = lines[i].character
      /\ new.text = updated.text /\ new.source = updated.source /\ new.edit = updated.edit
      /\ new.words = updated.words
  BY <1>2 DEF Commands!Line, Commands!AfterContentChange, Commands!Statuses
<1>4. KeepsLocked(lines[i], new)
  BY <1>3 DEF Commands!AutomatedAsrUpdate, Commands!AsrAllowed, Commands!Unlocked, KeepsLocked
<1>5. "transcript" # None
  BY StudioConstants DEF Commands!CommandsConstants
<1>6. Commands!Finish("automated_asr_update", Commands!Replaced(i, new), {lines[i].id},
                      "transcript", TRUE)
  BY DEF Commands!AutomatedAsrUpdate
<1> QED
  BY <1>3, <1>4, <1>5, <1>6, ReplacedRewrites

\* A speaker is assigned.
LEMMA SpeakerIsAssigned ==
    ASSUME CommandsInvariant, NEW i \in DOMAIN lines, NEW s \in Speakers \cup {None},
           Commands!AssignSpeaker(i, s)
    PROVE  CommandsInvariant' /\ Rewrites(i)
<1> DEFINE new == [lines[i] EXCEPT !.speaker = s, !.status = Commands!AfterContentChange(@)]
<1>1. new \in Commands!Line /\ new.id = lines[i].id /\ new.status # "approved"
  BY LinesAreLines, ZenonT(60)
  DEF Commands!Line, Commands!AfterContentChange, Commands!Statuses
<1>2. KeepsLocked(lines[i], new)
  BY LinesAreLines
  DEF Commands!AssignSpeaker, Commands!Unlocked, KeepsLocked, Commands!Line
<1>3. "diarization" # None
  BY StudioConstants DEF Commands!CommandsConstants
<1>4. Commands!Finish("assign_speaker", Commands!Replaced(i, new), {lines[i].id},
                      "diarization", FALSE)
  BY DEF Commands!AssignSpeaker
<1> QED
  BY <1>1, <1>2, <1>3, <1>4, ChangedRewrites

\* A character is assigned.
LEMMA CharacterIsAssigned ==
    ASSUME CommandsInvariant, NEW i \in DOMAIN lines, NEW s \in Characters \cup {None},
           Commands!AssignCharacter(i, s)
    PROVE  CommandsInvariant' /\ Rewrites(i)
<1> DEFINE new == [lines[i] EXCEPT !.character = s, !.status = Commands!AfterContentChange(@)]
<1>1. new \in Commands!Line /\ new.id = lines[i].id /\ new.status # "approved"
  BY LinesAreLines, ZenonT(60)
  DEF Commands!Line, Commands!AfterContentChange, Commands!Statuses
<1>2. KeepsLocked(lines[i], new)
  BY LinesAreLines
  DEF Commands!AssignCharacter, Commands!Unlocked, KeepsLocked, Commands!Line
<1>3. "diarization" # None
  BY StudioConstants DEF Commands!CommandsConstants
<1>4. Commands!Finish("assign_character", Commands!Replaced(i, new), {lines[i].id},
                      "diarization", FALSE)
  BY DEF Commands!AssignCharacter
<1> QED
  BY <1>1, <1>2, <1>3, <1>4, ChangedRewrites

\* The status changes, or the line is approved.
LEMMA StatusIsChanged ==
    ASSUME CommandsInvariant, NEW i \in DOMAIN lines, NEW s \in Commands!Statuses,
           Commands!ChangeStatus(i, s) \/ Commands!Approve(i)
    PROVE  CommandsInvariant' /\ Rewrites(i)
<1>1. ASSUME NEW t \in Commands!Statuses, NEW op,
             t = "approved" => lines[i].status = "review",
             Commands!Finish(op, Commands!Replaced(i, [lines[i] EXCEPT !.status = t]),
                             {lines[i].id}, None, FALSE)
      PROVE  CommandsInvariant' /\ Rewrites(i)
  <2> DEFINE new == [lines[i] EXCEPT !.status = t]
  <2>1. lines[i] \in Commands!Line
    BY LinesAreLines
  <2>2. new \in Commands!Line /\ new.id = lines[i].id /\ new.status = t
    BY <2>1 DEF Commands!Line
  <2>3. KeepsLocked(lines[i], new) /\ Commands!Content(new) = Commands!Content(lines[i])
    BY <2>1 DEF KeepsLocked, Commands!Line, Commands!Content
  <2> QED
    BY <1>1, <2>2, <2>3, ReplacedRewrites
<1>2. "approved" \in Commands!Statuses
  BY DEF Commands!Statuses
<1> QED
  BY <1>1, <1>2 DEF Commands!ChangeStatus, Commands!Approve

\* What two sequences have in common with the one they make.
LEMMA Joined ==
    ASSUME NEW S, NEW a \in Seq(S), NEW b \in Seq(S)
    PROVE  /\ a \o b \in Seq(S) /\ Len(a) \in Nat /\ Len(b) \in Nat
           /\ Len(a \o b) = Len(a) + Len(b)
           /\ \A j \in 1..Len(a) : (a \o b)[j] = a[j]
           /\ \A j \in 1..Len(b) : (a \o b)[Len(a) + j] = b[j]
<1>1. Len(a) \in Nat /\ Len(b) \in Nat
  BY LenProperties
<1>2. a \o b \in Seq(S) /\ Len(a \o b) = Len(a) + Len(b)
  BY ConcatProperties
<1>3. \A j \in 1..Len(a) : (a \o b)[j] = a[j]
  BY <1>1, ConcatProperties
<1>4. ASSUME NEW j \in 1..Len(b) PROVE (a \o b)[Len(a) + j] = b[j]
  <2>1. /\ Len(a) + j \in 1..Len(a) + Len(b) /\ ~(Len(a) + j <= Len(a))
        /\ Len(a) + j - Len(a) = j
    BY <1>1
  <2> QED
    BY <2>1, ConcatProperties
<1> QED
  BY <1>1, <1>2, <1>3, <1>4

\* What three sequences have in common with the one they make.
LEMMA JoinedThree ==
    ASSUME NEW S, NEW a \in Seq(S), NEW m \in Seq(S), NEW c \in Seq(S)
    PROVE  /\ a \o m \o c \in Seq(S)
           /\ Len(a \o m \o c) = Len(a) + Len(m) + Len(c)
           /\ \A j \in 1..Len(a) : (a \o m \o c)[j] = a[j]
           /\ \A j \in 1..Len(m) : (a \o m \o c)[Len(a) + j] = m[j]
           /\ \A j \in 1..Len(c) : (a \o m \o c)[Len(a) + Len(m) + j] = c[j]
<1>1. Len(a) \in Nat /\ Len(m) \in Nat /\ Len(c) \in Nat
  BY LenProperties
<1>2. a \o m \in Seq(S) /\ Len(a \o m) = Len(a) + Len(m)
  BY Joined
<1>3. \A j \in 1..Len(a) : (a \o m)[j] = a[j]
  BY Joined
<1>4. \A j \in 1..Len(m) : (a \o m)[Len(a) + j] = m[j]
  BY Joined
<1>5. PICK b \in Seq(S) : b = a \o m
  BY <1>2
<1>6. b \o c \in Seq(S) /\ Len(b \o c) = Len(b) + Len(c)
  BY Joined
<1>7. \A j \in 1..Len(b) : (b \o c)[j] = b[j]
  BY Joined
<1>8. \A j \in 1..Len(c) : (b \o c)[Len(b) + j] = c[j]
  BY Joined
<1>9. Len(b) = Len(a) + Len(m)
  BY <1>2, <1>5
<1>10. \A j \in 1..Len(a) : (b \o c)[j] = a[j]
  <2> SUFFICES ASSUME NEW j \in 1..Len(a) PROVE (b \o c)[j] = a[j]
    OBVIOUS
  <2>1. j \in 1..Len(b)
    BY <1>1, <1>9
  <2>2. b[j] = a[j]
    BY <1>3, <1>5
  <2> QED
    BY <1>7, <2>1, <2>2
<1>11. \A j \in 1..Len(m) : (b \o c)[Len(a) + j] = m[j]
  <2> SUFFICES ASSUME NEW j \in 1..Len(m) PROVE (b \o c)[Len(a) + j] = m[j]
    OBVIOUS
  <2>1. Len(a) + j \in 1..Len(b)
    BY <1>1, <1>9
  <2>2. b[Len(a) + j] = m[j]
    BY <1>4, <1>5
  <2> QED
    BY <1>7, <2>1, <2>2
<1> QED
  BY <1>5, <1>6, <1>8, <1>9, <1>10, <1>11

\* The part of a sequence from m to n.
LEMMA Part ==
    ASSUME NEW S, NEW q \in Seq(S), NEW m \in 1..Len(q) + 1, NEW n \in m - 1 .. Len(q)
    PROVE  /\ SubSeq(q, m, n) \in Seq(S) /\ Len(SubSeq(q, m, n)) = n - m + 1
           /\ \A j \in 1 .. n - m + 1 : SubSeq(q, m, n)[j] = q[m + j - 1]
<1>1. Len(q) \in Nat /\ m \in Int /\ n \in Int
  BY LenProperties
<1>2. \A j \in m .. n : q[j] \in S
  BY <1>1, ElementOfSeq
<1>3. SubSeq(q, m, n) \in Seq(S) /\ \A j \in 1 .. n - m + 1 : SubSeq(q, m, n)[j] = q[m + j - 1]
  BY <1>1, <1>2, SubSeqProperties
<1>4. Len(SubSeq(q, m, n)) = IF m <= n THEN n - m + 1 ELSE 0
  BY <1>1, <1>2, SubSeqProperties
<1> QED
  BY <1>1, <1>3, <1>4

\* r is q, with m in the place of its lines i to k.
PutsInPlace(S, r, q, i, k, m) ==
    /\ r \in Seq(S) /\ Len(m) \in Nat /\ Len(q) \in Nat
    /\ Len(r) = (i - 1) + Len(m) + (Len(q) - k)
    /\ \A j \in 1..i - 1 : r[j] = q[j]
    /\ \A j \in i .. i - 1 + Len(m) : r[j] = m[j - (i - 1)]
    /\ \A j \in i + Len(m) .. (i - 1) + Len(m) + (Len(q) - k) : r[j] = q[j - (i + Len(m)) + k + 1]

\* What a split and a merge do with the sequence of lines.
LEMMA Spliced ==
    ASSUME NEW S, NEW q \in Seq(S), NEW i \in 1..Len(q), NEW k \in i..Len(q), NEW m \in Seq(S),
           NEW r, r = SubSeq(q, 1, i - 1) \o m \o SubSeq(q, k + 1, Len(q))
    PROVE  PutsInPlace(S, r, q, i, k, m)
<1> DEFINE a == SubSeq(q, 1, i - 1)
           c == SubSeq(q, k + 1, Len(q))
<1>1. Len(q) \in Nat /\ Len(m) \in Nat
  BY LenProperties
<1>2. a \in Seq(S) /\ Len(a) = i - 1 /\ \A j \in 1..i - 1 : a[j] = q[j]
  <2>1. 1 \in 1..Len(q) + 1 /\ i - 1 \in 1 - 1 .. Len(q) /\ (i - 1) - 1 + 1 = i - 1
        /\ \A j \in 1..i - 1 : 1 + j - 1 = j
    BY <1>1
  <2>2. a \in Seq(S) /\ Len(a) = (i - 1) - 1 + 1
        /\ \A j \in 1 .. (i - 1) - 1 + 1 : a[j] = q[1 + j - 1]
    BY <2>1, Part
  <2> QED
    BY <2>1, <2>2
<1>3. c \in Seq(S) /\ Len(c) = Len(q) - k /\ \A j \in 1..Len(q) - k : c[j] = q[k + j]
  <2>1. /\ k + 1 \in 1..Len(q) + 1 /\ Len(q) \in (k + 1) - 1 .. Len(q)
        /\ Len(q) - (k + 1) + 1 = Len(q) - k
        /\ \A j \in 1..Len(q) - k : k + 1 + j - 1 = k + j
    BY <1>1
  <2>2. c \in Seq(S) /\ Len(c) = Len(q) - (k + 1) + 1
        /\ \A j \in 1 .. Len(q) - (k + 1) + 1 : c[j] = q[k + 1 + j - 1]
    <3> DEFINE n == k + 1
    <3>1. n \in 1..Len(q) + 1 /\ Len(q) \in n - 1 .. Len(q)
      BY <2>1
    <3> HIDE DEF n
    <3>2. /\ SubSeq(q, n, Len(q)) \in Seq(S) /\ Len(SubSeq(q, n, Len(q))) = Len(q) - n + 1
          /\ \A j \in 1 .. Len(q) - n + 1 : SubSeq(q, n, Len(q))[j] = q[n + j - 1]
      BY <3>1, Part
    <3> QED
      BY <3>2 DEF n
  <2> QED
    BY <2>1, <2>2
<1>4. r = (a \o m) \o c
  OBVIOUS
<1> HIDE DEF a, c
<1>5. PICK b \in Seq(S) : b = a
  BY <1>2
<1>6. PICK d \in Seq(S) : d = c
  BY <1>3
<1>7. r = b \o m \o d
  BY <1>4, <1>5, <1>6
<1>8. b \o m \o d \in Seq(S) /\ Len(b \o m \o d) = Len(b) + Len(m) + Len(d)
  BY JoinedThree
<1>9. \A j \in 1..Len(b) : (b \o m \o d)[j] = b[j]
  BY JoinedThree
<1>10. \A j \in 1..Len(m) : (b \o m \o d)[Len(b) + j] = m[j]
  BY JoinedThree
<1>11. \A j \in 1..Len(d) : (b \o m \o d)[Len(b) + Len(m) + j] = d[j]
  BY JoinedThree
<1>12. Len(b) = i - 1 /\ Len(d) = Len(q) - k
  BY <1>2, <1>3, <1>5, <1>6
<1>13. r \in Seq(S) /\ Len(r) = (i - 1) + Len(m) + (Len(q) - k)
  BY <1>7, <1>8, <1>12
<1>14. \A j \in 1..i - 1 : r[j] = q[j]
  BY <1>2, <1>5, <1>7, <1>9, <1>12
<1>15. \A j \in 1..Len(m) : r[i - 1 + j] = m[j]
  BY <1>7, <1>10, <1>12
<1>16. \A j \in 1..Len(q) - k : r[i - 1 + Len(m) + j] = q[k + j]
  BY <1>3, <1>6, <1>7, <1>11, <1>12
<1>17. \A j \in i .. i - 1 + Len(m) : r[j] = m[j - (i - 1)]
  <2> SUFFICES ASSUME NEW j \in i .. i - 1 + Len(m) PROVE r[j] = m[j - (i - 1)]
    OBVIOUS
  <2> DEFINE n == j - (i - 1)
  <2>1. n \in 1..Len(m) /\ i - 1 + n = j
    BY <1>1
  <2> HIDE DEF n
  <2>2. r[i - 1 + n] = m[n]
    BY <1>15, <2>1
  <2> QED
    BY <1>1, <2>1, <2>2 DEF n
<1>18. \A j \in i + Len(m) .. (i - 1) + Len(m) + (Len(q) - k) : r[j] = q[j - (i + Len(m)) + k + 1]
  <2> SUFFICES ASSUME NEW j \in i + Len(m) .. (i - 1) + Len(m) + (Len(q) - k)
                  PROVE  r[j] = q[j - (i + Len(m)) + k + 1]
    OBVIOUS
  <2> DEFINE n == j - (i + Len(m)) + 1
  <2>1. n \in 1..Len(q) - k
    BY <1>1, <1>13
  <2>2. i - 1 + Len(m) + n = j
    BY <1>1, <1>13
  <2>3. k + n = j - (i + Len(m)) + k + 1
    BY <1>1, <1>13
  <2> HIDE DEF n
  <2> QED
    BY <1>16, <2>1, <2>2, <2>3
<1> QED
  BY <1>1, <1>13, <1>14, <1>17, <1>18 DEF PutsInPlace

\* A line is split.
LEMMA LineIsSplit ==
    ASSUME CommandsInvariant, NEW i \in DOMAIN lines, NEW left_ \in Ids, NEW right_ \in Ids,
           NEW s \in Cuts, NEW e \in Cuts, NEW lt \in Texts, NEW rt \in Texts,
           Commands!Split(i, left_, right_, s, e, lt, rt)
    PROVE  CommandsInvariant' /\ Splits(i)
<1> DEFINE half(id, src, edt, wds, t) ==
             [lines[i] EXCEPT !.id = id, !.source = src, !.edit = edt, !.words = wds,
                              !.text = t, !.status = "draft"]
           one == half(left_, <<lines[i].source[1], s>>, <<lines[i].edit[1], e>>,
                       Commands!WordsBefore(lines[i], s), lt)
           two == half(right_, <<s, lines[i].source[2]>>, <<e, lines[i].edit[2]>>,
                       Commands!WordsFrom(lines[i], s), rt)
           halves == <<one, two>>
           r == SubSeq(lines, 1, i - 1) \o halves \o SubSeq(lines, i + 1, Len(lines))
<1>1. /\ Commands!Unlocked(lines[i], Commands!ContentLocks)
      /\ \A j \in DOMAIN lines : lines[j].id # left_ /\ lines[j].id # right_
      /\ Commands!Finish("split", r, {lines[i].id, left_, right_}, "transcript", FALSE)
  BY DEF Commands!Split
<1>2. s \in Ticks /\ e \in Ticks
  BY StudioConstants DEF Commands!CommandsConstants
<1>3. /\ lines[i].source[1] \in Ticks /\ lines[i].source[2] \in Ticks
      /\ lines[i].edit[1] \in Ticks /\ lines[i].edit[2] \in Ticks
      /\ lines[i].words \subseteq Ticks \X Ticks
  BY LinesAreLines DEF Commands!Line
<1>4. /\ <<lines[i].source[1], s>> \in Ticks \X Ticks /\ <<lines[i].edit[1], e>> \in Ticks \X Ticks
      /\ <<s, lines[i].source[2]>> \in Ticks \X Ticks /\ <<e, lines[i].edit[2]>> \in Ticks \X Ticks
  BY <1>2, <1>3
<1>5. /\ Commands!WordsBefore(lines[i], s) \in SUBSET (Ticks \X Ticks)
      /\ Commands!WordsFrom(lines[i], s) \in SUBSET (Ticks \X Ticks)
  BY <1>3 DEF Commands!WordsBefore, Commands!WordsFrom
<1>6. ASSUME NEW id \in Ids, NEW src \in Ticks \X Ticks, NEW edt \in Ticks \X Ticks,
             NEW wds \in SUBSET (Ticks \X Ticks), NEW t \in Texts
      PROVE  /\ half(id, src, edt, wds, t) \in Commands!Line
             /\ half(id, src, edt, wds, t).id = id
             /\ KeepsLocked(lines[i], half(id, src, edt, wds, t))
  <2> DEFINE new == half(id, src, edt, wds, t)
  <2>1. lines[i] \in Commands!Line
    BY LinesAreLines
  <2>2. new \in Commands!Line /\ new.id = id /\ new.speaker = lines[i].speaker
        /\ new.character = lines[i].character
    BY <2>1 DEF Commands!Line, Commands!Statuses
  <2>3. lines[i].locks \cap {"source_text", "source_timing", "edit_timing"} = {}
    BY <1>1 DEF Commands!Unlocked, Commands!ContentLocks
  <2> QED
    BY <2>2, <2>3 DEF KeepsLocked
<1>7. /\ lines' = r /\ Commands!ValidLines(r)
      /\ fact'.affected = {lines[i].id, left_, right_}
      /\ fact'.roots = IF "transcript" = None THEN {} ELSE {lines[i].id, left_, right_}
  <2> HIDE DEF r
  <2> QED
    BY <1>1 DEF Commands!Finish
<1> HIDE DEF half
<1>8. one \in Commands!Line /\ one.id = left_ /\ KeepsLocked(lines[i], one)
  BY <1>4, <1>5, <1>6
<1>9. two \in Commands!Line /\ two.id = right_ /\ KeepsLocked(lines[i], two)
  BY <1>4, <1>5, <1>6
<1> HIDE DEF one, two
<1>10. halves \in Seq(Commands!Line) /\ Len(halves) = 2 /\ halves[1] = one /\ halves[2] = two
  BY <1>8, <1>9
<1>11. lines \in Seq(Commands!Line) /\ Len(lines) \in Nat /\ i \in 1..Len(lines) /\ i \in i..Len(lines)
  BY LenProperties DEF CommandsInvariant
<1> HIDE DEF halves
<1>12. PutsInPlace(Commands!Line, r, lines, i, i, halves)
  BY <1>10, <1>11, Spliced
<1> HIDE DEF r
<1>13. r[i] = one /\ r[i + 1] = two
  <2>1. i \in i .. i - 1 + 2 /\ i + 1 \in i .. i - 1 + 2 /\ i - (i - 1) = 1 /\ (i + 1) - (i - 1) = 2
    BY <1>11
  <2>2. \A j \in i .. i - 1 + 2 : r[j] = halves[j - (i - 1)]
    BY <1>10, <1>12 DEF PutsInPlace
  <2>3. r[i] = halves[i - (i - 1)]
    BY <2>1, <2>2
  <2>4. r[i + 1] = halves[(i + 1) - (i - 1)]
    BY <2>1, <2>2
  <2> QED
    BY <1>10, <1>11, <2>1, <2>3, <2>4
<1>14. DOMAIN r = 1..Len(lines) + 1
  BY <1>10, <1>11, <1>12 DEF PutsInPlace
<1>15. \A j \in i + 2 .. Len(lines) + 1 : r[j] = lines[j - 1]
  <2> SUFFICES ASSUME NEW j \in i + 2 .. Len(lines) + 1 PROVE r[j] = lines[j - 1]
    OBVIOUS
  <2>1. j \in i + 2 .. (i - 1) + 2 + (Len(lines) - i)
    BY <1>11
  <2>2. j - (i + 2) + i + 1 = j - 1
    BY <1>11
  <2> QED
    BY <1>10, <1>12, <2>1, <2>2 DEF PutsInPlace
<1>16. "transcript" # None
  BY StudioConstants DEF Commands!CommandsConstants
<1>17. r[i].id # r[i + 1].id
  BY <1>11, <1>14, <1>7 DEF Commands!ValidLines
<1>18. Commands!ValidLines(lines)'
  BY <1>7 DEF Commands!ValidLines
<1>19. CommandsInvariant'
  BY <1>12, <1>7, <1>18 DEF CommandsInvariant, PutsInPlace
<1>20. Splits(i)
  <2>1. /\ DOMAIN lines' = 1..Len(lines) + 1
        /\ \A j \in 1..i - 1 : lines'[j] = lines[j]
        /\ \A j \in i + 2 .. Len(lines) + 1 : lines'[j] = lines[j - 1]
        /\ lines'[i].id # lines'[i + 1].id
    BY <1>12, <1>14, <1>15, <1>7, <1>17 DEF PutsInPlace
  <2>2. \A k \in {i, i + 1} :
          /\ \A j \in DOMAIN lines : lines[j].id # lines'[k].id
          /\ KeepsLocked(lines[i], lines'[k])
    BY <1>1, <1>8, <1>9, <1>13, <1>7
  <2>3. /\ fact'.affected = {lines[i].id, lines'[i].id, lines'[i + 1].id}
        /\ fact'.roots = fact'.affected
    BY <1>8, <1>9, <1>13, <1>7, <1>16
  <2> QED
    BY <2>1, <2>2, <2>3 DEF Splits
<1> QED
  BY <1>19, <1>20

\* Two lines are merged.
LEMMA LinesAreMerged ==
    ASSUME CommandsInvariant, NEW i \in 1..Len(lines) - 1, NEW merged \in Ids, NEW t \in Texts,
           NEW overlap, Commands!Merge(i, merged, t, overlap)
    PROVE  i \in DOMAIN lines /\ CommandsInvariant' /\ Merges(i)
<1> DEFINE one == lines[i]
           two == lines[i + 1]
           built(src, edt, wds, sp, ch, em, cf, lk) ==
             [one EXCEPT !.id = merged, !.text = t, !.status = "draft", !.source = src,
                         !.edit = edt, !.words = wds, !.speaker = sp, !.character = ch,
                         !.emotion = em, !.confidence = cf, !.locks = lk]
           confidence == IF one.confidence <= two.confidence THEN one.confidence
                         ELSE two.confidence
           new == built(Commands!Covering(one.source, two.source),
                        Commands!Covering(one.edit, two.edit),
                        one.words \cup two.words,
                        Commands!Common(one.speaker, two.speaker),
                        Commands!Common(one.character, two.character),
                        Commands!Common(one.emotion, two.emotion),
                        confidence, one.locks \cup two.locks)
           whole == <<new>>
           r == SubSeq(lines, 1, i - 1) \o whole \o SubSeq(lines, i + 2, Len(lines))
<1>1. /\ \A j \in DOMAIN lines : lines[j].id # merged
      /\ Commands!Unlocked(one, Commands!ContentLocks)
      /\ Commands!Unlocked(two, Commands!ContentLocks)
      /\ Commands!IdentityLocks(one, two)
      /\ Commands!Finish("merge", r, {one.id, two.id, merged}, "transcript", FALSE)
  BY DEF Commands!Merge
<1>2. /\ lines \in Seq(Commands!Line) /\ Len(lines) \in Nat /\ i \in 1..Len(lines)
      /\ i + 1 \in i..Len(lines) /\ i + 1 \in DOMAIN lines /\ (i + 1) + 1 = i + 2
      /\ DOMAIN lines = 1..Len(lines)
  BY LenProperties DEF CommandsInvariant
<1>3. one \in Commands!Line /\ two \in Commands!Line
  BY <1>2, LinesAreLines
<1>4. new \in Commands!Line
  <2>1. /\ one.source \in Ticks \X Ticks /\ two.source \in Ticks \X Ticks
        /\ one.edit \in Ticks \X Ticks /\ two.edit \in Ticks \X Ticks
        /\ one.words \in SUBSET (Ticks \X Ticks) /\ two.words \in SUBSET (Ticks \X Ticks)
        /\ one.speaker \in Speakers \cup {None} /\ one.character \in Characters \cup {None}
        /\ one.emotion \in Emotions \cup {None}
        /\ one.confidence \in 0..1 /\ two.confidence \in 0..1
        /\ one.locks \in SUBSET Commands!Fields /\ two.locks \in SUBSET Commands!Fields
    BY <1>3 DEF Commands!Line
  <2>2. ASSUME NEW a \in Ticks \X Ticks, NEW b \in Ticks \X Ticks
        PROVE  Commands!Covering(a, b) \in Ticks \X Ticks
    BY DEF Commands!Covering
  <2>3. /\ Commands!Common(one.speaker, two.speaker) \in Speakers \cup {None}
        /\ Commands!Common(one.character, two.character) \in Characters \cup {None}
        /\ Commands!Common(one.emotion, two.emotion) \in Emotions \cup {None}
    BY <2>1 DEF Commands!Common
  <2>4. /\ Commands!Covering(one.source, two.source) \in Ticks \X Ticks
        /\ Commands!Covering(one.edit, two.edit) \in Ticks \X Ticks
    BY <2>1, <2>2
  <2>5. /\ one.words \cup two.words \in SUBSET (Ticks \X Ticks)
        /\ one.locks \cup two.locks \in SUBSET Commands!Fields
        /\ "draft" \in Commands!Statuses
        /\ confidence \in 0..1
    BY <2>1 DEF Commands!Statuses
  <2>6. ASSUME NEW src \in Ticks \X Ticks, NEW edt \in Ticks \X Ticks,
               NEW wds \in SUBSET (Ticks \X Ticks), NEW sp \in Speakers \cup {None},
               NEW ch \in Characters \cup {None}, NEW em \in Emotions \cup {None},
               NEW cf \in 0..1, NEW lk \in SUBSET Commands!Fields
        PROVE  built(src, edt, wds, sp, ch, em, cf, lk) \in Commands!Line
    <3> HIDE DEF one, two
    <3> QED
      BY <1>3, <2>5, ZenonT(60) DEF Commands!Line
  <2> HIDE DEF one, two, built, confidence
  <2> QED
    BY <2>3, <2>4, <2>5, <2>6
<1>5. /\ new.id = merged /\ new.speaker = Commands!Common(one.speaker, two.speaker)
      /\ new.character = Commands!Common(one.character, two.character)
  <2> HIDE DEF one, two
  <2> QED
    BY <1>3 DEF Commands!Line
<1>6. /\ lines' = r /\ Commands!ValidLines(r)
      /\ fact'.affected = {one.id, two.id, merged}
      /\ fact'.roots = IF "transcript" = None THEN {} ELSE {one.id, two.id, merged}
  <2> HIDE DEF r
  <2> QED
    BY <1>1 DEF Commands!Finish
<1> HIDE DEF one, two, new
<1>7. KeepsLocked(one, new) /\ KeepsLocked(two, new)
  <2>1. /\ one.locks \cap {"source_text", "source_timing", "edit_timing"} = {}
        /\ two.locks \cap {"source_text", "source_timing", "edit_timing"} = {}
    BY <1>1 DEF Commands!Unlocked, Commands!ContentLocks
  <2>2. /\ "speaker" \in one.locks \cup two.locks =>
             new.speaker = one.speaker /\ new.speaker = two.speaker
        /\ "character" \in one.locks \cup two.locks =>
             new.character = one.character /\ new.character = two.character
    BY <1>1, <1>5 DEF Commands!IdentityLocks, Commands!Common
  <2> QED
    BY <2>1, <2>2 DEF KeepsLocked
<1>8. whole \in Seq(Commands!Line) /\ Len(whole) = 1 /\ whole[1] = new
  BY <1>4
<1> HIDE DEF whole
<1>9. PutsInPlace(Commands!Line, r, lines, i, i + 1, whole)
  <2>1. r = SubSeq(lines, 1, i - 1) \o whole \o SubSeq(lines, (i + 1) + 1, Len(lines))
    BY <1>2
  <2> HIDE DEF r
  <2> QED
    BY <1>2, <1>8, <2>1, Spliced
<1> HIDE DEF r
<1>10. r[i] = new
  <2>1. i \in i .. i - 1 + 1 /\ i - (i - 1) = 1
    BY <1>2
  <2> QED
    BY <1>8, <1>9, <2>1 DEF PutsInPlace
<1>11. DOMAIN r = 1..Len(lines) - 1
  BY <1>2, <1>8, <1>9 DEF PutsInPlace
<1>12. \A j \in i + 1 .. Len(lines) - 1 : r[j] = lines[j + 1]
  <2> SUFFICES ASSUME NEW j \in i + 1 .. Len(lines) - 1 PROVE r[j] = lines[j + 1]
    OBVIOUS
  <2>1. /\ j \in i + 1 .. (i - 1) + 1 + (Len(lines) - (i + 1))
        /\ j - (i + 1) + (i + 1) + 1 = j + 1
    BY <1>2
  <2> QED
    BY <1>8, <1>9, <2>1 DEF PutsInPlace
<1>13. "transcript" # None
  BY StudioConstants DEF Commands!CommandsConstants
<1>14. Commands!ValidLines(lines)'
  BY <1>6 DEF Commands!ValidLines
<1>15. CommandsInvariant'
  BY <1>6, <1>9, <1>14 DEF CommandsInvariant, PutsInPlace
<1>16. Merges(i)
  <2>1. /\ i + 1 \in DOMAIN lines
        /\ DOMAIN lines' = 1..Len(lines) - 1
        /\ \A j \in 1..i - 1 : lines'[j] = lines[j]
        /\ \A j \in i + 1 .. Len(lines) - 1 : lines'[j] = lines[j + 1]
    BY <1>2, <1>6, <1>9, <1>11, <1>12 DEF PutsInPlace
  <2>2. /\ \A j \in DOMAIN lines : lines[j].id # lines'[i].id
        /\ KeepsLocked(lines[i], lines'[i]) /\ KeepsLocked(lines[i + 1], lines'[i])
    BY <1>1, <1>5, <1>6, <1>7, <1>10 DEF one, two
  <2>3. /\ fact'.affected = {lines[i].id, lines[i + 1].id, lines'[i].id}
        /\ fact'.roots = fact'.affected
    BY <1>5, <1>6, <1>10, <1>13 DEF one, two
  <2> QED
    BY <2>1, <2>2, <2>3 DEF Merges
<1> QED
  BY <1>2, <1>15, <1>16

-----------------------------------------------------------------------------
(* The steps.                                                              *)

\* A step of the studio is one of the commands, or leaves the lines alone.
LEMMA CommandsRun ==
    /\ StudioInit => Commands!Init
    /\ [StudioNext]_studioVars => [Commands!Next]_commandsVars
BY DEF StudioInit, StudioNext, studioVars, commandsVars

\* The lines of revision zero are valid.
LEMMA CommandsInit == Commands!Init => CommandsInvariant
BY StudioConstants DEF Commands!Init, Commands!CommandsConstants, CommandsInvariant,
   Commands!ValidLines

\* Every command rewrites, splits or merges.
LEMMA CommandHasShape ==
    ASSUME CommandsInvariant, Commands!Next
    PROVE  CommandsInvariant' /\ \E i \in DOMAIN lines : Rewrites(i) \/ Splits(i) \/ Merges(i)
<1>1. ASSUME NEW i \in DOMAIN lines,
             \/ \E t \in Texts : Commands!EditText(i, t)
             \/ \E f \in LockSets : Commands!LockFields(i, f) \/ Commands!UnlockFields(i, f)
             \/ \E p \in Proposals : Commands!AutomatedAsrUpdate(i, p)
             \/ \E s \in Speakers \cup {None} : Commands!AssignSpeaker(i, s)
             \/ \E c \in Characters \cup {None} : Commands!AssignCharacter(i, c)
             \/ \E s \in Commands!Statuses : Commands!ChangeStatus(i, s)
             \/ Commands!Approve(i)
      PROVE  CommandsInvariant' /\ Rewrites(i)
  <2>1. CASE \E t \in Texts : Commands!EditText(i, t)
    BY <2>1, TextIsEdited
  <2>2. CASE \E f \in LockSets : Commands!LockFields(i, f) \/ Commands!UnlockFields(i, f)
    BY <2>2, FieldsAreLocked, FieldsAreUnlocked
  <2>3. CASE \E p \in Proposals : Commands!AutomatedAsrUpdate(i, p)
    BY <2>3, RecognizerUpdates
  <2>4. CASE \E s \in Speakers \cup {None} : Commands!AssignSpeaker(i, s)
    BY <2>4, SpeakerIsAssigned
  <2>5. CASE \E c \in Characters \cup {None} : Commands!AssignCharacter(i, c)
    BY <2>5, CharacterIsAssigned
  <2>6. CASE \E s \in Commands!Statuses : Commands!ChangeStatus(i, s)
    BY <2>6, StatusIsChanged
  <2>7. CASE Commands!Approve(i)
    <3>1. "review" \in Commands!Statuses
      BY DEF Commands!Statuses
    <3> QED
      BY <2>7, <3>1, StatusIsChanged
  <2> QED
    BY <1>1, <2>1, <2>2, <2>3, <2>4, <2>5, <2>6, <2>7
<1>2. ASSUME NEW i \in DOMAIN lines, NEW one \in Ids, NEW two \in Ids, NEW s \in Cuts,
             NEW e \in Cuts, NEW lt \in Texts, NEW rt \in Texts,
             Commands!Split(i, one, two, s, e, lt, rt)
      PROVE  CommandsInvariant' /\ Splits(i)
  BY <1>2, LineIsSplit
<1>3. ASSUME NEW i \in 1..Len(lines) - 1, NEW merged \in Ids, NEW t \in Texts,
             NEW overlap \in {"adjacent_only", "allow_overlap"},
             Commands!Merge(i, merged, t, overlap)
      PROVE  i \in DOMAIN lines /\ CommandsInvariant' /\ Merges(i)
  BY <1>3, LinesAreMerged
<1> QED
  BY <1>1, <1>2, <1>3 DEF Commands!Next

\* The invariant is kept.
LEMMA CommandsStep ==
    CommandsInvariant /\ [Commands!Next]_commandsVars => CommandsInvariant'
<1>1. ASSUME CommandsInvariant, UNCHANGED commandsVars PROVE CommandsInvariant'
  BY <1>1 DEF CommandsInvariant, commandsVars, Commands!ValidLines
<1> QED
  BY <1>1, CommandHasShape

\* The invariant holds throughout.
LEMMA CommandsAlways == StudioSpec => []CommandsInvariant
<1>1. StudioInit => CommandsInvariant
  BY CommandsRun, CommandsInit
<1>2. CommandsInvariant /\ [StudioNext]_studioVars => CommandsInvariant'
  BY CommandsRun, CommandsStep
<1> QED
  BY <1>1, <1>2, PTL DEF StudioSpec

-----------------------------------------------------------------------------
(* What the shapes leave of a line.                                        *)

\* The positions are numbers, and an identifier belongs to one line.
LEMMA OneLineToAnId ==
    ASSUME CommandsInvariant
    PROVE  /\ Len(lines) \in Nat /\ DOMAIN lines = 1..Len(lines)
           /\ \A i, j \in DOMAIN lines : lines[i].id = lines[j].id => i = j
BY LenProperties DEF CommandsInvariant, Commands!ValidLines

\* A line that keeps its identifier is untouched, or was rewritten in place.
LEMMA SameLine ==
    ASSUME CommandsInvariant, NEW k \in DOMAIN lines,
           Rewrites(k) \/ Splits(k) \/ Merges(k),
           NEW i \in DOMAIN lines, NEW j \in DOMAIN lines', lines[i].id = lines'[j].id
    PROVE  lines'[j] = lines[i] \/ (j = k /\ i = k /\ Rewrites(k))
<1>1. /\ Len(lines) \in Nat /\ k \in 1..Len(lines) /\ i \in 1..Len(lines)
      /\ DOMAIN lines = 1..Len(lines)
  BY OneLineToAnId
<1>2. CASE Rewrites(k)
  <2>1. j \in DOMAIN lines /\ lines'[j].id = lines[j].id
    BY <1>2 DEF Rewrites
  <2>2. i = j
    BY <2>1, OneLineToAnId
  <2> QED
    BY <1>2, <2>1, <2>2 DEF Rewrites
<1>3. CASE Splits(k)
  <2>1. j \in 1..Len(lines) + 1 /\ j # k /\ j # k + 1
    BY <1>3 DEF Splits
  <2>2. CASE j \in 1..k - 1
    <3>1. j \in DOMAIN lines /\ lines'[j] = lines[j]
      BY <1>1, <1>3, <2>2 DEF Splits
    <3> QED
      BY <3>1, OneLineToAnId
  <2>3. CASE j \in k + 2 .. Len(lines) + 1
    <3>1. j - 1 \in DOMAIN lines /\ lines'[j] = lines[j - 1]
      BY <1>1, <1>3, <2>3 DEF Splits
    <3> QED
      BY <3>1, OneLineToAnId
  <2> QED
    BY <1>1, <2>1, <2>2, <2>3
<1>4. CASE Merges(k)
  <2>1. j \in 1..Len(lines) - 1 /\ j # k
    BY <1>4 DEF Merges
  <2>2. CASE j \in 1..k - 1
    <3>1. j \in DOMAIN lines /\ lines'[j] = lines[j]
      BY <1>1, <1>4, <2>2 DEF Merges
    <3> QED
      BY <3>1, OneLineToAnId
  <2>3. CASE j \in k + 1 .. Len(lines) - 1
    <3>1. j + 1 \in DOMAIN lines /\ lines'[j] = lines[j + 1]
      BY <1>1, <1>4, <2>3 DEF Merges
    <3> QED
      BY <3>1, OneLineToAnId
  <2> QED
    BY <1>1, <2>1, <2>2, <2>3
<1> QED
  BY <1>2, <1>3, <1>4

\* Of two merged lines none is left.
LEMMA MergedAreGone ==
    ASSUME CommandsInvariant, NEW k \in DOMAIN lines, Merges(k),
           NEW i \in {k, k + 1}, NEW j \in DOMAIN lines'
    PROVE  lines[i].id # lines'[j].id
<1>1. /\ Len(lines) \in Nat /\ k \in 1..Len(lines) /\ i \in 1..Len(lines)
      /\ DOMAIN lines = 1..Len(lines)
  BY OneLineToAnId DEF Merges
<1>2. j \in 1..Len(lines) - 1
  BY DEF Merges
<1>3. CASE j = k
  BY <1>1, <1>3 DEF Merges
<1>4. CASE j \in 1..k - 1
  <2>1. j \in DOMAIN lines /\ lines'[j] = lines[j] /\ j # i
    BY <1>1, <1>4 DEF Merges
  <2> QED
    BY <1>1, <2>1, OneLineToAnId
<1>5. CASE j \in k + 1 .. Len(lines) - 1
  <2>1. j + 1 \in DOMAIN lines /\ lines'[j] = lines[j + 1] /\ j + 1 # i
    BY <1>1, <1>5 DEF Merges
  <2> QED
    BY <1>1, <2>1, OneLineToAnId
<1> QED
  BY <1>1, <1>2, <1>3, <1>4, <1>5

-----------------------------------------------------------------------------
(* The properties.                                                         *)

\* transcript/service.py l.335-395: whoever the command comes from, while a
\* line stays approved nothing of its content changes, only a line in review
\* becomes approved, and a recognizer changes no approved line.
THEOREM ApprovalHolds == StudioSpec => ApprovalIsOfContent
<1>1. ASSUME CommandsInvariant, [StudioNext]_studioVars, ~UNCHANGED commandsVars,
             NEW i \in DOMAIN lines, NEW j \in DOMAIN lines',
             lines[i].id = lines'[j].id, lines'[j].status = "approved"
      PROVE  /\ Commands!Content(lines'[j]) = Commands!Content(lines[i])
             /\ lines[i].status \in {"review", "approved"}
             /\ fact'.automated => lines'[j] = lines[i]
  <2>1. PICK k \in DOMAIN lines : Rewrites(k) \/ Splits(k) \/ Merges(k)
    BY <1>1, CommandsRun, CommandHasShape
  <2>2. CASE lines'[j] = lines[i]
    BY <1>1, <2>2
  <2>3. CASE j = k /\ i = k /\ Rewrites(k)
    BY <1>1, <2>3 DEF Rewrites, KeepsApproval
  <2> QED
    BY <1>1, <2>1, <2>2, <2>3, SameLine
<1>2. CommandsInvariant /\ [StudioNext]_studioVars => [Commands!ApprovedAsApproved]_commandsVars
  BY <1>1 DEF Commands!ApprovedAsApproved
<1> QED
  BY <1>2, CommandsAlways, PTL
  DEF StudioSpec, ApprovalIsOfContent, Commands!ApprovalIsOfContent, Commands!vars, commandsVars

\* transcript/service.py, ADR-010: a locked text, timing, speaker or character
\* stays as it is, in the line and in what a split or a merge makes of it.
THEOREM LocksHold == StudioSpec => LockedFieldsHold
<1>1. ASSUME CommandsInvariant, [StudioNext]_studioVars, ~UNCHANGED commandsVars,
             NEW i \in DOMAIN lines, NEW j \in DOMAIN lines',
             \/ lines[i].id = lines'[j].id
             \/ {lines[i].id, lines'[j].id} \subseteq fact'.affected
      PROVE  KeepsLocked(lines[i], lines'[j])
  <2>1. PICK k \in DOMAIN lines : Rewrites(k) \/ Splits(k) \/ Merges(k)
    BY <1>1, CommandsRun, CommandHasShape
  <2>2. CommandsInvariant'
    BY <1>1, CommandsRun, CommandsStep
  <2>3. CASE lines[i].id = lines'[j].id
    <3>1. CASE lines'[j] = lines[i]
      BY <3>1 DEF KeepsLocked
    <3>2. CASE j = k /\ i = k /\ Rewrites(k)
      BY <3>2 DEF Rewrites
    <3> QED
      BY <1>1, <2>1, <2>3, <3>1, <3>2, SameLine
  <2>4. CASE lines[i].id # lines'[j].id /\ Splits(k)
    <3>1. i = k
      BY <1>1, <2>4, OneLineToAnId DEF Splits
    <3>2. lines'[j].id \in {lines'[k].id, lines'[k + 1].id}
      BY <1>1, <2>4, <3>1 DEF Splits
    <3>3. k \in DOMAIN lines' /\ k + 1 \in DOMAIN lines'
      BY <1>1, <2>4, OneLineToAnId DEF Splits
    <3>4. j \in {k, k + 1}
      BY <2>2, <3>2, <3>3 DEF CommandsInvariant, Commands!ValidLines
    <3> QED
      BY <2>4, <3>1, <3>4 DEF Splits
  <2>5. CASE lines[i].id # lines'[j].id /\ Merges(k)
    <3>1. i \in {k, k + 1}
      BY <1>1, <2>5, OneLineToAnId DEF Merges
    <3>2. lines'[j].id = lines'[k].id
      BY <1>1, <2>5, MergedAreGone DEF Merges
    <3>3. k \in DOMAIN lines'
      BY <1>1, <2>5, OneLineToAnId DEF Merges
    <3>4. j = k
      BY <2>2, <3>2, <3>3 DEF CommandsInvariant, Commands!ValidLines
    <3> QED
      BY <2>5, <3>1, <3>4 DEF Merges
  <2>6. CASE lines[i].id # lines'[j].id /\ Rewrites(k)
    <3>1. lines'[j].id = lines[j].id /\ j \in DOMAIN lines
      BY <2>6 DEF Rewrites
    <3> QED
      BY <1>1, <2>6, <3>1 DEF Rewrites
  <2> QED
    BY <2>1, <2>3, <2>4, <2>5, <2>6
<1>2. CommandsInvariant /\ [StudioNext]_studioVars => [Commands!LocksRespected]_commandsVars
  BY <1>1 DEF Commands!LocksRespected, KeepsLocked
<1> QED
  BY <1>2, CommandsAlways, PTL
  DEF StudioSpec, LockedFieldsHold, Commands!LockedFieldsHold, Commands!vars, commandsVars

\* transcript/service.py, ADR-010: what a command changes, adds or takes away is
\* among the invalidation roots it returns.
THEOREM RootsCover == StudioSpec => RootsCoverChanges
<1>1. ASSUME CommandsInvariant, [StudioNext]_studioVars, ~UNCHANGED commandsVars,
             NEW i \in DOMAIN lines,
             ~\E j \in DOMAIN lines' :
                lines'[j].id = lines[i].id /\ Commands!Content(lines'[j]) = Commands!Content(lines[i])
      PROVE  lines[i].id \in fact'.roots
  <2>1. PICK k \in DOMAIN lines : Rewrites(k) \/ Splits(k) \/ Merges(k)
    BY <1>1, CommandsRun, CommandHasShape
  <2>2. \A j \in DOMAIN lines' : lines'[j] # lines[i]
    BY <1>1
  <2>3. CASE Rewrites(k)
    BY <1>1, <2>2, <2>3 DEF Rewrites
  <2>4. CASE Splits(k)
    <3>1. CASE i \in 1..k - 1
      <4>1. i \in DOMAIN lines' /\ lines'[i] = lines[i]
        BY <1>1, <2>4, <3>1, OneLineToAnId DEF Splits
      <4> QED
        BY <2>2, <4>1
    <3>2. CASE i \in k + 1 .. Len(lines)
      <4>1. i + 1 \in k + 2 .. Len(lines) + 1 /\ (i + 1) - 1 = i
        BY <1>1, <3>2, OneLineToAnId
      <4>2. i + 1 \in DOMAIN lines' /\ lines'[i + 1] = lines[(i + 1) - 1]
        BY <1>1, <2>4, <4>1, OneLineToAnId DEF Splits
      <4> QED
        BY <2>2, <4>1, <4>2
    <3>3. CASE i = k
      BY <2>4, <3>3 DEF Splits
    <3> QED
      BY <1>1, <3>1, <3>2, <3>3, OneLineToAnId
  <2>5. CASE Merges(k)
    <3>1. CASE i \in 1..k - 1
      <4>1. i \in DOMAIN lines' /\ lines'[i] = lines[i]
        BY <1>1, <2>5, <3>1, OneLineToAnId DEF Merges
      <4> QED
        BY <2>2, <4>1
    <3>2. CASE i \in k + 2 .. Len(lines)
      <4>1. i - 1 \in k + 1 .. Len(lines) - 1 /\ (i - 1) + 1 = i
        BY <1>1, <3>2, OneLineToAnId
      <4>2. i - 1 \in DOMAIN lines' /\ lines'[i - 1] = lines[(i - 1) + 1]
        BY <1>1, <2>5, <4>1, OneLineToAnId DEF Merges
      <4> QED
        BY <2>2, <4>1, <4>2
    <3>3. CASE i \in {k, k + 1}
      BY <2>5, <3>3 DEF Merges
    <3> QED
      BY <1>1, <3>1, <3>2, <3>3, OneLineToAnId
  <2> QED
    BY <2>1, <2>3, <2>4, <2>5
<1>2. ASSUME CommandsInvariant, [StudioNext]_studioVars, ~UNCHANGED commandsVars,
             NEW j \in DOMAIN lines', ~\E i \in DOMAIN lines : lines[i].id = lines'[j].id
      PROVE  lines'[j].id \in fact'.roots
  <2>1. PICK k \in DOMAIN lines : Rewrites(k) \/ Splits(k) \/ Merges(k)
    BY <1>2, CommandsRun, CommandHasShape
  <2>2. \A i \in DOMAIN lines : lines'[j] # lines[i]
    BY <1>2
  <2>3. CASE Rewrites(k)
    BY <1>2, <2>3 DEF Rewrites
  <2>4. CASE Splits(k)
    <3>1. j \notin 1..k - 1
      BY <1>2, <2>2, <2>4, OneLineToAnId DEF Splits
    <3>2. j \notin k + 2 .. Len(lines) + 1
      <4> SUFFICES ASSUME j \in k + 2 .. Len(lines) + 1 PROVE FALSE
        OBVIOUS
      <4>1. j - 1 \in DOMAIN lines /\ lines'[j] = lines[j - 1]
        BY <1>2, <2>4, OneLineToAnId DEF Splits
      <4> QED
        BY <2>2, <4>1
    <3>3. j \in {k, k + 1}
      BY <1>2, <2>4, <3>1, <3>2, OneLineToAnId DEF Splits
    <3> QED
      BY <2>4, <3>3 DEF Splits
  <2>5. CASE Merges(k)
    <3>1. j \notin 1..k - 1
      BY <1>2, <2>2, <2>5, OneLineToAnId DEF Merges
    <3>2. j \notin k + 1 .. Len(lines) - 1
      <4> SUFFICES ASSUME j \in k + 1 .. Len(lines) - 1 PROVE FALSE
        OBVIOUS
      <4>1. j + 1 \in DOMAIN lines /\ lines'[j] = lines[j + 1]
        BY <1>2, <2>5, OneLineToAnId DEF Merges
      <4> QED
        BY <2>2, <4>1
    <3>3. j = k
      BY <1>2, <2>5, <3>1, <3>2, OneLineToAnId DEF Merges
    <3> QED
      BY <2>5, <3>3 DEF Merges
  <2> QED
    BY <2>1, <2>3, <2>4, <2>5
<1>3. CommandsInvariant /\ [StudioNext]_studioVars => [Commands!ChangesAreRoots]_commandsVars
  BY <1>1, <1>2 DEF Commands!ChangesAreRoots
<1> QED
  BY <1>3, CommandsAlways, PTL
  DEF StudioSpec, RootsCoverChanges, Commands!RootsCoverChanges, Commands!vars, commandsVars

-----------------------------------------------------------------------------
(* The types of the services.                                              *)

\* Profiles and consents are valid and kept under their own identifiers.
LEMMA RightsTyped ==
    /\ Rights!Init => Rights!TypeOK
    /\ RightsInvariant /\ Rights!TypeOK /\ [Rights!Next]_rightsVars => Rights!TypeOK'
<1>1. MaxClock \in Nat
  BY StudioConstants DEF Rights!RightsConstants
<1>2. Rights!Init => Rights!TypeOK
  BY <1>1 DEF Rights!Init, Rights!TypeOK
<1> SUFFICES ASSUME RightsInvariant, Rights!TypeOK, [Rights!Next]_rightsVars PROVE Rights!TypeOK'
  BY <1>2
<1>3. PICK S : ledger \in Seq(S)
  BY DEF RightsInvariant
<1>4. PICK P, C : profiles \in [ProfileIds -> P] /\ consents \in [ConsentIds -> C]
  BY DEF RightsInvariant
<1>5. ASSUME NEW e, e.kind \in Rights!Kinds, ledger' = Append(ledger, e)
      PROVE  \A i \in DOMAIN ledger' : ledger'[i].kind \in Rights!Kinds
  <2>1. /\ Len(ledger) \in Nat /\ DOMAIN ledger = 1..Len(ledger)
        /\ DOMAIN ledger' = 1..Len(ledger) + 1
        /\ \A i \in 1..Len(ledger) : ledger'[i] = ledger[i]
        /\ ledger'[Len(ledger) + 1] = e
    BY <1>3, <1>5, Appended
  <2> QED
    BY <1>5, <2>1 DEF Rights!TypeOK
<1>6. ASSUME NEW k \in Rights!Kinds, NEW p, NEW c, NEW s, Rights!Append_(k, p, c, s)
      PROVE  \A i \in DOMAIN ledger' : ledger'[i].kind \in Rights!Kinds
  BY <1>5, <1>6 DEF Rights!Append_, Rights!Entry
<1>7. ASSUME NEW v \in ProfileOffers, Rights!RegisterProfile(v) PROVE Rights!TypeOK'
  <2>1. \A i \in DOMAIN ledger' : ledger'[i].kind \in Rights!Kinds
    BY <1>6, <1>7 DEF Rights!RegisterProfile, Rights!Kinds
  <2>2. /\ profiles' = [profiles EXCEPT ![v.id] = v] /\ Rights!ValidProfile(v)
        /\ consents' = consents /\ clock' = clock
    BY <1>7 DEF Rights!RegisterProfile
  <2>3. \A id \in ProfileIds : profiles'[id] = IF id = v.id THEN v ELSE profiles[id]
    BY <1>4, <2>2
  <2> QED
    BY <2>1, <2>2, <2>3 DEF Rights!TypeOK, Rights!ValidProfile
<1>8. ASSUME NEW c \in ConsentOffers, Rights!RegisterConsent(c) PROVE Rights!TypeOK'
  <2>1. \A i \in DOMAIN ledger' : ledger'[i].kind \in Rights!Kinds
    BY <1>6, <1>8 DEF Rights!RegisterConsent, Rights!Kinds
  <2>2. /\ consents' = [consents EXCEPT ![c.id] = c] /\ Rights!ValidConsent(c)
        /\ profiles' = profiles /\ clock' = clock
    BY <1>8 DEF Rights!RegisterConsent
  <2>3. \A id \in ConsentIds : consents'[id] = IF id = c.id THEN c ELSE consents[id]
    BY <1>4, <2>2
  <2> QED
    BY <2>1, <2>2, <2>3 DEF Rights!TypeOK, Rights!ValidConsent
<1>9. ASSUME NEW v \in ProfileIds, NEW r \in Requests, Rights!Authorize(v, r)
      PROVE  Rights!TypeOK'
  <2>1. \A i \in DOMAIN ledger' : ledger'[i].kind \in Rights!Kinds
    BY <1>6, <1>9 DEF Rights!Authorize, Rights!Kinds
  <2>2. profiles' = profiles /\ consents' = consents /\ clock' = clock
    BY <1>9 DEF Rights!Authorize
  <2> QED
    BY <2>1, <2>2 DEF Rights!TypeOK
<1>10. ASSUME NEW c \in ConsentIds, Rights!RevokeConsent(c) PROVE Rights!TypeOK'
  <2>1. \A i \in DOMAIN ledger' : ledger'[i].kind \in Rights!Kinds
    BY <1>6, <1>10 DEF Rights!RevokeConsent, Rights!Kinds
  <2>2. profiles' = profiles /\ consents' = consents /\ clock' = clock
    BY <1>10 DEF Rights!RevokeConsent
  <2> QED
    BY <2>1, <2>2 DEF Rights!TypeOK
<1>11. ASSUME NEW v \in ProfileIds, Rights!DisableProfile(v) PROVE Rights!TypeOK'
  <2>1. \A i \in DOMAIN ledger' : ledger'[i].kind \in Rights!Kinds
    BY <1>6, <1>11 DEF Rights!DisableProfile, Rights!Kinds
  <2>2. /\ profiles' = [profiles EXCEPT ![v].status = "disabled"] /\ profiles[v] # None
        /\ consents' = consents /\ clock' = clock
    BY <1>11 DEF Rights!DisableProfile
  <2>3. PICK old, new : old = profiles[v] /\ new = profiles'[v]
    OBVIOUS
  <2>4. DOMAIN old = {"id", "project", "origin", "status", "areas", "consent"}
    BY <2>2, <2>3 DEF RightsInvariant, ProfileExplained
  <2>5. new = [old EXCEPT !.status = "disabled"]
        /\ \A id \in ProfileIds : profiles'[id] = IF id = v THEN new ELSE profiles[id]
    BY <1>4, <2>2, <2>3
  <2>6. new.id = old.id /\ new.origin = old.origin /\ new.areas = old.areas /\ new.consent = old.consent
    BY <2>4, <2>5
  <2>7. Rights!ValidProfile(old) /\ old.id = v
    BY <2>2, <2>3 DEF Rights!TypeOK
  <2>8. Rights!ValidProfile(new) /\ new.id = v
    BY <2>6, <2>7 DEF Rights!ValidProfile
  <2> QED
    BY <2>1, <2>2, <2>5, <2>8 DEF Rights!TypeOK
<1>12. CASE Rights!Tick
  BY <1>1, <1>12 DEF Rights!Tick, Rights!TypeOK
<1>13. CASE UNCHANGED rightsVars
  BY <1>13 DEF rightsVars, Rights!TypeOK
<1> QED
  BY <1>7, <1>8, <1>9, <1>10, <1>11, <1>12, <1>13 DEF Rights!Next

\* A fit has lengths.
LEMMA FitterTyped ==
    /\ Fitter!Init => Fitter!TypeOK
    /\ Fitter!TypeOK /\ [Fitter!Next]_fit => Fitter!TypeOK'
<1>1. Fitter!Init => Fitter!TypeOK
  BY DEF Fitter!Init, Fitter!TypeOK
<1> SUFFICES ASSUME Fitter!TypeOK, [Fitter!Next]_fit PROVE Fitter!TypeOK'
  BY <1>1
<1>2. CASE Fitter!Next
  BY <1>2, FitterStep DEF Fitter!TypeOK, HasLengths
<1>3. CASE UNCHANGED fit
  BY <1>3 DEF Fitter!TypeOK, Fitter!NoFit
<1> QED
  BY <1>2, <1>3

\* The commands count revisions up to their bound.
LEMMA CommandsTyped ==
    /\ Commands!Init => Commands!TypeOK
    /\ CommandsInvariant /\ Commands!TypeOK /\ [Commands!Next]_commandsVars => Commands!TypeOK'
<1>1. MaxRevision \in Nat
  BY StoreConstants
<1>2. Commands!Init => revision = 0
  BY DEF Commands!Init
<1> DEFINE Counts == revision < MaxRevision /\ revision' = revision + 1
<1>3. Commands!Next => Counts
  <2>1. ASSUME NEW op, NEW ls, NEW affected, NEW stage, NEW automated,
               \/ Commands!Finish(op, ls, affected, stage, automated)
               \/ Commands!FinishCurrentRoots(op, ls, affected, stage, automated)
        PROVE  Counts
    BY <2>1 DEF Commands!Finish, Commands!FinishCurrentRoots
  <2> HIDE DEF Counts
  <2>2. ASSUME NEW i \in DOMAIN lines, NEW s \in Commands!Statuses, Commands!ChangeStatus(i, s)
        PROVE  Counts
    BY <2>1, <2>2 DEF Commands!ChangeStatus
  <2>3. ASSUME NEW i \in DOMAIN lines,
               \/ \E t \in Texts : Commands!EditText(i, t)
               \/ \E f \in LockSets : Commands!LockFields(i, f) \/ Commands!UnlockFields(i, f)
               \/ \E p \in Proposals : Commands!AutomatedAsrUpdate(i, p)
               \/ \E s \in Speakers \cup {None} : Commands!AssignSpeaker(i, s)
               \/ \E c \in Characters \cup {None} : Commands!AssignCharacter(i, c)
        PROVE  Counts
    BY <2>1, <2>3 DEF Commands!EditText, Commands!LockFields, Commands!UnlockFields,
       Commands!AutomatedAsrUpdate, Commands!AssignSpeaker, Commands!AssignCharacter
  <2>4. ASSUME NEW i, NEW one, NEW two, NEW s, NEW e, NEW lt, NEW rt,
               Commands!Split(i, one, two, s, e, lt, rt)
        PROVE  Counts
    BY <2>1, <2>4 DEF Commands!Split
  <2>5. ASSUME NEW i, NEW merged, NEW t, NEW overlap, Commands!Merge(i, merged, t, overlap)
        PROVE  Counts
    BY <2>1, <2>5 DEF Commands!Merge
  <2>6. ASSUME NEW i \in DOMAIN lines, Commands!Approve(i) PROVE Counts
    BY <2>1, <2>6 DEF Commands!Approve
  <2> QED
    BY <2>2, <2>3, <2>4, <2>5, <2>6 DEF Commands!Next
<1> QED
  BY <1>1, <1>2, <1>3, CommandsInit, CommandsStep
  DEF Commands!TypeOK, CommandsInvariant, commandsVars

\* The takes are within the limit.
LEMMA TakesTyped ==
    /\ Takes!Init => Takes!TypeOK
    /\ TakesInvariant /\ Takes!TypeOK /\ [Takes!Next]_takes => Takes!TypeOK'
<1>1. MaxTakes \in Nat
  BY StudioConstants DEF Takes!TakesConstants
<1>2. Takes!Init => Takes!TypeOK
  BY <1>1, EmptySeq DEF Takes!Init, Takes!TypeOK
<1> SUFFICES ASSUME TakesInvariant, Takes!TypeOK, [Takes!Next]_takes PROVE Takes!TypeOK'
  BY <1>2
<1>3. takes' \in Seq(TakeRecords)
  BY TakesStep DEF TakesInvariant
<1>4. takes \in Seq(TakeRecords) /\ Len(takes) \in Nat /\ DOMAIN takes = 1..Len(takes)
      /\ Len(takes) <= MaxTakes
  BY LenProperties DEF TakesInvariant, Takes!TypeOK
<1>5. Len(takes') <= MaxTakes
  <2>1. ASSUME NEW id \in TakeIds, NEW first \in Takes!Statuses, Takes!AddTake(id, first)
        PROVE  Len(takes') <= MaxTakes
    <3>1. PICK new \in TakeRecords : takes' = Append(takes, new) /\ Len(takes) < MaxTakes
      BY <2>1 DEF Takes!AddTake, TakeRecords
    <3>2. Len(takes') = Len(takes) + 1
      BY <1>4, <3>1, AppendProperties
    <3>3. Len(takes) \in Nat /\ Len(takes) < MaxTakes
      BY <1>4, <3>1
    <3> QED
      BY <1>1, <3>2, <3>3
  <2>2. ASSUME NEW i \in DOMAIN takes, NEW goal, Takes!Transition(i, goal)
        PROVE  Len(takes') <= MaxTakes
    <3>1. DOMAIN takes' = 1..Len(takes)
      BY <1>4, <2>2 DEF Takes!Transition
    <3>2. Len(takes') = Len(takes)
      BY <1>3, <1>4, <3>1, LenProperties
    <3> QED
      BY <1>4, <3>2
  <2> QED
    BY <1>4, <2>1, <2>2 DEF Takes!Next
<1> QED
  BY <1>3, <1>5 DEF Takes!TypeOK, TakeRecords

\* The job of the domain.
LEMMA EntityTyped == EntityInvariant => Entity!TypeOK
BY StudioConstants DEF EntityInvariant, Entity!TypeOK, Entity!Valid, Entity!EntityConstants

\* Where the processes and the transaction are.
SchemaPlaced ==
    /\ appAt \in [Apps -> {"idle", "saved", "applying", "ready", "refused"}]
    /\ writer \in Apps \cup {None} /\ executed \in 0..Statements
    /\ \A a \in Apps : appNext[a] \in 1 .. Len(Migrations[a]) + 1

\* A process is at a migration that it knows, or behind the last.
LEMMA SchemaTyped ==
    /\ Schema!Init => Schema!TypeOK
    /\ SchemaInvariant /\ Schema!TypeOK /\ [Schema!Next]_schemaVars => Schema!TypeOK'
<1>1. /\ Statements \in Nat
      /\ \A a \in Apps : Len(Migrations[a]) \in Nat
  BY StudioConstants, LenProperties DEF Schema!SchemaConstants
<1>2. Schema!Init => Schema!TypeOK
  <2>1. ASSUME Schema!Init PROVE \A a \in Apps : appNext[a] \in 1 .. Schema!Supported(a) + 1
    BY <1>1, <2>1 DEF Schema!Init, Schema!Supported
  <2> QED
    BY <1>1, <2>1, EmptySeq DEF Schema!Init, Schema!TypeOK, Schema!Version
<1> SUFFICES ASSUME SchemaInvariant, Schema!TypeOK, [Schema!Next]_schemaVars
             PROVE  Schema!TypeOK'
  BY <1>2
<1>3. \A v \in 1..Len(history') : history'[v].by \in Apps
  <2>1. PICK h : h = history'
    OBVIOUS
  <2>2. h \in Seq(Rows)
    BY <2>1, SchemaStep DEF SchemaInvariant, HistoryFits
  <2>3. \A v \in 1..Len(h) : h[v] \in Rows
    BY <2>2, ElementOfSeq
  <2> QED
    BY <2>1, <2>3 DEF Rows
<1>4. /\ appAt \in [Apps -> {"idle", "saved", "applying", "ready", "refused"}]
      /\ \A a \in Apps : appNext[a] \in 1 .. Len(Migrations[a]) + 1
      /\ DOMAIN appNext = Apps /\ Len(history) \in Nat
      /\ writer \in Apps \cup {None} /\ executed \in 0..Statements
      /\ \A a \in Apps : writer = a => appNext[a] <= Len(Migrations[a])
  BY LenProperties DEF Schema!TypeOK, Schema!Supported, SchemaInvariant, HistoryFits
<1>5. SchemaPlaced'
  <2>1. CASE UNCHANGED schemaVars
    BY <1>4, <2>1 DEF schemaVars, SchemaPlaced
  <2>2. ASSUME NEW a \in Apps, Schema!Backup(a) \/ Schema!Return(a) \/ Schema!Reopen(a)
        PROVE  SchemaPlaced'
    BY <1>4, <2>2 DEF SchemaPlaced, Schema!Backup, Schema!Return, Schema!Reopen
  <2>3. ASSUME NEW a \in Apps, Schema!Read(a) PROVE SchemaPlaced'
    <3>1. \/ /\ appNext' = [appNext EXCEPT ![a] = Len(history) + 1]
             /\ Len(history) + 1 \in 1 .. Len(Migrations[a]) + 1
          \/ appNext' = appNext
      BY <1>1, <1>4, <2>3 DEF Schema!Read, Schema!Compatible, Schema!Version, Schema!Supported
    <3>2. \A b \in Apps : appNext'[b] \in 1 .. Len(Migrations[b]) + 1
      BY <1>4, <3>1
    <3>3. /\ appAt' \in [Apps -> {"idle", "saved", "applying", "ready", "refused"}]
          /\ writer' = writer /\ executed' = executed
      BY <1>4, <2>3 DEF Schema!Read
    <3> QED
      BY <1>4, <3>2, <3>3 DEF SchemaPlaced
  <2>4. ASSUME NEW a \in Apps, Schema!Begin(a) \/ Schema!Execute(a) \/ Schema!Rollback(a)
        PROVE  SchemaPlaced'
    BY <1>1, <1>4, <2>4 DEF SchemaPlaced, Schema!Begin, Schema!Execute, Schema!Rollback
  <2>5. ASSUME NEW a \in Apps, Schema!Commit(a) PROVE SchemaPlaced'
    <3>1. /\ appNext' = [appNext EXCEPT ![a] = @ + 1] /\ writer = a
          /\ appAt' = appAt /\ writer' = None /\ executed' = 0
      BY <2>5 DEF Schema!Commit
    <3>2. appNext[a] \in Nat \ {0} /\ appNext[a] <= Len(Migrations[a]) /\ Len(Migrations[a]) \in Nat
      BY <1>1, <1>4, <3>1
    <3>3. appNext[a] + 1 \in 1 .. Len(Migrations[a]) + 1
      BY <3>2
    <3>4. \A b \in Apps : appNext'[b] \in 1 .. Len(Migrations[b]) + 1
      BY <1>4, <3>1, <3>3
    <3> QED
      BY <1>1, <1>4, <3>1, <3>4 DEF SchemaPlaced
  <2> QED
    BY <2>1, <2>2, <2>3, <2>4, <2>5 DEF Schema!Next
<1> QED
  BY <1>3, <1>5 DEF SchemaPlaced, Schema!TypeOK, Schema!Version, Schema!Supported

\* The catalog, from its invariant and its version.
LEMMA CatalogTyped ==
    /\ Catalog!Init => Catalog!TypeOK
    /\ CatalogInvariant /\ Catalog!TypeOK /\ [Catalog!Next]_catalogVars => Catalog!TypeOK'
<1>1. CatalogInvariant /\ version \in {0, 1} /\ opening \in BOOLEAN => Catalog!TypeOK
  BY DEF CatalogInvariant, CatalogRows, Catalog!TypeOK
<1>2. Catalog!Init => version \in {0, 1} /\ opening \in BOOLEAN
  BY DEF Catalog!Init
<1>3. ASSUME Catalog!TypeOK, [Catalog!Next]_catalogVars
      PROVE  version' \in {0, 1} /\ opening' \in BOOLEAN
  <2>1. version \in {0, 1} /\ opening \in BOOLEAN
    BY <1>3 DEF Catalog!TypeOK
  <2>2. \/ version' = version /\ opening' = opening
        \/ version' = 1 /\ (opening' = FALSE \/ opening' = opening)
        \/ version' = version /\ opening' = TRUE
    BY <1>3 DEF Catalog!Next, Catalog!Preflight, Catalog!Initialize, Catalog!InitializeElsewhere,
       Catalog!UpsertProject, Catalog!SetPinned, Catalog!RemoveProject, Catalog!Move, catalogVars
  <2> QED
    BY <2>1, <2>2, Zenon
<1>4. ASSUME CatalogInvariant', version' \in {0, 1}, opening' \in BOOLEAN PROVE Catalog!TypeOK'
  BY <1>4 DEF CatalogInvariant, CatalogRows, Catalog!TypeOK
<1> QED
  BY <1>1, <1>2, <1>3, <1>4, CatalogStep

\* The undo history, from its invariant.
LEMMA UndoTypes == OneLine(timeline, undone, redone, past) => Undo!TypeOK
BY DEF OneLine, UndoCommands, Undo!TypeOK

\* A step of the studio is one of the store, or leaves it alone.
LEMMA StoreRun ==
    /\ StudioInit => Init
    /\ [StudioNext]_studioVars => [Next]_vars
BY DEF StudioInit, StudioNext, studioVars, storeVars, vars

\* The services that keep what a studio knows have their types.
ServicesTyped ==
    /\ StoreInvariant /\ CommandsInvariant /\ Commands!TypeOK
    /\ RightsInvariant /\ Rights!TypeOK /\ RouterInvariant
    /\ Fitter!TypeOK /\ TakesInvariant /\ Takes!TypeOK /\ EntityInvariant
    /\ SchemaInvariant /\ Schema!TypeOK /\ CatalogInvariant /\ Catalog!TypeOK /\ UndoInvariant

\* They have them in the beginning.
LEMMA ServicesBegin == StudioInit => ServicesTyped
<1> SUFFICES ASSUME StudioInit PROVE ServicesTyped
  OBVIOUS
<1>1. StoreInvariant /\ CommandsInvariant /\ Commands!TypeOK
  BY StoreRun, InitEstablishes, CommandsRun, CommandsInit, CommandsTyped
<1>2. RightsInvariant /\ Rights!TypeOK /\ RouterInvariant
  BY RightsRun, RightsInit, RightsTyped, RouterRun, RouterInit
<1>3. Fitter!TypeOK /\ TakesInvariant /\ Takes!TypeOK /\ EntityInvariant
  BY FitterRun, FitterTyped, TakesRun, TakesStep, TakesTyped, EntityRun, EntityStep
<1>4. SchemaInvariant /\ Schema!TypeOK /\ CatalogInvariant /\ Catalog!TypeOK /\ UndoInvariant
  BY SchemaRun, SchemaInit, SchemaTyped, CatalogRun, CatalogStep, CatalogTyped, UndoRun
<1> QED
  BY <1>1, <1>2, <1>3, <1>4 DEF ServicesTyped

\* Every step of the studio leaves them theirs.
LEMMA ServicesGoOn == ServicesTyped /\ [StudioNext]_studioVars => ServicesTyped'
<1> SUFFICES ASSUME ServicesTyped, [StudioNext]_studioVars PROVE ServicesTyped'
  OBVIOUS
<1>1. StoreInvariant' /\ CommandsInvariant' /\ Commands!TypeOK'
  BY StoreRun, StepKeeps, CommandsRun, CommandsStep, CommandsTyped DEF ServicesTyped
<1>2. RightsInvariant' /\ Rights!TypeOK' /\ RouterInvariant'
  BY RightsRun, RightsStep, RightsTyped, RouterRun, RouterStep DEF ServicesTyped
<1>3. Fitter!TypeOK' /\ TakesInvariant' /\ Takes!TypeOK' /\ EntityInvariant'
  BY FitterRun, FitterTyped, TakesRun, TakesStep, TakesTyped, EntityRun, EntityStep
  DEF ServicesTyped
<1>4. SchemaInvariant' /\ Schema!TypeOK' /\ CatalogInvariant' /\ Catalog!TypeOK' /\ UndoInvariant'
  BY SchemaRun, SchemaStep, SchemaTyped, CatalogRun, CatalogStep, CatalogTyped, UndoRun
  DEF ServicesTyped
<1> QED
  BY <1>1, <1>2, <1>3, <1>4 DEF ServicesTyped

===============================================================================
