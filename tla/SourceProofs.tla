----------------------------- MODULE SourceProofs -----------------------------
(***************************************************************************)
(* Proofs about what is made from a source, for any values of the          *)
(* constants: the faces of its frames, the translation of its lines, the   *)
(* progress of its analysis, the cues of its subtitles and the words of    *)
(* its speech.  Each is a service of the studio and has an inductive       *)
(* invariant here, that EditingProofs puts together.                       *)
(***************************************************************************)
EXTENDS ServicesProofs

-----------------------------------------------------------------------------
(* Arithmetic.                                                             *)

\* What a division leaves.
LEMMA Division ==
    ASSUME NEW n \in Nat, NEW d \in Nat \ {0}
    PROVE  /\ n \div d \in Nat /\ n % d \in 0..d - 1
           /\ n = d * (n \div d) + (n % d)
<1>1. n \div d \in Int /\ n % d \in Int
  <2>1. n \div d \in Int
    OBVIOUS
  <2>2. n % d \in Int
    OBVIOUS
  <2> QED
    BY <2>1, <2>2
<1>2. 0 <= n % d /\ n % d < d
  OBVIOUS
<1>3. n \div d >= 0
  OBVIOUS
<1>4. n = d * (n \div d) + (n % d)
  OBVIOUS
<1> QED
  BY <1>1, <1>2, <1>3, <1>4

Quotient(n, d) == n \div d

IsQuotient(q, n, d) == q \in Nat /\ \E r \in Nat : r < d /\ n = d * q + r

\* Whole division gives the quotient and a remainder below the divisor.
LEMMA Divided ==
    ASSUME NEW n \in Nat, NEW d \in Nat \ {0}
    PROVE  IsQuotient(Quotient(n, d), n, d)
<1>1. n \div d \in Nat /\ n % d \in 0..d - 1 /\ n = d * (n \div d) + (n % d)
  BY Division
<1>2. PICK q, r : q = n \div d /\ r = n % d
  OBVIOUS
<1>3. q \in Nat /\ r \in Nat /\ r < d /\ n = d * q + r
  BY <1>1, <1>2
<1>4. Quotient(n, d) = q
  BY <1>2 DEF Quotient
<1> QED
  BY <1>3, <1>4 DEF IsQuotient

\* Products of what is not negative grow with either factor.
LEMMA Products ==
    ASSUME NEW a \in Nat, NEW b \in Nat, NEW c \in Nat
    PROVE  /\ a * b \in Nat /\ a * b = b * a /\ a * (b + c) = a * b + a * c
           /\ a <= b => c * a <= c * b
           /\ a < b /\ c > 0 => c * a < c * b
OBVIOUS

\* A sum whose parts are no more than c times those of another.
LEMMA SumBound ==
    ASSUME NEW S, IsFiniteSet(S), NEW f \in [S -> Nat], NEW g \in [S -> Nat], NEW c \in Nat,
           \A x \in S : f[x] <= c * g[x], NEW T, T \subseteq S
    PROVE  SumOf(f, T) <= c * SumOf(g, T)
<1> DEFINE Bad == {n \in Nat : \E s \in SUBSET S : /\ Cardinality(s) = n
                                                   /\ ~(SumOf(f, s) <= c * SumOf(g, s))}
<1>1. ASSUME NEW s \in SUBSET S
      PROVE  /\ s \subseteq S /\ IsFiniteSet(s) /\ Cardinality(s) \in Nat
             /\ SumOf(f, s) \in Nat /\ SumOf(g, s) \in Nat
  BY FS_Subset, FS_CardinalityType, SumUnfolds
<1>2. SUFFICES Bad = {}
  BY <1>1
<1>3. SUFFICES ASSUME Bad # {} PROVE FALSE
  OBVIOUS
<1>4. PICK n \in Bad : \A m \in Bad : n <= m
  BY <1>3, LeastExists
<1>5. PICK s \in SUBSET S : Cardinality(s) = n /\ ~(SumOf(f, s) <= c * SumOf(g, s))
  BY <1>4
<1>6. s # {}
  BY <1>1, <1>5, SumUnfolds
<1>7. PICK x \in s : TRUE
  BY <1>6
<1>8. PICK r \in SUBSET S : r = s \ {x}
  OBVIOUS
<1>9. SumOf(f, s) = f[x] + SumOf(f, r) /\ SumOf(g, s) = g[x] + SumOf(g, r)
  BY <1>1, <1>8, SumOfAny
<1>10. Cardinality(r) = n - 1 /\ n - 1 \in Nat
  <2>1. Cardinality(s) \in Nat /\ Cardinality(s) # 0
    BY <1>1, <1>6, FS_EmptySet
  <2>2. Cardinality(s \ {x}) = Cardinality(s) - 1
    BY <1>1, FS_RemoveElement
  <2> QED
    BY <1>5, <1>8, <2>1, <2>2
<1>11. SumOf(f, r) <= c * SumOf(g, r)
  BY <1>4, <1>10
<1>12. /\ f[x] \in Nat /\ g[x] \in Nat /\ f[x] <= c * g[x]
       /\ SumOf(f, r) \in Nat /\ SumOf(g, r) \in Nat
  BY <1>1
<1>13. c * (g[x] + SumOf(g, r)) = c * g[x] + c * SumOf(g, r)
       /\ c * g[x] \in Nat /\ c * SumOf(g, r) \in Nat
  BY <1>12, Products
<1> QED
  BY <1>5, <1>9, <1>11, <1>12, <1>13

\* Where it is c times the other, each part is.
LEMMA SumTight ==
    ASSUME NEW S, IsFiniteSet(S), NEW f \in [S -> Nat], NEW g \in [S -> Nat], NEW c \in Nat,
           \A x \in S : f[x] <= c * g[x], SumOf(f, S) >= c * SumOf(g, S), NEW x \in S
    PROVE  f[x] = c * g[x]
<1>1. PICK r : r = S \ {x} /\ r \subseteq S /\ IsFiniteSet(r)
  BY FS_Subset
<1>2. SumOf(f, S) = f[x] + SumOf(f, r) /\ SumOf(g, S) = g[x] + SumOf(g, r)
  BY <1>1, SumOfAny
<1>3. SumOf(f, r) <= c * SumOf(g, r)
  BY <1>1, SumBound
<1>4. f[x] \in Nat /\ g[x] \in Nat /\ SumOf(f, r) \in Nat /\ SumOf(g, r) \in Nat
  BY <1>1, SumUnfolds
<1>5. c * (g[x] + SumOf(g, r)) = c * g[x] + c * SumOf(g, r)
       /\ c * g[x] \in Nat /\ c * SumOf(g, r) \in Nat
  BY <1>4, Products
<1> QED
  BY <1>2, <1>3, <1>4, <1>5

\* The sequence n is s and then e.
IsGrown(s, e, n) ==
    /\ \E S : n \in Seq(S)
    /\ Len(s) \in Nat /\ DOMAIN s = 1..Len(s)
    /\ Len(n) = Len(s) + 1 /\ DOMAIN n = 1..Len(s) + 1
    /\ \A i \in 1..Len(s) : n[i] = s[i]
    /\ n[Len(s) + 1] = e

IsList(s) == \E S : s \in Seq(S)

\* Append() puts one element behind the others.
LEMMA GrownIs ==
    ASSUME NEW s, IsList(s), NEW e
    PROVE  IsGrown(s, e, Append(s, e))
<1>1. \E S : s \in Seq(S)
  BY DEF IsList
<1>2. /\ \E S : Append(s, e) \in Seq(S)
      /\ Len(s) \in Nat /\ DOMAIN s = 1..Len(s)
      /\ Len(Append(s, e)) = Len(s) + 1 /\ DOMAIN Append(s, e) = 1..Len(s) + 1
      /\ \A i \in 1..Len(s) : Append(s, e)[i] = s[i]
      /\ Append(s, e)[Len(s) + 1] = e
  BY <1>1, Appended
<1> QED
  BY <1>2 DEF IsGrown

\* Which remainders are rounded up.
RoundsUp(rounding, q, r, d) ==
    \/ rounding = "ceil" /\ r > 0
    \/ rounding = "nearest_even" /\ (2 * r > d \/ (2 * r = d /\ q % 2 = 1))

\* k is x / d under the policy.
Converts(x, d, rounding, k) ==
    \E q, r \in Nat : /\ r < d /\ x = d * q + r
                      /\ k = IF RoundsUp(rounding, q, r, d) THEN q + 1 ELSE q

\* Quotients are in the order of what is divided.
LEMMA QuotientsRise ==
    ASSUME NEW d \in Nat \ {0}, NEW q \in Nat, NEW p \in Nat, NEW r \in Nat, NEW s \in Nat,
           r < d, s < d, d * q + r <= d * p + s
    PROVE  q < p \/ (q = p /\ r <= s)
<1>1. d * q \in Nat /\ d * p \in Nat
  BY Products
<1>2. ASSUME p < q PROVE FALSE
  <2>1. d * (p + 1) <= d * q /\ d * (p + 1) = d * p + d * 1
    BY <1>2, Products
  <2> QED
    BY <1>1, <2>1
<1>3. ASSUME q = p PROVE r <= s
  <2>1. d * q = d * p
    BY <1>3
  <2> QED
    BY <1>1, <2>1
<1> QED
  BY <1>2, <1>3

\* Conversion keeps the order.
LEMMA ConvertsInOrder ==
    ASSUME NEW d \in Nat \ {0}, NEW x \in Nat, NEW y \in Nat, x <= y, NEW rounding,
           NEW k, NEW l, Converts(x, d, rounding, k), Converts(y, d, rounding, l)
    PROVE  k \in Nat /\ l \in Nat /\ k <= l
<1>1. PICK q \in Nat, r \in Nat :
         r < d /\ x = d * q + r /\ k = IF RoundsUp(rounding, q, r, d) THEN q + 1 ELSE q
  BY DEF Converts
<1>2. PICK p \in Nat, s \in Nat :
         s < d /\ y = d * p + s /\ l = IF RoundsUp(rounding, p, s, d) THEN p + 1 ELSE p
  BY DEF Converts
<1>3. q < p \/ (q = p /\ r <= s)
  BY <1>1, <1>2, QuotientsRise
<1>4. ASSUME q = p, r <= s, RoundsUp(rounding, q, r, d) PROVE RoundsUp(rounding, p, s, d)
  BY <1>1, <1>2, <1>4 DEF RoundsUp
<1> QED
  BY <1>1, <1>2, <1>3, <1>4

\* It moves by less than one, and by half at most to the nearest.
LEMMA ConvertsNear ==
    ASSUME NEW d \in Nat \ {0}, NEW x \in Nat, NEW rounding, NEW k, Converts(x, d, rounding, k)
    PROVE  /\ k \in Nat /\ d * k \in Nat
           /\ d * k - x < d /\ x - d * k < d
           /\ rounding = "nearest_even" => 2 * (d * k - x) <= d /\ 2 * (x - d * k) <= d
<1>1. PICK q \in Nat, r \in Nat :
         r < d /\ x = d * q + r /\ k = IF RoundsUp(rounding, q, r, d) THEN q + 1 ELSE q
  BY DEF Converts
<1>2. d * q \in Nat /\ d * (q + 1) = d * q + d * 1
  BY Products
<1>3. RoundsUp(rounding, q, r, d) => r > 0
  BY DEF RoundsUp
<1>4. ASSUME rounding = "nearest_even"
      PROVE  (RoundsUp(rounding, q, r, d) => 2 * r >= d) /\ (~RoundsUp(rounding, q, r, d) => 2 * r <= d)
  BY <1>4 DEF RoundsUp
<1>5. CASE RoundsUp(rounding, q, r, d)
  <2>1. k = q + 1 /\ d * k = d * q + d
    BY <1>1, <1>2, <1>5
  <2> QED
    BY <1>1, <1>2, <1>3, <1>4, <1>5, <2>1
<1>6. CASE ~RoundsUp(rounding, q, r, d)
  <2>1. k = q /\ d * k = d * q
    BY <1>1, <1>6
  <2> QED
    BY <1>1, <1>2, <1>4, <1>6, <2>1
<1> QED
  BY <1>5, <1>6

\* What the code computes, for a conversion without loss,
LEMMA ExactConverts ==
    ASSUME NEW x \in Nat, NEW d \in Nat \ {0}, NEW rounding, x % d = 0
    PROVE  Converts(x, d, rounding, x \div d) /\ d * (x \div d) = x
<1>1. PICK q, r : q = x \div d /\ r = x % d
  OBVIOUS
<1>2. x \div d \in Nat /\ x = d * (x \div d) + (x % d)
  BY Division
<1>3. q \in Nat /\ r = 0 /\ x = d * q + r
  BY <1>1, <1>2
<1>4. ~RoundsUp(rounding, q, 0, d)
  BY DEF RoundsUp
<1>5. d * q \in Nat
  BY <1>3, Products
<1>6. Converts(x, d, rounding, q) /\ d * q = x
  BY <1>3, <1>4, <1>5 DEF Converts
<1> QED
  BY <1>1, <1>6

\* and for one with a loss.
LEMMA CeilingIs ==
    ASSUME NEW d \in Nat \ {0}, NEW q \in Nat, NEW r \in Nat, r < d
    PROVE  -((-(d * q + r)) \div d) = IF r > 0 THEN q + 1 ELSE q
<1>1. PICK n : n = -(d * q + r)
  OBVIOUS
<1>2. d * q \in Nat
  BY Products
<1>3. n \in Int
  BY <1>1, <1>2
<1>4. n \div d \in Int
  BY <1>3
<1>5. n % d \in Int
  BY <1>3
<1>6. 0 <= n % d /\ n % d < d
  BY <1>3
<1>7. n = d * (n \div d) + (n % d)
  BY <1>3
<1>8. PICK p, s : p = n \div d /\ s = n % d
  OBVIOUS
<1>9. p \in Int /\ s \in Nat /\ s < d /\ n = d * p + s
  BY <1>4, <1>5, <1>6, <1>7, <1>8
<1>10. PICK m \in Int : m = -p
  BY <1>9
<1>11. d * p = -(d * m) /\ d * m \in Int
  BY <1>9, <1>10
<1>12. d * m = d * q + r + s
  BY <1>1, <1>2, <1>9, <1>11
<1>13. m = IF r > 0 THEN q + 1 ELSE q
  <2>1. m >= 0
    <3>1. ASSUME m < 0 PROVE d * m < 0
      BY <3>1
    <3> QED
      BY <1>2, <1>9, <1>11, <1>12, <3>1
  <2>2. m >= q
    <3>1. ASSUME m < q PROVE d * m < d * q
      BY <2>1, <3>1, Products
    <3> QED
      BY <1>2, <1>9, <1>11, <1>12, <3>1
  <2>3. m < q + 2
    <3>1. ASSUME m >= q + 2 PROVE d * (q + 2) <= d * m /\ d * (q + 2) = d * q + d * 2
      BY <2>1, <3>1, Products
    <3> QED
      BY <1>2, <1>9, <1>11, <1>12, <3>1
  <2>4. d * (q + 1) = d * q + d * 1
    BY Products
  <2>5. m = q => r = 0
    BY <1>2, <1>9, <1>12
  <2>6. m = q + 1 => r > 0
    BY <1>2, <1>9, <1>12, <2>4
  <2> QED
    BY <1>10, <2>2, <2>3, <2>5, <2>6
<1> QED
  BY <1>1, <1>8, <1>10, <1>13

\* What the subtitles and the clock round is the nearest in its direction.
LEMMA RoundedConverts ==
    ASSUME NEW x \in Nat, NEW d \in Nat \ {0},
           NEW rounding \in {"floor", "toward_zero", "ceil", "nearest_even"}
    PROVE  /\ Converts(x, d, rounding, Subtitles!Rounded(x, d, rounding))
           /\ Converts(x, d, rounding, Clock!Rounded(x, d, rounding))
<1>1. x \div d \in Nat /\ x % d \in 0..d - 1 /\ x = d * (x \div d) + (x % d)
  BY Division
<1>2. PICK q \in Nat : q = x \div d
  BY <1>1
<1>3. PICK r \in Nat : r = x % d /\ r < d
  BY <1>1
<1>4. x = d * q + r
  BY <1>1, <1>2, <1>3
<1>5. PICK k : k = IF RoundsUp(rounding, q, r, d) THEN q + 1 ELSE q
  OBVIOUS
<1>6. Converts(x, d, rounding, k)
  BY <1>3, <1>4, <1>5 DEF Converts
<1>7. CASE rounding \in {"floor", "toward_zero"}
  <2>1. k = q
    BY <1>5, <1>7 DEF RoundsUp
  <2>2. Subtitles!Rounded(x, d, rounding) = x \div d /\ Clock!Rounded(x, d, rounding) = x \div d
    BY <1>7 DEF Subtitles!Rounded, Clock!Rounded
  <2> QED
    BY <1>2, <1>6, <2>1, <2>2
<1>8. CASE rounding = "ceil"
  <2>1. k = IF r > 0 THEN q + 1 ELSE q
    BY <1>5, <1>8 DEF RoundsUp
  <2>2. -((-(d * q + r)) \div d) = k
    BY <1>3, <2>1, CeilingIs
  <2>3. -((-x) \div d) = k
    BY <1>4, <2>2
  <2>4. Subtitles!Rounded(x, d, rounding) = -((-x) \div d) /\ Clock!Rounded(x, d, rounding) = -((-x) \div d)
    BY <1>8 DEF Subtitles!Rounded, Clock!Rounded
  <2> QED
    BY <1>6, <2>3, <2>4
<1>9. CASE rounding = "nearest_even"
  <2>1. k = IF 2 * r > d \/ (2 * r = d /\ q % 2 = 1) THEN q + 1 ELSE q
    BY <1>5, <1>9 DEF RoundsUp
  <2>2. Subtitles!Rounded(x, d, rounding)
          = IF 2 * (x % d) > d \/ (2 * (x % d) = d /\ (x \div d) % 2 = 1) THEN (x \div d) + 1 ELSE x \div d
    BY <1>9 DEF Subtitles!Rounded
  <2>3. Clock!Rounded(x, d, rounding)
          = IF 2 * (x % d) > d \/ (2 * (x % d) = d /\ (x \div d) % 2 = 1) THEN (x \div d) + 1 ELSE x \div d
    BY <1>9 DEF Clock!Rounded
  <2>4. Subtitles!Rounded(x, d, rounding) = k /\ Clock!Rounded(x, d, rounding) = k
    BY <1>2, <1>3, <2>1, <2>2, <2>3
  <2> QED
    BY <1>6, <2>4
<1> QED
  BY <1>7, <1>8, <1>9

-----------------------------------------------------------------------------
(* Faces.                                                                  *)

\* A track is seen in frames that rise from its first to its last.
IsTrack(track) ==
    /\ DOMAIN track = {"first", "last", "seen"}
    /\ track.seen \in Seq(Nat) /\ track.seen # <<>>
    /\ track.seen[1] = track.first /\ track.seen[Len(track.seen)] = track.last
    /\ \A n \in 2..Len(track.seen) : track.seen[n - 1] < track.seen[n]

\* The tracks that a face of this frame went to are those that end with it.
FacesInvariant ==
    /\ frame \in Nat
    /\ \E S : tracks \in Seq(S)
    /\ matched \subseteq DOMAIN tracks
    /\ \A t \in DOMAIN tracks :
         IsTrack(tracks[t]) /\ tracks[t].last \in 0..frame
    /\ \A t \in DOMAIN tracks : t \in matched <=> tracks[t].last = frame

\* A step of the studio is one of the tracker, or leaves it alone.
LEMMA FacesRun ==
    /\ StudioInit => Faces!Init
    /\ [StudioNext]_studioVars => [Faces!Next]_facesVars
BY DEF StudioInit, StudioNext, studioVars, facesVars

\* A face that a track has not had in this frame is put behind those it had.
LEMMA TrackGrows ==
    ASSUME NEW track, IsTrack(track), NEW f \in Nat, track.last \in 0..f, track.last # f,
           NEW new, DOMAIN new = DOMAIN track,
           new.first = track.first, new.last = f, new.seen = Append(track.seen, f)
    PROVE  IsTrack(new)
<1>1. PICK seen : seen = track.seen
  OBVIOUS
<1>2. PICK more : more = Append(seen, f)
  OBVIOUS
<1>3. /\ seen \in Seq(Nat) /\ seen # <<>>
      /\ seen[1] = track.first /\ seen[Len(seen)] = track.last
      /\ \A n \in 2..Len(seen) : seen[n - 1] < seen[n]
  BY <1>1 DEF IsTrack
<1>4. Len(seen) \in Nat /\ Len(seen) >= 1 /\ DOMAIN seen = 1..Len(seen)
  BY <1>3, LenProperties, EmptySeq
<1>5. /\ more \in Seq(Nat) /\ Len(more) = Len(seen) + 1
      /\ \A n \in 1..Len(seen) : more[n] = seen[n]
      /\ more[Len(seen) + 1] = f
  BY <1>2, <1>3, <1>4, AppendProperties
<1>6. more # <<>> /\ more[1] = track.first /\ more[Len(more)] = f
  BY <1>3, <1>4, <1>5
<1>7. ASSUME NEW n \in 2..Len(more) PROVE more[n - 1] < more[n]
  <2>1. CASE n = Len(more)
    <3>1. n - 1 = Len(seen) /\ n - 1 \in 1..Len(seen)
      BY <1>4, <1>5, <2>1
    <3>2. more[n - 1] = track.last /\ more[n] = f
      BY <1>3, <1>5, <2>1, <3>1
    <3> QED
      BY <3>2
  <2>2. CASE n # Len(more)
    <3>1. n \in 2..Len(seen) /\ n \in 1..Len(seen) /\ n - 1 \in 1..Len(seen)
      BY <1>4, <1>5, <2>2
    <3> QED
      BY <1>3, <1>5, <3>1
  <2> QED
    BY <2>1, <2>2
<1>8. new.first = track.first /\ new.last = f /\ new.seen = more
  BY <1>1, <1>2
<1> QED
  BY <1>5, <1>6, <1>7, <1>8 DEF IsTrack

\* Every step keeps the tracks.
LEMMA FacesStep ==
    ASSUME FacesInvariant, [Faces!Next]_facesVars
    PROVE  FacesInvariant'
<1>1. PICK S : tracks \in Seq(S)
  BY DEF FacesInvariant
<1>2. /\ Len(tracks) \in Nat /\ DOMAIN tracks = 1..Len(tracks) /\ frame \in Nat
      /\ tracks \in [1..Len(tracks) -> S]
  BY <1>1, LenProperties DEF FacesInvariant
<1>3. /\ \A t \in DOMAIN tracks : IsTrack(tracks[t]) /\ tracks[t].last \in 0..frame
      /\ \A t \in DOMAIN tracks : t \in matched <=> tracks[t].last = frame
      /\ matched \subseteq DOMAIN tracks
  BY DEF FacesInvariant
<1>4. CASE UNCHANGED facesVars
  BY <1>4 DEF facesVars, FacesInvariant
<1>5. ASSUME NEW faces, Faces!NextFrame(faces)
      PROVE  FacesInvariant'
  <2>1. frame' = frame + 1 /\ matched' = {} /\ tracks' = tracks
    BY <1>5 DEF Faces!NextFrame
  <2>2. \A t \in DOMAIN tracks :
           tracks[t].last \in 0 .. frame + 1 /\ tracks[t].last # frame + 1
    BY <1>2, <1>3
  <2>3. (\E T : tracks' \in Seq(T)) /\ matched' \subseteq DOMAIN tracks' /\ frame' \in Nat
    BY <1>1, <1>2, <1>3, <2>1
  <2> QED
    BY <1>3, <2>1, <2>2, <2>3 DEF FacesInvariant
<1>6. ASSUME NEW t \in DOMAIN tracks, Faces!Follow(t) PROVE FacesInvariant'
  <2>1. tracks' = [tracks EXCEPT ![t].last = frame, ![t].seen = Append(@, frame)]
    BY <1>6 DEF Faces!Follow
  <2>2. t \notin matched /\ matched' = matched \cup {t} /\ frame' = frame
    BY <1>6 DEF Faces!Follow, Faces!Candidates
  <2>3. DOMAIN tracks[t] = {"first", "last", "seen"}
    BY <1>3 DEF IsTrack
  <2>4. PICK new : new = tracks'[t]
    OBVIOUS
  <2>5. /\ tracks' = [u \in DOMAIN tracks |-> tracks'[u]]
        /\ \A u \in DOMAIN tracks : u # t => tracks'[u] = tracks[u]
        /\ tracks'[t] = new
    BY <2>1, <2>4
  <2>6. IsTrack(new) /\ new.last = frame
    <3>1. /\ DOMAIN new = {"first", "last", "seen"} /\ new.first = tracks[t].first
          /\ new.last = frame /\ new.seen = Append(tracks[t].seen, frame)
      BY <2>1, <2>3, <2>4
    <3> QED
      BY <1>2, <1>3, <2>2, <2>3, <3>1, TrackGrows
  <2>7. tracks' \in Seq(S \cup {new}) /\ DOMAIN tracks' = DOMAIN tracks
    <3>1. tracks' \in [1..Len(tracks) -> S \cup {new}]
      BY <1>2, <2>5
    <3> QED
      BY <1>2, <3>1, SeqDef
  <2>8. ASSUME NEW u \in DOMAIN tracks
        PROVE  /\ IsTrack(tracks'[u]) /\ tracks'[u].last \in 0..frame
               /\ u \in matched' <=> tracks'[u].last = frame
    <3>1. CASE u = t
      BY <1>2, <2>2, <2>6, <2>5, <3>1
    <3>2. CASE u # t
      BY <1>3, <2>2, <2>5, <3>2
    <3> QED
      BY <3>1, <3>2
  <2>9. matched' \subseteq DOMAIN tracks' /\ frame' \in Nat
    BY <1>2, <1>3, <2>2, <2>7
  <2> QED
    BY <2>2, <2>7, <2>8, <2>9 DEF FacesInvariant
<1>7. CASE Faces!Begin
  <2>1. PICK new : new = [first |-> frame, last |-> frame, seen |-> <<frame>>]
    OBVIOUS
  <2>2. /\ tracks' = Append(tracks, new) /\ frame' = frame
        /\ matched' = matched \cup {Len(tracks) + 1}
    BY <1>7, <2>1 DEF Faces!Begin
  <2>3. IsTrack(new) /\ new.last = frame
    <3>1. <<frame>> \in Seq(Nat) /\ <<frame>> # <<>> /\ Len(<<frame>>) = 1 /\ <<frame>>[1] = frame
      BY <1>2
    <3>2. new.first = frame /\ new.last = frame /\ new.seen = <<frame>>
      BY <2>1
    <3>3. DOMAIN new = {"first", "last", "seen"}
      BY <2>1
    <3> QED
      BY <3>1, <3>2, <3>3 DEF IsTrack
  <2>4. \E T : tracks \in Seq(T)
    BY <1>1
  <2>5. /\ \E T : Append(tracks, new) \in Seq(T)
        /\ DOMAIN Append(tracks, new) = 1..Len(tracks) + 1
        /\ Append(tracks, new)[Len(tracks) + 1] = new
        /\ \A u \in 1..Len(tracks) : Append(tracks, new)[u] = tracks[u]
    BY <2>4, Appended
  <2>6. /\ \E T : tracks' \in Seq(T)
        /\ DOMAIN tracks' = 1..Len(tracks) + 1 /\ tracks'[Len(tracks) + 1] = new
        /\ \A u \in 1..Len(tracks) : tracks'[u] = tracks[u]
    BY <2>2, <2>5
  <2>7. ASSUME NEW u \in DOMAIN tracks'
        PROVE  /\ IsTrack(tracks'[u]) /\ tracks'[u].last \in 0..frame
               /\ u \in matched' <=> tracks'[u].last = frame
    <3>1. CASE u = Len(tracks) + 1
      BY <1>2, <2>2, <2>3, <2>6, <3>1
    <3>2. CASE u # Len(tracks) + 1
      <4>1. u \in DOMAIN tracks /\ tracks'[u] = tracks[u] /\ (u \in matched' <=> u \in matched)
        BY <1>2, <2>2, <2>6, <3>2
      <4> QED
        BY <1>3, <4>1
    <3> QED
      BY <3>1, <3>2
  <2>8. matched' \subseteq DOMAIN tracks'
    BY <1>2, <1>3, <2>2, <2>6
  <2> QED
    BY <1>2, <2>2, <2>6, <2>7, <2>8 DEF FacesInvariant
<1> QED
  BY <1>4, <1>5, <1>6, <1>7 DEF Faces!Next

\* The invariant of the tracks says that each is one face.
LEMMA FacesKept == FacesInvariant => Faces!ATrackIsOneFace
BY DEF FacesInvariant, IsTrack, Faces!ATrackIsOneFace

\* Nothing is followed in the beginning.
LEMMA FacesInit == Faces!Init => FacesInvariant
BY DEF Faces!Init, FacesInvariant

-----------------------------------------------------------------------------
(* Translation in chunks.                                                  *)

\* The length of the chunk that begins behind the first n lines.
ChunkAfter(n) == Batch!Min({ChunkSize, NumLines - n})

BatchResults == [line: 1..NumLines, text: 0..Batch!Chunked]

\* A line of an answer has its text or what the answer says, one that is
\* answered alone does not.
OfPass(r, p) == IF p = 1 THEN r.text \in {0, Batch!Chunked} ELSE r.text # Batch!Chunked

\* The result r came from an answer to the chunk (pass 1) or from the line
\* alone (pass 2), the lines come in their order but for a chunk that was
\* begun again, and what such a chunk has left for a line that was read is
\* answered again, by now or while the chunk lasts.
InPasses(q, pass, open) ==
    /\ pass \in [DOMAIN q -> 1..2]
    /\ \A r \in DOMAIN q : OfPass(q[r], pass[r])
    /\ \A r, s \in DOMAIN q : r < s =>
         \/ q[r].line < q[s].line
         \/ /\ pass[r] = 1 /\ pass[s] = 2
            /\ \/ \E t \in DOMAIN q : s <= t /\ q[t].line = q[r].line
               \/ q[r].line \in open

\* An answer e of pass p may follow those of q, where the lines still to be
\* answered one by one are those of the set.
MayFollow(q, pass, e, p, still) ==
    \A r \in DOMAIN q : \/ q[r].line < e.line
                        \/ pass[r] = 1 /\ p = 2 /\ q[r].line \in still \cup {e.line}

\* Where the results of q are while the chunk behind the first lines is in the
\* phase, and the line next is not answered yet.
Within(q, pass, where, first, next, last) ==
    \A r \in DOMAIN q :
      /\ where = "reading" => q[r].line <= first \/ pass[r] = 1
      /\ \/ q[r].line < next
         \/ where = "one_by_one" /\ pass[r] = 1 /\ q[r].line <= last

\* The passes of q stay what they are, and a line behind it that was read is of
\* the first.
SamePasses(q, pass, after, p) ==
    /\ \A r \in DOMAIN q : after[r] = pass[r]
    /\ p = 1 => after[Len(q) + 1] = 1

\* The lines of the chunk that are still to be answered one by one.
Open == {n \in 1..NumLines : phase = "one_by_one" /\ start + lineNext <= n}

\* The lines that are answered, each once in a pass.
BatchInvariant ==
    /\ start \in 0..NumLines /\ lineNext \in Nat \ {0}
    /\ phase \in {"asking", "reading", "one_by_one", "done"}
    /\ start = NumLines <=> phase = "done"
    /\ phase \in {"asking", "done"} => lineNext = 1
    /\ lineNext <= ChunkAfter(start) + 1
    /\ results \in Seq(BatchResults) /\ answer \in Seq(BOOLEAN)
    /\ \A n \in 1..start + lineNext - 1 : \E r \in DOMAIN results : results[r].line = n
    /\ \E pass :
         /\ InPasses(results, pass, Open)
         /\ Within(results, pass, phase, start, start + lineNext, start + ChunkAfter(start))

\* A step of the studio is one of the batch, or leaves it alone.
LEMMA BatchRun ==
    /\ StudioInit => Batch!Init
    /\ [StudioNext]_studioVars => [Batch!Next]_batchVars
BY DEF StudioInit, StudioNext, studioVars, batchVars

\* A chunk is not empty, unless no line is left.
LEMMA ChunkIsThere ==
    ASSUME NEW n \in 0..NumLines
    PROVE  /\ ChunkAfter(n) \in 0..ChunkSize /\ n + ChunkAfter(n) <= NumLines
           /\ n < NumLines => ChunkAfter(n) > 0
           /\ NumLines \in Nat \ {0} /\ ChunkSize \in Nat \ {0} /\ Passes \in Nat
<1>1. NumLines \in Nat \ {0} /\ ChunkSize \in Nat \ {0} /\ Passes \in Nat
  BY StudioConstants DEF Batch!BatchConstants
<1> DEFINE S == {ChunkSize, NumLines - n}
<1>2. S \subseteq Nat /\ S # {}
  BY <1>1
<1> HIDE DEF S
<1>3. \E s \in S : \A t \in S : s <= t
  BY <1>2, LeastExists
<1>4. Batch!Min(S) \in S /\ \A t \in S : Batch!Min(S) <= t
  BY <1>3 DEF Batch!Min
<1> QED
  BY <1>1, <1>4 DEF ChunkAfter, S

\* One more answer, which is of the pass p.
LEMMA OneMoreAnswer ==
    ASSUME NEW q \in Seq(BatchResults), NEW pass, NEW open, InPasses(q, pass, open),
           NEW e \in BatchResults, NEW p, p \in 1..2, NEW still,
           OfPass(e, p),
           MayFollow(q, pass, e, p, still),
           open \subseteq still \cup {e.line}, NEW more, more = Append(q, e)
    PROVE  \E after : /\ InPasses(more, after, still)
                      /\ SamePasses(q, pass, after, p)
<1>1. /\ Len(q) \in Nat /\ DOMAIN q = 1..Len(q)
      /\ DOMAIN Append(q, e) = 1..Len(q) + 1
      /\ \A i \in 1..Len(q) : Append(q, e)[i] = q[i]
      /\ Append(q, e)[Len(q) + 1] = e
  BY Appended
<1>2. more = Append(q, e)
  OBVIOUS
<1> DEFINE after == [r \in 1..Len(q) + 1 |-> IF r = Len(q) + 1 THEN p ELSE pass[r]]
<1>3. /\ pass \in [1..Len(q) -> 1..2]
      /\ \A r \in 1..Len(q) : OfPass(q[r], pass[r])
  BY <1>1 DEF InPasses
<1>4. /\ after \in [1..Len(q) + 1 -> 1..2]
      /\ \A r \in 1..Len(q) : after[r] = pass[r]
      /\ after[Len(q) + 1] = p
  BY <1>1, <1>3
<1> HIDE DEF after
<1>5. ASSUME NEW r \in 1..Len(q) + 1
      PROVE  OfPass(more[r], after[r])
  <2>1. CASE r = Len(q) + 1
    BY <1>1, <1>2, <1>4, <2>1
  <2>2. CASE r # Len(q) + 1
    <3>1. r \in 1..Len(q)
      BY <1>1, <2>2
    <3> QED
      BY <1>1, <1>2, <1>3, <1>4, <3>1
  <2> QED
    BY <2>1, <2>2
<1>6. ASSUME NEW r \in 1..Len(q) + 1, NEW s \in 1..Len(q) + 1, r < s
      PROVE  \/ more[r].line < more[s].line
             \/ /\ after[r] = 1 /\ after[s] = 2
                /\ \/ \E t \in 1..Len(q) + 1 : s <= t /\ more[t].line = more[r].line
                   \/ more[r].line \in still
  <2>1. r \in 1..Len(q) /\ more[r] = q[r] /\ after[r] = pass[r]
    BY <1>1, <1>2, <1>4, <1>6
  <2>2. CASE s = Len(q) + 1
    <3>1. more[s] = e /\ after[s] = p
      BY <1>1, <1>2, <1>4, <2>2
    <3> QED
      BY <1>1, <2>1, <2>2, <3>1 DEF MayFollow
  <2>3. CASE s # Len(q) + 1
    <3>1. s \in 1..Len(q) /\ more[s] = q[s] /\ after[s] = pass[s]
      BY <1>1, <1>2, <1>4, <2>3
    <3>2. \/ q[r].line < q[s].line
          \/ /\ pass[r] = 1 /\ pass[s] = 2
             /\ \/ \E t \in DOMAIN q : s <= t /\ q[t].line = q[r].line
                \/ q[r].line \in open
      BY <1>1, <1>6, <2>1, <3>1 DEF InPasses
    <3>3. ASSUME NEW t \in DOMAIN q, s <= t, q[t].line = q[r].line
          PROVE  \E u \in 1..Len(q) + 1 : s <= u /\ more[u].line = more[r].line
      BY <1>1, <1>2, <2>1, <3>3
    <3>4. ASSUME q[r].line \in open, q[r].line \notin still
          PROVE  \E u \in 1..Len(q) + 1 : s <= u /\ more[u].line = more[r].line
      <4>1. q[r].line = e.line
        BY <3>4
      <4>2. s <= Len(q) + 1 /\ Len(q) + 1 \in 1..Len(q) + 1 /\ more[Len(q) + 1] = e
        BY <1>1, <1>2
      <4> QED
        BY <2>1, <4>1, <4>2
    <3> QED
      BY <2>1, <3>1, <3>2, <3>3, <3>4
  <2> QED
    BY <2>2, <2>3
<1>7. InPasses(more, after, still)
  BY <1>1, <1>2, <1>4, <1>5, <1>6 DEF InPasses
<1>8. SamePasses(q, pass, after, p)
  BY <1>1, <1>4 DEF SamePasses
<1> QED
  BY <1>7, <1>8

\* An answer to the line that is next, from pass p.
LEMMA AnswerKeeps ==
    ASSUME BatchInvariant, NEW e, e \in BatchResults, e.line = start + lineNext,
           results' = Append(results, e), NEW p, p \in 1..2,
           OfPass(e, p),
           (phase = "reading" /\ p = 1) \/ (phase = "one_by_one" /\ p = 2),
           lineNext <= ChunkAfter(start), lineNext' = lineNext + 1,
           UNCHANGED <<start, phase, answer>>
    PROVE  BatchInvariant'
<1>1. /\ start \in 0..NumLines /\ lineNext \in Nat \ {0}
      /\ results \in Seq(BatchResults) /\ start # NumLines
  BY DEF BatchInvariant
<1>2. /\ ChunkAfter(start) \in 0..ChunkSize /\ start + ChunkAfter(start) <= NumLines
      /\ NumLines \in Nat \ {0}
  BY <1>1, ChunkIsThere
<1>3. ChunkAfter(start') = ChunkAfter(start)
  OBVIOUS
<1>4. PICK length \in Nat : length = ChunkAfter(start)
  BY <1>2
<1>5. PICK n \in 1..NumLines : n = start + lineNext
  BY <1>1, <1>2
<1>6. e \in BatchResults /\ e.line = n /\ results' = Append(results, e)
  BY <1>5
<1>7. PICK pass : /\ InPasses(results, pass, Open)
                  /\ Within(results, pass, phase, start, n, start + length)
  BY <1>4, <1>5 DEF BatchInvariant
<1>8. PICK still : still = {m \in 1..NumLines : phase = "one_by_one" /\ n + 1 <= m}
  OBVIOUS
<1>9. Open' = still
  BY <1>1, <1>5, <1>8 DEF Open
<1>10. Open \subseteq still \cup {n}
  BY <1>1, <1>5, <1>8 DEF Open
<1>11. /\ Len(results) \in Nat /\ DOMAIN results = 1..Len(results)
       /\ DOMAIN results' = 1..Len(results) + 1 /\ results' \in Seq(BatchResults)
       /\ \A i \in 1..Len(results) : results'[i] = results[i]
       /\ results'[Len(results) + 1] = e
  BY <1>1, <1>6, Appended, AppendProperties
<1>12. \A r \in DOMAIN results : results[r] \in BatchResults
  BY <1>1, <1>11, LenProperties
<1>13. MayFollow(results, pass, e, p, still)
  BY <1>6, <1>7, <1>8, <1>12 DEF BatchResults, MayFollow, Within
<1>14. PICK after : /\ InPasses(results', after, still)
                    /\ SamePasses(results, pass, after, p)
  <2>1. InPasses(results, pass, Open) /\ Open \subseteq still \cup {e.line}
    BY <1>6, <1>7, <1>10
  <2> QED
    BY <1>1, <1>6, <1>13, <2>1, OneMoreAnswer
<1>15. Within(results', after, phase, start, n + 1, start + length)
  <2> SUFFICES ASSUME NEW r \in DOMAIN results'
               PROVE  /\ phase = "reading" => results'[r].line <= start \/ after[r] = 1
                      /\ \/ results'[r].line < n + 1
                         \/ phase = "one_by_one" /\ after[r] = 1 /\ results'[r].line <= start + length
    BY DEF Within
  <2>1. CASE r = Len(results) + 1
    BY <1>6, <1>11, <1>14, <2>1 DEF SamePasses
  <2>2. CASE r # Len(results) + 1
    <3>1. r \in DOMAIN results /\ results'[r] = results[r] /\ after[r] = pass[r]
      BY <1>11, <1>14, <2>2 DEF SamePasses
    <3>2. results[r].line \in Nat
      BY <1>12, <3>1 DEF BatchResults
    <3>3. phase = "reading" => results[r].line <= start \/ pass[r] = 1
      BY <1>7, <3>1 DEF Within
    <3>4. \/ results[r].line < n
          \/ phase = "one_by_one" /\ pass[r] = 1 /\ results[r].line <= start + length
      BY <1>7, <3>1 DEF Within
    <3>5. results[r].line < n => results[r].line < n + 1
      BY <3>2
    <3> QED
      BY <3>1, <3>3, <3>4, <3>5
  <2> QED
    BY <2>1, <2>2
<1>16. ASSUME NEW m \in 1..n PROVE \E r \in DOMAIN results' : results'[r].line = m
  <2>1. CASE m = n
    BY <1>6, <1>11, <2>1
  <2>2. CASE m # n
    <3>1. m \in 1..start + lineNext - 1
      BY <1>1, <1>5, <2>2
    <3>2. PICK r \in DOMAIN results : results[r].line = m
      BY <3>1 DEF BatchInvariant
    <3> QED
      BY <1>11, <3>2
  <2> QED
    BY <2>1, <2>2
<1>17. start' + lineNext' = n + 1 /\ start' + lineNext' - 1 = n
  BY <1>1, <1>5
<1>18. \E pass2 :
         /\ InPasses(results', pass2, Open')
         /\ Within(results', pass2, phase', start', start' + lineNext', start' + ChunkAfter(start'))
  BY <1>3, <1>4, <1>9, <1>14, <1>15, <1>17
<1>19. /\ start' \in 0..NumLines /\ lineNext' \in Nat \ {0}
       /\ phase' \in {"asking", "reading", "one_by_one", "done"}
       /\ start' = NumLines <=> phase' = "done"
       /\ phase' \in {"asking", "done"} => lineNext' = 1
       /\ answer' \in Seq(BOOLEAN)
       /\ lineNext' <= ChunkAfter(start') + 1
  BY <1>1, <1>3, <1>4 DEF BatchInvariant
<1> QED
  BY <1>11, <1>16, <1>17, <1>18, <1>19 DEF BatchInvariant

\* A larger set of open lines does no harm.
LEMMA MoreOpen ==
    ASSUME NEW q, NEW pass, NEW open, InPasses(q, pass, open), NEW more, open \subseteq more
    PROVE  InPasses(q, pass, more)
BY DEF InPasses

\* A step that begins a chunk, or begins it again, keeps the results.
LEMMA BeginKeeps ==
    ASSUME BatchInvariant, phase \in {"asking", "reading"}, start < NumLines, lineNext' = 1,
           \/ phase = "asking" /\ phase' = "reading"
           \/ phase' = "one_by_one",
           lineNext <= ChunkAfter(start), answer' \in Seq(BOOLEAN),
           UNCHANGED <<start, results>>
    PROVE  BatchInvariant'
<1>1. /\ start \in 0..NumLines /\ lineNext \in Nat \ {0}
      /\ results \in Seq(BatchResults)
      /\ phase = "asking" => lineNext = 1
      /\ phase' # "done" /\ start' = start /\ results' = results
      /\ phase' \in {"reading", "one_by_one"}
  BY DEF BatchInvariant
<1>2. PICK length \in Nat : length = ChunkAfter(start) /\ length > 0 /\ lineNext <= length
  BY <1>1, ChunkIsThere
<1>3. NumLines \in Nat
  BY <1>1, ChunkIsThere
<1>4. PICK pass : /\ InPasses(results, pass, Open)
                  /\ Within(results, pass, phase, start, start + lineNext, start + length)
  BY <1>2 DEF BatchInvariant
<1>5. Open = {}
  BY DEF Open
<1>6. PICK still : still = Open'
  OBVIOUS
<1>7. InPasses(results, pass, still)
  <2>1. Open \subseteq still
    BY <1>5
  <2> HIDE DEF Open
  <2> QED
    BY <1>4, <2>1, MoreOpen
<1>8. \A r \in DOMAIN results : results[r].line \in Nat
  <2>1. results \in [DOMAIN results -> BatchResults]
    BY <1>1, LenProperties
  <2>2. \A r \in DOMAIN results : results[r] \in BatchResults
    BY <2>1
  <2> QED
    BY <1>3, <2>2 DEF BatchResults
<1>9. Within(results, pass, phase', start, start + 1, start + length)
  <2> SUFFICES ASSUME NEW r \in DOMAIN results
               PROVE  /\ phase' = "reading" => results[r].line <= start \/ pass[r] = 1
                      /\ \/ results[r].line < start + 1
                         \/ phase' = "one_by_one" /\ pass[r] = 1 /\ results[r].line <= start + length
    BY DEF Within
  <2>1. PICK n \in Nat : n = results[r].line
    BY <1>8
  <2>2. CASE phase = "asking"
    <3>1. n < start + 1
      BY <1>1, <1>4, <2>1, <2>2 DEF Within
    <3> QED
      BY <1>1, <2>1, <3>1
  <2>3. CASE phase = "reading"
    <3>1. n < start + lineNext /\ (n <= start \/ pass[r] = 1)
      BY <1>4, <2>1, <2>3 DEF Within
    <3>2. n < start + 1 \/ (pass[r] = 1 /\ n <= start + length)
      BY <1>1, <1>2, <3>1
    <3>3. phase' = "one_by_one"
      BY <2>3
    <3> QED
      BY <1>1, <2>1, <3>2, <3>3
  <2> QED
    BY <2>2, <2>3
<1>10. \A n \in 1..start : \E r \in DOMAIN results : results[r].line = n
  <2>1. \A n \in 1..start : n \in 1..start + lineNext - 1
    BY <1>1, <1>3
  <2> QED
    BY <2>1 DEF BatchInvariant
<1>11. start' + lineNext' = start + 1 /\ start' + lineNext' - 1 = start
  BY <1>1, <1>3
<1>12. \E pass2 :
         /\ InPasses(results', pass2, Open')
         /\ Within(results', pass2, phase', start', start' + lineNext', start' + ChunkAfter(start'))
  BY <1>1, <1>2, <1>6, <1>9, <1>11, <1>7
<1>13. /\ start' \in 0..NumLines /\ lineNext' \in Nat \ {0}
       /\ phase' \in {"asking", "reading", "one_by_one", "done"}
       /\ start' = NumLines <=> phase' = "done"
       /\ phase' \in {"asking", "done"} => lineNext' = 1
       /\ answer' \in Seq(BOOLEAN)
       /\ lineNext' <= ChunkAfter(start') + 1
  BY <1>1, <1>2, <1>3
<1> QED
  BY <1>1, <1>10, <1>11, <1>12, <1>13 DEF BatchInvariant

\* The chunk that is over has an answer for each of its lines, and nothing of
\* it is left open.
LEMMA ChunkKeeps ==
    ASSUME BatchInvariant, Batch!ChunkEnds
    PROVE  BatchInvariant'
<1>1. /\ start \in 0..NumLines /\ lineNext \in Nat \ {0}
      /\ results \in Seq(BatchResults) /\ start # NumLines
      /\ lineNext <= ChunkAfter(start) + 1
  BY DEF BatchInvariant, Batch!ChunkEnds
<1>2. PICK length \in Nat : length = ChunkAfter(start) /\ length > 0 /\ start + length <= NumLines
  BY <1>1, ChunkIsThere
<1>3. NumLines \in Nat /\ lineNext = length + 1
  BY <1>1, <1>2, ChunkIsThere DEF Batch!ChunkEnds, Batch!ChunkLength, ChunkAfter
<1>4. PICK last \in 0..NumLines : last = start + length
  BY <1>1, <1>2, <1>3
<1>5. /\ start' = last /\ lineNext' = 1 /\ results' = results
      /\ phase' = IF last = NumLines THEN "done" ELSE "asking"
  BY <1>2, <1>4 DEF Batch!ChunkEnds, Batch!ChunkLength, ChunkAfter
<1>6. start + lineNext = last + 1
  BY <1>1, <1>3, <1>4
<1>7. PICK pass : /\ InPasses(results, pass, Open)
                  /\ Within(results, pass, phase, start, last + 1, last)
  BY <1>2, <1>4, <1>6 DEF BatchInvariant
<1>8. DOMAIN results = 1..Len(results) /\ \A r \in DOMAIN results : results[r] \in BatchResults
  BY <1>1, LenProperties
<1>9. \A r \in DOMAIN results : results[r].line \in 1..NumLines
  BY <1>8 DEF BatchResults
<1>10. \A r \in DOMAIN results : results[r].line < last + 1
  BY <1>3, <1>7, <1>9 DEF Within
<1>11. InPasses(results, pass, {})
  <2>1. \A n \in Open : ~(n < last + 1)
    BY <1>1, <1>6 DEF Open
  <2>2. \A r \in DOMAIN results : results[r].line \notin Open
    BY <1>10, <2>1
  <2> QED
    BY <1>7, <2>2 DEF InPasses
<1>12. PICK still : still = Open'
  OBVIOUS
<1>13. InPasses(results, pass, still)
  BY <1>11, MoreOpen
<1>14. phase' # "reading" /\ phase' # "one_by_one" /\ phase' \in {"asking", "done"}
  BY <1>5
<1>15. Within(results, pass, phase', last, last + 1, last + ChunkAfter(last))
  BY <1>10, <1>14 DEF Within
<1>16. \A n \in 1..last : \E r \in DOMAIN results : results[r].line = n
  <2>1. start + lineNext - 1 = last
    BY <1>1, <1>3, <1>4
  <2> QED
    BY <2>1 DEF BatchInvariant
<1>17. start' + lineNext' = last + 1 /\ start' + lineNext' - 1 = last
  BY <1>3, <1>5
<1>18. \E pass2 :
         /\ InPasses(results', pass2, Open')
         /\ Within(results', pass2, phase', start', start' + lineNext', start' + ChunkAfter(start'))
  BY <1>5, <1>12, <1>13, <1>15, <1>17
<1>19. 1 <= ChunkAfter(last) + 1
  BY <1>4, ChunkIsThere
<1>20. /\ start' \in 0..NumLines /\ lineNext' \in Nat \ {0}
       /\ phase' \in {"asking", "reading", "one_by_one", "done"}
       /\ start' = NumLines <=> phase' = "done"
       /\ phase' \in {"asking", "done"} => lineNext' = 1
       /\ lineNext' <= ChunkAfter(start') + 1
  BY <1>5, <1>14, <1>19
<1>21. answer' \in Seq(BOOLEAN)
  BY DEF Batch!ChunkEnds
<1> QED
  BY <1>1, <1>5, <1>16, <1>17, <1>18, <1>20, <1>21 DEF BatchInvariant

\* The pass that wrote the text of a line is one that there is.
LEMMA PassIsThere ==
    ASSUME NEW succeeded \in SUBSET (1..Passes), succeeded # {}
    PROVE  Batch!Max(succeeded) \in 1..Passes
<1>1. Passes \in Nat
  BY StudioConstants DEF Batch!BatchConstants
<1>2. \E x \in succeeded : \A y \in succeeded : x >= y
  BY <1>1, GreatestExists
<1> QED
  BY <1>2 DEF Batch!Max

\* Every step keeps the answers.
LEMMA BatchStep ==
    ASSUME BatchInvariant, [Batch!Next]_batchVars
    PROVE  BatchInvariant'
<1>1. /\ start \in 0..NumLines /\ lineNext \in Nat \ {0}
      /\ start = NumLines <=> phase = "done"
      /\ phase = "asking" => lineNext = 1
  BY DEF BatchInvariant
<1>2. /\ NumLines \in Nat /\ Passes \in Nat /\ ChunkAfter(start) \in Nat
      /\ start + ChunkAfter(start) <= NumLines
      /\ start < NumLines => ChunkAfter(start) > 0
      /\ Batch!ChunkLength = ChunkAfter(start)
  BY <1>1, ChunkIsThere DEF ChunkAfter, Batch!ChunkLength
<1>3. CASE UNCHANGED batchVars
  <2>1. UNCHANGED <<start, phase, answer, lineNext, results>>
    BY <1>3 DEF batchVars
  <2>2. Open' = Open /\ ChunkAfter(start') = ChunkAfter(start)
    BY <2>1 DEF Open
  <2> QED
    BY <2>1, <2>2 DEF BatchInvariant
<1>4. ASSUME NEW n \in 0..ChunkSize + 1, NEW a \in [1..n -> BOOLEAN], Batch!Ask(a)
      PROVE  BatchInvariant'
  <2>1. /\ phase = "asking" /\ phase' = "reading" /\ start < NumLines /\ lineNext' = 1
        /\ UNCHANGED <<start, results>> /\ answer' = a
    BY <1>4 DEF Batch!Ask
  <2>2. answer' \in Seq(BOOLEAN)
    <3>1. n \in Nat
      BY ChunkIsThere, <1>1
    <3> QED
      BY <2>1, <3>1, SeqDef
  <2>3. lineNext <= ChunkAfter(start)
    BY <1>1, <1>2, <2>1
  <2> QED
    BY <2>1, <2>3, <2>2, BeginKeeps
<1>5. CASE Batch!AskFails
  <2>1. /\ phase = "asking" /\ phase' = "one_by_one" /\ start < NumLines /\ lineNext' = 1
        /\ UNCHANGED <<start, results, answer>>
    BY <1>5 DEF Batch!AskFails
  <2>2. answer' \in Seq(BOOLEAN)
    BY <2>1 DEF BatchInvariant
  <2>3. lineNext <= ChunkAfter(start)
    BY <1>1, <1>2, <2>1
  <2> QED
    BY <2>1, <2>3, <2>2, BeginKeeps
<1>6. CASE Batch!ReadFails
  <2>1. /\ phase = "reading" /\ phase' = "one_by_one" /\ lineNext' = 1
        /\ UNCHANGED <<start, results, answer>>
        /\ lineNext \in 1..Batch!Min({ChunkAfter(start), Len(answer)})
    BY <1>2, <1>6 DEF Batch!ReadFails
  <2>2. start < NumLines
    BY <1>1, <1>2, <2>1
  <2>3. answer \in Seq(BOOLEAN) /\ Len(answer) \in Nat
    BY LenProperties DEF BatchInvariant
  <2>4. lineNext <= ChunkAfter(start)
    <3>1. PICK S : S = {ChunkAfter(start), Len(answer)}
      OBVIOUS
    <3>2. S \subseteq Nat /\ S # {}
      BY <1>2, <2>3, <3>1
    <3>3. \E x \in S : \A y \in S : x <= y
      BY <3>2, LeastExists
    <3>4. Batch!Min(S) \in S /\ \A y \in S : Batch!Min(S) <= y
      BY <3>3 DEF Batch!Min
    <3>5. PICK m \in Nat : m = Batch!Min(S) /\ m <= ChunkAfter(start)
      BY <3>1, <3>2, <3>4
    <3>6. lineNext \in 1..m
      BY <2>1, <3>1, <3>5
    <3> QED
      BY <1>1, <1>2, <3>5, <3>6
  <2> QED
    BY <2>1, <2>2, <2>3, <2>4, BeginKeeps
<1>7. CASE Batch!Read
  <2>1. /\ phase = "reading" /\ lineNext <= ChunkAfter(start)
        /\ Batch!Answer(IF lineNext <= Len(answer) THEN Batch!Chunked ELSE 0)
        /\ lineNext' = lineNext + 1
        /\ UNCHANGED <<start, phase, answer>>
    BY <1>2, <1>7 DEF Batch!Read
  <2>2. PICK text \in {0, Batch!Chunked} :
          text = IF lineNext <= Len(answer) THEN Batch!Chunked ELSE 0
    OBVIOUS
  <2>3. PICK e : e = [line |-> start + lineNext, text |-> text]
    OBVIOUS
  <2>4. results' = Append(results, e)
    BY <2>1, <2>2, <2>3 DEF Batch!Answer
  <2>5. start + lineNext \in 1..NumLines /\ text \in 0..Batch!Chunked
    BY <1>1, <1>2, <2>1, <2>2 DEF Batch!Chunked
  <2>6. e \in BatchResults /\ e.line = start + lineNext /\ OfPass(e, 1)
    BY <2>2, <2>3, <2>5 DEF BatchResults, OfPass
  <2> QED
    BY <2>1, <2>4, <2>6, AnswerKeeps
<1>8. ASSUME NEW succeeded \in SUBSET (1..Passes), Batch!TranslateLine(succeeded)
      PROVE  BatchInvariant'
  <2>1. /\ phase = "one_by_one" /\ lineNext <= ChunkAfter(start)
        /\ Batch!Answer(IF succeeded = {} THEN 0 ELSE Batch!Max(succeeded))
        /\ lineNext' = lineNext + 1
        /\ UNCHANGED <<start, phase, answer>>
    BY <1>2, <1>8 DEF Batch!TranslateLine
  <2>2. PICK text \in 0..Passes : text = IF succeeded = {} THEN 0 ELSE Batch!Max(succeeded)
    BY <1>2, PassIsThere
  <2>3. PICK e : e = [line |-> start + lineNext, text |-> text]
    OBVIOUS
  <2>4. results' = Append(results, e)
    BY <2>1, <2>2, <2>3 DEF Batch!Answer
  <2>5. start + lineNext \in 1..NumLines /\ text \in 0..Batch!Chunked /\ text # Batch!Chunked
    BY <1>1, <1>2, <2>1, <2>2 DEF Batch!Chunked
  <2>6. e \in BatchResults /\ e.line = start + lineNext /\ OfPass(e, 2)
    BY <2>2, <2>3, <2>5 DEF BatchResults, OfPass
  <2> QED
    BY <2>1, <2>4, <2>6, AnswerKeeps
<1>9. CASE Batch!ChunkEnds
  BY <1>9, ChunkKeeps
<1> QED
  BY <1>3, <1>4, <1>5, <1>6, <1>7, <1>8, <1>9 DEF Batch!Next

\* In the beginning nothing is asked and nothing is answered.
LEMMA BatchInit == Batch!Init => BatchInvariant
<1> SUFFICES ASSUME Batch!Init PROVE BatchInvariant
  OBVIOUS
<1>1. start = 0 /\ phase = "asking" /\ lineNext = 1 /\ results = <<>>
  BY DEF Batch!Init
<1>2. NumLines \in Nat \ {0} /\ ChunkAfter(0) \in Nat
  <2>1. NumLines \in Nat \ {0}
    BY StudioConstants DEF Batch!BatchConstants
  <2>2. 0 \in 0..NumLines
    BY <2>1
  <2> QED
    BY <2>1, <2>2, ChunkIsThere
<1>3. /\ results \in Seq(BatchResults) /\ DOMAIN results = {}
      /\ answer \in Seq(BOOLEAN)
  BY <1>1 DEF Batch!Init
<1>4. InPasses(results, results, Open) /\ Within(results, results, phase, 0, 1, ChunkAfter(0))
  BY <1>3 DEF InPasses, Within
<1>5. start + lineNext = 1 /\ start + ChunkAfter(start) = ChunkAfter(0)
  BY <1>1, <1>2
<1>6. \A n \in 1..start + lineNext - 1 : \E r \in DOMAIN results : results[r].line = n
  BY <1>1
<1> QED
  BY <1>1, <1>2, <1>3, <1>4, <1>5, <1>6 DEF BatchInvariant

-----------------------------------------------------------------------------
\* What the invariant says of the results that are there at the end.
LEMMA BatchKept == BatchInvariant => Batch!BatchAnswersEveryLine
<1> SUFFICES ASSUME BatchInvariant PROVE Batch!BatchAnswersEveryLine
  OBVIOUS
<1>1. /\ start \in 0..NumLines /\ lineNext \in Nat \ {0} /\ results \in Seq(BatchResults)
      /\ start = NumLines <=> phase = "done"
      /\ phase \in {"asking", "done"} => lineNext = 1
  BY DEF BatchInvariant
<1>2. PICK pass : InPasses(results, pass, Open)
  BY DEF BatchInvariant
<1>3. /\ Len(results) \in Nat /\ DOMAIN results = 1..Len(results)
      /\ \A r \in DOMAIN results : results[r] \in BatchResults
  BY <1>1, LenProperties
<1>4. NumLines \in Nat
  BY <1>1, ChunkIsThere
<1>5. \A r \in DOMAIN results : results[r].line \in 1..NumLines
  BY <1>3 DEF BatchResults
<1>6. /\ pass \in [DOMAIN results -> 1..2]
      /\ \A r \in DOMAIN results : OfPass(results[r], pass[r])
      /\ \A r, s \in DOMAIN results : r < s =>
           \/ results[r].line < results[s].line
           \/ /\ pass[r] = 1 /\ pass[s] = 2
              /\ \/ \E t \in DOMAIN results : s <= t /\ results[t].line = results[r].line
                 \/ results[r].line \in Open
  BY <1>2 DEF InPasses
<1>7. ASSUME NEW r \in DOMAIN results
      PROVE  r \in Batch!Final <=> \A s \in DOMAIN results : r < s => results[s].line # results[r].line
  BY <1>3 DEF Batch!Final
<1>8. Batch!Final \subseteq DOMAIN results
  BY DEF Batch!Final
<1>9. ASSUME phase = "done" PROVE {results[r].line : r \in DOMAIN results} = 1..NumLines
  <2>1. \A n \in 1..NumLines : \E r \in DOMAIN results : results[r].line = n
    BY <1>1, <1>4, <1>9 DEF BatchInvariant
  <2> QED
    BY <1>5, <2>1
<1>10. ASSUME NEW r \in Batch!Final, NEW s \in Batch!Final, phase = "done", r < s
       PROVE  results[r].line < results[s].line
  <2>1. r \in DOMAIN results /\ s \in DOMAIN results
    BY <1>8
  <2>2. Open = {}
    BY <1>10 DEF Open
  <2>3. ASSUME NEW t \in DOMAIN results, s <= t, results[t].line = results[r].line PROVE FALSE
    <3>1. r < t
      BY <1>3, <1>10, <2>1, <2>3
    <3> QED
      BY <1>7, <2>1, <2>3, <3>1
  <2> QED
    BY <1>6, <1>10, <2>1, <2>2, <2>3
<1>11. ASSUME NEW r \in DOMAIN results, NEW s \in DOMAIN results, r < s,
              results[r].line = results[s].line
       PROVE  pass[r] = 1 /\ pass[s] = 2
  <2>1. ~(results[r].line < results[s].line)
    BY <1>5, <1>11
  <2> QED
    BY <1>6, <1>11, <2>1
<1>12. ASSUME NEW n \in 1..NumLines
       PROVE  Cardinality({r \in DOMAIN results : results[r].line = n}) <= 2
  <2>1. PICK S : S = {r \in DOMAIN results : results[r].line = n}
    OBVIOUS
  <2>2. \A r, s \in S : r = s \/ (pass[r] = 1 /\ pass[s] = 2) \/ (pass[s] = 1 /\ pass[r] = 2)
    BY <1>3, <1>11, <2>1
  <2>3. \E a, b \in S \cup {0} : S \subseteq {a, b}
    <3>1. CASE S = {}
      BY <3>1
    <3>2. ASSUME NEW a \in S, S \subseteq {a} PROVE \E b \in S : S \subseteq {a, b}
      BY <3>2
    <3>3. ASSUME NEW a \in S, NEW b \in S, a # b, NEW c \in S PROVE c = a \/ c = b
      <4>1. (pass[a] = 1 /\ pass[b] = 2) \/ (pass[b] = 1 /\ pass[a] = 2)
        BY <2>2, <3>3
      <4>2. c = a \/ (pass[a] = 1 /\ pass[c] = 2) \/ (pass[c] = 1 /\ pass[a] = 2)
        BY <2>2
      <4>3. c = b \/ (pass[b] = 1 /\ pass[c] = 2) \/ (pass[c] = 1 /\ pass[b] = 2)
        BY <2>2
      <4> QED
        BY <4>1, <4>2, <4>3
    <3>4. \A a, b \in S : a # b => S \subseteq {a, b}
      BY <3>3
    <3> QED
      BY <3>1, <3>2, <3>4
  <2>4. PICK a, b \in S \cup {0} : S \subseteq {a, b}
    BY <2>3
  <2>5. IsFiniteSet({a, b}) /\ Cardinality({a, b}) <= 2
    <3>1. IsFiniteSet({b}) /\ Cardinality({b}) = 1
      BY FS_Singleton
    <3>2. {a, b} = {b} \cup {a}
      OBVIOUS
    <3> QED
      BY <3>1, <3>2, FS_AddElement
  <2>6. IsFiniteSet(S) /\ Cardinality(S) <= Cardinality({a, b})
    BY <2>4, <2>5, FS_Subset
  <2>7. Cardinality(S) \in Nat /\ Cardinality({a, b}) \in Nat
    BY <2>5, <2>6, FS_CardinalityType
  <2>8. Cardinality(S) <= 2
    BY <2>5, <2>6, <2>7
  <2> QED
    BY <2>1, <2>8
<1>13. ASSUME NEW r \in DOMAIN results \ Batch!Final, NEW s \in Batch!Final,
              results[r].line = results[s].line
       PROVE  results[r].text \in {0, Batch!Chunked} /\ results[s].text # Batch!Chunked
  <2>1. s \in DOMAIN results
    BY <1>8
  <2>2. PICK t \in DOMAIN results : r < t /\ results[t].line = results[r].line
    BY <1>7
  <2>3. pass[r] = 1
    BY <1>11, <2>2
  <2>4. ~(s < r)
    BY <1>7, <1>13, <2>1
  <2>5. r < s
    BY <1>3, <1>13, <2>1, <2>4
  <2>6. pass[s] = 2
    BY <1>11, <1>13, <2>1, <2>5
  <2>7. OfPass(results[r], pass[r]) /\ OfPass(results[s], pass[s])
    BY <1>6, <2>1
  <2> QED
    BY <2>3, <2>6, <2>7 DEF OfPass
<1>14. phase = "done" => {results[r].line : r \in DOMAIN results} = 1..NumLines
  BY <1>9
<1>15. \A r, s \in Batch!Final : phase = "done" /\ r < s => results[r].line < results[s].line
  BY <1>10
<1>16. \A n \in 1..NumLines : Batch!Cardinality({r \in DOMAIN results : results[r].line = n}) <= 2
  <2>1. ASSUME NEW n \in 1..NumLines
        PROVE  Batch!Cardinality({r \in DOMAIN results : results[r].line = n}) <= 2
    <3>1. PICK S : S = {r \in DOMAIN results : results[r].line = n}
      OBVIOUS
    <3>2. Cardinality(S) <= 2
      BY <1>12, <3>1
    <3>3. Batch!Cardinality(S) = Cardinality(S)
      BY DEF Batch!Cardinality, Cardinality
    <3> QED
      BY <3>1, <3>2, <3>3
  <2> QED
    BY <2>1
<1>17. \A r \in DOMAIN results \ Batch!Final, s \in Batch!Final :
         results[r].line = results[s].line => results[r].text \in {0, Batch!Chunked}
                                              /\ results[s].text # Batch!Chunked
  BY <1>13
<1> QED
  BY <1>14, <1>15, <1>16, <1>17 DEF Batch!BatchAnswersEveryLine

-----------------------------------------------------------------------------
(* Analysis.                                                               *)

Basis == Analysis!BasisPoints

\* The stages of a plan w, none of which has done more than there is.
Arranged(w, all) ==
    /\ all \in [DOMAIN w -> [status: {"pending", "running", "succeeded", "failed",
                                      "cancelled", "skipped"}, done: Nat]]
    /\ \A i \in DOMAIN w : all[i].done <= w[i].total
    /\ \A i \in DOMAIN w : all[i].status \in {"running", "succeeded"} =>
         \A j \in w[i].needs : all[j].status \in {"succeeded", "skipped"}

\* What a snapshot s says is so of its stages.
Told(w, s) ==
    /\ Arranged(w, s.stages) /\ s.progress \in Nat
    /\ s.progress = Basis => \A i \in DOMAIN w : s.stages[i].done = w[i].total
    /\ s.status = "succeeded" => \A i \in DOMAIN w : s.stages[i].status \in {"succeeded", "skipped"}
    /\ s.status = "failed" => \E i \in DOMAIN w : s.stages[i].status = "failed"

\* The snapshot t may be shown after s.
Follows(w, s, t) ==
    /\ s.progress <= t.progress
    /\ \A i \in DOMAIN w : /\ s.stages[i].done <= t.stages[i].done
                           /\ s.stages[i].status \in {"pending", "running"}

IsPlan(w) ==
    /\ w \in AnalysisPlans /\ DOMAIN w = 1..Len(w) /\ Len(w) \in Nat \ {0}
    /\ \A i \in DOMAIN w : /\ w[i].weight \in Nat \ {0} /\ w[i].total \in Nat \ {0}
                           /\ w[i].needs \subseteq 1..i - 1

AnalysisInvariant ==
    /\ IsPlan(work) /\ Arranged(work, stages)
    /\ collected = <<>> \/ Arranged(work, collected)
    /\ (\E S : shown \in Seq(S)) /\ Len(shown) <= MaxShown
    /\ \A n \in DOMAIN shown : Told(work, shown[n])
    /\ \A m, n \in DOMAIN shown : m < n => Follows(work, shown[m], shown[n])

\* A step of the studio is one of the analysis, or leaves it alone.
LEMMA AnalysisSteps ==
    /\ StudioInit => service # "analysis" \/ Analysis!Init
    /\ [StudioNext]_studioVars =>
         service' = service /\ (service = "analysis" => [Analysis!Next]_analysisVars)
BY DEF StudioInit, StudioNext, studioVars, analysisVars

\* The weights of an analysis are added up.
LEMMA TotalIsSum == \A f : Analysis!Total(f) = SumOf(f, DOMAIN f)
BY DEF Analysis!Total, SumOf, IsSum, Round, First, Analysis!MapThenSumSet, Analysis!MapThenFoldSet

\* The stages of a plan are finitely many.
LEMMA StagesAreFinite == ASSUME NEW w, IsPlan(w) PROVE IsFiniteSet(DOMAIN w)
BY FS_Interval DEF IsPlan

\* Progress has a unit.
LEMMA BasisIsPositive == Basis \in Nat \ {0}
BY DEF Basis, Analysis!BasisPoints

\* How far a stage is, of which all is done in the end.
LEMMA StageShare ==
    ASSUME IsPlan(work), NEW all, Arranged(work, all), NEW i \in DOMAIN work
    PROVE  /\ Analysis!StageProgress(i, all) \in 0..Basis
           /\ Analysis!StageProgress(i, all) = Basis => all[i].done = work[i].total
<1>1. PICK total \in Nat \ {0} : total = work[i].total
  BY DEF IsPlan
<1>2. PICK done \in 0..total : done = all[i].done
  BY <1>1 DEF Arranged
<1>3. PICK basis \in Nat \ {0} : basis = Basis
  BY BasisIsPositive
<1>4. done * basis \in Nat /\ done * basis <= total * basis /\ total * basis \in Nat
  BY Products
<1>5. PICK n \in Nat : n = done * basis
  BY <1>4
<1>6. PICK share : share = Quotient(n, total)
  OBVIOUS
<1>7. share \in Nat /\ \E r \in Nat : r < total /\ n = total * share + r
  BY <1>6, Divided DEF IsQuotient
<1>8. PICK r \in Nat : r < total /\ n = total * share + r
  BY <1>7
<1>9. share <= basis
  <2>1. ASSUME share >= basis + 1 PROVE FALSE
    <3>1. total * (basis + 1) <= total * share /\ total * (basis + 1) = total * basis + total
      BY <1>7, <2>1, Products
    <3>2. total * share \in Nat
      BY <1>7, Products
    <3> QED
      BY <1>4, <1>5, <1>8, <3>1, <3>2
  <2> QED
    BY <1>7, <2>1
<1>10. ASSUME share = basis PROVE done = total
  <2>1. total * basis <= done * basis
    BY <1>4, <1>5, <1>8, <1>10
  <2>2. ASSUME done < total PROVE done * basis < total * basis
    BY <2>2, Products
  <2> QED
    BY <1>4, <2>1, <2>2
<1>11. Analysis!StageProgress(i, all) = share
  BY <1>1, <1>2, <1>3, <1>5, <1>6 DEF Analysis!StageProgress, Basis, Quotient
<1> QED
  BY <1>1, <1>2, <1>3, <1>7, <1>9, <1>10, <1>11

\* The progress of the run is whole only where that of every stage is.
LEMMA RunShare ==
    ASSUME IsPlan(work), NEW all, Arranged(work, all)
    PROVE  /\ Analysis!Progress(all) \in Nat
           /\ Analysis!Progress(all) = Basis => \A i \in DOMAIN work : all[i].done = work[i].total
<1>1. PICK D : D = DOMAIN work /\ D = DOMAIN all /\ IsFiniteSet(D) /\ 1 \in D
  BY StagesAreFinite DEF IsPlan, Arranged
<1>2. PICK basis \in Nat \ {0} : basis = Basis
  BY BasisIsPositive
<1>3. PICK share : share = [i \in D |-> Analysis!StageProgress(i, all)]
  OBVIOUS
<1>4. \A i \in D : share[i] \in 0..basis
  BY <1>1, <1>2, <1>3, StageShare
<1>5. \A i \in D : share[i] = basis => all[i].done = work[i].total
  BY <1>1, <1>2, <1>3, StageShare
<1>6. PICK g : g = [i \in D |-> work[i].weight]
  OBVIOUS
<1>7. \A i \in D : g[i] \in Nat \ {0}
  BY <1>1, <1>6 DEF IsPlan
<1>8. PICK f : f = [i \in D |-> g[i] * share[i]]
  OBVIOUS
<1>9. ASSUME NEW i \in D
      PROVE  f[i] \in Nat /\ f[i] <= basis * g[i] /\ (f[i] = basis * g[i] => share[i] = basis)
  <2>1. PICK a \in Nat \ {0} : a = g[i]
    BY <1>7
  <2>2. PICK b \in 0..basis : b = share[i]
    BY <1>4
  <2>3. f[i] = a * b
    BY <1>8, <2>1, <2>2
  <2>4. a * b \in Nat /\ a * b <= a * basis /\ a * basis = basis * a
    BY Products
  <2>5. b < basis => a * b < a * basis
    BY Products
  <2>6. a * b = basis * a => b = basis
    BY <2>4, <2>5
  <2> QED
    BY <2>1, <2>2, <2>3, <2>4, <2>6
<1>10. f \in [D -> Nat] /\ g \in [D -> Nat]
  BY <1>6, <1>7, <1>8, <1>9
<1>11. PICK F \in Nat : F = SumOf(f, D)
  BY <1>1, <1>10, SumUnfolds
<1>12. PICK G \in Nat : G = SumOf(g, D)
  BY <1>1, <1>10, SumUnfolds
<1>13. G > 0
  <2>1. PICK r \in SUBSET D : r = D \ {1}
    OBVIOUS
  <2>2. IsFiniteSet(r)
    BY <1>1, FS_Subset
  <2>3. SumOf(g, D) = g[1] + SumOf(g, r)
    BY <1>1, <1>10, <2>1, SumOfAny
  <2>4. SumOf(g, r) \in Nat
    BY <1>10, <2>2, SumUnfolds
  <2>5. g[1] \in Nat \ {0}
    BY <1>1, <1>7
  <2> QED
    BY <1>12, <2>3, <2>4, <2>5
<1>14. F * basis \in Nat /\ G * basis \in Nat /\ G * basis # 0
  BY <1>13, Products
<1>15. PICK n \in Nat, d \in Nat \ {0} : n = F * basis /\ d = G * basis
  BY <1>14
<1>16. PICK q : q = Quotient(n, d)
  OBVIOUS
<1>17. Analysis!Progress(all) = q
  <2>1. f = [i \in DOMAIN all |-> work[i].weight * Analysis!StageProgress(i, all)]
    BY <1>1, <1>3, <1>6, <1>8
  <2>2. g = [i \in DOMAIN all |-> work[i].weight]
    BY <1>1, <1>6
  <2>3. DOMAIN f = D /\ DOMAIN g = D
    BY <1>6, <1>8
  <2>4. Analysis!Total(f) = F /\ Analysis!Total(g) = G
    BY <1>11, <1>12, <2>3, TotalIsSum
  <2>5. Analysis!Progress(all) = (Analysis!Total(f) * Basis) \div (Analysis!Total(g) * Basis)
    BY <2>1, <2>2, Zenon DEF Analysis!Progress, Basis
  <2> QED
    BY <1>2, <1>15, <1>16, <2>4, <2>5 DEF Quotient
<1>18. q \in Nat /\ \E r \in Nat : r < d /\ n = d * q + r
  BY <1>16, Divided DEF IsQuotient
<1>19. ASSUME q = basis PROVE \A i \in D : share[i] = basis
  <2>1. PICK r \in Nat : n = d * basis + r
    BY <1>18, <1>19
  <2>2. d * basis = basis * d /\ d * basis \in Nat /\ basis * G \in Nat
    BY Products
  <2>3. F >= basis * G
    <3>1. ASSUME F < basis * G PROVE F * basis < basis * (G * basis)
      <4>1. F * basis = basis * F /\ basis * F < basis * (basis * G) /\ G * basis = basis * G
        BY <2>2, <3>1, Products
      <4> QED
        BY <4>1
    <3>2. F * basis >= basis * (G * basis)
      BY <1>14, <1>15, <2>1, <2>2
    <3>3. basis * (G * basis) \in Nat
      BY <1>14, Products
    <3> QED
      BY <1>14, <2>2, <3>1, <3>2, <3>3
  <2>4. \A i \in D : f[i] <= basis * g[i]
    BY <1>9
  <2>5. \A i \in D : f[i] = basis * g[i]
    BY <1>1, <1>10, <1>11, <1>12, <2>3, <2>4, SumTight
  <2> QED
    BY <1>9, <2>5
<1> QED
  BY <1>1, <1>2, <1>5, <1>17, <1>18, <1>19

\* The stages are the plan's after a step.
LEMMA StagesAdvance ==
    ASSUME IsPlan(work), Arranged(work, stages), NEW i \in DOMAIN work, NEW st, NEW done,
           st \in {"running", "succeeded", "failed", "cancelled", "skipped"},
           Analysis!Advance(i, st, done)
    PROVE  work' = work /\ Arranged(work, stages')
<1>1. /\ stages' = [stages EXCEPT ![i] = [status |-> st, done |-> done]]
      /\ work' = work /\ done \in stages[i].done..work[i].total
  BY DEF Analysis!Advance
<1>2. stages[i].done \in Nat /\ work[i].total \in Nat
  BY DEF Arranged, IsPlan
<1>3. done \in Nat /\ done <= work[i].total
  BY <1>1, <1>2
<1>4. PICK new : new = [status |-> st, done |-> done]
  OBVIOUS
<1>5. stages' \in [DOMAIN work -> [status: {"pending", "running", "succeeded", "failed",
                                            "cancelled", "skipped"}, done: Nat]]
  <2>1. new \in [status: {"pending", "running", "succeeded", "failed",
                          "cancelled", "skipped"}, done: Nat]
    BY <1>3, <1>4
  <2>2. stages' = [stages EXCEPT ![i] = new]
    BY <1>1, <1>4
  <2> QED
    BY <2>1, <2>2 DEF Arranged
<1>6. \A k \in DOMAIN work : stages'[k].done <= work[k].total
  <2>1. TAKE k \in DOMAIN work
  <2>2. CASE k = i
    BY <1>1, <1>3, <2>2 DEF Arranged
  <2>3. CASE k # i
    BY <1>1, <2>3 DEF Arranged
  <2> QED
    BY <2>2, <2>3
<1>7. \A k \in DOMAIN work : stages'[k].status \in {"running", "succeeded"} =>
        \A j \in work[k].needs : stages'[j].status \in {"succeeded", "skipped"}
  BY DEF Analysis!Advance, Analysis!NeedsMet, Analysis!Whole
<1> QED
  BY <1>1, <1>5, <1>6, <1>7 DEF Arranged

\* A snapshot tells what is so.
LEMMA SnapshotIsTold ==
    ASSUME IsPlan(work), NEW all, Arranged(work, all)
    PROVE  Told(work, Analysis!Snapshot(all))
<1>1. PICK s : s = Analysis!Snapshot(all)
  OBVIOUS
<1>2. /\ s.stages = all /\ s.progress = Analysis!Progress(all)
      /\ s.status = Analysis!RunStatus(all)
  BY <1>1 DEF Analysis!Snapshot
<1>3. PICK statuses : statuses = {all[i].status : i \in DOMAIN all}
  OBVIOUS
<1>4. /\ DOMAIN all = DOMAIN work
      /\ \A i \in DOMAIN work : all[i].status \in statuses
      /\ "failed" \in statuses => \E i \in DOMAIN work : all[i].status = "failed"
  BY <1>3 DEF Arranged
<1>5. s.status = CASE "failed" \in statuses -> "failed"
                   [] "failed" \notin statuses /\ "cancelled" \in statuses -> "cancelled"
                   [] statuses \subseteq {"succeeded", "skipped"} -> "succeeded"
                   [] statuses = {"pending"} -> "queued"
                   [] OTHER -> "running"
  BY <1>2, <1>3 DEF Analysis!RunStatus, Analysis!Whole
<1>6. 1 \in DOMAIN work
  BY DEF IsPlan
<1>7. statuses # {}
  BY <1>4, <1>6
<1>8. s.status = "failed" => "failed" \in statuses
  BY <1>5, <1>7
<1>9. s.status = "succeeded" => statuses \subseteq {"succeeded", "skipped"}
  BY <1>5, <1>7
<1>10. s.progress \in Nat
  BY <1>2, RunShare
<1>11. ASSUME s.progress = Basis, NEW i \in DOMAIN work
       PROVE  all[i].done = work[i].total
  <2>1. Analysis!Progress(all) = Basis
    BY <1>2, <1>11
  <2> QED
    BY <2>1, RunShare
<1> QED
  BY <1>1, <1>2, <1>4, <1>8, <1>9, <1>10, <1>11 DEF Told

\* What may be shown next follows what is shown last.
LEMMA ForwardFollows ==
    ASSUME NEW s, NEW t, Arranged(work, s.stages), Analysis!Forward(s, t)
    PROVE  Follows(work, s, t)
BY DEF Analysis!Forward, Analysis!Onward, Follows

\* What follows what follows is behind the first.
LEMMA FollowsOn ==
    ASSUME NEW w, NEW r, NEW s, NEW t, Told(w, r), Told(w, s), Told(w, t),
           Follows(w, r, s), Follows(w, s, t)
    PROVE  Follows(w, r, t)
<1>1. r.progress \in Nat /\ s.progress \in Nat /\ t.progress \in Nat
  BY DEF Told
<1>2. \A i \in DOMAIN w : r.stages[i].done \in Nat /\ s.stages[i].done \in Nat /\ t.stages[i].done \in Nat
  BY DEF Told, Arranged
<1>3. r.progress <= s.progress /\ s.progress <= t.progress
  BY DEF Follows
<1>4. ASSUME NEW i \in DOMAIN w
      PROVE  r.stages[i].done <= t.stages[i].done /\ r.stages[i].status \in {"pending", "running"}
  <2>1. r.stages[i].done <= s.stages[i].done /\ s.stages[i].done <= t.stages[i].done
        /\ r.stages[i].status \in {"pending", "running"}
    BY DEF Follows
  <2> QED
    BY <1>2, <2>1
<1> QED
  BY <1>1, <1>3, <1>4 DEF Follows

\* A snapshot that is shown keeps what was shown.
LEMMA ShowKeeps ==
    ASSUME AnalysisInvariant, NEW all, Arranged(work, all), Analysis!Show(all), work' = work
    PROVE  /\ (\E S : shown' \in Seq(S)) /\ Len(shown') <= MaxShown
           /\ \A n \in DOMAIN shown' : Told(work, shown'[n])
           /\ \A m, n \in DOMAIN shown' : m < n => Follows(work, shown'[m], shown'[n])
<1>1. PICK new : new = Analysis!Snapshot(all)
  OBVIOUS
<1>2. shown' = Append(shown, new)
  BY <1>1 DEF Analysis!Show
<1>3. IsPlan(work) /\ MaxShown \in Nat
  BY StudioConstants DEF AnalysisInvariant, Analysis!AnalysisConstants
<1>4. Told(work, new)
  BY <1>1, <1>3, SnapshotIsTold
<1>5. \E S : shown \in Seq(S)
  BY DEF AnalysisInvariant
<1>6. /\ \E S : Append(shown, new) \in Seq(S)
      /\ Len(shown) \in Nat /\ DOMAIN shown = 1..Len(shown)
      /\ Len(Append(shown, new)) = Len(shown) + 1
      /\ DOMAIN Append(shown, new) = 1..Len(shown) + 1
      /\ \A i \in 1..Len(shown) : Append(shown, new)[i] = shown[i]
      /\ Append(shown, new)[Len(shown) + 1] = new
  <2>1. \A s, e : (\E S : s \in Seq(S)) =>
           /\ \E S : Append(s, e) \in Seq(S)
           /\ Len(s) \in Nat /\ DOMAIN s = 1..Len(s)
           /\ Len(Append(s, e)) = Len(s) + 1 /\ DOMAIN Append(s, e) = 1..Len(s) + 1
           /\ \A i \in 1..Len(s) : Append(s, e)[i] = s[i]
           /\ Append(s, e)[Len(s) + 1] = e
    BY Appended
  <2> QED
    BY <1>5, <2>1
<1>7. PICK last \in Nat : last = Len(shown)
  BY <1>6
<1>8. /\ DOMAIN shown = 1..last /\ DOMAIN shown' = 1..last + 1
      /\ \A i \in 1..last : shown'[i] = shown[i]
      /\ shown'[last + 1] = new
  BY <1>2, <1>6, <1>7
<1>9. Len(shown') <= MaxShown /\ \E S : shown' \in Seq(S)
  <2>1. Len(shown') = last + 1 /\ last < MaxShown
    BY <1>2, <1>6, <1>7 DEF Analysis!Show
  <2> QED
    BY <1>2, <1>3, <1>6, <2>1
<1>10. \A n \in 1..last : Told(work, shown[n])
  BY <1>8 DEF AnalysisInvariant
<1>11. ASSUME NEW n \in 1..last + 1 PROVE Told(work, shown'[n])
  <2>1. CASE n = last + 1
    BY <1>4, <1>8, <2>1
  <2>2. CASE n # last + 1
    BY <1>8, <1>10, <2>2
  <2> QED
    BY <2>1, <2>2
<1>12. ASSUME last > 0 PROVE Follows(work, shown[last], new)
  <2>1. shown # <<>> /\ last \in 1..last
    BY <1>5, <1>7, <1>12
  <2>2. Analysis!Forward(shown[last], new)
    BY <1>1, <1>7, <2>1 DEF Analysis!Show
  <2>3. Arranged(work, shown[last].stages)
    BY <1>10, <2>1 DEF Told
  <2> QED
    BY <2>2, <2>3, ForwardFollows
<1>13. ASSUME NEW m \in 1..last + 1, NEW n \in 1..last + 1, m < n
       PROVE  Follows(work, shown'[m], shown'[n])
  <2>1. m \in 1..last /\ last > 0 /\ last \in 1..last /\ shown'[m] = shown[m]
    BY <1>8, <1>13
  <2>2. CASE n # last + 1
    <3>1. n \in 1..last /\ shown'[n] = shown[n]
      BY <1>8, <2>2
    <3> QED
      BY <1>8, <1>13, <2>1, <3>1 DEF AnalysisInvariant
  <2>3. CASE n = last + 1
    <3>1. Follows(work, shown[last], new) /\ shown'[n] = new
      BY <1>8, <1>12, <2>1, <2>3
    <3>2. CASE m = last
      BY <2>1, <3>1, <3>2
    <3>3. CASE m # last
      <4>1. m < last
        BY <2>1, <3>3
      <4>2. Follows(work, shown[m], shown[last])
        BY <1>8, <2>1, <4>1 DEF AnalysisInvariant
      <4>3. Told(work, shown[m]) /\ Told(work, shown[last])
        BY <1>10, <2>1
      <4> QED
        BY <1>4, <2>1, <3>1, <4>2, <4>3, FollowsOn
    <3> QED
      BY <3>2, <3>3
  <2> QED
    BY <2>2, <2>3
<1> QED
  BY <1>8, <1>9, <1>11, <1>13

\* Every step keeps what was shown.
LEMMA AnalysisStep ==
    ASSUME AnalysisInvariant, [Analysis!Next]_analysisVars
    PROVE  AnalysisInvariant'
<1>1. IsPlan(work) /\ Arranged(work, stages) /\ (collected = <<>> \/ Arranged(work, collected))
  BY DEF AnalysisInvariant
<1>2. CASE UNCHANGED analysisVars
  BY <1>2 DEF analysisVars, AnalysisInvariant
<1>3. ASSUME NEW i \in DOMAIN work, NEW done,
             NEW st \in {"running", "succeeded", "failed", "cancelled", "skipped"},
             Analysis!Advance(i, st, done)
      PROVE  AnalysisInvariant'
  <2>1. work' = work /\ Arranged(work, stages')
    BY <1>1, <1>3, StagesAdvance
  <2>2. UNCHANGED <<work, collected, shown>>
    BY <1>3 DEF Analysis!Advance
  <2> QED
    BY <2>1, <2>2 DEF AnalysisInvariant
<1>4. CASE Analysis!Publish
  <2>1. Analysis!Show(stages) /\ UNCHANGED <<work, stages, collected>>
    BY <1>4 DEF Analysis!Publish
  <2>2. /\ (\E S : shown' \in Seq(S)) /\ Len(shown') <= MaxShown
        /\ \A n \in DOMAIN shown' : Told(work, shown'[n])
        /\ \A m, n \in DOMAIN shown' : m < n => Follows(work, shown'[m], shown'[n])
    BY <1>1, <2>1, ShowKeeps
  <2> QED
    BY <1>1, <2>1, <2>2 DEF AnalysisInvariant
<1>5. CASE Analysis!Collect
  <2>1. collected' = stages /\ UNCHANGED <<work, stages, shown>>
    BY <1>5 DEF Analysis!Collect
  <2> QED
    BY <1>1, <2>1 DEF AnalysisInvariant
<1>6. CASE Analysis!PublishLate
  <2>1. /\ Analysis!Show(collected) /\ Arranged(work, collected)
        /\ collected' = <<>> /\ UNCHANGED <<work, stages>>
    BY <1>1, <1>6 DEF Analysis!PublishLate
  <2>2. /\ (\E S : shown' \in Seq(S)) /\ Len(shown') <= MaxShown
        /\ \A n \in DOMAIN shown' : Told(work, shown'[n])
        /\ \A m, n \in DOMAIN shown' : m < n => Follows(work, shown'[m], shown'[n])
    BY <2>1, ShowKeeps
  <2> QED
    BY <1>1, <2>1, <2>2 DEF AnalysisInvariant
<1>7. CASE Analysis!Discard
  <2>1. collected' = <<>> /\ UNCHANGED <<work, stages, shown>>
    BY <1>7 DEF Analysis!Discard
  <2> QED
    BY <1>1, <2>1 DEF AnalysisInvariant
<1> QED
  BY <1>2, <1>3, <1>4, <1>5, <1>6, <1>7 DEF Analysis!Next

\* In the beginning every stage is pending and nothing is shown.
LEMMA AnalysisInit == Analysis!Init => AnalysisInvariant
<1> SUFFICES ASSUME Analysis!Init PROVE AnalysisInvariant
  OBVIOUS
<1>1. /\ work \in AnalysisPlans /\ Analysis!Orderly(work)
      /\ stages = [i \in DOMAIN work |-> [status |-> "pending", done |-> 0]]
      /\ collected = <<>> /\ shown = <<>>
  BY DEF Analysis!Init
<1>2. /\ work # <<>> /\ MaxShown \in Nat
      /\ work \in Seq([needs: SUBSET Nat, weight: Nat \ {0}, total: Nat \ {0}])
  BY <1>1, StudioConstants DEF Analysis!AnalysisConstants
<1>3. DOMAIN work = 1..Len(work) /\ Len(work) \in Nat /\ Len(work) # 0
  BY <1>2, LenProperties, EmptySeq
<1>4. \A i \in DOMAIN work : work[i] \in [needs: SUBSET Nat, weight: Nat \ {0}, total: Nat \ {0}]
  BY <1>2, LenProperties
<1>5. \A i \in DOMAIN work : work[i].weight \in Nat \ {0} /\ work[i].total \in Nat \ {0}
  BY <1>4
<1>6. IsPlan(work)
  BY <1>1, <1>3, <1>5 DEF IsPlan, Analysis!Orderly
<1>7. Arranged(work, stages)
  BY <1>1, <1>5 DEF Arranged
<1>8. (\E S : shown \in Seq(S)) /\ Len(shown) = 0 /\ DOMAIN shown = {}
  BY <1>1
<1> QED
  BY <1>1, <1>2, <1>6, <1>7, <1>8 DEF AnalysisInvariant

\* What is shown is never taken back.
LEMMA AnalysisKept == AnalysisInvariant => Analysis!ShownIsNeverTakenBack
<1> SUFFICES ASSUME AnalysisInvariant PROVE Analysis!ShownIsNeverTakenBack
  OBVIOUS
<1>1. 1 \in DOMAIN work
  BY DEF AnalysisInvariant, IsPlan
<1>2. ASSUME NEW m \in DOMAIN shown, NEW n \in DOMAIN shown, m < n
      PROVE  /\ shown[m].progress <= shown[n].progress
             /\ shown[m].status # "succeeded" /\ shown[m].status # "failed"
             /\ \A i \in DOMAIN work :
                  /\ shown[m].stages[i].done <= shown[n].stages[i].done
                  /\ shown[m].stages[i].status \in {"pending", "running"}
  <2>1. Follows(work, shown[m], shown[n]) /\ Told(work, shown[m])
    BY <1>2 DEF AnalysisInvariant
  <2>2. \A i \in DOMAIN work : shown[m].stages[i].status \in {"pending", "running"}
    BY <2>1 DEF Follows
  <2>3. shown[m].status # "succeeded" /\ shown[m].status # "failed"
    BY <1>1, <2>1, <2>2 DEF Told
  <2> QED
    BY <2>1, <2>2, <2>3 DEF Follows
<1>3. ASSUME NEW n \in DOMAIN shown
      PROVE  /\ shown[n].progress = Basis => \A i \in DOMAIN work : shown[n].stages[i].done = work[i].total
             /\ Analysis!NeedsMet(shown[n].stages)
  <2>1. Told(work, shown[n])
    BY DEF AnalysisInvariant
  <2>2. Arranged(work, shown[n].stages)
    BY <2>1 DEF Told
  <2>3. Analysis!NeedsMet(shown[n].stages)
    BY <2>2 DEF Arranged, Analysis!NeedsMet, Analysis!Whole
  <2>4. shown[n].progress = Basis => \A i \in DOMAIN work : shown[n].stages[i].done = work[i].total
    BY <2>1 DEF Told
  <2> QED
    BY <2>3, <2>4
<1> QED
  BY <1>2, <1>3 DEF Analysis!ShownIsNeverTakenBack, Basis

\* The invariant of an analysis has its types.
LEMMA AnalysisTypes == AnalysisInvariant => Analysis!TypeOK
<1> SUFFICES ASSUME AnalysisInvariant PROVE Analysis!TypeOK
  OBVIOUS
<1>1. /\ stages \in [DOMAIN work -> [status: {"pending", "running", "succeeded", "failed",
                                              "cancelled", "skipped"}, done: Nat]]
      /\ collected = <<>> \/ DOMAIN collected = DOMAIN work
      /\ Len(shown) <= MaxShown
  BY DEF AnalysisInvariant, Arranged
<1>2. {p[2] : p \in Analysis!Onward} \cup {"pending"}
        = {"pending", "running", "succeeded", "failed", "cancelled", "skipped"}
  <2>1. PICK S : S = {p[2] : p \in Analysis!Onward}
    OBVIOUS
  <2>2. ASSUME NEW x \in S PROVE x \in {"running", "succeeded", "failed", "cancelled", "skipped"}
    <3>1. PICK p \in Analysis!Onward : x = p[2]
      BY <2>1
    <3>2. p[2] \in {"running", "skipped", "failed", "cancelled"} \/ p[2] \in {"running", "succeeded", "failed", "cancelled"}
      BY DEF Analysis!Onward
    <3> QED
      BY <3>1, <3>2
  <2>3. ASSUME NEW p \in Analysis!Onward PROVE p[2] \in S
    BY <2>1
  <2>4. /\ <<"pending", "running">> \in Analysis!Onward
        /\ <<"pending", "skipped">> \in Analysis!Onward
        /\ <<"running", "succeeded">> \in Analysis!Onward
        /\ <<"running", "failed">> \in Analysis!Onward
        /\ <<"running", "cancelled">> \in Analysis!Onward
    BY DEF Analysis!Onward
  <2>5. "running" \in S /\ "skipped" \in S /\ "succeeded" \in S /\ "failed" \in S /\ "cancelled" \in S
    BY <2>3, <2>4
  <2> QED
    BY <2>1, <2>2, <2>5
<1> QED
  BY <1>1, <1>2 DEF Analysis!TypeOK

-----------------------------------------------------------------------------
(* Subtitles.                                                              *)

\* Something blocks the file.
Blocked(found) == \E c \in found : c[3] # "overlap"

\* An instant of the file is at k ticks of the edit clock of the request r.
IsAt(r, instant, k) == Converts(instant * r.clock[1], r.clock[2], r.rounding, k)

\* The cue has its range there.
IsMapped(r, cue, range) ==
    /\ IsAt(r, cue.start, range.start) /\ IsAt(r, cue.end, range.end)
    /\ range.start # range.end

\* Of the first n cues of f, the one at last ends last.
EndsLast(f, last, n) ==
    /\ last \in 0..n
    /\ \A m \in 1..n : last # 0 /\ f[m].end <= f[last].end

\* What was found in the first n cues names every one that runs into another.
Named(f, found, n) ==
    /\ \A k \in 1..n : (\E m \in 1..k - 1 : f[k].start < f[m].end)
                         => \E c \in found : c[1] = k /\ c[3] = "overlap"
    /\ \A c \in found : c[3] = "overlap" =>
         c[1] \in 1..n /\ c[2] \in 1..c[1] - 1 /\ f[c[1]].start < f[c[2]].end

\* The verdict of the broadcast rules.
Apart(f) == \A n \in 2..Len(f) : f[n - 1].end <= f[n].start

IsRequest(r) ==
    /\ r.clock[1] \in Nat \ {0} /\ r.clock[2] \in Nat \ {0}
    /\ r.rounding \in {"exact", "floor", "toward_zero", "ceil", "nearest_even"}

SubtitleInvariant ==
    /\ file \in Seq(Blocks) /\ IsRequest(request)
    /\ fileAt \in {"parsing", "scanning", "done", "refused"}
    /\ fileAt \in {"scanning", "done"} => Subtitles!Legible
    /\ (\E S : mapped \in Seq(S)) /\ Len(mapped) <= Len(file)
    /\ EndsLast(file, furthest, Len(mapped))
    /\ Named(file, conflicts, Len(mapped))
    /\ Blocked(conflicts) \/ \A n \in 1..Len(mapped) : IsMapped(request, file[n], mapped[n])
    /\ fileAt # "done" => candidates = <<>>
    /\ fileAt = "done" =>
         /\ Len(mapped) = Len(file)
         /\ candidates = IF Blocked(conflicts) THEN <<>> ELSE mapped
         /\ passed => Apart(file)

\* A step of the studio is one of the subtitles, or leaves them alone.
LEMMA SubtitleSteps ==
    /\ StudioInit => service # "subtitles" \/ Subtitles!Init
    /\ [StudioNext]_studioVars =>
         service' = service /\ (service = "subtitles" => [Subtitles!Next]_subtitlesVars)
BY DEF StudioInit, StudioNext, studioVars, subtitlesVars

\* A cue that is not refused is mapped.
LEMMA CueIsMapped ==
    ASSUME IsRequest(request), NEW cue \in [start: Nat, end: Nat], Subtitles!Representable(cue),
           Subtitles!Mapped(cue).start # Subtitles!Mapped(cue).end
    PROVE  IsMapped(request, cue, Subtitles!Mapped(cue))
<1>1. ASSUME NEW t \in Nat, request.rounding # "exact" \/ Subtitles!Exact(t)
      PROVE  Converts(t * request.clock[1], request.clock[2], request.rounding, Subtitles!Rescaled(t))
  <2>1. PICK d \in Nat \ {0} : d = request.clock[2]
    BY DEF IsRequest
  <2>2. t * request.clock[1] \in Nat
    BY Products DEF IsRequest
  <2>3. PICK x \in Nat : x = t * request.clock[1]
    BY <2>2
  <2>4. CASE Subtitles!Exact(t)
    <3>1. x % d = 0
      BY <2>1, <2>3, <2>4 DEF Subtitles!Exact
    <3>2. Subtitles!Rescaled(t) = x \div d
      BY <2>1, <2>3, <2>4 DEF Subtitles!Rescaled
    <3> QED
      BY <2>1, <2>3, <3>1, <3>2, ExactConverts
  <2>5. CASE ~Subtitles!Exact(t)
    <3>1. request.rounding \in {"floor", "toward_zero", "ceil", "nearest_even"}
      BY <1>1, <2>5 DEF IsRequest
    <3>2. Subtitles!Rescaled(t) = Subtitles!Rounded(x, d, request.rounding)
      BY <2>1, <2>3, <2>5 DEF Subtitles!Rescaled
    <3> QED
      BY <2>1, <2>3, <3>1, <3>2, RoundedConverts
  <2> QED
    BY <2>4, <2>5
<1>2. cue.start \in Nat /\ cue.end \in Nat
  OBVIOUS
<1>3. /\ request.rounding # "exact" \/ Subtitles!Exact(cue.start)
      /\ request.rounding # "exact" \/ Subtitles!Exact(cue.end)
  BY DEF Subtitles!Representable
<1>4. /\ Subtitles!Mapped(cue).start = Subtitles!Rescaled(cue.start)
      /\ Subtitles!Mapped(cue).end = Subtitles!Rescaled(cue.end)
  BY DEF Subtitles!Mapped
<1>5. /\ Converts(cue.start * request.clock[1], request.clock[2], request.rounding, Subtitles!Mapped(cue).start)
      /\ Converts(cue.end * request.clock[1], request.clock[2], request.rounding, Subtitles!Mapped(cue).end)
  BY <1>1, <1>2, <1>3, <1>4
<1> QED
  BY <1>5 DEF IsMapped, IsAt

\* What a scan finds.
LEMMA ScanFinds ==
    ASSUME NEW n
    PROVE  /\ \A c \in Subtitles!Conflicts(n) : c[3] = "overlap" =>
                /\ furthest # 0 /\ file[n].start < file[furthest].end
                /\ c[1] = n /\ c[2] = furthest
           /\ furthest # 0 /\ file[n].start < file[furthest].end =>
                \E c \in Subtitles!Conflicts(n) : c[1] = n /\ c[3] = "overlap"
           /\ \/ Blocked(Subtitles!Conflicts(n))
              \/ /\ Subtitles!Representable(file[n])
                 /\ Subtitles!Mapped(file[n]).start # Subtitles!Mapped(file[n]).end
<1> DEFINE overlap == furthest # 0 /\ file[n].start < file[furthest].end
           O == IF overlap THEN {<<n, furthest, "overlap">>} ELSE {}
           M == IF file[n].end > request.duration THEN {<<n, 0, "outside_media">>} ELSE {}
           R == IF ~Subtitles!Representable(file[n]) THEN {<<n, 0, "not_exact">>}
                ELSE IF Subtitles!Mapped(file[n]).start = Subtitles!Mapped(file[n]).end
                     THEN {<<n, 0, "collapsed">>} ELSE {}
<1>1. Subtitles!Conflicts(n) = O \cup M \cup R
  BY Zenon DEF Subtitles!Conflicts
<1>2. \A c \in O : c[1] = n /\ c[2] = furthest /\ overlap
  OBVIOUS
<1>3. \A c \in M : c[3] # "overlap"
  OBVIOUS
<1>4. \A c \in R : c[3] # "overlap"
  OBVIOUS
<1>5. overlap => \E c \in O : c[1] = n /\ c[3] = "overlap"
  OBVIOUS
<1>6. \/ \E c \in R : c[3] # "overlap"
      \/ /\ Subtitles!Representable(file[n])
         /\ Subtitles!Mapped(file[n]).start # Subtitles!Mapped(file[n]).end
  OBVIOUS
<1> HIDE DEF O, M, R
<1> QED
  BY <1>1, <1>2, <1>3, <1>4, <1>5, <1>6 DEF Blocked

\* A cue that is scanned keeps what was found.
LEMMA ScanKeeps ==
    ASSUME SubtitleInvariant, Subtitles!Scan
    PROVE  SubtitleInvariant'
<1>1. PICK n : n = Len(mapped) + 1
  OBVIOUS
<1>2. /\ fileAt = "scanning" /\ n <= Len(file)
      /\ conflicts' = conflicts \cup Subtitles!Conflicts(n)
      /\ mapped' = Append(mapped, IF Subtitles!Representable(file[n]) THEN Subtitles!Mapped(file[n])
                                  ELSE Subtitles!NoRange)
      /\ furthest' = IF furthest = 0 \/ file[furthest].end < file[n].end THEN n ELSE furthest
      /\ UNCHANGED <<file, request, fileAt, candidates, passed>>
  BY <1>1 DEF Subtitles!Scan
<1>3. /\ file \in Seq(Blocks) /\ IsRequest(request) /\ (\E S : mapped \in Seq(S))
      /\ EndsLast(file, furthest, Len(mapped))
      /\ Named(file, conflicts, Len(mapped))
      /\ Blocked(conflicts) \/ \A k \in 1..Len(mapped) : IsMapped(request, file[k], mapped[k])
      /\ candidates = <<>>
  BY <1>2 DEF SubtitleInvariant
<1>4. PICK range : range = IF Subtitles!Representable(file[n]) THEN Subtitles!Mapped(file[n])
                           ELSE Subtitles!NoRange
  OBVIOUS
<1>5. PICK more : more = Append(mapped, range)
  OBVIOUS
<1>6. mapped' = more
  BY <1>2, <1>4, <1>5
<1>7. /\ Len(mapped) \in Nat /\ (\E S : more \in Seq(S))
      /\ Len(more) = Len(mapped) + 1
      /\ \A i \in 1..Len(mapped) : more[i] = mapped[i]
      /\ more[Len(mapped) + 1] = range
  <2>1. \A s, e : (\E S : s \in Seq(S)) =>
           /\ \E S : Append(s, e) \in Seq(S)
           /\ Len(s) \in Nat /\ Len(Append(s, e)) = Len(s) + 1
           /\ \A i \in 1..Len(s) : Append(s, e)[i] = s[i]
           /\ Append(s, e)[Len(s) + 1] = e
    BY Appended
  <2>2. \E S : mapped \in Seq(S)
    BY <1>3
  <2>3. /\ Len(mapped) \in Nat /\ (\E S : Append(mapped, range) \in Seq(S))
        /\ Len(Append(mapped, range)) = Len(mapped) + 1
        /\ \A i \in 1..Len(mapped) : Append(mapped, range)[i] = mapped[i]
        /\ Append(mapped, range)[Len(mapped) + 1] = range
    BY <2>1, <2>2
  <2> QED
    BY <1>5, <2>3
<1>8. PICK last \in Nat : last = Len(mapped)
  BY <1>7
<1>9. /\ n = last + 1 /\ Len(more) = n /\ n \in Nat \ {0} /\ more[n] = range
      /\ \A i \in 1..last : more[i] = mapped[i]
  BY <1>1, <1>7, <1>8
<1>10. Len(file) \in Nat /\ \A i \in 1..Len(file) : file[i] \in Blocks
  BY <1>3, LenProperties
<1>11. Blocks \subseteq [start: Nat, end: Nat]
  BY StudioConstants DEF Subtitles!SubtitleConstants
<1>12. \A i \in 1..n : file[i].start \in Nat /\ file[i].end \in Nat
  <2>1. \A i \in 1..n : i \in 1..Len(file)
    BY <1>2, <1>9, <1>10
  <2> QED
    BY <1>10, <1>11, <2>1
<1>13. PICK f \in 0..last : f = furthest /\ \A m \in 1..last : f # 0 /\ file[m].end <= file[f].end
  BY <1>3, <1>8 DEF EndsLast
<1>14. PICK g : g = furthest' /\ g = IF f = 0 \/ file[f].end < file[n].end THEN n ELSE f
  BY <1>2, <1>13
<1>15. EndsLast(file, g, n)
  <2>1. g \in 0..n
    BY <1>9, <1>13, <1>14
  <2>2. ASSUME NEW m \in 1..n PROVE g # 0 /\ file[m].end <= file[g].end
    <3>1. g # 0
      BY <1>9, <1>13, <1>14
    <3>2. file[n].end <= file[g].end
      <4>1. CASE g = n
        BY <1>9, <1>12, <4>1
      <4>2. CASE g # n
        <5>1. g = f /\ f # 0 /\ ~(file[f].end < file[n].end) /\ f \in 1..n /\ n \in 1..n
          BY <1>9, <1>14, <4>2
        <5> QED
          BY <1>12, <5>1
      <4> QED
        BY <4>1, <4>2
    <3>3. CASE m = n
      BY <3>1, <3>2, <3>3
    <3>4. CASE m # n
      <4>1. m \in 1..last /\ f # 0 /\ file[m].end <= file[f].end /\ f \in 1..n /\ n \in 1..n
        BY <1>9, <1>13, <3>4
      <4>2. g = f \/ (file[f].end < file[n].end /\ g = n)
        BY <1>14, <4>1
      <4> QED
        BY <1>12, <3>1, <4>1, <4>2
    <3> QED
      BY <3>3, <3>4
  <2> QED
    BY <2>1, <2>2 DEF EndsLast
<1>16. PICK found, new : found = conflicts' /\ new = Subtitles!Conflicts(n) /\ found = conflicts \cup new
  BY <1>2
<1>17. /\ \A c \in new : c[3] = "overlap" =>
            f # 0 /\ file[n].start < file[f].end /\ c[1] = n /\ c[2] = f
       /\ f # 0 /\ file[n].start < file[f].end => \E c \in new : c[1] = n /\ c[3] = "overlap"
       /\ \/ Blocked(new)
          \/ /\ Subtitles!Representable(file[n])
             /\ Subtitles!Mapped(file[n]).start # Subtitles!Mapped(file[n]).end
  BY <1>13, <1>16, ScanFinds
<1>18. Named(file, conflicts, last)
  BY <1>3, <1>8
<1>19. Named(file, found, n)
  <2>1. ASSUME NEW k \in 1..n, NEW m \in 1..k - 1, file[k].start < file[m].end
        PROVE  \E c \in found : c[1] = k /\ c[3] = "overlap"
    <3>1. CASE k = n
      <4>1. m \in 1..last /\ m \in 1..n
        BY <1>9, <3>1
      <4>2. f # 0 /\ file[m].end <= file[f].end /\ f \in 1..n
        BY <1>9, <1>13, <4>1
      <4>3. file[n].start < file[f].end
        BY <1>12, <2>1, <3>1, <4>1, <4>2
      <4> QED
        BY <1>16, <1>17, <3>1, <4>2, <4>3
    <3>2. CASE k # n
      <4>1. k \in 1..last
        BY <1>9, <3>2
      <4> QED
        BY <1>16, <1>18, <2>1, <4>1 DEF Named
    <3> QED
      BY <3>1, <3>2
  <2>2. ASSUME NEW c \in found, c[3] = "overlap"
        PROVE  c[1] \in 1..n /\ c[2] \in 1..c[1] - 1 /\ file[c[1]].start < file[c[2]].end
    <3>1. CASE c \in new
      <4>1. f # 0 /\ file[n].start < file[f].end /\ c[1] = n /\ c[2] = f
        BY <1>17, <2>2, <3>1
      <4>2. n \in 1..n /\ f \in 1..n - 1
        BY <1>9, <4>1
      <4> QED
        BY <4>1, <4>2
    <3>2. CASE c \in conflicts
      <4>1. c[1] \in 1..last /\ c[2] \in 1..c[1] - 1 /\ file[c[1]].start < file[c[2]].end
        BY <1>18, <2>2, <3>2 DEF Named
      <4>2. c[1] \in 1..n
        BY <1>9, <4>1
      <4> QED
        BY <4>1, <4>2
    <3> QED
      BY <1>16, <3>1, <3>2
  <2> QED
    BY <2>1, <2>2 DEF Named
<1>20. Blocked(found) \/ \A k \in 1..n : IsMapped(request, file[k], more[k])
  <2>1. Blocked(conflicts) \/ Blocked(new) => Blocked(found)
    BY <1>16 DEF Blocked
  <2>2. ASSUME ~Blocked(found), NEW k \in 1..n PROVE IsMapped(request, file[k], more[k])
    <3>1. CASE k = n
      <4>1. /\ Subtitles!Representable(file[n])
            /\ Subtitles!Mapped(file[n]).start # Subtitles!Mapped(file[n]).end
        BY <1>17, <2>1, <2>2
      <4>2. range = Subtitles!Mapped(file[n])
        BY <1>4, <4>1
      <4>3. file[n] \in [start: Nat, end: Nat]
        BY <1>2, <1>9, <1>10, <1>11
      <4> QED
        BY <1>3, <1>9, <3>1, <4>1, <4>2, <4>3, CueIsMapped
    <3>2. CASE k # n
      <4>1. k \in 1..last
        BY <1>9, <3>2
      <4> QED
        BY <1>3, <1>8, <1>9, <2>1, <2>2, <4>1
    <3> QED
      BY <3>1, <3>2
  <2> QED
    BY <2>2
<1>21. /\ file' = file /\ request' = request /\ fileAt' = "scanning" /\ mapped' = more
       /\ Len(mapped') = n /\ furthest' = g /\ conflicts' = found /\ candidates' = <<>>
  BY <1>2, <1>3, <1>6, <1>9, <1>14, <1>16
<1>22. Subtitles!Legible'
  <2>1. Subtitles!Legible
    BY <1>2 DEF SubtitleInvariant
  <2> QED
    BY <1>21, <2>1 DEF Subtitles!Legible
<1>23. /\ EndsLast(file', furthest', Len(mapped')) /\ Named(file', conflicts', Len(mapped'))
       /\ Blocked(conflicts') \/ \A k \in 1..Len(mapped') : IsMapped(request', file'[k], mapped'[k])
  BY <1>15, <1>19, <1>20, <1>21
<1>24. /\ (\E S : mapped' \in Seq(S)) /\ Len(mapped') <= Len(file')
       /\ file' \in Seq(Blocks) /\ IsRequest(request')
  BY <1>2, <1>3, <1>7, <1>9, <1>21
<1> QED
  BY <1>21, <1>22, <1>23, <1>24 DEF SubtitleInvariant

\* Every step keeps the subtitles.
LEMMA SubtitleStep ==
    ASSUME SubtitleInvariant, [Subtitles!Next]_subtitlesVars
    PROVE  SubtitleInvariant'
<1>1. CASE UNCHANGED subtitlesVars
  <2>1. Subtitles!Legible => Subtitles!Legible'
    BY <1>1 DEF subtitlesVars, Subtitles!Legible
  <2> QED
    BY <1>1, <2>1 DEF subtitlesVars, SubtitleInvariant
<1>2. CASE Subtitles!Parse
  <2>1. /\ fileAt = "parsing" /\ fileAt' = IF Subtitles!Legible THEN "scanning" ELSE "refused"
        /\ UNCHANGED <<file, request, furthest, conflicts, mapped, candidates, passed>>
    BY <1>2 DEF Subtitles!Parse
  <2>2. Subtitles!Legible => Subtitles!Legible'
    BY <2>1 DEF Subtitles!Legible
  <2> QED
    BY <2>1, <2>2 DEF SubtitleInvariant
<1>3. CASE Subtitles!Scan
  BY <1>3, ScanKeeps
<1>4. CASE Subtitles!Finish
  <2>1. /\ fileAt = "scanning" /\ Len(mapped) = Len(file) /\ fileAt' = "done"
        /\ candidates' = IF Subtitles!Blocking = {} THEN mapped ELSE <<>>
        /\ passed' = \A n \in DOMAIN file : Subtitles!Errors(n) = {}
        /\ UNCHANGED <<file, request, furthest, conflicts, mapped>>
    BY <1>4 DEF Subtitles!Finish
  <2>2. Blocked(conflicts) <=> Subtitles!Blocking # {}
    BY DEF Blocked, Subtitles!Blocking
  <2>3. file \in Seq(Blocks) /\ Len(file) \in Nat /\ DOMAIN file = 1..Len(file)
        /\ \A i \in DOMAIN file : file[i] \in Blocks
    BY LenProperties DEF SubtitleInvariant
  <2>4. \A i \in DOMAIN file : file[i].start \in Nat /\ file[i].end \in Nat
    BY <2>3, StudioConstants DEF Subtitles!SubtitleConstants
  <2>5. passed' => Apart(file)
    <3>1. ASSUME NEW n \in 2..Len(file), Subtitles!Errors(n) = {}
          PROVE  file[n - 1].end <= file[n].start
      <4>1. ~(n > 1 /\ file[n].start < file[n - 1].end)
        BY <3>1 DEF Subtitles!Errors
      <4>2. n > 1 /\ n \in DOMAIN file /\ n - 1 \in DOMAIN file
        BY <2>3
      <4> QED
        BY <2>4, <4>1, <4>2
    <3>2. \A n \in 2..Len(file) : n \in DOMAIN file
      BY <2>3
    <3> QED
      BY <2>1, <3>1, <3>2 DEF Apart
  <2>6. Subtitles!Legible'
    <3>1. Subtitles!Legible
      BY <2>1 DEF SubtitleInvariant
    <3> QED
      BY <2>1, <3>1 DEF Subtitles!Legible
  <2>7. candidates' = IF Blocked(conflicts) THEN <<>> ELSE mapped
    BY <2>1, <2>2
  <2> QED
    BY <2>1, <2>5, <2>6, <2>7 DEF SubtitleInvariant
<1> QED
  BY <1>1, <1>2, <1>3, <1>4 DEF Subtitles!Next

\* In the beginning a file is there, and nothing of it is parsed.
LEMMA SubtitleInit == Subtitles!Init => SubtitleInvariant
<1> SUFFICES ASSUME Subtitles!Init PROVE SubtitleInvariant
  OBVIOUS
<1>1. PICK n \in 0..MaxCues : file \in [1..n -> Blocks]
  BY DEF Subtitles!Init
<1>2. n \in Nat
  OBVIOUS
<1>3. file \in Seq(Blocks) /\ Len(file) \in Nat
  <2>1. file \in Seq(Blocks)
    BY <1>1, <1>2, SeqDef
  <2> QED
    BY <2>1, LenProperties
<1>4. /\ request \in [clock: Clocks, rounding: SubtitleRoundings, duration: Durations]
      /\ fileAt = "parsing" /\ furthest = 0 /\ conflicts = {} /\ mapped = <<>> /\ candidates = <<>>
  BY DEF Subtitles!Init
<1>5. /\ Clocks \subseteq (Nat \ {0}) \X (Nat \ {0})
      /\ SubtitleRoundings \subseteq {"exact", "floor", "toward_zero", "ceil", "nearest_even"}
  BY StudioConstants DEF Subtitles!SubtitleConstants
<1>6. request.clock \in Clocks /\ request.rounding \in SubtitleRoundings
  BY <1>4
<1>7. IsRequest(request)
  BY <1>5, <1>6 DEF IsRequest
<1>8. (\E S : mapped \in Seq(S)) /\ Len(mapped) = 0
  BY <1>4
<1>9. EndsLast(file, 0, 0) /\ Named(file, {}, 0)
  BY DEF EndsLast, Named
<1>10. \A k \in 1..Len(mapped) : IsMapped(request, file[k], mapped[k])
  BY <1>8
<1> QED
  BY <1>3, <1>4, <1>7, <1>8, <1>9, <1>10 DEF SubtitleInvariant

\* Cues that follow one another in a legible file are in order altogether.
LEMMA StartsRise ==
    ASSUME NEW f, NEW n \in Nat, \A i \in 1..n : f[i] \in Nat,
           \A i \in 2..n : f[i - 1] <= f[i],
           NEW m \in 1..n, NEW k \in 1..n, m <= k
    PROVE  f[m] <= f[k]
<1> DEFINE Bad == {i \in Nat : i \in m..n /\ ~(f[m] <= f[i])}
<1>1. SUFFICES ASSUME Bad # {} PROVE FALSE
  <2>1. k \in m..n /\ k \in Nat
    OBVIOUS
  <2> QED
    BY <2>1
<1>2. PICK i \in Bad : \A j \in Bad : i <= j
  BY <1>1, LeastExists
<1>3. i \in m..n /\ i \in 1..n /\ ~(f[m] <= f[i])
  BY <1>2
<1>4. i # m
  BY <1>3
<1>5. PICK j \in m..n : j = i - 1
  BY <1>3, <1>4
<1>6. j \notin Bad /\ j \in Nat
  BY <1>2, <1>3, <1>5
<1>7. f[m] <= f[j]
  BY <1>6
<1>8. i \in 2..n /\ j \in 1..n
  BY <1>3, <1>4, <1>5
<1>9. f[j] <= f[i]
  BY <1>5, <1>8
<1> QED
  BY <1>3, <1>7, <1>8, <1>9

\* Ranges of the edit clock are in the order of their cues.
LEMMA MappedInOrder ==
    ASSUME IsRequest(request), NEW a, NEW b, a \in Nat, b \in Nat, NEW k, NEW l, a <= b,
           IsAt(request, a, k), IsAt(request, b, l)
    PROVE  k \in Nat /\ l \in Nat /\ k <= l
<1>1. PICK c \in Nat : c = request.clock[1]
  BY DEF IsRequest
<1>2. PICK d \in Nat \ {0} : d = request.clock[2]
  BY DEF IsRequest
<1>3. c * a \in Nat /\ c * b \in Nat /\ c * a <= c * b /\ a * c = c * a /\ b * c = c * b
  BY Products
<1>4. PICK x \in Nat, y \in Nat : x = a * c /\ y = b * c
  BY <1>3
<1>5. x <= y /\ Converts(x, d, request.rounding, k) /\ Converts(y, d, request.rounding, l)
  BY <1>1, <1>2, <1>3, <1>4 DEF IsAt
<1> QED
  BY <1>5, ConvertsInOrder

\* The invariant of the subtitles says that they keep their words.
LEMMA SubtitleKept == SubtitleInvariant => Subtitles!SubtitlesKeepTheirTime
<1> SUFFICES ASSUME SubtitleInvariant, fileAt = "done" PROVE Subtitles!SubtitlesKeepTheirTime
  BY DEF Subtitles!SubtitlesKeepTheirTime
<1>1. /\ file \in Seq(Blocks) /\ IsRequest(request) /\ Subtitles!Legible
      /\ Len(mapped) = Len(file) /\ (\E S : mapped \in Seq(S))
      /\ candidates = IF Blocked(conflicts) THEN <<>> ELSE mapped
      /\ passed => Apart(file)
      /\ Named(file, conflicts, Len(mapped))
      /\ Blocked(conflicts) \/ \A k \in 1..Len(mapped) : IsMapped(request, file[k], mapped[k])
  BY DEF SubtitleInvariant
<1>2. /\ Len(file) \in Nat /\ DOMAIN file = 1..Len(file)
      /\ \A i \in DOMAIN file : file[i] \in Blocks
  BY <1>1, LenProperties
<1>3. PICK n \in Nat : n = Len(file)
  BY <1>2
<1>4. \A i \in 1..n : file[i].start \in Nat /\ file[i].end \in Nat
  BY <1>2, <1>3, StudioConstants DEF Subtitles!SubtitleConstants
<1>5. /\ \A i \in 1..n : file[i].start < file[i].end
      /\ \A i \in 2..n : file[i - 1].start <= file[i].start
  BY <1>1, <1>2, <1>3 DEF Subtitles!Legible
<1>6. PICK f : f = [i \in 1..n |-> file[i].start]
  OBVIOUS
<1>7. ASSUME NEW m \in 1..n, NEW k \in 1..n, m <= k
      PROVE  file[m].start <= file[k].start
  <2>1. \A i \in 1..n : f[i] \in Nat
    BY <1>4, <1>6
  <2>2. ASSUME NEW i \in 2..n PROVE f[i - 1] <= f[i]
    <3>1. i \in 1..n /\ i - 1 \in 1..n
      OBVIOUS
    <3> QED
      BY <1>5, <1>6, <3>1
  <2>3. f[m] <= f[k]
    BY <1>7, <2>1, <2>2, StartsRise
  <2> QED
    BY <1>6, <2>3
<1>8. ASSUME NEW k \in 1..n, NEW m \in 1..k - 1
      PROVE  Subtitles!Meet(file[m], file[k]) <=> file[k].start < file[m].end
  <2>1. m \in 1..n /\ m <= k
    OBVIOUS
  <2>2. file[m].start <= file[k].start /\ file[k].start < file[k].end
    BY <1>5, <1>7, <2>1
  <2> QED
    BY <1>4, <2>1, <2>2 DEF Subtitles!Meet
<1>9. Named(file, conflicts, n)
  BY <1>1, <1>3
<1>10. \A k \in DOMAIN file :
         (\E m \in 1..k - 1 : Subtitles!Meet(file[m], file[k]))
            <=> (\E c \in conflicts : c[1] = k /\ c[3] = "overlap")
  <2>1. TAKE k \in DOMAIN file
  <2>2. k \in 1..n
    BY <1>2, <1>3
  <2>3. ASSUME NEW m \in 1..k - 1, Subtitles!Meet(file[m], file[k])
        PROVE  \E c \in conflicts : c[1] = k /\ c[3] = "overlap"
    BY <1>8, <1>9, <2>2, <2>3 DEF Named
  <2>4. ASSUME NEW c \in conflicts, c[1] = k, c[3] = "overlap"
        PROVE  \E m \in 1..k - 1 : Subtitles!Meet(file[m], file[k])
    <3>1. c[2] \in 1..k - 1 /\ file[k].start < file[c[2]].end
      BY <1>9, <2>4 DEF Named
    <3> QED
      BY <1>8, <2>2, <3>1
  <2> QED
    BY <2>3, <2>4
<1>11. ASSUME NEW c \in conflicts, c[3] = "overlap"
       PROVE  Subtitles!Meet(file[c[1]], file[c[2]])
  <2>1. c[1] \in 1..n /\ c[2] \in 1..c[1] - 1 /\ file[c[1]].start < file[c[2]].end
    BY <1>9, <1>11 DEF Named
  <2>2. PICK k \in 1..n : k = c[1]
    BY <2>1
  <2>3. PICK m \in 1..k - 1 : m = c[2]
    BY <2>1, <2>2
  <2>4. Subtitles!Meet(file[m], file[k])
    BY <1>8, <2>1, <2>2, <2>3
  <2> QED
    BY <2>2, <2>3, <2>4 DEF Subtitles!Meet
<1>12. candidates = <<>> \/ Len(candidates) = Len(file)
  BY <1>1
<1>13. candidates # <<>> \/ file = <<>> \/ Subtitles!Blocking # {}
  <2>1. Blocked(conflicts) => Subtitles!Blocking # {}
    BY DEF Blocked, Subtitles!Blocking
  <2>2. ASSUME mapped = <<>> PROVE file = <<>>
    <3>1. Len(file) = 0
      BY <1>1, <2>2
    <3> QED
      BY <1>1, <3>1, EmptySeq
  <2> QED
    BY <1>1, <2>1, <2>2
<1>14. PICK c \in Nat, d \in Nat \ {0} : c = request.clock[1] /\ d = request.clock[2]
  BY <1>1 DEF IsRequest
<1>15. ASSUME NEW k \in DOMAIN candidates
       PROVE  /\ candidates = mapped /\ DOMAIN mapped = 1..n /\ k \in 1..n
              /\ \A i \in 1..n : IsMapped(request, file[i], candidates[i])
  <2>1. candidates # <<>>
    BY <1>15
  <2>2. candidates = mapped /\ ~Blocked(conflicts)
    BY <1>1, <2>1
  <2>3. DOMAIN mapped = 1..n
    <3>1. PICK S : mapped \in Seq(S)
      BY <1>1
    <3> QED
      BY <1>1, <1>3, <3>1, LenProperties
  <2> QED
    BY <1>1, <1>3, <1>15, <2>2, <2>3
<1>16. ASSUME NEW k \in DOMAIN candidates
       PROVE  candidates[k].start < candidates[k].end
  <2>1. k \in 1..n /\ IsMapped(request, file[k], candidates[k])
    BY <1>15
  <2>2. file[k].start <= file[k].end /\ file[k].start \in Nat /\ file[k].end \in Nat
    BY <1>4, <1>5, <2>1
  <2>3. /\ candidates[k].start \in Nat /\ candidates[k].end \in Nat
        /\ candidates[k].start <= candidates[k].end
    <3>1. IsAt(request, file[k].start, candidates[k].start) /\ IsAt(request, file[k].end, candidates[k].end)
      BY <2>1 DEF IsMapped
    <3>2. IsRequest(request)
      BY <1>1
    <3> QED
      BY <2>2, <3>1, <3>2, MappedInOrder
  <2>4. candidates[k].start # candidates[k].end
    BY <2>1 DEF IsMapped
  <2> QED
    BY <2>3, <2>4
<1>17. ASSUME NEW ticks, NEW source \in Nat, IsAt(request, source, ticks)
       PROVE  /\ -request.clock[2] < ticks * request.clock[2] - source * request.clock[1]
              /\ ticks * request.clock[2] - source * request.clock[1] < request.clock[2]
  <2>1. source * c \in Nat
    BY Products
  <2>2. PICK x \in Nat : x = source * c
    BY <2>1
  <2>3. Converts(x, d, request.rounding, ticks)
    BY <1>14, <1>17, <2>2 DEF IsAt
  <2>4. ticks \in Nat /\ d * ticks \in Nat /\ d * ticks - x < d /\ x - d * ticks < d
    BY <2>3, ConvertsNear
  <2>5. ticks * d = d * ticks
    BY <2>4, Products
  <2>6. -d < ticks * d - x /\ ticks * d - x < d
    BY <2>4, <2>5
  <2> QED
    BY <1>14, <2>2, <2>6
<1>18. ASSUME NEW k \in DOMAIN candidates, NEW m \in 1..k - 1
       PROVE  /\ candidates[m].start <= candidates[k].start
              /\ ~Subtitles!Meet(file[m], file[k]) => ~Subtitles!Meet(candidates[m], candidates[k])
  <2>1. k \in 1..n /\ m \in 1..n /\ m <= k
    BY <1>15
  <2>2. IsMapped(request, file[k], candidates[k]) /\ IsMapped(request, file[m], candidates[m])
    BY <1>15, <2>1
  <2>3. /\ file[m].start \in Nat /\ file[m].end \in Nat /\ file[k].start \in Nat
        /\ file[m].start <= file[k].start
    BY <1>4, <1>7, <2>1
  <2>4. candidates[m].start <= candidates[k].start
    BY <1>1, <2>2, <2>3, MappedInOrder DEF IsMapped
  <2>5. ASSUME ~Subtitles!Meet(file[m], file[k]) PROVE ~Subtitles!Meet(candidates[m], candidates[k])
    <3>1. file[m].end <= file[k].start
      BY <1>8, <2>1, <2>3, <2>5
    <3>2. /\ candidates[m].end \in Nat /\ candidates[k].start \in Nat
          /\ candidates[m].end <= candidates[k].start
      <4>1. IsAt(request, file[m].end, candidates[m].end) /\ IsAt(request, file[k].start, candidates[k].start)
        BY <2>2 DEF IsMapped
      <4>2. IsRequest(request)
        BY <1>1
      <4> QED
        BY <2>3, <3>1, <4>1, <4>2, MappedInOrder
    <3> QED
      BY <3>2 DEF Subtitles!Meet
  <2> QED
    BY <2>4, <2>5
<1>19. ASSUME NEW k \in DOMAIN candidates
       PROVE  LET edit == candidates[k]
                  Near(ticks, source) ==
                    LET off == ticks * request.clock[2] - source * request.clock[1]
                    IN  -request.clock[2] < off /\ off < request.clock[2]
              IN  /\ edit.start < edit.end
                  /\ Near(edit.start, file[k].start) /\ Near(edit.end, file[k].end)
                  /\ \A m \in 1 .. k - 1 :
                       /\ candidates[m].start <= edit.start
                       /\ ~Subtitles!Meet(file[m], file[k]) => ~Subtitles!Meet(candidates[m], edit)
  <2>1. k \in 1..n /\ IsMapped(request, file[k], candidates[k])
    BY <1>15
  <2>2. file[k].start \in Nat /\ file[k].end \in Nat
    BY <1>4, <2>1
  <2>3. IsAt(request, file[k].start, candidates[k].start) /\ IsAt(request, file[k].end, candidates[k].end)
    BY <2>1 DEF IsMapped
  <2>4. /\ -request.clock[2] < candidates[k].start * request.clock[2] - file[k].start * request.clock[1]
        /\ candidates[k].start * request.clock[2] - file[k].start * request.clock[1] < request.clock[2]
    BY <1>17, <2>2, <2>3
  <2>5. /\ -request.clock[2] < candidates[k].end * request.clock[2] - file[k].end * request.clock[1]
        /\ candidates[k].end * request.clock[2] - file[k].end * request.clock[1] < request.clock[2]
    BY <1>17, <2>2, <2>3
  <2> QED
    BY <1>16, <1>18, <2>4, <2>5
<1>20. ASSUME passed, NEW m \in DOMAIN file, NEW k \in DOMAIN file, m < k
       PROVE  ~Subtitles!Meet(file[m], file[k])
  <2>1. m + 1 \in 2..n /\ m \in 1..n /\ k \in 1..n /\ m \in 1..k - 1 /\ m + 1 \in 1..n /\ m + 1 <= k
    BY <1>2, <1>3, <1>20
  <2>2. \A i \in 2..n : file[i - 1].end <= file[i].start
    BY <1>1, <1>3, <1>20 DEF Apart
  <2>3. m + 1 - 1 = m
    BY <2>1
  <2>4. file[m].end <= file[m + 1].start
    BY <2>1, <2>2, <2>3
  <2>5. file[m + 1].start <= file[k].start
    BY <1>7, <2>1
  <2>6. ~(file[k].start < file[m].end)
    BY <1>4, <2>1, <2>4, <2>5
  <2> QED
    BY <1>8, <2>1, <2>6
<1> QED
  BY <1>10, <1>11, <1>12, <1>13, <1>19, <1>20 DEF Subtitles!SubtitlesKeepTheirTime

\* The invariant of the subtitles has their types.
LEMMA SubtitleTypes == SubtitleInvariant => Subtitles!TypeOK
<1> SUFFICES ASSUME SubtitleInvariant PROVE Subtitles!TypeOK
  OBVIOUS
<1>1. (\E S : mapped \in Seq(S)) /\ file \in Seq(Blocks) /\ furthest \in 0..Len(mapped)
      /\ Len(mapped) <= Len(file)
  BY DEF SubtitleInvariant, EndsLast
<1>2. Len(mapped) \in Nat /\ Len(file) \in Nat
  BY <1>1, LenProperties
<1> QED
  BY <1>1, <1>2 DEF SubtitleInvariant, Subtitles!TypeOK

-----------------------------------------------------------------------------
(* Speech.                                                                 *)

\* A request within the bounds of its policy.
IsSource(s, p) ==
    /\ s \in Nat \ {0} /\ p.max \in Nat /\ p.min \in Nat /\ p.overlap \in Nat
    /\ p.overlap < p.min /\ p.min <= p.max

\* The least number of chunks that the bounds allow.
IsCount(n, s, p) ==
    /\ n \in Nat \ {0}
    /\ s <= p.max => n = 1
    /\ s > p.max => /\ n > 1
                    /\ s - p.overlap <= (p.max - p.overlap) * n
                    /\ (p.max - p.overlap) * (n - 1) < s - p.overlap

\* The number of chunks is the least with which the limit is kept.
LEMMA CountIsLeast ==
    ASSUME IsSource(samples, policy)
    PROVE  IsCount(Speech!Count, samples, policy)
<1>1. PICK s \in Nat \ {0} : s = samples
  BY DEF IsSource
<1>2. PICK max \in Nat, o \in Nat : max = policy.max /\ o = policy.overlap /\ o < max
  BY DEF IsSource
<1>3. CASE s <= max
  <2>1. Speech!Count = 1
    BY <1>1, <1>2, <1>3 DEF Speech!Count
  <2> QED
    BY <1>1, <1>2, <1>3, <2>1 DEF IsCount
<1>4. CASE s > max
  <2>1. PICK a \in Nat, d \in Nat \ {0} : a = s - o /\ d = max - o /\ a > d
    BY <1>2, <1>4
  <2>2. PICK m \in Nat : m = a + d - 1
    BY <2>1
  <2>3. PICK q : q = Quotient(m, d)
    OBVIOUS
  <2>4. q \in Nat /\ \E r \in Nat : r < d /\ m = d * q + r
    BY <2>3, Divided DEF IsQuotient
  <2>5. PICK r \in Nat : r < d /\ m = d * q + r
    BY <2>4
  <2>6. Speech!Count = q
    <3>1. Speech!Count = Speech!CeilDiv(samples - policy.overlap, policy.max - policy.overlap)
      BY <1>1, <1>2, <1>4 DEF Speech!Count
    <3>2. Speech!CeilDiv(a, d) = m \div d
      BY <2>2 DEF Speech!CeilDiv
    <3>3. Speech!CeilDiv(samples - policy.overlap, policy.max - policy.overlap) = Speech!CeilDiv(a, d)
      BY <1>1, <1>2, <2>1
    <3> QED
      BY <2>3, <3>1, <3>2, <3>3 DEF Quotient
  <2>7. d * q \in Nat /\ a <= d * q
    BY <2>2, <2>4, <2>5, Products
  <2>8. q > 1
    <3>1. ASSUME q <= 1 PROVE d * q <= d
      <4>1. d * q <= d * 1
        BY <2>4, <3>1, Products
      <4> QED
        BY <4>1
    <3> QED
      BY <2>1, <2>4, <2>7, <3>1
  <2>9. PICK k \in Nat : k = q - 1
    BY <2>4, <2>8
  <2>10. d * k < a
    <3>1. d * (k + 1) = d * k + d * 1 /\ q = k + 1 /\ d * k \in Nat
      BY <2>4, <2>9, Products
    <3> QED
      BY <2>2, <2>5, <3>1
  <2> QED
    BY <1>1, <1>2, <1>4, <2>1, <2>4, <2>6, <2>7, <2>8, <2>9, <2>10 DEF IsCount
<1> QED
  BY <1>1, <1>2, <1>3, <1>4

\* The chunks of n sizes that differ by one at most.
IsTotal(t, s, p, n) == t \in Nat /\ t = s + (n - 1) * p.overlap

\* So many chunks of the largest size hold the source and the overlaps.
LEMMA TotalFits ==
    ASSUME NEW s, NEW p, NEW n, IsSource(s, p), IsCount(n, s, p), NEW t, IsTotal(t, s, p, n)
    PROVE  t \in Nat \ {0} /\ t <= p.max * n
<1>1. PICK a \in Nat \ {0} : a = s
  BY DEF IsSource
<1>2. PICK max \in Nat, o \in Nat : max = p.max /\ o = p.overlap /\ o < max
  BY DEF IsSource
<1>3. PICK k \in Nat : n = k + 1
  BY DEF IsCount
<1>4. t = a + k * o /\ k * o \in Nat
  <2>1. k * o \in Nat /\ n - 1 = k
    BY <1>3, Products
  <2> QED
    BY <1>1, <1>2, <2>1 DEF IsTotal
<1>5. CASE a <= max
  <2>1. k = 0
    BY <1>1, <1>2, <1>3, <1>5 DEF IsCount
  <2>2. t = a
    BY <1>4, <2>1
  <2> QED
    BY <1>2, <1>3, <1>5, <2>1, <2>2
<1>6. CASE a > max
  <2>1. PICK d \in Nat : d = max - o
    BY <1>2
  <2>2. a - o <= d * (k + 1)
    BY <1>1, <1>2, <1>3, <1>6, <2>1 DEF IsCount
  <2>3. d * (k + 1) = d * k + d /\ d * k \in Nat /\ o * k = k * o
    <3>1. d * (k + 1) = d * k + d * 1 /\ d * k \in Nat /\ o * k = k * o
      BY Products
    <3> QED
      BY <3>1
  <2>4. max * (k + 1) = d * k + o * k + max
    <3>1. max * (k + 1) = max * k + max * 1 /\ max * k = k * max
      BY Products
    <3>2. k * (d + o) = k * d + k * o /\ k * d = d * k
      BY Products
    <3>3. max = d + o
      BY <1>2, <2>1
    <3> QED
      BY <2>3, <3>1, <3>2, <3>3
  <2>5. a + k * o <= max * (k + 1)
    BY <1>2, <1>4, <2>1, <2>2, <2>3, <2>4
  <2> QED
    BY <1>2, <1>3, <1>4, <2>5
<1> QED
  BY <1>5, <1>6

\* The chunks of a plan.
IsPlanned(c, s, p) ==
    /\ Len(c) \in Nat \ {0} /\ DOMAIN c = 1..Len(c)
    /\ c[1][1] = 0 /\ c[Len(c)][2] = s
    /\ \A i \in DOMAIN c :
         /\ c[i][1] \in Nat /\ c[i][2] \in Nat /\ c[i][1] < c[i][2]
         /\ c[i][2] - c[i][1] <= p.max
         /\ Len(c) > 1 => c[i][2] - c[i][1] >= p.min
         /\ i > 1 => c[i - 1][2] - c[i][1] = p.overlap

\* How much the first i sizes are together, of which r are larger by one.
UpTo(i, b, r) == i * b + (IF i <= r THEN i ELSE r)
SizeOf(i, b, r) == b + (IF i <= r THEN 1 ELSE 0)

\* One size more is added to the sum of those before.
LEMMA SizesAddUp ==
    ASSUME NEW b \in Nat, NEW r \in Nat, NEW i \in Nat
    PROVE  /\ UpTo(i, b, r) \in Nat /\ UpTo(0, b, r) = 0 /\ SizeOf(i, b, r) \in Nat
           /\ UpTo(i + 1, b, r) = UpTo(i, b, r) + SizeOf(i + 1, b, r)
<1>1. i * b \in Nat
  BY Products
<1>2. (i + 1) * b = i * b + b
  <2>1. b * (i + 1) = b * i + b * 1 /\ b * i = i * b /\ b * (i + 1) = (i + 1) * b
    BY Products
  <2> QED
    BY <2>1
<1>3. 0 * b = 0
  OBVIOUS
<1>4. (IF i + 1 <= r THEN i + 1 ELSE r) = (IF i <= r THEN i ELSE r) + (IF i + 1 <= r THEN 1 ELSE 0)
  OBVIOUS
<1>5. PICK x \in Nat, y \in Nat : x = (IF i <= r THEN i ELSE r) /\ y = (IF i + 1 <= r THEN i + 1 ELSE r)
  OBVIOUS
<1>6. UpTo(i, b, r) = i * b + x /\ UpTo(i + 1, b, r) = i * b + b + y
  BY <1>2, <1>5 DEF UpTo
<1>7. UpTo(0, b, r) = 0
  BY <1>3 DEF UpTo
<1>8. SizeOf(i + 1, b, r) = b + (y - x)
  BY <1>4, <1>5 DEF SizeOf
<1>9. SizeOf(i, b, r) \in Nat
  BY DEF SizeOf
<1> QED
  BY <1>1, <1>5, <1>6, <1>7, <1>8, <1>9

\* Where the i-th chunk begins.
StartOf(i, b, r, o) == UpTo(i - 1, b, r) - (i - 1) * o

Follow(b, r, o) ==
    /\ StartOf(1, b, r, o) = 0
    /\ \A i \in Nat \ {0} : /\ StartOf(i, b, r, o) \in Int /\ SizeOf(i, b, r) \in Nat
                            /\ StartOf(i + 1, b, r, o) = StartOf(i, b, r, o) + SizeOf(i, b, r) - o

\* A chunk begins where the one before ends, less the overlap.
LEMMA StartsFollow ==
    ASSUME NEW b \in Nat, NEW r \in Nat, NEW o \in Nat
    PROVE  Follow(b, r, o)
<1>1. StartOf(1, b, r, o) = 0
  <2>1. UpTo(0, b, r) = 0
    BY SizesAddUp
  <2> QED
    BY <2>1 DEF StartOf
<1>2. ASSUME NEW i \in Nat \ {0}
      PROVE  /\ StartOf(i, b, r, o) \in Int /\ SizeOf(i, b, r) \in Nat
             /\ StartOf(i + 1, b, r, o) = StartOf(i, b, r, o) + SizeOf(i, b, r) - o
  <2>1. PICK k \in Nat : i = k + 1
    OBVIOUS
  <2>2. /\ UpTo(k, b, r) \in Nat /\ SizeOf(k + 1, b, r) \in Nat
        /\ UpTo(k + 1, b, r) = UpTo(k, b, r) + SizeOf(k + 1, b, r)
    BY SizesAddUp
  <2>3. k * o \in Nat /\ (k + 1) * o = k * o + o
    <3>1. o * (k + 1) = o * k + o * 1 /\ o * k = k * o /\ o * (k + 1) = (k + 1) * o /\ k * o \in Nat
      BY Products
    <3> QED
      BY <3>1
  <2>4. i - 1 = k /\ i + 1 - 1 = k + 1
    BY <2>1
  <2> QED
    BY <2>1, <2>2, <2>3, <2>4 DEF StartOf
<1> QED
  BY <1>1, <1>2 DEF Follow

\* Every chunk begins where the one before it ends, but for the overlap.
IsChain(f) ==
    f = [i \in 1..Speech!Count + 1 |->
            IF i = 1 THEN 0 ELSE f[i - 1] + Speech!Size(i - 1) - policy.overlap]

\* What the sizes are.
AreSizes(b, r) == \A i : Speech!Size(i) = SizeOf(i, b, r)

\* The starts of a plan can be computed one after the other,
LEMMA ChainExists ==
    ASSUME NEW n \in Nat \ {0}, n = Speech!Count, NEW o, o \in Nat, o = policy.overlap,
           NEW b, b \in Nat, NEW r, r \in Nat, AreSizes(b, r)
    PROVE  \E f : IsChain(f)
<1> DEFINE g == [i \in 1..n + 1 |-> StartOf(i, b, r, o)]
           h == [i \in 1..Speech!Count + 1 |->
                    IF i = 1 THEN 0 ELSE g[i - 1] + Speech!Size(i - 1) - policy.overlap]
<1>1. Follow(b, r, o)
  BY StartsFollow
<1>2. ASSUME NEW i \in 1..n + 1 PROVE g[i] = h[i]
  <2>1. CASE i = 1
    <3>1. h[i] = 0
      BY <2>1
    <3> QED
      BY <2>1, <1>1, <3>1 DEF Follow
  <2>2. CASE i # 1
    <3>1. PICK k \in Nat \ {0} : i = k + 1 /\ k \in 1..n + 1
      BY <2>2
    <3>2. g[k + 1] = g[k] + SizeOf(k, b, r) - o
      BY <1>1, <3>1 DEF Follow
    <3>3. h[i] = g[i - 1] + Speech!Size(i - 1) - policy.overlap
      BY <2>2
    <3>4. i - 1 = k
      BY <3>1
    <3> QED
      BY <3>1, <3>2, <3>3, <3>4 DEF AreSizes
  <2> QED
    BY <2>1, <2>2
<1>3. g = h
  <2>1. DOMAIN g = DOMAIN h
    OBVIOUS
  <2> HIDE DEF g, h
  <2>2. g = [i \in 1..n + 1 |-> g[i]]
    BY DEF g
  <2>3. h = [i \in 1..n + 1 |-> h[i]]
    BY DEF h
  <2> QED
    BY <1>2, <2>2, <2>3
<1>4. IsChain(g)
  <2> HIDE DEF g
  <2> QED
    BY <1>3 DEF IsChain
<1> HIDE DEF g
<1> QED
  BY <1>4

\* in one way only.
LEMMA ChainIs ==
    ASSUME NEW n \in Nat \ {0}, n = Speech!Count, NEW o, o \in Nat, o = policy.overlap,
           NEW b, b \in Nat, NEW r, r \in Nat, AreSizes(b, r), NEW f, IsChain(f), NEW i \in 1..n + 1
    PROVE  f[i] = StartOf(i, b, r, o)
<1> DEFINE Bad == {k \in Nat : k \in 1..n + 1 /\ f[k] # StartOf(k, b, r, o)}
<1>1. Follow(b, r, o)
  BY StartsFollow
<1>2. SUFFICES ASSUME i \in Bad PROVE FALSE
  OBVIOUS
<1>3. PICK k \in Bad : \A m \in Bad : k <= m
  <2>1. Bad \subseteq Nat /\ Bad # {}
    BY <1>2
  <2> HIDE DEF Bad
  <2> QED
    BY <2>1, LeastExists
<1>4. f[k] = (IF k = 1 THEN 0 ELSE f[k - 1] + SizeOf(k - 1, b, r) - o)
  <2>1. \A j \in 1..n + 1 : f[j] = IF j = 1 THEN 0 ELSE f[j - 1] + Speech!Size(j - 1) - policy.overlap
    BY DEF IsChain
  <2>2. k \in 1..n + 1 /\ Speech!Size(k - 1) = SizeOf(k - 1, b, r)
    BY <1>3 DEF AreSizes
  <2>3. f[k] = IF k = 1 THEN 0 ELSE f[k - 1] + Speech!Size(k - 1) - policy.overlap
    BY <2>1, <2>2
  <2> QED
    BY <2>2, <2>3
<1>5. k # 1
  BY <1>3, <1>1, <1>4 DEF Follow
<1>6. PICK m \in Nat \ {0} : k = m + 1 /\ m \in 1..n + 1
  BY <1>3, <1>5
<1>7. f[m] = StartOf(m, b, r, o)
  BY <1>3, <1>6
<1>8. f[k] = StartOf(m, b, r, o) + SizeOf(m, b, r) - o
  <2>1. k - 1 = m
    BY <1>6
  <2> QED
    BY <1>4, <1>5, <1>7, <2>1
<1>9. StartOf(m + 1, b, r, o) = StartOf(m, b, r, o) + SizeOf(m, b, r) - o
  BY <1>1, <1>6 DEF Follow
<1> QED
  BY <1>3, <1>6, <1>8, <1>9

\* The plan in one formula.
IsSpread(c, n, b, r, o) ==
    c = [i \in 1..n |-> <<StartOf(i, b, r, o), StartOf(i, b, r, o) + SizeOf(i, b, r)>>]

\* The plan is that formula.
LEMMA PlanUnfolds ==
    ASSUME NEW n \in Nat \ {0}, n = Speech!Count, NEW o, o \in Nat, o = policy.overlap,
           NEW b, b \in Nat, NEW r, r \in Nat, AreSizes(b, r)
    PROVE  IsSpread(Speech!Plan, n, b, r, o)
<1> DEFINE f == CHOOSE g : IsChain(g)
           c == [i \in 1..Speech!Count |-> <<f[i], f[i] + Speech!Size(i)>>]
<1>1. IsChain(f)
  BY ChainExists
<1>2. Speech!Plan = c
  BY DEF Speech!Plan, IsChain
<1> HIDE DEF f
<1>3. ASSUME NEW i \in 1..n PROVE f[i] = StartOf(i, b, r, o) /\ Speech!Size(i) = SizeOf(i, b, r)
  <2>1. i \in 1..n + 1
    OBVIOUS
  <2>2. f[i] = StartOf(i, b, r, o)
    BY <1>1, <2>1, ChainIs
  <2> QED
    BY <2>2 DEF AreSizes
<1>4. \A i \in 1..n : c[i] = <<StartOf(i, b, r, o), StartOf(i, b, r, o) + SizeOf(i, b, r)>>
  BY <1>3
<1>5. DOMAIN c = 1..n /\ c = [i \in 1..n |-> c[i]]
  OBVIOUS
<1> HIDE DEF c
<1> QED
  BY <1>2, <1>4, <1>5 DEF IsSpread

\* What the sizes of a plan are.
IsDivided(t, n, b, r) == b \in Nat /\ r \in Nat /\ r < n /\ t = n * b + r

\* What is to be divided, by how many, and what is left over.
LEMMA SizesAre ==
    ASSUME IsSource(samples, policy), NEW n, n = Speech!Count, n \in Nat \ {0}
    PROVE  \E t, b, r : /\ IsTotal(t, samples, policy, n) /\ IsDivided(t, n, b, r) /\ AreSizes(b, r)
                        /\ Speech!Plannable <=> (n = 1 \/ b >= policy.min)
<1>1. PICK a \in Nat, o \in Nat : a = samples /\ o = policy.overlap
  BY DEF IsSource
<1>2. PICK k \in Nat : n = k + 1
  OBVIOUS
<1>3. PICK t \in Nat : t = a + k * o
  <2>1. k * o \in Nat
    BY Products
  <2> QED
    BY <2>1
<1>4. Speech!Total = t /\ IsTotal(t, samples, policy, n)
  <2>1. n - 1 = k
    BY <1>2
  <2>2. t = samples + (n - 1) * policy.overlap
    BY <1>1, <1>3, <2>1
  <2> QED
    BY <2>2 DEF Speech!Total, IsTotal
<1>5. PICK b, r : b = t \div n /\ r = t % n
  OBVIOUS
<1>6. IsDivided(t, n, b, r)
  BY <1>5, Division DEF IsDivided
<1>7. AreSizes(b, r)
  BY <1>4, <1>5 DEF AreSizes, Speech!Size, SizeOf
<1>8. Speech!Plannable <=> (n = 1 \/ b >= policy.min)
  BY <1>4, <1>5 DEF Speech!Plannable
<1> QED
  BY <1>4, <1>6, <1>7, <1>8

\* No size is above the bound.
LEMMA SizeFits ==
    ASSUME NEW t \in Nat, NEW n \in Nat \ {0}, NEW b, NEW r, IsDivided(t, n, b, r),
           NEW max \in Nat, t <= max * n
    PROVE  b <= max /\ (r > 0 => b < max)
<1>1. b \in Nat /\ r \in Nat /\ r < n /\ t = n * b + r
  BY DEF IsDivided
<1>2. n * b \in Nat /\ n * max \in Nat /\ max * n = n * max
  BY <1>1, Products
<1>3. ASSUME b > max PROVE FALSE
  <2>1. n * max < n * b
    BY <1>1, <1>3, Products
  <2> QED
    BY <1>1, <1>2, <2>1
<1>4. ASSUME r > 0, b >= max PROVE FALSE
  <2>1. n * max <= n * b
    BY <1>1, <1>4, Products
  <2> QED
    BY <1>1, <1>2, <1>4, <2>1
<1> QED
  BY <1>1, <1>3, <1>4

\* What plan() makes is a plan.
LEMMA PlanHolds ==
    ASSUME IsSource(samples, policy), Speech!Plannable
    PROVE  IsPlanned(Speech!Plan, samples, policy)
<1>1. PICK s \in Nat \ {0}, max \in Nat, min \in Nat, o \in Nat :
        s = samples /\ max = policy.max /\ min = policy.min /\ o = policy.overlap /\ o < min /\ min <= max
  BY DEF IsSource
<1>2. PICK n : n = Speech!Count
  OBVIOUS
<1>3. n \in Nat \ {0} /\ IsCount(n, samples, policy)
  BY <1>2, CountIsLeast DEF IsCount
<1>4. PICK t, b, r : /\ IsTotal(t, samples, policy, n) /\ IsDivided(t, n, b, r) /\ AreSizes(b, r)
                     /\ Speech!Plannable <=> (n = 1 \/ b >= policy.min)
  BY <1>2, <1>3, SizesAre
<1>5. t \in Nat \ {0} /\ t <= max * n
  BY <1>1, <1>3, <1>4, TotalFits
<1>6. b \in Nat /\ r \in Nat /\ r < n /\ t = n * b + r
  BY <1>4 DEF IsDivided
<1>7. b <= max /\ (r > 0 => b < max)
  BY <1>3, <1>4, <1>5, SizeFits
<1>8. n = 1 \/ b >= min
  BY <1>1, <1>4
<1>9. Follow(b, r, o)
  BY <1>6, StartsFollow
<1>10. ASSUME NEW i \in 1..n
       PROVE  /\ SizeOf(i, b, r) \in Nat \ {0} /\ SizeOf(i, b, r) <= max
              /\ n > 1 => SizeOf(i, b, r) >= min
              /\ StartOf(i, b, r, o) \in Nat
  <2>1. SizeOf(i, b, r) = b + (IF i <= r THEN 1 ELSE 0)
    BY DEF SizeOf
  <2>2. SizeOf(i, b, r) <= max /\ (n > 1 => SizeOf(i, b, r) >= min)
    BY <1>1, <1>3, <1>6, <1>7, <1>8, <2>1
  <2>3. SizeOf(i, b, r) \in Nat \ {0}
    <3>1. CASE n > 1
      BY <1>1, <1>3, <1>6, <1>8, <2>1, <3>1
    <3>2. CASE n = 1
      <4>1. n * b = b
        BY <1>6, <3>2
      <4>2. b > 0
        BY <1>5, <1>6, <3>2, <4>1
      <4> QED
        BY <1>6, <2>1, <4>2
    <3> QED
      BY <1>3, <3>1, <3>2
  <2>4. StartOf(i, b, r, o) \in Nat
    <3>1. PICK k \in Nat : i = k + 1 /\ i - 1 = k /\ k < n
      BY <1>3
    <3>2. UpTo(k, b, r) = k * b + (IF k <= r THEN k ELSE r)
      BY DEF UpTo
    <3>3. k * b \in Nat /\ k * o \in Nat
      BY <1>6, Products
    <3>4. k * o <= k * b
      <4>1. CASE k = 0
        BY <4>1, <3>3, <1>6
      <4>2. CASE k # 0
        <5>1. o <= b
          BY <1>1, <1>3, <1>6, <1>8, <3>1, <4>2
        <5> QED
          BY <1>6, <5>1, Products
      <4> QED
        BY <4>1, <4>2
    <3>5. StartOf(i, b, r, o) = UpTo(k, b, r) - k * o
      BY <3>1 DEF StartOf
    <3> QED
      BY <1>6, <3>2, <3>3, <3>4, <3>5
  <2> QED
    BY <2>2, <2>3, <2>4
<1> DEFINE c == Speech!Plan
<1>11. IsSpread(c, n, b, r, o)
  <2>1. o = policy.overlap /\ o \in Nat
    BY <1>1
  <2> QED
    BY <1>2, <1>3, <1>4, <1>6, <2>1, PlanUnfolds
<1> HIDE DEF c
<1>12. DOMAIN c = 1..n /\ Len(c) = n
  <2>1. DOMAIN c = 1..n /\ c = [i \in 1..n |-> c[i]]
    BY <1>11 DEF IsSpread
  <2>2. c \in [1..n -> {c[i] : i \in 1..n}]
    BY <2>1
  <2>3. c \in Seq({c[i] : i \in 1..n})
    BY <1>3, <2>2
  <2>4. Len(c) \in Nat /\ DOMAIN c = 1..Len(c)
    BY <2>3
  <2> QED
    BY <1>3, <2>1, <2>4
<1>13. \A i \in 1..n : c[i][1] = StartOf(i, b, r, o) /\ c[i][2] = StartOf(i, b, r, o) + SizeOf(i, b, r)
  BY <1>11 DEF IsSpread
<1>14. c[1][1] = 0
  BY <1>3, <1>9, <1>13 DEF Follow
<1>15. c[n][2] = s
  <2>1. PICK k \in Nat : n = k + 1 /\ n + 1 - 1 = n /\ n - 1 = k
    BY <1>3
  <2>2. UpTo(n, b, r) = n * b + r
    BY <1>3, <1>6 DEF UpTo
  <2>3. StartOf(n + 1, b, r, o) = t - n * o
    BY <1>6, <2>1, <2>2 DEF StartOf
  <2>4. n * o = k * o + o /\ k * o \in Nat /\ n * o \in Nat
    <3>1. o * (k + 1) = o * k + o * 1 /\ o * k = k * o /\ o * (k + 1) = (k + 1) * o /\ k * o \in Nat
      BY Products
    <3> QED
      BY <2>1, <3>1
  <2>5. t = s + k * o
    BY <1>1, <1>4, <2>1 DEF IsTotal
  <2>6. /\ StartOf(n, b, r, o) \in Int /\ SizeOf(n, b, r) \in Nat
        /\ StartOf(n + 1, b, r, o) = StartOf(n, b, r, o) + SizeOf(n, b, r) - o
    BY <1>3, <1>9 DEF Follow
  <2>7. c[n][2] = StartOf(n, b, r, o) + SizeOf(n, b, r)
    BY <1>3, <1>13
  <2>8. PICK x \in Int, y \in Nat, p \in Nat, q \in Nat :
          x = StartOf(n, b, r, o) /\ y = SizeOf(n, b, r) /\ p = k * o /\ q = n * o
    BY <2>4, <2>6
  <2>9. t - q = x + y - o /\ q = p + o /\ t = s + p
    BY <2>3, <2>4, <2>5, <2>6, <2>8
  <2>10. x + y = s
    BY <1>1, <1>5, <2>8, <2>9
  <2> QED
    BY <2>7, <2>8, <2>10
<1>16. ASSUME NEW i \in 1..n
       PROVE  /\ c[i][1] \in Nat /\ c[i][2] \in Nat /\ c[i][1] < c[i][2]
              /\ c[i][2] - c[i][1] <= max
              /\ n > 1 => c[i][2] - c[i][1] >= min
              /\ i > 1 => c[i - 1][2] - c[i][1] = o
  <2>1. PICK x \in Nat, y \in Nat \ {0} : x = StartOf(i, b, r, o) /\ y = SizeOf(i, b, r)
    BY <1>10
  <2>2. c[i][1] = x /\ c[i][2] = x + y
    BY <1>13, <2>1
  <2>3. y <= max /\ (n > 1 => y >= min)
    BY <1>10, <2>1
  <2>4. ASSUME i > 1 PROVE c[i - 1][2] - c[i][1] = o
    <3>1. PICK k \in Nat \ {0} : i = k + 1 /\ i - 1 = k /\ k \in 1..n
      BY <1>3, <2>4
    <3>2. /\ StartOf(k, b, r, o) \in Int /\ SizeOf(k, b, r) \in Nat
          /\ StartOf(k + 1, b, r, o) = StartOf(k, b, r, o) + SizeOf(k, b, r) - o
      BY <3>1, <1>9 DEF Follow
    <3>3. c[k][2] = StartOf(k, b, r, o) + SizeOf(k, b, r)
      BY <1>13, <3>1
    <3> QED
      BY <2>1, <2>2, <3>1, <3>2, <3>3
  <2> QED
    BY <1>1, <1>3, <2>1, <2>2, <2>3, <2>4
<1>17. IsPlanned(c, samples, policy)
  BY <1>1, <1>3, <1>12, <1>14, <1>15, <1>16 DEF IsPlanned
<1> QED
  BY <1>17 DEF c

\* Where plan() gives up no number of chunks would do.
LEMMA NoPlan ==
    ASSUME IsSource(samples, policy), ~Speech!Plannable, NEW m \in Nat \ {0}
    PROVE  ~Speech!Possible(m)
<1>1. PICK s \in Nat \ {0}, max \in Nat, min \in Nat, o \in Nat :
        s = samples /\ max = policy.max /\ min = policy.min /\ o = policy.overlap /\ o < min /\ min <= max
  BY DEF IsSource
<1>2. PICK n : n = Speech!Count
  OBVIOUS
<1>3. n \in Nat \ {0} /\ IsCount(n, samples, policy)
  BY <1>2, CountIsLeast DEF IsCount
<1>4. PICK t, b, r : /\ IsTotal(t, samples, policy, n) /\ IsDivided(t, n, b, r) /\ AreSizes(b, r)
                     /\ Speech!Plannable <=> (n = 1 \/ b >= policy.min)
  BY <1>2, <1>3, SizesAre
<1>5. t \in Nat /\ b \in Nat /\ r \in Nat /\ r < n /\ t = n * b + r /\ n # 1 /\ b < min
  BY <1>1, <1>4 DEF IsDivided, IsTotal
<1>6. /\ \E k \in Nat : n = k + 1 /\ n - 1 = k
      /\ \E j \in Nat : m = j + 1 /\ m - 1 = j
      /\ \E d \in Nat \ {0} : d = max - o
      /\ \E e \in Nat : e = min - o
      /\ \E a \in Nat : a = s - o
  <2>1. s > max
    BY <1>1, <1>3, <1>5 DEF IsCount
  <2> QED
    BY <1>1, <1>3, <2>1
<1>7. PICK k \in Nat, d \in Nat \ {0}, e \in Nat, a \in Nat, j \in Nat :
       n = k + 1 /\ d = max - o /\ e = min - o /\ a = s - o /\ m = j + 1 /\ n - 1 = k /\ m - 1 = j
  BY <1>6
<1>8. d * k < a /\ s > max
  <2>1. s > max
    BY <1>1, <1>3, <1>5 DEF IsCount
  <2>2. (policy.max - policy.overlap) * (n - 1) < samples - policy.overlap
    BY <1>1, <2>1, <1>3 DEF IsCount
  <2>3. policy.max - policy.overlap = d /\ n - 1 = k /\ samples - policy.overlap = a
    BY <1>1, <1>7
  <2> QED
    BY <2>1, <2>2, <2>3
<1>9. t < n * min
  <2>1. n * (b + 1) = n * b + n * 1 /\ n * b \in Nat
    BY <1>3, <1>5, Products
  <2>2. n * (b + 1) <= n * min
    BY <1>3, <1>5, Products
  <2>3. n * min \in Nat
    BY <1>3, Products
  <2> QED
    BY <1>3, <1>5, <2>1, <2>2, <2>3
<1>10. t = s + k * o /\ k * o \in Nat
  <2>1. k * o \in Nat
    BY Products
  <2> QED
    BY <1>1, <1>4, <1>7, <2>1 DEF IsTotal
<1>11. SUFFICES ASSUME m * min <= s + j * o, s + j * o <= m * max PROVE FALSE
  <2>1. samples + (m - 1) * policy.overlap = s + j * o
    BY <1>1, <1>7
  <2> QED
    BY <1>1, <1>8, <2>1 DEF Speech!Possible
\* Products of a sum: (x + o) * (y + 1).
<1>12. ASSUME NEW x \in Nat, NEW y \in Nat
       PROVE  (y + 1) * (x + o) = (y + 1) * x + y * o + o /\ (y + 1) * x \in Nat /\ y * o \in Nat
  <2>1. (y + 1) * (x + o) = (y + 1) * x + (y + 1) * o /\ (y + 1) * x \in Nat
    BY Products
  <2>2. o * (y + 1) = o * y + o * 1 /\ o * y = y * o /\ o * (y + 1) = (y + 1) * o /\ y * o \in Nat
    BY Products
  <2> QED
    BY <2>1, <2>2
<1>13. a <= m * d
  <2>1. m * max = m * d + j * o + o /\ m * d \in Nat /\ j * o \in Nat
    <3>1. max = d + o
      BY <1>1, <1>7
    <3> QED
      BY <1>7, <1>12, <3>1
  <2> QED
    BY <1>1, <1>7, <1>11, <2>1
<1>14. n <= m
  <2>1. ASSUME m <= k PROVE FALSE
    <3>1. d * m <= d * k /\ d * m = m * d /\ m * d \in Nat /\ d * k \in Nat
      BY <2>1, Products
    <3> QED
      BY <1>7, <1>8, <1>13, <3>1
  <2> QED
    BY <1>7, <2>1
<1>15. n * e <= m * e /\ n * e \in Nat /\ m * e \in Nat
  <2>1. e * n <= e * m /\ e * n = n * e /\ e * m = m * e /\ n * e \in Nat /\ m * e \in Nat
    BY <1>3, <1>14, Products
  <2> QED
    BY <2>1
<1>16. min = e + o
  BY <1>1, <1>7
<1>17. m * min = m * e + j * o + o /\ j * o \in Nat
  BY <1>7, <1>12, <1>16
<1>18. n * min = n * e + k * o + o
  BY <1>7, <1>12, <1>16
<1> QED
  BY <1>1, <1>7, <1>9, <1>10, <1>11, <1>15, <1>17, <1>18

AreWords(all) ==
    /\ IsFiniteSet(all)
    /\ \A w \in all : /\ w.start \in Nat /\ w.end \in Nat /\ w.start < w.end
                      /\ w.confidence \in Nat

\* The words that are kept are in order and apart.
InOrder(k) == \A i \in 1..Len(k) - 1 : k[i].end <= k[i + 1].start

\* Nobody who was dropped is still to be looked at, nor who dropped him.
FairlyDropped(rest, d) ==
    /\ IsFiniteSet(d)
    /\ \A e \in d : /\ e[1] \notin rest /\ e[2] \notin rest
                    /\ Speech!Overlap(e[1], e[2]) /\ e[1].confidence >= e[2].confidence

\* The words of which some are left to look at.
Merged(all, rest, k, d) ==
    /\ IsList(k) /\ rest \subseteq all
    /\ InOrder(k) /\ FairlyDropped(rest, d)
    /\ \A i \in DOMAIN k : k[i] \in all \ rest
    /\ Len(k) > 0 => \A w \in rest : k[Len(k)].start <= w.start
    /\ {k[i] : i \in DOMAIN k} \cup {e[2] : e \in d} \cup rest = all
    /\ Len(k) + Cardinality(d) + Cardinality(rest) = Cardinality(all)

SpeechInvariant ==
    /\ samples \in 1..MaxSamples /\ policy \in Policies /\ speechAt \in Speech!Stages
    /\ IsSource(samples, policy)
    /\ chunks = <<>> \/ IsPlanned(chunks, samples, policy)
    /\ heard \in 0..Len(chunks)
    /\ AreWords(words) /\ waiting \subseteq words
    /\ speechAt = "planning" => chunks = <<>>
    /\ speechAt = "unplannable" => ~Speech!Plannable
    /\ speechAt \in {"planning", "recognising"} => waiting = {} /\ kept = <<>> /\ dropped = {}
    /\ speechAt \in {"merging", "complete"} => Merged(words, waiting, kept, dropped)
    /\ speechAt = "complete" => waiting = {}

\* A step of the studio is one of the transcription, or leaves it alone.
LEMMA SpeechSteps ==
    /\ StudioInit => service # "speech" \/ Speech!Init
    /\ [StudioNext]_studioVars =>
         service' = service /\ (service = "speech" => [Speech!Next]_speechVars)
BY DEF StudioInit, StudioNext, studioVars, speechVars

\* The words that a round takes out.
LEMMA OneWordLess ==
    ASSUME NEW all, AreWords(all), NEW rest, rest \subseteq all, NEW w \in rest
    PROVE  /\ IsFiniteSet(rest \ {w}) /\ Cardinality(rest) \in Nat
           /\ Cardinality(rest \ {w}) \in Nat
           /\ Cardinality(rest) = Cardinality(rest \ {w}) + 1
<1>1. IsFiniteSet(rest)
  BY FS_Subset DEF AreWords
<1>2. IsFiniteSet(rest \ {w}) /\ Cardinality(rest \ {w}) = Cardinality(rest) - 1
  BY <1>1, FS_RemoveElement
<1>3. Cardinality(rest) \in Nat /\ Cardinality(rest \ {w}) \in Nat
  BY <1>1, <1>2, FS_CardinalityType
<1> QED
  BY <1>2, <1>3

\* A candidate that overlaps nothing is kept.
LEMMA KeepsApart ==
    ASSUME NEW all, AreWords(all), NEW rest, NEW k, NEW d, Merged(all, rest, k, d),
           NEW w \in rest, \A v \in rest : w.start <= v.start,
           k = <<>> \/ ~Speech!Overlap(k[Len(k)], w)
    PROVE  Merged(all, rest \ {w}, Append(k, w), d)
<1> DEFINE n == Append(k, w)
<1>1. IsList(k) /\ rest \subseteq all /\ w \in all
  BY DEF Merged
<1>2. PICK R : k \in Seq(R)
  BY <1>1 DEF IsList
<1>3. IsGrown(k, w, n)
  BY <1>1, GrownIs
<1> HIDE DEF n
<1>4. /\ IsList(n) /\ Len(k) \in Nat /\ Len(n) = Len(k) + 1 /\ n[Len(k) + 1] = w
      /\ \A i \in 1..Len(k) : n[i] = k[i]
  BY <1>3 DEF IsGrown, IsList
<1>5. DOMAIN k = 1..Len(k) /\ DOMAIN n = 1..Len(k) + 1
  BY <1>3 DEF IsGrown
<1>6. \A v \in all : v.start \in Nat /\ v.end \in Nat /\ v.start < v.end
  BY DEF AreWords
<1>7. \A i \in 1..Len(k) : k[i] \in all \ rest
  BY <1>5 DEF Merged
<1>8. Len(k) > 0 => k[Len(k)].end <= w.start
  <2>1. SUFFICES ASSUME Len(k) > 0 PROVE k[Len(k)].end <= w.start
    OBVIOUS
  <2>2. k # <<>>
    BY <2>1, <1>2, EmptySeq
  <2>3. k[Len(k)].start <= w.start
    BY <2>1 DEF Merged
  <2>4. k[Len(k)] \in all
    BY <1>4, <1>7, <2>1
  <2>5. PICK v : v = k[Len(k)]
    OBVIOUS
  <2>6. ~(v.start < w.end /\ w.start < v.end)
    BY <2>2, <2>5 DEF Speech!Overlap
  <2> QED
    BY <1>1, <1>6, <2>3, <2>4, <2>5, <2>6
<1>9. InOrder(n)
  <2>1. ASSUME NEW i \in 1..Len(n) - 1 PROVE n[i].end <= n[i + 1].start
    <3>1. i \in 1..Len(k) /\ n[i] = k[i]
      BY <1>4
    <3>2. CASE i = Len(k)
      BY <1>4, <1>8, <3>1, <3>2
    <3>3. CASE i # Len(k)
      <4>1. i \in 1..Len(k) - 1 /\ i + 1 \in 1..Len(k)
        BY <1>4, <3>1, <3>3
      <4>2. k[i].end <= k[i + 1].start
        BY <4>1 DEF Merged, InOrder
      <4> QED
        BY <1>4, <3>1, <4>1, <4>2
    <3> QED
      BY <3>2, <3>3
  <2> QED
    BY <2>1 DEF InOrder
<1>10. FairlyDropped(rest \ {w}, d)
  BY DEF Merged, FairlyDropped
<1>11. \A i \in DOMAIN n : n[i] \in all \ (rest \ {w})
  BY <1>1, <1>4, <1>5, <1>7
<1>12. \A v \in rest \ {w} : n[Len(n)].start <= v.start
  BY <1>4
<1>13. {n[i] : i \in DOMAIN n} = {k[i] : i \in DOMAIN k} \cup {w}
  <2>1. DOMAIN n = DOMAIN k \cup {Len(k) + 1} /\ \A i \in DOMAIN k : n[i] = k[i]
    BY <1>4, <1>5
  <2> QED
    BY <1>4, <2>1
<1>14. {n[i] : i \in DOMAIN n} \cup {e[2] : e \in d} \cup (rest \ {w}) = all
  <2>1. {k[i] : i \in DOMAIN k} \cup {e[2] : e \in d} \cup rest = all
    BY DEF Merged
  <2> QED
    BY <1>13, <2>1
<1>15. Len(n) + Cardinality(d) + Cardinality(rest \ {w}) = Cardinality(all)
  <2>1. Cardinality(rest) = Cardinality(rest \ {w}) + 1 /\ Cardinality(rest \ {w}) \in Nat
    BY <1>1, OneWordLess
  <2>2. Cardinality(d) \in Nat
    BY FS_CardinalityType DEF Merged, FairlyDropped
  <2>3. Len(k) + Cardinality(d) + Cardinality(rest) = Cardinality(all)
    BY DEF Merged
  <2> QED
    BY <1>4, <2>1, <2>2, <2>3
<1>16. rest \ {w} \subseteq all
  BY <1>1
<1>17. Merged(all, rest \ {w}, n, d)
  BY <1>4, <1>9, <1>10, <1>11, <1>12, <1>14, <1>15, <1>16 DEF Merged
<1> QED
  BY <1>17 DEF n

\* One more is dropped.
LEMMA OneMoreDropped ==
    ASSUME NEW rest, NEW d, FairlyDropped(rest, d), NEW w \in rest, NEW v, NEW u,
           w \in {v, u}, v \notin rest \ {w}, u \notin rest \ {w},
           Speech!Overlap(v, u), v.confidence >= u.confidence
    PROVE  /\ FairlyDropped(rest \ {w}, d \cup {<<v, u>>})
           /\ Cardinality(d) \in Nat /\ Cardinality(d \cup {<<v, u>>}) = Cardinality(d) + 1
<1>1. IsFiniteSet(d) /\ <<v, u>> \notin d
  BY DEF FairlyDropped
<1>2. /\ IsFiniteSet(d \cup {<<v, u>>}) /\ Cardinality(d) \in Nat
      /\ Cardinality(d \cup {<<v, u>>}) = Cardinality(d) + 1
  BY <1>1, FS_AddElement, FS_CardinalityType
<1>3. FairlyDropped(rest \ {w}, d \cup {<<v, u>>})
  BY <1>2 DEF FairlyDropped
<1> QED
  BY <1>2, <1>3

\* A candidate that the last kept word is preferred to.
LEMMA KeepsLast ==
    ASSUME NEW all, AreWords(all), NEW rest, NEW k, NEW d, Merged(all, rest, k, d), k # <<>>,
           NEW w \in rest, \A v \in rest : w.start <= v.start,
           Speech!Overlap(k[Len(k)], w), k[Len(k)].confidence >= w.confidence
    PROVE  Merged(all, rest \ {w}, k, d \cup {<<k[Len(k)], w>>})
<1>1. IsList(k) /\ rest \subseteq all
  BY DEF Merged
<1>2. PICK R : k \in Seq(R)
  BY <1>1 DEF IsList
<1>3. Len(k) \in Nat \ {0} /\ DOMAIN k = 1..Len(k)
  BY <1>2, LenProperties, EmptySeq
<1>4. PICK v : v = k[Len(k)]
  OBVIOUS
<1>5. v \in all \ rest
  <2>1. Len(k) \in DOMAIN k
    BY <1>3
  <2> QED
    BY <1>4, <2>1 DEF Merged
<1> DEFINE e == <<v, w>>
           m == d \cup {e}
<1>6. FairlyDropped(rest \ {w}, m) /\ Cardinality(d) \in Nat /\ Cardinality(m) = Cardinality(d) + 1
  <2>1. FairlyDropped(rest, d)
    BY DEF Merged
  <2>2. /\ Speech!Overlap(v, w) /\ v.confidence >= w.confidence
        /\ v \notin rest \ {w} /\ w \notin rest \ {w} /\ w \in {v, w}
    BY <1>4, <1>5
  <2>3. /\ FairlyDropped(rest \ {w}, d \cup {<<v, w>>})
        /\ Cardinality(d) \in Nat /\ Cardinality(d \cup {<<v, w>>}) = Cardinality(d) + 1
    BY <2>1, <2>2, OneMoreDropped
  <2> QED
    BY <2>3
<1>7. {x[2] : x \in m} = {x[2] : x \in d} \cup {w}
  <2>1. e[2] = w
    OBVIOUS
  <2> HIDE DEF e
  <2> QED
    BY <2>1
<1> HIDE DEF m
<1>8. {k[i] : i \in DOMAIN k} \cup {x[2] : x \in m} \cup (rest \ {w}) = all
  <2>1. {k[i] : i \in DOMAIN k} \cup {x[2] : x \in d} \cup rest = all
    BY DEF Merged
  <2> QED
    BY <1>7, <2>1
<1>9. Len(k) + Cardinality(m) + Cardinality(rest \ {w}) = Cardinality(all)
  <2>1. Cardinality(rest) = Cardinality(rest \ {w}) + 1 /\ Cardinality(rest \ {w}) \in Nat
    BY <1>1, OneWordLess
  <2>2. Len(k) + Cardinality(d) + Cardinality(rest) = Cardinality(all)
    BY DEF Merged
  <2> QED
    BY <1>3, <1>6, <2>1, <2>2
<1>10. /\ InOrder(k)
       /\ \A i \in DOMAIN k : k[i] \in all \ (rest \ {w})
       /\ Len(k) > 0 => \A x \in rest \ {w} : k[Len(k)].start <= x.start
  BY DEF Merged
<1>11. Merged(all, rest \ {w}, k, m)
  BY <1>1, <1>6, <1>8, <1>9, <1>10 DEF Merged
<1> QED
  BY <1>4, <1>11 DEF m

\* A candidate that takes the place of the last kept word.
LEMMA KeepsNext ==
    ASSUME NEW all, AreWords(all), NEW rest, NEW k, NEW d, Merged(all, rest, k, d), k # <<>>,
           NEW w \in rest, \A v \in rest : w.start <= v.start,
           Speech!Overlap(k[Len(k)], w), w.confidence >= k[Len(k)].confidence
    PROVE  Merged(all, rest \ {w}, [k EXCEPT ![Len(k)] = w], d \cup {<<w, k[Len(k)]>>})
<1>1. IsList(k) /\ rest \subseteq all /\ w \in all
  BY DEF Merged
<1>2. PICK R : k \in Seq(R)
  BY <1>1 DEF IsList
<1>3. Len(k) \in Nat \ {0} /\ DOMAIN k = 1..Len(k) /\ k \in [1..Len(k) -> R]
  BY <1>2, LenProperties, EmptySeq
<1>4. PICK v : v = k[Len(k)]
  OBVIOUS
<1>5. v \in all \ rest
  <2>1. Len(k) \in DOMAIN k
    BY <1>3
  <2> QED
    BY <1>4, <2>1 DEF Merged
<1> DEFINE e == <<w, v>>
           m == d \cup {e}
           n == [k EXCEPT ![Len(k)] = w]
<1>6. FairlyDropped(rest \ {w}, m) /\ Cardinality(d) \in Nat /\ Cardinality(m) = Cardinality(d) + 1
  <2>1. FairlyDropped(rest, d)
    BY DEF Merged
  <2>2. /\ Speech!Overlap(w, v) /\ w.confidence >= v.confidence
        /\ v \notin rest \ {w} /\ w \notin rest \ {w} /\ w \in {w, v}
    BY <1>4, <1>5 DEF Speech!Overlap
  <2> HIDE DEF m, n, e
  <2>3. /\ FairlyDropped(rest \ {w}, d \cup {<<w, v>>})
        /\ Cardinality(d) \in Nat /\ Cardinality(d \cup {<<w, v>>}) = Cardinality(d) + 1
    BY <2>1, <2>2, OneMoreDropped
  <2> QED
    BY <2>3 DEF m, e
<1>7. {x[2] : x \in m} = {x[2] : x \in d} \cup {v}
  <2>1. e[2] = v
    OBVIOUS
  <2> HIDE DEF e
  <2> QED
    BY <2>1
<1>8. IsList(n) /\ Len(n) = Len(k) /\ DOMAIN n = 1..Len(k)
  <2>1. n \in [1..Len(k) -> R \cup {w}]
    BY <1>3
  <2>2. n \in Seq(R \cup {w}) /\ Len(k) \in Nat
    BY <1>3, <2>1, SeqDef
  <2>3. Len(n) = Len(k)
    BY <2>1, <2>2, LenProperties
  <2> QED
    BY <2>1, <2>2, <2>3 DEF IsList
<1>9. n[Len(k)] = w /\ \A i \in 1..Len(k) - 1 : n[i] = k[i]
  <2>1. Len(k) \in DOMAIN k
    BY <1>3
  <2>2. \A i \in DOMAIN k : n[i] = IF i = Len(k) THEN w ELSE k[i]
    OBVIOUS
  <2>3. ASSUME NEW i \in 1..Len(k) - 1 PROVE i \in DOMAIN k /\ i # Len(k)
    <3>1. PICK c \in Nat : c = Len(k) /\ DOMAIN k = 1..c
      BY <1>3
    <3>2. i \in 1..c - 1
      BY <3>1
    <3> QED
      BY <3>1, <3>2
  <2> HIDE DEF n
  <2> QED
    BY <2>1, <2>2, <2>3
<1> HIDE DEF m, n
<1>10. \A x \in all : x.start \in Nat /\ x.end \in Nat /\ x.start < x.end
  BY DEF AreWords
<1>11. InOrder(n)
  <2>1. ASSUME NEW i \in 1..Len(n) - 1 PROVE n[i].end <= n[i + 1].start
    <3>1. i \in 1..Len(k) - 1 /\ n[i] = k[i] /\ k[i].end <= k[i + 1].start
      BY <1>8, <1>9 DEF Merged, InOrder
    <3>2. CASE i + 1 = Len(k)
      <4>1. v.start <= w.start
        BY <1>3, <1>4 DEF Merged
      <4>2. k[i].end <= v.start /\ n[i + 1] = w
        BY <1>4, <1>9, <3>1, <3>2
      <4>3. k[i] \in all
        BY <1>3, <3>1 DEF Merged
      <4> QED
        BY <1>1, <1>5, <1>10, <3>1, <4>1, <4>2, <4>3
    <3>3. CASE i + 1 # Len(k)
      <4>1. i + 1 \in 1..Len(k) - 1
        <5>1. i \in 1..Len(k) - 1 /\ Len(k) \in Nat
          BY <1>3, <3>1
        <5> QED
          BY <3>3, <5>1
      <4> QED
        BY <1>9, <3>1, <4>1
    <3> QED
      BY <3>2, <3>3
  <2> QED
    BY <2>1 DEF InOrder
<1>12. {n[i] : i \in DOMAIN n} \cup {v} = {k[i] : i \in DOMAIN k} \cup {w}
  <2>1. DOMAIN n = DOMAIN k /\ Len(k) \in DOMAIN k
    BY <1>3, <1>8
  <2>2. \A i \in DOMAIN k : i # Len(k) => n[i] = k[i]
    BY <1>3, <1>9
  <2>3. n[Len(k)] = w /\ k[Len(k)] = v
    BY <1>4, <1>9
  <2> QED
    BY <2>1, <2>2, <2>3
<1>13. {n[i] : i \in DOMAIN n} \cup {x[2] : x \in m} \cup (rest \ {w}) = all
  <2>1. {k[i] : i \in DOMAIN k} \cup {x[2] : x \in d} \cup rest = all
    BY DEF Merged
  <2> QED
    BY <1>7, <1>12, <2>1
<1>14. Len(n) + Cardinality(m) + Cardinality(rest \ {w}) = Cardinality(all)
  <2>1. Cardinality(rest) = Cardinality(rest \ {w}) + 1 /\ Cardinality(rest \ {w}) \in Nat
    BY <1>1, OneWordLess
  <2>2. Len(k) + Cardinality(d) + Cardinality(rest) = Cardinality(all)
    BY DEF Merged
  <2> QED
    BY <1>3, <1>6, <1>8, <2>1, <2>2
<1>15. \A i \in DOMAIN n : n[i] \in all \ (rest \ {w})
  <2>1. ASSUME NEW i \in 1..Len(k) PROVE n[i] \in all \ (rest \ {w})
    <3>1. CASE i = Len(k)
      BY <1>1, <1>9, <3>1
    <3>2. CASE i # Len(k)
      <4>1. n[i] = k[i] /\ i \in DOMAIN k
        <5>1. Len(k) \in Nat /\ i \in DOMAIN k
          BY <1>3
        <5>2. i \in 1..Len(k) - 1
          BY <3>2, <5>1
        <5> QED
          BY <1>9, <5>1, <5>2
      <4>2. k[i] \in all \ rest
        BY <4>1 DEF Merged
      <4> QED
        BY <4>1, <4>2
    <3> QED
      BY <3>1, <3>2
  <2> QED
    BY <1>8, <2>1
<1>16. \A x \in rest \ {w} : n[Len(n)].start <= x.start
  BY <1>8, <1>9
<1>17. Merged(all, rest \ {w}, n, m)
  <2>1. rest \ {w} \subseteq all
    BY <1>1
  <2> QED
    BY <1>6, <1>8, <1>11, <1>13, <1>14, <1>15, <1>16, <2>1 DEF Merged
<1> QED
  BY <1>4, <1>17 DEF m, n

\* One round of merge().
LEMMA MergeKeeps ==
    ASSUME SpeechInvariant, Speech!MergeNext
    PROVE  SpeechInvariant'
<1>1. /\ speechAt = "merging" /\ Merged(words, waiting, kept, dropped) /\ AreWords(words)
      /\ UNCHANGED <<samples, policy, speechAt, chunks, heard, words>>
  BY DEF SpeechInvariant, Speech!MergeNext
<1>2. PICK w \in waiting :
        /\ \A v \in waiting \ {w} : Speech!Earlier(w, v)
        /\ waiting' = waiting \ {w}
        /\ \/ /\ ~Speech!Clashes(w)
              /\ kept' = Append(kept, w)
              /\ UNCHANGED dropped
           \/ /\ Speech!Clashes(w)
              /\ \/ /\ Speech!Wins(kept[Len(kept)], w)
                    /\ dropped' = dropped \cup {<<kept[Len(kept)], w>>} /\ UNCHANGED kept
                 \/ /\ ~Speech!Wins(kept[Len(kept)], w)
                    /\ dropped' = dropped \cup {<<w, kept[Len(kept)]>>}
                    /\ kept' = [kept EXCEPT ![Len(kept)] = w]
  BY DEF Speech!MergeNext
<1>3. waiting \subseteq words
  BY <1>1 DEF Merged
<1>4. \A v \in words : v.start \in Nat /\ v.confidence \in Nat
  BY <1>1 DEF AreWords
<1>5. \A v \in waiting : w.start <= v.start
  BY <1>2, <1>3, <1>4 DEF Speech!Earlier
<1>6. Merged(words, waiting', kept', dropped')
  <2>1. CASE ~Speech!Clashes(w)
    <3>1. kept' = Append(kept, w) /\ dropped' = dropped /\ waiting' = waiting \ {w}
      BY <1>2, <2>1
    <3>2. kept = <<>> \/ ~Speech!Overlap(kept[Len(kept)], w)
      BY <2>1 DEF Speech!Clashes
    <3> QED
      BY <1>1, <1>5, <3>1, <3>2, KeepsApart
  <2>2. CASE Speech!Clashes(w)
    <3>1. kept # <<>> /\ Speech!Overlap(kept[Len(kept)], w)
      BY <2>2 DEF Speech!Clashes
    <3>2. kept[Len(kept)] \in words
      <4>1. PICK R : kept \in Seq(R)
        BY <1>1 DEF Merged, IsList
      <4>2. Len(kept) \in DOMAIN kept
        BY <3>1, <4>1, LenProperties, EmptySeq
      <4> QED
        BY <1>1, <4>2 DEF Merged
    <3>3. CASE Speech!Wins(kept[Len(kept)], w)
      <4>1. kept' = kept /\ dropped' = dropped \cup {<<kept[Len(kept)], w>>} /\ waiting' = waiting \ {w}
        BY <1>2, <2>2, <3>3
      <4>2. kept[Len(kept)].confidence >= w.confidence
        BY <1>3, <1>4, <3>2, <3>3 DEF Speech!Wins
      <4> QED
        BY <1>1, <1>5, <3>1, <4>1, <4>2, KeepsLast
    <3>4. CASE ~Speech!Wins(kept[Len(kept)], w)
      <4>1. /\ kept' = [kept EXCEPT ![Len(kept)] = w] /\ dropped' = dropped \cup {<<w, kept[Len(kept)]>>}
            /\ waiting' = waiting \ {w}
        BY <1>2, <2>2, <3>4
      <4>2. w.confidence >= kept[Len(kept)].confidence
        BY <1>3, <1>4, <3>2, <3>4 DEF Speech!Wins
      <4> QED
        BY <1>1, <1>5, <3>1, <4>1, <4>2, KeepsNext
    <3> QED
      BY <3>3, <3>4
  <2> QED
    BY <2>1, <2>2
<1>7. waiting' \subseteq words
  BY <1>2, <1>3
<1> QED
  BY <1>1, <1>6, <1>7 DEF SpeechInvariant

\* The policies of the studio can be planned with.
LEMMA PolicyIsBounded ==
    ASSUME samples \in 1..MaxSamples, policy \in Policies
    PROVE  IsSource(samples, policy)
<1>1. MaxSamples \in Nat /\ policy.max \in Nat /\ policy.min \in 1..policy.max
      /\ policy.overlap \in 0..policy.min - 1
  BY StudioConstants DEF Speech!SpeechConstants
<1>2. samples \in Nat \ {0}
  BY <1>1
<1>3. policy.min \in Nat /\ policy.overlap \in Nat /\ policy.overlap < policy.min /\ policy.min <= policy.max
  BY <1>1
<1> QED
  BY <1>1, <1>2, <1>3 DEF IsSource

\* What is recognised in a chunk are words.
LEMMA HeardAreWords ==
    ASSUME SpeechInvariant, NEW c \in 1..Len(chunks), NEW some \in Speech!Results(c)
    PROVE  AreWords(words \cup some)
<1>1. IsPlanned(chunks, samples, policy)
  <2>1. Len(chunks) # 0
    OBVIOUS
  <2>2. chunks # <<>>
    BY <2>1
  <2> QED
    BY <2>2 DEF SpeechInvariant
<1>2. chunks[c][1] \in Nat /\ chunks[c][2] \in Nat
  BY <1>1 DEF IsPlanned
<1>3. ASSUME NEW w \in Speech!Spoken(c), w.end - w.start \in 1..MaxLength
      PROVE  w.start \in Nat /\ w.end \in Nat /\ w.start < w.end /\ w.confidence \in Nat
  <2>1. /\ w.start \in chunks[c][1] .. chunks[c][2] - 1 /\ w.end \in chunks[c][1] + 1 .. chunks[c][2]
        /\ w.confidence \in Confidences
    BY <1>3 DEF Speech!Spoken
  <2>2. w.start \in Nat /\ w.end \in Nat
    BY <1>2, <2>1
  <2>3. w.start < w.end
    BY <1>3, <2>2
  <2>4. Confidences \subseteq Nat
    BY StudioConstants DEF Speech!SpeechConstants
  <2> QED
    BY <2>1, <2>2, <2>3, <2>4
<1> DEFINE sounds == {w \in Speech!Spoken(c) : w.end - w.start \in 1..MaxLength}
<1>4. some = {} \/ \E v, w \in sounds : some = {v, w}
  BY DEF Speech!Results
<1>5. IsFiniteSet(some)
  <2>1. ASSUME NEW v, NEW w, some = {v, w} PROVE IsFiniteSet(some)
    <3>1. some = {v} \cup {w}
      BY <2>1
    <3> QED
      BY <3>1, FS_Singleton, FS_Union
  <2> QED
    BY <1>4, <2>1, FS_EmptySet
<1>6. \A w \in some : w \in sounds
  BY <1>4
<1>7. AreWords(words)
  BY DEF SpeechInvariant
<1>8. IsFiniteSet(words \cup some)
  BY <1>5, <1>7, FS_Union DEF AreWords
<1>9. \A w \in words \cup some : /\ w.start \in Nat /\ w.end \in Nat /\ w.start < w.end
                                   /\ w.confidence \in Nat
  BY <1>3, <1>6, <1>7 DEF AreWords
<1> QED
  BY <1>8, <1>9 DEF AreWords

\* Every step keeps the transcription.
LEMMA SpeechStep ==
    ASSUME SpeechInvariant, [Speech!Next]_speechVars
    PROVE  SpeechInvariant'
<1>1. CASE UNCHANGED speechVars
  <2>1. Speech!Plannable' <=> Speech!Plannable
    BY <1>1 DEF speechVars, Speech!Plannable, Speech!Count, Speech!Total
  <2>2. /\ samples' = samples /\ policy' = policy /\ speechAt' = speechAt /\ chunks' = chunks
        /\ heard' = heard /\ words' = words /\ waiting' = waiting /\ kept' = kept /\ dropped' = dropped
    BY <1>1 DEF speechVars
  <2> QED
    BY <2>1, <2>2 DEF SpeechInvariant
<1>2. CASE Speech!MakePlan
  <2>1. /\ speechAt = "planning"
        /\ \/ Speech!Plannable /\ chunks' = Speech!Plan /\ speechAt' = "recognising"
           \/ ~Speech!Plannable /\ speechAt' = "unplannable" /\ chunks' = chunks
        /\ UNCHANGED <<samples, policy, heard, words, waiting, kept, dropped>>
    BY <1>2 DEF Speech!MakePlan
  <2>2. IsSource(samples, policy) /\ chunks = <<>> /\ heard \in 0..Len(chunks)
    BY <2>1 DEF SpeechInvariant
  <2>3. heard = 0
    BY <2>2
  <2>4. CASE Speech!Plannable
    <3>1. IsPlanned(chunks', samples, policy) /\ speechAt' = "recognising"
      BY <2>1, <2>2, <2>4, PlanHolds
    <3>2. heard' \in 0..Len(chunks')
      BY <2>1, <2>3, <3>1 DEF IsPlanned
    <3>3. speechAt' \in Speech!Stages
      BY <3>1 DEF Speech!Stages
    <3> QED
      BY <2>1, <3>1, <3>2, <3>3 DEF SpeechInvariant
  <2>5. CASE ~Speech!Plannable
    <3>1. ~Speech!Plannable'
      BY <2>1, <2>5 DEF Speech!Plannable, Speech!Count, Speech!Total
    <3>2. speechAt' = "unplannable" /\ chunks' = chunks /\ speechAt' \in Speech!Stages
      BY <2>1, <2>5 DEF Speech!Stages
    <3> QED
      BY <2>1, <3>1, <3>2 DEF SpeechInvariant
  <2> QED
    BY <2>4, <2>5
<1>3. CASE Speech!Recognise
  <2>1. /\ speechAt = "recognising" /\ heard < Len(chunks) /\ heard' = heard + 1
        /\ \E some \in Speech!Results(heard + 1) : words' = words \cup some
        /\ UNCHANGED <<samples, policy, speechAt, chunks, waiting, kept, dropped>>
    BY <1>3 DEF Speech!Recognise
  <2>2. heard \in 0..Len(chunks) /\ waiting = {}
    BY <2>1 DEF SpeechInvariant
  <2>3. Len(chunks) \in Nat
    <3>1. CASE chunks = <<>>
      BY <3>1
    <3>2. CASE chunks # <<>>
      BY <3>2 DEF SpeechInvariant, IsPlanned
    <3> QED
      BY <3>1, <3>2
  <2>4. heard + 1 \in 1..Len(chunks)
    BY <2>1, <2>2, <2>3
  <2>5. AreWords(words')
    BY <2>1, <2>4, HeardAreWords
  <2>6. heard' \in 0..Len(chunks')
    BY <2>1, <2>3, <2>4
  <2> QED
    BY <2>1, <2>2, <2>5, <2>6 DEF SpeechInvariant
<1>4. CASE Speech!BeginMerge
  <2>1. /\ speechAt = "recognising" /\ speechAt' = "merging" /\ waiting' = words
        /\ UNCHANGED <<samples, policy, chunks, heard, words, kept, dropped>>
    BY <1>4 DEF Speech!BeginMerge
  <2>2. kept = <<>> /\ dropped = {} /\ AreWords(words)
    BY <2>1 DEF SpeechInvariant
  <2>3. Merged(words, words, <<>>, {})
    <3>1. Len(<<>>) = 0 /\ DOMAIN <<>> = {} /\ IsList(<<>>)
      BY DEF IsList
    <3>2. Cardinality({}) = 0 /\ IsFiniteSet({})
      BY FS_EmptySet
    <3>3. Cardinality(words) \in Nat
      BY <2>2, FS_CardinalityType DEF AreWords
    <3>4. InOrder(<<>>) /\ FairlyDropped(words, {})
      BY <3>1, <3>2 DEF InOrder, FairlyDropped
    <3>5. Len(<<>>) + Cardinality({}) + Cardinality(words) = Cardinality(words)
      BY <3>1, <3>2, <3>3
    <3> HIDE DEF IsList
    <3> QED
      BY <3>1, <3>4, <3>5 DEF Merged
  <2>4. speechAt' \in Speech!Stages
    BY <2>1 DEF Speech!Stages
  <2> QED
    BY <2>1, <2>2, <2>3, <2>4 DEF SpeechInvariant
<1>5. CASE Speech!MergeNext
  BY <1>5, MergeKeeps
<1>6. CASE Speech!EndMerge
  <2>1. /\ speechAt = "merging" /\ speechAt' = "complete" /\ waiting = {}
        /\ UNCHANGED <<samples, policy, chunks, heard, words, waiting, kept, dropped>>
    BY <1>6 DEF Speech!EndMerge
  <2>2. speechAt' \in Speech!Stages
    BY <2>1 DEF Speech!Stages
  <2> QED
    BY <2>1, <2>2 DEF SpeechInvariant
<1>7. CASE Speech!Fail
  <2>1. /\ speechAt' = "failed" /\ speechAt \in {"recognising", "merging"}
        /\ UNCHANGED <<samples, policy, chunks, heard, words, waiting, kept, dropped>>
    BY <1>7 DEF Speech!Fail
  <2>2. speechAt' \in Speech!Stages
    BY <2>1 DEF Speech!Stages
  <2> QED
    BY <2>1, <2>2 DEF SpeechInvariant
<1> QED
  BY <1>1, <1>2, <1>3, <1>4, <1>5, <1>6, <1>7 DEF Speech!Next

\* In the beginning a source waits for its plan.
LEMMA SpeechInit == Speech!Init => SpeechInvariant
<1> SUFFICES ASSUME Speech!Init PROVE SpeechInvariant
  OBVIOUS
<1>1. /\ samples \in 1..MaxSamples /\ policy \in Policies /\ speechAt = "planning"
      /\ chunks = <<>> /\ heard = 0 /\ words = {} /\ waiting = {} /\ kept = <<>> /\ dropped = {}
  BY DEF Speech!Init
<1>2. IsSource(samples, policy)
  BY <1>1, PolicyIsBounded
<1>3. AreWords({})
  BY FS_EmptySet DEF AreWords
<1>4. speechAt \in Speech!Stages /\ heard \in 0..Len(chunks)
  BY <1>1 DEF Speech!Stages
<1> QED
  BY <1>1, <1>2, <1>3, <1>4 DEF SpeechInvariant

\* The invariant of the recognition says that all speech is accounted for.
LEMMA SpeechKept == SpeechInvariant => Speech!SpeechIsAccountedFor
<1> SUFFICES ASSUME SpeechInvariant PROVE Speech!SpeechIsAccountedFor
  OBVIOUS
<1>1. Speech!PlanIsExact
  <2>1. ASSUME chunks # <<>>
        PROVE  /\ chunks[1][1] = 0 /\ chunks[Len(chunks)][2] = samples
               /\ \A i \in DOMAIN chunks :
                    /\ chunks[i][2] - chunks[i][1] <= policy.max
                    /\ Len(chunks) > 1 => chunks[i][2] - chunks[i][1] >= policy.min
                    /\ i > 1 => chunks[i - 1][2] - chunks[i][1] = policy.overlap
    BY <2>1 DEF SpeechInvariant, IsPlanned
  <2>2. ASSUME speechAt = "unplannable", NEW n \in 1..MaxSamples PROVE ~Speech!Possible(n)
    <3>1. n \in Nat \ {0}
      BY StudioConstants DEF Speech!SpeechConstants
    <3>2. IsSource(samples, policy) /\ ~Speech!Plannable
      BY <2>2 DEF SpeechInvariant
    <3> QED
      BY <3>1, <3>2, NoPlan
  <2> QED
    BY <2>1, <2>2 DEF Speech!PlanIsExact
<1>2. Speech!MergeIsFaithful
  <2>1. SUFFICES ASSUME speechAt = "complete"
        PROVE /\ \A i \in 1 .. Len(kept) - 1 : kept[i].end <= kept[i + 1].start
              /\ {kept[i] : i \in DOMAIN kept} \cup {d[2] : d \in dropped} = words
              /\ Len(kept) + Speech!Cardinality(dropped) = Speech!Cardinality(words)
              /\ \A d \in dropped : Speech!Overlap(d[1], d[2]) /\ d[1].confidence >= d[2].confidence
    BY DEF Speech!MergeIsFaithful
  <2>2. Merged(words, waiting, kept, dropped) /\ waiting = {}
    BY <2>1 DEF SpeechInvariant
  <2>3. Len(kept) + Cardinality(dropped) = Cardinality(words)
    <3>1. Cardinality(waiting) = 0
      BY <2>2, FS_EmptySet
    <3>2. Cardinality(dropped) \in Nat
      BY <2>2, FS_CardinalityType DEF Merged, FairlyDropped
    <3>3. Len(kept) \in Nat
      <4>1. PICK S : kept \in Seq(S)
        BY <2>2 DEF Merged, IsList
      <4> QED
        BY <4>1
    <3>4. Len(kept) + Cardinality(dropped) + Cardinality(waiting) = Cardinality(words)
      BY <2>2 DEF Merged
    <3> QED
      BY <3>1, <3>2, <3>3, <3>4
  <2>4. Speech!Cardinality(dropped) = Cardinality(dropped) /\ Speech!Cardinality(words) = Cardinality(words)
    BY DEF Speech!Cardinality, Cardinality
  <2>5. {kept[i] : i \in DOMAIN kept} \cup {d[2] : d \in dropped} = words
    BY <2>2 DEF Merged
  <2>6. \A i \in 1 .. Len(kept) - 1 : kept[i].end <= kept[i + 1].start
    BY <2>2 DEF Merged, InOrder
  <2>7. \A d \in dropped : Speech!Overlap(d[1], d[2]) /\ d[1].confidence >= d[2].confidence
    BY <2>2 DEF Merged, FairlyDropped
  <2> QED
    BY <2>3, <2>4, <2>5, <2>6, <2>7
<1> QED
  BY <1>1, <1>2 DEF Speech!SpeechIsAccountedFor

\* The invariant of the recognition has its types.
LEMMA SpeechTypes == SpeechInvariant => Speech!TypeOK
<1>1. SpeechInvariant => \A i \in DOMAIN chunks : 0 <= chunks[i][1] /\ chunks[i][1] < chunks[i][2]
  BY DEF SpeechInvariant, IsPlanned
<1> QED
  BY <1>1 DEF SpeechInvariant, Speech!TypeOK

-----------------------------------------------------------------------------
(* The types of the tracks and of the translation.                         *)

FaceRecords == [first: 1..MaxFrame, last: 1..MaxFrame, seen: Seq(1..MaxFrame)]

\* A frame with faces that are left has a number.
FacesTyped ==
    /\ frame \in 0..MaxFrame /\ left \in 0..MaxFaces /\ (left > 0 => frame > 0)
    /\ matched \subseteq DOMAIN tracks /\ tracks \in Seq(FaceRecords)

\* Tracks are only extended, or begun behind the others.
LEMMA FacesTypes ==
    /\ Faces!Init => FacesTyped
    /\ FacesTyped /\ [Faces!Next]_facesVars => FacesTyped'
    /\ FacesTyped => Faces!TypeOK
<1>1. MaxFrame \in Nat /\ MaxFaces \in Nat
  BY StudioConstants DEF Faces!FaceConstants
<1>2. Faces!Init => FacesTyped
  BY <1>1, EmptySeq DEF Faces!Init, FacesTyped
<1>3. FacesTyped => Faces!TypeOK
  BY DEF FacesTyped, FaceRecords, Faces!TypeOK
<1> SUFFICES ASSUME FacesTyped, [Faces!Next]_facesVars PROVE FacesTyped'
  BY <1>2, <1>3
<1>4. /\ frame \in 0..MaxFrame /\ left \in 0..MaxFaces /\ (left > 0 => frame > 0)
      /\ matched \subseteq DOMAIN tracks /\ tracks \in Seq(FaceRecords)
      /\ Len(tracks) \in Nat /\ DOMAIN tracks = 1..Len(tracks)
      /\ tracks \in [1..Len(tracks) -> FaceRecords]
  BY LenProperties DEF FacesTyped
<1>5. CASE UNCHANGED facesVars
  BY <1>4, <1>5 DEF facesVars, FacesTyped
<1>6. ASSUME NEW n \in 0..MaxFaces, Faces!NextFrame(n)
      PROVE  FacesTyped'
  BY <1>1, <1>4, <1>6 DEF Faces!NextFrame, FacesTyped
<1>7. ASSUME NEW t \in DOMAIN tracks, Faces!Follow(t) PROVE FacesTyped'
  <2>1. /\ tracks' = [tracks EXCEPT ![t].last = frame, ![t].seen = Append(@, frame)]
        /\ left > 0 /\ matched' = matched \cup {t} /\ left' = left - 1 /\ frame' = frame
    BY <1>7 DEF Faces!Follow
  <2>2. PICK track : track = tracks[t]
    OBVIOUS
  <2>3. track \in FaceRecords /\ frame \in 1..MaxFrame
    BY <1>1, <1>4, <2>1, <2>2
  <2>4. PICK seen : seen = Append(track.seen, frame)
    OBVIOUS
  <2>5. track.seen \in Seq(1..MaxFrame)
    BY <2>3 DEF FaceRecords
  <2>6. seen \in Seq(1..MaxFrame)
    BY <2>3, <2>4, <2>5, AppendProperties
  <2>7. PICK new : new = [track EXCEPT !.last = frame, !.seen = seen]
    OBVIOUS
  <2>8. new \in FaceRecords
    BY <2>3, <2>6, <2>7 DEF FaceRecords
  <2>9. tracks' = [tracks EXCEPT ![t] = new]
    BY <1>4, <2>1, <2>2, <2>4, <2>7
  <2>10. tracks' \in [1..Len(tracks) -> FaceRecords]
    BY <1>4, <2>8, <2>9
  <2>11. tracks' \in Seq(FaceRecords) /\ DOMAIN tracks' = DOMAIN tracks
    BY <1>4, <2>10, SeqDef
  <2> QED
    BY <1>1, <1>4, <2>1, <2>11 DEF FacesTyped
<1>8. CASE Faces!Begin
  <2>1. PICK new : new = [first |-> frame, last |-> frame, seen |-> <<frame>>]
    OBVIOUS
  <2>2. /\ tracks' = Append(tracks, new) /\ left > 0
        /\ matched' = matched \cup {Len(tracks) + 1} /\ left' = left - 1 /\ frame' = frame
    BY <1>8, <2>1 DEF Faces!Begin
  <2>3. frame \in 1..MaxFrame /\ left' \in 0..MaxFaces
    BY <1>1, <1>4, <2>2
  <2>4. <<frame>> \in Seq(1..MaxFrame)
    BY <2>3
  <2>5. new \in FaceRecords
    BY <2>1, <2>3, <2>4 DEF FaceRecords
  <2>6. tracks' \in Seq(FaceRecords) /\ Len(tracks') = Len(tracks) + 1
    BY <1>4, <2>2, <2>5, AppendProperties
  <2>7. DOMAIN tracks' = 1..Len(tracks) + 1
    BY <2>6, LenProperties
  <2>8. matched' \subseteq DOMAIN tracks'
    BY <1>4, <2>2, <2>7
  <2> QED
    BY <1>4, <2>2, <2>3, <2>6, <2>8 DEF FacesTyped
<1> QED
  BY <1>5, <1>6, <1>7, <1>8 DEF Faces!Next

\* A line of the chunk is the one behind it at most.
LEMMA BatchTypes == BatchInvariant => Batch!TypeOK
<1> SUFFICES ASSUME BatchInvariant PROVE Batch!TypeOK
  OBVIOUS
<1>1. /\ start \in 0..NumLines /\ lineNext \in Nat \ {0} /\ lineNext <= ChunkAfter(start) + 1
      /\ phase \in {"asking", "reading", "one_by_one", "done"} /\ results \in Seq(BatchResults)
  BY DEF BatchInvariant
<1>2. ChunkAfter(start) \in 0..ChunkSize /\ ChunkSize \in Nat
  BY <1>1, ChunkIsThere
<1>3. lineNext \in 1 .. ChunkSize + 1
  BY <1>1, <1>2
<1> QED
  BY <1>1, <1>3 DEF Batch!TypeOK, BatchResults

===============================================================================
