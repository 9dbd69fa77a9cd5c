---------------------------- MODULE EditingProofs ----------------------------
(***************************************************************************)
(* Proofs about what editors move, for any values of the constants: the    *)
(* clips of the timeline and the ranges of the edit clock; and, with what  *)
(* SourceProofs says, that nothing of a source gets lost on its way.       *)
(***************************************************************************)
EXTENDS SourceProofs

-----------------------------------------------------------------------------
(* Clips.                                                                  *)

\* Arithmetic of what stands in a row.
LEMMA LessNothing == \A k \in Nat : k = k - 0
OBVIOUS

\* The place behind the second part of a split.
LEMMA Behind ==
    \A q, l, i \in Nat : i \in 2..l /\ i = q + 1 /\ q > 1 =>
        i - 1 = q /\ 1 \in 1..l - q /\ q + 1 \in 1..l /\ q + 1 > 1 /\ q + 1 - 1 = q
OBVIOUS

\* Distances in a row are one distance.
LEMMA Telescopes ==
    \A s, a, b, c, d \in Nat : s + (b - a) + (c - b) + (d - c) = s + (d - a)
OBVIOUS

\* Two neighbours and the gaps around them fill the space they stand in.
LEMMA GapsAdd ==
    \A s, x, d, v, c, z, e \in Nat :
        s + d + c + e + ((v - (x + d)) + (z - (v + c))) = s + (z + e - x)
OBVIOUS

\* The sum of the first k values.
SumTo(f, k) == SumOf(f, 1..k)

IsValues(f, n) == n \in Nat /\ f \in [1..n -> Nat]

\* A sum of one value more is larger by that value.
LEMMA SumToNext ==
    ASSUME NEW n, NEW f, IsValues(f, n)
    PROVE  /\ SumTo(f, 0) = 0
           /\ \A k \in 0..n : SumTo(f, k) \in Nat
           /\ \A k \in 0..n - 1 : SumTo(f, k + 1) = SumTo(f, k) + f[k + 1]
<1>1. n \in Nat /\ f \in [1..n -> Nat]
  BY DEF IsValues
<1>2. ASSUME NEW k \in 0..n PROVE IsFiniteSet(1..k) /\ 1..k \subseteq 1..n
  BY <1>1, FS_Interval
<1>3. \A k \in 0..n : SumTo(f, k) \in Nat
  BY <1>1, <1>2, SumUnfolds DEF SumTo
<1>4. SumTo(f, 0) = 0
  <2>1. 1..0 = {} /\ 0 \in 0..n
    BY <1>1
  <2> QED
    BY <1>1, <1>2, <2>1, SumUnfolds DEF SumTo
<1>5. ASSUME NEW k \in 0..n - 1 PROVE SumTo(f, k + 1) = SumTo(f, k) + f[k + 1]
  <2>1. k + 1 \in 0..n /\ k + 1 \in 1..k + 1
    BY <1>1
  <2>2. (1..k + 1) \ {k + 1} = 1..k
    BY <1>1
  <2>3. SumOf(f, 1..k + 1) = f[k + 1] + SumOf(f, (1..k + 1) \ {k + 1})
    BY <1>1, <1>2, <2>1, SumOfAny
  <2>4. f[k + 1] \in Nat /\ SumTo(f, k) \in Nat
    BY <1>1, <1>3
  <2>5. SumTo(f, k + 1) = f[k + 1] + SumTo(f, k)
    BY <2>2, <2>3 DEF SumTo
  <2> QED
    BY <2>4, <2>5
<1> QED
  BY <1>3, <1>4, <1>5

\* What comes after a in one and after b in the other is the same.
Alike(f, a, g, b, c) == \A i \in 1..c : g[b + i] = f[a + i]

\* The same values add the same to both sums.
LEMMA SumsAlike ==
    ASSUME NEW n, NEW f, IsValues(f, n), NEW m, NEW g, IsValues(g, m),
           NEW a, a \in Nat, NEW b, b \in Nat, NEW c, c \in Nat, a + c <= n, b + c <= m,
           Alike(f, a, g, b, c)
    PROVE  SumTo(g, b + c) + SumTo(f, a) = SumTo(f, a + c) + SumTo(g, b)
<1> DEFINE Bad == {k \in Nat : k <= c /\ SumTo(g, b + k) + SumTo(f, a) # SumTo(f, a + k) + SumTo(g, b)}
<1>1. SUFFICES ASSUME c \in Bad PROVE FALSE
  OBVIOUS
<1>2. PICK k \in Bad : \A l \in Bad : k <= l
  <2>1. Bad \subseteq Nat /\ Bad # {}
    BY <1>1
  <2> HIDE DEF Bad
  <2> QED
    BY <2>1, LeastExists
<1>3. k # 0
  <2>1. SUFFICES ASSUME k = 0 PROVE FALSE
    OBVIOUS
  <2>2. b + k = b /\ a + k = a
    BY <2>1
  <2>3. SumTo(f, a) \in Nat /\ SumTo(g, b) \in Nat
    <3>1. a \in 0..n /\ b \in 0..m
      BY DEF IsValues
    <3> QED
      BY <3>1, SumToNext
  <2> QED
    BY <1>2, <2>2, <2>3
<1>4. PICK l \in Nat : k = l + 1 /\ l + 1 <= c
  BY <1>2, <1>3
<1>5. SumTo(g, b + l) + SumTo(f, a) = SumTo(f, a + l) + SumTo(g, b)
  BY <1>2, <1>4
<1>6. n \in Nat /\ m \in Nat /\ f \in [1..n -> Nat] /\ g \in [1..m -> Nat]
  BY DEF IsValues
<1>7. PICK p \in Nat, q \in Nat : p = a + l /\ q = b + l /\ p \in 0..n - 1 /\ q \in 0..m - 1
  BY <1>4, <1>6
<1>8. SumTo(f, p + 1) = SumTo(f, p) + f[p + 1] /\ SumTo(g, q + 1) = SumTo(g, q) + g[q + 1]
  BY <1>7, SumToNext
<1>9. f[p + 1] = g[q + 1] /\ f[p + 1] \in Nat
  <2>1. l + 1 \in 1..c /\ a + (l + 1) = p + 1 /\ b + (l + 1) = q + 1 /\ p + 1 \in 1..n
    BY <1>4, <1>6, <1>7
  <2>2. g[b + (l + 1)] = f[a + (l + 1)]
    BY <2>1 DEF Alike
  <2> QED
    BY <1>6, <2>1, <2>2
<1>10. SumTo(f, p) \in Nat /\ SumTo(g, q) \in Nat /\ SumTo(f, a) \in Nat /\ SumTo(g, b) \in Nat
  <2>1. p \in 0..n /\ q \in 0..m /\ a \in 0..n /\ b \in 0..m
    BY <1>6, <1>7
  <2> QED
    BY <2>1, SumToNext
<1>11. a + k = p + 1 /\ b + k = q + 1
  BY <1>4, <1>7
<1>12. SumTo(g, q) + SumTo(f, a) = SumTo(f, p) + SumTo(g, b)
  BY <1>5, <1>7
<1>13. SumTo(g, q + 1) + SumTo(f, a) = SumTo(f, p + 1) + SumTo(g, b)
  BY <1>8, <1>9, <1>10, <1>12
<1> QED
  BY <1>2, <1>11, <1>13

\* A track.
EndOf(c) == c.start + c.duration
IsClip(c) == c.start \in Nat /\ c.duration \in Nat \ {0}

IsClipTrack(t, n) ==
    /\ n \in Nat /\ n = Len(t) /\ DOMAIN t = 1..n /\ t \in Seq([start: Nat, duration: Nat \ {0}])
    /\ \A i \in 1..n : IsClip(t[i])
    /\ \A i \in 2..n : EndOf(t[i - 1]) <= t[i].start

LengthsOf(t, n) == [i \in 1..n |-> t[i].duration]
GapAt(t, i) == t[i].start - IF i = 1 THEN 0 ELSE EndOf(t[i - 1])
GapsOf(t, n) == [i \in 1..n |-> GapAt(t, i)]

\* The lengths and the gaps of a track are numbers.
LEMMA TrackValues ==
    ASSUME NEW t, NEW n, IsClipTrack(t, n)
    PROVE  IsValues(LengthsOf(t, n), n) /\ IsValues(GapsOf(t, n), n)
<1>1. n \in Nat /\ \A i \in 1..n : IsClip(t[i])
  BY DEF IsClipTrack
<1>2. \A i \in 1..n : t[i].duration \in Nat
  BY <1>1 DEF IsClip
<1>3. ASSUME NEW i \in 1..n PROVE GapAt(t, i) \in Nat
  <2>1. CASE i = 1
    BY <1>1, <2>1 DEF IsClip, GapAt
  <2>2. CASE i # 1
    <3>1. i \in 2..n /\ i - 1 \in 1..n
      BY <1>1, <2>2
    <3>2. EndOf(t[i - 1]) <= t[i].start
      BY <3>1 DEF IsClipTrack
    <3>3. EndOf(t[i - 1]) \in Nat /\ t[i].start \in Nat
      BY <1>1, <3>1 DEF IsClip, EndOf
    <3> QED
      BY <2>2, <3>2, <3>3 DEF GapAt
  <2> QED
    BY <2>1, <2>2
<1> QED
  BY <1>1, <1>2, <1>3 DEF IsValues, LengthsOf, GapsOf

\* A track ends after its gaps and its clips.
TrackEnd(t, n) == IF n = 0 THEN 0 ELSE EndOf(t[n])

\* Its gaps and its clips fill a track to the end, by induction over the clips.
LEMMA GapsAndClips ==
    ASSUME NEW t, NEW n, IsClipTrack(t, n)
    PROVE  /\ SumTo(GapsOf(t, n), n) \in Nat /\ SumTo(LengthsOf(t, n), n) \in Nat
           /\ SumTo(GapsOf(t, n), n) + SumTo(LengthsOf(t, n), n) = TrackEnd(t, n)
<1> DEFINE f == GapsOf(t, n)
           g == LengthsOf(t, n)
           Bad == {k \in Nat : k <= n /\ SumTo(f, k) + SumTo(g, k) # TrackEnd(t, k)}
<1>1. IsValues(f, n) /\ IsValues(g, n) /\ n \in Nat
  BY TrackValues DEF IsClipTrack
<1>2. /\ SumTo(f, 0) = 0 /\ SumTo(g, 0) = 0
      /\ \A k \in 0..n : SumTo(f, k) \in Nat /\ SumTo(g, k) \in Nat
      /\ \A k \in 0..n - 1 : /\ SumTo(f, k + 1) = SumTo(f, k) + f[k + 1]
                             /\ SumTo(g, k + 1) = SumTo(g, k) + g[k + 1]
  <2> HIDE DEF f, g
  <2> QED
    BY <1>1, SumToNext
<1>3. \A k \in 1..n : f[k] = GapAt(t, k) /\ g[k] = t[k].duration
  BY DEF GapsOf, LengthsOf
<1> HIDE DEF f, g
<1>4. ASSUME n \in Bad PROVE FALSE
  <2>1. PICK k \in Bad : \A l \in Bad : k <= l
    <3>1. Bad \subseteq Nat /\ Bad # {}
      BY <1>4
    <3> HIDE DEF Bad
    <3> QED
      BY <3>1, LeastExists
  <2>2. k # 0
    BY <1>2, <2>1 DEF TrackEnd
  <2>3. PICK l \in Nat : k = l + 1 /\ l + 1 <= n /\ l \in 0..n - 1 /\ l + 1 \in 1..n /\ l \in 0..n
    BY <1>1, <2>1, <2>2
  <2>4. SumTo(f, l) + SumTo(g, l) = TrackEnd(t, l)
    BY <2>1, <2>3
  <2>5. IsClip(t[l + 1])
    BY <2>3 DEF IsClipTrack
  <2>6. f[l + 1] = t[l + 1].start - TrackEnd(t, l)
    <3>1. l + 1 - 1 = l /\ (l + 1 = 1 <=> l = 0)
      BY <2>3
    <3> QED
      BY <1>3, <2>3, <3>1 DEF GapAt, TrackEnd
  <2>7. TrackEnd(t, l) \in Nat
    BY <1>2, <2>3, <2>4
  <2>8. TrackEnd(t, l + 1) = t[l + 1].start + t[l + 1].duration
    BY <2>3 DEF TrackEnd, EndOf
  <2>9. g[l + 1] = t[l + 1].duration
    BY <1>3, <2>3
  <2>10. PICK x \in Nat, y \in Nat, s \in Nat, d \in Nat, e \in Nat :
           /\ x = SumTo(f, l) /\ y = SumTo(g, l) /\ s = t[l + 1].start /\ d = t[l + 1].duration
           /\ e = TrackEnd(t, l)
    BY <1>2, <2>3, <2>5, <2>7 DEF IsClip
  <2>11. SumTo(f, l + 1) = x + (s - e) /\ SumTo(g, l + 1) = y + d
    BY <1>2, <2>3, <2>6, <2>9, <2>10
  <2>12. SumTo(f, l + 1) + SumTo(g, l + 1) = TrackEnd(t, l + 1)
    BY <2>4, <2>8, <2>10, <2>11
  <2> QED
    BY <2>1, <2>3, <2>12
<1>5. SumTo(f, n) + SumTo(g, n) = TrackEnd(t, n)
  BY <1>1, <1>4
<1>6. SumTo(f, n) \in Nat /\ SumTo(g, n) \in Nat
  BY <1>1, <1>2
<1> QED
  BY <1>5, <1>6 DEF f, g

ClipSet == [start: Nat, duration: Nat \ {0}]

\* A track u that is t but for what is between: the first p clips are those
\* of t, and what follows on a in t follows on b in u, earlier by s.
IsEdit(t, n, u, m, p, a, b, s) ==
    /\ m \in Nat /\ m = Len(u) /\ u \in Seq(ClipSet)
    /\ p \in Nat /\ a \in Nat /\ b \in Nat /\ s \in Nat
    /\ p <= a /\ p <= b /\ a <= n /\ b <= m /\ n - a = m - b
    /\ \A i \in 1..p : u[i] = t[i]
    /\ \A i \in 1..n - a : u[b + i].duration = t[a + i].duration /\ u[b + i].start = t[a + i].start - s
    /\ \A i \in 2..m : i > p /\ i <= b + 1 => EndOf(u[i - 1]) <= u[i].start

\* Such an edit leaves a track, and sums that differ where it edited.
LEMMA EditKeeps ==
    ASSUME NEW t, NEW n, IsClipTrack(t, n), NEW u, NEW m, NEW p, NEW a, NEW b, NEW s,
           IsEdit(t, n, u, m, p, a, b, s)
    PROVE  /\ IsClipTrack(u, m)
           /\ SumTo(LengthsOf(u, m), p) = SumTo(LengthsOf(t, n), p)
           /\ SumTo(LengthsOf(u, m), m) + SumTo(LengthsOf(t, n), a)
                = SumTo(LengthsOf(t, n), n) + SumTo(LengthsOf(u, m), b)
           /\ n > a => TrackEnd(u, m) = TrackEnd(t, n) - s
<1>1. /\ m \in Nat /\ p \in Nat /\ a \in Nat /\ b \in Nat /\ s \in Nat
      /\ p <= a /\ p <= b /\ a <= n /\ b <= m /\ n - a = m - b
  BY DEF IsEdit
<1>2. n \in Nat /\ \A i \in 1..n : IsClip(t[i])
  BY DEF IsClipTrack
<1>3. DOMAIN u = 1..m /\ \A i \in 1..m : IsClip(u[i])
  <2>1. m = Len(u) /\ u \in Seq(ClipSet)
    BY DEF IsEdit
  <2>2. DOMAIN u = 1..m /\ \A i \in 1..m : u[i] \in ClipSet
    BY <2>1, LenProperties
  <2>3. \A c \in ClipSet : IsClip(c)
    BY DEF ClipSet, IsClip
  <2> QED
    BY <2>2, <2>3
<1>4. PICK c \in Nat : c = n - a /\ n = a + c /\ m = b + c
  BY <1>1, <1>2
<1>5. \A i \in 1..c : u[b + i].duration = t[a + i].duration /\ u[b + i].start = t[a + i].start - s
  BY <1>4 DEF IsEdit
<1>6. ASSUME NEW i \in 2..m PROVE EndOf(u[i - 1]) <= u[i].start
  <2>1. CASE i <= p
    <3>1. i \in 1..p /\ i - 1 \in 1..p /\ i \in 2..n
      BY <1>1, <1>2, <2>1
    <3>2. u[i] = t[i] /\ u[i - 1] = t[i - 1]
      BY <3>1 DEF IsEdit
    <3> QED
      BY <3>1, <3>2 DEF IsClipTrack
  <2>2. CASE i > p /\ i <= b + 1
    BY <2>2 DEF IsEdit
  <2>3. CASE i > b + 1
    <3>1. PICK j \in Nat : i = b + j /\ j \in 2..c /\ j \in 1..c /\ j - 1 \in 1..c
      <4>1. i - b \in Nat
        BY <1>1, <2>3
      <4>2. i = b + (i - b) /\ i - b >= 2 /\ i - b <= c
        BY <1>1, <1>4, <2>3
      <4> QED
        BY <4>1, <4>2
    <3>2. /\ u[b + j].start = t[a + j].start - s
          /\ u[b + (j - 1)].duration = t[a + (j - 1)].duration
          /\ u[b + (j - 1)].start = t[a + (j - 1)].start - s
      BY <1>5, <3>1
    <3>3. PICK k \in Nat : k = a + j /\ k \in 2..n /\ a + (j - 1) = k - 1 /\ k - 1 \in 1..n /\ k \in 1..n
      BY <1>1, <1>4, <3>1
    <3>4. EndOf(t[k - 1]) <= t[k].start
      BY <3>3 DEF IsClipTrack
    <3>5. b + (j - 1) = i - 1
      BY <1>1, <3>1
    <3>6. IsClip(t[k - 1]) /\ IsClip(t[k])
      BY <1>2, <3>3
    <3>7. PICK x \in Nat, y \in Nat, z \in Nat : x = t[k - 1].start /\ y = t[k - 1].duration /\ z = t[k].start
      BY <3>6 DEF IsClip
    <3>8. x + y <= z
      BY <3>4, <3>7 DEF EndOf
    <3>9. u[i - 1].start = x - s /\ u[i - 1].duration = y /\ u[i].start = z - s
      BY <3>1, <3>2, <3>3, <3>5, <3>7
    <3> QED
      BY <1>1, <3>8, <3>9 DEF EndOf
  <2> QED
    BY <1>1, <2>1, <2>2, <2>3
<1>7. IsClipTrack(u, m)
  <2>1. m = Len(u) /\ u \in Seq([start: Nat, duration: Nat \ {0}])
    BY DEF IsEdit, ClipSet
  <2> QED
    BY <1>1, <1>3, <1>6, <2>1 DEF IsClipTrack
<1> DEFINE f == LengthsOf(t, n)
           g == LengthsOf(u, m)
<1>8. IsValues(f, n) /\ IsValues(g, m)
  BY <1>7, TrackValues
<1>9. (\A i \in 1..n : f[i] = t[i].duration) /\ (\A i \in 1..m : g[i] = u[i].duration)
  BY DEF LengthsOf
<1> HIDE DEF f, g
<1>10. SumTo(g, m) + SumTo(f, a) = SumTo(f, n) + SumTo(g, b)
  <2>1. ASSUME NEW i \in 1..c PROVE g[b + i] = f[a + i]
    <3>1. a + i \in 1..n /\ b + i \in 1..m
      BY <1>1, <1>4
    <3> QED
      BY <1>5, <1>9, <3>1
  <2>2. a + c <= n /\ b + c <= m
    BY <1>1, <1>2, <1>4
  <2>3. Alike(f, a, g, b, c)
    BY <2>1 DEF Alike
  <2>4. SumTo(g, b + c) + SumTo(f, a) = SumTo(f, a + c) + SumTo(g, b)
    BY <1>1, <1>4, <1>8, <2>2, <2>3, SumsAlike
  <2> QED
    BY <1>4, <2>4
<1>11. SumTo(g, p) = SumTo(f, p)
  <2>1. ASSUME NEW i \in 1..p PROVE g[0 + i] = f[0 + i]
    <3>1. i \in 1..n /\ i \in 1..m /\ 0 + i = i
      BY <1>1, <1>2
    <3>2. u[i] = t[i]
      BY DEF IsEdit
    <3> QED
      BY <1>9, <3>1, <3>2
  <2>2. 0 + p <= n /\ 0 + p <= m /\ 0 + p = p
    BY <1>1, <1>2
  <2>3. Alike(f, 0, g, 0, p) /\ 0 \in Nat
    BY <2>1 DEF Alike
  <2>4. SumTo(g, 0 + p) + SumTo(f, 0) = SumTo(f, 0 + p) + SumTo(g, 0)
    BY <1>1, <1>8, <2>3, <2>2, SumsAlike
  <2>5. SumTo(f, 0) = 0 /\ SumTo(g, 0) = 0 /\ SumTo(f, p) \in Nat /\ SumTo(g, p) \in Nat
    <3>1. p \in 0..n /\ p \in 0..m
      BY <1>1, <1>2
    <3> QED
      BY <1>8, <3>1, SumToNext
  <2> QED
    BY <2>2, <2>4, <2>5
<1>12. n > a => TrackEnd(u, m) = TrackEnd(t, n) - s
  <2>1. SUFFICES ASSUME n > a PROVE TrackEnd(u, m) = TrackEnd(t, n) - s
    OBVIOUS
  <2>2. c \in 1..c /\ n # 0 /\ m # 0 /\ n \in 1..n
    BY <1>1, <1>2, <1>4, <2>1
  <2>3. u[m].duration = t[n].duration /\ u[m].start = t[n].start - s
    BY <1>4, <1>5, <2>2
  <2>4. IsClip(t[n])
    BY <1>2, <2>2
  <2>5. PICK x \in Nat, y \in Nat : x = t[n].start /\ y = t[n].duration
    BY <2>4 DEF IsClip
  <2> QED
    BY <1>1, <2>2, <2>3, <2>5 DEF TrackEnd, EndOf
<1> QED
  BY <1>7, <1>10, <1>11, <1>12 DEF f, g

GapSum(t) == SumTo(GapsOf(t, Len(t)), Len(t))
LengthSum(t) == SumTo(LengthsOf(t, Len(t)), Len(t))

ClipsInvariant ==
    /\ IsClipTrack(clips, Len(clips))
    /\ gap = GapSum(clips) /\ content = LengthSum(clips)

\* The time that an edit takes out of the gaps.
LEMMA GapsFollow ==
    ASSUME NEW t, IsClipTrack(t, Len(t)), NEW u, IsClipTrack(u, Len(u)), NEW x, x \in Int, NEW s, s \in Int,
           LengthSum(u) = LengthSum(t) + x, TrackEnd(u, Len(u)) = TrackEnd(t, Len(t)) - s
    PROVE  GapSum(u) = GapSum(t) - s - x
<1>1. /\ GapSum(t) \in Nat /\ LengthSum(t) \in Nat /\ GapSum(t) + LengthSum(t) = TrackEnd(t, Len(t))
      /\ GapSum(u) \in Nat /\ LengthSum(u) \in Nat /\ GapSum(u) + LengthSum(u) = TrackEnd(u, Len(u))
  BY GapsAndClips DEF GapSum, LengthSum
<1>2. PICK g \in Nat, l \in Nat, h \in Nat, k \in Nat :
        g = GapSum(t) /\ l = LengthSum(t) /\ h = GapSum(u) /\ k = LengthSum(u)
  BY <1>1
<1>3. h + k = (g + l) - s /\ k = l + x
  <2>1. k = l + x
    BY <1>2
  <2>2. PICK e \in Nat, d \in Nat : e = TrackEnd(t, Len(t)) /\ d = TrackEnd(u, Len(u))
    BY <1>1
  <2>3. e = g + l /\ d = h + k
    BY <1>1, <1>2, <2>2
  <2>4. d = e - s
    BY <2>2
  <2> QED
    BY <2>1, <2>3, <2>4
<1>4. h = g - s - x
  <2>1. \A i, j \in Nat, o, r \in Nat, e, d \in Int : i + j = (o + r) - e /\ j = r + d => i = o - e - d
    OBVIOUS
  <2> QED
    BY <1>3, <2>1
<1> QED
  BY <1>2, <1>4

\* What the caller puts where the clips from a to b were.
IsPut(u, t, n, a, b, new, l) ==
    /\ u \in Seq(ClipSet) /\ l \in Nat /\ Len(u) = (a - 1) + l + (n - b)
    /\ \A i \in 1..a - 1 : u[i] = t[i]
    /\ \A i \in 1..l : u[(a - 1) + i] = new[i]
    /\ \A i \in 1..n - b : u[(a - 1) + l + i] = t[b + i]

\* What Put() puts where: the clips before, the new ones, and those behind.
LEMMA PutIs ==
    ASSUME NEW n, IsClipTrack(clips, n), NEW a, a \in 1..n, NEW b, b \in a..n,
           NEW new, NEW l, new \in Seq(ClipSet), l = Len(new)
    PROVE  IsPut(Clips!Put(a, b, new), clips, n, a, b, new, l)
<1>1. n \in Nat /\ n = Len(clips) /\ clips \in Seq(ClipSet) /\ l \in Nat
  BY DEF IsClipTrack, ClipSet
<1>2. PICK h, e : h = SubSeq(clips, 1, a - 1) /\ e = SubSeq(clips, b + 1, n)
  OBVIOUS
<1>3. /\ h \in Seq(ClipSet) /\ Len(h) = a - 1 /\ \A i \in 1..a - 1 : h[i] = clips[i]
  <2>1. \A i \in 1..a - 1 : i \in 1..n
    BY <1>1
  <2>2. SubSeq(clips, 1, a - 1) \in Seq(ClipSet)
    BY <1>1, <2>1, SubSeqProperties
  <2>3. Len(SubSeq(clips, 1, a - 1)) = IF 1 <= a - 1 THEN (a - 1) - 1 + 1 ELSE 0
    BY <1>1, <2>1, SubSeqProperties
  <2>4. \A i \in 1..(a - 1) - 1 + 1 : SubSeq(clips, 1, a - 1)[i] = clips[1 + i - 1]
    BY <1>1, <2>1, SubSeqProperties
  <2>5. Len(h) = a - 1
    BY <1>1, <1>2, <2>3
  <2>6. ASSUME NEW i \in 1..a - 1 PROVE h[i] = clips[i]
    <3>1. i \in 1..(a - 1) - 1 + 1 /\ 1 + i - 1 = i
      BY <1>1
    <3> QED
      BY <1>2, <2>4, <3>1
  <2> QED
    BY <1>2, <2>2, <2>5, <2>6
<1>4. /\ e \in Seq(ClipSet) /\ Len(e) = n - b /\ \A i \in 1..n - b : e[i] = clips[b + i]
  <2>1. \A i \in b + 1..n : i \in 1..n
    BY <1>1
  <2>2. SubSeq(clips, b + 1, n) \in Seq(ClipSet)
    BY <1>1, <2>1, SubSeqProperties
  <2>3. Len(SubSeq(clips, b + 1, n)) = IF b + 1 <= n THEN n - (b + 1) + 1 ELSE 0
    BY <1>1, <2>1, SubSeqProperties
  <2>4. \A i \in 1..n - (b + 1) + 1 : SubSeq(clips, b + 1, n)[i] = clips[(b + 1) + i - 1]
    BY <1>1, <2>1, SubSeqProperties
  <2>5. Len(e) = n - b
    BY <1>1, <1>2, <2>3
  <2>6. ASSUME NEW i \in 1..n - b PROVE e[i] = clips[b + i]
    <3>1. i \in 1..n - (b + 1) + 1 /\ (b + 1) + i - 1 = b + i
      BY <1>1
    <3> QED
      BY <1>2, <2>4, <3>1
  <2> QED
    BY <1>2, <2>2, <2>5, <2>6
<1>5. Clips!Put(a, b, new) = h \o new \o e
  BY <1>1, <1>2 DEF Clips!Put
<1>6. PICK k : k = h \o new
  OBVIOUS
<1>7. /\ k \in Seq(ClipSet) /\ Len(k) = (a - 1) + l
      /\ \A i \in 1..a - 1 : k[i] = clips[i]
      /\ \A i \in 1..l : k[(a - 1) + i] = new[i]
  <2>1. k \in Seq(ClipSet) /\ Len(k) = Len(h) + Len(new)
    BY <1>3, <1>6, ConcatProperties
  <2>2. \A i \in 1..Len(h) + Len(new) : k[i] = IF i <= Len(h) THEN h[i] ELSE new[i - Len(h)]
    BY <1>3, <1>6, ConcatProperties
  <2>3. ASSUME NEW i \in 1..a - 1 PROVE k[i] = clips[i]
    <3>1. i \in 1..Len(h) + Len(new) /\ i <= Len(h)
      BY <1>1, <1>3
    <3> QED
      BY <1>3, <2>2, <3>1
  <2>4. ASSUME NEW i \in 1..l PROVE k[(a - 1) + i] = new[i]
    <3>1. /\ (a - 1) + i \in 1..Len(h) + Len(new) /\ ~((a - 1) + i <= Len(h))
          /\ (a - 1) + i - Len(h) = i
      BY <1>1, <1>3
    <3> QED
      BY <2>2, <3>1
  <2> QED
    BY <1>3, <2>1, <2>3, <2>4
<1>8. PICK q : q = k \o e
  OBVIOUS
<1>9. k \in Seq(ClipSet) /\ e \in Seq(ClipSet)
  BY <1>4, <1>7
<1>10. q \in Seq(ClipSet) /\ Len(q) = Len(k) + Len(e)
  BY <1>9, <1>8, ConcatProperties
<1>11. \A i \in 1..Len(k) + Len(e) : q[i] = IF i <= Len(k) THEN k[i] ELSE e[i - Len(k)]
  BY <1>9, <1>8, ConcatProperties
<1>12. Len(q) = (a - 1) + l + (n - b)
  BY <1>1, <1>4, <1>7, <1>10
<1>13. ASSUME NEW i \in 1..(a - 1) + l PROVE q[i] = k[i]
  <2>1. i \in 1..Len(k) + Len(e) /\ i <= Len(k)
    BY <1>1, <1>4, <1>7
  <2> QED
    BY <1>11, <2>1
<1>14. ASSUME NEW i \in 1..a - 1 PROVE q[i] = clips[i]
  <2>1. i \in 1..(a - 1) + l
    BY <1>1
  <2> QED
    BY <1>7, <1>13, <2>1
<1>15. ASSUME NEW i \in 1..l PROVE q[(a - 1) + i] = new[i]
  <2>1. (a - 1) + i \in 1..(a - 1) + l
    BY <1>1
  <2> QED
    BY <1>7, <1>13, <2>1
<1>16. ASSUME NEW i \in 1..n - b PROVE q[(a - 1) + l + i] = clips[b + i]
  <2>1. PICK w \in Nat, c \in Nat : w = (a - 1) + l /\ w = Len(k) /\ c = n - b /\ c = Len(e)
    BY <1>1, <1>4, <1>7
  <2>2. w + i \in 1..w + c /\ ~(w + i <= w) /\ (w + i) - w = i /\ i \in 1..c
    BY <2>1
  <2>3. q[w + i] = e[i]
    BY <1>11, <2>1, <2>2
  <2> QED
    BY <1>4, <2>1, <2>2, <2>3
<1>17. Clips!Put(a, b, new) = q
  BY <1>5, <1>6, <1>8
<1> QED
  BY <1>1, <1>10, <1>12, <1>14, <1>15, <1>16, <1>17 DEF IsPut

\* A step of the studio is one of the clips, or leaves them alone.
LEMMA ClipSteps ==
    /\ StudioInit => service # "clips" \/ Clips!Init
    /\ [StudioNext]_studioVars =>
         service' = service /\ (service = "clips" => [Clips!Next]_clipsVars)
BY DEF StudioInit, StudioNext, studioVars, clipsVars

\* A clip between two instants.
LEMMA ClipIs ==
    ASSUME NEW x, x \in Nat, NEW y, y \in Nat, x < y
    PROVE  /\ Clips!Clip(x, y) \in ClipSet /\ IsClip(Clips!Clip(x, y))
           /\ Clips!Clip(x, y).start = x /\ Clips!Clip(x, y).duration = y - x
           /\ EndOf(Clips!Clip(x, y)) = y
<1>1. y - x \in Nat \ {0} /\ x + (y - x) = y
  OBVIOUS
<1>2. Clips!Clip(x, y) \in ClipSet
  BY <1>1 DEF Clips!Clip, ClipSet
<1>3. Clips!Clip(x, y).start = x /\ Clips!Clip(x, y).duration = y - x
  BY DEF Clips!Clip
<1> QED
  BY <1>1, <1>2, <1>3 DEF IsClip, EndOf

\* The ends of a clip, and of two that follow one another.
LEMMA ClipEnds ==
    ASSUME NEW n, IsClipTrack(clips, n), NEW i \in 1..n
    PROVE  /\ clips[i].start \in Nat /\ clips[i].duration \in Nat \ {0}
           /\ Clips!End(clips[i]) = clips[i].start + clips[i].duration
           /\ Clips!End(clips[i]) = EndOf(clips[i])
           /\ i > 1 => /\ EndOf(clips[i - 1]) <= clips[i].start
                       /\ Clips!Free(i) = clips[i].start - EndOf(clips[i - 1])
           /\ i = 1 => Clips!Free(i) = clips[i].start
<1>1. IsClip(clips[i]) /\ n \in Nat
  BY DEF IsClipTrack
<1>2. ASSUME i > 1 PROVE EndOf(clips[i - 1]) <= clips[i].start
  <2>1. i \in 2..n
    BY <1>1, <1>2
  <2> QED
    BY <2>1 DEF IsClipTrack
<1> QED
  BY <1>1, <1>2 DEF IsClip, EndOf, Clips!End, Clips!Free, Clips!Before

\* The start, the length and the end of a clip, as numbers.
LEMMA ClipNumbers ==
    ASSUME NEW n, IsClipTrack(clips, n), NEW i \in 1..n
    PROVE  \E x \in Nat, d \in Nat \ {0} :
             /\ x = clips[i].start /\ d = clips[i].duration
             /\ Clips!End(clips[i]) = x + d /\ EndOf(clips[i]) = x + d
<1>1. /\ clips[i].start \in Nat /\ clips[i].duration \in Nat \ {0}
      /\ Clips!End(clips[i]) = clips[i].start + clips[i].duration
      /\ Clips!End(clips[i]) = EndOf(clips[i])
  BY ClipEnds
<1> QED
  BY <1>1

\* What an edit makes of the sums.
Edited(u, x) ==
    /\ IsClipTrack(u, Len(u)) /\ LengthSum(u) = LengthSum(clips) + x
    /\ TrackEnd(u, Len(u)) = TrackEnd(clips, Len(clips))

\* An edit with these sums keeps the invariant.
LEMMA EditedFollows ==
    ASSUME ClipsInvariant, NEW u, NEW x, x \in Int, Edited(u, x), clips' = u,
           gap' = gap - x, content' = content + x
    PROVE  ClipsInvariant'
<1>1. IsClipTrack(clips, Len(clips)) /\ gap = GapSum(clips) /\ content = LengthSum(clips)
  BY DEF ClipsInvariant
<1>2. /\ GapSum(clips) \in Nat /\ LengthSum(clips) \in Nat
      /\ GapSum(clips) + LengthSum(clips) = TrackEnd(clips, Len(clips))
  BY <1>1, GapsAndClips DEF GapSum, LengthSum
<1>3. TrackEnd(u, Len(u)) = TrackEnd(clips, Len(clips)) - 0
  BY <1>2 DEF Edited
<1>4. GapSum(u) = GapSum(clips) - 0 - x
  <2>1. 0 \in Int
    OBVIOUS
  <2> QED
    BY <1>1, <1>3, <2>1, GapsFollow DEF Edited
<1>5. GapSum(u) = gap - x /\ LengthSum(u) = content + x
  BY <1>1, <1>2, <1>4 DEF Edited
<1>6. IsClipTrack(u, Len(u))
  BY DEF Edited
<1>7. IsClipTrack(clips', Len(clips')) /\ gap' = GapSum(clips') /\ content' = LengthSum(clips')
  BY <1>5, <1>6
<1> QED
  BY <1>7 DEF ClipsInvariant, GapSum, LengthSum

\* The lengths of the first clips of a track.
LEMMA LengthsAdd ==
    ASSUME NEW t, NEW n, IsClipTrack(t, n)
    PROVE  /\ \A k \in 0..n : SumTo(LengthsOf(t, n), k) \in Nat
           /\ \A k \in 0..n - 1 :
                SumTo(LengthsOf(t, n), k + 1) = SumTo(LengthsOf(t, n), k) + t[k + 1].duration
<1>1. IsValues(LengthsOf(t, n), n) /\ n \in Nat
  BY TrackValues DEF IsClipTrack
<1> DEFINE f == LengthsOf(t, n)
<1>2. \A k \in 1..n : f[k] = t[k].duration
  BY DEF LengthsOf
<1> HIDE DEF f
<1>3. \A k \in 0..n - 1 : SumTo(f, k + 1) = SumTo(f, k) + f[k + 1]
  BY <1>1, SumToNext DEF f
<1>4. \A k \in 0..n : SumTo(f, k) \in Nat
  BY <1>1, SumToNext DEF f
<1>5. ASSUME NEW k \in 0..n - 1 PROVE SumTo(f, k + 1) = SumTo(f, k) + t[k + 1].duration
  <2>1. k + 1 \in 1..n
    BY <1>1
  <2> QED
    BY <1>2, <1>3, <2>1
<1>6. (\A k \in 0..n : SumTo(f, k) \in Nat)
      /\ \A k \in 0..n - 1 : SumTo(f, k + 1) = SumTo(f, k) + t[k + 1].duration
  BY <1>4, <1>5
<1> QED
  BY <1>6 DEF f

\* The two parts of a clip are as long as the clip.
LEMMA SplitEdits ==
    ASSUME IsClipTrack(clips, Len(clips)), NEW n \in 1..Len(clips), NEW at \in Nat,
           clips[n].start < at, at < Clips!End(clips[n])
    PROVE  Edited(Clips!Put(n, n, <<Clips!Clip(clips[n].start, at),
                                    Clips!Clip(at, Clips!End(clips[n]))>>), 0)
<1>1. PICK l \in Nat : l = Len(clips) /\ n \in 1..l /\ IsClipTrack(clips, l)
  BY DEF IsClipTrack
<1>2. PICK x \in Nat, d \in Nat \ {0}, y \in Nat :
        x = clips[n].start /\ d = clips[n].duration /\ y = Clips!End(clips[n]) /\ y = x + d
        /\ y = EndOf(clips[n])
  BY <1>1, ClipEnds
<1>3. PICK A, B : A = Clips!Clip(x, at) /\ B = Clips!Clip(at, y)
  OBVIOUS
<1>4. x < at /\ at < y
  BY <1>2
<1>5. /\ A \in ClipSet /\ A.start = x /\ A.duration = at - x /\ EndOf(A) = at
      /\ B \in ClipSet /\ B.start = at /\ B.duration = y - at /\ EndOf(B) = y
  BY <1>2, <1>3, <1>4, ClipIs
<1>6. PICK new : new = <<A, B>>
  OBVIOUS
<1>7. new \in Seq(ClipSet) /\ Len(new) = 2 /\ new[1] = A /\ new[2] = B
  BY <1>5, <1>6
<1>8. PICK u : u = Clips!Put(n, n, new)
  OBVIOUS
<1>9. /\ u \in Seq(ClipSet)
      /\ Len(u) = (n - 1) + 2 + (l - n)
      /\ \A i \in 1..n - 1 : u[i] = clips[i]
      /\ \A i \in 1..2 : u[(n - 1) + i] = new[i]
      /\ \A i \in 1..l - n : u[(n - 1) + 2 + i] = clips[n + i]
  <2>1. n \in n..l /\ 2 = Len(new)
    BY <1>1, <1>7
  <2>2. IsPut(u, clips, l, n, n, new, 2)
    BY <1>1, <1>7, <1>8, <2>1, PutIs
  <2> QED
    BY <2>2 DEF IsPut
<1>10. PICK p \in Nat : n = p + 1 /\ p = n - 1
  BY <1>1
<1>11. PICK m \in Nat : n = p + 1 /\ p = n - 1 /\ m = l + 1 /\ m = Len(u)
  BY <1>1, <1>9, <1>10
<1>12. u[n] = A /\ u[n + 1] = B
  <2>1. 1 \in 1..2 /\ 2 \in 1..2 /\ (n - 1) + 1 = n /\ (n - 1) + 2 = n + 1
    BY <1>1
  <2> QED
    BY <1>7, <1>9, <2>1
<1>13. \A i \in 1..l - n : u[(n + 1) + i] = clips[n + i]
  <2>1. (n - 1) + 2 = n + 1
    BY <1>1
  <2> QED
    BY <1>9, <2>1
<1>14. IsEdit(clips, l, u, m, p, n, n + 1, 0)
  <2>1. ASSUME NEW i \in 2..m, i > p, i <= (n + 1) + 1 PROVE EndOf(u[i - 1]) <= u[i].start
    <3>1. CASE i = n
      <4>1. i - 1 \in 1..n - 1 /\ i > 1
        BY <1>11, <3>1
      <4>2. u[i - 1] = clips[i - 1]
        BY <1>9, <4>1
      <4>3. EndOf(clips[n - 1]) <= clips[n].start
        BY <1>1, <3>1, <4>1, ClipEnds
      <4> QED
        BY <1>2, <1>5, <1>12, <3>1, <4>2, <4>3
    <3>2. CASE i = n + 1
      <4>1. i - 1 = n
        BY <3>2
      <4> QED
        BY <1>5, <1>12, <3>2, <4>1
    <3>3. CASE i = n + 2
      <4>1. i - 1 = n + 1 /\ 1 \in 1..l - n /\ i = (n + 1) + 1 /\ n + 1 \in 1..l /\ n + 1 > 1 /\ n + 1 - 1 = n
        BY <1>1, <1>11, <3>3
      <4>2. u[i] = clips[n + 1]
        BY <1>13, <4>1
      <4>3. EndOf(clips[n]) <= clips[n + 1].start
        BY <1>1, <4>1, ClipEnds
      <4> QED
        BY <1>2, <1>5, <1>12, <4>1, <4>2, <4>3
    <3>4. i = n \/ i = n + 1 \/ i = n + 2
      <4>1. p \in Nat /\ n = p + 1 /\ i \in Nat
        BY <1>11
      <4> QED
        BY <2>1, <4>1
    <3> QED
      BY <3>1, <3>2, <3>3, <3>4
  <2>2. ASSUME NEW i \in 1..l - n
        PROVE  u[(n + 1) + i].duration = clips[n + i].duration /\ u[(n + 1) + i].start = clips[n + i].start - 0
    <3>1. n + i \in 1..l
      BY <1>1
    <3>2. clips[n + i].start \in Nat
      BY <1>1, <3>1, ClipEnds
    <3>3. u[(n + 1) + i] = clips[n + i]
      BY <1>13
    <3>4. clips[n + i].start = clips[n + i].start - 0
      BY <3>2, LessNothing
    <3> QED
      BY <3>3, <3>4
  <2>3. \A i \in 1..p : u[i] = clips[i]
    BY <1>9, <1>11
  <2>4. /\ n \in Nat /\ n + 1 \in Nat /\ p <= n /\ p <= n + 1 /\ n <= l /\ n + 1 <= m
        /\ l - n = m - (n + 1)
    BY <1>1, <1>11
  <2> QED
    BY <1>9, <1>11, <2>1, <2>2, <2>3, <2>4 DEF IsEdit
<1> DEFINE f == LengthsOf(clips, l)
           g == LengthsOf(u, m)
<1>15. /\ IsClipTrack(u, m) /\ SumTo(g, p) = SumTo(f, p)
       /\ SumTo(g, m) + SumTo(f, n) = SumTo(f, l) + SumTo(g, n + 1)
       /\ l > n => TrackEnd(u, m) = TrackEnd(clips, l) - 0
  BY <1>1, <1>14, EditKeeps
<1>16. /\ \A k \in 0..l : SumTo(f, k) \in Nat
       /\ \A k \in 0..l - 1 : SumTo(f, k + 1) = SumTo(f, k) + clips[k + 1].duration
       /\ \A k \in 0..m : SumTo(g, k) \in Nat
       /\ \A k \in 0..m - 1 : SumTo(g, k + 1) = SumTo(g, k) + u[k + 1].duration
  BY <1>1, <1>15, LengthsAdd
<1> HIDE DEF f, g
<1>17. SumTo(g, n + 1) = SumTo(f, n)
  <2>1. p \in 0..l /\ p \in 0..l - 1 /\ p \in 0..m - 1 /\ n \in 0..m - 1 /\ n \in 0..m
    BY <1>1, <1>11
  <2>2. /\ SumTo(f, n) = SumTo(f, p) + clips[n].duration /\ SumTo(g, n) = SumTo(g, p) + u[n].duration
        /\ SumTo(g, n + 1) = SumTo(g, n) + u[n + 1].duration
    BY <1>11, <1>16, <2>1
  <2>3. PICK s \in Nat : s = SumTo(f, p)
    BY <1>16, <2>1
  <2>4. SumTo(f, n) = s + d /\ SumTo(g, n + 1) = s + (at - x) + (y - at)
    BY <1>2, <1>5, <1>12, <1>15, <2>2, <2>3
  <2>5. s + (at - x) + (y - at) = s + d
    BY <1>2
  <2> QED
    BY <2>4, <2>5
<1>18. SumTo(g, m) = SumTo(f, l)
  <2>1. n \in 0..l /\ l \in 0..l /\ m \in 0..m
    BY <1>1, <1>11
  <2>2. SumTo(f, n) \in Nat /\ SumTo(f, l) \in Nat /\ SumTo(g, m) \in Nat
    BY <1>16, <2>1
  <2> QED
    BY <1>15, <1>17, <2>2
<1>19. TrackEnd(u, m) = TrackEnd(clips, l)
  <2>1. CASE l > n
    <3>1. TrackEnd(clips, l) \in Nat
      BY <1>1, GapsAndClips
    <3> QED
      BY <1>15, <2>1, <3>1
  <2>2. CASE l = n
    BY <1>1, <1>2, <1>5, <1>11, <1>12, <2>2 DEF TrackEnd
  <2> QED
    BY <1>1, <2>1, <2>2
<1>20. LengthSum(u) = LengthSum(clips) + 0
  <2>1. LengthSum(u) = SumTo(g, m) /\ LengthSum(clips) = SumTo(f, l) /\ SumTo(f, l) \in Nat
    BY <1>1, <1>11, <1>16 DEF LengthSum, f, g
  <2> QED
    BY <1>18, <2>1
<1>21. Edited(u, 0)
  BY <1>1, <1>11, <1>15, <1>19, <1>20 DEF Edited
<1> QED
  BY <1>2, <1>3, <1>6, <1>8, <1>21

\* A roll gives what was free between two clips to them.
LEMMA RollEdits ==
    ASSUME IsClipTrack(clips, Len(clips)), NEW n \in 1..Len(clips) - 1, NEW at \in Nat,
           Clips!Rollable(clips[n], clips[n + 1], at)
    PROVE  /\ Clips!Free(n + 1) \in Nat
           /\ Edited(Clips!Put(n, n + 1, <<Clips!Clip(clips[n].start, at),
                                           Clips!Clip(at, Clips!End(clips[n + 1]))>>), Clips!Free(n + 1))
<1>1. PICK l \in Nat : l = Len(clips) /\ n \in 1..l - 1 /\ IsClipTrack(clips, l)
  BY DEF IsClipTrack
<1>2. PICK p \in Nat, q \in Nat : n = p + 1 /\ p = n - 1 /\ q = n + 1 /\ n \in 1..l /\ q \in 1..l /\ q - 1 = n /\ q > 1
  BY <1>1
<1>3. PICK x \in Nat, d \in Nat \ {0} : x = clips[n].start /\ d = clips[n].duration /\ EndOf(clips[n]) = x + d
  BY <1>1, <1>2, ClipEnds
<1>4. PICK z \in Nat, e \in Nat \ {0} : /\ z = clips[q].start /\ e = clips[q].duration
                                     /\ Clips!End(clips[q]) = z + e /\ EndOf(clips[q]) = z + e
  BY <1>1, <1>2, ClipNumbers
<1>5. PICK y \in Nat : y = z + e /\ y = Clips!End(clips[q]) /\ y = EndOf(clips[q])
  BY <1>4
<1>6. x + d <= z /\ Clips!Free(q) = z - (x + d)
  BY <1>1, <1>3, <1>2, <1>4, ClipEnds
<1>7. x \in Nat /\ d \in Nat /\ z \in Nat /\ e \in Nat /\ y \in Nat /\ y = z + e /\ x + d <= z
  BY <1>3, <1>5, <1>4, <1>6
<1>8. PICK h \in Nat : h = z - (x + d) /\ Clips!Free(n + 1) = h
  <2>1. z - (x + d) \in Nat
    BY <1>7
  <2> QED
    BY <1>2, <1>6, <2>1
<1>9. PICK A, B : A = Clips!Clip(x, at) /\ B = Clips!Clip(at, y)
  OBVIOUS
<1>10. x < at /\ at < y
  BY <1>3, <1>2, <1>5, <1>4, <1>6 DEF Clips!Rollable
<1>11. /\ A \in ClipSet /\ A.start = x /\ A.duration = at - x /\ EndOf(A) = at
       /\ B \in ClipSet /\ B.start = at /\ B.duration = y - at /\ EndOf(B) = y
  <2>1. x \in Nat /\ y \in Nat
    BY <1>7
  <2>2. A \in ClipSet /\ A.start = x /\ A.duration = at - x /\ EndOf(A) = at
    BY <1>9, <1>10, <2>1, ClipIs
  <2>3. B \in ClipSet /\ B.start = at /\ B.duration = y - at /\ EndOf(B) = y
    BY <1>9, <1>10, <2>1, ClipIs
  <2> QED
    BY <2>2, <2>3
<1>12. PICK new : new = <<A, B>>
  OBVIOUS
<1>13. new \in Seq(ClipSet) /\ Len(new) = 2 /\ new[1] = A /\ new[2] = B
  BY <1>11, <1>12
<1>14. PICK u : u = Clips!Put(n, q, new)
  OBVIOUS
<1>15. /\ u \in Seq(ClipSet)
       /\ Len(u) = (n - 1) + 2 + (l - q)
       /\ \A i \in 1..n - 1 : u[i] = clips[i]
       /\ \A i \in 1..2 : u[(n - 1) + i] = new[i]
       /\ \A i \in 1..l - q : u[(n - 1) + 2 + i] = clips[q + i]
  <2>1. q \in n..l /\ 2 = Len(new) /\ n \in 1..l
    BY <1>1, <1>13, <1>2
  <2>2. IsPut(u, clips, l, n, q, new, 2)
    BY <1>1, <1>13, <1>14, <2>1, PutIs
  <2> QED
    BY <2>2 DEF IsPut
<1>16. l = Len(u)
  BY <1>1, <1>15, <1>2
<1>17. u[n] = A /\ u[q] = B
  <2>1. 1 \in 1..2 /\ 2 \in 1..2 /\ (n - 1) + 1 = n /\ (n - 1) + 2 = q
    BY <1>1, <1>2
  <2> QED
    BY <1>13, <1>15, <2>1
<1>18. \A i \in 1..l - q : u[q + i] = clips[q + i]
  <2>1. (n - 1) + 2 = q
    BY <1>1, <1>2
  <2> QED
    BY <1>15, <2>1
<1>19. IsEdit(clips, l, u, l, p, q, q, 0)
  <2>1. ASSUME NEW i \in 2..l, i > p, i <= q + 1 PROVE EndOf(u[i - 1]) <= u[i].start
    <3>1. CASE i = n
      <4>1. i - 1 \in 1..n - 1 /\ i > 1
        BY <1>2, <3>1
      <4>2. u[i - 1] = clips[i - 1]
        BY <1>15, <4>1
      <4>3. EndOf(clips[n - 1]) <= clips[n].start
        BY <1>1, <1>2, <3>1, <4>1, ClipEnds
      <4> QED
        BY <1>3, <1>11, <1>17, <3>1, <4>2, <4>3
    <3>2. CASE i = q
      <4>1. i - 1 = n
        BY <1>2, <3>2
      <4> QED
        BY <1>11, <1>17, <3>2, <4>1
    <3>3. CASE i = q + 1
      <4>1. q \in Nat /\ l \in Nat /\ i \in 2..l /\ i = q + 1 /\ q > 1
        BY <1>1, <1>2, <3>3
      <4>2. i - 1 = q /\ 1 \in 1..l - q /\ q + 1 \in 1..l /\ q + 1 > 1 /\ q + 1 - 1 = q
        BY <4>1, Behind
      <4>3. u[i] = clips[q + 1]
        BY <1>18, <3>3, <4>2
      <4>4. EndOf(clips[q]) <= clips[q + 1].start
        <5>1. PICK k \in 1..l : k = q + 1 /\ k > 1 /\ k - 1 = q
          BY <4>2
        <5>2. EndOf(clips[k - 1]) <= clips[k].start
          BY <1>1, <5>1, ClipEnds
        <5> QED
          BY <5>1, <5>2
      <4> QED
        BY <1>5, <1>4, <1>6, <1>11, <1>17, <4>2, <4>3, <4>4
    <3> QED
      BY <1>2, <2>1, <3>1, <3>2, <3>3
  <2>2. ASSUME NEW i \in 1..l - q
        PROVE  u[q + i].duration = clips[q + i].duration /\ u[q + i].start = clips[q + i].start - 0
    <3>1. q + i \in 1..l
      BY <1>1, <1>2
    <3>2. clips[q + i].start \in Nat
      BY <1>1, <3>1, ClipEnds
    <3>3. u[q + i] = clips[q + i]
      BY <1>18
    <3>4. clips[q + i].start = clips[q + i].start - 0
      BY <3>2, LessNothing
    <3> QED
      BY <3>3, <3>4
  <2>3. \A i \in 1..p : u[i] = clips[i]
    BY <1>15, <1>2
  <2>4. p <= q /\ q <= l /\ l - q = l - q
    BY <1>1, <1>2
  <2> QED
    BY <1>15, <1>16, <1>2, <2>1, <2>2, <2>3, <2>4 DEF IsEdit
<1> DEFINE f == LengthsOf(clips, l)
           g == LengthsOf(u, l)
<1>20. /\ IsClipTrack(u, l) /\ SumTo(g, p) = SumTo(f, p)
       /\ SumTo(g, l) + SumTo(f, q) = SumTo(f, l) + SumTo(g, q)
       /\ l > q => TrackEnd(u, l) = TrackEnd(clips, l) - 0
  BY <1>1, <1>19, EditKeeps
<1>21. /\ \A k \in 0..l : SumTo(f, k) \in Nat
       /\ \A k \in 0..l - 1 : SumTo(f, k + 1) = SumTo(f, k) + clips[k + 1].duration
       /\ \A k \in 0..l : SumTo(g, k) \in Nat
       /\ \A k \in 0..l - 1 : SumTo(g, k + 1) = SumTo(g, k) + u[k + 1].duration
  BY <1>1, <1>20, LengthsAdd
<1> HIDE DEF f, g
<1>22. SumTo(g, q) = SumTo(f, q) + h
  <2>1. p \in 0..l /\ p \in 0..l - 1 /\ n \in 0..l - 1 /\ p + 1 = n /\ n + 1 = q
    BY <1>1, <1>2
  <2>2. /\ SumTo(f, n) = SumTo(f, p) + clips[n].duration /\ SumTo(g, n) = SumTo(g, p) + u[n].duration
        /\ SumTo(f, q) = SumTo(f, n) + clips[q].duration /\ SumTo(g, q) = SumTo(g, n) + u[q].duration
    BY <1>21, <2>1
  <2>3. PICK s \in Nat : s = SumTo(f, p)
    BY <1>21, <2>1
  <2>4. SumTo(f, q) = s + d + e /\ SumTo(g, q) = s + (at - x) + (y - at)
    BY <1>3, <1>5, <1>4, <1>6, <1>11, <1>17, <1>20, <2>2, <2>3
  <2>5. s + (at - x) + (y - at) = s + d + e + h
    <3>1. h = z - (x + d) /\ s \in Nat
      BY <1>8, <2>3
    <3> QED
      BY <1>7, <3>1
  <2> QED
    BY <2>4, <2>5
<1>23. SumTo(g, l) = SumTo(f, l) + h
  <2>1. q \in 0..l /\ l \in 0..l
    BY <1>1, <1>2
  <2>2. SumTo(f, q) \in Nat /\ SumTo(f, l) \in Nat /\ SumTo(g, l) \in Nat
    BY <1>21, <2>1
  <2>3. SumTo(g, l) + SumTo(f, q) = SumTo(f, l) + (SumTo(f, q) + h)
    BY <1>20, <1>22
  <2>4. PICK a \in Nat, b \in Nat, c \in Nat : a = SumTo(f, q) /\ b = SumTo(f, l) /\ c = SumTo(g, l)
    BY <2>2
  <2>5. c + a = b + (a + h)
    BY <2>3, <2>4
  <2>6. c = b + h
    <3>1. a \in Nat /\ b \in Nat /\ c \in Nat /\ h \in Nat
      BY <1>8, <2>4
    <3> QED
      BY <2>5, <3>1
  <2> QED
    BY <2>4, <2>6
<1>24. TrackEnd(u, l) = TrackEnd(clips, l)
  <2>1. CASE l > q
    <3>1. TrackEnd(clips, l) \in Nat
      BY <1>1, GapsAndClips
    <3> QED
      BY <1>20, <2>1, <3>1
  <2>2. CASE l = q
    BY <1>2, <1>5, <1>4, <1>6, <1>11, <1>17, <2>2 DEF TrackEnd
  <2>3. q \in Nat /\ l \in Nat /\ q <= l
    BY <1>1, <1>2
  <2>4. l > q \/ l = q
    BY <2>3
  <2> QED
    BY <2>1, <2>2, <2>4
<1>25. LengthSum(u) = LengthSum(clips) + h
  <2>1. LengthSum(u) = SumTo(g, l) /\ LengthSum(clips) = SumTo(f, l)
    BY <1>1, <1>16 DEF LengthSum, f, g
  <2> QED
    BY <1>23, <2>1
<1>26. Edited(u, h)
  BY <1>1, <1>16, <1>20, <1>24, <1>25 DEF Edited
<1>27. u = Clips!Put(n, n + 1, <<Clips!Clip(clips[n].start, at), Clips!Clip(at, Clips!End(clips[n + 1]))>>)
  BY <1>3, <1>9, <1>12, <1>14, <1>2, <1>5, <1>4, <1>6
<1> QED
  BY <1>26, <1>8, <1>27

\* A slide gives what was free before and after a clip to its neighbours.
LEMMA SlideEdits ==
    ASSUME IsClipTrack(clips, Len(clips)), NEW n \in 2..Len(clips) - 1, NEW at \in Int, NEW to \in Int,
           to = at + clips[n].duration, clips[n - 1].start < at, to < Clips!End(clips[n + 1])
    PROVE  /\ Clips!Free(n) \in Nat /\ Clips!Free(n + 1) \in Nat
           /\ Edited(Clips!Put(n - 1, n + 1,
                               <<Clips!Clip(clips[n - 1].start, at), Clips!Clip(at, to),
                                 Clips!Clip(to, Clips!End(clips[n + 1]))>>),
                     Clips!Free(n) + Clips!Free(n + 1))
<1>1. PICK l \in Nat : l = Len(clips) /\ n \in 2..l - 1 /\ IsClipTrack(clips, l)
  BY DEF IsClipTrack
<1>2. PICK p \in Nat, o \in Nat, q \in Nat :
        /\ o = p + 1 /\ o = n - 1 /\ p = o - 1 /\ n = o + 1 /\ q = n + 1 /\ q - 1 = n /\ q > 1 /\ n > 1
        /\ o \in 1..l /\ n \in 1..l /\ q \in 1..l
  <2>1. n - 2 \in Nat /\ n - 1 \in Nat /\ n + 1 \in Nat
    BY <1>1
  <2>2. n - 1 = (n - 2) + 1 /\ n - 2 = (n - 1) - 1
    BY <1>1
  <2> QED
    BY <1>1, <2>1, <2>2
<1>3. PICK x \in Nat, d \in Nat \ {0} : /\ x = clips[o].start /\ d = clips[o].duration
                                     /\ Clips!End(clips[o]) = x + d /\ EndOf(clips[o]) = x + d
  BY <1>1, <1>2, ClipNumbers
<1>4. PICK v \in Nat, c \in Nat \ {0} : /\ v = clips[n].start /\ c = clips[n].duration
                                     /\ Clips!End(clips[n]) = v + c /\ EndOf(clips[n]) = v + c
  BY <1>1, <1>2, ClipNumbers
<1>5. PICK z \in Nat, e \in Nat \ {0} : /\ z = clips[q].start /\ e = clips[q].duration
                                     /\ Clips!End(clips[q]) = z + e /\ EndOf(clips[q]) = z + e
  BY <1>1, <1>2, ClipNumbers
<1>6. PICK y \in Nat : y = z + e /\ y = Clips!End(clips[q]) /\ y = EndOf(clips[q])
  BY <1>5
<1>7. x + d <= v /\ Clips!Free(n) = v - (x + d)
  BY <1>1, <1>3, <1>2, <1>4, ClipEnds
<1>8. v + c <= z /\ Clips!Free(q) = z - (v + c)
  BY <1>1, <1>2, <1>4, <1>5, ClipEnds
<1>9. /\ x \in Nat /\ d \in Nat /\ v \in Nat /\ c \in Nat \ {0} /\ z \in Nat /\ e \in Nat /\ y \in Nat
      /\ y = z + e /\ x + d <= v /\ v + c <= z
  BY <1>3, <1>6, <1>4, <1>5, <1>8, <1>7
<1>10. PICK h \in Nat, j \in Nat : h = v - (x + d) /\ Clips!Free(n) = h /\ j = z - (v + c) /\ Clips!Free(n + 1) = j
  <2>1. v - (x + d) \in Nat /\ z - (v + c) \in Nat
    BY <1>9
  <2> QED
    BY <1>2, <1>8, <1>7, <2>1
<1>11. at \in Nat /\ to \in Nat /\ to = at + c /\ x < at /\ at < to /\ to < y
  <2>1. x < at /\ to = at + c /\ to < y
    BY <1>3, <1>2, <1>6, <1>4
  <2> QED
    BY <1>9, <2>1
<1>12. PICK A, B, C : A = Clips!Clip(x, at) /\ B = Clips!Clip(at, to) /\ C = Clips!Clip(to, y)
  OBVIOUS
<1>13. /\ A \in ClipSet /\ A.start = x /\ A.duration = at - x /\ EndOf(A) = at
       /\ B \in ClipSet /\ B.start = at /\ B.duration = to - at /\ EndOf(B) = to
       /\ C \in ClipSet /\ C.start = to /\ C.duration = y - to /\ EndOf(C) = y
  <2>1. x \in Nat /\ y \in Nat /\ at \in Nat /\ to \in Nat /\ x < at /\ at < to /\ to < y
    BY <1>11, <1>9
  <2>2. A \in ClipSet /\ A.start = x /\ A.duration = at - x /\ EndOf(A) = at
    BY <1>12, <2>1, ClipIs
  <2>3. B \in ClipSet /\ B.start = at /\ B.duration = to - at /\ EndOf(B) = to
    BY <1>12, <2>1, ClipIs
  <2>4. C \in ClipSet /\ C.start = to /\ C.duration = y - to /\ EndOf(C) = y
    BY <1>12, <2>1, ClipIs
  <2> QED
    BY <2>2, <2>3, <2>4
<1>14. PICK new : new = <<A, B, C>>
  OBVIOUS
<1>15. new \in Seq(ClipSet) /\ Len(new) = 3 /\ new[1] = A /\ new[2] = B /\ new[3] = C
  BY <1>13, <1>14
<1>16. PICK u : u = Clips!Put(o, q, new)
  OBVIOUS
<1>17. /\ u \in Seq(ClipSet)
       /\ Len(u) = (o - 1) + 3 + (l - q)
       /\ \A i \in 1..o - 1 : u[i] = clips[i]
       /\ \A i \in 1..3 : u[(o - 1) + i] = new[i]
       /\ \A i \in 1..l - q : u[(o - 1) + 3 + i] = clips[q + i]
  <2>1. q \in o..l /\ 3 = Len(new) /\ o \in 1..l
    BY <1>1, <1>15, <1>2
  <2>2. IsPut(u, clips, l, o, q, new, 3)
    BY <1>1, <1>15, <1>16, <2>1, PutIs
  <2> QED
    BY <2>2 DEF IsPut
<1>18. l = Len(u)
  BY <1>1, <1>17, <1>2
<1>19. u[o] = A /\ u[n] = B /\ u[q] = C
  <2>1. 1 \in 1..3 /\ 2 \in 1..3 /\ 3 \in 1..3
    OBVIOUS
  <2>2. o \in Nat /\ n = o + 1 /\ q = n + 1
    BY <1>2
  <2>3. 1 \in 1..3 /\ 2 \in 1..3 /\ 3 \in 1..3 /\ (o - 1) + 1 = o /\ (o - 1) + 2 = n /\ (o - 1) + 3 = q
    BY <2>1, <2>2
  <2> QED
    BY <1>15, <1>17, <2>3
<1>20. \A i \in 1..l - q : u[q + i] = clips[q + i]
  <2>1. (o - 1) + 3 = q
    BY <1>1, <1>2
  <2> QED
    BY <1>17, <2>1
<1>21. IsEdit(clips, l, u, l, p, q, q, 0)
  <2>1. ASSUME NEW i \in 2..l, i > p, i <= q + 1 PROVE EndOf(u[i - 1]) <= u[i].start
    <3>1. CASE i = o
      <4>1. i - 1 \in 1..o - 1 /\ i > 1
        BY <1>2, <3>1
      <4>2. u[i - 1] = clips[i - 1]
        BY <1>17, <4>1
      <4>3. EndOf(clips[o - 1]) <= clips[o].start
        BY <1>1, <1>2, <3>1, <4>1, ClipEnds
      <4> QED
        BY <1>3, <1>13, <1>19, <3>1, <4>2, <4>3
    <3>2. CASE i = n
      <4>1. i - 1 = o
        BY <1>2, <3>2
      <4> QED
        BY <1>13, <1>19, <1>11, <3>2, <4>1
    <3>3. CASE i = q
      <4>1. i - 1 = n
        BY <1>2, <3>3
      <4> QED
        BY <1>13, <1>19, <1>11, <3>3, <4>1
    <3>4. CASE i = q + 1
      <4>1. q \in Nat /\ l \in Nat /\ i \in 2..l /\ i = q + 1 /\ q > 1
        BY <1>1, <1>2, <3>4
      <4>2. i - 1 = q /\ 1 \in 1..l - q /\ q + 1 \in 1..l /\ q + 1 > 1 /\ q + 1 - 1 = q
        BY <4>1, Behind
      <4>3. u[i] = clips[q + 1]
        BY <1>20, <3>4, <4>2
      <4>4. EndOf(clips[q]) <= clips[q + 1].start
        <5>1. PICK k \in 1..l : k = q + 1 /\ k > 1 /\ k - 1 = q
          BY <4>2
        <5>2. EndOf(clips[k - 1]) <= clips[k].start
          BY <1>1, <5>1, ClipEnds
        <5> QED
          BY <5>1, <5>2
      <4> QED
        BY <1>6, <1>5, <1>8, <1>13, <1>19, <4>2, <4>3, <4>4
    <3>5. i = o \/ i = n \/ i = q \/ i = q + 1
      <4>1. p \in Nat /\ o = p + 1 /\ n = o + 1 /\ q = n + 1 /\ i \in Nat
        BY <1>1, <1>2
      <4> QED
        BY <2>1, <4>1
    <3> QED
      BY <3>1, <3>2, <3>4, <3>3, <3>5
  <2>2. ASSUME NEW i \in 1..l - q
        PROVE  u[q + i].duration = clips[q + i].duration /\ u[q + i].start = clips[q + i].start - 0
    <3>1. q + i \in 1..l
      BY <1>1, <1>2
    <3>2. clips[q + i].start \in Nat
      BY <1>1, <3>1, ClipEnds
    <3>3. u[q + i] = clips[q + i]
      BY <1>20
    <3>4. \A k \in Nat : k = k - 0
      OBVIOUS
    <3>5. clips[q + i].start = clips[q + i].start - 0
      BY <3>2, <3>4
    <3> QED
      BY <3>3, <3>5
  <2>3. \A i \in 1..p : u[i] = clips[i]
    BY <1>17, <1>2
  <2>4. p <= q /\ q <= l /\ l - q = l - q
    BY <1>1, <1>2
  <2> QED
    BY <1>17, <1>18, <1>2, <2>1, <2>2, <2>3, <2>4 DEF IsEdit
<1> DEFINE f == LengthsOf(clips, l)
           g == LengthsOf(u, l)
<1>22. /\ IsClipTrack(u, l) /\ SumTo(g, p) = SumTo(f, p)
       /\ SumTo(g, l) + SumTo(f, q) = SumTo(f, l) + SumTo(g, q)
       /\ l > q => TrackEnd(u, l) = TrackEnd(clips, l) - 0
  BY <1>1, <1>21, EditKeeps
<1>23. /\ \A k \in 0..l : SumTo(f, k) \in Nat
       /\ \A k \in 0..l - 1 : SumTo(f, k + 1) = SumTo(f, k) + clips[k + 1].duration
       /\ \A k \in 0..l : SumTo(g, k) \in Nat
       /\ \A k \in 0..l - 1 : SumTo(g, k + 1) = SumTo(g, k) + u[k + 1].duration
  BY <1>1, <1>22, LengthsAdd
<1> HIDE DEF f, g
<1>24. SumTo(g, q) = SumTo(f, q) + (h + j)
  <2>1. /\ p \in 0..l /\ p \in 0..l - 1 /\ o \in 0..l - 1 /\ n \in 0..l - 1
        /\ p + 1 = o /\ o + 1 = n /\ n + 1 = q
    BY <1>1, <1>2
  <2>2. /\ SumTo(f, o) = SumTo(f, p) + clips[o].duration /\ SumTo(g, o) = SumTo(g, p) + u[o].duration
        /\ SumTo(f, n) = SumTo(f, o) + clips[n].duration /\ SumTo(g, n) = SumTo(g, o) + u[n].duration
        /\ SumTo(f, q) = SumTo(f, n) + clips[q].duration /\ SumTo(g, q) = SumTo(g, n) + u[q].duration
    BY <1>23, <2>1
  <2>3. PICK s \in Nat : s = SumTo(f, p)
    BY <1>23, <2>1
  <2>4. SumTo(f, q) = s + d + c + e /\ SumTo(g, q) = s + (at - x) + (to - at) + (y - to)
    BY <1>3, <1>6, <1>5, <1>8, <1>4, <1>7, <1>13, <1>19, <1>22, <2>2, <2>3
  <2>5. s + (at - x) + (to - at) + (y - to) = s + d + c + e + (h + j)
    <3>1. /\ s \in Nat /\ at \in Nat /\ to \in Nat /\ x \in Nat /\ d \in Nat /\ v \in Nat
          /\ c \in Nat /\ z \in Nat /\ e \in Nat /\ y \in Nat
      BY <1>11, <1>9, <2>3
    <3>2. s + (at - x) + (to - at) + (y - to) = s + (y - x)
      BY <3>1, Telescopes
    <3>3. h + j = (v - (x + d)) + (z - (v + c)) /\ y = z + e
      BY <1>10, <1>9
    <3>4. s + d + c + e + ((v - (x + d)) + (z - (v + c))) = s + (z + e - x)
      BY <3>1, GapsAdd
    <3> QED
      BY <3>2, <3>3, <3>4
  <2> QED
    BY <2>4, <2>5
<1>25. SumTo(g, l) = SumTo(f, l) + (h + j)
  <2>1. q \in 0..l /\ l \in 0..l
    BY <1>1, <1>2
  <2>2. SumTo(f, q) \in Nat /\ SumTo(f, l) \in Nat /\ SumTo(g, l) \in Nat
    BY <1>23, <2>1
  <2>3. SumTo(g, l) + SumTo(f, q) = SumTo(f, l) + (SumTo(f, q) + (h + j))
    BY <1>22, <1>24
  <2>4. PICK a \in Nat, b \in Nat, k \in Nat : a = SumTo(f, q) /\ b = SumTo(f, l) /\ k = SumTo(g, l)
    BY <2>2
  <2>5. k + a = b + (a + (h + j))
    BY <2>3, <2>4
  <2>6. h + j \in Nat
    BY <1>10
  <2>7. k = b + (h + j)
    <3>1. PICK r \in Nat : r = h + j
      BY <2>6
    <3>2. a \in Nat /\ b \in Nat /\ k \in Nat /\ k + a = b + (a + r)
      BY <2>4, <2>5, <3>1
    <3>3. k = b + r
      BY <3>2
    <3> QED
      BY <3>1, <3>3
  <2> QED
    BY <2>4, <2>7
<1>26. TrackEnd(u, l) = TrackEnd(clips, l)
  <2>1. CASE l > q
    <3>1. TrackEnd(clips, l) \in Nat
      BY <1>1, GapsAndClips
    <3> QED
      BY <1>22, <2>1, <3>1
  <2>2. CASE l = q
    BY <1>2, <1>6, <1>5, <1>8, <1>13, <1>19, <2>2 DEF TrackEnd
  <2>3. q \in Nat /\ l \in Nat /\ q <= l
    BY <1>1, <1>2
  <2>4. l > q \/ l = q
    BY <2>3
  <2> QED
    BY <2>1, <2>2, <2>4
<1>27. LengthSum(u) = LengthSum(clips) + (h + j)
  <2>1. LengthSum(u) = SumTo(g, l) /\ LengthSum(clips) = SumTo(f, l)
    BY <1>1, <1>18 DEF LengthSum, f, g
  <2> QED
    BY <1>25, <2>1
<1>28. Edited(u, h + j)
  BY <1>1, <1>18, <1>22, <1>26, <1>27 DEF Edited
<1>29. u = Clips!Put(n - 1, n + 1, <<Clips!Clip(clips[n - 1].start, at), Clips!Clip(at, to),
                                     Clips!Clip(to, Clips!End(clips[n + 1]))>>)
  BY <1>3, <1>12, <1>14, <1>16, <1>2, <1>6, <1>5, <1>8
<1> QED
  BY <1>28, <1>10, <1>29

\* The starts of a track rise.
LEMMA TrackRises ==
    ASSUME NEW t, NEW n, IsClipTrack(t, n), NEW i \in 1..n, NEW j \in i + 1..n
    PROVE  EndOf(t[i]) <= t[j].start /\ t[i].start < t[j].start
<1>1. n \in Nat /\ \A k \in 1..n : IsClip(t[k])
  BY DEF IsClipTrack
<1>2. \A k \in 1..n : t[k].start \in Nat /\ EndOf(t[k]) \in Nat /\ t[k].start < EndOf(t[k])
  BY <1>1 DEF IsClip, EndOf
<1> DEFINE Bad == {k \in Nat : k \in i + 1..n /\ ~(EndOf(t[i]) <= t[k].start)}
<1>3. ASSUME j \in Bad PROVE FALSE
  <2>1. PICK k \in Bad : \A m \in Bad : k <= m
    <3>1. Bad \subseteq Nat /\ Bad # {}
      BY <1>3
    <3> HIDE DEF Bad
    <3> QED
      BY <3>1, LeastExists
  <2>2. k \in 2..n /\ k - 1 \in 1..n /\ k \in 1..n
    BY <1>1, <2>1
  <2>3. EndOf(t[k - 1]) <= t[k].start
    BY <2>2 DEF IsClipTrack
  <2>4. CASE k - 1 = i
    BY <2>1, <2>3, <2>4
  <2>5. CASE k - 1 # i
    <3>1. k - 1 \in Nat /\ k - 1 \in i + 1..n /\ k - 1 < k
      BY <1>1, <2>1, <2>5
    <3>2. k - 1 \notin Bad
      <4>1. ~(k <= k - 1)
        BY <2>1
      <4> HIDE DEF Bad
      <4> QED
        BY <2>1, <4>1
    <3>3. EndOf(t[i]) <= t[k - 1].start
      BY <3>1, <3>2
    <3>4. EndOf(t[i]) <= t[k].start
      BY <1>2, <2>2, <2>3, <3>3
    <3> QED
      BY <2>1, <3>4
  <2> QED
    BY <2>4, <2>5
<1>4. EndOf(t[i]) <= t[j].start
  BY <1>1, <1>3
<1>5. j \in 1..n
  BY <1>1
<1> QED
  BY <1>2, <1>4, <1>5

\* What is left of the clips without the n-th.
LEMMA RemovedIs ==
    ASSUME NEW l, IsClipTrack(clips, l), NEW n, n \in 1..l
    PROVE  /\ Clips!RemoveAt(clips, n) \in Seq(ClipSet) /\ Len(Clips!RemoveAt(clips, n)) = l - 1
           /\ \A i \in 1..n - 1 : Clips!RemoveAt(clips, n)[i] = clips[i]
           /\ \A i \in 1..l - n : Clips!RemoveAt(clips, n)[(n - 1) + i] = clips[n + i]
<1>1. l \in Nat /\ l = Len(clips) /\ clips \in Seq(ClipSet)
  BY DEF IsClipTrack, ClipSet
<1>2. PICK new : new = <<>> /\ new \in Seq(ClipSet) /\ 0 = Len(new)
  <2>1. <<>> \in Seq(ClipSet) /\ 0 = Len(<<>>)
    BY EmptySeq
  <2> QED
    BY <2>1
<1>3. PICK r : r = Clips!Put(n, n, new)
  OBVIOUS
<1>4. IsPut(r, clips, l, n, n, new, 0)
  <2>1. n \in n..l
    BY <1>1
  <2> QED
    BY <1>2, <1>3, <2>1, PutIs
<1>5. r = Clips!RemoveAt(clips, n)
  <2>1. SubSeq(clips, 1, n - 1) \in Seq(ClipSet)
    <3>1. \A i \in 1..n - 1 : i \in 1..l
      BY <1>1
    <3> QED
      BY <1>1, <3>1, SubSeqProperties
  <2>2. SubSeq(clips, 1, n - 1) \o new = SubSeq(clips, 1, n - 1)
    BY <1>2, <2>1, ConcatEmptySeq
  <2> QED
    BY <1>3, <2>2 DEF Clips!Put, Clips!RemoveAt
<1>6. /\ r \in Seq(ClipSet) /\ Len(r) = (n - 1) + 0 + (l - n)
      /\ \A i \in 1..n - 1 : r[i] = clips[i]
      /\ \A i \in 1..l - n : r[(n - 1) + 0 + i] = clips[n + i]
  BY <1>4 DEF IsPut
<1>7. (n - 1) + 0 + (l - n) = l - 1 /\ (n - 1) + 0 = n - 1
  BY <1>1
<1>8. /\ r \in Seq(ClipSet) /\ Len(r) = l - 1
      /\ \A i \in 1..n - 1 : r[i] = clips[i]
      /\ \A i \in 1..l - n : r[(n - 1) + i] = clips[n + i]
  BY <1>6, <1>7
<1> QED
  BY <1>5, <1>8

\* A clip that is moved by a deletion.
LEMMA ShiftIs ==
    ASSUME NEW n, NEW c, c \in ClipSet, clips[n].start \in Nat, clips[n].duration \in Nat
    PROVE  /\ ~(c.start > clips[n].start) => Clips!RippleShift(n, c) = c
           /\ c.start > clips[n].start =>
                /\ Clips!RippleShift(n, c).start = c.start - clips[n].duration
                /\ Clips!RippleShift(n, c).duration = c.duration
                /\ c.start - clips[n].duration \in Nat => Clips!RippleShift(n, c) \in ClipSet
<1>1. DOMAIN c = {"start", "duration"} /\ c.start \in Nat /\ c.duration \in Nat \ {0}
  BY DEF ClipSet
<1>2. ASSUME c.start > clips[n].start
      PROVE  /\ Clips!RippleShift(n, c).start = c.start - clips[n].duration
             /\ Clips!RippleShift(n, c).duration = c.duration
  BY <1>1, <1>2 DEF Clips!RippleShift
<1>3. ASSUME c.start > clips[n].start, c.start - clips[n].duration \in Nat
      PROVE  Clips!RippleShift(n, c) \in ClipSet
  BY <1>2, <1>3 DEF Clips!RippleShift, ClipSet
<1>4. ~(c.start > clips[n].start) => Clips!RippleShift(n, c) = c
  BY DEF Clips!RippleShift
<1> QED
  BY <1>2, <1>3, <1>4

\* A ripple delete keeps the invariant.
LEMMA DeleteFollows ==
    ASSUME ClipsInvariant, NEW n \in DOMAIN clips, Clips!RippleDelete(n)
    PROVE  ClipsInvariant'
<1>1. PICK l \in Nat : l = Len(clips) /\ n \in 1..l /\ IsClipTrack(clips, l)
  BY DEF ClipsInvariant, IsClipTrack
<1>2. PICK u : u = clips'
  OBVIOUS
<1>3. PICK x \in Nat, d \in Nat \ {0} :
        x = clips[n].start /\ d = clips[n].duration /\ EndOf(clips[n]) = x + d
  BY <1>1, ClipEnds
<1>4. PICK r : r = Clips!RemoveAt(clips, n)
  OBVIOUS
<1>5. /\ r \in Seq(ClipSet) /\ Len(r) = l - 1
      /\ \A i \in 1..n - 1 : r[i] = clips[i]
      /\ \A i \in 1..l - n : r[(n - 1) + i] = clips[n + i]
  BY <1>1, <1>4, RemovedIs
<1>6. u = [m \in 1..l - 1 |-> Clips!RippleShift(n, r[m])]
  BY <1>1, <1>2, <1>4 DEF Clips!RippleDelete
<1>7. PICK m \in Nat, p \in Nat : m = l - 1 /\ p = n - 1 /\ l = m + 1 /\ n = p + 1 /\ p <= m /\ l - n = m - p
  <2>1. l - 1 \in Nat /\ n - 1 \in Nat /\ n - 1 <= l - 1
    BY <1>1
  <2>2. l = (l - 1) + 1 /\ n = (n - 1) + 1 /\ l - n = (l - 1) - (n - 1)
    BY <1>1
  <2> QED
    BY <2>1, <2>2
<1>8. ASSUME NEW i \in 1..p PROVE u[i] = clips[i] /\ u[i] \in ClipSet /\ i \in 1..m
  <2>1. i \in 1..l /\ i \in 1..m /\ n \in i + 1..l
    BY <1>1, <1>7
  <2>2. clips[i].start < clips[n].start
    BY <1>1, <2>1, TrackRises
  <2>3. clips[i].start \in Nat /\ clips[i] \in ClipSet
    <3>1. clips \in Seq(ClipSet)
      BY <1>1 DEF IsClipTrack, ClipSet
    <3> QED
      BY <1>1, <2>1, <3>1, ClipEnds
  <2>4. Clips!RippleShift(n, clips[i]) = clips[i]
    BY <1>3, <2>2, <2>3, ShiftIs
  <2>5. r[i] = clips[i]
    BY <1>5, <1>7
  <2> QED
    BY <1>6, <1>7, <2>1, <2>3, <2>4, <2>5
<1>9. ASSUME NEW i \in 1..m - p
      PROVE  /\ p + i \in 1..m /\ n + i \in 1..l /\ n + i \in n + 1..l /\ u[p + i] \in ClipSet
             /\ u[p + i].duration = clips[n + i].duration
             /\ u[p + i].start = clips[n + i].start - d
             /\ x <= u[p + i].start
  <2>1. p + i \in 1..m /\ n + i \in 1..l /\ n + i \in n + 1..l /\ p = n - 1
    BY <1>1, <1>7
  <2>2. EndOf(clips[n]) <= clips[n + i].start
    BY <1>1, <2>1, TrackRises
  <2>3. PICK y \in Nat : y = clips[n + i].start
    BY <1>1, <2>1, ClipEnds
  <2>4. clips[n + i] \in ClipSet
    <3>1. clips \in Seq(ClipSet)
      BY <1>1 DEF IsClipTrack, ClipSet
    <3> QED
      BY <1>1, <2>1, <3>1
  <2>5. x + d <= y /\ y > x /\ y - d \in Nat
    BY <1>3, <2>2, <2>3
  <2>6. r[p + i] = clips[n + i]
    BY <1>5, <1>7, <2>1
  <2>7. u[p + i] = Clips!RippleShift(n, clips[n + i])
    BY <1>6, <1>7, <2>1, <2>6
  <2>8. /\ u[p + i].start = clips[n + i].start - d
        /\ u[p + i].duration = clips[n + i].duration
        /\ u[p + i] \in ClipSet
    BY <1>3, <2>3, <2>5, <2>4, <2>7, ShiftIs
  <2> QED
    BY <1>3, <2>1, <2>3, <2>5, <2>8
<1>10. u \in Seq(ClipSet) /\ m = Len(u)
  <2>1. ASSUME NEW i \in 1..m PROVE u[i] \in ClipSet
    <3>1. CASE i \in 1..p
      BY <1>8, <3>1
    <3>2. CASE i \notin 1..p
      <4>1. PICK k \in 1..m - p : i = p + k
        <5>1. i - p \in 1..m - p /\ i = p + (i - p)
          BY <1>7, <3>2
        <5> QED
          BY <5>1
      <4> QED
        BY <1>9, <4>1
    <3> QED
      BY <3>1, <3>2
  <2>2. u = [i \in 1..m |-> u[i]]
    BY <1>6, <1>7
  <2> QED
    BY <2>1, <2>2, IsASeq
<1>11. IsEdit(clips, l, u, m, p, n, p, d)
  <2>1. ASSUME NEW i \in 2..m, i > p, i <= p + 1 PROVE EndOf(u[i - 1]) <= u[i].start
    <3>1. i = p + 1 /\ 1 \in 1..m - p /\ i - 1 \in 1..p /\ i - 1 = n - 1 /\ n > 1
      BY <1>7, <2>1
    <3>2. u[i - 1] = clips[n - 1] /\ x <= u[i].start
      BY <1>8, <1>9, <3>1
    <3>3. EndOf(clips[n - 1]) <= x
      BY <1>1, <1>3, <3>1, ClipEnds
    <3>4. EndOf(clips[n - 1]) \in Nat /\ u[i].start \in Nat
      <4>1. n - 1 \in 1..l /\ p + 1 = i
        BY <1>1, <3>1
      <4>2. clips[n - 1].start \in Nat /\ clips[n - 1].duration \in Nat
        BY <1>1, <4>1, ClipEnds
      <4>3. u[i] \in ClipSet
        BY <1>9, <3>1
      <4> QED
        BY <4>2, <4>3 DEF EndOf, ClipSet
    <3> QED
      BY <3>2, <3>3, <3>4
  <2>2. n <= l /\ p <= n /\ l - n = m - p /\ n \in Nat /\ d \in Nat
    BY <1>1, <1>3, <1>7
  <2>3. \A i \in 1..l - n : u[p + i].duration = clips[n + i].duration /\ u[p + i].start = clips[n + i].start - d
    BY <1>9, <2>2
  <2>4. \A i \in 2..m : i > p /\ i <= p + 1 => EndOf(u[i - 1]) <= u[i].start
    BY <2>1
  <2>5. \A i \in 1..p : u[i] = clips[i]
    BY <1>8
  <2>6. m \in Nat /\ p \in Nat /\ p <= m /\ p <= p
    BY <1>7
  <2> QED
    BY <1>10, <2>2, <2>3, <2>4, <2>5, <2>6 DEF IsEdit
<1> DEFINE f == LengthsOf(clips, l)
           g == LengthsOf(u, m)
<1>12. /\ IsClipTrack(u, m) /\ SumTo(g, p) = SumTo(f, p)
       /\ SumTo(g, m) + SumTo(f, n) = SumTo(f, l) + SumTo(g, p)
       /\ l > n => TrackEnd(u, m) = TrackEnd(clips, l) - d
  BY <1>1, <1>11, EditKeeps
<1>13. /\ \A k \in 0..l : SumTo(f, k) \in Nat
       /\ \A k \in 0..l - 1 : SumTo(f, k + 1) = SumTo(f, k) + clips[k + 1].duration
       /\ \A k \in 0..m : SumTo(g, k) \in Nat
  BY <1>1, <1>12, LengthsAdd
<1> HIDE DEF f, g
<1>14. SumTo(g, m) = SumTo(f, l) + (0 - d)
  <2>1. p \in 0..l /\ p \in 0..l - 1 /\ l \in 0..l /\ m \in 0..m
    BY <1>1, <1>7
  <2>2. SumTo(f, n) = SumTo(f, p) + d
    BY <1>3, <1>7, <1>13, <2>1
  <2>3. SumTo(f, p) \in Nat /\ SumTo(f, l) \in Nat /\ SumTo(g, m) \in Nat
    BY <1>13, <2>1
  <2> QED
    BY <1>3, <1>12, <2>2, <2>3
<1>15. LengthSum(u) = LengthSum(clips) + (0 - d)
  <2>1. LengthSum(u) = SumTo(g, m) /\ LengthSum(clips) = SumTo(f, l)
    BY <1>1, <1>10 DEF LengthSum, f, g
  <2> QED
    BY <1>14, <2>1
<1>16. /\ IsClipTrack(clips, Len(clips)) /\ gap = GapSum(clips) /\ content = LengthSum(clips)
       /\ IsClipTrack(u, Len(u)) /\ l = Len(clips) /\ m = Len(u)
  BY <1>1, <1>10, <1>12 DEF ClipsInvariant
<1>17. /\ GapSum(clips) \in Nat /\ LengthSum(clips) \in Nat
       /\ GapSum(clips) + LengthSum(clips) = TrackEnd(clips, l)
  BY <1>16, GapsAndClips DEF GapSum, LengthSum
<1>18. content' = LengthSum(u)
  <2>1. content' = content - d
    BY <1>3 DEF Clips!RippleDelete
  <2>2. LengthSum(clips) + (0 - d) = LengthSum(clips) - d
    BY <1>3, <1>17
  <2> QED
    BY <1>15, <1>16, <2>1, <2>2
<1>19. gap' = GapSum(u)
  <2>1. CASE n = l
    <3>1. gap' = gap - Clips!Free(n)
      BY <1>1, <2>1 DEF Clips!RippleDelete
    <3>2. p = m
      BY <1>7, <2>1
    <3>3. PICK e \in Nat : e = TrackEnd(clips, p) /\ Clips!Free(n) = x - e
      <4>1. CASE n = 1
        <5>1. p = 0
          BY <1>7, <4>1
        <5>2. Clips!Free(n) = x
          BY <1>1, <1>3, <4>1, ClipEnds
        <5> QED
          BY <1>3, <5>1, <5>2 DEF TrackEnd
      <4>2. CASE n # 1
        <5>1. p # 0 /\ n > 1 /\ p = n - 1 /\ p \in 1..l
          BY <1>1, <1>7, <4>2
        <5>2. Clips!Free(n) = x - EndOf(clips[p])
          BY <1>1, <1>3, <5>1, ClipEnds
        <5>3. clips[p].start \in Nat /\ clips[p].duration \in Nat
          BY <1>1, <5>1, ClipEnds
        <5> QED
          BY <5>1, <5>2, <5>3 DEF TrackEnd, EndOf
      <4> QED
        BY <4>1, <4>2
    <3>4. TrackEnd(u, m) = e
      <4>1. p # 0 => u[p] = clips[p]
        BY <1>7, <1>8
      <4> QED
        BY <3>2, <3>3, <4>1 DEF TrackEnd
    <3>5. TrackEnd(clips, l) = x + d
      BY <1>1, <1>3, <2>1 DEF TrackEnd
    <3>6. TrackEnd(u, Len(u)) = TrackEnd(clips, Len(clips)) - (x + d - e)
      BY <1>3, <1>16, <3>3, <3>4, <3>5
    <3>7. GapSum(u) = GapSum(clips) - (x + d - e) - (0 - d)
      <4>1. x + d - e \in Int /\ 0 - d \in Int
        BY <1>3, <3>3
      <4> QED
        BY <1>15, <1>16, <3>6, <4>1, GapsFollow
    <3>8. GapSum(clips) - (x + d - e) - (0 - d) = GapSum(clips) - (x - e)
      BY <1>3, <1>17, <3>3
    <3> QED
      BY <1>16, <3>1, <3>3, <3>7, <3>8
  <2>2. CASE n # l
    <3>1. gap' = gap
      BY <1>1, <2>2 DEF Clips!RippleDelete
    <3>2. l > n
      BY <1>1, <2>2
    <3>3. TrackEnd(u, Len(u)) = TrackEnd(clips, Len(clips)) - d
      BY <1>12, <1>16, <3>2
    <3>4. GapSum(u) = GapSum(clips) - d - (0 - d)
      <4>1. d \in Int /\ 0 - d \in Int
        BY <1>3
      <4> QED
        BY <1>15, <1>16, <3>3, <4>1, GapsFollow
    <3>5. GapSum(clips) - d - (0 - d) = GapSum(clips)
      BY <1>3, <1>17
    <3> QED
      BY <1>16, <3>1, <3>4, <3>5
  <2> QED
    BY <2>1, <2>2
<1>20. IsClipTrack(clips', Len(clips')) /\ gap' = GapSum(clips') /\ content' = LengthSum(clips')
  BY <1>2, <1>16, <1>18, <1>19
<1> QED
  BY <1>20 DEF ClipsInvariant, GapSum, LengthSum

\* Every edit of the timeline keeps the invariant.
LEMMA ClipsStep == ClipsInvariant /\ [Clips!Next]_clipsVars => ClipsInvariant'
<1> SUFFICES ASSUME ClipsInvariant, [Clips!Next]_clipsVars PROVE ClipsInvariant'
  OBVIOUS
<1>1. PICK l \in Nat : l = Len(clips) /\ IsClipTrack(clips, l) /\ DOMAIN clips = 1..l
  BY DEF ClipsInvariant, IsClipTrack
<1>2. IsClipTrack(clips, Len(clips)) /\ gap = GapSum(clips) /\ content = LengthSum(clips)
  BY DEF ClipsInvariant
<1>3. gap \in Nat /\ content \in Nat
  BY <1>2, GapsAndClips DEF GapSum, LengthSum
<1>4. ASSUME NEW n \in DOMAIN clips, Clips!RippleDelete(n) PROVE ClipsInvariant'
  BY <1>4, DeleteFollows
<1>5. ASSUME NEW n \in DOMAIN clips, NEW at \in clips[n].start..Clips!End(clips[n]), Clips!BladeSplit(n, at)
      PROVE  ClipsInvariant'
  <2>1. n \in 1..Len(clips) /\ clips[n].start \in Nat /\ Clips!End(clips[n]) \in Nat
    BY <1>1, ClipEnds
  <2>2. at \in Nat /\ clips[n].start < at /\ at < Clips!End(clips[n])
    BY <1>5, <2>1 DEF Clips!BladeSplit
  <2>3. PICK u : /\ clips' = u
                 /\ u = Clips!Put(n, n, <<Clips!Clip(clips[n].start, at), Clips!Clip(at, Clips!End(clips[n]))>>)
    BY <1>5 DEF Clips!BladeSplit
  <2>4. Edited(u, 0)
    BY <1>2, <2>1, <2>2, <2>3, SplitEdits
  <2>5. gap' = gap - 0 /\ content' = content + 0 /\ 0 \in Int
    BY <1>3, <1>5 DEF Clips!BladeSplit
  <2> QED
    BY <2>3, <2>4, <2>5, EditedFollows
<1>6. ASSUME NEW n \in 1..Len(clips) - 1, NEW at \in clips[n].start..Clips!End(clips[n + 1]), Clips!RollEdit(n, at)
      PROVE  ClipsInvariant'
  <2>1. n \in 1..l /\ n + 1 \in 1..l
    BY <1>1
  <2>2. clips[n].start \in Nat /\ Clips!End(clips[n + 1]) \in Nat
    BY <1>1, <2>1, ClipEnds
  <2>3. at \in Nat /\ Clips!Rollable(clips[n], clips[n + 1], at)
    BY <1>6, <2>2 DEF Clips!RollEdit
  <2>4. PICK u : /\ clips' = u
                 /\ u = Clips!Put(n, n + 1, <<Clips!Clip(clips[n].start, at),
                                              Clips!Clip(at, Clips!End(clips[n + 1]))>>)
    BY <1>6 DEF Clips!RollEdit
  <2>5. Edited(u, Clips!Free(n + 1)) /\ Clips!Free(n + 1) \in Nat
    BY <1>2, <2>3, <2>4, RollEdits
  <2>6. gap' = gap - Clips!Free(n + 1) /\ content' = content + Clips!Free(n + 1) /\ Clips!Free(n + 1) \in Int
    BY <1>6, <2>5 DEF Clips!RollEdit
  <2> QED
    BY <2>4, <2>5, <2>6, EditedFollows
<1>7. ASSUME NEW n \in 2..Len(clips) - 1, NEW shift \in Shifts, Clips!SlideEdit(n, shift)
      PROVE  ClipsInvariant'
  <2>1. n \in 1..l /\ n + 1 \in 1..l
    BY <1>1
  <2>2. shift \in Int
    BY StudioConstants DEF Clips!ClipConstants
  <2>3. PICK at \in Int, to \in Int : at = clips[n].start + shift /\ to = at + clips[n].duration
    <3>1. clips[n].start \in Nat /\ clips[n].duration \in Nat
      BY <1>1, <2>1, ClipEnds
    <3> QED
      BY <2>2, <3>1
  <2>4. PICK u : /\ clips' = u
                 /\ u = Clips!Put(n - 1, n + 1,
                                  <<Clips!Clip(clips[n - 1].start, at), Clips!Clip(at, to),
                                    Clips!Clip(to, Clips!End(clips[n + 1]))>>)
    BY <1>7, <2>3 DEF Clips!SlideEdit
  <2>5. clips[n - 1].start < at /\ to < Clips!End(clips[n + 1])
    BY <1>7, <2>3 DEF Clips!SlideEdit
  <2>6. /\ Edited(u, Clips!Free(n) + Clips!Free(n + 1))
        /\ Clips!Free(n) \in Nat /\ Clips!Free(n + 1) \in Nat
    BY <1>2, <2>3, <2>4, <2>5, SlideEdits
  <2>7. PICK h \in Nat, j \in Nat : h = Clips!Free(n) /\ j = Clips!Free(n + 1)
    BY <2>6
  <2>8. gap' = gap - h - j /\ content' = content + h + j
    BY <1>7, <2>7 DEF Clips!SlideEdit
  <2>9. gap' = gap - (h + j) /\ content' = content + (h + j) /\ h + j \in Int
    <3>1. PICK g \in Nat, k \in Nat : g = gap /\ k = content
      BY <1>3
    <3>2. g - h - j = g - (h + j) /\ k + h + j = k + (h + j) /\ h + j \in Int
      BY <2>7
    <3> QED
      BY <2>8, <3>1, <3>2
  <2> QED
    BY <2>4, <2>6, <2>7, <2>9, EditedFollows
<1>8. CASE UNCHANGED clipsVars
  BY <1>8 DEF clipsVars, ClipsInvariant, IsClipTrack, GapSum, LengthSum
<1> QED
  BY <1>4, <1>5, <1>6, <1>7, <1>8 DEF Clips!Next

\* The sums that the timeline takes.
LEMMA ClipSums ==
    ASSUME NEW n, IsClipTrack(clips, n)
    PROVE  Clips!Gaps = GapSum(clips) /\ Clips!Contents = LengthSum(clips)
<1>1. n = Len(clips) /\ n \in Nat /\ DOMAIN clips = 1..n
  BY DEF IsClipTrack
<1>2. \A f : Clips!Total(f) = SumOf(f, DOMAIN f)
  BY DEF Clips!Total, SumOf, IsSum, Round, First, Clips!MapThenSumSet, Clips!MapThenFoldSet
<1>3. [i \in DOMAIN clips |-> clips[i].duration] = LengthsOf(clips, n) /\ DOMAIN LengthsOf(clips, n) = 1..n
  BY <1>1 DEF LengthsOf
<1>4. [i \in DOMAIN clips |-> Clips!Free(i)] = GapsOf(clips, n) /\ DOMAIN GapsOf(clips, n) = 1..n
  <2>1. \A i \in 1..n : Clips!Free(i) = GapAt(clips, i)
    BY DEF Clips!Free, Clips!Before, Clips!End, GapAt, EndOf
  <2> QED
    BY <1>1, <2>1 DEF GapsOf
<1>5. Clips!Gaps = SumTo(GapsOf(clips, n), n)
  BY <1>2, <1>4 DEF Clips!Gaps, SumTo
<1>6. Clips!Contents = SumTo(LengthsOf(clips, n), n)
  BY <1>2, <1>3 DEF Clips!Contents, SumTo
<1> QED
  BY <1>1, <1>5, <1>6 DEF GapSum, LengthSum

\* The tracks that may be opened have it.
LEMMA ClipsInit == Clips!Init => ClipsInvariant
<1> SUFFICES ASSUME Clips!Init PROVE ClipsInvariant
  OBVIOUS
<1>1. clips \in Tracks /\ gap = Clips!Gaps /\ content = Clips!Contents
  BY DEF Clips!Init
<1>2. /\ clips \in Seq([start: Nat, duration: Nat \ {0}])
      /\ \A n \in 2..Len(clips) : Clips!End(clips[n - 1]) <= clips[n].start
  BY <1>1, StudioConstants DEF Clips!ClipConstants
<1>3. PICK n \in Nat : n = Len(clips) /\ DOMAIN clips = 1..n
  BY <1>2
<1>4. ASSUME NEW i \in 1..n PROVE IsClip(clips[i])
  <2>1. clips \in Seq(ClipSet)
    BY <1>2 DEF ClipSet
  <2>2. clips[i] \in ClipSet
    BY <1>3, <2>1
  <2> QED
    BY <2>2 DEF ClipSet, IsClip
<1>5. \A i \in 2..n : EndOf(clips[i - 1]) <= clips[i].start
  BY <1>2, <1>3 DEF Clips!End, EndOf
<1>6. IsClipTrack(clips, n)
  BY <1>2, <1>3, <1>4, <1>5 DEF IsClipTrack
<1> QED
  BY <1>1, <1>3, <1>6, ClipSums DEF ClipsInvariant

\* The clips of a track stay apart, and none moves out of it.
LEMMA ClipsKept == ClipsInvariant => Clips!ClipsStayApart /\ Clips!TypeOK
<1> SUFFICES ASSUME ClipsInvariant PROVE Clips!ClipsStayApart /\ Clips!TypeOK
  OBVIOUS
<1>1. PICK l \in Nat : /\ l = Len(clips) /\ IsClipTrack(clips, l) /\ DOMAIN clips = 1..l
                       /\ clips \in Seq([start: Nat, duration: Nat \ {0}])
  BY DEF ClipsInvariant, IsClipTrack
<1>2. Clips!Gaps = gap /\ Clips!Contents = content
  BY <1>1, ClipSums DEF ClipsInvariant
<1>3. ASSUME NEW n \in DOMAIN clips PROVE clips[n].duration > 0 /\ Clips!Free(n) >= 0
  <2>1. /\ clips[n].start \in Nat /\ clips[n].duration \in Nat \ {0}
        /\ n > 1 => /\ EndOf(clips[n - 1]) <= clips[n].start
                    /\ Clips!Free(n) = clips[n].start - EndOf(clips[n - 1])
        /\ n = 1 => Clips!Free(n) = clips[n].start
    BY <1>1, ClipEnds
  <2>2. n > 1 => EndOf(clips[n - 1]) \in Nat
    <3>1. SUFFICES ASSUME n > 1 PROVE EndOf(clips[n - 1]) \in Nat
      OBVIOUS
    <3>2. n - 1 \in 1..l
      BY <1>1, <3>1
    <3>3. clips[n - 1].start \in Nat /\ clips[n - 1].duration \in Nat
      BY <1>1, <3>2, ClipEnds
    <3> QED
      BY <3>3 DEF EndOf
  <2>3. n > 1 \/ n = 1
    BY <1>1
  <2> QED
    BY <2>1, <2>2, <2>3
<1>4. Clips!TypeOK
  <2>1. ASSUME NEW i \in 1..l PROVE clips[i] \in [start: Nat, duration: Nat]
    <3>1. clips \in Seq(ClipSet)
      BY <1>1 DEF ClipSet
    <3>2. clips[i] \in ClipSet
      BY <1>1, <3>1
    <3> QED
      BY <3>2 DEF ClipSet
  <2>2. clips = [i \in 1..l |-> clips[i]]
    <3>1. clips \in Seq(ClipSet)
      BY <1>1 DEF ClipSet
    <3> QED
      BY <1>1, <3>1
  <2>3. clips \in Seq([start: Nat, duration: Nat])
    BY <1>1, <2>1, <2>2, IsASeq
  <2> QED
    BY <2>3 DEF Clips!TypeOK
<1> QED
  BY <1>2, <1>3, <1>4 DEF Clips!ClipsStayApart

-----------------------------------------------------------------------------
(* The clock.                                                              *)

\* A step of the studio is one of the clock, or leaves it alone.
LEMMA ClockSteps ==
    /\ StudioInit => service # "clock" \/ Clock!Init
    /\ [StudioNext]_studioVars =>
         service' = service /\ (service = "clock" => [Clock!Next]_clockVars)
BY DEF StudioInit, StudioNext, studioVars, clockVars

\* What is equal up to a factor, is.
LEMMA Cancelled ==
    ASSUME NEW x \in Nat, NEW y \in Nat, NEW c \in Nat \ {0}
    PROVE  /\ c * x <= c * y => x <= y
           /\ c * x = c * y => x = y
<1>1. c * x \in Nat /\ c * y \in Nat
  BY Products
<1>2. (x < y => c * x < c * y) /\ (y < x => c * y < c * x)
  BY Products
<1> QED
  BY <1>1, <1>2

\* Instants of two rates on the grid g, whose ticks are t and s units.
LEMMA OnTheGrid ==
    ASSUME NEW k \in Nat, NEW g \in Nat, NEW t \in Nat, NEW s \in Nat, NEW a \in Nat, NEW b \in Nat,
           NEW c \in Nat, NEW d \in Nat, t * a = g * b, s * c = g * d
    PROVE  /\ (a * c) * (k * s) = g * ((a * d) * k)
           /\ (a * c) * (k * t) = g * ((k * b) * c)
           /\ (a * c) * s = g * (a * d)
<1>1. /\ (a * c) * (k * s) = (a * k) * (s * c)
      /\ (a * c) * (k * t) = (c * k) * (t * a)
      /\ (a * c) * s = a * (s * c)
  OBVIOUS
<1>2. /\ (a * k) * (s * c) = (a * k) * (g * d)
      /\ (c * k) * (t * a) = (c * k) * (g * b)
      /\ a * (s * c) = a * (g * d)
  BY Zenon
<1>3. /\ (a * k) * (g * d) = g * ((a * d) * k)
      /\ (c * k) * (g * b) = g * ((k * b) * c)
      /\ a * (g * d) = g * (a * d)
  OBVIOUS
<1> QED
  BY <1>1, <1>2, <1>3, Zenon

IsRate(r) ==
    /\ r \in Rates /\ r[1] \in Nat \ {0} /\ r[2] \in Nat \ {0}
    /\ Clock!Tick(r) \in Nat \ {0} /\ Clock!Tick(r) * r[1] = Grid * r[2]

\* A tick of every rate is a whole number of units of the grid.
LEMMA RatesAre == \A r \in Rates : IsRate(r)
<1> SUFFICES ASSUME NEW r \in Rates PROVE IsRate(r)
  OBVIOUS
<1>1. /\ r[1] \in Nat \ {0} /\ r[2] \in Nat \ {0} /\ (Grid * r[2]) % (2 * r[1]) = 0
      /\ Grid \in Nat \ {0}
  BY StudioConstants DEF Clock!ClockConstants
<1>2. PICK a \in Nat \ {0}, b \in Nat \ {0}, g \in Nat \ {0} : a = r[1] /\ b = r[2] /\ g = Grid
  BY <1>1
<1>3. PICK n \in Nat : n = g * b
  BY <1>2, Products
<1>4. n > 0
  BY <1>3, <1>2, Products
<1>5. n % (2 * a) = 0
  BY <1>1, <1>2, <1>3
<1>6. PICK e \in Nat \ {0} : e = 2 * a
  BY <1>2
<1>7. PICK h \in Nat : n = e * h
  <2>1. n \div e \in Nat /\ n = e * (n \div e) + (n % e)
    BY Division
  <2>2. n % e = 0
    BY <1>5, <1>6
  <2>3. PICK h : h = n \div e
    OBVIOUS
  <2>4. h \in Nat /\ n = e * h + 0
    BY <2>1, <2>2, <2>3
  <2>5. e * h \in Nat
    BY <2>4, Products
  <2> QED
    BY <2>4, <2>5
<1>8. PICK t \in Nat : t = 2 * h
  OBVIOUS
<1>9. n = a * t
  <2>1. (2 * a) * h = a * (2 * h)
    OBVIOUS
  <2> QED
    BY <1>6, <1>7, <1>8, <2>1
<1>10. t # 0
  BY <1>4, <1>9
<1>11. n \div a = t
  <2>1. n \div a \in Nat /\ n = a * (n \div a) + (n % a) /\ n % a \in 0..a - 1
    BY Division
  <2>2. PICK q \in Nat, z \in Nat : q = n \div a /\ z = n % a /\ z < a
    BY <2>1
  <2>3. a * t = a * q + z
    BY <1>9, <2>1, <2>2
  <2>4. a * t + 0 <= a * q + z /\ a * q + z <= a * t + 0 /\ 0 < a
    <3>1. a * t \in Nat
      BY Products
    <3> QED
      BY <2>3, <3>1
  <2>5. t < q \/ (t = q /\ 0 <= z)
    BY <2>2, <2>4, QuotientsRise
  <2>6. q < t \/ (q = t /\ z <= 0)
    BY <2>2, <2>4, QuotientsRise
  <2> QED
    BY <2>2, <2>5, <2>6
<1>12. Clock!Tick(r) = t
  BY <1>2, <1>3, <1>11 DEF Clock!Tick
<1>13. t * a = g * b
  BY <1>3, <1>9, Products
<1> QED
  BY <1>1, <1>2, <1>10, <1>12, <1>13 DEF IsRate

\* A number of ticks k of the rate q is the instant of n ticks of the rate r.
SameInstant(n, r, k, q) == k * Clock!Tick(q) = n * Clock!Tick(r)

\* What is not the same is a tick away at most, and half a tick to the nearest
\* one.
NearInstant(n, r, k, q, rounding) ==
    \A a, b, t \in Nat :
      a = n * Clock!Tick(r) /\ b = k * Clock!Tick(q) /\ t = Clock!Tick(q) =>
        /\ a <= b + t /\ b <= a + t
        /\ rounding = "nearest_even" => 2 * a <= 2 * b + t /\ 2 * b <= 2 * a + t

IsRounding(rounding, n, r, q) ==
    rounding \in {"floor", "toward_zero", "ceil", "nearest_even"} \/ Clock!Exact(n, r, q)

\* What is rescaled is rounded in its direction, and exact if it can be.
LEMMA RescaledConverts ==
    ASSUME NEW n \in Nat, NEW r, IsRate(r), NEW q, IsRate(q), NEW rounding, IsRounding(rounding, n, r, q)
    PROVE  /\ (n * r[2]) * q[1] \in Nat /\ r[1] * q[2] \in Nat \ {0}
           /\ Converts((n * r[2]) * q[1], r[1] * q[2], rounding, Clock!Rescaled(n, r, q, rounding))
           /\ Clock!Exact(n, r, q) =>
                (r[1] * q[2]) * Clock!Rescaled(n, r, q, rounding) = (n * r[2]) * q[1]
<1>1. PICK a \in Nat \ {0}, b \in Nat \ {0}, c \in Nat \ {0}, d \in Nat \ {0} :
        a = r[1] /\ b = r[2] /\ c = q[1] /\ d = q[2]
  BY DEF IsRate
<1>2. PICK x \in Nat : x = (n * b) * c
  <2>1. n * b \in Nat
    BY Products
  <2> QED
    BY <2>1, Products
<1>3. PICK y \in Nat \ {0} : y = a * d
  <2>1. a * d \in Nat /\ a * 0 < a * d
    BY Products
  <2> QED
    BY <2>1
<1>4. Clock!Exact(n, r, q) <=> x % y = 0
  BY <1>1, <1>2, <1>3 DEF Clock!Exact
<1>5. CASE x % y = 0
  <2>1. Clock!Rescaled(n, r, q, rounding) = x \div y
    BY <1>1, <1>2, <1>3, <1>4, <1>5 DEF Clock!Rescaled
  <2>2. Converts(x, y, rounding, x \div y) /\ y * (x \div y) = x
    BY <1>5, ExactConverts
  <2> QED
    BY <1>1, <1>2, <1>3, <2>1, <2>2
<1>6. CASE x % y # 0
  <2>1. rounding \in {"floor", "toward_zero", "ceil", "nearest_even"}
    BY <1>4, <1>6 DEF IsRounding
  <2>2. Clock!Rescaled(n, r, q, rounding) = Clock!Rounded(x, y, rounding)
    BY <1>1, <1>2, <1>3, <1>4, <1>6 DEF Clock!Rescaled
  <2>3. Converts(x, y, rounding, Clock!Rounded(x, y, rounding))
    BY <2>1, RoundedConverts
  <2> QED
    BY <1>1, <1>2, <1>3, <1>4, <1>6, <2>2, <2>3
<1> QED
  BY <1>5, <1>6

\* A conversion moves an instant by less than a tick.
LEMMA RescaledNear ==
    ASSUME NEW n \in Nat, NEW r, IsRate(r), NEW q, IsRate(q), NEW rounding, IsRounding(rounding, n, r, q)
    PROVE  /\ Clock!Rescaled(n, r, q, rounding) \in Nat
           /\ NearInstant(n, r, Clock!Rescaled(n, r, q, rounding), q, rounding)
           /\ Clock!Exact(n, r, q) => SameInstant(n, r, Clock!Rescaled(n, r, q, rounding), q)
<1>1. PICK a \in Nat \ {0}, b \in Nat \ {0}, c \in Nat \ {0}, d \in Nat \ {0}, t \in Nat, s \in Nat :
        /\ a = r[1] /\ b = r[2] /\ c = q[1] /\ d = q[2]
        /\ t = Clock!Tick(r) /\ s = Clock!Tick(q)
  BY DEF IsRate
<1>2. PICK g \in Nat \ {0} : g = Grid
  BY StudioConstants DEF Clock!ClockConstants
<1>3. t * a = g * b /\ s * c = g * d
  BY <1>1, <1>2 DEF IsRate
<1>4. PICK x \in Nat, y \in Nat \ {0} : x = (n * b) * c /\ y = a * d
  <2>1. (n * b) * c \in Nat /\ a * d \in Nat \ {0}
    BY <1>1, RescaledConverts
  <2> QED
    BY <2>1
<1>5. PICK k : k = Clock!Rescaled(n, r, q, rounding)
  OBVIOUS
<1>6. Converts(x, y, rounding, k) /\ (Clock!Exact(n, r, q) => y * k = x)
  BY <1>1, <1>4, <1>5, RescaledConverts
<1>7. /\ k \in Nat /\ y * k \in Nat
      /\ y * k - x < y /\ x - y * k < y
      /\ rounding = "nearest_even" => 2 * (y * k - x) <= y /\ 2 * (x - y * k) <= y
  BY <1>6, ConvertsNear
<1>8. PICK z \in Nat : z = y * k
  BY <1>7
<1>9. PICK e \in Nat \ {0} : e = a * c
  <2>1. a * c \in Nat /\ a * 0 < a * c
    BY <1>1, Products
  <2> QED
    BY <2>1
<1>10. PICK u \in Nat, v \in Nat : u = n * t /\ v = k * s
  <2>1. n * t \in Nat /\ k * s \in Nat
    BY <1>7, Products
  <2> QED
    BY <2>1
<1>11. e * v = g * z /\ e * u = g * x /\ e * s = g * y
  <2>1. /\ (a * c) * (k * s) = g * ((a * d) * k)
        /\ (a * c) * s = g * (a * d)
    <3>1. k \in Nat
      BY <1>7
    <3> QED
      BY <1>3, <3>1, OnTheGrid
  <2>2. (a * c) * (n * t) = g * ((n * b) * c)
    BY <1>3, OnTheGrid
  <2> QED
    BY <1>4, <1>8, <1>9, <1>10, <2>1, <2>2
<1>12. ASSUME NEW i \in {1, 2}, NEW f \in Nat, NEW h \in Nat, NEW j \in Nat, NEW m \in Nat,
              e * f = g * h, e * j = g * m, i * h <= i * m + y
       PROVE  i * f <= i * j + s
  <2>1. g * (i * h) <= g * (i * m + y)
    <3>1. i * h \in Nat /\ i * m + y \in Nat
      OBVIOUS
    <3> QED
      BY <1>12, <3>1, Products
  <2>2. g * (i * h) = i * (g * h) /\ g * (i * m + y) = i * (g * m) + g * y
    <3>1. CASE i = 1
      BY <3>1
    <3>2. CASE i = 2
      BY <3>2
    <3> QED
      BY <3>1, <3>2
  <2>3. e * (i * f) = i * (e * f) /\ e * (i * j + s) = i * (e * j) + e * s
    <3>1. CASE i = 1
      BY <3>1
    <3>2. CASE i = 2
      BY <3>2
    <3> QED
      BY <3>1, <3>2
  <2>4. e * (i * f) <= e * (i * j + s)
    BY <1>11, <1>12, <2>1, <2>2, <2>3
  <2>5. i * f \in Nat /\ i * j + s \in Nat
    OBVIOUS
  <2> QED
    BY <2>4, <2>5, Cancelled
<1>13. u <= v + s /\ v <= u + s
  <2>1. 1 * x <= 1 * z + y /\ 1 * z <= 1 * x + y
    BY <1>7, <1>8
  <2>2. 1 * u <= 1 * v + s
    BY <1>11, <1>12, <2>1
  <2>3. 1 * v <= 1 * u + s
    BY <1>11, <1>12, <2>1
  <2> QED
    BY <2>2, <2>3
<1>14. ASSUME rounding = "nearest_even" PROVE 2 * u <= 2 * v + s /\ 2 * v <= 2 * u + s
  <2>1. 2 * x <= 2 * z + y /\ 2 * z <= 2 * x + y
    BY <1>7, <1>8, <1>14
  <2>2. 2 * u <= 2 * v + s
    BY <1>11, <1>12, <2>1
  <2>3. 2 * v <= 2 * u + s
    BY <1>11, <1>12, <2>1
  <2> QED
    BY <2>2, <2>3
<1>15. ASSUME Clock!Exact(n, r, q) PROVE v = u
  <2>1. z = x
    BY <1>6, <1>8, <1>15
  <2>2. e * v = e * u
    BY <1>11, <2>1
  <2> QED
    BY <2>2, Cancelled
<1>16. NearInstant(n, r, k, q, rounding)
  BY <1>1, <1>10, <1>13, <1>14 DEF NearInstant
<1>17. Clock!Exact(n, r, q) => SameInstant(n, r, k, q)
  BY <1>1, <1>10, <1>15 DEF SameInstant
<1> QED
  BY <1>5, <1>7, <1>16, <1>17

\* Conversions keep the order.
LEMMA RescaledInOrder ==
    ASSUME NEW n \in Nat, NEW m \in Nat, n <= m, NEW r, IsRate(r), NEW q, IsRate(q),
           NEW rounding, IsRounding(rounding, n, r, q), IsRounding(rounding, m, r, q)
    PROVE  Clock!Rescaled(n, r, q, rounding) <= Clock!Rescaled(m, r, q, rounding)
<1>1. PICK b \in Nat, c \in Nat : b = r[2] /\ c = q[1]
  BY DEF IsRate
<1>2. PICK x \in Nat, z \in Nat, y \in Nat \ {0} : x = (n * b) * c /\ z = (m * b) * c /\ y = r[1] * q[2]
  <2>1. (n * b) * c \in Nat /\ (m * b) * c \in Nat /\ r[1] * q[2] \in Nat \ {0}
    BY <1>1, RescaledConverts
  <2> QED
    BY <2>1
<1>3. x <= z
  <2>1. n * b \in Nat /\ m * b \in Nat /\ b * n <= b * m /\ b * n = n * b /\ b * m = m * b
    BY Products
  <2>2. PICK i \in Nat, j \in Nat : i = n * b /\ j = m * b /\ i <= j
    BY <2>1
  <2>3. c * i <= c * j /\ c * i = i * c /\ c * j = j * c
    BY <2>2, Products
  <2> QED
    BY <1>2, <2>2, <2>3
<1>4. /\ Converts(x, y, rounding, Clock!Rescaled(n, r, q, rounding))
      /\ Converts(z, y, rounding, Clock!Rescaled(m, r, q, rounding))
  BY <1>1, <1>2, RescaledConverts
<1> QED
  BY <1>3, <1>4, ConvertsInOrder

\* What is before is no later on the grid.
LEMMA BeforeOnGrid ==
    ASSUME NEW n \in Nat, NEW m \in Nat, NEW r, IsRate(r), NEW q, IsRate(q), Clock!Before(n, r, m, q)
    PROVE  n * Clock!Tick(r) <= m * Clock!Tick(q)
<1>1. PICK a \in Nat \ {0}, b \in Nat \ {0}, c \in Nat \ {0}, d \in Nat \ {0}, t \in Nat, s \in Nat :
        /\ a = r[1] /\ b = r[2] /\ c = q[1] /\ d = q[2]
        /\ t = Clock!Tick(r) /\ s = Clock!Tick(q)
  BY DEF IsRate
<1>2. PICK g \in Nat \ {0} : g = Grid
  BY StudioConstants DEF Clock!ClockConstants
<1>3. t * a = g * b /\ s * c = g * d
  BY <1>1, <1>2 DEF IsRate
<1>4. (n * b) * c < (m * d) * a
  BY <1>1 DEF Clock!Before
<1>5. (a * c) * (n * t) = g * ((n * b) * c)
  BY <1>3, OnTheGrid
<1>6. (a * c) * (m * s) = g * ((a * d) * m)
  BY <1>3, OnTheGrid
<1>7. (a * d) * m = (m * d) * a
  OBVIOUS
<1>8. PICK x \in Nat, y \in Nat : x = (n * b) * c /\ y = (m * d) * a
  <2>1. n * b \in Nat /\ m * d \in Nat
    BY Products
  <2>2. (n * b) * c \in Nat /\ (m * d) * a \in Nat
    BY <2>1, Products
  <2> QED
    BY <2>2
<1>9. PICK u \in Nat, v \in Nat, e \in Nat \ {0} : u = n * t /\ v = m * s /\ e = a * c
  <2>1. n * t \in Nat /\ m * s \in Nat /\ a * c \in Nat /\ a * 0 < a * c
    BY Products
  <2> QED
    BY <2>1
<1>10. e * u = g * x /\ e * v = g * y /\ x < y
  BY <1>4, <1>5, <1>6, <1>7, <1>8, <1>9
<1>11. g * x <= g * y
  <2>1. x <= y
    BY <1>10
  <2> QED
    BY <2>1, Products
<1>12. u <= v
  BY <1>10, <1>11, Cancelled
<1> QED
  BY <1>1, <1>9, <1>12

Near(x, y, s) == x <= y + s /\ y <= x + s

\* Where the ends of a range are, and where they should be.
RangeIs(r, n, m, a, b, s) ==
    /\ r \in Rates /\ n \in Nat /\ m \in Nat /\ n <= m /\ a \in Nat /\ b \in Nat /\ s \in Nat
    /\ n * Clock!Tick(r) \in Nat /\ Near(n * Clock!Tick(r), a, s)
    /\ m * Clock!Tick(r) \in Nat /\ Near(m * Clock!Tick(r), b, s)

ClockInvariant ==
    /\ duration \in Nat /\ RangeIs(rate, rangeStart, Clock!End, lo, hi, slack)

\* A range whose ends are near their instants keeps the invariant.
LEMMA RangeFollows ==
    ASSUME NEW r, NEW n, NEW m, NEW a, NEW b, NEW s, RangeIs(r, n, m, a, b, s),
           rate' = r, rangeStart' = n, duration' = m - n, lo' = a, hi' = b, slack' = s
    PROVE  ClockInvariant'
<1>1. n \in Nat /\ m \in Nat /\ n <= m
  BY DEF RangeIs
<1>2. duration' \in Nat /\ rangeStart' + duration' = m
  BY <1>1
<1>3. (Clock!End)' = m
  BY <1>2 DEF Clock!End
<1>4. RangeIs(rate', rangeStart', (Clock!End)', lo', hi', slack')
  BY <1>3
<1> QED
  BY <1>2, <1>4 DEF ClockInvariant, RangeIs, Clock!Tick

\* What is near what is near is near.
LEMMA NearAdds ==
    ASSUME NEW x \in Nat, NEW y \in Nat, NEW z \in Nat, NEW s \in Nat, NEW t \in Nat,
           Near(x, y, s), Near(z, x, t)
    PROVE  Near(z, y, s + t)
BY DEF Near

\* A rescaled range keeps the invariant.
LEMMA RescaleFollows ==
    ASSUME ClockInvariant, NEW q \in Rates, NEW rounding \in ClockRoundings, Clock!Rescale(q, rounding)
    PROVE  ClockInvariant'
<1>1. PICK n, m : n = rangeStart /\ m = Clock!End
  OBVIOUS
<1>2. PICK r : r = rate
  OBVIOUS
<1>3. /\ r \in Rates /\ n \in Nat /\ m \in Nat /\ n <= m /\ lo \in Nat /\ hi \in Nat /\ slack \in Nat
      /\ Near(n * Clock!Tick(r), lo, slack) /\ Near(m * Clock!Tick(r), hi, slack)
      /\ n * Clock!Tick(r) \in Nat /\ m * Clock!Tick(r) \in Nat
  BY <1>1, <1>2 DEF ClockInvariant, RangeIs
<1>4. IsRate(r) /\ IsRate(q)
  BY <1>3, RatesAre
<1>5. IsRounding(rounding, n, r, q) /\ IsRounding(rounding, m, r, q)
  <2>1. rounding \in {"exact", "floor", "toward_zero", "ceil", "nearest_even"}
    BY StudioConstants DEF Clock!ClockConstants
  <2>2. rounding = "exact" => Clock!Exact(n, r, q) /\ Clock!Exact(m, r, q)
    BY <1>1, <1>2 DEF Clock!Rescale
  <2> QED
    BY <2>1, <2>2 DEF IsRounding
<1>6. PICK k, l : k = Clock!Rescaled(n, r, q, rounding) /\ l = Clock!Rescaled(m, r, q, rounding)
  OBVIOUS
<1>7. /\ k \in Nat /\ NearInstant(n, r, k, q, rounding)
      /\ Clock!Exact(n, r, q) => SameInstant(n, r, k, q)
  BY <1>3, <1>4, <1>5, <1>6, RescaledNear
<1>8. /\ l \in Nat /\ NearInstant(m, r, l, q, rounding)
      /\ Clock!Exact(m, r, q) => SameInstant(m, r, l, q)
  BY <1>3, <1>4, <1>5, <1>6, RescaledNear
<1>9. k <= l
  BY <1>3, <1>4, <1>5, <1>6, RescaledInOrder
<1>10. PICK t \in Nat : t = Clock!Tick(q)
  BY <1>4 DEF IsRate
<1>11. PICK a \in Nat, b \in Nat, c \in Nat, d \in Nat :
         /\ a = n * Clock!Tick(r) /\ b = m * Clock!Tick(r)
         /\ c = k * Clock!Tick(q) /\ d = l * Clock!Tick(q)
  <2>1. k * t \in Nat /\ l * t \in Nat
    BY <1>7, <1>8, Products
  <2> QED
    BY <1>3, <1>10, <2>1
<1>12. /\ rate' = q /\ rangeStart' = k /\ duration' = l - k /\ lo' = lo /\ hi' = hi
       /\ slack' = slack + IF Clock!Exact(n, r, q) /\ Clock!Exact(m, r, q) THEN 0
                           ELSE IF rounding = "nearest_even" THEN Clock!Tick(q) \div 2 ELSE Clock!Tick(q)
  BY <1>1, <1>2, <1>6 DEF Clock!Rescale, Clock!RescaledEnd
<1>13. PICK h : h = Clock!Tick(q) \div 2
  OBVIOUS
<1>14. h \in Nat /\ \E z \in {0, 1} : t = 2 * h + z
  <2>1. t \div 2 \in Nat /\ t % 2 \in 0..1 /\ t = 2 * (t \div 2) + (t % 2)
    BY Division
  <2> QED
    BY <1>10, <1>13, <2>1
<1>15. ASSUME NEW s \in Nat, Near(c, a, s), Near(d, b, s), slack' = slack + s PROVE ClockInvariant'
  <2>1. Near(c, lo, slack + s) /\ Near(d, hi, slack + s)
    BY <1>3, <1>11, <1>15, NearAdds
  <2>2. slack + s \in Nat
    BY <1>3
  <2>3. RangeIs(q, k, l, lo, hi, slack + s)
    BY <1>3, <1>7, <1>8, <1>9, <1>11, <2>1, <2>2 DEF RangeIs
  <2> QED
    BY <1>12, <1>15, <2>3, RangeFollows
<1>16. CASE Clock!Exact(n, r, q) /\ Clock!Exact(m, r, q)
  <2>1. c = a /\ d = b
    BY <1>7, <1>8, <1>11, <1>16 DEF SameInstant
  <2>2. Near(c, a, 0) /\ Near(d, b, 0)
    BY <2>1 DEF Near
  <2>3. slack' = slack + 0
    BY <1>12, <1>16
  <2>4. 0 \in Nat
    OBVIOUS
  <2> QED
    BY <1>15, <2>2, <2>3, <2>4
<1>17. CASE ~(Clock!Exact(n, r, q) /\ Clock!Exact(m, r, q)) /\ rounding = "nearest_even"
  <2>1. 2 * a <= 2 * c + t /\ 2 * c <= 2 * a + t /\ 2 * b <= 2 * d + t /\ 2 * d <= 2 * b + t
    BY <1>7, <1>8, <1>10, <1>11, <1>17 DEF NearInstant
  <2>2. PICK z \in {0, 1} : t = 2 * h + z
    BY <1>14
  <2>3. Near(c, a, h) /\ Near(d, b, h)
    BY <1>14, <2>1, <2>2 DEF Near
  <2>4. slack' = slack + h
    BY <1>12, <1>13, <1>17
  <2> QED
    BY <1>14, <1>15, <2>3, <2>4
<1>18. CASE ~(Clock!Exact(n, r, q) /\ Clock!Exact(m, r, q)) /\ rounding # "nearest_even"
  <2>1. a <= c + t /\ c <= a + t /\ b <= d + t /\ d <= b + t
    BY <1>7, <1>8, <1>10, <1>11 DEF NearInstant
  <2>2. Near(c, a, t) /\ Near(d, b, t)
    BY <2>1 DEF Near
  <2>3. slack' = slack + t
    BY <1>10, <1>12, <1>18
  <2> QED
    BY <1>15, <2>2, <2>3
<1> QED
  BY <1>16, <1>17, <1>18

\* Every instant of two rates is one of what they have in common.
LEMMA CommonIsExact ==
    ASSUME NEW r \in Rates, NEW q \in Rates
    PROVE  /\ IsRate(Clock!CommonRate(r, q))
           /\ \A n \in Nat : Clock!Exact(n, r, Clock!CommonRate(r, q)) /\ Clock!Exact(n, q, Clock!CommonRate(r, q))
<1>1. PICK a \in Nat \ {0}, c \in Nat \ {0}, b \in Nat, d \in Nat : a = r[1] /\ c = q[1] /\ b = r[2] /\ d = q[2]
  BY RatesAre DEF IsRate
<1>2. PICK S : S = {n \in 1..a * c : n % a = 0 /\ n % c = 0}
  OBVIOUS
<1>3. PICK m : m = Clock!Min(S)
  OBVIOUS
<1>4. Clock!CommonRate(r, q) = <<m, 1>>
  BY <1>1, <1>2, <1>3 DEF Clock!CommonRate
<1>5. m \in S
  <2>1. PICK p \in Nat \ {0} : p = a * c
    <3>1. a * c \in Nat /\ a * 0 < a * c
      BY Products
    <3> QED
      BY <3>1
  <2>2. p % a = 0 /\ p % c = 0
    <3>1. ASSUME NEW e \in Nat \ {0}, NEW f \in Nat, p = e * f PROVE p % e = 0
      <4>1. p \div e \in Nat /\ p % e \in 0..e - 1 /\ p = e * (p \div e) + (p % e)
        BY Division
      <4>2. PICK u \in Nat, v \in Nat : u = p \div e /\ v = p % e /\ v < e
        BY <4>1
      <4>3. e * f \in Nat /\ e * f = e * u + v
        BY <3>1, <4>1, <4>2, Products
      <4>4. e * f + 0 <= e * u + v /\ e * u + v <= e * f + 0 /\ 0 < e
        BY <4>3
      <4>5. f < u \/ (f = u /\ 0 <= v)
        BY <4>2, <4>4, QuotientsRise
      <4>6. u < f \/ (u = f /\ v <= 0)
        BY <4>2, <4>4, QuotientsRise
      <4> QED
        BY <4>2, <4>5, <4>6
    <3>2. p = a * c /\ p = c * a
      BY <2>1, Products
    <3> QED
      BY <3>1, <3>2
  <2>3. p \in S
    <3>1. p \in 1..p
      OBVIOUS
    <3>2. S = {n \in 1..p : n % a = 0 /\ n % c = 0}
      BY <1>2, <2>1
    <3> QED
      BY <2>2, <3>1, <3>2
  <2>4. S \subseteq Nat /\ S # {}
    <3>1. S \subseteq 1..a * c
      BY <1>2
    <3>2. 1..a * c = 1..p
      BY <2>1, Zenon
    <3>3. 1..p \subseteq Nat
      OBVIOUS
    <3> QED
      BY <2>3, <3>1, <3>2, <3>3, Zenon
  <2>5. \E x \in S : \A y \in S : x <= y
    BY <2>4, LeastExists
  <2> QED
    BY <1>3, <2>5 DEF Clock!Min
<1>6. PICK e \in Nat, f \in Nat : m \in Nat /\ m = a * e /\ m = c * f
  <2>1. m \in Nat /\ m % a = 0 /\ m % c = 0
    BY <1>2, <1>5
  <2>2. ASSUME NEW g \in Nat \ {0}, m % g = 0 PROVE \E h \in Nat : m = g * h
    <3>1. m \div g \in Nat /\ m = g * (m \div g) + (m % g)
      BY <2>1, Division
    <3>2. PICK h : h = m \div g
      OBVIOUS
    <3>3. h \in Nat /\ m = g * h + 0
      BY <2>2, <3>1, <3>2
    <3>4. g * h \in Nat
      BY <3>3, Products
    <3> QED
      BY <3>3, <3>4
  <2> QED
    BY <2>1, <2>2
<1>7. IsRate(Clock!CommonRate(r, q))
  <2>1. Clock!CommonRate(r, q) \in Rates
    BY StudioConstants DEF Clock!ClockConstants
  <2> QED
    BY <2>1, RatesAre
<1>8. ASSUME NEW i \in Nat, NEW g \in Nat \ {0}, NEW h \in Nat, NEW j \in Nat, m = g * h
      PROVE  ((i * j) * m) % (g * 1) = 0
  <2>1. (i * j) * m = g * ((i * j) * h)
    <3>1. (i * j) * (g * h) = g * ((i * j) * h)
      OBVIOUS
    <3> QED
      BY <1>8, <3>1
  <2>2. PICK x \in Nat, y \in Nat : x = (i * j) * m /\ y = (i * j) * h
    <3>1. i * j \in Nat
      BY Products
    <3>2. (i * j) * m \in Nat /\ (i * j) * h \in Nat
      BY <1>6, <3>1, Products
    <3> QED
      BY <3>2
  <2>3. x = g * y
    BY <2>1, <2>2
  <2>4. x \div g \in Nat /\ x % g \in 0..g - 1 /\ x = g * (x \div g) + (x % g)
    BY Division
  <2>5. PICK u \in Nat, v \in Nat : u = x \div g /\ v = x % g /\ v < g
    BY <2>4
  <2>6. g * y \in Nat /\ g * y = g * u + v
    BY <2>3, <2>4, <2>5, Products
  <2>7. g * y + 0 <= g * u + v /\ g * u + v <= g * y + 0 /\ 0 < g
    BY <2>6
  <2>8. y < u \/ (y = u /\ 0 <= v)
    BY <2>5, <2>7, QuotientsRise
  <2>9. u < y \/ (u = y /\ v <= 0)
    BY <2>5, <2>7, QuotientsRise
  <2>10. v = 0
    BY <2>5, <2>8, <2>9
  <2>11. g * 1 = g
    OBVIOUS
  <2> QED
    BY <2>2, <2>5, <2>10, <2>11
<1>9. <<m, 1>>[1] = m /\ <<m, 1>>[2] = 1
  OBVIOUS
<1>10. ASSUME NEW n \in Nat PROVE Clock!Exact(n, r, <<m, 1>>) /\ Clock!Exact(n, q, <<m, 1>>)
  <2>1. ((n * b) * m) % (a * 1) = 0 /\ ((n * d) * m) % (c * 1) = 0
    BY <1>6, <1>8
  <2> QED
    BY <1>1, <1>9, <2>1 DEF Clock!Exact
<1> QED
  BY <1>4, <1>7, <1>10

\* An exact conversion.
LEMMA SameIs ==
    ASSUME NEW n \in Nat, NEW r, IsRate(r), NEW q, IsRate(q), Clock!Exact(n, r, q)
    PROVE  /\ Clock!Rescaled(n, r, q, "floor") \in Nat
           /\ Clock!Rescaled(n, r, q, "floor") * Clock!Tick(q) = n * Clock!Tick(r)
<1>1. IsRounding("floor", n, r, q)
  BY DEF IsRounding
<1> QED
  BY <1>1, RescaledNear DEF SameInstant

\* The larger and the smaller of two numbers.
LEMMA Largest ==
    ASSUME NEW x \in Nat, NEW y \in Nat
    PROVE  /\ Clock!Max({x, y}) = IF x >= y THEN x ELSE y
           /\ Clock!Min({x, y}) = IF x <= y THEN x ELSE y
<1>1. PICK u : u = IF x >= y THEN x ELSE y
  OBVIOUS
<1>2. u \in {x, y} /\ \A z \in {x, y} : u >= z
  BY <1>1
<1>3. PICK v : v = Clock!Max({x, y})
  OBVIOUS
<1>4. v \in {x, y} /\ \A z \in {x, y} : v >= z
  BY <1>2, <1>3 DEF Clock!Max
<1>5. v = u
  BY <1>2, <1>4
<1>6. PICK w : w = IF x <= y THEN x ELSE y
  OBVIOUS
<1>7. w \in {x, y} /\ \A z \in {x, y} : w <= z
  BY <1>6
<1>8. PICK k : k = Clock!Min({x, y})
  OBVIOUS
<1>9. k \in {x, y} /\ \A z \in {x, y} : k <= z
  BY <1>7, <1>8 DEF Clock!Min
<1>10. k = w
  BY <1>7, <1>9
<1> QED
  BY <1>1, <1>3, <1>5, <1>6, <1>8, <1>10

\* Of two instants the later and the earlier one, exactly and as they are kept.
LEMMA LargestNear ==
    ASSUME NEW k \in Nat, NEW l \in Nat, NEW t \in Nat \ {0}, NEW a \in Nat, NEW b \in Nat, NEW i \in Nat,
           NEW s \in Nat, k * t = a, l * t = b, Near(a, i, s)
    PROVE  /\ Clock!Max({k, l}) \in Nat /\ Clock!Max({k, l}) * t \in Nat /\ Clock!Max({i, b}) \in Nat
           /\ Near(Clock!Max({k, l}) * t, Clock!Max({i, b}), s)
           /\ Clock!Min({k, l}) \in Nat /\ Clock!Min({k, l}) * t \in Nat /\ Clock!Min({i, b}) \in Nat
           /\ Near(Clock!Min({k, l}) * t, Clock!Min({i, b}), s)
<1>1. PICK x, y, u, v : x = Clock!Max({k, l}) /\ y = Clock!Max({i, b}) /\ u = Clock!Min({k, l}) /\ v = Clock!Min({i, b})
  OBVIOUS
<1>2. /\ x = IF k >= l THEN k ELSE l
      /\ y = IF i >= b THEN i ELSE b
      /\ u = IF k <= l THEN k ELSE l
      /\ v = IF i <= b THEN i ELSE b
  BY <1>1, Largest
<1>3. (k <= l => a <= b) /\ (l <= k => b <= a)
  <2>1. (k <= l => t * k <= t * l) /\ (l <= k => t * l <= t * k) /\ k * t = t * k /\ l * t = t * l
    BY Products
  <2> QED
    BY <2>1
<1>4. x \in Nat /\ y \in Nat /\ u \in Nat /\ v \in Nat
  BY <1>2
<1>5. PICK c \in Nat, d \in Nat : c = x * t /\ d = u * t
  <2>1. x * t \in Nat /\ u * t \in Nat
    BY <1>4, Products
  <2> QED
    BY <2>1
<1>6. c = (IF k >= l THEN a ELSE b) /\ d = (IF k <= l THEN a ELSE b)
  <2>1. CASE k <= l
    BY <1>2, <1>5, <2>1
  <2>2. CASE ~(k <= l)
    BY <1>2, <1>5, <2>2
  <2> QED
    BY <2>1, <2>2
<1>7. a <= i + s /\ i <= a + s
  BY DEF Near
<1>8. c = IF a >= b THEN a ELSE b
  BY <1>3, <1>6
<1>9. d = IF a <= b THEN a ELSE b
  BY <1>3, <1>6
<1>10. c <= y + s /\ y <= c + s
  BY <1>2, <1>7, <1>8
<1>11. d <= v + s /\ v <= d + s
  BY <1>2, <1>7, <1>9
<1> QED
  BY <1>1, <1>4, <1>5, <1>10, <1>11 DEF Near

\* The common part of two ranges keeps the invariant.
LEMMA IntersectFollows ==
    ASSUME ClockInvariant, NEW q \in Rates, NEW from \in 0..MaxTicks, NEW to \in 0..MaxTicks,
           Clock!Intersect(from, to, q)
    PROVE  ClockInvariant'
<1>1. PICK n, m, r : n = rangeStart /\ m = Clock!End /\ r = rate
  OBVIOUS
<1>2. /\ r \in Rates /\ n \in Nat /\ m \in Nat /\ n <= m /\ lo \in Nat /\ hi \in Nat /\ slack \in Nat
      /\ Near(n * Clock!Tick(r), lo, slack) /\ Near(m * Clock!Tick(r), hi, slack)
      /\ n * Clock!Tick(r) \in Nat /\ m * Clock!Tick(r) \in Nat
  BY <1>1 DEF ClockInvariant, RangeIs
<1>3. from \in Nat /\ to \in Nat
  BY StudioConstants DEF Clock!ClockConstants
<1>4. PICK p : p = Clock!CommonRate(r, q)
  OBVIOUS
<1>5. /\ IsRate(r) /\ IsRate(q) /\ IsRate(p) /\ p \in Rates
      /\ \A i \in Nat : Clock!Exact(i, r, p) /\ Clock!Exact(i, q, p)
  <2>1. IsRate(r) /\ IsRate(q)
    BY <1>2, RatesAre
  <2>2. IsRate(p) /\ \A i \in Nat : Clock!Exact(i, r, p) /\ Clock!Exact(i, q, p)
    BY <1>2, <1>4, CommonIsExact
  <2> QED
    BY <2>1, <2>2 DEF IsRate
<1>6. PICK k, l, i, j : /\ k = Clock!Rescaled(n, r, p, "floor") /\ l = Clock!Rescaled(m, r, p, "floor")
                        /\ i = Clock!Rescaled(from, q, p, "floor") /\ j = Clock!Rescaled(to, q, p, "floor")
  OBVIOUS
<1>7. PICK t \in Nat \ {0}, a \in Nat, b \in Nat : t = Clock!Tick(p) /\ a = n * Clock!Tick(r) /\ b = m * Clock!Tick(r)
  BY <1>2, <1>5 DEF IsRate
<1>8. PICK c \in Nat, d \in Nat : c = from * Clock!Tick(q) /\ d = to * Clock!Tick(q)
  <2>1. PICK s \in Nat : s = Clock!Tick(q)
    BY <1>5 DEF IsRate
  <2>2. from * s \in Nat /\ to * s \in Nat
    BY <1>3, Products
  <2> QED
    BY <2>1, <2>2
<1>9. k \in Nat /\ k * t = a
  BY <1>2, <1>5, <1>6, <1>7, SameIs
<1>10. l \in Nat /\ l * t = b
  BY <1>2, <1>5, <1>6, <1>7, SameIs
<1>11. i \in Nat /\ i * t = c
  BY <1>3, <1>5, <1>6, <1>7, <1>8, SameIs
<1>12. j \in Nat /\ j * t = d
  BY <1>3, <1>5, <1>6, <1>7, <1>8, SameIs
<1>13. from < to /\ Clock!Before(n, r, to, q) /\ Clock!Before(from, q, m, r)
  BY <1>1 DEF Clock!Intersect, Clock!Overlaps
<1>14. a <= d /\ c <= b
  <2>1. n * Clock!Tick(r) <= to * Clock!Tick(q)
    BY <1>2, <1>3, <1>5, <1>13, BeforeOnGrid
  <2>2. from * Clock!Tick(q) <= m * Clock!Tick(r)
    BY <1>2, <1>3, <1>5, <1>13, BeforeOnGrid
  <2> QED
    BY <1>7, <1>8, <2>1, <2>2
<1>15. k <= l /\ i <= j /\ k <= j /\ i <= l
  <2>1. ASSUME NEW x \in Nat, NEW y \in Nat, x * t <= y * t PROVE x <= y
    <3>1. t * x = x * t /\ t * y = y * t
      BY Products
    <3>2. t * x <= t * y
      BY <2>1, <3>1
    <3> QED
      BY <3>2, Cancelled
  <2>2. a <= b /\ c <= d
    <3>1. PICK s \in Nat, u \in Nat : s = Clock!Tick(r) /\ u = Clock!Tick(q)
      BY <1>5 DEF IsRate
    <3>2. s * n <= s * m /\ s * n = n * s /\ s * m = m * s
      BY <1>2, Products
    <3>3. from <= to
      BY <1>3, <1>13
    <3>4. u * from <= u * to /\ u * from = from * u /\ u * to = to * u
      BY <1>3, <3>3, Products
    <3> QED
      BY <1>7, <1>8, <3>1, <3>2, <3>4
  <2> QED
    BY <1>9, <1>10, <1>11, <1>12, <1>14, <2>1, <2>2
<1>16. PICK x, y : x = Clock!Max({k, i}) /\ y = Clock!Min({l, j})
  OBVIOUS
<1>17. x <= y /\ x \in Nat /\ y \in Nat
  <2>1. x = (IF k >= i THEN k ELSE i) /\ y = (IF l <= j THEN l ELSE j)
    BY <1>9, <1>10, <1>11, <1>12, <1>16, Largest
  <2> QED
    BY <1>9, <1>10, <1>11, <1>12, <1>15, <2>1
<1>18. /\ x * t \in Nat /\ Clock!Max({lo, c}) \in Nat
       /\ Near(x * t, Clock!Max({lo, c}), slack)
  <2>1. k \in Nat /\ i \in Nat /\ k * t = a /\ i * t = c /\ lo \in Nat /\ slack \in Nat /\ Near(a, lo, slack)
    BY <1>2, <1>7, <1>9, <1>11
  <2>2. /\ Clock!Max({k, i}) * t \in Nat /\ Clock!Max({lo, c}) \in Nat
        /\ Near(Clock!Max({k, i}) * t, Clock!Max({lo, c}), slack)
    BY <2>1, LargestNear
  <2> QED
    BY <1>16, <2>2
<1>19. /\ y * t \in Nat /\ Clock!Min({hi, d}) \in Nat
       /\ Near(y * t, Clock!Min({hi, d}), slack)
  <2>1. l \in Nat /\ j \in Nat /\ l * t = b /\ j * t = d /\ hi \in Nat /\ slack \in Nat /\ Near(b, hi, slack)
    BY <1>2, <1>7, <1>10, <1>12
  <2>2. /\ Clock!Min({l, j}) * t \in Nat /\ Clock!Min({hi, d}) \in Nat
        /\ Near(Clock!Min({l, j}) * t, Clock!Min({hi, d}), slack)
    BY <2>1, LargestNear
  <2> QED
    BY <1>16, <2>2
<1>20. /\ rate' = p /\ rangeStart' = x /\ duration' = y - x
       /\ lo' = Clock!Max({lo, c}) /\ hi' = Clock!Min({hi, d}) /\ slack' = slack
  BY <1>1, <1>4, <1>6, <1>8, <1>16 DEF Clock!Intersect
<1>21. RangeIs(p, x, y, Clock!Max({lo, c}), Clock!Min({hi, d}), slack)
  BY <1>2, <1>5, <1>7, <1>17, <1>18, <1>19 DEF RangeIs
<1> QED
  BY <1>20, <1>21, RangeFollows

\* Either part of a range keeps the invariant.
LEMMA SplitFollows ==
    ASSUME ClockInvariant, NEW q \in Rates, NEW position \in 0..MaxTicks, NEW first \in BOOLEAN,
           Clock!SplitAt(position, q, first)
    PROVE  ClockInvariant'
<1>1. PICK n, m, r : n = rangeStart /\ m = Clock!End /\ r = rate
  OBVIOUS
<1>2. /\ r \in Rates /\ n \in Nat /\ m \in Nat /\ n <= m /\ lo \in Nat /\ hi \in Nat /\ slack \in Nat
      /\ Near(n * Clock!Tick(r), lo, slack) /\ Near(m * Clock!Tick(r), hi, slack)
      /\ n * Clock!Tick(r) \in Nat /\ m * Clock!Tick(r) \in Nat /\ m = n + duration /\ duration \in Nat
  BY <1>1 DEF ClockInvariant, RangeIs, Clock!End
<1>3. position \in Nat
  BY StudioConstants DEF Clock!ClockConstants
<1>4. IsRate(r) /\ IsRate(q)
  BY <1>2, RatesAre
<1>5. PICK k : k = Clock!Rescaled(position, q, r, "floor")
  OBVIOUS
<1>6. Clock!Exact(position, q, r) /\ Clock!Before(n, r, position, q) /\ Clock!Before(position, q, m, r)
  BY <1>1 DEF Clock!SplitAt
<1>7. PICK t \in Nat \ {0}, a \in Nat, b \in Nat : t = Clock!Tick(r) /\ a = n * Clock!Tick(r) /\ b = m * Clock!Tick(r)
  BY <1>2, <1>4 DEF IsRate
<1>8. PICK c \in Nat : c = position * Clock!Tick(q)
  <2>1. PICK s \in Nat : s = Clock!Tick(q)
    BY <1>4 DEF IsRate
  <2>2. position * s \in Nat
    BY <1>3, Products
  <2> QED
    BY <2>1, <2>2
<1>9. k \in Nat /\ k * t = c
  BY <1>3, <1>4, <1>5, <1>6, <1>7, <1>8, SameIs
<1>10. a <= c /\ c <= b
  <2>1. n * Clock!Tick(r) <= position * Clock!Tick(q)
    BY <1>2, <1>3, <1>4, <1>6, BeforeOnGrid
  <2>2. position * Clock!Tick(q) <= m * Clock!Tick(r)
    BY <1>2, <1>3, <1>4, <1>6, BeforeOnGrid
  <2> QED
    BY <1>7, <1>8, <2>1, <2>2
<1>11. n <= k /\ k <= m
  <2>1. ASSUME NEW x \in Nat, NEW y \in Nat, x * t <= y * t PROVE x <= y
    <3>1. t * x = x * t /\ t * y = y * t
      BY Products
    <3>2. t * x <= t * y
      BY <2>1, <3>1
    <3> QED
      BY <3>2, Cancelled
  <2>2. n * t = a /\ m * t = b
    BY <1>7
  <2> QED
    BY <1>2, <1>9, <1>10, <2>1, <2>2
<1>12. k * Clock!Tick(r) \in Nat /\ Near(k * Clock!Tick(r), c, slack)
  BY <1>2, <1>7, <1>8, <1>9 DEF Near
<1>13. rate' = r /\ slack' = slack
  BY <1>1 DEF Clock!SplitAt
<1>14. CASE first
  <2>1. rangeStart' = n /\ duration' = k - n /\ lo' = lo /\ hi' = c
    BY <1>1, <1>5, <1>8, <1>14 DEF Clock!SplitAt
  <2>2. RangeIs(r, n, k, lo, c, slack)
    BY <1>2, <1>8, <1>9, <1>11, <1>12 DEF RangeIs
  <2> QED
    BY <1>13, <2>1, <2>2, RangeFollows
<1>15. CASE ~first
  <2>1. rangeStart' = k /\ duration' = m - k /\ lo' = c /\ hi' = hi
    BY <1>1, <1>5, <1>8, <1>15 DEF Clock!SplitAt
  <2>2. RangeIs(r, k, m, c, hi, slack)
    BY <1>2, <1>8, <1>9, <1>11, <1>12 DEF RangeIs
  <2> QED
    BY <1>13, <2>1, <2>2, RangeFollows
<1> QED
  BY <1>14, <1>15

\* Every operation on a range keeps the invariant.
LEMMA ClockStep == ClockInvariant /\ [Clock!Next]_clockVars => ClockInvariant'
<1> SUFFICES ASSUME ClockInvariant, [Clock!Next]_clockVars PROVE ClockInvariant'
  OBVIOUS
<1>1. CASE Clock!Next
  <2>1. PICK q \in Rates :
          \/ \E rounding \in ClockRoundings : Clock!Rescale(q, rounding)
          \/ \E a, b \in 0..MaxTicks : Clock!Intersect(a, b, q)
          \/ \E position \in 0..MaxTicks, first \in BOOLEAN : Clock!SplitAt(position, q, first)
    BY <1>1 DEF Clock!Next
  <2> QED
    BY <2>1, RescaleFollows, IntersectFollows, SplitFollows
<1>2. CASE UNCHANGED clockVars
  BY <1>2 DEF clockVars, ClockInvariant, RangeIs, Clock!Tick, Clock!End
<1> QED
  BY <1>1, <1>2

\* A range begins at its instants.
LEMMA ClockInit == Clock!Init => ClockInvariant
<1> SUFFICES ASSUME Clock!Init PROVE ClockInvariant
  OBVIOUS
<1>1. PICK a \in 0..MaxTicks, b \in 0..MaxTicks : a <= b /\ rangeStart = a /\ duration = b - a
  BY DEF Clock!Init
<1>2. a \in Nat /\ b \in Nat
  BY StudioConstants DEF Clock!ClockConstants
<1>3. duration \in Nat /\ Clock!End = b
  BY <1>1, <1>2 DEF Clock!End
<1>4. /\ rate \in Rates /\ lo = a * Clock!Tick(rate) /\ hi = b * Clock!Tick(rate) /\ slack = 0
  BY <1>1, <1>3 DEF Clock!Init
<1>5. PICK t \in Nat : t = Clock!Tick(rate)
  BY <1>4, RatesAre DEF IsRate
<1>6. a * t \in Nat /\ b * t \in Nat
  BY <1>2, Products
<1>7. Near(lo, lo, 0) /\ Near(hi, hi, 0) /\ lo \in Nat /\ hi \in Nat /\ slack \in Nat
  BY <1>4, <1>5, <1>6 DEF Near
<1>8. RangeIs(rate, a, b, lo, hi, slack)
  BY <1>1, <1>2, <1>4, <1>7 DEF RangeIs
<1> QED
  BY <1>1, <1>3, <1>8 DEF ClockInvariant

\* Whatever is done to a range, its ends are off by its conversions only.
LEMMA ClockKept == ClockInvariant => Clock!ClockKeepsInstants /\ Clock!TypeOK
<1> SUFFICES ASSUME ClockInvariant PROVE Clock!ClockKeepsInstants /\ Clock!TypeOK
  OBVIOUS
<1>1. /\ rate \in Rates /\ rangeStart \in Nat /\ duration \in Nat
      /\ lo \in Nat /\ hi \in Nat /\ slack \in Nat
  BY DEF ClockInvariant, RangeIs
<1>2. PICK a \in Nat : a = rangeStart * Clock!Tick(rate) /\ Near(a, lo, slack)
  BY DEF ClockInvariant, RangeIs
<1>3. PICK b \in Nat : b = Clock!End * Clock!Tick(rate) /\ Near(b, hi, slack)
  BY DEF ClockInvariant, RangeIs
<1>4. Clock!Apart(a, lo) <= slack /\ Clock!Apart(b, hi) <= slack
  BY <1>1, <1>2, <1>3 DEF Near, Clock!Apart
<1> QED
  BY <1>1, <1>2, <1>3, <1>4 DEF Clock!ClockKeepsInstants, Clock!TypeOK

-----------------------------------------------------------------------------
(* Of a source and an edit.                                                *)

\* The invariant of the service that a behaviour is about.
AccountInvariant ==
    /\ service = "speech" => SpeechInvariant
    /\ service = "subtitles" => SubtitleInvariant
    /\ service = "batch" => BatchInvariant
    /\ service = "faces" => FacesInvariant
    /\ service = "clock" => ClockInvariant
    /\ service = "clips" => ClipsInvariant
    /\ service = "analysis" => AnalysisInvariant

\* It holds in the beginning, whatever service it is.
LEMMA AccountInit == StudioInit => AccountInvariant
BY SpeechSteps, SpeechInit, SubtitleSteps, SubtitleInit, BatchRun, BatchInit, FacesRun, FacesInit,
   ClockSteps, ClockInit, ClipSteps, ClipsInit, AnalysisSteps, AnalysisInit
DEF AccountInvariant

\* Every step of the studio keeps it.
LEMMA AccountStep == AccountInvariant /\ [StudioNext]_studioVars => AccountInvariant'
<1> SUFFICES ASSUME AccountInvariant, [StudioNext]_studioVars PROVE AccountInvariant'
  OBVIOUS
<1>1. service' = service
  BY SpeechSteps
<1>2. service = "speech" => SpeechInvariant'
  BY SpeechSteps, SpeechStep DEF AccountInvariant
<1>3. service = "subtitles" => SubtitleInvariant'
  BY SubtitleSteps, SubtitleStep DEF AccountInvariant
<1>4. service = "batch" => BatchInvariant'
  BY BatchRun, BatchStep DEF AccountInvariant
<1>5. service = "faces" => FacesInvariant'
  BY FacesRun, FacesStep DEF AccountInvariant
<1>6. service = "clock" => ClockInvariant'
  BY ClockSteps, ClockStep DEF AccountInvariant
<1>7. service = "clips" => ClipsInvariant'
  BY ClipSteps, ClipsStep DEF AccountInvariant
<1>8. service = "analysis" => AnalysisInvariant'
  BY AnalysisSteps, AnalysisStep DEF AccountInvariant
<1> QED
  BY <1>1, <1>2, <1>3, <1>4, <1>5, <1>6, <1>7, <1>8 DEF AccountInvariant

\* No sample, word, cue, line, face, instant, clip or progress gets lost on its
\* way, comes twice where it may not, or ends up elsewhere.
THEOREM SourceIsKept == StudioSpec => []SourceIsAccountedFor
<1>1. AccountInvariant => SourceIsAccountedFor
  BY SpeechKept, SubtitleKept, BatchKept, FacesKept, ClockKept, ClipsKept, AnalysisKept
  DEF AccountInvariant, SourceIsAccountedFor
<1> QED
  BY <1>1, AccountInit, AccountStep, PTL DEF StudioSpec

===============================================================================
