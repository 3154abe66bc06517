------------------------ MODULE InterpolationProofs ------------------------
(***************************************************************************)
(* Proofs about interpolate_points: what becomes of the points of every    *)
(* effect on the way to the keyframes of its sequence.                     *)
(***************************************************************************)
EXTENDS TranslateProofs, WellFoundedInduction

-----------------------------------------------------------------------------
(* Induction, and what FlattenSeq returns. *)

(* A set of numbers up to n with 0 and the successors of its members has   *)
(* all of them.                                                            *)
LEMMA UpTo ==
    ASSUME NEW n \in Nat, NEW S,
           0 \in S, \A m \in 0 .. n - 1 : m \in S => m + 1 \in S
    PROVE  \A m \in 0 .. n : m \in S
<1> DEFINE T == {m \in 0 .. n : m \notin S}
<1> SUFFICES ASSUME T # {} PROVE FALSE
  OBVIOUS
<1>1. T \subseteq Nat
  OBVIOUS
<1>2. PICK k \in T : \A l \in T : <<l, k>> \notin OpToRel(<, Nat)
  <2> HIDE DEF T
  <2> QED
    BY <1>1, NatLessThanWellFounded, WFMin
<1>3. k # 0 /\ k - 1 \in 0 .. n - 1
  OBVIOUS
<1>4. k - 1 \notin T
  <2>1. k - 1 < k /\ k - 1 \in Nat /\ k \in Nat
    BY <1>3
  <2> QED
    BY <1>2, <2>1 DEF OpToRel
<1> QED
  BY <1>3, <1>4

(* FlattenSeq is computed by a function that appends one sequence at a     *)
(* time; f is it for the first m.                                          *)
Flattens(f, m, seqs) ==
    f = [i \in 1 .. m |-> IF i = 1 THEN seqs[i] ELSE f[i - 1] \o seqs[i]]

LEMMA FlattensNone ==
    ASSUME NEW S, NEW seqs
    PROVE  \E f \in [1 .. 0 -> S] : Flattens(f, 0, seqs)
<1> DEFINE f == [i \in 1 .. 0 |-> i]
<1>1. \A i \in 1 .. 0 : FALSE
  OBVIOUS
<1>2. f \in [1 .. 0 -> S]
  BY <1>1
<1>3. Flattens(f, 0, seqs)
  BY <1>1 DEF Flattens
<1> QED
  BY <1>2, <1>3

LEMMA FlattensOneMore ==
    ASSUME NEW S, NEW seqs, NEW m \in Nat,
           \A i \in 1 .. m + 1 : seqs[i] \in Seq(S),
           NEW f \in [1 .. m -> Seq(S)], Flattens(f, m, seqs)
    PROVE  \E g \in [1 .. m + 1 -> Seq(S)] : Flattens(g, m + 1, seqs)
<1> DEFINE new == IF m = 0 THEN seqs[1] ELSE f[m] \o seqs[m + 1]
           g   == [i \in 1 .. m + 1 |-> IF i = m + 1 THEN new ELSE f[i]]
<1>1. new \in Seq(S)
  <2>1. CASE m = 0
    BY <2>1
  <2>2. CASE m # 0
    <3>1. f[m] \in Seq(S) /\ seqs[m + 1] \in Seq(S)
      BY <2>2
    <3> QED
      BY <2>2, <3>1
  <2> QED
    BY <2>1, <2>2
<1>2. \A i \in 1 .. m + 1 : i # m + 1 => i \in 1 .. m
  OBVIOUS
<1>3. /\ g \in [1 .. m + 1 -> Seq(S)]
      /\ g[m + 1] = new
      /\ \A i \in 1 .. m : g[i] = f[i]
  <2> HIDE DEF new
  <2>1. m + 1 \in 1 .. m + 1 /\ \A i \in 1 .. m : i \in 1 .. m + 1 /\ i # m + 1
    OBVIOUS
  <2> QED
    BY <1>1, <1>2, <2>1
<1> HIDE DEF g
<1>4. \A i \in 1 .. m + 1 : g[i] = IF i = 1 THEN seqs[i] ELSE g[i - 1] \o seqs[i]
  <2> TAKE i \in 1 .. m + 1
  <2>1. CASE i = m + 1 /\ m = 0
    BY <1>3, <2>1
  <2>2. CASE i = m + 1 /\ m # 0
    <3>1. i - 1 = m /\ m \in 1 .. m /\ i # 1
      BY <2>2
    <3> QED
      BY <1>3, <2>2, <3>1
  <2>3. CASE i # m + 1
    <3>1. i \in 1 .. m /\ (i # 1 => i - 1 \in 1 .. m)
      BY <2>3
    <3>2. f[i] = IF i = 1 THEN seqs[i] ELSE f[i - 1] \o seqs[i]
      BY <3>1 DEF Flattens
    <3> QED
      BY <1>3, <3>1, <3>2
  <2> QED
    BY <2>1, <2>2, <2>3
<1>5. Flattens(g, m + 1, seqs)
  BY <1>3, <1>4 DEF Flattens
<1> QED
  BY <1>3, <1>5

LEMMA Flattened ==
    ASSUME NEW S, NEW seqs \in Seq(Seq(S)), seqs # <<>>
    PROVE  \E f \in [1 .. Len(seqs) -> Seq(S)] :
               /\ FlattenSeq(seqs) = f[Len(seqs)]
               /\ f[1] = seqs[1]
               /\ \A i \in 2 .. Len(seqs) : f[i] = f[i - 1] \o seqs[i]
<1> DEFINE n == Len(seqs)
           A == {m \in 0 .. n : \E f \in [1 .. m -> Seq(S)] : Flattens(f, m, seqs)}
<1>1. n \in Nat \ {0} /\ \A i \in 1 .. n : seqs[i] \in Seq(S)
  BY ElementOfSeq
<1>2. 0 \in A
  BY <1>1, FlattensNone
<1>3. ASSUME NEW m \in 0 .. n - 1, m \in A PROVE m + 1 \in A
  <2>1. PICK f \in [1 .. m -> Seq(S)] : Flattens(f, m, seqs)
    BY <1>3
  <2>2. m \in Nat /\ m + 1 \in 0 .. n /\ \A i \in 1 .. m + 1 : seqs[i] \in Seq(S)
    BY <1>1
  <2>3. \E g \in [1 .. m + 1 -> Seq(S)] : Flattens(g, m + 1, seqs)
    BY <2>1, <2>2, FlattensOneMore
  <2> QED
    BY <2>2, <2>3
<1>4. \A m \in 0 .. n : m \in A
  <2> HIDE DEF A, n
  <2> QED
    BY <1>1, <1>2, <1>3, UpTo
<1>5. PICK h \in [1 .. n -> Seq(S)] : Flattens(h, n, seqs)
  BY SMTT(40), <1>1, <1>4
<1> DEFINE flatten == CHOOSE f : f = [i \in 1 .. n |-> IF i = 1 THEN seqs[i] ELSE f[i - 1] \o seqs[i]]
<1>6. flatten = [i \in 1 .. n |-> IF i = 1 THEN seqs[i] ELSE flatten[i - 1] \o seqs[i]]
  BY <1>5 DEF Flattens
<1>7. FlattenSeq(seqs) = flatten[n]
  BY <1>1 DEF FlattenSeq
<1> HIDE DEF flatten, A
<1>8. flatten[1] = seqs[1] /\ \A i \in 2 .. n : flatten[i] = flatten[i - 1] \o seqs[i]
  <2>1. \A i \in 1 .. n : flatten[i] = IF i = 1 THEN seqs[i] ELSE flatten[i - 1] \o seqs[i]
    BY <1>6
  <2> HIDE DEF n
  <2>2. 1 \in 1 .. n /\ \A i \in 2 .. n : i \in 1 .. n /\ i # 1
    BY <1>1
  <2>3. ASSUME NEW i \in 2 .. n PROVE flatten[i] = flatten[i - 1] \o seqs[i]
    BY <2>1, <2>2
  <2> QED
    BY <2>1, <2>2, <2>3
<1> DEFINE B == {m \in 0 .. n : m = 0 \/ flatten[m] \in Seq(S)}
<1>9. \A m \in 0 .. n : m \in B
  <2>1. ASSUME NEW m \in 0 .. n - 1, m \in B PROVE m + 1 \in B
    <3> HIDE DEF n
    <3>1. m + 1 \in 1 .. n /\ m + 1 \in 0 .. n
      BY <1>1
    <3>2. CASE m = 0
      BY <1>1, <1>8, <3>1, <3>2
    <3>3. CASE m # 0
      <4>1. flatten[m] \in Seq(S) /\ seqs[m + 1] \in Seq(S) /\ m + 1 \in 2 .. n /\ (m + 1) - 1 = m
        BY <1>1, <2>1, <3>1, <3>3
      <4>2. flatten[m + 1] = flatten[m] \o seqs[m + 1]
        BY <1>8, <4>1
      <4>3. flatten[m] \o seqs[m + 1] \in Seq(S)
        BY <4>1
      <4> QED
        BY <3>1, <4>2, <4>3
    <3> QED
      BY <3>2, <3>3
  <2>2. 0 \in B
    BY <1>1
  <2> HIDE DEF B, n
  <2> QED
    BY <1>1, <2>1, <2>2, UpTo
<1>10. flatten \in [1 .. n -> Seq(S)]
  <2>1. \A i \in 1 .. n : flatten[i] \in Seq(S)
    BY <1>9
  <2>2. flatten = [i \in 1 .. n |-> flatten[i]]
    <3> HIDE DEF n
    <3> QED
      BY <1>6
  <2> QED
    BY <2>1, <2>2
<1> QED
  BY <1>7, <1>8, <1>10

-----------------------------------------------------------------------------
(* Two points and what is put between them. *)

GapsWithin(points, step) ==
    \A i \in 2 .. Len(points) : points[i].dt_ms - points[i - 1].dt_ms \in 0 .. step

Filled(p, q) == Between(p, q) \o <<q>>

(* How many steps lie strictly within a span. *)
Steps(span) == IF span > 0 THEN (span - 1) \div STEP_MS ELSE 0

LEMMA StepsWithin ==
    ASSUME NEW span \in Nat
    PROVE  /\ Steps(span) \in Nat
           /\ \A k \in 1 .. Steps(span) : k * STEP_MS \in Nat /\ k * STEP_MS < span
           /\ span - Steps(span) * STEP_MS \in 0 .. STEP_MS
           /\ span <= STEP_MS => Steps(span) = 0
<1> DEFINE s == STEP_MS
           m == Steps(span)
<1>1. s \in Nat \ {0}
  BY TranslateAssumption
<1>2. CASE span = 0
  BY <1>1, <1>2 DEF Steps
<1>3. CASE span # 0
  <2>1. m = (span - 1) \div s
    BY <1>3 DEF Steps
  <2> HIDE DEF m
  <2>2. m \in Nat /\ m * s <= span - 1 /\ span - 1 < m * s + s
    BY <1>1, <1>3, <2>1
  <2>3. \A k \in 1 .. m : k * s \in Nat /\ k * s <= m * s
    BY <1>1, <2>2
  <2>4. span <= s => m = 0
    BY <1>1, <1>3, <2>1
  <2>5. m * s \in Nat
    BY <1>1, <2>2
  <2> QED
    BY <1>1, <1>3, <2>2, <2>3, <2>4, <2>5 DEF m
<1> QED
  BY <1>2, <1>3

LEMMA BetweenPoints ==
    ASSUME NEW p \in HapticPoints, NEW q \in HapticPoints, p.dt_ms <= q.dt_ms
    PROVE  LET m == Steps(q.dt_ms - p.dt_ms)
           IN  /\ Between(p, q) \in Seq(HapticPoints)
               /\ Len(Between(p, q)) = m
               /\ \A k \in 1 .. m : Between(p, q)[k].dt_ms = p.dt_ms + k * STEP_MS
<1> DEFINE span == q.dt_ms - p.dt_ms
           m    == Steps(span)
           v(k) == p.intensity + ((q.intensity - p.intensity) * (k * STEP_MS)) \div span
<1>1. /\ p.dt_ms \in Nat /\ q.dt_ms \in Nat /\ span \in Nat
      /\ p.intensity \in 0 .. FULL /\ q.intensity \in 0 .. FULL
  BY DEF HapticPoints
<1>2. p.intensity \in Int /\ q.intensity \in Int /\ FULL \in Nat /\ STEP_MS \in Nat
  BY <1>1, TranslateAssumption
<1>3. m \in Nat /\ \A k \in 1 .. m : k * STEP_MS \in Nat /\ k * STEP_MS < span
  BY <1>1, StepsWithin
<1>4. ASSUME NEW k \in 1 .. m PROVE v(k) \in 0 .. FULL
  <2>1. k * STEP_MS \in Nat /\ k * STEP_MS <= span /\ span \in Nat \ {0}
    BY <1>1, <1>3
  <2>2. /\ p.intensity <= q.intensity => v(k) \in p.intensity .. q.intensity
        /\ q.intensity <= p.intensity => v(k) \in q.intensity .. p.intensity
    <3> HIDE DEF span, m
    <3> QED
      BY <1>2, <2>1, PartOfDifference
  <2> HIDE DEF v
  <2> QED
    BY <1>1, <1>2, <2>2
<1>5. Between(p, q) = [k \in 1 .. m |-> HapticPoint(p.dt_ms + k * STEP_MS, v(k))]
  <2>1. \A k \in 1 .. m : (q.intensity - p.intensity) * k * STEP_MS
                              = (q.intensity - p.intensity) * (k * STEP_MS)
    <3> TAKE k \in 1 .. m
    <3>1. k \in Int /\ q.intensity - p.intensity \in Int
      BY <1>2, <1>3
    <3> QED
      BY <1>2, <3>1
  <2> QED
    BY <2>1 DEF Between, Steps
<1>6. ASSUME NEW k \in 1 .. m
      PROVE  /\ HapticPoint(p.dt_ms + k * STEP_MS, v(k)) \in HapticPoints
             /\ HapticPoint(p.dt_ms + k * STEP_MS, v(k)).dt_ms = p.dt_ms + k * STEP_MS
  <2>1. p.dt_ms + k * STEP_MS \in Nat
    BY <1>1, <1>3
  <2> HIDE DEF v, m
  <2> QED
    BY <1>4, <2>1, PointInPoints
<1> HIDE DEF v, m
<1>7. Between(p, q) \in [1 .. m -> HapticPoints]
  BY <1>5, <1>6
<1>8. Between(p, q) \in Seq(HapticPoints) /\ Len(Between(p, q)) = m
  BY <1>3, <1>7
<1> QED
  BY <1>5, <1>6, <1>8 DEF m

(* From p to q no step is longer than STEP_MS, and all but the last are as long. *)
LEMMA FilledGaps ==
    ASSUME NEW p \in HapticPoints, NEW q \in HapticPoints, p.dt_ms <= q.dt_ms
    PROVE  LET s == Filled(p, q)
               m == Steps(q.dt_ms - p.dt_ms)
           IN  /\ s \in Seq(HapticPoints)
               /\ Len(s) = m + 1 /\ m \in Nat
               /\ s[m + 1] = q
               /\ \A i \in 1 .. m : s[i].dt_ms = p.dt_ms + i * STEP_MS
               /\ s[1].dt_ms - p.dt_ms \in 0 .. STEP_MS
               /\ GapsWithin(s, STEP_MS)
<1> DEFINE b == Between(p, q)
           s == Filled(p, q)
           m == Steps(q.dt_ms - p.dt_ms)
<1>1. p.dt_ms \in Nat /\ q.dt_ms \in Nat /\ STEP_MS \in Nat \ {0} /\ q.dt_ms - p.dt_ms \in Nat
  BY TranslateAssumption DEF HapticPoints
<1>2. b \in Seq(HapticPoints) /\ Len(b) = m /\ \A k \in 1 .. m : b[k].dt_ms = p.dt_ms + k * STEP_MS
  BY BetweenPoints
<1>3. /\ m \in Nat
      /\ \A k \in 1 .. m : k * STEP_MS \in Nat /\ k * STEP_MS < q.dt_ms - p.dt_ms
      /\ (q.dt_ms - p.dt_ms) - m * STEP_MS \in 0 .. STEP_MS
      /\ m * STEP_MS \in Nat
  BY <1>1, StepsWithin
<1>4. <<q>> \in Seq(HapticPoints) /\ Len(<<q>>) = 1 /\ <<q>>[1] = q
  OBVIOUS
<1>5. /\ s \in Seq(HapticPoints) /\ Len(s) = m + 1
      /\ \A i \in 1 .. m + 1 : s[i] = IF i <= m THEN b[i] ELSE <<q>>[i - m]
  <2> HIDE DEF b, m
  <2> QED
    BY <1>2, <1>4, ConcatProperties DEF Filled, b
<1> HIDE DEF b, s, m
<1>6. s[m + 1] = q /\ \A i \in 1 .. m : s[i].dt_ms = p.dt_ms + i * STEP_MS
  BY <1>2, <1>3, <1>4, <1>5
<1>7. s[1].dt_ms - p.dt_ms \in 0 .. STEP_MS
  <2>1. CASE m = 0
    BY <1>1, <1>3, <1>6, <2>1
  <2>2. CASE m # 0
    <3>1. 1 \in 1 .. m /\ 1 * STEP_MS = STEP_MS
      BY <1>1, <1>3, <2>2
    <3> QED
      BY <1>1, <1>6, <3>1
  <2> QED
    BY <2>1, <2>2
<1>8. GapsWithin(s, STEP_MS)
  <2> SUFFICES ASSUME NEW i \in 2 .. m + 1
               PROVE  s[i].dt_ms - s[i - 1].dt_ms \in 0 .. STEP_MS
    BY <1>5 DEF GapsWithin
  <2>1. i - 1 \in 1 .. m /\ i \in Nat
    BY <1>3
  <2>2. s[i - 1].dt_ms = p.dt_ms + (i - 1) * STEP_MS
    BY <1>6, <2>1
  <2>3. i * STEP_MS = (i - 1) * STEP_MS + STEP_MS /\ i * STEP_MS \in Nat /\ (i - 1) * STEP_MS \in Nat
    BY <1>1, <2>1
  <2>4. CASE i = m + 1
    <3>1. i - 1 = m
      BY <1>3, <2>4
    <3> QED
      BY <1>1, <1>3, <1>6, <2>2, <2>4, <3>1
  <2>5. CASE i # m + 1
    <3>1. i \in 1 .. m
      BY <1>3, <2>5
    <3> QED
      BY <1>1, <1>6, <2>2, <2>3, <3>1
  <2> QED
    BY <2>4, <2>5
<1> QED
  BY <1>3, <1>5, <1>6, <1>7, <1>8 DEF s, m

LEMMA GapsJoined ==
    ASSUME NEW s \in Seq(HapticPoints), NEW t \in Seq(HapticPoints), s # <<>>, t # <<>>,
           NEW step, GapsWithin(s, step), GapsWithin(t, step),
           t[1].dt_ms - s[Len(s)].dt_ms \in 0 .. step
    PROVE  /\ s \o t \in Seq(HapticPoints) /\ s \o t # <<>>
           /\ (s \o t)[1] = s[1]
           /\ (s \o t)[Len(s \o t)] = t[Len(t)]
           /\ GapsWithin(s \o t, step)
<1> DEFINE u == s \o t
           m == Len(s)
           n == Len(t)
<1>1. m \in Nat \ {0} /\ n \in Nat \ {0}
  BY EmptySeq
<1>2. /\ u \in Seq(HapticPoints) /\ Len(u) = m + n
      /\ \A i \in 1 .. m + n : u[i] = IF i <= m THEN s[i] ELSE t[i - m]
  BY ConcatProperties
<1> HIDE DEF u, m, n
<1>3. u # <<>> /\ u[1] = s[1] /\ u[m + n] = t[n]
  BY <1>1, <1>2
<1>4. GapsWithin(u, step)
  <2> SUFFICES ASSUME NEW i \in 2 .. m + n
               PROVE  u[i].dt_ms - u[i - 1].dt_ms \in 0 .. step
    BY <1>2 DEF GapsWithin
  <2>1. CASE i <= m
    <3>0. i \in 1 .. m + n /\ i - 1 \in 1 .. m + n /\ i - 1 <= m /\ i \in 2 .. m
      BY <1>1, <2>1
    <3>1. u[i] = s[i] /\ u[i - 1] = s[i - 1] /\ i \in 2 .. Len(s)
      BY <1>2, <2>1, <3>0 DEF m
    <3> QED
      BY <3>1 DEF GapsWithin
  <2>2. CASE i = m + 1
    <3>1. u[i] = t[1] /\ u[i - 1] = s[m]
      BY <1>1, <1>2, <2>2
    <3> QED
      BY <3>1 DEF m
  <2>3. CASE i > m + 1
    <3>1. /\ i - m \in 2 .. Len(t) /\ (i - 1) - m = (i - m) - 1
          /\ u[i] = t[i - m] /\ u[i - 1] = t[(i - 1) - m]
      BY <1>1, <1>2, <2>3 DEF n
    <3>2. t[i - m].dt_ms - t[(i - m) - 1].dt_ms \in 0 .. step
      BY <3>1 DEF GapsWithin
    <3> QED
      BY <3>1, <3>2
  <2> QED
    BY <1>1, <2>1, <2>2, <2>3
<1> QED
  BY <1>2, <1>3, <1>4 DEF u, m, n

-----------------------------------------------------------------------------
(* All the points. *)

InOrder(points) ==
    /\ points \in Seq(HapticPoints) /\ points # <<>>
    /\ \A i \in 2 .. Len(points) : points[i - 1].dt_ms <= points[i].dt_ms

(* The keyframes for the first i points are those for one point less, and  *)
(* what leads from that point to the next.                                 *)
LEMMA Interpolated ==
    ASSUME NEW points, InOrder(points)
    PROVE  \E f \in [1 .. Len(points) -> Seq(HapticPoints)] :
               /\ interpolate_points(points) = f[Len(points)]
               /\ f[1] = <<points[1]>>
               /\ \A i \in 2 .. Len(points) : f[i] = f[i - 1] \o Filled(points[i - 1], points[i])
<1> DEFINE n    == Len(points)
           part(i) == (IF i = 1 THEN <<>> ELSE Between(points[i - 1], points[i])) \o <<points[i]>>
           seqs == [i \in 1 .. n |-> part(i)]
<1>1. n \in Nat \ {0} /\ DOMAIN points = 1 .. n /\ \A i \in 1 .. n : points[i] \in HapticPoints
  BY EmptySeq, LenProperties, ElementOfSeq DEF InOrder
<1>2. ASSUME NEW i \in 2 .. n
      PROVE  part(i) = Filled(points[i - 1], points[i]) /\ part(i) \in Seq(HapticPoints)
  <2>1. i # 1 /\ i \in 1 .. n /\ i - 1 \in 1 .. n
    BY <1>1
  <2>2. part(i) = Filled(points[i - 1], points[i])
    BY <2>1 DEF Filled
  <2>3. points[i - 1].dt_ms <= points[i].dt_ms
    BY DEF InOrder
  <2>4. Filled(points[i - 1], points[i]) \in Seq(HapticPoints)
    BY <1>1, <2>1, <2>3, FilledGaps
  <2> QED
    BY <2>2, <2>4
<1>3. part(1) = <<points[1]>> /\ part(1) \in Seq(HapticPoints)
  <2>1. 1 \in 1 .. n
    BY <1>1
  <2>2. <<points[1]>> \in Seq(HapticPoints)
    BY <1>1, <2>1
  <2>3. <<>> \o <<points[1]>> = <<points[1]>>
    BY <2>2, ConcatEmptySeq
  <2> QED
    BY <2>2, <2>3
<1> HIDE DEF part
<1>4. seqs \in Seq(Seq(HapticPoints)) /\ Len(seqs) = n /\ seqs # <<>>
  <2>1. \A i \in 1 .. n : i = 1 \/ i \in 2 .. n
    BY <1>1
  <2>2. seqs \in [1 .. n -> Seq(HapticPoints)]
    BY <1>2, <1>3, <2>1
  <2> HIDE DEF seqs
  <2> QED
    BY <1>1, <2>2
<1>5. interpolate_points(points) = FlattenSeq(seqs)
  BY <1>1 DEF interpolate_points, part
<1>6. seqs[1] = <<points[1]>> /\ \A i \in 2 .. n : seqs[i] = Filled(points[i - 1], points[i])
  BY <1>1, <1>2, <1>3
<1> HIDE DEF seqs
<1>7. PICK f \in [1 .. Len(seqs) -> Seq(HapticPoints)] :
          /\ FlattenSeq(seqs) = f[Len(seqs)]
          /\ f[1] = seqs[1]
          /\ \A i \in 2 .. Len(seqs) : f[i] = f[i - 1] \o seqs[i]
  <2> HIDE DEF n
  <2> QED
    BY <1>4, Flattened
<1>8. /\ f \in [1 .. n -> Seq(HapticPoints)]
      /\ FlattenSeq(seqs) = f[n]
      /\ \A i \in 2 .. n : f[i] = f[i - 1] \o Filled(points[i - 1], points[i])
  BY <1>4, <1>6, <1>7
<1> QED
  BY <1>5, <1>6, <1>7, <1>8

(* Keyframes begin with the first point and end with the last, and no two  *)
(* of them are further apart than STEP_MS.                                 *)
LEMMA InterpolationFills ==
    ASSUME NEW points, InOrder(points)
    PROVE  LET frames == interpolate_points(points)
           IN  /\ frames \in Seq(HapticPoints) /\ frames # <<>>
               /\ frames[1] = points[1]
               /\ frames[Len(frames)] = points[Len(points)]
               /\ GapsWithin(frames, STEP_MS)
<1> DEFINE n == Len(points)
<1>1. n \in Nat \ {0} /\ \A i \in 1 .. n : points[i] \in HapticPoints
  BY EmptySeq, ElementOfSeq DEF InOrder
<1>2. PICK f \in [1 .. n -> Seq(HapticPoints)] :
          /\ interpolate_points(points) = f[n]
          /\ f[1] = <<points[1]>>
          /\ \A i \in 2 .. n : f[i] = f[i - 1] \o Filled(points[i - 1], points[i])
  BY Interpolated
<1> DEFINE Fills(i) == /\ f[i] \in Seq(HapticPoints) /\ f[i] # <<>>
                       /\ f[i][1] = points[1]
                       /\ f[i][Len(f[i])] = points[i]
                       /\ GapsWithin(f[i], STEP_MS)
           A == {i \in 0 .. n : i = 0 \/ Fills(i)}
<1>3. Fills(1)
  <2>1. points[1] \in HapticPoints
    BY <1>1
  <2>2. ASSUME NEW p \in HapticPoints
        PROVE  <<p>> \in Seq(HapticPoints) /\ <<p>> # <<>> /\ <<p>>[1] = p /\ Len(<<p>>) = 1
    OBVIOUS
  <2>3. GapsWithin(<<points[1]>>, STEP_MS)
    BY <2>1, <2>2 DEF GapsWithin
  <2> QED
    BY <1>2, <2>1, <2>2, <2>3
<1>4. ASSUME NEW i \in 2 .. n, Fills(i - 1) PROVE Fills(i)
  <2>1. i \in 1 .. n /\ i - 1 \in 1 .. n
    BY <1>1
  <2>2. points[i - 1].dt_ms <= points[i].dt_ms
    BY DEF InOrder
  <2> DEFINE t == Filled(points[i - 1], points[i])
  <2>3. /\ t \in Seq(HapticPoints) /\ t # <<>>
        /\ t[Len(t)] = points[i]
        /\ t[1].dt_ms - points[i - 1].dt_ms \in 0 .. STEP_MS
        /\ GapsWithin(t, STEP_MS)
    BY <1>1, <2>1, <2>2, FilledGaps
  <2> HIDE DEF t
  <2>4. f[i] = f[i - 1] \o t
    BY <1>2 DEF t
  <2> DEFINE s == f[i - 1]
  <2>5. /\ s \in Seq(HapticPoints) /\ s # <<>> /\ s[1] = points[1] /\ s[Len(s)] = points[i - 1]
        /\ GapsWithin(s, STEP_MS)
    BY <1>4
  <2>6. f[i] = s \o t
    BY <2>4
  <2> HIDE DEF s
  <2>7. /\ s \o t \in Seq(HapticPoints) /\ s \o t # <<>>
        /\ (s \o t)[1] = s[1]
        /\ (s \o t)[Len(s \o t)] = t[Len(t)]
        /\ GapsWithin(s \o t, STEP_MS)
    BY <2>3, <2>5, GapsJoined
  <2> QED
    BY <2>3, <2>5, <2>6, <2>7
<1> HIDE DEF Fills
<1>5. \A i \in 0 .. n : i \in A
  <2>1. ASSUME NEW i \in 0 .. n - 1, i \in A PROVE i + 1 \in A
    <3>1. i + 1 \in 0 .. n
      BY <1>1
    <3>2. CASE i = 0
      BY <1>3, <3>1, <3>2
    <3>3. CASE i # 0
      <4>1. i + 1 \in 2 .. n /\ (i + 1) - 1 = i
        BY <1>1, <3>3
      <4> HIDE DEF n
      <4>2. Fills(i + 1)
        BY <1>4, <2>1, <3>3, <4>1
      <4> QED
        BY <3>1, <4>2
    <3> QED
      BY <3>2, <3>3
  <2>2. 0 \in A
    BY <1>1
  <2> HIDE DEF A, n
  <2> QED
    BY <1>1, <2>1, <2>2, UpTo
<1>6. Fills(n)
  BY <1>1, <1>5
<1> QED
  BY <1>2, <1>6 DEF Fills

(* Points no further apart than STEP_MS are left as they are. *)
LEMMA InterpolationKeeps ==
    ASSUME NEW points, InOrder(points), GapsWithin(points, STEP_MS)
    PROVE  interpolate_points(points) = points
<1> DEFINE n == Len(points)
<1>1. n \in Nat \ {0} /\ \A i \in 1 .. n : points[i] \in HapticPoints
  BY EmptySeq, ElementOfSeq DEF InOrder
<1>2. PICK f \in [1 .. n -> Seq(HapticPoints)] :
          /\ interpolate_points(points) = f[n]
          /\ f[1] = <<points[1]>>
          /\ \A i \in 2 .. n : f[i] = f[i - 1] \o Filled(points[i - 1], points[i])
  BY Interpolated
<1>3. ASSUME NEW i \in 2 .. n
      PROVE  Filled(points[i - 1], points[i]) = <<points[i]>>
  <2>1. i \in 1 .. n /\ i - 1 \in 1 .. n
    BY <1>1
  <2>2. points[i - 1].dt_ms <= points[i].dt_ms /\ points[i].dt_ms - points[i - 1].dt_ms \in 0 .. STEP_MS
    BY DEF InOrder, GapsWithin
  <2>3. Steps(points[i].dt_ms - points[i - 1].dt_ms) = 0
    BY <2>2, StepsWithin
  <2> DEFINE t == Filled(points[i - 1], points[i])
  <2>4. t \in Seq(HapticPoints) /\ Len(t) = 1 /\ t[1] = points[i]
    <3>1. points[i - 1] \in HapticPoints /\ points[i] \in HapticPoints
      BY <1>1, <2>1
    <3> DEFINE m == Steps(points[i].dt_ms - points[i - 1].dt_ms)
    <3>2. t \in Seq(HapticPoints) /\ Len(t) = m + 1 /\ t[m + 1] = points[i]
      BY <2>2, <3>1, FilledGaps
    <3> HIDE DEF t
    <3> QED
      BY <2>3, <3>2
  <2> HIDE DEF t
  <2>5. t = <<points[i]>>
    BY <2>4
  <2> QED
    BY <2>5 DEF t
<1> DEFINE Keeps(i) == Len(f[i]) = i /\ \A j \in 1 .. i : f[i][j] = points[j]
           A == {i \in 0 .. n : i = 0 \/ Keeps(i)}
<1>4. Keeps(1)
  <2>1. Len(<<points[1]>>) = 1 /\ <<points[1]>>[1] = points[1]
    OBVIOUS
  <2> QED
    BY <1>2, <2>1
<1>5. ASSUME NEW i \in 2 .. n, Keeps(i - 1) PROVE Keeps(i)
  <2>1. i \in 1 .. n /\ i - 1 \in 1 .. n /\ i - 1 \in Nat /\ (i - 1) + 1 = i
    BY <1>1
  <2>2. f[i] = f[i - 1] \o <<points[i]>>
    BY <1>2, <1>3
  <2>3. f[i - 1] \in Seq(HapticPoints) /\ <<points[i]>> \in Seq(HapticPoints)
    BY <1>1, <1>2, <2>1
  <2>4. Len(<<points[i]>>) = 1 /\ <<points[i]>>[1] = points[i]
    OBVIOUS
  <2>5. /\ Len(f[i]) = i
        /\ \A j \in 1 .. i : f[i][j] = IF j <= i - 1 THEN f[i - 1][j] ELSE <<points[i]>>[j - (i - 1)]
    BY <1>5, <2>1, <2>2, <2>3, <2>4, ConcatProperties
  <2>6. ASSUME NEW j \in 1 .. i PROVE f[i][j] = points[j]
    <3>1. CASE j <= i - 1
      BY <1>5, <2>1, <2>5, <3>1
    <3>2. CASE j = i
      <4>1. j - (i - 1) = 1 /\ ~(j <= i - 1)
        BY <2>1, <3>2
      <4> QED
        BY <2>4, <2>5, <3>2, <4>1
    <3> QED
      BY <2>1, <3>1, <3>2
  <2> QED
    BY <2>5, <2>6
<1> HIDE DEF Keeps
<1>6. \A i \in 0 .. n : i \in A
  <2>1. ASSUME NEW i \in 0 .. n - 1, i \in A PROVE i + 1 \in A
    <3>1. i + 1 \in 0 .. n
      BY <1>1
    <3>2. CASE i = 0
      BY <1>4, <3>1, <3>2
    <3>3. CASE i # 0
      <4>1. i + 1 \in 2 .. n /\ (i + 1) - 1 = i
        BY <1>1, <3>3
      <4> HIDE DEF n
      <4>2. Keeps(i + 1)
        BY <1>5, <2>1, <3>3, <4>1
      <4> QED
        BY <3>1, <4>2
    <3> QED
      BY <3>2, <3>3
  <2>2. 0 \in A
    BY <1>1
  <2> HIDE DEF A, n
  <2> QED
    BY <1>1, <2>1, <2>2, UpTo
<1>7. Keeps(n) /\ f[n] \in Seq(HapticPoints) /\ points \in Seq(HapticPoints)
  BY <1>1, <1>2, <1>6 DEF InOrder
<1>8. f[n] = points
  BY <1>7, SeqEqual DEF Keeps
<1> QED
  BY <1>2, <1>8

LEMMA Retyped ==
    ASSUME NEW S, NEW T, NEW s \in Seq(S), \A i \in 1 .. Len(s) : s[i] \in T
    PROVE  s \in Seq(T)
<1>1. Len(s) \in Nat /\ DOMAIN s = 1 .. Len(s) /\ s = [i \in 1 .. Len(s) |-> s[i]]
  OBVIOUS
<1>2. s \in [1 .. Len(s) -> T]
  BY <1>1
<1> QED
  BY <1>1, <1>2

LEMMA NothingInterpolated == interpolate_points(<<>>) = <<>>
<1>1. DOMAIN <<>> = {} /\ Len(<<>>) = 0
  OBVIOUS
<1>2. [i \in {} |-> (IF i = 1 THEN <<>> ELSE Between(<<>>[i - 1], <<>>[i])) \o <<(<<>>)[i]>>] = <<>>
  OBVIOUS
<1> QED
  BY <1>1, <1>2 DEF interpolate_points, FlattenSeq

(* Points that are never before their predecessors are before none of      *)
(* their successors.                                                       *)
LEMMA Ascending ==
    ASSUME NEW points \in Seq(HapticPoints), NEW step, GapsWithin(points, step)
    PROVE  \A i, j \in 1 .. Len(points) : i <= j => points[i].dt_ms <= points[j].dt_ms
<1> DEFINE n == Len(points)
           A == {d \in 0 .. n : \A i \in 1 .. n : i + d <= n => points[i].dt_ms <= points[i + d].dt_ms}
<1>1. n \in Nat /\ \A i \in 1 .. n : points[i].dt_ms \in Nat
  <2>1. \A i \in 1 .. n : points[i] \in HapticPoints
    BY ElementOfSeq
  <2> QED
    BY <2>1 DEF HapticPoints
<1> HIDE DEF n
<1>2. \A d \in 0 .. n : d \in A
  <2>1. ASSUME NEW d \in 0 .. n - 1, d \in A PROVE d + 1 \in A
    <3>1. d + 1 \in 0 .. n /\ d \in Nat
      BY <1>1
    <3>2. ASSUME NEW i \in 1 .. n, i + (d + 1) <= n
          PROVE  points[i].dt_ms <= points[i + (d + 1)].dt_ms
      <4>1. /\ i + d <= n /\ i + d \in 1 .. n /\ i + (d + 1) \in 2 .. n
            /\ i + (d + 1) \in 1 .. n /\ (i + (d + 1)) - 1 = i + d
        BY <1>1, <3>1, <3>2
      <4>2. points[i].dt_ms <= points[i + d].dt_ms
        BY <2>1, <4>1
      <4>3. points[i + (d + 1)].dt_ms - points[i + d].dt_ms \in 0 .. step
        BY <4>1 DEF GapsWithin, n
      <4>4. points[i + d].dt_ms <= points[i + (d + 1)].dt_ms
        BY <1>1, <4>1, <4>3
      <4> QED
        BY <1>1, <4>1, <4>2, <4>4
    <3> QED
      BY <3>1, <3>2
  <2>2. 0 \in A
    BY <1>1
  <2> HIDE DEF A
  <2> QED
    BY <1>1, <2>1, <2>2, UpTo
<1> TAKE i, j \in 1 .. Len(points)
<1> HAVE i <= j
<1>3. /\ i \in 1 .. n /\ j \in 1 .. n /\ j - i \in 0 .. n
      /\ i + (j - i) = j /\ j <= n
  BY <1>1 DEF n
<1>4. j - i \in A
  BY <1>2, <1>3
<1> QED
  BY <1>3, <1>4

-----------------------------------------------------------------------------
(* The points of effects. *)

(* All but the last two gaps are at least this. *)
Spaced(points, gap) ==
    \A i \in 2 .. Len(points) - 2 : points[i].dt_ms - points[i - 1].dt_ms >= gap

(* Samples at every interval before the end, and one or two points at it. *)
SampledUpTo(points, length) ==
    LET n == (length + SAMPLE_INTERVAL_MS - 1) \div SAMPLE_INTERVAL_MS
    IN  /\ Len(points) \in {n + 1, n + 2}
        /\ \A i \in 1 .. n : points[i].dt_ms = (i - 1) * SAMPLE_INTERVAL_MS
        /\ \A i \in n + 1 .. Len(points) : points[i].dt_ms = length

LEMMA SampledGaps ==
    ASSUME NEW length \in Nat, NEW points, SampledUpTo(points, length)
    PROVE  /\ points[1].dt_ms = 0
           /\ GapsWithin(points, SAMPLE_INTERVAL_MS)
           /\ Spaced(points, SAMPLE_INTERVAL_MS)
<1> DEFINE s == SAMPLE_INTERVAL_MS
           n == (length + s - 1) \div s
<1>1. s \in Nat \ {0} /\ n \in Nat
  BY TranslateAssumption, SampleCount
<1>2. n * s <= length + s - 1 /\ length + s - 1 < n * s + s /\ n * s \in Nat
  BY <1>1
<1>3. /\ Len(points) \in {n + 1, n + 2}
      /\ \A i \in 1 .. n : points[i].dt_ms = (i - 1) * s
      /\ \A i \in n + 1 .. Len(points) : points[i].dt_ms = length
  BY DEF SampledUpTo
<1> HIDE DEF n, s
<1>4. ASSUME NEW i \in 1 .. n, i # 1
      PROVE  points[i].dt_ms - points[i - 1].dt_ms = s
  <2>1. i - 1 \in 1 .. n /\ i \in Nat
    BY <1>1, <1>4
  <2>2. (i - 1) * s = ((i - 1) - 1) * s + s /\ ((i - 1) - 1) * s \in Nat
    BY <1>1, <2>1
  <2> QED
    BY <1>1, <1>3, <2>1, <2>2
<1>5. ASSUME n # 0
      PROVE  points[n + 1].dt_ms - points[n].dt_ms \in 0 .. s
  <2>1. n \in 1 .. n /\ n + 1 \in n + 1 .. Len(points)
    BY <1>1, <1>3, <1>5
  <2>2. points[n].dt_ms = (n - 1) * s /\ points[n + 1].dt_ms = length
    BY <1>3, <2>1
  <2>3. (n - 1) * s = n * s - s
    BY <1>1
  <2> QED
    BY <1>1, <1>2, <2>2, <2>3
<1>6. points[1].dt_ms = 0
  <2>1. CASE n = 0
    <3>1. length = 0
      BY <1>1, <1>2, <2>1
    <3>2. 1 \in n + 1 .. Len(points)
      BY <1>3, <2>1
    <3> QED
      BY <1>3, <3>1, <3>2
  <2>2. CASE n # 0
    <3>1. 1 \in 1 .. n /\ (1 - 1) * s = 0
      BY <1>1, <2>2
    <3> QED
      BY <1>3, <3>1
  <2> QED
    BY <2>1, <2>2
<1>7. ASSUME NEW i \in 2 .. Len(points)
      PROVE  points[i].dt_ms - points[i - 1].dt_ms \in 0 .. s
  <2>1. CASE i <= n
    <3>1. i \in 1 .. n /\ i # 1
      BY <1>1, <2>1
    <3> QED
      BY <1>1, <1>4, <3>1
  <2>2. CASE i = n + 1
    <3>1. n # 0 /\ i - 1 = n
      BY <1>1, <2>2
    <3> QED
      BY <1>5, <2>2, <3>1
  <2>3. CASE i > n + 1
    <3>1. i \in n + 1 .. Len(points) /\ i - 1 \in n + 1 .. Len(points)
      BY <1>1, <1>3, <2>3
    <3>2. points[i].dt_ms = length /\ points[i - 1].dt_ms = length
      BY <1>3, <3>1
    <3> QED
      BY <1>1, <3>2
  <2> QED
    BY <1>1, <2>1, <2>2, <2>3
<1>8. ASSUME NEW i \in 2 .. Len(points) - 2
      PROVE  points[i].dt_ms - points[i - 1].dt_ms >= s
  <2>1. i \in 1 .. n /\ i # 1
    BY <1>1, <1>3
  <2> QED
    BY <1>1, <1>4, <2>1
<1> QED
  BY <1>6, <1>7, <1>8 DEF GapsWithin, Spaced, s

(* What follows a sequence made by a function. *)
LEMMA SampleRangeTimes ==
    ASSUME NEW length \in Nat, NEW base, NEW env
    PROVE  SampledUpTo(sample_range_fn(base, length, env), length)
<1> DEFINE n == (length + SAMPLE_INTERVAL_MS - 1) \div SAMPLE_INTERVAL_MS
           v(i) == apply_envelope(base[(i - 1) * SAMPLE_INTERVAL_MS], (i - 1) * SAMPLE_INTERVAL_MS, length, env)
           samples == [i \in 1 .. n |-> HapticPoint((i - 1) * SAMPLE_INTERVAL_MS, v(i))]
           points == sample_range_fn(base, length, env)
<1>1. n \in Nat
  BY SampleCount
<1>2. points = samples \o <<HapticPoint(length, 0)>>
  BY DEF sample_range_fn
<1>3. \A i \in 1 .. n : samples[i].dt_ms = (i - 1) * SAMPLE_INTERVAL_MS
  BY DEF HapticPoint
<1>4. DOMAIN samples = 1 .. n /\ samples = [i \in 1 .. n |-> samples[i]]
  OBVIOUS
<1> HIDE DEF samples, n, points
<1>5. /\ Len(points) = n + 1
      /\ \A i \in 1 .. n : points[i].dt_ms = (i - 1) * SAMPLE_INTERVAL_MS
      /\ points[n + 1] = HapticPoint(length, 0)
  BY <1>1, <1>2, <1>3, <1>4, OneAppended
<1>6. \A i \in n + 1 .. Len(points) : points[i].dt_ms = length
  BY <1>1, <1>5 DEF HapticPoint
<1> QED
  BY <1>5, <1>6 DEF SampledUpTo, n, points

LEMMA RampTimes ==
    ASSUME NEW effect, effect.replay_length \in Nat
    PROVE  SampledUpTo(ramp_points(effect), effect.replay_length)
<1> DEFINE length == effect.replay_length
           n == (length + SAMPLE_INTERVAL_MS - 1) \div SAMPLE_INTERVAL_MS
           time(i) == IF i = 1 + n THEN length ELSE (i - 1) * SAMPLE_INTERVAL_MS
           v(i) == clamp(Level(Abs(RampLevel(I16(effect.u[1]), I16(effect.u[2]), time(i), length))))
           samples == [i \in 1 .. 1 + n |-> HapticPoint(time(i), v(i))]
           points == ramp_points(effect)
<1>1. n \in Nat /\ 1 + n \in Nat
  BY SampleCount
<1>2. points = samples \o <<HapticPoint(length, 0)>>
  BY DEF ramp_points
<1>3. \A i \in 1 .. 1 + n : samples[i].dt_ms = time(i)
  BY DEF HapticPoint
<1>4. DOMAIN samples = 1 .. 1 + n /\ samples = [i \in 1 .. 1 + n |-> samples[i]]
  OBVIOUS
<1> HIDE DEF samples, n, points
<1>5. /\ Len(points) = n + 2
      /\ \A i \in 1 .. 1 + n : points[i].dt_ms = time(i)
      /\ points[n + 2] = HapticPoint(length, 0)
  <2> DEFINE k == 1 + n
             z == HapticPoint(length, 0)
  <2>1. k \in Nat /\ k + 1 = n + 2 /\ DOMAIN samples = 1 .. k /\ samples = [i \in 1 .. k |-> samples[i]]
    BY <1>1, <1>4
  <2> HIDE DEF k, z, time
  <2>2. /\ Len(samples \o <<z>>) = k + 1
        /\ \A i \in 1 .. k : (samples \o <<z>>)[i] = samples[i]
        /\ (samples \o <<z>>)[k + 1] = z
    BY <2>1, OneAppended
  <2> QED
    BY <1>2, <1>3, <2>1, <2>2 DEF k, z
<1>6. \A i \in 1 .. n : points[i].dt_ms = (i - 1) * SAMPLE_INTERVAL_MS
  <2>1. \A i \in 1 .. n : i \in 1 .. 1 + n /\ i # 1 + n
    BY <1>1
  <2> QED
    BY <1>5, <2>1
<1>7. \A i \in n + 1 .. Len(points) : points[i].dt_ms = length
  <2>1. \A i \in n + 1 .. n + 2 : (i = 1 + n /\ i \in 1 .. 1 + n) \/ i = n + 2
    BY <1>1
  <2>2. HapticPoint(length, 0).dt_ms = length
    BY DEF HapticPoint
  <2> QED
    BY <1>5, <2>1, <2>2
<1> QED
  BY <1>5, <1>6, <1>7 DEF SampledUpTo, n, points

Sampled == {FF_PERIODIC, FF_CONSTANT, FF_RAMP}

LEMMA SampledTimes ==
    ASSUME NEW effect \in FfEffect, effect.kind \in Sampled
    PROVE  SampledUpTo(translate(effect), effect.replay_length)
<1> USE DEF FF_RUMBLE, FF_PERIODIC, FF_CONSTANT, FF_RAMP
<1>1. effect.replay_length \in Nat
  BY EffectWords, U16IsNat
<1>2. CASE effect.kind = FF_PERIODIC
  <2>1. translate(effect) = periodic_points(effect)
    BY <1>2 DEF translate
  <2> QED
    BY <1>1, <2>1, SampleRangeTimes DEF periodic_points
<1>3. CASE effect.kind = FF_CONSTANT
  <2>1. translate(effect) = constant_points(effect)
    BY <1>3 DEF translate
  <2> QED
    BY <1>1, <2>1, SampleRangeTimes DEF constant_points
<1>4. CASE effect.kind = FF_RAMP
  <2>1. translate(effect) = ramp_points(effect)
    BY <1>4 DEF translate
  <2> QED
    BY <1>1, <2>1, RampTimes
<1> QED
  BY <1>2, <1>3, <1>4 DEF Sampled

LEMMA PointsInOrder ==
    ASSUME NEW effect \in FfEffect, effect.kind \in Known
    PROVE  InOrder(translate(effect))
<1> DEFINE points == translate(effect)
<1>1. EndsAtZero(points, effect.replay_length)
  BY EveryEffectEnds
<1> HIDE DEF points
<1>2. \A i \in 2 .. Len(points) : i \in 1 .. Len(points) /\ i - 1 \in 1 .. Len(points) /\ i - 1 <= i
  <2>1. Len(points) \in Nat
    BY <1>1 DEF EndsAtZero
  <2> QED
    BY <2>1
<1>3. InOrder(points)
  BY <1>1, <1>2 DEF EndsAtZero, InOrder
<1> QED
  BY <1>3 DEF points

(* A motor's level fades out from the start; the last step may be shorter. *)
LEMMA RumbleKeyframes ==
    ASSUME NEW effect \in FfEffect, effect.kind = FF_RUMBLE
    PROVE  /\ translate(effect)[1].dt_ms = 0
           /\ Spaced(interpolate_points(translate(effect)), STEP_MS)
<1> DEFINE length == effect.replay_length
           frames == interpolate_points(translate(effect))
<1>1. translate(effect) = rumble_points(effect) /\ effect.kind \in Known
  BY DEF translate, Known, FF_RUMBLE, FF_PERIODIC, FF_CONSTANT, FF_RAMP
<1>2. length \in Nat /\ InOrder(translate(effect))
  BY <1>1, EffectWords, U16IsNat, PointsInOrder
<1>3. PICK f \in [1 .. Len(translate(effect)) -> Seq(HapticPoints)] :
          /\ frames = f[Len(translate(effect))]
          /\ f[1] = <<translate(effect)[1]>>
          /\ \A i \in 2 .. Len(translate(effect)) :
                 f[i] = f[i - 1] \o Filled(translate(effect)[i - 1], translate(effect)[i])
  BY <1>2, Interpolated
<1>4. \A i \in 1 .. Len(translate(effect)) : translate(effect)[i] \in HapticPoints
  BY <1>2, ElementOfSeq DEF InOrder
<1> HIDE DEF frames
<1>5. CASE length = 0
  <2>1. translate(effect) = <<HapticPoint(0, 0)>>
    BY <1>1, <1>5 DEF rumble_points
  <2>2. Len(translate(effect)) = 1 /\ translate(effect)[1] = HapticPoint(0, 0)
    BY <2>1
  <2>3. Len(frames) = 1
    BY <1>3, <2>2
  <2> QED
    BY <2>2, <2>3 DEF Spaced, HapticPoint, frames
<1>6. CASE length # 0
  <2>1. PICK v : translate(effect) = <<HapticPoint(0, v), HapticPoint(length, 0)>>
    BY <1>1, <1>6 DEF rumble_points
  <2> DEFINE p == HapticPoint(0, v)
             q == HapticPoint(length, 0)
             m == Steps(q.dt_ms - p.dt_ms)
             t == Filled(p, q)
  <2>2. Len(translate(effect)) = 2 /\ translate(effect)[1] = p /\ translate(effect)[2] = q
    BY <2>1
  <2>3. p \in HapticPoints /\ q \in HapticPoints /\ p.dt_ms = 0 /\ q.dt_ms = length
    BY <1>4, <2>2 DEF HapticPoint
  <2>4. /\ t \in Seq(HapticPoints) /\ Len(t) = m + 1 /\ m \in Nat
        /\ \A i \in 1 .. m : t[i].dt_ms = p.dt_ms + i * STEP_MS
    BY <1>2, <2>3, FilledGaps
  <2>5. frames = <<p>> \o t
    <3>1. 2 \in 2 .. Len(translate(effect)) /\ 2 - 1 = 1
      BY <2>2
    <3>2. f[2] = f[2 - 1] \o Filled(translate(effect)[2 - 1], translate(effect)[2])
      BY <1>3, <3>1
    <3> HIDE DEF p, q
    <3> QED
      BY <1>3, <2>2, <3>1, <3>2
  <2> HIDE DEF p, q, m, t
  <2>6. <<p>> \in Seq(HapticPoints) /\ Len(<<p>>) = 1 /\ <<p>>[1] = p
    BY <2>3
  <2>7. /\ Len(frames) = m + 2
        /\ \A i \in 1 .. m + 2 : frames[i] = IF i <= 1 THEN <<p>>[i] ELSE t[i - 1]
    <3>1. 1 + (m + 1) = m + 2
      BY <2>4
    <3> QED
      BY <2>4, <2>5, <2>6, <3>1, ConcatProperties
  <2>8. STEP_MS \in Nat
    BY TranslateAssumption
  <2>9. \A i \in 1 .. m + 1 : frames[i].dt_ms = (i - 1) * STEP_MS
    <3> TAKE i \in 1 .. m + 1
    <3>1. CASE i = 1
      BY <2>3, <2>4, <2>6, <2>7, <2>8, <3>1
    <3>2. CASE i # 1
      <4>1. i \in 1 .. m + 2 /\ ~(i <= 1) /\ i - 1 \in 1 .. m
        BY <2>4, <3>2
      <4>2. (i - 1) * STEP_MS \in Nat
        BY <2>8, <4>1
      <4> QED
        BY <2>3, <2>4, <2>7, <4>1, <4>2
    <3> QED
      BY <3>1, <3>2
  <2>10. ASSUME NEW i \in 2 .. Len(frames) - 2
         PROVE  frames[i].dt_ms - frames[i - 1].dt_ms >= STEP_MS
    <3>1. i \in 1 .. m + 1 /\ i - 1 \in 1 .. m + 1 /\ i \in Nat
      BY <2>4, <2>7
    <3>2. (i - 1) * STEP_MS = ((i - 1) - 1) * STEP_MS + STEP_MS /\ ((i - 1) - 1) * STEP_MS \in Nat
      BY <2>8, <3>1
    <3> QED
      BY <2>8, <2>9, <3>1, <3>2
  <2> QED
    BY <2>2, <2>3, <2>10 DEF Spaced, frames
<1> QED
  BY <1>5, <1>6

(* A schedule that fills its gaps, begins at once and ends with the motor  *)
(* off at the length.                                                      *)
Playable(frames, length) ==
    /\ frames \in Seq([dt_ms : U16, intensity : 0 .. FULL]) /\ frames # <<>>
    /\ frames[1].dt_ms = 0
    /\ frames[Len(frames)] = HapticPoint(length, 0)
    /\ GapsWithin(frames, STEP_MS)
    /\ \A i \in 1 .. Len(frames) : frames[i].dt_ms <= length

(* (most hides the number: the provers' ranges are small ones.) *)
LEMMA WordsBelow == \A l \in U16 : \A x \in Nat : x <= l => x \in U16
<1> DEFINE most == 65535
<1>1. most \in Nat
  OBVIOUS
<1>2. U16 = 0 .. most
  BY DEF U16
<1> HIDE DEF most
<1> QED
  BY <1>1, <1>2

(* Whatever a game uploads, if of a kind translate knows, becomes a        *)
(* schedule Playback can play: times that never go back, gaps filled in    *)
(* steps of STEP_MS (playback.rs:153-173), and a zero at the length.       *)
THEOREM EveryEffectPlays ==
    \A effect \in FfEffect :
        IF effect.kind \in Known
        THEN Playable(interpolate_points(translate(effect)), effect.replay_length)
        ELSE interpolate_points(translate(effect)) = <<>>
<1> TAKE effect \in FfEffect
<1> DEFINE points == translate(effect)
           frames == interpolate_points(points)
           length == effect.replay_length
<1>1. CASE effect.kind \notin Known
  BY <1>1, EveryEffectEnds, NothingInterpolated
<1>2. CASE effect.kind \in Known
  <2>1. InOrder(points) /\ points[Len(points)] = HapticPoint(length, 0)
    BY <1>2, PointsInOrder, EveryEffectEnds DEF EndsAtZero
  <2>2. points[1].dt_ms = 0
    <3>1. CASE effect.kind = FF_RUMBLE
      BY <3>1, RumbleKeyframes
    <3>2. CASE effect.kind # FF_RUMBLE
      <4>1. effect.kind \in Sampled
        BY <1>2, <3>2 DEF Known, Sampled
      <4>2. SampledUpTo(points, length) /\ length \in Nat
        BY <4>1, SampledTimes, EffectWords, U16IsNat
      <4> HIDE DEF points, length
      <4> QED
        BY <4>2, SampledGaps
    <3> QED
      BY <3>1, <3>2
  <2>3. length \in U16 /\ length \in Nat
    BY EffectWords, U16IsNat
  <2> HIDE DEF points, length
  <2>4. /\ frames \in Seq(HapticPoints) /\ frames # <<>>
        /\ frames[1] = points[1]
        /\ frames[Len(frames)] = points[Len(points)]
        /\ GapsWithin(frames, STEP_MS)
    BY <2>1, InterpolationFills
  <2> HIDE DEF frames
  <2>5. frames[Len(frames)] = HapticPoint(length, 0) /\ frames[Len(frames)].dt_ms = length
    BY <2>1, <2>4 DEF HapticPoint
  <2>6. Len(frames) \in Nat \ {0} /\ \A i \in 1 .. Len(frames) : frames[i] \in HapticPoints
    BY <2>4, EmptySeq, ElementOfSeq
  <2>7. \A i \in 1 .. Len(frames) : frames[i].dt_ms <= length
    <3> TAKE i \in 1 .. Len(frames)
    <3>1. Len(frames) \in 1 .. Len(frames) /\ i <= Len(frames)
      BY <2>6
    <3> QED
      BY <2>4, <2>5, <3>1, Ascending
  <2>8. frames \in Seq([dt_ms : U16, intensity : 0 .. FULL])
    <3>1. ASSUME NEW i \in 1 .. Len(frames)
          PROVE  frames[i] \in [dt_ms : U16, intensity : 0 .. FULL]
      <4>1. frames[i] \in HapticPoints /\ frames[i].dt_ms <= length
        BY <2>6, <2>7
      <4>2. frames[i].dt_ms \in Nat
        BY <4>1 DEF HapticPoints
      <4>4. frames[i].dt_ms \in U16
        BY <2>3, <4>1, <4>2, WordsBelow
      <4> QED
        BY <4>1, <4>4 DEF HapticPoints
    <3> QED
      BY <2>4, <3>1, Retyped
  <2> QED
    BY <1>2, <2>2, <2>4, <2>5, <2>7, <2>8 DEF Playable, frames, points, length
<1> QED
  BY <1>1, <1>2

(* The intensities of its keyframes are a schedule as Playback assumes it  *)
(* (PlaybackAssumption): levels in range, and a zero to end with.          *)
THEOREM SchedulesAsAssumed ==
    \A effect \in FfEffect :
        effect.kind \in Known =>
            LET frames == interpolate_points(translate(effect))
            IN  [i \in 1 .. Len(frames) |-> frames[i].intensity]
                    \in {s \in Seq(0 .. FULL) : s # <<>> /\ s[Len(s)] = 0}
<1> TAKE effect \in FfEffect
<1> HAVE effect.kind \in Known
<1> DEFINE frames == interpolate_points(translate(effect))
           n      == Len(frames)
           levels == [i \in 1 .. n |-> frames[i].intensity]
<1>1. Playable(frames, effect.replay_length)
  BY EveryEffectPlays
<1> HIDE DEF frames
<1>2. /\ frames \in Seq([dt_ms : U16, intensity : 0 .. FULL]) /\ frames # <<>>
      /\ frames[n].intensity = 0
  BY <1>1 DEF Playable, HapticPoint
<1>3. n \in Nat \ {0} /\ \A i \in 1 .. n : frames[i].intensity \in 0 .. FULL
  <2>1. n \in Nat \ {0}
    BY <1>2, EmptySeq
  <2>2. \A i \in 1 .. n : frames[i] \in [dt_ms : U16, intensity : 0 .. FULL]
    BY <1>2, ElementOfSeq
  <2> QED
    BY <2>1, <2>2
<1> HIDE DEF n
<1>4. levels \in Seq(0 .. FULL) /\ Len(levels) = n /\ levels[n] = 0
  <2>1. levels \in [1 .. n -> 0 .. FULL] /\ n \in 1 .. n
    BY <1>3
  <2>2. levels[n] = 0
    BY <1>2, <2>1
  <2>3. n \in Nat
    BY <1>3
  <2> HIDE DEF levels
  <2> DEFINE S == 0 .. FULL
  <2>4. levels \in [1 .. n -> S]
    BY <2>1
  <2> HIDE DEF S
  <2>5. levels \in Seq(S) /\ Len(levels) = n
    BY <2>3, <2>4
  <2> QED
    BY <2>2, <2>5 DEF S
<1> HIDE DEF levels
<1>5. levels \in {s \in Seq(0 .. FULL) : s # <<>> /\ s[Len(s)] = 0}
  BY <1>3, <1>4
<1> QED
  BY <1>5 DEF levels, n, frames

(* As long as samples are no further apart than steps, a sampled effect is *)
(* sent as it was sampled: the constants of the two files agree.           *)
THEOREM SamplesKept ==
    ASSUME SAMPLE_INTERVAL_MS <= STEP_MS
    PROVE  \A effect \in FfEffect :
               effect.kind # FF_RUMBLE => interpolate_points(translate(effect)) = translate(effect)
<1> TAKE effect \in FfEffect
<1> HAVE effect.kind # FF_RUMBLE
<1> DEFINE points == translate(effect)
<1>1. CASE effect.kind \notin Known
  BY <1>1, EveryEffectEnds, NothingInterpolated
<1>2. CASE effect.kind \in Known
  <2>1. SampledUpTo(points, effect.replay_length) /\ effect.replay_length \in Nat
    <3>1. effect.kind \in Sampled
      BY <1>2 DEF Known, Sampled
    <3> QED
      BY <3>1, SampledTimes, EffectWords, U16IsNat
  <2>2. InOrder(points)
    BY <1>2, PointsInOrder
  <2> HIDE DEF points
  <2>3. GapsWithin(points, STEP_MS)
    <3>1. GapsWithin(points, SAMPLE_INTERVAL_MS)
      BY <2>1, SampledGaps
    <3> QED
      BY <3>1, TranslateAssumption DEF GapsWithin
  <2>4. interpolate_points(points) = points
    BY <2>2, <2>3, InterpolationKeeps
  <2> QED
    BY <2>4 DEF points
<1> QED
  BY <1>1, <1>2

(* Only the last two keyframes may come closer together than samples do.   *)
LEMMA KeyframesSpaced ==
    ASSUME SAMPLE_INTERVAL_MS <= STEP_MS, NEW effect \in FfEffect, effect.kind \in Known
    PROVE  Spaced(interpolate_points(translate(effect)), SAMPLE_INTERVAL_MS)
<1> DEFINE points == translate(effect)
           frames == interpolate_points(points)
<1>1. CASE effect.kind = FF_RUMBLE
  <2>1. Spaced(frames, STEP_MS)
    BY <1>1, RumbleKeyframes
  <2>2. \A i \in 2 .. Len(frames) - 2 : frames[i].dt_ms - frames[i - 1].dt_ms \in Int
    <3>1. InOrder(points)
      BY PointsInOrder
    <3> HIDE DEF points
    <3>2. frames \in Seq(HapticPoints)
      BY <3>1, InterpolationFills
    <3> HIDE DEF frames
    <3>3. \A i \in 1 .. Len(frames) : frames[i].dt_ms \in Nat
      <4>1. \A i \in 1 .. Len(frames) : frames[i] \in HapticPoints
        BY <3>2, ElementOfSeq
      <4> QED
        BY <4>1 DEF HapticPoints
    <3>4. \A i \in 2 .. Len(frames) - 2 : i \in 1 .. Len(frames) /\ i - 1 \in 1 .. Len(frames)
      BY <3>2
    <3> QED
      BY <3>3, <3>4
  <2> HIDE DEF frames
  <2>3. Spaced(frames, SAMPLE_INTERVAL_MS)
    <3>1. ASSUME NEW i \in 2 .. Len(frames) - 2
          PROVE  frames[i].dt_ms - frames[i - 1].dt_ms >= SAMPLE_INTERVAL_MS
      <4> DEFINE gap == frames[i].dt_ms - frames[i - 1].dt_ms
      <4>1. gap >= STEP_MS /\ gap \in Int
        BY <2>1, <2>2 DEF Spaced
      <4> HIDE DEF gap
      <4>2. gap >= SAMPLE_INTERVAL_MS
        BY <4>1, TranslateAssumption
      <4> QED
        BY <4>2 DEF gap
    <3> QED
      BY <3>1 DEF Spaced
  <2> QED
    BY <2>3 DEF frames
<1>2. CASE effect.kind # FF_RUMBLE
  <2>1. frames = points
    BY <1>2, SamplesKept
  <2>2. SampledUpTo(points, effect.replay_length) /\ effect.replay_length \in Nat
    <3>1. effect.kind \in Sampled
      BY <1>2 DEF Known, Sampled
    <3> QED
      BY <3>1, SampledTimes, EffectWords, U16IsNat
  <2>3. Spaced(points, SAMPLE_INTERVAL_MS)
    <3> HIDE DEF points
    <3> QED
      BY <2>2, SampledGaps
  <2> QED
    BY <2>1, <2>3
<1> QED
  BY <1>1, <1>2
=============================================================================
