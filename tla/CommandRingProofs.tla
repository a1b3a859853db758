------------------------- MODULE CommandRingProofs -------------------------
(***************************************************************************)
(* What the command processor carries out is what the title put, for every *)
(* size of ring and every program of packets. The invariant has three      *)
(* parts: what the ring holds from one place up to another (Holds), what   *)
(* is left of a walk on the stack (LeadsTo), and who has the mutex (Tied).  *)
(* A walk's step changes what is left on the stack and what was carried    *)
(* out together, so that what the walk comes to stays the same; that is    *)
(* what Meaning is for.                                                    *)
(***************************************************************************)
EXTENDS CommandRing, FoldLemmas

(***************************************************************************)
(* What packets mean                                                       *)
(***************************************************************************)

LEMMA LeafType ==
  ASSUME NEW g \in Gpus, NEW p \in Packets
  PROVE  Leaf(g, p) \in Gpus
<1>1. /\ g.reg \in Int /\ g.report \in Int /\ g.shader \in Int /\ g.bin \in BOOLEAN
      /\ g.draws \in Seq(Int \X Int) /\ p.value \in Int
  BY PacketsAssumption DEF Gpus
<1>2. Append(g.draws, <<g.reg, g.shader>>) \in Seq(Int \X Int)
  BY <1>1
<1> QED
  BY <1>1, <1>2 DEF Leaf, Gpus

\* What lists of packets may mean.
Meanings == [States \X Seq(Packets) -> States]

LEMMA OneType ==
  ASSUME NEW inner, NEW left, left # 0 => inner \in Meanings, NEW m \in States, NEW p \in Packets
  PROVE  One(inner, left, m, p) \in States
<1>1. p.list \in Seq(Packets)
  BY PacketsAssumption
<1>2. m.gpu \in Gpus /\ m.ok \in BOOLEAN
  BY DEF States
<1>3. Leaf(m.gpu, p) \in Gpus
  BY <1>2, LeafType
<1>4. left # 0 => inner[<<m, p.list>>] \in States
  BY <1>1 DEF Meanings
<1>5. [m EXCEPT !.gpu = Leaf(@, p)] \in States /\ [gpu |-> Leaf(m.gpu, p), ok |-> FALSE] \in States
  BY <1>2, <1>3 DEF States
<1> QED
  BY <1>4, <1>5 DEF One

\* f is what a list's packets come to, one after another.
Runs(f, inner, left, m, list) ==
  /\ f \in [0 .. Len(list) -> States]
  /\ f[0] = m
  /\ \A i \in 1 .. Len(list) : f[i] = One(inner, left, f[i - 1], list[i])

\* Meaning[left], given what the lists inside mean.
Level(inner, left) ==
  [x \in States \X Seq(Packets) |->
     LET after[i \in 0 .. Len(x[2])] ==
           IF i = 0 THEN x[1] ELSE One(inner, left, after[i - 1], x[2][i])
     IN after[Len(x[2])]]

LEMMA LevelRuns ==
  ASSUME NEW inner, NEW left, left # 0 => inner \in Meanings, NEW m \in States, NEW list \in Seq(Packets)
  PROVE  \E f : Runs(f, inner, left, m, list) /\ Level(inner, left)[<<m, list>>] = f[Len(list)]
<1> DEFINE n == Len(list)
           Next1(f, i) == IF i = 0 THEN m ELSE One(inner, left, f[i - 1], list[i])
           Defines(f) == f = [i \in 0 .. n |-> Next1(f, i)]
           after == CHOOSE f : Defines(f)
           step == [i \in 1 .. n |-> [w \in States |-> One(inner, left, w, list[i])]]
<1>1. n \in Nat /\ \A i \in 1 .. n : list[i] \in Packets
  OBVIOUS
<1>2. \A i \in 1 .. n, w \in States : One(inner, left, w, list[i]) \in States
  BY <1>1, OneType
<1>3. step \in [1 .. n -> [States -> States]]
  BY <1>2
<1> HIDE DEF step
<1>4. PICK g \in [0 .. n -> States] : Goes(g, m, step, n)
  BY <1>1, <1>3, GoesOn
<1>5. g[0] = m /\ \A i \in 1 .. n : g[i] = One(inner, left, g[i - 1], list[i])
  <2>1. ASSUME NEW i \in 1 .. n PROVE g[i] = One(inner, left, g[i - 1], list[i])
    <3>1. i - 1 \in 0 .. n
      BY <1>1
    <3>2. g[i - 1] \in States
      BY <1>4, <3>1
    <3>3. g[i] = step[i][g[i - 1]]
      BY <1>4 DEF Goes
    <3> QED
      BY <3>2, <3>3 DEF step
  <2> QED
    BY <1>4, <2>1 DEF Goes
<1>6. Defines(g)
  <2>1. ASSUME NEW i \in 0 .. n PROVE g[i] = Next1(g, i)
    BY <1>1, <1>5
  <2> QED
    BY <1>4, <2>1
<1>7. Defines(after)
  <2> HIDE DEF Defines
  <2> QED
    BY <1>6
<1>8. Level(inner, left)[<<m, list>>] = after[n]
  <2>1. <<m, list>> \in States \X Seq(Packets) /\ <<m, list>>[1] = m /\ <<m, list>>[2] = list
    OBVIOUS
  <2> QED
    BY <2>1 DEF Level
<1> HIDE DEF after
<1>9. after[0] = m /\ \A i \in 1 .. n : after[i] = One(inner, left, after[i - 1], list[i])
  BY <1>1, <1>7
<1>10. \A i \in 0 .. n : after[i] = g[i]
  <2> DEFINE C == {i \in 0 .. n : after[i] = g[i]}
  <2>1. 0 \in C /\ \A i \in 1 .. n : i - 1 \in C => i \in C
    BY <1>1, <1>5, <1>9
  <2> HIDE DEF C, n
  <2>2. 0 .. n \subseteq C
    BY <1>1, <2>1, UpTo
  <2> QED
    BY <2>2 DEF C
<1>11. n \in 0 .. n
  BY <1>1
<1> QED
  BY <1>4, <1>5, <1>8, <1>10, <1>11 DEF Runs

LEMMA RunsAgree ==
  ASSUME NEW inner, NEW other, NEW left, left # 0 => inner = other,
         NEW m, NEW list \in Seq(Packets), NEW f, NEW g,
         Runs(f, inner, left, m, list), Runs(g, other, left, m, list)
  PROVE  f[Len(list)] = g[Len(list)]
<1> DEFINE C == {i \in 0 .. Len(list) : f[i] = g[i]}
<1>1. 0 \in C
  BY DEF Runs
<1>2. ASSUME NEW i \in 1 .. Len(list), i - 1 \in C PROVE i \in C
  <2>1. One(inner, left, f[i - 1], list[i]) = One(other, left, g[i - 1], list[i])
    BY <1>2 DEF One
  <2> QED
    BY <2>1 DEF Runs
<1>3. Len(list) \in Nat
  OBVIOUS
<1> HIDE DEF C
<1>4. 0 .. Len(list) \subseteq C
  BY <1>1, <1>2, <1>3, UpTo
<1> QED
  BY <1>3, <1>4 DEF C

LEMMA LevelType ==
  ASSUME NEW inner, NEW left, left # 0 => inner \in Meanings
  PROVE  Level(inner, left) \in Meanings
<1>1. ASSUME NEW m \in States, NEW list \in Seq(Packets) PROVE Level(inner, left)[<<m, list>>] \in States
  <2>1. PICK f : Runs(f, inner, left, m, list) /\ Level(inner, left)[<<m, list>>] = f[Len(list)]
    BY LevelRuns
  <2>2. Len(list) \in 0 .. Len(list)
    OBVIOUS
  <2> QED
    BY <2>1, <2>2 DEF Runs
<1> DEFINE D == States \X Seq(Packets)
<1>2. Level(inner, left) = [x \in D |-> Level(inner, left)[x]]
  BY DEF Level
<1>3. \A x \in D : Level(inner, left)[x] \in States
  BY <1>1
<1> HIDE DEF D
<1>4. Level(inner, left) \in [D -> States]
  BY <1>2, <1>3
<1> QED
  BY <1>4 DEF Meanings, D

LEMMA LevelOfNone ==
  ASSUME NEW inner, NEW other
  PROVE  Level(inner, 0) = Level(other, 0)
<1> DEFINE D == States \X Seq(Packets)
<1>1. ASSUME NEW m \in States, NEW list \in Seq(Packets)
      PROVE  Level(inner, 0)[<<m, list>>] = Level(other, 0)[<<m, list>>]
  <2>1. PICK f : Runs(f, inner, 0, m, list) /\ Level(inner, 0)[<<m, list>>] = f[Len(list)]
    BY LevelRuns
  <2>2. PICK g : Runs(g, other, 0, m, list) /\ Level(other, 0)[<<m, list>>] = g[Len(list)]
    BY LevelRuns
  <2> QED
    BY <2>1, <2>2, RunsAgree
<1>2. \A x \in D : Level(inner, 0)[x] = Level(other, 0)[x]
  BY <1>1
<1>3. Level(inner, 0) \in [D -> States] /\ Level(other, 0) \in [D -> States]
  BY LevelType DEF Meanings
<1> HIDE DEF D
<1> QED
  BY <1>2, <1>3

LEMMA MeaningIs ==
  ASSUME NEW left \in 0 .. MaxDepth
  PROVE  /\ Meaning[left] \in Meanings
         /\ Meaning[left] = Level(Meaning[left - 1], left)
<1> DEFINE Defines(f) == f = [l \in 0 .. MaxDepth |-> Level(f[l - 1], l)]
           step == [i \in 1 .. MaxDepth |-> [w \in Meanings |-> Level(w, i)]]
           base == Level(0, 0)
<1>1. MaxDepth \in Nat
  BY DEF MaxDepth
<1>2. base \in Meanings
  BY LevelType
<1>3. step \in [1 .. MaxDepth -> [Meanings -> Meanings]]
  BY LevelType
<1> HIDE DEF step, base
<1>4. PICK F \in [0 .. MaxDepth -> Meanings] : Goes(F, base, step, MaxDepth)
  BY <1>1, <1>2, <1>3, GoesOn
<1>5. ASSUME NEW l \in 0 .. MaxDepth PROVE F[l] = Level(F[l - 1], l)
  <2>1. CASE l = 0
    <3>1. F[0] = Level(0, 0)
      BY <1>4 DEF Goes, base
    <3> QED
      BY <2>1, <3>1, LevelOfNone
  <2>2. CASE l # 0
    <3>1. l \in 1 .. MaxDepth /\ l - 1 \in 0 .. MaxDepth
      BY <1>1, <2>2
    <3>2. F[l] = step[l][F[l - 1]] /\ F[l - 1] \in Meanings
      BY <1>4, <3>1 DEF Goes
    <3> QED
      BY <3>1, <3>2 DEF step
  <2> QED
    BY <2>1, <2>2
<1>6. Defines(F)
  BY <1>4, <1>5
<1>7. Meaning = CHOOSE f : Defines(f)
  BY DEF Meaning, Level
<1>8. Defines(Meaning)
  <2> HIDE DEF Defines
  <2> QED
    BY <1>6, <1>7
<1>9. \A l \in 0 .. MaxDepth : Meaning[l] = Level(Meaning[l - 1], l)
  BY <1>8
<1> DEFINE C == {l \in 0 .. MaxDepth : Meaning[l] \in Meanings}
<1>10. 0 \in C
  BY <1>1, <1>9, LevelType
<1>11. ASSUME NEW l \in 1 .. MaxDepth, l - 1 \in C PROVE l \in C
  <2>1. Meaning[l - 1] \in Meanings /\ l \in 0 .. MaxDepth
    BY <1>1, <1>11
  <2> QED
    BY <1>9, <2>1, LevelType
<1> HIDE DEF C
<1>12. 0 .. MaxDepth \subseteq C
  BY <1>1, <1>10, <1>11, UpTo
<1> QED
  BY <1>9, <1>12 DEF C

LEMMA MeaningRuns ==
  ASSUME NEW left \in 0 .. MaxDepth, NEW m \in States, NEW list \in Seq(Packets)
  PROVE  /\ left # 0 => Meaning[left - 1] \in Meanings
         /\ Meaning[left][<<m, list>>] \in States
         /\ \E f : Runs(f, Meaning[left - 1], left, m, list) /\ Meaning[left][<<m, list>>] = f[Len(list)]
<1>1. left # 0 => Meaning[left - 1] \in Meanings
  <2>1. left # 0 => left - 1 \in 0 .. MaxDepth
    BY DEF MaxDepth
  <2> QED
    BY <2>1, MeaningIs
<1>2. Meaning[left] = Level(Meaning[left - 1], left)
  BY MeaningIs
<1>3. Meaning[left] \in Meanings
  BY MeaningIs
<1>4. <<m, list>> \in States \X Seq(Packets)
  OBVIOUS
<1>5. Meaning[left][<<m, list>>] \in States
  BY <1>3, <1>4 DEF Meanings
<1>6. \E f : Runs(f, Meaning[left - 1], left, m, list) /\ Meaning[left][<<m, list>>] = f[Len(list)]
  BY <1>1, <1>2, LevelRuns
<1> QED
  BY <1>1, <1>5, <1>6

\* No packet, no change.
LEMMA MeansNothing ==
  ASSUME NEW left \in 0 .. MaxDepth, NEW m \in States
  PROVE  Meaning[left][<<m, <<>>>>] = m
<1>1. <<>> \in Seq(Packets) /\ Len(<<>>) = 0
  OBVIOUS
<1>2. PICK f : Runs(f, Meaning[left - 1], left, m, <<>>) /\ Meaning[left][<<m, <<>>>>] = f[Len(<<>>)]
  BY <1>1, MeaningRuns
<1> QED
  BY <1>1, <1>2 DEF Runs

\* After a failure nothing is carried out.
LEMMA MeansFailure ==
  ASSUME NEW left \in 0 .. MaxDepth, NEW m \in States, ~ m.ok, NEW list \in Seq(Packets)
  PROVE  Meaning[left][<<m, list>>] = m
<1>1. PICK f : Runs(f, Meaning[left - 1], left, m, list) /\ Meaning[left][<<m, list>>] = f[Len(list)]
  BY MeaningRuns
<1> DEFINE C == {i \in 0 .. Len(list) : f[i] = m}
<1>3. Len(list) \in Nat
  OBVIOUS
<1>2. 0 \in C /\ \A i \in 1 .. Len(list) : i - 1 \in C => i \in C
  <2>1. 0 \in C
    BY <1>1, <1>3 DEF Runs
  <2>2. ASSUME NEW i \in 1 .. Len(list), f[i - 1] = m PROVE f[i] = m
    BY <1>1, <2>2 DEF Runs, One
  <2> QED
    BY <2>1, <2>2
<1> HIDE DEF C
<1>4. 0 .. Len(list) \subseteq C
  BY <1>2, <1>3, UpTo
<1> QED
  BY <1>1, <1>3, <1>4 DEF C

\* The first packet, then the others.
LEMMA MeansFirst ==
  ASSUME NEW left \in 0 .. MaxDepth, NEW m \in States, NEW list \in Seq(Packets), list # <<>>
  PROVE  LET then == One(Meaning[left - 1], left, m, Head(list)) IN
         then \in States /\ Meaning[left][<<m, list>>] = Meaning[left][<<then, Tail(list)>>]
<1> DEFINE inner == Meaning[left - 1]
           then == One(inner, left, m, Head(list))
           rest == Tail(list)
<1>1. /\ Head(list) \in Packets /\ Head(list) = list[1] /\ rest \in Seq(Packets)
      /\ Len(list) \in Nat /\ Len(list) = Len(rest) + 1 /\ Len(rest) \in Nat
      /\ \A i \in 1 .. Len(rest) : rest[i] = list[i + 1]
  OBVIOUS
<1>2. left # 0 => inner \in Meanings
  BY MeaningRuns
<1>3. then \in States
  BY <1>1, <1>2, OneType
<1>4. PICK f : Runs(f, inner, left, m, list) /\ Meaning[left][<<m, list>>] = f[Len(list)]
  BY MeaningRuns
<1> HIDE DEF inner
<1> HIDE DEF then, rest
<1>5. PICK g : Runs(g, inner, left, then, rest) /\ Meaning[left][<<then, rest>>] = g[Len(rest)]
  BY <1>1, <1>3, MeaningRuns DEF inner
<1> DEFINE h == [i \in 0 .. Len(rest) |-> f[i + 1]]
<1>6. Runs(h, inner, left, then, rest)
  <2>1. h \in [0 .. Len(rest) -> States]
    BY <1>1, <1>4 DEF Runs
  <2>2. h[0] = then
    BY <1>1, <1>4 DEF Runs, then
  <2>3. ASSUME NEW i \in 1 .. Len(rest) PROVE h[i] = One(inner, left, h[i - 1], rest[i])
    <3>1. i + 1 \in 1 .. Len(list) /\ (i + 1) - 1 = i
      BY <1>1
    <3>2. f[i + 1] = One(inner, left, f[i], list[i + 1])
      BY <1>4, <3>1 DEF Runs
    <3>3. h[i] = f[i + 1] /\ h[i - 1] = f[i]
      BY <1>1
    <3> QED
      BY <1>1, <3>2, <3>3
  <2> QED
    BY <2>1, <2>2, <2>3 DEF Runs
<1>7. h[Len(rest)] = f[Len(list)]
  BY <1>1
<1> HIDE DEF h
<1>8. h[Len(rest)] = g[Len(rest)]
  BY <1>1, <1>5, <1>6, RunsAgree
<1>9. Meaning[left][<<m, list>>] = Meaning[left][<<then, rest>>]
  BY <1>4, <1>5, <1>7, <1>8
<1> QED
  BY <1>3, <1>9 DEF then, rest, inner

\* f is what the batches come to.
Totals(f, batches) ==
  /\ f \in [0 .. Len(batches) -> Gpus]
  /\ f[0] = Blank
  /\ \A i \in 1 .. Len(batches) :
       f[i] = Meaning[MaxDepth][<<[gpu |-> f[i - 1], ok |-> TRUE], batches[i]>>].gpu

LEMMA BatchType ==
  ASSUME NEW g \in Gpus, NEW list \in Seq(Packets)
  PROVE  Meaning[MaxDepth][<<[gpu |-> g, ok |-> TRUE], list>>].gpu \in Gpus
<1>1. [gpu |-> g, ok |-> TRUE] \in States /\ MaxDepth \in 0 .. MaxDepth
  BY DEF States, MaxDepth
<1>2. Meaning[MaxDepth][<<[gpu |-> g, ok |-> TRUE], list>>] \in States
  BY <1>1, MeaningRuns
<1> QED
  BY <1>2 DEF States

LEMMA TotalIs ==
  ASSUME NEW batches \in Seq(Seq(Packets))
  PROVE  \E f : Totals(f, batches) /\ Total(batches) = f[Len(batches)]
<1> DEFINE n == Len(batches)
           Means(g, i) == Meaning[MaxDepth][<<[gpu |-> g, ok |-> TRUE], batches[i]>>].gpu
           Defines(f) == f = [i \in 0 .. n |-> IF i = 0 THEN Blank ELSE Means(f[i - 1], i)]
           after == CHOOSE f : Defines(f)
           step == [i \in 1 .. n |-> [g \in Gpus |-> Means(g, i)]]
<1>1. n \in Nat /\ Blank \in Gpus /\ \A i \in 1 .. n : batches[i] \in Seq(Packets)
  BY DEF Blank, Gpus
<1>2. \A i \in 1 .. n, g \in Gpus : Means(g, i) \in Gpus
  BY <1>1, BatchType
<1> HIDE DEF Means
<1>3. step \in [1 .. n -> [Gpus -> Gpus]]
  BY <1>2
<1> HIDE DEF step
<1>4. PICK g \in [0 .. n -> Gpus] : Goes(g, Blank, step, n)
  BY <1>1, <1>3, GoesOn
<1>5. g[0] = Blank /\ \A i \in 1 .. n : g[i] = Means(g[i - 1], i)
  <2>1. ASSUME NEW i \in 1 .. n PROVE g[i] = Means(g[i - 1], i)
    <3>1. i - 1 \in 0 .. n
      BY <1>1
    <3>2. g[i - 1] \in Gpus /\ g[i] = step[i][g[i - 1]]
      BY <1>4, <3>1 DEF Goes
    <3> QED
      BY <3>2 DEF step
  <2> QED
    BY <1>4, <2>1 DEF Goes
<1>6. Defines(g)
  BY <1>1, <1>4, <1>5
<1>7. Total(batches) = after[n]
  BY DEF Total, Means
<1>8. Defines(after)
  <2> HIDE DEF Defines
  <2> QED
    BY <1>6
<1> HIDE DEF after
<1>9. after[0] = Blank /\ \A i \in 1 .. n : after[i] = Means(after[i - 1], i)
  <2>1. \A i \in 0 .. n : after[i] = IF i = 0 THEN Blank ELSE Means(after[i - 1], i)
    BY <1>8
  <2> QED
    BY <1>1, <2>1
<1>10. \A i \in 0 .. n : after[i] = g[i]
  <2> DEFINE C == {i \in 0 .. n : after[i] = g[i]}
  <2>1. 0 \in C /\ \A i \in 1 .. n : i - 1 \in C => i \in C
    BY <1>1, <1>5, <1>9
  <2> HIDE DEF C, n
  <2>2. 0 .. n \subseteq C
    BY <1>1, <2>1, UpTo
  <2> QED
    BY <2>2 DEF C
<1>11. n \in 0 .. n
  BY <1>1
<1> QED
  BY <1>4, <1>5, <1>7, <1>10, <1>11 DEF Totals, Means

\* One more batch, carried out after the others.
LEMMA TotalGrows ==
  ASSUME NEW batches \in Seq(Seq(Packets)), NEW list \in Seq(Packets)
  PROVE  /\ Total(batches) \in Gpus
         /\ Total(Append(batches, list)) = Meaning[MaxDepth][<<[gpu |-> Total(batches), ok |-> TRUE], list>>].gpu
<1> DEFINE n == Len(batches)
           more == Append(batches, list)
<1>1. /\ n \in Nat /\ more \in Seq(Seq(Packets)) /\ Len(more) = n + 1 /\ more[n + 1] = list
      /\ \A i \in 1 .. n : more[i] = batches[i]
  OBVIOUS
<1> HIDE DEF more
<1>2. PICK f : Totals(f, batches) /\ Total(batches) = f[n]
  BY TotalIs
<1>3. PICK g : Totals(g, more) /\ Total(more) = g[n + 1]
  BY <1>1, TotalIs
<1> DEFINE C == {i \in 0 .. n : f[i] = g[i]}
<1>4. 0 \in C
  BY <1>1, <1>2, <1>3 DEF Totals
<1>5. ASSUME NEW i \in 1 .. n, i - 1 \in C PROVE i \in C
  <2>1. i \in 1 .. n + 1 /\ more[i] = batches[i] /\ f[i - 1] = g[i - 1] /\ i \in 0 .. n
    BY <1>1, <1>5
  <2>2. f[i] = g[i]
    BY <1>1, <1>2, <1>3, <2>1 DEF Totals
  <2> QED
    BY <2>1, <2>2
<1> HIDE DEF C
<1>6. 0 .. n \subseteq C
  BY <1>1, <1>4, <1>5, UpTo
<1>7. f[n] = g[n] /\ f[n] \in Gpus
  <2>1. n \in 0 .. n
    BY <1>1
  <2> QED
    BY <1>2, <1>6, <2>1 DEF Totals, C
<1>8. g[n + 1] = Meaning[MaxDepth][<<[gpu |-> g[n], ok |-> TRUE], list>>].gpu
  <2>1. n + 1 \in 1 .. Len(more) /\ (n + 1) - 1 = n
    BY <1>1
  <2> QED
    BY <1>1, <1>3, <2>1 DEF Totals
<1> QED
  BY <1>2, <1>3, <1>7, <1>8 DEF more

(***************************************************************************)
(* The ring                                                                *)
(***************************************************************************)

\* Where a number of words takes one, and a ring with a packet put in it.
Past(a) == a % RingSize
Stored(r, to, p) ==
  [w \in 0 .. RingSize - 1 |-> IF Past(w - to) = 0 THEN p ELSE IF Past(w - to) < p.len THEN Payload ELSE r[w]]

Fits(from, to, p) == p.len <= Past(from - to - 1)

LEMMA ModOf ==
  ASSUME NEW S \in Nat \ {0}, NEW a \in Int, -S <= a, a < 2 * S
  PROVE  a % S = (IF a < 0 THEN a + S ELSE IF a < S THEN a ELSE a - S)
<1>1. a = S * (a \div S) + (a % S) /\ a % S \in 0 .. S - 1 /\ a \div S \in Int
  OBVIOUS
<1> DEFINE q == a \div S
           m == a % S
<1> HIDE DEF q, m
<1>2. a = S * q + m /\ m \in 0 .. S - 1 /\ q \in Int
  BY <1>1 DEF q, m
<1>3. CASE a < 0
  <2>1. q = -1
    BY <1>2, <1>3, SMTT(30)
  <2> QED
    BY <1>2, <1>3, <2>1 DEF m
<1>4. CASE 0 <= a /\ a < S
  <2>1. q = 0
    BY <1>2, <1>4, SMTT(30)
  <2> QED
    BY <1>2, <1>4, <2>1 DEF m
<1>5. CASE S <= a
  <2>1. q = 1
    BY <1>2, <1>5, SMTT(30)
  <2> QED
    BY <1>2, <1>5, <2>1 DEF m
<1> QED
  BY <1>3, <1>4, <1>5

LEMMA RingMod ==
  ASSUME NEW a \in Int, -RingSize <= a, a < 2 * RingSize
  PROVE  /\ Past(a) = (IF a < 0 THEN a + RingSize ELSE IF a < RingSize THEN a ELSE a - RingSize)
         /\ Past(a) \in 0 .. RingSize - 1
<1>1. RingSize \in Nat \ {0}
  BY RingSizeAssumption
<1>2. Past(a) = (IF a < 0 THEN a + RingSize ELSE IF a < RingSize THEN a ELSE a - RingSize)
  BY <1>1, ModOf DEF Past
<1> QED
  BY <1>1, <1>2

\* Past the ring's last word comes its first.
Wrap(a) == IF a < RingSize THEN a ELSE a - RingSize

LEMMA PastIs ==
  ASSUME NEW a \in Int, -RingSize <= a, a < 2 * RingSize
  PROVE  /\ a < 0 => Past(a) = a + RingSize
         /\ a >= 0 => Past(a) = Wrap(a)
         /\ Past(a) \in 0 .. RingSize - 1
<1>1. Past(a) = (IF a < 0 THEN a + RingSize ELSE IF a < RingSize THEN a ELSE a - RingSize)
  BY RingMod
<1>2. Past(a) \in 0 .. RingSize - 1
  BY RingMod
<1> QED
  BY <1>1, <1>2 DEF Wrap

\* Places that are so many words after the place x.
LEMMA WrapIs ==
  ASSUME NEW x \in 0 .. RingSize - 1, NEW a \in 0 .. RingSize - 1
  PROVE  /\ Wrap(x + a) \in 0 .. RingSize - 1
         /\ x + a < RingSize => Wrap(x + a) = x + a
         /\ ~ (x + a < RingSize) => Wrap(x + a) = x + a - RingSize
BY RingSizeAssumption DEF Wrap

LEMMA WrapOn ==
  ASSUME NEW x \in 0 .. RingSize - 1, NEW a \in 0 .. RingSize - 1, NEW b \in 0 .. RingSize - 1, a + b < RingSize
  PROVE  /\ Past(Wrap(x + a) + b) = Wrap(x + (a + b))
         /\ Wrap(Wrap(x + a) + b) = Wrap(x + (a + b))
<1>1. RingSize \in Nat \ {0} /\ a + b \in 0 .. RingSize - 1
  BY RingSizeAssumption
<1>2. PICK w \in 0 .. RingSize - 1 : /\ w = Wrap(x + a)
                                     /\ x + a < RingSize => w = x + a
                                     /\ ~ (x + a < RingSize) => w = x + a - RingSize
  BY WrapIs
<1>3. PICK v \in 0 .. RingSize - 1 : /\ v = Wrap(x + (a + b))
                                     /\ x + (a + b) < RingSize => v = x + (a + b)
                                     /\ ~ (x + (a + b) < RingSize) => v = x + (a + b) - RingSize
  BY <1>1, WrapIs
<1>4. PICK u \in 0 .. RingSize - 1 : /\ u = Wrap(w + b)
                                     /\ w + b < RingSize => u = w + b
                                     /\ ~ (w + b < RingSize) => u = w + b - RingSize
  BY WrapIs
<1>5. u = v
  BY <1>1, <1>2, <1>3, <1>4
<1>6. PICK sum \in Int : sum = w + b /\ sum >= 0 /\ -RingSize <= sum /\ sum < 2 * RingSize
  BY <1>1
<1>7. Past(sum) = Wrap(sum)
  BY <1>6, PastIs
<1> QED
  BY <1>2, <1>3, <1>4, <1>5, <1>6, <1>7

LEMMA Apart ==
  ASSUME NEW x \in 0 .. RingSize - 1, NEW a \in 0 .. RingSize - 1, NEW b \in 0 .. RingSize - 1
  PROVE  Past(Wrap(x + a) - Wrap(x + b)) = IF a < b THEN a - b + RingSize ELSE a - b
<1>1. RingSize \in Nat \ {0}
  BY RingSizeAssumption
<1>2. PICK w \in 0 .. RingSize - 1 : /\ w = Wrap(x + a)
                                     /\ x + a < RingSize => w = x + a
                                     /\ ~ (x + a < RingSize) => w = x + a - RingSize
  BY WrapIs
<1>3. PICK v \in 0 .. RingSize - 1 : /\ v = Wrap(x + b)
                                     /\ x + b < RingSize => v = x + b
                                     /\ ~ (x + b < RingSize) => v = x + b - RingSize
  BY WrapIs
<1>4. PICK d \in Int : d = w - v
  OBVIOUS
<1>5. -RingSize <= d /\ d < RingSize /\ d < 2 * RingSize
  BY <1>1, <1>4
<1>6. /\ d < 0 => Past(d) = d + RingSize
      /\ d >= 0 => Past(d) = d
  BY <1>1, <1>5, PastIs DEF Wrap
<1>7. IF a < b THEN d = a - b \/ d = a - b + RingSize ELSE d = a - b \/ d = a - b - RingSize
  BY <1>1, <1>2, <1>3, <1>4
<1>8. Past(d) = IF a < b THEN a - b + RingSize ELSE a - b
  BY <1>1, <1>5, <1>6, <1>7
<1> QED
  BY <1>2, <1>3, <1>4, <1>8

LEMMA Gap ==
  ASSUME NEW x \in 0 .. RingSize - 1, NEW a \in 0 .. RingSize - 1
  PROVE  Past(x - Wrap(x + a) - 1) = RingSize - 1 - a
<1>1. RingSize \in Nat \ {0}
  BY RingSizeAssumption
<1>2. PICK w \in 0 .. RingSize - 1 : /\ w = Wrap(x + a)
                                     /\ x + a < RingSize => w = x + a
                                     /\ ~ (x + a < RingSize) => w = x + a - RingSize
  BY WrapIs
<1>3. PICK d \in Int : d = x - w - 1
  OBVIOUS
<1>4. -RingSize <= d /\ d < RingSize /\ d < 2 * RingSize
  BY <1>1, <1>3
<1>5. /\ d < 0 => Past(d) = d + RingSize
      /\ d >= 0 => Past(d) = d
  BY <1>1, <1>4, PastIs DEF Wrap
<1>6. d = -a - 1 \/ d = RingSize - a - 1
  BY <1>1, <1>2, <1>3
<1>7. Past(d) = RingSize - 1 - a
  BY <1>1, <1>4, <1>5, <1>6
<1> QED
  BY <1>2, <1>3, <1>7

\* From one place up to another the ring r holds the packets of a list, each of them
\* off[i] words after the place.
Placed(off, r, from, list, to) ==
  LET n == Len(list) IN
  /\ off \in [1 .. n + 1 -> 0 .. RingSize - 1]
  /\ off[1] = 0 /\ to = Wrap(from + off[n + 1])
  /\ \A i \in 1 .. n :
       /\ list[i].len \in 1 .. RingSize - 1 /\ off[i + 1] = off[i] + list[i].len
       /\ off[i] < off[n + 1]
       /\ r[Wrap(from + off[i])] = list[i]
Holds(r, from, list, to) == \E off : Placed(off, r, from, list, to)

LEMMA HoldsNothing ==
  ASSUME NEW r, NEW from \in 0 .. RingSize - 1
  PROVE  Holds(r, from, <<>>, from)
<1> DEFINE off == [i \in 1 .. 1 |-> 0]
<1>1. RingSize \in Nat \ {0} /\ Len(<<>>) = 0
  BY RingSizeAssumption
<1>2. off \in [1 .. 0 + 1 -> 0 .. RingSize - 1] /\ off[1] = 0 /\ off[0 + 1] = 0 /\ 1 .. 0 = {}
  BY <1>1
<1> HIDE DEF off
<1>3. Placed(off, r, from, <<>>, from)
  BY <1>1, <1>2 DEF Placed, Wrap
<1> QED
  BY <1>3 DEF Holds

\* What is put comes after what is there, and over none of it.
LEMMA HoldsMore ==
  ASSUME NEW r, NEW from \in 0 .. RingSize - 1, NEW to \in 0 .. RingSize - 1,
         NEW list \in Seq(Packets), Holds(r, from, list, to),
         NEW p \in Packets, p.len \in 1 .. RingSize - 1, Fits(from, to, p)
  PROVE  Holds(Stored(r, to, p), from, Append(list, p), Past(to + p.len))
<1> DEFINE s == Stored(r, to, p)
           more == Append(list, p)
<1>1. PICK off : Placed(off, r, from, list, to)
  BY DEF Holds
<1>2. PICK n \in Nat : n = Len(list) /\ RingSize \in Nat \ {0}
  BY RingSizeAssumption
<1>3. /\ Len(more) = n + 1 /\ more[n + 1] = p
      /\ \A i \in 1 .. n : more[i] = list[i]
  BY <1>2
<1>4. PICK used \in 0 .. RingSize - 1 : used = off[n + 1] /\ to = Wrap(from + used)
  <2>1. off[n + 1] \in 0 .. RingSize - 1 
    BY <1>1, <1>2, n + 1 \in 1 .. n + 1 DEF Placed
  <2>2. to = Wrap(from + off[n + 1])
    BY <1>1, <1>2, n + 1 \in 1 .. n + 1 DEF Placed
  <2> QED
    BY <2>1, <2>2
<1>5. PICK len \in 1 .. RingSize - 1 : len = p.len
  OBVIOUS
<1>6. used + len \in 0 .. RingSize - 1 /\ used + len < RingSize
  <2>1. Past(from - to - 1) = RingSize - 1 - used
    BY <1>4, Gap
  <2>2. len <= Past(from - to - 1)
    BY <1>5 DEF Fits
  <2> QED
    BY <1>2, <2>1, <2>2
<1>7. Past(to + len) = Wrap(from + (used + len))
  <2>1. Past(Wrap(from + used) + len) = Wrap(from + (used + len))
    BY <1>6, WrapOn
  <2> QED
    BY <1>4, <2>1
<1> HIDE DEF more, s
<1> DEFINE new == [i \in 1 .. n + 2 |-> IF i = n + 2 THEN used + len ELSE off[i]]
<1>8. /\ \A i \in 1 .. n + 1 : off[i] \in 0 .. RingSize - 1
      /\ off[1] = 0
      /\ \A i \in 1 .. n :
           /\ list[i].len \in 1 .. RingSize - 1 /\ off[i + 1] = off[i] + list[i].len
           /\ off[i] < used
           /\ r[Wrap(from + off[i])] = list[i]
  <2>1. /\ \A i \in 1 .. n + 1 : off[i] \in 0 .. RingSize - 1
        /\ off[1] = 0
        /\ \A i \in 1 .. n :
             /\ list[i].len \in 1 .. RingSize - 1 /\ off[i + 1] = off[i] + list[i].len
             /\ off[i] < off[n + 1]
             /\ r[Wrap(from + off[i])] = list[i]
    BY <1>1, <1>2, n + 1 \in 1 .. n + 1 DEF Placed
  <2> QED
    BY <1>4, <2>1
<1>9. new \in [1 .. n + 2 -> 0 .. RingSize - 1]
  <2>1. ASSUME NEW i \in 1 .. n + 2 PROVE new[i] \in 0 .. RingSize - 1
    <3>1. i # n + 2 => i \in 1 .. n + 1
      BY <1>2
    <3> QED
      BY <1>6, <1>8, <3>1
  <2> QED
    BY <2>1
<1>10. /\ new[1] = 0 /\ new[n + 2] = used + len /\ new[n + 1] = used
       /\ \A i \in 1 .. n : new[i] = off[i] /\ new[i + 1] = off[i + 1]
  BY <1>2, <1>4, <1>8
<1> HIDE DEF new
<1>11. ASSUME NEW i \in 1 .. n + 1
       PROVE  /\ more[i].len \in 1 .. RingSize - 1 /\ new[i + 1] = new[i] + more[i].len
              /\ new[i] < new[n + 2]
              /\ s[Wrap(from + new[i])] = more[i]
  <2>1. CASE i = n + 1
    <3>1. new[i] = used /\ new[i + 1] = used + len /\ more[i] = p
      <4>1. i + 1 = n + 2
        BY <1>2, <2>1
      <4> QED
        BY <1>3, <1>10, <2>1, <4>1
    <3>2. Past(to - to) = 0
      BY <1>2, <1>4, Apart
    <3>3. s[to] = p
      BY <3>2 DEF s, Stored
    <3>4. used < used + len
      BY <1>2
    <3> QED
      BY <1>4, <1>5, <1>10, <3>1, <3>3, <3>4
  <2>2. CASE i # n + 1
    <3>1. i \in 1 .. n /\ i \in 1 .. n + 1
      BY <1>2, <2>2
    <3>2. PICK o \in 0 .. RingSize - 1 : o = off[i] /\ o < used /\ r[Wrap(from + o)] = list[i]
      BY <1>8, <3>1
    <3>3. PICK w \in 0 .. RingSize - 1 : w = Wrap(from + o)
      BY WrapIs
    <3>4. Past(w - to) = o - used + RingSize
      BY <1>4, <3>2, <3>3, Apart
    <3>5. o - used + RingSize # 0 /\ ~ (o - used + RingSize < len)
      <4>1. used + len < RingSize /\ o < used
        BY <1>6, <3>2
      <4>2. RingSize \in Nat
        BY <1>2
      <4> QED
        BY ONLY <4>1, <4>2, o \in 0 .. RingSize - 1, used \in 0 .. RingSize - 1, len \in 1 .. RingSize - 1
    <3>6. s[w] = r[w]
      BY <1>5, <3>4, <3>5 DEF s, Stored
    <3>7. o < used + len
      BY <1>2, <3>2
    <3> QED
      BY <1>3, <1>8, <1>10, <3>1, <3>2, <3>3, <3>6, <3>7
  <2> QED
    BY <2>1, <2>2
<1>12. Placed(new, s, from, more, Past(to + p.len))
  <2>1. (n + 1) + 1 = n + 2
    BY <1>2
  <2>2. Past(to + p.len) = Wrap(from + new[n + 2])
    BY <1>5, <1>7, <1>10
  <2> QED
    BY <1>3, <1>9, <1>10, <1>11, <2>1, <2>2 DEF Placed
<1> QED
  BY <1>12 DEF Holds, more, s

\* The place is the last one with the list done, before that it holds the list's first.
LEMMA HoldsFirst ==
  ASSUME NEW r, NEW from \in 0 .. RingSize - 1, NEW to \in 0 .. RingSize - 1,
         NEW list \in Seq(Packets), Holds(r, from, list, to)
  PROVE  /\ from = to <=> list = <<>>
         /\ list # <<>> =>
              /\ r[from] = Head(list)
              /\ Past(from + Head(list).len) \in 0 .. RingSize - 1
              /\ Holds(r, Past(from + Head(list).len), Tail(list), to)
<1>1. PICK off : Placed(off, r, from, list, to)
  BY DEF Holds
<1>2. PICK n \in Nat : n = Len(list) /\ RingSize \in Nat \ {0}
  BY RingSizeAssumption
<1>3. CASE list = <<>>
  BY <1>1, <1>2, <1>3 DEF Placed, Wrap
<1>4. CASE list # <<>>
  <2> DEFINE rest == Tail(list)
  <2>1. /\ Head(list) = list[1] /\ rest \in Seq(Packets) /\ n = Len(rest) + 1 /\ Len(rest) \in Nat /\ 1 \in 1 .. n
        /\ \A i \in 1 .. Len(rest) : rest[i] = list[i + 1]
    BY <1>2, <1>4
  <2> HIDE DEF rest
  <2>2. /\ \A i \in 1 .. n + 1 : off[i] \in 0 .. RingSize - 1
        /\ off[1] = 0 /\ off[n + 1] \in 0 .. RingSize - 1
        /\ to = Wrap(from + off[n + 1])
        /\ \A i \in 1 .. n :
             /\ list[i].len \in 1 .. RingSize - 1 /\ off[i + 1] = off[i] + list[i].len
             /\ off[i] < off[n + 1]
             /\ r[Wrap(from + off[i])] = list[i]
    BY <1>1, <1>2, n + 1 \in 1 .. n + 1 DEF Placed
  <2>3. PICK len \in 1 .. RingSize - 1 : len = Head(list).len
    BY <2>1, <2>2
  <2>4. PICK used \in 0 .. RingSize - 1 : used = off[n + 1] /\ 0 < used /\ to = Wrap(from + used)
    BY <2>1, <2>2
  <2>5. from = Wrap(from + 0) /\ 0 \in 0 .. RingSize - 1
    BY <1>2 DEF Wrap
  <2>6. from # to /\ r[from] = Head(list)
    <3>1. from # to
      BY <1>2, <2>4, WrapIs
    <3>2. r[Wrap(from + 0)] = list[1]
      BY <2>1, <2>2
    <3> QED
      BY <2>1, <2>5, <3>1, <3>2
  <2>7. PICK next \in 0 .. RingSize - 1 : next = Past(from + len) /\ next = Wrap(from + len)
    <3>0. 0 + len < RingSize /\ len \in 0 .. RingSize - 1
      BY <1>2
    <3>1. Past(Wrap(from + 0) + len) = Wrap(from + (0 + len))
      BY <2>5, <3>0, WrapOn
    <3>2. Wrap(from + len) \in 0 .. RingSize - 1
      BY <1>2, WrapIs
    <3>3. 0 + len = len
      OBVIOUS
    <3> QED
      BY <2>5, <3>1, <3>2, <3>3
  <2>8. \A i \in 0 .. Len(rest) : off[i + 2] \in len .. RingSize - 1
    <3> DEFINE C == {i \in 0 .. Len(rest) : off[i + 2] \in len .. RingSize - 1}
    <3>1. 0 \in C
      <4>1. off[1 + 1] = off[1] + list[1].len /\ 0 + 2 = 2 /\ 1 + 1 = 2
        BY <2>1, <2>2
      <4>2. off[2] = len
        BY <2>1, <2>2, <2>3, <4>1
      <4> QED
        BY <1>2, <2>1, <4>1, <4>2
    <3>2. ASSUME NEW i \in 1 .. Len(rest), i - 1 \in C PROVE i \in C
      <4>1. /\ i + 1 \in 1 .. n /\ i + 2 \in 1 .. n + 1 /\ (i - 1) + 2 = i + 1 /\ (i + 1) + 1 = i + 2
            /\ i \in 0 .. Len(rest)
        BY <2>1
      <4>2. PICK l \in 1 .. RingSize - 1 : l = list[i + 1].len /\ off[i + 2] = off[i + 1] + l
        BY <2>2, <4>1
      <4>3. off[i + 1] \in len .. RingSize - 1 /\ off[i + 2] \in 0 .. RingSize - 1
        BY <2>2, <3>2, <4>1
      <4>4. PICK a \in len .. RingSize - 1, b \in 0 .. RingSize - 1 : a = off[i + 1] /\ b = off[i + 2]
        BY <4>3
      <4>5. b = a + l
        BY <4>2, <4>4
      <4>6. b \in len .. RingSize - 1
        BY <1>2, <4>5
      <4> QED
        BY <4>1, <4>4, <4>6
    <3> HIDE DEF C
    <3>3. 0 .. Len(rest) \subseteq C
      BY <2>1, <3>1, <3>2, UpTo
    <3> QED
      BY <3>3 DEF C
  <2> DEFINE new == [i \in 1 .. Len(rest) + 1 |-> off[i + 1] - len]
  <2>9. ASSUME NEW i \in 1 .. Len(rest) + 1
        PROVE  off[i + 1] \in len .. RingSize - 1 /\ new[i] = off[i + 1] - len /\ new[i] \in 0 .. RingSize - 1
    <3>1. i - 1 \in 0 .. Len(rest) /\ (i - 1) + 2 = i + 1
      BY <2>1
    <3>2. off[i + 1] \in len .. RingSize - 1
      BY <2>8, <3>1
    <3> QED
      BY <1>2, <3>2
  <2>10. new \in [1 .. Len(rest) + 1 -> 0 .. RingSize - 1]
    BY <2>9
  <2> HIDE DEF new
  <2>11. new[1] = 0
    <3>1. 1 \in 1 .. Len(rest) + 1 /\ 1 + 1 = 2
      BY <2>1
    <3>2. off[1 + 1] = off[1] + list[1].len
      BY <2>1, <2>2
    <3>3. off[2] = len
      BY <2>1, <2>2, <2>3, <3>1, <3>2
    <3>4. new[1] = off[1 + 1] - len
      BY <2>9, <3>1
    <3> QED
      BY <3>1, <3>3, <3>4
  <2>12. new[Len(rest) + 1] = used - len /\ used \in len .. RingSize - 1
    <3>1. Len(rest) + 1 \in 1 .. Len(rest) + 1 /\ (Len(rest) + 1) + 1 = n + 1
      BY <2>1
    <3> QED
      BY <2>4, <2>9, <3>1
  <2>13. to = Wrap(next + new[Len(rest) + 1])
    <3>1. PICK b \in 0 .. RingSize - 1 : b = used - len /\ len + b = used /\ len + b < RingSize /\ len \in 0 .. RingSize - 1
      BY <1>2, <2>12
    <3>2. Wrap(Wrap(from + len) + b) = Wrap(from + (len + b))
      BY <3>1, WrapOn
    <3> QED
      BY <2>4, <2>7, <2>12, <3>1, <3>2
  <2>14. ASSUME NEW i \in 1 .. Len(rest)
         PROVE  /\ rest[i].len \in 1 .. RingSize - 1 /\ new[i + 1] = new[i] + rest[i].len
                /\ new[i] < new[Len(rest) + 1]
                /\ r[Wrap(next + new[i])] = rest[i]
    <3>1. /\ i + 1 \in 1 .. n /\ rest[i] = list[i + 1]
          /\ i \in 1 .. Len(rest) + 1 /\ i + 1 \in 1 .. Len(rest) + 1
      BY <2>1
    <3>2. PICK a \in len .. RingSize - 1 : a = off[i + 1] /\ a < used /\ r[Wrap(from + a)] = list[i + 1] /\ new[i] = a - len
      BY <2>2, <2>4, <2>9, <3>1
    <3>3. PICK b \in len .. RingSize - 1 : b = off[(i + 1) + 1] /\ new[i + 1] = b - len
      BY <2>9, <3>1
    <3>4. PICK l \in 1 .. RingSize - 1 : l = list[i + 1].len /\ b = a + l
      BY <2>2, <3>1, <3>2, <3>3
    <3>5. Wrap(Wrap(from + len) + (a - len)) = Wrap(from + a)
      <4>1. PICK c \in 0 .. RingSize - 1 : c = a - len /\ len + c = a /\ len + c < RingSize /\ len \in 0 .. RingSize - 1
        BY <1>2
      <4>2. Wrap(Wrap(from + len) + c) = Wrap(from + (len + c))
        BY <4>1, WrapOn
      <4> QED
        BY <4>1, <4>2
    <3>6. r[Wrap(next + new[i])] = rest[i]
      BY <2>7, <3>1, <3>2, <3>5
    <3>7. new[i + 1] = new[i] + l
      <4>1. b - len = (a - len) + l
        BY <3>4
      <4> QED
        BY <3>2, <3>3, <4>1
    <3>8. new[i] < new[Len(rest) + 1]
      BY <1>2, <2>12, <3>2
    <3> QED
      BY <3>1, <3>4, <3>6, <3>7, <3>8
  <2>15. Placed(new, r, next, rest, to)
    BY <2>10, <2>11, <2>13, <2>14 DEF Placed
  <2> QED
    BY <1>4, <2>3, <2>6, <2>7, <2>15 DEF Holds, rest
<1> QED
  BY <1>3, <1>4

-----------------------------------------------------------------------------
(***************************************************************************)
(* What is left of a walk                                                  *)
(***************************************************************************)

\* A frame of an indirect buffer that has still to carry out the packets of rest.
Remains(f, rest) ==
  LET n == Len(f.list) IN
  /\ f.list \in Seq(Packets) /\ f.at \in 1 .. n + 1 /\ f.end = n + 1
  /\ Len(rest) = n + 1 - f.at
  /\ \A i \in 1 .. Len(rest) : rest[i] = f.list[f.at + i - 1]

\* The same for the frame at place k of the stack, the first of which is the ring's.
Rest(r, f, k, rest) ==
  IF k = 1 THEN f.at \in 0 .. RingSize - 1 /\ f.end \in 0 .. RingSize - 1 /\ Holds(r, f.at, rest, f.end)
  ELSE Remains(f, rest)

\* Frame k has rests[k] left, and states[k - 1] is what the walk comes to with the
\* frames from k on done: now states[Len(st)], at its end states[0].
Track(r, st, g, goal, rests, states) ==
  LET d == Len(st) IN
  /\ rests \in [1 .. d -> Seq(Packets)] /\ states \in [0 .. d -> States]
  /\ states[0].gpu = goal /\ states[d].gpu = g /\ (d # 0 => states[d].ok)
  /\ \A k \in 1 .. d : /\ states[k - 1] = Meaning[MaxDepth + 1 - k][<<states[k], rests[k]>>]
                       /\ Rest(r, st[k], k, rests[k])

\* From g, what is left on the stack comes to goal.
LeadsTo(r, st, g, goal) == \E rests, states : Track(r, st, g, goal, rests, states)

LEMMA RemainsFirst ==
  ASSUME NEW f \in Frames, NEW rest \in Seq(Packets), Remains(f, rest)
  PROVE  /\ f.at = f.end <=> rest = <<>>
         /\ rest # <<>> =>
              /\ f.list[f.at] = Head(rest)
              /\ Remains([f EXCEPT !.at = f.at + 1], Tail(rest))
<1>1. PICK n \in Nat : /\ n = Len(f.list) /\ f.list \in Seq(Packets) /\ f.at \in 1 .. n + 1 /\ f.end = n + 1
                       /\ Len(rest) = n + 1 - f.at
                       /\ \A i \in 1 .. Len(rest) : rest[i] = f.list[f.at + i - 1]
  BY DEF Remains
<1>2. f.at = f.end <=> rest = <<>>
  <2>1. PICK a \in 1 .. n + 1 : a = f.at /\ Len(rest) = n + 1 - a
    BY <1>1
  <2>2. PICK m \in Nat : m = Len(rest) /\ (m = 0 <=> rest = <<>>)
    OBVIOUS
  <2>3. a = n + 1 <=> m = 0
    BY <1>1, <2>1, <2>2
  <2> QED
    BY <1>1, <2>1, <2>2, <2>3
<1>3. ASSUME rest # <<>>
      PROVE  f.list[f.at] = Head(rest) /\ Remains([f EXCEPT !.at = f.at + 1], Tail(rest))
  <2>1. /\ Head(rest) = rest[1] /\ Tail(rest) \in Seq(Packets) /\ Len(Tail(rest)) = Len(rest) - 1
        /\ Len(rest) \in Nat /\ Len(rest) >= 1
        /\ \A i \in 1 .. Len(rest) - 1 : Tail(rest)[i] = rest[i + 1]
    BY <1>3
  <2>2. f.list[f.at] = Head(rest)
    BY <1>1, <2>1
  <2> DEFINE e == [f EXCEPT !.at = f.at + 1]
  <2>3. e.list = f.list /\ e.end = f.end /\ e.at = f.at + 1
    BY DEF Frames
  <2> HIDE DEF e
  <2>4. e.at \in 1 .. n + 1 /\ Len(Tail(rest)) = n + 1 - e.at
    <3>1. PICK a \in 1 .. n + 1, m \in Nat : a = f.at /\ m = Len(rest) /\ m = n + 1 - a /\ m >= 1
      BY <1>1, <2>1
    <3>2. a + 1 \in 1 .. n + 1 /\ m - 1 = n + 1 - (a + 1)
      BY <3>1
    <3> QED
      BY <2>1, <2>3, <3>1, <3>2
  <2>5. \A i \in 1 .. Len(Tail(rest)) : Tail(rest)[i] = e.list[e.at + i - 1]
    <3>1. SUFFICES ASSUME NEW i \in 1 .. Len(Tail(rest)) PROVE Tail(rest)[i] = e.list[e.at + i - 1]
      OBVIOUS
    <3>2. i + 1 \in 1 .. Len(rest) /\ i \in 1 .. Len(rest) - 1 /\ f.at + (i + 1) - 1 = e.at + i - 1
      BY <1>1, <2>1, <2>3
    <3> QED
      BY <1>1, <2>1, <2>3, <3>2
  <2>6. Remains(e, Tail(rest))
    BY <1>1, <2>3, <2>4, <2>5 DEF Remains
  <2> QED
    BY <2>2, <2>6 DEF e
<1> QED
  BY <1>2, <1>3

\* Where frame f of place k stands: at its end, or before a packet.
PacketAt(r, f, k) == IF k = 1 THEN r[f.at] ELSE f.list[f.at]
AfterAt(r, f, k) == IF k = 1 THEN Past(f.at + PacketAt(r, f, k).len) ELSE f.at + 1
Moved(r, f, k) == [f EXCEPT !.at = AfterAt(r, f, k)]

LEMMA RestFirst ==
  ASSUME NEW r, NEW f \in Frames, NEW k \in Nat, NEW rest \in Seq(Packets), Rest(r, f, k, rest)
  PROVE  /\ f.at = f.end <=> rest = <<>>
         /\ rest # <<>> =>
              /\ PacketAt(r, f, k) = Head(rest)
              /\ Moved(r, f, k) \in Frames
              /\ Rest(r, Moved(r, f, k), k, Tail(rest))
<1>1. CASE k = 1
  <2>1. f.at \in 0 .. RingSize - 1 /\ f.end \in 0 .. RingSize - 1 /\ Holds(r, f.at, rest, f.end)
    BY <1>1 DEF Rest
  <2>2. /\ f.at = f.end <=> rest = <<>>
        /\ rest # <<>> =>
             /\ r[f.at] = Head(rest)
             /\ Past(f.at + Head(rest).len) \in 0 .. RingSize - 1
             /\ Holds(r, Past(f.at + Head(rest).len), Tail(rest), f.end)
    BY <2>1, HoldsFirst
  <2>3. ASSUME rest # <<>>
        PROVE  PacketAt(r, f, k) = Head(rest) /\ Moved(r, f, k) \in Frames /\ Rest(r, Moved(r, f, k), k, Tail(rest))
    <3>1. PICK w \in 0 .. RingSize - 1 : w = AfterAt(r, f, k) /\ Holds(r, w, Tail(rest), f.end)
      BY <1>1, <2>2, <2>3 DEF AfterAt, PacketAt
    <3>2. w \in Nat
      BY RingSizeAssumption
    <3>3. Moved(r, f, k) \in Frames /\ Moved(r, f, k).at = w /\ Moved(r, f, k).end = f.end
      BY <3>1, <3>2 DEF Moved, Frames
    <3> QED
      BY <1>1, <2>1, <2>2, <2>3, <3>1, <3>3 DEF Rest, PacketAt
  <2> QED
    BY <2>2, <2>3
<1>2. CASE k # 1
  <2>1. Remains(f, rest)
    BY <1>2 DEF Rest
  <2>2. /\ f.at = f.end <=> rest = <<>>
        /\ rest # <<>> =>
             /\ f.list[f.at] = Head(rest)
             /\ Remains([f EXCEPT !.at = f.at + 1], Tail(rest))
    BY <2>1, RemainsFirst
  <2>3. [f EXCEPT !.at = f.at + 1] \in Frames
    BY DEF Frames
  <2> QED
    BY <1>2, <2>2, <2>3 DEF Rest, PacketAt, AfterAt, Moved
<1> QED
  BY <1>1, <1>2

\* The frame on top of the stack, which has d.
Top(r, st, g, d, rests, states) ==
  /\ MaxDepth + 1 - d \in 0 .. MaxDepth
  /\ st[d] \in Frames /\ rests[d] \in Seq(Packets) /\ states[d] \in States
  /\ states[d].ok /\ states[d].gpu = g
  /\ states[d - 1] = Meaning[MaxDepth + 1 - d][<<states[d], rests[d]>>]
  /\ Rest(r, st[d], d, rests[d])

LEMMA TrackTop ==
  ASSUME NEW r, NEW st \in Seq(Frames), NEW g, NEW goal, NEW rests, NEW states,
         Track(r, st, g, goal, rests, states), NEW d \in Nat, d = Len(st), d # 0, d <= MaxDepth + 1
  PROVE  Top(r, st, g, d, rests, states)
<1>1. d \in 1 .. d /\ d \in 0 .. d
  OBVIOUS
<1>2. MaxDepth + 1 - d \in 0 .. MaxDepth
  BY DEF MaxDepth
<1>3. st[d] \in Frames /\ rests[d] \in Seq(Packets) /\ states[d] \in States
  BY <1>1 DEF Track
<1> QED
  BY <1>1, <1>2, <1>3 DEF Track, Top

\* The frame on top is done.
LEMMA LeadsPopped ==
  ASSUME NEW r, NEW st \in Seq(Frames), NEW g, NEW goal, LeadsTo(r, st, g, goal),
         st # <<>>, Len(st) <= MaxDepth + 1, st[Len(st)].at = st[Len(st)].end
  PROVE  LeadsTo(r, Front(st), g, goal)
<1>1. PICK rests, states : Track(r, st, g, goal, rests, states)
  BY DEF LeadsTo
<1>2. PICK d \in Nat : d = Len(st) /\ d # 0 /\ d <= MaxDepth + 1
  OBVIOUS
<1>30. Top(r, st, g, d, rests, states)
  BY <1>1, <1>2, TrackTop
<1>3. /\ MaxDepth + 1 - d \in 0 .. MaxDepth
      /\ st[d] \in Frames /\ rests[d] \in Seq(Packets) /\ states[d] \in States
      /\ states[d].ok /\ states[d].gpu = g
      /\ states[d - 1] = Meaning[MaxDepth + 1 - d][<<states[d], rests[d]>>]
      /\ Rest(r, st[d], d, rests[d])
  BY <1>30 DEF Top
<1>4. rests[d] = <<>>
  BY <1>2, <1>3, RestFirst
<1>5. states[d - 1] = states[d]
  BY <1>3, <1>4, MeansNothing
<1> DEFINE fewer == Front(st)
<1>6. /\ fewer \in Seq(Frames) /\ Len(fewer) = d - 1 /\ d - 1 \in Nat
      /\ \A k \in 1 .. d - 1 : fewer[k] = st[k]
  BY <1>2 DEF Front
<1> HIDE DEF fewer
<1> DEFINE rests2 == [k \in 1 .. d - 1 |-> rests[k]]
           states2 == [k \in 0 .. d - 1 |-> states[k]]
<1>7. rests2 \in [1 .. d - 1 -> Seq(Packets)] /\ states2 \in [0 .. d - 1 -> States]
  BY <1>1, <1>2 DEF Track
<1>8. states2[0].gpu = goal /\ states2[d - 1].gpu = g /\ states2[d - 1].ok
  BY <1>1, <1>2, <1>3, <1>5 DEF Track
<1>9. \A k \in 1 .. d - 1 : /\ states2[k - 1] = Meaning[MaxDepth + 1 - k][<<states2[k], rests2[k]>>]
                           /\ Rest(r, fewer[k], k, rests2[k])
  <2>1. SUFFICES ASSUME NEW k \in 1 .. d - 1
                 PROVE  /\ states2[k - 1] = Meaning[MaxDepth + 1 - k][<<states2[k], rests2[k]>>]
                        /\ Rest(r, fewer[k], k, rests2[k])
    OBVIOUS
  <2>2. k \in 1 .. d /\ k \in 0 .. d - 1 /\ k - 1 \in 0 .. d - 1
    BY <1>2
  <2>3. states2[k - 1] = states[k - 1] /\ states2[k] = states[k] /\ rests2[k] = rests[k] /\ fewer[k] = st[k]
    BY <1>6, <2>2
  <2> QED
    BY <1>1, <1>2, <2>2, <2>3 DEF Track
<1> HIDE DEF rests2, states2
<1>10. Track(r, fewer, g, goal, rests2, states2)
  BY <1>6, <1>7, <1>8, <1>9 DEF Track
<1> QED
  BY <1>10 DEF LeadsTo, fewer

\* The frame on top stands before a packet.
Ahead(r, st, g, goal, d, rests, states) ==
  /\ Track(r, st, g, goal, rests, states)
  /\ MaxDepth + 1 - d \in 0 .. MaxDepth
  /\ PacketAt(r, st[d], d) \in Packets
  /\ Moved(r, st[d], d) \in Frames
  /\ Tail(rests[d]) \in Seq(Packets)
  /\ Rest(r, Moved(r, st[d], d), d, Tail(rests[d]))
  /\ states[d] = [gpu |-> g, ok |-> TRUE] /\ states[d] \in States /\ g \in Gpus
  /\ LET then == One(Meaning[(MaxDepth + 1 - d) - 1], MaxDepth + 1 - d, [gpu |-> g, ok |-> TRUE], PacketAt(r, st[d], d)) IN
     then \in States /\ states[d - 1] = Meaning[MaxDepth + 1 - d][<<then, Tail(rests[d])>>]

LEMMA LeadsNext ==
  ASSUME NEW r, NEW st \in Seq(Frames), NEW g, NEW goal, LeadsTo(r, st, g, goal),
         NEW d \in Nat, d = Len(st), d # 0, d <= MaxDepth + 1, st[d].at # st[d].end
  PROVE  \E rests, states : Ahead(r, st, g, goal, d, rests, states)
<1>1. PICK rests, states : Track(r, st, g, goal, rests, states)
  BY DEF LeadsTo
<1>2. /\ MaxDepth + 1 - d \in 0 .. MaxDepth
      /\ st[d] \in Frames /\ rests[d] \in Seq(Packets) /\ states[d] \in States
      /\ states[d].ok /\ states[d].gpu = g
      /\ states[d - 1] = Meaning[MaxDepth + 1 - d][<<states[d], rests[d]>>]
      /\ Rest(r, st[d], d, rests[d])
  <2>1. Top(r, st, g, d, rests, states)
    BY <1>1, TrackTop
  <2> QED
    BY <2>1 DEF Top
<1>3. rests[d] # <<>>
  <2>1. st[d] \in Frames /\ rests[d] \in Seq(Packets) /\ Rest(r, st[d], d, rests[d])
    BY <1>2
  <2>2. st[d].at = st[d].end <=> rests[d] = <<>>
    BY <2>1, RestFirst
  <2> QED
    BY <2>2
<1>4. /\ PacketAt(r, st[d], d) = Head(rests[d])
      /\ Moved(r, st[d], d) \in Frames
      /\ Rest(r, Moved(r, st[d], d), d, Tail(rests[d]))
  BY <1>2, <1>3, RestFirst
<1>5. Head(rests[d]) \in Packets /\ Tail(rests[d]) \in Seq(Packets)
  BY <1>2, <1>3
<1>6. states[d] = [gpu |-> g, ok |-> TRUE] /\ g \in Gpus
  BY <1>2 DEF States
<1> DEFINE left == MaxDepth + 1 - d
           then == One(Meaning[left - 1], left, states[d], Head(rests[d]))
<1>7. then \in States /\ Meaning[left][<<states[d], rests[d]>>] = Meaning[left][<<then, Tail(rests[d])>>]
  <2>1. PICK l \in 0 .. MaxDepth : l = left
    BY <1>2
  <2>2. PICK m \in States, list \in Seq(Packets) : m = states[d] /\ list = rests[d] /\ list # <<>>
    BY <1>2, <1>3
  <2>3. LET next == One(Meaning[l - 1], l, m, Head(list)) IN
        next \in States /\ Meaning[l][<<m, list>>] = Meaning[l][<<next, Tail(list)>>]
    BY <2>2, MeansFirst
  <2> QED
    BY <2>1, <2>2, <2>3
<1>8. Ahead(r, st, g, goal, d, rests, states)
  <2>1. then = One(Meaning[left - 1], left, [gpu |-> g, ok |-> TRUE], PacketAt(r, st[d], d))
    BY <1>4, <1>6
  <2>2. PacketAt(r, st[d], d) \in Packets
    BY <1>4, <1>5
  <2>3. states[d - 1] = Meaning[MaxDepth + 1 - d][<<then, Tail(rests[d])>>]
    BY <1>2, <1>7
  <2> HIDE DEF then
  <2> QED
    BY <1>1, <1>2, <1>4, <1>5, <1>6, <1>7, <2>1, <2>2, <2>3 DEF Ahead
<1> QED
  BY <1>8

\* The packet is carried out or passed.
LEMMA LeadsPassed ==
  ASSUME NEW r, NEW st \in Seq(Frames), NEW g, NEW goal, LeadsTo(r, st, g, goal),
         NEW d \in Nat, d = Len(st), d # 0, d <= MaxDepth + 1, st[d].at # st[d].end,
         NEW next,
         One(Meaning[(MaxDepth + 1 - d) - 1], MaxDepth + 1 - d, [gpu |-> g, ok |-> TRUE], PacketAt(r, st[d], d))
           = [gpu |-> next, ok |-> TRUE]
  PROVE  LeadsTo(r, [st EXCEPT ![d] = Moved(r, st[d], d)], next, goal)
<1> DEFINE then == [gpu |-> next, ok |-> TRUE]
           new == [st EXCEPT ![d] = Moved(r, st[d], d)]
<1>1. PICK rests, states :
           /\ Track(r, st, g, goal, rests, states)
           /\ d \in 1 .. d /\ d \in 0 .. d /\ d - 1 \in 0 .. d
           /\ Moved(r, st[d], d) \in Frames
           /\ Tail(rests[d]) \in Seq(Packets)
           /\ Rest(r, Moved(r, st[d], d), d, Tail(rests[d]))
           /\ then \in States /\ states[d - 1] = Meaning[MaxDepth + 1 - d][<<then, Tail(rests[d])>>]
  <2>1. PICK rests, states : Ahead(r, st, g, goal, d, rests, states)
    BY LeadsNext
  <2>2. d \in 1 .. d /\ d \in 0 .. d /\ d - 1 \in 0 .. d
    OBVIOUS
  <2> QED
    BY <2>1, <2>2 DEF Ahead
<1>2. /\ new \in Seq(Frames) /\ Len(new) = d /\ new[d] = Moved(r, st[d], d)
      /\ \A k \in 1 .. d : k # d => new[k] = st[k]
  BY <1>1
<1> HIDE DEF new
<1> DEFINE rests2 == [rests EXCEPT ![d] = Tail(rests[d])]
           states2 == [states EXCEPT ![d] = then]
<1>3. rests2 \in [1 .. d -> Seq(Packets)] /\ states2 \in [0 .. d -> States]
  BY <1>1 DEF Track
<1>4. /\ rests2[d] = Tail(rests[d]) /\ states2[d] = then
      /\ \A k \in 1 .. d : k # d => rests2[k] = rests[k]
      /\ \A k \in 0 .. d : k # d => states2[k] = states[k]
  BY <1>1 DEF Track
<1> HIDE DEF rests2, states2
<1>5. states2[0].gpu = goal /\ states2[d].gpu = next /\ states2[d].ok
  <2>1. 0 \in 0 .. d /\ 0 # d
    OBVIOUS
  <2> QED
    BY <1>1, <1>4, <2>1 DEF Track
<1>6. \A k \in 1 .. d : /\ states2[k - 1] = Meaning[MaxDepth + 1 - k][<<states2[k], rests2[k]>>]
                       /\ Rest(r, new[k], k, rests2[k])
  <2>1. SUFFICES ASSUME NEW k \in 1 .. d
                 PROVE  /\ states2[k - 1] = Meaning[MaxDepth + 1 - k][<<states2[k], rests2[k]>>]
                        /\ Rest(r, new[k], k, rests2[k])
    OBVIOUS
  <2>2. k \in 0 .. d /\ k - 1 \in 0 .. d /\ k - 1 # d
    OBVIOUS
  <2>3. states2[k - 1] = states[k - 1]
    BY <1>4, <2>2
  <2>4. CASE k = d
    BY <1>1, <1>2, <1>4, <2>3, <2>4
  <2>5. CASE k # d
    <3>1. states2[k] = states[k] /\ rests2[k] = rests[k] /\ new[k] = st[k]
      BY <1>2, <1>4, <2>2, <2>5
    <3>2. /\ states[k - 1] = Meaning[MaxDepth + 1 - k][<<states[k], rests[k]>>]
          /\ Rest(r, st[k], k, rests[k])
      BY <1>1 DEF Track
    <3> QED
      BY <2>3, <3>1, <3>2
  <2> QED
    BY <2>4, <2>5
<1>7. Track(r, new, next, goal, rests2, states2)
  BY <1>2, <1>3, <1>5, <1>6 DEF Track
<1> QED
  BY <1>7 DEF LeadsTo, new

\* The packet is a list of its own, which comes on top.
LEMMA LeadsPushed ==
  ASSUME NEW r, NEW st \in Seq(Frames), NEW g, NEW goal, LeadsTo(r, st, g, goal),
         NEW d \in Nat, d = Len(st), d # 0, d <= MaxDepth, st[d].at # st[d].end,
         NEW list \in Seq(Packets),
         One(Meaning[(MaxDepth + 1 - d) - 1], MaxDepth + 1 - d, [gpu |-> g, ok |-> TRUE], PacketAt(r, st[d], d))
           = Meaning[(MaxDepth + 1 - d) - 1][<<[gpu |-> g, ok |-> TRUE], list>>],
         NEW frame \in Frames, Remains(frame, list)
  PROVE  LeadsTo(r, Append([st EXCEPT ![d] = Moved(r, st[d], d)], frame), g, goal)
<1> DEFINE now == [gpu |-> g, ok |-> TRUE]
           then == Meaning[(MaxDepth + 1 - d) - 1][<<now, list>>]
           new == Append([st EXCEPT ![d] = Moved(r, st[d], d)], frame)
<1>0. d <= MaxDepth + 1
  BY DEF MaxDepth
<1>1. PICK rests, states :
           /\ Track(r, st, g, goal, rests, states)
           /\ d \in 1 .. d /\ d \in 0 .. d /\ d - 1 \in 0 .. d
           /\ Moved(r, st[d], d) \in Frames
           /\ Tail(rests[d]) \in Seq(Packets)
           /\ Rest(r, Moved(r, st[d], d), d, Tail(rests[d]))
           /\ states[d] = now /\ now \in States
           /\ then \in States /\ states[d - 1] = Meaning[MaxDepth + 1 - d][<<then, Tail(rests[d])>>]
  <2>1. PICK rests, states : Ahead(r, st, g, goal, d, rests, states)
    BY <1>0, LeadsNext
  <2>2. d \in 1 .. d /\ d \in 0 .. d /\ d - 1 \in 0 .. d
    OBVIOUS
  <2> QED
    BY <2>1, <2>2 DEF Ahead
<1>2. /\ new \in Seq(Frames) /\ Len(new) = d + 1 /\ new[d] = Moved(r, st[d], d) /\ new[d + 1] = frame
      /\ \A k \in 1 .. d : k # d => new[k] = st[k]
  <2> DEFINE moved == [st EXCEPT ![d] = Moved(r, st[d], d)]
  <2>1. /\ moved \in Seq(Frames) /\ Len(moved) = d /\ moved[d] = Moved(r, st[d], d)
        /\ \A k \in 1 .. d : k # d => moved[k] = st[k]
    BY <1>1
  <2> HIDE DEF moved
  <2>2. Append(moved, frame) \in Seq(Frames) /\ Len(Append(moved, frame)) = d + 1
        /\ Append(moved, frame)[d + 1] = frame /\ \A k \in 1 .. d : Append(moved, frame)[k] = moved[k]
    BY <2>1
  <2> QED
    BY <1>1, <2>1, <2>2 DEF moved
<1> HIDE DEF new, then, now
<1> DEFINE rests2 == [k \in 1 .. d + 1 |-> IF k = d + 1 THEN list ELSE IF k = d THEN Tail(rests[d]) ELSE rests[k]]
           states2 == [k \in 0 .. d + 1 |-> IF k = d + 1 THEN now ELSE IF k = d THEN then ELSE states[k]]
<1>3. rests2 \in [1 .. d + 1 -> Seq(Packets)] /\ states2 \in [0 .. d + 1 -> States]
  <2>1. ASSUME NEW k \in 1 .. d + 1 PROVE rests2[k] \in Seq(Packets)
    <3>1. k # d + 1 => k \in 1 .. d
      OBVIOUS
    <3> QED
      BY <1>1, <3>1 DEF Track
  <2>2. ASSUME NEW k \in 0 .. d + 1 PROVE states2[k] \in States
    <3>1. k # d + 1 => k \in 0 .. d
      OBVIOUS
    <3> QED
      BY <1>1, <3>1 DEF Track
  <2> QED
    BY <2>1, <2>2
<1>4. /\ rests2[d + 1] = list /\ rests2[d] = Tail(rests[d]) /\ states2[d + 1] = now /\ states2[d] = then
      /\ \A k \in 1 .. d : k # d => rests2[k] = rests[k]
      /\ \A k \in 0 .. d : k # d => states2[k] = states[k]
  BY <1>1
<1> HIDE DEF rests2, states2
<1>5. states2[0].gpu = goal /\ states2[d + 1].gpu = g /\ states2[d + 1].ok
  <2>1. 0 \in 0 .. d /\ 0 # d
    OBVIOUS
  <2> QED
    BY <1>1, <1>4, <2>1 DEF Track, now
<1>6. \A k \in 1 .. d + 1 : /\ states2[k - 1] = Meaning[MaxDepth + 1 - k][<<states2[k], rests2[k]>>]
                           /\ Rest(r, new[k], k, rests2[k])
  <2>1. SUFFICES ASSUME NEW k \in 1 .. d + 1
                 PROVE  /\ states2[k - 1] = Meaning[MaxDepth + 1 - k][<<states2[k], rests2[k]>>]
                        /\ Rest(r, new[k], k, rests2[k])
    OBVIOUS
  <2>2. CASE k = d + 1
    <3>1. k - 1 = d /\ k # 1 /\ MaxDepth + 1 - k = (MaxDepth + 1 - d) - 1
      BY <2>2 DEF MaxDepth
    <3> QED
      BY <1>2, <1>4, <2>2, <3>1 DEF Rest, then, now
  <2>3. CASE k = d
    <3>1. k - 1 \in 0 .. d /\ k - 1 # d
      BY <2>3
    <3> QED
      BY <1>1, <1>2, <1>4, <2>3, <3>1
  <2>4. CASE k # d /\ k # d + 1
    <3>0. k \in 1 .. d /\ k \in 0 .. d /\ k - 1 \in 0 .. d /\ k - 1 # d
      BY <2>4
    <3>1. states2[k] = states[k] /\ rests2[k] = rests[k] /\ new[k] = st[k] /\ states2[k - 1] = states[k - 1]
      BY <1>2, <1>4, <2>4, <3>0
    <3>2. /\ states[k - 1] = Meaning[MaxDepth + 1 - k][<<states[k], rests[k]>>]
          /\ Rest(r, st[k], k, rests[k])
      BY <1>1, <3>0 DEF Track
    <3> QED
      BY <3>1, <3>2
  <2> QED
    BY <2>2, <2>3, <2>4
<1>7. Track(r, new, g, goal, rests2, states2)
  <2>1. d + 1 # 0
    OBVIOUS
  <2> QED
    BY <1>2, <1>3, <1>5, <1>6, <2>1 DEF Track
<1> QED
  BY <1>7 DEF LeadsTo, new

\* The packet fails, and with it every list on the stack.
LEMMA LeadsFailed ==
  ASSUME NEW r, NEW st \in Seq(Frames), NEW g, NEW h, NEW goal, LeadsTo(r, st, g, goal),
         NEW d \in Nat, d = Len(st), d # 0, d <= MaxDepth + 1, st[d].at # st[d].end,
         One(Meaning[(MaxDepth + 1 - d) - 1], MaxDepth + 1 - d, [gpu |-> g, ok |-> TRUE], PacketAt(r, st[d], d))
           = [gpu |-> h, ok |-> FALSE]
  PROVE  LeadsTo(r, <<>>, h, goal)
<1> DEFINE then == [gpu |-> h, ok |-> FALSE]
<1>1. PICK rests, states :
           /\ Track(r, st, g, goal, rests, states)
           /\ MaxDepth + 1 - d \in 0 .. MaxDepth
           /\ Tail(rests[d]) \in Seq(Packets)
           /\ then \in States /\ states[d - 1] = Meaning[MaxDepth + 1 - d][<<then, Tail(rests[d])>>]
  <2>1. PICK rests, states : Ahead(r, st, g, goal, d, rests, states)
    BY LeadsNext
  <2>2. d \in 1 .. d /\ d \in 0 .. d /\ d - 1 \in 0 .. d
    OBVIOUS
  <2> QED
    BY <2>1, <2>2 DEF Ahead
<1>2. then.gpu = h /\ ~ then.ok
  OBVIOUS
<1> HIDE DEF then
<1>3. states[d - 1] = then
  BY <1>1, <1>2, MeansFailure
<1> DEFINE C == {i \in 0 .. d - 1 : states[d - 1 - i] = then}
<1>4. d - 1 \in Nat /\ 0 \in C
  BY <1>3
<1>5. ASSUME NEW i \in 1 .. d - 1, i - 1 \in C PROVE i \in C
  <2>1. PICK k \in 1 .. d : k = d - i /\ k <= d - 1 /\ d - 1 - (i - 1) = k /\ d - 1 - i = k - 1 /\ i \in 0 .. d - 1
    OBVIOUS
  <2>2. states[k] = then
    BY <1>5, <2>1
  <2>3. rests[k] \in Seq(Packets) /\ states[k - 1] = Meaning[MaxDepth + 1 - k][<<states[k], rests[k]>>]
    BY <1>1 DEF Track
  <2>4. MaxDepth + 1 - k \in 0 .. MaxDepth
    <3>1. MaxDepth = 4 /\ k \in 1 .. 5
      BY <2>1 DEF MaxDepth
    <3> QED
      BY ONLY <3>1
  <2>5. states[k - 1] = then
    BY <1>1, <1>2, <2>2, <2>3, <2>4, MeansFailure
  <2> QED
    BY <2>1, <2>5
<1> HIDE DEF C
<1>6. 0 .. d - 1 \subseteq C
  BY <1>4, <1>5, UpTo
<1>7. states[0] = then
  <2>1. d - 1 \in 0 .. d - 1 /\ d - 1 - (d - 1) = 0
    OBVIOUS
  <2> QED
    BY <1>6, <2>1 DEF C
<1>8. goal = h
  BY <1>1, <1>2, <1>7 DEF Track
<1> DEFINE rests2 == [k \in 1 .. 0 |-> <<>>]
           states2 == [k \in 0 .. 0 |-> then]
<1>9. Track(r, <<>>, h, goal, rests2, states2)
  <2>1. Len(<<>>) = 0 /\ 1 .. 0 = {}
    OBVIOUS
  <2>2. rests2 \in [1 .. 0 -> Seq(Packets)]
    BY <2>1
  <2>3. states2 \in [0 .. 0 -> States] /\ states2[0] = then
    BY <1>1
  <2> HIDE DEF rests2, states2
  <2> QED
    BY <1>2, <1>8, <2>1, <2>2, <2>3 DEF Track
<1> QED
  BY <1>9 DEF LeadsTo

LEMMA LeadsNowhere ==
  ASSUME NEW r, NEW g, NEW goal, LeadsTo(r, <<>>, g, goal)
  PROVE  g = goal
<1>1. PICK rests, states : Track(r, <<>>, g, goal, rests, states)
  BY DEF LeadsTo
<1>2. Len(<<>>) = 0
  OBVIOUS
<1> QED
  BY <1>1, <1>2 DEF Track

-----------------------------------------------------------------------------
(***************************************************************************)
(* The inductive invariant                                                 *)
(***************************************************************************)

\* Who has the mutex walks; a batch in the ring has still to be counted.
Tied ==
  /\ lock = "title" <=> title = "walk"
  /\ lock = "vsync" <=> vsync = "walk"
  /\ lock = "none" => stack = <<>>
  /\ title = "kick" => batch # <<>>
  /\ Len(kicked) <= puts
  /\ batch # <<>> => Len(kicked) < puts

\* With no walk of the title's at work all kicked batches are done, the ring holds
\* the batch to come, and a walk of the worker's finds nothing.
Idle ==
  lock # "title" =>
    /\ rptr = wptr /\ slot = wptr
    /\ gpu = Total(kicked)
    /\ Holds(ring, wptr, batch, tail)
    /\ stack # <<>> => Len(stack) = 1 /\ stack[1].at = wptr /\ stack[1].end = wptr

\* A walk of the title's comes to what all kicked batches mean.
AtWork ==
  lock = "title" =>
    /\ batch = <<>> /\ tail = wptr
    /\ LeadsTo(ring, stack, gpu, Total(kicked))

RingInv == TypeOK /\ Tied /\ Idle /\ AtWork

LEMMA InitRing == Init => RingInv
<1> SUFFICES ASSUME Init PROVE RingInv
  OBVIOUS
<1>1. RingSize \in Nat \ {0} /\ MaxPackets \in Nat /\ 0 \in 0 .. RingSize - 1
  BY RingSizeAssumption, MaxPacketsAssumption
<1>2. Blank \in Gpus
  BY DEF Blank, Gpus
<1>3. TypeOK
  <2>1. stack \in Seq(Frames) /\ Len(stack) <= MaxDepth + 1 /\ stack = <<>>
    BY DEF Init, MaxDepth
  <2>2. batch \in Seq(Packets) /\ kicked \in Seq(Seq(Packets))
    BY DEF Init
  <2> QED
    BY <1>1, <1>2, <2>1, <2>2 DEF Init, TypeOK
<1>4. Tied
  BY DEF Init, Tied
<1>5. Total(<<>>) = Blank
  <2>1. <<>> \in Seq(Seq(Packets)) /\ Len(<<>>) = 0
    OBVIOUS
  <2>2. PICK f : Totals(f, <<>>) /\ Total(<<>>) = f[Len(<<>>)]
    BY <2>1, TotalIs
  <2> QED
    BY <2>1, <2>2 DEF Totals
<1>6. Holds(ring, 0, <<>>, 0)
  BY <1>1, HoldsNothing
<1> QED
  BY <1>3, <1>4, <1>5, <1>6 DEF RingInv, Idle, AtWork, Init

LEMMA PutRing ==
  ASSUME RingInv, NEW p \in Ringed, Put(p)
  PROVE  RingInv'
<1>1. /\ RingSize \in Nat \ {0} /\ MaxPackets \in Nat /\ p \in Packets /\ p.len \in 1 .. RingSize - 1
  BY RingSizeAssumption, MaxPacketsAssumption, RingedAssumption
<1>2. /\ ring \in [0 .. RingSize - 1 -> Packets \cup {Payload}]
      /\ tail \in 0 .. RingSize - 1 /\ wptr \in 0 .. RingSize - 1
      /\ batch \in Seq(Packets) /\ kicked \in Seq(Seq(Packets))
      /\ puts \in 0 .. MaxPackets /\ submitted \in 0 .. MaxPackets
  BY DEF RingInv, TypeOK
<1>3. lock # "title" /\ slot = wptr /\ Holds(ring, wptr, batch, tail)
  BY DEF RingInv, Tied, Idle, Put
<1>4. ring' = Stored(ring, tail, p) /\ tail' = Past(tail + p.len) /\ Fits(wptr, tail, p)
  BY <1>3 DEF Put, Stored, Past, Fits, Room
<1>5. ring' \in [0 .. RingSize - 1 -> Packets \cup {Payload}]
  BY <1>1, <1>2, <1>4 DEF Stored
<1>6. tail' \in 0 .. RingSize - 1
  <2>1. PICK sum \in Int : sum = tail + p.len /\ -RingSize <= sum /\ sum < 2 * RingSize
    BY <1>1, <1>2
  <2> QED
    BY <1>4, <2>1, PastIs
<1>7. batch' = Append(batch, p) /\ batch' \in Seq(Packets) /\ batch' # <<>>
  <2>1. Append(batch, p) \in Seq(Packets) /\ Append(batch, p) # <<>>
    <3>1. PICK list \in Seq(Packets) : list = batch
      BY <1>2
    <3>2. Append(list, p) \in Seq(Packets) /\ Len(Append(list, p)) = Len(list) + 1 /\ Len(list) \in Nat
      BY <1>1
    <3>3. Append(list, p) # <<>>
      BY <3>2
    <3> QED
      BY <3>1, <3>2, <3>3
  <2>2. batch' = Append(batch, p)
    BY DEF Put
  <2> QED
    BY <2>1, <2>2
<1>8. Holds(ring', wptr, batch', tail')
  BY <1>1, <1>2, <1>3, <1>4, <1>7, HoldsMore
<1>9. /\ puts' = puts + 1 /\ puts' \in 0 .. MaxPackets /\ kicked' = kicked
      /\ submitted' \in 0 .. MaxPackets
      /\ Len(kicked') <= puts' /\ Len(kicked') < puts'
  <2>1. Len(kicked) \in Nat /\ Len(kicked) <= puts
    BY <1>2 DEF RingInv, Tied
  <2> QED
    BY <1>1, <1>2, <2>1 DEF Put
<1>10. UNCHANGED <<rptr, stack, gpu, pending, slot, word, title, vsync, lock, wptr, serving, known, kicked>>
  BY DEF Put, walk_vars
<1>11. TypeOK'
  BY <1>2, <1>5, <1>6, <1>7, <1>9, <1>10 DEF RingInv, TypeOK
<1>12. Tied'
  BY <1>7, <1>9, <1>10 DEF RingInv, Tied
<1>13. Idle'
  BY <1>8, <1>10 DEF RingInv, Idle
<1>14. AtWork'
  BY <1>3, <1>10 DEF AtWork
<1> QED
  BY <1>11, <1>12, <1>13, <1>14 DEF RingInv

LEMMA StartTitleRing ==
  ASSUME RingInv, StartTitle
  PROVE  RingInv'
<1>1. /\ wptr \in 0 .. RingSize - 1 /\ rptr \in 0 .. RingSize - 1 /\ tail \in 0 .. RingSize - 1
      /\ batch \in Seq(Packets) /\ kicked \in Seq(Seq(Packets)) /\ gpu \in Gpus
  BY DEF RingInv, TypeOK
<1>2. /\ lock = "none" /\ rptr = wptr /\ gpu = Total(kicked) /\ Holds(ring, rptr, batch, tail)
      /\ vsync # "walk" /\ batch # <<>> /\ Len(kicked) < puts
  BY DEF RingInv, Tied, Idle, StartTitle
<1>3. /\ lock' = "title" /\ title' = "walk" /\ wptr' = tail /\ kicked' = Append(kicked, batch)
      /\ batch' = <<>> /\ stack' = <<[list |-> <<>>, at |-> rptr, end |-> tail]>>
      /\ UNCHANGED <<ring, tail, puts, submitted, rptr, gpu, pending, slot, word, vsync, serving, known>>
  BY DEF StartTitle, Walks
<1> DEFINE frame == [list |-> <<>>, at |-> rptr, end |-> tail]
<1>4. frame \in Frames /\ frame.at = rptr /\ frame.end = tail
  <2>1. <<>> \in Seq(Packets) /\ rptr \in Nat /\ tail \in Nat
    BY <1>1, RingSizeAssumption
  <2> QED
    BY <2>1 DEF Frames
<1> HIDE DEF frame
<1>5. stack' \in Seq(Frames) /\ Len(stack') = 1 /\ stack'[1] = frame /\ Len(stack') <= MaxDepth + 1
  BY <1>3, <1>4 DEF frame, MaxDepth
<1>6. /\ kicked' \in Seq(Seq(Packets)) /\ Len(kicked') = Len(kicked) + 1 /\ Len(kicked) \in Nat
  BY <1>1, <1>3
<1>7. TypeOK'
  <2>1. batch' \in Seq(Packets)
    BY <1>3
  <2> QED
    BY <1>1, <1>3, <1>4, <1>5, <1>6, <2>1 DEF RingInv, TypeOK, Threads
<1>8. Tied'
  <2>1. puts \in Nat
    <3>1. puts \in 0 .. MaxPackets
      BY DEF RingInv, TypeOK
    <3> QED
      BY <3>1, MaxPacketsAssumption
  <2> QED
    BY <1>2, <1>3, <1>6, <2>1 DEF Tied
<1>9. Idle'
  BY <1>3 DEF Idle
<1> DEFINE now == [gpu |-> gpu, ok |-> TRUE]
           then == Meaning[MaxDepth][<<now, batch>>]
           rests == [k \in 1 .. 1 |-> batch]
           states == [k \in 0 .. 1 |-> IF k = 1 THEN now ELSE then]
<1>10. now \in States /\ then \in States
  <2>1. now \in States /\ MaxDepth \in 0 .. MaxDepth
    BY <1>1 DEF States, MaxDepth
  <2> HIDE DEF now
  <2> QED
    BY <1>1, <2>1, MeaningRuns
<1>11. then.gpu = Total(kicked') /\ now.gpu = gpu /\ now.ok
  BY <1>1, <1>2, <1>3, TotalGrows
<1> HIDE DEF now, then
<1>12. /\ rests \in [1 .. 1 -> Seq(Packets)] /\ states \in [0 .. 1 -> States]
       /\ rests[1] = batch /\ states[1] = now /\ states[0] = then
  BY <1>1, <1>10
<1> HIDE DEF rests, states
<1>13. Track(ring, stack', gpu, Total(kicked'), rests, states)
  <2>1. Rest(ring, stack'[1], 1, rests[1])
    BY <1>1, <1>2, <1>4, <1>5, <1>12 DEF Rest
  <2>2. states[1 - 1] = Meaning[MaxDepth + 1 - 1][<<states[1], rests[1]>>]
    <3>1. 1 - 1 = 0 /\ MaxDepth + 1 - 1 = MaxDepth
      BY DEF MaxDepth
    <3> QED
      BY <1>12, <3>1 DEF then
  <2>3. \A k \in 1 .. 1 : k = 1
    OBVIOUS
  <2> QED
    BY <1>5, <1>11, <1>12, <2>1, <2>2, <2>3 DEF Track
<1>14. AtWork'
  BY <1>3, <1>13 DEF AtWork, LeadsTo
<1> QED
  BY <1>7, <1>8, <1>9, <1>14 DEF RingInv

LEMMA StartVsyncRing ==
  ASSUME RingInv, StartVsync
  PROVE  RingInv'
<1>1. /\ wptr \in 0 .. RingSize - 1 /\ rptr \in 0 .. RingSize - 1
      /\ lock = "none" /\ rptr = wptr /\ title # "walk"
  BY DEF RingInv, TypeOK, Tied, Idle, StartVsync
<1>2. /\ lock' = "vsync" /\ vsync' = "walk" /\ stack' = <<[list |-> <<>>, at |-> rptr, end |-> wptr]>>
      /\ UNCHANGED <<title_vars, rptr, gpu, pending, slot, word, title, wptr, serving, known, kicked>>
  BY DEF StartVsync, Walks
<1> DEFINE frame == [list |-> <<>>, at |-> rptr, end |-> wptr]
<1>3. frame \in Frames /\ frame.at = wptr /\ frame.end = wptr
  <2>1. <<>> \in Seq(Packets) /\ rptr \in Nat /\ wptr \in Nat
    BY <1>1, RingSizeAssumption
  <2> QED
    BY <1>1, <2>1 DEF Frames
<1> HIDE DEF frame
<1>4. stack' \in Seq(Frames) /\ Len(stack') = 1 /\ stack'[1] = frame /\ Len(stack') <= MaxDepth + 1
  BY <1>2, <1>3 DEF frame, MaxDepth
<1>5. UNCHANGED <<ring, tail, batch, puts, submitted>>
  BY <1>2 DEF title_vars
<1>6. TypeOK'
  BY <1>1, <1>2, <1>3, <1>4, <1>5 DEF RingInv, TypeOK, Threads
<1>7. Tied'
  BY <1>1, <1>2, <1>5 DEF RingInv, Tied
<1>8. Idle'
  BY <1>1, <1>2, <1>3, <1>4, <1>5 DEF RingInv, Idle
<1>9. AtWork'
  BY <1>2 DEF AtWork
<1> QED
  BY <1>6, <1>7, <1>8, <1>9 DEF RingInv

\* The end of a walk, whichever thread's.
LEMMA DrainedRing ==
  ASSUME RingInv, Drained, lock \in Threads,
         lock = "title" => title' = "idle" /\ UNCHANGED vsync,
         lock = "vsync" => vsync' = "dispatch" /\ UNCHANGED title,
         pending' \cup serving' \subseteq 0 .. 5
  PROVE  RingInv'
<1>1. /\ wptr \in 0 .. RingSize - 1 /\ tail \in 0 .. RingSize - 1
      /\ word \in 0 .. MaxPackets /\ submitted \in 0 .. MaxPackets
  BY DEF RingInv, TypeOK
<1>2. /\ stack = <<>> /\ rptr' = wptr /\ slot' = wptr /\ lock' = "none"
      /\ word' \in 0 .. MaxPackets
      /\ UNCHANGED <<ring, tail, batch, puts, submitted, wptr, stack, gpu, known, kicked>>
  BY <1>1 DEF Drained, Published, title_vars
<1>3. /\ title' # "walk" /\ vsync' # "walk"
      /\ title' # "kick" \/ title' = title
  BY DEF RingInv, Tied, Threads
<1>4. TypeOK'
  BY <1>1, <1>2 DEF RingInv, TypeOK, Threads
<1>5. Tied'
  BY <1>2, <1>3 DEF RingInv, Tied
<1>6. Idle'
  <2>1. CASE lock = "title"
    <3>1. batch = <<>> /\ tail = wptr /\ LeadsTo(ring, <<>>, gpu, Total(kicked))
      BY <1>2, <2>1 DEF RingInv, AtWork
    <3>2. gpu = Total(kicked)
      BY <3>1, LeadsNowhere
    <3>3. Holds(ring, wptr, batch, tail)
      BY <1>1, <3>1, HoldsNothing
    <3> QED
      BY <1>2, <3>2, <3>3 DEF Idle
  <2>2. CASE lock # "title"
    BY <1>2, <2>2 DEF RingInv, Idle
  <2> QED
    BY <2>1, <2>2
<1>7. AtWork'
  BY <1>2 DEF AtWork
<1> QED
  BY <1>4, <1>5, <1>6, <1>7 DEF RingInv

\* What moves only the threads about, and reports progress.
LEMMA OtherRing ==
  ASSUME RingInv,
         \/ Kick \/ Await \/ Resume \/ LearnDevice \/ Dispatch \/ Handler \/ MarkVblank
         \/ UNCHANGED vars
  PROVE  RingInv'
<1>1. /\ UNCHANGED <<ring, tail, batch, puts, submitted, rptr, stack, gpu, pending, slot, lock, wptr, kicked>>
      /\ word' = word \/ word' = submitted
  BY DEF Kick, Await, Resume, LearnDevice, Dispatch, Handler, MarkVblank, Published, vars, title_vars, walk_vars
<1>2. /\ title' = title \/ (title = "idle" /\ title' \in {"kick", "await"} /\ (title' = "kick" => batch # <<>>))
           \/ (title = "await" /\ title' = "idle")
      /\ vsync' = vsync \/ (vsync # "walk" /\ vsync' \in {"sleep", "dispatch", "handler", "vblank", "vblank handler"})
      /\ known' = known \/ known' = TRUE
  BY DEF Kick, Await, Resume, LearnDevice, Dispatch, Handler, MarkVblank, vars, title_vars, walk_vars
<1>3. serving' \subseteq serving
  BY DEF Kick, Await, Resume, LearnDevice, Dispatch, Handler, MarkVblank, vars, title_vars, walk_vars
<1>4. TypeOK'
  BY <1>1, <1>2, <1>3 DEF RingInv, TypeOK
<1>5. Tied'
  BY <1>1, <1>2 DEF RingInv, Tied
<1>6. Idle'
  BY <1>1 DEF RingInv, Idle
<1>7. AtWork'
  BY <1>1 DEF RingInv, AtWork
<1> QED
  BY <1>4, <1>5, <1>6, <1>7 DEF RingInv

\* A walk of the worker's finds nothing.
LEMMA NothingRing ==
  ASSUME RingInv, lock = "vsync", Walk
  PROVE  RingInv'
<1>1. /\ stack # <<>> /\ Len(stack) = 1 /\ stack[1].at = stack[1].end /\ stack \in Seq(Frames)
  BY DEF RingInv, TypeOK, Idle, Walk
<1>2. Frame = stack[1]
  BY <1>1 DEF Frame, Last
<1>3. Front(stack) = <<>>
  BY <1>1 DEF Front
<1>4. /\ stack' = <<>>
      /\ UNCHANGED <<gpu, pending, word, title_vars, title, vsync, lock, rptr, wptr, slot, serving, known, kicked>>
  BY <1>1, <1>2, <1>3 DEF Walk
<1>5. UNCHANGED <<ring, tail, batch, puts, submitted>>
  BY <1>4 DEF title_vars
<1>6. TypeOK'
  <2>1. stack' \in Seq(Frames) /\ Len(stack') <= MaxDepth + 1
    BY <1>4 DEF MaxDepth
  <2> QED
    BY <1>4, <1>5, <2>1 DEF RingInv, TypeOK
<1>7. Tied' /\ Idle' /\ AtWork'
  BY <1>4, <1>5 DEF RingInv, Tied, Idle, AtWork
<1> QED
  BY <1>6, <1>7 DEF RingInv

\* What a step of a walk of the title's may have done.
Walked ==
  /\ stack' \in Seq(Frames) /\ Len(stack') <= MaxDepth + 1
  /\ stack' # <<>> => stack'[1].at \in 0 .. RingSize - 1
  /\ gpu' \in Gpus /\ pending' \subseteq 0 .. 5 /\ word' \in 0 .. MaxPackets
  /\ LeadsTo(ring, stack', gpu', Total(kicked))

LEMMA WalkedRing ==
  ASSUME RingInv, lock = "title", Walk, Walked
  PROVE  RingInv'
<1>1. UNCHANGED <<title_vars, title, vsync, lock, rptr, wptr, slot, serving, known, kicked>>
  BY DEF Walk
<1>2. UNCHANGED <<ring, tail, batch, puts, submitted>>
  BY <1>1 DEF title_vars
<1>3. TypeOK'
  BY <1>1, <1>2 DEF RingInv, TypeOK, Walked
<1>4. Tied'
  BY <1>1, <1>2 DEF RingInv, Tied
<1>5. Idle' /\ AtWork'
  BY <1>1, <1>2 DEF RingInv, Idle, AtWork, Walked
<1> QED
  BY <1>3, <1>4, <1>5 DEF RingInv

LEMMA StepRing ==
  ASSUME RingInv, lock = "title", Walk
  PROVE  Walked
<1>1. /\ stack \in Seq(Frames) /\ Len(stack) <= MaxDepth + 1 /\ stack # <<>>
      /\ stack[1].at \in 0 .. RingSize - 1
      /\ gpu \in Gpus /\ pending \subseteq 0 .. 5 /\ word \in 0 .. MaxPackets
      /\ kicked \in Seq(Seq(Packets)) /\ puts \in 0 .. MaxPackets /\ Len(kicked) <= puts
  BY DEF RingInv, TypeOK, Tied, Walk
<1>2. LeadsTo(ring, stack, gpu, Total(kicked))
  BY DEF RingInv, AtWork
<1>3. PICK d \in Nat : d = Len(stack) /\ d # 0 /\ d <= MaxDepth + 1 /\ d \in 1 .. Len(stack)
  BY <1>1
<1> DEFINE p == PacketAt(ring, stack[d], d)
           left == MaxDepth + 1 - d
           now == [gpu |-> gpu, ok |-> TRUE]
           passed == [stack EXCEPT ![d] = Moved(ring, stack[d], d)]
           then == One(Meaning[left - 1], left, now, p)
<1>4. /\ Frame = stack[d] /\ Packet = p /\ After = AfterAt(ring, stack[d], d)
      /\ [stack EXCEPT ![Len(stack)].at = After] = passed
  <2>1. Frame = stack[d]
    BY <1>1, <1>3 DEF Frame, Last
  <2>2. Packet = p
    BY <1>3, <2>1 DEF Packet, OfRing, PacketAt
  <2>3. After = AfterAt(ring, stack[d], d)
    BY <1>3, <2>1, <2>2 DEF After, OfRing, AfterAt, Past
  <2> QED
    BY <1>1, <1>3, <2>1, <2>2, <2>3 DEF Moved
<1> HIDE DEF p, passed, then, left
<1>5. CASE stack[d].at = stack[d].end
  <2>1. stack' = Front(stack) /\ UNCHANGED <<gpu, pending, word>>
    BY <1>4, <1>5 DEF Walk
  <2>2. LeadsTo(ring, stack', gpu', Total(kicked))
    <3>1. LeadsTo(ring, Front(stack), gpu, Total(kicked))
      BY <1>1, <1>2, <1>3, <1>5, LeadsPopped
    <3> QED
      BY <2>1, <3>1
  <2>3. /\ stack' \in Seq(Frames) /\ Len(stack') <= MaxDepth + 1
        /\ stack' # <<>> => stack'[1] = stack[1]
    <3>1. PICK e \in 0 .. MaxDepth : e = d - 1 /\ e <= Len(stack)
      BY <1>3 DEF MaxDepth
    <3>2. stack' = SubSeq(stack, 1, e)
      BY <1>3, <2>1, <3>1 DEF Front
    <3>3. /\ SubSeq(stack, 1, e) \in Seq(Frames) /\ Len(SubSeq(stack, 1, e)) = e
          /\ e # 0 => SubSeq(stack, 1, e)[1] = stack[1]
      BY <1>1, <3>1 DEF MaxDepth
    <3>4. e <= MaxDepth + 1 /\ (SubSeq(stack, 1, e) # <<>> => e # 0)
      BY <3>1, <3>3 DEF MaxDepth
    <3> QED
      BY <3>2, <3>3, <3>4
  <2> QED
    BY <1>1, <2>1, <2>2, <2>3 DEF Walked
<1>6. CASE stack[d].at # stack[d].end
  <2>1. \/ Predicated(p) /\ stack' = passed /\ UNCHANGED <<gpu, pending, word>>
        \/ ~ Predicated(p) /\ Fails(p) /\ stack' = <<>> /\ gpu' = Leaf(gpu, p) /\ UNCHANGED <<pending, word>>
        \/ /\ ~ Predicated(p) /\ ~ Fails(p) /\ Enters(p)
           /\ stack' = Append(passed, [list |-> p.list, at |-> 1, end |-> Len(p.list) + 1])
           /\ UNCHANGED <<gpu, pending, word>>
        \/ /\ ~ Predicated(p) /\ ~ Fails(p) /\ ~ Enters(p)
           /\ stack' = passed
           /\ gpu' = Leaf(gpu, p)
           /\ pending' = IF p.op = "interrupt" THEN pending \cup {p.value} ELSE pending
           /\ word' = IF p.op = "fence" THEN Len(kicked) ELSE word
    BY <1>4, <1>6 DEF Walk
  <2>2. PICK rests, states : Ahead(ring, stack, gpu, Total(kicked), d, rests, states)
    BY <1>1, <1>2, <1>3, <1>6, LeadsNext
  <2>3. /\ p \in Packets /\ p.list \in Seq(Packets) /\ Moved(ring, stack[d], d) \in Frames
        /\ Rest(ring, Moved(ring, stack[d], d), d, Tail(rests[d]))
        /\ p.op = "interrupt" => p.value \in 0 .. 5
    BY <2>2, PacketsAssumption DEF Ahead, p
  <2>4. /\ passed \in Seq(Frames) /\ Len(passed) = d /\ passed[d] = Moved(ring, stack[d], d)
        /\ d # 1 => passed[1] = stack[1]
    BY <1>1, <1>3, <2>3 DEF passed
  <2>5. passed[1].at \in 0 .. RingSize - 1
    <3>1. d = 1 => Moved(ring, stack[d], d).at \in 0 .. RingSize - 1
      <4> DEFINE f == Moved(ring, stack[d], d)
      <4>1. Rest(ring, f, d, Tail(rests[d]))
        BY <2>3
      <4> HIDE DEF f
      <4>2. d = 1 => f.at \in 0 .. RingSize - 1
        BY <4>1 DEF Rest
      <4> QED
        BY <4>2 DEF f
    <3> QED
      BY <1>1, <2>4, <3>1
  <2>6. left = 0 <=> Len(stack) > MaxDepth
    <3>1. left = 5 - d /\ MaxDepth = 4
      BY DEF left, MaxDepth
    <3>2. d \in 0 .. 5 /\ d = Len(stack)
      BY <1>3, <3>1
    <3>3. left = 0 <=> d > MaxDepth
      BY ONLY <3>1, <3>2
    <3> QED
      BY <3>2, <3>3
  <2>7. CASE Predicated(p)
    <3>1. then = now
      BY <2>7 DEF then, One, Predicated
    <3>2. LeadsTo(ring, passed, gpu, Total(kicked))
      BY <1>1, <1>2, <1>3, <1>6, <3>1, LeadsPassed DEF then, passed, p, left
    <3> QED
      BY <1>1, <1>3, <2>1, <2>4, <2>5, <2>7, <3>2 DEF Walked
  <2>8. CASE ~ Predicated(p) /\ Fails(p)
    <3>1. then = [gpu |-> Leaf(gpu, p), ok |-> FALSE]
      BY <2>6, <2>8 DEF then, One, Predicated, Fails
    <3>2. LeadsTo(ring, <<>>, Leaf(gpu, p), Total(kicked))
      BY <1>1, <1>2, <1>3, <1>6, <3>1, LeadsFailed DEF then, p, left
    <3>3. stack' = <<>> /\ gpu' = Leaf(gpu, p) /\ UNCHANGED <<pending, word>>
      BY <2>1, <2>8
    <3>4. <<>> \in Seq(Frames) /\ Len(<<>>) <= MaxDepth + 1
      BY DEF MaxDepth
    <3>5. Leaf(gpu, p) \in Gpus
      BY <1>1, <2>3, LeafType
    <3> QED
      BY <1>1, <3>2, <3>3, <3>4, <3>5 DEF Walked
  <2>9. CASE ~ Predicated(p) /\ ~ Fails(p) /\ Enters(p)
    <3> DEFINE frame == [list |-> p.list, at |-> 1, end |-> Len(p.list) + 1]
               new == Append(passed, frame)
    <3>1. d <= MaxDepth
      BY <1>3, <2>9 DEF Fails, MaxDepth
    <3>2. then = Meaning[left - 1][<<now, p.list>>]
      BY <2>6, <2>9 DEF then, One, Predicated, Fails
    <3>3. frame \in Frames /\ Remains(frame, p.list)
      <4>1. PICK list \in Seq(Packets) : list = p.list
        BY <2>3
      <4>2. [list |-> list, at |-> 1, end |-> Len(list) + 1] \in Frames
        BY DEF Frames
      <4>3. Remains([list |-> list, at |-> 1, end |-> Len(list) + 1], list)
        BY DEF Remains
      <4> QED
        BY <4>1, <4>2, <4>3
    <3> HIDE DEF frame
    <3>4. LeadsTo(ring, new, gpu, Total(kicked))
      BY <1>1, <1>2, <1>3, <1>6, <2>3, <3>1, <3>2, <3>3, LeadsPushed DEF then, passed, p, left
    <3>5. new \in Seq(Frames) /\ Len(new) = d + 1 /\ new[1] = passed[1]
      BY <1>3, <2>4, <3>3
    <3>6. stack' = new /\ UNCHANGED <<gpu, pending, word>>
      BY <2>1, <2>9 DEF frame
    <3> HIDE DEF new
    <3> QED
      BY <1>1, <1>3, <2>5, <3>1, <3>4, <3>5, <3>6 DEF Walked, MaxDepth
  <2>10. CASE ~ Predicated(p) /\ ~ Fails(p) /\ ~ Enters(p)
    <3>1. then = [gpu |-> Leaf(gpu, p), ok |-> TRUE]
      BY <2>10 DEF then, One, Predicated, Fails
    <3>2. LeadsTo(ring, passed, Leaf(gpu, p), Total(kicked))
      BY <1>1, <1>2, <1>3, <1>6, <3>1, LeadsPassed DEF then, passed, p, left
    <3>3. Leaf(gpu, p) \in Gpus
      BY <1>1, <2>3, LeafType
    <3>4. Len(kicked) \in 0 .. MaxPackets
      BY <1>1, MaxPacketsAssumption
    <3>5. /\ stack' = passed /\ gpu' = Leaf(gpu, p)
          /\ pending' = IF p.op = "interrupt" THEN pending \cup {p.value} ELSE pending
          /\ word' = IF p.op = "fence" THEN Len(kicked) ELSE word
      BY <2>1, <2>10
    <3>6. pending' \subseteq 0 .. 5 /\ word' \in 0 .. MaxPackets
      <4>1. p.op = "interrupt" => {p.value} \subseteq 0 .. 5
        BY <2>3
      <4>2. pending' = pending \/ (p.op = "interrupt" /\ pending' = pending \cup {p.value})
        BY <3>5
      <4>3. word' \in 0 .. MaxPackets
        BY <1>1, <3>4, <3>5
      <4> QED
        BY <1>1, <4>1, <4>2, <4>3
    <3> QED
      BY <1>3, <2>4, <2>5, <3>2, <3>3, <3>5, <3>6 DEF Walked
  <2> QED
    BY <2>7, <2>8, <2>9, <2>10
<1> QED
  BY <1>5, <1>6

LEMMA NextRing ==
  ASSUME RingInv, [Next]_vars
  PROVE  RingInv'
<1>1. ASSUME NEW p \in Ringed, Put(p) PROVE RingInv'
  BY <1>1, PutRing
<1>2. CASE StartTitle
  BY <1>2, StartTitleRing
<1>3. CASE StartVsync
  BY <1>3, StartVsyncRing
<1>4. CASE Walk
  <2>1. CASE lock = "title"
    BY <1>4, <2>1, StepRing, WalkedRing
  <2>2. CASE lock = "vsync"
    BY <1>4, <2>2, NothingRing
  <2> QED
    BY <1>4, <2>1, <2>2 DEF Walk, Threads
<1>5. CASE EndTitle
  <2>1. pending' \cup serving' \subseteq 0 .. 5
    BY <1>5 DEF EndTitle, RingInv, TypeOK
  <2> QED
    BY <1>5, <2>1, DrainedRing DEF EndTitle, Threads
<1>6. CASE EndVsync
  <2>1. pending' \cup serving' \subseteq 0 .. 5
    BY <1>6 DEF EndVsync, RingInv, TypeOK
  <2> QED
    BY <1>6, <2>1, DrainedRing DEF EndVsync, Threads
<1>7. CASE \/ Kick \/ Await \/ Resume \/ LearnDevice \/ Dispatch \/ Handler \/ MarkVblank
           \/ UNCHANGED vars
  BY <1>7, OtherRing
<1> QED
  BY <1>1, <1>2, <1>3, <1>4, <1>5, <1>6, <1>7 DEF Next

\* Every packet that reaches the processor is one of the program's, whole: the
\* reader never takes a payload, or the rest of an earlier round, for a packet
\* (ExecutePm4Buffer's index stays in the ring), and lists nest no deeper than
\* they may.
THEOREM TypeCorrect == Spec => []TypeOK
<1>1. RingInv => TypeOK
  BY DEF RingInv
<1> QED
  BY <1>1, InitRing, NextRing, PTL DEF Spec

\* What ConsumeRingBuffer carries out, whatever the ring's size, its wraps, the
\* nesting of the lists and the vsync worker's walks in between, is what the title
\* put, in its order; and no batch that the doorbell rang for is left.
THEOREM CarriesOut == Spec => []CarriedOut
<1>1. RingInv => CarriedOut
  BY DEF RingInv, Idle, CarriedOut
<1> QED
  BY <1>1, InitRing, NextRing, PTL DEF Spec
=============================================================================
