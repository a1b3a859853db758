----------------------- MODULE PresentPipelineProofs -----------------------
(***************************************************************************)
(* Proofs about PresentPipeline, for every size of the ring, every title   *)
(* and every number of frames: the variables have their types, one frame   *)
(* is in flight at a time, and the ring with its index arithmetic is the   *)
(* queue of SnapshotQueue.  Then what is presented and when, as long as a  *)
(* frame's draws and its end fit the ring: the title gets no further than  *)
(* a frame ahead of the worker, which shows a frame or loses it with the   *)
(* window; a part of a frame is shown only when a whole one is overdue.    *)
(***************************************************************************)
EXTENDS PresentPipeline, SequenceTheorems, TLAPS

-----------------------------------------------------------------------------
(* The ring's index arithmetic *)

LEMMA ModSmall ==
  ASSUME NEW S \in Nat \ {0}, NEW a \in 0 .. S - 1
  PROVE  a % S = a
OBVIOUS

LEMMA ModWrap ==
  ASSUME NEW S \in Nat \ {0}, NEW a \in S .. 2 * S - 1
  PROVE  a % S = a - S
<1>1. a = S * (a \div S) + (a % S) /\ a % S \in 0 .. S - 1
  OBVIOUS
<1>2. a \div S \in Nat
  OBVIOUS
<1>3. a \div S = 1
  BY <1>1, <1>2, SMTT(30)
<1> QED
  BY <1>1, <1>3

\* What % does to a sum of an index and a count.
LEMMA Wrapped ==
  ASSUME NEW a \in 0 .. 2 * Size - 1
  PROVE  a % Size = (IF a < Size THEN a ELSE a - Size)
<1>1. CASE a < Size
  BY <1>1, ModSmall, SizeAssumption
<1>2. CASE a >= Size
  BY <1>2, ModWrap, SizeAssumption
<1> QED
  BY <1>1, <1>2, SizeAssumption

\* Where the entry is that comes i places after the oldest of c, when the next
\* place is n: with %, and without.
Index(n, c, i) == (((n + Size - c) % Size) + i) % Size
First(n, c) == IF n >= c THEN n - c ELSE n + Size - c
Place(n, c, i) == IF First(n, c) + i < Size THEN First(n, c) + i ELSE First(n, c) + i - Size

LEMMA IndexIsPlace ==
  ASSUME NEW n \in 0 .. Size - 1, NEW c \in 0 .. Size, NEW i \in 0 .. Size - 1
  PROVE  Index(n, c, i) = Place(n, c, i) /\ Index(n, c, i) \in 0 .. Size - 1
<1>1. n + Size - c \in 0 .. 2 * Size - 1
  BY SizeAssumption
<1>2. (n + Size - c) % Size = First(n, c) /\ First(n, c) \in 0 .. Size - 1
  BY <1>1, Wrapped, SizeAssumption DEF First
<1>3. First(n, c) + i \in 0 .. 2 * Size - 1
  BY <1>2, SizeAssumption
<1>4. (First(n, c) + i) % Size = Place(n, c, i)
  BY <1>2, <1>3, Wrapped, SizeAssumption DEF Place
<1> QED
  BY <1>2, <1>4, SizeAssumption DEF Index, Place

LEMMA NextPlace ==
  ASSUME NEW n \in 0 .. Size - 1
  PROVE  /\ (n + 1) % Size = (IF n + 1 < Size THEN n + 1 ELSE 0)
         /\ (n + 1) % Size \in 0 .. Size - 1
<1>1. n + 1 \in 0 .. 2 * Size - 1
  BY SizeAssumption
<1> QED
  BY <1>1, Wrapped, SizeAssumption

\* When an entry is stored it is the last; the places of the others stay theirs,
\* in a full ring those of all but the oldest.
LEMMA StorePlaces ==
  ASSUME NEW n \in 0 .. Size - 1, NEW c \in 0 .. Size - 1
  PROVE  /\ Index((n + 1) % Size, c + 1, c) = n
         /\ \A i \in 0 .. c - 1 :
              /\ Index((n + 1) % Size, c + 1, i) = Index(n, c, i)
              /\ Index(n, c, i) # n /\ Index(n, c, i) \in 0 .. Size - 1
<1>1. /\ (n + 1) % Size = (IF n + 1 < Size THEN n + 1 ELSE 0)
      /\ (n + 1) % Size \in 0 .. Size - 1
  BY NextPlace
<1>2. c + 1 \in 0 .. Size /\ c \in 0 .. Size
  BY SizeAssumption
<1>3. Index((n + 1) % Size, c + 1, c) = n
  <2>1. Index((n + 1) % Size, c + 1, c) = Place((n + 1) % Size, c + 1, c)
    BY <1>1, <1>2, IndexIsPlace
  <2> QED
    BY <1>1, <2>1, SizeAssumption DEF Place, First
<1>4. ASSUME NEW i \in 0 .. c - 1
      PROVE  /\ Index((n + 1) % Size, c + 1, i) = Index(n, c, i)
             /\ Index(n, c, i) # n /\ Index(n, c, i) \in 0 .. Size - 1
  <2>1. i \in 0 .. Size - 1
    BY SizeAssumption
  <2>2. Index((n + 1) % Size, c + 1, i) = Place((n + 1) % Size, c + 1, i)
    BY <1>1, <1>2, <2>1, IndexIsPlace
  <2>3. Index(n, c, i) = Place(n, c, i) /\ Index(n, c, i) \in 0 .. Size - 1
    BY <1>2, <2>1, IndexIsPlace
  <2>4. Place(n, c, i) # n
    BY SizeAssumption DEF Place, First
  <2>5. Place((n + 1) % Size, c + 1, i) = Place(n, c, i)
    <3>1. CASE n + 1 < Size
      BY <1>1, <3>1, SizeAssumption DEF Place, First
    <3>2. CASE n + 1 = Size
      BY <1>1, <3>2, SizeAssumption DEF Place, First
    <3> QED
      BY <3>1, <3>2, SizeAssumption
  <2> QED
    BY <2>2, <2>3, <2>4, <2>5
<1> QED
  BY <1>3, <1>4

LEMMA StorePlacesFull ==
  ASSUME NEW n \in 0 .. Size - 1
  PROVE  /\ Index((n + 1) % Size, Size, Size - 1) = n
         /\ \A i \in 0 .. Size - 2 :
              /\ Index((n + 1) % Size, Size, i) = Index(n, Size, i + 1)
              /\ Index(n, Size, i + 1) # n /\ Index(n, Size, i + 1) \in 0 .. Size - 1
<1>1. /\ (n + 1) % Size = (IF n + 1 < Size THEN n + 1 ELSE 0)
      /\ (n + 1) % Size \in 0 .. Size - 1
  BY NextPlace
<1>2. Size \in 0 .. Size /\ Size - 1 \in 0 .. Size - 1
  BY SizeAssumption
<1>3. Index((n + 1) % Size, Size, Size - 1) = n
  <2>1. Index((n + 1) % Size, Size, Size - 1) = Place((n + 1) % Size, Size, Size - 1)
    BY <1>1, <1>2, IndexIsPlace
  <2> QED
    BY <1>1, <2>1, SizeAssumption DEF Place, First
<1>4. ASSUME NEW i \in 0 .. Size - 2
      PROVE  /\ Index((n + 1) % Size, Size, i) = Index(n, Size, i + 1)
             /\ Index(n, Size, i + 1) # n /\ Index(n, Size, i + 1) \in 0 .. Size - 1
  <2>1. i \in 0 .. Size - 1 /\ i + 1 \in 0 .. Size - 1
    BY SizeAssumption
  <2>2. Index((n + 1) % Size, Size, i) = Place((n + 1) % Size, Size, i)
    BY <1>1, <1>2, <2>1, IndexIsPlace
  <2>3. Index(n, Size, i + 1) = Place(n, Size, i + 1) /\ Index(n, Size, i + 1) \in 0 .. Size - 1
    BY <1>2, <2>1, IndexIsPlace
  <2> QED
    BY <1>1, <2>2, <2>3, SizeAssumption DEF Place, First
<1> QED
  BY <1>3, <1>4

\* What is left of c entries is at the front, when the next place is theirs.
LEMMA TakePlaces ==
  ASSUME NEW c \in 0 .. Size
  PROVE  c % Size \in 0 .. Size - 1 /\ \A i \in 0 .. c - 1 : Index(c % Size, c, i) = i
<1>1. c \in 0 .. 2 * Size - 1
  BY SizeAssumption
<1>2. c % Size = (IF c < Size THEN c ELSE 0) /\ c % Size \in 0 .. Size - 1
  BY <1>1, Wrapped, SizeAssumption
<1>3. ASSUME NEW i \in 0 .. c - 1
      PROVE  Index(c % Size, c, i) = i
  <2>1. i \in 0 .. Size - 1
    BY SizeAssumption
  <2>2. Index(c % Size, c, i) = Place(c % Size, c, i)
    BY <1>2, <2>1, IndexIsPlace
  <2> QED
    BY <1>2, <2>1, <2>2, SizeAssumption DEF Place, First
<1> QED
  BY <1>2, <1>3

-----------------------------------------------------------------------------
(* The ring's types *)

\* The ring has its types, and its entries are there: a place moved from is not
\* one of them.
RingInv == RingTypeOK /\ \A i \in 0 .. count - 1 : Entry(i) \in Entries

LEMMA EntryIs == \A i : Entry(i) = ring[Index(next, count, i)]
BY DEF Entry, Start, Index

LEMMA EntryWillBe == \A i : Entry(i)' = ring'[Index(next', count', i)]
BY DEF Entry, Start, Index

LEMMA RingInitInv == RingInit => RingInv
BY SizeAssumption DEF RingInit, RingInv, RingTypeOK

\* What an entry stored does to the entries.
LEMMA StoreEffect ==
  ASSUME RingInv, NEW e \in Entries, Store(e)
  PROVE  /\ next' \in 0 .. Size - 1 /\ count' \in 1 .. Size
         /\ count' = IF count < Size THEN count + 1 ELSE count
         /\ Entry(count - 1)' = e
         /\ \A i \in 0 .. count' - 2 : Entry(i)' = Entry(IF count < Size THEN i ELSE i + 1)
<1>1. /\ ring \in [0 .. Size - 1 -> Entries \cup {NoEntry}]
      /\ next \in 0 .. Size - 1 /\ count \in 0 .. Size
  BY DEF RingInv, RingTypeOK
<1>2. /\ ring' = [ring EXCEPT ![next] = e]
      /\ next' = (next + 1) % Size
      /\ count' = IF count < Size THEN count + 1 ELSE count
  BY DEF Store
<1>3. next' \in 0 .. Size - 1 /\ count' \in 1 .. Size
  BY <1>1, <1>2, NextPlace, SizeAssumption
<1>4. CASE count < Size
  <2>1. count \in 0 .. Size - 1 /\ count' = count + 1
    BY <1>1, <1>2, <1>4, SizeAssumption
  <2>2. Entry(count - 1)' = e
    <3>1. Index(next', count', count' - 1) = next
      BY <1>1, <1>2, <2>1, StorePlaces, SizeAssumption
    <3> QED
      BY <1>1, <1>2, <3>1, EntryWillBe
  <2>3. ASSUME NEW i \in 0 .. count' - 2
        PROVE  Entry(i)' = Entry(i)
    <3>1. i \in 0 .. count - 1
      BY <2>1
    <3>2. /\ Index(next', count', i) = Index(next, count, i)
          /\ Index(next, count, i) # next /\ Index(next, count, i) \in 0 .. Size - 1
      BY <1>1, <1>2, <2>1, <3>1, StorePlaces
    <3> QED
      BY <1>1, <1>2, <3>2, EntryIs, EntryWillBe
  <2> QED
    BY <1>2, <1>3, <1>4, <2>2, <2>3
<1>5. CASE count = Size
  <2>1. count' = Size
    BY <1>2, <1>5, SizeAssumption
  <2>2. Entry(count - 1)' = e
    <3>1. Index(next', count', count' - 1) = next
      BY <1>1, <1>2, <2>1, StorePlacesFull
    <3> QED
      BY <1>1, <1>2, <3>1, EntryWillBe
  <2>3. ASSUME NEW i \in 0 .. count' - 2
        PROVE  Entry(i)' = Entry(i + 1)
    <3>1. i \in 0 .. Size - 2
      BY <2>1
    <3>2. /\ Index((next + 1) % Size, Size, i) = Index(next, Size, i + 1)
          /\ Index(next, Size, i + 1) # next /\ Index(next, Size, i + 1) \in 0 .. Size - 1
      BY <1>1, <3>1, StorePlacesFull
    <3> QED
      BY <1>1, <1>2, <1>5, <2>1, <3>2, EntryIs, EntryWillBe
  <2> QED
    BY <1>2, <1>3, <1>5, <2>2, <2>3, SizeAssumption
<1> QED
  BY <1>1, <1>4, <1>5, SizeAssumption

LEMMA StoreKeepsInv ==
  ASSUME RingInv, NEW e \in Entries, Push(e) \/ PushVideo(e)
  PROVE  RingInv'
<1>1. Store(e) /\ held' = held /\ taken' = taken /\ videoSeen' \in BOOLEAN
  BY DEF Push, PushVideo, RingInv, RingTypeOK
<1>2. count \in 0 .. Size /\ \A i \in 0 .. count - 1 : Entry(i) \in Entries
  BY DEF RingInv, RingTypeOK
<1>3. /\ next' \in 0 .. Size - 1 /\ count' \in 1 .. Size
      /\ count' = IF count < Size THEN count + 1 ELSE count
      /\ Entry(count - 1)' = e
      /\ \A i \in 0 .. count' - 2 : Entry(i)' = Entry(IF count < Size THEN i ELSE i + 1)
  BY <1>1, StoreEffect
<1>4. RingTypeOK'
  <2>1. ring' \in [0 .. Size - 1 -> Entries \cup {NoEntry}]
    BY <1>1 DEF RingInv, RingTypeOK, Store
  <2>2. count' \in 0 .. Size
    BY <1>3, SizeAssumption
  <2> QED
    BY <1>1, <1>3, <2>1, <2>2 DEF RingInv, RingTypeOK
<1>5. ASSUME NEW i \in 0 .. count' - 1
      PROVE  Entry(i)' \in Entries
  <2>1. CASE i = count' - 1
    <3>1. Entry(count - 1)' = ring'[Index(next', count', count' - 1)]
      BY EntryWillBe
    <3>2. Entry(i)' = ring'[Index(next', count', i)]
      BY EntryWillBe
    <3> QED
      BY <1>3, <2>1, <3>1, <3>2
  <2>2. CASE i # count' - 1
    <3>1. i \in 0 .. count' - 2
      BY <1>3, <2>2
    <3>2. Entry(i)' = Entry(IF count < Size THEN i ELSE i + 1)
      BY <1>3, <3>1
    <3>3. (IF count < Size THEN i ELSE i + 1) \in 0 .. count - 1
      BY <1>2, <1>3, <3>1
    <3> QED
      BY <1>2, <3>2, <3>3
  <2> QED
    BY <2>1, <2>2
<1> QED
  BY <1>4, <1>5 DEF RingInv

\* What a present does that finds something: it takes the first n entries, leaves
\* no frame end behind and moves the rest to the front.
LEMMA TakeEffect ==
  ASSUME RingInv, Take, count # 0
  PROVE  \E n \in 0 .. count :
           /\ n \in {0, count} \/ Entry(n - 1) \in Ends
           /\ \A i \in n .. count - 1 : Entry(i) \notin Ends
           /\ taken' = [i \in 1 .. n |-> Entry(i - 1)]
           /\ count' = count - n
           /\ next' \in 0 .. Size - 1 /\ held' \in 0 .. 2
           /\ ring' \in [0 .. Size - 1 -> Entries \cup {NoEntry}]
           /\ \A i \in 0 .. count - n - 1 : Entry(i)' = Entry(n + i)
<1>1. /\ ring \in [0 .. Size - 1 -> Entries \cup {NoEntry}]
      /\ next \in 0 .. Size - 1 /\ count \in 0 .. Size /\ held \in 0 .. 2
      /\ \A i \in 0 .. count - 1 : Entry(i) \in Entries
  BY DEF RingInv, RingTypeOK
<1>2. PICK n \in 0 .. count :
        /\ TakeUpTo(n)
        /\ taken' = [i \in 1 .. n |-> Entry(i - 1)]
        /\ ring' = [i \in 0 .. Size - 1 |-> IF i < count - n THEN Entry(n + i) ELSE NoEntry]
        /\ next' = (count - n) % Size
        /\ count' = count - n
        /\ held' = IF FrameEnded THEN 0 ELSE IF HoldBack THEN held + 1 ELSE held
  BY DEF Take
<1>3. /\ n \in {0, count} \/ Entry(n - 1) \in Ends
      /\ \A i \in n .. count - 1 : Entry(i) \notin Ends
  <2>1. CASE FrameEnded
    BY <1>2, <2>1 DEF TakeUpTo
  <2>2. CASE ~FrameEnded
    <3>1. n \in {0, count}
      BY <1>2, <2>2 DEF TakeUpTo
    <3>2. \A i \in 0 .. count - 1 : Entry(i) \notin Ends
      BY <2>2 DEF FrameEnded
    <3> QED
      BY <1>1, <3>1, <3>2
  <2> QED
    BY <2>1, <2>2
<1>4. held' \in 0 .. 2
  BY <1>1, <1>2 DEF HoldBack
<1>5. count - n \in 0 .. Size /\ next' \in 0 .. Size - 1
  <2>1. count - n \in 0 .. Size
    BY <1>1, SizeAssumption
  <2> QED
    BY <1>2, <2>1, TakePlaces
<1>6. ASSUME NEW i \in 0 .. Size - 1
      PROVE  ring'[i] \in Entries \cup {NoEntry}
  BY <1>1, <1>2
<1>7. ASSUME NEW i \in 0 .. count - n - 1
      PROVE  Entry(i)' = Entry(n + i)
  <2>1. Index(next', count', i) = i
    BY <1>2, <1>5, TakePlaces
  <2>2. Entry(i)' = ring'[i]
    BY <2>1, EntryWillBe
  <2>3. i \in 0 .. Size - 1 /\ i < count - n
    BY <1>1, <1>2, SizeAssumption
  <2> QED
    BY <1>2, <2>2, <2>3
<1> QED
  BY <1>2, <1>3, <1>4, <1>5, <1>6, <1>7

LEMMA TakeKeepsInv ==
  ASSUME RingInv, Take
  PROVE  RingInv'
<1>1. videoSeen' \in BOOLEAN
  BY DEF Take
<1>2. CASE count = 0
  <2>1. taken' = <<>> /\ ring' = ring /\ next' = next /\ count' = count /\ held' = held
    BY <1>2 DEF Take
  <2> QED
    BY <1>1, <1>2, <2>1 DEF RingInv, RingTypeOK
<1>3. CASE count # 0
  <2>1. count \in 0 .. Size /\ \A i \in 0 .. count - 1 : Entry(i) \in Entries
    BY DEF RingInv, RingTypeOK
  <2>2. PICK n \in 0 .. count :
          /\ taken' = [i \in 1 .. n |-> Entry(i - 1)]
          /\ count' = count - n
          /\ next' \in 0 .. Size - 1 /\ held' \in 0 .. 2
          /\ ring' \in [0 .. Size - 1 -> Entries \cup {NoEntry}]
          /\ \A i \in 0 .. count - n - 1 : Entry(i)' = Entry(n + i)
    BY <1>3, TakeEffect
  <2>3. taken' \in Seq(Entries)
    BY <2>1, <2>2
  <2>4. count' \in 0 .. Size
    BY <2>1, <2>2, SizeAssumption
  <2>5. \A i \in 0 .. count' - 1 : Entry(i)' \in Entries
    BY <2>1, <2>2
  <2> QED
    BY <1>1, <2>2, <2>3, <2>4, <2>5 DEF RingInv, RingTypeOK
<1> QED
  BY <1>2, <1>3

LEMMA RingStaysInv ==
  ASSUME RingInv, UNCHANGED ringVars
  PROVE  RingInv'
BY DEF RingInv, RingTypeOK, ringVars, Entry, Start

-----------------------------------------------------------------------------
(* The ring is a queue *)

\* The contents are a sequence of entries.
LEMMA ContentsSeq ==
  ASSUME RingInv
  PROVE  /\ Contents \in Seq(Entries) /\ Len(Contents) = count
         /\ \A i \in 1 .. count : Contents[i] = Entry(i - 1)
<1>1. count \in Nat /\ \A i \in 0 .. count - 1 : Entry(i) \in Entries
  BY SizeAssumption DEF RingInv, RingTypeOK
<1>2. Contents \in [1 .. count -> Entries]
  BY <1>1 DEF Contents
<1> QED
  BY <1>1, <1>2 DEF Contents

LEMMA AppendIs ==
  ASSUME NEW S, NEW s \in Seq(S), NEW x \in S, NEW n \in Nat, n = Len(s) + 1,
         NEW f \in [1 .. n -> S], f[n] = x, \A i \in 1 .. Len(s) : f[i] = s[i]
  PROVE  f = Append(s, x)
<1>1. f \in Seq(S) /\ Len(f) = n
  OBVIOUS
<1>2. Append(s, x) \in Seq(S) /\ Len(Append(s, x)) = n
  OBVIOUS
<1>3. \A i \in 1 .. n : f[i] = Append(s, x)[i]
  OBVIOUS
<1> QED
  BY <1>1, <1>2, <1>3, SeqEqual

\* An entry stored is one appended, at the cost of the oldest of a full ring.
LEMMA StoreAppends ==
  ASSUME RingInv, NEW e \in Entries, Push(e) \/ PushVideo(e)
  PROVE  Queue!Push(e)
<1>1. Store(e) /\ taken' = taken
  BY DEF Push, PushVideo
<1>2. /\ count' = IF count < Size THEN count + 1 ELSE count
      /\ Entry(count - 1)' = e
      /\ \A i \in 0 .. count' - 2 : Entry(i)' = Entry(IF count < Size THEN i ELSE i + 1)
  BY <1>1, StoreEffect
<1>3. count \in 0 .. Size
  BY DEF RingInv, RingTypeOK
<1>4. /\ Contents \in Seq(Entries) /\ Len(Contents) = count
      /\ \A i \in 1 .. count : Contents[i] = Entry(i - 1)
  BY ContentsSeq
<1>5. Contents' = [i \in 1 .. count' |-> Entry(i - 1)']
  BY DEF Contents
<1> DEFINE old == IF count < Size THEN Contents ELSE Tail(Contents)
<1>6. old \in Seq(Entries) /\ Len(old) = count' - 1
  BY <1>2, <1>3, <1>4, SizeAssumption
<1>7. \A i \in 1 .. Len(old) : old[i] = Entry(IF count < Size THEN i - 1 ELSE i)
  BY <1>2, <1>3, <1>4, <1>6, SizeAssumption
<1>8. Contents' = Append(old, e)
  <2>1. Contents' \in [1 .. count' -> Entries]
    <3>1. RingInv'
      BY StoreKeepsInv
    <3>2. \A i \in 0 .. count' - 1 : Entry(i)' \in Entries
      BY <3>1 DEF RingInv
    <3>3. count' \in Nat /\ \A i \in 1 .. count' : i - 1 \in 0 .. count' - 1
      BY <1>2, <1>3, SizeAssumption
    <3> QED
      BY <1>5, <3>2, <3>3
  <2>2. Contents'[count'] = e
    <3>1. Contents' = [i \in 1 .. count' |-> ring'[Index(next', count', i - 1)]]
      BY EntryWillBe DEF Contents
    <3>2. Contents'[count'] = ring'[Index(next', count', count' - 1)]
      BY <1>2, <1>3, <3>1, SizeAssumption
    <3>3. Entry(count - 1)' = ring'[Index(next', count', count' - 1)]
      BY EntryWillBe
    <3> QED
      BY <1>2, <3>2, <3>3
  <2>3. \A i \in 1 .. Len(old) : Contents'[i] = old[i]
    BY <1>2, <1>3, <1>5, <1>6, <1>7, SizeAssumption
  <2> QED
    BY <1>2, <1>3, <1>6, <2>1, <2>2, <2>3, AppendIs
<1> QED
  BY <1>1, <1>4, <1>8 DEF Queue!Push

\* A present takes what the queue lets it take.
LEMMA TakeTakes ==
  ASSUME RingInv, Take
  PROVE  \E n \in 0 .. Len(Contents) : Queue!Take(n)
<1>1. /\ Contents \in Seq(Entries) /\ Len(Contents) = count
      /\ \A i \in 1 .. count : Contents[i] = Entry(i - 1)
  BY ContentsSeq
<1>2. count \in 0 .. Size
  BY DEF RingInv, RingTypeOK
<1>3. Contents' = [i \in 1 .. count' |-> Entry(i - 1)']
  BY DEF Contents
<1>4. CASE count = 0
  <2>1. taken' = <<>> /\ count' = 0
    BY <1>4 DEF Take
  <2>2. Contents' = <<>>
    BY <1>3, <2>1
  <2>3. Queue!Take(0)
    BY <1>1, <1>4, <2>1, <2>2 DEF Queue!Take
  <2> QED
    BY <1>1, <1>4, <2>3
<1>5. CASE count # 0
  <2>1. PICK n \in 0 .. count :
          /\ n \in {0, count} \/ Entry(n - 1) \in Ends
          /\ \A i \in n .. count - 1 : Entry(i) \notin Ends
          /\ taken' = [i \in 1 .. n |-> Entry(i - 1)]
          /\ count' = count - n
          /\ \A i \in 0 .. count - n - 1 : Entry(i)' = Entry(n + i)
    BY <1>5, TakeEffect
  <2>2. n \in {0, Len(Contents)} \/ Contents[n] \in Ends
    BY <1>1, <1>2, <2>1
  <2>3. \A i \in n + 1 .. Len(Contents) : Contents[i] \notin Ends
    BY <1>1, <1>2, <2>1
  <2>4. taken' = [i \in 1 .. n |-> Contents[i]]
    BY <1>1, <1>2, <2>1
  <2>5. Contents' = [i \in 1 .. Len(Contents) - n |-> Contents[n + i]]
    <3>1. ASSUME NEW i \in 1 .. count - n
          PROVE  Entry(i - 1)' = Contents[n + i]
      <4>1. Entry(i - 1)' = Entry(n + (i - 1))
        BY <1>2, <2>1
      <4>2. n + i \in 1 .. count /\ n + (i - 1) = (n + i) - 1
        BY <1>2
      <4> QED
        BY <1>1, <4>1, <4>2
    <3> QED
      BY <1>1, <1>3, <2>1, <3>1
  <2>6. Queue!Take(n)
    BY <2>2, <2>3, <2>4, <2>5 DEF Queue!Take
  <2> QED
    BY <1>1, <2>6
<1> QED
  BY <1>4, <1>5

-----------------------------------------------------------------------------
(* Type correctness *)

\* What a step does to the ring: an entry is stored, a present takes, or nothing.
LEMMA RingStep ==
  ASSUME frame \in 1 .. MaxFrames + 1, [Next]_vars
  PROVE  \/ \E e \in Entries : Push(e) \/ PushVideo(e)
         \/ Take
         \/ UNCHANGED ringVars
<1>1. CASE Draw
  <2>1. [frame |-> frame, end |-> FALSE] \in Entries
    BY FramesAssumption DEF FrameEntries
  <2> QED
    BY <1>1, <2>1 DEF Draw
<1>2. CASE Swap
  <2>1. [frame |-> frame, end |-> TRUE] \in Entries
    BY FramesAssumption DEF FrameEntries
  <2> QED
    BY <1>2, <2>1 DEF Swap
<1>3. CASE TakeRing
  BY <1>3 DEF TakeRing
<1>4. CASE SwapUnmarked \/ TitleStep \/ GiveUp \/ WakeForNothing \/ Stop \/ NotifyStop \/ Join
  BY <1>4 DEF SwapUnmarked, TitleStep, GiveUp, WakeForNothing, Stop, NotifyStop, Join,
       PresentNothing, StartPresentWorker, WaitForFlight, HandOver, NotifyRequest
<1>5. CASE Test \/ Doze \/ Show \/ Lose \/ Land \/ Tell
  BY <1>5 DEF Test, Doze, Show, Lose, Land, Tell
<1>6. CASE UNCHANGED vars
  BY <1>6 DEF vars
<1> QED
  BY <1>1, <1>2, <1>3, <1>4, <1>5, <1>6 DEF Next, WorkerStep

TypeInv == TypeOK /\ RingInv

Titles == [pc : {"draw", "present", "flight", "asleep", "hand", "notify", "gone"}, left : 0 .. 2]

LEMMA TitleTypes ==
  ASSUME NEW place \in {"draw", "present", "flight", "asleep", "hand", "notify", "gone"},
         NEW left \in 0 .. 2
  PROVE  Title(place, left) \in Titles
BY DEF Title, Titles

LEMMA InitTypes == Init => TypeInv
<1>1. ASSUME Init PROVE RingInv
  BY <1>1, RingInitInv DEF Init
<1>2. ASSUME Init PROVE TypeOK
  <2>1. RingTypeOK
    BY <1>1, <1>2 DEF RingInv
  <2>2. frame \in 1 .. MaxFrames + 1 /\ drawn \in 0 .. MaxDraws /\ {shown, lost} \subseteq 0 .. MaxFrames + 1
    BY <1>2, BoundsAssumption DEF Init
  <2>3. title \in Titles
    BY <1>2, TitleTypes DEF Init
  <2>4. /\ running \in BOOLEAN /\ pending \in BOOLEAN /\ inFlight \in BOOLEAN
        /\ ready \in BOOLEAN /\ missed \in BOOLEAN /\ unheard \in BOOLEAN
    BY <1>2 DEF Init
  <2>5. /\ worker \in {"none", "test", "dozing", "asleep", "take", "show", "land", "tell", "gone"}
        /\ quit \in {"no", "notify", "join", "down"} /\ calls \in 0 .. 3
    BY <1>2 DEF Init
  <2> QED
    BY <2>1, <2>2, <2>3, <2>4, <2>5 DEF TypeOK, Titles
<1> QED
  BY <1>1, <1>2 DEF TypeInv

\* The frames that end in a present are frames.
LEMMA EndedFrames ==
  ASSUME NEW s \in Seq(Entries)
  PROVE  EndedIn(s) \subseteq 0 .. MaxFrames + 1
<1> SUFFICES ASSUME NEW i \in DOMAIN s PROVE s[i].frame \in 0 .. MaxFrames + 1
  BY DEF EndedIn
<1>1. s[i] \in FrameEntries
  BY FramesAssumption
<1> QED
  BY <1>1, BoundsAssumption DEF FrameEntries

LEMMA NextTypes ==
  ASSUME TypeInv, [Next]_vars
  PROVE  TypeInv'
<1> USE BoundsAssumption
<1>1. RingInv'
  BY RingStep, StoreKeepsInv, TakeKeepsInv, RingStaysInv DEF TypeInv, TypeOK
<1>2. RingTypeOK'
  BY <1>1 DEF RingInv
<1>3. TypeOK'
  <2>1. CASE Draw
    BY <1>2, <2>1 DEF TypeInv, TypeOK, Draw, history
  <2>2. CASE Swap
    BY <1>2, <2>2 DEF TypeInv, TypeOK, Swap, Title
  <2>3. CASE SwapUnmarked
    BY <1>2, <2>3 DEF TypeInv, TypeOK, SwapUnmarked, Title, history
  <2>4. CASE PresentNothing \/ GiveUp
    <3>1. title' \in Titles
      BY <2>4, TitleTypes DEF TypeInv, TypeOK, Titles, PresentNothing, GiveUp, Return
    <3> QED
      BY <1>2, <2>4, <3>1 DEF TypeInv, TypeOK, PresentNothing, GiveUp, Titles, history
  <2>5. CASE StartPresentWorker
    BY <1>2, <2>5 DEF TypeInv, TypeOK, StartPresentWorker, Title, history
  <2>6. CASE WaitForFlight
    <3>1. title' \in Titles
      BY <2>6, TitleTypes DEF TypeInv, TypeOK, Titles, WaitForFlight
    <3> QED
      BY <1>2, <2>6, <3>1 DEF TypeInv, TypeOK, WaitForFlight, Titles, history
  <2>7. CASE HandOver
    BY <1>2, <2>7 DEF TypeInv, TypeOK, HandOver, Title
  <2>8. CASE NotifyRequest
    BY <1>2, <2>8 DEF TypeInv, TypeOK, NotifyRequest, Return, Title, Woken, history
  <2>9. CASE Test
    BY <1>2, <2>9 DEF TypeInv, TypeOK, Test, history
  <2>10. CASE Doze \/ Land
    BY <1>2, <2>10 DEF TypeInv, TypeOK, Doze, Land, history
  <2>11. CASE WakeForNothing
    BY <1>2, <2>11 DEF TypeInv, TypeOK, WakeForNothing, Title, history
  <2>12. CASE TakeRing
    BY <1>2, <2>12 DEF TypeInv, TypeOK, TakeRing, history
  <2>13. CASE Show \/ Lose
    <3>1. EndedIn(taken) \subseteq 0 .. MaxFrames + 1
      BY EndedFrames DEF TypeInv, RingInv, RingTypeOK
    <3>2. {shown', lost'} \subseteq 0 .. MaxFrames + 1
      BY <2>13, <3>1 DEF TypeInv, TypeOK, Show, Lose, LastEnded
    <3> QED
      BY <1>2, <2>13, <3>2 DEF TypeInv, TypeOK, Show, Lose
  <2>14. CASE Tell
    BY <1>2, <2>14 DEF TypeInv, TypeOK, Tell, Title, history
  <2>16. CASE Stop
    <3>1. title' \in Titles
      BY <2>16, TitleTypes DEF TypeInv, TypeOK, Titles, Stop
    <3> QED
      BY <1>2, <2>16, <3>1 DEF TypeInv, TypeOK, Stop, Titles, history
  <2>17. CASE NotifyStop
    BY <1>2, <2>17 DEF TypeInv, TypeOK, NotifyStop, Woken
  <2>18. CASE Join
    BY <1>2, <2>18 DEF TypeInv, TypeOK, Join, history
  <2>19. CASE UNCHANGED vars
    BY <1>2, <2>19 DEF TypeInv, TypeOK, vars, history
  <2> QED
    BY <2>1, <2>2, <2>3, <2>4, <2>5, <2>6, <2>7, <2>8, <2>9, <2>10, <2>11, <2>12, <2>13, <2>14,
       <2>16, <2>17, <2>18, <2>19 DEF Next, TitleStep, WorkerStep
<1> QED
  BY <1>1, <1>3 DEF TypeInv

LEMMA TypesAlways == Spec => []TypeInv
<1>1. Init => TypeInv
  BY InitTypes
<1>2. TypeInv /\ [Next]_vars => TypeInv'
  BY NextTypes
<1> QED
  BY <1>1, <1>2, PTL DEF Spec

\* The variables have their types in every behaviour.
THEOREM TypeCorrect == Spec => []TypeOK
<1>1. TypeInv => TypeOK
  BY DEF TypeInv
<1> QED
  BY <1>1, TypesAlways, PTL

-----------------------------------------------------------------------------
(* The ring refines the queue *)

LEMMA InitQueue == Init => Queue!Init
BY DEF Init, RingInit, Queue!Init, Contents

LEMMA NextQueue ==
  ASSUME TypeInv, [Next]_vars
  PROVE  [Queue!Next]_<<Contents, taken>>
<1>1. RingInv
  BY DEF TypeInv
<1>2. CASE \E e \in Entries : Push(e) \/ PushVideo(e)
  BY <1>1, <1>2, StoreAppends DEF Queue!Next
<1>3. CASE Take
  BY <1>1, <1>3, TakeTakes DEF Queue!Next
<1>4. CASE UNCHANGED ringVars
  BY <1>4 DEF ringVars, Contents, Entry, Start
<1> QED
  BY <1>2, <1>3, <1>4, RingStep DEF TypeInv, TypeOK

\* The ring of snapshots with its wrapping indices, its overwriting of the oldest
\* and its moving of what a present leaves is the queue SnapshotQueue, for every
\* size and whatever the title, the worker and the window do.
THEOREM RingIsQueue == Spec => ImplementsQueue
<1>1. Init => Queue!Init
  BY InitQueue
<1>2. TypeInv /\ [Next]_vars => [Queue!Next]_<<Contents, taken>>
  BY NextQueue
<1> QED
  BY <1>1, <1>2, TypesAlways, PTL DEF Spec, ImplementsQueue, Queue!Spec

-----------------------------------------------------------------------------
(* One frame in flight *)

\* present_in_flight_ says that a frame is with the title, waiting or with the
\* worker, and it is in one of these places only. Until the title's thread has
\* ended, a worker that does not run was never started.
FlightInv ==
  /\ inFlight <=> (title.pc = "hand" \/ pending \/ Presenting)
  /\ title.pc = "hand" => ~pending /\ ~Presenting
  /\ ~(pending /\ Presenting)
  /\ ~running /\ title.pc # "gone" => worker = "none"

LEMMA NextFlight ==
  ASSUME TypeInv, FlightInv, [Next]_vars
  PROVE  FlightInv'
<1> USE DEF FlightInv, Presenting
<1>1. TypeOK
  BY DEF TypeInv
<1>2. CASE Draw \/ Join
  BY <1>2 DEF Draw, Join
<1>3. CASE Swap \/ SwapUnmarked
  BY <1>3 DEF Swap, SwapUnmarked, Title
<1>4. CASE PresentNothing \/ GiveUp
  BY <1>4 DEF PresentNothing, GiveUp, Return, Title
<1>5. CASE StartPresentWorker
  BY <1>1, <1>5 DEF StartPresentWorker, Title, TypeOK
<1>6. CASE WaitForFlight
  BY <1>1, <1>6 DEF WaitForFlight, Title, TypeOK
<1>7. CASE HandOver
  BY <1>1, <1>7 DEF HandOver, Title, TypeOK
<1>8. CASE NotifyRequest
  BY <1>8 DEF NotifyRequest, Return, Title, Woken
<1>9. CASE Test
  BY <1>1, <1>9 DEF Test, TypeOK
<1>10. CASE Doze \/ Show \/ Lose
  BY <1>10 DEF Doze, Show, Lose
<1>11. CASE WakeForNothing
  BY <1>11 DEF WakeForNothing, Title
<1>12. CASE TakeRing
  BY <1>12 DEF TakeRing
<1>13. CASE Land
  BY <1>1, <1>13 DEF Land, TypeOK
<1>14. CASE Tell
  BY <1>14 DEF Tell, Title
<1>15. CASE Stop
  BY <1>15 DEF Stop, Title
<1>16. CASE NotifyStop
  BY <1>16 DEF NotifyStop, Woken
<1>17. CASE UNCHANGED vars
  BY <1>17 DEF vars
<1> QED
  BY <1>2, <1>3, <1>4, <1>5, <1>6, <1>7, <1>8, <1>9, <1>10, <1>11, <1>12, <1>13, <1>14, <1>15,
     <1>16, <1>17 DEF Next, TitleStep, WorkerStep

LEMMA FlightAlways == Spec => []FlightInv
<1>1. Init => FlightInv
  BY DEF Init, FlightInv, Presenting, Title
<1>2. TypeInv /\ FlightInv /\ [Next]_vars => FlightInv'
  BY NextFlight
<1> QED
  BY <1>1, <1>2, TypesAlways, PTL DEF Spec

\* When the title hands a frame over, none waits for the worker or is with it,
\* also when it gave up waiting for an earlier one.
THEOREM OneInFlight == Spec => []OneFrameInFlight
<1>1. FlightInv => OneFrameInFlight
  BY DEF FlightInv, OneFrameInFlight
<1> QED
  BY <1>1, FlightAlways, PTL


-----------------------------------------------------------------------------
(* The ends of frames in the ring *)

\* The end of the last frame that ended is in the ring, with what was drawn since
\* after it.
LastEndHere ==
  drawn < count /\ Entry(count - 1 - drawn) = [frame |-> frame - 1, end |-> TRUE]

\* Of the ends in the ring it is the newest.
EndsInOrder ==
  /\ \A i \in 0 .. count - 1 : Entry(i).end => i <= count - 1 - drawn /\ Entry(i).frame <= frame - 1
  /\ \A i \in 0 .. count - 1 : Entry(i).end => LastEndHere

\* An entry is an end or a part.
LEMMA EntryKinds ==
  ASSUME RingInv
  PROVE  \A i \in 0 .. count - 1 : /\ Entry(i) \in [frame : 1 .. MaxFrames + 1, end : BOOLEAN]
                                   /\ Entry(i) \in Ends <=> Entry(i).end
<1> SUFFICES ASSUME NEW i \in 0 .. count - 1
             PROVE  /\ Entry(i) \in [frame : 1 .. MaxFrames + 1, end : BOOLEAN]
                    /\ Entry(i) \in Ends <=> Entry(i).end
  OBVIOUS
<1>1. Entry(i) \in FrameEntries
  BY FramesAssumption DEF RingInv
<1> QED
  BY <1>1, FramesAssumption DEF FrameEntries, FrameEnds

\* The entries after a step, by their places.
New(i) == ring'[Index(next', count', i)]

LEMMA OrderAfter ==
  /\ LastEndHere' <=> drawn' < count' /\ New(count' - 1 - drawn') = [frame |-> frame' - 1, end |-> TRUE]
  /\ EndsInOrder' <=>
       /\ \A i \in 0 .. count' - 1 : New(i).end => i <= count' - 1 - drawn' /\ New(i).frame <= frame' - 1
       /\ \A i \in 0 .. count' - 1 : New(i).end => LastEndHere'
<1>1. Entry(count - 1 - drawn)' = New(count' - 1 - drawn')
  BY DEF Entry, Start, Index, New
<1>2. LastEndHere' <=> drawn' < count' /\ New(count' - 1 - drawn') = [frame |-> frame' - 1, end |-> TRUE]
  BY <1>1 DEF LastEndHere
<1>3. \A i : Entry(i)' = New(i)
  BY EntryWillBe DEF New
<1> QED
  BY <1>2, <1>3 DEF EndsInOrder

\* What an entry stored does, by places.
LEMMA StorePuts ==
  ASSUME RingInv, NEW e \in Entries, Store(e)
  PROVE  /\ count \in 0 .. Size /\ count' \in 1 .. Size
         /\ count' = IF count < Size THEN count + 1 ELSE count
         /\ New(count' - 1) = e
         /\ \A i \in 0 .. count' - 2 : New(i) = Entry(IF count < Size THEN i ELSE i + 1)
<1>1. /\ count' \in 1 .. Size
      /\ count' = IF count < Size THEN count + 1 ELSE count
      /\ Entry(count - 1)' = e
      /\ \A i \in 0 .. count' - 2 : Entry(i)' = Entry(IF count < Size THEN i ELSE i + 1)
  BY StoreEffect
<1>2. Entry(count - 1)' = New(count' - 1)
  BY DEF Entry, Start, Index, New
<1>3. \A i : Entry(i)' = New(i)
  BY EntryWillBe DEF New
<1>4. count \in 0 .. Size
  BY DEF RingInv, RingTypeOK
<1> QED
  BY <1>1, <1>2, <1>3, <1>4

\* A draw leaves the newest end its distance from the top, and does not reach it
\* round the ring.
LEMMA DrawKeepsOrder ==
  ASSUME TypeInv, EndsInOrder, MaxDraws < Size,
         NEW e \in Entries, Store(e), ~e.end,
         drawn < MaxDraws, drawn' = drawn + 1, frame' = frame
  PROVE  EndsInOrder' /\ (LastEndHere => LastEndHere')
<1>1. RingInv /\ drawn \in 0 .. MaxDraws /\ frame \in 1 .. MaxFrames + 1
  BY DEF TypeInv, TypeOK
<1>2. /\ count \in 0 .. Size /\ count' \in 1 .. Size
      /\ count' = IF count < Size THEN count + 1 ELSE count
      /\ New(count' - 1) = e
      /\ \A i \in 0 .. count' - 2 : New(i) = Entry(IF count < Size THEN i ELSE i + 1)
  BY <1>1, StorePuts
<1> USE SizeAssumption, BoundsAssumption
<1> DEFINE Old(i) == IF count < Size THEN i ELSE i + 1
<1>3. ASSUME LastEndHere PROVE LastEndHere'
  <2>1. drawn < count /\ Entry(count - 1 - drawn) = [frame |-> frame - 1, end |-> TRUE]
    BY <1>3 DEF LastEndHere
  <2>2. /\ count' - 1 - drawn' \in 0 .. count' - 2 /\ drawn' < count'
        /\ Old(count' - 1 - drawn') = count - 1 - drawn
    BY <1>1, <1>2, <2>1
  <2>3. New(count' - 1 - drawn') = Entry(count - 1 - drawn)
    BY <1>2, <2>2
  <2> QED
    BY <2>1, <2>2, <2>3, OrderAfter
<1>4. ASSUME NEW i \in 0 .. count' - 1, New(i).end
      PROVE  i <= count' - 1 - drawn' /\ New(i).frame <= frame' - 1 /\ LastEndHere'
  <2>1. i \in 0 .. count' - 2
    BY <1>2, <1>4
  <2>2. Old(i) \in 0 .. count - 1 /\ New(i) = Entry(Old(i))
    BY <1>2, <2>1
  <2>3. Old(i) <= count - 1 - drawn /\ Entry(Old(i)).frame <= frame - 1 /\ LastEndHere
    BY <1>4, <2>2 DEF EndsInOrder
  <2>4. i <= count' - 1 - drawn'
    BY <1>1, <1>2, <2>1, <2>3
  <2> QED
    BY <1>3, <2>2, <2>3, <2>4
<1> QED
  BY <1>3, <1>4, OrderAfter

\* The end of a frame is the newest, and the last.
LEMMA SwapKeepsOrder ==
  ASSUME TypeInv, EndsInOrder,
         Store([frame |-> frame, end |-> TRUE]), [frame |-> frame, end |-> TRUE] \in Entries,
         drawn' = 0, frame' = frame + 1
  PROVE  EndsInOrder' /\ LastEndHere'
<1>1. RingInv /\ drawn \in 0 .. MaxDraws /\ frame \in 1 .. MaxFrames + 1
  BY DEF TypeInv, TypeOK
<1>2. /\ count \in 0 .. Size /\ count' \in 1 .. Size
      /\ count' = IF count < Size THEN count + 1 ELSE count
      /\ New(count' - 1) = [frame |-> frame, end |-> TRUE]
      /\ \A i \in 0 .. count' - 2 : New(i) = Entry(IF count < Size THEN i ELSE i + 1)
  BY <1>1, StorePuts
<1> USE SizeAssumption, BoundsAssumption
<1>3. LastEndHere'
  <2>1. drawn' < count' /\ count' - 1 - drawn' = count' - 1 /\ frame' - 1 = frame
    BY <1>1, <1>2
  <2> QED
    BY <1>2, <2>1, OrderAfter
<1>4. ASSUME NEW i \in 0 .. count' - 1, New(i).end
      PROVE  i <= count' - 1 - drawn' /\ New(i).frame <= frame' - 1
  <2>1. CASE i = count' - 1
    BY <1>1, <1>2, <2>1
  <2>2. CASE i # count' - 1
    <3>1. i \in 0 .. count' - 2
      BY <1>2, <2>2
    <3>2. (IF count < Size THEN i ELSE i + 1) \in 0 .. count - 1
      BY <1>2, <3>1
    <3>3. New(i) = Entry(IF count < Size THEN i ELSE i + 1)
      BY <1>2, <3>1
    <3>4. New(i).frame <= frame - 1
      BY <1>4, <3>2, <3>3 DEF EndsInOrder
    <3>5. New(i).frame \in 1 .. MaxFrames + 1
      BY <1>1, <3>2, <3>3, EntryKinds
    <3> QED
      BY <1>1, <1>2, <3>1, <3>4, <3>5
  <2> QED
    BY <2>1, <2>2
<1> QED
  BY <1>3, <1>4, OrderAfter

\* A present takes every end there is, the newest with the others, and leaves only
\* parts; what it takes does not end with a part unless there was no end.
LEMMA TakeKeepsOrder ==
  ASSUME TypeInv, EndsInOrder, Take, drawn' = drawn, frame' = frame
  PROVE  /\ EndsInOrder'
         /\ LastEndHere => frame - 1 \in EndedIn(taken')
         /\ EndedIn(taken') # {} => LastEndHere
         /\ \A g \in EndedIn(taken') : g <= frame - 1
         /\ FrameEnded /\ taken' # <<>> => taken'[Len(taken')].end
<1>1. /\ RingInv /\ drawn \in 0 .. MaxDraws /\ frame \in 1 .. MaxFrames + 1
      /\ count \in 0 .. Size
  BY DEF TypeInv, TypeOK, RingInv, RingTypeOK
<1> USE SizeAssumption, BoundsAssumption
<1>2. CASE count = 0
  <2>1. taken' = <<>> /\ ring' = ring /\ next' = next /\ count' = 0
    BY <1>2 DEF Take
  <2>2. EndedIn(taken') = {}
    BY <2>1 DEF EndedIn
  <2>3. EndsInOrder'
    BY <2>1, OrderAfter
  <2>4. ~LastEndHere
    BY <1>1, <1>2 DEF LastEndHere
  <2> QED
    BY <2>1, <2>2, <2>3, <2>4
<1>3. CASE count # 0
  <2>1. PICK n \in 0 .. count :
          /\ n \in {0, count} \/ Entry(n - 1) \in Ends
          /\ \A i \in n .. count - 1 : Entry(i) \notin Ends
          /\ taken' = [i \in 1 .. n |-> Entry(i - 1)]
          /\ count' = count - n
          /\ \A i \in 0 .. count - n - 1 : Entry(i)' = Entry(n + i)
    BY <1>1, <1>3, TakeEffect
  <2>2. \A i \in n .. count - 1 : ~Entry(i).end
    BY <1>1, <2>1, EntryKinds
  <2>3. EndsInOrder'
    <3>1. ASSUME NEW i \in 0 .. count' - 1 PROVE ~New(i).end
      <4>1. New(i) = Entry(n + i)
        BY <2>1, EntryWillBe DEF New
      <4>2. n + i \in n .. count - 1
        BY <1>1, <2>1
      <4> QED
        BY <2>2, <4>1, <4>2
    <3> QED
      BY <3>1, OrderAfter
  <2>4. taken' \in Seq(Entries) /\ Len(taken') = n /\ \A i \in 1 .. n : taken'[i] = Entry(i - 1)
    <3>1. \A i \in 1 .. n : Entry(i - 1) \in Entries
      BY <1>1 DEF RingInv
    <3> QED
      BY <2>1, <3>1
  <2>5. ASSUME LastEndHere PROVE frame - 1 \in EndedIn(taken')
    <3> DEFINE at == count - 1 - drawn
    <3>1. at \in 0 .. count - 1 /\ Entry(at).end /\ Entry(at).frame = frame - 1
      BY <1>1, <2>5 DEF LastEndHere
    <3>2. at + 1 \in 1 .. n
      BY <1>1, <2>2, <3>1
    <3>3. taken'[at + 1] = Entry(at)
      BY <2>4, <3>1, <3>2
    <3>4. at + 1 \in DOMAIN taken'
      BY <2>4, <3>2
    <3> QED
      BY <3>1, <3>3, <3>4 DEF EndedIn
  <2>6. ASSUME NEW g \in EndedIn(taken')
        PROVE  g <= frame - 1 /\ LastEndHere
    <3>1. PICK j \in 1 .. n : taken'[j].end /\ g = taken'[j].frame
      BY <2>4, <2>6 DEF EndedIn
    <3>2. j - 1 \in 0 .. count - 1 /\ taken'[j] = Entry(j - 1)
      BY <1>1, <2>4, <3>1
    <3> QED
      BY <3>1, <3>2 DEF EndsInOrder
  <2>7. ASSUME FrameEnded, taken' # <<>> PROVE taken'[Len(taken')].end
    <3>1. n # 0 /\ Len(taken') = n
      BY <2>4, <2>7
    <3>2. PICK i \in 0 .. count - 1 : Entry(i) \in Ends
      BY <2>7 DEF FrameEnded
    <3>3. CASE n = count
      <4>1. TakeUpTo(n)
        <5>1. PICK m \in 0 .. count : TakeUpTo(m) /\ count' = count - m
          BY <1>3 DEF Take
        <5>2. m = n
          BY <1>1, <2>1, <5>1
        <5> QED
          BY <5>1, <5>2
      <4>2. Entry(n - 1) \in Ends
        BY <2>7, <4>1 DEF TakeUpTo
      <4>3. n - 1 \in 0 .. count - 1
        BY <1>1, <3>1
      <4> QED
        BY <1>1, <2>4, <3>1, <4>2, <4>3, EntryKinds
    <3>4. CASE n # count
      <4>1. Entry(n - 1) \in Ends /\ n - 1 \in 0 .. count - 1
        BY <1>1, <2>1, <3>1, <3>4
      <4> QED
        BY <1>1, <2>4, <3>1, <4>1, EntryKinds
    <3> QED
      BY <3>3, <3>4
  <2> QED
    BY <2>3, <2>5, <2>6, <2>7
<1> QED
  BY <1>2, <1>3

\* Every step keeps the ends in order, if a frame fits the ring.
LEMMA NextOrder ==
  ASSUME TypeInv, EndsInOrder, MaxDraws < Size, [Next]_vars
  PROVE  EndsInOrder'
<1>1. CASE Draw
  <2> DEFINE e == [frame |-> frame, end |-> FALSE]
  <2>1. e \in Entries /\ ~e.end
    BY FramesAssumption DEF FrameEntries, TypeInv, TypeOK
  <2>2. Store(e) /\ drawn < MaxDraws /\ drawn' = drawn + 1 /\ frame' = frame
    BY <1>1 DEF Draw, Push, PushVideo
  <2> HIDE DEF e
  <2> QED
    BY <2>1, <2>2, DrawKeepsOrder
<1>2. CASE Swap
  <2>1. [frame |-> frame, end |-> TRUE] \in Entries
    BY FramesAssumption DEF FrameEntries, TypeInv, TypeOK
  <2>2. Store([frame |-> frame, end |-> TRUE]) /\ drawn' = 0 /\ frame' = frame + 1
    BY <1>2 DEF Swap, Push
  <2> QED
    BY <2>1, <2>2, SwapKeepsOrder
<1>3. CASE Take /\ drawn' = drawn /\ frame' = frame
  BY <1>3, TakeKeepsOrder
<1>4. CASE UNCHANGED <<ringVars, drawn, frame>>
  BY <1>4 DEF ringVars, EndsInOrder, LastEndHere, Entry, Start
<1>5. CASE TakeRing
  BY <1>3, <1>4, <1>5 DEF TakeRing
<1>6. CASE SwapUnmarked \/ TitleStep \/ GiveUp \/ WakeForNothing \/ Stop \/ NotifyStop \/ Join
  BY <1>4, <1>6 DEF SwapUnmarked, TitleStep, GiveUp, WakeForNothing, Stop, NotifyStop, Join,
       PresentNothing, StartPresentWorker, WaitForFlight, HandOver, NotifyRequest
<1>7. CASE Test \/ Doze \/ Show \/ Lose \/ Land \/ Tell
  BY <1>4, <1>7 DEF Test, Doze, Show, Lose, Land, Tell
<1>8. CASE UNCHANGED vars
  BY <1>4, <1>8 DEF vars
<1> QED
  BY <1>1, <1>2, <1>5, <1>6, <1>7, <1>8 DEF Next, WorkerStep

-----------------------------------------------------------------------------
(* What is on its way to the screen *)

\* Frame f, or a later one, is presented, or is about to be by a present under way.
OnItsWay(f) ==
  \/ Presented >= f
  \/ worker = "show" /\ \E g \in EndedIn(taken) : g >= f
  \/ (pending \/ worker = "take") /\ LastEndHere

\* The last frame that ended is there to be presented; the one before it is on its
\* way until the title may hand the last over, and presented from then on; and
\* once the last is handed over it is on its way itself. Neither what is shown nor
\* what is lost goes back.
AheadInv ==
  /\ Presented <= frame - 1
  /\ \A g \in EndedIn(taken) : g <= frame - 1
  /\ worker = "show" /\ EndedIn(taken) # {} => \E g \in EndedIn(taken) : g >= Presented
  /\ ~missed =>
       /\ OnItsWay(frame - 2)
       /\ OnItsWay(frame - 1) \/ LastEndHere
       /\ title.pc \in {"notify", "draw"} => OnItsWay(frame - 1)
       /\ title.pc \in {"hand", "notify", "draw"} => Presented >= frame - 2

\* What the steps of AheadInv need of the types.
LEMMA Numbers ==
  ASSUME TypeInv
  PROVE  /\ frame \in 1 .. MaxFrames + 1
         /\ shown \in 0 .. MaxFrames + 1 /\ lost \in 0 .. MaxFrames + 1
         /\ Presented \in 0 .. MaxFrames + 1
         /\ \A g \in EndedIn(taken) : g \in 0 .. MaxFrames + 1
<1>1. EndedIn(taken) \subseteq 0 .. MaxFrames + 1
  BY EndedFrames DEF TypeInv, RingInv, RingTypeOK
<1> QED
  BY <1>1 DEF TypeInv, TypeOK, Presented

\* What is on its way stays on it as long as these stay.
LEMMA WayStays ==
  ASSUME Presented' = Presented, taken' = taken, LastEndHere => LastEndHere',
         worker = "show" <=> worker' = "show",
         pending \/ worker = "take" => pending' \/ worker' = "take"
  PROVE  /\ EndedIn(taken)' = EndedIn(taken)
         /\ \A f : OnItsWay(f) => OnItsWay(f)'
<1>1. EndedIn(taken)' = EndedIn(taken)
  BY DEF EndedIn
<1> QED
  BY <1>1 DEF OnItsWay

LEMMA AheadStays ==
  ASSUME AheadInv, frame' = frame, taken' = taken, Presented' = Presented,
         LastEndHere => LastEndHere',
         worker = "show" <=> worker' = "show",
         pending \/ worker = "take" => pending' \/ worker' = "take",
         ~missed' => \/ title'.pc \in {"present", "flight", "asleep", "gone"}
                     \/ title.pc \in {"notify", "draw"}
                     \/ title.pc = "hand" /\ title'.pc = "notify" /\ pending'
                     \/ title'.pc = "hand" /\ Presented >= frame - 2
                     \/ title' = title,
         ~missed' => ~missed
  PROVE  AheadInv'
<1>1. /\ EndedIn(taken)' = EndedIn(taken)
      /\ \A f : OnItsWay(f) => OnItsWay(f)'
  BY WayStays
<1>2. frame' = frame /\ Presented' = Presented
  OBVIOUS
<1>3. /\ (Presented <= frame - 1)'
      /\ (\A g \in EndedIn(taken) : g <= frame - 1)'
      /\ (worker = "show" /\ EndedIn(taken) # {} => \E g \in EndedIn(taken) : g >= Presented)'
  BY <1>1, <1>2 DEF AheadInv
<1>4. ASSUME ~missed'
      PROVE  /\ OnItsWay(frame - 2)'
             /\ (OnItsWay(frame - 1) \/ LastEndHere)'
             /\ (title.pc \in {"notify", "draw"} => OnItsWay(frame - 1))'
             /\ (title.pc \in {"hand", "notify", "draw"} => Presented >= frame - 2)'
  <2>1. /\ OnItsWay(frame - 2)
        /\ OnItsWay(frame - 1) \/ LastEndHere
        /\ title.pc \in {"notify", "draw"} => OnItsWay(frame - 1)
        /\ title.pc \in {"hand", "notify", "draw"} => Presented >= frame - 2
    BY <1>4 DEF AheadInv
  <2> DEFINE Way(f) == \/ Presented' >= f
                       \/ worker' = "show" /\ \E g \in EndedIn(taken)' : g >= f
                       \/ (pending' \/ worker' = "take") /\ LastEndHere'
  <2>2. \A f : OnItsWay(f)' <=> Way(f)
    BY DEF OnItsWay
  <2>3. OnItsWay(frame - 2)' <=> Way(frame' - 2)
    BY DEF OnItsWay
  <2>4. OnItsWay(frame - 1)' <=> Way(frame' - 1)
    BY DEF OnItsWay
  <2>5. OnItsWay(frame - 2)' /\ (OnItsWay(frame - 1) => OnItsWay(frame - 1)')
    <3> HIDE DEF Way
    <3> QED
      BY <1>1, <1>2, <2>1, <2>2, <2>3, <2>4
  <2>6. pending' /\ LastEndHere' => OnItsWay(frame - 1)'
    BY <2>4
  <2> QED
    BY <1>1, <1>2, <1>4, <2>1, <2>5, <2>6
<1> QED
  BY <1>3, <1>4 DEF AheadInv

\* A present takes the frames that are on their way.
LEMMA TakeAhead ==
  ASSUME TypeInv, EndsInOrder, AheadInv, TakeRing
  PROVE  AheadInv'
<1>1. /\ worker = "take" /\ frame' = frame /\ drawn' = drawn /\ Presented' = Presented
      /\ title' = title /\ pending' = pending
      /\ Take /\ worker' = "show" /\ missed' = missed
  BY DEF TakeRing, history, Presented
<1>2. EndedIn(taken)' = EndedIn(taken')
  BY DEF EndedIn
<1>3. /\ LastEndHere => frame - 1 \in EndedIn(taken')
      /\ EndedIn(taken') # {} => LastEndHere
      /\ \A g \in EndedIn(taken') : g <= frame - 1
  BY <1>1, TakeKeepsOrder
<1>4. frame \in Nat /\ Presented \in Nat
  BY Numbers, BoundsAssumption
<1>5. Presented <= frame - 1
  BY DEF AheadInv
<1>6. ASSUME ~missed
      PROVE  /\ Presented >= frame - 2 \/ LastEndHere
             /\ Presented >= frame - 1 \/ LastEndHere
             /\ title.pc \in {"hand", "notify", "draw"} => Presented >= frame - 2
  BY <1>1, <1>6 DEF AheadInv, OnItsWay
<1>7. ASSUME NEW f \in {frame - 2, frame - 1}, ~missed
      PROVE  Presented >= f \/ \E g \in EndedIn(taken') : g >= f
  <2>1. CASE Presented >= f
    BY <2>1
  <2>2. CASE ~(Presented >= f)
    <3>1. frame - 1 \in EndedIn(taken') /\ frame - 1 >= f
      BY <1>3, <1>4, <1>6, <1>7, <2>2
    <3> QED
      BY <3>1
  <2> QED
    BY <2>1, <2>2
<1>8. (worker = "show" /\ EndedIn(taken) # {} => \E g \in EndedIn(taken) : g >= Presented)'
  BY <1>1, <1>2, <1>3, <1>5
<1>9. ~missed => OnItsWay(frame - 2)' /\ OnItsWay(frame - 1)'
  BY <1>1, <1>2, <1>7 DEF OnItsWay
<1> QED
  BY <1>1, <1>2, <1>3, <1>5, <1>6, <1>8, <1>9 DEF AheadInv

\* What was taken is presented, whether it is shown or lost.
LEMMA ShowAhead ==
  ASSUME TypeInv, AheadInv, Show \/ Lose
  PROVE  AheadInv'
<1>1. /\ worker = "show" /\ worker' = "land" /\ title' = title /\ missed' = missed
      /\ pending' = pending /\ frame' = frame /\ EndedIn(taken)' = EndedIn(taken)
      /\ LastEndHere' <=> LastEndHere
  BY DEF Show, Lose, ringVars, EndedIn, LastEndHere, Entry, Start
<1>2. /\ frame \in Nat /\ shown \in Nat /\ lost \in Nat /\ Presented \in Nat
      /\ \A g \in EndedIn(taken) : g \in Nat
  BY Numbers, BoundsAssumption
<1>3. /\ Presented' \in Nat /\ Presented' >= Presented /\ Presented' <= frame - 1
      /\ \A g \in EndedIn(taken) : Presented' >= g
  <2>1. CASE EndedIn(taken) = {}
    <3>1. shown' = shown /\ lost' = lost
      BY <2>1 DEF Show, Lose, LastEnded
    <3> QED
      BY <1>2, <2>1, <3>1 DEF AheadInv, Presented
  <2>2. CASE EndedIn(taken) # {}
    <3>1. PICK f \in EndedIn(taken) :
            /\ \A g \in EndedIn(taken) : g <= f
            /\ (shown' = f /\ lost' = lost) \/ (shown' = shown /\ lost' = f)
      BY <2>2 DEF Show, Lose, LastEnded
    <3>2. PICK g \in EndedIn(taken) : g >= Presented
      BY <1>1, <2>2 DEF AheadInv
    <3>3. f \in Nat /\ f >= shown /\ f >= lost /\ f <= frame - 1
      BY <1>2, <3>1, <3>2 DEF AheadInv, Presented
    <3>4. Presented' = f
      BY <1>2, <3>1, <3>3 DEF Presented
    <3> QED
      BY <1>2, <3>1, <3>3, <3>4 DEF Presented
  <2> QED
    BY <2>1, <2>2
<1>4. ASSUME NEW f \in {frame - 2, frame - 1}
      PROVE  OnItsWay(f) => Presented' >= f \/ ((pending \/ worker = "take") /\ LastEndHere)
  <2>1. CASE \E g \in EndedIn(taken) : g >= f
    BY <1>2, <1>3, <2>1
  <2>2. CASE Presented >= f
    BY <1>2, <1>3, <2>2
  <2> QED
    BY <2>1, <2>2 DEF OnItsWay
<1>5. (OnItsWay(frame - 2) => OnItsWay(frame - 2)') /\ (OnItsWay(frame - 1) => OnItsWay(frame - 1)')
  BY <1>1, <1>4 DEF OnItsWay
<1>6. (Presented >= frame - 2 => Presented' >= frame' - 2)
  BY <1>1, <1>2, <1>3
<1> QED
  BY <1>1, <1>3, <1>5, <1>6 DEF AheadInv

\* A frame that ends puts its end behind those on their way.
LEMMA SwapAhead ==
  ASSUME TypeInv, EndsInOrder, AheadInv, Swap
  PROVE  AheadInv'
<1>1. /\ title.pc = "draw" /\ title'.pc = "present" /\ frame' = frame + 1 /\ Presented' = Presented
      /\ missed' = missed /\ worker' = worker /\ pending' = pending /\ taken' = taken
  BY DEF Swap, Push, Title, Presented
<1>2. LastEndHere'
  <2>1. [frame |-> frame, end |-> TRUE] \in Entries
    BY FramesAssumption DEF FrameEntries, TypeInv, TypeOK, Swap
  <2> QED
    BY <2>1, SwapKeepsOrder DEF Swap, Push
<1>3. EndedIn(taken)' = EndedIn(taken)
  BY <1>1 DEF EndedIn
<1>4. /\ frame \in Nat /\ Presented \in Nat /\ \A g \in EndedIn(taken) : g \in Nat
  BY Numbers, BoundsAssumption
<1>5. Presented' <= frame' - 1 /\ \A g \in EndedIn(taken) : g <= frame' - 1
  BY <1>1, <1>4 DEF AheadInv
<1>6. frame' - 2 = frame - 1
  BY <1>1, <1>4
<1>7. ~missed => OnItsWay(frame - 2)'
  BY <1>1, <1>2, <1>3, <1>6 DEF AheadInv, OnItsWay
<1> QED
  BY <1>1, <1>2, <1>3, <1>5, <1>7 DEF AheadInv

LEMMA NextAhead ==
  ASSUME TypeInv, FlightInv, EndsInOrder, AheadInv, MaxDraws < Size, [Next]_vars
  PROVE  AheadInv'
<1>1. CASE Draw
  <2> DEFINE e == [frame |-> frame, end |-> FALSE]
  <2>1. e \in Entries /\ ~e.end
    BY FramesAssumption DEF FrameEntries, TypeInv, TypeOK
  <2>2. Store(e) /\ drawn < MaxDraws /\ drawn' = drawn + 1 /\ frame' = frame /\ taken' = taken
    BY <1>1 DEF Draw, Push, PushVideo
  <2>3. /\ title' = title /\ worker' = worker /\ pending' = pending
        /\ Presented' = Presented /\ missed' = missed
    BY <1>1 DEF Draw, history, Presented
  <2> HIDE DEF e
  <2>4. LastEndHere => LastEndHere'
    BY <2>1, <2>2, DrawKeepsOrder
  <2> QED
    BY <2>2, <2>3, <2>4, AheadStays
<1>2. CASE Swap
  BY <1>2, SwapAhead
<1>3. CASE TakeRing
  BY <1>3, TakeAhead
<1>4. CASE Show \/ Lose
  BY <1>4, ShowAhead
<1>5. ASSUME UNCHANGED <<ringVars, drawn, frame, shown, lost>>
      PROVE  frame' = frame /\ taken' = taken /\ (LastEndHere => LastEndHere') /\ Presented' = Presented
  BY <1>5 DEF ringVars, LastEndHere, Entry, Start, Presented
<1>6. CASE SwapUnmarked \/ StartPresentWorker
  <2>1. /\ UNCHANGED <<ringVars, drawn, frame, shown, lost, missed, pending>>
        /\ title'.pc \in {"present", "flight"}
        /\ worker' = worker \/ (worker' = "test" /\ ~running)
    BY <1>6 DEF SwapUnmarked, StartPresentWorker, history, Title
  <2>2. (worker = "show" <=> worker' = "show") /\ (worker = "take" => worker' = "take")
    BY <1>6, <2>1 DEF FlightInv, SwapUnmarked, StartPresentWorker
  <2> QED
    BY <1>5, <2>1, <2>2, AheadStays
<1>7. CASE PresentNothing \/ GiveUp
  <2>1. UNCHANGED <<ringVars, drawn, frame, shown, lost, pending, worker>> /\ missed'
    BY <1>7 DEF PresentNothing, GiveUp
  <2> QED
    BY <1>5, <2>1, AheadStays
<1>8. CASE WaitForFlight
  <2>1. UNCHANGED <<ringVars, drawn, frame, shown, lost, missed, pending, worker>>
    BY <1>8 DEF WaitForFlight, history
  <2>2. CASE inFlight
    <3>1. title'.pc = "asleep"
      BY <1>8, <2>2 DEF WaitForFlight, Title
    <3> QED
      BY <1>5, <2>1, <3>1, AheadStays
  <2>3. CASE ~inFlight
    <3>1. title'.pc = "hand"
      BY <1>8, <2>3 DEF WaitForFlight, Title
    <3>2. ~pending /\ worker # "show" /\ worker # "take"
      BY <2>3 DEF FlightInv, Presenting
    <3>3. ~missed => Presented >= frame - 2
      BY <3>2 DEF AheadInv, OnItsWay
    <3> QED
      BY <1>5, <2>1, <3>1, <3>3, AheadStays
  <2> QED
    BY <2>2, <2>3
<1>9. CASE HandOver
  <2>1. /\ UNCHANGED <<ringVars, drawn, frame, shown, lost, missed, worker>>
        /\ pending' /\ title.pc = "hand" /\ title'.pc = "notify"
    BY <1>9 DEF HandOver, Title
  <2> QED
    BY <1>5, <2>1, AheadStays
<1>10. CASE NotifyRequest
  <2>1. /\ UNCHANGED <<ringVars, drawn, frame, shown, lost, missed, pending>>
        /\ title.pc = "notify"
        /\ worker' = IF worker = "asleep" THEN "test" ELSE worker
    BY <1>10 DEF NotifyRequest, Woken, history
  <2> QED
    BY <1>5, <2>1, AheadStays
<1>11. CASE Test
  <2>1. /\ UNCHANGED <<ringVars, drawn, frame, shown, lost, missed, title>>
        /\ worker = "test" /\ worker' # "show"
        /\ pending => pending' \/ worker' = "take"
    BY <1>11 DEF Test, history
  <2> QED
    BY <1>5, <2>1, AheadStays
<1>12. CASE Doze \/ Land
  <2>1. /\ UNCHANGED <<ringVars, drawn, frame, shown, lost, missed, title, pending>>
        /\ worker \notin {"show", "take"} /\ worker' \notin {"show", "take"}
    BY <1>12 DEF Doze, Land, history
  <2> QED
    BY <1>5, <2>1, AheadStays
<1>13. CASE Tell \/ WakeForNothing
  <2>1. /\ UNCHANGED <<ringVars, drawn, frame, shown, lost, missed, pending>>
        /\ worker' = worker \/ (worker \in {"tell", "asleep"} /\ worker' = "test")
        /\ title' = title \/ title'.pc = "flight"
    BY <1>13 DEF Tell, WakeForNothing, history, Title
  <2> QED
    BY <1>5, <2>1, AheadStays
<1>14. CASE Join
  BY <1>5, <1>14, AheadStays DEF Join, history
<1>15. CASE Stop
  <2>1. UNCHANGED <<ringVars, drawn, frame, shown, lost, missed, pending, worker>> /\ title'.pc = "gone"
    BY <1>15 DEF Stop, history, Title
  <2> QED
    BY <1>5, <2>1, AheadStays
<1>16. CASE NotifyStop
  <2>1. /\ UNCHANGED <<ringVars, drawn, frame, shown, lost, missed, pending, title>>
        /\ worker' = IF worker = "asleep" THEN "test" ELSE worker
    BY <1>16 DEF NotifyStop, Woken
  <2> QED
    BY <1>5, <2>1, AheadStays
<1>17. CASE UNCHANGED vars
  BY <1>5, <1>17, AheadStays DEF vars, history
<1> QED
  BY <1>1, <1>2, <1>3, <1>4, <1>6, <1>7, <1>8, <1>9, <1>10, <1>11, <1>12, <1>13, <1>14, <1>15,
     <1>16, <1>17 DEF Next, TitleStep, WorkerStep

LEMMA OrderAlways ==
  ASSUME MaxDraws < Size
  PROVE  Spec => []EndsInOrder
<1>1. Init => EndsInOrder
  BY DEF Init, RingInit, EndsInOrder
<1>2. TypeInv /\ EndsInOrder /\ [Next]_vars => EndsInOrder'
  BY NextOrder
<1> QED
  BY <1>1, <1>2, TypesAlways, PTL DEF Spec

\* A title whose frames fit the ring is never more than a frame ahead of what is
\* on screen, as the comment before PresentGuestFrame has it, unless a frame was
\* not handed over or lost with the window: a frame lost on its way to the screen
\* is no excuse for those after it.
THEOREM NeverFurtherAhead ==
  ASSUME MaxDraws < Size
  PROVE  Spec => []AheadByOne
<1>1. Init => AheadInv
  <2> SUFFICES ASSUME Init PROVE AheadInv
    OBVIOUS
  <2>1. frame = 1 /\ shown = 0 /\ lost = 0 /\ taken = <<>> /\ worker = "none" /\ title.pc = "draw"
    BY DEF Init, RingInit, Title
  <2>2. EndedIn(taken) = {}
    BY <2>1 DEF EndedIn
  <2> QED
    BY <2>1, <2>2 DEF AheadInv, OnItsWay, Presented
<1>2. TypeInv /\ FlightInv /\ EndsInOrder /\ AheadInv /\ [Next]_vars => AheadInv'
  BY NextAhead
<1>3. TypeInv /\ AheadInv => AheadByOne
  BY Numbers, BoundsAssumption DEF AheadInv, AheadByOne
<1> QED
  BY <1>1, <1>2, <1>3, TypesAlways, FlightAlways, OrderAlways, PTL DEF Spec

-----------------------------------------------------------------------------
(* Parts of frames *)

\* Without the end of a frame in the ring, each present held back was called for
\* by a frame handed over since the last Swap, and so is the one to come.
OverdueInv ==
  FrameEnded \/ held + (IF pending \/ worker = "take" THEN 1 ELSE 0) <= calls

LEMMA EndedIsHere ==
  ASSUME TypeInv, EndsInOrder
  PROVE  FrameEnded <=> LastEndHere
<1>1. RingInv /\ drawn \in 0 .. MaxDraws /\ count \in 0 .. Size
  BY DEF TypeInv, TypeOK, RingInv, RingTypeOK
<1> USE SizeAssumption, BoundsAssumption
<1>2. ASSUME FrameEnded PROVE LastEndHere
  BY <1>1, <1>2, EntryKinds DEF FrameEnded, EndsInOrder
<1>3. ASSUME LastEndHere PROVE FrameEnded
  <2>1. count - 1 - drawn \in 0 .. count - 1 /\ Entry(count - 1 - drawn).end
    BY <1>1, <1>3 DEF LastEndHere
  <2> QED
    BY <1>1, <2>1, EntryKinds DEF FrameEnded
<1> QED
  BY <1>2, <1>3

\* OverdueInv when neither the ring nor the number of calls changes.
LEMMA OverdueStays ==
  ASSUME TypeInv, OverdueInv, UNCHANGED <<ringVars, calls>>,
         pending' \/ worker' = "take" => pending \/ worker = "take"
  PROVE  OverdueInv'
<1>1. FrameEnded' <=> FrameEnded
  BY DEF FrameEnded, ringVars, Entry, Start
<1>2. held' = held /\ calls' = calls /\ held \in 0 .. 2 /\ calls \in 0 .. 3
  BY DEF ringVars, TypeInv, TypeOK, RingInv, RingTypeOK
<1> QED
  BY <1>1, <1>2 DEF OverdueInv

LEMMA NextOverdue ==
  ASSUME TypeInv, FlightInv, EndsInOrder, OverdueInv, MaxDraws < Size, [Next]_vars
  PROVE  OverdueInv'
<1>1. held \in 0 .. 2 /\ calls \in 0 .. 3
  BY DEF TypeInv, TypeOK, RingInv, RingTypeOK
<1>2. TypeInv' /\ EndsInOrder'
  BY NextTypes, NextOrder
<1>3. (FrameEnded <=> LastEndHere) /\ (FrameEnded' <=> LastEndHere')
  <2>1. FrameEnded <=> LastEndHere
    BY EndedIsHere
  <2>2. (FrameEnded <=> LastEndHere)'
    BY <1>2, EndedIsHere, PTL
  <2> QED
    BY <2>1, <2>2
<1>4. CASE Draw
  <2> DEFINE e == [frame |-> frame, end |-> FALSE]
  <2>1. e \in Entries /\ ~e.end
    BY FramesAssumption DEF FrameEntries, TypeInv, TypeOK
  <2>2. /\ Store(e) /\ drawn < MaxDraws /\ drawn' = drawn + 1 /\ frame' = frame
        /\ held' = held /\ calls' = calls /\ pending' = pending /\ worker' = worker
    BY <1>4 DEF Draw, Push, PushVideo, history
  <2> HIDE DEF e
  <2>3. LastEndHere => LastEndHere'
    BY <2>1, <2>2, DrawKeepsOrder
  <2> QED
    BY <1>3, <2>2, <2>3 DEF OverdueInv
<1>5. CASE Swap
  <2>1. [frame |-> frame, end |-> TRUE] \in Entries
    BY FramesAssumption DEF FrameEntries, TypeInv, TypeOK
  <2>2. LastEndHere'
    BY <1>5, <2>1, SwapKeepsOrder DEF Swap, Push
  <2> QED
    BY <1>3, <2>2 DEF OverdueInv
<1>6. CASE TakeRing
  <2>1. /\ Take /\ worker = "take" /\ worker' = "show" /\ pending' = pending /\ calls' = calls
        /\ ~pending /\ frame' = frame /\ drawn' = drawn
    BY <1>6 DEF TakeRing, FlightInv, Presenting, history
  <2>2. held' = held \/ (held' = 0 /\ FrameEnded) \/ (held' = held + 1 /\ ~FrameEnded)
    BY <2>1 DEF Take
  <2>3. CASE FrameEnded
    <3>1. count # 0
      BY <1>3, <2>3 DEF LastEndHere, TypeInv, TypeOK
    <3>2. held' = 0
      BY <2>1, <2>3, <3>1 DEF Take
    <3> QED
      BY <1>1, <2>1, <3>2 DEF OverdueInv
  <2>4. CASE ~FrameEnded
    BY <1>1, <2>1, <2>2, <2>4 DEF OverdueInv
  <2> QED
    BY <2>3, <2>4
<1>7. CASE HandOver
  <2>1. /\ UNCHANGED ringVars /\ calls' = IF calls < 3 THEN calls + 1 ELSE calls
        /\ ~pending /\ worker # "take" /\ worker' = worker
    BY <1>7 DEF HandOver, FlightInv, Presenting
  <2>2. FrameEnded' <=> FrameEnded
    BY <2>1 DEF FrameEnded, ringVars, Entry, Start
  <2>3. held' = held
    BY <2>1 DEF ringVars
  <2> QED
    BY <1>1, <2>1, <2>2, <2>3 DEF OverdueInv
<1>8. CASE SwapUnmarked \/ PresentNothing \/ StartPresentWorker \/ WaitForFlight \/ NotifyRequest \/ GiveUp
  BY <1>8, OverdueStays DEF SwapUnmarked, PresentNothing, StartPresentWorker, WaitForFlight,
     NotifyRequest, GiveUp, Woken, history
<1>9. CASE Test
  <2>1. UNCHANGED <<ringVars, calls>> /\ (pending' \/ worker' = "take" => pending)
    BY <1>9 DEF Test, history
  <2> QED
    BY <2>1, OverdueStays
<1>10. CASE Doze \/ Show \/ Lose \/ Land \/ Tell \/ WakeForNothing \/ Stop \/ NotifyStop \/ Join
  BY <1>10, OverdueStays DEF Doze, Show, Lose, Land, Tell, WakeForNothing, Stop, NotifyStop, Join,
     Woken, history
<1>11. CASE UNCHANGED vars
  BY <1>11, OverdueStays DEF vars, history
<1> QED
  BY <1>4, <1>5, <1>6, <1>7, <1>8, <1>9, <1>10, <1>11 DEF Next, TitleStep, WorkerStep

\* A present that ends with a part of a frame: the ring had no end of one, and
\* holding back was at its limit, a movie played or the ring was filling up.
LEMMA PartTaken ==
  ASSUME TypeInv, EndsInOrder, OverdueInv, TakeRing, worker' = "show",
         taken' # <<>>, ~taken'[Len(taken')].end
  PROVE  videoSeen \/ count >= Size \div 2 \/ calls >= 3
<1>1. Take /\ worker = "take" /\ frame' = frame /\ drawn' = drawn
  BY DEF TakeRing
<1>2. ~FrameEnded
  BY <1>1, TakeKeepsOrder
<1>3. held \in 0 .. 2 /\ calls \in 0 .. 3 /\ count \in 0 .. Size /\ Size \div 2 \in Int
  BY SizeAssumption DEF TypeInv, TypeOK, RingInv, RingTypeOK
<1>4. ~HoldBack
  <2>1. CASE count = 0
    BY <1>1, <2>1 DEF Take
  <2>2. CASE count # 0
    <3>1. PICK n \in 0 .. count : TakeUpTo(n) /\ taken' = [i \in 1 .. n |-> Entry(i - 1)]
      BY <1>1, <2>2 DEF Take
    <3>2. HoldBack => n = 0
      BY <1>2, <3>1 DEF TakeUpTo
    <3> QED
      BY <3>1, <3>2
  <2> QED
    BY <2>1, <2>2
<1>5. CASE held >= 2
  BY <1>1, <1>2, <1>3, <1>5 DEF OverdueInv
<1>6. CASE held < 2
  BY <1>2, <1>3, <1>4, <1>6 DEF HoldBack
<1> QED
  BY <1>3, <1>5, <1>6

\* Of frames that fit the ring, none is shown in part before its end is there,
\* unless a movie plays, the ring fills up or a third frame is handed over without
\* a Swap: what the ring holds back (presents_without_frame_end_) is enough.
THEOREM PartsOnlyOverdue ==
  ASSUME MaxDraws < Size
  PROVE  Spec => PartsAreOverdue
<1>1. Init => OverdueInv
  BY DEF Init, RingInit, OverdueInv
<1>2. TypeInv /\ FlightInv /\ EndsInOrder /\ OverdueInv /\ [Next]_vars => OverdueInv'
  BY NextOverdue
<1> DEFINE Part == worker = "take" /\ worker' = "show" /\ taken' # <<>> /\ ~taken'[Len(taken')].end
                   => videoSeen \/ count >= Size \div 2 \/ calls >= 3
<1>3. ASSUME TypeInv, EndsInOrder, OverdueInv, [Next]_vars
      PROVE  Part
  <2> SUFFICES ASSUME worker = "take", worker' = "show",
                      taken' # <<>>, ~taken'[Len(taken')].end
               PROVE  videoSeen \/ count >= Size \div 2 \/ calls >= 3
    OBVIOUS
  <2>1. TakeRing
    BY <1>3 DEF Next, TitleStep, WorkerStep, Draw, Swap, SwapUnmarked, PresentNothing, StartPresentWorker,
       WaitForFlight, HandOver, NotifyRequest, GiveUp, WakeForNothing, Test, Doze, Show, Lose, Land, Tell,
       Stop, NotifyStop, Join, Woken, vars
  <2> QED
    BY <1>3, <2>1, PartTaken
<1>4. TypeInv /\ EndsInOrder /\ OverdueInv /\ [Next]_vars => [Part]_vars
  BY <1>3
<1> QED
  BY <1>1, <1>2, <1>4, TypesAlways, FlightAlways, OrderAlways, PTL DEF Spec, PartsAreOverdue

=============================================================================
