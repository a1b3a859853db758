---------------------------- MODULE SnapshotRing ----------------------------
(***************************************************************************)
(* draw_ring_ of PlumeGraphicsSystem (src/rexglue/src/plume_renderer/      *)
(* plume_graphics_system.cpp): the draws, clears, copies and frame ends of *)
(* the title on their way to the present worker. Everything here happens   *)
(* under snapshot_mutex_, one operation at a time. The switch              *)
(* XERENGE_D3D_TARGETS is on, as the launcher has it, so that the title's  *)
(* Swap leaves a frame end and a video draw a slot.                        *)
(***************************************************************************)
EXTENDS Integers, Sequences

CONSTANTS
  Size,     \* kDrawRingSize
  Entries,  \* GuestDrawSnapshot: what the title pushes
  Ends,     \* those with is_frame_end
  NoEntry   \* an entry moved from

ASSUME SizeAssumption == Size \in Nat \ {0}
ASSUME EndsAssumption == Ends \subseteq Entries
ASSUME NoEntryAssumption == NoEntry \notin Entries

VARIABLES
  ring,       \* draw_ring_
  next,       \* draw_ring_next_
  count,      \* draw_ring_count_
  held,       \* presents_without_frame_end_
  videoSeen,  \* video_seen_
  taken       \* what the present at work took: overlays, with the frame ends

ringVars == <<ring, next, count, held, videoSeen, taken>>

RingInit ==
  /\ ring = [i \in 0 .. Size - 1 |-> NoEntry]
  /\ next = 0 /\ count = 0 /\ held = 0
  /\ videoSeen = FALSE
  /\ taken = <<>>

\* Where the oldest entry is, and the entry i places after it.
Start == (next + Size - count) % Size
Entry(i) == ring[(Start + i) % Size]

\* In the next place, over the oldest entry when the ring is full.
Store(e) ==
  /\ ring' = [ring EXCEPT ![next] = e]
  /\ next' = (next + 1) % Size
  /\ count' = IF count < Size THEN count + 1 ELSE count

Push(e) == Store(e) /\ UNCHANGED <<held, videoSeen, taken>>

\* A draw of the movie player's: its slot.
PushVideo(e) == Store(e) /\ videoSeen' = TRUE /\ UNCHANGED <<held, taken>>

FrameEnded == \E i \in 0 .. count - 1 : Entry(i) \in Ends

\* A frame still being drawn is left for the present that finds its end: twice
\* in a row at most, not with video, and not when the ring fills up.
HoldBack == ~FrameEnded /\ held < 2 /\ ~videoSeen /\ count < Size \div 2

\* Mutant of TakeUpTo: all there is, the next frame's beginning with it.
TakeUpTo_All(n) == n = IF HoldBack THEN 0 ELSE count

\* How many entries a present takes: up to the last frame end.
TakeUpTo(n) ==
  IF FrameEnded
  THEN /\ n > 0 /\ Entry(n - 1) \in Ends
       /\ \A i \in n .. count - 1 : Entry(i) \notin Ends
  ELSE n = IF HoldBack THEN 0 ELSE count

\* Mutant of Take: draw_ring_next_ stays where it was.
Take_NextStays ==
  /\ IF count = 0
     THEN taken' = <<>> /\ UNCHANGED <<ring, next, count, held>>
     ELSE \E n \in 0 .. count :
            /\ TakeUpTo(n)
            /\ taken' = [i \in 1 .. n |-> Entry(i - 1)]
            /\ ring' = [i \in 0 .. Size - 1 |-> IF i < count - n THEN Entry(n + i) ELSE NoEntry]
            /\ count' = count - n
            /\ held' = IF FrameEnded THEN 0 ELSE IF HoldBack THEN held + 1 ELSE held
            /\ UNCHANGED next
  /\ videoSeen' = FALSE

\* The present empties the ring; what is left moves to the front.
Take ==
  /\ IF count = 0
     THEN taken' = <<>> /\ UNCHANGED <<ring, next, count, held>>
     ELSE \E n \in 0 .. count :
            /\ TakeUpTo(n)
            /\ taken' = [i \in 1 .. n |-> Entry(i - 1)]
            /\ ring' = [i \in 0 .. Size - 1 |-> IF i < count - n THEN Entry(n + i) ELSE NoEntry]
            /\ next' = (count - n) % Size
            /\ count' = count - n
            /\ held' = IF FrameEnded THEN 0 ELSE IF HoldBack THEN held + 1 ELSE held
  /\ videoSeen' = FALSE

RingNext == (\E e \in Entries : Push(e) \/ PushVideo(e)) \/ Take

RingTypeOK ==
  /\ ring \in [0 .. Size - 1 -> Entries \cup {NoEntry}]
  /\ next \in 0 .. Size - 1
  /\ count \in 0 .. Size
  /\ held \in 0 .. 2
  /\ videoSeen \in BOOLEAN
  /\ taken \in Seq(Entries)

-----------------------------------------------------------------------------
(* The ring as a queue *)

Contents == [i \in 1 .. count |-> Entry(i - 1)]

Queue == INSTANCE SnapshotQueue WITH queue <- Contents

\* The ring's index arithmetic, its overwriting and its moving of what is left
\* make it a queue: nothing is presented twice, out of order or lost, but for
\* the oldest of a full ring.
ImplementsQueue == Queue!Spec

=============================================================================
