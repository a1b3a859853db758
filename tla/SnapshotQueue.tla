--------------------------- MODULE SnapshotQueue ---------------------------
(***************************************************************************)
(* What the ring of draw snapshots promises those who draw and the present *)
(* that takes it: a queue. What is drawn is taken in its order and once; a *)
(* full queue loses its oldest entry, and nothing else is ever lost; and a *)
(* present leaves nothing behind that the title has finished.              *)
(***************************************************************************)
EXTENDS Naturals, Sequences

CONSTANTS
  Size,     \* the most entries there can be
  Entries,  \* what the title pushes: draws, and the ends of its frames
  Ends      \* the ends of frames

VARIABLES
  queue,    \* what is to be presented, oldest first
  taken     \* what the last present took

Init == queue = <<>> /\ taken = <<>>

Push(e) ==
  /\ queue' = Append(IF Len(queue) < Size THEN queue ELSE Tail(queue), e)
  /\ UNCHANGED taken

\* The first n entries: all, none, or up to the end of a frame, and in each case
\* no end of a frame stays behind.
Take(n) ==
  /\ n \in {0, Len(queue)} \/ queue[n] \in Ends
  /\ \A i \in n + 1 .. Len(queue) : queue[i] \notin Ends
  /\ taken' = [i \in 1 .. n |-> queue[i]]
  /\ queue' = [i \in 1 .. Len(queue) - n |-> queue[n + i]]

Next ==
  \/ \E e \in Entries : Push(e)
  \/ \E n \in 0 .. Len(queue) : Take(n)

Spec == Init /\ [][Next]_<<queue, taken>>

=============================================================================
