---------------------------- MODULE MCCommandRing ----------------------------
(* A small instance of CommandRing: three packets go round its ring. *)
EXTENDS CommandRing

Of(op, len, value, list) == [op |-> op, len |-> len, marked |-> FALSE, value |-> value, list |-> list]
Marked(p) == [p EXCEPT !.marked = TRUE]

Draw == Of("draw", 4, 0, <<>>)
Bin(live) == Of("bin", 3, live, <<>>)
Fence == Of("fence", 4, 0, <<>>)
Buffer(list) == Of("buffer", 3, 0, list)

\* Buffers in buffers, one more than are carried out.
Deep == Buffer(<<Buffer(<<Buffer(<<Buffer(<<Draw, Buffer(<<Draw>>)>>)>>)>>), Draw>>)

InRing == {
  Marked(Draw), Fence, Of("interrupt", 2, 2, <<>>), Deep,
  Buffer(<<Of("load", 4, 0, <<>>), Draw, Bin(0), Of("store", 2, 1, <<>>), Of("to_mem", 3, 0, <<>>)>>),
  Buffer(<<Of("shader", 3, 1, <<>>), Marked(Of("bad", 1, 0, <<>>)), Buffer(<<Of("cut", 2, 2, <<>>)>>), Fence>>)}

\* A set of packets with what is in their lists; all of them, at every depth.
Inside(packets) == packets \cup UNION {ToSet(p.list) : p \in packets}
AllPackets == Inside(Inside(Inside(Inside(Inside(Inside(InRing))))))
=============================================================================
