----------------------------- MODULE CommandRing -----------------------------
(***************************************************************************)
(* The command processor of PlumeGraphicsSystem (src/rexglue/src/          *)
(* plume_renderer/plume_graphics_system.cpp): the title puts packets into  *)
(* a ring in guest memory and rings the doorbell; its own thread then      *)
(* carries them out, under ring_mutex_. The vsync worker takes the same    *)
(* mutex every millisecond, calls the title's interrupt handler for what   *)
(* the packets asked for, and reports progress at every vblank.            *)
(*                                                                         *)
(* The register file is one register; guest memory is the ring, the word   *)
(* the title waits on (word), where the ring's read pointer is reported    *)
(* (slot), and a word that packets write and read (report). A packet is    *)
(* known by its operation, how many words it takes and one value. The      *)
(* title keeps to its side: it rings at the end of a packet and never      *)
(* fills the ring.                                                         *)
(***************************************************************************)
EXTENDS Integers, Sequences, SequencesExt, FiniteSetsExt

CONSTANTS
  RingSize,    \* the ring's words
  Packets,     \* the packets, those of indirect buffers too
  Ringed,      \* those that the title puts in the ring
  MaxPackets   \* bound: packets put

ASSUME RingSizeAssumption == RingSize \in Nat \ {0} /\ \E k \in 1 .. 24 : RingSize = 2 ^ k
ASSUME PacketsAssumption == \A p \in Packets :
  /\ p.value \in Int
  /\ p.op = "interrupt" => p.value \in 0 .. 5
  /\ p.list \in Seq(Packets)
ASSUME RingedAssumption == Ringed \subseteq Packets /\ \A p \in Ringed : p.len \in 1 .. RingSize - 1 /\ p.op # "cut"
ASSUME MaxPacketsAssumption == MaxPackets \in Nat

VARIABLES
  ring,       \* the words of the ring: a packet's first is the packet
  tail,       \* where the title puts the next
  batch,      \* the packets put since the doorbell rang
  puts,       \* history: the number of packets put
  title,      \* where the title's thread is
  vsync,      \* where the vsync worker is
  lock,       \* who holds ring_mutex_
  rptr, wptr, \* read_ptr_index_, write_ptr_index_
  stack,      \* ExecutePm4Buffer's calls: the ring's, and those for indirect buffers
  gpu,        \* registers, memory written, the bound shader, bin masks that match, and draws
  pending,    \* pending_cp_cpu_mask_
  serving,    \* the CPUs of DispatchCpInterrupts still to be called
  slot,       \* the read pointer as the title reads it
  word,       \* the fence word the title waits on
  submitted,  \* the title's own count: the last fence it put
  known,      \* d3d_device_guest_ is set
  kicked      \* history: the batches the doorbell rang for

title_vars == <<ring, tail, batch, puts, submitted>>
walk_vars == <<rptr, stack, gpu, pending, slot, word>>
vars == <<title_vars, walk_vars, title, vsync, lock, wptr, serving, known, kicked>>

MaxDepth == 4
Threads == {"title", "vsync"}

Gpus == [reg : Int, report : Int, shader : Int, bin : BOOLEAN, draws : Seq(Int \X Int)]
Blank == [reg |-> 0, report |-> 0, shader |-> 0, bin |-> TRUE, draws |-> <<>>]
Frames == [list : Seq(Packets), at : Nat, end : Nat]

\* A packet's words after the first.
Payload == [op |-> "payload", len |-> 1, marked |-> FALSE, value |-> 0, list |-> <<>>]

\* InitializeRingBuffer and EnableReadPointerWriteBack.
Init ==
  /\ ring = [i \in 0 .. RingSize - 1 |-> Payload]
  /\ tail = 0 /\ batch = <<>> /\ puts = 0 /\ submitted = 0
  /\ title = "idle" /\ vsync = "sleep" /\ lock = "none"
  /\ rptr = 0 /\ wptr = 0 /\ slot = 0
  /\ stack = <<>>
  /\ gpu = Blank
  /\ pending = {} /\ serving = {}
  /\ word = 0 /\ known = FALSE
  /\ kicked = <<>>

-----------------------------------------------------------------------------
(* The title *)

Fences[p \in Packets] == p.op = "fence" \/ \E i \in DOMAIN p.list : Fences[p.list[i]]

Room == (slot - tail - 1) % RingSize

Put(p) ==
  /\ title = "idle"
  /\ puts < MaxPackets /\ puts' = puts + 1
  /\ p.len <= Room
  /\ ring' = [w \in 0 .. RingSize - 1 |->
                 LET i == (w - tail) % RingSize
                 IN IF i = 0 THEN p ELSE IF i < p.len THEN Payload ELSE ring[w]]
  /\ tail' = (tail + p.len) % RingSize
  /\ batch' = Append(batch, p)
  /\ submitted' = IF Fences[p] THEN Len(kicked) + 1 ELSE submitted
  /\ UNCHANGED <<walk_vars, title, vsync, lock, wptr, serving, known, kicked>>

\* WriteRegister of CP_RB_WPTR, before it has the mutex.
Kick ==
  /\ title = "idle" /\ batch # <<>>
  /\ title' = "kick"
  /\ UNCHANGED <<title_vars, walk_vars, vsync, lock, wptr, serving, known, kicked>>

\* The title blocks until its last fence has come back.
Await ==
  /\ title = "idle" /\ batch = <<>>
  /\ title' = "await"
  /\ UNCHANGED <<title_vars, walk_vars, vsync, lock, wptr, serving, known, kicked>>

Resume ==
  /\ title = "await" /\ word = submitted
  /\ title' = "idle"
  /\ UNCHANGED <<title_vars, walk_vars, vsync, lock, wptr, serving, known, kicked>>

\* A Direct3D call of the title names its device.
LearnDevice ==
  /\ ~known /\ known' = TRUE
  /\ UNCHANGED <<title_vars, walk_vars, title, vsync, lock, wptr, serving, kicked>>

-----------------------------------------------------------------------------
(* ExecutePm4Buffer *)

\* ConsumeRingBuffer begins: the ring from the read to the write pointer.
Walks(from, to) == stack' = <<[list |-> <<>>, at |-> from, end |-> to]>>

StartTitle ==
  /\ title = "kick" /\ lock = "none"
  /\ lock' = "title" /\ title' = "walk"
  /\ wptr' = tail
  /\ kicked' = Append(kicked, batch) /\ batch' = <<>>
  /\ Walks(rptr, tail)
  /\ UNCHANGED <<ring, tail, puts, submitted, rptr, gpu, pending, slot, word, vsync, serving, known>>

\* PumpCommandProcessor.
StartVsync ==
  /\ vsync = "sleep" /\ lock = "none"
  /\ lock' = "vsync" /\ vsync' = "walk"
  /\ Walks(rptr, wptr)
  /\ UNCHANGED <<title_vars, rptr, gpu, pending, slot, word, title, wptr, serving, known, kicked>>

Frame == Last(stack)
OfRing == Len(stack) = 1
Packet == IF OfRing THEN ring[Frame.at] ELSE Frame.list[Frame.at]

\* Where the packet's words end: past the ring's last word comes its first.
After == IF OfRing THEN (Frame.at + Packet.len) % RingSize ELSE Frame.at + 1

\* Mutant of Predicated: a packet marked for a tile runs for every tile.
Predicated_Never(p) == FALSE

\* Marked for a tile that is not live.
Predicated(p) == p.marked /\ ~gpu.bin

\* Packets whose whole effect is on the registers, the memory they may read
\* back, the bound shader and the draws. A store cut short by the end of its
\* buffer has stored what there was of it.
Leaf(g, p) ==
  CASE p.op \in {"store", "cut"} -> [g EXCEPT !.reg = p.value]
    [] p.op = "to_mem" -> [g EXCEPT !.report = g.reg]
    [] p.op = "load" -> [g EXCEPT !.reg = g.report]
    [] p.op = "shader" -> [g EXCEPT !.shader = p.value]
    [] p.op = "bin" -> [g EXCEPT !.bin = p.value = 1]
    [] p.op = "draw" -> [g EXCEPT !.draws = Append(@, <<g.reg, g.shader>>)]
    [] OTHER -> g

\* A list of its own is carried out, if there is anything in it.
Enters(p) == p.op = "buffer" /\ p.list # <<>>

\* A packet's count is too short for it, its buffer ends before it does, or its
\* buffers are nested too deep.
Fails(p) == p.op \in {"bad", "cut"} \/ (Enters(p) /\ Len(stack) > MaxDepth)

\* One packet of the list at work, or its end. A failure ends the whole walk,
\* the lists around the one at work with it.
Walk ==
  /\ lock \in Threads /\ stack # <<>>
  /\ IF Frame.at = Frame.end
     THEN stack' = Front(stack) /\ UNCHANGED <<gpu, pending, word>>
     ELSE LET p == Packet
              passed == [stack EXCEPT ![Len(stack)].at = After]
          IN \/ /\ Predicated(p)
                /\ stack' = passed /\ UNCHANGED <<gpu, pending, word>>
             \/ /\ ~Predicated(p) /\ Fails(p)
                /\ stack' = <<>> /\ gpu' = Leaf(gpu, p) /\ UNCHANGED <<pending, word>>
             \/ /\ ~Predicated(p) /\ ~Fails(p) /\ Enters(p)
                /\ stack' = Append(passed, [list |-> p.list, at |-> 1, end |-> Len(p.list) + 1])
                /\ UNCHANGED <<gpu, pending, word>>
             \/ /\ ~Predicated(p) /\ ~Fails(p) /\ ~Enters(p)
                /\ stack' = passed
                /\ gpu' = Leaf(gpu, p)
                /\ pending' = IF p.op = "interrupt" THEN pending \cup {p.value} ELSE pending
                /\ word' = IF p.op = "fence" THEN Len(kicked) ELSE word
  /\ UNCHANGED <<title_vars, title, vsync, lock, rptr, wptr, slot, serving, known, kicked>>

\* PublishGuestGpuProgress: with the ring drained, the title's own count.
Published == IF known /\ rptr' = wptr THEN submitted ELSE word

\* The rest of ConsumeRingBuffer: the read pointer stands at the write pointer,
\* whether the walk got there or not, and is reported.
Drained ==
  /\ stack = <<>>
  /\ rptr' = wptr /\ slot' = wptr
  /\ word' = Published
  /\ lock' = "none"
  /\ UNCHANGED <<title_vars, wptr, stack, gpu, known, kicked>>

\* Mutant of EndTitle: the interrupts are taken off here, where nobody calls them.
EndTitle_TakesMask ==
  /\ lock = "title" /\ Drained
  /\ title' = "idle"
  /\ pending' = {}
  /\ UNCHANGED <<vsync, serving>>

EndTitle ==
  /\ lock = "title" /\ Drained
  /\ title' = "idle"
  /\ UNCHANGED <<vsync, pending, serving>>

EndVsync ==
  /\ lock = "vsync" /\ Drained
  /\ vsync' = "dispatch"
  /\ serving' = pending /\ pending' = {}
  /\ UNCHANGED title

-----------------------------------------------------------------------------
(* The vsync worker, once it has let go of the mutex *)

\* DispatchCpInterrupts, from the first CPU on.
Dispatch ==
  /\ vsync = "dispatch"
  /\ IF serving = {} THEN vsync' \in {"sleep", "vblank"} /\ UNCHANGED serving
     ELSE vsync' = "handler" /\ serving' = serving \ {Min(serving)}
  /\ UNCHANGED <<title_vars, walk_vars, title, lock, wptr, known, kicked>>

\* The title's handler writes a register, which takes the mutex. After a vblank's
\* the worker sleeps; several vblanks due at once are one here.
Handler ==
  /\ vsync \in {"handler", "vblank handler"} /\ lock = "none"
  /\ vsync' = IF vsync = "handler" THEN "dispatch" ELSE "sleep"
  /\ UNCHANGED <<title_vars, walk_vars, title, lock, wptr, serving, known, kicked>>

\* MarkVblank: progress is reported, then the handler called.
MarkVblank ==
  /\ vsync = "vblank" /\ lock = "none"
  /\ vsync' = "vblank handler"
  /\ rptr' = rptr /\ word' = Published
  /\ UNCHANGED <<title_vars, stack, gpu, pending, slot, title, lock, wptr, serving, known, kicked>>

-----------------------------------------------------------------------------
Next ==
  \/ \E p \in Ringed : Put(p)
  \/ Kick \/ Await \/ Resume \/ LearnDevice
  \/ StartTitle \/ StartVsync \/ Walk \/ EndTitle \/ EndVsync
  \/ Dispatch \/ Handler \/ MarkVblank

Spec == Init /\ [][Next]_vars

\* The threads run, and the mutex goes to each in its turn. What the title puts
\* and when is up to it.
FairSpec ==
  /\ Spec
  /\ SF_vars(StartTitle) /\ WF_vars(Walk) /\ WF_vars(EndTitle) /\ WF_vars(Resume)
  /\ SF_vars(StartVsync) /\ WF_vars(EndVsync)
  /\ WF_vars(Dispatch) /\ SF_vars(Handler) /\ SF_vars(MarkVblank)

-----------------------------------------------------------------------------
(* Properties *)

\* The variables have their types.
TypeOK ==
  /\ ring \in [0 .. RingSize - 1 -> Packets \cup {Payload}]
  /\ {tail, rptr, wptr, slot} \subseteq 0 .. RingSize - 1
  /\ batch \in Seq(Packets) /\ kicked \in Seq(Seq(Packets))
  /\ title \in {"idle", "kick", "walk", "await"}
  /\ vsync \in {"sleep", "walk", "dispatch", "handler", "vblank", "vblank handler"}
  /\ lock \in Threads \cup {"none"}
  /\ stack \in Seq(Frames) /\ Len(stack) <= MaxDepth + 1
  /\ stack # <<>> => stack[1].at \in 0 .. RingSize - 1
  /\ gpu \in Gpus
  /\ pending \cup serving \subseteq 0 .. 5
  /\ {puts, word, submitted} \subseteq 0 .. MaxPackets
  /\ known \in BOOLEAN

States == [gpu : Gpus, ok : BOOLEAN]

\* What one packet means where lists may be nested `left` times more, a list in it
\* meaning what inner says.
One(inner, left, m, p) ==
  IF ~m.ok \/ (p.marked /\ ~m.gpu.bin) THEN m
  ELSE IF p.op \in {"bad", "cut"} \/ (Enters(p) /\ left = 0) THEN [gpu |-> Leaf(m.gpu, p), ok |-> FALSE]
  ELSE IF Enters(p) THEN inner[<<m, p.list>>]
  ELSE [m EXCEPT !.gpu = Leaf(@, p)]

\* What a list of packets means, without a ring, indexes or steps: each in turn
\* until one fails, with it the lists around it.
Meaning[left \in 0 .. MaxDepth] ==
  [x \in States \X Seq(Packets) |->
     LET after[i \in 0 .. Len(x[2])] ==
           IF i = 0 THEN x[1] ELSE One(Meaning[left - 1], left, after[i - 1], x[2][i])
     IN after[Len(x[2])]]

\* The batches one after another, each whatever became of the one before it.
Total(batches) ==
  LET after[i \in 0 .. Len(batches)] ==
        IF i = 0 THEN Blank ELSE Meaning[MaxDepth][<<[gpu |-> after[i - 1], ok |-> TRUE], batches[i]>>].gpu
  IN after[Len(batches)]

\* Whatever the ring's wraps, what is left in it of earlier rounds, and who had
\* the mutex in between: what was carried out is what the title put, in its
\* order, as far as each batch goes; and nothing is left to be.
CarriedOut == lock # "title" => rptr = wptr /\ gpu = Total(kicked)

\* A title that waits for its fence goes on, also when the fence was lost with the
\* rest of a walk that failed, once its device is known (the comment in
\* MarkVblank); and an interrupt that a packet asked for reaches the handler's
\* turn, whichever thread carried the packet out and however many came at once.
WaitsEnd ==
  /\ (title = "await" /\ known) ~> title = "idle"
  /\ \A n \in 0 .. 5 : n \in pending ~> n \in serving
=============================================================================
