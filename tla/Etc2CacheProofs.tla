-------------------------- MODULE Etc2CacheProofs --------------------------
(* Theorems about Etc2Cache, for any textures, sizes, limit and threads. *)
EXTENDS Etc2Cache, WellFoundedInduction, TLAPS

(***************************************************************************)
(* Types                                                                   *)
(***************************************************************************)

\* What a process that starts has in its threads has the right type.
LEMMA FreshTypes ==
  /\ NoKey \in Keys
  /\ \A place \in ClientPlaces : NewClient(place) \in ClientRecord
  /\ FreshClients \in [Clients -> ClientRecord]
  /\ FreshWriters \in [Writers -> WriterRecord]
<1>1. NoKey \in Keys
  BY KeysAssumption DEF NoKey
<1>2. \A place \in ClientPlaces : NewClient(place) \in ClientRecord
  BY <1>1 DEF NewClient, Client, Contents, ClientRecord
<1>3. Writer("idle", NoKey) \in WriterRecord
  BY <1>1 DEF Writer, WriterPlaces, WriterRecord
<1>4. "idle" \in ClientPlaces /\ "out" \in ClientPlaces
  BY DEF ClientPlaces
<1> QED
  BY <1>1, <1>2, <1>3, <1>4 DEF FreshClients, FreshWriters

\* A process that starts has the types.
LEMMA InitTypes == Init => TypeOK
<1> SUFFICES ASSUME Init PROVE TypeOK
  OBVIOUS
<1>1. entries \in [Keys -> Contents] /\ parts \in [Keys -> Contents]
  BY DEF Init, Contents
<1>2. files \in [Keys -> Contents]
  BY FilesAssumption DEF Init
<1>3. order \in Seq(Keys) /\ pending \in Seq(Keys)
  BY DEF Init
<1>4. lock \in Clients \cup {NoThread}
  BY DEF Init
<1>5. bytes \in Int /\ writing \in Int /\ session \in Nat
  BY DEF Init
<1>6. rooted \in BOOLEAN /\ booted \in BOOLEAN
  BY Zenon DEF Init
<1>7. started \subseteq Writers /\ handed \subseteq Keys /\ marks \subseteq {"prepared-1", "prepared.v1"}
  BY DEF Init
<1>8. writers \in [Writers -> WriterRecord] /\ clients \in [Clients -> ClientRecord]
  BY FreshTypes DEF Init
<1> QED
  BY <1>1, <1>2, <1>3, <1>4, <1>5, <1>6, <1>7, <1>8 DEF TypeOK

\* A client changed into a client record leaves the others as they are.
LEMMA BecomeTypes ==
  ASSUME TypeOK, NEW c \in Clients, NEW client \in ClientRecord, Become(c, client)
  PROVE  clients' \in [Clients -> ClientRecord]
  BY DEF TypeOK, Become

\* One sent to a place is still one.
LEMMA GotoTypes ==
  ASSUME TypeOK, NEW c \in Clients, NEW place \in ClientPlaces, Goto(c, place)
  PROVE  clients' \in [Clients -> ClientRecord]
<1>1. clients[c] \in ClientRecord
  BY DEF TypeOK
<1>2. Client(place, clients[c].key, clients[c].entry, clients[c].made, clients[c].at)
        \in ClientRecord
  BY <1>1 DEF ClientRecord, Client
<1> QED
  BY <1>2, BecomeTypes DEF Goto

\* And so for the writers.
LEMMA WriterGotoTypes ==
  ASSUME TypeOK, NEW w \in Writers, NEW place \in WriterPlaces, WriterGoto(w, place)
  PROVE  writers' \in [Writers -> WriterRecord]
<1>1. writers[w] \in WriterRecord
  BY DEF TypeOK
<1>2. Writer(place, writers[w].key) \in WriterRecord
  BY <1>1 DEF WriterRecord, Writer
<1> QED
  BY <1>2 DEF WriterGoto, TypeOK

\* What Find makes of a client has the type.
LEMMA FindTypes ==
  ASSUME TypeOK, NEW c \in Clients, NEW k \in Keys, Find(c, k)
  PROVE  clients' \in [Clients -> ClientRecord]
<1> DEFINE at == IF c \in Ahead THEN clients[c].at + 1 ELSE clients[c].at
<1>1. at \in Nat \ {0}
  BY DEF TypeOK, ClientRecord
<1>2. Client(Answered(c), k, entries[k], FALSE, at) \in ClientRecord
  BY <1>1 DEF Client, ClientRecord, ClientPlaces, Answered, TypeOK
<1>3. Client("read", k, "none", FALSE, at) \in ClientRecord
  BY <1>1 DEF Client, ClientRecord, ClientPlaces, Contents
<1>4. Transcoded(k, at) \in ClientRecord
  BY <1>1 DEF Client, ClientRecord, ClientPlaces, Contents, Transcoded
<1> QED
  BY <1>2, <1>3, <1>4, BecomeTypes DEF Find

\* What is handed over has the type.
LEMMA HandOverTypes ==
  ASSUME TypeOK, NEW c \in Clients, HandOver(c)
  PROVE  /\ clients' \in [Clients -> ClientRecord]
         /\ pending' \in Seq(Keys)
         /\ handed' \subseteq Keys
         /\ writing' \in Int
<1>1. clients[c].key \in Keys
  BY DEF TypeOK, ClientRecord
<1>2. Answered(c) \in ClientPlaces
  BY DEF ClientPlaces, Answered
<1> QED
  BY <1>1, <1>2, GotoTypes DEF HandOver, TypeOK

\* Every step keeps the types.
LEMMA NextTypes == TypeOK /\ [Next]_vars => TypeOK'
<1> SUFFICES ASSUME TypeOK, [Next]_vars PROVE TypeOK'
  OBVIOUS
<1>1. CASE Install
  <2>1. clients' \in [Clients -> ClientRecord]
    BY <1>1, FreshTypes, BecomeTypes DEF Install, ClientPlaces, Clients
  <2> QED
    BY <1>1, <2>1 DEF TypeOK, Install, SetRoot, StartWriter, memory, queue, disk
<1>2. CASE Boot
  <2>1. clients' \in [Clients -> ClientRecord]
    <3>1. NewClient("spared") \in ClientRecord /\ NewClient("next") \in ClientRecord
      BY FreshTypes DEF ClientPlaces
    <3> QED
      BY <1>2, <3>1, BecomeTypes DEF Boot, Clients, TypeOK
  <2> QED
    BY <1>2, <2>1 DEF TypeOK, Boot, SetRoot, StartWriter, memory, queue, disk
<1>3. CASE EndProcess
  <2>1. entries' \in [Keys -> Contents]
    BY <1>3 DEF EndProcess, Contents
  <2>2. order' \in Seq(Keys) /\ pending' \in Seq(Keys)
    BY <1>3 DEF EndProcess
  <2>3. bytes' \in Int /\ writing' \in Int /\ session' \in Nat
    BY <1>3 DEF EndProcess, TypeOK
  <2>4. rooted' \in BOOLEAN /\ booted' \in BOOLEAN
    BY <1>3, Zenon DEF EndProcess
  <2>5. started' \subseteq Writers /\ handed' \subseteq Keys
    BY <1>3 DEF EndProcess
  <2>6. writers' \in [Writers -> WriterRecord] /\ clients' \in [Clients -> ClientRecord]
    BY <1>3, FreshTypes DEF EndProcess
  <2>7. lock' \in Clients \cup {NoThread} /\ UNCHANGED <<files, parts, marks>>
    BY <1>3 DEF EndProcess, disk
  <2> QED
    BY <2>1, <2>2, <2>3, <2>4, <2>5, <2>6, <2>7 DEF TypeOK
<1>4. ASSUME NEW c \in Drawers, Draw(c) PROVE TypeOK'
  BY <1>4, FindTypes DEF TypeOK, Draw, Clients, memory, queue, disk, process
<1>5. ASSUME NEW c \in Clients, ReadFile(c) PROVE TypeOK'
  <2> DEFINE k == clients[c].key
  <2>1. k \in Keys /\ clients[c].at \in Nat \ {0}
    BY DEF TypeOK, ClientRecord
  <2>2. /\ Client("keep", k, files[k], FALSE, clients[c].at) \in ClientRecord
        /\ Transcoded(k, clients[c].at) \in ClientRecord
    BY <2>1 DEF Client, Transcoded, ClientRecord, ClientPlaces, Contents, TypeOK
  <2>3. clients' \in [Clients -> ClientRecord]
    BY <1>5, <2>2, BecomeTypes DEF ReadFile
  <2> QED
    BY <1>5, <2>3 DEF TypeOK, ReadFile, memory, queue, disk, process
<1>6. ASSUME NEW c \in Clients, Pass(c) PROVE TypeOK'
  BY <1>6, HandOverTypes DEF TypeOK, Pass, memory, disk, process
<1>7. ASSUME NEW c \in Clients, Remember(c) PROVE TypeOK'
  <2>1. clients[c].key \in Keys /\ clients[c].entry \in Contents
    BY DEF TypeOK, ClientRecord
  <2>2. clients' \in [Clients -> ClientRecord]
    BY <1>7, GotoTypes DEF Remember, ClientPlaces
  <2>3. entries' \in [Keys -> Contents] /\ order' \in Seq(Keys) /\ bytes' \in Int
    BY <1>7, <2>1, SizesAssumption DEF TypeOK, Remember
  <2> QED
    BY <1>7, <2>2, <2>3 DEF TypeOK, Remember, queue, disk, process
<1>8. ASSUME NEW c \in Clients, Evict(c) PROVE TypeOK'
  <2>1. Head(order) \in Keys /\ Tail(order) \in Seq(Keys)
    BY <1>8 DEF TypeOK, Evict, TooMuch
  <2>2. entries' \in [Keys -> Contents]
    <3>1. "none" \in Contents
      BY DEF Contents
    <3> QED
      BY <1>8, <2>1, <3>1 DEF TypeOK, Evict
  <2>3. bytes' \in Int
    BY <1>8, <2>1, SizesAssumption DEF TypeOK, Evict
  <2> QED
    BY <1>8, <2>1, <2>2, <2>3 DEF TypeOK, Evict, queue, disk, process
<1>9. ASSUME NEW c \in Clients, Remembered(c) PROVE TypeOK'
  BY <1>9, HandOverTypes DEF TypeOK, Remembered, disk, process
<1>10. ASSUME NEW c \in Clients, Prepare(c) PROVE TypeOK'
  <2>1. Title[clients[c].at] \in Keys
    BY <1>10, SizesAssumption DEF TypeOK, Prepare, ClientRecord
  <2> QED
    BY <1>10, <2>1, FindTypes DEF TypeOK, Prepare, memory, queue, disk, process
<1>11. ASSUME NEW c \in Clients, EndOfTitle(c) PROVE TypeOK'
  BY <1>11, GotoTypes DEF TypeOK, EndOfTitle, ClientPlaces, memory, queue, disk, process
<1>12. ASSUME NEW c \in Clients, KeepPace(c) PROVE TypeOK'
  BY <1>12, GotoTypes DEF TypeOK, KeepPace, ClientPlaces, memory, queue, disk, process
<1>13. ASSUME NEW c \in Clients, Drain(c) PROVE TypeOK'
  BY <1>13, GotoTypes DEF TypeOK, Drain, ClientPlaces, memory, queue, disk, process
<1>14. ASSUME NEW c \in Clients, Flush(c) PROVE TypeOK'
  <2>1. clients' \in [Clients -> ClientRecord]
    BY <1>14, GotoTypes DEF Flush, ClientPlaces
  <2>2. entries' \in [Keys -> Contents]
    BY <1>14 DEF TypeOK, Flush, Contents
  <2>3. order' \in Seq(Keys) /\ bytes' \in Int
    <3>1. CASE Flushed
      <4>1. order' = <<>> /\ bytes' = 0
        BY <1>14, <3>1 DEF Flush
      <4> QED
        BY <4>1
    <3>2. CASE ~Flushed
      BY <1>14, <3>2 DEF TypeOK, Flush
    <3> QED
      BY <3>1, <3>2
  <2> QED
    BY <1>14, <2>1, <2>2, <2>3 DEF TypeOK, Flush, queue, disk, process
<1>15. ASSUME NEW c \in Clients, Wake(c) PROVE TypeOK'
  BY <1>15, GotoTypes DEF TypeOK, Wake, ClientPlaces, memory, queue, disk, process
<1>16. ASSUME NEW c \in Clients, Mark(c) PROVE TypeOK'
  <2>1. clients' \in [Clients -> ClientRecord]
    BY <1>16, GotoTypes DEF Mark, ClientPlaces
  <2>2. marks' \subseteq {"prepared-1", "prepared.v1"}
    BY <1>16 DEF TypeOK, Mark, Marker
  <2> QED
    BY <1>16, <2>1, <2>2 DEF TypeOK, Mark, memory, queue, process
<1>17. ASSUME NEW w \in Writers, TakeJob(w) PROVE TypeOK'
  <2>1. Head(pending) \in Keys /\ Tail(pending) \in Seq(Keys)
    BY <1>17 DEF TypeOK, TakeJob
  <2>2. writers' \in [Writers -> WriterRecord]
    <3>1. Writer("open", Head(pending)) \in WriterRecord
      BY <2>1 DEF Writer, WriterRecord, WriterPlaces
    <3> QED
      BY <1>17, <3>1 DEF TypeOK, TakeJob
  <2> QED
    BY <1>17, <2>1, <2>2 DEF TypeOK, TakeJob, memory, disk, process
<1>18. ASSUME NEW w \in Writers, OpenPart(w) PROVE TypeOK'
  <2>1. writers' \in [Writers -> WriterRecord]
    BY <1>18, WriterGotoTypes DEF OpenPart, WriterPlaces
  <2>2. parts' \in [Keys -> Contents]
    BY <1>18 DEF TypeOK, OpenPart, Contents
  <2> QED
    BY <1>18, <2>1, <2>2 DEF TypeOK, OpenPart, GivenUp, memory, process
<1>19. ASSUME NEW w \in Writers, FillPart(w) PROVE TypeOK'
  <2>1. writers' \in [Writers -> WriterRecord]
    BY <1>19, WriterGotoTypes DEF FillPart, WriterPlaces
  <2>2. parts' \in [Keys -> Contents]
    BY <1>19 DEF TypeOK, FillPart, Contents
  <2> QED
    BY <1>19, <2>1, <2>2 DEF TypeOK, FillPart, GivenUp, memory, process
<1>20. ASSUME NEW w \in Writers, RenamePart(w) PROVE TypeOK'
  <2>1. writers' \in [Writers -> WriterRecord]
    BY <1>20, WriterGotoTypes DEF RenamePart, WriterPlaces
  <2>2. writers[w].key \in Keys
    BY DEF TypeOK, WriterRecord
  <2>3. parts' \in [Keys -> Contents] /\ files' \in [Keys -> Contents]
    BY <1>20, <2>2 DEF TypeOK, RenamePart, Contents
  <2> QED
    BY <1>20, <2>1, <2>3 DEF TypeOK, RenamePart, GivenUp, memory, process
<1>21. ASSUME NEW w \in Writers, EndJob(w) PROVE TypeOK'
  BY <1>21, WriterGotoTypes DEF TypeOK, EndJob, WriterPlaces, memory, disk, process
<1>22. CASE UNCHANGED vars
  BY <1>22 DEF TypeOK, vars, memory, queue, disk, process
<1> QED
  BY <1>1, <1>2, <1>3, <1>4, <1>5, <1>6, <1>7, <1>8, <1>9, <1>10, <1>11, <1>12, <1>13, <1>14, <1>15, <1>16, <1>17, <1>18, <1>19, <1>20, <1>21, <1>22
     DEF Next, ClientStep, WriterStep

\* The variables of Etc2Cache have their types in every state.
THEOREM TypeCorrect == Spec => []TypeOK
  BY InitTypes, NextTypes, PTL DEF Spec

(***************************************************************************)
(* The memory's limit                                                      *)
(***************************************************************************)

\* A count is the sum of the sizes of a sequence of textures: there are partial
\* sums from nothing up to it.
Tally(s, total) ==
  \E t \in [0 .. Len(s) -> Int] :
    /\ t[0] = 0
    /\ \A i \in 1 .. Len(s) : t[i] = t[i - 1] + Size[s[i]]
    /\ total = t[Len(s)]

\* Nothing takes no bytes.
LEMMA TallyEmpty == Tally(<<>>, 0)
<1> DEFINE t == [i \in 0 .. Len(<<>>) |-> 0]
<1>1. t \in [0 .. Len(<<>>) -> Int] /\ t[0] = 0 /\ Len(<<>>) = 0
  OBVIOUS
<1>2. \A i \in 1 .. Len(<<>>) : t[i] = t[i - 1] + Size[<<>>[i]]
  OBVIOUS
<1> HIDE DEF t
<1> QED
  BY <1>1, <1>2 DEF Tally

\* Of nothing, the sum is 0.
LEMMA TallyOfNothing == ASSUME NEW total, Tally(<<>>, total) PROVE total = 0
  BY DEF Tally

\* One more texture at the end adds its size.
LEMMA TallyAppend ==
  ASSUME NEW s \in Seq(Keys), NEW total \in Int, NEW k \in Keys, Tally(s, total)
  PROVE  Tally(Append(s, k), total + Size[k])
<1>1. PICK t \in [0 .. Len(s) -> Int] :
        /\ t[0] = 0
        /\ \A i \in 1 .. Len(s) : t[i] = t[i - 1] + Size[s[i]]
        /\ total = t[Len(s)]
  BY DEF Tally
<1> DEFINE s1 == Append(s, k)
           u == [i \in 0 .. Len(s1) |-> IF i <= Len(s) THEN t[i] ELSE total + Size[k]]
<1>2. /\ Len(s) \in Nat
      /\ Len(s1) = Len(s) + 1
      /\ \A i \in 1 .. Len(s) : s1[i] = s[i]
      /\ s1[Len(s) + 1] = k
  OBVIOUS
<1>3. Size[k] \in Int
  BY SizesAssumption
<1> HIDE DEF s1
<1>4. u \in [0 .. Len(s1) -> Int] /\ u[0] = 0 /\ u[Len(s1)] = total + Size[k]
  BY <1>1, <1>2, <1>3
<1>5. ASSUME NEW i \in 1 .. Len(s1) PROVE u[i] = u[i - 1] + Size[s1[i]]
  <2>1. CASE i <= Len(s)
    <3>1. i \in 1 .. Len(s) /\ i - 1 \in 0 .. Len(s) /\ i - 1 \in 0 .. Len(s1) /\ i \in 0 .. Len(s1)
      BY <1>2, <2>1
    <3>2. u[i] = t[i] /\ u[i - 1] = t[i - 1]
      BY <1>2, <2>1, <3>1
    <3> QED
      BY <1>1, <1>2, <3>1, <3>2
  <2>2. CASE i = Len(s) + 1
    <3>1. u[i] = total + Size[k] /\ u[i - 1] = t[Len(s)]
      BY <1>2, <2>2
    <3> QED
      BY <1>1, <1>2, <2>2, <3>1
  <2> QED
    BY <1>2, <2>1, <2>2
<1> HIDE DEF u
<1> QED
  BY <1>4, <1>5 DEF Tally, s1

\* Without its first texture the sum is less by that one's size.
LEMMA TallyTail ==
  ASSUME NEW s \in Seq(Keys), s # <<>>, NEW total \in Int, Tally(s, total)
  PROVE  Tally(Tail(s), total - Size[Head(s)])
<1>1. PICK t \in [0 .. Len(s) -> Int] :
        /\ t[0] = 0
        /\ \A i \in 1 .. Len(s) : t[i] = t[i - 1] + Size[s[i]]
        /\ total = t[Len(s)]
  BY DEF Tally
<1> DEFINE s1 == Tail(s)
           u == [i \in 0 .. Len(s1) |-> t[i + 1] - Size[Head(s)]]
<1>2. /\ Len(s) \in Nat /\ Len(s) # 0
      /\ Len(s1) = Len(s) - 1
      /\ \A i \in 1 .. Len(s1) : s1[i] = s[i + 1]
      /\ Head(s) = s[1] /\ Head(s) \in Keys
  OBVIOUS
<1>3. Size[Head(s)] \in Int
  BY <1>2, SizesAssumption
<1>4. t[1] = Size[Head(s)]
  BY <1>1, <1>2, <1>3
<1> HIDE DEF s1
<1>5. u \in [0 .. Len(s1) -> Int] /\ u[0] = 0 /\ u[Len(s1)] = total - Size[Head(s)]
  BY <1>1, <1>2, <1>3, <1>4
<1>6. ASSUME NEW i \in 1 .. Len(s1) PROVE u[i] = u[i - 1] + Size[s1[i]]
  <2>1. i + 1 \in 1 .. Len(s) /\ i \in 0 .. Len(s1) /\ i - 1 \in 0 .. Len(s1)
    BY <1>2
  <2>2. u[i] = t[i + 1] - Size[Head(s)] /\ u[i - 1] = t[i] - Size[Head(s)]
    BY <1>2, <2>1
  <2>3. t[i + 1] = t[i] + Size[s[i + 1]]
    BY <1>1, <1>2, <2>1
  <2>4. t[i] \in Int /\ t[i + 1] \in Int /\ Size[s1[i]] \in Int
    <3>1. s[i + 1] \in Keys
      BY <2>1
    <3>2. s1[i] = s[i + 1] /\ i \in 0 .. Len(s) /\ i + 1 \in 0 .. Len(s)
      BY <1>2, <2>1
    <3>3. Size[s1[i]] \in Int
      BY <3>1, <3>2, SizesAssumption
    <3>4. t[i] \in Int /\ t[i + 1] \in Int
      BY <1>1, <3>2
    <3> QED
      BY <3>3, <3>4
  <2> QED
    BY <1>2, <1>3, <2>2, <2>3, <2>4
<1> HIDE DEF u
<1> QED
  BY <1>5, <1>6 DEF Tally, s1

\* Only who is in Remember's loop holds the mutex over a step.
LoopHoldsLock == \A c \in Clients : clients[c].pc = "evict" <=> lock = c

\* What a client is about to keep or hand over is whole.
KeptIsWhole == \A c \in Clients : clients[c].pc = "keep" => clients[c].entry = "whole"

ThreadsInv == AnswersAreWhole /\ KeptIsWhole /\ LoopHoldsLock

\* What the memory holds, is listed and counted agree.
MemoryInv == OrderNamesEntries /\ Tally(order, bytes) /\ MemoryBounded

\* Nobody is in the loop and the memory is empty at the start.
LEMMA InitInv == Init => ThreadsInv /\ MemoryInv
<1> SUFFICES ASSUME Init PROVE ThreadsInv /\ MemoryInv
  OBVIOUS
<1>1. \A c \in Clients : clients[c].pc \in {"idle", "out"} /\ clients[c].entry = "none"
  BY DEF Init, FreshClients, NewClient, Client
<1>2. lock \notin Clients
  BY ThreadsAssumption DEF Init, Clients
<1>3. ThreadsInv
  BY <1>1, <1>2 DEF ThreadsInv, AnswersAreWhole, KeptIsWhole, LoopHoldsLock, Init
<1>4. OrderNamesEntries
  BY DEF OrderNamesEntries, Init
<1>5. Tally(order, bytes)
  BY TallyEmpty DEF Init
<1>6. MemoryBounded
  BY SizesAssumption DEF MemoryBounded, Init
<1> QED
  BY <1>3, <1>4, <1>5, <1>6 DEF MemoryInv

\* A client that moves outside the loop, with a texture that is whole or none.
LEMMA QuietBecome ==
  ASSUME TypeOK, ThreadsInv, NEW c \in Clients, NEW client \in ClientRecord,
         Become(c, client), clients[c].pc # "evict", client.pc # "evict",
         client.entry \in {"none", "whole"}, client.pc = "keep" => client.entry = "whole",
         UNCHANGED <<lock, entries>>
  PROVE  ThreadsInv'
<1>1. \A d \in Clients : clients'[d] = IF d = c THEN client ELSE clients[d]
  BY DEF TypeOK, Become
<1>2. AnswersAreWhole'
  BY <1>1 DEF ThreadsInv, AnswersAreWhole
<1>3. KeptIsWhole'
  BY <1>1 DEF ThreadsInv, KeptIsWhole
<1>4. LoopHoldsLock'
  BY <1>1 DEF ThreadsInv, LoopHoldsLock
<1> QED
  BY <1>2, <1>3, <1>4 DEF ThreadsInv

\* A client that only changes its place.
LEMMA QuietGoto ==
  ASSUME TypeOK, ThreadsInv, NEW c \in Clients, NEW place \in ClientPlaces,
         Goto(c, place), clients[c].pc # "evict", place # "evict", place # "keep",
         UNCHANGED <<lock, entries>>
  PROVE  ThreadsInv'
<1> DEFINE client == Client(place, clients[c].key, clients[c].entry, clients[c].made,
                            clients[c].at)
<1>1. clients[c] \in ClientRecord
  BY DEF TypeOK
<1>2. client \in ClientRecord /\ client.pc = place /\ client.entry = clients[c].entry
  BY <1>1 DEF Client, ClientRecord
<1>3. clients[c].entry \in {"none", "whole"}
  BY DEF ThreadsInv, AnswersAreWhole
<1>4. Become(c, client)
  BY DEF Goto
<1> HIDE DEF client
<1> QED
  BY <1>2, <1>3, <1>4, QuietBecome

\* A look-up.
LEMMA QuietFind ==
  ASSUME TypeOK, ThreadsInv, NEW c \in Clients, NEW k \in Keys,
         Find(c, k), clients[c].pc # "evict", UNCHANGED <<lock, entries>>
  PROVE  ThreadsInv'
<1> DEFINE at == IF c \in Ahead THEN clients[c].at + 1 ELSE clients[c].at
           hit == Client(Answered(c), k, entries[k], FALSE, at)
           read == Client("read", k, "none", FALSE, at)
           miss == Transcoded(k, at)
<1>1. at \in Nat \ {0}
  BY DEF TypeOK, ClientRecord
<1>2. /\ Answered(c) \in ClientPlaces /\ Answered(c) # "evict" /\ Answered(c) # "keep"
      /\ "read" \in ClientPlaces /\ "keep" \in ClientPlaces
      /\ "none" \in Contents /\ "whole" \in Contents
  BY DEF Answered, ClientPlaces, Contents
<1>3. entries[k] \in {"none", "whole"}
  BY DEF ThreadsInv, AnswersAreWhole
<1>4. hit \in ClientRecord /\ hit.pc = Answered(c) /\ hit.entry = entries[k]
  BY <1>1, <1>2, <1>3 DEF Client, ClientRecord
<1>5. read \in ClientRecord /\ read.pc = "read" /\ read.entry = "none"
  BY <1>1, <1>2 DEF Client, ClientRecord
<1>6. miss \in ClientRecord /\ miss.pc = "keep" /\ miss.entry = "whole"
  BY <1>1, <1>2 DEF Client, ClientRecord, Transcoded
<1>7. Become(c, hit) \/ Become(c, read) \/ Become(c, miss)
  BY DEF Find
<1> HIDE DEF hit, read, miss
<1> QED
  BY <1>2, <1>3, <1>4, <1>5, <1>6, <1>7, QuietBecome

\* With the mutex free nobody is in the loop.
LEMMA NobodyLoops ==
  ASSUME ThreadsInv, Free, NEW c \in Clients
  PROVE  clients[c].pc # "evict"
  BY ThreadsAssumption DEF ThreadsInv, LoopHoldsLock, Free, Clients

\* Every step keeps textures whole and the mutex with who is in the loop.
LEMMA ThreadsStep == TypeOK /\ ThreadsInv /\ [Next]_vars => ThreadsInv'
<1> SUFFICES ASSUME TypeOK, ThreadsInv, [Next]_vars PROVE ThreadsInv'
  OBVIOUS
<1>1. CASE Install
  <2>1. NewClient("next") \in ClientRecord /\ "installer" \in Clients
    BY <1>1, FreshTypes DEF ClientPlaces, Clients, Install
  <2>2. NewClient("next").pc = "next" /\ NewClient("next").entry = "none"
    BY DEF NewClient, Client
  <2> HIDE DEF NewClient
  <2> QED
    BY <1>1, <2>1, <2>2, QuietBecome DEF Install, memory
<1>2. CASE Boot
  <2>1. CASE "preparer" \in Ahead
    <3>1. PICK place \in {"spared", "next"} : Become("preparer", NewClient(place))
      BY <1>2, <2>1 DEF Boot
    <3>2. NewClient(place) \in ClientRecord /\ "preparer" \in Clients
      BY <2>1, FreshTypes DEF ClientPlaces, Clients
    <3>3. NewClient(place).pc = place /\ NewClient(place).entry = "none"
      BY DEF NewClient, Client
    <3>4. clients["preparer"].pc # "evict"
      BY <1>2, <3>2, NobodyLoops DEF Boot
    <3> QED
      BY <1>2, <3>1, <3>2, <3>3, <3>4, QuietBecome DEF Boot, memory
  <2>2. CASE "preparer" \notin Ahead
    BY <1>2, <2>2 DEF Boot, memory, ThreadsInv, AnswersAreWhole, KeptIsWhole, LoopHoldsLock
  <2> QED
    BY <2>1, <2>2
<1>3. CASE EndProcess
  <2>1. \A c \in Clients : clients'[c].pc \in {"idle", "out"} /\ clients'[c].entry = "none"
    BY <1>3 DEF EndProcess, FreshClients, NewClient, Client
  <2>2. lock' \notin Clients
    BY <1>3, ThreadsAssumption DEF EndProcess, Clients
  <2> QED
    BY <1>3, <2>1, <2>2 DEF ThreadsInv, AnswersAreWhole, KeptIsWhole, LoopHoldsLock, EndProcess
<1>4. ASSUME NEW c \in Drawers, Draw(c) PROVE ThreadsInv'
  BY <1>4, QuietFind DEF Draw, Clients, memory
<1>5. ASSUME NEW c \in Clients, ReadFile(c) PROVE ThreadsInv'
  <2> DEFINE k == clients[c].key
             found == Client("keep", k, files[k], FALSE, clients[c].at)
             miss == Transcoded(k, clients[c].at)
  <2>1. k \in Keys /\ clients[c].at \in Nat \ {0} /\ files[k] \in Contents
    BY DEF TypeOK, ClientRecord
  <2>2. found \in ClientRecord /\ found.pc = "keep" /\ found.entry = files[k]
    BY <2>1 DEF Client, ClientRecord, ClientPlaces
  <2>3. miss \in ClientRecord /\ miss.pc = "keep" /\ miss.entry = "whole"
    BY <2>1 DEF Client, ClientRecord, ClientPlaces, Transcoded, Contents
  <2>4. (Become(c, found) /\ files[k] = "whole") \/ Become(c, miss)
    BY <1>5 DEF ReadFile, Readable
  <2>5. clients[c].pc # "evict" /\ UNCHANGED <<lock, entries>>
    BY <1>5 DEF ReadFile, memory
  <2> HIDE DEF found, miss
  <2> QED
    BY <2>2, <2>3, <2>4, <2>5, QuietBecome
<1>6. ASSUME NEW c \in Clients, Pass(c) PROVE ThreadsInv'
  <2>1. Answered(c) \in ClientPlaces /\ Answered(c) \notin {"evict", "keep"}
    BY DEF Answered, ClientPlaces
  <2> QED
    BY <1>6, <2>1, QuietGoto DEF Pass, HandOver, memory
<1>7. ASSUME NEW c \in Clients, Remember(c) PROVE ThreadsInv'
  <2>1. \A d \in Clients : /\ clients'[d].pc = IF d = c THEN "evict" ELSE clients[d].pc
                           /\ clients'[d].entry = clients[d].entry
    BY <1>7 DEF Remember, Goto, Become, Client, TypeOK
  <2>2. clients[c].entry = "whole" /\ lock \notin Clients /\ lock' = c
    BY <1>7, ThreadsAssumption DEF Remember, ThreadsInv, KeptIsWhole, Free, Clients
  <2>3. \A k \in Keys : entries'[k] = entries[k] \/ entries'[k] = "whole"
    BY <1>7, <2>2 DEF Remember, TypeOK
  <2> QED
    BY <2>1, <2>2, <2>3 DEF ThreadsInv, AnswersAreWhole, KeptIsWhole, LoopHoldsLock
<1>8. ASSUME NEW c \in Clients, Evict(c) PROVE ThreadsInv'
  <2>1. \A k \in Keys : entries'[k] \in {entries[k], "none"}
    BY <1>8 DEF Evict, TypeOK
  <2>2. UNCHANGED <<clients, lock>>
    BY <1>8 DEF Evict
  <2> QED
    BY <2>1, <2>2 DEF ThreadsInv, AnswersAreWhole, KeptIsWhole, LoopHoldsLock
<1>9. ASSUME NEW c \in Clients, Remembered(c) PROVE ThreadsInv'
  <2>1. \A d \in Clients : /\ clients'[d].pc = IF d = c THEN Answered(c) ELSE clients[d].pc
                           /\ clients'[d].entry = clients[d].entry
    BY <1>9 DEF Remembered, HandOver, Goto, Become, Client, TypeOK
  <2>2. Answered(c) \notin {"evict", "keep"}
    BY DEF Answered
  <2>3. lock = c /\ lock' \notin Clients /\ UNCHANGED entries
    BY <1>9, ThreadsAssumption DEF Remembered, ThreadsInv, LoopHoldsLock, Clients
  <2> QED
    BY <2>1, <2>2, <2>3 DEF ThreadsInv, AnswersAreWhole, KeptIsWhole, LoopHoldsLock
<1>10. ASSUME NEW c \in Clients, Prepare(c) PROVE ThreadsInv'
  <2>1. Title[clients[c].at] \in Keys
    BY <1>10, SizesAssumption DEF TypeOK, Prepare, ClientRecord
  <2> QED
    BY <1>10, <2>1, QuietFind DEF Prepare, memory
<1>11. ASSUME NEW c \in Clients, EndOfTitle(c) PROVE ThreadsInv'
  BY <1>11, QuietGoto DEF EndOfTitle, ClientPlaces, memory
<1>12. ASSUME NEW c \in Clients, KeepPace(c) PROVE ThreadsInv'
  BY <1>12, QuietGoto DEF KeepPace, ClientPlaces, memory
<1>13. ASSUME NEW c \in Clients, Drain(c) PROVE ThreadsInv'
  BY <1>13, QuietGoto DEF Drain, ClientPlaces, memory
<1>14. ASSUME NEW c \in Clients, Flush(c) PROVE ThreadsInv'
  <2>1. PICK place \in {"mark", "rest"} : Goto(c, place)
    BY <1>14 DEF Flush
  <2>2. \A d \in Clients : /\ clients'[d].pc = IF d = c THEN place ELSE clients[d].pc
                           /\ clients'[d].entry = clients[d].entry
    BY <2>1 DEF Goto, Become, Client, TypeOK
  <2>3. clients[c].pc = "flush" /\ UNCHANGED lock
    BY <1>14 DEF Flush
  <2>4. \A k \in Keys : entries'[k] \in {entries[k], "none"}
    BY <1>14 DEF Flush
  <2> QED
    BY <2>2, <2>3, <2>4 DEF ThreadsInv, AnswersAreWhole, KeptIsWhole, LoopHoldsLock
<1>15. ASSUME NEW c \in Clients, Wake(c) PROVE ThreadsInv'
  BY <1>15, QuietGoto DEF Wake, ClientPlaces, memory
<1>16. ASSUME NEW c \in Clients, Mark(c) PROVE ThreadsInv'
  BY <1>16, QuietGoto DEF Mark, ClientPlaces, memory
<1>17. ASSUME NEW w \in Writers, TakeJob(w) PROVE ThreadsInv'
  BY <1>17 DEF TakeJob, memory, ThreadsInv, AnswersAreWhole, KeptIsWhole, LoopHoldsLock
<1>18. ASSUME NEW w \in Writers, OpenPart(w) PROVE ThreadsInv'
  BY <1>18 DEF OpenPart, memory, ThreadsInv, AnswersAreWhole, KeptIsWhole, LoopHoldsLock
<1>19. ASSUME NEW w \in Writers, FillPart(w) PROVE ThreadsInv'
  BY <1>19 DEF FillPart, memory, ThreadsInv, AnswersAreWhole, KeptIsWhole, LoopHoldsLock
<1>20. ASSUME NEW w \in Writers, RenamePart(w) PROVE ThreadsInv'
  BY <1>20 DEF RenamePart, memory, ThreadsInv, AnswersAreWhole, KeptIsWhole, LoopHoldsLock
<1>21. ASSUME NEW w \in Writers, EndJob(w) PROVE ThreadsInv'
  BY <1>21 DEF EndJob, memory, ThreadsInv, AnswersAreWhole, KeptIsWhole, LoopHoldsLock
<1>22. CASE UNCHANGED vars
  BY <1>22 DEF vars, memory, ThreadsInv, AnswersAreWhole, KeptIsWhole, LoopHoldsLock
<1> QED
  BY <1>1, <1>2, <1>3, <1>4, <1>5, <1>6, <1>7, <1>8, <1>9, <1>10, <1>11, <1>12, <1>13, <1>14, <1>15, <1>16, <1>17, <1>18, <1>19, <1>20, <1>21, <1>22
     DEF Next, ClientStep, WriterStep

\* One more texture that is not there yet, at the end of the list.
LEMMA RememberStep ==
  ASSUME TypeOK, ThreadsInv, MemoryInv, NEW c \in Clients, Remember(c)
  PROVE  MemoryInv'
<1> DEFINE k == clients[c].key
<1>1. k \in Keys /\ clients[c].entry = "whole"
  BY DEF TypeOK, ClientRecord, ThreadsInv, KeptIsWhole, Remember
<1>2. MemoryBounded'
  BY ThreadsAssumption DEF MemoryBounded, Remember, Clients
<1>3. CASE entries[k] # "none"
  BY <1>2, <1>3 DEF MemoryInv, OrderNamesEntries, Remember
<1>4. CASE entries[k] = "none"
  <2>1. /\ entries' = [entries EXCEPT ![k] = "whole"]
        /\ order' = Append(order, k)
        /\ bytes' = bytes + Size[k]
    BY <1>1, <1>4 DEF Remember
  <2>2. Tally(order', bytes')
    BY <1>1, <2>1, TallyAppend DEF MemoryInv, TypeOK
  <2>3. /\ Len(order) \in Nat
        /\ DOMAIN order = 1 .. Len(order)
        /\ DOMAIN order' = 1 .. Len(order) + 1
        /\ \A i \in 1 .. Len(order) : order'[i] = order[i]
        /\ order'[Len(order) + 1] = k
    BY <1>1, <2>1 DEF TypeOK
  <2>4. \A i \in 1 .. Len(order) : order[i] # k
    BY <1>1, <1>4, <2>3 DEF MemoryInv, OrderNamesEntries
  <2>5. \A j \in Keys : entries'[j] # "none" <=> \E i \in DOMAIN order' : order'[i] = j
    <3> SUFFICES ASSUME NEW j \in Keys
                 PROVE  entries'[j] # "none" <=> \E i \in DOMAIN order' : order'[i] = j
      OBVIOUS
    <3>1. CASE j = k
      BY <1>1, <2>1, <2>3, <3>1 DEF TypeOK
    <3>2. CASE j # k
      <4>1. entries'[j] = entries[j]
        BY <2>1, <3>2 DEF TypeOK
      <4>2. entries[j] # "none" <=> \E i \in 1 .. Len(order) : order[i] = j
        BY <2>3 DEF MemoryInv, OrderNamesEntries
      <4> QED
        BY <2>3, <3>2, <4>1, <4>2
    <3> QED
      BY <3>1, <3>2
  <2>6. \A i, j \in DOMAIN order' : order'[i] = order'[j] => i = j
    BY <2>3, <2>4 DEF MemoryInv, OrderNamesEntries
  <2> QED
    BY <1>2, <2>2, <2>5, <2>6 DEF MemoryInv, OrderNamesEntries
<1> QED
  BY <1>3, <1>4

\* The oldest texture leaves the memory, the list and the count at once.
LEMMA EvictStep ==
  ASSUME TypeOK, ThreadsInv, MemoryInv, NEW c \in Clients, Evict(c)
  PROVE  MemoryInv'
<1> DEFINE k == Head(order)
<1>1. /\ order \in Seq(Keys) /\ order # <<>> /\ bytes \in Int
      /\ order' = Tail(order)
  BY DEF TypeOK, Evict, TooMuch
<1>2. /\ Len(order) \in Nat /\ Len(order) # 0
      /\ DOMAIN order = 1 .. Len(order)
      /\ DOMAIN order' = 1 .. Len(order) - 1
      /\ \A i \in 1 .. Len(order) - 1 : order'[i] = order[i + 1]
      /\ k = order[1] /\ k \in Keys
  BY <1>1
<1>3. entries[k] # "none"
  BY <1>2 DEF MemoryInv, OrderNamesEntries
<1>4. bytes' = bytes - Size[k] /\ entries' = [entries EXCEPT ![k] = "none"] /\ UNCHANGED lock
  BY <1>3 DEF Evict
<1>5. Tally(order', bytes')
  BY <1>1, <1>4, TallyTail DEF MemoryInv
<1>6. \A i, j \in 1 .. Len(order) : order[i] = order[j] => i = j
  BY <1>2 DEF MemoryInv, OrderNamesEntries
<1>7. \A i, j \in DOMAIN order' : order'[i] = order'[j] => i = j
  <2> SUFFICES ASSUME NEW i \in 1 .. Len(order) - 1, NEW j \in 1 .. Len(order) - 1,
                      order'[i] = order'[j]
               PROVE  i = j
    BY <1>2
  <2>1. order[i + 1] = order[j + 1] /\ i + 1 \in 1 .. Len(order) /\ j + 1 \in 1 .. Len(order)
    BY <1>2
  <2> QED
    BY <1>2, <1>6, <2>1
<1>8. \A j \in Keys : entries'[j] # "none" <=> \E i \in DOMAIN order' : order'[i] = j
  <2> SUFFICES ASSUME NEW j \in Keys
               PROVE  entries'[j] # "none" <=> \E i \in 1 .. Len(order) - 1 : order[i + 1] = j
    BY <1>2
  <2>1. entries[j] # "none" <=> \E i \in 1 .. Len(order) : order[i] = j
    BY <1>2 DEF MemoryInv, OrderNamesEntries
  <2>2. CASE j = k
    <3>1. entries'[j] = "none"
      BY <1>2, <1>4, <2>2 DEF TypeOK
    <3>2. ASSUME NEW i \in 1 .. Len(order) - 1 PROVE order[i + 1] # j
      <4>1. i + 1 \in 1 .. Len(order) /\ 1 \in 1 .. Len(order) /\ i + 1 # 1
        BY <1>2
      <4> QED
        BY <1>2, <1>6, <2>2, <4>1
    <3> QED
      BY <3>1, <3>2
  <2>3. CASE j # k
    <3>1. entries'[j] = entries[j]
      BY <1>4, <2>3 DEF TypeOK
    <3>2. ASSUME NEW i \in 1 .. Len(order), order[i] = j
          PROVE  \E h \in 1 .. Len(order) - 1 : order[h + 1] = j
      <4>1. i - 1 \in 1 .. Len(order) - 1 /\ (i - 1) + 1 = i
        BY <1>2, <2>3, <3>2
      <4> QED
        BY <3>2, <4>1
    <3>3. ASSUME NEW i \in 1 .. Len(order) - 1, order[i + 1] = j
          PROVE  \E h \in 1 .. Len(order) : order[h] = j
      <4>1. i + 1 \in 1 .. Len(order)
        BY <1>2
      <4> QED
        BY <3>3, <4>1
    <3> QED
      BY <2>1, <3>1, <3>2, <3>3
  <2> QED
    BY <2>2, <2>3
<1>9. MemoryBounded'
  <2>1. lock = c
    BY DEF Evict, ThreadsInv, LoopHoldsLock
  <2> QED
    BY <1>4, <2>1, ThreadsAssumption DEF MemoryBounded, Clients
<1> QED
  BY <1>5, <1>7, <1>8, <1>9 DEF MemoryInv, OrderNamesEntries

\* The loop ends within the limit: with nothing left, nothing is counted.
LEMMA RememberedStep ==
  ASSUME TypeOK, MemoryInv, NEW c \in Clients, Remembered(c)
  PROVE  MemoryInv'
<1>1. UNCHANGED <<entries, order, bytes>> /\ ~TooMuch
  BY DEF Remembered
<1>2. bytes <= MemoryLimit
  <2>1. CASE order = <<>>
    <3>1. bytes = 0
      BY <2>1, TallyOfNothing DEF MemoryInv
    <3> QED
      BY <3>1, SizesAssumption
  <2>2. CASE order # <<>>
    BY <1>1, <2>2, SizesAssumption DEF TooMuch, TypeOK
  <2> QED
    BY <2>1, <2>2
<1> QED
  BY <1>1, <1>2 DEF MemoryInv, OrderNamesEntries, MemoryBounded

\* An empty memory agrees with itself.
LEMMA EmptyMemory ==
  ASSUME entries' = [k \in Keys |-> "none"], order' = <<>>, bytes' = 0
  PROVE  MemoryInv'
<1>1. Tally(order', bytes')
  BY TallyEmpty
<1>2. OrderNamesEntries'
  BY DEF OrderNamesEntries
<1>3. MemoryBounded'
  BY SizesAssumption DEF MemoryBounded
<1> QED
  BY <1>1, <1>2, <1>3 DEF MemoryInv

\* Every step keeps the memory's accounts.
LEMMA MemoryStep == TypeOK /\ ThreadsInv /\ MemoryInv /\ [Next]_vars => MemoryInv'
<1> SUFFICES ASSUME TypeOK, ThreadsInv, MemoryInv, [Next]_vars PROVE MemoryInv'
  OBVIOUS
<1>1. CASE UNCHANGED <<entries, order, bytes, lock>>
  BY <1>1 DEF MemoryInv, OrderNamesEntries, MemoryBounded
<1>2. CASE EndProcess
  BY <1>2, EmptyMemory DEF EndProcess
<1>3. ASSUME NEW c \in Clients, Remember(c) \/ Evict(c) \/ Remembered(c) PROVE MemoryInv'
  BY <1>3, RememberStep, EvictStep, RememberedStep
<1>4. ASSUME NEW c \in Clients, Flush(c) PROVE MemoryInv'
  <2>1. CASE Flushed
    BY <1>4, <2>1, EmptyMemory DEF Flush
  <2>2. CASE ~Flushed
    BY <1>1, <1>4, <2>2 DEF Flush
  <2> QED
    BY <2>1, <2>2
<1>5. ASSUME NEW c \in Clients, ClientStep(c) PROVE MemoryInv'
  <2>1. CASE \/ ReadFile(c) \/ Pass(c) \/ Prepare(c) \/ EndOfTitle(c)
             \/ KeepPace(c) \/ Drain(c) \/ Wake(c) \/ Mark(c)
    BY <1>1, <2>1 DEF memory, ReadFile, Pass, Prepare, EndOfTitle, KeepPace, Drain, Wake, Mark
  <2> QED
    BY <1>3, <1>4, <1>5, <2>1 DEF ClientStep
<1>6. ASSUME NEW w \in Writers, WriterStep(w) PROVE MemoryInv'
  BY <1>1, <1>6 DEF memory, WriterStep, TakeJob, OpenPart, FillPart, RenamePart, EndJob
<1>7. ASSUME NEW c \in Drawers, Draw(c) PROVE MemoryInv'
  BY <1>1, <1>7 DEF memory, Draw
<1>8. CASE Install \/ Boot \/ UNCHANGED vars
  BY <1>1, <1>8 DEF memory, Install, Boot, vars
<1> QED
  BY <1>2, <1>5, <1>6, <1>7, <1>8 DEF Next

\* The three invariants together are kept by every step.
LEMMA Invariance == Spec => [](TypeOK /\ ThreadsInv /\ MemoryInv)
<1>1. Init => TypeOK /\ ThreadsInv /\ MemoryInv
  BY InitTypes, InitInv
<1>2. TypeOK /\ ThreadsInv /\ MemoryInv /\ [Next]_vars => (TypeOK /\ ThreadsInv /\ MemoryInv)'
  BY NextTypes, ThreadsStep, MemoryStep
<1> QED
  BY <1>1, <1>2, PTL DEF Spec

\* No thread gets, and the memory never holds, a texture that is not whole.
THEOREM WholeAnswers == Spec => []AnswersAreWhole
<1>1. ThreadsInv => AnswersAreWhole
  BY DEF ThreadsInv
<1> QED
  BY <1>1, Invariance, PTL

\* The list of what is in memory names each texture there once, and no other.
THEOREM NamesEntries == Spec => []OrderNamesEntries
<1>1. MemoryInv => OrderNamesEntries
  BY DEF MemoryInv
<1> QED
  BY <1>1, Invariance, PTL

\* The memory keeps to its limit whenever the mutex is free.
THEOREM KeepsToLimit == Spec => []MemoryBounded
<1>1. MemoryInv => MemoryBounded
  BY DEF MemoryInv
<1> QED
  BY <1>1, Invariance, PTL

\* Of the numbers in a set there is a least one.
LEMMA LeastOf ==
  ASSUME NEW T \in SUBSET Nat, T # {}
  PROVE  \E x \in T : \A y \in T : ~ (y < x)
<1> DEFINE R == OpToRel(<, Nat)
<1>1. IsWellFoundedOn(R, Nat)
  BY NatLessThanWellFounded
<1>2. \A x, y \in Nat : <<y, x>> \in R <=> y < x
  BY DEF OpToRel
<1> HIDE DEF R
<1>3. PICK x \in T : \A y \in T : ~ (<<y, x>> \in R)
  BY <1>1, WFMin
<1> QED
  BY <1>2, <1>3

\* What Total adds is what the partial sums come to: there is one function that
\* begins with 0 and grows by each texture's size.
LEMMA TallyIsTotal ==
  ASSUME NEW s \in Seq(Keys), NEW total, Tally(s, total)
  PROVE  total = Total(s)
<1> DEFINE Sums(f) == f = [i \in 0 .. Len(s) |-> IF i = 0 THEN 0 ELSE f[i - 1] + Size[s[i]]]
           f == CHOOSE g : Sums(g)
<1>1. PICK t \in [0 .. Len(s) -> Int] :
        /\ t[0] = 0
        /\ \A i \in 1 .. Len(s) : t[i] = t[i - 1] + Size[s[i]]
        /\ total = t[Len(s)]
  BY DEF Tally
<1>2. Len(s) \in Nat
  OBVIOUS
<1>3. Sums(t)
  <2>1. \A i \in 0 .. Len(s) : t[i] = IF i = 0 THEN 0 ELSE t[i - 1] + Size[s[i]]
    BY <1>1, <1>2
  <2> QED
    BY <2>1
<1>4. Sums(f)
  BY <1>3
<1>5. Total(s) = f[Len(s)]
  BY DEF Total
<1> HIDE DEF f
<1>6. \A i \in 0 .. Len(s) : f[i] = IF i = 0 THEN 0 ELSE f[i - 1] + Size[s[i]]
  BY <1>4
<1>7. \A i \in 0 .. Len(s) : f[i] = t[i]
  <2> DEFINE T == {i \in 0 .. Len(s) : f[i] # t[i]}
  <2> SUFFICES ASSUME T # {} PROVE FALSE
    OBVIOUS
  <2>1. T \in SUBSET Nat
    BY <1>2
  <2> HIDE DEF T
  <2>2. PICK i \in T : \A j \in T : ~ (j < i)
    BY <2>1, LeastOf
  <2> USE DEF T
  <2>3. CASE i = 0
    BY <1>1, <1>2, <1>6, <2>2, <2>3
  <2>4. CASE i # 0
    <3>1. i \in 1 .. Len(s) /\ i - 1 \in 0 .. Len(s) /\ i - 1 < i
      BY <1>2, <2>2, <2>4
    <3>2. f[i - 1] = t[i - 1]
      BY <2>2, <3>1
    <3> QED
      BY <1>1, <1>6, <2>2, <3>1, <3>2
  <2> QED
    BY <2>3, <2>4
<1> QED
  BY <1>1, <1>2, <1>5, <1>7

\* bytes is the sum of the sizes of what is in memory.
THEOREM CountsBytes == Spec => []BytesAreHeld
<1>1. TypeOK /\ MemoryInv => BytesAreHeld
  BY TallyIsTotal DEF TypeOK, MemoryInv, BytesAreHeld
<1> QED
  BY <1>1, Invariance, PTL

(***************************************************************************)
(* Files                                                                   *)
(***************************************************************************)

\* There is one writer, nobody else is at work, and what it is about to rename
\* was written whole.
WriterInv ==
  /\ \A v, w \in started : v = w
  /\ \A w \in Writers : writers[w].pc # "idle" => w \in started
  /\ \A w \in Writers : writers[w].pc = "rename" => parts[writers[w].key] = "whole"

\* No writer is started at the start.
LEMMA InitWriter == Init => WriterInv
  BY DEF Init, WriterInv, FreshWriters, Writer

\* A step of one writer: the others are idle.
LEMMA WriterMoves ==
  ASSUME TypeOK, WriterInv, NEW w \in Writers, NEW place \in WriterPlaces,
         NEW k \in Keys, writers' = [writers EXCEPT ![w] = Writer(place, k)],
         w \in started, place = "rename" => parts'[k] = "whole", UNCHANGED started
  PROVE  WriterInv'
<1>1. \A v \in Writers : writers'[v] = IF v = w THEN Writer(place, k) ELSE writers[v]
  BY DEF TypeOK
<1>2. Writer(place, k).pc = place /\ Writer(place, k).key = k
  BY DEF Writer
<1>3. \A v \in Writers : v # w => writers[v].pc = "idle"
  BY DEF WriterInv
<1> QED
  BY <1>1, <1>2, <1>3 DEF WriterInv

\* Whoever works is the writer that was started.
LEMMA WriterStepKeeps ==
  ASSUME TypeOK, WriterInv, "close" \notin Mishaps, NEW w \in Writers, WriterStep(w)
  PROVE  WriterInv'
<1>1. writers[w].key \in Keys /\ UNCHANGED started
  BY DEF TypeOK, WriterRecord, WriterStep, TakeJob, OpenPart, FillPart, RenamePart, EndJob, process
<1>2. w \in started
  BY DEF WriterInv, WriterStep, TakeJob, OpenPart, FillPart, RenamePart, EndJob
<1>3. CASE TakeJob(w)
  <2>1. Head(pending) \in Keys /\ "open" \in WriterPlaces
    BY <1>3 DEF TakeJob, TypeOK, WriterPlaces
  <2> QED
    BY <1>1, <1>2, <1>3, <2>1, WriterMoves DEF TakeJob
<1>4. CASE OpenPart(w)
  <2>1. PICK place \in {"fill", "counted"} : WriterGoto(w, place)
    BY <1>4 DEF OpenPart
  <2> QED
    BY <1>1, <1>2, <2>1, WriterMoves DEF WriterGoto, WriterPlaces
<1>5. CASE FillPart(w)
  <2>1. CASE WriterGoto(w, "rename") /\ parts' = [parts EXCEPT ![writers[w].key] = "whole"]
    <3>1. parts'[writers[w].key] = "whole"
      BY <1>1, <2>1 DEF TypeOK
    <3> QED
      BY <1>1, <1>2, <2>1, <3>1, WriterMoves DEF WriterGoto, WriterPlaces
  <2>2. CASE WriterGoto(w, "counted")
    BY <1>1, <1>2, <2>2, WriterMoves DEF WriterGoto, WriterPlaces
  <2> QED
    BY <1>5, <2>1, <2>2 DEF FillPart
<1>6. CASE RenamePart(w)
  BY <1>1, <1>2, <1>6, WriterMoves DEF RenamePart, WriterGoto, WriterPlaces
<1>7. CASE EndJob(w)
  BY <1>1, <1>2, <1>7, WriterMoves DEF EndJob, WriterGoto, WriterPlaces
<1> QED
  BY <1>3, <1>4, <1>5, <1>6, <1>7 DEF WriterStep

\* A second SetRoot does not start a second writer.
LEMMA SetRootKeeps ==
  ASSUME WriterInv, SetRoot, UNCHANGED <<writers, parts>>
  PROVE  WriterInv'
<1>1. CASE UNCHANGED started
  BY <1>1 DEF WriterInv
<1>2. CASE started = {} /\ \E w \in Writers : started' = {w}
  BY <1>2 DEF WriterInv
<1> QED
  BY <1>1, <1>2 DEF SetRoot, StartWriter

\* Every step keeps the writer's invariant: SetRoot and the end of the process too.
LEMMA WriterInvStep ==
  ASSUME "close" \notin Mishaps
  PROVE  TypeOK /\ WriterInv /\ [Next]_vars => WriterInv'
<1> SUFFICES ASSUME TypeOK, WriterInv, [Next]_vars PROVE WriterInv'
  OBVIOUS
<1>1. CASE UNCHANGED <<writers, parts, started>>
  BY <1>1 DEF WriterInv
<1>2. CASE Install \/ Boot
  BY <1>2, SetRootKeeps DEF Install, Boot, disk
<1>3. CASE EndProcess
  BY <1>3 DEF EndProcess, WriterInv, FreshWriters, Writer
<1>4. ASSUME NEW c \in Clients, ClientStep(c) PROVE WriterInv'
  BY <1>1, <1>4 DEF ClientStep, disk, process, ReadFile, Pass, Remember, Evict, Remembered,
     Prepare, EndOfTitle, KeepPace, Drain, Flush, Wake, Mark
<1>5. ASSUME NEW c \in Drawers, Draw(c) PROVE WriterInv'
  BY <1>1, <1>5 DEF Draw, disk, process
<1>6. CASE UNCHANGED vars
  BY <1>1, <1>6 DEF vars, disk, process
<1>7. ASSUME NEW w \in Writers, WriterStep(w) PROVE WriterInv'
  BY <1>7, WriterStepKeeps
<1> QED
  BY <1>2, <1>3, <1>4, <1>5, <1>6, <1>7 DEF Next

\* A file changes only where a writer renames a whole .part file.
LEMMA FilesStep ==
  ASSUME TypeOK, WriterInv, [Next]_vars, NEW k \in Keys, files'[k] # files[k]
  PROVE  files'[k] = "whole"
<1>1. CASE UNCHANGED files
  BY <1>1
<1>2. ASSUME NEW w \in Writers, RenamePart(w) PROVE files'[k] = "whole"
  <2>1. writers[w].key \in Keys /\ parts[writers[w].key] = "whole"
    BY <1>2 DEF TypeOK, WriterRecord, WriterInv, RenamePart
  <2>2. files' = [files EXCEPT ![writers[w].key] = "whole"]
    BY <1>2, <2>1 DEF RenamePart
  <2> QED
    BY <2>1, <2>2 DEF TypeOK
<1>3. ASSUME NEW w \in Writers, WriterStep(w) PROVE files'[k] = "whole"
  BY <1>1, <1>2, <1>3 DEF WriterStep, TakeJob, OpenPart, FillPart, EndJob, disk
<1>4. ASSUME NEW c \in Clients, ClientStep(c) PROVE files'[k] = "whole"
  BY <1>1, <1>4 DEF ClientStep, disk, ReadFile, Pass, Remember, Evict, Remembered,
     Prepare, EndOfTitle, KeepPace, Drain, Flush, Wake, Mark
<1>5. ASSUME NEW c \in Drawers, Draw(c) PROVE files'[k] = "whole"
  BY <1>1, <1>5 DEF Draw, disk
<1>6. CASE Install \/ Boot \/ EndProcess \/ UNCHANGED vars
  BY <1>1, <1>6 DEF Install, Boot, EndProcess, vars, disk
<1> QED
  BY <1>3, <1>4, <1>5, <1>6 DEF Next

\* Unless the last of a file is lost as it is closed, a file only ever becomes a
\* whole one, through any failed writes and ends of the process.
THEOREM FilesAreWhole ==
  ASSUME "close" \notin Mishaps
  PROVE  Spec => FilesArriveWhole
<1>1. TypeOK /\ WriterInv /\ [Next]_vars
      => [\A k \in Keys : files'[k] # files[k] => files'[k] = "whole"]_files
  BY FilesStep
<1> QED
  BY <1>1, InitTypes, NextTypes, InitWriter, WriterInvStep, PTL DEF Spec, FilesArriveWhole

(***************************************************************************)
(* What is handed to the writer                                            *)
(***************************************************************************)

\* There is one writer, and writing counts the job it has.
OneWriter ==
  /\ \A v, w \in started : v = w
  /\ \A w \in Writers : writers[w].pc # "idle" => w \in started /\ writing = 1
  /\ (\A w \in Writers : writers[w].pc = "idle") => writing = 0

\* A texture is in the queue, or a writer is about to make its file.
Waits(k) == \E i \in DOMAIN pending : pending[i] = k
Comes(k) ==
  \E w \in Writers : /\ writers[w].key = k
                     /\ \/ writers[w].pc \in {"open", "fill"}
                        \/ writers[w].pc = "rename" /\ parts[k] = "whole"

\* What was handed over and not given up is on its way, or on disk; and it waits
\* to be written again where what is about to take its file's place is not whole.
HandedInv ==
  /\ \A k \in handed : Waits(k) \/ Comes(k) \/ files[k] = "whole"
  /\ \A w \in Writers :
       writers[w].pc = "rename" /\ writers[w].key \in handed
       => parts[writers[w].key] = "whole" \/ Waits(writers[w].key)

\* Nothing is handed over at the start.
LEMMA InitHanded == Init => OneWriter /\ HandedInv
  BY DEF Init, OneWriter, HandedInv, FreshWriters, Writer

\* A step that leaves the writers and the files alone, and takes nothing off the
\* queue.
LEMMA HandedStays ==
  ASSUME HandedInv, UNCHANGED <<writers, files, parts>>,
         \A k \in Keys : Waits(k) => Waits(k)',
         \A k \in handed' : k \in Keys /\ (k \in handed \/ Waits(k)')
  PROVE  HandedInv'
<1>1. \A k : Comes(k) => Comes(k)'
  BY DEF Comes
<1> QED
  BY <1>1 DEF HandedInv

\* The queue with a texture at its end.
LEMMA WaitsLast ==
  ASSUME pending \in Seq(Keys), NEW key \in Keys, pending' = Append(pending, key)
  PROVE  /\ \A k \in Keys : Waits(k) => Waits(k)'
         /\ Waits(key)'
<1>1. /\ Len(pending) \in Nat
      /\ DOMAIN pending = 1 .. Len(pending)
      /\ DOMAIN pending' = 1 .. Len(pending) + 1
      /\ \A i \in 1 .. Len(pending) : pending'[i] = pending[i]
      /\ pending'[Len(pending) + 1] = key
  OBVIOUS
<1> QED
  BY <1>1 DEF Waits

\* The queue without its first.
LEMMA WaitsTail ==
  ASSUME pending \in Seq(Keys), pending # <<>>, pending' = Tail(pending),
         NEW k \in Keys, Waits(k), k # Head(pending)
  PROVE  Waits(k)'
<1>1. /\ Len(pending) \in Nat
      /\ DOMAIN pending = 1 .. Len(pending)
      /\ DOMAIN pending' = 1 .. Len(pending) - 1
      /\ \A i \in 1 .. Len(pending) - 1 : pending'[i] = pending[i + 1]
      /\ Head(pending) = pending[1]
  OBVIOUS
<1>2. PICK i \in DOMAIN pending : pending[i] = k
  BY DEF Waits
<1>3. i - 1 \in DOMAIN pending' /\ pending'[i - 1] = k
  BY <1>1, <1>2
<1> QED
  BY <1>3 DEF Waits

\* A client hands over, or does not.
LEMMA HandOverKeeps ==
  ASSUME TypeOK, HandedInv, NEW c \in Clients, HandOver(c), UNCHANGED <<writers, disk>>
  PROVE  HandedInv'
<1>1. PICK key \in Keys : key = clients[c].key
  BY DEF TypeOK, ClientRecord
<1>2. pending \in Seq(Keys) /\ handed \subseteq Keys
  BY DEF TypeOK
<1>3. CASE pending' = pending /\ handed' = handed
  BY <1>2, <1>3, HandedStays DEF Waits, disk
<1>4. CASE pending' = Append(pending, key) /\ handed' = handed \cup {key}
  <2>1. (\A k \in Keys : Waits(k) => Waits(k)') /\ Waits(key)'
    BY <1>2, <1>4, WaitsLast
  <2> QED
    BY <1>2, <1>4, <2>1, HandedStays DEF disk
<1> QED
  BY <1>1, <1>3, <1>4 DEF HandOver

\* The only one at work is the writer that steps: after it only it may be.
LEMMA WriterAlone ==
  ASSUME TypeOK, OneWriter, NEW w \in started, NEW place \in WriterPlaces, NEW k \in Keys,
         writers' = [writers EXCEPT ![w] = Writer(place, k)], UNCHANGED started,
         writing' = IF place = "idle" THEN 0 ELSE 1
  PROVE  /\ OneWriter'
         /\ w \in Writers
         /\ \A v \in Writers : v # w => writers[v].pc = "idle" /\ writers'[v] = writers[v]
         /\ writers'[w].pc = place /\ writers'[w].key = k
<1>1. w \in Writers
  BY DEF TypeOK
<1>2. \A v \in Writers : writers'[v] = IF v = w THEN Writer(place, k) ELSE writers[v]
  BY <1>1 DEF TypeOK
<1>3. Writer(place, k).pc = place /\ Writer(place, k).key = k
  BY DEF Writer
<1>4. \A v \in Writers : v # w => writers[v].pc = "idle"
  BY <1>1 DEF OneWriter
<1>5. OneWriter'
  <2>1. \A v \in Writers : writers'[v].pc # "idle" => v = w /\ place # "idle"
    BY <1>2, <1>3, <1>4
  <2>2. (\A v \in Writers : writers'[v].pc = "idle") => place = "idle"
    BY <1>1, <1>2, <1>3
  <2> QED
    BY <2>1, <2>2 DEF OneWriter
<1> QED
  BY <1>1, <1>2, <1>3, <1>4, <1>5

\* Every step of a writer keeps both.
LEMMA WriterHands ==
  ASSUME TypeOK, OneWriter, HandedInv, NEW w \in Writers, WriterStep(w)
  PROVE  OneWriter' /\ HandedInv'
<1>1. w \in started /\ UNCHANGED started
  BY DEF OneWriter, WriterStep, TakeJob, OpenPart, FillPart, RenamePart, EndJob, process
<1>2. PICK key \in Keys : key = writers[w].key
  BY DEF TypeOK, WriterRecord
<1>3. pending \in Seq(Keys) /\ handed \subseteq Keys
  BY DEF TypeOK
<1>4. CASE TakeJob(w)
  <2>1. PICK head \in Keys : head = Head(pending)
    BY <1>3, <1>4 DEF TakeJob
  <2>2. writing' = 1
    <3>1. \A v \in Writers : writers[v].pc = "idle"
      BY <1>1, <1>4 DEF OneWriter, TakeJob, TypeOK
    <3> QED
      BY <1>4, <3>1 DEF OneWriter, TakeJob
  <2>3. /\ OneWriter'
        /\ \A v \in Writers : v # w => writers[v].pc = "idle" /\ writers'[v] = writers[v]
        /\ writers'[w].pc = "open" /\ writers'[w].key = head
    BY <1>1, <1>4, <2>1, <2>2, WriterAlone DEF TakeJob, WriterPlaces
  <2>4. UNCHANGED <<handed, files, parts>> /\ writers[w].pc = "idle"
    BY <1>4 DEF TakeJob, disk
  <2>5. \A k \in handed : ~Comes(k)
    BY <2>3, <2>4 DEF Comes
  <2>6. Comes(head)'
    BY <2>3 DEF Comes
  <2>7. \A k \in handed : k # head /\ Waits(k) => Waits(k)'
    BY <1>3, <1>4, <2>1, WaitsTail DEF TakeJob
  <2> QED
    BY <2>3, <2>4, <2>5, <2>6, <2>7 DEF HandedInv
<1>5. ASSUME NEW place \in WriterPlaces \ {"idle"}, WriterGoto(w, place), UNCHANGED writing,
             writers[w].pc # "idle"
      PROVE  /\ OneWriter'
             /\ \A v \in Writers : v # w => writers[v].pc = "idle" /\ writers'[v] = writers[v]
             /\ writers'[w].pc = place /\ writers'[w].key = key
  <2>1. writing' = 1
    BY <1>5 DEF OneWriter
  <2> QED
    BY <1>1, <1>2, <1>5, <2>1, WriterAlone DEF WriterGoto
<1>6. CASE OpenPart(w)
  <2>1. PICK place \in {"fill", "counted"} :
          /\ WriterGoto(w, place)
          /\ place = "fill" => parts' = [parts EXCEPT ![key] = "short"] /\ handed' = handed
          /\ place = "counted" => parts' = parts /\ handed' = handed \ {key}
    BY <1>2, <1>6 DEF OpenPart, GivenUp
  <2>2. /\ OneWriter'
        /\ \A v \in Writers : v # w => writers[v].pc = "idle" /\ writers'[v] = writers[v]
        /\ writers'[w].pc = place /\ writers'[w].key = key
    BY <1>5, <1>6, <2>1 DEF OpenPart, WriterPlaces
  <2>3. writers[w].pc = "open" /\ UNCHANGED <<pending, files>>
    BY <1>6 DEF OpenPart
  <2>4. \A k \in handed : Comes(k) => k = key
    BY <1>2, <2>2, <2>3 DEF Comes
  <2>5. place = "fill" => Comes(key)'
    BY <2>2 DEF Comes
  <2> QED
    BY <2>1, <2>2, <2>3, <2>4, <2>5 DEF HandedInv, Waits
<1>7. CASE FillPart(w)
  <2>1. PICK place \in {"rename", "counted"} :
          /\ WriterGoto(w, place)
          /\ \/ place = "rename" /\ parts' = [parts EXCEPT ![key] = "whole"] /\ handed' = handed
             \/ parts' = parts /\ handed' = handed \ {key}
    BY <1>2, <1>7 DEF FillPart, GivenUp
  <2>2. /\ OneWriter'
        /\ \A v \in Writers : v # w => writers[v].pc = "idle" /\ writers'[v] = writers[v]
        /\ writers'[w].pc = place /\ writers'[w].key = key
    BY <1>5, <1>7, <2>1 DEF FillPart, WriterPlaces
  <2>3. writers[w].pc = "fill" /\ UNCHANGED <<pending, files>>
    BY <1>7 DEF FillPart
  <2>4. \A k \in handed : Comes(k) => k = key
    BY <1>2, <2>2, <2>3 DEF Comes
  <2>5. CASE place = "rename" /\ parts' = [parts EXCEPT ![key] = "whole"] /\ handed' = handed
    <3>1. parts'[key] = "whole"
      BY <2>5 DEF TypeOK
    <3>2. Comes(key)'
      BY <2>2, <2>5, <3>1 DEF Comes
    <3> QED
      BY <2>2, <2>3, <2>4, <2>5, <3>1, <3>2 DEF HandedInv, Waits
  <2>6. CASE parts' = parts /\ handed' = handed \ {key}
    BY <2>2, <2>3, <2>4, <2>6 DEF HandedInv, Waits
  <2> QED
    BY <2>1, <2>5, <2>6
<1>8. CASE RenamePart(w)
  <2>1. /\ OneWriter'
        /\ \A v \in Writers : v # w => writers[v].pc = "idle" /\ writers'[v] = writers[v]
        /\ writers'[w].pc = "counted" /\ writers'[w].key = key
    BY <1>5, <1>8 DEF RenamePart, WriterPlaces
  <2>2. writers[w].pc = "rename" /\ UNCHANGED pending
    BY <1>8 DEF RenamePart
  <2>3. \A k \in handed : Comes(k) => k = key
    BY <1>2, <2>1, <2>2 DEF Comes
  <2>4. CASE files' = files /\ handed' = handed \ {key}
    BY <2>1, <2>2, <2>3, <2>4 DEF HandedInv, Waits
  <2>5. CASE files' = [files EXCEPT ![key] = parts[key]] /\ handed' = handed
    <3>1. \A k \in Keys : files'[k] = IF k = key THEN parts[key] ELSE files[k]
      BY <2>5 DEF TypeOK
    <3>2. key \in handed => parts[key] = "whole" \/ Waits(key)
      BY <1>2, <2>2 DEF HandedInv
    <3> QED
      BY <1>3, <2>1, <2>2, <2>3, <2>5, <3>1, <3>2 DEF HandedInv, Waits
  <2> QED
    BY <1>2, <1>8, <2>4, <2>5 DEF RenamePart, GivenUp
<1>9. CASE EndJob(w)
  <2>1. writing' = 0
    BY <1>9 DEF EndJob, OneWriter
  <2>2. /\ OneWriter'
        /\ \A v \in Writers : v # w => writers[v].pc = "idle" /\ writers'[v] = writers[v]
        /\ writers'[w].pc = "idle" /\ writers'[w].key = key
    BY <1>1, <1>2, <1>9, <2>1, WriterAlone DEF EndJob, WriterGoto, WriterPlaces
  <2>3. writers[w].pc = "counted" /\ UNCHANGED <<pending, handed, files, parts>>
    BY <1>9 DEF EndJob, disk
  <2>4. \A k \in handed : ~Comes(k)
    BY <2>2, <2>3 DEF Comes
  <2> QED
    BY <2>2, <2>3, <2>4 DEF HandedInv, Waits
<1> QED
  BY <1>4, <1>6, <1>7, <1>8, <1>9 DEF WriterStep

\* Every step keeps both.
LEMMA HandedStep == TypeOK /\ OneWriter /\ HandedInv /\ [Next]_vars => OneWriter' /\ HandedInv'
<1> SUFFICES ASSUME TypeOK, OneWriter, HandedInv, [Next]_vars PROVE OneWriter' /\ HandedInv'
  OBVIOUS
<1>1. ASSUME UNCHANGED <<pending, handed, files, parts, writers>> PROVE HandedInv'
  BY <1>1 DEF HandedInv, Waits, Comes
<1>2. ASSUME UNCHANGED <<started, writing, writers>> PROVE OneWriter'
  BY <1>2 DEF OneWriter
<1>3. CASE Install \/ Boot
  <2>1. SetRoot /\ UNCHANGED <<pending, writing, handed, files, parts, writers>>
    BY <1>3 DEF Install, Boot, queue, disk
  <2>2. UNCHANGED started \/ (started = {} /\ \E w \in Writers : started' = {w})
    BY <2>1 DEF SetRoot, StartWriter
  <2> QED
    BY <1>1, <2>1, <2>2 DEF OneWriter
<1>4. CASE EndProcess
  BY <1>4 DEF EndProcess, OneWriter, HandedInv, FreshWriters, Writer
<1>5. ASSUME NEW c \in Clients, ClientStep(c) PROVE OneWriter' /\ HandedInv'
  <2>1. CASE Pass(c) \/ Remembered(c)
    <3>1. HandOver(c) /\ UNCHANGED <<writers, files, parts, marks, started>>
      BY <2>1 DEF Pass, Remembered, disk, process
    <3> QED
      BY <1>2, <3>1, HandOverKeeps DEF HandOver, disk
  <2>2. CASE ~(Pass(c) \/ Remembered(c))
    <3>1. UNCHANGED <<pending, handed, files, parts, writers, started, writing>>
      BY <1>5, <2>2 DEF ClientStep, queue, disk, process, ReadFile, Remember, Evict,
         Prepare, EndOfTitle, KeepPace, Drain, Flush, Wake, Mark
    <3> QED
      BY <1>1, <1>2, <3>1
  <2> QED
    BY <2>1, <2>2
<1>6. ASSUME NEW c \in Drawers, Draw(c) PROVE OneWriter' /\ HandedInv'
  BY <1>1, <1>2, <1>6 DEF Draw, queue, disk, process
<1>7. CASE UNCHANGED vars
  BY <1>1, <1>2, <1>7 DEF vars, queue, disk, process
<1> QED
  BY <1>3, <1>4, <1>5, <1>6, <1>7, WriterHands DEF Next

\* Only Flush that found nothing left goes on to the marker.
LEMMA OnlyFlushMarks ==
  ASSUME TypeOK, [Next]_vars, NEW c \in Clients,
         clients[c].pc = "flush", clients'[c].pc = "mark", rooted
  PROVE  pending = <<>> /\ writing = 0 /\ UNCHANGED <<handed, files>>
<1>1. ASSUME NEW d \in Clients, NEW place, NewClient(place).pc = "mark" PROVE place = "mark"
  BY <1>1 DEF NewClient, Client
<1>2. ASSUME NEW d \in Clients, NEW client, Become(d, client)
      PROVE  d = c /\ client.pc = "mark"
  <2>1. clients'[c] = IF d = c THEN client ELSE clients[c]
    BY <1>2 DEF Become, TypeOK
  <2> QED
    BY <2>1
<1>3. ~Install
  BY <1>1, <1>2 DEF Install, Clients
<1>4. ~Boot
  BY <1>1, <1>2 DEF Boot, Clients
<1>5. ~EndProcess
  BY DEF EndProcess, FreshClients, NewClient, Client
<1>6. \A d \in Drawers : ~Draw(d)
  <2> SUFFICES ASSUME NEW d \in Drawers, Draw(d) PROVE FALSE
    OBVIOUS
  <2>1. d \in Clients /\ clients[d].pc = "idle" /\ \E client : Become(d, client)
    BY DEF Clients, Draw, Find
  <2> QED
    BY <1>2, <2>1
<1>7. \A w \in Writers : ~WriterStep(w)
  BY DEF WriterStep, TakeJob, OpenPart, FillPart, RenamePart, EndJob
<1>8. ASSUME NEW d \in Clients, ClientStep(d)
      PROVE  d = c /\ Flush(c)
  <2>1. UNCHANGED clients \/ \E client : Become(d, client)
    BY <1>8 DEF ClientStep, ReadFile, Pass, Remember, Evict, Remembered, HandOver, Goto,
       Prepare, Find, EndOfTitle, KeepPace, Drain, Flush, Wake, Mark
  <2>2. d = c
    BY <1>2, <2>1
  <2> QED
    BY <1>8, <2>2 DEF ClientStep, ReadFile, Pass, Remember, Evict, Remembered,
       Prepare, EndOfTitle, KeepPace, Drain, Wake, Mark
<1>9. Flush(c)
  BY <1>3, <1>4, <1>5, <1>6, <1>7, <1>8 DEF Next, vars
<1>10. ~Flushed => Goto(c, "rest")
  BY <1>9 DEF Flush
<1>11. Flushed
  BY <1>2, <1>10 DEF Goto, Client
<1> QED
  BY <1>9, <1>11 DEF Flush, Flushed, queue, disk

\* With the queue empty and nothing counted, what was handed over is on disk.
LEMMA FlushedStep ==
  ASSUME TypeOK, OneWriter, HandedInv, [Next]_vars, NEW c \in Clients,
         clients[c].pc = "flush", clients'[c].pc = "mark", rooted
  PROVE  \A k \in handed : files[k] = "whole"
<1>1. pending = <<>> /\ writing = 0
  BY OnlyFlushMarks
<1>2. \A w \in Writers : writers[w].pc = "idle"
  BY <1>1 DEF OneWriter
<1>3. \A k \in handed : ~Waits(k) /\ ~Comes(k)
  BY <1>1, <1>2 DEF Waits, Comes
<1> QED
  BY <1>3 DEF HandedInv

\* When the installer's Flush returns, every texture handed to the writer, and
\* not given up, is on disk: whatever failed, was lost or ended before.
THEOREM FlushIsKept == Spec => FlushedIsOnDisk
<1>1. TypeOK /\ OneWriter /\ HandedInv /\ [Next]_vars
      => [\A c \in Clients :
            clients[c].pc = "flush" /\ clients'[c].pc = "mark" /\ rooted
            => \A k \in handed : files[k] = "whole"]_clients
  BY FlushedStep
<1> QED
  BY <1>1, InitTypes, NextTypes, InitHanded, HandedStep, PTL DEF Spec, FlushedIsOnDisk

=============================================================================
