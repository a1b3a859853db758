----------------------------- MODULE Etc2Cache -----------------------------
(***************************************************************************)
(* rex::plume_renderer::Etc2Cache (src/rexglue/src/plume_renderer/         *)
(* plume_etc2_cache.cpp) and those who use it (plume_draw.cpp): the        *)
(* textures a phone's GPU cannot read, re-encoded once and kept, in memory *)
(* up to a limit and in files a writer thread makes. The renderer looks    *)
(* textures up as it draws (the drawers); the installer prepares all of    *)
(* the title's ahead; where it did not, a thread of the game does at the   *)
(* first start (the preparer). The process may be ended at any point, and  *)
(* starts again with what is in the files.                                 *)
(*                                                                         *)
(* The mutex is explicit where it is held over a loop (lock, in Remember); *)
(* elsewhere a locked section is one step. A texture is its key, which     *)
(* stands for its blocks: what matters of its contents is whether they are *)
(* whole. One file of the title holds one texture.                         *)
(***************************************************************************)
EXTENDS Integers, Sequences, FiniteSets

CONSTANTS
  Keys,          \* the textures
  Size,          \* the bytes each takes as ETC2
  MemoryLimit,   \* kMemoryLimit
  Title,         \* the title's textures, in the order of its files
  PendingBound,  \* the writes the preparer lets wait (64)
  Drawers,       \* the threads that draw
  Ahead,         \* those that prepare ahead: "installer", "preparer" or both
  Writers,       \* the threads that could run Writer
  NoThread,      \* nobody: an unlocked mutex
  Mishaps,       \* what may go wrong: see below
  FilesAtFirst,  \* what a file may be at the very first start
  MaxSessions,   \* bound: starts of the program
  MaxPending     \* bound: a drawer leaves the cache alone while so many wait

\* "write": a file cannot be opened, written or renamed, and the code is told;
\* "close": the last of the data is lost as the stream closes, and it is not;
\* "root": the directory cannot be made; "end": the process is ended.
ASSUME MishapsAssumption == Mishaps \subseteq {"write", "close", "root", "end"}
ASSUME KeysAssumption == Keys # {}
ASSUME SizesAssumption ==
  /\ Size \in [Keys -> Nat]
  /\ MemoryLimit \in Nat
  /\ Title \in Seq(Keys)
  /\ PendingBound \in Nat
  /\ MaxSessions \in Nat
  /\ MaxPending \in Nat
ASSUME ThreadsAssumption ==
  /\ Ahead \subseteq {"installer", "preparer"}
  /\ Drawers \cap {"installer", "preparer"} = {}
  /\ NoThread \notin Drawers \cup Ahead

Clients == Drawers \cup Ahead

\* What a file, or the memory, holds of a texture: nothing, a part, all of it,
\* or what an earlier version of the encoder made.
Contents == {"none", "short", "whole", "old"}
ASSUME FilesAssumption == FilesAtFirst \subseteq Contents

VARIABLES
  entries,    \* State::entries, as contents by key
  order,      \* State::order, oldest first
  bytes,      \* State::bytes
  lock,       \* who holds State::mutex over a step
  rooted,     \* State::dir is not empty
  started,    \* the writers there are: writer_started
  pending,    \* State::pending
  writing,    \* State::writing
  writers,    \* where each writer is and the key of its job
  clients,    \* where each client is
  booted,     \* InitializeShaderStorage was called in this session
  files,      \* the .etc2 files by key
  parts,      \* the .part files
  marks,      \* the marker files: "prepared.v1" and "prepared-1"
  session,    \* the starts of the program so far
  handed      \* history: the keys handed to the writer in this session and not given up

memory == <<entries, order, bytes, lock>>
queue == <<pending, writing, handed>>
disk == <<files, parts, marks>>
process == <<rooted, started, booted, session>>
vars == <<memory, queue, disk, process, writers, clients>>

\* The marker each of those who prepare ahead leaves: the code of the two does
\* not name the same file.
Marker == [c \in Ahead |-> IF c = "installer" THEN "prepared-1" ELSE "prepared.v1"]

\* Whether a client keeps in memory what it finds or makes: !g_transcode_serial.
Remembers(c) == c # "preparer"

\* A client's place, its texture, what it holds of it, whether that is to be
\* written, and how far it is in the title.
Client(place, k, entry, made, at) ==
  [pc |-> place, key |-> k, entry |-> entry, made |-> made, at |-> at]
\* A writer's place and the key of its job.
Writer(place, k) == [pc |-> place, key |-> k]

NoKey == CHOOSE k \in Keys : TRUE
NewClient(place) == Client(place, NoKey, "none", FALSE, 1)

\* The memory of a process that starts.
FreshClients == [c \in Clients |-> NewClient(IF c \in Drawers THEN "idle" ELSE "out")]
FreshWriters == [w \in Writers |-> Writer("idle", NoKey)]

Init ==
  /\ entries = [k \in Keys |-> "none"] /\ order = <<>> /\ bytes = 0
  /\ lock = NoThread
  /\ rooted = FALSE /\ started = {} /\ booted = FALSE
  /\ pending = <<>> /\ writing = 0 /\ handed = {}
  /\ writers = FreshWriters
  /\ clients = FreshClients
  /\ files \in [Keys -> FilesAtFirst]
  /\ parts = [k \in Keys |-> "none"]
  /\ marks = {}
  /\ session = 1

Free == lock = NoThread

Become(c, client) == clients' = [clients EXCEPT ![c] = client]
Goto(c, place) ==
  Become(c, Client(place, clients[c].key, clients[c].entry, clients[c].made, clients[c].at))
WriterGoto(w, place) == writers' = [writers EXCEPT ![w] = Writer(place, writers[w].key)]

-----------------------------------------------------------------------------
(* SetRoot *)

\* Mutant of StartWriter: every SetRoot starts a writer.
StartWriter_Again ==
  \E w \in Writers \ started : started' = started \cup {w}

StartWriter ==
  IF started = {} THEN \E w \in Writers : started' = {w}
                  ELSE UNCHANGED started

\* Where the files go; without a directory, memory only.
SetRoot ==
  \/ /\ rooted' = TRUE
     /\ StartWriter
  \/ /\ "root" \in Mishaps
     /\ UNCHANGED <<rooted, started>>

-----------------------------------------------------------------------------
(* Find, Store and what is around them: TranscodeBcToEtc2 *)

\* Mutant of Readable: the sizes are not compared.
Readable_Short == {"short", "whole"}

\* What ReadFile takes: it refuses another version, and data that end early.
Readable == {"whole"}

\* Where a client goes on once it has its texture.
Answered(c) ==
  IF c \in Drawers THEN "idle" ELSE IF c = "preparer" THEN "wait" ELSE "next"

\* A client with the texture re-encoded: a miss.
Transcoded(k, at) == Client("keep", k, "whole", TRUE, at)

\* Find in memory: under the mutex, which also gives it the directory.
Find(c, k) ==
  LET at == IF c \in Ahead THEN clients[c].at + 1 ELSE clients[c].at
  IN Become(c, IF entries[k] # "none" THEN Client(Answered(c), k, entries[k], FALSE, at)
               ELSE IF rooted THEN Client("read", k, "none", FALSE, at)
               ELSE Transcoded(k, at))

\* Find on disk, without the mutex.
ReadFile(c) ==
  LET k == clients[c].key
      at == clients[c].at
  IN /\ clients[c].pc = "read"
     /\ Become(c, IF files[k] \in Readable THEN Client("keep", k, files[k], FALSE, at)
                  ELSE Transcoded(k, at))
     /\ UNCHANGED <<memory, queue, disk, process, writers>>

\* The rest of Store: what was made goes to the writer. And the answer.
HandOver(c) ==
  LET client == clients[c]
      written == client.made /\ rooted
  IN /\ pending' = IF written THEN Append(pending, client.key) ELSE pending
     /\ handed' = IF written THEN handed \cup {client.key} ELSE handed
     /\ Goto(c, Answered(c))
     /\ UNCHANGED writing

\* Without remembering, one section.
Pass(c) ==
  /\ clients[c].pc = "keep"
  /\ ~Remembers(c)
  /\ Free
  /\ HandOver(c)
  /\ UNCHANGED <<memory, disk, process, writers>>

\* Remember up to its loop: an entry another client put there meanwhile stays.
Remember(c) ==
  LET client == clients[c]
      new == entries[client.key] = "none"
  IN /\ client.pc = "keep"
     /\ Remembers(c)
     /\ Free
     /\ lock' = c
     /\ entries' = IF new THEN [entries EXCEPT ![client.key] = client.entry] ELSE entries
     /\ order' = IF new THEN Append(order, client.key) ELSE order
     /\ bytes' = IF new THEN bytes + Size[client.key] ELSE bytes
     /\ Goto(c, "evict")
     /\ UNCHANGED <<queue, disk, process, writers>>

\* Mutant of TooMuch: the newest entry is kept whatever its size.
TooMuch_KeepsNewest == bytes > MemoryLimit /\ Len(order) > 1

TooMuch == bytes > MemoryLimit /\ order # <<>>

\* Mutant of Evict: the entry itself is left.
Evict_KeepsEntry(c) ==
  /\ clients[c].pc = "evict"
  /\ TooMuch
  /\ order' = Tail(order)
  /\ bytes' = bytes - Size[Head(order)]
  /\ UNCHANGED <<entries, lock, queue, disk, process, writers, clients>>

\* One turn of Remember's loop.
Evict(c) ==
  LET oldest == Head(order)
  IN /\ clients[c].pc = "evict"
     /\ TooMuch
     /\ order' = Tail(order)
     /\ IF entries[oldest] # "none"
        THEN /\ bytes' = bytes - Size[oldest]
             /\ entries' = [entries EXCEPT ![oldest] = "none"]
        ELSE UNCHANGED <<bytes, entries>>
     /\ UNCHANGED <<lock, queue, disk, process, writers, clients>>

\* The loop's end, the hand-over and the mutex's release.
Remembered(c) ==
  /\ clients[c].pc = "evict"
  /\ ~TooMuch
  /\ lock' = NoThread
  /\ HandOver(c)
  /\ UNCHANGED <<entries, order, bytes, disk, process, writers>>

\* A texture is drawn that the GPU has not got.
Draw(c) ==
  /\ c \in Drawers
  /\ booted
  /\ clients[c].pc = "idle"
  /\ Free
  /\ Len(pending) < MaxPending
  /\ \E k \in Keys : Find(c, k)
  /\ UNCHANGED <<memory, queue, disk, process, writers>>

-----------------------------------------------------------------------------
(* Writer *)

\* Mutant of TakeJob: a job taken is not counted in writing.
TakeJob_Uncounted(w) ==
  /\ w \in started
  /\ writers[w].pc = "idle"
  /\ Free
  /\ pending # <<>>
  /\ writers' = [writers EXCEPT ![w] = Writer("open", Head(pending))]
  /\ pending' = Tail(pending)
  /\ UNCHANGED <<memory, writing, handed, disk, process, clients>>

\* Mutant of TakeJob: it takes all there is and writes the first.
TakeJob_TakesAll(w) ==
  /\ w \in started
  /\ writers[w].pc = "idle"
  /\ Free
  /\ pending # <<>>
  /\ writers' = [writers EXCEPT ![w] = Writer("open", Head(pending))]
  /\ pending' = <<>>
  /\ writing' = writing + 1
  /\ UNCHANGED <<memory, handed, disk, process, clients>>

\* The notification is sent with the mutex held: the wait is its predicate.
TakeJob(w) ==
  /\ w \in started
  /\ writers[w].pc = "idle"
  /\ Free
  /\ pending # <<>>
  /\ writers' = [writers EXCEPT ![w] = Writer("open", Head(pending))]
  /\ pending' = Tail(pending)
  /\ writing' = writing + 1
  /\ UNCHANGED <<memory, handed, disk, process, clients>>

\* A write that came to nothing, reported or not: the texture is not tried again.
GivenUp(k) == handed' = handed \ {k}

\* The .part file, cut to nothing as it is opened.
OpenPart(w) ==
  /\ writers[w].pc = "open"
  /\ \/ /\ parts' = [parts EXCEPT ![writers[w].key] = "short"]
        /\ WriterGoto(w, "fill")
        /\ UNCHANGED handed
     \/ /\ "write" \in Mishaps
        /\ WriterGoto(w, "counted")
        /\ GivenUp(writers[w].key)
        /\ UNCHANGED parts
  /\ UNCHANGED <<memory, pending, writing, files, marks, process, clients>>

\* Its contents; a stream that failed leaves it short, and only a failure
\* before the stream is closed is noticed.
FillPart(w) ==
  /\ writers[w].pc = "fill"
  /\ \/ /\ parts' = [parts EXCEPT ![writers[w].key] = "whole"]
        /\ WriterGoto(w, "rename")
        /\ UNCHANGED handed
     \/ /\ "write" \in Mishaps
        /\ WriterGoto(w, "counted")
        /\ GivenUp(writers[w].key)
        /\ UNCHANGED parts
     \/ /\ "close" \in Mishaps
        /\ WriterGoto(w, "rename")
        /\ GivenUp(writers[w].key)
        /\ UNCHANGED parts
  /\ UNCHANGED <<memory, pending, writing, files, marks, process, clients>>

\* The .part file takes the place of the file, if there is one to rename.
RenamePart(w) ==
  LET k == writers[w].key
  IN /\ writers[w].pc = "rename"
     /\ \/ /\ parts[k] # "none"
           /\ files' = [files EXCEPT ![k] = parts[k]]
           /\ parts' = [parts EXCEPT ![k] = "none"]
           /\ UNCHANGED handed
        \/ /\ "write" \in Mishaps \/ parts[k] = "none"
           /\ GivenUp(k)
           /\ UNCHANGED <<files, parts>>
     /\ WriterGoto(w, "counted")
     /\ UNCHANGED <<memory, pending, writing, marks, process, clients>>

\* Done or given up: --writing, under the mutex.
EndJob(w) ==
  /\ writers[w].pc = "counted"
  /\ Free
  /\ writing' = writing - 1
  /\ WriterGoto(w, "idle")
  /\ UNCHANGED <<memory, pending, handed, disk, process, clients>>

-----------------------------------------------------------------------------
(* Preparing ahead: xerenge_prepare_etc2 and PrepareEtc2AtFirstStart *)

\* The installer, before the game: its own marker says it is done.
Install ==
  /\ "installer" \in Ahead
  /\ ~booted
  /\ clients["installer"].pc = "out"
  /\ Marker["installer"] \notin marks
  /\ Free
  /\ SetRoot
  /\ Become("installer", NewClient("next"))
  /\ UNCHANGED <<memory, queue, disk, booted, session, writers>>

\* The game's InitializeShaderStorage: the directory, and the preparer unless
\* its marker is there.
Boot ==
  /\ ~booted
  /\ "installer" \in Ahead => clients["installer"].pc \in {"out", "done"}
  /\ Free
  /\ SetRoot
  /\ booted' = TRUE
  /\ IF "preparer" \in Ahead
     THEN Become("preparer", NewClient(IF Marker["preparer"] \in marks THEN "spared" ELSE "next"))
     ELSE UNCHANGED clients
  /\ UNCHANGED <<memory, queue, disk, session, writers>>

\* The next texture of the title is looked up, as any other.
Prepare(c) ==
  /\ c \in Ahead
  /\ clients[c].pc = "next" /\ clients[c].at <= Len(Title)
  /\ Free
  /\ Find(c, Title[clients[c].at])
  /\ UNCHANGED <<memory, queue, disk, process, writers>>

\* The title's files are through.
EndOfTitle(c) ==
  /\ c \in Ahead
  /\ clients[c].pc = "next" /\ clients[c].at > Len(Title)
  /\ Goto(c, IF c = "preparer" THEN "drain" ELSE "flush")
  /\ UNCHANGED <<memory, queue, disk, process, writers>>

\* WaitWritten(n): what it looks at, every 20 ms.
Written(n) == Len(pending) <= n \/ ~rooted

\* Mutant of Flushed: files being written are not waited for.
Flushed_PendingOnly == pending = <<>> \/ ~rooted

\* What Flush looks at, every 20 ms.
Flushed == (pending = <<>> /\ writing = 0) \/ ~rooted

\* A poll that finds nothing is followed by a sleep, and another poll.
Wake(c) ==
  /\ \/ clients[c].pc = "nap" /\ Goto(c, "wait")
     \/ clients[c].pc = "doze" /\ Goto(c, "drain")
     \/ clients[c].pc = "rest" /\ Goto(c, "flush")
  /\ UNCHANGED <<memory, queue, disk, process, writers>>

\* The preparer after each file, as fast as the storage writes, and at the end.
KeepPace(c) ==
  /\ clients[c].pc = "wait"
  /\ Free
  /\ Goto(c, IF Written(PendingBound) THEN "next" ELSE "nap")
  /\ UNCHANGED <<memory, queue, disk, process, writers>>

Drain(c) ==
  /\ clients[c].pc = "drain"
  /\ Free
  /\ Goto(c, IF Written(0) THEN "mark" ELSE "doze")
  /\ UNCHANGED <<memory, queue, disk, process, writers>>

\* Mutant of Flush: bytes is not reset.
Flush_KeepsBytes(c) ==
  /\ clients[c].pc = "flush"
  /\ Free
  /\ IF Flushed
     THEN /\ entries' = [k \in Keys |-> "none"] /\ order' = <<>>
          /\ Goto(c, "mark")
     ELSE /\ Goto(c, "rest")
          /\ UNCHANGED <<entries, order>>
  /\ UNCHANGED <<bytes, lock, queue, disk, process, writers>>

\* The installer's Flush lets go of the memory.
Flush(c) ==
  /\ clients[c].pc = "flush"
  /\ Free
  /\ IF Flushed
     THEN /\ entries' = [k \in Keys |-> "none"] /\ order' = <<>> /\ bytes' = 0
          /\ Goto(c, "mark")
     ELSE /\ Goto(c, "rest")
          /\ UNCHANGED <<entries, order, bytes>>
  /\ UNCHANGED <<lock, queue, disk, process, writers>>

\* The marker; without the directory it is not made.
Mark(c) ==
  /\ c \in Ahead
  /\ clients[c].pc = "mark"
  /\ \/ rooted /\ marks' = marks \cup {Marker[c]}
     \/ (~rooted \/ "write" \in Mishaps) /\ UNCHANGED marks
  /\ Goto(c, "done")
  /\ UNCHANGED <<memory, queue, files, parts, process, writers>>

-----------------------------------------------------------------------------

\* The process ends wherever it is, and is started again.
EndProcess ==
  /\ "end" \in Mishaps
  /\ session < MaxSessions
  /\ session' = session + 1
  /\ entries' = [k \in Keys |-> "none"] /\ order' = <<>> /\ bytes' = 0
  /\ lock' = NoThread
  /\ rooted' = FALSE /\ started' = {} /\ booted' = FALSE
  /\ pending' = <<>> /\ writing' = 0 /\ handed' = {}
  /\ writers' = FreshWriters
  /\ clients' = FreshClients
  /\ UNCHANGED disk

\* A client at work on a texture, or waiting for the writer.
ClientStep(c) ==
  \/ ReadFile(c) \/ Pass(c) \/ Remember(c) \/ Evict(c) \/ Remembered(c)
  \/ Prepare(c) \/ EndOfTitle(c)
  \/ KeepPace(c) \/ Drain(c) \/ Flush(c) \/ Wake(c) \/ Mark(c)

WriterStep(w) ==
  TakeJob(w) \/ OpenPart(w) \/ FillPart(w) \/ RenamePart(w) \/ EndJob(w)

Next ==
  \/ Install \/ Boot \/ EndProcess
  \/ \E c \in Drawers : Draw(c)
  \/ \E c \in Clients : ClientStep(c)
  \/ \E w \in Writers : WriterStep(w)

\* The system runs every thread, and a thread that keeps asking for the mutex
\* gets it; what is drawn, and when the process ends, is up to others.
Fairness ==
  /\ \A c \in Clients : SF_vars(ClientStep(c))
  /\ \A w \in Writers : SF_vars(WriterStep(w))

Spec == Init /\ [][Next]_vars
FairSpec == Spec /\ Fairness
-----------------------------------------------------------------------------
(* Types *)

ClientPlaces == {"out", "idle", "next", "read", "keep", "evict", "wait", "nap", "drain",
                 "doze", "flush", "rest", "mark", "done", "spared"}
WriterPlaces == {"idle", "open", "fill", "rename", "counted"}

ClientRecord == [pc : ClientPlaces, key : Keys, entry : Contents, made : BOOLEAN,
                 at : Nat \ {0}]
WriterRecord == [pc : WriterPlaces, key : Keys]

\* The variables have their types; a client is only at places its code has.
TypeOK ==
  /\ entries \in [Keys -> Contents]
  /\ order \in Seq(Keys)
  /\ bytes \in Int
  /\ lock \in Clients \cup {NoThread}
  /\ rooted \in BOOLEAN /\ booted \in BOOLEAN
  /\ started \subseteq Writers
  /\ pending \in Seq(Keys)
  /\ writing \in Int
  /\ writers \in [Writers -> WriterRecord]
  /\ clients \in [Clients -> ClientRecord]
  /\ files \in [Keys -> Contents] /\ parts \in [Keys -> Contents]
  /\ marks \subseteq {"prepared-1", "prepared.v1"}
  /\ session \in Nat
  /\ handed \subseteq Keys

-----------------------------------------------------------------------------
(* Safety *)

\* Nobody gets, and the memory does not hold, a texture that is not whole or is
\* of another version, whatever a failed write or the end of an earlier process
\* left in the files (ReadFile).
AnswersAreWhole ==
  /\ \A k \in Keys : entries[k] \in {"none", "whole"}
  /\ \A c \in Clients : clients[c].entry \in {"none", "whole"}

\* order names each texture held in memory once, and no other: a texture two
\* threads looked up at once is neither lost to the eviction nor evicted twice.
OrderNamesEntries ==
  /\ \A k \in Keys : entries[k] # "none" <=> \E i \in DOMAIN order : order[i] = k
  /\ \A i, j \in DOMAIN order : order[i] = order[j] => i = j

\* The sizes of a sequence of textures, added.
Total(s) ==
  LET total[i \in 0 .. Len(s)] == IF i = 0 THEN 0 ELSE total[i - 1] + Size[s[i]]
  IN total[Len(s)]

\* bytes is what the textures in memory take, through every order of finds,
\* stores, evictions and flushes: an unsigned count that were too small would
\* wrap below zero and empty the memory.
BytesAreHeld == bytes = Total(order)

\* Once the mutex is released the memory keeps to its limit, also when a single
\* texture is larger.
MemoryBounded == lock = NoThread => bytes <= MemoryLimit

\* A file changes only into a whole one: the .part files keep what is being
\* written, or was when the process ended, from those who read.
FilesArriveWhole == [][\A k \in Keys : files'[k] # files[k] => files'[k] = "whole"]_files

\* What Flush promises (plume_etc2_cache.h:41), as far as writes succeed: when it
\* returns, every texture handed to the writer, and not given up, is on disk.
FlushedIsOnDisk ==
  [][\A c \in Clients :
       clients[c].pc = "flush" /\ clients'[c].pc = "mark" /\ rooted
       => \A k \in handed : files[k] = "whole"]_clients

-----------------------------------------------------------------------------
(* Liveness *)

\* Preparing ahead ends, whether writes fail or not: WaitWritten and Flush, which
\* poll, return in the end.
PreparingEnds ==
  \A c \in Ahead : clients[c].pc = "next" ~> clients[c].pc = "done"

\* What was handed to the writer is on disk in the end, or its write failed, or
\* the process was ended before.
HandedIsWritten ==
  \A k \in Keys, n \in 1 .. MaxSessions :
     session = n /\ (\E i \in DOMAIN pending : pending[i] = k)
     ~> files[k] = "whole" \/ k \notin handed \/ session # n

=============================================================================
