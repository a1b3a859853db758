# Xerenge: models, checks and proofs

Xerenge runs an Xbox 360 title (Burnout Revenge) as a native program: the
title's code is recompiled, and the code in `src/rexglue/src` stands in for the
console around it - its graphics, its network services, its settings and menus.
This directory holds TLA+ models of the parts of that code that are hard to
test, the TLC runs that check them on small instances, and proofs checked by
TLAPS for every size. All sources are named relative to the repository's
`src/`; "server.cpp" is `rexglue/src/ealobby/server.cpp`.

## The system and its parts

| Part | Source | State | Operations | What makes it correct |
|---|---|---|---|---|
| Worker pool | `plume_renderer/plume_parallel.h` | the posted job, its ticket and count, two mutexes, two condition variables, a thread local | `ParallelFor`, the workers' loop, the destructor | every index runs once, while the call is in progress; the call returns; no lost wakeup; no self-deadlock |
| Lobby server: loop, login, games | `ealobby/server.cpp`, `server.h` | connections by descriptor, games by number, sockets | poll loop, accept, receive, send, 30 requests | connections and games agree on membership and host; a persona has one live connection; who has gone is cleared |
| Lobby server: federation | `ealobby/server.cpp` 1384-1698 | links, remote players (virtual descriptors), remote games, held records | `xhlo`, `xjoi`, `xfwd`, `xlea`, beacons | a player's server and its game's server agree, or come to |
| Lobby server: NAT rendezvous | `ealobby/server.cpp` 1700-1790 | mappings with the time they were seen | ask, answer, expiry | two players are told of each other's current mapping |
| Wire format | `ealobby/aries.cpp` | bytes received | encode, take a message, fields | what is encoded is taken again, however it is cut up |
| Locker, news | `ealobby/locker.cpp`, `news.cpp` | clips and `.meta` files, login keys | put, get, list, delete | a clip and its description go together; only one's own is written |
| ETC2 cache | `plume_renderer/plume_etc2_cache.cpp` | entries, order, bytes, files to write, files | find, store, flush, wait, the writer | a find returns what was stored; the memory bound; files are whole; what was flushed is on disk |
| Present path | `plume_renderer/plume_graphics_system.cpp` | snapshot ring, present and video requests, frame in flight, vblank clock | snapshot, frame end, present, capture, start and stop of the workers | a frame is shown from its own snapshots; the title is not held up for good; workers stop |
| Command ring | same | read and write offsets, registers, interrupts, progress | register writes, ring execution, interrupt dispatch, vblank | packets run in order, once; progress never runs ahead of the ring |
| Swapchain, frame generation | `plume_swapchain.cpp`, `plume_framegen.cpp`, `plume_interp.cpp` | frame slots, fences, history | acquire, encode, generate, present | a slot is not reused while the GPU reads it; generated frames go between the two they are made of |
| Game timing | `game_timing.cpp`, `movie_frames.cpp` | clocks, frame pairs | per frame updates | time neither jumps nor runs backwards |
| Custom music | `custom_music.cpp` | the files listed, the page on show, the listing to come, what is chosen, the title's table and what is kept of it | look, list in the background, take over, turn, switch, play | a song shown is the one played; the title's songs come back; the page is within the files |
| Draw encoding, shaders, post-processing | `plume_draw.cpp` and others | GPU resources and caches | - | GPU code, out of the reach of these models |
| Settings, menus, mods, title hooks, installers, platform glue | various | files, hooks | - | sequential, or defined by a binary that is not in the repository |

How they interact. The title's thread writes the command ring and, at the end
of a frame, hands it to the present path, which waits for the frame in flight
and lets the present worker encode it; encoding spreads its independent pieces
over the worker pool and looks textures up in the ETC2 cache, whose writer is a
thread of its own. The lobby server is a thread of the same program (or a
program of its own) that the title's lobby client reaches over sockets; servers
of a LAN link to each other over sockets too.

The behaviours that are hard: threads against each other in the worker pool,
the present path, the command ring and the cache; one thread but many peers, any of which may be
gone at any point, in the server; and two servers' views of one player in the
federation. `PROJECT.json` lists every hazard at its line.

## Modules

| Module | Models |
|---|---|
| `ParallelJob` | what `ParallelFor` promises: calls one at a time, each index once, return when none is left |
| `WorkerPool` | the pool itself, at the grain of its mutexes, condition variables and atomics; its properties; the inductive invariant `IInv` |
| `MCWorkerPool` | instances of `WorkerPool` for TLC |
| `WorkerPoolProofs` | the theorems about `WorkerPool` and their proofs |
| `LobbyServer` | one lobby server: poll loop, sockets, login, games; its properties |
| `PlayerLists` | erasing from a list of players, entries of a map; `LobbyServer` and `Federation` extend it |
| `MCLobbyServer` | instances of `LobbyServer` for TLC |
| `FoldLemmas` | lemmas on folds over finite sets of numbers, on runs of steps, and on erasing from a list |
| `LobbyServerProofs` | the theorems about `LobbyServer`, whatever the mishaps and without any, and their proofs |
| `Etc2Cache` | the cache of re-encoded textures, its writer thread, the drawing, the installer and the preparer that use it; its properties |
| `MCEtc2Cache` | instances of `Etc2Cache` for TLC |
| `Etc2CacheProofs` | the theorems about `Etc2Cache` and their proofs |
| `SnapshotQueue` | what the ring of draw snapshots promises: a queue that loses its oldest entry when full, and a present that leaves no finished frame behind |
| `SnapshotRing` | the ring: its next place, its count, its overwriting, what a present takes and what it holds back |
| `PresentPipeline` | extends it with the title's thread, the present worker, the frame in flight and Shutdown; its properties |
| `MCPresentPipeline` | an instance of `PresentPipeline` for TLC |
| `PresentPipelineProofs` | the theorems about `PresentPipeline` and their proofs |
| `Federation` | several lobby servers, their clients, and the links over which a client plays on another server; its properties |
| `MCFederation` | instances of `Federation` for TLC |
| `FederationProofs` | the theorems about `Federation` and their proofs: what one server has of its players, then what the two ends of a link have of each other, and what players are told |
| `CommandRing` | the title's command ring, the walk through its packets, the vsync worker, interrupts and progress; its properties |
| `MCCommandRing` | an instance of `CommandRing` for TLC |
| `CommandRingProofs` | the theorems about `CommandRing` and their proofs |
| `CustomMusic` | the music folder in place of the title's songs: pages, listings, the title's table, what is played; its properties |
| `MCCustomMusic` | an instance of `CustomMusic` for TLC |
| `CustomMusicProofs` | the theorems about `CustomMusic` and their proofs |

Definitions named `Action_Something` after another one are its mutants: the
same operation with a plausible mistake in it, each of which makes a run of one
property fail. They are part of no specification.

### WorkerPool

A thread's place in the code is `pc`; its locals are `n` (count), `gen`
(generation), `fn`, `tk` (the ticket as last loaded) and `seen`. `lock` and
`callMutex` are the two mutexes. A step is what happens between two points at
which another thread may come in between: a mutex taken or released, an atomic
read or written. Whatever is done under `mutex_` in one go and touches no atomic
others look at is one step; the posting of a job is two (`PostJob` up to the
ticket, `PostTicket`), because workers read `ticket_` without the mutex. A wait
on a condition variable is its predicate (`KeepWaiting`, `StayIdle`) and, with
the mutex still held, its sleep (`Sleep`): a notification sent by someone who
does not hold the mutex can come in between. Waits may also return for no reason
(`SpuriousWake`). The worst job is modelled: each `fn(i)` calls `ParallelFor`
itself (`Run`), inline or, were `InsideJob()` not set, by way of `call_mutex_`.

Left out: calls with one index or no workers, and spurious failures of the weak
compare-and-swap, which change nothing; memory orders weaker than sequential
consistency (what a job's index reads of the job is ordered by the ticket's
acquire and release); the thread names and ids.

Two history variables: `ran`, the indices of the posted job that were run, and
`age`, how many jobs were posted since a worker took the one it still works on.
`age` carries the one assumption about the size of `generation_` (`StallBound`):
no worker sleeps through 2^32 jobs in the middle of one. Without it a worker
could hold a ticket of the same number as a later job.

### LobbyServer

The server is one thread; what is nondeterministic is the clients. `net` is the
operating system's socket table: a descriptor is free, connected, at its end
(`fin`: the client closed, sends still succeed) or reset (sends fail).
`conns` and `games` are `connections_` and `games_`. `phase`, `todo` and
`closed` are where `Run` is in its pass: accepting, serving the polled
descriptors in ascending order (`connections_` is a `std::map`), clearing those
that closed, pinging. Each request handler is one action - the thread runs it
without interruption - written as a composition of functions of the world
(connections, games, sockets) in the order of the code's calls, so that a send
that fails in the middle has its effect on the calls after it: `Send` closes the
descriptor and leaves the entry, as `Flush` does, and `LeaveGame` removes a
player by the descriptor, or nobody when there is none any more.

A client may go at any time between actions (`Hangup`), and between the reading
of its request and the answer (`Answering`). The constant `Mishaps` says which
of the two kinds of accident a run allows, because each of them breaks
agreement (see the findings): `"reset"`, sends that fail, and `"late kick"`, a
player kicked in the same pass in which its hang-up was read.

Left out: what messages say beyond membership, host, size and lock; search masks
and the ranked and unranked kinds of game, which only choose among games;
partial sends that wait for POLLOUT; the federation and the rendezvous.
Personas have an XUID each, which the login requires to take over an earlier
connection. The title logs in before it asks about games, once per connection.

### Etc2Cache

`entries`, `order`, `bytes`, `pending` and `writing` are the fields of `State`;
`rooted` is that `dir` is not empty and `started` the writers that
`writer_started` stands for (a set, so that a second one could be). `files` and
`parts` are the `.etc2` and `.part` files, `marks` the two marker files; they
are what is left when the process ends (`EndProcess`) and starts again.
`clients` are the threads that look textures up, each with its place in
`TranscodeBcToEtc2`: the drawing thread, the installer (`xerenge_prepare_etc2`)
and the preparer (`PrepareEtc2AtFirstStart`); `writers` are those in `Writer`.

A texture is a key, which stands for its blocks; of contents it is kept whether
they are whole, cut short, of another version, or none. A locked section is one
step, except that `Remember`'s loop is a step per turn with the mutex (`lock`)
held over it. Reading a file (`ReadFile`) is not under the mutex, nor are the
writer's four steps between taking a job and counting it down: open, fill,
close, rename. A wait that polls (`Flush`, `WaitWritten`) is the look, under the
mutex, and a sleep (`nap`, `doze`, `rest`) from which `Wake` comes back.

`Mishaps` says what may go wrong in a run: `"write"`, an open, a write or a
rename that fails and reports it; `"close"`, data lost in the stream's
destructor, which the test of `out` before it cannot see; `"root"`, the
directory cannot be made; `"end"`, the process ends at any point.

Left out: the hash that makes the key (equal textures have equal keys and
different ones different keys), inflating and searching the title's files, of
which one holds one texture, the counts for the log, a second process on the
same directory, and the environment's switches, which leave all or none of it.
The drawing threads are a set, as are the theorems about them; runs have one, as
the code does.

### SnapshotRing and PresentPipeline

`ring`, `next` and `count` are `draw_ring_`, `draw_ring_next_` and
`draw_ring_count_`; everything `SnapshotRing` does is done under
`snapshot_mutex_`, so an operation is a step. An entry is a draw or the end of a
frame, with the number of the frame, by which the properties know what was shown.
`Take` is `PresentClearColorOnUiThread`'s taking of the ring: up to the last end
of a frame; when there is none, nothing, twice in a row at most (`HoldBack`).

`PresentPipeline` adds the places of the title's thread (`title`), the present
worker (`worker`) and Shutdown (`quit`), and the three flags `running`,
`pending`, `inFlight`. `TitleStep` is the calls of `PresentGuestFrame`,
one lock at a time. Where a predicate is evaluated under a mutex
that the notifier does not take, evaluation and sleep are two steps (`dozing`,
then `asleep`), so that a notification can fall between them, as
`StopPresentWorker`'s does; where the notifier holds the mutex they are one. What
the worker does with a frame is `Take`, then `Show` or `Lose`, `land` (the flag,
under `present_flight_mutex_`) and `tell`. `Quirks` says what the title and the
system may do: frames slower than the two seconds the title waits (`GiveUp`),
presents without a Swap, a movie's frames, and a surface that fails (`Lose`).

`Lose` is `ClearAndPresent` returning before it presents: the window is gone, the
swap chain could not be made anew in its size, or gives no image. What was taken
from the ring is lost then, and nobody is told. `IsReady()` does not change with
it: `ready_` is set by the set-up and cleared by `Shutdown` alone, on purpose
(plume_swapchain.cpp 797-799, 822-823), so `ready` is chosen once, in `Init`. The
histories `shown` and `lost` are the last frames whose ends came either way, and
`Presented` the later of them. `missed` is only for a frame the title did not hand
over, so that a lost frame is no excuse: those after it must still come to the
screen or be lost themselves. A frame counts by its end. Parts of it shown or
lost before, and a picture left as it was because a frame draws nothing, are not
told apart.

Left out: pacing to the vblank and the frame interval, which delay a step and
choose nothing; what encoding a frame does; the video worker's frames, which are
their own one-slot mailbox on the same pattern; a second thread of the title.
Nothing of the title runs any more when Shutdown stops the worker: who calls it
and when is decided outside the repository.

### Federation

A server's own loop is `LobbyServer`'s; here a request is handled in one step at
the server it reaches, and the steps are the ends of a link taking one message
(`ServeLinks`). `conns` has the clients by name and those who came over a link as
`<<link, id>>` - the code's virtual descriptors. `links` says who opened a link
to whom and how its two ends are; `wire` is what is on its way, each direction
in order. `known` is `remote_games_`, filled by `Beacon` and emptied by `Expire`
at any time (the four seconds are not counted). `held` is `held_games_`, sent at
any later moment (`SendHeld`). `Break` cuts a link with what is on its way; each
end finds out by itself (`Notice`) and `OnLinkClosed` leaves for everyone on it.
The history `owed` is what a client's server passed on and was not answered.

Left out: the descriptors of links, the hello a link begins with (`xhlo`),
addresses, and what a client does after it was refused. The runs have the game
on one server only (`Hosts`): a remote player's search that finds nothing may
be passed on to a third server, which nothing in the repository describes (a
hazard that no property covers; `PROJECT.json` lists it, at server.cpp:904).

### CommandRing

The title puts packets and rings the doorbell (`Kick`, `StartTitle`); its own
thread walks them under `ring_mutex_`, one packet or one end of a list a step
(`Walk`), and leaves the mutex with the read pointer at the write pointer,
reported (`Drained`). `stack` is `ExecutePm4Buffer`'s recursion: where each list
is and where it ends; the innermost is at work. A packet is its operation, its
length, one value and, for an indirect buffer, its list; `Predicated`, `Fails` and
`Leaf` are the cases of the code's switch. A type-0 packet that its buffer's end
cuts short (`"cut"`) has stored what there was of it when it fails; the other
failures change nothing. `Ringed` are the packets the title may
put, `Packets` those and what is in their lists, at any depth. `Meaning` is what
a list of packets means without a ring, indexes or steps: a function of how often
lists may still be nested, of the state before, and of the list. The histories
`kicked` and `puts` are the batches that the doorbell rang for and the number of
packets put. The vsync worker takes the mutex each
tick, takes the mask of interrupts off, calls the handler for each CPU with the
mutex free (`Handler` waits for it, since the handler writes registers), and at a
vblank publishes progress (`MarkVblank`).

Left out: the register file but for one register, COND_WRITE and REG_RMW, fences
that carry `frame_counter_`, CP_RB_RPTR_WR, `PublishSecondaryPosition` and the
environment's switches. The title is assumed to ring at the end of a packet and
never to fill the ring: the ring is the title's to keep.

### CustomMusic

`music` is all that `g_mutex` guards, with the title's table, which is written
under it: `files`, `page`, `tracks`, `strings`, `next`, `nextListed`, `listing`,
`custom`, `applied` are the globals of like names, `saved` is `g_saved_table`
with its count, and `mounted` stands for the mount, XMP's path resolver and the
pad's filter, which are set together. An operation holds the mutex throughout and
is one action, a composition of functions of the record (`Scan`, `Apply`,
`Relisted`, `Turned`...) in the order of the code's calls. `EnsureApplied` is
called from four hooks and at each frame of the menus: it may come at any time.
`PadFilter` lets go of the mutex between its test (`PadLooks`) and its writing
of `g_turn` (`PadAsks`), and the listing thread takes it only to hand over
(`Listed`). What the thread hands over is any set of files that has those that were
in the folder all the time (`always`) and none that never were (`ever`).

A song is its file, which stands for its names; `Sorted` is the order of the
listing. `Played` is the resolver, with songs numbered from 1 for the title's 0.

Left out: the tags and their cache, the letters of the title's font, the artist
and the album, `recursive_scan` and where the folder is. The title's table is taken to
be at one place: the soundtrack's object, once set, points at the data that was
read before it.

## Runs

| Run | Instance | Shows |
|---|---|---|
| `pool` | 2 callers, 2 workers, jobs of 2 indices, `generation_` modulo 2 | `ClaimsAreLive` (a claimed index belongs to the call in progress and was not run), `ReturnsComplete`, `NoSelfWait`, `IInv` (with the types); `PostedJobEnds`, `DestructorEnds`; `ImplementsParallelJob` |
| `lobby_graceful` | 3 descriptors, 4 connections, 2 personas, 2 games of 2, no mishaps | `MembersAgree`, `HostLeads`, `LockedGameClosed` |
| `lobby_resets` | 2 descriptors, 3 connections of every role, 2 personas, 2 games, all mishaps | `GamesListMembers`, `OneLivePersona`, `HangupsAreSwept` |
| `lobby_kick`, `lobby_reuse` | 2 descriptors, 3 connections, 1 game | the findings below |
| `etc2_memory` | 3 textures, one larger than the memory; files short or missing at first; the installer and drawing; 2 starts; `"write"`, `"root"`, `"end"` | `AnswersAreWhole`, `OrderNamesEntries`, `BytesAreHeld`, `MemoryBounded`, `FilesArriveWhole` |
| `etc2_writes` | 2 textures, memory for both; installer, preparer, drawing; 1 start; `"write"`, `"close"`, `"root"` | `PreparingEnds`, `FlushedIsOnDisk`, `HandedIsWritten`, each as far as writes succeed |
| `present` | a ring of 6, 4 frames of at most one draw each and its end; all quirks, so that any frame taken may be lost with the window; a Shutdown at any point | `OneFrameInFlight`, `AheadByOne`, `PartsAreOverdue`; `ImplementsQueue`; `TitleLetGo`, `EndedIsShown`, `StopEnds` |
| `fed` | two servers, two clients of one and the host at the other, two links that may break, four requests, hang-ups and breaks | `TypeOK`, `MembersAgree`, `EndsAgree`, `PlayersAreTold`, `PlayersAreAnswered`, `GoneLinksAreLeft` |
| `fed_answers` | the same, one link, no breaks | the finding below |
| `ring` | a ring of 8 words, 3 packets of 6 kinds, among them buffers in buffers, a walk that fails, and one that fails on a packet cut short | `CarriedOut`, `WaitsEnd` |
| `music` | 3 files, a table of 2, a folder that changes twice | `ShownIsPlayed`, `GamesSongsKept`, `PageInFiles`; `FolderIsShown` |

Types are proved for every size (`TypeCorrect`, below), so only `pool` (in `IInv`)
and `fed` check them too.

Bounds. Two callers are needed
for one to wait on `call_mutex_`, two workers for one to be behind the other, a
modulus of 2 for `generation_` to wrap; the proofs cover the rest. Three descriptors are enough for a host, a
player and a third who joins, is kicked or takes a free descriptor; one
connection more than descriptors for one to be used again; two games to move
between. With failing sends, two descriptors already give every order of
failure, sweep and reuse between two connections. `MaxGames` and `MaxConns` bound counters only.
In `Etc2Cache` the sizes 1, 2 and 4 with a limit of 3 give memory that fits
two, one or none of the textures; `PendingBound` 0 instead of 64 makes the
preparer wait after every texture; two starts are enough for what one leaves to
matter to the next; `MaxPending` keeps the drawing thread from adding to a
queue already that long (the code has no such bound) and bounds nothing else.
`w2` of `etc2_memory` is a second thread that could run `Writer`: one of the two
does. `etc2_writes` has memory for everything: where writes fail and entries are
evicted as well, a drawing thread that re-encodes and hands over the same
textures again and again can keep the preparer from ever seeing the queue empty,
which takes a storage that fails for as long as the game is drawn.
In `present` a ring of 6 fills with 4 frames and their ends, so that the oldest
is overwritten; `MaxFrames` and `MaxDraws` bound counters only, and four frames
make presents held back twice, given up, and called twice for one Swap. In `fed`,
`MaxEvents` 4 is enough to join, be told, leave or be kicked and join again,
with a break at any place; two links, for one to be opened anew after the first
broke; two players, for one to see the other come and go. In `ring` the packets
are 2 to 4 words, so that three of them pass the end of the ring and one may
straddle it; nesting of five is one more than is carried out. In `music` three files
and two places make two pages, the last of them not full; two changes of the folder
empty and fill it, before the first look or after it, and under a listing.
Deadlock is not checked where the system comes to rest: a bounded server that was
stopped, a pool or a pipeline that was shut down. The ETC2 cache, the command
ring and the music folder never rest, and there it is.

Fairness. For `PostedJobEnds` a caller is scheduled whenever it can run, and
gets `mutex_` if it keeps asking (strong fairness, as other threads take it in
between). Of a worker it is assumed only that it does not stop between claiming
an index and counting it, or with `mutex_` held: the code's comment says that
a worker that is descheduled must not delay the call, and the run shows that it
does not unless it holds an index. The destructor needs every worker to run:
`DestructorEnds` assumes `WorkerFairness`. Callers that wait for `call_mutex_` are given no fairness;
nothing is claimed of them. In `LobbyServer` the loop's own steps are fair, and
reading the end of a connection is strongly fair, since poll reports it at every
pass until it is read; clients are not fair.

In `Etc2Cache` every client and every writer is strongly fair: it is scheduled,
and gets the mutex if it keeps asking, since no one holds it for good. Drawing,
the installation, the start and the end of the process are not fair.

In `PresentPipeline` the worker and Shutdown are scheduled (weak fairness), and
the title gets the mutex of the requests if it keeps asking (strong fairness);
drawing, ending a frame, stopping, the two seconds and wakings for nothing are not
relied upon. `StopEnds` leaves out the one case the code has, a notification that
falls between the worker's predicate and its sleep (`unheard`): the join then
waits until something else wakes the worker. The model reaches that case; it is
a hazard which no property covers, as nothing in the repository says that it
cannot be. Of the window nothing is assumed either: it may fail every frame. In `CommandRing` both threads
are scheduled and each gets `ring_mutex_` in its turn (strong fairness); what the
title puts, and whether it goes on to wait, is up to it. In `CustomMusic` the listing
thread is scheduled, and for `FolderIsShown` Song Manager is opened again and again,
as the property is about what its visits show; nothing else is fair. `Federation` states no
fairness: what must hold in the end is stated of its settled states
(`AllQuiet`: nothing on a link, nothing held), which every schedule that delivers
what is sent comes to.

## Findings

The first two are in server.cpp and leave a descriptor in `Game::players` whose
player is gone. Such a game never becomes empty, so it stays listed, and when
the number is given to a new connection, that one is sent the game's records.

- `lobby_kick`: `gset` with `KICK` for a player whose hang-up was read earlier
  in the same pass. `Receive` has set its descriptor to -1, so `LeaveGame`
  removes nobody (1335) but clears its game; the sweep, which puts the
  descriptor back first (448), then finds no game to leave.
  `glea` comes to the same when its answer, sent first (994), fails.
- `lobby_reuse`: a ping or a push to a player fails, `Flush` closes the
  descriptor, and the entry stays until the next pass; a client accepted at the
  start of that pass gets the same number and replaces the entry (501) without
  `LeaveGame`.

In the federation:

- `fed_answers`: a client that leaves (`glea`, `gdel`) a game on another server
  is never answered. Its server passes the request on and forgets the link in
  the same handler (649-652); the host's answer comes back over the link, whose
  client's end gives answers only to those who still play through it (1691).

Seen by reading or in trials, and no run:

- `WaitWritten(0)` looks at `pending` and not at `writing`, so `prepared.v1` may be
  there before the last texture is (plume_draw.cpp 9917). If the process ends in
  between, the preparer, "done once - a file in the cache says so" (9873), does not
  run again.
- A failed write is given up (plume_etc2_cache.cpp 119, 126), and `Flush`, which
  "waits until every file handed to the writer is on disk" (plume_etc2_cache.h
  41), returns all the same; the installer then leaves its marker, and what was
  not written is re-encoded as it is drawn. `FlushedIsOnDisk` is stated without
  such textures.
- With hosts on both servers, two servers that each know a stale game of the other
  pass one `gqwk` back and forth until the announcements expire, and its
  answers are lost (`HandlePeer` runs a remote player's request as a client's
  own); `PlayersAreAnswered` and `EndsAgree` fail then. `fed` keeps to one host.
- A failing indirect buffer ends the walk around it (plume_graphics_system.cpp
  4072), though the comment before it (4062-4065) speaks of that as what used to be;
  `Meaning` says what the code does.
- The title "can never get more than a frame ahead of what is on screen"
  (plume_graphics_system.cpp 2047) holds of frames that were shown or lost: with the window
  gone, frames are taken from the ring and never shown, and the title goes on.
  After the two seconds it goes on as well, without handing its frame over (2076).
  `AheadByOne` is stated with both.
- `PublishGuestGpuProgress` says "Off unless asked for" (plume_graphics_system.cpp
  3071), and publishes unless `XERENGE_NO_GPU_PROGRESS` is set (3072); `WaitsEnd`
  is of what the code does, without the switch.
- `MarkVblank` may publish the count of a batch whose doorbell was not rung yet,
  if the title counts before it rings (3062-3064 has it that the commands have
  been carried out by then).
- Where the music folder has no songs at the first look, `Scan` ends before it mounts
  the folder and sets XMP's path resolver (custom_music.cpp 535), and is never done
  again. Songs that come later are listed and can be chosen, and the title's own are
  played under their names. `ShownIsPlayed` speaks of the other case (`mounted`).
- A visit to Song Manager shows the listing made since the visit before it (655);
  `custom_music.h` (11-12) has the folder looked at again. The comment in `Rescan`
  itself (650-652) says what the code does.
- The music folder emptying puts the title's songs back without saying so in the
  configuration (custom_music.cpp 672): when its songs return, the title's stay
  chosen, and the folder's are again after a restart.
- `PadFilter` may leave a turn asked for as Song Manager closes (477); the next LT
  there turns a page and does not switch.

Also: the installer's marker is `prepared-1`
(installer_jni.cpp 134), the preparer looks for `prepared.v1`
(plume_draw.cpp 9881), so that what the installer prepared is gone through again
at the first start, which is for "where the installer did not do it" (9870).
`Marker` keeps the two names apart.

## Proofs

`WorkerPoolProofs` proves, for any finite or infinite sets of callers and
workers, any numbers of indices and any number of generations above one, under
the assumptions named in `WorkerPool`:

- `TypeCorrect`: `Spec => []TypeOK`.
- `Invariance`: `Spec => []IInv`, and from it `NoDeadJob` (`ClaimsAreLive`),
  `Complete` (`ReturnsComplete`) and `NestedRunsInline` (`NoSelfWait`).
- `Refinement`: `Spec => ImplementsParallelJob`.

The argument. `done = n` alone does not say that every index was run: it has to
be the number of indices claimed and counted, each of them once. `Accounts`
says so (`Counted`, the indices below the ticket that no thread holds, has
`done` elements, and `ran` is what was claimed and is past `fn`), and needs
`Claims` (no two threads hold the same index; a holder's job is the posted one).
That a worker with an old job never gets an index is `Copies`: the posted
generation is its own plus its `age`, modulo the number of generations, and
below a full turn only `age = 0` makes them equal. `NothingLeft` says that
between two jobs nobody holds an index, which makes posting a job, with
`done_` reset, safe. `Mutexes`, `Places` and `PostedJob` tie the threads' places
to who holds what. Each action is a lemma of its own; a step of the pool is a
step of `ParallelJob` or leaves it unchanged.

`Etc2CacheProofs` proves, for any textures, sizes, limit, title, drawing threads
and writers, any number of starts and, except for `FilesAreWhole`, all mishaps:

- `TypeCorrect`: `Spec => []TypeOK`.
- `WholeAnswers`, `NamesEntries`, `KeepsToLimit`: `AnswersAreWhole`,
  `OrderNamesEntries` and `MemoryBounded` always hold.
- `CountsBytes`: `BytesAreHeld` always holds.
- `FlushIsKept`: `Spec => FlushedIsOnDisk`.
- `FilesAreWhole`: `Spec => FilesArriveWhole`, where `"close"` is not among the mishaps.

The argument. `ThreadsInv` says that what a client holds is whole once it has
it, that it has it before it remembers it, and that a client in `Remember`'s
loop holds the mutex; so the loop is alone with `entries`, `order` and `bytes`.
`MemoryInv` says that each texture in memory is in `order` once and that `bytes`
is the sum of their sizes: `Tally` says that partial sums exist that begin with 0 and grow
by each texture's size, and one more texture, or the first one less, gives the
partial sums of the new list from those of the old. When nothing is left the
sum is 0, so the loop ends within the limit even when one texture is larger.
`WriterInv` says that there is one writer at most and that the `.part` file it
is about to rename is whole: two writers could rename each other's.
`TallyIsTotal` says that there is one function of partial sums, by the least
place where two would differ, and so that `Total` computes what `Tally` says.
`HandedInv` says that a texture handed over and not given up is in the queue,
with the writer, or on disk - and in the queue again where the `.part` file about
to be renamed is not whole - and `OneWriter` that `writing` is 0 only with the
writer idle; `Flush` looks at both.

`PresentPipelineProofs` proves, for every size of the ring, number of frames and
draws, and all quirks:

- `TypeCorrect`: `Spec => []TypeOK`.
- `OneInFlight`: `Spec => []OneFrameInFlight`.
- `RingIsQueue`: `Spec => ImplementsQueue`.

The argument. Lemmas on `%` reduce the ring's places to sums below twice its size
(the prover's solver has no theory of a modulus by a variable). `RingInv` ties
`count`, `next` and what is stored: the places from `Start` on hold entries, never
one moved from, so a step of the ring maps to `Push` - onto the end, without the
first when full - or to `Take`. `FlightInv` ties the title's place to the flags:
a frame that waits or is with the worker is in flight, so whoever sees
`inFlight` down and is about to hand over finds neither.

Also, where a frame's draws and its end fit the ring
(`MaxDraws < Size`; the code's `kDrawRingSize` is 16384,
plume_graphics_system.h:246, and TLC finds both properties' invariants broken
with a ring as small as a frame):

- `NeverFurtherAhead`: `Spec => []AheadByOne`.
- `PartsOnlyOverdue`: `Spec => PartsAreOverdue`.

The argument. `EndsInOrder`: if any end is in the ring, the last frame's is, with
as many entries after it as were drawn since; so what overwrites it would have
to be a whole ring of one frame's draws. `AheadInv`: the last frame that ended
is presented (`Presented`: shown, or lost with the window), on its way or in the
ring, and the one before it presented or on its way, unless one was not handed
over. What was taken last is later than anything presented, so `Show` and `Lose`
both bring `Presented` up to it. `OverdueInv`: the presents held back
in a row are no more than the frames handed over since the last Swap, unless an
end is in the ring, in which case a present takes up to it and no part.

`LobbyServerProofs` proves, for any finite set of descriptors, any clients, games
and sizes, and all mishaps:

- `TypeCorrect`: `Spec => []TypeOK`.
- `PlayersAreListed`: `Spec => []GamesListMembers`.
- `OneLive`: `Spec => []OneLivePersona`.
- `LockedStaysClosed`: `Spec => LockedGameClosed`.

And without mishaps (`Mishaps = {}`):

- `GamesAndConnectionsAgree`: `Spec => []MembersAgree`.
- `TheHostLeads`: `Spec => []HostLeads`.

The argument. A handler is a chain of functions of the world, so each function
has a lemma on what it does (`SendDoes`, `LeaveGameDoes`, `SeatDoes`) and one on
what it keeps, and an action's lemma follows its chain. `Well` is what every
world keeps, whatever is sent in vain: who says it is in a game is listed there
(`Listed`), no game is without players (`Played`), who logged in has a name. The converse
does not hold: a game left by a handle of -1 keeps the stale descriptor (the first
finding). `OneLivePersona` needs that a login shuts the earlier connection before
it takes the name, and that what a handler does meanwhile brings nobody back
(`Quiet`). Without mishaps a connection in a game is closed only between the
reading of its end and the sweep of the same pass, so that `LeaveGame` always finds
it by its descriptor and `Accept` never gets that descriptor; then the lists and
the connections agree both ways (`Tidy`). Erasing from a list is a fold,
of which the library has no theorem that the provers can use; `FoldLemmas` shows
its properties of the least set of places that would not have them.

`FederationProofs` proves, for any servers, any finite set of clients, any number
of games, links and announcements, whatever breaks:

- `TypeCorrect`: `Spec => []TypeOK`.
- `MembersAreMembers`: `Spec => []MembersAgree`.
- `ClosedLinksAreLeft`: `Spec => []GoneLinksAreLeft`.

The argument. As in `LobbyServer` a handler is a chain of functions of the world, and
each step of the specification is one of few kinds of change: a request carried
out (`Ran`), a player taken or delivered (`Taken`, `Delivered`), a player lost
(`Loses`), an end closed and left by all (`Leaves`). Every kind keeps `Well`: the links
and what is on the wire are typed (`Linked`), the lists and the connections agree
(`Agree`), and nobody is on a link whose end is closed here (`LeftLinks`). The last needs
that a server opens no second link where it has one that it can send on and uses none that it has seen
end, that a player who comes by a link comes while the end is still up, and
that the sweep of `OnLinkClosed` reaches all of them: it is a fold over a set, so
`FoldLemmas` shows of every partial result what the whole one has to have
(`Ended`, `Freed`). That the names of players who come by a link are no clients' is
`NamesAssumption`.

Also, where all who make games are on one server (`OneHost`, as
in the runs, because nobody looks after a player passed on to a third server, the
hazard at server.cpp:904):

- `EndsMeet`: `Spec => []EndsAgree`.
- `AnswersCome`: `Spec => []PlayersAreAnswered`.

and, wherever the games are:

- `PlayersKnow`: `Spec => []PlayersAreTold`.

The argument for the first two. `Plays` says of an id whether there will be a player
of that id at the host once all that is on its way there has been handled: the last message that
settles it (`Settles`: `xjoi`, `xlea`, and a leaving passed on) says so, and if there is none,
whether there is one now. `Matched`: at the other end of a link that is not cut there is
then just such a client. A message put on the link settles for its client what that
client's server settles for itself in the same step; a message handled takes from the
front what it does to the players (`PlaysTail`); a link that is cut promises nothing
more. For that, a client plays through one link only and no other client of its
server has its id (`IdsAssumption`), a player who came by a link is passed on by no
other (`PlayersStay`, from `OneHost`: its host has heard of no games elsewhere), and
what comes with `xjoi` is a joining (`Joint`). On a quiet link nothing is on its way, and
`Plays` is what the ends have.

Whoever plays through a link that is not cut has on its way all that it is owed
(`Served`): the request is on its way out and nothing after it makes of the player
another or none, or the answer is on its way back (`Awaits`). When the host takes the
request, `Plays` says that it has the player to run it for; that every path through
the handlers sends that player an answer of that kind is `Serves`, which each
handler's lemma concludes. When the answer arrives, it goes to the one client who
plays through the link under that id. A client on a cut link is owed its answers
until its server notices; no state in which nothing is left to be done has such a
client, by `LeftLinks`.

`PlayersKnow` needs no matching of the ends, only that whoever is sent something
while it plays gets it. `Latest` says what the client at the other end of a link will
have been told last when all that is on its way back has arrived; `Knows` says of
a player that this is a given record, or that its link is cut or a message on its way
there takes its place from it, so that nothing is promised. `InDoubt` are those in a
game who do not know its record as it is now, and whose game is not held back to
be sent later. Each function of the chain has a lemma on whom it leaves in doubt
(`AllTold(w, D)`: nobody but those in `D`): a change of a game's players or its host leaves
its players, sending the game to them leaves nobody, holding it back leaves nobody
either. `Sure` is that no action leaves anyone in doubt. A client plays only through links
of its own server's (`Own`), so one at a closed end has left it, and on a quiet link
nothing is on its way: what will have been told has been. A player passed on to a third
server has no game at its seat, so of what that one sends `PlayersAreTold`
says nothing (the same hazard).

`CommandRingProofs` proves, for every size of the ring, any packets of any depth,
and any number of them:

- `TypeCorrect`: `Spec => []TypeOK`.
- `CarriesOut`: `Spec => []CarriedOut`.

The argument. `Holds` says that from one place of the ring up to another there
are a list's packets, each of them as many words on as those before it take
together, all below the ring's size; a packet put there overwrites none of them, because
it fits what is left (`HoldsMore`), and a reader at the first place finds the first
packet and, past its words, the others (`HoldsFirst`). `LeadsTo` says what is left
of a walk: for each frame of the stack the packets it has still to carry out, and
the states that the walk comes to as the frames get done, each by `Meaning` of the
one on top of it; the last is what the batches kicked so far come to. A packet
carried out, passed, entered or failed, and a list done, leave the last state
as it was. `Meaning` and `Total` are functions of a list's length and of
the nesting; that there are such functions is `GoesOn`, that there is one
`RunsAgree`, both by the least index. Between walks the read pointer is at the
write pointer and the ring holds the batch to come, so the worker's walks
find nothing (`Idle`).

`CustomMusicProofs` proves, for any files and order of them, any songs of the title's,
any size of the table and any number of changes:

- `TypeCorrect`: `Spec => []TypeOK`.
- `PagesInFiles`: `Spec => []PageInFiles`.
- `GamesSongsAreKept`: `Spec => []GamesSongsKept`.
- `ChosenSongs`: `Spec => []ChosenHasSongs`, and `ChosenAreSaved`:
  `Spec => []ChosenIsSaved`, which no run checks.
- `ShownArePlayed`: `Spec => []ShownIsPlayed`.

The argument. `MusicInv` is of the record alone, and each function of it has a
lemma that it keeps it. `Paged`: the page begins within the files, its songs are those there,
and the names kept are none or the page's. `Kept`: until the table was first written it is the
title's, and what was saved then is. `Named`: once it was, the table has the page's
songs if they are chosen and the title's otherwise. A switch breaks `Named` until its
`Apply`, and so does a page until it is put in the table, so `ApplyKeeps` needs only
the other two. That a page fits the table, that one below `PageCount` has songs,
and that turning stays below it, are arithmetic of quotients and remainders
(`Pages`, `PageSongs`). `ShownIsPlayed` is of the table that `EnsureApplied`
leaves, which the title's reads call first: its names are the page's by number,
and a number within the page is its own remainder.

Only model-checked: liveness (`PostedJobEnds`, `DestructorEnds`,
`HangupsAreSwept`, `PreparingEnds`, `HandedIsWritten`, `TitleLetGo`,
`EndedIsShown`, `StopEnds`, `WaitsEnd`, `FolderIsShown`), which is out of the prover's reach.

## Not modelled

Most of the repository's lines: third-party code, tables and shaders; the legacy
runtime (`XerengeRuntime`), which the current one replaces; the encoding of
draws, post-processing and frame generation, which compute with a GPU whose
memory the models do not have; hooks into a title that is not in the
repository; settings, menus and platform glue, sequential code that reads and
writes files. The models are of the parts with threads, peers, failures and
rings, and cover those parts' lines, a few per cent of the whole; no
faithful model would cover a third of it.

Of what could be modelled, these are left: the rendezvous of the lobby server
(1700-1790), the locker and the news, game timing, the swapchain's
frame slots, and the video worker. In the modelled parts, each section above
says what it leaves out; `PROJECT.json` has the same per component.

## Plan

What would come next, in this order; each with its runs and mutants, the parts
marked * with proofs.

1. `Locker`, `NatRendezvous`: who meets whom there, and when both are told*.
2. `SwapchainFrames`.

## Running

    tlc -config WorkerPool.cfg MCWorkerPool
    tlapm WorkerPoolProofs.tla

and likewise for the other configurations; `PROJECT.json` lists them.
