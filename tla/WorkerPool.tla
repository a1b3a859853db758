----------------------------- MODULE WorkerPool -----------------------------
(***************************************************************************)
(* rex::plume_renderer::WorkerPool (src/rexglue/src/plume_renderer/        *)
(* plume_parallel.h): the threads a frame's independent pieces of work are *)
(* spread over. A caller of ParallelFor posts a job and works on it        *)
(* itself; workers that wake in time help; an index is claimed by a        *)
(* compare-and-swap on ticket_, whose upper half is the job's number.      *)
(*                                                                         *)
(* mutex_ is explicit (lock), so a step between a condition variable's     *)
(* predicate and its sleep is there to be interleaved with; everything     *)
(* done on an atomic is a step of its own. A call with one index, or on a  *)
(* pool without workers, runs inline and touches nothing here, and so does *)
(* a spurious failure of the weak compare-and-swap: both are stuttering.   *)
(***************************************************************************)
EXTENDS Naturals, FiniteSets

CONSTANTS
  Callers,    \* the threads that call ParallelFor
  Workers,    \* the pool's own threads, workers_
  Counts,     \* the numbers of indices of the calls that share their work
  GenMod,     \* generation_ counts modulo this (2^32)
  NoThread    \* nobody: an unlocked mutex, a null job_

ASSUME ThreadsAssumption ==
  /\ Callers \cap Workers = {}
  /\ NoThread \notin Callers \cup Workers
ASSUME CountsAssumption == Counts \subseteq Nat \ {0, 1}
ASSUME GenModAssumption == GenMod \in Nat \ {0, 1}

Threads == Callers \cup Workers

VARIABLES
  callMutex,   \* who holds call_mutex_
  lock,        \* who holds mutex_
  generation,  \* generation_
  job,         \* job_: the caller whose fn it points to
  count,       \* count_
  ticket,      \* ticket_: [gen, idx], its upper and lower half
  done,        \* done_
  stopping,    \* stopping_
  pc,          \* where each thread is
  inside,      \* InsideJob(), thread local
  n,           \* `count` as each thread holds it
  gen,         \* `generation` as each thread holds it
  fn,          \* `fn` / `job` as each thread holds it
  tk,          \* `ticket` as each thread last loaded it in Work
  seen,        \* `seen` of each worker
  dtor,        \* where the destructor is
  ran,         \* history: the indices of the posted job fn was run for
  age          \* history: the jobs posted since a worker took the one it holds

shared == <<callMutex, lock, generation, job, count, ticket, done, stopping>>
locals == <<pc, inside, n, gen, fn, tk, seen, dtor>>
vars == <<shared, locals, ran, age>>

\* Where a thread is between taking part in a job and finding no index left.
InWork == {"work", "claim", "run", "count", "last"}
\* Where a thread holds an index it claimed and has not counted yet.
Holding == {"run", "count"}
\* Where a caller is while its job is posted.
Posted == {"notify", "wait", "block", "asleep"} \cup InWork
\* Where a caller holds call_mutex_.
Calling == {"post", "ticket", "leave"} \cup Posted

\* An unsigned integer wraps.
Wrap(x) == IF x >= GenMod THEN x - GenMod ELSE x

\* What the thread locals are outside their scope.
NoTicket == [gen |-> 0, idx |-> 0]

Init ==
  /\ callMutex = NoThread /\ lock = NoThread
  /\ generation = 0 /\ job = NoThread /\ count = 0
  /\ ticket = NoTicket /\ done = 0 /\ stopping = FALSE
  /\ pc = [t \in Threads |-> IF t \in Callers THEN "out" ELSE "idle"]
  /\ inside = [t \in Threads |-> t \in Workers]
  /\ n = [t \in Threads |-> 0]
  /\ gen = [t \in Threads |-> 0]
  /\ fn = [t \in Threads |-> IF t \in Callers THEN t ELSE NoThread]
  /\ tk = [t \in Threads |-> NoTicket]
  /\ seen = [w \in Workers |-> 0]
  /\ dtor = "none"
  /\ ran = {}
  /\ age = [w \in Workers |-> 0]

Goto(t, where) == pc' = [pc EXCEPT ![t] = where]

-----------------------------------------------------------------------------
(* ParallelFor *)

\* A call with indices to share, from outside any job.
Call(c) ==
  /\ pc[c] = "out" /\ ~inside[c]
  /\ dtor = "none"
  /\ \E k \in Counts : n' = [n EXCEPT ![c] = k]
  /\ Goto(c, "enter")
  /\ UNCHANGED <<shared, inside, gen, fn, tk, seen, dtor, ran, age>>

\* Mutant of Enter: InsideJob() is not set while the caller works.
Enter_NotInside(c) ==
  /\ pc[c] = "enter"
  /\ callMutex = NoThread
  /\ callMutex' = c
  /\ Goto(c, "post")
  /\ UNCHANGED <<lock, generation, job, count, ticket, done, stopping,
                 inside, n, gen, fn, tk, seen, dtor, ran, age>>

Enter(c) ==
  /\ pc[c] = "enter"
  /\ callMutex = NoThread
  /\ callMutex' = c
  /\ inside' = [inside EXCEPT ![c] = TRUE]
  /\ Goto(c, "post")
  /\ UNCHANGED <<lock, generation, job, count, ticket, done, stopping,
                 n, gen, fn, tk, seen, dtor, ran, age>>

\* Bound: no worker sleeps through 2^32 jobs in the middle of one.
StallBound == \A w \in Workers : pc[w] \in InWork => age[w] + 1 < GenMod

\* Mutant of PostJob: done_ is not reset.
PostJob_KeepsDone(c) ==
  /\ pc[c] = "post"
  /\ lock = NoThread
  /\ StallBound
  /\ lock' = c
  /\ generation' = Wrap(generation + 1)
  /\ job' = c
  /\ count' = n[c]
  /\ gen' = [gen EXCEPT ![c] = generation']
  /\ age' = [w \in Workers |-> IF pc[w] \in InWork THEN age[w] + 1 ELSE age[w]]
  /\ Goto(c, "ticket")
  /\ UNCHANGED <<callMutex, ticket, done, stopping, inside, n, fn, tk, seen, dtor, ran>>

\* The job, under mutex_, up to its ticket.
PostJob(c) ==
  /\ pc[c] = "post"
  /\ lock = NoThread
  /\ StallBound
  /\ lock' = c
  /\ generation' = Wrap(generation + 1)
  /\ job' = c
  /\ count' = n[c]
  /\ done' = 0
  /\ gen' = [gen EXCEPT ![c] = generation']
  /\ age' = [w \in Workers |-> IF pc[w] \in InWork THEN age[w] + 1 ELSE age[w]]
  /\ Goto(c, "ticket")
  /\ UNCHANGED <<callMutex, ticket, stopping, inside, n, fn, tk, seen, dtor, ran>>

\* The ticket, and mutex_ released.
PostTicket(c) ==
  /\ pc[c] = "ticket"
  /\ ticket' = [gen |-> gen[c], idx |-> 0]
  /\ lock' = NoThread
  /\ ran' = {}
  /\ Goto(c, "notify")
  /\ UNCHANGED <<callMutex, generation, job, count, done, stopping,
                 inside, n, gen, fn, tk, seen, dtor, age>>

\* wake_.notify_all(), with mutex_ released.
NotifyWake(c) ==
  /\ pc[c] = "notify"
  /\ pc' = [t \in Threads |-> IF t = c THEN "work"
                              ELSE IF t \in Workers /\ pc[t] = "asleep" THEN "idle"
                              ELSE pc[t]]
  /\ UNCHANGED <<shared, inside, n, gen, fn, tk, seen, dtor, ran, age>>

\* Mutant of FinishWait: it waits for every index to be claimed, not done.
FinishWait_OnClaimed(c) ==
  /\ pc[c] = "wait"
  /\ lock = NoThread
  /\ ticket.idx = n[c]
  /\ job' = NoThread
  /\ Goto(c, "leave")
  /\ UNCHANGED <<callMutex, lock, generation, count, ticket, done, stopping,
                 inside, n, gen, fn, tk, seen, dtor, ran, age>>

\* finished_.wait finds every index done, and the job is over.
FinishWait(c) ==
  /\ pc[c] = "wait"
  /\ lock = NoThread
  /\ done = n[c]
  /\ job' = NoThread
  /\ Goto(c, "leave")
  /\ UNCHANGED <<callMutex, lock, generation, count, ticket, done, stopping,
                 inside, n, gen, fn, tk, seen, dtor, ran, age>>

\* finished_.wait finds indices still out; it holds mutex_ until it sleeps.
KeepWaiting(c) ==
  /\ pc[c] = "wait"
  /\ lock = NoThread
  /\ done # n[c]
  /\ lock' = c
  /\ Goto(c, "block")
  /\ UNCHANGED <<callMutex, generation, job, count, ticket, done, stopping,
                 inside, n, gen, fn, tk, seen, dtor, ran, age>>

\* The locals' destructors: InsideJob() false, call_mutex_ released.
Leave(c) ==
  /\ pc[c] = "leave"
  /\ inside' = [inside EXCEPT ![c] = FALSE]
  /\ callMutex' = NoThread
  /\ n' = [n EXCEPT ![c] = 0]
  /\ gen' = [gen EXCEPT ![c] = 0]
  /\ Goto(c, "out")
  /\ UNCHANGED <<lock, generation, job, count, ticket, done, stopping,
                 fn, tk, seen, dtor, ran, age>>

\* Either condition variable: asleep and mutex_ released in one step.
Sleep(t) ==
  /\ pc[t] = "block"
  /\ lock' = NoThread
  /\ Goto(t, "asleep")
  /\ UNCHANGED <<callMutex, generation, job, count, ticket, done, stopping,
                 inside, n, gen, fn, tk, seen, dtor, ran, age>>

\* A wait may return though nobody notified it.
SpuriousWake(t) ==
  /\ pc[t] = "asleep"
  /\ Goto(t, IF t \in Callers THEN "wait" ELSE "idle")
  /\ UNCHANGED <<shared, inside, n, gen, fn, tk, seen, dtor, ran, age>>

-----------------------------------------------------------------------------
(* Work, by the caller and by the workers *)

\* Mutant of Exhausted: the ticket carries no job number.
Exhausted_AnyJob(t, at) == at.idx >= n[t]

\* Nothing to claim: the ticket is another job's, or past the last index.
Exhausted(t, at) == at.gen # gen[t] \/ at.idx >= n[t]

\* The ticket is loaded - first, or again when the compare-and-swap found
\* another value - and looked at.
Load(t) ==
  \/ pc[t] = "work"
  \/ pc[t] = "claim" /\ ticket # tk[t]

\* There is an index to claim.
Look(t) ==
  /\ Load(t)
  /\ ~Exhausted(t, ticket)
  /\ tk' = [tk EXCEPT ![t] = ticket]
  /\ Goto(t, "claim")
  /\ UNCHANGED <<shared, inside, n, gen, fn, seen, dtor, ran, age>>

\* There is none, and Work returns: the caller goes on to wait ...
CallerGivesUp(c) ==
  /\ Load(c)
  /\ Exhausted(c, ticket)
  /\ tk' = [tk EXCEPT ![c] = NoTicket]
  /\ Goto(c, "wait")
  /\ UNCHANGED <<shared, inside, n, gen, fn, seen, dtor, ran, age>>

\* ... and a worker's copy of the job goes out of scope.
WorkerGivesUp(w) ==
  /\ Load(w)
  /\ Exhausted(w, ticket)
  /\ tk' = [tk EXCEPT ![w] = NoTicket]
  /\ n' = [n EXCEPT ![w] = 0]
  /\ gen' = [gen EXCEPT ![w] = 0]
  /\ fn' = [fn EXCEPT ![w] = NoThread]
  /\ age' = [age EXCEPT ![w] = 0]
  /\ Goto(w, "idle")
  /\ UNCHANGED <<shared, inside, seen, dtor, ran>>

\* Mutant of Claim: the next index is stored, whatever the ticket is by now.
Claim_Store(t) ==
  /\ pc[t] = "claim"
  /\ ticket' = [tk[t] EXCEPT !.idx = @ + 1]
  /\ Goto(t, "run")
  /\ UNCHANGED <<callMutex, lock, generation, job, count, done, stopping,
                 inside, n, gen, fn, tk, seen, dtor, ran, age>>

\* The compare-and-swap.
Claim(t) ==
  /\ pc[t] = "claim"
  /\ ticket = tk[t]
  /\ ticket' = [ticket EXCEPT !.idx = @ + 1]
  /\ Goto(t, "run")
  /\ UNCHANGED <<callMutex, lock, generation, job, count, done, stopping,
                 inside, n, gen, fn, tk, seen, dtor, ran, age>>

\* fn(i) - the worst of them, one that calls ParallelFor itself: inline when
\* InsideJob() says so, or else by way of call_mutex_.
Run(t) ==
  /\ pc[t] = "run"
  /\ ran' = ran \cup {tk[t].idx}
  /\ Goto(t, IF inside[t] THEN "count" ELSE "enter")
  /\ UNCHANGED <<shared, inside, n, gen, fn, tk, seen, dtor, age>>

\* done_.fetch_add(1).
Count(t) ==
  /\ pc[t] = "count"
  /\ done' = done + 1
  /\ tk' = [tk EXCEPT ![t] = NoTicket]
  /\ Goto(t, IF done + 1 = n[t] THEN "last" ELSE "work")
  /\ UNCHANGED <<callMutex, lock, generation, job, count, ticket, stopping,
                 inside, n, gen, fn, seen, dtor, ran, age>>

\* Mutant of NotifyFinished: without mutex_.
NotifyFinished_Unlocked(t) ==
  /\ pc[t] = "last"
  /\ pc' = [s \in Threads |-> IF s = t THEN "work"
                              ELSE IF s \in Callers /\ pc[s] = "asleep" THEN "wait"
                              ELSE pc[s]]
  /\ UNCHANGED <<shared, inside, n, gen, fn, tk, seen, dtor, ran, age>>

\* finished_.notify_all(), under mutex_.
NotifyFinished(t) ==
  /\ pc[t] = "last"
  /\ lock = NoThread
  /\ pc' = [s \in Threads |-> IF s = t THEN "work"
                              ELSE IF s \in Callers /\ pc[s] = "asleep" THEN "wait"
                              ELSE pc[s]]
  /\ UNCHANGED <<shared, inside, n, gen, fn, tk, seen, dtor, ran, age>>

-----------------------------------------------------------------------------
(* Loop, by the workers *)

\* wake_.wait finds a job it has not seen.
NewJob(w) ==
  /\ pc[w] = "idle"
  /\ lock = NoThread
  /\ ~stopping /\ generation # seen[w]
  /\ seen' = [seen EXCEPT ![w] = generation]

TakeJob(w) ==
  /\ NewJob(w)
  /\ job # NoThread
  /\ gen' = [gen EXCEPT ![w] = generation]
  /\ n' = [n EXCEPT ![w] = count]
  /\ fn' = [fn EXCEPT ![w] = job]
  /\ Goto(w, "work")
  /\ UNCHANGED <<shared, inside, tk, dtor, ran, age>>

\* The same, and the job is over already.
MissJob(w) ==
  /\ NewJob(w)
  /\ job = NoThread
  /\ UNCHANGED <<shared, pc, inside, n, gen, fn, tk, dtor, ran, age>>

\* wake_.wait finds nothing new; it holds mutex_ until it sleeps.
StayIdle(w) ==
  /\ pc[w] = "idle"
  /\ lock = NoThread
  /\ ~stopping /\ generation = seen[w]
  /\ lock' = w
  /\ Goto(w, "block")
  /\ UNCHANGED <<callMutex, generation, job, count, ticket, done, stopping,
                 inside, n, gen, fn, tk, seen, dtor, ran, age>>

Exit(w) ==
  /\ pc[w] = "idle"
  /\ lock = NoThread
  /\ stopping
  /\ Goto(w, "gone")
  /\ UNCHANGED <<shared, inside, n, gen, fn, tk, seen, dtor, ran, age>>

-----------------------------------------------------------------------------
(* ~WorkerPool: the pool is static, nothing calls it any more *)

Stop ==
  /\ dtor = "none"
  /\ \A c \in Callers : pc[c] = "out"
  /\ lock = NoThread
  /\ stopping' = TRUE
  /\ dtor' = "notify"
  /\ UNCHANGED <<callMutex, lock, generation, job, count, ticket, done,
                 pc, inside, n, gen, fn, tk, seen, ran, age>>

\* Mutant of NotifyStop: notify_one.
NotifyStop_One ==
  /\ dtor = "notify"
  /\ dtor' = "join"
  /\ IF \E w \in Workers : pc[w] = "asleep"
     THEN \E w \in Workers : pc[w] = "asleep" /\ Goto(w, "idle")
     ELSE UNCHANGED pc
  /\ UNCHANGED <<shared, inside, n, gen, fn, tk, seen, ran, age>>

NotifyStop ==
  /\ dtor = "notify"
  /\ dtor' = "join"
  /\ pc' = [t \in Threads |-> IF t \in Workers /\ pc[t] = "asleep" THEN "idle" ELSE pc[t]]
  /\ UNCHANGED <<shared, inside, n, gen, fn, tk, seen, ran, age>>

Join ==
  /\ dtor = "join"
  /\ \A w \in Workers : pc[w] = "gone"
  /\ dtor' = "joined"
  /\ UNCHANGED <<shared, pc, inside, n, gen, fn, tk, seen, ran, age>>

-----------------------------------------------------------------------------
Working(t) == Look(t) \/ Claim(t) \/ Run(t) \/ Count(t) \/ NotifyFinished(t)

CallerStep(c) ==
  \/ Call(c) \/ Enter(c) \/ PostJob(c) \/ PostTicket(c) \/ NotifyWake(c)
  \/ Working(c) \/ CallerGivesUp(c)
  \/ FinishWait(c) \/ KeepWaiting(c) \/ Leave(c)

WorkerStep(w) ==
  \/ TakeJob(w) \/ MissJob(w) \/ StayIdle(w) \/ Exit(w)
  \/ Working(w) \/ WorkerGivesUp(w)

Next ==
  \/ \E c \in Callers : CallerStep(c)
  \/ \E w \in Workers : WorkerStep(w)
  \/ \E t \in Threads : Sleep(t) \/ SpuriousWake(t)
  \/ Stop \/ NotifyStop \/ Join

Spec == Init /\ [][Next]_vars

\* The scheduler runs every caller that can run, and hands mutex_ to a caller
\* that keeps asking. Of a worker only this much is assumed: that it goes on
\* when it has claimed an index, and that it does not keep mutex_. It may never
\* wake, and may stop for good anywhere else.
CallerFairness ==
  /\ \A c \in Callers :
       /\ WF_vars(PostTicket(c)) /\ WF_vars(NotifyWake(c)) /\ WF_vars(Leave(c))
       /\ WF_vars(Working(c) \/ CallerGivesUp(c)) /\ SF_vars(NotifyFinished(c))
       /\ SF_vars(FinishWait(c) \/ KeepWaiting(c))
  /\ \A t \in Threads : WF_vars(Sleep(t))
  /\ \A w \in Workers : WF_vars(Run(w)) /\ WF_vars(Count(w)) /\ SF_vars(NotifyFinished(w))

\* At the program's end every worker is run as well.
WorkerFairness ==
  /\ \A w \in Workers : /\ WF_vars(Working(w) \/ WorkerGivesUp(w))
                        /\ SF_vars(TakeJob(w) \/ MissJob(w) \/ StayIdle(w) \/ Exit(w))
  /\ WF_vars(NotifyStop) /\ WF_vars(Join)

FairSpec == Spec /\ CallerFairness

-----------------------------------------------------------------------------
(* What the pool promises *)

\* Every variable has its type; checked and proved as a part of IInv.
TypeOK ==
  /\ callMutex \in Callers \cup {NoThread}
  /\ lock \in Threads \cup {NoThread}
  /\ generation \in 0 .. GenMod - 1
  /\ job \in Callers \cup {NoThread}
  /\ count \in Counts \cup {0}
  /\ ticket \in [gen : 0 .. GenMod - 1, idx : Nat]
  /\ done \in Nat
  /\ stopping \in BOOLEAN
  /\ pc \in [Threads -> Calling \cup {"out", "enter", "idle", "gone"}]
  /\ inside \in [Threads -> BOOLEAN]
  /\ n \in [Threads -> Counts \cup {0}]
  /\ gen \in [Threads -> 0 .. GenMod - 1]
  /\ fn \in [Threads -> Callers \cup {NoThread}]
  /\ tk \in [Threads -> [gen : 0 .. GenMod - 1, idx : Nat]]
  /\ seen \in [Workers -> 0 .. GenMod - 1]
  /\ dtor \in {"none", "notify", "join", "joined"}
  /\ ran \in SUBSET Nat
  /\ age \in [Workers -> Nat]

\* A thread about to run fn(i) runs the fn of the call in progress, which has
\* posted its job and not returned - never one that is gone (the comment above
\* Work's call in Loop) - and nobody ran it for i before.
ClaimsAreLive ==
  \A t \in Threads : pc[t] = "run" =>
    /\ fn[t] \in Callers
    /\ fn[t] = callMutex
    /\ pc[fn[t]] \in Posted
    /\ tk[t].idx \in 0 .. n[fn[t]] - 1
    /\ tk[t].idx \notin ran

\* ParallelFor returns once fn was run for every index, and no index is still
\* being run or counted by a worker then.
ReturnsComplete ==
  \A c \in Callers : pc[c] = "leave" =>
    /\ ran = 0 .. n[c] - 1
    /\ \A t \in Threads : pc[t] \notin Holding

\* A job's fn that calls ParallelFor never waits for call_mutex_, held until
\* the job it is part of is over.
NoSelfWait ==
  \A t \in Threads : pc[t] = "enter" => callMutex # t /\ t \in Callers

\* A job that was posted ends, whichever of the workers never wake.
PostedJobEnds ==
  \A c \in Callers : pc[c] = "notify" ~> pc[c] = "out"

\* The destructor returns, when every worker is run.
DestructorEnds == WorkerFairness => (dtor = "notify" ~> dtor = "joined")

\* WorkerPool implements ParallelJob.
JobRunning == IF callMutex # NoThread /\ pc[callMutex] \in Posted
              THEN callMutex ELSE NoThread
JobLeft == IF JobRunning = NoThread THEN {} ELSE (0 .. count - 1) \ ran

Promise == INSTANCE ParallelJob WITH running <- JobRunning, left <- JobLeft
ImplementsParallelJob == Promise!Spec

-----------------------------------------------------------------------------
(* Why it keeps it: the inductive invariant *)

\* Each thread is where its kind can be.
Places ==
  /\ \A c \in Callers : pc[c] \in Calling \cup {"out", "enter"}
  /\ \A w \in Workers : pc[w] \in InWork \cup {"idle", "block", "asleep", "gone"}

\* Who holds the two mutexes, and InsideJob().
Mutexes ==
  /\ \A t \in Threads : lock = t <=> pc[t] \in {"ticket", "block"}
  /\ \A c \in Callers : callMutex = c <=> pc[c] \in Calling
  /\ \A c \in Callers : inside[c] <=> pc[c] \in Calling
  /\ \A w \in Workers : inside[w]

\* The job a caller posted, from mutex_ on, is the one everybody sees.
PostedJob ==
  /\ \A c \in Callers :
       /\ fn[c] = c
       /\ pc[c] \in Calling \cup {"enter"} => n[c] \in Counts
       /\ pc[c] \in Posted \cup {"ticket", "leave"} => count = n[c] /\ gen[c] = generation
       /\ pc[c] \in Posted \cup {"ticket"} => job = c
       /\ pc[c] \in Posted => ticket.gen = generation /\ ticket.idx <= count
       /\ pc[c] = "ticket" => done = 0 /\ \A w \in Workers : pc[w] \in InWork => age[w] > 0
  /\ job # NoThread => \E c \in Callers : pc[c] \in Posted \cup {"ticket"}

SomePosted == \E c \in Callers : pc[c] \in Posted

\* What a worker in the middle of a job holds: a copy of the posted one, or of
\* one so many jobs ago.
Copies ==
  \A w \in Workers :
    /\ pc[w] \notin InWork => age[w] = 0
    /\ pc[w] \in InWork =>
         /\ age[w] < GenMod
         /\ generation = Wrap(gen[w] + age[w])
         /\ fn[w] # NoThread
         /\ age[w] = 0 => n[w] = count /\ (job # NoThread => fn[w] = job)

\* With no job posted nobody holds an index, and no worker can claim one.
NothingLeft ==
  ~SomePosted => \A w \in Workers :
    pc[w] \in InWork => Exhausted(w, ticket) /\ pc[w] \notin Holding

\* What a thread that saw, or claimed, an index knows of it.
Claims ==
  /\ \A t \in Threads :
       /\ pc[t] \in {"claim"} \cup Holding => tk[t].gen = gen[t] /\ tk[t].idx < n[t]
       /\ pc[t] \in Holding => tk[t].idx < ticket.idx
  /\ \A w \in Workers : pc[w] \in Holding => age[w] = 0
  /\ \A s, t \in Threads :
       s # t /\ pc[s] \in Holding /\ pc[t] \in Holding => tk[s].idx # tk[t].idx

\* The indices claimed and counted since; claimed and run since.
Counted == {i \in 0 .. ticket.idx - 1 : \A t \in Threads : pc[t] \in Holding => tk[t].idx # i}
RunSoFar == {i \in 0 .. ticket.idx - 1 : \A t \in Threads : pc[t] = "run" => tk[t].idx # i}

\* done_ is their number, and what was run is what was claimed.
Accounts ==
  SomePosted => done = Cardinality(Counted) /\ ran = RunSoFar

\* The invariant all of the above follows from.
IInv ==
  /\ TypeOK /\ Places /\ Mutexes /\ PostedJob /\ Copies
  /\ NothingLeft /\ Claims /\ Accounts /\ ReturnsComplete
=============================================================================
