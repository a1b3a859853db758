-------------------------- MODULE WorkerPoolProofs --------------------------
(***************************************************************************)
(* Proofs about WorkerPool for any number of callers, workers and indices  *)
(* and any width of generation_: its type invariant, the inductive         *)
(* invariant IInv, the safety properties that follow from it, and that the *)
(* pool implements ParallelJob.                                            *)
(***************************************************************************)
EXTENDS WorkerPool, FiniteSetTheorems, TLAPS

USE ThreadsAssumption, CountsAssumption, GenModAssumption DEF Threads

\* A generation number stays one when it is counted up.
LEMMA WrapType ==
  \A x \in 0 .. GenMod - 1 : Wrap(x + 1) \in 0 .. GenMod - 1
BY DEF Wrap

-----------------------------------------------------------------------------
(* Type correctness *)

\* The initial state is well typed.
LEMMA TypeInit == Init => TypeOK
<1> SUFFICES ASSUME Init PROVE TypeOK
  OBVIOUS
<1> USE DEF Init, TypeOK, NoTicket, Calling, Posted, InWork
<1>1. inside \in [Threads -> BOOLEAN]
  <2>1. inside = [t \in Threads |-> t \in Workers]
    OBVIOUS
  <2>2. \A t \in Threads : (t \in Workers) \in BOOLEAN
    OBVIOUS
  <2> HIDE DEF Init
  <2> QED
    BY <2>1, <2>2, Zenon
<1>2. fn \in [Threads -> Callers \cup {NoThread}]
  OBVIOUS
<1>3. pc \in [Threads -> Calling \cup {"out", "enter", "idle", "gone"}]
  OBVIOUS
<1>4. ticket \in [gen : 0 .. GenMod - 1, idx : Nat]
  OBVIOUS
<1>5. tk \in [Threads -> [gen : 0 .. GenMod - 1, idx : Nat]]
  BY <1>4
<1> QED
  BY <1>1, <1>2, <1>3, <1>4, <1>5

\* No step breaks a type.
LEMMA TypeStep == TypeOK /\ [Next]_vars => TypeOK'
<1> SUFFICES ASSUME TypeOK, [Next]_vars PROVE TypeOK'
  OBVIOUS
<1> USE DEF TypeOK, Calling, Posted, InWork, NoTicket, Goto, shared, locals, vars
<1>1. ASSUME NEW c \in Callers, Call(c) PROVE TypeOK'
  BY <1>1 DEF Call
<1>2. ASSUME NEW c \in Callers, Enter(c) PROVE TypeOK'
  BY <1>2 DEF Enter
<1>3. ASSUME NEW c \in Callers, PostJob(c) PROVE TypeOK'
  BY <1>3, WrapType DEF PostJob
<1>4. ASSUME NEW c \in Callers, PostTicket(c) PROVE TypeOK'
  BY <1>4 DEF PostTicket
<1>5. ASSUME NEW c \in Callers, NotifyWake(c) PROVE TypeOK'
  BY <1>5 DEF NotifyWake
<1>6. ASSUME NEW t \in Threads, Working(t) PROVE TypeOK'
  <2>1. CASE Look(t)
    <3>1. tk' \in [Threads -> [gen : 0 .. GenMod - 1, idx : Nat]]
      BY <2>1 DEF Look
    <3>2. pc' \in [Threads -> Calling \cup {"out", "enter", "idle", "gone"}]
      BY <2>1 DEF Look
    <3> QED
      BY <2>1, <3>1, <3>2 DEF Look
  <2>3. CASE Claim(t)
    BY <2>3 DEF Claim
  <2>4. CASE Run(t)
    <3>1. ran' \in SUBSET Nat
      <4>1. tk[t] \in [gen : 0 .. GenMod - 1, idx : Nat]
        OBVIOUS
      <4>2. tk[t].idx \in Nat
        BY <4>1
      <4> QED
        BY <2>4, <4>2 DEF Run
    <3>2. pc' \in [Threads -> Calling \cup {"out", "enter", "idle", "gone"}]
      BY <2>4 DEF Run
    <3> QED
      BY <2>4, <3>1, <3>2 DEF Run
  <2>5. CASE Count(t)
    BY <2>5 DEF Count
  <2>6. CASE NotifyFinished(t)
    BY <2>6 DEF NotifyFinished
  <2> QED
    BY <1>6, <2>1, <2>3, <2>4, <2>5, <2>6 DEF Working
<1>7. ASSUME NEW c \in Callers, FinishWait(c) PROVE TypeOK'
  BY <1>7 DEF FinishWait
<1>8. ASSUME NEW c \in Callers, KeepWaiting(c) PROVE TypeOK'
  BY <1>8 DEF KeepWaiting
<1>9. ASSUME NEW c \in Callers, Leave(c) PROVE TypeOK'
  BY <1>9 DEF Leave
<1>10. ASSUME NEW t \in Threads, Sleep(t) \/ SpuriousWake(t) PROVE TypeOK'
  BY <1>10 DEF Sleep, SpuriousWake
<1>11. ASSUME NEW w \in Workers, TakeJob(w) PROVE TypeOK'
  BY <1>11 DEF TakeJob, NewJob
<1>12. ASSUME NEW w \in Workers, MissJob(w) PROVE TypeOK'
  BY <1>12 DEF MissJob, NewJob
<1>13. ASSUME NEW w \in Workers, StayIdle(w) \/ Exit(w) PROVE TypeOK'
  BY <1>13 DEF StayIdle, Exit
<1>14. ASSUME NEW c \in Callers, CallerGivesUp(c) PROVE TypeOK'
  BY <1>14 DEF CallerGivesUp
<1>15. ASSUME NEW w \in Workers, WorkerGivesUp(w) PROVE TypeOK'
  BY <1>15 DEF WorkerGivesUp
<1>16. CASE Stop \/ NotifyStop \/ Join
  BY <1>16 DEF Stop, NotifyStop, Join
<1>17. CASE UNCHANGED vars
  BY <1>17
<1> QED
  BY <1>1, <1>2, <1>3, <1>4, <1>5, <1>6, <1>7, <1>8, <1>9, <1>10, <1>11, <1>12, <1>13,
     <1>14, <1>15, <1>16, <1>17
     DEF Next, CallerStep, WorkerStep

\* Every variable keeps its type: generation_ and the generation in ticket_
\* stay within the width of generation_, whatever wraps.
THEOREM TypeCorrect == Spec => []TypeOK
<1> QED BY TypeInit, TypeStep, PTL DEF Spec
-----------------------------------------------------------------------------
(* The inductive invariant *)

\* A step that moves no thread into or out of an index keeps the accounts.
LEMMA QuietAccounts ==
  ASSUME Accounts, SomePosted' => SomePosted, UNCHANGED <<ticket, done, ran>>,
         \A s \in Threads : /\ pc'[s] \in Holding <=> pc[s] \in Holding
                            /\ pc'[s] = "run" <=> pc[s] = "run"
                            /\ pc[s] \in Holding => tk'[s] = tk[s]
  PROVE  Accounts'
<1>1. Counted' = Counted
  BY DEF Counted
<1>2. RunSoFar' = RunSoFar
  BY DEF RunSoFar, Holding
<1> QED
  BY <1>1, <1>2 DEF Accounts

\* done_ has reached the count: every index was claimed, run and counted.
LEMMA AllCounted ==
  ASSUME TypeOK, Claims, Accounts, SomePosted, ticket.idx <= count, done = count
  PROVE  /\ ticket.idx = count
         /\ ran = 0 .. count - 1
         /\ \A t \in Threads : pc[t] \notin Holding
<1>1. count \in Nat /\ ticket.idx \in Nat
  BY DEF TypeOK
<1>2. IsFiniteSet(0 .. count - 1) /\ Cardinality(0 .. count - 1) = count
  <2>1. 0 \in Int /\ count - 1 \in Int
    BY <1>1
  <2>2. /\ IsFiniteSet(0 .. count - 1)
        /\ Cardinality(0 .. count - 1) = IF 0 > count - 1 THEN 0 ELSE count - 1 - 0 + 1
    BY <2>1, FS_Interval
  <2> QED
    BY <1>1, <2>2
<1>3. Counted \in SUBSET (0 .. count - 1)
  BY <1>1 DEF Counted
<1>4. Counted = 0 .. count - 1
  BY <1>2, <1>3, FS_Subset DEF Accounts
<1>5. ticket.idx = count
  BY <1>1, <1>4 DEF Counted
<1>6. ASSUME NEW t \in Threads, pc[t] \in Holding PROVE FALSE
  <2>1. tk[t].idx \in 0 .. ticket.idx - 1
    BY <1>1, <1>6 DEF Claims, TypeOK
  <2> QED
    BY <1>4, <1>5, <1>6, <2>1 DEF Counted
<1>7. RunSoFar = 0 .. count - 1
  BY <1>1, <1>5, <1>6 DEF RunSoFar, Holding
<1> QED
  BY <1>5, <1>6, <1>7 DEF Accounts

\* A call asks for call_mutex_.
LEMMA CallStep ==
  ASSUME NEW c \in Callers, IInv, TypeOK', Call(c)
  PROVE  IInv'
<1> USE DEF IInv, TypeOK, InWork, Holding, Posted, Calling, Exhausted, Goto, shared, Call
<1>1. Places'
  BY DEF Places
<1>2. Mutexes'
  BY DEF Mutexes
<1>3. PostedJob'
  BY DEF PostedJob
<1>4. Copies'
  BY DEF Copies
<1>5. NothingLeft'
  BY DEF NothingLeft, SomePosted
<1>6. Claims'
  BY DEF Claims
<1>7. Accounts'
  BY QuietAccounts DEF Places, Mutexes, PostedJob, NothingLeft, Claims, SomePosted
<1>8. ReturnsComplete'
  BY DEF ReturnsComplete
<1> QED
  BY <1>1, <1>2, <1>3, <1>4, <1>5, <1>6, <1>7, <1>8

\* A call gets call_mutex_.
LEMMA EnterStep ==
  ASSUME NEW c \in Callers, IInv, TypeOK', Enter(c)
  PROVE  IInv'
<1> USE DEF IInv, TypeOK, InWork, Holding, Posted, Calling, Exhausted, Goto, shared, Enter
<1>1. Places'
  BY DEF Places
<1>2. Mutexes'
  BY DEF Mutexes
<1>3. PostedJob'
  BY DEF PostedJob
<1>4. Copies'
  BY DEF Copies
<1>5. NothingLeft'
  BY DEF NothingLeft, SomePosted
<1>6. Claims'
  BY DEF Claims
<1>7. Accounts'
  BY QuietAccounts DEF Places, Mutexes, PostedJob, NothingLeft, Claims, SomePosted
<1>8. ReturnsComplete'
  BY DEF ReturnsComplete
<1> QED
  BY <1>1, <1>2, <1>3, <1>4, <1>5, <1>6, <1>7, <1>8

\* A job is posted: every worker still at one holds an older one now.
LEMMA PostJobStep ==
  ASSUME NEW c \in Callers, IInv, TypeOK', PostJob(c)
  PROVE  IInv'
<1> USE DEF IInv, TypeOK, InWork, Holding, Posted, Calling, Exhausted, Goto, shared, PostJob
<1>1. Places'
  BY DEF Places
<1>2. Mutexes'
  BY DEF Mutexes
<1>3. PostedJob'
  BY DEF PostedJob, Places, Mutexes
<1>4. Copies'
  <2>0. \A w \in Workers : pc'[w] \notin InWork => age'[w] = 0
    BY DEF Copies
  <2> SUFFICES ASSUME NEW w \in Workers, pc'[w] \in InWork
               PROVE  /\ age'[w] < GenMod
                      /\ generation' = Wrap(gen'[w] + age'[w])
                      /\ fn'[w] # NoThread
                      /\ age'[w] # 0
    BY <2>0 DEF Copies
  <2>1. pc[w] \in InWork /\ gen'[w] = gen[w] /\ fn'[w] = fn[w] /\ age'[w] = age[w] + 1
    OBVIOUS
  <2>2. age[w] \in Nat /\ gen[w] \in 0 .. GenMod - 1 /\ generation \in 0 .. GenMod - 1
    OBVIOUS
  <2>3. age[w] + 1 < GenMod
    BY <2>1 DEF StallBound
  <2>4. generation = Wrap(gen[w] + age[w]) /\ fn[w] # NoThread
    BY <2>1 DEF Copies
  <2>5. generation' = Wrap(generation + 1)
    OBVIOUS
  <2>6. Wrap(Wrap(gen[w] + age[w]) + 1) = Wrap(gen[w] + (age[w] + 1))
    BY <2>2, <2>3 DEF Wrap
  <2> QED
    BY <2>1, <2>2, <2>3, <2>4, <2>5, <2>6
<1>5. NothingLeft'
  BY DEF NothingLeft, SomePosted
<1>6. Claims'
  BY DEF Claims, Mutexes, PostedJob, SomePosted, NothingLeft
<1>7. Accounts'
  BY DEF Accounts, Mutexes, PostedJob, SomePosted
<1>8. ReturnsComplete'
  BY DEF ReturnsComplete
<1> QED
  BY <1>1, <1>2, <1>3, <1>4, <1>5, <1>6, <1>7, <1>8

\* The new ticket: nothing claimed, run or counted of the job yet.
LEMMA PostTicketStep ==
  ASSUME NEW c \in Callers, IInv, TypeOK', PostTicket(c)
  PROVE  IInv'
<1> USE DEF IInv, TypeOK, InWork, Holding, Posted, Calling, Exhausted, Goto, shared, PostTicket
<1>1. Places'
  BY DEF Places
<1>2. Mutexes'
  BY DEF Mutexes
<1>3. PostedJob'
  BY DEF PostedJob
<1>4. Copies'
  BY DEF Copies
<1>5. NothingLeft'
  BY DEF NothingLeft, SomePosted
<1>6. Claims'
  BY DEF Claims, Mutexes, PostedJob
<1>7. Accounts'
  <2>1. ticket'.idx = 0 /\ ran' = {} /\ done' = 0
    BY DEF PostedJob
  <2>2. Counted' = {} /\ RunSoFar' = {}
    BY <2>1 DEF Counted, RunSoFar
  <2> QED
    BY <2>1, <2>2, FS_EmptySet DEF Accounts
<1>8. ReturnsComplete'
  BY DEF ReturnsComplete, Places, Mutexes
<1> QED
  BY <1>1, <1>2, <1>3, <1>4, <1>5, <1>6, <1>7, <1>8

\* The workers are woken.
LEMMA NotifyWakeStep ==
  ASSUME NEW c \in Callers, IInv, TypeOK', NotifyWake(c)
  PROVE  IInv'
<1> USE DEF IInv, TypeOK, InWork, Holding, Posted, Calling, Exhausted, Goto, shared, NotifyWake
<1>1. Places'
  BY DEF Places
<1>2. Mutexes'
  BY DEF Mutexes
<1>3. PostedJob'
  BY DEF PostedJob
<1>4. Copies'
  BY DEF Copies
<1>5. NothingLeft'
  BY DEF NothingLeft, SomePosted
<1>6. Claims'
  BY DEF Claims
<1>7. Accounts'
  BY QuietAccounts DEF Places, Mutexes, PostedJob, NothingLeft, Claims, SomePosted
<1>8. ReturnsComplete'
  BY DEF ReturnsComplete
<1> QED
  BY <1>1, <1>2, <1>3, <1>4, <1>5, <1>6, <1>7, <1>8

\* Every index is counted: no worker can hold one, and none is left to claim.
LEMMA FinishWaitStep ==
  ASSUME NEW c \in Callers, IInv, TypeOK', FinishWait(c)
  PROVE  IInv'
<1> USE DEF IInv, TypeOK, InWork, Holding, Posted, Calling, Exhausted, Goto, shared, FinishWait
<1>1. Places'
  BY DEF Places
<1>2. Mutexes'
  BY DEF Mutexes
<1>3. PostedJob'
  BY DEF PostedJob
<1>4. Copies'
  BY DEF Copies
<1>5. NothingLeft'
  <2>1. SomePosted /\ ticket.idx <= count /\ done = count /\ n[c] = count
    BY DEF SomePosted, PostedJob
  <2>2. ticket.idx = count /\ \A t \in Threads : pc[t] \notin Holding
    BY <2>1, AllCounted
  <2>3. ASSUME NEW w \in Workers, pc[w] \in InWork PROVE Exhausted(w, ticket)
    BY <2>1, <2>2, <2>3 DEF Copies, PostedJob, Wrap
  <2> QED
    BY <2>2, <2>3 DEF NothingLeft
<1>6. Claims'
  BY DEF Claims
<1>7. Accounts'
  BY DEF Accounts, Mutexes, PostedJob, SomePosted
<1>8. ReturnsComplete'
  <2>1. SomePosted /\ ticket.idx <= count /\ done = count /\ n[c] = count
    BY DEF SomePosted, PostedJob
  <2>2. ran = 0 .. count - 1 /\ \A t \in Threads : pc[t] \notin Holding
    BY <2>1, AllCounted
  <2> QED
    BY <2>1, <2>2 DEF ReturnsComplete, Mutexes
<1> QED
  BY <1>1, <1>2, <1>3, <1>4, <1>5, <1>6, <1>7, <1>8

\* The caller sees indices still out.
LEMMA KeepWaitingStep ==
  ASSUME NEW c \in Callers, IInv, TypeOK', KeepWaiting(c)
  PROVE  IInv'
<1> USE DEF IInv, TypeOK, InWork, Holding, Posted, Calling, Exhausted, Goto, shared, KeepWaiting
<1>1. Places'
  BY DEF Places
<1>2. Mutexes'
  BY DEF Mutexes
<1>3. PostedJob'
  BY DEF PostedJob
<1>4. Copies'
  BY DEF Copies
<1>5. NothingLeft'
  BY DEF NothingLeft, SomePosted
<1>6. Claims'
  BY DEF Claims
<1>7. Accounts'
  BY QuietAccounts DEF Places, Mutexes, PostedJob, NothingLeft, Claims, SomePosted
<1>8. ReturnsComplete'
  BY DEF ReturnsComplete
<1> QED
  BY <1>1, <1>2, <1>3, <1>4, <1>5, <1>6, <1>7, <1>8

\* The call returns.
LEMMA LeaveStep ==
  ASSUME NEW c \in Callers, IInv, TypeOK', Leave(c)
  PROVE  IInv'
<1> USE DEF IInv, TypeOK, InWork, Holding, Posted, Calling, Exhausted, Goto, shared, Leave
<1>1. Places'
  BY DEF Places
<1>2. Mutexes'
  BY DEF Mutexes
<1>3. PostedJob'
  BY DEF PostedJob
<1>4. Copies'
  BY DEF Copies
<1>5. NothingLeft'
  BY DEF NothingLeft, SomePosted
<1>6. Claims'
  BY DEF Claims
<1>7. Accounts'
  BY QuietAccounts DEF Places, Mutexes, PostedJob, NothingLeft, Claims, SomePosted
<1>8. ReturnsComplete'
  BY DEF ReturnsComplete
<1> QED
  BY <1>1, <1>2, <1>3, <1>4, <1>5, <1>6, <1>7, <1>8

\* A wait goes to sleep.
LEMMA SleepStep ==
  ASSUME NEW t \in Threads, IInv, TypeOK', Sleep(t)
  PROVE  IInv'
<1> USE DEF IInv, TypeOK, InWork, Holding, Posted, Calling, Exhausted, Goto, shared, Sleep
<1>1. Places'
  BY DEF Places
<1>2. Mutexes'
  BY DEF Mutexes
<1>3. PostedJob'
  BY DEF PostedJob
<1>4. Copies'
  BY DEF Copies
<1>5. NothingLeft'
  BY DEF NothingLeft, SomePosted
<1>6. Claims'
  BY DEF Claims
<1>7. Accounts'
  BY QuietAccounts DEF Places, Mutexes, PostedJob, NothingLeft, Claims, SomePosted
<1>8. ReturnsComplete'
  BY DEF ReturnsComplete
<1> QED
  BY <1>1, <1>2, <1>3, <1>4, <1>5, <1>6, <1>7, <1>8

\* A wait wakes unasked.
LEMMA SpuriousWakeStep ==
  ASSUME NEW t \in Threads, IInv, TypeOK', SpuriousWake(t)
  PROVE  IInv'
<1> USE DEF IInv, TypeOK, InWork, Holding, Posted, Calling, Exhausted, Goto, shared, SpuriousWake
<1>1. Places'
  BY DEF Places
<1>2. Mutexes'
  BY DEF Mutexes
<1>3. PostedJob'
  BY DEF PostedJob
<1>4. Copies'
  BY DEF Copies
<1>5. NothingLeft'
  BY DEF NothingLeft, SomePosted
<1>6. Claims'
  BY DEF Claims
<1>7. Accounts'
  BY QuietAccounts DEF Places, Mutexes, PostedJob, NothingLeft, Claims, SomePosted
<1>8. ReturnsComplete'
  BY DEF ReturnsComplete
<1> QED
  BY <1>1, <1>2, <1>3, <1>4, <1>5, <1>6, <1>7, <1>8

\* An index is there to claim.
LEMMA LookStep ==
  ASSUME NEW t \in Threads, IInv, TypeOK', Look(t)
  PROVE  IInv'
<1> USE DEF IInv, TypeOK, InWork, Holding, Posted, Calling, Exhausted, Goto, shared, Look, Load
<1>1. Places'
  BY DEF Places
<1>2. Mutexes'
  BY DEF Mutexes
<1>3. PostedJob'
  BY DEF PostedJob
<1>4. Copies'
  BY DEF Copies
<1>5. NothingLeft'
  BY DEF NothingLeft, SomePosted
<1>6. Claims'
  BY DEF Places, Mutexes, PostedJob, Copies, NothingLeft, Claims, SomePosted, Wrap
<1>7. Accounts'
  BY QuietAccounts DEF Places, Mutexes, PostedJob, NothingLeft, Claims, SomePosted
<1>8. ReturnsComplete'
  BY DEF ReturnsComplete
<1> QED
  BY <1>1, <1>2, <1>3, <1>4, <1>5, <1>6, <1>7, <1>8

\* The caller found no index.
LEMMA CallerGivesUpStep ==
  ASSUME NEW c \in Callers, IInv, TypeOK', CallerGivesUp(c)
  PROVE  IInv'
<1> USE DEF IInv, TypeOK, InWork, Holding, Posted, Calling, Exhausted, Goto, shared, CallerGivesUp, Load
<1>1. Places'
  BY DEF Places
<1>2. Mutexes'
  BY DEF Mutexes
<1>3. PostedJob'
  BY DEF PostedJob
<1>4. Copies'
  BY DEF Copies
<1>5. NothingLeft'
  BY DEF NothingLeft, SomePosted
<1>6. Claims'
  BY DEF Claims
<1>7. Accounts'
  BY QuietAccounts DEF Places, Mutexes, PostedJob, NothingLeft, Claims, SomePosted
<1>8. ReturnsComplete'
  BY DEF ReturnsComplete
<1> QED
  BY <1>1, <1>2, <1>3, <1>4, <1>5, <1>6, <1>7, <1>8

\* A worker found no index.
LEMMA WorkerGivesUpStep ==
  ASSUME NEW w \in Workers, IInv, TypeOK', WorkerGivesUp(w)
  PROVE  IInv'
<1> USE DEF IInv, TypeOK, InWork, Holding, Posted, Calling, Exhausted, Goto, shared, WorkerGivesUp, Load
<1>1. Places'
  BY DEF Places
<1>2. Mutexes'
  BY DEF Mutexes
<1>3. PostedJob'
  BY DEF PostedJob
<1>4. Copies'
  BY DEF Copies
<1>5. NothingLeft'
  BY DEF NothingLeft, SomePosted
<1>6. Claims'
  BY DEF Claims
<1>7. Accounts'
  BY QuietAccounts DEF Places, Mutexes, PostedJob, NothingLeft, Claims, SomePosted
<1>8. ReturnsComplete'
  BY DEF ReturnsComplete
<1> QED
  BY <1>1, <1>2, <1>3, <1>4, <1>5, <1>6, <1>7, <1>8

\* An index is claimed: of the posted job, so by nobody who holds an older one.
LEMMA ClaimStep ==
  ASSUME NEW t \in Threads, IInv, TypeOK', Claim(t)
  PROVE  IInv'
<1> USE DEF IInv, TypeOK, InWork, Holding, Posted, Calling, Exhausted, Goto, shared, Claim
<1>a. /\ ticket.idx \in Nat /\ tk[t] = ticket
      /\ ticket'.idx = ticket.idx + 1 /\ ticket'.gen = ticket.gen
      /\ pc' = [pc EXCEPT ![t] = "run"]
  OBVIOUS
<1>b. SomePosted
  <2>1. CASE t \in Callers
    BY <2>1 DEF SomePosted
  <2>2. CASE t \in Workers
    BY <2>2 DEF NothingLeft, Claims
  <2> QED
    BY <2>1, <2>2
<1>c. PICK p \in Callers : pc[p] \in Posted
  BY <1>b DEF SomePosted
<1>d. t \in Workers => age[t] = 0
  <2> SUFFICES ASSUME t \in Workers, age[t] # 0 PROVE FALSE
    OBVIOUS
  <2>1. /\ age[t] \in 1 .. GenMod - 1 /\ gen[t] \in 0 .. GenMod - 1
        /\ generation = Wrap(gen[t] + age[t])
    BY DEF Copies
  <2>2. gen[t] # generation
    BY <2>1 DEF Wrap
  <2>3. ticket.gen = generation /\ tk[t].gen = gen[t]
    BY <1>c DEF PostedJob, Claims
  <2> QED
    BY <1>a, <2>2, <2>3
<1>e. ticket.idx < count
  <2>1. \A c \in Callers : c = p <=> pc[c] \in Calling
    BY <1>c DEF Mutexes
  <2>2. n[t] = count
    BY <1>c, <1>d, <2>1 DEF PostedJob, Copies
  <2> QED
    BY <1>a, <2>2 DEF Claims
<1>1. Places'
  BY <1>a, <1>b, <1>c, <1>d, <1>e DEF Places, Mutexes, PostedJob, Copies, NothingLeft, Claims, SomePosted, ReturnsComplete
<1>2. Mutexes'
  BY <1>a DEF Mutexes, Places
<1>3. PostedJob'
  <2>1. \A c \in Callers : /\ pc'[c] \in Posted <=> pc[c] \in Posted
                           /\ pc'[c] \in Calling <=> pc[c] \in Calling
                           /\ \A s \in {"enter", "ticket", "leave"} : pc'[c] = s <=> pc[c] = s
    BY <1>a
  <2>2. \A w \in Workers : pc'[w] \in InWork <=> pc[w] \in InWork
    BY <1>a
  <2>3. UNCHANGED <<count, gen, generation, job, done, age, n, fn>>
    OBVIOUS
  <2> QED
    BY <1>a, <1>e, <2>1, <2>2, <2>3 DEF PostedJob
<1>4. Copies'
  BY <1>a, <1>b, <1>c, <1>d, <1>e DEF Places, Mutexes, PostedJob, Copies, NothingLeft, Claims, SomePosted, ReturnsComplete
<1>5. NothingLeft'
  BY <1>a, <1>b, <1>c, <1>d, <1>e DEF Places, Mutexes, PostedJob, Copies, NothingLeft, Claims, SomePosted, ReturnsComplete
<1>6. Claims'
  BY <1>a, <1>d, <1>e DEF Claims, Mutexes, Copies, Places
<1>7. Accounts'
  <2>1. ticket.idx \in Nat /\ tk[t].idx = ticket.idx /\ ticket'.idx = ticket.idx + 1
    OBVIOUS
  <2>2. Counted' = Counted
    BY <2>1 DEF Counted, Claims
  <2>3. RunSoFar' = RunSoFar
    BY <1>a, <2>1 DEF RunSoFar, Claims
  <2> QED
    BY <2>2, <2>3 DEF Accounts, SomePosted
<1>8. ReturnsComplete'
  <2>1. \A c \in Callers : pc[c] # "leave"
    BY <1>c DEF Mutexes
  <2> QED
    BY <1>a, <2>1 DEF ReturnsComplete
<1> QED
  BY <1>1, <1>2, <1>3, <1>4, <1>5, <1>6, <1>7, <1>8

\* fn is run for a claimed index.
LEMMA RunStep ==
  ASSUME NEW t \in Threads, IInv, TypeOK', Run(t)
  PROVE  IInv'
<1> USE DEF IInv, TypeOK, InWork, Holding, Posted, Calling, Exhausted, Goto, shared, Run
<1>1. Places'
  BY DEF Places, Mutexes
<1>2. Mutexes'
  BY DEF Mutexes
<1>3. PostedJob'
  BY DEF PostedJob, Places, Mutexes
<1>4. Copies'
  BY DEF Copies, Places, Mutexes
<1>5. NothingLeft'
  BY DEF NothingLeft, Mutexes, PostedJob, SomePosted
<1>6. Claims'
  BY DEF Claims
<1>7. Accounts'
  <2>1. tk[t].idx \in 0 .. ticket.idx - 1
    BY DEF Claims
  <2>2. inside[t]
    BY DEF Mutexes, Places
  <2>3. Counted' = Counted
    BY <2>2 DEF Counted
  <2>4. RunSoFar' = RunSoFar \cup {tk[t].idx}
    BY <2>1, <2>2 DEF RunSoFar, Claims
  <2> QED
    BY <2>2, <2>3, <2>4 DEF Accounts, SomePosted
<1>8. ReturnsComplete'
  BY DEF ReturnsComplete
<1> QED
  BY <1>1, <1>2, <1>3, <1>4, <1>5, <1>6, <1>7, <1>8

\* An index is counted.
LEMMA CountStep ==
  ASSUME NEW t \in Threads, IInv, TypeOK', Count(t)
  PROVE  IInv'
<1> USE DEF IInv, TypeOK, InWork, Holding, Posted, Calling, Exhausted, Goto, shared, Count
<1>1. Places'
  BY DEF Places
<1>2. Mutexes'
  BY DEF Mutexes
<1>3. PostedJob'
  BY DEF PostedJob, Mutexes, SomePosted, Claims, NothingLeft
<1>4. Copies'
  BY DEF Copies
<1>5. NothingLeft'
  BY DEF NothingLeft, SomePosted
<1>6. Claims'
  BY DEF Claims
<1>7. Accounts'
  <2>1. tk[t].idx \in 0 .. ticket.idx - 1
    BY DEF Claims
  <2>2. Counted' = Counted \cup {tk[t].idx} /\ tk[t].idx \notin Counted
    BY <2>1 DEF Counted, Claims
  <2>3. RunSoFar' = RunSoFar
    BY DEF RunSoFar
  <2>4. IsFiniteSet(Counted)
    <3>1. IsFiniteSet(0 .. ticket.idx - 1)
      BY FS_Interval
    <3> QED
      BY <3>1, FS_Subset DEF Counted
  <2>5. Cardinality(Counted') = Cardinality(Counted) + 1
    BY <2>2, <2>4, FS_AddElement
  <2> QED
    BY <2>3, <2>5 DEF Accounts, SomePosted
<1>8. ReturnsComplete'
  BY DEF ReturnsComplete
<1> QED
  BY <1>1, <1>2, <1>3, <1>4, <1>5, <1>6, <1>7, <1>8

\* The caller is woken.
LEMMA NotifyFinishedStep ==
  ASSUME NEW t \in Threads, IInv, TypeOK', NotifyFinished(t)
  PROVE  IInv'
<1> USE DEF IInv, TypeOK, InWork, Holding, Posted, Calling, Exhausted, Goto, shared, NotifyFinished
<1>1. Places'
  BY DEF Places
<1>2. Mutexes'
  BY DEF Mutexes
<1>3. PostedJob'
  BY DEF PostedJob
<1>4. Copies'
  BY DEF Copies
<1>5. NothingLeft'
  BY DEF NothingLeft, SomePosted
<1>6. Claims'
  BY DEF Claims
<1>7. Accounts'
  BY QuietAccounts DEF Places, Mutexes, PostedJob, NothingLeft, Claims, SomePosted
<1>8. ReturnsComplete'
  BY DEF ReturnsComplete
<1> QED
  BY <1>1, <1>2, <1>3, <1>4, <1>5, <1>6, <1>7, <1>8

\* A worker takes the posted job.
LEMMA TakeJobStep ==
  ASSUME NEW w \in Workers, IInv, TypeOK', TakeJob(w)
  PROVE  IInv'
<1> USE DEF IInv, TypeOK, InWork, Holding, Posted, Calling, Exhausted, Goto, shared, TakeJob, NewJob
<1>1. Places'
  BY DEF Places
<1>2. Mutexes'
  BY DEF Mutexes
<1>3. PostedJob'
  BY DEF PostedJob, Places, Mutexes
<1>4. Copies'
  <2>1. age[w] = 0 /\ generation = Wrap(generation + 0)
    BY DEF Copies, Wrap
  <2> QED
    BY <2>1 DEF Copies
<1>5. NothingLeft'
  BY DEF NothingLeft, Mutexes, PostedJob, SomePosted
<1>6. Claims'
  BY DEF Claims
<1>7. Accounts'
  BY QuietAccounts DEF Places, Mutexes, PostedJob, NothingLeft, Claims, SomePosted
<1>8. ReturnsComplete'
  <2>1. PICK p \in Callers : pc[p] \in Posted
    BY DEF PostedJob, Mutexes
  <2>2. \A c \in Callers : pc[c] # "leave"
    BY <2>1 DEF Mutexes
  <2> QED
    BY <2>2 DEF ReturnsComplete
<1> QED
  BY <1>1, <1>2, <1>3, <1>4, <1>5, <1>6, <1>7, <1>8

\* A worker wakes when the job is over.
LEMMA MissJobStep ==
  ASSUME NEW w \in Workers, IInv, TypeOK', MissJob(w)
  PROVE  IInv'
<1> USE DEF IInv, TypeOK, InWork, Holding, Posted, Calling, Exhausted, Goto, shared, MissJob, NewJob
<1>1. Places'
  BY DEF Places
<1>2. Mutexes'
  BY DEF Mutexes
<1>3. PostedJob'
  BY DEF PostedJob
<1>4. Copies'
  BY DEF Copies
<1>5. NothingLeft'
  BY DEF NothingLeft, SomePosted
<1>6. Claims'
  BY DEF Claims
<1>7. Accounts'
  BY QuietAccounts DEF Places, Mutexes, PostedJob, NothingLeft, Claims, SomePosted
<1>8. ReturnsComplete'
  BY DEF ReturnsComplete
<1> QED
  BY <1>1, <1>2, <1>3, <1>4, <1>5, <1>6, <1>7, <1>8

\* A worker sees nothing new.
LEMMA StayIdleStep ==
  ASSUME NEW w \in Workers, IInv, TypeOK', StayIdle(w)
  PROVE  IInv'
<1> USE DEF IInv, TypeOK, InWork, Holding, Posted, Calling, Exhausted, Goto, shared, StayIdle
<1>1. Places'
  BY DEF Places
<1>2. Mutexes'
  BY DEF Mutexes
<1>3. PostedJob'
  BY DEF PostedJob
<1>4. Copies'
  BY DEF Copies
<1>5. NothingLeft'
  BY DEF NothingLeft, SomePosted
<1>6. Claims'
  BY DEF Claims
<1>7. Accounts'
  BY QuietAccounts DEF Places, Mutexes, PostedJob, NothingLeft, Claims, SomePosted
<1>8. ReturnsComplete'
  BY DEF ReturnsComplete
<1> QED
  BY <1>1, <1>2, <1>3, <1>4, <1>5, <1>6, <1>7, <1>8

\* A worker ends.
LEMMA ExitStep ==
  ASSUME NEW w \in Workers, IInv, TypeOK', Exit(w)
  PROVE  IInv'
<1> USE DEF IInv, TypeOK, InWork, Holding, Posted, Calling, Exhausted, Goto, shared, Exit
<1>1. Places'
  BY DEF Places
<1>2. Mutexes'
  BY DEF Mutexes
<1>3. PostedJob'
  BY DEF PostedJob
<1>4. Copies'
  BY DEF Copies
<1>5. NothingLeft'
  BY DEF NothingLeft, SomePosted
<1>6. Claims'
  BY DEF Claims
<1>7. Accounts'
  BY QuietAccounts DEF Places, Mutexes, PostedJob, NothingLeft, Claims, SomePosted
<1>8. ReturnsComplete'
  BY DEF ReturnsComplete
<1> QED
  BY <1>1, <1>2, <1>3, <1>4, <1>5, <1>6, <1>7, <1>8

\* The destructor stops the pool.
LEMMA StopStep ==
  ASSUME IInv, TypeOK', Stop
  PROVE  IInv'
<1> USE DEF IInv, TypeOK, InWork, Holding, Posted, Calling, Exhausted, Goto, shared, Stop
<1>1. Places'
  BY DEF Places
<1>2. Mutexes'
  BY DEF Mutexes
<1>3. PostedJob'
  BY DEF PostedJob
<1>4. Copies'
  BY DEF Copies
<1>5. NothingLeft'
  BY DEF NothingLeft, SomePosted
<1>6. Claims'
  BY DEF Claims
<1>7. Accounts'
  BY QuietAccounts DEF Places, Mutexes, PostedJob, NothingLeft, Claims, SomePosted
<1>8. ReturnsComplete'
  BY DEF ReturnsComplete
<1> QED
  BY <1>1, <1>2, <1>3, <1>4, <1>5, <1>6, <1>7, <1>8

\* The destructor wakes the workers.
LEMMA NotifyStopStep ==
  ASSUME IInv, TypeOK', NotifyStop
  PROVE  IInv'
<1> USE DEF IInv, TypeOK, InWork, Holding, Posted, Calling, Exhausted, Goto, shared, NotifyStop
<1>1. Places'
  BY DEF Places
<1>2. Mutexes'
  BY DEF Mutexes
<1>3. PostedJob'
  BY DEF PostedJob
<1>4. Copies'
  BY DEF Copies
<1>5. NothingLeft'
  BY DEF NothingLeft, SomePosted
<1>6. Claims'
  BY DEF Claims
<1>7. Accounts'
  BY QuietAccounts DEF Places, Mutexes, PostedJob, NothingLeft, Claims, SomePosted
<1>8. ReturnsComplete'
  BY DEF ReturnsComplete
<1> QED
  BY <1>1, <1>2, <1>3, <1>4, <1>5, <1>6, <1>7, <1>8

\* The destructor has joined the workers.
LEMMA JoinStep ==
  ASSUME IInv, TypeOK', Join
  PROVE  IInv'
<1> USE DEF IInv, TypeOK, InWork, Holding, Posted, Calling, Exhausted, Goto, shared, Join
<1>1. Places'
  BY DEF Places
<1>2. Mutexes'
  BY DEF Mutexes
<1>3. PostedJob'
  BY DEF PostedJob
<1>4. Copies'
  BY DEF Copies
<1>5. NothingLeft'
  BY DEF NothingLeft
<1>6. Claims'
  BY DEF Claims
<1>7. Accounts'
  BY QuietAccounts DEF Places, Mutexes, PostedJob, NothingLeft, Claims, SomePosted
<1>8. ReturnsComplete'
  BY DEF ReturnsComplete
<1> QED
  BY <1>1, <1>2, <1>3, <1>4, <1>5, <1>6, <1>7, <1>8


\* The initial state satisfies the invariant.
LEMMA IInvInit == Init => IInv
<1> SUFFICES ASSUME Init PROVE IInv
  OBVIOUS
<1>1. TypeOK
  BY TypeInit
<1> USE DEF Init, InWork, Holding, Posted, Calling
<1>2. \A c \in Callers : pc[c] = "out" /\ c \notin Workers
  OBVIOUS
<1>3. \A w \in Workers : pc[w] = "idle" /\ w \notin Callers
  OBVIOUS
<1>4. \A t \in Threads : inside[t] <=> t \in Workers
  OBVIOUS
<1>5. Places /\ Mutexes
  BY <1>2, <1>3, <1>4 DEF Places, Mutexes
<1>6. PostedJob /\ Copies /\ NothingLeft
  BY <1>2, <1>3 DEF PostedJob, Copies, NothingLeft
<1>7. Claims
  BY <1>2, <1>3 DEF Claims
<1>8. Accounts /\ ReturnsComplete
  BY <1>2 DEF Accounts, ReturnsComplete, SomePosted
<1> QED
  BY <1>1, <1>5, <1>6, <1>7, <1>8 DEF IInv

\* The invariant only speaks of variables, so a step that changes none keeps it.
LEMMA IInvStutter == IInv /\ UNCHANGED vars => IInv'
<1> SUFFICES ASSUME IInv, UNCHANGED vars PROVE IInv'
  OBVIOUS
<1> USE DEF vars, shared, locals, InWork, Holding, Posted, Calling
<1>1. TypeOK'
  BY TypeStep DEF IInv
<1>2. Places' /\ Mutexes'
  BY DEF IInv, Places, Mutexes
<1>3. PostedJob' /\ ReturnsComplete'
  BY DEF IInv, PostedJob, ReturnsComplete
<1>4. Copies' /\ Claims'
  BY DEF IInv, Copies, Claims
<1>5. NothingLeft'
  BY DEF IInv, NothingLeft, SomePosted, Exhausted
<1>6. Accounts'
  BY QuietAccounts DEF IInv, SomePosted
<1> QED
  BY <1>1, <1>2, <1>3, <1>4, <1>5, <1>6 DEF IInv

\* Every step keeps the invariant.
LEMMA IInvStep == IInv /\ [Next]_vars => IInv'
<1> SUFFICES ASSUME IInv, [Next]_vars PROVE IInv'
  OBVIOUS
<1>1. TypeOK'
  BY TypeStep DEF IInv
<1>2. CASE UNCHANGED vars
  BY <1>2, IInvStutter
<1>3. CASE \E c \in Callers : CallerStep(c)
  BY <1>1, <1>3, CallStep, EnterStep, PostJobStep, PostTicketStep, NotifyWakeStep, LookStep,
     ClaimStep, RunStep, CountStep, NotifyFinishedStep, CallerGivesUpStep, FinishWaitStep,
     KeepWaitingStep, LeaveStep DEF CallerStep, Working
<1>4. CASE \E w \in Workers : WorkerStep(w)
  BY <1>1, <1>4, TakeJobStep, MissJobStep, StayIdleStep, ExitStep, LookStep, ClaimStep,
     RunStep, CountStep, NotifyFinishedStep, WorkerGivesUpStep DEF WorkerStep, Working
<1>5. CASE \E t \in Threads : Sleep(t) \/ SpuriousWake(t)
  BY <1>1, <1>5, SleepStep, SpuriousWakeStep
<1>6. CASE Stop \/ NotifyStop \/ Join
  BY <1>1, <1>6, StopStep, NotifyStopStep, JoinStep
<1> QED
  BY <1>2, <1>3, <1>4, <1>5, <1>6 DEF Next

\* The inductive invariant holds for every number of threads and indices and
\* every width of generation_.
THEOREM Invariance == Spec => []IInv
<1> QED BY IInvInit, IInvStep, PTL DEF Spec

-----------------------------------------------------------------------------
(* What follows from it *)

\* A caller whose job is posted is the one that holds call_mutex_, so it is
\* the only one.
LEMMA OnePosted ==
  ASSUME IInv, NEW c \in Callers, pc[c] \in Posted
  PROVE  callMutex = c /\ \A d \in Callers : pc[d] \in Calling => d = c
BY DEF IInv, Mutexes, Calling

\* fn is only ever run for an index of the call in progress, which no thread
\* ran it for before: no worker calls a fn that is gone (Loop and Work of
\* plume_parallel.h).
THEOREM NoDeadJob == Spec => []ClaimsAreLive
<1>1. IInv => ClaimsAreLive
  <2> SUFFICES ASSUME IInv, NEW t \in Threads, pc[t] = "run"
               PROVE  /\ fn[t] \in Callers /\ fn[t] = callMutex /\ pc[fn[t]] \in Posted
                      /\ tk[t].idx \in 0 .. n[fn[t]] - 1 /\ tk[t].idx \notin ran
    BY DEF ClaimsAreLive
  <2> USE DEF IInv
  <2>1. SomePosted
    BY DEF NothingLeft, SomePosted, InWork, Holding, Posted
  <2>2. PICK c \in Callers : pc[c] \in Posted
    BY <2>1 DEF SomePosted
  <2>3. callMutex = c
    BY <2>2, OnePosted
  <2>4. fn[t] = c
    <3>1. CASE t \in Callers
      BY <2>2, <3>1, OnePosted DEF PostedJob, Calling, Posted, InWork
    <3>2. CASE t \in Workers
      BY <2>2, <3>2 DEF Claims, Copies, PostedJob, Holding, InWork
    <3> QED
      BY <3>1, <3>2
  <2>5. tk[t].idx \in Nat /\ tk[t].idx < n[c]
    <3>1. tk[t] \in [gen : 0 .. GenMod - 1, idx : Nat]
      BY DEF TypeOK
    <3>2. ticket \in [gen : 0 .. GenMod - 1, idx : Nat]
      BY DEF TypeOK
    <3>3. tk[t].idx < ticket.idx /\ ticket.idx <= count /\ count = n[c]
      BY <2>2 DEF Claims, Holding, PostedJob
    <3> QED
      BY <3>1, <3>2, <3>3 DEF TypeOK
  <2>6. tk[t].idx \notin ran
    BY <2>1 DEF Accounts, RunSoFar
  <2>7. n[c] \in Nat
    <3>1. n[c] \in Counts \/ n[c] = 0
      BY DEF TypeOK
    <3>2. \A k \in Counts : k \in Nat
      OBVIOUS
    <3>3. CASE n[c] \in Counts
      BY <3>2, <3>3, Zenon
    <3>4. CASE n[c] = 0
      BY <3>4
    <3> QED
      BY <3>1, <3>3, <3>4
  <2> QED
    BY <2>2, <2>3, <2>4, <2>5, <2>6, <2>7
<1> QED BY <1>1, Invariance, PTL

\* ParallelFor returns only when fn was run for every index, and then no
\* worker is inside it any more.
THEOREM Complete == Spec => []ReturnsComplete
<1>1. IInv => ReturnsComplete
  BY DEF IInv
<1> QED BY <1>1, Invariance, PTL

\* A ParallelFor inside a job's fn is never left waiting for call_mutex_, which
\* its own job holds.
THEOREM NestedRunsInline == Spec => []NoSelfWait
<1>1. IInv => NoSelfWait
  BY DEF IInv, NoSelfWait, Mutexes, Places, Calling, Posted, InWork
<1> QED BY <1>1, Invariance, PTL

-----------------------------------------------------------------------------
(* Refinement *)

\* JobRunning names the caller whose job is posted.
LEMMA RunningIs ==
  ASSUME IInv
  PROVE  /\ \A c \in Callers : pc[c] \in Posted => JobRunning = c
         /\ ~SomePosted => JobRunning = NoThread
<1>1. \A c \in Callers : pc[c] \in Posted => callMutex = c
  BY OnePosted
<1>2. callMutex \in Callers \cup {NoThread}
  BY DEF IInv, TypeOK
<1> QED
  BY <1>1, <1>2 DEF JobRunning, SomePosted

\* A step that neither posts nor ends a job, nor runs an index, is a stutter.
LEMMA SameJob ==
  ASSUME IInv, IInv',
         \A c \in Callers : pc'[c] \in Posted <=> pc[c] \in Posted,
         SomePosted => UNCHANGED <<count, ran>>
  PROVE  UNCHANGED <<JobRunning, JobLeft>>
<1>1. SomePosted' <=> SomePosted
  BY DEF SomePosted
<1>2. /\ \A c \in Callers : pc'[c] \in Posted => JobRunning' = c
      /\ ~SomePosted' => JobRunning' = NoThread
  <2>1. /\ \A c \in Callers : pc'[c] \in Posted => callMutex' = c
    BY DEF IInv, Mutexes, Calling
  <2>2. callMutex' \in Callers \cup {NoThread}
    BY DEF IInv, TypeOK
  <2> QED
    BY <2>1, <2>2 DEF JobRunning, SomePosted
<1>3. JobRunning' = JobRunning
  BY <1>1, <1>2, RunningIs DEF SomePosted
<1>4. JobLeft' = JobLeft
  BY <1>1, <1>3, RunningIs DEF JobLeft
<1> QED
  BY <1>3, <1>4

\* WorkerPool implements ParallelJob: calls that share their work run one at a
\* time, each index of each exactly once, and a call returns when none is left.
THEOREM Refinement == Spec => ImplementsParallelJob
<1>1. Init => Promise!Init
  BY DEF Init, Promise!Init, JobRunning, JobLeft
<1>2. IInv /\ IInv' /\ [Next]_vars => [Promise!Next]_(Promise!jobVars)
  <2> SUFFICES ASSUME IInv, IInv', [Next]_vars
               PROVE  Promise!Next \/ UNCHANGED <<JobRunning, JobLeft>>
    BY DEF Promise!jobVars
  <2> USE DEF IInv
  <2>1. ASSUME NEW c \in Callers, PostTicket(c) PROVE Promise!Next
    <3>1. ~SomePosted
      BY <2>1, OnePosted DEF PostTicket, SomePosted, Calling, Posted, InWork
    <3>2. JobRunning = NoThread
      BY <3>1, RunningIs
    <3>3. pc'[c] \in Posted /\ ran' = {} /\ count' = n[c] /\ n[c] \in Counts
      BY <2>1 DEF PostTicket, PostedJob, TypeOK, Goto, Posted, Calling
    <3>4. JobRunning' = c /\ c # NoThread
      BY <3>3 DEF Mutexes, JobRunning, Calling
    <3>5. JobLeft' = 0 .. n[c] - 1
      BY <3>3, <3>4 DEF JobLeft
    <3> QED
      BY <3>2, <3>3, <3>4, <3>5 DEF Promise!Next, Promise!Begin
  <2>2. ASSUME NEW t \in Threads, Run(t) PROVE Promise!Next
    <3> DEFINE i == tk[t].idx
    <3>1. inside[t] /\ SomePosted
      BY <2>2 DEF Run, Mutexes, Places, NothingLeft, SomePosted, Holding, InWork, Posted, Calling
    <3>2. PICK c \in Callers : pc[c] \in Posted
      BY <3>1 DEF SomePosted
    <3>3. JobRunning = c /\ c # NoThread
      BY <3>2, RunningIs
    <3>4. JobRunning' = JobRunning
      BY <2>2, <3>1, <3>2, <3>3, OnePosted
         DEF Run, Goto, JobRunning, TypeOK, Posted, InWork, shared
    <3>5. i \in 0 .. count - 1
      <4>1. tk[t] \in [gen : 0 .. GenMod - 1, idx : Nat] /\ ticket \in [gen : 0 .. GenMod - 1, idx : Nat]
        BY DEF TypeOK
      <4>2. i < ticket.idx /\ ticket.idx <= count
        BY <2>2, <3>2 DEF Run, Claims, Holding, PostedJob
      <4>3. count \in Nat
        BY DEF TypeOK
      <4> QED
        BY <4>1, <4>2, <4>3
    <3>6. i \notin ran
      BY <2>2, <3>1 DEF Run, Accounts, RunSoFar
    <3>7. JobLeft' = JobLeft \ {i} /\ i \in JobLeft
      BY <2>2, <3>3, <3>4, <3>5, <3>6 DEF Run, JobLeft, shared
    <3> QED
      BY <3>3, <3>4, <3>7 DEF Promise!Next, Promise!RunIndex
  <2>3. ASSUME NEW c \in Callers, FinishWait(c) PROVE Promise!Next
    <3>1. JobRunning = c /\ c # NoThread
      BY <2>3, RunningIs DEF FinishWait, Posted
    <3>2. ran = 0 .. count - 1
      BY <2>3, AllCounted DEF FinishWait, SomePosted, PostedJob, Posted
    <3>3. ~SomePosted'
      BY <2>3, OnePosted DEF FinishWait, SomePosted, Goto, TypeOK, Posted, InWork, Calling
    <3>4. JobRunning' = NoThread
      BY <3>3 DEF JobRunning, SomePosted, TypeOK
    <3> QED
      BY <3>1, <3>2, <3>4 DEF JobLeft, Promise!Next, Promise!Return
  <2>4. ASSUME NEW c \in Callers, Call(c) \/ Enter(c) \/ PostJob(c) \/ NotifyWake(c)
               \/ KeepWaiting(c) \/ Leave(c) \/ CallerGivesUp(c)
        PROVE  UNCHANGED <<JobRunning, JobLeft>>
    <3>1. \A d \in Callers : pc'[d] \in Posted <=> pc[d] \in Posted
      BY <2>4 DEF Call, Enter, PostJob, NotifyWake, KeepWaiting, Leave, CallerGivesUp, Load,
                  Goto, TypeOK, Posted, InWork
    <3>2. SomePosted => UNCHANGED <<count, ran>>
      BY <2>4, OnePosted DEF Call, Enter, PostJob, NotifyWake, KeepWaiting, Leave,
                  CallerGivesUp, SomePosted, Posted, InWork, Calling, shared
    <3> QED
      BY <3>1, <3>2, SameJob
  <2>5. ASSUME NEW t \in Threads, Look(t) \/ Claim(t) \/ Count(t) \/ NotifyFinished(t)
               \/ Sleep(t) \/ SpuriousWake(t)
        PROVE  UNCHANGED <<JobRunning, JobLeft>>
    <3>1. \A d \in Callers : pc'[d] \in Posted <=> pc[d] \in Posted
      BY <2>5 DEF Look, Claim, Count, NotifyFinished, Sleep, SpuriousWake, Load,
                  Goto, TypeOK, Posted, InWork
    <3>2. UNCHANGED <<count, ran>>
      BY <2>5 DEF Look, Claim, Count, NotifyFinished, Sleep, SpuriousWake, shared
    <3> QED
      BY <3>1, <3>2, SameJob
  <2>6. ASSUME NEW w \in Workers, TakeJob(w) \/ MissJob(w) \/ StayIdle(w) \/ Exit(w)
               \/ WorkerGivesUp(w)
        PROVE  UNCHANGED <<JobRunning, JobLeft>>
    <3>1. \A d \in Callers : pc'[d] \in Posted <=> pc[d] \in Posted
      BY <2>6 DEF TakeJob, MissJob, StayIdle, Exit, WorkerGivesUp, Goto, TypeOK
    <3>2. UNCHANGED <<count, ran>>
      BY <2>6 DEF TakeJob, MissJob, StayIdle, Exit, WorkerGivesUp, shared
    <3> QED
      BY <3>1, <3>2, SameJob
  <2>7. CASE Stop \/ NotifyStop \/ Join
    <3>1. \A d \in Callers : pc'[d] \in Posted <=> pc[d] \in Posted
      BY <2>7 DEF Stop, NotifyStop, Join, TypeOK
    <3>2. UNCHANGED <<count, ran>>
      BY <2>7 DEF Stop, NotifyStop, Join, shared
    <3> QED
      BY <3>1, <3>2, SameJob
  <2>8. CASE UNCHANGED vars
    BY <2>8 DEF vars, shared, locals, JobRunning, JobLeft
  <2> QED
    BY <2>1, <2>2, <2>3, <2>4, <2>5, <2>6, <2>7, <2>8
       DEF Next, CallerStep, WorkerStep, Working
<1> QED
  BY <1>1, <1>2, Invariance, PTL DEF Spec, ImplementsParallelJob, Promise!Spec

=============================================================================
