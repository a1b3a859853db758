-------------------------- MODULE PresentPipeline --------------------------
(***************************************************************************)
(* Presenting in PlumeGraphicsSystem (src/rexglue/src/plume_renderer/      *)
(* plume_graphics_system.cpp): the title's thread draws into the ring of   *)
(* snapshots, marks the end of its frame and hands the frame over          *)
(* (PresentGuestFrame), one frame in flight at a time; the present worker  *)
(* takes the ring and shows it (PresentClearColorOnUiThread); Shutdown     *)
(* stops the worker.                                                       *)
(*                                                                         *)
(* present_flight_mutex_ is held for one step at a time only.              *)
(* present_request_mutex_ is what keeps a step from coming between the     *)
(* worker's predicate and its sleep ("dozing"); StopPresentWorker does not *)
(* take it.                                                                *)
(***************************************************************************)
EXTENDS SnapshotRing

CONSTANTS
  Quirks,     \* what the title and the system may do: see below
  MaxFrames,  \* bound: frames the title draws
  MaxDraws    \* bound: draws of a frame

\* "slow": a frame takes the worker longer than the two seconds the title
\* waits, and the Swap hook presents as well because nothing was presented for
\* a while; "unmarked": the title presents without a Swap, as the intro does;
\* "video": it draws a movie's frames; "surface": the window is gone for a while,
\* or the swap chain cannot follow its size or has no image to give.
ASSUME QuirksAssumption == Quirks \subseteq {"slow", "unmarked", "video", "surface"}
ASSUME BoundsAssumption == MaxFrames \in Nat /\ MaxDraws \in Nat

\* Entries are known by the title's frame, and whether they end it.
FrameEntries == [frame : 1 .. MaxFrames + 1, end : BOOLEAN]
FrameEnds == {e \in FrameEntries : e.end}
ASSUME FramesAssumption == Entries = FrameEntries /\ Ends = FrameEnds

VARIABLES
  title,     \* the title's thread: its place, and the PresentGuestFrame calls it has left
  frame,     \* the frame it draws
  drawn,     \* the draws of it so far
  worker,    \* the present worker's place
  running,   \* present_worker_running_
  pending,   \* present_request_pending_
  inFlight,  \* present_in_flight_
  ready,     \* swapchain_->IsReady(): the set-up, before the title, got that far
  quit,      \* Shutdown's place in StopPresentWorker
  shown,     \* history: the last frame whose end went to the screen
  lost,      \* history: the last frame whose end was lost on its way there
  calls,     \* history: frames handed over since the title's last Swap, up to 3
  missed,    \* history: a frame was not handed over
  unheard    \* history: StopPresentWorker's notification found nobody asleep yet

history == <<shown, lost, calls, missed, unheard>>
vars == <<ringVars, title, frame, drawn, worker, running, pending, inFlight, ready, quit, history>>

Title(place, left) == [pc |-> place, left |-> left]

Init ==
  /\ RingInit
  /\ title = Title("draw", 0)
  /\ frame = 1 /\ drawn = 0
  /\ worker = "none"
  /\ running = FALSE /\ pending = FALSE /\ inFlight = FALSE
  /\ ready \in BOOLEAN
  /\ quit = "no"
  /\ shown = 0 /\ lost = 0 /\ calls = 0 /\ missed = FALSE /\ unheard = FALSE

-----------------------------------------------------------------------------
(* The title's thread *)

\* A draw, a clear or a copy of the frame; or a movie's frame.
Draw ==
  /\ title.pc = "draw"
  /\ frame <= MaxFrames /\ drawn < MaxDraws
  /\ LET e == [frame |-> frame, end |-> FALSE]
     IN Push(e) \/ ("video" \in Quirks /\ PushVideo(e))
  /\ drawn' = drawn + 1
  /\ UNCHANGED <<title, frame, worker, running, pending, inFlight, ready, quit, history>>

\* D3DDevice_Swap: the frame ends, and is presented by VdSwap, also by the hook
\* when nothing was for a while.
Swap ==
  /\ title.pc = "draw"
  /\ frame <= MaxFrames
  /\ Push([frame |-> frame, end |-> TRUE])
  /\ \E left \in {1} \cup (IF "slow" \in Quirks THEN {2} ELSE {}) : title' = Title("present", left)
  /\ frame' = frame + 1 /\ drawn' = 0 /\ calls' = 0
  /\ UNCHANGED <<worker, running, pending, inFlight, ready, quit, shown, lost, missed, unheard>>

\* VdSwap without a Swap of the device.
SwapUnmarked ==
  /\ "unmarked" \in Quirks
  /\ title.pc = "draw"
  /\ frame <= MaxFrames
  /\ title' = Title("present", 1)
  /\ UNCHANGED <<ringVars, frame, drawn, worker, running, pending, inFlight, ready, quit, history>>

\* Where the title goes on after a call of PresentGuestFrame.
Return == title' = IF title.left > 1 THEN Title("present", title.left - 1) ELSE Title("draw", 0)

\* PresentGuestFrame without a swap chain: nothing.
PresentNothing ==
  /\ title.pc = "present"
  /\ ~ready
  /\ missed' = TRUE
  /\ Return
  /\ UNCHANGED <<ringVars, frame, drawn, worker, running, pending, inFlight, ready, quit, shown, lost, calls, unheard>>

\* Its start, with StartPresentWorker: the worker, unless it runs.
StartPresentWorker ==
  /\ title.pc = "present"
  /\ ready
  /\ running' = TRUE
  /\ worker' = IF running THEN worker ELSE "test"
  /\ title' = Title("flight", title.left)
  /\ UNCHANGED <<ringVars, frame, drawn, pending, inFlight, ready, quit, history>>

\* Mutant of WaitForFlight: the frame is dropped when one is in flight.
WaitForFlight_Drops ==
  /\ title.pc = "flight"
  /\ IF inFlight THEN Return /\ UNCHANGED inFlight
                 ELSE title' = Title("hand", title.left) /\ inFlight' = TRUE
  /\ UNCHANGED <<ringVars, frame, drawn, worker, running, pending, ready, quit, history>>

\* The wait for the frame in flight, which the next one then is.
WaitForFlight ==
  /\ title.pc = "flight"
  /\ IF inFlight THEN title' = Title("asleep", title.left) /\ UNCHANGED inFlight
                 ELSE title' = Title("hand", title.left) /\ inFlight' = TRUE
  /\ UNCHANGED <<ringVars, frame, drawn, worker, running, pending, ready, quit, history>>

\* Mutant of GiveUp: the frame is handed over all the same.
GiveUp_HandsOver ==
  /\ "slow" \in Quirks
  /\ title.pc = "asleep"
  /\ inFlight
  /\ title' = Title("hand", title.left)
  /\ UNCHANGED <<ringVars, frame, drawn, worker, running, pending, inFlight, ready, quit, history>>

\* Two seconds have passed: the frame is not handed over.
GiveUp ==
  /\ "slow" \in Quirks
  /\ title.pc = "asleep"
  /\ inFlight
  /\ missed' = TRUE
  /\ Return
  /\ UNCHANGED <<ringVars, frame, drawn, worker, running, pending, inFlight, ready, quit, shown, lost, calls, unheard>>

\* Mutant of HandOver: the request is made without the mutex.
HandOver_Unlocked ==
  /\ title.pc = "hand"
  /\ pending' = TRUE
  /\ calls' = IF calls < 3 THEN calls + 1 ELSE calls
  /\ title' = Title("notify", title.left)
  /\ UNCHANGED <<ringVars, frame, drawn, worker, running, inFlight, ready, quit, shown, lost, missed, unheard>>

\* The request, under present_request_mutex_.
HandOver ==
  /\ title.pc = "hand"
  /\ worker # "dozing"
  /\ pending' = TRUE
  /\ calls' = IF calls < 3 THEN calls + 1 ELSE calls
  /\ title' = Title("notify", title.left)
  /\ UNCHANGED <<ringVars, frame, drawn, worker, running, inFlight, ready, quit, shown, lost, missed, unheard>>

\* Whoever sleeps on present_request_cv_ looks again.
Woken == IF worker = "asleep" THEN "test" ELSE worker

NotifyRequest ==
  /\ title.pc = "notify"
  /\ worker' = Woken
  /\ Return
  /\ UNCHANGED <<ringVars, frame, drawn, running, pending, inFlight, ready, quit, history>>

TitleStep ==
  \/ PresentNothing \/ StartPresentWorker \/ WaitForFlight \/ HandOver \/ NotifyRequest

-----------------------------------------------------------------------------
(* The present worker *)

\* The wait's predicate, with the mutex: to stop, to take the request, or to
\* sleep, which lets go of the mutex (Doze).
Test ==
  /\ worker = "test"
  /\ worker' = IF ~running THEN "gone" ELSE IF pending THEN "take" ELSE "dozing"
  /\ pending' = (pending /\ ~running)
  /\ UNCHANGED <<ringVars, title, frame, drawn, running, inFlight, ready, quit, history>>

Doze ==
  /\ worker = "dozing"
  /\ worker' = "asleep"
  /\ UNCHANGED <<ringVars, title, frame, drawn, running, pending, inFlight, ready, quit, history>>

\* A wait may end without a notification, which is looked at as any other.
WakeForNothing ==
  /\ \/ worker = "asleep" /\ worker' = "test" /\ UNCHANGED title
     \/ title.pc = "asleep" /\ title' = Title("flight", title.left) /\ UNCHANGED worker
  /\ UNCHANGED <<ringVars, frame, drawn, running, pending, inFlight, ready, quit, history>>

\* PresentClearColorOnUiThread. IsReady() holds: only with it is there a worker,
\* and nothing clears it before Shutdown has joined the worker, a window that is
\* gone does not.
TakeRing ==
  /\ worker = "take"
  /\ Take
  /\ worker' = "show"
  /\ UNCHANGED <<title, frame, drawn, running, pending, inFlight, ready, quit, history>>

\* The frames that end in what was taken; and, as a set of one, the last of them,
\* or before when there is none.
EndedIn(s) == {s[i].frame : i \in {j \in DOMAIN s : s[j].end}}
LastEnded(before) ==
  IF EndedIn(taken) = {} THEN {before} ELSE {f \in EndedIn(taken) : \A g \in EndedIn(taken) : g <= f}

\* Its rest: what was taken is drawn and put on the screen, which stays as it is
\* when there is nothing to draw.
Show ==
  /\ worker = "show"
  /\ shown' \in LastEnded(shown)
  /\ worker' = "land"
  /\ UNCHANGED <<ringVars, title, frame, drawn, running, pending, inFlight, ready, quit, lost, calls, missed, unheard>>

\* ClearAndPresent returns early: no window, no framebuffers of its size or no
\* image to draw to. What was taken from the ring is gone all the same.
Lose ==
  /\ "surface" \in Quirks
  /\ worker = "show"
  /\ lost' \in LastEnded(lost)
  /\ worker' = "land"
  /\ UNCHANGED <<ringVars, title, frame, drawn, running, pending, inFlight, ready, quit, shown, calls, missed, unheard>>

Land ==
  /\ worker = "land"
  /\ inFlight' = FALSE
  /\ worker' = "tell"
  /\ UNCHANGED <<ringVars, title, frame, drawn, running, pending, ready, quit, history>>

\* Mutant of Tell: nobody is told.
Tell_Nobody ==
  /\ worker = "tell"
  /\ worker' = "test"
  /\ UNCHANGED <<ringVars, title, frame, drawn, running, pending, inFlight, ready, quit, history>>

Tell ==
  /\ worker = "tell"
  /\ title' = IF title.pc = "asleep" THEN Title("flight", title.left) ELSE title
  /\ worker' = "test"
  /\ UNCHANGED <<ringVars, frame, drawn, running, pending, inFlight, ready, quit, history>>

WorkerStep == Test \/ Doze \/ TakeRing \/ Show \/ Lose \/ Land \/ Tell

-----------------------------------------------------------------------------
(* The end *)

\* Shutdown, once the title's thread has ended: StopPresentWorker clears the flag.
Stop ==
  /\ quit = "no"
  /\ title.pc = "draw"
  /\ title' = Title("gone", 0)
  /\ running' = FALSE
  /\ quit' = IF running THEN "notify" ELSE "down"
  /\ UNCHANGED <<ringVars, frame, drawn, worker, pending, inFlight, ready, history>>

\* Mutant of NotifyStop: the worker is not woken.
NotifyStop_Not ==
  /\ quit = "notify"
  /\ quit' = "join"
  /\ UNCHANGED <<ringVars, title, frame, drawn, worker, running, pending, inFlight, ready, history>>

\* It notifies, without present_request_mutex_.
NotifyStop ==
  /\ quit = "notify"
  /\ worker' = Woken
  /\ unheard' = (worker = "dozing")
  /\ quit' = "join"
  /\ UNCHANGED <<ringVars, title, frame, drawn, running, pending, inFlight, ready, shown, lost, calls, missed>>

Join ==
  /\ quit = "join"
  /\ worker = "gone"
  /\ quit' = "down"
  /\ UNCHANGED <<ringVars, title, frame, drawn, worker, running, pending, inFlight, ready, history>>

Next ==
  \/ Draw \/ Swap \/ SwapUnmarked \/ TitleStep \/ GiveUp
  \/ WorkerStep \/ WakeForNothing
  \/ Stop \/ NotifyStop \/ Join

\* The threads are scheduled, and the title gets the mutex of the requests if it
\* keeps asking. What it draws and when it ends is its own affair; the two
\* seconds are not counted on, nor are waits that end for nothing.
Fairness ==
  /\ SF_vars(TitleStep)
  /\ WF_vars(WorkerStep)
  /\ WF_vars(NotifyStop \/ Join)

Spec == Init /\ [][Next]_vars
FairSpec == Spec /\ Fairness

-----------------------------------------------------------------------------
(* Types *)

\* The variables have their types.
TypeOK ==
  /\ RingTypeOK
  /\ title \in [pc : {"draw", "present", "flight", "asleep", "hand", "notify", "gone"}, left : 0 .. 2]
  /\ frame \in 1 .. MaxFrames + 1 /\ drawn \in 0 .. MaxDraws
  /\ worker \in {"none", "test", "dozing", "asleep", "take", "show", "land", "tell", "gone"}
  /\ running \in BOOLEAN /\ pending \in BOOLEAN /\ inFlight \in BOOLEAN /\ ready \in BOOLEAN
  /\ quit \in {"no", "notify", "join", "down"}
  /\ {shown, lost} \subseteq 0 .. MaxFrames + 1
  /\ calls \in 0 .. 3 /\ missed \in BOOLEAN /\ unheard \in BOOLEAN

-----------------------------------------------------------------------------
(* Safety *)

Presenting == worker \in {"take", "show", "land"}

\* One frame in flight at a time: when the title hands a frame over, no other is
\* waiting for the worker or with it, however long the title waited (the wait
\* and the time-out of PresentGuestFrame against the worker).
OneFrameInFlight == title.pc = "hand" => ~pending /\ ~Presenting

\* The last frame that the worker was done with: on the screen, or lost on its
\* way there.
Presented == IF lost > shown THEN lost ELSE shown

\* The title "can never get more than a frame ahead of what is on screen"
\* (plume_graphics_system.cpp:2047), as far as its frames were handed over and not
\* lost on the way: of the frames it ended, all but one have been presented when
\* it draws the next. That a frame was lost is no excuse for those after it.
AheadByOne == title.pc = "draw" /\ ~missed => frame - 1 <= Presented + 1

\* A frame is not shown before its end is there, unless a movie plays, the ring
\* fills up, or the title presented three times since its last Swap: with a Swap
\* in each frame holding back once is enough, though a present may take the end
\* of the frame that the next one was called for.
PartsAreOverdue ==
  [][worker = "take" /\ worker' = "show" /\ taken' # <<>> /\ ~taken'[Len(taken')].end
     => videoSeen \/ count >= Size \div 2 \/ calls >= 3]_vars

-----------------------------------------------------------------------------
(* Liveness *)

\* A title that waits for the frame in flight is let go, without the two seconds.
TitleLetGo == title.pc \in {"flight", "asleep"} ~> title.pc \notin {"flight", "asleep"}

\* A frame that ended is shown, or a later one, or lost with the window on its
\* way to the screen, unless one was not handed over; no frame stays in the ring.
EndedIsShown ==
  \A f \in 1 .. MaxFrames : frame = f + 1 ~> Presented >= f \/ missed \/ title.pc = "gone"

\* StopPresentWorker's join returns, unless its notification, sent without the
\* mutex, came between the worker's predicate and its sleep.
StopEnds == quit = "notify" ~> quit = "down" \/ unheard

=============================================================================
