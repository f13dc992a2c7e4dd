-------------------------------- MODULE Tui --------------------------------
(***************************************************************************)
(* tui.application.TuiApplication around its ExtractionJob: the screens,   *)
(* the keys that drive them, and _run_job, the background task that runs   *)
(* one extraction and then takes the screen over.                          *)
(*                                                                         *)
(* A key handler is one step: prompt_toolkit calls it from the event loop. *)
(* Keys typed ahead are handled one after another before any task runs, so *)
(* a key may arrive between _start and the first step of the run it makes. *)
(* The Start button keeps the focus, and with it the Enter key, when the   *)
(* screen changes to RUNNING: _start does not move the focus.              *)
(*                                                                         *)
(* `running` is false at two moments of a run that has not ended: before   *)
(* its task has begun, and once the child has exited but its output has    *)
(* not been read to the end.  A hasty user is one whose keys arrive then,  *)
(* or who presses Enter again while an extraction runs.                    *)
(***************************************************************************)
EXTENDS ExtractionJob

CONSTANT HastyRuns   \* bound: the runs that a hasty user starts

ASSUME TuiAssumption == HastyRuns \in Nat

VARIABLES
  hasty,                          \* what the user is like
  screen, error, pending, help,   \* of AppState; pending is cancel_pending
  shown,                          \* the output shown: a run's, Opened, or None
  onStart,                        \* the Start button has the focus
  exiting,                        \* the application has been told to exit
  closed,                         \* asyncio.run has torn the loop down
  confirmed                       \* history: runs whose cancellation was confirmed

ui == <<hasty, screen, error, pending, help, shown, onStart, exiting, closed, confirmed>>
tuiVars == <<jobVars, ui>>

Opened == MaxRuns + 1
Screens == {"home", "open", "setup", "running", "results"}
SomeActive == \E r \in Runs : pc[r] \in Active

TuiInit ==
  /\ JobInit /\ hasty \in BOOLEAN
  /\ screen = "home" /\ error = "none" /\ pending = FALSE /\ help = FALSE
  /\ shown = None /\ onStart = FALSE
  /\ exiting = FALSE /\ closed = FALSE /\ confirmed = {}

-----------------------------------------------------------------------------
(* AppState.show and fail, and the methods that use them.                  *)

Show(s) == screen' = s /\ error' = "none"
Fail(message) == error' = message /\ UNCHANGED <<screen, shown, onStart>>

ShowHome == Show("home") /\ onStart' = FALSE /\ UNCHANGED shown
ShowResults(output) == Show("results") /\ onStart' = FALSE /\ shown' = output

\* load_output succeeds or raises OutputError.
Load(output) == ShowResults(output) \/ Fail("output")

RunJobEndsPending(r) ==   \* mutant: a failed launch leaves the question open
  \/ /\ result'[r].kind \in {"refused", "error", "dropped"}
     /\ UNCHANGED <<screen, error, shown, onStart, pending>>
  \/ result'[r].kind = "oserror" /\ UNCHANGED pending /\ Fail("start")
  \/ /\ result'[r].kind = "returned" /\ pending' = FALSE
     /\ IF result'[r].cancelled THEN Fail("cancelled")
        ELSE IF result'[r].code = "nonzero" THEN Fail("failed") ELSE Load(r)

RunJobEndsUncaught(r) ==   \* mutant: OSError is not caught either
  \/ /\ result'[r].kind # "returned"
     /\ UNCHANGED <<screen, error, shown, onStart, pending>>
  \/ /\ result'[r].kind = "returned" /\ pending' = FALSE
     /\ IF result'[r].cancelled THEN Fail("cancelled")
        ELSE IF result'[r].code = "nonzero" THEN Fail("failed") ELSE Load(r)

\* The rest of _run_job when job.run returns or raises: it catches OSError only.
RunJobEnds(r) ==
  \/ /\ result'[r].kind \in {"refused", "error", "dropped"}
     /\ UNCHANGED <<screen, error, shown, onStart, pending>>
  \/ result'[r].kind = "oserror" /\ pending' = FALSE /\ Fail("start")
  \/ /\ result'[r].kind = "returned" /\ pending' = FALSE
     /\ IF result'[r].cancelled THEN Fail("cancelled")
        ELSE IF result'[r].code = "nonzero" THEN Fail("failed") ELSE Load(r)

\* A step of the loop, and of _run_job if it ends a run.
Background ==
  /\ (LoopStep /\ ~closed) \/ ChildStep
  /\ IF result' = result THEN UNCHANGED <<screen, error, shown, onStart, pending>>
     ELSE \E r \in Runs : result'[r] # result[r] /\ RunJobEnds(r)
  /\ UNCHANGED <<hasty, help, exiting, closed, confirmed>>

-----------------------------------------------------------------------------
(* The keys.                                                               *)

Listening ==
  /\ ~exiting /\ ~help
  /\ hasty \/ Running \/ ~SomeActive

Choose ==
  /\ Listening /\ screen = "home"
  /\ Show("setup") \/ Show("open")
  /\ onStart' = FALSE
  /\ UNCHANGED <<hasty, jobVars, pending, help, shown, exiting, closed, confirmed>>

\* The Back buttons and go_back.
Back ==
  /\ Listening /\ screen \in {"setup", "open", "results"}
  /\ ShowHome
  /\ UNCHANGED <<hasty, jobVars, pending, help, exiting, closed, confirmed>>

OpenOutput ==
  /\ Listening /\ screen = "open"
  /\ Load(Opened)
  /\ UNCHANGED <<hasty, jobVars, pending, help, exiting, closed, confirmed>>

\* Tab and Shift-Tab among the controls that are visible.
MoveFocus ==
  /\ Listening /\ screen = "setup"
  /\ onStart' = ~onStart
  /\ UNCHANGED <<hasty, jobVars, screen, error, pending, help, shown, exiting, closed, confirmed>>

\* _start: refuse a missing input, or show RUNNING and create the task.
Start ==
  /\ Listening /\ onStart /\ screen \in {"setup", "running"}
  /\ hasty \/ ~SomeActive
  /\ \/ Fail("input") /\ UNCHANGED jobVars
     \/ \E r \in Runs : /\ hasty => r <= HastyRuns
                        /\ Show("running") /\ Enqueue(r) /\ UNCHANGED <<shown, onStart>>
  /\ UNCHANGED <<hasty, pending, help, exiting, closed, confirmed>>

CancelJobAway ==   \* mutant: the second Ctrl-C goes home without waiting for the end
  /\ Listening /\ screen = "running"
  /\ \/ ~Running /\ ShowHome /\ UNCHANGED <<jobVars, pending, confirmed>>
     \/ /\ Running /\ ~pending /\ pending' = TRUE
        /\ UNCHANGED <<jobVars, screen, error, shown, onStart, confirmed>>
     \/ /\ Running /\ pending
        /\ \E c \in Cancels : Enqueue(c)
        /\ confirmed' = confirmed \union {r \in Runs : pc[r] \in Active \ {"queued"}}
        /\ ShowHome /\ UNCHANGED pending
  /\ UNCHANGED <<hasty, help, exiting, closed>>

CancelJob ==
  /\ Listening /\ screen = "running"
  /\ \/ ~Running /\ ShowHome /\ UNCHANGED <<jobVars, pending, confirmed>>
     \/ /\ Running /\ ~pending /\ pending' = TRUE
        /\ UNCHANGED <<jobVars, screen, error, shown, onStart, confirmed>>
     \/ /\ Running /\ pending
        /\ \E c \in Cancels : Enqueue(c)
        /\ confirmed' = confirmed \union {r \in Runs : pc[r] \in Active \ {"queued"}}
        /\ UNCHANGED <<screen, error, shown, onStart, pending>>
  /\ UNCHANGED <<hasty, help, exiting, closed>>

KeepRunningAway ==   \* mutant: Esc leaves the screen whatever the job does
  /\ Listening /\ screen = "running"
  /\ ShowHome
  /\ UNCHANGED <<hasty, pending, jobVars, help, exiting, closed, confirmed>>

KeepRunning ==
  /\ Listening /\ screen = "running"
  /\ \/ ~Running /\ ShowHome /\ UNCHANGED pending
     \/ Running /\ pending' = FALSE /\ UNCHANGED <<screen, error, shown, onStart>>
  /\ UNCHANGED <<hasty, jobVars, help, exiting, closed, confirmed>>

ToggleHelp ==
  /\ ~exiting
  /\ help' = ~help /\ onStart' = FALSE
  /\ UNCHANGED <<hasty, jobVars, screen, error, pending, shown, exiting, closed, confirmed>>

Quit ==
  /\ Listening /\ screen = "home"
  /\ exiting' = TRUE
  /\ UNCHANGED <<hasty, jobVars, screen, error, pending, help, shown, onStart, closed, confirmed>>

\* On exit the application cancels its background tasks and waits for them.
ExitRun(r) == exiting /\ CancelTask(r) /\ UNCHANGED ui
ExitCancel(c) ==
  /\ exiting /\ pc[c] \in {"queued", "stopping"}
  /\ pc' = [pc EXCEPT ![c] = "over"]
  /\ IF pc[c] = "queued" THEN Without(<<"begin", c>>) ELSE UNCHANGED ready
  /\ timers' = {w \in timers : w[1] # c}
  /\ UNCHANGED <<target, drain, result, object, children, stop, drained, sig, history, ui>>

\* asyncio.run cancels what is left on the loop, shielded or not, and closes it.
Teardown ==
  /\ exiting /\ ~closed /\ \A t \in Tasks : pc[t] \notin Active
  /\ closed' = TRUE
  /\ ready' = <<>> /\ timers' = {} /\ drained' = {}
  /\ UNCHANGED <<pc, target, drain, result, object, children, stop, sig, history,
                 hasty, screen, error, pending, help, shown, onStart, exiting, confirmed>>

Exiting == (\E r \in Runs : ExitRun(r)) \/ (\E c \in Cancels : ExitCancel(c)) \/ Teardown

Keys ==
  \/ Choose \/ Back \/ OpenOutput \/ MoveFocus \/ Start
  \/ CancelJob \/ KeepRunning \/ ToggleHelp \/ Quit

TuiNext == Background \/ Keys \/ Exiting

TuiSpec ==
  /\ TuiInit /\ [][TuiNext]_tuiVars
  /\ LoopFairness
  /\ \A r \in Runs : WF_tuiVars(ExitRun(r))
  /\ \A c \in Cancels : WF_tuiVars(ExitCancel(c))

-----------------------------------------------------------------------------
(* "Ctrl-C Cancel a running extraction": as long as an extraction is alive *)
(* its screen is the one shown and the job admits to be running, or no key *)
(* could cancel it (_start, cancel_job, keep_running and ExtractionJob).   *)
CtrlCWorks ==
  \A p \in Runs : os[p] = "alive" /\ ~exiting => screen = "running" /\ Running

(* So it is for a user who does not type ahead.                            *)
Cancellable == ~hasty => CtrlCWorks

(* For that user a run ends on its own screen, on every way it can end:    *)
(* its results or its error never take another screen over, where somebody *)
(* types a path by then (_run_job, _show_results, and the keys that leave).*)
OnScreen == ~hasty /\ SomeActive /\ ~exiting => screen = "running"

(* For that user the question "Cancel extraction?" never outlives the run  *)
(* it was asked about; else one Ctrl-C would cancel the next run without   *)
(* asking (cancel_pending in cancel_job, keep_running and _run_job).       *)
PendingBelongs == ~hasty /\ pending => SomeActive

(* For that user the running screen never stays behind: once no run is     *)
(* left it tells what happened instead of counting seconds (_run_job,      *)
(* _running_text).                                                         *)
NoFrozenScreen == ~hasty /\ screen = "running" /\ ~SomeActive /\ ~exiting => error # "none"

(* For that user the second Ctrl-C works: whatever the extraction is doing *)
(* then, also just starting or ignoring SIGTERM, the run ends (cancel_job, *)
(* cancel).                                                                *)
CancelLands == \A r \in Runs : ~hasty /\ r \in confirmed ~> pc[r] = "over"

(* Leaving the program leaves no extraction behind: once the loop is gone  *)
(* no child is alive that has not been sent SIGKILL (the cancellation of   *)
(* the background tasks, run's handlers and their _stop_and_drain).  Not   *)
(* so when it is cancelled while its output is being rejected: the second  *)
(* reader of the output breaks, and the run ends before its _stop() does.  *)
QuitStops ==
  closed => \A p \in Runs : os[p] = "alive" => sig[p] = "kill" \/ drain[p] = Broken
=============================================================================
