--------------------------- MODULE TraceHandshake ---------------------------
(***************************************************************************)
(* How a solver thread is traced by the GOBLET browser: the trace part of  *)
(* the messenger (shell_src/messenger.cpp), the handlers of the shell that *)
(* call it (shell_src/goshMain.cpp), the polling loop of CallSolver        *)
(* (tcl/menuOptimize.tk), and the buttons of the tracing bar               *)
(* (tcl/mainIconbars.tk).                                                  *)
(*                                                                         *)
(* The solver writes a trace file, raises the trace event, and spins until *)
(* somebody takes the event back.  The browser polls, shows a file it has  *)
(* not seen, and takes the event back at once or, when single stepping, on *)
(* a button.  One job is followed from SolverSignalStarted until CallSolver*)
(* leaves its loop.                                                        *)
(*                                                                         *)
(* A trace file is named by the file counter, which starts anew after      *)
(* LastFile, so a name is used again, and the browser compares names only. *)
(* What a file holds is a frame; the frames of the job are numbered in the *)
(* order in which they are written, and 0 is any frame of an earlier job.  *)
(***************************************************************************)
EXTENDS Integers, TLAPS

CONSTANTS
  CommLevels,       \* goblinCommLevel: 1 events, 2 polling, 3 with traces
  LastFile,         \* the last value of the file counter (10000)
  Counters,         \* its values when a job begins
  MaxWork,          \* bound on the log entries and trace points of the job
  MaxLevel,         \* bound on the nesting of log entries
  Users             \* "careful": steps only when CallSolver waits for it;
                    \* "free": steps, opens and closes the canvas at any time

ASSUME FileTypes  == LastFile \in Nat /\ Counters \subseteq 0 .. LastFile
ASSUME LevelType  == CommLevels \subseteq 1 .. 3
ASSUME BoundTypes == MaxWork \in Nat /\ MaxLevel \in Nat
ASSUME UserTypes  == Users \subseteq {"careful", "free"}

VARIABLES
  commLevel,        \* goblinCommLevel, fixed while the job runs
  user,             \* who sits at the browser
  signalHalt,       \* state of the solver, under solverStateLock
  traceEvent,       \* the unacknowledged trace event, under traceEventLock
  cTraceFile,       \* the most recent trace file, under traceLock
  fileCounter,      \* the number in the name of the last trace file
  frame,            \* the number of frames written
  disk,             \* the frame in every trace file
  logLevel,         \* nesting of the solver's log entries
  breakLevel,       \* deepest level at which traces are announced
  masterEvent,      \* goblinMasterEvent was written since vwait began
  wpc,              \* what the worker does next
  work,             \* what is left of MaxWork
  gpc,              \* what CallSolver does next
  canvas,           \* the canvas is open
  SingleStep,       \* the browser waits for a button at every trace
  TraceLock,        \* ... and it waits now
  traceFile,        \* the file read in this turn of the loop
  fresh,            \* ... and whether it is a new one (retState = 0)
  prevTraceFile,    \* the file shown last
  screen            \* the frame it held then

messenger == <<signalHalt, traceEvent, cTraceFile>>
setting   == <<commLevel, user>>
files     == <<fileCounter, frame, disk>>
context   == <<setting, files, logLevel, breakLevel>>
worker    == <<wpc, work>>
browser   == <<gpc, canvas, SingleStep, TraceLock, traceFile, fresh, prevTraceFile, screen>>

vars == <<messenger, context, masterEvent, worker, browser>>

Files  == 0 .. LastFile
NoFile == -1
Frames == 0 .. MaxWork
Levels == 0 .. MaxLevel

\* Type invariant; the nesting of log entries is closed as often as it is opened.
TypeOK ==
  /\ commLevel \in CommLevels
  /\ user \in Users
  /\ signalHalt \in {"RUNNING", "STOPPED", "IDLE"}
  /\ traceEvent \in BOOLEAN
  /\ cTraceFile \in Files \cup {NoFile}
  /\ fileCounter \in Files
  /\ frame \in Frames
  /\ disk \in [Files -> Frames]
  /\ logLevel \in Levels
  /\ breakLevel \in -1 .. MaxLevel
  /\ masterEvent \in BOOLEAN
  /\ wpc \in {"solve", "announce", "signal", "name", "sem", "farewell", "gone"}
  /\ work \in 0 .. MaxWork
  /\ gpc \in {"test", "wait", "poll", "act", "decide", "timer", "locked",
             "event", "done"}
  /\ canvas \in BOOLEAN
  /\ SingleStep \in BOOLEAN
  /\ TraceLock \in BOOLEAN
  /\ traceFile \in Files \cup {NoFile}
  /\ fresh \in BOOLEAN
  /\ prevTraceFile \in Files \cup {NoFile}
  /\ screen \in Frames

-----------------------------------------------------------------------------
\* CallSolver has started the job: single steps iff there is a canvas, no
\* break level (10000 there).  The last trace file of an earlier job is known to
\* the browser; the file counter need not be the one in its name, since the
\* browser sets it, too (menuLayout.tk:663).
Init ==
  /\ commLevel \in CommLevels
  /\ user \in Users
  /\ signalHalt = "RUNNING"
  /\ traceEvent = FALSE
  /\ cTraceFile \in Files \cup {NoFile}
  /\ fileCounter \in Counters
  /\ frame = 0
  /\ disk = [f \in Files |-> 0]
  /\ logLevel = 0
  /\ breakLevel = MaxLevel
  /\ masterEvent = FALSE
  /\ wpc = "solve"
  /\ work = MaxWork
  /\ gpc = "test"
  /\ canvas \in BOOLEAN
  /\ SingleStep = canvas
  /\ TraceLock = FALSE
  /\ traceFile = NoFile
  /\ fresh = FALSE
  /\ prevTraceFile = cTraceFile
  /\ screen = 0

-----------------------------------------------------------------------------
(* The worker.                                                             *)

\* A log entry, which may open or close a level, raises the master event.
LogEntry ==
  /\ wpc = "solve"
  /\ work > 0
  /\ work' = work - 1
  /\ logLevel' \in Levels \cap {logLevel - 1, logLevel, logLevel + 1}
  /\ masterEvent' = TRUE
  /\ UNCHANGED <<messenger, setting, files, breakLevel, wpc, browser>>

IncreaseCounter == fileCounter' = IF fileCounter < LastFile THEN fileCounter + 1 ELSE 0

\* abstractMixedGraph::Display writes the next trace file.
Display ==
  /\ wpc = "solve"
  /\ work > 0
  /\ work' = work - 1
  /\ IncreaseCounter
  /\ frame' = frame + 1
  /\ disk' = [disk EXCEPT ![fileCounter'] = frame']
  /\ wpc' = "announce"
  /\ UNCHANGED <<messenger, setting, logLevel, breakLevel, masterEvent,
                 browser>>

\* The guards of Goblin_TraceEventHandler.
Announced == commLevel >= 3 /\ logLevel <= breakLevel /\ signalHalt = "RUNNING"

TraceEventHandler ==
  /\ wpc = "announce"
  /\ wpc' = IF Announced THEN "signal" ELSE "solve"
  /\ UNCHANGED <<messenger, context, masterEvent, work, browser>>

\* SignalTraceEvent takes traceLock and sets the event ...
SignalTraceEvent ==
  /\ wpc = "signal"
  /\ traceEvent' = TRUE
  /\ wpc' = "name"
  /\ UNCHANGED <<signalHalt, cTraceFile, context, masterEvent, work, browser>>

\* ... stores the file name and releases traceLock.
StoreTraceFile ==
  /\ wpc = "name"
  /\ cTraceFile' = fileCounter
  /\ masterEvent' = TRUE
  /\ wpc' = "sem"
  /\ UNCHANGED <<signalHalt, traceEvent, context, work, browser>>

\* Variant: the solver does not wait.
TraceSemPass ==
  /\ wpc = "sem"
  /\ wpc' = "solve"
  /\ UNCHANGED <<messenger, context, masterEvent, work, browser>>

TraceSemTake ==
  /\ wpc = "sem"
  /\ ~ traceEvent
  /\ wpc' = "solve"
  /\ UNCHANGED <<messenger, context, masterEvent, work, browser>>

\* The solver comes to its end, by itself or since it was told to stop.
SolverSignalIdle ==
  /\ wpc = "solve"
  /\ signalHalt' = "IDLE"
  /\ wpc' = "farewell"
  /\ UNCHANGED <<traceEvent, cTraceFile, context, masterEvent, work, browser>>

\* The thread logs its end after it has signalled IDLE.
LogExit ==
  /\ wpc = "farewell"
  /\ masterEvent' = TRUE
  /\ wpc' = "gone"
  /\ UNCHANGED <<messenger, context, work, browser>>

-----------------------------------------------------------------------------
(* CallSolver.  User events are served at "timer", "locked" and "event".   *)

\* while {![goblin solver idle]}; at level 1 then a wait for an event.
TestIdle ==
  /\ gpc = "test"
  /\ gpc' = IF signalHalt = "IDLE" THEN "done"
            ELSE IF commLevel >= 2 THEN "poll" ELSE "wait"
  /\ UNCHANGED <<messenger, context, masterEvent, worker, canvas, SingleStep,
                 TraceLock, traceFile, fresh, prevTraceFile, screen>>

\* vwait goblinMasterEvent sees what is written after it has begun.
BeginWait ==
  /\ gpc = "wait"
  /\ masterEvent' = FALSE
  /\ gpc' = "event"
  /\ UNCHANGED <<messenger, context, worker, canvas, SingleStep, TraceLock,
                 traceFile, fresh, prevTraceFile, screen>>

MasterEvent ==
  /\ gpc = "event"
  /\ masterEvent
  /\ gpc' = "test"
  /\ UNCHANGED <<messenger, context, masterEvent, worker, canvas, SingleStep,
                 TraceLock, traceFile, fresh, prevTraceFile, screen>>

\* The file name is read under traceLock.
PollTraceFile ==
  /\ gpc = "poll"
  /\ \/ /\ signalHalt = "IDLE"
        /\ gpc' = "test"
        /\ UNCHANGED <<traceFile, fresh>>
     \/ /\ signalHalt # "IDLE"
        /\ wpc # "name"
        /\ traceFile' = cTraceFile
        /\ fresh' = (cTraceFile \notin {NoFile, prevTraceFile})
        /\ gpc' = "act"
  /\ UNCHANGED <<messenger, context, masterEvent, worker, canvas, SingleStep,
                 TraceLock, prevTraceFile, screen>>

Handling == commLevel >= 3 /\ signalHalt # "IDLE" /\ logLevel <= breakLevel

\* The frame on the screen is the one that the file holds now.
TraceObject == prevTraceFile' = traceFile /\ screen' = disk[traceFile]

\* Variant: the event is taken back in every turn of the loop.
ShowAlways ==
  /\ canvas
  /\ IF fresh THEN TraceObject ELSE UNCHANGED <<prevTraceFile, screen>>
  /\ traceEvent' = (traceEvent /\ SingleStep)
  /\ UNCHANGED SingleStep

\* A new file is shown, and unless single stepping the solver is released.
ShowTraceFile ==
  /\ canvas
  /\ IF fresh THEN TraceObject ELSE UNCHANGED <<prevTraceFile, screen>>
  /\ traceEvent' = (traceEvent /\ (SingleStep \/ ~ fresh))
  /\ UNCHANGED SingleStep

\* Without a canvas the solver is released in any case.
PassTraceFile ==
  /\ ~ canvas
  /\ SingleStep' = FALSE
  /\ traceEvent' = FALSE
  /\ UNCHANGED <<prevTraceFile, screen>>

HandleTrace ==
  /\ gpc = "act"
  /\ gpc' = "decide"
  /\ \/ Handling /\ (ShowTraceFile \/ PassTraceFile)
     \/ ~ Handling /\ UNCHANGED <<traceEvent, SingleStep, prevTraceFile, screen>>
  /\ UNCHANGED <<signalHalt, cTraceFile, context, masterEvent, worker, canvas,
                 TraceLock, traceFile, fresh>>

\* Variant: a repeated file locks the browser, too.
DecideWithoutFresh ==
  /\ gpc = "decide"
  /\ TraceLock' = (logLevel <= breakLevel /\ SingleStep)
  /\ gpc' = IF TraceLock' THEN "locked" ELSE "timer"
  /\ UNCHANGED <<messenger, context, masterEvent, worker, canvas, SingleStep,
                 traceFile, fresh, prevTraceFile, screen>>

\* "Waiting at trace point", or a pause of UpdateCycle milliseconds.
DecideToWait ==
  /\ gpc = "decide"
  /\ TraceLock' = (logLevel <= breakLevel /\ SingleStep /\ fresh)
  /\ gpc' = IF TraceLock' THEN "locked" ELSE "timer"
  /\ UNCHANGED <<messenger, context, masterEvent, worker, canvas, SingleStep,
                 traceFile, fresh, prevTraceFile, screen>>

WakeUp ==
  /\ \/ gpc = "timer"
     \/ gpc = "locked" /\ ~ TraceLock
  /\ gpc' = "test"
  /\ UNCHANGED <<messenger, context, masterEvent, worker, canvas, SingleStep,
                 TraceLock, traceFile, fresh, prevTraceFile, screen>>

-----------------------------------------------------------------------------
(* The user.                                                               *)

ServesEvents == gpc \in {"timer", "locked", "event"}

\* Variant: the button releases the browser only.
StepWithoutUnblock(level, single) ==
  /\ ServesEvents
  /\ user = "careful" => TraceLock
  /\ breakLevel' = level
  /\ SingleStep' = single
  /\ TraceLock' = FALSE
  /\ UNCHANGED <<messenger, setting, files, logLevel, masterEvent, worker, gpc,
                 canvas, traceFile, fresh, prevTraceFile, screen>>

\* Variant: the button releases the solver only.
StepKeepsLock(level, single) ==
  /\ ServesEvents
  /\ user = "careful" => TraceLock
  /\ breakLevel' = level
  /\ SingleStep' = single
  /\ traceEvent' = FALSE
  /\ UNCHANGED <<signalHalt, cTraceFile, setting, files, logLevel, masterEvent,
                 worker, gpc, canvas, TraceLock, traceFile, fresh, prevTraceFile, screen>>

\* A button of the tracing bar.
Step(level, single) ==
  /\ ServesEvents
  /\ user = "careful" => TraceLock
  /\ breakLevel' = level
  /\ SingleStep' = single
  /\ TraceLock' = FALSE
  /\ traceEvent' = FALSE
  /\ UNCHANGED <<signalHalt, cTraceFile, setting, files, logLevel, masterEvent,
                 worker, gpc, canvas, traceFile, fresh, prevTraceFile, screen>>

\* Into, out, over, auto.
UserSteps == \/ Step(MaxLevel, TRUE) \/ Step(logLevel - 1, TRUE)
             \/ Step(logLevel, TRUE) \/ Step(MaxLevel, FALSE)

SolverSignalStop ==
  /\ ServesEvents
  /\ signalHalt = "RUNNING"
  /\ signalHalt' = "STOPPED"
  /\ UNCHANGED <<traceEvent, cTraceFile, context, masterEvent, worker, browser>>

ToggleCanvas ==
  /\ user = "free"
  /\ ServesEvents
  /\ canvas' = ~ canvas
  /\ UNCHANGED <<messenger, context, masterEvent, worker, gpc, SingleStep,
                 TraceLock, traceFile, fresh, prevTraceFile, screen>>

-----------------------------------------------------------------------------
Worker == \/ LogEntry \/ Display \/ TraceEventHandler \/ SignalTraceEvent
          \/ StoreTraceFile \/ TraceSemTake \/ SolverSignalIdle \/ LogExit

CallSolver == \/ TestIdle \/ BeginWait \/ MasterEvent \/ PollTraceFile
              \/ HandleTrace \/ DecideToWait \/ WakeUp

\* The loop has been left and the thread is gone.
Finished == gpc = "done" /\ wpc = "gone" /\ UNCHANGED vars

Next == Worker \/ CallSolver \/ UserSteps \/ SolverSignalStop \/ ToggleCanvas \/ Finished

Spec == Init /\ [][Next]_vars

\* Both threads are scheduled, timers fire, and a user who is asked for a step
\* makes one.  Nothing forces the user otherwise.
FairSpec == /\ Spec
            /\ WF_vars(Worker)
            /\ WF_vars(CallSolver)
            /\ WF_vars(TraceLock /\ UserSteps)

-----------------------------------------------------------------------------
\* "Waiting at trace point" is true: the solver waits, and the frame on the
\* screen is the one it has announced.  A user who presses a button while
\* CallSolver is about to wait for it has released the solver already.
LockedMeansBlocked ==
  user = "careful" /\ gpc = "locked" /\ TraceLock =>
    /\ wpc = "sem" /\ traceEvent
    /\ screen = frame

\* Frames are shown in the order in which they were written, whatever the user
\* does, although the browser reads the file name before it opens the file, and
\* the solver may write other files, even that one again, in between.
FramesInOrder == [][screen' >= screen]_vars

\* doku/manual.tex:10736 of TraceSemTake(): "The latter method returns only if
\* the trace event is handled in the user interface", and 10739: the user
\* interface handles it by reading the file name first.  While there is a
\* canvas, the event is taken back only for a frame that is shown.
UnblockedWhenShown ==
  [][user = "careful" /\ traceEvent /\ ~ traceEvent' /\ canvas
       => screen' = frame]_vars

\* A solver that announces a file is released, unless the name is the one of the
\* file on the screen: after LastFile more files, or one of an earlier job, since
\* the counter has been set back.  The browser takes it for shown then, and
\* neither releases the solver nor asks for a step.
BlockedIsReleased ==
  /\ user = "careful"
  /\ wpc = "name"
  /\ canvas => fileCounter # prevTraceFile
  ~> wpc = "solve"

\* What is not true, since names come again.
EveryBlockedIsReleased == user = "careful" /\ wpc = "sem" ~> wpc # "sem"

\* CallSolver leaves its loop once the job has ended, at least if it polls.
LoopEnds        == signalHalt = "IDLE" ~> gpc = "done"
PollingLoopEnds == commLevel >= 2 /\ user = "careful" /\ signalHalt = "IDLE" ~> gpc = "done"

-----------------------------------------------------------------------------
(***************************************************************************)
(* Proofs, for every number of trace points, every nesting of log entries  *)
(* and every number of file names, so for names that are used again.       *)
(*                                                                         *)
(* That the solver waits while the browser says so is the end of a chain:  *)
(* a file that has not been shown is the one just announced, and its event *)
(* is still set (Unshown); so a fresh file belongs to a waiting solver     *)
(* (FreshIsCurrent); so the browser, after it has shown the file, locks    *)
(* itself while the event is set (Locked).  The worker cannot go on then,  *)
(* and a careful user steps only in this state.                            *)
(*                                                                         *)
(* That frames are in order needs no careful user.  Between the reading of *)
(* a name and the showing of the file the solver can announce one file at  *)
(* most, since nobody takes the event back (OrderInv).  If it has, that is *)
(* the latest frame; if not, the file whose name has been read still is    *)
(* the one announced last.                                                 *)
(***************************************************************************)

\* No file holds a frame that is not written, and the file of the trace point
\* at which the solver is holds the last one.
FileInv ==
  /\ fileCounter \in Files /\ frame \in Nat /\ disk \in [Files -> Nat]
  /\ cTraceFile \in Files \cup {NoFile}
  /\ screen \in Nat /\ screen =< frame
  /\ \A f \in Files : disk[f] =< frame
  /\ wpc \in {"announce", "signal", "name", "sem"} => disk[fileCounter] = frame
  /\ wpc = "sem" => cTraceFile = fileCounter

\* The file announced last, and the one about to be shown, are not older than
\* what is on the screen.
OrderInv ==
  /\ cTraceFile # NoFile => screen =< disk[cTraceFile]
  /\ gpc = "act" =>
       /\ wpc = "name" => traceEvent
       /\ traceFile # cTraceFile => wpc = "sem" /\ traceEvent
       /\ fresh => traceFile \in Files /\ screen =< disk[traceFile]

\* A careful user watches the canvas.
Watching == user = "careful" /\ canvas

\* The trace event is set while the solver is at the trace point, and not taken
\* back before the file has been named; traces are announced at open levels.
EventInv ==
  /\ signalHalt = "IDLE" => wpc \in {"farewell", "gone"}
  /\ traceEvent => wpc \in {"name", "sem"}
  /\ Watching /\ wpc = "name" => traceEvent
  /\ Watching /\ (traceEvent \/ wpc = "signal") => commLevel >= 3 /\ logLevel =< breakLevel

Waits == wpc = "sem" /\ traceEvent /\ cTraceFile = fileCounter

\* The solver waits, and its frame is on the screen.
Shown == Waits /\ prevTraceFile = fileCounter /\ screen = frame

Unshown == Watching /\ cTraceFile \notin {NoFile, prevTraceFile} => Waits

FreshIsCurrent ==
  Watching /\ fresh =>
    /\ gpc = "act" => traceFile = cTraceFile /\ cTraceFile \notin {NoFile, prevTraceFile}
    /\ gpc = "decide" /\ SingleStep => Shown

Locked ==
  /\ TraceLock => gpc = "locked"
  /\ user = "careful" /\ TraceLock => canvas /\ Shown
  /\ user = "careful" /\ ~ canvas => ~ SingleStep

Inv == FileInv /\ OrderInv /\ EventInv /\ Unshown /\ FreshIsCurrent /\ Locked

LEMMA InitInv == Init => Inv
<1> SUFFICES ASSUME Init PROVE Inv
  OBVIOUS
<1>1. fileCounter \in Files /\ LastFile \in Nat /\ \A f \in Files : disk[f] = 0
  BY FileTypes DEF Init, Files
<1>2. FileInv
  BY <1>1 DEF Init, FileInv, Files, NoFile
<1>3. OrderInv
  BY <1>1 DEF Init, OrderInv, Files, NoFile
<1> QED
  BY <1>2, <1>3 DEF Init, Inv, EventInv, Unshown, FreshIsCurrent, Locked, Watching, Waits, Shown

\* A new frame is the latest of all; the others stay where they are, but for the one
\* whose file it takes.
LEMMA DisplayInv == Inv /\ Display => Inv'
<1> SUFFICES ASSUME Inv, Display PROVE Inv'
  OBVIOUS
<1>1. /\ wpc = "solve" /\ wpc' = "announce" /\ frame' = frame + 1
      /\ fileCounter' = (IF fileCounter < LastFile THEN fileCounter + 1 ELSE 0)
      /\ disk' = [disk EXCEPT ![fileCounter'] = frame']
      /\ UNCHANGED <<messenger, setting, logLevel, breakLevel, masterEvent, browser>>
  BY DEF Display, IncreaseCounter
<1>2. FileInv /\ OrderInv
  BY DEF Inv
<1>3. fileCounter' \in Files
  BY <1>1, <1>2, FileTypes DEF FileInv, Files
<1>4. /\ disk' \in [Files -> Nat] /\ frame' \in Nat /\ disk'[fileCounter'] = frame'
      /\ \A f \in Files : disk'[f] \in {disk[f], frame'} /\ disk[f] =< disk'[f] /\ disk'[f] =< frame'
  <2>1. frame' \in Nat
    BY <1>1, <1>2 DEF FileInv
  <2>2. ASSUME NEW f \in Files
        PROVE  disk'[f] \in {disk[f], frame'} /\ disk[f] =< disk'[f] /\ disk'[f] =< frame'
    BY <1>1, <1>2, <2>2 DEF FileInv
  <2> QED
    BY <1>1, <1>2, <1>3, <2>1, <2>2 DEF FileInv
<1>5. FileInv'
  BY <1>1, <1>2, <1>3, <1>4 DEF FileInv, messenger, browser
<1>6. OrderInv'
  <2>1. \A f \in Files : screen =< disk[f] => screen =< disk'[f]
    BY <1>2, <1>4 DEF FileInv
  <2>2. UNCHANGED <<cTraceFile, traceFile, traceEvent, gpc, fresh, screen>>
    BY <1>1 DEF messenger, browser
  <2> QED
    BY <1>1, <1>2, <2>1, <2>2 DEF OrderInv, FileInv
<1> QED
  BY <1>1, <1>5, <1>6 DEF Inv, EventInv, Unshown, FreshIsCurrent, Locked, Watching, Waits, Shown,
                          messenger, setting, browser

\* The other steps of the worker.
LEMMA WorkerInv == Inv /\ Worker => Inv'
<1> SUFFICES ASSUME Inv, Worker PROVE Inv'
  OBVIOUS
<1> USE DEF Inv, FileInv, OrderInv, EventInv, Unshown, FreshIsCurrent, Locked, Watching, Waits, Shown,
            messenger, context, setting, files, worker, browser
<1>1. CASE LogEntry
  BY <1>1 DEF LogEntry
<1>2. CASE Display
  BY <1>2, DisplayInv
<1>3. CASE TraceEventHandler
  BY <1>3 DEF TraceEventHandler, Announced
<1>4. CASE SignalTraceEvent
  BY <1>4 DEF SignalTraceEvent
<1>5. CASE StoreTraceFile
  BY <1>5 DEF StoreTraceFile
<1>6. CASE TraceSemTake
  BY <1>6 DEF TraceSemTake
<1>7. CASE SolverSignalIdle \/ LogExit
  BY <1>7 DEF SolverSignalIdle, LogExit
<1> QED
  BY <1>1, <1>2, <1>3, <1>4, <1>5, <1>6, <1>7 DEF Worker

\* A fresh file is not older than the one on the screen, and for a careful user
\* it holds the frame at which the solver waits.
LEMMA HandleTraceInv == Inv /\ HandleTrace => Inv' /\ screen' >= screen
<1> SUFFICES ASSUME Inv, HandleTrace PROVE Inv' /\ screen' >= screen
  OBVIOUS
<1>1. /\ gpc = "act" /\ gpc' = "decide"
      /\ UNCHANGED <<signalHalt, cTraceFile, context, masterEvent, worker, canvas, TraceLock, traceFile, fresh>>
  BY DEF HandleTrace
<1>2. /\ FileInv /\ OrderInv
      /\ wpc = "name" => traceEvent
      /\ traceFile # cTraceFile => wpc = "sem" /\ traceEvent
      /\ fresh => traceFile \in Files /\ screen =< disk[traceFile]
  BY <1>1 DEF Inv, OrderInv
<1>3. CASE Handling /\ ShowTraceFile /\ fresh
  <2>1. /\ canvas /\ prevTraceFile' = traceFile /\ screen' = disk[traceFile]
        /\ traceEvent' = (traceEvent /\ SingleStep) /\ UNCHANGED SingleStep
    BY <1>3 DEF ShowTraceFile, TraceObject
  <2>2. screen' \in Nat /\ screen' =< frame /\ screen =< screen'
    BY <1>2, <1>3, <2>1 DEF FileInv
  <2>3. FileInv'
    BY <1>1, <1>2, <2>2 DEF FileInv, context, worker, files
  <2>4. cTraceFile # NoFile => screen' =< disk[cTraceFile]
    <3>1. CASE traceFile = cTraceFile
      BY <2>1, <2>2, <3>1, <1>2, <1>3 DEF FileInv
    <3>2. CASE traceFile # cTraceFile
      <4>1. cTraceFile = fileCounter /\ disk[fileCounter] = frame
        BY <1>2, <3>2 DEF FileInv
      <4> QED
        BY <2>2, <4>1
    <3> QED
      BY <3>1, <3>2
  <2>5. OrderInv'
    BY <1>1, <2>4 DEF OrderInv, context, files
  <2>6. user = "careful" => Waits /\ traceFile = cTraceFile /\ screen' = frame
    <3>1. user = "careful" => Waits /\ traceFile = cTraceFile
      BY <1>1, <1>3, <2>1 DEF Inv, FreshIsCurrent, Unshown, Watching
    <3> QED
      BY <1>2, <2>1, <3>1 DEF Waits, FileInv
  <2>7. EventInv'
    BY <1>1, <2>1, <2>6 DEF Inv, EventInv, Watching, Waits, Shown, context, setting, worker
  <2>8. Unshown' /\ FreshIsCurrent' /\ Locked'
    BY <1>1, <2>1, <2>6 DEF Inv, Unshown, FreshIsCurrent, Locked, Watching, Waits, Shown, context, setting, files, worker
  <2> QED
    BY <2>2, <2>3, <2>5, <2>7, <2>8 DEF Inv, FileInv
<1>4. CASE ~ (Handling /\ ShowTraceFile /\ fresh)
  <2>1. UNCHANGED <<prevTraceFile, screen>>
    BY <1>4 DEF HandleTrace, ShowTraceFile, PassTraceFile
  <2>2. screen \in Nat
    BY <1>2 DEF FileInv
  <2>3. \/ ~ fresh /\ canvas /\ (traceEvent' <=> traceEvent) /\ UNCHANGED SingleStep
        \/ ~ canvas /\ SingleStep' = FALSE /\ traceEvent' = FALSE
        \/ ~ Handling /\ UNCHANGED <<traceEvent, SingleStep>>
    <3>1. CASE Handling /\ ShowTraceFile
      <4>1. ~ fresh
        BY <1>4, <3>1
      <4>2. /\ traceEvent' <=> traceEvent /\ (SingleStep \/ ~ fresh)
            /\ canvas /\ UNCHANGED SingleStep
        BY <3>1 DEF ShowTraceFile
      <4> QED
        BY <4>1, <4>2
    <3>2. CASE Handling /\ PassTraceFile
      BY <3>2 DEF PassTraceFile
    <3> QED
      BY <3>1, <3>2 DEF HandleTrace
  <2>4. FileInv' /\ OrderInv'
    BY <1>1, <1>2, <2>1 DEF FileInv, OrderInv, context, worker, files
  <2>5. EventInv' /\ Unshown' /\ Locked'
    BY <1>1, <2>1, <2>3
    DEF Inv, EventInv, Unshown, Locked, Watching, Waits, Shown, context, setting, files, worker
  <2>6. FreshIsCurrent'
    BY <1>1, <2>1, <2>3
    DEF Inv, EventInv, Unshown, FreshIsCurrent, Watching, Waits, Shown, Handling, context, setting, files, worker
  <2> QED
    BY <2>1, <2>2, <2>4, <2>5, <2>6 DEF Inv
<1> QED
  BY <1>3, <1>4

\* The other steps of the polling loop.
LEMMA CallSolverInv == Inv /\ CallSolver => Inv'
<1> SUFFICES ASSUME Inv, CallSolver PROVE Inv'
  OBVIOUS
<1> USE DEF Inv, FileInv, OrderInv, EventInv, Unshown, FreshIsCurrent, Locked, Watching, Waits, Shown,
            messenger, context, setting, files, worker, browser
<1>1. CASE TestIdle
  BY <1>1 DEF TestIdle
<1>2. CASE BeginWait \/ MasterEvent
  BY <1>2 DEF BeginWait, MasterEvent
<1>3. CASE PollTraceFile
  <2>1. CASE signalHalt = "IDLE" /\ gpc' = "test" /\ UNCHANGED <<traceFile, fresh>>
    BY <1>3, <2>1 DEF PollTraceFile
  <2>2. CASE /\ traceFile' = cTraceFile /\ gpc' = "act" /\ wpc # "name"
             /\ fresh' = (cTraceFile \notin {NoFile, prevTraceFile})
    <3>1. fresh' => cTraceFile \notin {NoFile, prevTraceFile}
      BY <2>2
    <3>2. /\ gpc = "poll"
          /\ UNCHANGED <<messenger, context, masterEvent, worker, canvas, SingleStep, TraceLock,
                         prevTraceFile, screen>>
      BY <1>3 DEF PollTraceFile
    <3> QED
      BY <2>2, <3>1, <3>2
  <2> QED
    BY <1>3, <2>1, <2>2 DEF PollTraceFile
<1>4. CASE HandleTrace
  BY <1>4, HandleTraceInv
<1>5. CASE DecideToWait
  BY <1>5 DEF DecideToWait
<1>6. CASE WakeUp
  BY <1>6 DEF WakeUp
<1> QED
  BY <1>1, <1>2, <1>3, <1>4, <1>5, <1>6 DEF CallSolver

\* What the user does.
LEMMA UserInv == Inv /\ (UserSteps \/ SolverSignalStop \/ ToggleCanvas) => Inv'
<1> SUFFICES ASSUME Inv, UserSteps \/ SolverSignalStop \/ ToggleCanvas PROVE Inv'
  OBVIOUS
<1> USE DEF Inv, FileInv, OrderInv, EventInv, Unshown, FreshIsCurrent, Locked, Watching, Waits, Shown,
            messenger, context, setting, files, worker, browser
<1>1. ASSUME NEW level, NEW single \in BOOLEAN, Step(level, single) PROVE Inv'
  <2>1. /\ gpc \in {"timer", "locked", "event"} /\ (user = "careful" => TraceLock)
        /\ breakLevel' = level /\ SingleStep' = single /\ ~ TraceLock' /\ ~ traceEvent'
        /\ UNCHANGED <<signalHalt, cTraceFile, user, commLevel, fileCounter, frame, disk, logLevel,
                       wpc, gpc, canvas, traceFile, fresh, prevTraceFile, screen>>
    BY <1>1 DEF Step, ServesEvents
  <2>2. FileInv'
    BY <2>1
  <2>3. OrderInv'
    BY <2>1
  <2>4. EventInv' /\ Unshown' /\ FreshIsCurrent' /\ Locked'
    BY <2>1
  <2> QED
    BY <2>2, <2>3, <2>4
<1>2. CASE SolverSignalStop
  BY <1>2 DEF SolverSignalStop, ServesEvents
<1>3. CASE ToggleCanvas
  BY <1>3 DEF ToggleCanvas, ServesEvents
<1> QED
  BY <1>1, <1>2, <1>3 DEF UserSteps

LEMMA NextInv == Inv /\ [Next]_vars => Inv'
<1> SUFFICES ASSUME Inv, UNCHANGED vars PROVE Inv'
  BY WorkerInv, CallSolverInv, UserInv DEF Next, Finished
<1> QED
  BY DEF vars, Inv, FileInv, OrderInv, EventInv, Unshown, FreshIsCurrent, Locked, Watching, Waits, Shown,
         messenger, context, setting, files, worker, browser

\* While the browser says "Waiting at trace point", the solver waits there, with its event set,
\* and the frame on the screen is the one it has announced, for every number of trace points.
THEOREM WaitingIsTrue == Spec => []LockedMeansBlocked
<1>1. Inv => LockedMeansBlocked
  BY DEF Inv, Locked, LockedMeansBlocked, Waits, Shown
<1> QED
  BY <1>1, InitInv, NextInv, PTL DEF Spec

\* The browser never goes back to an earlier frame, whatever the user does and however often
\* the file counter starts anew.
THEOREM FramesAreInOrder == Spec => FramesInOrder
<1>1. Inv /\ [Next]_vars => [screen' >= screen]_vars
  <2> SUFFICES ASSUME Inv, Next PROVE screen' >= screen
    OBVIOUS
  <2>1. CASE HandleTrace
    BY <2>1, HandleTraceInv
  <2>2. CASE ~ HandleTrace
    <3>1. screen' = screen
      BY <2>2 DEF Next, Worker, LogEntry, Display, TraceEventHandler, SignalTraceEvent, StoreTraceFile,
                  TraceSemTake, SolverSignalIdle, LogExit, CallSolver, TestIdle, BeginWait, MasterEvent,
                  PollTraceFile, DecideToWait, WakeUp, UserSteps, Step, SolverSignalStop, ToggleCanvas,
                  Finished, vars, browser
    <3> QED
      BY <3>1 DEF Inv, FileInv
  <2> QED
    BY <2>1, <2>2
<1> QED
  BY <1>1, InitInv, NextInv, PTL DEF Spec, FramesInOrder

\* The trace event is taken back for a frame that is on the screen: TraceSemTake() returns only
\* if the event is handled in the user interface.
THEOREM UnblockingFollowsShowing == Spec => UnblockedWhenShown
<1> DEFINE InTime == user = "careful" /\ traceEvent /\ ~ traceEvent' /\ canvas => screen' = frame
<1>1. Inv /\ [Next]_vars => [InTime]_vars
  <2> SUFFICES ASSUME Inv, Next, user = "careful", traceEvent, ~ traceEvent', canvas
               PROVE  screen' = frame
    OBVIOUS
  <2>1. CASE HandleTrace
    <3>1. gpc = "act" /\ fresh /\ screen' = disk[traceFile]
      BY <2>1 DEF HandleTrace, ShowTraceFile, PassTraceFile, TraceObject
    <3>2. traceFile = cTraceFile /\ Waits
      BY <3>1 DEF Inv, FreshIsCurrent, Unshown, Watching
    <3> QED
      BY <3>1, <3>2 DEF Inv, FileInv, Waits
  <2>2. CASE UserSteps
    BY <2>2 DEF UserSteps, Step, Inv, Locked, Waits, Shown
  <2>3. ~ HandleTrace /\ ~ UserSteps => traceEvent' = traceEvent \/ traceEvent'
    BY DEF Next, Worker, LogEntry, Display, TraceEventHandler, SignalTraceEvent, StoreTraceFile,
           TraceSemTake, SolverSignalIdle, LogExit, CallSolver, TestIdle, BeginWait, MasterEvent,
           PollTraceFile, DecideToWait, WakeUp, SolverSignalStop, ToggleCanvas,
           Finished, vars, messenger
  <2> QED
    BY <2>1, <2>2, <2>3
<1> QED
  BY <1>1, InitInv, NextInv, PTL DEF Spec, UnblockedWhenShown
=============================================================================
