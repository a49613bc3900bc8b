---------------------------- MODULE SolverThread ----------------------------
(***************************************************************************)
(* Life of the working threads of the GOSH shell (shell_src/goshMain.cpp)  *)
(* under the control of the GOBLET browser (tcl/menuOptimize.tk).          *)
(*                                                                         *)
(* The master thread runs the graphical interface.  It starts a job by     *)
(* `goblin solver thread`, then polls `goblin solver idle` and takes       *)
(* `goblin solver result`.  While it polls it serves user events, so that  *)
(* a job started by a caller that does not ask for an idle solver nests    *)
(* its own polling loop in the first one.                                  *)
(*                                                                         *)
(* A job is a thread of its own: it waits for its entry in the thread      *)
(* table, creates an interpreter, evaluates a script, reports by `goblin   *)
(* solver return` or `throw`, signals IDLE, and only then deletes its      *)
(* interpreter and frees its table entry.  A step of a thread is one       *)
(* access to memory it shares with the others.                             *)
(***************************************************************************)
EXTENDS Naturals, FiniteSets, SequencesExt

CONSTANTS
  Jobs,             \* the jobs the user starts, in any order, once each
  Slots,            \* indices of goblinThreadData[], the master's included
  Guarded,          \* the callers ask for an idle solver before they start
                    \* a job (CallSolver does, AsynchronousTest does not)
  Settings          \* what a session may be like: a set of records with
                    \*   jobs     the jobs it has,
                    \*   entries  the entries of the thread table,
                    \*   patient  the user starts a job only when the last
                    \*            one is answered and its thread has exited,
                    \*   createMayFail   pthread_create may return an error,
                    \*   scriptMayAbort  a script may end before its report

ASSUME SettingsType ==
  /\ Guarded \in BOOLEAN
  /\ Settings \subseteq [jobs : SUBSET Jobs, entries : SUBSET Slots, patient : BOOLEAN,
                        createMayFail : BOOLEAN, scriptMayAbort : BOOLEAN]
ASSUME SlotsNotEmpty == IsFiniteSet(Slots) /\ Slots # {}
ASSUME JobsFinite == IsFiniteSet(Jobs)

Nobody == "nobody"          \* threadID 0, no result yet
Master == "master"

ASSUME NamesDistinct == Nobody \notin Jobs /\ Master \notin Jobs

VARIABLES
  setting,          \* what this session is like
  signalHalt,       \* goblinMessenger::signalHalt, under solverStateLock
  threadID,         \* goblinThreadData[].threadID
  returnCode,       \* the job that wrote returnCode and errorCode last
  destroyThread,    \* set while an interpreter is being deleted
  interprCounter,   \* goblinInterprCounter
  register,         \* per job: the counter value read by ++ or --
  pc,               \* per job: what its thread does next
  loops,            \* polling loops of the master, the innermost one last
  starting,         \* what is left of the master's `solver thread` command
  newSlot,          \* the table index it has reserved
  result,           \* per job: what the master took as its result
  stopped,          \* the jobs the user stopped before they had reported
  objectAlive,      \* the graph shared by the interpreters exists
  sharedAlive       \* the messenger and the controller exist

messenger == <<signalHalt>>
table     == <<threadID>>
globals   == <<returnCode, destroyThread, interprCounter>>
threads   == <<register, pc>>
master    == <<loops, starting, newSlot, result>>
user      == <<setting, stopped>>
heap      == <<objectAlive, sharedAlive>>

vars == <<messenger, table, globals, threads, master, user, heap>>

States == {"IDLE", "PENDING", "RUNNING", "STOPPED"}

Stages == {"new",       \* not started
           "asked",     \* `solver thread` is under way
           "wait",      \* spins until the table has its entry
           "count",     \* Goblin_Init: reads the interpreter counter
           "counted",   \* Goblin_Init: writes it back
           "start",     \* before SolverSignalStarted
           "script",    \* in Tcl_EvalFile
           "report",    \* in `goblin solver return` or `throw`
           "signal",    \* before SolverSignalIdle
           "flag",      \* before destroyThread = true
           "delete",    \* in Tcl_DeleteInterp: the object commands
           "uncount",   \* Goblin_Delete: reads the interpreter counter
           "uncounted", \* Goblin_Delete: writes it back
           "test",      \* Goblin_Delete: reads it again
           "unflag",    \* before destroyThread = false
           "exit",      \* before Goblin_FreeThreadData
           "gone"}      \* the thread does not exist any more

\* The stages up to SolverSignalIdle, and all stages of a living thread.
Working == {"wait", "count", "counted", "start", "script", "report", "signal"}
Alive   == Stages \ {"new", "asked", "gone"}

\* Type invariant; the interpreter counter is unsigned and never wraps.
TypeOK ==
  /\ setting \in Settings
  /\ signalHalt \in States
  /\ threadID \in [Slots -> Jobs \cup {Nobody, Master}]
  /\ returnCode \in Jobs \cup {Nobody}
  /\ destroyThread \in BOOLEAN
  /\ interprCounter \in Nat
  /\ register \in [Jobs -> Nat]
  /\ pc \in [Jobs -> Stages]
  /\ loops \in Seq(Jobs)
  /\ starting \in {"none", "pending", "create", "store"}
  /\ newSlot \in Slots
  /\ result \in [Jobs -> Jobs \cup {Nobody}]
  /\ stopped \subseteq Jobs
  /\ objectAlive \in BOOLEAN
  /\ sharedAlive \in BOOLEAN

-----------------------------------------------------------------------------
\* The main program has called Goblin_Init: the master interpreter is counted
\* and the master thread has a table entry.
Init ==
  /\ setting \in Settings
  /\ signalHalt = "IDLE"
  /\ \E m \in setting.entries : threadID = [s \in Slots |-> IF s = m THEN Master ELSE Nobody]
  /\ returnCode = Nobody
  /\ destroyThread = FALSE
  /\ interprCounter = 1
  /\ register = [j \in Jobs |-> 0]
  /\ pc = [j \in Jobs |-> "new"]
  /\ loops = <<>>
  /\ starting = "none"
  /\ newSlot \in setting.entries
  /\ result = [j \in Jobs |-> Nobody]
  /\ stopped = {}
  /\ objectAlive = TRUE
  /\ sharedAlive = TRUE

-----------------------------------------------------------------------------
(* The master thread.  It is in its event loop iff starting = "none".      *)

Current == loops[Len(loops)]

FreeSlots == {s \in Slots \cap setting.entries : threadID[s] = Nobody}

\* Variant: the callers do not look whether the solver is idle.
MayStartAny(j) ==
  /\ starting = "none"
  /\ j \in setting.jobs /\ pc[j] = "new"
  /\ setting.patient => loops = <<>> /\ \A k \in Jobs : pc[k] \notin Alive

\* A caller of `goblin solver thread` may begin with job j.
MayStart(j) ==
  /\ starting = "none"
  /\ j \in setting.jobs /\ pc[j] = "new"
  /\ Guarded => signalHalt = "IDLE"
  /\ setting.patient => loops = <<>> /\ \A k \in Jobs : pc[k] \notin Alive

\* Variant: the table is not searched for a free entry.
StartAnySlot(j) ==
  /\ MayStart(j)
  /\ newSlot' \in Slots
  /\ starting' = "pending"
  /\ loops' = Append(loops, j)
  /\ pc' = [pc EXCEPT ![j] = "asked"]
  /\ UNCHANGED <<messenger, table, globals, register, result, user, heap>>

\* Goblin_ReserveThreadIndex: the entry is not marked, but only the master
\* looks for free ones.
StartJob(j) ==
  /\ MayStart(j)
  /\ newSlot' \in FreeSlots
  /\ starting' = "pending"
  /\ loops' = Append(loops, j)
  /\ pc' = [pc EXCEPT ![j] = "asked"]
  /\ UNCHANGED <<messenger, table, globals, register, result, user, heap>>

\* `solver thread` fails when the table is full.  CallSolver does not look at
\* this error: its loop ends at once and it takes the last result for the
\* new.  The other callers pass the error on to the user.
StartRefused(j) ==
  /\ MayStart(j)
  /\ FreeSlots = {}
  /\ result' = IF Guarded THEN [result EXCEPT ![j] = returnCode] ELSE result
  /\ pc' = [pc EXCEPT ![j] = "gone"]
  /\ UNCHANGED <<messenger, table, globals, register, loops, starting, newSlot,
                 user, heap>>

SolverSignalPending ==
  /\ starting = "pending"
  /\ signalHalt' = "PENDING"
  /\ starting' = "create"
  /\ UNCHANGED <<table, globals, threads, loops, newSlot, result, user, heap>>

\* pthread_create starts the thread; it may run before its ID is stored.
CreateThread ==
  /\ starting = "create"
  /\ pc' = [pc EXCEPT ![Current] = "wait"]
  /\ starting' = "store"
  /\ UNCHANGED <<messenger, table, globals, register, loops, newSlot, result,
                 user, heap>>

StoreThreadID ==
  /\ starting = "store"
  /\ threadID' = [threadID EXCEPT ![newSlot] = Current]
  /\ starting' = "none"
  /\ UNCHANGED <<messenger, globals, threads, loops, newSlot, result, user, heap>>

\* The return value of pthread_create is ignored.
CreateFails ==
  /\ setting.createMayFail
  /\ starting = "create"
  /\ starting' = "none"
  /\ pc' = [pc EXCEPT ![Current] = "gone"]
  /\ UNCHANGED <<messenger, table, globals, register, loops, newSlot, result,
                 user, heap>>

\* `goblin solver stop`, on a user event.
SolverSignalStop ==
  /\ starting = "none"
  /\ signalHalt # "IDLE"
  /\ signalHalt' = "STOPPED"
  /\ stopped' = stopped \cup {j \in Jobs : pc[j] \in Working}
  /\ UNCHANGED <<setting, table, globals, threads, master, heap>>

\* Variant: the result is taken without a look at the solver's state.
TakeResultEarly ==
  /\ starting = "none"
  /\ loops # <<>>
  /\ result' = [result EXCEPT ![Current] = returnCode]
  /\ loops' = Front(loops)
  /\ UNCHANGED <<messenger, table, globals, threads, starting, newSlot, user, heap>>

\* The innermost polling loop finds the solver idle: `goblin solver result`.
TakeResult ==
  /\ starting = "none"
  /\ loops # <<>>
  /\ signalHalt = "IDLE"
  /\ result' = [result EXCEPT ![Current] = returnCode]
  /\ loops' = Front(loops)
  /\ UNCHANGED <<messenger, table, globals, threads, starting, newSlot, user, heap>>

-----------------------------------------------------------------------------
(* A working thread: Goblin_Thread, Goblin_Init and Goblin_Delete.         *)

Goto(j, stage) == pc' = [pc EXCEPT ![j] = stage]

\* The spin on Goblin_MyThreadIndex.
FindOwnEntry(j) ==
  /\ pc[j] = "wait"
  /\ \E s \in Slots : threadID[s] = j
  /\ Goto(j, "count")
  /\ UNCHANGED <<messenger, table, globals, register, master, user, heap>>

\* goblinInterprCounter++ : a read, then a write, without a lock.
ReadCounter(j) ==
  /\ \/ pc[j] = "count" /\ Goto(j, "counted")
     \/ pc[j] = "uncount" /\ Goto(j, "uncounted")
  /\ register' = [register EXCEPT ![j] = interprCounter]
  /\ UNCHANGED <<messenger, table, globals, master, user, heap>>

CountInterpreter(j) ==
  /\ pc[j] = "counted"
  /\ interprCounter' = register[j] + 1
  /\ Goto(j, "start")
  /\ UNCHANGED <<messenger, table, returnCode, destroyThread, register, master,
                 user, heap>>

\* The state is overwritten, whatever it is.
SolverSignalStarted(j) ==
  /\ pc[j] = "start"
  /\ signalHalt' = "RUNNING"
  /\ Goto(j, "script")
  /\ UNCHANGED <<table, globals, register, master, user, heap>>

\* Tcl_EvalFile: the solver has come to its end, or has polled SolverRunning()
\* and given up.  The scripts report in any case, unless an error hits the
\* statements they do not guard by a catch.
EndScript(j) ==
  /\ pc[j] = "script"
  /\ \/ Goto(j, "report")
     \/ setting.scriptMayAbort /\ Goto(j, "signal")
  /\ UNCHANGED <<messenger, table, globals, register, master, user, heap>>

\* Variant: they spin until the solver runs.
ReportWhileRunning(j) ==
  /\ pc[j] = "report"
  /\ signalHalt = "RUNNING"
  /\ returnCode' = j
  /\ Goto(j, "signal")
  /\ UNCHANGED <<messenger, table, destroyThread, interprCounter, register,
                 master, user, heap>>

\* `solver return` and `solver throw` spin while the solver is idle.
Report(j) ==
  /\ pc[j] = "report"
  /\ signalHalt # "IDLE"
  /\ returnCode' = j
  /\ Goto(j, "signal")
  /\ UNCHANGED <<messenger, table, destroyThread, interprCounter, register,
                 master, user, heap>>

SolverSignalIdle(j) ==
  /\ pc[j] = "signal"
  /\ signalHalt' = "IDLE"
  /\ Goto(j, "flag")
  /\ UNCHANGED <<table, globals, register, master, user, heap>>

\* Variant: the interpreter is deleted without the flag.
RaiseNoFlag(j) ==
  /\ pc[j] = "flag"
  /\ Goto(j, "delete")
  /\ UNCHANGED <<messenger, table, globals, register, master, user, heap>>

RaiseDestroyFlag(j) ==
  /\ pc[j] = "flag"
  /\ destroyThread' = TRUE
  /\ Goto(j, "delete")
  /\ UNCHANGED <<messenger, table, returnCode, interprCounter, register, master,
                 user, heap>>

\* Tcl_DeleteInterp runs the delete procedure of every command.  The one of
\* an object command deletes the object unless destroyThread is set.
DeleteCommands(j) ==
  /\ pc[j] = "delete"
  /\ objectAlive' = (objectAlive /\ destroyThread)
  /\ Goto(j, "uncount")
  /\ UNCHANGED <<messenger, table, globals, register, master, user, sharedAlive>>

\* Goblin_Delete: goblinInterprCounter--, and the counter is read again.
UncountInterpreter(j) ==
  /\ pc[j] = "uncounted"
  /\ interprCounter' = IF register[j] = 0 THEN 0 ELSE register[j] - 1
  /\ Goto(j, "test")
  /\ UNCHANGED <<messenger, table, returnCode, destroyThread, register, master,
                 user, heap>>

\* The last interpreter deletes the messenger and the controller.
TestCounter(j) ==
  /\ pc[j] = "test"
  /\ sharedAlive' = (interprCounter # 0)
  /\ Goto(j, "unflag")
  /\ UNCHANGED <<messenger, table, globals, register, master, user, objectAlive>>

ClearDestroyFlag(j) ==
  /\ pc[j] = "unflag"
  /\ destroyThread' = FALSE
  /\ Goto(j, "exit")
  /\ UNCHANGED <<messenger, table, returnCode, interprCounter, register, master,
                 user, heap>>

FreeThreadData(j) ==
  /\ pc[j] = "exit"
  /\ threadID' = [s \in Slots |-> IF threadID[s] = j THEN Nobody ELSE threadID[s]]
  /\ Goto(j, "gone")
  /\ UNCHANGED <<messenger, globals, register, master, user, heap>>

-----------------------------------------------------------------------------
MasterStep ==
  \/ SolverSignalPending \/ CreateThread \/ StoreThreadID \/ CreateFails
  \/ TakeResult

ThreadStep(j) ==
  \/ FindOwnEntry(j) \/ ReadCounter(j) \/ CountInterpreter(j)
  \/ SolverSignalStarted(j) \/ EndScript(j) \/ Report(j) \/ SolverSignalIdle(j)
  \/ RaiseDestroyFlag(j) \/ DeleteCommands(j) \/ UncountInterpreter(j)
  \/ TestCounter(j) \/ ClearDestroyFlag(j) \/ FreeThreadData(j)

\* All jobs are done; the session goes on without them.
Finished == /\ \A j \in setting.jobs : pc[j] = "gone"
            /\ loops = <<>>
            /\ UNCHANGED vars

\* Once the messenger and the controller are deleted, nothing is defined any
\* more; the model goes on as if they were still there.
Next == \/ MasterStep
        \/ SolverSignalStop
        \/ \E j \in Jobs : StartJob(j) \/ StartRefused(j) \/ ThreadStep(j)
        \/ Finished

Spec == Init /\ [][Next]_vars

\* The master leaves its event loop only for the commands above and polls the
\* solver every UpdateCycle milliseconds; threads are scheduled; every solver
\* comes to an end.  Nothing forces the user.
FairSpec == /\ Spec
            /\ WF_vars(MasterStep)
            /\ \A j \in Jobs : WF_vars(ThreadStep(j))

-----------------------------------------------------------------------------
\* At most one thread is between its creation and SolverSignalIdle: the solver
\* state, the return code and the script's objects belong to one job.
OneScript == \A j, k \in Jobs : pc[j] \in Working /\ pc[k] \in Working => j = k

\* What the master takes as the result of a job was written by this job's
\* script (manual.tex:12561: "the solver thread returns some information
\* before exiting ... The information is received on master side by the
\* command result").
OwnResult == \A j \in Jobs : result[j] \in {Nobody, j}

\* From the end of its spin until it is gone a thread has exactly one table
\* entry, and the master keeps its own: Goblin_MyThreadIndex cannot fail in
\* the terminate handler, which indexes the table with its result.
ThreadsHaveEntries ==
  /\ \A j \in Jobs : pc[j] \in Alive \ {"wait"} =>
       Cardinality({s \in Slots : threadID[s] = j}) = 1
  /\ \E s \in Slots : threadID[s] = Master

\* The graph that a job shares with the master through `goblin alias` exists
\* as long as the master does not delete it (menuFile.tk:440: "Get access to
\* the object loaded into the temporary thread").
ObjectSurvives == objectAlive

\* The messenger and the controller exist as long as the master interpreter
\* (manual.tex:12594: "Just as the context, ther is one messenger object
\* shared by all GOSH shells").
MessengerSurvives == sharedAlive

\* A user who waits for the end of each thread, and nothing fails.
Patient == setting.patient /\ ~ setting.createMayFail /\ ~ setting.scriptMayAbort

\* A patient user gets the result of the job he asked for.
PatientGetsResult == Patient => OwnResult

\* A patient user never loses what the interpreters share: neither the graph he
\* has given to a job, nor the messenger.
PatientKeepsObjects == Patient => ObjectSurvives /\ MessengerSurvives

\* Every job of a patient user gets its answer, and its thread ends.
PatientJobsEnd ==
  \A j \in Jobs : Patient /\ pc[j] = "asked" ~> pc[j] = "gone" /\ result[j] = j

\* Every job that is started gets its answer, and its thread ends.
EveryJobEnds ==
  \A j \in Jobs : pc[j] = "asked" ~> pc[j] = "gone" /\ result[j] = j

\* messenger.h:61 says of IDLE: "No working thread exists at the time".
IdleMeansNoThread == signalHalt = "IDLE" => \A j \in Jobs : pc[j] \notin Alive

\* manual.tex:10637: the user interface calls SolverSignalStop() "so that the
\* flag SolverRunning() becomes false again".  It stays false until the job
\* has reported.
StopSticks == \A j \in stopped : pc[j] \in Working => signalHalt # "RUNNING"

\* messenger.h:64 says of PENDING: "The working thread has been spawned but
\* does not execute yet".
PendingHasThread ==
  signalHalt = "PENDING" /\ starting = "none" => \E j \in Jobs : pc[j] \in Working
=============================================================================
