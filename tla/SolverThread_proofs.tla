------------------------ MODULE SolverThread_proofs ------------------------
(***************************************************************************)
(* Proofs about the working threads for any number of jobs and of thread   *)
(* table entries.                                                          *)
(*                                                                         *)
(* ThreadsHaveEntries is not inductive: that a started thread finds its    *)
(* entry depends on what the master has reserved and not stored yet, and   *)
(* that it stays the only one depends on the reserved entry being free     *)
(* although it is not marked.  TableInv states this.  OneScript rests on   *)
(* the solver state alone: IDLE excludes a working thread, and a caller    *)
(* that asks for IDLE has not started another thread before.               *)
(*                                                                         *)
(* With a patient user only one job is under way (OneAtATime), so that the *)
(* return code is its own, the flag destroyThread is raised by the thread  *)
(* that reads it, and the counter of interpreters is one or two and never  *)
(* written by two threads (TearDown).  A job is refused only before any    *)
(* job has run (RoomIsLeft): afterwards an answer of another job would be  *)
(* taken for its own.                                                      *)
(***************************************************************************)
EXTENDS SolverThread, FiniteSetTheorems, SequenceTheorems, TLAPS

\* The sequence of polling loops stays one of jobs.
LEMMA LoopsType ==
  ASSUME NEW s \in Seq(Jobs), s # <<>>
  PROVE  /\ s[Len(s)] \in Jobs
         /\ Front(s) \in Seq(Jobs)
<1>1. Len(s) \in Nat \ {0} /\ s[Len(s)] \in Jobs
  BY EmptySeq, LenProperties, ElementOfSeq
<1>2. SubSeq(s, 1, Len(s) - 1) \in Seq(Jobs)
  BY <1>1
<1> QED
  BY <1>1, <1>2 DEF Front

\* Appending a job makes it the current one.
LEMMA AppendedIsCurrent ==
  ASSUME NEW s \in Seq(Jobs), NEW j \in Jobs
  PROVE  LET t == Append(s, j)
         IN  t \in Seq(Jobs) /\ t # <<>> /\ t[Len(t)] = j
  OBVIOUS

-----------------------------------------------------------------------------
HasEntry(j) == \E s \in Slots : threadID[s] = j

\* What the master has under way is a job with a free entry reserved for it.
Reserved ==
  /\ starting # "none" => loops # <<>> /\ threadID[newSlot] = Nobody
  /\ starting \in {"pending", "create"} => pc[Current] = "asked"
  /\ starting = "store" => pc[Current] = "wait" /\ ~ HasEntry(Current)

\* Entries are unique, and exactly the threads that need one have one.
TableInv ==
  /\ \A s, t \in Slots : threadID[s] = threadID[t] /\ threadID[s] # Nobody => s = t
  /\ HasEntry(Master)
  /\ \A j \in Jobs : pc[j] \in {"new", "asked", "gone"} => ~ HasEntry(j)
  /\ \A j \in Jobs : pc[j] \in Alive \ {"wait"} => HasEntry(j)
  /\ Reserved

Inv == TypeOK /\ TableInv

LEMMA InitInv == Init => Inv
<1> SUFFICES ASSUME Init PROVE Inv
  OBVIOUS
<1>1. TypeOK
  <2>1. loops \in Seq(Jobs)
    BY DEF Init
  <2>2. threadID \in [Slots -> Jobs \cup {Nobody, Master}]
    BY DEF Init
  <2>3. register \in [Jobs -> Nat] /\ pc \in [Jobs -> Stages]
    BY DEF Init, Stages
  <2>4. setting \in Settings /\ setting.entries \subseteq Slots
    BY SettingsType DEF Init
  <2>5. newSlot \in Slots
    BY <2>4 DEF Init
  <2> QED
    BY <2>1, <2>2, <2>3, <2>4, <2>5 DEF Init, TypeOK, States
<1>2. PICK m \in Slots : threadID = [s \in Slots |-> IF s = m THEN Master ELSE Nobody]
  <2>1. setting.entries \subseteq Slots
    BY SettingsType DEF Init
  <2> QED
    BY <2>1 DEF Init
<1>3. \A s \in Slots : threadID[s] # Nobody => s = m
  BY <1>2
<1>4. \A j \in Jobs : ~ HasEntry(j)
  BY <1>2, NamesDistinct DEF HasEntry
<1>5. TableInv
  BY <1>2, <1>3, <1>4 DEF TableInv, HasEntry, Reserved, Init, Alive, Stages, Master, Nobody
<1> QED
  BY <1>1, <1>5 DEF Inv

\* The steps of the master thread.
LEMMA MasterKeepsInv ==
  ASSUME Inv, MasterStep \/ \E j \in Jobs : StartJob(j) \/ StartRefused(j)
  PROVE  Inv'
<1> USE DEF Inv, TypeOK
<1>1. ASSUME NEW j \in Jobs, StartJob(j) PROVE Inv'
  <2>1. loops' \in Seq(Jobs) /\ loops' # <<>> /\ Current' = j
    BY <1>1, AppendedIsCurrent DEF StartJob, Current
  <2>2. TypeOK'
    BY <1>1, <2>1 DEF StartJob, messenger, table, globals, heap, user, Stages, FreeSlots
  <2>3. TableInv'
    BY <1>1, <2>1 DEF StartJob, MayStart, messenger, table, globals, heap, user, Stages,
       FreeSlots, TableInv, Reserved, HasEntry, Alive
  <2> QED
    BY <2>2, <2>3
<1>2. ASSUME NEW j \in Jobs, StartRefused(j) PROVE Inv'
  <2>1. TypeOK'
    BY <1>2 DEF StartRefused, messenger, table, globals, heap, user, Stages
  <2>2. TableInv'
    BY <1>2 DEF StartRefused, MayStart, messenger, table, globals, heap, user, Stages,
       TableInv, Reserved, HasEntry, Alive, Current
  <2> QED
    BY <2>1, <2>2
<1>3. CASE SolverSignalPending
  BY <1>3 DEF SolverSignalPending, table, globals, threads, heap, user, States,
     TableInv, Reserved, HasEntry, Current
<1>4. CASE CreateThread
  <2>1. Current \in Jobs /\ pc[Current] = "asked" /\ ~ HasEntry(Current)
    BY <1>4, LoopsType DEF CreateThread, TableInv, Reserved, Current
  <2>2. TypeOK'
    BY <1>4 DEF CreateThread, messenger, table, globals, heap, user, Stages
  <2>3. TableInv'
    BY <1>4, <2>1 DEF CreateThread, messenger, table, globals, heap, user, Stages,
       TableInv, Reserved, HasEntry, Alive, Current
  <2> QED
    BY <2>2, <2>3
<1>5. CASE StoreThreadID
  <2>1. Current \in Jobs /\ pc[Current] = "wait" /\ ~ HasEntry(Current)
    BY <1>5, LoopsType DEF StoreThreadID, TableInv, Reserved, Current
  <2>2. threadID' = [threadID EXCEPT ![newSlot] = Current] /\ threadID[newSlot] = Nobody
    BY <1>5 DEF StoreThreadID, TableInv, Reserved
  <2>3. TypeOK'
    BY <1>5, <2>1 DEF StoreThreadID, messenger, globals, threads, heap, user, Stages
  <2>4. pc' = pc /\ starting' = "none"
    BY <1>5 DEF StoreThreadID, threads
  <2>5. \A s, t \in Slots : threadID'[s] = threadID'[t] /\ threadID'[s] # Nobody => s = t
    BY <2>1, <2>2 DEF TableInv, HasEntry
  <2>6. \A x : x # Nobody /\ x # Current => (HasEntry(x)' <=> HasEntry(x))
    BY <2>2 DEF HasEntry
  <2>7. TableInv'
    BY <2>1, <2>4, <2>5, <2>6, NamesDistinct DEF TableInv, Reserved, Alive, Master, Nobody
  <2> QED
    BY <2>3, <2>7
<1>6. CASE CreateFails
  <2>1. Current \in Jobs /\ pc[Current] = "asked" /\ ~ HasEntry(Current)
    BY <1>6, LoopsType DEF CreateFails, TableInv, Reserved, Current
  <2>2. TypeOK'
    BY <1>6 DEF CreateFails, messenger, table, globals, heap, user, Stages
  <2>3. TableInv'
    BY <1>6, <2>1 DEF CreateFails, messenger, table, globals, heap, user, Stages,
       TableInv, Reserved, HasEntry, Alive, Current
  <2> QED
    BY <2>2, <2>3
<1>7. CASE TakeResult
  <2>1. loops' \in Seq(Jobs)
    BY <1>7, LoopsType DEF TakeResult
  <2>2. TypeOK'
    BY <1>7, <2>1 DEF TakeResult, messenger, table, globals, threads, heap, user
  <2>3. TableInv'
    BY <1>7 DEF TakeResult, messenger, table, globals, threads, heap, user,
       TableInv, Reserved, HasEntry
  <2> QED
    BY <2>2, <2>3
<1> QED
  BY <1>1, <1>2, <1>3, <1>4, <1>5, <1>6, <1>7 DEF MasterStep

\* The steps of the threads: no entry is added, only the last step of a thread
\* takes one away.
LEMMA ThreadKeepsInv ==
  ASSUME Inv, NEW j \in Jobs, ThreadStep(j)
  PROVE  Inv'
<1> USE DEF Inv
<1>1. CASE FreeThreadData(j)
  <2>1. TypeOK'
    BY <1>1 DEF FreeThreadData, TypeOK, Goto, messenger, globals, master, heap, user, Stages
  <2>2. \A x : x # Nobody /\ x # j => (HasEntry(x)' <=> HasEntry(x))
    BY <1>1 DEF FreeThreadData, HasEntry, TypeOK
  <2>3. ~ HasEntry(j)'
    BY <1>1, NamesDistinct DEF FreeThreadData, HasEntry, TypeOK
  <2>4. \A s \in Slots : threadID'[s] \in {threadID[s], Nobody}
    BY <1>1 DEF FreeThreadData, TypeOK
  <2>5. /\ pc' = [pc EXCEPT ![j] = "gone"] /\ pc[j] = "exit"
        /\ starting' = starting /\ loops' = loops /\ newSlot' = newSlot
    BY <1>1 DEF FreeThreadData, Goto, master
  <2>6. newSlot \in Slots /\ pc \in [Jobs -> Stages] /\ (loops # <<>> => Current \in Jobs)
    BY LoopsType DEF TypeOK, Current
  <2>7. Reserved'
    BY <2>2, <2>4, <2>5, <2>6, NamesDistinct DEF TableInv, Reserved, Current, Nobody
  <2>8. TableInv'
    BY <2>2, <2>3, <2>4, <2>5, <2>6, <2>7, NamesDistinct
    DEF TableInv, Alive, Master, Nobody
  <2> QED
    BY <2>1, <2>8
<1>2. ASSUME ~ FreeThreadData(j) PROVE Inv'
  <2>1. TypeOK'
    <3> USE DEF TypeOK, Goto, messenger, table, globals, master, heap, user, Stages
    <3>1. CASE DeleteCommands(j) \/ TestCounter(j)
      <4>1. objectAlive' \in BOOLEAN /\ sharedAlive' \in BOOLEAN
        BY <3>1 DEF DeleteCommands, TestCounter
      <4> QED
        BY <3>1, <4>1 DEF DeleteCommands, TestCounter
    <3>2. CASE ReadCounter(j) \/ CountInterpreter(j) \/ UncountInterpreter(j)
      <4>1. CASE ReadCounter(j)
        BY <4>1 DEF ReadCounter
      <4>2. CASE CountInterpreter(j)
        BY <4>2 DEF CountInterpreter
      <4>3. CASE UncountInterpreter(j)
        <5>1. interprCounter' \in Nat
          BY <4>3 DEF UncountInterpreter
        <5> QED
          BY <4>3, <5>1 DEF UncountInterpreter
      <4> QED
        BY <3>2, <4>1, <4>2, <4>3
    <3>3. CASE SolverSignalStarted(j) \/ SolverSignalIdle(j)
      BY <3>3 DEF SolverSignalStarted, SolverSignalIdle, States
    <3>4. CASE FindOwnEntry(j) \/ EndScript(j) \/ Report(j)
      BY <3>4 DEF FindOwnEntry, EndScript, Report
    <3>5. CASE RaiseDestroyFlag(j) \/ ClearDestroyFlag(j)
      BY <3>5 DEF RaiseDestroyFlag, ClearDestroyFlag
    <3> QED
      BY <1>2, <3>1, <3>2, <3>3, <3>4, <3>5 DEF ThreadStep
  <2>2. UNCHANGED <<threadID, starting, loops, newSlot>>
    BY <1>2 DEF ThreadStep, table, master, FindOwnEntry, ReadCounter,
       CountInterpreter, SolverSignalStarted, EndScript, Report, SolverSignalIdle,
       RaiseDestroyFlag, DeleteCommands, UncountInterpreter, TestCounter,
       ClearDestroyFlag
  <2>3. /\ pc[j] \in Alive /\ HasEntry(j)
        /\ \E stage \in Alive \ {"wait"} : pc' = [pc EXCEPT ![j] = stage]
    BY <1>2 DEF ThreadStep, Goto, Alive, Stages, TableInv, HasEntry, FindOwnEntry,
       ReadCounter, CountInterpreter, SolverSignalStarted, EndScript, Report,
       SolverSignalIdle, RaiseDestroyFlag, DeleteCommands, UncountInterpreter,
       TestCounter, ClearDestroyFlag
  <2>4. Reserved'
    BY <2>2, <2>3 DEF TypeOK, TableInv, Reserved, HasEntry, Current, Alive, Stages
  <2>5. TableInv'
    BY <2>2, <2>3, <2>4 DEF TypeOK, TableInv, HasEntry, Alive, Stages
  <2> QED
    BY <2>1, <2>5
<1> QED
  BY <1>1, <1>2

\* The invariant is preserved by every step.
LEMMA NextInv == Inv /\ [Next]_vars => Inv'
<1> SUFFICES ASSUME Inv, [Next]_vars PROVE Inv'
  OBVIOUS
<1>1. CASE MasterStep \/ \E j \in Jobs : StartJob(j) \/ StartRefused(j)
  BY <1>1, MasterKeepsInv
<1>2. CASE SolverSignalStop
  <2>1. TypeOK'
    BY <1>2 DEF Inv, TypeOK, SolverSignalStop, table, globals, threads, master, heap, user, States
  <2>2. TableInv'
    BY <1>2 DEF Inv, SolverSignalStop, table, threads, master, TableInv, Reserved,
       HasEntry, Current
  <2> QED
    BY <2>1, <2>2 DEF Inv
<1>3. CASE \E j \in Jobs : ThreadStep(j)
  BY <1>3, ThreadKeepsInv
<1>4. CASE UNCHANGED vars
  BY <1>4 DEF vars, messenger, table, globals, threads, master, heap, user, Inv, TypeOK,
     TableInv, Reserved, HasEntry, Current
<1> QED
  BY <1>1, <1>2, <1>3, <1>4 DEF Next, Finished

\* An entry that exists and is unique is exactly one.
LEMMA InvImpliesEntries == Inv => ThreadsHaveEntries
<1> SUFFICES ASSUME Inv PROVE ThreadsHaveEntries
  OBVIOUS
<1>1. ASSUME NEW j \in Jobs, pc[j] \in Alive \ {"wait"}
      PROVE  Cardinality({s \in Slots : threadID[s] = j}) = 1
  <2>1. PICK s \in Slots : threadID[s] = j
    BY <1>1 DEF Inv, TableInv, HasEntry
  <2>2. {t \in Slots : threadID[t] = j} = {s}
    BY <2>1, NamesDistinct DEF Inv, TableInv
  <2>3. Cardinality({s}) = 1
    BY FS_Singleton
  <2> QED
    BY <2>2, <2>3
<1> QED
  BY <1>1 DEF ThreadsHaveEntries, Inv, TableInv, HasEntry

\* From the end of its spin until it is gone a thread has exactly one entry,
\* and the master never loses its own, whatever the callers ask for and even
\* if pthread_create fails.
THEOREM EntriesAreKept == Spec => [](TypeOK /\ ThreadsHaveEntries)
<1> QED
  BY InitInv, NextInv, InvImpliesEntries, PTL DEF Spec, Inv

-----------------------------------------------------------------------------
\* While the solver is idle nothing works; what the master has begun to start
\* does not work yet and has left IDLE before its thread exists.
StateInv ==
  /\ OneScript
  /\ signalHalt = "IDLE" => \A j \in Jobs : pc[j] \notin Working
  /\ starting \in {"pending", "create"} => \A j \in Jobs : pc[j] \notin Working
  /\ starting = "create" => signalHalt # "IDLE"

\* Callers that ask for an idle solver never have two scripts at work.
THEOREM GuardedStartsOneScript == Guarded /\ Spec => []OneScript
<1> SUFFICES ASSUME Guarded PROVE Spec => []OneScript
  OBVIOUS
<1>1. Init => StateInv
  BY DEF Init, StateInv, OneScript, Working
<1>2. Inv /\ StateInv /\ [Next]_vars => StateInv'
  <2> SUFFICES ASSUME Inv, StateInv, [Next]_vars PROVE StateInv'
    OBVIOUS
  <2> pc \in [Jobs -> Stages]
    BY DEF Inv, TypeOK
  <2> USE DEF StateInv, OneScript, Working, Stages
  <2>1. ASSUME NEW j \in Jobs, StartJob(j) \/ StartRefused(j) PROVE StateInv'
    BY <2>1 DEF StartJob, StartRefused, MayStart, messenger
  <2>2. CASE SolverSignalPending \/ CreateThread \/ CreateFails
    BY <2>2 DEF SolverSignalPending, CreateThread, CreateFails, messenger, threads
  <2>3. CASE StoreThreadID \/ TakeResult \/ SolverSignalStop
    BY <2>3 DEF StoreThreadID, TakeResult, SolverSignalStop, messenger, threads, master
  <2>4. ASSUME NEW j \in Jobs, SolverSignalStarted(j) \/ SolverSignalIdle(j)
        PROVE  StateInv'
    BY <2>4 DEF SolverSignalStarted, SolverSignalIdle, Goto, master
  <2>5. ASSUME NEW j \in Jobs, ThreadStep(j),
               ~ SolverSignalStarted(j), ~ SolverSignalIdle(j)
        PROVE  StateInv'
    BY <2>5 DEF ThreadStep, Goto, messenger, master, FindOwnEntry, ReadCounter,
       CountInterpreter, EndScript, Report, RaiseDestroyFlag, DeleteCommands,
       UncountInterpreter, TestCounter, ClearDestroyFlag, FreeThreadData
  <2>6. CASE UNCHANGED vars
    BY <2>6 DEF vars, messenger, threads, master
  <2> QED
    BY <2>1, <2>2, <2>3, <2>4, <2>5, <2>6 DEF Next, MasterStep, Finished
<1> QED
  BY <1>1, <1>2, InitInv, NextInv, PTL DEF Spec, StateInv
-----------------------------------------------------------------------------
\* A patient user starts a job when the last one is answered and its thread has exited.  Then
\* the threads do not meet, and everything they share is as a single one leaves it.
Busy(j) == pc[j] \in Alive \cup {"asked"}

\* The stages from which the thread, or its table entry, has told its result.
Reported == {"signal", "flag", "delete", "uncount", "uncounted", "test", "unflag", "exit", "gone"}

\* The stages in which the thread's interpreter is counted.
Counted == {"start", "script", "report", "signal", "flag", "delete", "uncount", "uncounted"}

\* Only one job is under way, and the master waits for it until it has reported; nobody
\* else has written the return code since then.
OneAtATime ==
  /\ \A j, k \in Jobs : Busy(j) /\ Busy(k) => j = k
  /\ \A j \in Jobs : pc[j] \in Working \cup {"asked"} => loops = <<j>>
  /\ loops # <<>> => /\ loops = <<Current>> /\ pc[Current] # "new"
                     /\ \A k \in Jobs : Busy(k) => k = Current
                     /\ pc[Current] \in Reported => returnCode = Current
  /\ starting \in {"pending", "create"} <=> \E j \in Jobs : pc[j] = "asked"
  /\ \A j \in Jobs : pc[j] \in Working => signalHalt # "IDLE"
  /\ starting = "create" => signalHalt # "IDLE"
  /\ OwnResult

\* A job that was let in has found room besides the master's entry, which stays.
RoomIsLeft ==
  loops # <<>> \/ returnCode # Nobody => \E s \in setting.entries : threadID[s] # Master

\* The counter and the flag are those of the only thread.
TearDown ==
  /\ objectAlive /\ sharedAlive
  /\ \A j \in Jobs : pc[j] \in Counted => interprCounter = 2
  /\ \A j \in Jobs : pc[j] \in Alive \ Counted => interprCounter = 1
  /\ (\A j \in Jobs : pc[j] \notin Alive) => interprCounter = 1
  /\ \A j \in Jobs : pc[j] = "counted" => register[j] = 1
  /\ \A j \in Jobs : pc[j] = "uncounted" => register[j] = 2
  /\ \A j \in Jobs : pc[j] \in {"delete", "uncount", "uncounted", "test", "unflag"} => destroyThread

PatientInv == Patient => OneAtATime /\ RoomIsLeft /\ TearDown

LEMMA PatientInit == Init => PatientInv
<1> SUFFICES ASSUME Init PROVE OneAtATime /\ RoomIsLeft /\ TearDown
  BY DEF PatientInv
<1>1. \A j \in Jobs : pc[j] = "new" /\ result[j] = Nobody
  BY DEF Init
<1>2. OneAtATime
  BY <1>1 DEF Init, OneAtATime, Busy, Working, Alive, OwnResult
<1>3. RoomIsLeft
  BY DEF Init, RoomIsLeft
<1>4. TearDown
  BY <1>1 DEF Init, TearDown, Counted, Alive
<1> QED
  BY <1>2, <1>3, <1>4

\* A job is refused only when the table has no room besides the master's entry; then no job
\* has ever run.
LEMMA RefusedFirst ==
  ASSUME Inv, RoomIsLeft, Patient, NEW j \in Jobs, StartRefused(j)
  PROVE  returnCode = Nobody
<1>1. setting.entries \subseteq Slots
  BY SettingsType DEF Inv, TypeOK
<1>2. \A k \in Jobs : pc[k] \notin Alive
  BY DEF StartRefused, MayStart, Patient
<1>3. \A k \in Jobs : ~ HasEntry(k)
  BY <1>2 DEF Inv, TypeOK, TableInv, Alive
<1>4. \A s \in setting.entries : threadID[s] = Master
  BY <1>1, <1>3 DEF StartRefused, FreeSlots, Inv, TypeOK, HasEntry
<1> QED
  BY <1>4 DEF RoomIsLeft

\* What a step of a thread leaves alone, and where it goes.
LEMMA ThreadMoves ==
  ASSUME NEW j \in Jobs, ThreadStep(j)
  PROVE  /\ \E stage \in Stages \ {"new", "asked"} : pc' = [pc EXCEPT ![j] = stage]
         /\ pc[j] \in Alive
         /\ UNCHANGED <<loops, starting, result, setting>>
  BY DEF ThreadStep, Goto, Alive, Stages, master, user, FindOwnEntry, ReadCounter,
     CountInterpreter, SolverSignalStarted, EndScript, Report, SolverSignalIdle, RaiseDestroyFlag,
     DeleteCommands, UncountInterpreter, TestCounter, ClearDestroyFlag, FreeThreadData

\* The steps of the master and of the user.
LEMMA MasterKeepsOrder ==
  ASSUME Inv, Patient, OneAtATime, RoomIsLeft,
         MasterStep \/ SolverSignalStop \/ \E j \in Jobs : StartJob(j) \/ StartRefused(j)
  PROVE  OneAtATime' /\ RoomIsLeft'
<1> USE DEF Inv, TypeOK
<1>0. /\ setting.entries \subseteq Slots
      /\ loops # <<>> => Current \in Jobs /\ loops = <<Current>> /\ Front(loops) = <<>>
  <2>1. setting.entries \subseteq Slots
    BY SettingsType
  <2>2. ASSUME loops # <<>> PROVE Current \in Jobs /\ loops = <<Current>> /\ Front(loops) = <<>>
    <3>1. Current \in Jobs /\ loops = <<Current>>
      BY <2>2, LoopsType DEF OneAtATime, Current
    <3>2. Len(loops) = 1
      BY <3>1
    <3>3. SubSeq(loops, 1, 0) = <<>>
      BY <3>1
    <3> QED
      BY <3>1, <3>2, <3>3 DEF Front
  <2> QED
    BY <2>1, <2>2
<1>1. ASSUME NEW j \in Jobs, StartJob(j) PROVE OneAtATime' /\ RoomIsLeft'
  <2>1. loops = <<>> /\ loops' = <<j>> /\ loops' # <<>> /\ Current' = j
    BY <1>1 DEF StartJob, MayStart, Patient, Current
  <2>2. /\ pc' = [pc EXCEPT ![j] = "asked"] /\ starting = "none" /\ starting' = "pending"
        /\ UNCHANGED <<result, returnCode, threadID, setting>> /\ newSlot' \in FreeSlots
    BY <1>1 DEF StartJob, MayStart, table, globals, user
  <2>3. \A k \in Jobs : pc[k] \notin Alive /\ pc[k] # "asked"
    BY <1>1, <2>1 DEF StartJob, MayStart, Patient, OneAtATime
  <2>4. \A k \in Jobs \ {j} : ~ Busy(k)' /\ pc'[k] \notin Working
    BY <2>2, <2>3 DEF Busy, Working, Alive, Stages
  <2>5. OneAtATime'
    BY <2>1, <2>2, <2>4 DEF OneAtATime, Working, OwnResult, Reported, Busy
  <2>6. RoomIsLeft'
    BY <2>2 DEF RoomIsLeft, FreeSlots, Nobody, Master
  <2> QED
    BY <2>5, <2>6
<1>2. ASSUME NEW j \in Jobs, StartRefused(j) PROVE OneAtATime' /\ RoomIsLeft'
  <2>1. returnCode = Nobody /\ loops = <<>>
    BY <1>2, RefusedFirst DEF StartRefused, MayStart, Patient
  <2>2. /\ pc' = [pc EXCEPT ![j] = "gone"] /\ pc[j] = "new" /\ starting = "none"
        /\ result' \in {result, [result EXCEPT ![j] = returnCode]}
        /\ UNCHANGED <<signalHalt, loops, starting, threadID, returnCode, setting>>
    BY <1>2 DEF StartRefused, MayStart, messenger, table, globals, user
  <2>3. OneAtATime'
    BY <2>1, <2>2 DEF OneAtATime, Working, OwnResult, Busy, Alive, Current
  <2>4. RoomIsLeft'
    BY <2>1, <2>2 DEF RoomIsLeft
  <2> QED
    BY <2>3, <2>4
<1>3. CASE SolverSignalPending
  <2>1. /\ starting = "pending" /\ starting' = "create" /\ signalHalt' = "PENDING"
        /\ UNCHANGED <<pc, loops, result, returnCode, threadID, setting>>
    BY <1>3 DEF SolverSignalPending, table, globals, threads, user
  <2> QED
    BY <2>1 DEF OneAtATime, RoomIsLeft, OwnResult, Busy, Current
<1>4. CASE CreateThread
  <2>1. /\ starting = "create" /\ starting' = "store" /\ pc' = [pc EXCEPT ![Current] = "wait"]
        /\ UNCHANGED <<signalHalt, loops, result, returnCode, threadID, setting>>
    BY <1>4 DEF CreateThread, messenger, table, globals, user
  <2>2. loops # <<>> /\ Current \in Jobs /\ pc[Current] = "asked" /\ Current' = Current
    BY <1>0, <2>1 DEF TableInv, Reserved, Current
  <2>3. \A k \in Jobs \ {Current} : ~ Busy(k)
    BY <2>2 DEF OneAtATime, Busy
  <2>4. \A k \in Jobs \ {Current} : ~ Busy(k)' /\ pc'[k] \notin Working \cup {"asked"}
    BY <2>1, <2>3 DEF Busy, Working, Alive, Stages
  <2>5. pc'[Current] = "wait"
    BY <2>1, <2>2
  <2>6. OneAtATime'
    BY <1>0, <2>1, <2>2, <2>4, <2>5 DEF OneAtATime, OwnResult, Reported
  <2> QED
    BY <2>1, <2>6 DEF RoomIsLeft
<1>5. CASE StoreThreadID
  <2>1. /\ starting = "store" /\ starting' = "none" /\ threadID' = [threadID EXCEPT ![newSlot] = Current]
        /\ UNCHANGED <<signalHalt, loops, result, returnCode, pc, setting>>
    BY <1>5 DEF StoreThreadID, messenger, globals, threads, user
  <2>2. Current \in Jobs /\ Current # Master
    BY <1>0, <2>1, NamesDistinct DEF TableInv, Reserved
  <2>3. OneAtATime'
    BY <2>1 DEF OneAtATime, OwnResult, Busy, Current
  <2>4. RoomIsLeft'
    BY <1>0, <2>1, <2>2 DEF RoomIsLeft
  <2> QED
    BY <2>3, <2>4
<1>6. ~ CreateFails
  BY DEF CreateFails, Patient
<1>7. CASE TakeResult
  <2>1. /\ starting = "none" /\ loops # <<>> /\ signalHalt = "IDLE"
        /\ result' = [result EXCEPT ![Current] = returnCode] /\ loops' = <<>>
        /\ UNCHANGED <<signalHalt, starting, returnCode, pc, threadID, setting>>
    BY <1>0, <1>7 DEF TakeResult, messenger, table, globals, threads, user
  <2>2. pc[Current] \in Reported /\ \A k \in Jobs : pc[k] \notin Working \cup {"asked"}
    <3>1. \A k \in Jobs : pc[k] \notin Working \cup {"asked"}
      BY <2>1 DEF OneAtATime
    <3> QED
      BY <1>0, <2>1, <3>1 DEF OneAtATime, Reported, Working, Stages
  <2>3. returnCode = Current /\ Current \in Jobs
    BY <1>0, <2>1, <2>2 DEF OneAtATime
  <2>4. OneAtATime'
    BY <2>1, <2>2, <2>3 DEF OneAtATime, OwnResult, Busy
  <2>5. RoomIsLeft'
    BY <2>1 DEF RoomIsLeft
  <2> QED
    BY <2>4, <2>5
<1>8. CASE SolverSignalStop
  <2>1. /\ starting = "none" /\ signalHalt' = "STOPPED"
        /\ UNCHANGED <<starting, loops, result, returnCode, pc, threadID, setting>>
    BY <1>8 DEF SolverSignalStop, table, globals, threads, master
  <2> QED
    BY <2>1 DEF OneAtATime, RoomIsLeft, OwnResult, Busy, Current
<1> QED
  BY <1>1, <1>2, <1>3, <1>4, <1>5, <1>6, <1>7, <1>8 DEF MasterStep
\* The steps of the only thread.
LEMMA ThreadKeepsOrder ==
  ASSUME Inv, Patient, OneAtATime, RoomIsLeft, NEW j \in Jobs, ThreadStep(j)
  PROVE  OneAtATime' /\ RoomIsLeft'
<1> USE DEF Inv, TypeOK
<1>1. PICK stage \in Stages \ {"new", "asked"} : pc' = [pc EXCEPT ![j] = stage]
  BY ThreadMoves
<1>2. /\ pc[j] \in Alive /\ Busy(j)
      /\ UNCHANGED <<loops, starting, result, setting>>
  BY ThreadMoves DEF Busy
<1>3. \A k \in Jobs \ {j} : ~ Busy(k) /\ pc[k] \notin Working \cup {"asked"}
  BY <1>2 DEF OneAtATime, Busy, Alive, Working
<1>4. \A k \in Jobs : (Busy(k)' => k = j) /\ (pc'[k] \in Working \cup {"asked"} => k = j) /\ pc'[k] # "asked"
  BY <1>1, <1>3 DEF Busy, Working, Alive, Stages
<1>5. \A s \in Slots : threadID[s] # Master => threadID'[s] # Master
  <2>1. CASE FreeThreadData(j)
    BY <2>1 DEF FreeThreadData, Nobody, Master
  <2>2. CASE ~ FreeThreadData(j)
    BY <2>2 DEF ThreadStep, table, FindOwnEntry, ReadCounter, CountInterpreter, SolverSignalStarted,
       EndScript, Report, SolverSignalIdle, RaiseDestroyFlag, DeleteCommands, UncountInterpreter,
       TestCounter, ClearDestroyFlag
  <2> QED
    BY <2>1, <2>2
<1>6. starting \notin {"pending", "create"} /\ starting' \notin {"pending", "create"}
  BY <1>2, <1>3 DEF OneAtATime, Alive
<1>7. loops # <<>> => loops = <<Current>> /\ Current = j /\ Current' = Current
  BY <1>2 DEF OneAtATime, Current
\* Only the report writes the return code, and only the two signals the state.
<1>8. \/ Report(j) /\ returnCode' = j /\ stage = "signal" /\ UNCHANGED signalHalt
      \/ UNCHANGED <<returnCode, signalHalt>> /\ (stage \in Working => pc[j] \in Working)
                                              /\ (stage \in Reported => pc[j] \in Reported)
      \/ signalHalt' # "IDLE" /\ UNCHANGED returnCode /\ stage = "script" /\ pc[j] = "start"
      \/ stage = "flag" /\ UNCHANGED returnCode /\ pc[j] = "signal"
  <2>1. pc'[j] = stage
    BY <1>1
  <2> USE DEF Goto, messenger, globals, Working, Reported, Patient
  <2>2. CASE Report(j)
    BY <2>1, <2>2 DEF Report
  <2>3. CASE SolverSignalStarted(j) \/ SolverSignalIdle(j)
    BY <2>1, <2>3 DEF SolverSignalStarted, SolverSignalIdle
  <2>4. CASE FindOwnEntry(j) \/ ReadCounter(j) \/ CountInterpreter(j) \/ EndScript(j)
    BY <2>1, <2>4 DEF FindOwnEntry, ReadCounter, CountInterpreter, EndScript
  <2>5. CASE RaiseDestroyFlag(j) \/ DeleteCommands(j) \/ UncountInterpreter(j)
    BY <2>1, <2>5 DEF RaiseDestroyFlag, DeleteCommands, UncountInterpreter
  <2>6. CASE TestCounter(j) \/ ClearDestroyFlag(j) \/ FreeThreadData(j)
    BY <2>1, <2>6 DEF TestCounter, ClearDestroyFlag, FreeThreadData
  <2> QED
    BY <2>2, <2>3, <2>4, <2>5, <2>6 DEF ThreadStep
<1>9. pc'[j] = stage /\ pc[j] \in Stages
  BY <1>1
<1>10. \A k \in Jobs : pc'[k] \in Working \cup {"asked"} => loops' = <<k>>
  <2>1. ASSUME stage \in Working PROVE loops = <<j>>
    <3>1. pc[j] \in Working
      BY <1>8, <2>1 DEF Working, Report
    <3> QED
      BY <3>1 DEF OneAtATime
  <2> QED
    BY <1>2, <1>4, <1>9, <2>1
<1>11. \A k \in Jobs : pc'[k] \in Working => signalHalt' # "IDLE"
  BY <1>4, <1>8, <1>9 DEF OneAtATime, Working, Report
<1>12. loops' # <<>> => /\ loops' = <<Current'>> /\ pc'[Current'] # "new"
                        /\ \A k \in Jobs : Busy(k)' => k = Current'
                        /\ pc'[Current'] \in Reported => returnCode' = Current'
  BY <1>2, <1>4, <1>7, <1>8, <1>9 DEF OneAtATime, Reported
<1>13. OneAtATime'
  BY <1>2, <1>4, <1>6, <1>10, <1>11, <1>12 DEF OneAtATime, OwnResult
<1>14. RoomIsLeft'
  <2>1. setting.entries \subseteq Slots
    BY SettingsType
  <2>2. ASSUME returnCode' # Nobody PROVE loops # <<>> \/ returnCode # Nobody
    <3>1. CASE Report(j)
      <4>1. loops = <<j>>
        BY <3>1 DEF Report, OneAtATime, Working
      <4> QED
        BY <4>1
    <3>2. CASE ~ Report(j)
      BY <1>8, <2>2, <3>2
    <3> QED
      BY <3>1, <3>2
  <2> QED
    BY <1>2, <1>5, <2>1, <2>2 DEF RoomIsLeft
<1> QED
  BY <1>13, <1>14

\* Counter and flag: the master's steps touch neither, and let a thread in only when
\* none is there.
LEMMA TearDownIsKept ==
  ASSUME Inv, Patient, OneAtATime, TearDown, [Next]_vars
  PROVE  TearDown'
<1> USE DEF Inv, TypeOK
<1>1. CASE SolverSignalPending \/ StoreThreadID \/ TakeResult \/ SolverSignalStop \/ UNCHANGED vars
  <2>1. UNCHANGED <<globals, threads, heap>>
    BY <1>1 DEF SolverSignalPending, StoreThreadID, TakeResult, SolverSignalStop, vars
  <2> QED
    BY <2>1 DEF globals, threads, heap, TearDown
<1>2. CASE \/ \E j \in Jobs : StartJob(j) \/ StartRefused(j)
           \/ CreateThread \/ CreateFails
  <2>1. UNCHANGED <<globals, register, heap>>
    BY <1>2 DEF StartJob, StartRefused, CreateThread, CreateFails
  <2>2. PICK j \in Jobs, stage \in {"asked", "gone", "wait"} :
          pc' = [pc EXCEPT ![j] = stage] /\ pc[j] \in {"new", "asked"}
    <3>1. starting = "create" => loops # <<>> /\ Current \in Jobs /\ pc[Current] = "asked"
      BY LoopsType DEF TableInv, Reserved, Current
    <3>2. CASE \E j \in Jobs : StartJob(j) \/ StartRefused(j)
      BY <3>2 DEF StartJob, StartRefused, MayStart
    <3>3. CASE CreateThread \/ CreateFails
      BY <3>1, <3>3 DEF CreateThread, CreateFails
    <3> QED
      BY <1>2, <3>2, <3>3
  <2>3. \A k \in Jobs : pc[k] \notin Alive
    <3>1. CASE pc[j] = "asked"
      BY <3>1 DEF OneAtATime, Busy, Alive
    <3>2. CASE pc[j] = "new"
      <4>1. \E i \in Jobs : StartJob(i) \/ StartRefused(i)
        <5>1. starting = "create" => loops # <<>> /\ Current \in Jobs /\ pc[Current] = "asked"
          BY LoopsType DEF TableInv, Reserved, Current
        <5>2. ~ CreateThread /\ ~ CreateFails
          BY <2>2, <3>2, <5>1 DEF CreateThread, CreateFails
        <5> QED
          BY <1>2, <5>2
      <4> QED
        BY <4>1 DEF StartJob, StartRefused, MayStart, Patient
    <3> QED
      BY <2>2, <3>1, <3>2
  <2>4. interprCounter = 1 /\ objectAlive /\ sharedAlive
    BY <2>3 DEF TearDown
  <2>5. \A k \in Jobs : pc'[k] = "wait" \/ pc'[k] \notin Alive
    BY <2>2, <2>3 DEF Alive
  <2>6. objectAlive' /\ sharedAlive'
    BY <2>1, <2>4 DEF heap
  <2>7. interprCounter' = 1
    BY <2>1, <2>4 DEF globals
  <2>8. \A k \in Jobs : pc'[k] \notin Counted \cup {"counted", "uncounted", "delete", "uncount", "test", "unflag"}
    BY <2>5 DEF Alive, Stages, Counted
  <2> QED
    BY <2>6, <2>7, <2>8 DEF TearDown
<1>3. ASSUME NEW j \in Jobs, ThreadStep(j) PROVE TearDown'
  <2>1. \A k \in Jobs \ {j} : pc[k] \notin Alive /\ pc'[k] = pc[k]
    BY <1>3, ThreadMoves DEF OneAtATime, Busy
  <2>2. pc'[j] \in Alive \/ pc'[j] = "gone"
    BY <1>3, ThreadMoves DEF Alive, Stages
  <2> DEFINE After ==
        /\ objectAlive' /\ sharedAlive'
        /\ pc'[j] \in Counted => interprCounter' = 2
        /\ pc'[j] \notin Counted => interprCounter' = 1
        /\ pc'[j] = "counted" => register'[j] = 1
        /\ pc'[j] = "uncounted" => register'[j] = 2
        /\ pc'[j] \in {"delete", "uncount", "uncounted", "test", "unflag"} => destroyThread'
  <2>3. After
    <3> USE DEF TearDown, Goto, globals, heap, Counted, Alive
    <3>1. CASE FindOwnEntry(j) \/ SolverSignalStarted(j) \/ EndScript(j) \/ Report(j) \/ SolverSignalIdle(j)
      BY <3>1 DEF FindOwnEntry, SolverSignalStarted, EndScript, Report, SolverSignalIdle
    <3>2. CASE ReadCounter(j)
      BY <3>2 DEF ReadCounter
    <3>3. CASE CountInterpreter(j)
      <4>1. register[j] = 1 /\ objectAlive /\ sharedAlive
        BY <3>3 DEF CountInterpreter
      <4>2. objectAlive' /\ sharedAlive'
        BY <3>3, <4>1 DEF CountInterpreter
      <4>3. pc'[j] = "start" /\ interprCounter' = 2
        BY <3>3, <4>1 DEF CountInterpreter
      <4> QED
        BY <4>2, <4>3
    <3>4. CASE UncountInterpreter(j)
      <4>1. register[j] = 2 /\ objectAlive /\ sharedAlive
        BY <3>4 DEF UncountInterpreter
      <4>2. destroyThread
        BY <3>4 DEF UncountInterpreter
      <4>3. objectAlive' /\ sharedAlive' /\ destroyThread'
        BY <3>4, <4>1, <4>2 DEF UncountInterpreter
      <4>4. pc'[j] = "test" /\ interprCounter' = 1
        BY <3>4, <4>1 DEF UncountInterpreter
      <4> QED
        BY <4>3, <4>4
    <3>5. CASE RaiseDestroyFlag(j) \/ DeleteCommands(j)
      BY <3>5 DEF RaiseDestroyFlag, DeleteCommands
    <3>6. CASE TestCounter(j)
      <4>1. pc'[j] = "unflag" /\ interprCounter = 1 /\ interprCounter' = 1
        BY <3>6 DEF TestCounter
      <4>2. destroyThread /\ objectAlive
        BY <3>6 DEF TestCounter
      <4>3. destroyThread' /\ objectAlive'
        BY <3>6, <4>2 DEF TestCounter
      <4>4. sharedAlive'
        BY <3>6, <4>1 DEF TestCounter
      <4> QED
        BY <4>1, <4>3, <4>4
    <3>7. CASE ClearDestroyFlag(j) \/ FreeThreadData(j)
      <4>1. pc'[j] \in {"exit", "gone"} /\ interprCounter = 1 /\ interprCounter' = 1
        BY <3>7 DEF ClearDestroyFlag, FreeThreadData
      <4>2. objectAlive' /\ sharedAlive'
        BY <3>7 DEF ClearDestroyFlag, FreeThreadData
      <4> QED
        BY <4>1, <4>2
    <3> QED
      BY <1>3, <3>1, <3>2, <3>3, <3>4, <3>5, <3>6, <3>7 DEF ThreadStep
  <2> QED
    BY <2>1, <2>2, <2>3 DEF TearDown, Alive, Counted
<1> QED
  BY <1>1, <1>2, <1>3 DEF Next, MasterStep, Finished

LEMMA PatientNext == Inv /\ PatientInv /\ [Next]_vars => PatientInv'
<1> SUFFICES ASSUME Inv, PatientInv, [Next]_vars, Patient'
             PROVE  OneAtATime' /\ RoomIsLeft' /\ TearDown'
  BY DEF PatientInv
<1>1. setting' = setting
  <2>1. CASE MasterStep \/ SolverSignalStop \/ \E j \in Jobs : StartJob(j) \/ StartRefused(j)
    BY <2>1 DEF MasterStep, SolverSignalPending, CreateThread, StoreThreadID, CreateFails, TakeResult,
       SolverSignalStop, StartJob, StartRefused, user
  <2>2. CASE \E j \in Jobs : ThreadStep(j)
    BY <2>2, ThreadMoves
  <2>3. CASE UNCHANGED vars
    BY <2>3 DEF vars, user
  <2> QED
    BY <2>1, <2>2, <2>3 DEF Next, Finished
<1>2. Patient /\ OneAtATime /\ RoomIsLeft /\ TearDown
  BY <1>1 DEF Patient, PatientInv
<1>3. TearDown'
  BY <1>2, TearDownIsKept
<1>4. CASE MasterStep \/ SolverSignalStop \/ \E j \in Jobs : StartJob(j) \/ StartRefused(j)
  BY <1>2, <1>3, <1>4, MasterKeepsOrder
<1>5. CASE \E j \in Jobs : ThreadStep(j)
  BY <1>2, <1>3, <1>5, ThreadKeepsOrder
<1>6. CASE UNCHANGED vars
  BY <1>2, <1>3, <1>6 DEF vars, messenger, table, globals, threads, master, user,
     OneAtATime, RoomIsLeft, OwnResult, Busy, Current
<1> QED
  BY <1>3, <1>4, <1>5, <1>6 DEF Next, Finished

LEMMA PatientAlways == Spec => []PatientInv
<1> QED
  BY PatientInit, PatientNext, InitInv, NextInv, PTL DEF Spec

\* A patient user gets the result of the job he asked for, in every session in which scripts
\* end and threads can be made; whether the callers look at the solver's state does not matter.
THEOREM PatientIsAnswered == Spec => []PatientGetsResult
<1>1. PatientInv => PatientGetsResult
  BY DEF PatientInv, PatientGetsResult, OneAtATime
<1> QED
  BY <1>1, PatientAlways, PTL

\* Nor does he lose the graph he has given to a job, or the messenger: the thread that deletes
\* its commands finds its own flag, and the counter never gets to zero.
THEOREM PatientLosesNothing == Spec => []PatientKeepsObjects
<1>1. PatientInv => PatientKeepsObjects
  BY DEF PatientInv, PatientKeepsObjects, ObjectSurvives, MessengerSurvives, TearDown
<1> QED
  BY <1>1, PatientAlways, PTL
=============================================================================
