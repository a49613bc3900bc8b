--------------------------- MODULE MCSolverThread ---------------------------
\* SolverThread with a few jobs and table entries.  MAX_NUM_THREADS is 10; the
\* table is full with one entry less than the master and all jobs need.
EXTENDS SolverThread, TLC

CONSTANTS j1, j2, j3, s1, s2, s3

ThreeJobs  == {j1, j2, j3}
ThreeSlots == {s1, s2, s3}

Session(jobs, entries, patient, createMayFail, scriptMayAbort) ==
  [jobs |-> jobs, entries |-> entries, patient |-> patient,
   createMayFail |-> createMayFail, scriptMayAbort |-> scriptMayAbort]

\* One job after the other.
PatientSession == Session({j1, j2, j3}, {s1, s2}, TRUE, FALSE, FALSE)

\* Two jobs at a time, and everything fails that may fail.
HastySession == Session({j1, j2}, {s1, s2, s3}, FALSE, TRUE, TRUE)

\* The table has one entry besides the master's.
FullSession == Session({j1, j2, j3}, {s1, s2}, FALSE, TRUE, TRUE)

AllSessions == {PatientSession, HastySession, FullSession}

\* The settings of the counterexamples.
SingleJob == {Session({j1}, {s1, s2}, TRUE, FALSE, FALSE)}
Creating  == {Session({j1}, {s1, s2}, TRUE, TRUE, FALSE)}
Aborting  == {Session({j1, j2}, {s1, s2, s3}, TRUE, FALSE, TRUE)}
Hasty     == {Session({j1, j2}, {s1, s2, s3}, FALSE, FALSE, FALSE)}
=============================================================================
