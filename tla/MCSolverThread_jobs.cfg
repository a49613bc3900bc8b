SPECIFICATION FairSpec
CONSTANTS
  j1 = j1
  j2 = j2
  j3 = j3
  s1 = s1
  s2 = s2
  s3 = s3
  Jobs <- ThreeJobs
  Slots <- ThreeSlots
  Settings <- AllSessions
  Guarded = TRUE
INVARIANTS
  OneScript
  ThreadsHaveEntries
  PatientGetsResult
  PatientKeepsObjects
PROPERTIES
  PatientJobsEnd
