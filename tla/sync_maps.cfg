CONSTANTS
  r1 = r1
  r2 = r2
  r3 = r3
  Requests = {r1, r2}
  Courses = {"hpc101"}
  Contests = {"c1", "c2"}
  Problems = {"p1", "p2"}
  Clashing <- OneClash
  ListFields = {"problems", "problem_ids"}
  MaxRetries = 1
  MaxJobs = 2
  Faults = {"down", "lost", "refused", "save", "restart"}

SYMMETRY Symmetry

SPECIFICATION ProblemSyncSpec

INVARIANTS
  ProblemSyncTypeOK
  MappedIsJudged
  MappingDurable
  ForeignProblemsKept

PROPERTIES
  RetryHeals
