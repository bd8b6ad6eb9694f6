CONSTANTS
  r1 = r1
  r2 = r2
  r3 = r3
  Requests = {r1, r2}
  Courses = {"hpc101"}
  Contests = {"c1", "c2"}
  Problems = {"p1", "p2"}
  Clashing <- NoClash
  ListFields = {"problem_ids"}
  MaxRetries = 1
  MaxJobs = 2
  Faults = {}

SPECIFICATION ProblemSyncSpec

INVARIANTS
  SyncsSucceed
