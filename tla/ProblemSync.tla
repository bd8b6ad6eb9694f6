---------------------------- MODULE ProblemSync ----------------------------
(***************************************************************************)
(* POST /api/v1/problems/sync (handleProblemSync), the adapter's upserts   *)
(* on the judge (SyncProblem), the judge's handlers behind them, and the   *)
(* map from platform problems to the judge's, which submissions go by.     *)
(* Any number of syncs run at once, and nothing but the store's mutex      *)
(* around the map orders them.                                             *)
(*                                                                         *)
(* A sync is a series of calls to CSOJ, each retried when the judge fails  *)
(* or cannot be reached.  A handler of CSOJ that writes checks what is     *)
(* loaded, writes a file, reads all files anew and swaps them in, and      *)
(* holds no lock from one of these steps to the next; who called it may    *)
(* have gone by then.  Definitions, times and names of problems are left   *)
(* out, and so are files read half written.  Nothing deletes contests or   *)
(* problems.                                                               *)
(***************************************************************************)
EXTENDS Naturals, FiniteSets

CONSTANTS Requests,     \* the requests for a sync
          Courses, Contests, Problems,   \* the platform's identifiers
          Clashing,     \* <<contest, problem>> pairs that encode to one CSOJ id
          ListFields,   \* the fields in which CSOJ may list a contest's problems
          MaxRetries,   \* retries of a call (3 in the program)
          MaxJobs,      \* bound: writing calls at the judge at once
          Faults        \* the failures that the environment may produce

\* "down": a call that does not reach the judge; "lost": one whose answer does
\* not arrive (both are retried); "refused": one whose answer is an error of
\* another kind; "save": the snapshot cannot be written.
Fault == {"down", "lost", "refused", "save", "restart"}

ASSUME ProblemSyncAssumption == /\ Courses # {} /\ Contests # {} /\ Problems # {}
                                /\ Clashing \subseteq Contests \X Problems
                                /\ ListFields \subseteq {"problems", "problem_ids"}
                                /\ MaxRetries \in Nat /\ MaxJobs \in Nat
                                /\ Faults \subseteq Fault

VARIABLES sync,       \* each request in its handler
          jobs,       \* the writing calls that the judge is busy with
          disk,       \* the judge's contest.yaml files
          loaded,     \* the contests that it has loaded from them
          field,      \* the field in which it lists a contest's problems
          map,        \* the problem map in memory
          saved,      \* the problem map in the last snapshot
          crossed     \* history: two writing calls were at the judge at once

judge == <<disk, loaded, field, crossed>>
pvars == <<sync, jobs, judge, map, saved>>

-----------------------------------------------------------------------------
Key == [course : Courses, contest : Contests, problem : Problems]

\* Both parts are encoded and joined by a character that encodings contain:
\* an id stands for the pairs that give it.  The course is not part of it.
CSOJProblemID(contest, problem) ==
  IF <<contest, problem>> \in Clashing THEN Clashing ELSE {<<contest, problem>>}

ID == {CSOJProblemID(c, p) : c \in Contests, p \in Problems}

NoID == {}

\* Each contest's list of problems; one that does not exist has NoList, which
\* has no problem in it.
NoList == {NoID}
List == (SUBSET ID) \union {NoList}
Lists == [Contests -> List]
Nothing == [c \in Contests |-> NoList]

\* The contests that a problem is listed in.
Homes(lists, i) == {c \in Contests : i \in lists[c]}

PutContest == {"putContest", "postContest"}
PutProblem == {"putProblem", "postProblem"}
Writes == PutContest \union PutProblem
Calls == Writes \union {"getContest", "listProblems", "getProblem"}
Active == Calls \union {"map"}
Over == {"synced", "failed", "cut"}

\* pc     where the request is: the call to the judge that comes next, or that
\*        it waits for, the map, or how it ended ("cut": by a restart)
\* tries  the retries of that call so far
\* clean  history: every call was carried out and answered
\* alone  history: nothing of another sync was going on meanwhile
Sync == [pc    : {"idle"} \union Active \union Over,
         key   : Key,
         tries : Nat,
         clean : BOOLEAN,
         alone : BOOLEAN]

\* A handler of the judge: by and try tell the call, heard is whether its
\* caller still waits for it; dirs is the list it found when it checked, read
\* what it has read from the disk to swap in.
Job == [by    : Requests,
        try   : Nat,
        op    : Writes,
        key   : Key,
        step  : {"check", "write", "load", "swap"},
        heard : BOOLEAN,
        dirs  : List,
        read  : Lists]

ProblemSyncInit ==
  /\ sync = [r \in Requests |-> [pc |-> "idle", key |-> CHOOSE k \in Key : TRUE,
                                 tries |-> 0, clean |-> TRUE, alone |-> TRUE]]
  /\ jobs = {}
  /\ disk = Nothing
  /\ loaded = Nothing
  /\ field \in ListFields
  /\ map = [k \in Key |-> NoID]
  /\ saved = map
  /\ crossed = FALSE

At(r, pc) == sync[r].pc = pc
Goto(r, pc) == sync' = [sync EXCEPT ![r].pc = pc, ![r].tries = 0]

Identifier(key) == CSOJProblemID(key.contest, key.problem)
Contest(r) == sync[r].key.contest
Problem(r) == Identifier(sync[r].key)

\* The judge is busy with a call that the request waits for.
Waits(r) == \E j \in jobs : j.by = r /\ j.heard

\* handleProblemSync, up to its call of the adapter.
Arrive(r, k) ==
  /\ At(r, "idle")
  /\ LET busy == {s \in Requests : sync[s].pc \in Active} IN
     sync' = [s \in Requests |->
                CASE s = r -> [sync[s] EXCEPT !.pc = "getContest", !.key = k,
                                              !.alone = (busy = {} /\ jobs = {})]
                  [] s \in busy -> [sync[s] EXCEPT !.alone = FALSE]
                  [] OTHER -> sync[s]]
  /\ UNCHANGED <<jobs, judge, map, saved>>

-----------------------------------------------------------------------------
(* The judge's handlers: createContest, updateContest, createProblemInContest *)
(* and updateProblem *)

\* The answer is nothing to a caller that has gone.
Answer(j, pc) == IF j.heard THEN Goto(j.by, pc) ELSE UNCHANGED sync

Steps(j, new) == jobs' = (jobs \ {j}) \union {new}

\* What the handler finds in the loaded contests lets it go on.
Accepted(j) ==
  CASE j.op = "putContest"  -> loaded[j.key.contest] # NoList
    [] j.op = "postContest" -> loaded[j.key.contest] = NoList
    [] j.op = "putProblem"  -> Homes(loaded, Identifier(j.key)) # {}
    [] j.op = "postProblem" -> /\ loaded[j.key.contest] # NoList
                               /\ Homes(loaded, Identifier(j.key)) = {}

Check(j) ==
  /\ j.step = "check" /\ Accepted(j)
  /\ Steps(j, [j EXCEPT !.step = "write", !.dirs = loaded[j.key.contest]])
  /\ UNCHANGED <<sync, judge, map, saved>>

\* Mutated form: a problem that the judge has already is as good as a new one.
RefuseNot(j) ==
  /\ j.step = "check" /\ ~Accepted(j)
  /\ jobs' = jobs \ {j}
  /\ Answer(j, IF j.op = "postProblem" THEN "map" ELSE "failed")
  /\ UNCHANGED <<judge, map, saved>>

\* "Not found" or a conflict, which is an error as any other.
Refuse(j) ==
  /\ j.step = "check" /\ ~Accepted(j)
  /\ jobs' = jobs \ {j}
  /\ Answer(j, "failed")
  /\ UNCHANGED <<judge, map, saved>>

\* The list that the handler found, with what others may have put into it
\* meanwhile: the loaded contest is shared and not guarded.
Found(j) == {j.dirs \union more : more \in SUBSET (disk[j.key.contest] \ NoList)}

\* The list that the handler leaves in the contest's file.
Written(j) ==
  CASE j.op = "putContest"  -> Found(j)
    [] j.op = "postContest" -> {{}}
    [] j.op = "putProblem"  -> {disk[j.key.contest]}
    [] j.op = "postProblem" -> {dirs \union {Identifier(j.key)} : dirs \in Found(j)}

Write(j) ==
  /\ j.step = "write"
  /\ \E dirs \in Written(j) : disk' = [disk EXCEPT ![j.key.contest] = dirs]
  /\ Steps(j, [j EXCEPT !.step = "load", !.dirs = NoList])
  /\ UNCHANGED <<sync, loaded, field, crossed, map, saved>>

\* reload, first all that is on disk, then the swap.
Load(j) ==
  /\ j.step = "load"
  /\ Steps(j, [j EXCEPT !.step = "swap", !.read = disk])
  /\ UNCHANGED <<sync, judge, map, saved>>

Swap(j) ==
  /\ j.step = "swap"
  /\ loaded' = j.read
  /\ jobs' = jobs \ {j}
  /\ Answer(j, IF j.op \in PutContest THEN "listProblems" ELSE "map")
  /\ UNCHANGED <<disk, field, crossed, map, saved>>

Judging(j) == Check(j) \/ Refuse(j) \/ Write(j) \/ Load(j) \/ Swap(j)

-----------------------------------------------------------------------------
(* SyncProblem: upsertContest, then upsertProblem *)

\* Mutated form: contests are always created.
GetContestNever(r) ==
  /\ At(r, "getContest")
  /\ Goto(r, "postContest")
  /\ UNCHANGED <<jobs, judge, map, saved>>

GetContest(r) ==
  /\ At(r, "getContest")
  /\ Goto(r, IF loaded[Contest(r)] # NoList THEN "putContest" ELSE "postContest")
  /\ UNCHANGED <<jobs, judge, map, saved>>

\* Mutated form: the problem is looked for in every contest.
inContestGlobal(r) == Homes(loaded, Problem(r)) # {}

\* The adapter reads the field "problems" of the contest.
inContest(r) == field = "problems" /\ Problem(r) \in loaded[Contest(r)]

ListProblems(r) ==
  /\ At(r, "listProblems")
  /\ Goto(r, IF inContest(r) THEN "putProblem" ELSE "getProblem")
  /\ UNCHANGED <<jobs, judge, map, saved>>

\* A problem that exists, but is not in the contest, is left alone.
GetProblem(r) ==
  /\ At(r, "getProblem")
  /\ Goto(r, IF Homes(loaded, Problem(r)) = {} THEN "postProblem" ELSE "failed")
  /\ UNCHANGED <<jobs, judge, map, saved>>

\* A PUT or a POST, of the contest or of the problem, reaches the judge.
Call(r) ==
  /\ sync[r].pc \in Writes /\ ~Waits(r) /\ Cardinality(jobs) < MaxJobs
  /\ jobs' = jobs \union {[by |-> r, try |-> sync[r].tries, op |-> sync[r].pc,
                           key |-> sync[r].key, step |-> "check", heard |-> TRUE,
                           dirs |-> NoList, read |-> Nothing]}
  /\ crossed' = (crossed \/ jobs # {})
  /\ UNCHANGED <<sync, disk, loaded, field, map, saved>>

\* What the judge does goes on, with nobody to hear of it.
Unheard(rs) == {[j EXCEPT !.heard = @ /\ j.by \notin rs] : j \in jobs}

\* What becomes of a call that failed for good: without the list of problems
\* the sync goes on as if the problem were not in it.
GiveUp(r) == IF At(r, "listProblems") THEN "getProblem" ELSE "failed"

\* Mutated form: one retry more.
UnansweredOnceMore(r) ==
  /\ sync[r].pc \in Calls
  /\ (IF Waits(r) THEN "lost" ELSE "down") \in Faults
  /\ jobs' = Unheard({r})
  /\ sync' = [sync EXCEPT ![r].clean = FALSE,
                          ![r].pc = IF sync[r].tries <= MaxRetries THEN @ ELSE GiveUp(r),
                          ![r].tries = IF sync[r].tries <= MaxRetries THEN @ + 1 ELSE 0]
  /\ UNCHANGED <<judge, map, saved>>

\* No answer, or one with status 5xx: the call is retried.
Unanswered(r) ==
  /\ sync[r].pc \in Calls
  /\ (IF Waits(r) THEN "lost" ELSE "down") \in Faults
  /\ jobs' = Unheard({r})
  /\ sync' = [sync EXCEPT ![r].clean = FALSE,
                          ![r].pc = IF sync[r].tries < MaxRetries THEN @ ELSE GiveUp(r),
                          ![r].tries = IF sync[r].tries < MaxRetries THEN @ + 1 ELSE 0]
  /\ UNCHANGED <<judge, map, saved>>

\* An answer that is not retried, be it a refusal or one that cannot be read,
\* or a caller who hangs up.
Refused(r) ==
  /\ sync[r].pc \in Calls
  /\ "refused" \in Faults
  /\ jobs' = Unheard({r})
  /\ sync' = [sync EXCEPT ![r].clean = FALSE, ![r].pc = GiveUp(r), ![r].tries = 0]
  /\ UNCHANGED <<judge, map, saved>>

-----------------------------------------------------------------------------
(* The problem map *)

MapProblem(r) ==
  /\ At(r, "map")
  /\ map' = [map EXCEPT ![sync[r].key] = Problem(r)]
  /\ saved' = map'
  /\ Goto(r, "synced")
  /\ UNCHANGED <<jobs, judge>>

\* Mutated form: the map keeps the entry that could not be saved.
MapNotSavedKept(r) ==
  /\ At(r, "map") /\ "save" \in Faults
  /\ map' = [map EXCEPT ![sync[r].key] = Problem(r)]
  /\ sync' = [sync EXCEPT ![r].pc = "failed", ![r].clean = FALSE]
  /\ UNCHANGED <<jobs, judge, saved>>

\* The entry is rolled back: the judge has the problem, and the map has not.
MapNotSaved(r) ==
  /\ At(r, "map") /\ "save" \in Faults
  /\ sync' = [sync EXCEPT ![r].pc = "failed", ![r].clean = FALSE]
  /\ UNCHANGED <<jobs, judge, map, saved>>

\* The controller crashes and loads its snapshot; the judge stays.
Restart ==
  /\ "restart" \in Faults
  /\ jobs' = Unheard(Requests)
  /\ sync' = [r \in Requests |->
                IF sync[r].pc \in Active THEN [sync[r] EXCEPT !.pc = "cut", !.tries = 0]
                                         ELSE sync[r]]
  /\ map' = saved
  /\ UNCHANGED <<judge, saved>>

\* Every request is answered, or cut off.
Quiet == /\ jobs = {} /\ \A r \in Requests : sync[r].pc \in Over
         /\ UNCHANGED pvars

Syncing(r) == \/ \E k \in Key : Arrive(r, k)
              \/ GetContest(r) \/ ListProblems(r) \/ GetProblem(r) \/ Call(r)
              \/ Unanswered(r) \/ Refused(r)
              \/ MapProblem(r) \/ MapNotSaved(r)

ProblemSyncNext == \/ \E r \in Requests : Syncing(r)
                   \/ \E j \in jobs : Judging(j)
                   \/ Restart
                   \/ Quiet

ProblemSyncSpec == ProblemSyncInit /\ [][ProblemSyncNext]_pvars

-----------------------------------------------------------------------------
(* Properties *)

\* Type invariant.  No call is retried more often than the adapter allows.
ProblemSyncTypeOK ==
  /\ sync \in [Requests -> Sync]
  /\ \A r \in Requests : sync[r].tries <= MaxRetries
  /\ jobs \subseteq Job
  /\ disk \in Lists
  /\ loaded \in Lists
  /\ field \in ListFields
  /\ map \in [Key -> ID \union {NoID}]
  /\ saved \in [Key -> ID \union {NoID}]
  /\ crossed \in BOOLEAN

\* Every problem that submissions are let through for is at the judge, in the
\* contest that the platform has it in, and in no other, whatever failed, was
\* retried, or ran at the same time (handleProblemSync maps only what the
\* adapter has synced) - as long as no two writing calls have met at the judge.
\* Once they have, a mapped problem may be gone: nothing in the adapter keeps
\* syncs apart, and the judge's handlers overwrite each other's files.
MappedIsJudged ==
  ~crossed => \A k \in Key : map[k] # NoID => Homes(loaded, map[k]) = {k.contest}

\* A mapping that students have seen survives a restart, and one whose save
\* failed is not seen ("Roll back to previous state", filestore.go:171).
MappingDurable == map = saved

\* "Never PUT a problem that exists under a different contest" (adapter.go:563),
\* nor create it a second time, although other syncs run between the look and
\* the write, and calls that were given up are carried out later - with the
\* same exception: two creations that meet at the judge are both accepted.
ForeignProblemsKept ==
  ~crossed => \A j \in jobs : j.op \in PutProblem /\ j.step = "write"
                => Homes(disk, Identifier(j.key)) \subseteq {j.key.contest}

\* A sync that meets no failure and no other sync fails only if its problem's
\* identifier exists at the judge, whatever the syncs before it have left half
\* done.  If the judge lists problems where the adapter looks for them, it
\* fails only if the identifier is taken by another contest.
FailsRightly(r) ==
  /\ Homes(loaded, Problem(r)) # {}
  /\ field = "problems" => Problem(r) \notin loaded[Contest(r)]

RetryHeals ==
  [][\A r \in Requests :
       ~At(r, "failed") /\ At(r, "failed")' /\ sync'[r].clean /\ sync[r].alone
         => FailsRightly(r)]_pvars

\* A sync that meets no failure and no other sync works, unless the identifier
\* is taken by another contest: "Problem exists under this contest - safe to PUT
\* full config." (adapter.go:557), else it is created.
SyncsSucceed ==
  \A r \in Requests : At(r, "failed") /\ sync[r].clean /\ sync[r].alone
                         => \E c \in Homes(loaded, Problem(r)) : c # Contest(r)
=============================================================================
