------------------------- MODULE ProblemSyncProofs -------------------------
(***************************************************************************)
(* What is mapped is judged, and the problems of other contests are left   *)
(* alone, until two writing calls meet at the judge, for every set of      *)
(* requests and problems, every clash of identifiers and every combination *)
(* of faults; and a sync that meets neither a failure nor another sync     *)
(* fails only for a reason, whatever has met before.                       *)
(*                                                                         *)
(* MappedIsJudged is not inductive.  The strengthening (Steady) says what  *)
(* the one handler at the judge has found and will find at each of its     *)
(* steps, that what is loaded is what is on disk when there is none, and   *)
(* that a request about to map its problem knows where it is.  Files only  *)
(* grow meanwhile, so that nobody can make that untrue.                    *)
(*                                                                         *)
(* RetryHeals needs what each call has told a request that is clean and    *)
(* alone (OnCourse), and that every handler is its own (Apart).            *)
(***************************************************************************)
EXTENDS ProblemSync, TLAPS

\* The list of problems that a handler goes by when it writes is one.
Listed == \A j \in jobs : j.step = "write" /\ j.op \in {"putContest", "postProblem"}
                            => j.dirs # NoList

TInv == ProblemSyncTypeOK /\ Listed /\ MappingDurable

-----------------------------------------------------------------------------
(* Identifiers and records *)

\* An identifier is never empty, and so is in no contest that does not exist.
LEMMA NoIDIsNone == NoID \notin ID
<1>1. ASSUME NEW c \in Contests, NEW p \in Problems
      PROVE  <<c, p>> \in CSOJProblemID(c, p)
  <2>1. CASE <<c, p>> \in Clashing
    BY <2>1 DEF CSOJProblemID
  <2>2. CASE <<c, p>> \notin Clashing
    BY <2>2 DEF CSOJProblemID
  <2> QED BY <2>1, <2>2
<1>2. ASSUME NEW i \in ID PROVE i # {}
  <2>1. PICK c \in Contests, p \in Problems : i = CSOJProblemID(c, p)
    BY DEF ID
  <2> QED BY <1>1, <2>1
<1> QED BY <1>2 DEF NoID

\* So a list that has a problem is a list.
LEMMA AList == ASSUME NEW l \in List, NEW i \in ID, i \in l
               PROVE  l # NoList /\ l \in SUBSET ID
BY NoIDIsNone DEF NoList, List

\* A platform problem has an identifier, and its contest is one of the platform's.
LEMMA KeyID == ASSUME NEW k \in Key
               PROVE  Identifier(k) \in ID /\ k.contest \in Contests
BY DEF Key, Identifier, ID

\* What a request is when it has moved on, or come to its end.
LEMMA Moved ==
  ASSUME NEW x \in Sync, NEW pc \in Active \union Over
  PROVE  [x EXCEPT !.pc = pc, !.tries = 0] \in Sync
BY DEF Sync

\* Goto, field by field.
LEMMA GotoFields ==
  ASSUME ProblemSyncTypeOK, NEW r \in Requests, NEW pc \in Active \union Over, Goto(r, pc)
  PROVE  /\ sync' \in [Requests -> Sync]
         /\ \A s \in Requests : sync'[s].tries <= MaxRetries
         /\ sync'[r].pc = pc
         /\ sync'[r].key = sync[r].key /\ sync'[r].alone = sync[r].alone
         /\ sync'[r].clean = sync[r].clean
         /\ \A s \in Requests : s # r => sync'[s] = sync[s]
<1>1. sync \in [Requests -> Sync] /\ sync[r] \in Sync
  BY DEF ProblemSyncTypeOK
<1>2. sync' = [sync EXCEPT ![r].pc = pc, ![r].tries = 0]
  BY DEF Goto
<1>3. sync'[r] = [sync[r] EXCEPT !.pc = pc, !.tries = 0]
  BY <1>1, <1>2
<1>4. \A s \in Requests : s # r => sync'[s] = sync[s]
  BY <1>1, <1>2
<1>5. /\ sync'[r].pc = pc /\ sync'[r].tries = 0
      /\ sync'[r].key = sync[r].key /\ sync'[r].alone = sync[r].alone
      /\ sync'[r].clean = sync[r].clean /\ sync'[r] \in Sync
  <2>1. /\ sync'[r].pc = pc /\ sync'[r].tries = 0
        /\ sync'[r].key = sync[r].key /\ sync'[r].alone = sync[r].alone
        /\ sync'[r].clean = sync[r].clean
    BY <1>1, <1>3 DEF Sync
  <2>2. sync'[r] \in Sync
    BY <1>1, <1>3, Moved
  <2> QED BY <2>1, <2>2
<1>6. sync' \in [Requests -> Sync]
  BY <1>1, <1>2, <1>4, <1>5
<1>7. \A s \in Requests : sync'[s].tries <= MaxRetries
  BY <1>4, <1>5, ProblemSyncAssumption DEF ProblemSyncTypeOK
<1> QED BY <1>4, <1>5, <1>6, <1>7

\* What a request is after a step that failed.
LEMMA Unclean ==
  ASSUME NEW x \in Sync, NEW pc \in Active \union Over, NEW tries \in Nat
  PROVE  [x EXCEPT !.clean = FALSE, !.pc = pc, !.tries = tries] \in Sync
BY DEF Sync

\* A step that fails: the request is no longer clean, and it calls again, goes
\* on without the list of problems, or has failed.
LEMMA FailingFields ==
  ASSUME ProblemSyncTypeOK, NEW r \in Requests,
         Unanswered(r) \/ Refused(r) \/ MapNotSaved(r)
  PROVE  /\ sync' \in [Requests -> Sync]
         /\ \A s \in Requests : sync'[s].tries <= MaxRetries
         /\ sync'[r].clean = FALSE
         /\ sync'[r].key = sync[r].key /\ sync'[r].alone = sync[r].alone
         /\ sync[r].pc \in Active
         /\ \/ sync'[r].pc \in {"getProblem", "failed"}
            \/ sync'[r].pc = sync[r].pc /\ sync[r].pc \in Calls
         /\ \A s \in Requests : s # r => sync'[s] = sync[s]
<1>1. sync \in [Requests -> Sync] /\ sync[r] \in Sync /\ sync[r].tries \in 0..MaxRetries
  BY ProblemSyncAssumption DEF ProblemSyncTypeOK, Sync
<1>2. PICK pc, tries :
         /\ sync' = [sync EXCEPT ![r].clean = FALSE, ![r].pc = pc, ![r].tries = tries]
         /\ tries \in 0..MaxRetries
         /\ \/ pc \in {"getProblem", "failed"}
            \/ pc = sync[r].pc /\ sync[r].pc \in Calls
  <2>1. CASE Unanswered(r)
    <3> DEFINE again == sync[r].tries < MaxRetries
    <3>0. sync' = [sync EXCEPT ![r].clean = FALSE,
                               ![r].pc = IF again THEN sync[r].pc ELSE GiveUp(r),
                               ![r].tries = IF again THEN sync[r].tries + 1 ELSE 0]
      BY <1>1, <2>1 DEF Unanswered, Sync
    <3>1. CASE sync[r].tries < MaxRetries
      <4>1. sync' = [sync EXCEPT ![r].clean = FALSE, ![r].pc = sync[r].pc,
                                 ![r].tries = sync[r].tries + 1]
        BY <3>0, <3>1
      <4>2. sync[r].tries + 1 \in 0..MaxRetries
        BY <1>1, <3>1, ProblemSyncAssumption
      <4> QED BY <2>1, <4>1, <4>2 DEF Unanswered
    <3>2. CASE ~(sync[r].tries < MaxRetries)
      <4>1. sync' = [sync EXCEPT ![r].clean = FALSE, ![r].pc = GiveUp(r), ![r].tries = 0]
        BY <3>0, <3>2
      <4>2. 0 \in 0..MaxRetries /\ GiveUp(r) \in {"getProblem", "failed"}
        BY ProblemSyncAssumption DEF GiveUp
      <4> QED BY <4>1, <4>2
    <3> QED BY <3>1, <3>2
  <2>2. CASE Refused(r)
    <3>1. sync' = [sync EXCEPT ![r].clean = FALSE, ![r].pc = GiveUp(r), ![r].tries = 0]
      BY <2>2 DEF Refused
    <3>2. 0 \in 0..MaxRetries /\ GiveUp(r) \in {"getProblem", "failed"}
      BY ProblemSyncAssumption DEF GiveUp
    <3> QED BY <3>1, <3>2
  <2>3. CASE MapNotSaved(r)
    <3>1. sync' = [sync EXCEPT ![r].clean = FALSE, ![r].pc = "failed",
                               ![r].tries = sync[r].tries]
      BY <1>1, <2>3 DEF MapNotSaved, Sync
    <3> QED BY <1>1, <3>1
  <2> QED BY <2>1, <2>2, <2>3
<1>3. pc \in Active \union Over /\ tries \in Nat /\ tries <= MaxRetries
  BY <1>2, ProblemSyncAssumption DEF Active, Calls, Over
<1>4. sync'[r] = [sync[r] EXCEPT !.clean = FALSE, !.pc = pc, !.tries = tries]
  BY <1>1, <1>2
<1>5. \A s \in Requests : s # r => sync'[s] = sync[s]
  BY <1>1, <1>2
<1>6. /\ sync'[r] \in Sync /\ sync'[r].pc = pc /\ sync'[r].tries = tries
      /\ sync'[r].clean = FALSE
      /\ sync'[r].key = sync[r].key /\ sync'[r].alone = sync[r].alone
  <2>1. [sync[r] EXCEPT !.clean = FALSE, !.pc = pc, !.tries = tries] \in Sync
    BY <1>1, <1>3, Unclean
  <2>2. /\ sync'[r].clean = FALSE /\ sync'[r].pc = pc /\ sync'[r].tries = tries
        /\ sync'[r].key = sync[r].key /\ sync'[r].alone = sync[r].alone
    BY <1>1, <1>4 DEF Sync
  <2> QED BY <1>4, <2>1, <2>2
<1>7. sync' \in [Requests -> Sync]
  BY <1>1, <1>2, <1>5, <1>6
<1>8. \A s \in Requests : sync'[s].tries <= MaxRetries
  BY <1>3, <1>5, <1>6 DEF ProblemSyncTypeOK
<1>9. sync[r].pc \in Active
  BY DEF Unanswered, Refused, MapNotSaved, At, Active
<1> QED BY <1>2, <1>5, <1>6, <1>7, <1>8, <1>9

\* Who arrives is alone if nothing is going on, and nobody who is there stays alone.
LEMMA ArriveFields ==
  ASSUME ProblemSyncTypeOK, NEW r \in Requests, NEW k \in Key, Arrive(r, k)
  PROVE  /\ sync' \in [Requests -> Sync]
         /\ sync[r].pc = "idle" /\ sync'[r].pc = "getContest"
         /\ sync'[r].alone =>
              jobs = {} /\ \A s \in Requests : sync[s].pc \notin Active
         /\ \A s \in Requests :
              /\ sync'[s].tries <= MaxRetries
              /\ s # r => /\ sync'[s].pc = sync[s].pc /\ sync'[s].key = sync[s].key
                          /\ sync[s].pc \in Active => sync'[s].alone = FALSE
                          /\ sync[s].pc \notin Active => sync'[s] = sync[s]
<1> DEFINE busy == {s \in Requests : sync[s].pc \in Active}
           b == busy = {} /\ jobs = {}
<1>1. sync \in [Requests -> Sync] /\ sync[r].pc = "idle"
  BY DEF Arrive, At, ProblemSyncTypeOK
<1>2. r \notin busy
  BY <1>1 DEF Active, Calls, Writes, PutContest, PutProblem
<1>3. sync'[r] = [sync[r] EXCEPT !.pc = "getContest", !.key = k, !.alone = b]
  BY <1>2 DEF Arrive
<1>4. b \in BOOLEAN /\ (b => jobs = {} /\ \A s \in Requests : sync[s].pc \notin Active)
  OBVIOUS
<1>5. ASSUME NEW s \in Requests, s # r
      PROVE  /\ sync'[s] \in Sync /\ sync'[s].tries = sync[s].tries
             /\ sync'[s].pc = sync[s].pc /\ sync'[s].key = sync[s].key
             /\ sync[s].pc \in Active => sync'[s].alone = FALSE
             /\ sync[s].pc \notin Active => sync'[s] = sync[s]
  <2>1. CASE s \in busy
    <3>1. sync'[s] = [sync[s] EXCEPT !.alone = FALSE]
      BY <1>5, <2>1 DEF Arrive
    <3> QED BY <1>1, <2>1, <3>1 DEF Sync
  <2>2. CASE s \notin busy
    <3>1. sync'[s] = sync[s]
      BY <1>5, <2>2 DEF Arrive
    <3> QED BY <1>1, <2>2, <3>1
  <2> QED BY <2>1, <2>2
<1> HIDE DEF b, busy
<1>6. /\ sync'[r].pc = "getContest" /\ sync'[r].alone = b /\ sync'[r] \in Sync
      /\ sync'[r].tries = sync[r].tries
  <2>1. sync[r] \in Sync /\ "getContest" \in Active
    BY <1>1 DEF Active, Calls
  <2> QED BY <1>3, <1>4, <2>1 DEF Sync
<1>7. sync' \in [Requests -> Sync]
  BY <1>5, <1>6 DEF Arrive
<1>8. \A s \in Requests : sync'[s].tries <= MaxRetries
  BY <1>5, <1>6 DEF ProblemSyncTypeOK
<1> QED BY <1>1, <1>4, <1>5, <1>6, <1>7, <1>8

\* A restart ends every request that is on its way.
LEMMA RestartFields ==
  ASSUME ProblemSyncTypeOK, Restart
  PROVE  /\ sync' \in [Requests -> Sync]
         /\ \A s \in Requests : /\ sync'[s].tries <= MaxRetries
                                /\ sync'[s].pc \notin Active
                                /\ sync'[s].pc = "cut" \/ sync'[s] = sync[s]
<1>1. sync \in [Requests -> Sync]
  BY DEF ProblemSyncTypeOK
<1>2. ASSUME NEW s \in Requests
      PROVE  /\ sync'[s] \in Sync /\ sync'[s].tries <= MaxRetries
             /\ sync'[s].pc \notin Active
             /\ sync'[s].pc = "cut" \/ sync'[s] = sync[s]
  <2>1. CASE sync[s].pc \in Active
    <3>1. sync'[s] = [sync[s] EXCEPT !.pc = "cut", !.tries = 0]
      BY <2>1 DEF Restart
    <3>2. "cut" \in Over /\ "cut" \notin Active
      BY DEF Over, Active, Calls, Writes, PutContest, PutProblem
    <3>3. sync'[s].pc = "cut" /\ sync'[s].tries = 0
      BY <1>1, <3>1 DEF Sync
    <3>4. sync'[s] \in Sync
      <4>1. sync[s] \in Sync /\ "cut" \in Active \union Over
        BY <1>1, <3>2
      <4>2. [sync[s] EXCEPT !.pc = "cut", !.tries = 0] \in Sync
        BY <4>1, Moved
      <4> QED BY <3>1, <4>2
    <3> QED BY <3>2, <3>3, <3>4, ProblemSyncAssumption
  <2>2. CASE sync[s].pc \notin Active
    BY <1>1, <2>2 DEF Restart, ProblemSyncTypeOK
  <2> QED BY <2>1, <2>2
<1>3. sync' \in [Requests -> Sync]
  BY <1>2 DEF Restart
<1> QED BY <1>2, <1>3
-----------------------------------------------------------------------------
(* The judge's handlers, step by step *)

\* The same call, at another step.
Same(j, new) == /\ new.by = j.by /\ new.op = j.op
                /\ new.key = j.key /\ new.heard = j.heard

\* What a handler keeps, and what it gets, at each step.
LEMMA JobWrites ==
  ASSUME NEW j \in Job, NEW dirs \in List
  PROVE  /\ [j EXCEPT !.step = "write", !.dirs = dirs] \in Job
         /\ [j EXCEPT !.step = "load", !.dirs = dirs] \in Job
BY DEF Job

LEMMA JobReads ==
  ASSUME NEW j \in Job, NEW read \in Lists
  PROVE  [j EXCEPT !.step = "swap", !.read = read] \in Job
BY DEF Job

LEMMA JobUnheard ==
  ASSUME NEW j \in Job, NEW heard \in BOOLEAN
  PROVE  [j EXCEPT !.heard = heard] \in Job
BY DEF Job

\* A call that reaches the judge.
LEMMA CallStep ==
  ASSUME ProblemSyncTypeOK, NEW r \in Requests, Call(r)
  PROVE  \E new \in Job :
           /\ jobs' = jobs \union {new}
           /\ new.by = r /\ new.op = sync[r].pc /\ new.key = sync[r].key
           /\ new.step = "check" /\ new.heard
<1> DEFINE new == [by |-> r, try |-> sync[r].tries, op |-> sync[r].pc,
                   key |-> sync[r].key, step |-> "check", heard |-> TRUE,
                   dirs |-> NoList, read |-> Nothing]
<1>1. sync[r].tries \in Nat /\ sync[r].key \in Key /\ sync[r].pc \in Writes
  BY DEF Call, ProblemSyncTypeOK, Sync
<1>2. NoList \in List /\ Nothing \in Lists
  BY DEF Nothing, Lists, List
<1>3. /\ new \in Job /\ new.by = r /\ new.op = sync[r].pc /\ new.key = sync[r].key
      /\ new.step = "check" /\ new.heard
  BY <1>1, <1>2 DEF Job
<1>4. jobs' = jobs \union {new}
  BY DEF Call
<1> HIDE DEF new
<1> QED BY <1>3, <1>4

\* A handler that has checked goes by the list that it found.
LEMMA CheckStep ==
  ASSUME ProblemSyncTypeOK, NEW j \in jobs, Check(j)
  PROVE  \E new \in Job : /\ jobs' = (jobs \ {j}) \union {new} /\ Same(j, new)
                          /\ new.step = "write" /\ new.dirs = loaded[j.key.contest]
<1> DEFINE new == [j EXCEPT !.step = "write", !.dirs = loaded[j.key.contest]]
<1>1. j \in Job /\ loaded[j.key.contest] \in List
  BY KeyID DEF ProblemSyncTypeOK, Job, Lists
<1>2. new \in Job
  BY <1>1, JobWrites
<1>3. Same(j, new) /\ new.step = "write" /\ new.dirs = loaded[j.key.contest]
  BY <1>1 DEF Job, Same
<1>4. jobs' = (jobs \ {j}) \union {new}
  BY DEF Check, Steps
<1> HIDE DEF new
<1> QED BY <1>2, <1>3, <1>4

\* A handler that has found a list goes by one.
LEMMA FoundIsList ==
  ASSUME ProblemSyncTypeOK, Listed, NEW j \in jobs, j.step = "write",
         j.op \in {"putContest", "postProblem"}, NEW dirs \in Found(j)
  PROVE  dirs \in SUBSET ID /\ j.dirs \subseteq dirs /\ dirs \subseteq j.dirs \union disk[j.key.contest]
<1>1. j \in Job /\ j.dirs \in List /\ j.dirs # NoList
  BY DEF ProblemSyncTypeOK, Job, Listed
<1>2. disk[j.key.contest] \in List
  BY <1>1, KeyID DEF ProblemSyncTypeOK, Job, Lists
<1>3. j.dirs \in SUBSET ID /\ disk[j.key.contest] \ NoList \in SUBSET ID
  BY <1>1, <1>2 DEF List
<1>4. PICK more \in SUBSET (disk[j.key.contest] \ NoList) : dirs = j.dirs \union more
  BY DEF Found
<1> QED BY <1>3, <1>4

\* A handler changes the file of its own contest only.
LEMMA WriteStep ==
  ASSUME ProblemSyncTypeOK, Listed, NEW j \in jobs, Write(j)
  PROVE  /\ \E new \in Job : /\ jobs' = (jobs \ {j}) \union {new} /\ Same(j, new)
                             /\ new.step = "load"
         /\ disk' \in Lists
         /\ \E dirs \in Written(j) \intersect List :
               \A c \in Contests : disk'[c] = IF c = j.key.contest THEN dirs ELSE disk[c]
<1> DEFINE new == [j EXCEPT !.step = "load", !.dirs = NoList]
<1>1. j \in Job /\ NoList \in List /\ j.key \in Key
  BY DEF ProblemSyncTypeOK, Job, List
<1>2. new \in Job
  BY <1>1, JobWrites
<1>3. Same(j, new) /\ new.step = "load"
  BY <1>1 DEF Job, Same
<1>4. jobs' = (jobs \ {j}) \union {new}
  BY DEF Write, Steps
<1> HIDE DEF new
<1>5. disk \in Lists /\ disk[j.key.contest] \in List /\ j.key.contest \in Contests
      /\ Identifier(j.key) \in ID
  BY <1>1, KeyID DEF ProblemSyncTypeOK, Lists
<1>6. PICK dirs \in Written(j) : disk' = [disk EXCEPT ![j.key.contest] = dirs]
  BY DEF Write
<1>7. dirs \in List
  <2>1. CASE j.op = "putContest"
    <3>1. dirs \in Found(j)
      BY <1>6, <2>1 DEF Written
    <3> QED BY <2>1, <3>1, FoundIsList DEF Write, List
  <2>2. CASE j.op = "postContest"
    BY <1>6, <2>2 DEF Written, List
  <2>3. CASE j.op = "putProblem"
    BY <1>5, <1>6, <2>3 DEF Written
  <2>4. CASE j.op = "postProblem"
    <3>1. PICK d \in Found(j) : dirs = d \union {Identifier(j.key)}
      BY <1>6, <2>4 DEF Written
    <3>2. d \in SUBSET ID
      BY <2>4, FoundIsList DEF Write
    <3> QED BY <1>5, <3>1, <3>2 DEF List
  <2> QED BY <1>1, <2>1, <2>2, <2>3, <2>4 DEF Job, Writes, PutContest, PutProblem
<1>8. /\ disk' \in Lists
      /\ \A c \in Contests : disk'[c] = IF c = j.key.contest THEN dirs ELSE disk[c]
  BY <1>5, <1>6, <1>7 DEF Lists
<1> QED BY <1>2, <1>3, <1>4, <1>6, <1>7, <1>8

\* What a handler loads is what is on disk.
LEMMA LoadStep ==
  ASSUME ProblemSyncTypeOK, NEW j \in jobs, Load(j)
  PROVE  \E new \in Job : /\ jobs' = (jobs \ {j}) \union {new} /\ Same(j, new)
                          /\ new.step = "swap" /\ new.read = disk
<1> DEFINE new == [j EXCEPT !.step = "swap", !.read = disk]
<1>1. j \in Job /\ disk \in Lists
  BY DEF ProblemSyncTypeOK
<1>2. new \in Job
  BY <1>1, JobReads
<1>3. Same(j, new) /\ new.step = "swap" /\ new.read = disk
  BY <1>1 DEF Job, Same
<1>4. jobs' = (jobs \ {j}) \union {new}
  BY DEF Load, Steps
<1> HIDE DEF new
<1> QED BY <1>2, <1>3, <1>4

\* Callers that give up leave the judge's handlers as they are, but for that.
LEMMA UnheardStep ==
  ASSUME ProblemSyncTypeOK, NEW rs, jobs' = Unheard(rs)
  PROVE  /\ jobs' \subseteq Job
         /\ jobs = {} => jobs' = {}
         /\ jobs' = {} => jobs = {}
         /\ (\A j, k \in jobs : j = k) => (\A j, k \in jobs' : j = k)
         /\ \A new \in jobs' : \E j \in jobs :
              /\ new.by = j.by /\ new.op = j.op /\ new.key = j.key
              /\ new.step = j.step /\ new.dirs = j.dirs /\ new.read = j.read
         /\ \A new \in jobs' : new.heard => new \in jobs /\ new.by \notin rs
<1>1. jobs \subseteq Job
  BY DEF ProblemSyncTypeOK
<1>2. ASSUME NEW new \in jobs'
      PROVE  /\ new \in Job
             /\ \E j \in jobs :
                  /\ new.by = j.by /\ new.op = j.op /\ new.key = j.key
                  /\ new.step = j.step /\ new.dirs = j.dirs /\ new.read = j.read
             /\ new.heard => new \in jobs /\ new.by \notin rs
  <2>1. PICK j \in jobs : new = [j EXCEPT !.heard = j.heard /\ j.by \notin rs]
    BY <1>1 DEF Unheard
  <2> DEFINE h == j.heard /\ j.by \notin rs
  <2>2. j \in Job /\ h \in BOOLEAN /\ (h => j.heard /\ j.by \notin rs)
    BY <1>1
  <2>3. new = [j EXCEPT !.heard = h]
    BY <2>1
  <2> HIDE DEF h
  <2>4. new \in Job
    BY <2>2, <2>3, JobUnheard
  <2>5. /\ new.by = j.by /\ new.op = j.op /\ new.key = j.key
        /\ new.step = j.step /\ new.dirs = j.dirs /\ new.read = j.read
        /\ new.heard = h
    BY <2>2, <2>3 DEF Job
  <2>6. h => new = j
    BY <2>2, <2>3 DEF Job
  <2> QED BY <2>2, <2>4, <2>5, <2>6
<1>3. jobs' = {} => jobs = {}
  BY DEF Unheard
<1>4. (\A j, k \in jobs : j = k) => (\A j, k \in jobs' : j = k)
  BY DEF Unheard
<1> QED BY <1>2, <1>3, <1>4

\* An answer moves its caller on, if that still waits.
LEMMA AnswerFields ==
  ASSUME ProblemSyncTypeOK, NEW j \in jobs, NEW pc \in Active \union Over, Answer(j, pc)
  PROVE  /\ sync' \in [Requests -> Sync]
         /\ \A s \in Requests : /\ sync'[s].tries <= MaxRetries
                                /\ sync'[s].key = sync[s].key
                                /\ sync'[s].alone = sync[s].alone
                                /\ sync'[s].clean = sync[s].clean
         /\ j.heard => sync'[j.by].pc = pc
         /\ \A s \in Requests : s # j.by \/ ~j.heard => sync'[s] = sync[s]
<1>1. j.by \in Requests
  BY DEF ProblemSyncTypeOK, Job
<1>2. CASE j.heard
  <2>1. Goto(j.by, pc)
    BY <1>2 DEF Answer
  <2> QED BY <1>1, <1>2, <2>1, GotoFields
<1>3. CASE ~j.heard
  <2>1. sync' = sync
    BY <1>3 DEF Answer
  <2> QED BY <1>3, <2>1 DEF ProblemSyncTypeOK
<1> QED BY <1>2, <1>3

-----------------------------------------------------------------------------
(* Types *)

SyncTyped == /\ sync \in [Requests -> Sync]
             /\ \A r \in Requests : sync[r].tries <= MaxRetries

JudgeTyped == /\ jobs \subseteq Job /\ Listed
              /\ disk \in Lists /\ loaded \in Lists
              /\ field \in ListFields /\ crossed \in BOOLEAN

MapTyped == /\ map \in [Key -> ID \union {NoID}]
            /\ map = saved

\* The state is well typed at first: no request has begun, and nothing is there.
LEMMA InitTInv == ProblemSyncInit => TInv
<1> SUFFICES ASSUME ProblemSyncInit PROVE TInv
  OBVIOUS
<1>1. (CHOOSE k \in Key : TRUE) \in Key
  <2>1. PICK c \in Courses, t \in Contests, q \in Problems : TRUE
    BY ProblemSyncAssumption
  <2>2. [course |-> c, contest |-> t, problem |-> q] \in Key
    BY DEF Key
  <2> QED BY <2>2
<1>2. Nothing \in Lists
  BY DEF Nothing, Lists, List
<1>3. sync \in [Requests -> Sync] /\ \A r \in Requests : sync[r].tries <= MaxRetries
  BY <1>1, ProblemSyncAssumption DEF ProblemSyncInit, Sync
<1> QED BY <1>2, <1>3
        DEF TInv, ProblemSyncInit, ProblemSyncTypeOK, Listed, MappingDurable

\* Callers that give up leave the handlers well typed.
LEMMA UnheardTypes ==
  ASSUME TInv, NEW rs, jobs' = Unheard(rs)
  PROVE  jobs' \subseteq Job /\ Listed'
<1>1. /\ jobs' \subseteq Job
      /\ \A new \in jobs' : \E j \in jobs :
           /\ new.by = j.by /\ new.op = j.op /\ new.key = j.key
           /\ new.step = j.step /\ new.dirs = j.dirs /\ new.read = j.read
  BY UnheardStep DEF TInv
<1>2. Listed'
  <2> SUFFICES ASSUME NEW new \in jobs', new.step = "write",
                      new.op \in {"putContest", "postProblem"}
               PROVE  new.dirs # NoList
    BY DEF Listed
  <2> QED BY <1>1 DEF TInv, Listed
<1> QED BY <1>1, <1>2

\* Every step of a request leaves the requests well typed, ...
LEMMA SyncingTypesSync ==
  ASSUME ProblemSyncTypeOK, NEW r \in Requests, Syncing(r)
  PROVE  SyncTyped'
<1>1. CASE \E k \in Key : Arrive(r, k)
  BY <1>1, ArriveFields DEF SyncTyped
<1>2. CASE GetContest(r) \/ ListProblems(r) \/ GetProblem(r) \/ MapProblem(r)
  <2>1. \E pc \in Active \union Over : Goto(r, pc)
    BY <1>2 DEF GetContest, ListProblems, GetProblem, MapProblem,
                Active, Calls, Writes, PutContest, PutProblem, Over
  <2> QED BY <2>1, GotoFields DEF SyncTyped
<1>3. CASE Call(r)
  BY <1>3 DEF Call, SyncTyped, ProblemSyncTypeOK
<1>4. CASE Unanswered(r) \/ Refused(r) \/ MapNotSaved(r)
  BY <1>4, FailingFields DEF SyncTyped
<1> QED BY <1>1, <1>2, <1>3, <1>4 DEF Syncing

\* ... the judge, ...
LEMMA SyncingTypesJudge ==
  ASSUME TInv, NEW r \in Requests, Syncing(r)
  PROVE  JudgeTyped'
<1>1. CASE UNCHANGED <<jobs, judge>>
  BY <1>1 DEF judge, TInv, ProblemSyncTypeOK, JudgeTyped, Listed
<1>2. CASE Unanswered(r) \/ Refused(r)
  <2>1. UNCHANGED judge /\ jobs' = Unheard({r})
    BY <1>2 DEF Unanswered, Refused
  <2>2. jobs' \subseteq Job /\ Listed'
    BY <2>1, UnheardTypes
  <2> QED BY <2>1, <2>2 DEF judge, TInv, ProblemSyncTypeOK, JudgeTyped
<1>3. CASE Call(r)
  <2>4. PICK new \in Job : new.step = "check" /\ jobs' = jobs \union {new}
    BY <1>3, CallStep DEF TInv
  <2>5. jobs' \subseteq Job /\ Listed'
    BY <2>4 DEF TInv, ProblemSyncTypeOK, Listed
  <2>6. crossed' \in BOOLEAN
    BY <1>3 DEF Call
  <2> QED BY <1>3, <2>5, <2>6 DEF Call, TInv, ProblemSyncTypeOK, JudgeTyped
<1> QED BY <1>1, <1>2, <1>3
        DEF Syncing, Arrive, GetContest, ListProblems, GetProblem, MapProblem, MapNotSaved

\* ... and the map, whose copy on disk is written with it.
LEMMA SyncingTypesMap ==
  ASSUME TInv, NEW r \in Requests, Syncing(r)
  PROVE  MapTyped'
<1>1. CASE MapProblem(r)
  <2>1. Problem(r) \in ID
    BY KeyID DEF TInv, ProblemSyncTypeOK, Sync, Problem
  <2>2. map' \in [Key -> ID \union {NoID}]
    BY <1>1, <2>1 DEF MapProblem, TInv, ProblemSyncTypeOK
  <2> QED BY <1>1, <2>2 DEF MapProblem, MapTyped
<1>2. CASE UNCHANGED <<map, saved>>
  BY <1>2 DEF MapTyped, TInv, MappingDurable, ProblemSyncTypeOK
<1> QED BY <1>1, <1>2 DEF Syncing, Arrive, GetContest, ListProblems, GetProblem, Call,
                          Unanswered, Refused, MapNotSaved

\* So does every step of the judge.
LEMMA JudgingTypes ==
  ASSUME TInv, NEW j \in jobs, Judging(j)
  PROVE  SyncTyped' /\ JudgeTyped' /\ MapTyped'
<1>1. MapTyped'
  BY DEF Judging, Check, Refuse, Write, Load, Swap, MapTyped, TInv, MappingDurable,
         ProblemSyncTypeOK
<1>2. CASE Check(j)
  <2>1. PICK new \in Job : /\ jobs' = (jobs \ {j}) \union {new} /\ Same(j, new)
                           /\ new.step = "write" /\ new.dirs = loaded[j.key.contest]
    BY <1>2, CheckStep DEF TInv
  <2>2. UNCHANGED sync /\ UNCHANGED judge
    BY <1>2 DEF Check
  <2>3. new.op \in {"putContest", "postProblem"} => new.dirs # NoList
    BY <1>2, <2>1 DEF Check, Accepted, Same
  <2> QED BY <1>1, <2>1, <2>2, <2>3
          DEF TInv, ProblemSyncTypeOK, SyncTyped, JudgeTyped, Listed, judge
<1>3. CASE Write(j)
  <2>1. /\ \E new \in Job : /\ jobs' = (jobs \ {j}) \union {new} /\ Same(j, new)
                            /\ new.step = "load"
        /\ disk' \in Lists
    BY <1>3, WriteStep DEF TInv
  <2> QED BY <1>1, <1>3, <2>1
          DEF Write, TInv, ProblemSyncTypeOK, SyncTyped, JudgeTyped, Listed
<1>4. CASE Load(j)
  <2>1. \E new \in Job : /\ jobs' = (jobs \ {j}) \union {new} /\ Same(j, new)
                         /\ new.step = "swap" /\ new.read = disk
    BY <1>4, LoadStep DEF TInv
  <2> QED BY <1>1, <1>4, <2>1
          DEF Load, TInv, ProblemSyncTypeOK, SyncTyped, JudgeTyped, Listed, judge
<1>5. CASE Refuse(j)
  <2>1. SyncTyped'
    BY <1>5, AnswerFields DEF Refuse, TInv, SyncTyped, Over
  <2> QED BY <1>1, <1>5, <2>1 DEF Refuse, TInv, ProblemSyncTypeOK, JudgeTyped, Listed, judge
<1>6. CASE Swap(j)
  <2>1. SyncTyped'
    BY <1>6, AnswerFields DEF Swap, TInv, SyncTyped, Active, Calls
  <2>2. loaded' \in Lists
    BY <1>6 DEF Swap, TInv, ProblemSyncTypeOK, Job
  <2> QED BY <1>1, <1>6, <2>1, <2>2 DEF Swap, TInv, ProblemSyncTypeOK, JudgeTyped, Listed
<1> QED BY <1>2, <1>3, <1>4, <1>5, <1>6 DEF Judging

\* Every step keeps the state well typed, and the map as it was saved.
LEMMA NextTInv == TInv /\ [ProblemSyncNext]_pvars => TInv'
<1> SUFFICES ASSUME TInv, [ProblemSyncNext]_pvars
             PROVE  SyncTyped' /\ JudgeTyped' /\ MapTyped'
  BY DEF TInv, ProblemSyncTypeOK, MappingDurable, SyncTyped, JudgeTyped, MapTyped
<1>1. ASSUME NEW r \in Requests, Syncing(r) PROVE SyncTyped' /\ JudgeTyped' /\ MapTyped'
  BY <1>1, SyncingTypesSync, SyncingTypesJudge, SyncingTypesMap DEF TInv
<1>2. ASSUME NEW j \in jobs, Judging(j) PROVE SyncTyped' /\ JudgeTyped' /\ MapTyped'
  BY <1>2, JudgingTypes
<1>3. CASE Restart
  <2>1. SyncTyped'
    BY <1>3, RestartFields DEF TInv, SyncTyped
  <2>2. jobs' \subseteq Job /\ Listed'
    BY <1>3, UnheardTypes DEF Restart
  <2>3. MapTyped'
    BY <1>3 DEF Restart, MapTyped, TInv, ProblemSyncTypeOK, MappingDurable
  <2> QED BY <1>3, <2>1, <2>2, <2>3 DEF Restart, judge, TInv, ProblemSyncTypeOK, JudgeTyped
<1>4. CASE UNCHANGED pvars
  BY <1>4 DEF pvars, judge, TInv, ProblemSyncTypeOK, MappingDurable, Listed,
              SyncTyped, JudgeTyped, MapTyped
<1> QED BY <1>1, <1>2, <1>3, <1>4 DEF ProblemSyncNext, Quiet

LEMMA AlwaysTInv == ProblemSyncSpec => []TInv
BY InitTInv, NextTInv, PTL DEF ProblemSyncSpec

\* Every state is well typed, and no call is retried more often than MaxRetries.
THEOREM ProblemSyncTypeCorrect == ProblemSyncSpec => []ProblemSyncTypeOK
<1>1. TInv => ProblemSyncTypeOK
  BY DEF TInv
<1> QED BY <1>1, AlwaysTInv, PTL

\* The map in memory is the one in the snapshot (FileStore.MapProblem).
THEOREM Durable == ProblemSyncSpec => []MappingDurable
<1>1. TInv => MappingDurable
  BY DEF TInv
<1> QED BY <1>1, AlwaysTInv, PTL

-----------------------------------------------------------------------------
(* Who waits for which handler *)

\* A handler that is heard is of the call that its caller waits for.
Own == \A j \in jobs : j.heard => j.op = sync[j.by].pc /\ j.key = sync[j.by].key

\* A request waits for one handler at most.
OneHeard == \A j, k \in jobs : j.heard /\ k.heard /\ j.by = k.by => j = k

CInv == TInv /\ Own /\ OneHeard

\* A request that does not write is waiting for no handler.
LEMMA NoneHeard ==
  ASSUME CInv, NEW r \in Requests, sync[r].pc \notin Writes
  PROVE  \A j \in jobs : j.heard => j.by # r
BY DEF CInv, TInv, ProblemSyncTypeOK, Job, Own

\* The steps of a request that are no writing calls.
Reading(r) == \/ \E k \in Key : Arrive(r, k)
              \/ GetContest(r) \/ ListProblems(r) \/ GetProblem(r)
              \/ MapProblem(r) \/ MapNotSaved(r)

\* What a step of that kind leaves alone.
LEMMA ReadingFields ==
  ASSUME TInv, NEW r \in Requests, Reading(r)
  PROVE  /\ UNCHANGED <<jobs, disk, loaded, field, crossed>> /\ sync[r].pc \notin Writes
         /\ \A s \in Requests : s # r => sync'[s].pc = sync[s].pc /\ sync'[s].key = sync[s].key
<1>0. ProblemSyncTypeOK
  BY DEF TInv
<1>1. UNCHANGED <<jobs, disk, loaded, field, crossed>>
  BY DEF Reading, Arrive, GetContest, ListProblems, GetProblem, MapProblem, MapNotSaved, judge
<1>2. sync[r].pc \notin Writes
  BY DEF Reading, Arrive, GetContest, ListProblems, GetProblem, MapProblem, MapNotSaved, At,
         Writes, PutContest, PutProblem
<1>3. CASE \E k \in Key : Arrive(r, k)
  BY <1>0, <1>1, <1>2, <1>3, ArriveFields
<1>4. CASE GetContest(r) \/ ListProblems(r) \/ GetProblem(r) \/ MapProblem(r)
  <2>1. \E pc \in Active \union Over : Goto(r, pc)
    BY <1>4 DEF GetContest, ListProblems, GetProblem, MapProblem,
                Active, Calls, Writes, PutContest, PutProblem, Over
  <2>2. \A s \in Requests : s # r => sync'[s] = sync[s]
    BY <1>0, <2>1, GotoFields
  <2> QED BY <1>1, <1>2, <2>2
<1>5. CASE MapNotSaved(r)
  BY <1>0, <1>1, <1>2, <1>5, FailingFields
<1> QED BY <1>3, <1>4, <1>5 DEF Reading

\* Who gives up is heard no more, and the others wait as before.
LEMMA UnheardCalls ==
  ASSUME CInv, NEW rs, jobs' = Unheard(rs),
         \A s \in Requests : s \notin rs => sync'[s] = sync[s]
  PROVE  Own' /\ OneHeard'
<1>1. \A new \in jobs' : new.heard => new \in jobs /\ new.by \notin rs
  BY UnheardStep DEF CInv, TInv
<1>2. \A j \in jobs : j.by \in Requests
  BY DEF CInv, TInv, ProblemSyncTypeOK, Job
<1> QED BY <1>1, <1>2 DEF CInv, Own, OneHeard

\* A step of a request keeps the others waiting for their handlers.
LEMMA SyncingCalls ==
  ASSUME CInv, NEW r \in Requests, Syncing(r)
  PROVE  Own' /\ OneHeard'
<1>0. TInv /\ ProblemSyncTypeOK
  BY DEF CInv, TInv
<1>1. CASE Reading(r)
  <2>1. /\ jobs' = jobs /\ sync[r].pc \notin Writes
        /\ \A s \in Requests : s # r => sync'[s].pc = sync[s].pc /\ sync'[s].key = sync[s].key
    BY <1>0, <1>1, ReadingFields
  <2>2. \A j \in jobs : j.heard => j.by # r
    BY <2>1, NoneHeard
  <2> QED BY <2>1, <2>2 DEF CInv, TInv, ProblemSyncTypeOK, Job, Own, OneHeard
<1>2. CASE Unanswered(r) \/ Refused(r)
  <2>1. jobs' = Unheard({r}) /\ \A s \in Requests : s \notin {r} => sync'[s] = sync[s]
    BY <1>0, <1>2, FailingFields DEF Unanswered, Refused
  <2> QED BY <2>1, UnheardCalls
<1>3. CASE Call(r)
  <2>1. PICK new \in Job :
          /\ jobs' = jobs \union {new}
          /\ new.by = r /\ new.op = sync[r].pc /\ new.key = sync[r].key
          /\ new.step = "check" /\ new.heard
    BY <1>0, <1>3, CallStep
  <2>2. sync' = sync /\ \A j \in jobs : j.heard => j.by # r
    BY <1>3 DEF Call, Waits
  <2> QED BY <2>1, <2>2 DEF CInv, Own, OneHeard
<1> QED BY <1>1, <1>2, <1>3 DEF Syncing, Reading

\* A handler that goes on, or is done, keeps the others' callers waiting.
LEMMA JudgingCalls ==
  ASSUME CInv, NEW j \in jobs, Judging(j)
  PROVE  Own' /\ OneHeard'
<1>0. TInv /\ ProblemSyncTypeOK
  BY DEF CInv, TInv
<1>1. CASE Check(j) \/ Write(j) \/ Load(j)
  <2>1. PICK new \in Job : jobs' = (jobs \ {j}) \union {new} /\ Same(j, new)
    BY <1>0, <1>1, CheckStep, WriteStep, LoadStep DEF TInv
  <2>2. sync' = sync
    BY <1>1 DEF Check, Write, Load
  <2> QED BY <2>1, <2>2 DEF CInv, Own, OneHeard, Same
<1>2. CASE Refuse(j) \/ Swap(j)
  <2>1. /\ jobs' = jobs \ {j}
        /\ \E pc \in Active \union Over : Answer(j, pc)
    BY <1>2 DEF Refuse, Swap, Active, Calls, Over
  <2>2. \A s \in Requests : s # j.by \/ ~j.heard => sync'[s] = sync[s]
    BY <1>0, <2>1, AnswerFields
  <2>3. \A k \in jobs' : k.heard => k.by \in Requests /\ (k.by # j.by \/ ~j.heard)
    BY <2>1 DEF CInv, TInv, ProblemSyncTypeOK, Job, OneHeard
  <2> QED BY <2>1, <2>2, <2>3 DEF CInv, Own, OneHeard
<1> QED BY <1>1, <1>2 DEF Judging

LEMMA InitCInv == ProblemSyncInit => CInv
BY InitTInv DEF ProblemSyncInit, CInv, Own, OneHeard

\* Every step keeps to one handler for each call that a request waits for.
LEMMA NextCInv == CInv /\ [ProblemSyncNext]_pvars => CInv'
<1> SUFFICES ASSUME CInv, [ProblemSyncNext]_pvars PROVE Own' /\ OneHeard'
  BY NextTInv DEF CInv
<1>1. ASSUME NEW r \in Requests, Syncing(r) PROVE Own' /\ OneHeard'
  BY <1>1, SyncingCalls
<1>2. ASSUME NEW j \in jobs, Judging(j) PROVE Own' /\ OneHeard'
  BY <1>2, JudgingCalls
<1>3. CASE Restart
  BY <1>3, UnheardCalls DEF Restart
<1>4. CASE UNCHANGED pvars
  BY <1>4 DEF pvars, CInv, Own, OneHeard
<1> QED BY <1>1, <1>2, <1>3, <1>4 DEF ProblemSyncNext, Quiet

-----------------------------------------------------------------------------
(* While no two writing calls meet at the judge *)

\* The second lists have every problem where the first have it.
Grows(a, b) == \A c \in Contests, i \in ID : i \in a[c] => i \in b[c]

\* No problem is in two contests.
Single(lists) == \A c, d \in Contests, i \in ID : i \in lists[c] /\ i \in lists[d] => c = d

\* What the handler checked still holds when it writes.
Ready(j) ==
  /\ j.op = "postContest" => disk[j.key.contest] = NoList
  /\ j.op \in {"putContest", "postProblem"} => j.dirs = disk[j.key.contest]
  /\ j.op = "postProblem" => Homes(disk, Identifier(j.key)) = {}

\* What holds at each step of the only handler.
Phase(j) ==
  /\ j.step \in {"check", "write"} => loaded = disk
  /\ j.step = "write" => Ready(j)
  /\ j.step = "swap" => j.read = disk
  /\ \/ j.op = "putProblem"
     \/ j.op = "postProblem" /\ j.step \in {"load", "swap"}
     => Identifier(j.key) \in disk[j.key.contest]

SteadyJudge == /\ \A j, k \in jobs : j = k
               /\ jobs = {} => loaded = disk
               /\ Single(disk) /\ Grows(loaded, disk)
               /\ \A j \in jobs : Phase(j)

\* A request that updates or maps its problem knows that it is in its contest.
Knows == \A r \in Requests : At(r, "putProblem") \/ At(r, "map")
                               => Problem(r) \in loaded[Contest(r)]

Mapped == \A k \in Key : map[k] # NoID => map[k] \in loaded[k.contest]

Steady == SteadyJudge /\ Knows /\ Mapped

SInv == CInv /\ (~crossed => Steady)

LEMMA InitSInv == ProblemSyncInit => SInv
<1> SUFFICES ASSUME ProblemSyncInit PROVE Steady
  BY InitCInv DEF SInv
<1>1. \A c \in Contests, i \in ID : i \notin Nothing[c]
  BY NoIDIsNone DEF Nothing, NoList
<1>2. SteadyJudge
  BY <1>1 DEF ProblemSyncInit, SteadyJudge, Single, Grows
<1> QED BY <1>2 DEF ProblemSyncInit, Steady, Knows, Mapped, At

\* A step that leaves the judge alone keeps what it has steady, and what is
\* mapped judged.
LEMMA JudgeRests ==
  ASSUME SteadyJudge, UNCHANGED <<jobs, judge>>
  PROVE  SteadyJudge'
BY DEF judge, SteadyJudge, Single, Grows, Phase, Ready, Homes

\* So does one by which callers give up.
LEMMA JudgeUnheard ==
  ASSUME TInv, SteadyJudge, NEW rs, jobs' = Unheard(rs), UNCHANGED judge
  PROVE  SteadyJudge'
<1>1. /\ jobs' = {} => jobs = {}
      /\ (\A j, k \in jobs : j = k) => (\A j, k \in jobs' : j = k)
      /\ \A new \in jobs' : \E j \in jobs :
           /\ new.by = j.by /\ new.op = j.op /\ new.key = j.key
           /\ new.step = j.step /\ new.dirs = j.dirs /\ new.read = j.read
  BY UnheardStep DEF TInv
<1>2. disk' = disk /\ loaded' = loaded
  BY DEF judge
<1>3. ASSUME NEW new \in jobs' PROVE Phase(new)'
  <2>1. PICK j \in jobs : /\ new.op = j.op /\ new.key = j.key
                          /\ new.step = j.step /\ new.dirs = j.dirs /\ new.read = j.read
    BY <1>1
  <2>2. Phase(j)
    BY DEF SteadyJudge
  <2> QED BY <1>2, <2>1, <2>2 DEF Phase, Ready, Homes
<1> QED BY <1>1, <1>2, <1>3 DEF SteadyJudge, Single, Grows

\* A request that reads what is loaded knows it, and maps what it knows.
LEMMA ReadingSteady ==
  ASSUME TInv, Steady, NEW r \in Requests, Reading(r)
  PROVE  Steady'
<1>0. TInv /\ ProblemSyncTypeOK /\ Knows /\ Mapped
  BY DEF TInv, Steady
<1>1. /\ UNCHANGED <<jobs, disk, loaded, field, crossed>> /\ sync[r].pc \notin Writes
      /\ \A s \in Requests : s # r => sync'[s].pc = sync[s].pc /\ sync'[s].key = sync[s].key
  BY ReadingFields
<1>2. SteadyJudge'
  BY <1>1, JudgeRests DEF Steady, judge
<1>3. Knows'
  <2>1. CASE \E k \in Key : Arrive(r, k)
    <3>1. sync'[r].pc = "getContest"
      BY <1>0, <2>1, ArriveFields
    <3> QED BY <1>0, <1>1, <3>1 DEF Knows, At, Problem, Contest
  <2>2. CASE GetContest(r) \/ ListProblems(r) \/ GetProblem(r) \/ MapProblem(r)
    <3>1. PICK pc \in Active \union Over :
            /\ Goto(r, pc) /\ pc # "map"
            /\ pc = "putProblem" => Problem(r) \in loaded[Contest(r)]
      BY <2>2 DEF GetContest, ListProblems, GetProblem, MapProblem, inContest,
                  Active, Calls, Writes, PutContest, PutProblem, Over
    <3>2. sync'[r].pc = pc /\ sync'[r].key = sync[r].key
      BY <1>0, <3>1, GotoFields
    <3> QED BY <1>0, <1>1, <3>1, <3>2 DEF Knows, At, Problem, Contest
  <2>3. CASE MapNotSaved(r)
    <3>1. sync'[r].pc \in {"getProblem", "failed"} \/ sync'[r].pc \in Calls \ Writes
      BY <1>0, <1>1, <2>3, FailingFields
    <3> QED BY <1>0, <1>1, <3>1 DEF Knows, At, Problem, Contest, Writes, PutProblem, Calls
  <2> QED BY <2>1, <2>2, <2>3 DEF Reading
<1>4. Mapped'
  <2>1. CASE MapProblem(r)
    <3>1. sync[r].key \in Key /\ Problem(r) \in loaded[Contest(r)]
      BY <1>0, <2>1 DEF MapProblem, Knows, ProblemSyncTypeOK, Sync
    <3>2. \A k \in Key : map'[k] = IF k = sync[r].key THEN Problem(r) ELSE map[k]
      BY <1>0, <2>1 DEF MapProblem, ProblemSyncTypeOK
    <3> QED BY <1>0, <1>1, <3>1, <3>2 DEF Mapped, Contest
  <2>2. CASE ~MapProblem(r)
    BY <1>0, <1>1, <2>2 DEF Reading, Arrive, GetContest, ListProblems, GetProblem,
                            MapNotSaved, Mapped
  <2> QED BY <2>1, <2>2
<1> QED BY <1>2, <1>3, <1>4 DEF Steady

\* Whoever gives up leaves the judge to go on, and knows no less.
LEMMA UnheardSteady ==
  ASSUME TInv, Steady, NEW r \in Requests, Unanswered(r) \/ Refused(r)
  PROVE  Steady'
<1>1. /\ jobs' = Unheard({r}) /\ UNCHANGED <<judge, map>>
      /\ disk' = disk /\ loaded' = loaded
  BY DEF Unanswered, Refused, judge
<1>2. SteadyJudge'
  BY <1>1, JudgeUnheard DEF Steady
<1>3. /\ sync'[r].key = sync[r].key
      /\ \/ sync'[r].pc \in {"getProblem", "failed"}
         \/ sync'[r].pc = sync[r].pc /\ sync[r].pc \in Calls
      /\ \A s \in Requests : s # r => sync'[s] = sync[s]
  BY FailingFields DEF TInv
<1>4. Knows'
  BY <1>1, <1>3 DEF Steady, Knows, At, Problem, Contest, Calls
<1>5. Mapped'
  BY <1>1 DEF Steady, Mapped
<1> QED BY <1>2, <1>4, <1>5 DEF Steady

\* A call that finds no other at the judge finds all files loaded.
LEMMA CallSteady ==
  ASSUME TInv, Steady, NEW r \in Requests, Call(r), ~crossed'
  PROVE  Steady'
<1>1. PICK new \in Job :
        /\ jobs' = jobs \union {new}
        /\ new.by = r /\ new.op = sync[r].pc /\ new.key = sync[r].key
        /\ new.step = "check" /\ new.heard
  BY CallStep DEF TInv
<1>2. jobs = {} /\ jobs' = {new}
  BY <1>1 DEF Call
<1>3. UNCHANGED <<sync, disk, loaded, map>> /\ loaded = disk
  BY <1>2 DEF Call, Steady, SteadyJudge
<1>4. Knows' /\ Mapped'
  BY <1>1, <1>2, <1>3 DEF Steady, Knows, Mapped, At, Problem, Contest
<1>5. Phase(new)'
  BY <1>1, <1>3 DEF Phase, Steady, Knows, At, Problem, Contest
<1>6. SteadyJudge'
  BY <1>2, <1>3, <1>5 DEF Steady, SteadyJudge, Single, Grows
<1> QED BY <1>4, <1>6 DEF Steady

\* A restart cuts the requests off; the judge does not notice.
LEMMA RestartSteady == ASSUME TInv, Steady, Restart PROVE Steady'
<1>1. /\ jobs' = Unheard(Requests) /\ UNCHANGED judge /\ map' = map
      /\ disk' = disk /\ loaded' = loaded
  BY DEF Restart, judge, TInv, MappingDurable
<1>2. SteadyJudge'
  BY <1>1, JudgeUnheard DEF Steady
<1>3. Knows'
  <2>1. \A s \in Requests : sync'[s].pc \notin Active
    BY RestartFields DEF TInv
  <2> QED BY <2>1 DEF Knows, At, Active, Calls, Writes, PutProblem
<1>4. Mapped'
  BY <1>1 DEF Steady, Mapped
<1> QED BY <1>2, <1>3, <1>4 DEF Steady

-----------------------------------------------------------------------------
(* The only handler at the judge *)

\* There is one, so that only its successor is there when it has gone on.
LEMMA OnlyJob ==
  ASSUME Steady, NEW j \in jobs
  PROVE  jobs = {j} /\ Phase(j)
BY DEF Steady, SteadyJudge

\* A handler that goes on keeps what concerns its caller.
LEMMA GoesOn ==
  ASSUME Steady, NEW j \in jobs, NEW new, jobs' = (jobs \ {j}) \union {new}, Same(j, new),
         UNCHANGED <<sync, loaded, map>>
  PROVE  jobs' = {new} /\ Knows' /\ Mapped'
<1>1. jobs' = {new}
  BY OnlyJob
<1> QED BY <1>1 DEF Steady, Knows, Mapped, At, Problem, Contest, Same

LEMMA CheckSteady ==
  ASSUME TInv, Steady, NEW j \in jobs, Check(j)
  PROVE  Steady'
<1>1. PICK new \in Job : /\ jobs' = (jobs \ {j}) \union {new} /\ Same(j, new)
                         /\ new.step = "write" /\ new.dirs = loaded[j.key.contest]
  BY CheckStep DEF TInv
<1>2. UNCHANGED <<sync, disk, loaded, map>>
  BY DEF Check, judge
<1>3. jobs' = {new} /\ Knows' /\ Mapped'
  BY <1>1, <1>2, GoesOn
<1>4. Phase(j) /\ loaded = disk
  BY OnlyJob DEF Check, Phase
<1>5. Ready(new)'
  BY <1>1, <1>2, <1>4 DEF Check, Accepted, Ready, Same, Homes
<1>6. Phase(new)'
  BY <1>1, <1>2, <1>4, <1>5 DEF Check, Phase, Same
<1>7. SteadyJudge'
  BY <1>2, <1>3, <1>6 DEF Steady, SteadyJudge, Single, Grows
<1> QED BY <1>3, <1>7 DEF Steady

\* The problem that is created is the only one to come into any file.
LEMMA WrittenSteady ==
  ASSUME TInv, Steady, NEW j \in jobs, Write(j), NEW dirs \in Written(j), NEW i \in ID
  PROVE  i \in dirs <=> \/ i \in disk[j.key.contest]
                        \/ j.op = "postProblem" /\ i = Identifier(j.key)
<1>1. Ready(j) /\ j.step = "write" /\ j.op \in Writes
  BY OnlyJob DEF Write, Phase, TInv, ProblemSyncTypeOK, Job
<1>2. CASE j.op = "putContest"
  <2>1. dirs \in Found(j)
    BY <1>2 DEF Written
  <2>2. j.dirs \subseteq dirs /\ dirs \subseteq j.dirs \union disk[j.key.contest]
    BY <1>1, <1>2, <2>1, FoundIsList DEF TInv
  <2> QED BY <1>1, <1>2, <2>2 DEF Ready
<1>3. CASE j.op = "postContest"
  <2>1. dirs = {} /\ disk[j.key.contest] = NoList
    BY <1>1, <1>3 DEF Written, Ready
  <2> QED BY <1>3, <2>1, NoIDIsNone DEF NoList
<1>4. CASE j.op = "putProblem"
  BY <1>4 DEF Written
<1>5. CASE j.op = "postProblem"
  <2>1. PICK d \in Found(j) : dirs = d \union {Identifier(j.key)}
    BY <1>5 DEF Written
  <2>2. j.dirs \subseteq d /\ d \subseteq j.dirs \union disk[j.key.contest]
    BY <1>1, <1>5, FoundIsList DEF TInv
  <2> QED BY <1>1, <1>5, <2>1, <2>2 DEF Ready
<1> QED BY <1>1, <1>2, <1>3, <1>4, <1>5 DEF Writes, PutContest, PutProblem

LEMMA WriteSteady ==
  ASSUME TInv, Steady, NEW j \in jobs, Write(j)
  PROVE  Steady'
<1>1. PICK new \in Job : /\ jobs' = (jobs \ {j}) \union {new} /\ Same(j, new)
                         /\ new.step = "load"
  BY WriteStep DEF TInv
<1>2. UNCHANGED <<sync, loaded, map>>
  BY DEF Write
<1>3. jobs' = {new} /\ Knows' /\ Mapped'
  BY <1>1, <1>2, GoesOn
<1>4. /\ Phase(j) /\ Ready(j) /\ j.step = "write"
      /\ j.key.contest \in Contests /\ Identifier(j.key) \in ID
  BY OnlyJob, KeyID DEF Write, Phase, TInv, ProblemSyncTypeOK, Job
<1>5. PICK dirs \in Written(j) :
        \A c \in Contests : disk'[c] = IF c = j.key.contest THEN dirs ELSE disk[c]
  BY WriteStep DEF TInv
<1>6. \A c \in Contests, i \in ID :
        i \in disk'[c] <=> \/ i \in disk[c]
                           \/ c = j.key.contest /\ j.op = "postProblem" /\ i = Identifier(j.key)
  BY <1>5, WrittenSteady
<1>7. Single(disk')
  <2>1. Single(disk)
    BY DEF Steady, SteadyJudge
  <2>2. j.op = "postProblem" => \A c \in Contests : Identifier(j.key) \notin disk[c]
    BY <1>4 DEF Ready, Homes
  <2> QED BY <1>6, <2>1, <2>2 DEF Single
<1>8. Grows(loaded', disk')
  BY <1>2, <1>6 DEF Steady, SteadyJudge, Grows
<1>9. Phase(new)'
  <2>1. new.op \in PutProblem => Identifier(new.key) \in disk'[new.key.contest]
    BY <1>1, <1>4, <1>6 DEF Phase, Same, PutProblem
  <2> QED BY <1>1, <2>1 DEF Phase, PutProblem
<1>10. SteadyJudge'
  BY <1>3, <1>7, <1>8, <1>9 DEF SteadyJudge
<1> QED BY <1>3, <1>10 DEF Steady

LEMMA LoadSteady ==
  ASSUME TInv, Steady, NEW j \in jobs, Load(j)
  PROVE  Steady'
<1>1. PICK new \in Job : /\ jobs' = (jobs \ {j}) \union {new} /\ Same(j, new)
                         /\ new.step = "swap" /\ new.read = disk
  BY LoadStep DEF TInv
<1>2. UNCHANGED <<sync, disk, loaded, map>>
  BY DEF Load, judge
<1>3. jobs' = {new} /\ Knows' /\ Mapped'
  BY <1>1, <1>2, GoesOn
<1>4. Phase(j) /\ j.step = "load"
  BY OnlyJob DEF Load
<1>5. Phase(new)'
  BY <1>1, <1>2, <1>4 DEF Phase, Same
<1>6. SteadyJudge'
  BY <1>2, <1>3, <1>5 DEF Steady, SteadyJudge, Single, Grows
<1> QED BY <1>3, <1>6 DEF Steady

\* A handler that has done its work leaves all files loaded, and one that has
\* written a problem lets its caller know.
LEMMA SwapSteady ==
  ASSUME CInv, Steady, NEW j \in jobs, Swap(j)
  PROVE  Steady'
<1>1. jobs = {j} /\ jobs' = {} /\ Phase(j) /\ j.step = "swap"
  BY OnlyJob DEF Swap
<1>2. UNCHANGED <<disk, map>> /\ loaded' = disk /\ Grows(loaded, disk)
  BY <1>1 DEF Swap, Phase, Steady, SteadyJudge
<1>3. SteadyJudge'
  BY <1>1, <1>2 DEF Steady, SteadyJudge, Single, Grows
<1>4. Mapped'
  BY <1>2 DEF Steady, Mapped, Grows, CInv, TInv, ProblemSyncTypeOK, Key
<1> DEFINE pc == IF j.op \in PutContest THEN "listProblems" ELSE "map"
<1>5. pc \in Active \union Over /\ Answer(j, pc) /\ j.op \in Writes /\ j.by \in Requests
  BY DEF Swap, Active, Calls, CInv, TInv, ProblemSyncTypeOK, Job
<1>6. /\ \A s \in Requests : sync'[s].key = sync[s].key
      /\ j.heard => sync'[j.by].pc = pc
      /\ \A s \in Requests : s # j.by \/ ~j.heard => sync'[s] = sync[s]
  <2> HIDE DEF pc
  <2> QED BY <1>5, AnswerFields DEF CInv, TInv
<1>7. Knows'
  <2> SUFFICES ASSUME NEW s \in Requests, sync'[s].pc \in {"putProblem", "map"}
               PROVE  Problem(s)' \in disk[Contest(s)']
    BY <1>2 DEF Knows, At
  <2>1. Problem(s)' = Problem(s) /\ Contest(s)' = Contest(s)
        /\ Problem(s) \in ID /\ Contest(s) \in Contests
    BY <1>6, KeyID DEF Problem, Contest, CInv, TInv, ProblemSyncTypeOK, Sync
  <2>2. CASE s = j.by /\ j.heard
    <3>1. j.op \in PutProblem
      BY <1>5, <1>6, <2>2 DEF Writes
    <3>2. Identifier(j.key) \in disk[j.key.contest]
      BY <1>1, <3>1 DEF Phase, PutProblem
    <3>3. j.key = sync[s].key
      BY <2>2 DEF CInv, Own
    <3> QED BY <2>1, <3>2, <3>3 DEF Problem, Contest
  <2>3. CASE ~(s = j.by /\ j.heard)
    <3>1. sync'[s] = sync[s]
      BY <1>6, <2>3
    <3>2. Problem(s) \in loaded[Contest(s)]
      BY <3>1 DEF Steady, Knows, At
    <3> QED BY <1>2, <2>1, <3>2 DEF Grows
  <2> QED BY <2>2, <2>3
<1> QED BY <1>3, <1>4, <1>7 DEF Steady

\* One that refuses has written nothing.
LEMMA RefuseSteady ==
  ASSUME TInv, Steady, NEW j \in jobs, Refuse(j)
  PROVE  Steady'
<1>1. jobs = {j} /\ jobs' = {} /\ Phase(j) /\ j.step = "check"
  BY OnlyJob DEF Refuse
<1>2. UNCHANGED <<disk, loaded, map>> /\ loaded = disk
  BY <1>1 DEF Refuse, judge, Phase
<1>3. SteadyJudge'
  BY <1>1, <1>2 DEF Steady, SteadyJudge, Single, Grows
<1>4. Mapped'
  BY <1>2 DEF Steady, Mapped
<1>5. /\ \A s \in Requests : sync'[s].key = sync[s].key
      /\ j.heard => sync'[j.by].pc = "failed"
      /\ \A s \in Requests : s # j.by \/ ~j.heard => sync'[s] = sync[s]
  BY AnswerFields DEF Refuse, TInv, Over
<1>6. Knows'
  BY <1>2, <1>5 DEF Steady, Knows, At, Problem, Contest
<1> QED BY <1>3, <1>4, <1>6 DEF Steady

-----------------------------------------------------------------------------
\* Every step keeps the judge steady, until two calls meet there.
LEMMA NextSInv == SInv /\ [ProblemSyncNext]_pvars => SInv'
<1> SUFFICES ASSUME SInv, [ProblemSyncNext]_pvars, ~crossed' PROVE Steady'
  BY NextCInv DEF SInv
<1>1. ~crossed /\ CInv /\ TInv /\ Steady
  <2>1. crossed => crossed'
    BY DEF SInv, CInv, TInv, ProblemSyncTypeOK, ProblemSyncNext, Syncing, Arrive, GetContest,
           ListProblems, GetProblem, Call, Unanswered, Refused, MapProblem, MapNotSaved,
           Judging, Check, Refuse, Write, Load, Swap, Restart, Quiet, judge, pvars
  <2> QED BY <2>1 DEF SInv, CInv
<1>2. ASSUME NEW r \in Requests, Syncing(r) PROVE Steady'
  <2>1. CASE Reading(r)
    BY <1>1, <2>1, ReadingSteady
  <2>2. CASE Unanswered(r) \/ Refused(r)
    BY <1>1, <2>2, UnheardSteady
  <2>3. CASE Call(r)
    BY <1>1, <2>3, CallSteady
  <2> QED BY <1>2, <2>1, <2>2, <2>3 DEF Syncing, Reading
<1>3. ASSUME NEW j \in jobs, Judging(j) PROVE Steady'
  BY <1>1, <1>3, CheckSteady, RefuseSteady, WriteSteady, LoadSteady, SwapSteady DEF Judging
<1>4. CASE Restart
  BY <1>1, <1>4, RestartSteady
<1>5. CASE UNCHANGED pvars
  BY <1>1, <1>5 DEF pvars, judge, Steady, SteadyJudge, Single, Grows, Phase, Ready, Homes,
                    Knows, Mapped, At, Problem, Contest
<1> QED BY <1>2, <1>3, <1>4, <1>5 DEF ProblemSyncNext, Quiet

LEMMA AlwaysSInv == ProblemSyncSpec => []SInv
BY InitSInv, NextSInv, PTL DEF ProblemSyncSpec

\* Every problem that submissions are let through for is at the judge, in its
\* contest and in no other, until two writing calls meet there
\* (handleProblemSync, SyncProblem, and the handlers of contests and problems).
THEOREM Judged == ProblemSyncSpec => []MappedIsJudged
<1>1. SInv => MappedIsJudged
  <2> SUFFICES ASSUME SInv, ~crossed, NEW k \in Key, map[k] # NoID
               PROVE  Homes(loaded, map[k]) = {k.contest}
    BY DEF MappedIsJudged
  <2>1. map[k] \in ID /\ k.contest \in Contests
    BY DEF SInv, CInv, TInv, ProblemSyncTypeOK, Key
  <2>2. map[k] \in loaded[k.contest] /\ Grows(loaded, disk) /\ Single(disk)
    BY DEF SInv, Steady, SteadyJudge, Mapped
  <2> QED BY <2>1, <2>2 DEF Grows, Single, Homes
<1> QED BY <1>1, AlwaysSInv, PTL

\* No sync writes or creates the problem of another contest ("Never PUT a
\* problem that exists under a different contest", adapter.go:563), until two
\* writing calls meet at the judge.
THEOREM ForeignKept == ProblemSyncSpec => []ForeignProblemsKept
<1>1. SInv => ForeignProblemsKept
  <2> SUFFICES ASSUME SInv, ~crossed, NEW j \in jobs, j.op \in PutProblem, j.step = "write"
               PROVE  Homes(disk, Identifier(j.key)) \subseteq {j.key.contest}
    BY DEF ForeignProblemsKept
  <2>1. Phase(j) /\ Single(disk)
    BY DEF SInv, Steady, SteadyJudge
  <2>2. Identifier(j.key) \in ID /\ j.key.contest \in Contests
    BY KeyID DEF SInv, CInv, TInv, ProblemSyncTypeOK, Job
  <2> QED BY <2>1, <2>2 DEF Phase, Ready, PutProblem, Single, Homes
<1> QED BY <1>1, AlwaysSInv, PTL

-----------------------------------------------------------------------------
(* A sync that meets neither a failure nor another sync *)

Lone(r) == sync[r].clean /\ sync[r].alone /\ sync[r].pc \in Active

\* Who is alone is the only one on its way, and has called all that runs.
Apart == \A r \in Requests : sync[r].alone /\ sync[r].pc \in Active =>
           /\ \A s \in Requests : s # r => sync[s].pc \notin Active
           /\ \A j \in jobs : j.by = r

Heard == \A j \in jobs : j.heard

\* What the calls so far have told it about the judge.
OnCourse(r) ==
  /\ At(r, "putContest") => loaded[Contest(r)] # NoList
  /\ At(r, "postContest") => loaded[Contest(r)] = NoList
  /\ sync[r].pc \in PutProblem \union {"listProblems", "getProblem"}
       => loaded[Contest(r)] # NoList
  /\ At(r, "getProblem") /\ field = "problems" => Problem(r) \notin loaded[Contest(r)]
  /\ At(r, "postProblem") => Homes(loaded, Problem(r)) = {}
  /\ At(r, "putProblem") => Problem(r) \in loaded[Contest(r)]

Lonely == \A r \in Requests : Lone(r) => Heard /\ OnCourse(r)

\* A handler that has written a contest leaves it there.
Worked == \A j \in jobs : j.op \in PutContest =>
            /\ j.step = "load" => disk[j.key.contest] # NoList
            /\ j.step = "swap" => j.read[j.key.contest] # NoList

HInv == CInv /\ Worked /\ Apart /\ Lonely

LEMMA InitHInv == ProblemSyncInit => HInv
<1> SUFFICES ASSUME ProblemSyncInit PROVE Worked /\ Apart /\ Lonely
  BY InitCInv DEF HInv
<1>1. \A r \in Requests : sync[r].pc \notin Active
  BY DEF ProblemSyncInit, Active, Calls, Writes, PutContest, PutProblem
<1> QED BY <1>1 DEF ProblemSyncInit, Worked, Apart, Lonely, Lone

\* No handler removes a contest: a written one stays.
LEMMA NextWorked == HInv /\ [ProblemSyncNext]_pvars => Worked'
<1> SUFFICES ASSUME HInv, [ProblemSyncNext]_pvars PROVE Worked'
  OBVIOUS
<1>0. TInv /\ ProblemSyncTypeOK /\ Listed /\ Worked
  BY DEF HInv, CInv, TInv
<1>1. CASE UNCHANGED <<jobs, disk>>
  BY <1>0, <1>1 DEF Worked
<1>2. ASSUME NEW rs, jobs' = Unheard(rs), disk' = disk PROVE Worked'
  <2>1. \A new \in jobs' : \E j \in jobs :
          /\ new.by = j.by /\ new.op = j.op /\ new.key = j.key
          /\ new.step = j.step /\ new.dirs = j.dirs /\ new.read = j.read
    BY <1>0, <1>2, UnheardStep
  <2> QED BY <1>0, <1>2, <2>1 DEF Worked
<1>3. ASSUME NEW r \in Requests, Call(r) PROVE Worked'
  <2>1. PICK new \in Job : jobs' = jobs \union {new} /\ new.step = "check"
    BY <1>0, <1>3, CallStep
  <2> QED BY <1>0, <1>3, <2>1 DEF Call, Worked
<1>4. ASSUME NEW j \in jobs, Judging(j) PROVE Worked'
  <2>1. CASE Check(j)
    <3>1. PICK new \in Job : jobs' = (jobs \ {j}) \union {new} /\ new.step = "write"
      BY <1>0, <2>1, CheckStep
    <3> QED BY <1>0, <2>1, <3>1 DEF Check, judge, Worked
  <2>2. CASE Refuse(j) \/ Swap(j)
    BY <1>0, <2>2 DEF Refuse, Swap, judge, Worked
  <2>3. CASE Load(j)
    <3>1. PICK new \in Job : /\ jobs' = (jobs \ {j}) \union {new} /\ Same(j, new)
                             /\ new.step = "swap" /\ new.read = disk
      BY <1>0, <2>3, LoadStep
    <3> QED BY <1>0, <2>3, <3>1 DEF Load, judge, Worked, Same
  <2>4. CASE Write(j)
    <3>1. PICK new \in Job : /\ jobs' = (jobs \ {j}) \union {new} /\ Same(j, new)
                             /\ new.step = "load"
      BY <1>0, <2>4, WriteStep
    <3>2. PICK dirs \in Written(j) :
            \A c \in Contests : disk'[c] = IF c = j.key.contest THEN dirs ELSE disk[c]
      BY <1>0, <2>4, WriteStep
    <3>3. \A k \in jobs : k.key.contest \in Contests
      BY <1>0, KeyID DEF ProblemSyncTypeOK, Job
    <3>4. j.op # "putProblem" => dirs # NoList
      <4>1. CASE j.op = "putContest"
        <5>1. dirs \in Found(j)
          BY <3>2, <4>1 DEF Written
        <5>2. dirs \in SUBSET ID
          BY <1>0, <2>4, <4>1, <5>1, FoundIsList DEF Write
        <5> QED BY <5>2, NoIDIsNone DEF NoList
      <4>2. CASE j.op = "postContest"
        BY <3>2, <4>2 DEF Written, NoList
      <4>3. CASE j.op = "postProblem"
        <5>1. Identifier(j.key) \in dirs /\ Identifier(j.key) \in ID
          BY <1>0, <3>2, <4>3, KeyID DEF Written, ProblemSyncTypeOK, Job
        <5> QED BY <5>1, NoIDIsNone DEF NoList
      <4> QED BY <1>0, <4>1, <4>2, <4>3
              DEF ProblemSyncTypeOK, Job, Writes, PutContest, PutProblem
    <3>5. j.op = "putProblem" => dirs = disk[j.key.contest]
      BY <3>2 DEF Written
    <3>6. \A c \in Contests : disk[c] # NoList => disk'[c] # NoList
      BY <3>2, <3>4, <3>5
    <3>7. new.op \in PutContest => disk'[new.key.contest] # NoList
      BY <3>1, <3>2, <3>3, <3>4 DEF Same, PutContest
    <3> QED BY <1>0, <3>1, <3>3, <3>6, <3>7 DEF Worked
  <2> QED BY <1>4, <2>1, <2>2, <2>3, <2>4 DEF Judging
<1>5. ASSUME NEW r \in Requests, Syncing(r), ~Call(r) PROVE Worked'
  <2>1. CASE Unanswered(r) \/ Refused(r)
    BY <1>2, <2>1 DEF Unanswered, Refused, judge
  <2> QED BY <1>1, <1>5, <2>1 DEF Syncing, Arrive, GetContest, ListProblems, GetProblem,
                                  MapProblem, MapNotSaved, judge
<1>6. CASE Restart
  BY <1>2, <1>6 DEF Restart, judge
<1> QED BY <1>1, <1>3, <1>4, <1>5, <1>6 DEF ProblemSyncNext, Quiet, pvars, judge

\* A step of one that is on its way is of no interest to who is alone, but for
\* its own.
LEMMA NotAnother ==
  ASSUME HInv, NEW r \in Requests, sync[r].alone, sync[r].pc \in Active,
         NEW s \in Requests, sync[s].pc \in Active
  PROVE  s = r
BY DEF HInv, Apart

\* A request that arrives is alone if nothing is there, and ends all solitude.
LEMMA ArriveLonely ==
  ASSUME HInv, NEW s \in Requests, NEW k \in Key, Arrive(s, k)
  PROVE  Apart' /\ Lonely'
<1>0. TInv /\ ProblemSyncTypeOK /\ jobs' = jobs
  BY DEF HInv, CInv, TInv, Arrive
<1>1. /\ sync'[s].pc = "getContest"
      /\ sync'[s].alone => jobs = {} /\ \A t \in Requests : sync[t].pc \notin Active
      /\ \A t \in Requests : t # s =>
           /\ sync'[t].pc = sync[t].pc
           /\ sync[t].pc \in Active => sync'[t].alone = FALSE
  BY <1>0, ArriveFields
<1>2. ASSUME NEW r \in Requests, sync'[r].alone, sync'[r].pc \in Active
      PROVE  /\ r = s /\ jobs' = {}
             /\ \A t \in Requests : t # r => sync'[t].pc \notin Active
  <2>1. r = s
    BY <1>1, <1>2
  <2> QED BY <1>0, <1>1, <1>2, <2>1
<1>3. Apart'
  BY <1>2 DEF Apart
<1>4. Lonely'
  BY <1>1, <1>2 DEF Lonely, Lone, Heard, OnCourse, At, PutProblem
<1> QED BY <1>3, <1>4

\* A request that reads what is loaded goes by what it has read.
LEMMA ReadingLonely ==
  ASSUME HInv, NEW s \in Requests,
         GetContest(s) \/ ListProblems(s) \/ GetProblem(s) \/ MapProblem(s)
  PROVE  Apart' /\ Lonely'
<1>0. ProblemSyncTypeOK /\ UNCHANGED <<jobs, loaded, field>>
  BY DEF HInv, CInv, TInv, GetContest, ListProblems, GetProblem, MapProblem, judge
<1>1. PICK pc \in Active \union Over :
        /\ Goto(s, pc) /\ sync[s].pc \in Active
        /\ pc \in {"listProblems", "map"} => FALSE
        /\ pc = "putContest" => loaded[Contest(s)] # NoList
        /\ pc = "postContest" => loaded[Contest(s)] = NoList
        /\ pc \in PutProblem \union {"getProblem"}
             => At(s, "listProblems") \/ At(s, "getProblem")
        /\ pc = "getProblem" /\ field = "problems" => Problem(s) \notin loaded[Contest(s)]
        /\ pc = "postProblem" => Homes(loaded, Problem(s)) = {}
        /\ pc = "putProblem" => Problem(s) \in loaded[Contest(s)]
  BY DEF GetContest, ListProblems, GetProblem, MapProblem, At, inContest,
         Active, Calls, Writes, PutContest, PutProblem, Over
<1>2. /\ sync'[s].pc = pc /\ sync'[s].key = sync[s].key
      /\ sync'[s].alone = sync[s].alone /\ sync'[s].clean = sync[s].clean
      /\ \A t \in Requests : t # s => sync'[t] = sync[t]
  BY <1>0, <1>1, GotoFields
<1>3. ASSUME NEW r \in Requests, sync'[r].alone, sync'[r].pc \in Active
      PROVE  r = s /\ sync[r].alone /\ sync[r].pc \in Active
  BY <1>1, <1>2, <1>3, NotAnother
<1>4. Apart'
  BY <1>0, <1>1, <1>2, <1>3 DEF HInv, Apart
<1>5. ASSUME NEW r \in Requests, Lone(r)' PROVE Heard' /\ OnCourse(r)'
  <2>1. r = s /\ Lone(s)
    BY <1>2, <1>3, <1>5 DEF Lone
  <2>2. Heard /\ OnCourse(s)
    BY <2>1 DEF HInv, Lonely
  <2>3. Contest(s)' = Contest(s) /\ Problem(s)' = Problem(s)
    BY <1>2 DEF Contest, Problem
  <2> QED BY <1>0, <1>1, <1>2, <2>1, <2>2, <2>3 DEF Heard, OnCourse, At, Homes
<1> QED BY <1>4, <1>5 DEF Lonely

\* A request that has met a failure claims nothing.
LEMMA FailingLonely ==
  ASSUME HInv, NEW s \in Requests, Unanswered(s) \/ Refused(s) \/ MapNotSaved(s)
  PROVE  Apart' /\ Lonely'
<1>0. TInv /\ ProblemSyncTypeOK
  BY DEF HInv, CInv, TInv
<1>1. /\ sync'[s].clean = FALSE /\ sync'[s].alone = sync[s].alone /\ sync[s].pc \in Active
      /\ \A t \in Requests : t # s => sync'[t] = sync[t]
  BY <1>0, FailingFields
<1>2. \A new \in jobs' : \E j \in jobs : new.by = j.by
  <2>1. CASE jobs' = Unheard({s})
    BY <1>0, <2>1, UnheardStep
  <2> QED BY <2>1 DEF Unanswered, Refused, MapNotSaved
<1>3. ASSUME NEW r \in Requests, sync'[r].alone, sync'[r].pc \in Active
      PROVE  r = s /\ sync[r].alone /\ sync[r].pc \in Active
  BY <1>1, <1>3, NotAnother
<1>4. Apart'
  BY <1>1, <1>2, <1>3 DEF HInv, Apart
<1>5. Lonely'
  BY <1>1, <1>3 DEF Lonely, Lone
<1> QED BY <1>4, <1>5

\* A call of who is alone is the only one at the judge that is heard.
LEMMA CallLonely ==
  ASSUME HInv, NEW s \in Requests, Call(s)
  PROVE  Apart' /\ Lonely'
<1>0. ProblemSyncTypeOK /\ UNCHANGED <<sync, loaded, field>> /\ sync[s].pc \in Active
  BY DEF HInv, CInv, TInv, Call, Active, Calls
<1>1. PICK new \in Job : jobs' = jobs \union {new} /\ new.by = s /\ new.heard
  BY <1>0, CallStep
<1>2. Apart'
  BY <1>0, <1>1, NotAnother DEF HInv, Apart
<1>3. Lonely'
  BY <1>0, <1>1 DEF HInv, Lonely, Lone, Heard, OnCourse, At, Contest, Problem, Homes
<1> QED BY <1>2, <1>3

\* The judge's answer is to who is alone, and as it should be.
LEMMA AnswerLonely ==
  ASSUME HInv, NEW j \in jobs, Refuse(j) \/ Swap(j)
  PROVE  Apart' /\ Lonely'
<1>0. /\ TInv /\ ProblemSyncTypeOK /\ Own /\ Worked /\ jobs' = jobs \ {j}
      /\ j.by \in Requests /\ j.op \in Writes
  BY DEF HInv, CInv, TInv, ProblemSyncTypeOK, Job, Refuse, Swap
<1>1. PICK pc \in Active \union Over :
        /\ Answer(j, pc)
        /\ pc \in {"failed", "listProblems", "map"}
        /\ pc = "listProblems" => j.op \in PutContest /\ Swap(j)
  BY DEF Refuse, Swap, Active, Calls, Over
<1>2. /\ \A t \in Requests : /\ sync'[t].key = sync[t].key
                             /\ sync'[t].alone = sync[t].alone
                             /\ sync'[t].clean = sync[t].clean
      /\ j.heard => sync'[j.by].pc = pc
      /\ \A t \in Requests : t # j.by \/ ~j.heard => sync'[t] = sync[t]
  BY <1>0, <1>1, AnswerFields
<1>3. j.heard => sync[j.by].pc = j.op /\ j.key = sync[j.by].key
  BY <1>0 DEF Own
<1>4. \A t \in Requests : sync'[t].pc \in Active => sync[t].pc \in Active
  BY <1>0, <1>2, <1>3 DEF Active, Calls
<1>5. Apart'
  BY <1>0, <1>2, <1>4 DEF HInv, Apart
<1>6. ASSUME NEW r \in Requests, Lone(r)' PROVE Heard' /\ OnCourse(r)'
  <2>1. Lone(r)
    BY <1>2, <1>4, <1>6 DEF Lone
  <2>2. Heard /\ j.by = r
    BY <2>1 DEF HInv, Lonely, Lone, Apart
  <2>3. sync'[r].pc = pc /\ pc \in {"listProblems", "map"}
    BY <1>1, <1>2, <1>6, <2>2 DEF Heard, Lone, Active, Calls, Writes, PutContest, PutProblem
  <2>4. pc = "listProblems" => loaded'[Contest(r)'] # NoList
    BY <1>0, <1>1, <1>2, <1>3, <2>2 DEF Heard, Swap, Worked, Contest
  <2> QED BY <1>0, <2>2, <2>3, <2>4 DEF Heard, OnCourse, At, PutProblem
<1> QED BY <1>5, <1>6 DEF Lonely

LEMMA NextHInv == HInv /\ [ProblemSyncNext]_pvars => HInv'
<1> SUFFICES ASSUME HInv, [ProblemSyncNext]_pvars PROVE Apart' /\ Lonely'
  BY NextCInv, NextWorked DEF HInv
<1>0. TInv /\ ProblemSyncTypeOK
  BY DEF HInv, CInv, TInv
<1>1. ASSUME NEW s \in Requests, Syncing(s) PROVE Apart' /\ Lonely'
  BY <1>1, ArriveLonely, ReadingLonely, FailingLonely, CallLonely DEF Syncing
<1>2. ASSUME NEW j \in jobs, Judging(j) PROVE Apart' /\ Lonely'
  <2>1. CASE Check(j) \/ Write(j) \/ Load(j)
    <3>1. PICK new \in Job : jobs' = (jobs \ {j}) \union {new} /\ Same(j, new)
      BY <1>0, <2>1, CheckStep, WriteStep, LoadStep DEF TInv
    <3>2. UNCHANGED <<sync, loaded, field>>
      BY <2>1 DEF Check, Write, Load, judge
    <3>3. Apart'
      BY <3>1, <3>2 DEF HInv, Apart, Same
    <3>4. Lonely'
      BY <3>1, <3>2 DEF HInv, Lonely, Lone, Heard, OnCourse, At, Contest, Problem, Homes, Same
    <3> QED BY <3>3, <3>4
  <2> QED BY <1>2, <2>1, AnswerLonely DEF Judging
<1>3. CASE Restart
  <2>1. \A r \in Requests : sync'[r].pc \notin Active
    BY <1>0, <1>3, RestartFields
  <2> QED BY <2>1 DEF Apart, Lonely, Lone
<1>4. CASE UNCHANGED pvars
  BY <1>4 DEF pvars, judge, HInv, Apart, Lonely, Lone, Heard, OnCourse, At, Contest, Problem,
              Homes
<1> QED BY <1>1, <1>2, <1>3, <1>4 DEF ProblemSyncNext, Quiet

\* A sync that meets neither a failure nor another sync fails only because the
\* identifier exists, and if the judge lists problems where the adapter looks
\* for them, only because another contest has it, whatever earlier syncs left
\* half done, met and overwrote (upsertContest, upsertProblem).
THEOREM Heals == ProblemSyncSpec => RetryHeals
<1>1. ASSUME HInv, [ProblemSyncNext]_pvars, NEW r \in Requests,
             ~At(r, "failed"), At(r, "failed")', sync'[r].clean, sync[r].alone
      PROVE  FailsRightly(r)
  <2>0. ProblemSyncTypeOK /\ sync' # sync
    BY <1>1 DEF HInv, CInv, TInv, At
  <2>1. ASSUME NEW s \in Requests, Syncing(s) PROVE FailsRightly(r)
    <3>1. CASE \E k \in Key : Arrive(s, k)
      <4>1. sync'[s].pc = "getContest" /\ \A t \in Requests : t # s => sync'[t].pc = sync[t].pc
        BY <2>0, <3>1, ArriveFields
      <4> QED BY <1>1, <4>1 DEF At
    <3>2. CASE GetContest(s) \/ ListProblems(s) \/ GetProblem(s) \/ MapProblem(s)
      <4>1. PICK pc \in Active \union Over :
              /\ Goto(s, pc)
              /\ pc = "failed" => At(s, "getProblem") /\ Homes(loaded, Problem(s)) # {}
        BY <3>2 DEF GetContest, ListProblems, GetProblem, MapProblem,
                    Active, Calls, Writes, PutContest, PutProblem, Over
      <4>2. /\ sync'[s].pc = pc /\ sync'[s].clean = sync[s].clean
            /\ \A t \in Requests : t # s => sync'[t] = sync[t]
        BY <2>0, <4>1, GotoFields
      <4>3. r = s /\ At(r, "getProblem") /\ Homes(loaded, Problem(r)) # {} /\ sync[r].clean
        BY <1>1, <4>1, <4>2 DEF At
      <4>4. OnCourse(r)
        BY <1>1, <4>3 DEF HInv, Lonely, Lone, At, Active, Calls
      <4> QED BY <4>3, <4>4 DEF OnCourse, FailsRightly
    <3>3. CASE Unanswered(s) \/ Refused(s) \/ MapNotSaved(s)
      <4>1. sync'[s].clean = FALSE /\ \A t \in Requests : t # s => sync'[t] = sync[t]
        BY <2>0, <3>3, FailingFields
      <4> QED BY <1>1, <4>1 DEF At
    <3> QED BY <2>0, <2>1, <3>1, <3>2, <3>3 DEF Syncing, Call
  <2>2. ASSUME NEW j \in jobs, Judging(j) PROVE FailsRightly(r)
    <3>1. Refuse(j) \/ Swap(j)
      BY <2>0, <2>2 DEF Judging, Check, Write, Load
    <3>2. PICK pc \in Active \union Over : /\ Answer(j, pc)
                                           /\ pc = "failed" => ~Accepted(j)
      BY <3>1 DEF Refuse, Swap, Active, Calls, Over
    <3>3. /\ sync'[r].clean = sync[r].clean
          /\ j.heard => sync'[j.by].pc = pc
          /\ r # j.by \/ ~j.heard => sync'[r] = sync[r]
      BY <2>0, <3>2, AnswerFields
    <3>4. r = j.by /\ j.heard /\ ~Accepted(j) /\ sync[r].clean
      BY <1>1, <3>2, <3>3 DEF At
    <3>5. j.op = sync[r].pc /\ j.key = sync[r].key /\ j.op \in Writes
      BY <1>1, <3>4 DEF HInv, CInv, TInv, Own, ProblemSyncTypeOK, Job
    <3>6. OnCourse(r)
      BY <1>1, <3>4, <3>5 DEF HInv, Lonely, Lone, Active, Calls
    <3>7. Accepted(j)
      <4>1. Contest(r) = j.key.contest /\ Problem(r) = Identifier(j.key)
            /\ j.key.contest \in Contests
        BY <2>0, <3>5, KeyID DEF Contest, Problem, ProblemSyncTypeOK, Job
      <4> QED BY <3>5, <3>6, <4>1
              DEF OnCourse, At, Accepted, Homes, Writes, PutContest, PutProblem
    <3> QED BY <3>4, <3>7
  <2>3. CASE Restart
    BY <1>1, <2>0, <2>3, RestartFields DEF At
  <2> QED BY <1>1, <2>0, <2>1, <2>2, <2>3 DEF ProblemSyncNext, Quiet, pvars
<1>2. HInv /\ [ProblemSyncNext]_pvars
        => [\A r \in Requests :
              ~At(r, "failed") /\ At(r, "failed")' /\ sync'[r].clean /\ sync[r].alone
                => FailsRightly(r)]_pvars
  BY <1>1
<1> QED BY <1>2, InitHInv, NextHInv, PTL DEF ProblemSyncSpec, RetryHeals
=============================================================================
