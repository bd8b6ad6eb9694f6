------------------------------ MODULE Results ------------------------------
(***************************************************************************)
(* The results of a submission that was accepted: students poll its status *)
(* (handleSubmissionByID) and read its logs (handleSubmissionLogs), at the *)
(* same time and as often as they like.  Both handlers look a record up,   *)
(* decide from what it says whether to ask CSOJ, write the answer into the *)
(* record, put the record back into h.submissions and save it.  Only the   *)
(* look-ups and the writes of the maps are under locks: the record itself  *)
(* is a shared object that any handler reads and writes when it likes.     *)
(*                                                                         *)
(* Submissions do not interact here, so there is one.                      *)
(***************************************************************************)
EXTENDS Naturals

CONSTANTS Pollers,      \* clients that ask for the status
          Readers,      \* clients that ask for the logs
          NoRecord,     \* nothing in h.submissions
          MaxRestarts   \* bound on the restarts of the controller

Queries == Pollers \union Readers

ASSUME ResultsAssumption ==
  /\ Pollers \intersect Readers = {}
  /\ "submit" \notin Queries
  /\ NoRecord \notin Queries \union {"submit"}
  /\ MaxRestarts \in Nat

(***************************************************************************)
(* A result is a status and the rest: score, containers and so on.  The    *)
(* rest is named by the report of CSOJ that it is from.  "none" is the     *)
(* empty result of a new record; "Success" stands for "Failed" as well.    *)
(***************************************************************************)
Report == {"Queued", "Running", "Success"}
Field == Report \union {"none"}
Result == [status : Field, rest : Field]
Full(s) == [status |-> s, rest |-> s]

Terminal(result) == result.status \notin {"none", "Queued", "Running"}

\* CSOJ has containers from the moment it runs a submission (external).
HasContainers(result) == result.rest \in {"Running", "Success"}

\* One record is made by the submission itself, the others are copies that a
\* query got from the store.
Record == {"submit"} \union Queries

VARIABLES
  judge,      \* what CSOJ reports (external)
  memory,     \* the record that h.submissions points to
  result,     \* the result in each record
  store,      \* the result in the store's copy
  disk,       \* the result in the snapshot
  query,      \* where each query is
  restarts    \* how often the controller has restarted
(* query[q].pc: "idle"; "load" if h.submissions had nothing; "check" with  *)
(*   the record rec; "write" with the answer asked, of which the fields in *)
(*   todo are still to be written; "publish"; "save".                      *)

rvars == <<judge, memory, result, store, disk, query, restarts>>

NoQuery == [pc |-> "idle", rec |-> NoRecord, asked |-> "none", todo |-> {}]

ResultsInit ==
  /\ judge = "Queued"
  /\ memory = "submit"
  /\ result = [r \in Record |-> Full("none")]
  /\ store = Full("none") /\ disk = Full("none")
  /\ query = [q \in Queries |-> NoQuery]
  /\ restarts = 0

At(q, pc) == query[q].pc = pc

-----------------------------------------------------------------------------
(* The handlers *)

\* Mutated form: the record is taken to be in memory.
LookupUnchecked(q) ==
  /\ At(q, "idle")
  /\ query' = [query EXCEPT ![q].pc = "check", ![q].rec = memory]
  /\ UNCHANGED <<judge, memory, result, store, disk, restarts>>

Lookup(q) ==
  /\ At(q, "idle")
  /\ query' = [query EXCEPT ![q].pc = IF memory = NoRecord THEN "load" ELSE "check",
                            ![q].rec = memory]
  /\ UNCHANGED <<judge, memory, result, store, disk, restarts>>

\* GetSubmission makes a copy.
Load(q) ==
  /\ At(q, "load")
  /\ result' = [result EXCEPT ![q] = store]
  /\ query' = [query EXCEPT ![q].pc = "check", ![q].rec = q]
  /\ UNCHANGED <<judge, memory, store, disk, restarts>>

\* The record has what the client asks for.
Cached(q) == LET known == result[query[q].rec] IN
             IF q \in Pollers THEN Terminal(known) ELSE HasContainers(known)

AnswerCached(q) ==
  /\ At(q, "check") /\ Cached(q)
  /\ query' = [query EXCEPT ![q] = NoQuery]
  /\ UNCHANGED <<judge, memory, result, store, disk, restarts>>

\* Mutated form: whatever was reported once is good enough.
AskOnce(q) ==
  /\ At(q, "check") /\ ~Cached(q) /\ result[query[q].rec].status = "none"
  /\ query' = [query EXCEPT ![q].pc = "write", ![q].asked = judge,
                            ![q].todo = {"status", "rest"}]
  /\ UNCHANGED <<judge, memory, result, store, disk, restarts>>

\* CSOJ reports.
Ask(q) ==
  /\ At(q, "check") /\ ~Cached(q)
  /\ query' = [query EXCEPT ![q].pc = "write", ![q].asked = judge,
                            ![q].todo = {"status", "rest"}]
  /\ UNCHANGED <<judge, memory, result, store, disk, restarts>>

\* CSOJ does not, after all retries.
AskFails(q) ==
  /\ At(q, "check") /\ ~Cached(q)
  /\ query' = [query EXCEPT ![q] = NoQuery]
  /\ UNCHANGED <<judge, memory, result, store, disk, restarts>>

\* rec.Result = *result is not atomic and no lock is held: others may read and
\* write the record between its fields, in whatever order they are copied.
Write(q, field) ==
  LET todo == query[q].todo \ {field} IN
  /\ At(q, "write") /\ field \in query[q].todo
  /\ result' = [result EXCEPT ![query[q].rec][field] = query[q].asked]
  /\ query' = [query EXCEPT ![q].todo = todo,
                            ![q].pc = IF todo = {} THEN "publish" ELSE "write"]
  /\ UNCHANGED <<judge, memory, store, disk, restarts>>

Publish(q) ==
  /\ At(q, "publish")
  /\ memory' = query[q].rec
  /\ query' = [query EXCEPT ![q].pc = "save"]
  /\ UNCHANGED <<judge, result, store, disk, restarts>>

\* Mutated form: the answer is saved, not the record.
SaveAnswer(q) ==
  /\ At(q, "save")
  /\ store' = Full(query[q].asked)
  /\ disk' \in {store', disk}
  /\ query' = [query EXCEPT ![q] = NoQuery]
  /\ UNCHANGED <<judge, memory, result, restarts>>

\* SaveSubmission copies the record as it is now.  If the snapshot cannot be
\* written the store keeps the copy, and the error is dropped.
Save(q) ==
  /\ At(q, "save")
  /\ store' = result[query[q].rec]
  /\ disk' \in {store', disk}
  /\ query' = [query EXCEPT ![q] = NoQuery]
  /\ UNCHANGED <<judge, memory, result, restarts>>

-----------------------------------------------------------------------------
(* The rest of the world *)

\* CSOJ gets on with it (external).
Judge ==
  /\ \/ judge = "Queued" /\ judge' = "Running"
     \/ judge = "Running" /\ judge' = "Success"
  /\ UNCHANGED <<memory, result, store, disk, query, restarts>>

\* Whatever else the store writes writes all of it.
SaveOther ==
  /\ disk' = store
  /\ UNCHANGED <<judge, memory, result, store, query, restarts>>

\* The controller stops and starts again with what the snapshot holds.
Restart ==
  /\ restarts < MaxRestarts
  /\ restarts' = restarts + 1
  /\ memory' = NoRecord
  /\ query' = [q \in Queries |-> NoQuery]
  /\ result' = [r \in Record |-> Full("none")]
  /\ store' = disk
  /\ UNCHANGED <<judge, disk>>

Answering(q) ==
  \/ Load(q) \/ AnswerCached(q) \/ Ask(q)
  \/ \E field \in {"status", "rest"} : Write(q, field)
  \/ Publish(q) \/ Save(q)

ResultsNext ==
  \/ \E q \in Queries : Lookup(q) \/ AskFails(q) \/ Answering(q)
  \/ Judge \/ SaveOther \/ Restart

(***************************************************************************)
(* Every goroutine of the controller goes on, and CSOJ does not fail for   *)
(* ever.  Nothing makes a student ask: the client polls 60 times at most,  *)
(* and stops at the first error (cmd/hpc101/main.go:279-305).              *)
(***************************************************************************)
Progress == \A q \in Queries : SF_rvars(Ask(q)) /\ WF_rvars(Answering(q))

ResultsSpec == ResultsInit /\ [][ResultsNext]_rvars /\ Progress

-----------------------------------------------------------------------------
(* Properties *)

\* Type invariant.  A query that has looked its record up has one.
ResultsTypeOK ==
  /\ judge \in Report
  /\ memory \in Record \union {NoRecord}
  /\ result \in [Record -> Result] /\ store \in Result /\ disk \in Result
  /\ query \in [Queries -> [pc : {"idle", "load", "check", "write", "publish", "save"},
                            rec : Record \union {NoRecord}, asked : Field,
                            todo : SUBSET {"status", "rest"}]]
  /\ restarts \in 0..MaxRestarts
  /\ \A q \in Queries : ~At(q, "idle") /\ ~At(q, "load") => query[q].rec \in Record

\* What handleSubmissionByID and handleScores go by.
Shown == IF memory = NoRecord THEN store ELSE result[memory]

\* When no query is in progress the store has what memory has, in whatever
\* order the answers came in, were written and were saved, torn writes
\* included ("Update both memory and store.", leases.go:847).  Until a restart:
\* after it two queries may have copies of their own.
StoreFollows ==
  memory = "submit" /\ (\A q \in Queries : At(q, "idle")) => store = result["submit"]

\* The students ask again and again, by running a client that gave up anew.
KeepsAsking == \A q \in Pollers : []<><<Lookup(q)>>_rvars

\* As long as students keep asking, a submission that CSOJ has finished is
\* shown as finished in the end, and for good.  Until then answers that come
\* late may take a final result back, which "Return cached terminal result
\* without re-querying." (leases.go:833) does not prevent, as it looks at the
\* record before it asks; and so may copies that two queries got after a
\* restart.  They do not keep the record from settling.
AskedIsShown == KeepsAsking => (judge = "Success" ~> [](Terminal(Shown)))
=============================================================================
