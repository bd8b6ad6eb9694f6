---------------------------- MODULE ResultsProofs ----------------------------
(***************************************************************************)
(* Proofs about Results, for any number of clients that poll and that read *)
(* logs at the same time, and any number of restarts.                      *)
(***************************************************************************)
EXTENDS Results, TLAPS

\* A query that has a record, to check, to write to, to publish or to save.
Holds(q) == query[q].pc \notin {"idle", "load"}

\* Until a restart there is one record, that of the submission.
OneRecord == memory = "submit" => \A q \in Queries : query[q].pc # "load"
                                                     /\ (Holds(q) => query[q].rec = "submit")

\* After it, nobody holds that one, and a query about to load a copy finds
\* that nobody has got hold of the record that it will be put into.
OwnRecords ==
  memory # "submit" =>
    \A q \in Queries :
      /\ Holds(q) => query[q].rec # "submit"
      /\ memory = NoRecord /\ Holds(q) => query[q].rec = q
      /\ At(q, "load") => /\ memory # q
                          /\ \A r \in Queries : Holds(r) => query[r].rec # q

\* What the store has yet to be told, somebody is about to tell it.
Following == memory = "submit" /\ store # result["submit"] =>
               \E q \in Queries : query[q].pc \in {"write", "publish", "save"}

RecordInv == ResultsTypeOK /\ OneRecord /\ OwnRecords

QueryRecord == [pc : {"idle", "load", "check", "write", "publish", "save"},
                rec : Record \union {NoRecord}, asked : Field,
                todo : SUBSET {"status", "rest"}]

-----------------------------------------------------------------------------
(* The steps of a query, field by field *)

\* q's step changes nobody else, and leaves q at pc with the record rec.
Goes(q, pc, rec) == /\ query' \in [Queries -> QueryRecord]
                    /\ query'[q].pc = pc /\ query'[q].rec = rec
                    /\ \A r \in Queries : r # q => query'[r] = query[r]

LEMMA ResultTypes ==
  /\ Full("none") \in Result /\ "submit" \in Record /\ Queries \subseteq Record
  /\ NoQuery \in QueryRecord /\ NoQuery.pc = "idle" /\ NoQuery.rec = NoRecord
  /\ Report \subseteq Field
BY DEF Full, Result, Field, Report, Record, NoQuery, QueryRecord

LEMMA LookupStep ==
  ASSUME ResultsTypeOK, NEW q \in Queries, Lookup(q)
  PROVE  /\ Goes(q, IF memory = NoRecord THEN "load" ELSE "check", memory) /\ At(q, "idle")
         /\ UNCHANGED <<judge, memory, result, store, disk, restarts>>
<1>1. query \in [Queries -> QueryRecord] /\ query[q] \in QueryRecord
      /\ memory \in Record \union {NoRecord}
  BY DEF ResultsTypeOK, QueryRecord
<1>2. /\ query' = [query EXCEPT ![q].pc = IF memory = NoRecord THEN "load" ELSE "check",
                                ![q].rec = memory]
      /\ At(q, "idle")
      /\ UNCHANGED <<judge, memory, result, store, disk, restarts>>
  BY DEF Lookup
<1>3. QED
  BY <1>1, <1>2 DEF QueryRecord, Goes

LEMMA LoadStep ==
  ASSUME ResultsTypeOK, NEW q \in Queries, Load(q)
  PROVE  /\ Goes(q, "check", q) /\ At(q, "load")
         /\ result' = [result EXCEPT ![q] = store]
         /\ UNCHANGED <<judge, memory, store, disk, restarts>>
<1>1. query \in [Queries -> QueryRecord] /\ query[q] \in QueryRecord /\ q \in Record
  BY ResultTypes DEF ResultsTypeOK, QueryRecord
<1>2. /\ query' = [query EXCEPT ![q].pc = "check", ![q].rec = q] /\ At(q, "load")
      /\ result' = [result EXCEPT ![q] = store]
      /\ UNCHANGED <<judge, memory, store, disk, restarts>>
  BY DEF Load
<1>3. QED
  BY <1>1, <1>2 DEF QueryRecord, Goes

\* A query ends: the record answers it, or CSOJ does not.
LEMMA EndStep ==
  ASSUME ResultsTypeOK, NEW q \in Queries, AnswerCached(q) \/ AskFails(q)
  PROVE  /\ Goes(q, "idle", NoRecord) /\ At(q, "check")
         /\ UNCHANGED <<judge, memory, result, store, disk, restarts>>
<1>1. query \in [Queries -> QueryRecord]
  BY DEF ResultsTypeOK, QueryRecord
<1>2. /\ query' = [query EXCEPT ![q] = NoQuery] /\ At(q, "check")
      /\ UNCHANGED <<judge, memory, result, store, disk, restarts>>
  BY DEF AnswerCached, AskFails
<1>3. QED
  BY <1>1, <1>2, ResultTypes DEF Goes

LEMMA AskStep ==
  ASSUME ResultsTypeOK, NEW q \in Queries, Ask(q)
  PROVE  /\ Goes(q, "write", query[q].rec) /\ At(q, "check")
         /\ UNCHANGED <<judge, memory, result, store, disk, restarts>>
<1>1. query \in [Queries -> QueryRecord] /\ query[q] \in QueryRecord /\ judge \in Field
  BY ResultTypes DEF ResultsTypeOK, QueryRecord
<1>2. /\ query' = [query EXCEPT ![q].pc = "write", ![q].asked = judge,
                                ![q].todo = {"status", "rest"}]
      /\ At(q, "check") /\ UNCHANGED <<judge, memory, result, store, disk, restarts>>
  BY DEF Ask
<1>3. QED
  BY <1>1, <1>2 DEF QueryRecord, Goes

\* A field of the answer is written, into a record that all its holders share.
LEMMA WriteStep ==
  ASSUME ResultsTypeOK, NEW q \in Queries, NEW field \in {"status", "rest"}, Write(q, field)
  PROVE  /\ \E pc \in {"write", "publish"} : Goes(q, pc, query[q].rec)
         /\ At(q, "write")
         /\ query[q].rec \in Record
         /\ result' \in [Record -> Result]
         /\ \A r \in Record : r # query[q].rec => result'[r] = result[r]
         /\ result'[query[q].rec].status \in {result[query[q].rec].status, query[q].asked}
         /\ UNCHANGED <<judge, memory, store, disk, restarts>>
<1> DEFINE todo == query[q].todo \ {field}
           pc == IF todo = {} THEN "publish" ELSE "write"
           rec == query[q].rec
<1>1. /\ query \in [Queries -> QueryRecord] /\ query[q] \in QueryRecord
      /\ todo \in SUBSET {"status", "rest"}
      /\ result \in [Record -> Result] /\ query[q].asked \in Field
  BY DEF ResultsTypeOK, QueryRecord
<1>2. /\ query' = [query EXCEPT ![q].todo = todo, ![q].pc = pc]
      /\ At(q, "write")
      /\ result' = [result EXCEPT ![rec][field] = query[q].asked]
      /\ UNCHANGED <<judge, memory, store, disk, restarts>>
  BY DEF Write
<1>3. rec \in Record
  BY <1>2 DEF ResultsTypeOK, At
<1>4. pc \in {"write", "publish"}
  OBVIOUS
<1>5. /\ result' \in [Record -> Result]
      /\ \A r \in Record : r # rec => result'[r] = result[r]
      /\ result'[rec].status \in {result[rec].status, query[q].asked}
  <2> HIDE DEF rec
  <2>1. result[rec] \in Result
    BY <1>1, <1>3
  <2>2. CASE field = "status"
    BY <1>1, <1>2, <1>3, <2>1, <2>2 DEF Result
  <2>3. CASE field = "rest"
    BY <1>1, <1>2, <1>3, <2>1, <2>3 DEF Result
  <2>4. QED
    BY <2>2, <2>3
<1>6. Goes(q, pc, rec)
  <2> HIDE DEF todo, pc
  <2>1. QED
    BY <1>1, <1>2, <1>4 DEF QueryRecord, Goes
<1>7. QED
  BY <1>2, <1>3, <1>4, <1>5, <1>6

LEMMA PublishStep ==
  ASSUME ResultsTypeOK, NEW q \in Queries, Publish(q)
  PROVE  /\ Goes(q, "save", query[q].rec) /\ At(q, "publish") /\ memory' = query[q].rec
         /\ query[q].rec \in Record
         /\ UNCHANGED <<judge, result, store, disk, restarts>>
<1>1. query \in [Queries -> QueryRecord] /\ query[q] \in QueryRecord
  BY DEF ResultsTypeOK, QueryRecord
<1>2. /\ query' = [query EXCEPT ![q].pc = "save"] /\ At(q, "publish") /\ memory' = query[q].rec
      /\ UNCHANGED <<judge, result, store, disk, restarts>>
  BY DEF Publish
<1>3. query[q].rec \in Record
  BY <1>2 DEF ResultsTypeOK, At
<1>4. QED
  BY <1>1, <1>2, <1>3 DEF QueryRecord, Goes

LEMMA SaveStep ==
  ASSUME ResultsTypeOK, NEW q \in Queries, Save(q)
  PROVE  /\ Goes(q, "idle", NoRecord) /\ At(q, "save")
         /\ store' = result[query[q].rec] /\ query[q].rec \in Record
         /\ disk' \in {store', disk}
         /\ UNCHANGED <<judge, memory, result, restarts>>
<1>1. query \in [Queries -> QueryRecord]
  BY DEF ResultsTypeOK, QueryRecord
<1>2. /\ query' = [query EXCEPT ![q] = NoQuery] /\ At(q, "save")
      /\ store' = result[query[q].rec] /\ disk' \in {store', disk}
      /\ UNCHANGED <<judge, memory, result, restarts>>
  BY DEF Save
<1>3. query[q].rec \in Record
  BY <1>2 DEF ResultsTypeOK, At
<1>4. QED
  BY <1>1, <1>2, <1>3, ResultTypes DEF Goes

-----------------------------------------------------------------------------
(* Who has which record *)

\* A step of q that goes to a record keeps the types.
LEMMA TypeStep ==
  ASSUME ResultsTypeOK, NEW q \in Queries, NEW pc, NEW rec, Goes(q, pc, rec),
         pc \notin {"idle", "load"} => rec \in Record,
         memory' \in Record \union {NoRecord}, result' \in [Record -> Result],
         store' \in Result, disk' \in Result, UNCHANGED <<judge, restarts>>
  PROVE  ResultsTypeOK'
<1>1. query' \in [Queries -> QueryRecord]
  BY DEF Goes
<1>2. \A r \in Queries : query'[r].pc # "idle" /\ query'[r].pc # "load" => query'[r].rec \in Record
  BY DEF Goes, ResultsTypeOK, At
<1>3. QED
  BY <1>1, <1>2 DEF ResultsTypeOK, QueryRecord, At

\* Before the first query there is nothing to tell.
LEMMA RecordInvInit == ResultsInit => RecordInv /\ Following
<1> SUFFICES ASSUME ResultsInit PROVE RecordInv /\ Following
  OBVIOUS
<1>1. query \in [Queries -> QueryRecord] /\ \A q \in Queries : query[q].pc = "idle"
  BY ResultTypes DEF ResultsInit
<1>2. /\ judge \in Report /\ restarts \in 0..MaxRestarts /\ memory \in Record
      /\ result \in [Record -> Result] /\ store \in Result /\ disk \in Result
  BY ResultTypes, ResultsAssumption DEF ResultsInit, Report
<1>3. ResultsTypeOK
  BY <1>1, <1>2 DEF ResultsTypeOK, QueryRecord, At
<1>4. store = result["submit"] /\ memory = "submit"
  BY ResultTypes DEF ResultsInit
<1>5. QED
  BY <1>1, <1>3, <1>4 DEF RecordInv, OneRecord, OwnRecords, Following, Holds

\* Lookup: a query shares what is in memory, or goes for a copy of its own.
LEMMA LookupInv ==
  ASSUME RecordInv, NEW q \in Queries, Lookup(q)
  PROVE  RecordInv'
<1> DEFINE pc == IF memory = NoRecord THEN "load" ELSE "check"
<1>1. /\ Goes(q, pc, memory) /\ At(q, "idle")
      /\ UNCHANGED <<judge, memory, result, store, disk, restarts>>
  BY LookupStep DEF RecordInv
<1>2. memory \in Record \union {NoRecord} /\ NoRecord \notin Queries \union {"submit"}
  BY ResultsAssumption DEF RecordInv, ResultsTypeOK
<1>3. ResultsTypeOK'
  <2>1. /\ memory' \in Record \union {NoRecord} /\ result' \in [Record -> Result]
        /\ store' \in Result /\ disk' \in Result
        /\ pc \notin {"idle", "load"} => memory \in Record
    BY <1>1 DEF RecordInv, ResultsTypeOK
  <2> HIDE DEF pc
  <2>2. QED
    BY <1>1, <2>1, TypeStep DEF RecordInv
<1>4. OneRecord'
  BY <1>1, <1>2 DEF RecordInv, OneRecord, Goes, Holds
<1>5. OwnRecords'
  <2>1. CASE memory = NoRecord
    BY <1>1, <1>2, <2>1 DEF RecordInv, OwnRecords, Goes, Holds, At
  <2>2. CASE memory # NoRecord
    BY <1>1, <1>2, <2>2 DEF RecordInv, OwnRecords, Goes, Holds, At
  <2>3. QED
    BY <2>1, <2>2
<1>6. QED
  BY <1>3, <1>4, <1>5 DEF RecordInv

\* Load: the copy is in a record that nobody else has.
LEMMA LoadInv ==
  ASSUME RecordInv, NEW q \in Queries, Load(q)
  PROVE  RecordInv' /\ memory # "submit" /\ memory # q
<1>1. /\ Goes(q, "check", q) /\ At(q, "load") /\ q \in Record
      /\ result' = [result EXCEPT ![q] = store]
      /\ UNCHANGED <<judge, memory, store, disk, restarts>>
  BY LoadStep, ResultTypes DEF RecordInv
<1>2. memory # "submit" /\ memory # q
  BY <1>1 DEF RecordInv, OneRecord, OwnRecords, At
<1>3. ResultsTypeOK'
  <2>1. /\ memory' \in Record \union {NoRecord} /\ result' \in [Record -> Result]
        /\ store' \in Result /\ disk' \in Result
    BY <1>1 DEF RecordInv, ResultsTypeOK
  <2>2. QED
    BY <1>1, <2>1, TypeStep DEF RecordInv
<1>4. OneRecord' /\ OwnRecords'
  BY <1>1, <1>2, ResultsAssumption DEF RecordInv, OneRecord, OwnRecords, Goes, Holds, At
<1>5. QED
  BY <1>2, <1>3, <1>4 DEF RecordInv

\* A step that goes on with the record that q has, or drops it, and leaves
\* memory as it is.
LEMMA GoesOnInv ==
  ASSUME RecordInv, NEW q \in Queries, Holds(q), NEW pc, NEW rec, Goes(q, pc, rec),
         \/ pc = "idle"
         \/ pc \notin {"idle", "load"} /\ rec = query[q].rec,
         result' \in [Record -> Result], store' \in Result, disk' \in Result,
         UNCHANGED <<judge, memory, restarts>>
  PROVE  RecordInv'
<1>1. memory' \in Record \union {NoRecord} /\ query[q].rec \in Record
  BY DEF RecordInv, ResultsTypeOK, Holds, At
<1>2. ResultsTypeOK'
  <2>1. pc \notin {"idle", "load"} => rec \in Record
    BY <1>1
  <2>2. QED
    BY <1>1, <2>1, TypeStep DEF RecordInv
<1>3. OneRecord' /\ OwnRecords'
  BY DEF RecordInv, OneRecord, OwnRecords, Goes, Holds, At
<1>4. QED
  BY <1>2, <1>3 DEF RecordInv

\* Publish: what is shown is a record that q held, and nobody is about to load.
LEMMA PublishInv ==
  ASSUME RecordInv, NEW q \in Queries, Publish(q)
  PROVE  RecordInv'
<1>1. /\ Goes(q, "save", query[q].rec) /\ At(q, "publish") /\ memory' = query[q].rec
      /\ query[q].rec \in Record /\ Holds(q)
      /\ UNCHANGED <<judge, result, store, disk, restarts>>
  BY PublishStep DEF RecordInv, Holds, At
<1>2. ResultsTypeOK'
  <2>1. /\ memory' \in Record \union {NoRecord} /\ result' \in [Record -> Result]
        /\ store' \in Result /\ disk' \in Result
    BY <1>1 DEF RecordInv, ResultsTypeOK
  <2>2. QED
    BY <1>1, <2>1, TypeStep DEF RecordInv
<1>3. OneRecord'
  BY <1>1 DEF RecordInv, OneRecord, OwnRecords, Goes, Holds, At
<1>4. OwnRecords'
  <2>1. NoRecord \notin Record
    BY ResultsAssumption DEF Record
  <2>2. QED
    BY <1>1, <2>1 DEF RecordInv, OneRecord, OwnRecords, Goes, Holds, At
<1>5. QED
  BY <1>2, <1>3, <1>4 DEF RecordInv

\* Restart: nobody has a record.
LEMMA RestartRecords == ASSUME RecordInv, Restart PROVE RecordInv' /\ memory' = NoRecord
<1>1. /\ query' \in [Queries -> QueryRecord] /\ \A q \in Queries : query'[q].pc = "idle"
      /\ memory' = NoRecord /\ judge' = judge
  BY ResultTypes DEF Restart
<1>2. /\ result' \in [Record -> Result] /\ store' \in Result /\ disk' \in Result
  BY ResultTypes DEF Restart, RecordInv, ResultsTypeOK
<1>3. restarts' \in 0..MaxRestarts
  BY ResultsAssumption DEF Restart, RecordInv, ResultsTypeOK
<1>4. ResultsTypeOK'
  BY <1>1, <1>2, <1>3 DEF RecordInv, ResultsTypeOK, QueryRecord, At
<1>5. OneRecord' /\ OwnRecords'
  BY <1>1, ResultsAssumption DEF OneRecord, OwnRecords, Holds, At
<1>6. QED
  BY <1>1, <1>4, <1>5 DEF RecordInv

-----------------------------------------------------------------------------
\* Every step keeps the records apart.
LEMMA RecordInvNext == RecordInv /\ [ResultsNext]_rvars => RecordInv'
<1> SUFFICES ASSUME RecordInv, [ResultsNext]_rvars PROVE RecordInv'
  OBVIOUS
<1>0. result \in [Record -> Result] /\ store \in Result /\ disk \in Result
  BY DEF RecordInv, ResultsTypeOK
<1>1. ASSUME NEW q \in Queries, Lookup(q) \/ AskFails(q) \/ Answering(q) PROVE RecordInv'
  <2>1. CASE Lookup(q)
    BY <2>1, LookupInv
  <2>2. CASE AnswerCached(q) \/ AskFails(q)
    <3>1. /\ Goes(q, "idle", NoRecord) /\ Holds(q)
          /\ UNCHANGED <<judge, memory, result, store, disk, restarts>>
      BY <2>2, EndStep DEF RecordInv, Holds, At
    <3>2. QED
      BY <1>0, <3>1, GoesOnInv
  <2>3. CASE Load(q)
    BY <2>3, LoadInv
  <2>4. CASE Ask(q)
    <3>1. /\ Goes(q, "write", query[q].rec) /\ Holds(q)
          /\ UNCHANGED <<judge, memory, result, store, disk, restarts>>
      BY <2>4, AskStep DEF RecordInv, Holds, At
    <3>2. QED
      BY <1>0, <3>1, GoesOnInv
  <2>5. CASE \E field \in {"status", "rest"} : Write(q, field)
    <3>1. PICK field \in {"status", "rest"} : Write(q, field)
      BY <2>5
    <3>2. PICK pc \in {"write", "publish"} : Goes(q, pc, query[q].rec)
      BY <3>1, WriteStep DEF RecordInv
    <3>3. /\ Holds(q) /\ result' \in [Record -> Result]
          /\ UNCHANGED <<judge, memory, store, disk, restarts>>
      BY <3>1, WriteStep DEF RecordInv, Holds, At
    <3>4. QED
      BY <1>0, <3>2, <3>3, GoesOnInv
  <2>6. CASE Publish(q)
    BY <2>6, PublishInv
  <2>7. CASE Save(q)
    <3>1. /\ Goes(q, "idle", NoRecord) /\ Holds(q) /\ query[q].rec \in Record
          /\ store' = result[query[q].rec] /\ disk' \in {store', disk}
          /\ UNCHANGED <<judge, memory, result, restarts>>
      BY <2>7, SaveStep DEF RecordInv, Holds, At
    <3>2. store' \in Result /\ disk' \in Result /\ result' \in [Record -> Result]
      BY <1>0, <3>1
    <3>3. QED
      BY <3>1, <3>2, GoesOnInv
  <2>8. QED
    BY <1>1, <2>1, <2>2, <2>3, <2>4, <2>5, <2>6, <2>7 DEF Answering
<1>2. CASE Judge
  BY <1>2 DEF Judge, RecordInv, ResultsTypeOK, OneRecord, OwnRecords, Holds, At, Report
<1>3. CASE SaveOther
  BY <1>3 DEF SaveOther, RecordInv, ResultsTypeOK, OneRecord, OwnRecords, Holds, At
<1>4. CASE Restart
  BY <1>4, RestartRecords
<1>5. CASE UNCHANGED rvars
  BY <1>5 DEF rvars, RecordInv, ResultsTypeOK, OneRecord, OwnRecords, Holds, At
<1>6. QED
  BY <1>1, <1>2, <1>3, <1>4, <1>5 DEF ResultsNext

\* Whoever writes into the record of the submission goes on to save it as it
\* is then, and so does whoever wrote into it meanwhile.
LEMMA FollowingNext == RecordInv /\ Following /\ [ResultsNext]_rvars => Following'
<1> SUFFICES ASSUME RecordInv, Following, [ResultsNext]_rvars PROVE Following'
  OBVIOUS
<1>1. ASSUME NEW q \in Queries, Lookup(q) \/ AskFails(q) \/ Answering(q) PROVE Following'
  <2>1. CASE Lookup(q)
    <3>1. /\ \A r \in Queries : r # q => query'[r] = query[r]
          /\ At(q, "idle") /\ UNCHANGED <<memory, result, store>>
      BY <2>1, LookupStep DEF RecordInv, Goes
    <3>2. QED
      BY <3>1 DEF Following, At
  <2>2. CASE AnswerCached(q) \/ AskFails(q)
    <3>1. /\ \A r \in Queries : r # q => query'[r] = query[r]
          /\ At(q, "check") /\ UNCHANGED <<memory, result, store>>
      BY <2>2, EndStep DEF RecordInv, Goes
    <3>2. QED
      BY <3>1 DEF Following, At
  <2>3. CASE Load(q)
    <3>1. memory # "submit" /\ memory' = memory
      BY <2>3, LoadInv, LoadStep DEF RecordInv
    <3>2. QED
      BY <3>1 DEF Following
  <2>4. CASE Ask(q)
    <3>1. query'[q].pc = "write"
      BY <2>4, AskStep DEF RecordInv, Goes
    <3>2. QED
      BY <3>1 DEF Following
  <2>5. CASE \E field \in {"status", "rest"} : Write(q, field)
    <3>1. query'[q].pc \in {"write", "publish"}
      BY <2>5, WriteStep DEF RecordInv, Goes
    <3>2. QED
      BY <3>1 DEF Following
  <2>6. CASE Publish(q)
    <3>1. query'[q].pc = "save"
      BY <2>6, PublishStep DEF RecordInv, Goes
    <3>2. QED
      BY <3>1 DEF Following
  <2>7. CASE Save(q)
    <3>1. /\ At(q, "save") /\ store' = result[query[q].rec] /\ UNCHANGED <<memory, result>>
      BY <2>7, SaveStep DEF RecordInv
    <3>2. memory = "submit" => query[q].rec = "submit"
      BY <3>1 DEF RecordInv, OneRecord, Holds, At
    <3>3. QED
      BY <3>1, <3>2 DEF Following
  <2>8. QED
    BY <1>1, <2>1, <2>2, <2>3, <2>4, <2>5, <2>6, <2>7 DEF Answering
<1>2. CASE Judge \/ SaveOther \/ UNCHANGED rvars
  BY <1>2 DEF Judge, SaveOther, rvars, Following
<1>3. CASE Restart
  <2>1. memory' # "submit"
    BY <1>3, RestartRecords, ResultsAssumption
  <2>2. QED
    BY <2>1 DEF Following
<1>4. QED
  BY <1>1, <1>2, <1>3 DEF ResultsNext

\* Every state is well typed, and a query that goes on has a record
\* (handleSubmissionByID, handleSubmissionLogs).
THEOREM ResultsTypeCorrect == ResultsSpec => []ResultsTypeOK
<1>1. RecordInv => ResultsTypeOK
  BY DEF RecordInv
<1>2. QED
  BY <1>1, RecordInvInit, RecordInvNext, PTL DEF ResultsSpec

\* Until a restart the store has what memory has whenever no query is in
\* progress ("Update both memory and store.", leases.go:847).
THEOREM StoreSettles == ResultsSpec => []StoreFollows
<1>1. Following => StoreFollows
  BY DEF Following, StoreFollows, At
<1>2. QED
  BY <1>1, RecordInvInit, RecordInvNext, FollowingNext, PTL DEF ResultsSpec
=============================================================================
