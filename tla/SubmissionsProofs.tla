------------------------- MODULE SubmissionsProofs -------------------------
(***************************************************************************)
(* Proofs about Submissions, for any set of requests, scopes and payloads, *)
(* any number of retries and any faults.  None of its properties is        *)
(* inductive: that an answer matches needs that the entry a request found  *)
(* is of its scope, that an entry in flight is being worked on, and that   *)
(* an accepted one has a submission at CSOJ.  IInv says so.                *)
(***************************************************************************)
EXTENDS Submissions, TLAPS

\* What r may look at: the entry of another request of its scope.
Found(r, o) == /\ o \in Requests \ {r}
               /\ req[o].scope = req[r].scope
               /\ entry[o] # "none"

\* What holds of one request, wherever it is.
RequestOK(r) ==
  /\ req[r].pc \in {"existing", "waiting"} => Found(r, req[r].saw)
  /\ req[r].pc = "waiting" => SamePayload(r, req[r].saw)
  /\ req[r].pc \notin {"done", "gone"} => req[r].answer = "none"
  /\ entry[r] = "inflight" <=> AtIt(r)
  /\ entry[r] = "accepted" => req[r].pc = "done" /\ r \in judged
  /\ req[r].pc = "completed" => r \in judged
  /\ req[r].pc = "backoff" => req[r].attempt < MaxRetries

\* A waiter of scope s has been told of a failure.
Told(s) == \E w \in Requests : req[w].answer = "waitFailed" /\ req[w].scope = s

\* Whoever holds its scope without an entry in the map lost it to a waiter.
Kept(r) == Holding(r) => idempotency[req[r].scope] = r \/ Told(req[r].scope)

IInv == /\ SubmissionsTypeOK
        /\ \A r \in Requests : RequestOK(r)
        /\ \A r \in Requests : Kept(r)
        /\ DuplicatesMatch
        /\ ReservationsOwned

USE SubmissionsAssumption DEF RequestRecord

\* Before anything is asked for, nothing is held.
LEMMA InitInv == SubmissionsInit => IInv
  <1> SUFFICES ASSUME SubmissionsInit PROVE IInv OBVIOUS
  <1>1. SubmissionsTypeOK BY DEF SubmissionsInit, SubmissionsTypeOK, Idle
  <1>2. (\A r \in Requests : RequestOK(r)) /\ (\A r \in Requests : Kept(r))
    BY DEF SubmissionsInit, Idle, RequestOK, AtIt, Kept, Holding
  <1>3. DuplicatesMatch /\ ReservationsOwned
    BY DEF SubmissionsInit, Idle, DuplicatesMatch, ReservationsOwned
  <1> QED BY <1>1, <1>2, <1>3 DEF IInv

-----------------------------------------------------------------------------
(* One lemma per action *)

\* The entry that a request finds is never its own.
LEMMA HolderFound ==
  ASSUME IInv, NEW r \in Requests, req[r].pc \in {"idle", "reserve"}, Holder(r) # NoRequest
  PROVE  Found(r, Holder(r))
  BY DEF IInv, SubmissionsTypeOK, RequestOK, ReservationsOwned, Holder, Found, AtIt

\* The first look finds the entry of another request of the scope, or none.
LEMMA ArriveInv == ASSUME IInv, NEW r \in Requests, Arrive(r) PROVE IInv'
  <1>1. SubmissionsTypeOK' BY DEF IInv, SubmissionsTypeOK, Arrive, Holder
  <1>2. \A q \in Requests : RequestOK(q)'
    BY HolderFound DEF IInv, SubmissionsTypeOK, Arrive, Holder, RequestOK, Found, AtIt, SamePayload
  <1>3. \A q \in Requests : Kept(q)'
    BY DEF IInv, SubmissionsTypeOK, Arrive, Kept, Holding, Told
  <1>4. DuplicatesMatch' /\ ReservationsOwned'
    BY DEF IInv, SubmissionsTypeOK, Arrive, DuplicatesMatch, ReservationsOwned, AtIt, RequestOK
  <1> QED BY <1>1, <1>2, <1>3, <1>4 DEF IInv

rest == <<idempotency, entry, submissions, stored, judged>>

\* An answer without consequences.
LEMMA AnswerInv ==
  ASSUME IInv, NEW r \in Requests, NEW answer \in {"conflict", "cancelled"},
         req[r].pc \in {"existing", "waiting", "reserve"},
         Answer(r, answer), UNCHANGED rest
  PROVE  IInv'
  <1> USE DEF Answer, Over, rest
  <1>1. SubmissionsTypeOK' BY DEF IInv, SubmissionsTypeOK
  <1>2. \A q \in Requests : RequestOK(q)'
    BY DEF IInv, SubmissionsTypeOK, RequestOK, Found, AtIt, SamePayload
  <1>3. \A q \in Requests : Kept(q)'
    BY DEF IInv, SubmissionsTypeOK, RequestOK, Kept, Holding, Told
  <1>4. DuplicatesMatch' /\ ReservationsOwned'
    BY DEF IInv, SubmissionsTypeOK, DuplicatesMatch, ReservationsOwned, AtIt, RequestOK
  <1> QED BY <1>1, <1>2, <1>3, <1>4 DEF IInv

\* An answer with the identifier of a submission that succeeded.
LEMMA DuplicateInv ==
  ASSUME IInv, NEW r \in Requests, NEW o,
         req[r].pc \in {"existing", "waiting", "reserve"},
         Found(r, o), SamePayload(r, o), entry[o] = "accepted",
         AnswerDuplicate(r, o), UNCHANGED rest
  PROVE  IInv'
  <1> USE DEF AnswerDuplicate, Over, rest
  <1>1. SubmissionsTypeOK' BY DEF IInv, SubmissionsTypeOK, Found
  <1>2. \A q \in Requests : RequestOK(q)'
    BY DEF IInv, SubmissionsTypeOK, RequestOK, Found, AtIt, SamePayload
  <1>3. \A q \in Requests : Kept(q)'
    BY DEF IInv, SubmissionsTypeOK, RequestOK, Kept, Holding, Told
  <1>4. ReservationsOwned'
    BY DEF IInv, SubmissionsTypeOK, ReservationsOwned, AtIt, RequestOK
  <1>5. DuplicatesMatch'
    BY DEF IInv, SubmissionsTypeOK, DuplicatesMatch, RequestOK, Found, SamePayload
  <1> QED BY <1>1, <1>2, <1>3, <1>4, <1>5 DEF IInv

\* What it does with the entry it found: an answer, or the wait.
LEMMA LookingInv == ASSUME IInv, NEW r \in Requests, Looking(r) PROVE IInv'
  <1>0. req[r].pc = "existing" /\ Found(r, req[r].saw) /\ UNCHANGED rest
    BY DEF IInv, RequestOK, Looking, ExistingCompleted, ExistingInFlight, rest
  <1>1. CASE Answer(r, "conflict") BY <1>0, <1>1, AnswerInv
  <1>2. CASE ExistingCompleted(r) /\ ~Answer(r, "conflict")
    BY <1>0, <1>2, DuplicateInv DEF ExistingCompleted
  <1>3. CASE ExistingInFlight(r) /\ ~Answer(r, "conflict")
    <2>0. SamePayload(r, req[r].saw) /\ Goto(r, "waiting")
      BY <1>3 DEF ExistingInFlight
    <2> USE DEF Goto, rest
    <2>1. SubmissionsTypeOK' BY <1>0, <2>0 DEF IInv, SubmissionsTypeOK
    <2>2. \A q \in Requests : RequestOK(q)'
      BY <1>0, <2>0 DEF IInv, SubmissionsTypeOK, RequestOK, Found, AtIt, SamePayload
    <2>3. \A q \in Requests : Kept(q)'
      BY <1>0, <2>0 DEF IInv, SubmissionsTypeOK, Kept, Holding, Told
    <2>4. DuplicatesMatch' /\ ReservationsOwned'
      BY <1>0, <2>0 DEF IInv, SubmissionsTypeOK, DuplicatesMatch, ReservationsOwned, AtIt, RequestOK
    <2> QED BY <2>1, <2>2, <2>3, <2>4 DEF IInv
  <1> QED BY <1>1, <1>2, <1>3 DEF Looking

\* The waiter clears the scope: from then on someone has been told.
LEMMA WaitingInv == ASSUME IInv, NEW r \in Requests, Waiting(r) PROVE IInv'
  <1>0. req[r].pc = "waiting" /\ Found(r, req[r].saw) /\ SamePayload(r, req[r].saw)
    BY DEF IInv, RequestOK, Waiting, WaitEndsWithSuccess, WaitEndsWithFailure
  <1>1. CASE WaitEndsWithSuccess(r)
    BY <1>0, <1>1, DuplicateInv DEF WaitEndsWithSuccess, rest
  <1>2. CASE WaitEndsWithFailure(r)
    <2> USE <1>0, <1>2 DEF WaitEndsWithFailure, Answer, Over
    <2>1. SubmissionsTypeOK' BY DEF IInv, SubmissionsTypeOK
    <2>2. \A q \in Requests : RequestOK(q)'
      BY DEF IInv, SubmissionsTypeOK, RequestOK, Found, AtIt, SamePayload
    <2>3. ASSUME NEW q \in Requests PROVE Kept(q)'
      <3>1. Told(req[r].scope)' BY DEF IInv, SubmissionsTypeOK, Told
      <3>2. CASE req[q].scope = req[r].scope
        BY <3>1, <3>2 DEF IInv, SubmissionsTypeOK, Kept
      <3>3. CASE req[q].scope # req[r].scope
        BY <3>3 DEF IInv, SubmissionsTypeOK, RequestOK, Kept, Holding, Told
      <3> QED BY <3>2, <3>3
    <2>4. DuplicatesMatch' /\ ReservationsOwned'
      BY DEF IInv, SubmissionsTypeOK, DuplicatesMatch, ReservationsOwned, AtIt, RequestOK
    <2> QED BY <2>1, <2>2, <2>3, <2>4 DEF IInv
  <1> QED BY <1>1, <1>2 DEF Waiting

\* A scope is reserved when it is free; a request that was beaten to it answers.
LEMMA ReservingInv == ASSUME IInv, NEW r \in Requests, Reserving(r) PROVE IInv'
  <1>1. CASE Reserve(r)
    <2> USE <1>1 DEF Reserve, Goto
    <2>1. SubmissionsTypeOK' BY DEF IInv, SubmissionsTypeOK
    <2>2. \A q \in Requests : RequestOK(q)'
      BY DEF IInv, SubmissionsTypeOK, RequestOK, Found, AtIt, SamePayload
    <2>3. \A q \in Requests : Kept(q)'
      BY DEF IInv, SubmissionsTypeOK, Kept, Holding, Told, Holder
    <2>4. DuplicatesMatch' /\ ReservationsOwned'
      BY DEF IInv, SubmissionsTypeOK, DuplicatesMatch, ReservationsOwned, AtIt, RequestOK
    <2> QED BY <2>1, <2>2, <2>3, <2>4 DEF IInv
  <1>2. CASE ReserveRefused(r)
    <2>1. Found(r, Holder(r)) BY <1>2, HolderFound DEF ReserveRefused
    <2> QED BY <1>2, <2>1, AnswerInv, DuplicateInv DEF ReserveRefused, rest
  <1> QED BY <1>1, <1>2 DEF Reserving

-----------------------------------------------------------------------------
\* The adapter at work on r: its entry stays in flight.
LEMMA AtWorkInv ==
  ASSUME IInv, NEW r \in Requests, AtIt(r),
         NEW next \in RequestRecord,
         next.pc \in {"submitting", "backoff", "failed", "completed"},
         next.scope = req[r].scope, next.payload = req[r].payload, next.answer = "none",
         next.pc = "backoff" => next.attempt < MaxRetries,
         req' = [req EXCEPT ![r] = next],
         judged' \in SUBSET Requests, judged \subseteq judged',
         next.pc = "completed" => r \in judged',
         UNCHANGED <<idempotency, entry, submissions, stored>>
  PROVE  IInv'
  <1>1. SubmissionsTypeOK' BY DEF IInv, SubmissionsTypeOK
  <1>2. \A q \in Requests : RequestOK(q)'
    BY DEF IInv, SubmissionsTypeOK, RequestOK, Found, AtIt, SamePayload
  <1>3. \A q \in Requests : Kept(q)'
    BY DEF IInv, SubmissionsTypeOK, RequestOK, AtIt, Kept, Holding, Told
  <1>4. DuplicatesMatch' /\ ReservationsOwned'
    BY DEF IInv, SubmissionsTypeOK, DuplicatesMatch, ReservationsOwned, AtIt, RequestOK
  <1> QED BY <1>1, <1>2, <1>3, <1>4 DEF IInv

\* An attempt or a retry.
LEMMA SubmittingInv == ASSUME IInv, NEW r \in Requests, Submitting(r) PROVE IInv'
  <1> DEFINE next == req'[r]
  <1>0. /\ req \in [Requests -> RequestRecord] /\ judged \subseteq Requests
        /\ req[r].pc \in {"submitting", "backoff"} => req[r].answer = "none"
        /\ req[r].pc = "backoff" => req[r].attempt < MaxRetries
    BY DEF IInv, SubmissionsTypeOK, RequestOK
  <1>1. CASE Retry(r)
    <2>1. /\ req' = [req EXCEPT ![r] = next]
          /\ next = [pc |-> "submitting", scope |-> req[r].scope, payload |-> req[r].payload,
                     saw |-> req[r].saw, attempt |-> req[r].attempt + 1,
                     answer |-> req[r].answer]
      BY <1>0, <1>1 DEF Retry
    <2>2. next \in RequestRecord BY <1>0, <1>1, <2>1 DEF Retry
    <2> QED BY <1>0, <1>1, <2>1, <2>2, AtWorkInv DEF Retry, AtIt
  <1>2. ASSUME NEW outcome \in Outcome, SubmitAttempt(r, outcome) PROVE IInv'
    <2> DEFINE pc == next.pc
    <2>1. /\ req' = [req EXCEPT ![r] = next]
          /\ next = [pc |-> pc, scope |-> req[r].scope, payload |-> req[r].payload,
                     saw |-> req[r].saw, attempt |-> req[r].attempt,
                     answer |-> req[r].answer]
          /\ pc \in {"backoff", "failed", "completed"}
          /\ pc = "completed" => r \in judged'
          /\ pc = "backoff" => req[r].attempt < MaxRetries
      BY <1>0, <1>2 DEF SubmitAttempt, Goto, Judging
    <2>2. judged' \in SUBSET Requests /\ judged \subseteq judged'
      BY <1>0, <1>2 DEF SubmitAttempt
    <2>3. next \in RequestRecord BY <1>0, <2>1
    <2> HIDE DEF next
    <2> QED BY <1>0, <1>2, <2>1, <2>2, <2>3, AtWorkInv DEF SubmitAttempt, AtIt
  <1> QED BY <1>1, <1>2 DEF Submitting

\* A failing request clears its scope, even if another holds it by now: then
\* it had lost it before, and someone has been told.
LEMMA FailsInv == ASSUME IInv, NEW r \in Requests, SubmitFails(r) PROVE IInv'
  <1> USE DEF SubmitFails, Answer, Over
  <1>1. SubmissionsTypeOK' BY DEF IInv, SubmissionsTypeOK
  <1>2. \A q \in Requests : RequestOK(q)'
    BY DEF IInv, SubmissionsTypeOK, RequestOK, Found, AtIt, SamePayload
  <1>3. ASSUME NEW q \in Requests PROVE Kept(q)'
    <2>1. Told(req[q].scope) => Told(req[q].scope)'
      BY DEF IInv, SubmissionsTypeOK, RequestOK, Told
    <2>2. req'[q].scope = req[q].scope BY DEF IInv, SubmissionsTypeOK
    <2>3. q # r /\ Holding(q) /\ req[q].scope = req[r].scope => Told(req[q].scope)
      BY DEF IInv, RequestOK, AtIt, Kept, Holding
    <2>4. Holding(q)' => q # r /\ Holding(q) BY DEF IInv, SubmissionsTypeOK, Holding
    <2>5. CASE req[q].scope = req[r].scope
      BY <2>1, <2>2, <2>3, <2>4, <2>5 DEF Kept
    <2>6. CASE req[q].scope # req[r].scope
      BY <2>1, <2>2, <2>4, <2>6 DEF IInv, SubmissionsTypeOK, Kept
    <2> QED BY <2>5, <2>6
  <1>4. DuplicatesMatch' /\ ReservationsOwned'
    BY DEF IInv, SubmissionsTypeOK, DuplicatesMatch, ReservationsOwned, AtIt, RequestOK
  <1> QED BY <1>1, <1>2, <1>3, <1>4 DEF IInv

\* A request that succeeds keeps its scope, if it still has it.
LEMMA CompletesInv == ASSUME IInv, NEW r \in Requests, SubmitCompletes(r) PROVE IInv'
  <1>0. PICK answer \in {"accepted", "saveFailed"} : Answer(r, answer)
    BY DEF SubmitCompletes
  <1> USE <1>0 DEF SubmitCompletes, Answer, Over
  <1>1. SubmissionsTypeOK' BY DEF IInv, SubmissionsTypeOK
  <1>2. \A q \in Requests : RequestOK(q)'
    BY DEF IInv, SubmissionsTypeOK, RequestOK, Found, AtIt, SamePayload
  <1>3. \A q \in Requests : Kept(q)'
    BY DEF IInv, SubmissionsTypeOK, RequestOK, AtIt, Kept, Holding, Told
  <1>4. DuplicatesMatch' /\ ReservationsOwned'
    BY DEF IInv, SubmissionsTypeOK, DuplicatesMatch, ReservationsOwned, AtIt, RequestOK
  <1> QED BY <1>1, <1>2, <1>3, <1>4 DEF IInv

\* A client that goes away takes nothing with it.
LEMMA CancelledInv ==
  ASSUME IInv, NEW r \in Requests, WaitCancelled(r) \/ RetryCancelled(r) PROVE IInv'
  <1>1. CASE WaitCancelled(r) BY <1>1, AnswerInv DEF WaitCancelled, rest
  <1>2. CASE RetryCancelled(r)
    <2> DEFINE next == req'[r]
    <2>0. req \in [Requests -> RequestRecord] /\ req[r].answer = "none"
      BY <1>2 DEF IInv, SubmissionsTypeOK, RequestOK, RetryCancelled
    <2>1. /\ req' = [req EXCEPT ![r] = next]
          /\ next = [pc |-> "failed", scope |-> req[r].scope, payload |-> req[r].payload,
                     saw |-> req[r].saw, attempt |-> req[r].attempt,
                     answer |-> req[r].answer]
      BY <1>2, <2>0 DEF RetryCancelled, Goto
    <2>2. next \in RequestRecord /\ judged \in SUBSET Requests
      BY <2>0, <2>1 DEF IInv, SubmissionsTypeOK
    <2> HIDE DEF next
    <2> QED BY <1>2, <2>0, <2>1, <2>2, AtWorkInv DEF RetryCancelled, AtIt
  <1> QED BY <1>1, <1>2

\* After a restart no scope is reserved and nobody waits.
LEMMA RestartInv == ASSUME IInv, Restart PROVE IInv'
  <1> USE DEF Restart, Over
  <1>1. SubmissionsTypeOK' BY DEF IInv, SubmissionsTypeOK
  <1>2. \A q \in Requests : RequestOK(q)'
    BY DEF IInv, SubmissionsTypeOK, RequestOK, AtIt
  <1>3. (\A q \in Requests : Kept(q)') /\ ReservationsOwned'
    BY DEF Kept, Holding, ReservationsOwned
  <1>4. DuplicatesMatch'
    BY DEF IInv, SubmissionsTypeOK, DuplicatesMatch
  <1> QED BY <1>1, <1>2, <1>3, <1>4 DEF IInv

\* A step of something else.
LEMMA StutterInv == ASSUME IInv, UNCHANGED svars PROVE IInv'
  BY DEF svars, IInv, SubmissionsTypeOK, RequestOK, Found, SamePayload, AtIt, Kept,
         Holding, Told, DuplicatesMatch, ReservationsOwned

\* IInv is inductive.
LEMMA NextInv == ASSUME IInv, [SubmissionsNext]_svars PROVE IInv'
  <1>1. ASSUME NEW r \in Requests, Arrive(r) PROVE IInv' BY <1>1, ArriveInv
  <1>2. ASSUME NEW r \in Requests, Handler(r) PROVE IInv'
    BY <1>2, LookingInv, WaitingInv, ReservingInv, SubmittingInv, FailsInv, CompletesInv
       DEF Handler, Completing
  <1>3. ASSUME NEW r \in Requests, WaitCancelled(r) \/ RetryCancelled(r) PROVE IInv'
    BY <1>3, CancelledInv
  <1>4. CASE Restart BY <1>4, RestartInv
  <1>5. CASE UNCHANGED svars BY <1>5, StutterInv
  <1> QED BY <1>1, <1>2, <1>3, <1>4, <1>5 DEF SubmissionsNext, Quiet

-----------------------------------------------------------------------------
(* Theorems *)

\* IInv holds in every reachable state.
THEOREM Invariance == SubmissionsSpec => []IInv
  BY InitInv, NextInv, PTL DEF SubmissionsSpec

\* Every reachable state is well typed.
THEOREM SubmissionsTypeCorrect == SubmissionsSpec => []SubmissionsTypeOK
  BY Invariance, PTL DEF IInv

\* A duplicate is answered with the identifier of a submission that CSOJ has,
\* of the same files in the same scope.
THEOREM Matches == SubmissionsSpec => []DuplicatesMatch
  BY Invariance, PTL DEF IInv

\* No failure leaves a reservation behind.
THEOREM Owned == SubmissionsSpec => []ReservationsOwned
  BY Invariance, PTL DEF IInv

\* Nobody waits for an entry that no goroutine is going to close.
THEOREM Served == SubmissionsSpec => []WaitersServed
  <1>1. IInv => WaitersServed
    BY DEF IInv, SubmissionsTypeOK, RequestOK, Found, WaitersServed
  <1> QED BY <1>1, Invariance, PTL

\* Only a waiter that clears a scope lets a second request have it.
THEOREM SecondOnlyAfterWaiter == SubmissionsSpec => []SecondAfterWaiter
  <1>1. IInv => SecondAfterWaiter
    BY DEF IInv, Kept, Told, SecondAfterWaiter
  <1> QED BY <1>1, Invariance, PTL
=============================================================================
