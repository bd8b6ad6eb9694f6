---------------------------- MODULE Submissions ----------------------------
(***************************************************************************)
(* Submitting work to the judge (handleSubmissions) through the adapter's  *)
(* retries.  Requests with the same principal, problem and file names have *)
(* one idempotency scope: the first reserves it and posts its files to     *)
(* CSOJ without a lock, those that come after it wait, get the same        *)
(* identifier, or are refused.                                             *)
(*                                                                         *)
(* A request is one HTTP request that passed the handler's validation (one *)
(* that does not changes nothing).  An idempotency entry, a submission     *)
(* record and the identifier CSOJ answered with are all named by the       *)
(* request they were made for: each request gets at most one of each.      *)
(*                                                                         *)
(* h.mu is held for single steps only, so it is no variable.  The handler  *)
(* reads existing.submissionID without it (leases.go:688), which races     *)
(* with its assignment at 786: the two outcomes are the reads before and   *)
(* after it, as the string itself is read again under the lock.            *)
(***************************************************************************)
EXTENDS Naturals

CONSTANTS Requests,     \* the HTTP requests
          NoRequest,    \* no entry
          Scopes,       \* idempotency scopes
          Payloads,     \* hashes of file contents
          MaxRetries,   \* maxRetries of the adapter (3)
          Faults        \* the faults that may happen

(***************************************************************************)
(* What becomes of one POST to CSOJ (external).  "lost" and "unreached"    *)
(* are transport failures and 5xx answers, after and before CSOJ has made  *)
(* a submission; "refused" is an error that is not retried; "garbled" an   *)
(* answer that cannot be read or parsed though a submission was made.      *)
(***************************************************************************)
Transient == {"lost", "unreached"}
Outcome == Transient \union {"answered", "refused", "garbled"}
Judging == {"answered", "lost", "garbled"}   \* CSOJ has made a submission

ASSUME SubmissionsAssumption ==
  /\ NoRequest \notin Requests
  /\ MaxRetries \in Nat
  /\ Faults \subseteq (Outcome \ {"answered"}) \union {"cancel", "save", "restart"}

VARIABLES
  req,           \* where each request is
  idempotency,   \* for each scope, the request whose entry the map holds
  entry,         \* what each request's entry says
  submissions,   \* h.submissions
  stored,        \* the submissions in the store's snapshot
  judged         \* the requests whose files CSOJ has made a submission of (external)
(* req[r].pc:  "idle", then "existing" or "reserve" after the first look,  *)
(*   "waiting"; "submitting", "backoff", and "failed" or "completed" with  *)
(*   the adapter's result; "done" when answered, "gone" if a restart cut   *)
(*   it off.  saw is the entry it found, then the one whose identifier a   *)
(*   duplicate is answered with; attempt is the adapter's.                 *)

RequestRecord ==
  [pc : {"idle", "existing", "waiting", "reserve", "submitting", "backoff",
         "failed", "completed", "done", "gone"},
   scope : Scopes, payload : Payloads, saw : Requests \union {NoRequest},
   attempt : 0..MaxRetries,
   answer : {"none", "accepted", "duplicate", "conflict", "failed",
             "waitFailed", "cancelled", "saveFailed"}]

svars == <<req, idempotency, entry, submissions, stored, judged>>

Idle(s, p) == [pc |-> "idle", scope |-> s, payload |-> p, saw |-> NoRequest,
               attempt |-> 0, answer |-> "none"]

\* What a request will ask for is open until it arrives.
SubmissionsInit ==
  /\ req \in [Requests -> {Idle(s, p) : s \in Scopes, p \in Payloads}]
  /\ idempotency = [s \in Scopes |-> NoRequest]
  /\ entry = [r \in Requests |-> "none"]
  /\ submissions = {} /\ stored = {}
  /\ judged = {}

Holder(r) == idempotency[req[r].scope]
SamePayload(r, o) == req[o].payload = req[r].payload
Goto(r, pc) == req' = [req EXCEPT ![r].pc = pc]

\* A request that is over: its locals are forgotten, but for the request whose
\* identifier a duplicate is answered with.
Over(q, pc, answer, o) == [pc |-> pc, scope |-> q.scope, payload |-> q.payload,
                           saw |-> o, attempt |-> 0, answer |-> answer]
Answer(r, answer) == req' = [req EXCEPT ![r] = Over(req[r], "done", answer, NoRequest)]
AnswerDuplicate(r, o) == req' = [req EXCEPT ![r] = Over(req[r], "done", "duplicate", o)]

-----------------------------------------------------------------------------
(* Before the reservation *)

\* The first look at the scope, and what it decides on.
Arrive(r) ==
  /\ req[r].pc = "idle"
  /\ req' = [req EXCEPT ![r].saw = Holder(r),
                        ![r].pc = IF Holder(r) = NoRequest THEN "reserve" ELSE "existing"]
  /\ UNCHANGED <<idempotency, entry, submissions, stored, judged>>

\* The entry it found has an identifier.
ExistingCompleted(r) ==
  LET o == req[r].saw IN
  /\ req[r].pc = "existing" /\ entry[o] = "accepted"
  /\ \/ o \in submissions /\ SamePayload(r, o) /\ AnswerDuplicate(r, o)
     \/ ~(o \in submissions /\ SamePayload(r, o)) /\ Answer(r, "conflict")
  /\ UNCHANGED <<idempotency, entry, submissions, stored, judged>>

\* Mutated form: whatever is in flight is waited for.
ExistingInFlightAny(r) ==
  /\ req[r].pc = "existing" /\ entry[req[r].saw] # "accepted"
  /\ Goto(r, "waiting")
  /\ UNCHANGED <<idempotency, entry, submissions, stored, judged>>

\* It has none: in flight, or failed in the meantime.
ExistingInFlight(r) ==
  /\ req[r].pc = "existing" /\ entry[req[r].saw] # "accepted"
  /\ \/ SamePayload(r, req[r].saw) /\ Goto(r, "waiting")
     \/ ~SamePayload(r, req[r].saw) /\ Answer(r, "conflict")
  /\ UNCHANGED <<idempotency, entry, submissions, stored, judged>>

WaitEndsWithSuccess(r) ==
  /\ req[r].pc = "waiting" /\ entry[req[r].saw] = "accepted"
  /\ AnswerDuplicate(r, req[r].saw)
  /\ UNCHANGED <<idempotency, entry, submissions, stored, judged>>

\* The waiter clears the scope, whoever holds it by now.
WaitEndsWithFailure(r) ==
  /\ req[r].pc = "waiting" /\ entry[req[r].saw] = "failed"
  /\ idempotency' = [idempotency EXCEPT ![req[r].scope] = NoRequest]
  /\ Answer(r, "waitFailed")
  /\ UNCHANGED <<entry, submissions, stored, judged>>

\* The client goes away.
WaitCancelled(r) ==
  /\ "cancel" \in Faults
  /\ req[r].pc = "waiting"
  /\ Answer(r, "cancelled")
  /\ UNCHANGED <<idempotency, entry, submissions, stored, judged>>

\* Mutated form: the scope is not looked at again under the lock.
ReserveUnchecked(r) ==
  /\ req[r].pc = "reserve"
  /\ idempotency' = [idempotency EXCEPT ![req[r].scope] = r]
  /\ entry' = [entry EXCEPT ![r] = "inflight"]
  /\ Goto(r, "submitting")
  /\ UNCHANGED <<submissions, stored, judged>>

Reserve(r) ==
  /\ req[r].pc = "reserve" /\ Holder(r) = NoRequest
  /\ idempotency' = [idempotency EXCEPT ![req[r].scope] = r]
  /\ entry' = [entry EXCEPT ![r] = "inflight"]
  /\ Goto(r, "submitting")
  /\ UNCHANGED <<submissions, stored, judged>>

\* The scope was reserved after the first look: an identical request that is
\* still in flight counts as incompatible here.
ReserveRefused(r) ==
  LET o == Holder(r)
      duplicate == entry[o] = "accepted" /\ o \in submissions /\ SamePayload(r, o) IN
  /\ req[r].pc = "reserve" /\ o # NoRequest
  /\ \/ duplicate /\ AnswerDuplicate(r, o)
     \/ ~duplicate /\ Answer(r, "conflict")
  /\ UNCHANGED <<idempotency, entry, submissions, stored, judged>>

-----------------------------------------------------------------------------
(* The adapter's Submit, without a lock *)

\* Mutated form: one retry too many.
SubmitAttemptOneMore(r, outcome) ==
  /\ outcome \in Faults \union {"answered"}
  /\ req[r].pc = "submitting"
  /\ judged' = judged \union {q \in {r} : outcome \in Judging}
  /\ Goto(r, IF outcome = "answered" THEN "completed"
             ELSE IF outcome \in Transient /\ req[r].attempt <= MaxRetries THEN "backoff"
             ELSE "failed")
  /\ UNCHANGED <<idempotency, entry, submissions, stored>>

\* One POST, and what retryWithBackoff makes of its outcome.
SubmitAttempt(r, outcome) ==
  /\ outcome \in Faults \union {"answered"}
  /\ req[r].pc = "submitting"
  /\ judged' = judged \union {q \in {r} : outcome \in Judging}
  /\ Goto(r, IF outcome = "answered" THEN "completed"
             ELSE IF outcome \in Transient /\ req[r].attempt < MaxRetries THEN "backoff"
             ELSE "failed")
  /\ UNCHANGED <<idempotency, entry, submissions, stored>>

Retry(r) ==
  /\ req[r].pc = "backoff"
  /\ req' = [req EXCEPT ![r].pc = "submitting", ![r].attempt = @ + 1]
  /\ UNCHANGED <<idempotency, entry, submissions, stored, judged>>

RetryCancelled(r) ==
  /\ "cancel" \in Faults
  /\ req[r].pc = "backoff"
  /\ Goto(r, "failed")
  /\ UNCHANGED <<idempotency, entry, submissions, stored, judged>>

-----------------------------------------------------------------------------
(* After it *)

\* Mutated form: those who wait are not woken.
SubmitFailsSilently(r) ==
  /\ req[r].pc = "failed"
  /\ idempotency' = [idempotency EXCEPT ![req[r].scope] = NoRequest]
  /\ Answer(r, "failed")
  /\ UNCHANGED <<entry, submissions, stored, judged>>

\* Mutated form: the reservation is left in place.
SubmitFailsReserved(r) ==
  /\ req[r].pc = "failed"
  /\ entry' = [entry EXCEPT ![r] = "failed"]
  /\ Answer(r, "failed")
  /\ UNCHANGED <<idempotency, submissions, stored, judged>>

\* Submit returned an error.
SubmitFails(r) ==
  /\ req[r].pc = "failed"
  /\ entry' = [entry EXCEPT ![r] = "failed"]
  /\ idempotency' = [idempotency EXCEPT ![req[r].scope] = NoRequest]
  /\ Answer(r, "failed")
  /\ UNCHANGED <<submissions, stored, judged>>

\* Submit returned an identifier.  h.mu is held to the end; those who wait are
\* woken before the save, and need neither the lock nor the save.  A save
\* writes every record the store has, those of earlier failing saves included.
SubmitCompletes(r) ==
  /\ req[r].pc = "completed"
  /\ submissions' = submissions \union {r}
  /\ entry' = [entry EXCEPT ![r] = "accepted"]
  /\ \/ stored' = stored \union submissions' /\ Answer(r, "accepted")
     \/ "save" \in Faults /\ stored' = stored /\ Answer(r, "saveFailed")
  /\ UNCHANGED <<idempotency, judged>>

\* The controller stops and starts again: only the snapshot is left.
Restart ==
  /\ "restart" \in Faults
  /\ req' = [r \in Requests |-> IF req[r].pc \in {"idle", "done"} THEN req[r]
                                ELSE Over(req[r], "gone", "none", NoRequest)]
  /\ idempotency' = [s \in Scopes |-> NoRequest]
  /\ entry' = [r \in Requests |-> "none"]
  /\ submissions' = {}
  /\ UNCHANGED <<stored, judged>>

-----------------------------------------------------------------------------
Looking(r) == ExistingCompleted(r) \/ ExistingInFlight(r)
Waiting(r) == WaitEndsWithSuccess(r) \/ WaitEndsWithFailure(r)
Reserving(r) == Reserve(r) \/ ReserveRefused(r)
Submitting(r) == Retry(r) \/ \E outcome \in Outcome : SubmitAttempt(r, outcome)
Completing(r) == SubmitFails(r) \/ SubmitCompletes(r)

\* The steps of the goroutine that serves r.
Handler(r) == Looking(r) \/ Waiting(r) \/ Reserving(r) \/ Submitting(r) \/ Completing(r)

\* No client asks for anything more.
Quiet == (\A r \in Requests : req[r].pc \in {"done", "gone"}) /\ UNCHANGED svars

SubmissionsNext ==
  \/ \E r \in Requests : Arrive(r) \/ Handler(r) \/ WaitCancelled(r) \/ RetryCancelled(r)
  \/ Restart
  \/ Quiet

SubmissionsSpec == SubmissionsInit /\ [][SubmissionsNext]_svars

-----------------------------------------------------------------------------
(* Properties *)

\* Type invariant.  Whoever looks at an entry has found one.
SubmissionsTypeOK ==
  /\ req \in [Requests -> RequestRecord]
  /\ idempotency \in [Scopes -> Requests \union {NoRequest}]
  /\ entry \in [Requests -> {"none", "inflight", "accepted", "failed"}]
  /\ submissions \subseteq Requests /\ stored \subseteq Requests
  /\ judged \subseteq Requests
  /\ \A r \in Requests : req[r].pc \in {"existing", "waiting"} => req[r].saw # NoRequest

\* The goroutine of r is between its reservation and its answer.
AtIt(r) == req[r].pc \in {"submitting", "backoff", "failed", "completed"}

\* A student who is told that the work is a duplicate gets the identifier of
\* a submission that CSOJ has, of the same files in the same scope, whichever
\* way the duplicate was found (leases.go:697, 722, 750).
DuplicatesMatch ==
  \A r \in Requests : req[r].answer = "duplicate" =>
    LET o == req[r].saw IN
    /\ o \in judged \ {r}
    /\ req[o].scope = req[r].scope /\ req[o].payload = req[r].payload

\* Whoever waits for a submission waits for one that has ended or that its
\* request is still at: no goroutine hangs on the channel of an entry that
\* nobody will close (leases.go:710).
WaitersServed ==
  \A r \in Requests : req[r].pc = "waiting" =>
    \/ entry[req[r].saw] \in {"accepted", "failed"}
    \/ AtIt(req[r].saw)

\* A reservation without an identifier belongs to a request that is still at
\* it: no failure leaves a scope in which nothing can be submitted any more
\* ("Clear the reservation so a retry can proceed.", leases.go:766).
ReservationsOwned ==
  \A s \in Scopes : idempotency[s] # NoRequest =>
    LET o == idempotency[s] IN
    /\ req[o].scope = s
    /\ entry[o] \in {"inflight", "accepted"}
    /\ entry[o] = "inflight" => AtIt(o)

Holding(r) == entry[r] \in {"inflight", "accepted"}

\* Two requests of one scope are both judged, or being judged, only after a
\* waiter has been told of a failure and has cleared the scope.
SecondAfterWaiter ==
  \A r, o \in Requests :
    r # o /\ Holding(r) /\ Holding(o) /\ req[r].scope = req[o].scope
      => \E w \in Requests : req[w].answer = "waitFailed" /\ req[w].scope = req[r].scope

\* One scope is given to one request at a time, and for good once it succeeds
\* ("Reserve the idempotency scope under lock before calling CSOJ.",
\* leases.go:736).
ScopeExclusive ==
  \A r, o \in Requests :
    Holding(r) /\ Holding(o) /\ req[r].scope = req[o].scope => r = o
=============================================================================
