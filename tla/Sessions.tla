------------------------------ MODULE Sessions ------------------------------
(***************************************************************************)
(* The bastion's session table (cmd/bastion-mgmt) with the controller: the *)
(* channels that students open and close, what the table makes of the      *)
(* notifications, the rosters it posts, the drains that releases ask for.  *)
(*                                                                         *)
(* open and closing are the truth, which the table has to guess from what  *)
(* sshd's wrapper tells it (external): an open is reported before the      *)
(* channel carries anything, a close at any time after it.  A drain only   *)
(* forgets the session; it is the container's end that breaks channels.    *)
(***************************************************************************)
EXTENDS Roster

CONSTANT BastionRestarts   \* whether the bastion's process may be restarted

ASSUME SessionsAssumption == BastionRestarts \in BOOLEAN

VARIABLES open,      \* the channels that each student has
          closing,   \* the channels that are closed and still to be reported
          table,     \* the session table, NoSession where it has no entry
          posted,    \* a roster was posted since the last tick
          since      \* history: from when on a student has had a channel and
                     \* the table has counted one, 0 if that is not so now

bastion == <<open, closing, table>>
svars == <<rvars, bastion, posted, since>>

SessionsInit == /\ RosterInit
                /\ open = [p \in Principals |-> 0]
                /\ closing = [p \in Principals |-> 0]
                /\ table = NoSessions
                /\ posted = FALSE
                /\ since = [p \in Principals |-> 0]

-----------------------------------------------------------------------------
(* The channels, and the notifications of them *)

openChannel(s) == [channels |-> s.channels + 1, active |-> now]

\* Mutated forms: the count does not come down to 0; a close ends the session.
closeChannelFloored(s) ==
  IF s.channels > 1 THEN [s EXCEPT !.channels = @ - 1] ELSE s

closeChannelDeleting(s) == NoSession

closeChannel(s) ==
  CASE s = NoSession    -> s
    [] s.channels > 1   -> [s EXCEPT !.channels = @ - 1]
    [] OTHER            -> [channels |-> 0, active |-> now]

\* sshd lets a student through to the container of an Active lease.
Open(p) ==
  /\ ~Locked /\ leases[p].state = "Active" /\ containers[p].running
  /\ open[p] + closing[p] < MaxChannels
  /\ open' = [open EXCEPT ![p] = @ + 1]
  /\ table' = [table EXCEPT ![p] = openChannel(@)]
  /\ UNCHANGED <<rvars, closing, posted>>

Close(p) ==
  /\ open[p] > 0
  /\ open' = [open EXCEPT ![p] = @ - 1]
  /\ closing' = [closing EXCEPT ![p] = @ + 1]
  /\ UNCHANGED <<rvars, table, posted>>

CloseReported(p) ==
  /\ closing[p] > 0
  /\ closing' = [closing EXCEPT ![p] = @ - 1]
  /\ table' = [table EXCEPT ![p] = closeChannel(@)]
  /\ UNCHANGED <<rvars, open, posted>>

\* The table is in memory only; sshd and its channels stay.
BastionRestart ==
  /\ BastionRestarts
  /\ table' = NoSessions
  /\ UNCHANGED <<rvars, open, closing, posted>>

-----------------------------------------------------------------------------
(* The controller *)

\* The loop that posts rosters waits for the answer before its next turn.
Report == /\ RosterPost(table)
          /\ posted' = TRUE
          /\ UNCHANGED bastion

\* The drains of this step: a drain that fails may have got there all the same.
Drained ==
  LET Ends(to) == {p \in Principals : phase[p] = "drain" /\ phase'[p] = to} IN
  \E unanswered \in SUBSET Ends("rollback") :
     table' = [p \in Principals |-> IF p \in Ends("stop") \union unanswered
                                    THEN NoSession ELSE table[p]]

\* A container that stops breaks its channels.
Broken ==
  LET Broke(p) == IF containers'[p].running THEN 0 ELSE open[p] IN
  /\ open' = [p \in Principals |-> open[p] - Broke(p)]
  /\ closing' = [p \in Principals |-> closing[p] + Broke(p)]

\* A tick is longer than it takes until the next roster is reconciled.
Controller == /\ Next
              /\ now' # now => posted /\ roster.pc = "none"
              /\ posted' = (posted /\ now' = now)
              /\ Drained /\ Broken
              /\ UNCHANGED roster

\* since is set in every step, from what the step makes of the other two.
Watch == since' = [p \in Principals |-> IF open'[p] = 0 \/ table'[p].channels = 0 THEN 0
                                        ELSE IF since[p] = 0 THEN now ELSE since[p]]

SessionsNext == /\ \/ \E p \in Principals : Open(p) \/ Close(p) \/ CloseReported(p)
                   \/ BastionRestart
                   \/ Report
                   \/ Reconcile /\ UNCHANGED <<bastion, posted>>
                   \/ Controller
                /\ Watch

SessionsSpec == SessionsInit /\ [][SessionsNext]_svars

-----------------------------------------------------------------------------
(* Properties *)

\* Type invariant.
SessionsTypeOK ==
  /\ RosterTypeOK
  /\ open \in [Principals -> 0..MaxChannels]
  /\ closing \in [Principals -> 0..MaxChannels]
  /\ table \in [Principals -> Session \union {NoSession}]
  /\ posted \in BOOLEAN
  /\ since \in [Principals -> 0..MaxTime]

\* The table may forget channels but makes none up, whatever drains, broken
\* channels and late closes it is told of: a student who has left is not held
\* to be connected (closeChannel, drain).
NoPhantomChannel ==
  \A p \in Principals : table[p].channels <= open[p] + closing[p]

\* It loses count of a student only by a drain or a restart that comes while
\* there are channels.  Closes that are late, channels that are opened again
\* before they arrive, and containers that end leave the count right.
ForgetsOnlyWhenCleared ==
  [][\A p \in Principals :
        table[p].channels = open[p] + closing[p] /\ table'[p].channels # open'[p] + closing'[p]
          => \/ phase[p] = "drain"
             \/ table' = NoSessions /\ UNCHANGED <<open, closing>>]_svars

\* Nobody is released as idle whose channel the table has counted for longer
\* than a roster takes to be posted and reconciled, however the roster
\* interleaves with creates, failing releases and the idle loop's copies.
ConnectedStays ==
  [][\A p \in Principals :
        phase[p] = "idle" /\ phase'[p] = "drain" /\ leases'[p].by = "idle"
          => since[p] = 0 \/ now <= since[p] + 1]_svars
=============================================================================
