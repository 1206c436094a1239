----------------------------- MODULE MailOutbox -----------------------------
(***************************************************************************)
(* Deliveries of mail.  Every process of the control plane runs a          *)
(* dispatcher that leases due deliveries, hands them all to the mail       *)
(* server at once and records what became of each.                         *)
(*                                                                         *)
(* Handing over and recording are not one step: a process may die between  *)
(* them, an answer may be lost, and a slow send may be overtaken by the    *)
(* lease that follows it.                                                  *)
(***************************************************************************)
EXTENDS Integers, FiniteSets

CONSTANTS
  Deliveries,
  Workers,    \* processes with a dispatcher
  Lasting,    \* those that go on running
  NoWorker,
  MaxAttempts \* mail_deliveries.max_attempts

ASSUME MailAssumption ==
  /\ Lasting \subseteq Workers /\ NoWorker \notin Workers
  /\ MaxAttempts \in Nat \ {0}

VARIABLES
  mails,       \* rows of mail_deliveries
  dispatching, \* processes whose dispatching flag is set
  sends,       \* calls of deliver under way
  copies       \* history: copies the mail server took

mailVars == <<mails, dispatching, sends, copies>>

-----------------------------------------------------------------------------

\* waiting: available_at, or lease_until of a leased row, lies ahead.
Mails == [status : {"absent", "pending", "leased", "retry_wait", "sent", "failed"},
          attempts : 0..MaxAttempts, owner : Workers \cup {NoWorker}, waiting : BOOLEAN]

\* awaited: the run that started the send still waits for it.
Sends == [worker : Workers, delivery : Deliveries, attempt : 1..MaxAttempts,
          step : {"sending", "sent", "failing"}, awaited : BOOLEAN]

MailTypeOK ==
  /\ mails \in [Deliveries -> Mails]
  /\ dispatching \subseteq Workers
  /\ sends \subseteq Sends
  /\ copies \in [Deliveries -> 0..MaxAttempts]

MailInit ==
  /\ mails = [d \in Deliveries |-> [status |-> "absent", attempts |-> 0,
                                    owner |-> NoWorker, waiting |-> FALSE]]
  /\ dispatching = {}
  /\ sends = {}
  /\ copies = [d \in Deliveries |-> 0]

\* The mail is queued by the transaction that it is about.
Enqueue(d) ==
  /\ mails[d].status = "absent"
  /\ mails' = [mails EXCEPT ![d].status = "pending"]
  /\ UNCHANGED <<dispatching, sends, copies>>

TimePasses(d) ==
  /\ mails[d].waiting
  /\ mails' = [mails EXCEPT ![d].waiting = FALSE]
  /\ UNCHANGED <<dispatching, sends, copies>>

-----------------------------------------------------------------------------

ClaimableUnlessLeased(d) ==
  /\ mails[d].attempts < MaxAttempts
  /\ mails[d].status \in {"pending", "retry_wait"} /\ ~mails[d].waiting

Claimable(d) ==
  /\ mails[d].attempts < MaxAttempts
  /\ mails[d].status \in {"pending", "retry_wait", "leased"} /\ ~mails[d].waiting

\* The timer starts a run unless one is awaited.  Rows that another process has
\* locked are skipped, and so are those beyond the limit.
Claim(p, D) ==
  /\ p \notin dispatching
  /\ D # {} /\ \A d \in D : Claimable(d)
  /\ mails' = [d \in Deliveries |->
       IF d \in D THEN [status |-> "leased", attempts |-> mails[d].attempts + 1,
                        owner |-> p, waiting |-> TRUE]
                  ELSE mails[d]]
  /\ sends' = sends \cup
       {[worker |-> p, delivery |-> d, attempt |-> mails'[d].attempts,
         step |-> "sending", awaited |-> TRUE] : d \in D}
  /\ dispatching' = dispatching \cup {p}
  /\ UNCHANGED copies

Goes(s, step) == sends' = (sends \ {s}) \cup {[s EXCEPT !.step = step]}

\* transport.send: it may fail although the mail server has taken the mail.
Send(s) ==
  /\ s.step = "sending"
  /\ \/ Goes(s, "sent") /\ copies' = [copies EXCEPT ![s.delivery] = @ + 1]
     \/ Goes(s, "failing") /\ copies' \in {copies, [copies EXCEPT ![s.delivery] = @ + 1]}
  /\ UNCHANGED <<mails, dispatching>>

Holds(s) ==
  mails[s.delivery].status = "leased" /\ mails[s.delivery].owner = s.worker

\* The row is settled or made to wait, if it is still leased to this process.
Marked(s, status, waiting) ==
  IF Holds(s)
  THEN [mails EXCEPT ![s.delivery].status = status,
                     ![s.delivery].owner = NoWorker,
                     ![s.delivery].waiting = waiting]
  ELSE mails

MarkedSent(s) == Marked(s, "sent", FALSE)

FailedAtOnce(s) == Marked(s, "failed", FALSE)

\* terminal is judged by the attempt of the send, not by the row.
MarkedFailed(s) ==
  IF s.attempt >= MaxAttempts THEN Marked(s, "failed", FALSE) ELSE Marked(s, "retry_wait", TRUE)

MarkSent(s) ==
  /\ s.step = "sent"
  /\ mails' = MarkedSent(s) /\ sends' = sends \ {s}
  /\ UNCHANGED <<dispatching, copies>>

\* markSent throws, the row written or not, inside the same try: the mail has gone,
\* and a failure is recorded.
MarkSentThrows(s) ==
  /\ s.step = "sent"
  /\ mails' \in {mails, MarkedSent(s)} /\ Goes(s, "failing")
  /\ UNCHANGED <<dispatching, copies>>

MarkFailed(s) ==
  /\ s.step = "failing"
  /\ mails' = MarkedFailed(s) /\ sends' = sends \ {s}
  /\ UNCHANGED <<dispatching, copies>>

\* markFailed throws, the row written or not: the run ends with its first rejection,
\* and nobody waits for the sends it leaves behind.
MarkFailedThrows(s) ==
  /\ s.step = "failing"
  /\ LET others == sends \ {s}
         left == {o \in others : s.awaited /\ o.worker = s.worker /\ o.awaited}
     IN  sends' = (others \ left) \cup {[o EXCEPT !.awaited = FALSE] : o \in left}
  /\ mails' \in {mails, MarkedFailed(s)}
  /\ dispatching' = IF s.awaited THEN dispatching \ {s.worker} ELSE dispatching
  /\ UNCHANGED copies

RunEnds(p) ==
  /\ p \in dispatching
  /\ \A s \in sends : ~(s.worker = p /\ s.awaited)
  /\ dispatching' = dispatching \ {p}
  /\ UNCHANGED <<mails, sends, copies>>

\* The process dies; the one in its place has no sends.
WorkerDies(p) ==
  /\ p \notin Lasting
  /\ p \in dispatching \/ \E s \in sends : s.worker = p
  /\ dispatching' = dispatching \ {p}
  /\ sends' = {s \in sends : s.worker # p}
  /\ UNCHANGED <<mails, copies>>

-----------------------------------------------------------------------------

Deliver(s) == s \in sends /\ (Send(s) \/ MarkSent(s) \/ MarkFailed(s))

MailNext ==
  \/ \E d \in Deliveries : Enqueue(d) \/ TimePasses(d)
  \/ \E p \in Workers : \/ RunEnds(p) \/ WorkerDies(p)
                        \/ \E D \in SUBSET Deliveries : Claim(p, D)
  \/ \E s \in sends : Deliver(s) \/ MarkSentThrows(s) \/ MarkFailedThrows(s)

\* Time passes; the timer of a process that lasts claims again and again, the
\* oldest delivery first; a call of the mail server or of the database ends, in a
\* failure or not, unless its process dies.
MailFairness ==
  /\ \A d \in Deliveries : WF_mailVars(TimePasses(d))
  /\ \A p \in Lasting :
       /\ WF_mailVars(RunEnds(p))
       /\ \A d \in Deliveries :
            SF_mailVars(\E D \in SUBSET Deliveries : d \in D /\ Claim(p, D))
  /\ \A s \in Sends : WF_mailVars(Deliver(s))

MailSpec == MailInit /\ [][MailNext]_mailVars /\ MailFairness

-----------------------------------------------------------------------------
(***************************************************************************)
(* Properties                                                              *)
(***************************************************************************)

Settled(d) == mails[d].status \in {"sent", "failed"}

\* What a row says has happened: a sent mail was taken by the mail server, a failed
\* one was tried as often as allowed, and no mail is sent more often than it was
\* attempted, although attempts of one delivery overlap and forget each other.
DeliveriesAreTrue ==
  /\ MailTypeOK
  /\ \A d \in Deliveries :
       /\ mails[d].status = "sent" => copies[d] > 0
       /\ mails[d].status = "failed" => mails[d].attempts = MaxAttempts
       /\ copies[d] + Cardinality({s \in sends : s.delivery = d /\ s.step = "sending"})
            <= mails[d].attempts

\* The last attempt is over and its outcome was not recorded: no claim takes the
\* delivery up again.
Stranded(d) ==
  /\ mails[d].attempts = MaxAttempts
  /\ ~Settled(d)
  /\ \A s \in sends : s.delivery = d => s.attempt < MaxAttempts

\* A queued mail is sent or given up, whichever processes die and whatever fails,
\* unless it is the recording of the last attempt that fails.
DeliveriesSettle ==
  \A d \in Deliveries : mails[d].status = "pending" ~> Settled(d) \/ Stranded(d)

=============================================================================
