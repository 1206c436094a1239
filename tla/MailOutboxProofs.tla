-------------------------- MODULE MailOutboxProofs --------------------------
(***************************************************************************)
(* Theorems about MailOutbox for every value of its constants.             *)
(***************************************************************************)
EXTENDS MailOutbox, FiniteSetTheorems, TLAPS

-----------------------------------------------------------------------------
(* The inductive invariant *)

\* The attempts of a delivery that are in the hands of the mail server.
Sending(d) == {s \in sends : s.delivery = d /\ s.step = "sending"}

\* No send is ahead of its row, and one that the mail server accepted has left a
\* copy there.
SendsAreCounted ==
  \A s \in sends : /\ s.attempt <= mails[s.delivery].attempts
                   /\ s.step = "sent" => copies[s.delivery] > 0

MailInv ==
  /\ DeliveriesAreTrue /\ SendsAreCounted
  /\ \A d \in Deliveries : IsFiniteSet(Sending(d))

LEMMA RowFields ==
  ASSUME MailInv, NEW d \in Deliveries
  PROVE  /\ mails[d] \in Mails
         /\ mails[d].status \in {"absent", "pending", "leased", "retry_wait", "sent", "failed"}
         /\ mails[d].attempts \in 0..MaxAttempts /\ mails[d].attempts \in Nat
         /\ mails[d].owner \in Workers \cup {NoWorker} /\ mails[d].waiting \in BOOLEAN
         /\ copies[d] \in Nat /\ MaxAttempts \in Nat
         /\ mails[d].status = "sent" => copies[d] > 0
         /\ mails[d].status = "failed" => mails[d].attempts = MaxAttempts
         /\ IsFiniteSet(Sending(d)) /\ Cardinality(Sending(d)) \in Nat
         /\ copies[d] + Cardinality(Sending(d)) <= mails[d].attempts
  <1>1. MaxAttempts \in Nat
    BY MailAssumption
  <1>2. /\ mails[d] \in Mails /\ copies[d] \in 0..MaxAttempts
        /\ mails[d].status = "sent" => copies[d] > 0
        /\ mails[d].status = "failed" => mails[d].attempts = MaxAttempts
        /\ IsFiniteSet(Sending(d))
    BY DEF MailInv, DeliveriesAreTrue, MailTypeOK
  <1>3. copies[d] + Cardinality(Sending(d)) <= mails[d].attempts
    BY DEF MailInv, DeliveriesAreTrue, Sending
  <1>4. Cardinality(Sending(d)) \in Nat
    BY <1>2, FS_CardinalityType
  <1> QED
    BY <1>1, <1>2, <1>3, <1>4 DEF Mails

LEMMA SendFields ==
  ASSUME MailInv, NEW s \in sends
  PROVE  /\ s \in Sends /\ s.worker \in Workers /\ s.delivery \in Deliveries
         /\ s.attempt \in 1..MaxAttempts /\ s.step \in {"sending", "sent", "failing"}
         /\ s.awaited \in BOOLEAN
         /\ s.attempt <= mails[s.delivery].attempts
         /\ s.step = "sent" => copies[s.delivery] > 0
  BY DEF MailInv, DeliveriesAreTrue, MailTypeOK, SendsAreCounted, Sends

-----------------------------------------------------------------------------
(* Counting *)

\* The invariant after a step, delivery by delivery.
LEMMA CountsKeep ==
  ASSUME MailInv,
         mails' \in [Deliveries -> Mails], dispatching' \subseteq Workers,
         sends' \subseteq Sends, copies' \in [Deliveries -> Nat],
         \A s \in sends' : /\ s.attempt <= mails'[s.delivery].attempts
                           /\ s.step = "sent" => copies'[s.delivery] > 0,
         \A d \in Deliveries :
           /\ mails'[d].status = "sent" => copies'[d] > 0
           /\ mails'[d].status = "failed" => mails'[d].attempts = MaxAttempts
           /\ IsFiniteSet(Sending(d)')
           /\ copies'[d] + Cardinality(Sending(d)') <= mails'[d].attempts
  PROVE  MailInv'
  <1>1. \A d \in Deliveries : copies'[d] \in 0..MaxAttempts
    <2> TAKE d \in Deliveries
    <2>1. Cardinality(Sending(d)') \in Nat
      BY FS_CardinalityType
    <2>2. mails'[d].attempts \in 0..MaxAttempts /\ MaxAttempts \in Nat
      BY MailAssumption DEF Mails
    <2> QED
      BY <2>1, <2>2
  <1>2. MailTypeOK'
    BY <1>1 DEF MailTypeOK
  <1>3. DeliveriesAreTrue'
    BY <1>2 DEF DeliveriesAreTrue, Sending
  <1>4. SendsAreCounted'
    BY DEF SendsAreCounted
  <1> QED
    BY <1>3, <1>4 DEF MailInv

\* No send is added and nothing is copied; rows keep their attempts, and are
\* settled only for cause.
LEMMA RowsKeep ==
  ASSUME MailInv,
         mails' \in [Deliveries -> Mails], dispatching' \subseteq Workers,
         sends' \subseteq sends, UNCHANGED copies,
         \A d \in Deliveries :
           /\ mails'[d].attempts = mails[d].attempts
           /\ \/ mails'[d].status = mails[d].status
              \/ mails'[d].status \notin {"sent", "failed"}
              \/ mails'[d].status = "sent" /\ copies[d] > 0
              \/ mails'[d].status = "failed" /\ mails[d].attempts = MaxAttempts
  PROVE  MailInv'
  <1>1. sends' \subseteq Sends /\ copies' \in [Deliveries -> Nat]
    BY RowFields DEF MailInv, DeliveriesAreTrue, MailTypeOK
  <1>2. \A s \in sends' : /\ s.attempt <= mails'[s.delivery].attempts
                          /\ s.step = "sent" => copies'[s.delivery] > 0
    BY SendFields
  <1>3. \A d \in Deliveries : /\ IsFiniteSet(Sending(d)')
                              /\ copies'[d] + Cardinality(Sending(d)') <= mails'[d].attempts
    <2> TAKE d \in Deliveries
    <2>1. Sending(d)' \subseteq Sending(d)
      BY DEF Sending
    <2>2. /\ IsFiniteSet(Sending(d)') /\ Cardinality(Sending(d)') <= Cardinality(Sending(d))
          /\ Cardinality(Sending(d)') \in Nat
      BY <2>1, RowFields, FS_Subset, FS_CardinalityType
    <2> QED
      BY <2>2, RowFields
  <1>4. \A d \in Deliveries :
           /\ mails'[d].status = "sent" => copies'[d] > 0
           /\ mails'[d].status = "failed" => mails'[d].attempts = MaxAttempts
    BY RowFields
  <1> QED
    BY <1>1, <1>2, <1>3, <1>4, CountsKeep

LEMMA QueueKeeps ==
  ASSUME MailInv, NEW d \in Deliveries, Enqueue(d) \/ TimePasses(d)
  PROVE  MailInv'
  <1>1. PICK row \in Mails :
          /\ mails' = [mails EXCEPT ![d] = row]
          /\ row.attempts = mails[d].attempts
          /\ row.status \in {mails[d].status, "pending"}
    <2>1. CASE Enqueue(d)
      <3> DEFINE row == [mails[d] EXCEPT !.status = "pending"]
      <3>1. row \in Mails /\ row.attempts = mails[d].attempts /\ row.status = "pending"
        BY RowFields DEF Mails
      <3>2. mails' = [mails EXCEPT ![d] = row]
        BY <2>1 DEF Enqueue
      <3> HIDE DEF row
      <3> QED
        BY <3>1, <3>2
    <2>2. CASE TimePasses(d)
      <3> DEFINE row == [mails[d] EXCEPT !.waiting = FALSE]
      <3>1. row \in Mails /\ row.attempts = mails[d].attempts /\ row.status = mails[d].status
        BY RowFields DEF Mails
      <3>2. mails' = [mails EXCEPT ![d] = row]
        BY <2>2 DEF TimePasses
      <3> HIDE DEF row
      <3> QED
        BY <3>1, <3>2
    <2> QED
      BY <2>1, <2>2
  <1>2. mails \in [Deliveries -> Mails] /\ dispatching \subseteq Workers
    BY DEF MailInv, DeliveriesAreTrue, MailTypeOK
  <1>3. UNCHANGED <<dispatching, sends, copies>>
    BY DEF Enqueue, TimePasses
  <1> QED
    BY <1>1, <1>2, <1>3, RowsKeep

LEMMA RunsKeep ==
  ASSUME MailInv, NEW p \in Workers, RunEnds(p) \/ WorkerDies(p)
  PROVE  MailInv'
  <1>1. /\ mails' \in [Deliveries -> Mails] /\ dispatching' \subseteq Workers
        /\ sends' \subseteq sends /\ UNCHANGED <<mails, copies>>
    BY DEF RunEnds, WorkerDies, MailInv, DeliveriesAreTrue, MailTypeOK
  <1> QED
    BY <1>1, RowsKeep

\* Rows that keep their attempts, and are settled only for cause.
RowsAreTrue(rows) ==
  /\ rows \in [Deliveries -> Mails]
  /\ \A d \in Deliveries :
       /\ rows[d].attempts = mails[d].attempts
       /\ \/ rows[d].status = mails[d].status
          \/ rows[d].status \notin {"sent", "failed"}
          \/ rows[d].status = "sent" /\ copies[d] > 0
          \/ rows[d].status = "failed" /\ mails[d].attempts = MaxAttempts

\* What a send records is true of its delivery.
LEMMA MarkIsTrue ==
  ASSUME MailInv, NEW s \in sends, NEW status \in {"retry_wait", "sent", "failed"},
         NEW waiting \in BOOLEAN,
         \/ status = "retry_wait"
         \/ status = "sent" /\ copies[s.delivery] > 0
         \/ status = "failed" /\ mails[s.delivery].attempts = MaxAttempts
  PROVE  RowsAreTrue(Marked(s, status, waiting))
  <1> DEFINE d == s.delivery
             row == [mails[d] EXCEPT !.status = status, !.owner = NoWorker, !.waiting = waiting]
             rows == Marked(s, status, waiting)
  <1>1. d \in Deliveries
    BY SendFields
  <1>2. row \in Mails /\ row.attempts = mails[d].attempts /\ row.status = status
    <2>1. /\ mails[d] \in [status : {"absent", "pending", "leased", "retry_wait", "sent", "failed"},
                          attempts : 0..MaxAttempts, owner : Workers \cup {NoWorker},
                          waiting : BOOLEAN]
      BY <1>1, RowFields DEF Mails
    <2> QED
      BY <2>1 DEF Mails
  <1>3. rows = IF Holds(s) THEN [mails EXCEPT ![d] = row] ELSE mails
    BY DEF Marked
  <1>4. mails \in [Deliveries -> Mails]
    BY DEF MailInv, DeliveriesAreTrue, MailTypeOK
  <1> HIDE DEF row, rows
  <1>5. /\ rows \in [Deliveries -> Mails]
        /\ \A e \in Deliveries :
           /\ rows[e].attempts = mails[e].attempts
           /\ \/ rows[e].status = mails[e].status
              \/ e = d /\ rows[e].status = status
    BY <1>1, <1>2, <1>3, <1>4
  <1>6. RowsAreTrue(rows)
    BY <1>1, <1>5 DEF RowsAreTrue
  <1> QED
    BY <1>6 DEF rows

LEMMA MarksAreTrue ==
  ASSUME MailInv, NEW s \in sends
  PROVE  /\ RowsAreTrue(mails)
         /\ s.step = "sent" => RowsAreTrue(MarkedSent(s))
         /\ RowsAreTrue(MarkedFailed(s))
  <1>1. RowsAreTrue(mails)
    BY DEF RowsAreTrue, MailInv, DeliveriesAreTrue, MailTypeOK
  <1>2. s.step = "sent" => RowsAreTrue(MarkedSent(s))
    BY SendFields, MarkIsTrue DEF MarkedSent
  <1>3. CASE s.attempt >= MaxAttempts
    <2>1. mails[s.delivery].attempts = MaxAttempts
      BY <1>3, SendFields, RowFields
    <2> QED
      BY <1>1, <1>2, <1>3, <2>1, MarkIsTrue DEF MarkedFailed
  <1>4. CASE ~(s.attempt >= MaxAttempts)
    BY <1>1, <1>2, <1>4, MarkIsTrue DEF MarkedFailed
  <1> QED
    BY <1>3, <1>4

LEMMA MarkKeeps ==
  ASSUME MailInv, NEW s \in sends, MarkSent(s) \/ MarkFailed(s)
  PROVE  MailInv'
  <1>1. /\ RowsAreTrue(mails') /\ sends' \subseteq sends
        /\ UNCHANGED <<dispatching, copies>>
    BY MarksAreTrue DEF MarkSent, MarkFailed
  <1>2. dispatching' \subseteq Workers
    BY <1>1 DEF MailInv, DeliveriesAreTrue, MailTypeOK
  <1> QED
    BY <1>1, <1>2, RowsKeep DEF RowsAreTrue

-----------------------------------------------------------------------------
(* Sends *)

\* A send that was in the hands of the mail server leaves them; one copy may have
\* been taken for it.
LEMMA SendKeeps ==
  ASSUME MailInv, NEW s \in sends, Send(s)
  PROVE  MailInv'
  <1> DEFINE d == s.delivery
  <1>1. d \in Deliveries /\ s \in Sending(d) /\ s.step = "sending"
    BY SendFields DEF Send, Sending
  <1>2. PICK step \in {"sent", "failing"} :
          /\ sends' = (sends \ {s}) \cup {[s EXCEPT !.step = step]}
          /\ \/ copies' = [copies EXCEPT ![d] = @ + 1]
             \/ copies' = copies /\ step = "failing"
          /\ UNCHANGED <<mails, dispatching>>
    BY DEF Send, Goes
  <1> DEFINE t == [s EXCEPT !.step = step]
  <1>3. /\ t \in Sends /\ t.delivery = d /\ t.step = step /\ t.attempt = s.attempt
    BY SendFields DEF Sends
  <1>4. sends' = (sends \ {s}) \cup {t}
    BY <1>2
  <1> HIDE DEF t
  <1>5. /\ copies' \in [Deliveries -> Nat] /\ copies'[d] <= copies[d] + 1
        /\ \A e \in Deliveries : /\ copies'[e] >= copies[e]
                                 /\ e # d => copies'[e] = copies[e]
        /\ step = "sent" => copies'[d] > 0
    <2>1. copies \in [Deliveries -> Nat]
      BY RowFields DEF MailInv, DeliveriesAreTrue, MailTypeOK
    <2> QED
      BY <1>1, <1>2, <2>1
  <1>6. /\ mails' \in [Deliveries -> Mails] /\ dispatching' \subseteq Workers
        /\ sends' \subseteq Sends
    BY <1>2, <1>3, <1>4 DEF MailInv, DeliveriesAreTrue, MailTypeOK
  <1>7. \A r \in sends' : /\ r.attempt <= mails'[r.delivery].attempts
                          /\ r.step = "sent" => copies'[r.delivery] > 0
    <2> TAKE r \in sends'
    <2>1. CASE r = t
      BY <1>2, <1>3, <1>5, <2>1, SendFields
    <2>2. CASE r \in sends
      <3>1. /\ r.delivery \in Deliveries /\ r.attempt <= mails[r.delivery].attempts
            /\ r.step = "sent" => copies[r.delivery] > 0
        BY <2>2, SendFields
      <3>2. copies[r.delivery] \in Nat /\ copies'[r.delivery] \in Nat
        BY <1>5, <3>1, RowFields
      <3> QED
        BY <1>2, <1>5, <3>1, <3>2
    <2> QED
      BY <1>4, <2>1, <2>2
  <1>8. \A e \in Deliveries : /\ IsFiniteSet(Sending(e)')
                              /\ copies'[e] + Cardinality(Sending(e)') <= mails'[e].attempts
    <2> TAKE e \in Deliveries
    <2>1. CASE e # d
      <3>1. Sending(e)' = Sending(e)
        BY <1>3, <1>4, <2>1 DEF Sending
      <3> QED
        BY <1>2, <1>5, <2>1, <3>1, RowFields
    <2>2. CASE e = d
      <3>1. Sending(d)' = Sending(d) \ {s}
        BY <1>2, <1>3, <1>4 DEF Sending
      <3>2. /\ IsFiniteSet(Sending(d) \ {s})
            /\ Cardinality(Sending(d) \ {s}) = Cardinality(Sending(d)) - 1
        BY <1>1, RowFields, FS_RemoveElement
      <3>3. copies'[d] \in Nat
        BY <1>1, <1>5
      <3> QED
        BY <1>1, <1>2, <1>5, <2>2, <3>1, <3>2, <3>3, RowFields
    <2> QED
      BY <2>1, <2>2
  <1>9. \A e \in Deliveries :
           /\ mails'[e].status = "sent" => copies'[e] > 0
           /\ mails'[e].status = "failed" => mails'[e].attempts = MaxAttempts
    <2> TAKE e \in Deliveries
    <2>1. copies[e] \in Nat /\ copies'[e] \in Nat /\ copies'[e] >= copies[e]
      BY <1>5, RowFields
    <2> QED
      BY <1>2, <2>1, RowFields
  <1> QED
    BY <1>5, <1>6, <1>7, <1>8, <1>9, CountsKeep

\* Sends change in what the row is not judged by: a sent mail is to be retried, or
\* nobody waits for the send any more.  Rows may have been marked.
LEMMA SendsChange ==
  ASSUME MailInv, dispatching' \subseteq Workers, RowsAreTrue(mails'), UNCHANGED copies,
         sends' \subseteq Sends,
         \A t \in sends' : \E s \in sends : /\ t.delivery = s.delivery /\ t.attempt = s.attempt
                                            /\ t.step \in {s.step, "failing"},
         \A d \in Deliveries : IsFiniteSet(Sending(d)')
                               /\ Cardinality(Sending(d)') <= Cardinality(Sending(d))
  PROVE  MailInv'
  <1>1. /\ mails' \in [Deliveries -> Mails] /\ copies' \in [Deliveries -> Nat]
        /\ \A d \in Deliveries : mails'[d].attempts = mails[d].attempts
    BY RowFields DEF RowsAreTrue, MailInv, DeliveriesAreTrue, MailTypeOK
  <1>2. \A t \in sends' : /\ t.attempt <= mails'[t.delivery].attempts
                          /\ t.step = "sent" => copies'[t.delivery] > 0
    BY <1>1, SendFields
  <1>3. \A d \in Deliveries : /\ IsFiniteSet(Sending(d)')
                              /\ copies'[d] + Cardinality(Sending(d)') <= mails'[d].attempts
    BY <1>1, RowFields, FS_CardinalityType
  <1>4. \A d \in Deliveries :
           /\ mails'[d].status = "sent" => copies'[d] > 0
           /\ mails'[d].status = "failed" => mails'[d].attempts = MaxAttempts
    BY RowFields DEF RowsAreTrue
  <1> QED
    BY <1>1, <1>2, <1>3, <1>4, CountsKeep

LEMMA MarkSentThrowsKeeps ==
  ASSUME MailInv, NEW s \in sends, MarkSentThrows(s)
  PROVE  MailInv'
  <1> DEFINE t == [s EXCEPT !.step = "failing"]
  <1>1. /\ t \in Sends /\ t.delivery = s.delivery /\ t.step = "failing" /\ t.attempt = s.attempt
    BY SendFields DEF Sends
  <1>2. /\ sends' = (sends \ {s}) \cup {t} /\ UNCHANGED <<dispatching, copies>>
        /\ RowsAreTrue(mails')
    BY MarksAreTrue DEF MarkSentThrows, Goes
  <1> HIDE DEF t
  <1>3. sends' \subseteq Sends /\ dispatching' \subseteq Workers
    BY <1>1, <1>2 DEF MailInv, DeliveriesAreTrue, MailTypeOK
  <1>4. \A r \in sends' : \E o \in sends : /\ r.delivery = o.delivery /\ r.attempt = o.attempt
                                           /\ r.step \in {o.step, "failing"}
    BY <1>1, <1>2
  <1>5. \A d \in Deliveries : IsFiniteSet(Sending(d)')
                              /\ Cardinality(Sending(d)') <= Cardinality(Sending(d))
    <2> TAKE d \in Deliveries
    <2>1. Sending(d)' \subseteq Sending(d)
      BY <1>1, <1>2 DEF Sending
    <2> QED
      BY <2>1, RowFields, FS_Subset
  <1> QED
    BY <1>2, <1>3, <1>4, <1>5, SendsChange

\* Nobody waits for the sends a failed run leaves behind: they are as many as before.
LEMMA MarkFailedThrowsKeeps ==
  ASSUME MailInv, NEW s \in sends, MarkFailedThrows(s)
  PROVE  MailInv'
  <1> DEFINE others == sends \ {s}
             left == {o \in others : s.awaited /\ o.worker = s.worker /\ o.awaited}
             forgotten(o) == [o EXCEPT !.awaited = FALSE]
  <1>1. /\ sends' = (others \ left) \cup {forgotten(o) : o \in left}
        /\ dispatching' \subseteq dispatching /\ RowsAreTrue(mails') /\ UNCHANGED copies
    BY MarksAreTrue DEF MarkFailedThrows
  <1>2. \A o \in sends : /\ forgotten(o) \in Sends /\ forgotten(o).delivery = o.delivery
                         /\ forgotten(o).step = o.step /\ forgotten(o).attempt = o.attempt
    BY SendFields DEF Sends
  <1>3. left \subseteq others /\ others \subseteq sends /\ dispatching \subseteq Workers
    BY DEF MailInv, DeliveriesAreTrue, MailTypeOK
  <1> DEFINE now(o) == IF o \in left THEN forgotten(o) ELSE o
  <1>4. /\ \A o \in others : now(o) \in sends'
        /\ \A t \in sends' : \E o \in others : t = now(o)
        /\ \A o \in sends : /\ now(o) \in Sends /\ now(o).delivery = o.delivery
                            /\ now(o).step = o.step /\ now(o).attempt = o.attempt
    <2> HIDE DEF left, others, forgotten
    <2>1. \A o \in sends : o \in Sends
      BY SendFields
    <2> QED
      BY <1>1, <1>2, <1>3, <2>1
  <1> HIDE DEF now, left, forgotten
  <1>5. sends' \subseteq Sends /\ dispatching' \subseteq Workers
    BY <1>1, <1>3, <1>4
  <1>6. \A t \in sends' : \E o \in sends : /\ t.delivery = o.delivery /\ t.attempt = o.attempt
                                           /\ t.step \in {o.step, "failing"}
    BY <1>4
  <1>7. \A d \in Deliveries : IsFiniteSet(Sending(d)')
                              /\ Cardinality(Sending(d)') <= Cardinality(Sending(d))
    <2> TAKE d \in Deliveries
    <2> DEFINE before == Sending(d) \ {s}
               after == Sending(d)'
               f == [o \in before |-> now(o)]
    <2>1. before \subseteq others
      BY DEF Sending
    <2>2. \A o \in before : now(o) \in after
      BY <1>4, <2>1 DEF Sending
    <2>3. \A t \in after : \E o \in before : now(o) = t
      <3> TAKE t \in after
      <3>1. t \in sends' /\ t.delivery = d /\ t.step = "sending"
        BY DEF Sending
      <3>2. PICK o \in others : t = now(o)
        BY <1>4, <3>1
      <3>3. o \in before
        BY <1>4, <3>1, <3>2 DEF Sending
      <3> QED
        BY <3>2, <3>3
    <2>4. IsFiniteSet(before) /\ Cardinality(before) <= Cardinality(Sending(d))
      BY RowFields, FS_Subset
    <2> HIDE DEF before, after
    <2>5. f \in Surjection(before, after)
      BY <2>2, <2>3 DEF Surjection
    <2>6. IsFiniteSet(after) /\ Cardinality(after) <= Cardinality(before)
      BY <2>4, <2>5, FS_Surjection
    <2>7. Cardinality(after) <= Cardinality(Sending(d))
      BY <2>4, <2>6, RowFields, FS_CardinalityType
    <2> QED
      BY <2>6, <2>7 DEF after
  <1> QED
    BY <1>1, <1>5, <1>6, <1>7, SendsChange

-----------------------------------------------------------------------------
(* Claims *)

\* A claimed delivery is attempted once more, and gets one send for it.
LEMMA ClaimKeeps ==
  ASSUME MailInv, NEW p \in Workers, NEW D \in SUBSET Deliveries, Claim(p, D)
  PROVE  MailInv'
  <1> DEFINE row(d) == [status |-> "leased", attempts |-> mails[d].attempts + 1,
                        owner |-> p, waiting |-> TRUE]
             send(d) == [worker |-> p, delivery |-> d, attempt |-> mails'[d].attempts,
                         step |-> "sending", awaited |-> TRUE]
  <1>1. /\ mails' = [d \in Deliveries |-> IF d \in D THEN row(d) ELSE mails[d]]
        /\ sends' = sends \cup {send(d) : d \in D}
        /\ \A d \in D : mails[d].attempts < MaxAttempts
        /\ dispatching' \subseteq Workers /\ UNCHANGED copies
    BY DEF Claim, Claimable, MailInv, DeliveriesAreTrue, MailTypeOK
  <1>2. \A d \in D : /\ row(d) \in Mails /\ row(d).attempts = mails[d].attempts + 1
                     /\ row(d).status = "leased"
    BY <1>1, RowFields DEF Mails
  <1>3. \A d \in D : /\ send(d).delivery = d /\ send(d).step = "sending"
                     /\ send(d).attempt = mails'[d].attempts
    OBVIOUS
  <1>4. \A d \in D : mails'[d].attempts \in 1..MaxAttempts => send(d) \in Sends
    BY DEF Sends
  <1> HIDE DEF row, send
  <1>5. /\ mails' \in [Deliveries -> Mails]
        /\ \A d \in D : /\ mails'[d].attempts = mails[d].attempts + 1
                        /\ mails'[d].status = "leased"
        /\ \A d \in Deliveries \ D : mails'[d] = mails[d]
    BY <1>1, <1>2, RowFields
  <1>6. \A d \in D : send(d) \in Sends
    <2> TAKE d \in D
    <2>1. mails[d].attempts \in Nat /\ MaxAttempts \in Nat /\ d \in Deliveries
      BY RowFields
    <2>2. mails'[d].attempts = mails[d].attempts + 1 /\ mails[d].attempts < MaxAttempts
      BY <1>1, <1>5
    <2>3. mails'[d].attempts \in 1..MaxAttempts
      BY <2>1, <2>2
    <2> QED
      BY <1>4, <2>3
  <1>7. sends' \subseteq Sends /\ copies' \in [Deliveries -> Nat]
    BY <1>1, <1>6, RowFields DEF MailInv, DeliveriesAreTrue, MailTypeOK
  <1>8. \A s \in sends' : /\ s.attempt <= mails'[s.delivery].attempts
                          /\ s.step = "sent" => copies'[s.delivery] > 0
    <2> TAKE s \in sends'
    <2>1. CASE s \in sends
      <3>1. /\ s.delivery \in Deliveries /\ s.attempt <= mails[s.delivery].attempts
            /\ s.attempt \in 1..MaxAttempts
            /\ s.step = "sent" => copies[s.delivery] > 0
        BY <2>1, SendFields
      <3>2. mails[s.delivery].attempts \in Nat /\ MaxAttempts \in Nat
        BY <3>1, RowFields
      <3>3. \/ mails'[s.delivery].attempts = mails[s.delivery].attempts
            \/ mails'[s.delivery].attempts = mails[s.delivery].attempts + 1
        BY <1>5, <3>1
      <3> QED
        BY <1>1, <3>1, <3>2, <3>3
    <2>2. ASSUME NEW d \in D, s = send(d)
          PROVE  /\ s.attempt <= mails'[s.delivery].attempts
                 /\ s.step = "sent" => copies'[s.delivery] > 0
      BY <1>3, <1>5, <2>2, RowFields
    <2> QED
      BY <1>1, <2>1, <2>2
  <1>9. \A d \in Deliveries :
           /\ mails'[d].status = "sent" => copies'[d] > 0
           /\ mails'[d].status = "failed" => mails'[d].attempts = MaxAttempts
           /\ IsFiniteSet(Sending(d)')
           /\ copies'[d] + Cardinality(Sending(d)') <= mails'[d].attempts
    <2> TAKE d \in Deliveries
    <2>1. CASE d \in D
      <3>1. Sending(d)' = Sending(d) \cup {send(d)}
        BY <1>1, <1>3, <2>1 DEF Sending
      <3>2. /\ IsFiniteSet(Sending(d)')
            /\ Cardinality(Sending(d)') <= Cardinality(Sending(d)) + 1
            /\ Cardinality(Sending(d)') \in Nat
        <4>1. IsFiniteSet(Sending(d)) /\ Cardinality(Sending(d)) \in Nat
          BY RowFields
        <4>2. \A x : /\ IsFiniteSet(Sending(d) \cup {x})
                     /\ Cardinality(Sending(d) \cup {x}) <= Cardinality(Sending(d)) + 1
          BY <4>1, FS_AddElement
        <4> QED
          BY <3>1, <4>2, FS_CardinalityType
      <3>3. /\ mails'[d].attempts = mails[d].attempts + 1 /\ mails'[d].status = "leased"
            /\ copies'[d] = copies[d]
        BY <1>1, <1>5, <2>1
      <3>4. /\ copies[d] \in Nat /\ Cardinality(Sending(d)) \in Nat /\ mails[d].attempts \in Nat
            /\ copies[d] + Cardinality(Sending(d)) <= mails[d].attempts
        BY RowFields
      <3> QED
        BY <3>2, <3>3, <3>4
    <2>2. CASE d \notin D
      <3>1. Sending(d)' = Sending(d)
        BY <1>1, <1>3, <2>2 DEF Sending
      <3> QED
        BY <1>1, <1>5, <2>2, <3>1, RowFields
    <2> QED
      BY <2>1, <2>2
  <1> QED
    BY <1>1, <1>5, <1>7, <1>8, <1>9, CountsKeep

-----------------------------------------------------------------------------
(* The specification *)

LEMMA MailStepKeeps ==
  ASSUME MailInv, [MailNext]_mailVars
  PROVE  MailInv'
  <1>1. CASE UNCHANGED mailVars
    BY <1>1 DEF mailVars, MailInv, DeliveriesAreTrue, MailTypeOK, SendsAreCounted, Sending
  <1>2. ASSUME NEW d \in Deliveries, Enqueue(d) \/ TimePasses(d)
        PROVE  MailInv'
    BY <1>2, QueueKeeps
  <1>3. ASSUME NEW p \in Workers,
               RunEnds(p) \/ WorkerDies(p) \/ \E D \in SUBSET Deliveries : Claim(p, D)
        PROVE  MailInv'
    BY <1>3, RunsKeep, ClaimKeeps
  <1>4. ASSUME NEW s \in sends, Deliver(s) \/ MarkSentThrows(s) \/ MarkFailedThrows(s)
        PROVE  MailInv'
    BY <1>4, SendKeeps, MarkKeeps, MarkSentThrowsKeeps, MarkFailedThrowsKeeps DEF Deliver
  <1> QED
    BY <1>1, <1>2, <1>3, <1>4 DEF MailNext

LEMMA MailInitKeeps == MailInit => MailInv
  <1> SUFFICES ASSUME MailInit
               PROVE  MailInv
    OBVIOUS
  <1>1. MaxAttempts \in Nat
    BY MailAssumption
  <1>2. MailTypeOK
    BY <1>1 DEF MailInit, MailTypeOK, Mails
  <1>3. \A d \in Deliveries : Sending(d) = {}
    BY DEF MailInit, Sending
  <1>4. \A d \in Deliveries :
          IsFiniteSet(Sending(d)) /\ copies[d] + Cardinality(Sending(d)) <= mails[d].attempts
    BY <1>3, FS_EmptySet DEF MailInit
  <1>5. DeliveriesAreTrue
    BY <1>2, <1>4 DEF MailInit, DeliveriesAreTrue, Sending
  <1>6. SendsAreCounted
    BY DEF MailInit, SendsAreCounted
  <1> QED
    BY <1>4, <1>5, <1>6 DEF MailInv

\* What the rows of the outbox say has happened: a sent mail was taken by the mail
\* server, a failed one was tried as often as allowed, and there are never more
\* copies and sends under way than attempts.  This holds for any number of
\* processes, deliveries and attempts, while sends of one delivery overlap.
THEOREM OutboxIsTrue == MailSpec => []DeliveriesAreTrue
  <1>1. MailInv => DeliveriesAreTrue
    BY DEF MailInv
  <1> QED
    BY <1>1, MailInitKeeps, MailStepKeeps, PTL DEF MailSpec

=============================================================================
