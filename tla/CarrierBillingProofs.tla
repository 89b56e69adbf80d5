------------------------ MODULE CarrierBillingProofs ------------------------
(***************************************************************************)
(* Proofs about CarrierBilling, for any number of connections, payments    *)
(* and validation attempts.                                                *)
(***************************************************************************)
EXTENDS CarrierBilling, TLAPS, FiniteSetTheorems

Creating == {"charged", "stash", "pending"}

\* An id that was not minted yet has left no trace anywhere.
AbsentInv ==
    \A p \in Payment : payment[p].status = "absent" =>
        /\ payment[p] = Absent
        /\ pending[p] = 0 /\ target[p] = "none" /\ wants[p] = "none" /\ wrong[p] = 0
        /\ \A e \in events : e.payment # p
        /\ \A c \in Client : task[c].pc # "idle" => task[c].id # p

\* What each handler may rely on between two of its steps.
Relies(pc, p) ==
    /\ p \in Payment
    /\ pc = "charged" => payment[p].status = "succeeded"
    /\ pc \in {"charged", "stash"} => target[p] = "none" /\ ~Announced(p)
    /\ pc = "stash" => wants[p] # "none"
    /\ pc \in Creating => pending[p] = 0
    /\ pc \in Creating /\ payment[p].validationInfo => wrong[p] = 0
    /\ pc = "settled" => payment[p].status \in Settled

TaskInv == \A c \in Client : task[c].pc # "idle" => Relies(task[c].pc, task[c].id)

\* No two handlers are at the same kind of work on the same payment.
OwnerInv ==
    \A c, d \in Client : task[c].id = task[d].id =>
        /\ task[c].pc \in Creating /\ task[d].pc \in Creating => c = d
        /\ task[c].pc = "settled" /\ task[d].pc = "settled" => c = d

TargetInv ==
    \A p \in Payment : target[p] # "none" => target[p] = wants[p]

\* An event that reports an outcome reports the payment's.
OutcomeInv ==
    \A e \in events : Outcome(e) => payment[e.payment].status = e.status

Inv ==
    /\ TypeOK /\ AbsentInv /\ TaskInv /\ OwnerInv /\ TargetInv /\ OutcomeInv
    /\ RenderedCoherently /\ OtpBudget /\ NothingStuck /\ TargetUsedOnce
    /\ NoticesAuthenticated

LEMMA InitInv == Init => Inv
  <1> SUFFICES ASSUME Init PROVE Inv
    OBVIOUS
  <1> USE ConstantsAssumption DEF Init
  <1>1. TypeOK
    BY FS_EmptySet DEF TypeOK, Absent, Idle, Task, Rendered, Status, Callback
  <1>2. AbsentInv /\ TaskInv /\ OwnerInv /\ TargetInv /\ OutcomeInv
    BY DEF AbsentInv, TaskInv, OwnerInv, TargetInv, OutcomeInv, Absent, Idle, Creating
  <1>3. RenderedCoherently /\ OtpBudget /\ NothingStuck
    BY DEF RenderedCoherently, OtpBudget, NothingStuck, Absent
  <1>4. TargetUsedOnce /\ NoticesAuthenticated
    BY DEF TargetUsedOnce, NoticesAuthenticated, Announced
  <1> QED BY <1>1, <1>2, <1>3, <1>4 DEF Inv

\* What the two handlers that mint an id have in common.
LEMMA MintStep ==
  ASSUME Inv, NEW c \in Client, NEW p \in Payment, NEW callback \in Callback,
         NEW r \in Rendered, NEW pc \in Creating,
         r \in {[status |-> "succeeded", paymentDate |-> TRUE, validationInfo |-> FALSE],
                [status |-> "reserved", paymentDate |-> FALSE, validationInfo |-> FALSE],
                [status |-> "pending_validation", paymentDate |-> FALSE, validationInfo |-> TRUE]},
         r.status = "succeeded" <=> pc = "charged",
         pc = "stash" => callback # "none",
         pc = "pending" => callback = "none",
         task[c] = Idle, payment[p] = Absent,
         payment' = [payment EXCEPT ![p] = r],
         wants' = [wants EXCEPT ![p] = callback],
         task' = [task EXCEPT ![c] = At(pc, p)],
         UNCHANGED <<pending, target, wrong, known, events, inflight>>
  PROVE  Inv'
  <1> USE DEF Inv
  <1>1. /\ payment[p].status = "absent" /\ pending[p] = 0 /\ target[p] = "none" /\ wrong[p] = 0
        /\ \A e \in events : e.payment # p
        /\ \A d \in Client : task[d].pc # "idle" => task[d].id # p
    BY DEF AbsentInv, Absent
  <1>2. /\ payment'[p] = r /\ r.status # "absent"
        /\ \A q \in Payment \ {p} : payment'[q] = payment[q] /\ wants'[q] = wants[q]
    BY DEF TypeOK
  <1>3. task'[c] = [pc |-> pc, id |-> p] /\ \A d \in Client \ {c} : task'[d] = task[d]
    BY DEF TypeOK, At
  <1>4. TypeOK'
    BY DEF TypeOK, Task, At, Creating
  <1>5. AbsentInv'
    BY <1>1, <1>2, <1>3 DEF AbsentInv, Idle
  <1>6. TaskInv'
    <2>1. Relies(pc, p)'
      BY <1>1, <1>2 DEF Relies, Announced, Creating, TypeOK
    <2>2. \A d \in Client \ {c} : task[d].pc # "idle" => Relies(task[d].pc, task[d].id)'
      BY <1>1, <1>2, <1>3 DEF TaskInv, Relies, Announced
    <2> QED BY <1>3, <2>1, <2>2 DEF TaskInv
  <1>7. OwnerInv'
    BY <1>1, <1>3 DEF OwnerInv, Creating
  <1>8. TargetInv' /\ OutcomeInv' /\ NoticesAuthenticated'
    BY <1>1, <1>2 DEF TargetInv, OutcomeInv, NoticesAuthenticated, TypeOK, Event
  <1>9. RenderedCoherently' /\ OtpBudget'
    BY <1>1, <1>2, ConstantsAssumption DEF RenderedCoherently, OtpBudget
  <1>10. \A pcs : \A q \in Payment : Working(q, pcs) /\ "idle" \notin pcs => Working(q, pcs)'
    BY <1>3 DEF Working, Idle
  <1>11. NothingStuck'
    <2>1. r.status = "pending_validation" => Working(p, {"stash", "pending"})'
      BY <1>3 DEF Working, Creating
    <2> QED BY <1>2, <1>10, <2>1 DEF NothingStuck
  <1>12. TargetUsedOnce'
    <2>1. callback # "none" => Working(p, {"stash", "charged"})'
      BY <1>3 DEF Working, Creating
    <2>2. wants'[p] = callback /\ ~Announced(p)'
      BY <1>1 DEF Announced, TypeOK
    <2> QED BY <1>1, <1>2, <1>10, <2>1, <2>2 DEF TargetUsedOnce, Announced
  <1> QED BY <1>4, <1>5, <1>6, <1>7, <1>8, <1>9, <1>11, <1>12

LEMMA CreateStep ==
  ASSUME Inv, NEW c \in Client, NEW p \in Payment, NEW phone \in Phone, NEW amount,
         NEW callback \in Callback,
         \/ CreatePayment(c, p, phone, amount, callback)
         \/ PreparePayment(c, p, phone, amount, callback)
  PROVE  Inv'
  <1>1. CASE CreatePayment(c, p, phone, amount, callback)
    <2> DEFINE r == [status |-> "succeeded", paymentDate |-> TRUE, validationInfo |-> FALSE]
    <2>1. r \in Rendered /\ "charged" \in Creating
      BY DEF Rendered, Status, Settled, Creating
    <2> QED BY <1>1, <2>1, MintStep DEF CreatePayment, outbox
  <1>2. CASE PreparePayment(c, p, phone, amount, callback)
    <2> DEFINE otp == [status |-> "pending_validation", paymentDate |-> FALSE, validationInfo |-> TRUE]
               now == [status |-> "reserved", paymentDate |-> FALSE, validationInfo |-> FALSE]
               r == IF phone = "otp" THEN otp ELSE now
               pc == IF callback # "none" THEN "stash" ELSE "pending"
    <2>1. r \in {otp, now} /\ r \in Rendered /\ pc \in Creating
      BY DEF Rendered, Status, Settled, Creating
    <2>2. payment' = [payment EXCEPT ![p] = r] /\ task' = [task EXCEPT ![c] = At(pc, p)]
      BY <1>2 DEF PreparePayment
    <2>3. r.status # "succeeded" /\ pc # "charged"
      OBVIOUS
    <2>4. task[c] = Idle /\ payment[p] = Absent /\ wants' = [wants EXCEPT ![p] = callback]
          /\ UNCHANGED <<pending, target, wrong, known, events, inflight>>
      BY <1>2 DEF PreparePayment, outbox
    <2>5. (pc = "stash" => callback # "none") /\ (pc = "pending" => callback = "none")
      OBVIOUS
    <2> HIDE DEF pc, r
    <2> QED BY <2>1, <2>2, <2>3, <2>4, <2>5, MintStep
  <1> QED BY <1>1, <1>2

LEMMA AnnounceStep ==
  ASSUME TypeOK, NEW p \in Payment, NEW status \in Status, NEW callback \in Callback,
         Announce(p, status, callback)
  PROVE  /\ \E e \in Event : /\ e.payment = p /\ e.status = status
                             /\ (e.auth <=> callback = "secured")
                             /\ events' = events \cup {e}
                             /\ inflight' = inflight \cup {e}
         /\ IsFiniteSet(events')
  <1> DEFINE e == [no |-> Cardinality(events) + 1, payment |-> p, status |-> status,
                   auth |-> callback = "secured"]
  <1>1. Cardinality(events) \in Nat /\ IsFiniteSet(events \cup {e})
    BY FS_CardinalityType, FS_AddElement DEF TypeOK
  <1>2. (callback = "secured") \in BOOLEAN
    OBVIOUS
  <1>3. e \in Event
    BY <1>1, <1>2 DEF Event
  <1>4. events' = events \cup {e} /\ inflight' = inflight \cup {e}
    BY DEF Announce
  <1>5. e.payment = p /\ e.status = status /\ (e.auth <=> callback = "secured")
    OBVIOUS
  <1> HIDE DEF e
  <1> QED BY <1>1, <1>3, <1>4, <1>5

LEMMA ReplyChargedStep ==
  ASSUME Inv, NEW c \in Client, ReplyCharged(c)
  PROVE  Inv'
  <1> USE DEF Inv
  <1>p. PICK p \in Payment : p = task[c].id
    BY DEF ReplyCharged, TaskInv, Relies
  <1>1. /\ task[c].pc = "charged" /\ task' = [task EXCEPT ![c] = Idle]
        /\ known' = known \cup {p}
        /\ UNCHANGED <<payment, pending, target, wants, wrong>>
    BY <1>p DEF ReplyCharged
  <1>2. /\ p \in Payment /\ payment[p].status = "succeeded" /\ target[p] = "none"
        /\ \A d \in Client \ {c} : task[d].id = p => task[d].pc \notin Creating
    BY <1>p, <1>1 DEF TaskInv, Relies, OwnerInv, Creating
  <1>3. wants[p] # "none" => Announced(p)'
    <2>1. CASE wants[p] # "none"
      <3>1. "succeeded" \in Status /\ wants[p] \in Callback
        BY <1>2 DEF Status, Settled, TypeOK
      <3>2. PICK e \in Event : e.payment = p /\ e.status = "succeeded" /\ events' = events \cup {e}
        BY <2>1, <3>1, <1>2, <1>p, AnnounceStep DEF ReplyCharged
      <3> QED BY <3>2 DEF Announced, Outcome, Settled
    <2> QED BY <2>1
  <1>4. /\ events \subseteq events' /\ events' \subseteq Event /\ IsFiniteSet(events')
        /\ inflight' \subseteq events'
        /\ \A e \in events' \ events : /\ e.payment = p /\ e.status = "succeeded"
                                        /\ (e.auth <=> wants[p] = "secured")
    <2>1. CASE wants[p] # "none"
      <3>1. "succeeded" \in Status /\ wants[p] \in Callback
        BY <1>2 DEF Status, Settled, TypeOK
      <3> QED BY <2>1, <3>1, <1>2, <1>p, AnnounceStep DEF ReplyCharged, TypeOK
    <2>2. CASE wants[p] = "none"
      BY <1>p, <2>2 DEF ReplyCharged, outbox, TypeOK
    <2> QED BY <2>1, <2>2
  <1>5. \A d \in Client : task'[d] = IF d = c THEN Idle ELSE task[d]
    BY <1>1 DEF TypeOK
  <1>6. TypeOK'
    BY <1>1, <1>2, <1>4 DEF TypeOK, Task, Idle
  <1>7. AbsentInv'
    BY <1>1, <1>2, <1>4, <1>5 DEF AbsentInv, Idle
  <1>8. TaskInv'
    BY <1>1, <1>2, <1>4, <1>5 DEF TaskInv, Relies, Announced, Idle, Creating
  <1>9. OwnerInv' /\ TargetInv'
    BY <1>1, <1>5 DEF OwnerInv, TargetInv, Idle, Creating
  <1>10. OutcomeInv' /\ NoticesAuthenticated'
    BY <1>1, <1>2, <1>4 DEF OutcomeInv, NoticesAuthenticated
  <1>11. RenderedCoherently' /\ OtpBudget'
    BY <1>1 DEF RenderedCoherently, OtpBudget
  <1>12. NothingStuck'
    BY <1>1, <1>2, <1>5 DEF NothingStuck, Working, Idle, Creating
  <1>13. TargetUsedOnce'
    BY <1>p, <1>1, <1>2, <1>3, <1>4, <1>5 DEF TargetUsedOnce, Working, Announced, Idle
  <1> QED BY <1>6, <1>7, <1>8, <1>9, <1>10, <1>11, <1>12, <1>13

LEMMA StashStep ==
  ASSUME Inv, NEW c \in Client, StashTarget(c)
  PROVE  Inv'
  <1> USE DEF Inv
  <1>p. PICK p \in Payment : p = task[c].id
    BY DEF StashTarget, TaskInv, Relies
  <1> DEFINE status == IF payment[p].validationInfo THEN "pending_validation" ELSE "reserved"
  <1>1. /\ task[c].pc = "stash" /\ task' = [task EXCEPT ![c].pc = "pending"]
        /\ target' = [target EXCEPT ![p] = wants[p]]
        /\ UNCHANGED <<payment, pending, wants, wrong, known>>
    BY <1>p DEF StashTarget
  <1>2. /\ p \in Payment /\ Relies("stash", p)
        /\ payment[p].status # "absent"
        /\ \A d \in Client \ {c} : task[d].id = p => task[d].pc \notin Creating
    BY <1>p, <1>1 DEF TaskInv, Relies, OwnerInv, Creating, AbsentInv
  <1>3. wants[p] \in Callback \ {"none"} /\ status \in Status /\ status \notin Settled
    BY <1>2 DEF TypeOK, Relies, Status, Settled
  <1>4. PICK e \in Event : /\ e.payment = p /\ e.status = status
                          /\ (e.auth <=> wants[p] = "secured")
                          /\ events' = events \cup {e} /\ inflight' = inflight \cup {e}
    BY <1>2, <1>3, <1>p, AnnounceStep DEF StashTarget
  <1>5. IsFiniteSet(events')
    BY <1>2, <1>3, <1>p, AnnounceStep DEF StashTarget
  <1> HIDE DEF status
  <1>6. \A d \in Client : task'[d] = IF d = c THEN At("pending", p) ELSE task[d]
    BY <1>p, <1>1 DEF TypeOK, Task, At
  <1>7. \A q \in Payment : Announced(q)' <=> Announced(q)
    BY <1>3, <1>4 DEF Announced, Outcome
  <1>8. \A q \in Payment : target'[q] = IF q = p THEN wants[p] ELSE target[q]
    BY <1>1 DEF TypeOK
  <1>9. TypeOK'
    BY <1>1, <1>2, <1>3, <1>4, <1>5 DEF TypeOK, Task
  <1>10. AbsentInv'
    BY <1>1, <1>2, <1>4, <1>6, <1>8 DEF AbsentInv, At
  <1>11. TaskInv'
    <2>1. Relies("pending", p)'
      BY <1>1, <1>2 DEF Relies, Creating
    <2>2. \A d \in Client \ {c} : task[d].pc # "idle" => Relies(task[d].pc, task[d].id)'
      BY <1>1, <1>2, <1>7, <1>8 DEF TaskInv, Relies, Creating
    <2> QED BY <1>6, <2>1, <2>2 DEF TaskInv, At
  <1>12. OwnerInv'
    BY <1>1, <1>6 DEF OwnerInv, At, Creating
  <1>13. TargetInv'
    BY <1>1, <1>8 DEF TargetInv
  <1>14. OutcomeInv' /\ NoticesAuthenticated'
    BY <1>1, <1>3, <1>4 DEF OutcomeInv, NoticesAuthenticated, Outcome
  <1>15. RenderedCoherently' /\ OtpBudget'
    BY <1>1 DEF RenderedCoherently, OtpBudget
  <1>16. NothingStuck'
    BY <1>1, <1>6 DEF NothingStuck, Working, At
  <1>17. TargetUsedOnce'
    BY <1>1, <1>2, <1>3, <1>6, <1>7, <1>8 DEF TargetUsedOnce, Working, At, Relies
  <1> QED BY <1>9, <1>10, <1>11, <1>12, <1>13, <1>14, <1>15, <1>16, <1>17

LEMMA ReplyPreparedStep ==
  ASSUME Inv, NEW c \in Client, ReplyPrepared(c)
  PROVE  Inv'
  <1> USE DEF Inv
  <1>p. PICK p \in Payment : p = task[c].id
    BY DEF ReplyPrepared, TaskInv, Relies
  <1>1. /\ task[c].pc = "pending" /\ task' = [task EXCEPT ![c] = Idle]
        /\ pending' = IF payment[p].validationInfo THEN [pending EXCEPT ![p] = Attempts]
                      ELSE pending
        /\ known' = known \cup {p}
        /\ UNCHANGED <<payment, target, wants, wrong, events, inflight>>
    BY <1>p DEF ReplyPrepared, outbox
  <1>2. /\ p \in Payment /\ Relies("pending", p)
        /\ payment[p].status # "absent"
        /\ \A d \in Client \ {c} : task[d].id = p => task[d].pc \notin Creating
    BY <1>p, <1>1 DEF TaskInv, Relies, OwnerInv, Creating, AbsentInv
  <1>3. \A q \in Payment : pending'[q] = IF q = p /\ payment[p].validationInfo
                                         THEN Attempts ELSE pending[q]
    BY <1>1 DEF TypeOK
  <1>4. \A d \in Client : task'[d] = IF d = c THEN Idle ELSE task[d]
    BY <1>1 DEF TypeOK
  <1>5. TypeOK'
    BY <1>1, <1>2, ConstantsAssumption DEF TypeOK, Task, Idle
  <1>6. AbsentInv'
    BY <1>1, <1>2, <1>3, <1>4 DEF AbsentInv, Idle
  <1>7. TaskInv'
    BY <1>1, <1>2, <1>3, <1>4 DEF TaskInv, Relies, Announced, Idle, Creating
  <1>8. OwnerInv' /\ TargetInv' /\ OutcomeInv' /\ NoticesAuthenticated'
    BY <1>1, <1>4 DEF OwnerInv, TargetInv, OutcomeInv, NoticesAuthenticated, Idle, Creating
  <1>9. RenderedCoherently'
    BY <1>1, <1>2, <1>3 DEF RenderedCoherently
  <1>10. OtpBudget'
    <2>1. wrong[p] \in Nat /\ Attempts \in Nat
      BY <1>2, ConstantsAssumption DEF TypeOK
    <2>2. payment[p].validationInfo => wrong[p] = 0
      BY <1>2 DEF Relies, Creating
    <2> QED BY <1>1, <1>2, <1>3, <2>1, <2>2 DEF OtpBudget
  <1>11. NothingStuck'
    BY <1>p, <1>1, <1>2, <1>3, <1>4, ConstantsAssumption
       DEF NothingStuck, RenderedCoherently, Working, Idle
  <1>12. TargetUsedOnce'
    BY <1>1, <1>4 DEF TargetUsedOnce, Working, Announced, Idle
  <1> QED BY <1>5, <1>6, <1>7, <1>8, <1>9, <1>10, <1>11, <1>12

\* A payment that is waiting for its OTP is cleared or denied.
LEMMA SettleStep ==
  ASSUME Inv, NEW p \in Payment, pending[p] > 0, NEW status \in {"reserved", "denied"},
         Settle(p, status), NEW c \in Client, task[c] = Idle,
         \/ status = "reserved" /\ wrong' = wrong /\ task' = task
         \/ /\ status = "denied" /\ pending[p] = 1
            /\ wrong' = [wrong EXCEPT ![p] = @ + 1]
            /\ task' = [task EXCEPT ![c] = At("settled", p)],
         UNCHANGED <<target, wants, known, events, inflight>>
  PROVE  Inv'
  <1> USE DEF Inv
  <1>1. /\ payment[p].status = "pending_validation" /\ pending[p] + wrong[p] = Attempts
        /\ payment[p].paymentDate = FALSE /\ payment[p] \in Rendered
        /\ pending[p] \in Nat /\ wrong[p] \in Nat /\ Attempts \in Nat
    BY ConstantsAssumption DEF RenderedCoherently, OtpBudget, TypeOK, Rendered
  <1>2. \A d \in Client : task[d].pc # "idle" => task[d].id # p
    BY <1>1 DEF TaskInv, Relies, Settled, Creating, TypeOK, Task
  <1>3. /\ payment'[p] = [status |-> status, paymentDate |-> FALSE, validationInfo |-> FALSE]
        /\ pending'[p] = 0
        /\ \A q \in Payment \ {p} : payment'[q] = payment[q] /\ pending'[q] = pending[q]
    BY <1>1 DEF Settle, TypeOK, Rendered
  <1>4. /\ \A q \in Payment \ {p} : wrong'[q] = wrong[q]
        /\ wrong'[p] = IF status = "reserved" THEN wrong[p] ELSE wrong[p] + 1
        /\ wrong' \in [Payment -> Nat]
    BY DEF TypeOK
  <1>5. /\ task' \in [Client -> Task]
        /\ \A d \in Client \ {c} : task'[d] = task[d]
        /\ task'[c] = Idle \/ (task'[c] = At("settled", p) /\ status = "denied")
    BY DEF TypeOK, Task, At
  <1>6. TypeOK'
    <2>1. payment' \in [Payment -> Rendered]
      BY <1>1 DEF TypeOK, Settle, Rendered, Status, Settled
    <2>2. pending' \in [Payment -> 0..Attempts]
      BY <1>1 DEF TypeOK, Settle
    <2> QED BY <1>4, <1>5, <2>1, <2>2 DEF TypeOK
  <1>7. AbsentInv'
    BY <1>3, <1>4, <1>5 DEF AbsentInv, Idle, At
  <1>8. TaskInv'
    <2>1. Relies("settled", p)' \/ status = "reserved"
      BY <1>3 DEF Relies, Creating, Settled
    <2>2. \A d \in Client \ {c} : task[d].pc # "idle" => Relies(task[d].pc, task[d].id)'
      BY <1>2, <1>3, <1>4, <1>5 DEF TaskInv, Relies, Announced
    <2> QED BY <1>5, <2>1, <2>2 DEF TaskInv, At, Idle
  <1>9. OwnerInv'
    BY <1>2, <1>5 DEF OwnerInv, At, Idle, Creating
  <1>10. TargetInv' /\ NoticesAuthenticated'
    BY DEF TargetInv, NoticesAuthenticated
  <1>11. OutcomeInv'
    BY <1>1, <1>3 DEF OutcomeInv, Outcome, Settled, TypeOK, Event
  <1>12. RenderedCoherently' /\ OtpBudget'
    BY <1>1, <1>3, <1>4 DEF RenderedCoherently, OtpBudget
  <1>13. NothingStuck'
    BY <1>2, <1>3, <1>5 DEF NothingStuck, Working, At, Idle
  <1>14. TargetUsedOnce'
    BY <1>2, <1>5 DEF TargetUsedOnce, Working, Announced, At, Idle
  <1> QED BY <1>6, <1>7, <1>8, <1>9, <1>10, <1>11, <1>12, <1>13, <1>14

LEMMA ValidateStep ==
  ASSUME Inv, NEW c \in Client, NEW p \in Payment, NEW rightCode \in BOOLEAN,
         ValidatePayment(c, p, rightCode)
  PROVE  Inv'
  <1>1. task[c] = Idle /\ pending[p] > 0 /\ UNCHANGED <<target, wants, known, events, inflight>>
    BY DEF ValidatePayment, outbox
  <1>2. CASE rightCode
    BY <1>1, <1>2, SettleStep DEF ValidatePayment
  <1>3. CASE ~rightCode /\ ~(pending[p] > 1)
    <2>1. pending[p] = 1
      BY <1>1, <1>3, ConstantsAssumption DEF Inv, TypeOK
    <2> QED BY <1>1, <1>3, <2>1, SettleStep DEF ValidatePayment, RejectCode
  <1>4. CASE ~rightCode /\ pending[p] > 1
    <2>1. /\ pending' = [pending EXCEPT ![p] = @ - 1] /\ wrong' = [wrong EXCEPT ![p] = @ + 1]
          /\ UNCHANGED <<payment, task>>
      BY <1>4 DEF ValidatePayment, RejectCode
    <2>2. /\ pending[p] + wrong[p] = Attempts /\ payment[p].status = "pending_validation"
          /\ pending[p] \in Nat /\ wrong[p] \in Nat /\ Attempts \in Nat
      BY <1>1, ConstantsAssumption DEF Inv, OtpBudget, RenderedCoherently, TypeOK
    <2>3. /\ pending'[p] = pending[p] - 1 /\ wrong'[p] = wrong[p] + 1
          /\ \A q \in Payment \ {p} : pending'[q] = pending[q] /\ wrong'[q] = wrong[q]
      BY <2>1 DEF Inv, TypeOK
    <2>4. pending'[p] \in 0..Attempts /\ pending'[p] > 0 /\ wrong'[p] \in Nat
      BY <2>2, <2>3, <1>4
    <2>5. TypeOK'
      BY <1>1, <2>1, <2>3, <2>4 DEF Inv, TypeOK
    <2>6. AbsentInv'
      BY <1>1, <2>1, <2>2, <2>3 DEF Inv, AbsentInv
    <2>7. \A d \in Client : task[d].pc \in Creating => task[d].id # p
      BY <1>1 DEF Inv, TaskInv, Relies, Creating
    <2>8. TaskInv'
      BY <1>1, <2>1, <2>3, <2>7 DEF Inv, TaskInv, Relies, Announced
    <2>9. RenderedCoherently'
      BY <2>1, <2>2, <2>3 DEF Inv, RenderedCoherently
    <2>10. OtpBudget'
      BY <1>4, <2>1, <2>2, <2>3, <2>4 DEF Inv, OtpBudget
    <2>11. NothingStuck'
      BY <2>1, <2>3, <2>4 DEF Inv, NothingStuck, Working
    <2>12. OwnerInv' /\ TargetInv' /\ OutcomeInv' /\ TargetUsedOnce' /\ NoticesAuthenticated'
      BY <1>1, <2>1 DEF Inv, OwnerInv, TargetInv, OutcomeInv, TargetUsedOnce,
                        NoticesAuthenticated, Working, Announced
    <2> QED BY <2>5, <2>6, <2>8, <2>9, <2>10, <2>11, <2>12 DEF Inv
  <1> QED BY <1>2, <1>3, <1>4

LEMMA ConfirmCancelStep ==
  ASSUME Inv, NEW c \in Client, NEW p \in Payment,
         ConfirmPayment(c, p) \/ CancelPayment(c, p)
  PROVE  Inv'
  <1> USE DEF Inv
  <1>1. /\ task[c] = Idle /\ payment[p].status = "reserved"
        /\ task' = [task EXCEPT ![c] = At("settled", p)]
        /\ UNCHANGED <<pending, target, wants, wrong, known, events, inflight>>
    BY DEF ConfirmPayment, CancelPayment, outbox
  <1>2. payment[p] \in Rendered /\ payment[p].validationInfo = FALSE /\ pending[p] = 0
        /\ payment[p].paymentDate = FALSE
    BY <1>1, ConstantsAssumption DEF TypeOK, Rendered, RenderedCoherently
  <1>3. /\ payment'[p].status \in {"succeeded", "cancelled"}
        /\ payment'[p].paymentDate <=> payment'[p].status = "succeeded"
        /\ payment'[p].validationInfo = FALSE
        /\ \A q \in Payment \ {p} : payment'[q] = payment[q]
    BY <1>2 DEF ConfirmPayment, CancelPayment, TypeOK, Rendered
  <1>4. payment' \in [Payment -> Rendered]
    BY <1>2 DEF ConfirmPayment, CancelPayment, TypeOK, Rendered, Status, Settled
  <1>5. /\ task' \in [Client -> Task] /\ task'[c] = [pc |-> "settled", id |-> p]
        /\ \A d \in Client \ {c} : task'[d] = task[d]
    BY <1>1 DEF TypeOK, Task, At
  <1>6. \A d \in Client : task[d].pc \in {"settled", "charged"} => task[d].id # p
    BY <1>1 DEF TaskInv, Relies, Settled
  <1>7. TypeOK'
    BY <1>1, <1>4, <1>5 DEF TypeOK
  <1>8. AbsentInv'
    BY <1>1, <1>3, <1>5 DEF AbsentInv
  <1>9. TaskInv'
    <2>1. Relies("settled", p)'
      BY <1>3 DEF Relies, Creating, Settled
    <2>2. \A d \in Client \ {c} : task[d].pc # "idle" => Relies(task[d].pc, task[d].id)'
      BY <1>1, <1>2, <1>3, <1>6 DEF TaskInv, Relies, Announced, Settled
    <2> QED BY <1>5, <2>1, <2>2 DEF TaskInv
  <1>10. OwnerInv'
    BY <1>5, <1>6 DEF OwnerInv, Creating
  <1>11. TargetInv' /\ NoticesAuthenticated'
    BY <1>1 DEF TargetInv, NoticesAuthenticated
  <1>12. OutcomeInv'
    BY <1>1, <1>3 DEF OutcomeInv, Outcome, Settled, TypeOK, Event
  <1>13. RenderedCoherently' /\ OtpBudget'
    BY <1>1, <1>2, <1>3 DEF RenderedCoherently, OtpBudget
  <1>14. NothingStuck'
    BY <1>1, <1>3, <1>5 DEF NothingStuck, Working, Idle
  <1>15. TargetUsedOnce'
    BY <1>1, <1>5 DEF TargetUsedOnce, Working, Announced, Idle
  <1> QED BY <1>7, <1>8, <1>9, <1>10, <1>11, <1>12, <1>13, <1>14, <1>15

LEMMA TakeStep ==
  ASSUME Inv, NEW c \in Client, TakeAndNotify(c)
  PROVE  Inv'
  <1> USE DEF Inv
  <1>p. PICK p \in Payment : p = task[c].id
    BY DEF TakeAndNotify, TaskInv, Relies
  <1>1. /\ task[c].pc = "settled" /\ task' = [task EXCEPT ![c] = Idle]
        /\ target' = [target EXCEPT ![p] = "none"]
        /\ UNCHANGED <<payment, pending, wants, wrong, known>>
    BY <1>p DEF TakeAndNotify
  <1>2. /\ payment[p].status \in Settled /\ payment[p].status \in Status
        /\ target[p] \in Callback
    BY <1>p, <1>1 DEF TaskInv, Relies, Status, TypeOK
  <1>3. /\ events \subseteq events' /\ events' \subseteq Event /\ IsFiniteSet(events')
        /\ inflight' \subseteq events'
        /\ \A e \in events' \ events : /\ e.payment = p /\ e.status = payment[p].status
                                        /\ (e.auth <=> target[p] = "secured")
        /\ target[p] = "none" => events' = events
        /\ target[p] # "none" => \E e \in events' : e.payment = p /\ e.status = payment[p].status
    <2>1. CASE target[p] # "none"
      <3>1. Announce(p, payment[p].status, target[p])
        BY <1>p, <2>1 DEF TakeAndNotify
      <3> QED BY <1>2, <2>1, <3>1, AnnounceStep DEF TypeOK
    <2>2. CASE target[p] = "none"
      BY <1>p, <2>2 DEF TakeAndNotify, outbox, TypeOK
    <2> QED BY <2>1, <2>2
  <1>4. \A d \in Client : task'[d] = IF d = c THEN Idle ELSE task[d]
    BY <1>1 DEF TypeOK
  <1>5. \A q \in Payment : target'[q] = IF q = p THEN "none" ELSE target[q]
    BY <1>1 DEF TypeOK
  <1>6. \A q \in Payment : Announced(q)' <=> (Announced(q) \/ (q = p /\ target[p] # "none"))
    BY <1>2, <1>3 DEF Announced, Outcome
  <1>7. TypeOK'
    BY <1>1, <1>3 DEF TypeOK, Task, Idle, Callback
  <1>8. AbsentInv'
    BY <1>1, <1>2, <1>3, <1>4, <1>5 DEF AbsentInv, Idle, Settled
  <1>9. TaskInv'
    BY <1>1, <1>4, <1>5, <1>6 DEF TaskInv, Relies, Idle
  <1>10. OwnerInv'
    BY <1>4 DEF OwnerInv, Idle, Creating
  <1>11. TargetInv'
    BY <1>1, <1>5 DEF TargetInv
  <1>12. OutcomeInv'
    BY <1>1, <1>3 DEF OutcomeInv
  <1>13. NoticesAuthenticated'
    BY <1>1, <1>3 DEF NoticesAuthenticated, TargetInv
  <1>14. RenderedCoherently' /\ OtpBudget'
    BY <1>1 DEF RenderedCoherently, OtpBudget
  <1>15. NothingStuck'
    BY <1>1, <1>4 DEF NothingStuck, Working, Idle
  <1>16. TargetUsedOnce'
    BY <1>1, <1>4, <1>5, <1>6 DEF TargetUsedOnce, Working, Idle
  <1> QED BY <1>7, <1>8, <1>9, <1>10, <1>11, <1>12, <1>13, <1>14, <1>15, <1>16

LEMMA BystanderStep ==
  ASSUME Inv,
         \/ \E c \in Client : RetrievePayments(c)
         \/ \E e \in inflight : FinishDelivery(e)
         \/ UNCHANGED vars
  PROVE  Inv'
  <1>1. UNCHANGED <<payment, pending, target, wants, wrong, task, events>>
    BY DEF RetrievePayments, FinishDelivery, vars, outbox
  <1>2. known' \subseteq Payment /\ inflight' \subseteq inflight
    BY DEF RetrievePayments, FinishDelivery, vars, outbox, Inv, TypeOK
  <1>3. TypeOK' /\ AbsentInv' /\ TaskInv' /\ OwnerInv' /\ TargetInv' /\ OutcomeInv'
    BY <1>1, <1>2 DEF Inv, TypeOK, AbsentInv, TaskInv, Relies, Announced, OwnerInv,
                      TargetInv, OutcomeInv
  <1>4. RenderedCoherently' /\ OtpBudget' /\ NothingStuck' /\ TargetUsedOnce'
        /\ NoticesAuthenticated'
    BY <1>1 DEF Inv, RenderedCoherently, OtpBudget, NothingStuck, TargetUsedOnce,
                NoticesAuthenticated, Working, Announced
  <1> QED BY <1>3, <1>4 DEF Inv

LEMMA InvStep == Inv /\ [Next]_vars => Inv'
  <1> SUFFICES ASSUME Inv, [Next]_vars PROVE Inv'
    OBVIOUS
  <1>1. CASE \E c \in Client : Request(c)
    BY <1>1, CreateStep, ValidateStep, ConfirmCancelStep, BystanderStep DEF Request
  <1>2. CASE \E c \in Client : Continue(c)
    BY <1>2, ReplyChargedStep, StashStep, ReplyPreparedStep, TakeStep DEF Continue
  <1>3. CASE (\E e \in inflight : FinishDelivery(e)) \/ UNCHANGED vars
    BY <1>3, BystanderStep
  <1> QED BY <1>1, <1>2, <1>3 DEF Next

THEOREM InvHolds == Spec => []Inv
  BY InitInv, InvStep, PTL DEF Spec

\* Type correctness: the attempts left never leave their range, every handler
\* is where the code has a step.
THEOREM TypeCorrect == Spec => []TypeOK
  BY InvHolds, PTL DEF Inv

\* What a merchant reads is coherent at every instant.
THEOREM CoherentRendering == Spec => []RenderedCoherently
  BY InvHolds, PTL DEF Inv

\* However validations race, `Attempts` wrong codes deny a payment and no more
\* are ever checked.
THEOREM BudgetKept == Spec => []OtpBudget
  BY InvHolds, PTL DEF Inv

\* A reservation the client knows of from its 201 can always be driven on.
THEOREM NeverStuck == Spec => []NothingStuck
  BY InvHolds, PTL DEF Inv

\* A stored target is spent on exactly one outcome event.
THEOREM TargetSpentOnce == Spec => []TargetUsedOnce
  BY InvHolds, PTL DEF Inv

\* Callbacks carry the credential of the request that created the payment.
THEOREM CallbacksAuthenticated == Spec => []NoticesAuthenticated
  BY InvHolds, PTL DEF Inv

-----------------------------------------------------------------------------
(* Refinement of TwoStepPayment *)

told(E) == {<<e.no, e.payment, e.status>> : e \in {f \in E : Outcome(f)}}

statuses == [p \in Payment |-> payment[p].status]

LEMMA AbstractStutter ==
  ASSUME \A p \in Payment : payment'[p].status = payment[p].status,
         {e \in events' : Outcome(e)} = {e \in events : Outcome(e)}
  PROVE  UNCHANGED Abstract!vars
  <1>1. told(events)' = told(events)
    BY DEF told, Outcome
  <1> QED BY <1>1 DEF Abstract!vars, told

\* A payment's status moves as the abstract specification lets it.
LEMMA AbstractMove ==
  ASSUME Inv, NEW p \in Payment, events' = events,
         NEW from, NEW to,
         payment[p].status = from, payment'[p].status \in to,
         \A q \in Payment \ {p} : payment'[q] = payment[q]
  PROVE  Abstract!Move(p, from, to)
  <1>1. statuses' = [statuses EXCEPT ![p] = payment'[p].status]
    BY DEF statuses
  <1>2. \E s \in to : statuses' = [statuses EXCEPT ![p] = s]
    BY <1>1
  <1>3. told(events)' = told(events)
    BY DEF told, Outcome
  <1>4. statuses[p] = from
    BY DEF statuses
  <1> QED BY <1>2, <1>3, <1>4 DEF Abstract!Move, statuses, told

LEMMA AbstractAnnounce ==
  ASSUME Inv, NEW p \in Payment, payment[p].status \in Settled, ~Announced(p),
         NEW callback \in Callback, Announce(p, payment[p].status, callback),
         UNCHANGED payment
  PROVE  Abstract!Announce(p)
  <1>1. payment[p].status \in Status
    BY DEF Inv, TypeOK, Rendered
  <1>2. PICK e \in Event : /\ e.payment = p /\ e.status = payment[p].status
                          /\ events' = events \cup {e}
    BY <1>1, AnnounceStep DEF Inv
  <1> DEFINE t == <<e.no, p, payment[p].status>>
  <1>3. {f \in events' : Outcome(f)} = {f \in events : Outcome(f)} \cup {e}
    BY <1>2 DEF Outcome
  <1>4. told(events)' = told(events) \cup {t}
    BY <1>2, <1>3 DEF told, Outcome
  <1>5. \A u \in told(events) : u[2] # p
    BY DEF told, Announced
  <1>6. t \notin told(events)
    BY <1>5
  <1>7. \E u \in told(events)' \ told(events) :
           u[2] = p /\ u[3] = statuses[p] /\ told(events)' = told(events) \cup {u}
    BY <1>4, <1>6 DEF statuses
  <1>8. statuses' = statuses /\ statuses[p] \in Settled
    BY DEF statuses
  <1> QED BY <1>5, <1>7, <1>8 DEF Abstract!Announce, Abstract!Settled, Settled, told, statuses

LEMMA AbstractStep == Inv /\ [Next]_vars => [Abstract!Next]_Abstract!vars
  <1> SUFFICES ASSUME Inv, [Next]_vars PROVE [Abstract!Next]_Abstract!vars
    OBVIOUS
  <1>1. ASSUME NEW c \in Client, NEW p \in Payment, NEW phone \in Phone, NEW amount,
               NEW callback \in Callback,
               \/ CreatePayment(c, p, phone, amount, callback)
               \/ PreparePayment(c, p, phone, amount, callback)
        PROVE  Abstract!Next
    <2>1. /\ events' = events /\ payment[p].status = "absent"
          /\ payment'[p].status \in {"succeeded", "reserved", "pending_validation"}
          /\ \A q \in Payment \ {p} : payment'[q] = payment[q]
      BY <1>1 DEF CreatePayment, PreparePayment, outbox, Inv, TypeOK, Absent
    <2>2. Abstract!Create(p)
      BY <2>1, AbstractMove DEF Abstract!Create
    <2> QED BY <2>2 DEF Abstract!Next
  <1>2. ASSUME NEW c \in Client, NEW p \in Payment, NEW rightCode \in BOOLEAN,
               ValidatePayment(c, p, rightCode)
        PROVE  [Abstract!Next]_Abstract!vars
    <2>1. payment[p].status = "pending_validation" /\ payment[p] \in Rendered /\ events' = events
      BY <1>2 DEF ValidatePayment, Inv, RenderedCoherently, TypeOK, outbox
    <2>2. CASE payment' = payment
      BY <2>1, <2>2, AbstractStutter
    <2>3. CASE payment' # payment
      <3>1. PICK status \in {"reserved", "denied"} : Settle(p, status)
        BY <1>2, <2>3 DEF ValidatePayment, RejectCode
      <3>2. /\ payment'[p].status \in {"reserved", "denied"}
            /\ \A q \in Payment \ {p} : payment'[q] = payment[q]
        BY <2>1, <3>1 DEF Settle, Inv, TypeOK, Rendered
      <3>3. Abstract!Validate(p)
        BY <2>1, <3>2, AbstractMove DEF Abstract!Validate
      <3> QED BY <3>3 DEF Abstract!Next
    <2> QED BY <2>2, <2>3
  <1>3. ASSUME NEW c \in Client, NEW p \in Payment, ConfirmPayment(c, p) \/ CancelPayment(c, p)
        PROVE  Abstract!Next
    <2>1. /\ events' = events /\ payment[p].status = "reserved" /\ payment[p] \in Rendered
      BY <1>3 DEF ConfirmPayment, CancelPayment, outbox, Inv, TypeOK
    <2>2. /\ payment'[p].status \in {"succeeded", "cancelled"}
          /\ \A q \in Payment \ {p} : payment'[q] = payment[q]
      BY <1>3, <2>1 DEF ConfirmPayment, CancelPayment, Inv, TypeOK, Rendered
    <2>3. Abstract!Settle(p)
      BY <2>1, <2>2, AbstractMove DEF Abstract!Settle
    <2> QED BY <2>3 DEF Abstract!Next
  <1>4. ASSUME NEW c \in Client, ReplyCharged(c)
        PROVE  [Abstract!Next]_Abstract!vars
    <2>1. PICK p \in Payment : p = task[c].id /\ Relies("charged", p)
      BY <1>4 DEF ReplyCharged, Inv, TaskInv, Relies
    <2>2. CASE wants[p] = "none"
      BY <1>4, <2>1, <2>2, AbstractStutter DEF ReplyCharged, outbox
    <2>3. CASE wants[p] # "none"
      <3>1. Announce(p, payment[p].status, wants[p]) /\ UNCHANGED payment
        BY <1>4, <2>1, <2>3 DEF ReplyCharged, Relies
      <3>2. payment[p].status \in Settled /\ ~Announced(p) /\ wants[p] \in Callback
        BY <2>1 DEF Relies, Settled, Inv, TypeOK
      <3>3. Abstract!Announce(p)
        BY <3>1, <3>2, AbstractAnnounce
      <3> QED BY <3>3 DEF Abstract!Next
    <2> QED BY <2>2, <2>3
  <1>5. ASSUME NEW c \in Client, StashTarget(c)
        PROVE  UNCHANGED Abstract!vars
    <2>1. PICK p \in Payment : p = task[c].id
      BY <1>5 DEF StashTarget, Inv, TaskInv, Relies
    <2>2. PICK status \in {"pending_validation", "reserved"} : Announce(p, status, wants[p])
      BY <1>5, <2>1 DEF StashTarget
    <2>3. PICK e \in Event : e.status = status /\ events' = events \cup {e}
      BY <2>2, AnnounceStep DEF Inv, TypeOK, Status
    <2>4. {f \in events' : Outcome(f)} = {f \in events : Outcome(f)}
      BY <2>3 DEF Outcome, Settled
    <2>5. payment' = payment
      BY <1>5 DEF StashTarget
    <2> QED BY <2>4, <2>5, AbstractStutter
  <1>6. ASSUME NEW c \in Client, TakeAndNotify(c)
        PROVE  [Abstract!Next]_Abstract!vars
    <2>1. PICK p \in Payment : p = task[c].id /\ Relies("settled", p)
      BY <1>6 DEF TakeAndNotify, Inv, TaskInv, Relies
    <2>2. CASE target[p] = "none"
      BY <1>6, <2>1, <2>2, AbstractStutter DEF TakeAndNotify, outbox
    <2>3. CASE target[p] # "none"
      <3>1. Announce(p, payment[p].status, target[p]) /\ UNCHANGED payment
        BY <1>6, <2>1, <2>3 DEF TakeAndNotify
      <3>2. payment[p].status \in Settled /\ ~Announced(p) /\ target[p] \in Callback
        BY <2>1, <2>3 DEF Relies, Inv, TypeOK, TargetUsedOnce
      <3>3. Abstract!Announce(p)
        BY <3>1, <3>2, AbstractAnnounce
      <3> QED BY <3>3 DEF Abstract!Next
    <2> QED BY <2>2, <2>3
  <1>7. CASE \/ \E c \in Client : RetrievePayments(c) \/ ReplyPrepared(c)
             \/ \E e \in inflight : FinishDelivery(e)
             \/ UNCHANGED vars
    BY <1>7, AbstractStutter DEF RetrievePayments, ReplyPrepared, FinishDelivery, vars, outbox
  <1> QED BY <1>1, <1>2, <1>3, <1>4, <1>5, <1>6, <1>7 DEF Next, Request, Continue

\* The handlers implement the payment's life: settled once, never unsettled, its
\* outcome announced at most once and truthfully.
THEOREM PaymentImplemented == Spec => ImplementsPayment
  <1>1. Init => Abstract!Init
    <2> SUFFICES ASSUME Init PROVE Abstract!Init
      OBVIOUS
    <2>1. told(events) = {} /\ statuses = [p \in Payment |-> "absent"]
      BY DEF Init, told, statuses, Absent
    <2> QED BY <2>1 DEF Abstract!Init, told, statuses
  <1> QED BY <1>1, AbstractStep, InvHolds, PTL DEF Spec, ImplementsPayment, Abstract!Spec

-----------------------------------------------------------------------------
(* When the outcome is certain to be announced *)

\* The step in which a request that settled a payment looks for the target
\* before the prepare request of that payment has stashed it.  (Prepare answers
\* afterwards, but a list request may disclose the id in between.)
EarlySettle ==
    \E c, d \in Client : /\ TakeAndNotify(c)
                         /\ task[d].pc = "stash" /\ task[d].id = task[c].id

\* A settled payment whose target is stored, or still to be, has its settler
\* at work.
SettlerInv ==
    \A p \in Payment :
        payment[p].status \in Settled /\ (target[p] # "none" \/ Working(p, {"stash"}))
            => Working(p, {"settled"})

LEMMA SettlerMint ==
  ASSUME Inv, SettlerInv, NEW c \in Client, NEW p \in Payment, NEW phone, NEW amount,
         NEW callback,
         \/ CreatePayment(c, p, phone, amount, callback)
         \/ PreparePayment(c, p, phone, amount, callback)
  PROVE  SettlerInv'
  <1>1. /\ target' = target /\ task[c] = Idle
        /\ payment[p].status = "absent" /\ target[p] = "none"
        /\ \A d \in Client : task[d].pc # "idle" => task[d].id # p
    BY DEF CreatePayment, PreparePayment, outbox, Inv, AbsentInv, Absent
  <1>2. PICK pc \in Creating :
            /\ task' = [task EXCEPT ![c] = At(pc, p)]
            /\ payment'[p].status \in Settled => pc = "charged"
            /\ \A q \in Payment \ {p} : payment'[q] = payment[q]
    BY DEF CreatePayment, PreparePayment, Creating, Settled, Inv, TypeOK
  <1> SUFFICES ASSUME NEW q \in Payment, payment'[q].status \in Settled,
                      target'[q] # "none" \/ Working(q, {"stash"})'
               PROVE  Working(q, {"settled"})'
    BY DEF SettlerInv
  <1>3. task'[c] = [pc |-> pc, id |-> p] /\ \A d \in Client \ {c} : task'[d] = task[d]
    BY <1>2 DEF Inv, TypeOK, At
  <1>4. q # p
    BY <1>1, <1>2, <1>3 DEF Working
  <1>5. Working(q, {"settled"})
    BY <1>1, <1>2, <1>3, <1>4 DEF SettlerInv, Working
  <1> QED BY <1>1, <1>3, <1>5 DEF Working, Idle

\* The requests that settle a payment, and those that leave it as it was.
LEMMA SettlerSettle ==
  ASSUME Inv, SettlerInv, NEW c \in Client, NEW p \in Payment, target' = target,
         task[c] = Idle,
         \A q \in Payment \ {p} : payment'[q] = payment[q],
         \/ task' = [task EXCEPT ![c] = At("settled", p)]
         \/ task' = task /\ (payment' = payment \/ payment'[p].status \notin Settled)
  PROVE  SettlerInv'
  <1> SUFFICES ASSUME NEW q \in Payment, payment'[q].status \in Settled,
                      target'[q] # "none" \/ Working(q, {"stash"})'
               PROVE  Working(q, {"settled"})'
    BY DEF SettlerInv
  <1>1. CASE task' = task
    <2>1. payment'[q] = payment[q]
      BY <1>1 DEF At, Idle, Inv, TypeOK
    <2> QED BY <1>1, <2>1 DEF SettlerInv, Working
  <1>2. CASE task' = [task EXCEPT ![c] = At("settled", p)]
    <2>1. task'[c] = [pc |-> "settled", id |-> p] /\ \A d \in Client \ {c} : task'[d] = task[d]
      BY <1>2 DEF Inv, TypeOK, At
    <2>2. CASE q = p
      BY <2>1, <2>2 DEF Working
    <2>3. CASE q # p
      <3>1. Working(q, {"settled"})
        BY <2>1, <2>3 DEF SettlerInv, Working
      <3> QED BY <2>1, <3>1 DEF Working, Idle
    <2> QED BY <2>2, <2>3
  <1> QED BY <1>1, <1>2

LEMMA SettlerContinue ==
  ASSUME Inv, SettlerInv, NEW c \in Client, Continue(c), ~EarlySettle
  PROVE  SettlerInv'
  <1> USE DEF Inv
  <1>p. PICK p \in Payment : p = task[c].id /\ Relies(task[c].pc, p)
    BY DEF Continue, ReplyCharged, StashTarget, ReplyPrepared, TakeAndNotify, TaskInv, Relies
  <1>0. payment' = payment
    BY DEF Continue, ReplyCharged, StashTarget, ReplyPrepared, TakeAndNotify
  <1>1. CASE TakeAndNotify(c)
    <2>1. /\ target' = [target EXCEPT ![p] = "none"] /\ task' = [task EXCEPT ![c] = Idle]
          /\ task[c].pc = "settled"
      BY <1>1, <1>p DEF TakeAndNotify
    <2>2. \A d \in Client : ~(task[d].id = p /\ task[d].pc = "stash")
      BY <1>1, <1>p DEF EarlySettle
    <2> SUFFICES ASSUME NEW q \in Payment, payment'[q].status \in Settled,
                        target'[q] # "none" \/ Working(q, {"stash"})'
                 PROVE  Working(q, {"settled"})'
      BY DEF SettlerInv
    <2>3. task'[c].pc = "idle" /\ \A d \in Client \ {c} : task'[d] = task[d]
      BY <2>1 DEF TypeOK, Idle
    <2>4. q # p /\ target'[q] = target[q]
      BY <2>1, <2>2, <2>3 DEF TypeOK, Working
    <2>5. Working(q, {"settled"})
      BY <1>0, <2>3, <2>4 DEF SettlerInv, Working
    <2> QED BY <1>p, <2>3, <2>4, <2>5 DEF Working
  <1>2. CASE ~TakeAndNotify(c)
    <2>1. PICK t \in {Idle, At("pending", p)} : task' = [task EXCEPT ![c] = t]
      BY <1>2, <1>p DEF Continue, ReplyCharged, StashTarget, ReplyPrepared, TypeOK, Task, At
    <2>2. /\ task[c].pc \in Creating
          /\ target' = target \/ (task[c].pc = "stash" /\ target' = [target EXCEPT ![p] = wants[p]])
      BY <1>2, <1>p DEF Continue, ReplyCharged, StashTarget, ReplyPrepared, Creating
    <2> SUFFICES ASSUME NEW q \in Payment, payment'[q].status \in Settled,
                        target'[q] # "none" \/ Working(q, {"stash"})'
                 PROVE  Working(q, {"settled"})'
      BY DEF SettlerInv
    <2>3. task'[c].pc \in {"idle", "pending"} /\ \A d \in Client \ {c} : task'[d] = task[d]
      BY <2>1 DEF TypeOK, Idle, At
    <2>4. target[q] # "none" \/ Working(q, {"stash"})
      BY <1>p, <2>2, <2>3 DEF TypeOK, Working
    <2>5. Working(q, {"settled"})
      BY <1>0, <2>4 DEF SettlerInv
    <2> QED BY <2>2, <2>3, <2>5 DEF Working, Creating
  <1> QED BY <1>1, <1>2

LEMMA SettlerStep ==
  ASSUME Inv, SettlerInv, [Next]_vars, ~EarlySettle
  PROVE  SettlerInv'
  <1>1. ASSUME NEW c \in Client, NEW p \in Payment, NEW rightCode \in BOOLEAN,
               ValidatePayment(c, p, rightCode)
        PROVE  SettlerInv'
    <2>1. /\ target' = target /\ task[c] = Idle
          /\ \A q \in Payment \ {p} : payment'[q] = payment[q]
          /\ \/ task' = [task EXCEPT ![c] = At("settled", p)]
             \/ task' = task /\ (payment' = payment \/ payment'[p].status = "reserved")
      BY <1>1 DEF ValidatePayment, RejectCode, Settle, Inv, TypeOK, Rendered
    <2> QED BY <2>1, SettlerSettle DEF Settled
  <1>2. ASSUME NEW c \in Client, NEW p \in Payment, ConfirmPayment(c, p) \/ CancelPayment(c, p)
        PROVE  SettlerInv'
    <2>1. /\ target' = target /\ task[c] = Idle
          /\ \A q \in Payment \ {p} : payment'[q] = payment[q]
          /\ task' = [task EXCEPT ![c] = At("settled", p)]
      BY <1>2 DEF ConfirmPayment, CancelPayment, Inv, TypeOK
    <2> QED BY <2>1, SettlerSettle
  <1>3. CASE \/ \E c \in Client : RetrievePayments(c)
             \/ \E e \in inflight : FinishDelivery(e)
             \/ UNCHANGED vars
    BY <1>3 DEF RetrievePayments, FinishDelivery, vars, SettlerInv, Working
  <1> QED BY <1>1, <1>2, <1>3, SettlerMint, SettlerContinue DEF Next, Request

\* The scope of that promise: the terminal outcome of every settled reservation
\* that asked for callbacks fires, unless a request settled it and looked for
\* the target while prepare had not stashed it yet.
THEOREM OutcomeFiresUnlessEarly ==
    Spec /\ [][~EarlySettle]_vars => []TerminalOutcomeFires
  <1>1. Init => SettlerInv
    BY DEF Init, SettlerInv, Absent, Settled
  <1>2. Inv /\ SettlerInv /\ [Next]_vars /\ [~EarlySettle]_vars => SettlerInv'
    <2> SUFFICES ASSUME Inv, SettlerInv, [Next]_vars, [~EarlySettle]_vars PROVE SettlerInv'
      OBVIOUS
    <2>1. CASE UNCHANGED vars
      BY <2>1 DEF vars, SettlerInv, Working
    <2>2. CASE ~EarlySettle
      BY <2>2, SettlerStep
    <2> QED BY <2>1, <2>2
  <1>3. Inv /\ SettlerInv => TerminalOutcomeFires
    BY DEF Inv, SettlerInv, TerminalOutcomeFires, TargetUsedOnce, Working
  <1> QED BY <1>1, <1>2, <1>3, InvHolds, PTL DEF Spec

\* The safety core of OutcomeAnnounced, on every step and with no fairness: a
\* settled payment's stored target is lost by no step but the one that announces
\* the outcome, and until that step its settler stays at work.
OutcomeOwned ==
    [][\A p \in Payment :
          Working(p, {"settled"}) /\ target[p] # "none"
             => \/ Announced(p)'
                \/ (Working(p, {"settled"}) /\ target[p] # "none")']_vars

\* validate, confirm and cancel: a settled reservation whose target was stashed
\* is announced by the request that settled it, and no other request or prepare
\* takes that from it.
THEOREM OutcomeNeverDropped == Spec => OutcomeOwned
  <1>1. ASSUME Inv, Next, NEW p \in Payment, Working(p, {"settled"}), target[p] # "none"
        PROVE  Announced(p)' \/ (Working(p, {"settled"}) /\ target[p] # "none")'
    <2> USE DEF Inv
    <2>1. PICK s \in Client : task[s].id = p /\ task[s].pc = "settled"
      BY <1>1 DEF Working
    <2>2. CASE TakeAndNotify(s)
      <3>1. Announce(p, payment[p].status, target[p])
        BY <1>1, <2>1, <2>2 DEF TakeAndNotify
      <3>2. payment[p].status \in Settled /\ payment[p].status \in Status /\ target[p] \in Callback
        BY <1>1, <2>1 DEF TaskInv, Relies, Status, TypeOK
      <3>3. Announced(p)'
        BY <1>1, <3>1, <3>2, AnnounceStep DEF Announced, Outcome
      <3> QED BY <3>3
    <2>3. CASE ~TakeAndNotify(s)
      <3>1. ASSUME NEW c \in Client, Request(c)
            PROVE  task'[s] = task[s]
        <4>1. task' = task \/ (task[c] = Idle /\ \E t : task' = [task EXCEPT ![c] = t])
          BY <3>1 DEF Request, CreatePayment, PreparePayment, RetrievePayments,
                      ValidatePayment, RejectCode, ConfirmPayment, CancelPayment
        <4>2. task[c] = Idle => c # s
          BY <2>1 DEF Idle
        <4> QED BY <1>1, <4>1, <4>2 DEF TypeOK
      <3>2. ASSUME NEW c \in Client, Continue(c)
            PROVE  task'[s] = task[s]
        <4>1. c # s
          BY <2>1, <2>3, <3>2 DEF Continue, ReplyCharged, StashTarget, ReplyPrepared
        <4>2. \E t : task' = [task EXCEPT ![c] = t]
          BY <3>2 DEF Continue, ReplyCharged, StashTarget, ReplyPrepared, TakeAndNotify
        <4> QED BY <1>1, <4>1, <4>2 DEF TypeOK
      <3>3. ASSUME NEW e \in inflight, FinishDelivery(e)
            PROVE  task'[s] = task[s] /\ target'[p] = target[p]
        BY <3>3 DEF FinishDelivery
      <3>4. ASSUME NEW c \in Client, Request(c)
            PROVE  target'[p] = target[p]
        BY <3>4 DEF Request, CreatePayment, PreparePayment, RetrievePayments,
                    ValidatePayment, ConfirmPayment, CancelPayment
      <3>5. ASSUME NEW c \in Client, Continue(c)
            PROVE  target'[p] = target[p]
        <4>1. CASE StashTarget(c)
          <5>1. task[c].id # p /\ target' = [target EXCEPT ![task[c].id] = wants[task[c].id]]
            BY <1>1, <4>1 DEF StashTarget, TaskInv, Relies
          <5> QED BY <5>1 DEF TypeOK
        <4>2. CASE TakeAndNotify(c)
          <5>1. task[c].id # p /\ target' = [target EXCEPT ![task[c].id] = "none"]
            BY <1>1, <2>1, <2>3, <4>2 DEF TakeAndNotify, OwnerInv
          <5> QED BY <5>1 DEF TypeOK
        <4> QED BY <3>5, <4>1, <4>2 DEF Continue, ReplyCharged, ReplyPrepared
      <3>6. task'[s] = task[s] /\ target'[p] = target[p]
        BY <1>1, <3>1, <3>2, <3>3, <3>4, <3>5 DEF Next
      <3> QED BY <1>1, <2>1, <3>6 DEF Working
    <2> QED BY <2>2, <2>3
  <1>2. Inv /\ [Next]_vars =>
          [\A p \in Payment :
             Working(p, {"settled"}) /\ target[p] # "none"
                => \/ Announced(p)'
                   \/ (Working(p, {"settled"}) /\ target[p] # "none")']_vars
    BY <1>1
  <1> QED BY <1>2, InvHolds, PTL DEF Spec, OutcomeOwned

=============================================================================
