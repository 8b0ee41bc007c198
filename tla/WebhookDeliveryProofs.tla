------------------------ MODULE WebhookDeliveryProofs ------------------------
(***************************************************************************)
(* Proofs about WebhookDelivery: when a delivery may be given up on, and   *)
(* how often a receiver may see it.                                        *)
(***************************************************************************)
EXTENDS WebhookDelivery, FiniteSetTheorems, TLAPS

-----------------------------------------------------------------------------
(* The inductive invariant                                                 *)

(* The attempts a worker carries are never ahead of the row's.             *)
ClaimInv == \A w \in Workers, d \in Deliveries :
    claimed[w][d].attempts <= rows[d].attempts

(* The batch of a worker: empty between passes, and of rows that exist.    *)
WorkerInv == \A w \in Workers :
    /\ pc[w] = "idle" => batch[w] = {}
    /\ pc[w] \in {"delivered", "failed"} => delivery[w] \in batch[w]
    /\ \A d \in batch[w] : rows[d].status # "absent"

Held(d) == \E w \in Workers : d \in batch[w]

(* Workers that have d in hand and have not had it accepted and answered:  *)
(* each may still send it, or put it back in the queue.                    *)
Unspent(d) == {w \in Workers :
    d \in batch[w] /\ ~(pc[w] = "delivered" /\ delivery[w] = d)}

(* The queue itself: a row that is due, or that is in nobody's hands and   *)
(* becomes due again, is good for one more claim.                          *)
Awaits(d) ==
    \/ rows[d].status = "absent"
    \/ rows[d].status = "pending" /\ (rows[d].due \/ ~Held(d))

Owed(d) == IF Awaits(d) THEN 1 ELSE 0

Excuses == faults["redelivery"] + faults["lost"] + faults["crash"]
             + faults["failure"] + faults["expiry"]

(* What was accepted, and what still may be, is paid for.                  *)
CountInv == \A d \in Deliveries :
    accepted[d] + Cardinality(Unspent(d)) + Owed(d) <= 1 + Excuses

Parts == ClaimInv /\ WorkerInv /\ GivenUpOnlyWhenSpent /\ CountInv

IInv == TypeOK /\ Parts

-----------------------------------------------------------------------------
(* Lemmas about the operators                                              *)

(* A bound that is used pays for one more, when it is one that excuses.    *)
Excusing == {"redelivery", "lost", "crash", "failure", "expiry"}

LEMMA FaultStep ==
    ASSUME TypeOK, NEW k \in Faults, Fault(k)
    PROVE  /\ faults' \in [Faults -> Nat]
           /\ k \in Excusing => Excuses' = Excuses + 1
           /\ k \notin Excusing => Excuses' = Excuses
<1>1. /\ faults' \in [Faults -> Nat] /\ faults[k] \in Nat
      /\ faults'[k] = faults[k] + 1
      /\ \A j \in Faults \ {k} : faults'[j] = faults[j]
  BY DEF TypeOK, Fault
<1>2. Excusing \subseteq Faults /\ \A j \in Excusing : faults[j] \in Nat
  BY DEF Excusing, Faults, TypeOK
<1>3. ASSUME k \in Excusing PROVE Excuses' = Excuses + 1
  BY <1>1, <1>2, <1>3 DEF Excuses, Excusing
<1>4. ASSUME k \notin Excusing PROVE Excuses' = Excuses
  BY <1>1, <1>2, <1>4 DEF Excuses, Excusing
<1> QED BY <1>1, <1>3, <1>4

LEMMA ExcusesType == ASSUME TypeOK PROVE Excuses \in Nat
BY DEF TypeOK, Excuses, Faults

(* Counting workers when only what one of them has in hand changes.        *)
Mine(w, d) == IF w \in Unspent(d) THEN 1 ELSE 0

LEMMA CountType ==
    ASSUME NEW d
    PROVE  Cardinality(Unspent(d)) \in Nat /\ IsFiniteSet(Unspent(d))
<1>1. Unspent(d) \subseteq Workers
  BY DEF Unspent
<1>2. IsFiniteSet(Unspent(d))
  BY <1>1, FS_Subset, DeliveryAssumption
<1> QED BY <1>2, FS_CardinalityType

LEMMA CountStep ==
    ASSUME NEW d, NEW w \in Workers,
           \A x \in Workers \ {w} : x \in Unspent(d)' <=> x \in Unspent(d)
    PROVE  Cardinality(Unspent(d)') = Cardinality(Unspent(d)) - Mine(w, d)
                                        + Mine(w, d)'
<1> DEFINE A == Unspent(d)
           B == Unspent(d)'
<1>1. IsFiniteSet(A) /\ Cardinality(A) \in Nat
  BY CountType
<1>2. A \subseteq Workers /\ B \subseteq Workers
  BY DEF Unspent
<1>3. CASE w \in A /\ w \in B
  <2>1. A = B
    BY <1>2, <1>3
  <2> QED BY <1>1, <1>3, <2>1 DEF Mine
<1>4. CASE w \notin A /\ w \notin B
  <2>1. A = B
    BY <1>2, <1>4
  <2> QED BY <1>1, <1>4, <2>1 DEF Mine
<1>5. CASE w \in A /\ w \notin B
  <2>1. B = A \ {w}
    BY <1>2, <1>5
  <2>2. Cardinality(A \ {w}) = Cardinality(A) - 1
    <3> HIDE DEF A
    <3> QED BY <1>1, <1>5, FS_RemoveElement
  <2> QED BY <1>1, <1>5, <2>1, <2>2 DEF Mine
<1>6. CASE w \notin A /\ w \in B
  <2>1. B = A \cup {w}
    BY <1>2, <1>6
  <2>2. Cardinality(A \cup {w}) = Cardinality(A) + 1
    <3> HIDE DEF A
    <3> QED BY <1>1, <1>6, FS_AddElement
  <2> QED BY <1>1, <1>6, <2>1, <2>2 DEF Mine
<1> QED BY <1>3, <1>4, <1>5, <1>6

-----------------------------------------------------------------------------
(* What the statements do to the rows                                      *)

RowsTyped == rows' \in [Deliveries -> DeliveryRecord]
OthersStay(d) == \A x \in Deliveries \ {d} : rows'[x] = rows[x]

LEMMA RowFields ==
    ASSUME TypeOK, NEW d \in Deliveries
    PROVE  /\ rows[d] \in DeliveryRecord /\ rows[d].status \in DeliveryStatus
           /\ rows[d].attempts \in Nat
BY DEF TypeOK, DeliveryRecord

(* The INSERT of a delivery, and requeue_delivery.                         *)
LEMMA Requeues ==
    ASSUME TypeOK, NEW d \in Deliveries,
           rows' = [rows EXCEPT ![d].status = "pending", ![d].due = TRUE]
    PROVE  /\ RowsTyped /\ OthersStay(d)
           /\ rows'[d].status = "pending"
           /\ rows'[d].attempts = rows[d].attempts
<1>1. rows' = [rows EXCEPT ![d] = [rows[d] EXCEPT !.status = "pending", !.due = TRUE]]
  BY DEF TypeOK
<1>2. /\ rows'[d] = [rows[d] EXCEPT !.status = "pending", !.due = TRUE]
      /\ OthersStay(d)
  BY <1>1, Zenon DEF TypeOK, OthersStay
<1>a. rows[d] \in DeliveryRecord /\ "pending" \in DeliveryStatus
  BY RowFields DEF DeliveryStatus
<1>3. /\ rows'[d] \in DeliveryRecord /\ rows'[d].status = "pending"
      /\ rows'[d].attempts = rows[d].attempts
  BY <1>a, <1>2 DEF DeliveryRecord
<1>4. RowsTyped
  BY <1>1, <1>2, <1>3, Zenon DEF TypeOK, RowsTyped
<1> QED BY <1>2, <1>3, <1>4

LEMMA Claims ==
    ASSUME TypeOK, NEW S \in SUBSET Deliveries, claim_due_deliveries(S)
    PROVE  /\ RowsTyped
           /\ \A d \in Deliveries \ S : rows'[d] = rows[d]
           /\ \A d \in S : /\ rows'[d].attempts = rows[d].attempts + 1
                           /\ rows'[d].status = rows[d].status
                           /\ ~rows'[d].due
<1>1. \A d \in S : rows'[d] = [rows[d] EXCEPT !.attempts = @ + 1, !.due = FALSE]
  BY DEF claim_due_deliveries
<1>2. \A d \in S : /\ rows'[d].attempts = rows[d].attempts + 1
                   /\ rows'[d].status = rows[d].status
                   /\ ~rows'[d].due
  BY <1>1, RowFields DEF DeliveryRecord
<1>3. \A d \in S : rows'[d] \in DeliveryRecord
  <2> SUFFICES ASSUME NEW d \in S PROVE rows'[d] \in DeliveryRecord
    OBVIOUS
  <2>1. rows[d].attempts + 1 \in Nat
    BY RowFields
  <2> QED BY <1>1, <2>1, RowFields, Zenon DEF DeliveryRecord
<1>4. RowsTyped
  BY <1>3, RowFields DEF claim_due_deliveries, RowsTyped
<1> QED BY <1>2, <1>4 DEF claim_due_deliveries

LEMMA Marks ==
    ASSUME TypeOK, NEW d \in Deliveries, mark_delivered(d)
    PROVE  /\ RowsTyped /\ OthersStay(d)
           /\ rows'[d].attempts = rows[d].attempts
           /\ Stored(d) => rows'[d].status = "delivered"
           /\ ~Stored(d) => rows'[d].status = rows[d].status
<1>1. CASE ~Stored(d)
  BY <1>1, Zenon DEF mark_delivered, RowsTyped, OthersStay, TypeOK
<1>2. CASE Stored(d)
  <2>1. rows' = [rows EXCEPT ![d] = [rows[d] EXCEPT !.status = "delivered"]]
    BY <1>2 DEF TypeOK, mark_delivered
  <2>2. /\ rows'[d] = [rows[d] EXCEPT !.status = "delivered"]
        /\ OthersStay(d)
    BY <2>1, Zenon DEF TypeOK, OthersStay
  <2>3. /\ rows'[d] \in DeliveryRecord /\ rows'[d].status = "delivered"
        /\ rows'[d].attempts = rows[d].attempts
    BY <2>2, RowFields, Zenon DEF DeliveryRecord, DeliveryStatus
  <2>4. RowsTyped
    BY <2>1, <2>2, <2>3, Zenon DEF TypeOK, RowsTyped
  <2> QED BY <1>2, <2>2, <2>3, <2>4
<1> QED BY <1>1, <1>2

LEMMA Records ==
    ASSUME TypeOK, NEW d \in Deliveries, NEW attempts,
           record_attempt_failure(d, attempts)
    PROVE  /\ RowsTyped /\ OthersStay(d)
           /\ rows'[d].attempts = rows[d].attempts
           /\ ~Stored(d) => rows'[d].status = rows[d].status
           /\ Stored(d) => /\ rows'[d].status = IF attempts >= MAX_ATTEMPTS
                                                THEN "failed" ELSE "pending"
                           /\ ~rows'[d].due
<1>1. CASE ~Stored(d)
  BY <1>1, Zenon DEF record_attempt_failure, RowsTyped, OthersStay, TypeOK
<1>2. CASE Stored(d)
  <2> DEFINE st == IF attempts >= MAX_ATTEMPTS THEN "failed" ELSE "pending"
  <2>0. st \in DeliveryStatus
    BY DEF DeliveryStatus
  <2> HIDE DEF st
  <2>1. rows' = [rows EXCEPT ![d] = [rows[d] EXCEPT !.status = st, !.due = FALSE]]
    BY <1>2 DEF TypeOK, record_attempt_failure, st
  <2>2. /\ rows'[d] = [rows[d] EXCEPT !.status = st, !.due = FALSE]
        /\ OthersStay(d)
    BY <2>1, Zenon DEF TypeOK, OthersStay
  <2>3. /\ rows'[d] \in DeliveryRecord /\ rows'[d].status = st
        /\ rows'[d].attempts = rows[d].attempts /\ rows'[d].due = FALSE
    BY <2>0, <2>2, RowFields, Zenon DEF DeliveryRecord
  <2>4. RowsTyped
    BY <2>1, <2>2, <2>3, Zenon DEF TypeOK, RowsTyped
  <2> QED BY <1>2, <2>2, <2>3, <2>4 DEF st
<1> QED BY <1>1, <1>2

LEMMA Dues ==
    ASSUME TypeOK, NEW d \in Deliveries, BecomeDue(d)
    PROVE  /\ RowsTyped /\ OthersStay(d)
           /\ rows'[d].status = "pending"
           /\ rows'[d].attempts = rows[d].attempts
<1>1. rows' = [rows EXCEPT ![d] = [rows[d] EXCEPT !.due = TRUE]]
      /\ rows[d].status = "pending"
  BY DEF TypeOK, BecomeDue
<1>2. /\ rows'[d] = [rows[d] EXCEPT !.due = TRUE]
      /\ OthersStay(d)
  BY <1>1, Zenon DEF TypeOK, OthersStay
<1>3. rows[d] \in DeliveryRecord
  BY RowFields
<1>4. /\ rows'[d] \in DeliveryRecord /\ rows'[d].status = "pending"
      /\ rows'[d].attempts = rows[d].attempts
  <2> DEFINE x == rows[d]
  <2>1. x \in DeliveryRecord /\ rows'[d] = [x EXCEPT !.due = TRUE]
    BY <1>2, <1>3
  <2>2. x.status = "pending" /\ x = rows[d]
    BY <1>1
  <2> HIDE DEF x
  <2>3. rows'[d] \in DeliveryRecord
    BY <2>1, Zenon DEF DeliveryRecord
  <2>4. rows'[d].status = x.status /\ rows'[d].attempts = x.attempts
    BY <2>1, Zenon DEF DeliveryRecord
  <2> QED BY <2>2, <2>3, <2>4, Zenon
<1>5. RowsTyped
  BY <1>1, <1>2, <1>4, Zenon DEF TypeOK, RowsTyped
<1> QED BY <1>2, <1>4, <1>5

LEMMA Cascades ==
    ASSUME TypeOK, NEW e \in Endpoints, DeleteEndpoint(e)
    PROVE  /\ RowsTyped
           /\ \A d \in Deliveries :
                /\ rows'[d].attempts = rows[d].attempts
                /\ rows'[d] = rows[d] \/ rows'[d].status = "gone"
<1>1. \A d \in Deliveries :
        LET x == [status |-> "gone", attempts |-> rows[d].attempts, due |-> FALSE]
        IN  x \in DeliveryRecord /\ x.status = "gone"
            /\ x.attempts = rows[d].attempts
  BY RowFields, Zenon DEF DeliveryRecord, DeliveryStatus
<1> QED BY <1>1, RowFields DEF DeleteEndpoint, RowsTyped

-----------------------------------------------------------------------------
(* Types, workers and the attempts of a row                                *)

(* What the worker is sending is one of its batch.                         *)
LEMMA Sending ==
    ASSUME TypeOK, WorkerInv, NEW w \in Workers,
           pc[w] \in {"delivered", "failed"}
    PROVE  delivery[w] \in Deliveries /\ delivery[w] \in batch[w]
           /\ rows[delivery[w]].status # "absent"
BY DEF TypeOK, WorkerInv

(* A row only moves forward: its attempts grow, it is not absent again,    *)
(* and it becomes failed only on the word of a worker's claim.             *)
Forward(d) ==
    /\ rows'[d].attempts >= rows[d].attempts
    /\ rows'[d].status = "absent" => rows[d].status = "absent"
    /\ rows'[d].status = "failed" =>
         \/ rows[d].status = "failed"
         \/ \E w \in Workers : claimed[w][d].attempts >= MAX_ATTEMPTS

LEMMA RowsStep ==
    ASSUME TypeOK, WorkerInv, [Next]_vars
    PROVE  RowsTyped /\ \A d \in Deliveries : Forward(d)
<1> DEFINE Goal == RowsTyped /\ \A d \in Deliveries : Forward(d)
<1>0. ASSUME rows' = rows PROVE Goal
  BY <1>0, RowFields DEF TypeOK, RowsTyped, Forward
<1>1. ASSUME NEW d \in Deliveries, EnqueueDelivery(d) \/ Redeliver(d) PROVE Goal
  <2>1. rows' = [rows EXCEPT ![d].status = "pending", ![d].due = TRUE]
    BY <1>1 DEF EnqueueDelivery, Redeliver, requeue_delivery
  <2>2. /\ RowsTyped /\ OthersStay(d) /\ rows'[d].status = "pending"
        /\ rows'[d].attempts = rows[d].attempts
    BY <2>1, Requeues
  <2> QED BY <2>2, RowFields DEF OthersStay, Forward
<1>2. ASSUME NEW e \in Endpoints, DeleteEndpoint(e) PROVE Goal
  BY <1>2, Cascades, RowFields DEF Forward
<1>3. ASSUME NEW w \in Workers, NEW S \in SUBSET Deliveries, ClaimDue(w, S)
      PROVE  Goal
  BY <1>3, Claims, RowFields DEF ClaimDue, Forward
<1>4. ASSUME NEW w \in Workers, MarkDelivered(w) PROVE Goal
  <2>1. delivery[w] \in Deliveries
    BY <1>4, Sending DEF MarkDelivered
  <2>2. CASE mark_delivered(delivery[w])
    BY <2>1, <2>2, Marks, RowFields DEF OthersStay, Forward
  <2> QED BY <1>0, <1>4, <2>2 DEF MarkDelivered
<1>5. ASSUME NEW w \in Workers, RecordFailure(w) PROVE Goal
  <2>1. delivery[w] \in Deliveries
    BY <1>5, Sending DEF RecordFailure
  <2>2. CASE record_attempt_failure(delivery[w], claimed[w][delivery[w]].attempts)
    BY <2>1, <2>2, Records, RowFields DEF OthersStay, Forward
  <2> QED BY <1>0, <1>5, <2>2 DEF RecordFailure
<1>6. ASSUME NEW d \in Deliveries, TimePasses(d) \/ LeaseExpires(d) PROVE Goal
  BY <1>6, Dues, RowFields DEF TimePasses, LeaseExpires, OthersStay, Forward
<1>7. ASSUME UNCHANGED vars \/ (\E e \in Endpoints : RotateSecret(e))
             \/ (\E w \in Workers : Crash(w))
             \/ (\E w \in Workers, d \in Deliveries : Deliver(w, d))
      PROVE  Goal
  BY <1>0, <1>7 DEF vars, RotateSecret, Crash, Deliver
<1> QED BY <1>1, <1>2, <1>3, <1>4, <1>5, <1>6, <1>7 DEF Next, Api, Work

(* What the workers have in hand after each step.                          *)
LEMMA WorkersStep ==
    ASSUME TypeOK, Parts, [Next]_vars
    PROVE  /\ pc' \in [Workers -> Locations]
           /\ batch' \in [Workers -> SUBSET Deliveries]
           /\ claimed' \in [Workers -> [Deliveries -> ClaimedDelivery]]
           /\ delivery' \in [Workers -> Deliveries \cup {NoDelivery}]
           /\ WorkerInv' /\ ClaimInv'
<1> DEFINE Typed == /\ pc' \in [Workers -> Locations]
                    /\ batch' \in [Workers -> SUBSET Deliveries]
                    /\ claimed' \in [Workers -> [Deliveries -> ClaimedDelivery]]
                    /\ delivery' \in [Workers -> Deliveries \cup {NoDelivery}]
           Goal == Typed /\ WorkerInv' /\ ClaimInv'
<1>0. /\ ClaimInv /\ WorkerInv
      /\ \A d \in Deliveries : Forward(d) /\ rows[d].attempts \in Nat
                               /\ rows'[d].attempts \in Nat
      /\ \A w \in Workers, d \in Deliveries : claimed[w][d].attempts \in Nat
  BY RowsStep, RowFields DEF Parts, RowsTyped, DeliveryRecord, TypeOK,
     ClaimedDelivery
<1>n. NoClaim \in ClaimedDelivery /\ NoClaim.attempts = 0
  BY DEF NoClaim, ClaimedDelivery
<1>1. ASSUME UNCHANGED workerVars PROVE Goal
  <2>1. Typed
    BY <1>1 DEF workerVars, TypeOK
  <2>2. WorkerInv'
    BY <1>0, <1>1 DEF workerVars, WorkerInv, Forward, TypeOK
  <2>3. ClaimInv'
    BY <1>0, <1>1 DEF workerVars, ClaimInv, Forward
  <2> QED BY <2>1, <2>2, <2>3
<1>2. ASSUME NEW w \in Workers, NEW S \in SUBSET Deliveries, ClaimDue(w, S)
      PROVE  Goal
  <2>1. /\ pc' = [pc EXCEPT ![w] = "deliver"]
        /\ batch' = [batch EXCEPT ![w] = S]
        /\ claimed' = [claimed EXCEPT ![w] = [d \in Deliveries |->
                    IF d \in S
                    THEN [attempts |-> rows[d].attempts + 1,
                          secret |-> secret[EndpointOf[d]]]
                    ELSE NoClaim]]
        /\ delivery' = delivery
        /\ \A d \in S : rows[d].status = "pending"
    BY <1>2 DEF ClaimDue, Goto, Due
  <2>2. \A d \in S : LET c == [attempts |-> rows[d].attempts + 1,
                               secret |-> secret[EndpointOf[d]]]
                     IN  c \in ClaimedDelivery /\ c.attempts = rows[d].attempts + 1
    BY <1>0, DeliveryAssumption DEF ClaimedDelivery, TypeOK
  <2>3. Typed
    BY <1>n, <2>1, <2>2 DEF TypeOK, Locations
  <2>4. WorkerInv'
    BY <1>0, <2>1 DEF WorkerInv, Forward, TypeOK
  <2>5. \A d \in S : rows'[d].attempts = rows[d].attempts + 1
    BY <1>2, Claims DEF ClaimDue
  <2>6. \A d \in Deliveries : claimed'[w][d].attempts =
                                IF d \in S THEN rows[d].attempts + 1 ELSE 0
    BY <1>n, <2>1, <2>2 DEF TypeOK
  <2>7. \A x \in Workers \ {w} : claimed'[x] = claimed[x]
    BY <2>1 DEF TypeOK
  <2>8. ClaimInv'
    BY <1>0, <2>5, <2>6, <2>7 DEF ClaimInv, Forward
  <2> QED BY <2>3, <2>4, <2>8
<1>3. ASSUME NEW w \in Workers, NEW d \in Deliveries, Deliver(w, d) PROVE Goal
  <2>1. /\ \E l \in {"delivered", "failed"} : pc' = [pc EXCEPT ![w] = l]
        /\ delivery' = [delivery EXCEPT ![w] = d] /\ d \in batch[w]
        /\ UNCHANGED <<batch, claimed, rows>>
    BY <1>3 DEF Deliver, Goto
  <2>2. Typed
    BY <2>1 DEF TypeOK, Locations
  <2>3. WorkerInv'
    BY <1>0, <2>1 DEF WorkerInv, TypeOK
  <2>4. ClaimInv'
    BY <1>0, <2>1 DEF ClaimInv
  <2> QED BY <2>2, <2>3, <2>4
<1>4. ASSUME NEW w \in Workers, NextDelivery(w) PROVE Goal
  <2>1. /\ pc' = [pc EXCEPT ![w] = IF batch[w] = {delivery[w]} THEN "idle"
                                   ELSE "deliver"]
        /\ batch' = [batch EXCEPT ![w] = @ \ {delivery[w]}]
        /\ claimed' = [claimed EXCEPT ![w][delivery[w]] = NoClaim]
        /\ delivery' = [delivery EXCEPT ![w] = NoDelivery]
    BY <1>4 DEF NextDelivery, Goto
  <2>2. Typed
    BY <1>n, <2>1 DEF TypeOK, Locations
  <2>3. WorkerInv'
    BY <1>0, <2>1 DEF WorkerInv, Forward, TypeOK
  <2>4. \A x \in Workers, d \in Deliveries :
          claimed'[x][d] = claimed[x][d] \/ claimed'[x][d] = NoClaim
    BY <2>1 DEF TypeOK
  <2>5. ClaimInv'
    BY <1>0, <1>n, <2>4 DEF ClaimInv, Forward
  <2> QED BY <2>2, <2>3, <2>5
<1>5. ASSUME NEW w \in Workers, Crash(w) PROVE Goal
  <2>1. /\ pc' = [pc EXCEPT ![w] = "idle"]
        /\ batch' = [batch EXCEPT ![w] = {}]
        /\ claimed' = [claimed EXCEPT ![w] = [d \in Deliveries |-> NoClaim]]
        /\ delivery' = [delivery EXCEPT ![w] = NoDelivery]
    BY <1>5 DEF Crash, Goto
  <2>2. Typed
    BY <1>n, <2>1 DEF TypeOK, Locations
  <2>3. WorkerInv'
    BY <1>0, <2>1 DEF WorkerInv, Forward, TypeOK
  <2>4. \A x \in Workers, d \in Deliveries :
          claimed'[x][d] = claimed[x][d] \/ claimed'[x][d] = NoClaim
    BY <2>1 DEF TypeOK
  <2>5. ClaimInv'
    BY <1>0, <1>n, <2>4 DEF ClaimInv, Forward
  <2> QED BY <2>2, <2>3, <2>5
<1>6. UNCHANGED vars \/ Api \/ (\E d \in Deliveries : TimePasses(d))
      \/ (\E d \in Deliveries : LeaseExpires(d)) => UNCHANGED workerVars
  BY DEF vars, Api, EnqueueDelivery, Redeliver, RotateSecret, DeleteEndpoint,
     TimePasses, LeaseExpires
<1> QED BY <1>1, <1>2, <1>3, <1>4, <1>5, <1>6
        DEF Next, Work, MarkDelivered, RecordFailure

(* Every step keeps the types.                                             *)
LEMMA TypeStep == ASSUME TypeOK, Parts, [Next]_vars PROVE TypeOK'
<1>1. /\ pc' \in [Workers -> Locations]
      /\ batch' \in [Workers -> SUBSET Deliveries]
      /\ claimed' \in [Workers -> [Deliveries -> ClaimedDelivery]]
      /\ delivery' \in [Workers -> Deliveries \cup {NoDelivery}]
  BY WorkersStep
<1>2. rows' \in [Deliveries -> DeliveryRecord]
  BY RowsStep DEF Parts, RowsTyped
<1>3. faults' \in [Faults -> Nat]
  <2>1. \/ UNCHANGED faults
        \/ \E k \in Faults : Fault(k)
    BY DEF Next, vars, Api, EnqueueDelivery, Redeliver, RotateSecret,
       DeleteEndpoint, ClaimDue, Work, Deliver, MarkDelivered, RecordFailure,
       Crash, TimePasses, LeaseExpires, Faults
  <2> QED BY <2>1, FaultStep DEF TypeOK
<1>4. endpoints' \in SUBSET Endpoints /\ secret' \in [Endpoints -> Nat]
  <2>1. \/ UNCHANGED <<endpoints, secret>>
        \/ endpoints' \subseteq endpoints /\ UNCHANGED secret
        \/ UNCHANGED endpoints
           /\ \E e \in Endpoints : secret' = [secret EXCEPT ![e] = @ + 1]
    <3>1. CASE Api
      BY <3>1 DEF Api, EnqueueDelivery, Redeliver, RotateSecret, DeleteEndpoint
    <3>2. CASE ~Api
      BY <3>2 DEF Next, vars, ClaimDue, Work, Deliver, MarkDelivered,
         RecordFailure, Crash, TimePasses, LeaseExpires
    <3> QED BY <3>1, <3>2
  <2> QED BY <2>1 DEF TypeOK
<1>5. accepted' \in [Deliveries -> Nat] /\ asked' \in SUBSET Deliveries
  <2>1. \/ UNCHANGED accepted
        \/ \E d \in Deliveries : accepted' = [accepted EXCEPT ![d] = @ + 1]
    <3>1. CASE Api
      BY <3>1 DEF Api, EnqueueDelivery, Redeliver, RotateSecret,
         DeleteEndpoint, observers
    <3>2. CASE ~Api
      BY <3>2 DEF Next, vars, ClaimDue, Work, Deliver, MarkDelivered,
         RecordFailure, Crash, TimePasses, LeaseExpires, observers
    <3> QED BY <3>1, <3>2
  <2>2. asked' \subseteq asked \cup Deliveries
    <3>1. CASE Api
      BY <3>1 DEF Api, EnqueueDelivery, Redeliver, RotateSecret,
         DeleteEndpoint, observers
    <3>2. CASE ~Api
      BY <3>2 DEF Next, vars, ClaimDue, Work, Deliver, MarkDelivered,
         RecordFailure, Crash, TimePasses, LeaseExpires, observers
    <3> QED BY <3>1, <3>2
  <2> QED BY <2>1, <2>2 DEF TypeOK
<1> QED BY <1>1, <1>2, <1>3, <1>4, <1>5 DEF TypeOK

(* GivenUpOnlyWhenSpent holds because no worker's view is ahead.           *)
LEMMA GivenUpStep ==
    ASSUME TypeOK, Parts, [Next]_vars
    PROVE  GivenUpOnlyWhenSpent'
<1>1. ASSUME NEW d \in Deliveries, rows'[d].status = "failed"
      PROVE  rows'[d].attempts >= MAX_ATTEMPTS
  <2>1. /\ Forward(d) /\ rows[d].attempts \in Nat /\ rows'[d].attempts \in Nat
        /\ MAX_ATTEMPTS \in Nat
        /\ \A w \in Workers : claimed[w][d].attempts \in Nat
                              /\ claimed[w][d].attempts <= rows[d].attempts
        /\ rows[d].status = "failed" => rows[d].attempts >= MAX_ATTEMPTS
    BY RowsStep, DeliveryAssumption DEF Parts, RowsTyped, DeliveryRecord,
       TypeOK, ClaimedDelivery, ClaimInv, GivenUpOnlyWhenSpent
  <2> QED BY <1>1, <2>1 DEF Forward
<1> QED BY <1>1 DEF GivenUpOnlyWhenSpent

-----------------------------------------------------------------------------
(* Counting                                                                *)

(* The books of one delivery: a step may add to what was accepted and what *)
(* still may be only as much as it adds to the excuses.                    *)
LEMMA Budget ==
    ASSUME TypeOK, TypeOK', CountInv, NEW d \in Deliveries, NEW w \in Workers,
           \A x \in Workers \ {w} : x \in Unspent(d)' <=> x \in Unspent(d),
           accepted'[d] + Mine(w, d)' + Owed(d)' - Excuses'
             <= accepted[d] + Mine(w, d) + Owed(d) - Excuses
    PROVE  accepted'[d] + Cardinality(Unspent(d)') + Owed(d)' <= 1 + Excuses'
<1>1. Cardinality(Unspent(d)') = Cardinality(Unspent(d)) - Mine(w, d)
                                   + Mine(w, d)'
  BY CountStep
<1>2. Cardinality(Unspent(d)) \in Nat /\ Excuses \in Nat /\ Excuses' \in Nat
  BY CountType, ExcusesType DEF TypeOK, Excuses, Faults
<1>3. accepted[d] \in Nat /\ accepted'[d] \in Nat
  BY DEF TypeOK
<1>4. Mine(w, d) \in Nat /\ Mine(w, d)' \in Nat /\ Owed(d) \in Nat
      /\ Owed(d)' \in Nat
  BY DEF Mine, Owed
<1>5. accepted[d] + Cardinality(Unspent(d)) + Owed(d) <= 1 + Excuses
  BY DEF CountInv
<1> QED BY <1>1, <1>2, <1>3, <1>4, <1>5

(* The same for a step of the API or of time.                              *)
LEMMA BudgetAtRest ==
    ASSUME TypeOK, TypeOK', CountInv, NEW d \in Deliveries,
           UNCHANGED <<workerVars, accepted>>,
           Owed(d)' - Excuses' <= Owed(d) - Excuses
    PROVE  accepted'[d] + Cardinality(Unspent(d)') + Owed(d)' <= 1 + Excuses'
<1>1. Unspent(d)' = Unspent(d)
  BY DEF Unspent, workerVars
<1>2. Cardinality(Unspent(d)) \in Nat /\ Excuses \in Nat /\ Excuses' \in Nat
  BY CountType, ExcusesType DEF TypeOK, Excuses, Faults
<1>3. accepted[d] \in Nat /\ accepted'[d] = accepted[d]
  BY DEF TypeOK
<1>4. Owed(d) \in Nat /\ Owed(d)' \in Nat
  BY DEF Owed
<1>5. accepted[d] + Cardinality(Unspent(d)) + Owed(d) <= 1 + Excuses
  BY DEF CountInv
<1> QED BY <1>1, <1>2, <1>3, <1>4, <1>5

(* A row that stays, in the same hands, is owed as much as before.         *)
LEMMA SameOwed ==
    ASSUME NEW d \in Deliveries, rows'[d] = rows[d], Held(d)' <=> Held(d)
    PROVE  Owed(d)' = Owed(d)
<1>1. Awaits(d)' <=> Awaits(d)
  BY DEF Awaits
<1> QED BY <1>1 DEF Owed

(* The API and the passing of time.                                        *)
LEMMA ApiCount ==
    ASSUME TypeOK, TypeOK', Parts,
           \/ Api
           \/ \E d \in Deliveries : TimePasses(d) \/ LeaseExpires(d)
    PROVE  CountInv'
<1>0. CountInv /\ UNCHANGED <<workerVars, accepted>>
  BY DEF Parts, Api, EnqueueDelivery, Redeliver, RotateSecret, DeleteEndpoint,
     TimePasses, LeaseExpires, observers
<1>1. \A d \in Deliveries : Held(d)' <=> Held(d)
  BY <1>0 DEF Held, workerVars
<1>2. \A d \in Deliveries : Owed(d) \in {0, 1} /\ Owed(d)' \in {0, 1}
  BY DEF Owed
<1>3. Excuses \in Nat /\ Excuses' \in Nat
  BY ExcusesType DEF TypeOK, Excuses, Faults
<1>4. SUFFICES ASSUME NEW d \in Deliveries
               PROVE  Owed(d)' - Excuses' <= Owed(d) - Excuses
  BY <1>0, BudgetAtRest DEF CountInv
<1>5. ASSUME NEW c \in Deliveries, EnqueueDelivery(c)
      PROVE  Owed(d)' - Excuses' <= Owed(d) - Excuses
  <2>1. Excuses' = Excuses /\ OthersStay(c) /\ Owed(c) = 1
    BY <1>5, Requeues DEF EnqueueDelivery, Excuses, Owed, Awaits
  <2>2. d # c => Owed(d)' = Owed(d)
    BY <1>1, <2>1, SameOwed DEF OthersStay
  <2> QED BY <1>2, <1>3, <2>1, <2>2
<1>6. ASSUME NEW c \in Deliveries, Redeliver(c)
      PROVE  Owed(d)' - Excuses' <= Owed(d) - Excuses
  <2>1. Excuses' = Excuses + 1
    BY <1>6, FaultStep DEF Redeliver, Faults, Excusing
  <2> QED BY <1>2, <1>3, <2>1
<1>7. ASSUME NEW e \in Endpoints, RotateSecret(e)
      PROVE  Owed(d)' - Excuses' <= Owed(d) - Excuses
  <2>1. Excuses' = Excuses /\ rows' = rows
    BY <1>7, FaultStep DEF RotateSecret, Faults, Excusing
  <2>2. Owed(d)' = Owed(d)
    BY <1>1, <2>1, SameOwed
  <2> QED BY <1>2, <1>3, <2>1, <2>2
<1>8. ASSUME NEW e \in Endpoints, DeleteEndpoint(e)
      PROVE  Owed(d)' - Excuses' <= Owed(d) - Excuses
  <2>1. Excuses' = Excuses
    BY <1>8 DEF DeleteEndpoint, Excuses
  <2>2. CASE rows'[d] = rows[d]
    BY <1>1, <1>2, <1>3, <2>1, <2>2, SameOwed
  <2>3. CASE rows'[d].status = "gone"
    <3>1. Owed(d)' = 0
      BY <2>3 DEF Owed, Awaits
    <3> QED BY <1>2, <1>3, <2>1, <3>1
  <2> QED BY <1>8, <2>2, <2>3, Cascades
<1>9. ASSUME NEW c \in Deliveries, TimePasses(c)
      PROVE  Owed(d)' - Excuses' <= Owed(d) - Excuses
  <2>1. Excuses' = Excuses /\ OthersStay(c)
    BY <1>9, Dues DEF TimePasses, Excuses
  <2>2. Owed(c) = 1
    <3>1. ~Held(c) /\ rows[c].status = "pending"
      BY <1>9 DEF TimePasses, BecomeDue, Held
    <3> QED BY <3>1 DEF Owed, Awaits
  <2>3. d # c => Owed(d)' = Owed(d)
    BY <1>1, <2>1, SameOwed DEF OthersStay
  <2> QED BY <1>2, <1>3, <2>1, <2>2, <2>3
<1>10. ASSUME NEW c \in Deliveries, LeaseExpires(c)
       PROVE  Owed(d)' - Excuses' <= Owed(d) - Excuses
  <2>1. Excuses' = Excuses + 1
    BY <1>10, FaultStep DEF LeaseExpires, Faults, Excusing
  <2> QED BY <1>2, <1>3, <2>1
<1> QED BY <1>5, <1>6, <1>7, <1>8, <1>9, <1>10 DEF Api

(* A step of worker w leaves what the others have in hand.                 *)
LEMMA OthersKeep ==
    ASSUME TypeOK, NEW w \in Workers,
           \A x \in Workers \ {w} : /\ pc'[x] = pc[x] /\ batch'[x] = batch[x]
                                    /\ delivery'[x] = delivery[x]
    PROVE  \A d \in Deliveries, x \in Workers \ {w} :
              x \in Unspent(d)' <=> x \in Unspent(d)
BY DEF Unspent

(* Taking a lease moves what the queue owed into the worker's hands.       *)
LEMMA ClaimCount ==
    ASSUME TypeOK, TypeOK', Parts, NEW w \in Workers,
           NEW S \in SUBSET Deliveries, ClaimDue(w, S)
    PROVE  CountInv'
<1>1. /\ pc[w] = "idle" /\ batch[w] = {} /\ CountInv
      /\ pc' = [pc EXCEPT ![w] = "deliver"] /\ batch' = [batch EXCEPT ![w] = S]
      /\ delivery' = delivery /\ accepted' = accepted /\ Excuses' = Excuses
  BY DEF ClaimDue, Goto, Parts, WorkerInv, observers, Excuses
<1>2. \A d \in Deliveries, x \in Workers \ {w} :
        x \in Unspent(d)' <=> x \in Unspent(d)
  BY <1>1, OthersKeep DEF TypeOK
<1>3. \A d \in Deliveries : Mine(w, d) = 0 /\ Mine(w, d)' \in {0, 1}
                            /\ (d \notin S => Mine(w, d)' = 0)
  BY <1>1 DEF Mine, Unspent, TypeOK
<1>4. \A d \in S : Owed(d) = 1 /\ Owed(d)' = 0
  <2> SUFFICES ASSUME NEW d \in S PROVE Owed(d) = 1 /\ Owed(d)' = 0
    OBVIOUS
  <2>1. rows[d].status = "pending" /\ rows[d].due
    BY DEF ClaimDue, Due
  <2>2. rows'[d].status = "pending" /\ ~rows'[d].due
    BY <2>1, Claims DEF ClaimDue
  <2>3. Held(d)'
    BY <1>1 DEF Held, TypeOK
  <2>4. Awaits(d) /\ ~Awaits(d)'
    BY <2>1, <2>2, <2>3 DEF Awaits
  <2> QED BY <2>4 DEF Owed
<1>5. \A d \in Deliveries \ S : Owed(d)' = Owed(d)
  <2> SUFFICES ASSUME NEW d \in Deliveries \ S PROVE Owed(d)' = Owed(d)
    OBVIOUS
  <2>1. rows'[d] = rows[d]
    BY Claims DEF ClaimDue
  <2>2. Held(d)' <=> Held(d)
    BY <1>1 DEF Held, TypeOK
  <2> QED BY <2>1, <2>2, SameOwed
<1>6. \A d \in Deliveries : /\ accepted'[d] = accepted[d] /\ accepted[d] \in Nat
                            /\ Owed(d) \in Nat
  BY <1>1 DEF TypeOK, Owed
<1>7. Excuses \in Nat
  BY ExcusesType
<1>8. ASSUME NEW d \in Deliveries
      PROVE  accepted'[d] + Mine(w, d)' + Owed(d)' - Excuses'
               <= accepted[d] + Mine(w, d) + Owed(d) - Excuses
  BY <1>1, <1>3, <1>4, <1>5, <1>6, <1>7
<1> QED BY <1>1, <1>2, <1>8, Budget DEF CountInv

(* An accepted request is one the worker had still to send; an answer that *)
(* is lost leaves the worker where it may send again, and is an excuse.    *)
LEMMA DeliverCount ==
    ASSUME TypeOK, TypeOK', Parts, NEW w \in Workers, NEW c \in Deliveries,
           Deliver(w, c)
    PROVE  CountInv'
<1>1. /\ pc[w] = "deliver" /\ c \in batch[w] /\ CountInv
      /\ delivery' = [delivery EXCEPT ![w] = c]
      /\ UNCHANGED <<rows, batch>>
  BY DEF Deliver, Parts
<1>2. \/ /\ accepted' = [accepted EXCEPT ![c] = @ + 1]
         /\ pc' = [pc EXCEPT ![w] = "delivered"] /\ Excuses' = Excuses
      \/ /\ accepted' = [accepted EXCEPT ![c] = @ + 1]
         /\ pc' = [pc EXCEPT ![w] = "failed"] /\ Excuses' = Excuses + 1
      \/ /\ accepted' = accepted
         /\ pc' = [pc EXCEPT ![w] = "failed"] /\ Excuses' = Excuses
  <2>1. UNCHANGED faults => Excuses' = Excuses
    BY DEF Excuses
  <2>2. Fault("lost") => Excuses' = Excuses + 1
    BY FaultStep DEF Faults, Excusing
  <2>3. Fault("rejection") => Excuses' = Excuses
    BY FaultStep DEF Faults, Excusing
  <2> QED BY <2>1, <2>2, <2>3 DEF Deliver, Goto
<1>3. \A d \in Deliveries, x \in Workers \ {w} :
        x \in Unspent(d)' <=> x \in Unspent(d)
  <2>1. \A x \in Workers \ {w} : /\ pc'[x] = pc[x] /\ batch'[x] = batch[x]
                                 /\ delivery'[x] = delivery[x]
    BY <1>1, <1>2 DEF TypeOK
  <2> QED BY <2>1, OthersKeep
<1>4. \A d \in Deliveries : Owed(d)' = Owed(d) /\ Owed(d) \in Nat
  <2>1. \A d \in Deliveries : Held(d)' <=> Held(d)
    BY <1>1 DEF Held
  <2> QED BY <1>1, <2>1, SameOwed DEF Owed
<1>5. /\ Mine(w, c) = 1
      /\ Mine(w, c)' = IF pc'[w] = "delivered" THEN 0 ELSE 1
      /\ \A d \in Deliveries \ {c} : Mine(w, d)' = Mine(w, d)
                                     /\ Mine(w, d) \in Nat
  BY <1>1 DEF Mine, Unspent, TypeOK
<1>6. pc'[w] = "delivered" \/ pc'[w] = "failed"
  BY <1>2 DEF TypeOK
<1>7. Excuses \in Nat /\ \A d \in Deliveries : accepted[d] \in Nat
  BY ExcusesType DEF TypeOK
<1>8. ASSUME NEW d \in Deliveries
      PROVE  accepted'[d] + Mine(w, d)' + Owed(d)' - Excuses'
               <= accepted[d] + Mine(w, d) + Owed(d) - Excuses
  <2>1. CASE d = c
    <3>1. CASE accepted'[c] = accepted[c] + 1 /\ Mine(w, c)' = 0
               /\ Excuses' = Excuses
      BY <1>4, <1>5, <1>7, <2>1, <3>1
    <3>2. CASE accepted'[c] = accepted[c] + 1 /\ Mine(w, c)' = 1
               /\ Excuses' = Excuses + 1
      BY <1>4, <1>5, <1>7, <2>1, <3>2
    <3>3. CASE accepted'[c] = accepted[c] /\ Mine(w, c)' = 1
               /\ Excuses' = Excuses
      BY <1>4, <1>5, <1>7, <2>1, <3>3
    <3> QED BY <1>2, <1>5, <3>1, <3>2, <3>3 DEF TypeOK
  <2>2. CASE d # c
    <3>1. accepted'[d] = accepted[d] /\ Excuses' \in {Excuses, Excuses + 1}
      BY <1>2, <2>2 DEF TypeOK
    <3> QED BY <1>4, <1>5, <1>7, <2>2, <3>1
  <2> QED BY <2>1, <2>2
<1> QED BY <1>1, <1>3, <1>8, Budget DEF CountInv

(* Going on to the next delivery: the rest of the batch stays in hand.     *)
LEMMA NextCount ==
    ASSUME TypeOK, TypeOK', Parts, NEW w \in Workers, NextDelivery(w),
           NEW c \in Deliveries, c = delivery[w], OthersStay(c),
           pc[w] \in {"delivered", "failed"},
           UNCHANGED accepted, Excuses' \in {Excuses, Excuses + 1},
           Owed(c)' - Excuses' <= Mine(w, c) + Owed(c) - Excuses
    PROVE  CountInv'
<1>1. /\ CountInv
      /\ \E l \in {"idle", "deliver"} : pc' = [pc EXCEPT ![w] = l]
      /\ batch' = [batch EXCEPT ![w] = @ \ {c}]
      /\ delivery' = [delivery EXCEPT ![w] = NoDelivery]
  BY DEF NextDelivery, Goto, Parts
<1>2. \A d \in Deliveries, x \in Workers \ {w} :
        x \in Unspent(d)' <=> x \in Unspent(d)
  <2>1. \A x \in Workers \ {w} : /\ pc'[x] = pc[x] /\ batch'[x] = batch[x]
                                 /\ delivery'[x] = delivery[x]
    BY <1>1 DEF TypeOK
  <2> QED BY <2>1, OthersKeep
<1>3. /\ Mine(w, c)' = 0
      /\ \A d \in Deliveries \ {c} : Mine(w, d)' = Mine(w, d)
  BY <1>1 DEF Mine, Unspent, TypeOK
<1>4. \A d \in Deliveries : Mine(w, d) \in Nat /\ Owed(d) \in Nat
                            /\ Owed(d)' \in Nat
  BY DEF Mine, Owed
<1>5. \A d \in Deliveries \ {c} : Owed(d)' = Owed(d)
  <2> SUFFICES ASSUME NEW d \in Deliveries \ {c} PROVE Owed(d)' = Owed(d)
    OBVIOUS
  <2>1. \A x \in Workers : d \in batch'[x] <=> d \in batch[x]
    BY <1>1 DEF TypeOK
  <2>2. Held(d)' <=> Held(d)
    BY <2>1 DEF Held
  <2> QED BY <2>2, SameOwed DEF OthersStay
<1>6. Excuses \in Nat /\ \A d \in Deliveries : accepted[d] \in Nat
  BY ExcusesType DEF TypeOK
<1>7. ASSUME NEW d \in Deliveries
      PROVE  accepted'[d] + Mine(w, d)' + Owed(d)' - Excuses'
               <= accepted[d] + Mine(w, d) + Owed(d) - Excuses
  <2>1. CASE d = c
    BY <1>3, <1>4, <1>6, <2>1
  <2>2. CASE d # c
    BY <1>3, <1>4, <1>5, <1>6, <2>2
  <2> QED BY <2>1, <2>2
<1> QED BY <1>1, <1>2, <1>7, Budget DEF CountInv

(* What was accepted and is marked is settled, unless the statement fails; *)
(* what was not accepted goes back where the worker took it from.          *)
LEMMA RecordCount ==
    ASSUME TypeOK, TypeOK', Parts, NEW w \in Workers,
           MarkDelivered(w) \/ RecordFailure(w)
    PROVE  CountInv'
<1>1. /\ pc[w] \in {"delivered", "failed"} /\ NextDelivery(w)
      /\ UNCHANGED accepted
  BY DEF MarkDelivered, RecordFailure, observers
<1>2. PICK c \in Deliveries : /\ c = delivery[w] /\ c \in batch[w]
                              /\ rows[c].status # "absent"
  BY <1>1, Sending DEF Parts
<1>3. OthersStay(c)
  BY <1>2, Marks, Records DEF MarkDelivered, RecordFailure, OthersStay
<1>4. Excuses \in Nat /\ Owed(c) \in {0, 1} /\ Owed(c)' \in {0, 1}
      /\ Mine(w, c) \in {0, 1}
  BY ExcusesType DEF Owed, Mine
<1>5. (UNCHANGED faults => Excuses' = Excuses)
      /\ (Fault("failure") => Excuses' = Excuses + 1)
  BY FaultStep DEF Faults, Excusing, Excuses
<1>6. Excuses' \in {Excuses, Excuses + 1}
  BY <1>5 DEF MarkDelivered, RecordFailure
<1>7. Owed(c)' - Excuses' <= Mine(w, c) + Owed(c) - Excuses
  <2>1. CASE RecordFailure(w)
    <3>1. Mine(w, c) = 1
      BY <1>2, <2>1 DEF RecordFailure, Mine, Unspent
    <3> QED BY <1>4, <1>6, <3>1
  <2>2. CASE MarkDelivered(w) /\ Excuses' = Excuses + 1
    BY <1>4, <2>2
  <2>3. CASE MarkDelivered(w) /\ Excuses' # Excuses + 1
    <3>1. mark_delivered(c) /\ Excuses' = Excuses
      BY <1>2, <1>5, <2>3 DEF MarkDelivered
    <3>2. rows'[c].status \notin {"absent", "pending"}
      BY <1>2, <3>1, Marks, RowFields DEF Stored, DeliveryStatus
    <3>3. Owed(c)' = 0
      BY <3>2 DEF Owed, Awaits
    <3> QED BY <1>4, <3>1, <3>3
  <2> QED BY <2>1, <2>2, <2>3
<1> QED BY <1>1, <1>2, <1>3, <1>6, <1>7, NextCount

(* A crash loses a worker's hold on everything, and is an excuse.          *)
LEMMA CrashCount ==
    ASSUME TypeOK, TypeOK', Parts, NEW w \in Workers, Crash(w)
    PROVE  CountInv'
<1>1. /\ CountInv /\ pc' = [pc EXCEPT ![w] = "idle"]
      /\ batch' = [batch EXCEPT ![w] = {}] /\ UNCHANGED accepted
      /\ delivery' = [delivery EXCEPT ![w] = NoDelivery]
  BY DEF Crash, Goto, Parts, observers
<1>2. \A d \in Deliveries, x \in Workers \ {w} :
        x \in Unspent(d)' <=> x \in Unspent(d)
  <2>1. \A x \in Workers \ {w} : /\ pc'[x] = pc[x] /\ batch'[x] = batch[x]
                                 /\ delivery'[x] = delivery[x]
    BY <1>1 DEF TypeOK
  <2> QED BY <2>1, OthersKeep
<1>3. Excuses' = Excuses + 1 /\ Excuses \in Nat
  BY FaultStep, ExcusesType DEF Crash, Faults, Excusing
<1>4. \A d \in Deliveries : /\ Mine(w, d)' = 0 /\ Mine(w, d) \in Nat
                            /\ Owed(d) \in {0, 1} /\ Owed(d)' \in {0, 1}
                            /\ accepted[d] \in Nat
  BY <1>1 DEF Mine, Unspent, Owed, TypeOK
<1>5. ASSUME NEW d \in Deliveries
      PROVE  accepted'[d] + Mine(w, d)' + Owed(d)' - Excuses'
               <= accepted[d] + Mine(w, d) + Owed(d) - Excuses
  BY <1>1, <1>3, <1>4
<1> QED BY <1>1, <1>2, <1>5, Budget DEF CountInv

-----------------------------------------------------------------------------
(* The theorems                                                            *)

LEMMA InductiveStep == ASSUME IInv, [Next]_vars PROVE IInv'
<1>1. TypeOK /\ Parts
  BY DEF IInv
<1>2. TypeOK' /\ WorkerInv' /\ ClaimInv' /\ GivenUpOnlyWhenSpent'
  BY <1>1, TypeStep, WorkersStep, GivenUpStep
<1>3. CASE UNCHANGED vars
  <2>1. CountInv'
    BY <1>1, <1>3 DEF Parts, CountInv, vars, workerVars, observers, Unspent,
       Owed, Awaits, Held, Excuses
  <2> QED BY <1>2, <2>1 DEF IInv, Parts
<1>4. CASE Next
  <2>1. CountInv'
    BY <1>1, <1>2, <1>4, ApiCount, ClaimCount, DeliverCount, RecordCount,
       CrashCount DEF Next, Work
  <2> QED BY <1>2, <2>1 DEF IInv, Parts
<1> QED BY <1>3, <1>4

LEMMA InitInv == ASSUME Init PROVE IInv
<1>1. TypeOK
  <2>1. [status |-> "absent", attempts |-> 0, due |-> FALSE] \in DeliveryRecord
    BY DEF DeliveryRecord, DeliveryStatus
  <2>2. NoClaim \in ClaimedDelivery
    BY DEF NoClaim, ClaimedDelivery
  <2> QED BY <2>1, <2>2 DEF Init, TypeOK, Locations
<1>2. ClaimInv /\ WorkerInv /\ GivenUpOnlyWhenSpent
  BY DEF Init, ClaimInv, WorkerInv, GivenUpOnlyWhenSpent, NoClaim
<1>3. ASSUME NEW d \in Deliveries
      PROVE  accepted[d] + Cardinality(Unspent(d)) + Owed(d) <= 1 + Excuses
  <2>1. Unspent(d) = {}
    BY DEF Init, Unspent
  <2>2. Cardinality(Unspent(d)) = 0
    BY <2>1, FS_EmptySet
  <2>3. accepted[d] = 0 /\ Owed(d) \in {0, 1} /\ Excuses \in Nat
    BY <1>1, ExcusesType DEF Init, Owed
  <2> QED BY <2>2, <2>3
<1> QED BY <1>1, <1>2, <1>3 DEF IInv, Parts, CountInv

LEMMA Invariance == Spec => []IInv
BY InitInv, InductiveStep, PTL DEF Spec

(* Type correctness of WebhookDelivery, for every instance.                *)
THEOREM TypeCorrect == Spec => []TypeOK
BY Invariance, PTL DEF IInv

(* GivenUpOnlyWhenSpent, for every number of workers and every value of    *)
(* MAX_ATTEMPTS: no stale view of a row gives a delivery up too early.     *)
THEOREM GivenUpWhenSpent == Spec => []GivenUpOnlyWhenSpent
BY Invariance, PTL DEF IInv, Parts

(* DuplicatesHaveACause, for every instance: however many workers, batches *)
(* and faults there are, each duplicate is paid for by one of them.        *)
THEOREM DuplicatesAreCaused == Spec => []DuplicatesHaveACause
<1>1. IInv => DuplicatesHaveACause
  <2> SUFFICES ASSUME IInv, NEW d \in Deliveries
               PROVE  accepted[d] <= 1 + Excuses
    BY DEF DuplicatesHaveACause, Excuses, IInv, TypeOK, Faults
  <2>1. /\ accepted[d] + Cardinality(Unspent(d)) + Owed(d) <= 1 + Excuses
        /\ accepted[d] \in Nat /\ Excuses \in Nat
    BY ExcusesType DEF IInv, Parts, CountInv, TypeOK
  <2>2. Cardinality(Unspent(d)) \in Nat /\ Owed(d) \in Nat
    BY CountType DEF Owed
  <2> QED BY <2>1, <2>2
<1> QED BY <1>1, Invariance, PTL
=============================================================================
