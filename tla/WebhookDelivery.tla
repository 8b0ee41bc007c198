--------------------------- MODULE WebhookDelivery ---------------------------
(***************************************************************************)
(* The webhook_deliveries table and the delivery workers that drain it:    *)
(* claim under a lease, one signed request, then one statement to record   *)
(* the answer.  The API redelivers, rotates secrets and deletes endpoints  *)
(* while requests are in flight.                                           *)
(*                                                                         *)
(* The receiver is external: it answers 2xx or not, checks the signature   *)
(* against the secret that is current when the request arrives, and its    *)
(* answer may be lost.  As in Dispatcher, `due' is next_attempt_at <= now. *)
(***************************************************************************)
EXTENDS Naturals, FiniteSets

CONSTANTS
    Workers,         \* processes running run_webhook_loop
    Endpoints,       \* webhook endpoints of the organization
    Deliveries,      \* rows of webhook_deliveries
    EndpointOf,      \* the endpoint of each delivery
    NoDelivery,      \* a worker between two deliveries
    BatchSize,       \* LIMIT of a claim
    MAX_ATTEMPTS,    \* failed attempts before a delivery is given up on
    MaxRejections,   \* bound: valid requests that are not answered 2xx
    MaxLost,         \* bound: accepted requests whose answer never arrives
    MaxFailures,     \* bound: failed statements
    MaxCrashes,      \* bound: worker crashes
    MaxExpiries,     \* bound: leases that run out under a working worker
    MaxRedeliveries, \* bound: redeliver requests
    MaxRotations     \* bound: rotate_secret requests

ASSUME DeliveryAssumption ==
    /\ EndpointOf \in [Deliveries -> Endpoints]
    /\ NoDelivery \notin Deliveries /\ IsFiniteSet(Workers)
    /\ BatchSize \in Nat \ {0} /\ MAX_ATTEMPTS \in Nat \ {0}
    /\ {MaxRejections, MaxLost, MaxFailures, MaxCrashes, MaxExpiries,
        MaxRedeliveries, MaxRotations} \subseteq Nat

VARIABLES
    endpoints,    \* endpoints that exist
    secret,       \* secret[e]: version of the signing secret
    rows,         \* rows[d]: the webhook_deliveries row
    pc,           \* pc[w]: where worker w is in run_once
    batch,        \* batch[w]: claimed deliveries this pass has not recorded
    claimed,      \* claimed[w][d]: the ClaimedDelivery, as of the claim
    delivery,     \* delivery[w]: the one being sent
    accepted,     \* observer: requests for d the receiver took in
    asked,        \* observer: redelivered with no worker at it, and not sent since
    faults        \* how much of each bound is used

workerVars == <<pc, batch, claimed, delivery>>
observers  == <<accepted, asked>>
vars == <<endpoints, secret, rows, workerVars, observers, faults>>

-----------------------------------------------------------------------------
(* State                                                                   *)

DeliveryStatus == {"absent", "pending", "delivered", "failed", "gone"}
DeliveryRecord == [status : DeliveryStatus, attempts : Nat, due : BOOLEAN]
ClaimedDelivery == [attempts : Nat, secret : Nat]
Locations == {"idle", "deliver", "delivered", "failed"}
Faults == {"rejection", "lost", "failure", "crash", "expiry", "redelivery",
           "rotation"}

Bound == [rejection |-> MaxRejections, lost |-> MaxLost,
          failure |-> MaxFailures, crash |-> MaxCrashes,
          expiry |-> MaxExpiries, redelivery |-> MaxRedeliveries,
          rotation |-> MaxRotations]

TypeOK ==
    /\ endpoints \in SUBSET Endpoints
    /\ secret \in [Endpoints -> Nat]
    /\ rows \in [Deliveries -> DeliveryRecord]
    /\ pc \in [Workers -> Locations]
    /\ batch \in [Workers -> SUBSET Deliveries]
    /\ claimed \in [Workers -> [Deliveries -> ClaimedDelivery]]
    /\ delivery \in [Workers -> Deliveries \cup {NoDelivery}]
    /\ accepted \in [Deliveries -> Nat]
    /\ asked \in SUBSET Deliveries
    /\ faults \in [Faults -> Nat]

NoClaim == [attempts |-> 0, secret |-> 0]

Init ==
    /\ endpoints = Endpoints
    /\ secret = [e \in Endpoints |-> 0]
    /\ rows = [d \in Deliveries |->
                 [status |-> "absent", attempts |-> 0, due |-> FALSE]]
    /\ pc = [w \in Workers |-> "idle"]
    /\ batch = [w \in Workers |-> {}]
    /\ claimed = [w \in Workers |-> [d \in Deliveries |-> NoClaim]]
    /\ delivery = [w \in Workers |-> NoDelivery]
    /\ accepted = [d \in Deliveries |-> 0]
    /\ asked = {}
    /\ faults = [k \in Faults |-> 0]

Stored(d) == rows[d].status \in {"pending", "delivered", "failed"}

(* Uses up one of the bound named k.                                       *)
Fault(k) ==
    /\ faults[k] < Bound[k]
    /\ faults' = [faults EXCEPT ![k] = @ + 1]

Goto(w, l) == pc' = [pc EXCEPT ![w] = l]

-----------------------------------------------------------------------------
(* The statements of WebhookRepository                                     *)

(* Mutant: a claim takes no lease.                                         *)
claim_due_deliveries_unleased(S) ==
    rows' = [d \in Deliveries |->
               IF d \in S THEN [rows[d] EXCEPT !.attempts = @ + 1] ELSE rows[d]]

(* The lease: other workers do not see the row until it is due again.      *)
claim_due_deliveries(S) ==
    rows' = [d \in Deliveries |->
               IF d \in S
               THEN [rows[d] EXCEPT !.attempts = @ + 1, !.due = FALSE]
               ELSE rows[d]]

(* Updates and deletes by id do nothing to a row that is no longer there.  *)
mark_delivered(d) ==
    rows' = IF Stored(d) THEN [rows EXCEPT ![d].status = "delivered"] ELSE rows

(* Mutant: the attempt just made is counted twice.                         *)
record_attempt_failure_early(d, attempts) ==
    LET status == IF attempts + 1 >= MAX_ATTEMPTS THEN "failed" ELSE "pending" IN
    rows' = IF Stored(d)
            THEN [rows EXCEPT ![d].status = status, ![d].due = FALSE]
            ELSE rows

(* The decision to give up is made on the attempts returned by the claim.  *)
record_attempt_failure(d, attempts) ==
    LET status == IF attempts >= MAX_ATTEMPTS THEN "failed" ELSE "pending" IN
    rows' = IF Stored(d)
            THEN [rows EXCEPT ![d].status = status, ![d].due = FALSE]
            ELSE rows

(* Mutant: a row that has left the queue is not put back.                  *)
requeue_delivery_due(d) == rows' = [rows EXCEPT ![d].due = TRUE]

requeue_delivery(d) ==
    rows' = [rows EXCEPT ![d].status = "pending", ![d].due = TRUE]

-----------------------------------------------------------------------------
(* The API                                                                 *)

(* WebhookService::enqueue_deliveries, called by the outbox dispatcher.    *)
EnqueueDelivery(d) ==
    /\ rows[d].status = "absent"
    /\ EndpointOf[d] \in endpoints
    /\ rows' = [rows EXCEPT ![d].status = "pending", ![d].due = TRUE]
    /\ UNCHANGED <<endpoints, secret, workerVars, observers, faults>>

(* WebhookService::redeliver: any row, whatever its status.                *)
Redeliver(d) ==
    /\ Stored(d)
    /\ requeue_delivery(d)
    /\ asked' = IF \E w \in Workers : d \in batch[w] THEN asked
                ELSE asked \cup {d}
    /\ Fault("redelivery")
    /\ UNCHANGED <<endpoints, secret, workerVars, accepted>>

(* WebhookService::rotate_secret.                                          *)
RotateSecret(e) ==
    /\ e \in endpoints
    /\ secret' = [secret EXCEPT ![e] = @ + 1]
    /\ Fault("rotation")
    /\ UNCHANGED <<endpoints, rows, workerVars, observers>>

(* WebhookService::delete: the delivery log goes with the endpoint.        *)
DeleteEndpoint(e) ==
    /\ e \in endpoints
    /\ endpoints' = endpoints \ {e}
    /\ rows' = [d \in Deliveries |->
                  IF EndpointOf[d] = e
                  THEN [status |-> "gone", attempts |-> rows[d].attempts,
                        due |-> FALSE]
                  ELSE rows[d]]
    /\ asked' = {d \in asked : EndpointOf[d] # e}
    /\ UNCHANGED <<secret, workerVars, accepted, faults>>

-----------------------------------------------------------------------------
(* The worker: Deliverer::run_once                                         *)

(* Mutant: the claim leaves out rows whose attempts are spent.             *)
Due_unspent(d) ==
    rows[d].status = "pending" /\ rows[d].due /\ rows[d].attempts < MAX_ATTEMPTS

(* The WHERE of claim_due_deliveries.                                      *)
Due(d) == rows[d].status = "pending" /\ rows[d].due

ClaimDue(w, S) ==
    /\ pc[w] = "idle"
    /\ S # {} /\ Cardinality(S) <= BatchSize
    /\ \A d \in S : Due(d)
    /\ claim_due_deliveries(S)
    /\ batch' = [batch EXCEPT ![w] = S]
    /\ claimed' = [claimed EXCEPT ![w] = [d \in Deliveries |->
                    IF d \in S
                    THEN [attempts |-> rows[d].attempts + 1,
                          secret |-> secret[EndpointOf[d]]]
                    ELSE NoClaim]]
    /\ Goto(w, "deliver")
    /\ UNCHANGED <<endpoints, secret, delivery, observers, faults>>

(* The receiver's check of SIGNATURE_HEADER.                               *)
Verifies(w, d) == claimed[w][d].secret = secret[EndpointOf[d]]

(* deliver(), up to the answer: 2xx; anything else, or no connection; or a *)
(* time-out after the receiver took the request in.                        *)
Deliver(w, d) ==
    /\ pc[w] = "deliver"
    /\ d \in batch[w]
    /\ delivery' = [delivery EXCEPT ![w] = d]
    /\ \/ /\ Verifies(w, d)
          /\ accepted' = [accepted EXCEPT ![d] = @ + 1]
          /\ Goto(w, "delivered")
          /\ UNCHANGED faults
       \/ /\ Verifies(w, d)
          /\ accepted' = [accepted EXCEPT ![d] = @ + 1]
          /\ Goto(w, "failed")
          /\ Fault("lost")
       \/ /\ \/ ~Verifies(w, d) /\ UNCHANGED faults
             \/ Fault("rejection")
          /\ Goto(w, "failed")
          /\ UNCHANGED accepted
    /\ asked' = asked \ {d}
    /\ UNCHANGED <<endpoints, secret, rows, batch, claimed>>

(* On to the next delivery of the batch.                                   *)
NextDelivery(w) ==
    /\ Goto(w, IF batch[w] = {delivery[w]} THEN "idle" ELSE "deliver")
    /\ batch' = [batch EXCEPT ![w] = @ \ {delivery[w]}]
    /\ claimed' = [claimed EXCEPT ![w][delivery[w]] = NoClaim]
    /\ delivery' = [delivery EXCEPT ![w] = NoDelivery]

(* A statement that fails is only logged, whether it committed or not.     *)
MarkDelivered(w) ==
    /\ pc[w] = "delivered"
    /\ \/ mark_delivered(delivery[w]) /\ UNCHANGED faults
       \/ (UNCHANGED rows \/ mark_delivered(delivery[w])) /\ Fault("failure")
    /\ NextDelivery(w)
    /\ UNCHANGED <<endpoints, secret, observers>>

RecordFailure(w) ==
    LET d == delivery[w]
        attempts == claimed[w][d].attempts
    IN
    /\ pc[w] = "failed"
    /\ \/ record_attempt_failure(d, attempts) /\ UNCHANGED faults
       \/ /\ UNCHANGED rows \/ record_attempt_failure(d, attempts)
          /\ Fault("failure")
    /\ NextDelivery(w)
    /\ UNCHANGED <<endpoints, secret, observers>>

(* The process dies; the loop starts again with nothing in hand.           *)
Crash(w) ==
    /\ pc[w] # "idle"
    /\ Fault("crash")
    /\ Goto(w, "idle")
    /\ batch' = [batch EXCEPT ![w] = {}]
    /\ claimed' = [claimed EXCEPT ![w] = [d \in Deliveries |-> NoClaim]]
    /\ delivery' = [delivery EXCEPT ![w] = NoDelivery]
    /\ UNCHANGED <<endpoints, secret, rows, observers>>

(* next_attempt_at passes: the end of a back-off or of an orphaned lease.  *)
BecomeDue(d) ==
    /\ rows[d].status = "pending" /\ ~rows[d].due
    /\ rows' = [rows EXCEPT ![d].due = TRUE]

TimePasses(d) ==
    /\ \A w \in Workers : d \notin batch[w]
    /\ BecomeDue(d)
    /\ UNCHANGED <<endpoints, secret, workerVars, observers, faults>>

(* The same under a worker still at it: a batch is sent one by one, and    *)
(* its time-outs add up to more than CLAIM_LEASE_SECONDS.                  *)
LeaseExpires(d) ==
    /\ \E w \in Workers : d \in batch[w]
    /\ BecomeDue(d)
    /\ Fault("expiry")
    /\ UNCHANGED <<endpoints, secret, workerVars, observers>>

-----------------------------------------------------------------------------
Work(w) ==
    \/ \E d \in Deliveries : Deliver(w, d)
    \/ MarkDelivered(w)
    \/ RecordFailure(w)

Api ==
    \/ \E d \in Deliveries : EnqueueDelivery(d)
    \/ \E d \in Deliveries : Redeliver(d)
    \/ \E e \in Endpoints : RotateSecret(e)
    \/ \E e \in Endpoints : DeleteEndpoint(e)

Next ==
    \/ Api
    \/ \E w \in Workers, S \in SUBSET Deliveries : ClaimDue(w, S)
    \/ \E w \in Workers : Work(w)
    \/ \E w \in Workers : Crash(w)
    \/ \E d \in Deliveries : TimePasses(d)
    \/ \E d \in Deliveries : LeaseExpires(d)

Spec == Init /\ [][Next]_vars

(* As in Dispatcher: the worker's loop goes on, delays end, and a row that *)
(* stays due is at last the first of ORDER BY next_attempt_at.             *)
FairSpec ==
    /\ Spec
    /\ \A w \in Workers : WF_vars(Work(w))
    /\ \A d \in Deliveries : WF_vars(TimePasses(d))
    /\ \A d \in Deliveries :
         SF_vars(\E w \in Workers, S \in SUBSET Deliveries :
                    d \in S /\ ClaimDue(w, S))

-----------------------------------------------------------------------------
(* Properties                                                              *)

(* A delivery is in `failed' only once MAX_ATTEMPTS claims were spent on   *)
(* it, whichever worker's stale view of the row made the decision.         *)
GivenUpOnlyWhenSpent ==
    \A d \in Deliveries :
        rows[d].status = "failed" => rows[d].attempts >= MAX_ATTEMPTS

(* A receiver sees a delivery again only for a cause: a redelivery, a lost *)
(* answer, a crash, a failed statement or an expired lease each excuse one *)
(* duplicate, and an ordinary retry excuses none.                          *)
DuplicatesHaveACause ==
    \A d \in Deliveries :
        accepted[d] <= 1 + faults["redelivery"] + faults["lost"]
                         + faults["crash"] + faults["failure"]
                         + faults["expiry"]

(* No delivery is retried forever or forgotten: a pending row leaves the   *)
(* queue, by success, by giving up or with its endpoint.                   *)
PendingIsSettled ==
    \A d \in Deliveries :
        rows[d].status = "pending"
            ~> rows[d].status \in {"delivered", "failed", "gone"}

(* "Puts a delivery back in the queue right away, whatever its status was":*)
(* the delivery is then sent again, or goes with its endpoint, even when   *)
(* its attempts are spent and the worker that claims it crashes.  The      *)
(* exception is a redelivery made while a worker has the delivery in hand: *)
(* what that worker records takes it off the queue again.                  *)
RedeliveryIsSent == \A d \in Deliveries : d \in asked ~> d \notin asked
=============================================================================
