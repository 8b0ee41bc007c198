------------------------ MODULE DispatcherRefinement ------------------------
(***************************************************************************)
(* The dispatcher, with its workers, leases, retries and crashes,          *)
(* implements the promise of Notification.                                 *)
(***************************************************************************)
EXTENDS Dispatcher

(* A submission is new until its insert; a posted one that the foreign key *)
(* refuses has gone.                                                       *)
Life(s) == IF submissions[s] \in {"unsent", "posting"} THEN "new" ELSE submissions[s]

Owing(s) ==
    IF ~outbox[s].queued THEN "none"
    ELSE IF outbox[s].dispatched THEN "settled" ELSE "owed"

Interested(s) ==
    IF submissions[s] = "stored"
    THEN ({"endpoint"} \X watching[s]) \cup ({"address"} \X listed[s])
    ELSE {}

Told(s) ==
    ({"endpoint"} \X {e \in Endpoints : <<e, s>> \in deliveries})
        \cup ({"address"} \X {r \in Recipients : Mailed(s, r)})

Promise == INSTANCE Notification WITH
    Parties    <- ({"endpoint"} \X Endpoints) \cup ({"address"} \X Recipients),
    life       <- [s \in Submissions |-> Life(s)],
    owed       <- [s \in Submissions |-> Owing(s)],
    interested <- [s \in Submissions |-> Interested(s)],
    told       <- [s \in Submissions |-> Told(s)]

(* Every step of the API and of the workers is a step of the promise or    *)
(* leaves it alone: whoever has been interested since acceptance is told   *)
(* before the event is marked dispatched, what a party was told is not     *)
(* forgotten while it is interested, nobody is told of a submission that   *)
(* owes nothing, and settled work is never owed again - across crashes,    *)
(* failed statements, expired leases and edits made meanwhile.             *)
ImplementsNotification == Promise!Spec
=============================================================================
