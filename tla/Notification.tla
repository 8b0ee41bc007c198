---------------------------- MODULE Notification ----------------------------
(***************************************************************************)
(* What the outbox promises, without saying how: whoever is interested in  *)
(* a submission when it is accepted, and stays so, is told of it before    *)
(* the work is written off.                                                *)
(*                                                                         *)
(* A party is a webhook endpoint or an address of the form.  It is told by *)
(* its delivery row or by its mail job: what becomes of those is promised  *)
(* by WebhookDelivery and EmailQueue.                                      *)
(***************************************************************************)
CONSTANTS
    Submissions,
    Parties

VARIABLES
    life,        \* life[s]: "new", "stored" or "gone"
    owed,        \* owed[s]: "none", "owed" or "settled"
    interested,  \* interested[s]: parties to be told, ever since acceptance
    told         \* told[s]: parties that have been told and not forgotten

vars == <<life, owed, interested, told>>

Init ==
    /\ life = [s \in Submissions |-> "new"]
    /\ owed = [s \in Submissions |-> "none"]
    /\ interested = [s \in Submissions |-> {}]
    /\ told = [s \in Submissions |-> {}]

(* Accepted with the parties P to tell.  Nothing may be owed only when     *)
(* there is nobody to tell.                                                *)
Accept(s, P) ==
    /\ life[s] = "new"
    /\ life' = [life EXCEPT ![s] = "stored"]
    /\ interested' = [interested EXCEPT ![s] = P]
    /\ \/ owed' = [owed EXCEPT ![s] = "owed"]
       \/ P = {} /\ UNCHANGED owed
    /\ UNCHANGED told

Refuse(s) ==
    /\ life[s] = "new"
    /\ life' = [life EXCEPT ![s] = "gone"]
    /\ UNCHANGED <<owed, interested, told>>

(* The owner's side: submissions D are deleted, parties lose interest, and *)
(* only what they were told may be forgotten with them.  What is owed      *)
(* stays owed.                                                             *)
Withdraw(D) ==
    /\ \A s \in D : life[s] = "stored"
    /\ life' = [s \in Submissions |-> IF s \in D THEN "gone" ELSE life[s]]
    /\ \A s \in Submissions :
         /\ interested'[s] \subseteq interested[s]
         /\ told'[s] \subseteq told[s]
         /\ s \notin D => told[s] \cap interested'[s] \subseteq told'[s]
    /\ UNCHANGED owed

(* Parties P are told, late ones and ones told before included; but nobody *)
(* is told of a submission that never owed anything.                       *)
Tell(s, P) ==
    /\ owed[s] # "none"
    /\ told' = [told EXCEPT ![s] = @ \cup P]
    /\ UNCHANGED <<life, owed, interested>>

(* The work is written off, for good: the submission has gone, or everyone *)
(* still interested has been told.                                         *)
Settle(s) ==
    /\ owed[s] = "owed"
    /\ life[s] = "stored" => interested[s] \subseteq told[s]
    /\ owed' = [owed EXCEPT ![s] = "settled"]
    /\ UNCHANGED <<life, interested, told>>

Next ==
    \/ \E s \in Submissions, P \in SUBSET Parties : Accept(s, P)
    \/ \E s \in Submissions : Refuse(s)
    \/ \E D \in SUBSET Submissions : Withdraw(D)
    \/ \E s \in Submissions, P \in SUBSET Parties : Tell(s, P)
    \/ \E s \in Submissions : Settle(s)

Spec == Init /\ [][Next]_vars
=============================================================================
