-------------------------- MODULE DispatcherProofs --------------------------
(***************************************************************************)
(* Safety of the dispatcher for any number of workers, forms, submissions, *)
(* endpoints, addresses and faults, and that it implements Notification.   *)
(***************************************************************************)
EXTENDS DispatcherRefinement, FiniteSetTheorems, TLAPS

(* What a worker holds in each place of run_once.                          *)
WorkerInv ==
    \A w \in Workers :
        /\ \A s \in batch[w] : outbox[s].queued
        /\ pc[w] \in {"idle", "loop", "mark"} => todo[w] = {}
        /\ pc[w] \in {"fan_out", "emails", "mark", "reschedule"}
              => event[w] \in batch[w]

(* An outbox row exists only for a submission that was stored.             *)
RowInv ==
    \A s \in Submissions :
        /\ outbox[s].dispatched => outbox[s].queued
        /\ outbox[s].queued => submissions[s] \in {"stored", "gone"}

(* Endpoints that watched a submission all along, and the part of the      *)
(* dispatch after which each has its delivery row.                         *)
WatchInv ==
    /\ \A s \in Submissions :
         /\ \A e \in watching[s] : Matches(e, FormOf[s])
         /\ submissions[s] \in {"unsent", "posting"} => watching[s] = {}
         /\ submissions[s] = "stored" /\ ~outbox[s].queued => watching[s] = {}
    /\ \A w \in Workers :
         pc[w] \in {"emails", "mark"} /\ submissions[event[w]] = "stored"
            => \A e \in watching[event[w]] : <<e, event[w]>> \in deliveries

(* The worker still has an entry of r to enqueue, or a job for r was       *)
(* pushed already.                                                         *)
InHand(w, r) == (\E e \in todo[w] : e[2] = r) \/ Mailed(event[w], r)

(* Addresses that stayed on the form all along, and which of them a worker *)
(* still has to enqueue.                                                   *)
ListInv ==
    /\ \A s \in Submissions :
         /\ listed[s] \subseteq Addresses(notify_emails[FormOf[s]])
         /\ submissions[s] = "unsent" => listed[s] = {}
         /\ submissions[s] = "posting" /\ ~notify[s] => listed[s] = {}
         /\ submissions[s] = "stored" /\ ~outbox[s].queued => listed[s] = {}
    /\ \A w \in Workers :
         (/\ pc[w] \in {"fan_out", "emails", "mark"}
          /\ submissions[event[w]] = "stored")
            => \A r \in listed[event[w]] : InHand(w, r)

IInv == TypeOK /\ WorkerInv /\ RowInv /\ WatchInv /\ ListInv
          /\ WatchersHaveDeliveries /\ ListedAreMailed

-----------------------------------------------------------------------------
(* Every update of an outbox row yields an outbox row.                     *)
LEMMA RowTypes ==
    ASSUME NEW row \in OutboxEvent
    PROVE  /\ Dispatched(row) \in OutboxEvent
           /\ Rescheduled(row) \in OutboxEvent
           /\ [row EXCEPT !.attempts = @ + 1, !.due = FALSE] \in OutboxEvent
           /\ [row EXCEPT !.due = TRUE] \in OutboxEvent
           /\ [NoRow EXCEPT !.queued = TRUE, !.due = TRUE] \in OutboxEvent
           /\ NoRow \in OutboxEvent
<1>1. row.attempts + 1 \in Nat
    BY DEF OutboxEvent
<1>2. [row EXCEPT !.attempts = @ + 1, !.due = FALSE] \in OutboxEvent
    BY <1>1, Zenon DEF OutboxEvent
<1> QED
    BY <1>2 DEF OutboxEvent, Dispatched, Rescheduled, NoRow

(* A worker in the middle of an event has one in hand.                     *)
LocalsOK ==
    \A w \in Workers :
        pc[w] \in {"fan_out", "emails", "mark", "reschedule"}
            => event[w] \in Submissions

(* The type invariant: every statement of the repositories and every step  *)
(* of run_once keeps the rows and the worker's locals well formed.         *)
LEMMA TypeStep == TypeOK /\ LocalsOK /\ [Next]_vars => TypeOK' /\ LocalsOK'
<1> USE ConstantsAssumption
        DEF formVars, endpointVars, submitVars, workVars, workerVars,
            observers
<1> SUFFICES ASSUME TypeOK, LocalsOK, [Next]_vars PROVE TypeOK' /\ LocalsOK'
    OBVIOUS
<1>1. ASSUME NEW f \in Forms, NEW es \in Lists, UpdateNotifyEmails(f, es)
     PROVE TypeOK' /\ LocalsOK'
    BY <1>1 DEF TypeOK, LocalsOK, UpdateNotifyEmails
<1>2. ASSUME NEW f \in Forms, DeleteForm(f)
     PROVE TypeOK' /\ LocalsOK'
    <2>1. deliveries' \in SUBSET (Endpoints \X Submissions)
        BY <1>2 DEF TypeOK, DeleteForm
    <2>2. submissions' \in [Submissions -> SubmissionStates]
        BY <1>2 DEF TypeOK, DeleteForm, SubmissionStates
    <2>3. notify_emails' \in [Forms -> Lists]
        BY <1>2 DEF TypeOK, DeleteForm, Lists
    <2>4. /\ endpoints' \in SUBSET Endpoints
          /\ enabled' \in [Endpoints -> BOOLEAN]
          /\ form_id' \in [Endpoints -> Forms \cup {AnyForm}]
        BY <1>2 DEF TypeOK, DeleteForm
    <2>5. /\ watching' \in [Submissions -> SUBSET Endpoints]
          /\ listed' \in [Submissions -> SUBSET Recipients]
        BY <1>2 DEF TypeOK, DeleteForm
    <2> QED
        BY <1>2, <2>1, <2>2, <2>3, <2>4, <2>5 DEF TypeOK, DeleteForm, LocalsOK
<1>3. ASSUME NEW e \in Endpoints, NEW f \in Forms \cup {AnyForm}, CreateEndpoint(e, f)
     PROVE TypeOK' /\ LocalsOK'
    BY <1>3 DEF TypeOK, LocalsOK, CreateEndpoint
<1>4. ASSUME NEW e \in Endpoints, NEW on \in BOOLEAN,
            NEW f \in Forms \cup {AnyForm}, UpdateEndpoint(e, on, f)
     PROVE TypeOK' /\ LocalsOK'
    BY <1>4 DEF TypeOK, LocalsOK, UpdateEndpoint, ObserveEndpoints
<1>5. ASSUME NEW e \in Endpoints, DeleteEndpoint(e)
     PROVE TypeOK' /\ LocalsOK'
    BY <1>5 DEF TypeOK, LocalsOK, DeleteEndpoint, ObserveEndpoints
<1>6. ASSUME NEW s \in Submissions, BeginSubmit(s)
     PROVE TypeOK' /\ LocalsOK'
    <2>1. Addresses(notify_emails[FormOf[s]]) \subseteq Recipients
        BY DEF TypeOK, Lists, Addresses, Entries
    <2> QED
        BY <1>6, <2>1 DEF TypeOK, LocalsOK, BeginSubmit, SubmissionStates
<1>7. ASSUME NEW s \in Submissions, InsertSubmission(s)
     PROVE TypeOK' /\ LocalsOK'
    <2>1. outbox' \in [Submissions -> OutboxEvent]
        <3>1. /\ NoRow \in OutboxEvent
              /\ [NoRow EXCEPT !.queued = TRUE, !.due = TRUE] \in OutboxEvent
            BY RowTypes DEF TypeOK
        <3>2. \/ UNCHANGED outbox
              \/ outbox' = [outbox EXCEPT ![s] = NoRow]
              \/ outbox' = [outbox EXCEPT ![s] =
                    [NoRow EXCEPT !.queued = TRUE, !.due = TRUE]]
            BY <1>7, Zenon DEF InsertSubmission
        <3> QED
            BY <3>1, <3>2 DEF TypeOK
    <2>2. watching' \in [Submissions -> SUBSET Endpoints]
        <3>1. MatchingEndpoints(FormOf[s]) \in SUBSET Endpoints
            BY DEF MatchingEndpoints
        <3>2. \/ watching' = [watching EXCEPT ![s] = MatchingEndpoints(FormOf[s])]
              \/ UNCHANGED watching
            BY <1>7 DEF InsertSubmission
        <3> QED
            BY <3>1, <3>2 DEF TypeOK
    <2>3. submissions' \in [Submissions -> SubmissionStates]
        BY <1>7 DEF TypeOK, InsertSubmission, SubmissionStates
    <2> QED
        BY <1>7, <2>1, <2>2, <2>3 DEF TypeOK, InsertSubmission, LocalsOK
<1>8. ASSUME NEW s \in Submissions, DeleteSubmission(s)
     PROVE TypeOK' /\ LocalsOK'
    BY <1>8 DEF TypeOK, LocalsOK, DeleteSubmission, SubmissionStates
<1>9. ASSUME NEW w \in Workers, NEW S \in SUBSET Submissions, ClaimDue(w, S)
     PROVE TypeOK' /\ LocalsOK'
    <2>1. outbox' \in [Submissions -> OutboxEvent]
        BY <1>9, RowTypes DEF TypeOK, ClaimDue, claim_due
    <2>2. pc' \in [Workers -> Locations] /\ LocalsOK'
        BY <1>9 DEF TypeOK, ClaimDue, LocalsOK, Goto, Locations
    <2> QED
        BY <1>9, <2>1, <2>2 DEF TypeOK, ClaimDue
<1>10. ASSUME NEW w \in Workers, NEW s \in Submissions, ReadSource(w, s)
     PROVE TypeOK' /\ LocalsOK'
    <2>1. todo' \in [Workers -> SUBSET Entries]
        <3>1. notify_emails[FormOf[s]] \in SUBSET Entries
            BY DEF TypeOK, Lists
        <3> QED
            BY <1>10, <3>1 DEF TypeOK, ReadSource
    <2>2. pc' \in [Workers -> Locations]
        BY <1>10 DEF TypeOK, ReadSource, Goto, Locations
    <2>3. faults' \in Nat
        BY <1>10 DEF TypeOK, ReadSource, NoFault, Fault
    <2>4. event' \in [Workers -> Submissions \cup {NoEvent}]
        BY <1>10 DEF TypeOK, ReadSource
    <2>5. LocalsOK'
        BY <1>10 DEF TypeOK, ReadSource, LocalsOK, Goto
    <2> QED
        BY <1>10, <2>1, <2>2, <2>3, <2>4, <2>5 DEF TypeOK, ReadSource
<1>11. ASSUME NEW w \in Workers, FanOut(w)
     PROVE TypeOK' /\ LocalsOK'
    <2>1. event[w] \in Submissions
        BY <1>11 DEF TypeOK, FanOut, LocalsOK
    <2>2. deliveries' \in SUBSET (Endpoints \X Submissions)
        BY <1>11, <2>1 DEF TypeOK, FanOut, create_deliveries, MatchingEndpoints
    <2>3. pc' \in [Workers -> Locations]
        BY <1>11 DEF TypeOK, FanOut, Goto, Locations
    <2>4. faults' \in Nat
        BY <1>11 DEF TypeOK, FanOut, NoFault, Fault
    <2>5. LocalsOK'
        BY <1>11 DEF TypeOK, FanOut, LocalsOK, Goto
    <2> QED
        BY <1>11, <2>1, <2>2, <2>3, <2>4, <2>5 DEF TypeOK, FanOut
<1>12. ASSUME NEW w \in Workers, NEW r \in Entries, EnqueueEmail(w, r)
     PROVE TypeOK' /\ LocalsOK'
    <2>1. jobs' \in [Submissions -> [Entries -> Nat]]
        <3>1. event[w] \in Submissions
            BY <1>12 DEF TypeOK, EnqueueEmail, LocalsOK
        <3>2. jobs[event[w]][r] + 1 \in Nat
            BY <3>1 DEF TypeOK
        <3>3. [jobs[event[w]] EXCEPT ![r] = @ + 1] \in [Entries -> Nat]
            BY <3>1, <3>2, Zenon DEF TypeOK
        <3> QED
            BY <1>12, <3>1, <3>3, Zenon DEF TypeOK, EnqueueEmail, enqueue
    <2>2. todo' \in [Workers -> SUBSET Entries]
        <3>1. UNCHANGED todo \/ todo' = [todo EXCEPT ![w] = @ \ {r}]
            BY <1>12 DEF EnqueueEmail
        <3> QED
            BY <3>1 DEF TypeOK
    <2>3. pc' \in [Workers -> Locations]
        BY <1>12 DEF TypeOK, EnqueueEmail, Goto, Locations
    <2>4. faults' \in Nat
        BY <1>12 DEF TypeOK, EnqueueEmail, NoFault, Fault
    <2>5. LocalsOK'
        BY <1>12 DEF TypeOK, EnqueueEmail, LocalsOK, Goto
    <2> QED
        BY <1>12, <2>1, <2>2, <2>3, <2>4, <2>5 DEF TypeOK, EnqueueEmail
<1>13. ASSUME NEW w \in Workers, MarkDispatched(w)
     PROVE TypeOK' /\ LocalsOK'
    <2>1. outbox' \in [Submissions -> OutboxEvent]
        <3>1. Dispatched(outbox[event[w]]) \in OutboxEvent
            BY <1>13, RowTypes DEF TypeOK, LocalsOK, MarkDispatched
        <3> QED
            BY <1>13, <3>1 DEF TypeOK, MarkDispatched, mark_dispatched
    <2>2. /\ pc' \in [Workers -> Locations]
          /\ batch' \in [Workers -> SUBSET Submissions]
          /\ event' \in [Workers -> Submissions \cup {NoEvent}]
          /\ todo' \in [Workers -> SUBSET Entries]
        <3>1. CASE NextEvent(w)
            BY <3>1 DEF TypeOK, NextEvent, Goto, Locations
        <3>2. CASE EndPass(w)
            BY <3>2 DEF TypeOK, EndPass, Goto, Locations
        <3> QED
            BY <1>13, <3>1, <3>2 DEF MarkDispatched
    <2>3. faults' \in Nat
        BY <1>13 DEF TypeOK, MarkDispatched, NoFault, Fault
    <2>4. LocalsOK'
        BY <1>13 DEF TypeOK, MarkDispatched, LocalsOK, NextEvent, EndPass, Goto
    <2> QED
        BY <1>13, <2>1, <2>2, <2>3, <2>4 DEF TypeOK, MarkDispatched
<1>14. ASSUME NEW w \in Workers, Reschedule(w)
     PROVE TypeOK' /\ LocalsOK'
    <2>1. outbox' \in [Submissions -> OutboxEvent]
        <3>1. Rescheduled(outbox[event[w]]) \in OutboxEvent
            BY <1>14, RowTypes DEF TypeOK, LocalsOK, Reschedule
        <3> QED
            BY <1>14, <3>1 DEF TypeOK, Reschedule, reschedule
    <2>2. /\ pc' \in [Workers -> Locations]
          /\ batch' \in [Workers -> SUBSET Submissions]
          /\ event' \in [Workers -> Submissions \cup {NoEvent}]
          /\ todo' \in [Workers -> SUBSET Entries]
        <3>1. CASE NextEvent(w)
            BY <3>1 DEF TypeOK, NextEvent, Goto, Locations
        <3>2. CASE EndPass(w)
            BY <3>2 DEF TypeOK, EndPass, Goto, Locations
        <3> QED
            BY <1>14, <3>1, <3>2 DEF Reschedule
    <2>3. faults' \in Nat
        BY <1>14 DEF TypeOK, Reschedule, NoFault, Fault
    <2>4. LocalsOK'
        BY <1>14 DEF TypeOK, Reschedule, LocalsOK, NextEvent, EndPass, Goto
    <2> QED
        BY <1>14, <2>1, <2>2, <2>3, <2>4 DEF TypeOK, Reschedule
<1>15. ASSUME NEW w \in Workers, Crash(w)
     PROVE TypeOK' /\ LocalsOK'
    <2>1. TypeOK'
        BY <1>15 DEF TypeOK, Crash, EndPass, Goto, Locations, Fault
    <2>2. LocalsOK'
        BY <1>15 DEF TypeOK, Crash, LocalsOK, EndPass, Goto
    <2> QED
        BY <2>1, <2>2
<1>16. ASSUME NEW s \in Submissions, TimePasses(s)
     PROVE TypeOK' /\ LocalsOK'
    <2>1. outbox' \in [Submissions -> OutboxEvent]
        BY <1>16, RowTypes DEF TypeOK, TimePasses, BecomeDue
    <2> QED
        BY <1>16, <2>1 DEF TypeOK, TimePasses, LocalsOK
<1>17. ASSUME NEW s \in Submissions, LeaseExpires(s)
     PROVE TypeOK' /\ LocalsOK'
    <2>1. outbox' \in [Submissions -> OutboxEvent]
        BY <1>17, RowTypes DEF TypeOK, LeaseExpires, BecomeDue
    <2> QED
        BY <1>17, <2>1 DEF TypeOK, LeaseExpires, LocalsOK, Fault
<1>18. CASE UNCHANGED vars
    BY <1>18 DEF TypeOK, LocalsOK, vars
<1> QED
    BY <1>1, <1>2, <1>3, <1>4, <1>5, <1>6, <1>7, <1>8, <1>9, <1>10, <1>11, <1>12, <1>13, <1>14, <1>15, <1>16, <1>17, <1>18
    DEF Next, Api, Work

(* Type correctness of the whole system, for any number of workers, forms, *)
(* submissions, endpoints and addresses: no row, local or count ever       *)
(* leaves the domain the schema and the structs of outbox.rs give it.      *)
THEOREM TypeCorrect == Spec => []TypeOK
<1>1. Init => TypeOK /\ LocalsOK
    BY ConstantsAssumption
       DEF Init, TypeOK, NoRow, OutboxEvent, SubmissionStates, Locations,
           LocalsOK
<1> QED
    BY <1>1, TypeStep, PTL DEF Spec

-----------------------------------------------------------------------------
(* The columns each update of an outbox row leaves alone.                  *)
LEMMA RowFields ==
    ASSUME NEW row \in OutboxEvent
    PROVE  /\ Dispatched(row).queued = row.queued
           /\ Dispatched(row).dispatched
           /\ Dispatched(row).attempts = row.attempts
           /\ Rescheduled(row).queued = row.queued
           /\ Rescheduled(row).dispatched = row.dispatched
           /\ Rescheduled(row).attempts = row.attempts
BY DEF OutboxEvent, Dispatched, Rescheduled

(* What a step may do to an outbox row: it is queued by the insert of its  *)
(* submission only, dispatched by a worker at `mark' only, and neither is  *)
(* ever undone; a dispatched row counts no further attempt.                *)
LEMMA OutboxStep ==
    ASSUME TypeOK, LocalsOK, RowInv, [Next]_vars, NEW s \in Submissions
    PROVE  /\ outbox[s].queued => outbox'[s].queued
           /\ outbox'[s].queued /\ ~outbox[s].queued
                => submissions'[s] = "stored" /\ submissions[s] = "posting"
           /\ outbox[s].dispatched =>
                /\ outbox'[s].dispatched
                /\ outbox'[s].attempts = outbox[s].attempts
           /\ outbox'[s].dispatched /\ ~outbox[s].dispatched =>
                \E w \in Workers : pc[w] = "mark" /\ event[w] = s
<1> DEFINE Goal == 
           /\ outbox[s].queued => outbox'[s].queued
           /\ outbox'[s].queued /\ ~outbox[s].queued
                => submissions'[s] = "stored" /\ submissions[s] = "posting"
           /\ outbox[s].dispatched =>
                /\ outbox'[s].dispatched
                /\ outbox'[s].attempts = outbox[s].attempts
           /\ outbox'[s].dispatched /\ ~outbox[s].dispatched =>
                \E w \in Workers : pc[w] = "mark" /\ event[w] = s
<1>1. CASE UNCHANGED outbox
    BY <1>1
<1>2. ASSUME NEW t \in Submissions, InsertSubmission(t)
      PROVE Goal
    <2>1. CASE t # s
        BY <1>2, <2>1 DEF InsertSubmission, TypeOK
    <2>2. CASE t = s
        <3>1. ~outbox[s].queued /\ ~outbox[s].dispatched
            BY <1>2, <2>2 DEF InsertSubmission, RowInv
        <3>2. \/ UNCHANGED outbox
              \/ outbox' = [outbox EXCEPT ![s] = NoRow]
              \/ /\ outbox' = [outbox EXCEPT ![s] =
                                [NoRow EXCEPT !.queued = TRUE, !.due = TRUE]]
                 /\ submissions' = [submissions EXCEPT ![s] = "stored"]
            BY <1>2, <2>2, Zenon DEF InsertSubmission
        <3> QED
            <4>1. CASE UNCHANGED outbox
                BY <4>1
            <4>2. CASE outbox' = [outbox EXCEPT ![s] = NoRow]
                BY <4>2, <3>1 DEF NoRow, TypeOK
            <4>3. CASE /\ outbox' = [outbox EXCEPT ![s] =
                                [NoRow EXCEPT !.queued = TRUE, !.due = TRUE]]
                       /\ submissions' = [submissions EXCEPT ![s] = "stored"]
                <5>1. outbox'[s].dispatched = FALSE
                    BY <4>3 DEF NoRow, TypeOK
                <5>2. submissions'[s] = "stored" /\ submissions[s] = "posting"
                    BY <1>2, <2>2, <4>3 DEF TypeOK, InsertSubmission
                <5> QED
                    BY <5>1, <5>2, <3>1
            <4> QED
                BY <3>2, <4>1, <4>2, <4>3
    <2> QED
        BY <2>1, <2>2
<1>3. ASSUME NEW w \in Workers, NEW S \in SUBSET Submissions, ClaimDue(w, S)
      PROVE Goal
    BY <1>3 DEF ClaimDue, claim_due, Pending, TypeOK, OutboxEvent
<1>4. ASSUME NEW w \in Workers, MarkDispatched(w)
      PROVE Goal
    BY <1>4, RowFields DEF MarkDispatched, mark_dispatched, TypeOK, LocalsOK
<1>5. ASSUME NEW w \in Workers, Reschedule(w)
      PROVE Goal
    <2>1. event[w] \in Submissions /\ outbox[event[w]] \in OutboxEvent
        BY <1>5 DEF Reschedule, TypeOK, LocalsOK
    <2>2. CASE reschedule(event[w])
        BY <2>1, <2>2, RowFields DEF reschedule, TypeOK
    <2> QED
        BY <1>1, <1>5, <2>2 DEF Reschedule
<1>6. ASSUME NEW t \in Submissions, BecomeDue(t)
      PROVE Goal
    BY <1>6 DEF BecomeDue, TypeOK, OutboxEvent
<1> QED
    BY <1>1, <1>2, <1>3, <1>4, <1>5, <1>6
    DEF Next, vars, Api, Work, UpdateNotifyEmails, DeleteForm, CreateEndpoint,
        UpdateEndpoint, DeleteEndpoint, BeginSubmit, DeleteSubmission,
        ReadSource, FanOut, EnqueueEmail, Crash, TimePasses, LeaseExpires

(* A submission is stored by its insert only, and leaves that state only   *)
(* to be gone for good.                                                    *)
LEMMA SubmissionStep ==
    ASSUME TypeOK, [Next]_vars, NEW s \in Submissions
    PROVE  /\ submissions[s] \in {"stored", "gone"}
                => submissions'[s] \in {"stored", "gone"}
           /\ submissions'[s] = "stored" /\ submissions[s] # "stored"
                => submissions[s] = "posting" /\ InsertSubmission(s)
<1>1. CASE UNCHANGED submissions
    BY <1>1
<1>2. ASSUME NEW f \in Forms, DeleteForm(f)
      PROVE /\ submissions'[s] = "stored" => submissions[s] = "stored"
            /\ submissions[s] \in {"stored", "gone"}
                    => submissions'[s] \in {"stored", "gone"}
    BY <1>2 DEF DeleteForm, TypeOK
<1>3. ASSUME NEW t \in Submissions, BeginSubmit(t) \/ DeleteSubmission(t)
      PROVE /\ submissions'[s] = "stored" => submissions[s] = "stored"
            /\ submissions[s] \in {"stored", "gone"}
                    => submissions'[s] \in {"stored", "gone"}
    BY <1>3 DEF BeginSubmit, DeleteSubmission, TypeOK
<1>4. ASSUME NEW t \in Submissions, InsertSubmission(t)
      PROVE /\ submissions'[s] = "stored" /\ submissions[s] # "stored"
                    => submissions[s] = "posting" /\ s = t
            /\ submissions[s] \in {"stored", "gone"}
                    => submissions'[s] \in {"stored", "gone"}
    BY <1>4 DEF InsertSubmission, TypeOK
<1> QED
    BY <1>1, <1>2, <1>3, <1>4
    DEF Next, vars, Api, Work, submitVars, UpdateNotifyEmails, CreateEndpoint,
        UpdateEndpoint, DeleteEndpoint, ClaimDue, ReadSource, FanOut,
        EnqueueEmail, MarkDispatched, Reschedule, Crash, TimePasses,
        LeaseExpires

(* The events of a batch are queued, a worker past the read of its source  *)
(* has one of them in hand, and at `mark' no address is left to enqueue.   *)
LEMMA WorkerStep ==
    ASSUME TypeOK, LocalsOK, RowInv, WorkerInv, [Next]_vars
    PROVE  WorkerInv'
<1> USE DEF formVars, endpointVars, submitVars, workVars, workerVars,
            observers
<1>1. \A s \in Submissions : outbox[s].queued => outbox'[s].queued
    BY OutboxStep
<1>2. CASE UNCHANGED workerVars
    BY <1>1, <1>2 DEF WorkerInv, TypeOK
<1>3. ASSUME NEW w \in Workers, NEW S \in SUBSET Submissions, ClaimDue(w, S)
      PROVE WorkerInv'
    BY <1>1, <1>3 DEF ClaimDue, Goto, Pending, WorkerInv, TypeOK
<1>4. ASSUME NEW w \in Workers, NEW s \in Submissions, ReadSource(w, s)
      PROVE WorkerInv'
    BY <1>1, <1>4 DEF ReadSource, Goto, WorkerInv, TypeOK
<1>5. ASSUME NEW w \in Workers, FanOut(w)
      PROVE WorkerInv'
    BY <1>1, <1>5 DEF FanOut, Goto, WorkerInv, TypeOK
<1>6. ASSUME NEW w \in Workers, NEW r \in Entries, EnqueueEmail(w, r)
      PROVE WorkerInv'
    BY <1>1, <1>6 DEF EnqueueEmail, Goto, WorkerInv, TypeOK
<1>7. ASSUME NEW w \in Workers, EndPass(w)
      PROVE WorkerInv'
    BY <1>1, <1>7 DEF EndPass, Goto, WorkerInv, TypeOK
<1>8. ASSUME NEW w \in Workers, NextEvent(w)
      PROVE WorkerInv'
    BY <1>1, <1>8 DEF NextEvent, Goto, WorkerInv, TypeOK
<1> QED
    BY <1>2, <1>3, <1>4, <1>5, <1>6, <1>7, <1>8
    DEF Next, vars, Api, Work, UpdateNotifyEmails, DeleteForm, CreateEndpoint,
        UpdateEndpoint, DeleteEndpoint, BeginSubmit, InsertSubmission,
        DeleteSubmission, MarkDispatched, Reschedule, Crash, TimePasses,
        LeaseExpires

(* An outbox row belongs to a submission that was stored: only the insert  *)
(* queues it, and only a queued row is dispatched.                         *)
LEMMA RowStep ==
    ASSUME TypeOK, LocalsOK, RowInv, WorkerInv, [Next]_vars
    PROVE  RowInv'
<1> SUFFICES ASSUME NEW s \in Submissions
             PROVE  /\ outbox'[s].dispatched => outbox'[s].queued
                    /\ outbox'[s].queued
                         => submissions'[s] \in {"stored", "gone"}
    BY DEF RowInv
<1>1. outbox'[s].dispatched => outbox[s].queued
    BY OutboxStep DEF RowInv, WorkerInv
<1> QED
    BY <1>1, OutboxStep, SubmissionStep DEF RowInv

(* Endpoints that are watching keep matching: an update that ends a match  *)
(* ends the watch, and only the insert of a submission begins one.         *)
LEMMA MatchStep ==
    ASSUME TypeOK, LocalsOK, RowInv, WatchInv, [Next]_vars,
           NEW s \in Submissions
    PROVE  /\ \A e \in watching'[s] : Matches(e, FormOf[s])'
           /\ submissions'[s] \in {"unsent", "posting"} => watching'[s] = {}
           /\ submissions'[s] = "stored" /\ ~outbox'[s].queued
                => watching'[s] = {}
           /\ ~InsertSubmission(s) => watching'[s] \subseteq watching[s]
<1> USE ConstantsAssumption
        DEF formVars, endpointVars, submitVars, workVars, workerVars,
            observers
<1> DEFINE Goal == \A e \in watching'[s] : Matches(e, FormOf[s])'
           Shrinks == watching'[s] \subseteq watching[s]
<1>1. ASSUME UNCHANGED <<endpointVars, watching>>
      PROVE Goal /\ Shrinks
    BY <1>1 DEF WatchInv, Matches
<1>2. ASSUME ObserveEndpoints
      PROVE Goal /\ Shrinks
    BY <1>2 DEF ObserveEndpoints
<1>3. ASSUME NEW e \in Endpoints, NEW f \in Forms \cup {AnyForm},
             CreateEndpoint(e, f)
      PROVE Goal /\ Shrinks
    BY <1>3 DEF CreateEndpoint, WatchInv, Matches, TypeOK
<1>4. ASSUME NEW x \in Submissions, InsertSubmission(x)
      PROVE Goal /\ (x # s => Shrinks)
    <2>1. UNCHANGED endpointVars
        BY <1>4 DEF InsertSubmission
    <2>2. CASE UNCHANGED watching
        BY <1>1, <2>1, <2>2
    <2>3. CASE watching' = [watching EXCEPT ![x] = MatchingEndpoints(FormOf[x])]
        BY <2>1, <2>3 DEF WatchInv, TypeOK, Matches, MatchingEndpoints
    <2> QED
        BY <1>4, <2>2, <2>3 DEF InsertSubmission
<1>5. ASSUME NEW f \in Forms, DeleteForm(f)
      PROVE Goal /\ Shrinks
    <2>1. CASE FormOf[s] = f
        BY <1>5, <2>1 DEF DeleteForm
    <2>2. CASE FormOf[s] # f
        <3>1. watching'[s] = watching[s]
            BY <1>5, <2>2 DEF DeleteForm
        <3>2. ASSUME NEW e \in watching[s]
              PROVE  Matches(e, FormOf[s])'
            <4>1. /\ e \in Endpoints /\ e \in endpoints /\ enabled[e]
                  /\ form_id[e] \in {AnyForm, FormOf[s]} /\ form_id[e] # f
                BY <2>2, <3>2 DEF WatchInv, Matches, TypeOK
            <4> QED
                BY <1>5, <4>1 DEF DeleteForm, Matches
        <3> QED
            BY <3>1, <3>2
    <2> QED
        BY <2>1, <2>2
<1>6. ASSUME NEW x \in Submissions, DeleteSubmission(x)
      PROVE Goal /\ Shrinks
    <2>1. UNCHANGED endpointVars
        BY <1>6 DEF DeleteSubmission
    <2>2. CASE x = s
        BY <1>6, <2>2 DEF DeleteSubmission, TypeOK
    <2>3. CASE x # s
        <3>1. watching'[s] = watching[s]
            BY <1>6, <2>3 DEF DeleteSubmission, TypeOK
        <3> QED
            BY <2>1, <3>1 DEF WatchInv, Matches
    <2> QED
        BY <2>2, <2>3
<1>7. ASSUME NEW e \in Endpoints, DeleteEndpoint(e)
      PROVE ObserveEndpoints
    BY <1>7 DEF DeleteEndpoint
<1>8. Goal /\ (~InsertSubmission(s) => Shrinks)
    BY <1>1, <1>2, <1>3, <1>4, <1>5, <1>6, <1>7
    DEF Next, vars, Api, Work, UpdateNotifyEmails, UpdateEndpoint,
        BeginSubmit, ClaimDue, ReadSource,
        FanOut, EnqueueEmail, MarkDispatched, Reschedule, Crash, TimePasses,
        LeaseExpires
<1>9. CASE InsertSubmission(s)
    <2>1. CASE FormOf[s] \in forms
        <3>1. submissions'[s] = "stored"
            BY <1>9, <2>1 DEF InsertSubmission, TypeOK
        <3>2. watching'[s] # {} => outbox'[s].queued
            <4>1. CASE MatchingEndpoints(FormOf[s]) = {}
                BY <1>9, <2>1, <4>1 DEF InsertSubmission, TypeOK
            <4>2. CASE MatchingEndpoints(FormOf[s]) # {}
                <5>1. outbox' = [outbox EXCEPT ![s] =
                                [NoRow EXCEPT !.queued = TRUE, !.due = TRUE]]
                    BY <1>9, <2>1, <4>2, Zenon DEF InsertSubmission, Owed
                <5> QED
                    BY <5>1 DEF TypeOK, NoRow
            <4> QED
                BY <4>1, <4>2
        <3> QED
            BY <1>8, <1>9, <3>1, <3>2
    <2>2. CASE FormOf[s] \notin forms
        <3>1. submissions'[s] = "gone"
            BY <1>9, <2>2 DEF InsertSubmission, TypeOK
        <3> QED
            BY <1>8, <1>9, <3>1
    <2> QED
        BY <2>1, <2>2
<1>10. CASE ~InsertSubmission(s)
    <2>1. submissions'[s] \in {"unsent", "posting"}
            => submissions[s] \in {"unsent", "posting"}
        BY SubmissionStep DEF TypeOK, SubmissionStates
    <2>2. submissions'[s] = "stored" /\ ~outbox'[s].queued
            => submissions[s] = "stored" /\ ~outbox[s].queued
        BY <1>10, SubmissionStep, OutboxStep
    <2> QED
        BY <1>8, <1>10, <2>1, <2>2 DEF WatchInv
<1> QED
    BY <1>9, <1>10

(* A delivery row of a watching endpoint stays while the submission does.  *)
LEMMA DeliveryStep ==
    ASSUME TypeOK, LocalsOK, RowInv, WatchInv, [Next]_vars,
           NEW s \in Submissions, submissions'[s] = "stored",
           NEW e \in watching'[s], <<e, s>> \in deliveries
    PROVE  <<e, s>> \in deliveries'
<1>1. e \in endpoints'
    BY MatchStep DEF Matches
<1>2. ASSUME NEW f \in Forms, DeleteForm(f)
      PROVE <<e, s>> \in deliveries'
    BY <1>1, <1>2 DEF DeleteForm, TypeOK
<1>3. ASSUME NEW x \in Endpoints, DeleteEndpoint(x)
      PROVE <<e, s>> \in deliveries'
    BY <1>1, <1>3 DEF DeleteEndpoint
<1>4. ASSUME NEW x \in Submissions, DeleteSubmission(x)
      PROVE <<e, s>> \in deliveries'
    BY <1>4 DEF DeleteSubmission, TypeOK
<1>5. ASSUME NEW w \in Workers, FanOut(w)
      PROVE <<e, s>> \in deliveries'
    BY <1>5 DEF FanOut, create_deliveries
<1> QED
    BY <1>2, <1>3, <1>4, <1>5
    DEF Next, vars, Api, Work, workVars, UpdateNotifyEmails, CreateEndpoint,
        UpdateEndpoint, BeginSubmit, InsertSubmission, ClaimDue, ReadSource,
        EnqueueEmail, MarkDispatched, Reschedule, Crash, TimePasses,
        LeaseExpires

(* Past the fan-out every watching endpoint has its row: the fan-out itself *)
(* inserts one for each endpoint that matches, and later steps keep it.    *)
LEMMA WatchStep ==
    ASSUME TypeOK, LocalsOK, RowInv, WorkerInv, WatchInv, [Next]_vars
    PROVE  WatchInv'
<1> USE DEF formVars, endpointVars, submitVars, workVars, workerVars,
            observers
<1> DEFINE Past(v) ==
        pc[v] \in {"emails", "mark"} /\ submissions[event[v]] = "stored"
            => \A e \in watching[event[v]] : <<e, event[v]>> \in deliveries
<1> SUFFICES ASSUME NEW v \in Workers PROVE Past(v)'
    BY MatchStep DEF WatchInv
<1>1. CASE pc'[v] = pc[v] /\ event'[v] = event[v]
    <2> SUFFICES ASSUME pc[v] \in {"emails", "mark"},
                        submissions'[event[v]] = "stored",
                        NEW e \in watching'[event[v]]
                 PROVE  <<e, event[v]>> \in deliveries'
        BY <1>1
    <2>1. event[v] \in Submissions /\ outbox[event[v]].queued
        BY DEF LocalsOK, WorkerInv
    <2>2. submissions[event[v]] = "stored" /\ ~InsertSubmission(event[v])
        BY <2>1, SubmissionStep DEF RowInv, InsertSubmission
    <2>3. e \in watching[event[v]]
        BY <2>1, <2>2, MatchStep
    <2>4. <<e, event[v]>> \in deliveries
        BY <2>2, <2>3 DEF WatchInv
    <2> QED
        BY <2>1, <2>4, DeliveryStep
<1>2. CASE pc'[v] \notin {"emails", "mark"}
    BY <1>2
<1>3. ASSUME NEW w \in Workers, NEW s \in Submissions, ReadSource(w, s)
      PROVE Past(v)'
    BY <1>1, <1>2, <1>3 DEF ReadSource, Goto, TypeOK
<1>4. ASSUME NEW w \in Workers, FanOut(w)
      PROVE Past(v)'
    <2>1. CASE w # v
        BY <1>1, <1>4, <2>1 DEF FanOut, Goto, TypeOK
    <2>2. CASE w = v /\ pc'[v] = "reschedule"
        BY <1>2, <2>2
    <2>3. CASE w = v /\ create_deliveries(event[v])
        <3>1. event[v] \in Submissions
            BY <1>4, <2>3 DEF FanOut, LocalsOK
        <3>2. \A e \in watching[event[v]] : <<e, event[v]>> \in deliveries'
            BY <2>3, <3>1
            DEF create_deliveries, MatchingEndpoints, WatchInv, TypeOK
        <3> QED
            BY <1>4, <3>2 DEF FanOut
    <2> QED
        BY <1>4, <2>1, <2>2, <2>3 DEF FanOut, Goto, TypeOK
<1>5. ASSUME NEW w \in Workers, NEW r \in Entries, EnqueueEmail(w, r)
      PROVE Past(v)'
    <2>1. CASE w # v
        BY <1>1, <1>5, <2>1 DEF EnqueueEmail, Goto, TypeOK
    <2>2. CASE w = v
        BY <1>5, <2>2 DEF EnqueueEmail, WatchInv
    <2> QED
        BY <2>1, <2>2
<1>6. ASSUME NEW w \in Workers, EndPass(w) \/ NextEvent(w)
      PROVE Past(v)'
    BY <1>1, <1>2, <1>6 DEF EndPass, NextEvent, Goto, TypeOK
<1>7. ASSUME NEW w \in Workers, NEW S \in SUBSET Submissions, ClaimDue(w, S)
      PROVE Past(v)'
    BY <1>1, <1>2, <1>7 DEF ClaimDue, Goto, TypeOK
<1> QED
    BY <1>1, <1>3, <1>4, <1>5, <1>6, <1>7
    DEF Next, vars, Api, Work, UpdateNotifyEmails, DeleteForm, CreateEndpoint,
        UpdateEndpoint, DeleteEndpoint, BeginSubmit, InsertSubmission,
        DeleteSubmission, MarkDispatched, Reschedule, Crash, TimePasses,
        LeaseExpires

(* The mark of a dispatched event is made by a worker past the fan-out, so *)
(* every watching endpoint has its delivery then and keeps it.             *)
LEMMA WatchersStep ==
    ASSUME TypeOK, LocalsOK, RowInv, WorkerInv, WatchInv,
           WatchersHaveDeliveries, [Next]_vars
    PROVE  WatchersHaveDeliveries'
<1> SUFFICES ASSUME NEW s \in Submissions,
                    submissions'[s] = "stored", outbox'[s].dispatched,
                    NEW e \in watching'[s]
             PROVE  <<e, s>> \in deliveries'
    BY DEF WatchersHaveDeliveries, Settled
<1>1. outbox[s].queued
    BY OutboxStep DEF RowInv, WorkerInv
<1>2. submissions[s] = "stored" /\ ~InsertSubmission(s)
    BY <1>1, SubmissionStep DEF RowInv, InsertSubmission
<1>3. e \in watching[s]
    BY <1>2, MatchStep
<1>4. <<e, s>> \in deliveries
    <2>1. CASE outbox[s].dispatched
        BY <1>2, <1>3, <2>1 DEF WatchersHaveDeliveries, Settled
    <2>2. CASE ~outbox[s].dispatched
        BY <1>2, <1>3, <2>2, OutboxStep DEF WatchInv
    <2> QED
        BY <2>1, <2>2
<1> QED
    BY <1>4, DeliveryStep

(* The listed addresses stay on the form, and a submission with any of them *)
(* is stored with an outbox event.                                         *)
LEMMA AddressStep ==
    ASSUME TypeOK, LocalsOK, RowInv, ListInv, [Next]_vars,
           NEW s \in Submissions
    PROVE  /\ listed'[s] \subseteq Addresses(notify_emails'[FormOf[s]])
           /\ submissions'[s] = "unsent" => listed'[s] = {}
           /\ submissions'[s] = "posting" /\ ~notify'[s] => listed'[s] = {}
           /\ submissions'[s] = "stored" /\ ~outbox'[s].queued
                => listed'[s] = {}
           /\ submissions[s] # "unsent" => listed'[s] \subseteq listed[s]
<1> USE ConstantsAssumption
        DEF formVars, endpointVars, submitVars, workVars, workerVars,
            observers
<1>1. ASSUME NEW f \in Forms, NEW es \in Lists, UpdateNotifyEmails(f, es)
      PROVE /\ listed'[s] \subseteq Addresses(notify_emails'[FormOf[s]])
            /\ listed'[s] \subseteq listed[s]
            /\ UNCHANGED <<submissions, notify, outbox>>
    BY <1>1 DEF UpdateNotifyEmails, ListInv, TypeOK
<1>2. ASSUME NEW x \in Submissions, BeginSubmit(x), x = s
      PROVE /\ listed'[s] \subseteq Addresses(notify_emails'[FormOf[s]])
            /\ submissions'[s] = "posting" /\ submissions[s] = "unsent"
            /\ ~notify'[s] => listed'[s] = {}
    <2>1. /\ notify'[s] = (notify_emails[FormOf[s]] # {})
          /\ listed'[s] = Addresses(notify_emails[FormOf[s]])
          /\ notify_emails' = notify_emails
          /\ submissions'[s] = "posting" /\ submissions[s] = "unsent"
        BY <1>2 DEF BeginSubmit, TypeOK
    <2>2. Addresses({}) = {}
        BY DEF Addresses
    <2> QED
        BY <2>1, <2>2
<1>3. ASSUME NEW x \in Submissions, BeginSubmit(x), x # s
      PROVE /\ UNCHANGED <<notify_emails, outbox>>
            /\ listed'[s] = listed[s] /\ submissions'[s] = submissions[s]
            /\ notify'[s] = notify[s]
    BY <1>3 DEF BeginSubmit, TypeOK
<1>4. ASSUME NEW x \in Submissions, InsertSubmission(x), x = s,
             submissions'[s] = "stored", ~outbox'[s].queued
      PROVE ~notify[s]
    <2>1. FormOf[s] \in forms
        BY <1>4 DEF InsertSubmission, TypeOK
    <2>2. CASE notify[s]
        <3>1. outbox' = [outbox EXCEPT ![s] =
                            [NoRow EXCEPT !.queued = TRUE, !.due = TRUE]]
            BY <1>4, <2>1, <2>2, Zenon DEF InsertSubmission, Owed
        <3> QED
            BY <1>4, <3>1 DEF TypeOK, NoRow
    <2> QED
        BY <2>2 DEF TypeOK
<1>5. ASSUME NEW f \in Forms, DeleteForm(f)
      PROVE /\ listed'[s] \subseteq Addresses(notify_emails'[FormOf[s]])
            /\ listed'[s] \subseteq listed[s]
            /\ notify'[s] = notify[s] /\ outbox'[s] = outbox[s]
            /\ submissions'[s] \in {submissions[s], "gone"}
    <2>1. CASE FormOf[s] = f
        BY <1>5, <2>1 DEF DeleteForm
    <2>2. CASE FormOf[s] # f
        BY <1>5, <2>2 DEF DeleteForm, ListInv, TypeOK
    <2>3. submissions'[s] \in {submissions[s], "gone"}
        BY <1>5 DEF DeleteForm
    <2> QED
        BY <1>5, <2>1, <2>2, <2>3 DEF DeleteForm
<1>6. ASSUME NEW x \in Submissions, DeleteSubmission(x)
      PROVE /\ listed'[s] \subseteq Addresses(notify_emails'[FormOf[s]])
            /\ listed'[s] \subseteq listed[s]
            /\ notify'[s] = notify[s] /\ outbox'[s] = outbox[s]
            /\ submissions'[s] \in {submissions[s], "gone"}
    BY <1>6 DEF DeleteSubmission, ListInv, TypeOK
<1>7. ASSUME NEW x \in Submissions, InsertSubmission(x), x # s
      PROVE /\ UNCHANGED <<notify_emails, listed>>
            /\ notify'[s] = notify[s] /\ outbox'[s] = outbox[s]
            /\ submissions'[s] = submissions[s]
    BY <1>7 DEF InsertSubmission, TypeOK
<1>8. ASSUME NEW x \in Submissions, InsertSubmission(x), x = s
      PROVE /\ UNCHANGED <<notify_emails, listed>>
            /\ submissions[s] = "posting" /\ submissions'[s] \in {"stored", "gone"}
    BY <1>8 DEF InsertSubmission, TypeOK
<1>9. ASSUME UNCHANGED <<notify_emails, listed, notify, submissions>>
      PROVE /\ listed'[s] \subseteq Addresses(notify_emails'[FormOf[s]])
            /\ submissions'[s] = "unsent" => listed'[s] = {}
            /\ submissions'[s] = "posting" /\ ~notify'[s] => listed'[s] = {}
            /\ submissions'[s] = "stored" /\ ~outbox'[s].queued
                => listed'[s] = {}
            /\ listed'[s] \subseteq listed[s]
    BY <1>9, OutboxStep DEF ListInv
<1>10. \/ \E f \in Forms, es \in Lists : UpdateNotifyEmails(f, es)
       \/ \E f \in Forms : DeleteForm(f)
       \/ \E x \in Submissions : BeginSubmit(x)
       \/ \E x \in Submissions : InsertSubmission(x)
       \/ \E x \in Submissions : DeleteSubmission(x)
       \/ UNCHANGED <<notify_emails, listed, notify, submissions>>
    BY DEF Next, vars, Api, Work, CreateEndpoint, UpdateEndpoint,
           DeleteEndpoint, ClaimDue, ReadSource, FanOut, EnqueueEmail,
           MarkDispatched, Reschedule, Crash, TimePasses, LeaseExpires
<1> QED
    BY <1>1, <1>2, <1>3, <1>4, <1>5, <1>6, <1>7, <1>8, <1>9, <1>10 DEF ListInv

(* The count of jobs pushed for an entry never goes down.                  *)
LEMMA JobsStep ==
    ASSUME TypeOK, LocalsOK, [Next]_vars,
           NEW s \in Submissions, NEW r \in Entries, jobs[s][r] > 0
    PROVE  jobs'[s][r] > 0
<1>1. ASSUME NEW w \in Workers, NEW q \in Entries, EnqueueEmail(w, q)
      PROVE jobs'[s][r] > 0
    <2>1. CASE enqueue(event[w], q)
        <3>1. CASE event[w] = s /\ q = r
            <4>1. jobs'[s][r] = jobs[s][r] + 1
                BY <2>1, <3>1 DEF enqueue, TypeOK
            <4>2. jobs[s][r] \in Nat
                BY DEF TypeOK
            <4> QED
                BY <4>1, <4>2
        <3>2. CASE ~(event[w] = s /\ q = r)
            BY <2>1, <3>2 DEF enqueue, TypeOK
        <3> QED
            BY <3>1, <3>2
    <2> QED
        BY <1>1, <2>1 DEF EnqueueEmail
<1> QED
    BY <1>1
    DEF Next, vars, Api, Work, workVars, UpdateNotifyEmails, DeleteForm,
        CreateEndpoint, UpdateEndpoint, DeleteEndpoint, BeginSubmit,
        InsertSubmission, DeleteSubmission, ClaimDue, ReadSource, FanOut,
        MarkDispatched, Reschedule, Crash, TimePasses, LeaseExpires

(* An address that was mailed stays mailed.                                *)
LEMMA MailedStep ==
    ASSUME TypeOK, LocalsOK, [Next]_vars, NEW s \in Submissions,
           NEW r \in Recipients, Mailed(s, r)
    PROVE  Mailed(s, r)'
BY JobsStep DEF Mailed

(* From the read of the source on, a listed address is either still to be  *)
(* enqueued by the worker or already on the queue.                         *)
LEMMA ListStep ==
    ASSUME TypeOK, LocalsOK, RowInv, WorkerInv, ListInv, [Next]_vars
    PROVE  ListInv'
<1> USE ConstantsAssumption
        DEF formVars, endpointVars, submitVars, workVars, workerVars,
            observers
<1> DEFINE StillOwed(v) ==
        (/\ pc[v] \in {"fan_out", "emails", "mark"}
         /\ submissions[event[v]] = "stored")
            => \A r \in listed[event[v]] : InHand(v, r)
<1> SUFFICES ASSUME NEW v \in Workers PROVE StillOwed(v)'
    BY AddressStep DEF ListInv
<1>1. ASSUME event'[v] = event[v], event[v] \in Submissions,
             outbox[event[v]].queued, submissions'[event[v]] = "stored"
      PROVE /\ submissions[event[v]] = "stored"
            /\ listed'[event[v]] \subseteq listed[event[v]]
            /\ listed'[event[v]] \subseteq Recipients
    <2>1. submissions[event[v]] = "stored"
        BY <1>1, SubmissionStep DEF RowInv
    <2>2. listed[event[v]] \subseteq Recipients
        BY <1>1 DEF TypeOK
    <2> QED
        BY <1>1, <2>1, <2>2, AddressStep
<1>2. CASE pc'[v] = pc[v] /\ event'[v] = event[v] /\ todo'[v] = todo[v]
    <2> SUFFICES ASSUME pc[v] \in {"fan_out", "emails", "mark"},
                        submissions'[event[v]] = "stored",
                        NEW r \in listed'[event[v]],
                        \A e \in todo[v] : e[2] # r
                 PROVE  Mailed(event[v], r)'
        BY <1>2 DEF InHand, Mailed
    <2>1. event[v] \in Submissions /\ outbox[event[v]].queued
        BY DEF LocalsOK, WorkerInv
    <2>2. submissions[event[v]] = "stored" /\ r \in listed[event[v]]
            /\ r \in Recipients
        BY <1>1, <1>2, <2>1
    <2>3. Mailed(event[v], r)
        BY <2>2 DEF ListInv, InHand
    <2> QED
        BY <1>2, <2>1, <2>2, <2>3, JobsStep DEF Mailed
<1>3. CASE pc'[v] \notin {"fan_out", "emails", "mark"}
    BY <1>3
<1>4. ASSUME NEW w \in Workers, NEW s \in Submissions, ReadSource(w, s)
      PROVE StillOwed(v)'
    <2>1. CASE w # v
        BY <1>2, <1>4, <2>1 DEF ReadSource, Goto, TypeOK
    <2>2. CASE w = v /\ todo'[v] = notify_emails[FormOf[s]]
        <3>1. event'[v] = s /\ UNCHANGED listed
            BY <1>4, <2>2 DEF ReadSource, TypeOK
        <3>2. \A r \in listed[s] : \E e \in todo'[v] : e[2] = r
            BY <2>2 DEF ListInv, Addresses
        <3> QED
            BY <3>1, <3>2 DEF InHand
    <2>3. CASE w = v /\ submissions[s] # "stored"
        BY <1>4, <2>3 DEF ReadSource, TypeOK
    <2>4. CASE w = v /\ pc'[v] = "reschedule"
        BY <1>3, <2>4
    <2> QED
        BY <1>4, <2>1, <2>2, <2>3, <2>4 DEF ReadSource, Goto, TypeOK
<1>5. ASSUME NEW w \in Workers, FanOut(w)
      PROVE StillOwed(v)'
    <2>1. CASE w # v
        BY <1>2, <1>5, <2>1 DEF FanOut, Goto, TypeOK
    <2>2. CASE w = v
        BY <1>5, <2>2 DEF FanOut, ListInv, InHand, Mailed
    <2> QED
        BY <2>1, <2>2
<1>6. ASSUME NEW w \in Workers, NEW r \in Entries, EnqueueEmail(w, r)
      PROVE StillOwed(v)'
    <2>1. CASE w # v
        BY <1>2, <1>6, <2>1 DEF EnqueueEmail, Goto, TypeOK
    <2>2. CASE w = v /\ pc'[v] = "reschedule"
        BY <1>3, <2>2
    <2>3. CASE w = v /\ enqueue(event[v], r) /\ todo'[v] = todo[v] \ {r}
        <3>1. event[v] \in Submissions /\ outbox[event[v]].queued
            BY <1>6, <2>3 DEF EnqueueEmail, LocalsOK, WorkerInv
        <3>2. jobs'[event[v]][r] > 0
            <4>1. jobs[event[v]][r] \in Nat
                BY <3>1 DEF TypeOK
            <4>2. jobs'[event[v]][r] = jobs[event[v]][r] + 1
                BY <2>3, <3>1 DEF enqueue, TypeOK
            <4> QED
                BY <4>1, <4>2
        <3>3. UNCHANGED event
            BY <1>6 DEF EnqueueEmail
        <3> SUFFICES ASSUME submissions'[event[v]] = "stored",
                            NEW q \in listed'[event[v]],
                            \A e \in todo'[v] : e[2] # q
                     PROVE  Mailed(event[v], q)'
            BY <3>3 DEF InHand, Mailed
        <3>4. submissions[event[v]] = "stored" /\ q \in listed[event[v]]
                /\ q \in Recipients
            BY <1>1, <3>1, <3>3
        <3>5. InHand(v, q)
            BY <1>6, <2>3, <3>4 DEF EnqueueEmail, ListInv
        <3>6. CASE r[2] = q
            BY <3>2, <3>3, <3>6 DEF Mailed
        <3>7. CASE r[2] # q
            <4>1. Mailed(event[v], q)
                BY <2>3, <3>5, <3>7 DEF InHand
            <4> QED
                BY <3>1, <3>3, <4>1, JobsStep DEF Mailed
        <3> QED
            BY <3>6, <3>7
    <2> QED
        BY <1>6, <2>1, <2>2, <2>3 DEF EnqueueEmail, Goto, TypeOK
<1>7. ASSUME NEW w \in Workers, EndPass(w) \/ NextEvent(w)
      PROVE StillOwed(v)'
    BY <1>2, <1>3, <1>7 DEF EndPass, NextEvent, Goto, TypeOK
<1>8. ASSUME NEW w \in Workers, NEW S \in SUBSET Submissions, ClaimDue(w, S)
      PROVE StillOwed(v)'
    BY <1>2, <1>3, <1>8 DEF ClaimDue, Goto, TypeOK
<1> QED
    BY <1>2, <1>4, <1>5, <1>6, <1>7, <1>8
    DEF Next, vars, Api, Work, UpdateNotifyEmails, DeleteForm, CreateEndpoint,
        UpdateEndpoint, DeleteEndpoint, BeginSubmit, InsertSubmission,
        DeleteSubmission, MarkDispatched, Reschedule, Crash, TimePasses,
        LeaseExpires

(* The mark is made by a worker with no address left to enqueue, so every  *)
(* listed address has its job then, and jobs are never taken back.         *)
LEMMA ListedStep ==
    ASSUME TypeOK, LocalsOK, RowInv, WorkerInv, ListInv,
           ListedAreMailed, [Next]_vars
    PROVE  ListedAreMailed'
<1> SUFFICES ASSUME NEW s \in Submissions,
                    submissions'[s] = "stored", outbox'[s].dispatched,
                    NEW r \in listed'[s]
             PROVE  Mailed(s, r)'
    BY DEF ListedAreMailed, Settled
<1>1. outbox[s].queued
    BY OutboxStep DEF RowInv, WorkerInv
<1>2. submissions[s] = "stored"
    BY <1>1, SubmissionStep DEF RowInv
<1>3. r \in listed[s] /\ r \in Recipients
    BY <1>2, AddressStep DEF TypeOK
<1>4. Mailed(s, r)
    <2>1. CASE outbox[s].dispatched
        BY <1>2, <1>3, <2>1 DEF ListedAreMailed, Settled
    <2>2. CASE ~outbox[s].dispatched
        BY <1>2, <1>3, <2>2, OutboxStep DEF ListInv, WorkerInv, InHand
    <2> QED
        BY <2>1, <2>2
<1> QED
    BY <1>3, <1>4, MailedStep

-----------------------------------------------------------------------------
(* The inductive invariant.                                                *)
(* The empty tables and idle workers of the start.                         *)
LEMMA IInvInit == Init => IInv /\ LocalsOK
BY ConstantsAssumption
DEF Init, IInv, TypeOK, NoRow, OutboxEvent, SubmissionStates, Locations,
    LocalsOK, WorkerInv, RowInv, WatchInv, ListInv, WatchersHaveDeliveries,
    ListedAreMailed, Settled

(* Every step keeps the inductive invariant, one lemma per conjunct.       *)
LEMMA IInvStep == IInv /\ LocalsOK /\ [Next]_vars => IInv' /\ LocalsOK'
BY TypeStep, WorkerStep, RowStep, WatchStep, WatchersStep, ListStep, ListedStep
DEF IInv

(* The inductive invariant holds throughout every behaviour.               *)
LEMMA Invariance == Spec => [](IInv /\ LocalsOK)
BY IInvInit, IInvStep, PTL DEF Spec

(* NoInterestIsDropped, for every instance: a stored submission without an *)
(* outbox event has no endpoint and no address left to tell.               *)
THEOREM InterestIsKept == Spec => []NoInterestIsDropped
<1>1. IInv => NoInterestIsDropped
    BY DEF IInv, WatchInv, ListInv, NoInterestIsDropped
<1> QED
    BY <1>1, Invariance, PTL

(* WatchersHaveDeliveries, for every instance: no interleaving of workers, *)
(* crashes, failed statements, expired leases and edits marks an event     *)
(* dispatched while an endpoint that matched all along has no delivery.    *)
THEOREM WebhooksAreFannedOut == Spec => []WatchersHaveDeliveries
<1>1. IInv => WatchersHaveDeliveries
    BY DEF IInv
<1> QED
    BY <1>1, Invariance, PTL

(* ListedAreMailed, for every instance: the dispatcher loses no mail.      *)
THEOREM MailIsEnqueued == Spec => []ListedAreMailed
<1>1. IInv => ListedAreMailed
    BY DEF IInv
<1> QED
    BY <1>1, Invariance, PTL

(* SettledIsFinal, for every instance: the unconditional UPDATE of a late  *)
(* reschedule never reopens a dispatched event.                            *)
THEOREM DispatchIsFinal == Spec => SettledIsFinal
<1>1. IInv /\ LocalsOK /\ [Next]_vars =>
        [\A s \in Submissions :
            outbox[s].dispatched =>
                /\ outbox'[s].dispatched
                /\ outbox'[s].attempts = outbox[s].attempts]_vars
    BY OutboxStep DEF IInv
<1> QED
    BY <1>1, Invariance, PTL DEF Spec, SettledIsFinal

-----------------------------------------------------------------------------
(* At-least-once is paid for by claims                                     *)

(* The workers that may still enqueue entry r for submission s.          *)
Unsent(s, r) ==
    {w \in Workers :
        /\ s \in batch[w]
        /\ \/ pc[w] \in {"loop", "fan_out"} \/ event[w] # s
           \/ pc[w] = "emails" /\ r \in todo[w]}

(* Every claim pays for one job per entry: the ones enqueued and the       *)
(* ones workers may still enqueue.                                         *)
ClaimInv ==
    \A s \in Submissions :
        /\ ~outbox[s].queued => outbox[s].attempts = 0
        /\ \A r \in Entries :
             jobs[s][r] + Cardinality(Unsent(s, r)) <= outbox[s].attempts

(* Only a claim of the event counts an attempt, and exactly one.           *)
LEMMA AttemptsStep ==
    ASSUME TypeOK, LocalsOK, RowInv, WorkerInv, ClaimInv, [Next]_vars,
           NEW s \in Submissions
    PROVE  \/ outbox'[s].attempts = outbox[s].attempts
           \/ /\ outbox'[s].attempts = outbox[s].attempts + 1
              /\ \E w \in Workers, S \in SUBSET Submissions :
                    s \in S /\ ClaimDue(w, S)
<1> USE DEF formVars, endpointVars, submitVars, workVars, workerVars,
            observers
<1>1. outbox[s] \in OutboxEvent
    BY DEF TypeOK
<1>2. ASSUME NEW t \in Submissions, InsertSubmission(t)
      PROVE  outbox'[s].attempts = outbox[s].attempts
    <2>1. CASE t = s
        <3>1. ~outbox[s].queued
            BY <1>2, <2>1 DEF InsertSubmission, RowInv
        <3>2. \/ UNCHANGED outbox
              \/ outbox' = [outbox EXCEPT ![s] = NoRow]
              \/ outbox' = [outbox EXCEPT ![s] =
                    [NoRow EXCEPT !.queued = TRUE, !.due = TRUE]]
            BY <1>2, <2>1, Zenon DEF InsertSubmission
        <3>3. \/ outbox'[s] = outbox[s]
              \/ outbox'[s] = NoRow
              \/ outbox'[s] = [NoRow EXCEPT !.queued = TRUE, !.due = TRUE]
            BY <3>2, Zenon DEF TypeOK
        <3>4. outbox[s].attempts = 0
            BY <3>1 DEF ClaimInv
        <3>5. /\ NoRow.attempts = 0
              /\ [NoRow EXCEPT !.queued = TRUE, !.due = TRUE].attempts = 0
            BY DEF NoRow
        <3> QED
            BY <3>3, <3>4, <3>5, Zenon
    <2>2. CASE t # s
        BY <1>2, <2>2 DEF InsertSubmission, TypeOK
    <2> QED
        BY <2>1, <2>2
<1>3. ASSUME NEW w \in Workers, NEW S \in SUBSET Submissions, ClaimDue(w, S)
      PROVE  \/ outbox'[s].attempts = outbox[s].attempts
             \/ s \in S /\ outbox'[s].attempts = outbox[s].attempts + 1
    <2>1. CASE s \in S
        <3>1. outbox'[s] = [outbox[s] EXCEPT !.attempts = @ + 1, !.due = FALSE]
            BY <1>3, <2>1 DEF ClaimDue, claim_due
        <3> QED
            BY <1>1, <2>1, <3>1 DEF OutboxEvent
    <2>2. CASE s \notin S
        BY <1>3, <2>2 DEF ClaimDue, claim_due
    <2> QED
        BY <2>1, <2>2
<1>4. ASSUME NEW w \in Workers, MarkDispatched(w) \/ Reschedule(w)
      PROVE  outbox'[s].attempts = outbox[s].attempts
    <2>1. event[w] \in Submissions
        BY <1>4 DEF MarkDispatched, Reschedule, LocalsOK
    <2>2. \/ outbox'[s] = outbox[s]
          \/ outbox'[s] = Dispatched(outbox[s])
          \/ outbox'[s] = Rescheduled(outbox[s])
        BY <1>4, <2>1
        DEF MarkDispatched, Reschedule, mark_dispatched, reschedule, TypeOK
    <2> QED
        BY <1>1, <2>2, RowFields
<1>5. ASSUME NEW t \in Submissions, TimePasses(t) \/ LeaseExpires(t)
      PROVE  outbox'[s].attempts = outbox[s].attempts
    <2>1. outbox'[s] = outbox[s] \/ outbox'[s] = [outbox[s] EXCEPT !.due = TRUE]
        BY <1>5 DEF TimePasses, LeaseExpires, BecomeDue, TypeOK
    <2> QED
        BY <1>1, <2>1 DEF OutboxEvent
<1> QED
    BY <1>2, <1>3, <1>4, <1>5
    DEF Next, vars, Api, Work, UpdateNotifyEmails, DeleteForm, CreateEndpoint,
        UpdateEndpoint, DeleteEndpoint, BeginSubmit, DeleteSubmission,
        ReadSource, FanOut, EnqueueEmail, Crash

(* A worker joins the ones that may still enqueue only by a claim.         *)
LEMMA UnsentStep ==
    ASSUME TypeOK, LocalsOK, WorkerInv, [Next]_vars,
           NEW s \in Submissions, NEW r \in Entries
    PROVE  \/ /\ jobs'[s][r] = jobs[s][r]
              /\ Unsent(s, r)' \subseteq Unsent(s, r)
           \/ /\ jobs'[s][r] = jobs[s][r]
              /\ \E w \in Workers, S \in SUBSET Submissions :
                    /\ s \in S /\ ClaimDue(w, S)
                    /\ Unsent(s, r)' \subseteq Unsent(s, r) \cup {w}
           \/ /\ jobs'[s][r] = jobs[s][r] + 1
              /\ \E w \in Unsent(s, r) :
                    Unsent(s, r)' \subseteq Unsent(s, r) \ {w}
<1> USE DEF formVars, endpointVars, submitVars, workVars, workerVars,
            observers
<1> DEFINE Keeps == Unsent(s, r)' \subseteq Unsent(s, r)
           Claims == \E w \in Workers, S \in SUBSET Submissions : ClaimDue(w, S)
<1>1. ASSUME UNCHANGED <<pc, batch, event, todo>> PROVE Keeps
    BY <1>1 DEF Unsent
<1>2. ASSUME NEW w \in Workers, EndPass(w) \/ NextEvent(w) PROVE Keeps
    <2>1. \A v \in Workers \ {w} :
            /\ batch'[v] = batch[v] /\ pc'[v] = pc[v]
            /\ event'[v] = event[v] /\ todo'[v] = todo[v]
        BY <1>2 DEF EndPass, NextEvent, Goto, TypeOK
    <2>2. s \in batch'[w] => s \in batch[w] /\ event[w] # s
        BY <1>2 DEF EndPass, NextEvent, TypeOK
    <2> QED
        BY <2>1, <2>2 DEF Unsent
<1>3. ASSUME NEW w \in Workers, NEW S \in SUBSET Submissions, ClaimDue(w, S)
      PROVE IF s \in S THEN Unsent(s, r)' \subseteq Unsent(s, r) \cup {w}
            ELSE Keeps
    <2>1. \A v \in Workers \ {w} : batch'[v] = batch[v] /\ pc'[v] = pc[v]
        BY <1>3 DEF ClaimDue, Goto, TypeOK
    <2>2. batch'[w] = S /\ UNCHANGED <<event, todo>>
        BY <1>3 DEF ClaimDue, TypeOK
    <2> QED
        BY <2>1, <2>2 DEF Unsent
<1>4. ASSUME NEW w \in Workers, NEW t \in Submissions, ReadSource(w, t)
      PROVE Keeps
    <2>1. \A v \in Workers \ {w} :
            pc'[v] = pc[v] /\ event'[v] = event[v] /\ todo'[v] = todo[v]
        BY <1>4 DEF ReadSource, Goto, TypeOK
    <2>2. UNCHANGED batch /\ pc[w] = "loop"
        BY <1>4 DEF ReadSource
    <2> QED
        BY <2>1, <2>2 DEF Unsent
<1>5. ASSUME NEW w \in Workers, FanOut(w)
      PROVE Keeps
    <2>1. \A v \in Workers \ {w} : pc'[v] = pc[v]
        BY <1>5 DEF FanOut, Goto, TypeOK
    <2>2. UNCHANGED <<batch, event, todo>> /\ pc[w] = "fan_out"
        BY <1>5 DEF FanOut
    <2> QED
        BY <2>1, <2>2 DEF Unsent
<1>6. ASSUME NEW w \in Workers, NEW q \in Entries, EnqueueEmail(w, q)
      PROVE \/ /\ jobs'[s][r] = jobs[s][r]
               /\ Keeps
            \/ /\ jobs'[s][r] = jobs[s][r] + 1
               /\ w \in Unsent(s, r)
               /\ Unsent(s, r)' \subseteq Unsent(s, r) \ {w}
    <2>1. \A v \in Workers \ {w} : pc'[v] = pc[v] /\ todo'[v] = todo[v]
        BY <1>6 DEF EnqueueEmail, Goto, TypeOK
    <2>2. /\ UNCHANGED <<batch, event>> /\ pc[w] = "emails" /\ q \in todo[w]
          /\ event[w] \in batch[w] /\ event[w] \in Submissions
        BY <1>6 DEF EnqueueEmail, WorkerInv, LocalsOK
    <2>3. \/ pc'[w] = "reschedule" /\ todo'[w] = todo[w]
          \/ pc'[w] \in {"mark", "emails"} /\ todo'[w] = todo[w] \ {q}
        BY <1>6 DEF EnqueueEmail, Goto, TypeOK
    <2>4. Keeps
        BY <2>1, <2>2, <2>3 DEF Unsent
    <2>5. CASE s = event[w] /\ r = q
        <3>1. w \in Unsent(s, r) /\ Unsent(s, r)' \subseteq Unsent(s, r) \ {w}
            BY <2>1, <2>2, <2>3, <2>5 DEF Unsent
        <3>2. jobs'[s][r] \in {jobs[s][r], jobs[s][r] + 1}
            BY <1>6, <2>2, <2>5 DEF EnqueueEmail, enqueue, TypeOK
        <3> QED
            BY <2>4, <3>1, <3>2
    <2>6. CASE ~(s = event[w] /\ r = q)
        <3>1. jobs'[s][r] = jobs[s][r]
            BY <1>6, <2>2, <2>6 DEF EnqueueEmail, enqueue, TypeOK
        <3> QED
            BY <2>4, <3>1
    <2> QED
        BY <2>5, <2>6
<1>7. ASSUME UNCHANGED jobs,
             Keeps \/ Claims
      PROVE  \/ /\ jobs'[s][r] = jobs[s][r]
                /\ Keeps
             \/ /\ jobs'[s][r] = jobs[s][r]
                /\ \E w \in Workers, S \in SUBSET Submissions :
                      /\ s \in S /\ ClaimDue(w, S)
                      /\ Unsent(s, r)' \subseteq Unsent(s, r) \cup {w}
    BY <1>3, <1>7
<1>8. \/ UNCHANGED jobs /\ (Keeps \/ Claims)
      \/ \E w \in Workers, q \in Entries : EnqueueEmail(w, q)
    BY <1>1, <1>2, <1>4, <1>5
    DEF Next, vars, Api, Work, UpdateNotifyEmails, DeleteForm, CreateEndpoint,
        UpdateEndpoint, DeleteEndpoint, BeginSubmit, InsertSubmission,
        DeleteSubmission, ClaimDue, ReadSource, FanOut, MarkDispatched,
        Reschedule, Crash, TimePasses, LeaseExpires
<1> HIDE DEF Keeps, Claims
<1> QED
    <2>1. CASE UNCHANGED jobs /\ (Keeps \/ Claims)
        BY <1>7, <2>1 DEF Keeps
    <2>2. CASE \E w \in Workers, q \in Entries : EnqueueEmail(w, q)
        BY <1>6, <2>2 DEF Keeps
    <2> QED
        BY <1>8, <2>1, <2>2

(* A claim brings one worker and one attempt; a push, refused or not,      *)
(* takes its worker out of the set for good.                               *)
LEMMA ClaimStep ==
    ASSUME TypeOK, LocalsOK, RowInv, WorkerInv, ClaimInv, [Next]_vars, TypeOK'
    PROVE  ClaimInv'
<1> SUFFICES ASSUME NEW s \in Submissions
             PROVE  /\ ~outbox'[s].queued => outbox'[s].attempts = 0
                    /\ \A r \in Entries :
                         jobs'[s][r] + Cardinality(Unsent(s, r)')
                            <= outbox'[s].attempts
    BY DEF ClaimInv
<1>1. /\ outbox[s].attempts \in Nat /\ outbox'[s].attempts \in Nat
      /\ \A r \in Entries : jobs[s][r] \in Nat /\ jobs'[s][r] \in Nat
    BY DEF TypeOK, OutboxEvent
<1>2. ~outbox'[s].queued => outbox'[s].attempts = 0
    <2>1. outbox[s].queued => outbox'[s].queued
        BY OutboxStep
    <2>2. \A w \in Workers, S \in SUBSET Submissions :
            s \in S /\ ClaimDue(w, S) => outbox[s].queued
        BY DEF ClaimDue, Pending
    <2> QED
        BY <2>1, <2>2, AttemptsStep DEF ClaimInv
<1>3. ASSUME NEW r \in Entries
      PROVE  jobs'[s][r] + Cardinality(Unsent(s, r)') <= outbox'[s].attempts
    <2>1. /\ IsFiniteSet(Unsent(s, r)) /\ IsFiniteSet(Unsent(s, r)')
          /\ Cardinality(Unsent(s, r)) \in Nat /\ Cardinality(Unsent(s, r)') \in Nat
        <3>1. Unsent(s, r) \in SUBSET Workers /\ Unsent(s, r)' \in SUBSET Workers
            BY DEF Unsent
        <3> QED
            BY <3>1, ConstantsAssumption, FS_Subset, FS_CardinalityType
    <2>2. jobs[s][r] + Cardinality(Unsent(s, r)) <= outbox[s].attempts
        BY DEF ClaimInv
    <2>3. outbox'[s].attempts >= outbox[s].attempts
        BY <1>1, AttemptsStep
    <2>4. CASE jobs'[s][r] = jobs[s][r] /\ Unsent(s, r)' \subseteq Unsent(s, r)
        <3>1. Cardinality(Unsent(s, r)') <= Cardinality(Unsent(s, r))
            BY <2>1, <2>4, FS_Subset
        <3> QED
            BY <1>1, <2>1, <2>2, <2>3, <2>4, <3>1
    <2>5. ASSUME jobs'[s][r] = jobs[s][r],
                 NEW w \in Workers, NEW S \in SUBSET Submissions,
                 s \in S, ClaimDue(w, S),
                 Unsent(s, r)' \subseteq Unsent(s, r) \cup {w}
          PROVE  jobs'[s][r] + Cardinality(Unsent(s, r)') <= outbox'[s].attempts
        <3>1. /\ IsFiniteSet(Unsent(s, r) \cup {w})
              /\ Cardinality(Unsent(s, r) \cup {w}) <= Cardinality(Unsent(s, r)) + 1
            <4>1. /\ IsFiniteSet(Unsent(s, r) \cup {w})
                  /\ Cardinality(Unsent(s, r) \cup {w}) =
                        IF w \in Unsent(s, r) THEN Cardinality(Unsent(s, r))
                        ELSE Cardinality(Unsent(s, r)) + 1
                BY <2>1, FS_AddElement
            <4> QED
                BY <2>1, <4>1
        <3>2. Cardinality(Unsent(s, r)') <= Cardinality(Unsent(s, r) \cup {w})
            BY <2>5, <3>1, FS_Subset
        <3>3. outbox'[s].attempts = outbox[s].attempts + 1
            <4>1. outbox[s] \in OutboxEvent
                BY DEF TypeOK
            <4>2. outbox'[s] = [outbox[s] EXCEPT !.attempts = @ + 1, !.due = FALSE]
                BY <2>5 DEF ClaimDue, claim_due
            <4> QED
                BY <4>1, <4>2 DEF OutboxEvent
        <3>4. Cardinality(Unsent(s, r) \cup {w}) \in Nat
            BY <3>1, FS_CardinalityType
        <3> QED
            BY <1>1, <2>1, <2>2, <2>5, <3>1, <3>2, <3>3, <3>4
    <2>6. ASSUME jobs'[s][r] = jobs[s][r] + 1, NEW w \in Unsent(s, r),
                 Unsent(s, r)' \subseteq Unsent(s, r) \ {w}
          PROVE  jobs'[s][r] + Cardinality(Unsent(s, r)') <= outbox'[s].attempts
        <3>1. /\ IsFiniteSet(Unsent(s, r) \ {w})
              /\ Cardinality(Unsent(s, r) \ {w}) = Cardinality(Unsent(s, r)) - 1
            BY <2>1, FS_RemoveElement
        <3>2. Cardinality(Unsent(s, r)') <= Cardinality(Unsent(s, r) \ {w})
            BY <2>6, <3>1, FS_Subset
        <3> QED
            BY <1>1, <2>1, <2>2, <2>3, <2>6, <3>1, <3>2
    <2> QED
        BY <2>4, <2>5, <2>6, UnsentStep
<1> QED
    BY <1>2, <1>3

(* OneJobPerClaim, for every instance: however many leases run out under   *)
(* however many workers, the duplicates of a notification are bounded by   *)
(* the claims of its event.                                                *)
THEOREM JobsAreClaimed == Spec => []OneJobPerClaim
<1>1. Init => ClaimInv
    <2> SUFFICES ASSUME Init, NEW s \in Submissions
                 PROVE  /\ outbox[s].attempts = 0
                        /\ \A r \in Entries : jobs[s][r] = 0 /\ Unsent(s, r) = {}
        <3>1. Cardinality({}) = 0
            BY FS_EmptySet
        <3> QED
            BY <3>1 DEF ClaimInv
    <2> QED
        BY DEF Init, NoRow, Unsent
<1>2. IInv /\ LocalsOK /\ ClaimInv /\ [Next]_vars => ClaimInv'
    BY ClaimStep, TypeStep DEF IInv
<1>3. IInv /\ ClaimInv => OneJobPerClaim
    <2> SUFFICES ASSUME IInv, ClaimInv, NEW s \in Submissions, NEW r \in Entries
                 PROVE  jobs[s][r] <= outbox[s].attempts
        BY DEF OneJobPerClaim
    <2>1. jobs[s][r] \in Nat /\ outbox[s].attempts \in Nat
        BY DEF IInv, TypeOK, OutboxEvent
    <2>2. Cardinality(Unsent(s, r)) \in Nat
        <3>1. Unsent(s, r) \in SUBSET Workers
            BY DEF Unsent
        <3> QED
            BY <3>1, ConstantsAssumption, FS_Subset, FS_CardinalityType
    <2> QED
        BY <2>1, <2>2 DEF ClaimInv
<1> QED
    BY <1>1, <1>2, <1>3, Invariance, PTL DEF Spec

-----------------------------------------------------------------------------
(* Refinement of Notification                                              *)

(* Whoever may be told: an endpoint or an address.                         *)
Parties == ({"endpoint"} \X Endpoints) \cup ({"address"} \X Recipients)

(* A step that leaves the four views of every submission alone is a        *)
(* stuttering step of the promise.                                         *)
LEMMA ViewStutters ==
    ASSUME \A s \in Submissions :
              /\ Life(s)' = Life(s) /\ Owing(s)' = Owing(s)
              /\ Interested(s)' = Interested(s) /\ Told(s)' = Told(s)
    PROVE  UNCHANGED Promise!vars
BY Zenon DEF Promise!vars

(* The insert of a submission, seen as an acceptance.                      *)
LEMMA ViewAccepts ==
    ASSUME NEW s \in Submissions,
           Life(s) = "new", Life(s)' = "stored",
           Interested(s)' \in SUBSET Parties,
           Owing(s)' = "owed" \/ (Interested(s)' = {} /\ Owing(s)' = Owing(s)),
           \A t \in Submissions : Told(t)' = Told(t),
           \A t \in Submissions \ {s} :
              /\ Life(t)' = Life(t) /\ Owing(t)' = Owing(t)
              /\ Interested(t)' = Interested(t)
    PROVE  Promise!Next
<1>1. Promise!Accept(s, Interested(s)')
    <2>1. Owing(s)' = "owed" =>
            [t \in Submissions |-> Owing(t)]'
                = [[t \in Submissions |-> Owing(t)] EXCEPT ![s] = "owed"]
        OBVIOUS
    <2>2. Owing(s)' = Owing(s) =>
            [t \in Submissions |-> Owing(t)]' = [t \in Submissions |-> Owing(t)]
        OBVIOUS
    <2> QED
        BY <2>1, <2>2 DEF Promise!Accept
<1> QED
    BY <1>1 DEF Promise!Next, Parties

(* The insert the foreign key refuses.                                     *)
LEMMA ViewRefuses ==
    ASSUME NEW s \in Submissions,
           Life(s) = "new", Life(s)' = "gone",
           \A t \in Submissions \ {s} : Life(t)' = Life(t),
           \A t \in Submissions :
              /\ Owing(t)' = Owing(t) /\ Told(t)' = Told(t)
              /\ Interested(t)' = Interested(t)
    PROVE  Promise!Next
<1>1. Promise!Refuse(s)
    BY DEF Promise!Refuse
<1> QED
    BY <1>1 DEF Promise!Next

(* Submissions D deleted and interest lost, seen as a withdrawal.          *)
LEMMA ViewWithdraws ==
    ASSUME NEW D \in SUBSET Submissions,
           \A s \in D : Life(s) = "stored" /\ Life(s)' = "gone",
           \A s \in Submissions \ D : Life(s)' = Life(s),
           \A s \in Submissions :
              /\ Owing(s)' = Owing(s)
              /\ Interested(s)' \subseteq Interested(s)
              /\ Told(s)' \subseteq Told(s)
              /\ s \notin D => Told(s) \cap Interested(s)' \subseteq Told(s)'
    PROVE  Promise!Next
<1>1. Promise!Withdraw(D)
    BY DEF Promise!Withdraw
<1> QED
    BY <1>1 DEF Promise!Next

(* A fan-out or a push, seen as parties told.                              *)
LEMMA ViewTells ==
    ASSUME NEW s \in Submissions, NEW P \in SUBSET Parties,
           Owing(s) # "none",
           Told(s)' = Told(s) \cup P,
           \A t \in Submissions \ {s} : Told(t)' = Told(t),
           \A t \in Submissions :
              /\ Life(t)' = Life(t) /\ Owing(t)' = Owing(t)
              /\ Interested(t)' = Interested(t)
    PROVE  Promise!Next
<1>1. Promise!Tell(s, P)
    BY DEF Promise!Tell
<1> QED
    BY <1>1 DEF Promise!Next, Parties

(* The mark of an event, seen as work written off.                         *)
LEMMA ViewSettles ==
    ASSUME NEW s \in Submissions,
           Owing(s) = "owed", Owing(s)' = "settled",
           Life(s) = "stored" => Interested(s) \subseteq Told(s),
           \A t \in Submissions \ {s} : Owing(t)' = Owing(t),
           \A t \in Submissions :
              /\ Life(t)' = Life(t) /\ Told(t)' = Told(t)
              /\ Interested(t)' = Interested(t)
    PROVE  Promise!Next
<1>1. Promise!Settle(s)
    BY DEF Promise!Settle
<1> QED
    BY <1>1 DEF Promise!Next

(* What each view is a view of.                                            *)
LEMMA ViewsKept ==
    ASSUME NEW s \in Submissions
    PROVE  /\ submissions'[s] = submissions[s] => Life(s)' = Life(s)
           /\ (/\ outbox'[s].queued = outbox[s].queued
               /\ outbox'[s].dispatched = outbox[s].dispatched)
                 => Owing(s)' = Owing(s)
           /\ (/\ submissions'[s] = submissions[s]
               /\ watching'[s] = watching[s] /\ listed'[s] = listed[s])
                 => Interested(s)' = Interested(s)
           /\ UNCHANGED <<deliveries, jobs>> => Told(s)' = Told(s)
BY Zenon DEF Life, Owing, Interested, Told, Mailed

(* Interest and what was told, party by party.                             *)
LEMMA ViewMembers ==
    ASSUME NEW s \in Submissions
    PROVE  /\ \A e : <<"endpoint", e>> \in Interested(s)
                       <=> submissions[s] = "stored" /\ e \in watching[s]
           /\ \A r : <<"address", r>> \in Interested(s)
                       <=> submissions[s] = "stored" /\ r \in listed[s]
           /\ \A e : <<"endpoint", e>> \in Told(s)
                       <=> e \in Endpoints /\ <<e, s>> \in deliveries
           /\ \A r : <<"address", r>> \in Told(s)
                       <=> r \in Recipients /\ Mailed(s, r)
           /\ \A p \in Interested(s) \cup Told(s) :
                  \/ \E e : p = <<"endpoint", e>>
                  \/ \E r : p = <<"address", r>>
BY DEF Interested, Told

(* The same after the step.                                                *)
LEMMA ViewMembersNext ==
    ASSUME NEW s \in Submissions
    PROVE  /\ \A e : <<"endpoint", e>> \in Interested(s)'
                       <=> submissions'[s] = "stored" /\ e \in watching'[s]
           /\ \A r : <<"address", r>> \in Interested(s)'
                       <=> submissions'[s] = "stored" /\ r \in listed'[s]
           /\ \A e : <<"endpoint", e>> \in Told(s)'
                       <=> e \in Endpoints /\ <<e, s>> \in deliveries'
           /\ \A r : <<"address", r>> \in Told(s)'
                       <=> r \in Recipients /\ Mailed(s, r)'
           /\ \A p \in Interested(s)' \cup Told(s)' :
                  \/ \E e : p = <<"endpoint", e>>
                  \/ \E r : p = <<"address", r>>
BY DEF Interested, Told

(* When interest only fades, and deliveries go only with the interest in   *)
(* them or with their submission, the owner's step is a withdrawal.        *)
LEMMA ViewFades ==
    ASSUME NEW D \in SUBSET Submissions,
           \A s \in D : submissions[s] = "stored" /\ submissions'[s] = "gone",
           \A s \in Submissions \ D : submissions'[s] = submissions[s],
           \A s \in Submissions :
              /\ watching'[s] \subseteq watching[s]
              /\ listed'[s] \subseteq listed[s],
           deliveries' \subseteq deliveries,
           \A s \in Submissions \ D : \A e \in watching'[s] :
              submissions[s] = "stored" /\ <<e, s>> \in deliveries
                => <<e, s>> \in deliveries',
           UNCHANGED <<jobs, outbox>>
    PROVE  Promise!Next
<1>1. ASSUME NEW s \in Submissions
      PROVE  /\ Owing(s)' = Owing(s)
             /\ Interested(s)' \subseteq Interested(s)
             /\ Told(s)' \subseteq Told(s)
             /\ s \notin D => Told(s) \cap Interested(s)' \subseteq Told(s)'
    <2>1. submissions'[s] = "stored" => submissions[s] = "stored" /\ s \notin D
        OBVIOUS
    <2>2. Owing(s)' = Owing(s)
        BY ViewsKept
    <2>3. Interested(s)' \subseteq Interested(s)
        <3> SUFFICES ASSUME NEW p \in Interested(s)' PROVE p \in Interested(s)
            OBVIOUS
        <3>1. CASE \E e : p = <<"endpoint", e>>
            BY <2>1, <3>1, ViewMembers, ViewMembersNext
        <3>2. CASE \E r : p = <<"address", r>>
            BY <2>1, <3>2, ViewMembers, ViewMembersNext
        <3> QED
            BY <3>1, <3>2, ViewMembersNext
    <2>4. Told(s)' \subseteq Told(s)
        BY DEF Told, Mailed
    <2>5. ASSUME s \notin D, NEW p \in Told(s), p \in Interested(s)'
          PROVE  p \in Told(s)'
        <3>1. ASSUME NEW e, p = <<"endpoint", e>> PROVE p \in Told(s)'
            <4>1. e \in watching'[s] /\ submissions'[s] = "stored"
                BY <2>5, <3>1, ViewMembersNext
            <4>2. e \in Endpoints /\ <<e, s>> \in deliveries
                BY <2>5, <3>1, ViewMembers
            <4>3. <<e, s>> \in deliveries'
                BY <2>1, <2>5, <4>1, <4>2
            <4> QED
                BY <3>1, <4>2, <4>3, ViewMembersNext
        <3>2. ASSUME NEW r, p = <<"address", r>> PROVE p \in Told(s)'
            <4>1. r \in Recipients /\ Mailed(s, r)'
                BY <2>5, <3>2, ViewMembers DEF Mailed
            <4> QED
                BY <3>2, <4>1, ViewMembersNext
        <3> QED
            BY <2>5, <3>1, <3>2, ViewMembers
    <2> QED
        BY <2>2, <2>3, <2>4, <2>5
<1>2. \A s \in D : Life(s) = "stored" /\ Life(s)' = "gone"
    BY DEF Life
<1>3. \A s \in Submissions \ D : Life(s)' = Life(s)
    BY ViewsKept
<1> QED
    BY <1>1, <1>2, <1>3, ViewWithdraws

(* Every action is one of the promise or leaves it alone: the edits of     *)
(* forms and endpoints withdraw, the insert accepts or refuses, a fan-out  *)
(* and a push tell, a first mark settles, and claims, reads, reschedules,  *)
(* crashes and expiries are not seen.                                      *)
LEMMA RefinesStep ==
    IInv /\ LocalsOK /\ [Next]_vars => [Promise!Next]_(Promise!vars)
<1> USE ConstantsAssumption
        DEF formVars, endpointVars, submitVars, workVars, workerVars,
            observers
<1> SUFFICES ASSUME IInv, LocalsOK, [Next]_vars
             PROVE  Promise!Next \/ UNCHANGED Promise!vars
    OBVIOUS
<1>t. TypeOK /\ WorkerInv /\ RowInv /\ WatchInv /\ ListInv
    BY DEF IInv
<1>u. ASSUME UNCHANGED <<submissions, watching, listed, deliveries, jobs>>,
             \A s \in Submissions :
                /\ outbox'[s].queued = outbox[s].queued
                /\ outbox'[s].dispatched = outbox[s].dispatched
      PROVE  UNCHANGED Promise!vars
    BY <1>u, ViewsKept, ViewStutters
<1>1. ASSUME NEW f \in Forms, NEW es \in Lists, UpdateNotifyEmails(f, es)
     PROVE Promise!Next
    <2>1. \A s \in Submissions : listed'[s] \subseteq listed[s]
        BY <1>1 DEF UpdateNotifyEmails
    <2>2. UNCHANGED <<submissions, watching, deliveries, jobs, outbox>>
        BY <1>1 DEF UpdateNotifyEmails
    <2>3. {} \in SUBSET Submissions
        OBVIOUS
    <2> QED
        BY <2>1, <2>2, <2>3, ViewFades
<1>2. ASSUME NEW f \in Forms, DeleteForm(f)
     PROVE Promise!Next
    <2> DEFINE D == {s \in Submissions : FormOf[s] = f /\ submissions[s] = "stored"}
    <2>1. /\ \A s \in D : submissions[s] = "stored" /\ submissions'[s] = "gone"
          /\ \A s \in Submissions \ D : submissions'[s] = submissions[s]
        BY <1>2 DEF DeleteForm
    <2>2. \A s \in Submissions :
            watching'[s] \subseteq watching[s] /\ listed'[s] \subseteq listed[s]
        BY <1>2 DEF DeleteForm
    <2>3. deliveries' \subseteq deliveries
        BY <1>2 DEF DeleteForm
    <2>4. ASSUME NEW s \in Submissions \ D, NEW e \in watching'[s],
                 submissions[s] = "stored", <<e, s>> \in deliveries
          PROVE  <<e, s>> \in deliveries'
        <3>1. FormOf[s] # f
            BY <2>4
        <3>2. e \in watching[s]
            BY <1>2, <3>1 DEF DeleteForm
        <3>3. form_id[e] # f
            BY <1>t, <3>1, <3>2 DEF WatchInv, Matches
        <3> QED
            BY <1>2, <2>4, <3>1, <3>3 DEF DeleteForm
    <2>5. UNCHANGED <<jobs, outbox>>
        BY <1>2 DEF DeleteForm
    <2> HIDE DEF D
    <2>6. D \in SUBSET Submissions
        BY DEF D
    <2> QED
        BY <2>1, <2>2, <2>3, <2>4, <2>5, <2>6, ViewFades
<1>3. ASSUME NEW e \in Endpoints, NEW f \in Forms \cup {AnyForm}, CreateEndpoint(e, f)
     PROVE UNCHANGED Promise!vars
    BY <1>3, <1>u DEF CreateEndpoint
<1>4. ASSUME NEW e \in Endpoints, NEW on \in BOOLEAN,
            NEW f \in Forms \cup {AnyForm}, UpdateEndpoint(e, on, f)
     PROVE Promise!Next
    <2>1. \A s \in Submissions : watching'[s] \subseteq watching[s]
        BY <1>4 DEF UpdateEndpoint, ObserveEndpoints
    <2>2. UNCHANGED <<submissions, listed, deliveries, jobs, outbox>>
        BY <1>4 DEF UpdateEndpoint
    <2>3. {} \in SUBSET Submissions
        OBVIOUS
    <2> QED
        BY <2>1, <2>2, <2>3, ViewFades
<1>5. ASSUME NEW e \in Endpoints, DeleteEndpoint(e)
     PROVE Promise!Next
    <2>1. \A s \in Submissions :
            watching'[s] \subseteq watching[s] /\ e \notin watching'[s]
        BY <1>5 DEF DeleteEndpoint, ObserveEndpoints, Matches
    <2>2. deliveries' \subseteq deliveries
        BY <1>5 DEF DeleteEndpoint
    <2>3. ASSUME NEW s \in Submissions, NEW x \in watching'[s],
                 <<x, s>> \in deliveries
          PROVE  <<x, s>> \in deliveries'
        BY <1>5, <2>1, <2>3 DEF DeleteEndpoint
    <2>4. UNCHANGED <<submissions, listed, jobs, outbox>>
        BY <1>5 DEF DeleteEndpoint
    <2>5. {} \in SUBSET Submissions
        OBVIOUS
    <2> QED
        BY <2>1, <2>2, <2>3, <2>4, <2>5, ViewFades
<1>6. ASSUME NEW s \in Submissions, BeginSubmit(s)
     PROVE UNCHANGED Promise!vars
    <2>1. \A t \in Submissions : Life(t)' = Life(t)
        BY <1>6, <1>t DEF BeginSubmit, Life, TypeOK
    <2>2. \A t \in Submissions : Interested(t)' = Interested(t)
        <3> TAKE t \in Submissions
        <3>1. CASE t = s
            BY <1>6, <1>t, <3>1 DEF BeginSubmit, Interested, TypeOK
        <3>2. CASE t # s
            BY <1>6, <1>t, <3>2, ViewsKept DEF BeginSubmit, TypeOK
        <3> QED
            BY <3>1, <3>2
    <2>3. \A t \in Submissions : Owing(t)' = Owing(t) /\ Told(t)' = Told(t)
        BY <1>6, ViewsKept DEF BeginSubmit
    <2> QED
        BY <2>1, <2>2, <2>3, ViewStutters
<1>7. ASSUME NEW s \in Submissions, InsertSubmission(s)
     PROVE Promise!Next
    <2>1. /\ submissions[s] = "posting" /\ Life(s) = "new"
          /\ ~outbox[s].queued /\ Owing(s) = "none"
          /\ UNCHANGED <<deliveries, jobs, listed>>
        BY <1>7, <1>t DEF InsertSubmission, Life, Owing, RowInv
    <2>2. \A t \in Submissions : Told(t)' = Told(t)
        BY <2>1, ViewsKept
    <2>3. ASSUME NEW t \in Submissions \ {s}
          PROVE  /\ submissions'[t] = submissions[t]
                 /\ outbox'[t] = outbox[t] /\ watching'[t] = watching[t]
        BY <1>7, <1>t DEF InsertSubmission, TypeOK
    <2>4. \A t \in Submissions \ {s} :
            /\ Life(t)' = Life(t) /\ Owing(t)' = Owing(t)
            /\ Interested(t)' = Interested(t)
        BY <2>1, <2>3, ViewsKept
    <2>5. CASE FormOf[s] \in forms
        <3>1. submissions'[s] = "stored" /\ Life(s)' = "stored"
            BY <1>7, <1>t, <2>5 DEF InsertSubmission, TypeOK, Life
        <3>2. Interested(s)' \in SUBSET Parties
            <4>1. watching'[s] \subseteq Endpoints /\ listed'[s] \subseteq Recipients
                BY <1>7, <1>t, <2>5 DEF InsertSubmission, TypeOK, MatchingEndpoints
            <4> QED
                BY <4>1 DEF Interested, Parties
        <3>3. CASE Owed(s)
            <4>1. outbox' = [outbox EXCEPT ![s] =
                                [NoRow EXCEPT !.queued = TRUE, !.due = TRUE]]
                BY <1>7, <2>5, <3>3, Zenon DEF InsertSubmission
            <4>2. outbox'[s].queued /\ ~outbox'[s].dispatched
                BY <1>t, <4>1 DEF TypeOK, NoRow
            <4>3. Owing(s)' = "owed"
                BY <4>2 DEF Owing
            <4> QED
                BY <2>1, <2>2, <2>4, <3>1, <3>2, <4>3, ViewAccepts
        <3>4. CASE ~Owed(s)
            <4>1. outbox' = [outbox EXCEPT ![s] = NoRow]
                BY <1>7, <2>5, <3>4, Zenon DEF InsertSubmission
            <4>2. ~outbox'[s].queued
                BY <1>t, <4>1 DEF TypeOK, NoRow
            <4>3. Owing(s)' = Owing(s)
                BY <2>1, <4>2 DEF Owing
            <4>4. watching'[s] = {} /\ listed'[s] = {}
                BY <1>7, <1>t, <2>1, <2>5, <3>4
                DEF InsertSubmission, TypeOK, Owed, ListInv
            <4>5. Interested(s)' = {}
                BY <4>4 DEF Interested
            <4> QED
                BY <2>1, <2>2, <2>4, <3>1, <3>2, <4>3, <4>5, ViewAccepts
        <3> QED
            BY <3>3, <3>4
    <2>6. CASE FormOf[s] \notin forms
        <3>1. submissions'[s] = "gone" /\ UNCHANGED outbox
            BY <1>7, <1>t, <2>6 DEF InsertSubmission, TypeOK
        <3>2. Life(s)' = "gone" /\ Owing(s)' = Owing(s)
            BY <3>1, ViewsKept DEF Life
        <3>3. Interested(s)' = Interested(s)
            BY <2>1, <3>1 DEF Interested
        <3> QED
            BY <2>1, <2>2, <2>4, <3>2, <3>3, ViewRefuses
    <2> QED
        BY <2>5, <2>6
<1>8. ASSUME NEW s \in Submissions, DeleteSubmission(s)
     PROVE Promise!Next
    <2>1. /\ submissions[s] = "stored" /\ submissions'[s] = "gone"
          /\ \A t \in Submissions \ {s} : submissions'[t] = submissions[t]
        BY <1>8, <1>t DEF DeleteSubmission, TypeOK
    <2>2. /\ deliveries' \subseteq deliveries
          /\ \A t \in Submissions \ {s} : \A e :
                <<e, t>> \in deliveries => <<e, t>> \in deliveries'
        BY <1>8 DEF DeleteSubmission
    <2>3. /\ \A t \in Submissions :
               watching'[t] \subseteq watching[t] /\ listed'[t] \subseteq listed[t]
          /\ \A t \in Submissions \ {s} : watching'[t] = watching[t]
          /\ UNCHANGED <<jobs, outbox>>
        BY <1>8, <1>t DEF DeleteSubmission, TypeOK
    <2>4. {s} \in SUBSET Submissions
        OBVIOUS
    <2> QED
        BY <2>1, <2>2, <2>3, <2>4, ViewFades
<1>9. ASSUME NEW w \in Workers, NEW S \in SUBSET Submissions, ClaimDue(w, S)
     PROVE UNCHANGED Promise!vars
    <2>1. ASSUME NEW s \in Submissions
          PROVE  /\ outbox'[s].queued = outbox[s].queued
                 /\ outbox'[s].dispatched = outbox[s].dispatched
        <3>1. outbox[s] \in OutboxEvent
            BY <1>t DEF TypeOK
        <3>2. CASE s \in S
            <4>1. outbox'[s] = [outbox[s] EXCEPT !.attempts = @ + 1, !.due = FALSE]
                BY <1>9, <3>2 DEF ClaimDue, claim_due
            <4> QED
                BY <3>1, <4>1 DEF OutboxEvent
        <3>3. CASE s \notin S
            BY <1>9, <3>3 DEF ClaimDue, claim_due
        <3> QED
            BY <3>2, <3>3
    <2> QED
        BY <1>9, <1>u, <2>1 DEF ClaimDue
<1>10. ASSUME NEW w \in Workers, NEW s \in Submissions, ReadSource(w, s)
     PROVE UNCHANGED Promise!vars
    BY <1>10, <1>u DEF ReadSource
<1>11. ASSUME NEW w \in Workers, FanOut(w)
     PROVE Promise!Next \/ UNCHANGED Promise!vars
    <2> PICK s \in Submissions : s = event[w]
        BY <1>11 DEF FanOut, LocalsOK
    <2>1. CASE UNCHANGED deliveries
        BY <1>11, <1>u, <2>1 DEF FanOut
    <2>2. CASE create_deliveries(s)
        <3> DEFINE P == {"endpoint"} \X MatchingEndpoints(FormOf[s])
        <3>1. s \in Submissions /\ outbox[s].queued
            BY <1>11, <1>t DEF FanOut, LocalsOK, WorkerInv
        <3>2. P \in SUBSET Parties
            BY DEF MatchingEndpoints, Parties
        <3>3. Owing(s) # "none"
            BY <3>1 DEF Owing
        <3>4. Told(s)' = Told(s) \cup P
            <4>1. UNCHANGED jobs
                BY <1>11 DEF FanOut
            <4>2. \A e : <<e, s>> \in deliveries'
                    <=> \/ <<e, s>> \in deliveries
                        \/ e \in MatchingEndpoints(FormOf[s])
                BY <2>2 DEF create_deliveries
            <4>3. MatchingEndpoints(FormOf[s]) \subseteq Endpoints
                BY DEF MatchingEndpoints
            <4> QED
                BY <4>1, <4>2, <4>3 DEF Told, Mailed
        <3>5. \A t \in Submissions \ {s} : Told(t)' = Told(t)
            <4> TAKE t \in Submissions \ {s}
            <4>1. UNCHANGED jobs
                BY <1>11 DEF FanOut
            <4>2. \A e : <<e, t>> \in deliveries' <=> <<e, t>> \in deliveries
                BY <2>2 DEF create_deliveries
            <4> QED
                BY <4>1, <4>2, Zenon DEF Told, Mailed
        <3>6. \A t \in Submissions :
                /\ Life(t)' = Life(t) /\ Owing(t)' = Owing(t)
                /\ Interested(t)' = Interested(t)
            BY <1>11, ViewsKept DEF FanOut
        <3> HIDE DEF P
        <3> QED
            BY <3>1, <3>2, <3>3, <3>4, <3>5, <3>6, ViewTells
    <2> QED
        BY <1>11, <2>1, <2>2 DEF FanOut
<1>12. ASSUME NEW w \in Workers, NEW r \in Entries, EnqueueEmail(w, r)
     PROVE Promise!Next \/ UNCHANGED Promise!vars
    <2> PICK s \in Submissions : s = event[w]
        BY <1>12 DEF EnqueueEmail, LocalsOK
    <2>1. CASE UNCHANGED jobs
        BY <1>12, <1>u, <2>1 DEF EnqueueEmail
    <2>2. CASE enqueue(s, r)
        <3>1. s \in Submissions /\ outbox[s].queued
            BY <1>12, <1>t DEF EnqueueEmail, LocalsOK, WorkerInv
        <3>2. {<<"address", r[2]>>} \in SUBSET Parties
            BY DEF Parties, Entries
        <3>3. Owing(s) # "none"
            BY <3>1 DEF Owing
        <3>4. UNCHANGED deliveries
            BY <1>12 DEF EnqueueEmail
        <3>5. Told(s)' = Told(s) \cup {<<"address", r[2]>>}
            <4>1. \A q \in Entries : jobs'[s][q] > 0
                    <=> jobs[s][q] > 0 \/ q = r
                <5> TAKE q \in Entries
                <5>1. jobs[s][q] \in Nat
                    BY <1>t, <3>1 DEF TypeOK
                <5>2. q = r => jobs'[s][q] = jobs[s][q] + 1
                    BY <1>t, <2>2, <3>1 DEF enqueue, TypeOK
                <5>3. q # r => jobs'[s][q] = jobs[s][q]
                    BY <1>t, <2>2, <3>1 DEF enqueue, TypeOK
                <5> QED
                    BY <5>1, <5>2, <5>3
            <4>2. \A a : Mailed(s, a)' <=> Mailed(s, a) \/ a = r[2]
                BY <4>1 DEF Mailed
            <4>3. r[2] \in Recipients
                BY DEF Entries
            <4> QED
                BY <3>4, <4>2, <4>3 DEF Told
        <3>6. \A t \in Submissions \ {s} : Told(t)' = Told(t)
            <4> TAKE t \in Submissions \ {s}
            <4>1. jobs'[t] = jobs[t]
                BY <1>t, <2>2, <3>1 DEF enqueue, TypeOK
            <4> QED
                BY <3>4, <4>1, Zenon DEF Told, Mailed
        <3>7. \A t \in Submissions :
                /\ Life(t)' = Life(t) /\ Owing(t)' = Owing(t)
                /\ Interested(t)' = Interested(t)
            BY <1>12, ViewsKept DEF EnqueueEmail
        <3> QED
            BY <3>1, <3>2, <3>3, <3>5, <3>6, <3>7, ViewTells
    <2> QED
        BY <1>12, <2>1, <2>2 DEF EnqueueEmail
<1>13. ASSUME NEW w \in Workers, MarkDispatched(w)
     PROVE Promise!Next \/ UNCHANGED Promise!vars
    <2> PICK s \in Submissions : s = event[w]
        BY <1>13 DEF MarkDispatched, LocalsOK
    <2>1. /\ s \in Submissions /\ outbox[s].queued
          /\ todo[w] = {} /\ outbox[s] \in OutboxEvent
        BY <1>13, <1>t DEF MarkDispatched, LocalsOK, WorkerInv, TypeOK
    <2>2. UNCHANGED <<submissions, watching, listed, deliveries, jobs>>
        BY <1>13 DEF MarkDispatched
    <2>3. CASE UNCHANGED outbox
        BY <1>u, <2>2, <2>3
    <2>4. CASE mark_dispatched(s)
        <3>1. /\ outbox'[s].queued /\ outbox'[s].dispatched
              /\ \A t \in Submissions \ {s} : outbox'[t] = outbox[t]
            BY <1>t, <2>1, <2>4, RowFields DEF mark_dispatched, TypeOK
        <3>2. \A t \in Submissions :
                /\ Life(t)' = Life(t) /\ Told(t)' = Told(t)
                /\ Interested(t)' = Interested(t)
            BY <2>2, ViewsKept
        <3>3. \A t \in Submissions \ {s} : Owing(t)' = Owing(t)
            BY <3>1, ViewsKept
        <3>4. Owing(s)' = "settled"
            BY <3>1 DEF Owing
        <3>5. CASE outbox[s].dispatched
            <4>1. Owing(s) = "settled"
                BY <2>1, <3>5 DEF Owing
            <4> QED
                BY <3>2, <3>3, <3>4, <4>1, ViewStutters
        <3>6. CASE ~outbox[s].dispatched
            <4>1. Owing(s) = "owed"
                BY <2>1, <3>6 DEF Owing
            <4>2. ASSUME Life(s) = "stored"
                  PROVE  Interested(s) \subseteq Told(s)
                <5>1. submissions[s] = "stored"
                    BY <4>2 DEF Life
                <5>2. /\ \A e \in watching[s] :
                            e \in Endpoints /\ <<e, s>> \in deliveries
                      /\ \A r \in listed[s] :
                            r \in Recipients /\ Mailed(s, r)
                    BY <1>13, <1>t, <2>1, <5>1
                    DEF MarkDispatched, WatchInv, ListInv, InHand, TypeOK
                <5> QED
                    BY <5>1, <5>2 DEF Interested, Told
            <4> QED
                BY <2>1, <3>2, <3>3, <3>4, <4>1, <4>2, ViewSettles
        <3> QED
            BY <3>5, <3>6
    <2> QED
        BY <1>13, <2>3, <2>4 DEF MarkDispatched
<1>14. ASSUME NEW w \in Workers, Reschedule(w)
     PROVE UNCHANGED Promise!vars
    <2>1. event[w] \in Submissions
        BY <1>14 DEF Reschedule, LocalsOK
    <2>2. ASSUME NEW s \in Submissions
          PROVE  /\ outbox'[s].queued = outbox[s].queued
                 /\ outbox'[s].dispatched = outbox[s].dispatched
        <3>1. outbox[s] \in OutboxEvent
            BY <1>t DEF TypeOK
        <3>2. outbox'[s] = outbox[s] \/ outbox'[s] = Rescheduled(outbox[s])
            BY <1>14, <1>t, <2>1 DEF Reschedule, reschedule, TypeOK
        <3> QED
            BY <3>1, <3>2, RowFields
    <2> QED
        BY <1>14, <1>u, <2>2 DEF Reschedule
<1>15. ASSUME NEW w \in Workers, Crash(w)
     PROVE UNCHANGED Promise!vars
    BY <1>15, <1>u DEF Crash
<1>16. ASSUME NEW s \in Submissions, TimePasses(s) \/ LeaseExpires(s)
     PROVE UNCHANGED Promise!vars
    <2>1. BecomeDue(s)
            /\ UNCHANGED <<submissions, watching, listed, deliveries, jobs>>
        BY <1>16 DEF TimePasses, LeaseExpires
    <2>2. ASSUME NEW t \in Submissions
          PROVE  /\ outbox'[t].queued = outbox[t].queued
                 /\ outbox'[t].dispatched = outbox[t].dispatched
        BY <1>t, <2>1 DEF BecomeDue, TypeOK, OutboxEvent
    <2> QED
        BY <1>u, <2>1, <2>2
<1>17. CASE UNCHANGED vars
    BY <1>17, <1>u DEF vars
<1> QED
    BY <1>1, <1>2, <1>3, <1>4, <1>5, <1>6, <1>7, <1>8, <1>9, <1>10, <1>11,
       <1>12, <1>13, <1>14, <1>15, <1>16, <1>17
    DEF Next, Api, Work

(* Nothing accepted, owed or told.                                         *)
LEMMA RefinesInit == Init => Promise!Init
<1> SUFFICES ASSUME Init PROVE Promise!Init
    OBVIOUS
<1>1. ASSUME NEW s \in Submissions
      PROVE  /\ Life(s) = "new" /\ Owing(s) = "none"
             /\ Interested(s) = {} /\ Told(s) = {}
    BY DEF Init, Life, Owing, Interested, Told, Mailed, NoRow
<1> QED
    BY <1>1 DEF Promise!Init

(* ImplementsNotification, for every instance: the dispatcher, with its    *)
(* workers, leases, retries, failures and crashes, implements the promise. *)
THEOREM DispatcherKeepsThePromise == Spec => ImplementsNotification
BY RefinesInit, RefinesStep, Invariance, PTL
DEF Spec, ImplementsNotification, Promise!Spec

=============================================================================
