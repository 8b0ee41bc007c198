----------------------------- MODULE Dispatcher -----------------------------
(***************************************************************************)
(* The transactional outbox and the dispatcher that drains it: how an      *)
(* accepted submission becomes webhook deliveries and notification mail.   *)
(*                                                                         *)
(* Every SQL statement is one atomic operator named after the repository   *)
(* method that issues it; every await between two statements is a place    *)
(* where other workers and API requests may run.  One organization is      *)
(* modelled.  An outbox event is identified with its submission, because   *)
(* one statement writes both and nothing else writes either.               *)
(*                                                                         *)
(* Time is abstracted to one bit per row: `due' says that available_at has *)
(* passed.  A claim or a reschedule clears it, TimePasses sets it, whether *)
(* it is a back-off that ends or the lease of a worker still at work.      *)
(***************************************************************************)
EXTENDS Naturals, FiniteSets

CONSTANTS
    Workers,        \* processes running run_outbox_loop
    Forms,          \* forms of the organization
    Submissions,    \* submissions, each with its outbox event
    Endpoints,      \* webhook endpoints
    Recipients,     \* addresses to notify
    MaxNotifyEmails, \* the longest notify_emails list a form may have
    FormOf,         \* the form each submission is posted to
    AnyForm,        \* the NULL form_id of an endpoint bound to no form
    NoEvent,        \* a worker between two events
    BatchSize,      \* LIMIT of a claim
    MaxFaults       \* bound: failed statements and Redis commands, crashes of
                    \*   a worker, leases that run out under a working one

ASSUME ConstantsAssumption ==
    /\ IsFiniteSet(Workers)
    /\ FormOf \in [Submissions -> Forms]
    /\ AnyForm \notin Forms
    /\ NoEvent \notin Submissions
    /\ BatchSize \in Nat \ {0} /\ MaxNotifyEmails \in Nat
    /\ MaxFaults \in Nat

VARIABLES
    forms,          \* forms that exist
    notify_emails,  \* notify_emails[f]: the list of addresses form f notifies
    endpoints,      \* endpoints that exist
    enabled,        \* enabled[e]
    form_id,        \* form_id[e]: the form e is narrowed to, or AnyForm
    submissions,    \* submissions[s]: life of the submission row
    notify,         \* notify[s]: what submit() read of the form's addresses
    outbox,         \* outbox[s]: the outbox_events row
    deliveries,     \* <<e, s>>: webhook_deliveries rows that still name s
    jobs,           \* jobs[s][e]: mail jobs ever pushed for the entry e of a list
    pc,             \* pc[w]: where worker w is in run_once
    batch,          \* batch[w]: claimed events not settled yet by this pass
    event,          \* event[w]: the event being dispatched
    todo,           \* todo[w]: entries of the source read, not yet enqueued
    watching,       \* observer: endpoints that matched s, stored, ever since
    listed,         \* observer: addresses on s's form ever since submit() read it
    faults          \* how many faults there were, of whatever kind

formVars     == <<forms, notify_emails>>
endpointVars == <<endpoints, enabled, form_id>>
submitVars   == <<submissions, notify>>
workVars     == <<deliveries, jobs>>
workerVars   == <<pc, batch, event, todo>>
observers    == <<watching, listed>>
vars == <<formVars, endpointVars, submitVars, outbox, workVars, workerVars,
          observers, faults>>

-----------------------------------------------------------------------------
(* State                                                                   *)

(* A list of addresses is the set of its entries <<place, address>>.       *)
(* Nothing removes duplicates: an address may have several places.         *)
Entries == (1 .. MaxNotifyEmails) \X Recipients
Lists == {es \in SUBSET Entries :
            /\ \A e, d \in es : e[1] = d[1] => e = d
            /\ \A e \in es : \A i \in 1 .. e[1] : \E d \in es : d[1] = i}
Addresses(es) == {e[2] : e \in es}

SubmissionStates == {"unsent", "posting", "stored", "gone"}
Locations == {"idle", "loop", "fan_out", "emails", "mark", "reschedule"}
OutboxEvent == [queued : BOOLEAN, attempts : Nat, due : BOOLEAN,
                dispatched : BOOLEAN, last_error : BOOLEAN]
NoRow == [queued |-> FALSE, attempts |-> 0, due |-> FALSE,
          dispatched |-> FALSE, last_error |-> FALSE]

TypeOK ==
    /\ forms \in SUBSET Forms
    /\ notify_emails \in [Forms -> Lists]
    /\ endpoints \in SUBSET Endpoints
    /\ enabled \in [Endpoints -> BOOLEAN]
    /\ form_id \in [Endpoints -> Forms \cup {AnyForm}]
    /\ submissions \in [Submissions -> SubmissionStates]
    /\ notify \in [Submissions -> BOOLEAN]
    /\ outbox \in [Submissions -> OutboxEvent]
    /\ deliveries \in SUBSET (Endpoints \X Submissions)
    /\ jobs \in [Submissions -> [Entries -> Nat]]
    /\ pc \in [Workers -> Locations]
    /\ batch \in [Workers -> SUBSET Submissions]
    /\ event \in [Workers -> Submissions \cup {NoEvent}]
    /\ todo \in [Workers -> SUBSET Entries]
    /\ watching \in [Submissions -> SUBSET Endpoints]
    /\ listed \in [Submissions -> SUBSET Recipients]
    /\ faults \in Nat

Init ==
    /\ forms = Forms
    /\ notify_emails \in [Forms -> Lists]
    /\ endpoints = {}
    /\ enabled = [e \in Endpoints |-> TRUE]
    /\ form_id = [e \in Endpoints |-> AnyForm]
    /\ submissions = [s \in Submissions |-> "unsent"]
    /\ notify = [s \in Submissions |-> FALSE]
    /\ outbox = [s \in Submissions |-> NoRow]
    /\ deliveries = {}
    /\ jobs = [s \in Submissions |-> [e \in Entries |-> 0]]
    /\ pc = [w \in Workers |-> "idle"]
    /\ batch = [w \in Workers |-> {}]
    /\ event = [w \in Workers |-> NoEvent]
    /\ todo = [w \in Workers |-> {}]
    /\ watching = [s \in Submissions |-> {}]
    /\ listed = [s \in Submissions |-> {}]
    /\ faults = 0

(* The WHERE of create_deliveries and of the EXISTS in the submission      *)
(* insert: enabled, and bound to no form or to this one.                   *)
Matches(e, f) ==
    e \in endpoints /\ enabled[e] /\ form_id[e] \in {AnyForm, f}

MatchingEndpoints(f) == {e \in Endpoints : Matches(e, f)}

(* Work still owed: dispatched_at IS NULL.                                 *)
Pending(s) == outbox[s].queued /\ ~outbox[s].dispatched

-----------------------------------------------------------------------------
(* The API: forms, endpoints and submissions                               *)

(* An endpoint leaves `watching' the moment it stops matching.             *)
ObserveEndpoints ==
    watching' = [s \in Submissions |->
        {e \in watching[s] : Matches(e, FormOf[s])'}]

(* FormService::update replacing the form's notification addresses.        *)
UpdateNotifyEmails(f, es) ==
    /\ f \in forms
    /\ notify_emails' = [notify_emails EXCEPT ![f] = es]
    /\ listed' = [s \in Submissions |-> IF FormOf[s] = f
                     THEN listed[s] \cap Addresses(es) ELSE listed[s]]
    /\ UNCHANGED <<forms, endpointVars, submitVars, outbox, workVars,
                   workerVars, watching, faults>>

(* FormService::delete: the form's submissions and the endpoints narrowed  *)
(* to it go with it, and with those endpoints their deliveries.  What is   *)
(* kept here of a row that is gone is set to one value.                    *)
DeleteForm(f) ==
    LET bound == {e \in endpoints : form_id[e] = f} IN
    /\ f \in forms
    /\ forms' = forms \ {f}
    /\ endpoints' = endpoints \ bound
    /\ submissions' = [s \in Submissions |->
                         IF FormOf[s] = f /\ submissions[s] = "stored"
                         THEN "gone" ELSE submissions[s]]
    /\ deliveries' = {d \in deliveries : d[1] \notin bound /\ FormOf[d[2]] # f}
    /\ notify_emails' = [notify_emails EXCEPT ![f] = {}]
    /\ enabled' = [e \in Endpoints |-> enabled[e] /\ e \notin bound]
    /\ form_id' = [e \in Endpoints |-> IF e \in bound THEN AnyForm ELSE form_id[e]]
    /\ watching' = [s \in Submissions |-> IF FormOf[s] = f THEN {} ELSE watching[s]]
    /\ listed' = [s \in Submissions |-> IF FormOf[s] = f THEN {} ELSE listed[s]]
    /\ UNCHANGED <<notify, outbox, jobs, workerVars, faults>>

(* WebhookService::create.  An endpoint is created enabled.                *)
CreateEndpoint(e, f) ==
    /\ e \notin endpoints
    /\ f \in forms \cup {AnyForm}
    /\ endpoints' = endpoints \cup {e}
    /\ enabled' = [enabled EXCEPT ![e] = TRUE]
    /\ form_id' = [form_id EXCEPT ![e] = f]
    /\ UNCHANGED <<formVars, submitVars, outbox, workVars, workerVars,
                   observers, faults>>

(* WebhookService::update of the two columns that decide what matches.     *)
UpdateEndpoint(e, on, f) ==
    /\ e \in endpoints
    /\ f \in forms \cup {AnyForm}
    /\ enabled' = [enabled EXCEPT ![e] = on]
    /\ form_id' = [form_id EXCEPT ![e] = f]
    /\ UNCHANGED <<formVars, endpoints, submitVars, outbox, workVars,
                   workerVars, listed, faults>>
    /\ ObserveEndpoints

(* WebhookService::delete: the delivery log of the endpoint goes with it.  *)
DeleteEndpoint(e) ==
    /\ e \in endpoints
    /\ endpoints' = endpoints \ {e}
    /\ deliveries' = {d \in deliveries : d[1] # e}
    /\ enabled' = [enabled EXCEPT ![e] = FALSE]
    /\ form_id' = [form_id EXCEPT ![e] = AnyForm]
    /\ UNCHANGED <<formVars, submitVars, outbox, jobs, workerVars, listed,
                   faults>>
    /\ ObserveEndpoints

(* FormService::submit up to the insert: load_published, and `notify' from *)
(* the row just read.                                                      *)
BeginSubmit(s) ==
    /\ submissions[s] = "unsent"
    /\ FormOf[s] \in forms
    /\ submissions' = [submissions EXCEPT ![s] = "posting"]
    /\ notify' = [notify EXCEPT ![s] = notify_emails[FormOf[s]] # {}]
    /\ listed' = [listed EXCEPT ![s] = Addresses(notify_emails[FormOf[s]])]
    /\ UNCHANGED <<formVars, endpointVars, outbox, workVars, workerVars,
                   watching, faults>>

(* Mutant: the EXISTS over the endpoints is left out.                      *)
Owed_by_mail(s) == notify[s]

(* `$9 OR EXISTS (...)': whether anybody is to be told.                    *)
Owed(s) == notify[s] \/ MatchingEndpoints(FormOf[s]) # {}

(* SubmissionRepository::insert: one statement stores the submission and,  *)
(* when anybody is to be told, its outbox event.  The foreign key refuses  *)
(* a form deleted since it was read.                                       *)
InsertSubmission(s) ==
    LET f == FormOf[s] IN
    /\ submissions[s] = "posting"
    /\ \/ /\ f \in forms
          /\ submissions' = [submissions EXCEPT ![s] = "stored"]
          /\ outbox' = [outbox EXCEPT ![s] =
                IF Owed(s)
                THEN [NoRow EXCEPT !.queued = TRUE, !.due = TRUE] ELSE NoRow]
          /\ watching' = [watching EXCEPT ![s] = MatchingEndpoints(f)]
       \/ /\ f \notin forms
          /\ submissions' = [submissions EXCEPT ![s] = "gone"]
          /\ UNCHANGED <<outbox, watching>>
    /\ notify' = [notify EXCEPT ![s] = FALSE]
    /\ UNCHANGED <<formVars, endpointVars, workVars, workerVars, listed,
                   faults>>

(* FormService::delete_submission.  Its delivery rows keep no reference to *)
(* it (ON DELETE SET NULL); the outbox event stays.                        *)
DeleteSubmission(s) ==
    /\ submissions[s] = "stored"
    /\ submissions' = [submissions EXCEPT ![s] = "gone"]
    /\ deliveries' = {d \in deliveries : d[2] # s}
    /\ watching' = [watching EXCEPT ![s] = {}]
    /\ listed' = [listed EXCEPT ![s] = {}]
    /\ UNCHANGED <<formVars, endpointVars, notify, outbox, jobs, workerVars,
                   faults>>

-----------------------------------------------------------------------------
(* The statements of OutboxRepository, of the fan-out and of the queue     *)

(* Mutant: a claim counts attempts that are left.                          *)
claim_due_down(S) ==
    outbox' = [s \in Submissions |->
        IF s \in S
        THEN [outbox[s] EXCEPT !.attempts = @ - 1, !.due = FALSE]
        ELSE outbox[s]]

(* Mutant: a claim is not counted.                                         *)
claim_due_uncounted(S) ==
    outbox' = [s \in Submissions |-> IF s \in S
                 THEN [outbox[s] EXCEPT !.due = FALSE] ELSE outbox[s]]

claim_due(S) ==
    outbox' = [s \in Submissions |->
        IF s \in S
        THEN [outbox[s] EXCEPT !.attempts = @ + 1, !.due = FALSE]
        ELSE outbox[s]]

(* Mutant: a dispatched row is deleted.                                    *)
Dispatched_dropped(row) == [NoRow EXCEPT !.attempts = row.attempts]

Dispatched(row) == [row EXCEPT !.dispatched = TRUE, !.last_error = FALSE]

mark_dispatched(s) == outbox' = [outbox EXCEPT ![s] = Dispatched(@)]

(* Mutant: a late reschedule reopens the event.                            *)
Rescheduled_open(row) ==
    [row EXCEPT !.due = FALSE, !.last_error = TRUE, !.dispatched = FALSE]

Rescheduled(row) == [row EXCEPT !.due = FALSE, !.last_error = TRUE]

reschedule(s) == outbox' = [outbox EXCEPT ![s] = Rescheduled(@)]

(* Mutant: endpoints bound to no form are left out.                        *)
create_deliveries_bound(s) ==
    LET bound == {e \in MatchingEndpoints(FormOf[s]) : form_id[e] # AnyForm} IN
    deliveries' = deliveries \cup (bound \X {s})

(* ON CONFLICT (endpoint_id, submission_id) DO NOTHING                     *)
create_deliveries(s) ==
    deliveries' = deliveries \cup (MatchingEndpoints(FormOf[s]) \X {s})

(* Mutant: the error of a push is swallowed.                               *)
enqueue_swallowing(s, e) ==
    jobs' \in {jobs, [jobs EXCEPT ![s][e] = @ + 1]}

enqueue(s, e) == jobs' = [jobs EXCEPT ![s][e] = @ + 1]

-----------------------------------------------------------------------------
(* The worker: Dispatcher::run_once                                        *)

Fault == faults < MaxFaults /\ faults' = faults + 1

NoFault == UNCHANGED faults

Goto(w, l) == pc' = [pc EXCEPT ![w] = l]

(* The pass ends: every event dispatched, or the `?' of a failed statement *)
(* leaves the rest of the batch to its lease.                              *)
EndPass(w) ==
    /\ Goto(w, "idle")
    /\ batch' = [batch EXCEPT ![w] = {}]
    /\ event' = [event EXCEPT ![w] = NoEvent]
    /\ todo' = [todo EXCEPT ![w] = {}]

(* On to the next event of the batch.                                      *)
NextEvent(w) ==
    /\ Goto(w, IF batch[w] = {event[w]} THEN "idle" ELSE "loop")
    /\ batch' = [batch EXCEPT ![w] = @ \ {event[w]}]
    /\ event' = [event EXCEPT ![w] = NoEvent]
    /\ todo' = [todo EXCEPT ![w] = {}]

(* The claim.  Which due rows it gets depends on available_at and on the   *)
(* rows other workers hold locked, so any of them may be left out.         *)
ClaimDue(w, S) ==
    /\ pc[w] = "idle"
    /\ S # {} /\ Cardinality(S) <= BatchSize
    /\ \A s \in S : Pending(s) /\ outbox[s].due
    /\ claim_due(S)
    /\ batch' = [batch EXCEPT ![w] = S]
    /\ Goto(w, "loop")
    /\ UNCHANGED <<formVars, endpointVars, submitVars, workVars, event, todo,
                   observers, faults>>

(* dispatch_submission: read the source.  A deleted submission settles the *)
(* event; a failed read is an error like any other.                        *)
ReadSource(w, s) ==
    /\ pc[w] = "loop"
    /\ s \in batch[w]
    /\ event' = [event EXCEPT ![w] = s]
    /\ \/ /\ submissions[s] = "stored"
          /\ Goto(w, "fan_out")
          /\ todo' = [todo EXCEPT ![w] = notify_emails[FormOf[s]]]
          /\ NoFault
       \/ /\ submissions[s] # "stored"
          /\ Goto(w, "mark")
          /\ UNCHANGED todo /\ NoFault
       \/ /\ Goto(w, "reschedule")
          /\ UNCHANGED todo /\ Fault
    /\ UNCHANGED <<formVars, endpointVars, submitVars, outbox, workVars,
                   batch, observers>>

(* fan_out_webhooks.  When the submission was deleted since the read, the  *)
(* foreign key refuses the rows.  A failed statement may have committed.   *)
FanOut(w) ==
    LET s == event[w]
        refused == submissions[s] # "stored" /\ MatchingEndpoints(FormOf[s]) # {}
    IN
    /\ pc[w] = "fan_out"
    /\ \/ /\ ~refused
          /\ create_deliveries(s)
          /\ Goto(w, IF todo[w] = {} THEN "mark" ELSE "emails")
          /\ NoFault
       \/ /\ refused
          /\ Goto(w, "reschedule")
          /\ UNCHANGED deliveries /\ NoFault
       \/ /\ Goto(w, "reschedule")
          /\ \/ UNCHANGED deliveries
             \/ ~refused /\ create_deliveries(s)
          /\ Fault
    /\ UNCHANGED <<formVars, endpointVars, submitVars, outbox, jobs, batch,
                   event, todo, observers>>

(* One turn of the loop of enqueue_emails, in the order of the list.       *)
(* RPUSH may fail, with or without the job having reached the list.        *)
EnqueueEmail(w, e) ==
    LET s == event[w] IN
    /\ pc[w] = "emails"
    /\ e \in todo[w] /\ \A d \in todo[w] : e[1] <= d[1]
    /\ \/ /\ enqueue(s, e)
          /\ todo' = [todo EXCEPT ![w] = @ \ {e}]
          /\ Goto(w, IF todo[w] = {e} THEN "mark" ELSE "emails")
          /\ NoFault
       \/ /\ Goto(w, "reschedule")
          /\ UNCHANGED jobs \/ enqueue(s, e)
          /\ UNCHANGED todo /\ Fault
    /\ UNCHANGED <<formVars, endpointVars, submitVars, outbox, deliveries,
                   batch, event, observers>>

MarkDispatched(w) ==
    LET s == event[w] IN
    /\ pc[w] = "mark"
    /\ \/ mark_dispatched(s) /\ NextEvent(w) /\ NoFault
       \/ /\ UNCHANGED outbox \/ mark_dispatched(s)
          /\ EndPass(w)
          /\ Fault
    /\ UNCHANGED <<formVars, endpointVars, submitVars, workVars, observers>>

Reschedule(w) ==
    LET s == event[w] IN
    /\ pc[w] = "reschedule"
    /\ \/ reschedule(s) /\ NextEvent(w) /\ NoFault
       \/ /\ UNCHANGED outbox \/ reschedule(s)
          /\ EndPass(w)
          /\ Fault
    /\ UNCHANGED <<formVars, endpointVars, submitVars, workVars, observers>>

(* The process dies; the loop starts again with nothing in hand.           *)
Crash(w) ==
    /\ pc[w] # "idle"
    /\ Fault
    /\ EndPass(w)
    /\ UNCHANGED <<formVars, endpointVars, submitVars, outbox, workVars,
                   observers>>

(* Mutant: an event that was tried twice is not claimed again.             *)
BecomeDue_capped(s) ==
    /\ Pending(s) /\ ~outbox[s].due /\ outbox[s].attempts < 2
    /\ outbox' = [outbox EXCEPT ![s].due = TRUE]

(* available_at passes: a back-off or an orphaned lease ends.              *)
BecomeDue(s) ==
    /\ Pending(s) /\ ~outbox[s].due
    /\ outbox' = [outbox EXCEPT ![s].due = TRUE]

TimePasses(s) ==
    /\ \A w \in Workers : s \notin batch[w]
    /\ BecomeDue(s)
    /\ UNCHANGED <<formVars, endpointVars, submitVars, workVars, workerVars,
                   observers, faults>>

(* The same while a worker still has the event in hand: CLAIM_LEASE_SECONDS*)
(* is shorter than its batch took.                                         *)
LeaseExpires(s) ==
    /\ \E w \in Workers : s \in batch[w]
    /\ Fault
    /\ BecomeDue(s)
    /\ UNCHANGED <<formVars, endpointVars, submitVars, workVars, workerVars,
                   observers>>

-----------------------------------------------------------------------------
Work(w) ==
    \/ \E s \in Submissions : ReadSource(w, s)
    \/ FanOut(w)
    \/ \E e \in Entries : EnqueueEmail(w, e)
    \/ MarkDispatched(w)
    \/ Reschedule(w)

Api ==
    \/ \E f \in Forms, es \in Lists : UpdateNotifyEmails(f, es)
    \/ \E f \in Forms : DeleteForm(f)
    \/ \E e \in Endpoints, f \in Forms \cup {AnyForm} : CreateEndpoint(e, f)
    \/ \E e \in Endpoints, on \in BOOLEAN, f \in Forms \cup {AnyForm} :
            UpdateEndpoint(e, on, f)
    \/ \E e \in Endpoints : DeleteEndpoint(e)
    \/ \E s \in Submissions : BeginSubmit(s)
    \/ \E s \in Submissions : InsertSubmission(s)
    \/ \E s \in Submissions : DeleteSubmission(s)

Next ==
    \/ Api
    \/ \E w \in Workers, S \in SUBSET Submissions : ClaimDue(w, S)
    \/ \E w \in Workers : Work(w)
    \/ \E w \in Workers : Crash(w)
    \/ \E s \in Submissions : TimePasses(s)
    \/ \E s \in Submissions : LeaseExpires(s)

Spec == Init /\ [][Next]_vars

(* Fairness is the worker's own: its loop never stops for good, a delay    *)
(* ends, and ORDER BY available_at makes a row that stays due the first    *)
(* one of some claim.  Users, crashes and failures are under no obligation.*)
FairSpec ==
    /\ Spec
    /\ \A w \in Workers : WF_vars(Work(w))
    /\ \A s \in Submissions : WF_vars(TimePasses(s))
    /\ \A s \in Submissions :
         SF_vars(\E w \in Workers, S \in SUBSET Submissions :
                    s \in S /\ ClaimDue(w, S))

-----------------------------------------------------------------------------
(* Properties                                                              *)

(* A job was pushed for r, from whatever place of the list.                *)
Mailed(s, r) == \E e \in Entries : e[2] = r /\ jobs[s][e] > 0

Settled(s) == submissions[s] = "stored" /\ outbox[s].dispatched

(* A submission accepted without an outbox event has nobody to tell: no    *)
(* endpoint matched it then and still does, and no address was on the form *)
(* when submit() read it and still is.  It is the `$9 OR EXISTS' of the    *)
(* insert, against updates that run between the read and the insert.       *)
NoInterestIsDropped ==
    \A s \in Submissions :
        submissions[s] = "stored" /\ ~outbox[s].queued
            => watching[s] = {} /\ listed[s] = {}

(* An event is marked dispatched only after the fan-out reached every      *)
(* endpoint that has matched the form since the submission was stored,     *)
(* whatever crashed, failed, timed out or was edited in between.           *)
WatchersHaveDeliveries ==
    \A s \in Submissions :
        Settled(s) => \A e \in watching[s] : <<e, s>> \in deliveries

(* Likewise every address that has been on the form since submit() read it *)
(* has a job on the mail queue: no notification is lost by the dispatcher. *)
ListedAreMailed ==
    \A s \in Submissions :
        Settled(s) => \A r \in listed[s] : Mailed(s, r)

(* The duplicates of at-least-once are paid for by claims: each place of   *)
(* the list is mailed at most once per claim of the event, lease expiries  *)
(* and retries included.  An address listed twice gets two jobs per claim. *)
OneJobPerClaim ==
    \A s \in Submissions, e \in Entries : jobs[s][e] <= outbox[s].attempts

(* A dispatched event is never taken up again: no late reschedule by a     *)
(* worker whose lease ran out reopens it, and no claim counts another      *)
(* attempt on it.                                                          *)
SettledIsFinal ==
    [][\A s \in Submissions :
         outbox[s].dispatched =>
            /\ outbox'[s].dispatched
            /\ outbox'[s].attempts = outbox[s].attempts]_vars

(* Work that is owed is done: with finitely many faults every event is     *)
(* eventually dispatched, through crashes, back-offs and abandoned batches.*)
OwedIsDispatched == \A s \in Submissions : Pending(s) ~> outbox[s].dispatched

=============================================================================
