----------------------------- MODULE EmailQueue -----------------------------
(***************************************************************************)
(* Mail on its way from a request to the SMTP relay: the Redis list, the   *)
(* retries of the request that fills it and the worker loop that drains    *)
(* it.                                                                     *)
(*                                                                         *)
(* A Redis command that fails may or may not have taken effect, and so may *)
(* an SMTP transaction.  The worker takes a job off the list before it     *)
(* sends it, so a job in its hands exists nowhere else.  EMAIL_PROVIDER is *)
(* smtp: the disabled provider reports success and sends nothing.          *)
(***************************************************************************)
EXTENDS Naturals, Sequences, FiniteSets

CONSTANTS
    Jobs,       \* messages
    Workers,    \* email loops
    NoJob,      \* a worker with nothing in its hands
    ATTEMPTS,   \* EMAIL_ENQUEUE_ATTEMPTS
    MaxFaults   \* bound: faults that lose a job

ASSUME EmailQueueAssumption ==
    /\ NoJob \notin Jobs /\ IsFiniteSet(Workers)
    /\ ATTEMPTS \in Nat \ {0} /\ MaxFaults \in Nat

VARIABLES
    jobs,       \* the list <prefix>:email-jobs
    dead,       \* dead[j]: copies on <prefix>:email-dead-letter
    attempt,    \* attempt[j]: pushes tried; ATTEMPTS + 1 once enqueue_email ended
    held,       \* held[w]: the job w has taken
    failed,     \* workers whose send has failed
    pushed,     \* observer: pushed[j], copies that reached the list
    sent,       \* observer: sent[j], copies whose send returned without error
    received,   \* observer: received[j], copies the relay accepted
    unclear,    \* observer: unclear[j], pushes that took effect and failed
    faults      \* faults that lost a job

queueVars == <<jobs, dead, attempt, held, failed, pushed, sent, received, unclear,
          faults>>

QueueInit ==
    /\ jobs = <<>>
    /\ dead = [j \in Jobs |-> 0]
    /\ attempt = [j \in Jobs |-> 0]
    /\ held = [w \in Workers |-> NoJob]
    /\ failed = {}
    /\ pushed = [j \in Jobs |-> 0]
    /\ sent = [j \in Jobs |-> 0]
    /\ received = [j \in Jobs |-> 0]
    /\ unclear = [j \in Jobs |-> 0]
    /\ faults = 0

QueueTypeOK ==
    /\ jobs \in Seq(Jobs)
    /\ dead \in [Jobs -> Nat]
    /\ attempt \in [Jobs -> 0..ATTEMPTS + 1]
    /\ held \in [Workers -> Jobs \cup {NoJob}]
    /\ failed \in SUBSET Workers
    /\ pushed \in [Jobs -> Nat]
    /\ sent \in [Jobs -> Nat]
    /\ received \in [Jobs -> Nat]
    /\ unclear \in [Jobs -> Nat]
    /\ faults \in 0..MaxFaults

-----------------------------------------------------------------------------
(* IdentityService::enqueue_email                                          *)

Ended == ATTEMPTS + 1

(* EmailQueue::enqueue: RPUSH.                                             *)
enqueue(j) == jobs' = Append(jobs, j) /\ pushed' = [pushed EXCEPT ![j] = @ + 1]

Enqueue(j) ==
    /\ attempt[j] < ATTEMPTS
    /\ enqueue(j)
    /\ attempt' = [attempt EXCEPT ![j] = Ended]
    /\ UNCHANGED <<dead, held, failed, sent, received, unclear, faults>>

(* The push fails, and is tried again until the attempts are used up.      *)
EnqueueFails(j) ==
    /\ attempt[j] < ATTEMPTS
    /\ \/ enqueue(j) /\ unclear' = [unclear EXCEPT ![j] = @ + 1]
       \/ UNCHANGED <<jobs, pushed, unclear>>
    /\ attempt' = [attempt EXCEPT ![j] =
                     IF @ + 1 = ATTEMPTS THEN Ended ELSE @ + 1]
    /\ UNCHANGED <<dead, held, failed, sent, received, faults>>

-----------------------------------------------------------------------------
(* run_email_loop                                                          *)

Fault == faults < MaxFaults /\ faults' = faults + 1
LetGo(w) == held' = [held EXCEPT ![w] = NoJob] /\ failed' = failed \ {w}

(* EmailQueue::dequeue: LPOP.                                              *)
dequeue(w) ==
    /\ held[w] = NoJob /\ jobs # <<>>
    /\ jobs' = Tail(jobs)
    /\ held' = [held EXCEPT ![w] = Head(jobs)]
    /\ UNCHANGED <<dead, attempt, failed, pushed, sent, received, unclear, faults>>

(* LPOP takes effect and its reply is lost.                                *)
DequeueFails(w) ==
    /\ held[w] = NoJob /\ jobs # <<>>
    /\ Fault
    /\ jobs' = Tail(jobs)
    /\ UNCHANGED <<dead, attempt, held, failed, pushed, sent, received, unclear>>

send(w) ==
    /\ held[w] # NoJob /\ w \notin failed
    /\ sent' = [sent EXCEPT ![held[w]] = @ + 1]
    /\ received' = [received EXCEPT ![held[w]] = @ + 1]
    /\ LetGo(w)
    /\ UNCHANGED <<jobs, dead, attempt, pushed, unclear, faults>>

SendFails(w) ==
    /\ held[w] # NoJob /\ w \notin failed
    /\ \/ received' = [received EXCEPT ![held[w]] = @ + 1]
       \/ UNCHANGED received
    /\ failed' = failed \cup {w}
    /\ UNCHANGED <<jobs, dead, attempt, held, pushed, sent, unclear, faults>>

(* Mutant: the job is dropped.                                             *)
dead_letter_dropped(w) ==
    /\ w \in failed
    /\ LetGo(w)
    /\ UNCHANGED <<jobs, dead, attempt, pushed, sent, received, unclear, faults>>

(* Mutant: the job goes back to the queue.                                 *)
dead_letter_requeued(w) ==
    /\ w \in failed
    /\ jobs' = Append(jobs, held[w])
    /\ LetGo(w)
    /\ UNCHANGED <<dead, attempt, pushed, sent, received, unclear, faults>>

(* Mutant: a job is refused when the list has it already.                  *)
dead_letter_once(w) ==
    /\ w \in failed /\ dead[held[w]] = 0
    /\ dead' = [dead EXCEPT ![held[w]] = @ + 1]
    /\ LetGo(w)
    /\ UNCHANGED <<jobs, attempt, pushed, sent, received, unclear, faults>>

dead_letter(w) ==
    /\ w \in failed
    /\ dead' = [dead EXCEPT ![held[w]] = @ + 1]
    /\ LetGo(w)
    /\ UNCHANGED <<jobs, attempt, pushed, sent, received, unclear, faults>>

(* A failure to dead-letter is only logged.                                *)
DeadLetterFails(w) ==
    /\ w \in failed
    /\ Fault
    /\ LetGo(w)
    /\ UNCHANGED <<jobs, dead, attempt, pushed, sent, received, unclear>>

Crash(w) ==
    /\ held[w] # NoJob
    /\ Fault
    /\ LetGo(w)
    /\ UNCHANGED <<jobs, dead, attempt, pushed, sent, received, unclear>>

-----------------------------------------------------------------------------
Work(w) ==
    \/ dequeue(w)
    \/ DequeueFails(w)
    \/ send(w)
    \/ SendFails(w)
    \/ dead_letter(w)
    \/ DeadLetterFails(w)
    \/ Crash(w)

QueueNext ==
    \/ \E j \in Jobs : Enqueue(j)
    \/ \E j \in Jobs : EnqueueFails(j)
    \/ \E w \in Workers : Work(w)

QueueSpec == QueueInit /\ [][QueueNext]_queueVars

(* A worker loop that is up takes jobs and finishes the one it has.        *)
FairQueueSpec ==
    /\ QueueSpec
    /\ \A w \in Workers :
         /\ WF_queueVars(dequeue(w))
         /\ WF_queueVars(send(w) \/ SendFails(w))
         /\ WF_queueVars(dead_letter(w))

-----------------------------------------------------------------------------
(* Properties                                                              *)

Waiting(j) == Cardinality({i \in DOMAIN jobs : jobs[i] = j})
InHand(j) == Cardinality({w \in Workers : held[w] = j})

(* Mail is not lost by working: every copy that reached the list is still  *)
(* there, in a worker's hands, sent or on the dead-letter list, but for    *)
(* one copy per crash or lost reply.                                       *)
LossHasACause ==
    \A j \in Jobs :
        pushed[j] <= Waiting(j) + InHand(j) + sent[j] + dead[j] + faults

(* Nobody is mailed twice for nothing: a second copy of a message comes    *)
(* only of a push that took effect and was reported as failed.             *)
DuplicatesHaveACause == \A j \in Jobs : received[j] <= 1 + unclear[j]

(* Every job on the list is taken off it and done with, in spite of the    *)
(* jobs before it that fail and of workers that crash.                     *)
QueuedIsSettled ==
    \A j \in Jobs : Waiting(j) > 0 ~> Waiting(j) + InHand(j) = 0
=============================================================================
