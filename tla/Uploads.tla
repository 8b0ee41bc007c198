------------------------------ MODULE Uploads ------------------------------
(***************************************************************************)
(* File answers: objects in the bucket, the file_uploads ledger that       *)
(* accounts for them, submissions that claim them and the reaper that      *)
(* deletes the ones nobody claimed.                                        *)
(*                                                                         *)
(* The bucket takes part in no database transaction.  Each await on it or  *)
(* on the database is a step; the claim is a transaction of two steps that *)
(* holds row locks in between.  An object key is generated by the server   *)
(* and is known to a client only once upload() has returned it.            *)
(***************************************************************************)
EXTENDS Naturals, FiniteSets, Functions

CONSTANTS
    Reapers,        \* processes running run_upload_loop
    Forms,          \* forms with file fields
    Fields,         \* keys of file fields
    Uploads,        \* upload requests, each with the object key it generates
    Submissions,    \* submissions that carry files
    FormOf,         \* the form of each upload and of each submission
    FieldOf,        \* the field each upload was made for
    Nobody,         \* the NULL submission_id of an unclaimed upload
    NoUpload,       \* a reaper between two uploads
    ReapBatch,      \* REAP_BATCH
    MaxDbFailures,      \* bound: failed statements
    MaxStorageFailures, \* bound: failed bucket requests
    MaxReaperCrashes,   \* bound: worker crashes
    MaxApiCrashes,      \* bound: upload requests cut short by a crash
    MaxFormDeletes      \* bound: deleted forms

ASSUME UploadsAssumption ==
    /\ FormOf \in [Uploads \cup Submissions -> Forms]
    /\ FieldOf \in [Uploads -> Fields]
    /\ Nobody \notin Submissions /\ NoUpload \notin Uploads
    /\ ReapBatch \in Nat \ {0}
    /\ {MaxDbFailures, MaxStorageFailures, MaxReaperCrashes, MaxApiCrashes,
        MaxFormDeletes} \subseteq Nat

VARIABLES
    forms,         \* published forms
    bucket,        \* complete objects in the bucket
    file_uploads,  \* uploads with a ledger row
    submission_id, \* submission_id[u]: who claimed u, or Nobody
    old,           \* uploads whose created_at is before the reaper's cutoff
    request,       \* request[u]: where upload() is
    submissions,   \* submissions[s]: life of the submission
    files,         \* files[s]: field key -> upload, as answered by s
    pc,            \* pc[w]: where reaper w is
    abandoned,     \* abandoned[w]: listed by this pass, not handled yet
    upload,        \* upload[w]: object deleted, row not yet forgotten
    late,          \* observer: uploads claimed when already past the cutoff
    faults         \* how much of each bound is used

reaperVars == <<pc, abandoned, upload>>
vars == <<forms, bucket, file_uploads, submission_id, old, request,
          submissions, files, reaperVars, late, faults>>

-----------------------------------------------------------------------------
(* State                                                                   *)

Answers == UNION {[K -> Uploads] : K \in SUBSET Fields}
NoFiles == [k \in {} |-> NoUpload]

Faults == {"db", "storage", "reaper", "api", "delete"}
Bound == [db |-> MaxDbFailures, storage |-> MaxStorageFailures,
          reaper |-> MaxReaperCrashes, api |-> MaxApiCrashes,
          delete |-> MaxFormDeletes]

TypeOK ==
    /\ forms \in SUBSET Forms
    /\ bucket \in SUBSET Uploads
    /\ file_uploads \in SUBSET Uploads
    /\ submission_id \in [Uploads -> Submissions \cup {Nobody}]
    /\ old \in SUBSET Uploads
    /\ request \in [Uploads -> {"none", "stream", "record", "undo", "done",
                                "failed"}]
    /\ submissions \in [Submissions -> {"unsent", "claiming", "stored",
                                        "refused", "gone"}]
    /\ files \in [Submissions -> Answers]
    /\ pc \in [Reapers -> {"idle", "delete", "forget"}]
    /\ abandoned \in [Reapers -> SUBSET Uploads]
    /\ upload \in [Reapers -> Uploads \cup {NoUpload}]
    /\ late \in SUBSET Uploads
    /\ faults \in [Faults -> Nat]

Init ==
    /\ forms = Forms
    /\ bucket = {} /\ file_uploads = {} /\ old = {} /\ late = {}
    /\ submission_id = [u \in Uploads |-> Nobody]
    /\ request = [u \in Uploads |-> "none"]
    /\ submissions = [s \in Submissions |-> "unsent"]
    /\ files = [s \in Submissions |-> NoFiles]
    /\ pc = [w \in Reapers |-> "idle"]
    /\ abandoned = [w \in Reapers |-> {}]
    /\ upload = [w \in Reapers |-> NoUpload]
    /\ faults = [k \in Faults |-> 0]

Fault(k) ==
    /\ faults[k] < Bound[k]
    /\ faults' = [faults EXCEPT ![k] = @ + 1]

(* Rows a claiming transaction holds FOR UPDATE.                           *)
Locked(u) == \E s \in Submissions :
                submissions[s] = "claiming" /\ u \in Range(files[s])

-----------------------------------------------------------------------------
(* FormService::upload                                                     *)

At(u, l) == request[u] = l
To(u, l) == request' = [request EXCEPT ![u] = l]

BeginUpload(u) ==
    /\ At(u, "none") /\ FormOf[u] \in forms
    /\ To(u, "stream")
    /\ UNCHANGED <<forms, bucket, file_uploads, submission_id, old,
                   submissions, files, reaperVars, late, faults>>

(* stream_upload and finish().  A refused stream is aborted and an object  *)
(* appears only when finish() completes; when finish() reports an error it *)
(* may have completed all the same.                                        *)
FinishUpload(u) ==
    /\ At(u, "stream")
    /\ \/ bucket' = bucket \cup {u} /\ To(u, "record") /\ UNCHANGED faults
       \/ UNCHANGED <<bucket, faults>> /\ To(u, "failed")
       \/ /\ bucket' \in {bucket, bucket \cup {u}}
          /\ To(u, "failed")
          /\ Fault("storage")
    /\ UNCHANGED <<forms, file_uploads, submission_id, old, submissions,
                   files, reaperVars, late>>

(* FileUploadRepository::insert, refused by the foreign key once the form  *)
(* is gone, and by file_uploads_size_check when the file was empty.        *)
insert(u) == file_uploads' = file_uploads \cup {u}

RecordUpload(u) ==
    /\ At(u, "record")
    /\ \/ FormOf[u] \in forms /\ insert(u) /\ To(u, "done") /\ UNCHANGED faults
       \/ UNCHANGED <<file_uploads, faults>> /\ To(u, "undo")
       \/ /\ FormOf[u] \in forms /\ insert(u)
          /\ To(u, "undo")
          /\ Fault("db")
    /\ UNCHANGED <<forms, bucket, submission_id, old, submissions, files,
                   reaperVars, late>>

(* Mutant: the object of a failed insert stays.                            *)
UndoUpload_skipped(u) ==
    /\ At(u, "undo")
    /\ To(u, "failed")
    /\ UNCHANGED <<forms, bucket, file_uploads, submission_id, old, submissions,
                   files, reaperVars, late, faults>>

(* The object of a failed insert is removed; the outcome is ignored.       *)
UndoUpload(u) ==
    /\ At(u, "undo")
    /\ \/ bucket' = bucket \ {u} /\ UNCHANGED faults
       \/ UNCHANGED bucket /\ Fault("storage")
    /\ To(u, "failed")
    /\ UNCHANGED <<forms, file_uploads, submission_id, old, submissions,
                   files, reaperVars, late>>

(* The process serving the request dies.                                   *)
CrashUpload(u) ==
    /\ request[u] \in {"stream", "record", "undo"}
    /\ Fault("api")
    /\ To(u, "failed")
    /\ UNCHANGED <<forms, bucket, file_uploads, submission_id, old,
                   submissions, files, reaperVars, late>>

-----------------------------------------------------------------------------
(* FormService::submit with file answers: insert_claiming_files            *)

(* Mutant: an upload claimed before is accepted.                           *)
Claimable_again(s, k, u) ==
    u \in file_uploads /\ FormOf[u] = FormOf[s] /\ FieldOf[u] = k

(* check_file_references against the rows lock_for_claim returned.         *)
Claimable(s, k, u) ==
    /\ u \in file_uploads /\ FormOf[u] = FormOf[s]
    /\ submission_id[u] = Nobody
    /\ FieldOf[u] = k

(* lock_for_claim waits for the transactions that hold the rows; what it   *)
(* then finds is either all claimable, and stays locked, or refused.       *)
LockForClaim(s, answers) ==
    /\ submissions[s] = "unsent" /\ FormOf[s] \in forms
    /\ \A u \in Range(answers) : request[u] = "done" /\ ~Locked(u)
    /\ \/ /\ \A k \in DOMAIN answers : Claimable(s, k, answers[k])
          /\ submissions' = [submissions EXCEPT ![s] = "claiming"]
          /\ files' = [files EXCEPT ![s] = answers]
       \/ /\ \E k \in DOMAIN answers : ~Claimable(s, k, answers[k])
          /\ submissions' = [submissions EXCEPT ![s] = "refused"]
          /\ UNCHANGED files
    /\ UNCHANGED <<forms, bucket, file_uploads, submission_id, old, request,
                   reaperVars, late, faults>>

(* insert, claim and commit; or the transaction is rolled back.            *)
claim(s) ==
    submission_id' = [u \in Uploads |->
        IF u \in Range(files[s]) /\ u \in file_uploads
           /\ submission_id[u] = Nobody
        THEN s ELSE submission_id[u]]

CommitClaim(s) ==
    /\ submissions[s] = "claiming"
    /\ \/ /\ claim(s)
          /\ submissions' = [submissions EXCEPT ![s] = "stored"]
          /\ late' = late \cup (Range(files[s]) \cap old)
          /\ UNCHANGED <<files, faults>>
       \/ /\ submissions' = [submissions EXCEPT ![s] = "refused"]
          /\ files' = [files EXCEPT ![s] = NoFiles]
          /\ Fault("db")
          /\ UNCHANGED <<submission_id, late>>
    /\ UNCHANGED <<forms, bucket, file_uploads, old, request, reaperVars>>

(* FormService::delete_submission: ON DELETE SET NULL frees its uploads.   *)
DeleteSubmission(s) ==
    /\ submissions[s] = "stored"
    /\ submissions' = [submissions EXCEPT ![s] = "gone"]
    /\ files' = [files EXCEPT ![s] = NoFiles]
    /\ submission_id' = [u \in Uploads |->
                IF submission_id[u] = s THEN Nobody ELSE submission_id[u]]
    /\ UNCHANGED <<forms, bucket, file_uploads, old, request, reaperVars,
                   late, faults>>

(* FormService::delete: submissions and ledger rows cascade.  It waits for *)
(* transactions that hold rows of the form.                                *)
DeleteForm(f) ==
    LET mine == {u \in Uploads : FormOf[u] = f}
        posted == {s \in Submissions : FormOf[s] = f}
    IN
    /\ f \in forms
    /\ \A s \in posted : submissions[s] # "claiming"
    /\ forms' = forms \ {f}
    /\ file_uploads' = file_uploads \ mine
    /\ submission_id' = [u \in Uploads |->
                           IF u \in mine THEN Nobody ELSE submission_id[u]]
    /\ submissions' = [s \in Submissions |->
                         IF s \in posted /\ submissions[s] = "stored"
                         THEN "gone" ELSE submissions[s]]
    /\ files' = [s \in Submissions |-> IF s \in posted THEN NoFiles ELSE files[s]]
    /\ Fault("delete")
    /\ UNCHANGED <<bucket, old, request, reaperVars, late>>

-----------------------------------------------------------------------------
(* FormService::reap_abandoned_uploads                                     *)

(* Mutant: age alone decides.                                              *)
Abandoned_by_age(u) == u \in file_uploads /\ u \in old

Abandoned(u) == u \in file_uploads /\ submission_id[u] = Nobody /\ u \in old

(* UPLOAD_TTL_HOURS pass since created_at, claimed or not.                 *)
GrowOld(u) ==
    /\ u \in file_uploads \ old
    /\ old' = old \cup {u}
    /\ UNCHANGED <<forms, bucket, file_uploads, submission_id, request,
                   submissions, files, reaperVars, late, faults>>

(* FileUploadRepository::abandoned: an unlocked read.                      *)
ListAbandoned(w, S) ==
    /\ pc[w] = "idle"
    /\ S # {} /\ Cardinality(S) <= ReapBatch
    /\ \A u \in S : Abandoned(u)
    /\ abandoned' = [abandoned EXCEPT ![w] = S]
    /\ pc' = [pc EXCEPT ![w] = "delete"]
    /\ UNCHANGED <<forms, bucket, file_uploads, submission_id, old, request,
                   submissions, files, upload, late, faults>>

(* Done with u: on to the next upload of the pass.                         *)
NextUpload(w, u) ==
    /\ abandoned' = [abandoned EXCEPT ![w] = @ \ {u}]
    /\ upload' = [upload EXCEPT ![w] = NoUpload]
    /\ pc' = [pc EXCEPT ![w] = IF abandoned[w] = {u} THEN "idle" ELSE "delete"]

EndPass(w) ==
    /\ abandoned' = [abandoned EXCEPT ![w] = {}]
    /\ upload' = [upload EXCEPT ![w] = NoUpload]
    /\ pc' = [pc EXCEPT ![w] = "idle"]

(* Mutant: the row is forgotten though the bucket failed.                  *)
DeleteObject_regardless(w, u) ==
    /\ pc[w] = "delete" /\ u \in abandoned[w]
    /\ \/ bucket' = bucket \ {u} /\ UNCHANGED faults
       \/ UNCHANGED bucket /\ Fault("storage")
    /\ upload' = [upload EXCEPT ![w] = u]
    /\ pc' = [pc EXCEPT ![w] = "forget"]
    /\ UNCHANGED <<forms, file_uploads, submission_id, old, request,
                   submissions, files, abandoned, late>>

(* The object first.  When that fails the row survives for the next pass.  *)
DeleteObject(w, u) ==
    /\ pc[w] = "delete" /\ u \in abandoned[w]
    /\ \/ /\ bucket' = bucket \ {u}
          /\ upload' = [upload EXCEPT ![w] = u]
          /\ pc' = [pc EXCEPT ![w] = "forget"]
          /\ UNCHANGED <<abandoned, faults>>
       \/ /\ bucket' \in {bucket, bucket \ {u}}
          /\ NextUpload(w, u)
          /\ Fault("storage")
    /\ UNCHANGED <<forms, file_uploads, submission_id, old, request,
                   submissions, files, late>>

(* Mutant: the DELETE matches no row.                                      *)
forget_nothing(u) == u \in Uploads /\ UNCHANGED <<file_uploads, submission_id>>

(* forget(): DELETE by id, whoever claimed the row meanwhile.  It waits    *)
(* for a row lock; its failure ends the pass.                              *)
forget(u) ==
    /\ file_uploads' = file_uploads \ {u}
    /\ submission_id' = [submission_id EXCEPT ![u] = Nobody]

Forget(w) ==
    LET u == upload[w] IN
    /\ pc[w] = "forget" /\ ~Locked(u)
    /\ \/ forget(u) /\ NextUpload(w, u) /\ UNCHANGED faults
       \/ /\ UNCHANGED <<file_uploads, submission_id>> \/ forget(u)
          /\ EndPass(w)
          /\ Fault("db")
    /\ UNCHANGED <<forms, bucket, old, request, submissions, files, late>>

CrashReaper(w) ==
    /\ pc[w] # "idle"
    /\ Fault("reaper")
    /\ EndPass(w)
    /\ UNCHANGED <<forms, bucket, file_uploads, submission_id, old, request,
                   submissions, files, late>>

-----------------------------------------------------------------------------
Request(u) ==
    \/ BeginUpload(u) \/ FinishUpload(u) \/ RecordUpload(u) \/ UndoUpload(u)
    \/ CrashUpload(u)

Submit(s) ==
    \/ \E answers \in Answers \ {NoFiles} : LockForClaim(s, answers)
    \/ CommitClaim(s)
    \/ DeleteSubmission(s)

Reap(w) ==
    \/ \E u \in Uploads : DeleteObject(w, u)
    \/ Forget(w)

Next ==
    \/ \E u \in Uploads : Request(u)
    \/ \E s \in Submissions : Submit(s)
    \/ \E f \in Forms : DeleteForm(f)
    \/ \E u \in Uploads : GrowOld(u)
    \/ \E w \in Reapers, S \in SUBSET Uploads : ListAbandoned(w, S)
    \/ \E w \in Reapers : Reap(w)
    \/ \E w \in Reapers : CrashReaper(w)

Spec == Init /\ [][Next]_vars

(* The loop of the reaper never stops, ORDER BY created_at brings every    *)
(* abandoned upload to the front, time passes, and a transaction ends.     *)
FairSpec ==
    /\ Spec
    /\ \A w \in Reapers : WF_vars(Reap(w))
    /\ \A u \in Uploads : WF_vars(GrowOld(u))
    /\ \A s \in Submissions : WF_vars(CommitClaim(s))
    /\ \A u \in Uploads :
         SF_vars(\E w \in Reapers, S \in SUBSET Uploads :
                    u \in S /\ ListAbandoned(w, S))

-----------------------------------------------------------------------------
(* Properties                                                              *)

(* Two stored submissions never carry the same file: lock_for_claim makes  *)
(* the second one wait and then find the upload claimed.                   *)
NoFileIsShared ==
    \A s, t \in Submissions :
        submissions[s] = "stored" /\ submissions[t] = "stored" /\ s # t
            => Range(files[s]) \cap Range(files[t]) = {}

(* A file claimed before the cutoff is safe from the reaper for as long as *)
(* its submission lives: the object, the row and the link all stay.        *)
FreshClaimsKeepTheirFiles ==
    \A s \in Submissions :
        submissions[s] = "stored" =>
            \A u \in Range(files[s]) \ late :
                u \in bucket /\ u \in file_uploads /\ submission_id[u] = s

(* The reaper "deletes uploads no submission ever claimed": the files of a *)
(* stored submission are in the bucket, however old they were when it      *)
(* claimed them.  The code does not keep this.                             *)
StoredFilesAreKept ==
    \A s \in Submissions :
        submissions[s] = "stored" => Range(files[s]) \subseteq bucket

(* A ledger row is forgotten only after its object is gone from the        *)
(* bucket, so a reaper that stops half way loses track of nothing.  Only   *)
(* the cascade of a deleted form drops rows without looking.               *)
RowOutlivesObject ==
    [][\A u \in Uploads :
         u \in file_uploads /\ u \notin file_uploads'
           /\ faults'["delete"] = faults["delete"]
             => u \notin bucket]_vars

(* Once its request has ended an object in the bucket has a ledger row, so *)
(* the reaper can find it, while the bucket answers, the process serving   *)
(* the request lives and the form is there.                                *)
ObjectIsFindable ==
    \A u \in Uploads :
        u \in bucket /\ request[u] \in {"done", "failed"}
          /\ faults["storage"] = 0 /\ faults["api"] = 0 /\ FormOf[u] \in forms
            => u \in file_uploads

(* An upload nobody claims leaves the bucket and the ledger in the end,    *)
(* whatever crashes or fails on the way, unless its form is deleted.       *)
AbandonedIsCollected ==
    \A u \in Uploads :
        u \in file_uploads /\ submission_id[u] = Nobody
            ~> \/ u \notin file_uploads /\ u \notin bucket
               \/ submission_id[u] # Nobody
               \/ FormOf[u] \notin forms
=============================================================================
