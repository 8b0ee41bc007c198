---------------------------- MODULE UploadsProofs ----------------------------
(***************************************************************************)
(* Proofs about Uploads: no file is shared, a fresh claim keeps its file,  *)
(* and the ledger loses track of no object.                                *)
(***************************************************************************)
EXTENDS Uploads, TLAPS

-----------------------------------------------------------------------------
(* The inductive invariant                                                 *)

(* The request, the object and the row of an upload: the row comes after   *)
(* the object, and a recorded object stays until it is past the cutoff.    *)
LedgerInv == \A u \in Uploads :
    /\ request[u] \in {"none", "stream", "record"} =>
         u \notin file_uploads /\ u \notin old
    /\ request[u] \in {"none", "stream"} => u \notin bucket
    /\ request[u] = "record" => u \in bucket
    /\ request[u] = "done" /\ u \notin old => u \in bucket

(* A reaper has in hand only uploads past the cutoff, and comes to a row   *)
(* only when the object is gone.                                           *)
InHand(w, u) == u \in abandoned[w] \/ upload[w] = u

ReaperInv == \A w \in Reapers, u \in Uploads :
    /\ InHand(w, u) => u \in old
    /\ upload[w] = u => u \notin bucket

(* What a submission claims, or has claimed: the locks keep the rows of a  *)
(* transaction as it found them, and a row that is left names its claimer. *)
Carries(s, u) == submissions[s] \in {"claiming", "stored"} /\ u \in Range(files[s])

ClaimInv == \A s \in Submissions, u \in Uploads : Carries(s, u) =>
    /\ request[u] = "done" /\ FormOf[u] = FormOf[s]
    /\ submissions[s] = "claiming" =>
         u \in file_uploads /\ submission_id[u] = Nobody
    /\ submissions[s] = "stored" /\ u \in file_uploads => submission_id[u] = s

(* Nobody carries what another carries, stored or still in a transaction   *)
(* whose rows are there.                                                   *)
SharingInv == \A s, t \in Submissions, u \in Uploads :
    Carries(s, u) /\ Carries(t, u) => s = t

(* A claim made in time is out of every reaper's hands.                    *)
FreshInv == \A s \in Submissions, u \in Uploads :
    submissions[s] = "stored" /\ Carries(s, u) /\ u \notin late =>
      /\ u \in bucket /\ u \in file_uploads /\ submission_id[u] = s
      /\ \A w \in Reapers : ~InHand(w, u)

Parts == /\ LedgerInv /\ ReaperInv /\ ClaimInv /\ SharingInv /\ FreshInv
         /\ ObjectIsFindable

IInv == TypeOK /\ Parts

-----------------------------------------------------------------------------
(* Lemmas about the operators                                              *)

(* The files of an answer are uploads, and no answer has none.             *)
LEMMA AnswersType ==
    /\ NoFiles \in Answers /\ Range(NoFiles) = {}
    /\ \A a \in Answers : Range(a) \subseteq Uploads
<1>1. NoFiles \in [{} -> Uploads] /\ DOMAIN NoFiles = {}
  BY DEF NoFiles
<1> QED BY <1>1 DEF Answers, Range

(* A fault only counts up its own bound.                                   *)
LEMMA FaultStep ==
    ASSUME TypeOK, NEW k \in Faults, Fault(k)
    PROVE  /\ faults' \in [Faults -> Nat]
           /\ faults'[k] = faults[k] + 1 /\ faults'[k] # 0
           /\ \A j \in Faults : j # k => faults'[j] = faults[j]
BY DEF TypeOK, Fault

-----------------------------------------------------------------------------
(* Every step keeps the types                                              *)

LEMMA TypeStep == ASSUME TypeOK, [Next]_vars PROVE TypeOK'
<1> USE DEF TypeOK
<1>f. ASSUME NEW k \in Faults, Fault(k) PROVE faults' \in [Faults -> Nat]
  BY <1>f, FaultStep
<1>k. {"db", "storage", "reaper", "api", "delete"} \subseteq Faults
  BY DEF Faults
<1>1. CASE UNCHANGED vars
  BY <1>1 DEF vars, reaperVars
<1>2. ASSUME NEW u \in Uploads, Request(u) PROVE TypeOK'
  <2>1. /\ request' \in [Uploads -> {"none", "stream", "record", "undo",
                                     "done", "failed"}]
        /\ bucket' \in SUBSET Uploads /\ file_uploads' \in SUBSET Uploads
    BY <1>2 DEF Request, BeginUpload, FinishUpload, RecordUpload, UndoUpload,
       CrashUpload, To, insert
  <2>2. faults' \in [Faults -> Nat]
    BY <1>2, <1>f, <1>k DEF Request, BeginUpload, FinishUpload, RecordUpload,
       UndoUpload, CrashUpload
  <2>3. UNCHANGED <<forms, submission_id, old, submissions, files, reaperVars,
                    late>>
    BY <1>2 DEF Request, BeginUpload, FinishUpload, RecordUpload, UndoUpload,
       CrashUpload
  <2> QED BY <2>1, <2>2, <2>3 DEF reaperVars
<1>3. ASSUME NEW s \in Submissions, NEW a \in Answers, LockForClaim(s, a)
      PROVE  TypeOK'
  BY <1>3 DEF LockForClaim, reaperVars
<1>4. ASSUME NEW s \in Submissions, CommitClaim(s) PROVE TypeOK'
  <2>1. faults' \in [Faults -> Nat]
    BY <1>4, <1>f, <1>k DEF CommitClaim
  <2>2. late' \in SUBSET Uploads /\ submission_id' \in [Uploads -> Submissions \cup {Nobody}]
    BY <1>4 DEF CommitClaim, claim
  <2>3. /\ files' \in [Submissions -> Answers]
        /\ submissions' \in [Submissions -> {"unsent", "claiming", "stored",
                                             "refused", "gone"}]
    BY <1>4, AnswersType DEF CommitClaim
  <2> QED BY <1>4, <2>1, <2>2, <2>3 DEF CommitClaim, reaperVars
<1>5. ASSUME NEW s \in Submissions, DeleteSubmission(s) PROVE TypeOK'
  BY <1>5, AnswersType DEF DeleteSubmission, reaperVars
<1>6. ASSUME NEW f \in Forms, DeleteForm(f) PROVE TypeOK'
  <2>1. faults' \in [Faults -> Nat]
    BY <1>6, <1>f, <1>k DEF DeleteForm
  <2>2. /\ files' \in [Submissions -> Answers]
        /\ submissions' \in [Submissions -> {"unsent", "claiming", "stored",
                                             "refused", "gone"}]
    BY <1>6, AnswersType DEF DeleteForm
  <2> QED BY <1>6, <2>1, <2>2 DEF DeleteForm, reaperVars
<1>7. ASSUME NEW u \in Uploads, GrowOld(u) PROVE TypeOK'
  BY <1>7 DEF GrowOld, reaperVars
<1>8. ASSUME NEW w \in Reapers, NEW S \in SUBSET Uploads, ListAbandoned(w, S)
      PROVE  TypeOK'
  BY <1>8 DEF ListAbandoned
<1>9. ASSUME NEW w \in Reapers, Reap(w) \/ CrashReaper(w) PROVE TypeOK'
  <2>1. faults' \in [Faults -> Nat]
    BY <1>9, <1>f, <1>k DEF Reap, DeleteObject, Forget, CrashReaper
  <2>2. /\ pc' \in [Reapers -> {"idle", "delete", "forget"}]
        /\ abandoned' \in [Reapers -> SUBSET Uploads]
        /\ upload' \in [Reapers -> Uploads \cup {NoUpload}]
    BY <1>9 DEF Reap, DeleteObject, Forget, CrashReaper, NextUpload, EndPass
  <2>3. /\ bucket' \in SUBSET Uploads /\ file_uploads' \in SUBSET Uploads
        /\ submission_id' \in [Uploads -> Submissions \cup {Nobody}]
    BY <1>9 DEF Reap, DeleteObject, Forget, CrashReaper, forget
  <2> QED BY <1>9, <2>1, <2>2, <2>3 DEF Reap, DeleteObject, Forget, CrashReaper
<1> QED BY <1>1, <1>2, <1>3, <1>4, <1>5, <1>6, <1>7, <1>8, <1>9
        DEF Next, Submit

-----------------------------------------------------------------------------
(* Uploading: only a request that has not returned changes anything        *)

LEMMA RequestStep ==
    ASSUME IInv, NEW u \in Uploads, Request(u)
    PROVE  Parts'
<1>0. TypeOK /\ Parts
  BY DEF IInv
<1>1. UNCHANGED <<forms, submission_id, old, submissions, files, pc, abandoned,
                  upload, late>>
  BY DEF Request, BeginUpload, FinishUpload, RecordUpload, UndoUpload,
     CrashUpload, reaperVars
<1>2. \A v \in Uploads \ {u} :
        /\ request'[v] = request[v] /\ (v \in bucket' <=> v \in bucket)
        /\ v \in file_uploads' <=> v \in file_uploads
  BY <1>0 DEF TypeOK, Request, BeginUpload, FinishUpload, RecordUpload,
     UndoUpload, CrashUpload, To, insert
<1>3. request[u] # "done" /\ request[u] # "failed"
  BY DEF Request, BeginUpload, FinishUpload, RecordUpload, UndoUpload,
     CrashUpload, At
<1>4. \A s \in Submissions, v \in Uploads : Carries(s, v)' = Carries(s, v)
  BY <1>1 DEF Carries
<1>5. \A w \in Reapers, v \in Uploads : InHand(w, v)' = InHand(w, v)
  BY <1>1 DEF InHand
<1>6. \A s \in Submissions : ~Carries(s, u)
  BY <1>0, <1>3 DEF Parts, ClaimInv
<1>7. LedgerInv'
  <2>1. /\ request'[u] \in {"none", "stream", "record"} =>
             u \notin file_uploads' /\ u \notin old
        /\ request'[u] \in {"none", "stream"} => u \notin bucket'
        /\ request'[u] = "record" => u \in bucket'
        /\ request'[u] = "done" => u \in bucket'
    BY <1>0 DEF Parts, LedgerInv, TypeOK, Request, BeginUpload, FinishUpload,
       RecordUpload, UndoUpload, CrashUpload, To, At, insert
  <2> QED BY <1>0, <1>1, <1>2, <2>1 DEF Parts, LedgerInv
<1>8. ReaperInv'
  <2>1. u \in bucket' => u \in bucket \/ request[u] = "stream"
    BY DEF Request, BeginUpload, FinishUpload, RecordUpload, UndoUpload,
       CrashUpload, At
  <2>2. u \in bucket' => u \in bucket \/ u \notin old
    BY <1>0, <2>1 DEF Parts, LedgerInv
  <2>3. \A w \in Reapers : upload[w] = u => u \in old /\ u \notin bucket
    BY <1>0 DEF Parts, ReaperInv, InHand
  <2> QED BY <1>0, <1>1, <1>2, <1>5, <2>2, <2>3 DEF Parts, ReaperInv
<1>9. ClaimInv' /\ SharingInv'
  BY <1>0, <1>1, <1>2, <1>4, <1>6 DEF Parts, ClaimInv, SharingInv
<1>10. FreshInv'
  BY <1>0, <1>1, <1>2, <1>4, <1>5, <1>6 DEF Parts, FreshInv
<1>11. ObjectIsFindable'
  <2>1. \A k \in {"storage", "api"} : faults'[k] = 0 => faults[k] = 0
    <3>1. UNCHANGED faults \/ Fault("storage") \/ Fault("db") \/ Fault("api")
      BY DEF Request, BeginUpload, FinishUpload, RecordUpload, UndoUpload,
         CrashUpload
    <3> QED BY <1>0, <3>1, FaultStep DEF Faults
  <2>2. ASSUME u \in bucket', request'[u] \in {"done", "failed"},
               faults'["storage"] = 0, faults'["api"] = 0
        PROVE  u \in file_uploads'
    <3>1. ~Fault("storage") /\ ~Fault("api")
      BY <1>0, <2>2, FaultStep DEF Faults
    <3>2. request[u] \in {"none", "stream"} => u \notin bucket
      BY <1>0 DEF Parts, LedgerInv
    <3> QED BY <1>0, <2>2, <3>1, <3>2 DEF TypeOK, Request, BeginUpload,
               FinishUpload, RecordUpload, UndoUpload, CrashUpload, To, At,
               insert
  <2> QED BY <1>0, <1>1, <1>2, <2>1, <2>2 DEF Parts, ObjectIsFindable
<1> QED BY <1>7, <1>8, <1>9, <1>10, <1>11 DEF Parts

-----------------------------------------------------------------------------
(* Submitting                                                              *)

(* Steps that leave the ledger, the bucket and the requests alone.         *)
LEMMA LedgerKept ==
    ASSUME Parts, UNCHANGED <<bucket, file_uploads, request, old, faults, forms>>
    PROVE  LedgerInv' /\ ObjectIsFindable'
BY DEF Parts, LedgerInv, ObjectIsFindable

LEMMA ReapersKept ==
    ASSUME Parts, UNCHANGED <<bucket, old, abandoned, upload>>
    PROVE  /\ ReaperInv'
           /\ \A w \in Reapers, u \in Uploads : InHand(w, u)' = InHand(w, u)
BY DEF Parts, ReaperInv, InHand

LEMMA LockForClaimStep ==
    ASSUME IInv, NEW s \in Submissions, NEW answers \in Answers,
           LockForClaim(s, answers)
    PROVE  Parts'
<1>0. TypeOK /\ Parts
  BY DEF IInv
<1>1. UNCHANGED <<forms, bucket, file_uploads, submission_id, old, request,
                  abandoned, upload, late, faults>>
  BY DEF LockForClaim, reaperVars
<1>2. LedgerInv' /\ ObjectIsFindable' /\ ReaperInv'
      /\ \A w \in Reapers, u \in Uploads : InHand(w, u)' = InHand(w, u)
  BY <1>0, <1>1, LedgerKept, ReapersKept
<1>3. \A t \in Submissions \ {s} : submissions'[t] = submissions[t]
                                   /\ files'[t] = files[t]
  BY <1>0 DEF LockForClaim, TypeOK
<1>4. \A t \in Submissions \ {s}, u \in Uploads : Carries(t, u)' = Carries(t, u)
  BY <1>3 DEF Carries
<1>5. submissions[s] = "unsent" /\ submissions'[s] # "stored"
  BY <1>0 DEF LockForClaim, TypeOK
<1>6. ASSUME NEW u \in Uploads, Carries(s, u)'
      PROVE  /\ submissions'[s] = "claiming"
             /\ request[u] = "done" /\ FormOf[u] = FormOf[s]
             /\ u \in file_uploads /\ submission_id[u] = Nobody
             /\ \A t \in Submissions \ {s} : ~Carries(t, u)
  <2>1. /\ submissions'[s] = "claiming" /\ files'[s] = answers
        /\ \A k \in DOMAIN answers : Claimable(s, k, answers[k])
    BY <1>0, <1>6 DEF LockForClaim, TypeOK, Carries
  <2>2. u \in Range(answers)
    BY <1>6, <2>1 DEF Carries
  <2>3. request[u] = "done" /\ ~Locked(u)
    BY <2>2 DEF LockForClaim
  <2>4. u \in file_uploads /\ FormOf[u] = FormOf[s] /\ submission_id[u] = Nobody
    BY <2>1, <2>2 DEF Range, Claimable
  <2>5. \A t \in Submissions : ~Carries(t, u)
    BY <1>0, <2>3, <2>4, UploadsAssumption DEF Parts, ClaimInv, Carries, Locked
  <2> QED BY <2>1, <2>3, <2>4, <2>5
<1>7. ClaimInv'
  BY <1>0, <1>1, <1>3, <1>4, <1>6 DEF Parts, ClaimInv
<1>8. SharingInv'
  BY <1>0, <1>4, <1>6 DEF Parts, SharingInv
<1>9. FreshInv'
  BY <1>0, <1>1, <1>2, <1>3, <1>4, <1>5 DEF Parts, FreshInv
<1> QED BY <1>2, <1>7, <1>8, <1>9 DEF Parts

(* The commit turns what the locks protected into what the rows say.       *)
LEMMA CommitClaimStep ==
    ASSUME IInv, NEW s \in Submissions, CommitClaim(s)
    PROVE  Parts'
<1>0. TypeOK /\ Parts
  BY DEF IInv
<1>1. submissions[s] = "claiming"
      /\ UNCHANGED <<forms, bucket, file_uploads, old, request, abandoned, upload>>
  BY DEF CommitClaim, reaperVars
<1>2. ReaperInv'
      /\ \A w \in Reapers, u \in Uploads : InHand(w, u)' = InHand(w, u)
  BY <1>0, <1>1, ReapersKept
<1>3. LedgerInv' /\ ObjectIsFindable'
  <2>1. \A k \in {"storage", "api"} : faults'[k] = faults[k]
    BY <1>0, FaultStep DEF CommitClaim, Faults
  <2> QED BY <1>0, <1>1, <2>1 DEF Parts, LedgerInv, ObjectIsFindable
<1>4. \A t \in Submissions \ {s} :
        submissions'[t] = submissions[t] /\ files'[t] = files[t]
  BY <1>0 DEF CommitClaim, TypeOK
<1>5. \A t \in Submissions \ {s}, u \in Uploads : Carries(t, u)' = Carries(t, u)
  BY <1>4 DEF Carries
<1>6. CASE /\ claim(s)
           /\ submissions' = [submissions EXCEPT ![s] = "stored"]
           /\ late' = late \cup (Range(files[s]) \cap old)
           /\ UNCHANGED <<files, faults>>
  <2>1. submissions'[s] = "stored"
        /\ \A u \in Uploads : Carries(s, u)' = Carries(s, u)
    BY <1>0, <1>1, <1>6 DEF TypeOK, Carries
  <2>2. \A u \in Uploads : submission_id'[u] =
                             IF Carries(s, u) THEN s ELSE submission_id[u]
    BY <1>0, <1>1, <1>6 DEF claim, Carries, Parts, ClaimInv
  <2>3. \A t \in Submissions, u \in Uploads : Carries(t, u) /\ t # s
                             => submission_id'[u] = submission_id[u]
    BY <1>0, <2>2 DEF Parts, SharingInv
  <2>4. ClaimInv'
    BY <1>0, <1>1, <1>4, <1>5, <2>1, <2>2, <2>3 DEF Parts, ClaimInv
  <2>5. SharingInv'
    BY <1>0, <1>5, <2>1 DEF Parts, SharingInv
  <2>6. ASSUME NEW u \in Uploads, Carries(s, u), u \notin late'
        PROVE  /\ u \in bucket /\ u \in file_uploads
               /\ \A w \in Reapers : ~InHand(w, u)
    <3>1. u \notin old
      BY <1>6, <2>6 DEF Carries
    <3> QED BY <1>0, <1>1, <2>6, <3>1
            DEF Parts, ClaimInv, LedgerInv, ReaperInv
  <2>7. FreshInv'
    BY <1>0, <1>1, <1>2, <1>4, <1>5, <1>6, <2>1, <2>2, <2>3, <2>6
    DEF Parts, FreshInv
  <2> QED BY <1>2, <1>3, <2>4, <2>5, <2>7 DEF Parts
<1>7. CASE /\ submissions' = [submissions EXCEPT ![s] = "refused"]
           /\ UNCHANGED <<submission_id, late>>
  <2>1. submissions'[s] = "refused" /\ \A u \in Uploads : ~Carries(s, u)'
    BY <1>0, <1>7 DEF TypeOK, Carries
  <2>2. ClaimInv' /\ SharingInv'
    BY <1>0, <1>1, <1>4, <1>5, <1>7, <2>1 DEF Parts, ClaimInv, SharingInv
  <2>3. FreshInv'
    BY <1>0, <1>1, <1>2, <1>4, <1>5, <1>7, <2>1 DEF Parts, FreshInv
  <2> QED BY <1>2, <1>3, <2>2, <2>3 DEF Parts
<1> QED BY <1>6, <1>7 DEF CommitClaim

LEMMA DeleteSubmissionStep ==
    ASSUME IInv, NEW s \in Submissions, DeleteSubmission(s)
    PROVE  Parts'
<1>0. TypeOK /\ Parts
  BY DEF IInv
<1>1. UNCHANGED <<forms, bucket, file_uploads, old, request, abandoned, upload,
                  late, faults>>
  BY DEF DeleteSubmission, reaperVars
<1>2. LedgerInv' /\ ObjectIsFindable' /\ ReaperInv'
      /\ \A w \in Reapers, u \in Uploads : InHand(w, u)' = InHand(w, u)
  BY <1>0, <1>1, LedgerKept, ReapersKept
<1>3. /\ \A t \in Submissions \ {s} :
           submissions'[t] = submissions[t] /\ files'[t] = files[t]
      /\ submissions'[s] = "gone"
  BY <1>0 DEF DeleteSubmission, TypeOK
<1>4. \A t \in Submissions, u \in Uploads :
        Carries(t, u)' => Carries(t, u) /\ t # s
  BY <1>3 DEF Carries
<1>5. \A u \in Uploads :
        submission_id'[u] = IF submission_id[u] = s THEN Nobody ELSE submission_id[u]
  BY DEF DeleteSubmission
<1>6. ClaimInv' /\ SharingInv'
  BY <1>0, <1>1, <1>3, <1>4, <1>5 DEF Parts, ClaimInv, SharingInv
<1>7. FreshInv'
  BY <1>0, <1>1, <1>2, <1>3, <1>4, <1>5 DEF Parts, FreshInv
<1> QED BY <1>2, <1>6, <1>7 DEF Parts

LEMMA DeleteFormStep ==
    ASSUME IInv, NEW f \in Forms, DeleteForm(f)
    PROVE  Parts'
<1>0. TypeOK /\ Parts
  BY DEF IInv
<1>1. UNCHANGED <<bucket, old, request, abandoned, upload, late>>
      /\ forms' = forms \ {f}
      /\ \A k \in {"storage", "api"} : faults'[k] = faults[k]
  BY <1>0, FaultStep DEF DeleteForm, reaperVars, Faults
<1>2. ReaperInv'
      /\ \A w \in Reapers, u \in Uploads : InHand(w, u)' = InHand(w, u)
  BY <1>0, <1>1, ReapersKept
<1>3. \A u \in Uploads :
        /\ u \in file_uploads' <=> u \in file_uploads /\ FormOf[u] # f
        /\ FormOf[u] # f => submission_id'[u] = submission_id[u]
  BY DEF DeleteForm
<1>4. \A s \in Submissions :
        /\ FormOf[s] # f => submissions'[s] = submissions[s] /\ files'[s] = files[s]
        /\ FormOf[s] = f => submissions'[s] \notin {"claiming", "stored"}
  BY DEF DeleteForm
<1>5. \A s \in Submissions, u \in Uploads :
        Carries(s, u)' => Carries(s, u) /\ FormOf[s] # f /\ FormOf[u] # f
  BY <1>0, <1>4 DEF Carries, Parts, ClaimInv
<1>6. LedgerInv' /\ ObjectIsFindable'
  BY <1>0, <1>1, <1>3 DEF Parts, LedgerInv, ObjectIsFindable
<1>7. ClaimInv' /\ SharingInv'
  BY <1>0, <1>1, <1>3, <1>4, <1>5 DEF Parts, ClaimInv, SharingInv
<1>8. FreshInv'
  BY <1>0, <1>1, <1>2, <1>3, <1>4, <1>5 DEF Parts, FreshInv
<1> QED BY <1>2, <1>6, <1>7, <1>8 DEF Parts

-----------------------------------------------------------------------------
(* Reaping                                                                 *)

LEMMA GrowOldStep ==
    ASSUME IInv, NEW v \in Uploads, GrowOld(v)
    PROVE  Parts'
<1>0. TypeOK /\ Parts
  BY DEF IInv
<1>1. UNCHANGED <<forms, bucket, file_uploads, submission_id, request,
                  submissions, files, abandoned, upload, late, faults>>
      /\ v \in file_uploads /\ old' = old \cup {v}
  BY DEF GrowOld, reaperVars
<1>2. \A s \in Submissions, u \in Uploads : Carries(s, u)' = Carries(s, u)
  BY <1>1 DEF Carries
<1>3. \A w \in Reapers, u \in Uploads : InHand(w, u)' = InHand(w, u)
  BY <1>1 DEF InHand
<1>4. LedgerInv' /\ ReaperInv' /\ ObjectIsFindable'
  BY <1>0, <1>1, <1>3 DEF Parts, LedgerInv, ReaperInv, ObjectIsFindable
<1>5. ClaimInv' /\ SharingInv' /\ FreshInv'
  BY <1>0, <1>1, <1>2, <1>3 DEF Parts, ClaimInv, SharingInv, FreshInv
<1> QED BY <1>4, <1>5 DEF Parts

(* A pass lists only what no submission has claimed.                       *)
LEMMA ListAbandonedStep ==
    ASSUME IInv, NEW w \in Reapers, NEW S \in SUBSET Uploads,
           ListAbandoned(w, S)
    PROVE  Parts'
<1>0. TypeOK /\ Parts
  BY DEF IInv
<1>1. UNCHANGED <<forms, bucket, file_uploads, submission_id, old, request,
                  submissions, files, upload, late, faults>>
  BY DEF ListAbandoned
<1>2. \A u \in S : u \in old /\ submission_id[u] = Nobody
  BY DEF ListAbandoned, Abandoned
<1>3. \A x \in Reapers, u \in Uploads :
        InHand(x, u)' => InHand(x, u) \/ u \in S
  BY <1>0, <1>1 DEF ListAbandoned, InHand, TypeOK
<1>4. \A s \in Submissions, u \in Uploads : Carries(s, u)' = Carries(s, u)
  BY <1>1 DEF Carries
<1>5. LedgerInv' /\ ObjectIsFindable'
  BY <1>0, <1>1, LedgerKept
<1>6. ReaperInv'
  BY <1>0, <1>1, <1>2, <1>3 DEF Parts, ReaperInv
<1>7. ClaimInv' /\ SharingInv'
  BY <1>0, <1>1, <1>4 DEF Parts, ClaimInv, SharingInv
<1>8. FreshInv'
  BY <1>0, <1>1, <1>2, <1>3, <1>4, UploadsAssumption DEF Parts, FreshInv
<1> QED BY <1>5, <1>6, <1>7, <1>8 DEF Parts

(* Going on with a pass, or ending it, takes nothing more in hand.         *)
LEMMA PassGoesOn ==
    ASSUME TypeOK, NEW w \in Reapers, NEW u, NextUpload(w, u) \/ EndPass(w)
    PROVE  /\ \A x \in Reapers, v \in Uploads : InHand(x, v)' => InHand(x, v)
           /\ \A x \in Reapers, v \in Uploads : upload'[x] = v => upload[x] = v
BY UploadsAssumption DEF TypeOK, NextUpload, EndPass, InHand

(* The object goes first, and only one the reaper has in hand.             *)
LEMMA DeleteObjectStep ==
    ASSUME IInv, NEW w \in Reapers, NEW u \in Uploads, DeleteObject(w, u)
    PROVE  Parts'
<1>0. TypeOK /\ Parts
  BY DEF IInv
<1>1. UNCHANGED <<forms, file_uploads, submission_id, old, request, submissions,
                  files, late>>
      /\ bucket' \subseteq bucket /\ bucket \ {u} \subseteq bucket'
      /\ InHand(w, u)
  BY DEF DeleteObject, InHand
<1>2. u \in old
  BY <1>0, <1>1 DEF Parts, ReaperInv
<1>3. /\ \A x \in Reapers, v \in Uploads : InHand(x, v)' => InHand(x, v)
      /\ \A x \in Reapers, v \in Uploads :
           upload'[x] = v => upload[x] = v \/ (v = u /\ u \notin bucket')
  <2>1. CASE NextUpload(w, u)
    BY <1>0, <2>1, PassGoesOn
  <2>2. CASE /\ bucket' = bucket \ {u} /\ UNCHANGED abandoned
             /\ upload' = [upload EXCEPT ![w] = u]
    BY <1>0, <1>1, <2>2 DEF TypeOK, InHand
  <2> QED BY <2>1, <2>2 DEF DeleteObject
<1>4. \A s \in Submissions, v \in Uploads : Carries(s, v)' = Carries(s, v)
  BY <1>1 DEF Carries
<1>5. LedgerInv'
  BY <1>0, <1>1, <1>2 DEF Parts, LedgerInv
<1>6. ReaperInv'
  BY <1>0, <1>1, <1>3 DEF Parts, ReaperInv
<1>7. ClaimInv' /\ SharingInv'
  BY <1>0, <1>1, <1>4 DEF Parts, ClaimInv, SharingInv
<1>8. FreshInv'
  BY <1>0, <1>1, <1>3, <1>4 DEF Parts, FreshInv
<1>9. ObjectIsFindable'
  <2>1. \A k \in {"storage", "api"} : faults'[k] = 0 => faults[k] = 0
    BY <1>0, FaultStep DEF DeleteObject, Faults
  <2> QED BY <1>0, <1>1, <2>1 DEF Parts, ObjectIsFindable
<1> QED BY <1>5, <1>6, <1>7, <1>8, <1>9 DEF Parts

(* The row goes last, when nobody holds it; a crash forgets nothing.       *)
LEMMA ForgetStep ==
    ASSUME IInv, NEW w \in Reapers, Forget(w) \/ CrashReaper(w)
    PROVE  Parts'
<1>0. TypeOK /\ Parts
  BY DEF IInv
<1>1. UNCHANGED <<forms, bucket, old, request, submissions, files, late>>
  BY DEF Forget, CrashReaper
<1>2. \/ UNCHANGED <<file_uploads, submission_id>>
      \/ ~Locked(upload[w]) /\ forget(upload[w])
  BY DEF Forget, CrashReaper
<1>3. \A v \in Uploads : v # upload[w] =>
        /\ v \in file_uploads' <=> v \in file_uploads
        /\ submission_id'[v] = submission_id[v]
  BY <1>0, <1>2 DEF forget, TypeOK
<1>4. /\ \A x \in Reapers, v \in Uploads : InHand(x, v)' => InHand(x, v)
      /\ \A x \in Reapers, v \in Uploads : upload'[x] = v => upload[x] = v
  BY <1>0, PassGoesOn DEF Forget, CrashReaper
<1>5. \A s \in Submissions, v \in Uploads : Carries(s, v)' = Carries(s, v)
  BY <1>1 DEF Carries
<1>6. \A v \in Uploads : v = upload[w] => InHand(w, v) /\ v \notin bucket
  BY <1>0 DEF InHand, Parts, ReaperInv
<1>7. file_uploads' \subseteq file_uploads
  BY <1>2 DEF forget
<1>8. LedgerInv' /\ ReaperInv'
  BY <1>0, <1>1, <1>4, <1>7 DEF Parts, LedgerInv, ReaperInv
<1>9. ClaimInv' /\ SharingInv'
  <2>1. \A s \in Submissions, v \in Uploads :
          Carries(s, v) /\ submissions[s] = "claiming" => Locked(v)
    BY DEF Carries, Locked
  <2>2. \A v \in Uploads :
          \/ UNCHANGED submission_id /\ (v \in file_uploads' <=> v \in file_uploads)
          \/ v # upload[w]
          \/ ~Locked(v) /\ v \notin file_uploads'
    BY <1>2 DEF forget
  <2> QED BY <1>0, <1>1, <1>3, <1>5, <2>1, <2>2
          DEF Parts, ClaimInv, SharingInv
<1>10. FreshInv'
  BY <1>0, <1>1, <1>3, <1>4, <1>5, <1>6 DEF Parts, FreshInv
<1>11. ObjectIsFindable'
  <2>1. \A k \in {"storage", "api"} : faults'[k] = faults[k]
    BY <1>0, FaultStep DEF Forget, CrashReaper, Faults
  <2> QED BY <1>0, <1>1, <1>3, <1>6, <2>1 DEF Parts, ObjectIsFindable
<1> QED BY <1>8, <1>9, <1>10, <1>11 DEF Parts

-----------------------------------------------------------------------------
(* The theorems                                                            *)

LEMMA InitInv == ASSUME Init PROVE IInv
<1>1. TypeOK
  BY AnswersType DEF Init, TypeOK
<1>2. \A s \in Submissions, u \in Uploads : ~Carries(s, u)
  BY DEF Init, Carries
<1> QED BY <1>1, <1>2, UploadsAssumption DEF Init, IInv, Parts, LedgerInv,
           ReaperInv, InHand, ClaimInv, SharingInv, FreshInv, ObjectIsFindable

LEMMA InductiveStep == ASSUME IInv, [Next]_vars PROVE IInv'
<1>1. TypeOK'
  BY TypeStep DEF IInv
<1>2. CASE UNCHANGED vars
  <2>1. UNCHANGED <<forms, bucket, file_uploads, submission_id, old, request,
                    submissions, files, abandoned, upload, late, faults>>
    BY <1>2 DEF vars, reaperVars
  <2>2. \A s \in Submissions, u \in Uploads : Carries(s, u)' = Carries(s, u)
    BY <2>1 DEF Carries
  <2>3. \A w \in Reapers, u \in Uploads : InHand(w, u)' = InHand(w, u)
    BY <2>1 DEF InHand
  <2> QED BY <1>1, <2>1, <2>2, <2>3 DEF IInv, Parts, LedgerInv, ReaperInv,
             ClaimInv, SharingInv, FreshInv, ObjectIsFindable
<1>3. CASE Next
  BY <1>1, <1>3, RequestStep, LockForClaimStep, CommitClaimStep,
     DeleteSubmissionStep, DeleteFormStep, GrowOldStep, ListAbandonedStep,
     DeleteObjectStep, ForgetStep DEF Next, Submit, Reap, IInv
<1> QED BY <1>2, <1>3

LEMMA Invariance == Spec => []IInv
BY InitInv, InductiveStep, PTL DEF Spec

(* Type correctness of Uploads, for every number of uploads, submissions,  *)
(* forms and reapers.                                                      *)
THEOREM TypeCorrect == Spec => []TypeOK
BY Invariance, PTL DEF IInv

(* NoFileIsShared, for every instance: the row locks of lock_for_claim and *)
(* the submission_id of the row together let one submission have a file.   *)
THEOREM FilesAreNotShared == Spec => []NoFileIsShared
<1>1. IInv => NoFileIsShared
  BY AnswersType DEF IInv, TypeOK, Parts, SharingInv, Carries, NoFileIsShared
<1> QED BY <1>1, Invariance, PTL

(* FreshClaimsKeepTheirFiles, for every instance: no reaper that was       *)
(* already at work takes the file of a submission that claimed it in time. *)
THEOREM FreshClaimsAreSafe == Spec => []FreshClaimsKeepTheirFiles
<1>1. IInv => FreshClaimsKeepTheirFiles
  BY AnswersType DEF IInv, TypeOK, Parts, FreshInv, Carries,
     FreshClaimsKeepTheirFiles
<1> QED BY <1>1, Invariance, PTL

(* ObjectIsFindable, for every instance: while the bucket answers and the  *)
(* process lives, no failed request leaves an object without a row.        *)
THEOREM ObjectsAreFindable == Spec => []ObjectIsFindable
BY Invariance, PTL DEF IInv, Parts

(* RowOutlivesObject, for every instance: every way the reaper goes on, or *)
(* breaks off, forgets a row only after its object.                        *)
THEOREM RowsOutliveObjects == Spec => RowOutlivesObject
<1> DEFINE Kept == \A u \in Uploads :
                     u \in file_uploads /\ u \notin file_uploads'
                       /\ faults'["delete"] = faults["delete"]
                         => u \notin bucket
<1>1. ASSUME IInv, [Next]_vars, NEW u \in Uploads,
             u \in file_uploads, u \notin file_uploads',
             faults'["delete"] = faults["delete"]
      PROVE  u \notin bucket
  <2>0. TypeOK /\ ReaperInv
    BY <1>1 DEF IInv, Parts
  <2>1. ASSUME NEW f \in Forms PROVE ~DeleteForm(f)
    <3>1. ~Fault("delete")
      BY <1>1, <2>0, FaultStep DEF Faults, TypeOK
    <3> QED BY <3>1 DEF DeleteForm
  <2>2. \E w \in Reapers : u = upload[w]
    BY <1>1, <2>1 DEF Next, vars, Request, BeginUpload, FinishUpload,
       RecordUpload, UndoUpload, CrashUpload, insert, Submit, LockForClaim,
       CommitClaim, DeleteSubmission, GrowOld, ListAbandoned, Reap,
       DeleteObject, Forget, forget, CrashReaper
  <2> QED BY <2>0, <2>2 DEF ReaperInv
<1>2. IInv /\ [Next]_vars => [Kept]_vars
  BY <1>1
<1> QED BY <1>2, Invariance, PTL DEF Spec, RowOutlivesObject
=============================================================================
