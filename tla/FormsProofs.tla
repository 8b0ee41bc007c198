---------------------------- MODULE FormsProofs -----------------------------
(***************************************************************************)
(* Proofs about Forms and Export: the stamp on a submission tells the      *)
(* schema it answered, a published form can be submitted, and an export    *)
(* has every row it owes, once, and every answer of it.  In the second     *)
(* part, proofs about Validation: what the contract of a form accepts and  *)
(* what of it is stored.                                                   *)
(***************************************************************************)
EXTENDS Export, Validation, WellFoundedInduction, TLAPS

-----------------------------------------------------------------------------
(* The inductive invariant                                                 *)

(* The form, a stored submission or one on its way bears version v with    *)
(* schema s.                                                               *)
Stamp(v, s) ==
    \/ v = form.schema_version /\ s = form.schema
    \/ \E p \in Submitters : /\ submitter[p].pc = "insert"
                             /\ v = submitter[p].version
                             /\ s = submitter[p].schema
    \/ \E b \in Submissions : /\ stored[b].life = "stored"
                              /\ v = stored[b].version /\ s = stored[b].schema

(* No stamp is ahead of the form, and a version is that of one schema.     *)
StampInv ==
    form.exists /\ "updates" \notin raced =>
        \A v \in 1..MaxVersion, s \in Schemas :
            Stamp(v, s) => /\ v <= form.schema_version
                           /\ \A r \in Schemas : Stamp(v, r) => r = s

(* With the form its submissions have gone.                                *)
GoneInv == ~form.exists => \A b \in Submissions : stored[b].life # "stored"

(* What an update that has missed none decided on is still so.             *)
Decides(e) == editor[e].changed
UpdateInv ==
    form.exists =>
        \A e \in Editors :
            editor[e].pc = "update" /\ "update" \notin editor[e].missed =>
                (Decides(e) <=> editor[e].schema # form.schema)

(* A published form has no file field; what an update or a publication     *)
(* that has missed nothing is about to write leaves it so.                 *)
PublishInv ==
    form.exists /\ "publish" \notin raced =>
        /\ form.status = "published" => form.schema \notin FileSchemas
        /\ \A e \in Editors :
             /\ /\ editor[e].pc = "update" /\ "publish" \notin editor[e].missed
                /\ form.status = "published"
                => editor[e].schema \notin FileSchemas
             /\ editor[e].pc = "publish" /\ "update" \notin editor[e].missed
                => form.schema \notin FileSchemas

FormsInv == TypeOK /\ StampInv /\ GoneInv /\ UpdateInv /\ PublishInv

(* At most one slot runs the export.                                       *)
ExporterInv ==
    \A e, f \in Editors :
        editor[e].pc = "export" /\ editor[f].pc = "export" => e = f

(* Before the first page nothing has been sent and nothing is owed.        *)
StartInv ==
    export.pc \in {"none", "keys"} =>
        export.sent = <<>> /\ export.due = {} /\ export.after = <<0, 0>>

(* The rows owed are stored, and their answers have columns.               *)
DueInv ==
    \A b \in export.due :
        /\ stored[b].life = "stored"
        /\ export.format = "csv" => KeysOf[stored[b].schema] \subseteq export.columns

(* The rows sent ascend and end at the cursor, no row owed is left behind  *)
(* it, and none is ahead of it at the end.                                 *)
Behind(b) == ~After(Position(b), export.after)
Sent(b) == \E i \in DOMAIN export.sent : export.sent[i] = b
PageInv ==
    /\ \A i, j \in DOMAIN export.sent :
         i < j => After(Position(export.sent[j]), Position(export.sent[i]))
    /\ \A i \in DOMAIN export.sent : Behind(export.sent[i])
    /\ \A b \in export.due : Behind(b) => Sent(b)
    /\ export.pc = "closing" => \A b \in export.due : Behind(b)

IInv == FormsInv /\ ExportTypeOK /\ ExporterInv /\ StartInv /\ DueInv /\ PageInv

-----------------------------------------------------------------------------
(* The records                                                             *)

LEMMA PlainFacts == Plain \in Schemas /\ Plain \notin FileSchemas
BY FormsAssumption DEF Plain

LEMMA IdleFacts ==
    /\ IdleEditor \in Editor /\ IdleEditor.pc = "free"
    /\ IdleSubmitter \in Submitter /\ IdleSubmitter.pc = "free"
    /\ NoSubmission \in Submission /\ NoSubmission.life = "unused"
    /\ Gone \in Submission /\ Gone.life = "gone"
<1>1. 1 \in 1..MaxVersion
  BY FormsAssumption
<1>2. FALSE \in BOOLEAN /\ {} \in SUBSET {"update", "publish"}
  BY Zenon
<1>3. IdleEditor \in Editor /\ IdleEditor.pc = "free"
  BY <1>2, PlainFacts, Zenon DEF IdleEditor, Editor
<1>4. IdleSubmitter \in Submitter /\ IdleSubmitter.pc = "free"
  BY <1>1, PlainFacts DEF IdleSubmitter, Submitter
<1>5. NoSubmission \in Submission /\ NoSubmission.life = "unused"
  BY <1>1, PlainFacts DEF NoSubmission, Submission
<1>6. Gone \in Submission /\ Gone.life = "gone"
  BY <1>5 DEF Gone, Submission
<1> QED BY <1>3, <1>4, <1>5, <1>6

Exists == form.exists

LEMMA FormFields ==
    ASSUME TypeOK
    PROVE  /\ form \in FormRecord /\ form.schema \in Schemas
           /\ form.schema_version \in 1..MaxVersion /\ form.schema_version \in Nat
           /\ form.status \in FormStatus /\ form.public_id \in 1..MaxLinks
           /\ form.exists \in BOOLEAN
<1>1. form \in FormRecord
  BY DEF TypeOK
<1>2. /\ form.schema \in Schemas /\ form.schema_version \in 1..MaxVersion
      /\ form.status \in FormStatus /\ form.public_id \in 1..MaxLinks
      /\ form.exists \in BOOLEAN
  BY <1>1, Zenon DEF FormRecord
<1>3. form.schema_version \in Nat
  BY <1>2, FormsAssumption
<1> QED BY <1>1, <1>2, <1>3

LEMMA EditorFields ==
    ASSUME TypeOK, NEW e \in Editors
    PROVE  /\ editor[e] \in Editor /\ editor[e].schema \in Schemas
           /\ editor[e].changed \in BOOLEAN
           /\ editor[e].missed \in SUBSET {"update", "publish"}
           /\ editor[e].pc \in {"free", "update", "publish", "close", "rotate",
                                "delete", "export"}
<1>1. editor[e] \in Editor
  BY DEF TypeOK
<1> QED BY <1>1, Zenon DEF Editor

LEMMA SubmitterFields ==
    ASSUME TypeOK, NEW p \in Submitters
    PROVE  submitter[p].schema \in Schemas /\ submitter[p].version \in 1..MaxVersion
BY DEF TypeOK, Submitter

-----------------------------------------------------------------------------
(* What an operation of the organization does to the slots                 *)

Writes == {"update", "publish"}

LEMMA DecideStep ==
    ASSUME TypeOK, NEW e \in Editors,
           NEW to \in {"update", "publish", "close", "rotate", "delete"},
           NEW s \in Schemas, NEW c \in BOOLEAN, Decide(e, to, s, c)
    PROVE  /\ editor' \in [Editors -> Editor] /\ Exists
           /\ editor[e].pc = "free"
           /\ editor'[e].pc = to /\ editor'[e].schema = s
           /\ editor'[e].missed = {} /\ editor'[e].changed = c
           /\ \A o \in Editors \ {e} : editor'[o] = editor[o]
           /\ UNCHANGED <<form, submitter, stored, raced>>
<1> DEFINE x == [pc |-> to, schema |-> s, changed |-> c, missed |-> {}]
<1>1. /\ x \in Editor /\ x.pc = to /\ x.schema = s /\ x.missed = {}
      /\ x.changed = c
  BY Zenon DEF Editor
<1>2. editor' = [editor EXCEPT ![e] = x]
  BY Zenon DEF Decide
<1> HIDE DEF x
<1>3. /\ editor' \in [Editors -> Editor] /\ editor'[e] = x
      /\ \A o \in Editors \ {e} : editor'[o] = editor[o]
  BY <1>1, <1>2, Zenon DEF TypeOK
<1>4. /\ UNCHANGED <<form, submitter, stored, raced>> /\ Exists
      /\ editor[e].pc = "free"
  BY Zenon DEF Decide, Exists
<1> QED BY <1>1, <1>3, <1>4, Zenon

(* What operation o has missed after another finished its write.           *)
Missed(o, at) ==
    IF at \in Writes /\ editor[o].pc \in Writes
    THEN editor[o].missed \cup {at} ELSE editor[o].missed

LEMMA FinishStep ==
    ASSUME TypeOK, NEW e \in Editors, NEW at \in {"update", "publish", "close",
           "rotate", "delete"}, Finish(e, at)
    PROVE  /\ editor' \in [Editors -> Editor] /\ editor[e].pc = at
           /\ editor'[e].pc = "free"
           /\ \A o \in Editors \ {e} :
                /\ editor'[o].pc = editor[o].pc
                /\ editor'[o].schema = editor[o].schema
                /\ editor'[o].changed = editor[o].changed
                /\ editor'[o].missed = Missed(o, at)
           /\ raced' \in SUBSET DOMAIN Races /\ raced \subseteq raced'
           /\ \A k \in DOMAIN Races : \A m \in editor[e].missed :
                <<at, m>> \in Races[k] => k \in raced'
           /\ UNCHANGED submitter
<1>1. ASSUME NEW o \in Editors \ {e}
      PROVE  /\ editor'[o] \in Editor
             /\ editor'[o].pc = editor[o].pc
             /\ editor'[o].schema = editor[o].schema
             /\ editor'[o].changed = editor[o].changed
             /\ editor'[o].missed = Missed(o, at)
  <2>1. CASE at \in Writes /\ editor[o].pc \in Writes
    <3>1. editor'[o] = [editor[o] EXCEPT !.missed = @ \cup {at}]
      <4>1. o \in Editors /\ o # e /\ {at, editor[o].pc} \subseteq {"update", "publish"}
        BY <2>1 DEF Writes
      <4> QED BY <4>1 DEF Finish
    <3> DEFINE m == editor[o].missed \cup {at}
    <3>2. m \in SUBSET {"update", "publish"} /\ editor[o] \in Editor
      BY <2>1, EditorFields DEF Writes
    <3>3. editor'[o] = [editor[o] EXCEPT !.missed = m]
      BY <3>1
    <3>4. Missed(o, at) = m
      BY <2>1 DEF Missed
    <3> HIDE DEF m
    <3> QED BY <3>2, <3>3, <3>4, Zenon DEF Editor
  <2>2. CASE ~(at \in Writes /\ editor[o].pc \in Writes)
    <3>1. editor'[o] = editor[o]
      <4>1. o \in Editors /\ o # e /\ ~({at, editor[o].pc} \subseteq {"update", "publish"})
        BY <2>2 DEF Writes
      <4> QED BY <4>1 DEF Finish
    <3> QED BY <2>2, <3>1, EditorFields DEF Missed
  <2> QED BY <2>1, <2>2
<1>2. editor'[e] = IdleEditor /\ editor[e].pc = at
  BY DEF Finish
<1>3. editor' \in [Editors -> Editor]
  <2>1. DOMAIN editor' = Editors /\ editor' = [o \in Editors |-> editor'[o]]
    BY DEF Finish
  <2>2. \A o \in Editors : editor'[o] \in Editor
    BY <1>1, <1>2, IdleFacts
  <2> QED BY <2>1, <2>2
<1>4. /\ raced' \in SUBSET DOMAIN Races /\ raced \subseteq raced'
      /\ \A k \in DOMAIN Races : \A m \in editor[e].missed :
           <<at, m>> \in Races[k] => k \in raced'
  <2>1. raced' = raced \cup {k \in DOMAIN Races :
                               \E m \in editor[e].missed : <<at, m>> \in Races[k]}
    BY DEF Finish
  <2> QED BY <2>1, Zenon DEF TypeOK
<1> QED BY <1>1, <1>2, <1>3, <1>4, IdleFacts DEF Finish

(* The overtakings that are recorded.                                      *)
LEMMA RacesFacts ==
    /\ "updates" \in DOMAIN Races /\ "publish" \in DOMAIN Races
    /\ <<"update", "update">> \in Races["updates"]
    /\ <<"update", "publish">> \in Races["publish"]
    /\ <<"publish", "update">> \in Races["publish"]
BY DEF Races

-----------------------------------------------------------------------------
(* What a write does to the form                                           *)

(* The fields of the form that the promises are about.                     *)
SameForm == /\ form'.schema = form.schema
            /\ form'.schema_version = form.schema_version
            /\ (Exists' <=> Exists)

LEMMA Redefines ==
    ASSUME TypeOK, NEW s \in Schemas, NEW v \in 1..MaxVersion,
           form' = [form EXCEPT !.schema = s, !.schema_version = v]
    PROVE  /\ form' \in FormRecord /\ form'.schema = s
           /\ form'.schema_version = v /\ form'.status = form.status
           /\ (Exists' <=> Exists)
BY FormFields, Zenon DEF FormRecord, Exists

LEMMA Publishes ==
    ASSUME TypeOK, NEW st \in FormStatus,
           form' = [form EXCEPT !.status = IF form.exists THEN st ELSE @]
    PROVE  /\ form' \in FormRecord /\ SameForm
           /\ Exists => form'.status = st
<1>1. CASE Exists
  <2>1. form' = [form EXCEPT !.status = st]
    BY <1>1, FormFields, Zenon DEF Exists, FormRecord
  <2> QED BY <2>1, FormFields, Zenon DEF FormRecord, Exists, SameForm
<1>2. CASE ~Exists
  <2>1. form' = [form EXCEPT !.status = form.status]
    BY <1>2, FormFields, Zenon DEF Exists, FormRecord
  <2> QED BY <1>2, <2>1, FormFields, Zenon DEF FormRecord, Exists, SameForm
<1> QED BY <1>1, <1>2

LEMMA Relinks ==
    ASSUME TypeOK, form.public_id < MaxLinks,
           form' = [form EXCEPT !.public_id = IF form.exists THEN @ + 1 ELSE @]
    PROVE  form' \in FormRecord /\ SameForm /\ form'.status = form.status
<1> DEFINE n == IF form.exists THEN form.public_id + 1 ELSE form.public_id
<1>1. form.public_id + 1 \in 1..MaxLinks /\ form.public_id \in 1..MaxLinks
  BY FormFields, FormsAssumption
<1>2. n \in 1..MaxLinks
  BY <1>1, Zenon
<1>3. form' = [form EXCEPT !.public_id = n]
  BY FormFields, Zenon DEF FormRecord
<1> HIDE DEF n
<1> QED BY <1>2, <1>3, FormFields, Zenon DEF FormRecord, Exists, SameForm

LEMMA Deletes ==
    ASSUME TypeOK, form' = [form EXCEPT !.exists = FALSE]
    PROVE  form' \in FormRecord /\ ~Exists'
BY FormFields, Zenon DEF FormRecord, Exists

-----------------------------------------------------------------------------
(* The stamps                                                              *)

LEMMA StampKept ==
    ASSUME TypeOK, StampInv, form'.schema_version = form.schema_version,
           Exists' => Exists, raced \subseteq raced',
           \A v \in 1..MaxVersion, s \in Schemas : Stamp(v, s)' => Stamp(v, s)
    PROVE  StampInv'
<1> SUFFICES ASSUME Exists', "updates" \notin raced',
                    NEW v \in 1..MaxVersion, NEW s \in Schemas, Stamp(v, s)'
             PROVE  /\ v <= form'.schema_version
                    /\ \A r \in Schemas : Stamp(v, r)' => r = s
  BY Zenon DEF StampInv, Exists
<1>1. Exists /\ "updates" \notin raced /\ Stamp(v, s)
  BY Zenon
<1>2. v <= form.schema_version /\ \A r \in Schemas : Stamp(v, r) => r = s
  BY <1>1, Zenon DEF StampInv, Exists
<1> QED BY <1>2

(* Neither a write that keeps the definition nor a decision makes a stamp. *)
LEMMA StampSame ==
    ASSUME TypeOK, StampInv, SameForm, UNCHANGED <<submitter, stored>>,
           raced \subseteq raced'
    PROVE  StampInv'
<1>1. ASSUME NEW v \in 1..MaxVersion, NEW s \in Schemas, Stamp(v, s)'
      PROVE  Stamp(v, s)
  BY <1>1, Zenon DEF Stamp, SameForm
<1>2. form'.schema_version = form.schema_version /\ (Exists' => Exists)
  BY Zenon DEF SameForm
<1> QED BY <1>1, <1>2, StampKept

(* The version replace_definition writes.                                  *)
NextVersion(e) == IF editor[e].changed THEN form.schema_version + 1
                  ELSE form.schema_version

LEMMA Replaces ==
    ASSUME TypeOK, NEW e \in Editors, replace_definition(e)
    PROVE  /\ Finish(e, "update") /\ UNCHANGED stored
           /\ NextVersion(e) \in 1..MaxVersion
           /\ \/ /\ Exists /\ Exists' /\ form' \in FormRecord
                 /\ form'.schema = editor[e].schema
                 /\ form'.schema_version = NextVersion(e)
                 /\ form'.status = form.status
              \/ ~Exists /\ UNCHANGED form
<1>1. /\ Finish(e, "update") /\ UNCHANGED stored /\ NextVersion(e) <= MaxVersion
      /\ \/ /\ Exists
            /\ form' = [form EXCEPT !.schema = editor[e].schema,
                                    !.schema_version = NextVersion(e)]
         \/ ~Exists /\ UNCHANGED form
  BY Zenon DEF replace_definition, NextVersion, Exists
<1>2. NextVersion(e) \in 1..MaxVersion
  <2>1. NextVersion(e) \in {form.schema_version, form.schema_version + 1}
    BY Zenon DEF NextVersion
  <2> QED BY <1>1, <2>1, FormFields, FormsAssumption
<1>3. CASE Exists
  <2>1. form' = [form EXCEPT !.schema = editor[e].schema,
                             !.schema_version = NextVersion(e)]
    BY <1>1, <1>3, Zenon
  <2> QED BY <1>1, <1>2, <1>3, <2>1, EditorFields, Redefines
<1> QED BY <1>1, <1>2, <1>3, Zenon

LEMMA StampReplaced ==
    ASSUME TypeOK, StampInv, UpdateInv, NEW e \in Editors, replace_definition(e)
    PROVE  StampInv'
<1>1. /\ Finish(e, "update") /\ UNCHANGED <<stored, submitter>>
      /\ raced \subseteq raced' /\ editor[e].pc = "update"
      /\ \A k \in DOMAIN Races : \A m \in editor[e].missed :
           <<"update", m>> \in Races[k] => k \in raced'
  BY Replaces, FinishStep
<1> SUFFICES ASSUME Exists', "updates" \notin raced' PROVE StampInv'
  BY Zenon DEF StampInv, Exists
<1>2. "update" \notin editor[e].missed /\ "updates" \notin raced
  BY <1>1, RacesFacts
<1>3. /\ Exists /\ form'.schema = editor[e].schema
      /\ form'.schema_version = NextVersion(e)
  BY Replaces, Zenon DEF Exists
<1>4. Decides(e) <=> editor[e].schema # form.schema
  BY <1>1, <1>2, <1>3, Zenon DEF UpdateInv, Exists
<1>5. CASE ~Decides(e)
  <2>1. NextVersion(e) = form.schema_version /\ editor[e].schema = form.schema
    BY <1>4, <1>5, Zenon DEF NextVersion, Decides
  <2>2. SameForm
    BY <1>3, <2>1, Zenon DEF SameForm
  <2> QED BY <1>1, <2>2, StampSame
<1>6. CASE Decides(e)
  <2>1. form'.schema_version = form.schema_version + 1
    BY <1>3, <1>6, Zenon DEF NextVersion, Decides
  <2>2. ASSUME NEW v \in 1..MaxVersion, NEW s \in Schemas, Stamp(v, s)'
        PROVE  \/ Stamp(v, s) /\ v <= form.schema_version
               \/ v = form'.schema_version /\ s = form'.schema
    <3>1. Stamp(v, s) \/ (v = form'.schema_version /\ s = form'.schema)
      BY <1>1, <2>2, Zenon DEF Stamp
    <3> QED BY <1>2, <1>3, <3>1, Zenon DEF StampInv, Exists
  <2>3. ASSUME NEW v \in 1..MaxVersion, NEW s \in Schemas, Stamp(v, s)',
               NEW r \in Schemas, Stamp(v, r)'
        PROVE  v <= form'.schema_version /\ r = s
    <3>1. ASSUME v <= form.schema_version, Stamp(v, s), Stamp(v, r)
          PROVE  r = s
      BY <1>2, <1>3, <3>1, Zenon DEF StampInv, Exists
    <3>2. v <= form.schema_version => v # form'.schema_version
      BY <2>1, FormFields
    <3>3. r = s
      BY <2>2, <2>3, <3>1, <3>2, Zenon
    <3> QED BY <2>1, <2>2, <2>3, <3>3, FormFields
  <2> QED BY <2>3, Zenon DEF StampInv
<1> QED BY <1>5, <1>6

LEMMA StampSubmitted ==
    ASSUME TypeOK, StampInv, NEW p \in Submitters, NEW link, submit(p, link)
    PROVE  StampInv' /\ submitter' \in [Submitters -> Submitter]
<1> DEFINE x == [pc |-> "insert", schema |-> form.schema,
                 version |-> form.schema_version]
<1>1. x \in Submitter /\ x.schema = form.schema /\ x.version = form.schema_version
  BY FormFields DEF Submitter
<1>2. submitter' = [submitter EXCEPT ![p] = x]
      /\ UNCHANGED <<form, editor, stored, raced>>
  BY DEF submit
<1> HIDE DEF x
<1>3. /\ submitter' \in [Submitters -> Submitter] /\ submitter'[p] = x
      /\ \A o \in Submitters \ {p} : submitter'[o] = submitter[o]
  BY <1>1, <1>2, Zenon DEF TypeOK
<1>4. ASSUME NEW v \in 1..MaxVersion, NEW s \in Schemas, Stamp(v, s)'
      PROVE  Stamp(v, s)
  BY <1>1, <1>2, <1>3, <1>4 DEF Stamp
<1>5. form'.schema_version = form.schema_version /\ (Exists' => Exists)
      /\ raced \subseteq raced'
  BY <1>2, Zenon DEF Exists
<1> QED BY <1>3, <1>4, <1>5, StampKept

LEMMA StampInserted ==
    ASSUME TypeOK, StampInv, GoneInv, NEW p \in Submitters,
           NEW b \in Submissions, insert(p, b)
    PROVE  /\ StampInv' /\ GoneInv' /\ submitter' \in [Submitters -> Submitter]
           /\ stored' \in [Submissions -> Submission] /\ stored[b].life = "unused"
           /\ \A c \in Submissions \ {b} : stored'[c] = stored[c]
<1> DEFINE x == [life |-> "stored", schema |-> submitter[p].schema,
                 version |-> submitter[p].version]
           y == IF form.exists THEN x ELSE stored[b]
<1>1. /\ x \in Submission /\ x.schema = submitter[p].schema
      /\ x.version = submitter[p].version
  BY SubmitterFields DEF Submission
<1>2. /\ submitter' = [submitter EXCEPT ![p] = IdleSubmitter]
      /\ submitter[p].pc = "insert" /\ stored[b].life = "unused"
      /\ UNCHANGED <<form, editor, raced>>
  BY Zenon DEF insert
<1>3. stored' = [stored EXCEPT ![b] = y]
  BY Zenon DEF insert, TypeOK
<1>4. y \in Submission /\ (Exists => y = x) /\ (~Exists => y = stored[b])
  <2>1. stored[b] \in Submission
    BY DEF TypeOK
  <2> HIDE DEF x
  <2> QED BY <1>1, <2>1, Zenon DEF Exists
<1> HIDE DEF x, y
<1>5. /\ submitter' \in [Submitters -> Submitter] /\ submitter'[p] = IdleSubmitter
      /\ \A o \in Submitters \ {p} : submitter'[o] = submitter[o]
  BY <1>2, IdleFacts, Zenon DEF TypeOK
<1>6. /\ stored' \in [Submissions -> Submission] /\ stored'[b] = y
      /\ \A c \in Submissions \ {b} : stored'[c] = stored[c]
  BY <1>3, <1>4, Zenon DEF TypeOK
<1>7. ASSUME NEW v \in 1..MaxVersion, NEW s \in Schemas, Stamp(v, s)'
      PROVE  Stamp(v, s)
  <2>1. stored'[b] = x \/ stored'[b] = stored[b]
    BY <1>4, <1>6, Zenon
  <2> QED BY <1>1, <1>2, <1>5, <1>6, <1>7, <2>1, IdleFacts DEF Stamp
<1>8. form'.schema_version = form.schema_version /\ (Exists' <=> Exists)
      /\ raced \subseteq raced'
  BY <1>2, Zenon DEF Exists
<1>9. StampInv'
  BY <1>7, <1>8, StampKept
<1>10. GoneInv'
  <2>1. ~Exists => \A c \in Submissions : stored'[c] = stored[c]
    BY <1>4, <1>6, Zenon
  <2> QED BY <1>8, <2>1, Zenon DEF GoneInv, Exists
<1> QED BY <1>2, <1>5, <1>6, <1>9, <1>10

(* Rows that go take their stamps with them.                               *)
LEMMA StampForgotten ==
    ASSUME TypeOK, StampInv, GoneInv, NEW b \in Submissions, delete_submission(b)
    PROVE  /\ StampInv' /\ GoneInv' /\ stored' \in [Submissions -> Submission]
           /\ stored'[b].life = "gone"
           /\ \A c \in Submissions \ {b} : stored'[c] = stored[c]
<1>1. /\ stored' = [stored EXCEPT ![b] = Gone]
      /\ UNCHANGED <<form, editor, submitter, raced>>
  BY DEF delete_submission
<1>2. /\ stored' \in [Submissions -> Submission] /\ stored'[b] = Gone
      /\ \A c \in Submissions \ {b} : stored'[c] = stored[c]
  BY <1>1, IdleFacts, Zenon DEF TypeOK
<1>3. ASSUME NEW v \in 1..MaxVersion, NEW s \in Schemas, Stamp(v, s)'
      PROVE  Stamp(v, s)
  BY <1>1, <1>2, <1>3, IdleFacts DEF Stamp
<1>4. form'.schema_version = form.schema_version /\ (Exists' <=> Exists)
      /\ raced \subseteq raced'
  BY <1>1, Zenon DEF Exists
<1>5. \A c \in Submissions : stored'[c].life = "stored" => stored[c].life = "stored"
  BY <1>2, IdleFacts
<1>6. GoneInv'
  BY <1>4, <1>5, Zenon DEF GoneInv, Exists
<1> QED BY <1>2, <1>3, <1>4, <1>6, IdleFacts, StampKept

LEMMA RowDeleted ==
    ASSUME TypeOK, NEW e \in Editors, DeleteRow(e)
    PROVE  /\ StampInv' /\ GoneInv' /\ UpdateInv' /\ PublishInv'
           /\ stored' \in [Submissions -> Submission] /\ form' \in FormRecord
           /\ \A c \in Submissions : stored'[c].life # "stored"
<1>1. /\ form' = [form EXCEPT !.exists = FALSE]
      /\ stored' = [b \in Submissions |->
                      IF stored[b].life = "stored" THEN Gone ELSE stored[b]]
  BY DEF DeleteRow
<1>2. ~Exists' /\ form' \in FormRecord
  BY <1>1, Deletes
<1>3. \A c \in Submissions : stored'[c] \in Submission /\ stored'[c].life # "stored"
  BY <1>1, IdleFacts DEF TypeOK
<1>4. stored' \in [Submissions -> Submission]
  BY <1>1, <1>3
<1> QED BY <1>2, <1>3, <1>4, Zenon
        DEF StampInv, GoneInv, UpdateInv, PublishInv, Exists

-----------------------------------------------------------------------------
(* Definitions and publications                                            *)

(* Operation o goes on with what it has decided.                           *)
Carried(o) == /\ editor'[o].pc = editor[o].pc
              /\ editor'[o].schema = editor[o].schema
              /\ editor'[o].changed = editor[o].changed
              /\ editor[o].missed \subseteq editor'[o].missed

LEMMA CarriedOn ==
    ASSUME TypeOK, NEW e \in Editors,
           NEW at \in {"update", "publish", "close", "rotate", "delete"},
           Finish(e, at), NEW o \in Editors, editor'[o].pc \in Writes
    PROVE  /\ o # e /\ Carried(o)
           /\ at \in Writes => at \in editor'[o].missed
<1>1. o # e
  BY FinishStep DEF Writes
<1>2. /\ editor'[o].pc = editor[o].pc /\ editor'[o].schema = editor[o].schema
      /\ editor'[o].changed = editor[o].changed
      /\ editor'[o].missed = Missed(o, at)
  BY <1>1, FinishStep
<1>3. editor[o].missed \subseteq Missed(o, at)
  BY DEF Missed
<1>4. at \in Writes => at \in Missed(o, at)
  BY <1>2 DEF Missed
<1> QED BY <1>1, <1>2, <1>3, <1>4, Zenon DEF Carried

LEMMA UpdateKept ==
    ASSUME UpdateInv, form'.schema = form.schema, Exists' => Exists,
           \A o \in Editors : editor'[o].pc = "update" => Carried(o)
    PROVE  UpdateInv'
<1> SUFFICES ASSUME Exists', NEW o \in Editors, editor'[o].pc = "update",
                    "update" \notin editor'[o].missed
             PROVE  Decides(o)' <=> editor'[o].schema # form'.schema
  BY Zenon DEF UpdateInv, Exists
<1>1. /\ Exists /\ editor[o].pc = "update" /\ "update" \notin editor[o].missed
      /\ editor'[o].schema = editor[o].schema
      /\ editor'[o].changed = editor[o].changed
  BY Zenon DEF Carried
<1>2. Decides(o)' <=> Decides(o)
  BY <1>1, Zenon DEF Decides
<1>3. Decides(o) <=> editor[o].schema # form.schema
  BY <1>1, Zenon DEF UpdateInv, Exists
<1> QED BY <1>1, <1>2, <1>3, Zenon

LEMMA PublishKept ==
    ASSUME PublishInv, form'.schema = form.schema, Exists' => Exists,
           raced \subseteq raced',
           form'.status = "published" => form.status = "published",
           \A o \in Editors : editor'[o].pc \in Writes => Carried(o)
    PROVE  PublishInv'
<1> SUFFICES ASSUME Exists', "publish" \notin raced' PROVE PublishInv'
  BY Zenon DEF PublishInv, Exists
<1>1. /\ form.status = "published" => form.schema \notin FileSchemas
      /\ \A e \in Editors :
           /\ /\ editor[e].pc = "update" /\ "publish" \notin editor[e].missed
              /\ form.status = "published"
              => editor[e].schema \notin FileSchemas
           /\ editor[e].pc = "publish" /\ "update" \notin editor[e].missed
              => form.schema \notin FileSchemas
  BY Zenon DEF PublishInv, Exists
<1>2. ASSUME NEW o \in Editors, editor'[o].pc = "update",
             "publish" \notin editor'[o].missed, form'.status = "published"
      PROVE  editor'[o].schema \notin FileSchemas
  BY <1>1, <1>2 DEF Carried, Writes
<1>3. ASSUME NEW o \in Editors, editor'[o].pc = "publish",
             "update" \notin editor'[o].missed
      PROVE  form'.schema \notin FileSchemas
  BY <1>1, <1>3 DEF Carried, Writes
<1> QED BY <1>1, <1>2, <1>3, Zenon DEF PublishInv

(* The steps that decide or end without writing.                           *)
LEMMA DecideKeeps ==
    ASSUME FormsInv, NEW e \in Editors,
           \/ \E s \in Schemas : update(e, s)
           \/ publish(e) \/ close(e) \/ rotate_public_id(e) \/ delete(e)
    PROVE  FormsInv' /\ UNCHANGED stored
<1>0. TypeOK /\ StampInv /\ GoneInv /\ UpdateInv /\ PublishInv
  BY Zenon DEF FormsInv
<1>1. ASSUME NEW to \in {"update", "publish", "close", "rotate", "delete"},
             NEW s \in Schemas, NEW c \in BOOLEAN, Decide(e, to, s, c),
             to = "update" => /\ c = (s # form.schema)
                              /\ form.status = "published" => s \notin FileSchemas,
             to = "publish" => form.schema \notin FileSchemas
      PROVE  FormsInv' /\ UNCHANGED stored
  <2>1. /\ editor' \in [Editors -> Editor]
        /\ editor'[e].pc = to /\ editor'[e].schema = s
        /\ editor'[e].missed = {} /\ editor'[e].changed = c
        /\ \A o \in Editors \ {e} : editor'[o] = editor[o]
        /\ UNCHANGED <<form, submitter, stored, raced>>
    BY <1>0, <1>1, DecideStep
  <2>2. TypeOK'
    BY <1>0, <2>1, Zenon DEF TypeOK
  <2>3. SameForm
    BY <2>1, Zenon DEF SameForm, Exists
  <2>4. StampInv'
    BY <1>0, <2>1, <2>3, StampSame
  <2>5. GoneInv'
    BY <1>0, <2>1, Zenon DEF GoneInv
  <2>6. UpdateInv'
    <3> SUFFICES ASSUME Exists', NEW o \in Editors, editor'[o].pc = "update",
                        "update" \notin editor'[o].missed
                 PROVE  Decides(o)' <=> editor'[o].schema # form'.schema
      BY Zenon DEF UpdateInv, Exists
    <3>1. CASE o = e
      <4>1. editor'[o].changed = (s # form.schema)
        BY <1>1, <2>1, <3>1, Zenon
      <4> QED BY <2>1, <3>1, <4>1, Zenon DEF Decides
    <3>2. CASE o # e
      <4>1. editor'[o] = editor[o] /\ Exists
        BY <2>1, <3>2, Zenon DEF Exists
      <4>2. Decides(o)' <=> Decides(o)
        BY <4>1, Zenon DEF Decides
      <4> QED BY <1>0, <2>1, <4>1, <4>2, Zenon DEF UpdateInv, Exists
    <3> QED BY <3>1, <3>2
  <2>7. PublishInv'
    <3> SUFFICES ASSUME Exists', "publish" \notin raced' PROVE PublishInv'
      BY Zenon DEF PublishInv, Exists
    <3>1. /\ form.status = "published" => form.schema \notin FileSchemas
          /\ \A o \in Editors :
               /\ /\ editor[o].pc = "update" /\ "publish" \notin editor[o].missed
                  /\ form.status = "published"
                  => editor[o].schema \notin FileSchemas
               /\ editor[o].pc = "publish" /\ "update" \notin editor[o].missed
                  => form.schema \notin FileSchemas
      BY <1>0, <2>1, Zenon DEF PublishInv, Exists
    <3>2. ASSUME NEW o \in Editors
          PROVE  /\ /\ editor'[o].pc = "update"
                    /\ "publish" \notin editor'[o].missed
                    /\ form'.status = "published"
                    => editor'[o].schema \notin FileSchemas
                 /\ editor'[o].pc = "publish" /\ "update" \notin editor'[o].missed
                    => form'.schema \notin FileSchemas
      <4>1. CASE o = e
        BY <1>1, <2>1, <4>1, Zenon
      <4>2. CASE o # e
        BY <2>1, <3>1, <4>2, Zenon
      <4> QED BY <4>1, <4>2
    <3> QED BY <2>1, <3>1, <3>2, Zenon DEF PublishInv
  <2> QED BY <2>1, <2>2, <2>4, <2>5, <2>6, <2>7, Zenon DEF FormsInv
<1>2. ASSUME NEW s \in Schemas, update(e, s) PROVE FormsInv' /\ UNCHANGED stored
  <2>1. (s # form.schema) \in BOOLEAN
    OBVIOUS
  <2>2. Decide(e, "update", s, s # form.schema)
        /\ (form.status = "published" => s \notin FileSchemas)
    BY <1>2, Zenon DEF update, check_schema
  <2> QED BY <1>1, <2>1, <2>2, Zenon
<1>3. ASSUME publish(e) PROVE FormsInv' /\ UNCHANGED stored
  <2>1. Decide(e, "publish", Plain, FALSE) /\ form.schema \notin FileSchemas
    BY <1>3, Zenon DEF publish, check_schema
  <2>2. FALSE \in BOOLEAN /\ "publish" # "update"
    OBVIOUS
  <2> QED BY <1>1, <2>1, <2>2, PlainFacts, Zenon
<1>4. ASSUME close(e) \/ rotate_public_id(e) \/ delete(e)
      PROVE  FormsInv' /\ UNCHANGED stored
  <2>1. \/ Decide(e, "close", Plain, FALSE)
        \/ Decide(e, "rotate", Plain, FALSE)
        \/ Decide(e, "delete", Plain, FALSE)
    BY <1>4, Zenon DEF close, rotate_public_id, delete
  <2>2. FALSE \in BOOLEAN
    OBVIOUS
  <2>3. /\ "close" # "update" /\ "rotate" # "update" /\ "delete" # "update"
        /\ "close" # "publish" /\ "rotate" # "publish" /\ "delete" # "publish"
    OBVIOUS
  <2> QED BY <1>1, <2>1, <2>2, <2>3, PlainFacts, Zenon
<1> QED BY <1>2, <1>3, <1>4

(* A slot is given to the export, or freed by it.                          *)
LEMMA SlotKeeps ==
    ASSUME FormsInv, NEW e \in Editors, NEW x \in Editor,
           x.pc \in {"free", "export"}, editor' = [editor EXCEPT ![e] = x],
           UNCHANGED <<form, submitter, stored, raced>>
    PROVE  FormsInv'
<1>0. TypeOK /\ StampInv /\ GoneInv /\ UpdateInv /\ PublishInv
  BY Zenon DEF FormsInv
<1>1. /\ editor' \in [Editors -> Editor] /\ editor'[e] = x
      /\ \A o \in Editors \ {e} : editor'[o] = editor[o]
  BY <1>0, Zenon DEF TypeOK
<1>2. ASSUME NEW o \in Editors, editor'[o].pc \in Writes PROVE Carried(o)
  <2>1. o # e
    BY <1>1, <1>2 DEF Writes
  <2> QED BY <1>1, <2>1, Zenon DEF Carried
<1>3. TypeOK'
  BY <1>0, <1>1, Zenon DEF TypeOK
<1>4. SameForm /\ form'.status = form.status /\ raced \subseteq raced'
  BY Zenon DEF SameForm, Exists
<1>5. StampInv'
  BY <1>0, <1>4, StampSame
<1>6. GoneInv'
  BY <1>0, Zenon DEF GoneInv
<1>7. "update" \in Writes
  BY DEF Writes
<1>8. UpdateInv' /\ PublishInv'
  BY <1>0, <1>2, <1>4, <1>7, UpdateKept, PublishKept, Zenon DEF SameForm
<1> QED BY <1>3, <1>5, <1>6, <1>8, Zenon DEF FormsInv

(* The steps that write the form.                                          *)
LEMMA ReplaceKeeps ==
    ASSUME FormsInv, NEW e \in Editors, replace_definition(e)
    PROVE  FormsInv' /\ UNCHANGED stored
<1>0. TypeOK /\ StampInv /\ GoneInv /\ UpdateInv /\ PublishInv
  BY Zenon DEF FormsInv
<1>1. /\ Finish(e, "update") /\ UNCHANGED <<stored, submitter>>
      /\ raced \subseteq raced' /\ raced' \in SUBSET DOMAIN Races
      /\ editor' \in [Editors -> Editor] /\ editor[e].pc = "update"
      /\ \A k \in DOMAIN Races : \A m \in editor[e].missed :
           <<"update", m>> \in Races[k] => k \in raced'
  BY <1>0, Replaces, FinishStep
<1>2. ASSUME NEW o \in Editors, editor'[o].pc \in Writes
      PROVE  o # e /\ Carried(o) /\ "update" \in editor'[o].missed
  <2>1. "update" \in Writes
    BY DEF Writes
  <2> QED BY <1>0, <1>1, <1>2, <2>1, CarriedOn
<1>3. TypeOK'
  <2>1. form' \in FormRecord
    BY <1>0, FormFields, Replaces
  <2> QED BY <1>0, <1>1, <2>1, Zenon DEF TypeOK
<1>4. StampInv'
  BY <1>0, StampReplaced
<1>5. Exists' <=> Exists
  BY <1>0, Replaces, Zenon DEF Exists
<1>6. GoneInv'
  BY <1>0, <1>1, <1>5, Zenon DEF GoneInv, Exists
<1>7. UpdateInv'
  <2>1. "update" \in Writes
    BY DEF Writes
  <2> QED BY <1>2, <2>1, Zenon DEF UpdateInv
<1>8. PublishInv'
  <2> SUFFICES ASSUME Exists', "publish" \notin raced' PROVE PublishInv'
    BY Zenon DEF PublishInv, Exists
  <2>1. "publish" \notin editor[e].missed /\ "publish" \notin raced /\ Exists
    BY <1>1, <1>5, RacesFacts
  <2>2. form'.schema = editor[e].schema /\ form'.status = form.status
    BY <1>0, <2>1, Replaces
  <2>3. ASSUME NEW o \in Editors
        PROVE  /\ /\ editor[o].pc = "update" /\ "publish" \notin editor[o].missed
                  /\ form.status = "published"
                  => editor[o].schema \notin FileSchemas
    BY <1>0, <2>1, Zenon DEF PublishInv, Exists
  <2>4. form'.status = "published" => form'.schema \notin FileSchemas
    BY <1>1, <2>1, <2>2, <2>3
  <2>5. ASSUME NEW o \in Editors, editor'[o].pc = "update",
               "publish" \notin editor'[o].missed, form'.status = "published"
        PROVE  editor'[o].schema \notin FileSchemas
    BY <1>2, <2>2, <2>3, <2>5 DEF Carried, Writes
  <2>6. ASSUME NEW o \in Editors, editor'[o].pc = "publish"
        PROVE  "update" \in editor'[o].missed
    BY <1>2, <2>6 DEF Writes
  <2> QED BY <2>4, <2>5, <2>6, Zenon DEF PublishInv
<1> QED BY <1>1, <1>3, <1>4, <1>6, <1>7, <1>8, Zenon DEF FormsInv

LEMMA PublishKeeps ==
    ASSUME FormsInv, NEW e \in Editors, Finish(e, "publish"), UNCHANGED stored,
           form' = [form EXCEPT !.status = IF form.exists THEN "published" ELSE @]
    PROVE  FormsInv'
<1>0. TypeOK /\ StampInv /\ GoneInv /\ UpdateInv /\ PublishInv
  BY Zenon DEF FormsInv
<1>1. /\ UNCHANGED submitter
      /\ raced \subseteq raced' /\ raced' \in SUBSET DOMAIN Races
      /\ editor' \in [Editors -> Editor] /\ editor[e].pc = "publish"
      /\ \A k \in DOMAIN Races : \A m \in editor[e].missed :
           <<"publish", m>> \in Races[k] => k \in raced'
  BY <1>0, FinishStep
<1>2. ASSUME NEW o \in Editors, editor'[o].pc \in Writes
      PROVE  o # e /\ Carried(o) /\ "publish" \in editor'[o].missed
  <2>1. "publish" \in Writes
    BY DEF Writes
  <2> QED BY <1>0, <1>2, <2>1, CarriedOn
<1>3. form' \in FormRecord /\ SameForm
  <2>1. "published" \in FormStatus
    BY DEF FormStatus
  <2> QED BY <1>0, <2>1, Publishes
<1>4. TypeOK'
  BY <1>0, <1>1, <1>3, Zenon DEF TypeOK
<1>5. StampInv'
  BY <1>0, <1>1, <1>3, StampSame
<1>6. GoneInv'
  BY <1>0, <1>3, Zenon DEF GoneInv, SameForm, Exists
<1>7. UpdateInv'
  <2>1. "update" \in Writes
    BY DEF Writes
  <2> QED BY <1>0, <1>2, <1>3, <2>1, UpdateKept, Zenon DEF SameForm
<1>8. PublishInv'
  <2> SUFFICES ASSUME Exists', "publish" \notin raced' PROVE PublishInv'
    BY Zenon DEF PublishInv, Exists
  <2>1. "update" \notin editor[e].missed /\ "publish" \notin raced
    BY <1>1, RacesFacts
  <2>2. Exists /\ form'.schema = form.schema
    BY <1>3, Zenon DEF SameForm
  <2>3. form.schema \notin FileSchemas
    BY <1>0, <1>1, <2>1, <2>2, Zenon DEF PublishInv, Exists
  <2>4. ASSUME NEW o \in Editors, editor'[o].pc = "update"
        PROVE  "publish" \in editor'[o].missed
    BY <1>2, <2>4 DEF Writes
  <2> QED BY <2>2, <2>3, <2>4, Zenon DEF PublishInv
<1> QED BY <1>4, <1>5, <1>6, <1>7, <1>8, Zenon DEF FormsInv

(* Closing and a new link.                                                 *)
LEMMA CloseKeeps ==
    ASSUME FormsInv, NEW e \in Editors, NEW at \in {"close", "rotate"},
           Finish(e, at), UNCHANGED stored, form' \in FormRecord, SameForm,
           Exists => (form'.status = "published" => form.status = "published")
    PROVE  FormsInv'
<1>0. TypeOK /\ StampInv /\ GoneInv /\ UpdateInv /\ PublishInv
  BY Zenon DEF FormsInv
<1>1. /\ UNCHANGED submitter
      /\ raced \subseteq raced' /\ raced' \in SUBSET DOMAIN Races
      /\ editor' \in [Editors -> Editor]
  BY <1>0, FinishStep
<1>2. ASSUME NEW o \in Editors, editor'[o].pc \in Writes PROVE Carried(o)
  BY <1>0, <1>2, CarriedOn
<1>3. TypeOK'
  BY <1>0, <1>1, Zenon DEF TypeOK
<1>4. StampInv'
  BY <1>0, <1>1, StampSame
<1>5. GoneInv'
  BY <1>0, Zenon DEF GoneInv, SameForm, Exists
<1>6. UpdateInv'
  <2>1. "update" \in Writes
    BY DEF Writes
  <2> QED BY <1>0, <1>2, <2>1, UpdateKept, Zenon DEF SameForm
<1>7. PublishInv'
  <2>1. CASE Exists
    BY <1>0, <1>1, <1>2, <2>1, PublishKept, Zenon DEF SameForm
  <2>2. CASE ~Exists
    BY <2>2, Zenon DEF PublishInv, SameForm, Exists
  <2> QED BY <2>1, <2>2
<1> QED BY <1>3, <1>4, <1>5, <1>6, <1>7, Zenon DEF FormsInv

LEMMA WriteKeeps ==
    ASSUME FormsInv, NEW e \in Editors,
           \/ replace_definition(e) \/ set_status(e)
           \/ set_public_id(e) \/ DeleteRow(e)
    PROVE  /\ FormsInv'
           /\ \A b \in Submissions : stored'[b].life = "stored"
                                       => stored'[b] = stored[b]
<1>0. TypeOK
  BY Zenon DEF FormsInv
<1>1. CASE replace_definition(e)
  BY <1>1, ReplaceKeeps
<1>2. CASE set_status(e)
  <2>1. ASSUME Finish(e, "close"), UNCHANGED stored,
               form' = [form EXCEPT !.status = IF form.exists THEN "closed" ELSE @]
        PROVE  FormsInv'
    <3>1. "closed" \in FormStatus
      BY DEF FormStatus
    <3>2. form' \in FormRecord /\ SameForm /\ (Exists => form'.status = "closed")
      BY <1>0, <2>1, <3>1, Publishes
    <3> QED BY <2>1, <3>2, CloseKeeps
  <2> QED BY <1>2, <2>1, PublishKeeps DEF set_status
<1>3. CASE set_public_id(e)
  <2>1. form' \in FormRecord /\ SameForm /\ form'.status = form.status
    BY <1>0, <1>3, Relinks DEF set_public_id
  <2> QED BY <1>3, <2>1, CloseKeeps DEF set_public_id
<1>4. CASE DeleteRow(e)
  <2>1. /\ editor' \in [Editors -> Editor] /\ UNCHANGED submitter
        /\ raced' \in SUBSET DOMAIN Races
    BY <1>0, <1>4, FinishStep DEF DeleteRow
  <2>2. /\ StampInv' /\ GoneInv' /\ UpdateInv' /\ PublishInv'
        /\ stored' \in [Submissions -> Submission] /\ form' \in FormRecord
        /\ \A c \in Submissions : stored'[c].life # "stored"
    BY <1>0, <1>4, RowDeleted
  <2>3. TypeOK'
    BY <1>0, <2>1, <2>2, Zenon DEF TypeOK
  <2> QED BY <2>2, <2>3, Zenon DEF FormsInv
<1> QED BY <1>1, <1>2, <1>3, <1>4

(* The steps of submissions.                                               *)
LEMMA SubmissionKeeps ==
    ASSUME FormsInv,
           \/ \E p \in Submitters : \E link \in 1..MaxLinks : submit(p, link)
           \/ \E p \in Submitters : \E b \in Submissions : insert(p, b)
           \/ \E b \in Submissions : delete_submission(b)
    PROVE  /\ FormsInv' /\ UNCHANGED editor
           /\ \A b \in Submissions :
                stored[b].life = "stored" /\ stored'[b].life = "stored"
                  => stored'[b] = stored[b]
<1>0. TypeOK /\ StampInv /\ GoneInv /\ UpdateInv /\ PublishInv
  BY Zenon DEF FormsInv
<1>1. UNCHANGED <<form, editor, raced>>
  BY Zenon DEF submit, insert, delete_submission
<1>2. UpdateInv' /\ PublishInv'
  BY <1>0, <1>1, Zenon DEF UpdateInv, PublishInv, Decides
<1>3. CASE \E p \in Submitters : \E link \in 1..MaxLinks : submit(p, link)
  <2>1. StampInv' /\ submitter' \in [Submitters -> Submitter] /\ UNCHANGED stored
    BY <1>0, <1>3, StampSubmitted DEF submit
  <2>2. TypeOK' /\ GoneInv'
    BY <1>0, <1>1, <2>1, Zenon DEF TypeOK, GoneInv
  <2> QED BY <1>1, <1>2, <2>1, <2>2, Zenon DEF FormsInv
<1>4. CASE \E p \in Submitters : \E b \in Submissions : insert(p, b)
  <2>1. PICK p \in Submitters, b \in Submissions : insert(p, b)
    BY <1>4
  <2>2. /\ StampInv' /\ GoneInv' /\ submitter' \in [Submitters -> Submitter]
        /\ stored' \in [Submissions -> Submission] /\ stored[b].life = "unused"
        /\ \A c \in Submissions \ {b} : stored'[c] = stored[c]
    BY <1>0, <2>1, StampInserted
  <2>3. TypeOK'
    BY <1>0, <1>1, <2>2, Zenon DEF TypeOK
  <2>4. \A c \in Submissions : stored[c].life = "stored" => stored'[c] = stored[c]
    BY <2>2
  <2> QED BY <1>1, <1>2, <2>2, <2>3, <2>4, Zenon DEF FormsInv
<1>5. CASE \E b \in Submissions : delete_submission(b)
  <2>1. PICK b \in Submissions : delete_submission(b)
    BY <1>5
  <2>2. /\ StampInv' /\ GoneInv' /\ stored' \in [Submissions -> Submission]
        /\ stored'[b].life = "gone" /\ UNCHANGED submitter
        /\ \A c \in Submissions \ {b} : stored'[c] = stored[c]
    BY <1>0, <2>1, StampForgotten DEF delete_submission
  <2>3. TypeOK'
    BY <1>0, <1>1, <2>2, Zenon DEF TypeOK
  <2>4. \A c \in Submissions : stored'[c].life = "stored" => stored'[c] = stored[c]
    BY <2>2
  <2> QED BY <1>1, <1>2, <2>2, <2>3, <2>4, Zenon DEF FormsInv
<1> QED BY <1>3, <1>4, <1>5

(* A step of Forms leaves the slot of an export, and the rows it does not  *)
(* delete, as they are.                                                    *)
LEMMA FormsStep ==
    ASSUME FormsInv, Next
    PROVE  /\ FormsInv'
           /\ \A e \in Editors : editor'[e].pc = "export" <=> editor[e].pc = "export"
           /\ \A b \in Submissions :
                stored[b].life = "stored" /\ stored'[b].life = "stored"
                  => stored'[b] = stored[b]
<1>0. TypeOK
  BY Zenon DEF FormsInv
<1>1. ASSUME NEW e \in Editors,
             \/ \E s \in Schemas : update(e, s)
             \/ publish(e) \/ close(e) \/ rotate_public_id(e) \/ delete(e)
      PROVE  \A o \in Editors : editor'[o].pc = "export" <=> editor[o].pc = "export"
  <2>1. PICK to \in {"update", "publish", "close", "rotate", "delete"},
             s \in Schemas, c \in BOOLEAN : Decide(e, to, s, c)
    <3>1. FALSE \in BOOLEAN /\ \A s \in Schemas : (s # form.schema) \in BOOLEAN
      OBVIOUS
    <3> QED BY <1>1, <3>1, PlainFacts, Zenon
            DEF update, publish, close, rotate_public_id, delete
  <2> QED BY <1>0, <2>1, DecideStep
<1>2. ASSUME NEW e \in Editors,
             \/ replace_definition(e) \/ set_status(e)
             \/ set_public_id(e) \/ DeleteRow(e)
      PROVE  \A o \in Editors : editor'[o].pc = "export" <=> editor[o].pc = "export"
  <2>1. PICK at \in {"update", "publish", "close", "rotate", "delete"} :
          Finish(e, at)
    BY <1>2, Zenon DEF replace_definition, set_status, set_public_id, DeleteRow
  <2> QED BY <1>0, <2>1, FinishStep
<1>3. ASSUME NEW e \in Editors, Edit(e)
      PROVE  /\ FormsInv'
             /\ \A o \in Editors : editor'[o].pc = "export" <=> editor[o].pc = "export"
             /\ \A b \in Submissions :
                  stored[b].life = "stored" /\ stored'[b].life = "stored"
                    => stored'[b] = stored[b]
  <2>1. CASE \/ \E s \in Schemas : update(e, s)
             \/ publish(e) \/ close(e) \/ rotate_public_id(e) \/ delete(e)
    BY <1>1, <2>1, DecideKeeps
  <2>2. CASE \/ replace_definition(e) \/ set_status(e)
             \/ set_public_id(e) \/ DeleteRow(e)
    BY <1>2, <2>2, WriteKeeps
  <2> QED BY <1>3, <2>1, <2>2, Zenon DEF Edit
<1> QED BY <1>3, SubmissionKeeps DEF Next

-----------------------------------------------------------------------------
(* The export                                                              *)

ExportRecord == [pc : {"none", "keys", "page", "closing"},
                 format : {"csv", "json"},
                 columns : SUBSET Keys,
                 after : Cursor,
                 sent : Seq(Submissions),
                 due : SUBSET Submissions]

LEMMA ExportFields ==
    ASSUME export \in ExportRecord
    PROVE  /\ export.pc \in {"none", "keys", "page", "closing"}
           /\ export.format \in {"csv", "json"}
           /\ export.columns \in SUBSET Keys /\ export.after \in Cursor
           /\ export.sent \in Seq(Submissions) /\ export.due \in SUBSET Submissions
BY DEF ExportRecord

LEMMA NoExportFacts ==
    /\ NoExport \in ExportRecord /\ NoExport.pc = "none"
    /\ NoExport.sent = <<>> /\ NoExport.due = {} /\ NoExport.after = <<0, 0>>
<1>1. /\ <<0, 0>> \in Cursor /\ <<>> \in Seq(Submissions)
      /\ {} \in SUBSET Keys /\ {} \in SUBSET Submissions
  BY DEF Cursor
<1> QED BY <1>1, Zenon DEF NoExport, ExportRecord

(* The order of the rows is total.                                         *)
LEMMA AfterOrder ==
    /\ \A x, y, z \in Cursor : ~After(x, y) /\ After(z, y) => After(z, x)
    /\ \A x, y \in Cursor : After(x, y) => ~After(y, x)
    /\ \A x \in Cursor : ~After(x, x)
BY DEF After, Cursor

LEMMA PositionType ==
    ASSUME NEW b \in Submissions
    PROVE  Position(b) \in Cursor /\ After(Position(b), <<0, 0>>)
<1>1. b \in Nat /\ CreatedAt[b] \in Nat /\ CreatedAt[b] > 0
  BY ExportAssumption
<1> QED BY <1>1 DEF Position, Cursor, After

LEMMA ExportIdle ==
    ASSUME export' \in ExportRecord, export'.sent = <<>>, export'.due = {},
           export'.after = <<0, 0>>, export'.pc \in {"none", "keys"}
    PROVE  StartInv' /\ DueInv' /\ PageInv'
<1>1. DOMAIN export'.sent = {}
  OBVIOUS
<1> QED BY <1>1 DEF StartInv, DueInv, PageInv

LEMMA ColumnsType ==
    ASSUME NEW format \in {"csv", "json"}, NEW keys \in SUBSET Keys
    PROVE  /\ Columns(format, keys) \in SUBSET Keys
           /\ format = "csv" => Columns(format, keys) = keys
BY DEF Columns

LEMMA KeysFacts ==
    ASSUME TypeOK
    PROVE  /\ KeysOf[form.schema] \in SUBSET Keys
           /\ distinct_answer_keys \in SUBSET Keys
           /\ \A b \in Stored : KeysOf[stored[b].schema] \subseteq distinct_answer_keys
<1>1. \A b \in Submissions : stored[b].schema \in Schemas
  BY DEF TypeOK, Submission
<1>2. \A s \in Schemas : KeysOf[s] \subseteq Keys
  BY DEF Keys
<1>3. \A b \in Stored : b \in Submissions
  BY DEF Stored
<1> QED BY <1>1, <1>2, <1>3, FormFields DEF distinct_answer_keys

-----------------------------------------------------------------------------
(* Every step of the export keeps the invariant                            *)

LEMMA OpenKeeps ==
    ASSUME IInv, NEW e \in Editors, NEW format \in {"csv", "json"},
           OpenExport(e, format)
    PROVE  IInv'
<1>0. FormsInv /\ TypeOK /\ export.pc = "none" /\ editor[e].pc = "free"
      /\ \A o \in Editors : editor[o].pc # "export"
  BY DEF IInv, FormsInv, ExportTypeOK, OpenExport
<1> DEFINE x == [editor[e] EXCEPT !.pc = "export"]
           c == Columns(format, KeysOf[form.schema])
<1>1. x \in Editor /\ x.pc = "export"
  BY <1>0, EditorFields, Zenon DEF Editor
<1>2. /\ editor' = [editor EXCEPT ![e] = x]
      /\ UNCHANGED <<form, submitter, stored, raced>>
      /\ export' = [NoExport EXCEPT !.pc = "keys", !.format = format,
                                    !.columns = c]
  BY DEF OpenExport
<1>3. c \in SUBSET Keys
  BY <1>0, KeysFacts, ColumnsType
<1> HIDE DEF x, c
<1>4. FormsInv'
  BY <1>0, <1>1, <1>2, SlotKeeps
<1>5. /\ export' \in ExportRecord /\ export'.pc = "keys"
      /\ export'.sent = <<>> /\ export'.due = {} /\ export'.after = <<0, 0>>
  BY <1>2, <1>3, NoExportFacts, Zenon DEF ExportRecord
<1>6. editor'[e] = x /\ \A o \in Editors \ {e} : editor'[o] = editor[o]
  BY <1>0, <1>2, Zenon DEF TypeOK
<1>7. ExporterInv'
  BY <1>0, <1>6 DEF ExporterInv
<1>8. ExportTypeOK'
  <2>1. TypeOK'
    BY <1>4, Zenon DEF FormsInv
  <2>2. editor'[e].pc = "export"
    BY <1>1, <1>6
  <2> QED BY <1>5, <2>1, <2>2 DEF ExportTypeOK, ExportRecord
<1>9. StartInv' /\ DueInv' /\ PageInv'
  BY <1>5, ExportIdle
<1> QED BY <1>4, <1>7, <1>8, <1>9 DEF IInv

LEMMA EndKeeps == ASSUME IInv, NEW e \in Editors, EndExport(e) PROVE IInv'
<1>0. FormsInv /\ TypeOK /\ \A o \in Editors \ {e} : editor[o].pc # "export"
  BY DEF IInv, FormsInv, ExporterInv, EndExport
<1>1. /\ editor' = [editor EXCEPT ![e] = IdleEditor]
      /\ UNCHANGED <<form, submitter, stored, raced>> /\ export' = NoExport
  BY DEF EndExport
<1>2. FormsInv'
  BY <1>0, <1>1, IdleFacts, SlotKeeps
<1>3. editor'[e] = IdleEditor /\ \A o \in Editors \ {e} : editor'[o] = editor[o]
  BY <1>0, <1>1, Zenon DEF TypeOK
<1>4. \A o \in Editors : editor'[o].pc # "export"
  BY <1>0, <1>3, IdleFacts
<1>5. ExportTypeOK'
  <2>1. TypeOK'
    BY <1>2, Zenon DEF FormsInv
  <2> QED BY <1>1, <1>4, <2>1, NoExportFacts DEF ExportTypeOK, ExportRecord
<1>6. StartInv' /\ DueInv' /\ PageInv'
  BY <1>1, NoExportFacts, ExportIdle
<1> QED BY <1>2, <1>4, <1>5, <1>6 DEF IInv, ExporterInv

(* The steps of the task leave Forms alone.                                *)
LEMMA FormsUnchanged ==
    ASSUME IInv, UNCHANGED vars, export' \in ExportRecord,
           export'.pc = "none" <=> export.pc = "none"
    PROVE  FormsInv' /\ ExportTypeOK' /\ ExporterInv'
<1>1. UNCHANGED <<form, editor, submitter, stored, raced>>
  BY DEF vars
<1>2. FormsInv'
  <2>1. TypeOK /\ StampInv /\ GoneInv /\ UpdateInv /\ PublishInv
    BY Zenon DEF IInv, FormsInv
  <2>2. SameForm /\ raced \subseteq raced'
    BY <1>1, Zenon DEF SameForm, Exists
  <2>3. StampInv'
    BY <1>1, <2>1, <2>2, StampSame
  <2>4. TypeOK' /\ GoneInv'
    BY <1>1, <2>1, Zenon DEF TypeOK, GoneInv
  <2>5. UpdateInv' /\ PublishInv'
    BY <1>1, <2>1, Zenon DEF UpdateInv, PublishInv, Decides
  <2> QED BY <2>3, <2>4, <2>5, Zenon DEF FormsInv
<1>3. TypeOK'
  BY <1>2, Zenon DEF FormsInv
<1> QED BY <1>1, <1>2, <1>3 DEF IInv, ExportTypeOK, ExportRecord, ExporterInv

LEMMA ColumnsKeep == ASSUME IInv, AddColumns PROVE IInv'
<1> DEFINE k == export.columns \cup Columns(export.format, distinct_answer_keys)
<1>0. /\ TypeOK /\ export \in ExportRecord /\ export.pc = "keys"
      /\ export.sent = <<>> /\ export.after = <<0, 0>>
  BY DEF IInv, FormsInv, ExportTypeOK, ExportRecord, StartInv, AddColumns
<1>1. /\ export' = [export EXCEPT !.pc = "page", !.due = Stored, !.columns = k]
      /\ UNCHANGED vars
  BY <1>0 DEF AddColumns, ExportRecord
<1>2. k \in SUBSET Keys /\ Stored \in SUBSET Submissions
      /\ (export.format = "csv" => distinct_answer_keys \subseteq k)
  BY <1>0, ExportFields, KeysFacts, ColumnsType DEF Stored
<1> HIDE DEF k
<1>3. /\ export' \in ExportRecord /\ export'.pc = "page" /\ export'.due = Stored
      /\ export'.columns = k /\ export'.format = export.format
      /\ export'.sent = <<>> /\ export'.after = <<0, 0>>
  BY <1>0, <1>1, <1>2, Zenon DEF ExportRecord
<1>4. FormsInv' /\ ExportTypeOK' /\ ExporterInv'
  BY <1>0, <1>1, <1>3, FormsUnchanged
<1>5. StartInv'
  BY <1>3 DEF StartInv
<1>6. DueInv'
  <2>1. UNCHANGED stored
    BY <1>1 DEF vars
  <2>2. ASSUME NEW b \in Stored
        PROVE  /\ stored[b].life = "stored"
               /\ export.format = "csv" => KeysOf[stored[b].schema] \subseteq k
    BY <1>0, <1>2, KeysFacts DEF Stored
  <2> QED BY <1>3, <2>1, <2>2 DEF DueInv
<1>7. PageInv'
  <2>1. DOMAIN export'.sent = {}
    BY <1>3
  <2>2. \A b \in Submissions : ~Behind(b)'
    BY <1>3, PositionType DEF Behind
  <2> QED BY <1>2, <1>3, <2>1, <2>2 DEF PageInv
<1> QED BY <1>4, <1>5, <1>6, <1>7 DEF IInv

LEMMA PageKeeps == ASSUME IInv, SendPage PROVE IInv'
<1>0. /\ TypeOK /\ export \in ExportRecord /\ export.pc = "page"
      /\ UNCHANGED vars /\ DueInv /\ PageInv
  BY DEF IInv, FormsInv, ExportTypeOK, ExportRecord, SendPage
<1>1. PICK batch \in SeqOf(Submissions, EXPORT_BATCH) :
        /\ page_after(export.after, batch)
        /\ \/ /\ batch = <<>>
              /\ export' = [export EXCEPT !.pc = "closing"]
           \/ /\ batch # <<>>
              /\ export' = [export EXCEPT !.sent = @ \o batch,
                                          !.after = Position(Last(batch))]
  BY DEF SendPage
<1>2. batch \in Seq(Submissions)
  BY ExportAssumption DEF SeqOf
<1>3. /\ \A i \in DOMAIN batch : After(Position(batch[i]), export.after)
      /\ \A i, j \in DOMAIN batch :
           i < j => After(Position(batch[j]), Position(batch[i]))
      /\ \A b \in export.due : After(Position(b), export.after) =>
           \/ \E i \in DOMAIN batch : batch[i] = b
           \/ /\ Len(batch) = EXPORT_BATCH
              /\ \A i \in DOMAIN batch : After(Position(b), Position(batch[i]))
  <2>1. \A b \in export.due : b \in Stored
    BY <1>0, ExportFields DEF DueInv, Stored
  <2> QED BY <1>1, <2>1 DEF page_after, FirstPage
<1>4. CASE batch = <<>>
  <2>1. export' = [export EXCEPT !.pc = "closing"]
    BY <1>1, <1>4
  <2>2. /\ export' \in ExportRecord /\ export'.pc = "closing"
        /\ export'.sent = export.sent /\ export'.after = export.after
        /\ export'.due = export.due /\ export'.columns = export.columns
        /\ export'.format = export.format
    BY <1>0, <2>1 DEF ExportRecord
  <2>3. \A b \in export.due : Behind(b)
    BY <1>3, <1>4, ExportAssumption DEF Behind
  <2>4. PageInv'
    BY <1>0, <2>2, <2>3 DEF PageInv, Behind, Sent
  <2>5. DueInv'
    BY <1>0, <2>2 DEF DueInv, vars
  <2>6. FormsInv' /\ ExportTypeOK' /\ ExporterInv'
    BY <1>0, <2>2, FormsUnchanged
  <2> QED BY <2>2, <2>4, <2>5, <2>6 DEF IInv, StartInv
<1>5. CASE batch # <<>>
  <2> DEFINE last == Position(Last(batch))
             sent == export.sent \o batch
             n == Len(export.sent)
             m == Len(batch)
  <2>1. /\ m \in Nat \ {0} /\ DOMAIN batch = 1..m
        /\ \A i \in 1..m : batch[i] \in Submissions
        /\ Last(batch) = batch[m] /\ Last(batch) \in Submissions
    BY <1>2, <1>5 DEF Last
  <2>2. export.sent \in Seq(Submissions) /\ n \in Nat /\ DOMAIN export.sent = 1..n
        /\ \A i \in 1..n : export.sent[i] \in Submissions
    BY <1>0, ExportFields
  <2>3. /\ sent \in Seq(Submissions) /\ DOMAIN sent = 1..(n + m)
        /\ \A i \in 1..n : sent[i] = export.sent[i]
        /\ \A i \in 1..m : sent[n + i] = batch[i]
        /\ \A i \in DOMAIN sent : i \in 1..n \/ \E k \in 1..m : i = n + k
    <3>1. /\ sent \in Seq(Submissions) /\ Len(sent) = n + m
          /\ \A i \in 1..(n + m) :
               sent[i] = IF i <= n THEN export.sent[i] ELSE batch[i - n]
      BY <1>2, <2>2
    <3>2. \A i \in 1..m : n + i \in 1..(n + m) /\ ~(n + i <= n) /\ (n + i) - n = i
      BY <2>1, <2>2
    <3>3. \A i \in 1..n : i \in 1..(n + m) /\ i <= n
      BY <2>1, <2>2
    <3>4. DOMAIN sent = 1..(n + m)
      BY <3>1
    <3>5. ASSUME NEW i \in DOMAIN sent PROVE i \in 1..n \/ \E k \in 1..m : i = n + k
      <4>1. i \in Nat /\ 1 <= i /\ i <= n + m
        BY <2>1, <2>2, <3>4
      <4>2. i > n => i - n \in 1..m /\ i = n + (i - n)
        BY <2>1, <2>2, <4>1
      <4>3. i > n \/ i \in 1..n
        BY <2>2, <4>1
      <4> HIDE DEF n, m
      <4> QED BY <4>2, <4>3, Zenon
    <3> QED BY <3>1, <3>2, <3>3, <3>4, <3>5
  <2>4. /\ last \in Cursor /\ export.after \in Cursor /\ After(last, export.after)
        /\ last = Position(batch[m])
    BY <1>0, <1>3, <2>1, ExportFields, PositionType
  <2>5. export' = [export EXCEPT !.sent = sent, !.after = last]
    BY <1>0, <1>1, <1>5 DEF ExportRecord
  <2> HIDE DEF last, sent
  <2>6. /\ export' \in ExportRecord /\ export'.pc = "page"
        /\ export'.sent = sent /\ export'.after = last
        /\ export'.due = export.due /\ export'.columns = export.columns
        /\ export'.format = export.format
    BY <1>0, <2>3, <2>4, <2>5, Zenon DEF ExportRecord
  <2> HIDE DEF n, m
  <2>7. \A i \in 1..n : ~After(Position(export.sent[i]), export.after)
    BY <1>0, <2>2 DEF PageInv, Behind
  <2>8. ASSUME NEW i \in DOMAIN sent, NEW j \in DOMAIN sent, i < j
        PROVE  After(Position(sent[j]), Position(sent[i]))
    <3>1. CASE i \in 1..n /\ j \in 1..n
      BY <1>0, <2>2, <2>3, <2>8, <3>1 DEF PageInv
    <3>2. ASSUME i \in 1..n, NEW k \in 1..m, j = n + k
          PROVE  After(Position(sent[j]), Position(sent[i]))
      <4>1. sent[i] = export.sent[i] /\ sent[j] = batch[k]
        BY <2>3, <3>2
      <4>2. After(Position(batch[k]), export.after)
            /\ ~After(Position(export.sent[i]), export.after)
        BY <1>3, <2>1, <2>7, <3>2
      <4>3. /\ Position(batch[k]) \in Cursor
            /\ Position(export.sent[i]) \in Cursor
        BY <2>1, <2>2, <3>2, PositionType
      <4> QED BY <2>4, <4>1, <4>2, <4>3, AfterOrder
    <3>3. ASSUME NEW h \in 1..m, i = n + h, NEW k \in 1..m, j = n + k
          PROVE  After(Position(sent[j]), Position(sent[i]))
      <4>1. sent[i] = batch[h] /\ sent[j] = batch[k] /\ h < k
        BY <2>1, <2>2, <2>3, <2>8, <3>3
      <4> QED BY <1>3, <2>1, <4>1
    <3>4. ~(j \in 1..n /\ \E h \in 1..m : i = n + h)
      BY <2>1, <2>2, <2>8
    <3> QED BY <2>3, <3>1, <3>2, <3>3, <3>4
  <2>9. ASSUME NEW i \in DOMAIN sent PROVE ~After(Position(sent[i]), last)
    <3>1. CASE i \in 1..n
      <4>1. /\ sent[i] = export.sent[i] /\ Position(export.sent[i]) \in Cursor
            /\ ~After(Position(export.sent[i]), export.after)
        BY <2>2, <2>3, <2>7, <3>1, PositionType
      <4>2. After(last, Position(sent[i]))
        BY <2>4, <4>1, AfterOrder
      <4> QED BY <2>4, <4>1, <4>2, AfterOrder
    <3>2. ASSUME NEW k \in 1..m, i = n + k PROVE ~After(Position(sent[i]), last)
      <4>1. sent[i] = batch[k] /\ Position(batch[k]) \in Cursor
        BY <2>1, <2>3, <3>2, PositionType
      <4>2. CASE k = m
        BY <2>4, <4>1, <4>2, AfterOrder
      <4>3. CASE k # m
        <5>1. k < m /\ m \in 1..m
          BY <2>1, <4>3
        <5>2. After(last, Position(batch[k]))
          BY <1>3, <2>1, <2>4, <5>1
        <5> QED BY <2>4, <4>1, <5>2, AfterOrder
      <4> QED BY <4>2, <4>3
    <3> QED BY <2>3, <3>1, <3>2
  <2>10. ASSUME NEW b \in export.due, ~After(Position(b), last)
         PROVE  \E i \in DOMAIN sent : sent[i] = b
    <3>1. CASE ~After(Position(b), export.after)
      <4>1. PICK i \in 1..n : export.sent[i] = b
        BY <1>0, <2>2, <3>1 DEF PageInv, Behind, Sent
      <4>2. i \in DOMAIN sent
        BY <2>1, <2>2, <2>3
      <4> QED BY <2>3, <4>1, <4>2
    <3>2. CASE After(Position(b), export.after)
      <4>1. m \in DOMAIN batch
        BY <2>1
      <4>2. PICK i \in 1..m : batch[i] = b
        BY <1>3, <2>1, <2>4, <2>10, <3>2, <4>1
      <4>3. n + i \in DOMAIN sent
        BY <2>1, <2>2, <2>3
      <4> QED BY <2>3, <4>2, <4>3
    <3> QED BY <3>1, <3>2
  <2>11. PageInv'
    BY <2>6, <2>8, <2>9, <2>10 DEF PageInv, Behind, Sent
  <2>12. DueInv'
    BY <1>0, <2>6 DEF DueInv, vars
  <2>13. FormsInv' /\ ExportTypeOK' /\ ExporterInv'
    BY <1>0, <2>6, FormsUnchanged
  <2> QED BY <2>6, <2>11, <2>12, <2>13 DEF IInv, StartInv
<1> QED BY <1>4, <1>5

(* Around an export forms and submissions change.                          *)
LEMMA NextKeeps ==
    ASSUME IInv, Next,
           export' = [export EXCEPT !.due = {b \in @ : stored'[b].life = "stored"}]
    PROVE  IInv'
<1> DEFINE d == {b \in export.due : stored'[b].life = "stored"}
<1>0. FormsInv /\ export \in ExportRecord
  BY DEF IInv, ExportTypeOK, ExportRecord
<1>1. /\ FormsInv'
      /\ \A e \in Editors : editor'[e].pc = "export" <=> editor[e].pc = "export"
      /\ \A b \in Submissions :
           stored[b].life = "stored" /\ stored'[b].life = "stored"
             => stored'[b] = stored[b]
  BY <1>0, FormsStep
<1>2. export' = [export EXCEPT !.due = d] /\ d \in SUBSET Submissions
  BY <1>0, ExportFields DEF ExportRecord
<1>3. d \subseteq export.due /\ \A b \in d : stored'[b].life = "stored"
  OBVIOUS
<1> HIDE DEF d
<1>4. /\ export' \in ExportRecord /\ export'.due = d /\ export'.pc = export.pc
      /\ export'.sent = export.sent /\ export'.after = export.after
      /\ export'.columns = export.columns /\ export'.format = export.format
  BY <1>0, <1>2, Zenon DEF ExportRecord
<1>5. ExportTypeOK'
  <2>1. TypeOK'
    BY <1>1, Zenon DEF FormsInv
  <2> QED BY <1>1, <1>4, <2>1 DEF IInv, ExportTypeOK, ExportRecord
<1>6. ExporterInv'
  BY <1>1 DEF IInv, ExporterInv
<1>7. StartInv'
  BY <1>3, <1>4 DEF IInv, StartInv
<1>8. DueInv'
  <2>1. ASSUME NEW b \in d
        PROVE  /\ stored'[b].life = "stored"
               /\ export.format = "csv" =>
                    KeysOf[stored'[b].schema] \subseteq export.columns
    BY <1>1, <1>2, <1>3 DEF IInv, DueInv
  <2> QED BY <1>4, <2>1 DEF DueInv
<1>9. PageInv'
  BY <1>3, <1>4 DEF IInv, PageInv, Behind, Sent
<1> QED BY <1>1, <1>5, <1>6, <1>7, <1>8, <1>9 DEF IInv

-----------------------------------------------------------------------------
(* The theorems                                                            *)

LEMMA InitInv == ExportInit => IInv
<1> SUFFICES ASSUME ExportInit PROVE IInv
  OBVIOUS
<1>1. PICK s \in Schemas : form = [exists |-> TRUE, status |-> "draft",
                                  schema |-> s, schema_version |-> 1,
                                  public_id |-> 1]
  <2>1. form \in [exists : {TRUE}, status : {"draft"}, schema : Schemas,
                  schema_version : {1}, public_id : {1}]
    BY DEF ExportInit, Init
  <2> QED BY <2>1, Zenon
<1>2. /\ form.schema = s /\ form.schema_version = 1 /\ form.status = "draft"
      /\ form.exists = TRUE
  BY <1>1, Zenon
<1>3. form \in FormRecord
  <2>1. 1 \in 1..MaxVersion /\ 1 \in 1..MaxLinks
    BY FormsAssumption
  <2>2. "draft" \in FormStatus
    BY DEF FormStatus
  <2> QED BY <1>1, <2>1, <2>2, Zenon DEF FormRecord
<1>4. /\ editor = [e \in Editors |-> IdleEditor]
      /\ submitter = [p \in Submitters |-> IdleSubmitter]
      /\ stored = [b \in Submissions |-> NoSubmission]
      /\ raced = {} /\ export = NoExport
  BY DEF ExportInit, Init
<1>5. TypeOK
  BY <1>3, <1>4, IdleFacts, Zenon DEF TypeOK
<1>6. StampInv
  <2>1. \A v, r : Stamp(v, r) => v = 1 /\ r = s
    BY <1>2, <1>4, IdleFacts DEF Stamp
  <2> QED BY <1>2, <2>1 DEF StampInv
<1>7. GoneInv
  BY <1>2, Zenon DEF GoneInv
<1>8. UpdateInv
  BY <1>4, IdleFacts DEF UpdateInv
<1>9. PublishInv
  BY <1>2, <1>4, IdleFacts DEF PublishInv
<1>10. ExportTypeOK /\ ExporterInv
  BY <1>4, <1>5, IdleFacts, NoExportFacts DEF ExportTypeOK, ExportRecord, ExporterInv
<1>11. StartInv /\ DueInv /\ PageInv
  <2>1. DOMAIN export.sent = {}
    BY <1>4, NoExportFacts
  <2> QED BY <1>4, <2>1, NoExportFacts DEF StartInv, DueInv, PageInv
<1> QED BY <1>5, <1>6, <1>7, <1>8, <1>9, <1>10, <1>11, Zenon DEF IInv, FormsInv

LEMMA InductiveStep == IInv /\ [ExportNext]_allVars => IInv'
<1> SUFFICES ASSUME IInv, [ExportNext]_allVars PROVE IInv'
  OBVIOUS
<1>1. CASE UNCHANGED allVars
  <2>1. UNCHANGED vars /\ UNCHANGED export /\ UNCHANGED stored
    BY <1>1 DEF allVars, vars
  <2>2. FormsInv' /\ ExportTypeOK' /\ ExporterInv'
    BY <2>1, FormsUnchanged DEF IInv, ExportTypeOK, ExportRecord
  <2>3. StartInv' /\ DueInv' /\ PageInv'
    BY <2>1 DEF IInv, StartInv, DueInv, PageInv, Behind, Sent
  <2> QED BY <2>2, <2>3 DEF IInv
<1> QED BY <1>1, NextKeeps, OpenKeeps, ColumnsKeep, PageKeeps, EndKeeps
        DEF ExportNext

LEMMA Invariance == ExportSpec => []IInv
BY InitInv, InductiveStep, PTL DEF ExportSpec

(* The form, the slots, the submissions and the export keep their types,   *)
(* for any schemas, any number of slots and any page size.                 *)
THEOREM TypeCorrect == ExportSpec => []ExportTypeOK
<1>1. IInv => ExportTypeOK
  BY DEF IInv
<1> QED BY <1>1, Invariance, PTL

(* replace_definition bumps the version in the statement that writes the   *)
(* schema, and submit stamps what it validated against: whatever is edited *)
(* between a submission's read and its insert, the stamp tells the schema. *)
THEOREM StampsTellSchemas == ExportSpec => []StampTellsSchema
<1>1. IInv => StampTellsSchema
  <2> SUFFICES ASSUME IInv, "updates" \notin raced,
                      NEW a \in Submissions, NEW b \in Submissions,
                      stored[a].life = "stored", stored[b].life = "stored",
                      stored[a].version = stored[b].version
               PROVE  stored[a].schema = stored[b].schema
    BY DEF StampTellsSchema
  <2>1. \A c \in {a, b} : stored[c].version \in 1..MaxVersion
                          /\ stored[c].schema \in Schemas
    BY DEF IInv, FormsInv, TypeOK, Submission
  <2>2. Exists
    BY Zenon DEF IInv, FormsInv, GoneInv, Exists
  <2>3. Stamp(stored[a].version, stored[a].schema)
        /\ Stamp(stored[a].version, stored[b].schema)
    BY Zenon DEF Stamp
  <2>4. StampInv
    BY Zenon DEF IInv, FormsInv
  <2> QED BY <2>1, <2>2, <2>3, <2>4, Zenon DEF StampInv, Exists
<1> QED BY <1>1, Invariance, PTL

(* update checks a published form's schema as one that must be submittable *)
(* and publish checks the schema it read; no order of the two that does    *)
(* not overtake leaves a published form with a file field.                 *)
THEOREM PublishedFormsWork == ExportSpec => []PublishedIsSubmittable
<1>1. IInv => PublishedIsSubmittable
  BY Zenon DEF IInv, FormsInv, PublishInv, PublishedIsSubmittable
<1> QED BY <1>1, Invariance, PTL

(* page_after continues after the last row sent in (created_at, id): for   *)
(* every page size and every number of rows, in whatever order rows appear *)
(* and go, a finished export has each row it owes exactly once.            *)
THEOREM ExportsAreComplete == ExportSpec => []ExportIsComplete
<1>1. IInv => ExportIsComplete
  <2> SUFFICES ASSUME IInv, export.pc = "closing", NEW b \in export.due
               PROVE  \E i \in DOMAIN export.sent :
                        \A j \in DOMAIN export.sent : export.sent[j] = b <=> j = i
    BY DEF ExportIsComplete
  <2>1. PageInv /\ export \in ExportRecord
    BY DEF IInv, ExportTypeOK, ExportRecord
  <2>2. PICK i \in DOMAIN export.sent : export.sent[i] = b
    BY <2>1 DEF PageInv, Sent
  <2>3. ASSUME NEW j \in DOMAIN export.sent, export.sent[j] = b PROVE j = i
    <3>1. b \in Submissions /\ ~After(Position(b), Position(b))
      BY <2>1, ExportFields, PositionType, AfterOrder
    <3>2. i \in Nat /\ j \in Nat
      BY <2>1, ExportFields
    <3>3. ~(i < j) /\ ~(j < i)
      BY <2>1, <2>2, <2>3, <3>1 DEF PageInv
    <3> QED BY <3>2, <3>3
  <2> QED BY <2>2, <2>3
<1> QED BY <1>1, Invariance, PTL

(* distinct_answer_keys is read before the first page: whatever is edited, *)
(* stored or deleted afterwards, the columns of a CSV cover every answer   *)
(* of a row the export owes.                                               *)
THEOREM ExportsCarryAnswers == ExportSpec => []ExportCarriesAnswers
<1>1. IInv => ExportCarriesAnswers
  <2> SUFFICES ASSUME IInv, NEW b \in export.due
               PROVE  Cells(b) = KeysOf[stored[b].schema]
    BY DEF ExportCarriesAnswers
  <2>1. export.format \in {"csv", "json"}
    BY ExportFields DEF IInv, ExportTypeOK, ExportRecord
  <2>2. export.format = "csv" => KeysOf[stored[b].schema] \subseteq export.columns
    BY DEF IInv, DueInv
  <2> QED BY <2>1, <2>2 DEF Cells
<1> QED BY <1>1, Invariance, PTL

-----------------------------------------------------------------------------
(* Validation: what validate_submission keeps of a payload                 *)

(* A payload without its reserved keys.                                    *)
Bared(p) == [key \in DOMAIN p \ ReservedKeys |-> p[key]]

(* Cleaned answers are clean.                                              *)
LEMMA AnswersIdempotent ==
    ASSUME NEW p
    PROVE  Answers(Answers(p)) = Answers(p)
BY DEF Answers

LEMMA AnswersOfBared ==
    ASSUME NEW p
    PROVE  Answers(Bared(p)) = Answers(p)
BY DEF Answers, Bared

(* No field of a definition that validate_schema passed has a reserved     *)
(* key.                                                                    *)
LEMMA FieldsAreNotReserved ==
    ASSUME NEW schema, validate_schema(schema), NEW i \in DOMAIN schema.fields
    PROVE  schema.fields[i].key \notin ReservedKeys
BY ValidationAssumption DEF validate_schema

LEMMA CompleteAnswers ==
    ASSUME NEW schema, NEW p, validate_schema(schema), Complete(schema, p)
    PROVE  Complete(schema, Answers(p))
<1> SUFFICES ASSUME NEW i \in DOMAIN schema.fields, schema.fields[i].required
             PROVE  ~is_absent(Answers(p), schema.fields[i].key)
  BY DEF Complete
<1>1. PICK k : k = schema.fields[i].key
  OBVIOUS
<1>2. k \notin ReservedKeys /\ ~is_absent(p, k)
  BY <1>1, FieldsAreNotReserved DEF Complete
<1>3. ~is_absent(Answers(p), k)
  BY <1>2 DEF is_absent, Answers
<1> QED BY <1>1, <1>3

(* Answers that were accepted are accepted again.                          *)
LEMMA AnswersRevalidate ==
    ASSUME NEW schema, NEW p, validate_schema(schema), validate_submission(schema, p)
    PROVE  validate_submission(schema, Answers(p))
<1>1. ASSUME NEW key \in DOMAIN Answers(p) \ ReservedKeys
      PROVE  Declares(schema, key) /\ check_value(field(schema, key), Answers(p)[key])
  <2>1. key \in DOMAIN p \ ReservedKeys /\ Answers(p)[key] = p[key]
    BY DEF Answers
  <2> QED BY <2>1 DEF validate_submission
<1> QED BY <1>1, CompleteAnswers DEF validate_submission

(* The verdict does not depend on what comes under a reserved key.         *)
LEMMA VerdictOfBared ==
    ASSUME NEW schema, NEW p, validate_schema(schema)
    PROVE  validate_submission(schema, p) <=> validate_submission(schema, Bared(p))
<1>1. ASSUME NEW key
      PROVE  /\ key \in DOMAIN p \ ReservedKeys <=> key \in DOMAIN Bared(p) \ ReservedKeys
             /\ key \in DOMAIN p \ ReservedKeys => Bared(p)[key] = p[key]
  BY DEF Bared
<1>2. ASSUME NEW k, k \notin ReservedKeys
      PROVE  is_absent(p, k) <=> is_absent(Bared(p), k)
  BY <1>2 DEF is_absent, Bared
<1>3. Complete(schema, p) <=> Complete(schema, Bared(p))
  <2>1. ASSUME NEW i \in DOMAIN schema.fields
        PROVE  is_absent(p, schema.fields[i].key) <=> is_absent(Bared(p), schema.fields[i].key)
    <3>1. PICK k : k = schema.fields[i].key
      OBVIOUS
    <3>2. k \notin ReservedKeys
      BY <3>1, FieldsAreNotReserved
    <3> QED BY <3>1, <3>2, <1>2
  <2> QED BY <2>1 DEF Complete
<1> QED BY <1>1, <1>3 DEF validate_submission

-----------------------------------------------------------------------------
(* Validation: the inductive invariant                                     *)

AcceptedAs(s) == [ok |-> TRUE, answers |-> Answers(payload), status |-> s]

(* A payload meets only a definition that was checked, and the outcome is  *)
(* what its verdict makes of it, however the submission is filed later.    *)
OutcomeInv ==
    /\ phase # "draft" => validate_schema(definition)
    /\ phase # "posted" => outcome = NoOutcome
    /\ phase = "posted" /\ validate_submission(definition, payload)
         => \E s \in SubmissionStatus : outcome = AcceptedAs(s)
    /\ phase = "posted" /\ ~validate_submission(definition, payload)
         => outcome = NoOutcome

LEMMA OutcomeFields ==
    ASSUME OutcomeInv
    PROVE  /\ outcome.ok <=> phase = "posted" /\ validate_submission(definition, payload)
           /\ outcome.ok => outcome.answers = Answers(payload)
           /\ outcome.ok => validate_schema(definition)
<1>1. ASSUME outcome = NoOutcome PROVE ~outcome.ok
  BY <1>1 DEF NoOutcome
<1>2. ASSUME NEW s, outcome = AcceptedAs(s)
      PROVE  outcome.ok /\ outcome.answers = Answers(payload)
  BY <1>2 DEF AcceptedAs
<1> QED BY <1>1, <1>2 DEF OutcomeInv

LEMMA OutcomeInit == ValidationInit => OutcomeInv
BY DEF ValidationInit, OutcomeInv

LEMMA OutcomeStep == OutcomeInv /\ [ValidationNext]_validationVars => OutcomeInv'
<1> SUFFICES ASSUME OutcomeInv, [ValidationNext]_validationVars PROVE OutcomeInv'
  OBVIOUS
<1>1. CASE Publish
  BY <1>1 DEF Publish, OutcomeInv
<1>2. CASE \E p \in Payloads, h \in BOOLEAN : Submit(p, h)
  <2> PICK p \in Payloads, h \in BOOLEAN : Submit(p, h)
    BY <1>2
  <2>1. /\ phase = "published" /\ phase' = "posted" /\ payload' = p
        /\ definition' = definition
    BY DEF Submit
  <2>2. validate_schema(definition')
    BY <2>1 DEF OutcomeInv
  <2>3. ASSUME validate_submission(definition, p)
        PROVE  \E s \in SubmissionStatus : outcome' = AcceptedAs(s)'
    <3>1. PICK s \in {"spam", "unread"} :
            outcome' = [ok |-> TRUE, answers |-> Answers(p), status |-> s]
      BY <2>3 DEF Submit
    <3>2. outcome' = AcceptedAs(s)'
      BY <2>1, <3>1 DEF AcceptedAs
    <3> QED BY <3>2 DEF SubmissionStatus
  <2>4. ASSUME ~validate_submission(definition, p) PROVE outcome' = NoOutcome
    BY <2>4 DEF Submit
  <2> QED BY <2>1, <2>2, <2>3, <2>4 DEF OutcomeInv
<1>3. CASE \E to \in SubmissionStatus : set_submission_status(to)
  <2> PICK to \in SubmissionStatus : set_submission_status(to)
    BY <1>3
  <2>1. /\ UNCHANGED <<definition, phase, payload>> /\ outcome.ok
        /\ outcome' = [outcome EXCEPT !.status = to]
    BY DEF set_submission_status
  <2>2. phase = "posted" /\ validate_submission(definition, payload)
    BY <2>1, OutcomeFields
  <2>3. PICK s \in SubmissionStatus : outcome = AcceptedAs(s)
    BY <2>2 DEF OutcomeInv
  <2>4. outcome' = AcceptedAs(to)'
    BY <2>1, <2>3 DEF AcceptedAs
  <2> QED BY <2>1, <2>2, <2>4 DEF OutcomeInv
<1>4. CASE UNCHANGED validationVars
  BY <1>4 DEF validationVars, OutcomeInv, AcceptedAs
<1> QED BY <1>1, <1>2, <1>3, <1>4 DEF ValidationNext

LEMMA OutcomeInvariance == ValidationSpec => []OutcomeInv
BY OutcomeInit, OutcomeStep, PTL DEF ValidationSpec

(* Whatever the definition and the payload: the two places that decide     *)
(* what is missing, is_absent and check_value, agree on what is stored, so *)
(* stored answers pass the contract they were accepted under, unchanged.   *)
THEOREM StoredAnswersStayValid == ValidationSpec => []StoredAnswersRevalidate
<1>1. OutcomeInv => StoredAnswersRevalidate
  BY OutcomeFields, AnswersRevalidate, AnswersIdempotent DEF StoredAnswersRevalidate
<1> QED BY <1>1, OutcomeInvariance, PTL

(* The honeypot and the other reserved keys are skipped by every check:    *)
(* for every payload the verdict and the answers are those of the payload  *)
(* without them, and no other answer is dropped.                           *)
THEOREM HelpersAreInvisible == ValidationSpec => []HelpersChangeNothing
<1>1. OutcomeInv => HelpersChangeNothing
  <2> SUFFICES ASSUME OutcomeInv, phase = "posted"
               PROVE  /\ outcome.ok <=> validate_submission(definition, Bared(payload))
                      /\ outcome.ok => outcome.answers = Answers(Bared(payload))
                      /\ outcome.ok => \A key \in DOMAIN Bared(payload) :
                            Bared(payload)[key].type # "null"
                              => outcome.answers[key] = Bared(payload)[key]
    BY DEF HelpersChangeNothing, Bared
  <2>1. validate_schema(definition)
    BY DEF OutcomeInv
  <2>2. outcome.ok <=> validate_submission(definition, Bared(payload))
    BY <2>1, OutcomeFields, VerdictOfBared
  <2>3. outcome.ok => outcome.answers = Answers(Bared(payload))
    BY OutcomeFields, AnswersOfBared
  <2>4. \A key \in DOMAIN Bared(payload) :
          Bared(payload)[key].type # "null"
            => Answers(Bared(payload))[key] = Bared(payload)[key]
    BY DEF Answers, Bared
  <2> QED BY <2>2, <2>3, <2>4
<1> QED BY <1>1, OutcomeInvariance, PTL

-----------------------------------------------------------------------------
(* Validation: which fields can be answered                                *)

LEMMA FieldRange ==
    ASSUME NEW d \in Definitions, NEW i \in DOMAIN d.fields
    PROVE  d.fields[i] \in FieldDefinition
BY DefinitionsAssumption

(* FormSchema::field finds the one field with the key.                     *)
LEMMA FieldLookup ==
    ASSUME NEW d \in Definitions, validate_schema(d), NEW i \in DOMAIN d.fields
    PROVE  field(d, d.fields[i].key) = d.fields[i]
<1>1. PICK s : s = d.fields
  OBVIOUS
<1>2. s \in Seq(FieldDefinition) /\ \A m, n \in DOMAIN s : s[m].key = s[n].key => m = n
  BY <1>1, DefinitionsAssumption DEF validate_schema
<1>3. PICK k : k = s[i].key
  OBVIOUS
<1> DEFINE First(n) == s[n].key = k /\ \A m \in 1..(n - 1) : s[m].key # k
<1>4. i \in DOMAIN s /\ First(i)
  BY <1>1, <1>2, <1>3
<1>5. \A n \in DOMAIN s : First(n) => n = i
  BY <1>1, <1>2, <1>3
<1>6. (CHOOSE n \in DOMAIN s : First(n)) = i
  BY <1>4, <1>5
<1> QED BY <1>1, <1>3, <1>6 DEF field

LEMMA TextFacts ==
    ASSUME NEW t \in Texts
    PROVE  /\ t.len \in Nat
           /\ t.len = 0 => t.blank
           /\ t.form = "email" => ~t.blank /\ t.len \in EmailLengths
           /\ t.form = "date" => ~t.blank
<1>1. t \in [len : Nat, blank : BOOLEAN, form : {"plain", "email", "date"}]
  BY ValidationAssumption
<1>2. t.len \in Nat
  BY <1>1
<1> QED BY <1>2, ValidationAssumption DEF EmailLengths

LEMMA Limits ==
    /\ MAX_TEXT_LENGTH \in Nat \ {0} /\ None \notin Nat
    /\ EmailLengths \subseteq Nat
<1>1. MAX_TEXT_LENGTH \in Nat \ {0} /\ None \notin Nat
  BY ValidationAssumption, DefinitionsAssumption
<1>2. EmailLengths \subseteq Nat
  BY TextFacts DEF EmailLengths
<1> QED BY <1>1, <1>2

(* A field of the kinds Unanswerable names is answered by no value, short  *)
(* of a file that the upload endpoint would not have signed.               *)
LEMMA NothingFits ==
    ASSUME NEW f \in FieldDefinition, Unanswerable(f), NEW v \in Values, Fits(f, v)
    PROVE  f.field_type = "file" /\ ~Uploadable(f)
<1> SUFFICES ASSUME ~(f.field_type = "file" /\ ~Uploadable(f)) PROVE FALSE
  OBVIOUS
<1>0. /\ f.field_type \in FieldType /\ f.min_length \in Nat \cup {None}
      /\ f.max_length \in Nat \cup {None}
  BY DEF FieldDefinition, Bound
<1>1. CASE f.field_type \in TextTypes
  <2>1. v.type = "string" /\ v.text \in Texts /\ check_text(f, v.text) /\ ~v.text.blank
    BY <1>1, ValuesAssumption DEF Fits, check_value, TextTypes
  <2>2. PICK t \in Texts : t = v.text
    BY <2>1
  <2>3. /\ f.min_length # None => t.len >= f.min_length
        /\ f.max_length # None => t.len <= f.max_length
        /\ f.max_length = None => t.len <= MAX_TEXT_LENGTH
        /\ f.field_type = "email" => t.len \in EmailLengths
        /\ t.len \in Nat \ {0}
    BY <2>1, <2>2, TextFacts DEF check_text, AtLeast, Unset
  <2> QED BY <1>0, <1>1, <2>3, Limits DEF Unanswerable, TextTypes, Unset
<1>2. CASE f.field_type = "select"
  <2>1. v.type = "string" /\ ~v.text.blank
        /\ \E i \in DOMAIN f.options : f.options[i] = v.text
    BY <1>2 DEF Fits, check_value, TextTypes
  <2> QED BY <1>2, <2>1 DEF Unanswerable, TextTypes
<1>3. CASE f.field_type \notin TextTypes \cup {"select"}
  BY <1>3 DEF Unanswerable, TextTypes
<1> QED BY <1>1, <1>2, <1>3

(* The length of an address that fits between the bounds.                  *)
LEMMA AnAddressFits ==
    ASSUME NEW f \in FieldDefinition, f.field_type = "email", f.required,
           validate_field_rules(f), ~Unanswerable(f)
    PROVE  \E n \in EmailLengths :
             /\ f.min_length # None => n >= f.min_length
             /\ f.max_length # None => n <= f.max_length
             /\ f.max_length = None => n <= MAX_TEXT_LENGTH
<1>0. f.min_length \in Nat \cup {None} /\ f.max_length \in Nat \cup {None}
  BY DEF FieldDefinition, Bound
<1>1. f.max_length # None => \E n \in EmailLengths : n <= f.max_length
  BY <1>0, Limits DEF Unanswerable, Unset
<1>2. f.min_length # None => \E n \in EmailLengths : n >= f.min_length
  BY <1>0, Limits DEF Unanswerable, Unset
<1>3. f.min_length # None /\ f.max_length # None => f.min_length <= f.max_length
  BY DEF validate_field_rules, Ordered, AtMost, Unset
<1>4. \A m, n \in EmailLengths : n <= MAX_TEXT_LENGTH /\ m..n \subseteq EmailLengths
  BY ValuesAssumption
<1>5. CASE f.min_length = None
  BY <1>1, <1>4, <1>5, ValuesAssumption
<1>6. CASE f.min_length # None /\ f.max_length = None
  BY <1>2, <1>4, <1>6
<1>7. CASE f.min_length # None /\ f.max_length # None
  <2>1. PICK a \in EmailLengths : a <= f.max_length
    BY <1>1, <1>7
  <2>2. PICK b \in EmailLengths : b >= f.min_length
    BY <1>2, <1>7
  <2>3. CASE a >= f.min_length
    BY <1>7, <2>1, <2>3
  <2>4. CASE ~(a >= f.min_length)
    <3>1. f.min_length \in a..b
      BY <1>0, <1>7, <2>2, <2>4, Limits
    <3>2. f.min_length \in EmailLengths
      BY <1>4, <3>1
    <3> QED BY <1>0, <1>3, <1>7, <3>2
  <2> QED BY <2>3, <2>4
<1> QED BY <1>5, <1>6, <1>7

(* Every other required field whose rules validate_schema passes has an    *)
(* answer.                                                                 *)
LEMMA SomethingFits ==
    ASSUME NEW d \in Definitions, NEW i \in DOMAIN d.fields, NEW f,
           f = d.fields[i], validate_field_rules(f), f.required, ~Unanswerable(f)
    PROVE  \E v \in Values : Fits(f, v)
<1>0. f \in FieldDefinition
  BY FieldRange
<1>1. /\ f.field_type \in FieldType /\ f.min_length \in Nat \cup {None}
      /\ f.max_length \in Nat \cup {None} /\ f.min \in Nat \cup {None}
      /\ f.max \in Nat \cup {None} /\ f.options \in Seq(Texts) \cup {None}
  BY <1>0 DEF FieldDefinition, Bound
<1>2. ASSUME NEW t \in Texts
      PROVE  /\ String(t) \in Values /\ String(t).type = "string"
             /\ String(t).text = t
  BY ValuesAssumption DEF String
<1>3. ASSUME NEW t \in Texts, ~t.blank, f.field_type \in TextTypes, check_text(f, t)
      PROVE  Fits(f, String(t))
  BY <1>2, <1>3 DEF Fits, check_value, TextTypes
<1>4. CASE f.field_type \in TextTypes \ {"email"}
  <2>1. PICK t \in Texts : ~t.blank /\ t.len = LeastLength(f)
    BY ValuesAssumption
  <2>2. /\ f.max_length # 0
        /\ f.max_length = None /\ f.min_length # None => f.min_length <= MAX_TEXT_LENGTH
    BY <1>1, <1>4, Limits DEF Unanswerable, Unset
  <2>3. f.min_length # None /\ f.max_length # None => f.min_length <= f.max_length
    BY DEF validate_field_rules, Ordered, AtMost, Unset
  <2>4. check_text(f, t)
    BY <1>1, <1>4, <2>1, <2>2, <2>3, Limits DEF check_text, AtLeast, Unset, LeastLength
  <2> QED BY <1>2, <1>3, <1>4, <2>1, <2>4
<1>5. CASE f.field_type = "email"
  <2>1. PICK n \in EmailLengths :
          /\ f.min_length # None => n >= f.min_length
          /\ f.max_length # None => n <= f.max_length
          /\ f.max_length = None => n <= MAX_TEXT_LENGTH
    BY <1>0, <1>5, AnAddressFits
  <2>2. PICK t \in Texts : t.form = "email" /\ t.len = n
    BY DEF EmailLengths
  <2>3. ~t.blank
    BY <2>2, TextFacts
  <2>4. check_text(f, t)
    BY <2>1, <2>2, <2>3 DEF check_text, AtLeast, Unset
  <2> QED BY <1>2, <1>3, <1>5, <2>3, <2>4 DEF TextTypes
<1>6. CASE f.field_type = "number"
  <2> DEFINE n == LeastNumber(f)
  <2>1. Number(n) \in Values
    BY ValuesAssumption
  <2>2. f.min # None /\ f.max # None => f.min <= f.max
    BY DEF validate_field_rules, Ordered, AtMost, Unset
  <2>3. (f.min # None => n >= f.min) /\ (f.max # None => n <= f.max)
    BY <1>1, <2>2, Limits DEF LeastNumber, Unset
  <2> HIDE DEF n
  <2>4. Number(n).type = "number" /\ Number(n).number = n
    BY DEF Number
  <2>5. Fits(f, Number(n))
    BY <1>6, <2>3, <2>4 DEF Fits, check_value, TextTypes, AtLeast, AtMost, Unset
  <2> QED BY <2>1, <2>5
<1>7. CASE f.field_type = "date"
  <2>1. PICK t \in Texts : t.form = "date"
    BY ValuesAssumption
  <2>2. ~t.blank
    BY <2>1, TextFacts
  <2>3. Fits(f, String(t))
    BY <1>2, <1>7, <2>1, <2>2 DEF Fits, check_value, TextTypes
  <2> QED BY <1>2, <2>3
<1>8. CASE f.field_type = "select"
  <2>1. f.options \in Seq(Texts)
    BY <1>1, <1>8 DEF validate_field_rules, Unset
  <2>2. PICK n \in DOMAIN f.options : ~f.options[n].blank
    BY <1>8 DEF Unanswerable, TextTypes
  <2>3. PICK t \in Texts : t = f.options[n]
    BY <2>1, <2>2
  <2>4. Fits(f, String(t))
    BY <1>2, <1>8, <2>2, <2>3 DEF Fits, check_value, TextTypes
  <2> QED BY <1>2, <2>4
<1>9. CASE f.field_type = "checkbox"
  <2>1. Boolean(TRUE) \in Values /\ Boolean(TRUE).type = "boolean"
    BY ValuesAssumption DEF Boolean
  <2>2. Fits(f, Boolean(TRUE))
    BY <1>9, <2>1 DEF Fits, check_value, TextTypes
  <2> QED BY <2>1, <2>2
<1>10. CASE f.field_type = "file"
  <2>1. PICK t \in Texts : t.form = "date"
    BY ValuesAssumption
  <2>2. ~t.blank
    BY <2>1, TextFacts
  <2>3. Fits(f, String(t))
    BY <1>2, <1>10, <2>2 DEF Fits, check_value, TextTypes
  <2> QED BY <1>2, <2>3
<1> QED BY <1>1, <1>4, <1>5, <1>6, <1>7, <1>8, <1>9, <1>10 DEF FieldType, TextTypes

(* An answered form has no field of those kinds.                           *)
LEMMA AnswerableHasNone ==
    ASSUME NEW d \in Definitions, validate_schema(d), NEW p \in Payloads,
           Answerable(d, p), NEW i \in DOMAIN d.fields, Unanswerable(d.fields[i])
    PROVE  FALSE
<1>1. PICK f : f = d.fields[i]
  OBVIOUS
<1>2. PICK k : k = f.key
  OBVIOUS
<1>3. f \in FieldDefinition /\ field(d, k) = f /\ k \notin ReservedKeys
  BY <1>1, <1>2, FieldRange, FieldLookup, FieldsAreNotReserved
<1>4. Unanswerable(f) /\ f.required
  BY <1>1 DEF Unanswerable
<1>5. ~is_absent(p, k)
  BY <1>1, <1>2, <1>4 DEF Answerable, validate_submission, Complete
<1>6. k \in DOMAIN p \ ReservedKeys /\ p[k].type # "null"
      /\ (p[k].type = "string" => ~p[k].text.blank)
  BY <1>3, <1>5 DEF is_absent
<1>7. p[k] \in Values
  BY <1>6, PayloadsAssumption
<1>8. check_value(f, p[k])
  BY <1>3, <1>6 DEF Answerable, validate_submission
<1>9. Fits(f, p[k])
  BY <1>6, <1>8 DEF Fits
<1>10. f.field_type = "file" /\ ~Uploadable(f)
  BY <1>3, <1>4, <1>7, <1>9, NothingFits
<1>11. k \in DOMAIN Answers(p)
  BY <1>6 DEF Answers
<1> QED BY <1>3, <1>10, <1>11 DEF Answerable

(* Sizes are natural numbers: of the answers to a field one is shortest.   *)
LEMMA LeastNumberOf ==
    ASSUME NEW T \in SUBSET Nat, T # {}
    PROVE  \E x \in T : \A y \in T : x <= y
<1> DEFINE R == OpToRel(<, Nat)
<1>1. IsWellFoundedOn(R, Nat)
  BY NatLessThanWellFounded
<1>2. \A x, y \in Nat : x < y => <<x, y>> \in R
  BY DEF OpToRel
<1> HIDE DEF R
<1>3. PICK x \in T : \A y \in T : ~(<<y, x>> \in R)
  BY <1>1, WFMin, Zenon
<1>4. \A y \in T : ~(y < x)
  BY <1>2, <1>3
<1>5. \A y \in T : x <= y
  BY <1>4
<1> QED BY <1>5

LEMMA ShortestExists ==
    ASSUME NEW f, NEW v \in Values, Fits(f, v)
    PROVE  \E w \in Values : Shortest(f, w)
<1> DEFINE A == {w \in Values : Fits(f, w)}
           T == {ValueBytes(w) : w \in A}
<1>1. T \in SUBSET Nat /\ T # {}
  BY PayloadsAssumption
<1>2. PICK x \in T : \A y \in T : x <= y
  <2> HIDE DEF T
  <2> QED BY <1>1, LeastNumberOf
<1>3. PICK w \in A : x = ValueBytes(w)
  BY <1>2
<1> QED BY <1>2, <1>3 DEF Shortest

(* A form without such a field is answered by a terse body.                *)
LEMMA TerseBodyAnswers ==
    ASSUME NEW d \in Definitions, validate_schema(d),
           \A i \in DOMAIN d.fields : ~Unanswerable(d.fields[i])
    PROVE  \E p \in TerseBodies(d) : p \in Payloads /\ Answerable(d, p)
<1>1. ASSUME NEW k \in RequiredKeys(d)
      PROVE  /\ Declares(d, k) /\ k \notin ReservedKeys
             /\ \E v \in Values : Shortest(field(d, k), v)
             /\ field(d, k).field_type = "file" => Uploadable(field(d, k))
  <2>1. PICK i \in DOMAIN d.fields : d.fields[i].required /\ d.fields[i].key = k
    BY DEF RequiredKeys
  <2>2. PICK f : f = d.fields[i]
    OBVIOUS
  <2>3. field(d, k) = f /\ k \notin ReservedKeys
    BY <2>1, <2>2, FieldLookup, FieldsAreNotReserved
  <2>4. validate_field_rules(f) /\ ~Unanswerable(f) /\ f.required
    BY <2>1, <2>2 DEF validate_schema
  <2>5. \E v \in Values : Fits(f, v)
    BY <2>2, <2>4, SomethingFits
  <2>6. \E v \in Values : Shortest(f, v)
    BY <2>5, ShortestExists
  <2>7. f.field_type = "file" => Uploadable(f)
    BY <2>4 DEF Unanswerable
  <2>8. Declares(d, k)
    BY <2>1 DEF Declares
  <2> QED BY <2>3, <2>6, <2>7, <2>8
<1>2. PICK p : p = [k \in RequiredKeys(d) |->
                      CHOOSE v \in Values : Shortest(field(d, k), v)]
  OBVIOUS
<1>3. /\ DOMAIN p = RequiredKeys(d)
      /\ \A k \in RequiredKeys(d) : p[k] \in Values /\ Shortest(field(d, k), p[k])
      /\ p \in [RequiredKeys(d) -> Values] /\ p \in TerseBodies(d)
  BY <1>1, <1>2 DEF TerseBodies
<1>4. p \in Payloads
  BY <1>3, PayloadsAssumption
<1>5. \A k \in RequiredKeys(d) : Fits(field(d, k), p[k])
  BY <1>3 DEF Shortest
<1>6. Complete(d, p)
  <2> SUFFICES ASSUME NEW i \in DOMAIN d.fields, d.fields[i].required
               PROVE  ~is_absent(p, d.fields[i].key)
    BY DEF Complete
  <2>1. PICK k : k = d.fields[i].key
    OBVIOUS
  <2>2. k \in RequiredKeys(d)
    BY <2>1 DEF RequiredKeys
  <2>3. ~is_absent(p, k)
    BY <1>3, <1>5, <2>2 DEF is_absent, Fits
  <2> QED BY <2>1, <2>3
<1>7. validate_submission(d, p)
  BY <1>1, <1>3, <1>5, <1>6 DEF validate_submission, Fits
<1>8. \A k \in DOMAIN Answers(p) : field(d, k).field_type = "file" => Uploadable(field(d, k))
  <2>1. DOMAIN Answers(p) \subseteq DOMAIN p
    BY DEF Answers
  <2> QED BY <1>1, <1>3, <2>1
<1> QED BY <1>3, <1>4, <1>7, <1>8 DEF Answerable

(* ... and no other answer to it is shorter.                               *)
LEMMA TerseBodyIsShortest ==
    ASSUME NEW d \in Definitions, validate_schema(d),
           NEW q \in TerseBodies(d), NEW p \in Payloads, Answerable(d, p)
    PROVE  q \in Payloads /\ BodyBytes(q) <= BodyBytes(p)
<1>1. q \in Payloads
  BY PayloadsAssumption DEF TerseBodies
<1>2. /\ DOMAIN q = RequiredKeys(d)
      /\ \A k \in RequiredKeys(d) : Shortest(field(d, k), q[k])
  BY DEF TerseBodies
<1>3. ASSUME NEW k \in RequiredKeys(d)
      PROVE  k \in DOMAIN p /\ p[k] \in Values /\ Fits(field(d, k), p[k])
  <2>1. PICK i \in DOMAIN d.fields : d.fields[i].required /\ d.fields[i].key = k
    BY DEF RequiredKeys
  <2>2. k \notin ReservedKeys
    BY <2>1, FieldsAreNotReserved
  <2>3. ~is_absent(p, k)
    BY <2>1 DEF Answerable, validate_submission, Complete
  <2>4. k \in DOMAIN p \ ReservedKeys /\ p[k].type # "null"
        /\ (p[k].type = "string" => ~p[k].text.blank)
    BY <2>2, <2>3 DEF is_absent
  <2>5. check_value(field(d, k), p[k])
    BY <2>4 DEF Answerable, validate_submission
  <2> QED BY <2>4, <2>5, PayloadsAssumption DEF Fits
<1>4. \A k \in DOMAIN q : ValueBytes(q[k]) <= ValueBytes(p[k])
  BY <1>2, <1>3 DEF Shortest
<1>5. DOMAIN q \subseteq DOMAIN p
  BY <1>2, <1>3
<1>6. BodyBytes(q) <= BodyBytes(p)
  BY <1>1, <1>4, <1>5, PayloadsAssumption
<1> QED BY <1>1, <1>6

LEMMA DefinitionsArePermanent ==
    ValidationSpec => [](definition \in Definitions)
<1>1. ValidationInit => definition \in Definitions
  BY DEF ValidationInit
<1>2. definition \in Definitions /\ [ValidationNext]_validationVars
        => (definition \in Definitions)'
  BY DEF ValidationNext, validationVars, Publish, Submit, set_submission_status
<1> QED BY <1>1, <1>2, PTL DEF ValidationSpec

(* What validate_schema's promise that a form it passes can be submitted   *)
(* comes to, for every limit, every definition and any number of fields:   *)
(* the fields Unanswerable names and a body too long for the deployment    *)
(* are what it overlooks, and nothing else is.                             *)
THEOREM RequiredFieldsDecideIt == ValidationSpec => []RequiredFieldsDecide
<1>1. OutcomeInv /\ definition \in Definitions => RequiredFieldsDecide
  <2> SUFFICES ASSUME OutcomeInv, definition \in Definitions, phase = "published"
               PROVE  (\E p \in Payloads :
                         BodyBytes(p) <= BODY_LIMIT /\ Answerable(definition, p))
                        <=> /\ ~\E i \in DOMAIN definition.fields :
                                   Unanswerable(definition.fields[i])
                            /\ \A p \in TerseBodies(definition) :
                                   BodyBytes(p) <= BODY_LIMIT
    BY DEF RequiredFieldsDecide
  <2>1. PICK d \in Definitions : d = definition
    OBVIOUS
  <2>2. validate_schema(d)
    BY <2>1 DEF OutcomeInv
  <2>3. ASSUME NEW p \in Payloads, BodyBytes(p) <= BODY_LIMIT, Answerable(d, p)
        PROVE  /\ \A i \in DOMAIN d.fields : ~Unanswerable(d.fields[i])
               /\ \A q \in TerseBodies(d) : BodyBytes(q) <= BODY_LIMIT
    <3>1. \A i \in DOMAIN d.fields : ~Unanswerable(d.fields[i])
      BY <2>2, <2>3, AnswerableHasNone
    <3>2. ASSUME NEW q \in TerseBodies(d) PROVE BodyBytes(q) <= BODY_LIMIT
      <4>1. q \in Payloads /\ BodyBytes(q) <= BodyBytes(p)
        BY <2>2, <2>3, TerseBodyIsShortest
      <4>2. BodyBytes(p) \in Nat /\ BodyBytes(q) \in Nat /\ BODY_LIMIT \in Nat
        BY <4>1, PayloadsAssumption
      <4> QED BY <2>3, <4>1, <4>2
    <3> QED BY <3>1, <3>2
  <2>4. ASSUME \A i \in DOMAIN d.fields : ~Unanswerable(d.fields[i]),
               \A p \in TerseBodies(d) : BodyBytes(p) <= BODY_LIMIT
        PROVE  \E p \in Payloads : BodyBytes(p) <= BODY_LIMIT /\ Answerable(d, p)
    BY <2>2, <2>4, TerseBodyAnswers
  <2> QED BY <2>1, <2>3, <2>4
<1> QED BY <1>1, OutcomeInvariance, DefinitionsArePermanent, PTL
=============================================================================
