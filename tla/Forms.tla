------------------------------- MODULE Forms --------------------------------
(***************************************************************************)
(* The life of one form: editing its definition, publishing, closing, its  *)
(* public link, and the submissions made through it.                       *)
(*                                                                         *)
(* Every operation of FormService reads the row, decides on what it read   *)
(* and then writes with a second statement that repeats none of its        *)
(* conditions.  The instance has no file storage configured.  Of the       *)
(* definition the schema is kept; its other fields follow the same path.   *)
(***************************************************************************)
EXTENDS Naturals, FiniteSets

CONSTANTS
    Schemas,      \* field lists that validate_schema accepts
    FileSchemas,  \* those with a file field
    Editors,      \* slots for concurrent operations of the organization
    Submitters,   \* slots for concurrent public submissions
    Submissions,  \* ids that submissions may get
    MaxVersion,   \* bound: schema versions
    MaxLinks      \* bound: public handles

ASSUME FormsAssumption ==
    /\ FileSchemas \subseteq Schemas /\ Schemas \ FileSchemas # {}
    /\ MaxVersion \in Nat \ {0} /\ MaxLinks \in Nat \ {0}

VARIABLES
    form,       \* the forms row
    editor,     \* editor[e]: the operation under way and the row it read
    submitter,  \* submitter[p]: the submission under way and the row it read
    stored,     \* stored[b]: a submissions row
    raced       \* observer: how operations have overtaken one another

vars == <<form, editor, submitter, stored, raced>>

-----------------------------------------------------------------------------
(* State                                                                   *)

FormStatus == {"draft", "published", "closed"}
FormRecord == [exists : BOOLEAN, status : FormStatus, schema : Schemas,
               schema_version : 1..MaxVersion,
               public_id : 1..MaxLinks]
Editor == [pc : {"free", "update", "publish", "close", "rotate", "delete", "export"},
           schema : Schemas, changed : BOOLEAN,
           missed : SUBSET {"update", "publish"}]  \* written since it read
Submitter == [pc : {"free", "insert"}, schema : Schemas, version : 1..MaxVersion]
Submission == [life : {"unused", "stored", "gone"}, schema : Schemas,
               version : 1..MaxVersion]

(* <<mine, theirs>>: a write, and one its operation has missed.            *)
Races == [updates |-> {<<"update", "update">>},
          publish |-> {<<"update", "publish">>, <<"publish", "update">>}]

TypeOK ==
    /\ form \in FormRecord
    /\ editor \in [Editors -> Editor]
    /\ submitter \in [Submitters -> Submitter]
    /\ stored \in [Submissions -> Submission]
    /\ raced \in SUBSET DOMAIN Races

Plain == CHOOSE s \in Schemas : s \notin FileSchemas
IdleEditor == [pc |-> "free", schema |-> Plain, changed |-> FALSE,
               missed |-> {}]
IdleSubmitter == [pc |-> "free", schema |-> Plain, version |-> 1]
NoSubmission == [life |-> "unused", schema |-> Plain, version |-> 1]
Gone == [NoSubmission EXCEPT !.life = "gone"]

(* FormService::create: a draft, which may hold a file field.              *)
Init ==
    /\ form \in [exists : {TRUE}, status : {"draft"}, schema : Schemas,
                 schema_version : {1}, public_id : {1}]
    /\ editor = [e \in Editors |-> IdleEditor]
    /\ submitter = [p \in Submitters |-> IdleSubmitter]
    /\ stored = [b \in Submissions |-> NoSubmission]
    /\ raced = {}

(* With no storage a schema with a file field is not submittable.          *)
check_schema(s, require_submittable) ==
    require_submittable => s \notin FileSchemas

-----------------------------------------------------------------------------
(* Operations of the organization: what they read and decide               *)

Decide(e, to, s, c) ==
    /\ editor[e].pc = "free"
    /\ form.exists
    /\ editor' = [editor EXCEPT ![e] =
                    [pc |-> to, schema |-> s, changed |-> c, missed |-> {}]]
    /\ UNCHANGED <<form, submitter, stored, raced>>

(* Mutant: the schema is checked as that of a draft.                       *)
update_as_draft(e, s) ==
    /\ check_schema(s, FALSE)
    /\ Decide(e, "update", s, s # form.schema)

(* update: a field the request leaves out keeps the value that was read.   *)
update(e, s) ==
    /\ check_schema(s, form.status = "published")
    /\ Decide(e, "update", s, s # form.schema)

publish(e) ==
    /\ check_schema(form.schema, TRUE)
    /\ Decide(e, "publish", Plain, FALSE)

close(e) ==
    /\ form.status = "published"
    /\ Decide(e, "close", Plain, FALSE)

rotate_public_id(e) == Decide(e, "rotate", Plain, FALSE)

delete(e) == Decide(e, "delete", Plain, FALSE)

-----------------------------------------------------------------------------
(* ... and what they write.  A row that has gone is left alone.            *)

(* The operations that have read already miss this write.                  *)
Finish(e, at) ==
    LET missed == editor[e].missed
        writes == {"update", "publish"}
    IN
    /\ editor[e].pc = at
    /\ editor' = [o \in Editors |->
         CASE o = e -> IdleEditor
           [] o # e /\ {at, editor[o].pc} \subseteq writes ->
                [editor[o] EXCEPT !.missed = @ \cup {at}]
           [] OTHER -> editor[o]]
    /\ raced' = raced \cup {k \in DOMAIN Races :
                              \E m \in missed : <<at, m>> \in Races[k]}
    /\ UNCHANGED submitter

(* Mutant: the version is never bumped.                                    *)
replace_definition_unbumped(e) ==
    /\ Finish(e, "update")
    /\ form' = [form EXCEPT !.schema = IF form.exists THEN editor[e].schema ELSE @]
    /\ UNCHANGED stored

replace_definition(e) ==
    LET q == editor[e]
        v == IF q.changed THEN form.schema_version + 1 ELSE form.schema_version
    IN
    /\ Finish(e, "update")
    /\ v <= MaxVersion
    /\ \/ /\ form.exists
          /\ form' = [form EXCEPT !.schema = q.schema, !.schema_version = v]
       \/ ~form.exists /\ UNCHANGED form
    /\ UNCHANGED stored

set_status(e) ==
    \/ /\ Finish(e, "publish")
       /\ form' = [form EXCEPT !.status = IF form.exists THEN "published" ELSE @]
       /\ UNCHANGED stored
    \/ /\ Finish(e, "close")
       /\ form' = [form EXCEPT !.status = IF form.exists THEN "closed" ELSE @]
       /\ UNCHANGED stored

set_public_id(e) ==
    /\ Finish(e, "rotate")
    /\ form.public_id < MaxLinks
    /\ form' = [form EXCEPT !.public_id = IF form.exists THEN @ + 1 ELSE @]
    /\ UNCHANGED stored

(* The submissions cascade.                                                *)
DeleteRow(e) ==
    /\ Finish(e, "delete")
    /\ form' = [form EXCEPT !.exists = FALSE]
    /\ stored' = [b \in Submissions |->
                    IF stored[b].life = "stored" THEN Gone ELSE stored[b]]

-----------------------------------------------------------------------------
(* Public submissions                                                      *)

load_published(link) ==
    form.exists /\ form.public_id = link /\ form.status = "published"

(* submit: the answers are validated against the row read, and its version *)
(* is what they will be stamped with.                                      *)
submit(p, link) ==
    /\ submitter[p].pc = "free"
    /\ load_published(link)
    /\ submitter' = [submitter EXCEPT ![p] =
         [pc |-> "insert", schema |-> form.schema,
          version |-> form.schema_version]]
    /\ UNCHANGED <<form, editor, stored, raced>>

(* The row gets a random id, never one used before; the foreign key refuses*)
(* a form that has gone.                                                   *)
insert(p, b) ==
    LET q == submitter[p] IN
    /\ q.pc = "insert"
    /\ stored[b].life = "unused"
    /\ stored' = [stored EXCEPT ![b] =
         IF form.exists
         THEN [life |-> "stored", schema |-> q.schema, version |-> q.version]
         ELSE @]
    /\ submitter' = [submitter EXCEPT ![p] = IdleSubmitter]
    /\ UNCHANGED <<form, editor, raced>>

delete_submission(b) ==
    /\ stored[b].life = "stored"
    /\ stored' = [stored EXCEPT ![b] = Gone]
    /\ UNCHANGED <<form, editor, submitter, raced>>

-----------------------------------------------------------------------------
Edit(e) ==
    \/ \E s \in Schemas : update(e, s)
    \/ publish(e)
    \/ close(e)
    \/ rotate_public_id(e)
    \/ delete(e)
    \/ replace_definition(e)
    \/ set_status(e)
    \/ set_public_id(e)
    \/ DeleteRow(e)

Next ==
    \/ \E e \in Editors : Edit(e)
    \/ \E p \in Submitters : \E link \in 1..MaxLinks : submit(p, link)
    \/ \E p \in Submitters : \E b \in Submissions : insert(p, b)
    \/ \E b \in Submissions : delete_submission(b)

Spec == Init /\ [][Next]_vars

-----------------------------------------------------------------------------
(* Properties                                                              *)

(* "Bumped whenever `schema' changes, and stamped on every submission, so  *)
(* answers written against an older field set stay interpretable": two     *)
(* submissions with the same stamp answered the same fields, even when     *)
(* they are inserted after the form was edited again.  The exception is an *)
(* update that overwrites one it has not seen: it compares with the schema *)
(* it read and puts that one back under the new version.                   *)
StampTellsSchema ==
    "updates" \notin raced =>
        \A a, b \in Submissions :
            stored[a].life = "stored" /\ stored[b].life = "stored"
              /\ stored[a].version = stored[b].version
                => stored[a].schema = stored[b].schema

(* A published form can be submitted: without storage it holds no file     *)
(* field, whatever order definitions are saved and the form published in.  *)
(* The exception is an update and a publication that overtake each other.  *)
PublishedIsSubmittable ==
    "publish" \notin raced =>
        (form.exists /\ form.status = "published" => form.schema \notin FileSchemas)

(* Without storage "a form containing a file field cannot be published",   *)
(* whoever saves or publishes it meanwhile.  The code does not keep this.  *)
NoFileFieldIsPublished ==
    form.exists /\ form.status = "published" => form.schema \notin FileSchemas
=============================================================================
