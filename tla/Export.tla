------------------------------- MODULE Export -------------------------------
(***************************************************************************)
(* The export of a form's submissions, next to the operations of Forms.    *)
(*                                                                         *)
(* An export is read in steps over a table that changes underneath: the    *)
(* form's row, then the keys of every stored answer, then the rows page by *)
(* page, each page continuing after the last row of the one before.        *)
(*                                                                         *)
(* A submission answers every field of the schema it was validated         *)
(* against.  An id stands for the row's place in (created_at, id); since   *)
(* created_at is the start of a transaction that may commit late, rows     *)
(* appear in any order of it.                                              *)
(***************************************************************************)
EXTENDS Forms, Sequences, SequencesExt

CONSTANTS
    KeysOf,        \* KeysOf[s]: the keys of the fields of schema s
    CreatedAt,     \* CreatedAt[b]: created_at of the submission with id b
    EXPORT_BATCH

ASSUME ExportAssumption ==
    /\ Submissions \subseteq Nat \ {0}
    /\ DOMAIN KeysOf = Schemas
    /\ CreatedAt \in [Submissions -> Nat \ {0}]
    /\ EXPORT_BATCH \in Nat \ {0}

VARIABLE
    export  \* the export under way; one of the editors' slots runs it

allVars == <<vars, export>>

Keys == UNION {KeysOf[s] : s \in Schemas}
Cursor == Nat \X Nat
NoExport == [pc |-> "none", format |-> "csv", columns |-> {},
             after |-> <<0, 0>>, sent |-> <<>>, due |-> {}]

ExportTypeOK ==
    /\ TypeOK
    /\ export \in [pc : {"none", "keys", "page", "closing"},
                   format : {"csv", "json"},
                   columns : SUBSET Keys,
                   after : Cursor,
                   sent : Seq(Submissions),    \* rows streamed so far
                   due : SUBSET Submissions]   \* observer: stored when the keys
                                               \* were read and not deleted since
    /\ (export.pc = "none") <=> (\A e \in Editors : editor[e].pc # "export")

ExportInit == Init /\ export = NoExport

-----------------------------------------------------------------------------
(* The queries                                                             *)

Stored == {b \in Submissions : stored[b].life = "stored"}

distinct_answer_keys == UNION {KeysOf[stored[b].schema] : b \in Stored}

Position(b) == <<CreatedAt[b], b>>

(* The row comparison of SQL.                                              *)
After(x, y) == x[1] > y[1] \/ (x[1] = y[1] /\ x[2] > y[2])

(* ORDER BY and LIMIT: the batch lists the first EXPORT_BATCH of the rows. *)
FirstPage(rows, batch) ==
    /\ \A i \in DOMAIN batch : batch[i] \in rows
    /\ \A i, j \in DOMAIN batch :
         i < j => After(Position(batch[j]), Position(batch[i]))
    /\ \A b \in rows :
         \/ \E i \in DOMAIN batch : batch[i] = b
         \/ /\ Len(batch) = EXPORT_BATCH
            /\ \A i \in DOMAIN batch : After(Position(b), Position(batch[i]))

(* Mutant: the cursor compares created_at alone.                           *)
page_after_created(after, batch) ==
    FirstPage({b \in Stored : CreatedAt[b] > after[1]}, batch)

page_after(after, batch) ==
    FirstPage({b \in Stored : After(Position(b), after)}, batch)

(* What csv_row or json_row writes of the answers of b.                    *)
Cells(b) ==
    IF export.format = "json" THEN KeysOf[stored[b].schema]
    ELSE KeysOf[stored[b].schema] \cap export.columns

Columns(format, keys) == IF format = "csv" THEN keys ELSE {}

-----------------------------------------------------------------------------
(* FormService::export and the task it spawns                              *)

(* The form is loaded; its current fields are the first columns.  Those of *)
(* a JSON export are not kept: json_row writes the answers whole.  One     *)
(* export at a time is a bound.                                            *)
OpenExport(e, format) ==
    /\ editor[e].pc = "free"
    /\ export.pc = "none"
    /\ form.exists
    /\ editor' = [editor EXCEPT ![e].pc = "export"]
    /\ export' = [NoExport EXCEPT !.pc = "keys", !.format = format,
                                  !.columns = Columns(format, KeysOf[form.schema])]
    /\ UNCHANGED <<form, submitter, stored, raced>>

(* Mutant: the columns are the form's current fields and nothing else.     *)
AddColumns_current ==
    /\ export.pc = "keys"
    /\ export' = [export EXCEPT !.pc = "page", !.due = Stored]
    /\ UNCHANGED vars

(* Keys that no longer have a field become columns too.                    *)
AddColumns ==
    /\ export.pc = "keys"
    /\ export' = [export EXCEPT !.pc = "page", !.due = Stored,
                                !.columns = @ \cup Columns(export.format,
                                                           distinct_answer_keys)]
    /\ UNCHANGED vars

(* One turn of the loop: an empty page ends it.                            *)
SendPage ==
    /\ export.pc = "page"
    /\ \E batch \in SeqOf(Submissions, EXPORT_BATCH) :
         /\ page_after(export.after, batch)
         /\ \/ /\ batch = <<>>
               /\ export' = [export EXCEPT !.pc = "closing"]
            \/ /\ batch # <<>>
               /\ export' = [export EXCEPT !.sent = @ \o batch,
                                           !.after = Position(Last(batch))]
    /\ UNCHANGED vars

(* The task ends: the closing is sent, a query has failed, or the client   *)
(* has gone.                                                               *)
EndExport(e) ==
    /\ editor[e].pc = "export"
    /\ editor' = [editor EXCEPT ![e] = IdleEditor]
    /\ export' = NoExport
    /\ UNCHANGED <<form, submitter, stored, raced>>

-----------------------------------------------------------------------------
ExportNext ==
    \/ /\ Next
       /\ export' = [export EXCEPT !.due = {b \in @ : stored'[b].life = "stored"}]
    \/ \E e \in Editors, format \in {"csv", "json"} : OpenExport(e, format)
    \/ AddColumns
    \/ SendPage
    \/ \E e \in Editors : EndExport(e)

ExportSpec == ExportInit /\ [][ExportNext]_allVars

-----------------------------------------------------------------------------
(* Properties                                                              *)

(* A finished export has every submission that was stored when it began    *)
(* and has not been deleted since, once, in spite of rows that appear and  *)
(* disappear before and after the cursor while it pages.                   *)
ExportIsComplete ==
    export.pc = "closing" =>
        \A b \in export.due :
            \E i \in DOMAIN export.sent :
                \A j \in DOMAIN export.sent : export.sent[j] = b <=> j = i

(* "An export written after the definition changed still carries the       *)
(* answers that no longer have a field": no answer of such a row is left   *)
(* out, although the columns are fixed before the first row is read.  Rows *)
(* stored later may lose cells of a CSV.                                   *)
ExportCarriesAnswers ==
    \A i \in DOMAIN export.sent :
        LET b == export.sent[i] IN
        b \in export.due => Cells(b) = KeysOf[stored[b].schema]
=============================================================================
