----------------------------- MODULE Validation -----------------------------
(***************************************************************************)
(* The form definition contract: which field lists a form may have, and    *)
(* which payloads a published form accepts.                                *)
(*                                                                         *)
(* The validators are pure functions; the machine around them is the path  *)
(* of one definition: it is checked, published, and a payload is posted to *)
(* it.  The problems they report are left out, only whether there are any. *)
(*                                                                         *)
(* A text is what the rules can tell of it: its length, whether trimming   *)
(* leaves anything, and whether it reads as an address or a date.  A media *)
(* type is the pair around its slash, with an empty second part if there   *)
(* is none: nothing checks what a client declares.                         *)
(***************************************************************************)
EXTENDS Naturals, FiniteSets, Sequences

CONSTANTS
    Definitions,      \* FormSchemas an author may send
    Payloads,         \* JSON objects a client may post
    Texts,            \* the strings of this instance
    Values,           \* the JSON values of this instance
    ContentTypes,     \* what normalise_content_type may make of a header
    ObjectKeys,       \* object keys; those is_valid_key accepts are ValidKeys
    ValidKeys,        \*   and those that start with RESERVED_PREFIX are
    ReservedKeys,     \*   ReservedKeys
    HONEYPOT_FIELD,
    None,             \* an Option that is not set
    MAX_FIELDS, MAX_OPTIONS, MAX_LABEL_LENGTH, MAX_TEXT_LENGTH,
    BODY_LIMIT,       \* request_body_limit_bytes
    ValueBytes(_),    \* the shortest encoding of a value
    BodyBytes(_)      \*   and that of an object

ASSUME ValidationAssumption ==
    /\ Texts \subseteq [len : Nat, blank : BOOLEAN, form : {"plain", "email", "date"}]
    /\ \A t \in Texts : (t.len = 0 => t.blank) /\ (t.blank => t.form = "plain")
    /\ ValidKeys \subseteq ObjectKeys \ ReservedKeys
    /\ HONEYPOT_FIELD \in ReservedKeys /\ ReservedKeys \subseteq ObjectKeys
    /\ {MAX_FIELDS, MAX_OPTIONS, MAX_LABEL_LENGTH, MAX_TEXT_LENGTH} \subseteq Nat \ {0}

VARIABLES
    definition,  \* the FormSchema
    phase,       \* "draft", "published" or "posted"
    payload,     \* what was posted
    outcome      \* what submit() made of it

validationVars == <<definition, phase, payload, outcome>>

-----------------------------------------------------------------------------
(* Values of JSON                                                          *)

Null == [type |-> "null"]
String(t) == [type |-> "string", text |-> t]
Number(n) == [type |-> "number", number |-> n]
Boolean(b) == [type |-> "boolean", boolean |-> b]

is_absent(p, key) ==
    \/ key \notin DOMAIN p
    \/ p[key].type = "null"
    \/ p[key].type = "string" /\ p[key].text.blank

-----------------------------------------------------------------------------
(* validate_schema                                                         *)

TextTypes == {"text", "textarea", "email"}
FieldType == TextTypes \cup {"number", "date", "select", "checkbox", "file"}
Bound == Nat \cup {None}

FieldDefinition ==
    [key : ObjectKeys, field_type : FieldType, label : Texts, required : BOOLEAN,
     min_length : Bound, max_length : Bound, min : Bound, max : Bound,
     options : Seq(Texts) \cup {None}, max_bytes : Bound,
     accept : SUBSET (STRING \X STRING) \cup {None}]

ASSUME DefinitionsAssumption ==
    /\ None \notin Nat /\ None \notin Seq(Texts)
    /\ \A d \in Definitions : d.fields \in Seq(FieldDefinition)

Unset(x) == x = None
AtLeast(n, bound) == ~Unset(bound) => n >= bound
AtMost(n, bound) == ~Unset(bound) => n <= bound
Ordered(low, high) == ~Unset(low) => AtMost(low, high)

(* Mutant: the length bounds are not compared.                             *)
validate_field_rules_unordered(f) ==
    /\ Ordered(f.min, f.max)
    /\ f.field_type = "select" =>
         ~Unset(f.options) /\ Len(f.options) \in 1..MAX_OPTIONS
    /\ f.field_type = "file" => f.max_bytes # 0
    /\ f.field_type \notin {"select", "file"} => Unset(f.options)
    /\ f.field_type # "number" => Unset(f.min) /\ Unset(f.max)

validate_field_rules(f) ==
    /\ Ordered(f.min_length, f.max_length)
    /\ Ordered(f.min, f.max)
    /\ f.field_type = "select" =>
         ~Unset(f.options) /\ Len(f.options) \in 1..MAX_OPTIONS
    /\ f.field_type = "file" => f.max_bytes # 0
    /\ f.field_type \notin {"select", "file"} => Unset(f.options)
    /\ f.field_type # "number" => Unset(f.min) /\ Unset(f.max)

validate_schema(schema) ==
    LET fields == schema.fields IN
    /\ ~schema.title.blank
    /\ Len(fields) \in 1..MAX_FIELDS
    /\ \A i, j \in DOMAIN fields : fields[i].key = fields[j].key => i = j
    /\ \A i \in DOMAIN fields :
         /\ fields[i].key \in ValidKeys
         /\ ~fields[i].label.blank /\ fields[i].label.len <= MAX_LABEL_LENGTH
         /\ validate_field_rules(fields[i])

-----------------------------------------------------------------------------
(* validate_submission                                                     *)

Declares(schema, key) == \E i \in DOMAIN schema.fields : schema.fields[i].key = key

(* FormSchema::field finds the first field with the key.                   *)
field(schema, key) ==
    schema.fields[CHOOSE i \in DOMAIN schema.fields :
        /\ schema.fields[i].key = key
        /\ \A j \in 1..(i - 1) : schema.fields[j].key # key]

(* The three text types.  A blank answer to a required field is refused    *)
(* whatever its length.                                                    *)
check_text(f, t) ==
    LET max == IF Unset(f.max_length) THEN MAX_TEXT_LENGTH ELSE f.max_length IN
    /\ f.required => ~t.blank
    /\ AtLeast(t.len, f.min_length)
    /\ t.len <= max
    /\ f.field_type = "email" => t.form = "email"

(* Whether a value is free of problems.                                    *)
check_value(f, v) ==
    CASE v.type = "null"            -> ~f.required
      [] v.type # "null" /\ f.field_type \in TextTypes ->
            v.type = "string" /\ check_text(f, v.text)
      [] v.type # "null" /\ f.field_type = "number" ->
            /\ v.type = "number"
            /\ AtLeast(v.number, f.min)
            /\ AtMost(v.number, f.max)
      [] v.type # "null" /\ f.field_type = "date" ->
            v.type = "string" /\ v.text.form = "date"
      [] v.type # "null" /\ f.field_type = "select" ->
            v.type = "string" /\ \E i \in DOMAIN f.options : f.options[i] = v.text
      [] v.type # "null" /\ f.field_type = "checkbox" ->
            v.type = "boolean"
      [] v.type # "null" /\ f.field_type = "file" ->
            v.type = "string" /\ ~v.text.blank

(* Mutant: reserved keys are stored with the answers.                      *)
Answers_all(p) == [key \in {k \in DOMAIN p : p[k].type # "null"} |-> p[key]]

(* Mutant: a box that is not ticked is no answer.                          *)
Answers_ticked(p) ==
    [key \in {k \in DOMAIN p \ ReservedKeys :
        p[k] \notin {Null, [type |-> "boolean", boolean |-> FALSE]}} |-> p[key]]

(* Reserved keys are dropped, and a null is no answer.                     *)
Answers(p) ==
    [key \in {k \in DOMAIN p \ ReservedKeys : p[k].type # "null"} |-> p[key]]

(* No required field is absent.                                            *)
Complete(schema, p) ==
    \A i \in DOMAIN schema.fields :
        schema.fields[i].required => ~is_absent(p, schema.fields[i].key)

validate_submission(schema, p) ==
    /\ \A key \in DOMAIN p \ ReservedKeys :
         Declares(schema, key) /\ check_value(field(schema, key), p[key])
    /\ Complete(schema, p)

-----------------------------------------------------------------------------
(* What a client can write: any JSON object, of which only a body that     *)
(* RequestBodyLimitLayer lets through reaches the form.                    *)

EmailLengths == {t.len : t \in {x \in Texts : x.form = "email"}}

(* The least that a field's bounds ask for.                                *)
LeastLength(f) == IF Unset(f.min_length) \/ f.min_length = 0 THEN 1 ELSE f.min_length
LeastNumber(f) == IF ~Unset(f.min) THEN f.min ELSE IF ~Unset(f.max) THEN f.max ELSE 0

RequiredKeys(schema) ==
    {schema.fields[i].key : i \in {j \in DOMAIN schema.fields : schema.fields[j].required}}

(* Addresses have every length from the shortest to the longest, and none  *)
(* is as long as a text may be; there is a date; and the lengths and       *)
(* numbers at the bounds of a field can be written.                        *)
ASSUME ValuesAssumption ==
    /\ \A v \in Values :
         /\ v.type \in {"null", "string", "number", "boolean", "array"}
         /\ v.type = "string" => v.text \in Texts
    /\ {String(t) : t \in Texts} \cup {Boolean(TRUE)} \subseteq Values
    /\ EmailLengths # {}
    /\ \A m, n \in EmailLengths : n <= MAX_TEXT_LENGTH /\ m..n \subseteq EmailLengths
    /\ \E t \in Texts : t.form = "date"
    /\ \A d \in Definitions : \A i \in DOMAIN d.fields :
         /\ \E t \in Texts : ~t.blank /\ t.len = LeastLength(d.fields[i])
         /\ Number(LeastNumber(d.fields[i])) \in Values

(* Every choice of answers to the required fields of a form can be         *)
(* written.  An object gets no longer when answers are left out or others  *)
(* are given that are no longer.                                           *)
ASSUME PayloadsAssumption ==
    /\ \A p \in Payloads : \A key \in DOMAIN p : p[key] \in Values
    /\ \A d \in Definitions :
         validate_schema(d) => [RequiredKeys(d) -> Values] \subseteq Payloads
    /\ BODY_LIMIT \in Nat
    /\ \A v \in Values : ValueBytes(v) \in Nat
    /\ \A p \in Payloads : BodyBytes(p) \in Nat
    /\ \A p, q \in Payloads :
         /\ DOMAIN p \subseteq DOMAIN q
         /\ \A key \in DOMAIN p : ValueBytes(p[key]) <= ValueBytes(q[key])
         => BodyBytes(p) <= BodyBytes(q)

-----------------------------------------------------------------------------
(* Files: FieldDefinition::accepts                                         *)

(* An entry with parameters equals nothing that normalise_content_type     *)
(* returns, which has lost its own.                                        *)
media_type_matches(allowed, content_type) ==
    IF allowed[2] = "*" THEN content_type[1] = allowed[1]
    ELSE allowed = content_type

accepts(f, content_type) ==
    Unset(f.accept) \/ \E a \in f.accept : media_type_matches(a, content_type)

-----------------------------------------------------------------------------
(* The path of a definition                                                *)

honeypot_was_filled(p) == ~is_absent(p, HONEYPOT_FIELD)

SubmissionStatus == {"unread", "read", "spam", "archived"}

NoPayload == [key \in {} |-> Null]
NoOutcome == [ok |-> FALSE, answers |-> NoPayload, status |-> "unread"]

ValidationInit ==
    /\ definition \in Definitions
    /\ phase = "draft"
    /\ payload = NoPayload
    /\ outcome = NoOutcome

Publish ==
    /\ phase = "draft"
    /\ validate_schema(definition)
    /\ phase' = "published"
    /\ UNCHANGED <<definition, payload, outcome>>

(* FormService::submit between the read and the insert, for a body that    *)
(* the route admits.  Whether the form has the honeypot is a setting of    *)
(* its row.                                                                *)
Submit(p, honeypot_enabled) ==
    /\ phase = "published"
    /\ BodyBytes(p) <= BODY_LIMIT
    /\ phase' = "posted"
    /\ payload' = p
    /\ outcome' = IF validate_submission(definition, p)
                  THEN [ok |-> TRUE, answers |-> Answers(p),
                        status |-> IF honeypot_enabled /\ honeypot_was_filled(p)
                                  THEN "spam" ELSE "unread"]
                  ELSE NoOutcome
    /\ UNCHANGED definition

(* A manager files the stored submission; anything may follow anything.    *)
set_submission_status(to) ==
    /\ outcome.ok
    /\ outcome' = [outcome EXCEPT !.status = to]
    /\ UNCHANGED <<definition, phase, payload>>

ValidationNext ==
    \/ Publish
    \/ \E p \in Payloads, honeypot_enabled \in BOOLEAN : Submit(p, honeypot_enabled)
    \/ \E to \in SubmissionStatus : set_submission_status(to)

ValidationSpec == ValidationInit /\ [][ValidationNext]_validationVars

-----------------------------------------------------------------------------
(* Properties                                                              *)

ValidationTypeOK ==
    /\ definition \in Definitions
    /\ phase \in {"draft", "published", "posted"}
    /\ payload \in Payloads \cup {NoPayload}
    /\ outcome.ok \in BOOLEAN /\ outcome.status \in SubmissionStatus
    /\ DOMAIN outcome.answers \subseteq ObjectKeys

(* What a client can put in a file field: an upload of a type it accepts.  *)
Uploadable(f) == \E c \in ContentTypes : accepts(f, c)

(* Required fields that pass validate_schema and that nothing can answer:  *)
(* a length that leaves no room (max_length 0, min_length alone and over   *)
(* MAX_TEXT_LENGTH, an address shorter or longer than addresses are),      *)
(* options that are all blank, an accept list that no media type matches.  *)
Unanswerable(f) ==
    /\ f.required
    /\ \/ f.field_type \in TextTypes /\ f.max_length = 0
       \/ /\ f.field_type \in TextTypes /\ Unset(f.max_length)
          /\ ~Unset(f.min_length) /\ f.min_length > MAX_TEXT_LENGTH
       \/ /\ f.field_type = "email"
          /\ \/ ~Unset(f.max_length) /\ \A n \in EmailLengths : n > f.max_length
             \/ ~Unset(f.min_length) /\ \A n \in EmailLengths : n < f.min_length
       \/ /\ f.field_type = "select"
          /\ \A i \in DOMAIN f.options : f.options[i].blank
       \/ f.field_type = "file" /\ ~Uploadable(f)

Answerable(schema, p) ==
    /\ validate_submission(schema, p)
    /\ \A key \in DOMAIN Answers(p) :
         field(schema, key).field_type = "file" => Uploadable(field(schema, key))

(* "A form that passes this is always renderable and always submittable,   *)
(* which is what lets ingestion trust the schema": a published definition  *)
(* accepts a payload that can be posted.  It does not hold.                *)
AcceptedIsSubmittable ==
    phase = "published" =>
        \E p \in Payloads : BodyBytes(p) <= BODY_LIMIT /\ Answerable(definition, p)

(* A value that answers a required field, and the shortest answers there   *)
(* are to all of them.                                                     *)
Fits(f, v) ==
    /\ check_value(f, v)
    /\ v.type # "null"
    /\ v.type = "string" => ~v.text.blank

Shortest(f, v) ==
    /\ Fits(f, v)
    /\ \A w \in Values : Fits(f, w) => ValueBytes(v) <= ValueBytes(w)

TerseBodies(schema) ==
    {p \in [RequiredKeys(schema) -> Values] :
        \A key \in RequiredKeys(schema) : Shortest(field(schema, key), p[key])}

(* What is true of the claim: a published definition can be submitted      *)
(* exactly if it has no field of the kinds above, which the check lets     *)
(* through, and the shortest answers to its required fields fit together   *)
(* in the body a deployment admits.  Optional fields, and what two fields  *)
(* ask for, never stand in each other's way otherwise.                     *)
RequiredFieldsDecide ==
    phase = "published" =>
        ((\E p \in Payloads : BodyBytes(p) <= BODY_LIMIT /\ Answerable(definition, p))
            <=> /\ ~\E i \in DOMAIN definition.fields : Unanswerable(definition.fields[i])
                /\ \A p \in TerseBodies(definition) : BodyBytes(p) <= BODY_LIMIT)

(* Answers that were stored are answers to their definition: checked again *)
(* they are accepted and come out as they are, so what a later reader      *)
(* (export, notification, webhook) finds under the schema is what the      *)
(* schema allows.                                                          *)
StoredAnswersRevalidate ==
    outcome.ok =>
        /\ validate_submission(definition, outcome.answers)
        /\ Answers(outcome.answers) = outcome.answers

(* "A bot that fills every input fills the honeypot too.  The submission   *)
(* is accepted as normal so it learns nothing": helpers and the honeypot   *)
(* change neither the verdict nor the answers, only where it is filed; and *)
(* no other answer is lost on the way.                                     *)
HelpersChangeNothing ==
    LET bare == [key \in DOMAIN payload \ ReservedKeys |-> payload[key]] IN
    phase = "posted" =>
        /\ outcome.ok <=> validate_submission(definition, bare)
        /\ outcome.ok => outcome.answers = Answers(bare)
        /\ outcome.ok => \A key \in DOMAIN bare :
              bare[key].type # "null" => outcome.answers[key] = bare[key]
=============================================================================
