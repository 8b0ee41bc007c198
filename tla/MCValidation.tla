---------------------------- MODULE MCValidation ----------------------------
(***************************************************************************)
(* Validation with every field type under every bound that its rules can   *)
(* tell apart, alone and beside a second field, against payloads that      *)
(* answer them in every way.                                               *)
(***************************************************************************)
EXTENDS Validation, FiniteSetsExt

Plain(n) == [len |-> n, blank |-> FALSE, form |-> "plain"]
Blank(n) == [len |-> n, blank |-> TRUE, form |-> "plain"]
Email(n) == [len |-> n, blank |-> FALSE, form |-> "email"]
Date == [len |-> 4, blank |-> FALSE, form |-> "date"]

(* Plain texts on both sides of MAX_TEXT_LENGTH; addresses have 2 or 3     *)
(* characters.                                                             *)
MCTexts ==
    {Plain(n) : n \in 1..5} \cup {Blank(n) : n \in 0..1} \cup {Email(n) : n \in 2..3} \cup {Date}

(* A client may declare a wildcard, or a name without a slash.             *)
MCContentTypes ==
    {<<"image", "png">>, <<"text", "csv">>, <<"*", "*">>, <<"pdf", "">>}

(* A byte for a character, one for any other value and one for a key.      *)
MCValueBytes(v) == IF v.type = "string" THEN v.text.len ELSE 1
MCBodyBytes(p) == MapThenSumSet(LAMBDA key : 1 + MCValueBytes(p[key]), DOMAIN p)

MCValues ==
    {Null, [type |-> "array"]}
        \cup {String(t) : t \in MCTexts}
        \cup {Number(n) : n \in 0..3}
        \cup {Boolean(b) : b \in BOOLEAN}

(* A field with no rule of its own.                                        *)
Bare(key, type, required) ==
    [key |-> key, field_type |-> type, label |-> Plain(1), required |-> required,
     min_length |-> None, max_length |-> None, min |-> None, max |-> None,
     options |-> None, max_bytes |-> None, accept |-> None]

Options == {None, <<>>, <<Blank(0)>>, <<Plain(1)>>, <<Blank(0), Plain(1)>>,
            <<Plain(1), Plain(2), Plain(3)>>}

Accepts == {None, {}, {<<"image", "*">>}, {<<"text", "csv">>},
            {<<"*", "*">>}, {<<"pdf", "">>}, {<<"text", "csv; charset">>}}

FieldsOf(key, required) ==
    {[Bare(key, t, required) EXCEPT !.min_length = min, !.max_length = max] :
        t \in TextTypes, min \in {None, 1, 3, 5}, max \in {None, 0, 1, 3, 5}}
    \cup {[Bare(key, t, required) EXCEPT !.min = min, !.max = max] :
        t \in {"number", "date"}, min \in {None, 1, 3}, max \in {None, 0, 1, 2}}
    \cup {[Bare(key, t, required) EXCEPT !.options = o] :
        t \in {"select", "text"}, o \in Options}
    \cup {Bare(key, "checkbox", required)}
    \cup {[Bare(key, "file", required) EXCEPT !.max_bytes = b, !.accept = a] :
        b \in {None, 0, 1}, a \in Accepts}

Labels == {Blank(0), Plain(1), Plain(5)}

Seconds ==
    {Bare(key, "checkbox", TRUE) : key \in ObjectKeys}
        \cup {Bare("b", "number", FALSE), Bare("b", "text", TRUE)}

Fields == UNION {FieldsOf("a", required) : required \in BOOLEAN}

MCDefinitions ==
    {[title |-> Plain(1), fields |-> s] :
        s \in {<<f>> : f \in Fields} \cup {<<f, g>> : f \in Fields, g \in Seconds}}
    \cup {[title |-> t, fields |-> <<[Bare(key, "text", TRUE) EXCEPT !.label = l]>>] :
        t \in {Blank(0), Plain(1)}, key \in ObjectKeys, l \in Labels}
    \cup {[title |-> Plain(1), fields |-> <<>>],
          [title |-> Plain(1), fields |-> <<Bare("a", "text", TRUE), Bare("b", "date", TRUE),
                                            Bare("c", "checkbox", FALSE)>>]}

(* Every value to every field that may be required, alone and in pairs;    *)
(* and a few beside a key that is reserved or not valid.                   *)
MCPayloads ==
    UNION {[ks -> MCValues] : ks \in {{}, {"a"}, {"b"}, {"c"}, {"a", "b"}, {"a", "c"}}}
    \cup {[key \in {"B"} |-> v] : v \in {Boolean(TRUE), String(Plain(1))}}
    \cup UNION {{p \in [ks -> MCValues] : p["_gotcha"] \in {String(Blank(0)), String(Plain(1))}} :
        ks \in {{"_gotcha"}, {"a", "_gotcha"}}}
=============================================================================
