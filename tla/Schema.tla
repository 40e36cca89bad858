------------------------------- MODULE Schema -------------------------------
(***************************************************************************)
(* internal/collections: what a schema is, which schemas and records it    *)
(* lets in, and how a partial update is merged; the pure functions of the  *)
(* package.                                                                *)
(*                                                                         *)
(* A JSON value is represented by what the checks can tell apart.          *)
(***************************************************************************)
EXTENDS Naturals, Sequences

CONSTANT FieldName      \* field names of the form nameRe accepts

FieldType == {"text", "number", "bool", "json", "date"}

Strings == {"blank", "abc", "xyz"}

Value == Strings \cup {"null", "12", "true", "[]"}

\* A field of a schema; an unknown type and a name that nameRe refuses are
\* what a request may ask for.
Field == [name : FieldName \cup {"9 lives"}, type : FieldType \cup {"uuid"}, required : BOOLEAN]

\* What a request may carry as the fields of a record.
Data == UNION {[S -> Value] : S \in SUBSET (FieldName \cup {"9 lives"})}

----------------------------------------------------------------------------
\* validateFields: at least one field, good and distinct names, known types.
validateFields(fields) ==
    /\ fields # <<>>
    /\ \A i \in DOMAIN fields :
          /\ fields[i].name \in FieldName
          /\ fields[i].type \in FieldType
          /\ \A j \in 1 .. i - 1 : fields[j].name # fields[i].name

isEmpty(v) == v \in {"null", "blank"}

checkType(type, v) ==
    \/ v = "null"
    \/ type \in {"text", "date"} /\ v \in Strings
    \/ type = "number" /\ v = "12"
    \/ type = "bool" /\ v = "true"
    \/ type = "json"

\* Every value belongs to a field of the schema and has its type.
validateFieldValues(fields, data) ==
    \A f \in DOMAIN data :
        \E i \in DOMAIN fields : fields[i].name = f /\ checkType(fields[i].type, data[f])

validateRequired(fields, data) ==
    \A i \in DOMAIN fields :
        fields[i].required =>
            fields[i].name \in DOMAIN data /\ ~isEmpty(data[fields[i].name])

validateRecord(fields, data) ==
    validateFieldValues(fields, data) /\ validateRequired(fields, data)

\* UpdateRecord: the patch over what the record held.
Merged(data, patch) ==
    [f \in DOMAIN data \cup DOMAIN patch |->
        IF f \in DOMAIN patch THEN patch[f] ELSE data[f]]

----------------------------------------------------------------------------
(* Access rules.  A stored rule may be missing or unknown.                 *)

Rule == {"public", "authed", "admin"}

StoredRule == Rule \cup {"", "root"}

Normalize(r) == IF r \in Rule THEN r ELSE "authed"

RuleName == {"list", "view", "create", "update", "delete"}

\* CollectionMeta; the one without fields stands for no collection at all.
Meta == [fields : Seq(Field), rules : [RuleName -> StoredRule]]

NoMeta == [fields |-> <<>>, rules |-> [n \in RuleName |-> ""]]

\* CollectionPatch: nil fields and rules that are not named are left alone.
PatchType == [keep : BOOLEAN, fields : Seq(Field),
              rules : UNION {[S -> StoredRule] : S \in SUBSET RuleName}]

LegalPatch(patch) == patch.keep \/ validateFields(patch.fields)

\* UpdateCollection: the patch over what the collection's metadata held.
Patched(meta, patch) ==
    [fields |-> IF patch.keep THEN meta.fields ELSE patch.fields,
     rules |-> [n \in RuleName |->
        IF n \in DOMAIN patch.rules THEN Normalize(patch.rules[n]) ELSE meta.rules[n]]]
=============================================================================
