--------------------------- MODULE SensitivePaths ---------------------------
(***************************************************************************)
(* sensitive_paths() of schema.py, which finds the paths that               *)
(* FieldProtection walks.  A schema has its mark, its properties as pairs    *)
(* <<name, schema>>, and its items schema as a set of none or one.           *)
(***************************************************************************)
EXTENDS FieldProtection

RECURSIVE CollectSensitive(_, _)
CollectSensitive(schema, at) ==
  (IF schema.marked THEN {at} ELSE {})
    \cup UNION {CollectSensitive(p[2], Append(at, p[1])) : p \in schema.properties}
    \cup UNION {CollectSensitive(s, Append(at, "[]")) : s \in schema.items}

FindSensitivePaths(schema) == CollectSensitive(schema, <<>>)

ASSUME SchemaAssumption ==
  \A c \in DOMAIN Cases : Cases[c].paths = FindSensitivePaths(Cases[c].schema)

(* The schemas that describe the value at an address, step by step.              *)
Step(schemas, step) ==
  UNION {IF step[1] = "[]" THEN s.items ELSE {p[2] : p \in {q \in s.properties : q[1] = step[1]}}
           : s \in schemas}
Describing(schema, at) == FoldLeft(Step, {schema}, at)

(* schema.py sensitive_paths(): "every property a schema marked": the values at   *)
(* the paths it reports are those whose own schema has the mark, "nested objects" *)
(* and "array item schemas" included.                                            *)
FindsEveryMark(schema, data) ==
  \A at \in DOMAIN data :
    Spelt(at) \in FindSensitivePaths(schema) <=> \E s \in Describing(schema, at) : s.marked

=============================================================================
