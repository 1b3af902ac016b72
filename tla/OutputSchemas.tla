--------------------------- MODULE OutputSchemas ---------------------------
(***************************************************************************)
(* What a custom output schema of a judge stage must hold before it is     *)
(* stored (backend/app/judge/schema_validate.py).  A schema is abstracted  *)
(* to what the check looks at: whether it is an object with properties,    *)
(* whether it keeps to the supported keywords and types, and, for each     *)
(* path of a core field, the types it declares and whether it has an enum. *)
(***************************************************************************)
EXTENDS FiniteSets

Stages == {"feedback", "checklist", "ideal", "merged"}

Verdicts ==
  {<<"verdicts", "array">>,                  <<"verdicts[].checklist_item_id", "string">>,
   <<"verdicts[].answer", "string">>,        <<"verdicts[].confidence", "number">>,
   <<"verdicts[].evidence_quote", "string">>, <<"verdicts[].needs_review", "boolean">>}

\* _CONTRACTS: the core fields of each stage with their kinds.
Contracts ==
  [feedback  |->
     {<<"summary", "string">>, <<"coaching", "string">>, <<"compliance", "string">>,
      <<"feedback", "object">>, <<"feedback.strengths", "array">>,
      <<"feedback.development", "array">>, <<"objections", "array">>,
      <<"objections[].text", "string">>},
   checklist |-> Verdicts,
   ideal     |->
     {<<"already_ideal", "boolean">>, <<"ideal_conversation", "array">>,
      <<"ideal_conversation[].speaker", "string">>, <<"ideal_conversation[].text", "string">>},
   merged    |->
     Verdicts \cup
     {<<"feedback", "object">>, <<"feedback.summary", "string">>,
      <<"feedback.coaching", "string">>, <<"feedback.compliance", "string">>,
      <<"feedback.feedback", "object">>, <<"feedback.objections", "array">>,
      <<"feedback.objections[].text", "string">>}]

\* _kind_ok: an integer passes for a number, an enum without a type for a string.
KindOk(node, kind) ==
  \/ kind \in node.types
  \/ kind = "number" /\ "integer" \in node.types
  \/ kind = "string" /\ node.enum

\* validate_output_schema.
ValidSchema(stage, schema) ==
  /\ stage \in Stages
  /\ schema.object /\ schema.supported
  /\ \A c \in Contracts[stage] :
       c[1] \in DOMAIN schema.fields /\ KindOk(schema.fields[c[1]], c[2])

=============================================================================
