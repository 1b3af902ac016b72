----------------------------- MODULE Templates -----------------------------
(***************************************************************************)
(* The report template language (backend/app/reports/template.py): a       *)
(* template is checked against the data dictionary when it is uploaded and *)
(* rendered, much later, from the data of one report.                      *)
(*                                                                         *)
(* A template is the sequence of its tags: [tag, name], the name a         *)
(* sequence of the parts between its dots.  Text between tags is left out, *)
(* and of the rendered page only which references found nothing.           *)
(***************************************************************************)
EXTENDS SequencesExt

CONSTANTS
  Tags,       \* the tags templates are written with
  MaxTags     \* bound: tags in a template

ASSUME TemplatesAssumption ==
  /\ \A t \in Tags : t.tag \in {"var", "#", "^", "/"} /\ Len(t.name) >= 1
  /\ MaxTags \in Nat

Empty == <<>>
Scalar  == [kind |-> "scalar",  of |-> Empty]
Bool    == [kind |-> "bool",    of |-> Empty]
Dynamic == [kind |-> "dynamic", of |-> Empty]
Nothing == [kind |-> "none",    of |-> Empty]
ListOf(fields) == [kind |-> "list", of |-> fields]

\* DATA_FIELDS, one field of each kind and the two lists whose fields share a name.
DataFields ==
  [summary        |-> Scalar,
   has_objections |-> Bool,
   strengths      |-> ListOf(Empty),
   items          |-> ListOf([text |-> Scalar, answer |-> Scalar, needs_review |-> Bool]),
   objections     |-> ListOf([text |-> Scalar, category |-> Scalar, cleared |-> Bool]),
   extra          |-> Dynamic]

-----------------------------------------------------------------------------
(***************************************************************************)
(* Upload: validate_template.                                              *)
(***************************************************************************)

\* Fault: a dotted name is good when its head is.
HeadOnly(name, stack) ==
  LET at == {i \in DOMAIN stack : stack[i] = Dynamic \/ Head(name) \in DOMAIN stack[i].of}
  IN  IF at = {} THEN Nothing
      ELSE IF stack[Max(at)] = Dynamic THEN Dynamic ELSE stack[Max(at)].of[Head(name)]

\* _resolve: the innermost section that knows the head decides.  No field of the
\* dictionary is an object, so only "extra" has anything after a dot.
Resolve(name, stack) ==
  LET at == {i \in DOMAIN stack : stack[i] = Dynamic \/ Head(name) \in DOMAIN stack[i].of}
      node == stack[Max(at)].of[Head(name)]
  IN  IF at = {} THEN Nothing
      ELSE IF stack[Max(at)] = Dynamic \/ node = Dynamic THEN Dynamic
      ELSE IF Len(name) = 1 THEN node ELSE Nothing

IsDot(t) == t.name = <<".">>

\* One turn of the loop of validate_template.
Check(acc, t) ==
  LET node == Resolve(t.name, acc.stack)
      section == IF node = Dynamic THEN Dynamic ELSE ListOf(node.of)
  IN  CASE ~acc.ok -> acc
        [] acc.ok /\ t.tag = "var" ->
             [acc EXCEPT !.ok = IF IsDot(t) THEN acc.open # <<>> ELSE node # Nothing]
        [] acc.ok /\ t.tag \in {"#", "^"} ->
             [ok |-> node # Nothing, open |-> Append(acc.open, t.name),
              stack |-> Append(acc.stack, section)]
        [] acc.ok /\ t.tag = "/" ->
             IF acc.open = <<>> \/ Last(acc.open) # t.name THEN [acc EXCEPT !.ok = FALSE]
             ELSE [ok |-> TRUE, open |-> Front(acc.open), stack |-> Front(acc.stack)]

Valid(template) ==
  LET end == FoldLeft(Check, [ok |-> TRUE, open |-> <<>>, stack |-> <<ListOf(DataFields)>>],
                      template)
  IN  end.ok /\ end.open = <<>>

-----------------------------------------------------------------------------
(***************************************************************************)
(* Download: build_context and render_template.  A value is [kind, of]: of *)
(* is a truth value, a sequence of contexts, or one context.               *)
(***************************************************************************)
Text == [kind |-> "scalar", of |-> TRUE]
Flag(b) == [kind |-> "bool", of |-> b]
Values(s) == [kind |-> "list", of |-> s]
Fields(f) == [kind |-> "dict", of |-> f]
Absent == [kind |-> "none", of |-> FALSE]

\* build_context: every field is there, whatever the report holds.
BuildContext(report) ==
  Fields([summary        |-> Text,
          has_objections |-> Flag(report.objections # <<>>),
          strengths      |-> Values(report.strengths),
          items          |-> Values(report.items),
          objections     |-> Values(report.objections),
          extra          |-> Fields(Empty)])

Report ==
  LET item(b) == Fields([text |-> Text, answer |-> Text, needs_review |-> Flag(b)])
      objection(b) == Fields([text |-> Text, category |-> Text, cleared |-> Flag(b)])
  IN  [strengths  : {<<>>, <<Text>>},
       items      : {<<>>, <<item(TRUE), item(FALSE)>>},
       objections : {<<>>, <<objection(TRUE)>>, <<objection(FALSE)>>}]

\* _lookup in a stack of contexts, innermost first.
Lookup(name, stack) ==
  LET at == {i \in DOMAIN stack : stack[i].kind = "dict" /\ Head(name) \in DOMAIN stack[i].of}
  IN  IF name = <<".">> THEN Last(stack)
      ELSE IF at = {} THEN Absent
      ELSE IF Len(name) = 1 THEN stack[Max(at)].of[Head(name)] ELSE Absent

Truthy(v) ==
  CASE v.kind \in {"list", "dict"} -> DOMAIN v.of # {}
    [] OTHER -> v.of

\* The stacks a block after a # tag is rendered with: one for each element of a list.
Entered(name, stack) ==
  LET v == Lookup(name, stack)
  IN  IF v.kind = "list" THEN {Append(stack, v.of[i]) : i \in DOMAIN v.of}
      ELSE IF Truthy(v) THEN {Append(stack, IF v.kind = "dict" THEN v ELSE Fields(Empty))}
      ELSE {}

\* One tag of render_block, for all the stacks its block is rendered with.  "beside" marks
\* a block where a reference may rightly find nothing: the block of an empty list, and
\* whatever belongs to the free-form "extra".
Render(acc, t) ==
  LET level == Last(acc.levels)
      extra == Head(t.name) = "extra"
      list(stack) == Lookup(t.name, stack).kind = "list"
  IN  CASE t.tag = "var" ->
             IF level.beside \/ extra \/ \A s \in level.stacks : Lookup(t.name, s) # Absent
             THEN acc ELSE [acc EXCEPT !.lost = @ \cup {t.name}]
        [] t.tag = "#" ->
             [acc EXCEPT !.levels = Append(@,
                [stacks |-> UNION {Entered(t.name, s) : s \in level.stacks},
                 beside |-> level.beside \/ extra])]
        [] t.tag = "^" ->
             [acc EXCEPT !.levels = Append(@,
                [stacks |-> {s \in level.stacks : ~Truthy(Lookup(t.name, s))},
                 beside |-> level.beside \/ extra \/ \E s \in level.stacks : list(s)])]
        [] t.tag = "/" -> [acc EXCEPT !.levels = Front(@)]

\* The references of a template that find nothing in a report.
Lost(template, report) ==
  FoldLeft(Render,
           [levels |-> <<[stacks |-> {<<BuildContext(report)>>}, beside |-> FALSE]>>,
            lost |-> {}],
           template).lost

Template == BoundedSeq(Tags, MaxTags)
Accepted == {t \in Template : Valid(t)}
Unfound  == {t \in Accepted : \E r \in Report : Lost(t, r) # {}}

=============================================================================
