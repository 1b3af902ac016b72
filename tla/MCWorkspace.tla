---------------------------- MODULE MCWorkspace ----------------------------
(* Workspace with small sets of inputs. *)
EXTENDS Workspace, TLC

Var(name) == [tag |-> "var", name |-> name]
Open1(name) == [tag |-> "#", name |-> name]
Unless(name) == [tag |-> "^", name |-> name]
Close(name) == [tag |-> "/", name |-> name]

MCTags ==
  {Var(<<"text">>), Var(<<"category">>), Var(<<"objections", "text">>),
   Open1(<<"objections">>), Unless(<<"objections">>), Close(<<"objections">>),
   Open1(<<"cleared">>), Close(<<"cleared">>)}

\* A page with a nested list, a page that misses a field, a page with an open section.
MCDrafts ==
  {<<Open1(<<"objections">>), Var(<<"text">>), Close(<<"objections">>)>>,
   <<Var(<<"category">>)>>, <<Open1(<<"items">>), Var(<<"answer">>)>>}

Full == [object |-> TRUE, supported |-> TRUE,
         fields |-> [path \in {c[1] : c \in Contracts["checklist"]} |->
           [types |-> {CHOOSE k \in {"array", "string", "number", "boolean"} :
                         <<path, k>> \in Contracts["checklist"]}, enum |-> FALSE]]]
MCSchemas == {Full, [Full EXCEPT !.fields["verdicts[].confidence"].types = {"string"}]}
MCPrompts == {<<>>, <<"body">>}

Symmetry == Permutations(Session)
=============================================================================
