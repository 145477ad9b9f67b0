---------------------------- MODULE MCLeafDispatch ----------------------------
(***************************************************************************)
(* The TLC instance of LeafDispatch: a wiki of three nested directories    *)
(* with a page in each.                                                    *)
(***************************************************************************)
EXTENDS LeafDispatch

CONSTANTS root, sub, deep, p1, p2, p3

File(p) == [name |-> "page.md", to |-> p]
Dir(d) == [name |-> "other", to |-> d]
Nested == (root :> <<Dir(sub), File(p1)>>) @@ (sub :> <<Dir(deep), File(p2)>>) @@ (deep :> <<File(p3)>>)

NoMatter == [p \in Pages |-> [f \in Fields \ {"path"} |-> "absent"]]
FullMatter == [p \in Pages |-> [f \in Fields \ {"path"} |-> IF p = p3 /\ f = "covers" THEN "malformed" ELSE "full"]]
InOrder == (p1 :> 1) @@ (p2 :> 2) @@ (p3 :> 3)
Doubled == (p1 :> 2) @@ (p2 :> 1) @@ (p3 :> 1)

\* Two links anywhere in the wiki, before or after what is there.
Links == [name : {"page.md", "other", ".hidden"}, to : Targets]
Linked ==
  {[entries |-> IF first THEN [Nested EXCEPT ![d] = <<x>> \o @, ![e] = <<y>> \o @]
                ELSE [Nested EXCEPT ![d] = @ \o <<x>>, ![e] = @ \o <<y>>],
    id |-> ids, matches |-> [p \in Pages |-> {}], escalation_from |-> [p \in Pages |-> {}],
    matter |-> NoMatter] :
     first \in BOOLEAN, d \in {root, sub}, e \in {sub, deep}, x \in Links, y \in Links,
     ids \in {[InOrder EXCEPT ![p1] = 0]}}

\* A change that matches one page, or several of one id, and every
\* escalation from at most one id.
Signalled ==
  {[entries |-> Nested, id |-> InOrder, matches |-> [p \in Pages |-> IF p = q THEN s ELSE {}],
    escalation_from |-> esc, matter |-> FullMatter] :
     q \in Pages, s \in {{"file_globs"}, {"keyword_matches"}}, esc \in [Pages -> {{}, {1}, {2}, {3}}]}
  \cup
  {[entries |-> Nested, id |-> Doubled, matches |-> m, escalation_from |-> esc, matter |-> FullMatter] :
     m \in [Pages -> {{}, {"file_globs"}, {"keyword_matches"}}], esc \in [Pages -> {{}, {1}}]}

ReviewerWikis == Linked \cup Signalled

ModelStyles == {[f \in Fields |-> "echo"], [f \in Fields |-> "empty"],
                [f \in Fields |-> IF f = "covers" THEN "empty" ELSE "own"]}
StrayIds == {{}, {1}, {4}}
SecurityPages == {p2}
=============================================================================
