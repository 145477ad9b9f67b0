----------------------------- MODULE LeafDispatch -----------------------------
(***************************************************************************)
(* How the activated leaves travel through the two language model calls    *)
(* that narrow them (tree_descend, llm_trim) to the specialists' prompts:  *)
(* dispatch_worker strips the heavy fields, cuts the prompt at a cap,      *)
(* classifies what the backend answers, and re-attaches the stripped       *)
(* fields by id; dispatch_specialist then takes the leaf's body and the    *)
(* model tier from what is left.                                           *)
(*                                                                         *)
(* A field is "absent", "full" as the wiki has it, "thin" as the prompt    *)
(* shows it, or the model's "own".  A model answers with any part of the   *)
(* leaves it was shown, each field echoed, emptied or rewritten, and with  *)
(* leaves it was not shown.                                                *)
(***************************************************************************)
EXTENDS LeafActivation

CONSTANTS
  PromptCap,     \* what the call's other inputs leave of _WORKER_INPUT_CAP, in
                 \* light fields
  HeavyWeight,   \* of a covers or audit_surface list against a light field
  Styles,        \* what a model does with each field of the leaves it keeps
  Strays,        \* bound: the sets of ids a model may name without being shown
  MaxRetries,
  Security,      \* the pages whose dimensions ask for the strong tier
  StrongIds      \* the ids whose prefix does

ASSUME DispatchAssumption ==
  /\ PromptCap \in Nat /\ HeavyWeight \in Nat /\ MaxRetries \in Nat
  /\ Styles \subseteq [Fields -> {"echo", "empty", "own"}]
  /\ Strays \subseteq SUBSET (Ids \cup {NumIds + 1})
  /\ Security \subseteq Pages /\ StrongIds \subseteq Ids

VARIABLES
  attempts,              \* of the current call
  stage_a_candidates, picked_leaves,
  prompts                \* picked id -> the leaf its specialist is given

dispatchVars == <<attempts, stage_a_candidates, picked_leaves, prompts>>
vars == <<activationVars, dispatchVars>>

Init ==
  /\ ActivationInit
  /\ attempts = 0
  /\ stage_a_candidates = <<>> /\ picked_leaves = <<>> /\ prompts = <<>>

IdsIn(list) == {list[k].id : k \in DOMAIN list}
LastWith(list, i) == list[Max({k \in DOMAIN list : list[k].id = i})]

-----------------------------------------------------------------------------
(* The prompt.                                                             *)

Heavy == {"covers", "audit_surface"}

\* Mutant: the audit surface is forgotten among the heavy fields.
CompactLeafCoversOnly(leaf) ==
  [leaf EXCEPT !.fields["covers"] = IF @ = "full" THEN "thin" ELSE @]

\* audit_surface is dropped and covers cut to its first three items.
CompactLeaf(leaf) ==
  [id |-> leaf.id,
   fields |-> [leaf.fields EXCEPT !["audit_surface"] = "absent",
                                  !["covers"] = IF @ = "full" THEN "thin" ELSE @]]

CompactInputs(list) == [k \in DOMAIN list |-> CompactLeaf(list[k])]

Weight(leaf) ==
  1 + HeavyWeight * Cardinality({f \in Heavy : leaf.fields[f] = "full"})
    + Cardinality({f \in Heavy : leaf.fields[f] \in {"thin", "own"}})

\* The leaves before the one the cap cuts through; Upto sums the weights.
Shown(list) ==
  LET compact == CompactInputs(list)
      Upto(n) == Cardinality(UNION {{k} \X (1..Weight(compact[k])) : k \in 1..n})
  IN SubSeq(compact, 1, Max({n \in 0..Len(compact) : Upto(n) <= PromptCap}))

-----------------------------------------------------------------------------
(* The answer.                                                             *)

\* What a backend can come back with: how the call ended and what its text says.
Outcomes ==
  [how : {"timeout", "exit", "error", "text"},
   says : {"rate limit", "too long", "nothing", "prose", "other json", "object"}]

RaiseForSignal(says, otherwise) ==
  CASE says = "rate limit" -> "RateLimitError"
    [] says = "too long" -> "ContextOverflowError"
    [] OTHER -> otherwise

\* The backends and _parse_json: what dispatch_worker returns or raises.  A
\* JSON value that is no object is wrapped and fails the engine's validation.
Result(o) ==
  CASE o.how = "timeout" -> "RateLimitError"
    [] o.how \in {"exit", "error"} -> RaiseForSignal(o.says, "RuntimeError")
    [] o.says = "object" -> "leaves"
    [] o.says = "other json" -> "invalid"
    [] OTHER -> RaiseForSignal(o.says, "RateLimitError")

\* A leaf as the model writes it, from what it was shown.
Written(leaf, style) ==
  [id |-> leaf.id,
   fields |-> [f \in Fields |-> CASE style[f] = "echo" -> leaf.fields[f]
                                  [] style[f] = "empty" -> "absent"
                                  [] style[f] = "own" -> "own"]]

Blank == [f \in Fields |-> "absent"]

\* Some of the leaves shown, in the order shown, and then the strays.
Answer(shown, part, strays, style) ==
  LET places == Ordered(part)
      ids == Ordered(strays)
  IN [n \in DOMAIN places |-> Written(shown[places[n]], style)]
       \o [n \in DOMAIN ids |-> Written([id |-> ids[n], fields |-> Blank], style)]

Answers(list) ==
  LET shown == Shown(list)
  IN {Answer(shown, part, strays, style) :
        part \in SUBSET DOMAIN shown, strays \in Strays, style \in Styles}

\* Mutant: whatever the model wrote, nulls included, replaces the source's field.
RehydrateWithNulls(picked, source) ==
  [k \in DOMAIN picked |->
     IF picked[k].id \in IdsIn(source)
     THEN [picked[k] EXCEPT !.fields["audit_surface"] =
             LastWith(source, picked[k].id).fields["audit_surface"]]
     ELSE picked[k]]

\* The source's fields come back unless the model wrote something there.
Rehydrate(picked, source) ==
  LET Merged(leaf, full) ==
        [id |-> leaf.id,
         fields |-> [f \in Fields |->
                       IF leaf.fields[f] = "absent" THEN full.fields[f] ELSE leaf.fields[f]]]
  IN [k \in DOMAIN picked |->
        IF picked[k].id \in IdsIn(source)
        THEN Merged(picked[k], LastWith(source, picked[k].id)) ELSE picked[k]]

-----------------------------------------------------------------------------
(* The two calls and the specialists.                                      *)

CallInput == IF phase = "descend" THEN activated_leaves ELSE stage_a_candidates
Calling == phase \in {"descend", "trim"} /\ CallInput # <<>>

\* An empty list routes to stage_a_empty.
NothingToCall ==
  /\ phase \in {"descend", "trim"} /\ CallInput = <<>>
  /\ phase' = "done"
  /\ UNCHANGED <<wiki, walkVars, leaves, diff_text, passes, activated, activated_leaves, dispatchVars>>

TreeDescend ==
  /\ phase = "descend" /\ Calling
  /\ \E answer \in Answers(activated_leaves) :
       stage_a_candidates' = Rehydrate(answer, activated_leaves)
  /\ phase' = "trim" /\ attempts' = 0
  /\ UNCHANGED <<wiki, walkVars, leaves, diff_text, passes, activated, activated_leaves, picked_leaves, prompts>>

LlmTrim ==
  /\ phase = "trim" /\ Calling
  /\ \E answer \in Answers(stage_a_candidates) :
       picked_leaves' = Rehydrate(answer, stage_a_candidates)
  /\ phase' = "specialists"
  /\ UNCHANGED <<wiki, walkVars, leaves, diff_text, passes, activated, activated_leaves,
                 attempts, stage_a_candidates, prompts>>

\* _call_worker_resilient repeats a call that was rate limited or overflowed.
CallFails ==
  /\ Calling
  /\ \E o \in Outcomes :
       /\ Result(o) # "leaves"
       /\ IF Result(o) \in {"RateLimitError", "ContextOverflowError"} /\ attempts < MaxRetries
          THEN attempts' = attempts + 1 /\ UNCHANGED phase
          ELSE phase' = "faulted" /\ UNCHANGED attempts
  /\ UNCHANGED <<wiki, walkVars, leaves, diff_text, passes, activated, activated_leaves,
                 stage_a_candidates, picked_leaves, prompts>>

\* The body of a leaf is read at the path the leaf came back with; "unknown" is
\* whatever is found, a page or nothing, where a path leads that the model wrote.
Body(leaf) ==
  CASE leaf.fields["path"] = "full" -> activated[leaf.id].page
    [] leaf.fields["path"] = "own" -> "unknown"
    [] OTHER -> "none"

\* Dimensions the model wrote may name the strong ones or not.
RouteTiers(leaf) ==
  CASE leaf.id \in StrongIds -> {"strong"}
    [] leaf.fields["dimensions"] = "own" -> {"strong", "cheap"}
    [] leaf.fields["dimensions"] = "full" /\ activated[leaf.id].page \in Security -> {"strong"}
    [] OTHER -> {"cheap"}

DispatchSpecialists ==
  /\ phase = "specialists"
  /\ LET Leaf(i) == LastWith(picked_leaves, i)
     IN \E tier \in [IdsIn(picked_leaves) -> {"strong", "cheap"}] :
          /\ \A i \in DOMAIN tier : tier[i] \in RouteTiers(Leaf(i))
          /\ prompts' = [i \in DOMAIN tier |->
                           [body |-> Body(Leaf(i)), tier |-> tier[i], fields |-> Leaf(i).fields]]
  /\ phase' = "done"
  /\ UNCHANGED <<wiki, walkVars, leaves, diff_text, passes, activated, activated_leaves,
                 attempts, stage_a_candidates, picked_leaves>>

Activate == ActivationNext /\ UNCHANGED dispatchVars

Ended == phase \in {"done", "faulted"} /\ UNCHANGED vars

Next ==
  \/ Activate
  \/ NothingToCall \/ TreeDescend \/ LlmTrim \/ CallFails
  \/ DispatchSpecialists
  \/ Ended

Spec == Init /\ [][Next]_vars

-----------------------------------------------------------------------------
(* Properties.                                                             *)

\* Every activated leaf is put before the model in the first call, and every
\* candidate in the second, as long as the thin form of the leaves fits the
\* prompt: the cap does not cut off the last ids because the first ones have
\* long lists, not even after the lists were re-attached.
LeavesReachTheModel ==
  phase \in {"descend", "trim"} =>
    (Len(CallInput) * (1 + Cardinality(Heavy)) <= PromptCap =>
       IdsIn(Shown(CallInput)) = IdsIn(CallInput))

\* A leaf that was activated and came through both calls is dispatched with
\* a value in every field the wiki filled: nothing the prompt dropped or a
\* model emptied stays lost, and all of it is whole but what a model wrote
\* itself and a covers list that it copied from the prompt, cut as it was.
\* So unless a model rewrote the path, the specialist reads the leaf's own
\* page, and unless it rewrote the dimensions, a security leaf is not routed
\* to the cheap tier.
MetadataSurvives ==
  \A i \in DOMAIN prompts \cap DOMAIN activated \cap IdsIn(stage_a_candidates) :
    LET page == activated[i].page
        fields == prompts[i].fields
        written == {f \in Fields : fields[f] = "own"}
    IN /\ \A f \in {g \in Fields : Projected(page)[g] = "full"} \ written :
            fields[f] = "full" \/ (f = "covers" /\ fields[f] = "thin")
       /\ "path" \notin written => prompts[i].body = page
       /\ page \in Security /\ Projected(page)["dimensions"] = "full" /\ "dimensions" \notin written
            => prompts[i].tier = "strong"
=============================================================================
