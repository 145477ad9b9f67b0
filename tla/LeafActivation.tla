---------------------------- MODULE LeafActivation ----------------------------
(***************************************************************************)
(* Which reviewers a change calls for.  handle_activate_leaves walks the   *)
(* wiki of reviewers (_enumerate_wiki_leaves), lists every page with an    *)
(* id, and activates the leaves whose own signals match the change and     *)
(* then, to a fixpoint, the leaves that escalate from activated ones       *)
(* (_evaluate_activation).                                                 *)
(*                                                                         *)
(* A wiki is its directories' listings in name order, an entry being the   *)
(* kind of its name and the real file or directory it resolves to, and     *)
(* what the front matter of its pages says.  Whether a glob, a keyword or  *)
(* a structural signal matches the change is part of the wiki: any set of  *)
(* signals is possible for any page.  Ids are compared by the code, so     *)
(* they are numbers, 0 standing for a page without one.                    *)
(***************************************************************************)
EXTENDS Naturals, Sequences, FiniteSets, SequencesExt

CONSTANTS
  Root,      \* the real path of the wiki
  Dirs,      \* the real directories inside it
  Pages,     \* the real files inside it
  NumIds,
  Wikis      \* the wikis of an instance

Ids == 1..NumIds
Signals == {"file_globs", "keyword_matches", "structural_signals"}
Fields == {"path", "dimensions", "covers", "audit_surface"}
Names == {"page.md", "index.md", ".hidden", "other"}
Targets == Dirs \cup Pages \cup {"outside", "dangling"}

ASSUME ActivationAssumption ==
  /\ NumIds \in Nat /\ IsFiniteSet(Dirs) /\ Root \in Dirs
  /\ \A w \in Wikis :
       /\ w.entries \in [Dirs -> Seq([name : Names, to : Targets])]
       /\ w.id \in [Pages -> 0..NumIds]
       /\ w.matches \in [Pages -> SUBSET Signals]
       /\ w.escalation_from \in [Pages -> SUBSET Ids]
       /\ w.matter \in [Pages -> [Fields \ {"path"} -> {"absent", "malformed", "full"}]]

VARIABLES
  wiki,
  phase,            \* "walk", "signals", "escalate", "descend", "faulted" and what LeafDispatch adds
  stack, visited,   \* the walk: directories to list, directories ever pushed
  leaves,           \* the pages found, in order of discovery, then by id
  diff_text,        \* whether git produced the text of the change
  passes,           \* of the escalation
  activated,        \* id -> the page it stands for and the signals that fired
  activated_leaves

walkVars == <<stack, visited>>
activationVars == <<wiki, phase, walkVars, leaves, diff_text, passes, activated, activated_leaves>>

\* Mutant: the root is not marked as visited before the walk.
ActivationInitUnmarked ==
  /\ wiki \in Wikis
  /\ phase = "walk"
  /\ stack = <<Root>> /\ visited = {}
  /\ leaves = <<>>
  /\ diff_text = FALSE
  /\ passes = 0 /\ activated = <<>> /\ activated_leaves = <<>>

ActivationInit ==
  /\ wiki \in Wikis
  /\ phase = "walk"
  /\ stack = <<Root>> /\ visited = {Root}
  /\ leaves = <<>>
  /\ diff_text = FALSE
  /\ passes = 0 /\ activated = <<>> /\ activated_leaves = <<>>

\* A set of numbers in order.
Ordered(S) ==
  [n \in 1..Cardinality(S) |-> CHOOSE i \in S : Cardinality({j \in S : j < i}) = n - 1]

-----------------------------------------------------------------------------
(* The walk.                                                               *)

\* Hidden entries, dangling links and links out of the wiki are passed over.
Visible(e) == e.name # ".hidden" /\ e.to \in Dirs \cup Pages

\* What the entries at some places of a listing resolve to, in its order.
TargetsAt(entries, places) ==
  [n \in 1..Cardinality(places) |-> entries[Ordered(places)[n]].to]

\* Directories are entered once, whatever links lead to them.
Entered(entries, seen) ==
  LET Fresh(k) == Visible(entries[k]) /\ entries[k].to \in Dirs \ seen
  IN TargetsAt(entries, {k \in DOMAIN entries :
                           Fresh(k) /\ \A j \in 1..(k - 1) : ~(Fresh(j) /\ entries[j].to = entries[k].to)})

\* A page is listed under each name it is reached by.
IsLeaf(e) == Visible(e) /\ e.name = "page.md" /\ e.to \in Pages /\ wiki.id[e.to] # 0
Listed(entries) == TargetsAt(entries, {k \in DOMAIN entries : IsLeaf(entries[k])})

\* The sort is stable: pages of one id keep the order of discovery.
SortedById(pages) ==
  LET Before(j, k) ==
        \/ wiki.id[pages[j]] < wiki.id[pages[k]]
        \/ wiki.id[pages[j]] = wiki.id[pages[k]] /\ j < k
      place(n) ==
        CHOOSE k \in DOMAIN pages : Cardinality({j \in DOMAIN pages : Before(j, k)}) = n - 1
  IN [n \in DOMAIN pages |-> pages[place(n)]]

Visit ==
  /\ phase = "walk" /\ stack # <<>>
  /\ LET entries == wiki.entries[Last(stack)]
         new == Entered(entries, visited)
     IN /\ leaves' = leaves \o Listed(entries)
        /\ stack' = Front(stack) \o new
        /\ visited' = visited \cup ToSet(new)
  /\ UNCHANGED <<wiki, phase, diff_text, passes, activated, activated_leaves>>

\* _fetch_diff_text gives the empty text when a revision is missing, git
\* cannot be run, fails or takes too long.
WalkEnds ==
  /\ phase = "walk" /\ stack = <<>>
  /\ leaves' = SortedById(leaves)
  /\ diff_text' \in BOOLEAN
  /\ phase' = "signals"
  /\ UNCHANGED <<wiki, walkVars, passes, activated, activated_leaves>>

\* A diff that is no text raises UnicodeDecodeError out of the handler.
DiffRaises ==
  /\ phase = "walk" /\ stack = <<>>
  /\ phase' = "faulted"
  /\ UNCHANGED <<wiki, walkVars, leaves, diff_text, passes, activated, activated_leaves>>

-----------------------------------------------------------------------------
(* The gate.                                                               *)

Fired(p) ==
  IF diff_text THEN wiki.matches[p] ELSE wiki.matches[p] \ {"keyword_matches"}

\* Of the pages with one id that fire, the last listed one replaces the others.
FirstPass(pages) ==
  LET Firing(i) == {k \in DOMAIN pages : wiki.id[pages[k]] = i /\ Fired(pages[k]) # {}}
      Winner(i) == pages[Max(Firing(i))]
  IN [i \in {j \in Ids : Firing(j) # {}} |-> [page |-> Winner(i), signals |-> Fired(Winner(i))]]

\* A leaf that is not activated yet and escalates from one that is joins it.
EscalateLeaf(sofar, p) ==
  IF wiki.id[p] \in DOMAIN sofar \/ wiki.escalation_from[p] \cap DOMAIN sofar = {} THEN sofar
  ELSE [i \in DOMAIN sofar \cup {wiki.id[p]} |->
          IF i = wiki.id[p] THEN [page |-> p, signals |-> {"escalation_from"}] ELSE sofar[i]]

\* A leaf activated in this pass counts for the leaves after it.
Escalated(pages, before) ==
  LET sofar[n \in 0..Len(pages)] ==
        IF n = 0 THEN before ELSE EscalateLeaf(sofar[n - 1], pages[n])
  IN sofar[Len(pages)]

OwnSignals ==
  /\ phase = "signals"
  /\ activated' = FirstPass(leaves)
  /\ phase' = "escalate"
  /\ UNCHANGED <<wiki, walkVars, leaves, diff_text, passes, activated_leaves>>

\* A field of the front matter that does not validate is left out.
Projected(p) ==
  [f \in Fields |->
     IF f = "path" \/ wiki.matter[p][f] = "full" THEN "full" ELSE "absent"]

ActivatedLeaves(act) ==
  LET ids == Ordered(DOMAIN act)
  IN [n \in DOMAIN ids |-> [id |-> ids[n], fields |-> Projected(act[ids[n]].page)]]

\* Mutant: a single pass over the leaves in id order.
EscalateOnce ==
  /\ phase = "escalate"
  /\ passes' = passes + 1
  /\ activated' = Escalated(leaves, activated)
  /\ phase' = "descend" /\ activated_leaves' = ActivatedLeaves(activated')
  /\ UNCHANGED <<wiki, walkVars, leaves, diff_text>>

\* One pass, and the end of the loop when it changed nothing or the cap of
\* one more pass than there are leaves is met.
Escalate ==
  /\ phase = "escalate"
  /\ passes' = passes + 1
  /\ activated' = Escalated(leaves, activated)
  /\ IF activated' # activated /\ passes' < Len(leaves) + 1
     THEN UNCHANGED <<phase, activated_leaves>>
     ELSE phase' = "descend" /\ activated_leaves' = ActivatedLeaves(activated')
  /\ UNCHANGED <<wiki, walkVars, leaves, diff_text>>

ActivationNext == Visit \/ WalkEnds \/ DiffRaises \/ OwnSignals \/ Escalate

-----------------------------------------------------------------------------
(* Properties.                                                             *)

\* The least set that holds Start and is closed under Step.
Least(S, start, Step(_)) ==
  {x \in S : \A T \in SUBSET S : start \subseteq T /\ (\A y \in T : Step(y) \subseteq T) => x \in T}

Inside(d) ==
  {wiki.entries[d][k].to : k \in {j \in DOMAIN wiki.entries[d] : Visible(wiki.entries[d][j])}} \cap Dirs
ReachableDirs == Least(Dirs, {Root}, Inside)

\* Whatever the links, the walk of _enumerate_wiki_leaves lists nothing
\* outside the wiki and no reviewer more often than it has visible .md
\* names in directories that can be reached, and at its end exactly as
\* often: a cycle neither repeats a reviewer nor hides one.
WikiWalked ==
  phase \in {"walk", "signals"} =>
    \A p \in Pages :
      LET Shows(d) == {k \in DOMAIN wiki.entries[d] :
                         wiki.entries[d][k].to = p /\ IsLeaf(wiki.entries[d][k])}
          names == UNION {{d} \X Shows(d) : d \in ReachableDirs}
          times == Cardinality({k \in DOMAIN leaves : leaves[k] = p})
      IN times <= Cardinality(names) /\ (phase = "signals" => times = Cardinality(names))

\* The activated reviewers are the least set that holds those with a signal
\* of their own and, with a reviewer, those that escalate from it: neither
\* the order of the ids nor the cap on the passes loses one, none activates
\* itself, and a diff that could not be fetched silences keywords only.
ActivatedIsClosure ==
  phase = "descend" =>
    LET own == {wiki.id[leaves[k]] : k \in {j \in DOMAIN leaves : Fired(leaves[j]) # {}}}
        Escalating(i) ==
          {wiki.id[leaves[k]] : k \in {j \in DOMAIN leaves : i \in wiki.escalation_from[leaves[j]]}}
    IN /\ DOMAIN activated = Least(Ids, own, Escalating)
       /\ \A i \in DOMAIN activated :
            (activated[i].signals = {"escalation_from"}) <=> (i \notin own)
=============================================================================
