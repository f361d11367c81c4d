----------------------------- MODULE MCValidator -----------------------------
(* Three groups of sections: up to three branches that differ in what selects *)
(* them; one branch with every field, in a section with every field; and two  *)
(* branches that match and differ in every field but those.                   *)
EXTENDS Validator

CONSTANTS a1, a2, l1, l2, c1, s1

Branch(prefixes, stricts, authors, labels, ages, comments, statuses) ==
  [prefix : prefixes, strict : stricts, authors : authors, labels : labels,
   age : ages, comments : comments, required_statuses : statuses]

Include(authors, labels, comments, branches) ==
  [authors : authors, labels : labels, comments : comments, branches : branches]

Selectors == Branch(0..MaxPrefix \cup {None}, BOOLEAN, {{}}, {{}}, {None}, {{}}, {{}})
Rules(prefixes) == Branch(prefixes, {FALSE}, {{}, {a1}}, {{}, {l1}}, {1, None},
                          SUBSET Comments, SUBSET Statuses)

SomeSections ==
  Include({{}}, {{}}, {{}}, UNION {[1..n -> Selectors] : n \in 0..3})
  \cup Include({{}, {a1}}, {{}, {l1}}, SUBSET Comments,
               {<<>>} \cup [1..1 -> Rules({1, None})])
  \cup Include({{}}, {{}}, {{}}, [1..2 -> Rules({1})])
=============================================================================
