----------------------------- MODULE MCSubAgent -----------------------------
(* Small instances of SubAgent for TLC. *)
EXTENDS SubAgentRefinement, TLC

CONSTANTS e1, e2, r1, r2

OneEditor  == {e1}
TwoEditors == {e1, e2}
TwoRegions == {r1, r2}

\* One, two and no TODOs per language, with a language left out in the middle.
MixedPlans == {<<1, 0, 1>>, <<2, 0, 0>>, <<0, 0, 0>>}

\* The empty answer, both hunks of a file, one hunk for each of two files, and
\* one for a file that no TODO of MixedPlans is about.
FewEdits == {{}, {<<1, r1>>, <<1, r2>>}, {<<1, r1>>, <<2, r1>>}, {<<2, r1>>}}

\* The same, and a single hunk for either of two other files.
MoreEdits == FewEdits \cup {{<<1, r1>>}, {<<3, r2>>}}

\* A diff expects the template's text of the files its author was not shown.
TemplateGuess == {[r \in Regions |-> Orig]}

\* A single TODO, for the HTML or the CSS file.
ShortPlans == {<<1, 0, 0>>, <<0, 1, 0>>}
=============================================================================
