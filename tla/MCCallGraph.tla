---------------------------- MODULE MCCallGraph ----------------------------
EXTENDS CallGraph

\* The last name is a function that calls nothing, so that a chain through all
\* the others ends beyond the cap.  Each of them is undefined, or defined once
\* with any callees but itself, or only itself, or defined twice.
Leaf == CHOOSE n \in Names : \A k \in Names : k <= n
Bodies ==
  [n \in Names |->
     IF n = Leaf THEN {<<{}>>}
     ELSE {<<>>, <<{n}>>, <<Names \ {n}, {}>>} \cup {<<c>> : c \in SUBSET (Names \ {n})}]
=============================================================================
