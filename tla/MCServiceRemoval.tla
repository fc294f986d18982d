--------------------------- MODULE MCServiceRemoval ---------------------------
EXTENDS ServiceRemoval, TLC
\* Names stand for their slugs: names with the same slug are one name here.
\* web-blue is also the blue project of web.
MCSlug == [n \in Names |-> IF n = "web-blue" THEN <<"web", "blue">> ELSE <<n>>]
MCSymmetry == Permutations(Apps)
===============================================================================
