----------------------------- MODULE MCPipeline -----------------------------
EXTENDS Pipeline

(* Two of the site's three sensors have a node, and one of them changes.  Two  *)
(* equal readings and the third sensor's zero make an outlier, two different    *)
(* ones none that is the zero.                                                  *)
SiteNodes  == {"1", "2"}
SiteValues == [k \in SiteNodes |-> IF k = "1" THEN {1, 3} ELSE {1}]
=============================================================================
