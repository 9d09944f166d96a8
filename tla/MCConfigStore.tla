--------------------------- MODULE MCConfigStore ---------------------------
(***************************************************************************)
(* A goal handling, the menu and two requests of the dashboard over two    *)
(* sections: the gambling one, which the handling edits, and another.      *)
(***************************************************************************)
EXTENDS ConfigStore

CONSTANTS goal, menu, post1, post2

MCHandlers == {goal}
MCRequests == {post1, post2}
MCOrder    == <<"gambling", "stock">>
MCLimits   == {"gambling"}
============================================================================
