------------------------------ MODULE MCHyperDoc ------------------------------
(* HyperDoc with two windows, two pages of Lisp, a page that is broken, a      *)
(* missing one, and a worksheet whose last command needs the others.           *)
EXTENDS HyperDoc

MCStatic == {"root", "unknown", "error", "quit", "notconnected", "help", "nohelp",
             "sheet", "broken"}
MCTargets == [p \in Pages |-> CASE p = "root" -> {"sheet", "broken", "missing"}
                                 [] p = "sheet" -> {"root", "broken"}
                                 [] p \in LispPages -> {"sheet"}
                                 [] OTHER -> {}]
MCLispLinksOn == {"sheet"} \cup LispPages
MCNeeds == [c \in Commands |-> CASE c = "x" -> <<>> [] c = "y" -> <<"x">>
                                 [] c = "z" -> <<"x", "y">>]
===============================================================================
