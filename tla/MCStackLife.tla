---------------------------- MODULE MCStackLife ----------------------------
(* Two resources, b depending on a.  An update changes a and drops b, or    *)
(* changes a back and adds b.                                              *)
EXTENDS StackLife

MCNames     == {"a", "b"}
MCRequires  == [n \in MCNames |-> IF n = "b" THEN {"a"} ELSE {}]
MCTemplates == {[a |-> 1, b |-> 1], [a |-> 2, b |-> 0]}
=============================================================================
