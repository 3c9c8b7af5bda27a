------------------------------ MODULE MCComments ------------------------------
(* Comments for TLC: ann and bob are administrators, cho reads along.      *)
EXTENDS Comments, TLC

CONSTANTS ann, bob, cho, hello, toCho, c1, c2

Mentioned == [b \in Bodies \union {Blank} |-> IF b = toCho THEN {cho} ELSE {}]
Roles0 == [u \in Users |-> IF u = cho THEN "member" ELSE "administrator"]
BobToViewer == {<<bob, "viewer">>}

\* ann and bob each write a comment that the other wants to remove; ann's text
\* mentions cho until she edits it, and bob tries his hand at her text.
CrossCalls ==
  { [op |-> "create", actor |-> ann, comment |-> c1, body |-> toCho],
    [op |-> "create", actor |-> ann, comment |-> c1, body |-> Blank],
    [op |-> "create", actor |-> bob, comment |-> c2, body |-> hello],
    [op |-> "edit", actor |-> ann, comment |-> c1, body |-> hello],
    [op |-> "edit", actor |-> bob, comment |-> c1, body |-> hello],
    [op |-> "delete", actor |-> bob, comment |-> c1],
    [op |-> "delete", actor |-> bob, comment |-> c2],
    [op |-> "redact", actor |-> ann, comment |-> c2] }
=============================================================================
