------------------------------ MODULE MCFriends ------------------------------
(***************************************************************************)
(* The friends screen with a few possible friends, two important rows, and *)
(* one search text that begins some of the names.                          *)
(***************************************************************************)
EXTENDS Friends

\* The object keys order the friends differently from their identifiers.
MCObjectKey == [f \in Friend |-> (f * 2) % 3]

\* Ann is found by the text, Bob is not.
MCMatches == [text \in Text |-> {"Ann"}]
=============================================================================
