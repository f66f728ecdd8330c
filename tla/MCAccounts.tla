----------------------------- MODULE MCAccounts -----------------------------
(***************************************************************************)
(* Two accounts with a friend in common and one of their own each, and the *)
(* fragments a login page can end with.                                    *)
(***************************************************************************)
EXTENDS Accounts

CONSTANTS ann, bob, one, two, f1, f2, f3, junk

MCAccount == {ann, bob}
MCNumber  == {one, two}
MCValue   == {Empty, ann, bob, one, two, junk}
MCFriend  == {f1, f2, f3}
MCFriendsOf == [a \in MCAccount |-> IF a = ann THEN {f1, f2} ELSE {f2, f3}]

Piece(key, value) == [key |-> key, value |-> value]

\* Grants, one of which repeats a key, and two that no server gives but the code
\* takes: an empty token and one of nobody; a token without an id, with an id
\* that is not a number and with an empty one; a refusal; an empty fragment and
\* a flag without "=".
MCFragment ==
  {<<Piece("access_token", ann), Piece("expires_in", junk), Piece("user_id", one)>>,
   <<Piece("user_id", junk), Piece("access_token", bob), Piece("user_id", two)>>,
   <<Piece("access_token", Empty), Piece("user_id", one)>>,
   <<Piece("access_token", junk), Piece("user_id", one)>>,
   <<Piece("access_token", ann)>>,
   <<Piece("access_token", ann), Piece("user_id", junk)>>,
   <<Piece("access_token", ann), Piece("user_id", Empty)>>,
   <<Piece("error", junk), Piece("error_reason", junk)>>,
   <<Piece("", Bare)>>,
   <<Piece("access_token", ann), Piece("user_id", one), Piece("flag", Bare)>>}
=============================================================================
