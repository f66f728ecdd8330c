----------------------------- MODULE MCNewsFeed -----------------------------
(***************************************************************************)
(* Feeds for NewsFeed: up to three posts, written by nobody, by a user or  *)
(* by a community, known or not, with groups and profiles that repeat an   *)
(* identifier and share it with each other.                                *)
(***************************************************************************)
EXTENDS NewsFeed

Source == {Nil, -1, -2, 1, 2}

MCFeed ==
  [posts    : UNION {[1..n -> Source] : n \in 0..3},
   groups   : {<<>>, <<2, 1, 2>>},
   profiles : {<<1>>, <<2, 2>>}]
=============================================================================
