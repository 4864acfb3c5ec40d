--------------------------- MODULE MCWikiCompile ----------------------------
(* Small instances of WikiCompile for TLC. *)
EXTENDS WikiCompile, TLC

CONSTANTS a, b, k1, k2

\* The first content yields both cards, the second one of them.
MCCardsOf == a :> {k1, k2} @@ b :> {k1}
=============================================================================
