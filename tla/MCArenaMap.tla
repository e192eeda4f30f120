----------------------------- MODULE MCArenaMap -----------------------------
(***************************************************************************)
(* ArenaMap on blocks of three bytes, which a key and a value fill, and    *)
(* which are too small for two of each.  Values are empty or of two bytes, *)
(* and replace one another; the fourth key makes the map resize.           *)
(***************************************************************************)
EXTENDS ArenaMap, TLC

MCKeys == {<<1>>, <<2>>, <<3>>, <<4>>}

MCValues == {<<>>, <<8, 9>>}

MCNoKey == <<>>

MCHash == (<<1>> :> 3) @@ (<<2>> :> 7) @@ (<<3>> :> 6) @@ (<<4>> :> 0)
=============================================================================
