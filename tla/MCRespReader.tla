---------------------------- MODULE MCRespReader ----------------------------
(***************************************************************************)
(* All replies whose lines have at most three bytes and whose payloads     *)
(* have at most three, of the bytes that have a meaning, with the five     *)
(* digits of base 5: sizes below, at and above the limit, integers in and  *)
(* out of range (43 and -44 are the first out of it).                      *)
(***************************************************************************)
EXTENDS RespReader

MCBytes == {"+", "-", ":", "$", "CR", "LF", "0", "1", "2", "3", "4"}

MCDigit == ("0" :> 0) @@ ("1" :> 1) @@ ("2" :> 2) @@ ("3" :> 3) @@ ("4" :> 4)

\* Up to two arguments, which may be empty or look like the frame around them.
MCRequests == UNION {[1 .. n -> BoundedSeq({"CR", "LF", "$", "1"}, 2)] : n \in 1 .. 2}
=============================================================================
