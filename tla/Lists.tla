-------------------------------- MODULE Lists --------------------------------
(***************************************************************************)
(* The elements of a list that lie in a set. (SelectSeq of the standard    *)
(* modules says the same of a predicate; a set is what a proof can name.)  *)
(***************************************************************************)
EXTENDS Integers, Sequences

Sifted(s, S) ==
  LET sifted[i \in 0 .. Len(s)] ==
        IF i = 0 THEN <<>>
        ELSE IF s[i] \in S THEN Append(sifted[i - 1], s[i])
        ELSE sifted[i - 1]
  IN  sifted[Len(s)]
=============================================================================
