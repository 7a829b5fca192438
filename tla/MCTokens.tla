------------------------------ MODULE MCTokens ------------------------------
(***************************************************************************)
(* A small alphabet for Tokens: a letter, its capital and its fullwidth    *)
(* form, a narrow one that folds to it and does not compose (U+1C82), a    *)
(* dot below and an acute accent, of a lower and a higher class, where the *)
(* one composes with nothing here (the letter is a g) and the other does;  *)
(* the spacing accent (U+00B4), a zero-width joiner and a space.           *)
(***************************************************************************)
EXTENDS Tokens, TLC

CONSTANTS lower, upper, wide, narrow, below, acute, lowerAcute, upperAcute, spacing, joiner, blank

MCParts ==
    (wide :> <<lower>>) @@ (lowerAcute :> <<lower, acute>>) @@ (upperAcute :> <<upper, acute>>)
        @@ (spacing :> <<blank, acute>>) @@ [ch \in Chars |-> <<ch>>]
MCClass == (below :> 1) @@ (acute :> 2) @@ [ch \in Chars |-> 0]
MCFold == (upper :> lower) @@ (narrow :> lower) @@ (upperAcute :> lowerAcute) @@ [ch \in Chars |-> ch]
MCComposed == (<<lower, acute>> :> lowerAcute) @@ (<<upper, acute>> :> upperAcute)
=============================================================================
