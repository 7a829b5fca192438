------------------------------- MODULE Tokens -------------------------------
(***************************************************************************)
(* normalize.py: identifiers as sequences of characters, and what a layer  *)
(* keeps or looks up when it normalises what was normalised before: an     *)
(* Action normalises its actor and session, the registry and the monitor   *)
(* normalise them again (capability.py:80-85, runtime.py:199).             *)
(*                                                                         *)
(* The constants say what Unicode does to a set of characters that closes  *)
(* under it: what each comes apart into, its lower case, the order of the  *)
(* combining ones, the pairs that compose.  Characters whose case fold is  *)
(* several (U+00DF), and U+0345 and U+037A, where a fold no longer         *)
(* combines, are not modelled: Fold answers one character.                 *)
(***************************************************************************)
EXTENDS Integers, Sequences, SequencesExt

CONSTANTS
    Chars,
    Format,       \* of a category "C...": dropped
    Space,        \* str.strip() trims them
    Parts,        \* character -> its full compatibility decomposition
    Class,        \* character -> its combining class, 0 if it does not combine
    Fold,         \* character -> its case fold
    Composed,     \* <<starter, character>> -> the one they compose to
    MaxWord,      \* bound: the length of a spelling
    MaxPasses     \* bound: how often one token is normalised

ASSUME CharAssumption ==
    /\ Format \subseteq Chars /\ Space \subseteq Chars
    /\ Parts \in [Chars -> Seq(Chars)] /\ Class \in [Chars -> Nat] /\ Fold \in [Chars -> Chars]
    /\ \A p \in DOMAIN Composed : p \in Chars \X Chars /\ Composed[p] \in Chars
    /\ MaxWord \in Nat /\ MaxPasses \in Nat

VARIABLES
    spelled,      \* the string a caller passed
    token,        \* what it has become
    passes        \* how often it was normalised

-----------------------------------------------------------------------------

Mapped(f, w) == [i \in DOMAIN w |-> f[w[i]]]

\* Each character replaced by a spelling.
Each(f, w) == FlattenSeq(Mapped(f, w))

Decompose(w) == Each(Parts, w)

\* A combining character goes before those of a higher class.
Precedes(ch, b) == Class[ch] # 0 /\ Class[ch] < Class[b]

Insert(done, ch) ==
    LET at == CHOOSE i \in 0..Len(done) :
                  /\ \A j \in (i + 1)..Len(done) : Precedes(ch, done[j])
                  /\ i = 0 \/ ~ Precedes(ch, done[i])
    IN InsertAt(done, at + 1, ch)

Order(w) == FoldLeft(Insert, <<>>, w)

\* A character composes with a starter if all between them combine, of lower classes.
Meets(done, i, ch) ==
    /\ <<done[i], ch>> \in DOMAIN Composed
    /\ \A j \in (i + 1)..Len(done) : Class[done[j]] \in 1..(Class[ch] - 1)

Join(done, ch) ==
    IF \E i \in DOMAIN done : Meets(done, i, ch)
    THEN LET i == CHOOSE i \in DOMAIN done : Meets(done, i, ch)
         IN [done EXCEPT ![i] = Composed[<<done[i], ch>>]]
    ELSE Append(done, ch)

Compose(w) == FoldLeft(Join, <<>>, w)

NFKC(w) == Compose(Order(Decompose(w)))

Visible(w) == Each([ch \in Chars |-> IF ch \in Format THEN <<>> ELSE <<ch>>], w)

Strip(w) ==
    LET inner == {i \in DOMAIN w : w[i] \notin Space}
    IN IF inner = {} THEN <<>>
       ELSE SubSeq(w, CHOOSE i \in inner : \A j \in inner : i <= j,
                      CHOOSE i \in inner : \A j \in inner : j <= i)

\* slip: trimmed before the format characters are dropped
TrimFirst(w) == Mapped(Fold, Visible(Strip(NFKC(w))))

NormalizeToken(w) == Mapped(Fold, Strip(Visible(NFKC(w))))

\* In the order given, empties dropped, each once.
NormalizeLabels(ws) ==
    FoldLeft(LAMBDA out, w :
                 LET tok == NormalizeToken(w)
                 IN IF tok = <<>> \/ Contains(out, tok) THEN out ELSE Append(out, tok),
             <<>>, ws)

-----------------------------------------------------------------------------

Words == UNION {[1..n -> Chars] : n \in 1..MaxWord}

TokenStart == token = spelled /\ passes = 0

TokenInit == spelled \in Words /\ TokenStart

Normalize ==
    /\ passes < MaxPasses
    /\ token' = NormalizeToken(token)
    /\ passes' = passes + 1
    /\ UNCHANGED spelled

TokenSpec == TokenInit /\ [][Normalize]_<<spelled, token, passes>>

-----------------------------------------------------------------------------

\* What a reader sees of a spelling, the case aside: what is drawn of it, put together
\* when there is nothing left to drop.
Looks(w) == NFKC(Mapped(Fold, Strip(Visible(Decompose(w)))))

\* "Normalization is idempotent: normalize(normalize(x)) == normalize(x)"
\* (normalize.py:8).
Idempotent == [][passes >= 1 => token' = token]_<<spelled, token, passes>>

\* Spellings that look the same make one key, and no session has a twin with budgets
\* of its own (action.py:61-66): from the second pass on a key is what its spelling
\* looks like, and from the first it is so but for what NFKC would still put together.
\* Said of spellings from a set of characters like the one above.
VariantsCollapse ==
    /\ passes >= 1 => NFKC(token) = Looks(spelled)
    /\ passes >= 2 => token = Looks(spelled)
=============================================================================
