------------------------------ MODULE Redaction -----------------------------
(***************************************************************************)
(* The data minimisation of policy.py: named fields are replaced at any    *)
(* depth, their values and whatever matches a pattern are then scrubbed    *)
(* from every text of the payload.                                         *)
(*                                                                         *)
(* A payload is a function from paths (the keys and indices on the way) to *)
(* scalars, so a container is the set of paths that go through it.  A      *)
(* scalar has a kind, "other" for what is neither text nor number (bytes,  *)
(* a set, an empty container), and the characters str() gives of it.  A    *)
(* pattern is the set of words it matches and whether it has \b at both    *)
(* ends, as those of policies/purpose_policy.json.                         *)
(***************************************************************************)
EXTENDS Integers, Sequences, FiniteSets, SequencesExt

CONSTANTS
    Letters,      \* what texts are made of
    WordChars,    \* those a \b is between and not between: letters, digits, _
    Mark,         \* "[REDACTED]", as one character; its ends are brackets
    MinScrubLen   \* _MIN_SCRUB_LEN

ASSUME ScrubAssumption ==
    MinScrubLen \in Nat \ {0} /\ Mark \in Letters /\ WordChars \subseteq Letters \ {Mark}

Scalars == [kind : {"none", "text", "number", "other"}, text : Seq(Letters)]

IsPayload(pay) ==
    /\ IsFiniteSet(DOMAIN pay)
    /\ \A p \in DOMAIN pay : p \in Seq(Range(p)) \ {<<>>} /\ pay[p] \in Scalars

\* A rule: [purpose, fields, patterns], a pattern: [words, edges].  A match that is
\* empty is no secret.
RuleWords(rule) == UNION {pat.words : pat \in rule.patterns}

IsRule(rule) == IsFiniteSet(RuleWords(rule)) /\ RuleWords(rule) \subseteq Seq(Letters) \ {<<>>}

Text(w) == [kind |-> "text", text |-> w]
Number(w) == [kind |-> "number", text |-> w]
Blanked == Text(<<Mark>>)

\* v in (None, "")
Empty(leaf) == leaf.kind = "none" \/ leaf = Text(<<>>)

-----------------------------------------------------------------------------

\* slip: only the keys of the payload itself are looked at
ShallowHits(pay, p, fields) == {i \in 1..1 : p[i] \in fields /\ (Len(p) = 1 => ~ Empty(pay[p]))}

\* Where on its way to a scalar a path meets a named field with something in it.
Hits(pay, p, fields) ==
    {i \in DOMAIN p : p[i] \in fields /\ (i = Len(p) => ~ Empty(pay[p]))}

Cut(p, hits) ==
    IF hits = {} THEN p ELSE SubSeq(p, 1, CHOOSE i \in hits : \A j \in hits : i <= j)

\* _redact_fields: a named field goes whole, with all that is below it.
RedactFields(pay, fields) ==
    [q \in {Cut(p, Hits(pay, p, fields)) : p \in DOMAIN pay} |->
        IF q \in DOMAIN pay /\ Hits(pay, q, fields) = {} THEN pay[q] ELSE Blanked]

\* The scalars it saw there; what is below a container is not looked at.
FieldSecrets(pay, fields) ==
    {pay[p].text : p \in {q \in DOMAIN pay :
                            /\ pay[q].kind \in {"text", "number"}
                            /\ Len(pay[q].text) >= MinScrubLen
                            /\ Len(q) \in Hits(pay, q, fields)
                            /\ Cut(q, Hits(pay, q, fields)) = q}}

OccursAt(w, text, i) == i + Len(w) - 1 <= Len(text) /\ SubSeq(text, i, i + Len(w) - 1) = w

Occurs(w, text) == \E i \in DOMAIN text : OccursAt(w, text, i)

Texts(pay) == {pay[p].text : p \in {q \in DOMAIN pay : pay[q].kind = "text"}}

InWord(text, i) == i \in DOMAIN text /\ text[i] \in WordChars

\* \b, before the i-th character.
Boundary(text, i) == InWord(text, i - 1) # InWord(text, i)

\* What the pattern matches from the i-th character on.
MatchesAt(pat, text, i) ==
    {w \in pat.words :
        OccursAt(w, text, i) /\ (pat.edges => Boundary(text, i) /\ Boundary(text, i + Len(w)))}

Longest(words) == CHOOSE w \in words : \A v \in words : Len(v) <= Len(w)

\* re.findall: from the left, no two matches overlapping.
FindAll(pat, text) ==
    LET At(i) == MatchesAt(pat, text, i)
        scan[i \in 0..Len(text)] ==
            IF i = 0 THEN [next |-> 1, found |-> {}]
            ELSE IF i < scan[i - 1].next \/ At(i) = {} THEN scan[i - 1]
            ELSE [next |-> i + Len(Longest(At(i))),
                  found |-> scan[i - 1].found \cup {Longest(At(i))}]
    IN scan[Len(text)].found

\* _pattern_secrets: once, before anything is scrubbed.
PatternSecrets(pay, rule) ==
    {w \in RuleWords(rule) :
        \E pat \in rule.patterns, t \in Texts(pay) : w \in FindAll(pat, t)}

\* str.replace: from the left, no two replacements overlapping.
Replaced(text, w) ==
    LET from[i \in 1..(Len(text) + 1)] ==
            IF i > Len(text) THEN <<>>
            ELSE IF OccursAt(w, text, i) THEN <<Mark>> \o from[i + Len(w)]
            ELSE <<text[i]>> \o from[i + 1]
    IN from[1]

\* All of them, in this order.
AllReplaced(text, order) ==
    LET left[n \in 0..Len(order)] == IF n = 0 THEN text ELSE Replaced(left[n - 1], order[n])
    IN left[Len(order)]

\* _scrub_values, the secrets taken in this order.
Scrub(pay, order) ==
    [p \in DOMAIN pay |-> IF pay[p].kind # "text" THEN pay[p]
                          ELSE Text(AllReplaced(pay[p].text, order))]

-----------------------------------------------------------------------------

RuleSecrets(pay, rule) ==
    FieldSecrets(pay, rule.fields) \cup PatternSecrets(RedactFields(pay, rule.fields), rule)

RuleHits(pay, rule) ==
    RuleSecrets(pay, rule) # {} \/ \E p \in DOMAIN pay : Hits(pay, p, rule.fields) # {}

Applicable(rules, purpose, pay) ==
    {i \in DOMAIN rules : rules[i].purpose = purpose /\ RuleHits(pay, rules[i])}

\* What minimisation may leave of a payload: the first rule that hits is applied,
\* and a set of secrets is gone through in any order.
Minimised(rules, purpose, pay) ==
    LET hitting == Applicable(rules, purpose, pay)
        rule == rules[CHOOSE i \in hitting : \A j \in hitting : i <= j]
    IN IF hitting = {} THEN {pay}
       ELSE {Scrub(RedactFields(pay, rule.fields), order) :
                 order \in SetToSeqs(RuleSecrets(pay, rule))}
=============================================================================
