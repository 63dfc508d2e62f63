---------------------------- MODULE OscPattern ----------------------------
(***************************************************************************)
(* liblo's pattern matcher (pattern_match.c), with which dispatch_method   *)
(* compares every method's path to a path that holds a wildcard, beside    *)
(* what the patterns mean.  A pattern is a sequence of tokens; a character *)
(* is its code, and 0 is the end of a string.                              *)
(***************************************************************************)
EXTENDS Naturals, Sequences, SequencesExt

CONSTANTS Letters,           \* characters of names
          Sets,              \* [from, to, more, negated]: sets [from-to more]
          Lists,             \* sequences of non-empty strings: {a,b,...}
          MaxTokens, MaxName \* bounds

NEGATE == 33
STAR == 42   COMMA == 44  HYPHEN == 45  QUERY == 63
BRACKET == 91  UNBRACKET == 93  BRACE == 123  UNBRACE == 125

VARIABLES pattern, name      \* tokens and letters
patternVars == <<pattern, name>>

Letter(c) == [kind |-> "letter", text |-> <<c>>, of |-> c]
Star == [kind |-> "star", text |-> <<STAR>>]
Query == [kind |-> "query", text |-> <<QUERY>>]
SetOf(s) ==
    [kind |-> "set", of |-> s,
     text |-> <<BRACKET>> \o (IF s.negated THEN <<NEGATE>> ELSE <<>>)
              \o <<s.from, HYPHEN, s.to>> \o s.more \o <<UNBRACKET>>]
ListOf(l) ==
    [kind |-> "list", of |-> l,
     text |-> <<BRACE>> \o FoldLeft(LAMBDA r, s : r \o <<COMMA>> \o s, l[1], Tail(l))
              \o <<UNBRACE>>]
Tokens == {Letter(c) : c \in Letters} \cup {Star, Query}
              \cup {SetOf(s) : s \in Sets} \cup {ListOf(l) : l \in Lists}

PatternInit == pattern = <<>> /\ name = <<>>
PatternNext ==
    \/ /\ Len(pattern) < MaxTokens /\ name = <<>>
       /\ \E t \in Tokens : pattern' = Append(pattern, t)
       /\ UNCHANGED name
    \/ /\ Len(name) < MaxName
       /\ \E c \in Letters : name' = Append(name, c)
       /\ UNCHANGED pattern
PatternSpec == PatternInit /\ [][PatternNext]_patternVars

-----------------------------------------------------------------------------
(* The matcher                                                             *)

At(s, i) == IF i <= Len(s) THEN s[i] ELSE 0
\* The first place from i on where s holds one of chars, or its end
FirstOf(s, i, chars) ==
    CHOOSE j \in i .. Len(s) + 1 :
        /\ j = Len(s) + 1 \/ s[j] \in chars
        /\ \A x \in i .. j - 1 : s[x] \notin chars

\* Slip: a star ends at the first place where what follows it may begin.
StarOnly(i, size) == {i} \cap 1 .. size
\* Where what follows a star is tried: at every character left, never at the end
StarEnds(i, size) == i .. size

\* case '[': is s, a letter, in the set whose first character is at p?
InSet(pat, first, s) ==
    LET scan[p \in first .. Len(pat)] ==
            LET c == pat[p]
                n == At(pat, p + 1)
                e == At(pat, p + 2)
            IN  IF n = HYPHEN
                THEN IF e = UNBRACKET THEN s >= c
                     ELSE s \in {c, e} \/ (c < s /\ s < e) \/ scan[p + 2]
                ELSE s \in {c, n} \/ (n # UNBRACKET /\ scan[p + 1])
    IN  scan[first]

lo_pattern_match(str, pat) ==
    LET match[i \in 1 .. Len(str) + 1, k \in 1 .. Len(pat) + 1] ==
            LET s == At(str, i)
                c == At(pat, k)
                star == CHOOSE q \in k .. Len(pat) + 1 :
                            At(pat, q) # STAR /\ \A x \in k .. q - 1 : pat[x] = STAR
                begins == IF At(pat, star) \in {QUERY, BRACKET, BRACE} THEN i
                          ELSE FirstOf(str, i, {At(pat, star)})
                negate == At(pat, k + 1) = NEGATE
                remainder == FirstOf(pat, k, {UNBRACE}) + 1
                list[j \in i .. Len(str) + 1, p \in k + 1 .. Len(pat) + 1] ==
                    LET skip == FirstOf(pat, p + 1, {COMMA, UNBRACE})
                    IN  CASE At(pat, p) = COMMA   -> match[j, remainder] \/ list[i, p + 2]
                          [] At(pat, p) = UNBRACE -> match[j, p + 1]
                          [] At(pat, p) = At(str, j) ->
                                 /\ At(str, j + 1) # 0 \/ At(pat, remainder) = 0
                                 /\ list[j + 1, p + 1]
                          [] OTHER -> At(pat, skip) = COMMA /\ list[i, skip + 1]
            IN  CASE c = 0       -> s = 0
                  [] c = STAR    -> \/ At(pat, star) = 0
                                    \/ \E j \in StarEnds(begins, Len(str)) : match[j, star]
                  [] s = 0       -> FALSE
                  [] c = QUERY   -> match[i + 1, k + 1]
                  [] c = BRACKET -> /\ InSet(pat, IF negate THEN k + 2 ELSE k + 1, s) # negate
                                    /\ match[i + 1, FirstOf(pat, k, {UNBRACKET}) + 1]
                  [] c = BRACE   -> list[i, k + 1]
                  [] OTHER       -> c = s /\ match[i + 1, k + 1]
    IN  match[1, 1]

-----------------------------------------------------------------------------
(* What the tokens stand for, and what a sequence of them does             *)

Stands(t, s) ==
    CASE t.kind = "star"   -> TRUE
      [] t.kind = "query"  -> Len(s) = 1
      [] t.kind = "letter" -> s = <<t.of>>
      [] t.kind = "set"    ->
             /\ Len(s) = 1
             /\ ~t.of.negated <=> \/ s[1] \in t.of.from .. t.of.to
                                  \/ s[1] \in ToSet(<<t.of.from, t.of.to>> \o t.of.more)
      [] t.kind = "list"   -> s \in ToSet(t.of)
Means(tokens, s) ==
    LET rest[i \in 1 .. Len(s) + 1, t \in 1 .. Len(tokens) + 1] ==
            IF t > Len(tokens) THEN i > Len(s)
            ELSE \E j \in i .. Len(s) + 1 :
                     Stands(tokens[t], SubSeq(s, i, j - 1)) /\ rest[j, t + 1]
    IN  rest[1, 1]

Matched == lo_pattern_match(name, FlattenSeq([n \in DOMAIN pattern |-> pattern[n].text]))
HasList == \E n \in DOMAIN pattern : pattern[n].kind = "list"

(* Without a brace list a pattern matches exactly the names it stands for, *)
(* however its stars, letters, ranges and negated sets follow one another. *)
PatternsMatch == ~HasList => (Matched <=> Means(pattern, name))

(* A brace list stands for the strings between its commas                  *)
(* (pattern_match.c:184), any of them.  It does not: when a string of the  *)
(* list fits but the rest of the pattern then does not, the first          *)
(* character of the next string is skipped with the comma.                 *)
ListsMatch == pattern # <<>> /\ HasList => (Matched <=> Means(pattern, name))
=============================================================================
