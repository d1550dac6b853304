------------------------------ MODULE PdfLexer ------------------------------
(* apps/web/src/lib/pdf/lexer.ts: the tokenizer of PDF bytes.  A token is a   *)
(* record with its type, its value and the position after it; positions       *)
(* count from 1.  Of a number the model keeps the sign and the digits before  *)
(* its point.                                                                 *)
EXTENDS PdfFilters

Whitespace == {0, 9, 10, 12, 13, 32}
Delimiter == {40, 41, 60, 62, 91, 93, 123, 125, 47, 37}
Regular == (0..255) \ (Whitespace \cup Delimiter)
Digit == 48..57
NumberBytes == Digit \cup {43, 45, 46, 69, 101}

\* The end of the longest run of bytes of S that starts at p.
RunEnd(b, p, S) == Min({i \in p..(Len(b) + 1) : i > Len(b) \/ b[i] \notin S})

\* skipWhitespaceAndComments
SkipBlank(b, p) ==
    LET skip[i \in 1..(Len(b) + 1)] ==
            IF i > Len(b) THEN i
            ELSE IF b[i] \in Whitespace THEN skip[i + 1]
            ELSE IF b[i] = 37 THEN skip[RunEnd(b, i, (0..255) \ {10, 13})]
            ELSE i
    IN skip[p]

\* parseFloat of the digits; what is no number is 0. A fraction and an exponent,
\* which parseFloat would count, are left out.
ParseNumber(s) ==
    LET signed == s # <<>> /\ Head(s) \in {43, 45}
        first == IF signed THEN 2 ELSE 1
        digits == SubSeq(s, first, RunEnd(s, first, Digit) - 1)
        v[i \in 0..Len(digits)] == IF i = 0 THEN 0 ELSE 10 * v[i - 1] + digits[i] - 48
    IN IF signed /\ Head(s) = 45 THEN -v[Len(digits)] ELSE v[Len(digits)]

\* '#XX' in a name stands for the byte XX.
NameBytes(s) ==
    LET from[i \in 1..(Len(s) + 3)] ==
            IF i > Len(s) THEN <<>>
            ELSE IF /\ s[i] = 35 /\ i + 2 <= Len(s)
                    /\ HexDigit(s[i + 1]) >= 0 /\ HexDigit(s[i + 2]) >= 0
                 THEN <<HexDigit(s[i + 1]) * 16 + HexDigit(s[i + 2])>> \o from[i + 3]
            ELSE <<s[i]>> \o from[i + 1]
    IN from[1]

\* What the escape whose second byte is at i stands for, and where it ends.
Escape(b, i) ==
    LET octal == RunEnd(b, i, 48..55)
        n == Min({octal - i, 3})
        v[k \in 0..n] == IF k = 0 THEN 0 ELSE 8 * v[k - 1] + b[i + k - 1] - 48
        plain == [c \in {110, 114, 116, 98, 102} |->
                     CASE c = 110 -> 10 [] c = 114 -> 13 [] c = 116 -> 9 [] c = 98 -> 8 [] c = 102 -> 12]
    IN CASE b[i] \in DOMAIN plain -> [out |-> <<plain[b[i]]>>, next |-> i + 1]
         [] b[i] = 13 -> [out |-> <<>>, next |-> IF i < Len(b) /\ b[i + 1] = 10 THEN i + 2 ELSE i + 1]
         [] b[i] = 10 -> [out |-> <<>>, next |-> i + 1]
         [] n > 0 -> [out |-> <<v[n] % 256>>, next |-> i + n]
         [] OTHER -> [out |-> <<b[i]>>, next |-> i + 1]

\* readLiteralString, after its opening parenthesis at p.
LiteralString(b, p) ==
    LET n == Len(b)
        from[i \in 1..(n + 1), depth \in 1..(n + 1)] ==
            LET then(out, j, d) == LET r == from[j, d] IN [r EXCEPT !.bytes = out \o @]
                stop(j) == [bytes |-> <<>>, next |-> j]
            IN CASE i > n -> stop(i)
                 [] i <= n /\ b[i] = 92 ->
                        IF i = n THEN stop(n + 1) ELSE LET e == Escape(b, i + 1) IN then(e.out, e.next, depth)
                 [] i <= n /\ b[i] = 40 -> then(<<40>>, i + 1, depth + 1)
                 [] i <= n /\ b[i] = 41 -> IF depth = 1 THEN stop(i + 1) ELSE then(<<41>>, i + 1, depth - 1)
                 [] OTHER -> then(<<b[i]>>, i + 1, depth)
    IN from[p + 1, 1]

\* readHexString, after its '<' at p: what is no digit is skipped.
HexString(b, p) ==
    LET end == Min({i \in (p + 1)..(Len(b) + 1) : i > Len(b) \/ b[i] = 62})
    IN [bytes |-> AsciiHexDecode(SubSeq(b, p + 1, end - 1)), next |-> Min({end, Len(b)}) + 1]

Token(type, value, next) == [type |-> type, value |-> value, next |-> next]

\* Where the next token starts: behind blanks, and a stray '>' or ')' is skipped.
TokenStart(b, p) ==
    LET skip[q \in 1..(Len(b) + 1)] ==
            LET s == SkipBlank(b, q)
                stray == b[s] = 41 \/ (b[s] = 62 /\ ~(s < Len(b) /\ b[s + 1] = 62))
            IN IF s <= Len(b) /\ stray THEN skip[s + 1] ELSE s
    IN skip[p]

StringToken(s) == Token("string", s.bytes, s.next)

\* The longest run of bytes of S from i on.
Slice(b, i, S) == SubSeq(b, i, RunEnd(b, i, S) - 1)

TokenAt(b, s) ==
    IF s > Len(b) THEN Token("eof", <<>>, s)
    ELSE CASE b[s] = 91 -> Token("array-open", <<>>, s + 1)
           [] b[s] = 93 -> Token("array-close", <<>>, s + 1)
           [] b[s] = 123 -> Token("brace-open", <<>>, s + 1)
           [] b[s] = 125 -> Token("brace-close", <<>>, s + 1)
           [] b[s] = 60 /\ s < Len(b) /\ b[s + 1] = 60 -> Token("dict-open", <<>>, s + 2)
           [] b[s] = 60 /\ ~(s < Len(b) /\ b[s + 1] = 60) -> StringToken(HexString(b, s))
           [] b[s] = 62 -> Token("dict-close", <<>>, s + 2)
           [] b[s] = 40 -> StringToken(LiteralString(b, s))
           [] b[s] = 47 -> Token("name", NameBytes(Slice(b, s + 1, Regular)), RunEnd(b, s + 1, Regular))
           [] b[s] \in Digit \cup {43, 45, 46} ->
                  Token("num", <<ParseNumber(Slice(b, s, NumberBytes))>>, RunEnd(b, s, NumberBytes))
           [] b[s] \in Regular \ (Digit \cup {43, 45, 46}) ->
                  Token("keyword", Slice(b, s, Regular), RunEnd(b, s, Regular))

\* next
NextToken(b, p) == TokenAt(b, TokenStart(b, p))
=============================================================================
