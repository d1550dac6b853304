------------------------------ MODULE PdfParser ------------------------------
(* apps/web/src/lib/pdf/parser.ts: objects out of tokens.  The parser's       *)
(* buffer of tokens it has looked at is left out: reading a token again at    *)
(* the same position gives the same token.  A dictionary is a function from   *)
(* its keys to objects.                                                       *)
EXTENDS PdfLexer, TLC

\* The keywords the parser knows, as bytes.
KwTrue == <<116, 114, 117, 101>>
KwFalse == <<102, 97, 108, 115, 101>>
KwR == <<82>>
KwObj == <<111, 98, 106>>
KwStream == <<115, 116, 114, 101, 97, 109>>
KwEndstream == <<101, 110, 100>> \o KwStream
NameLength == <<76, 101, 110, 103, 116, 104>>

Null == [null |-> TRUE]

IsKeyword(t, word) == t.type = "keyword" /\ t.value = word

MatchesAt(b, at, needle) ==
    at + Len(needle) - 1 <= Len(b) /\ SubSeq(b, at, at + Len(needle) - 1) = needle

\* 0 where the code has -1.
IndexOf(b, needle, from) ==
    LET found == {i \in from..Len(b) : MatchesAt(b, i, needle)}
    IN IF found = {} THEN 0 ELSE Min(found)

\* Where the data of a stream start: after the EOL behind the keyword.
DataStart(b, p) ==
    CASE p < Len(b) /\ b[p] = 13 /\ b[p + 1] = 10 -> p + 2
      [] p <= Len(b) /\ b[p] = 10 -> p + 1
      [] p <= Len(b) /\ b[p] = 13 /\ ~(p < Len(b) /\ b[p + 1] = 10) -> p + 1
      [] OTHER -> p

\* Mutant: /Length is trusted wherever it leads.
TrustedEnd_Always(b, dict, start) ==
    IF NameLength \in DOMAIN dict THEN Min({start + dict[NameLength].num, Len(b) + 1}) ELSE 0

\* /Length is trusted only if endstream follows the data it announces.
TrustedEnd(b, dict, start) ==
    LET len == IF NameLength \in DOMAIN dict THEN dict[NameLength] ELSE Null
        end == IF "num" \in DOMAIN len /\ len.num >= 0 THEN start + len.num ELSE 0
    IN IF end \in 1..Len(b) /\ MatchesAt(b, RunEnd(b, end, {13, 10}), KwEndstream) THEN end ELSE 0

\* One byte of an EOL before end is no data.
Without(byte, b, start, end) == IF end > start /\ b[end - 1] = byte THEN end - 1 ELSE end

\* The scan for endstream takes one EOL off the data before it.
ScannedEnd(b, start) ==
    LET found(i) == IF i = 0 THEN Len(b) + 1 ELSE i
    IN Without(13, b, start, Without(10, b, start, found(IndexOf(b, KwEndstream, start))))

StreamFrom(b, dict, start, end) ==
    LET after == IndexOf(b, KwEndstream, end)
    IN [value |-> [stream |-> dict, raw |-> SubSeq(b, start, end - 1)],
        next |-> IF after = 0 THEN Len(b) + 1 ELSE after + Len(KwEndstream)]

ParseStream(b, dict, p) ==
    LET start == DataStart(b, p)
        trusted == TrustedEnd(b, dict, start)
    IN StreamFrom(b, dict, start, IF trusted # 0 THEN trusted ELSE ScannedEnd(b, start))

\* What was read, and the position after it.
Read(value, next) == [value |-> value, next |-> next]

\* 'N G R' is a reference.
RefOrNumber(t, t1, t2) ==
    IF t1.type = "num" /\ IsKeyword(t2, KwR)
    THEN Read([ref |-> <<t.value[1], t1.value[1]>>], t2.next)
    ELSE Read([num |-> t.value[1]], t.next)

DictOrStream(b, dict, s) ==
    IF IsKeyword(s, KwStream) THEN ParseStream(b, dict.value, s.next)
    ELSE Read([dict |-> dict.value], dict.next)

\* parseObject, parseArray and parseDictOrStream from their first token t on;
\* parse is what these functions make of the positions behind it.
ParsedObject(b, t, parse) ==
    CASE t.type = "num" ->
             LET t1 == NextToken(b, t.next) IN RefOrNumber(t, t1, NextToken(b, t1.next))
      [] t.type = "name" -> Read([name |-> t.value], t.next)
      [] t.type = "string" -> Read([str |-> t.value], t.next)
      [] t.type = "array-open" ->
             LET r == parse["array", t.next] IN Read([arr |-> r.value], r.next)
      [] t.type = "dict-open" ->
             LET r == parse["dict", t.next] IN DictOrStream(b, r, NextToken(b, r.next))
      [] IsKeyword(t, KwTrue) \/ IsKeyword(t, KwFalse) -> Read([bool |-> t.value = KwTrue], t.next)
      [] OTHER -> Read(Null, t.next)

ParsedArray(q, t, parse) ==
    LET first == parse["object", q]
        others == parse["array", first.next]
    IN IF t.type \in {"array-close", "eof"} THEN Read(<<>>, t.next)
       ELSE Read(<<first.value>> \o others.value, others.next)

ParsedDict(t, parse) ==
    LET first == parse["object", t.next]
        others == parse["dict", first.next]
    IN CASE t.type \in {"dict-close", "eof"} -> Read(<<>>, t.next)
         [] t.type = "name" -> Read(others.value @@ (t.value :> first.value), others.next)
         [] OTHER -> parse["dict", t.next]

Parsed(b, what, q, t, parse) ==
    CASE what = "object" -> ParsedObject(b, t, parse)
      [] what = "array" -> ParsedArray(q, t, parse)
      [] what = "dict" -> ParsedDict(t, parse)

Parse(b, p) ==
    LET parse[what \in {"object", "array", "dict"}, q \in 1..(Len(b) + 1)] ==
            Parsed(b, what, q, NextToken(b, q), parse)
    IN parse["object", p]

\* parseIndirectObjectAt: anything but 'N G obj' makes it throw.
ParseIndirectObject(b, p) ==
    LET num == NextToken(b, p)
        gen == NextToken(b, num.next)
        obj == NextToken(b, gen.next)
    IN IF num.type = "num" /\ gen.type = "num" /\ IsKeyword(obj, KwObj)
       THEN [ok |-> TRUE, num |-> num.value[1], value |-> Parse(b, obj.next).value]
       ELSE [ok |-> FALSE, num |-> 0, value |-> Null]
=============================================================================
