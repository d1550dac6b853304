---------------------------- MODULE PdfOperators ----------------------------
(* apps/web/src/lib/pdf/content-interpreter.ts, run() and its readers: the    *)
(* operators of a content stream with their operands.                         *)
EXTENDS PdfParser

KwNull == <<110, 117, 108, 108>>
KwBI == <<66, 73>>
KwID == <<73, 68>>
Undefined == [undefined |-> TRUE]

\* tokenValue, readArray and readDict from their first token t on: tokens that
\* are no value are dropped.
ReadValue(t, read) ==
    CASE t.type = "num" -> Read([num |-> t.value[1]], t.next)
      [] t.type = "string" -> Read([str |-> t.value], t.next)
      [] t.type = "name" -> Read([name |-> t.value], t.next)
      [] t.type = "array-open" ->
             LET r == read["array", t.next] IN Read([arr |-> r.value], r.next)
      [] t.type = "dict-open" ->
             LET r == read["dict", t.next] IN Read([dict |-> r.value], r.next)
      [] IsKeyword(t, KwTrue) \/ IsKeyword(t, KwFalse) -> Read([bool |-> t.value = KwTrue], t.next)
      [] IsKeyword(t, KwNull) -> Read(Null, t.next)
      [] OTHER -> Read(Undefined, t.next)

ReadArray(q, t, read) ==
    LET first == read["value", q]
        others == read["array", first.next]
    IN CASE t.type \in {"array-close", "eof"} -> Read(<<>>, t.next)
         [] t.type \notin {"array-close", "eof"} /\ first.value = Undefined -> others
         [] OTHER -> Read(<<first.value>> \o others.value, others.next)

ReadDict(t, read) ==
    LET first == read["value", t.next]
        others == read["dict", first.next]
    IN CASE t.type \in {"dict-close", "eof"} -> Read(<<>>, t.next)
         [] t.type = "name" /\ first.value = Undefined -> others
         [] t.type = "name" /\ first.value # Undefined ->
                Read(others.value @@ (t.value :> first.value), others.next)
         [] OTHER -> read["dict", t.next]

ReadFrom(what, q, t, read) ==
    CASE what = "value" -> ReadValue(t, read)
      [] what = "array" -> ReadArray(q, t, read)
      [] what = "dict" -> ReadDict(t, read)

Operand(b, p) ==
    LET read[what \in {"value", "array", "dict"}, q \in 1..(Len(b) + 1)] ==
            ReadFrom(what, q, NextToken(b, q), read)
    IN read["value", p]

\* The keyword ID, or the end of the bytes, from q on.
ImageData(t, id) == IF t.type = "eof" \/ IsKeyword(t, KwID) THEN t ELSE id[t.next]

\* The position after the EI that ends the data behind the token id.
AfterImage(b, id) ==
    LET blank(i) == b[i] \in Whitespace
        ends == {i \in (id.next + 1)..(Len(b) - 1) :
                    /\ b[i] = 69 /\ b[i + 1] = 73
                    /\ blank(i - 1) /\ (i + 2 > Len(b) \/ blank(i + 2))}
    IN IF id.type = "eof" \/ ends = {} THEN Len(b) + 1 ELSE Min(ends) + 2

\* The position after the data of an inline image whose BI ends before p.
SkipInlineImage(b, p) ==
    LET id[q \in 1..(Len(b) + 1)] == ImageData(NextToken(b, q), id)
    IN AfterImage(b, id[p])

\* run() at a token t, which is the operand v or none: what it adds to the
\* items behind it.
Item(b, t, v, item) ==
    CASE t.type = "eof" -> <<>>
      [] IsKeyword(t, KwBI) -> item[SkipInlineImage(b, t.next)]
      [] v.value # Undefined -> <<[arg |-> v.value]>> \o item[v.next]
      [] t.type = "keyword" /\ v.value = Undefined /\ t.value # KwBI ->
             <<[op |-> t.value]>> \o item[t.next]
      [] OTHER -> item[t.next]

\* The operands since the last operator are its arguments; an inline image
\* leaves them where they are.
Grouped(items) ==
    LET upTo[i \in 0..Len(items)] ==
            IF i = 0 THEN [args |-> <<>>, code |-> <<>>]
            ELSE LET g == upTo[i - 1]
                 IN IF "op" \in DOMAIN items[i]
                    THEN [args |-> <<>>, code |-> Append(g.code, [op |-> items[i].op, args |-> g.args])]
                    ELSE [g EXCEPT !.args = Append(@, items[i].arg)]
    IN upTo[Len(items)].code

Instructions(b) ==
    LET item[p \in 1..(Len(b) + 1)] == Item(b, NextToken(b, p), Operand(b, p), item)
    IN Grouped(item[1])
=============================================================================
