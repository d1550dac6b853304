------------------------------ MODULE PdfWriter ------------------------------
(* A producer of PDF files, external to the repository: how operators are     *)
(* spelled, streams encoded and objects laid out (ISO 32000-1, 7.2-7.4), and  *)
(* what a sequence of operators paints (8.4, 9.4).  It is the reference the   *)
(* reader in apps/web/src/lib/pdf is checked against; nothing here is defined *)
(* by the operators of the reader.                                            *)
EXTENDS Integers, Sequences, SequencesExt

------------------------------------------------------------------------------
(* Spelling *)

Digits(n) ==
    LET d[m \in Nat] == IF m < 10 THEN <<48 + m>> ELSE Append(d[m \div 10], 48 + (m % 10))
    IN IF n < 0 THEN <<45>> \o d[-n] ELSE d[n]

\* A string in parentheses: what would end it or nest is escaped.
Quoted(bytes) ==
    <<40>> \o FlattenSeq([i \in DOMAIN bytes |->
                  IF bytes[i] \in {40, 41, 92} THEN <<92, bytes[i]>> ELSE <<bytes[i]>>]) \o <<41>>

HexByte(b) ==
    LET hex(d) == IF d < 10 THEN 48 + d ELSE 55 + d IN <<hex(b \div 16), hex(b % 16)>>

Hexed(bytes) == FlattenSeq([i \in DOMAIN bytes |-> HexByte(bytes[i])])

\* An operand of an operator; hex chooses between the two forms of a string.
Spelled(arg, hex) ==
    LET one(a) == CASE "num" \in DOMAIN a -> Digits(a.num)
                    [] "name" \in DOMAIN a -> <<47>> \o a.name
                    [] "str" \in DOMAIN a -> IF hex THEN <<60>> \o Hexed(a.str) \o <<62>> ELSE Quoted(a.str)
    IN IF "arr" \in DOMAIN arg
       THEN <<91>> \o FlattenSeq([i \in DOMAIN arg.arr |-> Append(one(arg.arr[i]), 32)]) \o <<93>>
       ELSE one(arg)

\* The content stream of a code whose operators have the given names.
Written(code, nameOf, hex) ==
    FlattenSeq([i \in DOMAIN code |->
        FlattenSeq([k \in DOMAIN code[i].args |-> Append(Spelled(code[i].args[k], hex), 32)])
            \o Append(nameOf[code[i].op], 10)])

\* An object with a stream; length is what its dictionary announces.
StreamObject(num, length, raw) ==
    Digits(num) \o <<32, 48, 32, 111, 98, 106, 60, 60, 47, 76, 101, 110, 103, 116, 104, 32>>
        \o Digits(length) \o <<62, 62, 115, 116, 114, 101, 97, 109, 10>> \o raw
        \o <<10, 101, 110, 100, 115, 116, 114, 101, 97, 109>>

------------------------------------------------------------------------------
(* Encoding *)

Base85(word) ==
    LET value == ((word[1] * 256 + word[2]) * 256 + word[3]) * 256 + word[4]
        power == <<52200625, 614125, 7225, 85, 1>>
    IN [k \in 1..5 |-> 33 + ((value \div power[k]) % 85)]

\* Data of bytes below 128, so that a word of four fits in an integer.
Ascii85(data) ==
    LET word(i) == [k \in 1..4 |-> IF 4 * i + k <= Len(data) THEN data[4 * i + k] ELSE 0]
        left(i) == Len(data) - 4 * i
        group(i) == IF left(i) >= 4
                    THEN IF word(i) = <<0, 0, 0, 0>> THEN <<122>> ELSE Base85(word(i))
                    ELSE SubSeq(Base85(word(i)), 1, left(i) + 1)
    IN FlattenSeq([i \in 1..((Len(data) + 3) \div 4) |-> group(i - 1)]) \o <<126, 62>>

\* Runs of two and more are repeated, other bytes stand for themselves.
RunLengths(data) ==
    LET end(i) == CHOOSE j \in i..Len(data) :
                     /\ \A k \in i..j : data[k] = data[i]
                     /\ j = Len(data) \/ data[j + 1] # data[i]
        from[i \in 1..(Len(data) + 1)] ==
            IF i > Len(data) THEN <<128>>
            ELSE IF end(i) = i THEN <<0, data[i]>> \o from[i + 1]
            ELSE <<257 - (end(i) - i + 1), data[i]>> \o from[end(i) + 1]
    IN from[1]

\* Rows behind a filter byte; filter(r) is the filter of row r: 1 is the
\* difference to the left, 2 to the row above, 3 to their mean, 4 to the one
\* of left, above and above left that is nearest to left + above - corner.
PngRows(data, rowLen, bpp, filter) ==
    LET rows == Len(data) \div rowLen
        cell(r, i) == IF r < 1 \/ i < 1 THEN 0 ELSE data[(r - 1) * rowLen + i]
        nearest(a, b, c) ==
            LET far(x) == IF x > a + b - c THEN x - (a + b - c) ELSE (a + b - c) - x
            IN IF far(a) <= far(b) /\ far(a) <= far(c) THEN a ELSE IF far(b) <= far(c) THEN b ELSE c
        guess(r, i) ==
            CASE filter[r] = 0 -> 0
              [] filter[r] = 1 -> cell(r, i - bpp)
              [] filter[r] = 2 -> cell(r - 1, i)
              [] filter[r] = 3 -> (cell(r, i - bpp) + cell(r - 1, i)) \div 2
              [] filter[r] = 4 -> nearest(cell(r, i - bpp), cell(r - 1, i), cell(r - 1, i - bpp))
    IN FlattenSeq([r \in 1..rows |->
           <<filter[r]>> \o [i \in 1..rowLen |-> (cell(r, i) - guess(r, i)) % 256]])

\* Every row's components as differences to those before them.
TiffRows(data, rowLen, colors) ==
    [i \in DOMAIN data |-> IF (i - 1) % rowLen < colors THEN data[i] ELSE (data[i] - data[i - colors]) % 256]

\* LZW over literals of the given bits: a table of the sequences seen, codes
\* one bit wider when the table (and early) asks for it, a clear code first
\* and one again whenever the table has reached full entries.
LzwBits(data, literalBits, early, full) ==
    LET clear == 2 ^ literalBits
        bits(code, w) == [k \in 1..w |-> (code \div 2 ^ (w - k)) % 2]
        literals == [c \in 1..(clear + 2) |-> IF c <= clear THEN <<c - 1>> ELSE <<>>]
        codeOf(table, s) == (CHOOSE c \in DOMAIN table : table[c] = s) - 1
        longest(table, i) ==
            CHOOSE n \in 1..(Len(data) - i + 1) :
                /\ \E c \in DOMAIN table : table[c] = SubSeq(data, i, i + n - 1)
                /\ \A m \in (n + 1)..(Len(data) - i + 1) : \A c \in DOMAIN table : table[c] # SubSeq(data, i, i + m - 1)
        width(size) == CHOOSE w \in (literalBits + 1)..(literalBits + 4) :
                           /\ w = literalBits + 4 \/ size + early <= 2 ^ w
                           /\ w = literalBits + 1 \/ size + early > 2 ^ (w - 1)
        \* Beside the table, its size as the reader of the codes has it: one
        \* entry behind after every code.
        from[i \in 1..(Len(data) + 1), table \in Seq(Seq(Nat))] ==
            LET w == width(Len(table))
                n == longest(table, i)
                grown == Append(table, SubSeq(data, i, i + n))
            IN CASE i > Len(data) -> bits(clear + 1, w)
                 [] i <= Len(data) /\ Len(table) >= full -> bits(clear, w) \o from[i, literals]
                 [] OTHER -> bits(codeOf(table, SubSeq(data, i, i + n - 1)), w)
                                 \o from[i + n, IF i + n > Len(data) THEN table ELSE grown]
    IN bits(clear, literalBits + 1) \o from[1, literals]
=============================================================================
