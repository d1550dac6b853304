----------------------------- MODULE PdfFilters -----------------------------
(* apps/web/src/lib/pdf/filters.ts: the stream filters a PDF producer may     *)
(* have chained over a stream.  Bytes are 0..255 and data are sequences of    *)
(* bytes.  zlib itself is external: a compressed stream is a format byte      *)
(* followed by its content.  LZW works on the bits of its data and on         *)
(* literals of LiteralBits bits; the code has LiteralBits = 8.                *)
EXTENDS Integers, Sequences, SequencesExt

CONSTANT LiteralBits

ASSUME LiteralBitsAssumption == LiteralBits \in Nat \ {0}

ImageFilters == {"DCTDecode", "CCITTFaxDecode"}

\* A stream that DecompressionStream rejects makes decodeStream reject.
Bad == [ok |-> FALSE, bytes |-> <<>>, image |-> "none"]
Good(bytes) == [ok |-> TRUE, bytes |-> bytes, image |-> "none"]

Zlib == 120
RawDeflate == 99

Inflate(data) ==
    IF data # <<>> /\ Head(data) \in {Zlib, RawDeflate} THEN Good(Tail(data)) ELSE Bad

------------------------------------------------------------------------------
(* Predictors *)

NoParms == [predictor |-> 1, colors |-> 1, bpc |-> 8, columns |-> 1, early |-> 1]

Abs(n) == IF n < 0 THEN -n ELSE n

Paeth(a, b, c) ==
    LET p == a + b - c
    IN IF Abs(p - a) <= Abs(p - b) /\ Abs(p - a) <= Abs(p - c) THEN a
       ELSE IF Abs(p - b) <= Abs(p - c) THEN b ELSE c

Predicted(filter, a, b, c) ==
    CASE filter = 1 -> a
      [] filter = 2 -> b
      [] filter = 3 -> (a + b) \div 2
      [] filter = 4 -> Paeth(a, b, c)
      [] OTHER -> 0

PngRow(filter, raw, prev, bpp) ==
    LET cur[i \in 1..Len(raw)] ==
            LET a == IF i > bpp THEN cur[i - bpp] ELSE 0
                c == IF i > bpp THEN prev[i - bpp] ELSE 0
            IN (raw[i] + Predicted(filter, a, prev[i], c)) % 256
    IN [i \in 1..Len(raw) |-> cur[i]]

PngPredictor(data, rowLen, bpp) ==
    LET rows == Len(data) \div (rowLen + 1)
        at(r) == (r - 1) * (rowLen + 1) + 1
        row[r \in 0..rows] ==
            IF r = 0 THEN [i \in 1..rowLen |-> 0]
            ELSE PngRow(data[at(r)], SubSeq(data, at(r) + 1, at(r) + rowLen), row[r - 1], bpp)
    IN FlattenSeq([r \in 1..rows |-> row[r]])

\* Rows of whole bytes; a partial last row keeps its own.
TiffPredictor2(data, colors, rowLen) ==
    LET whole == (Len(data) \div rowLen) * rowLen
        out[i \in 1..Len(data)] ==
            IF i > whole \/ (i - 1) % rowLen < colors THEN data[i]
            ELSE (data[i] + out[i - colors]) % 256
    IN [i \in 1..Len(data) |-> out[i]]

\* Math.ceil(bits / 8)
BytesFor(bits) == (bits + 7) \div 8

\* What the TIFF predictor did to components that are not 8 bits wide stays.
ApplyPredictor(data, p) ==
    LET bytesPerPixel == Max({1, BytesFor(p.colors * p.bpc)})
        rowLen == BytesFor(p.colors * p.bpc * p.columns)
    IN CASE p.predictor <= 1 \/ rowLen <= 0 -> data
         [] p.predictor = 2 -> IF p.bpc # 8 THEN data ELSE TiffPredictor2(data, p.colors, rowLen)
         [] OTHER -> PngPredictor(data, rowLen, bytesPerPixel)

------------------------------------------------------------------------------
(* ASCII filters and run lengths *)

HexDigit(c) ==
    CASE c \in 48..57 -> c - 48
      [] c \in 65..70 -> c - 55
      [] c \in 97..102 -> c - 87
      [] OTHER -> -1

AsciiHexDecode(data) ==
    LET end == SelectInSeq(data, LAMBDA c : c = 62)
        read == IF end = 0 THEN data ELSE SubSeq(data, 1, end - 1)
        digits == SelectSeq(read, LAMBDA c : HexDigit(c) >= 0)
        d(i) == IF i <= Len(digits) THEN HexDigit(digits[i]) ELSE 0
    IN [k \in 1..((Len(digits) + 1) \div 2) |-> d(2 * k - 1) * 16 + d(2 * k)]

\* n * 85 + digit on four bytes, the most significant first: what is left of
\* a JavaScript number after >>> and & 0xff.
TimesPlus(n, digit) ==
    LET sum[k \in 1..4] ==
            n[k] * 85 + (IF k = 4 THEN digit ELSE sum[k + 1] \div 256)
    IN [k \in 1..4 |-> sum[k] % 256]

GroupBytes(group) ==
    LET acc[k \in 0..5] ==
            IF k = 0 THEN <<0, 0, 0, 0>>
            ELSE TimesPlus(acc[k - 1], IF k <= Len(group) THEN group[k] ELSE 84)
    IN SubSeq(acc[5], 1, Len(group) - 1)

Ascii85Decode(data) ==
    LET first == IF Len(data) >= 2 /\ data[1] = 60 /\ data[2] = 126 THEN 3 ELSE 1
        end == SelectInSubSeq(data, first, Len(data), LAMBDA c : c = 126)
        read == SelectSeq(SubSeq(data, first, IF end = 0 THEN Len(data) ELSE end - 1),
                          LAMBDA c : c > 32)
        from[i \in 0..Len(read)] ==
            IF i = 0 THEN [out |-> <<>>, group |-> <<>>]
            ELSE LET s == from[i - 1]
                     group == Append(s.group, read[i] - 33)
                 IN CASE read[i] = 122 /\ s.group = <<>> ->
                             [s EXCEPT !.out = @ \o <<0, 0, 0, 0>>]
                      [] Len(group) = 5 ->
                             [out |-> s.out \o GroupBytes(group), group |-> <<>>]
                      [] OTHER -> [s EXCEPT !.group = group]
        last == from[Len(read)]
    IN IF last.group = <<>> THEN last.out ELSE last.out \o GroupBytes(last.group)

RunLengthDecode(data) ==
    LET n == Len(data)
        from[i \in 1..(n + 2)] ==
            IF i > n \/ data[i] = 128 THEN <<>>
            ELSE IF data[i] < 128
                 THEN SubSeq(data, i + 1, Min({i + 1 + data[i], n})) \o from[Min({i + 2 + data[i], n + 1})]
            ELSE [k \in 1..(257 - data[i]) |-> IF i < n THEN data[i + 1] ELSE 0] \o from[i + 2]
    IN from[1]

------------------------------------------------------------------------------
(* LZW *)

ClearCode == 2 ^ LiteralBits
EodCode == ClearCode + 1
FirstWidth == LiteralBits + 1

\* dict[code] is the table's entry code - 1; the two control codes are empty.
ResetDict == [c \in 1..(EodCode + 1) |-> IF c <= ClearCode THEN <<c - 1>> ELSE <<>>]

BitsValue(bits) ==
    LET v[i \in 0..Len(bits)] == IF i = 0 THEN 0 ELSE 2 * v[i - 1] + bits[i] IN v[Len(bits)]

NextCode(bits, pos, width) ==
    IF pos + width - 1 > Len(bits) THEN EodCode
    ELSE BitsValue(SubSeq(bits, pos, pos + width - 1))

\* The width after the table has grown to size entries: three widenings.
WidthFor(size, width, early) ==
    IF size + early > 2 ^ width - 1 /\ width < FirstWidth + 3 THEN width + 1 ELSE width

LzwStart == [pos |-> 1, width |-> FirstWidth, dict |-> ResetDict, prev |-> <<>>,
             out |-> <<>>, done |-> FALSE]

LzwEmit(s, entry, early) ==
    LET grown == IF s.prev = <<>> THEN s.dict ELSE Append(s.dict, Append(s.prev, Head(entry)))
    IN [s EXCEPT !.dict = grown,
                 !.width = IF s.prev = <<>> THEN @ ELSE WidthFor(Len(grown), @, early),
                 !.prev = entry,
                 !.out = @ \o entry]

LzwStep(s, bits, early) ==
    LET code == NextCode(bits, s.pos, s.width)
        read == [s EXCEPT !.pos = @ + s.width]
    IN IF s.done \/ code = EodCode THEN [s EXCEPT !.done = TRUE]
       ELSE CASE code = ClearCode ->
                     [read EXCEPT !.dict = ResetDict, !.width = FirstWidth, !.prev = <<>>]
              [] code < Len(s.dict) /\ s.dict[code + 1] # <<>> ->
                     LzwEmit(read, s.dict[code + 1], early)
              [] OTHER -> IF s.prev = <<>> THEN [s EXCEPT !.done = TRUE]
                          ELSE LzwEmit(read, Append(s.prev, Head(s.prev)), early)

LzwDecode(bits, early) ==
    LET after[k \in 0..(Len(bits) + 1)] ==
            IF k = 0 THEN LzwStart ELSE LzwStep(after[k - 1], bits, early)
    IN after[Len(bits) + 1].out

------------------------------------------------------------------------------
(* The chain *)

Unfilter(name, data, p) ==
    CASE name = "FlateDecode" ->
             LET r == Inflate(data) IN [r EXCEPT !.bytes = IF r.ok THEN ApplyPredictor(@, p) ELSE @]
      [] name = "LZWDecode" -> Good(ApplyPredictor(LzwDecode(data, p.early), p))
      [] name = "ASCII85Decode" -> Good(Ascii85Decode(data))
      [] name = "ASCIIHexDecode" -> Good(AsciiHexDecode(data))
      [] name = "RunLengthDecode" -> Good(RunLengthDecode(data))
      [] OTHER -> Good(data)

\* Parameters that are no array belong to the first filter only.
ParmsOf(stream, i) ==
    IF stream.parmsIsArray
    THEN IF i <= Len(stream.parms) THEN stream.parms[i] ELSE NoParms
    ELSE IF i = 1 /\ stream.parms # <<>> THEN stream.parms[1] ELSE NoParms

DecodeStream(stream) ==
    LET after[i \in 0..Len(stream.filters)] ==
            IF i = 0 THEN Good(stream.raw)
            ELSE LET s == after[i - 1]
                     name == stream.filters[i]
                 IN IF ~s.ok \/ s.image # "none" THEN s
                    ELSE IF name \in ImageFilters THEN [s EXCEPT !.image = name]
                    ELSE Unfilter(name, s.bytes, ParmsOf(stream, i))
    IN after[Len(stream.filters)]
=============================================================================
