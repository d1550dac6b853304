---------------------------- MODULE PdfResources ----------------------------
(* apps/web/src/lib/pdf/fonts.ts, encodings.ts and images.ts: what a content  *)
(* stream takes from the resources of its page.  A character is the sequence  *)
(* of its UTF-16 units, a pixel <<r, g, b, alpha>>.  The glyph list keeps one *)
(* of the names of the code's table.                                          *)
EXTENDS PdfParser

DefaultSimpleWidth == 500
DefaultCidWidth == 1000

Win1252 == <<8364, 0, 8218, 402, 8222, 8230, 8224, 8225, 710, 8240, 352, 8249, 338, 0, 381, 0,
             0, 8216, 8217, 8220, 8221, 8226, 8211, 8212, 732, 8482, 353, 8250, 339, 0, 382, 376>>

WinAnsiChar(code) ==
    IF code \notin 128..159 THEN <<code>>
    ELSE IF Win1252[code - 127] = 0 THEN <<>> ELSE <<Win1252[code - 127]>>

AGL == <<115, 112, 97, 99, 101>> :> <<32>>

\* The unit a name with four hexadecimal digits behind 'uni' stands for.
HexUnit(name) ==
    HexDigit(name[4]) * 4096 + HexDigit(name[5]) * 256 + HexDigit(name[6]) * 16 + HexDigit(name[7])

IsUniName(name) ==
    /\ Len(name) = 7 /\ SubSeq(name, 1, 3) = <<117, 110, 105>>
    /\ \A i \in 4..7 : HexDigit(name[i]) >= 0

\* glyphNameToUnicode as the set of its result: empty for an unknown name.
GlyphChars(name) ==
    CASE IsUniName(name) -> {<<HexUnit(name)>>}
      [] ~IsUniName(name) /\ Len(name) = 1 -> {name}
      [] name \in DOMAIN AGL -> {AGL[name]}
      [] OTHER -> {}

\* buildSimpleEncoding: numbers set the code, names take it and count it up.
Differences(items) ==
    LET upTo[i \in 0..Len(items)] ==
            IF i = 0 THEN [code |-> 0, map |-> <<>>]
            ELSE LET s == upTo[i - 1]
                     chars == GlyphChars(items[i].name)
                 IN IF "num" \in DOMAIN items[i] THEN [s EXCEPT !.code = items[i].num]
                    ELSE [code |-> s.code + 1,
                          map |-> [c \in {s.code : x \in chars} |-> CHOOSE x \in chars : TRUE] @@ s.map]
    IN upTo[Len(items)].map

BeToNumber(bytes) ==
    LET v[i \in 0..Len(bytes)] == IF i = 0 THEN 0 ELSE v[i - 1] * 256 + bytes[i] IN v[Len(bytes)]

BeToUtf16(bytes) ==
    [k \in 1..((Len(bytes) + 1) \div 2) |->
        IF 2 * k <= Len(bytes) THEN bytes[2 * k - 1] * 256 + bytes[2 * k] ELSE bytes[Len(bytes)]]

\* String.fromCharCode keeps the low 16 bits of base + k.
UnitPlus(base, k) ==
    <<(BeToNumber(SubSeq(base, Max({1, Len(base) - 1}), Len(base))) + k) % 65536>>

\* parseToUnicodeCMap.
KwBeginBfChar == <<98, 101, 103, 105, 110, 98, 102, 99, 104, 97, 114>>
KwEndBfChar == <<101, 110, 100, 98, 102, 99, 104, 97, 114>>
KwBeginBfRange == <<98, 101, 103, 105, 110, 98, 102, 114, 97, 110, 103, 101>>
KwEndBfRange == <<101, 110, 100, 98, 102, 114, 97, 110, 103, 101>>

ModeAfter(word, mode) ==
    CASE word = KwBeginBfChar -> "bfchar"
      [] word = KwBeginBfRange -> "bfrange"
      [] word \in {KwEndBfChar, KwEndBfRange} -> "none"
      [] OTHER -> mode

\* The destinations in brackets from p on: the n-th belongs to code lo + n - 1.
Listed(t, list) ==
    IF t.type \in {"array-close", "eof"} THEN [chars |-> <<>>, next |-> t.next]
    ELSE IF t.type # "string" THEN list[t.next]
    ELSE [list[t.next] EXCEPT !.chars = <<BeToUtf16(t.value)>> \o @]

ListedChars(b, p) ==
    LET list[q \in 1..(Len(b) + 1)] == Listed(NextToken(b, q), list)
    IN list[p]

\* One entry of a bfchar section, and of a bfrange section; from is the map
\* of the tokens behind it.
BfChar(lo, t1, from) ==
    IF t1.type = "string" THEN from[t1.next, "bfchar"] @@ (lo :> BeToUtf16(t1.value))
    ELSE from[t1.next, "bfchar"]

BfList(lo, listed, from) ==
    from[listed.next, "bfrange"]
        @@ [c \in lo..(lo + Len(listed.chars) - 1) |-> listed.chars[c - lo + 1]]

BfRange(b, lo, t1, t2, from) ==
    LET hi == IF t1.type = "string" THEN BeToNumber(t1.value) ELSE 0
    IN CASE t2.type = "array-open" -> BfList(lo, ListedChars(b, t2.next), from)
         [] t2.type = "string" ->
                from[t2.next, "bfrange"] @@ [c \in lo..hi |-> UnitPlus(t2.value, c - lo)]
         [] OTHER -> from[t2.next, "bfrange"]

MapFrom(b, t, mode, from) ==
    LET t1 == NextToken(b, t.next)
    IN CASE t.type = "eof" -> <<>>
         [] t.type = "keyword" -> from[t.next, ModeAfter(t.value, mode)]
         [] t.type = "string" /\ mode = "bfchar" -> BfChar(BeToNumber(t.value), t1, from)
         [] t.type = "string" /\ mode = "bfrange" ->
                BfRange(b, BeToNumber(t.value), t1, NextToken(b, t1.next), from)
         [] OTHER -> from[t.next, mode]

ToUnicodeMap(b) ==
    LET from[p \in 1..(Len(b) + 1), mode \in {"none", "bfchar", "bfrange"}] ==
            MapFrom(b, NextToken(b, p), mode, from)
    IN from[1, "none"]

\* getToUnicode: a stream that does not decode counts as none.
ToUnicode(font) == IF font.toUnicode.ok THEN ToUnicodeMap(font.toUnicode.bytes) ELSE <<>>

\* A code of a simple font, by the font's ToUnicode map and its differences.
SimpleGlyph(font, unicode, encoding, code) ==
    LET idx == code - font.firstChar + 1
        listed == idx \in DOMAIN font.widths /\ font.widths[idx] > 0
    IN [width |-> IF listed THEN font.widths[idx] ELSE font.missingWidth,
        char |-> IF code \in DOMAIN unicode THEN unicode[code]
                 ELSE IF code \in DOMAIN encoding THEN encoding[code]
                 ELSE WinAnsiChar(code),
        code |-> code, bytes |-> 1]

\* parseCidWidths: 'c [w1 w2 ...]' or 'first last w'.
CidWidths(w) ==
    LET from[i \in 1..(Len(w) + 3)] ==
            LET first == w[i].num
                next == IF i < Len(w) THEN w[i + 1] ELSE [num |-> 0]
                width == IF i + 2 <= Len(w) THEN w[i + 2].num ELSE 0
            IN IF i > Len(w) THEN <<>>
               ELSE IF "arr" \in DOMAIN next
                    THEN from[i + 2] @@ [c \in first..(first + Len(next.arr) - 1) |-> next.arr[c - first + 1].num]
               ELSE from[i + 3] @@ [c \in first..next.num |-> width]
    IN from[1]

CidGlyph(font, unicode, widths, code) ==
    [width |-> IF code \in DOMAIN widths THEN widths[code] ELSE font.dw,
     char |-> IF code \in DOMAIN unicode THEN unicode[code] ELSE <<>>,
     code |-> code, bytes |-> 2]

\* decodeString of a simple font and of a Type0 font with two-byte codes.
SimpleGlyphs(font, unicode, encoding, bytes) ==
    [k \in DOMAIN bytes |-> SimpleGlyph(font, unicode, encoding, bytes[k])]

CidGlyphs(font, unicode, widths, bytes) ==
    [k \in 1..(Len(bytes) \div 2) |->
        CidGlyph(font, unicode, widths, bytes[2 * k - 1] * 256 + bytes[2 * k])]

Glyphs(font, bytes) ==
    IF font.type0 THEN CidGlyphs(font, ToUnicode(font), CidWidths(font.w), bytes)
    ELSE SimpleGlyphs(font, ToUnicode(font), Differences(font.differences), bytes)

------------------------------------------------------------------------------
(* Images *)

ByteAt(data, i) == IF i <= Len(data) THEN data[i] ELSE 0

\* Bit x of row y, rows padded to whole bytes.
BitAt(data, width, x, y) ==
    (ByteAt(data, y * ((width + 7) \div 8) + (x \div 8) + 1) \div 2 ^ (7 - (x % 8))) % 2

\* 255 * (1 - c) * (1 - k), rounded as a clamped array does.
Ink(c, k) == ((255 - c) * (255 - k) * 2 + 255) \div 510

\* componentCount of a colour space that is a name or an array.
ComponentCount(cs) ==
    CASE cs.kind \in {"DeviceGray", "CalGray", "Indexed"} -> 1
      [] ~cs.array /\ cs.kind = "DeviceCMYK" -> 4
      [] ~cs.array /\ cs.kind \notin {"DeviceGray", "CalGray", "Indexed", "DeviceCMYK"} -> 3
      [] cs.array /\ cs.kind \in {"ICCBased", "DeviceN"} -> cs.n
      [] OTHER -> 1

ColourPixel(comps, data, i) ==
    LET at(k) == ByteAt(data, i * comps + k)
    IN CASE comps = 1 -> <<at(1), at(1), at(1), 255>>
         [] comps = 3 -> <<at(1), at(2), at(3), 255>>
         [] comps = 4 -> <<Ink(at(1), at(4)), Ink(at(2), at(4)), Ink(at(3), at(4)), 255>>

MaskPixel(image, data, fill, x, y) ==
    LET bit == BitAt(data, image.width, x, y)
    IN IF image.mask THEN Append(fill, IF bit = 0 THEN 255 ELSE 0)
       ELSE <<bit * 255, bit * 255, bit * 255, 255>>

\* rasterToBitmap; <<>> for depths it does not support.
Raster(image, data, fill) ==
    LET n == image.width * image.height
        comps == ComponentCount(image.cs)
        pixel(i) == IF image.mask \/ image.bpc = 1
                    THEN MaskPixel(image, data, fill, i % image.width, i \div image.width)
                    ELSE ColourPixel(comps, data, i)
    IN IF image.mask \/ image.bpc = 1 \/ (image.bpc = 8 /\ comps \in {1, 3, 4})
       THEN [i \in 1..n |-> pixel(i - 1)] ELSE <<>>

\* decodeImage: JPEG goes to the platform, other image filters draw nothing.
ImageOf(image, decoded, fill) ==
    LET empty == image.width <= 0 \/ image.height <= 0
    IN [ok |-> decoded.ok \/ empty,
        pixels |-> CASE ~empty /\ decoded.image = "DCTDecode" -> decoded.bytes
                     [] ~empty /\ decoded.image = "none" -> Raster(image, decoded.bytes, fill)
                     [] OTHER -> <<>>]

DecodeImage(image, fill) == ImageOf(image, DecodeStream(image.stream), fill)
=============================================================================
