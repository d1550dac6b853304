------------------------------- MODULE MC_Pdf -------------------------------
EXTENDS PdfPage

Writer == INSTANCE PdfWriter

\* op -> bytes, the names of operators in a file.
OpBytes ==
    "q" :> <<113>> @@ "Q" :> <<81>> @@ "cm" :> <<99, 109>> @@ "w" :> <<119>>
    @@ "m" :> <<109>> @@ "l" :> <<108>> @@ "c" :> <<99>> @@ "y" :> <<121>> @@ "v" :> <<118>>
    @@ "re" :> <<114, 101>> @@ "h" :> <<104>> @@ "f" :> <<102>> @@ "f*" :> <<102, 42>>
    @@ "B" :> <<66>> @@ "b*" :> <<98, 42>> @@ "S" :> <<83>> @@ "s" :> <<115>> @@ "n" :> <<110>>
    @@ "W" :> <<87>> @@ "W*" :> <<87, 42>> @@ "g" :> <<103>> @@ "G" :> <<71>>
    @@ "rg" :> <<114, 103>> @@ "RG" :> <<82, 71>> @@ "k" :> <<107>> @@ "K" :> <<75>>
    @@ "sc" :> <<115, 99>> @@ "SCN" :> <<83, 67, 78>> @@ "BT" :> <<66, 84>> @@ "ET" :> <<69, 84>>
    @@ "Tc" :> <<84, 99>> @@ "Tw" :> <<84, 119>> @@ "Tz" :> <<84, 122>> @@ "TL" :> <<84, 76>>
    @@ "Ts" :> <<84, 115>> @@ "Tr" :> <<84, 114>> @@ "Tf" :> <<84, 102>> @@ "Td" :> <<84, 100>>
    @@ "TD" :> <<84, 68>> @@ "Tm" :> <<84, 109>> @@ "T*" :> <<84, 42>> @@ "Tj" :> <<84, 106>>
    @@ "TJ" :> <<84, 74>> @@ "'" :> <<39>> @@ "\"" :> <<34>> @@ "Do" :> <<68, 111>>
    \* An inline image: BI /W 1 ID, data with a Q and no EI, EI.
    @@ "BI" :> <<66, 73, 32, 47, 87, 32, 49, 32, 73, 68, 32, 1, 32, 81, 32, 69, 73, 66, 10, 69, 73>>

MCOpNames == [b \in {OpBytes[op] : op \in DOMAIN OpBytes} |-> CHOOSE op \in DOMAIN OpBytes : OpBytes[op] = b]

Op(op, numbers) == [op |-> op, args |-> [i \in DOMAIN numbers |-> [num |-> numbers[i]]]]
Str(bytes) == [str |-> bytes]
Of(op, arg) == [op |-> op, args |-> <<arg>>]
Tf(name, size) == [op |-> "Tf", args |-> <<[name |-> name], [num |-> size]>>]
Do(name) == [op |-> "Do", args |-> <<[name |-> name]>>]

------------------------------------------------------------------------------
(* Fonts: Latin is a simple font whose 66 is re-encoded, Wide has two bytes   *)
(* to a code and a ToUnicode map:                                             *)
(*   beginbfchar <0001> <0041> endbfchar beginbfrange <0005> <0006> <0061>    *)

NoStream == [ok |-> FALSE, bytes |-> <<>>]

ToUnicodeBytes ==
    KwBeginBfChar \o <<60, 48, 48, 48, 49, 62, 60, 48, 48, 52, 49, 62>> \o KwEndBfChar
        \o <<10>> \o KwBeginBfRange \o <<60, 48, 48, 48, 53, 62, 60, 48, 48, 48, 54, 62, 60, 48, 48, 54, 49, 62>>

Shows(width, char) == [width |-> width, char |-> char]

MCFonts ==
    "latin" :> [type0 |-> FALSE, firstChar |-> 65, widths |-> <<600, 700>>, missingWidth |-> 400,
                differences |-> <<[num |-> 66], [name |-> <<117, 110, 105, 48, 48, 53, 65>>], [name |-> <<113>>]>>,
                toUnicode |-> NoStream, dw |-> 0, w |-> <<>>,
                shows |-> 65 :> Shows(600, <<65>>) @@ 66 :> Shows(700, <<90>>) @@ 67 :> Shows(400, <<113>>)
                          @@ 32 :> Shows(400, <<32>>) @@ 40 :> Shows(400, <<40>>) @@ 92 :> Shows(400, <<92>>) @@ 128 :> Shows(400, <<8364>>)]
    @@ "wide" :> [type0 |-> TRUE, firstChar |-> 0, widths |-> <<>>, missingWidth |-> 0, differences |-> <<>>,
                  toUnicode |-> [ok |-> TRUE, bytes |-> ToUnicodeBytes], dw |-> 1000,
                  w |-> <<[num |-> 1], [arr |-> <<[num |-> 300]>>], [num |-> 5], [num |-> 6], [num |-> 800]>>,
                  shows |-> 1 :> Shows(300, <<65>>) @@ 6 :> Shows(800, <<98>>) @@ 9 :> Shows(1000, <<>>)]

------------------------------------------------------------------------------
(* Images and forms *)

Raw(filters, parms, raw) == [filters |-> filters, parms |-> parms, parmsIsArray |-> FALSE, raw |-> raw]
Parms(predictor, colors, bpc, columns, early) ==
    <<[predictor |-> predictor, colors |-> colors, bpc |-> bpc, columns |-> columns, early |-> early]>>

Image(width, height, bpc, kind, mask, stream, shows) ==
    [subtype |-> "Image", width |-> width, height |-> height, mask |-> mask, bpc |-> bpc,
     cs |-> [array |-> FALSE, kind |-> kind, n |-> 0], stream |-> stream,
     broken |-> FALSE, shows |-> shows]

Grays(data) == [i \in DOMAIN data |-> <<data[i], data[i], data[i], 255>>]
GrayData == <<1, 1, 1, 1, 2, 1, 1, 3, 0, 1, 1, 1>>
ColourData == <<9, 200, 30, 10, 190, 250, 8, 7, 6, 5, 4, 3>>

\* Gray, LZW with codes that widen and a full table; colours behind a PNG and
\* a TIFF predictor; a stencil; inks; what the platform decodes; a broken one.
ImLzw == Image(12, 1, 8, "DeviceGray", FALSE,
               Raw(<<"LZWDecode">>, <<>>, Writer!LzwBits(GrayData, LiteralBits, 1, 13)), Grays(GrayData))
ImLate == Image(12, 1, 8, "CalGray", FALSE,
                Raw(<<"LZWDecode">>, Parms(1, 1, 8, 1, 0), Writer!LzwBits(GrayData, LiteralBits, 0, 100)), Grays(GrayData))
Colours(data) == [i \in 1..(Len(data) \div 3) |-> SubSeq(data, 3 * i - 2, 3 * i) \o <<255>>]
ImPng == Image(2, 2, 8, "DeviceRGB", FALSE,
               Raw(<<"FlateDecode">>, Parms(15, 3, 8, 2, 1), <<Zlib>> \o Writer!PngRows(ColourData, 6, 3, <<1, 4>>)),
               Colours(ColourData))
ImTiff == Image(2, 2, 8, "DeviceRGB", FALSE,
                Raw(<<"FlateDecode">>, Parms(2, 3, 8, 2, 1), <<RawDeflate>> \o Writer!TiffRows(ColourData, 6, 3)),
                Colours(ColourData))
ImMask == Image(3, 2, 1, "DeviceGray", TRUE, Raw(<<>>, <<>>, <<160, 64>>), <<0, 255, 0, 255, 0, 255>>)
ImBits == Image(9, 1, 1, "DeviceGray", FALSE, Raw(<<"RunLengthDecode">>, <<>>, Writer!RunLengths(<<128, 128>>)),
                Grays(<<255, 0, 0, 0, 0, 0, 0, 0, 255>>))
ImInk == Image(1, 1, 8, "DeviceCMYK", FALSE, Raw(<<>>, <<>>, <<0, 255, 0, 0>>), <<<<255, 0, 255, 255>>>>)
ImJpeg == Image(1, 1, 8, "DeviceRGB", FALSE, Raw(<<"ASCIIHexDecode", "DCTDecode">>, <<>>, <<52, 49, 62>>), <<65>>)
ImFax == Image(1, 1, 1, "DeviceGray", FALSE, Raw(<<"CCITTFaxDecode">>, <<>>, <<1>>), <<>>)
ImBroken == [Image(1, 1, 8, "DeviceGray", FALSE, Raw(<<"FlateDecode">>, <<>>, <<7>>), <<>>) EXCEPT !.broken = TRUE]

Form(matrix, res, code) ==
    [subtype |-> "Form", matrix |-> matrix, resources |-> res, ok |-> TRUE, code |-> code]

Shift == <<1, 0, 0, 1, 5, 7>>
Box(x) == Op("re", <<x, 0, 3, 4>>)

FmPlain == Form(<<Shift>>, "none", <<Op("rg", <<0, 1, 0>>), Box(1), Op("f", <<>>)>>)
FmNested == Form(<<>>, "inner", <<Op("q", <<>>), Op("cm", <<2, 0, 0, 2, 0, 0>>), Do(<<66>>), Op("Q", <<>>),
                                  Op("w", <<3>>), Box(2), Op("S", <<>>), Do(<<65>>), Do(<<90>>), Box(9), Op("f", <<>>)>>)
FmSelf == Form(<<Shift>>, "none", <<Box(1), Op("f", <<>>), Do(<<83>>)>>)
FmOpens == Form(<<Shift>>, "none", <<Op("q", <<>>), Op("g", <<1>>)>>)
FmCloses == Form(<<Shift>>, "none", <<Op("Q", <<>>), Op("Q", <<>>), Box(1), Op("f", <<>>)>>)
FmUnread == [Form(<<Shift>>, "none", <<>>) EXCEPT !.ok = FALSE]

MCResources ==
    "none" :> [fonts |-> <<>>, xobjects |-> <<>>]
    @@ "page" :> [fonts |-> <<70>> :> "latin" @@ <<71>> :> "wide",
                  xobjects |-> <<65>> :> FmPlain @@ <<78>> :> FmNested @@ <<83>> :> FmSelf @@ <<79>> :> FmOpens
                               @@ <<67>> :> FmCloses @@ <<85>> :> FmUnread @@ <<90>> :> ImBroken
                               @@ <<49>> :> ImLzw @@ <<50>> :> ImLate @@ <<51>> :> ImPng @@ <<52>> :> ImTiff
                               @@ <<53>> :> ImMask @@ <<54>> :> ImBits @@ <<55>> :> ImInk
                               @@ <<56>> :> ImJpeg @@ <<57>> :> ImFax]
    @@ "inner" :> [fonts |-> <<70>> :> "wide", xobjects |-> <<65>> :> ImMask @@ <<66>> :> FmPlain @@ <<90>> :> ImBroken]

------------------------------------------------------------------------------
(* Contents *)

Fill == Op("f", <<>>)
Plain == <<Op("rg", <<1, 0, 0>>), Op("re", <<10, 10, 100, 50>>), Fill, Op("BT", <<>>), Tf(<<70>>, 12),
           Op("Td", <<20, 120>>), Of("Tj", Str(<<65, 40, 92>>)), Op("ET", <<>>)>>

Codes == {
    <<Op("q", <<>>), Op("cm", <<2, 0, 0, 2, 1, 1>>), Op("w", <<4>>), Op("RG", <<0, 0, 1>>), Box(1), Op("S", <<>>),
      Op("q", <<>>), Op("w", <<5>>), Op("K", <<1, 0, 0, 0>>), Op("Q", <<>>), Box(2), Op("b*", <<>>), Op("Q", <<>>),
      Op("m", <<1, 2>>), Op("l", <<3, 4>>), Op("c", <<1, 2, 3, 4, 5, 6>>), Op("y", <<1, 2, 3, 4>>), Op("s", <<>>)>>,
    <<Box(1), Op("W", <<>>), Op("n", <<>>), Op("q", <<>>), Box(2), Op("W*", <<>>), Fill, Box(3), Fill, Op("Q", <<>>),
      Op("g", <<1>>), Box(4), Op("f*", <<>>), Op("Q", <<>>), Op("Q", <<>>), Box(5), Op("h", <<>>), Op("B", <<>>)>>,
    <<Op("BT", <<>>), Tf(<<70>>, 10), Op("TL", <<14>>), Op("Td", <<5, 100>>), Of("Tj", Str(<<65, 32, 66>>)),
      Op("Tc", <<1>>), Op("T*", <<>>), Of("Tj", Str(<<67, 128>>)), Op("TD", <<3, -9>>), Of("'", Str(<<65>>)),
      [op |-> "\"", args |-> <<[num |-> 2], [num |-> 3], Str(<<65, 32, 65>>)>>], Op("ET", <<>>),
      Op("BT", <<>>), Op("Tz", <<50>>), Op("Ts", <<4>>), Op("Tm", <<1, 0, 0, 1, 9, 9>>),
      Of("TJ", [arr |-> <<Str(<<65>>), [num |-> -120], Str(<<66, 66>>)>>]), Op("Tr", <<3>>), Of("Tj", Str(<<65>>)),
      Op("ET", <<>>)>>,
    <<Op("g", <<0>>), Do(<<65>>), Op("q", <<>>), Op("cm", <<1, 0, 0, 1, 3, 3>>), Do(<<78>>), Op("Q", <<>>), Do(<<85>>),
      Box(7), Fill, Op("BT", <<>>), Tf(<<71>>, 8), Op("Tw", <<5>>), Of("Tj", Str(<<0, 1, 0, 6, 0, 9, 0, 1>>)), Op("ET", <<>>)>>,
    <<Do(<<49>>), Do(<<50>>), Do(<<51>>), Do(<<52>>), Op("sc", <<0, 1, 0>>), Do(<<53>>), Do(<<54>>), Do(<<55>>),
      Do(<<56>>), Do(<<57>>), Op("BI", <<>>), Box(1), Fill, Do(<<90>>), Box(2), Fill>>,
    <<Op("k", <<0, 1, 0, 0>>), Box(1), Fill, Op("SCN", <<1, 0, 0, 0>>), Op("G", <<2>>), Box(1), Op("B", <<>>),
      Tf(<<88>>, 3), Of("Tj", Str(<<65>>)), Do(<<99>>)>>,
    <<Do(<<83>>), Box(1), Fill>>,
    <<Op("q", <<>>), Do(<<79>>), Do(<<67>>), Op("Q", <<>>), Do(<<79>>), Box(1), Fill, Op("v", <<1, 2, 3, 4>>), Fill>>}

------------------------------------------------------------------------------
(* Files.  Object n of the plain document is at offset n: 1 the catalog, 2    *)
(* the page tree, 3 the page, 4 its content.                                  *)

Node(type, kids, contents, attrs) ==
    [type |-> type, pages |-> 0, kids |-> kids, hasKids |-> kids # <<>>, contents |-> contents, attrs |-> attrs]
Catalog(tree) == [Node("Catalog", <<>>, <<>>, <<>>) EXCEPT !.pages = tree]
RefTo(n) == [type |-> "ref", num |-> n]
Object(n, value) == [num |-> n, value |-> value]
PageAttrs == [Resources |-> "page"]
Leaf(content) == Node("Page", <<>>, <<content>>, PageAttrs)
ObjStm(objects) == [type |-> "ObjStm", ok |-> TRUE, objects |-> objects]

Stream(filters, parms, bytes) ==
    [type |-> "Stream", bytes |-> bytes, filters |-> filters, parms |-> parms, parmsIsArray |-> TRUE]

\* The content with object number n, unfiltered, with its true length.
Content(n, code) ==
    LET raw == Writer!Written(code, OpBytes, FALSE)
    IN Stream(<<>>, <<>>, Writer!StreamObject(n, Len(raw), raw))

InFile(offset) == [kind |-> "n", offset |-> offset]
InStream(stream, index) == [kind |-> "c", stream |-> stream, index |-> index]
Free == [kind |-> "f"]

Section(kind, entries, prev) ==
    [kind |-> kind, entries |-> entries, root |-> 1, encrypt |-> FALSE, prev |-> prev, xrefStm |-> 0,
     flate |-> TRUE, cut |-> FALSE]

\* The pages and codes a file's writer left: numbers of contents, and a code each.
Doc(startxref, sections, objects, written, codes) ==
    [startxref |-> startxref, sections |-> sections, objects |-> objects, maxKids |-> 3,
     written |-> written, codes |-> codes, sound |-> TRUE]

PageOf(content, attrs) == [contents |-> <<content>>, attrs |-> attrs]

Straight(ns) == [n \in ns |-> InFile(n)]

Single(content, code) ==
    Doc(100, 100 :> Section("table", Straight(1..4), 0),
        <<Object(1, Catalog(2)), Object(2, Node("Pages", <<3>>, <<>>, <<>>)), Object(3, Leaf(4)), Object(4, content)>>,
        <<PageOf(4, PageAttrs)>>, 4 :> code)

\* Every content in the plain document.
OfContent == {Single(Content(4, code), code) : code \in Codes}

\* Every way to write the plain content: filters, predictors, kinds of
\* strings, and a /Length that is too short, too long or right.
PlainBytes(hex) == Writer!Written(Plain, OpBytes, hex)
None == Parms(1, 1, 8, 1, 1)
\* Behind a PNG predictor, in rows of so many components of bpc bits.
PngEncoded(bpc, columns, rowLen, bpp) ==
    [filters |-> <<"ASCIIHexDecode", "FlateDecode">>, parms |-> None \o Parms(12, 1, bpc, columns, 1),
     raw |-> Writer!Hexed(<<Zlib>> \o Writer!PngRows(PlainBytes(TRUE) \o [i \in 1..(rowLen - 1) |-> 32], rowLen, bpp,
                                                      [r \in 1..30 |-> r % 5]))]

Encoded == {
    [filters |-> <<"FlateDecode">>, parms |-> None, raw |-> <<Zlib>> \o PlainBytes(TRUE)],
    [filters |-> <<"ASCIIHexDecode">>, parms |-> None, raw |-> Append(Writer!Hexed(PlainBytes(FALSE)), 62)],
    [filters |-> <<"ASCII85Decode">>, parms |-> None, raw |-> Writer!Ascii85(PlainBytes(FALSE))],
    [filters |-> <<"RunLengthDecode", "ASCII85Decode">>, parms |-> None \o None,
     raw |-> Writer!RunLengths(Writer!Ascii85(PlainBytes(FALSE)))],
    PngEncoded(4, 13, 7, 1), PngEncoded(16, 4, 8, 2)}

OfEncoding ==
    {Single(Stream(e.filters, e.parms, Writer!StreamObject(4, Len(e.raw) + wrong, e.raw)), Plain) :
        e \in Encoded, wrong \in {-3, 0, 40}}

\* Content in two parts, the first of which ends in the middle of a line.
Parts ==
    LET first == SubSeq(Plain, 1, 3)
        last == SubSeq(Plain, 4, Len(Plain))
        cut == Writer!Written(first, OpBytes, FALSE)
        raw == SubSeq(cut, 1, Len(cut) - 1)
        whole == Single(Content(4, first), first)
    IN [whole EXCEPT
           !.sections = 100 :> Section("table", Straight(1..5), 0),
           !.objects = <<@[1], @[2], Object(3, Node("Page", <<>>, <<4, 5>>, PageAttrs)),
                         Object(4, Stream(<<>>, <<>>, Writer!StreamObject(4, Len(raw), raw))),
                         Object(5, Content(5, last))>>,
           !.written = <<[contents |-> <<4, 5>>, attrs |-> PageAttrs]>>,
           !.codes = 4 :> first @@ 5 :> last]

------------------------------------------------------------------------------
(* The structure of files *)

Other == <<Op("g", <<1>>), Box(1), Fill>>
Old == Object(4, Content(4, Other))

\* A tree of three levels: attributes come from the nearest node that has
\* them; a node that is no page, one kid twice and one that leads back up.
Box1 == [MediaBox |-> <<-20, 10, 78, 150>>]
Tree ==
    LET page(content, attrs) == Node("Page", <<>>, <<content>>, attrs)
    IN Doc(100, 100 :> Section("table", Straight(1..9), 0),
           <<Object(1, Catalog(2)),
             Object(2, Node("Pages", <<3, 8, 5>>, <<>>, PageAttrs @@ [Rotate |-> 90])),
             Object(3, Node("Pages", <<6, 2, 7>>, <<>>, Box1)),
             Object(4, Content(4, Other)), Object(5, page(4, [Rotate |-> -180])),
             Object(6, page(4, <<>>)), Object(7, page(4, [Rotate |-> 270, MediaBox |-> <<0, 0, 1, 11>>])),
             Object(8, Node("Pages", <<6, 9>>, <<>>, <<>>)), Object(9, RefTo(9))>>,
           <<PageOf(4, PageAttrs @@ [Rotate |-> 90] @@ Box1),
             PageOf(4, PageAttrs @@ [Rotate |-> 270, MediaBox |-> <<0, 0, 1, 11>>]),
             PageOf(4, PageAttrs @@ [Rotate |-> -180])>>, 4 :> Other)

Base == <<Object(1, Catalog(2)), Object(2, Node("Pages", <<3>>, <<>>, <<>>)), Object(3, Leaf(4)), Old>>

TwoPages == Object(2, Node("Pages", <<3, 5>>, <<>>, <<>>))

\* An update behind the old file: another content, a page more.
Update == Base \o <<Object(4, Content(4, Plain)), TwoPages, Object(5, Leaf(4))>>
UpdatedEntries == 2 :> InFile(6) @@ 4 :> InFile(5) @@ 5 :> InFile(7)
UpdatedPages == <<PageOf(4, PageAttrs), PageOf(4, PageAttrs)>>

Updated(newKind, oldKind) ==
    Doc(101, 101 :> Section(newKind, UpdatedEntries @@ 9 :> Free, 100)
                 @@ 100 :> Section(oldKind, Straight(1..4), 0),
        Update, UpdatedPages, 4 :> Plain)

\* Catalog, tree and page in an object stream; the update replaces the page in
\* another one.
Packed(update) ==
    LET old == Section("stream", 1 :> InStream(5, 1) @@ 2 :> InStream(5, 2) @@ 3 :> InStream(5, 3)
                                   @@ 4 :> InFile(1) @@ 5 :> InFile(2), 0)
        new == Section("stream", 3 :> InStream(6, 1) @@ 6 :> InFile(3), 100)
        first == ObjStm(1 :> Catalog(2) @@ 2 :> Node("Pages", <<3>>, <<>>, <<>>) @@ 3 :> Leaf(4))
        second == ObjStm(1 :> Node("Page", <<>>, <<4>>, PageAttrs @@ [Rotate |-> 180]))
    IN Doc(IF update THEN 101 ELSE 100, 100 :> old @@ 101 :> new,
           <<Object(4, Content(4, Plain)), Object(5, first), Object(6, second)>>,
           <<PageOf(4, IF update THEN PageAttrs @@ [Rotate |-> 180] ELSE PageAttrs)>>, 4 :> Plain)

\* A hybrid file: what is in the object stream only the XRefStm says, and an
\* older section knows an older page.
Hybrid(flate) ==
    LET stm == [Section("stream", 3 :> InStream(5, 1), 0) EXCEPT !.flate = flate]
        new == [Section("table", 5 :> InFile(5), 100) EXCEPT !.xrefStm = 102]
    IN Doc(101, 100 :> Section("table", Straight(1..4), 0) @@ 101 :> new @@ 102 :> stm,
           Base \o <<Object(5, ObjStm(1 :> Node("Page", <<>>, <<4>>, PageAttrs @@ [Rotate |-> 180])))>>,
           <<PageOf(4, PageAttrs @@ [Rotate |-> 180])>>, 4 :> Other)

\* No section where startxref points, or one that ends early: the scan takes
\* the last object of every number.
Damaged(cut) ==
    [Updated("table", "table") EXCEPT
        !.startxref = IF cut THEN 101 ELSE 7,
        !.sections[101] = [@ EXCEPT !.cut = cut]]

Loops == [Updated("stream", "table") EXCEPT !.sections[100] = [@ EXCEPT !.prev = 101]]

Locked == [Single(Content(4, Plain), Plain) EXCEPT !.sections[100] = [@ EXCEPT !.encrypt = TRUE]]

\* A page instead of a tree.
Lone == [Single(Content(4, Plain), Plain) EXCEPT !.objects[1] = Object(1, Catalog(3))]

\* Neither a root nor a catalog, and an object stream that does not decode.
Rubbish(kind) ==
    LET lost == [Single(Content(4, Plain), Plain) EXCEPT
                    !.sound = FALSE, !.startxref = 0, !.objects[1] = Object(1, NoObject)]
        torn == [Packed(FALSE) EXCEPT !.sound = FALSE, !.objects[2] = [@ EXCEPT !.value = [@ EXCEPT !.ok = FALSE]]]
        unread == [Single(Stream(<<"FlateDecode">>, None, Writer!StreamObject(4, 1, <<7>>)), Plain) EXCEPT !.sound = FALSE]
        halved == [Updated("stream", "stream") EXCEPT !.sound = FALSE, !.sections[101] = [@ EXCEPT !.cut = TRUE]]
    IN CASE kind = "lost" -> lost [] kind = "torn" -> torn [] kind = "unread" -> unread [] kind = "halved" -> halved

OfStructure ==
    {Tree, Loops, Locked, Lone, Parts}
    \cup {Updated(new, old) : new, old \in {"table", "stream"}}
    \cup {Packed(update) : update \in BOOLEAN}
    \cup {Hybrid(flate) : flate \in BOOLEAN}
    \cup {Damaged(cut) : cut \in BOOLEAN}
    \cup {Rubbish(kind) : kind \in {"lost", "torn", "unread", "halved"}}

MCFiles == OfContent \cup OfEncoding \cup OfStructure

\* Twentieths: the thumbnail's 0.7, the dialog's first 1.25, and 0.25, at which a
\* box one unit wide is less than half a pixel and one 98 wide half a pixel off.
MCScales == {5, 14, 25}
=============================================================================
