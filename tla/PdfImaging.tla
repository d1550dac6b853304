----------------------------- MODULE PdfImaging -----------------------------
(* What a page's operators paint by the imaging model of ISO 32000-1 (8.3-8.5 *)
(* and 9.2-9.4), external to the repository: the reference the interpreter is *)
(* checked against.  It keeps no state and no stack: what holds for an        *)
(* operator is looked up among those before it.                               *)
EXTENDS Integers, Sequences, FiniteSetsExt, SequencesExt

CONSTANTS
    Fonts,          \* font -> what its codes show and the bytes of a code
    Resources,      \* resource dictionary -> its fonts and XObjects
    MaxFormDepth,   \* forms nest no deeper
    Unit            \* a unit of text space

------------------------------------------------------------------------------
(* Forms are painted as if their content stood between q and Q *)

FormsOf(res) == {n \in DOMAIN Resources[res].xobjects : Resources[res].xobjects[n].subtype = "Form"}

FormCodes == UNION {{Resources[r].xobjects[n].code : n \in FormsOf(r)} : r \in DOMAIN Resources}

XObjectOf(i, res) ==
    IF i.op = "Do" /\ i.args[1].name \in DOMAIN Resources[res].xobjects
    THEN Resources[res].xobjects[i.args[1].name] ELSE [subtype |-> "none"]

Breaks(i, res) == XObjectOf(i, res).subtype = "Image" /\ XObjectOf(i, res).broken

\* A content is painted up to an image whose data are broken.
Sound(code, res) ==
    LET breaks == {k \in DOMAIN code : Breaks(code[k], res)}
    IN IF breaks = {} THEN code ELSE SubSeq(code, 1, Min(breaks) - 1)

Flat(code, res) ==
    LET op(name, args, r) == <<[op |-> name, args |-> args, res |-> r]>>
        flat[c \in FormCodes \cup {code}, r \in DOMAIN Resources, d \in 0..MaxFormDepth] ==
            LET one(i) ==
                    LET x == XObjectOf(i, r)
                        inner == IF x.resources = "none" THEN r ELSE x.resources
                    IN IF x.subtype = "Form"
                       THEN IF d = MaxFormDepth THEN <<>>
                            ELSE op("q", <<>>, r)
                                 \o (IF x.matrix = <<>> THEN <<>> ELSE op("matrix", x.matrix, r))
                                 \o (IF x.ok THEN flat[x.code, inner, d + 1] ELSE <<>>)
                                 \o op("Q", <<>>, r)
                       ELSE op(i.op, i.args, r)
            IN FlattenSeq([k \in DOMAIN Sound(c, r) |-> one(c[k])])
    IN flat[code, res, 0]

------------------------------------------------------------------------------
(* Graphics state *)

\* How many q are open behind operator k; a Q too many closes nothing.
Levels(ops) ==
    LET d[k \in 0..Len(ops)] ==
            CASE k = 0 -> 0
              [] k > 0 /\ ops[k].op = "q" -> d[k - 1] + 1
              [] k > 0 /\ ops[k].op = "Q" -> Max({0, d[k - 1] - 1})
              [] OTHER -> d[k - 1]
    IN d

\* The q that was open at j has not been closed at i.
Holds(ops, j, i) == \A k \in j..i : Levels(ops)[k] >= Levels(ops)[j]

Last0(S) == IF S = {} THEN 0 ELSE Max(S)

InForce(ops, i, setters) == Last0({j \in 1..i : ops[j].op \in setters /\ Holds(ops, j, i)})

Number(ops, j, a) == IF a \in DOMAIN ops[j].args THEN ops[j].args[a].num ELSE 0

Parameter(ops, i, op, default) ==
    LET j == InForce(ops, i, {op}) IN IF j = 0 THEN default ELSE Number(ops, j, 1)

Level(v) == IF v <= 0 THEN 0 ELSE 255

Device(components) ==
    LET c(k) == components[k].num
    IN CASE Len(components) = 1 -> <<Level(c(1)), Level(c(1)), Level(c(1))>>
         [] Len(components) = 3 -> <<Level(c(1)), Level(c(2)), Level(c(3))>>
         [] Len(components) = 4 -> [k \in 1..3 |-> IF c(k) >= 1 \/ c(4) >= 1 THEN 0 ELSE 255]

Colour(ops, i, setters) ==
    LET j == InForce(ops, i, setters) IN IF j = 0 THEN <<0, 0, 0>> ELSE Device(ops[j].args)

FillColour(ops, i) == Colour(ops, i, {"g", "rg", "k", "sc", "scn"})
StrokeColour(ops, i) == Colour(ops, i, {"G", "RG", "K", "SC", "SCN"})

\* The transformations that hold at i, the base first.
Transformation(ops, i, base) ==
    LET concat == {j \in 1..i : ops[j].op \in {"cm", "matrix"} /\ Holds(ops, j, i)}
        matrices(j) == IF ops[j].op = "matrix" THEN ops[j].args
                       ELSE <<[k \in 1..6 |-> Number(ops, j, k)]>>
    IN <<base>> \o FlattenSeq([j \in 1..i |-> IF j \in concat THEN matrices(j) ELSE <<>>])

------------------------------------------------------------------------------
(* Paths *)

Painting == {"f", "F", "f*", "B", "B*", "b", "b*", "S", "s", "n"}
Filling == {"f", "F", "f*", "B", "B*", "b", "b*"}
Stroking == {"S", "s", "B", "B*", "b", "b*"}
Closing == {"s", "b", "b*"}
Constructing == {"m", "l", "c", "y", "re", "h"}

EvenOdd(op) == IF op \in {"f*", "B*", "b*", "W*"} THEN "evenodd" ELSE "nonzero"

Piece(ops, j) ==
    LET v(a) == Number(ops, j, a)
    IN CASE ops[j].op = "m" -> <<"move", v(1), v(2)>>
         [] ops[j].op = "l" -> <<"line", v(1), v(2)>>
         [] ops[j].op = "c" -> <<"curve", v(1), v(2), v(3), v(4), v(5), v(6)>>
         [] ops[j].op = "y" -> <<"curve", v(1), v(2), v(3), v(4), v(3), v(4)>>
         [] ops[j].op = "re" -> <<"rect", v(1), v(2), v(3), v(4)>>
         [] ops[j].op \in {"h"} \cup Closing -> <<"close">>

\* The operator that ended the path before i.
Before(ops, i) == Last0({j \in 1..(i - 1) : ops[j].op \in Painting})

PathAt(ops, i, base) ==
    LET mine == {j \in (Before(ops, i) + 1)..i :
                    ops[j].op \in Constructing \/ (j = i /\ ops[j].op \in Closing)}
    IN FlattenSeq([j \in 1..i |->
           IF j \in mine THEN <<[segment |-> Piece(ops, j), ctm |-> Transformation(ops, j, base)]>> ELSE <<>>])

ClipBy(ops, i) == Last0({j \in (Before(ops, i) + 1)..i : ops[j].op \in {"W", "W*"}})

Clips(ops, i, base) ==
    LET clips == {j \in 1..(i - 1) : ops[j].op \in Painting /\ ClipBy(ops, j) # 0 /\ Holds(ops, j, i)}
    IN FlattenSeq([j \in 1..(i - 1) |->
           IF j \in clips THEN <<<<EvenOdd(ops[ClipBy(ops, j)].op), PathAt(ops, j, base)>>>> ELSE <<>>])

------------------------------------------------------------------------------
(* Text *)

Showing == {"Tj", "TJ", "'", "\""}
Positioning == {"BT", "Tm", "Td", "TD", "T*", "'", "\""}

FontAt(ops, i) ==
    LET j == InForce(ops, i, {"Tf"})
        fonts == Resources[ops[j].res].fonts
        name == ops[j].args[1].name
    IN IF j = 0 THEN "none" ELSE IF name \in DOMAIN fonts THEN fonts[name] ELSE "none"

FontSize(ops, i) == LET j == InForce(ops, i, {"Tf"}) IN IF j = 0 THEN 0 ELSE Number(ops, j, 2)

\* The operator " sets both spacings before it shows.
WordSpacing(ops, i) == LET j == InForce(ops, i, {"Tw", "\""}) IN IF j = 0 THEN 0 ELSE Number(ops, j, 1)
CharSpacing(ops, i) ==
    LET j == InForce(ops, i, {"Tc", "\""})
    IN IF j = 0 THEN 0 ELSE Number(ops, j, IF ops[j].op = "Tc" THEN 1 ELSE 2)

LeadingAt(ops, i) ==
    LET j == InForce(ops, i, {"TL", "TD"})
    IN CASE j = 0 -> 0
         [] j # 0 /\ ops[j].op = "TL" -> Number(ops, j, 1)
         [] OTHER -> -Number(ops, j, 2)

Scaling(ops, i) == Parameter(ops, i, "Tz", 100)

\* What the show operator i puts on the page: glyphs and moves of the pen.
ItemsAt(ops, i) ==
    LET args == ops[i].args
        strings == CASE ops[i].op \in {"Tj", "'"} -> <<args[1]>>
                     [] ops[i].op = "\"" -> <<args[3]>>
                     [] OTHER -> args[1].arr
        font == Fonts[FontAt(ops, i)]
        codes(s) == IF font.type0 THEN [k \in 1..(Len(s) \div 2) |-> s[2 * k - 1] * 256 + s[2 * k]] ELSE s
        glyph(c) ==
            LET space == IF c = 32 /\ ~font.type0 THEN WordSpacing(ops, i) ELSE 0
            IN [char |-> font.shows[c].char,
                move |-> (font.shows[c].width * FontSize(ops, i) + 1000 * (CharSpacing(ops, i) + space))
                             * Scaling(ops, i)]
        items(a) == IF "num" \in DOMAIN a
                    THEN <<[char |-> <<>>, move |-> -a.num * FontSize(ops, i) * Scaling(ops, i)]>>
                    ELSE [k \in DOMAIN codes(a.str) |-> glyph(codes(a.str)[k])]
    IN IF FontAt(ops, i) = "none" THEN <<>> ELSE FlattenSeq([k \in DOMAIN strings |-> items(strings[k])])

MoveOf(items) == LET sum[k \in 0..Len(items)] == IF k = 0 THEN 0 ELSE sum[k - 1] + items[k].move
                 IN sum[Len(items)]

SumOver(S, f(_)) == MapThenSumSet(f, S)

\* The text matrix before item k of operator i.
TextMatrix(ops, i, k) ==
    LET set == Last0({j \in 1..i : ops[j].op \in {"BT", "Tm"}})
        line == Last0({j \in 1..i : ops[j].op \in Positioning})
        dx(j) == IF ops[j].op \in {"Td", "TD"} THEN Number(ops, j, 1) ELSE 0
        dy(j) == CASE ops[j].op \in {"Td", "TD"} -> Number(ops, j, 2)
                   [] ops[j].op \in {"T*", "'", "\""} -> -LeadingAt(ops, j)
                   [] OTHER -> 0
        shown == {j \in line..(i - 1) : j > 0 /\ ops[j].op \in Showing}
        pen(j) == MoveOf(ItemsAt(ops, j))
    IN [base |-> IF set = 0 THEN <<>>
                 ELSE IF ops[set].op = "BT" THEN <<>> ELSE [a \in 1..6 |-> Number(ops, set, a)],
        x |-> SumOver((set + 1)..i, dx) * Unit + SumOver(shown, pen) + MoveOf(SubSeq(ItemsAt(ops, i), 1, k - 1)),
        y |-> SumOver((set + 1)..i, dy) * Unit]

------------------------------------------------------------------------------

MarksAt(ops, i, base) ==
    LET op == ops[i].op
        x == XObjectOf(ops[i], ops[i].res)
        fill == FillColour(ops, i)
        mark(what, colour) == <<[what |-> what, colour |-> colour, clip |-> Clips(ops, i, base)]>>
        items == ItemsAt(ops, i)
        size == FontSize(ops, i)
        glyph(k) == IF items[k].char = <<>> \/ Parameter(ops, i, "Tr", 0) \in {3, 7} THEN <<>>
                    ELSE mark(<<"glyph", items[k].char, size * Scaling(ops, i), size, Parameter(ops, i, "Ts", 0),
                                TextMatrix(ops, i, k), Transformation(ops, i, base)>>, fill)
    IN (IF op \in Filling THEN mark(<<"fill", EvenOdd(op), PathAt(ops, i, base)>>, fill) ELSE <<>>)
       \o (IF op \in Stroking
           THEN mark(<<"stroke", Parameter(ops, i, "w", 1), PathAt(ops, i, base)>>, StrokeColour(ops, i)) ELSE <<>>)
       \o (IF op \in Showing THEN FlattenSeq([k \in DOMAIN items |-> glyph(k)]) ELSE <<>>)
       \o (IF x.subtype = "Image" /\ x.shows # <<>>
           THEN mark(<<"image", IF x.mask THEN [k \in DOMAIN x.shows |-> Append(fill, x.shows[k])] ELSE x.shows,
                       Transformation(ops, i, base)>>, <<0, 0, 0>>) ELSE <<>>)

Painted(code, res, base) ==
    LET ops == Flat(code, res) IN FlattenSeq([i \in DOMAIN ops |-> MarksAt(ops, i, base)])

\* Content whose meaning ISO 32000-1 gives: forms close what they open and
\* nest no deeper than is painted.
WellFormed(code, res) ==
    LET closes(c) ==
            LET d[k \in 0..Len(c)] == CASE k = 0 -> 0 [] k > 0 /\ c[k].op = "q" -> d[k - 1] + 1
                                        [] k > 0 /\ c[k].op = "Q" -> d[k - 1] - 1 [] OTHER -> d[k - 1]
            IN d[Len(c)] = 0 /\ \A k \in DOMAIN c : d[k] >= 0
        fits[c \in FormCodes \cup {code}, r \in DOMAIN Resources, d \in 0..MaxFormDepth] ==
            \A k \in DOMAIN Sound(c, r) :
                LET x == XObjectOf(c[k], r)
                    inner == IF x.resources = "none" THEN r ELSE x.resources
                IN x.subtype = "Form" /\ x.ok =>
                       d < MaxFormDepth /\ closes(Sound(x.code, inner)) /\ fits[x.code, inner, d + 1]
    IN fits[code, res, 0] /\ \A k \in DOMAIN code : code[k].op # "v"
=============================================================================
