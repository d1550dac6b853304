----------------------------- MODULE PdfContent -----------------------------
(* apps/web/src/lib/pdf/content-interpreter.ts: ContentInterpreter draws the  *)
(* operators of a content stream on a canvas.  The interpreter keeps its own  *)
(* graphics state and stack of states next to those of the canvas, and its    *)
(* text is placed by its own matrix while paths are placed by the canvas's.   *)
(*                                                                            *)
(* One action is one operator.  A transformation is the sequence of matrices  *)
(* it is the product of, the last one applied first.  Lengths in text space   *)
(* count in 1/Unit, so that widths in 1/1000 and scales in percent stay       *)
(* integers.  Colour components are 0 or 1.  fillComps and strokeComps, which *)
(* the code writes and never reads, are left out.                             *)
EXTENDS PdfResources

CONSTANTS
    Fonts,          \* name of a font -> its dictionary
    Resources,      \* name of a resource dictionary -> its fonts and XObjects
    MaxFormDepth    \* 12 in the code

ASSUME ContentAssumption == MaxFormDepth \in Nat

\* A form has one matrix or none.
ASSUME FormsAssumption ==
    \A r \in DOMAIN Resources : \A name \in DOMAIN Resources[r].xobjects :
        LET x == Resources[r].xobjects[name]
        IN x.subtype = "Form" => (x.matrix = <<>> \/ x.matrix = <<Head(x.matrix)>>)

Unit == 100000

VARIABLES
    frames,     \* one call of run() each: the operators it still has to execute
    gs,         \* the current graphics state
    stateStack, \* the saved ones
    resources,  \* resourceStack
    text,       \* tm and tlm
    pendingClip,
    canvas,     \* the canvas: transformation, line width, clip, path and saved states
    drawn       \* what was painted, in order

contentVars == <<frames, gs, stateStack, resources, text, pendingClip, canvas, drawn>>

Black == <<0, 0, 0>>
Identity == [base |-> <<>>, x |-> 0, y |-> 0]

InitialState(base) ==
    [ctm |-> <<base>>, fill |-> Black, stroke |-> Black, lineWidth |-> 1,
     font |-> "none", fontSize |-> 0, charSpacing |-> 0, wordSpacing |-> 0,
     leading |-> 0, hScale |-> 100, textRise |-> 0, renderMode |-> 0]

Blank(base) == [ctm |-> <<base>>, lineWidth |-> 1, clip |-> <<>>]

\* No interpreter exists yet.
ContentInit ==
    /\ frames = <<>> /\ resources = <<>>
    /\ gs = InitialState(<<>>) /\ stateStack = <<>>
    /\ text = [tm |-> Identity, tlm |-> Identity]
    /\ pendingClip = "none"
    /\ canvas = [now |-> Blank(<<>>), saved |-> <<>>, path |-> <<>>]
    /\ drawn = <<>>

\* A new interpreter, with the base transformation set on its canvas.
Start(code, base, res) ==
    /\ frames' = <<code>> /\ resources' = <<res>>
    /\ gs' = InitialState(base)
    /\ canvas' = [canvas EXCEPT !.now = Blank(base)]
    /\ UNCHANGED <<stateStack, text, pendingClip, drawn>>

------------------------------------------------------------------------------
(* Operators and operands *)

Running == frames # <<>> /\ Last(frames) # <<>>

Instruction == Head(Last(frames))

\* The frame goes on after its current operator.
Advanced == Append(Front(frames), Tail(Last(frames)))

Executes(ops) == Running /\ Instruction.op \in ops

Arg(i) == IF i \in DOMAIN Instruction.args THEN Instruction.args[i] ELSE Null

N(i) == IF "num" \in DOMAIN Arg(i) THEN Arg(i).num ELSE 0

Num6 == <<N(1), N(2), N(3), N(4), N(5), N(6)>>

Clamp255(v) == Max({0, Min({255, v})})

Gray(v) == <<Clamp255(v * 255), Clamp255(v * 255), Clamp255(v * 255)>>
Rgb(r, g, b) == <<Clamp255(r * 255), Clamp255(g * 255), Clamp255(b * 255)>>
Cmyk(c, m, y, k) ==
    <<Clamp255(255 * (1 - c) * (1 - k)), Clamp255(255 * (1 - m) * (1 - k)), Clamp255(255 * (1 - y) * (1 - k))>>

\* Operands that are no numbers do not count; any other number of them is a
\* pattern and shows in gray.
ColorFromComps ==
    LET nums == SelectSeq(Instruction.args, LAMBDA a : "num" \in DOMAIN a)
        v(i) == nums[i].num
    IN CASE Len(nums) = 1 -> Gray(v(1))
         [] Len(nums) = 3 -> Rgb(v(1), v(2), v(3))
         [] Len(nums) = 4 -> Cmyk(v(1), v(2), v(3), v(4))
         [] OTHER -> <<128, 128, 128>>

Compose(m, ctm) == Append(ctm, m)

\* The resource dictionary in use; what is no dictionary is an empty one.
Dictionary ==
    IF Last(resources) \in DOMAIN Resources THEN Resources[Last(resources)]
    ELSE [fonts |-> <<>>, xobjects |-> <<>>]

------------------------------------------------------------------------------
(* Graphics state *)

SaveCanvas == [canvas EXCEPT !.saved = Append(@, canvas.now)]

\* Mutant: what the states saved is not put back.
RestoreCanvas_Popped ==
    IF canvas.saved = <<>> THEN canvas ELSE [canvas EXCEPT !.saved = Front(canvas.saved)]

\* restore() on an empty stack does nothing.
RestoreCanvas ==
    IF canvas.saved = <<>> THEN canvas
    ELSE [canvas EXCEPT !.now = Last(canvas.saved), !.saved = Front(canvas.saved)]

Save ==
    /\ Executes({"q"})
    /\ stateStack' = Append(stateStack, gs)
    /\ canvas' = SaveCanvas
    /\ frames' = Advanced
    /\ UNCHANGED <<gs, resources, text, pendingClip, drawn>>

Restore ==
    /\ Executes({"Q"})
    /\ gs' = IF stateStack = <<>> THEN gs ELSE Last(stateStack)
    /\ stateStack' = IF stateStack = <<>> THEN stateStack ELSE Front(stateStack)
    /\ canvas' = RestoreCanvas
    /\ frames' = Advanced
    /\ UNCHANGED <<resources, text, pendingClip, drawn>>

Concat ==
    /\ Executes({"cm"})
    /\ gs' = [gs EXCEPT !.ctm = Compose(Num6, @)]
    /\ canvas' = [canvas EXCEPT !.now.ctm = Compose(Num6, @)]
    /\ frames' = Advanced
    /\ UNCHANGED <<stateStack, resources, text, pendingClip, drawn>>

SetLineWidth ==
    /\ Executes({"w"})
    /\ gs' = [gs EXCEPT !.lineWidth = N(1)]
    /\ canvas' = [canvas EXCEPT !.now.lineWidth = N(1)]
    /\ frames' = Advanced
    /\ UNCHANGED <<stateStack, resources, text, pendingClip, drawn>>

\* The operators that set one field of the graphics state.
WithParameter(op) ==
    CASE op = "g" -> [gs EXCEPT !.fill = Gray(N(1))]
      [] op = "G" -> [gs EXCEPT !.stroke = Gray(N(1))]
      [] op = "rg" -> [gs EXCEPT !.fill = Rgb(N(1), N(2), N(3))]
      [] op = "RG" -> [gs EXCEPT !.stroke = Rgb(N(1), N(2), N(3))]
      [] op = "k" -> [gs EXCEPT !.fill = Cmyk(N(1), N(2), N(3), N(4))]
      [] op = "K" -> [gs EXCEPT !.stroke = Cmyk(N(1), N(2), N(3), N(4))]
      [] op \in {"sc", "scn"} -> [gs EXCEPT !.fill = ColorFromComps]
      [] op \in {"SC", "SCN"} -> [gs EXCEPT !.stroke = ColorFromComps]
      [] op = "Tc" -> [gs EXCEPT !.charSpacing = N(1)]
      [] op = "Tw" -> [gs EXCEPT !.wordSpacing = N(1)]
      [] op = "Tz" -> [gs EXCEPT !.hScale = N(1)]
      [] op = "TL" -> [gs EXCEPT !.leading = N(1)]
      [] op = "Ts" -> [gs EXCEPT !.textRise = N(1)]
      [] op = "Tr" -> [gs EXCEPT !.renderMode = N(1)]

ParameterOps ==
    {"g", "G", "rg", "RG", "k", "K", "sc", "scn", "SC", "SCN", "Tc", "Tw", "Tz", "TL", "Ts", "Tr"}

SetParameter ==
    /\ Executes(ParameterOps)
    /\ gs' = WithParameter(Instruction.op)
    /\ frames' = Advanced
    /\ UNCHANGED <<stateStack, resources, text, pendingClip, canvas, drawn>>

------------------------------------------------------------------------------
(* Paths *)

\* What an operator adds to the path; v and y repeat a control point.
Segment(op) ==
    CASE op = "m" -> <<"move", N(1), N(2)>>
      [] op = "l" -> <<"line", N(1), N(2)>>
      [] op = "c" -> <<"curve", N(1), N(2), N(3), N(4), N(5), N(6)>>
      [] op = "v" -> <<"curve", N(1), N(2), N(1), N(2), N(3), N(4)>>
      [] op = "y" -> <<"curve", N(1), N(2), N(3), N(4), N(3), N(4)>>
      [] op = "re" -> <<"rect", N(1), N(2), N(3), N(4)>>
      [] op \in {"h", "s", "b", "b*"} -> <<"close">>

WithSegment(op) == Append(canvas.path, [segment |-> Segment(op), ctm |-> canvas.now.ctm])

ExtendPath ==
    /\ Executes({"m", "l", "c", "v", "y", "re", "h"})
    /\ canvas' = [canvas EXCEPT !.path = WithSegment(Instruction.op)]
    /\ frames' = Advanced
    /\ UNCHANGED <<gs, stateStack, resources, text, pendingClip, drawn>>

FillOps == {"f", "F", "f*", "B", "B*", "b", "b*"}
StrokeOps == {"S", "s", "B", "B*", "b", "b*"}

Rule(op) == IF op \in {"f*", "B*", "b*", "W*"} THEN "evenodd" ELSE "nonzero"

\* A mark on the page: what was painted, in which colour, and within which clip.
Mark(what, colour) == [what |-> what, colour |-> colour, clip |-> canvas.now.clip]

PathMarks(op, path) ==
    (IF op \in FillOps THEN <<Mark(<<"fill", Rule(op), path>>, gs.fill)>> ELSE <<>>)
        \o (IF op \in StrokeOps THEN <<Mark(<<"stroke", gs.lineWidth, path>>, gs.stroke)>> ELSE <<>>)

\* paint: a stroke also leaves the line width on the canvas.
Paint ==
    LET op == Instruction.op
        path == IF op \in {"s", "b", "b*"} THEN WithSegment(op) ELSE canvas.path
    IN /\ Executes(FillOps \cup StrokeOps \cup {"n"})
       /\ drawn' = drawn \o PathMarks(op, path)
       /\ canvas' = [canvas EXCEPT
                         !.path = <<>>,
                         !.now.lineWidth = IF op \in StrokeOps THEN gs.lineWidth ELSE @,
                         !.now.clip = IF pendingClip = "none" THEN @ ELSE Append(@, <<pendingClip, path>>)]
       /\ pendingClip' = "none"
       /\ frames' = Advanced
       /\ UNCHANGED <<gs, stateStack, resources, text>>

SetClip ==
    /\ Executes({"W", "W*"})
    /\ pendingClip' = Rule(Instruction.op)
    /\ frames' = Advanced
    /\ UNCHANGED <<gs, stateStack, resources, text, canvas, drawn>>

------------------------------------------------------------------------------
(* Text *)

Moved(matrix, dx, dy) == [matrix EXCEPT !.x = @ + dx, !.y = @ + dy]

Both(matrix) == [tm |-> matrix, tlm |-> matrix]

NextLine(leading) == Both(Moved(text.tlm, 0, -leading * Unit))

MoveText ==
    LET op == Instruction.op
    IN /\ Executes({"BT", "Td", "TD", "Tm", "T*"})
       /\ text' = CASE op = "BT" -> Both(Identity)
                    [] op \in {"Td", "TD"} -> Both(Moved(text.tlm, N(1) * Unit, N(2) * Unit))
                    [] op = "Tm" -> Both([base |-> Num6, x |-> 0, y |-> 0])
                    [] op = "T*" -> NextLine(gs.leading)
       /\ gs' = IF op = "TD" THEN [gs EXCEPT !.leading = -N(2)] ELSE gs
       /\ frames' = Advanced
       /\ UNCHANGED <<stateStack, resources, pendingClip, canvas, drawn>>

\* setFont: the size is set even if the name is missing or unknown.
SetFont ==
    LET fonts == Dictionary.fonts
        name == Arg(1)
    IN /\ Executes({"Tf"})
       /\ gs' = [gs EXCEPT !.fontSize = N(2),
                           !.font = IF "name" \notin DOMAIN name THEN @
                                    ELSE IF name.name \in DOMAIN fonts THEN fonts[name.name] ELSE "none"]
       /\ frames' = Advanced
       /\ UNCHANGED <<stateStack, resources, text, pendingClip, canvas, drawn>>

\* drawGlyph on a state of text and marks; g is the graphics state.
GlyphMark(s, glyph, g) ==
    Mark(<<"glyph", glyph.char, g.fontSize * g.hScale, g.fontSize, g.textRise, s.tm, g.ctm>>, g.fill)

\* Mutant: the word spacing counts for two-byte codes, too.
Width_AnyCode(glyph, g) ==
    (glyph.width * g.fontSize + 1000 * (g.charSpacing + g.wordSpacing)) * g.hScale

Width(glyph, g) ==
    LET space == IF glyph.code = 32 /\ glyph.bytes = 1 THEN g.wordSpacing ELSE 0
    IN (glyph.width * g.fontSize + 1000 * (g.charSpacing + space)) * g.hScale

DrawGlyph(s, glyph, g) ==
    LET shows == glyph.char # <<>> /\ g.renderMode \notin {3, 7}
    IN [tm |-> Moved(s.tm, Width(glyph, g), 0),
        marks |-> IF shows THEN Append(s.marks, GlyphMark(s, glyph, g)) ELSE s.marks]

\* step over the items from s on.  (The set of one state makes TLC evaluate
\* it once.)
Through(step(_, _), items, s) ==
    LET upTo[i \in 0..Len(items)] ==
            IF i = 0 THEN s ELSE CHOOSE t \in {step(u, items[i]) : u \in {upTo[i - 1]}} : TRUE
    IN upTo[Len(items)]

ShowText(s, arg, g) ==
    IF g.font = "none" \/ "str" \notin DOMAIN arg THEN s
    ELSE Through(LAMBDA u, glyph : DrawGlyph(u, glyph, g), Glyphs(Fonts[g.font], arg.str), s)

\* An item of showTextArray: a number moves the pen back by thousandths.
ShowItem(s, item, g) ==
    IF "num" \in DOMAIN item THEN [s EXCEPT !.tm = Moved(@, -item.num * g.fontSize * g.hScale, 0)]
    ELSE ShowText(s, item, g)

ShowTextArray(s, arg, g) ==
    LET items == IF g.font = "none" \/ "arr" \notin DOMAIN arg THEN <<>> ELSE arg.arr
    IN Through(LAMBDA u, item : ShowItem(u, item, g), items, s)

Shown(op, s, g) ==
    IF op = "TJ" THEN ShowTextArray(s, Arg(1), g)
    ELSE ShowText(s, Arg(IF op = "\"" THEN 3 ELSE 1), g)

ShowOn(line, shown) ==
    /\ text' = [line EXCEPT !.tm = shown.tm]
    /\ drawn' = shown.marks

\* Tj, TJ, and the operators that go to the next line before.
Show ==
    LET op == Instruction.op
        g == IF op = "\"" THEN [gs EXCEPT !.wordSpacing = N(1), !.charSpacing = N(2)] ELSE gs
        line == IF op \in {"'", "\""} THEN NextLine(g.leading) ELSE text
    IN /\ Executes({"Tj", "TJ", "'", "\""})
       /\ gs' = g
       /\ ShowOn(line, Shown(op, [tm |-> line.tm, marks |-> drawn], g))
       /\ frames' = Advanced
       /\ UNCHANGED <<stateStack, resources, pendingClip, canvas>>

------------------------------------------------------------------------------
(* XObjects *)

NoXObject == [subtype |-> "none"]

XObject ==
    LET known == Dictionary.xobjects
        name == Arg(1)
    IN IF "name" \in DOMAIN name /\ name.name \in DOMAIN known THEN known[name.name] ELSE NoXObject

Draws(subtype) == Executes({"Do"}) /\ XObject.subtype = subtype

\* A frame whose operators throw ends there; so do those that have run out.
Aborted == Append(Front(frames), <<>>)

DrawPixels(image) ==
    /\ drawn' = IF image.ok /\ image.pixels # <<>>
                THEN Append(drawn, Mark(<<"image", image.pixels, gs.ctm>>, Black)) ELSE drawn
    /\ frames' = IF image.ok THEN Advanced ELSE Aborted

DrawImage ==
    /\ Draws("Image")
    /\ DrawPixels(DecodeImage(XObject, gs.fill))
    /\ UNCHANGED <<gs, stateStack, resources, text, pendingClip, canvas>>

\* doFormXObject up to run(); content that does not decode is an empty frame.
EnterForm ==
    /\ Draws("Form") /\ Len(frames) <= MaxFormDepth
    /\ stateStack' = Append(stateStack, gs)
    /\ gs' = [gs EXCEPT !.ctm = @ \o XObject.matrix]
    /\ canvas' = [SaveCanvas EXCEPT !.now.ctm = @ \o XObject.matrix]
    /\ resources' = Append(resources, IF XObject.resources = "none" THEN Last(resources)
                                      ELSE XObject.resources)
    /\ frames' = Append(Advanced, IF XObject.ok THEN XObject.code ELSE <<>>)
    /\ UNCHANGED <<text, pendingClip, drawn>>

\* doFormXObject after run() has returned or thrown.
LeaveForm ==
    /\ Len(frames) > 1 /\ Last(frames) = <<>>
    /\ resources' = Front(resources)
    /\ gs' = IF stateStack = <<>> THEN gs ELSE Last(stateStack)
    /\ stateStack' = IF stateStack = <<>> THEN stateStack ELSE Front(stateStack)
    /\ canvas' = RestoreCanvas
    /\ frames' = Front(frames)
    /\ UNCHANGED <<text, pendingClip, drawn>>

KnownOps ==
    {"q", "Q", "cm", "w", "m", "l", "c", "v", "y", "re", "h", "n", "W", "W*", "BT", "Td", "TD", "Tm", "T*",
     "Tf", "Tj", "TJ", "'", "\"", "Do"} \cup ParameterOps \cup FillOps \cup StrokeOps

\* Unknown operators, operators without effect, and Do of what cannot be drawn.
Ignore ==
    /\ Running
    /\ \/ Instruction.op \notin KnownOps
       \/ Instruction.op = "Do" /\ XObject.subtype \notin {"Image", "Form"}
       \/ Draws("Form") /\ Len(frames) > MaxFormDepth
    /\ frames' = Advanced
    /\ UNCHANGED <<gs, stateStack, resources, text, pendingClip, canvas, drawn>>

Interpret ==
    \/ Save \/ Restore \/ Concat \/ SetLineWidth \/ SetParameter
    \/ ExtendPath \/ Paint \/ SetClip \/ MoveText \/ SetFont \/ Show
    \/ DrawImage \/ EnterForm \/ LeaveForm \/ Ignore

Finished == frames = <<<<>>>>
=============================================================================
