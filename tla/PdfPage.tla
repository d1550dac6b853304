------------------------------- MODULE PdfPage -------------------------------
(* apps/web/src/lib/pdf/render.ts with PdfDocument and ContentInterpreter:    *)
(* one page of a file from its bytes to marks on a canvas.  Composes          *)
(* PdfDocument (load), PdfOperators (the content as operators) and PdfContent *)
(* (their effect).                                                            *)
EXTENDS PdfDocument, PdfContent, PdfOperators

CONSTANTS
    OpNames,    \* an operator's bytes -> the operator
    PixelUnits, \* device space is measured in this fraction of a pixel
    Scales      \* the scales a viewer asks for: device units to a unit of user space

\* With a unit of user space as small as the numbers of the file need, a scale of
\* 0.7 is 7 device units of which 10 make a pixel.
ASSUME PageAssumption == PixelUnits \in Nat \ {0} /\ Scales \subseteq Nat \ {0}

VARIABLES
    stage,      \* "loading", "rendering", "shown", or "failed"
    view        \* the page that is rendered and its scale

pageVars == <<docVars, contentVars, stage, view>>

DefaultMediaBox == <<0, 0, 612, 792>>

Attr(page, key, default) == IF key \in DOMAIN page.attrs THEN page.attrs[key] ELSE default

MediaBox(page) == Attr(page, "MediaBox", DefaultMediaBox)

\* JavaScript's ((rotate % 360) + 360) % 360.
Rotation(page) == Attr(page, "Rotate", 0) % 360

\* Mutant: Math.floor for Math.round.
Rounded_Down(length) == length \div PixelUnits

\* Math.round: a device length in whole pixels, half a pixel up.
Rounded(length) == (2 * length + PixelUnits) \div (2 * PixelUnits)

\* The pixels of a bitmap.
PagePixelSize(page, scale) ==
    LET box == MediaBox(page)
        w == Abs(box[3] - box[1])
        h == Abs(box[4] - box[2])
        swap == Rotation(page) \in {90, 270}
    IN [width |-> Max({1, Rounded(scale * IF swap THEN h ELSE w)}),
        height |-> Max({1, Rounded(scale * IF swap THEN w ELSE h)})]

\* matMul: m1, then m2.
MatMul(m1, m2) ==
    <<m1[1] * m2[1] + m1[2] * m2[3], m1[1] * m2[2] + m1[2] * m2[4],
      m1[3] * m2[1] + m1[4] * m2[3], m1[3] * m2[2] + m1[4] * m2[4],
      m1[5] * m2[1] + m1[6] * m2[3] + m2[5], m1[5] * m2[2] + m1[6] * m2[4] + m2[6]>>

\* User space to device units: the scale is exact, the canvas that a turned page
\* is moved back onto is of whole pixels.
BaseTransform(page, scale) ==
    LET box == MediaBox(page)
        size == PagePixelSize(page, scale)
        pxW == size.width * PixelUnits
        pxH == size.height * PixelUnits
        flip == <<scale, 0, 0, -scale, -box[1] * scale, (Abs(box[4] - box[2]) + box[2]) * scale>>
    IN CASE Rotation(page) = 90 -> MatMul(flip, <<0, 1, -1, 0, pxW, 0>>)
         [] Rotation(page) = 180 -> MatMul(flip, <<-1, 0, 0, -1, pxW, pxH>>)
         [] Rotation(page) = 270 -> MatMul(flip, <<0, -1, 1, 0, 0, pxH>>)
         [] OTHER -> flip

------------------------------------------------------------------------------
(* getPageContent *)

\* The bytes of a stream object, as the parser cuts them out of the file.
Decoded(o) ==
    DecodeStream([filters |-> o.filters, parms |-> o.parms, parmsIsArray |-> o.parmsIsArray,
                  raw |-> ParseIndirectObject(o.bytes, 1).value.raw])

Streams(page) ==
    SelectSeq([i \in DOMAIN page.contents |-> Resolve(page.contents[i])], LAMBDA o : o.type = "Stream")

\* A space between two parts keeps their tokens apart.
Joined(parts) ==
    [ok |-> \A i \in DOMAIN parts : parts[i].ok,
     bytes |-> FlattenSeq([i \in DOMAIN parts |-> Append(parts[i].bytes, 32)])]

DecodedStreams(streams) == [i \in DOMAIN streams |-> Decoded(streams[i])]

PageContent(page) == Joined(DecodedStreams(Streams(page)))

OpName(bytes) == IF bytes \in DOMAIN OpNames THEN OpNames[bytes] ELSE "unknown"

Named(code) == [i \in DOMAIN code |-> [op |-> OpName(code[i].op), args |-> code[i].args]]

Program(bytes) == Named(Instructions(bytes))

------------------------------------------------------------------------------

Init == LoadInit /\ ContentInit /\ stage = "loading" /\ view = [index |-> 0, scale |-> 0]

Loading == LoadNext /\ UNCHANGED <<contentVars, stage, view>>

\* renderPage up to interpreter.run; without content there is no bitmap.
Run(content, page, scale) ==
    IF content.ok
    THEN /\ stage' = "rendering"
         /\ Start(Program(content.bytes), BaseTransform(page, scale), Attr(page, "Resources", "none"))
    ELSE /\ stage' = "failed"
         /\ UNCHANGED contentVars

Render(n, scale) ==
    /\ stage = "loading" /\ phase = "done" /\ ~trailer.encrypt
    /\ n \in DOMAIN pages
    /\ view' = [index |-> n, scale |-> scale]
    /\ Run(PageContent(pages[n]), pages[n], scale)
    /\ UNCHANGED docVars

Drawing == stage = "rendering" /\ Interpret /\ UNCHANGED <<docVars, stage, view>>

\* transferToImageBitmap, also of what a failed run has drawn.
Transfer ==
    /\ stage = "rendering" /\ Finished
    /\ stage' = "shown"
    /\ UNCHANGED <<docVars, contentVars, view>>

Rendering == Drawing \/ Transfer

Next == Loading \/ Rendering \/ \E n \in DOMAIN pages, scale \in Scales : Render(n, scale)

\* The worker goes on with what it has begun: decoding a stream ends.
Spec == Init /\ [][Next]_pageVars /\ WF_pageVars(Loading)

------------------------------------------------------------------------------
(* Properties *)

Ref == INSTANCE PdfImaging

\* The operators the writer of the file put into the contents of page n.
WrittenCode(n) ==
    FlattenSeq([i \in DOMAIN file.written[n].contents |-> file.codes[file.written[n].contents[i]]])

ResourcesOf(n) == Attr(file.written[n], "Resources", "none")

\* A file as a writer leaves it, none of whose sections overtook another.
Undisturbed == file.sound /\ ~overtaken

Same(state, saved) == state.ctm = saved.ctm /\ state.lineWidth = saved.lineWidth

\* The interpreter's own graphics state and the canvas's never part: as many
\* saved states, with the same transformation and line width, whatever a page
\* does with q, Q and forms; a resource dictionary for every running form, and
\* never more of those than the depth allows, though forms draw themselves.
StacksAgree ==
    /\ Same(gs, canvas.now)
    /\ Len(stateStack) = Len(canvas.saved)
    /\ \A k \in 1..Len(stateStack) : Same(stateStack[k], canvas.saved[k])
    /\ Len(resources) = Len(frames)
    /\ Len(frames) <= MaxFormDepth + 1

\* A file is loaded as its last revision says: the pages in order, each with
\* its contents and with what it inherits, over incremental updates, table,
\* stream and hybrid sections, object streams and the scan of a damaged file.
LoadedAsWritten ==
    phase = "done" /\ Undisturbed =>
        pages = IF trailer.encrypt THEN <<>> ELSE file.written

\* A page's content reaches the interpreter operator for operator: parsing its
\* objects, whatever /Length says, undoing the filters and joining the parts.
DecodedAsWritten ==
    [][ stage = "loading" /\ stage' = "rendering" /\ Undisturbed =>
            frames' = <<SelectSeq(WrittenCode(view'.index), LAMBDA i : i.op # "BI")>> ]_pageVars

\* The bitmap shows what the page's operators paint, in their order: forms,
\* colours, clips, text positions and images, up to where a broken image ends
\* the run.
PaintedAsWritten ==
    LET n == view.index
    IN stage = "shown" /\ Undisturbed /\ Ref!WellFormed(WrittenCode(n), ResourcesOf(n)) =>
           drawn = Ref!Painted(WrittenCode(n), ResourcesOf(n), BaseTransform(pages[n], view.scale))

\* A device length shown on so many pixels: the next whole number of them, or
\* one for what is shorter than a pixel.
Close(length, pixels) ==
    \/ 2 * Abs(pixels * PixelUnits - length) <= PixelUnits
    \/ pixels = 1 /\ 0 < length /\ length < PixelUnits

\* A page from one device coordinate to the other, along a side of the bitmap.
Meets(from, to, pixels) ==
    /\ from = 0 \/ to = pixels * PixelUnits
    /\ Close(to - from, pixels)

\* The matrix m takes the page's box to a rectangle that has one corner on one of
\* the bitmap's and is as wide and as high as the bitmap, up to the rounding.
Fills(page, scale, m) ==
    LET box == MediaBox(page)
        size == PagePixelSize(page, scale)
        image(x, y) == <<m[1] * x + m[3] * y + m[5], m[2] * x + m[4] * y + m[6]>>
        corners == {image(x, y) : x \in {box[1], box[3]}, y \in {box[2], box[4]}}
    IN \E one, other \in corners :
           /\ corners = {one[1], other[1]} \X {one[2], other[2]}
           /\ Meets(one[1], other[1], size.width)
           /\ Meets(one[2], other[2], size.height)

\* Rendering fills the canvas, for every rotation, origin and scale: the box starts
\* or ends with the bitmap on each axis, and leaves out or cuts off half a pixel at
\* most, or less than one of a side that is shorter than a pixel.
PageFillsCanvas ==
    stage = "rendering" => Fills(pages[view.index], view.scale, Head(gs.ctm))

\* Whatever the file, loading ends: sections, page trees and references that
\* lead back to themselves hold nothing up.
LoadEnds == <>(phase = "done")
=============================================================================
