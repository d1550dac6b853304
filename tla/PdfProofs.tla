------------------------------- MODULE PdfProofs -------------------------------
(* Theorems about PdfPage for any files, contents, fonts and resources: the   *)
(* interpreter and its canvas keep the same stack of graphics states, for     *)
(* every sequence of operators, balanced or not; the bitmap a page is drawn   *)
(* on is the page's box, at every scale; a load comes nearer its end with     *)
(* every step; and what a producer's predictor did to an image is undone.     *)
EXTENDS PdfPage, WellFoundedInduction, FiniteSetTheorems, SequenceTheorems, TLAPS

\* The producer whose files are read.
Writer == INSTANCE PdfWriter

IsSeq(s) == \E S : s \in Seq(S)

\* A state of the interpreter and one of the canvas that say the same.
Agree(state, saved) ==
    /\ {"ctm", "lineWidth"} \subseteq DOMAIN state
    /\ {"ctm", "lineWidth"} \subseteq DOMAIN saved
    /\ Same(state, saved)

StackInv ==
    /\ IsSeq(frames) /\ IsSeq(resources)
    /\ Len(resources) = Len(frames)
    /\ Len(frames) <= MaxFormDepth + 1
    /\ {"now", "saved", "path"} \subseteq DOMAIN canvas
    /\ Agree(gs, canvas.now)
    /\ IsSeq(stateStack) /\ IsSeq(canvas.saved)
    /\ Len(stateStack) = Len(canvas.saved)
    /\ \A k \in 1..Len(stateStack) : Agree(stateStack[k], canvas.saved[k])

-------------------------------------------------------------------------------
(* Sequences whose elements may be anything *)

LEMMA Appending ==
    ASSUME NEW s, IsSeq(s), NEW e
    PROVE  /\ IsSeq(Append(s, e))
           /\ Len(Append(s, e)) = Len(s) + 1 /\ Len(s) \in Nat
           /\ \A k \in 1..Len(s) : Append(s, e)[k] = s[k]
           /\ Append(s, e)[Len(s) + 1] = e
<1>1. PICK S : s \in Seq(S)
  BY DEF IsSeq
<1>2. s \in Seq(S \cup {e}) /\ e \in S \cup {e}
  BY <1>1
<1>3. Append(s, e) \in Seq(S \cup {e})
  BY <1>2
<1>4. QED
  BY <1>2, <1>3 DEF IsSeq

LEMMA Fronting ==
    ASSUME NEW s, IsSeq(s), s # <<>>
    PROVE  /\ IsSeq(Front(s))
           /\ Len(s) \in Nat \ {0} /\ Len(Front(s)) = Len(s) - 1
           /\ \A k \in 1..Len(s) - 1 : Front(s)[k] = s[k]
           /\ Last(s) = s[Len(s)]
<1>1. PICK S : s \in Seq(S)
  BY DEF IsSeq
<1>2. Len(s) \in Nat /\ Len(s) # 0
  BY <1>1
<1>3. Front(s) = SubSeq(s, 1, Len(s) - 1) /\ Last(s) = s[Len(s)]
  BY DEF Front, Last
<1>4. /\ Front(s) \in Seq(S) /\ Len(Front(s)) = Len(s) - 1
      /\ \A k \in 1..Len(s) - 1 : Front(s)[k] = s[k]
  <2> DEFINE n == Len(s) - 1
  <2>1. n \in Nat /\ n = Len(s) - 1 /\ \A i \in 1..n : s[i] \in S
    BY <1>1, <1>2
  <2> HIDE DEF n
  <2>2. /\ SubSeq(s, 1, n) \in Seq(S)
        /\ Len(SubSeq(s, 1, n)) = IF 1 <= n THEN n - 1 + 1 ELSE 0
        /\ \A i \in 1..n - 1 + 1 : SubSeq(s, 1, n)[i] = s[1 + i - 1]
    BY <2>1, SubSeqProperties, Z3
  <2>3. \A i \in 1..n : 1 + i - 1 = i
    BY <2>1
  <2>4. QED
    BY <1>3, <2>1, <2>2, <2>3
<1>5. QED
  BY <1>2, <1>3, <1>4 DEF IsSeq

\* Replacing the last element.
LEMMA Replacing ==
    ASSUME NEW s, IsSeq(s), s # <<>>, NEW e
    PROVE  /\ IsSeq(Append(Front(s), e)) /\ Len(Append(Front(s), e)) = Len(s)
           /\ Len(s) \in Nat
<1>1. IsSeq(Front(s)) /\ Len(s) \in Nat /\ Len(Front(s)) = Len(s) - 1
  BY Fronting
<1>2. QED
  BY <1>1, Appending

-------------------------------------------------------------------------------
(* The groups of operators *)

\* The frame that runs goes on or ends, and nothing is pushed or popped.
LEMMA Advancing ==
    ASSUME StackInv, Running, frames' \in {Advanced, Aborted}
    PROVE  IsSeq(frames') /\ Len(frames') = Len(frames)
<1>1. IsSeq(frames) /\ frames # <<>>
  BY DEF StackInv, Running
<1>2. QED
  BY <1>1, Replacing DEF Advanced, Aborted

LEMMA InPlace ==
    ASSUME StackInv, IsSeq(frames'), Len(frames') = Len(frames),
           UNCHANGED <<stateStack, resources>>, canvas'.saved = canvas.saved,
           {"now", "saved", "path"} \subseteq DOMAIN canvas',
           Agree(gs', canvas'.now)
    PROVE  StackInv'
BY DEF StackInv

\* An operator that leaves both graphics states alone.
LEMMA Painting ==
    ASSUME StackInv, Running, frames' \in {Advanced, Aborted},
           UNCHANGED <<gs, stateStack, resources, canvas>>
    PROVE  StackInv'
<1>1. Agree(gs', canvas'.now)
  BY DEF StackInv
<1>2. QED
  BY <1>1, Advancing, InPlace DEF StackInv

\* A parameter of the state that the canvas does not know.
LEMMA Parameters ==
    ASSUME StackInv, NEW op \in ParameterOps
    PROVE  Agree(WithParameter(op), canvas.now)
<1>1. {"ctm", "lineWidth"} \subseteq DOMAIN gs /\ Agree(gs, canvas.now)
  BY DEF StackInv, Agree
<1>2. CASE op \in {"g", "G", "rg", "RG"}
  BY <1>1, <1>2 DEF WithParameter, Agree, Same
<1>3. CASE op \in {"k", "K", "sc", "scn", "SC", "SCN"}
  BY <1>1, <1>3 DEF WithParameter, Agree, Same
<1>4. CASE op \in {"Tc", "Tw", "Tz"}
  BY <1>1, <1>4 DEF WithParameter, Agree, Same
<1>5. CASE op \in {"TL", "Ts", "Tr"}
  BY <1>1, <1>5 DEF WithParameter, Agree, Same
<1>6. QED
  BY <1>2, <1>3, <1>4, <1>5 DEF ParameterOps

\* q and the entry of a form push on both stacks.
LEMMA Pushing ==
    ASSUME StackInv, NEW state, NEW now, Agree(state, now),
           stateStack' = Append(stateStack, gs), gs' = state,
           canvas'.now = now, canvas'.saved = Append(canvas.saved, canvas.now),
           {"now", "saved", "path"} \subseteq DOMAIN canvas',
           IsSeq(frames'), IsSeq(resources'), Len(resources') = Len(frames'),
           Len(frames') <= MaxFormDepth + 1
    PROVE  StackInv'
<1>1. /\ IsSeq(stateStack') /\ Len(stateStack') = Len(stateStack) + 1
      /\ Len(stateStack) \in Nat
      /\ \A k \in 1..Len(stateStack) : stateStack'[k] = stateStack[k]
      /\ stateStack'[Len(stateStack) + 1] = gs
  BY Appending DEF StackInv
<1>2. /\ IsSeq(canvas'.saved) /\ Len(canvas'.saved) = Len(canvas.saved) + 1
      /\ \A k \in 1..Len(canvas.saved) : canvas'.saved[k] = canvas.saved[k]
      /\ canvas'.saved[Len(canvas.saved) + 1] = canvas.now
  BY Appending DEF StackInv
<1>3. Len(stateStack) = Len(canvas.saved) /\ Agree(gs, canvas.now)
  BY DEF StackInv
<1>4. ASSUME NEW k \in 1..Len(stateStack')
      PROVE  Agree(stateStack'[k], canvas'.saved[k])
  <2>1. CASE k = Len(stateStack) + 1
    BY <1>1, <1>2, <1>3, <2>1
  <2>2. CASE k # Len(stateStack) + 1
    <3>1. k \in 1..Len(stateStack)
      BY <1>1, <2>2
    <3>2. stateStack'[k] = stateStack[k] /\ canvas'.saved[k] = canvas.saved[k]
      BY <1>1, <1>2, <1>3, <3>1
    <3>3. Agree(stateStack[k], canvas.saved[k])
      BY <3>1 DEF StackInv
    <3>4. QED
      BY <3>2, <3>3
  <2>3. QED
    BY <2>1, <2>2
<1>5. QED
  BY <1>1, <1>2, <1>3, <1>4 DEF StackInv

\* Q and the end of a form pop both, or neither.
LEMMA Popping ==
    ASSUME StackInv,
           gs' = IF stateStack = <<>> THEN gs ELSE Last(stateStack),
           stateStack' = IF stateStack = <<>> THEN stateStack ELSE Front(stateStack),
           canvas' = RestoreCanvas,
           IsSeq(frames'), IsSeq(resources'), Len(resources') = Len(frames'),
           Len(frames') <= MaxFormDepth + 1
    PROVE  StackInv'
<1>1. /\ IsSeq(stateStack) /\ IsSeq(canvas.saved)
      /\ Len(stateStack) = Len(canvas.saved) /\ Agree(gs, canvas.now)
      /\ {"now", "saved", "path"} \subseteq DOMAIN canvas
  BY DEF StackInv
<1>2. (stateStack = <<>>) <=> (canvas.saved = <<>>)
  <2>1. \A s : IsSeq(s) => (s = <<>> <=> Len(s) = 0)
    BY EmptySeq DEF IsSeq
  <2>2. QED
    BY <1>1, <2>1
<1>3. CASE stateStack = <<>>
  BY <1>1, <1>2, <1>3 DEF RestoreCanvas, StackInv
<1>4. CASE stateStack # <<>>
  <2>1. /\ IsSeq(stateStack') /\ Len(stateStack) \in Nat \ {0}
        /\ Len(stateStack') = Len(stateStack) - 1
        /\ \A k \in 1..Len(stateStack) - 1 : stateStack'[k] = stateStack[k]
        /\ gs' = stateStack[Len(stateStack)]
    BY <1>1, <1>4, Fronting
  <2>2. /\ canvas'.now = Last(canvas.saved) /\ canvas'.saved = Front(canvas.saved)
        /\ {"now", "saved", "path"} \subseteq DOMAIN canvas'
    BY <1>1, <1>2, <1>4 DEF RestoreCanvas
  <2>3. /\ IsSeq(canvas'.saved) /\ Len(canvas'.saved) = Len(canvas.saved) - 1
        /\ \A k \in 1..Len(canvas.saved) - 1 : canvas'.saved[k] = canvas.saved[k]
        /\ canvas'.now = canvas.saved[Len(canvas.saved)]
    BY <1>1, <1>2, <1>4, <2>2, Fronting
  <2>4. \A k \in 1..Len(stateStack) : Agree(stateStack[k], canvas.saved[k])
    BY DEF StackInv
  <2>5. Agree(gs', canvas'.now)
    BY <1>1, <2>1, <2>3, <2>4
  <2>6. ASSUME NEW k \in 1..Len(stateStack')
        PROVE  Agree(stateStack'[k], canvas'.saved[k])
    BY <1>1, <2>1, <2>3, <2>4, <2>6
  <2>7. QED
    BY <1>1, <2>1, <2>2, <2>3, <2>5, <2>6 DEF StackInv
<1>5. QED
  BY <1>3, <1>4
-------------------------------------------------------------------------------
(* The operators, one by one *)

LEMMA Operators == ASSUME StackInv, Interpret PROVE StackInv'
<1>1. CASE Save
  <2>1. /\ Running /\ frames' = Advanced /\ resources' = resources
        /\ stateStack' = Append(stateStack, gs) /\ gs' = gs /\ canvas' = SaveCanvas
    BY <1>1 DEF Save, Executes
  <2>2. /\ canvas'.now = canvas.now /\ canvas'.saved = Append(canvas.saved, canvas.now)
        /\ {"now", "saved", "path"} \subseteq DOMAIN canvas'
    BY <2>1 DEF SaveCanvas, StackInv
  <2>3. QED
    BY <2>1, <2>2, Advancing, Pushing DEF StackInv
<1>2. CASE Restore
  <2>1. /\ Running /\ frames' = Advanced /\ resources' = resources
        /\ gs' = IF stateStack = <<>> THEN gs ELSE Last(stateStack)
        /\ stateStack' = IF stateStack = <<>> THEN stateStack ELSE Front(stateStack)
        /\ canvas' = RestoreCanvas
    BY <1>2 DEF Restore, Executes
  <2>2. QED
    BY <2>1, Advancing, Popping DEF StackInv
<1>3. CASE Concat
  <2>1. /\ Running /\ frames' = Advanced /\ UNCHANGED <<stateStack, resources>>
        /\ gs' = [gs EXCEPT !.ctm = Compose(Num6, gs.ctm)]
        /\ canvas' = [canvas EXCEPT !.now.ctm = Compose(Num6, canvas.now.ctm)]
    BY <1>3 DEF Concat, Executes
  <2>2. /\ canvas'.now = [canvas.now EXCEPT !.ctm = Compose(Num6, canvas.now.ctm)]
        /\ canvas'.saved = canvas.saved
        /\ {"now", "saved", "path"} \subseteq DOMAIN canvas'
    BY <2>1 DEF StackInv
  <2>3. Agree(gs', canvas'.now)
    BY <2>1, <2>2 DEF StackInv, Agree, Same
  <2>4. QED
    BY <2>1, <2>2, <2>3, Advancing, InPlace
<1>4. CASE SetLineWidth
  <2>1. /\ Running /\ frames' = Advanced /\ UNCHANGED <<stateStack, resources>>
        /\ gs' = [gs EXCEPT !.lineWidth = N(1)]
        /\ canvas' = [canvas EXCEPT !.now.lineWidth = N(1)]
    BY <1>4 DEF SetLineWidth, Executes
  <2>2. /\ canvas'.now = [canvas.now EXCEPT !.lineWidth = N(1)]
        /\ canvas'.saved = canvas.saved
        /\ {"now", "saved", "path"} \subseteq DOMAIN canvas'
    BY <2>1 DEF StackInv
  <2>3. Agree(gs', canvas'.now)
    BY <2>1, <2>2 DEF StackInv, Agree, Same
  <2>4. QED
    BY <2>1, <2>2, <2>3, Advancing, InPlace
<1>5. CASE SetParameter
  <2>1. /\ Running /\ frames' = Advanced /\ UNCHANGED <<stateStack, resources, canvas>>
        /\ Instruction.op \in ParameterOps /\ gs' = WithParameter(Instruction.op)
    BY <1>5 DEF SetParameter, Executes
  <2>2. Agree(gs', canvas'.now)
    BY <2>1, Parameters
  <2>3. QED
    BY <2>1, <2>2, Advancing, InPlace DEF StackInv
<1>6. CASE ExtendPath
  <2>1. /\ Running /\ frames' = Advanced /\ UNCHANGED <<gs, stateStack, resources>>
        /\ canvas' = [canvas EXCEPT !.path = WithSegment(Instruction.op)]
    BY <1>6 DEF ExtendPath, Executes
  <2>2. /\ canvas'.now = canvas.now /\ canvas'.saved = canvas.saved
        /\ {"now", "saved", "path"} \subseteq DOMAIN canvas'
    BY <2>1 DEF StackInv
  <2>3. QED
    BY <2>1, <2>2, Advancing, InPlace DEF StackInv
<1>7. CASE Paint
  <2>1. PICK path, width, clip :
          /\ Running /\ frames' = Advanced /\ UNCHANGED <<gs, stateStack, resources>>
          /\ width \in {gs.lineWidth, canvas.now.lineWidth}
          /\ canvas' = [canvas EXCEPT !.path = path, !.now.lineWidth = width, !.now.clip = clip]
    BY <1>7 DEF Paint, Executes
  <2>2. /\ canvas'.now = [canvas.now EXCEPT !.lineWidth = width, !.clip = clip]
        /\ canvas'.saved = canvas.saved
        /\ {"now", "saved", "path"} \subseteq DOMAIN canvas'
    BY <2>1 DEF StackInv
  <2>3. Agree(gs', canvas'.now)
    BY <2>1, <2>2 DEF StackInv, Agree, Same
  <2>4. QED
    BY <2>1, <2>2, <2>3, Advancing, InPlace
<1>8. CASE SetClip
  BY <1>8, Painting DEF SetClip, Executes
<1>9. CASE MoveText
  <2>1. /\ Running /\ frames' = Advanced /\ UNCHANGED <<stateStack, resources, canvas>>
        /\ gs' \in {[gs EXCEPT !.leading = -N(2)], gs}
    BY <1>9 DEF MoveText, Executes
  <2>2. Agree(gs', canvas'.now)
    BY <2>1 DEF StackInv, Agree, Same
  <2>3. QED
    BY <2>1, <2>2, Advancing, InPlace DEF StackInv
<1>10. CASE SetFont
  <2>1. PICK size, font :
          /\ Running /\ frames' = Advanced /\ UNCHANGED <<stateStack, resources, canvas>>
          /\ gs' = [gs EXCEPT !.fontSize = size, !.font = font]
    BY <1>10 DEF SetFont, Executes
  <2>2. Agree(gs', canvas'.now)
    BY <2>1 DEF StackInv, Agree, Same
  <2>3. QED
    BY <2>1, <2>2, Advancing, InPlace DEF StackInv
<1>11. CASE Show
  <2>1. /\ Running /\ frames' = Advanced /\ UNCHANGED <<stateStack, resources, canvas>>
        /\ gs' \in {[gs EXCEPT !.wordSpacing = N(1), !.charSpacing = N(2)], gs}
    BY <1>11 DEF Show, Executes
  <2>2. Agree(gs', canvas'.now)
    BY <2>1 DEF StackInv, Agree, Same
  <2>3. QED
    BY <2>1, <2>2, Advancing, InPlace DEF StackInv
<1>12. CASE DrawImage
  BY <1>12, Painting DEF DrawImage, DrawPixels, Draws, Executes
<1>13. CASE EnterForm
  <2>1. PICK dictionary, code :
          /\ Running /\ Len(frames) <= MaxFormDepth
          /\ stateStack' = Append(stateStack, gs)
          /\ gs' = [gs EXCEPT !.ctm = gs.ctm \o XObject.matrix]
          /\ canvas' = [SaveCanvas EXCEPT !.now.ctm = SaveCanvas.now.ctm \o XObject.matrix]
          /\ resources' = Append(resources, dictionary)
          /\ frames' = Append(Advanced, code)
    BY <1>13 DEF EnterForm, Draws, Executes
  <2>2. /\ SaveCanvas.now = canvas.now /\ SaveCanvas.saved = Append(canvas.saved, canvas.now)
        /\ {"now", "saved", "path"} \subseteq DOMAIN SaveCanvas
    BY DEF SaveCanvas, StackInv
  <2>3. /\ canvas'.now = [canvas.now EXCEPT !.ctm = canvas.now.ctm \o XObject.matrix]
        /\ canvas'.saved = Append(canvas.saved, canvas.now)
        /\ {"now", "saved", "path"} \subseteq DOMAIN canvas'
    BY <2>1, <2>2
  <2>4. Agree(gs', canvas'.now)
    BY <2>1, <2>3 DEF StackInv, Agree, Same
  <2>5. IsSeq(Advanced) /\ Len(Advanced) = Len(frames)
    BY <2>1, Replacing DEF StackInv, Running, Advanced
  <2>6. /\ IsSeq(frames') /\ Len(frames') = Len(frames) + 1 /\ Len(frames) \in Nat
        /\ IsSeq(resources') /\ Len(resources') = Len(resources) + 1
    BY <2>1, <2>5, Appending DEF StackInv
  <2>7. Len(resources') = Len(frames') /\ Len(frames') <= MaxFormDepth + 1
    BY <2>1, <2>6, ContentAssumption DEF StackInv
  <2>8. QED
    BY <2>1, <2>3, <2>4, <2>6, <2>7, Pushing
<1>14. CASE LeaveForm
  <2>1. /\ Len(frames) > 1
        /\ resources' = Front(resources) /\ frames' = Front(frames)
        /\ gs' = IF stateStack = <<>> THEN gs ELSE Last(stateStack)
        /\ stateStack' = IF stateStack = <<>> THEN stateStack ELSE Front(stateStack)
        /\ canvas' = RestoreCanvas
    BY <1>14 DEF LeaveForm
  <2>2. /\ IsSeq(frames) /\ IsSeq(resources) /\ Len(resources) = Len(frames)
        /\ frames # <<>> /\ resources # <<>> /\ Len(frames) <= MaxFormDepth + 1
    BY <2>1 DEF StackInv
  <2>3. /\ IsSeq(frames') /\ IsSeq(resources')
        /\ Len(frames) \in Nat /\ Len(frames') = Len(frames) - 1
        /\ Len(resources') = Len(resources) - 1
    BY <2>1, <2>2, Fronting
  <2>4. Len(resources') = Len(frames') /\ Len(frames') <= MaxFormDepth + 1
    BY <2>2, <2>3, ContentAssumption
  <2>5. QED
    BY <2>1, <2>3, <2>4, Popping
<1>15. CASE Ignore
  BY <1>15, Painting DEF Ignore
<1>16. QED
  BY <1>1, <1>2, <1>3, <1>4, <1>5, <1>6, <1>7, <1>8, <1>9, <1>10, <1>11, <1>12,
     <1>13, <1>14, <1>15 DEF Interpret

\* A new interpreter begins with equal states and, for want of a second page,
\* with the empty stacks of the first.
LEMMA Starting ==
    ASSUME stateStack = <<>>, canvas.saved = <<>>, {"now", "saved", "path"} \subseteq DOMAIN canvas,
           NEW code, NEW base, NEW res, Start(code, base, res)
    PROVE  StackInv'
<1>1. /\ frames' = <<code>> /\ resources' = <<res>> /\ stateStack' = <<>>
      /\ gs' = InitialState(base) /\ canvas' = [canvas EXCEPT !.now = Blank(base)]
  BY DEF Start
<1>2. /\ canvas'.now = Blank(base) /\ canvas'.saved = <<>>
      /\ {"now", "saved", "path"} \subseteq DOMAIN canvas'
  BY <1>1
<1>3. Agree(gs', canvas'.now)
  BY <1>1, <1>2 DEF InitialState, Blank, Agree, Same
<1>4. /\ IsSeq(frames') /\ Len(frames') = 1
      /\ IsSeq(resources') /\ Len(resources') = 1 /\ 1 <= MaxFormDepth + 1
  <2>1. <<code>> \in Seq({code}) /\ <<res>> \in Seq({res})
    OBVIOUS
  <2>2. IsSeq(<<code>>) /\ IsSeq(<<res>>)
    BY <2>1 DEF IsSeq
  <2>3. Len(<<code>>) = 1 /\ Len(<<res>>) = 1 /\ 1 <= MaxFormDepth + 1
    BY ContentAssumption
  <2>4. QED
    BY <1>1, <2>2, <2>3
<1>5. /\ IsSeq(stateStack') /\ IsSeq(canvas'.saved) /\ Len(stateStack') = 0
      /\ Len(canvas'.saved) = 0
  BY <1>1, <1>2, EmptySeq DEF IsSeq
<1>6. QED
  BY <1>2, <1>3, <1>4, <1>5 DEF StackInv

-------------------------------------------------------------------------------
(* A whole page *)

\* Before the page there are no frames, and nothing has been pushed.
PageInv ==
    /\ StackInv
    /\ stage = "loading" => stateStack = <<>> /\ canvas.saved = <<>>

LEMMA PageInit == Init => PageInv
<1> SUFFICES ASSUME Init PROVE PageInv
  OBVIOUS
<1>1. /\ frames = <<>> /\ resources = <<>> /\ stateStack = <<>>
      /\ gs = InitialState(<<>>)
      /\ canvas = [now |-> Blank(<<>>), saved |-> <<>>, path |-> <<>>]
  BY DEF Init, ContentInit
<1>2. /\ canvas.now = Blank(<<>>) /\ canvas.saved = <<>>
      /\ {"now", "saved", "path"} \subseteq DOMAIN canvas
  BY <1>1
<1>3. Agree(gs, canvas.now)
  BY <1>1, <1>2 DEF InitialState, Blank, Agree, Same
<1>4. \A S : <<>> \in Seq(S) /\ Len(<<>>) = 0
  BY EmptySeq
<1>5. QED
  BY <1>1, <1>2, <1>3, <1>4, ContentAssumption DEF PageInv, StackInv, IsSeq

LEMMA PageStep == PageInv /\ [Next]_pageVars => PageInv'
<1> SUFFICES ASSUME PageInv, [Next]_pageVars PROVE PageInv'
  OBVIOUS
<1>0. UNCHANGED contentVars => StackInv' /\ UNCHANGED <<stateStack, canvas>>
  BY DEF contentVars, PageInv, StackInv, Agree, Same
<1>1. CASE Loading
  BY <1>0, <1>1 DEF Loading, PageInv
<1>2. CASE Drawing
  BY <1>2, Operators DEF Drawing, PageInv
<1>3. CASE Transfer
  BY <1>0, <1>3 DEF Transfer, PageInv
<1>4. ASSUME NEW n, NEW scale, Render(n, scale) PROVE PageInv'
  <2>1. /\ stage = "loading" /\ stateStack = <<>> /\ canvas.saved = <<>>
        /\ {"now", "saved", "path"} \subseteq DOMAIN canvas
    BY <1>4 DEF Render, Run, PageInv, StackInv
  <2>2. CASE stage' = "rendering" /\ \E code, base, res : Start(code, base, res)
    BY <2>1, <2>2, Starting DEF PageInv
  <2>3. CASE stage' = "failed" /\ UNCHANGED contentVars
    BY <1>0, <2>3 DEF PageInv
  <2>4. QED
    BY <1>4, <2>2, <2>3 DEF Render, Run
<1>5. CASE UNCHANGED pageVars
  BY <1>0, <1>5 DEF pageVars, PageInv
<1>6. QED
  BY <1>1, <1>2, <1>3, <1>4, <1>5 DEF Next, Rendering

\* The interpreter's stack of graphics states and the canvas's agree while a
\* page is drawn, whatever its operators, forms and resources.
THEOREM StacksNeverPart == Spec => []StacksAgree
<1>1. PageInv => StacksAgree
  BY DEF PageInv, StackInv, StacksAgree, Agree
<1>2. QED
  BY PageInit, PageStep, <1>1, PTL DEF Spec
-------------------------------------------------------------------------------
(* Where the page lies on its canvas *)

\* A transformation whose first factor is b.
Placed(ctm, b) == IsSeq(ctm) /\ ctm # <<>> /\ Head(ctm) = b

\* The state in force and the saved ones start from the page's own transformation b.
OnPage(state, stack, b) ==
    Placed(state.ctm, b) /\ \A k \in 1..Len(stack) : Placed(stack[k].ctm, b)

LEMMA Composing ==
    ASSUME NEW ctm, NEW b, Placed(ctm, b), NEW m
    PROVE  Placed(Append(ctm, m), b)
<1>1. PICK S : ctm \in Seq(S)
  BY DEF Placed, IsSeq
<1>2. ctm \in Seq(S \cup {m}) /\ ctm # <<>>
  BY <1>1 DEF Placed
<1>3. Append(ctm, m) \in Seq(S \cup {m}) /\ Append(ctm, m) # <<>>
      /\ Head(Append(ctm, m)) = Head(ctm)
  BY <1>2
<1>4. QED
  BY <1>3 DEF Placed, IsSeq

\* What a form's matrix makes of a transformation.
LEMMA FormPlaced ==
    ASSUME NEW ctm, NEW b, Placed(ctm, b), XObject.subtype = "Form"
    PROVE  Placed(ctm \o XObject.matrix, b)
<1>1. XObject.matrix = <<>> \/ XObject.matrix = <<Head(XObject.matrix)>>
  <2>1. XObject # NoXObject
    BY DEF NoXObject
  <2>2. PICK r \in DOMAIN Resources : \E name \in DOMAIN Resources[r].xobjects :
            XObject = Resources[r].xobjects[name]
    <3>1. CASE Last(resources) \in DOMAIN Resources
      BY <2>1, <3>1 DEF XObject, Dictionary
    <3>2. CASE Last(resources) \notin DOMAIN Resources
      <4>1. Dictionary.xobjects = <<>>
        BY <3>2 DEF Dictionary
      <4>2. XObject = NoXObject
        BY <4>1 DEF XObject
      <4>3. QED
        BY <2>1, <4>2
    <3>3. QED
      BY <3>1, <3>2
  <2>3. QED
    BY <2>2, FormsAssumption
<1>2. PICK S : ctm \in Seq(S) /\ ctm # <<>>
  BY DEF Placed, IsSeq
<1>3. PICK T, t : t = XObject.matrix /\ ctm \in Seq(T) /\ t \in Seq(T)
  <2>1. PICK t, h : t = XObject.matrix /\ (t = <<>> \/ t = <<h>>)
    BY <1>1
  <2>2. t \in Seq(S \cup {h})
    <3>1. CASE t = <<>>
      BY <3>1
    <3>2. CASE t = <<h>>
      <4>1. h \in S \cup {h}
        OBVIOUS
      <4>2. <<h>> \in Seq(S \cup {h})
        BY <4>1
      <4>3. QED
        BY <3>2, <4>2
    <3>3. QED
      BY <2>1, <3>1, <3>2
  <2>3. ctm \in Seq(S \cup {h})
    BY <1>2
  <2>4. QED
    BY <2>1, <2>2, <2>3
<1>4. /\ ctm \o t \in Seq(T) /\ Len(ctm \o t) = Len(ctm) + Len(t)
      /\ Len(ctm) \in Nat \ {0} /\ Len(t) \in Nat
      /\ \A i \in 1..Len(ctm) + Len(t) :
            (ctm \o t)[i] = IF i <= Len(ctm) THEN ctm[i] ELSE t[i - Len(ctm)]
  BY <1>2, <1>3, ConcatProperties
<1>5. PICK u : u = ctm \o t
  OBVIOUS
<1>6. u \in Seq(T) /\ Len(u) \in Nat \ {0} /\ u[1] = ctm[1]
  BY <1>4, <1>5
<1>7. u # <<>> /\ Head(u) = Head(ctm)
  BY <1>2, <1>3, <1>6
<1>8. QED
  BY <1>3, <1>5, <1>6, <1>7 DEF Placed, IsSeq

\* Pushing the state, with or without a form, and popping it.
LEMMA PushOnPage ==
    ASSUME NEW b, OnPage(gs, stateStack, b), IsSeq(stateStack),
           stateStack' = Append(stateStack, gs), Placed(gs'.ctm, b)
    PROVE  OnPage(gs, stateStack, b)'
<1>1. /\ Len(stateStack') = Len(stateStack) + 1 /\ Len(stateStack) \in Nat
      /\ \A k \in 1..Len(stateStack) : stateStack'[k] = stateStack[k]
      /\ stateStack'[Len(stateStack) + 1] = gs
  BY Appending
<1>2. ASSUME NEW k \in 1..Len(stateStack') PROVE Placed(stateStack'[k].ctm, b)
  <2>1. CASE k = Len(stateStack) + 1
    BY <1>1, <2>1 DEF OnPage
  <2>2. CASE k # Len(stateStack) + 1
    <3>1. k \in 1..Len(stateStack)
      BY <1>1, <2>2
    <3>2. QED
      BY <1>1, <3>1 DEF OnPage
  <2>3. QED
    BY <2>1, <2>2
<1>3. QED
  BY <1>2 DEF OnPage

LEMMA PopOnPage ==
    ASSUME NEW b, OnPage(gs, stateStack, b), IsSeq(stateStack),
           gs' = IF stateStack = <<>> THEN gs ELSE Last(stateStack),
           stateStack' = IF stateStack = <<>> THEN stateStack ELSE Front(stateStack)
    PROVE  OnPage(gs, stateStack, b)'
<1>1. CASE stateStack = <<>>
  BY <1>1 DEF OnPage
<1>2. CASE stateStack # <<>>
  <2>1. /\ Len(stateStack) \in Nat \ {0} /\ Len(stateStack') = Len(stateStack) - 1
        /\ \A k \in 1..Len(stateStack) - 1 : stateStack'[k] = stateStack[k]
        /\ gs' = stateStack[Len(stateStack)]
    BY <1>2, Fronting
  <2>2. Placed(gs'.ctm, b)
    <3>1. Len(stateStack) \in 1..Len(stateStack)
      BY <2>1
    <3>2. QED
      BY <2>1, <3>1 DEF OnPage
  <2>3. ASSUME NEW k \in 1..Len(stateStack') PROVE Placed(stateStack'[k].ctm, b)
    <3>1. k \in 1..Len(stateStack) /\ k \in 1..Len(stateStack) - 1
      BY <2>1
    <3>2. QED
      BY <2>1, <3>1 DEF OnPage
  <2>4. QED
    BY <2>2, <2>3 DEF OnPage
<1>3. QED
  BY <1>1, <1>2

\* No parameter is the transformation.
LEMMA KeepsPlace ==
    ASSUME NEW op \in ParameterOps, "ctm" \in DOMAIN gs
    PROVE  WithParameter(op).ctm = gs.ctm
<1>1. CASE op \in {"g", "G", "rg", "RG"}
  BY <1>1 DEF WithParameter
<1>2. CASE op \in {"k", "K", "sc", "scn", "SC", "SCN"}
  BY <1>2 DEF WithParameter
<1>3. CASE op \in {"Tc", "Tw", "Tz"}
  BY <1>3 DEF WithParameter
<1>4. CASE op \in {"TL", "Ts", "Tr"}
  BY <1>4 DEF WithParameter
<1>5. QED
  BY <1>1, <1>2, <1>3, <1>4 DEF ParameterOps

LEMMA OperatorsOnPage ==
    ASSUME StackInv, Interpret, NEW b, OnPage(gs, stateStack, b)
    PROVE  OnPage(gs, stateStack, b)'
<1>0. IsSeq(stateStack) /\ "ctm" \in DOMAIN gs /\ Placed(gs.ctm, b)
  BY DEF StackInv, Agree, OnPage
<1>1. CASE UNCHANGED stateStack /\ gs'.ctm = gs.ctm
  BY <1>1 DEF OnPage
<1>2. CASE Save
  BY <1>0, <1>2, PushOnPage DEF Save
<1>3. CASE Restore
  BY <1>0, <1>3, PopOnPage DEF Restore
<1>4. CASE Concat
  <2>1. stateStack' = stateStack /\ gs'.ctm = Append(gs.ctm, Num6)
    BY <1>0, <1>4 DEF Concat, Compose
  <2>2. QED
    BY <1>0, <2>1, Composing DEF OnPage
<1>5. CASE SetLineWidth \/ SetParameter
  <2>1. stateStack' = stateStack /\ gs'.ctm = gs.ctm
    BY <1>0, <1>5, KeepsPlace DEF SetLineWidth, SetParameter, Executes
  <2>2. QED
    BY <1>1, <2>1
<1>6. CASE ExtendPath \/ Paint \/ SetClip \/ DrawImage \/ Ignore
  BY <1>1, <1>6 DEF ExtendPath, Paint, SetClip, DrawImage, Ignore
<1>7. CASE MoveText \/ SetFont \/ Show
  <2>1. stateStack' = stateStack /\ gs'.ctm = gs.ctm
    BY <1>0, <1>7 DEF MoveText, SetFont, Show
  <2>2. QED
    BY <1>1, <2>1
<1>8. CASE EnterForm
  <2>1. /\ stateStack' = Append(stateStack, gs) /\ XObject.subtype = "Form"
        /\ gs'.ctm = gs.ctm \o XObject.matrix
    BY <1>0, <1>8 DEF EnterForm, Draws
  <2>2. QED
    BY <1>0, <2>1, FormPlaced, PushOnPage
<1>9. CASE LeaveForm
  BY <1>0, <1>9, PopOnPage DEF LeaveForm
<1>10. QED
  BY <1>2, <1>3, <1>4, <1>5, <1>6, <1>7, <1>8, <1>9 DEF Interpret

-------------------------------------------------------------------------------
(* The corners of a page, on its canvas                                       *)

\* A page whose MediaBox names its lower left and its upper right corner.
Upright(page) ==
    LET box == MediaBox(page)
    IN /\ \A i \in 1..4 : box[i] \in Int
       /\ box[1] < box[3] /\ box[2] < box[4]

\* Quotient and remainder.
LEMMA Euclid ==
    ASSUME NEW n \in Nat, NEW d \in Int, d > 0
    PROVE  n = d * (n \div d) + (n % d)
BY SMTT(30)

LEMMA Division ==
    ASSUME NEW n \in Nat, NEW d \in Nat \ {0}
    PROVE  /\ n \div d \in Nat /\ n % d \in 0 .. d - 1
           /\ n = d * (n \div d) + (n % d) /\ n % d <= n
<1>1. n \div d \in Int /\ n % d \in 0 .. d - 1
  OBVIOUS
<1>2. n \div d >= 0
  BY <1>1
<1>3. n = d * (n \div d) + (n % d)
  BY Euclid
<1>4. n % d <= n
  <2>1. PICK q, r : q = n \div d /\ r = n % d
    OBVIOUS
  <2>2. q \in Nat /\ r \in Nat /\ n = d * q + r
    BY <1>1, <1>2, <1>3, <2>1
  <2>3. d * q >= 0
    BY <2>2
  <2>4. QED
    BY <2>1, <2>2, <2>3
<1>5. QED
  BY <1>1, <1>2, <1>3, <1>4

LEMMA AtLeastOne == ASSUME NEW n \in Nat PROVE Max({1, n}) = IF n = 0 THEN 1 ELSE n
BY DEF Max

\* A length and the pixels of the bitmap's side that shows it.
LEMMA Pixels ==
    ASSUME NEW length \in Nat \ {0}
    PROVE  LET pixels == Max({1, Rounded(length)})
           IN pixels \in Nat \ {0} /\ Close(length, pixels)
<1>1. PICK D : D = PixelUnits /\ D \in Nat \ {0}
  BY PageAssumption
<1>2. PICK n, d : n = 2 * length + D /\ d = 2 * D
  OBVIOUS
<1>3. n \in Nat /\ d \in Nat \ {0}
  BY <1>1, <1>2
<1>4. PICK q, r : q = n \div d /\ r = n % d
  OBVIOUS
<1>5. q \in Nat /\ r \in 0 .. d - 1 /\ n = d * q + r
  BY <1>3, <1>4, Division
<1>6. PICK t : t = q * D
  OBVIOUS
<1>7. t \in Int /\ d * q = 2 * t
  BY <1>1, <1>2, <1>5, <1>6
<1>8. Rounded(length) = q
  BY <1>1, <1>2, <1>4 DEF Rounded
<1>9. CASE q = 0
  <2>1. Max({1, Rounded(length)}) = 1
    BY <1>8, <1>9, AtLeastOne
  <2>2. length < D
    BY <1>1, <1>2, <1>5, <1>6, <1>7, <1>9
  <2>3. Close(length, 1)
    BY <1>1, <2>2 DEF Close
  <2>4. QED
    BY <2>1, <2>3
<1>10. CASE q # 0
  <2>1. Max({1, Rounded(length)}) = q
    BY <1>5, <1>8, <1>10, AtLeastOne
  <2>2. 2 * t - 2 * length = D - r
    BY <1>1, <1>2, <1>5, <1>7
  <2>3. 2 * Abs(t - length) <= D
    BY <1>1, <1>2, <1>5, <1>7, <2>2 DEF Abs
  <2>4. Close(length, q)
    BY <1>1, <1>6, <2>3 DEF Close
  <2>5. QED
    BY <1>5, <1>10, <2>1, <2>4
<1>11. QED
  BY <1>9, <1>10

LEMMA Size ==
    ASSUME NEW page, Upright(page), NEW scale \in Nat \ {0}
    PROVE  LET box == MediaBox(page)
               w == scale * (box[3] - box[1])
               h == scale * (box[4] - box[2])
               size == PagePixelSize(page, scale)
               swap == Rotation(page) \in {90, 270}
           IN /\ size.width \in Nat /\ size.height \in Nat
              /\ Close(IF swap THEN h ELSE w, size.width)
              /\ Close(IF swap THEN w ELSE h, size.height)
<1>1. PICK a, b, c, d : /\ a = MediaBox(page)[1] /\ b = MediaBox(page)[2]
                        /\ c = MediaBox(page)[3] /\ d = MediaBox(page)[4]
  OBVIOUS
<1>2. /\ a \in Int /\ b \in Int /\ c \in Int /\ d \in Int /\ a < c /\ b < d
  <2>1. 1 \in 1..4 /\ 2 \in 1..4 /\ 3 \in 1..4 /\ 4 \in 1..4
    OBVIOUS
  <2>2. QED
    BY <1>1, <2>1 DEF Upright
<1>3. PICK w, h : w = c - a /\ h = d - b
  OBVIOUS
<1>4. /\ w \in Nat \ {0} /\ h \in Nat \ {0} /\ Abs(c - a) = w /\ Abs(d - b) = h
  BY <1>2, <1>3 DEF Abs
<1>5. PICK sw, sh : sw = scale * w /\ sh = scale * h
  OBVIOUS
<1>6. sw \in Nat \ {0} /\ sh \in Nat \ {0}
  BY <1>4, <1>5
<1>7. CASE Rotation(page) \in {90, 270}
  <2>1. /\ PagePixelSize(page, scale).width = Max({1, Rounded(sh)})
        /\ PagePixelSize(page, scale).height = Max({1, Rounded(sw)})
    BY <1>1, <1>4, <1>5, <1>7 DEF PagePixelSize
  <2>2. QED
    BY <1>1, <1>3, <1>5, <1>6, <1>7, <2>1, Pixels
<1>8. CASE Rotation(page) \notin {90, 270}
  <2>1. /\ PagePixelSize(page, scale).width = Max({1, Rounded(sw)})
        /\ PagePixelSize(page, scale).height = Max({1, Rounded(sh)})
    BY <1>1, <1>4, <1>5, <1>8 DEF PagePixelSize
  <2>2. QED
    BY <1>1, <1>3, <1>5, <1>6, <1>8, <2>1, Pixels
<1>9. QED
  BY <1>7, <1>8

\* Where a matrix takes a point.
Image(m, x, y) == <<m[1] * x + m[3] * y + m[5], m[2] * x + m[4] * y + m[6]>>

\* A page that is not turned, or turned back: by a quarter, by half, by three quarters.
LEMMA Turned ==
    ASSUME NEW page, Upright(page), NEW scale \in Nat \ {0}, NEW x \in Int, NEW y \in Int
    PROVE  LET box == MediaBox(page)
               m == BaseTransform(page, scale)
               width == PagePixelSize(page, scale).width * PixelUnits
               height == PagePixelSize(page, scale).height * PixelUnits
               left == scale * x - scale * box[1]
               high == scale * box[4] - scale * y
           IN Image(m, x, y) = CASE Rotation(page) = 90 -> <<width - high, left>>
                                 [] Rotation(page) = 180 -> <<width - left, height - high>>
                                 [] Rotation(page) = 270 -> <<high, height - left>>
                                 [] OTHER -> <<left, high>>
<1>1. PICK a, b, c, d : /\ a = MediaBox(page)[1] /\ b = MediaBox(page)[2]
                        /\ c = MediaBox(page)[3] /\ d = MediaBox(page)[4]
  OBVIOUS
<1>2. /\ a \in Int /\ b \in Int /\ c \in Int /\ d \in Int /\ a < c /\ b < d
  <2>1. 1 \in 1..4 /\ 2 \in 1..4 /\ 3 \in 1..4 /\ 4 \in 1..4
    OBVIOUS
  <2>2. QED
    BY <1>1, <2>1 DEF Upright
<1>3. PICK s, sa, sd, sx, sy :
        /\ s = scale /\ sa = s * a /\ sd = s * d /\ sx = s * x /\ sy = s * y
  OBVIOUS
<1>4. s \in Int /\ sa \in Int /\ sd \in Int /\ sx \in Int /\ sy \in Int
  BY <1>2, <1>3
<1>5. -a * s = -sa /\ (Abs(d - b) + b) * s = sd /\ (-s) * y = -sy
  <2>1. Abs(d - b) + b = d
    BY <1>2 DEF Abs
  <2>2. QED
    BY <1>2, <1>3, <2>1
<1>6. PICK W, H : /\ W = PagePixelSize(page, scale).width * PixelUnits
                  /\ H = PagePixelSize(page, scale).height * PixelUnits
  OBVIOUS
<1>7. W \in Int /\ H \in Int
  <2>1. PagePixelSize(page, scale).width \in Nat /\ PagePixelSize(page, scale).height \in Nat
    BY Size
  <2>2. QED
    BY <1>6, <2>1, PageAssumption
<1>8. PICK flip : flip = <<s, 0, 0, -s, -sa, sd>>
  OBVIOUS
<1>9. BaseTransform(page, scale)
        = CASE Rotation(page) = 90 -> MatMul(flip, <<0, 1, -1, 0, W, 0>>)
            [] Rotation(page) = 180 -> MatMul(flip, <<-1, 0, 0, -1, W, H>>)
            [] Rotation(page) = 270 -> MatMul(flip, <<0, -1, 1, 0, 0, H>>)
            [] OTHER -> flip
  BY <1>1, <1>3, <1>5, <1>6, <1>8 DEF BaseTransform
<1>10. CASE Rotation(page) = 90
  <2>1. MatMul(flip, <<0, 1, -1, 0, W, 0>>) = <<0, s, s, 0, W - sd, -sa>>
    BY <1>4, <1>7, <1>8 DEF MatMul
  <2>2. Image(<<0, s, s, 0, W - sd, -sa>>, x, y) = <<W - (sd - sy), sx - sa>>
    BY <1>3, <1>4, <1>7 DEF Image
  <2>3. QED
    BY <1>1, <1>3, <1>6, <1>9, <1>10, <2>1, <2>2
<1>11. CASE Rotation(page) = 180
  <2>1. MatMul(flip, <<-1, 0, 0, -1, W, H>>) = <<-s, 0, 0, s, sa + W, H - sd>>
    BY <1>4, <1>7, <1>8 DEF MatMul
  <2>2. Image(<<-s, 0, 0, s, sa + W, H - sd>>, x, y) = <<W - (sx - sa), H - (sd - sy)>>
    BY <1>3, <1>4, <1>7 DEF Image
  <2>3. QED
    BY <1>1, <1>3, <1>6, <1>9, <1>11, <2>1, <2>2
<1>12. CASE Rotation(page) = 270
  <2>1. MatMul(flip, <<0, -1, 1, 0, 0, H>>) = <<0, -s, -s, 0, sd, sa + H>>
    BY <1>4, <1>7, <1>8 DEF MatMul
  <2>2. Image(<<0, -s, -s, 0, sd, sa + H>>, x, y) = <<sd - sy, H - (sx - sa)>>
    BY <1>3, <1>4, <1>7 DEF Image
  <2>3. QED
    BY <1>1, <1>3, <1>6, <1>9, <1>12, <2>1, <2>2
<1>13. CASE Rotation(page) \notin {90, 180, 270}
  <2>1. Image(flip, x, y) = <<sx - sa, sd - sy>>
    BY <1>3, <1>4, <1>5, <1>8 DEF Image
  <2>2. QED
    BY <1>1, <1>3, <1>9, <1>13, <2>1
<1>14. QED
  BY <1>10, <1>11, <1>12, <1>13

\* A map that takes the corners of a box to those of a rectangle.
LEMMA FourCorners ==
    ASSUME NEW m, NEW a, NEW b, NEW c, NEW d, NEW l, NEW r, NEW s, NEW t,
           {Image(m, a, b), Image(m, a, d), Image(m, c, b), Image(m, c, d)}
               = {<<l, s>>, <<l, t>>, <<r, s>>, <<r, t>>}
    PROVE  {Image(m, x, y) : x \in {a, c}, y \in {b, d}} = {l, r} \X {s, t}
<1>1. {Image(m, x, y) : x \in {a, c}, y \in {b, d}}
          = {Image(m, a, b), Image(m, a, d), Image(m, c, b), Image(m, c, d)}
  OBVIOUS
<1>2. {l, r} \X {s, t} = {<<l, s>>, <<l, t>>, <<r, s>>, <<r, t>>}
  OBVIOUS
<1>3. QED
  BY <1>1, <1>2

\* The rectangle from <<l, s>> to <<r, t>>, each of whose sides meets the bitmap.
LEMMA Covered ==
    ASSUME NEW page, NEW scale, NEW m, NEW l, NEW r, NEW s, NEW t,
           LET box == MediaBox(page)
           IN {Image(m, box[1], box[2]), Image(m, box[1], box[4]),
               Image(m, box[3], box[2]), Image(m, box[3], box[4])}
                  = {<<l, s>>, <<l, t>>, <<r, s>>, <<r, t>>},
           Meets(l, r, PagePixelSize(page, scale).width),
           Meets(s, t, PagePixelSize(page, scale).height)
    PROVE  Fills(page, scale, m)
<1> DEFINE corners == {Image(m, x, y) : x \in {MediaBox(page)[1], MediaBox(page)[3]},
                                        y \in {MediaBox(page)[2], MediaBox(page)[4]}}
<1>1. corners = {l, r} \X {s, t}
  BY FourCorners
<1>2. <<l, s>> \in {l, r} \X {s, t} /\ <<r, t>> \in {l, r} \X {s, t}
  OBVIOUS
<1>3. PICK one, other : one = <<l, s>> /\ other = <<r, t>>
  OBVIOUS
<1>4. /\ one \in corners /\ other \in corners
      /\ one[1] = l /\ one[2] = s /\ other[1] = r /\ other[2] = t
  BY <1>1, <1>2, <1>3
<1>5. /\ corners = {one[1], other[1]} \X {one[2], other[2]}
      /\ Meets(one[1], other[1], PagePixelSize(page, scale).width)
      /\ Meets(one[2], other[2], PagePixelSize(page, scale).height)
  BY <1>1, <1>4
<1>6. QED
  BY <1>4, <1>5 DEF Fills, Image

\* A side that starts with the bitmap, and one that ends with it.
LEMMA Starts ==
    ASSUME NEW n \in Int, NEW pixels, Close(n, pixels)
    PROVE  Meets(0, n, pixels)
<1>1. n - 0 = n
  OBVIOUS
<1>2. QED
  BY <1>1 DEF Meets

LEMMA Ends ==
    ASSUME NEW n \in Int, NEW pixels, NEW end \in Int, end = pixels * PixelUnits, Close(n, pixels)
    PROVE  Meets(end - n, end, pixels)
<1>1. end - (end - n) = n
  OBVIOUS
<1>2. QED
  BY <1>1 DEF Meets

LEMMA CornersFill ==
    ASSUME NEW page, Upright(page), NEW scale \in Nat \ {0}
    PROVE  Fills(page, scale, BaseTransform(page, scale))
<1>1. PICK a, b, c, d, m :
        /\ a = MediaBox(page)[1] /\ b = MediaBox(page)[2]
        /\ c = MediaBox(page)[3] /\ d = MediaBox(page)[4]
        /\ m = BaseTransform(page, scale)
  OBVIOUS
<1>2. /\ a \in Int /\ b \in Int /\ c \in Int /\ d \in Int
  <2>1. 1 \in 1..4 /\ 2 \in 1..4 /\ 3 \in 1..4 /\ 4 \in 1..4
    OBVIOUS
  <2>2. QED
    BY <1>1, <2>1 DEF Upright
<1>3. PICK w, h, pw, ph, W, H :
        /\ w = scale * (c - a) /\ h = scale * (d - b)
        /\ pw = PagePixelSize(page, scale).width /\ ph = PagePixelSize(page, scale).height
        /\ W = pw * PixelUnits /\ H = ph * PixelUnits
  OBVIOUS
<1>4. /\ w \in Int /\ h \in Int /\ W \in Int /\ H \in Int
      /\ scale * a - scale * a = 0 /\ scale * c - scale * a = w
      /\ scale * d - scale * d = 0 /\ scale * d - scale * b = h
  <2>1. pw \in Nat /\ ph \in Nat
    BY <1>3, Size
  <2>2. QED
    BY <1>2, <1>3, <2>1, PageAssumption
<1>5. /\ Rotation(page) \in {90, 270} => Close(h, pw) /\ Close(w, ph)
      /\ Rotation(page) \notin {90, 270} => Close(w, pw) /\ Close(h, ph)
  BY <1>1, <1>3, Size
<1>6. W - 0 = W /\ H - 0 = H
  BY <1>4
<1>7. \A x, y \in Int :
        LET left == scale * x - scale * a
            high == scale * d - scale * y
        IN Image(m, x, y) = CASE Rotation(page) = 90 -> <<W - high, left>>
                              [] Rotation(page) = 180 -> <<W - left, H - high>>
                              [] Rotation(page) = 270 -> <<high, H - left>>
                              [] OTHER -> <<left, high>>
  BY <1>1, <1>3, Turned
<1>8. CASE Rotation(page) = 90
  <2>1. \A x, y \in Int : Image(m, x, y) = <<W - (scale * d - scale * y), scale * x - scale * a>>
    BY <1>7, <1>8
  <2>2. /\ Image(m, a, b) = <<W - (scale * d - scale * b), scale * a - scale * a>>
        /\ Image(m, a, d) = <<W - (scale * d - scale * d), scale * a - scale * a>>
        /\ Image(m, c, b) = <<W - (scale * d - scale * b), scale * c - scale * a>>
        /\ Image(m, c, d) = <<W - (scale * d - scale * d), scale * c - scale * a>>
    BY <1>2, <2>1
  <2>3. /\ Image(m, a, b) = <<W - h, 0>> /\ Image(m, a, d) = <<W, 0>>
        /\ Image(m, c, b) = <<W - h, w>> /\ Image(m, c, d) = <<W, w>>
    BY <1>4, <1>6, <2>2
  <2>4. Close(h, pw) /\ Close(w, ph)
    <3>1. Rotation(page) \in {90, 270}
      BY <1>8
    <3>2. QED
      BY <1>5, <3>1, Zenon
  <2>5. Meets(W - h, W, pw)
    BY <1>4, <2>4, <1>3, Ends
  <2>6. Meets(0, w, ph)
    BY <1>4, <2>4, Starts
  <2>7. {Image(m, a, b), Image(m, a, d), Image(m, c, b), Image(m, c, d)}
            = {<<W - h, 0>>, <<W - h, w>>, <<W, 0>>, <<W, w>>}
    BY <2>3
  <2>8. QED
    BY <1>1, <1>3, <2>5, <2>6, <2>7, Covered
<1>9. CASE Rotation(page) = 180
  <2>1. \A x, y \in Int : Image(m, x, y) = <<W - (scale * x - scale * a), H - (scale * d - scale * y)>>
    BY <1>7, <1>9
  <2>2. /\ Image(m, a, b) = <<W - (scale * a - scale * a), H - (scale * d - scale * b)>>
        /\ Image(m, a, d) = <<W - (scale * a - scale * a), H - (scale * d - scale * d)>>
        /\ Image(m, c, b) = <<W - (scale * c - scale * a), H - (scale * d - scale * b)>>
        /\ Image(m, c, d) = <<W - (scale * c - scale * a), H - (scale * d - scale * d)>>
    BY <1>2, <2>1
  <2>3. /\ Image(m, a, b) = <<W, H - h>> /\ Image(m, a, d) = <<W, H>>
        /\ Image(m, c, b) = <<W - w, H - h>> /\ Image(m, c, d) = <<W - w, H>>
    BY <1>4, <1>6, <2>2
  <2>4. Close(w, pw) /\ Close(h, ph)
    <3>1. Rotation(page) \notin {90, 270}
      BY <1>9
    <3>2. QED
      BY <1>5, <3>1, Zenon
  <2>5. Meets(W - w, W, pw)
    BY <1>4, <2>4, <1>3, Ends
  <2>6. Meets(H - h, H, ph)
    BY <1>4, <2>4, <1>3, Ends
  <2>7. {Image(m, a, b), Image(m, a, d), Image(m, c, b), Image(m, c, d)}
            = {<<W - w, H - h>>, <<W - w, H>>, <<W, H - h>>, <<W, H>>}
    BY <2>3
  <2>8. QED
    BY <1>1, <1>3, <2>5, <2>6, <2>7, Covered
<1>10. CASE Rotation(page) = 270
  <2>1. \A x, y \in Int : Image(m, x, y) = <<scale * d - scale * y, H - (scale * x - scale * a)>>
    BY <1>7, <1>10
  <2>2. /\ Image(m, a, b) = <<scale * d - scale * b, H - (scale * a - scale * a)>>
        /\ Image(m, a, d) = <<scale * d - scale * d, H - (scale * a - scale * a)>>
        /\ Image(m, c, b) = <<scale * d - scale * b, H - (scale * c - scale * a)>>
        /\ Image(m, c, d) = <<scale * d - scale * d, H - (scale * c - scale * a)>>
    BY <1>2, <2>1
  <2>3. /\ Image(m, a, b) = <<h, H>> /\ Image(m, a, d) = <<0, H>>
        /\ Image(m, c, b) = <<h, H - w>> /\ Image(m, c, d) = <<0, H - w>>
    BY <1>4, <1>6, <2>2
  <2>4. Close(h, pw) /\ Close(w, ph)
    <3>1. Rotation(page) \in {90, 270}
      BY <1>10
    <3>2. QED
      BY <1>5, <3>1, Zenon
  <2>5. Meets(0, h, pw)
    BY <1>4, <2>4, Starts
  <2>6. Meets(H - w, H, ph)
    BY <1>4, <2>4, <1>3, Ends
  <2>7. {Image(m, a, b), Image(m, a, d), Image(m, c, b), Image(m, c, d)}
            = {<<0, H - w>>, <<0, H>>, <<h, H - w>>, <<h, H>>}
    BY <2>3
  <2>8. QED
    BY <1>1, <1>3, <2>5, <2>6, <2>7, Covered
<1>11. CASE Rotation(page) \notin {90, 180, 270}
  <2>1. \A x, y \in Int : Image(m, x, y) = <<scale * x - scale * a, scale * d - scale * y>>
    BY <1>7, <1>11
  <2>2. /\ Image(m, a, b) = <<scale * a - scale * a, scale * d - scale * b>>
        /\ Image(m, a, d) = <<scale * a - scale * a, scale * d - scale * d>>
        /\ Image(m, c, b) = <<scale * c - scale * a, scale * d - scale * b>>
        /\ Image(m, c, d) = <<scale * c - scale * a, scale * d - scale * d>>
    BY <1>2, <2>1
  <2>3. /\ Image(m, a, b) = <<0, h>> /\ Image(m, a, d) = <<0, 0>>
        /\ Image(m, c, b) = <<w, h>> /\ Image(m, c, d) = <<w, 0>>
    BY <1>4, <1>6, <2>2
  <2>4. Close(w, pw) /\ Close(h, ph)
    <3>1. Rotation(page) \notin {90, 270}
      BY <1>11
    <3>2. QED
      BY <1>5, <3>1, Zenon
  <2>5. Meets(0, w, pw)
    BY <1>4, <2>4, Starts
  <2>6. Meets(0, h, ph)
    BY <1>4, <2>4, Starts
  <2>7. {Image(m, a, b), Image(m, a, d), Image(m, c, b), Image(m, c, d)}
            = {<<0, 0>>, <<0, h>>, <<w, 0>>, <<w, h>>}
    BY <2>3
  <2>8. QED
    BY <1>1, <1>3, <2>5, <2>6, <2>7, Covered
<1>12. QED
  BY <1>8, <1>9, <1>10, <1>11

-------------------------------------------------------------------------------

\* While a page is drawn its file has been loaded and does not change, and all
\* states of the interpreter start from the page's own transformation.
DrawInv ==
    stage = "rendering" =>
        /\ phase = "done" /\ view.scale \in Scales
        /\ OnPage(gs, stateStack, BaseTransform(pages[view.index], view.scale))

\* Loading that has ended changes no page, whatever sections still arrive.
LEMMA LoadedStays == ASSUME LoadNext, phase = "done" PROVE UNCHANGED <<phase, pages>>
BY DEF LoadNext, Load, ReadTable, ReadStream, StreamDecoded, ChainEnds, BuildPages, Unpack,
       HybridDecoded, InChain

LEMMA DrawStep == PageInv /\ DrawInv /\ [Next]_pageVars => DrawInv'
<1> SUFFICES ASSUME PageInv, DrawInv, [Next]_pageVars, stage' = "rendering"
             PROVE  /\ phase' = "done" /\ view'.scale \in Scales
                    /\ OnPage(gs', stateStack', BaseTransform(pages'[view'.index], view'.scale))
  BY DEF DrawInv
<1>1. CASE Loading
  <2>1. UNCHANGED <<gs, stateStack, stage, view>> /\ LoadNext
    BY <1>1 DEF Loading, contentVars
  <2>2. UNCHANGED <<phase, pages>>
    BY <2>1, LoadedStays DEF DrawInv
  <2>3. QED
    BY <2>1, <2>2 DEF DrawInv
<1>2. CASE Drawing
  <2>1. PICK b : b = BaseTransform(pages[view.index], view.scale)
    OBVIOUS
  <2>2. /\ UNCHANGED <<phase, pages, stage, view>> /\ Interpret
        /\ OnPage(gs, stateStack, b) /\ StackInv
    BY <1>2, <2>1 DEF Drawing, docVars, DrawInv, PageInv
  <2>3. OnPage(gs', stateStack', b)
    BY <2>2, OperatorsOnPage
  <2>4. b = BaseTransform(pages'[view'.index], view'.scale)
    BY <2>1, <2>2
  <2>5. QED
    BY <2>2, <2>3, <2>4 DEF DrawInv
<1>3. CASE Transfer
  BY <1>3 DEF Transfer
<1>4. ASSUME NEW n \in DOMAIN pages, NEW scale \in Scales, Render(n, scale)
      PROVE  /\ phase' = "done" /\ view'.scale \in Scales
             /\ OnPage(gs', stateStack', BaseTransform(pages'[view'.index], view'.scale))
  <2>1. PICK b : b = BaseTransform(pages[n], scale)
    OBVIOUS
  <2>2. /\ phase' = "done" /\ pages' = pages /\ view' = [index |-> n, scale |-> scale]
        /\ stage = "loading"
        /\ \E code, res : Start(code, b, res)
    BY <1>4, <2>1 DEF Render, Run, docVars
  <2>3. gs'.ctm = <<b>> /\ stateStack' = stateStack /\ stateStack = <<>>
    BY <2>2 DEF Start, InitialState, PageInv
  <2>4. Placed(<<b>>, b)
    <3>1. <<b>> \in Seq({b}) /\ <<b>> # <<>> /\ Head(<<b>>) = b
      OBVIOUS
    <3>2. QED
      BY <3>1 DEF Placed, IsSeq
  <2>5. OnPage(gs', stateStack', b)
    BY <2>3, <2>4 DEF OnPage
  <2>6. QED
    BY <2>1, <2>2, <2>5
<1>5. CASE UNCHANGED pageVars
  BY <1>5 DEF pageVars, docVars, contentVars, DrawInv
<1>6. QED
  BY <1>1, <1>2, <1>3, <1>4, <1>5 DEF Next, Rendering

\* While a page is drawn its MediaBox fills the bitmap up to the rounding of
\* pagePixelSize (render.ts:26-27), on both axes, at every scale, whole or not, for
\* each rotation and origin, whatever the contents do with the transformation
\* (baseTransform).  The code takes the box's absolute width and height, but its
\* first corner for the lower left one: of a box the other way round nothing is
\* claimed.
THEOREM PagesFill == Spec => [](Upright(pages[view.index]) => PageFillsCanvas)
<1>1. PageInv /\ DrawInv => (Upright(pages[view.index]) => PageFillsCanvas)
  <2> SUFFICES ASSUME DrawInv, Upright(pages[view.index])
               PROVE  PageFillsCanvas
    OBVIOUS
  <2>1. CASE stage # "rendering"
    BY <2>1 DEF PageFillsCanvas
  <2>2. CASE stage = "rendering"
    <3>1. view.scale \in Nat \ {0}
      BY <2>2, PageAssumption DEF DrawInv
    <3>2. Head(gs.ctm) = BaseTransform(pages[view.index], view.scale)
      BY <2>2 DEF DrawInv, OnPage, Placed
    <3>3. Fills(pages[view.index], view.scale, Head(gs.ctm))
      BY <3>1, <3>2, CornersFill
    <3>4. QED
      BY <3>3 DEF PageFillsCanvas
  <2>3. QED
    BY <2>1, <2>2
<1>2. Init => DrawInv
  BY DEF Init, DrawInv
<1>3. QED
  BY PageInit, PageStep, DrawStep, <1>1, <1>2, PTL DEF Spec

-------------------------------------------------------------------------------
(* The load ends: each of its steps uses up something there is finitely much of. *)

\* What the load holds is finite, and what it decodes is a section.
LoadInv ==
    /\ file \in Files
    /\ phase \in {"chain", "decoding", "preload", "done"}
    /\ phase = "decoding" => IsSection(at)
    /\ IsFiniteSet(DOMAIN xref) /\ IsFiniteSet(DOMAIN groups)
    /\ IsFiniteSet(inflight) /\ inflight \subseteq DOMAIN file.sections

\* The entries of a section added to finitely many others.
LEMMA FiniteMerge ==
    ASSUME NEW known, IsFiniteSet(DOMAIN known), NEW section, IsFiniteSet(DOMAIN section.entries)
    PROVE  IsFiniteSet(DOMAIN MergeEntries(known, section))
<1>1. DOMAIN InUse(section) \subseteq DOMAIN section.entries
  BY DEF InUse
<1>2. IsFiniteSet(DOMAIN InUse(section))
  BY <1>1, FS_Subset
<1>3. DOMAIN MergeEntries(known, section) = DOMAIN known \cup DOMAIN InUse(section)
  BY DEF MergeEntries, Over
<1>4. QED
  BY <1>2, <1>3, FS_Union

\* The values of a function on a finite set.
LEMMA FiniteImage ==
    ASSUME NEW S, IsFiniteSet(S), NEW f
    PROVE  IsFiniteSet({f[x] : x \in S})
<1>1. PICK g : g = [x \in S |-> f[x]]
  OBVIOUS
<1>2. g \in Surjection(S, {f[x] : x \in S})
  BY <1>1 DEF Surjection
<1>3. QED
  BY <1>2, FS_Surjection

LEMMA FiniteGroups ==
    ASSUME NEW known, IsFiniteSet(DOMAIN known)
    PROVE  IsFiniteSet(DOMAIN Compressed(known))
<1>1. PICK in, f : /\ in = {m \in DOMAIN known : known[m].kind = "c"}
                   /\ f = [n \in in |-> known[n].stream]
  OBVIOUS
<1>2. IsFiniteSet(in)
  BY <1>1, FS_Subset
<1>3. IsFiniteSet({f[n] : n \in in})
  BY <1>2, FiniteImage
<1>4. DOMAIN Compressed(known) = {f[n] : n \in in}
  BY <1>1 DEF Compressed
<1>5. QED
  BY <1>3, <1>4

LEMMA FiniteScan ==
    ASSUME file \in Files, IsFiniteSet(DOMAIN xref)
    PROVE  IsFiniteSet(DOMAIN Rebuilt)
<1>1. PICK f : f = [i \in DOMAIN file.objects |-> file.objects[i].num]
  OBVIOUS
<1>2. IsFiniteSet({f[i] : i \in DOMAIN file.objects})
  BY FilesAssumption, FiniteImage
<1>3. DOMAIN Scanned = {f[i] : i \in DOMAIN file.objects}
  BY <1>1 DEF Scanned
<1>4. DOMAIN Rebuilt = DOMAIN Scanned \cup DOMAIN xref
  BY DEF Rebuilt, Over
<1>5. QED
  BY <1>2, <1>3, <1>4, FS_Union

LEMMA LoadSteps ==
    ASSUME LoadInv, LoadNext
    PROVE  LoadInv'
<1>1. /\ file' = file
      /\ \A offset \in DOMAIN file.sections : IsFiniteSet(DOMAIN file.sections[offset].entries)
  BY FilesAssumption DEF LoadInv, LoadNext, Load, ReadTable, ReadStream, StreamDecoded, ChainEnds,
     BuildPages, Unpack, HybridDecoded
<1>2. CASE ReadTable
  <2>1. PICK s, stm, own : /\ s = file.sections[at] /\ stm = file.sections[s.xrefStm]
                           /\ own = MergeEntries(xref, s)
    OBVIOUS
  <2>2. /\ IsSection(at) /\ UNCHANGED <<phase, groups>> /\ phase = "chain"
        /\ xref' \in {own, MergeEntries(own, stm)}
        /\ xref' # own => IsSection(s.xrefStm)
        /\ inflight' \in {inflight, inflight \cup {s.xrefStm}}
        /\ inflight' # inflight => IsSection(s.xrefStm)
    BY <1>2, <2>1 DEF ReadTable, InChain
  <2>3. IsFiniteSet(DOMAIN own)
    BY <1>1, <2>1, <2>2, FiniteMerge DEF LoadInv, IsSection
  <2>4. IsFiniteSet(DOMAIN xref')
    BY <1>1, <2>1, <2>2, <2>3, FiniteMerge DEF IsSection
  <2>5. IsFiniteSet(inflight') /\ inflight' \subseteq DOMAIN file.sections
    BY <2>2, FS_AddElement DEF LoadInv, IsSection
  <2>6. QED
    BY <1>1, <2>2, <2>4, <2>5 DEF LoadInv
<1>3. CASE ReadStream
  BY <1>3 DEF ReadStream, InChain, IsSection, LoadInv
<1>4. CASE StreamDecoded
  <2>1. /\ UNCHANGED <<groups, inflight>> /\ phase' = "chain" /\ IsSection(at)
        /\ xref' \in {xref, MergeEntries(xref, file.sections[at])}
    BY <1>4 DEF StreamDecoded, LoadInv
  <2>2. IsFiniteSet(DOMAIN xref')
    BY <1>1, <2>1, FiniteMerge DEF LoadInv, IsSection
  <2>3. QED
    BY <1>1, <2>1, <2>2 DEF LoadInv
<1>5. ASSUME NEW offset \in inflight, HybridDecoded(offset) PROVE LoadInv'
  <2>1. /\ UNCHANGED <<groups, phase, at>> /\ inflight' = inflight \ {offset}
        /\ xref' \in {xref, MergeEntries(xref, file.sections[offset])}
    BY <1>5 DEF HybridDecoded
  <2>2. IsFiniteSet(DOMAIN xref')
    BY <1>1, <2>1, FiniteMerge DEF LoadInv
  <2>3. IsFiniteSet(inflight')
    BY <2>1, FS_RemoveElement DEF LoadInv
  <2>4. QED
    BY <1>1, <2>1, <2>2, <2>3 DEF LoadInv, IsSection
<1>6. CASE ChainEnds
  <2>1. /\ UNCHANGED inflight /\ phase' \in {"preload", "done"}
        /\ xref' \in {Rebuilt, xref}
        /\ groups' \in {<<>>, Compressed(xref')}
    BY <1>6 DEF ChainEnds
  <2>2. IsFiniteSet(DOMAIN xref')
    BY <2>1, FiniteScan DEF LoadInv
  <2>3. DOMAIN <<>> = {}
    OBVIOUS
  <2>4. IsFiniteSet(DOMAIN groups')
    BY <2>1, <2>2, <2>3, FiniteGroups, FS_EmptySet
  <2>5. QED
    BY <1>1, <2>1, <2>2, <2>4 DEF LoadInv
<1>7. ASSUME NEW stream \in DOMAIN groups, Unpack(stream) PROVE LoadInv'
  <2>1. UNCHANGED <<xref, phase, at, inflight>> /\ DOMAIN groups' = DOMAIN groups \ {stream}
    BY <1>7 DEF Unpack
  <2>2. IsFiniteSet(DOMAIN groups')
    BY <2>1, FS_RemoveElement DEF LoadInv
  <2>3. QED
    BY <1>1, <2>1, <2>2 DEF LoadInv, IsSection
<1>8. CASE BuildPages
  BY <1>8 DEF BuildPages, LoadInv
<1>9. QED
  BY <1>2, <1>3, <1>4, <1>5, <1>6, <1>7, <1>8 DEF LoadNext, Load

\* What there is to count.
LEMMA Counts ==
    ASSUME NEW f \in Files, NEW seen, NEW awaited, IsFiniteSet(awaited), NEW left, IsFiniteSet(left)
    PROVE  /\ IsFiniteSet(DOMAIN f.sections \ seen)
           /\ Cardinality(DOMAIN f.sections \ seen) \in Nat
           /\ Cardinality(awaited) \in Nat /\ Cardinality(left) \in Nat
<1>1. IsFiniteSet(DOMAIN f.sections \ seen)
  BY FilesAssumption, FS_Subset
<1>2. QED
  BY <1>1, FS_CardinalityType

\* Marking a section that was not visited leaves one less to visit.
LEMMA Marked ==
    ASSUME LoadInv, InChain, UNCHANGED file, visited' = visited \cup {at}
    PROVE  Cardinality(DOMAIN file.sections \ visited)
             = Cardinality(DOMAIN file'.sections \ visited') + 1
<1>1. /\ at \in DOMAIN file.sections \ visited
      /\ DOMAIN file'.sections \ visited' = (DOMAIN file.sections \ visited) \ {at}
  BY DEF InChain, IsSection
<1>2. /\ IsFiniteSet(DOMAIN file.sections \ visited)
      /\ Cardinality(DOMAIN file.sections \ visited) \in Nat
  BY Counts DEF LoadInv
<1>3. Cardinality((DOMAIN file.sections \ visited) \ {at})
        = Cardinality(DOMAIN file.sections \ visited) - 1
  BY <1>1, <1>2, FS_RemoveElement
<1>4. Cardinality(DOMAIN file'.sections \ visited')
        = Cardinality((DOMAIN file.sections \ visited) \ {at})
  BY <1>1
<1>5. QED
  BY <1>2, <1>3, <1>4

LEMMA LoadProgress ==
    ASSUME LoadInv, LoadNext
    PROVE  \/ StagesAhead' < StagesAhead
           \/ StagesAhead' = StagesAhead /\ ToRead' \in 0 .. ToRead - 1
<1>1. LoadInv'
  BY LoadSteps
<1>2. /\ Cardinality(DOMAIN file.sections \ visited) \in Nat
      /\ Cardinality(inflight) \in Nat /\ Cardinality(DOMAIN groups) \in Nat /\ ToRead \in Nat
  <2>1. /\ Cardinality(DOMAIN file.sections \ visited) \in Nat
        /\ Cardinality(inflight) \in Nat /\ Cardinality(DOMAIN groups) \in Nat
    BY Counts DEF LoadInv
  <2>2. QED
    BY <2>1 DEF ToRead
<1>3. /\ Cardinality(DOMAIN file'.sections \ visited') \in Nat
      /\ Cardinality(inflight') \in Nat /\ Cardinality(DOMAIN groups') \in Nat /\ ToRead' \in Nat
  <2>1. /\ file' \in Files /\ IsFiniteSet(inflight') /\ IsFiniteSet(DOMAIN groups')
    BY <1>1 DEF LoadInv
  <2>2. /\ Cardinality(DOMAIN file'.sections \ visited') \in Nat
        /\ Cardinality(inflight') \in Nat /\ Cardinality(DOMAIN groups') \in Nat
    BY <2>1, Counts
  <2>3. QED
    BY <2>2 DEF ToRead
<1>4. /\ phase = "chain" \/ phase = "decoding" => StagesAhead = 2
      /\ phase = "preload" => StagesAhead = 1
      /\ phase = "done" => StagesAhead = 0
      /\ phase' = "chain" \/ phase' = "decoding" => StagesAhead' = 2
      /\ phase' = "preload" => StagesAhead' = 1
      /\ phase' = "done" => StagesAhead' = 0
  BY DEF StagesAhead
<1>5. CASE ReadTable
  <2>1. /\ InChain /\ phase = "chain" /\ UNCHANGED <<file, phase, groups>>
        /\ visited' = visited \cup {at}
        /\ \/ inflight' = inflight
           \/ inflight' = inflight \cup {file.sections[at].xrefStm}
    BY <1>5 DEF ReadTable, InChain
  <2>2. Cardinality(inflight') <= Cardinality(inflight) + 1
    <3>1. IsFiniteSet(inflight)
      BY DEF LoadInv
    <3>2. ASSUME NEW x PROVE Cardinality(inflight \cup {x}) <= Cardinality(inflight) + 1
      <4>1. Cardinality(inflight \cup {x})
              = IF x \in inflight THEN Cardinality(inflight) ELSE Cardinality(inflight) + 1
        BY <3>1, FS_AddElement
      <4>2. QED
        BY <1>2, <4>1
    <3>3. CASE inflight' = inflight
      BY <1>2, <3>3
    <3>4. CASE inflight' = inflight \cup {file.sections[at].xrefStm}
      BY <3>2, <3>4
    <3>5. QED
      BY <2>1, <3>3, <3>4
  <2>3. Cardinality(DOMAIN file.sections \ visited)
          = Cardinality(DOMAIN file'.sections \ visited') + 1
    BY <2>1, Marked
  <2>4. QED
    BY <1>2, <1>3, <1>4, <2>1, <2>2, <2>3 DEF ToRead
<1>6. CASE ReadStream
  <2>1. /\ InChain /\ phase = "chain" /\ phase' = "decoding"
        /\ UNCHANGED <<file, inflight, groups>> /\ visited' = visited \cup {at}
    BY <1>6 DEF ReadStream, InChain
  <2>2. Cardinality(DOMAIN file.sections \ visited)
          = Cardinality(DOMAIN file'.sections \ visited') + 1
    BY <2>1, Marked
  <2>3. QED
    BY <1>2, <1>3, <1>4, <2>1, <2>2 DEF ToRead
<1>7. CASE StreamDecoded
  <2>1. phase = "decoding" /\ phase' = "chain" /\ UNCHANGED <<file, visited, inflight, groups>>
    BY <1>7 DEF StreamDecoded
  <2>2. QED
    BY <1>2, <1>3, <1>4, <2>1 DEF ToRead
<1>8. ASSUME NEW offset \in inflight, HybridDecoded(offset)
      PROVE  StagesAhead' = StagesAhead /\ ToRead' \in 0 .. ToRead - 1
  <2>1. inflight' = inflight \ {offset} /\ UNCHANGED <<file, phase, visited, groups>>
    BY <1>8 DEF HybridDecoded
  <2>2. Cardinality(inflight') = Cardinality(inflight) - 1
    BY <2>1, FS_RemoveElement DEF LoadInv
  <2>3. StagesAhead' = StagesAhead
    BY <2>1 DEF StagesAhead
  <2>4. QED
    BY <1>2, <1>3, <2>1, <2>2, <2>3 DEF ToRead
<1>9. CASE ChainEnds
  <2>1. phase = "chain" /\ phase' \in {"preload", "done"}
    BY <1>9 DEF ChainEnds
  <2>2. QED
    BY <1>4, <2>1
<1>10. ASSUME NEW stream \in DOMAIN groups, Unpack(stream)
       PROVE  StagesAhead' = StagesAhead /\ ToRead' \in 0 .. ToRead - 1
  <2>1. /\ DOMAIN groups' = DOMAIN groups \ {stream}
        /\ UNCHANGED <<file, phase, visited, inflight>>
    BY <1>10 DEF Unpack
  <2>2. Cardinality(DOMAIN groups') = Cardinality(DOMAIN groups) - 1
    BY <2>1, FS_RemoveElement DEF LoadInv
  <2>3. StagesAhead' = StagesAhead
    BY <2>1 DEF StagesAhead
  <2>4. QED
    BY <1>2, <1>3, <2>1, <2>2, <2>3 DEF ToRead
<1>11. CASE BuildPages
  <2>1. phase = "preload" /\ phase' = "done"
    BY <1>11 DEF BuildPages
  <2>2. QED
    BY <1>4, <2>1
<1>12. QED
  BY <1>5, <1>6, <1>7, <1>8, <1>9, <1>10, <1>11 DEF LoadNext, Load

\* Each step of PdfDocument.load brings it nearer to its end, whatever the file: a
\* section is read once (the visited offsets of readXrefChain), a hybrid stream and a
\* group of objects leave for good, and no stage comes again.  So the load, which a
\* run sees end, has no way to go on for ever.
THEOREM LoadNearsItsEnd == Spec => LoadGetsOn
<1>1. Init => LoadInv
  <2> SUFFICES ASSUME LoadInit PROVE LoadInv
    BY DEF Init
  <2>1. DOMAIN <<>> = {}
    OBVIOUS
  <2>2. QED
    BY <2>1, FS_EmptySet DEF LoadInit, LoadInv
<1>2. LoadInv /\ [Next]_pageVars => LoadInv' /\ (LoadNext \/ UNCHANGED docVars)
  <2>1. [Next]_pageVars => LoadNext \/ UNCHANGED docVars
    BY DEF Next, Loading, Rendering, Drawing, Transfer, Render, pageVars
  <2>2. LoadInv /\ UNCHANGED docVars => LoadInv'
    BY DEF LoadInv, docVars, IsSection
  <2>3. QED
    BY <2>1, <2>2, LoadSteps
<1>3. LoadInv /\ [Next]_pageVars =>
        [\/ StagesAhead' < StagesAhead
         \/ StagesAhead' = StagesAhead /\ ToRead' \in 0 .. ToRead - 1]_docVars
  BY <1>2, LoadProgress
<1>4. QED
  BY <1>1, <1>2, <1>3, PTL DEF Spec, LoadGetsOn

-------------------------------------------------------------------------------
(* Positions of a sequence, one after the other. *)

\* A set of naturals that is not empty has a least element.
LEMMA Least ==
    ASSUME NEW T, T \subseteq Nat, T # {}
    PROVE  \E m \in T : \A k \in T : m <= k
<1>1. PICK R : R = OpToRel(<, Nat)
  OBVIOUS
<1>2. IsWellFoundedOn(R, Nat)
  BY <1>1, NatLessThanWellFounded
<1>3. PICK m \in T : \A k \in T : ~(<<k, m>> \in R)
  BY <1>2, WFMin
<1>4. ASSUME NEW j \in Nat, NEW k \in Nat, j < k PROVE <<j, k>> \in R
  BY <1>1, <1>4 DEF OpToRel
<1>5. ASSUME NEW k \in T PROVE m <= k
  <2>1. m \in Nat /\ k \in Nat /\ ~(k < m)
    BY <1>3, <1>4
  <2>2. QED
    BY <2>1
<1>6. QED
  BY <1>5

\* What holds of each position once it holds of those before.
LEMMA Successively ==
    ASSUME NEW n \in Nat, NEW H,
           \A i \in 1 .. n : (\A j \in 1 .. n : j < i => j \in H) => i \in H
    PROVE  1 .. n \subseteq H
<1> SUFFICES ASSUME (1 .. n) \ H # {} PROVE FALSE
  OBVIOUS
<1>1. PICK m \in (1 .. n) \ H : \A k \in (1 .. n) \ H : m <= k
  <2>1. (1 .. n) \ H \subseteq Nat
    OBVIOUS
  <2>2. QED
    BY <2>1, Least
<1>2. \A j \in 1 .. n : j < m => j \in H
  BY <1>1
<1>3. QED
  BY <1>1, <1>2

Bytes == 0 .. 255

\* A byte's difference to another, added to that one again.
LEMMA Wrapped ==
    ASSUME NEW a \in Bytes, NEW b \in Bytes
    PROVE  (((a - b) % 256) + b) % 256 = a
BY DEF Bytes

\* tiffPredictor2 (filters.ts:218-233) gives the components back of which a
\* producer wrote the differences.
LEMMA TiffUndone ==
    ASSUME NEW data \in Seq(Bytes), NEW colors \in Nat \ {0}, NEW rowLen \in Nat \ {0},
           Len(data) % rowLen = 0
    PROVE  TiffPredictor2(Writer!TiffRows(data, rowLen, colors), colors, rowLen) = data
<1>1. PICK n, enc : n = Len(data) /\ enc = Writer!TiffRows(data, rowLen, colors)
  OBVIOUS
<1>2. /\ n \in Nat /\ DOMAIN data = 1 .. n /\ \A i \in 1 .. n : data[i] \in Bytes
      /\ data = [i \in 1 .. n |-> data[i]]
  BY <1>1
<1>3. enc = [i \in 1 .. n |-> IF (i - 1) % rowLen < colors THEN data[i]
                              ELSE (data[i] - data[i - colors]) % 256]
  BY <1>1, <1>2 DEF Writer!TiffRows
<1>4. Len(enc) = n
  BY <1>2, <1>3
<1>5. ASSUME NEW i \in 1 .. n, ~((i - 1) % rowLen < colors) PROVE i - colors \in 1 .. n
  <2>1. (i - 1) % rowLen <= i - 1 /\ (i - 1) % rowLen \in Nat
    <3>1. PICK j \in Nat : j = i - 1
      BY <1>2
    <3>2. j % rowLen \in 0 .. rowLen - 1 /\ j % rowLen <= j
      BY Division
    <3>3. QED
      BY <3>1, <3>2
  <2>2. QED
    BY <1>2, <1>5, <2>1
<1>6. (n \div rowLen) * rowLen = n
  <2>1. n = rowLen * (n \div rowLen) + (n % rowLen) /\ n \div rowLen \in Nat
    BY <1>2, Division
  <2>2. QED
    BY <1>1, <1>2, <2>1
<1> DEFINE Undoes(out) ==
             out = [i \in 1 .. Len(enc) |->
                      IF i > (Len(enc) \div rowLen) * rowLen \/ (i - 1) % rowLen < colors THEN enc[i]
                      ELSE (enc[i] + out[i - colors]) % 256]
<1>7. ASSUME NEW i \in 1 .. n, ~((i - 1) % rowLen < colors)
      PROVE  (enc[i] + data[i - colors]) % 256 = data[i]
  <2>1. data[i] \in Bytes /\ data[i - colors] \in Bytes
    BY <1>2, <1>5, <1>7
  <2>2. enc[i] = (data[i] - data[i - colors]) % 256
    BY <1>3, <1>7
  <2>3. QED
    BY <2>1, <2>2, Wrapped
<1>8. Undoes(data)
  <2>1. ASSUME NEW i \in 1 .. n
        PROVE  data[i] = IF i > n \/ (i - 1) % rowLen < colors THEN enc[i]
                         ELSE (enc[i] + data[i - colors]) % 256
    <3>1. CASE (i - 1) % rowLen < colors
      BY <1>3, <3>1
    <3>2. CASE ~((i - 1) % rowLen < colors)
      <4>1. (enc[i] + data[i - colors]) % 256 = data[i]
        BY <1>7, <3>2
      <4>2. ~(i > n)
        BY <1>2
      <4> QED
        BY <3>2, <4>1, <4>2, Zenon
    <3>3. QED
      BY <3>1, <3>2
  <2>2. data = [i \in 1 .. n |-> IF i > n \/ (i - 1) % rowLen < colors THEN enc[i]
                                 ELSE (enc[i] + data[i - colors]) % 256]
    BY SMTT(30), <1>2, <2>1
  <2>3. QED
    BY <1>4, <1>6, <2>2
<1>9. PICK out : out = CHOOSE f : Undoes(f)
  OBVIOUS
<1>10. Undoes(out)
  <2> HIDE DEF Undoes
  <2>1. QED
    BY <1>8, <1>9
<1>11. TiffPredictor2(enc, colors, rowLen) = [i \in 1 .. n |-> out[i]]
  BY <1>4, <1>9 DEF TiffPredictor2
<1>12. ASSUME NEW i \in 1 .. n, \A j \in 1 .. n : j < i => out[j] = data[j]
       PROVE  out[i] = data[i]
  <2>1. out[i] = IF i > n \/ (i - 1) % rowLen < colors THEN enc[i]
                 ELSE (enc[i] + out[i - colors]) % 256
    <3>1. i \in 1 .. Len(enc)
      BY <1>4
    <3>2. out[i] = IF i > (Len(enc) \div rowLen) * rowLen \/ (i - 1) % rowLen < colors THEN enc[i]
                   ELSE (enc[i] + out[i - colors]) % 256
      BY <1>10, <3>1, Zenon
    <3>3. (Len(enc) \div rowLen) * rowLen = n
      BY <1>4, <1>6
    <3>4. QED
      BY <3>2, <3>3, Zenon
  <2>2. CASE (i - 1) % rowLen < colors
    BY <1>3, <2>1, <2>2
  <2>3. CASE ~((i - 1) % rowLen < colors)
    <3>1. i - colors \in 1 .. n /\ i - colors < i
      BY <1>2, <1>5, <2>3
    <3>2. out[i] = (enc[i] + out[i - colors]) % 256
      BY <1>2, <2>1, <2>3
    <3>3. QED
      BY <1>7, <1>12, <2>3, <3>1, <3>2
  <2>4. QED
    BY <2>2, <2>3
<1>13. \A i \in 1 .. n : out[i] = data[i]
  <2>1. PICK H : H = {i \in 1 .. n : out[i] = data[i]}
    OBVIOUS
  <2>2. \A i \in 1 .. n : (\A j \in 1 .. n : j < i => j \in H) => i \in H
    BY <1>12, <2>1
  <2>3. 1 .. n \subseteq H
    BY <1>2, <2>2, Successively
  <2>4. QED
    BY <2>1, <2>3
<1>14. QED
  BY <1>1, <1>2, <1>11, <1>13

-------------------------------------------------------------------------------
(* Rows of one length laid end to end. *)

Laid(rows, w, k) == [p \in 1 .. w * k |-> rows[((p - 1) \div w) + 1][((p - 1) % w) + 1]]

Rows(rows, S, n, w) == rows \in [1 .. n -> Seq(S)] /\ \A r \in 1 .. n : Len(rows[r]) = w

LEMMA InRow ==
    ASSUME NEW k \in Nat, NEW w \in Nat \ {0}, NEW i \in 1 .. w
    PROVE  /\ w * k + i \in Nat
           /\ ((w * k + i) - 1) \div w = k /\ ((w * k + i) - 1) % w = i - 1
<1>1. PICK r \in 0 .. w - 1 : r = i - 1
  OBVIOUS
<1>2. (w * k + r) \div w = k /\ (w * k + r) % w = r
  OBVIOUS
<1>3. (w * k + i) - 1 = w * k + r
  BY <1>1
<1>4. QED
  BY <1>1, <1>2, <1>3

\* Where the p-th element lies.
LEMMA RowOf ==
    ASSUME NEW k \in Nat, NEW w \in Nat \ {0}, NEW p \in 1 .. w * k
    PROVE  /\ ((p - 1) \div w) + 1 \in 1 .. k /\ ((p - 1) % w) + 1 \in 1 .. w
           /\ p = w * ((p - 1) \div w) + ((p - 1) % w) + 1
<1>1. PICK j \in Nat : j = p - 1
  OBVIOUS
<1>2. PICK q \in Nat, r \in 0 .. w - 1 : q = j \div w /\ r = j % w /\ j = w * q + r
  BY Division
<1>3. q < k
  <2>1. SUFFICES ASSUME q >= k PROVE FALSE
    BY <1>2
  <2>2. w * k \in Nat /\ w * q \in Nat /\ w * q < w * k
    BY <1>1, <1>2
  <2>3. PICK e \in Nat : q = k + e
    BY <1>2, <2>1
  <2>4. w * q = w * k + w * e /\ w * e >= 0
    BY <2>3
  <2>5. QED
    BY <2>2, <2>4
<1>4. QED
  BY <1>1, <1>2, <1>3

LaidWell(rows, S, w, k) ==
    /\ Laid(rows, w, k) \in Seq(S) /\ Len(Laid(rows, w, k)) = w * k /\ w * k \in Nat
    /\ \A r \in 1 .. k, i \in 1 .. w : /\ w * (r - 1) + i \in 1 .. w * k
                                       /\ Laid(rows, w, k)[w * (r - 1) + i] = rows[r][i]

LEMMA LaidSeq ==
    ASSUME NEW S, NEW n \in Nat, NEW w \in Nat \ {0}, NEW rows, Rows(rows, S, n, w)
    PROVE  \A k \in 0 .. n : LaidWell(rows, S, w, k)
<1> SUFFICES ASSUME NEW k \in 0 .. n PROVE LaidWell(rows, S, w, k)
  OBVIOUS
<1> USE DEF Rows
<1>1. w * k \in Nat
  OBVIOUS
<1>2. ASSUME NEW p \in 1 .. w * k
      PROVE  rows[((p - 1) \div w) + 1][((p - 1) % w) + 1] \in S
  <2>1. PICK r, i : r = ((p - 1) \div w) + 1 /\ i = ((p - 1) % w) + 1
    OBVIOUS
  <2>2. r \in 1 .. n /\ i \in 1 .. w
    <3>1. k \in Nat /\ k <= n
      OBVIOUS
    <3>2. r \in 1 .. k /\ i \in 1 .. w
      BY <2>1, <3>1, RowOf
    <3>3. QED
      BY <3>1, <3>2
  <2>3. rows[r] \in Seq(S) /\ Len(rows[r]) = w
    BY <2>2
  <2>4. rows[r][i] \in S
    BY <2>2, <2>3
  <2>5. QED
    BY <2>1, <2>4
<1>3. Laid(rows, w, k) \in Seq(S) /\ Len(Laid(rows, w, k)) = w * k
  BY <1>1, <1>2 DEF Laid
<1>4. ASSUME NEW r \in 1 .. k, NEW i \in 1 .. w
      PROVE  /\ w * (r - 1) + i \in 1 .. w * k
             /\ Laid(rows, w, k)[w * (r - 1) + i] = rows[r][i]
  <2>1. PICK j \in Nat : j = r - 1
    OBVIOUS
  <2>2. PICK p : p = w * j + i
    OBVIOUS
  <2>3. p \in Nat /\ (p - 1) \div w = j /\ (p - 1) % w = i - 1
    BY <2>2, InRow
  <2>4. p \in 1 .. w * k
    <3>1. PICK e \in Nat : k = j + 1 + e
      BY <2>1
    <3>2. PICK a \in Nat, b \in Nat : a = w * j /\ b = w * e
      OBVIOUS
    <3>3. w * k = a + w + b
      BY <3>1, <3>2
    <3>4. p = a + i
      BY <2>2, <3>2
    <3>5. QED
      BY <3>2, <3>3, <3>4
  <2>5. Laid(rows, w, k)[p] = rows[j + 1][(i - 1) + 1]
    BY <2>3, <2>4 DEF Laid
  <2>6. j + 1 = r /\ (i - 1) + 1 = i /\ w * (r - 1) + i = p
    BY <2>1, <2>2
  <2>7. QED
    BY <2>4, <2>5, <2>6
<1>5. QED
  BY <1>1, <1>3, <1>4 DEF LaidWell

\* One row more.
LaidOn(rows, w, k) == Laid(rows, w, k) = Laid(rows, w, k - 1) \o rows[k]

LEMMA LaidNext ==
    ASSUME NEW S, NEW n \in Nat, NEW w \in Nat \ {0}, NEW rows, Rows(rows, S, n, w)
    PROVE  \A k \in 1 .. n : LaidOn(rows, w, k)
<1> SUFFICES ASSUME NEW k \in 1 .. n PROVE Laid(rows, w, k) = Laid(rows, w, k - 1) \o rows[k]
  BY DEF LaidOn
<1>0. \A q \in 0 .. n : LaidWell(rows, S, w, q)
  BY LaidSeq
<1>1. PICK j \in 0 .. n : j = k - 1
  OBVIOUS
<1>2. PICK s, t, u : s = Laid(rows, w, j) /\ t = rows[k] /\ u = Laid(rows, w, k)
  OBVIOUS
<1>3. /\ s \in Seq(S) /\ Len(s) = w * j /\ t \in Seq(S) /\ Len(t) = w
      /\ u \in Seq(S) /\ Len(u) = w * k /\ w * j \in Nat /\ w * k = w * j + w
  <2>1. j \in 0 .. n /\ k \in 0 .. n /\ k = j + 1
    BY <1>1
  <2>2. s \in Seq(S) /\ Len(s) = w * j /\ w * j \in Nat
    BY <1>0, <1>2, <2>1 DEF LaidWell
  <2>3. u \in Seq(S) /\ Len(u) = w * k
    BY <1>0, <1>2, <2>1 DEF LaidWell
  <2>4. t \in Seq(S) /\ Len(t) = w
    BY <1>2 DEF Rows
  <2>5. w * k = w * j + w
    BY <2>1
  <2>6. QED
    BY <2>2, <2>3, <2>4, <2>5
<1> PICK m \in Nat : m = w * j
  BY <1>3
<1>4. s \o t \in Seq(S) /\ Len(s \o t) = Len(u) /\ Len(s) = m /\ w * k = m + w
  <2>1. Len(s) = m /\ w * k = m + w /\ Len(u) = m + w
    BY <1>3
  <2>2. s \o t \in Seq(S) /\ Len(s \o t) = Len(s) + Len(t)
    <3>1. s \in Seq(S) /\ t \in Seq(S)
      BY <1>3
    <3>2. QED
      BY <3>1
  <2>3. QED
    BY <1>3, <2>1, <2>2
<1>5. ASSUME NEW p \in 1 .. m + w PROVE u[p] = (s \o t)[p]
  <2>1. CASE p <= m
    <3>1. p \in 1 .. m
      BY <2>1
    <3>2. p \in 1 .. w * j /\ p \in 1 .. w * k
      BY <1>4, <3>1
    <3>3. s[p] = u[p]
      BY <1>2, <3>2 DEF Laid
    <3>4. (s \o t)[p] = s[p]
      BY <1>3, <1>4, <3>1
    <3>5. QED
      BY <3>3, <3>4
  <2>2. CASE ~(p <= m)
    <3>1. PICK i \in 1 .. w : p = m + i
      <4>1. p - m \in 1 .. w /\ p = m + (p - m)
        BY <2>2
      <4>2. QED
        BY <4>1
    <3>2. (s \o t)[p] = t[i]
      BY <1>3, <1>4, <3>1
    <3>3. k \in 0 .. n /\ k \in 1 .. k
      OBVIOUS
    <3>4. u[w * (k - 1) + i] = rows[k][i]
      BY <1>0, <1>2, <3>3 DEF LaidWell
    <3>5. w * (k - 1) + i = p
      BY <1>1, <3>1
    <3>6. QED
      BY <1>2, <3>2, <3>4, <3>5
  <2>3. QED
    BY <2>1, <2>2
<1>6. u = s \o t
  <2>1. \A p \in 1 .. Len(u) : u[p] = (s \o t)[p]
    BY <1>3, <1>4, <1>5
  <2>2. QED
    BY <1>3, <1>4, <2>1, SeqEqual
<1>7. QED
  BY <1>1, <1>2, <1>6

LEMMA RowsFlattened ==
    ASSUME NEW S, NEW n \in Nat, NEW w \in Nat \ {0}, NEW rows, Rows(rows, S, n, w)
    PROVE  FlattenSeq(rows) = Laid(rows, w, n)
<1>1. Len(rows) = n /\ rows \in Seq(Seq(S))
  BY LenProperties DEF Rows
<1>0. \A q \in 0 .. n : LaidWell(rows, S, w, q)
  BY LaidSeq
<1>2. CASE n = 0
  <2>1. FlattenSeq(rows) = rows
    BY <1>1, <1>2 DEF FlattenSeq
  <2>2. rows \in Seq(Seq(S)) /\ Len(rows) = 0
    BY <1>1, <1>2
  <2>3. Laid(rows, w, n) \in Seq(S) /\ Len(Laid(rows, w, n)) = 0
    <3>1. Laid(rows, w, n) \in Seq(S) /\ Len(Laid(rows, w, n)) = w * n
      <4>1. n \in 0 .. n
        OBVIOUS
      <4>2. QED
        BY <4>1, <1>0 DEF LaidWell
    <3>2. w * n = 0
      BY <1>2
    <3>3. QED
      BY <3>1, <3>2
  <2>4. QED
    BY <2>1, <2>2, <2>3, EmptySeq
<1>3. CASE n # 0
  <2> DEFINE Joins(g) == g = [k \in 1 .. Len(rows) |-> IF k = 1 THEN rows[k] ELSE g[k - 1] \o rows[k]]
  <2>1. PICK g : g = [k \in 1 .. n |-> Laid(rows, w, k)]
    OBVIOUS
  <2>a. \A k \in 1 .. n : LaidOn(rows, w, k)
    BY LaidNext
  <2>2. ASSUME NEW k \in 1 .. n
        PROVE  Laid(rows, w, k) = IF k = 1 THEN rows[k] ELSE Laid(rows, w, k - 1) \o rows[k]
    <3>1. Laid(rows, w, k) = Laid(rows, w, k - 1) \o rows[k]
      BY <2>a DEF LaidOn
    <3>2. CASE k = 1
      <4>1. Laid(rows, w, 0) \in Seq(S) /\ Len(Laid(rows, w, 0)) = 0 /\ rows[k] \in Seq(S)
        <5>1. 0 \in 0 .. n /\ w * 0 = 0
          OBVIOUS
        <5>2. Laid(rows, w, 0) \in Seq(S) /\ Len(Laid(rows, w, 0)) = w * 0
          BY <5>1, <1>0 DEF LaidWell
        <5>3. QED
          BY <5>1, <5>2 DEF Rows
      <4>2. Laid(rows, w, k - 1) = <<>>
        BY <3>2, <4>1, EmptySeq
      <4>3. QED
        BY <3>1, <3>2, <4>1, <4>2
    <3>3. QED
      BY <3>1, <3>2
  <2>3. ASSUME NEW k \in 1 .. n
        PROVE  g[k] = IF k = 1 THEN rows[k] ELSE g[k - 1] \o rows[k]
    <3>1. k # 1 => k - 1 \in 1 .. n
      OBVIOUS
    <3>2. QED
      BY <2>1, <2>2, <3>1
  <2>4. Joins(g)
    BY <1>1, <2>1, <2>3
  <2>5. PICK f : f = CHOOSE h : Joins(h)
    OBVIOUS
  <2>6. Joins(f)
    <3> HIDE DEF Joins
    <3>1. QED
      BY <2>4, <2>5
  <2>7. FlattenSeq(rows) = f[n]
    BY <1>1, <1>3, <2>5 DEF FlattenSeq
  <2>8. ASSUME NEW k \in 1 .. n, \A j \in 1 .. n : j < k => f[j] = g[j]
        PROVE  f[k] = g[k]
    <3>1. f[k] = IF k = 1 THEN rows[k] ELSE f[k - 1] \o rows[k]
      BY <1>1, <2>6
    <3>2. k # 1 => k - 1 \in 1 .. n /\ k - 1 < k
      OBVIOUS
    <3>3. QED
      BY <2>3, <2>8, <3>1, <3>2
  <2>9. PICK H : H = {k \in 1 .. n : f[k] = g[k]}
    OBVIOUS
  <2>10. 1 .. n \subseteq H
    <3>1. \A k \in 1 .. n : (\A j \in 1 .. n : j < k => j \in H) => k \in H
      BY <2>8, <2>9
    <3>2. QED
      BY <3>1, Successively
  <2>11. QED
    BY <1>3, <2>1, <2>7, <2>9, <2>10
<1>4. QED
  BY <1>2, <1>3

-------------------------------------------------------------------------------
(* The five PNG filters. *)

LEMMA PredictedByte ==
    ASSUME NEW f, NEW a \in Bytes, NEW b \in Bytes, NEW c \in Bytes
    PROVE  Predicted(f, a, b, c) \in Bytes
<1>1. Paeth(a, b, c) \in Bytes
  BY DEF Paeth
<1>2. (a + b) \div 2 \in Bytes /\ 0 \in Bytes
  BY DEF Bytes
<1>3. QED
  BY <1>1, <1>2 DEF Predicted

\* What a producer subtracts, from the bytes to the left, above and above left.
Guess(f, a, b, c) ==
    LET far(x) == IF x > a + b - c THEN x - (a + b - c) ELSE (a + b - c) - x
        nearest == IF far(a) <= far(b) /\ far(a) <= far(c) THEN a ELSE IF far(b) <= far(c) THEN b ELSE c
    IN CASE f = 0 -> 0
         [] f = 1 -> a
         [] f = 2 -> b
         [] f = 3 -> (a + b) \div 2
         [] f = 4 -> nearest

LEMMA GuessedAlike ==
    ASSUME NEW f \in 0 .. 4, NEW a \in Bytes, NEW b \in Bytes, NEW c \in Bytes
    PROVE  Guess(f, a, b, c) = Predicted(f, a, b, c)
<1>1. CASE f = 4
  <2>1. ASSUME NEW x \in Bytes
        PROVE  (IF x > a + b - c THEN x - (a + b - c) ELSE (a + b - c) - x) = Abs((a + b - c) - x)
    BY <2>1 DEF Abs, Bytes
  <2>2. Predicted(f, a, b, c) = Paeth(a, b, c)
    BY <1>1 DEF Predicted
  <2>3. Guess(f, a, b, c) = Paeth(a, b, c)
    BY <1>1, <2>1 DEF Guess, Paeth
  <2>4. QED
    BY <2>2, <2>3
<1>2. CASE f # 4
  BY <1>2 DEF Guess, Predicted
<1>3. QED
  BY <1>1, <1>2

\* A row behind its filter.
Behind(raw, f, old, prev, bpp, w) ==
    raw = [i \in 1 .. w |->
             (old[i] - Predicted(f, IF i > bpp THEN old[i - bpp] ELSE 0, prev[i],
                                    IF i > bpp THEN prev[i - bpp] ELSE 0)) % 256]

\* A row is read as it was before its filter, given the row above.
LEMMA RowUndone ==
    ASSUME NEW w \in Nat, NEW bpp \in Nat \ {0}, NEW f,
           NEW old \in [1 .. w -> Bytes], NEW prev \in [1 .. w -> Bytes], NEW raw,
           Behind(raw, f, old, prev, bpp, w)
    PROVE  PngRow(f, raw, prev, bpp) = old
<1>1. Len(raw) = w
  BY DEF Behind
<1> DEFINE Undoes(cur) ==
             cur = [i \in 1 .. Len(raw) |->
                      LET a == IF i > bpp THEN cur[i - bpp] ELSE 0
                          c == IF i > bpp THEN prev[i - bpp] ELSE 0
                      IN (raw[i] + Predicted(f, a, prev[i], c)) % 256]
<1>2. ASSUME NEW i \in 1 .. w
      PROVE  (raw[i] + Predicted(f, IF i > bpp THEN old[i - bpp] ELSE 0, prev[i],
                                    IF i > bpp THEN prev[i - bpp] ELSE 0)) % 256 = old[i]
  <2>1. PICK a, c : /\ a = IF i > bpp THEN old[i - bpp] ELSE 0
                    /\ c = IF i > bpp THEN prev[i - bpp] ELSE 0
    OBVIOUS
  <2>2. a \in Bytes /\ c \in Bytes /\ old[i] \in Bytes /\ prev[i] \in Bytes
    <3>1. i > bpp => i - bpp \in 1 .. w
      OBVIOUS
    <3>2. 0 \in Bytes
      BY DEF Bytes
    <3>3. QED
      BY <2>1, <3>1, <3>2
  <2>3. PICK p \in Bytes : p = Predicted(f, a, prev[i], c)
    BY <2>2, PredictedByte
  <2>4. raw[i] = (old[i] - p) % 256
    BY <2>1, <2>3 DEF Behind
  <2>5. (raw[i] + p) % 256 = old[i]
    BY <2>2, <2>3, <2>4, Wrapped
  <2>6. QED
    BY <2>1, <2>3, <2>5
<1>3. Undoes(old)
  <2>1. old = [i \in 1 .. w |-> (raw[i] + Predicted(f, IF i > bpp THEN old[i - bpp] ELSE 0, prev[i],
                                    IF i > bpp THEN prev[i - bpp] ELSE 0)) % 256]
    BY <1>2
  <2>2. QED
    BY <1>1, <2>1
<1>4. PICK cur : cur = CHOOSE g : Undoes(g)
  OBVIOUS
<1>5. Undoes(cur)
  <2> HIDE DEF Undoes
  <2>1. QED
    BY <1>3, <1>4
<1>6. PngRow(f, raw, prev, bpp) = [i \in 1 .. w |-> cur[i]]
  BY <1>1, <1>4 DEF PngRow
<1>7. ASSUME NEW i \in 1 .. w, \A j \in 1 .. w : j < i => cur[j] = old[j]
      PROVE  cur[i] = old[i]
  <2>1. cur[i] = (raw[i] + Predicted(f, IF i > bpp THEN cur[i - bpp] ELSE 0, prev[i],
                                    IF i > bpp THEN prev[i - bpp] ELSE 0)) % 256
    <3>1. i \in 1 .. Len(raw)
      BY <1>1
    <3>2. QED
      BY <1>5, <3>1, Zenon
  <2>2. (IF i > bpp THEN cur[i - bpp] ELSE 0) = (IF i > bpp THEN old[i - bpp] ELSE 0)
    <3>1. i > bpp => i - bpp \in 1 .. w /\ i - bpp < i
      OBVIOUS
    <3>2. QED
      BY <1>7, <3>1
  <2>3. QED
    BY <1>2, <2>1, <2>2
<1>8. \A i \in 1 .. w : cur[i] = old[i]
  <2>1. PICK H : H = {i \in 1 .. w : cur[i] = old[i]}
    OBVIOUS
  <2>2. \A i \in 1 .. w : (\A j \in 1 .. w : j < i => j \in H) => i \in H
    BY <1>7, <2>1
  <2>3. 1 .. w \subseteq H
    BY <2>2, Successively
  <2>4. QED
    BY <2>1, <2>3
<1>9. QED
  BY <1>6, <1>8

-------------------------------------------------------------------------------
(* A whole image of filtered rows. *)

Cell(data, w, r, i) == IF r < 1 \/ i < 1 THEN 0 ELSE data[(r - 1) * w + i]

\* A row as the producer filters it, without its filter byte.
Filtered(data, w, bpp, filter, r) ==
    [i \in 1 .. w |-> (Cell(data, w, r, i)
                        - Guess(filter[r], Cell(data, w, r, i - bpp), Cell(data, w, r - 1, i),
                                Cell(data, w, r - 1, i - bpp))) % 256]

LEMMA Producer ==
    ASSUME NEW data, NEW w, NEW bpp, NEW filter
    PROVE  Writer!PngRows(data, w, bpp, filter)
             = FlattenSeq([r \in 1 .. Len(data) \div w |->
                             <<filter[r]>> \o Filtered(data, w, bpp, filter, r)])
BY Zenon DEF Writer!PngRows, Filtered, Cell, Guess, Writer!FlattenSeq, FlattenSeq

\* The bytes of a row, and zeros above the first one.
Bare(data, w, r) == [i \in 1 .. w |-> Cell(data, w, r, i)]

\* pngPredictor (filters.ts:170-207) gives the rows back that a producer
\* filtered, whatever filter each row has.
LEMMA PngUndone ==
    ASSUME NEW data \in Seq(Bytes), NEW w \in Nat \ {0}, NEW bpp \in Nat \ {0},
           Len(data) % w = 0, NEW filter \in [1 .. Len(data) \div w -> 0 .. 4]
    PROVE  PngPredictor(Writer!PngRows(data, w, bpp, filter), w, bpp) = data
<1>1. PICK n, enc : n = Len(data) \div w /\ enc = Writer!PngRows(data, w, bpp, filter)
  OBVIOUS
<1>2. n \in Nat /\ Len(data) = w * n /\ DOMAIN data = 1 .. w * n /\ filter \in [1 .. n -> 0 .. 4]
  <2>1. Len(data) = w * n + (Len(data) % w) /\ n \in Nat /\ Len(data) \in Nat
    <3>1. PICK l \in Nat : l = Len(data)
      OBVIOUS
    <3>2. l \div w \in Nat /\ l = w * (l \div w) + (l % w)
      BY Division
    <3>3. QED
      BY <1>1, <3>1, <3>2
  <2>2. w * n \in Nat
    BY <2>1
  <2>3. Len(data) = w * n
    BY <2>1, <2>2
  <2>4. DOMAIN data = 1 .. Len(data)
    OBVIOUS
  <2>5. filter \in [1 .. n -> 0 .. 4]
    BY <1>1
  <2>6. QED
    BY <2>1, <2>3, <2>4, <2>5, Zenon
<1>3. ASSUME NEW r \in 1 .. n, NEW i \in 1 .. w PROVE (r - 1) * w + i \in 1 .. w * n
  <2>1. PICK j \in Nat, e \in Nat : j = r - 1 /\ n = j + 1 + e
    <3>1. r - 1 \in Nat /\ n - r \in Nat /\ n = (r - 1) + 1 + (n - r)
      BY <1>2
    <3>2. QED
      BY <3>1
  <2>2. PICK a \in Nat, b \in Nat : a = w * j /\ b = w * e
    OBVIOUS
  <2>3. w * n = a + w + b /\ (r - 1) * w + i = a + i
    BY <2>1, <2>2
  <2>4. QED
    BY <2>2, <2>3
<1>4. ASSUME NEW r \in 0 .. n PROVE Bare(data, w, r) \in [1 .. w -> Bytes]
  <2>1. ASSUME NEW i \in 1 .. w PROVE Cell(data, w, r, i) \in Bytes
    <3>1. CASE r = 0
      BY <3>1 DEF Cell, Bytes
    <3>2. CASE r # 0
      <4>1. r \in 1 .. n /\ ~(r < 1) /\ ~(i < 1)
        BY <3>2
      <4>2. data[(r - 1) * w + i] \in Bytes
        BY <1>2, <1>3, <4>1
      <4>3. QED
        BY <4>1, <4>2 DEF Cell
    <3>3. QED
      BY <3>1, <3>2
  <2>2. QED
    BY <2>1 DEF Bare
<1>5. ASSUME NEW r \in 1 .. n
      PROVE  /\ Filtered(data, w, bpp, filter, r) \in [1 .. w -> Nat]
             /\ PngRow(filter[r], Filtered(data, w, bpp, filter, r), Bare(data, w, r - 1), bpp)
                  = Bare(data, w, r)
  <2>1. PICK f, old, prev, raw :
             /\ f = filter[r] /\ old = Bare(data, w, r) /\ prev = Bare(data, w, r - 1)
             /\ raw = Filtered(data, w, bpp, filter, r)
    OBVIOUS
  <2>2. f \in 0 .. 4 /\ old \in [1 .. w -> Bytes] /\ prev \in [1 .. w -> Bytes]
    <3>1. r \in 0 .. n /\ r - 1 \in 0 .. n
      BY <1>2
    <3>2. QED
      BY <1>2, <1>4, <2>1, <3>1
  <2>3. ASSUME NEW i \in 1 .. w
        PROVE  raw[i] = (old[i] - Predicted(f, IF i > bpp THEN old[i - bpp] ELSE 0, prev[i],
                                               IF i > bpp THEN prev[i - bpp] ELSE 0)) % 256
    <3>1. PICK a, c : a = Cell(data, w, r, i - bpp) /\ c = Cell(data, w, r - 1, i - bpp)
      OBVIOUS
    <3>2. /\ a = IF i > bpp THEN old[i - bpp] ELSE 0
          /\ c = IF i > bpp THEN prev[i - bpp] ELSE 0
      <4>1. CASE i > bpp
        <5>1. i - bpp \in 1 .. w
          BY <4>1
        <5>2. old[i - bpp] = a /\ prev[i - bpp] = c
          BY <2>1, <3>1, <5>1 DEF Bare
        <5>3. QED
          BY <4>1, <5>2
      <4>2. CASE ~(i > bpp)
        <5>1. i - bpp < 1
          BY <4>2
        <5>2. a = 0 /\ c = 0
          BY <3>1, <5>1 DEF Cell
        <5>3. QED
          BY <4>2, <5>2
      <4>3. QED
        BY <4>1, <4>2
    <3>3. a \in Bytes /\ c \in Bytes /\ prev[i] \in Bytes
      <4>1. i > bpp => i - bpp \in 1 .. w
        OBVIOUS
      <4>2. 0 \in Bytes
        BY DEF Bytes
      <4>3. QED
        BY <2>2, <3>2, <4>1, <4>2
    <3>4. raw[i] = (old[i] - Guess(f, a, prev[i], c)) % 256
      BY <2>1, <3>1 DEF Filtered, Bare
    <3>5. Guess(f, a, prev[i], c) = Predicted(f, a, prev[i], c)
      BY <2>2, <3>3, GuessedAlike
    <3>6. QED
      BY <3>2, <3>4, <3>5
  <2>4. Behind(raw, f, old, prev, bpp, w)
    <3>1. raw = [i \in 1 .. w |-> raw[i]]
      BY <2>1 DEF Filtered
    <3>2. QED
      BY <2>3, <3>1 DEF Behind
  <2>5. PngRow(f, raw, prev, bpp) = old
    BY <2>2, <2>4, RowUndone
  <2>6. raw \in [1 .. w -> Nat]
    <3>1. ASSUME NEW i \in 1 .. w PROVE raw[i] \in Nat
      <4>1. PICK p \in Int : p = Predicted(f, IF i > bpp THEN old[i - bpp] ELSE 0, prev[i],
                                              IF i > bpp THEN prev[i - bpp] ELSE 0)
        <5>1. i > bpp => i - bpp \in 1 .. w
          OBVIOUS
        <5>2. 0 \in Bytes /\ Bytes \subseteq Int
          BY DEF Bytes
        <5>3. PICK a, c : /\ a = IF i > bpp THEN old[i - bpp] ELSE 0
                          /\ c = IF i > bpp THEN prev[i - bpp] ELSE 0
          OBVIOUS
        <5>4. a \in Bytes /\ c \in Bytes /\ prev[i] \in Bytes
          BY <2>2, <5>1, <5>2, <5>3
        <5>5. Predicted(f, a, prev[i], c) \in Bytes
          BY <5>4, PredictedByte
        <5>6. QED
          BY <5>2, <5>3, <5>5
      <4>2. old[i] \in Int
        <5>1. old[i] \in Bytes
          BY <2>2
        <5>2. PICK x \in Bytes : x = old[i]
          BY <5>1
        <5>3. x \in Int
          BY DEF Bytes
        <5>4. QED
          BY <5>2, <5>3
      <4>3. raw[i] = (old[i] - p) % 256
        BY <2>3, <4>1
      <4>4. QED
        BY <4>1, <4>2, <4>3
    <3>2. QED
      BY <2>4, <3>1 DEF Behind
  <2>7. QED
    BY <2>1, <2>5, <2>6
<1>6. PICK rows : rows = [r \in 1 .. n |-> <<filter[r]>> \o Filtered(data, w, bpp, filter, r)]
  OBVIOUS
<1>7. /\ w + 1 \in Nat \ {0}
      /\ Rows(rows, Nat, n, w + 1)
      /\ \A r \in 1 .. n : rows[r] = <<filter[r]>> \o Filtered(data, w, bpp, filter, r)
  <2>1. ASSUME NEW r \in 1 .. n PROVE rows[r] \in Seq(Nat) /\ Len(rows[r]) = w + 1
    <3>1. PICK s, t : s = <<filter[r]>> /\ t = Filtered(data, w, bpp, filter, r)
      OBVIOUS
    <3>2. s \in Seq(Nat) /\ Len(s) = 1
      <4>1. filter[r] \in Nat
        BY <1>2
      <4>2. QED
        BY <3>1, <4>1
    <3>3. t \in Seq(Nat) /\ Len(t) = w
      BY <1>5, <3>1
    <3>4. s \o t \in Seq(Nat) /\ Len(s \o t) = Len(s) + Len(t)
      <4>1. s \in Seq(Nat) /\ t \in Seq(Nat)
        BY <3>2, <3>3
      <4>2. QED
        BY <4>1
    <3>5. QED
      BY <1>6, <3>1, <3>2, <3>3, <3>4
  <2>2. QED
    BY <1>6, <2>1 DEF Rows
<1>8. enc = Laid(rows, w + 1, n)
  <2>1. enc = FlattenSeq(rows)
    BY <1>1, <1>6, Producer
  <2>2. QED
    BY <1>2, <1>7, <2>1, RowsFlattened
<1>9. LaidWell(rows, Nat, w + 1, n)
  <2>1. \A k \in 0 .. n : LaidWell(rows, Nat, w + 1, k)
    BY <1>2, <1>7, LaidSeq
  <2>2. QED
    BY <1>2, <2>1
<1>10. Len(enc) \div (w + 1) = n
  <2>1. Len(enc) = (w + 1) * n
    BY <1>8, <1>9 DEF LaidWell
  <2>2. ((w + 1) * n) \div (w + 1) = n
    <3>1. PICK d \in Nat \ {0} : d = w + 1
      BY <1>7
    <3>2. 1 \in 1 .. d /\ ((d * n + 1) - 1) \div d = n
      BY <1>2, <3>1, InRow
    <3>3. (d * n + 1) - 1 = d * n
      BY <1>2, <3>1
    <3>4. QED
      BY <3>1, <3>2, <3>3
  <2>3. QED
    BY <2>1, <2>2
\* Where each filtered row lies in the encoded image.
<1>11. ASSUME NEW r \in 1 .. n
       PROVE  LET from == (r - 1) * (w + 1) + 1
              IN /\ enc[from] = filter[r]
                 /\ SubSeq(enc, from + 1, from + w) = Filtered(data, w, bpp, filter, r)
  <2>1. PICK m, from : m = (w + 1) * (r - 1) /\ from = m + 1
    OBVIOUS
  <2>2. m \in Nat /\ from \in Nat /\ from = (r - 1) * (w + 1) + 1
    <3>1. PICK j \in Nat : j = r - 1
      OBVIOUS
    <3>2. (w + 1) * j \in Nat /\ (w + 1) * j = j * (w + 1)
      BY <1>7
    <3>3. QED
      BY <2>1, <3>1, <3>2
  <2>3. \A i \in 1 .. w + 1 : m + i \in 1 .. (w + 1) * n /\ enc[m + i] = rows[r][i]
    BY <1>2, <1>8, <1>9, <2>1 DEF LaidWell
  <2>4. PICK t : t = Filtered(data, w, bpp, filter, r)
    OBVIOUS
  <2>5. t \in [1 .. w -> Nat] /\ rows[r] = <<filter[r]>> \o t /\ t \in Seq(Nat) /\ Len(t) = w
    <3>1. t \in [1 .. w -> Nat] /\ rows[r] = <<filter[r]>> \o t
      BY <1>5, <1>7, <2>4
    <3>2. t \in Seq(Nat) /\ Len(t) = w
      BY <3>1
    <3>3. QED
      BY <3>1, <3>2
  <2>6. rows[r][1] = filter[r] /\ \A i \in 1 .. w : rows[r][i + 1] = t[i]
    <3>1. PICK f \in Nat : f = filter[r]
      BY <1>2
    <3>2. \A i \in 1 .. w : (<<f>> \o t)[i + 1] = t[i]
      BY <2>5, <3>1
    <3>3. (<<f>> \o t)[1] = f
      BY <2>5, <3>1
    <3>4. QED
      BY <2>5, <3>1, <3>2, <3>3, Zenon
  <2>7. enc[from] = filter[r]
    <3>1. 1 \in 1 .. w + 1
      OBVIOUS
    <3>2. QED
      BY <2>1, <2>3, <2>6, <3>1
  <2>8. \A i \in 1 .. w : enc[from + i] = t[i]
    <3>1. ASSUME NEW i \in 1 .. w PROVE enc[from + i] = t[i]
      <4>1. i + 1 \in 1 .. w + 1 /\ m + (i + 1) = from + i
        BY <2>1, <2>2
      <4>2. QED
        BY <2>3, <2>6, <4>1
    <3>2. QED
      BY <3>1
  <2>9. SubSeq(enc, from + 1, from + w) = t
    <3>1. SubSeq(enc, from + 1, from + w) = [i \in 1 .. w |-> enc[from + i]]
      <4>1. SubSeq(enc, from + 1, from + w) = [i \in 1 .. ((from + w) - (from + 1)) + 1 |-> enc[i + (from + 1) - 1]]
        BY <2>2
      <4>2. ((from + w) - (from + 1)) + 1 = w /\ \A i \in 1 .. w : i + (from + 1) - 1 = from + i
        BY <2>2
      <4>3. QED
        BY <4>1, <4>2
    <3>2. t = [i \in 1 .. w |-> t[i]]
      BY <2>5
    <3>3. QED
      BY <2>8, <3>1, <3>2
  <2>10. QED
    BY <2>2, <2>4, <2>7, <2>9
<1> DEFINE Reads(row) ==
             row = [r \in 0 .. Len(enc) \div (w + 1) |->
                      IF r = 0 THEN [i \in 1 .. w |-> 0]
                      ELSE PngRow(enc[(r - 1) * (w + 1) + 1],
                                  SubSeq(enc, (r - 1) * (w + 1) + 1 + 1, (r - 1) * (w + 1) + 1 + w),
                                  row[r - 1], bpp)]
<1>12. ASSUME NEW r \in 0 .. n
       PROVE  Bare(data, w, r) =
                IF r = 0 THEN [i \in 1 .. w |-> 0]
                ELSE PngRow(enc[(r - 1) * (w + 1) + 1],
                            SubSeq(enc, (r - 1) * (w + 1) + 1 + 1, (r - 1) * (w + 1) + 1 + w),
                            Bare(data, w, r - 1), bpp)
  <2>1. CASE r = 0
    BY <2>1 DEF Bare, Cell
  <2>2. CASE r # 0
    <3>1. r \in 1 .. n
      BY <2>2
    <3>2. /\ enc[(r - 1) * (w + 1) + 1] = filter[r]
          /\ SubSeq(enc, (r - 1) * (w + 1) + 1 + 1, (r - 1) * (w + 1) + 1 + w)
               = Filtered(data, w, bpp, filter, r)
      BY <1>11, <3>1, Zenon
    <3>3. QED
      BY <1>5, <2>2, <3>1, <3>2
  <2>3. QED
    BY <2>1, <2>2
<1>13. PICK bare : bare = [r \in 0 .. n |-> Bare(data, w, r)]
  OBVIOUS
<1>14. ASSUME NEW r \in 0 .. n
       PROVE  bare[r] = IF r = 0 THEN [i \in 1 .. w |-> 0]
                        ELSE PngRow(enc[(r - 1) * (w + 1) + 1],
                                    SubSeq(enc, (r - 1) * (w + 1) + 1 + 1, (r - 1) * (w + 1) + 1 + w),
                                    bare[r - 1], bpp)
  <2>1. r # 0 => r - 1 \in 0 .. n
    BY <1>2
  <2>2. bare[r] = Bare(data, w, r) /\ (r # 0 => bare[r - 1] = Bare(data, w, r - 1))
    BY <1>13, <2>1
  <2>3. QED
    BY <1>12, <2>2
<1>15. Reads(bare)
  <2>1. bare = [r \in 0 .. n |-> bare[r]]
    BY <1>13
  <2>2. QED
    BY <1>10, <1>14, <2>1
<1>16. PICK row : row = CHOOSE g : Reads(g)
  OBVIOUS
<1>17. Reads(row)
  <2> HIDE DEF Reads
  <2>1. QED
    BY <1>15, <1>16
<1>18. PngPredictor(enc, w, bpp) = FlattenSeq([r \in 1 .. n |-> row[r]])
  <2>1. PngPredictor(enc, w, bpp) = FlattenSeq([r \in 1 .. Len(enc) \div (w + 1) |-> row[r]])
    BY <1>16 DEF PngPredictor
  <2>2. QED
    BY <1>10, <2>1, Zenon
<1>19. ASSUME NEW r \in 0 .. n, \A j \in 0 .. n : j < r => row[j] = bare[j]
       PROVE  row[r] = bare[r]
  <2>1. row[r] = IF r = 0 THEN [i \in 1 .. w |-> 0]
                 ELSE PngRow(enc[(r - 1) * (w + 1) + 1],
                             SubSeq(enc, (r - 1) * (w + 1) + 1 + 1, (r - 1) * (w + 1) + 1 + w),
                             row[r - 1], bpp)
    <3>1. r \in 0 .. Len(enc) \div (w + 1)
      BY <1>10
    <3>2. QED
      BY <1>17, <3>1, Zenon
  <2>2. r # 0 => r - 1 \in 0 .. n /\ r - 1 < r
    BY <1>2
  <2>3. r # 0 => row[r - 1] = bare[r - 1]
    BY <1>19, <2>2
  <2>4. QED
    BY <1>14, <2>1, <2>3
<1>20. \A r \in 1 .. n : row[r] = bare[r]
  <2>1. PICK H : H = {r \in 1 .. n : row[r] = bare[r]}
    OBVIOUS
  <2>2. row[0] = bare[0]
    <3>1. 0 \in 0 .. n /\ \A j \in 0 .. n : ~(j < 0)
      BY <1>2
    <3>2. QED
      BY <1>19, <3>1
  <2>3. ASSUME NEW r \in 1 .. n, \A j \in 1 .. n : j < r => j \in H PROVE r \in H
    <3>1. r \in 0 .. n /\ \A j \in 0 .. n : j = 0 \/ j \in 1 .. n
      BY <1>2
    <3>2. \A j \in 0 .. n : j < r => row[j] = bare[j]
      BY <2>1, <2>2, <2>3, <3>1
    <3>3. QED
      BY <1>19, <2>1, <3>1, <3>2
  <2>4. \A r \in 1 .. n : (\A j \in 1 .. n : j < r => j \in H) => r \in H
    BY <2>3
  <2>5. 1 .. n \subseteq H
    BY ZenonT(30), <1>2, <2>4, Successively
  <2>6. QED
    BY <2>1, <2>5
<1>21. PICK out : out = [r \in 1 .. n |-> row[r]]
  OBVIOUS
<1>22. Rows(out, Bytes, n, w) /\ \A r \in 1 .. n : out[r] = Bare(data, w, r)
  <2>1. ASSUME NEW r \in 1 .. n
        PROVE  out[r] = Bare(data, w, r) /\ out[r] \in Seq(Bytes) /\ Len(out[r]) = w
    <3>1. r \in 0 .. n
      BY <1>2
    <3>2. out[r] = Bare(data, w, r)
      BY <1>13, <1>20, <1>21, <3>1
    <3>3. Bare(data, w, r) \in [1 .. w -> Bytes]
      BY <1>4, <3>1
    <3>4. QED
      BY <3>2, <3>3
  <2>2. QED
    BY <1>21, <2>1 DEF Rows
<1>23. FlattenSeq(out) = Laid(out, w, n)
  BY <1>2, <1>22, RowsFlattened
<1>24. ASSUME NEW p \in 1 .. w * n PROVE out[((p - 1) \div w) + 1][((p - 1) % w) + 1] = data[p]
  <2>1. PICK r, i : r = ((p - 1) \div w) + 1 /\ i = ((p - 1) % w) + 1
    OBVIOUS
  <2>2. r \in 1 .. n /\ i \in 1 .. w /\ p = w * ((p - 1) \div w) + ((p - 1) % w) + 1
    <3>1. /\ ((p - 1) \div w) + 1 \in 1 .. n /\ ((p - 1) % w) + 1 \in 1 .. w
          /\ p = w * ((p - 1) \div w) + ((p - 1) % w) + 1
      BY SMTT(30), <1>2, RowOf
    <3>2. QED
      BY <2>1, <3>1, Zenon
  <2>3. out[r][i] = data[(r - 1) * w + i]
    <3>1. ~(r < 1) /\ ~(i < 1)
      BY <2>2
    <3>2. QED
      <4>1. out[r] = Bare(data, w, r)
        BY <1>22, <2>2
      <4>2. Bare(data, w, r)[i] = Cell(data, w, r, i)
        BY <2>2 DEF Bare
      <4>3. QED
        BY <3>1, <4>1, <4>2 DEF Cell
  <2>4. (r - 1) * w + i = p
    <3>1. PICK q \in Nat, e \in Nat : q = (p - 1) \div w /\ e = (p - 1) % w
      <4>1. r - 1 \in Nat /\ i - 1 \in Nat /\ p \in Nat
        BY <1>2, <2>2
      <4>2. PICK q, e : q = (p - 1) \div w /\ e = (p - 1) % w
        OBVIOUS
      <4>3. q \in Nat /\ e \in Nat
        <5>1. PICK j \in Nat : j = p - 1
          BY <4>1
        <5>2. j \div w \in Nat /\ j % w \in 0 .. w - 1
          BY <5>1, Division
        <5>3. QED
          BY <4>2, <5>1, <5>2
      <4>4. QED
        BY <4>2, <4>3
    <3>2. r - 1 = q /\ i = e + 1 /\ p = w * q + e + 1
      BY <2>1, <2>2, <3>1
    <3>3. PICK m \in Nat : m = w * q /\ m = q * w
      OBVIOUS
    <3>4. (r - 1) * w + i = m + i
      BY <3>2, <3>3
    <3>5. p = m + e + 1 /\ i = e + 1
      <4>1. p = w * q + e + 1 /\ i = e + 1 /\ w * q = m
        BY <3>2, <3>3
      <4>2. QED
        BY <4>1, Zenon
    <3>6. QED
      BY SMTT(30), <3>1, <3>3, <3>4, <3>5
  <2>5. QED
    BY <2>1, <2>3, <2>4
<1>25. Laid(out, w, n) = data
  <2>1. data = [p \in 1 .. w * n |-> data[p]]
    BY <1>2
  <2>2. QED
    BY <1>24, <2>1 DEF Laid
<1>26. QED
  BY <1>1, <1>18, <1>21, <1>23, <1>25

-------------------------------------------------------------------------------
(* The predictors together. *)

LEMMA WholeBytes ==
    ASSUME NEW bits \in Nat \ {0}
    PROVE  /\ BytesFor(bits) \in Nat \ {0} /\ BytesFor(8 * bits) = bits
           /\ Max({1, BytesFor(bits)}) = BytesFor(bits)
<1>1. BytesFor(bits) \in Nat \ {0} /\ BytesFor(8 * bits) = bits
  BY DEF BytesFor
<1>2. QED
  BY <1>1, AtLeastOne

\* applyPredictor (filters.ts:146-168) loses nothing: an image of whole rows of
\* bytes comes back as it was before the producer's predictor, for every number
\* of components, bits and columns, with the PNG predictors (10 and above),
\* whichever of the five filters each row has, and with the TIFF predictor (2) if
\* components are bytes: what that one did to others stays (filters.ts:221).
THEOREM PredictorsUndone ==
    ASSUME NEW data \in Seq(Bytes), NEW colors \in Nat \ {0}, NEW bpc \in Nat \ {0},
           NEW columns \in Nat \ {0}, NEW early, NEW predictor \in Nat,
           Len(data) % BytesFor(colors * bpc * columns) = 0,
           NEW filter \in [1 .. Len(data) \div BytesFor(colors * bpc * columns) -> 0 .. 4]
    PROVE  LET p == [predictor |-> predictor, colors |-> colors, bpc |-> bpc, columns |-> columns,
                     early |-> early]
               row == BytesFor(colors * bpc * columns)
               pixel == BytesFor(colors * bpc)
           IN /\ predictor = 2 /\ bpc = 8 => ApplyPredictor(Writer!TiffRows(data, row, colors), p) = data
              /\ predictor > 2 => ApplyPredictor(Writer!PngRows(data, row, pixel, filter), p) = data
<1>1. PICK k \in Nat \ {0} : k = colors * bpc
  OBVIOUS
<1>2. PICK w \in Nat \ {0}, b \in Nat \ {0} : w = BytesFor(k * columns) /\ b = BytesFor(k)
  <2>1. k * columns \in Nat \ {0}
    OBVIOUS
  <2>2. QED
    BY <2>1, WholeBytes
<1>3. PICK p : p = [predictor |-> predictor, colors |-> colors, bpc |-> bpc, columns |-> columns,
                    early |-> early]
  OBVIOUS
<1>4. /\ p.predictor = predictor /\ p.colors = colors /\ p.bpc = bpc
      /\ BytesFor(p.colors * p.bpc * p.columns) = w /\ ~(w <= 0)
      /\ Max({1, BytesFor(p.colors * p.bpc)}) = b
  <2>1. p.colors = colors /\ p.bpc = bpc /\ p.columns = columns /\ p.predictor = predictor
    BY <1>3
  <2>2. Max({1, BytesFor(k)}) = BytesFor(k)
    BY WholeBytes
  <2>3. BytesFor(p.colors * p.bpc * p.columns) = w /\ BytesFor(p.colors * p.bpc) = b
    BY <1>1, <1>2, <2>1
  <2>4. QED
    BY <1>1, <1>2, <2>1, <2>2, <2>3
<1>5. Len(data) % w = 0 /\ filter \in [1 .. Len(data) \div w -> 0 .. 4]
  BY <1>1, <1>2, Zenon
<1>6. ASSUME predictor = 2, bpc = 8 PROVE ApplyPredictor(Writer!TiffRows(data, w, colors), p) = data
  <2>1. TiffPredictor2(Writer!TiffRows(data, w, colors), colors, w) = data
    BY <1>5, TiffUndone
  <2>2. ~(predictor <= 1)
    BY <1>6
  <2>3. QED
    BY <1>4, <1>6, <2>1, <2>2, Zenon DEF ApplyPredictor
<1>7. ASSUME predictor > 2 PROVE ApplyPredictor(Writer!PngRows(data, w, b, filter), p) = data
  <2>1. PngPredictor(Writer!PngRows(data, w, b, filter), w, b) = data
    BY <1>5, PngUndone
  <2>2. ~(predictor <= 1) /\ predictor # 2
    BY <1>7
  <2>3. QED
    BY <1>4, <2>1, <2>2, Zenon DEF ApplyPredictor
<1>8. QED
  BY <1>1, <1>2, <1>3, <1>6, <1>7, Zenon

===============================================================================
