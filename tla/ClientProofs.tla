----------------------------- MODULE ClientProofs -----------------------------
(* Theorems about Client for any rows, page size and number of composers:     *)
(* which microphones may be open, whatever sends, edits and prompts overlap;  *)
(* which sends clear a draft; that the loaded pages tile the history, however *)
(* answers and messages interleave; and the types.                            *)
EXTENDS Client, TLAPS, WellFoundedInduction, FiniteSetTheorems, SequenceTheorems

\* Composers that are gone have had their stream stopped, but for those left
\* while the browser was asking; those to come have none.
MicInv ==
    /\ gen \in 0 .. MaxGen
    /\ mic \in [Gens -> {"off", "asking", "on"}]
    /\ open => gen \in Gens
    /\ \A g \in Gens : g > gen => mic[g] = "off"
    /\ \A g \in Gens : mic[g] = "asking" => \/ open /\ g = gen /\ status = "requesting"
                                            \/ g \in left
    /\ MicUnderControl

\* A step that touches neither composers nor recorders keeps the invariant.
LEMMA Elsewhere ==
    ASSUME MicInv, UNCHANGED <<open, gen, status, mic, left>>
    PROVE  MicInv'
BY DEF MicInv, MicUnderControl, Microphone, Gens

\* Unmounting a composer and mounting the next one keeps the invariant.
LEMMA Remounted ==
    ASSUME MicInv, NEW target, SelectEdit(target), open, open' = open
    PROVE  MicInv'
<1>1. CASE target = edit
  BY <1>1, Elsewhere DEF SelectEdit, recorder
<1>2. CASE target # edit
  <2>a. gen \in Gens /\ gen # 0
    BY MaxGenAssumption DEF MicInv, Gens
  <2>b. /\ mic' = [mic EXCEPT ![gen] = Torndown(mic[gen])]
        /\ left' = IF mic[gen] = "asking" THEN left \cup {gen} ELSE left
    BY <1>2, <2>a DEF SelectEdit, Unmount
  <2>c. gen < MaxGen /\ gen' = gen + 1 /\ status' = "idle"
    BY <1>2 DEF SelectEdit, Mount
  <2>1. /\ mic' = [mic EXCEPT ![gen] = Torndown(mic[gen])]
        /\ left' = IF mic[gen] = "asking" THEN left \cup {gen} ELSE left
        /\ gen < MaxGen /\ gen' = gen + 1 /\ status' = "idle" /\ gen \in Gens
    BY <2>a, <2>b, <2>c
  <2>2. /\ gen' \in 0 .. MaxGen /\ gen' \in Gens
        /\ mic' \in [Gens -> {"off", "asking", "on"}]
    BY <2>1, MaxGenAssumption DEF MicInv, Gens, Torndown
  <2>3. ASSUME NEW g \in Gens
        PROVE  /\ g > gen' => mic'[g] = "off"
               /\ mic'[g] \in {"asking", "on"} => g \in left'
    BY <2>1, MaxGenAssumption DEF MicInv, MicUnderControl, Gens, Torndown
  <2>4. gen' > gen /\ mic'[gen'] = "off"
    BY <2>1, <2>2, MaxGenAssumption DEF MicInv, Gens
  <2>5. open' => mic'[gen'] \in Microphone(status')
    BY <2>1, <2>4 DEF Microphone
  <2>6. QED
    BY <2>2, <2>3, <2>5 DEF MicInv, MicUnderControl
<1>3. QED
  BY <1>1, <1>2

\* The end of a send keeps the invariant.
LEMMA SendEnded ==
    ASSUME MicInv, NEW s, NEW done, End(s, done), open' = open
    PROVE  MicInv'
<1>1. CASE done /\ s.kind = "edit" /\ open /\ s.gen >= first /\ edit # None
  BY <1>1, Remounted DEF End
<1>2. CASE ~(done /\ s.kind = "edit" /\ open /\ s.gen >= first /\ edit # None)
  BY <1>2, Elsewhere DEF End, recorder
<1>3. QED
  BY <1>1, <1>2

LEMMA MicInit == Init => MicInv
<1>1. Init => /\ gen = 0 /\ open = FALSE /\ status = "idle"
              /\ mic = [g \in Gens |-> "off"] /\ left = {}
  BY DEF Init, CacheInit
<1>2. QED
  BY <1>1, MaxGenAssumption DEF MicInv, MicUnderControl, Microphone, Gens

LEMMA MicStep == MicInv /\ [Next]_vars => MicInv'
<1> SUFFICES ASSUME MicInv, [Next]_vars PROVE MicInv'
  OBVIOUS
<1> USE DEF cacheVars, page, composer, recorder
<1>1. CASE UNCHANGED vars
  BY <1>1, Elsewhere DEF vars
<1>2. CASE Input
  <2>1. ASSUME NEW i \in Ids, Post(i) /\ Others PROVE MicInv'
    BY <2>1, Elsewhere DEF Post, Others
  <2>2. ASSUME NEW i \in Ids, Reply(i) PROVE MicInv'
    BY <2>2, Remounted DEF Reply
  <2>3. ASSUME NEW i \in Ids, Edit(i) PROVE MicInv'
    BY <2>3, Remounted DEF Edit
  <2>4. CASE (Disconnect \/ LoadEarlier \/ ComeOnline) /\ Others
    BY <2>4, Elsewhere DEF Disconnect, LoadEarlier, ComeOnline, Others
  <2>5. CASE Open
    <3>1. /\ ~open /\ open' /\ mic' = mic /\ left' = left
          /\ gen < MaxGen /\ gen' = gen + 1 /\ status' = "idle"
      BY <2>5 DEF Open, OpenChannel, Mount
    <3>2. QED
      BY <3>1, MaxGenAssumption DEF MicInv, MicUnderControl, Microphone, Gens
  <2>6. CASE Close
    <3>1. /\ open /\ ~open' /\ gen' = gen /\ gen \in Gens
          /\ mic' = [mic EXCEPT ![gen] = Torndown(mic[gen])]
          /\ left' = IF mic[gen] = "asking" THEN left \cup {gen} ELSE left
      BY <2>6, MaxGenAssumption DEF Close, CloseChannel, Unmount, MicInv, Gens
    <3>2. ASSUME NEW g \in Gens
          PROVE  /\ g > gen' => mic'[g] = "off"
                 /\ mic'[g] \in {"off", "asking", "on"}
                 /\ mic'[g] \in {"asking", "on"} => g \in left'
      BY <3>1, MaxGenAssumption DEF MicInv, MicUnderControl, Gens, Torndown
    <3>3. mic' \in [Gens -> {"off", "asking", "on"}]
      BY <3>1, <3>2 DEF MicInv
    <3>4. QED
      BY <3>1, <3>2, <3>3 DEF MicInv, MicUnderControl
  <2>7. CASE CancelReply
    BY <2>7, Elsewhere DEF CancelReply
  <2>8. CASE CancelEdit
    BY <2>8, Remounted DEF CancelEdit
  <2>9. ASSUME NEW t, Type(t) PROVE MicInv'
    BY <2>9, Elsewhere DEF Type
  <2>10. CASE ToggleFile \/ ClickSend
    BY <2>10, Elsewhere DEF ToggleFile, ClickSend
  <2>11. CASE StartRecording
    <3>1. /\ open /\ open' = open /\ gen' = gen /\ left' = left
          /\ status \in {"idle", "error"} /\ status' = "requesting"
          /\ mic' = [mic EXCEPT ![gen] = "asking"] /\ gen \in Gens
      BY <2>11 DEF StartRecording, MicInv
    <3>2. QED
      BY <3>1 DEF MicInv, MicUnderControl, Microphone, Gens
  <2>12. CASE StopRecording \/ CancelRecording
    BY <2>12, Elsewhere DEF StopRecording, CancelRecording
  <2>13. QED
    BY <1>2, <2>1, <2>2, <2>3, <2>4, <2>5, <2>6, <2>7, <2>8, <2>9, <2>10, <2>11,
       <2>12 DEF Input
<1>3. CASE Answer
  <2>1. CASE (Reconnect \/ Hear) /\ Others
    BY <2>1, Elsewhere DEF Reconnect, Hear, Others
  <2>2. CASE (ServeHistory \/ EarlierArrives \/ PageArrives \/ FetchFails) /\ Others
    BY <2>2, Elsewhere DEF ServeHistory, EarlierArrives, PageArrives, FetchFails,
                           Others
  <2>3. ASSUME NEW s \in sends, Upload(s) PROVE MicInv'
    BY <2>3, Elsewhere DEF Upload
  <2>4. ASSUME NEW s \in sends, UploadFails(s) PROVE MicInv'
    BY <2>4, SendEnded DEF UploadFails
  <2>5. ASSUME NEW s \in sends, Emit(s) PROVE MicInv'
    BY <2>5, Elsewhere DEF Emit
  <2>6. ASSUME NEW s \in sends, Acknowledged(s) PROVE MicInv'
    BY <2>6, SendEnded DEF Acknowledged
  <2>7. ASSUME NEW g \in 1 .. gen, Granted(g) PROVE MicInv'
    <3>1. /\ open' = open /\ gen' = gen /\ left' = left /\ g \in Gens
          /\ mic[g] = "asking" /\ mic' = [mic EXCEPT ![g] = "on"]
          /\ status' = status \/ (open /\ g = gen /\ status' = "recording")
      BY <2>7, MaxGenAssumption DEF Granted, MicInv, Gens
    <3>2. open /\ g = gen => status = "requesting"
      BY <3>1 DEF MicInv, MicUnderControl, Microphone
    <3>3. ASSUME NEW h \in Gens
          PROVE  /\ mic'[h] = "asking" => \/ open' /\ h = gen' /\ status' = "requesting"
                                          \/ h \in left'
                 /\ mic'[h] = "on" => (open' /\ h = gen') \/ h \in left'
      BY <3>1 DEF MicInv, MicUnderControl
    <3>4. open' => mic'[gen'] \in Microphone(status')
      BY <3>1, <3>2 DEF MicInv, MicUnderControl, Microphone
    <3>5. QED
      BY <3>1, <3>3, <3>4 DEF MicInv, MicUnderControl, Gens
  <2>8. ASSUME NEW g \in 1 .. gen, Denied(g) PROVE MicInv'
    <3>1. /\ open' = open /\ gen' = gen /\ left' = left /\ g \in Gens
          /\ mic[g] = "asking" /\ mic' = [mic EXCEPT ![g] = "off"]
          /\ status' = IF open /\ g = gen THEN "error" ELSE status
      BY <2>8, MaxGenAssumption DEF Denied, MicInv, Gens
    <3>2. QED
      BY <3>1 DEF MicInv, MicUnderControl, Microphone, Gens
  <2>9. CASE Stopped
    <3>1. /\ open /\ open' = open /\ gen' = gen /\ left' = left /\ gen \in Gens
          /\ mic' = [mic EXCEPT ![gen] = "off"] /\ status' = "idle"
      BY <2>9 DEF Stopped, MicInv
    <3>2. QED
      BY <3>1 DEF MicInv, MicUnderControl, Microphone, Gens
  <2>10. QED
    BY <1>3, <2>1, <2>2, <2>3, <2>4, <2>5, <2>6, <2>7, <2>8, <2>9 DEF Answer
<1>4. QED
  BY <1>1, <1>2, <1>3 DEF Next

\* For any number of composers a microphone is open only for the mounted one, or if
\* its composer was left while the browser was asking; and the mounted composer's
\* status says whether its microphone is open, also when MediaRecorder threw, so
\* that no second one is opened over it.
THEOREM MicrophoneUnderControl == Spec => []MicUnderControl
<1>1. MicInv => MicUnderControl
  BY DEF MicInv
<1>2. QED
  BY MicInit, MicStep, <1>1, PTL DEF Spec
-------------------------------------------------------------------------------
(* What a composer sends. A draft is cleared by the end of the send that took *)
(* it, which may come after a remount, a new click or more typing.            *)

Contents == Typed \cup {"", "original"}

Sends == [gen   : Gens,
          kind  : {"text", "edit", "clip"},
          text  : Contents,
          edit  : Ids \cup {None},
          reply : Ids \cup {None},
          step  : {"presign", "put", "emit", "ack"}]

\* What is sent is what a composer held, of this composer or an older one.
SendsInv ==
    /\ sends \subseteq Sends
    /\ \A s \in sends : s.gen <= gen
    /\ edit \in Ids \cup {None}
    /\ reply \in Ids \cup {None}
    /\ text \in Contents

\* The mounted composer has one send at a time, and is busy while it has.
OneSend ==
    open => \A s \in sends : s.gen = gen => /\ sending
                                            /\ \A t \in sends : t.gen = gen => t = s

\* A clip on its way to the composer's effect finds it idle.
ClipInv ==
    /\ left \subseteq 1 .. gen
    /\ open => gen \notin left
    /\ stopping => status = "recording"
    /\ open /\ stopping /\ ~cancelled => ~sending

\* Until the user writes on, what is sent is what the composer holds.
DraftInv ==
    open /\ ~over => \A s \in sends : s.gen = gen /\ s.kind # "clip" => s.text = text

ComposerInv == SendsInv /\ OneSend /\ ClipInv /\ DraftInv

\* A step that touches neither composers nor sends keeps the invariant.
LEMMA NotComposer ==
    ASSUME ComposerInv,
           reply' \in Ids \cup {None},
           UNCHANGED <<open, gen, edit, text, sending, over, sends, status,
                       stopping, cancelled, left>>
    PROVE  ComposerInv'
BY DEF ComposerInv, SendsInv, OneSend, ClipInv, DraftInv

LEMMA Generation ==
    ASSUME MicInv
    PROVE  gen \in Nat
BY MaxGenAssumption DEF MicInv

\* A fresh composer keeps the invariant, whatever sends are in flight: they
\* belong to older composers then.
LEMMA FreshComposer ==
    ASSUME ComposerInv, gen \in Nat, gen' = gen + 1,
           text' \in Contents, stopping' = FALSE, left' \subseteq 1 .. gen,
           edit' \in Ids \cup {None}, reply' \in Ids \cup {None},
           sends' \subseteq sends
    PROVE  ComposerInv'
<1>1. ASSUME NEW s \in sends' PROVE s \in Sends /\ s.gen \in Int /\ s.gen < gen'
  <2>1. s \in Sends /\ s.gen <= gen
    BY <1>1 DEF ComposerInv, SendsInv
  <2>2. s.gen \in Int
    BY <2>1, MaxGenAssumption DEF Sends, Gens
  <2>3. QED
    BY <2>1, <2>2
<1>2. SendsInv'
  <2>1. \A s \in sends' : s.gen <= gen'
    BY <1>1
  <2>2. QED
    BY <1>1, <2>1 DEF SendsInv
<1>3. OneSend' /\ DraftInv'
  BY <1>1 DEF OneSend, DraftInv
<1>4. ClipInv'
  <2>1. left' \subseteq 1 .. gen' /\ gen' \notin left'
    OBVIOUS
  <2>2. QED
    BY <2>1 DEF ClipInv
<1>5. QED
  BY <1>2, <1>3, <1>4 DEF ComposerInv

\* Leaving an edit, or choosing one, remounts the composer.
LEMMA Remount ==
    ASSUME ComposerInv, MicInv, NEW target \in Ids \cup {None}, SelectEdit(target),
           target # edit, open, reply' \in Ids \cup {None}, sends' \subseteq sends
    PROVE  ComposerInv'
<1>1. gen \in Gens /\ gen # 0 /\ gen \in Nat
  BY MaxGenAssumption DEF MicInv, Gens
<1>2. /\ edit' = target /\ gen' = gen + 1
      /\ text' \in Contents /\ stopping' = FALSE
      /\ left' \subseteq left \cup {gen}
  BY <1>1 DEF SelectEdit, Unmount, Mount, Contents
<1>3. left' \subseteq 1 .. gen
  BY <1>1, <1>2, MaxGenAssumption DEF ComposerInv, ClipInv, Gens
<1>4. QED
  BY <1>1, <1>2, <1>3, FreshComposer

\* Selecting the message that is being edited already does not remount.
LEMMA Selected ==
    ASSUME ComposerInv, MicInv, NEW target \in Ids \cup {None}, SelectEdit(target),
           open, open' = open, reply' \in Ids \cup {None}, sends' = sends
    PROVE  ComposerInv'
<1>1. CASE target = edit
  BY <1>1, NotComposer DEF SelectEdit, recorder
<1>2. CASE target # edit
  BY <1>2, Remount
<1>3. QED
  BY <1>1, <1>2

\* A send that gets on stays the send of its composer.
LEMMA SendMoved ==
    ASSUME ComposerInv, MicInv, NEW s \in sends,
           NEW step \in {"presign", "put", "emit", "ack"}, sends' = Moved(s, step),
           UNCHANGED <<open, gen, edit, reply, text, sending, over, status, stopping,
                       cancelled, left>>
    PROVE  ComposerInv'
<1>1. PICK m : m = [s EXCEPT !.step = step]
  OBVIOUS
<1>2. s \in Sends
  BY DEF ComposerInv, SendsInv
<1>3. m \in Sends /\ m.gen = s.gen /\ m.kind = s.kind /\ m.text = s.text
  BY <1>1, <1>2 DEF Sends
<1>4. sends' = (sends \ {s}) \cup {m}
  BY <1>1 DEF Moved
<1>5. SendsInv'
  BY <1>3, <1>4 DEF ComposerInv, SendsInv
<1>6. OneSend'
  <2> SUFFICES ASSUME open', NEW t \in sends', t.gen = gen'
               PROVE  sending' /\ \A u \in sends' : u.gen = gen' => u = t
    BY DEF OneSend
  <2>1. PICK t0 \in sends : t0.gen = gen /\ (t = m => t0 = s) /\ (t # m => t0 = t)
    BY <1>3, <1>4
  <2>2. sending /\ \A u \in sends : u.gen = gen => u = t0
    BY <2>1 DEF ComposerInv, OneSend
  <2>3. ASSUME NEW u \in sends', u.gen = gen' PROVE u = t
    BY <1>3, <1>4, <2>1, <2>2, <2>3
  <2>4. QED
    BY <2>2, <2>3
<1>7. ClipInv' /\ DraftInv'
  BY <1>3, <1>4 DEF ComposerInv, ClipInv, DraftInv
<1>8. QED
  BY <1>5, <1>6, <1>7 DEF ComposerInv

\* The end of a send keeps the invariant: the composer it was sent from, if it
\* is still mounted, has no other one in flight and may take a new click.
LEMMA ComposerAfterEnd ==
    ASSUME ComposerInv, MicInv, NEW s \in sends, NEW done, End(s, done),
           open' = open
    PROVE  ComposerInv'
<1> DEFINE here == open /\ s.gen = gen
           leaves == done /\ s.kind = "edit" /\ open /\ s.gen >= first /\ edit # None
<1>1. sends' = sends \ {s}
  BY DEF End
<1>2. CASE leaves
  <2>1. SelectEdit(None) /\ reply' = reply
    BY <1>2 DEF End
  <2>2. QED
    BY <1>1, <1>2, <2>1, Remount DEF ComposerInv, SendsInv
<1>3. CASE ~leaves
  <2>1. /\ sending' = IF here THEN FALSE ELSE sending
        /\ text' # text => here
        /\ text' \in {text, ""}
        /\ reply' \in {reply, None}
        /\ UNCHANGED <<gen, edit, over, status, stopping, cancelled, left>>
    BY <1>3 DEF End, recorder
  <2>2. SendsInv'
    BY <1>1, <2>1 DEF ComposerInv, SendsInv, Contents
  <2>3. open /\ s.gen = gen => \A t \in sends' : t.gen # gen'
    BY <1>1, <2>1 DEF ComposerInv, OneSend
  <2>4. OneSend' /\ DraftInv'
    BY <1>1, <2>1, <2>3 DEF ComposerInv, OneSend, DraftInv
  <2>5. ClipInv'
    BY <2>1 DEF ComposerInv, ClipInv
  <2>6. QED
    BY <2>2, <2>4, <2>5 DEF ComposerInv
<1>4. QED
  BY <1>2, <1>3

\* A composer that was idle sends what it holds, and only that.
LEMMA ComposerStarts ==
    ASSUME ComposerInv, MicInv, open, open' = open, ~sending,
           NEW kind \in {"text", "edit", "clip"}, NEW content \in Contents,
           NEW withFile, Start(Request(kind, content, withFile)),
           kind # "clip" => content = text,
           UNCHANGED <<gen, edit, reply, text, cancelled, left>>,
           \/ status' = status /\ stopping' = FALSE
           \/ status' = status /\ stopping' = stopping /\ status # "recording"
           \/ status' = "idle" /\ stopping' = FALSE
    PROVE  ComposerInv'
<1>1. PICK r : r = Request(kind, content, withFile)
  OBVIOUS
<1>2. sends' = sends \cup {r} /\ sending' = TRUE /\ over' = FALSE
  BY <1>1 DEF Start
<1>3. gen \in Gens /\ gen \in Int
  BY MaxGenAssumption DEF MicInv, Gens
<1>4. r.gen = gen /\ r.kind = kind /\ r.text = content
  BY <1>1 DEF Request
<1>5. r \in Sends
  <2>1. edit \in Ids \cup {None} /\ reply \in Ids \cup {None}
    BY DEF ComposerInv, SendsInv
  <2>2. QED
    BY <1>1, <1>3, <2>1 DEF Request, Sends
<1>6. \A t \in sends : t.gen # gen
  BY DEF ComposerInv, OneSend
<1>7. SendsInv'
  BY <1>2, <1>3, <1>4, <1>5 DEF ComposerInv, SendsInv
<1>8. OneSend' /\ DraftInv'
  BY <1>2, <1>4, <1>6 DEF OneSend, DraftInv
<1>9. ClipInv'
  BY DEF ComposerInv, ClipInv
<1>10. QED
  BY <1>7, <1>8, <1>9 DEF ComposerInv

LEMMA ComposerInit == Init => ComposerInv
<1>1. ASSUME Init
      PROVE  /\ sends = {} /\ edit = None /\ reply = None /\ text = ""
             /\ left = {} /\ open = FALSE /\ stopping = FALSE
  BY <1>1 DEF Init, CacheInit
<1>2. QED
  BY <1>1 DEF ComposerInv, SendsInv, OneSend, ClipInv, DraftInv, Contents

LEMMA ComposerStep == ComposerInv /\ MicInv /\ [Next]_vars => ComposerInv'
<1> SUFFICES ASSUME ComposerInv, MicInv, [Next]_vars PROVE ComposerInv'
  OBVIOUS
<1> USE DEF cacheVars, page, composer, recorder
<1>0. edit \in Ids \cup {None} /\ reply \in Ids \cup {None}
  BY DEF ComposerInv, SendsInv
<1>1. CASE UNCHANGED vars
  BY <1>0, <1>1, NotComposer DEF vars
<1>2. CASE Input
  <2>1. ASSUME NEW i \in Ids, Post(i) /\ Others PROVE ComposerInv'
    BY <1>0, <2>1, NotComposer DEF Post, Others
  <2>2. ASSUME NEW i \in Ids, Reply(i) PROVE ComposerInv'
    BY <2>2, Selected DEF Reply
  <2>3. ASSUME NEW i \in Ids, Edit(i) PROVE ComposerInv'
    BY <2>3, Selected DEF Edit
  <2>4. CASE (Disconnect \/ LoadEarlier \/ ComeOnline) /\ Others
    BY <1>0, <2>4, NotComposer DEF Disconnect, LoadEarlier, ComeOnline, Others
  <2>5. CASE Open
    <3>1. /\ gen' = gen + 1 /\ text' = "" /\ edit' = None /\ reply' = None
          /\ stopping' = FALSE /\ sends' = sends /\ left' = left
      BY <2>5 DEF Open, Mount
    <3>2. gen \in Nat /\ left' \subseteq 1 .. gen
      BY <3>1, Generation DEF ComposerInv, ClipInv
    <3>3. QED
      BY <3>1, <3>2, FreshComposer DEF Contents
  <2>6. CASE Close
    <3>1. /\ open' = FALSE /\ left' \subseteq left \cup {gen} /\ gen \in 1 .. gen
          /\ UNCHANGED <<gen, edit, reply, text, sending, over, sends, status,
                         stopping, cancelled>>
      BY <2>6, MaxGenAssumption DEF Close, CloseChannel, Unmount, MicInv, Gens
    <3>2. QED
      BY <3>1 DEF ComposerInv, SendsInv, OneSend, ClipInv, DraftInv
  <2>7. CASE CancelReply
    BY <2>7, NotComposer DEF CancelReply
  <2>8. CASE CancelEdit
    BY <1>0, <2>8, Selected DEF CancelEdit
  <2>9. ASSUME NEW t \in Typed \cup {""}, Type(t) PROVE ComposerInv'
    BY <2>9 DEF Type, ComposerInv, SendsInv, OneSend, ClipInv, DraftInv, Contents
  <2>10. CASE ToggleFile
    BY <2>10 DEF ToggleFile, ComposerInv, SendsInv, OneSend, ClipInv, DraftInv
  <2>11. CASE ClickSend
    <3>1. text \in Contents
      BY DEF ComposerInv, SendsInv
    <3>2. /\ open /\ open' = open /\ ~sending /\ status # "recording"
          /\ UNCHANGED <<gen, edit, reply, text, cancelled, left, status, stopping>>
      BY <2>11 DEF ClickSend, Editing
    <3>3. CASE edit = None
      BY <2>11, <3>1, <3>2, <3>3, ComposerStarts DEF ClickSend
    <3>4. CASE edit # None
      BY <2>11, <3>1, <3>2, <3>4, ComposerStarts DEF ClickSend
    <3>5. QED
      BY <3>3, <3>4
  <2>12. CASE StartRecording
    BY <2>12 DEF StartRecording, ComposerInv, SendsInv, OneSend, ClipInv, DraftInv
  <2>13. CASE StopRecording \/ CancelRecording
    <3>1. CASE StopRecording
      BY <3>1 DEF StopRecording, ComposerInv, SendsInv, OneSend, ClipInv, DraftInv
    <3>2. CASE CancelRecording
      BY <3>2 DEF CancelRecording, ComposerInv, SendsInv, OneSend, ClipInv, DraftInv
    <3>3. QED
      BY <2>13, <3>1, <3>2
  <2>14. QED
    BY <1>2, <2>1, <2>2, <2>3, <2>4, <2>5, <2>6, <2>7, <2>8, <2>9, <2>10, <2>11,
       <2>12, <2>13 DEF Input
<1>3. CASE Answer
  <2>1. CASE (Reconnect \/ Hear) /\ Others
    BY <1>0, <2>1, NotComposer DEF Reconnect, Hear, Others
  <2>2. CASE (ServeHistory \/ EarlierArrives \/ PageArrives \/ FetchFails) /\ Others
    BY <1>0, <2>2, NotComposer DEF ServeHistory, EarlierArrives, PageArrives,
                                   FetchFails, Others
  <2>3. ASSUME NEW s \in sends, Upload(s) PROVE ComposerInv'
    BY <2>3, SendMoved DEF Upload
  <2>4. ASSUME NEW s \in sends, UploadFails(s) PROVE ComposerInv'
    BY <2>4, ComposerAfterEnd DEF UploadFails
  <2>5. ASSUME NEW s \in sends, Emit(s) PROVE ComposerInv'
    BY <2>5, SendMoved DEF Emit
  <2>6. ASSUME NEW s \in sends, Acknowledged(s) PROVE ComposerInv'
    BY <2>6, ComposerAfterEnd DEF Acknowledged
  <2>7. ASSUME NEW g \in 1 .. gen, Granted(g) PROVE ComposerInv'
    BY <2>7 DEF Granted, ComposerInv, SendsInv, OneSend, ClipInv, DraftInv
  <2>8. ASSUME NEW g \in 1 .. gen, Denied(g) PROVE ComposerInv'
    \* A prompt that is open is not that of a composer that records.
    <3>1. open /\ g = gen => ~stopping
      BY <2>8, MaxGenAssumption DEF Denied, MicInv, ComposerInv, ClipInv, Gens
    <3>2. QED
      BY <2>8, <3>1 DEF Denied, ComposerInv, SendsInv, OneSend, ClipInv, DraftInv
  <2>9. CASE Stopped
    <3>1. CASE cancelled
      BY <2>9, <3>1 DEF Stopped, ComposerInv, SendsInv, OneSend, ClipInv, DraftInv
    <3>2. CASE ~cancelled
      <4>1. ~sending /\ open /\ open' = open
        BY <2>9, <3>2 DEF Stopped, ComposerInv, ClipInv
      <4>2. "" \in Contents
        BY DEF Contents
      <4>3. QED
        BY <2>9, <3>2, <4>1, <4>2, ComposerStarts DEF Stopped
    <3>3. QED
      BY <3>1, <3>2
  <2>10. QED
    BY <1>3, <2>1, <2>2, <2>3, <2>4, <2>5, <2>6, <2>7, <2>8, <2>9 DEF Answer
<1>4. QED
  BY <1>1, <1>2, <1>3 DEF Next

\* Only the end of a send of just this draft changes what a composer holds
\* without the user's typing.
LEMMA DraftStep ==
    ASSUME ComposerInv, MicInv, [Next]_vars, text' # text, gen' = gen, ~over, ~over'
    PROVE  \E s \in sends \ sends' : /\ s.gen = gen /\ s.text = text
                                     /\ s.step = "ack" /\ Head(events).kind = "ack"
<1> USE DEF cacheVars, page, composer, recorder
<1>1. gen \in Int
  BY Generation
<1>2. ASSUME NEW target, SelectEdit(target) \/ Mount(target) PROVE FALSE
  <2>1. gen' # gen + 1
    BY <1>1
  <2>2. ~Mount(target)
    BY <2>1 DEF Mount
  <2>3. QED
    BY <1>2, <2>2 DEF SelectEdit
<1>3. ~Input
  <2>1. (\E t \in Typed \cup {""} : Type(t)) => over'
    BY DEF Type
  <2>2. QED
    BY <1>2, <2>1 DEF Input, Post, Others, Reply, Edit, Disconnect, LoadEarlier,
       ComeOnline, Open, Close, CancelReply, CancelEdit, ToggleFile, ClickSend,
       StartRecording, StopRecording, CancelRecording
<1>4. PICK s \in sends : UploadFails(s) \/ Acknowledged(s)
  BY <1>3 DEF Next, vars, Answer, Others, Upload, Emit, Granted, Denied, Stopped
<1>5. ASSUME NEW done, End(s, done)
      PROVE  open /\ s.gen = gen /\ s.kind # "clip" /\ done /\ s \notin sends'
  BY <1>2, <1>5 DEF End, Cleared
<1>6. Acknowledged(s)
  BY <1>4, <1>5 DEF UploadFails
<1>7. End(s, Head(events).kind = "ack") /\ s.step = "ack"
  BY <1>6 DEF Acknowledged
<1>8. s.text = text
  BY <1>5, <1>7 DEF ComposerInv, DraftInv
<1>9. QED
  BY <1>5, <1>7, <1>8

\* A composer loses its draft only to the user, to a remount, or to a send of
\* just this draft that succeeded: handleSend clears what is there when the
\* acknowledgement comes, and that is what it sent unless the user wrote on.
THEOREM DraftKept == Spec => DraftClearedOnlyIfSent
<1>1. MicInv /\ ComposerInv /\ [Next]_vars
      => [ text # "" /\ text' = "" /\ gen' = gen /\ ~over
           => \/ over'
              \/ \E s \in sends \ sends' : /\ s.gen = gen /\ s.text = text
                                           /\ s.step = "ack"
                                           /\ Head(events).kind = "ack" ]_vars
  BY DraftStep
<1>2. Spec => [](MicInv /\ ComposerInv)
  BY MicInit, MicStep, ComposerInit, ComposerStep, PTL DEF Spec
<1>3. QED
  BY <1>1, <1>2, PTL DEF Spec, DraftClearedOnlyIfSent

-------------------------------------------------------------------------------
(* Naturals, and enumerations of rows: what the server's answers are built of *)

\* Every set of naturals that is not empty has a least element: the prover's way
\* to argue by induction.
LEMMA Least ==
    ASSUME NEW T, T \subseteq Nat, T # {}
    PROVE  \E m \in T : \A k \in T : m <= k
<1>1. PICK R : R = OpToRel(<, Nat)
  OBVIOUS
<1>2. IsWellFoundedOn(R, Nat)
  BY <1>1, NatLessThanWellFounded
<1>3. PICK m \in T : \A k \in T : ~(<<k, m>> \in R)
  BY <1>2, WFMin
<1>4. ASSUME NEW j \in Nat, NEW k \in Nat, j < k PROVE <<j, k>> \in R
  BY <1>1, <1>4 DEF OpToRel
<1>5. ASSUME NEW k \in T PROVE m <= k
  <2>1. m \in Nat /\ k \in Nat /\ ~(k < m)
    BY <1>3, <1>4
  <2>2. QED
    BY <2>1
<1>6. QED
  BY <1>5

\* What holds of 0 and of n + 1 whenever of n holds of every natural in H.
LEMMA Induction ==
    ASSUME NEW H, 0 \in H, \A n \in Nat : n \in H => n + 1 \in H
    PROVE  Nat \subseteq H
<1>1. SUFFICES ASSUME Nat \ H # {} PROVE FALSE
  OBVIOUS
<1>2. PICK m \in Nat \ H : \A k \in Nat \ H : m <= k
  BY <1>1, Least
<1>3. m # 0 /\ m - 1 \in Nat /\ m - 1 + 1 = m /\ ~(m <= m - 1)
  BY <1>2
<1>4. m - 1 \in H
  BY <1>2, <1>3
<1>5. QED
  BY <1>2, <1>3, <1>4

-------------------------------------------------------------------------------
(* The order of history, for any createdAt a.                                 *)

Earlier(a, i, j) == a[i] < a[j] \/ (a[i] = a[j] /\ i < j)

LEMMA Ordered ==
    ASSUME NEW a, NEW i \in Nat, NEW j \in Nat, a[i] \in Nat, a[j] \in Nat
    PROVE  /\ ~Earlier(a, i, i)
           /\ i = j \/ Earlier(a, i, j) \/ Earlier(a, j, i)
           /\ ~(Earlier(a, i, j) /\ Earlier(a, j, i))
BY DEF Earlier

LEMMA Transitive ==
    ASSUME NEW a, NEW i \in Nat, NEW j \in Nat, NEW k \in Nat,
           a[i] \in Nat, a[j] \in Nat, a[k] \in Nat,
           Earlier(a, i, j), Earlier(a, j, k)
    PROVE  Earlier(a, i, k)
BY DEF Earlier

\* A set of rows that is not empty has an oldest one.
LEMMA Oldest ==
    ASSUME NEW a, NEW S, S \subseteq Nat, S # {}, \A i \in S : a[i] \in Nat
    PROVE  \E m \in S : \A i \in S \ {m} : Earlier(a, m, i)
<1>1. PICK t \in {a[i] : i \in S} : \A u \in {a[i] : i \in S} : t <= u
  BY Least
<1>2. PICK m \in {i \in S : a[i] = t} : \A i \in {j \in S : a[j] = t} : m <= i
  <2>1. {i \in S : a[i] = t} # {} /\ {i \in S : a[i] = t} \subseteq Nat
    BY <1>1
  <2>2. QED
    BY <2>1, Least
<1>3. ASSUME NEW i \in S \ {m} PROVE Earlier(a, m, i)
  BY <1>1, <1>2, <1>3 DEF Earlier
<1>4. QED
  BY <1>2, <1>3

\* Enumerations of a set of rows, newest first.
Lists(a, S) ==
    {s \in [1 .. Cardinality(S) -> S] :
        \A j, k \in DOMAIN s : j < k => Earlier(a, s[k], s[j])}

\* Every finite set of rows has one: that of all but the oldest, and the oldest.
LEMMA Enumerable ==
    ASSUME NEW a, NEW S, IsFiniteSet(S), S \subseteq Nat, \A i \in S : a[i] \in Nat
    PROVE  Lists(a, S) # {}
<1> DEFINE H == {n \in Nat : \A T \in SUBSET S : Cardinality(T) = n => Lists(a, T) # {}}
<1>1. \A T \in SUBSET S : IsFiniteSet(T) /\ Cardinality(T) \in Nat
  BY FS_Subset, FS_CardinalityType
<1>2. 0 \in H
  <2>1. ASSUME NEW T \in SUBSET S, Cardinality(T) = 0 PROVE Lists(a, T) # {}
    <3>1. T = {}
      BY <1>1, <2>1, FS_EmptySet
    <3>2. [k \in 1 .. 0 |-> k] \in Lists(a, T)
      BY <2>1 DEF Lists
    <3>3. QED
      BY <3>2
  <2>2. QED
    BY <2>1
<1>3. ASSUME NEW n \in Nat, n \in H PROVE n + 1 \in H
  <2>1. ASSUME NEW T \in SUBSET S, Cardinality(T) = n + 1 PROVE Lists(a, T) # {}
    <3>1. T # {}
      BY <2>1, FS_EmptySet
    <3>2. PICK m \in T : \A i \in T \ {m} : Earlier(a, m, i)
      BY <3>1, Oldest
    <3>3. Cardinality(T \ {m}) = n /\ T \ {m} \in SUBSET S
      BY <1>1, <2>1, FS_RemoveElement
    <3>4. PICK s : s \in Lists(a, T \ {m})
      BY <1>3, <3>3
    <3>5. /\ s \in [1 .. n -> T \ {m}]
          /\ \A j, k \in 1 .. n : j < k => Earlier(a, s[k], s[j])
      BY <3>3, <3>4 DEF Lists
    <3>6. PICK t : t = [k \in 1 .. n + 1 |-> IF k = n + 1 THEN m ELSE s[k]]
      OBVIOUS
    <3>7. t \in [1 .. n + 1 -> T]
      BY <3>5, <3>6
    <3>8. ASSUME NEW j \in 1 .. n + 1, NEW k \in 1 .. n + 1, j < k
          PROVE  Earlier(a, t[k], t[j])
      <4>1. j \in 1 .. n /\ t[j] = s[j] /\ s[j] \in T \ {m}
        BY <3>5, <3>6, <3>8
      <4>2. CASE k = n + 1
        BY <3>2, <3>6, <4>1, <4>2
      <4>3. CASE k # n + 1
        <5>1. k \in 1 .. n /\ t[k] = s[k]
          BY <3>6, <4>3
        <5>2. QED
          BY <3>5, <3>8, <4>1, <5>1
      <4>4. QED
        BY <4>2, <4>3
    <3>9. t \in Lists(a, T)
      BY <2>1, <3>7, <3>8 DEF Lists
    <3>10. QED
      BY <3>9
  <2>2. QED
    BY <2>1
<1>4. Nat \subseteq H
  <2> HIDE DEF H
  <2>1. QED
    BY <1>2, <1>3, Induction
<1>5. QED
  BY <1>1, <1>4

\* An enumeration misses no row: it would have to repeat another one.
LEMMA Complete ==
    ASSUME NEW a, NEW S, IsFiniteSet(S), S \subseteq Nat, \A i \in S : a[i] \in Nat,
           NEW s \in Lists(a, S)
    PROVE  /\ Cardinality(S) \in Nat
           /\ s \in [1 .. Cardinality(S) -> S]
           /\ \A i \in S : \E k \in 1 .. Cardinality(S) : s[k] = i
           /\ \A j, k \in 1 .. Cardinality(S) : j < k => Earlier(a, s[k], s[j])
<1> DEFINE n == Cardinality(S)
<1>1. n \in Nat
  BY FS_CardinalityType
<1>2. s \in [1 .. n -> S] /\ \A j, k \in 1 .. n : j < k => Earlier(a, s[k], s[j])
  BY DEF Lists
<1>3. ASSUME NEW i \in S, \A k \in 1 .. n : s[k] # i PROVE FALSE
  <2>1. IsFiniteSet(S \ {i}) /\ Cardinality(S \ {i}) = n - 1
    BY FS_RemoveElement
  <2>2. IsFiniteSet(1 .. n) /\ Cardinality(1 .. n) = n
    BY <1>1, FS_Interval
  <2>3. s \in [1 .. n -> S \ {i}]
    BY <1>2, <1>3
  <2>4. n - 1 < n
    BY <1>1
  <2>5. PICK j \in 1 .. n, k \in 1 .. n : j # k /\ s[j] = s[k]
    BY <2>1, <2>2, <2>3, <2>4, FS_PigeonHole
  <2>6. Earlier(a, s[j], s[j])
    BY <1>1, <1>2, <2>5
  <2>7. QED
    BY <1>2, <2>6, Ordered
<1>4. QED
  BY <1>1, <1>2, <1>3

\* What lies between two cursors.
Within(a, i, c, n) == /\ c = None \/ Earlier(a, i, c)
                      /\ n = None \/ i = n \/ Earlier(a, n, i)

Pages(R) == [messages : Seq(R), next : R \cup {None}]

LEMMA Prefix ==
    ASSUME NEW S, NEW n \in Nat, NEW s \in [1 .. n -> S], NEW l \in Nat, l <= n, l > 0
    PROVE  /\ SubSeq(s, 1, l) \in Seq(S)
           /\ SubSeq(s, 1, l) \in [1 .. l -> S]
           /\ \A k \in 1 .. l : SubSeq(s, 1, l)[k] = s[k]
<1>1. Len(SubSeq(s, 1, l)) = l
  OBVIOUS
<1>2. SubSeq(s, 1, l) \in Seq(S)
  OBVIOUS
<1>3. \A k \in 1 .. l : SubSeq(s, 1, l)[k] = s[k]
  OBVIOUS
<1>4. QED
  BY <1>1, <1>2, <1>3, LenProperties

\* What the server answers: the rows from the next cursor to the one asked for,
\* in order, each once.
LEMMA Served ==
    ASSUME rows \subseteq Nat \ {0}, IsFiniteSet(rows), \A i \in rows : at[i] \in Nat,
           NEW c \in rows \cup {None}
    PROVE  /\ History(c) \in Pages(rows)
           /\ ToSet(History(c).messages)
                = {i \in rows : Within(at, i, c, History(c).next)}
           /\ \A p, q \in DOMAIN History(c).messages :
                 p < q => Earlier(at, History(c).messages[p], History(c).messages[q])
           /\ c # None /\ History(c).next # None => Earlier(at, History(c).next, c)
<1>0. PICK S : S = {i \in rows : c = None \/ Before(i, c)}
  OBVIOUS
<1>n. PICK n : n = Cardinality(S)
  OBVIOUS
<1>1. /\ IsFiniteSet(S) /\ S \subseteq Nat /\ S \subseteq rows /\ None \notin S
      /\ \A i \in S : at[i] \in Nat
  BY <1>0, FS_Subset DEF None
<1>2. PICK s : s = NewestFirst(S)
  OBVIOUS
<1>3. s \in Lists(at, S)
  <2>1. \A t \in [1 .. n -> S] :
          (\A j, k \in DOMAIN t : j < k => Before(t[k], t[j])) <=> t \in Lists(at, S)
    BY <1>n DEF Lists, Before, Earlier
  <2>2. PICK t : t \in Lists(at, S)
    BY <1>1, Enumerable
  <2>3. t \in [1 .. n -> S]
    BY <1>n, <2>2 DEF Lists
  <2>4. /\ s \in [1 .. n -> S] /\ \A j, k \in DOMAIN s : j < k => Before(s[k], s[j])
    BY <1>2, <1>n, <2>1, <2>2, <2>3 DEF NewestFirst
  <2>5. QED
    BY <2>1, <2>4
<1>4. /\ n \in Nat /\ s \in [1 .. n -> S]
      /\ \A i \in S : \E k \in 1 .. n : s[k] = i
      /\ \A j, k \in 1 .. n : j < k => Earlier(at, s[k], s[j])
  <2>1. /\ Cardinality(S) \in Nat
        /\ s \in [1 .. Cardinality(S) -> S]
        /\ \A i \in S : \E k \in 1 .. Cardinality(S) : s[k] = i
        /\ \A j, k \in 1 .. Cardinality(S) : j < k => Earlier(at, s[k], s[j])
    BY <1>1, <1>3, Complete, Zenon
  <2>2. QED
    BY <1>3, <1>n, <2>1
<1>5. s \in Seq(S) /\ Len(s) = n
  BY <1>4
<1>6. PICK pg : pg = IF Len(s) > Limit THEN SubSeq(s, 1, Limit) ELSE s
  OBVIOUS
<1>7. PICK r : r = History(c)
  OBVIOUS
<1>8. r = [messages |-> Reverse(pg), next |-> NextCursor(s)]
  BY <1>0, <1>2, <1>6, <1>7 DEF History
<1>9. PICK l \in Nat : /\ l <= n /\ pg \in [1 .. l -> S] /\ pg \in Seq(S)
                       /\ \A k \in 1 .. l : pg[k] = s[k]
                       /\ \/ n > Limit /\ l = Limit /\ r.next = s[l] /\ l > 0
                          \/ n <= Limit /\ l = n /\ r.next = None
  <2>1. CASE n > Limit
    <3>1. /\ pg = SubSeq(s, 1, Limit) /\ r.next = s[Limit]
          /\ Limit \in Nat /\ Limit > 0
      BY <1>5, <1>6, <1>8, <2>1, LimitAssumption DEF NextCursor
    <3>2. pg \in [1 .. Limit -> S] /\ \A k \in 1 .. Limit : pg[k] = s[k]
      BY <1>4, <2>1, <3>1, Prefix
    <3>3. pg \in Seq(S)
      BY <1>4, <2>1, <3>1, Prefix
    <3>4. Limit <= n
      BY <1>4, <2>1, <3>1
    <3>5. QED
      BY <2>1, <3>1, <3>2, <3>3, <3>4
  <2>2. CASE ~(n > Limit)
    <3>1. pg = s /\ r.next = None /\ n <= Limit
      BY <1>4, <1>5, <1>6, <1>8, <2>2, LimitAssumption DEF NextCursor
    <3>2. pg \in [1 .. n -> S] /\ pg \in Seq(S) /\ \A k \in 1 .. n : pg[k] = s[k]
      BY <1>4, <1>5, <3>1
    <3>3. n \in Nat /\ n <= n
      BY <1>4
    <3>4. QED
      BY <3>1, <3>2, <3>3
  <2>3. QED
    BY <2>1, <2>2
<1>10. Len(pg) = l
  BY <1>9
<1>11. PICK m : m = r.messages
  OBVIOUS
<1>12. /\ m \in Seq(S) /\ DOMAIN m = 1 .. l
       /\ \A k \in 1 .. l : l - k + 1 \in 1 .. l /\ m[k] = s[l - k + 1]
  <2>1. m = [k \in 1 .. l |-> pg[(l - k) + 1]]
    BY <1>8, <1>10, <1>11 DEF Reverse
  <2>2. \A k \in 1 .. l : l - k + 1 \in 1 .. l
    BY <1>9
  <2>3. m \in [1 .. l -> S]
    BY <1>9, <2>1, <2>2
  <2>4. m \in Seq(S)
    BY <1>9, <2>3
  <2>5. \A k \in 1 .. l : m[k] = pg[l - k + 1]
    BY <2>1
  <2>6. \A k \in 1 .. l : m[k] = s[l - k + 1]
    BY <1>9, <2>2, <2>5
  <2>7. QED
    BY <2>2, <2>3, <2>4, <2>6
<1>13. r.next \in S \cup {None}
  BY <1>4, <1>9
<1>14. r \in Pages(rows)
  <2>1. m \in Seq(rows)
    BY <1>1, <1>12, SeqMonotonic
  <2>2. QED
    BY <1>1, <1>8, <1>11, <1>13, <2>1 DEF Pages
<1>15. \A p, q \in DOMAIN m : p < q => Earlier(at, m[p], m[q])
  <2>1. ASSUME NEW p \in 1 .. l, NEW q \in 1 .. l, p < q
        PROVE  Earlier(at, m[p], m[q])
    <3>1. /\ l - p + 1 \in 1 .. n /\ l - q + 1 \in 1 .. n
          /\ l - q + 1 < l - p + 1
      BY <1>4, <1>9, <2>1
    <3>2. QED
      BY <1>4, <1>12, <3>1
  <2>2. QED
    BY <1>12, <2>1
<1>16. c # None /\ r.next # None => Earlier(at, r.next, c)
  BY <1>0, <1>13 DEF Before, Earlier
<1>17. ASSUME NEW i \in rows
       PROVE  i \in ToSet(m) <=> Within(at, i, c, r.next)
  <2>1. ASSUME i \in ToSet(m) PROVE Within(at, i, c, r.next)
    <3>1. PICK k \in 1 .. l : i = s[k]
      BY <1>12, <2>1 DEF ToSet
    <3>2. k \in 1 .. n /\ i \in S
      BY <1>4, <1>9, <3>1
    <3>3. CASE r.next = None
      BY <1>0, <3>2, <3>3 DEF Within, Before, Earlier
    <3>4. CASE r.next # None
      <4>1. l \in 1 .. n /\ r.next = s[l] /\ (k = l \/ k < l)
        BY <1>4, <1>9, <3>4
      <4>2. i = r.next \/ Earlier(at, r.next, i)
        BY <1>4, <3>1, <3>2, <4>1
      <4>3. QED
        BY <1>0, <3>2, <4>2 DEF Within, Before, Earlier
    <3>5. QED
      BY <3>3, <3>4
  <2>2. ASSUME Within(at, i, c, r.next) PROVE i \in ToSet(m)
    <3>1. i \in S
      BY <1>0, <2>2 DEF Within, Before, Earlier
    <3>2. PICK k \in 1 .. n : s[k] = i
      BY <1>4, <3>1
    <3>3. k \in 1 .. l
      <4>1. CASE r.next = None
        BY <1>1, <1>4, <1>9, <4>1
      <4>2. CASE r.next # None
        <5>1. l \in 1 .. n /\ r.next = s[l] /\ s[l] \in S
          BY <1>4, <1>9, <4>2
        <5>2. ASSUME k > l PROVE FALSE
          <6>1. Earlier(at, i, r.next)
            BY <1>4, <3>2, <5>1, <5>2
          <6>2. i = r.next \/ Earlier(at, r.next, i)
            BY <2>2, <4>2 DEF Within
          <6>3. QED
            BY <1>1, <3>1, <5>1, <6>1, <6>2, Ordered
        <5>3. QED
          BY <5>1, <5>2
      <4>3. QED
        BY <4>1, <4>2
    <3>4. l - k + 1 \in 1 .. l /\ l - (l - k + 1) + 1 = k
      BY <1>9, <3>3
    <3>5. m[l - k + 1] = i
      BY <1>12, <3>2, <3>4
    <3>6. QED
      BY <1>12, <3>4, <3>5 DEF ToSet
  <2>3. QED
    BY <2>1, <2>2
<1>18. ToSet(m) \subseteq rows
  <2>1. \A k \in DOMAIN m : m[k] \in S
    BY <1>12
  <2>2. QED
    BY <1>1, <2>1 DEF ToSet
<1>19. QED
  BY <1>7, <1>11, <1>14, <1>15, <1>16, <1>17, <1>18

\* f lists the first n sequences of ss one after the other: f[p] is from place
\* v[p] of the u[p]-th of them.
Flat(u, v, f, ss, n) ==
    /\ \A p \in DOMAIN f : /\ u[p] \in 1 .. n
                           /\ v[p] \in DOMAIN ss[u[p]]
                           /\ f[p] = ss[u[p]][v[p]]
    /\ \A p, q \in DOMAIN f : p < q => \/ u[p] < u[q]
                                       \/ u[p] = u[q] /\ v[p] < v[q]
    /\ \A k \in 1 .. n : \A m \in DOMAIN ss[k] :
          \E p \in DOMAIN f : u[p] = k /\ v[p] = m

\* One sequence more.
LEMMA OneMore ==
    ASSUME NEW X, NEW n \in Nat, NEW ss, NEW f \in Seq(X), NEW u, NEW v,
           Flat(u, v, f, ss, n), ss[n + 1] \in Seq(X)
    PROVE  /\ f \o ss[n + 1] \in Seq(X)
           /\ \E y, z : Flat(y, z, f \o ss[n + 1], ss, n + 1)
<1>1. PICK s \in Seq(X) : s = ss[n + 1]
  OBVIOUS
<1>2. PICK l : l = Len(f)
  OBVIOUS
<1>3. PICK g : g = f \o s
  OBVIOUS
<1>4. /\ l \in Nat /\ Len(s) \in Nat
      /\ DOMAIN f = 1 .. l /\ DOMAIN s = 1 .. Len(s)
  BY <1>2, LenProperties
<1>5. g \in Seq(X) /\ Len(g) = l + Len(s) /\ DOMAIN g = 1 .. l + Len(s)
  BY <1>2, <1>3, ConcatProperties, LenProperties
<1>6. \A p \in 1 .. l : p \in DOMAIN g /\ g[p] = f[p]
  BY <1>2, <1>3, <1>4, <1>5
<1>7. \A m \in 1 .. Len(s) : l + m \in DOMAIN g /\ g[l + m] = s[m]
  BY <1>2, <1>3, <1>4, <1>5
<1>8. \A p \in DOMAIN g : \/ p \in 1 .. l
                          \/ p > l /\ p - l \in 1 .. Len(s) /\ g[p] = s[p - l]
  <2>1. ASSUME NEW p \in DOMAIN g, p \notin 1 .. l PROVE p > l /\ p - l \in 1 .. Len(s) /\ g[p] = s[p - l]
    <3>1. p > l /\ p - l \in 1 .. Len(s) /\ l + (p - l) = p
      BY <1>4, <1>5, <2>1
    <3>2. QED
      BY <1>7, <3>1
  <2>2. QED
    BY <2>1
<1>9. PICK y : y = [p \in DOMAIN g |-> IF p \in 1 .. l THEN u[p] ELSE n + 1]
  OBVIOUS
<1>10. PICK z : z = [p \in DOMAIN g |-> IF p \in 1 .. l THEN v[p] ELSE p - l]
  OBVIOUS
<1>11. ASSUME NEW p \in DOMAIN g
       PROVE  /\ y[p] \in 1 .. n + 1
              /\ z[p] \in DOMAIN ss[y[p]]
              /\ g[p] = ss[y[p]][z[p]]
  <2>1. CASE p \in 1 .. l
    <3>1. y[p] = u[p] /\ z[p] = v[p] /\ g[p] = f[p]
      BY <1>6, <1>9, <1>10, <2>1
    <3>2. QED
      BY <1>4, <2>1, <3>1 DEF Flat
  <2>2. CASE p \notin 1 .. l
    <3>1. y[p] = n + 1 /\ z[p] = p - l
      BY <1>9, <1>10, <2>2
    <3>2. QED
      BY <1>1, <1>4, <1>8, <2>2, <3>1
  <2>3. QED
    BY <2>1, <2>2
<1>12. ASSUME NEW p \in DOMAIN g, NEW q \in DOMAIN g, p < q
       PROVE  y[p] < y[q] \/ (y[p] = y[q] /\ z[p] < z[q])
  <2>0. p \in Int /\ q \in Int
    BY <1>4, <1>5
  <2>1. CASE q \in 1 .. l
    <3>1. p \in 1 .. l
      BY <1>4, <1>5, <1>12, <2>1
    <3>2. y[p] = u[p] /\ z[p] = v[p] /\ y[q] = u[q] /\ z[q] = v[q]
      BY <1>9, <1>10, <2>1, <3>1
    <3>3. QED
      BY <1>4, <1>12, <2>1, <3>1, <3>2 DEF Flat
  <2>2. CASE q \notin 1 .. l
    <3>1. y[q] = n + 1 /\ z[q] = q - l
      BY <1>9, <1>10, <2>2
    <3>2. CASE p \in 1 .. l
      <4>1. y[p] = u[p] /\ u[p] \in 1 .. n
        BY <1>4, <1>9, <3>2 DEF Flat
      <4>2. QED
        BY <3>1, <4>1
    <3>3. CASE p \notin 1 .. l
      <4>1. y[p] = n + 1 /\ z[p] = p - l
        BY <1>9, <1>10, <3>3
      <4>2. QED
        BY <1>4, <1>12, <2>0, <3>1, <4>1
    <3>4. QED
      BY <3>2, <3>3
  <2>3. QED
    BY <2>1, <2>2
<1>13. ASSUME NEW k \in 1 .. n + 1, NEW m \in DOMAIN ss[k]
       PROVE  \E p \in DOMAIN g : y[p] = k /\ z[p] = m
  <2>1. CASE k \in 1 .. n
    <3>1. PICK p \in DOMAIN f : u[p] = k /\ v[p] = m
      BY <2>1 DEF Flat
    <3>2. p \in DOMAIN g /\ y[p] = k /\ z[p] = m
      BY <1>4, <1>6, <1>9, <1>10, <3>1
    <3>3. QED
      BY <3>2
  <2>2. CASE k = n + 1
    <3>1. m \in 1 .. Len(s) /\ m \in Int
      BY <1>1, <1>4, <2>2
    <3>2. l + m \in DOMAIN g /\ l + m \notin 1 .. l /\ l + m - l = m
      BY <1>4, <1>7, <3>1
    <3>3. PICK p : p = l + m
      OBVIOUS
    <3>4. p \in DOMAIN g /\ p \notin 1 .. l /\ p - l = m
      BY <1>4, <3>1, <3>2, <3>3
    <3>5. y[p] = n + 1 /\ z[p] = m
      BY <1>9, <1>10, <3>4
    <3>6. QED
      BY <2>2, <3>4, <3>5
  <2>3. QED
    BY <2>1, <2>2
<1>14. Flat(y, z, g, ss, n + 1)
  BY <1>11, <1>12, <1>13 DEF Flat
<1>15. QED
  BY <1>1, <1>3, <1>5, <1>14
Joins(g, ss, n) == g = [k \in 1 .. n |-> IF k = 1 THEN ss[k] ELSE g[k - 1] \o ss[k]]

\* FlattenSeq lists them all.
LEMMA Flattened ==
    ASSUME NEW X, NEW ss \in Seq(Seq(X)), ss # <<>>
    PROVE  /\ FlattenSeq(ss) \in Seq(X)
           /\ \E u, v : Flat(u, v, FlattenSeq(ss), ss, Len(ss))
<1>1. PICK l : l = Len(ss)
  OBVIOUS
<1>2. /\ l \in Nat /\ l # 0 /\ DOMAIN ss = 1 .. l
      /\ \A k \in 1 .. l : ss[k] \in Seq(X)
  BY <1>1, EmptySeq, LenProperties
<1>3. \E g : Joins(g, ss, l)
  <2> DEFINE H == {n \in Nat : \E g : Joins(g, ss, n)}
  <2>1. 0 \in H
    <3>1. PICK g : g = [k \in 1 .. 0 |-> k]
      OBVIOUS
    <3>2. Joins(g, ss, 0)
      BY <3>1 DEF Joins
    <3>3. QED
      BY <3>2
  <2>2. ASSUME NEW n \in Nat, n \in H PROVE n + 1 \in H
    <3>1. PICK g : Joins(g, ss, n)
      BY <2>2
    <3>2. PICK h : h = [k \in 1 .. n + 1 |->
                          IF k <= n THEN g[k] ELSE IF k = 1 THEN ss[k] ELSE g[k - 1] \o ss[k]]
      OBVIOUS
    <3>3. ASSUME NEW k \in 1 .. n + 1
          PROVE  h[k] = IF k = 1 THEN ss[k] ELSE h[k - 1] \o ss[k]
      <4>1. k # 1 => k - 1 \in 1 .. n /\ h[k - 1] = g[k - 1]
        BY <3>2
      <4>2. CASE k <= n
        <5>1. k \in 1 .. n /\ h[k] = g[k]
          BY <3>2, <4>2
        <5>2. g[k] = IF k = 1 THEN ss[k] ELSE g[k - 1] \o ss[k]
          BY <3>1, <5>1 DEF Joins
        <5>3. QED
          BY <4>1, <5>1, <5>2
      <4>3. CASE ~(k <= n)
        <5>1. h[k] = IF k = 1 THEN ss[k] ELSE g[k - 1] \o ss[k]
          BY <3>2, <4>3
        <5>2. QED
          BY <4>1, <5>1
      <4>4. QED
        BY <4>2, <4>3
    <3>4. h = [k \in 1 .. n + 1 |-> h[k]]
      BY <3>2
    <3>5. Joins(h, ss, n + 1)
      BY <3>3, <3>4 DEF Joins
    <3>6. QED
      BY <3>5
  <2>3. Nat \subseteq H
    <3> HIDE DEF H
    <3>1. QED
      BY <2>1, <2>2, Induction
  <2>4. QED
    BY <1>2, <2>3
<1>4. PICK f : f = CHOOSE g : Joins(g, ss, l)
  OBVIOUS
<1>5. f = [k \in 1 .. l |-> IF k = 1 THEN ss[k] ELSE f[k - 1] \o ss[k]]
  BY <1>3, <1>4 DEF Joins
<1>6. FlattenSeq(ss) = f[l]
  BY <1>1, <1>2, <1>4 DEF FlattenSeq, Joins
<1> DEFINE H == {n \in Nat : n \in 1 .. l => /\ f[n] \in Seq(X)
                                           /\ \E u, v : Flat(u, v, f[n], ss, n)}
<1>7. 0 \in H
  OBVIOUS
<1>8. ASSUME NEW n \in Nat, n \in H PROVE n + 1 \in H
  <2>1. SUFFICES ASSUME n + 1 \in 1 .. l
                 PROVE  /\ f[n + 1] \in Seq(X)
                        /\ \E u, v : Flat(u, v, f[n + 1], ss, n + 1)
    OBVIOUS
  <2>2. CASE n = 0
    <3>1. f[1] = ss[1] /\ ss[1] \in Seq(X)
      BY <1>2, <1>5, <2>1, <2>2
    <3>2. PICK u : u = [p \in DOMAIN ss[1] |-> 1]
      OBVIOUS
    <3>3. PICK v : v = [p \in DOMAIN ss[1] |-> p]
      OBVIOUS
    <3>4. DOMAIN ss[1] \subseteq Int
      BY <3>1
    <3>5. Flat(u, v, f[1], ss, 1)
      BY <3>1, <3>2, <3>3, <3>4 DEF Flat
    <3>6. QED
      BY <2>2, <3>1, <3>5
  <2>3. CASE n # 0
    <3>1. n \in 1 .. l /\ n + 1 # 1 /\ n + 1 - 1 = n
      BY <1>2, <2>1, <2>3
    <3>2. f[n + 1] = f[n] \o ss[n + 1]
      <4>1. PICK k \in 1 .. l : k = n + 1 /\ k # 1 /\ k - 1 = n
        BY <2>1, <3>1
      <4>2. f[k] = f[k - 1] \o ss[k]
        BY <1>5, <4>1
      <4>3. QED
        BY <4>1, <4>2
    <3>3. ss[n + 1] \in Seq(X)
      BY <1>2, <2>1
    <3>4. PICK u, v : Flat(u, v, f[n], ss, n)
      BY <1>8, <3>1
    <3>5. f[n] \in Seq(X)
      BY <1>8, <3>1
    <3>6. QED
      BY <3>2, <3>3, <3>4, <3>5, OneMore
  <2>4. QED
    BY <2>2, <2>3
<1>9. Nat \subseteq H
  <2> HIDE DEF H
  <2>1. QED
    BY <1>7, <1>8, Induction
<1>10. l \in 1 .. l
  BY <1>2
<1>11. QED
  BY <1>1, <1>2, <1>6, <1>9, <1>10

-------------------------------------------------------------------------------
(* Pages that tile the history. U are the rows the property is about, and     *)
(* `out' those of them that the tab has not heard of.                         *)

\* The cursor page k was asked for with.
Cursor(d, k) == IF k = 1 THEN None ELSE d[k - 1].next

\* A page has what lies between its two cursors, in order.
PageTiles(pg, c, out, U, a) ==
    /\ \A i \in U : i \in ToSet(pg.messages) <=> i \notin out /\ Within(a, i, c, pg.next)
    /\ \A p, q \in DOMAIN pg.messages :
          p < q /\ pg.messages[p] \in U /\ pg.messages[q] \in U
             => Earlier(a, pg.messages[p], pg.messages[q])

Tiles(d, out, U, a) ==
    /\ \A k \in DOMAIN d : PageTiles(d[k], Cursor(d, k), out, U, a)
    /\ \A k \in DOMAIN d : k < Len(d) => d[k].next # None
    /\ \A j, k \in DOMAIN d : j < k /\ d[k].next # None => Earlier(a, d[k].next, d[j].next)

\* A row of an older page is older.
LEMMA PagesOrdered ==
    ASSUME NEW R, R \subseteq Nat \ {0}, NEW a, \A i \in R : a[i] \in Nat,
           NEW U \in SUBSET R, NEW out, NEW d \in Seq(Pages(R)), Tiles(d, out, U, a),
           NEW j \in DOMAIN d, NEW k \in DOMAIN d, j < k,
           NEW i \in U, i \in ToSet(d[k].messages),
           NEW h \in U, h \in ToSet(d[j].messages)
    PROVE  Earlier(a, i, h)
<1>1. PICK n : n = Len(d)
  OBVIOUS
<1>2. n \in Nat /\ DOMAIN d = 1 .. n /\ \A m \in 1 .. n : d[m] \in Pages(R)
  BY <1>1, LenProperties
<1>3. PICK l : l = k - 1
  OBVIOUS
<1>4. l \in 1 .. n /\ l < n /\ j < n /\ k # 1 /\ (j = l \/ j < l)
  BY <1>2, <1>3
<1>5. d[l].next # None /\ d[j].next # None
  BY <1>1, <1>2, <1>4 DEF Tiles
<1>6. d[l].next \in R /\ d[j].next \in R
  BY <1>2, <1>4, <1>5 DEF Pages
<1>7. Earlier(a, i, d[l].next)
  <2>1. Cursor(d, k) = d[l].next
    BY <1>3, <1>4 DEF Cursor
  <2>2. Within(a, i, d[l].next, d[k].next)
    BY <2>1 DEF Tiles, PageTiles
  <2>3. QED
    BY <1>5, <2>2 DEF Within
<1>8. d[l].next = d[j].next \/ Earlier(a, d[l].next, d[j].next)
  BY <1>2, <1>4, <1>5 DEF Tiles
<1>9. d[j].next = h \/ Earlier(a, d[j].next, h)
  <2>1. Within(a, h, Cursor(d, j), d[j].next)
    BY DEF Tiles, PageTiles
  <2>2. QED
    BY <1>5, <2>1 DEF Within
<1>10. /\ i \in Nat /\ h \in Nat /\ d[l].next \in Nat /\ d[j].next \in Nat
       /\ a[i] \in Nat /\ a[h] \in Nat /\ a[d[l].next] \in Nat /\ a[d[j].next] \in Nat
  BY <1>6
<1>11. Earlier(a, i, d[j].next)
  BY <1>7, <1>8, <1>10, Transitive
<1>12. QED
  BY <1>9, <1>10, <1>11, Transitive

\* A row that is to be there is on some page: the newest that reaches back to it.
LEMMA OnSomePage ==
    ASSUME NEW R, R \subseteq Nat \ {0}, NEW a, \A i \in R : a[i] \in Nat,
           NEW U \in SUBSET R, NEW out, NEW d \in Seq(Pages(R)), Tiles(d, out, U, a),
           d # <<>>, NEW i \in U, i \notin out, Within(a, i, None, Last(d).next)
    PROVE  \E k \in DOMAIN d : i \in ToSet(d[k].messages)
<1>1. PICK n : n = Len(d)
  OBVIOUS
<1>2. /\ n \in Nat \ {0} /\ DOMAIN d = 1 .. n /\ \A m \in 1 .. n : d[m] \in Pages(R)
      /\ Last(d) = d[n]
  BY <1>1, LenProperties, EmptySeq DEF Last
<1> DEFINE K == {k \in 1 .. n : d[k].next = None \/ i = d[k].next \/ Earlier(a, d[k].next, i)}
<1>3. K # {} /\ K \subseteq Nat
  <2>1. n \in K
    BY <1>2 DEF Within
  <2>2. QED
    BY <2>1
<1>4. PICK k \in K : \A m \in K : k <= m
  BY <1>3, Least
<1>5. Cursor(d, k) = None \/ Earlier(a, i, Cursor(d, k))
  <2>1. CASE k = 1
    BY <2>1 DEF Cursor
  <2>2. CASE k # 1
    <3>1. PICK l : l = k - 1
      OBVIOUS
    <3>2. l \in 1 .. n /\ ~(k <= l)
      BY <1>2, <2>2, <3>1
    <3>3. l \notin K
      BY <1>4, <3>2
    <3>4. d[l].next # None /\ i # d[l].next /\ ~Earlier(a, d[l].next, i)
      BY <3>2, <3>3
    <3>5. d[l].next \in R
      BY <1>2, <3>2, <3>4 DEF Pages
    <3>6. i \in Nat /\ a[i] \in Nat /\ d[l].next \in Nat /\ a[d[l].next] \in Nat
      BY <3>5
    <3>7. Earlier(a, i, d[l].next)
      BY <3>4, <3>6, Ordered
    <3>8. QED
      BY <2>2, <3>1, <3>7 DEF Cursor
  <2>3. QED
    BY <2>1, <2>2
<1>6. Within(a, i, Cursor(d, k), d[k].next)
  BY <1>5 DEF Within
<1>7. QED
  BY <1>2, <1>6 DEF Tiles, PageTiles

\* What is on a page lies after the last cursor.
LEMMA AfterLast ==
    ASSUME NEW R, R \subseteq Nat \ {0}, NEW a, \A i \in R : a[i] \in Nat,
           NEW U \in SUBSET R, NEW out, NEW d \in Seq(Pages(R)), Tiles(d, out, U, a),
           NEW k \in DOMAIN d, NEW i \in U, i \in ToSet(d[k].messages)
    PROVE  i \notin out /\ Within(a, i, None, Last(d).next)
<1>1. PICK n : n = Len(d)
  OBVIOUS
<1>2. /\ n \in Nat /\ DOMAIN d = 1 .. n /\ \A m \in 1 .. n : d[m] \in Pages(R)
      /\ Last(d) = d[n]
  BY <1>1, LenProperties DEF Last
<1>3. i \notin out /\ Within(a, i, Cursor(d, k), d[k].next)
  BY DEF Tiles, PageTiles
<1>4. CASE d[n].next = None \/ k = n
  BY <1>2, <1>3, <1>4 DEF Within
<1>5. CASE d[n].next # None /\ k # n
  <2>1. k < n /\ n \in DOMAIN d
    BY <1>2, <1>5
  <2>2. d[k].next # None /\ Earlier(a, d[n].next, d[k].next)
    BY <1>1, <1>5, <2>1 DEF Tiles
  <2>3. d[k].next \in R /\ d[n].next \in R
    BY <1>2, <1>5, <2>1, <2>2 DEF Pages
  <2>4. i = d[k].next \/ Earlier(a, d[k].next, i)
    BY <1>3, <2>2 DEF Within
  <2>5. /\ i \in Nat /\ d[k].next \in Nat /\ d[n].next \in Nat
        /\ a[i] \in Nat /\ a[d[k].next] \in Nat /\ a[d[n].next] \in Nat
    BY <2>3
  <2>6. Earlier(a, d[n].next, i)
    BY <2>2, <2>4, <2>5, Transitive
  <2>7. QED
    BY <1>2, <1>3, <2>6 DEF Within
<1>6. QED
  BY <1>4, <1>5

\* Pages that tile, and their messages one page after the other.
Loaded(R, a, U, out, d, ms) ==
    /\ R \subseteq Nat \ {0} /\ \A i \in R : a[i] \in Nat
    /\ U \in SUBSET R
    /\ d \in Seq(Pages(R)) /\ d # <<>> /\ Tiles(d, out, U, a)
    /\ ms \in [DOMAIN d -> Seq(R)] /\ \A k \in DOMAIN d : ms[k] = d[k].messages

\* A list of all rows due down to the cursor `from', once each and in order.
Shown(R, a, U, out, from, list) ==
    /\ list \in Seq(R)
    /\ \A p \in DOMAIN list : list[p] \in U =>
          list[p] \notin out /\ Within(a, list[p], None, from)
    /\ \A i \in U : i \notin out /\ Within(a, i, None, from)
          => \E p \in DOMAIN list : list[p] = i
    /\ \A p, q \in DOMAIN list : p < q /\ list[p] \in U /\ list[q] \in U
          => Earlier(a, list[p], list[q])

\* What the list shows of pages that tile: every row due, once and in order.
LEMMA TilesShown ==
    ASSUME NEW R, NEW a, NEW U, NEW out, NEW d, NEW ms, Loaded(R, a, U, out, d, ms)
    PROVE  Shown(R, a, U, out, Last(d).next, FlattenSeq(Reverse(ms)))
<1> PICK list : list = FlattenSeq(Reverse(ms))
  OBVIOUS
<1> SUFFICES ASSUME R \subseteq Nat \ {0}, \A i \in R : a[i] \in Nat, U \in SUBSET R,
                    d \in Seq(Pages(R)), Tiles(d, out, U, a), d # <<>>
             PROVE  /\ list \in Seq(R)
                    /\ \A p \in DOMAIN list : list[p] \in U =>
                          list[p] \notin out /\ Within(a, list[p], None, Last(d).next)
                    /\ \A i \in U : i \notin out /\ Within(a, i, None, Last(d).next)
                          => \E p \in DOMAIN list : list[p] = i
                    /\ \A p, q \in DOMAIN list : p < q /\ list[p] \in U /\ list[q] \in U
                          => Earlier(a, list[p], list[q])
  BY DEF Loaded, Shown
<1>1. PICK n : n = Len(d)
  OBVIOUS
<1>2. /\ n \in Nat \ {0} /\ DOMAIN d = 1 .. n /\ \A m \in 1 .. n : d[m] \in Pages(R)
  BY <1>1, LenProperties, EmptySeq
<1>3. ms \in [1 .. n -> Seq(R)] /\ \A k \in 1 .. n : ms[k] = d[k].messages
  BY <1>2 DEF Loaded
<1>4. ms \in [1 .. n -> Seq(R)] /\ Len(ms) = n
  <2>1. ms \in [1 .. n -> Seq(R)]
    BY <1>2, <1>3 DEF Pages
  <2>2. QED
    BY <1>2, <2>1
<1>5. PICK ss : ss = Reverse(ms)
  OBVIOUS
<1>6. /\ \A k \in 1 .. n : n - k + 1 \in 1 .. n
      /\ \A k \in 1 .. n : ss[k] = d[n - k + 1].messages
      /\ ss \in Seq(Seq(R)) /\ ss # <<>> /\ Len(ss) = n
  <2>1. ss = [k \in 1 .. n |-> ms[(n - k) + 1]]
    BY <1>4, <1>5 DEF Reverse
  <2>2. \A k \in 1 .. n : n - k + 1 \in 1 .. n
    BY <1>2
  <2>3. ss \in [1 .. n -> Seq(R)]
    BY <1>4, <2>1, <2>2
  <2>4. ss \in Seq(Seq(R)) /\ Len(ss) = n
    BY <1>2, <2>3
  <2>5. ss # <<>>
    BY <1>2, <2>4, EmptySeq
  <2>6. \A k \in 1 .. n : ss[k] = ms[n - k + 1]
    BY <2>1
  <2>7. \A k \in 1 .. n : ss[k] = d[n - k + 1].messages
    BY <1>2, <1>3, <2>2, <2>6
  <2>8. QED
    BY <2>2, <2>4, <2>5, <2>7
<1>7. list = FlattenSeq(ss)
  BY <1>3, <1>5
<1>8. list \in Seq(R) /\ \E u, v : Flat(u, v, list, ss, n)
  BY <1>6, <1>7, Flattened
<1>9. PICK u, v : Flat(u, v, list, ss, n)
  BY <1>8
<1>10. ASSUME NEW p \in DOMAIN list
       PROVE  /\ u[p] \in 1 .. n /\ n - u[p] + 1 \in DOMAIN d
              /\ v[p] \in DOMAIN d[n - u[p] + 1].messages
              /\ list[p] = d[n - u[p] + 1].messages[v[p]]
              /\ list[p] \in ToSet(d[n - u[p] + 1].messages)
  <2>1. u[p] \in 1 .. n /\ v[p] \in DOMAIN ss[u[p]] /\ list[p] = ss[u[p]][v[p]]
    BY <1>9 DEF Flat
  <2>2. n - u[p] + 1 \in DOMAIN d /\ ss[u[p]] = d[n - u[p] + 1].messages
    BY <1>2, <1>6, <2>1
  <2>3. QED
    BY <2>1, <2>2 DEF ToSet
<1>11. ASSUME NEW p \in DOMAIN list, list[p] \in U
       PROVE  list[p] \notin out /\ Within(a, list[p], None, Last(d).next)
  <2>1. PICK i \in U : i = list[p]
    BY <1>11
  <2>2. PICK k \in DOMAIN d : i \in ToSet(d[k].messages)
    BY <1>10, <2>1
  <2>3. i \notin out /\ Within(a, i, None, Last(d).next)
    BY <2>2, AfterLast
  <2>4. QED
    BY <2>1, <2>3
<1>12. ASSUME NEW i \in U, i \notin out, Within(a, i, None, Last(d).next)
       PROVE  \E p \in DOMAIN list : list[p] = i
  <2>1. PICK k \in DOMAIN d : i \in ToSet(d[k].messages)
    BY ZenonT(30), <1>12, OnSomePage
  <2>2. PICK m \in DOMAIN d[k].messages : d[k].messages[m] = i
    BY <2>1 DEF ToSet
  <2>3. PICK h : h = n - k + 1
    OBVIOUS
  <2>4. h \in 1 .. n /\ n - h + 1 = k
    BY <1>2, <2>3
  <2>5. ss[h] = d[k].messages
    BY <1>6, <2>4
  <2>6. PICK p \in DOMAIN list : u[p] = h /\ v[p] = m
    BY <1>9, <2>2, <2>4, <2>5 DEF Flat
  <2>7. list[p] = i
    BY <1>10, <2>2, <2>4, <2>6
  <2>8. QED
    BY <2>7
<1>13. ASSUME NEW p \in DOMAIN list, NEW q \in DOMAIN list, p < q,
              list[p] \in U, list[q] \in U
       PROVE  Earlier(a, list[p], list[q])
  <2>1. PICK k \in DOMAIN d : k = n - u[p] + 1
    BY <1>10
  <2>2. PICK j \in DOMAIN d : j = n - u[q] + 1
    BY <1>10
  <2>3. u[p] < u[q] \/ (u[p] = u[q] /\ v[p] < v[q])
    BY <1>9, <1>13 DEF Flat
  <2>4. /\ list[p] \in ToSet(d[k].messages) /\ list[q] \in ToSet(d[j].messages)
        /\ v[p] \in DOMAIN d[k].messages /\ list[p] = d[k].messages[v[p]]
        /\ v[q] \in DOMAIN d[j].messages /\ list[q] = d[j].messages[v[q]]
    BY <1>10, <2>1, <2>2
  <2>5. CASE u[p] < u[q]
    <3>1. j < k
      BY <1>2, <1>10, <2>1, <2>2, <2>5
    <3>2. QED
      BY <1>13, <2>4, <3>1, PagesOrdered
  <2>6. CASE u[p] = u[q] /\ v[p] < v[q]
    <3>1. j = k
      BY <2>1, <2>2, <2>6
    <3>2. QED
      BY <1>13, <2>4, <2>6, <3>1 DEF Tiles, PageTiles
  <2>7. QED
    BY <2>3, <2>5, <2>6
<1>14. QED
  BY <1>8, <1>11, <1>12, <1>13

\* One page more, asked for with the last cursor.
LEMMA TilesGrow ==
    ASSUME NEW R, R \subseteq Nat \ {0}, NEW a, \A i \in R : a[i] \in Nat,
           NEW U, NEW out, NEW d \in Seq(Pages(R)), Tiles(d, out, U, a),
           NEW pg \in Pages(R), NEW c \in R \cup {None},
           PageTiles(pg, c, out, U, a),
           IF d = <<>> THEN c = None ELSE c = Last(d).next /\ c # None,
           c # None /\ pg.next # None => Earlier(a, pg.next, c)
    PROVE  /\ Append(d, pg) \in Seq(Pages(R))
           /\ Tiles(Append(d, pg), out, U, a)
<1>1. PICK n : n = Len(d)
  OBVIOUS
<1>2. /\ n \in Nat /\ DOMAIN d = 1 .. n /\ \A m \in 1 .. n : d[m] \in Pages(R)
      /\ Last(d) = d[n] /\ (d = <<>> <=> n = 0)
  BY <1>1, LenProperties, EmptySeq DEF Last
<1>3. PICK e : e = Append(d, pg)
  OBVIOUS
<1>4. /\ e \in Seq(Pages(R)) /\ Len(e) = n + 1 /\ DOMAIN e = 1 .. n + 1
      /\ \A k \in 1 .. n : e[k] = d[k]
      /\ e[n + 1] = pg
  BY <1>1, <1>2, <1>3, AppendProperties, LenProperties
<1>5. \A k \in 1 .. n : Cursor(e, k) = Cursor(d, k)
  <2>1. ASSUME NEW k \in 1 .. n, k # 1 PROVE e[k - 1] = d[k - 1]
    BY <1>2, <1>4, <2>1
  <2>2. QED
    BY <2>1 DEF Cursor
<1>6. Cursor(e, n + 1) = c
  <2>1. CASE n = 0
    BY <1>2, <2>1 DEF Cursor
  <2>2. CASE n # 0
    <3>1. n \in 1 .. n /\ n + 1 # 1 /\ n + 1 - 1 = n
      BY <1>2, <2>2
    <3>2. e[n] = d[n]
      BY <1>4, <3>1
    <3>3. QED
      BY <1>2, <2>2, <3>1, <3>2 DEF Cursor
  <2>3. QED
    BY <2>1, <2>2
<1>7. ASSUME NEW k \in DOMAIN e PROVE PageTiles(e[k], Cursor(e, k), out, U, a)
  <2>1. CASE k \in 1 .. n
    BY <1>2, <1>4, <1>5, <2>1 DEF Tiles
  <2>2. CASE k = n + 1
    BY <1>4, <1>6, <2>2
  <2>3. QED
    BY <1>2, <1>4, <2>1, <2>2
<1>8. ASSUME NEW k \in DOMAIN e, k < Len(e) PROVE e[k].next # None
  <2>1. k \in 1 .. n /\ e[k] = d[k]
    BY <1>2, <1>4, <1>8
  <2>2. CASE k = n
    BY <1>2, <2>1, <2>2
  <2>3. CASE k # n
    <3>1. k < Len(d)
      BY <1>1, <1>2, <2>1, <2>3
    <3>2. QED
      BY <1>2, <2>1, <3>1 DEF Tiles
  <2>4. QED
    BY <2>2, <2>3
<1>9. ASSUME NEW j \in DOMAIN e, NEW k \in DOMAIN e, j < k, e[k].next # None
      PROVE  Earlier(a, e[k].next, e[j].next)
  <2>1. j \in 1 .. n /\ e[j] = d[j]
    BY <1>2, <1>4, <1>9
  <2>2. CASE k \in 1 .. n
    BY <1>2, <1>4, <1>9, <2>1, <2>2 DEF Tiles
  <2>3. CASE k = n + 1
    <3>1. n \in 1 .. n /\ n # 0 /\ c = d[n].next /\ c # None
      BY <1>2, <2>1
    <3>2. e[k].next = pg.next
      BY <1>4, <2>3
    <3>3. Earlier(a, pg.next, d[n].next)
      BY <1>9, <3>1, <3>2
    <3>4. CASE j = n
      BY <2>1, <3>2, <3>3, <3>4
    <3>5. CASE j # n
      <4>1. j < n /\ j < Len(d)
        BY <1>1, <1>2, <2>1, <3>5
      <4>2. Earlier(a, d[n].next, d[j].next) /\ d[j].next # None
        BY <1>2, <2>1, <3>1, <4>1 DEF Tiles
      <4>3. pg.next \in R /\ d[n].next \in R /\ d[j].next \in R
        BY <1>2, <1>9, <2>1, <3>1, <3>2, <4>2 DEF Pages
      <4>4. /\ pg.next \in Nat /\ d[n].next \in Nat /\ d[j].next \in Nat
            /\ a[pg.next] \in Nat /\ a[d[n].next] \in Nat /\ a[d[j].next] \in Nat
        BY <4>3
      <4>5. QED
        BY <2>1, <3>2, <3>3, <4>2, <4>4, Transitive
    <3>6. QED
      BY <3>4, <3>5
  <2>4. QED
    BY <1>2, <1>4, <2>2, <2>3
<1>10. Tiles(e, out, U, a)
  BY <1>7, <1>8, <1>9 DEF Tiles
<1>11. QED
  BY <1>3, <1>4, <1>10

\* Pages tile on while rows come or are disturbed that they do not show.
LEMMA PageStays ==
    ASSUME NEW R, NEW a, NEW b, \A i \in R : b[i] = a[i],
           NEW U \in SUBSET R, NEW out, NEW V, NEW off,
           \A i \in V : \/ i \in U /\ (i \in off <=> i \in out)
                        \/ i \notin R /\ i \in off,
           NEW pg \in Pages(R), NEW c \in R \cup {None},
           PageTiles(pg, c, out, U, a)
    PROVE  PageTiles(pg, c, off, V, b)
<1>1. \A i, j \in R : Earlier(b, i, j) <=> Earlier(a, i, j)
  BY DEF Earlier
<1>2. /\ pg.messages \in Seq(R) /\ pg.next \in R \cup {None}
      /\ \A p \in DOMAIN pg.messages : pg.messages[p] \in R
      /\ ToSet(pg.messages) \subseteq R
  <2>1. pg.messages \in Seq(R) /\ pg.next \in R \cup {None}
    BY DEF Pages
  <2>2. \A p \in DOMAIN pg.messages : pg.messages[p] \in R
    BY <2>1
  <2>3. QED
    BY <2>1, <2>2 DEF ToSet
<1>3. ASSUME NEW i \in R PROVE Within(b, i, c, pg.next) <=> Within(a, i, c, pg.next)
  BY <1>1, <1>2 DEF Within
<1>4. ASSUME NEW i \in V
      PROVE  i \in ToSet(pg.messages) <=> i \notin off /\ Within(b, i, c, pg.next)
  BY <1>2, <1>3 DEF PageTiles
<1>5. ASSUME NEW p \in DOMAIN pg.messages, NEW q \in DOMAIN pg.messages, p < q,
             pg.messages[p] \in V, pg.messages[q] \in V
      PROVE  Earlier(b, pg.messages[p], pg.messages[q])
  <2>1. pg.messages[p] \in U /\ pg.messages[q] \in U
    BY <1>2, <1>5
  <2>2. QED
    BY <1>1, <1>5, <2>1 DEF PageTiles
<1>6. QED
  BY <1>4, <1>5 DEF PageTiles

LEMMA CursorType ==
    ASSUME NEW R, NEW d \in Seq(Pages(R)), NEW k \in DOMAIN d
    PROVE  Cursor(d, k) \in R \cup {None}
<1>1. CASE k = 1
  BY <1>1 DEF Cursor
<1>2. CASE k # 1
  <2>1. k - 1 \in DOMAIN d
    BY <1>2, LenProperties
  <2>2. d[k - 1] \in Pages(R)
    BY <2>1
  <2>3. QED
    BY <1>2, <2>2 DEF Cursor, Pages
<1>3. QED
  BY <1>1, <1>2

LEMMA TilesStay ==
    ASSUME NEW R, NEW a, NEW b, \A i \in R : b[i] = a[i],
           NEW U \in SUBSET R, NEW out, NEW V, NEW off,
           \A i \in V : \/ i \in U /\ (i \in off <=> i \in out)
                        \/ i \notin R /\ i \in off,
           NEW d \in Seq(Pages(R)), Tiles(d, out, U, a)
    PROVE  Tiles(d, off, V, b)
<1>1. \A k \in DOMAIN d : d[k] \in Pages(R) /\ d[k].next \in R \cup {None}
  <2>1. \A k \in DOMAIN d : d[k] \in Pages(R)
    OBVIOUS
  <2>2. QED
    BY <2>1 DEF Pages
<1>2. ASSUME NEW k \in DOMAIN d PROVE PageTiles(d[k], Cursor(d, k), off, V, b)
  <2>1. PageTiles(d[k], Cursor(d, k), out, U, a)
    BY DEF Tiles
  <2>2. PICK pg \in Pages(R) : pg = d[k]
    BY <1>1
  <2>3. PICK c \in R \cup {None} : c = Cursor(d, k)
    BY CursorType
  <2>4. PageTiles(pg, c, off, V, b)
    BY <2>1, <2>2, <2>3, PageStays
  <2>5. QED
    BY <2>2, <2>3, <2>4
<1>3. ASSUME NEW j \in DOMAIN d, NEW k \in DOMAIN d, j < k, d[k].next # None
      PROVE  Earlier(b, d[k].next, d[j].next)
  <2>1. Earlier(a, d[k].next, d[j].next)
    BY <1>3 DEF Tiles
  <2>2. d[j].next # None
    <3>1. j < Len(d)
      BY <1>3, LenProperties
    <3>2. QED
      BY <3>1 DEF Tiles
  <2>3. d[k].next \in R /\ d[j].next \in R
    BY <1>1, <1>3, <2>2
  <2>4. QED
    BY <2>1, <2>3 DEF Earlier
<1>4. QED
  BY <1>2, <1>3 DEF Tiles

\* A message the tab hears goes to the end of the newest page; where it matters
\* it is newer than what is there and than all cursors.
LEMMA TilesHear ==
    ASSUME NEW R, R \subseteq Nat \ {0}, NEW a, \A i \in R : a[i] \in Nat,
           NEW U \in SUBSET R, NEW out, NEW off, NEW d \in Seq(Pages(R)),
           Tiles(d, out, U, a), NEW i \in R,
           \A j \in U : j \in off <=> j \in out /\ j # i,
           i \in U => /\ i \in out
                      /\ \A j \in U : j \notin out => Earlier(a, j, i)
                      /\ \A k \in DOMAIN d : \/ d[k].next = None \/ d[k].next = i
                                             \/ Earlier(a, d[k].next, i)
    PROVE  Appended(d, i) \in Seq(Pages(R)) /\ Tiles(Appended(d, i), off, U, a)
<1>1. PICK n : n = Len(d)
  OBVIOUS
<1>2. n \in Nat /\ DOMAIN d = 1 .. n /\ \A k \in 1 .. n : d[k] \in Pages(R)
  BY <1>1, LenProperties
<1>3. PICK e : e = Appended(d, i)
  OBVIOUS
<1>4. CASE d = <<>>
  <2>1. e = d /\ DOMAIN d = {}
    BY <1>3, <1>4 DEF Appended
  <2>2. QED
    BY <1>3, <2>1 DEF Tiles
<1>5. CASE d # <<>>
  <2>1. n # 0 /\ 1 \in 1 .. n
    BY <1>1, <1>2, <1>5, EmptySeq
  <2>2. PICK m : m = Append(d[1].messages, i)
    OBVIOUS
  <2>3. PICK l : l = Len(d[1].messages)
    OBVIOUS
  <2>4. /\ d[1].messages \in Seq(R) /\ l \in Nat /\ DOMAIN d[1].messages = 1 .. l
        /\ m \in Seq(R) /\ Len(m) = l + 1 /\ DOMAIN m = 1 .. l + 1
        /\ \A p \in 1 .. l : m[p] = d[1].messages[p]
        /\ m[l + 1] = i
    <3>1. d[1].messages \in Seq(R)
      BY <1>2, <2>1 DEF Pages
    <3>2. QED
      BY <2>2, <2>3, <3>1, AppendProperties, LenProperties
  <2>5. PICK pg : pg = [d[1] EXCEPT !.messages = m]
    OBVIOUS
  <2>6. pg \in Pages(R) /\ pg.messages = m /\ pg.next = d[1].next
    BY <1>2, <2>1, <2>4, <2>5 DEF Pages
  <2>7. e = [d EXCEPT ![1] = pg]
    BY <1>3, <1>5, <2>2, <2>5 DEF Appended
  <2>8. /\ e \in Seq(Pages(R)) /\ Len(e) = n /\ DOMAIN e = 1 .. n
        /\ e[1] = pg /\ \A k \in 1 .. n : k # 1 => e[k] = d[k]
    BY <1>1, <1>2, <2>1, <2>6, <2>7, ExceptSeq, LenProperties
  <2>9. \A k \in 1 .. n : e[k].next = d[k].next
    BY <2>6, <2>8
  <2>10. \A k \in 1 .. n : Cursor(e, k) = Cursor(d, k)
    <3>1. ASSUME NEW k \in 1 .. n, k # 1 PROVE e[k - 1].next = d[k - 1].next
      <4>1. k - 1 \in 1 .. n
        BY <1>2, <3>1
      <4>2. QED
        BY <2>9, <4>1
    <3>2. QED
      BY <3>1 DEF Cursor
  <2>11. ToSet(m) = ToSet(d[1].messages) \cup {i}
    <3>1. \A p \in 1 .. l + 1 : p \in 1 .. l \/ p = l + 1
      BY <2>4
    <3>2. \A p \in 1 .. l : p \in 1 .. l + 1
      BY <2>4
    <3>3. l + 1 \in 1 .. l + 1
      BY <2>4
    <3>4. QED
      BY <2>4, <3>1, <3>2, <3>3 DEF ToSet
  <2>12. PageTiles(pg, None, off, U, a)
    <3>1. PageTiles(d[1], None, out, U, a)
      BY <1>2, <2>1 DEF Tiles, Cursor
    <3>2. i \in U => Within(a, i, None, d[1].next)
      BY <1>2, <2>1 DEF Within
    <3>3. ASSUME NEW j \in U
          PROVE  j \in ToSet(m) <=> j \notin off /\ Within(a, j, None, d[1].next)
      BY <2>11, <3>1, <3>2 DEF PageTiles
    <3>4. ASSUME NEW p \in DOMAIN m, NEW q \in DOMAIN m, p < q, m[p] \in U, m[q] \in U
          PROVE  Earlier(a, m[p], m[q])
      <4>1. p \in 1 .. l /\ m[p] = d[1].messages[p]
        BY <2>4, <3>4
      <4>2. CASE q \in 1 .. l
        BY <2>4, <3>1, <3>4, <4>1, <4>2 DEF PageTiles
      <4>3. CASE q = l + 1
        <5>1. m[q] = i /\ i \in U
          BY <2>4, <3>4, <4>3
        <5>2. m[p] \in ToSet(d[1].messages)
          BY <2>4, <4>1 DEF ToSet
        <5>3. m[p] \notin out
          BY <3>1, <3>4, <5>2 DEF PageTiles
        <5>4. QED
          BY <3>4, <5>1, <5>3
      <4>4. QED
        BY <2>4, <4>2, <4>3
    <3>5. QED
      BY <2>6, <3>3, <3>4 DEF PageTiles
  <2>13. ASSUME NEW k \in 1 .. n, k # 1
         PROVE  PageTiles(d[k], Cursor(d, k), off, U, a)
    <3>1. PICK h \in 1 .. n : h = k - 1
      BY <1>2, <2>13
    <3>2. h < n /\ Cursor(d, k) = d[h].next
      BY <1>2, <2>13, <3>1 DEF Cursor
    <3>3. d[h].next # None /\ d[h].next \in R
      <4>1. d[h].next # None
        BY <1>1, <1>2, <3>2 DEF Tiles
      <4>2. QED
        BY <1>2, <4>1 DEF Pages
    <3>4. /\ d[h].next \in Nat /\ a[d[h].next] \in Nat /\ i \in Nat /\ a[i] \in Nat
      BY <3>3
    <3>5. i \in U => ~Earlier(a, i, d[h].next)
      BY <1>2, <3>3, <3>4, Ordered
    <3>6. PageTiles(d[k], d[h].next, out, U, a)
      BY <1>2, <3>2 DEF Tiles
    <3>7. ASSUME NEW j \in U
          PROVE  j \in ToSet(d[k].messages)
                    <=> j \notin off /\ Within(a, j, d[h].next, d[k].next)
      BY <3>3, <3>5, <3>6 DEF PageTiles, Within
    <3>8. QED
      BY <3>2, <3>6, <3>7 DEF PageTiles
  <2>14. \A k \in DOMAIN e : PageTiles(e[k], Cursor(e, k), off, U, a)
    <3>1. ASSUME NEW k \in 1 .. n PROVE PageTiles(e[k], Cursor(e, k), off, U, a)
      <4>1. CASE k = 1
        BY <2>8, <2>12, <4>1 DEF Cursor
      <4>2. CASE k # 1
        BY <2>8, <2>10, <2>13, <4>2
      <4>3. QED
        BY <4>1, <4>2
    <3>2. QED
      BY <2>8, <3>1
  <2>15. \A k \in DOMAIN e : k < Len(e) => e[k].next # None
    BY <1>1, <1>2, <2>8, <2>9 DEF Tiles
  <2>16. \A j, k \in DOMAIN e : j < k /\ e[k].next # None
            => Earlier(a, e[k].next, e[j].next)
    BY <1>2, <2>8, <2>9 DEF Tiles
  <2>17. QED
    BY <1>3, <2>8, <2>14, <2>15, <2>16 DEF Tiles
<1>6. QED
  BY <1>4, <1>5

-------------------------------------------------------------------------------
(* The cache's invariant.                                                     *)

Senders == Gens \X {"text", "edit", "clip"}

\* What the server sends over the socket.
Announced(R) == {[kind |-> "new", id |-> i] : i \in R}
Answered(R) == [kind : {"ack"}, id : R \cup {None}, of : Senders]
Refused == [kind : {"nack"}, id : {None}, of : Senders]
Events(R) == Announced(R) \cup Answered(R) \cup Refused

Queries(R) == [kind : {"none", "all", "next"}, old : Seq(Pages(R)), got : Seq(Pages(R)),
               answered : BOOLEAN, reply : Pages(R) \cup {<<>>}]

ServerTypes ==
    /\ rows \subseteq Ids
    /\ at \in [Ids -> 0 .. MaxClock]
    /\ clock \in 1 .. MaxClock
    /\ \A i \in rows : at[i] <= clock

QueryTypes ==
    /\ query \in Queries(rows)
    /\ query.kind = "none" => query = Idle
    /\ query.answered => query.reply \in Pages(rows)
    /\ query.kind = "next" => query.old # <<>> /\ Last(query.old).next # None
    /\ query.got # <<>> => Last(query.got).next # None

TabTypes ==
    /\ events \in Seq(Events(rows))
    /\ data \in Seq(Pages(rows))
    /\ QueryTypes
    /\ raced \subseteq rows
    /\ missed \subseteq rows

\* The rows the properties are about.
Steady == {i \in rows : Undisturbed(i)}

\* Messages arrive once each and in the order in which they were stored; those
\* on their way are later than what the tab has, or disturbed by a fetch.
EventInv ==
    /\ \A p, q \in DOMAIN events :
          events[p].id = events[q].id /\ events[p].id # None => p = q
    /\ \A p, q \in DOMAIN events :
          p < q /\ events[p].id # None /\ events[q].id # None
             => at[events[p].id] <= at[events[q].id]
    /\ \A i \in Pending \cap Steady, j \in Steady \ Pending : at[j] <= at[i]
    /\ \A i \in Pending \cap Steady, k \in DOMAIN data :
          data[k].next # None => at[data[k].next] <= at[i]
    /\ query.kind # "none" => Pending \subseteq raced \cup missed

\* What a fetch has got so far tiles the history.
FetchInv ==
    /\ query.kind = "next" => Tiles(query.old, {}, Steady, at)
    /\ Tiles(query.got, {}, Steady, at)
    /\ query.answered =>
          /\ PageTiles(query.reply, Param, {}, Steady, at)
          /\ Param # None /\ query.reply.next # None
                => Earlier(at, query.reply.next, Param)

\* What is loaded does.
DataInv == Tiles(data, Pending, Steady, at)

CacheInv == ServerTypes /\ TabTypes /\ EventInv /\ DataInv /\ FetchInv

\* The ids on their way.
Coming(es) == {es[p].id : p \in DOMAIN es} \ {None}

LEMMA EventTypes ==
    ASSUME NEW R, NEW e \in Events(R)
    PROVE  /\ e.kind \in {"new", "ack", "nack"}
           /\ e.id \in R \cup {None}
           /\ e.kind = "nack" => e.id = None
           /\ e.kind = "new" => e.id \in R
<1>1. CASE e \in Announced(R)
  BY <1>1 DEF Announced
<1>2. CASE e \in Answered(R)
  BY <1>2 DEF Answered
<1>3. CASE e \in Refused
  BY <1>3 DEF Refused
<1>4. QED
  BY <1>1, <1>2, <1>3 DEF Events

LEMMA PendingIs ==
    ASSUME NEW R, NEW es \in Seq(Events(R))
    PROVE  {e.id : e \in {f \in ToSet(es) : f.kind \in {"new", "ack"}}} \ {None} = Coming(es)
<1>1. \A p \in DOMAIN es : es[p] \in Events(R)
  OBVIOUS
<1>2. \A p \in DOMAIN es : es[p].id # None => es[p].kind \in {"new", "ack"}
  BY <1>1, EventTypes
<1>3. QED
  BY <1>2 DEF Coming, ToSet

LEMMA TypesGrow ==
    ASSUME NEW R, NEW S, R \subseteq S
    PROVE  /\ Pages(R) \subseteq Pages(S) /\ Seq(Pages(R)) \subseteq Seq(Pages(S))
           /\ Events(R) \subseteq Events(S) /\ Seq(Events(R)) \subseteq Seq(Events(S))
           /\ Queries(R) \subseteq Queries(S)
<1>1. Seq(R) \subseteq Seq(S)
  BY SeqMonotonic
<1>2. Pages(R) \subseteq Pages(S)
  BY <1>1 DEF Pages
<1>3. Seq(Pages(R)) \subseteq Seq(Pages(S))
  BY <1>2, SeqMonotonic
<1>4. Events(R) \subseteq Events(S)
  <2>1. Announced(R) \subseteq Announced(S)
    BY DEF Announced
  <2>2. Answered(R) \subseteq Answered(S)
    BY DEF Answered
  <2>3. QED
    BY <2>1, <2>2 DEF Events
<1>5. Seq(Events(R)) \subseteq Seq(Events(S))
  BY <1>4, SeqMonotonic
<1>6. Queries(R) \subseteq Queries(S)
  BY <1>2, <1>3 DEF Queries
<1>7. QED
  BY <1>2, <1>3, <1>4, <1>5, <1>6

\* A steady row shares its millisecond with no other.
LEMMA Untied ==
    ASSUME NEW i \in Steady, NEW j \in rows, j # i
    PROVE  at[j] # at[i]
BY DEF Steady, Undisturbed, Tied

LEMMA RowTypes ==
    ASSUME ServerTypes
    PROVE  /\ rows \subseteq Nat \ {0} /\ IsFiniteSet(rows) /\ None \notin rows
           /\ \A i \in rows : at[i] \in Nat
           /\ clock \in Nat
<1>1. rows \subseteq Nat \ {0} /\ \A i \in rows : at[i] \in 0 .. MaxClock
  BY IdsAssumption DEF ServerTypes
<1>2. IsFiniteSet(rows)
  BY IdsAssumption, FS_Subset DEF ServerTypes
<1>3. \A i \in rows : at[i] \in Nat
  BY <1>1, ClockAssumption
<1>4. QED
  BY <1>1, <1>2, <1>3, ClockAssumption DEF ServerTypes, None

\* The cursor of the request that runs.
LEMMA ParamType ==
    ASSUME TabTypes, query.kind # "none"
    PROVE  /\ Param \in rows \cup {None}
           /\ query.kind = "next" =>
                 query.old # <<>> /\ Param = Last(query.old).next /\ Param # None
           /\ query.kind = "all" =>
                 IF query.got = <<>> THEN Param = None
                                     ELSE Param = Last(query.got).next /\ Param # None
<1>1. /\ query.old \in Seq(Pages(rows)) /\ query.got \in Seq(Pages(rows))
      /\ query.kind \in {"all", "next"}
  BY DEF TabTypes, QueryTypes, Queries
<1>2. ASSUME NEW d \in Seq(Pages(rows)), d # <<>> PROVE Last(d).next \in rows \cup {None}
  <2>1. d[Len(d)] \in Pages(rows)
    BY <1>2, EmptySeq, LenProperties
  <2>2. QED
    BY <2>1 DEF Last, Pages
<1>3. CASE query.kind = "next"
  <2>1. query.old # <<>> /\ Last(query.old).next # None
    BY <1>3 DEF TabTypes, QueryTypes
  <2>2. Last(query.old).next \in rows \cup {None}
    BY <1>1, <1>2, <2>1
  <2>3. Param = Last(query.old).next
    BY <1>3, Zenon DEF Param
  <2>4. QED
    BY <1>3, <2>1, <2>2, <2>3
<1>4. CASE query.kind = "all"
  BY <1>1, <1>2, <1>4 DEF TabTypes, QueryTypes, Param
<1>5. QED
  BY <1>1, <1>3, <1>4

\* A fetch that runs keeps what it has while rows come or are disturbed.
LEMMA FetchStays ==
    ASSUME CacheInv, query' = query, rows \subseteq rows', \A i \in rows : at'[i] = at[i],
           query.kind # "none" => Steady' \subseteq Steady
    PROVE  QueryTypes' /\ FetchInv'
<1>1. QueryTypes'
  <2>1. Pages(rows) \subseteq Pages(rows') /\ Queries(rows) \subseteq Queries(rows')
    BY TypesGrow
  <2>2. QED
    BY <2>1 DEF CacheInv, TabTypes, QueryTypes
<1>2. PICK V : V = Steady'
  OBVIOUS
<1>3. PICK b : b = at'
  OBVIOUS
<1>4. CASE query.kind = "none"
  <2>1. query.got = <<>> /\ query.answered = FALSE
    BY <1>4 DEF CacheInv, TabTypes, QueryTypes, Idle
  <2>2. Tiles(<<>>, {}, V, b)
    BY DEF Tiles
  <2>3. QED
    BY <1>1, <1>2, <1>3, <1>4, <2>1, <2>2 DEF FetchInv
<1>5. CASE query.kind # "none"
  <2>1. /\ V \subseteq Steady /\ Steady \in SUBSET rows
        /\ \A i \in rows : b[i] = at[i]
    BY <1>2, <1>3, <1>5 DEF Steady
  <2>2. \A i \in V : i \in Steady /\ (i \in {} <=> i \in {})
    BY <2>1
  <2>3. ASSUME NEW d \in Seq(Pages(rows)), Tiles(d, {}, Steady, at)
        PROVE  Tiles(d, {}, V, b)
    BY <2>1, <2>2, <2>3, TilesStay
  <2>4. /\ query.old \in Seq(Pages(rows)) /\ query.got \in Seq(Pages(rows))
        /\ query.answered => query.reply \in Pages(rows)
    BY DEF CacheInv, TabTypes, QueryTypes, Queries
  <2>5. query.kind = "next" => Tiles(query.old, {}, V, b)
    BY <2>3, <2>4 DEF CacheInv, FetchInv
  <2>6. Tiles(query.got, {}, V, b)
    BY <2>3, <2>4 DEF CacheInv, FetchInv
  <2>7. PICK c \in rows \cup {None} : c = Param
    BY <1>5, ParamType DEF CacheInv
  <2>8. Param' = Param
    BY DEF Param
  <2>9. ASSUME query.answered
        PROVE  /\ PageTiles(query.reply, c, {}, V, b)
               /\ c # None /\ query.reply.next # None => Earlier(b, query.reply.next, c)
    <3>1. /\ PageTiles(query.reply, c, {}, Steady, at)
          /\ c # None /\ query.reply.next # None => Earlier(at, query.reply.next, c)
      BY <2>7, <2>9 DEF CacheInv, FetchInv
    <3>2. query.reply \in Pages(rows)
      BY <2>4, <2>9
    <3>3. PageTiles(query.reply, c, {}, V, b)
      BY <2>1, <2>2, <3>1, <3>2, PageStays
    <3>4. query.reply.next \in rows \cup {None}
      BY <3>2 DEF Pages
    <3>5. QED
      BY <2>1, <3>1, <3>3, <3>4 DEF Earlier
  <2>10. QED
    BY <1>1, <1>2, <1>3, <2>5, <2>6, <2>7, <2>8, <2>9 DEF FetchInv
<1>6. QED
  BY <1>4, <1>5

LEMMA PendingType ==
    ASSUME TabTypes
    PROVE  /\ Pending = Coming(events)
           /\ Pending \subseteq rows
<1>1. events \in Seq(Events(rows))
  BY DEF TabTypes
<1>2. Pending = Coming(events)
  BY <1>1, PendingIs DEF Pending
<1>3. \A p \in DOMAIN events : events[p].id \in rows \cup {None}
  BY <1>1, EventTypes
<1>4. QED
  BY <1>2, <1>3 DEF Coming

\* What is sent comes last.
LEMMA Sent ==
    ASSUME NEW R, NEW es \in Seq(Events(R)), NEW e \in Events(R)
    PROVE  /\ Append(es, e) \in Seq(Events(R))
           /\ DOMAIN Append(es, e) = 1 .. Len(es) + 1 /\ DOMAIN es = 1 .. Len(es)
           /\ Len(es) \in Nat
           /\ Append(es, e)[Len(es) + 1] = e
           /\ \A p \in DOMAIN es : Append(es, e)[p] = es[p]
           /\ Coming(Append(es, e)) = Coming(es) \cup ({e.id} \ {None})
<1>1. /\ Append(es, e) \in Seq(Events(R))
      /\ DOMAIN Append(es, e) = 1 .. Len(es) + 1 /\ DOMAIN es = 1 .. Len(es)
      /\ Len(es) \in Nat
      /\ Append(es, e)[Len(es) + 1] = e
      /\ \A p \in DOMAIN es : Append(es, e)[p] = es[p]
  BY AppendProperties, LenProperties
<1>2. PICK f : f = Append(es, e)
  OBVIOUS
<1>3. {f[p].id : p \in DOMAIN f} = {es[p].id : p \in DOMAIN es} \cup {e.id}
  BY <1>1, <1>2
<1>4. QED
  BY <1>1, <1>2, <1>3 DEF Coming

\* A row is stored.
LEMMA Stored ==
    ASSUME CacheInv, NEW i \in Ids, NEW e, Store(i, e), e.id = i,
           e \in Events(rows \cup {i}), UNCHANGED <<connected, data, query>>
    PROVE  CacheInv'
<1>1. /\ i \notin rows /\ rows' = rows \cup {i} /\ rows \subseteq rows'
      /\ \A j \in rows : at'[j] = at[j]
      /\ at'[i] = clock' /\ at' \in [Ids -> 0 .. MaxClock]
      /\ clock' \in 1 .. MaxClock /\ clock' >= clock
      /\ data' = data /\ query' = query
  BY ClockAssumption DEF CacheInv, ServerTypes, Store
<1>2. /\ \A j \in rows : at[j] \in Nat /\ at[j] <= at'[i]
      /\ at'[i] \in Nat /\ rows \subseteq Nat \ {0} /\ i # None
  <2>1. \A j \in rows : at[j] \in Nat /\ at[j] <= clock
    BY RowTypes DEF CacheInv, ServerTypes
  <2>2. clock \in Nat /\ clock' \in Nat /\ rows \subseteq Nat \ {0}
    BY <1>1, RowTypes, ClockAssumption DEF CacheInv
  <2>3. QED
    BY <1>1, <2>1, <2>2, IdsAssumption DEF None
<1>3. ServerTypes'
  <2>1. \A j \in rows' : at'[j] <= clock'
    BY <1>1, <1>2
  <2>2. rows' \subseteq Ids
    BY <1>1 DEF CacheInv, ServerTypes
  <2>3. QED
    BY <1>1, <2>1, <2>2 DEF ServerTypes
<1>4. /\ raced \subseteq raced' /\ missed \subseteq missed'
      /\ raced' \subseteq raced \cup {i} /\ missed' \subseteq missed \cup {i}
      /\ query.kind # "none" => i \in raced'
      /\ ~connected => i \in missed' /\ events' = events
      /\ connected => events' = Append(events, e)
  BY DEF Store
<1>5. PICK V : V = Steady'
  OBVIOUS
<1>6. PICK b : b = at'
  OBVIOUS
<1>7. PICK P : P = Pending'
  OBVIOUS
<1>8. \A j \in V : j \in Steady \/ (j = i /\ connected /\ query.kind = "none")
  <2>1. ASSUME NEW j \in Steady' PROVE j \in Steady \/ j = i
    <3>1. /\ j \in rows' /\ j \notin raced' \cup missed'
          /\ ~\E h \in rows' \ {j} : at'[h] = at'[j]
      BY <2>1 DEF Steady, Undisturbed, Tied
    <3>2. CASE j # i
      <4>1. j \in rows /\ j \notin raced \cup missed
        BY <1>1, <1>4, <3>1, <3>2
      <4>2. ~\E h \in rows \ {j} : at[h] = at[j]
        BY <1>1, <3>1, <4>1
      <4>3. QED
        BY <4>1, <4>2 DEF Steady, Undisturbed, Tied
    <3>3. QED
      BY <3>2
  <2>2. i \in Steady' => connected /\ query.kind = "none"
    BY <1>4 DEF Steady, Undisturbed
  <2>3. QED
    BY <1>5, <2>1, <2>2
<1>9. /\ TabTypes /\ Pending = Coming(events) /\ Pending \subseteq rows
      /\ Seq(Events(rows)) \subseteq Seq(Events(rows'))
      /\ Seq(Pages(rows)) \subseteq Seq(Pages(rows'))
      /\ data \in Seq(Pages(rows)) /\ events \in Seq(Events(rows))
      /\ events \in Seq(Events(rows'))
  BY <1>1, PendingType, TypesGrow DEF CacheInv, TabTypes
<1>10. PICK es : es = events'
  OBVIOUS
<1>11. /\ Append(events, e) \in Seq(Events(rows'))
       /\ DOMAIN Append(events, e) = 1 .. Len(events) + 1
       /\ DOMAIN events = 1 .. Len(events) /\ Len(events) \in Nat
       /\ Append(events, e)[Len(events) + 1] = e
       /\ \A p \in DOMAIN events : Append(events, e)[p] = events[p]
       /\ Coming(Append(events, e)) = Coming(events) \cup ({e.id} \ {None})
  BY <1>1, <1>9, Sent
<1>12. es \in Seq(Events(rows')) /\ events' \in Seq(Events(rows'))
  BY <1>4, <1>9, <1>10, <1>11
<1>13. QueryTypes' /\ FetchInv'
  BY <1>1, <1>5, <1>8, FetchStays
<1>14. TabTypes'
  <2>1. raced' \subseteq rows' /\ missed' \subseteq rows'
    BY <1>1, <1>4, <1>9 DEF TabTypes
  <2>2. data' \in Seq(Pages(rows'))
    BY <1>1, <1>9
  <2>3. QED
    BY <1>12, <1>13, <2>1, <2>2 DEF TabTypes
<1>15. P = IF connected THEN Pending \cup {i} ELSE Pending
  <2>1. Pending' = Coming(events')
    BY <1>12, PendingIs DEF Pending
  <2>2. QED
    BY <1>2, <1>4, <1>7, <1>9, <1>11, <2>1
<1>16. Tiles(data, P, V, b)
  <2>1. \A j \in V : \/ j \in Steady /\ (j \in P <=> j \in Pending)
                     \/ j \notin rows /\ j \in P
    BY <1>1, <1>8, <1>15 DEF Steady
  <2>2. Steady \in SUBSET rows /\ \A j \in rows : b[j] = at[j]
    BY <1>1, <1>6 DEF Steady
  <2>3. QED
    BY <1>9, <2>1, <2>2, TilesStay DEF CacheInv, DataInv
<1>17. ASSUME NEW p \in DOMAIN es, NEW q \in DOMAIN es, es[p].id # None, es[q].id # None
       PROVE  /\ es[p].id = es[q].id => p = q
              /\ p < q => b[es[p].id] <= b[es[q].id]
  <2>1. \A r \in DOMAIN events : events[r].id \in rows \cup {None}
    BY <1>9, EventTypes
  <2>2. ASSUME p \in DOMAIN events, q \in DOMAIN events, es[p] = events[p], es[q] = events[q]
        PROVE  /\ es[p].id = es[q].id => p = q
               /\ p < q => b[es[p].id] <= b[es[q].id]
    <3>1. events[p].id \in rows /\ events[q].id \in rows
      BY <1>17, <2>1, <2>2
    <3>2. /\ events[p].id = events[q].id => p = q
          /\ p < q => at[events[p].id] <= at[events[q].id]
      BY <1>17, <2>2 DEF CacheInv, EventInv
    <3>3. QED
      BY <1>1, <1>6, <2>2, <3>1, <3>2
  <2>3. CASE ~connected
    BY <1>4, <1>10, <2>2, <2>3
  <2>4. CASE connected
    <3>1. es = Append(events, e)
      BY <1>4, <1>10, <2>4
    <3>2. CASE p \in DOMAIN events /\ q \in DOMAIN events
      BY <1>11, <2>2, <3>1, <3>2
    <3>3. CASE q \notin DOMAIN events /\ p \in DOMAIN events
      <4>1. q = Len(events) + 1 /\ es[q].id = i /\ es[p] = events[p]
        BY <1>11, <1>17, <3>1, <3>3
      <4>2. es[p].id \in rows
        BY <1>17, <2>1, <3>3, <4>1
      <4>3. QED
        BY <1>1, <1>2, <1>6, <4>1, <4>2
    <3>4. CASE p \notin DOMAIN events
      <4>1. p = Len(events) + 1 /\ es[p].id = i
        BY <1>11, <1>17, <3>1, <3>4
      <4>2. CASE q \in DOMAIN events
        <5>1. es[q].id \in rows
          BY <1>11, <1>17, <2>1, <3>1, <4>2
        <5>2. q <= Len(events) /\ q \in Nat
          BY <1>11, <4>2
        <5>3. QED
          BY <1>1, <1>11, <4>1, <5>1, <5>2
      <4>3. CASE q \notin DOMAIN events
        <5>1. q = Len(events) + 1
          BY <1>11, <1>17, <3>1, <4>3
        <5>2. QED
          BY <1>11, <4>1, <5>1
      <4>4. QED
        BY <4>2, <4>3
    <3>5. QED
      BY <3>2, <3>3, <3>4
  <2>5. QED
    BY <2>3, <2>4
<1>18. ASSUME NEW x \in P \cap V
       PROVE  /\ \A j \in V \ P : b[j] <= b[x]
              /\ \A k \in DOMAIN data : data[k].next # None => b[data[k].next] <= b[x]
  <2>1. \A k \in DOMAIN data : data[k].next \in rows \cup {None}
    <3>1. \A k \in DOMAIN data : data[k] \in Pages(rows)
      BY <1>9
    <3>2. QED
      BY <3>1 DEF Pages
  <2>2. \A j \in V \ P : j \in Steady \ Pending
    BY <1>8, <1>15
  <2>3. CASE x = i
    <3>1. \A j \in Steady : j \in rows
      BY DEF Steady
    <3>2. QED
      BY <1>1, <1>2, <1>6, <2>1, <2>2, <2>3, <3>1
  <2>4. CASE x # i
    <3>1. x \in Pending \cap Steady
      BY <1>8, <1>15, <1>18, <2>4
    <3>2. /\ \A j \in Steady \ Pending : at[j] <= at[x]
          /\ \A k \in DOMAIN data : data[k].next # None => at[data[k].next] <= at[x]
      BY <3>1 DEF CacheInv, EventInv
    <3>3. x \in rows /\ \A j \in Steady : j \in rows
      BY <3>1 DEF Steady
    <3>4. QED
      BY <1>1, <1>6, <2>1, <2>2, <3>2, <3>3
  <2>5. QED
    BY <2>3, <2>4
<1>19. query'.kind # "none" => P \subseteq raced' \cup missed'
  BY <1>1, <1>4, <1>15 DEF CacheInv, EventInv
<1>20. EventInv'
  <2>1. /\ \A p, q \in DOMAIN es : es[p].id = es[q].id /\ es[p].id # None => p = q
        /\ \A p, q \in DOMAIN es :
              p < q /\ es[p].id # None /\ es[q].id # None
                 => b[es[p].id] <= b[es[q].id]
    BY <1>17
  <2>2. data' = data
    BY <1>1
  <2>3. QED
    BY <1>5, <1>6, <1>7, <1>10, <1>18, <1>19, <2>1, <2>2 DEF EventInv
<1>21. DataInv'
  BY <1>1, <1>5, <1>6, <1>7, <1>16 DEF DataInv
<1>22. QED
  BY <1>3, <1>13, <1>14, <1>20, <1>21 DEF CacheInv

\* A step that moves none of it.
LEMMA Unmoved ==
    ASSUME CacheInv, UNCHANGED <<rows, at, clock, events, data, query, raced, missed>>
    PROVE  CacheInv'
BY DEF CacheInv, ServerTypes, TabTypes, QueryTypes, EventInv, FetchInv, DataInv, Steady,
       Undisturbed, Tied, Pending, Param

\* What is sent without a message changes nothing.
LEMMA Noted ==
    ASSUME CacheInv, NEW e \in Events(rows), e.id = None, events' = Append(events, e),
           UNCHANGED <<rows, at, clock, data, query, raced, missed>>
    PROVE  CacheInv'
<1>1. /\ events \in Seq(Events(rows)) /\ Pending = Coming(events)
  BY PendingType DEF CacheInv, TabTypes
<1>2. PICK es : es = Append(events, e)
  OBVIOUS
<1>3. /\ es \in Seq(Events(rows))
      /\ DOMAIN es = 1 .. Len(events) + 1
      /\ DOMAIN events = 1 .. Len(events) /\ Len(events) \in Nat
      /\ es[Len(events) + 1] = e
      /\ \A p \in DOMAIN events : es[p] = events[p]
      /\ Coming(es) = Coming(events)
  <2>1. /\ Append(events, e) \in Seq(Events(rows))
        /\ DOMAIN Append(events, e) = 1 .. Len(events) + 1
        /\ DOMAIN events = 1 .. Len(events) /\ Len(events) \in Nat
        /\ Append(events, e)[Len(events) + 1] = e
        /\ \A p \in DOMAIN events : Append(events, e)[p] = events[p]
        /\ Coming(Append(events, e)) = Coming(events) \cup ({e.id} \ {None})
    BY <1>1, Sent
  <2>2. Coming(events) \cup ({e.id} \ {None}) = Coming(events)
    OBVIOUS
  <2>3. QED
    BY <1>2, <2>1, <2>2
<1>4. Pending' = Pending
  BY <1>1, <1>2, <1>3, PendingIs DEF Pending
<1>5. Steady' = Steady /\ Param' = Param
  BY DEF Steady, Undisturbed, Tied, Param
<1>6. ServerTypes' /\ TabTypes' /\ FetchInv' /\ DataInv'
  BY <1>2, <1>3, <1>4, <1>5
     DEF CacheInv, ServerTypes, TabTypes, QueryTypes, FetchInv, DataInv
<1>7. \A p \in DOMAIN es : es[p].id # None => p \in DOMAIN events /\ es[p] = events[p]
  BY <1>3
<1>8. /\ \A p, q \in DOMAIN es : es[p].id = es[q].id /\ es[p].id # None => p = q
      /\ \A p, q \in DOMAIN es :
            p < q /\ es[p].id # None /\ es[q].id # None
               => at[es[p].id] <= at[es[q].id]
  BY <1>7 DEF CacheInv, EventInv
<1>9. EventInv'
  BY <1>2, <1>4, <1>5, <1>8 DEF CacheInv, EventInv
<1>10. QED
  BY <1>6, <1>9 DEF CacheInv

\* While a fetch runs no message on its way is steady.
LEMMA NoneSteady ==
    ASSUME CacheInv, query.kind # "none"
    PROVE  Pending \cap Steady = {}
BY DEF CacheInv, EventInv, Steady, Undisturbed

\* Nor is one after the step.
LEMMA EventsStay ==
    ASSUME CacheInv, UNCHANGED <<rows, at, events>>, Pending \cap Steady' = {},
           query'.kind # "none" => Pending \subseteq raced' \cup missed'
    PROVE  EventInv'
<1>1. Pending' = Pending
  BY DEF Pending
<1>2. PICK V : V = Steady'
  OBVIOUS
<1>3. Pending \cap V = {}
  BY <1>2
<1>4. QED
  BY <1>1, <1>2, <1>3 DEF CacheInv, EventInv

LEMMA Disconnected ==
    ASSUME CacheInv, Disconnect
    PROVE  CacheInv'
<1>1. /\ events' = <<>> /\ missed' = missed \cup Pending
      /\ UNCHANGED <<rows, at, clock, data, query, raced>>
  BY DEF Disconnect, server
<1>2. Pending \subseteq rows
  BY PendingType DEF CacheInv
<1>3. Pending' = {}
  BY <1>1 DEF Pending, ToSet
<1>4. PICK V : V = Steady'
  OBVIOUS
<1>5. /\ V \subseteq Steady /\ V \cap Pending = {} /\ Steady \in SUBSET rows
  BY <1>1, <1>4 DEF Steady, Undisturbed, Tied
<1>6. ServerTypes'
  BY <1>1 DEF CacheInv, ServerTypes
<1>7. QueryTypes' /\ FetchInv'
  BY <1>1, <1>4, <1>5, FetchStays
<1>8. TabTypes'
  BY <1>1, <1>2, <1>7 DEF CacheInv, TabTypes
<1>9. EventInv'
  BY <1>1, <1>3 DEF EventInv
<1>10. Tiles(data, {}, V, at)
  <2>1. \A j \in V : j \in Steady /\ (j \in {} <=> j \in Pending)
    BY <1>5
  <2>2. data \in Seq(Pages(rows)) /\ Tiles(data, Pending, Steady, at)
    BY DEF CacheInv, TabTypes, DataInv
  <2>3. QED
    BY <1>5, <2>1, <2>2, TilesStay
<1>11. DataInv'
  BY <1>1, <1>3, <1>4, <1>10 DEF DataInv
<1>12. QED
  BY <1>6, <1>7, <1>8, <1>9, <1>11 DEF CacheInv

LEMMA FetchStarted ==
    ASSUME CacheInv, NEW kind \in {"all", "next"}, StartFetch(kind),
           kind = "next" => data # <<>> /\ Last(data).next # None,
           UNCHANGED <<rows, at, clock, events, data, missed>>
    PROVE  CacheInv'
<1>1. /\ query' = [kind |-> kind, old |-> data, got |-> <<>>, answered |-> FALSE,
                   reply |-> <<>>]
      /\ raced' = raced \cup Pending
  BY DEF StartFetch, Idle
<1>2. /\ Pending \subseteq rows /\ data \in Seq(Pages(rows))
      /\ Tiles(data, Pending, Steady, at)
  BY PendingType DEF CacheInv, TabTypes, DataInv
<1>3. Pending' = Pending
  BY DEF Pending
<1>4. PICK V : V = Steady'
  OBVIOUS
<1>5. V \subseteq Steady /\ V \cap Pending = {} /\ Steady \in SUBSET rows
  BY <1>1, <1>4 DEF Steady, Undisturbed, Tied
<1>6. Tiles(data, Pending, V, at) /\ Tiles(data, {}, V, at)
  <2>1. \A j \in V : j \in Steady /\ (j \in {} <=> j \in Pending)
    BY <1>5
  <2>2. \A j \in V : j \in Steady /\ (j \in Pending <=> j \in Pending)
    BY <1>5
  <2>3. QED
    BY <1>2, <1>5, <2>1, <2>2, TilesStay
<1>7. ServerTypes'
  BY DEF CacheInv, ServerTypes
<1>8. QueryTypes'
  <2>1. query' \in Queries(rows)
    BY <1>1, <1>2, EmptySeq DEF Queries
  <2>2. /\ query'.kind = kind /\ query'.old = data /\ query'.got = <<>>
        /\ query'.answered = FALSE /\ kind # "none"
    BY <1>1
  <2>3. QED
    BY <2>1, <2>2 DEF QueryTypes
<1>9. TabTypes'
  BY <1>1, <1>2, <1>8 DEF CacheInv, TabTypes
<1>10. EventInv'
  BY <1>1, <1>4, <1>5, EventsStay
<1>11. FetchInv'
  <2>1. Tiles(<<>>, {}, V, at)
    BY DEF Tiles
  <2>2. /\ query'.kind = kind /\ query'.old = data /\ query'.got = <<>>
        /\ query'.answered = FALSE
    BY <1>1
  <2>3. QED
    BY <1>4, <1>6, <2>1, <2>2 DEF FetchInv
<1>12. DataInv'
  BY <1>3, <1>4, <1>6 DEF DataInv
<1>13. QED
  BY <1>7, <1>9, <1>10, <1>11, <1>12 DEF CacheInv

LEMMA HistoryServed ==
    ASSUME CacheInv, ServeHistory
    PROVE  CacheInv'
<1>1. /\ query.kind # "none"
      /\ query' = [query EXCEPT !.answered = TRUE, !.reply = History(Param)]
      /\ UNCHANGED <<rows, at, clock, events, data, raced, missed>>
  BY DEF ServeHistory, server, socket
<1>2. PICK c \in rows \cup {None} : c = Param
  BY <1>1, ParamType DEF CacheInv
<1>3. PICK h : h = History(c)
  OBVIOUS
<1>4. /\ h \in Pages(rows)
      /\ ToSet(h.messages) = {i \in rows : Within(at, i, c, h.next)}
      /\ \A p, q \in DOMAIN h.messages :
            p < q => Earlier(at, h.messages[p], h.messages[q])
      /\ c # None /\ h.next # None => Earlier(at, h.next, c)
  BY <1>3, RowTypes, Served DEF CacheInv
<1>5. PageTiles(h, c, {}, Steady, at)
  BY <1>4 DEF PageTiles, Steady
<1>6. query \in Queries(rows)
  BY DEF CacheInv, TabTypes, QueryTypes
<1>7. /\ query'.kind = query.kind /\ query'.old = query.old /\ query'.got = query.got
      /\ query'.answered /\ query'.reply = h
      /\ query' \in Queries(rows)
  BY <1>1, <1>2, <1>3, <1>4, <1>6 DEF Queries
<1>8. Param' = Param
  BY <1>7 DEF Param
<1>9. Steady' = Steady /\ Pending' = Pending
  BY <1>1 DEF Steady, Undisturbed, Tied, Pending
<1>10. ServerTypes'
  BY <1>1 DEF CacheInv, ServerTypes
<1>11. TabTypes'
  BY <1>1, <1>4, <1>7 DEF CacheInv, TabTypes, QueryTypes
<1>12. EventInv'
  BY <1>1, <1>7, <1>9 DEF CacheInv, EventInv
<1>13. FetchInv'
  <2>1. /\ query.kind = "next" => Tiles(query.old, {}, Steady, at)
        /\ Tiles(query.got, {}, Steady, at)
    BY DEF CacheInv, FetchInv
  <2>2. PageTiles(h, Param', {}, Steady, at)
    BY <1>2, <1>5, <1>8
  <2>3. Param' # None /\ h.next # None => Earlier(at, h.next, Param')
    BY <1>2, <1>4, <1>8
  <2>4. at' = at
    BY <1>1
  <2>5. QED
    BY <1>7, <1>9, <2>1, <2>2, <2>3, <2>4 DEF FetchInv
<1>14. DataInv'
  BY <1>1, <1>9 DEF CacheInv, DataInv
<1>15. QED
  BY <1>10, <1>11, <1>12, <1>13, <1>14 DEF CacheInv

\* The page of the answer, after those it was asked for with.
LEMMA NextPage ==
    ASSUME CacheInv, query.kind # "none", query.answered,
           NEW d, d = IF query.kind = "next" THEN query.old ELSE query.got
    PROVE  /\ Append(d, query.reply) \in Seq(Pages(rows))
           /\ Tiles(Append(d, query.reply), {}, Steady, at)
           /\ Append(d, query.reply) # <<>>
           /\ Last(Append(d, query.reply)) = query.reply
<1>1. /\ d \in Seq(Pages(rows)) /\ Tiles(d, {}, Steady, at)
      /\ query.reply \in Pages(rows) /\ query.kind \in {"all", "next"}
  BY DEF CacheInv, TabTypes, QueryTypes, Queries, FetchInv
<1>2. PICK c \in rows \cup {None} : c = Param
  BY ParamType DEF CacheInv
<1>3. IF d = <<>> THEN c = None ELSE c = Last(d).next /\ c # None
  BY <1>1, <1>2, ParamType DEF CacheInv
<1>4. /\ PageTiles(query.reply, c, {}, Steady, at)
      /\ c # None /\ query.reply.next # None => Earlier(at, query.reply.next, c)
  BY <1>2 DEF CacheInv, FetchInv
<1>5. rows \subseteq Nat \ {0} /\ \A i \in rows : at[i] \in Nat
  BY RowTypes DEF CacheInv
<1>6. PICK pg : pg = query.reply
  OBVIOUS
<1>7. Append(d, pg) \in Seq(Pages(rows)) /\ Tiles(Append(d, pg), {}, Steady, at)
  BY <1>1, <1>3, <1>4, <1>5, <1>6, TilesGrow
<1>8. Append(d, pg) # <<>> /\ Last(Append(d, pg)) = pg
  BY <1>1, <1>6, AppendProperties DEF Last
<1>9. QED
  BY <1>6, <1>7, <1>8

\* A fetch ends, with data that tiles.
LEMMA FetchEnds ==
    ASSUME CacheInv, query.kind # "none", query' = Idle,
           data' \in Seq(Pages(rows)),
           Tiles(data', {}, Steady, at) \/ data' = data,
           UNCHANGED <<rows, at, clock, events, raced, missed>>
    PROVE  CacheInv'
<1>1. Steady' = Steady /\ Pending' = Pending
  BY DEF Steady, Undisturbed, Tied, Pending
<1>2. Pending \cap Steady = {} /\ Steady \in SUBSET rows
  BY NoneSteady DEF Steady
<1>3. PICK d : d = data'
  OBVIOUS
<1>4. Tiles(d, Pending, Steady, at)
  <2>1. CASE Tiles(d, {}, Steady, at)
    <3>1. \A j \in Steady : j \in Steady /\ (j \in Pending <=> j \in {})
      BY <1>2
    <3>2. QED
      BY <1>2, <1>3, <2>1, <3>1, TilesStay
  <2>2. CASE d = data
    BY <2>2 DEF CacheInv, DataInv
  <2>3. QED
    BY <1>3, <2>1, <2>2
<1>5. DataInv'
  BY <1>1, <1>3, <1>4 DEF DataInv
<1>6. EventInv'
  BY <1>1, <1>2, EventsStay DEF Idle
<1>7. FetchInv'
  <2>1. query'.kind = "none" /\ query'.got = <<>> /\ query'.answered = FALSE
    BY DEF Idle
  <2>2. Tiles(<<>>, {}, Steady, at)
    BY DEF Tiles
  <2>3. QED
    BY <1>1, <2>1, <2>2 DEF FetchInv
<1>8. QueryTypes'
  <2>1. Idle \in Queries(rows)
    BY EmptySeq DEF Idle, Queries
  <2>2. Idle.kind = "none" /\ Idle.got = <<>> /\ Idle.answered = FALSE
    BY DEF Idle
  <2>3. QED
    BY <2>1, <2>2 DEF QueryTypes
<1>9. TabTypes'
  BY <1>8 DEF CacheInv, TabTypes
<1>10. ServerTypes'
  BY DEF CacheInv, ServerTypes
<1>11. QED
  BY <1>5, <1>6, <1>7, <1>9, <1>10 DEF CacheInv

LEMMA EarlierLoaded ==
    ASSUME CacheInv, EarlierArrives
    PROVE  CacheInv'
<1>1. /\ query.kind = "next" /\ query.answered
      /\ data' = Append(query.old, query.reply) /\ query' = Idle
      /\ UNCHANGED <<rows, at, clock, events, raced, missed>>
  BY DEF EarlierArrives, server, socket
<1>2. PICK d : d = query.old
  OBVIOUS
<1>3. /\ Append(d, query.reply) \in Seq(Pages(rows))
      /\ Tiles(Append(d, query.reply), {}, Steady, at)
  BY <1>1, <1>2, NextPage
<1>4. QED
  BY <1>1, <1>2, <1>3, FetchEnds

LEMMA FetchFailed ==
    ASSUME CacheInv, FetchFails
    PROVE  CacheInv'
BY FetchEnds DEF FetchFails, server, socket, CacheInv, TabTypes

LEMMA PageArrived ==
    ASSUME CacheInv, PageArrives
    PROVE  CacheInv'
<1>1. /\ query.kind = "all" /\ query.answered
      /\ UNCHANGED <<rows, at, clock, events, raced, missed>>
  BY DEF PageArrives, server, socket
<1>2. PICK d : d = query.got
  OBVIOUS
<1>3. PICK got : got = Append(d, query.reply)
  OBVIOUS
<1>4. /\ got \in Seq(Pages(rows)) /\ Tiles(got, {}, Steady, at)
      /\ got # <<>> /\ Last(got) = query.reply
  BY <1>1, <1>2, <1>3, NextPage
<1>5. CASE query' = Idle /\ data' = got
  BY <1>1, <1>4, <1>5, FetchEnds
<1>6. CASE /\ query' = [query EXCEPT !.got = got, !.answered = FALSE, !.reply = <<>>]
           /\ data' = data /\ query.reply.next # None
  <2>1. query \in Queries(rows)
    BY DEF CacheInv, TabTypes, QueryTypes
  <2>2. /\ query' \in Queries(rows)
        /\ query'.kind = "all" /\ query'.got = got /\ query'.answered = FALSE
    BY <1>1, <1>4, <1>6, <2>1 DEF Queries
  <2>3. QueryTypes'
    BY <1>1, <1>4, <1>6, <2>2 DEF QueryTypes
  <2>4. Steady' = Steady /\ Pending' = Pending
    BY <1>1 DEF Steady, Undisturbed, Tied, Pending
  <2>5. ServerTypes'
    BY <1>1 DEF CacheInv, ServerTypes
  <2>6. TabTypes'
    BY <1>1, <1>6, <2>3 DEF CacheInv, TabTypes
  <2>7. Pending \subseteq raced \cup missed
    BY <1>1 DEF CacheInv, EventInv
  <2>8. EventInv'
    BY <1>1, <2>4, <2>7, NoneSteady, EventsStay
  <2>9. FetchInv'
    BY <1>1, <1>4, <2>2, <2>4 DEF FetchInv
  <2>10. DataInv'
    BY <1>1, <1>6, <2>4 DEF CacheInv, DataInv
  <2>11. QED
    BY <2>5, <2>6, <2>8, <2>9, <2>10 DEF CacheInv
<1>7. QED
  BY <1>2, <1>3, <1>5, <1>6 DEF PageArrives

\* The first of what was sent arrives.
LEMMA Arrived ==
    ASSUME NEW R, NEW es \in Seq(Events(R)), es # <<>>,
           \A p, q \in DOMAIN es : es[p].id = es[q].id /\ es[p].id # None => p = q
    PROVE  /\ Tail(es) \in Seq(Events(R))
           /\ \A p \in DOMAIN Tail(es) : p + 1 \in DOMAIN es /\ Tail(es)[p] = es[p + 1]
           /\ 1 \in DOMAIN es /\ Head(es) = es[1] /\ Head(es) \in Events(R)
           /\ DOMAIN Tail(es) \subseteq Nat \ {0}
           /\ Coming(Tail(es)) = Coming(es) \ {Head(es).id}
<1>1. /\ Tail(es) \in Seq(Events(R)) /\ Len(Tail(es)) = Len(es) - 1
      /\ Len(es) \in Nat /\ Len(es) > 0
      /\ DOMAIN es = 1 .. Len(es) /\ DOMAIN Tail(es) = 1 .. Len(Tail(es))
      /\ \A p \in 1 .. Len(Tail(es)) : Tail(es)[p] = es[p + 1]
      /\ Head(es) = es[1]
  BY HeadTailProperties, LenProperties, EmptySeq
<1>2. PICK t : t = Tail(es)
  OBVIOUS
<1>3. PICK n \in Nat : n = Len(es) /\ n > 0
  BY <1>1
<1>4. /\ DOMAIN es = 1 .. n /\ DOMAIN t = 1 .. n - 1
      /\ \A p \in 1 .. n - 1 : t[p] = es[p + 1]
  BY <1>1, <1>2, <1>3
<1>5. ASSUME NEW q \in 1 .. n, es[q].id # None, es[q].id # es[1].id
      PROVE  q - 1 \in 1 .. n - 1 /\ t[q - 1] = es[q]
  <2>1. q - 1 \in 1 .. n - 1 /\ (q - 1) + 1 = q
    BY <1>3, <1>5
  <2>2. PICK r : r = q - 1
    OBVIOUS
  <2>3. t[r] = es[r + 1]
    BY <1>4, <2>1, <2>2
  <2>4. QED
    BY <2>1, <2>2, <2>3
<1>6. ASSUME NEW p \in 1 .. n - 1, es[p + 1].id # None
      PROVE  es[p + 1].id # es[1].id
  <2>1. p + 1 \in 1 .. n /\ 1 \in 1 .. n /\ p + 1 # 1
    BY <1>3, <1>6
  <2>2. PICK r : r = p + 1
    OBVIOUS
  <2>3. QED
    BY <1>4, <1>6, <2>1, <2>2
<1>7. ASSUME NEW x PROVE x \in Coming(t) <=> x \in Coming(es) /\ x # es[1].id
  <2>1. ASSUME x \in Coming(t) PROVE x \in Coming(es) /\ x # es[1].id
    <3>1. PICK p \in 1 .. n - 1 : t[p].id = x /\ x # None
      BY <1>4, <2>1 DEF Coming
    <3>2. es[p + 1].id = x /\ p + 1 \in 1 .. n
      BY <1>3, <1>4, <3>1
    <3>3. x # es[1].id
      BY <1>6, <3>1, <3>2
    <3>4. QED
      BY <1>4, <3>1, <3>2, <3>3 DEF Coming
  <2>2. ASSUME x \in Coming(es), x # es[1].id PROVE x \in Coming(t)
    <3>1. PICK q \in 1 .. n : es[q].id = x /\ x # None
      BY <1>4, <2>2 DEF Coming
    <3>2. q - 1 \in 1 .. n - 1 /\ t[q - 1] = es[q]
      BY <1>5, <2>2, <3>1
    <3>3. PICK r : r = q - 1
      OBVIOUS
    <3>4. r \in DOMAIN t /\ t[r].id = x
      BY <1>4, <3>1, <3>2, <3>3
    <3>5. QED
      BY <3>1, <3>4 DEF Coming
  <2>3. QED
    BY <2>1, <2>2
<1>8. Coming(t) = Coming(es) \ {es[1].id}
  BY <1>7
<1>9. \A p \in DOMAIN t : p + 1 \in DOMAIN es /\ t[p] = es[p + 1]
  BY <1>3, <1>4
<1>10. es[1] \in Events(R) /\ 1 \in DOMAIN es
  BY <1>3, <1>4
<1>11. DOMAIN t \subseteq Nat \ {0} /\ t \in Seq(Events(R)) /\ Head(es) = es[1]
  <2>1. DOMAIN t \subseteq Nat \ {0}
    BY <1>3, <1>4
  <2>2. t \in Seq(Events(R))
    BY <1>1, <1>2
  <2>3. Head(es) = es[1]
    BY <1>1
  <2>4. QED
    BY <2>1, <2>2, <2>3
<1>12. QED
  BY <1>2, <1>8, <1>9, <1>10, <1>11

LEMMA HeardOne ==
    ASSUME CacheInv, events # <<>>, events' = Tail(events),
           data' = IF Head(events).id = None THEN data ELSE Appended(data, Head(events).id),
           UNCHANGED <<rows, at, clock, query, raced, missed>>
    PROVE  CacheInv'
<1>1. /\ events \in Seq(Events(rows)) /\ Pending = Coming(events)
      /\ data \in Seq(Pages(rows))
  BY PendingType DEF CacheInv, TabTypes
<1>2. PICK t : t = Tail(events)
  OBVIOUS
<1>3. PICK i : i = Head(events).id
  OBVIOUS
<1>4. /\ t \in Seq(Events(rows))
      /\ \A p \in DOMAIN t : p + 1 \in DOMAIN events /\ t[p] = events[p + 1]
      /\ 1 \in DOMAIN events /\ events[1].id = i
      /\ Head(events) \in Events(rows)
      /\ DOMAIN t \subseteq Nat \ {0}
      /\ Coming(t) = Coming(events) \ {i}
  <2>1. \A p, q \in DOMAIN events :
           events[p].id = events[q].id /\ events[p].id # None => p = q
    BY DEF CacheInv, EventInv
  <2>2. QED
    BY <1>1, <1>2, <1>3, <2>1, Arrived
<1>5. i \in rows \cup {None}
  BY <1>3, <1>4, EventTypes
<1>6. Pending' = Pending \ {i}
  BY <1>1, <1>2, <1>4, PendingIs DEF Pending
<1>7. Steady' = Steady /\ Steady \in SUBSET rows /\ Param' = Param
  BY DEF Steady, Undisturbed, Tied, Param
<1>8. rows \subseteq Nat \ {0} /\ (\A j \in rows : at[j] \in Nat) /\ None \notin rows
  BY RowTypes DEF CacheInv
<1>9. \A k \in DOMAIN data : data[k].next \in rows \cup {None}
  <2>1. \A k \in DOMAIN data : data[k] \in Pages(rows)
    BY <1>1
  <2>2. QED
    BY <2>1 DEF Pages
<1>10. ASSUME i # None
       PROVE  /\ Appended(data, i) \in Seq(Pages(rows))
              /\ Tiles(Appended(data, i), Pending \ {i}, Steady, at)
  <2>1. i \in rows /\ i \in Pending
    BY <1>1, <1>4, <1>5, <1>10 DEF Coming
  <2>2. ASSUME i \in Steady
        PROVE  /\ i \in Pending
               /\ \A j \in Steady : j \notin Pending => Earlier(at, j, i)
               /\ \A k \in DOMAIN data : \/ data[k].next = None \/ data[k].next = i
                                         \/ Earlier(at, data[k].next, i)
    <3>1. /\ \A j \in Steady \ Pending : at[j] <= at[i]
          /\ \A k \in DOMAIN data : data[k].next # None => at[data[k].next] <= at[i]
      BY <2>1, <2>2 DEF CacheInv, EventInv
    <3>2. \A j \in rows \ {i} : at[j] # at[i]
      BY <2>2, Untied
    <3>3. \A j \in Steady : j \notin Pending => at[j] < at[i]
      BY <1>7, <1>8, <2>1, <3>1, <3>2
    <3>4. \A k \in DOMAIN data : \/ data[k].next = None \/ data[k].next = i
                                 \/ at[data[k].next] < at[i]
      <4>1. ASSUME NEW k \in DOMAIN data, data[k].next # None, data[k].next # i
            PROVE  at[data[k].next] < at[i]
        <5>1. PICK n : n = data[k].next
          OBVIOUS
        <5>2. n \in rows /\ at[n] <= at[i] /\ at[n] # at[i]
          BY <1>9, <3>1, <3>2, <4>1, <5>1
        <5>3. QED
          BY <1>8, <2>1, <5>1, <5>2
      <4>2. QED
        BY <4>1
    <3>5. QED
      BY <2>1, <3>3, <3>4 DEF Earlier
  <2>4. Tiles(data, Pending, Steady, at)
    BY DEF CacheInv, DataInv
  <2>5. PICK out : out = Pending
    OBVIOUS
  <2>6. PICK off : off = Pending \ {i}
    OBVIOUS
  <2>7. PICK U \in SUBSET rows : U = Steady
    BY <1>7
  <2>8. Appended(data, i) \in Seq(Pages(rows)) /\ Tiles(Appended(data, i), off, U, at)
    <3>1. \A j \in U : j \in off <=> j \in out /\ j # i
      BY <2>5, <2>6
    <3>2. i \in U =>
             /\ i \in out
             /\ \A j \in U : j \notin out => Earlier(at, j, i)
             /\ \A k \in DOMAIN data : \/ data[k].next = None \/ data[k].next = i
                                       \/ Earlier(at, data[k].next, i)
      BY <2>2, <2>5, <2>7
    <3>3. Tiles(data, out, U, at)
      BY <2>4, <2>5, <2>7
    <3>4. QED
      BY <1>1, <1>8, <2>1, <3>1, <3>2, <3>3, TilesHear
  <2>9. QED
    BY <2>6, <2>7, <2>8
<1>11. PICK d : d = data'
  OBVIOUS
<1>12. d \in Seq(Pages(rows)) /\ Tiles(d, Pending \ {i}, Steady, at)
  <2>1. CASE i # None
    BY <1>3, <1>10, <1>11, <2>1
  <2>2. CASE i = None
    <3>1. None \notin Pending /\ d = data
      BY <1>1, <1>3, <1>11, <2>2 DEF Coming
    <3>2. Pending \ {i} = Pending
      BY <2>2, <3>1
    <3>3. QED
      BY <1>1, <3>1, <3>2 DEF CacheInv, DataInv
  <2>3. QED
    BY <2>1, <2>2
<1>13. \A k \in DOMAIN d : k \in DOMAIN data /\ d[k].next = data[k].next
  <2>1. CASE d = data
    BY <2>1
  <2>2. CASE d = Appended(data, i) /\ data # <<>>
    <3>1. 1 \in DOMAIN data /\ data[1] \in Pages(rows)
      <4>1. DOMAIN data = 1 .. Len(data) /\ Len(data) \in Nat /\ Len(data) # 0
        BY <1>1, <2>2, LenProperties, EmptySeq
      <4>2. 1 \in 1 .. Len(data)
        BY <4>1
      <4>3. QED
        BY <1>1, <4>1, <4>2
    <3>2. d = [data EXCEPT ![1] = [data[1] EXCEPT !.messages = Append(data[1].messages, i)]]
      BY <2>2 DEF Appended
    <3>3. DOMAIN d = DOMAIN data
      BY <3>2
    <3>4. d[1].next = data[1].next
      BY <3>1, <3>2 DEF Pages
    <3>5. \A k \in DOMAIN data : k # 1 => d[k] = data[k]
      BY <3>2
    <3>6. QED
      BY <3>3, <3>4, <3>5
  <2>3. QED
    BY <1>3, <1>11, <2>1, <2>2 DEF Appended
<1>14. ServerTypes'
  BY DEF CacheInv, ServerTypes
<1>15. TabTypes'
  BY <1>2, <1>4, <1>11, <1>12 DEF CacheInv, TabTypes, QueryTypes
<1>16. FetchInv'
  BY <1>7 DEF CacheInv, FetchInv
<1>17. DataInv'
  BY <1>6, <1>7, <1>11, <1>12 DEF DataInv
<1>18. ASSUME NEW p \in DOMAIN t, NEW q \in DOMAIN t, t[p].id # None, t[q].id # None
       PROVE  /\ t[p].id = t[q].id => p = q
              /\ p < q => at[t[p].id] <= at[t[q].id]
  <2>1. PICK u : u = p + 1
    OBVIOUS
  <2>2. PICK w : w = q + 1
    OBVIOUS
  <2>3. /\ u \in DOMAIN events /\ w \in DOMAIN events
        /\ t[p] = events[u] /\ t[q] = events[w]
    BY <1>4, <2>1, <2>2
  <2>4. /\ events[u].id = events[w].id => u = w
        /\ u < w => at[events[u].id] <= at[events[w].id]
    BY <1>18, <2>3 DEF CacheInv, EventInv
  <2>5. (u = w => p = q) /\ (p < q => u < w)
    BY <1>4, <2>1, <2>2
  <2>6. QED
    BY <2>3, <2>4, <2>5
<1>19. ASSUME NEW x \in (Pending \ {i}) \cap Steady
       PROVE  /\ \A j \in Steady \ (Pending \ {i}) : at[j] <= at[x]
              /\ \A k \in DOMAIN d : d[k].next # None => at[d[k].next] <= at[x]
  <2>1. /\ \A j \in Steady \ Pending : at[j] <= at[x]
        /\ \A k \in DOMAIN data : data[k].next # None => at[data[k].next] <= at[x]
    BY <1>19 DEF CacheInv, EventInv
  <2>2. i \in Steady => at[i] <= at[x]
    <3>1. PICK q \in DOMAIN events : events[q].id = x /\ x # None
      BY <1>1, <1>19 DEF Coming
    <3>2. 1 < q
      <4>1. q # 1 /\ q \in Nat \ {0}
        BY <1>1, <1>4, <1>19, <3>1, LenProperties
      <4>2. QED
        BY <4>1
    <3>3. i # None => at[i] <= at[x]
      BY <1>4, <3>1, <3>2 DEF CacheInv, EventInv
    <3>4. QED
      BY <1>7, <1>8, <3>3
  <2>3. QED
    BY <1>13, <2>1, <2>2
<1>20. query.kind # "none" => Pending \ {i} \subseteq raced \cup missed
  BY DEF CacheInv, EventInv
<1>21. EventInv'
  <2>1. /\ \A p, q \in DOMAIN t : t[p].id = t[q].id /\ t[p].id # None => p = q
        /\ \A p, q \in DOMAIN t :
              p < q /\ t[p].id # None /\ t[q].id # None => at[t[p].id] <= at[t[q].id]
    BY <1>18
  <2>2. at' = at /\ query' = query /\ raced' = raced /\ missed' = missed /\ events' = t
    BY <1>2
  <2>3. QED
    BY <1>6, <1>7, <1>11, <1>19, <1>20, <2>1, <2>2 DEF EventInv
<1>22. QED
  BY <1>14, <1>15, <1>16, <1>17, <1>21 DEF CacheInv

\* The latest row sets the clock.
LEMMA CacheStarts == CacheInit => CacheInv
<1> SUFFICES ASSUME CacheInit PROVE CacheInv
  OBVIOUS
<1>1. /\ rows \in {{}, Old} /\ at = [i \in Ids |-> IF i \in rows THEN i ELSE 0]
      /\ clock = Max({1} \cup rows) /\ events = <<>> /\ data = <<>> /\ query = Idle
      /\ raced = {} /\ missed = {}
  BY DEF CacheInit
<1>2. rows \subseteq Ids /\ rows \subseteq 1 .. MaxClock /\ MaxClock \in Nat \ {0}
  BY <1>1, IdsAssumption, ClockAssumption
<1>3. \E m \in {1} \cup rows : \A i \in {1} \cup rows : m >= i
  <2>1. PICK T : T = {k \in 0 .. MaxClock : MaxClock - k \in {1} \cup rows}
    OBVIOUS
  <2>2. T \subseteq Nat /\ MaxClock - 1 \in T
    BY <1>2, <2>1
  <2>3. PICK k \in T : \A l \in T : k <= l
    BY <2>2, Least
  <2>4. MaxClock - k \in {1} \cup rows /\ k \in 0 .. MaxClock
    BY <2>1, <2>3
  <2>5. ASSUME NEW i \in {1} \cup rows PROVE MaxClock - k >= i
    <3>1. i \in 1 .. MaxClock
      BY <1>2, <2>5
    <3>2. PICK l : l = MaxClock - i
      OBVIOUS
    <3>3. l \in 0 .. MaxClock /\ MaxClock - l = i
      BY <1>2, <3>1, <3>2
    <3>4. k <= l
      BY <2>1, <2>3, <2>5, <3>3
    <3>5. QED
      BY <1>2, <2>4, <3>3, <3>4
  <2>6. QED
    BY <2>4, <2>5
<1>4. clock \in {1} \cup rows /\ \A i \in {1} \cup rows : clock >= i
  BY <1>1, <1>3 DEF Max
<1>5. ServerTypes
  <2>1. clock \in 1 .. MaxClock
    BY <1>2, <1>4
  <2>2. at \in [Ids -> 0 .. MaxClock]
    BY <1>1, <1>2
  <2>3. \A i \in rows : at[i] = i
    BY <1>1, <1>2
  <2>4. \A i \in rows : at[i] <= clock
    BY <1>2, <1>4, <2>1, <2>3
  <2>5. QED
    BY <1>2, <2>1, <2>2, <2>4 DEF ServerTypes
<1>6. Pending = {}
  BY <1>1 DEF Pending, ToSet
<1>7. QueryTypes
  <2>1. Idle \in Queries(rows)
    BY EmptySeq DEF Idle, Queries
  <2>2. Idle.kind = "none" /\ Idle.got = <<>> /\ Idle.answered = FALSE
    BY DEF Idle
  <2>3. QED
    BY <1>1, <2>1, <2>2 DEF QueryTypes
<1>8. TabTypes
  <2>1. events \in Seq(Events(rows)) /\ data \in Seq(Pages(rows))
    BY <1>1, EmptySeq
  <2>2. QED
    BY <1>1, <1>7, <2>1 DEF TabTypes
<1>9. EventInv
  BY <1>1, <1>6 DEF EventInv, Idle
<1>10. Tiles(<<>>, {}, Steady, at)
  BY DEF Tiles
<1>11. FetchInv /\ DataInv
  BY <1>1, <1>6, <1>10 DEF FetchInv, DataInv, Idle
<1>12. QED
  BY <1>5, <1>8, <1>9, <1>11 DEF CacheInv

\* What a send says over the socket, and what comes back.
LEMMA Emitted ==
    ASSUME CacheInv, ComposerInv, NEW s \in sends, Emit(s)
    PROVE  CacheInv'
<1>1. s.gen \in Gens /\ s.kind \in {"text", "edit", "clip"}
  <2>1. s \in Sends
    BY DEF ComposerInv, SendsInv
  <2>2. QED
    BY <2>1 DEF Sends
<1>2. UNCHANGED <<connected, data, query>>
  BY DEF Emit
<1>3. <<s.gen, s.kind>> \in Senders
  BY <1>1 DEF Senders
<1>4. ASSUME NEW i \in Ids, Store(i, [kind |-> "ack", id |-> i, of |-> <<s.gen, s.kind>>])
      PROVE  CacheInv'
  <2>1. PICK e : e = [kind |-> "ack", id |-> i, of |-> <<s.gen, s.kind>>]
    OBVIOUS
  <2>2. e.id = i /\ e \in Events(rows \cup {i})
    BY <1>3, <2>1 DEF Events, Answered
  <2>3. QED
    BY <1>2, <1>4, <2>1, <2>2, Stored
<1>5. ASSUME events' = Append(events, [kind |-> IF s.kind = "edit" THEN "ack" ELSE "nack",
                                       id |-> None, of |-> <<s.gen, s.kind>>]),
             UNCHANGED <<rows, at, clock, raced, missed>>
      PROVE  CacheInv'
  <2>1. PICK e : e = [kind |-> IF s.kind = "edit" THEN "ack" ELSE "nack",
                      id |-> None, of |-> <<s.gen, s.kind>>]
    OBVIOUS
  <2>2. e.id = None /\ e \in Answered(rows) \cup Refused
    BY <1>3, <2>1 DEF Answered, Refused
  <2>3. e \in Events(rows)
    BY <2>2 DEF Events
  <2>4. QED
    BY <1>2, <1>5, <2>1, <2>2, <2>3, Noted
<1>6. QED
  BY <1>4, <1>5 DEF Emit

LEMMA CacheStep == ComposerInv /\ CacheInv /\ [Next]_vars => CacheInv'
<1> SUFFICES ASSUME ComposerInv, CacheInv, [Next]_vars PROVE CacheInv'
  OBVIOUS
<1> USE DEF cacheVars, server, socket
<1>1. CASE UNCHANGED vars
  BY <1>1, Unmoved DEF vars
<1>2. CASE Input
  <2>1. ASSUME NEW i \in Ids, Post(i) PROVE CacheInv'
    <3>1. PICK e : e = [kind |-> "new", id |-> i]
      OBVIOUS
    <3>2. e.id = i /\ e \in Events(rows \cup {i})
      BY <3>1 DEF Events, Announced
    <3>3. QED
      BY <2>1, <3>1, <3>2, Stored DEF Post
  <2>2. ASSUME NEW i \in Ids, Reply(i) \/ Edit(i) PROVE CacheInv'
    BY <2>2, Unmoved DEF Reply, Edit
  <2>3. CASE Disconnect
    BY <2>3, Disconnected
  <2>4. CASE LoadEarlier \/ ComeOnline
    BY <2>4, FetchStarted DEF LoadEarlier, ComeOnline
  <2>5. CASE Open
    <3>1. UNCHANGED <<rows, at, clock, events, data, missed>>
      BY <2>5 DEF Open, OpenChannel
    <3>2. CASE StartFetch("all")
      BY <3>1, <3>2, FetchStarted
    <3>3. CASE UNCHANGED <<query, raced>>
      BY <3>1, <3>3, Unmoved
    <3>4. QED
      BY <2>5, <3>2, <3>3 DEF Open, OpenChannel
  <2>6. CASE Close
    BY <2>6, Unmoved DEF Close, CloseChannel
  <2>7. CASE CancelReply \/ CancelEdit \/ ToggleFile \/ ClickSend
    BY <2>7, Unmoved DEF CancelReply, CancelEdit, ToggleFile, ClickSend
  <2>8. ASSUME NEW t, Type(t) PROVE CacheInv'
    BY <2>8, Unmoved DEF Type
  <2>9. CASE StartRecording \/ StopRecording \/ CancelRecording
    BY <2>9, Unmoved DEF StartRecording, StopRecording, CancelRecording
  <2>10. QED
    BY <1>2, <2>1, <2>2, <2>3, <2>4, <2>5, <2>6, <2>7, <2>8, <2>9 DEF Input
<1>3. CASE Answer
  <2>1. CASE Reconnect
    BY <2>1, Unmoved DEF Reconnect
  <2>2. CASE Hear
    <3>1. /\ events # <<>> /\ events' = Tail(events)
          /\ data' = Appended(data, Head(events).id)
          /\ Head(events).kind = "new"
          /\ UNCHANGED <<rows, at, clock, query, raced, missed>>
      BY <2>2 DEF Hear
    <3>2. Head(events).id # None
      <4>1. events \in Seq(Events(rows))
        BY DEF CacheInv, TabTypes
      <4>2. Head(events) \in Events(rows)
        BY <3>1, <4>1, HeadTailProperties
      <4>3. PICK e \in Events(rows) : e = Head(events)
        BY <4>2
      <4>4. None \notin rows
        BY RowTypes DEF CacheInv
      <4>5. QED
        BY <3>1, <4>3, <4>4, EventTypes
    <3>3. QED
      BY <3>1, <3>2, HeardOne
  <2>3. CASE ServeHistory \/ EarlierArrives \/ PageArrives \/ FetchFails
    BY <2>3, HistoryServed, EarlierLoaded, PageArrived, FetchFailed
  <2>4. ASSUME NEW s \in sends, Upload(s) \/ UploadFails(s) PROVE CacheInv'
    BY <2>4, Unmoved DEF Upload, UploadFails
  <2>5. ASSUME NEW s \in sends, Emit(s) PROVE CacheInv'
    BY <2>5, Emitted
  <2>6. ASSUME NEW s \in sends, Acknowledged(s) PROVE CacheInv'
    <3>1. /\ events # <<>> /\ events' = Tail(events)
          /\ data' = IF Head(events).id = None THEN data
                                               ELSE Appended(data, Head(events).id)
          /\ UNCHANGED <<rows, at, clock, query, raced, missed>>
      BY <2>6 DEF Acknowledged
    <3>2. QED
      BY <3>1, HeardOne
  <2>7. ASSUME NEW g, Granted(g) \/ Denied(g) PROVE CacheInv'
    BY <2>7, Unmoved DEF Granted, Denied
  <2>8. CASE Stopped
    BY <2>8, Unmoved DEF Stopped
  <2>9. QED
    BY <1>3, <2>1, <2>2, <2>3, <2>4, <2>5, <2>6, <2>7, <2>8 DEF Answer
<1>4. QED
  BY <1>1, <1>2, <1>3 DEF Next

\* Pages that tile, as the list shows them.
LEMMA TilesAreShown ==
    ASSUME CacheInv
    PROVE  PagesTile /\ ToSet(Messages) \subseteq rows
<1>1. /\ data \in Seq(Pages(rows)) /\ Tiles(data, Pending, Steady, at)
      /\ Steady \in SUBSET rows
      /\ rows \subseteq Nat \ {0} /\ \A i \in rows : at[i] \in Nat
  BY RowTypes DEF CacheInv, TabTypes, DataInv, Steady
<1>2. CASE data = <<>>
  <2>1. PICK ms : ms = [k \in DOMAIN data |-> data[k].messages]
    OBVIOUS
  <2>2. ms = <<>>
    BY <1>2, <2>1
  <2>3. Reverse(ms) = <<>>
    BY <2>2 DEF Reverse
  <2>4. Messages = <<>>
    BY <2>1, <2>3 DEF Messages, FlattenSeq
  <2>5. QED
    BY <1>2, <2>4 DEF PagesTile, ToSet
<1>3. CASE data # <<>>
  <2>1. PICK list : list = Messages
    OBVIOUS
  <2>2. PICK from : from = Last(data).next
    OBVIOUS
  <2>3. PICK U \in SUBSET rows : U = Steady
    BY <1>1
  <2>4. PICK out : out = Pending
    OBVIOUS
  <2>5. /\ list \in Seq(rows)
        /\ \A p \in DOMAIN list : list[p] \in U =>
              list[p] \notin out /\ Within(at, list[p], None, from)
        /\ \A i \in U : i \notin out /\ Within(at, i, None, from)
              => \E p \in DOMAIN list : list[p] = i
        /\ \A p, q \in DOMAIN list : p < q /\ list[p] \in U /\ list[q] \in U
              => Earlier(at, list[p], list[q])
    <3>1. Tiles(data, out, U, at)
      BY <1>1, <2>3, <2>4
    <3>2. PICK ms : ms = [k \in DOMAIN data |-> data[k].messages]
      OBVIOUS
    <3>p. \A k \in DOMAIN data : data[k] \in Pages(rows)
      BY <1>1
    <3>q. /\ ms \in [DOMAIN data -> Seq(rows)]
          /\ \A k \in DOMAIN data : ms[k] = data[k].messages
      BY <3>2, <3>p DEF Pages
    <3>r. list = FlattenSeq(Reverse(ms))
      BY <2>1, <3>2 DEF Messages
    <3>3. Loaded(rows, at, U, out, data, ms)
      BY <1>1, <1>3, <3>1, <3>q DEF Loaded
    <3>4. Shown(rows, at, U, out, from, list)
      BY <2>2, <3>3, <3>r, TilesShown
    <3>5. QED
      BY <3>4 DEF Shown
  <2>6. \A p \in DOMAIN list : list[p] \in rows
    BY <2>5
  <2>7. \A i \in rows : i \in U <=> Undisturbed(i)
    BY <2>3 DEF Steady
  <2>8. \A i, j : Before(i, j) <=> Earlier(at, i, j)
    BY DEF Before, Earlier
  <2>9. \A i \in rows : Within(at, i, None, from)
                        <=> (from = None \/ Before(from, i) \/ from = i)
    BY <2>8 DEF Within
  <2>10. PICK S : S = {p \in DOMAIN list : Undisturbed(list[p]) /\ list[p] \notin out}
    OBVIOUS
  <2>11. {list[p] : p \in S}
           = {i \in rows : /\ Undisturbed(i) /\ i \notin out
                           /\ from = None \/ Before(from, i) \/ from = i}
    BY <2>5, <2>6, <2>7, <2>9, <2>10
  <2>12. \A p, q \in S : p < q => Before(list[p], list[q])
    BY <2>5, <2>6, <2>7, <2>8, <2>10
  <2>13. PagesTile
    BY <2>1, <2>2, <2>4, <2>10, <2>11, <2>12 DEF PagesTile
  <2>14. ToSet(list) \subseteq rows
    BY <2>6 DEF ToSet
  <2>15. QED
    BY <2>1, <2>13, <2>14
<1>4. QED
  BY <1>2, <1>3

\* Whatever arrives between the requests of a fetch, from the socket or from the
\* sends of composers old and new, the pages loaded tile the history, for any rows
\* and page size (getHistory of messages.service.ts, appendMessageToCache, and the
\* infinite query of useChannelMessages.ts).
THEOREM PagesTiled == Spec => []PagesTile
<1>1. Init => MicInv /\ ComposerInv /\ CacheInv
  BY MicInit, ComposerInit, CacheStarts DEF Init
<1>2. MicInv /\ ComposerInv /\ CacheInv /\ [Next]_vars => (MicInv /\ ComposerInv /\ CacheInv)'
  BY MicStep, ComposerStep, CacheStep
<1>3. CacheInv => PagesTile
  BY TilesAreShown
<1>4. QED
  BY <1>1, <1>2, <1>3, PTL DEF Spec

-------------------------------------------------------------------------------
(* Types                                                                      *)

\* At most one message is selected, of those the list has shown.
SelectionInv ==
    /\ edit \in rows \cup {None} /\ reply \in rows \cup {None}
    /\ edit = None \/ reply = None
    /\ status \in {"idle", "requesting", "recording", "error"}

LEMMA NotSelected ==
    ASSUME SelectionInv, rows \subseteq rows', UNCHANGED <<edit, reply>>,
           status' \in {"idle", "requesting", "recording", "error"}
    PROVE  SelectionInv'
BY DEF SelectionInv

LEMMA SelectionOf ==
    ASSUME SelectionInv, NEW target, SelectEdit(target)
    PROVE  edit' = target /\ status' \in {"idle", "requesting", "recording", "error"}
<1>1. CASE target = edit
  BY <1>1, Zenon DEF SelectEdit, SelectionInv, recorder
<1>2. CASE target # edit
  BY <1>2, Zenon DEF SelectEdit, SelectionInv, Mount
<1>3. QED
  BY <1>1, <1>2

LEMMA SelectionAfterEnd ==
    ASSUME SelectionInv, NEW s, NEW done, End(s, done), rows' = rows
    PROVE  SelectionInv'
<1>1. CASE done /\ s.kind = "edit" /\ open /\ s.gen >= first /\ edit # None
  <2>1. SelectEdit(None) /\ reply' = reply
    BY <1>1, Zenon DEF End
  <2>2. QED
    BY <2>1, SelectionOf DEF SelectionInv
<1>2. CASE ~(done /\ s.kind = "edit" /\ open /\ s.gen >= first /\ edit # None)
  <2>1. edit' = edit /\ (reply' = reply \/ reply' = None) /\ status' = status
    BY <1>2, Zenon DEF End, recorder
  <2>2. QED
    BY <2>1 DEF SelectionInv
<1>3. QED
  BY <1>1, <1>2

LEMMA SelectionStep == CacheInv /\ SelectionInv /\ [Next]_vars => SelectionInv'
<1> SUFFICES ASSUME CacheInv, SelectionInv, [Next]_vars PROVE SelectionInv'
  OBVIOUS
<1> USE DEF cacheVars, server, socket, page, recorder
<1>a. status \in {"idle", "requesting", "recording", "error"}
  BY DEF SelectionInv
<1>1. CASE UNCHANGED vars
  BY <1>1, <1>a, NotSelected DEF vars
<1>2. CASE Input
  <2>1. ASSUME NEW i \in Ids, Post(i) /\ Others PROVE SelectionInv'
    BY <1>a, <2>1, NotSelected DEF Post, Store, Others
  <2>2. ASSUME NEW i \in Ids, Reply(i) PROVE SelectionInv'
    <3>1. i \in rows /\ reply' = i /\ SelectEdit(None) /\ rows' = rows
      BY <2>2, TilesAreShown DEF Reply
    <3>2. QED
      BY <3>1, SelectionOf DEF SelectionInv
  <2>3. ASSUME NEW i \in Ids, Edit(i) PROVE SelectionInv'
    <3>1. i \in rows /\ reply' = None /\ SelectEdit(i) /\ rows' = rows
      BY <2>3, TilesAreShown DEF Edit
    <3>2. QED
      BY <3>1, SelectionOf DEF SelectionInv
  <2>4. CASE (Disconnect \/ LoadEarlier \/ ComeOnline) /\ Others
    BY <1>a, <2>4, NotSelected DEF Disconnect, LoadEarlier, ComeOnline, Others
  <2>5. CASE Open
    <3>1. edit' = None /\ reply' = None /\ status' = "idle"
      BY <2>5, Zenon DEF Open, Mount
    <3>2. QED
      BY <3>1 DEF SelectionInv
  <2>6. CASE Close
    BY <1>a, <2>6, NotSelected DEF Close, CloseChannel
  <2>7. CASE CancelReply
    BY <2>7 DEF CancelReply, SelectionInv
  <2>8. CASE CancelEdit
    BY <2>8, SelectionOf DEF CancelEdit, SelectionInv
  <2>9. ASSUME NEW t, Type(t) PROVE SelectionInv'
    BY <1>a, <2>9, NotSelected DEF Type
  <2>10. CASE ToggleFile
    BY <1>a, <2>10, NotSelected DEF ToggleFile
  <2>11. CASE ClickSend
    <3>1. edit' = edit /\ reply' = reply /\ status' = status /\ rows' = rows
      BY <2>11, Zenon DEF ClickSend
    <3>2. QED
      BY <1>a, <3>1, NotSelected
  <2>12. CASE StartRecording \/ StopRecording \/ CancelRecording
    BY <1>a, <2>12, NotSelected DEF StartRecording, StopRecording, CancelRecording
  <2>13. QED
    BY <1>2, <2>1, <2>2, <2>3, <2>4, <2>5, <2>6, <2>7, <2>8, <2>9, <2>10, <2>11,
       <2>12 DEF Input
<1>3. CASE Answer
  <2>1. CASE (Reconnect \/ Hear) /\ Others
    BY <1>a, <2>1, NotSelected DEF Reconnect, Hear, Others
  <2>2. CASE (ServeHistory \/ EarlierArrives \/ PageArrives \/ FetchFails) /\ Others
    BY <1>a, <2>2, NotSelected DEF ServeHistory, EarlierArrives, PageArrives,
                                   FetchFails, Others
  <2>3. ASSUME NEW s \in sends, Upload(s) PROVE SelectionInv'
    BY <1>a, <2>3, NotSelected DEF Upload
  <2>4. ASSUME NEW s \in sends, UploadFails(s) PROVE SelectionInv'
    BY <2>4, SelectionAfterEnd DEF UploadFails
  <2>5. ASSUME NEW s \in sends, Emit(s) PROVE SelectionInv'
    <3>1. rows \subseteq rows'
      BY <2>5 DEF Emit, Store
    <3>2. edit' = edit /\ reply' = reply /\ status' = status
      BY <2>5 DEF Emit
    <3>3. QED
      BY <1>a, <3>1, <3>2, NotSelected
  <2>6. ASSUME NEW s \in sends, Acknowledged(s) PROVE SelectionInv'
    <3>1. End(s, Head(events).kind = "ack") /\ rows' = rows
      BY <2>6 DEF Acknowledged
    <3>2. QED
      BY <3>1, SelectionAfterEnd
  <2>7. ASSUME NEW g, Granted(g) \/ Denied(g) PROVE SelectionInv'
    BY <1>a, <2>7, NotSelected DEF Granted, Denied
  <2>8. CASE Stopped
    <3>1. edit' = edit /\ reply' = reply /\ status' = "idle" /\ rows' = rows
      BY <2>8, Zenon DEF Stopped
    <3>2. QED
      BY <3>1, NotSelected
  <2>9. QED
    BY <1>3, <2>1, <2>2, <2>3, <2>4, <2>5, <2>6, <2>7, <2>8 DEF Answer
<1>4. QED
  BY <1>1, <1>2, <1>3 DEF Next

\* The mounted page began with one of the composers mounted so far: a remount
\* keeps the page, and opening the channel starts a page with its composer.
LEMMA SelectionKeepsBody ==
    ASSUME NEW target, SelectEdit(target)
    PROVE  first' = first /\ gen' \in {gen, gen + 1}
BY Zenon DEF SelectEdit, Mount

LEMMA BodyStep ==
    ASSUME gen \in Nat, first \in 0 .. gen, [Next]_vars
    PROVE  first' \in 0 .. gen'
<1> DEFINE same == first' = first /\ gen' \in {gen, gen + 1}
<1>1. CASE Open
  <2>1. first' = gen + 1 /\ gen' = gen + 1
    BY <1>1, Zenon DEF Open, Mount
  <2>2. QED
    BY <2>1
<1>2. ASSUME NEW s, NEW done, End(s, done) PROVE same
  <2>1. CASE first' = first /\ gen' = gen
    BY <2>1
  <2>2. CASE SelectEdit(None)
    BY <2>2, SelectionKeepsBody
  <2>3. QED
    BY <1>2, <2>1, <2>2, Zenon DEF End
<1>3. CASE UNCHANGED vars
  BY <1>3 DEF vars, page
<1>4. CASE Input /\ ~Open
  <2>1. ASSUME NEW i, Reply(i) \/ Edit(i) PROVE same
    BY <2>1, SelectionKeepsBody, Zenon DEF Reply, Edit
  <2>2. ASSUME CancelEdit PROVE same
    BY <2>2, SelectionKeepsBody, Zenon DEF CancelEdit
  <2>3. ASSUME NEW t, Type(t) PROVE same
    BY <2>3 DEF Type, page
  <2>4. ASSUME Close \/ CancelReply \/ ToggleFile \/ ClickSend PROVE same
    BY <2>4 DEF Close, CancelReply, ToggleFile, ClickSend, page
  <2>5. ASSUME StartRecording \/ StopRecording \/ CancelRecording PROVE same
    BY <2>5 DEF StartRecording, StopRecording, CancelRecording, page
  <2>6. ASSUME Others PROVE same
    BY <2>6 DEF Others, page
  <2>7. same
    BY <1>4, <2>1, <2>2, <2>3, <2>4, <2>5, <2>6, Zenon DEF Input
  <2>8. QED
    BY <2>7
<1>5. CASE Answer
  <2>1. ASSUME NEW s, UploadFails(s) \/ Acknowledged(s) PROVE same
    BY <1>2, <2>1, Zenon DEF UploadFails, Acknowledged
  <2>2. ASSUME NEW s, Upload(s) \/ Emit(s) PROVE same
    BY <2>2 DEF Upload, Emit, page
  <2>3. ASSUME NEW g, Granted(g) \/ Denied(g) PROVE same
    BY <2>3 DEF Granted, Denied, page
  <2>4. ASSUME Stopped PROVE same
    BY <2>4 DEF Stopped, page
  <2>5. ASSUME Others PROVE same
    BY <2>5 DEF Others, page
  <2>6. same
    BY <1>5, <2>1, <2>2, <2>3, <2>4, <2>5, Zenon DEF Answer
  <2>7. QED
    BY <2>6
<1>6. QED
  BY <1>1, <1>3, <1>4, <1>5, Zenon DEF Next

\* Every variable of the page keeps its type; the selections of ChannelPageBody are
\* of stored messages, and not both a reply and an edit.
THEOREM TypesHold == Spec => []TypeOK
<1> DEFINE BodyInv == first \in 0 .. gen
<1>1. Init => MicInv /\ ComposerInv /\ CacheInv /\ SelectionInv /\ BodyInv
  <2>1. Init => SelectionInv
    BY Zenon DEF Init, SelectionInv
  <2>2. Init => BodyInv
    <3>1. Init => first = 0 /\ gen = 0
      BY Zenon DEF Init
    <3>2. QED
      BY <3>1
  <2>3. Init => CacheInit
    BY Zenon DEF Init
  <2>4. QED
    BY <2>1, <2>2, <2>3, MicInit, ComposerInit, CacheStarts, Zenon
<1>2. MicInv /\ ComposerInv /\ CacheInv /\ SelectionInv /\ BodyInv /\ [Next]_vars
      => (MicInv /\ ComposerInv /\ CacheInv /\ SelectionInv /\ BodyInv)'
  <2>1. MicInv => gen \in Nat
    BY MaxGenAssumption DEF MicInv
  <2>2. QED
    BY <2>1, MicStep, ComposerStep, CacheStep, SelectionStep, BodyStep
<1>3. MicInv /\ ComposerInv /\ CacheInv /\ SelectionInv /\ BodyInv => TypeOK
  <2> SUFFICES ASSUME MicInv, ComposerInv, CacheInv, SelectionInv, BodyInv PROVE TypeOK
    OBVIOUS
  <2>1. Pending \subseteq rows
    BY PendingType DEF CacheInv
  <2>2. ASSUME NEW k \in DOMAIN data
        PROVE  ToSet(data[k].messages) \subseteq rows /\ data[k].next \in rows \cup {None}
    <3>1. data \in Seq(Pages(rows))
      BY DEF CacheInv, TabTypes
    <3>2. data[k] \in Pages(rows)
      BY <3>1
    <3>3. data[k].messages \in Seq(rows) /\ data[k].next \in rows \cup {None}
      BY <3>2 DEF Pages
    <3>4. QED
      BY <3>3 DEF ToSet
  <2>3. query.kind \in {"none", "all", "next"}
    BY DEF CacheInv, TabTypes, QueryTypes, Queries
  <2>4. CacheTypeOK
    BY <2>1, <2>2, <2>3 DEF CacheTypeOK, CacheInv, ServerTypes, TabTypes
  <2>5. gen \in 0 .. MaxGen /\ mic \in [Gens -> {"off", "asking", "on"}]
    BY DEF MicInv
  <2>6. \A s \in sends : s.gen \in 1 .. gen
    <3>1. ASSUME NEW s \in sends PROVE s.gen \in 1 .. gen
      <4>1. s \in Sends /\ s.gen <= gen
        BY DEF ComposerInv, SendsInv
      <4>2. s.gen \in Gens
        BY <4>1 DEF Sends
      <4>3. QED
        BY <2>5, <4>1, <4>2, MaxGenAssumption DEF Gens
    <3>2. QED
      BY <3>1
  <2>7. text \in Typed \cup {"", "original"}
    BY Zenon DEF ComposerInv, SendsInv, Contents
  <2>8. QED
    BY <2>4, <2>5, <2>6, <2>7, Zenon DEF TypeOK, SelectionInv
<1>4. QED
  BY <1>1, <1>2, <1>3, PTL DEF Spec

===============================================================================
