-------------------------------- MODULE Client --------------------------------
(* The channel page around ClientCache: the composer with its draft,          *)
(* attachment and reply or edit selection, the voice recorder, and the sends  *)
(* they start. The composer is keyed by the edit selection, so choosing or    *)
(* leaving an edit unmounts it and mounts a fresh one, while sends and        *)
(* microphone prompts of the old one go on with what they closed over.        *)
EXTENDS ClientCache, TLC

CONSTANTS MaxGen,     \* bound: composers mounted in one session
          MaxInputs   \* bound: what users and the network start

ASSUME MaxGenAssumption == MaxGen \in Nat

VARIABLES gen,       \* the composer now mounted: the gen-th; mounted iff open
          first,     \* the first composer of the ChannelPageBody now mounted
          edit,      \* ChannelPageBody.editTarget
          reply,     \* ChannelPageBody.replyTarget
          text,      \* MessageComposer.content: "", "original" or what was typed
          file,      \* pendingFile is set
          sending,   \* isSending
          sends,     \* the sends in flight, of this composer and older ones
          status,    \* RecorderStatus of this composer's recorder
          stopping,  \* its MediaRecorder was told to stop
          cancelled, \* cancelledRef
          mic,       \* per composer: its microphone stream
          over,      \* history: draft, attachment or reply changed since the click
          left,      \* history: composers unmounted while the browser was asking
          inputs     \* history: inputs so far

composer == <<text, file, sending, over>>
recorder == <<status, stopping, cancelled, mic, left>>
page == <<gen, first, edit, reply>>
vars == <<cacheVars, page, composer, sends, recorder, inputs>>

Gens == 1 .. MaxGen
Typed == {"draft", "later"}

TypeOK ==
    /\ CacheTypeOK
    /\ gen \in 0 .. MaxGen /\ first \in 0 .. gen
    /\ edit \in rows \cup {None} /\ reply \in rows \cup {None}
    /\ edit = None \/ reply = None
    /\ text \in Typed \cup {"", "original"}
    /\ \A s \in sends : s.gen \in 1 .. gen
    /\ status \in {"idle", "requesting", "recording", "error"}
    /\ mic \in [Gens -> {"off", "asking", "on"}]

Init ==
    /\ CacheInit
    /\ gen = 0 /\ first = 0 /\ edit = None /\ reply = None
    /\ text = "" /\ file = FALSE /\ sending = FALSE /\ over = FALSE
    /\ sends = {}
    /\ status = "idle" /\ stopping = FALSE /\ cancelled = FALSE
    /\ mic = [g \in Gens |-> "off"] /\ left = {}
    /\ inputs = 0

-------------------------------------------------------------------------------
(* Mounting and unmounting                                                    *)

\* Mutant: the unmount leaves the stream of a running recording open.
Torndown_Running(m) == m

\* teardown stops the tracks it knows of: those of a prompt are not there yet.
Torndown(m) == IF m = "on" THEN "off" ELSE m

Unmount ==
    IF gen = 0 THEN UNCHANGED <<mic, left>>
    ELSE /\ mic' = [mic EXCEPT ![gen] = Torndown(@)]
         /\ left' = IF mic[gen] = "asking" THEN left \cup {gen} ELSE left

\* A fresh composer, with the content of the message it edits.
Mount(target) ==
    /\ gen < MaxGen
    /\ gen' = gen + 1
    /\ text' = IF target = None THEN "" ELSE "original"
    /\ file' = FALSE /\ sending' = FALSE /\ over' = FALSE
    /\ status' = "idle" /\ stopping' = FALSE /\ cancelled' = FALSE

\* setEditTarget: another key remounts.
SelectEdit(target) ==
    /\ edit' = target /\ first' = first
    /\ IF target = edit THEN UNCHANGED <<gen, text, file, sending, over, recorder>>
                        ELSE Unmount /\ Mount(target)

Open ==
    /\ OpenChannel
    /\ Mount(None)
    /\ first' = gen + 1
    /\ edit' = None /\ reply' = None
    /\ UNCHANGED <<sends, mic, left>>

Close ==
    /\ CloseChannel
    /\ Unmount
    /\ UNCHANGED <<page, composer, sends, status, stopping, cancelled>>

\* handleReply, handleEdit, onCancelReply, onCancelEdit.

\* Mutant: replying leaves the edit selected.
Reply_Editing(i) ==
    /\ open /\ i \in ToSet(Messages)
    /\ reply' = i
    /\ UNCHANGED <<cacheVars, gen, first, edit, composer, sends, recorder>>

Reply(i) ==
    /\ open /\ i \in ToSet(Messages)
    /\ reply' = i
    /\ SelectEdit(None)
    /\ UNCHANGED <<cacheVars, sends>>

Edit(i) ==
    /\ open /\ i \in ToSet(Messages)
    /\ reply' = None
    /\ SelectEdit(i)
    /\ UNCHANGED <<cacheVars, sends>>

CancelReply ==
    /\ open /\ reply # None
    /\ reply' = None
    /\ UNCHANGED <<cacheVars, gen, first, edit, composer, sends, recorder>>

CancelEdit ==
    /\ open /\ edit # None
    /\ SelectEdit(None)
    /\ UNCHANGED <<cacheVars, reply, sends>>

-------------------------------------------------------------------------------
(* MessageComposer. The recording bar replaces the text area.                 *)

Editing == open /\ status # "recording"

Type(t) ==
    /\ Editing
    /\ t # text
    /\ text' = t /\ over' = TRUE
    /\ UNCHANGED <<cacheVars, page, file, sending, sends, recorder>>

\* A file that passes the checks of handleFileChange, or its removal.
ToggleFile ==
    /\ Editing /\ edit = None
    /\ file' = ~file /\ over' = TRUE
    /\ UNCHANGED <<cacheVars, page, text, sending, sends, recorder>>

Request(kind, content, withFile) ==
    [gen |-> gen, kind |-> kind, text |-> content, edit |-> edit, reply |-> reply,
     step |-> IF withFile THEN "presign" ELSE "emit"]

Start(s) ==
    /\ sends' = sends \cup {s}
    /\ sending' = TRUE
    /\ over' = FALSE

\* handleSend
ClickSend ==
    /\ Editing
    /\ text # "" \/ file
    /\ ~sending
    /\ Start(Request(IF edit = None THEN "text" ELSE "edit", text, file))
    /\ UNCHANGED <<cacheVars, page, text, file, recorder>>

Moved(s, step) == (sends \ {s}) \cup {[s EXCEPT !.step = step]}

\* presignUpload, then uploadToPresignedUrl
Upload(s) ==
    /\ s.step \in {"presign", "put"}
    /\ sends' = Moved(s, IF s.step = "presign" THEN "put" ELSE "emit")
    /\ UNCHANGED <<cacheVars, page, composer, recorder>>

\* Mutant: the draft is cleared however the send ends.
Cleared_Always(done) == TRUE

\* Which ends of a handleSend clear the draft and the attachment.
Cleared(done) == done

\* The end of s: what it does to the page it was started on, if that is still
\* there, and to the page of now.
End(s, done) ==
    LET here == open /\ s.gen = gen
        \* The reply and edit selection outlive the composer, but not the page.
        sameBody == open /\ s.gen >= first
    IN /\ sends' = sends \ {s}
       /\ IF done /\ s.kind = "edit" /\ sameBody /\ edit # None
          THEN SelectEdit(None) /\ UNCHANGED reply
          ELSE /\ sending' = IF here THEN FALSE ELSE sending
               /\ IF here /\ s.kind # "clip" /\ Cleared(done)
                  THEN text' = "" /\ file' = FALSE
                  ELSE UNCHANGED <<text, file>>
               /\ reply' = IF done /\ sameBody /\ s.reply # None THEN None ELSE reply
               /\ UNCHANGED <<gen, first, edit, over, recorder>>

UploadFails(s) ==
    /\ s.step \in {"presign", "put"}
    /\ End(s, FALSE)
    /\ UNCHANGED cacheVars

\* emitForMessage, once the socket is connected: the server stores the message
\* and acknowledges it, refuses it, or (an edit) stores nothing new.
Emit(s) ==
    /\ s.step = "emit"
    /\ connected
    /\ sends' = Moved(s, "ack")
    /\ \/ /\ s.kind # "edit"
          /\ \E i \in Ids : Store(i, [kind |-> "ack", id |-> i, of |-> <<s.gen, s.kind>>])
       \/ /\ events' = Append(events, [kind |-> IF s.kind = "edit" THEN "ack" ELSE "nack",
                                       id |-> None, of |-> <<s.gen, s.kind>>])
          /\ UNCHANGED <<rows, at, clock, raced, missed>>
    /\ UNCHANGED <<connected, data, query, open, page, composer, recorder>>

\* The acknowledgement: an own message is appended to the cache.
Acknowledged(s) ==
    /\ events # <<>>
    /\ s.step = "ack"
    /\ LET e == Head(events)
       IN /\ e.kind \in {"ack", "nack"}
          /\ e.of = <<s.gen, s.kind>>
          /\ data' = IF e.id = None THEN data ELSE Appended(data, e.id)
          /\ End(s, e.kind = "ack")
    /\ events' = Tail(events)
    /\ UNCHANGED <<server, connected, query, open, raced, missed>>

-------------------------------------------------------------------------------
(* useAudioRecorder *)

StartRecording ==
    /\ open /\ edit = None
    /\ status \in {"idle", "error"}
    /\ ~sending
    /\ status' = "requesting" /\ cancelled' = FALSE
    /\ mic' = [mic EXCEPT ![gen] = "asking"]
    /\ UNCHANGED <<cacheVars, page, composer, sends, stopping, left>>

\* getUserMedia resolves, in a composer that may be gone, and recording starts,
\* or new MediaRecorder or recorder.start throws: nothing catches that, and the
\* composer goes on "requesting" with the stream open.
Granted(g) ==
    /\ mic[g] = "asking"
    /\ mic' = [mic EXCEPT ![g] = "on"]
    /\ \/ status' = IF open /\ g = gen THEN "recording" ELSE status
       \/ status' = status
    /\ UNCHANGED <<cacheVars, page, composer, sends, stopping, cancelled, left>>

Denied(g) ==
    /\ mic[g] = "asking"
    /\ mic' = [mic EXCEPT ![g] = "off"]
    /\ status' = IF open /\ g = gen THEN "error" ELSE status
    /\ UNCHANGED <<cacheVars, page, composer, sends, stopping, cancelled, left>>

StopRecording ==
    /\ open /\ status = "recording" /\ ~stopping
    /\ ~sending
    /\ stopping' = TRUE /\ cancelled' = FALSE
    /\ UNCHANGED <<cacheVars, page, composer, sends, status, mic, left>>

CancelRecording ==
    /\ open /\ status = "recording" /\ ~stopping
    /\ stopping' = TRUE /\ cancelled' = TRUE
    /\ UNCHANGED <<cacheVars, page, composer, sends, status, mic, left>>

\* onstop: the stream is torn down; a clip that was not cancelled is reset and
\* sent by the effect that sees it.
Stopped ==
    /\ open /\ stopping
    /\ mic' = [mic EXCEPT ![gen] = "off"]
    /\ status' = "idle" /\ stopping' = FALSE
    /\ IF cancelled THEN UNCHANGED <<sends, sending, over>>
                    ELSE Start(Request("clip", "", TRUE))
    /\ UNCHANGED <<cacheVars, page, text, file, cancelled, left>>

-------------------------------------------------------------------------------
Others == UNCHANGED <<page, composer, sends, recorder>>

Input ==
    \/ \E i \in Ids : (Post(i) /\ Others) \/ Reply(i) \/ Edit(i)
    \/ (Disconnect \/ LoadEarlier \/ ComeOnline) /\ Others
    \/ Open \/ Close \/ CancelReply \/ CancelEdit
    \/ (\E t \in Typed \cup {""} : Type(t)) \/ ToggleFile \/ ClickSend
    \/ StartRecording \/ StopRecording \/ CancelRecording

Answer ==
    \/ (Reconnect \/ Hear) /\ Others
    \/ (ServeHistory \/ EarlierArrives \/ PageArrives \/ FetchFails) /\ Others
    \/ \E s \in sends : Upload(s) \/ UploadFails(s) \/ Emit(s) \/ Acknowledged(s)
    \/ \E g \in 1 .. gen : Granted(g) \/ Denied(g)
    \/ Stopped

Next ==
    \/ inputs < MaxInputs /\ inputs' = inputs + 1 /\ Input
    \/ Answer /\ UNCHANGED inputs

Spec == Init /\ [][Next]_vars

(* A composer loses its draft only to the user, to a remount, or to a send of *)
(* just this draft that succeeded, unless the user wrote on while it was      *)
(* sent; a send that fails keeps it for another try.                          *)
DraftClearedOnlyIfSent ==
    [][ text # "" /\ text' = "" /\ gen' = gen /\ ~over
        => \/ over'
           \/ \E s \in sends \ sends' : /\ s.gen = gen /\ s.text = text
                                        /\ s.step = "ack"
                                        /\ Head(events).kind = "ack" ]_vars

(* What a recorder's status says of the microphone. *)
Microphone(st) ==
    CASE st = "recording" -> {"on"}
      [] st = "requesting" -> {"asking", "on"}
      [] OTHER -> {"off"}

(* A microphone is open only for the composer that is mounted, or if its      *)
(* composer was left while the browser was still asking; and the mounted      *)
(* composer's status tells the truth: under the recording bar its microphone  *)
(* is open, without it and its request it is off, so that no second stream is *)
(* opened over one that nobody would stop.                                    *)
MicUnderControl ==
    /\ \A g \in Gens : mic[g] = "on" => (open /\ g = gen) \/ g \in left
    /\ open => mic[gen] \in Microphone(status)

(* "Stop the mic and timers if the component unmounts mid-recording."         *)
(* (useAudioRecorder.ts:199): no microphone is open but the mounted           *)
(* composer's.  Not kept by a prompt that is granted after its composer was   *)
(* left: the stream is not there yet when teardown looks for it.              *)
MicStopsWithComposer == \A g \in Gens : mic[g] = "on" => open /\ g = gen
===============================================================================
