--------------------------- MODULE TranscriptPage ---------------------------
(***************************************************************************)
(* The transcript pages of one meeting (initializeTranscript and           *)
(* initializeTranscriptUpload in pages.js) in several tabs, over a server  *)
(* that keeps TranscriptRegister's promise.  A chosen file is read while   *)
(* the user goes on: he may choose another, type, or submit.               *)
(***************************************************************************)
EXTENDS Naturals

CONSTANTS
  Requests,       \* the calls that may be made, each at most once
  Texts,          \* transcripts that are valid
  NoText,
  Tabs,
  Organizers,     \* the tabs signed in as the meeting's organizer
  Files,          \* the files a user may choose
  NoRequest

VARIABLES
  register,       \* the server: the meeting's transcript, and whose it is
  outcome,        \* outcome[q]: what the server told request q
  sent,           \* sent[q]: the text request q carries, or NoText
  tab             \* tab[t]: the page in tab t

vars == <<register, outcome, sent, tab>>

Meeting == "meeting"
Empty == [by |-> NoRequest, content |-> NoText]
Server == INSTANCE TranscriptRegister
            WITH MeetingIds <- {Meeting}, Contents <- Texts

\* What the constants are taken to be.  A file passes the checks of its type and
\* size or not; its text may turn out to be unreadable, too long or not plain.
TranscriptPageConstants ==
  /\ Files \subseteq [plain : BOOLEAN, text : Texts \union {NoText}]
  /\ NoText \notin Texts
  /\ NoRequest \notin Requests
  /\ Organizers \subseteq Tabs

Pages ==
  [step : {"loading", "viewing", "adding", "saving", "saved", "broken"},
   shown : Texts \union {NoText}, area : Texts \union {NoText},
   reading : SUBSET Files, awaited : Requests \union {NoRequest},
   said : {"", "loaded", "saving", "saved", "error"}]

FreshPage ==
  [step |-> "loading", shown |-> NoText, area |-> NoText, reading |-> {},
   awaited |-> NoRequest, said |-> ""]

PageTypeOK ==
  /\ register \in [{Meeting} -> [by : Requests, content : Texts] \union {Empty}]
  /\ outcome \in [Requests -> Server!Outcomes]
  /\ sent \in [Requests -> Texts \union {NoText}]
  /\ tab \in [Tabs -> Pages]

Show(t, p) == tab' = [tab EXCEPT ![t] = p]
serverVars == <<register, outcome, sent>>

\* The form is there until a transcript is saved from it.
FormIsOpen(t) == tab[t].step \in {"adding", "saving"}

-----------------------------------------------------------------------------
\* The meeting and its transcript are read; 404 opens the form to the organizer.
Load(t) ==
  LET p == tab[t] IN
  /\ p.step = "loading"
  /\ \/ Show(t, IF register[Meeting] # Empty
                THEN [p EXCEPT !.step = "viewing", !.shown = register[Meeting].content]
                ELSE IF t \in Organizers THEN [p EXCEPT !.step = "adding"]
                ELSE [p EXCEPT !.step = "viewing"])
     \/ Show(t, [p EXCEPT !.step = "broken"])
  /\ UNCHANGED serverVars

\* The user reloads or opens the page anew; nothing of the old page goes on.
Reload(t) ==
  /\ tab[t].step # "loading"
  /\ Show(t, FreshPage)
  /\ UNCHANGED serverVars

\* The fields of the form stay enabled while it is saved.  Nothing listens to the
\* area: the status says of the edited text what it said of the one before.
Type(t, text) ==
  /\ FormIsOpen(t)
  /\ Show(t, [tab[t] EXCEPT !.area = text])
  /\ UNCHANGED serverVars

\* The change handler up to its await.
Choose(t, f) ==
  LET p == tab[t] IN
  /\ FormIsOpen(t)
  /\ Show(t, IF f.plain
             THEN [p EXCEPT !.reading = @ \union {f}]
             ELSE [p EXCEPT !.said = "error"])
  /\ UNCHANGED serverVars

\* What the handler does with a text once it has it.
Take(p, f) ==
  IF f.text = NoText THEN [p EXCEPT !.said = "error"]
  ELSE [p EXCEPT !.area = f.text, !.said = "loaded"]

\* A file's text arrives, in any order, before or after the form was submitted or
\* closed.
FileRead(t, f) ==
  LET p == tab[t] IN
  /\ f \in p.reading
  /\ Show(t, [Take(p, f) EXCEPT !.reading = @ \ {f}])
  /\ UNCHANGED serverVars

\* The text is read from the area and the button disabled.
Submit(t, q) ==
  LET p == tab[t] IN
  /\ p.step = "adding"
  /\ p.area # NoText /\ sent[q] = NoText
  /\ sent' = [sent EXCEPT ![q] = p.area]
  /\ Show(t, [p EXCEPT !.step = "saving", !.awaited = q, !.said = "saving"])
  /\ UNCHANGED <<register, outcome>>

SubmitNothing(t) ==
  /\ tab[t].step = "adding" /\ tab[t].area = NoText
  /\ Show(t, [tab[t] EXCEPT !.said = "error"])
  /\ UNCHANGED serverVars

\* The server does what it promises with a call that reached it, whether its page
\* still waits for it or not.
Serve(q) ==
  /\ sent[q] # NoText
  /\ \/ Server!Write(q) /\ register'[Meeting].content = sent[q]
     \/ Server!Created(q)
     \/ Server!Conflict(q)
     \/ Server!Refuse(q)
     \/ Server!Fail(q)
  /\ UNCHANGED <<sent, tab>>

\* What a saved form shows: the content its answer has, that of the row its call
\* made.
Content(t) == sent[tab[t].awaited]

\* Slip: "already exists" is taken for success.
SavedOnConflict(t) ==
  LET p == tab[t] IN
  /\ p.step = "saving"
  /\ outcome[p.awaited] \in {"created", "conflict"}
  /\ Show(t, [p EXCEPT !.step = "saved", !.shown = Content(t), !.area = NoText,
                       !.said = "saved"])
  /\ UNCHANGED serverVars

\* The form is emptied and its fields disabled.
Saved(t) ==
  LET p == tab[t] IN
  /\ p.step = "saving"
  /\ outcome[p.awaited] = "created"
  /\ Show(t, [p EXCEPT !.step = "saved", !.shown = Content(t), !.area = NoText,
                       !.said = "saved"])
  /\ UNCHANGED serverVars

\* An error answer, or none: the form can be submitted again, its fields kept.
NotSaved(t) ==
  /\ tab[t].step = "saving"
  /\ Show(t, [tab[t] EXCEPT !.step = "adding", !.said = "error"])
  /\ UNCHANGED serverVars

-----------------------------------------------------------------------------
Init ==
  /\ Server!Init
  /\ sent = [q \in Requests |-> NoText]
  /\ tab = [t \in Tabs |-> FreshPage]

EndOfFetch(t) == Saved(t) \/ NotSaved(t)

Next ==
  \/ \E t \in Tabs :
       \/ Load(t)
       \/ Reload(t)
       \/ \E text \in Texts : Type(t, text)
       \/ \E f \in Files : Choose(t, f) \/ FileRead(t, f)
       \/ \E q \in Requests : Submit(t, q)
       \/ SubmitNothing(t)
       \/ EndOfFetch(t)
  \/ \E q \in Requests : Serve(q)

Spec == Init /\ [][Next]_vars

-----------------------------------------------------------------------------
\* What a tab shows as the transcript is the stored one, whatever was typed, read
\* or submitted there or in another tab meanwhile; and a tab has closed its form, or
\* says "Transcript saved", only if the stored transcript is of the very call the
\* form was waiting for, with the text that was in the area when it was submitted.
ShownIsStored ==
  \A t \in Tabs :
    /\ tab[t].shown # NoText => tab[t].shown = register[Meeting].content
    /\ tab[t].step = "saved" \/ tab[t].said = "saved" =>
         register[Meeting] = [by |-> tab[t].awaited, content |-> sent[tab[t].awaited]]
=============================================================================
