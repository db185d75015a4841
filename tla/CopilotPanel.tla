---------------------------- MODULE CopilotPanel ----------------------------
(***************************************************************************)
(* The assistant's panel of one browser tab (web/static/js/copilot.js with *)
(* api.js and navigation.js), a client of AssistantService.  Its handlers  *)
(* run one at a time and give way at each fetch: clicks, events of the     *)
(* speech recognizer, answers in any order, lost answers and requests that *)
(* arrive after their fetch was given up come between.  An answer may lead *)
(* to another page, which starts afresh while the server goes on.          *)
(***************************************************************************)
EXTENDS AssistantService, FiniteSets

CONSTANT Offered        \* the actions the model chooses from

ASSUME OfferedAreRegistered == Offered \subseteq ActionIds

VARIABLES
  open,         \* the panel is shown
  busy,         \* setFormBusy: form, voice button and options are disabled
  ready,        \* the session's CSRF token has been fetched
  leaving,      \* location.assign was called; the page still runs
  waiting,      \* the calls whose fetch the page awaits
  sent,         \* the calls that were sent, by this page or an earlier one
  from,         \* from[c]: the call whose Confirm button sent c; c if typed or said
  button,       \* button[c]: the Confirm button the answer to c brought
  voiceActive,  \* the flag of copilot.js
  engine,       \* the browser's SpeechRecognition
  spoken        \* history: a recognized text was sent from this page

voiceVars == <<voiceActive, engine>>
pageVars == <<open, busy, ready, leaving, waiting, button, voiceVars, spoken>>
netVars == <<sent, from>>
vars == <<serviceVars, pageVars, netVars>>

Engine == {"off", "starting", "listening", "stopping", "aborting", "finishing"}

PanelTypeOK ==
  /\ ServiceTypeOK
  /\ open \in BOOLEAN /\ busy \in BOOLEAN /\ ready \in BOOLEAN
  /\ leaving \in BOOLEAN /\ voiceActive \in BOOLEAN /\ spoken \in BOOLEAN
  /\ waiting \subseteq sent /\ sent \subseteq Calls
  /\ from \in [Calls -> Calls]
  /\ button \in [Calls -> {"none", "offered", "used"}]
  /\ engine \in Engine

IsMessage(c) == from[c] = c
WaitingMessages == {c \in waiting : IsMessage(c)}

-----------------------------------------------------------------------------
\* sendMessage as far as its fetch.  (Without the token apiFetch throws at once
\* and all is as before.)
Send(c) ==
  /\ ready
  /\ c \notin sent
  /\ sent' = sent \union {c}
  /\ waiting' = waiting \union {c}
  /\ busy' = TRUE
  /\ UNCHANGED from

\* The form is submitted or an option clicked: their controls are not disabled.
Submit(c) ==
  /\ open /\ ~busy
  /\ Send(c)
  /\ UNCHANGED <<serviceVars, open, ready, leaving, button, voiceVars, spoken>>

\* Slip: the clicked button stays enabled.
ClickStaysEnabled(p, c) ==
  /\ open /\ ready
  /\ button[p] = "offered"
  /\ c \notin sent
  /\ sent' = sent \union {c}
  /\ waiting' = waiting \union {c}
  /\ from' = [from EXCEPT ![c] = p]
  /\ UNCHANGED <<serviceVars, open, busy, ready, leaving, button, voiceVars,
                 spoken>>

\* Confirm: the button is disabled for good, the form is not; the request names
\* the action of the answer p that brought the button.
ClickConfirm(p, c) ==
  /\ open /\ ready
  /\ button[p] = "offered"
  /\ c \notin sent
  /\ button' = [button EXCEPT ![p] = "used"]
  /\ sent' = sent \union {c}
  /\ waiting' = waiting \union {c}
  /\ from' = [from EXCEPT ![c] = p]
  /\ UNCHANGED <<serviceVars, open, busy, ready, leaving, voiceVars, spoken>>

-----------------------------------------------------------------------------
\* stopVoiceInput with abort: nothing more is recognized.
AbortVoice ==
  /\ voiceActive' = FALSE
  /\ engine' = IF voiceActive THEN "aborting" ELSE engine

\* Slip: closing leaves the recognizer alone.
CloseListening ==
  /\ open
  /\ open' = FALSE
  /\ UNCHANGED <<serviceVars, netVars, busy, ready, leaving, waiting, button,
                 voiceVars, spoken>>

\* setPanelOpen(false): the close button, the toggle, a click elsewhere.
ClosePanel ==
  /\ open
  /\ open' = FALSE
  /\ AbortVoice
  /\ UNCHANGED <<serviceVars, netVars, busy, ready, leaving, waiting, button,
                 spoken>>

OpenPanel ==
  /\ ~open
  /\ open' = TRUE
  /\ UNCHANGED <<serviceVars, netVars, busy, ready, leaving, waiting, button,
                 voiceVars, spoken>>

\* A click on Speak or Stop.  start() of a recognizer that is not off throws and
\* the flag stays as it is; stop() still recognizes what was heard.
ClickVoice ==
  /\ open /\ ~busy
  /\ IF voiceActive
     THEN voiceActive' = FALSE /\ engine' = "stopping"
     ELSE IF engine = "off" THEN voiceActive' = TRUE /\ engine' = "starting"
     ELSE UNCHANGED voiceVars
  /\ UNCHANGED <<serviceVars, netVars, open, busy, ready, leaving, waiting,
                 button, spoken>>

\* The recognizer's events and their handlers.
VoiceStarts ==
  /\ engine = "starting"
  /\ engine' = "listening"
  /\ voiceActive' = TRUE

VoiceErrs ==
  /\ engine \in {"starting", "listening", "stopping"}
  /\ engine' = "finishing"
  /\ voiceActive' = FALSE

VoiceEnds ==
  /\ engine \in {"listening", "stopping", "aborting", "finishing"}
  /\ engine' = "off"
  /\ voiceActive' = FALSE

VoiceEvent ==
  /\ VoiceStarts \/ VoiceErrs \/ VoiceEnds
  /\ UNCHANGED <<serviceVars, netVars, open, busy, ready, leaving, waiting,
                 button, spoken>>

\* A result of no use: nothing was understood, or too much.
VoiceResultUnused ==
  /\ engine \in {"listening", "stopping"}
  /\ engine' = "finishing"
  /\ voiceActive' = FALSE
  /\ UNCHANGED <<serviceVars, netVars, open, busy, ready, leaving, waiting,
                 button, spoken>>

\* A result is sent as it comes, whether the form is busy or not.
VoiceResult(c) ==
  /\ engine \in {"listening", "stopping"}
  /\ engine' = "finishing"
  /\ voiceActive' = FALSE
  /\ Send(c)
  /\ spoken' = TRUE
  /\ UNCHANGED <<serviceVars, open, ready, leaving, button>>

-----------------------------------------------------------------------------
\* Slip: an error skips what an answer does.
ReleaseNothing(c) ==
  /\ waiting' = waiting \ {c}
  /\ UNCHANGED busy

\* What the end of c's fetch does to the form: sendMessage's finally clause;
\* executeConfirmedAction never touched it.
Release(c) ==
  /\ waiting' = waiting \ {c}
  /\ busy' = IF IsMessage(c) THEN FALSE ELSE busy

\* The fetch rejects, or its answer is an error or a refusal: a line is added.
\* The call may not have arrived yet, and what it does is not known.
Complain(c) ==
  /\ c \in waiting
  /\ Release(c)
  /\ UNCHANGED <<serviceVars, netVars, open, ready, leaving, button, voiceVars,
                 spoken>>

\* 401: the page leaves for the login page.
AskToSignIn(c) ==
  /\ c \in waiting
  /\ leaving' = TRUE
  /\ Release(c)
  /\ UNCHANGED <<serviceVars, netVars, open, ready, button, voiceVars, spoken>>

Arrived(c, s) ==
  /\ c \in waiting
  /\ call[c].state = "answered"
  /\ call[c].answer = s
  /\ Release(c)

\* requires_confirmation: a Confirm button, and nothing else.
RenderProposal(c) ==
  /\ Arrived(c, "confirmation_required")
  /\ button' = [button EXCEPT ![c] = "offered"]
  /\ UNCHANGED <<serviceVars, netVars, open, ready, leaving, voiceVars, spoken>>

\* success with a navigation is followed at once: what a message may open needs
\* no question of navigation.js, and a confirmed answer has had its own.
RenderNavigation(c) ==
  /\ Arrived(c, "success")
  /\ PageOf(call[c].action) # "none"
  /\ leaving' = TRUE
  /\ UNCHANGED <<serviceVars, netVars, open, ready, button, voiceVars, spoken>>

\* success with a focus target of this page closes the panel; a theme, or a
\* target the page does not have, leaves it.
RenderFocus(c) ==
  /\ Arrived(c, "success")
  /\ Effect(call[c].action) = "focus"
  /\ open' = FALSE
  /\ AbortVoice
  /\ UNCHANGED <<serviceVars, netVars, ready, leaving, button, spoken>>

RenderInPlace(c) ==
  /\ Arrived(c, "success")
  /\ PageOf(call[c].action) = "none"
  /\ UNCHANGED <<serviceVars, netVars, open, ready, leaving, button, voiceVars,
                 spoken>>

\* A page is loaded, by the assistant or by the user: the scripts of the old one
\* are gone, with their fetches and buttons; what they sent is not.
LoadPage ==
  /\ open' = FALSE /\ busy' = FALSE /\ ready' = FALSE /\ leaving' = FALSE
  /\ waiting' = {} /\ spoken' = FALSE
  /\ button' = [c \in Calls |-> "none"]
  /\ voiceActive' = FALSE /\ engine' = "off"
  /\ UNCHANGED <<serviceVars, netVars>>

SessionLoads ==
  /\ ready' = TRUE
  /\ UNCHANGED <<serviceVars, netVars, open, busy, leaving, waiting, button,
                 voiceVars, spoken>>

-----------------------------------------------------------------------------
\* What was sent reaches the server, soon, late or never.
Reach(c) ==
  /\ c \in sent
  /\ \/ IsMessage(c) /\ ReceiveMessage(c)
     \/ /\ ~IsMessage(c)
        /\ \E may \in BOOLEAN : ReceiveConfirm(c, call[from[c]].action, may)
  /\ UNCHANGED <<pageVars, netVars>>

Serve(c) ==
  /\ \/ Perform(c)
     \/ \E a \in Offered \union {"none"}, s \in Answers : AnswerCall(c, a, s)
     \/ FailCall(c)
  /\ UNCHANGED <<pageVars, netVars>>

EndOfFetch(c) ==
  \/ Complain(c)
  \/ AskToSignIn(c)
  \/ RenderProposal(c)
  \/ RenderNavigation(c)
  \/ RenderFocus(c)
  \/ RenderInPlace(c)

Init ==
  /\ ServiceInit
  /\ open = FALSE /\ busy = FALSE /\ ready = FALSE /\ leaving = FALSE
  /\ waiting = {} /\ sent = {} /\ spoken = FALSE
  /\ from = [c \in Calls |-> c]
  /\ button = [c \in Calls |-> "none"]
  /\ voiceActive = FALSE /\ engine = "off"

Next ==
  \/ \E c \in Calls :
       \/ Submit(c)
       \/ \E p \in Calls : ClickConfirm(p, c)
       \/ VoiceResult(c)
       \/ Reach(c)
       \/ Serve(c)
       \/ EndOfFetch(c)
  \/ OpenPanel
  \/ ClosePanel
  \/ ClickVoice
  \/ VoiceEvent
  \/ VoiceResultUnused
  \/ SessionLoads
  \/ LoadPage

Spec == Init /\ [][Next]_vars

-----------------------------------------------------------------------------
\* Every meeting the assistant created or moved was proposed in an answer this
\* browser received, with that action, and confirmed by one click: no answer
\* that is lost, late or followed by another page has an action done twice.
ChangesAreConfirmedOnce ==
  \A c \in effects :
    LET p == from[c] IN
    /\ p # c
    /\ call[p].answer = "confirmation_required"
    /\ call[p].action = call[c].action
    /\ \A d \in effects : from[d] = p => d = c

\* The form is never left disabled with no message to wait for; and as long as
\* nobody has spoken, it is disabled during the whole of a message, so that two
\* are never under way.  (A confirmation does not shut the form.  A recognized text
\* is sent though the form is busy: the first of the two answers then enables it.)
BusyTellsWaiting ==
  /\ busy => WaitingMessages # {}
  /\ ~spoken => /\ WaitingMessages # {} => busy
                /\ Cardinality(WaitingMessages) <= 1

\* The microphone is on only behind an open panel whose button offers to stop
\* it, whatever closed the panel or ended the recognition.
MicrophoneIsShown ==
  engine \in {"starting", "listening"} => open /\ voiceActive
=============================================================================
