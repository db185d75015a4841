---------------------------- MODULE BrowserProofs ----------------------------
(***************************************************************************)
(* What the browser's three clients keep, for any number of calls, tabs    *)
(* and files: the assistant's panel (CopilotPanel), the transcript pages   *)
(* (TranscriptPage) and the scheduling form (SchedulerForm).               *)
(***************************************************************************)
EXTENDS CopilotPanel, Pages, FiniteSetTheorems, TLAPS

(***************************************************************************)
(* The panel.  A change is made by a confirmation; a confirmation was sent *)
(* by the button of a proposal that was received; and a button that was    *)
(* clicked is never offered again, because its call is not awaited any     *)
(* more.  None of this mentions the page, which may be loaded afresh at    *)
(* any time.                                                               *)
(***************************************************************************)
Proposed(p) ==
  /\ call[p].state = "answered"
  /\ call[p].answer = "confirmation_required"
  /\ call[p].action \in NeedsConfirmation

\* What is known of every call c.
CallIsTrue(c) ==
  /\ c \notin sent => call[c].state = "none" /\ IsMessage(c)
  /\ call[c].state = "none" => call[c].way = "message" /\ call[c].answer = "none"
  /\ call[c].answer = "confirmation_required" => Proposed(c)
  /\ call[c].way = "confirm" =>
       ~IsMessage(c) /\ call[c].action = call[from[c]].action
  /\ c \in effects => call[c].way = "confirm" /\ call[c].state # "open"
  /\ ~IsMessage(c) => Proposed(from[c])
  /\ button[c] # "none" => Proposed(c)

\* One click for one button.
ButtonsAreTrue ==
  \A c \in Calls :
    /\ c \in waiting => button[c] = "none"
    /\ ~IsMessage(c) => from[c] \notin waiting /\ button[from[c]] # "offered"
    /\ \A d \in Calls : ~IsMessage(c) /\ ~IsMessage(d) /\ from[c] = from[d] => c = d

FormIsTrue ==
  /\ busy => WaitingMessages # {}
  /\ ~spoken => /\ WaitingMessages # {} => busy
                /\ \A c, d \in WaitingMessages : c = d

PanelInv ==
  /\ PanelTypeOK
  /\ \A c \in Calls : CallIsTrue(c)
  /\ ButtonsAreTrue
  /\ FormIsTrue
  /\ MicrophoneIsShown

\* The registry's confirmed actions are among those that can be asked for.
LEMMA RegistryIs ==
  /\ Mutations \subseteq NeedsConfirmation
  /\ NeedsConfirmation \subseteq ActionIds
  /\ ActionIds \subseteq Asked
  /\ "none" \notin ActionIds
BY DEF NeedsConfirmation, Mutations, ActionIds, Permission, Asked

LEMMA PanelInvInit == Init => PanelInv
<1> SUFFICES ASSUME Init PROVE PanelInv
  OBVIOUS
<1>1. /\ waiting = {} /\ sent = {} /\ effects = {}
      /\ \A c \in Calls : call[c] = NoCall /\ from[c] = c /\ button[c] = "none"
  BY DEF Init, ServiceInit
<1>2. PanelTypeOK
  BY <1>1 DEF Init, ServiceInit, PanelTypeOK, ServiceTypeOK, CallRecord, NoCall,
     Asked, Answers, Engine
<1>3. \A c \in Calls : CallIsTrue(c)
  BY <1>1 DEF CallIsTrue, NoCall, IsMessage
<1>4. ButtonsAreTrue
  BY <1>1 DEF ButtonsAreTrue, IsMessage
<1>5. FormIsTrue
  BY <1>1 DEF Init, FormIsTrue, WaitingMessages
<1>6. MicrophoneIsShown
  BY DEF Init, MicrophoneIsShown
<1> QED BY <1>2, <1>3, <1>4, <1>5, <1>6 DEF PanelInv

\* What is known of the calls does not depend on the page's other variables.
LEMMA CallsStayTrue ==
  ASSUME PanelInv, UNCHANGED <<serviceVars, netVars, button>>
  PROVE  \A c \in Calls : CallIsTrue(c)'
BY DEF PanelInv, CallIsTrue, Proposed, IsMessage, serviceVars, netVars

LEMMA FormStaysTrue ==
  ASSUME PanelInv, UNCHANGED <<netVars, busy, spoken, waiting>>
  PROVE  FormIsTrue'
BY DEF PanelInv, FormIsTrue, WaitingMessages, IsMessage, netVars

(***************************************************************************)
(* The panel opens and closes, and the recognizer's events.                *)
(***************************************************************************)
PanelMoves ==
  \/ OpenPanel
  \/ ClosePanel
  \/ ClickVoice
  \/ VoiceEvent
  \/ VoiceResultUnused
  \/ SessionLoads
  \/ UNCHANGED vars

LEMMA PanelMovesKeep ==
  ASSUME PanelInv, PanelMoves
  PROVE  PanelInv'
<1>1. UNCHANGED <<serviceVars, netVars, busy, waiting, button, spoken>>
  BY DEF PanelMoves, OpenPanel, ClosePanel, ClickVoice, VoiceEvent,
     VoiceResultUnused, SessionLoads, vars, pageVars
<1>2. /\ open' \in BOOLEAN /\ ready' \in BOOLEAN /\ leaving' \in BOOLEAN
      /\ voiceActive' \in BOOLEAN /\ engine' \in Engine
  BY DEF PanelMoves, OpenPanel, ClosePanel, ClickVoice, VoiceEvent, VoiceStarts,
     VoiceErrs, VoiceEnds, VoiceResultUnused, SessionLoads, AbortVoice, vars,
     pageVars, voiceVars, PanelInv, PanelTypeOK, Engine
<1>3. PanelTypeOK'
  BY <1>1, <1>2 DEF PanelInv, PanelTypeOK, ServiceTypeOK, serviceVars, netVars
<1>4. MicrophoneIsShown'
  BY DEF PanelMoves, OpenPanel, ClosePanel, ClickVoice, VoiceEvent, VoiceStarts,
     VoiceErrs, VoiceEnds, VoiceResultUnused, SessionLoads, AbortVoice, vars,
     pageVars, voiceVars, PanelInv, MicrophoneIsShown
<1>5. ButtonsAreTrue'
  BY <1>1 DEF PanelInv, ButtonsAreTrue, IsMessage, netVars
<1> QED BY <1>1, <1>3, <1>4, <1>5, CallsStayTrue, FormStaysTrue DEF PanelInv

(***************************************************************************)
(* A new call is sent: it is nobody's proposal yet.                        *)
(***************************************************************************)
LEMMA UnsentIs ==
  ASSUME PanelInv, NEW c \in Calls, c \notin sent
  PROVE  /\ c \notin waiting
         /\ from[c] = c
         /\ call[c].state = "none"
         /\ \A d \in Calls : from[d] = c => d = c
BY DEF PanelInv, PanelTypeOK, CallIsTrue, Proposed, IsMessage

LEMMA SendKeeps ==
  ASSUME PanelInv, NEW c \in Calls,
         Submit(c) \/ VoiceResult(c)
  PROVE  PanelInv'
<1>1. /\ c \notin sent /\ sent' = sent \union {c} /\ waiting' = waiting \union {c}
      /\ busy' = TRUE
      /\ UNCHANGED <<serviceVars, from, button, open, ready, leaving>>
      /\ Submit(c) => ~busy /\ UNCHANGED <<spoken, voiceVars>>
      /\ VoiceResult(c) => spoken' = TRUE /\ engine' = "finishing" /\ voiceActive' = FALSE
  BY DEF Submit, VoiceResult, Send
<1>2. PanelTypeOK'
  BY <1>1 DEF PanelInv, PanelTypeOK, ServiceTypeOK, serviceVars, voiceVars, Engine
<1>3. \A d \in Calls : CallIsTrue(d)'
  BY <1>1 DEF PanelInv, CallIsTrue, Proposed, IsMessage, serviceVars
<1>4. ButtonsAreTrue'
  BY <1>1, UnsentIs DEF PanelInv, ButtonsAreTrue, CallIsTrue, Proposed, IsMessage
<1>5. FormIsTrue'
  <2>1. WaitingMessages' = WaitingMessages \union {c}
    BY <1>1, UnsentIs DEF WaitingMessages, IsMessage
  <2> QED BY <1>1, <2>1 DEF PanelInv, FormIsTrue
<1>6. MicrophoneIsShown'
  BY <1>1 DEF PanelInv, MicrophoneIsShown, voiceVars
<1> QED BY <1>2, <1>3, <1>4, <1>5, <1>6 DEF PanelInv

LEMMA ClickConfirmKeeps ==
  ASSUME PanelInv, NEW p \in Calls, NEW c \in Calls, ClickConfirm(p, c)
  PROVE  PanelInv'
<1>1. /\ c \notin sent /\ sent' = sent \union {c} /\ waiting' = waiting \union {c}
      /\ button[p] = "offered"
      /\ button' = [button EXCEPT ![p] = "used"]
      /\ from' = [from EXCEPT ![c] = p]
      /\ UNCHANGED <<serviceVars, open, busy, ready, leaving, voiceVars, spoken>>
  BY DEF ClickConfirm
<1>2. Proposed(p) /\ p # c /\ p \notin waiting
  BY <1>1, UnsentIs DEF PanelInv, CallIsTrue, ButtonsAreTrue, Proposed
<1>3. PanelTypeOK'
  BY <1>1 DEF PanelInv, PanelTypeOK, ServiceTypeOK, serviceVars, voiceVars
<1>4. /\ from'[c] = p /\ \A d \in Calls \ {c} : from'[d] = from[d]
      /\ button'[p] = "used" /\ \A d \in Calls \ {p} : button'[d] = button[d]
      /\ UNCHANGED <<call, effects>>
  BY <1>1 DEF PanelInv, PanelTypeOK, serviceVars
<1>5. \A d \in Calls : CallIsTrue(d)'
  <2> SUFFICES ASSUME NEW d \in Calls PROVE CallIsTrue(d)'
    OBVIOUS
  <2>1. CASE d = c
    BY <2>1, <1>1, <1>2, <1>4, UnsentIs
       DEF PanelInv, CallIsTrue, Proposed, IsMessage
  <2>2. CASE d # c
    BY <2>2, <1>1, <1>2, <1>4 DEF PanelInv, CallIsTrue, Proposed, IsMessage
  <2> QED BY <2>1, <2>2
<1>6. ButtonsAreTrue'
  <2> SUFFICES ASSUME NEW d \in Calls
               PROVE  /\ d \in waiting' => button'[d] = "none"
                      /\ ~IsMessage(d)' =>
                           from'[d] \notin waiting' /\ button'[from'[d]] # "offered"
                      /\ \A e \in Calls :
                           ~IsMessage(d)' /\ ~IsMessage(e)' /\ from'[d] = from'[e]
                             => d = e
    BY DEF ButtonsAreTrue, IsMessage
  <2>1. d \in waiting' => button'[d] = "none"
    BY <1>1, <1>2, <1>4, UnsentIs DEF PanelInv, ButtonsAreTrue, CallIsTrue, Proposed
  <2>2. ~IsMessage(d)' => from'[d] \notin waiting' /\ button'[from'[d]] # "offered"
    BY <1>1, <1>2, <1>4, UnsentIs
       DEF PanelInv, PanelTypeOK, ButtonsAreTrue, IsMessage
  <2>3. ASSUME NEW e \in Calls, ~IsMessage(e), from[e] = p PROVE FALSE
    BY <2>3, <1>1 DEF PanelInv, ButtonsAreTrue
  <2>4. \A e \in Calls :
          ~IsMessage(d)' /\ ~IsMessage(e)' /\ from'[d] = from'[e] => d = e
    BY <1>4, <2>3 DEF PanelInv, ButtonsAreTrue, IsMessage
  <2> QED BY <2>1, <2>2, <2>4
<1>7. FormIsTrue'
  <2>1. WaitingMessages' = WaitingMessages
    BY <1>1, <1>2, <1>4, UnsentIs DEF PanelInv, PanelTypeOK, WaitingMessages, IsMessage
  <2> QED BY <1>1, <2>1 DEF PanelInv, FormIsTrue
<1>8. MicrophoneIsShown'
  BY <1>1 DEF PanelInv, MicrophoneIsShown, voiceVars
<1> QED BY <1>3, <1>5, <1>6, <1>7, <1>8 DEF PanelInv

(***************************************************************************)
(* The end of a fetch, whatever it brings.                                 *)
(***************************************************************************)
LEMMA EndOfFetchIs ==
  ASSUME NEW c \in Calls, EndOfFetch(c)
  PROVE  /\ c \in waiting /\ Release(c)
         /\ UNCHANGED <<serviceVars, netVars, ready, spoken>>
         /\ \/ UNCHANGED button
            \/ Arrived(c, "confirmation_required")
               /\ button' = [button EXCEPT ![c] = "offered"]
         /\ \/ UNCHANGED <<open, voiceVars>>
            \/ open' = FALSE /\ AbortVoice
         /\ leaving' \in {TRUE, leaving}
BY DEF EndOfFetch, Complain, AskToSignIn, RenderProposal, RenderNavigation,
   RenderFocus, RenderInPlace, Arrived

LEMMA EndOfFetchKeeps ==
  ASSUME PanelInv, NEW c \in Calls, EndOfFetch(c)
  PROVE  PanelInv'
<1>1. /\ c \in waiting /\ waiting' = waiting \ {c}
      /\ busy' = IF IsMessage(c) THEN FALSE ELSE busy
      /\ UNCHANGED <<call, effects, sent, from, ready, spoken>>
  BY EndOfFetchIs DEF Release, serviceVars, netVars
<1>2. button' # button => Proposed(c) /\ button' = [button EXCEPT ![c] = "offered"]
  BY EndOfFetchIs DEF Arrived, PanelInv, CallIsTrue
<1>3. PanelTypeOK'
  <2>1. open' \in BOOLEAN /\ voiceActive' \in BOOLEAN /\ engine' \in Engine
    BY EndOfFetchIs DEF PanelInv, PanelTypeOK, AbortVoice, voiceVars, Engine
  <2>2. button' \in [Calls -> {"none", "offered", "used"}] /\ leaving' \in BOOLEAN
    BY <1>2, EndOfFetchIs DEF PanelInv, PanelTypeOK
  <2> QED BY <1>1, <2>1, <2>2 DEF PanelInv, PanelTypeOK, ServiceTypeOK
<1>4. \A d \in Calls : CallIsTrue(d)'
  BY <1>1, <1>2 DEF PanelInv, PanelTypeOK, CallIsTrue, Proposed, IsMessage
<1>5. ButtonsAreTrue'
  <2>1. \A d \in Calls : ~IsMessage(d) => from[d] # c
    BY <1>1 DEF PanelInv, ButtonsAreTrue
  <2> QED BY <1>1, <1>2, <2>1 DEF PanelInv, PanelTypeOK, ButtonsAreTrue, IsMessage
<1>6. FormIsTrue'
  <2>1. WaitingMessages' = WaitingMessages \ {c}
    BY <1>1 DEF WaitingMessages, IsMessage
  <2>2. IsMessage(c) <=> c \in WaitingMessages
    BY <1>1 DEF WaitingMessages
  <2> QED BY <1>1, <2>1, <2>2 DEF PanelInv, FormIsTrue
<1>7. MicrophoneIsShown'
  BY EndOfFetchIs DEF PanelInv, MicrophoneIsShown, AbortVoice, voiceVars
<1> QED BY <1>3, <1>4, <1>5, <1>6, <1>7 DEF PanelInv

LEMMA LoadPageKeeps ==
  ASSUME PanelInv, LoadPage
  PROVE  PanelInv'
<1>1. PanelTypeOK'
  BY DEF PanelInv, PanelTypeOK, ServiceTypeOK, LoadPage, serviceVars, netVars, Engine
<1>2. \A d \in Calls : CallIsTrue(d)'
  BY DEF PanelInv, CallIsTrue, Proposed, IsMessage, LoadPage, serviceVars, netVars
<1>3. ButtonsAreTrue'
  BY DEF PanelInv, PanelTypeOK, ButtonsAreTrue, IsMessage, LoadPage, netVars
<1>4. FormIsTrue' /\ MicrophoneIsShown'
  BY DEF FormIsTrue, WaitingMessages, MicrophoneIsShown, LoadPage
<1> QED BY <1>1, <1>2, <1>3, <1>4 DEF PanelInv

(***************************************************************************)
(* The server's steps: an answered call, and with it a proposal, stays as  *)
(* it is.                                                                  *)
(***************************************************************************)
Serving(c) == Reach(c) \/ Serve(c)

LEMMA ServedKeeps ==
  ASSUME PanelInv, NEW c \in Calls, NEW n \in CallRecord,
         c \in sent, UNCHANGED <<pageVars, netVars>>,
         call' = [call EXCEPT ![c] = n],
         call[c].state \in {"none", "open", "performed"},
         effects' \in {effects, effects \union {c}},
         n.state # "none",
         n.answer = "confirmation_required" =>
           n.state = "answered" /\ n.action \in NeedsConfirmation,
         n.way = "confirm" => ~IsMessage(c) /\ n.action = call[from[c]].action,
         c \in effects' => n.way = "confirm" /\ n.state # "open"
  PROVE  PanelInv'
<1>1. /\ call'[c] = n /\ \A d \in Calls \ {c} : call'[d] = call[d]
      /\ UNCHANGED <<open, busy, ready, leaving, waiting, button, voiceActive,
                     engine, spoken, sent, from>>
  BY DEF PanelInv, PanelTypeOK, ServiceTypeOK, pageVars, voiceVars, netVars
<1>2. PanelTypeOK'
  BY <1>1 DEF PanelInv, PanelTypeOK, ServiceTypeOK
<1>3. ~Proposed(c)
  BY DEF Proposed
<1>4. \A d \in Calls : CallIsTrue(d)'
  <2>1. \A d \in Calls : Proposed(d) => Proposed(d)'
    BY <1>1, <1>3 DEF Proposed
  <2>2. \A d \in Calls : ~IsMessage(d) => from[d] # c /\ from[d] \in Calls
    BY <1>3 DEF PanelInv, PanelTypeOK, CallIsTrue
  <2>3. CallIsTrue(c)'
    BY <1>1, <1>3, <2>1, <2>2 DEF PanelInv, CallIsTrue, Proposed, IsMessage
  <2>4. ASSUME NEW d \in Calls \ {c} PROVE CallIsTrue(d)'
    <3>1. d \in effects' <=> d \in effects
      BY <2>4
    <3>2. CallIsTrue(d) /\ call'[d] = call[d]
      BY <2>4, <1>1 DEF PanelInv
    <3>3. ~IsMessage(d) => call'[from[d]] = call[from[d]]
      BY <2>4, <2>2, <1>1
    <3> QED BY <3>1, <3>2, <3>3, <1>1, <2>1, <2>2 DEF CallIsTrue, Proposed, IsMessage
  <2> QED BY <2>3, <2>4
<1>5. ButtonsAreTrue' /\ MicrophoneIsShown'
  BY <1>1 DEF PanelInv, ButtonsAreTrue, IsMessage, MicrophoneIsShown
<1>6. FormIsTrue'
  BY <1>1 DEF PanelInv, FormIsTrue, WaitingMessages, IsMessage
<1> QED BY <1>2, <1>4, <1>5, <1>6 DEF PanelInv

LEMMA ReachKeeps ==
  ASSUME PanelInv, NEW c \in Calls, Reach(c)
  PROVE  PanelInv'
<1>1. c \in sent /\ call[c] \in CallRecord /\ UNCHANGED <<pageVars, netVars, effects>>
      /\ call[c].state = "none"
  BY DEF Reach, ReceiveMessage, ReceiveConfirm, PanelInv, PanelTypeOK, ServiceTypeOK
<1>2. c \notin effects /\ call[c].way = "message" /\ call[c].answer = "none"
  BY <1>1 DEF PanelInv, CallIsTrue
<1>3. CASE IsMessage(c) /\ ReceiveMessage(c)
  <2> DEFINE n == [call[c] EXCEPT !.state = "open"]
  <2>1. call' = [call EXCEPT ![c] = n]
    BY <1>3 DEF ReceiveMessage
  <2>2. n \in CallRecord /\ n.state = "open" /\ n.way = "message" /\ n.answer = "none"
    BY <1>1, <1>2 DEF CallRecord
  <2> HIDE DEF n
  <2> QED BY <1>1, <1>2, <1>3, <2>1, <2>2, ServedKeeps
<1>4. CASE ~IsMessage(c)
           /\ \E may \in BOOLEAN : ReceiveConfirm(c, call[from[c]].action, may)
  <2>1. PICK may \in BOOLEAN : ReceiveConfirm(c, call[from[c]].action, may)
    BY <1>4
  <2> DEFINE a == call[from[c]].action
             n == [NoCall EXCEPT !.state = "open", !.way = "confirm", !.action = a,
                                 !.may = may]
  <2>2. a \in Asked
    BY <1>4, RegistryIs DEF PanelInv, CallIsTrue, Proposed
  <2>3. call' = [call EXCEPT ![c] = n]
    BY <2>1 DEF ReceiveConfirm
  <2>4. /\ n \in CallRecord /\ n.state = "open" /\ n.way = "confirm" /\ n.answer = "none"
        /\ n.action = a
    BY <2>2 DEF CallRecord, NoCall
  <2> HIDE DEF n
  <2> QED BY <1>1, <1>2, <1>4, <2>1, <2>2, <2>3, <2>4, ServedKeeps
<1> QED BY <1>3, <1>4 DEF Reach

LEMMA ServeKeeps ==
  ASSUME PanelInv, NEW c \in Calls, Serve(c)
  PROVE  PanelInv'
<1>1. /\ call[c] \in CallRecord /\ UNCHANGED <<pageVars, netVars>>
      /\ call \in [Calls -> CallRecord]
      /\ call[c].state \in {"open", "performed"}
  BY DEF Serve, Perform, AnswerCall, FailCall, PanelInv, PanelTypeOK, ServiceTypeOK
<1>2. /\ c \in sent /\ call[c].answer # "confirmation_required"
      /\ call[c].way = "confirm" =>
           ~IsMessage(c) /\ call[c].action = call[from[c]].action
      /\ c \in effects => call[c].way = "confirm" /\ call[c].state # "open"
  BY <1>1 DEF PanelInv, CallIsTrue, Proposed
<1>3. CASE Perform(c)
  <2> DEFINE n == [call[c] EXCEPT !.state = "performed"]
  <2>1. call' = [call EXCEPT ![c] = n] /\ effects' = effects \union {c}
        /\ call[c].way = "confirm" /\ call[c].state = "open"
    BY <1>3 DEF Perform
  <2>2. /\ n \in CallRecord /\ n.state = "performed" /\ n.way = call[c].way
        /\ n.answer = call[c].answer /\ n.action = call[c].action
    BY <1>1 DEF CallRecord
  <2> HIDE DEF n
  <2> QED BY <1>1, <1>2, <1>3, <2>1, <2>2, ServedKeeps
<1>4. CASE \E a \in Offered \union {"none"}, s \in Answers : AnswerCall(c, a, s)
  <2>1. PICK a \in Offered \union {"none"}, s \in Answers : AnswerCall(c, a, s)
    BY <1>4
  <2> DEFINE n == [call[c] EXCEPT !.state = "answered", !.action = a, !.answer = s]
  <2>2. /\ call' = [call EXCEPT ![c] = n] /\ effects' = effects
        /\ call[c].way = "confirm" => a = call[c].action
        /\ s \in Answerable(c, a)
    BY <2>1 DEF AnswerCall
  <2>3. a \in Asked \union {"none"}
    BY OfferedAreRegistered, RegistryIs
  <2>4. /\ n \in CallRecord /\ n.state = "answered" /\ n.way = call[c].way
        /\ n.answer = s /\ n.action = a
    BY <1>1, <2>3 DEF CallRecord
  <2>5. s = "confirmation_required" => a \in NeedsConfirmation
    BY <2>2, <1>1, RegistryIs DEF Answerable, CallRecord
  <2> HIDE DEF n
  <2> QED BY <1>1, <1>2, <2>2, <2>4, <2>5, ServedKeeps
<1>5. CASE FailCall(c)
  <2> DEFINE n == [call[c] EXCEPT !.state = "failed"]
  <2>1. call' = [call EXCEPT ![c] = n] /\ effects' = effects
    BY <1>5 DEF FailCall
  <2>2. /\ n \in CallRecord /\ n.state = "failed" /\ n.way = call[c].way
        /\ n.answer = call[c].answer /\ n.action = call[c].action
    BY <1>1 DEF CallRecord
  <2> HIDE DEF n
  <2> QED BY <1>1, <1>2, <1>5, <2>1, <2>2, ServedKeeps
<1> QED BY <1>3, <1>4, <1>5 DEF Serve

\* Every step of the panel, of its server and of the page keeps PanelInv.
LEMMA PanelStep ==
  ASSUME PanelInv, [Next]_vars
  PROVE  PanelInv'
<1>1. ASSUME NEW c \in Calls,
             \/ Submit(c) \/ VoiceResult(c) \/ EndOfFetch(c) \/ Reach(c) \/ Serve(c)
             \/ \E p \in Calls : ClickConfirm(p, c)
      PROVE  PanelInv'
  BY <1>1, SendKeeps, ClickConfirmKeeps, EndOfFetchKeeps, ReachKeeps, ServeKeeps
<1>2. CASE PanelMoves
  BY <1>2, PanelMovesKeep
<1>3. CASE LoadPage
  BY <1>3, LoadPageKeeps
<1> QED BY <1>1, <1>2, <1>3 DEF Next, PanelMoves

\* The inductive invariant of the panel: what each call, button and flag is worth.
THEOREM PanelInvHolds == Spec => []PanelInv
<1>1. PanelInv /\ [Next]_vars => PanelInv'
  BY PanelStep
<1> QED BY <1>1, PanelInvInit, PTL DEF Spec

\* No lost, late or repeated answer, and no page load in between, has the panel
\* change a meeting that was not proposed to it and confirmed by one click of its
\* own (executeConfirmedAction in copilot.js).
THEOREM PanelConfirmsOnce == Spec => []ChangesAreConfirmedOnce
<1>1. PanelInv => ChangesAreConfirmedOnce
  <2> SUFFICES ASSUME PanelInv, NEW c \in effects
               PROVE  LET p == from[c] IN
                      /\ p # c
                      /\ call[p].answer = "confirmation_required"
                      /\ call[p].action = call[c].action
                      /\ \A d \in effects : from[d] = p => d = c
    BY DEF ChangesAreConfirmedOnce
  <2>1. \A d \in effects : d \in Calls /\ ~IsMessage(d)
    BY DEF PanelInv, PanelTypeOK, ServiceTypeOK, CallIsTrue
  <2> QED BY <2>1 DEF PanelInv, CallIsTrue, ButtonsAreTrue, Proposed, IsMessage
<1> QED BY <1>1, PanelInvHolds, PTL

\* The form is never left disabled with no message under way; and until somebody
\* speaks it is disabled during the whole of one, so that no two are under way
\* (setFormBusy in copilot.js).
THEOREM PanelFormComesBack == Spec => []BusyTellsWaiting
<1>1. PanelInv => BusyTellsWaiting
  <2> SUFFICES ASSUME PanelInv, \A c, d \in WaitingMessages : c = d
               PROVE  Cardinality(WaitingMessages) <= 1
    BY DEF PanelInv, FormIsTrue, BusyTellsWaiting
  <2>1. CASE WaitingMessages = {}
    BY <2>1, FS_EmptySet
  <2>2. CASE WaitingMessages # {}
    <3>1. PICK c : WaitingMessages = {c}
      BY <2>2
    <3> QED BY <3>1, FS_Singleton
  <2> QED BY <2>1, <2>2
<1> QED BY <1>1, PanelInvHolds, PTL

\* Whatever closes the panel or ends a recognition, the microphone is never on
\* behind a closed panel or without a Stop button (stopVoiceInput in copilot.js).
THEOREM PanelShowsMicrophone == Spec => []MicrophoneIsShown
<1>1. PanelInv => MicrophoneIsShown
  BY DEF PanelInv
<1> QED BY <1>1, PanelInvHolds, PTL

-----------------------------------------------------------------------------
(***************************************************************************)
(* The transcript pages.  The register is written once, by the call whose  *)
(* text it holds; a page shows what it read of it or what its own call     *)
(* wrote, whatever is typed or read into the form meanwhile.               *)
(***************************************************************************)
Stored == register[Page!Meeting]

ServerIsTrue ==
  /\ Stored # Page!Empty =>
       /\ Stored.by \in Requests
       /\ Stored.content = carried[Stored.by]
       /\ Stored.content # NoText
  /\ \A q \in Requests : outcome[q] = "created" => Stored.by = q

TabIsTrue(t) ==
  LET p == tab[t] IN
  /\ p.step \in {"saving", "saved"} => p.awaited \in Requests
  /\ p.step = "saving" => carried[p.awaited] # NoText
  /\ p.shown # NoText => p.shown = Stored.content
  /\ p.step = "saved" => Stored # Page!Empty /\ Stored.by = p.awaited
  /\ p.said = "saved" => p.step = "saved"

PageInv ==
  /\ Page!TranscriptPageConstants
  /\ Page!PageTypeOK
  /\ ServerIsTrue
  /\ \A t \in Tabs : TabIsTrue(t)

LEMMA PageInvInit == Page!TranscriptPageConstants /\ Page!Init => PageInv
<1> SUFFICES ASSUME Page!TranscriptPageConstants, Page!Init PROVE PageInv
  OBVIOUS
<1>1. /\ register = [m \in {Page!Meeting} |-> Page!Empty] /\ Stored = Page!Empty
      /\ outcome = [q \in Requests |-> "none"]
      /\ carried = [q \in Requests |-> NoText]
      /\ tab = [t \in Tabs |-> Page!FreshPage]
  BY DEF Page!Init, Page!Server!Init, Stored
<1>2. Page!PageTypeOK
  BY <1>1 DEF Page!PageTypeOK, Page!Server!Outcomes, Page!Pages, Page!FreshPage
<1>3. ServerIsTrue /\ \A t \in Tabs : TabIsTrue(t)
  BY <1>1 DEF ServerIsTrue, TabIsTrue, Page!FreshPage
<1> QED BY <1>2, <1>3 DEF PageInv

\* A step of one tab that leaves the server alone has only to keep what is known
\* of that tab.
LEMMA TabKeeps ==
  ASSUME PageInv, NEW t \in Tabs, NEW p \in Page!Pages, Page!Show(t, p),
         UNCHANGED <<register, outcome, carried>>,
         TabIsTrue(t)'
  PROVE  PageInv'
<1>1. /\ tab' \in [Tabs -> Page!Pages] /\ tab'[t] = p
      /\ \A u \in Tabs \ {t} : tab'[u] = tab[u]
  BY DEF PageInv, Page!PageTypeOK, Page!Show
<1>2. Stored' = Stored
  BY DEF Stored
<1>3. Page!PageTypeOK'
  BY <1>1 DEF PageInv, Page!PageTypeOK
<1>4. ServerIsTrue'
  BY <1>2 DEF PageInv, ServerIsTrue
<1>5. ASSUME NEW u \in Tabs \ {t} PROVE TabIsTrue(u)'
  <2>1. TabIsTrue(u)
    BY DEF PageInv
  <2> QED BY <1>1, <1>2, <2>1 DEF TabIsTrue
<1> QED BY <1>1, <1>3, <1>4, <1>5 DEF PageInv, Page!TranscriptPageConstants

LEMMA LoadKeeps ==
  ASSUME PageInv, NEW t \in Tabs, Page!Load(t)
  PROVE  PageInv'
<1> DEFINE p == tab[t]
<1>1. p \in Page!Pages /\ p.step = "loading" /\ TabIsTrue(t)
  BY DEF PageInv, Page!PageTypeOK, Page!Load
<1>2. PICK n : /\ Page!Show(t, n)
               /\ \/ n = [p EXCEPT !.step = "viewing", !.shown = Stored.content]
                     /\ Stored # Page!Empty
                  \/ n = [p EXCEPT !.step = "adding"]
                  \/ n = [p EXCEPT !.step = "viewing"]
                  \/ n = [p EXCEPT !.step = "broken"]
  BY DEF Page!Load, Stored
<1>3. Stored.content \in Texts \union {NoText}
  BY DEF PageInv, Page!PageTypeOK, Page!Empty, Stored
<1>4. n \in Page!Pages
  BY <1>1, <1>2, <1>3 DEF Page!Pages
<1>5. /\ n.awaited = p.awaited /\ n.said = p.said /\ n.step \notin {"saving", "saved"}
      /\ n.shown = p.shown \/ n.shown = Stored.content
  BY <1>1, <1>2, <1>3 DEF Page!Pages
<1>6. UNCHANGED <<register, outcome, carried>>
  BY DEF Page!Load, Page!serverVars
<1>7. tab'[t] = n /\ Stored' = Stored
  BY <1>2, <1>6 DEF PageInv, Page!PageTypeOK, Page!Show, Stored
<1> HIDE DEF p
<1>8. TabIsTrue(t)'
  BY <1>1, <1>5, <1>6, <1>7 DEF TabIsTrue, p
<1> QED BY <1>2, <1>4, <1>6, <1>8, TabKeeps DEF PageInv, Page!PageTypeOK

LEMMA ReloadKeeps ==
  ASSUME PageInv, NEW t \in Tabs, Page!Reload(t)
  PROVE  PageInv'
<1>1. /\ Page!Show(t, Page!FreshPage) /\ UNCHANGED <<register, outcome, carried>>
  BY DEF Page!Reload, Page!serverVars
<1>2. /\ Page!FreshPage \in Page!Pages
      /\ Page!FreshPage.step = "loading" /\ Page!FreshPage.shown = NoText
      /\ Page!FreshPage.said = ""
  BY DEF Page!FreshPage, Page!Pages
<1>3. tab'[t] = Page!FreshPage
  BY <1>1 DEF PageInv, Page!PageTypeOK, Page!Show
<1>4. TabIsTrue(t)'
  BY <1>2, <1>3 DEF TabIsTrue
<1> QED BY <1>1, <1>2, <1>4, TabKeeps DEF PageInv, Page!PageTypeOK

LEMMA TypeKeeps ==
  ASSUME PageInv, NEW t \in Tabs, NEW text \in Texts, Page!Type(t, text)
  PROVE  PageInv'
<1> DEFINE p == tab[t]
           n == [p EXCEPT !.area = text]
<1>1. p \in Page!Pages /\ TabIsTrue(t)
  BY DEF PageInv, Page!PageTypeOK
<1>2. /\ Page!Show(t, n) /\ UNCHANGED <<register, outcome, carried>>
  BY DEF Page!Type, Page!serverVars
<1>3. n \in Page!Pages
  BY <1>1 DEF Page!Pages
<1>4. /\ n.step = p.step /\ n.awaited = p.awaited /\ n.said = p.said
      /\ n.shown = p.shown
  BY <1>1 DEF Page!Pages
<1> HIDE DEF n
<1>5. tab'[t] = n /\ Stored' = Stored
  BY <1>2 DEF PageInv, Page!PageTypeOK, Page!Show, Stored
<1>6. TabIsTrue(t)'
  BY <1>1, <1>2, <1>4, <1>5 DEF TabIsTrue
<1> QED BY <1>2, <1>3, <1>6, TabKeeps

LEMMA ChooseKeeps ==
  ASSUME PageInv, NEW t \in Tabs, NEW f \in Files, Page!Choose(t, f)
  PROVE  PageInv'
<1> DEFINE p == tab[t]
           n == IF f.plain THEN [p EXCEPT !.reading = @ \union {f}]
                ELSE [p EXCEPT !.said = "error"]
<1>1. p \in Page!Pages /\ TabIsTrue(t)
  BY DEF PageInv, Page!PageTypeOK
<1>2. /\ Page!Show(t, n) /\ UNCHANGED <<register, outcome, carried>>
  BY DEF Page!Choose, Page!serverVars
<1>3. n \in Page!Pages
  BY <1>1 DEF Page!Pages
<1>4. /\ n.step = p.step /\ n.awaited = p.awaited /\ n.shown = p.shown
      /\ n.said \in {p.said, "error"}
  BY <1>1 DEF Page!Pages
<1> HIDE DEF n
<1>5. tab'[t] = n /\ Stored' = Stored
  BY <1>2 DEF PageInv, Page!PageTypeOK, Page!Show, Stored
<1>6. TabIsTrue(t)'
  BY <1>1, <1>2, <1>4, <1>5 DEF TabIsTrue
<1> QED BY <1>2, <1>3, <1>6, TabKeeps

LEMMA FileReadKeeps ==
  ASSUME PageInv, NEW t \in Tabs, NEW f \in Files, Page!FileRead(t, f)
  PROVE  PageInv'
<1> DEFINE p == tab[t]
           n == [Page!Take(p, f) EXCEPT !.reading = @ \ {f}]
<1>1. p \in Page!Pages /\ TabIsTrue(t) /\ f \in p.reading
  BY DEF PageInv, Page!PageTypeOK, Page!FileRead
<1>2. Page!Show(t, n) /\ UNCHANGED <<register, outcome, carried>>
  BY DEF Page!FileRead, Page!serverVars
<1>3. f.text \in Texts \union {NoText}
  BY DEF PageInv, Page!TranscriptPageConstants
<1>4. n \in Page!Pages
  BY <1>1, <1>3 DEF Page!Pages, Page!Take
<1>5. /\ n.step = p.step /\ n.awaited = p.awaited /\ n.shown = p.shown
      /\ n.said \in {"loaded", "error"}
  BY <1>1, <1>3 DEF Page!Pages, Page!Take
<1> HIDE DEF n
<1>6. tab'[t] = n /\ Stored' = Stored
  BY <1>2 DEF PageInv, Page!PageTypeOK, Page!Show, Stored
<1>7. TabIsTrue(t)'
  BY <1>1, <1>2, <1>5, <1>6 DEF TabIsTrue
<1> QED BY <1>2, <1>4, <1>7, TabKeeps DEF PageInv, Page!PageTypeOK

LEMMA SubmitKeeps ==
  ASSUME PageInv, NEW t \in Tabs, NEW q \in Requests, Page!Submit(t, q)
  PROVE  PageInv'
<1> DEFINE p == tab[t]
           n == [p EXCEPT !.step = "saving", !.awaited = q, !.said = "saving"]
<1>1. p \in Page!Pages /\ TabIsTrue(t) /\ p.area \in Texts /\ p.area # NoText
  BY DEF PageInv, Page!PageTypeOK, Page!Submit, Page!Pages
<1>2. /\ Page!Show(t, n) /\ UNCHANGED <<register, outcome>>
      /\ carried[q] = NoText /\ carried' = [carried EXCEPT ![q] = p.area]
  BY DEF Page!Submit
<1>3. /\ n \in Page!Pages /\ n.step = "saving" /\ n.awaited = q
      /\ n.said = "saving" /\ n.shown = p.shown
  BY <1>1 DEF Page!Pages
<1> HIDE DEF n
<1>4. /\ Stored' = Stored
      /\ tab'[t] = n /\ \A u \in Tabs \ {t} : tab'[u] = tab[u]
      /\ carried'[q] = p.area
      /\ \A r \in Requests : carried[r] # NoText => carried'[r] = carried[r]
  BY <1>2 DEF PageInv, Page!PageTypeOK, Page!Show, Stored
<1>5. Page!PageTypeOK'
  BY <1>1, <1>2, <1>3, <1>4 DEF PageInv, Page!PageTypeOK, Page!Show
<1>6. ServerIsTrue'
  BY <1>2, <1>4 DEF PageInv, ServerIsTrue
<1>7. TabIsTrue(t)'
  BY <1>1, <1>3, <1>4 DEF TabIsTrue
<1>8. ASSUME NEW u \in Tabs \ {t} PROVE TabIsTrue(u)'
  <2>1. TabIsTrue(u)
    BY DEF PageInv
  <2> QED BY <1>4, <2>1 DEF TabIsTrue
<1> QED BY <1>5, <1>6, <1>7, <1>8 DEF PageInv, Page!TranscriptPageConstants

LEMMA SubmitNothingKeeps ==
  ASSUME PageInv, NEW t \in Tabs, Page!SubmitNothing(t) \/ Page!NotSaved(t)
  PROVE  PageInv'
<1> DEFINE p == tab[t]
<1>1. p \in Page!Pages /\ TabIsTrue(t)
  BY DEF PageInv, Page!PageTypeOK
<1>2. UNCHANGED <<register, outcome, carried>>
  BY DEF Page!SubmitNothing, Page!NotSaved, Page!serverVars
<1>3. PICK n \in {[p EXCEPT !.said = "error"], [p EXCEPT !.step = "adding", !.said = "error"]} :
        Page!Show(t, n) /\ (n.step = "adding" \/ n.step = p.step)
  BY <1>1 DEF Page!SubmitNothing, Page!NotSaved, Page!Pages
<1>4. /\ n \in Page!Pages /\ n.awaited = p.awaited
      /\ n.said = "error" /\ n.shown = p.shown
  BY <1>1, <1>3 DEF Page!Pages
<1>5. tab'[t] = n /\ Stored' = Stored
  BY <1>2, <1>3 DEF PageInv, Page!PageTypeOK, Page!Show, Stored
<1>6. TabIsTrue(t)'
  BY <1>1, <1>2, <1>3, <1>4, <1>5 DEF TabIsTrue
<1> QED BY <1>2, <1>3, <1>4, <1>6, TabKeeps DEF PageInv, Page!PageTypeOK

LEMMA SavedKeeps ==
  ASSUME PageInv, NEW t \in Tabs, Page!Saved(t)
  PROVE  PageInv'
<1> DEFINE p == tab[t]
           n == [p EXCEPT !.step = "saved", !.shown = Page!Content(t), !.area = NoText,
                          !.said = "saved"]
<1>1. /\ p \in Page!Pages /\ TabIsTrue(t) /\ p.step = "saving" /\ p.awaited \in Requests
      /\ outcome[p.awaited] = "created" /\ carried[p.awaited] # NoText
  BY DEF PageInv, Page!PageTypeOK, Page!Saved, TabIsTrue
<1>2. Page!Show(t, n) /\ UNCHANGED <<register, outcome, carried>>
  BY DEF Page!Saved, Page!serverVars
<1>3. Stored # Page!Empty /\ Stored.by = p.awaited /\ Stored.content = carried[p.awaited]
  <2>1. Stored.by = p.awaited
    BY <1>1 DEF PageInv, ServerIsTrue
  <2>2. Stored # Page!Empty
    BY <1>1, <2>1 DEF PageInv, Page!TranscriptPageConstants, Page!Empty
  <2> QED BY <2>1, <2>2 DEF PageInv, ServerIsTrue
<1>4. Page!Content(t) = carried[p.awaited] /\ carried[p.awaited] \in Texts
  BY <1>1 DEF Page!Content, PageInv, Page!PageTypeOK
<1>5. /\ n \in Page!Pages /\ n.step = "saved" /\ n.awaited = p.awaited
      /\ n.shown = carried[p.awaited]
  BY <1>1, <1>4 DEF Page!Pages
<1> HIDE DEF n
<1>6. tab'[t] = n /\ Stored' = Stored
  BY <1>2 DEF PageInv, Page!PageTypeOK, Page!Show, Stored
<1>7. TabIsTrue(t)'
  BY <1>1, <1>2, <1>3, <1>5, <1>6 DEF TabIsTrue
<1> QED BY <1>2, <1>5, <1>7, TabKeeps DEF PageInv, Page!PageTypeOK

\* What the server does with a call is what the register promises.
LEMMA PageServeIs ==
  ASSUME PageInv, NEW q \in Requests, Page!Serve(q)
  PROVE  /\ carried[q] # NoText /\ UNCHANGED <<carried, tab>>
         /\ \/ /\ Stored = Page!Empty /\ UNCHANGED outcome
               /\ register' = [register EXCEPT ![Page!Meeting] =
                                 [by |-> q, content |-> carried[q]]]
            \/ /\ UNCHANGED register
               /\ \E what \in Page!Server!Outcomes :
                    /\ outcome' = [outcome EXCEPT ![q] = what]
                    /\ what = "created" => Stored.by = q
<1>1. carried[q] # NoText /\ UNCHANGED <<carried, tab>>
  BY DEF Page!Serve
<1>2. CASE Page!Server!Write(q) /\ register'[Page!Meeting].content = carried[q]
  <2>1. PICK c \in Texts :
          /\ Stored = Page!Empty
          /\ register' = [register EXCEPT ![Page!Meeting] = [by |-> q, content |-> c]]
    BY <1>2 DEF Page!Server!Write, Stored
  <2>2. c = carried[q]
    BY <1>2, <2>1 DEF PageInv, Page!PageTypeOK
  <2> QED BY <1>1, <1>2, <2>1, <2>2 DEF Page!Server!Write
<1>3. CASE Page!Server!Created(q)
  <2>1. Stored.by = q
    BY <1>3 DEF Page!Server!Created, Page!Server!Wrote, Stored
  <2> QED BY <1>1, <1>3, <2>1 DEF Page!Server!Created, Page!Server!Tell,
             Page!Server!Outcomes
<1>4. CASE Page!Server!Conflict(q) \/ Page!Server!Refuse(q) \/ Page!Server!Fail(q)
  BY <1>1, <1>4 DEF Page!Server!Conflict, Page!Server!Refuse, Page!Server!Fail,
     Page!Server!Tell, Page!Server!Outcomes
<1> QED BY <1>2, <1>3, <1>4 DEF Page!Serve

LEMMA PageServeKeeps ==
  ASSUME PageInv, NEW q \in Requests, Page!Serve(q)
  PROVE  PageInv'
<1> DEFINE row == [by |-> q, content |-> carried[q]]
<1>1. CASE /\ Stored = Page!Empty /\ UNCHANGED outcome
           /\ register' = [register EXCEPT ![Page!Meeting] = row]
  <2>1. /\ Stored' = row /\ carried[q] \in Texts /\ UNCHANGED <<carried, tab>>
        /\ row.by = q /\ row.content = carried[q] /\ carried[q] # NoText
    BY <1>1, PageServeIs DEF PageInv, Page!PageTypeOK, Stored
  <2>2. row # Page!Empty /\ Page!Empty.by \notin Requests /\ Page!Empty.content = NoText
    BY <2>1 DEF Page!Empty, PageInv, Page!TranscriptPageConstants
  <2> HIDE DEF row
  <2>3. register' \in [{Page!Meeting} -> [by : Requests, content : Texts] \union {Page!Empty}]
    BY <1>1, <2>1 DEF PageInv, Page!PageTypeOK, row
  <2>4. Page!PageTypeOK'
    BY <1>1, <2>1, <2>3 DEF PageInv, Page!PageTypeOK
  <2>5. \A r \in Requests : outcome[r] # "created"
    BY <1>1, <2>2 DEF PageInv, ServerIsTrue
  <2>6. ServerIsTrue'
    BY <1>1, <2>1, <2>5 DEF ServerIsTrue
  <2>7. ASSUME NEW t \in Tabs PROVE TabIsTrue(t)'
    <3>1. TabIsTrue(t) /\ tab[t].shown = NoText /\ tab[t].step # "saved"
      BY <1>1, <2>2 DEF PageInv, TabIsTrue
    <3> QED BY <2>1, <3>1 DEF TabIsTrue
  <2> QED BY <2>4, <2>6, <2>7 DEF PageInv, Page!TranscriptPageConstants
<1>2. ASSUME UNCHANGED register,
             NEW what \in Page!Server!Outcomes,
             outcome' = [outcome EXCEPT ![q] = what],
             what = "created" => Stored.by = q
      PROVE  PageInv'
  <2>1. Stored' = Stored /\ UNCHANGED <<carried, tab>>
    BY <1>2, PageServeIs DEF Stored
  <2>2. Page!PageTypeOK'
    BY <1>2, <2>1 DEF PageInv, Page!PageTypeOK
  <2>3. ServerIsTrue'
    BY <1>2, <2>1 DEF PageInv, Page!PageTypeOK, ServerIsTrue
  <2>4. \A t \in Tabs : TabIsTrue(t)'
    BY <2>1 DEF PageInv, TabIsTrue
  <2> QED BY <2>2, <2>3, <2>4 DEF PageInv, Page!TranscriptPageConstants
<1> QED BY <1>1, <1>2, PageServeIs

LEMMA PageStep ==
  ASSUME PageInv, [Page!Next]_(Page!vars)
  PROVE  PageInv'
<1>1. ASSUME NEW t \in Tabs,
             \/ Page!Load(t) \/ Page!Reload(t) \/ Page!SubmitNothing(t)
             \/ Page!EndOfFetch(t)
             \/ \E text \in Texts : Page!Type(t, text)
             \/ \E f \in Files : Page!Choose(t, f) \/ Page!FileRead(t, f)
             \/ \E q \in Requests : Page!Submit(t, q)
      PROVE  PageInv'
  BY <1>1, LoadKeeps, ReloadKeeps, TypeKeeps, ChooseKeeps, FileReadKeeps, SubmitKeeps,
     SubmitNothingKeeps, SavedKeeps DEF Page!EndOfFetch
<1>2. ASSUME NEW q \in Requests, Page!Serve(q)
      PROVE  PageInv'
  BY <1>2, PageServeKeeps
<1>3. CASE UNCHANGED Page!vars
  BY <1>3 DEF Page!vars, PageInv, Page!PageTypeOK, Page!TranscriptPageConstants,
     ServerIsTrue, TabIsTrue, Stored
<1> QED BY <1>1, <1>2, <1>3 DEF Page!Next

\* The inductive invariant of the transcript pages.
THEOREM PageInvHolds == Page!TranscriptPageConstants /\ Page!Spec => []PageInv
<1>1. PageInv /\ [Page!Next]_(Page!vars) => PageInv'
  BY PageStep
<1> QED BY <1>1, PageInvInit, PTL DEF Page!Spec

\* Whatever is typed, chosen, read or submitted in any number of tabs, none shows a
\* transcript that is not stored, or says "saved" of another call's
\* (initializeTranscriptUpload in pages.js).
THEOREM PagesShowWhatIsStored ==
  Page!TranscriptPageConstants /\ Page!Spec => []ShownIsStored
<1>1. PageInv => ShownIsStored
  <2> SUFFICES ASSUME PageInv, NEW t \in Tabs
               PROVE  /\ tab[t].shown # NoText => tab[t].shown = Stored.content
                      /\ tab[t].step = "saved" \/ tab[t].said = "saved" =>
                           Stored = [by |-> tab[t].awaited,
                                     content |-> carried[tab[t].awaited]]
    BY DEF ShownIsStored, Page!ShownIsStored, Stored
  <2>1. Stored # Page!Empty => Stored \in [by : Requests, content : Texts]
    BY DEF PageInv, Page!PageTypeOK, Stored
  <2> QED BY <2>1 DEF PageInv, TabIsTrue, ServerIsTrue
<1> QED BY <1>1, PageInvHolds, PTL

-----------------------------------------------------------------------------
(***************************************************************************)
(* The scheduling form.  Only one call that may still take effect is       *)
(* neither lost nor failed: the one the form is waiting for, or left for.  *)
(* Nothing but a lost one writes over what it committed.                   *)
(***************************************************************************)
\* Meeting Target(q) holds the plan of q, or of a lost call that wrote over it.
PlanIsKept(q) ==
  \E r \in lost \union {q} :
    /\ Scheduler!Target(r) = Scheduler!Target(q)
    /\ planned[Scheduler!Target(q)] = asked[r].plan

\* What is known of call q.
SubmissionIsTrue(q) ==
  /\ asked[q].state \in {"unsent", "sent"} => planned[q] = Blank
  /\ asked[q].state \notin {"unsent", "failed"} =>
       q \in lost \/ (q = form.awaited /\ form.step # "editing")
  /\ q = form.awaited /\ asked[q].state \in {"done", "succeeded"} => PlanIsKept(q)

SchedulerInv ==
  /\ Scheduler!SchedulerConstants
  /\ Scheduler!SchedulerTypeOK
  /\ \A q \in Submissions : SubmissionIsTrue(q)
  /\ form.step = "sending" => form.awaited \in Submissions
  /\ form.step = "left" =>
       form.awaited \in Submissions /\ asked[form.awaited].state = "succeeded"

LEMMA SchedulerInvInit ==
  Scheduler!SchedulerConstants /\ Scheduler!Init => SchedulerInv
<1> SUFFICES ASSUME Scheduler!SchedulerConstants, Scheduler!Init PROVE SchedulerInv
  OBVIOUS
<1>1. PICK plan \in Plans :
        /\ planned = [m \in Scheduler!Meetings |-> IF m = Existing THEN plan ELSE Blank]
        /\ asked = [q \in Submissions |-> Scheduler!NoCall]
        /\ form = [step |-> "editing", mode |-> "create", plan |-> Blank,
                   awaited |-> NoRequest, loaded |-> plan]
        /\ lost = {}
  BY DEF Scheduler!Init
<1>2. Scheduler!SchedulerTypeOK
  BY <1>1 DEF Scheduler!SchedulerTypeOK, Scheduler!Meetings, Scheduler!NoCall,
     Scheduler!Calls, Scheduler!Modes
<1>3. \A q \in Submissions : SubmissionIsTrue(q)
  BY <1>1 DEF SubmissionIsTrue, Scheduler!SchedulerConstants, Scheduler!Meetings,
     Scheduler!NoCall
<1> QED BY <1>1, <1>2, <1>3 DEF SchedulerInv

\* The user fills in the form: nothing that was sent depends on it.
LEMMA FillingKeeps ==
  ASSUME SchedulerInv,
         \/ \E mode \in Scheduler!Modes : Scheduler!ChangeMode(mode)
         \/ \E plan \in Plans : Scheduler!Type(plan)
         \/ UNCHANGED Scheduler!vars
  PROVE  SchedulerInv'
<1>1. UNCHANGED <<planned, asked, lost>>
  BY DEF Scheduler!ChangeMode, Scheduler!Type, Scheduler!vars
<1>2. /\ form' \in [step : {"editing", "sending", "left"}, mode : Scheduler!Modes,
                    plan : Plans \union {Blank}, awaited : Submissions \union {NoRequest},
                    loaded : Plans]
      /\ form'.step = form.step /\ form'.awaited = form.awaited
  <2>1. CASE \E mode \in Scheduler!Modes : Scheduler!ChangeMode(mode)
    BY <2>1 DEF Scheduler!ChangeMode, SchedulerInv, Scheduler!SchedulerTypeOK
  <2>2. CASE \E plan \in Plans : Scheduler!Type(plan)
    BY <2>2 DEF Scheduler!Type, SchedulerInv, Scheduler!SchedulerTypeOK
  <2>3. CASE UNCHANGED Scheduler!vars
    BY <2>3 DEF Scheduler!vars, SchedulerInv, Scheduler!SchedulerTypeOK
  <2> QED BY <2>1, <2>2, <2>3
<1>3. Scheduler!SchedulerTypeOK'
  BY <1>1, <1>2 DEF SchedulerInv, Scheduler!SchedulerTypeOK
<1>4. \A q \in Submissions : SubmissionIsTrue(q)'
  BY <1>1, <1>2 DEF SchedulerInv, SubmissionIsTrue, PlanIsKept, Scheduler!Target
<1> QED BY <1>1, <1>2, <1>3, <1>4 DEF SchedulerInv, Scheduler!SchedulerConstants

LEMMA SchedulerSubmitKeeps ==
  ASSUME SchedulerInv, NEW q \in Submissions, Scheduler!Submit(q)
  PROVE  SchedulerInv'
<1> DEFINE n == [mode |-> form.mode, plan |-> form.plan, state |-> "sent"]
<1>1. /\ form.step = "editing" /\ asked[q].state = "unsent" /\ form.plan # Blank
      /\ asked' = [asked EXCEPT ![q] = n]
      /\ form' = [form EXCEPT !.step = "sending", !.awaited = q]
      /\ UNCHANGED <<planned, lost>>
  BY DEF Scheduler!Submit
<1>2. n \in Scheduler!Calls /\ n.state = "sent" /\ n.plan # Blank
  BY <1>1 DEF SchedulerInv, Scheduler!SchedulerTypeOK, Scheduler!Calls
<1> HIDE DEF n
<1>3. asked'[q] = n /\ \A r \in Submissions \ {q} : asked'[r] = asked[r]
  BY <1>1 DEF SchedulerInv, Scheduler!SchedulerTypeOK
<1>4. form'.step = "sending" /\ form'.awaited = q
  BY <1>1 DEF SchedulerInv, Scheduler!SchedulerTypeOK
<1>5. Scheduler!SchedulerTypeOK'
  BY <1>1, <1>2, <1>3 DEF SchedulerInv, Scheduler!SchedulerTypeOK
<1>6. SubmissionIsTrue(q)'
  BY <1>1, <1>2, <1>3, <1>4 DEF SchedulerInv, SubmissionIsTrue
<1>7. ASSUME NEW r \in Submissions \ {q} PROVE SubmissionIsTrue(r)'
  <2>1. SubmissionIsTrue(r)
    BY DEF SchedulerInv
  <2> QED BY <1>1, <1>3, <1>4, <2>1 DEF SubmissionIsTrue, Scheduler!Target
<1> QED BY <1>4, <1>5, <1>6, <1>7 DEF SchedulerInv, Scheduler!SchedulerConstants

LEMMA SchedulerServeKeeps ==
  ASSUME SchedulerInv, NEW q \in Submissions,
         Scheduler!Commit(q) \/ Scheduler!Succeed(q) \/ Scheduler!Fail(q)
  PROVE  SchedulerInv'
<1>1. PICK s \in {"done", "succeeded", "failed"} :
        /\ asked' = [asked EXCEPT ![q].state = s]
        /\ UNCHANGED <<form, lost>>
        /\ \/ s = "done" /\ Scheduler!Commit(q)
           \/ s = "succeeded" /\ asked[q].state = "done" /\ planned' = planned
           \/ s = "failed" /\ asked[q].state \in {"sent", "done"} /\ planned' = planned
  BY DEF Scheduler!Commit, Scheduler!Succeed, Scheduler!Fail
<1>2. /\ asked'[q].state = s /\ asked'[q].plan = asked[q].plan
      /\ asked'[q].mode = asked[q].mode /\ asked'[q] \in Scheduler!Calls
      /\ \A r \in Submissions \ {q} : asked'[r] = asked[r]
      /\ asked[q].state \in {"sent", "done"} /\ asked[q].plan \in Plans
  BY <1>1 DEF SchedulerInv, Scheduler!SchedulerTypeOK, Scheduler!Calls, Scheduler!Commit
<1>3. \A r \in Submissions : Scheduler!Target(r)' = Scheduler!Target(r)
  BY <1>2 DEF Scheduler!Target
<1>4. Scheduler!Target(q) \in Scheduler!Meetings /\ q \in Scheduler!Meetings
  BY DEF Scheduler!Target, Scheduler!Meetings
<1>5. \/ planned' = planned /\ s # "done"
      \/ /\ s = "done" /\ asked[q].state = "sent"
         /\ planned' = [planned EXCEPT ![Scheduler!Target(q)] = asked[q].plan]
  BY <1>1 DEF Scheduler!Commit
<1>6. Scheduler!SchedulerTypeOK'
  BY <1>1, <1>2, <1>4, <1>5 DEF SchedulerInv, Scheduler!SchedulerTypeOK
<1>7. /\ lost' = lost /\ lost \subseteq Submissions
      /\ \A r \in Submissions : asked'[r].plan = asked[r].plan
  BY <1>1, <1>2 DEF SchedulerInv, Scheduler!SchedulerTypeOK
<1>8. ASSUME NEW r \in Submissions,
             \/ PlanIsKept(r) /\ (s = "done" => q \in lost)
             \/ r = q /\ s = "done"
      PROVE  PlanIsKept(r)'
  <2>1. Scheduler!Target(r) \in Scheduler!Meetings
    BY DEF Scheduler!Target, Scheduler!Meetings
  <2>2. CASE s = "done" /\ Scheduler!Target(q) = Scheduler!Target(r)
    <3>1. planned'[Scheduler!Target(r)] = asked[q].plan
      BY <1>4, <1>5, <2>2 DEF SchedulerInv, Scheduler!SchedulerTypeOK
    <3> QED BY <1>3, <1>7, <1>8, <2>2, <3>1 DEF PlanIsKept
  <2>3. CASE ~(s = "done" /\ Scheduler!Target(q) = Scheduler!Target(r))
    <3>1. planned'[Scheduler!Target(r)] = planned[Scheduler!Target(r)]
      BY <1>4, <1>5, <2>1, <2>3 DEF SchedulerInv, Scheduler!SchedulerTypeOK
    <3> QED BY <1>3, <1>7, <1>8, <2>3, <3>1 DEF PlanIsKept
  <2> QED BY <2>2, <2>3
<1>9. ASSUME NEW r \in Submissions PROVE SubmissionIsTrue(r)'
  <2>1. SubmissionIsTrue(r) /\ SubmissionIsTrue(q)
    BY DEF SchedulerInv
  <2>2. CASE r = q
    <3>1. s = "succeeded" => asked[q].state = "done"
      BY <1>1
    <3>2. s = "done" \/ PlanIsKept(q) => PlanIsKept(q)'
      <4>1. CASE s = "done"
        BY <1>8, <4>1
      <4>2. CASE s # "done" /\ PlanIsKept(q)
        BY <1>8, <4>2
      <4> QED BY <4>1, <4>2
    <3> QED BY <1>1, <1>2, <2>1, <2>2, <3>1, <3>2 DEF SubmissionIsTrue
  <2>3. CASE r # q
    <3>1. r # Scheduler!Target(q)
      BY <2>3 DEF Scheduler!Target, SchedulerInv, Scheduler!SchedulerConstants
    <3>2. planned'[r] = planned[r]
      BY <1>5, <3>1 DEF SchedulerInv, Scheduler!SchedulerTypeOK, Scheduler!Meetings
    <3>3. r = form.awaited => q \in lost
      BY <1>2, <2>1, <2>3 DEF SubmissionIsTrue
    <3>4. asked'[r] = asked[r] /\ UNCHANGED <<form, lost>>
      BY <1>1, <1>2, <2>3
    <3>5. (s = "done" => q \in lost) /\ PlanIsKept(r) => PlanIsKept(r)'
      BY <1>8
    <3> QED BY <2>1, <3>2, <3>3, <3>4, <3>5 DEF SubmissionIsTrue
  <2> QED BY <2>2, <2>3
<1>10. form.step = "left" => asked'[form.awaited].state = "succeeded"
  BY <1>1, <1>2, <1>5 DEF SchedulerInv
<1> QED BY <1>1, <1>6, <1>9, <1>10 DEF SchedulerInv, Scheduler!SchedulerConstants

LEMMA SchedulerFetchKeeps ==
  ASSUME SchedulerInv, NEW q \in Submissions, Scheduler!EndOfFetch(q)
  PROVE  SchedulerInv'
<1>1. form.step = "sending" /\ form.awaited = q /\ UNCHANGED <<planned, asked>>
  BY DEF Scheduler!EndOfFetch, Scheduler!FetchSucceeds, Scheduler!FetchFails
<1>2. /\ form' \in [step : {"editing", "sending", "left"}, mode : Scheduler!Modes,
                    plan : Plans \union {Blank}, awaited : Submissions \union {NoRequest},
                    loaded : Plans]
      /\ form'.awaited = q
      /\ \/ form'.step = "left" /\ asked[q].state = "succeeded" /\ lost' = lost
         \/ /\ form'.step = "editing"
            /\ lost' = IF asked[q].state = "failed" THEN lost ELSE lost \union {q}
  BY <1>1 DEF Scheduler!EndOfFetch, Scheduler!FetchSucceeds, Scheduler!FetchFails,
     SchedulerInv, Scheduler!SchedulerTypeOK
<1>3. Scheduler!SchedulerTypeOK'
  BY <1>1, <1>2 DEF SchedulerInv, Scheduler!SchedulerTypeOK
<1>4. ASSUME NEW r \in Submissions PROVE SubmissionIsTrue(r)'
  <2>1. SubmissionIsTrue(r)
    BY DEF SchedulerInv
  <2>2. PlanIsKept(r) => PlanIsKept(r)'
    BY <1>1, <1>2 DEF PlanIsKept, Scheduler!Target
  <2> QED BY <1>1, <1>2, <2>1, <2>2 DEF SubmissionIsTrue
<1> QED BY <1>1, <1>2, <1>3, <1>4 DEF SchedulerInv, Scheduler!SchedulerConstants

\* The inductive invariant of the scheduling form and its calls.
THEOREM SchedulerInvHolds ==
  Scheduler!SchedulerConstants /\ Scheduler!Spec => []SchedulerInv
<1>1. SchedulerInv /\ [Scheduler!Next]_(Scheduler!vars) => SchedulerInv'
  BY FillingKeeps, SchedulerSubmitKeeps, SchedulerServeKeeps, SchedulerFetchKeeps
     DEF Scheduler!Next
<1> QED BY <1>1, SchedulerInvInit, PTL DEF Scheduler!Spec

\* However often the form is submitted and whatever becomes of its calls, a meeting
\* other than the one it waits for or left for is of a call that failed or was given
\* up without an answer (initializeMeetingScheduler in pages.js).
THEOREM CopiesComeOfRetries ==
  Scheduler!SchedulerConstants /\ Scheduler!Spec => []CopiesAreOfRetries
<1>1. SchedulerInv => CopiesAreOfRetries
  BY DEF SchedulerInv, SubmissionIsTrue, CopiesAreOfRetries, Scheduler!CopiesAreOfRetries
<1> QED BY <1>1, SchedulerInvHolds, PTL

\* The page leaves for a meeting that holds what was submitted last, unless a call
\* given up without an answer wrote over it late: one answered with an error never
\* does (initializeMeetingScheduler in pages.js).
THEOREM LastPlanStays ==
  Scheduler!SchedulerConstants /\ Scheduler!Spec => []LastPlanIsKept
<1>1. SchedulerInv => LastPlanIsKept
  BY DEF SchedulerInv, SubmissionIsTrue, PlanIsKept, LastPlanIsKept,
     Scheduler!LastPlanIsKept
<1> QED BY <1>1, SchedulerInvHolds, PTL
==============================================================================
