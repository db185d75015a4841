-------------------------- MODULE AssistantService --------------------------
(***************************************************************************)
(* What the assistant's two routes promise their caller, whatever happens  *)
(* inside: a message proposes and never changes a meeting; a confirmed     *)
(* action changes one at most once, only for a caller who may, and its     *)
(* success is reported only after the change; a call may fail at any point *)
(* and its caller then does not know whether the change was made.          *)
(* AssistantActions implements it; CopilotPanel is a client of it.         *)
(***************************************************************************)
EXTENDS ActionRegistry

CONSTANT Calls          \* the calls that are made

VARIABLES
  call,       \* call[c]: where call c stands, for its caller
  effects     \* the calls that changed a meeting

serviceVars == <<call, effects>>

Asked == ActionIds \union {"unregistered"}
Answers == {"success", "confirmation_required", "refused"}
CallRecord ==
  [state : {"none", "open", "performed", "answered", "failed"},
   way : {"message", "confirm"}, action : Asked \union {"none"},
   may : BOOLEAN, answer : Answers \union {"none"}]
NoCall ==
  [state |-> "none", way |-> "message", action |-> "none", may |-> FALSE,
   answer |-> "none"]

ServiceTypeOK == call \in [Calls -> CallRecord] /\ effects \subseteq Calls

\* A message reaches POST /assistant/messages.
ReceiveMessage(c) ==
  /\ call[c].state = "none"
  /\ call' = [call EXCEPT ![c].state = "open"]
  /\ UNCHANGED effects

\* A confirmation reaches POST /assistant/actions/confirm; may says whether its
\* caller organizes the meeting it names.
ReceiveConfirm(c, a, may) ==
  /\ call[c].state = "none"
  /\ call' = [call EXCEPT ![c] = [NoCall EXCEPT !.state = "open",
                                  !.way = "confirm", !.action = a, !.may = may]]
  /\ UNCHANGED effects

\* The meeting is created or moved, in one commit.
Perform(c) ==
  /\ call[c].state = "open"
  /\ call[c].way = "confirm"
  /\ call[c].action \in Mutations
  /\ AboutMeeting(call[c].action) => call[c].may
  /\ call' = [call EXCEPT ![c].state = "performed"]
  /\ effects' = effects \union {c}

\* The answers a call may get for the action a.
Answerable(c, a) ==
  CASE call[c].way = "message" ->
         {"refused"} \union
         (CASE a \in NeedsConfirmation -> {"confirmation_required"}
            [] a \in ActionIds \ NeedsConfirmation -> {"success"}
            [] OTHER -> {})
    [] call[c].way = "confirm" /\ call[c].state = "performed" -> {"success"}
    [] OTHER -> {"refused"} \union
                (IF a \in NeedsConfirmation \ Mutations THEN {"success"} ELSE {})

\* The answer names the action: a message's is the model's choice.
AnswerCall(c, a, s) ==
  /\ call[c].state \in {"open", "performed"}
  /\ call[c].way = "confirm" => a = call[c].action
  /\ s \in Answerable(c, a)
  /\ call' = [call EXCEPT ![c].state = "answered", ![c].action = a,
                          ![c].answer = s]
  /\ UNCHANGED effects

\* An error leaves instead of an answer, or nothing does.
FailCall(c) ==
  /\ call[c].state \in {"open", "performed"}
  /\ call' = [call EXCEPT ![c].state = "failed"]
  /\ UNCHANGED effects

CallStep(c) ==
  \/ Perform(c)
  \/ \E a \in Asked \union {"none"}, s \in Answers : AnswerCall(c, a, s)
  \/ FailCall(c)

ServiceInit == call = [c \in Calls |-> NoCall] /\ effects = {}

\* Every step is one of some call, and the call is not the same after it.
ServiceNext ==
  \E c \in Calls :
    /\ call'[c] # call[c]
    /\ \/ ReceiveMessage(c)
       \/ \E a \in Asked, may \in BOOLEAN : ReceiveConfirm(c, a, may)
       \/ CallStep(c)

ServiceSpec == ServiceInit /\ [][ServiceNext]_serviceVars
=============================================================================
