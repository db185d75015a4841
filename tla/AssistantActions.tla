-------------------------- MODULE AssistantActions --------------------------
(***************************************************************************)
(* AssistantOrchestrator.handle_message and ConfirmedActionExecutor.execute*)
(* with the ActionDispatcher both ask, from the request to the audit row   *)
(* its answer waits for.  A step ends at each await: the language model,   *)
(* a SELECT, a commit; between two of them other calls change who takes    *)
(* part, who is granted a note and which meetings have a transcript.       *)
(*                                                                         *)
(* The server keeps no record of what it proposed: a confirmation is       *)
(* resolved, validated and authorized as if nothing had gone before.       *)
(* The user is active: get_current_user refuses any other.                 *)
(***************************************************************************)
EXTENDS ActionRegistry, AccessPolicies, Sequences

CONSTANTS
  Users,
  Meetings,       \* the meetings there are
  NoMeeting,      \* an id that names none
  Organizer,      \* the user each meeting was created by
  Requests        \* the requests that are made

ASSUME ActionsConstants ==
  /\ Users # {}
  /\ Organizer \in [Meetings -> Users]
  /\ NoMeeting \notin Meetings

VARIABLES
  active,       \* <<meeting, user>>: the ACTIVE participants
  granted,      \* <<meeting, user>>: the users some note of the meeting allows
  transcript,   \* the meetings that have one
  req,          \* req[r]: how far request r is and what it has found out
  effects,      \* the requests that created or moved a meeting
  audit,        \* audit[r]: the events of the rows request r has committed
  seen,         \* seen[r]: facts on its meeting that held at some instant so far
  kept          \* kept[r]: facts that held at every instant so far

tables == <<active, granted, transcript>>
vars == <<tables, req, effects, audit, seen, kept>>

Asked == ActionIds \union {"unregistered"}
Named == Meetings \union {NoMeeting}
Statuses ==
  {"success", "clarification_required", "confirmation_required",
   "action_denied", "access_denied", "not_found", "invalid_output"}
Events == {"rejected", "pending_confirmation", "selected", "executed"}
Refusals ==
  {"empty_message", "message_too_long", "invalid_llm_output",
   "action_not_registered", "confirmation_not_supported", "missing_parameters",
   "invalid_parameters", "resource_not_found"}
Reasons ==
  {"none", "authenticated", "confirmation_required"}
    \union Refusals \union AllowReasons \union DenyReasons
FactNames == {"organizer", "active", "granted", "transcript"}

NoRequest ==
  [step |-> "idle", way |-> "message", u |-> CHOOSE u \in Users : TRUE,
   action |-> "none", m |-> NoMeeting, given |-> [names |-> {}, bad |-> FALSE],
   active |-> FALSE, event |-> "none", reason |-> "none", status |-> "none"]

RequestRecord ==
  [step : {"idle", "asking", "decided", "facts", "mutating", "mutated",
           "auditing", "answered", "failed"},
   way : {"message", "confirm"}, u : Users, action : Asked \union {"none"},
   m : Named, given : Given, active : BOOLEAN, event : Events \union {"none"},
   reason : Reasons, status : Statuses \union {"none"}]

ActionsTypeOK ==
  /\ active \subseteq Meetings \X Users
  /\ granted \subseteq Meetings \X Users
  /\ transcript \subseteq Meetings
  /\ req \in [Requests -> RequestRecord]
  /\ effects \subseteq Requests
  /\ audit \in [Requests -> Seq(Events \union {"scheduled"})]
  /\ seen \in [Requests -> SUBSET FactNames]
  /\ kept \in [Requests -> SUBSET FactNames]

Go(r, q) == req' = [req EXCEPT ![r] = q]
ActiveUsers(m) == {u \in Users : <<m, u>> \in active}
GrantedUsers(m) == {u \in Users : <<m, u>> \in granted}

-----------------------------------------------------------------------------
\* Every ending short of an exception waits for one audit row.
ToAudit(q, event, reason, status) ==
  [q EXCEPT !.step = "auditing", !.event = event, !.reason = reason,
            !.status = status]

StatusOf(reason) ==
  CASE reason \in {"empty_message", "missing_parameters"}
         -> "clarification_required"
    [] reason = "invalid_llm_output" -> "invalid_output"
    [] reason = "resource_not_found" -> "not_found"
    [] reason \in DenyReasons -> "access_denied"
    [] OTHER -> "action_denied"

Rejected(q, reason) == ToAudit(q, "rejected", reason, StatusOf(reason))

\* handle_message up to the provider: a message is empty, too long, a wish about
\* the presentation (answered without the provider) or a question to it.
ReceiveMessage(r, u) ==
  LET q == [NoRequest EXCEPT !.u = u] IN
  /\ req[r].step = "idle"
  /\ \/ \E reason \in {"empty_message", "message_too_long"} :
          Go(r, Rejected(q, reason))
     \/ \E theme \in Themes :
          Go(r, [q EXCEPT !.step = "decided", !.action = theme])
     \/ Go(r, [q EXCEPT !.step = "asking"])
  /\ UNCHANGED <<effects, audit>>

\* A request has a meeting id only if it gives one.
Names(m, given) == m = NoMeeting \/ "meeting_id" \in given.names

ReceiveConfirm(r, u, a, m, given) ==
  /\ req[r].step = "idle"
  /\ Names(m, given)
  /\ Go(r, [NoRequest EXCEPT !.step = "decided", !.way = "confirm", !.u = u,
                             !.action = a, !.m = m, !.given = given])
  /\ UNCHANGED <<effects, audit>>

\* The provider's answer parses as an AgentDecision, whose message and
\* requires_confirmation are not used; or it does not.
ModelDecides(r, a, m, given) ==
  /\ req[r].step = "asking"
  /\ Names(m, given)
  /\ Go(r, [req[r] EXCEPT !.step = "decided", !.action = a, !.m = m,
                          !.given = given])
  /\ UNCHANGED <<effects, audit>>

ModelGarbles(r) ==
  /\ req[r].step = "asking"
  /\ Go(r, Rejected(req[r], "invalid_llm_output"))
  /\ UNCHANGED <<effects, audit>>

\* (Slip: the client waits for the provider without a limit.)
ModelNeverFails(r) == FALSE /\ UNCHANGED <<req, effects, audit>>

\* The provider cannot be reached, answers with an error or not at all within
\* the client's timeout, or its body has no decision: 503 or 502, no audit row.
ModelFails(r) ==
  /\ req[r].step = "asking"
  /\ Go(r, [req[r] EXCEPT !.step = "failed"])
  /\ UNCHANGED <<effects, audit>>

-----------------------------------------------------------------------------
\* What stops a request before any table is read.
Objection(q) ==
  CASE ~Registered(q.action) -> "action_not_registered"
    [] Registered(q.action) /\ q.way = "confirm"
       /\ q.action \notin NeedsConfirmation -> "confirmation_not_supported"
    [] OTHER -> ValidateParameters(q.action, q.given)

Object(r) ==
  LET q == req[r] IN
  /\ q.step = "decided"
  /\ Objection(q) # "valid"
  /\ Go(r, Rejected(q, Objection(q)))
  /\ UNCHANGED <<effects, audit>>

\* Slip: what needs confirmation is asked for in a message and done.
ProceedUnasked(q, reason) ==
  IF q.action \in Mutations THEN [q EXCEPT !.step = "mutating", !.reason = reason]
  ELSE ToAudit(q, "selected", reason, "success")

\* What an allowed request goes on with.
Proceed(q, reason) ==
  CASE q.way = "message" /\ q.action \in NeedsConfirmation ->
         ToAudit(q, "pending_confirmation", "confirmation_required",
                 "confirmation_required")
    [] q.way = "message" /\ q.action \notin NeedsConfirmation ->
         ToAudit(q, "selected", reason, "success")
    [] q.way = "confirm" /\ q.action \in Mutations ->
         [q EXCEPT !.step = "mutating", !.reason = reason]
    [] OTHER -> ToAudit(q, "executed", reason, "success")

Concluded(q, reason) ==
  IF Allows(reason) THEN Proceed(q, reason) ELSE Rejected(q, reason)

\* dispatch as far as its first SELECT: the action asks for no meeting, the
\* meeting is unknown, its facts decide, or a second SELECT is needed.
Dispatched(q) ==
  LET permission == Permission[q.action]
      users == ActiveUsers(q.m)
      known == q.m \in Meetings
  IN CASE permission = "authenticated" -> Proceed(q, "authenticated")
       [] permission # "authenticated" /\ ~known ->
            Rejected(q, "resource_not_found")
       [] permission = "meeting" /\ known ->
            Concluded(q, CanListMeeting(q.u, TRUE, Organizer[q.m], users))
       [] permission = "meeting_organizer" /\ known ->
            Concluded(q, CanManageMeeting(q.u, TRUE, Organizer[q.m]))
       [] permission = "confidential_notes" /\ known
          /\ q.u = Organizer[q.m] -> Concluded(q, "organizer")
       [] OTHER -> [q EXCEPT !.step = "facts", !.active = (q.u \in users)]

Dispatch(r) ==
  LET q == req[r] IN
  /\ q.step = "decided"
  /\ Objection(q) = "valid"
  /\ Go(r, Dispatched(q))
  /\ UNCHANGED <<effects, audit>>

\* (Slip: the facts are dropped between the SELECTs.)
NoFactUsers(q) == {}

FactUsers(q) == IF q.active THEN {q.u} ELSE {}

\* transcript_exists, then the policy on the facts read before.
ReadTranscript(r) ==
  LET q == req[r] IN
  /\ q.step = "facts"
  /\ Permission[q.action] = "transcript"
  /\ Go(r, IF q.m \in transcript
           THEN Concluded(q, CanListMeeting(q.u, TRUE, Organizer[q.m],
                                            FactUsers(q)))
           ELSE Rejected(q, "resource_not_found"))
  /\ UNCHANGED <<effects, audit>>

\* Slip: the participants are not asked for once a note is granted.
GrantAlone(q) ==
  IF q.u \in GrantedUsers(q.m) THEN "explicit_user" ELSE "not_authorized"

\* get_confidential_note_access_facts, then the policy on each note with the
\* facts read before; the reason of a refusal is not the policy's.
NotesReason(q) ==
  LET reason == CanViewNote(q.u, TRUE, Organizer[q.m], FactUsers(q), q.m, q.m,
                            FALSE, GrantedUsers(q.m))
  IN IF Allows(reason) THEN reason ELSE "not_authorized"

ReadGrants(r) ==
  LET q == req[r] IN
  /\ q.step = "facts"
  /\ Permission[q.action] = "confidential_notes"
  /\ Go(r, Concluded(q, NotesReason(q)))
  /\ UNCHANGED <<effects, audit>>

-----------------------------------------------------------------------------
\* The scheduling service asks again who organizes the meeting, then commits.
MaySchedule(q) ==
  AboutMeeting(q.action) => CanManageMeeting(q.u, TRUE, Organizer[q.m]) = "organizer"

Mutate(r) ==
  /\ req[r].step = "mutating"
  /\ MaySchedule(req[r])
  /\ Go(r, [req[r] EXCEPT !.step = "mutated"])
  /\ effects' = effects \union {r}
  /\ UNCHANGED audit

\* Its own audit row, in a commit of its own; then the executor's is due.
AuditMutation(r) ==
  LET q == req[r] IN
  /\ q.step = "mutated"
  /\ Go(r, ToAudit(q, "executed", q.reason, "success"))
  /\ audit' = [audit EXCEPT ![r] = Append(@, "scheduled")]
  /\ UNCHANGED effects

\* (Slip: the answer leaves before its audit row is written.)
AnswerFirst(r) ==
  /\ req[r].step = "auditing"
  /\ Go(r, [req[r] EXCEPT !.step = "answered"])
  /\ UNCHANGED <<effects, audit>>

\* The audit row of the answer is committed and the answer leaves.
Audit(r) ==
  /\ req[r].step = "auditing"
  /\ Go(r, [req[r] EXCEPT !.step = "answered"])
  /\ audit' = [audit EXCEPT ![r] = Append(@, req[r].event)]
  /\ UNCHANGED effects

\* A statement or a commit raises, or the process ends: no answer, and no more
\* of what was still to be written.
Break(r) ==
  /\ req[r].step \in {"decided", "facts", "mutating", "mutated", "auditing"}
  /\ Go(r, [req[r] EXCEPT !.step = "failed"])
  /\ UNCHANGED <<effects, audit>>

ServerStep(r) ==
  \/ Object(r)
  \/ Dispatch(r)
  \/ ReadTranscript(r)
  \/ ReadGrants(r)
  \/ Mutate(r)
  \/ AuditMutation(r)
  \/ Audit(r)

RequestNext(r) ==
  \/ \E u \in Users : ReceiveMessage(r, u)
  \/ \E u \in Users, a \in Asked, m \in Named, given \in Given :
       ReceiveConfirm(r, u, a, m, given)
  \/ \E a \in Asked, m \in Named, given \in Given : ModelDecides(r, a, m, given)
  \/ ModelGarbles(r)
  \/ ModelFails(r)
  \/ ServerStep(r)
  \/ Break(r)

\* What other calls commit, as MeetingStore and TranscriptCreation have it: a
\* participant joins or leaves, a note is granted or revoked, a transcript is
\* stored.  The organizer always takes part; a grant that races a removal can
\* outlive it.
TablesNext ==
  \E m \in Meetings, u \in Users :
    \/ /\ active' = active \union {<<m, u>>}
       /\ UNCHANGED <<granted, transcript>>
    \/ /\ u # Organizer[m]
       /\ active' = active \ {<<m, u>>}
       /\ granted' = granted \ {<<m, u>>}
       /\ UNCHANGED transcript
    \/ /\ granted' = granted \union {<<m, u>>}
       /\ UNCHANGED <<active, transcript>>
    \/ /\ granted' = granted \ {<<m, u>>}
       /\ UNCHANGED <<active, transcript>>
    \/ /\ transcript' = transcript \union {m}
       /\ UNCHANGED <<active, granted>>

-----------------------------------------------------------------------------
\* The facts a decision about q's meeting can rest on, as the tables have them.
FactsOn(q) ==
  IF q.m \notin Meetings THEN {}
  ELSE {f \in FactNames :
          CASE f = "organizer" -> q.u = Organizer[q.m]
            [] f = "active" -> <<q.m, q.u>> \in active
            [] f = "granted" -> <<q.m, q.u>> \in granted
            [] OTHER -> q.m \in transcript}

\* The facts that justify each permission: all of one of the sets.
Basis ==
  [ authenticated |-> {{}},
    meeting |-> {{"organizer"}, {"active"}},
    meeting_organizer |-> {{"organizer"}},
    transcript |-> {{"organizer", "transcript"}, {"active", "transcript"}},
    confidential_notes |-> {{"organizer"}, {"active", "granted"}} ]

Justifies(facts, a) == \E basis \in Basis[Permission[a]] : basis \subseteq facts

FactsNow == [r \in Requests |-> FactsOn(req[r])]

\* History: the union and the intersection of FactsNow since the action is known.
Observe ==
  /\ seen' = [r \in Requests |-> IF req'[r].action = "none" THEN {}
                                 ELSE seen[r] \union FactsNow'[r]]
  /\ kept' = [r \in Requests |-> IF req[r].action = "none" THEN FactsNow'[r]
                                 ELSE kept[r] \intersect FactsNow'[r]]

Init ==
  /\ active = {<<m, Organizer[m]>> : m \in Meetings}
  /\ granted = {}
  /\ transcript = {}
  /\ req = [r \in Requests |-> NoRequest]
  /\ effects = {}
  /\ audit = [r \in Requests |-> << >>]
  /\ seen = [r \in Requests |-> {}]
  /\ kept = [r \in Requests |-> {}]

Next ==
  /\ \/ \E r \in Requests : RequestNext(r) /\ UNCHANGED tables
     \/ TablesNext /\ UNCHANGED <<req, effects, audit>>
  /\ Observe

Spec == Init /\ [][Next]_vars

\* The provider owes nothing but the end of its client's timeout; every other
\* step is a statement the database answers or refuses.
FairSpec ==
  /\ Spec
  /\ \A r \in Requests :
       /\ WF_vars(ServerStep(r) /\ UNCHANGED tables /\ Observe)
       /\ WF_vars(ModelFails(r) /\ UNCHANGED tables /\ Observe)

-----------------------------------------------------------------------------
Granting == {"success", "confirmation_required"}

\* Every fact an allowing answer, or a change of a meeting, rests on held while
\* the request ran: the answer of ActionDispatcher is never older than the
\* question, though its two SELECTs need not have seen one state of the tables.
GrantsAreGrounded ==
  \A r \in Requests :
    req[r].status \in Granting \/ r \in effects
      => Justifies(seen[r], req[r].action)

\* What was justified during the whole of the request is not refused as
\* inaccessible or not found, whatever changes between the SELECTs.
RefusalsAreGrounded ==
  \A r \in Requests :
    req[r].status \in {"access_denied", "not_found"}
      => ~Justifies(kept[r], req[r].action)

\* The audit trail tells the outcome: an answered request has one assistant row,
\* of a refusal exactly if it was refused, after the scheduling row exactly if
\* it changed a meeting; only a failed request can leave a change without them.
TrailTellsOutcome ==
  \A r \in Requests :
    req[r].step = "answered" =>
      /\ audit[r] = (IF r \in effects THEN <<"scheduled">> ELSE << >>)
                      \o <<req[r].event>>
      /\ req[r].event = "rejected" <=> req[r].status \notin Granting
      /\ r \in effects => req[r].event = "executed"

\* Every request is answered or fails, also when the provider never answers.
EveryRequestEnds ==
  \A r \in Requests :
    req[r].step # "idle" ~> req[r].step \in {"answered", "failed"}

-----------------------------------------------------------------------------
\* What the caller of a route can tell about a request.
CallOf(r) ==
  LET q == req[r] IN
  [ state |-> CASE q.step = "idle" -> "none"
                [] q.step \in {"asking", "decided", "facts", "mutating"} -> "open"
                [] q.step = "auditing" /\ r \notin effects -> "open"
                [] q.step = "mutated" \/ (q.step = "auditing" /\ r \in effects)
                     -> "performed"
                [] OTHER -> q.step,
    way |-> q.way,
    action |-> IF q.way = "confirm" \/ q.step = "answered" THEN q.action
               ELSE "none",
    may |-> q.way = "confirm" /\ q.m \in Meetings
            /\ q.u = Organizer[q.m],
    answer |-> IF q.step # "answered" THEN "none"
               ELSE IF q.status \in Granting THEN q.status
               ELSE "refused" ]

Service ==
  INSTANCE AssistantService
  WITH Calls <- Requests, call <- [r \in Requests |-> CallOf(r)],
       effects <- effects

\* The two routes keep the promises of AssistantService: nothing changes but by
\* a confirmed action its caller may take, at most once, before its success.
KeepsPromises == Service!ServiceSpec
=============================================================================
