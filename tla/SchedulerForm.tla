---------------------------- MODULE SchedulerForm ----------------------------
(***************************************************************************)
(* The scheduling form of the meetings page (initializeMeetingScheduler in *)
(* pages.js) and the calls it makes.  A call carries no key: one that was  *)
(* given up, its answer lost or an error, may have taken effect or do so   *)
(* still when the form is submitted again.                                 *)
(***************************************************************************)
EXTENDS Naturals

CONSTANTS
  Requests,       \* the calls the form may make, each at most once
  Plans,          \* what the fields can hold and the server accepts
  Blank,          \* fields that were not filled in
  Existing,       \* a meeting the page was loaded with
  NoRequest

VARIABLES
  planned,        \* the database: planned[m] is meeting m's plan, or Blank
  call,           \* call[q]: what request q asks, and what became of it
  form,           \* the page's form
  lost            \* history: the calls given up without an answer

vars == <<planned, call, form, lost>>

Modes == {"create", "reschedule"}
Meetings == Requests \union {Existing}  \* a new meeting goes by its request

\* What the constants are taken to be.
SchedulerConstants ==
  /\ Blank \notin Plans
  /\ Existing \notin Requests
  /\ NoRequest \notin Requests

NoCall == [mode |-> "create", plan |-> Blank, state |-> "unsent"]

\* state: "done" is committed and unanswered; "failed" may have been committed.
Calls ==
  [mode : Modes, plan : Plans \union {Blank},
   state : {"unsent", "sent", "done", "succeeded", "failed"}]

SchedulerTypeOK ==
  /\ planned \in [Meetings -> Plans \union {Blank}]
  /\ call \in [Requests -> Calls]
  /\ form \in [step : {"editing", "sending", "left"}, mode : Modes,
               plan : Plans \union {Blank}, awaited : Requests \union {NoRequest},
               loaded : Plans]
  /\ lost \subseteq Requests
  /\ \A q \in Requests : call[q].state # "unsent" => call[q].plan # Blank

Target(q) == IF call[q].mode = "create" THEN q ELSE Existing

-----------------------------------------------------------------------------
\* updateMode fills the fields from the meeting as the page loaded it, or clears
\* them; the fields stay enabled while a call is under way.
ChangeMode(mode) ==
  /\ form.step # "left"
  /\ form' = [form EXCEPT !.mode = mode,
                          !.plan = IF mode = "reschedule" THEN form.loaded ELSE Blank]
  /\ UNCHANGED <<planned, call, lost>>

Type(plan) ==
  /\ form.step # "left"
  /\ form' = [form EXCEPT !.plan = plan]
  /\ UNCHANGED <<planned, call, lost>>

\* Slip: the button stays enabled.
SubmitEnabled(q) ==
  /\ form.step # "left" /\ form.plan # Blank
  /\ call[q].state = "unsent"
  /\ call' = [call EXCEPT ![q] =
                [mode |-> form.mode, plan |-> form.plan, state |-> "sent"]]
  /\ form' = [form EXCEPT !.step = "sending", !.awaited = q]
  /\ UNCHANGED <<planned, lost>>

\* The fields are read and the button is disabled; a form that is not filled in is
\* not sent.
Submit(q) ==
  /\ form.step = "editing" /\ form.plan # Blank
  /\ call[q].state = "unsent"
  /\ call' = [call EXCEPT ![q] =
                [mode |-> form.mode, plan |-> form.plan, state |-> "sent"]]
  /\ form' = [form EXCEPT !.step = "sending", !.awaited = q]
  /\ UNCHANGED <<planned, lost>>

\* The server commits the meeting, whether anyone still waits for it or not.
Commit(q) ==
  /\ call[q].state = "sent"
  /\ planned' = [planned EXCEPT ![Target(q)] = call[q].plan]
  /\ call' = [call EXCEPT ![q].state = "done"]
  /\ UNCHANGED <<form, lost>>

\* It answers when the audit row is committed too.
Succeed(q) ==
  /\ call[q].state = "done"
  /\ call' = [call EXCEPT ![q].state = "succeeded"]
  /\ UNCHANGED <<planned, form, lost>>

\* It refuses the call, or fails before it commits the meeting or after.
Fail(q) ==
  /\ call[q].state \in {"sent", "done"}
  /\ call' = [call EXCEPT ![q].state = "failed"]
  /\ UNCHANGED <<planned, form, lost>>

\* Slip: the fetch is not awaited.
LeaveAtOnce(q) ==
  /\ form.step = "sending" /\ form.awaited = q
  /\ form' = [form EXCEPT !.step = "left"]
  /\ UNCHANGED <<planned, call, lost>>

\* The page leaves for the meeting that was planned.
FetchSucceeds(q) ==
  /\ form.step = "sending" /\ form.awaited = q
  /\ call[q].state = "succeeded"
  /\ form' = [form EXCEPT !.step = "left"]
  /\ UNCHANGED <<planned, call, lost>>

\* An error answer, or none: the message is shown and the button enabled.
FetchFails(q) ==
  /\ form.step = "sending" /\ form.awaited = q
  /\ form' = [form EXCEPT !.step = "editing"]
  /\ lost' = IF call[q].state = "failed" THEN lost ELSE lost \union {q}
  /\ UNCHANGED <<planned, call>>

-----------------------------------------------------------------------------
Init ==
  \E plan \in Plans :
    /\ planned = [m \in Meetings |-> IF m = Existing THEN plan ELSE Blank]
    /\ call = [q \in Requests |-> NoCall]
    /\ form = [step |-> "editing", mode |-> "create", plan |-> Blank,
               awaited |-> NoRequest, loaded |-> plan]
    /\ lost = {}

EndOfFetch(q) == FetchSucceeds(q) \/ FetchFails(q)

Next ==
  \/ \E mode \in Modes : ChangeMode(mode)
  \/ \E plan \in Plans : Type(plan)
  \/ \E q \in Requests :
       Submit(q) \/ Commit(q) \/ Succeed(q) \/ Fail(q) \/ EndOfFetch(q)

Spec == Init /\ [][Next]_vars

-----------------------------------------------------------------------------
\* A second copy of a meeting comes only of a retry: every meeting the form made,
\* but for the one it is waiting for or left for, is of a call that was answered
\* with an error or given up without an answer.
CopiesAreOfRetries ==
  \A q \in Requests :
    planned[q] # Blank =>
      q = form.awaited \/ call[q].state = "failed" \/ q \in lost

\* The meeting the page leaves for holds what was submitted last, however many
\* attempts failed before.  Only a call given up without an answer can have come
\* late and written over it; one that was answered, be it with an error, cannot.
LastPlanIsKept ==
  form.step = "left" =>
    LET kept == planned[Target(form.awaited)] IN
    \/ kept = call[form.awaited].plan
    \/ \E q \in lost : Target(q) = Target(form.awaited) /\ kept = call[q].plan
=============================================================================
