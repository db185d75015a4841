-------------------------- MODULE MeetingScheduling --------------------------
(***************************************************************************)
(* MeetingSchedulingService: requests that create and reschedule meetings, *)
(* interleaved at their statements.                                        *)
(*                                                                         *)
(* A reschedule loads the meeting's row three times (the access facts, the *)
(* entity it edits, the model it writes) and then updates the columns that *)
(* differ from the model.  The session's identity map hands out the row it *)
(* loaded before for as long as anything keeps that object alive, so each  *)
(* load after the first may return the row of the load before.             *)
(*                                                                         *)
(* Of the columns, text stands for title, place, purpose and               *)
(* personal_gift, which are treated alike: a request sets the text or      *)
(* leaves it out.  Requests are authenticated and their user is active:    *)
(* get_current_user refuses any other.                                     *)
(***************************************************************************)
EXTENDS AccessPolicies, Naturals

CONSTANTS
  Sessions,       \* requests in progress, each in a database session
  Users,
  MeetingIds,
  Texts,
  Keep,           \* the request names no text
  Starts,         \* start times asked for
  Minutes,        \* durations asked for
  MinimumMinutes, MaximumMinutes,
  NoMeeting,      \* no row has that id
  Disturbed       \* of the history variable

ASSUME SchedulingConstants ==
  /\ Starts \subseteq Nat /\ Minutes \subseteq Nat
  /\ MinimumMinutes \in Nat /\ MaximumMinutes \in Nat
  /\ Keep \notin Texts
  /\ {NoMeeting, Disturbed} \intersect
       [owner : Users, text : Texts, start : Nat, end : Nat,
        status : {"scheduled", "rescheduled"}] = {}
  /\ Disturbed # NoMeeting

VARIABLES
  meeting,        \* meeting[m]: the row of meetings, or NoMeeting
  session,        \* session[s]: what its request asks, has loaded and edited
  audits,         \* the rows of audit_events, as a set
  before          \* history: before[s] is the row as the request of s found it,
                  \* or Disturbed once another request has written the row

vars == <<meeting, session, audits, before>>

Row == [owner : Users, text : Texts, start : Nat, end : Nat,
        status : {"scheduled", "rescheduled"}]
Command == [start : Starts, minutes : Minutes, text : Texts \union {Keep}]
Reasons == {"resource_not_found", "not_authorized"}
Idle == [step |-> "idle"]

Session ==
  {Idle}
    \union [step : {"create"}, u : Users, c : Command]
    \union [step : {"asked"}, u : Users, m : MeetingIds, c : Command]
    \union [step : {"managed"}, u : Users, m : MeetingIds, c : Command,
            held : Row]
    \union [step : {"edited", "based"}, u : Users, m : MeetingIds, c : Command,
            held : Row, new : Row]
    \union [step : {"created"}, u : Users, m : MeetingIds]
    \union [step : {"rescheduled"}, u : Users, m : MeetingIds, c : Command,
            new : Row]
    \union [step : {"refused"}, u : Users, m : MeetingIds, reason : Reasons]

TypeOK ==
  /\ meeting \in [MeetingIds -> Row \union {NoMeeting}]
  /\ session \in [Sessions -> Session]
  /\ audits \subseteq
       [action : {"create", "reschedule"}, u : Users, m : MeetingIds,
        reason : Reasons \union {"organizer"}]
  /\ before \in [Sessions -> Row \union {NoMeeting, Disturbed}]

Init ==
  /\ meeting = [m \in MeetingIds |-> NoMeeting]
  /\ session = [s \in Sessions |-> Idle]
  /\ audits = {}
  /\ before = [s \in Sessions |-> NoMeeting]

-----------------------------------------------------------------------------
Supported(minutes) == MinimumMinutes <= minutes /\ minutes <= MaximumMinutes

Become(s, t) == session' = [session EXCEPT ![s] = t]

\* The request of s ends.
End(s) == Become(s, Idle) /\ before' = [before EXCEPT ![s] = NoMeeting]

\* The row of m is written by s; every other open request on m is disturbed.
Write(s, m, row) ==
  /\ meeting' = [meeting EXCEPT ![m] = row]
  /\ before' = [r \in Sessions |->
                  IF r # s /\ session[r] # Idle /\ session[r].step # "create"
                           /\ session[r].m = m
                  THEN Disturbed ELSE before[r]]

Audit(action, u, m, reason) ==
  audits' = audits \union {[action |-> action, u |-> u, m |-> m, reason |-> reason]}

\* POST /meetings and PATCH /meetings/{id}/schedule.  An unsupported duration
\* is refused before anything is read and leaves no trace.
AskCreate(s, u, c) ==
  /\ session[s] = Idle
  /\ Supported(c.minutes)
  /\ c.text # Keep
  /\ Become(s, [step |-> "create", u |-> u, c |-> c])
  /\ UNCHANGED <<meeting, audits, before>>

\* PATCH of the schedule, with a supported duration; any other is refused.
AskReschedule(s, u, m, c) ==
  /\ session[s] = Idle
  /\ Supported(c.minutes)
  /\ Become(s, [step |-> "asked", u |-> u, m |-> m, c |-> c])
  /\ before' = [before EXCEPT ![s] = meeting[m]]
  /\ UNCHANGED <<meeting, audits>>

\* create_meeting: a row with a new id, in one commit.  (Its host's participant
\* row is MeetingStore's.)
CreateMeeting(s, m) ==
  LET q == session[s]
      row == [owner |-> q.u, text |-> q.c.text, start |-> q.c.start,
              end |-> q.c.start + q.c.minutes, status |-> "scheduled"]
  IN
  /\ q.step = "create"
  /\ meeting[m] = NoMeeting
  /\ Write(s, m, row)
  /\ Become(s, [step |-> "created", u |-> q.u, m |-> m])
  /\ UNCHANGED audits

-----------------------------------------------------------------------------
\* get_meeting_access_facts and can_manage.
ReadFacts(s) ==
  LET q == session[s]
      row == meeting[q.m]
      Refuse(reason) == Become(s, [step |-> "refused", u |-> q.u, m |-> q.m,
                                   reason |-> reason])
  IN
  /\ q.step = "asked"
  /\ \/ row = NoMeeting /\ Refuse("resource_not_found")
     \/ /\ row # NoMeeting
        /\ LET reason == CanManageMeeting(q.u, TRUE, row.owner) IN
           IF Allows(reason)
           THEN Become(s, [step |-> "managed", u |-> q.u, m |-> q.m, c |-> q.c,
                           held |-> row])
           ELSE Refuse(reason)
  /\ UNCHANGED <<meeting, audits, before>>

\* A further load of the row: as it is now, or as the session still holds it.
Loads(s) == {session[s].held, meeting[session[s].m]}

\* The entity after the request's edits.
Edit(row, c) ==
  [row EXCEPT !.start = c.start, !.end = c.start + c.minutes,
              !.text = IF c.text = Keep THEN @ ELSE c.text,
              !.status = "rescheduled"]

\* get_meeting_by_id, and the edits.  The organizer is always found.
EditMeeting(s) ==
  LET q == session[s] IN
  /\ q.step = "managed"
  /\ \E row \in Loads(s) :
       Become(s, [step |-> "edited", u |-> q.u, m |-> q.m, c |-> q.c,
                  held |-> row, new |-> Edit(row, q.c)])
  /\ UNCHANGED <<meeting, audits, before>>

\* update_meeting: the SELECT of the model.
LoadModel(s) ==
  LET q == session[s] IN
  /\ q.step = "edited"
  /\ \E row \in Loads(s) :
       Become(s, [q EXCEPT !.step = "based", !.held = row])
  /\ UNCHANGED <<meeting, audits, before>>

\* Slip: end_time is not copied to the model.
MergeWithoutEnd(row, base, new) ==
  [column \in DOMAIN row |->
     IF new[column] # base[column] /\ column # "end"
     THEN new[column] ELSE row[column]]

\* The columns that differ from the model are updated, the others stay.
Merge(row, base, new) ==
  [column \in DOMAIN row |->
     IF new[column] # base[column] THEN new[column] ELSE row[column]]

\* update_meeting: the commit.
UpdateMeeting(s) ==
  LET q == session[s] IN
  /\ q.step = "based"
  /\ Write(s, q.m, Merge(meeting[q.m], q.held, q.new))
  /\ Become(s, [step |-> "rescheduled", u |-> q.u, m |-> q.m, c |-> q.c,
                new |-> q.new])
  /\ UNCHANGED audits

-----------------------------------------------------------------------------
\* Slip: every request that was audited is called allowed.
AuditAllowed(s) ==
  LET q == session[s] IN
  /\ q.step \in {"created", "rescheduled", "refused"}
  /\ Audit(IF q.step = "created" THEN "create" ELSE "reschedule",
           q.u, q.m, "organizer")
  /\ End(s)
  /\ UNCHANGED meeting

\* The decision is audited in a commit of its own, then answered.
AuditDecision(s) ==
  LET q == session[s] IN
  /\ \/ q.step = "created" /\ Audit("create", q.u, q.m, "organizer")
     \/ q.step = "rescheduled" /\ Audit("reschedule", q.u, q.m, "organizer")
     \/ q.step = "refused" /\ Audit("reschedule", q.u, q.m, q.reason)
  /\ End(s)
  /\ UNCHANGED meeting

\* A statement or commit fails, or the request is cancelled: what it has
\* committed stays.
Fail(s) ==
  /\ session[s] # Idle
  /\ End(s)
  /\ UNCHANGED <<meeting, audits>>

Next ==
  \E s \in Sessions :
    \/ \E u \in Users, c \in Command :
         \/ AskCreate(s, u, c)
         \/ \E m \in MeetingIds : AskReschedule(s, u, m, c)
    \/ \E m \in MeetingIds : CreateMeeting(s, m)
    \/ ReadFacts(s)
    \/ EditMeeting(s)
    \/ LoadModel(s)
    \/ UpdateMeeting(s)
    \/ AuditDecision(s)
    \/ Fail(s)

Spec == Init /\ [][Next]_vars

-----------------------------------------------------------------------------
\* A reschedule that no other request disturbed does exactly what it asked,
\* and says so: the columns it named have the values it named, the others the
\* values they had when it arrived, its answer is the row, and the row lasts a
\* supported time.
UndisturbedIsExact ==
  \A s \in Sessions :
    LET q == session[s] IN
    q.step = "rescheduled" /\ before[s] # Disturbed =>
      /\ meeting[q.m] = q.new
      /\ q.new = [owner |-> q.u,
                  text |-> IF q.c.text = Keep THEN before[s].text ELSE q.c.text,
                  start |-> q.c.start,
                  end |-> q.c.start + q.c.minutes,
                  status |-> "rescheduled"]
      /\ Supported(q.new.end - q.new.start)

\* The audit trail claims no reschedule that did not happen and no refusal of
\* the organizer, though each row is committed after the fact.
AuditAgrees ==
  \A a \in audits :
    /\ a.reason = "organizer" =>
         /\ meeting[a.m] # NoMeeting /\ meeting[a.m].owner = a.u
         /\ a.action = "reschedule" => meeting[a.m].status = "rescheduled"
    /\ a.reason = "not_authorized" => meeting[a.m].owner # a.u

\* A meeting ends a supported duration after it starts.  Requests of one
\* session at a time keep this.
DurationIsSupported ==
  \A m \in MeetingIds :
    meeting[m] # NoMeeting =>
      /\ meeting[m].start + MinimumMinutes <= meeting[m].end
      /\ meeting[m].end <= meeting[m].start + MaximumMinutes
=============================================================================
