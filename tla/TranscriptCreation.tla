------------------------- MODULE TranscriptCreation -------------------------
(***************************************************************************)
(* TranscriptManagementService.create_transcript: requests that upload the *)
(* transcript of a meeting, interleaved at their statements.  A request    *)
(* checks that there is no transcript and then inserts one; between the    *)
(* two another request may insert its own, and transcripts.meeting_id is   *)
(* UNIQUE.  The audit row is committed after, and apart from, the          *)
(* transcript, so a request can fail with its transcript in the table.     *)
(* A client that tries again is one more request.                          *)
(***************************************************************************)
EXTENDS AccessPolicies

CONSTANTS
  Requests,
  Users,
  MeetingIds,
  Contents,       \* texts that _normalize_content accepts
  Blank,          \* any text it refuses
  Organizer,      \* Organizer[m]: who created the meeting m, or Nobody
  Nobody,         \* no meeting has that id
  Empty           \* the meeting has no transcript

ASSUME TranscriptConstants ==
  /\ Organizer \in [MeetingIds -> Users \union {Nobody}]
  /\ Nobody \notin Users
  /\ Blank \notin Contents
  /\ Empty \notin [by : Requests, content : Contents \union {Blank}]

VARIABLES
  transcript,     \* transcript[m]: the row of transcripts, or Empty
  request,        \* request[q]: what the request asks and how far it is
  reply,          \* reply[q]: the response, or "none"
  audits          \* the rows of audit_events

vars == <<transcript, request, reply, audits>>

Reasons ==
  {"resource_not_found", "inactive_user", "not_authorized",
   "transcript_already_exists"}

NewRequest == [step |-> "new"]
Asked(step) ==
  [step : {step}, u : Users, m : MeetingIds, c : Contents \union {Blank}]
Request ==
  {NewRequest} \union Asked("arrived") \union Asked("managed")
    \union Asked("free") \union Asked("written") \union Asked("done")
    \union [step : {"refused"}, u : Users, m : MeetingIds,
            c : Contents \union {Blank}, reason : Reasons]

Replies ==
  {"none", "created", "invalid", "not_found", "forbidden", "conflict", "error"}

TypeOK ==
  /\ transcript \in
       [MeetingIds -> [by : Requests, content : Contents] \union {Empty}]
  /\ request \in [Requests -> Request]
  /\ reply \in [Requests -> Replies]
  /\ audits \subseteq
       [by : Requests, allowed : BOOLEAN, reason : Reasons \union {"organizer"}]

Init ==
  /\ transcript = [m \in MeetingIds |-> Empty]
  /\ request = [q \in Requests |-> NewRequest]
  /\ reply = [q \in Requests |-> "none"]
  /\ audits = {}

-----------------------------------------------------------------------------
At(q, step) == request[q].step = step

\* The request goes on to the next step; or stops at a refusal, to be audited.
Goto(q, step) ==
  request' = [request EXCEPT ![q] =
                [step |-> step, u |-> @.u, m |-> @.m, c |-> @.c]]
RefuseWith(q, reason) ==
  request' = [request EXCEPT ![q] =
                [step |-> "refused", u |-> @.u, m |-> @.m, c |-> @.c,
                 reason |-> reason]]
Respond(q, answer) == reply' = [reply EXCEPT ![q] = answer]

\* POST /meetings/{id}/transcript, authenticated.
Arrive(q, u, m, c) ==
  /\ At(q, "new")
  /\ request' = [request EXCEPT ![q] =
                   [step |-> "arrived", u |-> u, m |-> m, c |-> c]]
  /\ UNCHANGED <<transcript, reply, audits>>

\* _normalize_content: nothing is read, nothing audited.
RejectContent(q) ==
  /\ At(q, "arrived")
  /\ request[q].c = Blank
  /\ Goto(q, "done")
  /\ Respond(q, "invalid")
  /\ UNCHANGED <<transcript, audits>>

\* The facts and can_manage.  The organizer never changes.
ReadFacts(q) ==
  LET r == request[q]
      reason == CanManageMeeting(r.u, TRUE, Organizer[r.m])
  IN
  /\ r.step = "arrived"
  /\ r.c # Blank
  /\ \/ Organizer[r.m] = Nobody /\ RefuseWith(q, "resource_not_found")
     \/ Organizer[r.m] # Nobody /\ ~Allows(reason) /\ RefuseWith(q, reason)
     \/ Organizer[r.m] # Nobody /\ Allows(reason) /\ Goto(q, "managed")
  /\ UNCHANGED <<transcript, reply, audits>>

\* transcript_exists
CheckExists(q) ==
  /\ At(q, "managed")
  /\ IF transcript[request[q].m] # Empty
     THEN RefuseWith(q, "transcript_already_exists")
     ELSE Goto(q, "free")
  /\ UNCHANGED <<transcript, reply, audits>>

\* Slip: the row is written whether or not there is one (an upsert).
UpsertTranscript(q) ==
  LET r == request[q] IN
  /\ r.step = "free"
  /\ transcript' = [transcript EXCEPT ![r.m] = [by |-> q, content |-> r.c]]
  /\ Goto(q, "written")
  /\ UNCHANGED <<reply, audits>>

\* Slip: the IntegrityError of a lost race is taken for success.
InsertIgnoringConflict(q) ==
  LET r == request[q] IN
  /\ r.step = "free"
  /\ IF transcript[r.m] = Empty
     THEN transcript' = [transcript EXCEPT ![r.m] = [by |-> q, content |-> r.c]]
     ELSE UNCHANGED transcript
  /\ Goto(q, "written")
  /\ UNCHANGED <<reply, audits>>

\* add_transcript: INSERT; the unique constraint refuses a second row, and the
\* service turns that into the same conflict as the check before.
AddTranscript(q) ==
  LET r == request[q] IN
  /\ r.step = "free"
  /\ \/ /\ transcript[r.m] = Empty
        /\ transcript' = [transcript EXCEPT ![r.m] = [by |-> q, content |-> r.c]]
        /\ Goto(q, "written")
     \/ /\ transcript[r.m] # Empty
        /\ RefuseWith(q, "transcript_already_exists")
        /\ UNCHANGED transcript
  /\ UNCHANGED <<reply, audits>>

\* The response a refusal ends in.
RefusalReply(reason) ==
  CASE reason = "resource_not_found" -> "not_found"
    [] reason = "transcript_already_exists" -> "conflict"
    [] OTHER -> "forbidden"

\* Slip: the refusal is not audited.
RefuseUnaudited(q) ==
  /\ At(q, "refused")
  /\ Respond(q, RefusalReply(request[q].reason))
  /\ Goto(q, "done")
  /\ UNCHANGED <<transcript, audits>>

\* The denial is audited, then raised.
AuditRefusal(q) ==
  /\ At(q, "refused")
  /\ audits' = audits \union
       {[by |-> q, allowed |-> FALSE, reason |-> request[q].reason]}
  /\ Respond(q, RefusalReply(request[q].reason))
  /\ Goto(q, "done")
  /\ UNCHANGED transcript

\* Slip: the text is audited where the reason belongs.
AuditCreationAsContent(q) ==
  /\ At(q, "written")
  /\ audits' = audits \union
       {[by |-> q, allowed |-> TRUE, reason |-> request[q].c]}
  /\ Respond(q, "created")
  /\ Goto(q, "done")
  /\ UNCHANGED transcript

\* The creation is audited, then returned.
AuditCreation(q) ==
  /\ At(q, "written")
  /\ audits' = audits \union
       {[by |-> q, allowed |-> TRUE, reason |-> "organizer"]}
  /\ Respond(q, "created")
  /\ Goto(q, "done")
  /\ UNCHANGED transcript

\* A statement or a commit raises, the request is cancelled or the process
\* dies.  What was committed stays; the rest is rolled back.
Fail(q) ==
  /\ request[q].step \notin {"new", "done"}
  /\ Goto(q, "done")
  /\ Respond(q, "error")
  /\ UNCHANGED <<transcript, audits>>

RequestStep(q) ==
  \/ RejectContent(q)
  \/ ReadFacts(q)
  \/ CheckExists(q)
  \/ AddTranscript(q)
  \/ AuditRefusal(q)
  \/ AuditCreation(q)

Next ==
  \E q \in Requests :
    \/ \E u \in Users, m \in MeetingIds, c \in Contents \union {Blank} :
         Arrive(q, u, m, c)
    \/ RequestStep(q)
    \/ Fail(q)

Spec == Init /\ [][Next]_vars

-----------------------------------------------------------------------------
\* The register a transcript is to its callers.  An answer that is neither a
\* success, a conflict nor an error is a refusal.
Outcome(answer) ==
  CASE answer \in {"none", "created", "conflict"} -> answer
    [] answer = "error" -> "failed"
    [] OTHER -> "refused"

Register == INSTANCE TranscriptRegister WITH
  register <- transcript,
  outcome <- [q \in Requests |-> Outcome(reply[q])]

\* However the requests race, a transcript is written once and never
\* overwritten, exactly its writer is told 201, and whoever is told 409, 403,
\* 404 or 422 wrote nothing.
ImplementsRegister == Register!Spec

\* The audit trail and the table agree: an "allowed" row belongs to the request
\* whose text stands in the table, a "denied" one to a request that wrote
\* nothing.
AuditIsTrue ==
  \A a \in audits :
    IF a.allowed
    THEN /\ transcript[request[a.by].m] =
              [by |-> a.by, content |-> request[a.by].c]
         /\ request[a.by].u = Organizer[request[a.by].m]
    ELSE \A m \in MeetingIds : transcript[m] # Empty => transcript[m].by # a.by

\* No decision is reported without its audit row: only 422, which decides
\* nothing, and 500 leave none.
ReportedIsAudited ==
  \A q \in Requests :
    reply[q] \notin {"none", "invalid", "error"} =>
      \E a \in audits : a.by = q /\ (a.allowed <=> reply[q] = "created")

\* A transcript in the table was audited, once its request is over.
EveryTranscriptIsAudited ==
  \A m \in MeetingIds :
    transcript[m] # Empty /\ At(transcript[m].by, "done") =>
      \E a \in audits : a.by = transcript[m].by /\ a.allowed
=============================================================================
