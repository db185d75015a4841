----------------------- MODULE RecordingAvailability -----------------------
(***************************************************************************)
(* RecordingAvailabilityService.get_availability for one meeting: who takes*)
(* part, whether there is a transcript, the recording and the caller's     *)
(* membership are read by four SELECTs, the clock after the last, and each *)
(* may change in between.  EntitlementPolicy decides on a membership that  *)
(* may end while the request runs.                                         *)
(***************************************************************************)
EXTENDS AccessPolicies, Naturals

CONSTANTS
  Users,
  Owner,          \* the meeting's organizer
  Requests,
  MaxTime,        \* bound: the clock stops here
  Bought,         \* bound: the rows memberships take
  Made            \* bound: the rows the recording takes

VARIABLES
  active,         \* the ACTIVE participants
  transcript,     \* the meeting has one
  recording,      \* the row of recordings, or NoRow
  membership,     \* membership[u]: u's row of memberships, or NoRow
  clock,
  ask,            \* ask[r]: what request r has read and decided
  seen,           \* seen[r]: the facts that held at some instant of it
  kept            \* kept[r]: the facts that held at every instant of it

tables == <<active, transcript, recording, membership, clock>>
recordingVars == <<tables, ask, seen, kept>>

Plans == {"starter", "professional", "organization"}
PlanLevel == [starter |-> 0, professional |-> 1, organization |-> 2]

Never == MaxTime + 1            \* a membership without valid_until
NoRow == [none |-> TRUE]
Recordings == [status : {"processing", "available"}, plan : Plans]
Memberships ==
  [plan : Plans, status : {"active", "inactive"}, until : 0..Never]

\* What the constants are taken to be.
RecordingConstants ==
  /\ Owner \in Users
  /\ MaxTime \in Nat
  /\ Bought \subseteq Memberships
  /\ Made \subseteq Recordings

Reasons ==
  {"available", "not_created", "processing", "plan_restriction", "unauthorized"}
Alternatives == {"open_transcript", "open_membership_plans"}

NoAsk ==
  [step |-> "idle", u |-> Owner, transcript |-> FALSE, recording |-> NoRow,
   membership |-> NoRow, reason |-> "unauthorized", offers |-> {}]
Asks ==
  [step : {"idle", "start", "facts", "transcript", "recording", "membership",
           "auditing", "answered", "failed"},
   u : Users, transcript : BOOLEAN, recording : Recordings \union {NoRow},
   membership : Memberships \union {NoRow}, reason : Reasons,
   offers : SUBSET Alternatives]

Fact(name) == <<name, "any">>
Facts ==
  {Fact(name) : name \in {"access", "transcript", "recorded", "ready"}}
    \union ({"requires", "covers"} \X Plans)

RecordingTypeOK ==
  /\ active \subseteq Users
  /\ transcript \in BOOLEAN
  /\ recording \in Recordings \union {NoRow}
  /\ membership \in [Users -> Memberships \union {NoRow}]
  /\ clock \in 0..MaxTime
  /\ ask \in [Requests -> Asks]
  /\ seen \in [Requests -> SUBSET Facts]
  /\ kept \in [Requests -> SUBSET Facts]

Go(r, q) == ask' = [ask EXCEPT ![r] = q]

-----------------------------------------------------------------------------
\* Slip: valid at the very end.
ActiveAtEnd(row, now) == row # NoRow /\ row.status = "active" /\ row.until >= now

\* Membership.is_active_at.
IsActiveAt(row, now) ==
  row # NoRow /\ row.status = "active" /\ (row.until = Never \/ row.until > now)

\* Slip: the plan must be higher than the one required.
HigherPlanOnly(row, plan, now) ==
  IsActiveAt(row, now) /\ PlanLevel[row.plan] > PlanLevel[plan]

\* EntitlementPolicy.can_access_recording: no active membership is STARTER.
CanAccessRecording(row, plan, now) ==
  LET current == IF IsActiveAt(row, now) THEN row.plan ELSE "starter"
  IN PlanLevel[current] >= PlanLevel[plan]

\* _result: the alternatives a reason comes with.
Offers(reason, hasTranscript) ==
  (IF hasTranscript THEN {"open_transcript"} ELSE {})
    \union (IF reason = "plan_restriction" THEN {"open_membership_plans"} ELSE {})

Result(q, reason, hasTranscript) ==
  [q EXCEPT !.step = "auditing", !.reason = reason,
            !.offers = Offers(reason, hasTranscript)]

Arrive(r, u) ==
  /\ ask[r].step = "idle"
  /\ Go(r, [NoAsk EXCEPT !.step = "start", !.u = u])

ReadFacts(r) ==
  LET q == ask[r] IN
  /\ q.step = "start"
  /\ Go(r, IF Allows(CanListMeeting(q.u, TRUE, Owner, active))
           THEN [q EXCEPT !.step = "facts"]
           ELSE Result(q, "unauthorized", FALSE))

ReadTranscript(r) ==
  LET q == ask[r] IN
  /\ q.step = "facts"
  /\ Go(r, [q EXCEPT !.step = "transcript", !.transcript = transcript])

ReadRecording(r) ==
  LET q == ask[r] IN
  /\ q.step = "transcript"
  /\ Go(r, IF recording = NoRow THEN Result(q, "not_created", q.transcript)
           ELSE IF recording.status = "processing"
           THEN Result(q, "processing", q.transcript)
           ELSE [q EXCEPT !.step = "recording", !.recording = recording])

ReadMembership(r) ==
  LET q == ask[r] IN
  /\ q.step = "recording"
  /\ Go(r, [q EXCEPT !.step = "membership", !.membership = membership[q.u]])

\* The policy looks at the clock; an available recording comes with no offer.
Decide(r) ==
  LET q == ask[r] IN
  /\ q.step = "membership"
  /\ Go(r, IF CanAccessRecording(q.membership, q.recording.plan, clock)
           THEN Result(q, "available", FALSE)
           ELSE Result(q, "plan_restriction", q.transcript))

\* The audit row is committed, then the answer leaves.
Audit(r) ==
  /\ ask[r].step = "auditing"
  /\ Go(r, [ask[r] EXCEPT !.step = "answered"])

Break(r) ==
  /\ ask[r].step \notin {"idle", "membership", "answered", "failed"}
  /\ Go(r, [ask[r] EXCEPT !.step = "failed"])

-----------------------------------------------------------------------------
\* What is committed meanwhile: participants come and go, the transcript is
\* stored, the recording is made, finished or given another plan, memberships
\* are bought, changed and ended (RecordingRepository.save and
\* MembershipRepository.save write the whole row), and time passes.
TablesNext ==
  \/ /\ \E u \in Users \ {Owner} :
          active' \in {active \union {u}, active \ {u}}
     /\ UNCHANGED <<transcript, recording, membership, clock>>
  \/ /\ transcript' = TRUE
     /\ UNCHANGED <<active, recording, membership, clock>>
  \/ /\ recording' \in Made
     /\ UNCHANGED <<active, transcript, membership, clock>>
  \/ /\ \E u \in Users, row \in Bought :
          membership' = [membership EXCEPT ![u] = row]
     /\ UNCHANGED <<active, transcript, recording, clock>>
  \/ /\ clock < MaxTime
     /\ clock' = clock + 1
     /\ UNCHANGED <<active, transcript, recording, membership>>

RequestStep(r) ==
  \/ ReadFacts(r)
  \/ ReadTranscript(r)
  \/ ReadRecording(r)
  \/ ReadMembership(r)
  \/ Decide(r)
  \/ Audit(r)

\* The facts about the meeting and r's caller, as things are.  "covers" a plan:
\* it is the lowest, or a membership that is running now includes it.
StillRuns(row) ==
  row # NoRow /\ row.status = "active" /\ row.until \notin 0..clock
Included(row, p) ==
  p = "starter" \/ (StillRuns(row) /\ row.plan \in {p, "organization"})
FactsOn(u) ==
  {f \in Facts :
     CASE f = Fact("access") -> u = Owner \/ u \in active
       [] f = Fact("transcript") -> transcript
       [] f = Fact("recorded") -> recording # NoRow
       [] f = Fact("ready") -> recording # NoRow /\ recording.status = "available"
       [] f[1] = "requires" -> recording # NoRow /\ recording.plan = f[2]
       [] OTHER -> Included(membership[u], f[2])}

FactsNow == [r \in Requests |-> FactsOn(ask[r].u)]

Observe ==
  /\ seen' = [r \in Requests |-> IF ask'[r].step = "idle" THEN {}
                                 ELSE seen[r] \union FactsNow'[r]]
  /\ kept' = [r \in Requests |-> IF ask[r].step = "idle" THEN FactsNow'[r]
                                 ELSE kept[r] \intersect FactsNow'[r]]

RecordingInit ==
  /\ active = {Owner}
  /\ transcript = FALSE
  /\ recording = NoRow
  /\ membership = [u \in Users |-> NoRow]
  /\ clock = 0
  /\ ask = [r \in Requests |-> NoAsk]
  /\ seen = [r \in Requests |-> {}]
  /\ kept = [r \in Requests |-> FactsOn(Owner)]

RecordingNext ==
  /\ \/ /\ \E r \in Requests :
             (\E u \in Users : Arrive(r, u)) \/ RequestStep(r) \/ Break(r)
        /\ UNCHANGED tables
     \/ TablesNext /\ UNCHANGED ask
  /\ Observe

RecordingSpec == RecordingInit /\ [][RecordingNext]_recordingVars

-----------------------------------------------------------------------------
Answered(r) == ask[r].step = "answered"

\* What an answer gives rests on facts of the request's own time.  "available":
\* its caller took part, the recording was ready and required a plan, and a
\* membership that was running at some instant of the request included that plan.
\* The transcript is offered only to a caller who took part in a meeting with one.
AnswersAreGrounded ==
  \A r \in Requests :
    Answered(r) =>
      /\ ask[r].reason = "available" =>
           /\ {Fact("access"), Fact("ready")} \subseteq seen[r]
           /\ \E p \in Plans : {<<"requires", p>>, <<"covers", p>>} \subseteq seen[r]
      /\ "open_transcript" \in ask[r].offers =>
           {Fact("access"), Fact("transcript")} \subseteq seen[r]

\* What held from the first SELECT to the answer decides it: no change between
\* two SELECTs makes the service deny what was not in question, the offer of the
\* transcript included.  (Only a renewal that falls between the membership's SELECT
\* and the clock can be missed.)
SteadyFactsDecide ==
  \A r \in Requests :
    Answered(r) =>
      /\ ask[r].reason = "unauthorized" => Fact("access") \notin kept[r]
      /\ ask[r].reason = "not_created" => Fact("recorded") \notin kept[r]
      /\ ask[r].reason = "processing" => Fact("ready") \notin kept[r]
      /\ ask[r].reason = "plan_restriction" =>
           \A p \in Plans :
             {<<"requires", p>>, <<"covers", p>>} \subseteq kept[r]
               => membership[ask[r].u] # ask[r].membership
      /\ {Fact("access"), Fact("transcript")} \subseteq kept[r] =>
           "open_transcript" \in ask[r].offers \/ ask[r].reason = "available"
=============================================================================
