--------------------------- MODULE ServicesProofs ---------------------------
(***************************************************************************)
(* What three services keep, for any number of callers and runs and any    *)
(* limits: the recording's availability (RecordingAvailability), the       *)
(* validation of uploaded media (MediaValidation) and the script that      *)
(* fills a database with demonstration data (SeedDatabase).                *)
(***************************************************************************)
EXTENDS Services, TLAPS

(***************************************************************************)
(* The recording's availability.  What holds now has been seen and what    *)
(* was kept holds now; a row once read is worth what was seen when it was  *)
(* read, and time only takes from a membership.                            *)
(***************************************************************************)
Concluded(q) == q.step \in {"auditing", "answered"}
Inside(q) == q.step \in {"facts", "transcript", "recording", "membership"}

\* What the reads of q have found, given what was seen, s, and kept, k, until now.
ReadsAreTrue(q, s, k, now) ==
  /\ Inside(q) => Fact("access") \in s
  /\ q.step \in {"transcript", "recording", "membership"} =>
       IF q.transcript THEN Fact("transcript") \in s ELSE Fact("transcript") \notin k
  /\ q.step \in {"recording", "membership"} =>
       /\ q.recording \in Recordings
       /\ Fact("ready") \in s
       /\ <<"requires", q.recording.plan>> \in s
       /\ \A p \in Plans : <<"requires", p>> \in k => p = q.recording.plan
  /\ q.step = "membership" =>
       \A p \in Plans :
         CanAccessRecording(q.membership, p, now) => <<"covers", p>> \in s

\* What the answer of q rests on.
ResultIsTrue(q, s, k, now) ==
  /\ q.reason = "available" =>
       /\ {Fact("access"), Fact("ready")} \subseteq s
       /\ \E p \in Plans : {<<"requires", p>>, <<"covers", p>>} \subseteq s
  /\ "open_transcript" \in q.offers => {Fact("access"), Fact("transcript")} \subseteq s
  /\ q.reason = "unauthorized" => Fact("access") \notin k
  /\ q.reason = "not_created" => Fact("recorded") \notin k
  /\ q.reason = "processing" => Fact("ready") \notin k
  /\ q.reason = "plan_restriction" =>
       \A p \in Plans :
         <<"requires", p>> \in k => ~CanAccessRecording(q.membership, p, now)
  /\ {Fact("access"), Fact("transcript")} \subseteq k =>
       "open_transcript" \in q.offers \/ q.reason = "available"

AskIsTrue(q, s, k, now) ==
  ReadsAreTrue(q, s, k, now) /\ (Concluded(q) => ResultIsTrue(q, s, k, now))

RecordingInv ==
  /\ RecordingConstants
  /\ RecordingTypeOK
  /\ \A r \in Requests :
       /\ ask[r].step = "idle" <=> ask[r] = NoAsk
       /\ ask[r].step # "idle" => FactsNow[r] \subseteq seen[r]
       /\ kept[r] \subseteq FactsNow[r]
       /\ AskIsTrue(ask[r], seen[r], kept[r], clock)

\* The facts, one by one.
LEMMA FactsAre ==
  ASSUME RecordingTypeOK, NEW u \in Users
  PROVE  /\ Fact("access") \in FactsOn(u) <=> (u = Owner \/ u \in active)
         /\ Fact("transcript") \in FactsOn(u) <=> transcript
         /\ Fact("recorded") \in FactsOn(u) <=> recording # NoRow
         /\ Fact("ready") \in FactsOn(u)
              <=> recording # NoRow /\ recording.status = "available"
         /\ \A p \in Plans :
              /\ <<"requires", p>> \in FactsOn(u)
                   <=> recording # NoRow /\ recording.plan = p
              /\ <<"covers", p>> \in FactsOn(u) <=> Included(membership[u], p)
<1>1. /\ \A name \in {"access", "transcript", "recorded", "ready"} : Fact(name) \in Facts
      /\ \A p \in Plans : <<"requires", p>> \in Facts /\ <<"covers", p>> \in Facts
  BY DEF Facts
<1>2. /\ Fact("access") \in FactsOn(u) <=> (u = Owner \/ u \in active)
      /\ Fact("transcript") \in FactsOn(u) <=> transcript
      /\ Fact("recorded") \in FactsOn(u) <=> recording # NoRow
      /\ Fact("ready") \in FactsOn(u)
           <=> recording # NoRow /\ recording.status = "available"
  BY <1>1 DEF FactsOn, Fact, RecordingTypeOK
<1>3. ASSUME NEW p \in Plans
      PROVE  /\ <<"requires", p>> \in FactsOn(u)
                  <=> recording # NoRow /\ recording.plan = p
             /\ <<"covers", p>> \in FactsOn(u) <=> Included(membership[u], p)
  BY <1>1, <1>3 DEF FactsOn, Fact
<1> QED BY <1>2, <1>3

\* The policy, plan by plan: the lowest needs no membership, the highest includes all.
LEMMA PolicyIs ==
  ASSUME NEW row, NEW p \in Plans, NEW now, row # NoRow => row.plan \in Plans
  PROVE  CanAccessRecording(row, p, now)
           <=> p = "starter" \/ (IsActiveAt(row, now) /\ row.plan \in {p, "organization"})
<1>1. /\ PlanLevel["starter"] = 0 /\ PlanLevel["professional"] = 1
      /\ PlanLevel["organization"] = 2
  BY DEF PlanLevel
<1>2. p \in {"starter", "professional", "organization"}
  BY DEF Plans
<1>3. CASE IsActiveAt(row, now)
  <2>1. row.plan \in {"starter", "professional", "organization"}
    BY <1>3 DEF IsActiveAt, Plans
  <2>2. CanAccessRecording(row, p, now) <=> PlanLevel[row.plan] >= PlanLevel[p]
    BY <1>3 DEF CanAccessRecording
  <2> QED BY <1>1, <1>2, <1>3, <2>1, <2>2
<1>4. CASE ~IsActiveAt(row, now)
  BY <1>1, <1>2, <1>4 DEF CanAccessRecording
<1> QED BY <1>3, <1>4

\* What a membership covers is what the policy allows with it.
LEMMA CoversIs ==
  ASSUME RecordingConstants, RecordingTypeOK, NEW row \in Memberships \union {NoRow},
         NEW p \in Plans
  PROVE  CanAccessRecording(row, p, clock) <=> Included(row, p)
<1>1. row # NoRow => /\ row.plan \in Plans /\ row.until \in 0..Never
                     /\ row.until \in Nat
  BY DEF Memberships, Never, RecordingConstants
<1>2. clock \in Nat /\ MaxTime \in Nat /\ clock <= MaxTime
  BY DEF RecordingTypeOK, RecordingConstants
<1>3. IsActiveAt(row, clock) <=> StillRuns(row)
  BY <1>1, <1>2 DEF IsActiveAt, StillRuns, Never
<1> QED BY <1>1, <1>3, PolicyIs DEF Included

\* Time only takes from a membership.
LEMMA TimeTakes ==
  ASSUME RecordingConstants, NEW row \in Memberships \union {NoRow}, NEW p \in Plans,
         NEW now \in 0..MaxTime, NEW later \in 0..MaxTime, now <= later,
         CanAccessRecording(row, p, later)
  PROVE  CanAccessRecording(row, p, now)
<1>1. row # NoRow => row.plan \in Plans /\ row.until \in Nat
  BY DEF Memberships, Never, RecordingConstants
<1>2. IsActiveAt(row, later) => IsActiveAt(row, now)
  BY <1>1 DEF IsActiveAt, RecordingConstants
<1> QED BY <1>1, <1>2, PolicyIs

\* A longer history keeps what was true of a request.
LEMMA AskStaysTrue ==
  ASSUME RecordingConstants, NEW q \in Asks, NEW s, NEW k, NEW now \in 0..MaxTime,
         AskIsTrue(q, s, k, now),
         NEW z, s \subseteq z, NEW j, j \subseteq k, NEW later \in 0..MaxTime, now <= later
  PROVE  AskIsTrue(q, z, j, later)
<1>1. q.membership \in Memberships \union {NoRow}
  BY DEF Asks
<1>2. \A p \in Plans : CanAccessRecording(q.membership, p, later)
                         => CanAccessRecording(q.membership, p, now)
  BY <1>1, TimeTakes
<1>3. ReadsAreTrue(q, z, j, later)
  BY <1>2 DEF AskIsTrue, ReadsAreTrue
<1>4. ASSUME Concluded(q) PROVE ResultIsTrue(q, z, j, later)
  <2>1. ResultIsTrue(q, s, k, now)
    BY <1>4 DEF AskIsTrue
  <2> QED BY <1>2, <2>1 DEF ResultIsTrue
<1> QED BY <1>3, <1>4 DEF AskIsTrue

\* What the histories are after a step.
LEMMA ObserveIs ==
  ASSUME RecordingInv, Observe, NEW r \in Requests
  PROVE  /\ kept'[r] \subseteq FactsNow'[r]
         /\ ask'[r].step # "idle" =>
              seen[r] \subseteq seen'[r] /\ FactsNow'[r] \subseteq seen'[r]
         /\ ask[r].step # "idle" => kept'[r] \subseteq kept[r]
<1>1. \A x \in Requests : FactsNow'[x] \subseteq Facts
  BY DEF FactsNow, FactsOn
<1> QED BY <1>1 DEF Observe, RecordingInv, RecordingTypeOK

\* Where it stands, a request that does not move stays true.
LEMMA OthersStayTrue ==
  ASSUME RecordingInv, Observe, NEW r \in Requests, ask'[r] = ask[r],
         clock' \in 0..MaxTime, clock <= clock'
  PROVE  AskIsTrue(ask'[r], seen'[r], kept'[r], clock')
<1>1. CASE ask[r].step = "idle"
  BY <1>1 DEF AskIsTrue, ReadsAreTrue, Concluded, Inside
<1>2. CASE ask[r].step # "idle"
  <2>1. /\ ask[r] \in Asks /\ clock \in 0..MaxTime
        /\ AskIsTrue(ask[r], seen[r], kept[r], clock)
    BY DEF RecordingInv, RecordingTypeOK
  <2>2. seen[r] \subseteq seen'[r] /\ kept'[r] \subseteq kept[r]
    BY <1>2, ObserveIs
  <2> QED BY <2>1, <2>2, AskStaysTrue DEF RecordingInv
<1> QED BY <1>1, <1>2

\* The histories keep their types.
LEMMA ObserveTypes ==
  ASSUME RecordingInv, Observe
  PROVE  /\ seen' \in [Requests -> SUBSET Facts] /\ kept' \in [Requests -> SUBSET Facts]
<1>1. \A x \in Requests : FactsNow'[x] \subseteq Facts
  BY DEF FactsNow, FactsOn
<1> QED BY <1>1 DEF Observe, RecordingInv, RecordingTypeOK

\* The tables change and time passes.
LEMMA TablesKeepInv ==
  ASSUME RecordingInv, TablesNext, UNCHANGED ask, Observe
  PROVE  RecordingInv'
<1>1. /\ active \subseteq Users /\ transcript \in BOOLEAN
      /\ recording \in Recordings \union {NoRow}
      /\ membership \in [Users -> Memberships \union {NoRow}]
      /\ clock \in 0..MaxTime /\ MaxTime \in Nat
      /\ Made \subseteq Recordings /\ Bought \subseteq Memberships
  BY DEF RecordingInv, RecordingConstants, RecordingTypeOK
<1>2. /\ active' \subseteq Users /\ transcript' \in BOOLEAN
      /\ recording' \in Recordings \union {NoRow}
  BY <1>1 DEF TablesNext
<1>3. membership' \in [Users -> Memberships \union {NoRow}]
  BY <1>1 DEF TablesNext
<1>4. clock' \in 0..MaxTime /\ clock <= clock'
  BY <1>1 DEF TablesNext
<1>5. RecordingTypeOK'
  BY <1>2, <1>3, <1>4, ObserveTypes DEF RecordingInv, RecordingTypeOK
<1>6. ASSUME NEW x \in Requests
      PROVE  /\ ask'[x].step = "idle" <=> ask'[x] = NoAsk
             /\ ask'[x].step # "idle" => FactsNow'[x] \subseteq seen'[x]
             /\ kept'[x] \subseteq FactsNow'[x]
             /\ AskIsTrue(ask'[x], seen'[x], kept'[x], clock')
  BY <1>4, ObserveIs, OthersStayTrue DEF RecordingInv
<1> QED BY <1>5, <1>6 DEF RecordingInv, RecordingConstants

\* One request moves.
LEMMA MoveKeeps ==
  ASSUME RecordingInv, NEW r \in Requests, NEW n \in Asks, Go(r, n),
         UNCHANGED tables, Observe, n.step # "idle",
         IF ask[r].step = "idle" THEN n.step = "start"
         ELSE AskIsTrue(n, seen[r], kept[r], clock)
  PROVE  RecordingInv'
<1>1. /\ ask'[r] = n /\ \A x \in Requests \ {r} : ask'[x] = ask[x]
      /\ ask' \in [Requests -> Asks]
      /\ UNCHANGED <<active, transcript, recording, membership, clock>>
  BY DEF Go, RecordingInv, RecordingTypeOK, tables
<1>2. clock \in 0..MaxTime /\ clock <= clock'
  BY <1>1 DEF RecordingInv, RecordingTypeOK, RecordingConstants
<1>3. RecordingTypeOK'
  BY <1>1, ObserveTypes DEF RecordingInv, RecordingTypeOK
<1>4. AskIsTrue(ask'[r], seen'[r], kept'[r], clock')
  <2>1. CASE ask[r].step = "idle"
    BY <1>1, <2>1 DEF AskIsTrue, ReadsAreTrue, Concluded, Inside
  <2>2. CASE ask[r].step # "idle"
    <3>1. seen[r] \subseteq seen'[r] /\ kept'[r] \subseteq kept[r]
      BY <1>1, <2>2, ObserveIs
    <3> QED BY <1>1, <1>2, <2>2, <3>1, AskStaysTrue DEF RecordingInv
  <2> QED BY <2>1, <2>2
<1>5. n # NoAsk
  BY DEF NoAsk
<1>6. ASSUME NEW x \in Requests
      PROVE  /\ ask'[x].step = "idle" <=> ask'[x] = NoAsk
             /\ ask'[x].step # "idle" => FactsNow'[x] \subseteq seen'[x]
             /\ kept'[x] \subseteq FactsNow'[x]
             /\ AskIsTrue(ask'[x], seen'[x], kept'[x], clock')
  <2>1. CASE x = r
    BY <2>1, <1>1, <1>4, <1>5, ObserveIs
  <2>2. CASE x # r
    BY <2>2, <1>1, <1>2, ObserveIs, OthersStayTrue DEF RecordingInv
  <2> QED BY <2>1, <2>2
<1> QED BY <1>1, <1>3, <1>6 DEF RecordingInv, RecordingConstants

\* What a reply holds.
LEMMA ResultIs ==
  ASSUME NEW q \in Asks, NEW reason \in Reasons, NEW has \in BOOLEAN
  PROVE  LET n == Result(q, reason, has) IN
         /\ n \in Asks /\ n.step = "auditing" /\ n.reason = reason
         /\ "open_transcript" \in n.offers <=> has = TRUE
<1>1. Offers(reason, has) \subseteq Alternatives
      /\ ("open_transcript" \in Offers(reason, has) <=> has = TRUE)
  BY DEF Offers, Alternatives
<1> QED BY <1>1 DEF Result, Asks

\* A reply that offers the transcript as it was found.
LEMMA RefusalIs ==
  ASSUME NEW q \in Asks, NEW reason \in Reasons
  PROVE  LET n == Result(q, reason, q.transcript) IN
         /\ n \in Asks /\ n.step = "auditing" /\ n.reason = reason
         /\ "open_transcript" \in n.offers <=> q.transcript = TRUE
<1>1. q.transcript \in BOOLEAN
  BY DEF Asks
<1>2. /\ Offers(reason, q.transcript) \subseteq Alternatives
      /\ "open_transcript" \in Offers(reason, q.transcript) <=> q.transcript = TRUE
  BY <1>1 DEF Offers, Alternatives
<1> QED BY <1>2 DEF Result, Asks

\* The policy of the list lets in the organizer and the active participants.
LEMMA ListIs ==
  ASSUME NEW u
  PROVE  Allows(CanListMeeting(u, TRUE, Owner, active)) <=> u = Owner \/ u \in active
BY DEF CanListMeeting, Allows, AllowReasons

\* What is read is read at an instant of the request.
LEMMA RequestSees ==
  ASSUME RecordingInv, NEW r \in Requests, ask[r].step # "idle"
  PROVE  /\ ask[r] \in Asks
         /\ FactsOn(ask[r].u) \subseteq seen[r] /\ kept[r] \subseteq FactsOn(ask[r].u)
         /\ AskIsTrue(ask[r], seen[r], kept[r], clock)
BY DEF RecordingInv, RecordingTypeOK, FactsNow

LEMMA ArriveKeeps ==
  ASSUME RecordingInv, NEW r \in Requests, NEW u \in Users, Arrive(r, u),
         UNCHANGED tables, Observe
  PROVE  RecordingInv'
<1> DEFINE n == [NoAsk EXCEPT !.step = "start", !.u = u]
<1>1. n \in Asks /\ n.step = "start"
  BY DEF NoAsk, Asks, Reasons, RecordingInv, RecordingConstants
<1>2. Go(r, n) /\ ask[r].step = "idle"
  BY DEF Arrive
<1> HIDE DEF n
<1> QED BY <1>1, <1>2, MoveKeeps

LEMMA ReadFactsKeeps ==
  ASSUME RecordingInv, NEW r \in Requests, ReadFacts(r), UNCHANGED tables, Observe
  PROVE  RecordingInv'
<1> DEFINE q == ask[r]
           s == seen[r]
           k == kept[r]
<1>1. q.step = "start"
  BY DEF ReadFacts
<1>2. /\ q \in Asks /\ q.u \in Users
      /\ FactsOn(q.u) \subseteq s /\ k \subseteq FactsOn(q.u)
  BY <1>1, RequestSees DEF Asks
<1>3. Fact("access") \in FactsOn(q.u) <=> (q.u = Owner \/ q.u \in active)
  BY <1>2, FactsAre DEF RecordingInv
<1>4. CASE Allows(CanListMeeting(q.u, TRUE, Owner, active))
  <2> DEFINE n == [q EXCEPT !.step = "facts"]
  <2>1. n \in Asks /\ n.step = "facts"
    BY <1>2 DEF Asks
  <2>2. Go(r, n)
    BY <1>4 DEF ReadFacts
  <2>3. Fact("access") \in s
    BY <1>2, <1>3, <1>4, ListIs
  <2> HIDE DEF n, q, s, k
  <2>4. AskIsTrue(n, s, k, clock)
    BY <2>1, <2>3 DEF AskIsTrue, ReadsAreTrue, Concluded, Inside
  <2> QED BY <1>1, <2>1, <2>2, <2>4, MoveKeeps DEF q, s, k
<1>5. CASE ~Allows(CanListMeeting(q.u, TRUE, Owner, active))
  <2> DEFINE n == Result(q, "unauthorized", FALSE)
  <2>1. /\ n \in Asks /\ n.step = "auditing" /\ n.reason = "unauthorized"
        /\ "open_transcript" \notin n.offers
    BY <1>2, ResultIs DEF Reasons
  <2>2. Go(r, n)
    BY <1>5 DEF ReadFacts
  <2>3. Fact("access") \notin k
    BY <1>2, <1>3, <1>5, ListIs
  <2> HIDE DEF n, q, s, k
  <2>4. AskIsTrue(n, s, k, clock)
    BY <2>1, <2>3 DEF AskIsTrue, ReadsAreTrue, ResultIsTrue, Concluded, Inside
  <2> QED BY <1>1, <2>1, <2>2, <2>4, MoveKeeps DEF q, s, k
<1> QED BY <1>4, <1>5

LEMMA ReadTranscriptKeeps ==
  ASSUME RecordingInv, NEW r \in Requests, ReadTranscript(r), UNCHANGED tables, Observe
  PROVE  RecordingInv'
<1> DEFINE q == ask[r]
           s == seen[r]
           k == kept[r]
           n == [q EXCEPT !.step = "transcript", !.transcript = transcript]
<1>1. q.step = "facts" /\ Go(r, n)
  BY DEF ReadTranscript
<1>2. /\ q \in Asks /\ q.u \in Users /\ AskIsTrue(q, s, k, clock)
      /\ FactsOn(q.u) \subseteq s /\ k \subseteq FactsOn(q.u)
  BY <1>1, RequestSees DEF Asks
<1>3. Fact("transcript") \in FactsOn(q.u) <=> transcript
  BY <1>2, FactsAre DEF RecordingInv
<1>4. n \in Asks /\ n.step = "transcript" /\ n.transcript = transcript
  BY <1>2 DEF Asks, RecordingInv, RecordingTypeOK
<1>5. Fact("access") \in s
  BY <1>1, <1>2 DEF AskIsTrue, ReadsAreTrue, Inside
<1> HIDE DEF n, q, s, k
<1>6. AskIsTrue(n, s, k, clock)
  BY <1>2, <1>3, <1>4, <1>5 DEF AskIsTrue, ReadsAreTrue, Concluded, Inside
<1> QED BY <1>1, <1>4, <1>6, MoveKeeps DEF q, s, k

LEMMA ReadRecordingKeeps ==
  ASSUME RecordingInv, NEW r \in Requests, ReadRecording(r), UNCHANGED tables, Observe
  PROVE  RecordingInv'
<1> DEFINE q == ask[r]
           s == seen[r]
           k == kept[r]
<1>1. q.step = "transcript"
  BY DEF ReadRecording
<1>2. /\ q \in Asks /\ q.u \in Users /\ q.transcript \in BOOLEAN
      /\ AskIsTrue(q, s, k, clock)
      /\ FactsOn(q.u) \subseteq s /\ k \subseteq FactsOn(q.u)
  BY <1>1, RequestSees DEF Asks
<1>3. /\ Fact("recorded") \in FactsOn(q.u) <=> recording # NoRow
      /\ Fact("ready") \in FactsOn(q.u)
           <=> recording # NoRow /\ recording.status = "available"
      /\ \A p \in Plans : <<"requires", p>> \in FactsOn(q.u)
                            <=> recording # NoRow /\ recording.plan = p
  BY <1>2, FactsAre DEF RecordingInv
<1>4. /\ Fact("access") \in s
      /\ IF q.transcript THEN Fact("transcript") \in s ELSE Fact("transcript") \notin k
  BY <1>1, <1>2 DEF AskIsTrue, ReadsAreTrue, Inside
<1>5. ASSUME NEW reason \in {"not_created", "processing"},
             Go(r, Result(q, reason, q.transcript)),
             reason = "not_created" => recording = NoRow,
             reason = "processing" => recording # NoRow /\ recording.status = "processing"
      PROVE  RecordingInv'
  <2> DEFINE n == Result(q, reason, q.transcript)
  <2>1. /\ n \in Asks /\ n.step = "auditing" /\ n.reason = reason
        /\ "open_transcript" \in n.offers <=> q.transcript = TRUE
    <3>1. reason \in Reasons
      BY <1>5 DEF Reasons
    <3> QED BY <1>2, <3>1, RefusalIs
  <2>2. /\ reason = "not_created" => Fact("recorded") \notin k
        /\ reason = "processing" => Fact("ready") \notin k
    BY <1>2, <1>3, <1>5
  <2>3. Go(r, n)
    BY <1>5
  <2> HIDE DEF n, q, s, k
  <2>4. AskIsTrue(n, s, k, clock)
    BY <1>4, <2>1, <2>2 DEF AskIsTrue, ReadsAreTrue, ResultIsTrue, Concluded, Inside
  <2> QED BY <1>1, <2>1, <2>3, <2>4, MoveKeeps DEF q, s, k
<1>6. CASE recording = NoRow
  BY <1>5, <1>6 DEF ReadRecording
<1>7. CASE recording # NoRow /\ recording.status = "processing"
  BY <1>5, <1>7 DEF ReadRecording
<1>8. CASE recording # NoRow /\ recording.status # "processing"
  <2> DEFINE n == [q EXCEPT !.step = "recording", !.recording = recording]
  <2>1. recording \in Recordings /\ recording.status = "available"
        /\ recording.plan \in Plans
    BY <1>8 DEF RecordingInv, RecordingTypeOK, Recordings
  <2>2. /\ n \in Asks /\ n.step = "recording" /\ n.transcript = q.transcript
        /\ n.recording = recording
    BY <1>2, <2>1 DEF Asks
  <2>3. Go(r, n)
    BY <1>8 DEF ReadRecording
  <2>4. /\ Fact("ready") \in s
        /\ <<"requires", recording.plan>> \in s
        /\ \A p \in Plans : <<"requires", p>> \in k => p = recording.plan
    BY <1>2, <1>3, <1>8, <2>1
  <2> HIDE DEF n, q, s, k
  <2>5. AskIsTrue(n, s, k, clock)
    BY <1>4, <2>1, <2>2, <2>4 DEF AskIsTrue, ReadsAreTrue, Concluded, Inside
  <2> QED BY <1>1, <2>2, <2>3, <2>5, MoveKeeps DEF q, s, k
<1> QED BY <1>6, <1>7, <1>8

LEMMA ReadMembershipKeeps ==
  ASSUME RecordingInv, NEW r \in Requests, ReadMembership(r), UNCHANGED tables, Observe
  PROVE  RecordingInv'
<1> DEFINE q == ask[r]
           s == seen[r]
           k == kept[r]
           n == [q EXCEPT !.step = "membership", !.membership = membership[q.u]]
<1>1. q.step = "recording" /\ Go(r, n)
  BY DEF ReadMembership
<1>2. /\ q \in Asks /\ q.u \in Users /\ AskIsTrue(q, s, k, clock)
      /\ FactsOn(q.u) \subseteq s
  BY <1>1, RequestSees DEF Asks
<1>3. membership[q.u] \in Memberships \union {NoRow}
  BY <1>2 DEF RecordingInv, RecordingTypeOK
<1>4. \A p \in Plans : <<"covers", p>> \in FactsOn(q.u) <=> Included(membership[q.u], p)
  BY <1>2, FactsAre DEF RecordingInv
<1>5. \A p \in Plans :
        CanAccessRecording(membership[q.u], p, clock) => <<"covers", p>> \in s
  BY <1>2, <1>3, <1>4, CoversIs DEF RecordingInv
<1>6. /\ n \in Asks /\ n.step = "membership" /\ n.membership = membership[q.u]
      /\ n.transcript = q.transcript /\ n.recording = q.recording
  BY <1>2, <1>3 DEF Asks
<1>7. ReadsAreTrue(q, s, k, clock)
  BY <1>2 DEF AskIsTrue
<1> HIDE DEF n, q, s, k
<1>8. AskIsTrue(n, s, k, clock)
  BY <1>1, <1>5, <1>6, <1>7 DEF AskIsTrue, ReadsAreTrue, Concluded, Inside
<1> QED BY <1>1, <1>6, <1>8, MoveKeeps DEF q, s, k

LEMMA DecideKeeps ==
  ASSUME RecordingInv, NEW r \in Requests, Decide(r), UNCHANGED tables, Observe
  PROVE  RecordingInv'
<1> DEFINE q == ask[r]
           s == seen[r]
           k == kept[r]
           plan == q.recording.plan
<1>1. q.step = "membership"
  BY DEF Decide
<1>2. /\ q \in Asks /\ q.transcript \in BOOLEAN /\ AskIsTrue(q, s, k, clock)
  BY <1>1, RequestSees DEF Asks
<1>3. /\ Fact("access") \in s /\ Fact("ready") \in s
      /\ IF q.transcript THEN Fact("transcript") \in s ELSE Fact("transcript") \notin k
      /\ q.recording \in Recordings /\ <<"requires", plan>> \in s
      /\ \A p \in Plans : <<"requires", p>> \in k => p = plan
      /\ \A p \in Plans :
           CanAccessRecording(q.membership, p, clock) => <<"covers", p>> \in s
  BY <1>1, <1>2 DEF AskIsTrue, ReadsAreTrue, Inside
<1>4. plan \in Plans
  BY <1>3 DEF Recordings
<1>5. CASE CanAccessRecording(q.membership, plan, clock)
  <2> DEFINE n == Result(q, "available", FALSE)
  <2>1. /\ n \in Asks /\ n.step = "auditing" /\ n.reason = "available"
        /\ "open_transcript" \notin n.offers
    BY <1>2, ResultIs DEF Reasons
  <2>2. Go(r, n)
    BY <1>5 DEF Decide
  <2>3. {<<"requires", plan>>, <<"covers", plan>>} \subseteq s
    BY <1>3, <1>4, <1>5
  <2> HIDE DEF n, q, s, k, plan
  <2>4. AskIsTrue(n, s, k, clock)
    BY <1>3, <1>4, <2>1, <2>3
    DEF AskIsTrue, ReadsAreTrue, ResultIsTrue, Concluded, Inside
  <2> QED BY <1>1, <2>1, <2>2, <2>4, MoveKeeps DEF q, s, k
<1>6. CASE ~CanAccessRecording(q.membership, plan, clock)
  <2> DEFINE n == Result(q, "plan_restriction", q.transcript)
  <2>1. /\ n \in Asks /\ n.step = "auditing" /\ n.reason = "plan_restriction"
        /\ "open_transcript" \in n.offers <=> q.transcript = TRUE
    BY <1>2, RefusalIs DEF Reasons
  <2>2. Go(r, n) /\ n.membership = q.membership
    BY <1>2, <1>6 DEF Decide, Asks, Result
  <2>3. \A p \in Plans : <<"requires", p>> \in k
                           => ~CanAccessRecording(q.membership, p, clock)
    BY <1>3, <1>6
  <2> HIDE DEF n, q, s, k, plan
  <2>4. AskIsTrue(n, s, k, clock)
    BY <1>3, <2>1, <2>2, <2>3
    DEF AskIsTrue, ReadsAreTrue, ResultIsTrue, Concluded, Inside
  <2> QED BY <1>1, <2>1, <2>2, <2>4, MoveKeeps DEF q, s, k
<1> QED BY <1>5, <1>6

LEMMA AuditKeeps ==
  ASSUME RecordingInv, NEW r \in Requests, Audit(r), UNCHANGED tables, Observe
  PROVE  RecordingInv'
<1> DEFINE q == ask[r]
           n == [q EXCEPT !.step = "answered"]
<1>1. q.step = "auditing" /\ Go(r, n)
  BY DEF Audit
<1>2. q \in Asks /\ AskIsTrue(q, seen[r], kept[r], clock)
  BY <1>1, RequestSees
<1>3. /\ n \in Asks /\ n.step = "answered" /\ n.reason = q.reason
      /\ n.offers = q.offers /\ n.membership = q.membership
  BY <1>2 DEF Asks
<1>4. ResultIsTrue(q, seen[r], kept[r], clock)
  BY <1>1, <1>2 DEF AskIsTrue, Concluded
<1> HIDE DEF n, q
<1>5. AskIsTrue(n, seen[r], kept[r], clock)
  BY <1>3, <1>4 DEF AskIsTrue, ReadsAreTrue, ResultIsTrue, Inside
<1> QED BY <1>1, <1>3, <1>5, MoveKeeps DEF q

LEMMA BreakKeeps ==
  ASSUME RecordingInv, NEW r \in Requests, Break(r), UNCHANGED tables, Observe
  PROVE  RecordingInv'
<1> DEFINE q == ask[r]
           n == [q EXCEPT !.step = "failed"]
<1>1. q.step # "idle" /\ Go(r, n)
  BY DEF Break
<1>2. n \in Asks /\ n.step = "failed"
  BY <1>1, RequestSees DEF Asks
<1> HIDE DEF n, q
<1>3. AskIsTrue(n, seen[r], kept[r], clock)
  BY <1>2 DEF AskIsTrue, ReadsAreTrue, Concluded, Inside
<1> QED BY <1>1, <1>2, <1>3, MoveKeeps DEF q

LEMMA RecordingStarts ==
  ASSUME RecordingConstants, RecordingInit
  PROVE  RecordingInv
<1>1. NoAsk \in Asks /\ NoAsk.step = "idle" /\ NoAsk.u = Owner
  BY DEF NoAsk, Asks, Reasons, RecordingConstants
<1>2. FactsOn(Owner) \subseteq Facts
  BY DEF FactsOn
<1>3. RecordingTypeOK
  <2>1. /\ active \subseteq Users /\ clock \in 0..MaxTime
    BY DEF RecordingInit, RecordingConstants
  <2>2. transcript \in BOOLEAN /\ recording \in Recordings \union {NoRow}
    BY DEF RecordingInit
  <2>3. membership \in [Users -> Memberships \union {NoRow}]
    BY DEF RecordingInit
  <2>4. /\ ask \in [Requests -> Asks] /\ seen \in [Requests -> SUBSET Facts]
        /\ kept \in [Requests -> SUBSET Facts]
    BY <1>1, <1>2 DEF RecordingInit
  <2> QED BY <2>1, <2>2, <2>3, <2>4 DEF RecordingTypeOK
<1>4. ASSUME NEW r \in Requests
      PROVE  /\ ask[r].step = "idle" <=> ask[r] = NoAsk
             /\ ask[r].step # "idle" => FactsNow[r] \subseteq seen[r]
             /\ kept[r] \subseteq FactsNow[r]
             /\ AskIsTrue(ask[r], seen[r], kept[r], clock)
  <2>1. ask[r] = NoAsk /\ kept[r] = FactsOn(Owner)
    BY DEF RecordingInit
  <2>2. FactsNow[r] = FactsOn(Owner)
    BY <1>1, <2>1 DEF FactsNow
  <2>3. AskIsTrue(ask[r], seen[r], kept[r], clock)
    BY <1>1, <2>1 DEF AskIsTrue, ReadsAreTrue, Concluded, Inside
  <2> QED BY <1>1, <2>1, <2>2, <2>3
<1> QED BY <1>3, <1>4 DEF RecordingInv

\* The recording's availability, for any callers, requests, plans and times: the
\* types, and what every request in progress has found.
THEOREM RecordingInvHolds == RecordingConstants /\ RecordingSpec => []RecordingInv
<1>1. RecordingConstants /\ RecordingInit => RecordingInv
  BY RecordingStarts
<1>2. RecordingInv /\ [RecordingNext]_recordingVars => RecordingInv'
  <2> SUFFICES ASSUME RecordingInv, [RecordingNext]_recordingVars PROVE RecordingInv'
    OBVIOUS
  <2>1. CASE UNCHANGED recordingVars
    BY <2>1 DEF recordingVars, tables, RecordingInv, RecordingTypeOK, RecordingConstants,
      FactsNow, FactsOn, Included, StillRuns
  <2>2. CASE RecordingNext
    <3>1. Observe
      BY <2>2 DEF RecordingNext
    <3>2. CASE TablesNext /\ UNCHANGED ask
      BY <3>1, <3>2, TablesKeepInv
    <3>3. ASSUME NEW r \in Requests, UNCHANGED tables,
                 (\E u \in Users : Arrive(r, u)) \/ RequestStep(r) \/ Break(r)
          PROVE  RecordingInv'
      BY <3>1, <3>3, ArriveKeeps, ReadFactsKeeps, ReadTranscriptKeeps,
        ReadRecordingKeeps, ReadMembershipKeeps, DecideKeeps, AuditKeeps, BreakKeeps
        DEF RequestStep
    <3> QED BY <2>2, <3>2, <3>3 DEF RecordingNext
  <2> QED BY <2>1, <2>2
<1> QED BY <1>1, <1>2, PTL DEF RecordingSpec

\* Whatever changes between the SELECTs of a request, what its answer gives rests on
\* facts of the request's own time: access, a finished recording and a membership
\* that was running and included the plan; the transcript only to a participant.
THEOREM AvailabilityIsGrounded == RecordingConstants /\ RecordingSpec => []AnswersAreGrounded
<1>1. RecordingInv => AnswersAreGrounded
  BY DEF RecordingInv, AskIsTrue, ResultIsTrue, Concluded, AnswersAreGrounded, Answered
<1> QED BY <1>1, RecordingInvHolds, PTL

\* What holds all through a request decides it: no denial by a change between two
\* SELECTs of what was not in question.
THEOREM DenialsAreGrounded == RecordingConstants /\ RecordingSpec => []SteadyFactsDecide
<1>1. ASSUME RecordingInv, NEW r \in Requests, Answered(r),
             ask[r].reason = "plan_restriction", NEW p \in Plans,
             {<<"requires", p>>, <<"covers", p>>} \subseteq kept[r]
      PROVE  membership[ask[r].u] # ask[r].membership
  <2>1. /\ ask[r] \in Asks /\ ask[r].u \in Users
        /\ kept[r] \subseteq FactsOn(ask[r].u)
        /\ AskIsTrue(ask[r], seen[r], kept[r], clock)
    BY <1>1, RequestSees DEF Asks, Answered
  <2>2. ~CanAccessRecording(ask[r].membership, p, clock)
    BY <1>1, <2>1 DEF AskIsTrue, ResultIsTrue, Concluded, Answered
  <2>3. Included(membership[ask[r].u], p)
    BY <1>1, <2>1, FactsAre DEF RecordingInv
  <2>4. membership[ask[r].u] \in Memberships \union {NoRow}
    BY <1>1, <2>1 DEF RecordingInv, RecordingTypeOK
  <2>5. CanAccessRecording(membership[ask[r].u], p, clock)
    BY <1>1, <2>3, <2>4, CoversIs DEF RecordingInv
  <2> QED BY <2>2, <2>5
<1>2. ASSUME RecordingInv, NEW r \in Requests, Answered(r)
      PROVE  ResultIsTrue(ask[r], seen[r], kept[r], clock)
  BY <1>2 DEF RecordingInv, AskIsTrue, Concluded, Answered
<1>3. RecordingInv => SteadyFactsDecide
  BY <1>1, <1>2 DEF SteadyFactsDecide, ResultIsTrue
<1> QED BY <1>3, RecordingInvHolds, PTL

-----------------------------------------------------------------------------
(***************************************************************************)
(* The validation of media.  A body still being read is within the limit,  *)
(* and only a file that was looked at has a verdict and a row.             *)
(***************************************************************************)
\* r was answered before its body was looked at.
RefusedUnseen(r, t) ==
  /\ r.file = Body!NoFile /\ t = {}
  /\ r.reply \in {400, 401, 403, 413, 422}
  /\ r.got > MaxAudio => r.reply = 413
  /\ r.reply = 413 => r.length = "above" \/ r.got > MaxAudio

\* r was answered with the verdict on its file, or for want of a row.
Judged(r, t) ==
  /\ r.file \in Body!Files /\ r.got <= MaxAudio
  /\ LET reason == Body!Evaluate(r.file, r.got) IN
     \/ r.reply = 500 /\ t = {}
     \/ r.reply = Body!ReplyFor(reason) /\ t = {Body!Row(reason)}

UploadIsTrue(r, t) ==
  /\ r.step \in {"idle", "reading", "screening", "inspecting", "gone"} =>
       r.reply = Body!NoReply /\ t = {} /\ r.file = Body!NoFile /\ r.got <= MaxAudio
  /\ r.step = "auditing" =>
       /\ r.reply = Body!NoReply /\ t = {} /\ r.got <= MaxAudio
       /\ r.file \in Body!Files /\ r.reason = Body!Evaluate(r.file, r.got)
  /\ r.step = "replied" => RefusedUnseen(r, t) \/ Judged(r, t)

UploadRecords ==
  [step : {"idle", "reading", "screening", "inspecting", "auditing", "replied", "gone"},
   length : Body!Lengths, got : 0..(MaxAudio + MaxChunk),
   file : Body!Files \union {Body!NoFile}, reason : Body!Reasons,
   reply : Body!Replies \union {Body!NoReply}]
TrailRows == [status : {"validated", "rejected"}, code : Body!Reasons]

MediaInv ==
  /\ Body!MediaConstants
  /\ Body!MediaTypeOK
  /\ \A u \in Uploads : UploadIsTrue(upload[u], trail[u])

\* The policy validates a file exactly when it is right, and calls too large only
\* an image above its limit.
LEMMA VerdictIs ==
  ASSUME Body!MediaConstants, NEW f \in Body!Files, NEW size \in 0..MaxAudio
  PROVE  /\ Body!Evaluate(f, size) \in Body!Reasons
         /\ Body!Evaluate(f, size) = "media_validated" <=> Body!Right(f, size)
         /\ Body!Evaluate(f, size) = "media_too_large" =>
              f.signature \in Body!Images /\ size > MaxImage
<1>1. /\ f.safeName \in BOOLEAN
      /\ f.extension \in {".jpg", ".jpeg", ".png", ".webp", ".wav", "other"}
      /\ f.declared \in Body!Mimes /\ f.signature \in Body!Mimes
      /\ f.duration \in 0..(MaxDuration + 2)
      /\ MaxImage \in Nat /\ MaxAudio \in Nat /\ MaxDuration \in Nat
  BY DEF Body!Files, Body!Durations, Body!NoDuration, Body!MediaConstants
<1>2. /\ Body!Supported = {"image/jpeg", "image/png", "image/webp", "audio/wav"}
      /\ Body!Images = {"image/jpeg", "image/png", "image/webp"}
      /\ Body!Mimes = {"image/jpeg", "image/png", "image/webp", "audio/wav", "other"}
      /\ Body!ExtensionsOf["image/jpeg"] = {".jpg", ".jpeg"}
      /\ Body!ExtensionsOf["image/png"] = {".png"}
      /\ Body!ExtensionsOf["image/webp"] = {".webp"}
      /\ Body!ExtensionsOf["audio/wav"] = {".wav"}
  BY DEF Body!Supported, Body!Images, Body!Mimes, Body!ExtensionsOf
<1>3. CASE ~(/\ f.safeName /\ size # 0 /\ f.declared \in Body!Supported
             /\ f.declared = f.signature
             /\ f.extension \in Body!ExtensionsOf[f.signature])
  BY <1>1, <1>2, <1>3 DEF Body!Evaluate, Body!Right, Body!Reasons, Body!TypeReasons
<1>4. CASE /\ f.safeName /\ size # 0 /\ f.declared \in Body!Supported
           /\ f.declared = f.signature
           /\ f.extension \in Body!ExtensionsOf[f.signature]
  <2>1. Body!Evaluate(f, size) =
          IF size > Body!MaximumSize(f.signature) THEN "media_too_large"
          ELSE IF f.signature \in Body!Images THEN "media_validated"
          ELSE IF f.duration = MaxDuration + 2 THEN "invalid_audio_container"
          ELSE IF f.duration > MaxDuration THEN "audio_duration_exceeded"
          ELSE "media_validated"
    BY <1>4 DEF Body!Evaluate, Body!NoDuration
  <2>2. CASE f.signature \in Body!Images
    BY <1>1, <1>2, <1>4, <2>1, <2>2
    DEF Body!MaximumSize, Body!Right, Body!Reasons, Body!TypeReasons
  <2>3. CASE f.signature = "audio/wav"
    BY <1>1, <1>2, <1>4, <2>1, <2>3
    DEF Body!MaximumSize, Body!Right, Body!Reasons, Body!TypeReasons
  <2> QED BY <1>2, <1>4, <2>2, <2>3
<1> QED BY <1>3, <1>4

\* One upload moves and its row is written.
LEMMA UploadMoves ==
  ASSUME MediaInv, NEW u \in Uploads, NEW n, NEW t,
         upload' = [upload EXCEPT ![u] = n], trail' = [trail EXCEPT ![u] = t],
         n \in UploadRecords, t \subseteq TrailRows, UploadIsTrue(n, t)
  PROVE  MediaInv'
<1>1. Body!MediaTypeOK'
  BY DEF MediaInv, Body!MediaTypeOK, UploadRecords, TrailRows
<1>2. ASSUME NEW x \in Uploads PROVE UploadIsTrue(upload'[x], trail'[x])
  BY DEF MediaInv, Body!MediaTypeOK
<1> QED BY <1>1, <1>2 DEF MediaInv, Body!MediaConstants

\* An upload and its rows, as the invariant has them.
LEMMA UploadIs ==
  ASSUME MediaInv, NEW u \in Uploads
  PROVE  /\ upload[u] \in UploadRecords /\ trail[u] \subseteq TrailRows
         /\ UploadIsTrue(upload[u], trail[u])
         /\ trail = [trail EXCEPT ![u] = trail[u]]
         /\ MaxAudio \in Nat /\ MaxChunk \in Nat
BY DEF MediaInv, Body!MediaTypeOK, Body!MediaConstants, UploadRecords, TrailRows

\* One upload moves and leaves its rows alone.
LEMMA UploadMovesOn ==
  ASSUME MediaInv, NEW u \in Uploads, NEW n \in UploadRecords,
         Body!Go(u, n), UNCHANGED trail, UploadIsTrue(n, trail[u])
  PROVE  MediaInv'
BY UploadIs, UploadMoves DEF Body!Go

LEMMA AnswerIs ==
  ASSUME NEW r \in UploadRecords, NEW code \in Body!Replies
  PROVE  LET n == Body!Answer(r, code) IN
         /\ n \in UploadRecords /\ n.step = "replied" /\ n.reply = code
         /\ n.file = r.file /\ n.got = r.got /\ n.length = r.length
BY DEF Body!Answer, UploadRecords

\* An answer to a body that was not looked at.
LEMMA RefusalKeeps ==
  ASSUME MediaInv, NEW u \in Uploads, NEW r \in UploadRecords,
         NEW code \in {400, 401, 403, 413, 422},
         Body!Go(u, Body!Answer(r, code)), UNCHANGED trail,
         r.file = Body!NoFile, trail[u] = {},
         r.got > MaxAudio => code = 413,
         code = 413 => r.length = "above" \/ r.got > MaxAudio
  PROVE  MediaInv'
<1> DEFINE n == Body!Answer(r, code)
<1>1. /\ n \in UploadRecords /\ n.step = "replied" /\ n.reply = code
      /\ n.file = r.file /\ n.got = r.got /\ n.length = r.length
  <2>1. code \in Body!Replies
    BY DEF Body!Replies
  <2> QED BY <2>1, AnswerIs
<1> HIDE DEF n
<1>2. UploadIsTrue(n, trail[u])
  BY <1>1 DEF UploadIsTrue, RefusedUnseen
<1> QED BY <1>1, <1>2, UploadMovesOn DEF n

LEMMA ReceiveHeadersKeeps ==
  ASSUME MediaInv, NEW u \in Uploads, NEW length \in Body!Lengths,
         Body!ReceiveHeaders(u, length)
  PROVE  MediaInv'
<1> DEFINE r == [upload[u] EXCEPT !.length = length]
<1>1. /\ upload[u].step = "idle" /\ upload[u] \in UploadRecords /\ UNCHANGED trail
      /\ trail[u] = {} /\ MaxAudio \in Nat
      /\ upload[u].reply = Body!NoReply /\ upload[u].file = Body!NoFile
      /\ upload[u].got <= MaxAudio
  BY UploadIs DEF Body!ReceiveHeaders, UploadIsTrue
<1>2. /\ r \in UploadRecords /\ r.file = Body!NoFile /\ r.got <= MaxAudio
      /\ r.length = length /\ ~(r.got > MaxAudio) /\ r.reply = Body!NoReply
  BY <1>1 DEF UploadRecords
<1>3. CASE length \in {"unreadable", "negative"}
  <2>1. Body!Go(u, Body!Answer(r, 400))
    BY <1>3 DEF Body!ReceiveHeaders
  <2> HIDE DEF r
  <2> QED BY <1>1, <1>2, <2>1, RefusalKeeps
<1>4. CASE length = "above"
  <2>1. Body!Go(u, Body!Answer(r, 413))
    BY <1>4 DEF Body!ReceiveHeaders
  <2> HIDE DEF r
  <2> QED BY <1>1, <1>2, <1>4, <2>1, RefusalKeeps
<1>5. CASE length \notin {"unreadable", "negative", "above"}
  <2> DEFINE n == [r EXCEPT !.step = "reading"]
  <2>1. Body!Go(u, n)
    BY <1>5 DEF Body!ReceiveHeaders
  <2>2. /\ n \in UploadRecords /\ n.step = "reading" /\ n.file = Body!NoFile
        /\ n.got <= MaxAudio /\ n.reply = Body!NoReply
    BY <1>2 DEF UploadRecords
  <2> HIDE DEF n, r
  <2>3. UploadIsTrue(n, trail[u])
    BY <1>1, <2>2 DEF UploadIsTrue
  <2> QED BY <1>1, <2>1, <2>2, <2>3, UploadMovesOn
<1> QED BY <1>3, <1>4, <1>5

\* The buffer: what was within the limit has one chunk more.
LEMMA ReceiveChunkKeeps ==
  ASSUME MediaInv, NEW u \in Uploads, NEW m \in 1..MaxChunk, Body!ReceiveChunk(u, m)
  PROVE  MediaInv'
<1> DEFINE r == [upload[u] EXCEPT !.got = @ + m]
<1>1. /\ upload[u].step = "reading" /\ upload[u] \in UploadRecords /\ UNCHANGED trail
      /\ trail[u] = {} /\ MaxAudio \in Nat /\ MaxChunk \in Nat
      /\ upload[u].reply = Body!NoReply /\ upload[u].file = Body!NoFile
      /\ upload[u].got <= MaxAudio /\ upload[u].got \in Nat
  BY UploadIs DEF Body!ReceiveChunk, UploadIsTrue, UploadRecords
<1>2. /\ r \in UploadRecords /\ r.file = Body!NoFile /\ r.got \in Nat
      /\ r.step = "reading" /\ r.reply = Body!NoReply
  BY <1>1 DEF UploadRecords
<1>3. CASE r.got > MaxAudio
  <2>1. Body!Go(u, Body!Answer(r, 413))
    BY <1>3 DEF Body!ReceiveChunk
  <2> HIDE DEF r
  <2> QED BY <1>1, <1>2, <1>3, <2>1, RefusalKeeps
<1>4. CASE ~(r.got > MaxAudio)
  <2>1. Body!Go(u, r)
    BY <1>4 DEF Body!ReceiveChunk
  <2> HIDE DEF r
  <2>2. UploadIsTrue(r, trail[u])
    BY <1>1, <1>2, <1>4 DEF UploadIsTrue
  <2> QED BY <1>1, <1>2, <2>1, <2>2, UploadMovesOn
<1> QED BY <1>3, <1>4

\* The body ends, or its client is gone; the checks that follow refuse it or not.
LEMMA ScreeningKeeps ==
  ASSUME MediaInv, NEW u \in Uploads,
         Body!EndOfBody(u) \/ Body!Disconnect(u) \/ Body!Screen(u)
  PROVE  MediaInv'
<1> DEFINE r == upload[u]
<1>1. /\ r.step \in {"reading", "screening"} /\ r \in UploadRecords /\ UNCHANGED trail
      /\ trail[u] = {} /\ MaxAudio \in Nat /\ r.got \in Nat
      /\ r.reply = Body!NoReply /\ r.file = Body!NoFile /\ r.got <= MaxAudio
  BY UploadIs DEF Body!EndOfBody, Body!Disconnect, Body!Screen, UploadIsTrue, UploadRecords
<1>2. ASSUME NEW s \in {"screening", "inspecting", "gone"},
             Body!Go(u, [r EXCEPT !.step = s])
      PROVE  MediaInv'
  <2> DEFINE n == [r EXCEPT !.step = s]
  <2>1. /\ n \in UploadRecords /\ n.step = s /\ n.file = Body!NoFile
        /\ n.got <= MaxAudio /\ n.reply = Body!NoReply
    BY <1>1 DEF UploadRecords
  <2>2. Body!Go(u, n)
    BY <1>2
  <2> HIDE DEF n, r
  <2>3. UploadIsTrue(n, trail[u])
    BY <1>1, <2>1 DEF UploadIsTrue
  <2> QED BY <1>1, <2>1, <2>2, <2>3, UploadMovesOn
<1>3. ASSUME NEW flaw \in Body!Flaws, Body!Go(u, Body!Answer(r, Body!Screening[flaw]))
      PROVE  MediaInv'
  <2>1. Body!Screening[flaw] \in {400, 401, 403, 422}
    BY <1>3 DEF Body!Flaws, Body!Screening
  <2> HIDE DEF r
  <2> QED BY <1>1, <1>3, <2>1, RefusalKeeps
<1> QED BY <1>2, <1>3 DEF Body!EndOfBody, Body!Disconnect, Body!Screen

LEMMA InspectKeeps ==
  ASSUME MediaInv, NEW u \in Uploads, NEW f \in Media, Body!Inspect(u, f)
  PROVE  MediaInv'
<1> DEFINE r == upload[u]
           d == Body!Inspected(f, r.got)
           n == [r EXCEPT !.step = "auditing", !.file = d,
                          !.reason = Body!Evaluate(d, r.got)]
<1>1. /\ r.step = "inspecting" /\ r \in UploadRecords /\ UNCHANGED trail
      /\ trail[u] = {} /\ MaxAudio \in Nat /\ r.got \in 0..MaxAudio
      /\ r.reply = Body!NoReply /\ Body!Go(u, n)
  BY UploadIs DEF Body!Inspect, UploadIsTrue, UploadRecords
<1>2. f \in Body!Files /\ Body!MediaConstants /\ MaxDuration \in Nat
  BY DEF MediaInv, Body!MediaConstants
<1>3. d \in Body!Files
  <2>1. "other" \in Body!Mimes /\ Body!NoDuration \in Body!Durations
    BY <1>2 DEF Body!Mimes, Body!Durations, Body!NoDuration
  <2> QED BY <1>2, <2>1 DEF Body!Inspected, Body!Files
<1> HIDE DEF d
<1>4. Body!Evaluate(d, r.got) \in Body!Reasons
  BY <1>1, <1>2, <1>3, VerdictIs
<1>5. /\ n \in UploadRecords /\ n.step = "auditing" /\ n.file = d /\ n.got = r.got
      /\ n.reason = Body!Evaluate(d, r.got) /\ n.reply = Body!NoReply
  BY <1>1, <1>3, <1>4 DEF UploadRecords
<1> HIDE DEF n, r
<1>6. UploadIsTrue(n, trail[u])
  BY <1>1, <1>3, <1>5 DEF UploadIsTrue
<1> QED BY <1>1, <1>5, <1>6, UploadMovesOn

\* The verdict is told with its row, or not told for want of it.
LEMMA AuditVerdictKeeps ==
  ASSUME MediaInv, NEW u \in Uploads, Body!Audit(u) \/ Body!AuditFails(u)
  PROVE  MediaInv'
<1> DEFINE r == upload[u]
           reason == Body!Evaluate(r.file, r.got)
<1>1. /\ r.step = "auditing" /\ r \in UploadRecords /\ trail[u] = {}
      /\ MaxAudio \in Nat /\ r.got \in 0..MaxAudio /\ r.file \in Body!Files
      /\ r.reason = reason
  BY UploadIs DEF Body!Audit, Body!AuditFails, UploadIsTrue, UploadRecords
<1>2. reason \in Body!Reasons
  BY <1>1, VerdictIs DEF MediaInv
<1>3. CASE Body!Audit(u)
  <2> DEFINE n == Body!Answer(r, Body!ReplyFor(reason))
             t == {Body!Row(reason)}
  <2>1. /\ upload' = [upload EXCEPT ![u] = n] /\ trail' = [trail EXCEPT ![u] = t]
    BY <1>1, <1>3 DEF Body!Audit, Body!Go
  <2>2. Body!ReplyFor(reason) \in Body!Replies
    BY DEF Body!ReplyFor, Body!Replies
  <2>3. t \subseteq TrailRows
    BY <1>2 DEF Body!Row, TrailRows
  <2> HIDE DEF t, reason
  <2>4. /\ n \in UploadRecords /\ n.step = "replied" /\ n.file = r.file
        /\ n.got = r.got /\ n.reply = Body!ReplyFor(reason)
    BY <1>1, <2>2, AnswerIs
  <2> HIDE DEF n, r
  <2>5. UploadIsTrue(n, t)
    BY <1>1, <2>4 DEF UploadIsTrue, Judged, t, reason
  <2> QED BY <2>1, <2>3, <2>4, <2>5, UploadMoves
<1>4. CASE Body!AuditFails(u)
  <2> DEFINE n == Body!Answer(r, 500)
  <2>1. Body!Go(u, n) /\ UNCHANGED trail
    BY <1>4 DEF Body!AuditFails
  <2> HIDE DEF reason
  <2>2. /\ n \in UploadRecords /\ n.step = "replied" /\ n.file = r.file
        /\ n.got = r.got /\ n.reply = 500
    <3>1. 500 \in Body!Replies
      BY DEF Body!Replies
    <3> QED BY <1>1, <3>1, AnswerIs
  <2> HIDE DEF n, r
  <2>3. UploadIsTrue(n, trail[u])
    BY <1>1, <2>2 DEF UploadIsTrue, Judged
  <2> QED BY <2>1, <2>2, <2>3, UploadMovesOn
<1> QED BY <1>3, <1>4

\* The validation of media, for any uploads, files and limits: the types, and what
\* each upload has come to.
THEOREM MediaInvHolds == Body!MediaConstants /\ Body!Spec => []MediaInv
<1>1. Body!MediaConstants /\ Body!Init => MediaInv
  <2> SUFFICES ASSUME Body!MediaConstants, Body!Init PROVE MediaInv
    OBVIOUS
  <2>1. MaxAudio \in Nat /\ MaxChunk \in Nat
    BY DEF Body!MediaConstants
  <2>2. /\ Body!Fresh \in UploadRecords /\ Body!Fresh.step = "idle"
        /\ Body!Fresh.reply = Body!NoReply /\ Body!Fresh.file = Body!NoFile
        /\ Body!Fresh.got <= MaxAudio
    BY <2>1 DEF Body!Fresh, UploadRecords, Body!Lengths, Body!Reasons
  <2>3. Body!MediaTypeOK
    BY <2>2 DEF Body!Init, Body!MediaTypeOK, UploadRecords
  <2>4. ASSUME NEW u \in Uploads PROVE UploadIsTrue(upload[u], trail[u])
    BY <2>2 DEF Body!Init, UploadIsTrue
  <2> QED BY <2>3, <2>4 DEF MediaInv
<1>2. MediaInv /\ [Body!Next]_(Body!vars) => MediaInv'
  <2> SUFFICES ASSUME MediaInv, [Body!Next]_(Body!vars) PROVE MediaInv'
    OBVIOUS
  <2>1. CASE UNCHANGED Body!vars
    BY <2>1 DEF Body!vars, MediaInv, Body!MediaTypeOK, Body!MediaConstants
  <2>2. CASE Body!Next
    BY <2>2, ReceiveHeadersKeeps, ReceiveChunkKeeps, ScreeningKeeps, InspectKeeps,
      AuditVerdictKeeps DEF Body!Next, Body!ServerStep
  <2> QED BY <2>1, <2>2
<1> QED BY <1>1, <1>2, PTL DEF Body!Spec

\* A body never outgrows the limit by more than a chunk, and what is above the
\* limit is refused without being looked at (get_bounded_media_body).
THEOREM BodiesAreBounded == Body!MediaConstants /\ Body!Spec => []BufferIsBounded
<1>1. MediaInv => BufferIsBounded
  <2> SUFFICES ASSUME MediaInv, NEW u \in Uploads
               PROVE  /\ upload[u].got <= MaxAudio + MaxChunk
                      /\ upload[u].got > MaxAudio =>
                           upload[u].reply = 413 /\ upload[u].file = Body!NoFile
    BY DEF BufferIsBounded, Body!BufferIsBounded
  <2>1. /\ upload[u] \in UploadRecords /\ UploadIsTrue(upload[u], trail[u])
        /\ MaxAudio \in Nat /\ MaxChunk \in Nat
    BY UploadIs
  <2> QED BY <2>1 DEF UploadIsTrue, UploadRecords, RefusedUnseen, Judged
<1> QED BY <1>1, MediaInvHolds, PTL

\* Files are not the mark of no file.
LEMMA FilesAreFiles == Body!NoFile \notin Body!Files
BY DEF Body!NoFile, Body!Files

\* A file that was looked at, and how it was answered: its row was lost, or its
\* verdict was told.
RowLost(r, t) ==
  /\ r.file \in Body!Files \ {Body!NoFile} /\ r.got \in 0..MaxAudio
  /\ r.reply = 500 /\ t = {}
VerdictTold(r, t) ==
  LET reason == Body!Evaluate(r.file, r.got) IN
  /\ r.file \in Body!Files \ {Body!NoFile} /\ r.got \in 0..MaxAudio
  /\ t = {Body!Row(reason)}
  /\ r.reply \in {200, 400, 413, 415}
  /\ r.reply = 200 <=> reason = "media_validated"
  /\ r.reply = 413 <=> reason = "media_too_large"

LEMMA RepliedIs ==
  ASSUME MediaInv, NEW u \in Uploads, upload[u].step = "replied"
  PROVE  \/ RefusedUnseen(upload[u], trail[u])
         \/ RowLost(upload[u], trail[u])
         \/ VerdictTold(upload[u], trail[u])
<1>1. /\ upload[u] \in UploadRecords /\ UploadIsTrue(upload[u], trail[u])
      /\ MaxAudio \in Nat
  BY UploadIs
<1>2. upload[u].got \in Nat
  BY <1>1 DEF UploadRecords
<1>3. ASSUME NEW reason
      PROVE  /\ Body!ReplyFor(reason) \in {200, 400, 413, 415}
             /\ Body!ReplyFor(reason) = 200 <=> reason = "media_validated"
             /\ Body!ReplyFor(reason) = 413 <=> reason = "media_too_large"
  BY DEF Body!ReplyFor, Body!TypeReasons
<1> QED BY <1>1, <1>2, <1>3, FilesAreFiles DEF UploadIsTrue, Judged, RowLost, VerdictTold

\* Only a right medium is validated, a right one that was looked at is refused only
\* for want of an audit row, and 413 means too large (MediaValidationPolicy.evaluate
\* and _raise_validation_error).
THEOREM VerdictsAreExact == Body!MediaConstants /\ Body!Spec => []RepliesAreExact
<1>1. MediaInv => RepliesAreExact
  <2> SUFFICES ASSUME MediaInv, NEW u \in Uploads
               PROVE  LET r == upload[u]
                          looked == r.file # Body!NoFile
                      IN /\ r.reply = 200 => looked /\ Body!Right(r.file, r.got)
                         /\ r.step = "replied" /\ looked /\ Body!Right(r.file, r.got)
                              => r.reply \in {200, 500}
                         /\ r.reply = 413 =>
                              \/ r.length = "above"
                              \/ r.got > MaxAudio
                              \/ looked /\ r.file.signature \in Body!Images
                                        /\ r.got > MaxImage
    BY DEF RepliesAreExact, Body!RepliesAreExact
  <2>1. upload[u].step # "replied" => upload[u].reply \notin {200, 413}
    BY UploadIs DEF UploadIsTrue, UploadRecords, Body!NoReply
  <2>2. CASE upload[u].step = "replied"
    <3>1. upload[u].file \in Body!Files /\ upload[u].got \in 0..MaxAudio =>
            LET reason == Body!Evaluate(upload[u].file, upload[u].got) IN
            /\ reason = "media_validated" <=> Body!Right(upload[u].file, upload[u].got)
            /\ reason = "media_too_large" =>
                 upload[u].file.signature \in Body!Images /\ upload[u].got > MaxImage
      BY VerdictIs DEF MediaInv
    <3> QED BY <2>2, <3>1, RepliedIs DEF RefusedUnseen, RowLost, VerdictTold
  <2> QED BY <2>1, <2>2
<1> QED BY <1>1, MediaInvHolds, PTL

\* The trail has the verdict of every medium whose verdict was told, and nothing of
\* the others (MediaValidationService.validate).
THEOREM TrailIsExact == Body!MediaConstants /\ Body!Spec => []TrailTellsVerdict
<1>1. MediaInv => TrailTellsVerdict
  <2> SUFFICES ASSUME MediaInv, NEW u \in Uploads
               PROVE  LET r == upload[u]
                          told == r.file # Body!NoFile /\ r.step = "replied"
                                    /\ r.reply # 500
                      IN /\ {row.status : row \in trail[u]} =
                              (IF ~told THEN {}
                               ELSE IF r.reply = 200 THEN {"validated"} ELSE {"rejected"})
                         /\ \A row \in trail[u] :
                              row.code = "media_too_large" <=> r.reply = 413
    BY DEF TrailTellsVerdict, Body!TrailTellsVerdict
  <2>1. CASE upload[u].step # "replied"
    <3>1. trail[u] = {}
      BY <2>1, UploadIs DEF UploadIsTrue, UploadRecords
    <3> QED BY <2>1, <3>1
  <2>2. CASE upload[u].step = "replied"
    <3> DEFINE r == upload[u]
               reason == Body!Evaluate(r.file, r.got)
    <3>1. CASE RefusedUnseen(r, trail[u]) \/ RowLost(r, trail[u])
      BY <3>1 DEF RefusedUnseen, RowLost
    <3>2. CASE VerdictTold(r, trail[u])
      <4>1. /\ {row.status : row \in trail[u]} = {Body!Row(reason).status}
            /\ \A row \in trail[u] : row.code = Body!Row(reason).code
            /\ r.file # Body!NoFile /\ r.reply # 500
            /\ r.reply = 200 <=> reason = "media_validated"
            /\ r.reply = 413 <=> reason = "media_too_large"
        BY <3>2 DEF VerdictTold
      <4>2. /\ Body!Row(reason).code = reason
            /\ Body!Row(reason).status =
                 IF reason = "media_validated" THEN "validated" ELSE "rejected"
        BY DEF Body!Row
      <4> HIDE DEF reason
      <4> QED BY <2>2, <4>1, <4>2
    <3> QED BY <2>2, <3>1, <3>2, RepliedIs
  <2> QED BY <2>1, <2>2
<1> QED BY <1>1, MediaInvHolds, PTL

-----------------------------------------------------------------------------
(***************************************************************************)
(* The seed script.  A run has found or made what it has passed; rows of a *)
(* meeting have their meeting; and while no two runs were ever at work at  *)
(* once, what a run is about to write is still missing, and what it is     *)
(* about to update is there.                                               *)
(***************************************************************************)
\* In the rows R there is the item, of meeting m if it is a meeting's.
Found(item, m, R) ==
  \E row \in R :
    /\ row.item = item
    /\ item \in Seed!OfMeeting \union {"meeting"} => row.of = m

\* What is found in R is found in S.
Keeps(R, S) ==
  \A a \in R : \E b \in S :
    /\ b.item = a.item
    /\ a.item \in Seed!OfMeeting \union {"meeting"} => b.of = a.of

PastIsFound(q, R) ==
  \A i \in 1..9 :
    i < q.at \/ q.step = "done" => Found(Seed!Items[i], q.meeting, R)

AloneIsOrderly ==
  /\ \A r, s \in Runs : Seed!Running(r) /\ Seed!Running(s) => r = s
  /\ \A r \in Runs : run[r].step = "writing" => ~Seed!Present(r)
  /\ \A r \in Runs : run[r].step = "updating" => Seed!Present(r)
  /\ \A r \in Runs : run[r].step # "failed"
  /\ \A a, b \in rows : a.item = b.item => a = b

SeedInv ==
  /\ Seed!SeedTypeOK
  /\ \A r \in Runs : PastIsFound(run[r], rows)
  /\ \A a \in rows : a.item \in Seed!OfMeeting => Found("meeting", a.of, rows)
  /\ \A r \in Runs : run[r].step = "updating" => Seed!ItemOf(r) \in Seed!Saved
  /\ alone => AloneIsOrderly

RunRecords ==
  [step : {"idle", "looking", "writing", "updating", "done", "failed", "dead"},
   at : 1..9, meeting : Runs \union {Demo}]

\* The items in their order: the meeting is the third and its own four follow.
LEMMA ItemsAre ==
  /\ \A i \in 1..9 :
       /\ Seed!Items[i] \in Seed!ItemNames
       /\ Seed!Items[i] = "meeting" <=> i = 3
       /\ Seed!Items[i] \in Seed!OfMeeting <=> i \in 4..7
  /\ \A item \in Seed!ItemNames : \E i \in 1..9 : item = Seed!Items[i]
  /\ "meeting" \notin Seed!OfMeeting
BY DEF Seed!Items, Seed!ItemNames, Seed!OfMeeting, Seed!Last

\* A run as the invariant has it.
LEMMA RunIs ==
  ASSUME SeedInv, NEW r \in Runs
  PROVE  /\ run[r] \in RunRecords /\ run[r].at \in 1..9 /\ PastIsFound(run[r], rows)
         /\ run \in [Runs -> RunRecords] /\ Seed!ItemOf(r) = Seed!Items[run[r].at]
         /\ Seed!ItemOf(r) \in Seed!ItemNames
BY ItemsAre DEF SeedInv, Seed!SeedTypeOK, RunRecords, Seed!Meetings, Seed!Last, Seed!ItemOf

\* A run whose item is there goes on to the next.
LEMMA GoesOn ==
  ASSUME NEW q \in RunRecords, NEW R, PastIsFound(q, R), q.step \in {"looking", "writing", "updating"},
         NEW m \in Runs \union {Demo}, m = q.meeting \/ q.at = 3,
         Found(Seed!Items[q.at], m, R)
  PROVE  LET n == Seed!Advance([q EXCEPT !.meeting = m]) IN
         /\ n \in RunRecords /\ PastIsFound(n, R)
         /\ n.step \in {"looking", "done"} /\ n.meeting = m
<1> DEFINE n == Seed!Advance([q EXCEPT !.meeting = m])
<1>1. /\ n \in RunRecords /\ n.meeting = m /\ q.at \in 1..9
      /\ q.at = 9 => n.step = "done" /\ n.at = 9
      /\ q.at # 9 => n.step = "looking" /\ n.at = q.at + 1
  <2> DEFINE p == [q EXCEPT !.meeting = m]
  <2>1. p \in RunRecords /\ p.at = q.at /\ p.meeting = m /\ q.at \in 1..9
    BY DEF RunRecords
  <2> HIDE DEF p
  <2>2. CASE q.at = 9
    <3>1. Seed!Advance(p) = [p EXCEPT !.step = "done"]
      BY <2>1, <2>2 DEF Seed!Advance, Seed!Last
    <3> QED BY <2>1, <2>2, <3>1 DEF RunRecords, p
  <2>3. CASE q.at # 9
    <3>1. Seed!Advance(p) = [p EXCEPT !.step = "looking", !.at = @ + 1]
      BY <2>1, <2>3 DEF Seed!Advance, Seed!Last
    <3>2. q.at + 1 \in 1..9
      BY <2>1, <2>3
    <3> QED BY <2>1, <2>3, <3>1, <3>2 DEF RunRecords, p
  <2> QED BY <2>2, <2>3
<1> HIDE DEF n
<1>2. ASSUME NEW i \in 1..9, i < n.at \/ n.step = "done"
      PROVE  Found(Seed!Items[i], n.meeting, R)
  <2>1. i < q.at \/ i = q.at
    BY <1>1, <1>2
  <2>2. CASE i = q.at
    BY <1>1, <2>2
  <2>3. CASE i < q.at
    <3>1. Found(Seed!Items[i], q.meeting, R)
      BY <2>3 DEF PastIsFound
    <3>2. m = q.meeting \/ Seed!Items[i] \notin Seed!OfMeeting \union {"meeting"}
      BY <1>1, <2>3, ItemsAre
    <3> QED BY <1>1, <3>1, <3>2 DEF Found
  <2> QED BY <2>1, <2>2, <2>3
<1> QED BY <1>1, <1>2 DEF PastIsFound, n

\* What was found stays found.
LEMMA FoundStays ==
  ASSUME NEW q, NEW R, PastIsFound(q, R), NEW S, Keeps(R, S)
  PROVE  PastIsFound(q, S)
BY DEF PastIsFound, Found, Keeps

\* Rows of a meeting keep theirs.
LEMMA MeetingsStay ==
  ASSUME SeedInv, Keeps(rows, rows'),
         \A a \in rows' \ rows :
           a.item \in Seed!OfMeeting => Found("meeting", a.of, rows')
  PROVE  \A a \in rows' : a.item \in Seed!OfMeeting => Found("meeting", a.of, rows')
<1>1. \A a \in rows : a.item \in Seed!OfMeeting => Found("meeting", a.of, rows)
  BY DEF SeedInv
<1> QED BY <1>1 DEF Found, Keeps

\* A run at work moves.
LEMMA RunMoves ==
  ASSUME SeedInv, NEW r \in Runs, Seed!Running(r), NEW n \in RunRecords,
         run' = [run EXCEPT ![r] = n], UNCHANGED alone,
         Keeps(rows, rows'), rows' \subseteq Seed!Rows, PastIsFound(n, rows'),
         n.step = "updating" => Seed!ItemOf(r)' \in Seed!Saved,
         \A a \in rows' \ rows :
           a.item \in Seed!OfMeeting => Found("meeting", a.of, rows'),
         alone =>
           /\ n.step # "failed"
           /\ n.step = "writing" => ~Seed!Present(r)'
           /\ n.step = "updating" => Seed!Present(r)'
           /\ \A a, b \in rows' : a.item = b.item => a = b
  PROVE  SeedInv'
<1>1. /\ run'[r] = n /\ \A s \in Runs \ {r} : run'[s] = run[s]
      /\ run' \in [Runs -> RunRecords]
  BY RunIs
<1>2. Seed!SeedTypeOK'
  BY <1>1 DEF SeedInv, Seed!SeedTypeOK, RunRecords, Seed!Last, Seed!Meetings
<1>3. \A s \in Runs : PastIsFound(run'[s], rows')
  BY <1>1, FoundStays DEF SeedInv
<1>4. alone' => AloneIsOrderly'
  <2> SUFFICES ASSUME alone PROVE AloneIsOrderly'
    OBVIOUS
  <2>1. AloneIsOrderly
    BY DEF SeedInv
  <2>2. \A s \in Runs \ {r} : ~Seed!Running(s) /\ run'[s] = run[s]
    BY <1>1, <2>1 DEF AloneIsOrderly
  <2>3. \A s, t \in Runs : Seed!Running(s)' /\ Seed!Running(t)' => s = t
    BY <2>2 DEF Seed!Running
  <2>4. \A s \in Runs : /\ run'[s].step = "writing" => ~Seed!Present(s)'
                        /\ run'[s].step = "updating" => Seed!Present(s)'
    BY <1>1, <2>2 DEF Seed!Running
  <2>5. \A s \in Runs : run'[s].step # "failed"
    BY <1>1, <2>1 DEF AloneIsOrderly
  <2> QED BY <2>3, <2>4, <2>5 DEF AloneIsOrderly
<1>5. \A s \in Runs : run'[s].step = "updating" => Seed!ItemOf(s)' \in Seed!Saved
  BY <1>1 DEF SeedInv, Seed!ItemOf
<1> QED BY <1>2, <1>3, <1>4, <1>5, MeetingsStay DEF SeedInv

LEMMA BeginKeeps ==
  ASSUME SeedInv, NEW r \in Runs, Seed!Begin(r)
  PROVE  SeedInv'
<1> DEFINE n == [run[r] EXCEPT !.step = "looking"]
<1>1. /\ run[r].step = "idle" /\ run' = [run EXCEPT ![r] = n] /\ rows' = rows
      /\ alone' = (alone /\ \A other \in Runs : ~Seed!Running(other))
  BY DEF Seed!Begin
<1>2. /\ run[r] \in RunRecords /\ run \in [Runs -> RunRecords]
      /\ PastIsFound(run[r], rows)
  BY RunIs
<1>3. n \in RunRecords /\ n.step = "looking" /\ PastIsFound(n, rows)
  BY <1>1, <1>2 DEF RunRecords, PastIsFound
<1> HIDE DEF n
<1>4. /\ run'[r] = n /\ \A s \in Runs \ {r} : run'[s] = run[s]
      /\ run' \in [Runs -> RunRecords]
  BY <1>1, <1>2, <1>3
<1>5. Seed!SeedTypeOK'
  <2>1. rows \subseteq Seed!Rows /\ alone \in BOOLEAN
    BY DEF SeedInv, Seed!SeedTypeOK
  <2>2. alone' \in BOOLEAN
    BY <1>1, <2>1, Zenon
  <2> QED BY <1>1, <1>4, <2>1, <2>2
      DEF Seed!SeedTypeOK, RunRecords, Seed!Last, Seed!Meetings
<1>6. \A s \in Runs : PastIsFound(run'[s], rows')
  BY <1>1, <1>3, <1>4 DEF SeedInv
<1>7. ASSUME alone' PROVE AloneIsOrderly'
  <2>1. alone /\ \A other \in Runs : ~Seed!Running(other)
    BY <1>1, <1>7
  <2>2. AloneIsOrderly
    BY <2>1 DEF SeedInv
  <2>3. \A s \in Runs : Seed!Running(s)' => s = r
    BY <1>4, <2>1 DEF Seed!Running
  <2>4. \A s \in Runs : run'[s].step \notin {"writing", "updating", "failed"}
    BY <1>3, <1>4, <2>1, <2>2 DEF Seed!Running, AloneIsOrderly
  <2> QED BY <1>1, <2>2, <2>3, <2>4 DEF AloneIsOrderly
<1>8. \A s \in Runs : run'[s].step = "updating" => Seed!ItemOf(s)' \in Seed!Saved
  BY <1>3, <1>4 DEF SeedInv, Seed!ItemOf
<1> QED BY <1>1, <1>5, <1>6, <1>7, <1>8 DEF SeedInv

\* A run whose item is there goes on without a word to the database.
LEMMA PassingKeeps ==
  ASSUME SeedInv, NEW r \in Runs, Seed!Running(r), NEW m \in Runs \union {Demo},
         m = run[r].meeting \/ run[r].at = 3, Found(Seed!ItemOf(r), m, rows),
         run' = [run EXCEPT ![r] = Seed!Advance([run[r] EXCEPT !.meeting = m])],
         UNCHANGED <<rows, alone>>
  PROVE  SeedInv'
<1> DEFINE n == Seed!Advance([run[r] EXCEPT !.meeting = m])
<1>1. /\ n \in RunRecords /\ PastIsFound(n, rows) /\ n.step \in {"looking", "done"}
  BY RunIs, GoesOn DEF Seed!Running
<1>2. rows' \subseteq Seed!Rows
  BY DEF SeedInv, Seed!SeedTypeOK
<1>3. alone => \A a, b \in rows : a.item = b.item => a = b
  BY DEF SeedInv, AloneIsOrderly
<1>4. run' = [run EXCEPT ![r] = n]
  OBVIOUS
<1>5. Keeps(rows, rows')
  BY DEF Keeps
<1> HIDE DEF n
<1> QED BY <1>1, <1>2, <1>3, <1>4, <1>5, RunMoves

LEMMA LookKeeps ==
  ASSUME SeedInv, NEW r \in Runs, Seed!Look(r)
  PROVE  SeedInv'
<1>1. /\ run[r].step = "looking" /\ Seed!Running(r) /\ UNCHANGED <<rows, alone>>
      /\ run[r] \in RunRecords /\ run[r].meeting \in Runs \union {Demo}
      /\ PastIsFound(run[r], rows) /\ run \in [Runs -> RunRecords]
      /\ Seed!ItemOf(r) = Seed!Items[run[r].at] /\ run[r].at \in 1..9
  BY RunIs DEF Seed!Look, Seed!Running, RunRecords
<1>2. Keeps(rows, rows')
  BY <1>1 DEF Keeps
<1>3. ASSUME NEW what \in {"writing", "updating"},
             run' = [run EXCEPT ![r].step = what],
             what = "writing" => ~Seed!Present(r),
             what = "updating" => Seed!Present(r) /\ Seed!ItemOf(r) \in Seed!Saved
      PROVE  SeedInv'
  <2> DEFINE n == [run[r] EXCEPT !.step = what]
  <2>1. run' = [run EXCEPT ![r] = n]
    BY <1>3
  <2>2. /\ n \in RunRecords /\ n.step = what /\ n.at = run[r].at
        /\ n.meeting = run[r].meeting
    BY <1>1 DEF RunRecords
  <2> HIDE DEF n
  <2>3. PastIsFound(n, rows)
    BY <1>1, <1>3, <2>2 DEF PastIsFound
  <2>4. Seed!Present(r)' <=> Seed!Present(r)
    <3>1. run'[r] = n
      BY <1>1, <2>1
    <3> QED BY <1>1, <2>2, <3>1 DEF Seed!Present, Seed!Answering, Seed!ItemOf
  <2>5. Seed!ItemOf(r)' = Seed!ItemOf(r)
    BY <1>1, <2>1, <2>2 DEF Seed!ItemOf
  <2>6. /\ rows' \subseteq Seed!Rows
        /\ alone => \A a, b \in rows : a.item = b.item => a = b
    BY <1>1 DEF SeedInv, Seed!SeedTypeOK, AloneIsOrderly
  <2> QED BY <1>1, <1>2, <1>3, <2>1, <2>2, <2>3, <2>4, <2>5, <2>6, RunMoves
<1>4. CASE Seed!Present(r) /\ Seed!ItemOf(r) \notin Seed!Saved
  <2>1. PICK row \in Seed!Answering(r) :
          run' = [run EXCEPT ![r] =
                    Seed!Advance([run[r] EXCEPT !.meeting =
                       IF Seed!ItemOf(r) = "meeting" THEN row.of ELSE run[r].meeting])]
    BY <1>1, <1>4 DEF Seed!Look
  <2> DEFINE m == IF Seed!ItemOf(r) = "meeting" THEN row.of ELSE run[r].meeting
  <2>2. row \in rows /\ row.of \in Runs \union {Demo} /\ row.item = Seed!ItemOf(r)
    BY DEF SeedInv, Seed!SeedTypeOK, Seed!Rows, Seed!Meetings, Seed!Answering
  <2>3. Found(Seed!ItemOf(r), m, rows)
    BY <2>2, ItemsAre DEF Found, Seed!Answering
  <2>4. m = run[r].meeting \/ run[r].at = 3
    BY <1>1, ItemsAre
  <2>5. m \in Runs \union {Demo}
    BY <1>1, <2>2
  <2> QED BY <1>1, <2>1, <2>3, <2>4, <2>5, PassingKeeps
<1> QED BY <1>3, <1>4 DEF Seed!Look

\* What is written is written of the run's own meeting, and is not there yet.
LEMMA WriteKeeps ==
  ASSUME SeedInv, NEW r \in Runs, Seed!Write(r)
  PROVE  SeedInv'
<1> DEFINE item == Seed!ItemOf(r)
           m == IF item = "meeting" THEN r ELSE run[r].meeting
           n == Seed!Advance([run[r] EXCEPT !.meeting = m])
           w == Seed!RowOf(r)
<1>1. /\ run[r].step = "writing" /\ Seed!Running(r) /\ UNCHANGED alone
      /\ run' = [run EXCEPT ![r] = n] /\ rows' = rows \union {w}
  BY DEF Seed!Write, Seed!Running
<1>2. /\ run[r] \in RunRecords /\ run[r].meeting \in Runs \union {Demo}
      /\ PastIsFound(run[r], rows) /\ item = Seed!Items[run[r].at]
      /\ run[r].at \in 1..9 /\ item \in Seed!ItemNames
  BY RunIs DEF RunRecords
<1>3. /\ item = "meeting" <=> run[r].at = 3
      /\ item \in Seed!OfMeeting <=> run[r].at \in 4..7
      /\ "meeting" \notin Seed!OfMeeting
  BY <1>2, ItemsAre
<1>4. /\ w \in Seed!Rows /\ w.item = item
      /\ item \in Seed!OfMeeting \union {"meeting"} => w.of = m
      /\ item \in Seed!OfMeeting => w.of = run[r].meeting
  BY <1>2, <1>3 DEF Seed!RowOf, Seed!Rows, Seed!Meetings
<1>5. m \in Runs \union {Demo} /\ (m = run[r].meeting \/ run[r].at = 3)
  BY <1>2, <1>3
<1> HIDE DEF w, m, item
<1>6. Found(item, m, rows')
  BY <1>1, <1>4 DEF Found
<1>7. Keeps(rows, rows') /\ PastIsFound(run[r], rows')
  <2>1. Keeps(rows, rows')
    BY <1>1 DEF Keeps
  <2> QED BY <1>2, <2>1, FoundStays
<1>8. n \in RunRecords /\ PastIsFound(n, rows') /\ n.step \in {"looking", "done"}
  BY <1>1, <1>2, <1>5, <1>6, <1>7, GoesOn
<1>9. rows' \subseteq Seed!Rows
  BY <1>1, <1>4 DEF SeedInv, Seed!SeedTypeOK
<1>10. item \in Seed!OfMeeting => Found("meeting", run[r].meeting, rows)
  <2>1. Seed!Items[3] = "meeting"
    BY ItemsAre
  <2> QED BY <1>2, <1>3, <2>1 DEF PastIsFound
<1>11. \A a \in rows' \ rows :
         a.item \in Seed!OfMeeting => Found("meeting", a.of, rows')
  BY <1>1, <1>4, <1>10 DEF Found
<1>12. ASSUME alone PROVE \A a, b \in rows' : a.item = b.item => a = b
  <2>1. AloneIsOrderly
    BY <1>12 DEF SeedInv
  <2>2. ASSUME NEW a \in rows, a.item = item PROVE FALSE
    <3>1. ~Seed!Present(r)
      BY <1>1, <2>1 DEF AloneIsOrderly
    <3>2. item \in Seed!OfMeeting /\ a.of # run[r].meeting
      BY <2>2, <3>1 DEF Seed!Present, Seed!Answering, item
    <3>3. Found("meeting", a.of, rows)
      BY <2>2, <3>2 DEF SeedInv
    <3> QED BY <1>10, <2>1, <3>2, <3>3 DEF Found, AloneIsOrderly
  <2> QED BY <1>1, <1>4, <2>1, <2>2 DEF AloneIsOrderly
<1> HIDE DEF n
<1> QED BY <1>1, <1>7, <1>8, <1>9, <1>11, <1>12, RunMoves

\* What is updated stays, whoever wrote it before.
LEMMA UpdateKeeps ==
  ASSUME SeedInv, NEW r \in Runs, Seed!Update(r)
  PROVE  SeedInv'
<1> DEFINE item == Seed!ItemOf(r)
           n == Seed!Advance([run[r] EXCEPT !.meeting = run[r].meeting])
           w == Seed!RowOf(r)
<1>1. /\ run[r].step = "updating" /\ Seed!Running(r) /\ UNCHANGED alone
      /\ rows' = (rows \ Seed!Answering(r)) \union {w} /\ item \in Seed!Saved
  BY DEF Seed!Update, Seed!Running, SeedInv
<1>2. /\ run[r] \in RunRecords /\ run[r].meeting \in Runs \union {Demo}
      /\ PastIsFound(run[r], rows) /\ item = Seed!Items[run[r].at]
      /\ run[r].at \in 1..9 /\ item \in Seed!ItemNames
  BY RunIs DEF RunRecords
<1>3. /\ run' = [run EXCEPT ![r] = n]
  <2>1. run[r] = [run[r] EXCEPT !.meeting = run[r].meeting]
    BY <1>2 DEF RunRecords
  <2> QED BY <2>1 DEF Seed!Update
<1>4. item # "meeting" /\ (item \in Seed!OfMeeting => run[r].at \in 4..7)
  BY <1>1, <1>2, ItemsAre DEF Seed!Saved
<1>5. /\ w \in Seed!Rows /\ w.item = item
      /\ item \in Seed!OfMeeting => w.of = run[r].meeting
  BY <1>2, <1>4 DEF Seed!RowOf, Seed!Rows, Seed!Meetings
<1>6. \A a \in Seed!Answering(r) :
        a.item = item /\ (item \in Seed!OfMeeting => a.of = run[r].meeting)
  BY DEF Seed!Answering
<1>7. \A a \in rows : a.item = item /\ (item \in Seed!OfMeeting => a.of = run[r].meeting)
        => a \in Seed!Answering(r)
  BY DEF Seed!Answering
<1> HIDE DEF w, item
<1>8. Found(item, run[r].meeting, rows')
  BY <1>1, <1>4, <1>5 DEF Found
<1>9. Keeps(rows, rows')
  <2> SUFFICES ASSUME NEW a \in rows
               PROVE  \E b \in rows' :
                        /\ b.item = a.item
                        /\ a.item \in Seed!OfMeeting \union {"meeting"} => b.of = a.of
    BY DEF Keeps
  <2>1. CASE a \in Seed!Answering(r)
    BY <1>1, <1>4, <1>5, <1>6, <2>1
  <2>2. CASE a \notin Seed!Answering(r)
    BY <1>1, <2>2
  <2> QED BY <2>1, <2>2
<1>10. PastIsFound(run[r], rows')
  BY <1>2, <1>9, FoundStays
<1>11. n \in RunRecords /\ PastIsFound(n, rows') /\ n.step \in {"looking", "done"}
  BY <1>1, <1>2, <1>8, <1>10, GoesOn
<1>12. rows' \subseteq Seed!Rows
  BY <1>1, <1>5 DEF SeedInv, Seed!SeedTypeOK
<1>13. item \in Seed!OfMeeting => Found("meeting", run[r].meeting, rows')
  <2>1. Seed!Items[3] = "meeting"
    BY ItemsAre
  <2> QED BY <1>2, <1>4, <1>10, <2>1 DEF PastIsFound
<1>14. \A a \in rows' \ rows :
         a.item \in Seed!OfMeeting => Found("meeting", a.of, rows')
  BY <1>1, <1>5, <1>13
<1>15. ASSUME alone PROVE \A a, b \in rows' : a.item = b.item => a = b
  <2>1. AloneIsOrderly
    BY <1>15 DEF SeedInv
  <2>2. PICK c \in rows : c \in Seed!Answering(r)
    BY <1>1, <2>1 DEF AloneIsOrderly, Seed!Present, Seed!Answering
  <2>3. \A a \in rows : a.item = item => a \in Seed!Answering(r)
    BY <1>6, <2>1, <2>2 DEF AloneIsOrderly
  <2> QED BY <1>1, <1>5, <2>1, <2>3 DEF AloneIsOrderly
<1> HIDE DEF n
<1> QED BY <1>1, <1>3, <1>9, <1>11, <1>12, <1>14, <1>15, RunMoves

LEMMA WriteLateKeeps ==
  ASSUME SeedInv, NEW r \in Runs, Seed!WriteLate(r)
  PROVE  SeedInv'
<1>1. /\ run[r].step = "writing" /\ Seed!Running(r) /\ UNCHANGED <<rows, alone>>
      /\ Seed!Present(r) /\ run[r] \in RunRecords
      /\ run[r].meeting \in Runs \union {Demo} /\ PastIsFound(run[r], rows)
  BY RunIs DEF Seed!WriteLate, Seed!Running, RunRecords
<1>2. ~alone /\ rows' \subseteq Seed!Rows /\ Keeps(rows, rows')
  BY <1>1 DEF SeedInv, Seed!SeedTypeOK, AloneIsOrderly, Keeps
<1>3. CASE run' = [run EXCEPT ![r].step = "failed"]
  <2> DEFINE n == [run[r] EXCEPT !.step = "failed"]
  <2>1. n \in RunRecords /\ n.step = "failed" /\ PastIsFound(n, rows) /\ run' = [run EXCEPT ![r] = n]
    BY <1>1, <1>3 DEF RunRecords, PastIsFound
  <2> HIDE DEF n
  <2> QED BY <1>1, <1>2, <2>1, RunMoves
<1>4. CASE /\ Seed!ItemOf(r) = "participant"
           /\ run' = [run EXCEPT ![r] = Seed!Advance(run[r])]
  <2>1. Found(Seed!ItemOf(r), run[r].meeting, rows)
    BY <1>1, <1>4 DEF Seed!Present, Seed!Answering, Found
  <2>2. run[r] = [run[r] EXCEPT !.meeting = run[r].meeting]
    BY <1>1 DEF RunRecords
  <2> QED BY <1>1, <1>4, <2>1, <2>2, PassingKeeps
<1> QED BY <1>3, <1>4 DEF Seed!WriteLate

LEMMA DieKeeps ==
  ASSUME SeedInv, NEW r \in Runs, Seed!Die(r)
  PROVE  SeedInv'
<1> DEFINE n == [run[r] EXCEPT !.step = "dead"]
<1>1. /\ run[r] \in RunRecords /\ PastIsFound(run[r], rows) /\ Seed!Running(r)
      /\ UNCHANGED <<rows, alone>> /\ run' = [run EXCEPT ![r] = n]
  BY RunIs DEF Seed!Die
<1>2. n \in RunRecords /\ n.step = "dead" /\ PastIsFound(n, rows)
  BY <1>1 DEF RunRecords, PastIsFound, Seed!Running
<1>3. /\ rows' \subseteq Seed!Rows
      /\ alone => \A a, b \in rows : a.item = b.item => a = b
      /\ Keeps(rows, rows')
  BY <1>1 DEF SeedInv, Seed!SeedTypeOK, AloneIsOrderly, Keeps
<1> HIDE DEF n
<1> QED BY <1>1, <1>2, <1>3, RunMoves

\* The seed script, for any number of runs: the types, what each has found or made,
\* and the order that reigns while they follow one another.
THEOREM SeedInvHolds == Seed!Spec => []SeedInv
<1>1. Seed!Init => SeedInv
  <2> SUFFICES ASSUME Seed!Init PROVE SeedInv
    OBVIOUS
  <2>1. Seed!NotStarted \in RunRecords /\ Seed!NotStarted.step = "idle"
        /\ Seed!NotStarted.at = 1
    BY DEF Seed!NotStarted, RunRecords
  <2>2. \A r \in Runs : run[r] = Seed!NotStarted
    BY DEF Seed!Init
  <2>3. Seed!SeedTypeOK
    BY <2>1 DEF Seed!Init, Seed!SeedTypeOK, RunRecords, Seed!Last, Seed!Meetings
  <2>4. \A r \in Runs : PastIsFound(run[r], rows)
    BY <2>1, <2>2 DEF PastIsFound
  <2>5. AloneIsOrderly
    BY <2>1, <2>2 DEF Seed!Init, AloneIsOrderly, Seed!Running
  <2> QED BY <2>1, <2>2, <2>3, <2>4, <2>5 DEF SeedInv, Seed!Init
<1>2. SeedInv /\ [Seed!Next]_(Seed!vars) => SeedInv'
  <2> SUFFICES ASSUME SeedInv, [Seed!Next]_(Seed!vars) PROVE SeedInv'
    OBVIOUS
  <2>1. CASE UNCHANGED Seed!vars
    BY <2>1 DEF Seed!vars, SeedInv, Seed!SeedTypeOK, AloneIsOrderly, Seed!Running,
      Seed!Present, Seed!Answering, Seed!ItemOf, Keeps
  <2>2. CASE Seed!Next
    BY <2>2, BeginKeeps, LookKeeps, WriteKeeps, UpdateKeeps, WriteLateKeeps, DieKeeps DEF Seed!Next
  <2> QED BY <2>1, <2>2
<1> QED BY <1>1, <1>2, PTL DEF Seed!Spec

\* Runs of the script that follow one another, wherever they died, leave nothing
\* twice, and none is refused by the database (scripts/seed_db.py).
THEOREM SeedLeavesNothingTwice == Seed!Spec => []NothingTwice
<1>1. SeedInv => NothingTwice
  BY DEF SeedInv, AloneIsOrderly, NothingTwice, Seed!NothingTwice
<1> QED BY <1>1, SeedInvHolds, PTL

\* A run that reached its end finds all nine things there, of its own meeting,
\* whatever ran at the same time.
THEOREM SeedDoneMeansAll == Seed!Spec => []DoneMeansAll
<1>1. SeedInv => DoneMeansAll
  BY ItemsAre DEF SeedInv, PastIsFound, Found, DoneMeansAll, Seed!DoneMeansAll
<1> QED BY <1>1, SeedInvHolds, PTL

\* While the runs follow one another, a finished one has left nothing to write.
LEMMA NothingIsLeft ==
  ASSUME SeedInv, alone, NEW r \in Runs, run[r].step = "done", NEW s \in Runs
  PROVE  run[s].step # "writing"
<1> SUFFICES ASSUME run[s].step = "writing" PROVE FALSE
  OBVIOUS
<1>1. AloneIsOrderly /\ ~Seed!Present(s)
  BY DEF SeedInv, AloneIsOrderly
<1>2. /\ PastIsFound(run[s], rows) /\ PastIsFound(run[r], rows)
      /\ Seed!ItemOf(s) = Seed!Items[run[s].at] /\ run[s].at \in 1..9
  BY RunIs
<1>3. Found(Seed!ItemOf(s), run[r].meeting, rows) /\ Found("meeting", run[r].meeting, rows)
  BY <1>2, ItemsAre DEF PastIsFound
<1>4. Seed!ItemOf(s) \in Seed!OfMeeting
  BY <1>1, <1>3 DEF Found, Seed!Present, Seed!Answering
<1>5. Found("meeting", run[s].meeting, rows)
  <2>1. 3 < run[s].at /\ Seed!Items[3] = "meeting"
    BY <1>2, <1>4, ItemsAre
  <2> QED BY <1>2, <2>1 DEF PastIsFound
<1>6. run[s].meeting = run[r].meeting
  BY <1>1, <1>3, <1>5 DEF Found, AloneIsOrderly
<1> QED BY <1>1, <1>3, <1>4, <1>6 DEF Found, Seed!Present, Seed!Answering

\* What the script says of itself, "idempotently": of runs that follow one another,
\* once one has reached its end the later ones add nothing, and write nothing but the
\* recording and the memberships again, each in place (scripts/seed_db.py).
THEOREM SeedIsIdempotent == Seed!Spec => RerunsAddNothing
<1> DEFINE Others(R) == {row \in R : row.item \notin Seed!Saved}
           Names(R) == {row.item : row \in R}
<1>1. ASSUME SeedInv, Seed!Next, alone, NEW r \in Runs, run[r].step = "done"
      PROVE  Others(rows)' = Others(rows) /\ Names(rows)' = Names(rows)
  <2>1. PICK s \in Runs : Seed!Begin(s) \/ Seed!Look(s) \/ Seed!Write(s) \/ Seed!Update(s)
                            \/ Seed!WriteLate(s) \/ Seed!Die(s)
    BY <1>1 DEF Seed!Next
  <2>2. ~Seed!Write(s)
    BY <1>1, NothingIsLeft DEF Seed!Write
  <2>3. CASE Seed!Update(s)
    <3>1. /\ rows' = (rows \ Seed!Answering(s)) \union {Seed!RowOf(s)}
          /\ Seed!ItemOf(s) \in Seed!Saved /\ Seed!Present(s)
          /\ Seed!RowOf(s).item = Seed!ItemOf(s)
      BY <1>1, <2>3 DEF Seed!Update, SeedInv, AloneIsOrderly, Seed!RowOf
    <3>2. \A a \in Seed!Answering(s) : a \in rows /\ a.item = Seed!ItemOf(s)
      BY DEF Seed!Answering
    <3>3. PICK c : c \in Seed!Answering(s)
      BY <3>1 DEF Seed!Present
    <3> QED BY <3>1, <3>2, <3>3
  <2>4. CASE UNCHANGED rows
    BY <2>4
  <2> QED BY <2>1, <2>2, <2>3, <2>4
      DEF Seed!Begin, Seed!Look, Seed!WriteLate, Seed!Die
<1>2. SeedInv /\ [Seed!Next]_(Seed!vars)
        => [alone /\ (\E r \in Runs : run[r].step = "done") =>
              Others(rows)' = Others(rows) /\ Names(rows)' = Names(rows)]_(Seed!vars)
  BY <1>1
<1> QED BY <1>2, SeedInvHolds, PTL DEF Seed!Spec, RerunsAddNothing, Seed!RerunsAddNothing
=============================================================================
