---------------------- MODULE TranscriptCreationProofs ----------------------
(***************************************************************************)
(* What TranscriptCreation keeps for any number of requests, meetings and  *)
(* texts, and that it implements TranscriptRegister.                       *)
(*                                                                         *)
(* StepsAreTrue says what the step a request has reached implies about the *)
(* table, and the table about the requests; with it the audit trail and    *)
(* the answers follow.                                                     *)
(***************************************************************************)
EXTENDS TranscriptCreation, TLAPS

Wrote(q, m) == transcript[m] # Empty /\ transcript[m].by = q

\* Of a transcript: who wrote it is past the INSERT, and it is what was asked.
WriterIsKnown(q, m) ==
  Wrote(q, m) =>
    /\ request[q].step \in {"written", "done"}
    /\ request[q].m = m
    /\ request[q].u = Organizer[m]
    /\ transcript[m] = [by |-> q, content |-> request[q].c]

\* Of a request: what its step says of its user, its text, the table and the
\* answer.
StepIsTrue(q) ==
  LET r == request[q] IN
  /\ r.step \in {"managed", "free", "written"} =>
       r.u = Organizer[r.m] /\ r.c \in Contents
  /\ r.step = "written" => Wrote(q, r.m)
  /\ r.step = "refused" /\ r.reason = "transcript_already_exists" =>
       transcript[r.m] # Empty
  /\ r.step = "done" <=> reply[q] # "none"

StepsAreTrue ==
  /\ \A q \in Requests, m \in MeetingIds : WriterIsKnown(q, m)
  /\ \A q \in Requests : StepIsTrue(q)
  /\ \A a \in audits : request[a.by].step = "done"

CreationInv == TypeOK /\ StepsAreTrue /\ AuditIsTrue /\ ReportedIsAudited

-----------------------------------------------------------------------------
\* The fields of a request at each of its steps.
LEMMA RequestFields ==
  ASSUME NEW r \in Request
  PROVE  /\ r.step \in {"new", "arrived", "managed", "free", "written", "done",
                        "refused"}
         /\ r.step = "new" <=> r = NewRequest
         /\ r.step # "new" =>
              r.u \in Users /\ r.m \in MeetingIds /\ r.c \in Contents \union {Blank}
         /\ r.step = "refused" => r.reason \in Reasons
BY DEF Request, NewRequest, Asked

\* Goto moves one request on and keeps what it asks.
LEMMA GotoIs ==
  ASSUME TypeOK, NEW q \in Requests, request[q].step # "new",
         NEW step \in {"arrived", "managed", "free", "written", "done"},
         Goto(q, step)
  PROVE  /\ request' \in [Requests -> Request]
         /\ request'[q].step = step
         /\ request'[q].u = request[q].u
         /\ request'[q].m = request[q].m
         /\ request'[q].c = request[q].c
         /\ \A p \in Requests \ {q} : request'[p] = request[p]
<1> DEFINE r == [step |-> step, u |-> request[q].u, m |-> request[q].m,
                 c |-> request[q].c]
<1>1. request \in [Requests -> Request]
  BY DEF TypeOK
<1>2. r \in Request
  BY <1>1, RequestFields DEF Request, Asked
<1>3. request' = [request EXCEPT ![q] = r]
  BY DEF Goto
<1> QED BY <1>1, <1>2, <1>3

\* RefuseWith stops one request with its reason and keeps what it asks.
LEMMA RefuseIs ==
  ASSUME TypeOK, NEW q \in Requests, request[q].step # "new",
         NEW reason \in Reasons, RefuseWith(q, reason)
  PROVE  /\ request' \in [Requests -> Request]
         /\ request'[q].step = "refused"
         /\ request'[q].u = request[q].u
         /\ request'[q].m = request[q].m
         /\ request'[q].c = request[q].c
         /\ request'[q].reason = reason
         /\ \A p \in Requests \ {q} : request'[p] = request[p]
<1> DEFINE r == [step |-> "refused", u |-> request[q].u, m |-> request[q].m,
                 c |-> request[q].c, reason |-> reason]
<1>1. request \in [Requests -> Request]
  BY DEF TypeOK
<1>2. r \in Request
  BY <1>1, RequestFields DEF Request
<1>3. request' = [request EXCEPT ![q] = r]
  BY DEF RefuseWith
<1> QED BY <1>1, <1>2, <1>3

(***************************************************************************)
(* A request that does not move keeps what is said of it while transcripts *)
(* only appear.                                                            *)
(***************************************************************************)
LEMMA OthersStayTrue ==
  ASSUME CreationInv, NEW p \in Requests,
         request'[p] = request[p], reply'[p] = reply[p],
         \A m \in MeetingIds :
           transcript[m] # Empty => transcript'[m] = transcript[m]
  PROVE  StepIsTrue(p)'
<1>1. request[p] \in Request /\ StepIsTrue(p)
  BY DEF CreationInv, StepsAreTrue, TypeOK
<1> QED BY <1>1, RequestFields DEF StepIsTrue, Wrote

\* Whoever wrote a transcript stays known as its writer while others move.
LEMMA WriterStaysKnown ==
  ASSUME CreationInv, NEW p \in Requests, NEW m \in MeetingIds,
         request'[p] = request[p],
         transcript'[m] = transcript[m] \/ transcript'[m].by # p
  PROVE  WriterIsKnown(p, m)'
BY DEF CreationInv, StepsAreTrue, WriterIsKnown, Wrote

(***************************************************************************)
(* A request that goes on, or stops at a refusal, without an answer.       *)
(***************************************************************************)
LEMMA MoveKeepsInv ==
  ASSUME CreationInv, NEW q \in Requests,
         request' \in [Requests -> Request],
         \A p \in Requests \ {q} : request'[p] = request[p],
         UNCHANGED <<transcript, reply, audits>>,
         request[q].step \in {"new", "arrived", "managed", "free"},
         request'[q].step \in {"arrived", "managed", "free", "refused"},
         request'[q].step \in {"managed", "free"} =>
           /\ request'[q].u = Organizer[request'[q].m]
           /\ request'[q].c \in Contents,
         request'[q].step = "refused"
           /\ request'[q].reason = "transcript_already_exists" =>
           transcript[request'[q].m] # Empty
  PROVE  CreationInv'
<1>1. TypeOK'
  BY DEF CreationInv, TypeOK
<1>2. \A a \in audits : a.by \in Requests /\ a.by # q
  BY DEF CreationInv, StepsAreTrue, TypeOK
<1>3. \A p \in Requests, m \in MeetingIds : WriterIsKnown(p, m)'
  <2> SUFFICES ASSUME NEW p \in Requests, NEW m \in MeetingIds
               PROVE  WriterIsKnown(p, m)'
    OBVIOUS
  <2>1. CASE p = q
    BY <2>1 DEF CreationInv, StepsAreTrue, WriterIsKnown, Wrote
  <2>2. CASE p # q
    BY <2>2, WriterStaysKnown
  <2> QED BY <2>1, <2>2
<1>4. \A p \in Requests : StepIsTrue(p)'
  <2> SUFFICES ASSUME NEW p \in Requests PROVE StepIsTrue(p)'
    OBVIOUS
  <2>1. CASE p = q
    <3>1. StepIsTrue(q)
      BY DEF CreationInv, StepsAreTrue
    <3> QED BY <2>1, <3>1 DEF StepIsTrue
  <2>2. CASE p # q
    BY <2>2, OthersStayTrue
  <2> QED BY <2>1, <2>2
<1>5. \A a \in audits' : request'[a.by].step = "done"
  BY <1>2 DEF CreationInv, StepsAreTrue
<1>6. AuditIsTrue'
  BY <1>2 DEF CreationInv, AuditIsTrue
<1>7. ReportedIsAudited'
  BY <1>4 DEF CreationInv, ReportedIsAudited
<1> QED BY <1>1, <1>3, <1>4, <1>5, <1>6, <1>7 DEF CreationInv, StepsAreTrue

(***************************************************************************)
(* A request that ends in an answer, with the audit rows new.              *)
(***************************************************************************)
LEMMA EndKeepsInv ==
  ASSUME CreationInv, NEW q \in Requests,
         request[q].step \notin {"new", "done"}, Goto(q, "done"),
         NEW answer \in Replies \ {"none"}, Respond(q, answer),
         NEW new \in
           SUBSET [by : {q}, allowed : BOOLEAN,
                   reason : Reasons \union {"organizer"}],
         audits' = audits \union new, UNCHANGED transcript,
         \A a \in new : IF a.allowed
                        THEN request[q].step = "written" /\ answer = "created"
                        ELSE request[q].step = "refused" /\ answer # "created",
         answer \notin {"invalid", "error"} => new # {}
  PROVE  CreationInv'
<1>1. TypeOK
  BY DEF CreationInv
<1>2. /\ request' \in [Requests -> Request]
      /\ request'[q].step = "done"
      /\ request'[q].u = request[q].u
      /\ request'[q].m = request[q].m
      /\ request'[q].c = request[q].c
      /\ \A p \in Requests \ {q} : request'[p] = request[p]
  BY <1>1, GotoIs
<1>3. /\ reply' \in [Requests -> Replies]
      /\ reply'[q] = answer
      /\ \A p \in Requests \ {q} : reply'[p] = reply[p]
  BY <1>1 DEF TypeOK, Respond
<1>4. TypeOK'
  <2>1. audits' \subseteq [by : Requests, allowed : BOOLEAN,
                          reason : Reasons \union {"organizer"}]
    BY <1>1 DEF TypeOK
  <2> QED BY <1>1, <1>2, <1>3, <2>1 DEF TypeOK
<1>5. \A a \in audits : a.by \in Requests /\ a.by # q
  BY DEF CreationInv, StepsAreTrue, TypeOK
<1>6. \A p \in Requests, m \in MeetingIds : WriterIsKnown(p, m)'
  <2> SUFFICES ASSUME NEW p \in Requests, NEW m \in MeetingIds
               PROVE  WriterIsKnown(p, m)'
    OBVIOUS
  <2>1. CASE p = q
    BY <1>2, <2>1 DEF CreationInv, StepsAreTrue, WriterIsKnown, Wrote
  <2>2. CASE p # q
    BY <1>2, <2>2, WriterStaysKnown
  <2> QED BY <2>1, <2>2
<1>7. \A p \in Requests : StepIsTrue(p)'
  <2> SUFFICES ASSUME NEW p \in Requests PROVE StepIsTrue(p)'
    OBVIOUS
  <2>1. CASE p = q
    BY <1>2, <1>3, <2>1 DEF StepIsTrue
  <2>2. CASE p # q
    BY <1>2, <1>3, <2>2, OthersStayTrue
  <2> QED BY <2>1, <2>2
<1>8. \A a \in audits' : request'[a.by].step = "done"
  BY <1>2, <1>5 DEF CreationInv, StepsAreTrue
<1>9. AuditIsTrue'
  <2> SUFFICES ASSUME NEW a \in audits'
               PROVE  IF a.allowed
                      THEN /\ transcript[request'[a.by].m] =
                                [by |-> a.by, content |-> request'[a.by].c]
                           /\ request'[a.by].u = Organizer[request'[a.by].m]
                      ELSE \A m \in MeetingIds :
                             transcript[m] # Empty => transcript[m].by # a.by
    BY DEF AuditIsTrue
  <2>1. CASE a \in audits
    BY <1>2, <1>5, <2>1 DEF CreationInv, AuditIsTrue
  <2>2. CASE a \in new /\ a.allowed
    <3>1. a.by = q /\ request[q].m \in MeetingIds
      BY <1>1, <2>2, RequestFields DEF TypeOK
    <3>2. WriterIsKnown(q, request[q].m) /\ StepIsTrue(q)
      BY <3>1 DEF CreationInv, StepsAreTrue
    <3> QED BY <1>2, <2>2, <3>1, <3>2 DEF WriterIsKnown, StepIsTrue
  <2>3. CASE a \in new /\ ~a.allowed
    BY <2>3 DEF CreationInv, StepsAreTrue, WriterIsKnown, Wrote
  <2> QED BY <2>1, <2>2, <2>3
<1>10. ReportedIsAudited'
  <2> SUFFICES ASSUME NEW p \in Requests,
                      reply'[p] \notin {"none", "invalid", "error"}
               PROVE  \E a \in audits' :
                        a.by = p /\ (a.allowed <=> reply'[p] = "created")
    BY DEF ReportedIsAudited
  <2>1. CASE p = q
    <3>1. PICK a \in new : TRUE
      BY <1>3, <2>1
    <3> QED BY <1>3, <2>1, <3>1
  <2>2. CASE p # q
    BY <1>3, <2>2 DEF CreationInv, ReportedIsAudited
  <2> QED BY <2>1, <2>2
<1> QED
  BY <1>4, <1>6, <1>7, <1>8, <1>9, <1>10 DEF CreationInv, StepsAreTrue

\* A request that ends without an audit row keeps the invariant.
LEMMA EndSilently ==
  ASSUME CreationInv, NEW q \in Requests,
         request[q].step \notin {"new", "done"}, Goto(q, "done"),
         NEW answer \in {"invalid", "error"}, Respond(q, answer),
         UNCHANGED <<transcript, audits>>
  PROVE  CreationInv'
<1> DEFINE new == {}
<1>1. /\ answer \in Replies \ {"none"}
      /\ new \in SUBSET [by : {q}, allowed : BOOLEAN,
                         reason : Reasons \union {"organizer"}]
  BY DEF Replies
<1>2. audits' = audits \union new
  OBVIOUS
<1>3. \A a \in new : IF a.allowed
                     THEN request[q].step = "written" /\ answer = "created"
                     ELSE request[q].step = "refused" /\ answer # "created"
  OBVIOUS
<1> HIDE DEF new
<1> QED BY <1>1, <1>2, <1>3, EndKeepsInv

(***************************************************************************)
(* The INSERT that succeeds.                                               *)
(***************************************************************************)
LEMMA WriteKeepsInv ==
  ASSUME CreationInv, NEW q \in Requests, request[q].step = "free",
         transcript[request[q].m] = Empty,
         transcript' = [transcript EXCEPT
                          ![request[q].m] = [by |-> q, content |-> request[q].c]],
         Goto(q, "written"), UNCHANGED <<reply, audits>>
  PROVE  CreationInv'
<1> DEFINE row == [by |-> q, content |-> request[q].c]
<1>1. TypeOK
  BY DEF CreationInv
<1>2. /\ request' \in [Requests -> Request]
      /\ request'[q].step = "written"
      /\ request'[q].u = request[q].u
      /\ request'[q].m = request[q].m
      /\ request'[q].c = request[q].c
      /\ \A p \in Requests \ {q} : request'[p] = request[p]
  BY <1>1, GotoIs
<1>3. /\ request[q].m \in MeetingIds /\ StepIsTrue(q)
      /\ \A m \in MeetingIds : WriterIsKnown(q, m)
  BY <1>1, RequestFields DEF CreationInv, StepsAreTrue, TypeOK
<1>4. row \in [by : Requests, content : Contents] /\ row # Empty
  BY <1>3, TranscriptConstants DEF StepIsTrue
<1>5. \A m \in MeetingIds :
        transcript'[m] = IF m = request[q].m THEN row ELSE transcript[m]
  BY <1>1 DEF TypeOK
<1>6. TypeOK'
  BY <1>1, <1>2, <1>4 DEF TypeOK
<1>7. \A a \in audits : a.by \in Requests /\ a.by # q
  BY DEF CreationInv, StepsAreTrue, TypeOK
<1>8. \A p \in Requests, m \in MeetingIds : WriterIsKnown(p, m)'
  <2> SUFFICES ASSUME NEW p \in Requests, NEW m \in MeetingIds
               PROVE  WriterIsKnown(p, m)'
    OBVIOUS
  <2>1. CASE p = q /\ m = request[q].m
    BY <1>2, <1>3, <1>5, <2>1 DEF StepIsTrue, WriterIsKnown
  <2>2. CASE p = q /\ m # request[q].m
    BY <1>3, <1>5, <2>2 DEF WriterIsKnown, Wrote
  <2>3. CASE p # q
    BY <1>2, <1>5, <2>3, WriterStaysKnown
  <2> QED BY <2>1, <2>2, <2>3
<1>9. \A p \in Requests : StepIsTrue(p)'
  <2> SUFFICES ASSUME NEW p \in Requests PROVE StepIsTrue(p)'
    OBVIOUS
  <2>1. CASE p = q
    BY <1>2, <1>3, <1>4, <1>5, <2>1 DEF StepIsTrue, Wrote
  <2>2. CASE p # q
    BY <1>2, <1>5, <2>2, OthersStayTrue
  <2> QED BY <2>1, <2>2
<1>10. \A a \in audits' : request'[a.by].step = "done"
  BY <1>2, <1>7 DEF CreationInv, StepsAreTrue
<1>11. AuditIsTrue'
  <2> SUFFICES ASSUME NEW a \in audits
               PROVE  IF a.allowed
                      THEN /\ transcript'[request'[a.by].m] =
                                [by |-> a.by, content |-> request'[a.by].c]
                           /\ request'[a.by].u = Organizer[request'[a.by].m]
                      ELSE \A m \in MeetingIds :
                             transcript'[m] # Empty => transcript'[m].by # a.by
    BY DEF AuditIsTrue
  <2>1. request'[a.by] = request[a.by]
    BY <1>2, <1>7
  <2>2. request[a.by].m \in MeetingIds
    BY <1>1, <1>7, RequestFields DEF CreationInv, StepsAreTrue, TypeOK
  <2>3. transcript[request[a.by].m] # Empty =>
          transcript'[request[a.by].m] = transcript[request[a.by].m]
    BY <1>5, <2>2
  <2>4. CASE a.allowed
    <3>1. /\ transcript[request[a.by].m] =
               [by |-> a.by, content |-> request[a.by].c]
          /\ request[a.by].u = Organizer[request[a.by].m]
      BY <2>4 DEF CreationInv, AuditIsTrue
    <3>2. request[a.by].m # request[q].m
      BY <1>1, <1>7, <3>1, RequestFields, TranscriptConstants
      DEF CreationInv, StepsAreTrue, TypeOK
    <3>3. transcript'[request[a.by].m] = transcript[request[a.by].m]
      BY <1>5, <2>2, <3>2
    <3>4. /\ transcript'[request'[a.by].m] =
               [by |-> a.by, content |-> request'[a.by].c]
          /\ request'[a.by].u = Organizer[request'[a.by].m]
      BY <2>1, <3>1, <3>3
    <3> QED BY <2>4, <3>4
  <2>5. CASE ~a.allowed
    <3>1. \A m \in MeetingIds : transcript[m] # Empty => transcript[m].by # a.by
      BY <2>5 DEF CreationInv, AuditIsTrue
    <3>2. \A m \in MeetingIds : transcript'[m] # Empty => transcript'[m].by # a.by
      BY <1>5, <1>7, <3>1
    <3> QED BY <2>5, <3>2
  <2> QED BY <2>4, <2>5
<1>12. ReportedIsAudited'
  BY DEF CreationInv, ReportedIsAudited
<1> QED
  BY <1>6, <1>8, <1>9, <1>10, <1>11, <1>12 DEF CreationInv, StepsAreTrue

(***************************************************************************)
(* Every step of a request keeps the invariant.                            *)
(***************************************************************************)
LEMMA CreationInit ==
  ASSUME Init
  PROVE  CreationInv
BY DEF Init, CreationInv, TypeOK, Request, NewRequest, Replies, StepsAreTrue,
       WriterIsKnown, StepIsTrue, Wrote, AuditIsTrue, ReportedIsAudited

\* Every step of the requests keeps the invariant.
LEMMA CreationStep ==
  ASSUME CreationInv, [Next]_vars
  PROVE  CreationInv'
<1>1. TypeOK
  BY DEF CreationInv
<1>2. CASE UNCHANGED vars
  BY <1>2 DEF vars, CreationInv, TypeOK, StepsAreTrue, WriterIsKnown,
              StepIsTrue, Wrote, AuditIsTrue, ReportedIsAudited
<1>3. ASSUME NEW q \in Requests, NEW u \in Users, NEW m \in MeetingIds,
             NEW c \in Contents \union {Blank}, Arrive(q, u, m, c)
      PROVE  CreationInv'
  <2> DEFINE r == [step |-> "arrived", u |-> u, m |-> m, c |-> c]
  <2>1. r \in Request
    BY DEF Request, Asked
  <2>2. request' = [request EXCEPT ![q] = r]
    BY <1>3 DEF Arrive
  <2>3. /\ request' \in [Requests -> Request]
        /\ request'[q].step = "arrived"
        /\ \A p \in Requests \ {q} : request'[p] = request[p]
    BY <1>1, <2>1, <2>2 DEF TypeOK
  <2> QED BY <1>3, <2>3, MoveKeepsInv DEF Arrive, At
<1>4. ASSUME NEW q \in Requests, RejectContent(q) PROVE CreationInv'
  BY <1>4, EndSilently DEF RejectContent, At
<1>5. ASSUME NEW q \in Requests, ReadFacts(q) PROVE CreationInv'
  <2> DEFINE r == request[q]
             reason == CanManageMeeting(r.u, TRUE, Organizer[r.m])
  <2>1. /\ r.step = "arrived" /\ r.c # Blank
        /\ UNCHANGED <<transcript, reply, audits>>
        /\ \/ RefuseWith(q, "resource_not_found")
           \/ ~Allows(reason) /\ RefuseWith(q, reason)
           \/ Allows(reason) /\ Goto(q, "managed")
    BY <1>5 DEF ReadFacts
  <2>2. r.c \in Contents
    BY <1>1, <2>1, RequestFields DEF TypeOK
  <2>3. reason = IF r.u = Organizer[r.m] THEN "organizer" ELSE "not_authorized"
    BY DEF CanManageMeeting
  <2>4. Allows(reason) <=> r.u = Organizer[r.m]
    BY <2>3 DEF Allows, AllowReasons
  <2> HIDE DEF reason
  <2>5. CASE RefuseWith(q, "resource_not_found")
    BY <1>1, <2>1, <2>5, RefuseIs, MoveKeepsInv DEF Reasons
  <2>6. CASE ~Allows(reason) /\ RefuseWith(q, reason)
    <3>1. reason = "not_authorized"
      BY <2>3, <2>4, <2>6
    <3> QED BY <1>1, <2>1, <2>6, <3>1, RefuseIs, MoveKeepsInv DEF Reasons
  <2>7. CASE Allows(reason) /\ Goto(q, "managed")
    BY <1>1, <2>1, <2>2, <2>4, <2>7, GotoIs, MoveKeepsInv
  <2> QED BY <2>1, <2>5, <2>6, <2>7
<1>6. ASSUME NEW q \in Requests, CheckExists(q) PROVE CreationInv'
  <2>1. StepIsTrue(q)
    BY DEF CreationInv, StepsAreTrue
  <2>2. CASE transcript[request[q].m] # Empty
    BY <1>1, <1>6, <2>2, RefuseIs, MoveKeepsInv DEF CheckExists, At, Reasons
  <2>3. CASE transcript[request[q].m] = Empty
    BY <1>1, <1>6, <2>1, <2>3, GotoIs, MoveKeepsInv
    DEF CheckExists, At, StepIsTrue
  <2> QED BY <2>2, <2>3
<1>7. ASSUME NEW q \in Requests, AddTranscript(q) PROVE CreationInv'
  <2>1. CASE transcript[request[q].m] = Empty
    BY <1>7, <2>1, WriteKeepsInv DEF AddTranscript
  <2>2. CASE transcript[request[q].m] # Empty
    BY <1>1, <1>7, <2>2, RefuseIs, MoveKeepsInv DEF AddTranscript, Reasons
  <2> QED BY <2>1, <2>2
<1>8. ASSUME NEW q \in Requests, AuditRefusal(q) PROVE CreationInv'
  <2> DEFINE new == {[by |-> q, allowed |-> FALSE, reason |-> request[q].reason]}
             answer == RefusalReply(request[q].reason)
  <2>1. request[q].step = "refused" /\ request[q].reason \in Reasons
    BY <1>1, <1>8, RequestFields DEF AuditRefusal, At, TypeOK
  <2>2. answer \in {"not_found", "conflict", "forbidden"}
    BY DEF RefusalReply
  <2>3. new \in SUBSET [by : {q}, allowed : BOOLEAN,
                        reason : Reasons \union {"organizer"}]
    BY <2>1
  <2>4. /\ audits' = audits \union new /\ Respond(q, answer)
        /\ Goto(q, "done") /\ UNCHANGED transcript
    BY <1>8 DEF AuditRefusal
  <2>5. new # {} /\ \A a \in new : ~a.allowed
    OBVIOUS
  <2> HIDE DEF new, answer
  <2> QED BY <2>1, <2>2, <2>3, <2>4, <2>5, EndKeepsInv DEF Replies
<1>9. ASSUME NEW q \in Requests, AuditCreation(q) PROVE CreationInv'
  <2> DEFINE new == {[by |-> q, allowed |-> TRUE, reason |-> "organizer"]}
  <2>1. /\ request[q].step = "written"
        /\ audits' = audits \union new /\ Respond(q, "created")
        /\ Goto(q, "done") /\ UNCHANGED transcript
    BY <1>9 DEF AuditCreation, At
  <2>2. new \in SUBSET [by : {q}, allowed : BOOLEAN,
                        reason : Reasons \union {"organizer"}]
    OBVIOUS
  <2>3. new # {} /\ \A a \in new : a.allowed
    OBVIOUS
  <2> HIDE DEF new
  <2> QED BY <2>1, <2>2, <2>3, EndKeepsInv DEF Replies
<1>10. ASSUME NEW q \in Requests, Fail(q) PROVE CreationInv'
  BY <1>10, EndSilently DEF Fail
<1> QED
  BY <1>2, <1>3, <1>4, <1>5, <1>6, <1>7, <1>8, <1>9, <1>10
  DEF Next, RequestStep

\* In every reachable state of create_transcript's requests, what each has done
\* agrees with the tables and with its step: the invariant the rest follows from.
THEOREM CreationInvHolds == Spec => []CreationInv
<1>1. Init => CreationInv
  BY CreationInit
<1>2. CreationInv /\ [Next]_vars => CreationInv'
  BY CreationStep
<1> QED BY <1>1, <1>2, PTL DEF Spec

\* The table, the requests, the answers and the audit rows have their types.
THEOREM CreationIsTyped == Spec => []TypeOK
<1>1. CreationInv => TypeOK
  BY DEF CreationInv
<1> QED BY <1>1, CreationInvHolds, PTL

\* However uploads race and fail, an "allowed" audit row of transcript.create
\* belongs to the organizer's request whose text stands in the table, and a
\* "denied" one to a request that wrote nothing.
THEOREM AuditTrailIsTrue == Spec => []AuditIsTrue
<1>1. CreationInv => AuditIsTrue
  BY DEF CreationInv
<1> QED BY <1>1, CreationInvHolds, PTL

\* No 201, 403, 404 or 409 of create_transcript leaves without its audit row.
THEOREM AnswersAreAudited == Spec => []ReportedIsAudited
<1>1. CreationInv => ReportedIsAudited
  BY DEF CreationInv
<1> QED BY <1>1, CreationInvHolds, PTL

(***************************************************************************)
(* The refinement: a step of a request is a step of the register or leaves *)
(* the register and the outcomes alone.                                    *)
(***************************************************************************)
Outs == [q \in Requests |-> Outcome(reply[q])]

\* What the register calls the answers.
LEMMA OutcomeIs ==
  ASSUME NEW answer \in Replies
  PROVE  /\ Outcome(answer) = "none" <=> answer = "none"
         /\ answer = "created" => Outcome(answer) = "created"
         /\ answer = "conflict" => Outcome(answer) = "conflict"
         /\ answer = "error" => Outcome(answer) = "failed"
         /\ answer \in {"invalid", "not_found", "forbidden"} =>
              Outcome(answer) = "refused"
BY DEF Outcome, Replies

\* An answer tells its outcome to a request that had none.
LEMMA RespondTells ==
  ASSUME CreationInv, NEW q \in Requests, request[q].step # "done",
         NEW answer \in Replies, Respond(q, answer), UNCHANGED transcript
  PROVE  Register!Tell(q, Outcome(answer))
<1>1. reply \in [Requests -> Replies]
  BY DEF CreationInv, TypeOK
<1>2. reply[q] = "none"
  BY DEF CreationInv, StepsAreTrue, StepIsTrue
<1>3. Outs[q] = "none"
  BY <1>1, <1>2, OutcomeIs DEF Outs
<1>4. reply' = [reply EXCEPT ![q] = answer]
  BY DEF Respond
<1>5. Outs' = [p \in Requests |-> Outcome(reply'[p])]
  BY DEF Outs, Outcome
<1>6. \A p \in Requests :
        Outcome(reply'[p]) = [Outs EXCEPT ![q] = Outcome(answer)][p]
  BY <1>1, <1>4 DEF Outs
<1>7. Outs' = [Outs EXCEPT ![q] = Outcome(answer)]
  <2> DEFINE f == [Outs EXCEPT ![q] = Outcome(answer)]
  <2>1. f = [p \in Requests |-> f[p]]
    BY DEF Outs
  <2> HIDE DEF f
  <2>2. [p \in Requests |-> Outcome(reply'[p])] = [p \in Requests |-> f[p]]
    BY <1>6 DEF f
  <2> QED BY <1>5, <2>1, <2>2 DEF f
<1> QED BY <1>3, <1>7 DEF Register!Tell, Outs

\* A request that is not past its insert has written nothing.
LEMMA NothingWritten ==
  ASSUME CreationInv, NEW q \in Requests,
         request[q].step \notin {"written", "done"}
  PROVE  Register!WroteNothing(q)
BY DEF CreationInv, StepsAreTrue, WriterIsKnown, Wrote, Register!WroteNothing,
       Register!Wrote

\* Every step is a step of the register, or leaves it as it is.
LEMMA RegisterStep ==
  ASSUME CreationInv, [Next]_vars
  PROVE  [Register!Next]_<<transcript, Outs>>
<1>1. TypeOK
  BY DEF CreationInv
<1>2. ASSUME UNCHANGED <<transcript, reply>>
      PROVE  UNCHANGED <<transcript, Outs>>
  BY <1>2 DEF Outs, Outcome
<1>3. ASSUME NEW q \in Requests, RejectContent(q)
      PROVE  Register!Refuse(q)
  BY <1>3, NothingWritten, RespondTells, OutcomeIs
  DEF RejectContent, At, Replies, Register!Refuse
<1>4. ASSUME NEW q \in Requests, AddTranscript(q),
             transcript[request[q].m] = Empty
      PROVE  Register!Write(q)
  <2>1. /\ request[q].m \in MeetingIds /\ request[q].step = "free"
        /\ StepIsTrue(q) /\ reply[q] \in Replies
    BY <1>1, <1>4, RequestFields
    DEF AddTranscript, CreationInv, StepsAreTrue, TypeOK
  <2>2. Outs[q] = "none" /\ request[q].c \in Contents
    BY <2>1, OutcomeIs DEF Outs, StepIsTrue
  <2>3. UNCHANGED Outs
    BY <1>4 DEF AddTranscript, Outs, Outcome
  <2>4. Register!WroteNothing(q)
    BY <2>1, NothingWritten
  <2>5. transcript' = [transcript EXCEPT ![request[q].m] =
                         [by |-> q, content |-> request[q].c]]
    BY <1>4 DEF AddTranscript
  <2> QED BY <1>4, <2>1, <2>2, <2>3, <2>4, <2>5 DEF Register!Write, Outs
<1>5. ASSUME NEW q \in Requests, AuditRefusal(q)
      PROVE  Register!Conflict(q) \/ Register!Refuse(q)
  <2> DEFINE answer == RefusalReply(request[q].reason)
  <2>1. /\ request[q].step = "refused" /\ StepIsTrue(q)
        /\ request[q].m \in MeetingIds
    BY <1>1, <1>5, RequestFields
    DEF AuditRefusal, At, CreationInv, StepsAreTrue, TypeOK
  <2>2. Register!WroteNothing(q)
    BY <2>1, NothingWritten
  <2>3. /\ answer \in {"not_found", "conflict", "forbidden"}
        /\ answer = "conflict" =>
             request[q].reason = "transcript_already_exists"
    BY DEF RefusalReply
  <2>4. Respond(q, answer) /\ UNCHANGED transcript
    BY <1>5 DEF AuditRefusal
  <2> HIDE DEF answer
  <2>5. Register!Tell(q, Outcome(answer))
    BY <2>1, <2>3, <2>4, RespondTells DEF Replies
  <2>6. CASE answer = "conflict"
    BY <2>1, <2>2, <2>3, <2>5, <2>6, OutcomeIs
    DEF StepIsTrue, Replies, Register!Conflict
  <2>7. CASE answer # "conflict"
    BY <2>2, <2>3, <2>5, <2>7, OutcomeIs DEF Replies, Register!Refuse
  <2> QED BY <2>6, <2>7
<1>6. ASSUME NEW q \in Requests, AuditCreation(q)
      PROVE  Register!Created(q)
  <2>1. /\ request[q].step = "written" /\ StepIsTrue(q)
        /\ request[q].m \in MeetingIds
    BY <1>1, <1>6, RequestFields
    DEF AuditCreation, At, CreationInv, StepsAreTrue, TypeOK
  <2>2. Register!Wrote(q, request[q].m)
    BY <2>1 DEF StepIsTrue, Wrote, Register!Wrote
  <2>3. Register!Tell(q, "created")
    BY <1>6, <2>1, RespondTells, OutcomeIs DEF AuditCreation, Replies
  <2> QED BY <2>1, <2>2, <2>3 DEF Register!Created
<1>7. ASSUME NEW q \in Requests, Fail(q)
      PROVE  Register!Fail(q)
  BY <1>7, RespondTells, OutcomeIs DEF Fail, Replies, Register!Fail
<1>8. CASE UNCHANGED vars
  BY <1>2, <1>8 DEF vars
<1>9. ASSUME NEW q \in Requests, RequestStep(q)
      PROVE  [Register!Next]_<<transcript, Outs>>
  <2>1. CASE RejectContent(q)
    BY <1>3, <2>1 DEF Register!Next
  <2>2. CASE ReadFacts(q) \/ CheckExists(q)
    BY <1>2, <2>2 DEF ReadFacts, CheckExists
  <2>3. CASE AddTranscript(q)
    <3>1. CASE transcript[request[q].m] = Empty
      BY <1>4, <2>3, <3>1 DEF Register!Next
    <3>2. CASE transcript[request[q].m] # Empty
      BY <1>2, <2>3, <3>2 DEF AddTranscript
    <3> QED BY <3>1, <3>2
  <2>4. CASE AuditRefusal(q)
    BY <1>5, <2>4 DEF Register!Next
  <2>5. CASE AuditCreation(q)
    BY <1>6, <2>5 DEF Register!Next
  <2> QED BY <1>9, <2>1, <2>2, <2>3, <2>4, <2>5 DEF RequestStep
<1>10. CASE Next
  <2>1. PICK q \in Requests :
          \/ \E u \in Users, m \in MeetingIds, c \in Contents \union {Blank} :
               Arrive(q, u, m, c)
          \/ RequestStep(q)
          \/ Fail(q)
    BY <1>10 DEF Next
  <2>2. CASE \E u \in Users, m \in MeetingIds, c \in Contents \union {Blank} :
               Arrive(q, u, m, c)
    BY <1>2, <2>2 DEF Arrive
  <2>3. CASE Fail(q)
    BY <1>7, <2>3 DEF Register!Next
  <2> QED BY <1>9, <2>1, <2>2, <2>3
<1> QED BY <1>8, <1>10

\* However uploads race, fail and are repeated, a meeting's transcript is written
\* at most once and never overwritten, only its writer is told 201, and whoever
\* is told 409, 403, 404 or 422 wrote nothing.
THEOREM CreationImplementsRegister == Spec => ImplementsRegister
<1>1. Init => Register!Init
  BY OutcomeIs DEF Init, Register!Init, Replies
<1>2. CreationInv /\ [Next]_vars => [Register!Next]_<<transcript, Outs>>
  BY RegisterStep
<1> QED
  BY <1>1, <1>2, CreationInvHolds, PTL
  DEF Spec, ImplementsRegister, Register!Spec, Outs
=============================================================================
