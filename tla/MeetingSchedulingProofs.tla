---------------------- MODULE MeetingSchedulingProofs ----------------------
(***************************************************************************)
(* What MeetingScheduling keeps for any number of requests, users and      *)
(* meetings, whatever row each load returns, and what it keeps when        *)
(* requests come one at a time.                                            *)
(*                                                                         *)
(* A row never goes, never changes its owner and, once rescheduled, stays  *)
(* so; RequestIsTrue says what a request's step implies about the row it is*)
(* about, and UndisturbedIsTrue what it implies as long as nobody else has *)
(* written that row: that every load returned the row as it is.            *)
(***************************************************************************)
EXTENDS MeetingScheduling, TLAPS

HasRow(m, u) == meeting[m] # NoMeeting /\ meeting[m].owner = u

\* The row a request asks for, given the text it had.
Wanted(q, text) ==
  [owner |-> q.u, text |-> IF q.c.text = Keep THEN text ELSE q.c.text,
   start |-> q.c.start, end |-> q.c.start + q.c.minutes, status |-> "rescheduled"]

RequestIsTrue(s) ==
  LET q == session[s] IN
  /\ q.step \in {"create", "asked", "managed", "edited", "based", "rescheduled"} =>
       Supported(q.c.minutes)
  /\ q.step = "create" => q.c.text # Keep
  /\ q.step \in {"managed", "edited", "based", "rescheduled", "created"} =>
       HasRow(q.m, q.u)
  /\ q.step \in {"managed", "edited", "based"} =>
       /\ q.held.owner = q.u
       /\ q.held.status = "rescheduled" => meeting[q.m].status = "rescheduled"
  /\ q.step \in {"edited", "based", "rescheduled"} =>
       \E text \in Texts : q.new = Wanted(q, text)
  /\ q.step = "rescheduled" => meeting[q.m].status = "rescheduled"
  /\ q.step = "refused" /\ q.reason = "not_authorized" =>
       meeting[q.m] # NoMeeting /\ meeting[q.m].owner # q.u

UndisturbedIsTrue(s) ==
  LET q == session[s] IN
  before[s] # Disturbed =>
    /\ q.step \in {"asked", "managed", "edited", "based"} => meeting[q.m] = before[s]
    /\ q.step \in {"managed", "edited", "based"} => q.held = before[s]
    /\ q.step \in {"edited", "based", "rescheduled"} =>
         q.new = Wanted(q, before[s].text)
    /\ q.step = "rescheduled" => meeting[q.m] = q.new

\* An audit row that speaks of a meeting's owner is of a meeting that is there.
AuditHasRow ==
  \A a \in audits :
    a.reason \in {"organizer", "not_authorized"} => meeting[a.m] # NoMeeting

SchedulingInv ==
  /\ TypeOK
  /\ \A s \in Sessions : RequestIsTrue(s) /\ UndisturbedIsTrue(s)
  /\ AuditHasRow
  /\ AuditAgrees

OneAtATime == \A s, t \in Sessions : s = t

SerialInv ==
  /\ SchedulingInv
  /\ \A s \in Sessions : before[s] # Disturbed
  /\ DurationIsSupported

-----------------------------------------------------------------------------
\* The fields of a request at each of its steps.
LEMMA SessionFields ==
  ASSUME NEW q \in Session
  PROVE  /\ q.step \in {"idle", "create", "asked", "managed", "edited", "based",
                        "created", "rescheduled", "refused"}
         /\ q.step = "idle" <=> q = Idle
         /\ q.step # "idle" => q.u \in Users
         /\ q.step \notin {"idle", "create"} => q.m \in MeetingIds
         /\ q.step \in {"create", "asked", "managed", "edited", "based", "rescheduled"} =>
              q.c \in Command
         /\ q.step \in {"managed", "edited", "based"} => q.held \in Row
         /\ q.step \in {"edited", "based", "rescheduled"} => q.new \in Row
         /\ q.step = "refused" => q.reason \in Reasons
BY DEF Session, Idle

\* A request moves alone.
LEMMA BecomeIs ==
  ASSUME TypeOK, NEW s \in Sessions, NEW q \in Session, Become(s, q)
  PROVE  /\ session' \in [Sessions -> Session]
         /\ session'[s] = q
         /\ \A r \in Sessions \ {s} : session'[r] = session[r]
BY DEF Become, TypeOK

\* What a merge leaves in each column.
LEMMA MergeIs ==
  ASSUME NEW row \in Row, NEW base \in Row, NEW new \in Row
  PROVE  LET merged == Merge(row, base, new) IN
         /\ merged \in Row
         /\ merged.owner = IF new.owner # base.owner THEN new.owner ELSE row.owner
         /\ merged.status = IF new.status # base.status THEN new.status ELSE row.status
         /\ row = base => merged = new
<1> DEFINE merged == Merge(row, base, new)
<1>1. DOMAIN row = {"owner", "text", "start", "end", "status"}
  BY DEF Row
<1>2. \A column \in DOMAIN row :
        merged[column] = IF new[column] # base[column] THEN new[column] ELSE row[column]
  BY DEF Merge
<1>3. merged = [owner |-> merged.owner, text |-> merged.text, start |-> merged.start,
                end |-> merged.end, status |-> merged.status]
  BY <1>1 DEF Merge
<1>4. /\ merged.owner = IF new.owner # base.owner THEN new.owner ELSE row.owner
      /\ merged.text = IF new.text # base.text THEN new.text ELSE row.text
      /\ merged.start = IF new.start # base.start THEN new.start ELSE row.start
      /\ merged.end = IF new.end # base.end THEN new.end ELSE row.end
      /\ merged.status = IF new.status # base.status THEN new.status ELSE row.status
  BY <1>1, <1>2
<1> HIDE DEF merged
<1>5. merged \in Row
  BY <1>3, <1>4 DEF Row
<1>6. ASSUME row = base
      PROVE  merged = new
  BY <1>3, <1>4, <1>6 DEF Row
<1> QED BY <1>4, <1>5, <1>6 DEF merged

\* Rows are told apart by their columns.
LEMMA RowsAreEqual ==
  ASSUME NEW x \in Row, NEW y \in Row,
         x.owner = y.owner, x.text = y.text, x.start = y.start, x.end = y.end,
         x.status = y.status
  PROVE  x = y
BY DEF Row

\* The fields of a command.
LEMMA CommandFields ==
  ASSUME NEW c \in Command
  PROVE  /\ c.start \in Nat /\ c.minutes \in Nat /\ c.start + c.minutes \in Nat
         /\ c.text \in Texts \union {Keep}
<1>1. Starts \subseteq Nat /\ Minutes \subseteq Nat
  BY SchedulingConstants
<1>2. c.start \in Nat /\ c.minutes \in Nat
  BY <1>1 DEF Command
<1> QED BY <1>2 DEF Command

\* An edited row is the row that was wanted.
LEMMA EditIs ==
  ASSUME NEW q, NEW row \in Row, q.c \in Command, row.owner = q.u
  PROVE  /\ Edit(row, q.c) \in Row
         /\ Edit(row, q.c) = Wanted(q, row.text)
<1> DEFINE c == q.c
           text == IF c.text = Keep THEN row.text ELSE c.text
           end == c.start + c.minutes
           new == [row EXCEPT !.start = c.start, !.end = end, !.text = text,
                              !.status = "rescheduled"]
<1>1. c.start \in Nat /\ end \in Nat /\ text \in Texts
  BY CommandFields DEF Row
<1>2. Edit(row, c) = new
  BY DEF Edit, Row
<1> HIDE DEF c, text, end
<1>3. new \in Row
  BY <1>1 DEF Row
<1>4. Wanted(q, row.text) =
        [owner |-> row.owner, text |-> text, start |-> c.start, end |-> end,
         status |-> "rescheduled"]
  BY DEF Wanted, c, text, end
<1>5. Wanted(q, row.text) \in Row
  BY <1>1, <1>4 DEF Row
<1>6. new = Wanted(q, row.text)
  <2>1. /\ new.owner = row.owner /\ new.text = text /\ new.start = c.start
        /\ new.end = end /\ new.status = "rescheduled"
    BY DEF Row
  <2> HIDE DEF new
  <2> QED BY <1>3, <1>4, <1>5, <2>1, RowsAreEqual
<1> QED BY <1>2, <1>3, <1>6 DEF c

-----------------------------------------------------------------------------
(***************************************************************************)
(* A request that does not move keeps what is said of it while rows keep   *)
(* their owners and stay rescheduled, and while it is disturbed or its row *)
(* is not written.                                                         *)
(***************************************************************************)
RowsEndure ==
  \A m \in MeetingIds :
    meeting[m] # NoMeeting =>
      /\ meeting'[m] # NoMeeting
      /\ meeting'[m].owner = meeting[m].owner
      /\ meeting[m].status = "rescheduled" => meeting'[m].status = "rescheduled"

\* What is true of a call that does not move stays true.
LEMMA OthersStayTrue ==
  ASSUME SchedulingInv, RowsEndure, NEW r \in Sessions, session'[r] = session[r],
         \/ before'[r] = Disturbed
         \/ /\ before'[r] = before[r]
            /\ session[r].step \notin {"idle", "create"} =>
                 meeting'[session[r].m] = meeting[session[r].m]
  PROVE  RequestIsTrue(r)' /\ UndisturbedIsTrue(r)'
<1>1. session[r] \in Session /\ RequestIsTrue(r) /\ UndisturbedIsTrue(r)
  BY DEF SchedulingInv, TypeOK
<1>2. RequestIsTrue(r)'
  BY <1>1, SessionFields DEF RequestIsTrue, RowsEndure, HasRow, Wanted
<1>3. UndisturbedIsTrue(r)'
  BY <1>1, SessionFields DEF UndisturbedIsTrue, Wanted
<1> QED BY <1>2, <1>3

\* What the audit trail says stays true while rows endure.
LEMMA AuditStaysTrue ==
  ASSUME SchedulingInv, RowsEndure, UNCHANGED audits
  PROVE  AuditHasRow' /\ AuditAgrees'
<1>1. \A a \in audits : a.m \in MeetingIds
  BY DEF SchedulingInv, TypeOK
<1>2. AuditHasRow'
  BY <1>1 DEF SchedulingInv, AuditHasRow, RowsEndure
<1>3. AuditAgrees'
  BY <1>1 DEF SchedulingInv, AuditHasRow, AuditAgrees, RowsEndure
<1> QED BY <1>2, <1>3

(***************************************************************************)
(* A request that goes on without a commit.                                *)
(***************************************************************************)
LEMMA MoveKeeps ==
  ASSUME SchedulingInv, NEW s \in Sessions, NEW q \in Session, Become(s, q),
         UNCHANGED <<meeting, audits>>,
         before' \in [Sessions -> Row \union {NoMeeting, Disturbed}],
         \A r \in Sessions \ {s} : before'[r] = before[r],
         RequestIsTrue(s)', UndisturbedIsTrue(s)'
  PROVE  SchedulingInv'
<1>1. /\ session' \in [Sessions -> Session]
      /\ \A r \in Sessions \ {s} : session'[r] = session[r]
  BY BecomeIs DEF SchedulingInv
<1>2. TypeOK'
  BY <1>1 DEF SchedulingInv, TypeOK
<1>3. RowsEndure
  BY DEF RowsEndure
<1>4. \A r \in Sessions \ {s} : RequestIsTrue(r)' /\ UndisturbedIsTrue(r)'
  BY <1>1, <1>3, OthersStayTrue
<1>5. AuditHasRow' /\ AuditAgrees'
  BY <1>3, AuditStaysTrue
<1> QED BY <1>2, <1>4, <1>5 DEF SchedulingInv

(***************************************************************************)
(* A request that goes on with a commit of the row of m.                   *)
(***************************************************************************)
LEMMA WriteKeeps ==
  ASSUME SchedulingInv, NEW s \in Sessions, NEW m \in MeetingIds, NEW row \in Row,
         Write(s, m, row), RowsEndure, NEW q \in Session, Become(s, q),
         UNCHANGED audits, RequestIsTrue(s)', UndisturbedIsTrue(s)'
  PROVE  SchedulingInv'
<1>1. /\ session' \in [Sessions -> Session]
      /\ \A r \in Sessions \ {s} : session'[r] = session[r]
  BY BecomeIs DEF SchedulingInv
<1>2. /\ meeting' \in [MeetingIds -> Row \union {NoMeeting}]
      /\ \A n \in MeetingIds \ {m} : meeting'[n] = meeting[n]
  BY DEF Write, SchedulingInv, TypeOK
<1>3. before' \in [Sessions -> Row \union {NoMeeting, Disturbed}]
  BY DEF Write, SchedulingInv, TypeOK
<1>4. TypeOK'
  BY <1>1, <1>2, <1>3 DEF SchedulingInv, TypeOK
<1>5. ASSUME NEW r \in Sessions \ {s}
      PROVE  RequestIsTrue(r)' /\ UndisturbedIsTrue(r)'
  <2>1. session[r] \in Session /\ session'[r] = session[r]
    BY <1>1 DEF SchedulingInv, TypeOK
  <2>2. CASE session[r].step \notin {"idle", "create"} /\ session[r].m = m
    <3>1. before'[r] = Disturbed
      BY <2>1, <2>2, SessionFields DEF Write
    <3> QED BY <2>1, <3>1, OthersStayTrue
  <2>3. CASE ~(session[r].step \notin {"idle", "create"} /\ session[r].m = m)
    <3>1. before'[r] = before[r]
      BY <2>1, <2>3, SessionFields DEF Write
    <3>2. session[r].step \notin {"idle", "create"} =>
            meeting'[session[r].m] = meeting[session[r].m]
      BY <1>2, <2>1, <2>3, SessionFields
    <3> QED BY <2>1, <3>1, <3>2, OthersStayTrue
  <2> QED BY <2>2, <2>3
<1>6. AuditHasRow' /\ AuditAgrees'
  BY AuditStaysTrue
<1> QED BY <1>4, <1>5, <1>6 DEF SchedulingInv

-----------------------------------------------------------------------------
\* A new request asks for a supported duration and finds the row as it is.
LEMMA AskKeeps ==
  ASSUME SchedulingInv, NEW s \in Sessions, NEW u \in Users, NEW c \in Command,
         \/ AskCreate(s, u, c)
         \/ \E m \in MeetingIds : AskReschedule(s, u, m, c)
  PROVE  SchedulingInv'
<1>1. CASE AskCreate(s, u, c)
  <2> DEFINE q == [step |-> "create", u |-> u, c |-> c]
  <2>1. q \in Session
    BY DEF Session
  <2>2. /\ Supported(c.minutes) /\ c.text # Keep /\ Become(s, q)
        /\ UNCHANGED <<meeting, audits, before>>
    BY <1>1 DEF AskCreate
  <2>3. session'[s] = q
    BY <2>1, <2>2, BecomeIs DEF SchedulingInv
  <2>4. RequestIsTrue(s)' /\ UndisturbedIsTrue(s)'
    BY <2>2, <2>3 DEF RequestIsTrue, UndisturbedIsTrue, Supported
  <2> QED BY <2>1, <2>2, <2>4, MoveKeeps DEF SchedulingInv, TypeOK
<1>2. ASSUME NEW m \in MeetingIds, AskReschedule(s, u, m, c)
      PROVE  SchedulingInv'
  <2> DEFINE q == [step |-> "asked", u |-> u, m |-> m, c |-> c]
  <2>1. q \in Session
    BY DEF Session
  <2>2. /\ Supported(c.minutes) /\ Become(s, q) /\ UNCHANGED <<meeting, audits>>
        /\ before' = [before EXCEPT ![s] = meeting[m]]
    BY <1>2 DEF AskReschedule
  <2>3. session'[s] = q
    BY <2>1, <2>2, BecomeIs DEF SchedulingInv
  <2>4. /\ before' \in [Sessions -> Row \union {NoMeeting, Disturbed}]
        /\ before'[s] = meeting[m]
        /\ \A r \in Sessions \ {s} : before'[r] = before[r]
    BY <2>2 DEF SchedulingInv, TypeOK
  <2>5. RequestIsTrue(s)' /\ UndisturbedIsTrue(s)'
    BY <2>2, <2>3, <2>4 DEF RequestIsTrue, UndisturbedIsTrue, Supported
  <2> QED BY <2>1, <2>2, <2>4, <2>5, MoveKeeps
<1> QED BY <1>1, <1>2

\* ReadFacts: the row is there and its caller's, or the refusal says which failed.
LEMMA ReadKeeps ==
  ASSUME SchedulingInv, NEW s \in Sessions, ReadFacts(s)
  PROVE  SchedulingInv'
<1> DEFINE q == session[s]
           row == meeting[q.m]
<1>1. /\ q \in Session /\ q.step = "asked" /\ q.m \in MeetingIds
      /\ q.u \in Users /\ q.c \in Command
      /\ row \in Row \union {NoMeeting}
      /\ RequestIsTrue(s) /\ UndisturbedIsTrue(s)
      /\ UNCHANGED <<meeting, audits, before>>
  BY SessionFields DEF ReadFacts, SchedulingInv, TypeOK
<1>2. before' \in [Sessions -> Row \union {NoMeeting, Disturbed}]
  BY <1>1 DEF SchedulingInv, TypeOK
<1>3. \/ /\ row # NoMeeting /\ row.owner = q.u
         /\ Become(s, [step |-> "managed", u |-> q.u, m |-> q.m, c |-> q.c,
                       held |-> row])
      \/ \E reason \in Reasons :
           /\ reason = "not_authorized" => row # NoMeeting /\ row.owner # q.u
           /\ Become(s, [step |-> "refused", u |-> q.u, m |-> q.m,
                         reason |-> reason])
  BY DEF ReadFacts, CanManageMeeting, Allows, AllowReasons, Reasons
<1>4. CASE /\ row # NoMeeting /\ row.owner = q.u
           /\ Become(s, [step |-> "managed", u |-> q.u, m |-> q.m, c |-> q.c,
                         held |-> row])
  <2> DEFINE new == [step |-> "managed", u |-> q.u, m |-> q.m, c |-> q.c, held |-> row]
  <2>1. new \in Session
    BY <1>1, <1>4 DEF Session
  <2>2. session'[s] = new
    BY <1>4, <2>1, BecomeIs DEF SchedulingInv
  <2>3. RequestIsTrue(s)'
    BY <1>1, <1>4, <2>2 DEF RequestIsTrue, HasRow, Supported
  <2>4. UndisturbedIsTrue(s)'
    BY <1>1, <2>2 DEF UndisturbedIsTrue
  <2> QED BY <1>1, <1>2, <1>4, <2>1, <2>3, <2>4, MoveKeeps
<1>5. ASSUME NEW reason \in Reasons,
             reason = "not_authorized" => row # NoMeeting /\ row.owner # q.u,
             Become(s, [step |-> "refused", u |-> q.u, m |-> q.m, reason |-> reason])
      PROVE  SchedulingInv'
  <2> DEFINE new == [step |-> "refused", u |-> q.u, m |-> q.m, reason |-> reason]
  <2>1. new \in Session
    BY <1>1 DEF Session
  <2>2. session'[s] = new
    BY <1>5, <2>1, BecomeIs DEF SchedulingInv
  <2>3. RequestIsTrue(s)' /\ UndisturbedIsTrue(s)'
    BY <1>1, <1>5, <2>2 DEF RequestIsTrue, UndisturbedIsTrue
  <2> QED BY <1>1, <1>2, <1>5, <2>1, <2>3, MoveKeeps
<1> QED BY <1>3, <1>4, <1>5

\* Whichever row a load returns, it has the owner and is no newer than the row.
LEMMA LoadIs ==
  ASSUME SchedulingInv, NEW s \in Sessions, NEW row \in Loads(s),
         session[s].step \in {"managed", "edited", "based"}
  PROVE  /\ row \in Row /\ row.owner = session[s].u
         /\ row.status = "rescheduled" => meeting[session[s].m].status = "rescheduled"
         /\ before[s] # Disturbed => row = before[s]
<1> DEFINE q == session[s]
<1>1. /\ q \in Session /\ RequestIsTrue(s) /\ UndisturbedIsTrue(s)
      /\ meeting \in [MeetingIds -> Row \union {NoMeeting}]
  BY DEF SchedulingInv, TypeOK
<1>2. q.m \in MeetingIds /\ q.held \in Row
  BY <1>1, SessionFields
<1>3. /\ HasRow(q.m, q.u) /\ q.held.owner = q.u
      /\ q.held.status = "rescheduled" => meeting[q.m].status = "rescheduled"
  BY <1>1 DEF RequestIsTrue
<1>4. meeting[q.m] \in Row
  BY <1>1, <1>2, <1>3 DEF HasRow
<1>5. before[s] # Disturbed => meeting[q.m] = before[s] /\ q.held = before[s]
  BY <1>1 DEF UndisturbedIsTrue
<1> QED BY <1>2, <1>3, <1>4, <1>5 DEF Loads, HasRow

\* EditMeeting: what is edited is what is wanted of the row it loaded.
LEMMA EditKeeps ==
  ASSUME SchedulingInv, NEW s \in Sessions, EditMeeting(s)
  PROVE  SchedulingInv'
<1> DEFINE q == session[s]
<1>1. PICK row \in Loads(s) :
        Become(s, [step |-> "edited", u |-> q.u, m |-> q.m, c |-> q.c,
                   held |-> row, new |-> Edit(row, q.c)])
  BY DEF EditMeeting
<1> DEFINE new == Edit(row, q.c)
           next == [step |-> "edited", u |-> q.u, m |-> q.m, c |-> q.c,
                    held |-> row, new |-> new]
<1>2. /\ q \in Session /\ q.step = "managed" /\ q.m \in MeetingIds
      /\ q.u \in Users /\ q.c \in Command
      /\ RequestIsTrue(s) /\ UndisturbedIsTrue(s)
      /\ UNCHANGED <<meeting, audits, before>>
  BY SessionFields DEF EditMeeting, SchedulingInv, TypeOK
<1>3. /\ row \in Row /\ row.owner = q.u
      /\ row.status = "rescheduled" => meeting[q.m].status = "rescheduled"
      /\ before[s] # Disturbed => row = before[s]
  BY <1>1, <1>2, LoadIs
<1>4. new \in Row /\ new = Wanted(q, row.text) /\ row.text \in Texts
  BY <1>2, <1>3, EditIs DEF Row
<1> HIDE DEF new
<1>5. next \in Session
  BY <1>2, <1>3, <1>4 DEF Session
<1>6. session'[s] = next
  BY <1>1, <1>5, BecomeIs DEF SchedulingInv, new
<1>7. \A text : Wanted(next, text) = Wanted(q, text)
  BY DEF Wanted
<1>8. RequestIsTrue(s)'
  <2>1. \E text \in Texts : next.new = Wanted(next, text)
    BY <1>4, <1>7
  <2>2. /\ next.step = "edited" /\ next.c = q.c /\ next.m = q.m /\ next.u = q.u
        /\ next.held = row
    OBVIOUS
  <2> HIDE DEF next
  <2>3. Supported(q.c.minutes) /\ HasRow(q.m, q.u)
    BY <1>2 DEF RequestIsTrue
  <2> QED BY <1>2, <1>3, <1>6, <2>1, <2>2, <2>3
          DEF RequestIsTrue, HasRow, Supported, Wanted
<1>9. UndisturbedIsTrue(s)'
  <2>1. /\ next.step = "edited" /\ next.m = q.m /\ next.held = row /\ next.new = new
        /\ next.u = q.u /\ next.c = q.c
    OBVIOUS
  <2> HIDE DEF next
  <2>2. before[s] # Disturbed => meeting[q.m] = before[s]
    BY <1>2 DEF UndisturbedIsTrue
  <2> QED BY <1>2, <1>3, <1>4, <1>6, <2>1, <2>2 DEF UndisturbedIsTrue, Wanted
<1>10. before' \in [Sessions -> Row \union {NoMeeting, Disturbed}]
  BY <1>2 DEF SchedulingInv, TypeOK
<1>11. Become(s, next)
  BY <1>1 DEF new
<1> QED BY <1>2, <1>5, <1>8, <1>9, <1>10, <1>11, MoveKeeps

\* LoadModel: the model is no newer than the row.
LEMMA LoadModelKeeps ==
  ASSUME SchedulingInv, NEW s \in Sessions, LoadModel(s)
  PROVE  SchedulingInv'
<1> DEFINE q == session[s]
<1>1. PICK row \in Loads(s) : Become(s, [q EXCEPT !.step = "based", !.held = row])
  BY DEF LoadModel
<1> DEFINE next == [q EXCEPT !.step = "based", !.held = row]
<1>2. /\ q \in Session /\ q.step = "edited"
      /\ RequestIsTrue(s) /\ UndisturbedIsTrue(s)
      /\ UNCHANGED <<meeting, audits, before>>
  BY DEF LoadModel, SchedulingInv, TypeOK
<1>3. /\ row \in Row /\ row.owner = q.u
      /\ row.status = "rescheduled" => meeting[q.m].status = "rescheduled"
      /\ before[s] # Disturbed => row = before[s]
  BY <1>1, <1>2, LoadIs
<1>4. q \in [step : {"edited", "based"}, u : Users, m : MeetingIds, c : Command,
             held : Row, new : Row]
  BY <1>2 DEF Session, Idle
<1>5. /\ next \in Session
      /\ next.step = "based" /\ next.m = q.m /\ next.held = row /\ next.new = q.new
      /\ next.u = q.u /\ next.c = q.c
  BY <1>3, <1>4 DEF Session
<1> HIDE DEF next
<1>6. session'[s] = next
  BY <1>1, <1>5, BecomeIs DEF SchedulingInv, next
<1>7. RequestIsTrue(s)'
  BY <1>2, <1>3, <1>5, <1>6 DEF RequestIsTrue, HasRow, Supported, Wanted
<1>8. UndisturbedIsTrue(s)'
  BY <1>2, <1>3, <1>5, <1>6 DEF UndisturbedIsTrue, Wanted
<1>9. before' \in [Sessions -> Row \union {NoMeeting, Disturbed}]
  BY <1>2 DEF SchedulingInv, TypeOK
<1>10. Become(s, next)
  BY <1>1 DEF next
<1> QED BY <1>2, <1>5, <1>7, <1>8, <1>9, <1>10, MoveKeeps

\* CreateMeeting: no other request can be on a meeting that is not there yet, but
\* one that was told so.
LEMMA CreateKeeps ==
  ASSUME SchedulingInv, NEW s \in Sessions, NEW m \in MeetingIds, CreateMeeting(s, m)
  PROVE  SchedulingInv'
<1> DEFINE q == session[s]
           row == [owner |-> q.u, text |-> q.c.text, start |-> q.c.start,
                   end |-> q.c.start + q.c.minutes, status |-> "scheduled"]
           next == [step |-> "created", u |-> q.u, m |-> m]
<1>1. /\ q \in Session /\ q.step = "create" /\ q.u \in Users /\ q.c \in Command
      /\ meeting[m] = NoMeeting /\ Write(s, m, row) /\ Become(s, next)
      /\ UNCHANGED audits
      /\ meeting \in [MeetingIds -> Row \union {NoMeeting}]
  BY SessionFields DEF CreateMeeting, SchedulingInv, TypeOK
<1>2. row \in Row
  BY <1>1, CommandFields DEF SchedulingInv, RequestIsTrue, Row
<1>3. /\ meeting'[m] = row /\ row # NoMeeting
      /\ \A n \in MeetingIds \ {m} : meeting'[n] = meeting[n]
  BY <1>1, <1>2, SchedulingConstants DEF Write, Row
<1>4. RowsEndure
  BY <1>1, <1>3 DEF RowsEndure
<1>5. next \in Session
  BY <1>1 DEF Session
<1>6. session'[s] = next
  BY <1>1, <1>5, BecomeIs DEF SchedulingInv
<1>7. RequestIsTrue(s)' /\ UndisturbedIsTrue(s)'
  BY <1>3, <1>6 DEF RequestIsTrue, UndisturbedIsTrue, HasRow
<1> HIDE DEF row, next
<1> QED BY <1>1, <1>2, <1>4, <1>5, <1>7, WriteKeeps

\* UpdateMeeting: the merge keeps the owner and makes the row rescheduled; if every
\* load returned the row as it is, it makes it the row that was wanted.
LEMMA UpdateKeeps ==
  ASSUME SchedulingInv, NEW s \in Sessions, UpdateMeeting(s)
  PROVE  /\ SchedulingInv'
         /\ session'[s].step = "rescheduled"
         /\ before'[s] # Disturbed =>
              /\ meeting' = [meeting EXCEPT ![session[s].m] = session[s].new]
              /\ session[s].m \in MeetingIds
              /\ \E text \in Texts : session[s].new = Wanted(session[s], text)
              /\ Supported(session[s].c.minutes) /\ session[s].c \in Command
<1> DEFINE q == session[s]
           base == meeting[q.m]
           row == Merge(base, q.held, q.new)
           next == [step |-> "rescheduled", u |-> q.u, m |-> q.m, c |-> q.c,
                    new |-> q.new]
<1>1. /\ q \in Session /\ q.step = "based" /\ q.u \in Users /\ q.c \in Command
      /\ q.m \in MeetingIds /\ q.held \in Row /\ q.new \in Row
      /\ RequestIsTrue(s) /\ UndisturbedIsTrue(s)
      /\ Write(s, q.m, row) /\ Become(s, next) /\ UNCHANGED audits
      /\ meeting \in [MeetingIds -> Row \union {NoMeeting}]
  BY SessionFields DEF UpdateMeeting, SchedulingInv, TypeOK
<1>2. /\ Supported(q.c.minutes)
      /\ base # NoMeeting /\ base.owner = q.u /\ q.held.owner = q.u
      /\ q.held.status = "rescheduled" => base.status = "rescheduled"
      /\ \E text \in Texts : q.new = Wanted(q, text)
  BY <1>1 DEF RequestIsTrue, HasRow
<1>3. base \in Row /\ q.new.owner = q.u /\ q.new.status = "rescheduled"
  BY <1>1, <1>2 DEF Wanted
<1>4. /\ row \in Row /\ row.owner = q.u /\ row.status = "rescheduled"
      /\ base = q.held => row = q.new
  <2>1. /\ row \in Row
        /\ row.owner = IF q.new.owner # q.held.owner THEN q.new.owner ELSE base.owner
        /\ row.status = IF q.new.status # q.held.status THEN q.new.status
                        ELSE base.status
        /\ base = q.held => row = q.new
    BY <1>1, <1>3, MergeIs
  <2> HIDE DEF row
  <2> QED BY <1>2, <1>3, <2>1
<1>5. before[s] # Disturbed => row = q.new /\ q.new = Wanted(q, before[s].text)
  BY <1>1, <1>4 DEF UndisturbedIsTrue
<1> HIDE DEF row
<1>6. /\ meeting' = [meeting EXCEPT ![q.m] = row] /\ row # NoMeeting
      /\ meeting'[q.m] = row
      /\ \A n \in MeetingIds \ {q.m} : meeting'[n] = meeting[n]
      /\ before'[s] = before[s]
  BY <1>1, <1>4, SchedulingConstants DEF Write, Row, SchedulingInv, TypeOK
<1>7. RowsEndure
  BY <1>2, <1>4, <1>6 DEF RowsEndure
<1>8. next \in Session
  BY <1>1 DEF Session
<1>9. session'[s] = next
  BY <1>1, <1>8, BecomeIs DEF SchedulingInv
<1>10. /\ next.step = "rescheduled" /\ next.m = q.m /\ next.u = q.u /\ next.c = q.c
       /\ next.new = q.new
  OBVIOUS
<1> HIDE DEF next
<1>11. RequestIsTrue(s)'
  BY <1>2, <1>4, <1>6, <1>9, <1>10 DEF RequestIsTrue, HasRow, Supported, Wanted
<1>12. UndisturbedIsTrue(s)'
  BY <1>5, <1>6, <1>9, <1>10 DEF UndisturbedIsTrue, Wanted
<1>13. SchedulingInv'
  BY <1>1, <1>4, <1>7, <1>8, <1>11, <1>12, WriteKeeps
<1> QED BY <1>1, <1>2, <1>5, <1>6, <1>9, <1>10, <1>13

\* AuditDecision: the row says what the request's step says.
LEMMA AuditKeeps ==
  ASSUME SchedulingInv, NEW s \in Sessions, AuditDecision(s)
  PROVE  SchedulingInv'
<1> DEFINE q == session[s]
<1>1. /\ q \in Session /\ q.step \in {"created", "rescheduled", "refused"}
      /\ q.u \in Users /\ q.m \in MeetingIds
      /\ RequestIsTrue(s) /\ End(s) /\ UNCHANGED meeting
  BY SessionFields DEF AuditDecision, SchedulingInv, TypeOK
<1>2. PICK action \in {"create", "reschedule"}, reason \in Reasons \union {"organizer"} :
        /\ Audit(action, q.u, q.m, reason)
        /\ reason = "organizer" =>
             q.step = "rescheduled" \/ (q.step = "created" /\ action = "create")
        /\ reason = "not_authorized" => q.step = "refused" /\ q.reason = reason
  <2>1. "organizer" \in Reasons \union {"organizer"} /\ "organizer" # "not_authorized"
    OBVIOUS
  <2>2. CASE q.step = "created"
    BY <1>1, <2>1, <2>2 DEF AuditDecision
  <2>3. CASE q.step = "rescheduled"
    BY <1>1, <2>1, <2>3 DEF AuditDecision
  <2>4. CASE q.step = "refused"
    <3>1. q.reason \in Reasons /\ Audit("reschedule", q.u, q.m, q.reason)
      BY <1>1, <2>4, SessionFields DEF AuditDecision
    <3> QED BY <2>4, <3>1 DEF Reasons
  <2> QED BY <1>1, <2>2, <2>3, <2>4
<1> DEFINE a == [action |-> action, u |-> q.u, m |-> q.m, reason |-> reason]
<1> HIDE DEF q
<1>3. Idle \in Session /\ Become(s, Idle) /\ before' = [before EXCEPT ![s] = NoMeeting]
  BY <1>1 DEF End, Session
<1>4. /\ session' \in [Sessions -> Session] /\ session'[s] = Idle
      /\ \A r \in Sessions \ {s} : session'[r] = session[r]
  BY <1>3, BecomeIs DEF SchedulingInv
<1>5. TypeOK'
  <2>1. a \in [action : {"create", "reschedule"}, u : Users, m : MeetingIds,
               reason : Reasons \union {"organizer"}]
    BY <1>1, <1>2
  <2>2. audits' = audits \union {a}
    BY <1>2 DEF Audit
  <2>3. before' \in [Sessions -> Row \union {NoMeeting, Disturbed}]
    BY <1>3 DEF SchedulingInv, TypeOK
  <2> QED BY <1>1, <1>4, <2>1, <2>2, <2>3 DEF SchedulingInv, TypeOK
<1>6. RowsEndure
  BY <1>1 DEF RowsEndure
<1>7. \A r \in Sessions \ {s} : RequestIsTrue(r)' /\ UndisturbedIsTrue(r)'
  BY <1>1, <1>3, <1>4, <1>6, OthersStayTrue DEF SchedulingInv, TypeOK
<1>8. RequestIsTrue(s)' /\ UndisturbedIsTrue(s)'
  BY <1>4 DEF RequestIsTrue, UndisturbedIsTrue, Idle
<1>9. /\ a.reason \in {"organizer", "not_authorized"} => meeting[q.m] # NoMeeting
      /\ a.reason = "organizer" =>
           /\ meeting[q.m].owner = q.u
           /\ a.action = "reschedule" => meeting[q.m].status = "rescheduled"
      /\ a.reason = "not_authorized" => meeting[q.m].owner # q.u
  BY <1>1, <1>2 DEF RequestIsTrue, HasRow, q
<1>10. AuditHasRow' /\ AuditAgrees'
  BY <1>1, <1>2, <1>9 DEF SchedulingInv, AuditHasRow, AuditAgrees, Audit
<1> QED BY <1>5, <1>7, <1>8, <1>10 DEF SchedulingInv

\* Fail: the request is gone, what it committed is not.
LEMMA FailKeeps ==
  ASSUME SchedulingInv, NEW s \in Sessions, Fail(s)
  PROVE  SchedulingInv'
<1>1. /\ Idle \in Session /\ Become(s, Idle)
      /\ before' = [before EXCEPT ![s] = NoMeeting]
      /\ UNCHANGED <<meeting, audits>>
  BY DEF Fail, End, Session
<1>2. session'[s] = Idle
  BY <1>1, BecomeIs DEF SchedulingInv
<1>3. RequestIsTrue(s)' /\ UndisturbedIsTrue(s)'
  BY <1>2 DEF RequestIsTrue, UndisturbedIsTrue, Idle
<1>4. /\ before' \in [Sessions -> Row \union {NoMeeting, Disturbed}]
      /\ \A r \in Sessions \ {s} : before'[r] = before[r]
  BY <1>1 DEF SchedulingInv, TypeOK
<1> QED BY <1>1, <1>3, <1>4, MoveKeeps

-----------------------------------------------------------------------------
\* Nothing is scheduled yet.
LEMMA InitIsTrue == Init => SchedulingInv
<1> SUFFICES ASSUME Init PROVE SchedulingInv
  OBVIOUS
<1>1. TypeOK
  BY DEF Init, TypeOK, Session
<1>2. \A s \in Sessions : RequestIsTrue(s) /\ UndisturbedIsTrue(s)
  BY DEF Init, Idle, RequestIsTrue, UndisturbedIsTrue
<1>3. AuditHasRow /\ AuditAgrees
  BY DEF Init, AuditHasRow, AuditAgrees
<1> QED BY <1>1, <1>2, <1>3 DEF SchedulingInv

\* Every step of every call keeps what is true.
LEMMA NextKeeps == SchedulingInv /\ [Next]_vars => SchedulingInv'
<1>1. CASE UNCHANGED vars
  <2>1. SchedulingInv /\ UNCHANGED vars => SchedulingInv'
    BY DEF vars, SchedulingInv, TypeOK, RequestIsTrue, UndisturbedIsTrue, HasRow,
           AuditHasRow, AuditAgrees
  <2> QED BY <1>1, <2>1
<1> QED
  BY <1>1, AskKeeps, ReadKeeps, EditKeeps, LoadModelKeeps, CreateKeeps, UpdateKeeps,
     AuditKeeps, FailKeeps
  DEF Next

\* The invariant holds of any number of requests.
THEOREM SchedulingInvHolds == Spec => []SchedulingInv
BY InitIsTrue, NextKeeps, PTL DEF Spec

\* Rows, requests and audit rows stay within their types.
THEOREM SchedulingIsTyped == Spec => []TypeOK
<1>1. SchedulingInv => TypeOK
  BY DEF SchedulingInv
<1> QED BY <1>1, SchedulingInvHolds, PTL

\* Whatever others do to other meetings, and whatever row its loads return, a
\* reschedule that nobody else's write met is exact.
THEOREM RescheduleIsExact == Spec => []UndisturbedIsExact
<1>1. ASSUME SchedulingInv, NEW s \in Sessions,
             session[s].step = "rescheduled", before[s] # Disturbed
      PROVE  LET q == session[s] IN
             /\ meeting[q.m] = q.new
             /\ q.new = [owner |-> q.u,
                         text |-> IF q.c.text = Keep THEN before[s].text ELSE q.c.text,
                         start |-> q.c.start,
                         end |-> q.c.start + q.c.minutes,
                         status |-> "rescheduled"]
             /\ Supported(q.new.end - q.new.start)
  <2> DEFINE q == session[s]
  <2>1. /\ q \in Session /\ q.c \in Command
        /\ meeting[q.m] = q.new /\ q.new = Wanted(q, before[s].text)
        /\ Supported(q.c.minutes)
    BY <1>1, SessionFields
    DEF SchedulingInv, TypeOK, RequestIsTrue, UndisturbedIsTrue
  <2>2. q.c.start \in Nat /\ q.c.minutes \in Nat
    BY <2>1, CommandFields
  <2>3. q.new.end = q.c.start + q.c.minutes /\ q.new.start = q.c.start
    BY <2>1 DEF Wanted
  <2>4. q.new.end - q.new.start = q.c.minutes
    BY <2>2, <2>3
  <2> QED BY <2>1, <2>4 DEF Wanted
<1>2. SchedulingInv => UndisturbedIsExact
  BY <1>1 DEF UndisturbedIsExact
<1> QED BY <1>2, SchedulingInvHolds, PTL

\* The audit trail tells no reschedule that did not happen and no wrong refusal,
\* however many requests write the rows it speaks of.
THEOREM AuditTrailAgrees == Spec => []AuditAgrees
<1>1. SchedulingInv => AuditAgrees
  BY DEF SchedulingInv
<1> QED BY <1>1, SchedulingInvHolds, PTL

-----------------------------------------------------------------------------
(***************************************************************************)
(* One request at a time: nobody disturbs it, so its update leaves exactly *)
(* the row it wants.                                                       *)
(***************************************************************************)
LEMMA SerialStep ==
  ASSUME OneAtATime, SerialInv, [Next]_vars
  PROVE  SerialInv'
<1>1. SchedulingInv'
  BY NextKeeps DEF SerialInv
<1>2. \A s \in Sessions : before'[s] # Disturbed
  <2>1. \A s \in Sessions : before[s] # Disturbed
    BY DEF SerialInv
  <2>2. \A m \in MeetingIds : meeting[m] # Disturbed
    BY SchedulingConstants DEF SerialInv, SchedulingInv, TypeOK, Row
  <2>3. before \in [Sessions -> Row \union {NoMeeting, Disturbed}]
    BY DEF SerialInv, SchedulingInv, TypeOK
  <2>4. ASSUME NEW s \in Sessions, NEW u \in Users, NEW c \in Command,
               NEW m \in MeetingIds, AskReschedule(s, u, m, c)
        PROVE  \A r \in Sessions : before'[r] # Disturbed
    BY <2>1, <2>2, <2>3, <2>4 DEF AskReschedule
  <2>5. ASSUME NEW s \in Sessions, NEW m, NEW row, Write(s, m, row)
        PROVE  \A r \in Sessions : before'[r] # Disturbed
    BY <2>1, <2>5 DEF Write, OneAtATime
  <2>6. ASSUME NEW s \in Sessions, End(s)
        PROVE  \A r \in Sessions : before'[r] # Disturbed
    BY <2>1, <2>3, <2>6, SchedulingConstants DEF End
  <2>7. CASE UNCHANGED before
    BY <2>1, <2>7
  <2> QED BY <2>4, <2>5, <2>6, <2>7
          DEF Next, vars, AskCreate, CreateMeeting, ReadFacts, EditMeeting, LoadModel,
              UpdateMeeting, AuditDecision, Fail
<1>3. DurationIsSupported'
  <2>1. /\ DurationIsSupported
        /\ SchedulingInv
        /\ meeting \in [MeetingIds -> Row \union {NoMeeting}]
    BY DEF SerialInv, SchedulingInv, TypeOK
  <2>2. CASE UNCHANGED meeting
    BY <2>1, <2>2 DEF DurationIsSupported
  <2>3. ASSUME NEW s \in Sessions, NEW m \in MeetingIds, CreateMeeting(s, m)
        PROVE  DurationIsSupported'
    <3> DEFINE q == session[s]
               row == [owner |-> q.u, text |-> q.c.text, start |-> q.c.start,
                       end |-> q.c.start + q.c.minutes, status |-> "scheduled"]
    <3>1. /\ q.c \in Command /\ Supported(q.c.minutes)
          /\ meeting' = [meeting EXCEPT ![m] = row]
      BY <2>1, <2>3, SessionFields
      DEF CreateMeeting, Write, SchedulingInv, TypeOK, RequestIsTrue
    <3>2. /\ row.start + MinimumMinutes <= row.end
          /\ row.end <= row.start + MaximumMinutes
      BY <3>1, CommandFields, SchedulingConstants DEF Supported
    <3> HIDE DEF row
    <3> QED BY <2>1, <3>1, <3>2 DEF DurationIsSupported
  <2>4. ASSUME NEW s \in Sessions, UpdateMeeting(s)
        PROVE  DurationIsSupported'
    <3> DEFINE q == session[s]
    <3>1. /\ meeting' = [meeting EXCEPT ![q.m] = q.new] /\ q.m \in MeetingIds
          /\ Supported(q.c.minutes) /\ q.c \in Command
          /\ \E text \in Texts : q.new = Wanted(q, text)
      BY <1>2, <2>1, <2>4, UpdateKeeps
    <3>2. q.new.start = q.c.start /\ q.new.end = q.c.start + q.c.minutes
      BY <3>1 DEF Wanted
    <3>3. /\ q.new.start + MinimumMinutes <= q.new.end
          /\ q.new.end <= q.new.start + MaximumMinutes
      BY <3>1, <3>2, CommandFields, SchedulingConstants DEF Supported
    <3> QED BY <2>1, <3>1, <3>3 DEF DurationIsSupported
  <2> QED BY <2>2, <2>3, <2>4
          DEF Next, vars, AskCreate, AskReschedule, ReadFacts, EditMeeting, LoadModel,
              AuditDecision, Fail, End
<1> QED BY <1>1, <1>2, <1>3 DEF SerialInv

\* When requests come one at a time, every meeting lasts a supported time.
THEOREM SerialDurationIsSupported ==
  ASSUME OneAtATime
  PROVE  Spec => []DurationIsSupported
<1>1. Init => SerialInv
  BY InitIsTrue, SchedulingConstants
  DEF Init, SerialInv, DurationIsSupported
<1>2. SerialInv /\ [Next]_vars => SerialInv'
  BY SerialStep
<1>3. SerialInv => DurationIsSupported
  BY DEF SerialInv
<1> QED BY <1>1, <1>2, <1>3, PTL DEF Spec
=============================================================================
