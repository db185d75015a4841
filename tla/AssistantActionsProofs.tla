----------------------- MODULE AssistantActionsProofs -----------------------
(***************************************************************************)
(* What AssistantActions keeps for any number of users, meetings and       *)
(* requests, whatever other calls change between a request's statements.   *)
(*                                                                         *)
(* GrantsAreGrounded and RefusalsAreGrounded speak of the time between two *)
(* SELECTs, of which the server knows only the one fact it carries over;   *)
(* CarriedIsTrue says what that fact was worth.  StepIsTrue says what each *)
(* step implies about the decision, the change and the rows committed.     *)
(***************************************************************************)
EXTENDS AssistantActions, TLAPS

Before == {"idle", "asking", "decided", "facts"}
Ended == {"auditing", "answered", "failed"}

\* Of a request at each of its steps.
StepIsTrue(r) ==
  LET q == req[r] IN
  /\ q.step \in {"decided", "facts", "mutating", "mutated"} => q.action # "none"
  /\ q.step \in {"facts", "mutating", "mutated"} => q.action \in ActionIds
  /\ q.step = "facts" => q.m \in Meetings
  /\ q.step \notin Ended => q.status = "none"
  /\ q.step \in Before \union {"mutating"} => r \notin effects
  /\ q.step \in {"mutating", "mutated"} => Justifies(seen[r], q.action)

\* Of the rows it has committed.
TrailIsTrue(r) ==
  LET q == req[r] IN
  /\ q.step \in Before \union {"mutating", "mutated"} => audit[r] = << >>
  /\ q.step = "mutated" => r \in effects
  /\ q.step = "auditing" =>
       audit[r] = IF r \in effects THEN <<"scheduled">> ELSE << >>
  /\ q.step = "auditing" =>
       /\ q.event \in Events
       /\ q.event = "rejected" <=> q.status \notin Granting
       /\ r \in effects => q.event = "executed"
  /\ q.step = "answered" =>
      /\ audit[r] = (IF r \in effects THEN <<"scheduled">> ELSE << >>)
                      \o <<q.event>>
      /\ q.event = "rejected" <=> q.status \notin Granting
      /\ r \in effects => q.event = "executed"

\* Of what it has seen: all that is so now, and what it carries over from its
\* first SELECT.
CarriedIsTrue(r) ==
  LET q == req[r] IN
  q.action # "none" =>
    /\ FactsOn(q) \subseteq seen[r]
    /\ kept[r] \subseteq FactsOn(q)
    /\ q.step = "facts" =>
         /\ q.active => "active" \in seen[r]
         /\ ~q.active => "active" \notin kept[r]

\* Of its decision.
DecisionIsTrue(r) ==
  LET q == req[r] IN
  /\ q.status \in Granting \/ r \in effects =>
       Justifies(seen[r], q.action) /\ q.action # "none"
  /\ q.status \in {"access_denied", "not_found"} =>
       ~Justifies(kept[r], q.action) /\ q.action # "none"

RequestIsTrue(r) ==
  StepIsTrue(r) /\ TrailIsTrue(r) /\ CarriedIsTrue(r) /\ DecisionIsTrue(r)

ActionsInv == ActionsTypeOK /\ \A r \in Requests : RequestIsTrue(r)

-----------------------------------------------------------------------------
\* More facts justify no less.
LEMMA JustifiesGrows ==
  ASSUME NEW facts, NEW more, facts \subseteq more, NEW a, Justifies(facts, a)
  PROVE  Justifies(more, a)
BY DEF Justifies

\* What each permission asks of the facts.
LEMMA JustifiedBy ==
  ASSUME NEW a \in ActionIds, NEW facts
  PROVE  /\ Permission[a] \in {"authenticated", "meeting", "meeting_organizer",
                               "transcript", "confidential_notes"}
         /\ Permission[a] = "authenticated" => Justifies(facts, a)
         /\ Permission[a] = "meeting" =>
              (Justifies(facts, a) <=> "organizer" \in facts \/ "active" \in facts)
         /\ Permission[a] = "meeting_organizer" =>
              (Justifies(facts, a) <=> "organizer" \in facts)
         /\ Permission[a] = "transcript" =>
              (Justifies(facts, a) <=>
                 /\ "organizer" \in facts \/ "active" \in facts
                 /\ "transcript" \in facts)
         /\ Permission[a] = "confidential_notes" =>
              (Justifies(facts, a) <=>
                 \/ "organizer" \in facts
                 \/ "active" \in facts /\ "granted" \in facts)
<1>1. Permission[a] \in {"authenticated", "meeting", "meeting_organizer",
                         "transcript", "confidential_notes"}
  BY DEF ActionIds, Permission
<1> DEFINE p == Permission[a]
<1>2. Justifies(facts, a) <=> \E basis \in Basis[p] : basis \subseteq facts
  BY DEF Justifies
<1> HIDE DEF p
<1>3. /\ p = "authenticated" => Basis[p] = {{}}
      /\ p = "meeting" => Basis[p] = {{"organizer"}, {"active"}}
      /\ p = "meeting_organizer" => Basis[p] = {{"organizer"}}
      /\ p = "transcript" =>
           Basis[p] = {{"organizer", "transcript"}, {"active", "transcript"}}
      /\ p = "confidential_notes" => Basis[p] = {{"organizer"}, {"active", "granted"}}
  BY DEF Basis
<1> DEFINE Some(B) == \E basis \in B : basis \subseteq facts
<1>4. Some({{}})
  OBVIOUS
<1>5. Some({{"organizer"}, {"active"}}) <=> "organizer" \in facts \/ "active" \in facts
  OBVIOUS
<1>6. Some({{"organizer"}}) <=> "organizer" \in facts
  OBVIOUS
<1>7. Some({{"organizer", "transcript"}, {"active", "transcript"}}) <=>
        /\ "organizer" \in facts \/ "active" \in facts
        /\ "transcript" \in facts
  OBVIOUS
<1>8. Some({{"organizer"}, {"active", "granted"}}) <=>
        \/ "organizer" \in facts
        \/ "active" \in facts /\ "granted" \in facts
  OBVIOUS
<1>9. Justifies(facts, a) <=> Some(Basis[p])
  BY <1>2
<1> HIDE DEF Some
<1> QED BY <1>1, <1>3, <1>4, <1>5, <1>6, <1>7, <1>8, <1>9 DEF p

\* The facts on a meeting, one by one.
LEMMA FactsAre ==
  ASSUME NEW q, q.m \in Meetings
  PROVE  /\ "organizer" \in FactsOn(q) <=> q.u = Organizer[q.m]
         /\ "active" \in FactsOn(q) <=> <<q.m, q.u>> \in active
         /\ "granted" \in FactsOn(q) <=> <<q.m, q.u>> \in granted
         /\ "transcript" \in FactsOn(q) <=> q.m \in transcript
BY DEF FactsOn, FactNames

\* A request moves alone.
LEMMA GoIs ==
  ASSUME ActionsTypeOK, NEW r \in Requests, NEW q \in RequestRecord, Go(r, q)
  PROVE  /\ req' \in [Requests -> RequestRecord]
         /\ req'[r] = q
         /\ \A p \in Requests \ {r} : req'[p] = req[p]
BY DEF Go, ActionsTypeOK

\* What every step adds to seen and leaves in kept.
LEMMA ObserveIs ==
  ASSUME ActionsTypeOK, Observe, NEW r \in Requests
  PROVE  /\ req'[r].action = "none" => seen'[r] = {}
         /\ req'[r].action # "none" => seen'[r] = seen[r] \union FactsOn(req[r])'
         /\ req[r].action = "none" => kept'[r] = FactsOn(req[r])'
         /\ req[r].action # "none" => kept'[r] = kept[r] \intersect FactsOn(req[r])'
BY DEF Observe, FactsNow

\* Seen and kept facts stay facts.
LEMMA ObserveTypes ==
  ASSUME ActionsTypeOK, Observe
  PROVE  /\ seen' \in [Requests -> SUBSET FactNames]
         /\ kept' \in [Requests -> SUBSET FactNames]
<1>1. \A r \in Requests : FactsOn(req[r])' \subseteq FactNames
  BY DEF FactsOn
<1>2. FactsNow' = [r \in Requests |-> FactsOn(req[r])']
  BY DEF FactsNow
<1> QED BY <1>1, <1>2 DEF Observe, ActionsTypeOK

(***************************************************************************)
(* A request that does not move, whatever happens to the tables.           *)
(***************************************************************************)
LEMMA OthersStayTrue ==
  ASSUME ActionsInv, Observe, NEW r \in Requests, req'[r] = req[r],
         audit'[r] = audit[r], r \in effects' <=> r \in effects
  PROVE  RequestIsTrue(r)'
<1>1. RequestIsTrue(r) /\ ActionsTypeOK
  BY DEF ActionsInv
<1>2. req[r].action # "none" => seen[r] \subseteq seen'[r] /\ kept'[r] \subseteq kept[r]
  BY <1>1, ObserveIs
<1>3. StepIsTrue(r)'
  BY <1>1, <1>2, JustifiesGrows DEF RequestIsTrue, StepIsTrue
<1>4. TrailIsTrue(r)'
  BY <1>1 DEF RequestIsTrue, TrailIsTrue
<1>5. CarriedIsTrue(r)'
  BY <1>1, <1>2, ObserveIs DEF RequestIsTrue, CarriedIsTrue
<1>6. DecisionIsTrue(r)'
  BY <1>1, <1>2, JustifiesGrows DEF RequestIsTrue, DecisionIsTrue
<1> QED BY <1>3, <1>4, <1>5, <1>6 DEF RequestIsTrue

(***************************************************************************)
(* A request that moves: the rest follows from what is true of it then.    *)
(***************************************************************************)
LEMMA MoveKeeps ==
  ASSUME ActionsInv, Observe, UNCHANGED tables,
         NEW r \in Requests, NEW q \in RequestRecord, Go(r, q),
         effects' \subseteq Requests,
         \A p \in Requests \ {r} : p \in effects' <=> p \in effects,
         audit' \in [Requests -> Seq(Events \union {"scheduled"})],
         \A p \in Requests \ {r} : audit'[p] = audit[p],
         RequestIsTrue(r)'
  PROVE  ActionsInv'
<1>1. /\ req' \in [Requests -> RequestRecord]
      /\ \A p \in Requests \ {r} : req'[p] = req[p]
  BY GoIs DEF ActionsInv
<1>2. ActionsTypeOK'
  BY <1>1, ObserveTypes DEF ActionsInv, ActionsTypeOK, tables
<1>3. \A p \in Requests \ {r} : RequestIsTrue(p)'
  BY <1>1, OthersStayTrue
<1> QED BY <1>2, <1>3 DEF ActionsInv

(***************************************************************************)
(* Once its action is known a request that moves learns nothing new of     *)
(* tables that stay as they are.                                           *)
(***************************************************************************)
LEMMA MoveSees ==
  ASSUME ActionsInv, Observe, UNCHANGED tables, NEW r \in Requests,
         req[r].action # "none", req'[r].action = req[r].action,
         req'[r].m = req[r].m, req'[r].u = req[r].u
  PROVE  /\ seen'[r] = seen[r] /\ kept'[r] = kept[r]
         /\ FactsOn(req[r])' = FactsOn(req[r])
         /\ FactsOn(req[r]) \subseteq seen[r] /\ kept[r] \subseteq FactsOn(req[r])
<1>1. FactsOn(req[r])' = FactsOn(req[r])
  BY DEF FactsOn, tables
<1>2. FactsOn(req[r]) \subseteq seen[r] /\ kept[r] \subseteq FactsOn(req[r])
  BY DEF ActionsInv, RequestIsTrue, CarriedIsTrue
<1>3. /\ seen'[r] = seen[r] \union FactsOn(req[r])
      /\ kept'[r] = kept[r] \intersect FactsOn(req[r])
  BY <1>1, ObserveIs DEF ActionsInv
<1> QED BY <1>1, <1>2, <1>3

\* The record of a request whose audit row is due.
LEMMA ToAuditIs ==
  ASSUME NEW q \in RequestRecord, NEW event \in Events, NEW reason \in Reasons,
         NEW status \in Statuses
  PROVE  LET n == ToAudit(q, event, reason, status) IN
         /\ n \in RequestRecord
         /\ n.step = "auditing" /\ n.event = event /\ n.status = status
         /\ n.action = q.action /\ n.m = q.m /\ n.u = q.u
BY DEF ToAudit, RequestRecord

\* A request that is decided: what is to be shown of the decision.
LEMMA AuditKeeps ==
  ASSUME ActionsInv, Observe, UNCHANGED tables, NEW r \in Requests,
         NEW q \in RequestRecord, NEW event \in Events, NEW reason \in Reasons,
         NEW status \in Statuses, Go(r, ToAudit(q, event, reason, status)),
         UNCHANGED effects,
         audit' \in [Requests -> Seq(Events \union {"scheduled"})],
         \A p \in Requests \ {r} : audit'[p] = audit[p],
         audit'[r] = IF r \in effects THEN <<"scheduled">> ELSE << >>,
         event = "rejected" <=> status \notin Granting,
         r \in effects => event = "executed",
         status \in Granting \/ r \in effects =>
           Justifies(seen'[r], q.action) /\ q.action # "none",
         status \in {"access_denied", "not_found"} =>
           ~Justifies(kept'[r], q.action) /\ q.action # "none"
  PROVE  ActionsInv'
<1> DEFINE n == ToAudit(q, event, reason, status)
<1>1. /\ n \in RequestRecord
      /\ n.step = "auditing" /\ n.event = event /\ n.status = status
      /\ n.action = q.action /\ n.m = q.m /\ n.u = q.u
  BY ToAuditIs
<1>2. Go(r, n)
  OBVIOUS
<1> HIDE DEF n
<1>3. req'[r] = n
  BY <1>1, <1>2, GoIs DEF ActionsInv
<1>4. StepIsTrue(r)'
  BY <1>1, <1>3 DEF StepIsTrue, Before, Ended
<1>5. TrailIsTrue(r)'
  BY <1>1, <1>3 DEF TrailIsTrue, Before
<1>6. CarriedIsTrue(r)'
  BY <1>1, <1>3, ObserveIs DEF CarriedIsTrue, ActionsInv
<1>7. DecisionIsTrue(r)'
  BY <1>1, <1>3 DEF DecisionIsTrue
<1>8. RequestIsTrue(r)'
  BY <1>4, <1>5, <1>6, <1>7 DEF RequestIsTrue
<1>9. effects' \subseteq Requests
  BY DEF ActionsInv, ActionsTypeOK
<1> QED BY <1>1, <1>2, <1>8, <1>9, MoveKeeps

\* Every reason has the status of a refusal.
LEMMA StatusIs ==
  ASSUME NEW reason
  PROVE  /\ StatusOf(reason) \in Statuses \ Granting
         /\ StatusOf(reason) \in {"access_denied", "not_found"} =>
              reason \in DenyReasons \union {"resource_not_found"}
BY DEF StatusOf, Statuses, Granting

\* A request that is refused before anything was changed.
LEMMA RejectKeeps ==
  ASSUME ActionsInv, Observe, UNCHANGED tables, NEW r \in Requests,
         req[r].step \in Before, NEW q \in RequestRecord, NEW reason \in Reasons,
         Go(r, Rejected(q, reason)), UNCHANGED <<effects, audit>>,
         reason \in DenyReasons \union {"resource_not_found"} =>
           ~Justifies(kept'[r], q.action) /\ q.action # "none"
  PROVE  ActionsInv'
<1>1. Go(r, ToAudit(q, "rejected", reason, StatusOf(reason)))
  BY DEF Rejected
<1>2. r \notin effects /\ audit[r] = << >> /\ ActionsTypeOK
  BY DEF ActionsInv, RequestIsTrue, StepIsTrue, TrailIsTrue
<1>3. "rejected" \in Events
  BY DEF Events
<1> QED BY <1>1, <1>2, <1>3, StatusIs, AuditKeeps DEF ActionsTypeOK

\* What holds of a request about to conclude.
Concludes(r) ==
  /\ req[r] \in RequestRecord
  /\ req[r].step \in {"decided", "facts"}
  /\ req[r].action \in ActionIds

\* A request that concludes without an audit row yet: it goes on to a change.
LEMMA MutatingKeeps ==
  ASSUME ActionsInv, Observe, UNCHANGED <<tables, effects, audit>>,
         NEW r \in Requests, Concludes(r),
         NEW reason \in Reasons,
         Go(r, [req[r] EXCEPT !.step = "mutating", !.reason = reason]),
         Justifies(seen[r], req[r].action)
  PROVE  ActionsInv'
<1> DEFINE n == [req[r] EXCEPT !.step = "mutating", !.reason = reason]
<1>1. /\ n \in RequestRecord
      /\ n.step = "mutating" /\ n.status = req[r].status
      /\ n.action = req[r].action /\ n.m = req[r].m /\ n.u = req[r].u
  BY DEF RequestRecord, Concludes
<1>2. Go(r, n)
  OBVIOUS
<1> HIDE DEF n
<1>3. req'[r] = n
  BY <1>1, <1>2, GoIs DEF ActionsInv
<1>4. /\ ActionsTypeOK /\ StepIsTrue(r) /\ TrailIsTrue(r)
      /\ req[r].action # "none" /\ "none" \notin ActionIds
  BY DEF ActionsInv, RequestIsTrue, Concludes, ActionIds, Permission
<1>5. /\ req[r].status = "none" /\ r \notin effects /\ audit[r] = << >>
  BY <1>4 DEF StepIsTrue, TrailIsTrue, Concludes, Before, Ended
<1>6. seen'[r] = seen[r]
  BY <1>1, <1>3, <1>4, MoveSees
<1>7. StepIsTrue(r)'
  BY <1>1, <1>3, <1>4, <1>5, <1>6 DEF StepIsTrue, Before, Ended, Concludes
<1>8. TrailIsTrue(r)'
  BY <1>1, <1>3, <1>5 DEF TrailIsTrue, Before
<1>9. CarriedIsTrue(r)'
  BY <1>1, <1>3, <1>4, ObserveIs DEF CarriedIsTrue
<1>10. DecisionIsTrue(r)'
  BY <1>1, <1>3, <1>5 DEF DecisionIsTrue, Granting
<1>11. RequestIsTrue(r)'
  BY <1>7, <1>8, <1>9, <1>10 DEF RequestIsTrue
<1> QED BY <1>1, <1>2, <1>4, <1>11, MoveKeeps DEF ActionsTypeOK

\* A request that is allowed.
LEMMA ProceedKeeps ==
  ASSUME ActionsInv, Observe, UNCHANGED <<tables, effects, audit>>,
         NEW r \in Requests, Concludes(r),
         NEW reason \in {"authenticated"} \union AllowReasons,
         Go(r, Proceed(req[r], reason)), Justifies(seen[r], req[r].action)
  PROVE  ActionsInv'
<1>1. /\ ActionsTypeOK /\ StepIsTrue(r) /\ TrailIsTrue(r)
      /\ req[r].action # "none"
  BY DEF ActionsInv, RequestIsTrue, Concludes, ActionIds, Permission
<1>2. r \notin effects /\ audit[r] = << >>
  BY <1>1 DEF StepIsTrue, TrailIsTrue, Concludes, Before
<1>3. reason \in Reasons /\ "confirmation_required" \in Reasons
  BY DEF Reasons
<1>4. ASSUME NEW event \in Events \ {"rejected"}, NEW why \in Reasons,
             NEW status \in Granting, Go(r, ToAudit(req[r], event, why, status))
      PROVE  ActionsInv'
  <2> DEFINE n == ToAudit(req[r], event, why, status)
  <2>1. event \in Events /\ status \in Statuses
    BY DEF Granting, Statuses
  <2>2. /\ n \in RequestRecord
        /\ n.action = req[r].action /\ n.u = req[r].u /\ n.m = req[r].m
    BY <2>1, ToAuditIs DEF Concludes
  <2>3. Go(r, n)
    BY <1>4
  <2> HIDE DEF n
  <2>4. seen'[r] = seen[r]
    BY <1>1, <2>2, <2>3, GoIs, MoveSees
  <2>5. /\ UNCHANGED <<effects, tables>> /\ audit'[r] = << >>
        /\ audit' \in [Requests -> Seq(Events \union {"scheduled"})]
        /\ \A p \in Requests \ {r} : audit'[p] = audit[p]
    BY <1>1, <1>2 DEF ActionsTypeOK
  <2>6. /\ event # "rejected" /\ event \in Events /\ status \in Statuses
        /\ status \notin {"access_denied", "not_found"}
    BY <2>1 DEF Granting
  <2>7. Justifies(seen'[r], req[r].action)
    BY <2>4
  <2> QED BY <1>1, <1>2, <1>4, <2>5, <2>6, <2>7, AuditKeeps DEF Concludes
<1>5. CASE req[r].way = "message" /\ req[r].action \in NeedsConfirmation
  BY <1>3, <1>4, <1>5 DEF Proceed, Events, Granting
<1>6. CASE req[r].way = "message" /\ req[r].action \notin NeedsConfirmation
  BY <1>3, <1>4, <1>6 DEF Proceed, Events, Granting
<1>7. CASE req[r].way = "confirm" /\ req[r].action \in Mutations
  BY <1>3, <1>7, MutatingKeeps DEF Proceed
<1>8. CASE req[r].way = "confirm" /\ req[r].action \notin Mutations
  BY <1>3, <1>4, <1>8 DEF Proceed, Events, Granting
<1> QED BY <1>5, <1>6, <1>7, <1>8 DEF Concludes, RequestRecord

\* A request that is refused once its action is known.
LEMMA RefuseKeeps ==
  ASSUME ActionsInv, Observe, UNCHANGED <<tables, effects, audit>>,
         NEW r \in Requests, Concludes(r),
         NEW reason \in DenyReasons \union {"resource_not_found"},
         Go(r, Rejected(req[r], reason)), ~Justifies(kept[r], req[r].action)
  PROVE  ActionsInv'
<1>1. reason \in Reasons /\ StatusOf(reason) \in Statuses
  BY StatusIs DEF Reasons, Refusals
<1>2. /\ ActionsTypeOK /\ req[r].action # "none"
      /\ req[r].step \in Before /\ req[r] \in RequestRecord
  BY DEF ActionsInv, Concludes, ActionIds, Permission, Before
<1> DEFINE n == Rejected(req[r], reason)
<1>3. /\ n \in RequestRecord
      /\ n.action = req[r].action /\ n.u = req[r].u /\ n.m = req[r].m
  BY <1>1, <1>2, ToAuditIs DEF Rejected, Events
<1>4. Go(r, n)
  OBVIOUS
<1> HIDE DEF n
<1>5. kept'[r] = kept[r]
  BY <1>2, <1>3, <1>4, GoIs, MoveSees
<1> QED BY <1>1, <1>2, <1>4, <1>5, RejectKeeps DEF n

\* A request that is decided by a policy.
LEMMA ConcludedKeeps ==
  ASSUME ActionsInv, Observe, UNCHANGED <<tables, effects, audit>>,
         NEW r \in Requests, Concludes(r),
         NEW reason \in AllowReasons \union DenyReasons,
         Go(r, Concluded(req[r], reason)),
         Allows(reason) => Justifies(seen[r], req[r].action),
         ~Allows(reason) => ~Justifies(kept[r], req[r].action)
  PROVE  ActionsInv'
<1>1. CASE Allows(reason)
  BY <1>1, ProceedKeeps DEF Concluded, Allows
<1>2. CASE ~Allows(reason)
  BY <1>2, RefuseKeeps DEF Concluded, Allows
<1> QED BY <1>1, <1>2

\* A request that is not decided yet.
LEMMA EarlyKeeps ==
  ASSUME ActionsInv, Observe, UNCHANGED <<tables, effects, audit>>,
         NEW r \in Requests, req[r].step \in Before,
         NEW n \in RequestRecord, Go(r, n), n.step \in {"asking", "decided", "facts"},
         n.status = "none", n.step # "asking" => n.action # "none",
         n.step = "facts" =>
           /\ n.action \in ActionIds /\ n.m \in Meetings
           /\ n.active <=> "active" \in FactsOn(n)
  PROVE  ActionsInv'
<1>1. req'[r] = n /\ ActionsTypeOK
  BY GoIs DEF ActionsInv
<1>2. r \notin effects /\ audit[r] = << >>
  BY DEF ActionsInv, RequestIsTrue, StepIsTrue, TrailIsTrue
<1>3. StepIsTrue(r)'
  BY <1>1, <1>2 DEF StepIsTrue, Before, Ended
<1>4. TrailIsTrue(r)'
  BY <1>1, <1>2 DEF TrailIsTrue, Before
<1>5. FactsOn(req[r])' = FactsOn(n)
  BY <1>1 DEF FactsOn, tables
<1>6. CarriedIsTrue(r)'
  BY <1>1, <1>5, ObserveIs DEF CarriedIsTrue
<1>7. DecisionIsTrue(r)'
  BY <1>1, <1>2 DEF DecisionIsTrue, Granting
<1>8. RequestIsTrue(r)'
  BY <1>3, <1>4, <1>6, <1>7 DEF RequestIsTrue
<1> QED BY <1>1, <1>8, MoveKeeps DEF ActionsTypeOK

\* A request whose statement fails keeps what it had found out.
LEMMA FailKeeps ==
  ASSUME ActionsInv, Observe, UNCHANGED <<tables, effects, audit>>,
         NEW r \in Requests, Go(r, [req[r] EXCEPT !.step = "failed"])
  PROVE  ActionsInv'
<1> DEFINE n == [req[r] EXCEPT !.step = "failed"]
<1>1. ActionsTypeOK /\ RequestIsTrue(r) /\ req[r] \in RequestRecord
  BY DEF ActionsInv, ActionsTypeOK
<1>2. /\ n \in RequestRecord /\ n.step = "failed" /\ n.status = req[r].status
      /\ n.action = req[r].action /\ n.m = req[r].m /\ n.u = req[r].u
  BY <1>1 DEF RequestRecord
<1>3. Go(r, n)
  OBVIOUS
<1> HIDE DEF n
<1>4. req'[r] = n
  BY <1>1, <1>2, <1>3, GoIs
<1>5. StepIsTrue(r)'
  BY <1>2, <1>4 DEF StepIsTrue, Before, Ended
<1>6. TrailIsTrue(r)'
  BY <1>2, <1>4 DEF TrailIsTrue, Before
<1>7. CarriedIsTrue(r)'
  BY <1>1, <1>2, <1>4, ObserveIs DEF CarriedIsTrue
<1>8. req[r].action # "none" => seen'[r] = seen[r] /\ kept'[r] = kept[r]
  BY <1>2, <1>4, MoveSees
<1>9. DecisionIsTrue(r)'
  BY <1>1, <1>2, <1>4, <1>8 DEF DecisionIsTrue, RequestIsTrue
<1>10. RequestIsTrue(r)'
  BY <1>5, <1>6, <1>7, <1>9 DEF RequestIsTrue
<1> QED BY <1>1, <1>2, <1>3, <1>10, MoveKeeps DEF ActionsTypeOK

-----------------------------------------------------------------------------
\* MeetingAccessPolicy.can_list in terms of who takes part.
LEMMA CanListIs ==
  ASSUME NEW user, NEW organizer, NEW users
  PROVE  LET reason == CanListMeeting(user, TRUE, organizer, users) IN
         /\ reason \in AllowReasons \union DenyReasons
         /\ Allows(reason) <=> (user = organizer \/ user \in users)
BY DEF CanListMeeting, Allows, AllowReasons, DenyReasons

\* MeetingAccessPolicy.can_manage in terms of who organizes.
LEMMA CanManageIs ==
  ASSUME NEW user, NEW organizer
  PROVE  LET reason == CanManageMeeting(user, TRUE, organizer) IN
         /\ reason \in AllowReasons \union DenyReasons
         /\ Allows(reason) <=> user = organizer
BY DEF CanManageMeeting, Allows, AllowReasons, DenyReasons

\* The dispatcher's use of ConfidentialNotePolicy.can_view.
LEMMA NotesReasonIs ==
  ASSUME NEW q
  PROVE  /\ NotesReason(q) \in AllowReasons \union DenyReasons
         /\ Allows(NotesReason(q)) <=>
              \/ q.u = Organizer[q.m]
              \/ q.u \in FactUsers(q) /\ q.u \in GrantedUsers(q.m)
<1> DEFINE reason == CanViewNote(q.u, TRUE, Organizer[q.m], FactUsers(q), q.m, q.m,
                                 FALSE, GrantedUsers(q.m))
<1>1. Allows(reason) <=> \/ q.u = Organizer[q.m]
                         \/ q.u \in FactUsers(q) /\ q.u \in GrantedUsers(q.m)
  BY DEF CanViewNote, Allows, AllowReasons
<1>2. NotesReason(q) = IF Allows(reason) THEN reason ELSE "not_authorized"
  BY DEF NotesReason
<1> HIDE DEF reason
<1> QED BY <1>1, <1>2 DEF Allows, AllowReasons, DenyReasons

\* A message arrives.
LEMMA ReceiveMessageKeeps ==
  ASSUME ActionsInv, Observe, UNCHANGED tables, NEW r \in Requests,
         NEW u \in Users, ReceiveMessage(r, u)
  PROVE  ActionsInv'
<1> DEFINE q == [NoRequest EXCEPT !.u = u]
<1>1. /\ q \in RequestRecord /\ q.status = "none" /\ q.action = "none"
      /\ [q EXCEPT !.step = "asking"] \in RequestRecord
      /\ \A theme \in Themes :
           [q EXCEPT !.step = "decided", !.action = theme] \in RequestRecord
  BY DEF NoRequest, RequestRecord, Asked, ActionIds, Permission, Themes, Named,
         Given, Reasons
<1>2. /\ req[r].step \in Before
      /\ UNCHANGED <<tables, effects, audit>>
  BY DEF ReceiveMessage, Before
<1>3. CASE \E reason \in {"empty_message", "message_too_long"} :
             Go(r, Rejected(q, reason))
  BY <1>1, <1>2, <1>3, RejectKeeps DEF Reasons, Refusals, DenyReasons
<1>4. ASSUME NEW theme \in Themes,
             Go(r, [q EXCEPT !.step = "decided", !.action = theme])
      PROVE  ActionsInv'
  <2> DEFINE n == [q EXCEPT !.step = "decided", !.action = theme]
  <2>1. /\ n \in RequestRecord /\ n.step = "decided" /\ n.status = "none"
        /\ n.action # "none" /\ Go(r, n)
    BY <1>1, <1>4 DEF NoRequest, Themes
  <2> HIDE DEF n
  <2> QED BY <1>2, <2>1, EarlyKeeps
<1>5. ASSUME Go(r, [q EXCEPT !.step = "asking"])
      PROVE  ActionsInv'
  <2> DEFINE n == [q EXCEPT !.step = "asking"]
  <2>1. /\ n \in RequestRecord /\ n.step = "asking" /\ n.status = "none"
        /\ Go(r, n)
    BY <1>1, <1>5 DEF NoRequest
  <2> HIDE DEF n
  <2> QED BY <1>2, <2>1, EarlyKeeps
<1> QED BY <1>3, <1>4, <1>5 DEF ReceiveMessage

\* A confirmation arrives.
LEMMA ReceiveConfirmKeeps ==
  ASSUME ActionsInv, Observe, UNCHANGED tables, NEW r \in Requests,
         NEW u \in Users, NEW a \in Asked, NEW m \in Named, NEW given \in Given,
         ReceiveConfirm(r, u, a, m, given)
  PROVE  ActionsInv'
<1> DEFINE n == [NoRequest EXCEPT !.step = "decided", !.way = "confirm", !.u = u,
                                  !.action = a, !.m = m, !.given = given]
<1>1. /\ n \in RequestRecord /\ n.step = "decided" /\ n.status = "none"
      /\ n.action = a
  BY DEF NoRequest, RequestRecord, Reasons
<1>2. a # "none"
  BY DEF Asked, ActionIds, Permission
<1>3. /\ req[r].step \in Before /\ Go(r, n)
      /\ UNCHANGED <<tables, effects, audit>>
  BY DEF ReceiveConfirm, Before
<1> HIDE DEF n
<1> QED BY <1>1, <1>2, <1>3, EarlyKeeps

\* The provider decides.
LEMMA ModelDecidesKeeps ==
  ASSUME ActionsInv, Observe, UNCHANGED tables, NEW r \in Requests,
         NEW a \in Asked, NEW m \in Named, NEW given \in Given,
         ModelDecides(r, a, m, given)
  PROVE  ActionsInv'
<1> DEFINE n == [req[r] EXCEPT !.step = "decided", !.action = a, !.m = m,
                               !.given = given]
<1>1. req[r] \in RequestRecord /\ req[r].status = "none"
  BY DEF ActionsInv, ActionsTypeOK, RequestIsTrue, StepIsTrue, ModelDecides, Ended
<1>2. /\ n \in RequestRecord /\ n.step = "decided" /\ n.status = "none"
      /\ n.action = a
  BY <1>1 DEF RequestRecord
<1>3. a # "none"
  BY DEF Asked, ActionIds, Permission
<1>4. /\ req[r].step \in Before /\ Go(r, n)
      /\ UNCHANGED <<tables, effects, audit>>
  BY DEF ModelDecides, Before
<1> HIDE DEF n
<1> QED BY <1>2, <1>3, <1>4, EarlyKeeps

\* The provider's answer is no decision.
LEMMA ModelGarblesKeeps ==
  ASSUME ActionsInv, Observe, UNCHANGED tables, NEW r \in Requests, ModelGarbles(r)
  PROVE  ActionsInv'
<1>1. req[r] \in RequestRecord
  BY DEF ActionsInv, ActionsTypeOK
<1> QED BY <1>1, RejectKeeps
        DEF ModelGarbles, Before, Reasons, Refusals, DenyReasons

\* An action that is unknown, not to be confirmed or badly parameterized.
LEMMA ObjectKeeps ==
  ASSUME ActionsInv, Observe, UNCHANGED tables, NEW r \in Requests, Object(r)
  PROVE  ActionsInv'
<1>1. req[r] \in RequestRecord
  BY DEF ActionsInv, ActionsTypeOK
<1>2. /\ Objection(req[r]) \in Refusals
      /\ Objection(req[r]) \notin DenyReasons \union {"resource_not_found"}
  BY DEF Object, Objection, ValidateParameters, Refusals, DenyReasons
<1> QED BY <1>1, <1>2, RejectKeeps DEF Object, Before, Reasons

\* The dispatcher's first SELECT.
LEMMA DispatchKeeps ==
  ASSUME ActionsInv, Observe, UNCHANGED tables, NEW r \in Requests, Dispatch(r)
  PROVE  ActionsInv'
<1> DEFINE q == req[r]
           p == Permission[q.action]
           facts == FactsOn(q)
<1>1. /\ ActionsTypeOK /\ q \in RequestRecord /\ CarriedIsTrue(r) /\ StepIsTrue(r)
  BY DEF ActionsInv, ActionsTypeOK, RequestIsTrue
<1>2. /\ q.step = "decided" /\ q.action \in ActionIds
      /\ Go(r, Dispatched(q)) /\ UNCHANGED <<tables, effects, audit>>
  BY DEF Dispatch, Objection, Registered
<1>3. Concludes(r) /\ q.action # "none" /\ q.status = "none"
  BY <1>1, <1>2 DEF Concludes, StepIsTrue, Ended
<1>4. facts \subseteq seen[r] /\ kept[r] \subseteq facts
  BY <1>1, <1>3 DEF CarriedIsTrue
<1>5. ASSUME q.m \notin Meetings
      PROVE  facts = {}
  BY <1>5 DEF FactsOn
<1>6. ASSUME q.m \in Meetings
      PROVE  /\ "organizer" \in facts <=> q.u = Organizer[q.m]
             /\ "active" \in facts <=> q.u \in ActiveUsers(q.m)
  BY <1>1, <1>6, FactsAre DEF ActiveUsers, RequestRecord
<1> HIDE DEF facts
<1>7. CASE p = "authenticated"
  BY <1>2, <1>3, <1>7, JustifiedBy, ProceedKeeps DEF Dispatched
<1>8. CASE p # "authenticated" /\ q.m \notin Meetings
  <2>1. ~Justifies(kept[r], q.action)
    BY <1>2, <1>4, <1>5, <1>8, JustifiedBy
  <2> QED BY <1>2, <1>3, <1>8, <2>1, RefuseKeeps DEF Dispatched
<1>9. CASE p = "meeting" /\ q.m \in Meetings
  <2> DEFINE reason == CanListMeeting(q.u, TRUE, Organizer[q.m], ActiveUsers(q.m))
  <2>1. Go(r, Concluded(q, reason))
    BY <1>2, <1>9 DEF Dispatched
  <2>2. /\ reason \in AllowReasons \union DenyReasons
        /\ Allows(reason) <=> (q.u = Organizer[q.m] \/ q.u \in ActiveUsers(q.m))
    BY CanListIs
  <2> HIDE DEF reason
  <2>3. /\ Allows(reason) => Justifies(seen[r], q.action)
        /\ ~Allows(reason) => ~Justifies(kept[r], q.action)
    BY <1>2, <1>4, <1>6, <1>9, <2>2, JustifiedBy
  <2> QED BY <1>2, <1>3, <2>1, <2>2, <2>3, ConcludedKeeps
<1>10. CASE p = "meeting_organizer" /\ q.m \in Meetings
  <2> DEFINE reason == CanManageMeeting(q.u, TRUE, Organizer[q.m])
  <2>1. Go(r, Concluded(q, reason))
    BY <1>2, <1>10 DEF Dispatched
  <2>2. /\ reason \in AllowReasons \union DenyReasons
        /\ Allows(reason) <=> q.u = Organizer[q.m]
    BY CanManageIs
  <2> HIDE DEF reason
  <2>3. /\ Allows(reason) => Justifies(seen[r], q.action)
        /\ ~Allows(reason) => ~Justifies(kept[r], q.action)
    BY <1>2, <1>4, <1>6, <1>10, <2>2, JustifiedBy
  <2> QED BY <1>2, <1>3, <2>1, <2>2, <2>3, ConcludedKeeps
<1>11. CASE p = "confidential_notes" /\ q.m \in Meetings /\ q.u = Organizer[q.m]
  <2>1. Go(r, Concluded(q, "organizer"))
    BY <1>2, <1>11 DEF Dispatched
  <2>2. Justifies(seen[r], q.action)
    BY <1>2, <1>4, <1>6, <1>11, JustifiedBy
  <2> QED BY <1>2, <1>3, <2>1, <2>2, ConcludedKeeps DEF Allows, AllowReasons
<1>12. CASE /\ p \in {"transcript", "confidential_notes"} /\ q.m \in Meetings
            /\ p = "confidential_notes" => q.u # Organizer[q.m]
  <2> DEFINE listed == q.u \in ActiveUsers(q.m)
             n == [q EXCEPT !.step = "facts", !.active = listed]
  <2>1. Go(r, n)
    BY <1>2, <1>12 DEF Dispatched
  <2>2. listed \in BOOLEAN
    OBVIOUS
  <2> HIDE DEF listed
  <2>3. /\ n \in RequestRecord /\ n.step = "facts" /\ n.status = q.status
        /\ n.action = q.action /\ n.m = q.m /\ n.u = q.u
        /\ n.active = listed
    BY <1>1, <2>2 DEF RequestRecord
  <2> HIDE DEF n
  <2>4. FactsOn(n) = FactsOn(q)
    BY <2>3 DEF FactsOn
  <2> QED BY <1>2, <1>3, <1>6, <1>12, <2>1, <2>3, <2>4, EarlyKeeps
          DEF facts, listed, Before
<1> QED BY <1>2, <1>7, <1>8, <1>9, <1>10, <1>11, <1>12, JustifiedBy

\* What the second SELECT decides on: the facts of now and the one of before.
LEMMA CarriedFacts ==
  ASSUME ActionsInv, NEW r \in Requests, req[r].step = "facts"
  PROVE  LET q == req[r]
             users == FactUsers(q)
         IN /\ Concludes(r)
            /\ q.m \in Meetings
            /\ q.u = Organizer[q.m] \/ q.u \in users =>
                 "organizer" \in seen[r] \/ "active" \in seen[r]
            /\ q.u = Organizer[q.m] => "organizer" \in seen[r]
            /\ q.u \in users => "active" \in seen[r]
            /\ q.u # Organizer[q.m] => "organizer" \notin kept[r]
            /\ q.u \notin users => "active" \notin kept[r]
            /\ q.m \in transcript => "transcript" \in seen[r]
            /\ q.m \notin transcript => "transcript" \notin kept[r]
            /\ q.u \in GrantedUsers(q.m) => "granted" \in seen[r]
            /\ q.u \notin GrantedUsers(q.m) => "granted" \notin kept[r]
<1>1. /\ req[r] \in RequestRecord /\ req[r].m \in Meetings
      /\ req[r].action \in ActionIds /\ req[r].action # "none"
      /\ CarriedIsTrue(r)
  BY DEF ActionsInv, ActionsTypeOK, RequestIsTrue, StepIsTrue
<1>2. Concludes(r)
  BY <1>1 DEF Concludes
<1>3. /\ FactsOn(req[r]) \subseteq seen[r] /\ kept[r] \subseteq FactsOn(req[r])
      /\ req[r].active => "active" \in seen[r]
      /\ ~req[r].active => "active" \notin kept[r]
  BY <1>1 DEF CarriedIsTrue
<1>4. req[r].u \in FactUsers(req[r]) <=> req[r].active
  BY <1>1 DEF FactUsers, RequestRecord
<1>5. req[r].u \in GrantedUsers(req[r].m) <=> <<req[r].m, req[r].u>> \in granted
  BY <1>1 DEF GrantedUsers, RequestRecord
<1> QED BY <1>1, <1>2, <1>3, <1>4, <1>5, FactsAre

\* The SELECT of the transcript.
LEMMA ReadTranscriptKeeps ==
  ASSUME ActionsInv, Observe, UNCHANGED tables, NEW r \in Requests, ReadTranscript(r)
  PROVE  ActionsInv'
<1> DEFINE q == req[r]
           reason == CanListMeeting(q.u, TRUE, Organizer[q.m], FactUsers(q))
<1>1. /\ q.step = "facts" /\ Permission[q.action] = "transcript"
      /\ UNCHANGED <<tables, effects, audit>>
  BY DEF ReadTranscript
<1>2. Concludes(r) /\ q.action \in ActionIds
  BY <1>1, CarriedFacts DEF Concludes
<1>3. CASE q.m \in transcript
  <2>1. Go(r, Concluded(q, reason))
    BY <1>3 DEF ReadTranscript
  <2>2. /\ reason \in AllowReasons \union DenyReasons
        /\ Allows(reason) <=> q.u = Organizer[q.m] \/ q.u \in FactUsers(q)
    BY CanListIs
  <2> HIDE DEF reason
  <2>3. /\ Allows(reason) => Justifies(seen[r], q.action)
        /\ ~Allows(reason) => ~Justifies(kept[r], q.action)
    BY <1>1, <1>2, <1>3, <2>2, CarriedFacts, JustifiedBy
  <2> QED BY <1>1, <1>2, <2>1, <2>2, <2>3, ConcludedKeeps
<1>4. CASE q.m \notin transcript
  <2>1. ~Justifies(kept[r], q.action)
    BY <1>1, <1>2, <1>4, CarriedFacts, JustifiedBy
  <2> QED BY <1>1, <1>2, <1>4, <2>1, RefuseKeeps DEF ReadTranscript
<1> QED BY <1>3, <1>4

\* The SELECT of the grants.
LEMMA ReadGrantsKeeps ==
  ASSUME ActionsInv, Observe, UNCHANGED tables, NEW r \in Requests, ReadGrants(r)
  PROVE  ActionsInv'
<1> DEFINE q == req[r]
           reason == NotesReason(q)
<1>1. /\ q.step = "facts" /\ Permission[q.action] = "confidential_notes"
      /\ UNCHANGED <<tables, effects, audit>> /\ Go(r, Concluded(q, reason))
  BY DEF ReadGrants
<1>2. Concludes(r) /\ q.action \in ActionIds
  BY <1>1, CarriedFacts DEF Concludes
<1>3. /\ reason \in AllowReasons \union DenyReasons
      /\ Allows(reason) <=> \/ q.u = Organizer[q.m]
                            \/ q.u \in FactUsers(q) /\ q.u \in GrantedUsers(q.m)
  BY NotesReasonIs
<1> HIDE DEF reason
<1>4. /\ Allows(reason) => Justifies(seen[r], q.action)
      /\ ~Allows(reason) => ~Justifies(kept[r], q.action)
  BY <1>1, <1>2, <1>3, CarriedFacts, JustifiedBy
<1> QED BY <1>1, <1>2, <1>3, <1>4, ConcludedKeeps

\* The change of a meeting.
LEMMA MutateKeeps ==
  ASSUME ActionsInv, Observe, UNCHANGED tables, NEW r \in Requests, Mutate(r)
  PROVE  ActionsInv'
<1> DEFINE n == [req[r] EXCEPT !.step = "mutated"]
<1>1. /\ ActionsTypeOK /\ StepIsTrue(r) /\ TrailIsTrue(r)
      /\ req[r] \in RequestRecord
  BY DEF ActionsInv, ActionsTypeOK, RequestIsTrue
<1>2. /\ n \in RequestRecord /\ n.step = "mutated" /\ n.status = req[r].status
      /\ n.action = req[r].action /\ n.m = req[r].m /\ n.u = req[r].u
  BY <1>1 DEF RequestRecord
<1>3. /\ req[r].step = "mutating" /\ Go(r, n) /\ effects' = effects \union {r}
      /\ UNCHANGED audit
  BY DEF Mutate
<1> HIDE DEF n
<1>4. req'[r] = n
  BY <1>1, <1>2, <1>3, GoIs
<1>5. /\ req[r].action # "none" /\ req[r].action \in ActionIds
      /\ req[r].status = "none" /\ audit[r] = << >>
      /\ Justifies(seen[r], req[r].action)
  BY <1>1, <1>3 DEF StepIsTrue, TrailIsTrue, Ended
<1>6. seen'[r] = seen[r]
  BY <1>2, <1>4, <1>5, MoveSees
<1>7. StepIsTrue(r)'
  BY <1>2, <1>4, <1>5, <1>6 DEF StepIsTrue, Before, Ended
<1>8. TrailIsTrue(r)'
  BY <1>2, <1>3, <1>4, <1>5 DEF TrailIsTrue
<1>9. CarriedIsTrue(r)'
  BY <1>1, <1>2, <1>4, ObserveIs DEF CarriedIsTrue
<1>10. DecisionIsTrue(r)'
  BY <1>2, <1>4, <1>5, <1>6 DEF DecisionIsTrue
<1>11. RequestIsTrue(r)'
  BY <1>7, <1>8, <1>9, <1>10 DEF RequestIsTrue
<1> QED BY <1>1, <1>2, <1>3, <1>11, MoveKeeps DEF ActionsTypeOK

\* The scheduling service's own row.
LEMMA AuditMutationKeeps ==
  ASSUME ActionsInv, Observe, UNCHANGED tables, NEW r \in Requests, AuditMutation(r)
  PROVE  ActionsInv'
<1>1. /\ ActionsTypeOK /\ StepIsTrue(r) /\ TrailIsTrue(r)
      /\ req[r] \in RequestRecord /\ req[r].reason \in Reasons
  BY DEF ActionsInv, ActionsTypeOK, RequestIsTrue, RequestRecord
<1> DEFINE n == ToAudit(req[r], "executed", req[r].reason, "success")
<1>2. /\ req[r].step = "mutated" /\ Go(r, n) /\ UNCHANGED effects
      /\ audit' = [audit EXCEPT ![r] = Append(@, "scheduled")]
  BY DEF AuditMutation
<1>3. /\ "executed" \in Events /\ "success" \in Statuses
  BY DEF Events, Statuses
<1>4. /\ n \in RequestRecord
      /\ n.action = req[r].action /\ n.m = req[r].m /\ n.u = req[r].u
  BY <1>1, <1>3, ToAuditIs
<1> HIDE DEF n
<1>5. /\ req[r].action # "none" /\ audit[r] = << >> /\ r \in effects
      /\ Justifies(seen[r], req[r].action)
  BY <1>1, <1>2 DEF StepIsTrue, TrailIsTrue
<1>6. seen'[r] = seen[r]
  BY <1>1, <1>2, <1>4, <1>5, GoIs, MoveSees
<1>7. /\ audit'[r] = <<"scheduled">>
      /\ audit' \in [Requests -> Seq(Events \union {"scheduled"})]
      /\ \A p \in Requests \ {r} : audit'[p] = audit[p]
  BY <1>1, <1>2, <1>5 DEF ActionsTypeOK
<1>8. "success" \in Granting /\ "success" \notin {"access_denied", "not_found"}
  BY DEF Granting
<1> QED BY <1>1, <1>2, <1>3, <1>5, <1>6, <1>7, <1>8, AuditKeeps DEF n

\* The row of the answer.
LEMMA AuditRowKeeps ==
  ASSUME ActionsInv, Observe, UNCHANGED tables, NEW r \in Requests, Audit(r)
  PROVE  ActionsInv'
<1> DEFINE n == [req[r] EXCEPT !.step = "answered"]
<1>1. ActionsTypeOK /\ RequestIsTrue(r) /\ req[r] \in RequestRecord
  BY DEF ActionsInv, ActionsTypeOK
<1>2. /\ n \in RequestRecord /\ n.step = "answered" /\ n.status = req[r].status
      /\ n.action = req[r].action /\ n.m = req[r].m /\ n.u = req[r].u
      /\ n.event = req[r].event
  BY <1>1 DEF RequestRecord
<1>3. /\ req[r].step = "auditing" /\ Go(r, n) /\ UNCHANGED effects
      /\ audit' = [audit EXCEPT ![r] = Append(@, req[r].event)]
  BY DEF Audit
<1> HIDE DEF n
<1>4. req'[r] = n
  BY <1>1, <1>2, <1>3, GoIs
<1>5. /\ audit[r] = IF r \in effects THEN <<"scheduled">> ELSE << >>
      /\ req[r].event = "rejected" <=> req[r].status \notin Granting
      /\ r \in effects => req[r].event = "executed"
  BY <1>1, <1>3 DEF RequestIsTrue, TrailIsTrue
<1>6. req[r].event \in Events
  BY <1>1, <1>3 DEF RequestIsTrue, TrailIsTrue
<1>7. /\ audit' \in [Requests -> Seq(Events \union {"scheduled"})]
      /\ \A p \in Requests \ {r} : audit'[p] = audit[p]
      /\ audit'[r] = Append(audit[r], req[r].event)
  BY <1>1, <1>3, <1>6 DEF ActionsTypeOK
<1>8. audit'[r] = (IF r \in effects THEN <<"scheduled">> ELSE << >>) \o <<req[r].event>>
  <2>1. CASE r \in effects
    BY <1>5, <1>6, <1>7, <2>1
  <2>2. CASE r \notin effects
    BY <1>5, <1>6, <1>7, <2>2
  <2> QED BY <2>1, <2>2
<1>9. StepIsTrue(r)'
  BY <1>2, <1>4 DEF StepIsTrue, Before, Ended
<1>10. TrailIsTrue(r)'
  BY <1>2, <1>3, <1>4, <1>5, <1>8 DEF TrailIsTrue, Before
<1>11. CarriedIsTrue(r)'
  BY <1>1, <1>2, <1>4, ObserveIs DEF CarriedIsTrue
<1>12. req[r].action # "none" => seen'[r] = seen[r] /\ kept'[r] = kept[r]
  BY <1>2, <1>4, MoveSees
<1>13. DecisionIsTrue(r)'
  BY <1>1, <1>2, <1>3, <1>4, <1>12 DEF DecisionIsTrue, RequestIsTrue
<1>14. RequestIsTrue(r)'
  BY <1>9, <1>10, <1>11, <1>13 DEF RequestIsTrue
<1> QED BY <1>1, <1>2, <1>3, <1>7, <1>14, MoveKeeps DEF ActionsTypeOK

-----------------------------------------------------------------------------
\* Nothing has happened yet.
LEMMA InitIsTrue == Init => ActionsInv
<1> SUFFICES ASSUME Init PROVE ActionsInv
  OBVIOUS
<1>1. NoRequest \in RequestRecord
  BY ActionsConstants DEF NoRequest, RequestRecord, Asked, Named, Given, Reasons
<1>2. NoRequest.step = "idle" /\ NoRequest.status = "none" /\ NoRequest.action = "none"
  BY DEF NoRequest
<1>3. ActionsTypeOK
  BY <1>1, ActionsConstants DEF Init, ActionsTypeOK
<1>4. \A r \in Requests : RequestIsTrue(r)
  BY <1>2 DEF Init, RequestIsTrue, StepIsTrue, TrailIsTrue, CarriedIsTrue,
              DecisionIsTrue, Before, Ended, Granting
<1> QED BY <1>3, <1>4 DEF ActionsInv

\* What other calls commit.
LEMMA TablesKeep ==
  ASSUME ActionsInv, Observe, TablesNext, UNCHANGED <<req, effects, audit>>
  PROVE  ActionsInv'
<1>1. /\ active' \subseteq Meetings \X Users
      /\ granted' \subseteq Meetings \X Users
      /\ transcript' \subseteq Meetings
  BY DEF TablesNext, ActionsInv, ActionsTypeOK
<1>2. ActionsTypeOK'
  BY <1>1, ObserveTypes DEF ActionsInv, ActionsTypeOK
<1>3. \A r \in Requests : RequestIsTrue(r)'
  BY OthersStayTrue
<1> QED BY <1>2, <1>3 DEF ActionsInv

\* Every step of a request keeps what is true.
LEMMA RequestKeeps ==
  ASSUME ActionsInv, Observe, UNCHANGED tables, NEW r \in Requests, RequestNext(r)
  PROVE  ActionsInv'
<1>1. CASE \E u \in Users : ReceiveMessage(r, u)
  BY <1>1, ReceiveMessageKeeps
<1>2. CASE \E u \in Users, a \in Asked, m \in Named, given \in Given :
             ReceiveConfirm(r, u, a, m, given)
  BY <1>2, ReceiveConfirmKeeps
<1>3. CASE \E a \in Asked, m \in Named, given \in Given :
             ModelDecides(r, a, m, given)
  BY <1>3, ModelDecidesKeeps
<1>4. CASE ModelGarbles(r)
  BY <1>4, ModelGarblesKeeps
<1>5. CASE ModelFails(r)
  BY <1>5, FailKeeps DEF ModelFails
<1>6. CASE Object(r)
  BY <1>6, ObjectKeeps
<1>7. CASE Dispatch(r)
  BY <1>7, DispatchKeeps
<1>8. CASE ReadTranscript(r)
  BY <1>8, ReadTranscriptKeeps
<1>9. CASE ReadGrants(r)
  BY <1>9, ReadGrantsKeeps
<1>10. CASE Mutate(r)
  BY <1>10, MutateKeeps
<1>11. CASE AuditMutation(r)
  BY <1>11, AuditMutationKeeps
<1>12. CASE Audit(r)
  BY <1>12, AuditRowKeeps
<1>13. CASE Break(r)
  BY <1>13, FailKeeps DEF Break
<1> QED BY <1>1, <1>2, <1>3, <1>4, <1>5, <1>6, <1>7, <1>8, <1>9, <1>10, <1>11,
           <1>12, <1>13 DEF RequestNext, ServerStep

\* Every step keeps what is true.
LEMMA NextKeeps == ActionsInv /\ [Next]_vars => ActionsInv'
<1> SUFFICES ASSUME ActionsInv, [Next]_vars PROVE ActionsInv'
  OBVIOUS
<1>1. ASSUME Observe, NEW r \in Requests, RequestNext(r), UNCHANGED tables
      PROVE  ActionsInv'
  BY <1>1, RequestKeeps
<1>2. ASSUME Observe, TablesNext, UNCHANGED <<req, effects, audit>>
      PROVE  ActionsInv'
  BY <1>2, TablesKeep
<1>3. CASE UNCHANGED vars
  <2>1. ActionsTypeOK'
    BY <1>3 DEF vars, tables, ActionsInv, ActionsTypeOK
  <2>2. \A r \in Requests : FactsOn(req[r])' = FactsOn(req[r])
    BY <1>3 DEF vars, tables, FactsOn
  <2>3. \A r \in Requests : RequestIsTrue(r)'
    BY <1>3, <2>2 DEF vars, ActionsInv, RequestIsTrue, StepIsTrue, TrailIsTrue,
                      CarriedIsTrue, DecisionIsTrue
  <2> QED BY <2>1, <2>3 DEF ActionsInv
<1> QED BY <1>1, <1>2, <1>3 DEF Next

\* What every request is, wherever it stands, for any number of users, meetings
\* and requests and whatever other calls change.
THEOREM ActionsInvHolds == Spec => []ActionsInv
<1> QED BY InitIsTrue, NextKeeps, PTL DEF Spec

\* Type correctness of both routes (AssistantOrchestrator.handle_message and
\* ConfirmedActionExecutor.execute).
THEOREM ActionsAreTyped == Spec => []ActionsTypeOK
<1>1. ActionsInv => ActionsTypeOK
  BY DEF ActionsInv
<1> QED BY <1>1, ActionsInvHolds, PTL

\* GrantsAreGrounded: what ActionDispatcher allows rests on facts that held while
\* the request ran.
THEOREM GrantsRestOnFacts == Spec => []GrantsAreGrounded
<1>1. ActionsInv => GrantsAreGrounded
  BY DEF ActionsInv, RequestIsTrue, DecisionIsTrue, GrantsAreGrounded
<1> QED BY <1>1, ActionsInvHolds, PTL

\* RefusalsAreGrounded: what was justified all along is not refused as
\* inaccessible or not found.
THEOREM RefusalsRestOnFacts == Spec => []RefusalsAreGrounded
<1>1. ActionsInv => RefusalsAreGrounded
  BY DEF ActionsInv, RequestIsTrue, DecisionIsTrue, RefusalsAreGrounded
<1> QED BY <1>1, ActionsInvHolds, PTL

\* TrailTellsOutcome: the audit rows of an answered request tell what it did.
THEOREM TrailIsComplete == Spec => []TrailTellsOutcome
<1>1. ActionsInv => TrailTellsOutcome
  BY DEF ActionsInv, RequestIsTrue, TrailIsTrue, TrailTellsOutcome
<1> QED BY <1>1, ActionsInvHolds, PTL

-----------------------------------------------------------------------------
(***************************************************************************)
(* The implementation of AssistantService.  Most steps of a request are    *)
(* hidden from its caller (QuietServes); arriving, changing a meeting,     *)
(* answering and failing are steps of the service.  RouteInv says what a   *)
(* request's step implies about its route: why only a confirmation reaches *)
(* a change, and which answers a decided request can still get.            *)
(***************************************************************************)
Open == {"asking", "decided", "facts", "mutating"}

\* Of a request that has changed a meeting exactly if done.
Routed(q, done) ==
  /\ q.step \in {"idle", "asking"} => q.way = "message"
  /\ q.step = "facts" /\ q.way = "confirm" => q.action \in NeedsConfirmation
  /\ q.step \in {"mutating", "mutated"} => q.way = "confirm" /\ q.action \in Mutations
  /\ q.step = "mutating" /\ AboutMeeting(q.action) => q.m \in Meetings
  /\ done => q.way = "confirm"
  /\ q.step = "auditing" /\ q.status \in Granting =>
       /\ q.action \in ActionIds
       /\ q.way = "message" =>
            q.status = IF q.action \in NeedsConfirmation
                       THEN "confirmation_required" ELSE "success"
       /\ q.way = "confirm" =>
            /\ q.status = "success"
            /\ done \/ q.action \in NeedsConfirmation \ Mutations

RouteInv == \A r \in Requests : Routed(req[r], r \in effects)

\* CallOf, of a request and whether it has changed a meeting.
CallAs(q, done) ==
  [ state |-> CASE q.step = "idle" -> "none"
                [] q.step \in Open -> "open"
                [] q.step = "auditing" /\ ~done -> "open"
                [] q.step = "mutated" \/ (q.step = "auditing" /\ done) -> "performed"
                [] OTHER -> q.step,
    way |-> q.way,
    action |-> IF q.way = "confirm" \/ q.step = "answered" THEN q.action
               ELSE "none",
    may |-> q.way = "confirm" /\ q.m \in Meetings
            /\ q.u = Organizer[q.m],
    answer |-> IF q.step # "answered" THEN "none"
               ELSE IF q.status \in Granting THEN q.status
               ELSE "refused" ]

CallsNow == [r \in Requests |-> CallOf(r)]

-----------------------------------------------------------------------------
\* One definition of what a caller can tell.
LEMMA CallsAre ==
  ASSUME NEW r \in Requests
  PROVE  /\ CallsNow[r] = CallAs(req[r], r \in effects)
         /\ CallsNow'[r] = CallAs(req'[r], r \in effects')
BY DEF CallsNow, CallOf, CallAs, Open

\* A request moves alone, for its caller too.
LEMMA CallsMove ==
  ASSUME ActionsInv, NEW r \in Requests, NEW n \in RequestRecord, Go(r, n),
         effects' \in {effects, effects \union {r}}
  PROVE  /\ CallsNow[r] = CallAs(req[r], r \in effects)
         /\ CallsNow' = [CallsNow EXCEPT ![r] = CallAs(n, r \in effects')]
<1>1. /\ req'[r] = n
      /\ \A p \in Requests \ {r} : req'[p] = req[p]
  BY GoIs DEF ActionsInv
<1>2. \A p \in Requests \ {r} : p \in effects' <=> p \in effects
  OBVIOUS
<1>3. \A p \in Requests \ {r} : CallsNow'[p] = CallsNow[p]
  BY <1>1, <1>2 DEF CallsNow, CallOf
<1>4. CallsNow'[r] = CallAs(n, r \in effects')
  BY <1>1, CallsAre
<1>5. /\ CallsNow = [p \in Requests |-> CallsNow[p]]
      /\ CallsNow' = [p \in Requests |-> CallsNow'[p]]
  BY DEF CallsNow
<1> QED BY <1>3, <1>4, <1>5, CallsAre

\* What a route keeps when one request moves.
LEMMA RouteKeeps ==
  ASSUME ActionsInv, RouteInv, NEW r \in Requests, NEW n \in RequestRecord, Go(r, n),
         effects' \in {effects, effects \union {r}}, Routed(n, r \in effects')
  PROVE  RouteInv'
<1>1. /\ req'[r] = n
      /\ \A p \in Requests \ {r} : req'[p] = req[p]
  BY GoIs DEF ActionsInv
<1>2. \A p \in Requests \ {r} : p \in effects' <=> p \in effects
  OBVIOUS
<1>3. \A p \in Requests \ {r} : Routed(req'[p], p \in effects')
  BY <1>1, <1>2 DEF RouteInv, Routed
<1> QED BY <1>1, <1>3 DEF RouteInv

\* A step its caller cannot tell.
LEMMA QuietServes ==
  ASSUME ActionsInv, RouteInv, NEW r \in Requests, NEW n \in RequestRecord, Go(r, n),
         UNCHANGED effects, n.way = req[r].way, n.u = req[r].u,
         req[r].way = "confirm" => n.action = req[r].action /\ n.m = req[r].m,
         \/ /\ req[r].step \in Open /\ r \notin effects
            /\ n.step \in Open \union {"auditing"}
         \/ req[r].step = "mutated" /\ r \in effects /\ n.step = "auditing",
         Routed(n, r \in effects)
  PROVE  RouteInv' /\ UNCHANGED <<CallsNow, effects>>
<1>1. RouteInv'
  BY RouteKeeps
<1>2. CallAs(n, r \in effects) = CallAs(req[r], r \in effects)
  <2>1. req[r].step \notin {"idle", "answered"} /\ n.step \notin {"idle", "answered"}
    BY DEF Open
  <2>2. CASE /\ req[r].step \in Open /\ r \notin effects
             /\ n.step \in Open \union {"auditing"}
    <3>1. CASE req[r].way = "confirm"
      BY <2>1, <2>2, <3>1 DEF CallAs, Open
    <3>2. CASE req[r].way # "confirm"
      BY <2>1, <2>2, <3>2 DEF CallAs, Open
    <3> QED BY <3>1, <3>2
  <2>3. CASE req[r].step = "mutated" /\ r \in effects /\ n.step = "auditing"
    <3>1. CASE req[r].way = "confirm"
      BY <2>1, <2>3, <3>1 DEF CallAs, Open
    <3>2. CASE req[r].way # "confirm"
      BY <2>1, <2>3, <3>2 DEF CallAs, Open
    <3> QED BY <3>1, <3>2
  <2> QED BY <2>2, <2>3
<1>3. CallsNow = [p \in Requests |-> CallsNow[p]]
  BY DEF CallsNow
<1>4. CallsNow' = [CallsNow EXCEPT ![r] = CallsNow[r]]
  BY <1>2, CallsMove
<1>5. CallsNow' = CallsNow
  BY <1>3, <1>4
<1> QED BY <1>1, <1>5

\* What stays hidden of a request that is decided.
LEMMA DecidedIs ==
  ASSUME NEW q \in RequestRecord, NEW event \in Events, NEW reason \in Reasons,
         NEW status \in Statuses
  PROVE  LET n == ToAudit(q, event, reason, status) IN
         /\ n \in RequestRecord
         /\ n.step = "auditing" /\ n.status = status
         /\ n.action = q.action /\ n.m = q.m /\ n.u = q.u /\ n.way = q.way
BY DEF ToAudit, RequestRecord

\* A request that is about to be decided, and what is allowed to it.
Deciding(q) ==
  /\ q \in RequestRecord
  /\ q.action \in ActionIds
  /\ q.way = "confirm" => q.action \in NeedsConfirmation
  /\ AboutMeeting(q.action) => q.m \in Meetings

\* A record a decision may end in.
Ends(q, n) ==
  /\ n \in RequestRecord
  /\ n.step \in Open \union {"auditing"}
  /\ n.action = q.action /\ n.m = q.m /\ n.u = q.u /\ n.way = q.way
  /\ Routed(n, FALSE)

\* A refusal is no success.
LEMMA RejectedRouted ==
  ASSUME NEW q \in RequestRecord, NEW reason \in Reasons
  PROVE  Ends(q, Rejected(q, reason))
<1> DEFINE n == Rejected(q, reason)
<1>1. StatusOf(reason) \in Statuses \ Granting
  BY StatusIs
<1>2. /\ n \in RequestRecord
      /\ n.step = "auditing" /\ n.status = StatusOf(reason)
      /\ n.action = q.action /\ n.m = q.m /\ n.u = q.u /\ n.way = q.way
  BY <1>1, DecidedIs DEF Rejected, Events
<1> HIDE DEF n
<1> QED BY <1>1, <1>2 DEF Ends, Routed, n

\* What is allowed is proposed, done at once or left to a change.
LEMMA ProceedRouted ==
  ASSUME NEW q, Deciding(q), NEW reason \in {"authenticated"} \union AllowReasons
  PROVE  Ends(q, Proceed(q, reason))
<1>1. /\ reason \in Reasons /\ "confirmation_required" \in Reasons
      /\ Granting \subseteq Statuses
      /\ {"selected", "pending_confirmation", "executed"} \subseteq Events
  BY DEF Reasons, Granting, Statuses, Events
<1>2. ASSUME NEW event \in Events, NEW why \in Reasons, NEW status \in Granting,
             q.way = "message" =>
               status = IF q.action \in NeedsConfirmation
                        THEN "confirmation_required" ELSE "success",
             q.way = "confirm" => status = "success" /\ q.action \notin Mutations
      PROVE  Ends(q, ToAudit(q, event, why, status))
  <2> DEFINE n == ToAudit(q, event, why, status)
  <2>1. /\ n \in RequestRecord
        /\ n.step = "auditing" /\ n.status = status
        /\ n.action = q.action /\ n.m = q.m /\ n.u = q.u /\ n.way = q.way
    BY <1>1, DecidedIs DEF Deciding
  <2> HIDE DEF n
  <2> QED BY <1>2, <2>1 DEF Ends, Routed, Deciding, n
<1>3. CASE q.way = "message" /\ q.action \in NeedsConfirmation
  BY <1>1, <1>2, <1>3 DEF Proceed, Granting
<1>4. CASE q.way = "message" /\ q.action \notin NeedsConfirmation
  BY <1>1, <1>2, <1>4 DEF Proceed, Granting
<1>5. CASE q.way = "confirm" /\ q.action \in Mutations
  <2> DEFINE n == [q EXCEPT !.step = "mutating", !.reason = reason]
  <2>1. Proceed(q, reason) = n
    BY <1>5 DEF Proceed
  <2>2. /\ n \in RequestRecord /\ n.step = "mutating" /\ n.action = q.action
        /\ n.m = q.m /\ n.u = q.u /\ n.way = q.way
    BY <1>1 DEF Deciding, RequestRecord
  <2> HIDE DEF n
  <2> QED BY <1>5, <2>1, <2>2 DEF Ends, Routed, Deciding, Open
<1>6. CASE q.way = "confirm" /\ q.action \notin Mutations
  BY <1>1, <1>2, <1>6 DEF Proceed, Granting
<1> QED BY <1>3, <1>4, <1>5, <1>6 DEF Deciding, RequestRecord

\* Either way.
LEMMA ConcludedRouted ==
  ASSUME NEW q, Deciding(q), NEW reason \in AllowReasons \union DenyReasons
  PROVE  Ends(q, Concluded(q, reason))
BY ProceedRouted, RejectedRouted DEF Concluded, Allows, Deciding, Reasons

-----------------------------------------------------------------------------
\* What the caller of a request can tell after a step it cannot tell.
Quiet == RouteInv' /\ UNCHANGED <<CallsNow, effects>>

\* A decision is no news before its audit row.
LEMMA EndsQuietly ==
  ASSUME ActionsInv, RouteInv, NEW r \in Requests,
         req[r].step \in {"asking", "decided", "facts"}, NEW n, Ends(req[r], n),
         Go(r, n), UNCHANGED effects
  PROVE  Quiet
<1>1. r \notin effects
  BY DEF ActionsInv, RequestIsTrue, StepIsTrue, Before
<1>2. Routed(n, r \in effects)
  BY <1>1 DEF Ends, Routed
<1> QED BY <1>1, <1>2, QuietServes DEF Ends, Open, Quiet

\* The provider decides, for a message.
LEMMA ModelDecidesQuietly ==
  ASSUME ActionsInv, RouteInv, NEW r \in Requests,
         NEW a \in Asked, NEW m \in Named, NEW given \in Given,
         ModelDecides(r, a, m, given)
  PROVE  Quiet
<1> DEFINE n == [req[r] EXCEPT !.step = "decided", !.action = a, !.m = m,
                               !.given = given]
<1>1. /\ req[r] \in RequestRecord /\ req[r].step = "asking" /\ req[r].way = "message"
      /\ r \notin effects
  BY DEF ActionsInv, ActionsTypeOK, RequestIsTrue, StepIsTrue, Before, ModelDecides,
         RouteInv, Routed
<1>2. /\ n \in RequestRecord /\ n.step = "decided" /\ n.way = req[r].way
      /\ n.u = req[r].u
  BY <1>1 DEF RequestRecord
<1>3. Go(r, n) /\ UNCHANGED effects
  BY DEF ModelDecides
<1> HIDE DEF n
<1>4. Routed(n, r \in effects)
  BY <1>1, <1>2 DEF Routed
<1> QED BY <1>1, <1>2, <1>3, <1>4, QuietServes DEF Open, Quiet

\* The provider's answer is no decision.
LEMMA ModelGarblesQuietly ==
  ASSUME ActionsInv, RouteInv, NEW r \in Requests, ModelGarbles(r)
  PROVE  Quiet
<1>1. Ends(req[r], Rejected(req[r], "invalid_llm_output"))
  BY RejectedRouted DEF ActionsInv, ActionsTypeOK, Reasons, Refusals
<1> QED BY <1>1, EndsQuietly DEF ModelGarbles

\* An objection.
LEMMA ObjectQuietly ==
  ASSUME ActionsInv, RouteInv, NEW r \in Requests, Object(r)
  PROVE  Quiet
<1>1. Objection(req[r]) \in Reasons
  BY DEF Object, Objection, ValidateParameters, Reasons, Refusals
<1>2. Ends(req[r], Rejected(req[r], Objection(req[r])))
  BY <1>1, RejectedRouted DEF ActionsInv, ActionsTypeOK
<1> QED BY <1>2, EndsQuietly DEF Object

\* The dispatcher's first SELECT.
LEMMA DispatchQuietly ==
  ASSUME ActionsInv, RouteInv, NEW r \in Requests, Dispatch(r)
  PROVE  Quiet
<1> DEFINE q == req[r]
           p == Permission[q.action]
<1>1. q \in RequestRecord
  BY DEF ActionsInv, ActionsTypeOK
<1>2. /\ q.step = "decided" /\ q.action \in ActionIds
      /\ Go(r, Dispatched(q)) /\ UNCHANGED effects
      /\ q.way = "confirm" => q.action \in NeedsConfirmation
  BY DEF Dispatch, Objection, Registered
<1>3. p = "authenticated" \/ q.m \in Meetings => Deciding(q)
  BY <1>1, <1>2 DEF Deciding, AboutMeeting
<1> HIDE DEF q
<1>4. Ends(q, Dispatched(q))
  <2>1. CASE p = "authenticated"
    BY <1>3, <2>1, ProceedRouted DEF Dispatched
  <2>2. CASE p # "authenticated" /\ q.m \notin Meetings
    BY <1>1, <2>2, RejectedRouted DEF Dispatched, Reasons, Refusals
  <2>3. CASE p = "meeting" /\ q.m \in Meetings
    BY <1>3, <2>3, ConcludedRouted, CanListIs DEF Dispatched
  <2>4. CASE p = "meeting_organizer" /\ q.m \in Meetings
    BY <1>3, <2>4, ConcludedRouted, CanManageIs DEF Dispatched
  <2>5. CASE p = "confidential_notes" /\ q.m \in Meetings /\ q.u = Organizer[q.m]
    BY <1>3, <2>5, ConcludedRouted DEF Dispatched, AllowReasons
  <2>6. CASE /\ p \in {"transcript", "confidential_notes"} /\ q.m \in Meetings
             /\ p = "confidential_notes" => q.u # Organizer[q.m]
    <3> DEFINE listed == q.u \in ActiveUsers(q.m)
               n == [q EXCEPT !.step = "facts", !.active = listed]
    <3>1. Dispatched(q) = n
      BY <2>6 DEF Dispatched
    <3>2. listed \in BOOLEAN
      OBVIOUS
    <3> HIDE DEF listed
    <3>3. /\ n \in RequestRecord /\ n.step = "facts" /\ n.action = q.action
          /\ n.m = q.m /\ n.u = q.u /\ n.way = q.way
      BY <1>1, <3>2 DEF RequestRecord
    <3> HIDE DEF n
    <3> QED BY <1>2, <3>1, <3>3 DEF Ends, Routed, Open
  <2> QED BY <1>2, <2>1, <2>2, <2>3, <2>4, <2>5, <2>6, JustifiedBy
<1> QED BY <1>2, <1>4, EndsQuietly DEF q

\* What the second SELECT decides is for a request that may be decided.
LEMMA FactsDecide ==
  ASSUME ActionsInv, RouteInv, NEW r \in Requests, req[r].step = "facts"
  PROVE  Deciding(req[r])
BY DEF ActionsInv, ActionsTypeOK, RequestIsTrue, StepIsTrue, RouteInv, Routed, Deciding

\* The SELECT of the transcript.
LEMMA ReadTranscriptQuietly ==
  ASSUME ActionsInv, RouteInv, NEW r \in Requests, ReadTranscript(r)
  PROVE  Quiet
<1> DEFINE q == req[r]
<1>1. Deciding(q)
  BY FactsDecide DEF ReadTranscript
<1> HIDE DEF q
<1>2. Ends(q, Concluded(q, CanListMeeting(q.u, TRUE, Organizer[q.m], FactUsers(q))))
  BY <1>1, ConcludedRouted, CanListIs
<1>3. Ends(q, Rejected(q, "resource_not_found"))
  BY <1>1, RejectedRouted DEF Deciding, Reasons, Refusals
<1> QED BY <1>2, <1>3, EndsQuietly DEF ReadTranscript, q

\* The SELECT of the grants.
LEMMA ReadGrantsQuietly ==
  ASSUME ActionsInv, RouteInv, NEW r \in Requests, ReadGrants(r)
  PROVE  Quiet
<1>1. Deciding(req[r])
  BY FactsDecide DEF ReadGrants
<1>2. Ends(req[r], Concluded(req[r], NotesReason(req[r])))
  BY <1>1, ConcludedRouted, NotesReasonIs
<1> QED BY <1>2, EndsQuietly DEF ReadGrants

\* The scheduling service's own row.
LEMMA AuditMutationQuietly ==
  ASSUME ActionsInv, RouteInv, NEW r \in Requests, AuditMutation(r)
  PROVE  Quiet
<1>1. /\ req[r] \in RequestRecord /\ req[r].step = "mutated"
      /\ StepIsTrue(r) /\ TrailIsTrue(r) /\ Routed(req[r], r \in effects)
  BY DEF ActionsInv, ActionsTypeOK, RequestIsTrue, RouteInv, AuditMutation
<1>2. req[r].reason \in Reasons
  BY <1>1 DEF RequestRecord
<1>3. req[r].action \in ActionIds
  BY <1>1 DEF StepIsTrue
<1>4. r \in effects
  BY <1>1 DEF TrailIsTrue
<1>5. /\ req[r] \in RequestRecord /\ req[r].reason \in Reasons
      /\ req[r].step = "mutated" /\ r \in effects
      /\ req[r].action \in ActionIds /\ req[r].way = "confirm"
  BY <1>1, <1>2, <1>3, <1>4 DEF Routed
<1> DEFINE n == ToAudit(req[r], "executed", req[r].reason, "success")
<1>6. /\ n \in RequestRecord
      /\ n.step = "auditing" /\ n.status = "success"
      /\ n.action = req[r].action /\ n.m = req[r].m /\ n.u = req[r].u
      /\ n.way = req[r].way
  <2>1. "executed" \in Events /\ "success" \in Statuses
    BY DEF Events, Statuses
  <2> QED BY <1>5, <2>1, DecidedIs
<1>7. Go(r, n) /\ UNCHANGED effects
  BY DEF AuditMutation
<1> HIDE DEF n
<1>8. Routed(n, r \in effects)
  BY <1>5, <1>6 DEF Routed
<1> QED BY <1>5, <1>6, <1>7, <1>8, QuietServes DEF Quiet

-----------------------------------------------------------------------------
\* What a caller can tell of its request.
Told(q, state, action, answer) ==
  [ state |-> state, way |-> q.way, action |-> action,
    may |-> q.way = "confirm" /\ q.m \in Meetings /\ q.u = Organizer[q.m],
    answer |-> answer ]

Asks(q) == IF q.way = "confirm" THEN q.action ELSE "none"

\* The same at each step of a request.
LEMMA CallIs ==
  ASSUME NEW r \in Requests
  PROVE  LET q == req[r] IN
         /\ q.step = "idle" => CallsNow[r] = Told(q, "none", Asks(q), "none")
         /\ q.step \in Open \/ (q.step = "auditing" /\ r \notin effects) =>
              CallsNow[r] = Told(q, "open", Asks(q), "none")
         /\ q.step = "mutated" \/ (q.step = "auditing" /\ r \in effects) =>
              CallsNow[r] = Told(q, "performed", Asks(q), "none")
BY DEF CallsNow, CallOf, Told, Asks, Open

\* And of the request that moves.
LEMMA CallBecomes ==
  ASSUME ActionsInv, NEW r \in Requests, NEW n \in RequestRecord, Go(r, n),
         effects' \in {effects, effects \union {r}}
  PROVE  /\ CallsNow' = [CallsNow EXCEPT ![r] = CallsNow'[r]]
         /\ n.step \in Open \/ (n.step = "auditing" /\ r \notin effects') =>
              CallsNow'[r] = Told(n, "open", Asks(n), "none")
         /\ n.step = "mutated" \/ (n.step = "auditing" /\ r \in effects') =>
              CallsNow'[r] = Told(n, "performed", Asks(n), "none")
         /\ n.step = "failed" => CallsNow'[r] = Told(n, "failed", Asks(n), "none")
         /\ n.step = "answered" =>
              CallsNow'[r] =
                Told(n, "answered", n.action,
                     IF n.status \in Granting THEN n.status ELSE "refused")
<1>1. req'[r] = n
  BY GoIs DEF ActionsInv
<1>2. /\ n.step \in Open \/ (n.step = "auditing" /\ r \notin effects') =>
           CallsNow'[r] = Told(n, "open", Asks(n), "none")
      /\ n.step = "mutated" \/ (n.step = "auditing" /\ r \in effects') =>
           CallsNow'[r] = Told(n, "performed", Asks(n), "none")
      /\ n.step = "failed" => CallsNow'[r] = Told(n, "failed", Asks(n), "none")
      /\ n.step = "answered" =>
           CallsNow'[r] =
             Told(n, "answered", n.action,
                  IF n.status \in Granting THEN n.status ELSE "refused")
  BY <1>1 DEF CallsNow, CallOf, Told, Asks, Open
<1>3. CallsNow' = [CallsNow EXCEPT ![r] = CallAs(n, r \in effects')]
  BY CallsMove
<1>4. CallsNow' = [CallsNow EXCEPT ![r] = CallsNow'[r]]
  BY <1>3 DEF CallsNow
<1> QED BY <1>2, <1>4

\* The same, with the caller's right named.
LEMMA ToldIs ==
  ASSUME NEW q, NEW state, NEW action, NEW answer, NEW may,
         may = (q.way = "confirm" /\ q.m \in Meetings /\ q.u = Organizer[q.m])
  PROVE  Told(q, state, action, answer) =
           [ state |-> state, way |-> q.way, action |-> action, may |-> may,
             answer |-> answer ]
BY DEF Told

\* A call that confirms.
LEMMA ConfirmedCallIs ==
  ASSUME NEW a \in Asked, NEW may \in BOOLEAN, NEW after,
         after = [ state |-> "open", way |-> "confirm", action |-> a, may |-> may,
                   answer |-> "none" ]
  PROVE  after = [Service!NoCall EXCEPT !.state = "open", !.way = "confirm",
                                        !.action = a, !.may = may]
<1> DEFINE words == {"none", "open", "message", "confirm"} \union Asked
           Words == [state : words, way : words, action : words, may : BOOLEAN,
                     answer : words]
<1>1. PICK before : before = Service!NoCall
  OBVIOUS
<1>2. before \in Words /\ before.answer = "none"
  BY <1>1 DEF Service!NoCall
<1>3. /\ after \in Words /\ after.state = "open" /\ after.way = "confirm"
      /\ after.action = a /\ after.may = may /\ after.answer = "none"
  OBVIOUS
<1>4. {"open", "confirm", a} \subseteq words
  OBVIOUS
<1> HIDE DEF words
<1>5. after = [before EXCEPT !.state = "open", !.way = "confirm", !.action = a,
                             !.may = may]
  BY <1>2, <1>3, <1>4
<1> QED BY <1>1, <1>5

\* Nothing is told of a request that has not arrived.
LEMMA NoCallIs ==
  ASSUME NEW q, q.way = "message"
  PROVE  Told(q, "none", Asks(q), "none") = Service!NoCall
<1>1. Asks(q) = "none"
  BY DEF Asks
<1>2. (q.way = "confirm" /\ q.m \in Meetings /\ q.u = Organizer[q.m]) = FALSE
  OBVIOUS
<1> QED BY <1>1, <1>2 DEF Told, Service!NoCall

\* The service and the routes have one vocabulary.
LEMMA VocabularyIsOne ==
  /\ Service!Asked = Asked
  /\ Service!ActionIds = ActionIds
  /\ Service!Mutations = Mutations
  /\ Service!NeedsConfirmation = NeedsConfirmation
  /\ \A a : Service!AboutMeeting(a) <=> AboutMeeting(a)
BY DEF Service!Asked, Asked, Service!ActionIds, ActionIds, Service!Permission,
       Permission, Service!Mutations, Mutations, Service!NeedsConfirmation,
       NeedsConfirmation, Service!AboutMeeting, AboutMeeting

\* A step of the service, or none.
Serves == RouteInv' /\ [Service!ServiceNext]_<<CallsNow, effects>>

\* A step its caller can tell is a step of the service's.
LEMMA StepServes ==
  ASSUME RouteInv', NEW r \in Requests, CallsNow'[r] # CallsNow[r],
         \/ Service!ReceiveMessage(r)
         \/ \E a \in Asked, may \in BOOLEAN : Service!ReceiveConfirm(r, a, may)
         \/ Service!CallStep(r)
  PROVE  Serves
<1>1. \/ Service!ReceiveMessage(r)
      \/ \E a \in Service!Asked, may \in BOOLEAN : Service!ReceiveConfirm(r, a, may)
      \/ Service!CallStep(r)
  BY VocabularyIsOne, Zenon
<1>2. Service!ServiceNext
  BY <1>1, Zenon DEF Service!ServiceNext, CallsNow
<1> QED BY <1>2 DEF Serves

\* A message arrives, whatever it turns out to be.
LEMMA MessageServes ==
  ASSUME ActionsInv, RouteInv, NEW r \in Requests, req[r].step = "idle",
         NEW n \in RequestRecord, Go(r, n), UNCHANGED effects, n.way = "message",
         n.step \in Open \union {"auditing"}, Routed(n, FALSE)
  PROVE  Serves
<1>1. r \notin effects /\ req[r].way = "message"
  BY DEF ActionsInv, RequestIsTrue, StepIsTrue, Before, RouteInv, Routed
<1>2. Routed(n, r \in effects')
  BY <1>1 DEF Routed
<1>3. RouteInv'
  BY <1>2, RouteKeeps
<1>4. CallsNow[r] = Service!NoCall
  BY <1>1, CallIs, NoCallIs
<1>5. /\ CallsNow' = [CallsNow EXCEPT ![r] = CallsNow'[r]]
      /\ CallsNow'[r] = Told(n, "open", Asks(n), "none")
  BY <1>1, CallBecomes
<1>6. Told(n, "open", Asks(n), "none") = [Service!NoCall EXCEPT !.state = "open"]
  <2>1. Told(n, "none", Asks(n), "none") = Service!NoCall
    BY NoCallIs
  <2> QED BY <2>1 DEF Told
<1>7. CallsNow' = [CallsNow EXCEPT ![r].state = "open"]
  BY <1>4, <1>5, <1>6
<1>8. CallsNow[r].state = "none" /\ CallsNow'[r].state = "open"
  BY <1>4, <1>5 DEF Told, Service!NoCall
<1>9. Service!ReceiveMessage(r)
  BY <1>7, <1>8 DEF Service!ReceiveMessage, CallsNow
<1> QED BY <1>3, <1>8, <1>9, StepServes

\* A message is empty, too long, a wish about the presentation or for the model.
LEMMA ReceiveMessageServes ==
  ASSUME ActionsInv, RouteInv, NEW r \in Requests, NEW u \in Users,
         ReceiveMessage(r, u)
  PROVE  Serves
<1> DEFINE q == [NoRequest EXCEPT !.u = u]
<1>1. /\ q \in RequestRecord /\ q.way = "message" /\ q.step = "idle"
      /\ q.status = "none"
  BY DEF NoRequest, RequestRecord, Asked, Named, Given, Reasons
<1>2. req[r].step = "idle" /\ UNCHANGED effects
  BY DEF ReceiveMessage
<1>3. ASSUME NEW reason \in {"empty_message", "message_too_long"},
             Go(r, Rejected(q, reason))
      PROVE  Serves
  <2> DEFINE n == Rejected(q, reason)
  <2>1. Ends(q, n)
    BY <1>1, RejectedRouted DEF Reasons, Refusals
  <2>2. Go(r, n)
    BY <1>3
  <2> HIDE DEF n, q
  <2> QED BY <1>1, <1>2, <2>1, <2>2, MessageServes DEF Ends
<1>4. ASSUME NEW theme \in Themes,
             Go(r, [q EXCEPT !.step = "decided", !.action = theme])
      PROVE  Serves
  <2> DEFINE n == [q EXCEPT !.step = "decided", !.action = theme]
  <2>1. theme \in Asked
    BY DEF Themes, Asked, ActionIds, Permission
  <2> HIDE DEF q
  <2>2. /\ n \in RequestRecord /\ n.step = "decided" /\ n.way = "message"
    BY <1>1, <2>1 DEF RequestRecord
  <2>3. Go(r, n)
    BY <1>4 DEF q
  <2> HIDE DEF n
  <2>4. Routed(n, FALSE)
    BY <2>2 DEF Routed
  <2> QED BY <1>2, <2>2, <2>3, <2>4, MessageServes DEF Open
<1>5. ASSUME Go(r, [q EXCEPT !.step = "asking"])
      PROVE  Serves
  <2> DEFINE n == [q EXCEPT !.step = "asking"]
  <2> HIDE DEF q
  <2>1. /\ n \in RequestRecord /\ n.step = "asking" /\ n.way = "message"
    BY <1>1 DEF RequestRecord
  <2>2. Go(r, n)
    BY <1>5 DEF q
  <2> HIDE DEF n
  <2>3. Routed(n, FALSE)
    BY <2>1 DEF Routed
  <2> QED BY <1>2, <2>1, <2>2, <2>3, MessageServes DEF Open
<1> QED BY <1>3, <1>4, <1>5 DEF ReceiveMessage

\* A confirmation arrives.
LEMMA ReceiveConfirmServes ==
  ASSUME ActionsInv, RouteInv, NEW r \in Requests,
         NEW u \in Users, NEW a \in Asked, NEW m \in Named, NEW given \in Given,
         ReceiveConfirm(r, u, a, m, given)
  PROVE  Serves
<1> DEFINE n == [NoRequest EXCEPT !.step = "decided", !.way = "confirm", !.u = u,
                                  !.action = a, !.m = m, !.given = given]
           may == m \in Meetings /\ u = Organizer[m]
<1>1. /\ n \in RequestRecord /\ n.step = "decided" /\ n.way = "confirm"
      /\ n.action = a /\ n.m = m /\ n.u = u
  BY DEF NoRequest, RequestRecord, Reasons
<1>2. /\ req[r].step = "idle" /\ Go(r, n) /\ UNCHANGED effects
  BY DEF ReceiveConfirm
<1> HIDE DEF n
<1>3. r \notin effects /\ req[r].way = "message"
  BY <1>2 DEF ActionsInv, RequestIsTrue, StepIsTrue, Before, RouteInv, Routed
<1>4. Routed(n, r \in effects')
  BY <1>1, <1>2, <1>3 DEF Routed
<1>5. RouteInv'
  BY <1>1, <1>2, <1>4, RouteKeeps
<1>6. CallsNow[r] = Service!NoCall
  BY <1>2, <1>3, CallIs, NoCallIs
<1>7. /\ CallsNow' = [CallsNow EXCEPT ![r] = CallsNow'[r]]
      /\ CallsNow'[r] = Told(n, "open", Asks(n), "none")
  BY <1>1, <1>2, CallBecomes DEF Open
<1>8. /\ may \in BOOLEAN
      /\ may = (n.way = "confirm" /\ n.m \in Meetings /\ n.u = Organizer[n.m])
  BY <1>1
<1> HIDE DEF may
<1>9. Told(n, "open", Asks(n), "none") =
        [ state |-> "open", way |-> "confirm", action |-> a, may |-> may,
          answer |-> "none" ]
  BY <1>1, <1>8, ToldIs DEF Asks
<1>10. CallsNow'[r] = [Service!NoCall EXCEPT !.state = "open", !.way = "confirm",
                                            !.action = a, !.may = may]
  BY <1>7, <1>8, <1>9, ConfirmedCallIs
<1>11. CallsNow[r].state = "none" /\ CallsNow'[r].state = "open"
  BY <1>6, <1>7 DEF Told, Service!NoCall
<1>12. Service!ReceiveConfirm(r, a, may)
  BY <1>2, <1>7, <1>10, <1>11 DEF Service!ReceiveConfirm, CallsNow
<1> QED BY <1>5, <1>8, <1>11, <1>12, StepServes

\* The meeting is created or moved.
LEMMA MutateServes ==
  ASSUME ActionsInv, RouteInv, NEW r \in Requests, Mutate(r)
  PROVE  Serves
<1> DEFINE n == [req[r] EXCEPT !.step = "mutated"]
<1>1. /\ req[r] \in RequestRecord /\ req[r].step = "mutating" /\ Go(r, n)
      /\ effects' = effects \union {r} /\ MaySchedule(req[r])
  BY DEF ActionsInv, ActionsTypeOK, Mutate
<1>2. /\ n \in RequestRecord /\ n.step = "mutated" /\ n.way = req[r].way
      /\ n.action = req[r].action /\ n.m = req[r].m /\ n.u = req[r].u
  BY <1>1 DEF RequestRecord
<1> HIDE DEF n
<1>3. /\ req[r].way = "confirm" /\ req[r].action \in Mutations
      /\ AboutMeeting(req[r].action) =>
           req[r].m \in Meetings /\ req[r].u = Organizer[req[r].m]
  <2>1. Routed(req[r], r \in effects)
    BY DEF RouteInv
  <2>2. CanManageMeeting(req[r].u, TRUE, Organizer[req[r].m]) = "organizer" =>
          req[r].u = Organizer[req[r].m]
    BY DEF CanManageMeeting
  <2> QED BY <1>1, <2>1, <2>2 DEF Routed, MaySchedule
<1>4. Routed(n, r \in effects')
  BY <1>2, <1>3 DEF Routed
<1>5. RouteInv'
  BY <1>1, <1>2, <1>4, RouteKeeps
<1>6. CallsNow[r] = Told(req[r], "open", Asks(req[r]), "none")
  BY <1>1, CallIs DEF Open
<1>7. /\ CallsNow' = [CallsNow EXCEPT ![r] = CallsNow'[r]]
      /\ CallsNow'[r] = Told(n, "performed", Asks(n), "none")
  BY <1>1, <1>2, CallBecomes
<1>8. CallsNow'[r] = [CallsNow[r] EXCEPT !.state = "performed"]
  BY <1>2, <1>6, <1>7 DEF Told, Asks
<1>9. /\ CallsNow[r].state = "open" /\ CallsNow[r].way = "confirm"
      /\ CallsNow[r].action = req[r].action
      /\ CallsNow'[r].state = "performed"
  BY <1>3, <1>6, <1>7 DEF Told, Asks
<1>10. ASSUME AboutMeeting(req[r].action)
      PROVE  CallsNow[r].may
  <2> DEFINE may == /\ req[r].way = "confirm" /\ req[r].m \in Meetings
                    /\ req[r].u = Organizer[req[r].m]
  <2>1. may \in BOOLEAN /\ may = (/\ req[r].way = "confirm" /\ req[r].m \in Meetings
                                 /\ req[r].u = Organizer[req[r].m])
    OBVIOUS
  <2>2. may
    BY <1>3, <1>10
  <2> HIDE DEF may
  <2>3. CallsNow[r] = [ state |-> "open", way |-> req[r].way, action |-> Asks(req[r]),
                        may |-> may, answer |-> "none" ]
    BY <1>6, <2>1, ToldIs
  <2>4. CallsNow[r].may = may
    BY <2>3
  <2> QED BY <2>2, <2>4
<1>11. CallsNow' = [CallsNow EXCEPT ![r].state = "performed"]
  BY <1>7, <1>8
<1>12. Service!Perform(r)
  BY <1>1, <1>3, <1>9, <1>10, <1>11, VocabularyIsOne DEF Service!Perform, CallsNow
<1> QED BY <1>5, <1>9, <1>12, StepServes DEF Service!CallStep

\* What AssistantService lets a call be answered with, by its route.
LEMMA AnswerableIs ==
  ASSUME NEW r \in Requests, NEW a
  PROVE  /\ CallsNow[r].way = "message" =>
              Service!Answerable(r, a) =
                {"refused"} \union
                (IF a \in NeedsConfirmation THEN {"confirmation_required"}
                 ELSE IF a \in ActionIds THEN {"success"} ELSE {})
         /\ CallsNow[r].way = "confirm" /\ CallsNow[r].state = "performed" =>
              Service!Answerable(r, a) = {"success"}
         /\ CallsNow[r].way = "confirm" /\ CallsNow[r].state # "performed" =>
              Service!Answerable(r, a) =
                {"refused"} \union
                (IF a \in NeedsConfirmation \ Mutations THEN {"success"} ELSE {})
<1>1. Service!Answerable(r, a) =
        CASE CallsNow[r].way = "message" ->
               {"refused"} \union
               (CASE a \in NeedsConfirmation -> {"confirmation_required"}
                  [] a \in ActionIds \ NeedsConfirmation -> {"success"}
                  [] OTHER -> {})
          [] CallsNow[r].way = "confirm" /\ CallsNow[r].state = "performed" ->
               {"success"}
          [] OTHER -> {"refused"} \union
                      (IF a \in NeedsConfirmation \ Mutations THEN {"success"} ELSE {})
  BY VocabularyIsOne DEF Service!Answerable, CallsNow
<1>2. (CASE a \in NeedsConfirmation -> {"confirmation_required"}
         [] a \in ActionIds \ NeedsConfirmation -> {"success"}
         [] OTHER -> {}) =
        IF a \in NeedsConfirmation THEN {"confirmation_required"}
        ELSE IF a \in ActionIds THEN {"success"} ELSE {}
  OBVIOUS
<1> QED BY <1>1, <1>2

\* The answers a decided request may get.
LEMMA AnswersAre ==
  ASSUME ActionsInv, RouteInv, NEW r \in Requests, req[r].step = "auditing",
         NEW s, s = IF req[r].status \in Granting THEN req[r].status ELSE "refused"
  PROVE  /\ s \in Service!Answers
         /\ s \in Service!Answerable(r, req[r].action)
<1> DEFINE q == req[r]
<1>1. q \in RequestRecord /\ Routed(q, r \in effects) /\ TrailIsTrue(r)
  BY DEF ActionsInv, ActionsTypeOK, RequestIsTrue, RouteInv
<1>2. /\ r \in effects => CallsNow[r] = Told(q, "performed", Asks(q), "none")
      /\ r \notin effects => CallsNow[r] = Told(q, "open", Asks(q), "none")
  BY CallIs
<1>3. /\ CallsNow[r].way = q.way
      /\ CallsNow[r].state = IF r \in effects THEN "performed" ELSE "open"
  BY <1>2 DEF Told
<1>4. r \in effects => q.status \in Granting
  BY <1>1 DEF TrailIsTrue
<1>5. s \in Service!Answers
  BY DEF Service!Answers, Granting
<1>6. /\ q.status \notin Granting => s = "refused"
      /\ q.status \in Granting => s = q.status
  OBVIOUS
<1>7. q.status \in Granting =>
        /\ q.action \in ActionIds
        /\ q.way = "message" =>
             q.status = IF q.action \in NeedsConfirmation
                        THEN "confirmation_required" ELSE "success"
        /\ q.way = "confirm" =>
             /\ q.status = "success"
             /\ r \in effects \/ q.action \in NeedsConfirmation \ Mutations
  BY <1>1 DEF Routed
<1> HIDE DEF q
<1>8. ASSUME q.way = "message"
      PROVE  s \in Service!Answerable(r, q.action)
  <2>1. Service!Answerable(r, q.action) =
          {"refused"} \union
          (IF q.action \in NeedsConfirmation THEN {"confirmation_required"}
           ELSE IF q.action \in ActionIds THEN {"success"} ELSE {})
    BY <1>3, <1>8, AnswerableIs
  <2> QED BY <1>6, <1>7, <1>8, <2>1
<1>9. ASSUME q.way = "confirm" /\ r \in effects
      PROVE  s \in Service!Answerable(r, q.action)
  <2>1. Service!Answerable(r, q.action) = {"success"}
    BY <1>3, <1>9, AnswerableIs
  <2> QED BY <1>4, <1>6, <1>7, <1>9, <2>1
<1>10. ASSUME q.way = "confirm" /\ r \notin effects
      PROVE  s \in Service!Answerable(r, q.action)
  <2>1. Service!Answerable(r, q.action) =
          {"refused"} \union
          (IF q.action \in NeedsConfirmation \ Mutations THEN {"success"} ELSE {})
    BY <1>3, <1>10, AnswerableIs
  <2> QED BY <1>6, <1>7, <1>10, <2>1
<1>11. s \in Service!Answerable(r, q.action)
  BY <1>1, <1>8, <1>9, <1>10 DEF RequestRecord
<1> QED BY <1>5, <1>11 DEF q

\* The call c once it is answered.
Answered(c, a, s) == [c EXCEPT !.state = "answered", !.action = a, !.answer = s]

\* A call that is answered.
LEMMA AnsweredCallIs ==
  ASSUME NEW q \in RequestRecord, NEW was \in {"open", "performed"},
         NEW s \in Service!Answers, NEW before, NEW after,
         before = Told(q, was, Asks(q), "none"),
         after = Told(q, "answered", q.action, s)
  PROVE  after = Answered(before, q.action, s)
<1> DEFINE words == {"none", "open", "performed", "answered", "message", "confirm"}
                      \union Asked \union Service!Answers
           Words == [state : words, way : words, action : words, may : BOOLEAN,
                     answer : words]
<1>1. q.action \in words /\ q.way \in words /\ Asks(q) \in words
      /\ {"answered", s, was, "none"} \subseteq words
  BY DEF RequestRecord, Asks
<1>2. PICK may \in BOOLEAN :
        may = (q.way = "confirm" /\ q.m \in Meetings /\ q.u = Organizer[q.m])
  OBVIOUS
<1> HIDE DEF words
<1>3. /\ before = [ state |-> was, way |-> q.way, action |-> Asks(q), may |-> may,
                    answer |-> "none" ]
      /\ after = [ state |-> "answered", way |-> q.way, action |-> q.action,
                   may |-> may, answer |-> s ]
  BY <1>2, ToldIs
<1>4. before \in Words
  BY <1>1, <1>3
<1>5. after \in Words
  BY <1>1, <1>3
<1>6. before.way = q.way /\ before.may = may
  BY <1>3
<1>7. /\ after.state = "answered" /\ after.way = q.way
      /\ after.action = q.action /\ after.may = may /\ after.answer = s
  BY <1>3
<1> QED BY <1>1, <1>4, <1>5, <1>6, <1>7 DEF Answered

\* An answer leaves.
LEMMA AuditServes ==
  ASSUME ActionsInv, RouteInv, NEW r \in Requests, Audit(r)
  PROVE  Serves
<1> DEFINE n == [req[r] EXCEPT !.step = "answered"]
<1>1. /\ req[r] \in RequestRecord /\ req[r].step = "auditing" /\ Go(r, n)
      /\ UNCHANGED effects /\ Routed(req[r], r \in effects)
  BY DEF ActionsInv, ActionsTypeOK, Audit, RouteInv
<1>2. /\ n \in RequestRecord /\ n.step = "answered" /\ n.way = req[r].way
      /\ n.action = req[r].action /\ n.m = req[r].m /\ n.u = req[r].u
      /\ n.status = req[r].status
  BY <1>1 DEF RequestRecord
<1> HIDE DEF n
<1>3. Routed(n, r \in effects')
  BY <1>1, <1>2 DEF Routed
<1>4. RouteInv'
  BY <1>1, <1>2, <1>3, RouteKeeps
<1>5. PICK was \in {"open", "performed"} :
        CallsNow[r] = Told(req[r], was, Asks(req[r]), "none")
  BY <1>1, CallIs
<1>6. PICK s : s = IF req[r].status \in Granting THEN req[r].status ELSE "refused"
  OBVIOUS
<1>7. /\ CallsNow' = [CallsNow EXCEPT ![r] = CallsNow'[r]]
      /\ CallsNow'[r] = Told(n, "answered", req[r].action, s)
  BY <1>1, <1>2, <1>6, CallBecomes
<1>8. Told(n, "answered", req[r].action, s) = Told(req[r], "answered", req[r].action, s)
  BY <1>2 DEF Told
<1>9. CallsNow'[r] = [CallsNow[r] EXCEPT !.state = "answered",
                                        !.action = req[r].action, !.answer = s]
  <2>1. s \in Service!Answers
    BY <1>1, <1>6, AnswersAre
  <2>2. CallsNow'[r] = Told(req[r], "answered", req[r].action, s)
    BY <1>7, <1>8
  <2>3. PICK q \in RequestRecord : q = req[r]
    BY <1>1
  <2>4. PICK before, after : before = CallsNow[r] /\ after = CallsNow'[r]
    OBVIOUS
  <2>5. /\ before = Told(q, was, Asks(q), "none")
        /\ after = Told(q, "answered", q.action, s)
    BY <1>5, <2>2, <2>3, <2>4
  <2>6. after = Answered(before, q.action, s)
    BY <1>5, <2>1, <2>3, <2>5, AnsweredCallIs
  <2> QED BY <2>3, <2>4, <2>6 DEF Answered
<1>10. CallsNow' = [CallsNow EXCEPT ![r].state = "answered",
                                   ![r].action = req[r].action, ![r].answer = s]
  BY <1>7, <1>9 DEF CallsNow
<1>11. /\ CallsNow[r].state = was /\ CallsNow'[r].state = "answered"
       /\ CallsNow[r].way = "confirm" => req[r].action = CallsNow[r].action
  BY <1>5, <1>7 DEF Told, Asks
<1>12. req[r].action \in Service!Asked \union {"none"}
  BY <1>1, VocabularyIsOne DEF RequestRecord
<1>13. Service!AnswerCall(r, req[r].action, s)
  BY <1>1, <1>5, <1>6, <1>10, <1>11, AnswersAre DEF Service!AnswerCall, CallsNow
<1>14. Service!CallStep(r)
  BY <1>1, <1>6, <1>12, <1>13, AnswersAre DEF Service!CallStep
<1> QED BY <1>4, <1>5, <1>11, <1>14, StepServes

\* A request fails.
LEMMA FailServes ==
  ASSUME ActionsInv, RouteInv, NEW r \in Requests, req[r].step \in
           {"asking", "decided", "facts", "mutating", "mutated", "auditing"},
         Go(r, [req[r] EXCEPT !.step = "failed"]), UNCHANGED effects
  PROVE  Serves
<1> DEFINE n == [req[r] EXCEPT !.step = "failed"]
<1>1. /\ req[r] \in RequestRecord /\ Go(r, n)
      /\ Routed(req[r], r \in effects)
  BY DEF ActionsInv, ActionsTypeOK, RouteInv
<1>2. /\ n \in RequestRecord /\ n.step = "failed" /\ n.way = req[r].way
      /\ n.action = req[r].action /\ n.m = req[r].m /\ n.u = req[r].u
  BY <1>1 DEF RequestRecord
<1> HIDE DEF n
<1>3. Routed(n, r \in effects')
  BY <1>1, <1>2 DEF Routed
<1>4. RouteInv'
  BY <1>1, <1>2, <1>3, RouteKeeps
<1>5. PICK was \in {"open", "performed"} :
        CallsNow[r] = Told(req[r], was, Asks(req[r]), "none")
  BY <1>1, CallIs DEF Open
<1>6. /\ CallsNow' = [CallsNow EXCEPT ![r] = CallsNow'[r]]
      /\ CallsNow'[r] = Told(n, "failed", Asks(n), "none")
  BY <1>1, <1>2, CallBecomes
<1>7. CallsNow'[r] = [CallsNow[r] EXCEPT !.state = "failed"]
  BY <1>2, <1>5, <1>6 DEF Told, Asks
<1>8. CallsNow' = [CallsNow EXCEPT ![r].state = "failed"]
  BY <1>6, <1>7
<1>9. CallsNow[r].state = was /\ CallsNow'[r].state = "failed"
  BY <1>5, <1>6 DEF Told
<1>10. Service!FailCall(r)
  BY <1>5, <1>8, <1>9 DEF Service!FailCall, CallsNow
<1> QED BY <1>4, <1>5, <1>9, <1>10, StepServes DEF Service!CallStep

-----------------------------------------------------------------------------
\* Nothing has arrived yet.
LEMMA InitServes == Init => RouteInv /\ Service!ServiceInit
<1> SUFFICES ASSUME Init PROVE RouteInv /\ Service!ServiceInit
  OBVIOUS
<1>1. /\ NoRequest.step = "idle" /\ NoRequest.way = "message"
  BY DEF NoRequest
<1>2. \A r \in Requests : req[r] = NoRequest /\ r \notin effects
  BY DEF Init
<1>3. RouteInv
  BY <1>1, <1>2 DEF RouteInv, Routed
<1>4. \A r \in Requests : CallsNow[r] = Service!NoCall
  BY <1>1, <1>2, CallIs, NoCallIs
<1>5. [r \in Requests |-> CallOf(r)] = [r \in Requests |-> Service!NoCall]
  BY <1>4 DEF CallsNow
<1>6. effects = {}
  BY DEF Init
<1> QED BY <1>3, <1>5, <1>6 DEF Service!ServiceInit

\* A step of a request is one of the service or hidden from the caller.
LEMMA RequestServes ==
  ASSUME ActionsInv, RouteInv, NEW r \in Requests, RequestNext(r)
  PROVE  Serves
<1>1. Quiet => Serves
  BY DEF Quiet, Serves
<1>2. CASE \E u \in Users : ReceiveMessage(r, u)
  BY <1>2, ReceiveMessageServes
<1>3. CASE \E u \in Users, a \in Asked, m \in Named, given \in Given :
             ReceiveConfirm(r, u, a, m, given)
  BY <1>3, ReceiveConfirmServes
<1>4. CASE \E a \in Asked, m \in Named, given \in Given :
             ModelDecides(r, a, m, given)
  BY <1>1, <1>4, ModelDecidesQuietly
<1>5. CASE ModelGarbles(r)
  BY <1>1, <1>5, ModelGarblesQuietly
<1>6. CASE ModelFails(r)
  BY <1>6, FailServes DEF ModelFails
<1>7. CASE Object(r)
  BY <1>1, <1>7, ObjectQuietly
<1>8. CASE Dispatch(r)
  BY <1>1, <1>8, DispatchQuietly
<1>9. CASE ReadTranscript(r)
  BY <1>1, <1>9, ReadTranscriptQuietly
<1>10. CASE ReadGrants(r)
  BY <1>1, <1>10, ReadGrantsQuietly
<1>11. CASE Mutate(r)
  BY <1>11, MutateServes
<1>12. CASE AuditMutation(r)
  BY <1>1, <1>12, AuditMutationQuietly
<1>13. CASE Audit(r)
  BY <1>13, AuditServes
<1>14. CASE Break(r)
  BY <1>14, FailServes DEF Break
<1> QED BY <1>2, <1>3, <1>4, <1>5, <1>6, <1>7, <1>8, <1>9, <1>10, <1>11, <1>12,
           <1>13, <1>14 DEF RequestNext, ServerStep

\* So is every step: what other calls commit is hidden too.
LEMMA NextServes == ActionsInv /\ RouteInv /\ [Next]_vars => Serves
<1> SUFFICES ASSUME ActionsInv, RouteInv, [Next]_vars PROVE Serves
  OBVIOUS
<1>1. ASSUME UNCHANGED <<req, effects>>
      PROVE  Serves
  <2>1. RouteInv'
    BY <1>1 DEF RouteInv, Routed
  <2>2. UNCHANGED CallsNow
    BY <1>1 DEF CallsNow, CallOf
  <2> QED BY <1>1, <2>1, <2>2 DEF Serves
<1>2. CASE UNCHANGED vars
  BY <1>1, <1>2 DEF vars
<1> QED BY <1>1, <1>2, RequestServes DEF Next

\* KeepsPromises: the assistant's two routes implement AssistantService.
THEOREM RoutesKeepPromises == Spec => KeepsPromises
<1>1. Init => RouteInv /\ Service!ServiceInit
  BY InitServes
<1>2. ActionsInv /\ RouteInv /\ [Next]_vars =>
        RouteInv' /\ [Service!ServiceNext]_Service!serviceVars
  BY NextServes DEF Serves, Service!serviceVars, CallsNow
<1> QED
  BY <1>1, <1>2, ActionsInvHolds, PTL
  DEF Spec, KeepsPromises, Service!ServiceSpec
=============================================================================
