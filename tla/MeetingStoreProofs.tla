------------------------- MODULE MeetingStoreProofs -------------------------
(***************************************************************************)
(* What MeetingStore keeps for any sets of users, meetings, notes and      *)
(* sessions.                                                               *)
(*                                                                         *)
(* No invariant of MeetingStore is inductive alone: a row written at a     *)
(* commit is as good as what its session read statements earlier.          *)
(* StoreInv joins the type invariant and the two safety invariants with    *)
(* PendingCallsAreGrounded, which says what an open session may rely on.   *)
(***************************************************************************)
EXTENDS MeetingStore, TLAPS

StoreInv ==
  /\ StoreTypeOK
  /\ OrganizerStaysActive
  /\ GrantsFollowParticipation
  /\ PendingCallsAreGrounded

(***************************************************************************)
(* The fields a session's record has, by its step.                         *)
(***************************************************************************)
LEMMA TxnFields ==
  ASSUME NEW t \in Txn
  PROVE  /\ t.step \in {"idle", "add", "membership", "member", "removing",
                        "revoking", "authorized", "grant", "revoke", "access"}
         /\ t.step = "idle" <=> t = Idle
         /\ t.step \in {"add", "membership", "member", "removing", "revoking"} =>
              t.m \in Meetings /\ t.u \in Users
         /\ t.step \in {"add", "member"} => t.seen \in Row \union {NoRow}
         /\ t.step \in {"membership", "removing", "revoking"} =>
              t.seen \in Row /\ t.to \in Status
         /\ t.step \in {"removing", "revoking"} => t.to # "active"
         /\ t.step = "revoking" => t.todo \subseteq Notes /\ t.revoked \subseteq Notes
         /\ t.step \in {"authorized", "grant", "revoke", "access"} =>
              t.n \in Notes /\ t.u \in Users
         /\ t.step \in {"grant", "access"} => t.seen \in Grant \union {"none"}
         /\ t.step = "revoke" => t.seen = "granted"
         /\ t.step = "access" => t.to \in Grant
<1>1. CASE t = Idle
  BY <1>1 DEF Idle
<1>2. CASE t \in [step : {"add"}, m : Meetings, u : Users,
                  seen : Row \union {NoRow}]
  BY <1>2 DEF Idle
<1>3. CASE t \in [step : {"membership"}, m : Meetings, u : Users, to : Status,
                  seen : Row]
  BY <1>3 DEF Idle
<1>4. CASE t \in [step : {"member"}, m : Meetings, u : Users,
                  seen : Row \union {NoRow}]
  BY <1>4 DEF Idle
<1>5. CASE t \in [step : {"removing"}, m : Meetings, u : Users,
                  to : Status \ {"active"}, seen : Row]
  BY <1>5 DEF Idle
<1>6. CASE t \in [step : {"revoking"}, m : Meetings, u : Users,
                  to : Status \ {"active"}, seen : Row, todo : SUBSET Notes,
                  revoked : SUBSET Notes]
  BY <1>6 DEF Idle
<1>7. CASE t \in [step : {"authorized"}, n : Notes, u : Users]
  BY <1>7 DEF Idle
<1>8. CASE t \in [step : {"grant"}, n : Notes, u : Users,
                  seen : Grant \union {"none"}]
  BY <1>8 DEF Idle
<1>9. CASE t \in [step : {"revoke"}, n : Notes, u : Users, seen : {"granted"}]
  BY <1>9 DEF Idle
<1>10. CASE t \in [step : {"access"}, n : Notes, u : Users,
                   seen : Grant \union {"none"}, to : Grant]
  BY <1>10 DEF Idle
<1> QED
  BY <1>1, <1>2, <1>3, <1>4, <1>5, <1>6, <1>7, <1>8, <1>9, <1>10 DEF Txn

(***************************************************************************)
(* A merged row is a row, and keeps an ACTIVE status that the session      *)
(* writes.                                                                 *)
(***************************************************************************)
LEMMA NoRowIsNoRow == NoRow \notin Row
BY DEF NoRow, Row, Status

\* A column-wise UPDATE of a participant row leaves a participant row.
LEMMA MergeType ==
  ASSUME NEW row \in Row, NEW seen \in Row, NEW status \in Status,
         NEW removed \in BOOLEAN
  PROVE  /\ Merge(row, seen, status, removed) \in Row
         /\ MergeRemoval(row, seen, status) \in Row
BY DEF Merge, MergeRemoval, Row

\* A row that its session alone has touched becomes what the session sets.
LEMMA MergeFresh ==
  ASSUME NEW row \in Row, NEW status \in Status, NEW removed \in BOOLEAN
  PROVE  /\ Merge(row, row, status, removed) =
              [status |-> status, removed |-> removed]
         /\ MergeRemoval(row, row, status) =
              [status |-> status, removed |-> TRUE]
BY DEF Merge, MergeRemoval, Row

\* Making an ACTIVE row ACTIVE again leaves it ACTIVE, whatever stale row the
\* call had read.
LEMMA MergeActive ==
  ASSUME NEW row \in Row, NEW seen \in Row, row.status = "active"
  PROVE  Merge(row, seen, "active", FALSE).status = "active"
BY DEF Merge

(***************************************************************************)
(* Sessions that do not move stay grounded while rows only appear.         *)
(***************************************************************************)
RowsStay ==
  /\ meetings \subseteq meetings'
  /\ \A m \in Meetings, u \in Users :
       participant[m][u] # NoRow => participant'[m][u] # NoRow
  /\ notes \subseteq notes'
  /\ \A n \in Notes, u \in Users :
       access[n][u] # "none" => access'[n][u] # "none"

\* What a session relies on stays true while others write, for rows only appear.
LEMMA StaysGrounded ==
  ASSUME StoreInv, RowsStay, NEW s \in Sessions, txn'[s] = txn[s]
  PROVE  Grounded(txn[s])'
<1>1. txn[s] \in Txn /\ Grounded(txn[s])
  BY DEF StoreInv, StoreTypeOK, PendingCallsAreGrounded
<1>2. MeetingOf \in [Notes -> Meetings]
  BY StoreConstants
<1> QED
  BY <1>1, <1>2, TxnFields DEF RowsStay, Grounded, MayChangeTo

\* A call that begins, or reads on, changes no table.
LEMMA ReadKeepsInv ==
  ASSUME StoreInv, NEW s \in Sessions, NEW t \in Txn, Grounded(t),
         txn' = [txn EXCEPT ![s] = t],
         UNCHANGED <<meetings, participant, notes, access>>
  PROVE  StoreInv'
<1>1. RowsStay
  BY DEF RowsStay
<1>2. StoreTypeOK' /\ OrganizerStaysActive' /\ GrantsFollowParticipation'
  BY DEF StoreInv, StoreTypeOK, OrganizerStaysActive,
         GrantsFollowParticipation, Active
<1>3. ASSUME NEW r \in Sessions PROVE Grounded(txn[r])'
  <2>1. CASE r = s
    BY <2>1 DEF StoreInv, StoreTypeOK, Grounded, MayChangeTo
  <2>2. CASE r # s
    <3>1. txn'[r] = txn[r]
      BY <2>2 DEF StoreInv, StoreTypeOK
    <3> QED BY <3>1, <1>1, StaysGrounded
  <2> QED BY <2>1, <2>2
<1> QED BY <1>2, <1>3 DEF StoreInv, PendingCallsAreGrounded

\* A call that ends, in whatever change of the tables that keeps their
\* invariants.
LEMMA EndKeepsInv ==
  ASSUME StoreInv, NEW s \in Sessions, End(s), RowsStay, StoreTypeOK',
         OrganizerStaysActive', GrantsFollowParticipation'
  PROVE  StoreInv'
<1>1. ASSUME NEW r \in Sessions PROVE Grounded(txn[r])'
  <2>1. CASE r = s
    <3>1. txn'[r].step = "idle"
      BY <2>1 DEF StoreInv, StoreTypeOK, End, Idle
    <3> QED BY <3>1 DEF Grounded
  <2>2. CASE r # s
    <3>1. txn'[r] = txn[r]
      BY <2>2 DEF StoreInv, StoreTypeOK, End
    <3> QED BY <3>1, StaysGrounded
  <2> QED BY <2>1, <2>2
<1> QED BY <1>1 DEF StoreInv, PendingCallsAreGrounded

\* A call that ends without a write keeps the invariant.
LEMMA EndKeepsSame ==
  ASSUME StoreInv, NEW s \in Sessions, End(s),
         UNCHANGED <<meetings, participant, notes, access>>
  PROVE  StoreInv'
<1>1. RowsStay
  BY DEF RowsStay
<1>2. txn' \in [Sessions -> Txn]
  BY DEF StoreInv, StoreTypeOK, End, Txn
<1>3. StoreTypeOK' /\ OrganizerStaysActive' /\ GrantsFollowParticipation'
  BY <1>2
  DEF StoreInv, StoreTypeOK, OrganizerStaysActive, GrantsFollowParticipation,
      Active
<1> QED BY <1>1, <1>3, EndKeepsInv

(***************************************************************************)
(* The two ways a call writes: one participant row, or one grant.          *)
(***************************************************************************)
LEMMA MemberWriteKeepsInv ==
  ASSUME StoreInv, NEW s \in Sessions, End(s),
         NEW m \in Meetings, NEW u \in Users, NEW row \in Row,
         u = Organizer[m] /\ m \in meetings => row.status = "active",
         SetMember(m, u, row), UNCHANGED <<meetings, notes, access>>
  PROVE  StoreInv'
<1>1. StoreTypeOK'
  <2>1. txn' \in [Sessions -> Txn]
    BY DEF StoreInv, StoreTypeOK, End, Txn
  <2> QED BY <2>1 DEF StoreInv, StoreTypeOK, SetMember
<1>2. \A k \in Meetings, v \in Users :
        participant'[k][v] = IF k = m /\ v = u THEN row ELSE participant[k][v]
  BY DEF StoreInv, StoreTypeOK, SetMember
<1>3. RowsStay
  BY <1>2, NoRowIsNoRow DEF RowsStay
<1>4. OrganizerStaysActive'
  BY <1>2, StoreConstants
  DEF StoreInv, StoreTypeOK, OrganizerStaysActive, Active
<1>5. GrantsFollowParticipation'
  BY <1>3, StoreConstants
  DEF StoreInv, StoreTypeOK, GrantsFollowParticipation, RowsStay
<1> QED BY <1>1, <1>3, <1>4, <1>5, EndKeepsInv

\* Writing the grant of a participant, as the last step of a call, keeps the
\* invariant.
LEMMA GrantWriteKeepsInv ==
  ASSUME StoreInv, NEW s \in Sessions, End(s),
         NEW n \in notes, NEW u \in Users, NEW grant \in Grant,
         participant[MeetingOf[n]][u] # NoRow,
         SetGrant(n, u, grant), UNCHANGED <<meetings, participant, notes>>
  PROVE  StoreInv'
<1>1. StoreTypeOK'
  <2>1. txn' \in [Sessions -> Txn]
    BY DEF StoreInv, StoreTypeOK, End, Txn
  <2> QED BY <2>1 DEF StoreInv, StoreTypeOK, SetGrant
<1>2. \A k \in Notes, v \in Users :
        access'[k][v] = IF k = n /\ v = u THEN grant ELSE access[k][v]
  BY DEF StoreInv, StoreTypeOK, SetGrant
<1>3. RowsStay
  BY <1>2 DEF RowsStay, Grant
<1>4. OrganizerStaysActive'
  BY DEF StoreInv, OrganizerStaysActive, Active
<1>5. GrantsFollowParticipation'
  BY <1>2 DEF StoreInv, GrantsFollowParticipation
<1> QED BY <1>1, <1>3, <1>4, <1>5, EndKeepsInv

(***************************************************************************)
(* The steps that read.                                                    *)
(***************************************************************************)
LEMMA BeginKeepsInv ==
  ASSUME StoreInv, NEW s \in Sessions, SessionBegin(s)
  PROVE  StoreInv'
<1>1. PICK actor \in Users, u \in Users :
        \/ \E m \in Meetings :
             \/ AddParticipantRead(s, actor, m, u)
             \/ \E to \in Status : MembershipRead(s, actor, m, u, to)
        \/ \E n \in Notes :
             \/ GrantAuthorize(s, actor, n, u)
             \/ RevokeRead(s, actor, n, u)
  BY DEF SessionBegin
<1>2. ASSUME NEW m \in Meetings, AddParticipantRead(s, actor, m, u)
      PROVE  StoreInv'
  <2> DEFINE t == [step |-> "add", m |-> m, u |-> u, seen |-> participant[m][u]]
  <2>1. t \in Txn
    BY DEF StoreInv, StoreTypeOK, Txn
  <2>2. Grounded(t)
    BY <1>2 DEF Grounded, AddParticipantRead, Manages
  <2>3. /\ txn' = [txn EXCEPT ![s] = t]
        /\ UNCHANGED <<meetings, participant, notes, access>>
    BY <1>2 DEF AddParticipantRead, Begin
  <2> HIDE DEF t
  <2> QED BY <2>1, <2>2, <2>3, ReadKeepsInv
<1>3. ASSUME NEW m \in Meetings, NEW to \in Status,
             MembershipRead(s, actor, m, u, to)
      PROVE  StoreInv'
  <2> DEFINE t == [step |-> "membership", m |-> m, u |-> u, to |-> to,
                   seen |-> participant[m][u]]
  <2>1. t \in Txn
    BY <1>3 DEF MembershipRead, StoreInv, StoreTypeOK, Txn
  <2>2. Grounded(t)
    BY <1>3 DEF Grounded, MembershipRead, MayChangeTo, Manages
  <2>3. /\ txn' = [txn EXCEPT ![s] = t]
        /\ UNCHANGED <<meetings, participant, notes, access>>
    BY <1>3 DEF MembershipRead, Begin
  <2> HIDE DEF t
  <2> QED BY <2>1, <2>2, <2>3, ReadKeepsInv
<1>4. ASSUME NEW n \in Notes, GrantAuthorize(s, actor, n, u)
      PROVE  StoreInv'
  <2> DEFINE t == [step |-> "authorized", n |-> n, u |-> u]
  <2>1. t \in Txn
    BY DEF Txn
  <2>2. Grounded(t)
    BY <1>4 DEF Grounded, GrantAuthorize, MayGrant, Active, NoRow
  <2>3. /\ txn' = [txn EXCEPT ![s] = t]
        /\ UNCHANGED <<meetings, participant, notes, access>>
    BY <1>4 DEF GrantAuthorize, Begin
  <2> HIDE DEF t
  <2> QED BY <2>1, <2>2, <2>3, ReadKeepsInv
<1>5. ASSUME NEW n \in Notes, RevokeRead(s, actor, n, u)
      PROVE  StoreInv'
  <2> DEFINE t == [step |-> "revoke", n |-> n, u |-> u, seen |-> "granted"]
  <2>1. t \in Txn
    BY DEF Txn
  <2>2. Grounded(t)
    BY <1>5 DEF Grounded, RevokeRead
  <2>3. /\ txn' = [txn EXCEPT ![s] = t]
        /\ UNCHANGED <<meetings, participant, notes, access>>
    BY <1>5 DEF RevokeRead, Begin
  <2> HIDE DEF t
  <2> QED BY <2>1, <2>2, <2>3, ReadKeepsInv
<1> QED BY <1>1, <1>2, <1>3, <1>4, <1>5

\* A session that revokes grants, as a record.
LEMMA StepIsRevoking ==
  ASSUME NEW t \in Txn, t.step = "revoking"
  PROVE  t \in [step : {"revoking"}, m : Meetings, u : Users,
                to : Status \ {"active"}, seen : Row, todo : SUBSET Notes,
                revoked : SUBSET Notes]
BY DEF Txn, Idle

(***************************************************************************)
(* The statements of a session that has begun.                             *)
(***************************************************************************)
LEMMA StepKeepsInv ==
  ASSUME StoreInv, NEW s \in Sessions, SessionStep(s)
  PROVE  StoreInv'
<1> DEFINE t == txn[s]
<1>1. t \in Txn /\ Grounded(t)
  BY DEF StoreInv, StoreTypeOK, PendingCallsAreGrounded
<1>2. /\ participant \in [Meetings -> [Users -> Row \union {NoRow}]]
      /\ access \in [Notes -> [Users -> Grant \union {"none"}]]
  BY DEF StoreInv, StoreTypeOK
<1>3. ActiveRow \in Row /\ ActiveRow.status = "active"
  BY DEF ActiveRow, Row, Status
<1>4. CASE InsertParticipant(s) \/ ReactivateParticipant(s)
  <2> DEFINE w == [step |-> "member", m |-> t.m, u |-> t.u, seen |-> t.seen]
  <2>1. /\ t.step = "add"
        /\ txn' = [txn EXCEPT ![s] = w]
        /\ UNCHANGED <<meetings, participant, notes, access>>
    BY <1>4 DEF InsertParticipant, ReactivateParticipant, Continue
  <2>2. w \in Txn
    BY <1>1, <2>1, TxnFields DEF Txn
  <2>3. Grounded(w)
    BY <1>1, <2>1 DEF Grounded
  <2> HIDE DEF w
  <2> QED BY <2>1, <2>2, <2>3, ReadKeepsInv
<1>5. CASE MembershipActivate(s)
  <2> DEFINE w == [step |-> "member", m |-> t.m, u |-> t.u, seen |-> t.seen]
  <2>1. /\ t.step = "membership"
        /\ End(s) \/ txn' = [txn EXCEPT ![s] = w]
        /\ UNCHANGED <<meetings, participant, notes, access>>
    BY <1>5 DEF MembershipActivate, Continue
  <2>2. w \in Txn
    BY <1>1, <2>1, TxnFields DEF Txn
  <2>3. Grounded(w)
    BY <1>1, <2>1 DEF Grounded
  <2> HIDE DEF w
  <2> QED BY <2>1, <2>2, <2>3, ReadKeepsInv, EndKeepsSame
<1>6. CASE MemberCommit(s)
  <2> DEFINE row == Activated(participant[t.m][t.u], t.seen)
  <2>1. /\ t.m \in Meetings /\ t.u \in Users /\ t.seen \in Row \union {NoRow}
        /\ t.seen # NoRow => participant[t.m][t.u] # NoRow
    BY <1>1, <1>6, TxnFields DEF MemberCommit, Grounded
  <2>2. row \in Row /\ (t.u = Organizer[t.m] /\ t.m \in meetings =>
                           row.status = "active")
    <3>1. CASE t.seen = NoRow
      BY <1>3, <3>1 DEF Activated
    <3>2. CASE t.seen # NoRow
      <4>1. t.seen \in Row /\ participant[t.m][t.u] \in Row
        BY <1>2, <2>1, <3>2
      <4>2. row = Merge(participant[t.m][t.u], t.seen, "active", FALSE)
        BY <3>2 DEF Activated
      <4>3. row \in Row
        BY <4>1, <4>2, MergeType DEF Status
      <4>4. t.u = Organizer[t.m] /\ t.m \in meetings =>
              participant[t.m][t.u].status = "active"
        BY <2>1 DEF StoreInv, OrganizerStaysActive, Active
      <4> QED BY <4>1, <4>2, <4>3, <4>4, MergeActive
    <3> QED BY <3>1, <3>2
  <2> HIDE DEF row
  <2>3. /\ End(s) /\ SetMember(t.m, t.u, row)
        /\ UNCHANGED <<meetings, notes, access>>
    BY <1>6 DEF MemberCommit, row
  <2> QED BY <2>1, <2>2, <2>3, MemberWriteKeepsInv
<1>7. CASE RemovalFlush(s)
  <2> DEFINE w == [step |-> "removing", m |-> t.m, u |-> t.u, to |-> t.to,
                   seen |-> t.seen]
  <2>1. /\ t.step = "membership" /\ t.to # "active"
        /\ txn' = [txn EXCEPT ![s] = w]
        /\ UNCHANGED <<meetings, participant, notes, access>>
    BY <1>7 DEF RemovalFlush, Continue
  <2>2. w \in Txn
    BY <1>1, <2>1, TxnFields DEF Txn
  <2>3. Grounded(w)
    BY <1>1, <2>1 DEF Grounded, MayChangeTo
  <2> HIDE DEF w
  <2> QED BY <2>1, <2>2, <2>3, ReadKeepsInv
<1>8. CASE RevocationStart(s)
  <2> DEFINE w == [step |-> "revoking", m |-> t.m, u |-> t.u, to |-> t.to,
                   seen |-> t.seen, todo |-> GrantsToRevoke(t.m, t.u),
                   revoked |-> {}]
  <2>1. /\ t.step = "removing"
        /\ txn' = [txn EXCEPT ![s] = w]
        /\ UNCHANGED <<meetings, participant, notes, access>>
    BY <1>8 DEF RevocationStart, Continue
  <2>2. GrantsToRevoke(t.m, t.u) \subseteq Notes
    BY DEF GrantsToRevoke, NotesOf, StoreInv, StoreTypeOK
  <2>3. w \in Txn
    BY <1>1, <2>1, <2>2, TxnFields DEF Txn
  <2>4. Grounded(w)
    BY <1>1, <2>1 DEF Grounded, GrantsToRevoke, MayChangeTo
  <2> HIDE DEF w
  <2> QED BY <2>1, <2>3, <2>4, ReadKeepsInv
<1>9. ASSUME NEW n \in Notes, RevokeRow(s, n) PROVE StoreInv'
  <2> DEFINE w == [t EXCEPT !.todo = t.todo \ {n},
                            !.revoked = IF access[n][t.u] = "granted"
                                        THEN t.revoked \union {n} ELSE t.revoked]
  <2>1. /\ t.step = "revoking" /\ n \in t.todo
        /\ txn' = [txn EXCEPT ![s] = w]
        /\ UNCHANGED <<meetings, participant, notes, access>>
    BY <1>9 DEF RevokeRow, Continue
  <2>2. t \in [step : {"revoking"}, m : Meetings, u : Users,
               to : Status \ {"active"}, seen : Row, todo : SUBSET Notes,
               revoked : SUBSET Notes]
    BY <1>1, <2>1, StepIsRevoking
  <2>3. w \in Txn
    BY <2>2 DEF Txn
  <2>4. Grounded(w)
    BY <1>1, <2>1, <2>2 DEF Grounded, MayChangeTo
  <2> HIDE DEF w
  <2> QED BY <2>1, <2>3, <2>4, ReadKeepsInv
<1>10. CASE RemovalCommit(s)
  <2> DEFINE row == MergeRemoval(participant[t.m][t.u], t.seen, t.to)
  <2>1. /\ t.m \in Meetings /\ t.u \in Users /\ t.seen \in Row
        /\ t.to \in Status /\ t.to # "active" /\ t.revoked \subseteq Notes
        /\ participant[t.m][t.u] # NoRow /\ t.u # Organizer[t.m]
        /\ \A n \in t.revoked : access[n][t.u] # "none"
    BY <1>1, <1>10, TxnFields DEF RemovalCommit, Grounded, MayChangeTo
  <2>2. participant[t.m][t.u] \in Row
    BY <1>2, <2>1
  <2>3. row \in Row
    BY <2>1, <2>2, MergeType
  <2> HIDE DEF row
  <2>4. /\ End(s)
        /\ SetMember(t.m, t.u, row)
        /\ access' = [n \in Notes |->
                       IF n \in t.revoked
                       THEN [access[n] EXCEPT ![t.u] = "revoked"]
                       ELSE access[n]]
        /\ UNCHANGED <<meetings, notes>>
    BY <1>10 DEF RemovalCommit, row
  <2>5. \A k \in Meetings, v \in Users :
          participant'[k][v] =
            IF k = t.m /\ v = t.u THEN row ELSE participant[k][v]
    BY <1>2, <2>1, <2>4 DEF SetMember
  <2>6. \A n \in Notes, v \in Users :
          access'[n][v] =
            IF n \in t.revoked /\ v = t.u THEN "revoked" ELSE access[n][v]
    BY <1>2, <2>1, <2>4
  <2>7. StoreTypeOK'
    <3>1. participant' \in [Meetings -> [Users -> Row \union {NoRow}]]
      BY <1>2, <2>1, <2>3, <2>4 DEF SetMember
    <3>2. access' \in [Notes -> [Users -> Grant \union {"none"}]]
      BY <1>2, <2>1, <2>4 DEF Grant
    <3>3. txn' \in [Sessions -> Txn]
      BY <2>4 DEF StoreInv, StoreTypeOK, End, Txn
    <3> QED BY <3>1, <3>2, <3>3, <2>4 DEF StoreInv, StoreTypeOK
  <2>8. RowsStay
    BY <2>3, <2>4, <2>5, <2>6, NoRowIsNoRow DEF RowsStay
  <2>9. OrganizerStaysActive'
    BY <2>1, <2>4, <2>5, StoreConstants
    DEF StoreInv, StoreTypeOK, OrganizerStaysActive, Active
  <2>10. GrantsFollowParticipation'
    BY <2>1, <2>4, <2>6, <2>8, StoreConstants
    DEF StoreInv, GrantsFollowParticipation, RowsStay
  <2> QED BY <2>4, <2>7, <2>8, <2>9, <2>10, EndKeepsInv
<1>11. CASE GrantSelect(s)
  <2> DEFINE w == [step |-> "grant", n |-> t.n, u |-> t.u,
                   seen |-> access[t.n][t.u]]
  <2>1. /\ t.step = "authorized"
        /\ txn' = [txn EXCEPT ![s] = w]
        /\ UNCHANGED <<meetings, participant, notes, access>>
    BY <1>11 DEF GrantSelect
  <2>2. w \in Txn
    BY <1>1, <1>2, <2>1, TxnFields DEF Txn
  <2>3. Grounded(w)
    BY <1>1, <2>1 DEF Grounded
  <2> HIDE DEF w
  <2> QED BY <2>1, <2>2, <2>3, ReadKeepsInv
<1>12. ASSUME NEW to \in Grant, WriteGrant(s, to),
              t.step \in {"grant", "revoke"}
       PROVE  StoreInv'
  <2> DEFINE w == [step |-> "access", n |-> t.n, u |-> t.u, seen |-> t.seen,
                   to |-> to]
  <2>1. /\ txn' = [txn EXCEPT ![s] = w]
        /\ UNCHANGED <<meetings, participant, notes, access>>
    BY <1>12 DEF WriteGrant, Continue
  <2>2. w \in Txn
    BY <1>1, <1>12, TxnFields DEF Txn, Grant
  <2>3. /\ t.n \in notes /\ participant[MeetingOf[t.n]][t.u] # NoRow
        /\ t.seen # "none" => access[t.n][t.u] # "none"
    BY <1>1, <1>12, TxnFields
    DEF Grounded, StoreInv, GrantsFollowParticipation
  <2>4. Grounded(w)
    BY <2>3 DEF Grounded
  <2> HIDE DEF w
  <2> QED BY <2>1, <2>2, <2>4, ReadKeepsInv
<1>13. CASE GrantInsert(s) \/ GrantUpdate(s) \/ RevokeWrite(s)
  <2>1. t.n \in Notes /\ t.u \in Users
    BY <1>1, <1>13, TxnFields DEF GrantInsert, GrantUpdate, RevokeWrite
  <2>2. CASE GrantUpdate(s)
    <3>1. access[t.n][t.u] \in Grant
      BY <1>1, <1>2, <2>1, <2>2 DEF GrantUpdate, Grounded
    <3> QED BY <1>12, <2>2, <3>1 DEF GrantUpdate, Grant
  <2> QED BY <1>12, <1>13, <2>2 DEF GrantInsert, RevokeWrite, Grant
<1>14. CASE AccessCommit(s)
  <2>1. /\ t.n \in notes /\ t.u \in Users /\ t.to \in Grant
        /\ participant[MeetingOf[t.n]][t.u] # NoRow
    BY <1>1, <1>14, TxnFields DEF AccessCommit, Grounded
  <2> QED BY <1>14, <2>1, GrantWriteKeepsInv DEF AccessCommit
<1>15. CASE RejectDuplicate(s)
  BY <1>15, EndKeepsSame DEF RejectDuplicate
<1> QED
  BY <1>4, <1>5, <1>6, <1>7, <1>8, <1>9, <1>10, <1>11, <1>13, <1>14, <1>15
  DEF SessionStep

(***************************************************************************)
(* The steps outside a session, and the theorems.                          *)
(***************************************************************************)
LEMMA CreateKeepsInv ==
  ASSUME StoreInv, NEW m \in Meetings, CreateMeeting(m)
  PROVE  StoreInv'
<1>1. StoreTypeOK'
  BY StoreConstants
  DEF StoreInv, StoreTypeOK, CreateMeeting, SetMember, ActiveRow, Row, Status
<1>2. \A k \in Meetings, v \in Users :
        participant'[k][v] = IF k = m /\ v = Organizer[m]
                             THEN ActiveRow ELSE participant[k][v]
  BY StoreConstants DEF StoreInv, StoreTypeOK, CreateMeeting, SetMember
<1>3. RowsStay
  BY <1>2 DEF RowsStay, CreateMeeting, ActiveRow, NoRow
<1>4. OrganizerStaysActive'
  BY <1>1, <1>2, StoreConstants
  DEF StoreInv, StoreTypeOK, OrganizerStaysActive, Active, CreateMeeting,
      ActiveRow
<1>5. GrantsFollowParticipation'
  BY <1>3, StoreConstants
  DEF StoreInv, GrantsFollowParticipation, RowsStay, CreateMeeting
<1>6. PendingCallsAreGrounded'
  BY <1>3, StaysGrounded DEF CreateMeeting, PendingCallsAreGrounded
<1> QED BY <1>1, <1>4, <1>5, <1>6 DEF StoreInv

\* add_confidential_note keeps the invariant.
LEMMA AddNoteKeepsInv ==
  ASSUME StoreInv, NEW n \in Notes, NEW actor \in Users,
         AddConfidentialNote(n, actor)
  PROVE  StoreInv'
<1>1. RowsStay
  BY DEF RowsStay, AddConfidentialNote
<1>2. PendingCallsAreGrounded'
  BY <1>1, StaysGrounded DEF AddConfidentialNote, PendingCallsAreGrounded
<1> QED
  BY <1>2
  DEF StoreInv, StoreTypeOK, OrganizerStaysActive, Active,
      GrantsFollowParticipation, AddConfidentialNote

\* The empty tables satisfy the invariant.
LEMMA StoreInitInv ==
  ASSUME StoreInit
  PROVE  StoreInv
BY DEF StoreInit, StoreInv, StoreTypeOK, OrganizerStaysActive,
       GrantsFollowParticipation, PendingCallsAreGrounded, Grounded, Txn, Idle

\* Every step of the store keeps the invariant.
LEMMA StoreNextInv ==
  ASSUME StoreInv, [StoreNext]_storeVars
  PROVE  StoreInv'
<1>1. CASE UNCHANGED storeVars
  BY <1>1
  DEF storeVars, StoreInv, StoreTypeOK, OrganizerStaysActive, Active,
      GrantsFollowParticipation, PendingCallsAreGrounded, Grounded, MayChangeTo
<1>2. ASSUME NEW s \in Sessions, Rollback(s) PROVE StoreInv'
  BY <1>2, EndKeepsSame DEF Rollback
<1> QED
  BY <1>1, <1>2, CreateKeepsInv, AddNoteKeepsInv, BeginKeepsInv, StepKeepsInv
  DEF StoreNext

\* Grants are written by the commit of a removal, of a grant or of a revocation.
LEMMA WhoWritesGrants ==
  ASSUME [StoreNext]_storeVars, access' # access
  PROVE  \E s \in Sessions : RemovalCommit(s) \/ AccessCommit(s)
<1>1. ASSUME NEW s \in Sessions, SessionBegin(s) PROVE FALSE
  BY <1>1 DEF SessionBegin, AddParticipantRead, MembershipRead, GrantAuthorize,
              RevokeRead
<1>2. ASSUME NEW s \in Sessions, Rollback(s) PROVE FALSE
  BY <1>2 DEF Rollback
<1>3. PICK s \in Sessions : SessionStep(s)
  BY <1>1, <1>2 DEF StoreNext, CreateMeeting, AddConfidentialNote, storeVars
<1>4. ~ \/ InsertParticipant(s)
        \/ ReactivateParticipant(s)
        \/ MembershipActivate(s)
        \/ MemberCommit(s)
        \/ RemovalFlush(s)
        \/ RevocationStart(s)
        \/ \E n \in Notes : RevokeRow(s, n)
        \/ GrantSelect(s)
        \/ GrantInsert(s)
        \/ GrantUpdate(s)
        \/ RevokeWrite(s)
        \/ RejectDuplicate(s)
  BY DEF InsertParticipant, ReactivateParticipant, MembershipActivate,
         MemberCommit, RemovalFlush, RevocationStart, RevokeRow, GrantSelect,
         GrantInsert, GrantUpdate, RevokeWrite, WriteGrant, RejectDuplicate
<1> QED BY <1>3, <1>4 DEF SessionStep

\* Participants are written by create_meeting, and by the commit of a call that
\* makes one ACTIVE or removes one.
LEMMA WhoWritesParticipants ==
  ASSUME [StoreNext]_storeVars, participant' # participant
  PROVE  \/ \E m \in Meetings : CreateMeeting(m)
         \/ \E s \in Sessions : RemovalCommit(s) \/ MemberCommit(s)
<1>1. ASSUME NEW s \in Sessions, SessionBegin(s) PROVE FALSE
  BY <1>1 DEF SessionBegin, AddParticipantRead, MembershipRead, GrantAuthorize,
              RevokeRead
<1>2. ASSUME NEW s \in Sessions, Rollback(s) PROVE FALSE
  BY <1>2 DEF Rollback
<1>3. ASSUME NEW s \in Sessions, SessionStep(s)
      PROVE  RemovalCommit(s) \/ MemberCommit(s)
  <2>1. ~ \/ InsertParticipant(s)
          \/ ReactivateParticipant(s)
          \/ MembershipActivate(s)
          \/ RemovalFlush(s)
          \/ RevocationStart(s)
          \/ \E n \in Notes : RevokeRow(s, n)
          \/ GrantSelect(s)
          \/ GrantInsert(s)
          \/ GrantUpdate(s)
          \/ RevokeWrite(s)
          \/ AccessCommit(s)
          \/ RejectDuplicate(s)
    BY DEF InsertParticipant, ReactivateParticipant, MembershipActivate,
           RemovalFlush, RevocationStart, RevokeRow, GrantSelect, GrantInsert,
           GrantUpdate, RevokeWrite, WriteGrant, AccessCommit, RejectDuplicate
  <2> QED BY <1>3, <2>1 DEF SessionStep
<1> QED
  BY <1>1, <1>2, <1>3 DEF StoreNext, AddConfidentialNote, storeVars

\* In every reachable state of the store, all four hold together.
THEOREM StoreInvHolds == StoreSpec => []StoreInv
<1>1. StoreInit => StoreInv
  BY StoreInitInv
<1>2. StoreInv /\ [StoreNext]_storeVars => StoreInv'
  BY StoreNextInv
<1> QED BY <1>1, <1>2, PTL DEF StoreSpec

\* The tables and the open sessions of SQLAlchemyMeetingRepository hold what
\* their types say, whatever calls overlap.
THEOREM StoreIsTyped == StoreSpec => []StoreTypeOK
<1>1. StoreInv => StoreTypeOK
  BY DEF StoreInv
<1> QED BY <1>1, StoreInvHolds, PTL

\* No interleaving of add_participant and update_participant_membership takes
\* a meeting's organizer out of its ACTIVE participants.
THEOREM OrganizerIsAlwaysActive == StoreSpec => []OrganizerStaysActive
<1>1. StoreInv => OrganizerStaysActive
  BY DEF StoreInv
<1> QED BY <1>1, StoreInvHolds, PTL

\* grant_note_access never gives a row to a user who was never a participant,
\* though it checks in one statement and writes two later.
THEOREM GrantsAlwaysFollow == StoreSpec => []GrantsFollowParticipation
<1>1. StoreInv => GrantsFollowParticipation
  BY DEF StoreInv
<1> QED BY <1>1, StoreInvHolds, PTL

\* The rows an open call will write stay there until its commit, and the row it
\* makes of the organizer is ACTIVE.  (That a grantee is still ACTIVE does not
\* stay so: NoGrantSurvivesRemoval is violated when calls overlap.)
THEOREM CallsStayGrounded == StoreSpec => []PendingCallsAreGrounded
<1>1. StoreInv => PendingCallsAreGrounded
  BY DEF StoreInv
<1> QED BY <1>1, StoreInvHolds, PTL

-----------------------------------------------------------------------------
(***************************************************************************)
(* Row locks.  No two sessions hold the same row, so what the holder found *)
(* in it stands until its commit; and a removal takes only grants of its   *)
(* own meeting, so that two removals that meet at a grant are of the same  *)
(* participant row, which only one of them can hold.                       *)
(***************************************************************************)
Apart(r, s) ==
  /\ \A m \in Meetings, u \in Users : ~(HoldsMember(r, m, u) /\ HoldsMember(s, m, u))
  /\ \A n \in Notes, u \in Users : ~(HoldsGrant(r, n, u) /\ HoldsGrant(s, n, u))

\* What the rows that a call holds still are, and whose grants a removal takes.
Kept(t) ==
  /\ t.step = "member" /\ t.seen = NoRow => participant[t.m][t.u] = NoRow
  /\ t.step = "access" /\ t.to = "granted" /\ t.seen # "revoked" =>
       access[t.n][t.u] # "revoked"
  /\ t.step = "revoking" => \A n \in t.todo \union t.revoked : MeetingOf[n] = t.m

LockInv ==
  /\ StoreInv
  /\ \A m \in Meetings \ meetings, u \in Users : participant[m][u] = NoRow
  /\ \A s \in Sessions : Kept(txn[s])
  /\ \A r, s \in Sessions : r # s => Apart(r, s)

\* A record that takes no row but those its session holds already, or that no
\* other session holds.
TakesFree(s, t) ==
  /\ \A m \in Meetings, u \in Users :
       t.step \in {"member", "removing", "revoking"} /\ t.m = m /\ t.u = u =>
         HoldsMember(s, m, u) \/ ~MemberLocked(s, m, u)
  /\ \A n \in Notes, u \in Users :
       \/ t.step = "access" /\ t.n = n /\ t.u = u
       \/ t.step = "revoking" /\ n \in t.revoked /\ t.u = u
       => HoldsGrant(s, n, u) \/ ~GrantLocked(s, n, u)

\* A statement that keeps the tables: its session's record may change.
LEMMA LockStatement ==
  ASSUME LockInv, StoreInv', NEW s \in Sessions, NEW t, TakesFree(s, t), Kept(t),
         txn' = [txn EXCEPT ![s] = t],
         UNCHANGED <<meetings, participant, notes, access>>
  PROVE  LockInv'
<1>1. \A r \in Sessions : txn'[r] = IF r = s THEN t ELSE txn[r]
  BY DEF LockInv, StoreInv, StoreTypeOK
<1>2. \A r \in Sessions : Kept(txn[r])'
  BY <1>1 DEF LockInv, Kept
<1>3. ASSUME NEW r \in Sessions, r # s PROVE Apart(r, s)' /\ Apart(s, r)'
  <2>1. Apart(r, s)
    BY <1>3 DEF LockInv
  <2>2. txn'[s] = t /\ txn'[r] = txn[r]
    BY <1>1, <1>3
  <2>3. \A m \in Meetings, u \in Users :
          ~(HoldsMember(r, m, u)' /\ HoldsMember(s, m, u)')
    BY <1>3, <2>1, <2>2 DEF TakesFree, Apart, HoldsMember, MemberLocked
  <2>4. \A n \in Notes, u \in Users :
          ~(HoldsGrant(r, n, u)' /\ HoldsGrant(s, n, u)')
    BY <1>3, <2>1, <2>2 DEF TakesFree, Apart, HoldsGrant, GrantLocked
  <2> QED BY <2>3, <2>4 DEF Apart
<1>4. ASSUME NEW q \in Sessions, NEW r \in Sessions, q # r, q # s, r # s
      PROVE  Apart(q, r)'
  BY <1>1, <1>4 DEF LockInv, Apart, HoldsMember, HoldsGrant
<1>5. \A q, r \in Sessions : q # r => Apart(q, r)'
  BY <1>3, <1>4
<1> QED BY <1>2, <1>5 DEF LockInv

\* A commit writes rows that its session holds, and holds none afterwards.
LEMMA LockCommit ==
  ASSUME LockInv, StoreInv', NEW s \in Sessions, End(s),
         \A m \in Meetings, u \in Users :
           participant'[m][u] # participant[m][u] =>
             HoldsMember(s, m, u) /\ m \in meetings,
         \A n \in Notes, u \in Users :
           access'[n][u] # access[n][u] => HoldsGrant(s, n, u),
         UNCHANGED <<meetings, notes>>
  PROVE  LockInv'
<1>1. \A r \in Sessions : txn'[r] = IF r = s THEN Idle ELSE txn[r]
  BY DEF LockInv, StoreInv, StoreTypeOK, End
<1>2. ASSUME NEW r \in Sessions PROVE Kept(txn[r])'
  <2>1. CASE r = s
    BY <1>1, <2>1 DEF Kept, Idle
  <2>2. CASE r # s
    <3>1. /\ txn'[r] = txn[r] /\ txn[r] \in Txn /\ Kept(txn[r]) /\ Apart(s, r)
      BY <1>1, <2>2 DEF LockInv, StoreInv, StoreTypeOK
    <3>2. txn[r].step = "member" =>
            participant'[txn[r].m][txn[r].u] = participant[txn[r].m][txn[r].u]
      BY <3>1, TxnFields DEF Apart, HoldsMember
    <3>3. txn[r].step = "access" =>
            access'[txn[r].n][txn[r].u] = access[txn[r].n][txn[r].u]
      BY <3>1, TxnFields DEF Apart, HoldsGrant
    <3> QED BY <3>1, <3>2, <3>3 DEF Kept
  <2> QED BY <2>1, <2>2
<1>3. ASSUME NEW q \in Sessions, NEW r \in Sessions, q # r PROVE Apart(q, r)'
  BY <1>1, <1>3 DEF LockInv, Apart, HoldsMember, HoldsGrant, Idle
<1>4. \A m \in Meetings \ meetings', u \in Users : participant'[m][u] = NoRow
  BY DEF LockInv
<1> QED BY <1>2, <1>3, <1>4 DEF LockInv

\* One step per action: the statements first, then the two commits.
LEMMA LockStep ==
  ASSUME LockInv, StoreInv', NEW s \in Sessions, SessionStep(s)
  PROVE  LockInv'
<1> DEFINE t == txn[s]
<1>1. t \in Txn /\ Grounded(t) /\ Kept(t)
  BY DEF LockInv, StoreInv, StoreTypeOK, PendingCallsAreGrounded
<1>2. TakesFree(s, Idle) /\ Kept(Idle)
  BY DEF TakesFree, Kept, Idle
<1>3. ASSUME End(s), UNCHANGED <<meetings, participant, notes, access>>
      PROVE  LockInv'
  BY <1>2, <1>3, LockStatement DEF End
<1>4. ASSUME t.step \in {"add", "membership"}, ~MemberLocked(s, t.m, t.u),
             t.seen = NoRow => participant[t.m][t.u] = NoRow,
             Continue(s, [step |-> "member", m |-> t.m, u |-> t.u,
                          seen |-> t.seen]),
             UNCHANGED <<meetings, participant, notes, access>>
      PROVE  LockInv'
  <2> DEFINE w == [step |-> "member", m |-> t.m, u |-> t.u, seen |-> t.seen]
  <2>1. TakesFree(s, w) /\ Kept(w)
    BY <1>4 DEF TakesFree, Kept
  <2>2. txn' = [txn EXCEPT ![s] = w]
    BY <1>4 DEF Continue
  <2> HIDE DEF w
  <2> QED BY <1>4, <2>1, <2>2, LockStatement
<1>5. CASE InsertParticipant(s) \/ ReactivateParticipant(s)
  BY <1>4, <1>5 DEF InsertParticipant, ReactivateParticipant
<1>6. CASE MembershipActivate(s)
  <2>1. t.seen # NoRow
    BY <1>1, <1>6, TxnFields, NoRowIsNoRow DEF MembershipActivate
  <2> QED BY <1>3, <1>4, <1>6, <2>1 DEF MembershipActivate
<1>7. CASE RemovalFlush(s)
  <2> DEFINE w == [step |-> "removing", m |-> t.m, u |-> t.u, to |-> t.to,
                   seen |-> t.seen]
  <2>1. TakesFree(s, w) /\ Kept(w)
    BY <1>7 DEF RemovalFlush, TakesFree, Kept
  <2>2. /\ txn' = [txn EXCEPT ![s] = w]
        /\ UNCHANGED <<meetings, participant, notes, access>>
    BY <1>7 DEF RemovalFlush, Continue
  <2> HIDE DEF w
  <2> QED BY <2>1, <2>2, LockStatement
<1>8. CASE RevocationStart(s)
  <2> DEFINE w == [step |-> "revoking", m |-> t.m, u |-> t.u, to |-> t.to,
                   seen |-> t.seen, todo |-> GrantsToRevoke(t.m, t.u),
                   revoked |-> {}]
  <2>1. TakesFree(s, w)
    BY <1>8 DEF RevocationStart, TakesFree, HoldsMember
  <2>2. Kept(w)
    BY DEF Kept, GrantsToRevoke, NotesOf
  <2>3. /\ txn' = [txn EXCEPT ![s] = w]
        /\ UNCHANGED <<meetings, participant, notes, access>>
    BY <1>8 DEF RevocationStart, Continue
  <2> HIDE DEF w
  <2> QED BY <2>1, <2>2, <2>3, LockStatement
<1>9. ASSUME NEW n \in Notes, RevokeRow(s, n) PROVE LockInv'
  <2> DEFINE w == [t EXCEPT !.todo = t.todo \ {n},
                            !.revoked = IF access[n][t.u] = "granted"
                                        THEN t.revoked \union {n} ELSE t.revoked]
  <2>1. /\ t.step = "revoking" /\ n \in t.todo /\ ~GrantLocked(s, n, t.u)
        /\ txn' = [txn EXCEPT ![s] = w]
        /\ UNCHANGED <<meetings, participant, notes, access>>
    BY <1>9 DEF RevokeRow, Continue
  <2>2. t \in [step : {"revoking"}, m : Meetings, u : Users,
               to : Status \ {"active"}, seen : Row, todo : SUBSET Notes,
               revoked : SUBSET Notes]
    BY <1>1, <2>1, StepIsRevoking
  <2>3. /\ w.step = "revoking" /\ w.m = t.m /\ w.u = t.u
        /\ w.todo = t.todo \ {n}
        /\ w.revoked = IF access[n][t.u] = "granted"
                       THEN t.revoked \union {n} ELSE t.revoked
    BY <2>2
  <2> HIDE DEF w
  <2>4. TakesFree(s, w)
    BY <2>1, <2>3 DEF TakesFree, HoldsMember, HoldsGrant
  <2>5. Kept(w)
    BY <1>1, <2>1, <2>3 DEF Kept
  <2> QED BY <2>1, <2>4, <2>5, LockStatement
<1>10. CASE GrantSelect(s)
  <2> DEFINE w == [step |-> "grant", n |-> t.n, u |-> t.u,
                   seen |-> access[t.n][t.u]]
  <2>1. TakesFree(s, w) /\ Kept(w)
    BY DEF TakesFree, Kept
  <2>2. /\ txn' = [txn EXCEPT ![s] = w]
        /\ UNCHANGED <<meetings, participant, notes, access>>
    BY <1>10 DEF GrantSelect
  <2> HIDE DEF w
  <2> QED BY <2>1, <2>2, LockStatement
<1>11. ASSUME NEW to, WriteGrant(s, to),
              to = "granted" /\ t.seen # "revoked" => access[t.n][t.u] # "revoked"
       PROVE  LockInv'
  <2> DEFINE w == [step |-> "access", n |-> t.n, u |-> t.u, seen |-> t.seen,
                   to |-> to]
  <2>1. TakesFree(s, w) /\ Kept(w)
    BY <1>11 DEF WriteGrant, TakesFree, Kept
  <2>2. /\ txn' = [txn EXCEPT ![s] = w]
        /\ UNCHANGED <<meetings, participant, notes, access>>
    BY <1>11 DEF WriteGrant, Continue
  <2> HIDE DEF w
  <2> QED BY <2>1, <2>2, LockStatement
<1>12. CASE GrantInsert(s) \/ GrantUpdate(s) \/ RevokeWrite(s)
  BY <1>11, <1>12 DEF GrantInsert, GrantUpdate, RevokeWrite
<1>13. CASE RejectDuplicate(s)
  BY <1>3, <1>13 DEF RejectDuplicate
<1>14. /\ participant \in [Meetings -> [Users -> Row \union {NoRow}]]
       /\ access \in [Notes -> [Users -> Grant \union {"none"}]]
  BY DEF LockInv, StoreInv, StoreTypeOK
<1>15. CASE MemberCommit(s)
  <2>1. /\ t.step = "member" /\ t.m \in meetings /\ t.m \in Meetings /\ t.u \in Users
        /\ End(s) /\ UNCHANGED <<meetings, notes, access>>
        /\ SetMember(t.m, t.u, Activated(participant[t.m][t.u], t.seen))
    BY <1>1, <1>15, TxnFields DEF MemberCommit, Grounded
  <2>2. \A m \in Meetings, u \in Users :
          participant'[m][u] # participant[m][u] => m = t.m /\ u = t.u
    BY <1>14, <2>1 DEF SetMember
  <2>3. HoldsMember(s, t.m, t.u)
    BY <2>1 DEF HoldsMember
  <2> QED BY <2>1, <2>2, <2>3, LockCommit
<1>16. CASE RemovalCommit(s)
  <2>1. /\ t.step = "revoking" /\ t.m \in meetings /\ t.m \in Meetings /\ t.u \in Users
        /\ End(s) /\ UNCHANGED <<meetings, notes>>
        /\ SetMember(t.m, t.u, MergeRemoval(participant[t.m][t.u], t.seen, t.to))
        /\ access' = [n \in Notes |->
                       IF n \in t.revoked
                       THEN [access[n] EXCEPT ![t.u] = "revoked"]
                       ELSE access[n]]
    BY <1>1, <1>16, TxnFields DEF RemovalCommit, Grounded
  <2>2. \A m \in Meetings, u \in Users :
          participant'[m][u] # participant[m][u] => m = t.m /\ u = t.u
    BY <1>14, <2>1 DEF SetMember
  <2>3. \A n \in Notes, u \in Users :
          access'[n][u] # access[n][u] => n \in t.revoked /\ u = t.u
    BY <1>14, <2>1
  <2>4. HoldsMember(s, t.m, t.u) /\ \A n \in t.revoked : HoldsGrant(s, n, t.u)
    BY <2>1 DEF HoldsMember, HoldsGrant
  <2> QED BY <2>1, <2>2, <2>3, <2>4, LockCommit
<1>17. CASE AccessCommit(s)
  <2>1. /\ t.step = "access" /\ t.n \in Notes /\ t.u \in Users
        /\ End(s) /\ UNCHANGED <<meetings, participant, notes>>
        /\ SetGrant(t.n, t.u, t.to)
    BY <1>1, <1>17, TxnFields DEF AccessCommit
  <2>2. \A n \in Notes, u \in Users :
          access'[n][u] # access[n][u] => n = t.n /\ u = t.u
    BY <1>14, <2>1 DEF SetGrant
  <2>3. HoldsGrant(s, t.n, t.u)
    BY <2>1 DEF HoldsGrant
  <2> QED BY <2>1, <2>2, <2>3, LockCommit
<1> QED
  BY <1>5, <1>6, <1>7, <1>8, <1>9, <1>10, <1>12, <1>13, <1>15, <1>16, <1>17
  DEF SessionStep

\* A call that begins holds nothing.
LEMMA LockBegin ==
  ASSUME LockInv, StoreInv', NEW s \in Sessions, SessionBegin(s)
  PROVE  LockInv'
<1>1. ASSUME NEW t, Begin(s, t), t.step \in {"add", "membership", "authorized", "revoke"},
             UNCHANGED <<meetings, participant, notes, access>>
      PROVE  LockInv'
  <2>1. TakesFree(s, t) /\ Kept(t)
    BY <1>1 DEF TakesFree, Kept
  <2> QED BY <1>1, <2>1, LockStatement DEF Begin
<1>2. PICK actor \in Users, u \in Users :
        \/ \E m \in Meetings :
             \/ AddParticipantRead(s, actor, m, u)
             \/ \E to \in Status : MembershipRead(s, actor, m, u, to)
        \/ \E n \in Notes :
             \/ GrantAuthorize(s, actor, n, u)
             \/ RevokeRead(s, actor, n, u)
  BY DEF SessionBegin
<1>3. ASSUME NEW m \in Meetings, AddParticipantRead(s, actor, m, u) PROVE LockInv'
  BY <1>1, <1>3 DEF AddParticipantRead
<1>4. ASSUME NEW m \in Meetings, NEW to \in Status,
             MembershipRead(s, actor, m, u, to)
      PROVE  LockInv'
  BY <1>1, <1>4 DEF MembershipRead
<1>5. ASSUME NEW n \in Notes, GrantAuthorize(s, actor, n, u) PROVE LockInv'
  BY <1>1, <1>5 DEF GrantAuthorize
<1>6. ASSUME NEW n \in Notes, RevokeRead(s, actor, n, u) PROVE LockInv'
  BY <1>1, <1>6 DEF RevokeRead
<1> QED BY <1>2, <1>3, <1>4, <1>5, <1>6

\* create_meeting writes a row of a meeting that no call can be about.
LEMMA LockCreate ==
  ASSUME LockInv, StoreInv', NEW m \in Meetings, CreateMeeting(m)
  PROVE  LockInv'
<1>1. /\ m \notin meetings /\ meetings' = meetings \union {m}
      /\ UNCHANGED <<notes, access, txn>>
      /\ SetMember(m, Organizer[m], ActiveRow)
  BY DEF CreateMeeting
<1>2. \A k \in Meetings, u \in Users :
        k # m => participant'[k][u] = participant[k][u]
  BY <1>1 DEF SetMember, LockInv, StoreInv, StoreTypeOK
<1>3. ASSUME NEW s \in Sessions PROVE Kept(txn[s])'
  <2>1. txn[s] \in Txn /\ Grounded(txn[s]) /\ Kept(txn[s])
    BY DEF LockInv, StoreInv, StoreTypeOK, PendingCallsAreGrounded
  <2>2. txn[s].step = "member" =>
          participant'[txn[s].m][txn[s].u] = participant[txn[s].m][txn[s].u]
    BY <1>1, <1>2, <2>1, TxnFields DEF Grounded
  <2> QED BY <1>1, <2>1, <2>2 DEF Kept
<1>4. \A r, s \in Sessions : r # s => Apart(r, s)'
  BY <1>1 DEF LockInv, Apart, HoldsMember, HoldsGrant
<1> QED BY <1>1, <1>2, <1>3, <1>4 DEF LockInv

LEMMA LockNext ==
  ASSUME LockInv, [StoreNext]_storeVars
  PROVE  LockInv'
<1>1. StoreInv'
  BY StoreNextInv DEF LockInv
<1>2. CASE UNCHANGED storeVars
  BY <1>1, <1>2
  DEF LockInv, storeVars, Kept, Apart, HoldsMember, HoldsGrant
<1>3. ASSUME NEW n \in Notes, NEW actor \in Users, AddConfidentialNote(n, actor)
      PROVE  LockInv'
  BY <1>1, <1>3
  DEF LockInv, AddConfidentialNote, Kept, Apart, HoldsMember, HoldsGrant
<1>4. ASSUME NEW s \in Sessions, Rollback(s) PROVE LockInv'
  <2>1. TakesFree(s, Idle) /\ Kept(Idle)
    BY DEF TakesFree, Kept, Idle
  <2> QED BY <1>1, <1>4, <2>1, LockStatement DEF Rollback, End
<1> QED
  BY <1>1, <1>2, <1>3, <1>4, LockCreate, LockBegin, LockStep DEF StoreNext

LEMMA LockInvHolds == StoreSpec => []LockInv
<1>1. StoreInit => LockInv
  BY StoreInitInv
  DEF StoreInit, LockInv, Kept, Apart, HoldsMember, HoldsGrant, Idle
<1>2. LockInv /\ [StoreNext]_storeVars => LockInv'
  BY LockNext
<1> QED BY <1>1, <1>2, PTL DEF StoreSpec

(***************************************************************************)
(* Only removals both hold rows and wait.  A session that waits and is     *)
(* waited for is therefore revoking grants; if it waits for another such   *)
(* session, both revoke grants of one user in one meeting, and hold the    *)
(* same participant row.  So no three sessions wait in a chain one of      *)
(* whose last two is itself waiting.                                       *)
(***************************************************************************)
LEMMA ShortChains ==
  ASSUME LockInv, NEW s \in Sessions, NEW r \in Sessions, NEW q \in Sessions,
         NEW w \in Sessions, Waits(s, r), Waits(r, q), Waits(q, w)
  PROVE  FALSE
<1>1. txn[r].step = "revoking"
  BY DEF Waits, HoldsMember, HoldsGrant
<1>2. txn[q].step = "revoking"
  BY DEF Waits, HoldsMember, HoldsGrant
<1>3. txn[r] \in Txn /\ txn[q] \in Txn /\ Kept(txn[r]) /\ Kept(txn[q])
      /\ r # q /\ Apart(r, q)
  BY DEF LockInv, StoreInv, StoreTypeOK, Waits
<1>4. PICK n \in txn[r].todo : HoldsGrant(q, n, txn[r].u)
  BY <1>1 DEF Waits
<1>5. n \in txn[q].revoked /\ txn[q].u = txn[r].u
  BY <1>2, <1>4 DEF HoldsGrant
<1>6. txn[q].m = txn[r].m
  BY <1>1, <1>2, <1>3, <1>4, <1>5 DEF Kept
<1>7. txn[r].m \in Meetings /\ txn[r].u \in Users
  BY <1>1, <1>3, TxnFields
<1> QED BY <1>1, <1>2, <1>3, <1>5, <1>6, <1>7 DEF Apart, HoldsMember

\* The row locks of add_participant, update_participant_membership, grants and
\* revocations never cross: any number of overlapping calls, over any number of
\* notes, has one that does not wait for the others.
THEOREM LocksNeverCross == StoreSpec => []NoSessionsWaitInACircle
<1>1. ASSUME LockInv PROVE NoSessionsWaitInACircle
  <2> SUFFICES ASSUME NEW D \in (SUBSET Sessions) \ {{}},
                      \A s \in D : \E r \in D : Waits(s, r)
               PROVE  FALSE
    BY DEF NoSessionsWaitInACircle
  <2>1. PICK s \in D : TRUE
    OBVIOUS
  <2>2. PICK r \in D : Waits(s, r)
    OBVIOUS
  <2>3. PICK q \in D : Waits(r, q)
    OBVIOUS
  <2>4. PICK w \in D : Waits(q, w)
    OBVIOUS
  <2> QED BY <1>1, <2>2, <2>3, <2>4, ShortChains
<1> QED BY <1>1, LockInvHolds, PTL

\* A removed participant comes back, and a revoked grant is granted again, only
\* by a call that had read the row so: a call that found no row, or an ACTIVE
\* one, undoes nothing that others have committed since.
THEOREM RevivalsAreDeliberate == StoreSpec => RevivalIsDeliberate
<1>1. ASSUME LockInv, [StoreNext]_storeVars, NEW m \in Meetings, NEW u \in Users,
             participant[m][u].status \in Status \ {"active"}, Active(m, u)'
      PROVE  \E s \in Sessions : /\ HoldsMember(s, m, u)
                                /\ txn[s].seen.status \in Status \ {"active"}
  <2>1. participant'[m][u] # participant[m][u] /\ participant[m][u] # NoRow
    BY <1>1 DEF Active, NoRow, Status
  <2>2. /\ participant \in [Meetings -> [Users -> Row \union {NoRow}]]
        /\ \A s \in Sessions : txn[s] \in Txn /\ Grounded(txn[s]) /\ Kept(txn[s])
    BY <1>1 DEF LockInv, StoreInv, StoreTypeOK, PendingCallsAreGrounded
  <2>3. participant[m][u] \in Row
    BY <2>1, <2>2
  <2>4. ASSUME NEW k \in Meetings, CreateMeeting(k) PROVE FALSE
    <3>1. k # m
      BY <1>1, <2>1, <2>4 DEF CreateMeeting, LockInv
    <3> QED BY <2>1, <2>2, <2>4, <3>1 DEF CreateMeeting, SetMember
  <2>5. PICK s \in Sessions : RemovalCommit(s) \/ MemberCommit(s)
    BY <1>1, <2>1, <2>4, WhoWritesParticipants
  <2> DEFINE t == txn[s]
  <2>6. /\ t.m \in Meetings /\ t.u \in Users
        /\ t.step \in {"member", "revoking"}
    BY <2>2, <2>5, TxnFields DEF RemovalCommit, MemberCommit
  <2>7. m = t.m /\ u = t.u
    BY <2>1, <2>2, <2>5, <2>6 DEF RemovalCommit, MemberCommit, SetMember
  <2>8. CASE RemovalCommit(s)
    <3>1. t.to # "active"
      BY <2>2, <2>8, TxnFields DEF RemovalCommit
    <3>2. participant'[m][u] = MergeRemoval(participant[m][u], t.seen, t.to)
      BY <2>2, <2>6, <2>7, <2>8 DEF RemovalCommit, SetMember
    <3>3. participant'[m][u].status # "active"
      BY <1>1, <3>1, <3>2 DEF MergeRemoval, Merge
    <3> QED BY <1>1, <3>3 DEF Active
  <2>9. CASE MemberCommit(s)
    <3>1. participant'[m][u] = Activated(participant[m][u], t.seen)
      BY <2>2, <2>6, <2>7, <2>9 DEF MemberCommit, SetMember
    <3>2. t.seen \in Row
      BY <2>1, <2>2, <2>7, <2>9, TxnFields DEF MemberCommit, Kept
    <3>3. participant'[m][u] = Merge(participant[m][u], t.seen, "active", FALSE)
      BY <3>1, <3>2, NoRowIsNoRow DEF Activated
    <3>4. t.seen.status # "active"
      BY <1>1, <3>3 DEF Merge, Active
    <3> QED BY <2>6, <2>7, <2>9, <3>2, <3>4 DEF HoldsMember, MemberCommit, Row
  <2> QED BY <2>5, <2>8, <2>9
<1>2. ASSUME LockInv, [StoreNext]_storeVars, NEW n \in Notes, NEW u \in Users,
             access[n][u] = "revoked", access'[n][u] = "granted"
      PROVE  \E s \in Sessions : HoldsGrant(s, n, u) /\ txn[s].seen = "revoked"
  <2>1. access' # access
    BY <1>2
  <2>2. PICK s \in Sessions : RemovalCommit(s) \/ AccessCommit(s)
    BY <1>2, <2>1, WhoWritesGrants
  <2> DEFINE t == txn[s]
  <2>3. /\ access \in [Notes -> [Users -> Grant \union {"none"}]]
        /\ t \in Txn /\ Kept(t)
    BY <1>2 DEF LockInv, StoreInv, StoreTypeOK
  <2>4. AccessCommit(s)
    <3>1. ASSUME RemovalCommit(s) PROVE FALSE
      BY <1>2, <2>3, <3>1, TxnFields DEF RemovalCommit
    <3> QED BY <2>2, <3>1
  <2>5. t.step = "access" /\ t.n \in Notes /\ t.u \in Users /\ SetGrant(t.n, t.u, t.to)
    BY <2>3, <2>4, TxnFields DEF AccessCommit
  <2>6. t.n = n /\ t.u = u /\ t.to = "granted"
    BY <1>2, <2>3, <2>5 DEF SetGrant
  <2> QED BY <1>2, <2>3, <2>5, <2>6 DEF Kept, HoldsGrant
<1>3. LockInv /\ [StoreNext]_storeVars =>
        [/\ \A m \in Meetings, u \in Users :
              participant[m][u].status \in Status \ {"active"} /\ Active(m, u)' =>
                \E s \in Sessions :
                  /\ HoldsMember(s, m, u)
                  /\ txn[s].seen.status \in Status \ {"active"}
         /\ \A n \in Notes, u \in Users :
              access[n][u] = "revoked" /\ access'[n][u] = "granted" =>
                \E s \in Sessions :
                  HoldsGrant(s, n, u) /\ txn[s].seen = "revoked"]_storeVars
  BY <1>1, <1>2
<1> QED BY <1>3, LockInvHolds, PTL DEF StoreSpec, RevivalIsDeliberate

\* A participant's status and removed_at fall apart only when a call writes over
\* another row than the one it had read: when another call committed in between.
THEOREM MixingIsOfOverlaps == StoreSpec => MixingNeedsOverlap
<1>1. ASSUME StoreInv, [StoreNext]_storeVars, NEW m \in Meetings, NEW u \in Users,
             Dated(participant[m][u]), ~Dated(participant'[m][u])
      PROVE  \E s \in Sessions :
               HoldsMember(s, m, u) /\ txn[s].seen # participant[m][u]
  <2>1. participant'[m][u] # participant[m][u]
    BY <1>1 DEF Dated
  <2>2. /\ participant \in [Meetings -> [Users -> Row \union {NoRow}]]
        /\ \A s \in Sessions : txn[s] \in Txn
    BY <1>1 DEF StoreInv, StoreTypeOK
  <2>3. Dated(ActiveRow)
    BY DEF Dated, ActiveRow
  <2>4. ASSUME NEW k \in Meetings, CreateMeeting(k) PROVE FALSE
    <3>1. participant'[m][u] \in {participant[m][u], ActiveRow}
      BY <2>2, <2>4 DEF CreateMeeting, SetMember
    <3> QED BY <1>1, <2>1, <2>3, <3>1
  <2>5. PICK s \in Sessions : RemovalCommit(s) \/ MemberCommit(s)
    BY <1>1, <2>1, <2>4, WhoWritesParticipants
  <2> DEFINE t == txn[s]
  <2>6. /\ t.m \in Meetings /\ t.u \in Users
        /\ t.step \in {"member", "revoking"}
    BY <2>2, <2>5, TxnFields DEF RemovalCommit, MemberCommit
  <2>7. m = t.m /\ u = t.u
    BY <2>1, <2>2, <2>5, <2>6 DEF RemovalCommit, MemberCommit, SetMember
  <2>8. HoldsMember(s, m, u)
    BY <2>6, <2>7 DEF HoldsMember
  <2>9. t.seen # participant[m][u]
    <3> SUFFICES ASSUME t.seen = participant[m][u] PROVE FALSE
      OBVIOUS
    <3>1. CASE RemovalCommit(s)
      <4>1. t.seen \in Row /\ t.to \in Status /\ t.to # "active"
        BY <2>2, <3>1, TxnFields DEF RemovalCommit
      <4>2. participant'[m][u] = MergeRemoval(t.seen, t.seen, t.to)
        BY <2>2, <2>6, <2>7, <3>1 DEF RemovalCommit, SetMember
      <4>3. participant'[m][u] = [status |-> t.to, removed |-> TRUE]
        BY <4>1, <4>2, MergeFresh
      <4> QED BY <1>1, <4>1, <4>3 DEF Dated
    <3>2. CASE MemberCommit(s)
      <4>1. t.seen \in Row \union {NoRow}
        BY <2>2, <3>2, TxnFields DEF MemberCommit
      <4>2. participant'[m][u] = Activated(t.seen, t.seen)
        BY <2>2, <2>6, <2>7, <3>2 DEF MemberCommit, SetMember
      <4>3. participant'[m][u] = ActiveRow
        BY <4>1, <4>2, MergeFresh DEF Activated, ActiveRow, Status
      <4> QED BY <1>1, <2>3, <4>3
    <3> QED BY <2>5, <3>1, <3>2
  <2> QED BY <2>8, <2>9
<1>2. StoreInv /\ [StoreNext]_storeVars =>
        [\A m \in Meetings, u \in Users :
           Dated(participant[m][u]) /\ ~Dated(participant'[m][u]) =>
             \E s \in Sessions :
               HoldsMember(s, m, u) /\ txn[s].seen # participant[m][u]]_storeVars
  BY <1>1
<1> QED BY <1>2, StoreInvHolds, PTL DEF StoreSpec, MixingNeedsOverlap

-----------------------------------------------------------------------------
(***************************************************************************)
(* With at most one session calls do not overlap.  What an open call has   *)
(* read is then what the tables hold, and a removal reaches every grant it *)
(* must.                                                                   *)
(***************************************************************************)
OneAtATime == \A r, s \in Sessions : r = s

\* What the open call has read is what is in the tables.
Fresh(t) ==
  /\ t.step \in {"add", "membership", "member", "removing", "revoking"} =>
       t.m \in meetings /\ t.seen = participant[t.m][t.u]
  /\ t.step = "revoking" =>
       \A n \in Notes :
         /\ n \in t.todo \union t.revoked => MeetingOf[n] = t.m
         /\ MeetingOf[n] = t.m /\ access[n][t.u] = "granted" =>
              n \in t.todo \union t.revoked
  /\ t.step \in {"authorized", "grant"} => Active(MeetingOf[t.n], t.u)
  /\ t.step = "grant" => t.seen = access[t.n][t.u]
  /\ t.step = "access" /\ t.to = "granted" => Active(MeetingOf[t.n], t.u)

SerialInv ==
  /\ StoreInv
  /\ NoGrantSurvivesRemoval
  /\ RemovedAtMatchesStatus
  /\ \A n \in notes : MeetingOf[n] \in meetings
  /\ \A s \in Sessions : Fresh(txn[s])

\* What the serial invariant says of the tables and of one session.
LEMMA SerialTypes ==
  ASSUME SerialInv, NEW s \in Sessions
  PROVE  /\ txn[s] \in Txn
         /\ txn \in [Sessions -> Txn]
         /\ participant \in [Meetings -> [Users -> Row \union {NoRow}]]
         /\ access \in [Notes -> [Users -> Grant \union {"none"}]]
         /\ meetings \subseteq Meetings /\ notes \subseteq Notes
         /\ Fresh(txn[s]) /\ Grounded(txn[s])
BY DEF SerialInv, StoreInv, StoreTypeOK, PendingCallsAreGrounded

(***************************************************************************)
(* A step of the only session: nobody else's freshness is at stake.        *)
(***************************************************************************)
LEMMA SerialReadKeeps ==
  ASSUME OneAtATime, SerialInv, StoreInv', NEW s \in Sessions, NEW t \in Txn,
         Fresh(t), txn' = [txn EXCEPT ![s] = t],
         UNCHANGED <<meetings, participant, notes, access>>
  PROVE  SerialInv'
<1>1. txn'[s] = t
  BY SerialTypes
<1>2. \A r \in Sessions : Fresh(txn[r])'
  BY <1>1 DEF OneAtATime, Fresh, Active
<1> QED
  BY <1>2 DEF SerialInv, NoGrantSurvivesRemoval, RemovedAtMatchesStatus, Active

\* When the only session ends, no call is pending, and the two properties of
\* the tables are all there is to keep.
LEMMA SerialEndKeeps ==
  ASSUME OneAtATime, SerialInv, StoreInv', NEW s \in Sessions, End(s),
         UNCHANGED <<meetings, notes>>,
         NoGrantSurvivesRemoval', RemovedAtMatchesStatus'
  PROVE  SerialInv'
<1>1. txn'[s].step = "idle"
  BY SerialTypes DEF End, Idle
<1>2. \A r \in Sessions : Fresh(txn[r])'
  BY <1>1 DEF OneAtATime, Fresh
<1> QED BY <1>2 DEF SerialInv

\* A row made ACTIVE harms no grant.
LEMMA SerialActivateKeeps ==
  ASSUME OneAtATime, SerialInv, StoreInv', NEW s \in Sessions, End(s),
         NEW m \in Meetings, NEW u \in Users, SetMember(m, u, ActiveRow),
         UNCHANGED <<meetings, notes, access>>
  PROVE  SerialInv'
<1>1. \A k \in Meetings, v \in Users :
        participant'[k][v] =
          IF k = m /\ v = u THEN ActiveRow ELSE participant[k][v]
  BY SerialTypes DEF SetMember
<1>2. NoGrantSurvivesRemoval'
  BY <1>1, StoreConstants
  DEF SerialInv, NoGrantSurvivesRemoval, Active, ActiveRow
<1>3. RemovedAtMatchesStatus'
  BY <1>1 DEF SerialInv, RemovedAtMatchesStatus, Active, ActiveRow
<1> QED BY <1>2, <1>3, SerialEndKeeps

\* Writing a grant, to an ACTIVE participant if it grants, keeps the invariant.
LEMMA SerialGrantKeeps ==
  ASSUME OneAtATime, SerialInv, StoreInv', NEW s \in Sessions, End(s),
         NEW n \in Notes, NEW u \in Users, NEW grant \in Grant,
         grant = "granted" => Active(MeetingOf[n], u),
         SetGrant(n, u, grant), UNCHANGED <<meetings, participant, notes>>
  PROVE  SerialInv'
<1>1. \A k \in Notes, v \in Users :
        access'[k][v] = IF k = n /\ v = u THEN grant ELSE access[k][v]
  BY SerialTypes DEF SetGrant
<1>2. NoGrantSurvivesRemoval'
  BY <1>1 DEF SerialInv, NoGrantSurvivesRemoval, Active
<1>3. RemovedAtMatchesStatus'
  BY DEF SerialInv, RemovedAtMatchesStatus, Active
<1> QED BY <1>2, <1>3, SerialEndKeeps

\* A call that ends without a write keeps the serial invariant.
LEMMA SerialEndSame ==
  ASSUME OneAtATime, SerialInv, StoreInv', NEW s \in Sessions, End(s),
         UNCHANGED <<meetings, participant, notes, access>>
  PROVE  SerialInv'
<1>1. NoGrantSurvivesRemoval' /\ RemovedAtMatchesStatus'
  BY DEF SerialInv, NoGrantSurvivesRemoval, RemovedAtMatchesStatus, Active
<1> QED BY <1>1, SerialEndKeeps

(***************************************************************************)
(* A removal: the row loses its ACTIVE status and the user every grant of  *)
(* the meeting, and nothing else is lost.                                  *)
(***************************************************************************)
LEMMA RemovalWrites ==
  ASSUME SerialInv, NEW s \in Sessions, RemovalCommit(s)
  PROVE  LET t == txn[s] IN
         /\ t.m \in Meetings /\ t.u \in Users /\ t.to \in Status \ {"active"}
         /\ \A k \in Meetings, v \in Users :
              participant'[k][v] = IF k = t.m /\ v = t.u
                                   THEN [status |-> t.to, removed |-> TRUE]
                                   ELSE participant[k][v]
         /\ \A n \in Notes, v \in Users :
              access'[n][v] = IF n \in t.revoked /\ v = t.u
                              THEN "revoked" ELSE access[n][v]
<1> DEFINE t == txn[s]
           row == MergeRemoval(participant[t.m][t.u], t.seen, t.to)
<1>1. /\ t.step = "revoking" /\ t.todo = {} /\ t.m \in Meetings /\ t.u \in Users
      /\ t.to \in Status /\ t.to # "active" /\ t.seen \in Row
      /\ t.seen = participant[t.m][t.u]
  BY SerialTypes, TxnFields DEF RemovalCommit, Fresh
<1>2. row = [status |-> t.to, removed |-> TRUE]
  BY <1>1, MergeFresh
<1>3. SetMember(t.m, t.u, row)
  BY DEF RemovalCommit
<1>4. access' = [n \in Notes |->
                  IF n \in t.revoked
                  THEN [access[n] EXCEPT ![t.u] = "revoked"]
                  ELSE access[n]]
  BY DEF RemovalCommit
<1> HIDE DEF row
<1>5. \A k \in Meetings, v \in Users :
        participant'[k][v] = IF k = t.m /\ v = t.u THEN row ELSE participant[k][v]
  BY <1>1, <1>3, SerialTypes DEF SetMember
<1>6. \A n \in Notes, v \in Users :
        access'[n][v] = IF n \in t.revoked /\ v = t.u
                        THEN "revoked" ELSE access[n][v]
  BY <1>1, <1>4, SerialTypes
<1> QED BY <1>1, <1>2, <1>5, <1>6

\* The commit of a removal keeps it: the member's grants in this meeting go.
LEMMA SerialRemovalKeeps ==
  ASSUME OneAtATime, SerialInv, StoreInv', NEW s \in Sessions, RemovalCommit(s)
  PROVE  SerialInv'
<1> DEFINE t == txn[s]
<1>1. /\ t.m \in Meetings /\ t.u \in Users /\ t.to \in Status \ {"active"}
      /\ \A k \in Meetings, v \in Users :
           participant'[k][v] = IF k = t.m /\ v = t.u
                                THEN [status |-> t.to, removed |-> TRUE]
                                ELSE participant[k][v]
      /\ \A n \in Notes, v \in Users :
           access'[n][v] = IF n \in t.revoked /\ v = t.u
                           THEN "revoked" ELSE access[n][v]
  BY RemovalWrites
<1>2. \A n \in Notes :
        MeetingOf[n] = t.m /\ access[n][t.u] = "granted" => n \in t.revoked
  BY SerialTypes DEF RemovalCommit, Fresh
<1>3. NoGrantSurvivesRemoval'
  BY <1>1, <1>2, StoreConstants DEF SerialInv, NoGrantSurvivesRemoval, Active
<1>4. RemovedAtMatchesStatus'
  BY <1>1 DEF SerialInv, RemovedAtMatchesStatus, Active
<1> QED BY <1>3, <1>4, SerialEndKeeps DEF RemovalCommit

(***************************************************************************)
(* One step per action.                                                    *)
(***************************************************************************)
LEMMA SerialBegin ==
  ASSUME OneAtATime, SerialInv, StoreInv', NEW s \in Sessions, SessionBegin(s)
  PROVE  SerialInv'
<1>1. PICK actor \in Users, u \in Users :
        \/ \E m \in Meetings :
             \/ AddParticipantRead(s, actor, m, u)
             \/ \E to \in Status : MembershipRead(s, actor, m, u, to)
        \/ \E n \in Notes :
             \/ GrantAuthorize(s, actor, n, u)
             \/ RevokeRead(s, actor, n, u)
  BY DEF SessionBegin
<1>2. txn' \in [Sessions -> Txn] /\ txn'[s] \in Txn
  BY DEF StoreInv, StoreTypeOK
<1>3. ASSUME NEW m \in Meetings,
             AddParticipantRead(s, actor, m, u)
      PROVE  SerialInv'
  <2> DEFINE t == [step |-> "add", m |-> m, u |-> u, seen |-> participant[m][u]]
  <2>1. /\ txn' = [txn EXCEPT ![s] = t]
        /\ UNCHANGED <<meetings, participant, notes, access>>
    BY <1>3 DEF AddParticipantRead, Begin
  <2>2. Fresh(t)
    BY <1>3 DEF AddParticipantRead, Manages, Fresh
  <2>3. txn'[s] = t /\ t \in Txn
    BY <1>2, <2>1, SerialTypes
  <2> HIDE DEF t
  <2> QED BY <2>1, <2>2, <2>3, SerialReadKeeps
<1>4. ASSUME NEW m \in Meetings, NEW to \in Status,
             MembershipRead(s, actor, m, u, to)
      PROVE  SerialInv'
  <2> DEFINE t == [step |-> "membership", m |-> m, u |-> u, to |-> to,
                   seen |-> participant[m][u]]
  <2>1. /\ txn' = [txn EXCEPT ![s] = t]
        /\ UNCHANGED <<meetings, participant, notes, access>>
    BY <1>4 DEF MembershipRead, Begin
  <2>2. Fresh(t)
    BY <1>4 DEF MembershipRead, Manages, Fresh
  <2>3. txn'[s] = t /\ t \in Txn
    BY <1>2, <2>1, SerialTypes
  <2> HIDE DEF t
  <2> QED BY <2>1, <2>2, <2>3, SerialReadKeeps
<1>5. ASSUME NEW n \in Notes,
             GrantAuthorize(s, actor, n, u)
      PROVE  SerialInv'
  <2> DEFINE t == [step |-> "authorized", n |-> n, u |-> u]
  <2>1. /\ txn' = [txn EXCEPT ![s] = t]
        /\ UNCHANGED <<meetings, participant, notes, access>>
    BY <1>5 DEF GrantAuthorize, Begin
  <2>2. Fresh(t)
    BY <1>5 DEF GrantAuthorize, MayGrant, Fresh
  <2>3. txn'[s] = t /\ t \in Txn
    BY <1>2, <2>1, SerialTypes
  <2> HIDE DEF t
  <2> QED BY <2>1, <2>2, <2>3, SerialReadKeeps
<1>6. ASSUME NEW n \in Notes,
             RevokeRead(s, actor, n, u)
      PROVE  SerialInv'
  <2> DEFINE t == [step |-> "revoke", n |-> n, u |-> u, seen |-> "granted"]
  <2>1. /\ txn' = [txn EXCEPT ![s] = t]
        /\ UNCHANGED <<meetings, participant, notes, access>>
    BY <1>6 DEF RevokeRead, Begin
  <2>2. Fresh(t)
    BY <1>6 DEF Fresh
  <2>3. txn'[s] = t /\ t \in Txn
    BY <1>2, <2>1, SerialTypes
  <2> HIDE DEF t
  <2> QED BY <2>1, <2>2, <2>3, SerialReadKeeps
<1> QED BY <1>1, <1>3, <1>4, <1>5, <1>6

\* Every statement of a session that has begun keeps the serial invariant.
LEMMA SerialStep ==
  ASSUME OneAtATime, SerialInv, StoreInv', NEW s \in Sessions, SessionStep(s)
  PROVE  SerialInv'
<1> DEFINE t == txn[s]
<1>1. t \in Txn /\ Fresh(t) /\ Grounded(t)
  BY SerialTypes
<1>2. txn' \in [Sessions -> Txn] /\ txn'[s] \in Txn
  BY DEF StoreInv, StoreTypeOK
<1>3. CASE InsertParticipant(s) \/ ReactivateParticipant(s)
  <2> DEFINE w == [step |-> "member", m |-> t.m, u |-> t.u, seen |-> t.seen]
  <2>1. /\ t.step = "add"
        /\ txn' = [txn EXCEPT ![s] = w]
        /\ UNCHANGED <<meetings, participant, notes, access>>
    BY <1>3 DEF InsertParticipant, ReactivateParticipant, Continue
  <2>2. Fresh(w)
    BY <1>1, <2>1 DEF Fresh
  <2>3. txn'[s] = w /\ w \in Txn
    BY <1>2, <2>1, SerialTypes
  <2> HIDE DEF w
  <2> QED BY <2>1, <2>2, <2>3, SerialReadKeeps
<1>4. CASE MembershipActivate(s)
  <2> DEFINE w == [step |-> "member", m |-> t.m, u |-> t.u, seen |-> t.seen]
  <2>1. /\ t.step = "membership"
        /\ End(s) \/ txn' = [txn EXCEPT ![s] = w]
        /\ UNCHANGED <<meetings, participant, notes, access>>
    BY <1>4 DEF MembershipActivate, Continue
  <2>2. Fresh(w)
    BY <1>1, <2>1 DEF Fresh
  <2>3. CASE txn' = [txn EXCEPT ![s] = w]
    <3>1. txn'[s] = w /\ w \in Txn
      BY <1>2, <2>3, SerialTypes
    <3> HIDE DEF w
    <3> QED BY <2>1, <2>2, <2>3, <3>1, SerialReadKeeps
  <2> QED BY <2>1, <2>3, SerialEndSame
<1>5. CASE MemberCommit(s)
  <2>1. /\ t.m \in Meetings /\ t.u \in Users /\ t.seen = participant[t.m][t.u]
        /\ t.seen \in Row \union {NoRow}
    BY <1>1, <1>5, TxnFields DEF MemberCommit, Fresh
  <2>2. Activated(participant[t.m][t.u], t.seen) = ActiveRow
    BY <2>1, MergeFresh DEF Activated, ActiveRow, Status
  <2> QED BY <1>5, <2>1, <2>2, SerialActivateKeeps DEF MemberCommit
<1>6. CASE RemovalFlush(s)
  <2> DEFINE w == [step |-> "removing", m |-> t.m, u |-> t.u, to |-> t.to,
                   seen |-> t.seen]
  <2>1. /\ t.step = "membership"
        /\ txn' = [txn EXCEPT ![s] = w]
        /\ UNCHANGED <<meetings, participant, notes, access>>
    BY <1>6 DEF RemovalFlush, Continue
  <2>2. Fresh(w)
    BY <1>1, <2>1 DEF Fresh
  <2>3. txn'[s] = w /\ w \in Txn
    BY <1>2, <2>1, SerialTypes
  <2> HIDE DEF w
  <2> QED BY <2>1, <2>2, <2>3, SerialReadKeeps
<1>7. CASE RevocationStart(s)
  <2> DEFINE w == [step |-> "revoking", m |-> t.m, u |-> t.u, to |-> t.to,
                   seen |-> t.seen, todo |-> GrantsToRevoke(t.m, t.u),
                   revoked |-> {}]
  <2>1. /\ t.step = "removing"
        /\ txn' = [txn EXCEPT ![s] = w]
        /\ UNCHANGED <<meetings, participant, notes, access>>
    BY <1>7 DEF RevocationStart, Continue
  <2>2. Fresh(w)
    <3>1. t.m \in meetings /\ t.seen = participant[t.m][t.u] /\ t.u \in Users
      BY <1>1, <2>1, TxnFields DEF Fresh
    <3>2. \A n \in Notes : access[n][t.u] = "granted" => n \in notes
      BY <3>1 DEF SerialInv, StoreInv, GrantsFollowParticipation
    <3>3. \A n \in Notes :
            /\ n \in GrantsToRevoke(t.m, t.u) => MeetingOf[n] = t.m
            /\ MeetingOf[n] = t.m /\ access[n][t.u] = "granted" =>
                 n \in GrantsToRevoke(t.m, t.u)
      BY <3>2 DEF GrantsToRevoke, NotesOf
    <3> QED BY <3>1, <3>3 DEF Fresh
  <2>3. txn'[s] = w /\ w \in Txn
    BY <1>2, <2>1, SerialTypes
  <2> HIDE DEF w
  <2> QED BY <2>1, <2>2, <2>3, SerialReadKeeps
<1>8. ASSUME NEW n \in Notes, RevokeRow(s, n) PROVE SerialInv'
  <2> DEFINE w == [t EXCEPT !.todo = t.todo \ {n},
                            !.revoked = IF access[n][t.u] = "granted"
                                        THEN t.revoked \union {n} ELSE t.revoked]
  <2>1. /\ t.step = "revoking" /\ n \in t.todo
        /\ txn' = [txn EXCEPT ![s] = w]
        /\ UNCHANGED <<meetings, participant, notes, access>>
    BY <1>8 DEF RevokeRow, Continue
  <2>2. t \in [step : {"revoking"}, m : Meetings, u : Users,
               to : Status \ {"active"}, seen : Row, todo : SUBSET Notes,
               revoked : SUBSET Notes]
    BY <1>1, <2>1, StepIsRevoking
  <2>3. /\ w.step = "revoking" /\ w.m = t.m /\ w.u = t.u /\ w.seen = t.seen
        /\ w.todo = t.todo \ {n}
        /\ w.revoked = IF access[n][t.u] = "granted"
                       THEN t.revoked \union {n} ELSE t.revoked
    BY <2>2
  <2>4. /\ t.m \in meetings /\ t.seen = participant[t.m][t.u]
        /\ \A k \in Notes :
             /\ k \in t.todo \union t.revoked => MeetingOf[k] = t.m
             /\ MeetingOf[k] = t.m /\ access[k][t.u] = "granted" =>
                  k \in t.todo \union t.revoked
    BY <1>1, <2>1 DEF Fresh
  <2> HIDE DEF w
  <2>5. Fresh(w)
    BY <2>1, <2>3, <2>4 DEF Fresh
  <2>6. txn'[s] = w /\ w \in Txn
    BY <1>2, <2>1, SerialTypes
  <2> QED BY <2>1, <2>5, <2>6, SerialReadKeeps
<1>9. CASE RemovalCommit(s)
  BY <1>9, SerialRemovalKeeps
<1>10. CASE GrantSelect(s)
  <2> DEFINE w == [step |-> "grant", n |-> t.n, u |-> t.u,
                   seen |-> access[t.n][t.u]]
  <2>1. /\ t.step = "authorized"
        /\ txn' = [txn EXCEPT ![s] = w]
        /\ UNCHANGED <<meetings, participant, notes, access>>
    BY <1>10 DEF GrantSelect
  <2>2. Fresh(w)
    BY <1>1, <2>1 DEF Fresh
  <2>3. txn'[s] = w /\ w \in Txn
    BY <1>2, <2>1, SerialTypes
  <2> HIDE DEF w
  <2> QED BY <2>1, <2>2, <2>3, SerialReadKeeps
<1>11. ASSUME NEW to, WriteGrant(s, to),
              to = "granted" => Active(MeetingOf[t.n], t.u)
       PROVE  SerialInv'
  <2> DEFINE w == [step |-> "access", n |-> t.n, u |-> t.u, seen |-> t.seen,
                   to |-> to]
  <2>1. /\ txn' = [txn EXCEPT ![s] = w]
        /\ UNCHANGED <<meetings, participant, notes, access>>
    BY <1>11 DEF WriteGrant, Continue
  <2>2. Fresh(w)
    BY <1>11 DEF Fresh
  <2>3. txn'[s] = w /\ w \in Txn
    BY <1>2, <2>1, SerialTypes
  <2> HIDE DEF w
  <2> QED BY <2>1, <2>2, <2>3, SerialReadKeeps
<1>12. CASE GrantInsert(s) \/ GrantUpdate(s)
  BY <1>1, <1>11, <1>12 DEF GrantInsert, GrantUpdate, Fresh
<1>13. CASE RevokeWrite(s)
  BY <1>11, <1>13 DEF RevokeWrite
<1>14. CASE AccessCommit(s)
  BY <1>1, <1>14, TxnFields, SerialGrantKeeps DEF AccessCommit, Fresh
<1>15. CASE RejectDuplicate(s)
  BY <1>15, SerialEndSame DEF RejectDuplicate
<1> QED
  BY <1>3, <1>4, <1>5, <1>6, <1>7, <1>8, <1>9, <1>10, <1>12, <1>13, <1>14,
     <1>15
  DEF SessionStep

\* create_meeting keeps it, beside a pending call.
LEMMA SerialCreate ==
  ASSUME SerialInv, StoreInv', NEW m \in Meetings, CreateMeeting(m)
  PROVE  SerialInv'
<1>1. Organizer[m] \in Users
  BY StoreConstants
<1>2. \A k \in Meetings, v \in Users :
        participant'[k][v] = IF k = m /\ v = Organizer[m]
                             THEN ActiveRow ELSE participant[k][v]
  BY <1>1 DEF CreateMeeting, SetMember, SerialInv, StoreInv, StoreTypeOK
<1>3. NoGrantSurvivesRemoval'
  BY <1>2, StoreConstants
  DEF SerialInv, NoGrantSurvivesRemoval, Active, ActiveRow, CreateMeeting
<1>4. RemovedAtMatchesStatus'
  BY <1>2 DEF SerialInv, RemovedAtMatchesStatus, Active, ActiveRow
<1>5. ASSUME NEW r \in Sessions PROVE Fresh(txn[r])'
  <2>1. txn'[r] = txn[r] /\ UNCHANGED <<notes, access>> /\ m \notin meetings
        /\ meetings' = meetings \union {m}
    BY DEF CreateMeeting
  <2>2. /\ txn[r] \in Txn /\ Fresh(txn[r]) /\ Grounded(txn[r])
        /\ meetings \subseteq Meetings
    BY SerialTypes
  <2>3. txn[r].step \in {"add", "membership", "member", "removing", "revoking"} =>
          participant'[txn[r].m][txn[r].u] = participant[txn[r].m][txn[r].u]
    BY <1>2, <2>1, <2>2, TxnFields DEF Fresh
  <2>4. txn[r].step \in {"authorized", "grant", "access"} =>
          MeetingOf[txn[r].n] \in meetings /\ txn[r].u \in Users
    BY <2>2, TxnFields DEF Grounded, SerialInv
  <2>5. txn[r].step \in {"authorized", "grant", "access"} =>
          (Active(MeetingOf[txn[r].n], txn[r].u) =>
             Active(MeetingOf[txn[r].n], txn[r].u)')
    BY <1>2, <2>1, <2>2, <2>4 DEF Fresh, Active
  <2> QED BY <2>1, <2>2, <2>3, <2>5 DEF Fresh
<1>6. \A n \in notes' : MeetingOf[n] \in meetings'
  BY DEF CreateMeeting, SerialInv
<1> QED BY <1>3, <1>4, <1>5, <1>6 DEF SerialInv

\* add_confidential_note keeps it: a new note has no grants.
LEMMA SerialAddNote ==
  ASSUME SerialInv, StoreInv', NEW n \in Notes, NEW actor \in Users,
         AddConfidentialNote(n, actor)
  PROVE  SerialInv'
BY DEF SerialInv, NoGrantSurvivesRemoval, RemovedAtMatchesStatus, Active, Fresh,
       AddConfidentialNote, Manages

\* The empty tables satisfy the serial invariant.
LEMMA SerialInit ==
  ASSUME StoreInit
  PROVE  SerialInv
BY StoreInitInv
DEF StoreInit, SerialInv, NoGrantSurvivesRemoval, RemovedAtMatchesStatus,
    Fresh, Idle

\* Every step keeps the serial invariant.
LEMMA SerialNext ==
  ASSUME OneAtATime, SerialInv, [StoreNext]_storeVars
  PROVE  SerialInv'
<1>1. StoreInv'
  BY StoreNextInv DEF SerialInv
<1>2. CASE UNCHANGED storeVars
  BY <1>1, <1>2
  DEF storeVars, SerialInv, NoGrantSurvivesRemoval, RemovedAtMatchesStatus,
      Active, Fresh
<1>3. ASSUME NEW s \in Sessions, Rollback(s) PROVE SerialInv'
  BY <1>1, <1>3, SerialEndSame DEF Rollback
<1> QED
  BY <1>1, <1>2, <1>3, SerialCreate, SerialAddNote, SerialBegin, SerialStep
  DEF StoreNext

\* The serial invariant holds in every reachable state.
LEMMA SerialInvHolds ==
  ASSUME OneAtATime
  PROVE  StoreSpec => []SerialInv
<1>1. StoreInit => SerialInv
  BY SerialInit
<1>2. SerialInv /\ [StoreNext]_storeVars => SerialInv'
  BY SerialNext
<1> QED BY <1>1, <1>2, PTL DEF StoreSpec

\* While calls do not overlap, removing a participant takes every grant of the
\* meeting's confidential notes along, and no call gives one to a user who is
\* not ACTIVE.
THEOREM SerialRemovalRevokes ==
  ASSUME OneAtATime
  PROVE  StoreSpec => []NoGrantSurvivesRemoval
<1>1. SerialInv => NoGrantSurvivesRemoval
  BY DEF SerialInv
<1> QED BY <1>1, SerialInvHolds, PTL

\* While calls do not overlap, removed_at is set exactly on the participants who
\* are not ACTIVE.
THEOREM SerialRemovedAt ==
  ASSUME OneAtATime
  PROVE  StoreSpec => []RemovedAtMatchesStatus
<1>1. SerialInv => RemovedAtMatchesStatus
  BY DEF SerialInv
<1> QED BY <1>1, SerialInvHolds, PTL

\* The step that takes a grant is a revocation of it or the commit of a removal.
LEMMA LossOfGrant ==
  ASSUME SerialInv, [StoreNext]_storeVars, NEW n \in Notes, NEW u \in Users,
         access[n][u] = "granted", access'[n][u] # "granted"
  PROVE  \/ \E s \in Sessions : /\ txn[s].step = "access"
                                /\ txn[s].to = "revoked"
                                /\ HoldsGrant(s, n, u)
         \/ ~Active(MeetingOf[n], u)'
<1>1. PICK s \in Sessions : RemovalCommit(s) \/ AccessCommit(s)
  BY WhoWritesGrants
<1> DEFINE t == txn[s]
<1>2. t \in Txn /\ Fresh(t)
  BY SerialTypes
<1>3. CASE RemovalCommit(s)
  <2>1. /\ t.m \in Meetings /\ t.u \in Users /\ t.to # "active"
        /\ participant'[t.m][t.u] = [status |-> t.to, removed |-> TRUE]
        /\ access'[n][u] = IF n \in t.revoked /\ u = t.u
                           THEN "revoked" ELSE access[n][u]
    BY <1>3, RemovalWrites
  <2>2. n \in t.revoked /\ u = t.u
    BY <2>1
  <2>3. MeetingOf[n] = t.m
    BY <1>2, <1>3, <2>2 DEF RemovalCommit, Fresh
  <2> QED BY <2>1, <2>2, <2>3 DEF Active
<1>4. CASE AccessCommit(s)
  <2>1. /\ t.step = "access" /\ t.n \in Notes /\ t.u \in Users /\ t.to \in Grant
        /\ SetGrant(t.n, t.u, t.to)
    BY <1>2, <1>4, TxnFields DEF AccessCommit
  <2>2. t.n = n /\ t.u = u /\ t.to # "granted"
    BY <2>1, SerialTypes DEF SetGrant
  <2> QED BY <2>1, <2>2 DEF HoldsGrant, Grant
<1> QED BY <1>1, <1>3, <1>4

\* While calls do not overlap, a grant is lost by revoking that very grant or
\* with the membership it hangs on: the bulk UPDATE of a removal takes nothing
\* from another user or another meeting.
THEOREM SerialGrantLoss ==
  ASSUME OneAtATime
  PROVE  StoreSpec => GrantLossIsExplained
<1>1. SerialInv /\ [StoreNext]_storeVars =>
        [\A n \in Notes, u \in Users :
           access[n][u] = "granted" /\ access'[n][u] # "granted" =>
             \/ \E s \in Sessions : /\ txn[s].step = "access"
                                   /\ txn[s].to = "revoked"
                                   /\ HoldsGrant(s, n, u)
             \/ ~Active(MeetingOf[n], u)']_storeVars
  BY LossOfGrant
<1> QED
  BY <1>1, SerialInvHolds, PTL DEF StoreSpec, GrantLossIsExplained
=============================================================================
