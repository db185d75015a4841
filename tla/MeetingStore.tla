---------------------------- MODULE MeetingStore ----------------------------
(***************************************************************************)
(* The meeting, participant, confidential-note and note-access tables and  *)
(* the operations of SQLAlchemyMeetingRepository that change them.         *)
(*                                                                         *)
(* An operation runs in the AsyncSession of its request.  Under the        *)
(* database's default READ COMMITTED isolation each SELECT sees what is    *)
(* committed when it runs, so every operation that reads before it writes  *)
(* is split at its statements: what it read is kept in txn[s] until its    *)
(* commit.  A write is an UPDATE of the columns whose value differs from   *)
(* the row the session loaded (the ORM's unit of work) or an INSERT that a *)
(* unique constraint may refuse.  What is flushed and not committed holds   *)
(* its rows: another session's write of them waits for the commit.         *)
(*                                                                         *)
(* meetings.created_by never changes, no operation deletes a row, and no   *)
(* code sets confidential_notes.deleted_at: Organizer and MeetingOf are    *)
(* constants, and rows only appear.  Nothing limits the number of calls.   *)
(***************************************************************************)
CONSTANTS
  Users,
  Meetings,       \* ids of the meetings there may be
  Notes,          \* ids of the confidential notes there may be
  Sessions,       \* database sessions, one per request in progress
  Organizer,      \* Organizer[m]: meetings.created_by
  MeetingOf       \* MeetingOf[n]: confidential_notes.meeting_id

ASSUME StoreConstants ==
  /\ Organizer \in [Meetings -> Users]
  /\ MeetingOf \in [Notes -> Meetings]

VARIABLES
  meetings,       \* the meetings committed
  participant,    \* participant[m][u]: row of meeting_participants, or NoRow
  notes,          \* the confidential notes committed
  access,         \* access[n][u]: row of confidential_note_access, or "none"
  txn             \* txn[s]: what the session s has read and not yet committed

storeVars == <<meetings, participant, notes, access, txn>>

(***************************************************************************)
(* Rows.  Of a participant: its status and whether removed_at is set.  Of  *)
(* a grant: whether revoked_at is set.                                     *)
(***************************************************************************)
Status == {"active", "removed", "revoked"}
NoRow == [status |-> "none", removed |-> FALSE]
Row == [status : Status, removed : BOOLEAN]
Grant == {"granted", "revoked"}
ActiveRow == [status |-> "active", removed |-> FALSE]

Idle == [step |-> "idle"]

Txn ==
  {Idle}
    \union [step : {"add"}, m : Meetings, u : Users, seen : Row \union {NoRow}]
    \union [step : {"membership"}, m : Meetings, u : Users, to : Status,
            seen : Row]
    \union [step : {"member"}, m : Meetings, u : Users, seen : Row \union {NoRow}]
    \union [step : {"removing"}, m : Meetings, u : Users, to : Status \ {"active"},
            seen : Row]
    \union [step : {"revoking"}, m : Meetings, u : Users, to : Status \ {"active"},
            seen : Row, todo : SUBSET Notes, revoked : SUBSET Notes]
    \union [step : {"authorized"}, n : Notes, u : Users]
    \union [step : {"grant"}, n : Notes, u : Users, seen : Grant \union {"none"}]
    \union [step : {"revoke"}, n : Notes, u : Users, seen : {"granted"}]
    \union [step : {"access"}, n : Notes, u : Users, seen : Grant \union {"none"},
            to : Grant]

StoreTypeOK ==
  /\ meetings \subseteq Meetings
  /\ participant \in [Meetings -> [Users -> Row \union {NoRow}]]
  /\ notes \subseteq Notes
  /\ access \in [Notes -> [Users -> Grant \union {"none"}]]
  /\ txn \in [Sessions -> Txn]

StoreInit ==
  /\ meetings = {}
  /\ participant = [m \in Meetings |-> [u \in Users |-> NoRow]]
  /\ notes = {}
  /\ access = [n \in Notes |-> [u \in Users |-> "none"]]
  /\ txn = [s \in Sessions |-> Idle]

-----------------------------------------------------------------------------
Active(m, u) == participant[m][u].status = "active"
NotesOf(m) == {n \in notes : MeetingOf[n] = m}

\* The WHERE clause of every write: the meeting exists and is the actor's.
Manages(actor, m) == m \in meetings /\ Organizer[m] = actor

\* Slip: removed_at is never cleared again.
MergeKeepingRemovedAt(row, seen, status, removed) ==
  [row EXCEPT !.status = IF status # seen.status THEN status ELSE row.status]

\* The UPDATE of the columns status and removed_at that differ from the row
\* the session loaded; the other columns of the row keep what is there now.
Merge(row, seen, status, removed) ==
  [status |-> IF status # seen.status THEN status ELSE row.status,
   removed |-> IF removed # seen.removed THEN removed ELSE row.removed]

\* Slip: a removal clears the status instead of setting it.
MergeRemovalClearing(row, seen, status) == [status |-> "none", removed |-> TRUE]

\* A removal always writes removed_at: its timestamp is new.
MergeRemoval(row, seen, status) ==
  [status |-> Merge(row, seen, status, TRUE).status, removed |-> TRUE]

\* Slip: the session does not flush the row before the bulk UPDATE.
HoldsMemberAtCommit(s, m, u) ==
  txn[s].step = "member" /\ txn[s].m = m /\ txn[s].u = u

\* Rows written in an open transaction: a participant's from its flush on, a
\* grant from the UPDATE or INSERT that reached it, both until the commit.
HoldsMember(s, m, u) ==
  /\ txn[s].step \in {"member", "removing", "revoking"}
  /\ txn[s].m = m /\ txn[s].u = u
HoldsGrant(s, n, u) ==
  \/ txn[s].step = "access" /\ txn[s].n = n /\ txn[s].u = u
  \/ txn[s].step = "revoking" /\ n \in txn[s].revoked /\ txn[s].u = u
MemberLocked(s, m, u) == \E r \in Sessions \ {s} : HoldsMember(r, m, u)
GrantLocked(s, n, u) == \E r \in Sessions \ {s} : HoldsGrant(r, n, u)

Begin(s, t) == txn[s] = Idle /\ txn' = [txn EXCEPT ![s] = t]
Continue(s, t) == txn' = [txn EXCEPT ![s] = t]
End(s) == txn' = [txn EXCEPT ![s] = Idle]
SetMember(m, u, row) == participant' = [participant EXCEPT ![m][u] = row]
SetGrant(n, u, grant) == access' = [access EXCEPT ![n][u] = grant]

-----------------------------------------------------------------------------
\* create_meeting: the meeting and its host's ACTIVE participant row, in one
\* commit.
CreateMeeting(m) ==
  /\ m \notin meetings
  /\ meetings' = meetings \union {m}
  /\ SetMember(m, Organizer[m], ActiveRow)
  /\ UNCHANGED <<notes, access, txn>>

\* add_confidential_note: the organizer check reads what never changes, so the
\* check and the insert are one step.
AddConfidentialNote(n, actor) ==
  /\ n \notin notes
  /\ Manages(actor, MeetingOf[n])
  /\ notes' = notes \union {n}
  /\ UNCHANGED <<meetings, participant, access, txn>>

\* add_participant, up to the SELECT of the existing row.  Any other actor is
\* refused with PermissionError and nothing changes.
AddParticipantRead(s, actor, m, u) ==
  /\ Manages(actor, m)
  /\ Begin(s, [step |-> "add", m |-> m, u |-> u, seen |-> participant[m][u]])
  /\ UNCHANGED <<meetings, participant, notes, access>>

\* Slip: the INSERT takes the place of a row that is there.
InsertOrReplace(s) ==
  LET t == txn[s] IN
  /\ t.step = "add"
  /\ t.seen = NoRow
  /\ ~MemberLocked(s, t.m, t.u)
  /\ Continue(s, [step |-> "member", m |-> t.m, u |-> t.u, seen |-> NoRow])
  /\ UNCHANGED <<meetings, participant, notes, access>>

\* add_participant found no row: INSERT, if no other session has inserted it.
InsertParticipant(s) ==
  LET t == txn[s] IN
  /\ t.step = "add"
  /\ t.seen = NoRow
  /\ participant[t.m][t.u] = NoRow
  /\ ~MemberLocked(s, t.m, t.u)
  /\ Continue(s, [step |-> "member", m |-> t.m, u |-> t.u, seen |-> NoRow])
  /\ UNCHANGED <<meetings, participant, notes, access>>

\* add_participant found a row: it is made ACTIVE again.  joined_at is a new
\* time, so the row is always written.
ReactivateParticipant(s) ==
  LET t == txn[s] IN
  /\ t.step = "add"
  /\ t.seen # NoRow
  /\ ~MemberLocked(s, t.m, t.u)
  /\ Continue(s, [step |-> "member", m |-> t.m, u |-> t.u, seen |-> t.seen])
  /\ UNCHANGED <<meetings, participant, notes, access>>

\* Of a row to be made ACTIVE: what its flush makes of it.
Activated(row, seen) ==
  IF seen = NoRow THEN ActiveRow ELSE Merge(row, seen, "active", FALSE)

MemberCommit(s) ==
  LET t == txn[s] IN
  /\ t.step = "member"
  /\ SetMember(t.m, t.u, Activated(participant[t.m][t.u], t.seen))
  /\ End(s)
  /\ UNCHANGED <<meetings, notes, access>>

\* Slip: no organizer check.
MayChangeToAny(m, u, to) == TRUE

\* The organizer check of update_participant_membership.
MayChangeTo(m, u, to) == u = Organizer[m] => to = "active"

\* Slip: a missing participant row is not noticed.
MembershipReadAnyone(s, actor, m, u, to) ==
  /\ Manages(actor, m)
  /\ MayChangeTo(m, u, to)
  /\ Begin(s, [step |-> "membership", m |-> m, u |-> u, to |-> to,
               seen |-> participant[m][u]])
  /\ UNCHANGED <<meetings, participant, notes, access>>

\* update_participant_membership, up to the SELECT of the participant row.
MembershipRead(s, actor, m, u, to) ==
  /\ Manages(actor, m)
  /\ MayChangeTo(m, u, to)
  /\ participant[m][u] # NoRow
  /\ Begin(s, [step |-> "membership", m |-> m, u |-> u, to |-> to,
               seen |-> participant[m][u]])
  /\ UNCHANGED <<meetings, participant, notes, access>>

\* update_participant_membership to ACTIVE: no grant is touched.  A row loaded
\* ACTIVE is not written, and does not wait.
MembershipActivate(s) ==
  LET t == txn[s] IN
  /\ t.step = "membership"
  /\ t.to = "active"
  /\ \/ t.seen = ActiveRow /\ End(s)
     \/ /\ t.seen # ActiveRow /\ ~MemberLocked(s, t.m, t.u)
        /\ Continue(s, [step |-> "member", m |-> t.m, u |-> t.u, seen |-> t.seen])
  /\ UNCHANGED <<meetings, participant, notes, access>>

\* Slips: the condition on revoked_at inverted; the condition on the meeting
\* dropped.
GrantsAlreadyRevoked(m, u) == {n \in NotesOf(m) : access[n][u] = "revoked"}
GrantsOfAnyMeeting(m, u) == {n \in notes : access[n][u] = "granted"}

\* The rows the bulk UPDATE of a removal finds when it starts.
GrantsToRevoke(m, u) == {n \in NotesOf(m) : access[n][u] = "granted"}

\* update_participant_membership to a removed status: the autoflush before the
\* bulk UPDATE writes the participant row.
RemovalFlush(s) ==
  LET t == txn[s] IN
  /\ t.step = "membership"
  /\ t.to # "active"
  /\ ~MemberLocked(s, t.m, t.u)
  /\ Continue(s, [step |-> "removing", m |-> t.m, u |-> t.u, to |-> t.to,
                  seen |-> t.seen])
  /\ UNCHANGED <<meetings, participant, notes, access>>

\* The bulk UPDATE of the grants starts.
RevocationStart(s) ==
  LET t == txn[s] IN
  /\ t.step = "removing"
  /\ Continue(s, [step |-> "revoking", m |-> t.m, u |-> t.u, to |-> t.to,
                  seen |-> t.seen, todo |-> GrantsToRevoke(t.m, t.u),
                  revoked |-> {}])
  /\ UNCHANGED <<meetings, participant, notes, access>>

\* It takes its rows one by one, in any order, each when no other session holds
\* it, and leaves out one that has been revoked since.
RevokeRow(s, n) ==
  LET t == txn[s] IN
  /\ t.step = "revoking"
  /\ n \in t.todo
  /\ ~GrantLocked(s, n, t.u)
  /\ Continue(s, [t EXCEPT !.todo = @ \ {n},
                           !.revoked = IF access[n][t.u] = "granted"
                                       THEN @ \union {n} ELSE @])
  /\ UNCHANGED <<meetings, participant, notes, access>>

RemovalCommit(s) ==
  LET t == txn[s] IN
  /\ t.step = "revoking"
  /\ t.todo = {}
  /\ SetMember(t.m, t.u, MergeRemoval(participant[t.m][t.u], t.seen, t.to))
  /\ access' = [n \in Notes |->
                  IF n \in t.revoked
                  THEN [access[n] EXCEPT ![t.u] = "revoked"]
                  ELSE access[n]]
  /\ End(s)
  /\ UNCHANGED <<meetings, notes>>

\* Slip: the grantee's membership is not asked for.
MayGrantAnyone(actor, n, u) == n \in notes /\ Manages(actor, MeetingOf[n])

\* The authorization SELECT of grant_note_access.
MayGrant(actor, n, u) ==
  /\ n \in notes
  /\ Manages(actor, MeetingOf[n])
  /\ Active(MeetingOf[n], u)

GrantAuthorize(s, actor, n, u) ==
  /\ MayGrant(actor, n, u)
  /\ Begin(s, [step |-> "authorized", n |-> n, u |-> u])
  /\ UNCHANGED <<meetings, participant, notes, access>>

\* grant_note_access, the SELECT of the existing row.
GrantSelect(s) ==
  LET t == txn[s] IN
  /\ t.step = "authorized"
  /\ txn' = [txn EXCEPT ![s] =
               [step |-> "grant", n |-> t.n, u |-> t.u,
                seen |-> access[t.n][t.u]]]
  /\ UNCHANGED <<meetings, participant, notes, access>>

\* The write of one grant, until its commit.
WriteGrant(s, to) ==
  LET t == txn[s] IN
  /\ ~GrantLocked(s, t.n, t.u)
  /\ Continue(s, [step |-> "access", n |-> t.n, u |-> t.u, seen |-> t.seen, to |-> to])
  /\ UNCHANGED <<meetings, participant, notes, access>>

GrantInsert(s) ==
  LET t == txn[s] IN
  /\ t.step = "grant"
  /\ t.seen = "none"
  /\ access[t.n][t.u] = "none"
  /\ WriteGrant(s, "granted")

\* granted_at is a new time, so the row is always written; but revoked_at only
\* if the row was loaded revoked: clearing what is clear writes nothing, and a
\* revocation committed in between stands.
GrantUpdate(s) ==
  LET t == txn[s] IN
  /\ t.step = "grant"
  /\ t.seen # "none"
  /\ WriteGrant(s, IF t.seen = "revoked" THEN "granted" ELSE access[t.n][t.u])

\* revoke_note_access of an unrevoked grant; of any other row the call returns
\* without a write.
RevokeRead(s, actor, n, u) ==
  /\ n \in notes
  /\ Manages(actor, MeetingOf[n])
  /\ access[n][u] = "granted"
  /\ Begin(s, [step |-> "revoke", n |-> n, u |-> u, seen |-> "granted"])
  /\ UNCHANGED <<meetings, participant, notes, access>>

RevokeWrite(s) == txn[s].step = "revoke" /\ WriteGrant(s, "revoked")

AccessCommit(s) ==
  LET t == txn[s] IN
  /\ t.step = "access"
  /\ SetGrant(t.n, t.u, t.to)
  /\ End(s)
  /\ UNCHANGED <<meetings, participant, notes>>

\* _commit of an INSERT the unique constraint refuses: rollback, and the
\* IntegrityError goes to the caller.
RejectDuplicate(s) ==
  LET t == txn[s] IN
  /\ \/ t.step = "add" /\ t.seen = NoRow /\ participant[t.m][t.u] # NoRow
     \/ t.step = "grant" /\ t.seen = "none" /\ access[t.n][t.u] # "none"
  /\ End(s)
  /\ UNCHANGED <<meetings, participant, notes, access>>

\* The request is cancelled, the process dies or the connection is lost before
\* the commit: nothing the session flushed remains.
Rollback(s) ==
  /\ txn[s] # Idle
  /\ End(s)
  /\ UNCHANGED <<meetings, participant, notes, access>>

-----------------------------------------------------------------------------
\* A statement of a session that has begun.
SessionStep(s) ==
  \/ InsertParticipant(s)
  \/ ReactivateParticipant(s)
  \/ MembershipActivate(s)
  \/ MemberCommit(s)
  \/ RemovalFlush(s)
  \/ RevocationStart(s)
  \/ \E n \in Notes : RevokeRow(s, n)
  \/ RemovalCommit(s)
  \/ GrantSelect(s)
  \/ GrantInsert(s)
  \/ GrantUpdate(s)
  \/ RevokeWrite(s)
  \/ AccessCommit(s)
  \/ RejectDuplicate(s)

\* A call arrives in the session s.
SessionBegin(s) ==
  \E actor, u \in Users :
    \/ \E m \in Meetings :
         \/ AddParticipantRead(s, actor, m, u)
         \/ \E to \in Status : MembershipRead(s, actor, m, u, to)
    \/ \E n \in Notes :
         \/ GrantAuthorize(s, actor, n, u)
         \/ RevokeRead(s, actor, n, u)

StoreNext ==
  \/ \E m \in Meetings : CreateMeeting(m)
  \/ \E n \in Notes, actor \in Users : AddConfidentialNote(n, actor)
  \/ \E s \in Sessions : SessionBegin(s) \/ SessionStep(s) \/ Rollback(s)

StoreSpec == StoreInit /\ [][StoreNext]_storeVars

-----------------------------------------------------------------------------
\* The organizer of a meeting is an ACTIVE participant of it at all times: no
\* interleaving of add_participant and update_participant_membership leaves
\* the host's row in another status.
OrganizerStaysActive == \A m \in meetings : Active(m, Organizer[m])

\* A row of confidential_note_access belongs to a committed note and to a user
\* who has a participant row in that note's meeting: grant_note_access never
\* reaches anyone else.
GrantsFollowParticipation ==
  \A n \in Notes, u \in Users :
    access[n][u] # "none" => n \in notes /\ participant[MeetingOf[n]][u] # NoRow

\* What a call relies on when it writes and does not ask again: the rows it
\* updates are there, the row it makes of the organizer is ACTIVE, and a grant is
\* for a committed note and a user who has been a participant.  (Not that he
\* still is: see NoGrantSurvivesRemoval.)
Grounded(t) ==
  /\ t.step \in {"add", "membership", "member", "removing", "revoking"} =>
       t.m \in meetings
  /\ t.step \in {"add", "member"} /\ t.seen # NoRow =>
       participant[t.m][t.u] # NoRow
  /\ t.step \in {"membership", "removing", "revoking"} =>
       participant[t.m][t.u] # NoRow /\ MayChangeTo(t.m, t.u, t.to)
  /\ t.step = "revoking" =>
       \A n \in t.todo \union t.revoked : access[n][t.u] # "none"
  /\ t.step \in {"authorized", "grant", "access"} =>
       t.n \in notes /\ participant[MeetingOf[t.n]][t.u] # NoRow
  /\ t.step \in {"grant", "access"} /\ t.seen # "none" => access[t.n][t.u] # "none"
  /\ t.step = "revoke" => access[t.n][t.u] # "none"

\* It stays so whatever other sessions commit in between.
PendingCallsAreGrounded == \A s \in Sessions : Grounded(txn[s])

\* A note is granted only to ACTIVE participants of its meeting: removing one
\* takes the grants with it.  The calls of one session at a time keep this.
NoGrantSurvivesRemoval ==
  \A n \in Notes, u \in Users :
    access[n][u] = "granted" => Active(MeetingOf[n], u)

\* removed_at is set exactly on the rows that are not ACTIVE, again when calls
\* do not overlap: add_participant and update_participant_membership write
\* both columns.
RemovedAtMatchesStatus ==
  \A m \in Meetings, u \in Users :
    participant[m][u] # NoRow => (participant[m][u].removed <=> ~Active(m, u))

\* A grant is lost by revoke_note_access on that very row, or together with
\* the membership that carried it: the bulk revocation of a removal touches no
\* other meeting's notes and no other user.
GrantLossIsExplained ==
  [][\A n \in Notes, u \in Users :
       access[n][u] = "granted" /\ access'[n][u] # "granted" =>
         \/ \E s \in Sessions : /\ txn[s].step = "access"
                               /\ txn[s].to = "revoked"
                               /\ HoldsGrant(s, n, u)
         \/ ~Active(MeetingOf[n], u)']_storeVars

\* The row that the next statement of s needs, or that its bulk UPDATE has not
\* reached yet, is held by another session r.
Waits(s, r) ==
  LET t == txn[s] IN
  /\ r # s
  /\ \/ t.step \in {"add", "membership"} /\ HoldsMember(r, t.m, t.u)
     \/ t.step = "revoking" /\ \E n \in t.todo : HoldsGrant(r, n, t.u)
     \/ t.step \in {"grant", "revoke"} /\ HoldsGrant(r, t.n, t.u)

\* Row locks never cross: no sessions wait for one another in a circle, though a
\* removal waits for grants one by one while it holds the participant's row and
\* the grants it has reached.
NoSessionsWaitInACircle ==
  \A D \in (SUBSET Sessions) \ {{}} : \E s \in D : \A r \in D : ~Waits(s, r)

\* Nothing comes back by accident: a participant who was removed is made ACTIVE,
\* and a grant that was revoked is granted again, only by a call that had read
\* the row in that state; a call that found no row or an ACTIVE one does not undo
\* what others have committed since.
RevivalIsDeliberate ==
  [][/\ \A m \in Meetings, u \in Users :
          participant[m][u].status \in Status \ {"active"} /\ Active(m, u)' =>
            \E s \in Sessions :
              /\ HoldsMember(s, m, u)
              /\ txn[s].seen.status \in Status \ {"active"}
     /\ \A n \in Notes, u \in Users :
          access[n][u] = "revoked" /\ access'[n][u] = "granted" =>
            \E s \in Sessions : HoldsGrant(s, n, u) /\ txn[s].seen = "revoked"]_storeVars

Dated(row) == row = NoRow \/ (row.removed <=> row.status # "active")

\* A row's status and removed_at fall apart only by two calls that overlap: the
\* one that writes had read another row than the one it finds.
MixingNeedsOverlap ==
  [][\A m \in Meetings, u \in Users :
       Dated(participant[m][u]) /\ ~Dated(participant'[m][u]) =>
         \E s \in Sessions :
           HoldsMember(s, m, u) /\ txn[s].seen # participant[m][u]]_storeVars
=============================================================================
