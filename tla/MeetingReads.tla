---------------------------- MODULE MeetingReads ----------------------------
(***************************************************************************)
(* MeetingReadService over the tables of MeetingStore: the requests that   *)
(* list meetings, show one, its transcript and its confidential notes,     *)
(* while calls of other sessions change the tables between their           *)
(* statements.                                                             *)
(*                                                                         *)
(* A request reads authorization facts, decides, runs a query scoped to    *)
(* the user, and (for notes) loads the grants of what the query returned   *)
(* in a further SELECT before the policy filters once more.  The audit row *)
(* is committed before the response leaves: if that fails there is none.   *)
(* The principal is active: get_current_user refuses any other.            *)
(***************************************************************************)
EXTENDS MeetingStore, AccessPolicies

CONSTANT Readers        \* requests in progress that only read

VARIABLES
  transcripts,  \* the meetings whose transcript is committed
  reader,       \* reader[r]: what the request has read, decided and returned
  entitled,     \* entitled[r]: what its user could read at some instant so far
  owed          \* owed[r]: what its user could read at every instant so far

readVars == <<reader, entitled, owed>>
vars == <<storeVars, transcripts, readVars>>

Kinds == {"list", "meeting", "transcript", "notes"}
OfMeeting == Kinds \ {"list"}
TranscriptOf(m) == <<"transcript", m>>
Items == Meetings \union Notes \union {TranscriptOf(m) : m \in Meetings}

\* What is released is told apart by its id.
ASSUME ReadsConstants ==
  /\ Meetings \intersect Notes = {}
  /\ \A m \in Meetings : TranscriptOf(m) \notin Meetings \union Notes

NoRequest == [step |-> "idle"]
Request ==
  {NoRequest}
    \union [step : {"start"}, kind : {"list"}, u : Users]
    \union [step : {"start"}, kind : OfMeeting, m : Meetings, u : Users]
    \union [step : {"facts"}, kind : OfMeeting, m : Meetings, u : Users,
            active : SUBSET Users]
    \union [step : {"exists"}, kind : {"transcript"}, m : Meetings, u : Users]
    \union [step : {"listed"}, kind : {"list"}, u : Users, rows : SUBSET Meetings]
    \union [step : {"rows"}, kind : {"notes"}, m : Meetings, u : Users,
            active : SUBSET Users, rows : SUBSET Notes]
    \union [step : {"released"}, kind : {"list"}, u : Users,
            items : SUBSET Items]
    \union [step : {"released"}, kind : OfMeeting, m : Meetings, u : Users,
            items : SUBSET Items]
    \union [step : {"denied"}, kind : OfMeeting, m : Meetings, u : Users]

ReadsTypeOK ==
  /\ transcripts \subseteq Meetings
  /\ reader \in [Readers -> Request]
  /\ entitled \in [Readers -> SUBSET Items]
  /\ owed \in [Readers -> SUBSET Items]

-----------------------------------------------------------------------------
ActiveUsers(m) == {u \in Users : Active(m, u)}
GrantedUsers(n) == {u \in Users : access[n][u] = "granted"}

\* What the tables, read at one instant, let the user u read.
MayReadMeeting(m, u) == m \in meetings /\ (u = Organizer[m] \/ Active(m, u))
MayReadNote(n, u) ==
  /\ n \in notes
  /\ Active(MeetingOf[n], u)
  /\ u = Organizer[MeetingOf[n]] \/ access[n][u] = "granted"
Entitlement(u) ==
  {m \in Meetings : MayReadMeeting(m, u)}
    \union {TranscriptOf(m) : m \in {x \in transcripts : MayReadMeeting(x, u)}}
    \union {n \in Notes : MayReadNote(n, u)}

\* The decision of can_list, and of can_view on a transcript, on facts.
ListReason(m, u, active) == CanListMeeting(u, TRUE, Organizer[m], active)

Answer(r, q) == reader' = [reader EXCEPT ![r] = q]
Released(q, kind, items) ==
  [step |-> "released", kind |-> kind, m |-> q.m, u |-> q.u, items |-> items]
Denied(q) == [step |-> "denied", kind |-> q.kind, m |-> q.m, u |-> q.u]

Arrive(r, u) ==
  /\ reader[r] = NoRequest
  /\ \/ Answer(r, [step |-> "start", kind |-> "list", u |-> u])
     \/ \E kind \in OfMeeting, m \in Meetings :
          Answer(r, [step |-> "start", kind |-> kind, m |-> m, u |-> u])

\* get_meeting and get_confidential_notes: the facts, the unknown meeting, the
\* first decision.  get_transcript does not decide yet.
ReadFacts(r) ==
  LET q == reader[r] IN
  /\ q.step = "start"
  /\ q.kind # "list"
  /\ IF /\ q.m \in meetings
        /\ q.kind = "transcript" \/ Allows(ListReason(q.m, q.u, ActiveUsers(q.m)))
     THEN Answer(r, [step |-> "facts", kind |-> q.kind, m |-> q.m, u |-> q.u,
                     active |-> ActiveUsers(q.m)])
     ELSE Answer(r, Denied(q))

\* get_meeting_by_id: the query repeats the condition on the tables as they are
\* now; no row is "repository_scope_denied".
QueryMeeting(r) ==
  LET q == reader[r] IN
  /\ q.step = "facts"
  /\ q.kind = "meeting"
  /\ IF MayReadMeeting(q.m, q.u)
     THEN Answer(r, Released(q, "meeting", {q.m}))
     ELSE Answer(r, Denied(q))

\* transcript_exists; then can_view, on the facts of the first statement.
TranscriptExists(r) ==
  LET q == reader[r] IN
  /\ q.step = "facts"
  /\ q.kind = "transcript"
  /\ IF q.m \in transcripts /\ Allows(ListReason(q.m, q.u, q.active))
     THEN Answer(r, [step |-> "exists", kind |-> "transcript", m |-> q.m, u |-> q.u])
     ELSE Answer(r, Denied(q))

\* repository.get_transcript: the join asks for an ACTIVE row, the organizer's
\* too; without one there is "repository_scope_denied".
QueryTranscript(r) ==
  LET q == reader[r] IN
  /\ q.step = "exists"
  /\ IF q.m \in transcripts /\ Active(q.m, q.u)
     THEN Answer(r, Released(q, "transcript", {TranscriptOf(q.m)}))
     ELSE Answer(r, Denied(q))

\* Slips: the ACTIVE condition is left to the facts; the organizer's branch of
\* the condition is dropped.
NoteRowsOfGrant(m, u) ==
  {n \in NotesOf(m) : u = Organizer[m] \/ access[n][u] = "granted"}
NoteRowsGrantedOnly(m, u) ==
  {n \in NotesOf(m) : Active(m, u) /\ access[n][u] = "granted"}

\* repository.get_confidential_notes: the rows its query returns.
NoteRows(m, u) == {n \in NotesOf(m) : MayReadNote(n, u)}

QueryNotes(r) ==
  LET q == reader[r] IN
  /\ q.step = "facts"
  /\ q.kind = "notes"
  /\ Answer(r, [step |-> "rows", kind |-> "notes", m |-> q.m, u |-> q.u,
                active |-> q.active, rows |-> NoteRows(q.m, q.u)])

\* The service's filter: the facts of the first statement, the grants of the
\* last.
NoteReason(n, q) ==
  CanViewNote(q.u, TRUE, Organizer[q.m], q.active, q.m, MeetingOf[n], FALSE,
              GrantedUsers(n))

FilterNotes(r) ==
  LET q == reader[r] IN
  /\ q.step = "rows"
  /\ Answer(r, Released(q, "notes",
                        {n \in q.rows : Allows(NoteReason(n, q))}))

\* list_meetings_by_user: one query for the meetings, one for the ACTIVE
\* participants of those, and the policy on what the second returned.
QueryList(r) ==
  LET q == reader[r] IN
  /\ q.step = "start"
  /\ q.kind = "list"
  /\ Answer(r, [step |-> "listed", kind |-> "list", u |-> q.u,
                rows |-> {m \in meetings : MayReadMeeting(m, q.u)}])

FilterList(r) ==
  LET q == reader[r] IN
  /\ q.step = "listed"
  /\ Answer(r, [step |-> "released", kind |-> "list", u |-> q.u,
                items |-> {m \in q.rows :
                             Allows(ListReason(m, q.u, ActiveUsers(m)))}])

\* The response is sent, or an error replaces it: the request is over.
Finish(r) == reader[r] # NoRequest /\ Answer(r, NoRequest)

-----------------------------------------------------------------------------
ReaderStep(r) ==
  \/ ReadFacts(r)
  \/ QueryMeeting(r)
  \/ TranscriptExists(r)
  \/ QueryTranscript(r)
  \/ QueryNotes(r)
  \/ FilterNotes(r)
  \/ QueryList(r)
  \/ FilterList(r)

ReadNext ==
  \E r \in Readers :
    \/ \E u \in Users : Arrive(r, u)
    \/ ReaderStep(r)
    \/ Finish(r)

\* A transcript is stored, once, by TranscriptCreation's last step on the table.
StoreTranscript(m) ==
  /\ m \in meetings \ transcripts
  /\ transcripts' = transcripts \union {m}

\* What each request's user may read now.
Current ==
  [r \in Readers |->
     IF reader[r] = NoRequest THEN {} ELSE Entitlement(reader[r].u)]

\* History: the union and the intersection of Current over a request's life.
Observe ==
  /\ entitled' = [r \in Readers |->
                    IF reader'[r] = NoRequest THEN {}
                    ELSE entitled[r] \union Current'[r]]
  /\ owed' = [r \in Readers |->
                IF reader[r] = NoRequest THEN Current'[r]
                ELSE owed[r] \intersect Current'[r]]

Init ==
  /\ StoreInit
  /\ transcripts = {}
  /\ reader = [r \in Readers |-> NoRequest]
  /\ entitled = [r \in Readers |-> {}]
  /\ owed = [r \in Readers |-> {}]

Next ==
  /\ \/ StoreNext /\ UNCHANGED <<transcripts, reader>>
     \/ (\E m \in Meetings : StoreTranscript(m)) /\ UNCHANGED <<storeVars, reader>>
     \/ ReadNext /\ UNCHANGED <<storeVars, transcripts>>
  /\ Observe

Spec == Init /\ [][Next]_vars

-----------------------------------------------------------------------------
\* A response holds only what its user could read, in one reading of the
\* tables, at some instant between the request's arrival and its response:
\* facts that have gone stale between the statements of MeetingReadService
\* never release a note, a transcript or a meeting, nor does a grant that outlived a removal.
ReleaseIsJustified ==
  \A r \in Readers :
    reader[r].step = "released" => reader[r].items \subseteq entitled[r]

\* What the user could read during the whole of the request is in the response:
\* the repeated checks refuse nobody whose access did not change, and the
\* organizer is never refused a meeting, its transcript or one of its notes.
ReleaseIsComplete ==
  \A r \in Readers :
    LET q == reader[r] IN
    /\ q.step = "denied" =>
         (IF q.kind = "transcript" THEN TranscriptOf(q.m) ELSE q.m) \notin owed[r]
    /\ q.step = "released" =>
         CASE q.kind = "list" -> owed[r] \intersect Meetings \subseteq q.items
           [] q.kind = "meeting" -> owed[r] \intersect {q.m} \subseteq q.items
           [] q.kind = "transcript" ->
                owed[r] \intersect {TranscriptOf(q.m)} \subseteq q.items
           [] q.kind = "notes" ->
                {n \in owed[r] \intersect Notes : MeetingOf[n] = q.m}
                  \subseteq q.items
=============================================================================
