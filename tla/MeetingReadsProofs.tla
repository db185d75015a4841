------------------------- MODULE MeetingReadsProofs -------------------------
(***************************************************************************)
(* What MeetingReads keeps for any sets of users, meetings, notes, sessions*)
(* and requests.                                                           *)
(*                                                                         *)
(* A response is judged by two histories: what its user could read at some *)
(* instant of the request, and what at every instant.  Sound says what each*)
(* step of a request owes to them; it speaks of no table, so what other    *)
(* sessions commit can only enlarge the first history and shrink the       *)
(* second, and keeps it.  That the organizer always has an ACTIVE row,     *)
(* which the transcript's query relies on, is the store's invariant.       *)
(***************************************************************************)
EXTENDS MeetingReads, MeetingStoreProofs

\* The notes of m among the items o.
NotesIn(o, m) == {n \in Notes : n \in o /\ MeetingOf[n] = m}

(***************************************************************************)
(* What the request q owes to the items e its user could read at some      *)
(* instant, and o at every instant.                                        *)
(***************************************************************************)
FactsSound(q, o) ==
  q.step = "facts" =>
    /\ NotesIn(o, q.m) # {} => q.u \in q.active
    /\ TranscriptOf(q.m) \in o => q.u = Organizer[q.m] \/ q.u \in q.active

RowsSound(q, e, o) ==
  /\ q.step = "listed" => q.rows \subseteq e /\ o \intersect Meetings \subseteq q.rows
  /\ q.step = "rows" =>
       /\ q.rows \subseteq e
       /\ \A n \in q.rows : MeetingOf[n] = q.m
       /\ NotesIn(o, q.m) \subseteq q.rows
       /\ NotesIn(o, q.m) # {} => q.u \in q.active

ReleaseSound(q, e, o) ==
  /\ q.step = "released" => q.items \subseteq e
  /\ q.step = "released" /\ q.kind = "list" => o \intersect Meetings \subseteq q.items
  /\ q.step = "released" /\ q.kind = "meeting" => (q.m \in o => q.m \in q.items)
  /\ q.step = "released" /\ q.kind = "transcript" =>
       (TranscriptOf(q.m) \in o => TranscriptOf(q.m) \in q.items)
  /\ q.step = "released" /\ q.kind = "notes" => NotesIn(o, q.m) \subseteq q.items

DenialSound(q, o) ==
  q.step = "denied" =>
    IF q.kind = "transcript" THEN TranscriptOf(q.m) \notin o ELSE q.m \notin o

Sound(q, e, o) ==
  FactsSound(q, o) /\ RowsSound(q, e, o) /\ ReleaseSound(q, e, o) /\ DenialSound(q, o)

ReadsInv ==
  /\ StoreInv
  /\ ReadsTypeOK
  /\ transcripts \subseteq meetings
  /\ \A r \in Readers : Sound(reader[r], entitled[r], owed[r])

(***************************************************************************)
(* The fields of a request, by its step.                                   *)
(***************************************************************************)
LEMMA RequestFields ==
  ASSUME NEW q \in Request
  PROVE  /\ q.step \in {"idle", "start", "facts", "exists", "listed", "rows",
                        "released", "denied"}
         /\ q.step = "idle" <=> q = NoRequest
         /\ q # NoRequest => q.u \in Users /\ q.kind \in Kinds
         /\ q # NoRequest /\ q.kind # "list" => q.m \in Meetings
         /\ q.step \in {"facts", "exists", "rows", "denied"} => q.kind # "list"
         /\ q.step = "rows" => q.kind = "notes" /\ q.rows \subseteq Notes
         /\ q.step \in {"facts", "rows"} => q.active \subseteq Users
         /\ q.step = "exists" => q.kind = "transcript"
         /\ q.step = "listed" => q.kind = "list" /\ q.rows \subseteq Meetings
         /\ q.step = "released" => q.items \subseteq Items
BY DEF Request, NoRequest, Kinds, OfMeeting

\* What a longer life of the request leaves of its histories is sound too.
LEMMA SoundStays ==
  ASSUME NEW q, NEW e, NEW o, Sound(q, e, o), NEW f, e \subseteq f,
         NEW p, p \subseteq o
  PROVE  Sound(q, f, p)
<1>1. FactsSound(q, p) /\ DenialSound(q, p)
  BY DEF Sound, FactsSound, DenialSound, NotesIn
<1>2. RowsSound(q, f, p)
  BY DEF Sound, RowsSound, NotesIn
<1>3. ReleaseSound(q, f, p)
  BY DEF Sound, ReleaseSound, NotesIn
<1> QED BY <1>1, <1>2, <1>3 DEF Sound

\* A request that has not begun owes nothing.
LEMMA IdleIsSound ==
  ASSUME NEW e, NEW o
  PROVE  Sound(NoRequest, e, o)
BY DEF NoRequest, Sound, FactsSound, RowsSound, ReleaseSound, DenialSound

\* What a user may read are items.
LEMMA EntitlementIsItems ==
  ASSUME NEW u, transcripts \subseteq Meetings
  PROVE  Entitlement(u) \subseteq Items
BY DEF Entitlement, Items, MayReadMeeting

\* The parts of what a user may read: meetings, transcripts and notes are told
\* apart.
LEMMA EntitlementParts ==
  ASSUME NEW u, transcripts \subseteq Meetings
  PROVE  /\ \A m \in Meetings : m \in Entitlement(u) <=> MayReadMeeting(m, u)
         /\ \A n \in Notes : n \in Entitlement(u) <=> MayReadNote(n, u)
         /\ \A m \in Meetings :
              TranscriptOf(m) \in Entitlement(u)
                <=> m \in transcripts /\ MayReadMeeting(m, u)
<1>1. \A m, k : TranscriptOf(m) = TranscriptOf(k) => m = k
  BY DEF TranscriptOf
<1> QED BY <1>1, ReadsConstants DEF Entitlement

\* The histories are sets of items, before and after a step.
LEMMA HistoryType ==
  ASSUME ReadsTypeOK, StoreTypeOK', transcripts' \subseteq meetings', Observe
  PROVE  /\ entitled' \in [Readers -> SUBSET Items]
         /\ owed' \in [Readers -> SUBSET Items]
<1>1. \A r \in Readers : Current'[r] \subseteq Items
  <2>1. \A u : Entitlement(u)' \subseteq Items
    BY EntitlementIsItems DEF StoreTypeOK, Entitlement, Items, MayReadMeeting
  <2> QED BY <2>1 DEF Current
<1> QED BY <1>1 DEF ReadsTypeOK, Observe

\* Whatever is committed by others, a request that does not move stays sound.
LEMMA OthersStaySound ==
  ASSUME ReadsInv, Observe, NEW r \in Readers, reader'[r] = reader[r]
  PROVE  Sound(reader[r], entitled[r], owed[r])'
<1>1. CASE reader[r] = NoRequest
  BY <1>1, IdleIsSound
<1>2. CASE reader[r] # NoRequest
  <2>1. entitled[r] \subseteq entitled'[r] /\ owed'[r] \subseteq owed[r]
    BY <1>2 DEF Observe
  <2>2. Sound(reader[r], entitled[r], owed[r])
    BY DEF ReadsInv
  <2> QED BY <2>1, <2>2, SoundStays
<1> QED BY <1>1, <1>2

\* The store's steps, and the storing of a transcript.
LEMMA TablesKeepInv ==
  ASSUME ReadsInv, StoreInv', transcripts' \subseteq meetings', UNCHANGED reader,
         Observe
  PROVE  ReadsInv'
<1>1. ReadsTypeOK'
  <2>1. StoreTypeOK'
    BY DEF StoreInv
  <2> QED BY <2>1, HistoryType DEF ReadsInv, ReadsTypeOK, StoreTypeOK
<1>2. ASSUME NEW r \in Readers PROVE Sound(reader[r], entitled[r], owed[r])'
  BY OthersStaySound
<1> QED BY <1>1, <1>2 DEF ReadsInv

\* A step of the request r: the other requests and the tables stay as they are.
LEMMA AnswerKeepsInv ==
  ASSUME ReadsInv, NEW r \in Readers, NEW p \in Request, Answer(r, p), Observe,
         UNCHANGED <<storeVars, transcripts>>,
         Sound(p, entitled'[r], owed'[r])
  PROVE  ReadsInv'
<1>1. reader' = [reader EXCEPT ![r] = p] /\ reader \in [Readers -> Request]
  BY DEF Answer, ReadsInv, ReadsTypeOK
<1>2. StoreInv' /\ transcripts' \subseteq meetings'
  <2>1. [StoreNext]_storeVars
    OBVIOUS
  <2> QED BY <2>1, StoreNextInv DEF ReadsInv, storeVars
<1>3. ReadsTypeOK'
  <2>1. StoreTypeOK'
    BY <1>2 DEF StoreInv
  <2> QED BY <1>1, <1>2, <2>1, HistoryType DEF ReadsInv, ReadsTypeOK, StoreTypeOK
<1>4. ASSUME NEW k \in Readers PROVE Sound(reader[k], entitled[k], owed[k])'
  <2>1. CASE k = r
    BY <1>1, <2>1
  <2>2. CASE k # r
    BY <1>1, <2>2, OthersStaySound
  <2> QED BY <2>1, <2>2
<1> QED BY <1>2, <1>3, <1>4 DEF ReadsInv

\* A step of a request in progress: its user's present entitlement enters its
\* histories.
LEMMA ServeKeepsInv ==
  ASSUME ReadsInv, NEW r \in Readers, NEW p \in Request, Answer(r, p), Observe,
         UNCHANGED <<storeVars, transcripts>>,
         reader[r] # NoRequest, p # NoRequest, p.u = reader[r].u,
         Sound(p, entitled[r] \union Entitlement(p.u),
               owed[r] \intersect Entitlement(p.u))
  PROVE  ReadsInv'
<1>1. reader'[r] = p
  BY DEF Answer, ReadsInv, ReadsTypeOK
<1>2. Entitlement(p.u)' = Entitlement(p.u)
  BY DEF Entitlement, MayReadMeeting, MayReadNote, Active, storeVars
<1>3. Current'[r] = Entitlement(p.u)
  BY <1>1, <1>2 DEF Current
<1>4. /\ entitled'[r] = entitled[r] \union Entitlement(p.u)
      /\ owed'[r] = owed[r] \intersect Entitlement(p.u)
  BY <1>1, <1>3 DEF Observe
<1> QED BY <1>4, AnswerKeepsInv

-----------------------------------------------------------------------------
\* The facts a request in progress starts from, and what it may be due.
LEMMA InProgress ==
  ASSUME ReadsInv, NEW r \in Readers, reader[r] # NoRequest
  PROVE  /\ reader[r] \in Request
         /\ Sound(reader[r], entitled[r], owed[r])
         /\ transcripts \subseteq Meetings
         /\ Organizer \in [Meetings -> Users]
         /\ entitled[r] \subseteq Items /\ owed[r] \subseteq Items
BY StoreConstants DEF ReadsInv, ReadsTypeOK, StoreInv, StoreTypeOK

\* A request arrives.
LEMMA ArriveKeepsInv ==
  ASSUME ReadsInv, NEW r \in Readers, NEW u \in Users, Arrive(r, u), Observe,
         UNCHANGED <<storeVars, transcripts>>
  PROVE  ReadsInv'
<1>1. CASE Answer(r, [step |-> "start", kind |-> "list", u |-> u])
  <2> DEFINE p == [step |-> "start", kind |-> "list", u |-> u]
  <2>1. p \in Request
    BY DEF Request
  <2>2. \A e, o : Sound(p, e, o)
    BY DEF Sound, FactsSound, RowsSound, ReleaseSound, DenialSound
  <2> QED BY <1>1, <2>1, <2>2, AnswerKeepsInv
<1>2. ASSUME NEW kind \in OfMeeting, NEW m \in Meetings,
             Answer(r, [step |-> "start", kind |-> kind, m |-> m, u |-> u])
      PROVE  ReadsInv'
  <2> DEFINE p == [step |-> "start", kind |-> kind, m |-> m, u |-> u]
  <2>1. p \in Request
    BY DEF Request
  <2>2. \A e, o : Sound(p, e, o)
    BY DEF Sound, FactsSound, RowsSound, ReleaseSound, DenialSound
  <2> QED BY <1>2, <2>1, <2>2, AnswerKeepsInv
<1> QED BY <1>1, <1>2 DEF Arrive

\* A request is over.
LEMMA FinishKeepsInv ==
  ASSUME ReadsInv, NEW r \in Readers, Finish(r), Observe,
         UNCHANGED <<storeVars, transcripts>>
  PROVE  ReadsInv'
<1>1. NoRequest \in Request
  BY DEF Request
<1> QED BY <1>1, IdleIsSound, AnswerKeepsInv DEF Finish

\* A refusal is sound when what was asked for is not in the second history.
LEMMA DenialIsSound ==
  ASSUME ReadsInv, NEW r \in Readers, reader[r] # NoRequest,
         reader[r].kind # "list", Answer(r, Denied(reader[r])), Observe,
         UNCHANGED <<storeVars, transcripts>>,
         (IF reader[r].kind = "transcript" THEN TranscriptOf(reader[r].m)
          ELSE reader[r].m)
           \notin owed[r] \intersect Entitlement(reader[r].u)
  PROVE  ReadsInv'
<1> DEFINE q == reader[r]
           p == Denied(q)
<1>1. q \in Request /\ q.u \in Users /\ q.kind \in OfMeeting /\ q.m \in Meetings
  BY InProgress, RequestFields DEF Kinds, OfMeeting
<1>2. p \in Request /\ p # NoRequest /\ p.u = q.u
  BY <1>1 DEF Denied, Request, NoRequest
<1>3. Sound(p, entitled[r] \union Entitlement(p.u), owed[r] \intersect Entitlement(p.u))
  BY <1>2 DEF Denied, Sound, FactsSound, RowsSound, ReleaseSound, DenialSound
<1> QED BY <1>2, <1>3, ServeKeepsInv

\* The first SELECT: what it saw bounds what the request can still owe.
LEMMA ReadFactsKeepsInv ==
  ASSUME ReadsInv, NEW r \in Readers, ReadFacts(r), Observe,
         UNCHANGED <<storeVars, transcripts>>
  PROVE  ReadsInv'
<1> DEFINE q == reader[r]
           p == [step |-> "facts", kind |-> q.kind, m |-> q.m, u |-> q.u,
                 active |-> ActiveUsers(q.m)]
           o == owed[r] \intersect Entitlement(q.u)
<1>1. q # NoRequest /\ q.kind # "list"
  BY DEF ReadFacts, NoRequest
<1>2. /\ q \in Request /\ q.u \in Users /\ q.kind \in OfMeeting /\ q.m \in Meetings
      /\ transcripts \subseteq Meetings
  BY <1>1, InProgress, RequestFields DEF Kinds, OfMeeting
<1>3. CASE /\ q.m \in meetings
           /\ q.kind = "transcript" \/ Allows(ListReason(q.m, q.u, ActiveUsers(q.m)))
  <2>1. Answer(r, p)
    BY <1>3 DEF ReadFacts
  <2>2. p \in Request /\ p # NoRequest /\ p.u = q.u
    BY <1>2 DEF Request, NoRequest, ActiveUsers
  <2>3. q.u \in ActiveUsers(q.m) <=> Active(q.m, q.u)
    BY <1>2 DEF ActiveUsers
  <2>4. NotesIn(o, q.m) # {} => Active(q.m, q.u)
    BY <1>2, EntitlementParts DEF NotesIn, MayReadNote
  <2>5. TranscriptOf(q.m) \in o => q.u = Organizer[q.m] \/ Active(q.m, q.u)
    BY <1>2, EntitlementParts DEF MayReadMeeting
  <2>6. FactsSound(p, o)
    BY <2>3, <2>4, <2>5 DEF FactsSound
  <2>7. Sound(p, entitled[r] \union Entitlement(p.u), o)
    BY <2>6 DEF Sound, RowsSound, ReleaseSound, DenialSound
  <2> QED BY <1>1, <2>1, <2>2, <2>7, ServeKeepsInv
<1>4. CASE ~ /\ q.m \in meetings
             /\ q.kind = "transcript"
                  \/ Allows(ListReason(q.m, q.u, ActiveUsers(q.m)))
  <2>1. Answer(r, Denied(q))
    BY <1>4 DEF ReadFacts
  <2>2. MayReadMeeting(q.m, q.u) => Allows(ListReason(q.m, q.u, ActiveUsers(q.m)))
    BY <1>2 DEF MayReadMeeting, ActiveUsers, ListReason, CanListMeeting, Allows,
                AllowReasons
  <2>3. CASE q.kind = "transcript"
    BY <1>1, <1>2, <1>4, <2>1, <2>3, EntitlementParts, DenialIsSound
    DEF MayReadMeeting
  <2>4. CASE q.kind # "transcript"
    BY <1>1, <1>2, <1>4, <2>1, <2>2, <2>4, EntitlementParts, DenialIsSound
    DEF MayReadMeeting
  <2> QED BY <2>3, <2>4
<1> QED BY <1>3, <1>4

\* get_meeting: the second SELECT decides by itself.
LEMMA QueryMeetingKeepsInv ==
  ASSUME ReadsInv, NEW r \in Readers, QueryMeeting(r), Observe,
         UNCHANGED <<storeVars, transcripts>>
  PROVE  ReadsInv'
<1> DEFINE q == reader[r]
           p == Released(q, "meeting", {q.m})
<1>1. q # NoRequest /\ q.kind = "meeting"
  BY DEF QueryMeeting, NoRequest
<1>2. /\ q \in Request /\ q.u \in Users /\ q.m \in Meetings
      /\ transcripts \subseteq Meetings
  BY <1>1, InProgress, RequestFields
<1>3. CASE MayReadMeeting(q.m, q.u)
  <2>1. Answer(r, p)
    BY <1>3 DEF QueryMeeting
  <2>2. p \in Request /\ p # NoRequest /\ p.u = q.u
    BY <1>2 DEF Released, Request, NoRequest, OfMeeting, Kinds, Items
  <2>3. q.m \in Entitlement(q.u)
    BY <1>2, <1>3, EntitlementParts
  <2>4. Sound(p, entitled[r] \union Entitlement(p.u),
              owed[r] \intersect Entitlement(p.u))
    BY <2>2, <2>3
    DEF Released, Sound, FactsSound, RowsSound, ReleaseSound, DenialSound
  <2> QED BY <1>1, <2>1, <2>2, <2>4, ServeKeepsInv
<1>4. CASE ~MayReadMeeting(q.m, q.u)
  <2>1. Answer(r, Denied(q))
    BY <1>4 DEF QueryMeeting
  <2> QED BY <1>1, <1>2, <1>4, <2>1, EntitlementParts, DenialIsSound
<1> QED BY <1>3, <1>4

\* get_transcript: the table is asked and the first facts decide.
LEMMA TranscriptExistsKeepsInv ==
  ASSUME ReadsInv, NEW r \in Readers, TranscriptExists(r), Observe,
         UNCHANGED <<storeVars, transcripts>>
  PROVE  ReadsInv'
<1> DEFINE q == reader[r]
           p == [step |-> "exists", kind |-> "transcript", m |-> q.m, u |-> q.u]
<1>1. q # NoRequest /\ q.step = "facts" /\ q.kind = "transcript"
  BY DEF TranscriptExists, NoRequest
<1>2. /\ q \in Request /\ q.u \in Users /\ q.m \in Meetings
      /\ transcripts \subseteq Meetings
      /\ Sound(q, entitled[r], owed[r])
  BY <1>1, InProgress, RequestFields
<1>3. CASE q.m \in transcripts /\ Allows(ListReason(q.m, q.u, q.active))
  <2>1. Answer(r, p)
    BY <1>3 DEF TranscriptExists
  <2>2. p \in Request /\ p # NoRequest /\ p.u = q.u
    BY <1>2 DEF Request, NoRequest
  <2>3. \A e, o : Sound(p, e, o)
    BY DEF Sound, FactsSound, RowsSound, ReleaseSound, DenialSound
  <2> QED BY <1>1, <2>1, <2>2, <2>3, ServeKeepsInv
<1>4. CASE ~(q.m \in transcripts /\ Allows(ListReason(q.m, q.u, q.active)))
  <2>1. Answer(r, Denied(q))
    BY <1>4 DEF TranscriptExists
  <2>2. TranscriptOf(q.m) \in owed[r] => Allows(ListReason(q.m, q.u, q.active))
    BY <1>1, <1>2
    DEF Sound, FactsSound, ListReason, CanListMeeting, Allows, AllowReasons
  <2>3. TranscriptOf(q.m) \notin owed[r] \intersect Entitlement(q.u)
    BY <1>2, <1>4, <2>2, EntitlementParts
  <2> QED BY <1>1, <2>1, <2>3, DenialIsSound
<1> QED BY <1>3, <1>4

\* get_transcript, the scoped query: it asks the organizer for an ACTIVE row as it
\* does a guest, and the organizer has one.
LEMMA QueryTranscriptKeepsInv ==
  ASSUME ReadsInv, NEW r \in Readers, QueryTranscript(r), Observe,
         UNCHANGED <<storeVars, transcripts>>
  PROVE  ReadsInv'
<1> DEFINE q == reader[r]
           p == Released(q, "transcript", {TranscriptOf(q.m)})
<1>1. q # NoRequest /\ q.step = "exists"
  BY DEF QueryTranscript, NoRequest
<1>2. /\ q \in Request /\ q.u \in Users /\ q.m \in Meetings
      /\ q.kind = "transcript"
      /\ transcripts \subseteq Meetings
  BY <1>1, InProgress, RequestFields
<1>3. /\ transcripts \subseteq meetings
      /\ \A m \in meetings : Active(m, Organizer[m])
  BY DEF ReadsInv, StoreInv, OrganizerStaysActive
<1>4. CASE q.m \in transcripts /\ Active(q.m, q.u)
  <2>1. Answer(r, p)
    BY <1>4 DEF QueryTranscript
  <2>2. p \in Request /\ p # NoRequest /\ p.u = q.u
    BY <1>2 DEF Released, Request, NoRequest, OfMeeting, Kinds, Items
  <2>3. TranscriptOf(q.m) \in Entitlement(q.u)
    BY <1>2, <1>3, <1>4, EntitlementParts DEF MayReadMeeting
  <2>4. Sound(p, entitled[r] \union Entitlement(p.u),
              owed[r] \intersect Entitlement(p.u))
    BY <2>2, <2>3
    DEF Released, Sound, FactsSound, RowsSound, ReleaseSound, DenialSound
  <2> QED BY <1>1, <2>1, <2>2, <2>4, ServeKeepsInv
<1>5. CASE ~(q.m \in transcripts /\ Active(q.m, q.u))
  <2>1. Answer(r, Denied(q))
    BY <1>5 DEF QueryTranscript
  <2>2. TranscriptOf(q.m) \notin Entitlement(q.u)
    BY <1>2, <1>3, <1>5, EntitlementParts DEF MayReadMeeting
  <2> QED BY <1>1, <1>2, <2>1, <2>2, DenialIsSound
<1> QED BY <1>4, <1>5

\* get_confidential_notes, the scoped query.
LEMMA QueryNotesKeepsInv ==
  ASSUME ReadsInv, NEW r \in Readers, QueryNotes(r), Observe,
         UNCHANGED <<storeVars, transcripts>>
  PROVE  ReadsInv'
<1> DEFINE q == reader[r]
           p == [step |-> "rows", kind |-> "notes", m |-> q.m, u |-> q.u,
                 active |-> q.active, rows |-> NoteRows(q.m, q.u)]
           o == owed[r] \intersect Entitlement(q.u)
<1>1. q # NoRequest /\ q.step = "facts" /\ q.kind = "notes" /\ Answer(r, p)
  BY DEF QueryNotes, NoRequest
<1>2. /\ q \in Request /\ q.u \in Users /\ q.m \in Meetings
      /\ q.active \subseteq Users
      /\ transcripts \subseteq Meetings /\ notes \subseteq Notes
      /\ Sound(q, entitled[r], owed[r])
  BY <1>1, InProgress, RequestFields DEF ReadsInv, StoreInv, StoreTypeOK
<1>3. p \in Request /\ p # NoRequest /\ p.u = q.u
  BY <1>2 DEF Request, NoRequest, NoteRows, NotesOf
<1>4. NoteRows(q.m, q.u) \subseteq Entitlement(q.u)
  BY <1>2, EntitlementParts DEF NoteRows, NotesOf
<1>5. NotesIn(o, q.m) \subseteq NoteRows(q.m, q.u)
  BY <1>2, EntitlementParts DEF NotesIn, NoteRows, NotesOf, MayReadNote
<1>6. NotesIn(o, q.m) # {} => q.u \in q.active
  BY <1>1, <1>2 DEF Sound, FactsSound, NotesIn
<1>7. \A n \in NoteRows(q.m, q.u) : MeetingOf[n] = q.m
  BY DEF NoteRows, NotesOf
<1>8. RowsSound(p, entitled[r] \union Entitlement(p.u), o)
  BY <1>4, <1>5, <1>6, <1>7 DEF RowsSound
<1>9. Sound(p, entitled[r] \union Entitlement(p.u), o)
  BY <1>8 DEF Sound, FactsSound, ReleaseSound, DenialSound
<1> QED BY <1>1, <1>3, <1>9, ServeKeepsInv

\* get_confidential_notes, the filter: facts of the first SELECT, grants of the
\* last, and it drops no note its user could read throughout.
LEMMA FilterNotesKeepsInv ==
  ASSUME ReadsInv, NEW r \in Readers, FilterNotes(r), Observe,
         UNCHANGED <<storeVars, transcripts>>
  PROVE  ReadsInv'
<1> DEFINE q == reader[r]
           items == {n \in q.rows : Allows(NoteReason(n, q))}
           p == Released(q, "notes", items)
           o == owed[r] \intersect Entitlement(q.u)
<1>1. q # NoRequest /\ q.step = "rows" /\ Answer(r, p)
  BY DEF FilterNotes, NoRequest
<1>2. /\ q \in Request /\ q.u \in Users /\ q.m \in Meetings
      /\ q.rows \subseteq Notes
      /\ transcripts \subseteq Meetings
      /\ Sound(q, entitled[r], owed[r])
  BY <1>1, InProgress, RequestFields
<1>3. p \in Request /\ p # NoRequest /\ p.u = q.u
  BY <1>2 DEF Released, Request, NoRequest, OfMeeting, Kinds, Items
<1>4. items \subseteq entitled[r]
  BY <1>1, <1>2 DEF Sound, RowsSound
<1>5. ASSUME NEW n \in NotesIn(o, q.m) PROVE n \in items
  <2>1. n \in q.rows /\ q.u \in q.active /\ MeetingOf[n] = q.m /\ n \in Notes
    BY <1>1, <1>2, <1>5 DEF Sound, RowsSound, NotesIn
  <2>2. q.u = Organizer[q.m] \/ q.u \in GrantedUsers(n)
    BY <1>2, <1>5, <2>1, EntitlementParts DEF NotesIn, MayReadNote, GrantedUsers
  <2>3. Allows(NoteReason(n, q))
    BY <2>1, <2>2 DEF NoteReason, CanViewNote, Allows, AllowReasons
  <2> QED BY <2>1, <2>3
<1>6. Sound(p, entitled[r] \union Entitlement(p.u), o)
  BY <1>4, <1>5
  DEF Released, Sound, FactsSound, RowsSound, ReleaseSound, DenialSound
<1> QED BY <1>1, <1>3, <1>6, ServeKeepsInv

\* list_meetings, the scoped query.
LEMMA QueryListKeepsInv ==
  ASSUME ReadsInv, NEW r \in Readers, QueryList(r), Observe,
         UNCHANGED <<storeVars, transcripts>>
  PROVE  ReadsInv'
<1> DEFINE q == reader[r]
           rows == {m \in meetings : MayReadMeeting(m, q.u)}
           p == [step |-> "listed", kind |-> "list", u |-> q.u, rows |-> rows]
           o == owed[r] \intersect Entitlement(q.u)
<1>1. q # NoRequest /\ q.kind = "list" /\ Answer(r, p)
  BY DEF QueryList, NoRequest
<1>2. /\ q \in Request /\ q.u \in Users
      /\ transcripts \subseteq Meetings /\ meetings \subseteq Meetings
  BY <1>1, InProgress, RequestFields DEF ReadsInv, StoreInv, StoreTypeOK
<1>3. p \in Request /\ p # NoRequest /\ p.u = q.u
  BY <1>2 DEF Request, NoRequest
<1>4. rows \subseteq Entitlement(q.u) /\ o \intersect Meetings \subseteq rows
  BY <1>2, EntitlementParts DEF MayReadMeeting
<1>5. Sound(p, entitled[r] \union Entitlement(p.u), o)
  BY <1>4 DEF Sound, FactsSound, RowsSound, ReleaseSound, DenialSound
<1> QED BY <1>1, <1>3, <1>5, ServeKeepsInv

\* list_meetings, the filter: it drops no meeting its user could read throughout.
LEMMA FilterListKeepsInv ==
  ASSUME ReadsInv, NEW r \in Readers, FilterList(r), Observe,
         UNCHANGED <<storeVars, transcripts>>
  PROVE  ReadsInv'
<1> DEFINE q == reader[r]
           items == {m \in q.rows : Allows(ListReason(m, q.u, ActiveUsers(m)))}
           p == [step |-> "released", kind |-> "list", u |-> q.u, items |-> items]
           o == owed[r] \intersect Entitlement(q.u)
<1>1. q # NoRequest /\ q.step = "listed" /\ Answer(r, p)
  BY DEF FilterList, NoRequest
<1>2. /\ q \in Request /\ q.u \in Users /\ q.rows \subseteq Meetings
      /\ transcripts \subseteq Meetings
      /\ Sound(q, entitled[r], owed[r])
  BY <1>1, InProgress, RequestFields
<1>3. p \in Request /\ p # NoRequest /\ p.u = q.u
  BY <1>2 DEF Request, NoRequest, Items
<1>4. items \subseteq entitled[r]
  BY <1>1, <1>2 DEF Sound, RowsSound
<1>5. ASSUME NEW m \in o \intersect Meetings PROVE m \in items
  <2>1. m \in q.rows
    BY <1>1, <1>2 DEF Sound, RowsSound
  <2>2. q.u = Organizer[m] \/ q.u \in ActiveUsers(m)
    BY <1>2, EntitlementParts DEF MayReadMeeting, ActiveUsers
  <2> QED BY <2>1, <2>2 DEF ListReason, CanListMeeting, Allows, AllowReasons
<1>6. Sound(p, entitled[r] \union Entitlement(p.u), o)
  BY <1>4, <1>5 DEF Sound, FactsSound, RowsSound, ReleaseSound, DenialSound
<1> QED BY <1>1, <1>3, <1>6, ServeKeepsInv

-----------------------------------------------------------------------------
\* Before the first request nothing is owed.
LEMMA ReadsInitInv ==
  ASSUME Init
  PROVE  ReadsInv
<1>1. StoreInv
  BY StoreInitInv DEF Init
<1>2. ReadsTypeOK
  BY DEF Init, ReadsTypeOK, Request
<1>3. \A r \in Readers : Sound(reader[r], entitled[r], owed[r])
  BY IdleIsSound DEF Init
<1> QED BY <1>1, <1>2, <1>3 DEF ReadsInv, Init

\* Every step of a request, of another session or of a new transcript keeps the
\* invariant.
LEMMA ReadsNextInv ==
  ASSUME ReadsInv, [Next]_vars
  PROVE  ReadsInv'
<1>1. CASE UNCHANGED vars
  <2>1. StoreInv'
    BY <1>1, StoreNextInv DEF vars, ReadsInv
  <2>2. ReadsTypeOK'
    BY <1>1 DEF vars, readVars, ReadsInv, ReadsTypeOK
  <2>3. \A r \in Readers : Sound(reader[r], entitled[r], owed[r])'
    BY <1>1 DEF vars, readVars, ReadsInv
  <2> QED BY <1>1, <2>1, <2>2, <2>3 DEF vars, storeVars, ReadsInv
<1>2. CASE StoreNext /\ UNCHANGED <<transcripts, reader>> /\ Observe
  <2>1. StoreInv'
    BY <1>2, StoreNextInv DEF ReadsInv
  <2>2. meetings \subseteq meetings'
    <3>1. ASSUME NEW s \in Sessions, SessionBegin(s) PROVE meetings' = meetings
      BY <3>1
      DEF SessionBegin, AddParticipantRead, MembershipRead, GrantAuthorize, RevokeRead
    <3>2. ASSUME NEW s \in Sessions, SessionStep(s) PROVE meetings' = meetings
      BY <3>2
      DEF SessionStep, InsertParticipant, ReactivateParticipant, MembershipActivate,
          MemberCommit, RemovalFlush, RevocationStart, RevokeRow, RemovalCommit,
          GrantSelect, GrantInsert, GrantUpdate, RevokeWrite, WriteGrant,
          AccessCommit, RejectDuplicate
    <3> QED
      BY <1>2, <3>1, <3>2 DEF StoreNext, CreateMeeting, AddConfidentialNote, Rollback
  <2> QED BY <1>2, <2>1, <2>2, TablesKeepInv DEF ReadsInv
<1>3. ASSUME NEW m \in Meetings, StoreTranscript(m),
             UNCHANGED <<storeVars, reader>>, Observe
      PROVE  ReadsInv'
  <2>1. StoreInv'
    BY <1>3, StoreNextInv DEF ReadsInv
  <2>2. transcripts' \subseteq meetings'
    BY <1>3 DEF StoreTranscript, storeVars, ReadsInv
  <2> QED BY <1>3, <2>1, <2>2, TablesKeepInv
<1>4. CASE ReadNext /\ UNCHANGED <<storeVars, transcripts>> /\ Observe
  <2>1. ASSUME NEW r \in Readers, ReaderStep(r) PROVE ReadsInv'
    BY <1>4, <2>1, ReadFactsKeepsInv, QueryMeetingKeepsInv,
       TranscriptExistsKeepsInv, QueryTranscriptKeepsInv, QueryNotesKeepsInv,
       FilterNotesKeepsInv, QueryListKeepsInv, FilterListKeepsInv
    DEF ReaderStep
  <2> QED BY <1>4, <2>1, ArriveKeepsInv, FinishKeepsInv DEF ReadNext
<1> QED BY <1>1, <1>2, <1>3, <1>4 DEF Next

\* In every reachable state of the read service the invariant holds.
THEOREM ReadsInvHolds == Spec => []ReadsInv
<1>1. Init => ReadsInv
  BY ReadsInitInv
<1>2. ReadsInv /\ [Next]_vars => ReadsInv'
  BY ReadsNextInv
<1> QED BY <1>1, <1>2, PTL DEF Spec

\* Facts that went stale between the statements of MeetingReadService release
\* nothing its user could not read at some instant of the request.
THEOREM ReleasesAreJustified == Spec => []ReleaseIsJustified
<1>1. ReadsInv => ReleaseIsJustified
  BY DEF ReadsInv, Sound, ReleaseSound, ReleaseIsJustified
<1> QED BY <1>1, ReadsInvHolds, PTL

\* What its user could read during the whole request is neither refused nor left
\* out of the response.
THEOREM ReleasesAreComplete == Spec => []ReleaseIsComplete
<1>1. ASSUME ReadsInv, NEW r \in Readers
      PROVE  LET q == reader[r] IN
             /\ q.step = "denied" =>
                  (IF q.kind = "transcript" THEN TranscriptOf(q.m) ELSE q.m)
                    \notin owed[r]
             /\ q.step = "released" =>
                  CASE q.kind = "list" -> owed[r] \intersect Meetings \subseteq q.items
                    [] q.kind = "meeting" -> owed[r] \intersect {q.m} \subseteq q.items
                    [] q.kind = "transcript" ->
                         owed[r] \intersect {TranscriptOf(q.m)} \subseteq q.items
                    [] q.kind = "notes" ->
                         {n \in owed[r] \intersect Notes : MeetingOf[n] = q.m}
                           \subseteq q.items
  <2> DEFINE q == reader[r]
  <2>1. q \in Request /\ Sound(q, entitled[r], owed[r])
    BY <1>1 DEF ReadsInv, ReadsTypeOK
  <2>2. q.step = "released" => q.kind \in Kinds
    BY <2>1, RequestFields DEF NoRequest
  <2> QED BY <2>1, <2>2 DEF Sound, ReleaseSound, DenialSound, NotesIn, Kinds
<1>2. ReadsInv => ReleaseIsComplete
  BY <1>1 DEF ReleaseIsComplete
<1> QED BY <1>2, ReadsInvHolds, PTL
=============================================================================
