--------------------------- MODULE MCMeetingReads ---------------------------
(***************************************************************************)
(* Small instances of MeetingReads for TLC.                                *)
(***************************************************************************)
EXTENDS MeetingReads, TLC

CONSTANTS organizer, guest, m1, m2, n1, n2

OneMeeting == m1 :> organizer
OneNote == n1 :> m1

\* The calls that change the tables are about the guest.  The organizer's own row
\* and grants stay as they are: no decision asks for an organizer's grant, and
\* the organizer's row is ACTIVE whatever is called (OrganizerStaysActive).
CallsConcernTheGuest == \A s \in Sessions : txn[s] # Idle => txn[s].u = guest

\* A transcript is nothing to the other reads: it comes only where none of them is
\* under way.
TranscriptsConcernTheirReaders ==
  transcripts # {} =>
    \A r \in Readers : reader[r] = NoRequest \/ reader[r].kind = "transcript"

SessionSymmetry == Permutations(Sessions)
=============================================================================
