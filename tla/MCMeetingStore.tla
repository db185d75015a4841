--------------------------- MODULE MCMeetingStore ---------------------------
(***************************************************************************)
(* Small instances of MeetingStore for TLC: an organizer with two meetings *)
(* and a guest, a note in each meeting or two in one.                      *)
(***************************************************************************)
EXTENDS MeetingStore, TLC

CONSTANTS organizer, guest, m1, m2, n1, n2

TwoMeetings == (m1 :> organizer) @@ (m2 :> guest)
OneNoteEach == (n1 :> m1) @@ (n2 :> m2)

OneMeeting == m1 :> organizer
OneNote == n1 :> m1
TwoNotes == (n1 :> m1) @@ (n2 :> m1)

SessionSymmetry == Permutations(Sessions)
=============================================================================
