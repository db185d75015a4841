------------------------ MODULE MCTranscriptCreation ------------------------
(***************************************************************************)
(* Small instances of TranscriptCreation for TLC: a meeting, and an id     *)
(* that no meeting has.                                                    *)
(***************************************************************************)
EXTENDS TranscriptCreation, TLC

CONSTANTS organizer, guest, m1, unknown

OneMeeting == (m1 :> organizer) @@ (unknown :> Nobody)
=============================================================================
