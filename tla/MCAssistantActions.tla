------------------------- MODULE MCAssistantActions -------------------------
(***************************************************************************)
(* A small instance of AssistantActions for TLC.                           *)
(***************************************************************************)
EXTENDS AssistantActions, TLC

CONSTANTS organizer, guest, m1

OneMeeting == m1 :> organizer

\* A grant to the organizer changes nothing: no decision on an organizer asks for one.
OnlyGuestsAreGranted == granted \subseteq Meetings \X {guest}
=============================================================================
