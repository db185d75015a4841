--------------------------- MODULE MCCopilotPanel ---------------------------
(***************************************************************************)
(* Small instances of CopilotPanel for TLC.                                *)
(***************************************************************************)
EXTENDS CopilotPanel, TLC

\* One action of each kind the panel tells apart.
OneOfEach ==
  {"open_dashboard", "open_transcript", "create_meeting", "activate_dark_theme",
   "focus_meeting_search"}

CallSymmetry == Permutations(Calls)
=============================================================================
