--------------------------- MODULE ActionRegistry ---------------------------
(***************************************************************************)
(* The assistant's closed vocabulary: PROTOTYPE_ACTIONS of                 *)
(* app/agent/action_registry.py as functions of the action id, and what    *)
(* the registry computes from an entry.  Parameters are the names given    *)
(* ("meeting_id", and "schedule" for the title, place, times and so on)    *)
(* and whether a value is bad or a name is one no entry declares.          *)
(***************************************************************************)
EXTENDS Naturals

Permission ==
  [ open_dashboard |-> "authenticated", open_meeting_history |-> "authenticated",
    open_meeting_detail |-> "meeting", open_transcript |-> "transcript",
    open_transcript_upload |-> "meeting_organizer",
    open_confidential_notes |-> "confidential_notes",
    open_membership_plans |-> "authenticated",
    focus_meeting_search |-> "authenticated",
    activate_soothing_theme |-> "authenticated",
    activate_happy_theme |-> "authenticated",
    activate_dark_theme |-> "authenticated",
    activate_light_theme |-> "authenticated",
    activate_system_theme |-> "authenticated",
    create_meeting |-> "authenticated",
    reschedule_meeting |-> "meeting_organizer" ]

ActionIds == DOMAIN Permission
Themes ==
  {"activate_soothing_theme", "activate_happy_theme", "activate_dark_theme",
   "activate_light_theme", "activate_system_theme"}
Mutations == {"create_meeting", "reschedule_meeting"}

\* The entries with confirmation_required.
NeedsConfirmation ==
  {"open_transcript", "open_transcript_upload", "open_membership_plans"}
    \union Mutations

Effect(a) ==
  CASE a \in Mutations -> "mutation"
    [] a \in Themes -> "presentation"
    [] a = "focus_meeting_search" -> "focus"
    [] OTHER -> "navigation"

AboutMeeting(a) == Permission[a] # "authenticated"

\* The page whose path navigation_template renders; the action that creates or
\* moves a meeting leads to the meeting's page.
PageOf(a) ==
  CASE a = "open_dashboard" -> "dashboard"
    [] a = "open_meeting_history" -> "meetings"
    [] a = "open_meeting_detail" \/ a \in Mutations -> "meeting"
    [] a \in {"open_transcript", "open_transcript_upload"} -> "transcript"
    [] a = "open_confidential_notes" -> "notes"
    [] a = "open_membership_plans" -> "plans"
    [] OTHER -> "none"

-----------------------------------------------------------------------------
\* EmptyParameters, MeetingParameters, MeetingCreateParameters and
\* MeetingRescheduleParameters: the names an entry requires.
Required(a) ==
  (IF AboutMeeting(a) THEN {"meeting_id"} ELSE {})
    \union (IF a \in Mutations THEN {"schedule"} ELSE {})

Given == [names : SUBSET {"meeting_id", "schedule"}, bad : BOOLEAN]

\* RegisteredAction.validate_parameters: a missing name is reported before any
\* other error, and extra names are errors.
ValidateParameters(a, given) ==
  CASE ~(Required(a) \subseteq given.names) -> "missing_parameters"
    [] Required(a) \subseteq given.names
       /\ (given.bad \/ given.names # Required(a)) -> "invalid_parameters"
    [] OTHER -> "valid"

\* BackendActionRegistry.resolve.
Registered(a) == a \in ActionIds
=============================================================================
