--------------------------- MODULE AccessPolicies ---------------------------
(***************************************************************************)
(* The authorization policies of app/domain/policies, as operators on the  *)
(* facts they are given.  Each returns the reason code of the              *)
(* AccessDecision; Allows tells an allowing reason from a denying one.     *)
(* Facts are plain sets: the organizer's id, the active participants, the  *)
(* users a note is granted to.                                             *)
(***************************************************************************)

AllowReasons == {"organizer", "participant", "explicit_user"}

DenyReasons ==
  {"inactive_user", "not_authorized", "resource_unavailable",
   "resource_scope_mismatch"}

Allows(reason) == reason \in AllowReasons

\* MeetingAccessPolicy.can_list, and TranscriptAccessPolicy.can_view, which
\* decides alike.
CanListMeeting(user, isActive, organizer, active) ==
  CASE ~isActive -> "inactive_user"
    [] isActive /\ user = organizer -> "organizer"
    [] isActive /\ user # organizer /\ user \in active -> "participant"
    [] OTHER -> "not_authorized"

\* MeetingAccessPolicy.can_manage: schedule changes are the organizer's alone.
CanManageMeeting(user, isActive, organizer) ==
  CASE ~isActive -> "inactive_user"
    [] isActive /\ user = organizer -> "organizer"
    [] OTHER -> "not_authorized"

\* ConfidentialNotePolicy.can_view.  No code path fills allowed_role_ids, so
\* the role branch never allows and is left out.  owner is the note's own meeting.
CanViewNote(user, isActive, organizer, active, meeting, owner, deleted, allowed) ==
  CASE ~isActive -> "inactive_user"
    [] isActive /\ deleted -> "resource_unavailable"
    [] isActive /\ ~deleted /\ owner # meeting -> "resource_scope_mismatch"
    [] isActive /\ ~deleted /\ owner = meeting /\ user = organizer
         -> "organizer"
    [] isActive /\ ~deleted /\ owner = meeting /\ user # organizer
         /\ user \in active /\ user \in allowed -> "explicit_user"
    [] OTHER -> "not_authorized"
=============================================================================
