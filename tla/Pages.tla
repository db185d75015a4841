-------------------------------- MODULE Pages --------------------------------
(***************************************************************************)
(* The forms of two pages, TranscriptPage and SchedulerForm, side by side. *)
(* They share no state: a tab shows one page at a time, and the tables they*)
(* write are not the same.  Each has its own specification, and its        *)
(* properties are named here to be checked and proved of it alone.         *)
(***************************************************************************)

CONSTANTS Requests, Texts, NoText, Tabs, Organizers, Files, NoRequest
VARIABLES register, outcome, carried, tab

Page == INSTANCE TranscriptPage WITH sent <- carried

\* initializeTranscript: a tab shows only what is stored, and says "saved" only of
\* its own call's.
ShownIsStored == Page!ShownIsStored

-----------------------------------------------------------------------------
CONSTANTS Submissions, Plans, Blank, Existing
VARIABLES planned, asked, form, lost

Scheduler ==
  INSTANCE SchedulerForm WITH Requests <- Submissions, call <- asked

\* initializeMeetingScheduler: a second meeting comes only of a retry, after an
\* error or after no answer.
CopiesAreOfRetries == Scheduler!CopiesAreOfRetries

\* initializeMeetingScheduler: a page left after success leaves for what was
\* submitted last, or for what a call given up without an answer wrote late.
LastPlanIsKept == Scheduler!LastPlanIsKept
=============================================================================
