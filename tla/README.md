# Verification of Meetn Copilot

Meetn Copilot is a meeting-notes application: a FastAPI backend over PostgreSQL
(async SQLAlchemy), server-rendered pages with browser JavaScript, and an
assistant that turns a question into one of a few permitted actions with the
help of a language model. This directory holds TLA+ models of it, the TLC
configurations that check them and TLAPS proofs about them.

Source paths below are relative to the repository's `app/`; `PROJECT.json` maps
every definition to its source lines.

## 1. Inventory of the system

| Component | State | Operations | Interacts with | What makes it correct |
|---|---|---|---|---|
| Access policies (`domain/policies`, `authorization_service`) | none | `can_list`, `can_manage`, `can_view` | facts loaded by the services | the organizer always, a participant while active, a grantee while active and granted |
| Meeting store (`repositories/meeting_repository.py`) | tables `meetings`, `meeting_participants`, `confidential_notes`, `confidential_note_access`, `transcripts` | create, update, add/remove participant, add note, grant/revoke, scoped queries | one `AsyncSession` per request; concurrent sessions on PostgreSQL | organizer always active; grants only for participants; a removal revokes |
| Meeting reads (`meeting_read_service.py`) | none of its own | list, details, transcript, notes | store, policies, audit | releases what the user may read and no more, though its facts age |
| Transcript creation (`transcript_management_service.py`) | row of `transcripts` | create | store, policies, audit | written once; every answer true |
| Scheduling (`meeting_scheduling_service.py`) | columns of `meetings` | create, reschedule | store, policies, audit | a reschedule does what it says; durations within 15-480 minutes |
| Audit (`audit_service`, `audit_repository`) | table `audit_events` | append | every service; own commit | true events; none missing |
| Sign-in and sessions (`authentication_service`, `user_repository`, `jwt_cookie_session`, `routes/auth.py`) | `users`, `external_identities`, cookies | start, callback, sign out, resolve current user | identity provider, every route | one account per person; a session begins where it was asked for; a disabled account stays out |
| Recording availability (`recording_availability_service`, `entitlement_policy`) | tables `recordings`, `memberships` | get availability, save | participants, transcripts, clock, audit | an entitled participant and nobody else |
| Assistant (`agent/*`) | a request's own | decide, dispatch, confirm | language model, store, scheduling, audit | only registered actions; a change is confirmed, authorized and audited |
| Media validation (`api/dependencies/media.py`, `media_validation_*`) | an upload in memory | read, inspect, decide | route, inspector, audit | bounded memory; content is what it claims |
| Copilot panel (`web/static/js/copilot.js`) | busy flag, buttons, recognizer | ask, speak, confirm, follow | the assistant's routes | no double confirmation; the form tells what is awaited; no hidden microphone |
| Forms of the pages (`web/static/js/pages.js`) | fields, chosen file, pending call | upload a transcript, plan a meeting | transcripts, scheduling | what is shown is stored |
| Seed script (`scripts/seed_db.py`) | the demo rows | look, write | store, users, recordings, memberships | may die and be run again |
| Middleware, error mapping, configuration, migrations, page rendering | request id | - | - | see section 6 |

Interaction: a request is one coroutine with one database session
(`api/dependencies/database.py`). Services call the repository and then the
audit service; **each repository write commits by itself, and so does each audit
append**. The pool runs at PostgreSQL's default isolation, READ COMMITTED: each
SELECT sees what is committed when it runs. The ORM keeps loaded objects
(`expire_on_commit=False`) and writes, at a flush, the columns whose value
changed *with respect to the row it loaded*. Participant, note and grant
operations have no HTTP route yet; the seed script and the tests call them.

The hard parts:

* check-then-act over several statements, without row locks (`add_participant`,
  `update_participant_membership`, `grant_note_access`, `create_transcript`,
  `reschedule_meeting`, the first sign-in), so that a check can be stale at the commit;
* column-wise writes from a stale row, which can mix two sessions' updates, and the
  session's identity map, which decides whether a second load sees the new row;
* the removal of a participant, which touches two tables, flushes before its
  bulk update, waits for grants one by one and holds what it has until the commit;
* facts that age between the statements of a read, with a second policy check
  on rows that are newer than the facts;
* two commits (change, then audit) with a failure in between;
* an assistant that keeps no record of what it proposed, with a model that may fail,
  answer nonsense or name an action that is not its user's;
* a browser whose handlers give way at each fetch, with lost and late answers, voice
  results that come when they like and files read while the user goes on.

`PROJECT.json` lists these hazards one by one, each at its line with the
properties that address it.

## 2. Modules

| Module | Models | Uses |
|---|---|---|
| `AccessPolicies` | the policies, as operators from facts to a reason | - |
| `MeetingStore` | the four tables of participants and notes and the repository's writes, statement by statement | - |
| `MeetingReads` | `MeetingReadService` running beside the store's writers | `MeetingStore`, `AccessPolicies` |
| `TranscriptRegister` | abstract: a write-once register and truthful answers | - |
| `TranscriptCreation` | `create_transcript` from request to answer; implements the register | `AccessPolicies`, `TranscriptRegister` |
| `MeetingScheduling` | `create_meeting`, `reschedule_meeting`, column by column | `AccessPolicies` |
| `SignIn` | sign-in from the redirect to the token, sessions, disabling accounts | - |
| `RecordingAvailability` | `get_availability` over changing tables and a clock | `AccessPolicies` |
| `MediaValidation` | an upload from its headers to its audit row | - |
| `SeedDatabase` | the seed script, look by look and commit by commit | - |
| `ActionRegistry` | the registered actions: permission, parameters, confirmation, effect | - |
| `AssistantService` | abstract: what the assistant's two routes promise their caller | `ActionRegistry` |
| `AssistantActions` | orchestrator, dispatcher and confirmed-action executor; implements the service | `ActionRegistry`, `AccessPolicies`, `AssistantService` |
| `CopilotPanel` | the panel in the browser, a client of the service | `AssistantService` |
| `TranscriptPage` | the transcript page in several tabs, a client of the register | `TranscriptRegister` |
| `SchedulerForm` | the scheduling form and its retries | - |
| `Services` | recording availability, media validation and seed script side by side | the three |
| `Pages` | the two forms side by side | `TranscriptPage`, `SchedulerForm` |
| `MC...` | instances for TLC | the modules they are named for |
| `...Proofs` | theorems | the modules they are named for |

Two abstract specifications are each used from both sides: the server is shown to
implement them and the browser is checked against them (`TranscriptCreation` ⇒
`TranscriptRegister` ← `TranscriptPage`; `AssistantActions` ⇒ `AssistantService` ←
`CopilotPanel`), so that the page models need not carry the server's tables.

A comment that begins "Slip:" introduces an alternative definition: the mistake a
programmer could have made in the definition after it. `PROJECT.json` names, for
each property, the slip under which TLC finds that property violated, and so shows
that the property depends on the code.

### MeetingStore

`participant[m][u]` is a row of `meeting_participants` (its status, and whether
`removed_at` is set), `access[n][u]` one of `confidential_note_access`. `created_by` and a
note's meeting never change and nothing deletes a row, so they are the constants
`Organizer` and `MeetingOf`. `txn[s]` is the session `s` between the
statements of a call: what it has read and will write.

| Code | Actions |
|---|---|
| `create_meeting`, `add_confidential_note` | `CreateMeeting`, `AddConfidentialNote` (their check reads immutable data: one step) |
| `add_participant` | `AddParticipantRead`, then `InsertParticipant` or `ReactivateParticipant`, and `MemberCommit` |
| `update_participant_membership` | `MembershipRead`, then `MembershipActivate` and `MemberCommit`, or `RemovalFlush`, `RevocationStart`, `RevokeRow` for each grant, `RemovalCommit` |
| `grant_note_access` | `GrantAuthorize`, `GrantSelect`, then `GrantInsert` or `GrantUpdate`, and `AccessCommit` |
| `revoke_note_access` | `RevokeRead`, `RevokeWrite`, `AccessCommit` |
| `_commit` refused by a unique constraint; cancelled request, lost connection | `RejectDuplicate`, `Rollback` |

`Merge` is the unit of work's column-wise UPDATE. `HoldsMember` and `HoldsGrant`
are the row locks: whatever a session has written stays locked until its commit, and another session's write of
it waits. A removal takes the participant's row at its autoflush and then the grants one at a time, in whatever order the
bulk UPDATE finds them, so that it can wait for one while it holds others; a grant revoked by the one it waited for is
left alone, as READ COMMITTED evaluates the WHERE clause again. Calls the code refuses
(`PermissionError`, `ValueError`, `None`) change nothing and are the absence of a
step. Role and timestamps other than "is `removed_at`/`revoked_at` set" are left out.

### MeetingReads

`reader[r]` is a request: `start`, `facts` (with the active participants
it saw), `exists` (a transcript was found), `rows` or `listed` (what the query returned),
`released` or `denied`. The confidential notes take four reads: facts, the scoped query, the
grants of the notes found (SQLAlchemy's `selectinload` is a SELECT of its own), the policy. The
transcript takes three, and its query asks for an ACTIVE row even of the organizer: that he is
never refused rests on the store's `OrganizerStaysActive`.
Loading the organizer and the participants for the facts is one step: the organizer
never changes. The store's writers, and the storing of a transcript, come between all of them.
`entitled` and `owed` are history variables: what the user could read at *some* and at *every*
instant of the request. The audit row of a read is committed before the response leaves
and adds no state here; when it fails there is no response (`Finish`).

### TranscriptCreation and TranscriptRegister

A request is `arrived`, `managed` (authorized), `free` (no transcript seen),
`written`, `refused` with a reason, `done`. `AddTranscript` is the insert with
both outcomes of the UNIQUE constraint. `AuditCreation` and `AuditRefusal` commit
the audit event and answer. `Fail` may strike at any point. The abstract
register knows only writes and outcomes; the refinement maps `transcript` to
`register` and the answers to outcomes.

### MeetingScheduling

A row has owner, text (standing for title, place, purpose and gift, treated alike), start, end, status.
`reschedule_meeting` loads it three times. SQLAlchemy's identity map returns the object it already holds, if it
is still referenced, *without* refreshing its attributes; whether the object of an earlier load is
still alive depends on garbage collection, so `Loads` lets each later load be the
old row or the current one. `Merge` is the column-wise UPDATE. `before` is a
history variable: the row when the request arrived, or `Disturbed`.
The branches for `repository_scope_denied` cannot be reached: the organizer of a meeting never changes.
An inactive user is refused by `get_current_user` before any service runs.

### SignIn

A flow is one sign-in: `Start` (redirect, cookies of state and nonce), `Callback` in whatever browser
follows the provider's redirect, `Verify` or `ProviderFails`, `Find` (`get_by_external_identity`), then `Create`
(both rows in one commit, or a unique violation) or `Load` and `Update` (`update_user_and_identity`), `Issue` (the JWT), and
`Receive` in the browser. An account goes by the flow that made it. `found` and `base` are the two values of
`is_active` a callback has read, in the entity and in the model; `Written` is what the flush leaves. `Disable`
and `Enable` are an administrator's statements. `disabled` (history) leaves out a disabling that fell between
the two reads: there the stale value does win, and the property says so. `overtaken` (history) are the flows whose browser began another
before their callback came. A session is only its token: `Expire` is the one way it ends on the server.

### RecordingAvailability

`ReadFacts`, `ReadTranscript`, `ReadRecording`, `ReadMembership` are SELECTs, `Decide` looks at the clock and
applies `EntitlementPolicy`, `Audit` commits and answers. `TablesNext` is everything that may be committed in
between. `seen` and `kept` are the facts that held at some and at every instant of the request.

### MediaValidation

`ReceiveHeaders`, `ReceiveChunk`, `EndOfBody`, `Disconnect` are `get_bounded_media_body`; the session, CSRF and
header checks come *after* the body (`Screen`), in FastAPI's order of dependencies; `Inspect` is the inspector
and the policy; `Audit` or `AuditFails` the end. `Right` restates declaratively what `Evaluate` decides check by check.

### AssistantActions, AssistantService and ActionRegistry

A request of `/assistant/messages` asks the model (`asking`), one of `/assistant/actions/confirm` starts `decided`.
`Object` rejects before any table is read, `Dispatch` is `ActionDispatcher` as far as its first SELECT,
`ReadTranscript` and `ReadGrants` its second, `Mutate` and `AuditMutation` the scheduling service's two commits, `Audit`
the row the answer waits for. `Break` may strike at any statement. The model's decision is any action,
registered or not, any meeting and any parameters; `ModelGarbles` and `ModelFails` are the other
outcomes. Other calls change participants, grants and transcripts between all steps. `AssistantService` sees a
call only as its caller does: open, performed, answered or failed.

### CopilotPanel

The panel sends through `Submit`, `ClickConfirm` and `VoiceResult`; `Reach` and `Serve` are `AssistantService`'s steps, at any
time, also after the page stopped waiting (`Complain`) or was left (`LoadPage`). `Render...` are the branches
of `renderResponse`. `engine` is the browser's speech recognizer with the events it may raise, `voiceActive` the flag
the code keeps about it.

### TranscriptPage and SchedulerForm

A tab of `TranscriptPage` loads, opens its form, reads files asynchronously (`Choose`, `FileRead`), submits and is
answered; `Serve` is `TranscriptRegister`'s step. A file's text fills the area whenever it
arrives, and nothing listens to the area: the status line keeps saying of an edited text, or of one that a late file replaced, what it said before.
The page promises nothing about that and no property does; `ShownIsStored` holds in spite of it.
`SchedulerForm` follows each submission to the server and back; `lost` is history: the calls given up without an answer.
Such a call may still take effect after a later one, and the form has no means against it.

### SeedDatabase

Nine looks and commits in the order of `seed()`; a run may die between any two, be followed by another or overlap with
one. `Repeatable` are the rows that no constraint keeps from a second copy. `Saved` are the last three, which go through `save()`: it
updates a row that is there (`Update`), so that a rerun also sets a demo membership back that was changed meanwhile.

## 3. Runs

| Run | Instance | Shows |
|---|---|---|
| `StoreSerial` | 1 session; 2 users, each organizer of one of 2 meetings with a note each | without overlap: `NoGrantSurvivesRemoval`, `RemovedAtMatchesStatus`, `GrantLossIsExplained` |
| `StoreConcurrent` | 2 sessions, 2 users, 1 meeting, 2 notes | with overlap: `OrganizerStaysActive`, `GrantsFollowParticipation`, `PendingCallsAreGrounded` (the rows a call will write are there), types; `NoSessionsWaitInACircle`: row locks cause no deadlock; `RevivalIsDeliberate`: what was removed or revoked comes back only by a call that had read it so; `MixingNeedsOverlap`: status and `removed_at` fall apart only when a call writes over a row it had not read |
| `StoreRace` | 2 sessions | **violated**: `NoGrantSurvivesRemoval` |
| `Reads` | 1 reader beside 2 writers, whose calls concern the guest's rows | `ReleaseIsJustified`, `ReleaseIsComplete` |
| `Transcript` | 3 uploads, 2 users, 1 meeting and 1 unknown id | refinement of the register, `AuditIsTrue`, `ReportedIsAudited`, types |
| `TranscriptUnaudited` | 1 upload | **violated**: `EveryTranscriptIsAudited` |
| `Scheduling` | 2 requests, 2 users, 1 meeting | `UndisturbedIsExact`, `AuditAgrees` |
| `SchedulingRace` | 2 requests of the organizer | **violated**: `DurationIsSupported` |
| `Assistant` | 1 request, 2 users, 1 meeting and an unknown id, every action; fairness | `GrantsAreGrounded`, `RefusalsAreGrounded`, `TrailTellsOutcome`, `EveryRequestEnds`, refinement `KeepsPromises` |
| `Panel` | 3 calls, one action of each kind the panel tells apart | `ChangesAreConfirmedOnce`, `BusyTellsWaiting`, `MicrophoneIsShown` |
| `Services` | four components, one at a time | sign-in: `OneAccountPerPerson`, `SessionsBeginHere`, `DisablingLasts`; recordings: `AnswersAreGrounded`, `SteadyFactsDecide`; media: `BufferIsBounded`, `RepliesAreExact`, `TrailTellsVerdict`; seed: `NothingTwice`, `DoneMeansAll`, `RerunsAddNothing` |
| `Pages` | two forms, one at a time | transcript page: `ShownIsStored`; scheduler: `CopiesAreOfRetries`, `LastPlanIsKept` |

`Services` and `Pages` put components that share no state side by side, for any constants, so that the runs and the proofs speak of the same
properties; `MCServices` (with `SignIn`) and `MCPages` make one instance of them, in which the first state chooses which of them
works, and the others rest. Nothing is lost by it, since no action of one reads or writes a variable of another.

Bounds. The number of calls of the store, the reads and scheduling is never bounded, only how many are in progress and
the sizes of the sets.

* *Store, reads, transcripts, assistant.* Two users are an organizer and another; the writes of a
  call concern one row of a participant and the grants of one user, so a third user
  adds only copies. Two meetings matter to what a removal may *not* touch
  (`StoreSerial`). Two writers let a call be disturbed by one whose own check is stale. Two notes let a
  removal hold one grant while it waits for the other. `Reads` has two constraints: `CallsConcernTheGuest`
  keeps the organizer's own row and grants out of the calls beside the reader (no decision looks at an organizer's
  grant, and `StoreConcurrent` shows that his row stays active), and `TranscriptsConcernTheirReaders` stores a
  transcript only where no other kind of read is under way, which none of them looks at. `Assistant` takes one request, since requests
  share no state but the tables, and any other's effect on these is in `TablesNext`. All of this is proved for any number besides (section 4).
* *Scheduling.* The unit is a quarter of an hour. `Scheduling` supports the one duration 1 and asks for 0, 1 and 2 where validation is the question;
  two starts and two texts tell a stale row from a new one and a mixture from both. `SchedulingRace` supports 1 to 2, so that two supported durations can be mixed.
* *Panel.* Three calls are a message, its confirmation and a spoken message, or a confirmation clicked twice; a change needs two.
* *Sign-in.* Two flows of one person from two browsers: one account and its identity are all that two flows share.
* *Recording.* One request; the clock has two instants, with a membership that ends at the second, one that never ends and one inactive; the
  recording passes through three rows. *Media.* Image limit 2, stream limit 4, chunks of 1 to 3, durations
  around the limit of 2 and "unreadable": each limit is met exactly, crossed by one, and crossed by a whole chunk. *Seed.* Two runs,
  in sequence or at once.
* *Pages.* Two tabs, two calls, two texts and a file that is no text; the second tab only types, since it is there to compete for the
  register. Three submissions of two plans.

Symmetry is used over interchangeable sessions, calls and texts, in runs without liveness only. Deadlock
is checked except where every request is made once and the system comes to rest (`Transcript*`, `Services`,
`Pages`).

Fairness is asked for in one place only. In `AssistantActions` the server's statements are weakly fair: the event loop runs a coroutine
that can run, and none of these statements waits for a row another request holds. The language model owes nothing, but its HTTP client
raises at a timeout (`groq_timeout_seconds` in `main.py:27`), which is why `ModelFails` is fair; without that timeout
`EveryRequestEnds` would be false. That the other services' requests end is weak fairness on straight-line code and says nothing about it; what could
keep a call of the store from ending, a circle of row locks, is a safety property (`NoSessionsWaitInACircle`). The browser and its user
owe nothing, hence the page models have no liveness property.

### What the violated runs show

* `StoreRace`. `grant_note_access` checks that the grantee is active; a removal commits; the grant is
  inserted. ARCHITECTURE.md:674 promises that "A user grant does not survive participant removal."
  The reads are not affected (`ReleaseIsJustified` holds in the same interleavings, since every
  query asks for an active row), but a later `add_participant` brings the access back.
* `TranscriptUnaudited`. The transcript is committed, the audit append fails. ARCHITECTURE.md:1527 asks for an audit event
  of each sensitive decision; ARCHITECTURE.md:997 foresees a unit of work over several repositories, which the code does not have.
* `SchedulingRace`. Two overlapping reschedules, both valid; one changes only the start, the other only the end
  with respect to the row each loaded; the row ends with a length neither asked for, outside the range `_validate_duration` enforces.

Two more divergences need no run to be seen, for the code makes no attempt: ARCHITECTURE.md:114 says that logout "Revokes the application session", and
there is no table of sessions (a copy of the token is `Accepted` until it expires); ARCHITECTURE.md:463 says "A disabled user
cannot create new sessions", and `Issue`, like `create_session`, asks nothing of the account (the token is refused when it is used).

## 4. Proofs

TLAPS checks these for every value of the constants (any number of users, meetings, notes, sessions, flows,
requests, tabs, files and limits), from the named assumptions on the constants in the modules alone (`StoreConstants`, `ReadsConstants`,
`TranscriptConstants`, `SchedulingConstants`, `SignInConstants`, `ActionsConstants`). These ask that an organizer is a user, that markers
such as `NoMeeting` are no ids, and that ids of different things differ. `BrowserProofs` and `ServicesProofs` are about several components
and have the assumptions as hypotheses of each theorem (`TranscriptPageConstants`, `SchedulerConstants`, `RecordingConstants`, `MediaConstants`;
the panel and the seed script need none); limits are naturals, and the files, rows and organizers that occur are of their types. Every
one of these assumptions is evaluated by TLC on the instance it runs. **Every property that a passing run checks is proved, refinements and action
properties included, but for the one liveness property.**

| Module | Theorems | State |
|---|---|---|
| `MeetingStoreProofs` | `StoreInvHolds`, `StoreIsTyped`, `OrganizerIsAlwaysActive`, `GrantsAlwaysFollow`, `CallsStayGrounded`, `LocksNeverCross`, `RevivalsAreDeliberate`, `MixingIsOfOverlaps` | the properties of `StoreConcurrent`, for any number of sessions |
| | `SerialRemovalRevokes`, `SerialRemovedAt`, `SerialGrantLoss` | the properties of `StoreSerial`, for any single session (`OneAtATime`) |
| `MeetingReadsProofs` | `ReadsInvHolds`, `ReleasesAreJustified`, `ReleasesAreComplete` | the properties of `Reads`, without its constraints |
| `TranscriptCreationProofs` | `CreationIsTyped`, `AuditTrailIsTrue`, `AnswersAreAudited`, `CreationImplementsRegister` | the safety properties of `Transcript` and its refinement |
| `MeetingSchedulingProofs` | `SchedulingInvHolds`, `SchedulingIsTyped`, `RescheduleIsExact`, `AuditTrailAgrees`, `SerialDurationIsSupported` | the properties of `Scheduling`; what `SchedulingRace` violates holds for one request at a time |
| `SignInProofs` | `SignInInvHolds`, `AccountsStayUnique`, `SessionsStayAtHome`, `DisablingAlwaysLasts` | the safety properties of sign-in in `Services` |
| `AssistantActionsProofs` | `ActionsInvHolds`, `ActionsAreTyped`, `GrantsRestOnFacts`, `RefusalsRestOnFacts`, `TrailIsComplete` | the safety properties of `Assistant` |
| | `RoutesKeepPromises` | the refinement of `Assistant` |
| `BrowserProofs` | `PanelInvHolds`, `PanelConfirmsOnce`, `PanelFormComesBack`, `PanelShowsMicrophone` | the properties of `Panel` |
| | `PageInvHolds`, `PagesShowWhatIsStored` | the transcript page's property of `Pages`, for any number of tabs |
| | `SchedulerInvHolds`, `CopiesComeOfRetries`, `LastPlanStays` | the scheduling form's properties of `Pages` |
| `ServicesProofs` | `RecordingInvHolds`, `AvailabilityIsGrounded`, `DenialsAreGrounded` | the recording's properties of `Services` |
| | `MediaInvHolds`, `BodiesAreBounded`, `VerdictsAreExact`, `TrailIsExact` | the properties of media validation in `Services` |
| | `SeedInvHolds`, `SeedLeavesNothingTwice`, `SeedDoneMeansAll`, `SeedIsIdempotent` | the seed script's properties of `Services`, for any number of runs |

The two ends of an abstract specification meet in its actions: the page models contain the very actions of `TranscriptRegister` and
`AssistantService` as their server's steps, and `CreationImplementsRegister` and `RoutesKeepPromises` prove that the server takes no others.

*Store.* None of the safety properties is inductive: a commit relies on what its call
checked several steps before. `StoreInv` adds that every pending call is grounded: the row it will update
exists, a pending removal is not the organizer's, a pending grant is for a committed note and a
participant. Rows are never deleted, hence other sessions cannot take this away.
`Merge` is handled by a lemma: merging ACTIVE into an ACTIVE row leaves it ACTIVE, whatever the call had read.
For the locks `LockInv` adds that no two sessions hold one row (`Apart`) and that a removal's grants are of its own meeting (`Kept`). Only a
removal waits while it holds something, and it waits for grants; who holds such a grant and waits himself is then a removal of the same
participant, whose row both would have to hold.

*Serial store.* With one session `SerialInv` adds what a call read and decided is still current (`Fresh`): the
row it loaded is the row in the table, the grants it will revoke are all there are, the grantee is still active. This is exactly what the overlap in `StoreRace` destroys.

*Reads.* `Sound` says what each step of a request owes to the two histories: rows found were readable at some instant, and
whoever the facts left out could not read throughout. It mentions no table, so a step of another session, which only
enlarges the first history and shrinks the second, keeps it (`SoundStays`); only the request's own statement has to be looked at. The
transcript's query needs `StoreInv`, which `MeetingStoreProofs` provides.

*Transcripts.* `CreationInv` adds to each step of a request what it has done so far (`StepsAreTrue`): a `written` request owns the row of its meeting,
a request that is not there yet owns no row, `transcript_already_exists` is said only of a meeting that has one. For the
refinement each action is shown to be a step or a stutter of the register.

*Scheduling.* `RequestIsTrue` says what a request's step implies of its row whatever others wrote, `UndisturbedIsTrue` that as long as nobody wrote it every
load returned the row as it is, so that the column-wise update leaves exactly the row asked for. With one request at a time nobody is ever disturbed.

*Sign-in.* A browser's cookies are those of the last flow it began (`CookiesAreTrue`), the newest one it began and has not followed back, an identity leads to an account of its person
(`AccountsAreFound`), and a callback that read a disabled account will not enable it (`ReadsAreHarmless`).

*Assistant.* The one fact a request carries from its first SELECT to its second was true when read and is false only if it failed
at some instant (`CarriedIsTrue`); `StepIsTrue` ties each step to the decision, the change and the rows committed. The refinement adds
`RouteInv`: only a confirmation of a registered mutation reaches `mutating`. Then each step is shown to be one of the service's or hidden from the caller.

*Panel.* That a change was confirmed once is three facts about calls, none of which mentions the page (it may be loaded afresh at any time): a
change is made by a confirmation, a confirmation was sent by the button of a proposal that was received (`CallIsTrue`), and one button has one
call, because a button that was clicked is never offered again (`ButtonsAreTrue`). `FormIsTrue` gives the busy flag its meaning; the
microphone's property is inductive as it stands.

*Transcript page.* `ServerIsTrue` is what a register written once gives its clients: whoever was told "created" wrote what is stored.
`TabIsTrue` says that a tab shows what it read of the register or what its own call wrote.

*Scheduling form.* `SubmissionIsTrue`: of the calls that may still take effect all but the awaited one were given up for lost; `PlanIsKept` then
follows what was submitted last to its commit, after which only a lost call can write.

*Recording.* `ReadsAreTrue` and `ResultIsTrue` say of a request what its reads and its answer owe to the two histories. Like `Sound` of the
reads they mention no table, so a change of any table keeps them (`AskStaysTrue`); the clock appears in them, and `TimeTakes` says why
that does no harm: a membership covers less as time passes, never more. `CoversIs` connects the levels that
`EntitlementPolicy` compares with what a membership includes.

*Media.* `VerdictIs` is the policy, for all files and limits: `Evaluate`, check by check, says "media_validated" exactly when the
file is `Right`, and "media_too_large" only of an image above its limit. `UploadIsTrue` says how each step of an upload
stands to the limit, its reply and its rows.

*Seed.* `PastIsFound`: what a run has passed is in the table, since rows are only added and written again in place. `AloneIsOrderly`: while runs follow one another
one at most is at work, what it is about to write is missing and what it is about to update is there. This needs that a row of a meeting has its meeting in the
table, so that a run which found the one meeting looks for its rows where they are.

Every invariant above was model-checked on a small instance before it was proved.

Only model-checked: the liveness property `EveryRequestEnds`, and with it all that
rests on fairness, which is out of the prover's reach. The three violated
properties are no theorems of course; `SerialRemovalRevokes` and `SerialDurationIsSupported` prove two of them for calls that do not overlap.

## 5. What could come next

* One more invariant of the sign-in with two people in one browser, beside the two browsers of one person.
* The decisions of the policies as theorems of their own (what a removal and a grant change in `AccessPolicies`), to be cited by the reads
  and the assistant alike.
* Action properties that follow from the invariants already proved, after the example of `RevivalsAreDeliberate`.

## 6. Not modelled

* *Page rendering, manifest, theme, templates* (`web/page_renderer.py`, `web/routes.py`): functions from arguments to HTML or names, without a protocol.
* *The read-only pages* (dashboard, history, details, notes): each reads once and renders. Of the two forms, that an answer 401 leaves for the login
  page is left out: it is a page load like any other.
* *The panel's "Open page" and "Focus control" buttons* for a navigation not followed: they send nothing.
* *Request context and logging*: context variables set and reset around one request, and wording.
* *Error mapping* beyond the statuses the modelled replies carry.
* *The request to the language model and its schema, sentiment analysis, the wording of answers*: their result is a choice.
* *Cryptography*: what the provider's ID token and the session token say is true if they verify.
* *Configuration and migrations*: settings read once; the constraints the schema declares are part of the modelled tables.
