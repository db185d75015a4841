------------------------------- MODULE SignIn -------------------------------
(***************************************************************************)
(* Signing in with the external identity provider, sessions and accounts:  *)
(* routes/auth.py, AuthenticationService, SQLAlchemyUserRepository and     *)
(* JWTCookieSessionManager.  A flow is one sign-in, from the redirect to   *)
(* the provider to the session token of its callback; flows of one person  *)
(* overlap, and an administrator disables accounts meanwhile.              *)
(*                                                                         *)
(* A session is nothing but its token: no table has it, so nothing can     *)
(* take it back before it expires.  The database runs READ COMMITTED.      *)
(***************************************************************************)
EXTENDS Naturals, FiniteSets

CONSTANTS
  People,         \* the subjects the provider vouches for
  Browsers,
  Flows,          \* the sign-ins that are made
  PersonOf,       \* who signs in in a flow
  None

ASSUME SignInConstants ==
  /\ PersonOf \in [Flows -> People]
  /\ None \notin Flows

VARIABLES
  cookie,       \* cookie[b]: the flow whose state and nonce b's cookies hold
  session,      \* session[b]: the flow whose token b's app_session cookie holds
  flow,         \* flow[f]: how far f is and what it has read
  users,        \* the rows of users; an account is named by the flow that made it
  identity,     \* identity[p]: the account of the row of external_identities
  enabled,      \* enabled[u]: is_active
  issued,       \* the flows whose token is signed, and not yet expired
  loggedOut,    \* history: the flows whose session was ended by a logout
  disabled,     \* history: the accounts disabled outside the window of a sign-in
  overtaken     \* history: the flows whose browser began another before their callback

browserVars == <<cookie, session>>
accountVars == <<users, identity, enabled>>
historyVars == <<loggedOut, disabled, overtaken>>
vars == <<browserVars, flow, accountVars, issued, historyVars>>

FlowRecord ==
  [step : {"new", "started", "exchanging", "verified", "unknown", "known",
           "loaded", "signed", "done", "refused"},
   began : Browsers \union {None},
   at : Browsers \union {None},   \* the browser that calls back
   user : Flows \union {None},    \* the account found or made
   found : BOOLEAN,               \* its is_active in the entity
   base : BOOLEAN]                \* its is_active in the model to be flushed

NewFlow ==
  [step |-> "new", began |-> None, at |-> None, user |-> None, found |-> TRUE, base |-> TRUE]

SignInTypeOK ==
  /\ cookie \in [Browsers -> Flows \union {None}]
  /\ session \in [Browsers -> Flows \union {None}]
  /\ flow \in [Flows -> FlowRecord]
  /\ users \subseteq Flows
  /\ identity \in [People -> Flows \union {None}]
  /\ enabled \in [Flows -> BOOLEAN]
  /\ issued \subseteq Flows
  /\ loggedOut \subseteq Flows
  /\ disabled \subseteq Flows
  /\ overtaken \subseteq Flows

Become(f, step) == flow' = [flow EXCEPT ![f].step = step]

-----------------------------------------------------------------------------
\* GET /auth/google/start: a new state and nonce replace those of another tab.
Start(f, b) ==
  /\ flow[f].step = "new"
  /\ flow' = [flow EXCEPT ![f].step = "started", ![f].began = b]
  /\ cookie' = [cookie EXCEPT ![b] = f]
  /\ overtaken' = overtaken \union
                    {g \in Flows : flow[g].step = "started" /\ flow[g].began = b}
  /\ UNCHANGED <<session, accountVars, issued, loggedOut, disabled>>

CookieExpires(b) ==
  /\ cookie[b] # None
  /\ cookie' = [cookie EXCEPT ![b] = None]
  /\ UNCHANGED <<session, flow, accountVars, issued, historyVars>>

\* (Slip: the state is not compared.)
CallbackUnchecked(f, b) ==
  /\ flow[f].step = "started"
  /\ flow' = [flow EXCEPT ![f].at = b, ![f].step = "exchanging"]
  /\ UNCHANGED <<browserVars, accountVars, issued, historyVars>>

\* GET /auth/google/callback in whatever browser follows the provider's redirect:
\* refused unless its cookies are those of the flow.
Callback(f, b) ==
  /\ flow[f].step = "started"
  /\ flow' = [flow EXCEPT ![f].at = b,
                          ![f].step = IF cookie[b] = f THEN "exchanging"
                                      ELSE "refused"]
  /\ UNCHANGED <<browserVars, accountVars, issued, historyVars>>

\* verify_callback: the code is exchanged and the ID token is the person's.
Verify(f) ==
  /\ flow[f].step = "exchanging"
  /\ Become(f, "verified")
  /\ UNCHANGED <<browserVars, accountVars, issued, historyVars>>

\* It does not answer within its client's timeout, or refuses.
ProviderFails(f) ==
  /\ flow[f].step = "exchanging"
  /\ Become(f, "refused")
  /\ UNCHANGED <<browserVars, accountVars, issued, historyVars>>

\* A statement or a commit raises.
StatementFails(f) ==
  /\ flow[f].step \in {"verified", "unknown", "known", "loaded"}
  /\ Become(f, "refused")
  /\ UNCHANGED <<browserVars, accountVars, issued, historyVars>>

\* get_by_external_identity.
Find(f) ==
  LET u == identity[PersonOf[f]] IN
  /\ flow[f].step = "verified"
  /\ flow' = [flow EXCEPT ![f] =
                IF u = None THEN [@ EXCEPT !.step = "unknown"]
                ELSE [@ EXCEPT !.step = "known", !.user = u,
                               !.found = enabled[u]]]
  /\ UNCHANGED <<browserVars, accountVars, issued, historyVars>>

Insert(f) ==
  /\ users' = users \union {f}
  /\ identity' = [identity EXCEPT ![PersonOf[f]] = f]
  /\ enabled' = [enabled EXCEPT ![f] = TRUE]
  /\ flow' = [flow EXCEPT ![f].step = "signed", ![f].user = f]

\* Slip: no unique constraint on (provider, provider_subject).
CreateAnyway(f) ==
  /\ flow[f].step = "unknown"
  /\ Insert(f)
  /\ UNCHANGED <<browserVars, issued, historyVars>>

\* create_user_with_identity: both rows in one commit, or, when another flow has
\* made the identity since, neither and an error.
Create(f) ==
  /\ flow[f].step = "unknown"
  /\ IF identity[PersonOf[f]] = None THEN Insert(f)
     ELSE Become(f, "refused") /\ UNCHANGED accountVars
  /\ UNCHANGED <<browserVars, issued, historyVars>>

\* update_user_and_identity, session.get: the model of the first SELECT if the
\* session still holds it, else the row as it is now.
Load(f) ==
  /\ flow[f].step = "known"
  /\ \E base \in {flow[f].found, enabled[flow[f].user]} :
       flow' = [flow EXCEPT ![f].step = "loaded", ![f].base = base]
  /\ UNCHANGED <<browserVars, accountVars, issued, historyVars>>

\* Slip: every column is written, whether it differs or not.
WrittenAlways(f) == flow[f].found

\* The value is_active has after the flush: the entity's if the model's differs,
\* else the UPDATE leaves the column out.
Written(f) ==
  IF flow[f].found # flow[f].base THEN flow[f].found
  ELSE enabled[flow[f].user]

Update(f) ==
  /\ flow[f].step = "loaded"
  /\ enabled' = [enabled EXCEPT ![flow[f].user] = Written(f)]
  /\ Become(f, "signed")
  /\ UNCHANGED <<browserVars, users, identity, issued, historyVars>>

\* create_session and create_jwt_cookie, for whatever account it is.
Issue(f) ==
  /\ flow[f].step = "signed"
  /\ Become(f, "done")
  /\ issued' = issued \union {f}
  /\ UNCHANGED <<browserVars, accountVars, historyVars>>

\* The response reaches the browser (or is lost, and this is never taken).
Receive(f) ==
  LET b == flow[f].at IN
  /\ flow[f].step = "done"
  /\ session[b] # f
  /\ f \notin loggedOut
  /\ session' = [session EXCEPT ![b] = f]
  /\ cookie' = [cookie EXCEPT ![b] = None]
  /\ UNCHANGED <<flow, accountVars, issued, historyVars>>

-----------------------------------------------------------------------------
\* get_verified_session and get_current_user: the token is not expired and its
\* account exists and is enabled now.
Accepted(f) == f \in issued /\ flow[f].user \in users /\ enabled[flow[f].user]

Expire(f) ==
  /\ issued' = issued \ {f}
  /\ f \in issued
  /\ UNCHANGED <<browserVars, flow, accountVars, historyVars>>

\* POST /auth/logout, for a session that is accepted: the cookie is deleted.
Logout(b) ==
  /\ session[b] # None
  /\ Accepted(session[b])
  /\ loggedOut' = loggedOut \union {session[b]}
  /\ session' = [session EXCEPT ![b] = None]
  /\ UNCHANGED <<cookie, flow, accountVars, issued, disabled, overtaken>>

\* The flows between the two reads of u, or whose reads did not agree.
Undecided(u) ==
  {f \in Flows : /\ flow[f].user = u
                 /\ \/ flow[f].step = "known"
                    \/ flow[f].step = "loaded" /\ flow[f].found # flow[f].base}

\* An administrator's statement, outside the application.
Disable(u) ==
  /\ u \in users /\ enabled[u]
  /\ enabled' = [enabled EXCEPT ![u] = FALSE]
  /\ disabled' = IF Undecided(u) = {} THEN disabled \union {u} ELSE disabled
  /\ UNCHANGED <<browserVars, flow, users, identity, issued, loggedOut, overtaken>>

Enable(u) ==
  /\ u \in users /\ ~enabled[u]
  /\ enabled' = [enabled EXCEPT ![u] = TRUE]
  /\ disabled' = disabled \ {u}
  /\ UNCHANGED <<browserVars, flow, users, identity, issued, loggedOut, overtaken>>

-----------------------------------------------------------------------------
CallbackStep(f) ==
  \/ Verify(f)
  \/ ProviderFails(f)
  \/ Find(f)
  \/ Create(f)
  \/ Load(f)
  \/ Update(f)
  \/ Issue(f)

Init ==
  /\ cookie = [b \in Browsers |-> None]
  /\ session = [b \in Browsers |-> None]
  /\ flow = [f \in Flows |-> NewFlow]
  /\ users = {}
  /\ identity = [p \in People |-> None]
  /\ enabled = [f \in Flows |-> FALSE]
  /\ issued = {}
  /\ loggedOut = {}
  /\ disabled = {}
  /\ overtaken = {}

Next ==
  \/ \E f \in Flows :
       \/ \E b \in Browsers : Start(f, b) \/ Callback(f, b)
       \/ CallbackStep(f)
       \/ StatementFails(f)
       \/ Receive(f)
       \/ Expire(f)
       \/ Disable(f)
       \/ Enable(f)
  \/ \E b \in Browsers : CookieExpires(b) \/ Logout(b)

Spec == Init /\ [][Next]_vars

-----------------------------------------------------------------------------
\* However first sign-ins overlap, a person has one account: every account is the
\* one its identity leads to, and every signed-in flow has the account of its
\* person.
OneAccountPerPerson ==
  /\ \A u \in users : identity[PersonOf[u]] = u
  /\ \A f \in Flows :
       flow[f].step \in {"known", "loaded", "signed", "done"} =>
         flow[f].user \in users /\ flow[f].user = identity[PersonOf[f]]

CalledBack ==
  {f \in Flows : flow[f].step \in {"exchanging", "verified", "unknown", "known",
                                   "loaded", "signed", "done"}}

\* A browser holds only sessions it began itself: a callback followed in another
\* browser, or in the same one after another tab has started over and put its
\* cookies in their place, signs nobody in.
SessionsBeginHere ==
  /\ \A b \in Browsers : session[b] # None => flow[session[b]].began = b
  /\ \A f \in CalledBack : flow[f].began = flow[f].at /\ f \notin overtaken

\* Disabling an account lasts until it is enabled again, unless it comes between
\* the two reads of a sign-in: only then does the stale entity of the first differ
\* from the row of the second and is written over it.
DisablingLasts == \A u \in disabled : ~enabled[u]
=============================================================================
