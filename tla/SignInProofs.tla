---------------------------- MODULE SignInProofs ----------------------------
(***************************************************************************)
(* What SignIn keeps for any number of people, browsers and sign-ins.      *)
(*                                                                         *)
(* OneAccountPerPerson, SessionsBeginHere and DisablingLasts are not       *)
(* inductive: a callback trusts the browser's cookies, Create trusts that  *)
(* no identity points to an account that is not there, and a disabled      *)
(* account may meet a sign-in that has read it already.  CookiesAreTrue,   *)
(* AccountsAreFound and ReadsAreHarmless say what those rest on.           *)
(***************************************************************************)
EXTENDS SignIn, TLAPS

\* A browser's cookies are those of the last flow it began, a session is one that
\* came through its callback, and an overtaken flow has begun.
CookiesAreTrue ==
  /\ \A b \in Browsers :
       cookie[b] # None =>
         /\ flow[cookie[b]].began = b /\ flow[cookie[b]].step # "new"
         /\ cookie[b] \notin overtaken
  /\ \A b \in Browsers : session[b] # None => flow[session[b]].step = "done"
  /\ \A f \in overtaken : flow[f].step # "new"

\* An identity leads to an account of its person, and a flow makes its account in
\* its last step but one.
AccountsAreFound ==
  /\ \A p \in People : identity[p] # None =>
       identity[p] \in users /\ PersonOf[identity[p]] = p
  /\ \A f \in Flows :
       flow[f].step \in {"new", "started", "exchanging", "verified", "unknown"} =>
         f \notin users

\* What sign-ins have read of a disabled account does not enable it.
ReadsAreHarmless ==
  /\ disabled \subseteq users
  /\ \A f \in Flows :
       flow[f].user \in disabled =>
         /\ flow[f].step = "known" => ~flow[f].found
         /\ flow[f].step = "loaded" =>
              ~flow[f].found \/ flow[f].found = flow[f].base

SignInInv ==
  /\ SignInTypeOK
  /\ CookiesAreTrue
  /\ SessionsBeginHere
  /\ AccountsAreFound
  /\ OneAccountPerPerson
  /\ ReadsAreHarmless
  /\ DisablingLasts

-----------------------------------------------------------------------------
\* A flow that moves is a record again, and the others stay as they are.
LEMMA FlowMoves ==
  ASSUME SignInTypeOK, NEW f \in Flows, NEW q \in FlowRecord,
         flow' = [flow EXCEPT ![f] = q]
  PROVE  /\ flow' \in [Flows -> FlowRecord]
         /\ flow'[f] = q
         /\ \A g \in Flows \ {f} : flow'[g] = flow[g]
BY DEF SignInTypeOK

\* The same where only the step changes.
LEMMA BecomeIs ==
  ASSUME SignInTypeOK, NEW f \in Flows,
         NEW step \in {"started", "exchanging", "verified", "unknown", "signed",
                       "done", "refused"},
         Become(f, step)
  PROVE  /\ flow' \in [Flows -> FlowRecord]
         /\ flow'[f] = [flow[f] EXCEPT !.step = step]
         /\ \A g \in Flows \ {f} : flow'[g] = flow[g]
<1>1. flow[f] \in FlowRecord
  BY DEF SignInTypeOK
<1>2. [flow[f] EXCEPT !.step = step] \in FlowRecord
  BY <1>1 DEF FlowRecord
<1> QED BY <1>2, FlowMoves DEF Become

(***************************************************************************)
(* What a step does to the flows, by action.                               *)
(***************************************************************************)
LEMMA StartIs ==
  ASSUME SignInTypeOK, NEW f \in Flows, NEW b \in Browsers, Start(f, b)
  PROVE  /\ flow' \in [Flows -> FlowRecord]
         /\ flow'[f] = [flow[f] EXCEPT !.step = "started", !.began = b]
         /\ \A g \in Flows \ {f} : flow'[g] = flow[g]
<1> DEFINE q == [flow[f] EXCEPT !.step = "started", !.began = b]
<1>1. flow[f] \in FlowRecord
  BY DEF SignInTypeOK
<1>2. q \in FlowRecord
  BY <1>1 DEF FlowRecord
<1>3. flow' = [flow EXCEPT ![f] = q]
  BY DEF Start
<1> QED BY <1>2, <1>3, FlowMoves

\* The provider redirects the browser to the callback.
LEMMA CallbackIs ==
  ASSUME SignInTypeOK, NEW f \in Flows, NEW b \in Browsers, Callback(f, b)
  PROVE  /\ flow' \in [Flows -> FlowRecord]
         /\ flow'[f] =
              [flow[f] EXCEPT !.at = b,
                              !.step = IF cookie[b] = f THEN "exchanging"
                                       ELSE "refused"]
         /\ \A g \in Flows \ {f} : flow'[g] = flow[g]
<1> DEFINE q == [flow[f] EXCEPT !.at = b,
                                !.step = IF cookie[b] = f THEN "exchanging"
                                         ELSE "refused"]
<1>1. flow[f] \in FlowRecord
  BY DEF SignInTypeOK
<1>2. q \in FlowRecord
  BY <1>1 DEF FlowRecord
<1>3. flow' = [flow EXCEPT ![f] = q]
  BY DEF Callback
<1> QED BY <1>2, <1>3, FlowMoves

\* The look for an account.
LEMMA FindIs ==
  ASSUME SignInTypeOK, AccountsAreFound, NEW f \in Flows, Find(f)
  PROVE  LET u == identity[PersonOf[f]] IN
         /\ flow' \in [Flows -> FlowRecord]
         /\ flow'[f] = IF u = None THEN [flow[f] EXCEPT !.step = "unknown"]
                       ELSE [flow[f] EXCEPT !.step = "known", !.user = u,
                                            !.found = enabled[u]]
         /\ u # None => u \in users /\ u \in Flows
         /\ \A g \in Flows \ {f} : flow'[g] = flow[g]
<1> DEFINE u == identity[PersonOf[f]]
           q == IF u = None THEN [flow[f] EXCEPT !.step = "unknown"]
                ELSE [flow[f] EXCEPT !.step = "known", !.user = u,
                                     !.found = enabled[u]]
<1>1. flow[f] \in FlowRecord /\ PersonOf[f] \in People
  BY SignInConstants DEF SignInTypeOK
<1>2. u # None => u \in users /\ u \in Flows
  BY <1>1 DEF AccountsAreFound, SignInTypeOK
<1>3. u # None => enabled[u] \in BOOLEAN
  BY <1>2 DEF SignInTypeOK
<1>4. q \in FlowRecord
  BY <1>1, <1>2, <1>3 DEF FlowRecord
<1>5. flow' = [flow EXCEPT ![f] = q]
  BY DEF Find
<1>6. /\ flow' \in [Flows -> FlowRecord]
      /\ flow'[f] = q
      /\ \A g \in Flows \ {f} : flow'[g] = flow[g]
  <2> HIDE DEF q
  <2> QED BY <1>4, <1>5, FlowMoves
<1> QED BY <1>2, <1>6

\* The insert of an account.
LEMMA InsertIs ==
  ASSUME SignInTypeOK, NEW f \in Flows, Insert(f)
  PROVE  /\ flow' \in [Flows -> FlowRecord]
         /\ flow'[f] = [flow[f] EXCEPT !.step = "signed", !.user = f]
         /\ \A g \in Flows \ {f} : flow'[g] = flow[g]
<1> DEFINE q == [flow[f] EXCEPT !.step = "signed", !.user = f]
<1>1. flow[f] \in FlowRecord
  BY DEF SignInTypeOK
<1>2. q \in FlowRecord
  BY <1>1 DEF FlowRecord
<1>3. flow' = [flow EXCEPT ![f] = q]
  BY DEF Insert
<1> QED BY <1>2, <1>3, FlowMoves

\* The load of an account, whose values the session may already hold.
LEMMA LoadIs ==
  ASSUME SignInTypeOK, OneAccountPerPerson, NEW f \in Flows, Load(f)
  PROVE  \E base \in {flow[f].found, enabled[flow[f].user]} :
           /\ base \in BOOLEAN
           /\ flow' \in [Flows -> FlowRecord]
           /\ flow'[f] = [flow[f] EXCEPT !.step = "loaded", !.base = base]
           /\ \A g \in Flows \ {f} : flow'[g] = flow[g]
<1>1. PICK base \in {flow[f].found, enabled[flow[f].user]} :
        flow' = [flow EXCEPT ![f].step = "loaded", ![f].base = base]
  BY DEF Load
<1> DEFINE q == [flow[f] EXCEPT !.step = "loaded", !.base = base]
<1>2. flow[f] \in FlowRecord
  BY DEF SignInTypeOK
<1>3. flow[f].user \in Flows
  BY DEF Load, OneAccountPerPerson, SignInTypeOK
<1>4. flow[f].found \in BOOLEAN /\ enabled[flow[f].user] \in BOOLEAN
  BY <1>2, <1>3 DEF SignInTypeOK, FlowRecord
<1>5. base \in BOOLEAN
  BY <1>4
<1>6. q \in FlowRecord
  BY <1>2, <1>5 DEF FlowRecord
<1>7. flow' = [flow EXCEPT ![f] = q]
  BY <1>1
<1> QED BY <1>5, <1>6, <1>7, FlowMoves

-----------------------------------------------------------------------------
(***************************************************************************)
(* The parts of the invariant that speak of browsers, then those that speak*)
(* of accounts, after a step that moves flow f alone.                      *)
(***************************************************************************)
LEMMA BrowsersKeep ==
  ASSUME SignInInv, NEW f \in Flows, UNCHANGED <<browserVars, historyVars>>,
         flow' \in [Flows -> FlowRecord],
         \A g \in Flows \ {f} : flow'[g] = flow[g],
         flow'[f].began = flow[f].began,
         flow'[f].at = flow[f].at,
         flow'[f].step # "new",
         flow[f].step \in {"exchanging", "verified", "unknown", "known", "loaded",
                           "signed"}
  PROVE  CookiesAreTrue' /\ SessionsBeginHere'
<1>1. CookiesAreTrue'
  BY DEF SignInInv, SignInTypeOK, CookiesAreTrue, browserVars, historyVars
<1>2. SessionsBeginHere'
  BY DEF SignInInv, SignInTypeOK, CookiesAreTrue, SessionsBeginHere, CalledBack,
         browserVars, historyVars
<1> QED BY <1>1, <1>2

\* What the steps of other browsers leave of the accounts.
LEMMA AccountsKeep ==
  ASSUME SignInInv, NEW f \in Flows, UNCHANGED <<accountVars, disabled>>,
         flow' \in [Flows -> FlowRecord],
         \A g \in Flows \ {f} : flow'[g] = flow[g],
         flow'[f].user = flow[f].user,
         flow'[f].step \in {"new", "started", "exchanging", "verified", "unknown"} =>
           flow[f].step \in {"new", "started", "exchanging", "verified", "unknown"},
         flow'[f].step \in {"signed", "done"} => flow[f].step = "signed",
         flow'[f].step \notin {"known", "loaded"}
  PROVE  AccountsAreFound' /\ OneAccountPerPerson' /\ ReadsAreHarmless' /\ DisablingLasts'
<1>1. AccountsAreFound' /\ DisablingLasts'
  BY DEF SignInInv, AccountsAreFound, DisablingLasts, accountVars
<1>2. OneAccountPerPerson'
  BY DEF SignInInv, OneAccountPerPerson, accountVars
<1>3. ReadsAreHarmless'
  BY DEF SignInInv, ReadsAreHarmless, accountVars
<1> QED BY <1>1, <1>2, <1>3

-----------------------------------------------------------------------------
\* Find: the account is its person's, and found disabled when it is.
LEMMA FindKeeps ==
  ASSUME SignInInv, NEW f \in Flows, Find(f)
  PROVE  SignInInv'
<1>1. /\ flow' \in [Flows -> FlowRecord]
      /\ flow'[f] = IF identity[PersonOf[f]] = None
                    THEN [flow[f] EXCEPT !.step = "unknown"]
                    ELSE [flow[f] EXCEPT !.step = "known",
                                         !.user = identity[PersonOf[f]],
                                         !.found = enabled[identity[PersonOf[f]]]]
      /\ identity[PersonOf[f]] # None => identity[PersonOf[f]] \in users
      /\ \A g \in Flows \ {f} : flow'[g] = flow[g]
  BY FindIs DEF SignInInv
<1>2. /\ flow[f].step = "verified" /\ flow[f] \in FlowRecord
      /\ UNCHANGED <<browserVars, accountVars, issued, historyVars>>
  BY DEF Find, SignInInv, SignInTypeOK
<1>3. /\ flow'[f].began = flow[f].began
      /\ flow'[f].at = flow[f].at
      /\ flow'[f].step \in {"unknown", "known"}
      /\ flow'[f].step = "known" =>
           /\ flow'[f].user = identity[PersonOf[f]]
           /\ flow'[f].user \in users
           /\ flow'[f].found = enabled[flow'[f].user]
      /\ flow'[f].step = "unknown" => flow'[f].user = flow[f].user
  BY <1>1, <1>2 DEF FlowRecord
<1>4. SignInTypeOK'
  BY <1>1, <1>2 DEF SignInInv, SignInTypeOK, browserVars, accountVars, historyVars
<1>5. CookiesAreTrue' /\ SessionsBeginHere'
  BY <1>1, <1>2, <1>3, BrowsersKeep
<1>6. AccountsAreFound' /\ DisablingLasts'
  BY <1>1, <1>2, <1>3 DEF SignInInv, AccountsAreFound, DisablingLasts, accountVars,
                          historyVars
<1>7. OneAccountPerPerson'
  BY <1>1, <1>2, <1>3 DEF SignInInv, OneAccountPerPerson, accountVars
<1>8. ReadsAreHarmless'
  BY <1>1, <1>2, <1>3 DEF SignInInv, ReadsAreHarmless, DisablingLasts, accountVars,
                          historyVars
<1> QED BY <1>4, <1>5, <1>6, <1>7, <1>8 DEF SignInInv

\* Create: the account is the only one of its person, and fresh.
LEMMA CreateKeeps ==
  ASSUME SignInInv, NEW f \in Flows, Create(f)
  PROVE  SignInInv'
<1>1. /\ flow[f].step = "unknown" /\ flow[f] \in FlowRecord /\ PersonOf[f] \in People
      /\ UNCHANGED <<browserVars, issued, historyVars>>
  BY SignInConstants DEF Create, SignInInv, SignInTypeOK
<1>2. CASE identity[PersonOf[f]] # None
  <2>1. /\ flow' \in [Flows -> FlowRecord]
        /\ flow'[f] = [flow[f] EXCEPT !.step = "refused"]
        /\ \A g \in Flows \ {f} : flow'[g] = flow[g]
        /\ UNCHANGED accountVars
    BY <1>2, BecomeIs DEF Create, SignInInv
  <2>2. /\ flow'[f].step = "refused" /\ flow'[f].user = flow[f].user
        /\ flow'[f].began = flow[f].began /\ flow'[f].at = flow[f].at
    BY <1>1, <2>1 DEF FlowRecord
  <2>3. SignInTypeOK'
    BY <1>1, <2>1 DEF SignInInv, SignInTypeOK, browserVars, accountVars, historyVars
  <2>4. CookiesAreTrue' /\ SessionsBeginHere'
    BY <1>1, <2>1, <2>2, BrowsersKeep
  <2>5. AccountsAreFound' /\ OneAccountPerPerson' /\ ReadsAreHarmless' /\ DisablingLasts'
    BY <1>1, <2>1, <2>2, AccountsKeep DEF historyVars
  <2> QED BY <2>3, <2>4, <2>5 DEF SignInInv
<1>3. CASE identity[PersonOf[f]] = None
  <2>1. Insert(f)
    BY <1>3 DEF Create
  <2>2. /\ flow' \in [Flows -> FlowRecord]
        /\ flow'[f] = [flow[f] EXCEPT !.step = "signed", !.user = f]
        /\ \A g \in Flows \ {f} : flow'[g] = flow[g]
    BY <2>1, InsertIs DEF SignInInv
  <2>3. /\ flow'[f].step = "signed" /\ flow'[f].user = f
        /\ flow'[f].began = flow[f].began /\ flow'[f].at = flow[f].at
    BY <1>1, <2>2 DEF FlowRecord
  <2>4. /\ users' = users \union {f} /\ users \subseteq Flows
        /\ identity' \in [People -> Flows \union {None}]
        /\ identity'[PersonOf[f]] = f
        /\ \A p \in People \ {PersonOf[f]} : identity'[p] = identity[p]
        /\ enabled' \in [Flows -> BOOLEAN]
        /\ \A u \in Flows \ {f} : enabled'[u] = enabled[u]
    BY <1>1, <2>1 DEF Insert, SignInInv, SignInTypeOK
  <2>5. SignInTypeOK'
    BY <1>1, <2>2, <2>4 DEF SignInInv, SignInTypeOK, browserVars, historyVars
  <2>6. CookiesAreTrue' /\ SessionsBeginHere'
    BY <1>1, <2>2, <2>3, BrowsersKeep
  <2>7. AccountsAreFound'
    <3>1. ASSUME NEW p \in People, identity'[p] # None
          PROVE  identity'[p] \in users' /\ PersonOf[identity'[p]] = p
      BY <1>1, <2>4, <3>1 DEF SignInInv, AccountsAreFound
    <3>2. ASSUME NEW g \in Flows,
                 flow'[g].step \in {"new", "started", "exchanging", "verified", "unknown"}
          PROVE  g \notin users'
      BY <2>2, <2>3, <2>4, <3>2 DEF SignInInv, AccountsAreFound
    <3> QED BY <3>1, <3>2 DEF AccountsAreFound
  <2>8. \A u \in users : PersonOf[u] \in People \ {PersonOf[f]}
    BY <1>3, <2>4, SignInConstants DEF SignInInv, OneAccountPerPerson
  <2>9. OneAccountPerPerson'
    <3>1. \A u \in users' : identity'[PersonOf[u]] = u
      BY <2>4, <2>8 DEF SignInInv, OneAccountPerPerson
    <3>2. ASSUME NEW g \in Flows \ {f},
                 flow[g].step \in {"known", "loaded", "signed", "done"}
          PROVE  flow[g].user \in users' /\ flow[g].user = identity'[PersonOf[g]]
      <4>1. flow[g].user \in users /\ flow[g].user = identity[PersonOf[g]]
        BY <3>2 DEF SignInInv, OneAccountPerPerson
      <4>2. PersonOf[g] \in People \ {PersonOf[f]}
        BY <1>3, <2>4, <4>1, SignInConstants
      <4> QED BY <2>4, <4>1, <4>2
    <3>3. flow'[f].user \in users' /\ flow'[f].user = identity'[PersonOf[f]]
      BY <2>3, <2>4
    <3>4. \A g \in Flows :
            flow'[g].step \in {"known", "loaded", "signed", "done"} =>
              flow'[g].user \in users' /\ flow'[g].user = identity'[PersonOf[g]]
      BY <2>2, <3>2, <3>3
    <3> QED BY <3>1, <3>4 DEF OneAccountPerPerson
  <2>10. f \notin disabled
    BY <1>1 DEF SignInInv, AccountsAreFound, ReadsAreHarmless
  <2>11. ReadsAreHarmless'
    BY <1>1, <2>2, <2>3, <2>4, <2>10 DEF SignInInv, ReadsAreHarmless, historyVars
  <2>12. DisablingLasts'
    BY <1>1, <2>4, <2>10
    DEF SignInInv, SignInTypeOK, DisablingLasts, historyVars
  <2> QED BY <2>5, <2>6, <2>7, <2>9, <2>11, <2>12 DEF SignInInv
<1> QED BY <1>2, <1>3

\* Load: of a disabled account the model holds what the entity holds, or FALSE.
LEMMA LoadKeeps ==
  ASSUME SignInInv, NEW f \in Flows, Load(f)
  PROVE  SignInInv'
<1>1. PICK base \in {flow[f].found, enabled[flow[f].user]} :
        /\ base \in BOOLEAN
        /\ flow' \in [Flows -> FlowRecord]
        /\ flow'[f] = [flow[f] EXCEPT !.step = "loaded", !.base = base]
        /\ \A g \in Flows \ {f} : flow'[g] = flow[g]
  BY LoadIs DEF SignInInv
<1>2. /\ flow[f].step = "known" /\ flow[f] \in FlowRecord
      /\ UNCHANGED <<browserVars, accountVars, issued, historyVars>>
  BY DEF Load, SignInInv, SignInTypeOK
<1>3. /\ flow'[f].step = "loaded" /\ flow'[f].user = flow[f].user
      /\ flow'[f].found = flow[f].found
      /\ flow'[f].began = flow[f].began /\ flow'[f].at = flow[f].at
  BY <1>1, <1>2 DEF FlowRecord
<1>4. SignInTypeOK'
  BY <1>1, <1>2 DEF SignInInv, SignInTypeOK, browserVars, accountVars, historyVars
<1>5. CookiesAreTrue' /\ SessionsBeginHere'
  BY <1>1, <1>2, <1>3, BrowsersKeep
<1>6. AccountsAreFound' /\ DisablingLasts'
  BY <1>1, <1>2, <1>3 DEF SignInInv, AccountsAreFound, DisablingLasts, accountVars,
                          historyVars
<1>7. OneAccountPerPerson'
  BY <1>1, <1>2, <1>3 DEF SignInInv, OneAccountPerPerson, accountVars
<1>8. ReadsAreHarmless'
  BY <1>1, <1>2, <1>3 DEF SignInInv, ReadsAreHarmless, accountVars, historyVars
<1> QED BY <1>4, <1>5, <1>6, <1>7, <1>8 DEF SignInInv

\* Update: what is written of a disabled account leaves it disabled.
LEMMA UpdateKeeps ==
  ASSUME SignInInv, NEW f \in Flows, Update(f)
  PROVE  SignInInv'
<1> DEFINE u == flow[f].user
<1>1. /\ flow[f].step = "loaded" /\ flow[f] \in FlowRecord
      /\ u \in users /\ u \in Flows
      /\ UNCHANGED <<browserVars, users, identity, issued, historyVars>>
  BY DEF Update, SignInInv, SignInTypeOK, OneAccountPerPerson
<1>2. /\ flow' \in [Flows -> FlowRecord]
      /\ flow'[f] = [flow[f] EXCEPT !.step = "signed"]
      /\ \A g \in Flows \ {f} : flow'[g] = flow[g]
  BY BecomeIs DEF Update, SignInInv
<1>3. /\ flow'[f].step = "signed" /\ flow'[f].user = flow[f].user
      /\ flow'[f].began = flow[f].began /\ flow'[f].at = flow[f].at
  BY <1>1, <1>2 DEF FlowRecord
<1>4. Written(f) \in BOOLEAN
  BY <1>1 DEF Written, SignInInv, SignInTypeOK, FlowRecord
<1>5. /\ enabled' \in [Flows -> BOOLEAN]
      /\ enabled'[u] = Written(f)
      /\ \A v \in Flows \ {u} : enabled'[v] = enabled[v]
  BY <1>1, <1>4 DEF Update, SignInInv, SignInTypeOK
<1>6. SignInTypeOK'
  BY <1>1, <1>2, <1>5 DEF SignInInv, SignInTypeOK, browserVars, historyVars
<1>7. CookiesAreTrue' /\ SessionsBeginHere'
  BY <1>1, <1>2, <1>3, BrowsersKeep
<1>8. AccountsAreFound'
  BY <1>1, <1>2, <1>3 DEF SignInInv, AccountsAreFound
<1>9. OneAccountPerPerson'
  BY <1>1, <1>2, <1>3 DEF SignInInv, OneAccountPerPerson
<1>10. ReadsAreHarmless'
  BY <1>1, <1>2, <1>3 DEF SignInInv, ReadsAreHarmless, historyVars
<1>11. u \in disabled => ~Written(f)
  BY <1>1 DEF SignInInv, ReadsAreHarmless, DisablingLasts, Written
<1>12. DisablingLasts'
  BY <1>1, <1>5, <1>11 DEF SignInInv, SignInTypeOK, DisablingLasts, historyVars
<1> QED BY <1>6, <1>7, <1>8, <1>9, <1>10, <1>12 DEF SignInInv

\* Disable and Enable: an account on which no sign-in is undecided is disabled.
LEMMA AdministratorKeeps ==
  ASSUME SignInInv, NEW u \in Flows, Disable(u) \/ Enable(u)
  PROVE  SignInInv'
<1>1. /\ u \in users
      /\ UNCHANGED <<browserVars, flow, users, identity, issued, loggedOut, overtaken>>
      /\ enabled' \in [Flows -> BOOLEAN]
      /\ \A v \in Flows \ {u} : enabled'[v] = enabled[v]
  BY DEF Disable, Enable, SignInInv, SignInTypeOK
<1>2. /\ disabled' \subseteq disabled \union {u}
      /\ u \in disabled' => ~enabled'[u]
  BY DEF Disable, Enable, SignInInv, SignInTypeOK, DisablingLasts
<1>3. u \in disabled' => u \in disabled \/ Undecided(u) = {}
  BY DEF Disable, Enable
<1>4. SignInTypeOK'
  BY <1>1, <1>2 DEF SignInInv, SignInTypeOK, browserVars
<1>5. CookiesAreTrue' /\ SessionsBeginHere'
  BY <1>1 DEF SignInInv, CookiesAreTrue, SessionsBeginHere, CalledBack, browserVars
<1>6. AccountsAreFound' /\ OneAccountPerPerson'
  BY <1>1 DEF SignInInv, AccountsAreFound, OneAccountPerPerson
<1>7. ReadsAreHarmless'
  BY <1>1, <1>2, <1>3 DEF SignInInv, ReadsAreHarmless, Undecided
<1>8. DisablingLasts'
  BY <1>1, <1>2 DEF SignInInv, SignInTypeOK, DisablingLasts
<1> QED BY <1>4, <1>5, <1>6, <1>7, <1>8 DEF SignInInv

\* Start and Callback: what the cookies say of the flows.
LEMMA BrowserFlowKeeps ==
  ASSUME SignInInv, NEW f \in Flows, NEW b \in Browsers,
         Start(f, b) \/ Callback(f, b)
  PROVE  SignInInv'
<1>1. /\ flow[f] \in FlowRecord /\ cookie \in [Browsers -> Flows \union {None}]
      /\ UNCHANGED <<accountVars, disabled>>
  BY DEF Start, Callback, SignInInv, SignInTypeOK, historyVars
<1>2. CASE Start(f, b)
  <2>1. /\ flow' \in [Flows -> FlowRecord]
        /\ flow'[f] = [flow[f] EXCEPT !.step = "started", !.began = b]
        /\ \A g \in Flows \ {f} : flow'[g] = flow[g]
    BY <1>2, StartIs DEF SignInInv
  <2>2. /\ flow'[f].step = "started" /\ flow'[f].began = b
        /\ flow'[f].user = flow[f].user
        /\ flow[f].step = "new"
        /\ cookie' = [cookie EXCEPT ![b] = f]
        /\ UNCHANGED session
        /\ overtaken' = overtaken \union
                          {g \in Flows : flow[g].step = "started" /\ flow[g].began = b}
    BY <1>1, <1>2, <2>1 DEF Start, FlowRecord
  <2>3. SignInTypeOK'
    BY <1>1, <1>2, <2>1, <2>2
    DEF Start, SignInInv, SignInTypeOK, accountVars, historyVars
  <2>4. f \notin overtaken /\ \A c \in Browsers : session[c] # f
    BY <2>2, SignInConstants DEF SignInInv, CookiesAreTrue
  <2>5. CookiesAreTrue' /\ SessionsBeginHere'
    <3>1. ASSUME NEW c \in Browsers, cookie'[c] # None
          PROVE  /\ flow'[cookie'[c]].began = c /\ flow'[cookie'[c]].step # "new"
                 /\ cookie'[c] \notin overtaken'
      <4>1. CASE c = b
        BY <1>1, <2>2, <2>4, <4>1
      <4>2. CASE c # b
        <5>1. cookie'[c] = cookie[c] /\ cookie[c] \in Flows
          BY <1>1, <2>2, <3>1, <4>2
        <5>2. /\ flow[cookie[c]].began = c /\ flow[cookie[c]].step # "new"
              /\ cookie[c] \notin overtaken
          BY <5>1, SignInConstants DEF SignInInv, CookiesAreTrue
        <5> QED BY <2>1, <2>2, <4>2, <5>1, <5>2
      <4> QED BY <4>1, <4>2
    <3>2. ASSUME NEW c \in Browsers, session[c] # None
          PROVE  /\ session[c] \in Flows \ {f} /\ flow[session[c]].step = "done"
                 /\ flow[session[c]].began = c
      BY <2>4, <3>2 DEF SignInInv, SignInTypeOK, CookiesAreTrue, SessionsBeginHere
    <3>3. \A g \in overtaken' : g \in Flows \ {f} /\ flow[g].step # "new"
      BY <2>2, <2>4 DEF SignInInv, SignInTypeOK, CookiesAreTrue
    <3>4. \A g \in CalledBack' : g \in CalledBack /\ flow'[g] = flow[g]
      BY <2>1, <2>2 DEF CalledBack
    <3>5. \A g \in CalledBack' : flow'[g].began = flow'[g].at /\ g \notin overtaken'
      BY <2>2, <3>4 DEF CalledBack, SignInInv, SessionsBeginHere
    <3>6. CookiesAreTrue'
      BY <2>1, <2>2, <3>1, <3>2, <3>3 DEF CookiesAreTrue
    <3> QED BY <2>1, <2>2, <3>2, <3>5, <3>6 DEF SessionsBeginHere
  <2>6. AccountsAreFound' /\ OneAccountPerPerson' /\ ReadsAreHarmless' /\ DisablingLasts'
    BY <1>1, <2>1, <2>2, AccountsKeep
  <2> QED BY <2>3, <2>5, <2>6 DEF SignInInv
<1>3. CASE Callback(f, b)
  <2>1. /\ flow' \in [Flows -> FlowRecord]
        /\ flow'[f] = [flow[f] EXCEPT !.at = b,
                                      !.step = IF cookie[b] = f THEN "exchanging"
                                               ELSE "refused"]
        /\ \A g \in Flows \ {f} : flow'[g] = flow[g]
    BY <1>3, CallbackIs DEF SignInInv
  <2>2. /\ flow'[f].step \in {"exchanging", "refused"}
        /\ flow'[f].step = "exchanging" => cookie[b] = f
        /\ flow'[f].began = flow[f].began /\ flow'[f].at = b
        /\ flow'[f].user = flow[f].user
        /\ flow[f].step = "started"
        /\ UNCHANGED <<cookie, session, overtaken>>
    BY <1>1, <1>3, <2>1 DEF Callback, FlowRecord, browserVars, historyVars
  <2>3. SignInTypeOK'
    BY <1>1, <1>3, <2>1
    DEF Callback, SignInInv, SignInTypeOK, browserVars, accountVars, historyVars
  <2>4. \A c \in Browsers : session[c] # None =>
          /\ session[c] \in Flows \ {f} /\ flow[session[c]].step = "done"
          /\ flow[session[c]].began = c
    BY <2>2 DEF SignInInv, SignInTypeOK, CookiesAreTrue, SessionsBeginHere
  <2>5. CookiesAreTrue'
    <3>1. \A c \in Browsers : cookie[c] # None =>
            /\ cookie[c] \in Flows /\ flow[cookie[c]].began = c
            /\ flow[cookie[c]].step # "new" /\ cookie[c] \notin overtaken
      BY <1>1 DEF SignInInv, CookiesAreTrue
    <3>2. \A g \in Flows :
            /\ flow'[g].began = flow[g].began
            /\ flow[g].step # "new" => flow'[g].step # "new"
      BY <2>1, <2>2
    <3>3. \A g \in overtaken : g \in Flows /\ flow[g].step # "new"
      BY DEF SignInInv, SignInTypeOK, CookiesAreTrue
    <3>4. \A c \in Browsers : cookie[c] # None =>
            /\ flow'[cookie[c]].began = c /\ flow'[cookie[c]].step # "new"
            /\ cookie[c] \notin overtaken
      BY <3>1, <3>2
    <3>5. \A c \in Browsers : session[c] # None => flow'[session[c]].step = "done"
      BY <2>1, <2>4
    <3>6. \A g \in overtaken : flow'[g].step # "new"
      BY <3>2, <3>3
    <3> QED BY <2>2, <3>4, <3>5, <3>6 DEF CookiesAreTrue
  <2>6. SessionsBeginHere'
    <3>1. cookie[b] = f => flow[f].began = b /\ f \notin overtaken
      BY SignInConstants DEF SignInInv, CookiesAreTrue
    <3>2. flow'[f].step = "exchanging" =>
            flow'[f].began = flow'[f].at /\ f \notin overtaken
      BY <2>2, <3>1
    <3>3. \A g \in CalledBack' \ {f} : g \in CalledBack /\ flow'[g] = flow[g]
      BY <2>1 DEF CalledBack
    <3>4. \A g \in CalledBack' : flow'[g].began = flow'[g].at /\ g \notin overtaken'
      BY <2>2, <3>2, <3>3 DEF SignInInv, SessionsBeginHere, CalledBack
    <3>5. \A c \in Browsers : session[c] # None => flow'[session[c]].began = c
      BY <2>1, <2>4
    <3> QED BY <2>2, <3>4, <3>5 DEF SessionsBeginHere
  <2>7. AccountsAreFound' /\ OneAccountPerPerson' /\ ReadsAreHarmless' /\ DisablingLasts'
    BY <1>1, <2>1, <2>2, AccountsKeep
  <2> QED BY <2>3, <2>5, <2>6, <2>7 DEF SignInInv
<1> QED BY <1>2, <1>3

\* Verify, ProviderFails, StatementFails and Issue: only a step is changed.
LEMMA MoveKeeps ==
  ASSUME SignInInv, NEW f \in Flows,
         Verify(f) \/ ProviderFails(f) \/ StatementFails(f) \/ Issue(f)
  PROVE  SignInInv'
<1>1. PICK step \in {"verified", "refused", "done"} :
        /\ Become(f, step)
        /\ step = "done" => flow[f].step = "signed"
        /\ step = "verified" => flow[f].step = "exchanging"
  BY DEF Verify, ProviderFails, StatementFails, Issue
<1>2. /\ flow[f].step \in {"exchanging", "verified", "unknown", "known", "loaded",
                           "signed"}
      /\ flow[f] \in FlowRecord
      /\ UNCHANGED <<browserVars, accountVars, historyVars>>
      /\ issued' \subseteq issued \union {f}
  BY DEF Verify, ProviderFails, StatementFails, Issue, SignInInv, SignInTypeOK
<1>3. /\ flow' \in [Flows -> FlowRecord]
      /\ flow'[f] = [flow[f] EXCEPT !.step = step]
      /\ \A g \in Flows \ {f} : flow'[g] = flow[g]
  BY <1>1, BecomeIs DEF SignInInv
<1>4. /\ flow'[f].step = step /\ flow'[f].user = flow[f].user
      /\ flow'[f].began = flow[f].began /\ flow'[f].at = flow[f].at
  BY <1>2, <1>3 DEF FlowRecord
<1>5. SignInTypeOK'
  BY <1>2, <1>3 DEF SignInInv, SignInTypeOK, browserVars, accountVars, historyVars
<1>6. CookiesAreTrue' /\ SessionsBeginHere'
  BY <1>2, <1>3, <1>4, BrowsersKeep
<1>7. AccountsAreFound' /\ OneAccountPerPerson' /\ ReadsAreHarmless' /\ DisablingLasts'
  BY <1>1, <1>2, <1>3, <1>4, AccountsKeep DEF historyVars
<1> QED BY <1>5, <1>6, <1>7 DEF SignInInv

\* What happens to cookies, sessions and tokens without a flow that moves.
LEMMA BrowserKeeps ==
  ASSUME SignInInv,
         \/ \E f \in Flows : Receive(f) \/ Expire(f)
         \/ \E b \in Browsers : CookieExpires(b) \/ Logout(b)
         \/ UNCHANGED vars
  PROVE  SignInInv'
<1>1. /\ UNCHANGED <<flow, accountVars, disabled, overtaken>>
      /\ issued' \subseteq issued
  BY DEF Receive, Expire, CookieExpires, Logout, historyVars, vars
<1>2. \A b \in Browsers : cookie'[b] \in {cookie[b], None}
  BY DEF Receive, Expire, CookieExpires, Logout, browserVars, vars, SignInInv,
         SignInTypeOK
<1>3. SignInTypeOK'
  <2>1. ASSUME NEW f \in Flows, Receive(f) \/ Expire(f)
        PROVE  SignInTypeOK'
    BY <2>1 DEF Receive, Expire, browserVars, accountVars, historyVars, SignInInv,
                SignInTypeOK
  <2>2. ASSUME NEW b \in Browsers, CookieExpires(b) \/ Logout(b)
        PROVE  SignInTypeOK'
    BY <2>2 DEF CookieExpires, Logout, Accepted, accountVars, historyVars, SignInInv,
                SignInTypeOK
  <2>3. CASE UNCHANGED vars
    BY <2>3 DEF vars, browserVars, accountVars, historyVars, SignInInv, SignInTypeOK
  <2> QED BY <2>1, <2>2, <2>3
<1>4. ASSUME NEW b \in Browsers, session'[b] # None
      PROVE  flow[session'[b]].step = "done" /\ flow[session'[b]].began = b
  <2>1. CASE session'[b] = session[b]
    BY <1>4, <2>1 DEF SignInInv, CookiesAreTrue, SessionsBeginHere
  <2>2. CASE session'[b] # session[b]
    <3>1. PICK f \in Flows : Receive(f)
      BY <1>4, <2>2 DEF Expire, CookieExpires, Logout, browserVars, vars, SignInInv,
                        SignInTypeOK
    <3>2. session' = [session EXCEPT ![flow[f].at] = f] /\ flow[f].step = "done"
      BY <3>1 DEF Receive
    <3>3. b = flow[f].at /\ session'[b] = f
      BY <2>2, <3>2 DEF SignInInv, SignInTypeOK
    <3>4. flow[f].began = flow[f].at
      BY <3>2 DEF SignInInv, SessionsBeginHere, CalledBack
    <3> QED BY <3>2, <3>3, <3>4
  <2> QED BY <2>1, <2>2
<1>5. /\ CookiesAreTrue' /\ SessionsBeginHere'
      /\ AccountsAreFound' /\ OneAccountPerPerson'
  <2>1. CookiesAreTrue'
    BY <1>1, <1>2, <1>4 DEF SignInInv, CookiesAreTrue
  <2>2. SessionsBeginHere'
    BY <1>1, <1>4 DEF SignInInv, SessionsBeginHere, CalledBack
  <2>3. AccountsAreFound' /\ OneAccountPerPerson'
    BY <1>1 DEF SignInInv, AccountsAreFound, OneAccountPerPerson, accountVars
  <2> QED BY <2>1, <2>2, <2>3
<1>6. ReadsAreHarmless' /\ DisablingLasts'
  BY <1>1 DEF SignInInv, ReadsAreHarmless, DisablingLasts, accountVars
<1> QED BY <1>3, <1>5, <1>6 DEF SignInInv

-----------------------------------------------------------------------------
\* The invariant holds at the start and is kept by every step.
THEOREM SignInInvHolds == Spec => []SignInInv
<1>1. Init => SignInInv
  <2> SUFFICES ASSUME Init PROVE SignInInv
    OBVIOUS
  <2>1. NewFlow \in FlowRecord
    BY DEF NewFlow, FlowRecord
  <2>2. SignInTypeOK
    BY <2>1 DEF Init, SignInTypeOK
  <2>3. CookiesAreTrue /\ SessionsBeginHere /\ AccountsAreFound
    BY DEF Init, NewFlow, CookiesAreTrue, SessionsBeginHere, CalledBack,
           AccountsAreFound
  <2>4. OneAccountPerPerson /\ ReadsAreHarmless /\ DisablingLasts
    BY DEF Init, NewFlow, OneAccountPerPerson, ReadsAreHarmless, DisablingLasts
  <2> QED BY <2>2, <2>3, <2>4 DEF SignInInv
<1>2. SignInInv /\ [Next]_vars => SignInInv'
  BY BrowserFlowKeeps, MoveKeeps, FindKeeps, CreateKeeps, LoadKeeps, UpdateKeeps,
     AdministratorKeeps, BrowserKeeps
  DEF Next, CallbackStep
<1> QED BY <1>1, <1>2, PTL DEF Spec

\* Rows, flows and cookies stay within their types.
THEOREM SignInIsTyped == Spec => []SignInTypeOK
<1>1. SignInInv => SignInTypeOK
  BY DEF SignInInv
<1> QED BY <1>1, SignInInvHolds, PTL

\* However many first sign-ins of however many people overlap, a person has one
\* account.
THEOREM AccountsStayUnique == Spec => []OneAccountPerPerson
<1>1. SignInInv => OneAccountPerPerson
  BY DEF SignInInv
<1> QED BY <1>1, SignInInvHolds, PTL

\* Among any number of browsers and tabs a session is in the browser that began
\* it, and its callback came before any other flow that browser began.
THEOREM SessionsStayAtHome == Spec => []SessionsBeginHere
<1>1. SignInInv => SessionsBeginHere
  BY DEF SignInInv
<1> QED BY <1>1, SignInInvHolds, PTL

\* No number of sign-ins enables an account that was disabled while none of them
\* was between its two reads of it.
THEOREM DisablingAlwaysLasts == Spec => []DisablingLasts
<1>1. SignInInv => DisablingLasts
  BY DEF SignInInv
<1> QED BY <1>1, SignInInvHolds, PTL
=============================================================================
