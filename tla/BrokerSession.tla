---------------------------- MODULE BrokerSession ----------------------------
(***************************************************************************)
(* One user's session with the broker: the KotakNeoAuth objects that hold  *)
(* a token, the shared session manager that hands them out, and the        *)
(* threads of the trading service and of the web API that use them.        *)
(*                                                                         *)
(* A login invalidates the token of every earlier one.  A call that meets  *)
(* an invalid token logs in and is repeated once: calls of the service     *)
(* under the lock and event of auth_handler.py, or, where the engine looks *)
(* at the answer itself, under none; calls of the web's broker adapter     *)
(* under a lock of its own.  get_client logs in when the session has       *)
(* reached its time to live.  Who holds a lock follows from where the      *)
(* threads are.                                                            *)
(*                                                                         *)
(* An object nobody references is free, and a new one may get its address: *)
(* auth_handler.py keeps events and failures by id(auth).  Left out are    *)
(* the cooldown of the session manager, whose two branches return the same *)
(* object, the adapter's failure limit, which a single request keeps out of reach,*)
(* and that the page calls get_client twice.                               *)
(*                                                                         *)
(* Definitions named Mut... are deliberately wrong forms of the definition *)
(* that follows them; no action uses them (see the README).                *)
(***************************************************************************)
EXTENDS Naturals, FiniteSets

CONSTANTS
    Auths,         \* addresses of KotakNeoAuth objects
    NoAuth,        \* "no object"
    Tasks,         \* threads of the trading service
    Requests,      \* threads of the web API
    MaxFailures,   \* _MAX_REAUTH_FAILURES
    Exposures      \* bound: the events of a behaviour, each once

EventKinds == {"page", "sync", "clear", "revoke", "loginFails", "restart", "age", "busy"}
Threads    == Tasks \cup Requests

ASSUME SessionAssumption ==
    /\ NoAuth \notin Auths /\ Tasks \cap Requests = {} /\ IsFiniteSet(Tasks)
    /\ MaxFailures \in Nat \ {0}
    /\ Exposures \subseteq SUBSET EventKinds

VARIABLES
    auth,      \* the objects: login state, token, age; event and failures of their id
    svcAuth,   \* self.auth of the trading service
    shared,    \* the session manager's object for the user
    th,        \* the threads: where, with which object, for whom the login is
    events, exposed

vars == <<auth, svcAuth, shared, th, events, exposed>>

-----------------------------------------------------------------------------
Idle == [pc |-> "idle", at |-> NoAuth, by |-> "none", kind |-> "none",
         try |-> 1, good |-> FALSE]

Happens(kind) == kind \in exposed \ events /\ events' = events \cup {kind}

Spare == Auths \ ({svcAuth, shared} \cup {th[t].at : t \in Threads})

Valid(a)   == auth[a].in /\ ~auth[a].aged                \* is_session_valid
InLogin(t) == th[t].pc \in {"login", "logged"}

\* get_client, force_relogin and handle_reauth log in under the object's lock;
\* a new session and connect() call login(), which takes none.
Holds(t) == InLogin(t) /\ th[t].by \notin {"new", "connect"}

ClientLocked(a)   == \E t \in Threads : th[t].at = a /\ Holds(t)
Locked(a, by)     == \E t \in Threads : /\ th[t].at = a /\ th[t].by = by
                                        /\ th[t].pc \in {"clear", "force", "login", "logged"}
UserLocked        == \E t \in Threads : InLogin(t) /\ th[t].by = "new"

At(t, pc)       == th[t].pc = pc
Goto(t, pc)     == th' = [th EXCEPT ![t].pc = pc]
Login(t, pc, by) == th' = [th EXCEPT ![t].pc = pc, ![t].by = by]
Finish(t)       == th' = [th EXCEPT ![t] = Idle]
Repeat(t)       == th' = [th EXCEPT ![t].pc = "client", ![t].by = "none", ![t].try = 2]

MutLoggedOut(a) == [auth[a] EXCEPT !.tok = "none"]     \* still "logged in"
LoggedOut(a) == [auth[a] EXCEPT !.in = FALSE, !.tok = "none"]

Failed(a)    == [auth[a] EXCEPT !.fails = @ + 1]

-----------------------------------------------------------------------------
(* Which object a thread works with *)

\* A task uses the service's object; the first one asks for the shared object.
\* Several tasks call at a time where the scenario has "busy".
BeginTask(t) ==
    /\ At(t, "idle")
    /\ "busy" \in exposed \/ \A u \in Tasks : At(u, "idle")
    /\ \/ /\ svcAuth # NoAuth
          /\ th' = [th EXCEPT ![t].pc = "client", ![t].at = svcAuth, ![t].kind = "task"]
       \/ /\ svcAuth = NoAuth /\ \A u \in Tasks : At(u, "idle")
          /\ th' = [th EXCEPT ![t].pc = "session", ![t].kind = "task"]
    /\ UNCHANGED <<auth, svcAuth, shared, events>>

BeginRequest(t) ==
    /\ At(t, "idle")
    /\ \E kind \in {"page", "sync"} :
           Happens(kind) /\ th' = [th EXCEPT ![t].pc = "session", ![t].kind = kind]
    /\ UNCHANGED <<auth, svcAuth, shared>>

\* The synchronisation of orders passes its database session as force_new; the
\* page does so after it has cleared a session without a client.
ForceNew(t) == th[t].kind \in {"sync", "again"}

MutReusable(a) == Valid(a) /\ ~ClientLocked(a)     \* a re-login counts as logged out
Reusable(a) == Valid(a)

\* get_or_create_session returns object a.
Given(t, a) ==
    /\ svcAuth' = IF th[t].kind = "task" THEN a ELSE svcAuth
    /\ th' = [th EXCEPT ![t].at = a, ![t].by = "none",
                        ![t].pc = IF th[t].kind = "sync" THEN "connect" ELSE "client"]

Reuse(t) ==
    /\ At(t, "session") /\ ~UserLocked
    /\ ~ForceNew(t) /\ shared # NoAuth /\ Reusable(shared)
    /\ Given(t, shared)
    /\ UNCHANGED <<auth, shared, events>>

Create(t) ==
    /\ At(t, "session") /\ ~UserLocked
    /\ Spare # {}                                          \* bound: addresses
    /\ shared # NoAuth => ForceNew(t) \/ ~Reusable(shared)
    /\ shared' = IF ForceNew(t) THEN shared ELSE NoAuth
    /\ LET a == CHOOSE a \in Spare : TRUE IN
           /\ auth' = [auth EXCEPT ![a] = [LoggedOut(a) EXCEPT !.aged = FALSE]]
           /\ th' = [th EXCEPT ![t].pc = "login", ![t].by = "new", ![t].at = a]
    /\ UNCHANGED <<svcAuth, events>>

Connect(t) ==
    /\ At(t, "connect")
    /\ Login(t, "login", "connect")
    /\ UNCHANGED <<auth, svcAuth, shared, events>>

-----------------------------------------------------------------------------
(* A call *)

OfService(t) == th[t].kind \in {"task", "second"}

HasClient(t, a) == th' = [th EXCEPT ![t].pc = "send", ![t].by = "none",
                                    ![t].good = auth[a].tok = "valid"]

\* The page finds a logged-in object without a client: it clears the session and
\* asks for a new one.
ClearAndRetry(t) ==
    /\ shared' = NoAuth
    /\ auth' = IF shared # NoAuth THEN [auth EXCEPT ![shared] = LoggedOut(shared)] ELSE auth
    /\ th' = [th EXCEPT ![t].pc = "session", ![t].at = NoAuth, ![t].kind = "again"]

NoClient(t) ==
    IF th[t].kind = "page" /\ th[t].try = 1
    THEN ClearAndRetry(t)
    ELSE Finish(t) /\ UNCHANGED <<auth, shared>>

\* get_client, under the object's lock.
GetClient(t) ==
    /\ At(t, "client") /\ ~ClientLocked(th[t].at)
    /\ LET a == th[t].at IN
       \/ /\ Valid(a) /\ auth[a].tok # "none"
          /\ HasClient(t, a) /\ UNCHANGED <<auth, shared>>
       \/ Valid(a) /\ auth[a].tok = "none" /\ NoClient(t)
       \/ ~Valid(a) /\ Login(t, "login", "client") /\ UNCHANGED <<auth, shared>>
    /\ UNCHANGED <<svcAuth, events>>

\* get_rest_client, which the portfolio calls without the lock.
GetRestClient(t) ==
    /\ At(t, "client") /\ OfService(t)
    /\ LET a == th[t].at IN
       IF auth[a].in /\ auth[a].tok # "none" THEN HasClient(t, a) ELSE Finish(t)
    /\ UNCHANGED <<auth, svcAuth, shared, events>>

Answered(t) ==
    /\ At(t, "send") /\ th[t].good
    /\ Finish(t)
    /\ auth' = IF OfService(t) /\ th[t].try = 2
               THEN [auth EXCEPT ![th[t].at].fails = 0] ELSE auth
    /\ UNCHANGED <<svcAuth, shared, events>>

MutBlocked(a) == FALSE                                 \* the limit is not looked at
Blocked(a) == auth[a].fails >= MaxFailures

\* The token is not valid: another login, or the end of the call.
AuthError(t) ==
    /\ At(t, "send") /\ ~th[t].good
    /\ LET a == th[t].at IN
       \/ /\ th[t].try = 2 /\ Finish(t)
          /\ auth' = IF OfService(t) THEN [auth EXCEPT ![a] = Failed(a)] ELSE auth
       \/ /\ th[t].try = 1 /\ OfService(t)
          /\ \/ ~Blocked(a) /\ Goto(t, "reauth")
             \/ Blocked(a) /\ Finish(t)
             \/ th[t].kind = "task" /\ Login(t, "force", "direct")             \* the engine looks itself, once
          /\ UNCHANGED auth
       \/ /\ th[t].try = 1 /\ ~OfService(t) /\ ~Locked(a, "adapter")
          /\ Login(t, "force", "adapter")
          /\ UNCHANGED auth
    /\ UNCHANGED <<svcAuth, shared, events>>

-----------------------------------------------------------------------------
(* _attempt_reauth_thread_safe *)

Reauth(t) ==
    /\ At(t, "reauth")
    /\ IF Locked(th[t].at, "reauth") THEN Goto(t, "await") ELSE Login(t, "clear", "reauth")
    /\ UNCHANGED <<auth, svcAuth, shared, events>>

ClearEvent(t) ==
    /\ At(t, "clear")
    /\ auth' = [auth EXCEPT ![th[t].at].event = FALSE]
    /\ Goto(t, "force")
    /\ UNCHANGED <<svcAuth, shared, events>>

Await(t) ==
    /\ At(t, "await")
    /\ IF auth[th[t].at].event THEN Repeat(t) ELSE Goto(t, "await2")     \* 30 seconds
    /\ UNCHANGED <<auth, svcAuth, shared, events>>

\* Five more seconds for the lock.
AwaitLock(t) ==
    /\ At(t, "await2")
    /\ LET a == th[t].at IN
       \/ /\ ~Locked(a, "reauth")
          /\ IF auth[a].event THEN Repeat(t) ELSE Login(t, "clear", "reauth")
          /\ UNCHANGED auth
       \/ /\ Locked(a, "reauth")
          /\ Finish(t)
          /\ auth' = [auth EXCEPT ![a] = Failed(a)]
    /\ UNCHANGED <<svcAuth, shared, events>>

\* force_relogin takes the object's lock; it does not ask whether the token
\* that failed has been replaced meanwhile.
Force(t) ==
    /\ At(t, "force") /\ ~ClientLocked(th[t].at)
    /\ Goto(t, "login")
    /\ UNCHANGED <<auth, svcAuth, shared, events>>

-----------------------------------------------------------------------------
(* A login *)

\* The broker accepts: the object has its token, nobody else's is valid.
LoginAccepted(t) ==
    /\ At(t, "login")
    /\ auth' = [b \in Auths |-> [auth[b] EXCEPT
                  !.tok = IF b = th[t].at THEN "valid" ELSE IF @ = "valid" THEN "stale" ELSE @]]
    /\ th' = [u \in Threads |-> [th[u] EXCEPT !.good = FALSE,
                                              !.pc = IF u = t THEN "logged" ELSE @]]
    /\ UNCHANGED <<svcAuth, shared, events>>

\* is_logged_in and the time of creation are set.
LoginDone(t) ==
    /\ At(t, "logged")
    /\ LET a == th[t].at IN
       /\ auth' = [auth EXCEPT ![a].in = TRUE, ![a].aged = FALSE,
                               ![a].event = @ \/ th[t].by = "reauth"]
       /\ \/ /\ th[t].by = "new"
             /\ shared' = a /\ Given(t, a)
          \/ /\ th[t].by = "client" /\ UNCHANGED <<svcAuth, shared>>
             /\ IF auth[a].tok # "none" THEN HasClient(t, a) ELSE Finish(t)
          \/ /\ th[t].by = "connect" /\ UNCHANGED <<svcAuth, shared>>
             /\ Login(t, "client", "none")
          \/ /\ th[t].by \in {"reauth", "adapter"} /\ UNCHANGED <<svcAuth, shared>>
             /\ Repeat(t)
          \/ /\ th[t].by = "direct" /\ UNCHANGED <<svcAuth, shared>>
             /\ th' = [th EXCEPT ![t].pc = "client", ![t].by = "none", ![t].kind = "second"]
    /\ UNCHANGED events

\* What a login that failed leaves of the object: login() touches nothing.
AfterFailure(t) ==
    CASE th[t].by \in {"new", "connect"} -> auth[th[t].at]
      [] th[t].by = "reauth" -> [LoggedOut(th[t].at) EXCEPT !.fails = Failed(th[t].at).fails]
      [] OTHER -> LoggedOut(th[t].at)

LoginFails(t) ==
    /\ At(t, "login") /\ Happens("loginFails")
    /\ auth' = [auth EXCEPT ![th[t].at] = AfterFailure(t)]
    /\ IF th[t].by = "client" /\ th[t].kind = "page" /\ th[t].try = 1
       THEN Login(t, "connect", "none")
       ELSE Finish(t)
    /\ UNCHANGED <<svcAuth, shared>>

-----------------------------------------------------------------------------
(* Around the calls *)

\* clear_session: new credentials, or the button of the test page.
ClearSession ==
    /\ shared # NoAuth /\ Happens("clear")
    /\ shared' = NoAuth
    /\ auth' = [auth EXCEPT ![shared] = IF @.in THEN LoggedOut(shared) ELSE @]
    /\ UNCHANGED <<svcAuth, th>>

\* The broker ends the session early.
Revoke ==
    /\ Happens("revoke")
    /\ auth' = [a \in Auths |-> [auth[a] EXCEPT !.tok = IF @ = "valid" THEN "stale" ELSE @]]
    /\ th' = [t \in Threads |-> [th[t] EXCEPT !.good = FALSE]]
    /\ UNCHANGED <<svcAuth, shared>>

\* The object reaches session_ttl.
Age(a) ==
    /\ a \notin Spare /\ Valid(a) /\ Happens("age")
    /\ auth' = [auth EXCEPT ![a].aged = TRUE]
    /\ UNCHANGED <<svcAuth, shared, th>>

WindowPasses(a) ==
    /\ auth[a].fails > 0
    /\ auth' = [auth EXCEPT ![a].fails = 0]
    /\ UNCHANGED <<svcAuth, shared, th, events>>

\* The service is stopped; it starts with the next task.
Restart ==
    /\ svcAuth # NoAuth /\ \A t \in Tasks : At(t, "idle")
    /\ Happens("restart")
    /\ svcAuth' = NoAuth
    /\ UNCHANGED <<auth, shared, th>>

-----------------------------------------------------------------------------
Init ==
    /\ auth = [a \in Auths |-> [in |-> FALSE, tok |-> "none", aged |-> FALSE,
                                event |-> FALSE, fails |-> 0]]
    /\ svcAuth = NoAuth /\ shared = NoAuth
    /\ th = [t \in Threads |-> Idle]
    /\ events = {} /\ exposed \in Exposures

Answers(t) ==
    \/ Reuse(t) \/ Create(t) \/ Connect(t)
    \/ GetClient(t) \/ GetRestClient(t) \/ Answered(t) \/ AuthError(t)
    \/ Reauth(t) \/ ClearEvent(t) \/ Await(t) \/ AwaitLock(t) \/ Force(t)
    \/ LoginAccepted(t) \/ LoginDone(t) \/ LoginFails(t)

Advance ==
    \/ \E t \in Tasks : BeginTask(t)
    \/ \E t \in Requests : BeginRequest(t)
    \/ \E t \in Threads : Answers(t)
    \/ \E a \in Auths : Age(a) \/ WindowPasses(a)
    \/ ClearSession \/ Revoke \/ Restart

Keep(A) == A /\ UNCHANGED exposed
Next == Keep(Advance)
Spec == Init /\ [][Next]_vars

TakesLock(t) == GetClient(t) \/ Force(t)

\* Threads are scheduled, the broker answers and every wait has its limit; a lock
\* that is free again and again is obtained; the service goes on calling, also
\* through get_client (the monitor reads the orders).  Nobody has to use the page.
FairSpec ==
    /\ Spec
    /\ \A t \in Threads : WF_vars(Keep(Answers(t))) /\ SF_vars(Keep(TakesLock(t)))
    /\ WF_vars(Keep(\E t \in Tasks : BeginTask(t)))
    /\ WF_vars(Keep(\E a \in Auths : WindowPasses(a)))

-----------------------------------------------------------------------------
(* Properties *)

AuthType == [in : BOOLEAN, tok : {"none", "valid", "stale"}, aged : BOOLEAN,
             event : BOOLEAN, fails : 0 .. MaxFailures - 1 + Cardinality(Tasks)]
ThreadType == [pc : {"idle", "session", "connect", "client", "send", "reauth", "clear",
                     "await", "await2", "force", "login", "logged"},
               at : Auths \cup {NoAuth},
               by : {"none", "new", "connect", "client", "direct", "reauth", "adapter"},
               kind : {"none", "task", "second", "page", "sync", "again"},
               try : {1, 2}, good : BOOLEAN]

\* Every variable stays within its type.
TypeOK ==
    /\ auth \in [Auths -> AuthType]
    /\ svcAuth \in Auths \cup {NoAuth} /\ shared \in Auths \cup {NoAuth}
    /\ th \in [Threads -> ThreadType] /\ events \subseteq EventKinds /\ exposed \in Exposures

\* SAFETY

\* As long as nobody is logged out on purpose or by a failed login, and no session
\* reaches its time to live, all threads share one object, although the broker may
\* revoke the token at any time: a re-login does not make the web replace the
\* session the service logs in again.
OneClient == svcAuth # NoAuth /\ shared # NoAuth => svcAuth = shared

OneClientCalm == exposed \subseteq {"page", "revoke", "restart", "busy"} => OneClient

\* LIVENESS, under FairSpec

\* No lock is waited for for ever: every call returns, with or without a client.
CallsEnd == \A t \in Threads : ~At(t, "idle") ~> At(t, "idle")

\* The service's calls succeed again and again: whatever login failed, whichever
\* token was revoked or replaced, the service finds its way back by itself.
ServiceRecovers ==
    "clear" \in exposed \/ []<><<Keep(\E t \in Tasks : Answered(t))>>_vars

\* Neither the locks nor a lost token stop anybody for ever.
SessionSurvives == CallsEnd /\ ServiceRecovers
=============================================================================
