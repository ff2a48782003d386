--------------------------- MODULE SessionInvariant ---------------------------
(***************************************************************************)
(* What the proofs about BrokerSession need beside its definitions: its    *)
(* inductive invariants, and what a step may do to them.  The proofs are   *)
(* in ServiceLifecycleProofs, about an instance of this module.            *)
(***************************************************************************)
EXTENDS BrokerSession

-----------------------------------------------------------------------------
(* The types, and what a thread may be in *)

AuthRecord == [in : BOOLEAN, tok : {"none", "valid", "stale"}, aged : BOOLEAN,
               event : BOOLEAN, fails : Nat]

InReauth(p) == p.pc \in {"reauth", "await", "await2", "clear"} \/ p.by = "reauth"

\* Only the service waits for re-logins and counts their failures.
Fits(t, p) ==
    /\ p \in ThreadType
    /\ t \in Tasks => p.by # "adapter" /\ (p.pc = "idle" \/ p.kind \in {"task", "second"})
    /\ t \in Requests => /\ p.kind \in {"none", "page", "sync", "again"}
                         /\ ~InReauth(p) /\ p.by # "direct"
    /\ p.pc = "idle" => p = Idle
    /\ p.pc = "session" => p.try = 1

FieldsOK ==
    /\ auth \in [Auths -> AuthRecord]
    /\ svcAuth \in Auths \cup {NoAuth} /\ shared \in Auths \cup {NoAuth}
    /\ events \subseteq EventKinds

Typed ==
    /\ FieldsOK /\ exposed \in Exposures
    /\ th \in [Threads -> ThreadType] /\ \A t \in Threads : Fits(t, th[t])

-----------------------------------------------------------------------------
(* How many failures an object collects *)

\* A thread that was admitted to a re-login with object a, and may still fail.
Counted(p, a) == p.at = a /\ (InReauth(p) \/ p.try = 2)
Admitted(a)   == {t \in Tasks : Counted(th[t], a)}

\* The limit is looked at once, when a thread is admitted: those that were admitted
\* before it was reached fail beyond it.
Limited ==
    \A a \in Auths : auth[a].fails + Cardinality(Admitted(a)) <= MaxFailures - 1 + Cardinality(Tasks)

\* What a step may do to the failures: nothing is added, an admitted thread fails, or one is
\* admitted below the limit.
Kept == \A a \in Auths : auth'[a].fails <= auth[a].fails
Counts(t) ==
    \A a \in Auths :
        \/ /\ auth'[a].fails <= auth[a].fails
           /\ t \in Tasks /\ Counted(th'[t], a) => Counted(th[t], a)
        \/ /\ t \in Tasks /\ auth'[a].fails = auth[a].fails + 1
           /\ Counted(th[t], a) /\ ~Counted(th'[t], a)
        \/ auth'[a].fails = auth[a].fails /\ auth[a].fails < MaxFailures

\* A step of one thread, and one that no thread or every thread notices.
Alone(t)   == th' = [th EXCEPT ![t] = th'[t]]
Behaves(t) == Alone(t) /\ Fits(t, th'[t]) /\ FieldsOK' /\ Counts(t)
Mild ==
    /\ FieldsOK' /\ Kept /\ th' \in [Threads -> ThreadType]
    /\ \A u \in Threads : /\ Fits(u, th'[u])
                          /\ \A a \in Auths : Counted(th'[u], a) => Counted(th[u], a)

StepKinds ==
    /\ UNCHANGED exposed
    /\ (\E t \in Threads : Behaves(t)) \/ Mild \/ UNCHANGED vars

-----------------------------------------------------------------------------
(* One object *)

\* Nobody is logged out on purpose or by a failed login, no session gets old.
CalmScene == exposed \subseteq {"page", "revoke", "restart", "busy"}

\* An object that is logged in keeps a token; the shared one is logged in, and the
\* service has none or this one.
CalmObjects ==
    /\ \A a \in Auths : ~auth[a].aged /\ (auth[a].in => auth[a].tok # "none")
    /\ shared # NoAuth => auth[shared].in
    /\ svcAuth \in {NoAuth, shared}

\* A thread works with the shared object, but for the one that creates it.
NewLogin(t) == InLogin(t) /\ th[t].by = "new"
CalmThread(t) ==
    /\ th[t].kind \notin {"sync", "again"} /\ th[t].pc # "connect" /\ th[t].by # "connect"
    /\ th[t].pc \in {"idle", "session"} <=> th[t].at = NoAuth
    /\ NewLogin(t) => shared = NoAuth
    /\ ~NewLogin(t) => th[t].at \in {NoAuth, shared}
    /\ th[t].by = "new" => InLogin(t)
    /\ th[t].pc = "logged" => auth[th[t].at].tok # "none"

Calm ==
    /\ CalmScene /\ CalmObjects
    /\ \A t \in Threads : CalmThread(t)
    /\ \A t, u \in Threads : NewLogin(t) /\ NewLogin(u) => t = u

CalmInv == CalmScene => Calm

\* What a calm step leaves of the objects: a login and a token are not lost.
Tame ==
    \A a \in Auths : /\ ~auth'[a].aged /\ (auth'[a].in => auth'[a].tok # "none")
                     /\ auth[a].in => auth'[a].in
                     /\ auth[a].tok # "none" => auth'[a].tok # "none"
Still == UNCHANGED <<svcAuth, shared, exposed>> /\ Tame

\* A call that goes on with its object, or ends.
Moves(t) ==
    /\ Alone(t) /\ th[t].pc \notin {"idle", "session"} /\ ~NewLogin(t)
    /\ \/ /\ th'[t].at = th[t].at /\ th'[t].kind \in {th[t].kind, "second"}
          /\ th'[t].pc \notin {"idle", "session", "connect", "logged"}
          /\ th'[t].by \notin {"new", "connect"}
       \/ th'[t] = Idle
=============================================================================
