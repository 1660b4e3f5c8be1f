------------------------------ MODULE Sessions ------------------------------
(***************************************************************************)
(* Accounts, sessions and the requests that use them (auth.py,             *)
(* routers/auth.py, routers/users.py, bootstrap_owner.py).                 *)
(*                                                                         *)
(* A request passes its dependencies one after the other: its session is   *)
(* loaded, for a change its CSRF token is looked up again, its role is      *)
(* compared, and only then the handler runs, each in a transaction of its  *)
(* own.  Between them other requests log out, save accounts and log in.    *)
(* A statement that waits for a row is an action of its own.               *)
(*                                                                         *)
(* Abstractions: one tenant, which stays active; users stay active, as no  *)
(* code disables one; passwords and tokens are right, wrong ones are only  *)
(* refused; last_seen_at, last_login_at, names and cookies are left out.   *)
(***************************************************************************)
EXTENDS Naturals, FiniteSets

CONSTANTS
  Email,      \* users.email, normalised
  Session,    \* log-ins, each with the row of auth_sessions it inserts
  Request,    \* requests with a session cookie
  Bootstrap,  \* runs of bootstrap_owner
  None

Role == {"OWNER", "ADMIN", "OPERATOR", "VIEWER"}
ADMIN_ROLES == {"OWNER", "ADMIN"}
OPERATE_ROLES == {"OWNER", "ADMIN", "OPERATOR"}
READ_ROLES == Role

\* Callers of create_or_update_tenant_user
Writer == Request \cup Bootstrap

ASSUME SessionsAssumption ==
  /\ Request \cap Bootstrap = {}
  /\ None \notin Writer /\ None \notin Email /\ None \notin Session /\ None \notin Role

VARIABLES
  account,  \* users and tenant_memberships, by e-mail
  saver,    \* who holds the row lock of a user, or has inserted it uncommitted
  save,     \* local state of each create_or_update_tenant_user
  session,  \* local state of each log-in, and its auth_sessions row
  request   \* local state of each request

vars == <<account, saver, save, session, request>>
-----------------------------------------------------------------------------
\* role None: no such user
Account == [role : Role \cup {None}, active : BOOLEAN]

\* found: a row to wait for; missing: a row to insert; locked, inserted: what
\* the transaction then has
SaveState ==
  [phase  : {"idle", "asked", "found", "missing", "locked", "inserted", "saved", "failed"},
   email  : Email \cup {None},
   role   : Role \cup {None},
   active : BOOLEAN]

\* checked: the password and the membership are fine; open: the row is committed
SessionState ==
  [phase   : {"new", "checked", "open"},
   user    : Email \cup {None},
   revoked : BOOLEAN,
   expired : BOOLEAN]

\* session, role: the AuthContext; snapshot: the sessions of the user that
\* revoke_all_sessions found committed, or the one that revoke_session names
RequestState ==
  [phase    : {"new", "found", "loaded", "checked", "closing", "closed", "saving", "ended"},
   session  : Session \cup {None},
   role     : Role \cup {None},
   snapshot : SUBSET Session]

Init ==
  /\ account = [e \in Email |-> [role |-> None, active |-> FALSE]]
  /\ saver = [e \in Email |-> None]
  /\ save = [c \in Writer |-> [phase |-> "idle", email |-> None, role |-> None, active |-> FALSE]]
  /\ session = [s \in Session |->
       [phase |-> "new", user |-> None, revoked |-> FALSE, expired |-> FALSE]]
  /\ request = [r \in Request |->
       [phase |-> "new", session |-> None, role |-> None, snapshot |-> {}]]
-----------------------------------------------------------------------------
Exists(e) == account[e].role # None

(***************************************************************************)
(* authenticate_and_create_session.                                        *)
(***************************************************************************)
CheckLogin(s, e) ==
  /\ session[s].phase = "new"
  /\ Exists(e) /\ account[e].active
  /\ session' = [session EXCEPT ![s] = [session[s] EXCEPT !.phase = "checked", !.user = e]]
  /\ UNCHANGED <<account, saver, save, request>>

\* The foreign key waits for a transaction that has the user FOR UPDATE.
InsertSession(s) ==
  /\ session[s].phase = "checked"
  /\ saver[session[s].user] = None
  /\ session' = [session EXCEPT ![s] = [session[s] EXCEPT !.phase = "open"]]
  /\ UNCHANGED <<account, saver, save, request>>

\* auth_session_ttl_minutes pass.
Expire(s) ==
  /\ session[s].phase = "open"
  /\ ~session[s].expired
  /\ session' = [session EXCEPT ![s] = [session[s] EXCEPT !.expired = TRUE]]
  /\ UNCHANGED <<account, saver, save, request>>
-----------------------------------------------------------------------------
(***************************************************************************)
(* The dependencies of a request.                                          *)
(***************************************************************************)
Valid(s) == session[s].phase = "open" /\ ~session[s].revoked /\ ~session[s].expired

RoleOf(s) == account[session[s].user].role

\* load_session_context: the SELECT ...
LoadSession(r, s) ==
  /\ request[r].phase = "new"
  /\ Valid(s)
  /\ account[session[s].user].active
  /\ request' = [request EXCEPT
       ![r] = [request[r] EXCEPT !.phase = "found", !.session = s, !.role = RoleOf(s)]]
  /\ UNCHANGED <<account, saver, save, session>>

\* ... and the UPDATE of last_seen_at, which may wait for a log-out that has the row.
TouchSession(r) ==
  /\ request[r].phase = "found"
  /\ request' = [request EXCEPT ![r] = [request[r] EXCEPT !.phase = "loaded"]]
  /\ UNCHANGED <<account, saver, save, session>>

\* session_has_csrf
CheckCsrf(r) ==
  /\ request[r].phase = "loaded"
  /\ Valid(request[r].session)
  /\ request' = [request EXCEPT ![r] = [request[r] EXCEPT !.phase = "checked"]]
  /\ UNCHANGED <<account, saver, save, session>>

\* A handler outside this module: one that reads, or one that changes.
Serve(r) ==
  /\ \/ request[r].phase = "loaded" /\ request[r].role \in READ_ROLES
     \/ request[r].phase = "checked" /\ request[r].role \in OPERATE_ROLES
  /\ request' = [request EXCEPT ![r] = [request[r] EXCEPT !.phase = "ended"]]
  /\ UNCHANGED <<account, saver, save, session>>

\* 401, 403, an error or a disconnection
Refuse(r) ==
  /\ request[r].phase \in {"new", "found", "loaded", "checked", "closing"}
  /\ request' = [request EXCEPT ![r] = [request[r] EXCEPT !.phase = "ended", !.snapshot = {}]]
  /\ UNCHANGED <<account, saver, save, session>>
-----------------------------------------------------------------------------
(***************************************************************************)
(* logout and logout_all.                                                  *)
(***************************************************************************)
Revoke(S) ==
  session' = [s \in Session |-> [session[s] EXCEPT !.revoked = session[s].revoked \/ s \in S]]

Logout(r) ==
  /\ request[r].phase = "checked"
  /\ Revoke({request[r].session})
  /\ request' = [request EXCEPT
       ![r] = [request[r] EXCEPT !.phase = "closed", !.snapshot = {request[r].session}]]
  /\ UNCHANGED <<account, saver, save>>

SessionsOf(e) == {s \in Session : session[s].phase = "open" /\ session[s].user = e}

\* The UPDATE chooses its rows ...
LogoutAll(r) ==
  /\ request[r].phase = "checked"
  /\ request' = [request EXCEPT
       ![r] = [request[r] EXCEPT
         !.phase = "closing", !.snapshot = SessionsOf(session[request[r].session].user)]]
  /\ UNCHANGED <<account, saver, save, session>>

\* Mutant of RevokeAll: the session in use is kept, as "log out elsewhere".
RevokeElsewhere(r) ==
  /\ request[r].phase = "closing"
  /\ Revoke(request[r].snapshot \ {request[r].session})
  /\ request' = [request EXCEPT ![r] = [request[r] EXCEPT !.phase = "closed"]]
  /\ UNCHANGED <<account, saver, save>>

\* ... waits for those that others hold, and commits.
RevokeAll(r) ==
  /\ request[r].phase = "closing"
  /\ Revoke(request[r].snapshot)
  /\ request' = [request EXCEPT ![r] = [request[r] EXCEPT !.phase = "closed"]]
  /\ UNCHANGED <<account, saver, save>>
-----------------------------------------------------------------------------
(***************************************************************************)
(* create_or_update_tenant_user, from create_user and from bootstrap_owner.*)
(***************************************************************************)
Saving(c) == save[c].phase \in {"asked", "found", "missing", "locked", "inserted"}

Asks(c, e, role, active) ==
  save' = [save EXCEPT ![c] = [phase |-> "asked", email |-> e, role |-> role, active |-> active]]

CreateUser(r, e, role, active) ==
  /\ request[r].phase = "checked"
  /\ request[r].role \in ADMIN_ROLES
  /\ Asks(r, e, role, active)
  /\ request' = [request EXCEPT ![r] = [request[r] EXCEPT !.phase = "saving"]]
  /\ UNCHANGED <<account, saver, session>>

\* _active_owner_emails
Owners == {e \in Email : account[e].role = "OWNER" /\ account[e].active}

MayBootstrap(e) == Owners = {} \/ e \in Owners

\* main: the owners are read in one transaction, the save is another one.
BootstrapOwner(b, e) ==
  /\ save[b].phase = "idle"
  /\ MayBootstrap(e)
  /\ Asks(b, e, "OWNER", TRUE)
  /\ UNCHANGED <<account, saver, session, request>>

FindUser(c) ==
  /\ save[c].phase = "asked"
  /\ save' = [save EXCEPT
       ![c] = [save[c] EXCEPT !.phase = IF Exists(save[c].email) THEN "found" ELSE "missing"]]
  /\ UNCHANGED <<account, saver, session, request>>

\* FOR UPDATE is granted.
LockUser(c) ==
  /\ save[c].phase = "found"
  /\ saver[save[c].email] = None
  /\ saver' = [saver EXCEPT ![save[c].email] = c]
  /\ save' = [save EXCEPT ![c] = [save[c] EXCEPT !.phase = "locked"]]
  /\ UNCHANGED <<account, session, request>>

\* Mutant of InsertUser: a table without UNIQUE (email).
InsertDuplicate(c) ==
  /\ save[c].phase = "missing"
  /\ saver[save[c].email] = None
  /\ saver' = [saver EXCEPT ![save[c].email] = c]
  /\ save' = [save EXCEPT ![c] = [save[c] EXCEPT !.phase = "inserted"]]
  /\ UNCHANGED <<account, session, request>>

\* UNIQUE (email): an insert waits for the other one under way.
InsertUser(c) ==
  /\ save[c].phase = "missing"
  /\ ~Exists(save[c].email)
  /\ saver[save[c].email] = None
  /\ saver' = [saver EXCEPT ![save[c].email] = c]
  /\ save' = [save EXCEPT ![c] = [save[c] EXCEPT !.phase = "inserted"]]
  /\ UNCHANGED <<account, session, request>>

\* The membership is inserted or updated, and the transaction commits.
CommitSave(c) ==
  /\ save[c].phase \in {"locked", "inserted"}
  /\ account' = [account EXCEPT
       ![save[c].email] = [role |-> save[c].role, active |-> save[c].active]]
  /\ saver' = [saver EXCEPT ![save[c].email] = None]
  /\ save' = [save EXCEPT ![c] = [save[c] EXCEPT !.phase = "saved"]]
  /\ UNCHANGED <<session, request>>

\* 503: the unique violation, another database error, or a crash
FailSave(c) ==
  /\ Saving(c)
  /\ saver' = [e \in Email |-> IF saver[e] = c THEN None ELSE saver[e]]
  /\ save' = [save EXCEPT ![c] = [save[c] EXCEPT !.phase = "failed"]]
  /\ UNCHANGED <<account, session, request>>
-----------------------------------------------------------------------------
Next ==
  \/ \E s \in Session :
       \/ \E e \in Email : CheckLogin(s, e)
       \/ InsertSession(s)
       \/ Expire(s)
  \/ \E r \in Request :
       \/ \E s \in Session : LoadSession(r, s)
       \/ TouchSession(r)
       \/ CheckCsrf(r)
       \/ Serve(r)
       \/ Refuse(r)
       \/ Logout(r)
       \/ LogoutAll(r)
       \/ RevokeAll(r)
       \/ \E e \in Email, role \in Role, active \in BOOLEAN : CreateUser(r, e, role, active)
  \/ \E b \in Bootstrap, e \in Email : BootstrapOwner(b, e)
  \/ \E c \in Writer :
       \/ FindUser(c)
       \/ LockUser(c)
       \/ InsertUser(c)
       \/ CommitSave(c)
       \/ FailSave(c)

Spec == Init /\ [][Next]_vars
-----------------------------------------------------------------------------
TypeOK ==
  /\ account \in [Email -> Account]
  /\ saver \in [Email -> Writer \cup {None}]
  /\ save \in [Writer -> SaveState]
  /\ session \in [Session -> SessionState]
  /\ request \in [Request -> RequestState]

\* Sessions that a log-out has answered for
Closed == UNION {request[r].snapshot : r \in {q \in Request : request[q].phase = "closed"}}

\* A save that has locked or inserted its user is the only one with it, and an
\* insert never meets an account that was saved meanwhile.
SaversLock ==
  /\ \A c \in Writer :
       /\ Saving(c) => save[c].email \in Email /\ save[c].role \in Role
       /\ save[c].phase \in {"locked", "inserted"} => saver[save[c].email] = c
       /\ save[c].phase \in {"found", "locked"} => Exists(save[c].email)
       /\ save[c].phase = "inserted" => ~Exists(save[c].email)
  /\ \A e \in Email : saver[e] # None =>
       save[saver[e]].phase \in {"locked", "inserted"} /\ save[saver[e]].email = e

\* A request saves one account, as the last thing that it does.
SavesOnce == \A r \in Request : request[r].phase # "saving" => save[r].phase = "idle"

\* Sessions and the requests that use them belong to accounts.
SessionsBelong ==
  /\ \A s \in Session : session[s].phase # "new" =>
       session[s].user \in Email /\ Exists(session[s].user)
  /\ \A r \in Request : request[r].phase \in {"found", "loaded", "checked", "closing"} =>
       /\ request[r].session \in Session
       /\ session[request[r].session].phase = "open"

\* What a log-out has answered for is revoked.
ClosedAreRevoked == \A s \in Closed : session[s].revoked

\* The inductive invariant of SessionsProofs: types, locks, and what log-outs
\* rely on while other requests run.
SessionsInvariant ==
  /\ TypeOK
  /\ SaversLock
  /\ SavesOnce
  /\ SessionsBelong
  /\ ClosedAreRevoked

\* Once logout or logout_all has answered, neither the SELECT of load_session_context
\* nor session_has_csrf finds a session that was open when its statement began,
\* whatever log-ins, saves and other log-outs do meanwhile.  A request whose SELECT
\* came first may still pass load_session_context after the answer.
ClosedForGood ==
  [][\A r \in Request :
       request[r].phase # request'[r].phase /\ request'[r].phase \in {"found", "checked"} =>
         request'[r].session \notin Closed]_vars
=============================================================================
