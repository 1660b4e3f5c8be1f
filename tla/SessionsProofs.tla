--------------------------- MODULE SessionsProofs ---------------------------
(***************************************************************************)
(* What holds of Sessions for any people, log-ins, requests and bootstraps. *)
(***************************************************************************)
EXTENDS Sessions, TLAPS

USE DEF Writer, Role

-----------------------------------------------------------------------------
(***************************************************************************)
(* The actions, each as what it does to the local state that it changes.   *)
(***************************************************************************)

\* A log-in or the clock: one session, nothing else.
SessionChange(s) ==
  /\ account' = account /\ saver' = saver
  /\ save' = save /\ request' = request
  /\ session' \in [Session -> SessionState]
  /\ \A x \in Session \ {s} : session'[x] = session[x]
  /\ session'[s].revoked = session[s].revoked
  /\ session'[s].phase # "new" => session'[s].user \in Email /\ Exists(session'[s].user)
  /\ session[s].phase = "open" => session'[s].phase = "open"

LEMMA SessionEffect ==
  ASSUME TypeOK, SessionsBelong, NEW s \in Session,
         (\E e \in Email : CheckLogin(s, e)) \/ InsertSession(s) \/ Expire(s)
  PROVE  SessionChange(s)
<1>1. ASSUME NEW e \in Email, CheckLogin(s, e)
      PROVE  SessionChange(s)
  <2>1. [session[s] EXCEPT !.phase = "checked", !.user = e] \in SessionState
    BY DEF TypeOK, SessionState
  <2>2. /\ session' = [session EXCEPT ![s] = [session[s] EXCEPT !.phase = "checked", !.user = e]]
        /\ session[s].phase = "new" /\ Exists(e)
        /\ account' = account /\ saver' = saver
        /\ save' = save /\ request' = request
    BY <1>1 DEF CheckLogin
  <2>3. QED
    BY <2>1, <2>2 DEF TypeOK, SessionState, SessionChange
<1>2. CASE InsertSession(s)
  <2>1. [session[s] EXCEPT !.phase = "open"] \in SessionState
    BY DEF TypeOK, SessionState
  <2>2. /\ session' = [session EXCEPT ![s] = [session[s] EXCEPT !.phase = "open"]]
        /\ session[s].phase = "checked"
        /\ account' = account /\ saver' = saver
        /\ save' = save /\ request' = request
    BY <1>2 DEF InsertSession
  <2>3. QED
    BY <2>1, <2>2 DEF TypeOK, SessionState, SessionChange, SessionsBelong
<1>3. CASE Expire(s)
  <2>1. [session[s] EXCEPT !.expired = TRUE] \in SessionState
    BY DEF TypeOK, SessionState
  <2>2. /\ session' = [session EXCEPT ![s] = [session[s] EXCEPT !.expired = TRUE]]
        /\ session[s].phase = "open"
        /\ account' = account /\ saver' = saver
        /\ save' = save /\ request' = request
    BY <1>3 DEF Expire
  <2>3. QED
    BY <2>1, <2>2 DEF TypeOK, SessionState, SessionChange, SessionsBelong
<1>4. QED
  BY <1>1, <1>2, <1>3

\* A request passes, or stops at, a dependency.
RequestChange(r) ==
  /\ account' = account /\ saver' = saver /\ session' = session
  /\ request' \in [Request -> RequestState]
  /\ \A q \in Request \ {r} : request'[q] = request[q]
  /\ request[r].phase \notin {"closed", "saving"} /\ request'[r].phase # "closed"
  /\ request'[r].phase \in {"found", "loaded", "checked", "closing"} =>
       /\ request'[r].session \in Session
       /\ session[request'[r].session].phase = "open"
  /\ request'[r].phase \in {"found", "checked"} /\ request[r].phase # request'[r].phase =>
       ~session[request'[r].session].revoked

LEMMA RequestEffect ==
  ASSUME TypeOK, SessionsBelong, NEW r \in Request,
         \/ \E s \in Session : LoadSession(r, s)
         \/ TouchSession(r) \/ CheckCsrf(r) \/ Serve(r) \/ Refuse(r) \/ LogoutAll(r)
  PROVE  RequestChange(r) /\ save' = save
<1>1. ASSUME NEW s \in Session, LoadSession(r, s)
      PROVE  RequestChange(r) /\ save' = save
  <2>1. Valid(s) /\ account[session[s].user].active /\ request[r].phase = "new"
    BY <1>1 DEF LoadSession
  <2>2. RoleOf(s) \in Role
    BY <2>1 DEF SessionsBelong, Valid, RoleOf, Exists, TypeOK, Account
  <2>3. PICK x : x = RoleOf(s)
    OBVIOUS
  <2>4. [request[r] EXCEPT !.phase = "found", !.session = s, !.role = x] \in RequestState
    BY <2>2, <2>3 DEF TypeOK, RequestState
  <2>5. /\ request' = [request EXCEPT
             ![r] = [request[r] EXCEPT !.phase = "found", !.session = s, !.role = x]]
        /\ account' = account /\ saver' = saver
        /\ save' = save /\ session' = session
    BY <1>1, <2>3 DEF LoadSession
  <2>6. QED
    BY <2>1, <2>4, <2>5 DEF TypeOK, RequestState, RequestChange, Valid
<1>2. CASE CheckCsrf(r)
  <2>1. [request[r] EXCEPT !.phase = "checked"] \in RequestState
    BY DEF TypeOK, RequestState
  <2>2. /\ request' = [request EXCEPT ![r] = [request[r] EXCEPT !.phase = "checked"]]
        /\ request[r].phase = "loaded" /\ Valid(request[r].session)
        /\ account' = account /\ saver' = saver
        /\ save' = save /\ session' = session
    BY <1>2 DEF CheckCsrf
  <2>3. QED
    BY <2>1, <2>2 DEF TypeOK, RequestState, RequestChange, SessionsBelong, Valid
<1>3. CASE Serve(r)
  <2>1. [request[r] EXCEPT !.phase = "ended"] \in RequestState
    BY DEF TypeOK, RequestState
  <2>2. /\ request' = [request EXCEPT ![r] = [request[r] EXCEPT !.phase = "ended"]]
        /\ request[r].phase \in {"loaded", "checked"}
        /\ account' = account /\ saver' = saver
        /\ save' = save /\ session' = session
    BY <1>3 DEF Serve
  <2>3. QED
    BY <2>1, <2>2 DEF TypeOK, RequestState, RequestChange
<1>4. CASE Refuse(r)
  <2>1. [request[r] EXCEPT !.phase = "ended", !.snapshot = {}] \in RequestState
    BY DEF TypeOK, RequestState
  <2>2. /\ request' = [request EXCEPT ![r] = [request[r] EXCEPT !.phase = "ended", !.snapshot = {}]]
        /\ request[r].phase \notin {"closed", "saving"}
        /\ account' = account /\ saver' = saver
        /\ save' = save /\ session' = session
    BY <1>4 DEF Refuse
  <2>3. QED
    BY <2>1, <2>2 DEF TypeOK, RequestState, RequestChange
<1>5. CASE LogoutAll(r)
  <2>1. PICK S \in SUBSET Session : S = SessionsOf(session[request[r].session].user)
    BY DEF SessionsOf
  <2>2. [request[r] EXCEPT !.phase = "closing", !.snapshot = S] \in RequestState
    BY DEF TypeOK, RequestState
  <2>3. /\ request' = [request EXCEPT ![r] = [request[r] EXCEPT !.phase = "closing", !.snapshot = S]]
        /\ request[r].phase = "checked"
        /\ account' = account /\ saver' = saver
        /\ save' = save /\ session' = session
    BY <1>5, <2>1 DEF LogoutAll
  <2>4. QED
    BY <2>2, <2>3 DEF TypeOK, RequestState, RequestChange, SessionsBelong
<1>6. CASE TouchSession(r)
  <2>1. [request[r] EXCEPT !.phase = "loaded"] \in RequestState
    BY DEF TypeOK, RequestState
  <2>2. /\ request' = [request EXCEPT ![r] = [request[r] EXCEPT !.phase = "loaded"]]
        /\ request[r].phase = "found"
        /\ account' = account /\ saver' = saver
        /\ save' = save /\ session' = session
    BY <1>6 DEF TouchSession
  <2>3. QED
    BY <2>1, <2>2 DEF TypeOK, RequestState, RequestChange, SessionsBelong
<1>7. QED
  BY <1>1, <1>2, <1>3, <1>4, <1>5, <1>6

\* A log-out commits.
CloseChange(r) ==
  /\ account' = account /\ saver' = saver /\ save' = save
  /\ request' \in [Request -> RequestState]
  /\ session' \in [Session -> SessionState]
  /\ \A q \in Request \ {r} : request'[q] = request[q]
  /\ request[r].phase \notin {"closed", "saving"} /\ request'[r].phase = "closed"
  /\ \A s \in Session :
       /\ session'[s].phase = session[s].phase /\ session'[s].user = session[s].user
       /\ session[s].revoked => session'[s].revoked
  /\ \A s \in request'[r].snapshot : session'[s].revoked

LEMMA RevokeEffect ==
  ASSUME TypeOK, NEW S \in SUBSET Session, Revoke(S)
  PROVE  /\ session' \in [Session -> SessionState]
         /\ \A s \in Session :
              /\ session'[s].phase = session[s].phase /\ session'[s].user = session[s].user
              /\ session'[s].revoked = (session[s].revoked \/ s \in S)
<1>1. \A s \in Session :
        [session[s] EXCEPT !.revoked = session[s].revoked \/ s \in S] \in SessionState
  BY DEF TypeOK, SessionState
<1>2. QED
  BY <1>1 DEF TypeOK, SessionState, Revoke

LEMMA CloseEffect ==
  ASSUME TypeOK, SessionsBelong, NEW r \in Request, Logout(r) \/ RevokeAll(r)
  PROVE  CloseChange(r)
<1>1. CASE Logout(r)
  <2>1. request[r].session \in Session /\ request[r].phase = "checked"
    BY <1>1 DEF Logout, SessionsBelong
  <2>2. PICK S \in SUBSET Session : S = {request[r].session}
    BY <2>1
  <2>3. [request[r] EXCEPT !.phase = "closed", !.snapshot = S] \in RequestState
    BY DEF TypeOK, RequestState
  <2>4. /\ request' = [request EXCEPT ![r] = [request[r] EXCEPT !.phase = "closed", !.snapshot = S]]
        /\ account' = account /\ saver' = saver /\ save' = save
        /\ Revoke(S)
    BY <1>1, <2>2 DEF Logout
  <2>5. /\ request' \in [Request -> RequestState]
        /\ request'[r].phase = "closed" /\ request'[r].snapshot = S
        /\ \A q \in Request \ {r} : request'[q] = request[q]
    BY <2>3, <2>4 DEF TypeOK, RequestState
  <2>6. QED
    BY <2>1, <2>4, <2>5, RevokeEffect DEF CloseChange
<1>2. CASE RevokeAll(r)
  <2>1. request[r].phase = "closing"
    BY <1>2 DEF RevokeAll
  <2>2. PICK S \in SUBSET Session : S = request[r].snapshot
    BY DEF TypeOK, RequestState
  <2>3. [request[r] EXCEPT !.phase = "closed"] \in RequestState
    BY DEF TypeOK, RequestState
  <2>4. /\ request' = [request EXCEPT ![r] = [request[r] EXCEPT !.phase = "closed"]]
        /\ account' = account /\ saver' = saver /\ save' = save
        /\ Revoke(S)
    BY <1>2, <2>2 DEF RevokeAll
  <2>5. /\ request' \in [Request -> RequestState]
        /\ request'[r].phase = "closed" /\ request'[r].snapshot = S
        /\ \A q \in Request \ {r} : request'[q] = request[q]
    BY <2>2, <2>3, <2>4 DEF TypeOK, RequestState
  <2>6. QED
    BY <2>1, <2>4, <2>5, RevokeEffect DEF CloseChange
<1>3. QED
  BY <1>1, <1>2

\* A save asks, or takes a step: its own state, the lock of its user, and in the
\* end the account.
SaveChange(c) ==
  /\ session' = session
  /\ save' \in [Writer -> SaveState]
  /\ \A d \in Writer \ {c} : save'[d] = save[d]

LEMMA AskEffect ==
  ASSUME TypeOK, NEW c \in Writer, NEW e \in Email, NEW role \in Role, NEW active \in BOOLEAN,
         Asks(c, e, role, active)
  PROVE  /\ save' \in [Writer -> SaveState]
         /\ \A d \in Writer \ {c} : save'[d] = save[d]
         /\ save'[c].phase = "asked" /\ save'[c].email = e /\ save'[c].role = role
         /\ save'[c].active = active
<1>1. [phase |-> "asked", email |-> e, role |-> role, active |-> active] \in SaveState
  BY DEF SaveState
<1>2. QED
  BY <1>1 DEF Asks, TypeOK

LEMMA CreateEffect ==
  ASSUME TypeOK, SessionsBelong, NEW r \in Request, NEW e \in Email, NEW role \in Role,
         NEW active \in BOOLEAN, CreateUser(r, e, role, active)
  PROVE  /\ RequestChange(r) /\ SaveChange(r)
         /\ save'[r].phase = "asked" /\ save'[r].email = e /\ save'[r].role = role
         /\ request[r].phase = "checked" /\ request'[r].phase = "saving"
<1>1. [request[r] EXCEPT !.phase = "saving"] \in RequestState
  BY DEF TypeOK, RequestState
<1>2. /\ request' = [request EXCEPT ![r] = [request[r] EXCEPT !.phase = "saving"]]
      /\ request[r].phase = "checked" /\ Asks(r, e, role, active)
      /\ account' = account /\ saver' = saver /\ session' = session
  BY DEF CreateUser
<1>3. RequestChange(r)
  BY <1>1, <1>2 DEF TypeOK, RequestState, RequestChange
<1>4. request'[r].phase = "saving"
  BY <1>1, <1>2 DEF TypeOK, RequestState
<1>5. Asks(r, e, role, active) /\ r \in Writer
  BY <1>2
<1>6. /\ save' \in [Writer -> SaveState]
      /\ \A d \in Writer \ {r} : save'[d] = save[d]
      /\ save'[r].phase = "asked" /\ save'[r].email = e /\ save'[r].role = role
  <2> HIDE DEF Writer, Role
  <2>1. QED
    BY <1>5, AskEffect
<1>7. QED
  BY <1>2, <1>3, <1>4, <1>6 DEF SaveChange

\* The state of the saving call, and nothing else of the saves.
LEMMA PhaseEffect ==
  ASSUME TypeOK, NEW c \in Writer,
         NEW ph \in {"found", "missing", "locked", "inserted", "saved", "failed"},
         save' = [save EXCEPT ![c] = [save[c] EXCEPT !.phase = ph]]
  PROVE  /\ save' \in [Writer -> SaveState]
         /\ \A d \in Writer \ {c} : save'[d] = save[d]
         /\ save'[c].phase = ph /\ save'[c].email = save[c].email
         /\ save'[c].role = save[c].role /\ save'[c].active = save[c].active
<1>1. save \in [Writer -> SaveState]
  BY DEF TypeOK
<1>2. save[c] \in SaveState
  BY <1>1
<1>3. [save[c] EXCEPT !.phase = ph] \in SaveState
  BY <1>2 DEF SaveState
<1>4. QED
  BY <1>1, <1>2, <1>3 DEF SaveState

LEMMA FindEffect ==
  ASSUME TypeOK, NEW c \in Writer, FindUser(c)
  PROVE  /\ SaveChange(c) /\ account' = account /\ saver' = saver /\ request' = request
         /\ save[c].phase = "asked" /\ save'[c].phase \in {"found", "missing"}
         /\ save'[c].phase = "found" => Exists(save[c].email)
         /\ save'[c].email = save[c].email /\ save'[c].role = save[c].role
         /\ save'[c].active = save[c].active
<1>1. PICK ph \in {"found", "missing"} :
        ph = IF Exists(save[c].email) THEN "found" ELSE "missing"
  OBVIOUS
<1>2. /\ save' = [save EXCEPT ![c] = [save[c] EXCEPT !.phase = ph]]
      /\ save[c].phase = "asked"
      /\ account' = account /\ saver' = saver
      /\ session' = session /\ request' = request
  BY <1>1 DEF FindUser
<1>3. QED
  BY <1>1, <1>2, PhaseEffect DEF SaveChange

LEMMA LockUserEffect ==
  ASSUME TypeOK, SaversLock, NEW c \in Writer, LockUser(c) \/ InsertUser(c)
  PROVE  /\ SaveChange(c) /\ account' = account /\ request' = request
         /\ save[c].email \in Email
         /\ saver' \in [Email -> Writer \cup {None}]
         /\ saver[save[c].email] = None /\ saver'[save[c].email] = c
         /\ \A e \in Email \ {save[c].email} : saver'[e] = saver[e]
         /\ \/ save[c].phase = "found" /\ save'[c].phase = "locked"
            \/ /\ save[c].phase = "missing" /\ save'[c].phase = "inserted"
               /\ ~Exists(save[c].email)
         /\ save'[c].email = save[c].email /\ save'[c].role = save[c].role
         /\ save'[c].active = save[c].active
<1>1. /\ save[c].phase \in {"found", "missing"} /\ saver[save[c].email] = None
      /\ saver' = [saver EXCEPT ![save[c].email] = c]
      /\ account' = account /\ session' = session /\ request' = request
  BY DEF LockUser, InsertUser
<1>2. save[c].email \in Email
  BY <1>1 DEF SaversLock, Saving
<1>3. /\ saver' \in [Email -> Writer \cup {None}]
      /\ saver'[save[c].email] = c
      /\ \A e \in Email \ {save[c].email} : saver'[e] = saver[e]
  BY <1>1, <1>2 DEF TypeOK
<1>4. CASE LockUser(c)
  <2>1. save' = [save EXCEPT ![c] = [save[c] EXCEPT !.phase = "locked"]] /\ save[c].phase = "found"
    BY <1>4 DEF LockUser
  <2>2. QED
    BY <1>1, <1>2, <1>3, <2>1, PhaseEffect DEF SaveChange
<1>5. CASE InsertUser(c)
  <2>1. /\ save' = [save EXCEPT ![c] = [save[c] EXCEPT !.phase = "inserted"]]
        /\ save[c].phase = "missing" /\ ~Exists(save[c].email)
    BY <1>5 DEF InsertUser
  <2>2. QED
    BY <1>1, <1>2, <1>3, <2>1, PhaseEffect DEF SaveChange
<1>6. QED
  BY <1>4, <1>5

LEMMA CommitSaveEffect ==
  ASSUME TypeOK, SaversLock, NEW c \in Writer, CommitSave(c)
  PROVE  /\ SaveChange(c) /\ request' = request
         /\ account' \in [Email -> Account] /\ saver' \in [Email -> Writer \cup {None}]
         /\ save[c].phase \in {"locked", "inserted"} /\ save'[c].phase = "saved"
         /\ save[c].email \in Email /\ save[c].role \in Role /\ saver[save[c].email] = c
         /\ saver'[save[c].email] = None
         /\ account'[save[c].email].role = save[c].role
         /\ account'[save[c].email].active = save[c].active
         /\ \A e \in Email \ {save[c].email} : saver'[e] = saver[e] /\ account'[e] = account[e]
<1>1. /\ save[c].phase \in {"locked", "inserted"}
      /\ account' = [account EXCEPT
           ![save[c].email] = [role |-> save[c].role, active |-> save[c].active]]
      /\ saver' = [saver EXCEPT ![save[c].email] = None]
      /\ save' = [save EXCEPT ![c] = [save[c] EXCEPT !.phase = "saved"]]
      /\ session' = session /\ request' = request
  BY DEF CommitSave
<1>2. save[c].email \in Email /\ save[c].role \in Role /\ saver[save[c].email] = c
  BY <1>1 DEF SaversLock, Saving
<1>3. [role |-> save[c].role, active |-> save[c].active] \in Account
  BY <1>2 DEF TypeOK, SaveState, Account
<1>4. /\ account' \in [Email -> Account]
      /\ account'[save[c].email] = [role |-> save[c].role, active |-> save[c].active]
      /\ \A e \in Email \ {save[c].email} : account'[e] = account[e]
  BY <1>1, <1>2, <1>3 DEF TypeOK
<1>5. /\ saver' \in [Email -> Writer \cup {None}]
      /\ saver'[save[c].email] = None
      /\ \A e \in Email \ {save[c].email} : saver'[e] = saver[e]
  BY <1>1, <1>2 DEF TypeOK
<1>6. QED
  BY <1>1, <1>2, <1>4, <1>5, PhaseEffect DEF SaveChange

LEMMA FailSaveEffect ==
  ASSUME TypeOK, NEW c \in Writer, FailSave(c)
  PROVE  /\ SaveChange(c) /\ account' = account /\ request' = request
         /\ saver' \in [Email -> Writer \cup {None}]
         /\ Saving(c) /\ save'[c].phase = "failed"
         /\ \A e \in Email : saver'[e] = IF saver[e] = c THEN None ELSE saver[e]
<1>1. /\ saver' = [e \in Email |-> IF saver[e] = c THEN None ELSE saver[e]]
      /\ save' = [save EXCEPT ![c] = [save[c] EXCEPT !.phase = "failed"]]
      /\ account' = account /\ session' = session /\ request' = request
      /\ Saving(c)
  BY DEF FailSave
<1>2. saver' \in [Email -> Writer \cup {None}]
  BY <1>1 DEF TypeOK
<1>3. QED
  BY <1>1, <1>2, PhaseEffect DEF SaveChange

-----------------------------------------------------------------------------
(***************************************************************************)
(* The invariant after a step.                                             *)
(***************************************************************************)

\* ClosedAreRevoked, request by request
LEMMA ClosedMeans ==
  /\ ClosedAreRevoked <=>
       \A r \in Request : request[r].phase = "closed" =>
         \A s \in request[r].snapshot : session[s].revoked
  /\ ClosedAreRevoked' <=>
       \A r \in Request : request'[r].phase = "closed" =>
         \A s \in request'[r].snapshot : session'[s].revoked
BY DEF ClosedAreRevoked, Closed

LEMMA SessionStep ==
  ASSUME SessionsInvariant, NEW s \in Session, SessionChange(s)
  PROVE  SessionsInvariant'
<1> USE DEF SessionChange
<1>1. TypeOK'
  BY DEF SessionsInvariant, TypeOK
<1>2. SaversLock'
  BY DEF SessionsInvariant, SaversLock, Saving, Exists
<1>3. SessionsBelong'
  BY DEF SessionsInvariant, SessionsBelong, Exists
<1>4. ClosedAreRevoked'
  BY ClosedMeans DEF SessionsInvariant, TypeOK, RequestState
<1>5. SavesOnce'
  BY DEF SessionsInvariant, SavesOnce
<1>6. QED
  BY <1>1, <1>2, <1>3, <1>4, <1>5 DEF SessionsInvariant

\* What a request does to its own state disturbs no log-out that has answered.
LEMMA RequestKeeps ==
  ASSUME SessionsInvariant, NEW r \in Request, RequestChange(r)
  PROVE  SessionsBelong' /\ ClosedAreRevoked'
<1> USE DEF RequestChange
<1>1. SessionsBelong'
  BY DEF SessionsInvariant, SessionsBelong, Exists
<1>2. ClosedAreRevoked'
  BY ClosedMeans DEF SessionsInvariant
<1>3. QED
  BY <1>1, <1>2

LEMMA RequestStep ==
  ASSUME SessionsInvariant, NEW r \in Request, RequestChange(r), save' = save
  PROVE  SessionsInvariant'
<1>1. TypeOK'
  BY DEF SessionsInvariant, TypeOK, RequestChange
<1>2. SaversLock'
  BY DEF SessionsInvariant, SaversLock, Saving, Exists, RequestChange
<1>3. SavesOnce'
  BY DEF SessionsInvariant, SavesOnce, RequestChange
<1>4. QED
  BY <1>1, <1>2, <1>3, RequestKeeps DEF SessionsInvariant

LEMMA CloseStep ==
  ASSUME SessionsInvariant, NEW r \in Request, CloseChange(r)
  PROVE  SessionsInvariant'
<1> USE DEF CloseChange
<1>1. TypeOK'
  BY DEF SessionsInvariant, TypeOK
<1>2. SaversLock'
  BY DEF SessionsInvariant, SaversLock, Saving, Exists
<1>3. SessionsBelong'
  BY DEF SessionsInvariant, SessionsBelong, Exists
<1>4. ClosedAreRevoked'
  <2>1. ASSUME NEW q \in Request, request'[q].phase = "closed", NEW s \in request'[q].snapshot
        PROVE  session'[s].revoked
    <3>1. s \in Session
      BY <2>1 DEF RequestState
    <3>2. CASE q = r
      BY <2>1, <3>2
    <3>3. CASE q # r
      <4>1. session[s].revoked
        BY <2>1, <3>3, ClosedMeans DEF SessionsInvariant
      <4>2. QED
        BY <3>1, <4>1
    <3>4. QED
      BY <3>2, <3>3
  <2>2. QED
    BY <2>1, ClosedMeans
<1>5. SavesOnce'
  BY DEF SessionsInvariant, SavesOnce
<1>6. QED
  BY <1>1, <1>2, <1>3, <1>4, <1>5 DEF SessionsInvariant

\* A save that asks is not yet anybody's rival for a row.
LEMMA AskKeepsLocks ==
  ASSUME TypeOK, SaversLock, NEW c \in Writer, SaveChange(c), account' = account, saver' = saver,
         ~(save[c].phase \in {"locked", "inserted"}), save'[c].phase = "asked",
         save'[c].email \in Email, save'[c].role \in Role
  PROVE  SaversLock'
<1>1. \A e \in Email : saver[e] # c
  BY SessionsAssumption DEF SaversLock
<1>2. QED
  BY <1>1 DEF SaversLock, SaveChange, Saving, Exists, TypeOK

LEMMA FindStep ==
  ASSUME SessionsInvariant, NEW c \in Writer, FindUser(c)
  PROVE  SessionsInvariant'
<1>0. TypeOK /\ SaversLock
  BY DEF SessionsInvariant
<1>1. /\ SaveChange(c) /\ account' = account /\ saver' = saver /\ request' = request
      /\ save[c].phase = "asked" /\ save'[c].phase \in {"found", "missing"}
      /\ save'[c].phase = "found" => Exists(save[c].email)
      /\ save'[c].email = save[c].email /\ save'[c].role = save[c].role
      /\ save'[c].active = save[c].active
  BY <1>0, FindEffect
<1>2. TypeOK'
  BY <1>0, <1>1 DEF TypeOK, SaveChange
<1>3. SaversLock'
  <2>1. \A e \in Email : saver[e] # c
    BY <1>0, <1>1, SessionsAssumption DEF SaversLock
  <2>2. save[c].email \in Email /\ save[c].role \in Role
    BY <1>0, <1>1 DEF SaversLock, Saving
  <2>3. QED
    BY <1>0, <1>1, <2>1, <2>2 DEF SaversLock, SaveChange, Saving, Exists, TypeOK
<1>4. SessionsBelong' /\ ClosedAreRevoked'
  BY <1>1, ClosedMeans DEF SessionsInvariant, SessionsBelong, Exists, SaveChange
<1>5. SavesOnce'
  BY <1>1 DEF SessionsInvariant, SavesOnce, SaveChange
<1>6. QED
  BY <1>2, <1>3, <1>4, <1>5 DEF SessionsInvariant

LEMMA LockUserStep ==
  ASSUME SessionsInvariant, NEW c \in Writer, LockUser(c) \/ InsertUser(c)
  PROVE  SessionsInvariant'
<1>0. TypeOK /\ SaversLock
  BY DEF SessionsInvariant
<1>1. /\ SaveChange(c) /\ account' = account /\ request' = request
      /\ save[c].email \in Email
      /\ saver' \in [Email -> Writer \cup {None}]
      /\ saver[save[c].email] = None /\ saver'[save[c].email] = c
      /\ \A e \in Email \ {save[c].email} : saver'[e] = saver[e]
      /\ \/ save[c].phase = "found" /\ save'[c].phase = "locked"
         \/ /\ save[c].phase = "missing" /\ save'[c].phase = "inserted"
            /\ ~Exists(save[c].email)
      /\ save'[c].email = save[c].email /\ save'[c].role = save[c].role
      /\ save'[c].active = save[c].active
  BY <1>0, LockUserEffect
<1>2. TypeOK'
  BY <1>0, <1>1 DEF TypeOK, SaveChange
<1>3. SaversLock'
  <2>1. \A e \in Email : saver[e] # c
    BY <1>0, <1>1, SessionsAssumption DEF SaversLock
  <2>2. save[c].role \in Role
    BY <1>0, <1>1 DEF SaversLock, Saving
  <2>3. ASSUME NEW d \in Writer
        PROVE  /\ Saving(d)' => save'[d].email \in Email /\ save'[d].role \in Role
               /\ save'[d].phase \in {"locked", "inserted"} => saver'[save'[d].email] = d
               /\ save'[d].phase \in {"found", "locked"} => Exists(save[d].email)'
               /\ save'[d].phase = "inserted" => ~Exists(save[d].email)'
    <3>1. CASE d = c
      BY <1>0, <1>1, <2>2, <3>1 DEF SaversLock, Exists
    <3>2. CASE d # c
      <4>1. save'[d] = save[d] /\ d # None
        BY <1>1, <3>2, SessionsAssumption DEF SaveChange
      <4>2. save[d].phase \in {"locked", "inserted"} => saver'[save[d].email] = d
        BY <1>0, <1>1, <4>1 DEF SaversLock, Saving
      <4>3. QED
        BY <1>0, <1>1, <4>1, <4>2 DEF SaversLock, Exists, Saving
    <3>3. QED
      BY <3>1, <3>2
  <2>4. ASSUME NEW e \in Email, saver'[e] # None
        PROVE  save'[saver'[e]].phase \in {"locked", "inserted"} /\ save'[saver'[e]].email = e
    <3>1. CASE e = save[c].email
      BY <1>1, <3>1
    <3>2. CASE e # save[c].email
      <4>1. saver'[e] = saver[e] /\ saver[e] \in Writer \ {c}
        BY <1>0, <1>1, <2>1, <2>4, <3>2 DEF TypeOK
      <4>2. save'[saver[e]] = save[saver[e]]
        BY <1>1, <4>1 DEF SaveChange
      <4>3. QED
        BY <1>0, <2>4, <4>1, <4>2 DEF SaversLock
    <3>3. QED
      BY <3>1, <3>2
  <2>5. QED
    BY <2>3, <2>4 DEF SaversLock
<1>4. SessionsBelong' /\ ClosedAreRevoked'
  BY <1>1, ClosedMeans DEF SessionsInvariant, SessionsBelong, Exists, SaveChange
<1>5. SavesOnce'
  BY <1>1 DEF SessionsInvariant, SavesOnce, SaveChange
<1>6. QED
  BY <1>2, <1>3, <1>4, <1>5 DEF SessionsInvariant

LEMMA CommitSaveStep ==
  ASSUME SessionsInvariant, NEW c \in Writer, CommitSave(c)
  PROVE  SessionsInvariant'
<1>0. TypeOK /\ SaversLock
  BY DEF SessionsInvariant
<1>1. /\ SaveChange(c) /\ request' = request
      /\ account' \in [Email -> Account] /\ saver' \in [Email -> Writer \cup {None}]
      /\ save[c].phase \in {"locked", "inserted"} /\ save'[c].phase = "saved"
      /\ save[c].email \in Email /\ save[c].role \in Role /\ saver[save[c].email] = c
      /\ saver'[save[c].email] = None
      /\ account'[save[c].email].role = save[c].role
      /\ account'[save[c].email].active = save[c].active
      /\ \A e \in Email \ {save[c].email} : saver'[e] = saver[e] /\ account'[e] = account[e]
  BY <1>0, CommitSaveEffect
<1>2. TypeOK'
  BY <1>0, <1>1 DEF TypeOK, SaveChange
<1>a. \A e \in Email : Exists(e) => Exists(e)'
  BY <1>1, SessionsAssumption DEF Exists
<1>3. SaversLock'
  <2>1. ASSUME NEW d \in Writer
        PROVE  /\ Saving(d)' => save'[d].email \in Email /\ save'[d].role \in Role
               /\ save'[d].phase \in {"locked", "inserted"} => saver'[save'[d].email] = d
               /\ save'[d].phase \in {"found", "locked"} => Exists(save[d].email)'
               /\ save'[d].phase = "inserted" => ~Exists(save[d].email)'
    <3>1. CASE d = c
      BY <1>1, <3>1 DEF Saving
    <3>2. CASE d # c
      <4>1. save'[d] = save[d]
        BY <1>1, <3>2 DEF SaveChange
      <4>2. Saving(d) => save[d].email \in Email /\ save[d].role \in Role
        BY <1>0 DEF SaversLock
      <4>3. save[d].phase \in {"locked", "inserted"} =>
              save[d].email # save[c].email /\ saver[save[d].email] = d
        BY <1>0, <1>1, <3>2 DEF SaversLock
      <4>4. save[d].phase \in {"found", "locked"} => Exists(save[d].email)'
        BY <1>0, <1>a, <4>1, <4>2 DEF SaversLock, Saving, Exists
      <4>5. save[d].phase = "inserted" => ~Exists(save[d].email)'
        BY <1>0, <1>1, <4>1, <4>2, <4>3 DEF SaversLock, Saving, Exists
      <4>6. QED
        BY <1>1, <4>1, <4>2, <4>3, <4>4, <4>5 DEF Saving
    <3>3. QED
      BY <3>1, <3>2
  <2>2. ASSUME NEW e \in Email, saver'[e] # None
        PROVE  save'[saver'[e]].phase \in {"locked", "inserted"} /\ save'[saver'[e]].email = e
    <3>1. e # save[c].email /\ saver'[e] = saver[e]
      BY <1>1, <2>2
    <3>2. saver[e] \in Writer \ {c}
      BY <1>0, <2>2, <3>1 DEF TypeOK, SaversLock
    <3>3. save'[saver[e]] = save[saver[e]]
      BY <1>1, <3>2 DEF SaveChange
    <3>4. QED
      BY <1>0, <2>2, <3>1, <3>3 DEF SaversLock
  <2>3. QED
    BY <2>1, <2>2 DEF SaversLock
<1>4. SessionsBelong' /\ ClosedAreRevoked'
  <2>1. session' = session /\ request' = request
    BY <1>1 DEF SaveChange
  <2>2. \A s \in Session : session[s].phase # "new" =>
          session[s].user \in Email /\ Exists(session[s].user)'
    BY <1>a, <2>1 DEF SessionsInvariant, SessionsBelong
  <2>3. SessionsBelong'
    BY <2>1, <2>2 DEF SessionsInvariant, SessionsBelong, Exists
  <2>4. ClosedAreRevoked'
    BY <2>1, ClosedMeans DEF SessionsInvariant
  <2>5. QED
    BY <2>3, <2>4
<1>5. SavesOnce'
  BY <1>1 DEF SessionsInvariant, SavesOnce, SaveChange
<1>6. QED
  BY <1>2, <1>3, <1>4, <1>5 DEF SessionsInvariant

LEMMA FailSaveStep ==
  ASSUME SessionsInvariant, NEW c \in Writer, FailSave(c)
  PROVE  SessionsInvariant'
<1>0. TypeOK /\ SaversLock
  BY DEF SessionsInvariant
<1>1. /\ SaveChange(c) /\ account' = account /\ request' = request
      /\ saver' \in [Email -> Writer \cup {None}]
      /\ Saving(c) /\ save'[c].phase = "failed"
      /\ \A e \in Email : saver'[e] = IF saver[e] = c THEN None ELSE saver[e]
  BY <1>0, FailSaveEffect
<1>2. TypeOK'
  BY <1>0, <1>1 DEF TypeOK, SaveChange
<1>3. SaversLock'
  <2>1. ASSUME NEW d \in Writer
        PROVE  /\ Saving(d)' => save'[d].email \in Email /\ save'[d].role \in Role
               /\ save'[d].phase \in {"locked", "inserted"} => saver'[save'[d].email] = d
               /\ save'[d].phase \in {"found", "locked"} => Exists(save[d].email)'
               /\ save'[d].phase = "inserted" => ~Exists(save[d].email)'
    <3>1. CASE d = c
      BY <1>1, <3>1 DEF Saving
    <3>2. CASE d # c
      <4>1. save'[d] = save[d]
        BY <1>1, <3>2 DEF SaveChange
      <4>2. save[d].phase \in {"locked", "inserted"} => saver'[save[d].email] = d
        BY <1>0, <1>1, <3>2 DEF SaversLock, Saving
      <4>3. QED
        BY <1>0, <1>1, <4>1, <4>2 DEF SaversLock, Exists, Saving
    <3>3. QED
      BY <3>1, <3>2
  <2>2. ASSUME NEW e \in Email, saver'[e] # None
        PROVE  save'[saver'[e]].phase \in {"locked", "inserted"} /\ save'[saver'[e]].email = e
    <3>1. saver'[e] = saver[e] /\ saver[e] \in Writer \ {c}
      BY <1>0, <1>1, <2>2 DEF TypeOK
    <3>2. save'[saver[e]] = save[saver[e]]
      BY <1>1, <3>1 DEF SaveChange
    <3>3. QED
      BY <1>0, <2>2, <3>1, <3>2 DEF SaversLock
  <2>3. QED
    BY <2>1, <2>2 DEF SaversLock
<1>4. SessionsBelong' /\ ClosedAreRevoked'
  BY <1>1, ClosedMeans DEF SessionsInvariant, SessionsBelong, Exists, SaveChange
<1>5. SavesOnce'
  BY <1>1 DEF SessionsInvariant, SavesOnce, SaveChange, Saving
<1>6. QED
  BY <1>2, <1>3, <1>4, <1>5 DEF SessionsInvariant

LEMMA CreateStep ==
  ASSUME SessionsInvariant, NEW r \in Request, NEW e \in Email, NEW role \in Role,
         NEW active \in BOOLEAN, CreateUser(r, e, role, active)
  PROVE  SessionsInvariant'
<1>0. TypeOK /\ SaversLock /\ SessionsBelong /\ SavesOnce
  BY DEF SessionsInvariant
<1>1. /\ RequestChange(r) /\ SaveChange(r)
      /\ save'[r].phase = "asked" /\ save'[r].email = e /\ save'[r].role = role
      /\ request[r].phase = "checked" /\ request'[r].phase = "saving"
  BY <1>0, CreateEffect
<1>2. save[r].phase = "idle"
  BY <1>0, <1>1 DEF SavesOnce
<1>3. TypeOK'
  BY <1>0, <1>1 DEF TypeOK, RequestChange, SaveChange
<1>4. SaversLock'
  BY <1>0, <1>1, <1>2, AskKeepsLocks DEF RequestChange
<1>5. SessionsBelong' /\ ClosedAreRevoked'
  BY <1>1, RequestKeeps
<1>6. SavesOnce'
  BY <1>0, <1>1, <1>2 DEF SavesOnce, SaveChange, RequestChange
<1>7. QED
  BY <1>3, <1>4, <1>5, <1>6 DEF SessionsInvariant

LEMMA BootstrapStep ==
  ASSUME SessionsInvariant, NEW b \in Bootstrap, NEW e \in Email, BootstrapOwner(b, e)
  PROVE  SessionsInvariant'
<1>0. TypeOK /\ SaversLock /\ SessionsBelong /\ SavesOnce
  BY DEF SessionsInvariant
<1>1. /\ save[b].phase = "idle"
      /\ account' = account /\ saver' = saver
      /\ session' = session /\ request' = request
      /\ save' \in [Writer -> SaveState]
      /\ \A d \in Writer \ {b} : save'[d] = save[d]
      /\ save'[b].phase = "asked" /\ save'[b].email = e /\ save'[b].role = "OWNER"
      /\ save'[b].active = TRUE
  <2>1. Asks(b, e, "OWNER", TRUE)
    BY DEF BootstrapOwner
  <2>2. QED
    BY <1>0, <2>1, AskEffect DEF BootstrapOwner
<1>2. SaveChange(b)
  BY <1>1 DEF SaveChange
<1>3. TypeOK'
  BY <1>0, <1>1 DEF TypeOK
<1>4. SaversLock'
  <2>1. save'[b].email \in Email /\ save'[b].role \in Role
    BY <1>1
  <2>2. ~(save[b].phase \in {"locked", "inserted"})
    BY <1>1
  <2>3. b \in Writer /\ account' = account /\ saver' = saver /\ save'[b].phase = "asked"
    BY <1>1
  <2>4. QED
    BY <1>0, <1>2, <2>1, <2>2, <2>3, AskKeepsLocks
<1>5. SessionsBelong' /\ ClosedAreRevoked'
  BY <1>1, ClosedMeans DEF SessionsInvariant, SessionsBelong, Exists
<1>6. SavesOnce'
  <2>1. \A r \in Request : save'[r] = save[r]
    BY <1>1, SessionsAssumption
  <2>2. QED
    BY <1>0, <1>1, <2>1 DEF SavesOnce
<1>7. QED
  BY <1>3, <1>4, <1>5, <1>6 DEF SessionsInvariant

LEMMA InvariantInit == Init => SessionsInvariant
<1> SUFFICES ASSUME Init
             PROVE  SessionsInvariant
  OBVIOUS
<1> USE DEF Init
<1>1. TypeOK
  BY DEF TypeOK, Account, SaveState, SessionState, RequestState
<1>2. SaversLock /\ SavesOnce /\ SessionsBelong
  BY DEF SaversLock, SavesOnce, SessionsBelong, Saving
<1>3. ClosedAreRevoked
  BY DEF ClosedAreRevoked, Closed
<1>4. QED
  BY <1>1, <1>2, <1>3 DEF SessionsInvariant

LEMMA InvariantStep == SessionsInvariant /\ [Next]_vars => SessionsInvariant'
<1> SUFFICES ASSUME SessionsInvariant, [Next]_vars
             PROVE  SessionsInvariant'
  OBVIOUS
<1>0. TypeOK /\ SessionsBelong
  BY DEF SessionsInvariant
<1>1. ASSUME NEW s \in Session,
             (\E e \in Email : CheckLogin(s, e)) \/ InsertSession(s) \/ Expire(s)
      PROVE  SessionsInvariant'
  <2>1. SessionChange(s)
    BY <1>0, <1>1, SessionEffect
  <2>2. QED
    BY <2>1, SessionStep
<1>2. ASSUME NEW r \in Request,
             \/ \E s \in Session : LoadSession(r, s)
             \/ TouchSession(r) \/ CheckCsrf(r) \/ Serve(r) \/ Refuse(r) \/ LogoutAll(r)
      PROVE  SessionsInvariant'
  <2>1. RequestChange(r) /\ save' = save
    BY <1>0, <1>2, RequestEffect
  <2>2. QED
    BY <2>1, RequestStep
<1>3. ASSUME NEW r \in Request, Logout(r) \/ RevokeAll(r)
      PROVE  SessionsInvariant'
  <2>1. CloseChange(r)
    BY <1>0, <1>3, CloseEffect
  <2>2. QED
    BY <2>1, CloseStep
<1>4. ASSUME NEW r \in Request, NEW e \in Email, NEW role \in Role, NEW active \in BOOLEAN,
             CreateUser(r, e, role, active)
      PROVE  SessionsInvariant'
  BY <1>4, CreateStep
<1>5. ASSUME NEW b \in Bootstrap, NEW e \in Email, BootstrapOwner(b, e)
      PROVE  SessionsInvariant'
  BY <1>5, BootstrapStep
<1>6. ASSUME NEW c \in Writer,
             FindUser(c) \/ LockUser(c) \/ InsertUser(c) \/ CommitSave(c) \/ FailSave(c)
      PROVE  SessionsInvariant'
  BY <1>6, FindStep, LockUserStep, CommitSaveStep, FailSaveStep
<1>7. CASE UNCHANGED vars
  <2> USE <1>7 DEF vars
  <2>1. TypeOK'
    BY DEF SessionsInvariant, TypeOK
  <2>2. SaversLock'
    BY DEF SessionsInvariant, SaversLock, Saving, Exists
  <2>3. SavesOnce' /\ SessionsBelong'
    BY DEF SessionsInvariant, SavesOnce, SessionsBelong, Exists
  <2>4. ClosedAreRevoked'
    BY ClosedMeans DEF SessionsInvariant
  <2>5. QED
    BY <2>1, <2>2, <2>3, <2>4 DEF SessionsInvariant
<1>8. QED
  BY <1>1, <1>2, <1>3, <1>4, <1>5, <1>6, <1>7 DEF Next

-----------------------------------------------------------------------------
(***************************************************************************)
(* The theorems.                                                           *)
(***************************************************************************)

\* The invariant of a run: concurrent saves of one e-mail have its row one at a
\* time, an open session belongs to an account, and log-outs have revoked what they
\* answered for.
THEOREM SessionsInvariantHolds == Spec => []SessionsInvariant
<1>1. QED
  BY InvariantInit, InvariantStep, PTL DEF Spec

\* load_session_context and session_has_csrf find only sessions that are not revoked.
LEMMA PassedIsNotRevoked ==
  ASSUME SessionsInvariant, [Next]_vars, NEW r \in Request,
         request[r].phase # request'[r].phase, request'[r].phase \in {"found", "checked"}
  PROVE  request'[r].session \in Session /\ ~session[request'[r].session].revoked
<1>0. TypeOK /\ SessionsBelong /\ SaversLock
  BY DEF SessionsInvariant
<1>1. ASSUME NEW q \in Request,
             \/ \E s \in Session : LoadSession(q, s)
             \/ TouchSession(q) \/ CheckCsrf(q) \/ Serve(q) \/ Refuse(q) \/ LogoutAll(q)
      PROVE  request'[r].session \in Session /\ ~session[request'[r].session].revoked
  <2>1. RequestChange(q)
    BY <1>0, <1>1, RequestEffect
  <2>2. QED
    BY <2>1 DEF RequestChange
<1>2. ASSUME NEW q \in Request, Logout(q) \/ RevokeAll(q)
      PROVE  FALSE
  <2>1. CloseChange(q)
    BY <1>0, <1>2, CloseEffect
  <2>2. QED
    BY <2>1 DEF CloseChange
<1>3. ASSUME NEW q \in Request, NEW e \in Email, NEW role \in Role, NEW active \in BOOLEAN,
             CreateUser(q, e, role, active)
      PROVE  request'[r].session \in Session /\ ~session[request'[r].session].revoked
  <2>1. RequestChange(q)
    BY <1>0, <1>3, CreateEffect
  <2>2. QED
    BY <2>1 DEF RequestChange
<1>4. request' # request
  OBVIOUS
<1>5. ASSUME NEW s \in Session,
             (\E e \in Email : CheckLogin(s, e)) \/ InsertSession(s) \/ Expire(s)
      PROVE  FALSE
  BY <1>4, <1>5 DEF CheckLogin, InsertSession, Expire
<1>6. ASSUME NEW b \in Bootstrap, NEW e \in Email, BootstrapOwner(b, e)
      PROVE  FALSE
  BY <1>4, <1>6 DEF BootstrapOwner
<1>7. ASSUME NEW c \in Writer,
             FindUser(c) \/ LockUser(c) \/ InsertUser(c) \/ CommitSave(c) \/ FailSave(c)
      PROVE  FALSE
  BY <1>4, <1>7 DEF FindUser, LockUser, InsertUser, CommitSave, FailSave
<1>8. CASE UNCHANGED vars
  BY <1>4, <1>8 DEF vars
<1>9. QED
  BY <1>1, <1>2, <1>3, <1>5, <1>6, <1>7, <1>8 DEF Next

\* A session that a log-out has answered for is never found again by the SELECT of
\* load_session_context or by session_has_csrf.
THEOREM ClosedSessionsStayClosed == Spec => ClosedForGood
<1>1. ASSUME SessionsInvariant, [Next]_vars, NEW r \in Request,
             request[r].phase # request'[r].phase, request'[r].phase \in {"found", "checked"}
      PROVE  request'[r].session \notin Closed
  <2>1. request'[r].session \in Session /\ ~session[request'[r].session].revoked
    BY <1>1, PassedIsNotRevoked
  <2>2. QED
    BY <1>1, <2>1 DEF SessionsInvariant, ClosedAreRevoked
<1>2. SessionsInvariant /\ [Next]_vars =>
        [\A r \in Request :
           request[r].phase # request'[r].phase /\ request'[r].phase \in {"found", "checked"} =>
             request'[r].session \notin Closed]_vars
  BY <1>1
<1>3. QED
  BY <1>2, SessionsInvariantHolds, PTL DEF Spec, ClosedForGood
=============================================================================
