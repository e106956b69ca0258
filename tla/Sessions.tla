------------------------------ MODULE Sessions ------------------------------
(***************************************************************************)
(* Refresh tokens of the auth module: app/auth/service.py (login, refresh, *)
(* logout, confirm_password_reset) over app/auth/repository.py             *)
(* (SessionRepository).                                                    *)
(*                                                                         *)
(* Every handler is a coroutine: each await on MongoDB is a point where    *)
(* other requests run, so a handler is split into one action per MongoDB   *)
(* operation, and what it carries over an await is kept in req.  A single  *)
(* update_one, update_many or insert_one is one step.                      *)
(*                                                                         *)
(* A session is named by its position in the sessions collection, in order *)
(* of insertion; its refresh token is the same name.  All sessions have    *)
(* the same time to live, so they expire in that order, and expired is the *)
(* newest session whose expires_at has passed.  The TTL index later        *)
(* deletes such rows: a deleted row's token is refused without any effect, *)
(* as if it had not been presented, so the deletion is no action here.     *)
(***************************************************************************)
EXTENDS Naturals, Sequences

CONSTANTS Users,        \* registered users
          Requests,     \* request handlers that may run at the same time
          MaxSessions   \* bound on the sessions ever created

ASSUME MaxSessionsAssumption == MaxSessions \in Nat

VARIABLES sessions,     \* the collection: immutable fields, one row per session
          revoked,      \* the sessions whose revoked_at is set
          expired,      \* sessions 1..expired are past their expires_at
          req,          \* what each request handler is doing
          condemned     \* history: families revoked with no rotation in flight

vars == <<sessions, revoked, expired, req, condemned>>

SessionId == 1..MaxSessions

(***************************************************************************)
(* parent and by are history: the session a rotation replaced (0 for a     *)
(* login) and the request that inserted the row.                           *)
(***************************************************************************)
Row == [user: Users, family: SessionId, parent: 0..MaxSessions, by: Requests]

NoRequest == [pc |-> "idle"]

(***************************************************************************)
(* A request is idle, or holds the session document that                   *)
(* find_by_token_hash returned.                                            *)
(***************************************************************************)
Holding == {"rotating", "issuing", "reuse", "closing"}

Request == {NoRequest} \cup [pc: Holding, sess: SessionId]

TypeOK ==
    /\ sessions \in Seq(Row)
    /\ Len(sessions) <= MaxSessions
    /\ revoked \subseteq 1..Len(sessions)
    /\ expired \in 0..Len(sessions)
    /\ req \in [Requests -> Request]
    /\ \A p \in Requests : req[p].pc \in Holding => req[p].sess \in 1..Len(sessions)
    /\ condemned \subseteq 1..Len(sessions)

-----------------------------------------------------------------------------
Live(s) == s \in (expired + 1)..Len(sessions) /\ s \notin revoked

Family(s) == sessions[s].family

Members(f) == {s \in 1..Len(sessions) : Family(s) = f}

(***************************************************************************)
(* A rotation of s is in flight from the check that found s usable until   *)
(* its successor has been inserted.                                        *)
(***************************************************************************)
Rotating(p) == req[p].pc \in {"rotating", "issuing"}

RotationInFlight(f) == \E p \in Requests : Rotating(p) /\ Family(req[p].sess) = f

InUse(f) == RotationInFlight(f) \/ \E s \in Members(f) : Live(s)

-----------------------------------------------------------------------------
Init ==
    /\ sessions = <<>>
    /\ revoked = {}
    /\ expired = 0
    /\ req = [p \in Requests |-> NoRequest]
    /\ condemned = {}

Start(p, r) == /\ req[p] = NoRequest
               /\ req' = [req EXCEPT ![p] = r]

Finish(p) == req' = [req EXCEPT ![p] = NoRequest]

(***************************************************************************)
(* SessionRepository.create, then the response with the new token.  When   *)
(* the response is lost the token is simply never presented.               *)
(***************************************************************************)
Create(p, user, family, parent) ==
    /\ Len(sessions) < MaxSessions
    /\ sessions' = Append(sessions, [user |-> user, family |-> family,
                                     parent |-> parent, by |-> p])

Revoke(s) == revoked' = revoked \cup {s}

(***************************************************************************)
(* The last step of login, register and google_login: the session opens a  *)
(* family of its own.  Nothing they do before touches the sessions.        *)
(***************************************************************************)
LoginNoFamily(p, u) ==     \* slip: the new session gets no family id
    /\ req[p] = NoRequest
    /\ Create(p, u, 0, 0)
    /\ UNCHANGED <<revoked, expired, req, condemned>>

Login(p, u) ==
    /\ req[p] = NoRequest
    /\ Create(p, u, Len(sessions) + 1, 0)
    /\ UNCHANGED <<revoked, expired, req, condemned>>

(***************************************************************************)
(* refresh, up to the first write.  A token that is unknown to the         *)
(* database, or expired and not revoked, is refused and nothing changes.   *)
(***************************************************************************)
RefreshAcceptRevoked(p, s) ==     \* slip: revoked_at is not looked at
    /\ s > expired
    /\ Start(p, [pc |-> "rotating", sess |-> s])
    /\ UNCHANGED <<sessions, revoked, expired, condemned>>

RefreshAcceptExpired(p, s) ==     \* slip: expires_at is not looked at
    /\ s \notin revoked
    /\ Start(p, [pc |-> "rotating", sess |-> s])
    /\ UNCHANGED <<sessions, revoked, expired, condemned>>

RefreshAccept(p, s) ==
    /\ s \notin revoked
    /\ s > expired
    /\ Start(p, [pc |-> "rotating", sess |-> s])
    /\ UNCHANGED <<sessions, revoked, expired, condemned>>

RefreshReuse(p, s) ==
    /\ s \in revoked
    /\ Start(p, [pc |-> "reuse", sess |-> s])
    /\ UNCHANGED <<sessions, revoked, expired, condemned>>

RevokeRotatedForgotten(p) ==     \* slip: the rotated token stays usable
    /\ req[p].pc = "rotating"
    /\ req' = [req EXCEPT ![p].pc = "issuing"]
    /\ UNCHANGED <<sessions, revoked, expired, condemned>>

RevokeRotated(p) ==
    /\ req[p].pc = "rotating"
    /\ Revoke(req[p].sess)
    /\ req' = [req EXCEPT ![p].pc = "issuing"]
    /\ UNCHANGED <<sessions, expired, condemned>>

IssueSuccessor(p) ==
    LET s == req[p].sess IN
    /\ req[p].pc = "issuing"
    /\ Create(p, sessions[s].user, Family(s), s)
    /\ Finish(p)
    /\ UNCHANGED <<revoked, expired, condemned>>

OnlyTheReused(s) == {s}     \* slip: the rest of the family is spared

FamilyOfReused(s) == Members(Family(s))

RevokeFamily(p) ==
    LET s == req[p].sess IN
    /\ req[p].pc = "reuse"
    /\ revoked' = revoked \cup FamilyOfReused(s)
    /\ condemned' = condemned \cup {f \in {Family(s)} : ~RotationInFlight(f)}
    /\ Finish(p)
    /\ UNCHANGED <<sessions, expired>>

(***************************************************************************)
(* logout: an expired session can still be logged out, and a token that is *)
(* revoked or gone is ignored.                                             *)
(***************************************************************************)
Logout(p, s) ==
    /\ s \notin revoked
    /\ Start(p, [pc |-> "closing", sess |-> s])
    /\ UNCHANGED <<sessions, revoked, expired, condemned>>

RevokeOwn(p) ==
    /\ req[p].pc = "closing"
    /\ Revoke(req[p].sess)
    /\ Finish(p)
    /\ UNCHANGED <<sessions, expired, condemned>>

(***************************************************************************)
(* The last step of confirm_password_reset, once its token is marked used  *)
(* and the password hash replaced: every session of the user is revoked.   *)
(***************************************************************************)
SessionsOf(u) == {s \in 1..Len(sessions) : sessions[s].user = u}

RevokeAllForUser(p, u) ==
    /\ req[p] = NoRequest
    /\ revoked' = revoked \cup SessionsOf(u)
    /\ condemned' = condemned \cup
                      {f \in {Family(s) : s \in SessionsOf(u)} : ~RotationInFlight(f)}
    /\ UNCHANGED <<sessions, expired, req>>

(***************************************************************************)
(* The process may die, or the client disconnect, between any two steps.   *)
(***************************************************************************)
Crash(p) ==
    /\ req[p] # NoRequest
    /\ Finish(p)
    /\ UNCHANGED <<sessions, revoked, expired, condemned>>

Expire ==
    /\ expired < Len(sessions)
    /\ expired' = expired + 1
    /\ UNCHANGED <<sessions, revoked, req, condemned>>

Handler(p) ==
    \/ \E u \in Users : Login(p, u) \/ RevokeAllForUser(p, u)
    \/ \E s \in 1..Len(sessions) :
         RefreshAccept(p, s) \/ RefreshReuse(p, s) \/ Logout(p, s)
    \/ RevokeRotated(p) \/ IssueSuccessor(p) \/ RevokeFamily(p) \/ RevokeOwn(p)
    \/ Crash(p)

Next == (\E p \in Requests : Handler(p)) \/ Expire

Spec == Init /\ [][Next]_vars

-----------------------------------------------------------------------------
(***************************************************************************)
(* Rotation order: whatever the interleaving and wherever a handler dies,  *)
(* a session issued by refresh replaces a session of the same user and the *)
(* same family, and the replaced session is already revoked - so from the  *)
(* moment a successor exists, presenting its predecessor is reuse.         *)
(***************************************************************************)
RotationOrder ==
    \A t \in 1..Len(sessions) :
      LET s == sessions[t].parent IN
      IF s = 0 THEN Family(t) = t
               ELSE /\ s < t
                    /\ s \in revoked
                    /\ Family(t) = Family(s)
                    /\ sessions[t].user = sessions[s].user

(***************************************************************************)
(* Concurrency is the only way to exchange a token twice: two successors   *)
(* of one token were inserted by two different request handlers.  With one *)
(* handler at a time a token is exchanged at most once.                    *)
(***************************************************************************)
OneExchangePerHandler ==
    \A t1, t2 \in 1..Len(sessions) :
      /\ sessions[t1].parent = sessions[t2].parent
      /\ sessions[t1].parent # 0
      /\ sessions[t1].by = sessions[t2].by
      => t1 = t2

(***************************************************************************)
(* Revocation is final: a family revoked by reuse detection or by a        *)
(* password reset, when no rotation of it was in flight, never holds a     *)
(* usable session again.                                                   *)
(***************************************************************************)
CondemnedStayDead == \A f \in condemned : ~InUse(f)

(***************************************************************************)
(* A family is opened once, by a login, and once nothing in it is usable   *)
(* or being rotated it is closed for ever (SessionFamilies).               *)
(***************************************************************************)
familyPhase ==
    [f \in SessionId |-> IF Members(f) = {} THEN "unborn"
                         ELSE IF InUse(f) THEN "open" ELSE "closed"]

Families == INSTANCE SessionFamilies WITH FamilyId <- SessionId, phase <- familyPhase

FamilyLifecycle == Families!Spec

(***************************************************************************)
(* docs/SECURITY.md, line 17: refresh tokens rotate on every use and the   *)
(* reuse of a rotated token ends the family, so that no token is ever      *)
(* exchanged twice.                                                        *)
(***************************************************************************)
ExchangedOnce ==
    \A t1, t2 \in 1..Len(sessions) :
      sessions[t1].parent = sessions[t2].parent /\ sessions[t1].parent # 0 => t1 = t2
=============================================================================
