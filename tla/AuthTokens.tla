----------------------------- MODULE AuthTokens -----------------------------
(***************************************************************************)
(* Email-verification and password-reset tokens: app/auth/service.py over  *)
(* app/auth/repository.py (AuthTokenRepository).                           *)
(*                                                                         *)
(* Both purposes share one collection.  A request handler is split at each *)
(* await on MongoDB; a token is named by its position in the collection, in *)
(* order of insertion.  The link mailed to the user carries the token, so  *)
(* any token that was inserted may be presented, any number of times, by   *)
(* handlers that overlap.  A row past its expires_at is refused whether or *)
(* not the TTL index has deleted it, so the deletion is no action here.    *)
(***************************************************************************)
EXTENDS Naturals, Sequences

CONSTANTS Users,        \* registered users
          GoogleUsers,  \* those whose account Google created as verified
          Requests,     \* request handlers that may run at the same time
          MaxTokens     \* bound on the tokens ever inserted

ASSUME AuthTokensAssumption ==
    GoogleUsers \subseteq Users /\ MaxTokens \in Nat

VARIABLES tokens,       \* the collection: immutable fields, one row per token
          used,         \* the tokens whose used_at is set
          expired,      \* the tokens past their expires_at
          verified,     \* users whose email_verified_at is set
          password,     \* the reset token that set a user's password, or 0
          req,          \* what each request handler is doing
          redeemed,     \* history: tokens that mark_used was called for
          applied,      \* history: how often a handler carried out a token's effect
          died          \* history: tokens whose handler died with them burnt

vars == <<tokens, used, expired, verified, password, req, redeemed, applied, died>>

Purposes == {"email_verification", "password_reset"}

TokenId == 1..MaxTokens

(***************************************************************************)
(* seen is history: how many tokens there were when create marked the      *)
(* earlier ones used, before it inserted this one.                         *)
(***************************************************************************)
Row == [user: Users, purpose: Purposes, seen: 0..MaxTokens]

NoRequest == [pc |-> "idle"]

Issuing == [pc: {"invalidating"}, user: Users, purpose: Purposes]
             \cup [pc: {"inserting"}, user: Users, purpose: Purposes, seen: 0..MaxTokens]

(***************************************************************************)
(* endpoint is the purpose the request that presented the token stands for. *)
(***************************************************************************)
Redeeming == [pc: {"marking", "applying"}, token: TokenId, endpoint: Purposes]

TypeOK ==
    /\ tokens \in Seq(Row) /\ Len(tokens) <= MaxTokens
    /\ used \subseteq 1..Len(tokens)
    /\ expired \subseteq 1..Len(tokens)
    /\ verified \subseteq Users
    /\ password \in [Users -> 0..Len(tokens)]
    /\ req \in [Requests -> {NoRequest} \cup Issuing \cup Redeeming]
    /\ \A p \in Requests : req[p] \in Redeeming => req[p].token <= Len(tokens)
    /\ redeemed \subseteq 1..Len(tokens)
    /\ applied \in [TokenId -> [Requests -> Nat]]
    /\ died \subseteq 1..Len(tokens)

-----------------------------------------------------------------------------
Init ==
    /\ tokens = <<>>
    /\ used = {}
    /\ expired = {}
    /\ verified = GoogleUsers
    /\ password = [u \in Users |-> 0]
    /\ req = [p \in Requests |-> NoRequest]
    /\ redeemed = {}
    /\ applied = [t \in TokenId |-> [p \in Requests |-> 0]]
    /\ died = {}

Start(p, r) == req[p] = NoRequest /\ req' = [req EXCEPT ![p] = r]

Goto(p, r) == req' = [req EXCEPT ![p] = r]

Finish(p) == Goto(p, NoRequest)

Holds(p, t) == req[p].pc \in {"marking", "applying"} /\ req[p].token = t

UsableForEver(t) == t \notin used     \* slip: expires_at is not looked at

Usable(t) == t \notin used /\ t \notin expired

(***************************************************************************)
(* register, resend_verification and request_password_reset, up to the     *)
(* write: a verified user is not sent another verification token.          *)
(***************************************************************************)
Request(p, u, purpose) ==
    /\ purpose = "email_verification" => u \notin verified
    /\ Start(p, [pc |-> "invalidating", user |-> u, purpose |-> purpose])
    /\ UNCHANGED <<tokens, used, expired, verified, password, redeemed, applied, died>>

(***************************************************************************)
(* AuthTokenRepository.create: the earlier tokens of the purpose are       *)
(* marked used by one update_many, the new one is inserted by a second     *)
(* operation.                                                              *)
(***************************************************************************)
SupersededResets(u, purpose) ==     \* slip: verification tokens are left alone
    {t \in 1..Len(tokens) :
        tokens[t].user = u /\ tokens[t].purpose = purpose /\ purpose = "password_reset"}

SupersededAfterInsert(u, purpose) ==     \* slip: the new token is marked as well
    {t \in 1..(Len(tokens) + 1) :
        t > Len(tokens) \/ (tokens[t].user = u /\ tokens[t].purpose = purpose)}

Superseded(u, purpose) ==
    {t \in 1..Len(tokens) : tokens[t].user = u /\ tokens[t].purpose = purpose}

Invalidate(p) ==
    /\ req[p].pc = "invalidating"
    /\ used' = used \cup Superseded(req[p].user, req[p].purpose)
    /\ Goto(p, [pc |-> "inserting", user |-> req[p].user, purpose |-> req[p].purpose,
                seen |-> Len(tokens)])
    /\ UNCHANGED <<tokens, expired, verified, password, redeemed, applied, died>>

Insert(p) ==
    /\ req[p].pc = "inserting"
    /\ Len(tokens) < MaxTokens
    /\ tokens' = Append(tokens, [user |-> req[p].user, purpose |-> req[p].purpose,
                                 seen |-> req[p].seen])
    /\ Finish(p)
    /\ UNCHANGED <<used, expired, verified, password, redeemed, applied, died>>

(***************************************************************************)
(* verify_email and confirm_password_reset: the token is looked up and     *)
(* checked, marked used, and only then its effect is carried out.  A token *)
(* that is used, expired or of the other purpose is refused, or for a      *)
(* verified user answered with success; either way nothing changes.        *)
(***************************************************************************)
AnyPurpose(t, endpoint) == TRUE     \* slip: the purpose is not looked at

ForPurpose(t, endpoint) == tokens[t].purpose = endpoint

Present(p, t, endpoint) ==
    /\ ForPurpose(t, endpoint)
    /\ Usable(t)
    /\ Start(p, [pc |-> "marking", token |-> t, endpoint |-> endpoint])
    /\ UNCHANGED <<tokens, used, expired, verified, password, redeemed, applied, died>>

MarkUsedThenCheck(p) ==     \* slip: the expiry is looked at once the token is burnt
    LET t == req[p].token IN
    /\ req[p].pc = "marking"
    /\ used' = used \cup {t}
    /\ redeemed' = redeemed \cup {t}
    /\ Goto(p, IF t \in expired THEN NoRequest ELSE [req[p] EXCEPT !.pc = "applying"])
    /\ UNCHANGED <<tokens, expired, verified, password, applied, died>>

MarkUsed(p) ==
    LET t == req[p].token IN
    /\ req[p].pc = "marking"
    /\ used' = used \cup {t}
    /\ redeemed' = redeemed \cup {t}
    /\ Goto(p, [req[p] EXCEPT !.pc = "applying"])
    /\ UNCHANGED <<tokens, expired, verified, password, applied, died>>

Applying(p, endpoint) == req[p].pc = "applying" /\ req[p].endpoint = endpoint

Applied(p) == applied' = [applied EXCEPT ![req[p].token][p] = @ + 1]

MarkVerified(p) ==
    /\ Applying(p, "email_verification")
    /\ verified' = verified \cup {tokens[req[p].token].user}
    /\ Applied(p)
    /\ Finish(p)
    /\ UNCHANGED <<tokens, used, expired, password, redeemed, died>>

\* Then every session of the user is revoked (RevokeAllForUser of Sessions).
UpdatePassword(p) ==
    LET t == req[p].token IN
    /\ Applying(p, "password_reset")
    /\ password' = [password EXCEPT ![tokens[t].user] = t]
    /\ Applied(p)
    /\ Finish(p)
    /\ UNCHANGED <<tokens, used, expired, verified, redeemed, died>>

(***************************************************************************)
(* The process may die, or the client disconnect, between any two steps.   *)
(***************************************************************************)
Crash(p) ==
    /\ req[p] # NoRequest
    /\ died' = died \cup {t \in redeemed : Holds(p, t)}
    /\ Finish(p)
    /\ UNCHANGED <<tokens, used, expired, verified, password, redeemed, applied>>

Expire(t) ==
    /\ t \notin expired
    /\ expired' = expired \cup {t}
    /\ UNCHANGED <<tokens, used, verified, password, req, redeemed, applied, died>>

Handler(p) ==
    \/ \E u \in Users, purpose \in Purposes : Request(p, u, purpose)
    \/ \E t \in 1..Len(tokens), endpoint \in Purposes : Present(p, t, endpoint)
    \/ Invalidate(p) \/ Insert(p)
    \/ MarkUsed(p) \/ MarkVerified(p) \/ UpdatePassword(p)
    \/ Crash(p)

Next == (\E p \in Requests : Handler(p)) \/ (\E t \in 1..Len(tokens) : Expire(t))

Spec == Init /\ [][Next]_vars

-----------------------------------------------------------------------------
Superseding(t1, t2) ==
    /\ tokens[t1].user = tokens[t2].user
    /\ tokens[t1].purpose = tokens[t2].purpose
    /\ t1 <= tokens[t2].seen

(***************************************************************************)
(* Issuing a token ends every token of that user and purpose that existed  *)
(* when create marked the earlier ones: however requests overlap, an older *)
(* token is usable beside a newer one only if it was inserted between the  *)
(* two writes of the newer one's create.                                   *)
(***************************************************************************)
IssueSupersedes ==
    \A t1, t2 \in 1..Len(tokens) : Superseding(t1, t2) => t1 \in used

(***************************************************************************)
(* A user is verified, or has a password set by a token, only through a    *)
(* burnt token of the right purpose that was issued to that user.          *)
(***************************************************************************)
Burnt(t, u, purpose) ==
    t \in redeemed \cap used /\ tokens[t].user = u /\ tokens[t].purpose = purpose

EffectsOwned ==
    \A u \in Users :
      /\ u \in verified \ GoogleUsers =>
           \E t \in 1..Len(tokens) : Burnt(t, u, "email_verification")
      /\ password[u] # 0 => Burnt(password[u], u, "password_reset")

(***************************************************************************)
(* No burnt token without its effect: a token that verify_email or         *)
(* confirm_password_reset marked used had its effect, or is about to, or   *)
(* its handler died in between (which loses the token for good).           *)
(***************************************************************************)
RedeemedTakesEffect ==
    \A t \in redeemed :
      \/ \E p \in Requests : applied[t][p] > 0 \/ (Holds(p, t) /\ req[p].pc = "applying")
      \/ t \in died

(***************************************************************************)
(* A token that is used or expired, and that no handler has looked up      *)
(* before, never gets into a handler's hands again.                        *)
(***************************************************************************)
Dead(t) == t \in used \cup expired /\ \A p \in Requests : ~Holds(p, t)

DeadStaysDead == [][\A t \in 1..Len(tokens) : Dead(t) => Dead(t)']_vars

(***************************************************************************)
(* docs/DATABASE.md, line 30: the tokens are single-use.  Stated of password *)
(* resets, where a second use installs a second password.                  *)
(***************************************************************************)
SingleUse ==
    \A t \in 1..Len(tokens) : \A p, q \in Requests :
      /\ tokens[t].purpose = "password_reset"
      /\ applied[t][p] > 0 /\ applied[t][q] > 0
      => p = q
=============================================================================
