------------------------------ MODULE Accounts ------------------------------
(***************************************************************************)
(* Accounts as the API changes them: logins behind the lockout kept in     *)
(* Redis, refresh tokens that rotate, password resets, the admin's         *)
(* operations on users, and invitations that become accounts.  Each        *)
(* request runs once, interleaved with the others at every statement that  *)
(* another request can see or be seen by; a transaction's writes appear    *)
(* when it commits (READ COMMITTED).                                       *)
(*                                                                         *)
(* Abstractions: a password is right or wrong; tokens and invitations are  *)
(* known by the request that made them; refresh and reset tokens outlive   *)
(* the requests (7 days, 1 hour); all invitations go to one newcomer; a    *)
(* request refused by its first read changes nothing and is left out.      *)
(***************************************************************************)
EXTENDS Naturals, Sequences, FiniteSets

CONSTANTS
    Requests,       \* bound: the requests there are
    Founders,       \* the accounts at the start, all of them admins
    Newcomer,       \* whose address is invited
    Session,        \* a refresh token issued before the first request
    MaxFails,       \* LOCKOUT_MAX_FAILS
    RequireRedis    \* LOCKOUT_REQUIRE_REDIS

ASSUME AccountsAssumption ==
    /\ MaxFails \in Nat \ {0} /\ RequireRedis \in BOOLEAN
    /\ Founders # {} /\ Newcomer \notin Founders
    /\ Session \notin Requests /\ "refused" \notin Requests \cup {Session}

VARIABLES
    accounts,    \* users rows
    active,      \* those with is_active
    admins,      \* those with role admin
    fails,       \* per address: members of lockout:failed in the window
    locked,      \* addresses with a lockout:locked key
    token,       \* per refresh token
    resets,      \* per password reset token, named by the request that asked
    invites,     \* the invitations rows in the order they were made
    req,         \* per request: what it does, to whom, and how far it is
    before       \* history: the requests that had ended when it began

accountVars == <<accounts, active, admins>>
redisVars == <<fails, locked>>
vars == <<accountVars, redisVars, token, resets, invites, req, before>>

Users == Founders \cup {Newcomer}
Tokens == Requests \cup {Session}
Nobody == "nobody"
Unborn == [kind |-> "none", user |-> Nobody, obj |-> Nobody, pc |-> "unborn", seen |-> {}]
Ended == {r \in Requests : req[r].pc = "done"}
Committed(kinds) == {r \in Requests : req[r].pc \in {"issue", "done"} /\ req[r].kind \in kinds
                                      /\ req[r].seen # {"refused"}}

Begin(r, kind, user, obj, pc) ==
    /\ req[r].pc = "unborn"
    /\ req' = [req EXCEPT ![r] = [kind |-> kind, user |-> user, obj |-> obj, pc |-> pc,
                                  seen |-> {}]]
    /\ before' = [before EXCEPT ![r] = Ended]
At(r, kinds, pc) == req[r].pc = pc /\ req[r].kind \in kinds
Goto(r, pc) == req' = [req EXCEPT ![r].pc = pc] /\ UNCHANGED before
\* The exception is answered and the transaction rolled back.
Refuse(r) == req' = [req EXCEPT ![r].pc = "done", ![r].seen = {"refused"}] /\ UNCHANGED before
\* require_role, with the user row read as the request begins.
IsAdmin(a) == a \in active \cap admins
Owner(t) == IF t = Session THEN CHOOSE u \in Founders : TRUE ELSE req[t].user
LiveOf(u) == {t \in Tokens : token[t] = "live" /\ Owner(t) = u}

Init ==
    /\ accounts = Founders /\ active = Founders /\ admins = Founders
    /\ fails = [u \in Users |-> 0] /\ locked = {}
    /\ token = [t \in Tokens |-> IF t = Session THEN "live" ELSE "none"]
    /\ resets = [r \in Requests |-> "none"]
    /\ invites = <<[st |-> "pending", by |-> Nobody]>>
    /\ req = [r \in Requests |-> Unborn] /\ before = [r \in Requests |-> {}]

-----------------------------------------------------------------------------
(* POST /auth/login. *)

\* AccountLockout.check.
LoginCheck(r, u) ==
    /\ u \notin locked
    /\ Begin(r, "login", u, Nobody, "verify")
    /\ UNCHANGED <<accountVars, redisVars, token, resets, invites>>

\* Redis fails the check: the strict mode answers 503, the lenient one takes
\* the account for not locked.
LoginUnchecked(r, u) ==
    /\ ~RequireRedis
    /\ Begin(r, "login", u, Nobody, "verify")
    /\ UNCHANGED <<accountVars, redisVars, token, resets, invites>>

LoginVerify(r) ==
    /\ At(r, {"login"}, "verify")
    /\ \/ Goto(r, "record")
       \/ req[r].user \in active /\ Goto(r, "reset")
       \/ req[r].user \in accounts \ active /\ Refuse(r)
    /\ UNCHANGED <<accountVars, redisVars, token, resets, invites>>

\* Mutant: the threshold is one failure late.
RecordFailureLate(r) ==
    LET u == req[r].user IN
    /\ At(r, {"login"}, "record")
    /\ fails' = [fails EXCEPT ![u] = @ + 1]
    /\ IF fails[u] + 1 > MaxFails THEN Goto(r, "lock") ELSE Refuse(r)
    /\ UNCHANGED <<accountVars, locked, token, resets, invites>>

\* record_failure: one MULTI counts the failure, another call sets the lock;
\* an error of Redis is swallowed.
RecordFailure(r) ==
    LET u == req[r].user IN
    /\ At(r, {"login"}, "record")
    /\ \/ /\ fails' = [fails EXCEPT ![u] = @ + 1]
          /\ IF fails[u] + 1 >= MaxFails THEN Goto(r, "lock") ELSE Refuse(r)
       \/ UNCHANGED fails /\ Refuse(r)
    /\ UNCHANGED <<accountVars, locked, token, resets, invites>>

SetLock(r) ==
    /\ At(r, {"login"}, "lock")
    /\ \/ locked' = locked \cup {req[r].user} /\ Refuse(r)
       \/ /\ req' = [req EXCEPT ![r].pc = "done", ![r].seen = {"lock_lost"}]
          /\ UNCHANGED <<locked, before>>
    /\ UNCHANGED <<accountVars, fails, token, resets, invites>>

\* AccountLockout.reset, best effort too.
LoginReset(r) ==
    LET u == req[r].user IN
    /\ At(r, {"login"}, "reset")
    /\ \/ fails' = [fails EXCEPT ![u] = 0] /\ locked' = locked \ {u}
       \/ UNCHANGED redisVars
    /\ Goto(r, "issue")
    /\ UNCHANGED <<accountVars, token, resets, invites>>

\* _issue_tokens: the refresh token is durable before the answer.
IssueTokens(r) ==
    /\ req[r].pc = "issue"
    /\ token' = [token EXCEPT ![r] = "live"]
    /\ Goto(r, "done")
    /\ UNCHANGED <<accountVars, redisVars, resets, invites>>

\* The oldest failures leave the window.
WindowSlides(u) ==
    /\ \E n \in 0 .. fails[u] : n < fails[u] /\ fails' = [fails EXCEPT ![u] = n]
    /\ UNCHANGED <<accountVars, locked, token, resets, invites, req, before>>

\* LOCKOUT_DURATION_SECS exceeds LOCKOUT_WINDOW_SECS (config.py): what was
\* counted before the lock is out of the window when it ends.
LockExpires(u) ==
    /\ u \in locked
    /\ locked' = locked \ {u} /\ fails' = [fails EXCEPT ![u] = 0]
    /\ UNCHANGED <<accountVars, token, resets, invites, req, before>>

-----------------------------------------------------------------------------
(* Refresh tokens. *)

\* Mutant: the lookup ignores revoked_at.
ReadTokenRevoked(r, t) ==
    /\ token[t] # "none" /\ Owner(t) \in active
    /\ \E kind \in {"refresh", "logout"} : Begin(r, kind, Owner(t), t, "spend")
    /\ UNCHANGED <<accountVars, redisVars, token, resets, invites>>

\* get_valid_by_token and the user's row; the logout only asks for an
\* active user, whoever the token belongs to.
ReadToken(r, t) ==
    /\ token[t] = "live" /\ Owner(t) \in active
    /\ \E kind \in {"refresh", "logout"} : Begin(r, kind, Owner(t), t, "spend")
    /\ UNCHANGED <<accountVars, redisVars, token, resets, invites>>

\* revoke is an UPDATE by id: it does not ask whether the row is revoked.
Rotate(r) ==
    /\ At(r, {"refresh"}, "spend")
    /\ token' = [token EXCEPT ![req[r].obj] = "revoked", ![r] = "live"]
    /\ Goto(r, "done")
    /\ UNCHANGED <<accountVars, redisVars, resets, invites>>

Logout(r) ==
    /\ At(r, {"logout"}, "spend")
    /\ token' = [token EXCEPT ![req[r].obj] = "revoked"]
    /\ Goto(r, "done")
    /\ UNCHANGED <<accountVars, redisVars, resets, invites>>

-----------------------------------------------------------------------------
(* Passwords, and the users an admin manages. *)

\* create_password_reset_token: the UPDATE of the earlier tokens sees the
\* committed ones.
AskReset(r, u) ==
    /\ u \in active
    /\ req[r].pc = "unborn"
    /\ req' = [req EXCEPT ![r] = [kind |-> "ask", user |-> u, obj |-> Nobody, pc |-> "asked",
                   seen |-> {x \in Requests : resets[x] = "live" /\ req[x].user = u}]]
    /\ before' = [before EXCEPT ![r] = Ended]
    /\ UNCHANGED <<accountVars, redisVars, token, resets, invites>>

AskCommits(r) ==
    /\ At(r, {"ask"}, "asked")
    /\ resets' = [x \in Requests |->
           IF x = r THEN "live" ELSE IF x \in req[r].seen THEN "used" ELSE resets[x]]
    /\ Goto(r, "done")
    /\ UNCHANGED <<accountVars, redisVars, token, invites>>

ConfirmReads(r, x) ==
    /\ resets[x] = "live"
    /\ Begin(r, "confirm", req[x].user, x, "write")
    /\ UNCHANGED <<accountVars, redisVars, token, resets, invites>>

ChangeReads(r, u) ==
    /\ u \in active
    /\ Begin(r, "change", u, Nobody, "write")
    /\ UNCHANGED <<accountVars, redisVars, token, resets, invites>>

\* PATCH /users/me with a new password: the same UPDATE, and the sessions stay.
UpdateMe(r, u) ==
    /\ u \in active
    /\ Begin(r, "profile", u, Nobody, "write")
    /\ UNCHANGED <<accountVars, redisVars, token, resets, invites>>

\* DELETE /users/{id}: never the admin's own account.
DeactivateUser(r, a, u) ==
    /\ IsAdmin(a) /\ a # u /\ u \in accounts
    /\ Begin(r, "deactivate", u, a, "write")
    /\ UNCHANGED <<accountVars, redisVars, token, resets, invites>>

\* Mutant: an admin may pick its own row.
ChangeRoleOfAny(r, a, u) ==
    /\ IsAdmin(a) /\ u \in accounts
    /\ \E kind \in {"promote", "demote"} : Begin(r, kind, u, a, "write")
    /\ UNCHANGED <<accountVars, redisVars, token, resets, invites>>

\* PATCH /users/{id}/role, which does not ask whether the user is active.
ChangeUserRole(r, a, u) ==
    /\ IsAdmin(a) /\ a # u /\ u \in accounts
    /\ \E kind \in {"promote", "demote"} : Begin(r, kind, u, a, "write")
    /\ UNCHANGED <<accountVars, redisVars, token, resets, invites>>

\* PATCH /users/{id} with an is_active that differs from the row's: off goes
\* the way of the DELETE, on leaves the sessions alone.
PatchUser(r, a, u) ==
    /\ IsAdmin(a) /\ u \in accounts
    /\ \/ a # u /\ u \in active /\ Begin(r, "deactivate", u, a, "write")
       \/ u \notin active /\ Begin(r, "reactivate", u, a, "write")
    /\ UNCHANGED <<accountVars, redisVars, token, resets, invites>>

\* An UPDATE holds the row of the user until its transaction ends.
RowFree(u) == \A r \in Requests : req[r].pc = "written" => req[r].user # u
Revoking == {"confirm", "change", "deactivate"}

\* Mutant: the reset flow leaves the sessions alone.
RevokesOnChange(r) ==
    IF req[r].kind \in Revoking \ {"confirm"} THEN LiveOf(req[r].user) ELSE {}

\* revoke_all_for_user revokes the tokens committed when it runs.
Revokes(r) == IF req[r].kind \in Revoking THEN LiveOf(req[r].user) ELSE {}

UpdateUser(r) ==
    /\ req[r].pc = "write" /\ RowFree(req[r].user)
    /\ req' = [req EXCEPT ![r].pc = "written", ![r].seen = Revokes(r)]
    /\ UNCHANGED <<accountVars, redisVars, token, resets, invites, before>>

CommitUser(r) ==
    LET u == req[r].user
        kind == req[r].kind
    IN /\ req[r].pc = "written"
       /\ token' = [t \in Tokens |-> IF t \in req[r].seen THEN "revoked" ELSE token[t]]
       /\ resets' = IF kind = "confirm" THEN [resets EXCEPT ![req[r].obj] = "used"] ELSE resets
       /\ active' = CASE kind = "deactivate" -> active \ {u}
                      [] kind = "reactivate" -> active \cup {u}
                      [] OTHER -> active
       /\ admins' = CASE kind = "demote" -> admins \ {u}
                      [] kind = "promote" -> admins \cup {u}
                      [] OTHER -> admins
       /\ Goto(r, "done")
       /\ UNCHANGED <<accounts, redisVars, invites>>

-----------------------------------------------------------------------------
(* Invitations. *)

Pending == {i \in DOMAIN invites : invites[i].st = "pending"}
Newest(S) == {i \in S : \A j \in S : j <= i}

InviteReads(r, a) ==
    /\ IsAdmin(a) /\ Newcomer \notin accounts
    /\ Begin(r, "invite", a, Nobody, "supersede")
    /\ UNCHANGED <<accountVars, redisVars, token, resets, invites>>

\* get_pending_by_email and revoke_pending, which commits.
Supersede(r) ==
    /\ At(r, {"invite"}, "supersede")
    /\ invites' = [i \in DOMAIN invites |->
           IF i \in Newest(Pending) THEN [invites[i] EXCEPT !.st = "expired"] ELSE invites[i]]
    /\ Goto(r, "mail")
    /\ UNCHANGED <<accountVars, redisVars, token, resets>>

\* The mail goes out before the commit; its failure is swallowed.
InviteCommits(r) ==
    /\ At(r, {"invite"}, "mail")
    /\ invites' = Append(invites, [st |-> "pending", by |-> r])
    /\ Goto(r, "done")
    /\ UNCHANGED <<accountVars, redisVars, token, resets>>

AcceptReads(r, i) ==
    /\ i \in Pending
    /\ Begin(r, "accept", Newcomer, i, "create")
    /\ UNCHANGED <<accountVars, redisVars, token, resets, invites>>

\* The unique index on the address decides between two accepts.
AddressFree == Newcomer \notin accounts

\* users.create and mark_accepted in one commit; the UPDATE finds no row
\* when the invitation is gone.
AcceptCommits(r) ==
    LET i == req[r].obj IN
    /\ At(r, {"accept"}, "create")
    /\ \/ /\ AddressFree
          /\ accounts' = accounts \cup {Newcomer} /\ active' = active \cup {Newcomer}
          /\ invites' = IF invites[i].st = "deleted" THEN invites
                        ELSE [invites EXCEPT ![i].st = "accepted"]
          /\ Goto(r, "issue")
       \/ ~AddressFree /\ Refuse(r) /\ UNCHANGED <<accounts, active, invites>>
    /\ UNCHANGED <<admins, redisVars, token, resets>>

RevokeReads(r, a, i) ==
    /\ IsAdmin(a) /\ invites[i].st \in {"pending", "expired"}
    /\ Begin(r, "revoke", a, i, "delete")
    /\ UNCHANGED <<accountVars, redisVars, token, resets, invites>>

RevokeCommits(r) ==
    /\ At(r, {"revoke"}, "delete")
    /\ invites' = [invites EXCEPT ![req[r].obj].st = "deleted"]
    /\ Goto(r, "done")
    /\ UNCHANGED <<accountVars, redisVars, token, resets>>

InvitationExpires(i) ==
    /\ i \in Pending
    /\ invites' = [invites EXCEPT ![i].st = "expired"]
    /\ UNCHANGED <<accountVars, redisVars, token, resets, req, before>>

-----------------------------------------------------------------------------
\* The API process stops, or an exception: what was not committed is lost.
\* SetLock and the answer of IssueTokens have that outcome of their own.
RequestLost(r) ==
    /\ req[r].pc \notin {"unborn", "lock", "issue", "done"}
    /\ Refuse(r)
    /\ UNCHANGED <<accountVars, redisVars, token, resets, invites>>

RequestStep(r) ==
    \/ \E u \in Users : \/ LoginCheck(r, u) \/ LoginUnchecked(r, u) \/ AskReset(r, u)
                        \/ ChangeReads(r, u) \/ UpdateMe(r, u)
    \/ LoginVerify(r) \/ RecordFailure(r) \/ SetLock(r) \/ LoginReset(r) \/ IssueTokens(r)
    \/ \E t \in Tokens : ReadToken(r, t)
    \/ Rotate(r) \/ Logout(r)
    \/ AskCommits(r) \/ \E x \in Requests : ConfirmReads(r, x)
    \/ \E a, u \in Users : DeactivateUser(r, a, u) \/ ChangeUserRole(r, a, u) \/ PatchUser(r, a, u)
    \/ UpdateUser(r) \/ CommitUser(r)
    \/ \E a \in Users : InviteReads(r, a) \/ \E i \in DOMAIN invites : RevokeReads(r, a, i)
    \/ Supersede(r) \/ InviteCommits(r)
    \/ \E i \in DOMAIN invites : AcceptReads(r, i)
    \/ AcceptCommits(r) \/ RevokeCommits(r)
    \/ RequestLost(r)

TimePasses ==
    \/ \E u \in Users : WindowSlides(u) \/ LockExpires(u)
    \/ \E i \in DOMAIN invites : InvitationExpires(i)

Next == (\E r \in Requests : RequestStep(r)) \/ TimePasses
Spec == Init /\ [][Next]_vars

-----------------------------------------------------------------------------
(* Properties. *)

\* Two requests ran at the same time, so neither could have seen the other.
Overlap(r, s) == r \notin before[s] /\ s \notin before[r]

\* An address with LOCKOUT_MAX_FAILS failures in the window is locked, or
\* the request that counted the last one is about to set the key, or that
\* write was lost (account_lockout.py, record_failure and reset).
LockFollows ==
    \A u \in Users : fails[u] >= MaxFails =>
        \/ u \in locked
        \/ \E r \in Requests : /\ req[r].kind = "login" /\ req[r].user = u
                               /\ req[r].pc = "lock" \/ "lock_lost" \in req[r].seen

\* Once a password was changed or an account deactivated, no refresh token
\* issued before is of use: none is live, and whoever rotated one began
\* before that commit (auth_service.py, revoke_all_for_user).
RevocationReaches ==
    \A c \in Committed(Revoking) : req[c].pc = "done" =>
        /\ \A t \in LiveOf(req[c].user) : t # Session /\ t \notin before[c]
        /\ \A r \in Committed({"refresh"}) :
               req[r].user = req[c].user /\ req[r].obj \in before[c] \cup {Session}
                   => c \notin before[r]

\* A refresh token is rotated or logged out, and a reset token redeemed,
\* by one request, or by requests that all ran at the same time; and
\* whatever invitations cross, the address gets one account, from an
\* invitation that nobody can accept again.
SpentOnce ==
    LET joined == Committed({"accept"}) IN
    /\ \A kinds \in {{"refresh", "logout"}, {"confirm"}} :
           \A r, s \in Committed(kinds) :
               r # s /\ req[r].obj = req[s].obj => Overlap(r, s)
    /\ Cardinality(joined) <= 1
    /\ \A r \in joined : invites[req[r].obj].st \in {"accepted", "deleted"}

\* No admin removes itself, so the last one is only lost to two operations
\* that ran at the same time (user_service.py, deactivate_user, change_role).
AdminRemains ==
    \/ active \cap admins # {}
    \/ \E r, s \in Committed({"deactivate", "demote"}) : r # s /\ Overlap(r, s)

\* users.py, revoke_invitation: "already-accepted invitations are retained
\* for audit".  (The code violates it: the read and the DELETE are two
\* statements, and the DELETE does not ask for accepted_at.)
AcceptedRetained ==
    [][\A i \in DOMAIN invites :
           invites[i].st = "accepted" => invites'[i].st = "accepted"]_vars
=============================================================================
