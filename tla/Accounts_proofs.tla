--------------------------- MODULE Accounts_proofs ---------------------------
(***************************************************************************)
(* Proofs about Accounts.  BaseInv types the requests and says what each   *)
(* stage has in hand.  Given it, every step has one shape (Shape): a       *)
(* request starts, or one that is under way goes on, and tokens, accounts  *)
(* and invitations change as that request has them change.  The invariants *)
(* about spent tokens, revocations, admins and accepts follow from the     *)
(* shape alone.                                                            *)
(***************************************************************************)
EXTENDS Accounts, FiniteSetTheorems, TLAPS

Spending == {"refresh", "logout"}
Removing == {"deactivate", "demote"}
Writing == Revoking \cup Removing \cup {"profile", "reactivate", "promote"}

RequestTypes ==
    [kind : {"none", "login", "ask", "invite", "accept", "revoke"} \cup Spending \cup Writing,
     user : Users \cup {Nobody},
     obj  : Users \cup Tokens \cup Nat \cup {Nobody},
     pc   : {"unborn", "verify", "record", "lock", "reset", "issue", "spend", "asked", "write",
             "written", "supersede", "mail", "create", "delete", "done"},
     seen : SUBSET (Tokens \cup {"refused", "lock_lost"})]

\* The stages each kind of request goes through.
OnPath(q) ==
    /\ q.kind = "none" <=> q.pc = "unborn"
    /\ q.kind = "login" => q.pc \in {"verify", "record", "lock", "reset", "issue", "done"}
    /\ q.kind = "login" /\ q.pc # "done" => q.seen = {}
    /\ q.kind \in Spending => q.pc \in {"spend", "done"}
    /\ q.kind = "ask" => q.pc \in {"asked", "done"}
    /\ q.kind \in Writing => q.pc \in {"write", "written", "done"}
    /\ q.kind = "invite" => q.pc \in {"supersede", "mail", "done"}
    /\ q.kind = "accept" => q.pc \in {"create", "issue", "done"}
    /\ q.kind = "revoke" => q.pc \in {"delete", "done"}

Typed ==
    /\ fails \in [Users -> Nat]
    /\ token \in [Tokens -> {"none", "live", "revoked"}]
    /\ resets \in [Requests -> {"none", "live", "used"}]
    /\ invites \in Seq([st : {"pending", "expired", "accepted", "deleted"},
                        by : Requests \cup {Nobody}])
    /\ req \in [Requests -> RequestTypes]
    /\ before \in [Requests -> SUBSET Requests]

\* What a request holds exists: its token, its invitation, the rows its
\* UPDATE saw.
Holds(q) ==
    /\ q.kind \in Spending => q.obj \in Tokens /\ token[q.obj] # "none"
    /\ q.kind = "confirm" => q.obj \in Requests /\ resets[q.obj] # "none"
    /\ q.kind \in {"accept", "revoke"} => q.obj \in DOMAIN invites
    /\ q.pc = "written" => \A t \in q.seen : t \in Tokens /\ token[t] # "none"
    /\ q.pc = "asked" => \A x \in q.seen : x \in Requests /\ resets[x] # "none"

BaseInv ==
    /\ Typed
    /\ token[Session] # "none"
    /\ \A r \in Requests :
           /\ OnPath(req[r]) /\ Holds(req[r])
           /\ token[r] # "none" \/ resets[r] # "none" => req[r].pc = "done"
           /\ \A s \in before[r] : req[s].pc = "done"

-----------------------------------------------------------------------------
(* The shape of a step. *)

\* What a request has just read.
Fresh(q) ==
    /\ q \in RequestTypes /\ OnPath(q) /\ Holds(q)
    /\ q.pc \notin {"unborn", "issue", "written", "done"}
    /\ q.kind \in Spending => token[q.obj] = "live" /\ Owner(q.obj) = q.user
    /\ q.kind = "confirm" => resets[q.obj] = "live"
    /\ q.kind \in Removing => q.obj # q.user /\ q.obj \in active \cap admins

Stays(x) == req'[x] = req[x] /\ before'[x] = before[x]

Starts(x) ==
    /\ req[x].pc = "unborn" /\ Fresh(req'[x]) /\ before'[x] = Ended
    /\ UNCHANGED <<accountVars, redisVars, token, resets, invites>>

Goes(x) ==
    /\ req[x].pc \notin {"unborn", "done"}
    /\ req[x].pc = "written" => req'[x].pc = "done"
    /\ req[x].pc = "lock" => "lock_lost" \in req'[x].seen \/ req[x].user \in locked'
    /\ req'[x] \in RequestTypes /\ OnPath(req'[x]) /\ Holds(req'[x])
    /\ req'[x].kind = req[x].kind /\ req'[x].user = req[x].user /\ req'[x].obj = req[x].obj
    /\ before'[x] = before[x]

\* The request commits with this step.
Lands(x, kinds) == x \in Committed(kinds)' /\ x \notin Committed(kinds)

RequestsMove ==
    /\ req' \in [Requests -> RequestTypes] /\ before' \in [Requests -> SUBSET Requests]
    /\ \A x \in Requests : Stays(x) \/ Starts(x) \/ Goes(x)
    /\ \A x, y \in Requests : x = y \/ Stays(x) \/ Stays(y)

TokensMove ==
    /\ token' \in [Tokens -> {"none", "live", "revoked"}]
    /\ \A t \in Tokens :
           \/ token'[t] = token[t]
           \/ token[t] # "none" /\ token'[t] = "revoked"
           \/ t \in Requests /\ token'[t] = "live" /\ Goes(t) /\ req'[t].pc = "done"
    /\ \A x \in Requests :
           /\ Lands(x, Spending) => token'[req[x].obj] = "revoked"
           /\ Lands(x, Revoking) =>
                  req[x].pc = "written" /\ \A t \in req[x].seen : token'[t] = "revoked"
           /\ req[x].pc # "written" /\ req'[x].pc = "written" =>
                  req'[x].seen = Revokes(x) /\ UNCHANGED token

ResetsMove ==
    /\ resets' \in [Requests -> {"none", "live", "used"}]
    /\ \A x \in Requests :
           /\ \/ resets'[x] = resets[x]
              \/ resets[x] # "none" /\ resets'[x] = "used"
              \/ resets'[x] = "live" /\ Goes(x) /\ req'[x].pc = "done"
           /\ Lands(x, {"confirm"}) => resets'[req[x].obj] = "used"

AdminsMove ==
    \A a \in active \cap admins :
        \/ a \in active' \cap admins'
        \/ \E x \in Requests : Goes(x) /\ Lands(x, Removing) /\ req[x].user = a

InvitesMove ==
    /\ invites' \in Seq([st : {"pending", "expired", "accepted", "deleted"},
                         by : Requests \cup {Nobody}])
    /\ DOMAIN invites \subseteq DOMAIN invites' /\ accounts \subseteq accounts'
    /\ \A i \in DOMAIN invites :
           invites[i].st \in {"accepted", "deleted"} => invites'[i].st \in {"accepted", "deleted"}
    /\ \A x \in Requests : Lands(x, {"accept"}) =>
           /\ Newcomer \notin accounts /\ Newcomer \in accounts'
           /\ invites'[req[x].obj].st \in {"accepted", "deleted"}

Shape ==
    /\ fails' \in [Users -> Nat]
    /\ RequestsMove /\ TokensMove /\ ResetsMove /\ AdminsMove /\ InvitesMove

-----------------------------------------------------------------------------
(* The invariants that follow from the shape. *)

\* Nothing spent is in use, and who began after it was spent spends another.
Apart(kinds) ==
    \A s \in Requests : \A r \in before[s] :
        r \in Committed(kinds) /\ req[s].kind \in kinds => req[r].obj # req[s].obj

SpentInv ==
    /\ \A r \in Committed(Spending) : token[req[r].obj] = "revoked"
    /\ \A r \in Committed({"confirm"}) : resets[req[r].obj] = "used"
    /\ Apart(Spending) /\ Apart({"confirm"})

\* What a change of password cuts off: what was live before it began.
Cut(c) == before[c] \cup {Session}

CutInv ==
    \A c \in Requests : req[c].kind \in Revoking =>
        /\ req[c].pc = "written" => \A t \in Cut(c) : t \in LiveOf(req[c].user) => t \in req[c].seen
        /\ c \in Committed(Revoking) => \A t \in Cut(c) : t \notin LiveOf(req[c].user)

RefreshInv ==
    \A r \in Requests : \A c \in before[r] :
        /\ c \in Committed(Revoking) /\ req[r].kind = "refresh"
        /\ req[r].user = req[c].user
        => req[r].obj \notin Cut(c)

\* The admin who removes another one is an admin still, or was removed by a
\* request that overlaps.
RemoverInv ==
    \A r \in Requests : req[r].kind \in Removing /\ req[r].pc \in {"write", "written"} =>
        /\ req[r].obj # req[r].user
        /\ \/ req[r].obj \in active \cap admins
           \/ \E s \in Committed(Removing) : s \notin before[r]

JoinInv ==
    /\ \A r \in Committed({"accept"}) :
           /\ Newcomer \in accounts
           /\ invites[req[r].obj].st \in {"accepted", "deleted"}
    /\ \A r, s \in Committed({"accept"}) : r = s

-----------------------------------------------------------------------------
(* Every step has the shape. *)

\* The strings that mark an outcome are no tokens, and no account is the
\* newcomer's at the start.
LEMMA Names == "refused" \notin Tokens /\ Requests \subseteq Tokens /\ Session \in Tokens
  BY AccountsAssumption DEF AccountsAssumption, Tokens

LEMMA OwnerType ==
    ASSUME Typed, NEW t \in Tokens
    PROVE  Owner(t) \in Users \cup {Nobody}
  <1>1. CASE t = Session
    <2>1. \E u \in Founders : TRUE
      BY AccountsAssumption DEF AccountsAssumption
    <2> QED
      BY <1>1, <2>1 DEF Owner, Users
  <1>2. CASE t # Session
    BY <1>2 DEF Tokens, Owner, Typed, RequestTypes
  <1> QED
    BY <1>1, <1>2

\* A request starts.
LEMMA StartShape ==
    ASSUME BaseInv, NEW r \in Requests, NEW q,
           req[r].pc = "unborn", Fresh(q),
           req' = [req EXCEPT ![r] = q], before' = [before EXCEPT ![r] = Ended],
           UNCHANGED <<accountVars, redisVars, token, resets, invites>>
    PROVE  Shape
  <1>a. Typed /\ q \in RequestTypes /\ Ended \subseteq Requests
    BY DEF BaseInv, Fresh, Ended
  <1>1. /\ req' \in [Requests -> RequestTypes] /\ before' \in [Requests -> SUBSET Requests]
        /\ \A x \in Requests : x # r => Stays(x)
        /\ req'[r] = q /\ before'[r] = Ended
    BY <1>a DEF Typed, Stays
  <1>2. Starts(r)
    BY <1>1 DEF Starts
  <1>3. \A kinds : \A x \in Requests : ~Lands(x, kinds)
    <2> SUFFICES ASSUME NEW kinds, NEW x \in Requests, Lands(x, kinds) PROVE FALSE
      OBVIOUS
    <2>1. CASE x = r
      BY <1>1, <2>1 DEF Lands, Committed, Fresh
    <2>2. CASE x # r
      BY <1>1, <2>2 DEF Lands, Committed, Stays
    <2> QED
      BY <2>1, <2>2
  <1>4. \A x \in Requests : req[x].pc # "written" => req'[x].pc # "written"
    BY <1>1 DEF Stays, Fresh
  <1>5. RequestsMove
    BY <1>1, <1>2 DEF RequestsMove
  <1>6. TokensMove
    BY <1>3, <1>4, <1>a DEF TokensMove, Typed
  <1>7. ResetsMove
    BY <1>3, <1>a DEF ResetsMove, Typed
  <1>8. AdminsMove
    BY DEF AdminsMove, accountVars
  <1>9. InvitesMove
    BY <1>3, <1>a DEF InvitesMove, Typed, accountVars
  <1>10. fails' \in [Users -> Nat]
    BY <1>a DEF Typed, redisVars
  <1> QED
    BY <1>5, <1>6, <1>7, <1>8, <1>9, <1>10 DEF Shape

\* A request goes on: what is the same whatever it does.
LEMMA GoShape ==
    ASSUME BaseInv, NEW r \in Requests, NEW q \in RequestTypes,
           req[r].pc \notin {"unborn", "done"}, req[r].pc = "written" => q.pc = "done",
           req[r].pc = "lock" => "lock_lost" \in q.seen \/ req[r].user \in locked',
           OnPath(q), Holds(q),
           q.kind = req[r].kind, q.user = req[r].user, q.obj = req[r].obj,
           req' = [req EXCEPT ![r] = q], UNCHANGED before
    PROVE  /\ RequestsMove /\ Goes(r) /\ req'[r] = q
           /\ \A x \in Requests : x # r => Stays(x)
           /\ \A kinds : \A x \in Requests : Lands(x, kinds) =>
                  /\ x = r /\ q.kind \in kinds /\ q.pc \in {"issue", "done"}
                  /\ q.seen # {"refused"}
           /\ \A x \in Requests : req[x].pc # "written" /\ req'[x].pc = "written" => x = r
  <1>a. Typed
    BY DEF BaseInv
  <1>1. /\ req' \in [Requests -> RequestTypes] /\ before' \in [Requests -> SUBSET Requests]
        /\ \A x \in Requests : x # r => Stays(x)
        /\ req'[r] = q
    BY <1>a DEF Typed, Stays
  <1>2. Goes(r)
    BY <1>1 DEF Goes
  <1>3. RequestsMove
    BY <1>1, <1>2 DEF RequestsMove
  <1>4. ASSUME NEW kinds, NEW x \in Requests, Lands(x, kinds)
        PROVE  /\ x = r /\ q.kind \in kinds /\ q.pc \in {"issue", "done"}
               /\ q.seen # {"refused"}
    BY <1>1, <1>4 DEF Lands, Committed, Stays
  <1>5. \A x \in Requests : req[x].pc # "written" /\ req'[x].pc = "written" => x = r
    BY <1>1 DEF Stays
  <1> QED
    BY <1>1, <1>2, <1>3, <1>4, <1>5

\* A request goes on and commits nothing that others can see but in Redis and
\* among the invitations.
LEMMA QuietShape ==
    ASSUME BaseInv, NEW r \in Requests, NEW q \in RequestTypes,
           req[r].pc \notin {"unborn", "done"}, req[r].pc = "written" => q.pc = "done",
           req[r].pc = "lock" => "lock_lost" \in q.seen \/ req[r].user \in locked',
           OnPath(q), Holds(q),
           q.kind = req[r].kind, q.user = req[r].user, q.obj = req[r].obj,
           req' = [req EXCEPT ![r] = q], UNCHANGED before,
           \/ q.pc \notin {"issue", "done"}
           \/ q.seen = {"refused"}
           \/ q.kind \in {"login", "invite", "revoke"},
           q.pc = "written" => q.seen = Revokes(r),
           UNCHANGED <<accountVars, token, resets>>, fails' \in [Users -> Nat],
           InvitesMove \/ UNCHANGED invites
    PROVE  Shape
  <1>a. Typed
    BY DEF BaseInv
  <1>1. RequestsMove /\ req'[r] = q
    BY GoShape
  <1>2. ASSUME NEW kinds \in {Spending, Revoking, Removing, {"confirm"}, {"accept"}},
               NEW x \in Requests
        PROVE  ~Lands(x, kinds)
    <2>1. Lands(x, kinds) => q.kind \in kinds /\ q.pc \in {"issue", "done"} /\ q.seen # {"refused"}
      BY GoShape
    <2> QED
      BY <2>1 DEF Spending, Revoking, Removing
  <1>3. \A x \in Requests : req[x].pc # "written" /\ req'[x].pc = "written" => x = r
    BY GoShape
  <1>4. TokensMove
    BY <1>1, <1>2, <1>3, <1>a DEF TokensMove, Typed
  <1>5. ResetsMove
    BY <1>2, <1>a DEF ResetsMove, Typed
  <1>6. AdminsMove
    BY DEF AdminsMove, accountVars
  <1>7. InvitesMove
    <2>1. CASE UNCHANGED invites
      BY <1>2, <2>1, <1>a DEF InvitesMove, Typed, accountVars
    <2> QED
      BY <2>1
  <1> QED
    BY <1>1, <1>4, <1>5, <1>6, <1>7 DEF Shape

\* A request that only reads when it starts.
Opening(kind, user, obj, pc) ==
    [kind |-> kind, user |-> user, obj |-> obj, pc |-> pc, seen |-> {}]

LEMMA BeginShape ==
    ASSUME BaseInv, NEW r \in Requests, NEW kind, NEW user, NEW obj, NEW pc,
           Begin(r, kind, user, obj, pc), Fresh(Opening(kind, user, obj, pc)),
           UNCHANGED <<accountVars, redisVars, token, resets, invites>>
    PROVE  Shape
  BY StartShape DEF Begin, Opening

LEMMA LoginStarts ==
    ASSUME BaseInv, NEW r \in Requests, NEW u \in Users,
           LoginCheck(r, u) \/ LoginUnchecked(r, u)
    PROVE  Shape
  <1>1. Fresh(Opening("login", u, Nobody, "verify"))
    BY DEF Fresh, Opening, RequestTypes, OnPath, Holds, Spending, Writing, Revoking, Removing
  <1> QED
    BY <1>1, BeginShape DEF LoginCheck, LoginUnchecked

LEMMA AskStarts ==
    ASSUME BaseInv, NEW r \in Requests, NEW u \in Users, AskReset(r, u)
    PROVE  Shape
  <1> DEFINE S == {x \in Requests : resets[x] = "live" /\ req[x].user = u}
             q == [kind |-> "ask", user |-> u, obj |-> Nobody, pc |-> "asked", seen |-> S]
  <1>1. S \subseteq Tokens
    BY Names
  <1>2. q \in RequestTypes
    BY <1>1 DEF RequestTypes
  <1>3. Fresh(q)
    BY <1>2 DEF Fresh, OnPath, Holds, Spending, Writing, Revoking, Removing
  <1> QED
    BY <1>3, StartShape DEF AskReset

LEMMA ReadStarts ==
    ASSUME BaseInv, NEW r \in Requests, NEW t \in Tokens, ReadToken(r, t)
    PROVE  Shape
  <1>1. PICK kind \in Spending : Begin(r, kind, Owner(t), t, "spend")
    BY DEF ReadToken, Spending
  <1>2. Owner(t) \in Users \cup {Nobody}
    BY OwnerType DEF BaseInv
  <1>3. Fresh(Opening(kind, Owner(t), t, "spend"))
    BY <1>1, <1>2 DEF Fresh, Opening, RequestTypes, OnPath, Holds, Spending, Writing, Revoking,
                     Removing, ReadToken
  <1> QED
    BY <1>1, <1>3, BeginShape DEF ReadToken

\* The requests that end in an UPDATE of the user's row.
LEMMA WriteStarts ==
    ASSUME BaseInv, NEW r \in Requests, NEW kind \in Writing, NEW u \in Users \cup {Nobody}, NEW o,
           o \in Users \cup Requests \cup {Nobody}, Begin(r, kind, u, o, "write"),
           kind = "confirm" => o \in Requests /\ resets[o] = "live",
           kind \in Removing => o # u /\ o \in active \cap admins,
           UNCHANGED <<accountVars, redisVars, token, resets, invites>>
    PROVE  Shape
  <1>1. o \in Users \cup Tokens \cup Nat \cup {Nobody}
    BY Names
  <1>2. Opening(kind, u, o, "write") \in RequestTypes
    BY <1>1 DEF Opening, RequestTypes
  <1>3. Fresh(Opening(kind, u, o, "write"))
    BY <1>2 DEF Fresh, Opening, OnPath, Holds, Spending, Writing, Revoking, Removing
  <1> QED
    BY <1>3, BeginShape

LEMMA ChangeStarts ==
    ASSUME BaseInv, NEW r \in Requests, NEW u \in Users,
           ChangeReads(r, u) \/ UpdateMe(r, u) \/ \E x \in Requests : ConfirmReads(r, x)
    PROVE  Shape
  <1>1. CASE ChangeReads(r, u) \/ UpdateMe(r, u)
    BY <1>1, WriteStarts DEF ChangeReads, UpdateMe, Writing, Revoking, Removing
  <1>2. CASE \E x \in Requests : ConfirmReads(r, x)
    <2>1. PICK x \in Requests : ConfirmReads(r, x)
      BY <1>2
    <2>2. req[x].user \in Users \cup {Nobody}
      BY DEF BaseInv, Typed, RequestTypes
    <2> QED
      BY <2>1, <2>2, WriteStarts DEF ConfirmReads, Writing, Revoking, Removing
  <1> QED
    BY <1>1, <1>2

LEMMA ManageStarts ==
    ASSUME BaseInv, NEW r \in Requests, NEW a \in Users, NEW u \in Users,
           DeactivateUser(r, a, u) \/ ChangeUserRole(r, a, u) \/ PatchUser(r, a, u)
    PROVE  Shape
  <1> USE DEF IsAdmin, Writing, Revoking, Removing
  <1>1. CASE DeactivateUser(r, a, u)
    BY <1>1, WriteStarts DEF DeactivateUser
  <1>2. CASE ChangeUserRole(r, a, u)
    <2>1. PICK kind \in {"promote", "demote"} : Begin(r, kind, u, a, "write")
      BY <1>2 DEF ChangeUserRole
    <2> QED
      BY <1>2, <2>1, WriteStarts DEF ChangeUserRole
  <1>3. CASE PatchUser(r, a, u)
    BY <1>3, WriteStarts DEF PatchUser
  <1> QED
    BY <1>1, <1>2, <1>3

LEMMA InviteStarts ==
    ASSUME BaseInv, NEW r \in Requests, NEW a \in Users,
           InviteReads(r, a) \/ \E i \in DOMAIN invites : RevokeReads(r, a, i) \/ AcceptReads(r, i)
    PROVE  Shape
  <1>a. DOMAIN invites \subseteq Nat /\ Newcomer \in Users
    BY DEF BaseInv, Typed, Users
  <1> USE DEF Fresh, Opening, RequestTypes, OnPath, Holds, Spending, Writing, Revoking, Removing
  <1>1. CASE InviteReads(r, a)
    <2>1. Fresh(Opening("invite", a, Nobody, "supersede"))
      OBVIOUS
    <2> QED
      BY <1>1, <2>1, BeginShape DEF InviteReads
  <1>2. ASSUME NEW i \in DOMAIN invites, RevokeReads(r, a, i) PROVE Shape
    <2>1. Fresh(Opening("revoke", a, i, "delete"))
      BY <1>a
    <2> QED
      BY <1>2, <2>1, BeginShape DEF RevokeReads
  <1>3. ASSUME NEW i \in DOMAIN invites, AcceptReads(r, i) PROVE Shape
    <2>1. Fresh(Opening("accept", Newcomer, i, "create"))
      BY <1>a
    <2> QED
      BY <1>3, <2>1, BeginShape DEF AcceptReads
  <1> QED
    BY <1>1, <1>2, <1>3

\* The stage changes and nothing another request could see of it.
LEMMA GotoShape ==
    ASSUME BaseInv, NEW r \in Requests,
           NEW p \in {"record", "lock", "reset", "issue", "mail", "done"},
           Goto(r, p), req[r].pc \notin {"unborn", "lock", "written", "done"}, OnPath([req[r] EXCEPT !.pc = p]),
           p \in {"issue", "done"} => req[r].kind \in {"login", "invite", "revoke"},
           UNCHANGED <<accountVars, token, resets>>, fails' \in [Users -> Nat],
           InvitesMove \/ UNCHANGED invites
    PROVE  Shape
  <1> DEFINE q == [req[r] EXCEPT !.pc = p]
  <1>1. req[r] \in RequestTypes
    BY DEF BaseInv, Typed
  <1>2. /\ q \in RequestTypes /\ q.kind = req[r].kind /\ q.user = req[r].user
        /\ q.obj = req[r].obj /\ q.pc = p
    BY <1>1 DEF RequestTypes
  <1>3. Holds(q)
    BY <1>2 DEF Holds, BaseInv
  <1>4. req' = [req EXCEPT ![r] = q] /\ UNCHANGED before
    BY DEF Goto
  <1> HIDE DEF q
  <1>5. OnPath(q)
    BY DEF q
  <1> QED
    BY <1>2, <1>3, <1>4, <1>5, QuietShape

LEMMA RefuseShape ==
    ASSUME BaseInv, NEW r \in Requests, Refuse(r), req[r].pc \notin {"unborn", "done"},
           req[r].pc = "lock" => req[r].user \in locked',
           UNCHANGED <<accountVars, token, resets, invites>>, fails' \in [Users -> Nat]
    PROVE  Shape
  <1> DEFINE q == [req[r] EXCEPT !.pc = "done", !.seen = {"refused"}]
  <1>1. req[r] \in RequestTypes
    BY DEF BaseInv, Typed
  <1>2. /\ q \in RequestTypes /\ q.kind = req[r].kind /\ q.user = req[r].user
        /\ q.obj = req[r].obj /\ q.pc = "done" /\ q.seen = {"refused"}
    BY <1>1 DEF RequestTypes
  <1>3. Holds(q) /\ OnPath(q)
    BY <1>2 DEF Holds, OnPath, BaseInv
  <1>4. req' = [req EXCEPT ![r] = q] /\ UNCHANGED before
    BY DEF Refuse
  <1> HIDE DEF q
  <1> QED
    BY <1>2, <1>3, <1>4, QuietShape

\* Redis is all a login touches before it issues its token.
LEMMA LoginGoes ==
    ASSUME BaseInv, NEW r \in Requests,
           LoginVerify(r) \/ RecordFailure(r) \/ SetLock(r) \/ LoginReset(r)
    PROVE  Shape
  <1>a. /\ req[r] \in RequestTypes /\ req[r].user \in Users \cup {Nobody}
        /\ fails \in [Users -> Nat]
    BY DEF BaseInv, Typed, RequestTypes
  <1>b. \A p \in {"verify", "record", "lock", "reset", "issue", "done"} :
            req[r].kind = "login" /\ req[r].pc # "done" => OnPath([req[r] EXCEPT !.pc = p])
    BY <1>a DEF BaseInv, OnPath, RequestTypes, Spending, Writing, Revoking, Removing
  <1>1. CASE LoginVerify(r)
    BY <1>1, <1>a, <1>b, GotoShape, RefuseShape DEF LoginVerify, At, redisVars
  <1>2. CASE RecordFailure(r)
    <2>1. fails' \in [Users -> Nat]
      BY <1>2, <1>a DEF RecordFailure
    <2>2. Goto(r, "lock") \/ Refuse(r)
      BY <1>2 DEF RecordFailure
    <2> QED
      BY <1>2, <2>1, <2>2, <1>b, GotoShape, RefuseShape DEF RecordFailure, At
  <1>3. CASE SetLock(r)
    <2>1. CASE locked' = locked \cup {req[r].user} /\ Refuse(r)
      BY <1>3, <2>1, <1>a, RefuseShape DEF SetLock, At
    <2>2. CASE req' = [req EXCEPT ![r].pc = "done", ![r].seen = {"lock_lost"}] /\ UNCHANGED before
      <3> DEFINE q == [req[r] EXCEPT !.pc = "done", !.seen = {"lock_lost"}]
      <3>1. /\ q \in RequestTypes /\ q.kind = "login" /\ req[r].kind = "login"
            /\ q.user = req[r].user /\ q.obj = req[r].obj /\ q.pc = "done"
            /\ "lock_lost" \in q.seen
        BY <1>3, <1>a DEF RequestTypes, SetLock, At
      <3>2. Holds(q) /\ OnPath(q)
        BY <3>1 DEF Holds, OnPath, Spending, Writing, Revoking, Removing
      <3>3. req' = [req EXCEPT ![r] = q]
        BY <2>2
      <3> HIDE DEF q
      <3> QED
        BY <1>3, <2>2, <3>1, <3>2, <3>3, <1>a, QuietShape DEF SetLock, At
    <2> QED
      BY <1>3, <2>1, <2>2 DEF SetLock
  <1>4. CASE LoginReset(r)
    <2>1. fails' \in [Users -> Nat]
      BY <1>4, <1>a DEF LoginReset, redisVars
    <2> QED
      BY <1>4, <2>1, <1>b, GotoShape DEF LoginReset, At
  <1> QED
    BY <1>1, <1>2, <1>3, <1>4

LEMMA Element ==
    ASSUME NEW S, NEW s \in Seq(S), NEW i \in DOMAIN s
    PROVE  s[i] \in S
  OBVIOUS

LEMMA SameLength ==
    ASSUME NEW S, NEW s \in Seq(S), NEW f \in [DOMAIN s -> S]
    PROVE  f \in Seq(S) /\ DOMAIN f = DOMAIN s
  <1>1. Len(s) \in Nat /\ DOMAIN s = 1 .. Len(s)
    OBVIOUS
  <1> QED
    BY <1>1

Invitations == [st : {"pending", "expired", "accepted", "deleted"}, by : Requests \cup {Nobody}]

\* One invitation gets another state.
LEMMA InviteSet ==
    ASSUME Typed, NEW i, NEW st \in {"pending", "expired", "accepted", "deleted"},
           invites' = [invites EXCEPT ![i].st = st]
    PROVE  /\ invites' \in Seq(Invitations) /\ DOMAIN invites' = DOMAIN invites
           /\ \A j \in DOMAIN invites : j # i => invites'[j] = invites[j]
           /\ i \in DOMAIN invites => invites'[i].st = st
  <1>1. \A j \in DOMAIN invites : invites[j] \in Invitations
    BY Element DEF Typed, Invitations
  <1>2. \A v \in Invitations : [v EXCEPT !.st = st] \in Invitations /\ [v EXCEPT !.st = st].st = st
    BY DEF Invitations
  <1>3. invites' = [j \in DOMAIN invites |->
            IF j = i THEN [invites[j] EXCEPT !.st = st] ELSE invites[j]]
    OBVIOUS
  <1>4. invites' \in [DOMAIN invites -> Invitations]
    BY <1>1, <1>2, <1>3
  <1>5. invites \in Seq(Invitations)
    BY DEF Typed, Invitations
  <1>6. invites' \in Seq(Invitations) /\ DOMAIN invites' = DOMAIN invites
    BY <1>4, <1>5, SameLength
  <1>7. i \in DOMAIN invites => invites'[i].st = st
    <2> SUFFICES ASSUME i \in DOMAIN invites PROVE invites'[i].st = st
      OBVIOUS
    <2>1. invites'[i] = [invites[i] EXCEPT !.st = st]
      BY <1>3
    <2>2. invites[i] \in Invitations
      BY <1>1
    <2> QED
      BY <1>2, <2>1, <2>2
  <1>8. \A j \in DOMAIN invites : j # i => invites'[j] = invites[j]
    BY <1>3
  <1> QED
    BY <1>6, <1>7, <1>8

LEMMA InviteGoes ==
    ASSUME BaseInv, NEW r \in Requests, Supersede(r) \/ InviteCommits(r) \/ RevokeCommits(r)
    PROVE  Shape
  <1> DEFINE Invitation == [st : {"pending", "expired", "accepted", "deleted"},
                            by : Requests \cup {Nobody}]
  <1>a. /\ req[r] \in RequestTypes /\ fails' \in [Users -> Nat] /\ invites \in Seq(Invitation)
        /\ UNCHANGED <<accountVars, token, resets>>
    BY DEF BaseInv, Typed, Supersede, InviteCommits, RevokeCommits, redisVars
  <1>b. /\ \A p \in {"mail", "done"} : req[r].kind = "invite" => OnPath([req[r] EXCEPT !.pc = p])
        /\ req[r].kind = "revoke" => OnPath([req[r] EXCEPT !.pc = "done"])
    BY <1>a DEF OnPath, RequestTypes, Spending, Writing, Revoking, Removing
  <1>c. \A x \in Requests : ~Lands(x, {"accept"})
    <2>1. PICK p : Goto(r, p) /\ req[r].kind # "accept"
      BY DEF Supersede, InviteCommits, RevokeCommits, At
    <2>2. req \in [Requests -> RequestTypes]
      BY DEF BaseInv, Typed
    <2>3. req'[r].kind # "accept" /\ \A x \in Requests : x # r => req'[x] = req[x]
      BY <1>a, <2>1, <2>2 DEF Goto, RequestTypes
    <2> QED
      BY <2>3 DEF Lands, Committed
  <1>1. CASE Supersede(r)
    <2>1. invites' \in Seq(Invitation) /\ DOMAIN invites' = DOMAIN invites
      <3>1. \A i \in DOMAIN invites : invites[i] \in Invitation
        <4> HIDE DEF Invitation
        <4> QED
          BY <1>a, Element
      <3>2. \A v \in Invitation : [v EXCEPT !.st = "expired"] \in Invitation
        OBVIOUS
      <3> HIDE DEF Invitation
      <3>3. invites' \in [DOMAIN invites -> Invitation]
        BY <1>1, <3>1, <3>2 DEF Supersede
      <3> QED
        BY <3>3, <1>a, SameLength
    <2>2. \A i \in DOMAIN invites : invites[i].st \in {"accepted", "deleted"}
              => invites'[i].st \in {"accepted", "deleted"}
      BY <1>1, <1>a DEF Supersede, Newest, Pending
    <2>3. InvitesMove
      BY <2>1, <2>2, <1>a, <1>c DEF InvitesMove, accountVars
    <2> QED
      BY <1>1, <2>3, <1>a, <1>b, GotoShape DEF Supersede, At
  <1>2. CASE InviteCommits(r)
    <2>1. [st |-> "pending", by |-> r] \in Invitation
      OBVIOUS
    <2>2. InvitesMove
      BY <1>2, <2>1, <1>a, <1>c DEF InviteCommits, InvitesMove, accountVars
    <2> QED
      BY <1>2, <2>2, <1>a, <1>b, GotoShape DEF InviteCommits, At
  <1>3. CASE RevokeCommits(r)
    <2>1. invites' \in Seq(Invitation) /\ DOMAIN invites' = DOMAIN invites
      BY <1>3, <1>a, InviteSet DEF RevokeCommits, Invitations, BaseInv
    <2>2. \A i \in DOMAIN invites : invites[i].st \in {"accepted", "deleted"}
              => invites'[i].st \in {"accepted", "deleted"}
      BY <1>3, <1>a DEF RevokeCommits
    <2>3. InvitesMove
      BY <2>1, <2>2, <1>a, <1>c DEF InvitesMove, accountVars
    <2> QED
      BY <1>3, <2>3, <1>a, <1>b, GotoShape DEF RevokeCommits, At
  <1> QED
    BY <1>1, <1>2, <1>3

LEMMA UpdateGoes ==
    ASSUME BaseInv, NEW r \in Requests, UpdateUser(r)
    PROVE  Shape
  <1> DEFINE q == [req[r] EXCEPT !.pc = "written", !.seen = Revokes(r)]
  <1>a. Typed /\ req[r] \in RequestTypes /\ req[r].kind \in Writing /\ req[r].pc = "write"
    BY DEF BaseInv, Typed, RequestTypes, OnPath, UpdateUser, Spending
  <1>1. Revokes(r) \subseteq {t \in Tokens : token[t] = "live"}
    BY DEF Revokes, LiveOf
  <1>2. /\ q \in RequestTypes /\ q.kind = req[r].kind /\ q.user = req[r].user
        /\ q.obj = req[r].obj /\ q.pc = "written" /\ q.seen = Revokes(r)
    BY <1>1, <1>a DEF RequestTypes
  <1>3. Holds(q)
    BY <1>1, <1>2 DEF Holds, BaseInv
  <1>4. OnPath(q)
    BY <1>2, <1>a DEF OnPath, Spending, Writing, Revoking, Removing
  <1>5. req' = [req EXCEPT ![r] = q] /\ fails' \in [Users -> Nat]
    BY <1>a DEF UpdateUser, Typed, redisVars
  <1> HIDE DEF q
  <1> QED
    BY <1>a, <1>2, <1>3, <1>4, <1>5, QuietShape DEF UpdateUser

\* The last step of a request that is done with it.
LEMMA DoneShape ==
    ASSUME BaseInv, NEW r \in Requests, Goto(r, "done"), req[r].pc \notin {"unborn", "lock", "done"}
    PROVE  /\ RequestsMove /\ Goes(r) /\ req'[r].pc = "done"
           /\ req'[r].seen = req[r].seen /\ req'[r].kind = req[r].kind
           /\ \A kinds : \A x \in Requests : Lands(x, kinds) =>
                  x = r /\ req[r].kind \in kinds /\ req[r].seen # {"refused"}
           /\ \A x \in Requests : ~(req[x].pc # "written" /\ req'[x].pc = "written")
  <1> DEFINE q == [req[r] EXCEPT !.pc = "done"]
  <1>1. req[r] \in RequestTypes
    BY DEF BaseInv, Typed
  <1>2. /\ q \in RequestTypes /\ q.kind = req[r].kind /\ q.user = req[r].user
        /\ q.obj = req[r].obj /\ q.pc = "done" /\ q.seen = req[r].seen
    BY <1>1 DEF RequestTypes
  <1>3. Holds(q) /\ OnPath(q)
    BY <1>2 DEF Holds, OnPath, BaseInv
  <1>4. req' = [req EXCEPT ![r] = q] /\ UNCHANGED before
    BY DEF Goto
  <1> HIDE DEF q
  <1>5. /\ RequestsMove /\ Goes(r) /\ req'[r] = q
        /\ \A x \in Requests : req[x].pc # "written" /\ req'[x].pc = "written" => x = r
    BY <1>2, <1>3, <1>4, GoShape
  <1>6. ASSUME NEW kinds, NEW x \in Requests, Lands(x, kinds)
        PROVE  x = r /\ q.kind \in kinds /\ q.seen # {"refused"}
    <2>1. req'[r] = q /\ \A y \in Requests : y # r => req'[y] = req[y]
      BY <1>4 DEF BaseInv, Typed
    <2> QED
      BY <1>6, <2>1 DEF Lands, Committed
  <1> QED
    BY <1>2, <1>5, <1>6

LEMMA IssueGoes ==
    ASSUME BaseInv, NEW r \in Requests, IssueTokens(r)
    PROVE  Shape
  <1>a. /\ Typed /\ req[r].pc = "issue" /\ Goto(r, "done") /\ token[r] = "none"
        /\ req[r].kind \in {"login", "accept"} /\ r \in Tokens
    BY Names DEF BaseInv, Typed, RequestTypes, OnPath, IssueTokens, Spending, Writing, Revoking, Removing
  <1>1. /\ RequestsMove /\ Goes(r) /\ req'[r].pc = "done"
        /\ \A x \in Requests : ~(req[x].pc # "written" /\ req'[x].pc = "written")
    BY <1>a, DoneShape
  <1>2. ASSUME NEW kinds \in {Spending, Revoking, Removing, {"confirm"}, {"accept"}},
               NEW x \in Requests
        PROVE  ~Lands(x, kinds)
    <2>1. Lands(x, kinds) => x = r /\ req[r].kind \in kinds /\ req[r].seen # {"refused"}
      BY <1>a, DoneShape
    <2>2. Lands(r, kinds) /\ req[r].kind \in kinds => req[r].seen = {"refused"}
      BY <1>a DEF Lands, Committed
    <2> QED
      BY <2>1, <2>2
  <1>3. token' = [token EXCEPT ![r] = "live"] /\ UNCHANGED <<accountVars, redisVars, resets, invites>>
    BY DEF IssueTokens
  <1>4. TokensMove
    BY <1>1, <1>2, <1>3, <1>a DEF TokensMove, Typed
  <1>5. ResetsMove
    BY <1>2, <1>3, <1>a DEF ResetsMove, Typed
  <1>6. AdminsMove /\ fails' \in [Users -> Nat]
    BY <1>3, <1>a DEF AdminsMove, accountVars, redisVars, Typed
  <1>7. InvitesMove
    BY <1>2, <1>3, <1>a DEF InvitesMove, Typed, accountVars
  <1> QED
    BY <1>1, <1>4, <1>5, <1>6, <1>7 DEF Shape

LEMMA SpendGoes ==
    ASSUME BaseInv, NEW r \in Requests, Rotate(r) \/ Logout(r)
    PROVE  Shape
  <1> DEFINE t == req[r].obj
  <1>a. /\ Typed /\ req[r].pc = "spend" /\ req[r].kind \in Spending /\ Goto(r, "done")
        /\ token[r] = "none" /\ r \in Tokens /\ t \in Tokens /\ token[t] # "none" /\ t # r
        /\ UNCHANGED <<accountVars, redisVars, resets, invites>>
    BY Names DEF BaseInv, Typed, Holds, Rotate, Logout, At, Spending
  <1>1. /\ RequestsMove /\ Goes(r) /\ req'[r].pc = "done"
        /\ \A x \in Requests : ~(req[x].pc # "written" /\ req'[x].pc = "written")
    BY <1>a, DoneShape
  <1>2. ASSUME NEW kinds \in {Revoking, Removing, {"confirm"}, {"accept"}}, NEW x \in Requests
        PROVE  ~Lands(x, kinds)
    BY <1>a, DoneShape DEF Spending, Revoking, Removing
  <1>3. \A x \in Requests : Lands(x, Spending) => x = r
    BY <1>a, DoneShape
  <1>4. /\ token' \in [Tokens -> {"none", "live", "revoked"}] /\ token'[t] = "revoked"
        /\ \A y \in Tokens : y \notin {r, t} => token'[y] = token[y]
        /\ token'[r] \in {"none", "live"}
    BY <1>a DEF Rotate, Logout, Typed
  <1>5. TokensMove
    BY <1>1, <1>2, <1>3, <1>4, <1>a DEF TokensMove
  <1>6. ResetsMove
    BY <1>2, <1>a DEF ResetsMove, Typed
  <1>7. AdminsMove /\ fails' \in [Users -> Nat]
    BY <1>a DEF AdminsMove, accountVars, redisVars, Typed
  <1>8. InvitesMove
    BY <1>2, <1>a DEF InvitesMove, Typed, accountVars
  <1> QED
    BY <1>1, <1>5, <1>6, <1>7, <1>8 DEF Shape

LEMMA AskGoes ==
    ASSUME BaseInv, NEW r \in Requests, AskCommits(r)
    PROVE  Shape
  <1>a. /\ Typed /\ req[r].pc = "asked" /\ req[r].kind = "ask" /\ Goto(r, "done")
        /\ resets[r] = "none" /\ \A x \in req[r].seen : x \in Requests /\ resets[x] # "none"
        /\ UNCHANGED <<accountVars, redisVars, token, invites>>
    BY DEF BaseInv, Typed, Holds, AskCommits, At
  <1>1. /\ RequestsMove /\ Goes(r) /\ req'[r].pc = "done"
        /\ \A x \in Requests : ~(req[x].pc # "written" /\ req'[x].pc = "written")
    BY <1>a, DoneShape
  <1>2. ASSUME NEW kinds \in {Spending, Revoking, Removing, {"confirm"}, {"accept"}},
               NEW x \in Requests
        PROVE  ~Lands(x, kinds)
    BY <1>a, DoneShape DEF Spending, Revoking, Removing
  <1>3. /\ resets' \in [Requests -> {"none", "live", "used"}] /\ resets'[r] = "live"
        /\ \A x \in Requests : x # r =>
               resets'[x] = resets[x] \/ (resets[x] # "none" /\ resets'[x] = "used")
    <2>1. resets' = [x \in Requests |->
              IF x = r THEN "live" ELSE IF x \in req[r].seen THEN "used" ELSE resets[x]]
      BY DEF AskCommits
    <2>2. \A x \in Requests : resets[x] \in {"none", "live", "used"}
      BY <1>a DEF Typed
    <2>3. ASSUME NEW x \in Requests
          PROVE  /\ resets'[x] \in {"none", "live", "used"}
                 /\ x = r => resets'[x] = "live"
                 /\ x # r => resets'[x] = resets[x] \/ (resets[x] # "none" /\ resets'[x] = "used")
      <3>1. resets'[x] = IF x = r THEN "live" ELSE IF x \in req[r].seen THEN "used" ELSE resets[x]
        BY <2>1
      <3>2. x \in req[r].seen => resets[x] # "none"
        BY <1>a
      <3> QED
        BY <3>1, <3>2, <2>2
    <2>4. resets' = [x \in Requests |-> resets'[x]]
      BY <2>1
    <2>5. resets' \in [Requests -> {"none", "live", "used"}]
      BY <2>3, <2>4
    <2> QED
      BY <2>3, <2>5
  <1>4. TokensMove
    BY <1>1, <1>2, <1>a DEF TokensMove, Typed
  <1>5. ResetsMove
    BY <1>1, <1>2, <1>3 DEF ResetsMove
  <1>6. AdminsMove /\ fails' \in [Users -> Nat]
    BY <1>a DEF AdminsMove, accountVars, redisVars, Typed
  <1>7. InvitesMove
    BY <1>2, <1>a DEF InvitesMove, Typed, accountVars
  <1> QED
    BY <1>1, <1>4, <1>5, <1>6, <1>7 DEF Shape

LEMMA CommitGoes ==
    ASSUME BaseInv, NEW r \in Requests, CommitUser(r)
    PROVE  Shape
  <1>a. /\ Typed /\ req[r].pc = "written" /\ req[r].kind \in Writing /\ Goto(r, "done")
        /\ \A t \in req[r].seen : t \in Tokens /\ token[t] # "none"
        /\ req[r].kind = "confirm" => req[r].obj \in Requests /\ resets[req[r].obj] # "none"
        /\ UNCHANGED <<accounts, redisVars, invites>>
    BY DEF BaseInv, Typed, Holds, CommitUser, RequestTypes, OnPath, Spending
  <1>1. /\ RequestsMove /\ Goes(r) /\ req'[r].pc = "done"
        /\ req'[r].seen = req[r].seen /\ req'[r].kind = req[r].kind
        /\ \A x \in Requests : ~(req[x].pc # "written" /\ req'[x].pc = "written")
    BY <1>a, DoneShape
  <1>2. ASSUME NEW kinds, NEW x \in Requests, Lands(x, kinds)
        PROVE  x = r /\ req[r].kind \in kinds
    BY <1>2, <1>a, DoneShape
  <1>3. TokensMove
    <2>1. /\ token' \in [Tokens -> {"none", "live", "revoked"}]
          /\ \A t \in Tokens : token'[t] = IF t \in req[r].seen THEN "revoked" ELSE token[t]
      BY <1>a DEF CommitUser, Typed
    <2>2. \A x \in Requests : ~Lands(x, Spending)
      BY <1>2, <1>a DEF Writing, Revoking, Removing, Spending
    <2> QED
      BY <2>1, <2>2, <1>1, <1>2, <1>a DEF TokensMove
  <1>4. ResetsMove
    <2>1. CASE req[r].kind = "confirm"
      BY <2>1, <1>1, <1>2, <1>a DEF ResetsMove, CommitUser, Typed
    <2>2. CASE req[r].kind # "confirm"
      BY <2>2, <1>1, <1>2, <1>a DEF ResetsMove, CommitUser, Typed
    <2> QED
      BY <2>1, <2>2
  <1>5. AdminsMove
    <2>1. req[r].seen # {"refused"}
      BY <1>a, Names
    <2>2. req[r].kind \in Removing => Lands(r, Removing)
      BY <2>1, <1>1, <1>a DEF Lands, Committed
    <2>3. \A a \in active \cap admins : a \notin active' \cap admins' =>
              req[r].kind \in Removing /\ req[r].user = a
      BY DEF CommitUser, Removing
    <2> QED
      BY <2>2, <2>3, <1>1 DEF AdminsMove
  <1>6. InvitesMove
    <2>1. \A x \in Requests : ~Lands(x, {"accept"})
      BY <1>2, <1>a DEF Writing, Revoking, Removing
    <2> QED
      BY <2>1, <1>a DEF InvitesMove, Typed
  <1>7. fails' \in [Users -> Nat]
    BY <1>a DEF redisVars, Typed
  <1> QED
    BY <1>1, <1>3, <1>4, <1>5, <1>6, <1>7 DEF Shape

LEMMA AcceptGoes ==
    ASSUME BaseInv, NEW r \in Requests, AcceptCommits(r)
    PROVE  Shape
  <1> DEFINE i == req[r].obj
  <1>a. /\ Typed /\ req[r].pc = "create" /\ req[r].kind = "accept" /\ i \in DOMAIN invites
        /\ UNCHANGED <<admins, redisVars, token, resets>> /\ fails' \in [Users -> Nat]
    BY DEF BaseInv, Typed, Holds, AcceptCommits, At, redisVars
  <1>1. CASE ~AddressFree
    BY <1>1, <1>a, RefuseShape DEF AcceptCommits, accountVars
  <1>2. CASE AddressFree
    <2> DEFINE q == [req[r] EXCEPT !.pc = "issue"]
    <2>1. /\ q \in RequestTypes /\ q.kind = "accept" /\ q.user = req[r].user
          /\ q.obj = req[r].obj /\ q.pc = "issue"
      BY <1>a DEF Typed, RequestTypes
    <2>2. Holds(q) /\ OnPath(q)
      BY <1>a, <2>1 DEF Holds, OnPath, Spending, Writing, Revoking, Removing
    <2>3. req' = [req EXCEPT ![r] = q] /\ UNCHANGED before
      BY <1>2, <1>a DEF AcceptCommits, Goto
    <2> HIDE DEF q
    <2>4. /\ RequestsMove /\ Goes(r)
          /\ \A x \in Requests : req[x].pc # "written" /\ req'[x].pc = "written" => x = r
          /\ req'[r] = q
      BY <1>a, <2>1, <2>2, <2>3, GoShape
    <2>5. ASSUME NEW kinds, NEW x \in Requests, Lands(x, kinds)
          PROVE  x = r /\ "accept" \in kinds
      <3>1. req'[r] = q /\ \A y \in Requests : y # r => req'[y] = req[y]
        BY <1>a, <2>3 DEF Typed
      <3> QED
        BY <2>5, <3>1, <2>1 DEF Lands, Committed
    <2>6. TokensMove
      BY <1>a, <2>1, <2>4, <2>5 DEF TokensMove, Typed, Spending, Revoking
    <2>7. ResetsMove
      BY <1>a, <2>5 DEF ResetsMove, Typed
    <2>8. AdminsMove
      BY <1>2, <1>a DEF AdminsMove, AcceptCommits
    <2>9. /\ invites' \in Seq(Invitations) /\ DOMAIN invites' = DOMAIN invites
          /\ \A j \in DOMAIN invites : j # i => invites'[j] = invites[j]
          /\ invites'[i].st \in {"accepted", "deleted"}
      <3>1. CASE invites[i].st = "deleted"
        BY <3>1, <1>2, <1>a DEF AcceptCommits, Typed, Invitations
      <3>2. CASE invites[i].st # "deleted"
        BY <3>2, <1>2, <1>a, InviteSet DEF AcceptCommits
      <3> QED
        BY <3>1, <3>2
    <2>10. Newcomer \notin accounts /\ Newcomer \in accounts' /\ accounts \subseteq accounts'
      BY <1>2, <1>a DEF AcceptCommits, AddressFree
    <2>11. InvitesMove
      BY <2>5, <2>9, <2>10 DEF InvitesMove, Invitations
    <2> QED
      BY <1>a, <2>4, <2>6, <2>7, <2>8, <2>11 DEF Shape
  <1> QED
    BY <1>1, <1>2

LEMMA ClockShape ==
    ASSUME BaseInv, TimePasses \/ UNCHANGED vars
    PROVE  Shape
  <1>a. /\ Typed /\ UNCHANGED <<accountVars, token, resets, req, before>>
        /\ \A x \in Requests : Stays(x) /\ ~(req[x].pc # "written" /\ req'[x].pc = "written")
        /\ \A kinds : \A x \in Requests : ~Lands(x, kinds)
    BY DEF BaseInv, TimePasses, WindowSlides, LockExpires, InvitationExpires, vars, Stays, Lands,
           Committed
  <1>1. RequestsMove /\ TokensMove /\ ResetsMove
    BY <1>a DEF RequestsMove, TokensMove, ResetsMove, Typed
  <1>2. AdminsMove
    BY <1>a DEF AdminsMove, accountVars
  <1>3. fails' \in [Users -> Nat]
    <2>1. ASSUME NEW u \in Users, WindowSlides(u) PROVE fails' \in [Users -> Nat]
      <3>1. PICK n \in 0 .. fails[u] : fails' = [fails EXCEPT ![u] = n]
        BY <2>1 DEF WindowSlides
      <3>2. fails[u] \in Nat /\ n \in Nat
        BY <1>a DEF Typed
      <3> QED
        BY <3>1, <3>2, <1>a DEF Typed
    <2>2. ASSUME NEW u \in Users, LockExpires(u) PROVE fails' \in [Users -> Nat]
      BY <2>2, <1>a DEF LockExpires, Typed
    <2>3. CASE UNCHANGED fails
      BY <2>3, <1>a DEF Typed
    <2> QED
      BY <2>1, <2>2, <2>3 DEF TimePasses, InvitationExpires, redisVars, vars
  <1>4. InvitesMove
    <2>1. CASE UNCHANGED invites
      BY <2>1, <1>a DEF InvitesMove, Typed, accountVars
    <2>2. ASSUME NEW i \in DOMAIN invites, InvitationExpires(i) PROVE InvitesMove
      <3>1. /\ invites' \in Seq(Invitations) /\ DOMAIN invites' = DOMAIN invites
            /\ \A j \in DOMAIN invites : j # i => invites'[j] = invites[j]
        BY <2>2, <1>a, InviteSet DEF InvitationExpires
      <3>2. invites[i].st = "pending"
        BY <2>2 DEF InvitationExpires, Pending
      <3> QED
        BY <3>1, <3>2, <1>a DEF InvitesMove, Invitations, accountVars
    <2> QED
      BY <2>1, <2>2 DEF TimePasses, WindowSlides, LockExpires, vars
  <1> QED
    BY <1>1, <1>2, <1>3, <1>4 DEF Shape

LEMMA StepShape ==
    ASSUME BaseInv, [Next]_vars
    PROVE  Shape
  <1>1. ASSUME NEW r \in Requests, RequestStep(r) PROVE Shape
    <2>1. ASSUME NEW u \in Users,
                 \/ LoginCheck(r, u) \/ LoginUnchecked(r, u) \/ AskReset(r, u)
                 \/ ChangeReads(r, u) \/ UpdateMe(r, u)
          PROVE  Shape
      BY <2>1, LoginStarts, AskStarts, ChangeStarts
    <2>2. CASE LoginVerify(r) \/ RecordFailure(r) \/ SetLock(r) \/ LoginReset(r) \/ IssueTokens(r)
      BY <2>2, LoginGoes, IssueGoes
    <2>3. CASE (\E t \in Tokens : ReadToken(r, t)) \/ Rotate(r) \/ Logout(r)
      BY <2>3, ReadStarts, SpendGoes
    <2>4. CASE AskCommits(r) \/ \E x \in Requests : ConfirmReads(r, x)
      BY <2>4, AskGoes, ChangeStarts DEF Users
    <2>5. ASSUME NEW a \in Users, NEW u \in Users,
                 DeactivateUser(r, a, u) \/ ChangeUserRole(r, a, u) \/ PatchUser(r, a, u)
          PROVE  Shape
      BY <2>5, ManageStarts
    <2>6. CASE UpdateUser(r) \/ CommitUser(r)
      BY <2>6, UpdateGoes, CommitGoes
    <2>7. ASSUME NEW a \in Users,
                 InviteReads(r, a) \/ \E i \in DOMAIN invites : RevokeReads(r, a, i)
          PROVE  Shape
      BY <2>7, InviteStarts
    <2>8. CASE Supersede(r) \/ InviteCommits(r) \/ RevokeCommits(r)
      BY <2>8, InviteGoes
    <2>9. CASE (\E i \in DOMAIN invites : AcceptReads(r, i)) \/ AcceptCommits(r)
      BY <2>9, InviteStarts, AcceptGoes DEF Users
    <2>10. CASE RequestLost(r)
      BY <2>10, RefuseShape DEF RequestLost, BaseInv, Typed, redisVars
    <2> QED
      BY <1>1, <2>1, <2>2, <2>3, <2>4, <2>5, <2>6, <2>7, <2>8, <2>9, <2>10 DEF RequestStep
  <1> QED
    BY <1>1, ClockShape DEF Next

-----------------------------------------------------------------------------
(* The invariants hold at the start and are kept by steps of that shape. *)

\* What was issued stays issued, what has ended stays as it is.
LEMMA Lasting ==
    ASSUME BaseInv, Shape
    PROVE  /\ \A t \in Tokens : token[t] # "none" => token'[t] # "none"
           /\ \A t \in Tokens : token[t] = "revoked" => token'[t] = "revoked"
           /\ \A x \in Requests : resets[x] # "none" => resets'[x] # "none"
           /\ \A x \in Requests : resets[x] = "used" => resets'[x] = "used"
           /\ \A x \in Requests : req[x].pc = "done" => Stays(x)
           /\ \A x \in Requests : x # Session /\ x \in Tokens
  <1>1. \A x \in Requests : req[x].pc = "done" => Stays(x)
    BY DEF Shape, RequestsMove, Starts, Goes
  <1>2. \A x \in Requests : x # Session /\ x \in Tokens
    BY Names, AccountsAssumption DEF AccountsAssumption
  <1>3. \A t \in Tokens : token[t] = "revoked" => token'[t] = "revoked"
    BY DEF Shape, TokensMove, BaseInv, Goes
  <1>4. \A x \in Requests : resets[x] = "used" => resets'[x] = "used"
    BY DEF Shape, ResetsMove, BaseInv, Goes
  <1> QED
    BY <1>1, <1>2, <1>3, <1>4 DEF Shape, TokensMove, ResetsMove

LEMMA BaseKept ==
    ASSUME BaseInv, Shape
    PROVE  BaseInv'
  <1>a. /\ Typed /\ RequestsMove /\ TokensMove /\ ResetsMove /\ InvitesMove
        /\ \A x \in Requests : Stays(x) \/ Starts(x) \/ Goes(x)
    BY DEF BaseInv, Shape, RequestsMove
  <1>1. Typed'
    BY <1>a DEF Typed, Shape, RequestsMove, TokensMove, ResetsMove, InvitesMove
  <1>2. token'[Session] # "none"
    BY Lasting, Names DEF BaseInv
  <1>3. ASSUME NEW r \in Requests PROVE OnPath(req'[r])
    BY <1>a, <1>3 DEF BaseInv, Stays, Starts, Fresh, Goes
  <1>4. ASSUME NEW r \in Requests PROVE Holds(req[r])'
    <2>1. Holds(req'[r])
      BY <1>a DEF BaseInv, Stays, Starts, Fresh, Goes
    <2> QED
      BY <2>1, <1>a, Lasting DEF Holds, InvitesMove
  <1>5. ASSUME NEW r \in Requests, token'[r] # "none" \/ resets'[r] # "none"
        PROVE  req'[r].pc = "done"
    <2>1. CASE token[r] # "none" \/ resets[r] # "none"
      BY <2>1, Lasting DEF BaseInv, Stays
    <2>2. CASE token[r] = "none" /\ resets[r] = "none"
      BY <2>2, <1>5, <1>a, Names DEF TokensMove, ResetsMove
    <2> QED
      BY <2>1, <2>2
  <1>6. ASSUME NEW r \in Requests, NEW s \in before'[r]
        PROVE  req'[s].pc = "done"
    <2>1. s \in Requests /\ req[s].pc = "done"
      <3>1. CASE Starts(r)
        BY <3>1, <1>6 DEF Starts, Ended
      <3>2. CASE ~Starts(r)
        BY <3>2, <1>6, <1>a DEF BaseInv, Typed, Stays, Goes
      <3> QED
        BY <3>1, <3>2
    <2> QED
      BY <2>1, Lasting DEF Stays
  <1> QED
    BY <1>1, <1>2, <1>3, <1>4, <1>5, <1>6 DEF BaseInv

LEMMA BaseStarts == Init => BaseInv
  <1> SUFFICES ASSUME Init PROVE BaseInv
    OBVIOUS
  <1>1. Unborn \in RequestTypes /\ OnPath(Unborn) /\ Holds(Unborn) /\ Unborn.pc = "unborn"
    BY DEF Unborn, RequestTypes, OnPath, Holds, Spending, Writing, Revoking, Removing
  <1>2. Typed
    BY <1>1 DEF Init, Typed
  <1>3. /\ token[Session] = "live" /\ \A r \in Requests : token[r] = "none" /\ resets[r] = "none"
    BY Names, AccountsAssumption DEF Init, AccountsAssumption
  <1>4. \A r \in Requests : req[r] = Unborn /\ before[r] = {}
    BY DEF Init
  <1> QED
    BY <1>1, <1>2, <1>3, <1>4 DEF BaseInv

\* Who began with a step began after all who had ended; everyone else has the
\* same past.
LEMMA Pasts ==
    ASSUME BaseInv, Shape, NEW s \in Requests, NEW r \in before'[s]
    PROVE  /\ r \in Requests /\ req[r].pc = "done" /\ req'[r] = req[r] /\ before'[r] = before[r]
           /\ \A kinds : r \in Committed(kinds)' <=> r \in Committed(kinds)
           /\ \/ Starts(s)
              \/ /\ r \in before[s] /\ before'[s] = before[s] /\ req'[s].kind = req[s].kind
                 /\ req'[s].user = req[s].user /\ req'[s].obj = req[s].obj
  <1>1. Stays(s) \/ Starts(s) \/ Goes(s)
    BY DEF Shape, RequestsMove
  <1>2. r \in Requests /\ req[r].pc = "done"
    BY <1>1 DEF Starts, Stays, Goes, Ended, BaseInv, Typed
  <1>3. req'[r] = req[r] /\ before'[r] = before[r]
    BY <1>2, Lasting DEF Stays
  <1> QED
    BY <1>1, <1>2, <1>3 DEF Starts, Stays, Goes, Committed

LEMMA SpentKept ==
    ASSUME BaseInv, Shape, SpentInv
    PROVE  SpentInv'
  <1>1. ASSUME NEW r \in Committed(Spending)' PROVE token'[req'[r].obj] = "revoked"
    <2>1. r \in Requests /\ (Stays(r) \/ Starts(r) \/ Goes(r))
      BY DEF Committed, Shape, RequestsMove
    <2>2. CASE r \in Committed(Spending)
      <3>1. req[r].obj \in Tokens /\ req[r].pc = "done"
        BY <2>2 DEF Committed, BaseInv, Holds, OnPath, Spending
      <3> QED
        BY <2>1, <2>2, <3>1, Lasting DEF SpentInv, Stays
    <2>3. CASE r \notin Committed(Spending)
      <3>1. Lands(r, Spending)
        BY <2>3 DEF Lands
      <3>2. Goes(r)
        BY <2>1, <2>3 DEF Committed, Stays, Starts, Fresh
      <3> QED
        BY <2>1, <3>1, <3>2 DEF Shape, TokensMove, Goes
    <2> QED
      BY <2>2, <2>3
  <1>2. ASSUME NEW r \in Committed({"confirm"})' PROVE resets'[req'[r].obj] = "used"
    <2>1. r \in Requests /\ (Stays(r) \/ Starts(r) \/ Goes(r))
      BY DEF Committed, Shape, RequestsMove
    <2>2. CASE r \in Committed({"confirm"})
      <3>1. req[r].obj \in Requests /\ req[r].pc = "done"
        BY <2>2 DEF Committed, BaseInv, Holds, OnPath, Writing, Revoking
      <3> QED
        BY <2>1, <2>2, <3>1, Lasting DEF SpentInv, Stays
    <2>3. CASE r \notin Committed({"confirm"})
      <3>1. Lands(r, {"confirm"})
        BY <2>3 DEF Lands
      <3>2. Goes(r)
        BY <2>1, <2>3 DEF Committed, Stays, Starts, Fresh
      <3> QED
        BY <2>1, <3>1, <3>2 DEF Shape, ResetsMove, Goes
    <2> QED
      BY <2>2, <2>3
  <1>3. ASSUME NEW kinds \in {Spending, {"confirm"}}, NEW s \in Requests, NEW r \in before'[s],
               r \in Committed(kinds)', req'[s].kind \in kinds
        PROVE  req'[r].obj # req'[s].obj
    <2>1. r \in Committed(kinds) /\ req'[r] = req[r]
      BY <1>3, Pasts
    <2>2. CASE Starts(s)
      BY <1>3, <2>1, <2>2 DEF SpentInv, Starts, Fresh
    <2>3. CASE ~Starts(s)
      <3>1. Apart(kinds)
        BY DEF SpentInv
      <3>2. r \in before[s] /\ req'[s].kind = req[s].kind /\ req'[s].obj = req[s].obj
        BY <2>3, Pasts
      <3> QED
        BY <1>3, <2>1, <3>1, <3>2 DEF Apart
    <2> QED
      BY <2>2, <2>3
  <1> QED
    BY <1>1, <1>2, <1>3 DEF SpentInv, Apart

\* A token of an earlier request that is live was live before, and its
\* owner's.
LEMMA OldTokens ==
    ASSUME BaseInv, Shape, NEW c \in Requests, req[c].pc # "unborn", NEW t \in Cut(c),
           NEW u, t \in LiveOf(u)'
    PROVE  t \in LiveOf(u) /\ t \in Tokens /\ token'[t] = "live"
  <1>1. t \in Tokens /\ token'[t] = "live" /\ Owner(t)' = u
    BY DEF LiveOf
  <1>2. CASE t = Session
    <2>1. token[t] = "live"
      BY <1>1, <1>2, AccountsAssumption DEF Shape, TokensMove, AccountsAssumption
    <2> QED
      BY <1>1, <1>2, <2>1 DEF LiveOf, Owner
  <1>3. CASE t \in before[c]
    <2>1. t \in Requests /\ req[t].pc = "done"
      BY <1>3 DEF BaseInv, Typed
    <2>2. req'[t] = req[t] /\ t # Session
      BY <2>1, Lasting DEF Stays
    <2>3. token[t] = "live"
      BY <1>1, <2>1 DEF Shape, TokensMove, Goes
    <2> QED
      BY <1>1, <2>2, <2>3 DEF LiveOf, Owner
  <1> QED
    BY <1>1, <1>2, <1>3 DEF Cut

LEMMA CutKept ==
    ASSUME BaseInv, Shape, CutInv
    PROVE  CutInv'
  <1> SUFFICES ASSUME NEW c \in Requests, req'[c].kind \in Revoking
               PROVE  /\ req'[c].pc = "written" => \A t \in Cut(c)' :
                             t \in LiveOf(req[c].user)' => t \in req'[c].seen
                      /\ c \in Committed(Revoking)' => \A t \in Cut(c)' :
                             t \notin LiveOf(req[c].user)'
    BY DEF CutInv
  <1>1. Stays(c) \/ Starts(c) \/ Goes(c)
    BY DEF Shape, RequestsMove
  <1>2. CASE Starts(c)
    BY <1>2 DEF Starts, Fresh, Committed
  <1>3. CASE ~Starts(c)
    <2>1. Cut(c)' = Cut(c) /\ req'[c].user = req[c].user /\ req'[c].kind = req[c].kind
      BY <1>1, <1>3 DEF Stays, Goes, Cut
    <2>2. CASE req[c].pc = "unborn"
      BY <1>1, <1>3, <2>2 DEF Stays, Goes, Committed
    <2>3. CASE req[c].pc # "unborn"
      <3>1. ASSUME req'[c].pc = "written", NEW t \in Cut(c), t \in LiveOf(req[c].user)'
            PROVE  t \in req'[c].seen
        <4>1. t \in LiveOf(req[c].user)
          BY <2>1, <2>3, <3>1, OldTokens
        <4>2. CASE req[c].pc = "written"
          <5>1. req'[c] = req[c]
            BY <1>1, <1>3, <3>1, <4>2 DEF Stays, Goes
          <5> QED
            BY <4>1, <4>2, <5>1, <2>1 DEF CutInv
        <4>3. CASE req[c].pc # "written"
          BY <4>1, <4>3, <3>1, <2>1 DEF Shape, TokensMove, Revokes
        <4> QED
          BY <4>2, <4>3
      <3>2. ASSUME c \in Committed(Revoking)', NEW t \in Cut(c), t \in LiveOf(req[c].user)'
            PROVE  FALSE
        <4>1. t \in LiveOf(req[c].user) /\ token'[t] = "live"
          BY <2>1, <2>3, <3>2, OldTokens
        <4>2. CASE c \in Committed(Revoking)
          BY <4>1, <4>2, <2>1 DEF CutInv
        <4>3. CASE c \notin Committed(Revoking)
          <5>1. req[c].pc = "written" /\ \A y \in req[c].seen : token'[y] = "revoked"
            BY <3>2, <4>3 DEF Lands, Shape, TokensMove
          <5> QED
            BY <4>1, <5>1, <2>1 DEF CutInv
        <4> QED
          BY <4>2, <4>3
      <3> QED
        BY <2>1, <3>1, <3>2
    <2> QED
      BY <2>2, <2>3
  <1> QED
    BY <1>2, <1>3

LEMMA RefreshKept ==
    ASSUME BaseInv, Shape, CutInv, RefreshInv
    PROVE  RefreshInv'
  <1> SUFFICES ASSUME NEW r \in Requests, NEW c \in before'[r], c \in Committed(Revoking)',
                      req'[r].kind = "refresh", req'[r].user = req'[c].user,
                      req'[r].obj \in Cut(c)'
               PROVE  FALSE
    BY DEF RefreshInv
  <1>1. /\ c \in Requests /\ c \in Committed(Revoking) /\ req'[c] = req[c] /\ Cut(c)' = Cut(c)
    BY Pasts DEF Cut
  <1>2. CASE Starts(r)
    <2>1. token[req'[r].obj] = "live" /\ Owner(req'[r].obj) = req'[r].user /\ req'[r].obj \in Tokens
      BY <1>2 DEF Starts, Fresh, Holds, Spending
    <2>2. req'[r].obj \in LiveOf(req[c].user)
      BY <1>1, <2>1 DEF LiveOf
    <2> QED
      BY <1>1, <2>2 DEF CutInv, Committed
  <1>3. CASE ~Starts(r)
    <2>1. c \in before[r] /\ req'[r].kind = req[r].kind /\ req'[r].user = req[r].user
          /\ req'[r].obj = req[r].obj
      BY <1>3, Pasts
    <2> QED
      BY <1>1, <2>1 DEF RefreshInv
  <1> QED
    BY <1>2, <1>3

\* Removals that have been committed stay, and nobody who began before them
\* comes to have them behind it.
LEMMA RemovalStays ==
    ASSUME BaseInv, Shape, NEW r \in Requests, req[r].pc # "unborn",
           NEW s \in Committed(Removing), s \notin before[r]
    PROVE  s \in Committed(Removing)' /\ s \notin before'[r]
  <1>1. s \in Requests /\ req[s].pc = "done"
    BY DEF Committed, BaseInv, OnPath, Writing, Removing
  <1>2. req'[s] = req[s]
    BY <1>1, Lasting DEF Stays
  <1> QED
    BY <1>2 DEF Committed, Shape, RequestsMove, Stays, Starts, Goes

LEMMA RemoverKept ==
    ASSUME BaseInv, Shape, RemoverInv
    PROVE  RemoverInv'
  <1> SUFFICES ASSUME NEW r \in Requests, req'[r].kind \in Removing,
                      req'[r].pc \in {"write", "written"}
               PROVE  /\ req'[r].obj # req'[r].user
                      /\ \/ req'[r].obj \in active' \cap admins'
                         \/ \E s \in Committed(Removing)' : s \notin before'[r]
    BY DEF RemoverInv
  <1>1. Stays(r) \/ Starts(r) \/ Goes(r)
    BY DEF Shape, RequestsMove
  <1>2. CASE Starts(r)
    BY <1>2 DEF Starts, Fresh, accountVars
  <1>3. CASE ~Starts(r)
    <2>1. /\ req'[r].kind = req[r].kind /\ req'[r].obj = req[r].obj /\ req'[r].user = req[r].user
          /\ before'[r] = before[r]
      BY <1>1, <1>3 DEF Stays, Goes
    <2>2. req[r].pc \in {"write", "written"}
      BY <1>1, <1>3, <2>1 DEF Stays, Goes, BaseInv, OnPath, Writing, Removing
    <2>3. CASE \E s \in Committed(Removing) : s \notin before[r]
      BY <2>1, <2>2, <2>3, RemovalStays DEF RemoverInv
    <2>4. CASE req[r].obj \in active \cap admins
      <3>1. CASE req[r].obj \in active' \cap admins'
        BY <2>1, <2>2, <3>1 DEF RemoverInv
      <3>2. CASE req[r].obj \notin active' \cap admins'
        <4>1. PICK x \in Requests : Goes(x) /\ Lands(x, Removing)
          BY <2>4, <3>2 DEF Shape, AdminsMove
        <4>2. x \notin before[r]
          BY <4>1 DEF BaseInv, Goes
        <4> QED
          BY <2>1, <2>2, <4>1, <4>2 DEF Lands, RemoverInv
      <3> QED
        BY <3>1, <3>2
    <2> QED
      BY <2>1, <2>2, <2>3, <2>4 DEF RemoverInv
  <1> QED
    BY <1>2, <1>3

LEMMA AdminKept ==
    ASSUME BaseInv, Shape, RemoverInv, AdminRemains
    PROVE  AdminRemains'
  <1>1. CASE \E r, s \in Committed(Removing) : r # s /\ Overlap(r, s)
    <2>1. PICK r \in Committed(Removing), s \in Committed(Removing) : r # s /\ Overlap(r, s)
      BY <1>1
    <2>2. r \in Requests /\ s \in Requests /\ req[r].pc # "unborn" /\ req[s].pc # "unborn"
      BY DEF Committed
    <2>3. /\ r \in Committed(Removing)' /\ s \in Committed(Removing)'
          /\ r \notin before'[s] /\ s \notin before'[r]
      BY <2>1, <2>2, RemovalStays DEF Overlap
    <2> QED
      BY <2>1, <2>3 DEF AdminRemains, Overlap, Removing
  <1>2. ASSUME NEW a \in active \cap admins, active' \cap admins' = {}
        PROVE  AdminRemains'
    <2>1. PICK x \in Requests : Goes(x) /\ Lands(x, Removing) /\ req[x].user = a
      BY <1>2 DEF Shape, AdminsMove
    <2>2. req[x].pc \in {"write", "written"} /\ req[x].kind \in Removing
      BY <2>1 DEF Goes, Lands, Committed, BaseInv, OnPath, Writing, Removing
    <2>3. req[x].obj \notin active \cap admins
      <3>1. SUFFICES ASSUME req[x].obj \in active \cap admins PROVE FALSE
        OBVIOUS
      <3>2. PICK y \in Requests : Goes(y) /\ Lands(y, Removing) /\ req[y].user = req[x].obj
        BY <1>2, <3>1 DEF Shape, AdminsMove
      <3>3. ~Stays(x) /\ ~Stays(y)
        BY <2>1, <3>2 DEF Stays, Lands, Committed
      <3>4. x = y
        BY <3>3 DEF Shape, RequestsMove
      <3> QED
        BY <2>2, <3>2, <3>4 DEF RemoverInv
    <2>4. PICK s \in Committed(Removing) : s \notin before[x]
      BY <2>2, <2>3 DEF RemoverInv
    <2>5. s \in Committed(Removing)' /\ s \notin before'[x]
      BY <2>2, <2>4, RemovalStays
    <2>6. x \notin before'[s] /\ s # x
      <3>1. s \in Requests /\ req[s].pc = "done"
        BY DEF Committed, BaseInv, OnPath, Writing, Removing
      <3> QED
        BY <3>1, <2>1, Lasting DEF BaseInv, Stays, Goes
    <2> QED
      BY <2>1, <2>5, <2>6 DEF AdminRemains, Overlap, Lands, Removing
  <1>3. CASE active' \cap admins' # {}
    BY <1>3 DEF AdminRemains
  <1> QED
    BY <1>1, <1>2, <1>3 DEF AdminRemains, Removing

LEMMA JoinKept ==
    ASSUME BaseInv, Shape, JoinInv
    PROVE  JoinInv'
  <1>1. ASSUME NEW r \in Committed({"accept"})'
        PROVE  /\ r \in Requests /\ req'[r].obj = req[r].obj
               /\ r \in Committed({"accept"}) \/ Lands(r, {"accept"})
               /\ r \in Committed({"accept"}) => req[r].obj \in DOMAIN invites
    BY <1>1 DEF Committed, Lands, Shape, RequestsMove, Stays, Starts, Fresh, Goes, BaseInv, Holds
  <1>2. ASSUME NEW r \in Committed({"accept"})'
        PROVE  /\ Newcomer \in accounts'
               /\ invites'[req'[r].obj].st \in {"accepted", "deleted"}
    <2>1. CASE r \in Committed({"accept"})
      BY <1>1, <2>1 DEF JoinInv, Shape, InvitesMove
    <2>2. CASE Lands(r, {"accept"})
      BY <1>1, <2>2 DEF Shape, InvitesMove
    <2> QED
      BY <1>1, <2>1, <2>2
  <1>3. ASSUME NEW r \in Committed({"accept"})', NEW s \in Committed({"accept"})'
        PROVE  r = s
    <2>1. CASE r \in Committed({"accept"}) /\ s \in Committed({"accept"})
      BY <2>1 DEF JoinInv
    <2>2. CASE Lands(r, {"accept"}) \/ Lands(s, {"accept"})
      <3>1. r \notin Committed({"accept"}) /\ s \notin Committed({"accept"})
        BY <1>1, <2>2 DEF JoinInv, Shape, InvitesMove
      <3>2. ~Stays(r) /\ ~Stays(s)
        BY <3>1 DEF Committed, Stays
      <3> QED
        BY <3>2, <1>1 DEF Shape, RequestsMove
    <2> QED
      BY <1>1, <2>1, <2>2
  <1> QED
    BY <1>2, <1>3 DEF JoinInv

-----------------------------------------------------------------------------
(* The lockout. *)

\* The request that counted the last failure has the key to set, or lost it.
Counted(r, u) ==
    /\ req[r].kind = "login" /\ req[r].user = u
    /\ req[r].pc = "lock" \/ "lock_lost" \in req[r].seen

\* Where the count is at the threshold it was, and the key is not taken away,
\* or a request has just counted.
LocksMove ==
    \A u \in Users : fails'[u] >= MaxFails =>
        \/ fails[u] >= MaxFails /\ (u \in locked => u \in locked')
        \/ \E r \in Requests : Counted(r, u)'

LEMMA Thresholds == MaxFails \in Nat /\ MaxFails > 0
  BY AccountsAssumption DEF AccountsAssumption

LEMMA LoginLocks ==
    ASSUME BaseInv, NEW r \in Requests, RecordFailure(r) \/ SetLock(r) \/ LoginReset(r)
    PROVE  LocksMove
  <1>a. fails \in [Users -> Nat] /\ req \in [Requests -> RequestTypes] /\ 0 < MaxFails
    BY Thresholds DEF BaseInv, Typed
  <1>1. CASE RecordFailure(r)
    <2>1. CASE UNCHANGED fails
      BY <1>1, <2>1 DEF RecordFailure, LocksMove
    <2>2. CASE ~UNCHANGED fails
      <3>1. /\ fails' = [fails EXCEPT ![req[r].user] = @ + 1] /\ req[r].kind = "login"
            /\ fails[req[r].user] + 1 >= MaxFails => Goto(r, "lock")
            /\ UNCHANGED locked
        BY <1>1, <2>2 DEF RecordFailure, At
      <3>2. ASSUME NEW u \in Users, fails'[u] >= MaxFails, u = req[r].user
            PROVE  Counted(r, u)'
        <4>1. fails'[u] = fails[u] + 1
          BY <1>a, <3>1, <3>2
        <4>2. req' = [req EXCEPT ![r].pc = "lock"]
          BY <3>1, <3>2, <4>1 DEF Goto
        <4> QED
          BY <1>a, <3>1, <3>2, <4>2 DEF Counted, RequestTypes
      <3>3. \A u \in Users : u # req[r].user => fails'[u] = fails[u]
        BY <1>a, <3>1
      <3> QED
        BY <3>1, <3>2, <3>3 DEF LocksMove
    <2> QED
      BY <2>1, <2>2
  <1>2. CASE SetLock(r)
    BY <1>2 DEF SetLock, LocksMove
  <1>3. CASE LoginReset(r)
    <2>1. CASE UNCHANGED redisVars
      BY <2>1 DEF LocksMove, redisVars
    <2>2. CASE fails' = [fails EXCEPT ![req[r].user] = 0] /\ locked' = locked \ {req[r].user}
      <3>1. \A u \in Users : u = req[r].user => ~(fails'[u] >= MaxFails)
        BY <1>a, <2>2, Thresholds
      <3>2. \A u \in Users : u # req[r].user => fails'[u] = fails[u]
        BY <1>a, <2>2
      <3> QED
        BY <2>2, <3>1, <3>2 DEF LocksMove
    <2> QED
      BY <1>3, <2>1, <2>2 DEF LoginReset
  <1> QED
    BY <1>1, <1>2, <1>3

LEMMA ClockLocks ==
    ASSUME BaseInv, TimePasses
    PROVE  LocksMove
  <1>a. fails \in [Users -> Nat] /\ MaxFails \in Nat /\ MaxFails > 0
    BY Thresholds DEF BaseInv, Typed
  <1>1. ASSUME NEW v \in Users, WindowSlides(v) PROVE LocksMove
    <2>1. PICK n \in 0 .. fails[v] : n < fails[v] /\ fails' = [fails EXCEPT ![v] = n]
      BY <1>1 DEF WindowSlides
    <2>2. \A u \in Users : fails'[u] >= MaxFails => fails[u] >= MaxFails
      BY <1>a, <2>1
    <2> QED
      BY <1>1, <2>2 DEF WindowSlides, LocksMove
  <1>2. ASSUME NEW v \in Users, LockExpires(v) PROVE LocksMove
    <2>1. \A u \in Users : IF u = v THEN ~(fails'[u] >= MaxFails) ELSE fails'[u] = fails[u]
      BY <1>a, <1>2 DEF LockExpires
    <2> QED
      BY <1>2, <2>1 DEF LockExpires, LocksMove
  <1>3. CASE UNCHANGED redisVars
    BY <1>3 DEF LocksMove, redisVars
  <1> QED
    BY <1>1, <1>2, <1>3 DEF TimePasses, InvitationExpires

LEMMA StepLocks ==
    ASSUME BaseInv, [Next]_vars
    PROVE  LocksMove
  <1>a. UNCHANGED redisVars => LocksMove
    BY DEF LocksMove, redisVars
  <1>1. ASSUME NEW r \in Requests, RequestStep(r) PROVE LocksMove
    <2>1. CASE RecordFailure(r) \/ SetLock(r) \/ LoginReset(r)
      BY <2>1, LoginLocks
    <2>2. ASSUME NEW u \in Users,
                 \/ LoginCheck(r, u) \/ LoginUnchecked(r, u) \/ AskReset(r, u)
                 \/ ChangeReads(r, u) \/ UpdateMe(r, u)
          PROVE  LocksMove
      BY <2>2, <1>a DEF LoginCheck, LoginUnchecked, AskReset, ChangeReads, UpdateMe
    <2>3. CASE LoginVerify(r) \/ IssueTokens(r) \/ Rotate(r) \/ Logout(r) \/ AskCommits(r)
      BY <2>3, <1>a DEF LoginVerify, IssueTokens, Rotate, Logout, AskCommits
    <2>4. CASE \/ \E t \in Tokens : ReadToken(r, t)
               \/ \E x \in Requests : ConfirmReads(r, x)
               \/ \E i \in DOMAIN invites : AcceptReads(r, i)
      BY <2>4, <1>a DEF ReadToken, ConfirmReads, AcceptReads
    <2>5. ASSUME NEW b \in Users, NEW u \in Users,
                 DeactivateUser(r, b, u) \/ ChangeUserRole(r, b, u) \/ PatchUser(r, b, u)
          PROVE  LocksMove
      BY <2>5, <1>a DEF DeactivateUser, ChangeUserRole, PatchUser
    <2>6. CASE UpdateUser(r) \/ CommitUser(r) \/ AcceptCommits(r) \/ RequestLost(r)
      BY <2>6, <1>a DEF UpdateUser, CommitUser, AcceptCommits, RequestLost
    <2>7. ASSUME NEW b \in Users,
                 InviteReads(r, b) \/ \E i \in DOMAIN invites : RevokeReads(r, b, i)
          PROVE  LocksMove
      BY <2>7, <1>a DEF InviteReads, RevokeReads
    <2>8. CASE Supersede(r) \/ InviteCommits(r) \/ RevokeCommits(r)
      BY <2>8, <1>a DEF Supersede, InviteCommits, RevokeCommits
    <2> QED
      BY <1>1, <2>1, <2>2, <2>3, <2>4, <2>5, <2>6, <2>7, <2>8 DEF RequestStep
  <1>2. CASE UNCHANGED vars
    BY <1>2, <1>a DEF vars
  <1> QED
    BY <1>1, <1>2, ClockLocks DEF Next

LEMMA LockKept ==
    ASSUME BaseInv, Shape, LocksMove, LockFollows
    PROVE  LockFollows'
  <1>1. ASSUME NEW r \in Requests, NEW u, Counted(r, u)
        PROVE  Counted(r, u)' \/ u \in locked'
    <2>1. Stays(r) \/ Goes(r)
      BY <1>1 DEF Counted, Shape, RequestsMove, Starts, BaseInv, OnPath
    <2>2. CASE Stays(r)
      BY <1>1, <2>2 DEF Counted, Stays
    <2>3. CASE Goes(r)
      <3>1. req[r].pc = "lock"
        BY <1>1, <2>3 DEF Counted, Goes, BaseInv, OnPath
      <3> QED
        BY <1>1, <2>3, <3>1 DEF Counted, Goes, BaseInv, OnPath
    <2> QED
      BY <2>1, <2>2, <2>3
  <1>2. ASSUME NEW u \in Users, fails'[u] >= MaxFails
        PROVE  u \in locked' \/ \E r \in Requests : Counted(r, u)'
    <2>1. CASE fails[u] >= MaxFails /\ (u \in locked => u \in locked')
      BY <1>1, <2>1 DEF LockFollows, Counted
    <2> QED
      BY <1>2, <2>1 DEF LocksMove
  <1> QED
    BY <1>2 DEF LockFollows, Counted

-----------------------------------------------------------------------------
(* The theorems. *)

AccountsInv == BaseInv /\ SpentInv /\ CutInv /\ RefreshInv /\ RemoverInv /\ JoinInv

LEMMA InvariantHolds == Spec => [](AccountsInv /\ LockFollows /\ AdminRemains)
  <1> DEFINE All == AccountsInv /\ LockFollows /\ AdminRemains
  <1>1. Init => All
    <2> SUFFICES ASSUME Init PROVE All
      OBVIOUS
    <2>1. \A r \in Requests : req[r] = Unborn /\ before[r] = {}
      BY DEF Init
    <2>2. SpentInv /\ CutInv /\ RefreshInv /\ RemoverInv /\ JoinInv
      BY <2>1 DEF Unborn, SpentInv, Apart, CutInv, RefreshInv, RemoverInv, JoinInv, Committed, Revoking,
                  Removing, Cut
    <2>3. LockFollows
      BY Thresholds DEF Init, LockFollows
    <2>4. AdminRemains
      BY AccountsAssumption DEF Init, AdminRemains, AccountsAssumption
    <2> QED
      BY <2>2, <2>3, <2>4, BaseStarts DEF AccountsInv
  <1>2. All /\ [Next]_vars => All'
    <2> SUFFICES ASSUME All, [Next]_vars PROVE All'
      OBVIOUS
    <2>1. BaseInv /\ Shape /\ LocksMove
      BY StepShape, StepLocks DEF AccountsInv
    <2> QED
      BY <2>1, BaseKept, SpentKept, CutKept, RefreshKept, RemoverKept, JoinKept, LockKept, AdminKept
         DEF AccountsInv
  <1> QED
    BY <1>1, <1>2, PTL DEF Spec

\* An address with LOCKOUT_MAX_FAILS failures in the window is locked, or the
\* write of its key is under way or was lost (account_lockout.py).
THEOREM LocksFollow == Spec => []LockFollows
  BY InvariantHolds, PTL

\* A change of password or a deactivation leaves no earlier refresh token of
\* use, whatever refreshes and logins cross it (revoke_all_for_user).
THEOREM RevocationsReach == Spec => []RevocationReaches
  <1>1. BaseInv /\ CutInv /\ RefreshInv => RevocationReaches
    <2> SUFFICES ASSUME BaseInv, CutInv, RefreshInv, NEW c \in Committed(Revoking), req[c].pc = "done"
                 PROVE  /\ \A t \in LiveOf(req[c].user) : t # Session /\ t \notin before[c]
                        /\ \A r \in Committed({"refresh"}) :
                               req[r].user = req[c].user /\ req[r].obj \in before[c] \cup {Session}
                                   => c \notin before[r]
      BY DEF RevocationReaches
    <2>1. \A t \in Cut(c) : t \notin LiveOf(req[c].user)
      BY DEF CutInv, Committed
    <2>2. ASSUME NEW r \in Committed({"refresh"}), req[r].user = req[c].user,
                 req[r].obj \in Cut(c), c \in before[r]
          PROVE  FALSE
      BY <2>2 DEF RefreshInv, Committed
    <2> QED
      BY <2>1, <2>2 DEF Cut
  <1> QED
    BY <1>1, InvariantHolds, PTL DEF AccountsInv

\* Refresh and reset tokens are spent by one request or by requests that
\* overlap, and an address gets one account from one invitation
\* (get_valid_by_token, get_valid_reset_token, accept_invitation).
THEOREM TokensSpentOnce == Spec => []SpentOnce
  <1>1. BaseInv /\ SpentInv /\ JoinInv => SpentOnce
    <2> SUFFICES ASSUME BaseInv, SpentInv, JoinInv PROVE SpentOnce
      OBVIOUS
    <2>1. ASSUME NEW kinds \in {Spending, {"confirm"}}, NEW r \in Committed(kinds),
                 NEW s \in Committed(kinds), req[r].obj = req[s].obj
          PROVE  Overlap(r, s)
      <3>1. Apart(kinds)
        BY DEF SpentInv
      <3>2. r \in Requests /\ s \in Requests /\ req[r].kind \in kinds /\ req[s].kind \in kinds
        BY DEF Committed
      <3> QED
        BY <2>1, <3>1, <3>2 DEF Apart, Overlap
    <2>2. Cardinality(Committed({"accept"})) <= 1
      <3>1. CASE Committed({"accept"}) = {}
        BY <3>1, FS_EmptySet
      <3>2. ASSUME NEW r \in Committed({"accept"}) PROVE Cardinality(Committed({"accept"})) <= 1
        <4> DEFINE joined == Committed({"accept"})
        <4>1. r \in joined /\ \A x, y \in joined : x = y
          BY <3>2 DEF JoinInv
        <4> HIDE DEF joined
        <4>2. \A x : x \in joined <=> x = r
          BY <4>1
        <4>3. joined = {r}
          BY <4>2
        <4>4. Cardinality({r}) = 1
          BY FS_Singleton
        <4>5. Cardinality(joined) <= 1
          BY <4>3, <4>4
        <4> QED
          BY <4>5 DEF joined
      <3> QED
        BY <3>1, <3>2
    <2> QED
      BY <2>1, <2>2 DEF SpentOnce, JoinInv, Spending
  <1> QED
    BY <1>1, InvariantHolds, PTL DEF AccountsInv

\* The last active admin is only lost to two removals that overlap
\* (deactivate_user, change_role).
THEOREM AdminsRemain == Spec => []AdminRemains
  BY InvariantHolds, PTL
=============================================================================
