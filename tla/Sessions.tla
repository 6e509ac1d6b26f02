------------------------------ MODULE Sessions ------------------------------
(***************************************************************************)
(* How one account is let in: passwords, one-time codes, refresh tokens,   *)
(* and the decisions of administrators over it (auth_service.py, auth.py,  *)
(* approve_member, users.py).                                              *)
(*                                                                         *)
(* A request loads the rows it goes by when it begins and writes when it   *)
(* ends; nothing is locked in between.                                     *)
(***************************************************************************)
EXTENDS Integers, FiniteSets, Sequences

CONSTANTS
  Requests, Passwords,
  Starts,           \* the accounts there may be at first
  CodesPerHour,     \* otp_max_per_phone_per_hour
  MaxAttempts,      \* otp_max_attempts
  MaxCalls,         \* bound: requests
  MaxFaults,        \* bound: transactions and messages that fail
  None

ASSUME Parameters ==
  /\ IsFiniteSet(Requests) /\ CodesPerHour \in Nat \ {0} /\ MaxAttempts \in Nat \ {0}
  /\ MaxCalls \in Nat /\ MaxFaults \in Nat /\ None \notin Passwords

VARIABLES
  user,      \* the account
  status,    \* of its member record
  codes,     \* otp_codes, in the order of their commits
  tokens,    \* refresh_tokens, in the order of their commits
  req,       \* the requests
  shut,      \* history: the account has been refused and not been opened since
  crossed,   \* history: two requests for codes, or two tries of one, overlapped
  split,     \* history: the logins whose token two requests refreshed at once
  calls, faults

vars == <<user, status, codes, tokens, req, shut, crossed, split, calls, faults>>

Status == {"none", "PENDING", "APPROVED", "REJECTED", "BLOCKED"}

\* password None: a random secret nobody knows.
User == [state : {"none", "live", "deleted"}, active : BOOLEAN, password : Passwords \cup {None}]

\* start is created_at, the time the transaction began.
Code == [used : BOOLEAN, expired : BOOLEAN, attempts : Nat, recent : BOOLEAN, start : Nat,
         wrong : Nat, logins : Nat]       \* history: its wrong tries and its logins

\* A token is live until it is revoked or expires; family is the login it stems from.
Token == [live : BOOLEAN, family : Nat]

\* The tokens there may be at first each stem from a login of its own.
ASSUME Accounts ==
  \A s \in Starts :
    /\ s.user \in User /\ s.status \in Status /\ s.tokens \in Seq(Token)
    /\ \A t \in DOMAIN s.tokens : s.tokens[t].family = t

Ops == {"none", "login", "request", "verify", "refresh", "logout", "password", "decide", "activate",
        "admin", "delete"}

NoUser == [state |-> "none", active |-> FALSE, password |-> None]

Idle ==
  [at |-> "idle", op |-> "none", user |-> NoUser, status |-> "none",
   seen |-> <<>>,        \* codes, as loaded
   code |-> 0, right |-> FALSE, token |-> 0, to |-> None, start |-> 0,
   writes |-> {},        \* the codes whose rows it has updated
   shut |-> FALSE,       \* history: shut when it began
   alone |-> TRUE]       \* history: no other request has changed the account meanwhile

Init ==
  /\ \E s \in Starts : user = s.user /\ status = s.status /\ tokens = s.tokens
  /\ codes = <<>> /\ shut = FALSE /\ crossed = FALSE /\ split = {}
  /\ req = [r \in Requests |-> Idle] /\ calls = 0 /\ faults = 0

-----------------------------------------------------------------------------
Known == user.state # "none"
Live == user.state = "live"

AccountOps == {"decide", "activate", "admin"}

Others(r, ops) == {q \in Requests \ {r} : req[q].at # "idle" /\ req[q].op \in ops}

Began(r, q) ==
  [req EXCEPT ![r] = [q EXCEPT !.at = "ready", !.user = user, !.status = status, !.seen = codes,
                               !.start = calls + 1, !.shut = shut,
                               !.alone = Others(r, AccountOps) = {}]]

\* get_db: a transaction of its own for each request.
Begin(r, q) ==
  /\ req[r].at = "idle" /\ calls < MaxCalls /\ calls' = calls + 1
  /\ req' = [x \in Requests |->
       IF x # r /\ q.op \in AccountOps THEN [Began(r, q)[x] EXCEPT !.alone = FALSE]
                                       ELSE Began(r, q)[x]]
  /\ UNCHANGED <<user, status, codes, tokens, shut, faults>>

End(r, op) == req[r].at = "ready" /\ req[r].op = op /\ req' = [req EXCEPT ![r] = Idle]

\* A request whose transaction ends without effect.
Abort(r) ==
  /\ req[r].at # "idle" /\ faults < MaxFaults /\ faults' = faults + 1
  /\ req' = [req EXCEPT ![r] = Idle]
  /\ UNCHANGED <<user, status, codes, tokens, shut, crossed, split, calls>>

-----------------------------------------------------------------------------
(* Accounts come from registration, an administrator or the sheet.         *)

Appear(active, st, password) ==
  /\ user.state = "none" /\ calls < MaxCalls /\ calls' = calls + 1
  /\ user' = [state |-> "live", active |-> active, password |-> password] /\ status' = st
  /\ UNCHANGED <<codes, tokens, req, shut, crossed, split, faults>>

Register(password) == Appear(FALSE, "PENDING", password)
CreateUser(active, password) == Appear(active, "none", password)
ImportMember == Appear(TRUE, "PENDING", None)
\* bulk_set_passwords, for a record without an account.
BulkCreateAccount(password) == Appear(TRUE, "APPROVED", password)

-----------------------------------------------------------------------------
(* Logins.                                                                 *)

Same == UNCHANGED <<crossed, split>>

\* _assert_user_approved.
Approved == user.active /\ status \in {"none", "APPROVED"}

Login(r, password) ==
  /\ Live /\ user.password = password /\ Approved
  /\ Begin(r, [Idle EXCEPT !.op = "login"]) /\ Same

\* With a token of Firebase for the number, by either of two calls.
FirebaseLogin(r) == Live /\ Approved /\ Begin(r, [Idle EXCEPT !.op = "login"]) /\ Same

Issued(rows, family) == Append(rows, [live |-> TRUE, family |-> family])

IssueTokens(r) ==
  /\ ~req[r].right /\ End(r, "login")
  /\ tokens' = Issued(tokens, Len(tokens) + 1)
  /\ UNCHANGED <<user, status, codes, shut, crossed, split, calls, faults>>

\* Swagger's login: of active accounts (of super admins), for an access token.
AdminToken(r, password) ==
  /\ Known /\ user.active /\ user.password = password
  /\ Begin(r, [Idle EXCEPT !.op = "login", !.right = TRUE]) /\ Same

IssueAccess(r) ==
  /\ req[r].right /\ End(r, "login")
  /\ UNCHANGED <<user, status, codes, tokens, shut, crossed, split, calls, faults>>

-----------------------------------------------------------------------------
(* One-time codes.                                                         *)

Recent == {c \in DOMAIN codes : codes[c].recent}

\* Faulty: one more than the limit.
WithinLimitOrAt == Cardinality(Recent) <= CodesPerHour
WithinLimit == Cardinality(Recent) < CodesPerHour

RequestCode(r) ==
  /\ Known /\ user.active /\ WithinLimit
  /\ crossed' = (crossed \/ Others(r, {"request"}) # {}) /\ UNCHANGED split
  /\ Begin(r, [Idle EXCEPT !.op = "request"])

Locked(c) == \E q \in Requests : c \in req[q].writes

\* The codes that are open are ended, and the new one goes out by SMS.
SendCode(r) ==
  LET open == {c \in DOMAIN codes : ~codes[c].used /\ ~codes[c].expired}
  IN  /\ req[r].at = "ready" /\ req[r].op = "request"
      /\ \A c \in open : ~Locked(c)
      /\ req' = [req EXCEPT ![r].at = "sent", ![r].writes = open]
      /\ UNCHANGED <<user, status, codes, tokens, shut, crossed, split, calls, faults>>

NewCode(r) ==
  [used |-> FALSE, expired |-> FALSE, attempts |-> 0, recent |-> TRUE, start |-> req[r].start,
   wrong |-> 0, logins |-> 0]

StoreCode(r) ==
  /\ req[r].at = "sent" /\ req' = [req EXCEPT ![r] = Idle]
  /\ codes' = Append([c \in DOMAIN codes |->
                        IF c \in req[r].writes THEN [codes[c] EXCEPT !.expired = TRUE] ELSE codes[c]],
                     NewCode(r))
  /\ UNCHANGED <<user, status, tokens, shut, crossed, split, calls, faults>>

Unused == {c \in DOMAIN codes : ~codes[c].used}

\* The newest code that has not been used.
VerifyCode(r, right) ==
  \E c \in Unused :
    /\ \A d \in Unused : codes[d].start <= codes[c].start
    /\ right => ~codes[c].expired /\ Known /\ user.active
    /\ crossed' = (crossed \/ \E q \in Others(r, {"verify"}) : req[q].code = c) /\ UNCHANGED split
    /\ Begin(r, [Idle EXCEPT !.op = "verify", !.code = c, !.right = right])

\* Faulty: the exception that answers rolls the count back.
UncountedTry(r) == [codes EXCEPT ![req[r].code].wrong = @ + 1]

\* Committed before the exception.
WrongTry(r) ==
  LET n == req[r].seen[req[r].code].attempts + 1
  IN  [codes EXCEPT ![req[r].code].wrong = @ + 1, ![req[r].code].attempts = n,
                    ![req[r].code].expired = @ \/ n >= MaxAttempts]

RefuseCode(r) ==
  /\ ~req[r].right /\ ~Locked(req[r].code) /\ End(r, "verify")
  /\ codes' = WrongTry(r)
  /\ UNCHANGED <<user, status, tokens, shut, crossed, split, calls, faults>>

AcceptCode(r) ==
  /\ req[r].right /\ ~Locked(req[r].code) /\ End(r, "verify")
  /\ codes' = [codes EXCEPT ![req[r].code].used = TRUE, ![req[r].code].logins = @ + 1]
  /\ tokens' = Issued(tokens, Len(tokens) + 1)
  /\ UNCHANGED <<user, status, shut, crossed, split, calls, faults>>

\* A code lasts some minutes, and counts for an hour.
CodesExpire ==
  /\ codes' = [c \in DOMAIN codes |-> [codes[c] EXCEPT !.expired = TRUE]] /\ codes' # codes
  /\ UNCHANGED <<user, status, tokens, req, shut, crossed, split, calls, faults>>
HourPasses ==
  /\ codes' = [c \in DOMAIN codes |-> [codes[c] EXCEPT !.expired = TRUE, !.recent = FALSE]]
  /\ codes' # codes
  /\ UNCHANGED <<user, status, tokens, req, shut, crossed, split, calls, faults>>

-----------------------------------------------------------------------------
(* Refresh tokens.                                                         *)

\* Faulty: the account is not looked at.
Renewable == Known
Refreshable == Known /\ user.active

Refresh(r, t) ==
  /\ tokens[t].live /\ Refreshable
  /\ split' = split \cup {tokens[t].family : q \in {p \in Others(r, {"refresh"}) : req[p].token = t}}
  /\ UNCHANGED crossed
  /\ Begin(r, [Idle EXCEPT !.op = "refresh", !.token = t])

\* Faulty: the token that was exchanged stays.
Kept(rows, t) == rows
Revoked(rows, t) == [rows EXCEPT ![t].live = FALSE]

RotateToken(r) ==
  /\ End(r, "refresh")
  /\ tokens' = Issued(Revoked(tokens, req[r].token), tokens[req[r].token].family)
  /\ UNCHANGED <<user, status, codes, shut, crossed, split, calls, faults>>

\* By a client whose access token is of an active account.
Logout(r, t) == Known /\ user.active /\ Begin(r, [Idle EXCEPT !.op = "logout", !.token = t]) /\ Same

RevokeToken(r) ==
  /\ End(r, "logout") /\ tokens' = Revoked(tokens, req[r].token)
  /\ UNCHANGED <<user, status, codes, shut, crossed, split, calls, faults>>

TokenExpires(t) ==
  /\ tokens[t].live /\ tokens' = Revoked(tokens, t)
  /\ UNCHANGED <<user, status, codes, req, shut, crossed, split, calls, faults>>

-----------------------------------------------------------------------------
(* Passwords.                                                              *)

SetPassword(r, password) == Begin(r, [Idle EXCEPT !.op = "password", !.to = password]) /\ Same

\* The current password is asked for only where the client sends it.
ChangePassword(r, current, password) ==
  /\ Known /\ user.active /\ current \in {None, user.password}
  /\ current = None \/ current # password
  /\ SetPassword(r, password)

\* By number alone, by a token of Firebase for it, by an administrator, or for all
\* accounts at once; tokens that were issued stay.
ForgotPassword(r, password) == Known /\ SetPassword(r, password)
ResetPassword(r, password) == Known /\ SetPassword(r, password)
AdminResetPassword(r, password) == Known /\ SetPassword(r, password)
BulkSetPasswords(r, password) == Known /\ SetPassword(r, password)

StorePassword(r) ==
  /\ End(r, "password") /\ user' = [user EXCEPT !.password = req[r].to]
  /\ UNCHANGED <<status, codes, tokens, shut, crossed, split, calls, faults>>

-----------------------------------------------------------------------------
(* Decisions.  A column is written where it differs from what was loaded.  *)

\* approve_member.
Decide(r, st) ==
  /\ Known /\ status # "none"
  /\ Begin(r, [Idle EXCEPT !.op = "decide", !.to = st]) /\ Same

\* PATCH /users/{id}.
SetActive(r, active) == Known /\ Begin(r, [Idle EXCEPT !.op = "activate", !.to = active]) /\ Same

\* The administrator a group is created with, or is assigned later.
DefaultGroupAdmin(r) == Known /\ Begin(r, [Idle EXCEPT !.op = "admin"]) /\ Same
AssignGroupAdmin(r) == Known /\ user.active /\ Begin(r, [Idle EXCEPT !.op = "admin"]) /\ Same

DeleteUser(r) == Known /\ Begin(r, [Idle EXCEPT !.op = "delete"]) /\ Same

Written(now, seen, new) == IF new = seen THEN now ELSE new

Write(r, st, active) ==
  /\ status' = Written(status, req[r].status, st)
  /\ user' = [user EXCEPT !.active = Written(@, req[r].user.active, active)]

StoreDecision(r) ==
  /\ End(r, "decide") /\ Write(r, req[r].to, req[r].to = "APPROVED")
  /\ shut' = (req[r].to # "APPROVED" /\ (shut \/ req[r].alone))
  /\ UNCHANGED <<codes, tokens, crossed, split, calls, faults>>

StoreActive(r) ==
  /\ End(r, "activate") /\ Write(r, req[r].status, req[r].to)
  /\ shut' = (~req[r].to /\ (shut \/ req[r].alone))
  /\ UNCHANGED <<codes, tokens, crossed, split, calls, faults>>

StoreAdmin(r) ==
  /\ End(r, "admin") /\ Write(r, "APPROVED", req[r].user.active)
  /\ UNCHANGED <<codes, tokens, shut, crossed, split, calls, faults>>

StoreDeletion(r) ==
  /\ End(r, "delete") /\ user' = [user EXCEPT !.state = "deleted"]
  /\ UNCHANGED <<status, codes, tokens, shut, crossed, split, calls, faults>>

-----------------------------------------------------------------------------
Next ==
  \/ \E p \in Passwords : Register(p) \/ \E b \in BOOLEAN : CreateUser(b, p)
  \/ \E p \in Passwords : BulkCreateAccount(p)
  \/ ImportMember \/ CodesExpire \/ HourPasses
  \/ \E t \in DOMAIN tokens : TokenExpires(t)
  \/ \E r \in Requests :
       \/ FirebaseLogin(r) \/ IssueTokens(r) \/ IssueAccess(r)
       \/ RequestCode(r) \/ SendCode(r) \/ StoreCode(r)
       \/ \E b \in BOOLEAN : VerifyCode(r, b) \/ SetActive(r, b)
       \/ RefuseCode(r) \/ AcceptCode(r)
       \/ \E t \in DOMAIN tokens : Refresh(r, t) \/ Logout(r, t)
       \/ RotateToken(r) \/ RevokeToken(r)
       \/ \E p \in Passwords :
            \/ Login(r, p) \/ AdminToken(r, p)
            \/ \E c \in Passwords \cup {None} : ChangePassword(r, c, p)
            \/ ForgotPassword(r, p) \/ ResetPassword(r, p)
            \/ AdminResetPassword(r, p) \/ BulkSetPasswords(r, p)
       \/ StorePassword(r)
       \/ \E st \in {"APPROVED", "REJECTED", "BLOCKED"} : Decide(r, st)
       \/ DefaultGroupAdmin(r) \/ AssignGroupAdmin(r) \/ DeleteUser(r)
       \/ StoreDecision(r) \/ StoreActive(r) \/ StoreAdmin(r) \/ StoreDeletion(r)
       \/ Abort(r)

Spec == Init /\ [][Next]_vars

-----------------------------------------------------------------------------
(* Properties.                                                             *)

\* Types; and the limit of codes per hour, which every request under way may
\* pass at once, but no more (request_otp counts, then inserts).
TypeOK ==
  /\ user \in User /\ status \in Status
  /\ codes \in Seq(Code) /\ tokens \in Seq(Token)
  /\ \A r \in Requests :
       /\ req[r].at \in {"idle", "ready", "sent"} /\ req[r].op \in Ops
       /\ req[r].writes \subseteq DOMAIN codes
  /\ Cardinality(Recent) < CodesPerHour + Cardinality(Requests)

\* A login has one live refresh token, however often it was rotated (refresh),
\* unless two requests exchanged one at once.
OneLive ==
  \A t, u \in DOMAIN tokens :
    (tokens[t].live /\ tokens[u].live
     /\ tokens[t].family = tokens[u].family /\ tokens[t].family \notin split) => t = u

\* The code that opens the account (verify_otp_login) is the last one that was
\* sent, has not opened it before, and was not tried in vain as often as
\* MaxAttempts, unless requests for codes or tries of one overlapped.
CodeServes ==
  \A r \in Requests :
    (req[r].at = "ready" /\ req[r].op = "verify" /\ req[r].right /\ ~crossed) =>
      LET code == req[r].seen[req[r].code]
      IN  /\ code.logins = 0 /\ code.wrong < MaxAttempts
          /\ \A d \in DOMAIN req[r].seen : req[r].seen[d].start <= code.start

\* An account that is shut (approve_member: REJECTED or BLOCKED; PATCH
\* /users/{id}: not active) is not let in, by password, code, Firebase or a
\* token issued earlier, until it is opened again.  A decision that others
\* overlap may leave the account open.
ShutOut ==
  \A r \in Requests :
    req[r].at = "ready" /\ req[r].op \in {"login", "verify", "refresh"} /\ req[r].shut =>
      req[r].op = "verify" /\ ~req[r].right
=============================================================================
