--------------------------- MODULE SessionsProofs ---------------------------
(***************************************************************************)
(* Safety of logins, one-time codes and refresh tokens for every set of    *)
(* requests and passwords, every limit, and every account there may be at  *)
(* first.                                                                  *)
(***************************************************************************)
EXTENDS Sessions, FiniteSetTheorems, SequenceTheorems, TLAPS

-----------------------------------------------------------------------------
(* Types.                                                                  *)

\* What a request has to write, by its kind.
Argument(q) ==
  /\ q.op = "password" => q.to \in Passwords
  /\ q.op = "decide" => q.to \in {"APPROVED", "REJECTED", "BLOCKED"}
  /\ q.op = "activate" => q.to \in BOOLEAN

Request ==
  [at : {"idle", "ready", "sent"}, op : Ops, user : User, status : Status, seen : Seq(Code),
   code : Nat, right : BOOLEAN, token : Nat, to : Passwords \cup {None} \cup Status \cup BOOLEAN,
   start : Nat, writes : SUBSET Nat, shut : BOOLEAN, alone : BOOLEAN]

\* The rows a request goes by exist, of n codes and m tokens: none is ever deleted.
Refers(q, n, m) ==
  /\ q.op = "verify" => q.code \in DOMAIN q.seen
  /\ Len(q.seen) <= n /\ q.writes \subseteq 1 .. n
  /\ q.op \in {"refresh", "logout"} => q.token \in 1 .. m
  /\ q.at = "sent" => q.op = "request"
  /\ q.at = "idle" <=> q.op = "none"

\* The requests that are about to store a code.
Asking == {r \in Requests : req[r].op = "request"}

TypeInv ==
  /\ user \in User /\ status \in Status
  /\ codes \in Seq(Code) /\ tokens \in Seq(Token)
  /\ req \in [Requests -> Request]
  /\ \A r \in Requests : Argument(req[r]) /\ Refers(req[r], Len(codes), Len(tokens))
  /\ shut \in BOOLEAN /\ crossed \in BOOLEAN /\ split \subseteq Nat /\ calls \in Nat

\* The codes of the hour, with those that are to come.
RecentInv == Cardinality(Recent) + Cardinality(Asking) < CodesPerHour + Cardinality(Requests)

-----------------------------------------------------------------------------
(* The parts of the inductive invariant.                                   *)

\* A shut account is not active; a decision nobody overlaps sees the account
\* as it is; and there is an account where one is decided on.
ShutInv ==
  /\ shut => ~user.active
  /\ shut => Known
  /\ \A r \in Requests : req[r].op \in AccountOps =>
       /\ Known
       /\ req[r].alone =>
            /\ req[r].user.active = user.active
            /\ \A q \in Requests \ {r} : req[q].op \notin AccountOps

Family(r) == tokens[req[r].token].family

\* Of a login whose token was not split, one request at most exchanges a
\* token, and that one is the only one that can be live.
TokenInv ==
  /\ \A t \in DOMAIN tokens : tokens[t].family \in DOMAIN tokens
  /\ OneLive
  /\ \A r \in Requests : req[r].op = "refresh" /\ Family(r) \notin split =>
       /\ \A t \in DOMAIN tokens :
            tokens[t].live /\ tokens[t].family = Family(r) => t = req[r].token
       /\ \A q \in Requests \ {r} : req[q].op = "refresh" => Family(q) # Family(r)

Closed(code) == code.used \/ code.expired

\* Every code: it opens the account once, and ends with its last try.
CodeInv ==
  /\ \A c \in DOMAIN codes :
       /\ ~codes[c].used => codes[c].logins = 0
       /\ codes[c].attempts >= MaxAttempts => codes[c].expired
       /\ codes[c].start <= calls
  /\ \A r \in Requests : req[r].start <= calls

\* While no two requests for codes and no two tries of one overlap: all wrong
\* tries are counted, codes are stored in the order they were asked for, and
\* only the last one is open.
OrderInv ==
  ~crossed =>
    /\ \A c \in DOMAIN codes : codes[c].wrong = codes[c].attempts
    /\ \A c, d \in DOMAIN codes : c < d => codes[c].start <= codes[d].start /\ Closed(codes[c])
    /\ \A r \in Requests : req[r].op = "request" =>
         /\ \A c \in DOMAIN codes : codes[c].start <= req[r].start
         /\ req[r].at = "sent" => \A c \in DOMAIN codes : Closed(codes[c]) \/ c \in req[r].writes
         /\ \A q \in Requests \ {r} : req[q].op # "request"
    /\ \A r \in Requests : req[r].op = "verify" =>
         /\ req[r].seen[req[r].code].attempts = codes[req[r].code].attempts
         /\ \A q \in Requests \ {r} : req[q].op = "verify" => req[q].code # req[r].code

IInv == TypeInv /\ RecentInv /\ ShutInv /\ ShutOut /\ TokenInv /\ CodeInv /\ OrderInv /\ CodeServes

-----------------------------------------------------------------------------
(* A request begins in one way, whatever it asks for.                      *)

\* What the calls check before they begin, and what they leave alone.
Begins(r, q) ==
  /\ Begin(r, q) /\ q \in Request /\ Argument(q) /\ q.op # "none" /\ q.writes = {}
  /\ q.op \in AccountOps => Known
  /\ q.op \in {"login", "refresh"} \/ (q.op = "verify" /\ q.right) => user.active
  /\ IF q.op = "request" THEN WithinLimit /\ crossed' = (crossed \/ Others(r, {"request"}) # {})
     ELSE IF q.op = "verify"
       THEN /\ q.code \in Unused /\ \A d \in Unused : codes[d].start <= codes[q.code].start
            /\ q.right => ~codes[q.code].expired
            /\ crossed' = (crossed \/ \E p \in Others(r, {"verify"}) : req[p].code = q.code)
       ELSE crossed' = crossed
  /\ q.op \in {"refresh", "logout"} => q.token \in DOMAIN tokens
  /\ IF q.op = "refresh"
       THEN /\ tokens[q.token].live
            /\ split' = split \cup {tokens[q.token].family :
                                      x \in {p \in Others(r, {"refresh"}) : req[p].token = q.token}}
       ELSE split' = split

\* The calls that begin a request.
Call(r) ==
  \/ FirebaseLogin(r) \/ RequestCode(r) \/ DefaultGroupAdmin(r) \/ AssignGroupAdmin(r) \/ DeleteUser(r)
  \/ \E b \in BOOLEAN : VerifyCode(r, b) \/ SetActive(r, b)
  \/ \E t \in DOMAIN tokens : Refresh(r, t) \/ Logout(r, t)
  \/ \E p \in Passwords :
       \/ Login(r, p) \/ AdminToken(r, p)
       \/ \E c \in Passwords \cup {None} : ChangePassword(r, c, p)
       \/ ForgotPassword(r, p) \/ ResetPassword(r, p)
       \/ AdminResetPassword(r, p) \/ BulkSetPasswords(r, p)
  \/ \E st \in {"APPROVED", "REJECTED", "BLOCKED"} : Decide(r, st)

LEMMA IdleType == Idle \in Request
  BY DEF Idle, NoUser, Request, User, Status, Ops

LEMMA CallBegins ==
  ASSUME TypeInv, NEW r \in Requests, Call(r)
  PROVE  \E q \in Request : Begins(r, q)
<1> DEFINE Plain(op) == [Idle EXCEPT !.op = op]
           Admin == [Idle EXCEPT !.op = "login", !.right = TRUE]
           Try(c, b) == [Idle EXCEPT !.op = "verify", !.code = c, !.right = b]
           Of(op, t) == [Idle EXCEPT !.op = op, !.token = t]
           With(op, to) == [Idle EXCEPT !.op = op, !.to = to]
<1> USE IdleType DEF Same, Argument, AccountOps
<1>1. CASE FirebaseLogin(r) \/ \E p \in Passwords : Login(r, p)
  <2>1. Plain("login") \in Request /\ Plain("login").op = "login" /\ Plain("login").writes = {}
    BY DEF Idle, NoUser, Request, Ops, User, Status
  <2>2. Begins(r, Plain("login"))
    BY <1>1, <2>1 DEF Begins, FirebaseLogin, Login, Approved
  <2> QED
    BY <2>1, <2>2
<1>2. CASE \E p \in Passwords : AdminToken(r, p)
  <2>1. Admin \in Request /\ Admin.op = "login" /\ Admin.writes = {}
    BY DEF Idle, NoUser, Request, Ops, User, Status
  <2>2. Begins(r, Admin)
    BY <1>2, <2>1 DEF Begins, AdminToken
  <2> QED
    BY <2>1, <2>2
<1>3. CASE RequestCode(r)
  <2>1. Plain("request") \in Request /\ Plain("request").op = "request" /\ Plain("request").writes = {}
    BY DEF Idle, NoUser, Request, Ops, User, Status
  <2>2. Begins(r, Plain("request"))
    BY <1>3, <2>1 DEF Begins, RequestCode
  <2> QED
    BY <2>1, <2>2
<1>4. CASE DefaultGroupAdmin(r) \/ AssignGroupAdmin(r)
  <2>1. Plain("admin") \in Request /\ Plain("admin").op = "admin" /\ Plain("admin").writes = {}
    BY DEF Idle, NoUser, Request, Ops, User, Status
  <2>2. Begins(r, Plain("admin"))
    BY <1>4, <2>1 DEF Begins, DefaultGroupAdmin, AssignGroupAdmin
  <2> QED
    BY <2>1, <2>2
<1>5. CASE DeleteUser(r)
  <2>1. Plain("delete") \in Request /\ Plain("delete").op = "delete" /\ Plain("delete").writes = {}
    BY DEF Idle, NoUser, Request, Ops, User, Status
  <2>2. Begins(r, Plain("delete"))
    BY <1>5, <2>1 DEF Begins, DeleteUser
  <2> QED
    BY <2>1, <2>2
<1>6. ASSUME NEW b \in BOOLEAN, VerifyCode(r, b) PROVE \E q \in Request : Begins(r, q)
  <2>1. PICK c \in Unused :
          /\ \A d \in Unused : codes[d].start <= codes[c].start
          /\ b => ~codes[c].expired /\ Known /\ user.active
          /\ crossed' = (crossed \/ \E q \in Others(r, {"verify"}) : req[q].code = c)
          /\ split' = split /\ Begin(r, Try(c, b))
    BY <1>6 DEF VerifyCode
  <2>2. c \in Nat
    BY DEF Unused, TypeInv
  <2>3. /\ Try(c, b) \in Request /\ Try(c, b).op = "verify" /\ Try(c, b).writes = {}
        /\ Try(c, b).code = c /\ Try(c, b).right = b
    BY ZenonT(60), <2>2 DEF Idle, NoUser, Request, Ops, User, Status
  <2>4. Begins(r, Try(c, b))
    BY <2>1, <2>3 DEF Begins
  <2> QED
    BY <2>3, <2>4
<1>7. ASSUME NEW b \in BOOLEAN, SetActive(r, b) PROVE \E q \in Request : Begins(r, q)
  <2>1. /\ With("activate", b) \in Request /\ With("activate", b).op = "activate"
        /\ With("activate", b).writes = {} /\ With("activate", b).to = b
    BY DEF Idle, NoUser, Request, Ops, User, Status
  <2>2. Begins(r, With("activate", b))
    BY <1>7, <2>1 DEF Begins, SetActive
  <2> QED
    BY <2>1, <2>2
<1>8. ASSUME NEW t \in DOMAIN tokens, Refresh(r, t) \/ Logout(r, t)
      PROVE  \E q \in Request : Begins(r, q)
  <2>1. ASSUME NEW op \in {"refresh", "logout"}
        PROVE  /\ Of(op, t) \in Request /\ Of(op, t).op = op /\ Of(op, t).writes = {}
               /\ Of(op, t).token = t
    <3>1. t \in Nat
      BY DEF TypeInv
    <3> QED
      BY <3>1 DEF Idle, NoUser, Request, Ops, User, Status
  <2>2. CASE Refresh(r, t)
    <3>1. Begins(r, Of("refresh", t))
      BY <2>1, <2>2 DEF Begins, Refresh, Refreshable
    <3> QED
      BY <2>1, <3>1
  <2>3. CASE Logout(r, t)
    <3>1. Begins(r, Of("logout", t))
      BY <2>1, <2>3 DEF Begins, Logout
    <3> QED
      BY <2>1, <3>1
  <2> QED
    BY <1>8, <2>2, <2>3
<1>9. ASSUME NEW p \in Passwords, SetPassword(r, p) PROVE \E q \in Request : Begins(r, q)
  <2>1. /\ With("password", p) \in Request /\ With("password", p).op = "password"
        /\ With("password", p).writes = {} /\ With("password", p).to = p
    BY DEF Idle, NoUser, Request, Ops, User, Status
  <2>2. Begins(r, With("password", p))
    BY <1>9, <2>1 DEF Begins, SetPassword
  <2> QED
    BY <2>1, <2>2
<1>10. ASSUME NEW st \in {"APPROVED", "REJECTED", "BLOCKED"}, Decide(r, st)
       PROVE  \E q \in Request : Begins(r, q)
  <2>1. /\ With("decide", st) \in Request /\ With("decide", st).op = "decide"
        /\ With("decide", st).writes = {} /\ With("decide", st).to = st
    BY DEF Idle, NoUser, Request, Ops, User, Status
  <2>2. Begins(r, With("decide", st))
    BY <1>10, <2>1 DEF Begins, Decide
  <2> QED
    BY <2>1, <2>2
<1> QED
  BY <1>1, <1>2, <1>3, <1>4, <1>5, <1>6, <1>7, <1>8, <1>9, <1>10
  DEF Call, ChangePassword, ForgotPassword, ResetPassword, AdminResetPassword, BulkSetPasswords

\* The request stands as asked, with the rows it has loaded; the others only
\* learn that a decision has overlapped theirs.
LEMMA BeginEffect ==
  ASSUME TypeInv, NEW r \in Requests, NEW q \in Request, Begins(r, q)
  PROVE  /\ req[r].at = "idle" /\ calls' = calls + 1
         /\ UNCHANGED <<user, status, codes, tokens, shut>>
         /\ req' \in [Requests -> Request]
         /\ req'[r] = [q EXCEPT !.at = "ready", !.user = user, !.status = status, !.seen = codes,
                                !.start = calls + 1, !.shut = shut,
                                !.alone = Others(r, AccountOps) = {}]
         /\ \A x \in Requests \ {r} :
              req'[x] = [req[x] EXCEPT !.alone = req[x].alone /\ q.op \notin AccountOps]
<1> USE DEF TypeInv
<1>1. /\ req[r].at = "idle" /\ calls' = calls + 1 /\ UNCHANGED <<user, status, codes, tokens, shut>>
      /\ req' = [x \in Requests |->
                   IF x # r /\ q.op \in AccountOps THEN [Began(r, q)[x] EXCEPT !.alone = FALSE]
                                                   ELSE Began(r, q)[x]]
  BY DEF Begins, Begin
<1> DEFINE new == [q EXCEPT !.at = "ready", !.user = user, !.status = status, !.seen = codes,
                            !.start = calls + 1, !.shut = shut,
                            !.alone = Others(r, AccountOps) = {}]
<1>2. Began(r, q) = [req EXCEPT ![r] = new]
  BY DEF Began
<1>3. new \in Request
  <2>1. \A b \in BOOLEAN, n \in Nat :
          [q EXCEPT !.at = "ready", !.user = user, !.status = status, !.seen = codes,
                    !.start = n, !.shut = shut, !.alone = b] \in Request
    BY DEF Request
  <2>2. calls + 1 \in Nat /\ (Others(r, AccountOps) = {}) \in BOOLEAN
    OBVIOUS
  <2> QED
    BY <2>1, <2>2
<1> HIDE DEF new
<1>4. req'[r] = new
  BY <1>1, <1>2
<1>5. ASSUME NEW x \in Requests \ {r}
      PROVE  req'[x] = [req[x] EXCEPT !.alone = req[x].alone /\ q.op \notin AccountOps]
  <2>1. Began(r, q)[x] = req[x]
    BY <1>2
  <2>2. req[x] \in Request
    OBVIOUS
  <2>3. CASE q.op \in AccountOps
    BY <1>1, <2>1, <2>2, <2>3
  <2>4. CASE q.op \notin AccountOps
    BY <1>1, <2>1, <2>2, <2>4 DEF Request
  <2> QED
    BY <2>3, <2>4
<1>6. \A x \in Requests \ {r} : [req[x] EXCEPT !.alone = req[x].alone /\ q.op \notin AccountOps] \in Request
  BY DEF Request
<1>7. req' \in [Requests -> Request]
  <2>1. ASSUME NEW x \in Requests
        PROVE  req'[x] \in Request
    <3>1. CASE x = r
      BY <1>3, <1>4, <3>1
    <3>2. CASE x # r
      <4>1. req'[x] = [req[x] EXCEPT !.alone = req[x].alone /\ q.op \notin AccountOps]
        BY <1>5, <3>2
      <4> HIDE DEF Request
      <4> QED
        BY <1>6, <3>2, <4>1
    <3> QED
      BY <3>1, <3>2
  <2> QED
    BY <1>1, <2>1
<1> QED
  BY <1>1, <1>4, <1>5, <1>7 DEF new

-----------------------------------------------------------------------------
(* Types.                                                                  *)

LEMMA InitTypes == Init => TypeInv
<1> SUFFICES ASSUME Init PROVE TypeInv
  OBVIOUS
<1>1. PICK s \in Starts : user = s.user /\ status = s.status /\ tokens = s.tokens
  BY DEF Init
<1>2. user \in User /\ status \in Status /\ tokens \in Seq(Token)
  BY <1>1, Accounts
<1>3. req \in [Requests -> Request] /\ \A r \in Requests : req[r] = Idle
  BY IdleType DEF Init
<1>4. codes \in Seq(Code) /\ Len(codes) = 0
  BY EmptySeq DEF Init
<1>5. Argument(Idle) /\ Refers(Idle, Len(codes), Len(tokens))
  BY <1>4 DEF Argument, Refers, Idle
<1> QED
  BY <1>2, <1>3, <1>4, <1>5 DEF Init, TypeInv

\* A token and a code that is stored keep their places in their tables.
LEMMA IssuedRows ==
  ASSUME NEW rows \in Seq(Token), NEW f \in Nat
  PROVE  /\ Issued(rows, f) \in Seq(Token) /\ Len(Issued(rows, f)) = Len(rows) + 1
         /\ DOMAIN Issued(rows, f) = DOMAIN rows \cup {Len(rows) + 1}
         /\ Issued(rows, f)[Len(rows) + 1] = [live |-> TRUE, family |-> f]
         /\ \A t \in DOMAIN rows : Issued(rows, f)[t] = rows[t]
<1>1. [live |-> TRUE, family |-> f] \in Token
  BY DEF Token
<1>2. Len(rows) \in Nat /\ DOMAIN rows = 1 .. Len(rows)
  OBVIOUS
<1> QED
  BY <1>1, <1>2, AppendProperties DEF Issued

LEMMA RevokedRows ==
  ASSUME NEW rows \in Seq(Token), NEW t \in DOMAIN rows
  PROVE  /\ Revoked(rows, t) \in Seq(Token) /\ Len(Revoked(rows, t)) = Len(rows)
         /\ DOMAIN Revoked(rows, t) = DOMAIN rows
         /\ \A u \in DOMAIN rows :
              /\ Revoked(rows, t)[u].family = rows[u].family
              /\ Revoked(rows, t)[u].live = (rows[u].live /\ u # t)
<1>1. [rows[t] EXCEPT !.live = FALSE] \in Token
  <2>1. rows[t] \in Token
    OBVIOUS
  <2> QED
    BY <2>1 DEF Token
<1>2. /\ Revoked(rows, t) \in Seq(Token) /\ Len(Revoked(rows, t)) = Len(rows)
      /\ DOMAIN Revoked(rows, t) = DOMAIN rows
      /\ \A u \in DOMAIN rows :
           Revoked(rows, t)[u] = IF u = t THEN [rows[t] EXCEPT !.live = FALSE] ELSE rows[u]
  BY <1>1, ExceptSeq DEF Revoked
<1>3. \A u \in DOMAIN rows : rows[u] \in Token
  OBVIOUS
<1> QED
  BY <1>2, <1>3 DEF Token

LEMMA ReferStill ==
  ASSUME NEW q \in Request, NEW n \in Nat, NEW m \in Nat, NEW k \in Nat, NEW l \in Nat,
         n <= k, m <= l, Refers(q, n, m)
  PROVE  Refers(q, k, l)
<1>1. Len(q.seen) \in Nat
  BY DEF Request
<1>2. 1 .. n \subseteq 1 .. k /\ 1 .. m \subseteq 1 .. l
  OBVIOUS
<1> QED
  BY <1>1, <1>2 DEF Refers

\* Where the rows are kept and at most one request has ended, the requests are typed.
Stays ==
  /\ user' \in User /\ status' \in Status
  /\ codes' \in Seq(Code) /\ Len(codes) <= Len(codes')
  /\ tokens' \in Seq(Token) /\ Len(tokens) <= Len(tokens')
  /\ req' \in [Requests -> Request] /\ \A r \in Requests : req'[r] = req[r] \/ req'[r] = Idle
  /\ shut' \in BOOLEAN /\ UNCHANGED <<crossed, split>> /\ calls' \in Nat

LEMMA KeptTypes ==
  ASSUME TypeInv, Stays
  PROVE  TypeInv'
<1> USE DEF TypeInv, Stays
<1> DEFINE n == Len(codes')
           m == Len(tokens')
<1>2. ASSUME NEW r \in Requests PROVE Argument(req[r]) /\ Refers(req[r], n, m)
  BY ReferStill
<1>3. Argument(Idle) /\ Refers(Idle, n, m)
  BY DEF Argument, Refers, Idle
<1>4. \A r \in Requests : Argument(req'[r]) /\ Refers(req'[r], n, m)
  BY <1>2, <1>3
<1> QED
  BY <1>4

LEMMA CodeTypes ==
  \A d \in Code :
    /\ d.attempts + 1 \in Nat
    /\ [d EXCEPT !.used = TRUE, !.logins = @ + 1] \in Code
    /\ [d EXCEPT !.expired = TRUE] \in Code
    /\ \A n \in Nat, b \in BOOLEAN : [d EXCEPT !.wrong = @ + 1, !.attempts = n, !.expired = b] \in Code
    /\ \A b \in BOOLEAN : [d EXCEPT !.expired = TRUE, !.recent = b] \in Code
<1> TAKE d \in Code
<1>1. d.attempts + 1 \in Nat /\ d.wrong + 1 \in Nat /\ d.logins + 1 \in Nat
  BY DEF Code
<1>2. [d EXCEPT !.used = TRUE, !.logins = @ + 1] \in Code /\ [d EXCEPT !.expired = TRUE] \in Code
  BY <1>1 DEF Code
<1>3. ASSUME NEW n \in Nat, NEW b \in BOOLEAN
      PROVE  [d EXCEPT !.wrong = @ + 1, !.attempts = n, !.expired = b] \in Code
  BY <1>1 DEF Code
<1>4. ASSUME NEW b \in BOOLEAN PROVE [d EXCEPT !.expired = TRUE, !.recent = b] \in Code
  BY DEF Code
<1> QED
  BY <1>1, <1>2, <1>3, <1>4

LEMMA SeqOfFunction ==
  ASSUME NEW S, NEW n \in Nat, NEW f \in [1 .. n -> S]
  PROVE  f \in Seq(S) /\ Len(f) = n
<1>1. f \in Seq(S)
  BY SeqDef
<1>2. Len(f) \in Nat /\ 1 .. Len(f) = 1 .. n
  BY <1>1, LenProperties
<1> QED
  BY <1>1, <1>2

\* What the refusal of a wrong try makes of the codes; and what storing one does.
CodeAt(rows, c, d) == /\ rows \in Seq(Code) /\ Len(rows) = Len(codes)
                      /\ \A e \in DOMAIN codes : rows[e] = IF e = c THEN d ELSE codes[e]

LEMMA WrongTryEffect ==
  ASSUME TypeInv, NEW r \in Requests, req[r].op = "verify"
  PROVE  LET c == req[r].code
             n == req[r].seen[c].attempts + 1
         IN  /\ c \in DOMAIN codes /\ n \in Nat
             /\ CodeAt(WrongTry(r), c, [codes[c] EXCEPT !.wrong = @ + 1, !.attempts = n,
                                                        !.expired = @ \/ n >= MaxAttempts])
<1> DEFINE c == req[r].code
           n == req[r].seen[c].attempts + 1
<1> USE DEF TypeInv
<1>1. c \in DOMAIN req[r].seen /\ Len(req[r].seen) <= Len(codes) /\ req[r].seen \in Seq(Code)
  BY DEF Refers, Request
<1>2. c \in DOMAIN codes /\ codes[c] \in Code /\ req[r].seen[c] \in Code
  BY <1>1
<1>3. n \in Nat
  BY <1>2, CodeTypes
<1> DEFINE new == [codes[c] EXCEPT !.wrong = @ + 1, !.attempts = n, !.expired = @ \/ n >= MaxAttempts]
<1>4. new \in Code
  <2>1. (codes[c].expired \/ n >= MaxAttempts) \in BOOLEAN
    BY <1>2, <1>3 DEF Code
  <2> HIDE DEF n, c
  <2> QED
    BY <1>2, <1>3, <2>1, CodeTypes
<1>5. WrongTry(r) = [codes EXCEPT ![c] = new]
  BY <1>2, <1>3, Parameters DEF WrongTry, Code
<1> HIDE DEF new, n, c
<1>6. CodeAt(WrongTry(r), c, new)
  BY <1>2, <1>4, <1>5, ExceptSeq DEF CodeAt
<1> QED
  BY <1>2, <1>3, <1>6 DEF new, n, c

LEMMA AcceptEffect ==
  ASSUME TypeInv, NEW r \in Requests, AcceptCode(r)
  PROVE  LET c == req[r].code
         IN  /\ c \in DOMAIN codes
             /\ CodeAt(codes', c, [codes[c] EXCEPT !.used = TRUE, !.logins = @ + 1])
<1> DEFINE c == req[r].code
<1> USE DEF TypeInv
<1>1. c \in DOMAIN req[r].seen /\ Len(req[r].seen) <= Len(codes) /\ req[r].seen \in Seq(Code)
  BY DEF Refers, Request, AcceptCode, End
<1>2. c \in DOMAIN codes /\ codes[c] \in Code
  BY <1>1
<1> DEFINE new == [codes[c] EXCEPT !.used = TRUE, !.logins = @ + 1]
<1>3. new \in Code
  BY <1>2, CodeTypes
<1>4. codes' = [codes EXCEPT ![c] = new]
  BY <1>2 DEF AcceptCode, Code
<1> HIDE DEF new, c
<1>5. CodeAt(codes', c, new)
  BY <1>2, <1>3, <1>4, ExceptSeq DEF CodeAt
<1> QED
  BY <1>2, <1>5 DEF new, c

LEMMA StoreEffect ==
  ASSUME TypeInv, NEW r \in Requests, StoreCode(r)
  PROVE  /\ codes' \in Seq(Code) /\ Len(codes') = Len(codes) + 1
         /\ codes'[Len(codes) + 1] = NewCode(r)
         /\ \A c \in DOMAIN codes :
              codes'[c] = IF c \in req[r].writes THEN [codes[c] EXCEPT !.expired = TRUE] ELSE codes[c]
<1> USE DEF TypeInv
<1> DEFINE rows == [c \in DOMAIN codes |-> IF c \in req[r].writes THEN [codes[c] EXCEPT !.expired = TRUE]
                                                                  ELSE codes[c]]
<1>1. rows \in Seq(Code) /\ Len(rows) = Len(codes)
  <2>1. ASSUME NEW c \in DOMAIN codes
        PROVE  (IF c \in req[r].writes THEN [codes[c] EXCEPT !.expired = TRUE] ELSE codes[c]) \in Code
    <3>1. codes[c] \in Code
      OBVIOUS
    <3> QED
      BY <3>1 DEF Code
  <2> QED
    BY <2>1, SeqOfFunction
<1>2. NewCode(r) \in Code
  <2>1. req[r].start \in Nat
    BY DEF Request
  <2> QED
    BY <2>1 DEF NewCode, Code
<1>3. codes' = Append(rows, NewCode(r))
  BY DEF StoreCode
<1> QED
  BY <1>1, <1>2, <1>3, AppendProperties

LEMMA PassEffect ==
  ASSUME TypeInv, CodesExpire \/ HourPasses
  PROVE  /\ codes' \in Seq(Code) /\ Len(codes') = Len(codes)
         /\ \A c \in DOMAIN codes :
              codes'[c] = [codes[c] EXCEPT !.expired = TRUE, !.recent = @ /\ ~HourPasses]
<1> USE DEF TypeInv
<1>1. \A c \in DOMAIN codes : codes[c] \in Code
  OBVIOUS
<1>2. Len(codes) \in Nat /\ DOMAIN codes = 1 .. Len(codes)
  OBVIOUS
<1> DEFINE old(c) == [codes[c] EXCEPT !.expired = TRUE]
           late(c) == [codes[c] EXCEPT !.expired = TRUE, !.recent = FALSE]
<1>3. \A c \in 1 .. Len(codes) : old(c) \in Code /\ late(c) \in Code
  BY <1>1, <1>2, CodeTypes
<1>4. \A c \in 1 .. Len(codes) :
        /\ old(c) = [codes[c] EXCEPT !.expired = TRUE, !.recent = @ /\ TRUE]
        /\ late(c) = [codes[c] EXCEPT !.expired = TRUE, !.recent = @ /\ FALSE]
  BY <1>1, <1>2 DEF Code
<1>5. CASE CodesExpire /\ ~HourPasses
  <2>1. codes' = [c \in 1 .. Len(codes) |-> old(c)]
    BY <1>2, <1>5 DEF CodesExpire
  <2>2. codes' \in [1 .. Len(codes) -> Code]
    BY <1>3, <2>1
  <2>3. codes' \in Seq(Code) /\ Len(codes') = Len(codes)
    BY <1>2, <2>2, SeqOfFunction
  <2> QED
    BY <1>2, <1>4, <1>5, <2>1, <2>3
<1>6. CASE HourPasses
  <2>1. codes' = [c \in 1 .. Len(codes) |-> late(c)]
    BY <1>2, <1>6 DEF HourPasses
  <2>2. codes' \in [1 .. Len(codes) -> Code]
    BY <1>3, <2>1
  <2>3. codes' \in Seq(Code) /\ Len(codes') = Len(codes)
    BY <1>2, <2>2, SeqOfFunction
  <2> QED
    BY <1>2, <1>4, <1>6, <2>1, <2>3
<1> QED
  BY <1>5, <1>6

\* The steps that begin no request.
Opening == \/ \E p \in Passwords : Register(p) \/ \E b \in BOOLEAN : CreateUser(b, p)
           \/ \E p \in Passwords : BulkCreateAccount(p)
           \/ ImportMember

Step(r) ==
  \/ IssueTokens(r) \/ IssueAccess(r) \/ SendCode(r) \/ StoreCode(r) \/ RefuseCode(r) \/ AcceptCode(r)
  \/ RotateToken(r) \/ RevokeToken(r) \/ StorePassword(r)
  \/ StoreDecision(r) \/ StoreActive(r) \/ StoreAdmin(r) \/ StoreDeletion(r) \/ Abort(r)

LEMMA Steps ==
  Next <=> \/ Opening \/ CodesExpire \/ HourPasses
           \/ \E t \in DOMAIN tokens : TokenExpires(t)
           \/ \E r \in Requests : Call(r) \/ Step(r)
  BY DEF Next, Opening, Call, Step

LEMMA OpeningEffect ==
  ASSUME Opening
  PROVE  /\ user.state = "none" /\ user' \in User /\ user'.state = "live" /\ status' \in Status
         /\ calls' = calls + 1 /\ UNCHANGED <<codes, tokens, req, shut, crossed, split>>
<1>1. PICK a \in BOOLEAN, st \in {"none", "PENDING", "APPROVED"}, p \in Passwords \cup {None} :
        Appear(a, st, p)
  BY DEF Opening, Register, CreateUser, BulkCreateAccount, ImportMember
<1> QED
  BY <1>1 DEF Appear, User, Status

LEMMA NextTypes ==
  ASSUME TypeInv, [Next]_vars
  PROVE  TypeInv'
<1>t. /\ user \in User /\ status \in Status /\ codes \in Seq(Code) /\ tokens \in Seq(Token)
      /\ req \in [Requests -> Request]
      /\ \A r \in Requests : Argument(req[r]) /\ Refers(req[r], Len(codes), Len(tokens))
      /\ shut \in BOOLEAN /\ crossed \in BOOLEAN /\ split \subseteq Nat /\ calls \in Nat
  BY DEF TypeInv
<1>l. /\ Len(codes) \in Nat /\ DOMAIN codes = 1 .. Len(codes)
      /\ Len(tokens) \in Nat /\ DOMAIN tokens = 1 .. Len(tokens)
  BY <1>t
<1>g. /\ Issued(tokens, Len(tokens) + 1) \in Seq(Token)
      /\ Len(Issued(tokens, Len(tokens) + 1)) = Len(tokens) + 1
  <2>1. Len(tokens) + 1 \in Nat
    BY <1>l
  <2> QED
    BY <1>t, <2>1, IssuedRows
<1>i. Idle \in Request
  BY IdleType
<1>k. Stays => TypeInv'
  BY KeptTypes
<1>1. CASE Opening
  BY <1>1, <1>t, <1>k, OpeningEffect DEF Stays
<1>2. CASE CodesExpire \/ HourPasses
  <2>1. UNCHANGED <<user, status, tokens, req, shut, crossed, split, calls>>
    BY <1>2 DEF CodesExpire, HourPasses
  <2>2. codes' \in Seq(Code) /\ Len(codes') = Len(codes)
    BY <1>2, PassEffect
  <2> QED
    BY <1>2, <2>1, <2>2, <1>t, <1>l, <1>k DEF Stays
<1>3. ASSUME NEW t \in DOMAIN tokens, TokenExpires(t) PROVE TypeInv'
  BY <1>3, <1>t, <1>l, <1>i, <1>k, RevokedRows DEF Stays, TokenExpires
<1>4. ASSUME NEW r \in Requests, Call(r) PROVE TypeInv'
  <2>1. PICK q \in Request : Begins(r, q)
    BY <1>4, CallBegins
  <2>2. /\ calls' = calls + 1 /\ UNCHANGED <<user, status, codes, tokens, shut>>
        /\ req' \in [Requests -> Request]
        /\ req'[r] = [q EXCEPT !.at = "ready", !.user = user, !.status = status, !.seen = codes,
                               !.start = calls + 1, !.shut = shut,
                               !.alone = Others(r, AccountOps) = {}]
        /\ \A x \in Requests \ {r} :
             req'[x] = [req[x] EXCEPT !.alone = req[x].alone /\ q.op \notin AccountOps]
    BY <2>1, BeginEffect
  <2>3. Argument(req'[r]) /\ Refers(req'[r], Len(codes), Len(tokens))
    BY <2>1, <2>2, <1>t, <1>l DEF Begins, Argument, Refers, Request, Unused
  <2>4. ASSUME NEW x \in Requests \ {r}
        PROVE  Argument(req'[x]) /\ Refers(req'[x], Len(codes), Len(tokens))
    <3>1. req[x] \in Request /\ Argument(req[x]) /\ Refers(req[x], Len(codes), Len(tokens))
      BY <1>t
    <3>2. req'[x] = [req[x] EXCEPT !.alone = req[x].alone /\ q.op \notin AccountOps]
      BY <2>2
    <3> QED
      BY <3>1, <3>2 DEF Argument, Refers, Request
  <2>5. crossed' \in BOOLEAN /\ split' \subseteq Nat
    <3>1. \A t \in DOMAIN tokens : tokens[t] \in Token
      BY <1>t
    <3>2. \A t \in DOMAIN tokens : tokens[t].family \in Nat
      BY <3>1 DEF Token
    <3>3. crossed' \in BOOLEAN
      BY <2>1, <1>t DEF Begins
    <3>4. q.op = "refresh" => q.token \in DOMAIN tokens
      BY <2>1 DEF Begins
    <3>5. \/ split' = split
          \/ q.op = "refresh" /\ split' \subseteq split \cup {tokens[q.token].family}
      BY <2>1 DEF Begins
    <3> QED
      BY <3>2, <3>3, <3>4, <3>5, <1>t
  <2> QED
    BY <2>2, <2>3, <2>4, <2>5, <1>t DEF TypeInv
<1>5. ASSUME NEW r \in Requests, Step(r) PROVE TypeInv'
  <2>1. CASE IssueTokens(r)
    <3>1. tokens' \in Seq(Token) /\ Len(tokens') = Len(tokens) + 1
      BY <2>1, <1>g DEF IssueTokens
    <3> QED
      BY <2>1, <3>1, <1>t, <1>l, <1>i, <1>k DEF Stays, IssueTokens, End
  <2>2. CASE IssueAccess(r)
    BY <2>2, <1>t, <1>l, <1>i, <1>k DEF Stays, IssueAccess, End
  <2>3. CASE SendCode(r)
    <3> DEFINE open == {c \in DOMAIN codes : ~codes[c].used /\ ~codes[c].expired}
    <3>1. open \subseteq 1 .. Len(codes) /\ open \subseteq Nat
      OBVIOUS
    <3> HIDE DEF open
    <3>2. req' = [req EXCEPT ![r].at = "sent", ![r].writes = open]
      BY <2>3 DEF SendCode, open
    <3>3. req' \in [Requests -> Request]
      <4>1. [req[r] EXCEPT !.at = "sent", !.writes = open] \in Request
        <5>1. req[r] \in Request
          BY <1>t
        <5> QED
          BY <3>1, <5>1 DEF Request
      <4>2. req' = [req EXCEPT ![r] = [req[r] EXCEPT !.at = "sent", !.writes = open]]
        BY <3>2, <1>t
      <4> QED
        BY <4>1, <4>2, <1>t
    <3>4. \A x \in Requests : Argument(req'[x]) /\ Refers(req'[x], Len(codes), Len(tokens))
      BY <2>3, <3>1, <3>2, <1>t DEF Argument, Refers, Request, SendCode
    <3> QED
      BY <2>3, <3>3, <3>4, <1>t DEF SendCode, TypeInv
  <2>4. CASE StoreCode(r)
    <3>1. codes' \in Seq(Code) /\ Len(codes') = Len(codes) + 1
      BY <2>4, StoreEffect
    <3> QED
      BY <2>4, <3>1, <1>t, <1>l, <1>i, <1>k DEF Stays, StoreCode
  <2>5. CASE RefuseCode(r)
    <3>1. codes' \in Seq(Code) /\ Len(codes') = Len(codes)
      BY <2>5, WrongTryEffect DEF RefuseCode, End, CodeAt
    <3> QED
      BY <2>5, <3>1, <1>t, <1>l, <1>i, <1>k DEF Stays, RefuseCode, End
  <2>6. CASE AcceptCode(r)
    <3>1. codes' \in Seq(Code) /\ Len(codes') = Len(codes)
      BY <2>6, <1>l, AcceptEffect DEF CodeAt
    <3>2. tokens' \in Seq(Token) /\ Len(tokens') = Len(tokens) + 1
      BY <2>6, <1>g DEF AcceptCode
    <3> QED
      BY <2>6, <3>1, <3>2, <1>t, <1>l, <1>i, <1>k DEF Stays, AcceptCode, End
  <2>7. CASE RotateToken(r)
    <3>1. req[r].token \in DOMAIN tokens
      BY <2>7, <1>t, <1>l DEF RotateToken, End, Refers
    <3>2. tokens[req[r].token].family \in Nat
      <4>1. tokens[req[r].token] \in Token
        BY <3>1, <1>t
      <4> QED
        BY <4>1 DEF Token
    <3>3. /\ Revoked(tokens, req[r].token) \in Seq(Token)
          /\ Len(Revoked(tokens, req[r].token)) = Len(tokens)
      BY <3>1, <1>t, RevokedRows
    <3>4. tokens' \in Seq(Token) /\ Len(tokens') = Len(tokens) + 1
      BY <2>7, <3>2, <3>3, IssuedRows DEF RotateToken
    <3> QED
      BY <2>7, <3>4, <1>t, <1>l, <1>i, <1>k DEF Stays, RotateToken, End
  <2>8. CASE RevokeToken(r)
    BY <2>8, <1>t, <1>l, <1>i, <1>k, RevokedRows DEF Stays, RevokeToken, End, Refers
  <2>9. CASE StorePassword(r)
    <3>1. user' \in User
      BY <2>9, <1>t DEF StorePassword, End, Argument, User
    <3> QED
      BY <2>9, <1>t, <1>l, <1>i, <1>k, <3>1 DEF Stays, StorePassword, End
  <2>10. CASE StoreDecision(r)
    <3>1. user' \in User /\ status' \in Status /\ shut' \in BOOLEAN
      BY <2>10, <1>t DEF StoreDecision, End, Argument, User, Request, Write, Written, Status
    <3> QED
      BY <2>10, <1>t, <1>l, <1>i, <1>k, <3>1 DEF Stays, StoreDecision, End
  <2>11. CASE StoreActive(r)
    <3>1. user' \in User /\ status' \in Status /\ shut' \in BOOLEAN
      BY <2>11, <1>t DEF StoreActive, End, Argument, User, Request, Write, Written
    <3> QED
      BY <2>11, <1>t, <1>l, <1>i, <1>k, <3>1 DEF Stays, StoreActive, End
  <2>12. CASE StoreAdmin(r)
    <3>1. user' \in User /\ status' \in Status
      BY <2>12, <1>t DEF StoreAdmin, End, User, Request, Write, Written, Status
    <3> QED
      BY <2>12, <1>t, <1>l, <1>i, <1>k, <3>1 DEF Stays, StoreAdmin, End
  <2>13. CASE StoreDeletion(r)
    <3>1. user' \in User
      BY <2>13, <1>t DEF StoreDeletion, User
    <3> QED
      BY <2>13, <1>t, <1>l, <1>i, <1>k, <3>1 DEF Stays, StoreDeletion, End
  <2>14. CASE Abort(r)
    <3>1. Stays
      BY <2>14, <1>t, <1>l, <1>i DEF Stays, Abort
    <3> QED
      BY <3>1, <1>k
  <2> QED
    BY <1>5, <2>1, <2>2, <2>3, <2>4, <2>5, <2>6, <2>7, <2>8, <2>9, <2>10, <2>11, <2>12, <2>13, <2>14
    DEF Step
<1>6. CASE UNCHANGED vars
  BY <1>6 DEF vars, TypeInv
<1> QED
  BY <1>1, <1>2, <1>3, <1>4, <1>5, <1>6, Steps

-----------------------------------------------------------------------------
(* What becomes of the requests.                                           *)

Changed(x, q) ==
  /\ req'[x].at = req[x].at /\ req'[x].op = req[x].op /\ req'[x].user = req[x].user
  /\ req'[x].seen = req[x].seen /\ req'[x].code = req[x].code /\ req'[x].right = req[x].right
  /\ req'[x].token = req[x].token /\ req'[x].to = req[x].to /\ req'[x].start = req[x].start
  /\ req'[x].writes = req[x].writes /\ req'[x].shut = req[x].shut
  /\ req'[x].alone = (req[x].alone /\ q.op \notin AccountOps)

LEMMA BeginFields ==
  ASSUME TypeInv, NEW r \in Requests, NEW q \in Request, Begins(r, q)
  PROVE  /\ UNCHANGED <<user, status, codes, tokens, shut>> /\ calls' = calls + 1
         /\ req[r].op = "none"
         /\ req'[r].at = "ready" /\ req'[r].op = q.op /\ req'[r].code = q.code
         /\ req'[r].right = q.right /\ req'[r].token = q.token /\ req'[r].user = user
         /\ req'[r].seen = codes /\ req'[r].start = calls + 1 /\ req'[r].shut = shut
         /\ req'[r].alone = (Others(r, AccountOps) = {})
         /\ \A x \in Requests \ {r} : Changed(x, q)
<1>1. /\ req[r].at = "idle" /\ calls' = calls + 1 /\ UNCHANGED <<user, status, codes, tokens, shut>>
      /\ req'[r] = [q EXCEPT !.at = "ready", !.user = user, !.status = status, !.seen = codes,
                             !.start = calls + 1, !.shut = shut,
                             !.alone = Others(r, AccountOps) = {}]
      /\ \A x \in Requests \ {r} :
           req'[x] = [req[x] EXCEPT !.alone = req[x].alone /\ q.op \notin AccountOps]
  BY BeginEffect
<1>2. req[r].op = "none"
  BY <1>1 DEF TypeInv, Refers
<1>3. /\ req'[r].at = "ready" /\ req'[r].op = q.op /\ req'[r].code = q.code
      /\ req'[r].right = q.right /\ req'[r].token = q.token /\ req'[r].user = user
      /\ req'[r].seen = codes /\ req'[r].start = calls + 1 /\ req'[r].shut = shut
      /\ req'[r].alone = (Others(r, AccountOps) = {})
  BY <1>1 DEF Request
<1>4. ASSUME NEW x \in Requests \ {r} PROVE Changed(x, q)
  <2>1. req[x] \in Request
    BY DEF TypeInv
  <2>2. req'[x] = [req[x] EXCEPT !.alone = req[x].alone /\ q.op \notin AccountOps]
    BY <1>1
  <2> QED
    BY <2>1, <2>2 DEF Changed, Request
<1> QED
  BY <1>1, <1>2, <1>3, <1>4

\* A step that begins no request ends one, or sends the code of one, or leaves all alone.
Ends(r) == req' = [req EXCEPT ![r] = Idle]

LEMMA EndFields ==
  ASSUME TypeInv, NEW r \in Requests, Ends(r)
  PROVE  /\ req'[r].op = "none" /\ req'[r].at = "idle"
         /\ \A x \in Requests \ {r} : req'[x] = req[x]
  BY DEF TypeInv, Ends, Idle

LEMMA SendFields ==
  ASSUME TypeInv, NEW r \in Requests, SendCode(r)
  PROVE  /\ req[r].op = "request" /\ req[r].at = "ready" /\ req'[r].op = "request"
         /\ req'[r].at = "sent" /\ req'[r].start = req[r].start
         /\ req'[r].writes = {c \in DOMAIN codes : ~Closed(codes[c])}
         /\ \A x \in Requests \ {r} : req'[x] = req[x]
<1> DEFINE open == {c \in DOMAIN codes : ~codes[c].used /\ ~codes[c].expired}
<1>1. open = {c \in DOMAIN codes : ~Closed(codes[c])}
  BY DEF Closed
<1> HIDE DEF open
<1>2. /\ req' = [req EXCEPT ![r].at = "sent", ![r].writes = open]
      /\ req[r].at = "ready" /\ req[r].op = "request"
  BY DEF SendCode, open
<1>3. req \in [Requests -> Request]
  BY DEF TypeInv
<1>4. /\ req'[r] = [req[r] EXCEPT !.at = "sent", !.writes = open]
      /\ \A x \in Requests \ {r} : req'[x] = req[x]
  BY <1>2, <1>3
<1>5. req[r] \in Request
  BY <1>3
<1>6. /\ req'[r].op = "request" /\ req'[r].at = "sent" /\ req'[r].start = req[r].start
      /\ req'[r].writes = open
  <2>1. req[r].op = "request"
    BY <1>2
  <2>2. req'[r] = [req[r] EXCEPT !.at = "sent", !.writes = open]
    BY <1>4
  <2> QED
    BY <1>5, <2>1, <2>2 DEF Request
<1> QED
  BY <1>1, <1>2, <1>4, <1>6

-----------------------------------------------------------------------------
(* Shut accounts.                                                          *)

LEMMA ShutKept ==
  ASSUME TypeInv, ShutInv, ShutOut, user'.active = user.active, Known => Known', shut' = shut,
         \A x \in Requests : req'[x] = req[x] \/ req'[x].op \in {"none", "request"}
  PROVE  ShutInv' /\ ShutOut'
<1>1. ShutInv'
  BY DEF ShutInv, AccountOps
<1>2. ShutOut'
  BY DEF ShutOut
<1> QED
  BY <1>1, <1>2

LEMMA NextShut ==
  ASSUME TypeInv, ShutInv, ShutOut, [Next]_vars
  PROVE  ShutInv' /\ ShutOut'
<1>1. CASE Opening
  <2>1. ~Known /\ Known' /\ UNCHANGED <<req, shut>>
    BY <1>1, OpeningEffect DEF Known
  <2>2. ~shut /\ \A r \in Requests : req[r].op \notin AccountOps
    BY <2>1 DEF ShutInv
  <2> QED
    BY <2>1, <2>2 DEF ShutInv, ShutOut
<1>2. CASE CodesExpire \/ HourPasses
  BY <1>2, ShutKept DEF CodesExpire, HourPasses, Known
<1>3. ASSUME NEW t \in DOMAIN tokens, TokenExpires(t) PROVE ShutInv' /\ ShutOut'
  BY <1>3, ShutKept DEF TokenExpires, Known
<1>4. ASSUME NEW r \in Requests, Call(r) PROVE ShutInv' /\ ShutOut'
  <2>1. PICK q \in Request : Begins(r, q)
    BY <1>4, CallBegins
  <2>2. /\ UNCHANGED <<user, shut>>
        /\ req'[r].at = "ready" /\ req'[r].op = q.op /\ req'[r].right = q.right
        /\ req'[r].user = user /\ req'[r].shut = shut
        /\ req'[r].alone = (Others(r, AccountOps) = {})
        /\ \A x \in Requests \ {r} : Changed(x, q)
    BY <2>1, BeginFields
  <2>3. ShutOut'
    BY <2>1, <2>2 DEF ShutOut, ShutInv, Begins, Changed
  <2>4. ASSUME NEW x \in Requests, req'[x].op \in AccountOps
        PROVE  /\ Known
               /\ req'[x].alone => /\ req'[x].user.active = user.active
                                   /\ \A y \in Requests \ {x} : req'[y].op \notin AccountOps
    <3>1. CASE x = r
      <4>1. Known
        BY <2>1, <2>2, <2>4, <3>1 DEF Begins
      <4>2. \A y \in Requests \ {r} : req[y].op \in AccountOps => y \in Others(r, AccountOps)
        BY DEF TypeInv, Refers, Others, AccountOps
      <4> QED
        BY <2>2, <3>1, <4>1, <4>2 DEF Changed
    <3>2. CASE x # r
      BY ZenonT(60), <2>2, <2>4, <3>2 DEF Changed, ShutInv
    <3> QED
      BY <3>1, <3>2
  <2> QED
    BY <2>2, <2>3, <2>4 DEF ShutInv, Known
<1>5. ASSUME NEW r \in Requests, Step(r) PROVE ShutInv' /\ ShutOut'
  <2>1. CASE SendCode(r)
    BY <2>1, SendFields, ShutKept DEF SendCode, Known
  <2>2. ASSUME Ends(r), user'.active = user.active, Known => Known', shut' = shut
        PROVE  ShutInv' /\ ShutOut'
    BY <2>2, EndFields, ShutKept
  <2>3. CASE \/ IssueTokens(r) \/ IssueAccess(r) \/ StoreCode(r) \/ RefuseCode(r) \/ AcceptCode(r)
             \/ RotateToken(r) \/ RevokeToken(r) \/ Abort(r)
    BY <2>2, <2>3 DEF IssueTokens, IssueAccess, StoreCode, RefuseCode, AcceptCode, RotateToken,
                      RevokeToken, Abort, End, Ends, Known
  <2>4. CASE StorePassword(r) \/ StoreDeletion(r) \/ StoreAdmin(r)
    <3>1. user \in User
      BY DEF TypeInv
    <3>2. user'.active = user.active /\ (Known => Known')
      BY <2>4, <3>1 DEF StorePassword, StoreDeletion, StoreAdmin, Write, Written, User, Known
    <3> QED
      BY <2>2, <2>4, <3>2 DEF StorePassword, StoreDeletion, StoreAdmin, End, Ends
  <2>5. CASE StoreDecision(r) \/ StoreActive(r)
    <3> DEFINE new == IF req[r].op = "decide" THEN req[r].to = "APPROVED" ELSE req[r].to
    <3>1. user \in User /\ req[r].op \in {"decide", "activate"} /\ Ends(r)
      BY <2>5 DEF TypeInv, StoreDecision, StoreActive, End, Ends
    <3>2. new \in BOOLEAN
      BY <3>1 DEF TypeInv, Argument
    <3>3. /\ user' = [user EXCEPT !.active = Written(user.active, req[r].user.active, new)]
          /\ shut' = (~new /\ (shut \/ req[r].alone))
      BY <2>5, <3>1 DEF StoreDecision, StoreActive, End, Write
    <3> HIDE DEF new
    <3>4. Known /\ (req[r].alone => req[r].user.active = user.active)
      BY <3>1 DEF ShutInv, AccountOps
    <3>5. Known' /\ (shut' => ~user'.active)
      <4>1. user'.active = Written(user.active, req[r].user.active, new) /\ user'.state = user.state
        BY <3>1, <3>3 DEF User
      <4> QED
        BY <3>2, <3>3, <3>4, <4>1 DEF Written, ShutInv, Known
    <3>6. ASSUME NEW x \in Requests, req'[x].op \in AccountOps PROVE ~req'[x].alone
      <4>1. x # r /\ req'[x] = req[x]
        BY <3>1, <3>6, EndFields DEF AccountOps
      <4> QED
        BY <3>1, <3>6, <4>1 DEF ShutInv, AccountOps
    <3>7. ShutOut'
      BY <3>1, EndFields DEF ShutOut
    <3> QED
      BY <3>5, <3>6, <3>7 DEF ShutInv
  <2> QED
    BY <1>5, <2>1, <2>3, <2>4, <2>5 DEF Step
<1>6. CASE UNCHANGED vars
  BY <1>6, ShutKept DEF vars, Known
<1> QED
  BY <1>1, <1>2, <1>3, <1>4, <1>5, <1>6, Steps

-----------------------------------------------------------------------------
(* Refresh tokens.                                                         *)

Stale(x) == req'[x].op = "refresh" => req[x].op = "refresh" /\ req'[x].token = req[x].token

LEMMA TokenTypes ==
  ASSUME TypeInv
  PROVE  /\ tokens \in Seq(Token) /\ Len(tokens) \in Nat /\ DOMAIN tokens = 1 .. Len(tokens)
         /\ \A t \in DOMAIN tokens : tokens[t].family \in Nat
         /\ \A x \in Requests : req[x].op \in {"refresh", "logout"} => req[x].token \in DOMAIN tokens
<1>1. tokens \in Seq(Token) /\ Len(tokens) \in Nat /\ DOMAIN tokens = 1 .. Len(tokens)
  BY DEF TypeInv
<1>2. \A t \in DOMAIN tokens : tokens[t] \in Token
  BY <1>1
<1>3. \A x \in Requests : req[x].op \in {"refresh", "logout"} => req[x].token \in DOMAIN tokens
  BY <1>1 DEF TypeInv, Refers
<1> QED
  BY <1>1, <1>2, <1>3 DEF Token

\* Ending tokens and requests keeps the invariant.
LEMMA TokensEnd ==
  ASSUME TypeInv, TokenInv, split' = split, DOMAIN tokens' = DOMAIN tokens,
         \A t \in DOMAIN tokens : /\ tokens'[t].family = tokens[t].family
                                  /\ tokens'[t].live => tokens[t].live,
         \A x \in Requests : Stale(x)
  PROVE  TokenInv'
<1>1. \A x \in Requests : req'[x].op = "refresh" =>
        req[x].op = "refresh" /\ req'[x].token = req[x].token /\ Family(x)' = Family(x)
  BY TokenTypes DEF Stale, Family
<1>2. OneLive'
  BY DEF TokenInv, OneLive
<1> QED
  BY <1>1, <1>2 DEF TokenInv

\* So does a login of its own.
LEMMA TokensLogin ==
  ASSUME TypeInv, TokenInv, split' = split, tokens' = Issued(tokens, Len(tokens) + 1),
         \A x \in Requests : Stale(x)
  PROVE  TokenInv'
<1> DEFINE n == Len(tokens) + 1
<1>1. n \in Nat /\ n \notin DOMAIN tokens
  BY TokenTypes
<1>2. /\ DOMAIN tokens' = DOMAIN tokens \cup {n}
      /\ tokens'[n].live /\ tokens'[n].family = n
      /\ \A t \in DOMAIN tokens : tokens'[t] = tokens[t]
  <2>1. tokens \in Seq(Token)
    BY TokenTypes
  <2>2. /\ DOMAIN Issued(tokens, n) = DOMAIN tokens \cup {n}
        /\ Issued(tokens, n)[n] = [live |-> TRUE, family |-> n]
        /\ \A t \in DOMAIN tokens : Issued(tokens, n)[t] = tokens[t]
    BY <1>1, <2>1, IssuedRows
  <2> QED
    BY <2>2
<1> HIDE DEF n
<1>3. \A x \in Requests : req'[x].op = "refresh" =>
        /\ req[x].op = "refresh" /\ req'[x].token = req[x].token /\ req[x].token \in DOMAIN tokens
        /\ Family(x)' = Family(x) /\ Family(x) \in DOMAIN tokens
  BY <1>2, TokenTypes DEF Stale, Family, TokenInv
<1>4. OneLive'
  BY <1>1, <1>2 DEF TokenInv, OneLive
<1> QED
  BY <1>1, <1>2, <1>3, <1>4 DEF TokenInv

\* The exchange of a token ends all live tokens of its login, and leaves one.
LEMMA TokensRotate ==
  ASSUME TypeInv, TokenInv, split' = split, NEW r \in Requests, req[r].op = "refresh", Ends(r),
         tokens' = Issued(Revoked(tokens, req[r].token), Family(r))
  PROVE  TokenInv'
<1> DEFINE n == Len(tokens) + 1
           t == req[r].token
<1>1. tokens \in Seq(Token) /\ n \in Nat /\ n \notin DOMAIN tokens /\ t \in DOMAIN tokens
  BY TokenTypes
<1>2. Family(r) \in Nat /\ Family(r) \in DOMAIN tokens
  BY <1>1, TokenTypes DEF Family, TokenInv
<1>3. /\ DOMAIN tokens' = DOMAIN tokens \cup {n}
      /\ tokens'[n] = [live |-> TRUE, family |-> Family(r)]
      /\ \A u \in DOMAIN tokens : /\ tokens'[u].family = tokens[u].family
                                  /\ tokens'[u].live = (tokens[u].live /\ u # t)
  <2> DEFINE rows == Revoked(tokens, t)
  <2>1. /\ rows \in Seq(Token) /\ Len(rows) = Len(tokens) /\ DOMAIN rows = DOMAIN tokens
        /\ \A u \in DOMAIN tokens : /\ rows[u].family = tokens[u].family
                                    /\ rows[u].live = (tokens[u].live /\ u # t)
    BY <1>1, RevokedRows
  <2> HIDE DEF rows
  <2>2. /\ DOMAIN Issued(rows, Family(r)) = DOMAIN rows \cup {Len(rows) + 1}
        /\ Issued(rows, Family(r))[Len(rows) + 1] = [live |-> TRUE, family |-> Family(r)]
        /\ \A u \in DOMAIN rows : Issued(rows, Family(r))[u] = rows[u]
    BY <1>2, <2>1, IssuedRows
  <2> QED
    BY <2>1, <2>2 DEF rows
<1> HIDE DEF n
<1>4. Family(r) \notin split =>
        \A u \in DOMAIN tokens : tokens'[u].family = Family(r) => ~tokens'[u].live
  BY <1>3 DEF TokenInv
<1>5. \A u, w \in DOMAIN tokens :
        tokens'[u].live /\ tokens'[w].live /\ tokens'[u].family = tokens'[w].family
          /\ tokens'[u].family \notin split => u = w
  BY ZenonT(60), <1>3 DEF TokenInv, OneLive
<1>6. OneLive'
  BY <1>3, <1>4, <1>5 DEF OneLive
<1>7. \A x \in Requests : req'[x].op = "refresh" =>
        /\ x # r /\ req'[x] = req[x] /\ req[x].token \in DOMAIN tokens
        /\ Family(x)' = Family(x)
  BY ZenonT(60), <1>3, EndFields, TokenTypes DEF Family
<1>8. ASSUME NEW x \in Requests, req'[x].op = "refresh", Family(x) \notin split
      PROVE  /\ Family(r) # Family(x)
             /\ \A u \in DOMAIN tokens : tokens[u].live /\ tokens[u].family = Family(x) => u = req[x].token
             /\ \A y \in Requests \ {x} : req[y].op = "refresh" => Family(y) # Family(x)
  BY <1>7, <1>8 DEF TokenInv
<1>9. \A u \in DOMAIN tokens' : tokens'[u].family \in DOMAIN tokens'
  BY <1>2, <1>3 DEF TokenInv
<1>10. ASSUME NEW x \in Requests, req'[x].op = "refresh", Family(x)' \notin split
       PROVE  /\ \A u \in DOMAIN tokens' :
                   tokens'[u].live /\ tokens'[u].family = Family(x)' => u = req'[x].token
              /\ \A y \in Requests \ {x} : req'[y].op = "refresh" => Family(y)' # Family(x)'
  <2>1. /\ x # r /\ req'[x] = req[x] /\ req[x].token \in DOMAIN tokens
        /\ Family(x)' = Family(x) /\ Family(r) # Family(x)
    BY <1>7, <1>8, <1>10
  <2>2. tokens'[n].family # Family(x)
    BY <1>3, <2>1
  <2>3. \A u \in DOMAIN tokens :
          tokens'[u].live /\ tokens'[u].family = Family(x) => u = req[x].token
    BY <1>3, <1>8, <1>10, <2>1
  <2>4. \A y \in Requests \ {x} : req'[y].op = "refresh" => Family(y)' # Family(x)
    BY <1>7, <1>8, <1>10, <2>1
  <2> QED
    BY <1>3, <2>1, <2>2, <2>3, <2>4
<1> QED
  BY <1>6, <1>9, <1>10 DEF TokenInv

\* A second exchange of a token that is under way splits the login.
LEMMA TokensRefresh ==
  ASSUME TypeInv, TokenInv, NEW r \in Requests, NEW q \in Request, Begins(r, q), q.op = "refresh"
  PROVE  TokenInv'
<1> DEFINE f == tokens[q.token].family
<1>1. /\ tokens' = tokens /\ req'[r].op = "refresh" /\ req'[r].token = q.token
      /\ req[r].op = "none" /\ \A x \in Requests \ {r} : Changed(x, q)
  BY BeginFields
<1>2. /\ q.token \in DOMAIN tokens /\ tokens[q.token].live
      /\ split' = split \cup {f : x \in {p \in Others(r, {"refresh"}) : req[p].token = q.token}}
  BY DEF Begins
<1>3. \A x \in Requests \ {r} : req[x].op = "refresh" => x \in Others(r, {"refresh"})
  BY DEF TypeInv, Refers, Others
<1>4. \A x \in Requests \ {r} : /\ req'[x].op = req[x].op /\ req'[x].token = req[x].token
                                /\ Family(x)' = Family(x)
  BY <1>1 DEF Changed, Family
<1>5. split \subseteq split' /\ Family(r)' = f
  BY <1>1, <1>2 DEF Family
<1> HIDE DEF f
<1>6. OneLive'
  BY <1>1, <1>5 DEF TokenInv, OneLive
<1>7. ASSUME NEW x \in Requests \ {r}, req[x].op = "refresh", Family(x) = f PROVE f \in split'
  <2>1. CASE req[x].token = q.token
    BY <1>2, <1>3, <1>7, <2>1
  <2>2. CASE req[x].token # q.token
    BY <1>2, <1>5, <1>7, <2>2 DEF TokenInv, f
  <2> QED
    BY <2>1, <2>2
<1>8. \A u \in DOMAIN tokens : tokens[u].live /\ tokens[u].family = f /\ f \notin split' => u = q.token
  BY <1>2, <1>5 DEF TokenInv, OneLive, f
<1>9. ASSUME NEW x \in Requests, req'[x].op = "refresh", Family(x)' \notin split'
      PROVE  /\ \A u \in DOMAIN tokens : tokens[u].live /\ tokens[u].family = Family(x)' => u = req'[x].token
             /\ \A y \in Requests \ {x} : req'[y].op = "refresh" => Family(y)' # Family(x)'
  <2>1. CASE x = r
    BY <1>1, <1>4, <1>5, <1>7, <1>8, <1>9, <2>1
  <2>2. CASE x # r
    BY <1>1, <1>4, <1>5, <1>7, <1>9, <2>2 DEF TokenInv
  <2> QED
    BY <2>1, <2>2
<1> QED
  BY <1>1, <1>6, <1>9 DEF TokenInv

LEMMA InitTokens == Init => TokenInv
<1> SUFFICES ASSUME Init PROVE TokenInv
  OBVIOUS
<1>1. \A t \in DOMAIN tokens : tokens[t].family = t
  BY Accounts DEF Init
<1>2. \A r \in Requests : req[r].op = "none"
  BY DEF Init, Idle
<1> QED
  BY <1>1, <1>2 DEF TokenInv, OneLive

LEMMA NextTokens ==
  ASSUME TypeInv, TokenInv, [Next]_vars
  PROVE  TokenInv'
<1>s. ASSUME NEW r \in Requests, Ends(r) PROVE \A x \in Requests : Stale(x)
  BY <1>s, EndFields DEF Stale
<1>1. CASE Opening
  BY <1>1, OpeningEffect, TokensEnd DEF Stale
<1>2. CASE CodesExpire \/ HourPasses
  BY <1>2, TokensEnd DEF CodesExpire, HourPasses, Stale
<1>3. ASSUME NEW t \in DOMAIN tokens, TokenExpires(t) PROVE TokenInv'
  <2>1. tokens' = Revoked(tokens, t) /\ UNCHANGED <<req, split>>
    BY <1>3 DEF TokenExpires
  <2> QED
    BY <2>1, TokenTypes, RevokedRows, TokensEnd DEF Stale
<1>4. ASSUME NEW r \in Requests, Call(r) PROVE TokenInv'
  <2>1. PICK q \in Request : Begins(r, q)
    BY <1>4, CallBegins
  <2>2. CASE q.op = "refresh"
    BY <2>1, <2>2, TokensRefresh
  <2>3. CASE q.op # "refresh"
    <3>1. tokens' = tokens /\ req'[r].op # "refresh" /\ \A x \in Requests \ {r} : Changed(x, q)
      BY <2>1, <2>3, BeginFields
    <3>2. split' = split
      BY <2>1, <2>3 DEF Begins
    <3>3. \A x \in Requests : Stale(x)
      BY <3>1 DEF Changed, Stale
    <3> QED
      BY <3>1, <3>2, <3>3, TokensEnd
  <2> QED
    BY <2>2, <2>3
<1>5. ASSUME NEW r \in Requests, Step(r) PROVE TokenInv'
  <2>1. CASE SendCode(r)
    <3>1. tokens' = tokens /\ split' = split
      BY <2>1 DEF SendCode
    <3>2. \A x \in Requests : Stale(x)
      BY <2>1, SendFields DEF Stale
    <3> QED
      BY <3>1, <3>2, TokensEnd
  <2>2. CASE IssueTokens(r) \/ AcceptCode(r)
    <3>1. Ends(r) /\ split' = split /\ tokens' = Issued(tokens, Len(tokens) + 1)
      BY <2>2 DEF IssueTokens, AcceptCode, End, Ends
    <3> QED
      BY <3>1, <1>s, TokensLogin
  <2>3. CASE RotateToken(r)
    <3>1. /\ Ends(r) /\ split' = split /\ req[r].op = "refresh"
          /\ tokens' = Issued(Revoked(tokens, req[r].token), Family(r))
      BY <2>3 DEF RotateToken, End, Ends, Family
    <3> QED
      BY <3>1, TokensRotate
  <2>4. CASE RevokeToken(r)
    <3>1. /\ Ends(r) /\ split' = split /\ req[r].op = "logout"
          /\ tokens' = Revoked(tokens, req[r].token)
      BY <2>4 DEF RevokeToken, End, Ends
    <3> QED
      BY <3>1, <1>s, TokenTypes, RevokedRows, TokensEnd
  <2>5. CASE \/ IssueAccess(r) \/ StoreCode(r) \/ RefuseCode(r) \/ StorePassword(r) \/ StoreDecision(r)
             \/ StoreActive(r) \/ StoreAdmin(r) \/ StoreDeletion(r) \/ Abort(r)
    <3>1. Ends(r) /\ split' = split /\ tokens' = tokens
      BY <2>5 DEF IssueAccess, StoreCode, RefuseCode, StorePassword, StoreDecision, StoreActive,
                  StoreAdmin, StoreDeletion, Abort, End, Ends
    <3> QED
      BY <3>1, <1>s, TokensEnd
  <2> QED
    BY <1>5, <2>1, <2>2, <2>3, <2>4, <2>5 DEF Step
<1>6. CASE UNCHANGED vars
  BY <1>6, TokensEnd DEF vars, Stale
<1> QED
  BY <1>1, <1>2, <1>3, <1>4, <1>5, <1>6, Steps

-----------------------------------------------------------------------------
(* One-time codes.                                                         *)

CodesOK == CodeInv /\ OrderInv /\ CodeServes

\* A request that asks for no code and tries none, or stands as it did.
Quiet(x) ==
  /\ req'[x].start <= calls'
  /\ \/ req'[x].op \notin {"request", "verify"}
     \/ /\ req'[x].op = req[x].op /\ req'[x].at = req[x].at /\ req'[x].start = req[x].start
        /\ req'[x].writes = req[x].writes /\ req'[x].code = req[x].code
        /\ req'[x].right = req[x].right /\ req'[x].seen = req[x].seen

LEMMA CodesTyped ==
  ASSUME TypeInv
  PROVE  /\ calls \in Nat /\ Len(codes) \in Nat /\ DOMAIN codes = 1 .. Len(codes)
         /\ \A c \in DOMAIN codes :
              /\ codes[c] \in Code /\ codes[c].start \in Nat /\ codes[c].attempts \in Nat
              /\ codes[c].wrong \in Nat /\ codes[c].logins \in Nat
         /\ \A x \in Requests :
              /\ req[x].start \in Nat
              /\ req[x].op = "verify" => req[x].code \in DOMAIN codes /\ req[x].code \in Nat
              /\ req[x].op = "none" <=> req[x].at = "idle"
<1>1. codes \in Seq(Code) /\ Len(codes) \in Nat /\ DOMAIN codes = 1 .. Len(codes) /\ calls \in Nat
  BY DEF TypeInv
<1>2. \A c \in DOMAIN codes : codes[c] \in Code
  BY <1>1
<1>3. ASSUME NEW x \in Requests
      PROVE  /\ req[x].start \in Nat
             /\ req[x].op = "verify" => req[x].code \in DOMAIN codes /\ req[x].code \in Nat
             /\ req[x].op = "none" <=> req[x].at = "idle"
  <2>1. req[x] \in Request /\ Refers(req[x], Len(codes), Len(tokens))
    BY DEF TypeInv
  <2>2. req[x].seen \in Seq(Code) /\ req[x].start \in Nat /\ req[x].code \in Nat
    BY <2>1 DEF Request
  <2> QED
    BY <1>1, <2>1, <2>2 DEF Refers
<1> QED
  BY <1>1, <1>2, <1>3 DEF Code

LEMMA CodesKept ==
  ASSUME TypeInv, CodesOK, codes' = codes, crossed' = crossed, calls' \in Nat, calls <= calls',
         \A x \in Requests : Quiet(x)
  PROVE  CodesOK'
<1>1. CodeInv'
  BY CodesTyped DEF CodesOK, CodeInv, Quiet
<1>2. OrderInv'
  BY DEF CodesOK, OrderInv, Quiet
<1>3. CodeServes'
  BY DEF CodesOK, CodeServes, Quiet
<1> QED
  BY <1>1, <1>2, <1>3 DEF CodesOK

\* A code that closes stays what it was for the tries under way.
LEMMA CodesClose ==
  ASSUME TypeInv, CodesOK, crossed' = crossed, calls' = calls, DOMAIN codes' = DOMAIN codes,
         \A c \in DOMAIN codes :
           /\ codes'[c].used = codes[c].used /\ codes'[c].logins = codes[c].logins
           /\ codes'[c].attempts = codes[c].attempts /\ codes'[c].wrong = codes[c].wrong
           /\ codes'[c].start = codes[c].start /\ codes'[c].expired,
         req' = req
  PROVE  CodesOK'
<1>1. CodeInv'
  BY DEF CodesOK, CodeInv
<1>2. OrderInv'
  BY CodesTyped DEF CodesOK, OrderInv, Closed
<1>3. CodeServes'
  BY DEF CodesOK, CodeServes
<1> QED
  BY <1>1, <1>2, <1>3 DEF CodesOK

\* A try ends, and only its code has changed.
LEMMA CodesTried ==
  ASSUME TypeInv, CodesOK, crossed' = crossed, calls' = calls,
         NEW r \in Requests, Ends(r), req[r].op = "verify",
         NEW d, CodeAt(codes', req[r].code, d),
         LET old == codes[req[r].code]
         IN  /\ d.start = old.start /\ (old.used => d.used) /\ (old.expired => d.expired)
             /\ (~d.used => d.logins = 0) /\ (d.attempts >= MaxAttempts => d.expired)
             /\ (~crossed => d.wrong = d.attempts)
  PROVE  CodesOK'
<1> DEFINE c == req[r].code
<1>1. c \in DOMAIN codes /\ DOMAIN codes' = DOMAIN codes
  BY CodesTyped DEF CodeAt, TypeInv
<1>2. /\ codes'[c] = d
      /\ \A e \in DOMAIN codes : e # c => codes'[e] = codes[e]
      /\ \A e \in DOMAIN codes : codes'[e].start = codes[e].start /\ (Closed(codes[e]) => Closed(codes'[e]))
  BY <1>1 DEF CodeAt, Closed
<1>3. /\ req'[r].op = "none" /\ req'[r].start = 0 /\ \A x \in Requests \ {r} : req'[x] = req[x]
  BY EndFields DEF Ends, Idle, TypeInv
<1>4. CodeInv'
  <2>1. ASSUME NEW e \in DOMAIN codes
        PROVE  /\ ~codes'[e].used => codes'[e].logins = 0
               /\ codes'[e].attempts >= MaxAttempts => codes'[e].expired
    BY <1>2 DEF CodesOK, CodeInv
  <2>2. \A e \in DOMAIN codes : codes'[e].start <= calls
    BY <1>2 DEF CodesOK, CodeInv
  <2>3. \A x \in Requests : req'[x].start <= calls
    BY <1>3, CodesTyped DEF CodesOK, CodeInv
  <2> QED
    BY <1>1, <2>1, <2>2, <2>3 DEF CodeInv
<1>5. OrderInv'
  <2> SUFFICES ASSUME ~crossed PROVE OrderInv'
    BY DEF OrderInv
  <2> HIDE DEF c
  <2>1. \A e \in DOMAIN codes : codes'[e].wrong = codes'[e].attempts
    BY <1>2 DEF CodesOK, OrderInv, c
  <2>2. \A e, f \in DOMAIN codes : e < f => codes'[e].start <= codes'[f].start /\ Closed(codes'[e])
    BY <1>2 DEF CodesOK, OrderInv
  <2>3. ASSUME NEW x \in Requests, req'[x].op = "request"
        PROVE  /\ \A e \in DOMAIN codes : codes'[e].start <= req'[x].start
               /\ req'[x].at = "sent" => \A e \in DOMAIN codes : Closed(codes'[e]) \/ e \in req'[x].writes
               /\ \A y \in Requests \ {x} : req'[y].op # "request"
    BY <1>2, <1>3, <2>3 DEF CodesOK, OrderInv
  <2>4. ASSUME NEW x \in Requests, req'[x].op = "verify"
        PROVE  /\ req'[x].seen[req'[x].code].attempts = codes'[req'[x].code].attempts
               /\ \A y \in Requests \ {x} : req'[y].op = "verify" => req'[y].code # req'[x].code
    <3>1. x # r /\ req'[x] = req[x] /\ req[x].code # c /\ req[x].code \in DOMAIN codes
      BY <1>3, <2>4, CodesTyped DEF CodesOK, OrderInv, c
    <3> QED
      BY <1>2, <1>3, <2>4, <3>1 DEF CodesOK, OrderInv
  <2> QED
    BY <1>1, <2>1, <2>2, <2>3, <2>4 DEF OrderInv
<1>6. CodeServes'
  BY <1>3 DEF CodesOK, CodeServes
<1> QED
  BY <1>4, <1>5, <1>6 DEF CodesOK

LEMMA CodesRefuse ==
  ASSUME TypeInv, CodesOK, NEW r \in Requests, RefuseCode(r)
  PROVE  CodesOK'
<1> DEFINE c == req[r].code
           n == req[r].seen[c].attempts + 1
           d == [codes[c] EXCEPT !.wrong = @ + 1, !.attempts = n, !.expired = @ \/ n >= MaxAttempts]
<1>1. Ends(r) /\ req[r].op = "verify" /\ UNCHANGED <<crossed, calls>> /\ codes' = WrongTry(r)
  BY DEF RefuseCode, End, Ends
<1>2. c \in DOMAIN codes /\ n \in Nat /\ CodeAt(codes', c, d)
  BY <1>1, WrongTryEffect
<1>3. codes[c] \in Code
  BY <1>2, CodesTyped
<1>4. ~crossed => n = codes[c].attempts + 1 /\ codes[c].wrong = codes[c].attempts
  BY <1>1, <1>2 DEF CodesOK, OrderInv
<1>5. ~codes[c].used => codes[c].logins = 0
  BY <1>2 DEF CodesOK, CodeInv
<1>6. /\ d.start = codes[c].start /\ (codes[c].used => d.used) /\ (codes[c].expired => d.expired)
      /\ (~d.used => d.logins = 0) /\ (d.attempts >= MaxAttempts => d.expired)
      /\ (~crossed => d.wrong = d.attempts)
  <2> HIDE DEF c, n
  <2> QED
    BY <1>3, <1>4, <1>5 DEF Code
<1> HIDE DEF d
<1> QED
  BY <1>1, <1>2, <1>6, CodesTried

LEMMA CodesAccept ==
  ASSUME TypeInv, CodesOK, NEW r \in Requests, AcceptCode(r)
  PROVE  CodesOK'
<1> DEFINE c == req[r].code
           d == [codes[c] EXCEPT !.used = TRUE, !.logins = @ + 1]
<1>1. Ends(r) /\ req[r].op = "verify" /\ UNCHANGED <<crossed, calls>>
  BY DEF AcceptCode, End, Ends
<1>2. c \in DOMAIN codes /\ CodeAt(codes', c, d)
  BY AcceptEffect
<1>3. codes[c] \in Code
  BY <1>2, CodesTyped
<1>4. (~crossed => codes[c].wrong = codes[c].attempts)
      /\ (codes[c].attempts >= MaxAttempts => codes[c].expired)
  BY <1>2 DEF CodesOK, OrderInv, CodeInv
<1>5. /\ d.start = codes[c].start /\ (codes[c].used => d.used) /\ (codes[c].expired => d.expired)
      /\ (~d.used => d.logins = 0) /\ (d.attempts >= MaxAttempts => d.expired)
      /\ (~crossed => d.wrong = d.attempts)
  <2> HIDE DEF c
  <2> QED
    BY <1>3, <1>4 DEF Code
<1> HIDE DEF d
<1> QED
  BY <1>1, <1>2, <1>5, CodesTried

\* A code that is stored is the last one, and closes all others.
LEMMA CodesStore ==
  ASSUME TypeInv, CodesOK, NEW r \in Requests, StoreCode(r)
  PROVE  CodesOK'
<1> DEFINE n == Len(codes) + 1
<1>1. Ends(r) /\ req[r].at = "sent" /\ req[r].op = "request" /\ UNCHANGED <<crossed, calls>>
  BY DEF StoreCode, Ends, TypeInv, Refers
<1>2. n \in Nat /\ n \notin DOMAIN codes /\ (\A c \in DOMAIN codes : c \in Nat /\ c < n)
  BY CodesTyped
<1>3. /\ DOMAIN codes' = DOMAIN codes \cup {n} /\ codes'[n] = NewCode(r)
      /\ \A c \in DOMAIN codes :
           codes'[c] = IF c \in req[r].writes THEN [codes[c] EXCEPT !.expired = TRUE] ELSE codes[c]
  <2>1. /\ codes' \in Seq(Code) /\ Len(codes') = n /\ codes'[n] = NewCode(r)
        /\ \A c \in DOMAIN codes :
             codes'[c] = IF c \in req[r].writes THEN [codes[c] EXCEPT !.expired = TRUE] ELSE codes[c]
    BY StoreEffect
  <2>2. DOMAIN codes' = 1 .. n /\ DOMAIN codes = 1 .. Len(codes) /\ Len(codes) \in Nat
    BY <2>1, CodesTyped
  <2>3. DOMAIN codes' = DOMAIN codes \cup {n}
    BY <2>2
  <2> QED
    BY <2>1, <2>3
<1> HIDE DEF n
<1>4. /\ codes'[n].start = req[r].start /\ codes'[n].logins = 0 /\ codes'[n].attempts = 0
      /\ codes'[n].wrong = 0
  BY <1>3 DEF NewCode
<1>5. ASSUME NEW c \in DOMAIN codes
      PROVE  /\ codes'[c].used = codes[c].used /\ codes'[c].logins = codes[c].logins
             /\ codes'[c].attempts = codes[c].attempts /\ codes'[c].wrong = codes[c].wrong
             /\ codes'[c].start = codes[c].start /\ (codes[c].expired => codes'[c].expired)
             /\ (c \in req[r].writes => codes'[c].expired)
  <2>1. codes[c] \in Code
    BY CodesTyped
  <2> QED
    BY <1>3, <2>1 DEF Code
<1>6. req'[r].op = "none" /\ req'[r].start = 0 /\ \A x \in Requests \ {r} : req'[x] = req[x]
  BY <1>1, EndFields DEF Ends, Idle, TypeInv
<1>7. CodeInv'
  <2>1. \A c \in DOMAIN codes : /\ ~codes'[c].used => codes'[c].logins = 0
                                /\ codes'[c].attempts >= MaxAttempts => codes'[c].expired
                                /\ codes'[c].start <= calls
    BY <1>5 DEF CodesOK, CodeInv
  <2>2. codes'[n].start <= calls /\ ~(codes'[n].attempts >= MaxAttempts)
    BY <1>4, Parameters DEF CodesOK, CodeInv
  <2>3. \A x \in Requests : req'[x].start <= calls
    BY <1>6, CodesTyped DEF CodesOK, CodeInv
  <2> QED
    BY <1>1, <1>3, <1>4, <2>1, <2>2, <2>3 DEF CodeInv
<1>8. OrderInv'
  <2> SUFFICES ASSUME ~crossed PROVE OrderInv'
    BY <1>1 DEF OrderInv
  <2>1. \A c \in DOMAIN codes : /\ codes'[c].wrong = codes'[c].attempts
                                /\ codes'[c].start <= req[r].start /\ Closed(codes'[c])
    BY <1>1, <1>5 DEF CodesOK, OrderInv, Closed
  <2>2. \A c, d \in DOMAIN codes' : c < d => codes'[c].start <= codes'[d].start /\ Closed(codes'[c])
    <3> SUFFICES ASSUME NEW c \in DOMAIN codes', NEW d \in DOMAIN codes', c < d
                 PROVE  codes'[c].start <= codes'[d].start /\ Closed(codes'[c])
      OBVIOUS
    <3>1. c \in DOMAIN codes
      BY <1>2, <1>3
    <3>2. CASE d = n
      BY <1>4, <2>1, <3>1, <3>2
    <3>3. CASE d # n
      BY <1>3, <1>5, <2>1, <3>1, <3>3 DEF CodesOK, OrderInv
    <3> QED
      BY <3>2, <3>3
  <2>3. \A x \in Requests : req'[x].op # "request"
    BY <1>1, <1>6 DEF CodesOK, OrderInv
  <2>4. ASSUME NEW x \in Requests, req'[x].op = "verify"
        PROVE  /\ req'[x].seen[req'[x].code].attempts = codes'[req'[x].code].attempts
               /\ \A y \in Requests \ {x} : req'[y].op = "verify" => req'[y].code # req'[x].code
    <3>1. x # r /\ req'[x] = req[x] /\ req[x].code \in DOMAIN codes
      BY <1>6, <2>4, CodesTyped
    <3> QED
      BY <1>5, <1>6, <2>4, <3>1 DEF CodesOK, OrderInv
  <2> QED
    BY <1>3, <1>4, <2>1, <2>2, <2>3, <2>4 DEF OrderInv
<1>9. CodeServes'
  BY <1>1, <1>6 DEF CodesOK, CodeServes
<1> QED
  BY <1>7, <1>8, <1>9 DEF CodesOK

LEMMA CodesSend ==
  ASSUME TypeInv, CodesOK, NEW r \in Requests, SendCode(r)
  PROVE  CodesOK'
<1>1. UNCHANGED <<codes, crossed, calls>>
  BY DEF SendCode
<1>2. /\ req[r].op = "request" /\ req'[r].op = "request"
      /\ req'[r].at = "sent" /\ req'[r].start = req[r].start
      /\ req'[r].writes = {c \in DOMAIN codes : ~Closed(codes[c])}
      /\ \A x \in Requests \ {r} : req'[x] = req[x]
  BY SendFields
<1>3. CodeInv'
  BY <1>1, <1>2 DEF CodesOK, CodeInv
<1>4. OrderInv'
  <2> SUFFICES ASSUME ~crossed PROVE OrderInv'
    BY <1>1 DEF OrderInv
  <2>1. ASSUME NEW x \in Requests, req'[x].op = "request"
        PROVE  /\ \A c \in DOMAIN codes : codes[c].start <= req'[x].start
               /\ req'[x].at = "sent" => \A c \in DOMAIN codes : Closed(codes[c]) \/ c \in req'[x].writes
               /\ \A y \in Requests \ {x} : req'[y].op # "request"
    BY <1>2, <2>1 DEF CodesOK, OrderInv
  <2>2. ASSUME NEW x \in Requests, req'[x].op = "verify"
        PROVE  /\ req'[x].seen[req'[x].code].attempts = codes[req'[x].code].attempts
               /\ \A y \in Requests \ {x} : req'[y].op = "verify" => req'[y].code # req'[x].code
    BY <1>2, <2>2 DEF CodesOK, OrderInv
  <2> QED
    BY <1>1, <2>1, <2>2 DEF CodesOK, OrderInv
<1>5. CodeServes'
  BY <1>1, <1>2 DEF CodesOK, CodeServes
<1> QED
  BY <1>3, <1>4, <1>5 DEF CodesOK

\* A request for a code, or a try, begins.
LEMMA CodesBegin ==
  ASSUME TypeInv, CodesOK, NEW r \in Requests, NEW q \in Request, Begins(r, q)
  PROVE  CodesOK'
<1>1. /\ codes' = codes /\ calls' = calls + 1 /\ req[r].op = "none"
      /\ req'[r].at = "ready" /\ req'[r].op = q.op /\ req'[r].code = q.code /\ req'[r].right = q.right
      /\ req'[r].seen = codes /\ req'[r].start = calls + 1
      /\ \A x \in Requests \ {r} : Changed(x, q)
  BY BeginFields
<1>2. /\ calls \in Nat
      /\ \A x \in Requests \ {r} :
           \A op \in {"request", "verify"} : req[x].op = op => x \in Others(r, {op})
  BY CodesTyped DEF Others
<1>3. CodeInv'
  BY <1>1, <1>2, CodesTyped DEF CodesOK, CodeInv, Changed
<1>4. ASSUME ~crossed', q.op = "verify"
      PROVE  /\ ~crossed /\ q.code \in DOMAIN codes /\ ~codes[q.code].used
             /\ q.right => ~codes[q.code].expired
             /\ \A x \in Requests \ {r} : req[x].op = "verify" => req[x].code # q.code
  BY <1>2, <1>4 DEF Begins, Unused
<1>5. OrderInv'
  <2> SUFFICES ASSUME ~crossed' PROVE OrderInv'
    BY DEF OrderInv
  <2>1. ~crossed
    BY DEF Begins
  <2>2. q.op = "request" => \A x \in Requests \ {r} : req[x].op # "request"
    BY <1>2 DEF Begins
  <2>3. \A c \in DOMAIN codes : codes[c].start <= calls + 1
    BY <1>2, CodesTyped DEF CodesOK, CodeInv
  <2>4. ASSUME NEW x \in Requests, req'[x].op = "request"
        PROVE  /\ \A c \in DOMAIN codes : codes[c].start <= req'[x].start
               /\ req'[x].at = "sent" => \A c \in DOMAIN codes : Closed(codes[c]) \/ c \in req'[x].writes
               /\ \A y \in Requests \ {x} : req'[y].op # "request"
    <3>1. CASE x = r
      BY <1>1, <2>2, <2>3, <2>4, <3>1 DEF Changed
    <3>2. CASE x # r
      BY <1>1, <2>1, <2>2, <2>4, <3>2 DEF Changed, CodesOK, OrderInv
    <3> QED
      BY <3>1, <3>2
  <2>5. ASSUME NEW x \in Requests, req'[x].op = "verify"
        PROVE  /\ req'[x].seen[req'[x].code].attempts = codes[req'[x].code].attempts
               /\ \A y \in Requests \ {x} : req'[y].op = "verify" => req'[y].code # req'[x].code
    <3>1. CASE x = r
      BY <1>1, <1>4, <2>5, <3>1 DEF Changed
    <3>2. CASE x # r
      BY <1>1, <1>4, <2>1, <2>5, <3>2 DEF Changed, CodesOK, OrderInv
    <3> QED
      BY <3>1, <3>2
  <2> QED
    BY <1>1, <2>1, <2>4, <2>5 DEF CodesOK, OrderInv
<1>6. CodeServes'
  <2> SUFFICES ASSUME NEW x \in Requests, req'[x].at = "ready", req'[x].op = "verify", req'[x].right,
                      ~crossed'
               PROVE  LET code == req'[x].seen[req'[x].code]
                      IN  /\ code.logins = 0 /\ code.wrong < MaxAttempts
                          /\ \A d \in DOMAIN req'[x].seen : req'[x].seen[d].start <= code.start
    BY DEF CodeServes
  <2>1. ~crossed
    BY DEF Begins
  <2>2. CASE x # r
    BY <1>1, <2>1, <2>2 DEF Changed, CodesOK, CodeServes
  <2>3. CASE x = r
    <3> DEFINE c == q.code
    <3>1. /\ q.op = "verify" /\ req'[x].seen = codes /\ req'[x].code = c
          /\ c \in DOMAIN codes /\ ~codes[c].used /\ ~codes[c].expired
      BY <1>1, <1>4, <2>3
    <3> HIDE DEF c
    <3>2. codes[c].logins = 0 /\ ~(codes[c].attempts >= MaxAttempts)
      BY <3>1 DEF CodesOK, CodeInv
    <3>3. codes[c].wrong < MaxAttempts
      BY <2>1, <3>1, <3>2, CodesTyped, Parameters DEF CodesOK, OrderInv
    <3>4. ASSUME NEW d \in DOMAIN codes PROVE codes[d].start <= codes[c].start
      <4>1. ~(c < d)
        BY <2>1, <3>1 DEF CodesOK, OrderInv, Closed
      <4>2. c \in Nat /\ d \in Nat /\ codes[c].start \in Nat
        BY <3>1, CodesTyped
      <4> QED
        BY <2>1, <3>1, <4>1, <4>2 DEF CodesOK, OrderInv
    <3> QED
      BY <3>1, <3>2, <3>3, <3>4
  <2> QED
    BY <2>2, <2>3
<1> QED
  BY <1>3, <1>5, <1>6 DEF CodesOK

LEMMA InitCodes == Init => CodesOK
<1> SUFFICES ASSUME Init PROVE CodesOK
  OBVIOUS
<1>1. codes = <<>> /\ calls = 0 /\ \A r \in Requests : req[r].op = "none" /\ req[r].start = 0
  BY DEF Init, Idle
<1> QED
  BY <1>1 DEF CodesOK, CodeInv, OrderInv, CodeServes

LEMMA NextCodes ==
  ASSUME TypeInv, CodesOK, [Next]_vars
  PROVE  CodesOK'
<1>q. ASSUME NEW r \in Requests, Ends(r), calls' = calls PROVE \A x \in Requests : Quiet(x)
  <2>1. req'[r].start = 0 /\ req'[r].op = "none"
    BY <1>q DEF Ends, Idle, TypeInv
  <2> QED
    BY <1>q, <2>1, EndFields, CodesTyped DEF Quiet, CodesOK, CodeInv
<1>1. CASE Opening
  <2>1. UNCHANGED <<codes, req, crossed>> /\ calls' = calls + 1
    BY <1>1, OpeningEffect
  <2>2. \A x \in Requests : Quiet(x)
    BY <2>1, CodesTyped DEF Quiet, CodesOK, CodeInv
  <2> QED
    BY <2>1, <2>2, CodesTyped, CodesKept
<1>2. CASE CodesExpire \/ HourPasses
  <2>1. UNCHANGED <<req, crossed, calls>>
    BY <1>2 DEF CodesExpire, HourPasses
  <2>2. /\ codes' \in Seq(Code) /\ Len(codes') = Len(codes)
        /\ \A c \in DOMAIN codes :
             codes'[c] = [codes[c] EXCEPT !.expired = TRUE, !.recent = @ /\ ~HourPasses]
    BY <1>2, PassEffect
  <2>3. ASSUME NEW c \in DOMAIN codes
        PROVE  /\ codes'[c].used = codes[c].used /\ codes'[c].logins = codes[c].logins
               /\ codes'[c].attempts = codes[c].attempts /\ codes'[c].wrong = codes[c].wrong
               /\ codes'[c].start = codes[c].start /\ codes'[c].expired
    <3>1. codes[c] \in Code
      BY CodesTyped
    <3> QED
      BY <2>2, <3>1 DEF Code
  <2>4. DOMAIN codes' = DOMAIN codes
    <3>1. codes' \in Seq(Code) /\ Len(codes') = Len(codes)
      BY <2>2
    <3>2. DOMAIN codes' = 1 .. Len(codes')
      BY <3>1, LenProperties
    <3> QED
      BY <3>1, <3>2, CodesTyped
  <2> QED
    BY <2>1, <2>3, <2>4, CodesClose
<1>3. ASSUME NEW t \in DOMAIN tokens, TokenExpires(t) PROVE CodesOK'
  <2>1. UNCHANGED <<codes, req, crossed, calls>>
    BY <1>3 DEF TokenExpires
  <2>2. \A x \in Requests : Quiet(x)
    BY <2>1 DEF Quiet, CodesOK, CodeInv
  <2> QED
    BY <2>1, <2>2, CodesTyped, CodesKept
<1>4. ASSUME NEW r \in Requests, Call(r) PROVE CodesOK'
  BY <1>4, CallBegins, CodesBegin
<1>5. ASSUME NEW r \in Requests, Step(r) PROVE CodesOK'
  <2>1. CASE \/ IssueTokens(r) \/ IssueAccess(r) \/ RotateToken(r) \/ RevokeToken(r) \/ StorePassword(r)
             \/ StoreDecision(r) \/ StoreActive(r) \/ StoreAdmin(r) \/ StoreDeletion(r) \/ Abort(r)
    <3>1. Ends(r) /\ UNCHANGED <<codes, crossed, calls>>
      BY <2>1 DEF IssueTokens, IssueAccess, RotateToken, RevokeToken, StorePassword, StoreDecision,
                  StoreActive, StoreAdmin, StoreDeletion, Abort, End, Ends
    <3> QED
      BY <3>1, <1>q, CodesTyped, CodesKept
  <2> QED
    BY <1>5, <2>1, CodesSend, CodesStore, CodesRefuse, CodesAccept DEF Step
<1>6. CASE UNCHANGED vars
  <2>1. UNCHANGED <<codes, req, crossed, calls>>
    BY <1>6 DEF vars
  <2>2. \A x \in Requests : Quiet(x)
    BY <2>1 DEF Quiet, CodesOK, CodeInv
  <2> QED
    BY <2>1, <2>2, CodesTyped, CodesKept
<1> QED
  BY <1>1, <1>2, <1>3, <1>4, <1>5, <1>6, Steps

-----------------------------------------------------------------------------
(* The limit of codes per hour.                                            *)

LEMMA RecentFinite ==
  ASSUME TypeInv
  PROVE  /\ IsFiniteSet(Recent) /\ Cardinality(Recent) \in Nat
         /\ IsFiniteSet(Asking) /\ Cardinality(Asking) \in Nat
         /\ Cardinality(Requests) \in Nat /\ Cardinality(Asking) <= Cardinality(Requests)
<1>1. Recent \subseteq 1 .. Len(codes) /\ IsFiniteSet(1 .. Len(codes))
  BY CodesTyped, FS_Interval DEF Recent
<1>2. Asking \subseteq Requests /\ IsFiniteSet(Requests)
  BY Parameters DEF Asking
<1> QED
  BY <1>1, <1>2, FS_Subset, FS_CardinalityType

LEMMA OneMore ==
  ASSUME NEW S, NEW x, IsFiniteSet(S)
  PROVE  IsFiniteSet(S \cup {x}) /\ Cardinality(S \cup {x}) <= Cardinality(S) + 1
<1>1. Cardinality(S) \in Nat
  BY FS_CardinalityType
<1>2. IsFiniteSet(S \cup {x})
  BY FS_AddElement
<1>3. Cardinality(S \cup {x}) = IF x \in S THEN Cardinality(S) ELSE Cardinality(S) + 1
  BY FS_AddElement
<1> QED
  BY <1>1, <1>2, <1>3

\* No more codes of the hour, no more requests for one.
LEMMA RecentKept ==
  ASSUME TypeInv, RecentInv, Recent' \subseteq Recent, Asking' \subseteq Asking
  PROVE  RecentInv'
<1>1. /\ Cardinality(Recent') \in Nat /\ Cardinality(Recent') <= Cardinality(Recent)
      /\ Cardinality(Asking') \in Nat /\ Cardinality(Asking') <= Cardinality(Asking)
  BY RecentFinite, FS_Subset, FS_CardinalityType
<1> QED
  BY <1>1, RecentFinite, Parameters DEF RecentInv

LEMMA NextRecent ==
  ASSUME TypeInv, TypeInv', RecentInv, [Next]_vars
  PROVE  RecentInv'
<1>e. ASSUME NEW r \in Requests, Ends(r) PROVE Asking' = Asking \ {r}
  BY <1>e, EndFields DEF Asking
<1>c. ASSUME NEW r \in Requests, Ends(r), codes' = codes PROVE RecentInv'
  BY <1>c, <1>e, RecentKept DEF Recent
<1>1. CASE Opening
  BY <1>1, OpeningEffect, RecentKept DEF Recent, Asking
<1>2. CASE CodesExpire \/ HourPasses
  <2>1. req' = req
    BY <1>2 DEF CodesExpire, HourPasses
  <2>2. /\ codes' \in Seq(Code) /\ Len(codes') = Len(codes)
        /\ \A c \in DOMAIN codes :
             codes'[c] = [codes[c] EXCEPT !.expired = TRUE, !.recent = @ /\ ~HourPasses]
    BY <1>2, PassEffect
  <2>3. DOMAIN codes' = DOMAIN codes
    BY <2>2, LenProperties, CodesTyped
  <2>4. ASSUME NEW c \in DOMAIN codes PROVE codes'[c].recent => codes[c].recent
    <3>1. codes[c] \in Code
      BY CodesTyped
    <3> QED
      BY <2>2, <3>1 DEF Code
  <2> QED
    BY <2>1, <2>3, <2>4, RecentKept DEF Recent, Asking
<1>3. ASSUME NEW t \in DOMAIN tokens, TokenExpires(t) PROVE RecentInv'
  BY <1>3, RecentKept DEF TokenExpires, Recent, Asking
<1>4. ASSUME NEW r \in Requests, Call(r) PROVE RecentInv'
  <2>1. PICK q \in Request : Begins(r, q)
    BY <1>4, CallBegins
  <2>2. codes' = codes /\ req'[r].op = q.op /\ \A x \in Requests \ {r} : Changed(x, q)
    BY <2>1, BeginFields
  <2>3. CASE q.op = "request"
    <3>1. Recent' = Recent /\ Cardinality(Recent) < CodesPerHour
      BY <2>1, <2>2, <2>3 DEF Begins, WithinLimit, Recent
    <3>2. Asking' \subseteq Requests
      BY DEF Asking
    <3>3. Cardinality(Asking') \in Nat /\ Cardinality(Asking') <= Cardinality(Requests)
      BY <3>2, Parameters, FS_Subset, FS_CardinalityType
    <3> QED
      BY <3>1, <3>3, RecentFinite, Parameters DEF RecentInv
  <2>4. CASE q.op # "request"
    BY <2>2, <2>4, RecentKept DEF Recent, Asking, Changed
  <2> QED
    BY <2>3, <2>4
<1>5. ASSUME NEW r \in Requests, Step(r) PROVE RecentInv'
  <2>1. CASE SendCode(r)
    BY <2>1, SendFields, RecentKept DEF SendCode, Recent, Asking
  <2>2. CASE StoreCode(r)
    <3> DEFINE n == Len(codes) + 1
    <3>1. Ends(r) /\ r \in Asking /\ Asking' = Asking \ {r}
      BY <2>2, <1>e DEF StoreCode, Ends, TypeInv, Refers, Asking
    <3>2. Recent' \subseteq Recent \cup {n}
      <4>1. /\ codes' \in Seq(Code) /\ Len(codes') = n
            /\ \A c \in DOMAIN codes :
                 codes'[c] = IF c \in req[r].writes THEN [codes[c] EXCEPT !.expired = TRUE] ELSE codes[c]
        BY <2>2, StoreEffect
      <4>2. DOMAIN codes' \subseteq DOMAIN codes \cup {n}
        BY <4>1, LenProperties, CodesTyped
      <4>3. ASSUME NEW c \in DOMAIN codes PROVE codes'[c].recent = codes[c].recent
        <5>1. codes[c] \in Code
          BY CodesTyped
        <5> QED
          BY <4>1, <5>1 DEF Code
      <4> QED
        BY <4>2, <4>3 DEF Recent
    <3>3. IsFiniteSet(Recent \cup {n}) /\ Cardinality(Recent \cup {n}) <= Cardinality(Recent) + 1
      <4>1. IsFiniteSet(Recent) /\ Cardinality(Recent) \in Nat
        BY RecentFinite
      <4> HIDE DEF n
      <4> QED
        BY <4>1, OneMore
    <3>4. Cardinality(Recent') \in Nat /\ Cardinality(Recent') <= Cardinality(Recent) + 1
      BY <3>2, <3>3, RecentFinite, FS_Subset, FS_CardinalityType
    <3>5. Cardinality(Asking') = Cardinality(Asking) - 1
      BY <3>1, RecentFinite, FS_RemoveElement
    <3> QED
      BY <3>4, <3>5, RecentFinite, Parameters DEF RecentInv
  <2>3. CASE RefuseCode(r) \/ AcceptCode(r)
    <3>1. Ends(r)
      BY <2>3 DEF RefuseCode, AcceptCode, End, Ends
    <3>2. PICK d : CodeAt(codes', req[r].code, d) /\ d.recent = codes[req[r].code].recent
      <4>1. CASE RefuseCode(r)
        <5> DEFINE c == req[r].code
                   n == req[r].seen[c].attempts + 1
                   d == [codes[c] EXCEPT !.wrong = @ + 1, !.attempts = n,
                                         !.expired = @ \/ n >= MaxAttempts]
        <5>1. CodeAt(codes', c, d) /\ codes[c] \in Code
          BY <4>1, WrongTryEffect, CodesTyped DEF RefuseCode, End
        <5>2. d.recent = codes[c].recent
          BY <5>1 DEF Code
        <5> QED
          BY <5>1, <5>2
      <4>2. CASE AcceptCode(r)
        <5> DEFINE c == req[r].code
                   d == [codes[c] EXCEPT !.used = TRUE, !.logins = @ + 1]
        <5>1. CodeAt(codes', c, d) /\ codes[c] \in Code
          BY <4>2, AcceptEffect, CodesTyped
        <5>2. d.recent = codes[c].recent
          BY <5>1 DEF Code
        <5> QED
          BY <5>1, <5>2
      <4> QED
        BY <2>3, <4>1, <4>2
    <3>3. DOMAIN codes' = DOMAIN codes /\ Recent' = Recent
      BY <3>2, CodesTyped DEF CodeAt, Recent
    <3> QED
      BY <3>1, <3>3, <1>e, RecentKept
  <2>4. CASE \/ IssueTokens(r) \/ IssueAccess(r) \/ RotateToken(r) \/ RevokeToken(r) \/ StorePassword(r)
             \/ StoreDecision(r) \/ StoreActive(r) \/ StoreAdmin(r) \/ StoreDeletion(r) \/ Abort(r)
    BY <2>4, <1>c DEF IssueTokens, IssueAccess, RotateToken, RevokeToken, StorePassword, StoreDecision,
                      StoreActive, StoreAdmin, StoreDeletion, Abort, End, Ends
  <2> QED
    BY <1>5, <2>1, <2>2, <2>3, <2>4 DEF Step
<1>6. CASE UNCHANGED vars
  BY <1>6, RecentKept DEF vars, Recent, Asking
<1> QED
  BY <1>1, <1>2, <1>3, <1>4, <1>5, <1>6, Steps

-----------------------------------------------------------------------------
(* The theorems.                                                           *)

LEMMA InitInv == Init => IInv
<1> SUFFICES ASSUME Init PROVE IInv
  OBVIOUS
<1>1. TypeInv /\ TokenInv /\ CodesOK
  BY InitTypes, InitTokens, InitCodes
<1>2. \A r \in Requests : req[r].op = "none" /\ ~shut
  BY DEF Init, Idle
<1>3. ~shut
  BY DEF Init
<1>4. RecentInv
  <2>1. Recent = {} /\ Asking = {}
    BY <1>2 DEF Recent, Asking, Init
  <2>2. Cardinality(Recent) = 0 /\ Cardinality(Asking) = 0
    BY <2>1, FS_EmptySet
  <2> QED
    BY <1>1, <2>2, RecentFinite, Parameters DEF RecentInv
<1> QED
  BY <1>1, <1>2, <1>3, <1>4 DEF IInv, CodesOK, ShutInv, ShutOut, AccountOps

LEMMA NextInv == IInv /\ [Next]_vars => IInv'
<1> SUFFICES ASSUME IInv, [Next]_vars PROVE IInv'
  OBVIOUS
<1>1. TypeInv'
  BY NextTypes DEF IInv
<1>2. RecentInv'
  BY <1>1, NextRecent DEF IInv
<1>3. ShutInv' /\ ShutOut'
  BY NextShut DEF IInv
<1>4. TokenInv'
  BY NextTokens DEF IInv
<1>5. CodesOK'
  BY NextCodes DEF IInv, CodesOK
<1> QED
  BY <1>1, <1>2, <1>3, <1>4, <1>5 DEF IInv, CodesOK

LEMMA Invariant == Spec => []IInv
  BY InitInv, NextInv, PTL DEF Spec

\* Types, and that never more codes of one hour are stored than the limit and
\* one less than there are requests at once (request_otp counts the codes of
\* the hour in one statement and inserts in another).
THEOREM Typed == Spec => []TypeOK
<1>1. ASSUME IInv PROVE TypeOK
  <2>1. TypeInv /\ Cardinality(Recent) < CodesPerHour + Cardinality(Requests)
    BY <1>1, RecentFinite, Parameters DEF IInv, RecentInv
  <2>2. ASSUME NEW r \in Requests
        PROVE  /\ req[r].at \in {"idle", "ready", "sent"} /\ req[r].op \in Ops
               /\ req[r].writes \subseteq DOMAIN codes
    BY <2>1 DEF TypeInv, Refers, Request
  <2> QED
    BY <2>1, <2>2 DEF TypeInv, TypeOK
<1> QED
  BY <1>1, Invariant, PTL

\* An account that is shut is not let in by any way until it is opened again
\* (approve_member, PATCH /users/{id}, and every call that logs in).
THEOREM ShutAccountsStayOut == Spec => []ShutOut
<1>1. IInv => ShutOut
  BY DEF IInv
<1> QED
  BY <1>1, Invariant, PTL

\* A login that no two requests refreshed at once has one live refresh token,
\* for every number of logins, rotations and logouts (refresh).
THEOREM OneLiveToken == Spec => []OneLive
<1>1. IInv => OneLive
  BY DEF IInv, TokenInv
<1> QED
  BY <1>1, Invariant, PTL

\* The code that opens the account is the last one sent, opens it for the
\* first time, and was not tried in vain too often, where nothing overlapped
\* (request_otp, verify_otp_login).
THEOREM CodesServe == Spec => []CodeServes
<1>1. IInv => CodeServes
  BY DEF IInv
<1> QED
  BY <1>1, Invariant, PTL
=============================================================================
