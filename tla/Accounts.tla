-------------------------------- MODULE Accounts --------------------------------
(***************************************************************************)
(* The users table and the calls of AuthService (src/services/auth.service *)
(* .ts, src/models/user.model.ts) behind the authLimiter of the routes,    *)
(* whose count is that of one address.                                     *)
(* bcrypt runs outside the event loop: what a call has read may be old by  *)
(* the time it goes on.  Emails stand for ids: delete only marks a row.    *)
(***************************************************************************)
EXTENDS Naturals, FiniteSets

CONSTANTS
  Op,        \* calls
  Email,
  Password,
  AuthMax,   \* authLimiter: max
  LastWindow \* bound: windows of the limiter

ASSUME AccountsAssumption == {AuthMax, LastWindow} \subseteq Nat

VARIABLES
  userStatus,  \* status of each row, or "absent"
  password,    \* what password_hash was made of; meaningless without a row
  op,          \* the calls
  hits,        \* authLimiter's count in this window
  window,      \* the limiter's window
  failures,    \* history: refused attempts that were counted in this window
  late         \* history: hits of this window taken back for an earlier one's call

accountVars == <<userStatus, password, op, hits, window, failures, late>>

\* `seen` is the password read, `active` the status read with it.
IdleOp == [kind |-> "none", email |-> "none", old |-> "none", new |-> "none", pc |-> "idle",
           seen |-> "none", active |-> FALSE, in |-> 0, answer |-> "none"]

AccountsInit ==
  /\ userStatus = [e \in Email |-> "absent"]
  /\ password \in {[e \in Email |-> p] : p \in Password}
  /\ op = [o \in Op |-> IdleOp]
  /\ hits = 0 /\ window = 0 /\ failures = 0 /\ late = 0

Goes(o, place) == op' = [op EXCEPT ![o].pc = place]
Answers(o, a) == op' = [op EXCEPT ![o].pc = "done", ![o].answer = a]

Limited(o) == op[o].kind \in {"register", "login"}

\* skipSuccessfulRequests: an answer below 400 takes a hit back, from the window that
\* runs by then; another answer leaves it.
ForgetHit(o, a) ==
  /\ hits' = IF Limited(o) /\ a = "ok" /\ hits > 0 THEN hits - 1 ELSE hits
  /\ late' = IF Limited(o) /\ a = "ok" /\ hits > 0 /\ op[o].in # window THEN late + 1 ELSE late
  /\ failures' = IF Limited(o) /\ a # "ok" /\ op[o].in = window THEN failures + 1 ELSE failures

RequestEnds(o, a) == Answers(o, a) /\ ForgetHit(o, a) /\ UNCHANGED window

\* A call that is answered, or goes on, before anything is awaited.
Begins(o, record, a) ==
  /\ op' = [op EXCEPT ![o] = IF a = "none" THEN record
                             ELSE [record EXCEPT !.pc = "done", !.answer = a]]
  /\ IF record.kind = "change" THEN UNCHANGED <<hits, failures>>
     ELSE /\ hits' = hits + 1
          /\ failures' = IF a \in {"none", "limited"} THEN failures ELSE failures + 1
  /\ UNCHANGED <<userStatus, password, window, late>>

Admitted == hits < AuthMax

\* POST /auth/register up to UserModel.create's await of the hash.
Register(o, e, p) ==
  /\ op[o].pc = "idle"
  /\ Begins(o, [IdleOp EXCEPT !.kind = "register", !.email = e, !.new = p, !.pc = "hashing",
                              !.in = window],
            CASE ~Admitted -> "limited" [] Admitted /\ userStatus[e] # "absent" -> "conflict"
              [] OTHER -> "none")

\* Mutant: the row is replaced.
InsertRowReplaces(o) ==
  /\ op[o].kind = "register" /\ op[o].pc = "hashing"
  /\ userStatus' = [userStatus EXCEPT ![op[o].email] = "active"]
  /\ password' = [password EXCEPT ![op[o].email] = op[o].new]
  /\ RequestEnds(o, "ok")

\* INSERT INTO users: a row that came meanwhile makes it throw.
InsertRow(o) ==
  /\ op[o].kind = "register" /\ op[o].pc = "hashing"
  /\ IF userStatus[op[o].email] # "absent"
     THEN RequestEnds(o, "failed") /\ UNCHANGED <<userStatus, password>>
     ELSE /\ userStatus' = [userStatus EXCEPT ![op[o].email] = "active"]
          /\ password' = [password EXCEPT ![op[o].email] = op[o].new]
          /\ RequestEnds(o, "ok")

\* POST /auth/login up to verifyPassword's await of the comparison.
Login(o, e, p) ==
  /\ op[o].pc = "idle"
  /\ Begins(o, [IdleOp EXCEPT !.kind = "login", !.email = e, !.old = p, !.pc = "comparing",
                              !.seen = password[e], !.active = userStatus[e] = "active",
                              !.in = window],
            CASE ~Admitted -> "limited" [] Admitted /\ userStatus[e] = "absent" -> "refused"
              [] OTHER -> "none")

\* The comparison is over: login goes by the row that was read before it.
Compared(o) ==
  /\ op[o].kind = "login" /\ op[o].pc = "comparing"
  /\ RequestEnds(o, IF op[o].old = op[o].seen /\ op[o].active THEN "ok" ELSE "refused")
  /\ UNCHANGED <<userStatus, password>>

\* POST /auth/change-password with a token of the account: authenticate reads the row,
\* so does verifyPassword.
ChangePassword(o, e, old, new) ==
  /\ op[o].pc = "idle" /\ userStatus[e] # "absent"
  /\ Begins(o, [IdleOp EXCEPT !.kind = "change", !.email = e, !.old = old, !.new = new,
                              !.pc = "comparing", !.seen = password[e], !.in = window],
            IF userStatus[e] = "active" THEN "none" ELSE "refused")

\* The old password was compared with the one read before: the new one is hashed.
Verified(o) ==
  /\ op[o].kind = "change" /\ op[o].pc = "comparing"
  /\ IF op[o].old = op[o].seen
     THEN Goes(o, "rehashing") /\ UNCHANGED <<hits, window, failures, late>>
     ELSE RequestEnds(o, "refused")
  /\ UNCHANGED <<userStatus, password>>

\* updatePassword: the new hash is written, whatever was written meanwhile.
UpdatePassword(o) ==
  /\ op[o].kind = "change" /\ op[o].pc = "rehashing"
  /\ password' = [password EXCEPT ![op[o].email] = op[o].new]
  /\ RequestEnds(o, "ok")
  /\ UNCHANGED userStatus

\* UserModel.delete, and update of the status.
SetUserStatus(e, s) ==
  /\ userStatus[e] # "absent"
  /\ userStatus' = [userStatus EXCEPT ![e] = s]
  /\ UNCHANGED <<password, op, hits, window, failures, late>>

\* The limiter's store is emptied every fifteen minutes.
NextWindow ==
  /\ window < LastWindow
  /\ window' = window + 1
  /\ hits' = 0 /\ failures' = 0 /\ late' = 0
  /\ UNCHANGED <<userStatus, password, op>>

Steps(o) == InsertRow(o) \/ Compared(o) \/ Verified(o) \/ UpdatePassword(o)

AccountsNext ==
  \/ \E o \in Op :
       \/ Steps(o)
       \/ \E e \in Email, p \in Password :
            Register(o, e, p) \/ Login(o, e, p) \/ \E q \in Password : ChangePassword(o, e, p, q)
  \/ \E e \in Email, s \in {"active", "inactive"} : SetUserStatus(e, s)
  \/ NextWindow

AccountsSpec == AccountsInit /\ [][AccountsNext]_accountVars

-----------------------------------------------------------------------------
AccountsTypeOK ==
  /\ userStatus \in [Email -> {"absent", "active", "inactive"}]
  /\ password \in [Email -> Password]
  /\ \A o \in Op :
       /\ op[o].pc \in {"idle", "hashing", "comparing", "rehashing", "done"}
       /\ op[o].answer \in {"none", "ok", "limited", "conflict", "refused", "failed"}
       /\ (op[o].answer # "none") = (op[o].pc = "done")
  /\ {hits, window, failures, late} \subseteq Nat

Done(o, kind, e) == op[o].kind = kind /\ op[o].email = e /\ op[o].answer = "ok"

\* Of the registrations of one address that pass the check before the hash together, one
\* is answered with an account, and there is no account without one.
OneAccountPerEmail ==
  \A e \in Email :
    /\ Cardinality({o \in Op : Done(o, "register", e)}) <= 1
    /\ (userStatus[e] # "absent") = (\E o \in Op : Done(o, "register", e))

\* The password of an account is one that a call answered with success had set for it.
PasswordWasSet ==
  \A e \in Email : userStatus[e] # "absent" =>
    \E o \in Op : op[o].new = password[e] /\ (Done(o, "register", e) \/ Done(o, "change", e))

\* In a window no more attempts fail than the limiter lets through, but for the hits that
\* calls of an earlier window took from this one by succeeding late.
FailuresAreLimited == failures <= AuthMax + late

\* The accounts are those the answered calls made of them, in whatever order calls that
\* hash and compare overlap.
AccountsAreSound ==
  AccountsTypeOK /\ OneAccountPerEmail /\ PasswordWasSet /\ FailuresAreLimited
==================================================================================
