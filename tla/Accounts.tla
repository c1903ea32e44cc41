-------------------------------- MODULE Accounts --------------------------------
(***************************************************************************)
(* One account of the panel: registration, the links sent by e-mail        *)
(* (packages/db/src/auth/tokens.ts), the change of the password, login and *)
(* logout, moderation, for server actions that overlap in any way.         *)
(*                                                                         *)
(* clock counts the times the code takes a time stamp, so that no two are  *)
(* equal.  A request the rate limiter refuses changes nothing and is not   *)
(* an action; RateLimiter models the limiter.                              *)
(***************************************************************************)
EXTENDS Credentials, FiniteSets

CONSTANTS
  Request,    \* server actions under way at once
  MaxTokens,  \* bound on the links issued
  MaxClock,   \* bound on the time stamps taken
  Env         \* what may happen: "reset", "verify", "moderate", "db", "register", "logout"

VARIABLES
  clock,    \* number of time stamps taken
  req       \* req[r]: the action r is executing

vars == <<clock, user, tokens, req, cookie, page>>

Type == {"password_reset", "email_verify"}
Status == {"none", "active", "suspended", "banned"}

Free == [op |-> "idle", pc |-> "", token |-> 0, from |-> 0, seen |-> 0, browser |-> Nobody]

Init ==
  /\ clock = 0
  /\ user \in {[status |-> s, pw |-> 0, validFrom |-> 0, written |-> 0, verified |-> FALSE,
             role |-> "owner"] :
                 s \in {"none", "active"}}
  /\ tokens = <<>>
  /\ req = [r \in Request |-> Free]
  /\ cookie = [b \in Browser |-> Nobody]
  /\ page = [b \in Browser |-> [at |-> "/login", is |-> "shown"]]

Stamp == clock < MaxClock /\ clock' = clock + 1
Begin(r, rec) == req[r] = Free /\ req' = [req EXCEPT ![r] = rec]
End(r) == req' = [req EXCEPT ![r] = Free]

-----------------------------------------------------------------------------
(* issueAuthToken *)

\* requestPasswordResetAction: only an active account gets a link.
AskReset(r) ==
  /\ "reset" \in Env /\ user.status = "active"
  /\ Begin(r, [Free EXCEPT !.op = "password_reset", !.pc = "void"])
  /\ UNCHANGED <<clock, user, tokens, cookie, page>>

\* resendVerificationAction: the user is logged in and not confirmed.
AskVerify(r) ==
  /\ "verify" \in Env /\ \E b \in Browser : Session(b) = "ok"
  /\ ~ user.verified
  /\ Begin(r, [Free EXCEPT !.op = "email_verify", !.pc = "void"])
  /\ UNCHANGED <<clock, user, tokens, cookie, page>>

\* The transaction marks the unused links of the type that it sees ...
VoidOld(r) ==
  /\ req[r].pc = "void" /\ Stamp
  /\ tokens' = [i \in DOMAIN tokens |->
       IF tokens[i].type = req[r].op THEN [tokens[i] EXCEPT !.used = TRUE] ELSE tokens[i]]
  /\ req' = [req EXCEPT ![r].pc = "insert", ![r].from = clock]
  /\ UNCHANGED <<user, cookie, page>>

\* ... and commits with the new one, which is sent by e-mail.
InsertNew(r) ==
  /\ req[r].pc = "insert" /\ Cardinality(DOMAIN tokens) < MaxTokens /\ Stamp
  /\ tokens' = [i \in DOMAIN tokens \cup {Cardinality(DOMAIN tokens) + 1} |->
       IF i \in DOMAIN tokens THEN tokens[i]
       ELSE [type |-> req[r].op, used |-> FALSE, expired |-> FALSE, spent |-> 0,
             from |-> req[r].from, to |-> clock]]
  /\ End(r)
  /\ UNCHANGED <<user, cookie, page>>

\* TOKEN_TTL_MS passes.
ExpireToken(i) ==
  /\ Live(tokens[i])
  /\ tokens' = [tokens EXCEPT ![i].expired = TRUE]
  /\ UNCHANGED <<clock, user, req, cookie, page>>

-----------------------------------------------------------------------------
(* consumeAuthToken and what it is asked for *)

\* The conditional UPDATE: one statement finds the link unused and marks it.
Consume(i) == tokens' = [tokens EXCEPT ![i].used = TRUE, ![i].spent = @ + 1]

\* resetPasswordAction and confirmEmailToken up to the link: the page of the
\* link needs no session.
OpenLink(r, i) ==
  /\ Live(tokens[i])
  /\ Consume(i)
  /\ Begin(r, [Free EXCEPT !.op = IF tokens[i].type = "password_reset" THEN "reset" ELSE "confirm",
                           !.pc = IF tokens[i].type = "password_reset" THEN "hash" ELSE "write",
                           !.token = i])
  /\ UNCHANGED <<clock, user, cookie, page>>

\* The new password is hashed, then the time of the change is taken.
HashPassword(r) ==
  /\ req[r].pc = "hash" /\ Stamp
  /\ req' = [req EXCEPT ![r].pc = "write", ![r].seen = clock + 1]
  /\ UNCHANGED <<user, tokens, cookie, page>>

\* Mutant: the change of the password leaves sessions_valid_from alone.
WritePasswordOnly(r) ==
  /\ req[r].op = "reset" /\ req[r].pc = "write"
  /\ user' = [user EXCEPT !.pw = req[r].seen, !.verified = TRUE, !.written = clock]
  /\ End(r)
  /\ UNCHANGED <<clock, tokens, cookie, page>>

WritePassword(r) ==
  /\ req[r].op = "reset" /\ req[r].pc = "write"
  /\ user' = [user EXCEPT !.pw = req[r].seen, !.validFrom = req[r].seen, !.verified = TRUE,
                          !.written = clock]
  /\ End(r)
  /\ UNCHANGED <<clock, tokens, cookie, page>>

WriteVerified(r) ==
  /\ req[r].op = "confirm" /\ req[r].pc = "write"
  /\ user' = [user EXCEPT !.verified = TRUE]
  /\ End(r)
  /\ UNCHANGED <<clock, tokens, cookie, page>>

\* The UPDATE of the account throws: the link stays spent.
WriteFails(r) ==
  /\ "db" \in Env /\ req[r].pc = "write"
  /\ End(r)
  /\ UNCHANGED <<clock, user, tokens, cookie, page>>

-----------------------------------------------------------------------------
(* Registration, login, logout, moderation *)

\* registerAction: one transaction, then the confirmation link and a login.
Register(r, b) ==
  /\ "register" \in Env /\ user.status = "none" /\ Stamp
  /\ user' = [user EXCEPT !.status = "active"]
  /\ cookie' = [cookie EXCEPT ![b] = 
       [loginAt |-> clock + 1, pw |-> 0, read |-> clock, role |-> user.role]]
  /\ page' = [page EXCEPT ![b] = [at |-> "/", is |-> "get"]]
  /\ Begin(r, [Free EXCEPT !.op = "email_verify", !.pc = "void"])
  /\ UNCHANGED tokens

\* authorize reads the account and checks password and status on what it read;
\* the password typed is the one that is valid now.
LogIn(r, b) ==
  /\ user.status = "active" /\ page[b] = [at |-> "/login", is |-> "shown"]
  /\ Begin(r, [op |-> "login", pc |-> "compare", token |-> 0, from |-> clock, seen |-> user.pw,
               browser |-> b])
  /\ UNCHANGED <<clock, user, tokens, cookie, page>>

\* The jwt callback stamps the cookie when all that is done.
IssueSession(r) ==
  LET b == req[r].browser IN
  /\ req[r].op = "login" /\ Stamp
  /\ cookie' = [cookie EXCEPT ![b] =
       [loginAt |-> clock + 1, pw |-> req[r].seen, read |-> req[r].from, role |-> user.role]]
  /\ page' = [page EXCEPT ![b] = [at |-> "/", is |-> "get"]]
  /\ End(r)
  /\ UNCHANGED <<user, tokens>>

\* signOut: the user menu of a page that needs a session, or the notice of a
\* blocked account.
LogOut(b) ==
  /\ "logout" \in Env /\ cookie[b] # Nobody
  /\ page[b].is = "shown" /\ page[b].at \in {"/", "/admin", "/login?blocked"}
  /\ cookie' = [cookie EXCEPT ![b] = Nobody]
  /\ page' = [page EXCEPT ![b] = [at |-> "/login", is |-> "get"]]
  /\ UNCHANGED <<clock, user, tokens, req>>

\* setUserStatusAction: the operator moves the account to another state.
SetUserStatus(s) ==
  /\ "moderate" \in Env /\ user.status \notin {"none", s} /\ s # "none"
  /\ user' = [user EXCEPT !.status = s]
  /\ UNCHANGED <<clock, tokens, req, cookie, page>>

\* A role changed outside the panel, which only reads it.
SetRole(role) ==
  /\ "moderate" \in Env /\ user.role # role
  /\ user' = [user EXCEPT !.role = role]
  /\ UNCHANGED <<clock, tokens, req, cookie, page>>

-----------------------------------------------------------------------------
(* Pages: a browser asks, the server answers *)

Open(b, path) == Visit(b, path) /\ UNCHANGED <<clock, req>>
Serve(b) == Get(b) /\ UNCHANGED <<clock, req>>

-----------------------------------------------------------------------------

Next ==
  \/ \E r \in Request :
       \/ AskReset(r) \/ AskVerify(r) \/ VoidOld(r) \/ InsertNew(r)
       \/ HashPassword(r) \/ WritePassword(r) \/ WriteVerified(r) \/ WriteFails(r)
       \/ IssueSession(r)
       \/ \E i \in DOMAIN tokens : OpenLink(r, i)
       \/ \E b \in Browser : Register(r, b) \/ LogIn(r, b)
  \/ \E i \in DOMAIN tokens : ExpireToken(i)
  \/ \E s \in Status : SetUserStatus(s)
  \/ \E role \in {"owner", "admin"} : SetRole(role)
  \/ \E b \in Browser : LogOut(b) \/ Serve(b) \/ \E path \in Path : Open(b, path)

Spec == Init /\ [][Next]_vars

\* The server answers every page asked for.
Fairness == \A b \in Browser : WF_vars(Serve(b))
FairSpec == Spec /\ Fairness

-----------------------------------------------------------------------------
(* Properties *)

TypeOK ==
  /\ clock \in 0 .. MaxClock
  /\ user \in [status : Status, pw : 0 .. MaxClock, validFrom : 0 .. MaxClock,
               written : 0 .. MaxClock, verified : BOOLEAN, role : {"owner", "admin"}]
  /\ DOMAIN tokens = 1 .. Cardinality(DOMAIN tokens)
  /\ \A i \in DOMAIN tokens :
       tokens[i] \in [type : Type, used : BOOLEAN, expired : BOOLEAN, spent : Nat,
                      from : 0 .. MaxClock, to : 0 .. MaxClock]
  /\ \A r \in Request : req[r].pc \in {"", "void", "insert", "hash", "write", "compare"}
  /\ \A b \in Browser : cookie[b] # Nobody => cookie[b].loginAt \in 1 .. MaxClock
  /\ page \in [Browser -> [at : Path, is : {"get", "shown"}]]
=============================================================================
