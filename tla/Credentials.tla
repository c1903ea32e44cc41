------------------------------ MODULE Credentials ------------------------------
(***************************************************************************)
(* What opens an account: the links sent by e-mail and the session a       *)
(* browser carries as a signed cookie; and what middleware and layouts     *)
(* answer to that browser (apps/web/src/lib/auth.config.ts, lib/auth.ts,   *)
(* app/(dashboard)/layout.tsx, app/admin/layout.tsx).                      *)
(*                                                                         *)
(* A cookie cannot be withdrawn: what ends a session is that every request *)
(* reads the account again and compares the time of the login with         *)
(* users.sessions_valid_from.                                              *)
(***************************************************************************)
EXTENDS Integers

CONSTANTS
  Browser,  \* browsers of the user
  Nobody    \* no session

VARIABLES
  user,     \* the row of users, and when its password was written (history)
  tokens,   \* tokens[i]: the i-th link issued
  cookie,   \* cookie[b]: the session of browser b, or Nobody
  page      \* page[b]: what b asks for ("get") or shows ("shown")

\* Pages that are answered alike are one: "/login" is /register and
\* /forgot-password too, "/link" the page of a link, "/" the panel.
Public == {"/login", "/login?blocked", "/link"}
Path == {"/", "/admin"} \cup Public

Live(t) == ~ t.used /\ ~ t.expired

-----------------------------------------------------------------------------
(* The session of a browser: requireSession *)

\* The cookie is of an earlier login than the last change of the password.
Outdated(b) == cookie[b] # Nobody /\ cookie[b].loginAt < user.validFrom

Session(b) ==
  CASE cookie[b] = Nobody \/ Outdated(b) -> "none"
    [] cookie[b] # Nobody /\ ~ Outdated(b) /\ user.status # "active" -> "blocked"
    [] OTHER -> "ok"

-----------------------------------------------------------------------------
(* Pages *)

\* Mutant: the middleware makes no exception for the notice of a blocked account.
MiddlewareStrict(b, path) ==
  CASE path \in Public -> IF cookie[b] # Nobody THEN "/" ELSE path
    [] path = "/admin" ->
         IF cookie[b] = Nobody THEN "/login"
         ELSE IF cookie[b].role # "admin" THEN "/" ELSE path
    [] OTHER -> IF cookie[b] = Nobody THEN "/login" ELSE path

\* The authorized callback of the middleware: it knows the cookie only.
Middleware(b, path) ==
  CASE path \in Public ->
         IF cookie[b] # Nobody /\ path \notin {"/login?blocked", "/link"}
         THEN "/" ELSE path
    [] path = "/admin" ->
         IF cookie[b] = Nobody THEN "/login"
         ELSE IF cookie[b].role # "admin" THEN "/" ELSE path
    [] OTHER -> IF cookie[b] = Nobody THEN "/login" ELSE path

\* Mutant: the layout of /admin trusts the cookie, as the middleware does.
AdminLayoutOfCookie(b) == IF Session(b) = "ok" THEN "/admin" ELSE "/"

\* The layouts read the account: requireAdmin ...
AdminLayout(b) == IF Session(b) = "ok" /\ user.role = "admin" THEN "/admin" ELSE "/"

\* ... and requireSession.
DashboardLayout(b) ==
  CASE Session(b) = "ok" -> "/"
    [] Session(b) = "blocked" -> "/login?blocked"
    [] Session(b) = "none" -> "/login"

Layout(b, path) ==
  CASE path \in Public -> path
    [] path = "/admin" -> AdminLayout(b)
    [] OTHER -> DashboardLayout(b)

Answer(b, path) ==
  IF Middleware(b, path) # path THEN Middleware(b, path) ELSE Layout(b, path)

\* The user opens a page, or follows a link of the page shown.
Visit(b, path) ==
  /\ page[b].is = "shown"
  /\ page' = [page EXCEPT ![b] = [at |-> path, is |-> "get"]]
  /\ UNCHANGED <<user, tokens, cookie>>

\* The server answers with the page or with a redirect, which is followed.
Get(b) ==
  /\ page[b].is = "get"
  /\ LET to == Answer(b, page[b].at) IN
       page' = [page EXCEPT ![b] = [at |-> to, is |-> IF to = page[b].at THEN "shown" ELSE "get"]]
  /\ UNCHANGED <<user, tokens, cookie>>

-----------------------------------------------------------------------------
(* Properties *)

\* A link works once, however many requests carry it at the same time.
LinksWorkOnce == \A i \in DOMAIN tokens : tokens[i].spent <= 1

\* Asking again voids the earlier link: two links of one type are alive only
\* when the two requests that issued them overlapped.
NewLinkVoidsOld ==
  \A i, j \in DOMAIN tokens :
    i < j /\ Live(tokens[i]) /\ Live(tokens[j]) /\ tokens[i].type = tokens[j].type =>
      tokens[j].from < tokens[i].to

\* A session opened with a password that is no longer the account's is refused,
\* unless its login and the change of the password overlapped.
OldPasswordEndsSessions ==
  \A b \in Browser :
    Session(b) # "none" /\ cookie[b].pw # user.pw =>
      cookie[b].read <= user.written /\ cookie[b].loginAt > user.pw

\* What a newer one replaced is over: a link that was used, the link before
\* it, a session of the password before it.
OldCredentialsEnd == LinksWorkOnce /\ NewLinkVoidsOld /\ OldPasswordEndsSessions

\* Whoever may not use the account sees no page of the panel in answer to a
\* request, and an operator's page is shown to an operator only.
PagesFollowTheAccount ==
  [][\A b \in Browser :
       Get(b) /\ page'[b] = [at |-> page[b].at, is |-> "shown"] =>
         /\ page[b].at \notin Public => user.status = "active" /\ ~ Outdated(b)
         /\ page[b].at = "/admin" => user.role = "admin"]_<<user, cookie, page>>

\* A browser whose session is not older than the password is not sent around
\* for ever: the middleware, which sees the cookie, and the layouts, which see
\* the account, come to agree.
BrowserSettles ==
  \A b \in Browser : (<>[](~ Outdated(b))) => []<>(page[b].is = "shown")

\* requireSession: an earlier session is sent to log in again.
EveryBrowserSettles == \A b \in Browser : page[b].is = "get" ~> page[b].is = "shown"
=============================================================================
