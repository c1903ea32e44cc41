---------------------------- MODULE AccountsProofs ----------------------------
(***************************************************************************)
(* Old credentials end and pages follow the account, for any number of     *)
(* requests, browsers, links and time stamps and in every environment.     *)
(***************************************************************************)
EXTENDS Accounts, FiniteSetTheorems, TLAPS

-----------------------------------------------------------------------------
(* Types, of what the proofs speak of.                                     *)

Step == {"", "void", "insert", "hash", "write", "compare"}
Op == Type \cup {"idle", "reset", "confirm", "login"}
Call == [op : Op, pc : Step, token : Nat, from : Nat, seen : Nat,
         browser : Browser \cup {Nobody}]
Link == [type : Type, used : BOOLEAN, expired : BOOLEAN, spent : Nat, from : Nat, to : Nat]
Cookie == [loginAt : Nat, pw : Nat, read : Nat, role : {"owner", "admin"}]
Row == [status : Status, pw : Nat, validFrom : Nat, written : Nat, verified : BOOLEAN,
        role : {"owner", "admin"}]

Links(n) == DOMAIN tokens = 1 .. n /\ \A i \in 1 .. n : tokens[i] \in Link

Types ==
  /\ clock \in Nat /\ user \in Row
  /\ \E n \in Nat : Links(n)
  /\ req \in [Request -> Call]
  /\ cookie \in [Browser -> Cookie \cup {Nobody}]
  /\ page \in [Browser -> [at : Path, is : {"get", "shown"}]]
  /\ \A r \in Request : req[r].op = "login" => req[r].browser \in Browser /\ req[r].pc = "compare"
  /\ \A r \in Request : req[r].pc \in {"void", "insert"} => req[r].op \in Type

-----------------------------------------------------------------------------
(* Links.                                                                  *)

\* Whoever spends a link marks it.
SpentIsUsed == \A i \in DOMAIN tokens : tokens[i].spent <= IF tokens[i].used THEN 1 ELSE 0

\* A link that a request has not voided came after it looked.
VoidedOrLater ==
  \A r \in Request : req[r].pc = "insert" =>
    \A i \in DOMAIN tokens :
      Live(tokens[i]) /\ tokens[i].type = req[r].op => req[r].from < tokens[i].to

LookedBefore == \A r \in Request : req[r].pc = "insert" => req[r].from < clock

LinkInv == SpentIsUsed /\ VoidedOrLater /\ LookedBefore /\ NewLinkVoidsOld

-----------------------------------------------------------------------------
(* Sessions.                                                               *)

\* Nobody has done anything with an account that does not exist.
NobodyYet ==
  user.status = "none" =>
    /\ user.pw = 0 /\ tokens = <<>>
    /\ \A r \in Request : req[r].pc \notin {"void", "insert", "hash", "write"}

\* Times are in the past, and no two stamps are equal.
Changing(r) == req[r].op = "reset" /\ req[r].pc = "write"
TimesArePast ==
  /\ user.validFrom = user.pw /\ user.pw <= clock /\ user.written <= clock
  /\ \A r \in Request : req[r].op = "login" => req[r].from <= clock
  /\ \A r \in Request : Changing(r) => req[r].seen <= clock
  /\ \A b \in Browser : cookie[b] # Nobody =>
       cookie[b].read <= clock /\ cookie[b].loginAt <= clock
StampsDiffer ==
  \A b \in Browser : cookie[b] # Nobody =>
    /\ cookie[b].loginAt # user.pw
    /\ \A r \in Request : Changing(r) => cookie[b].loginAt # req[r].seen

\* Who holds another password read it before the account's was written.
OldWasReadBefore ==
  /\ \A r \in Request : req[r].op = "login" /\ req[r].seen # user.pw =>
       req[r].from <= user.written
  /\ \A b \in Browser : cookie[b] # Nobody /\ cookie[b].pw # user.pw =>
       cookie[b].read <= user.written

SessionInv == NobodyYet /\ TimesArePast /\ StampsDiffer /\ OldWasReadBefore

IInv == Types /\ LinkInv /\ SessionInv
-----------------------------------------------------------------------------
(* Types                                                                   *)

LEMMA InitTypes == Init => Types
<1> SUFFICES ASSUME Init PROVE Types
  OBVIOUS
<1>1. clock \in Nat /\ user \in Row
  <2>1. PICK s \in {"none", "active"} :
          user = [status |-> s, pw |-> 0, validFrom |-> 0, written |-> 0, verified |-> FALSE,
                  role |-> "owner"]
    BY DEF Init
  <2> QED BY <2>1 DEF Init, Row, Status
<1>2. Links(0)
  BY DEF Init, Links
<1>3. Free \in Call /\ Free.op = "idle" /\ Free.pc = ""
  BY DEF Free, Call, Op, Step, Type
<1>4. /\ req \in [Request -> Call]
      /\ \A r \in Request : req[r].op = "idle" /\ req[r].pc = ""
  BY <1>3 DEF Init
<1>5. cookie \in [Browser -> Cookie \cup {Nobody}]
  BY DEF Init
<1>6. page \in [Browser -> [at : Path, is : {"get", "shown"}]]
  BY DEF Init, Path, Public
<1> QED BY <1>1, <1>2, <1>4, <1>5, <1>6 DEF Types

\* A request may be told anything of its kind.
LEMMA RequestKeepsTypes ==
  ASSUME Types, NEW r \in Request, NEW rec \in Call, req' = [req EXCEPT ![r] = rec],
         rec.op = "login" => rec.browser \in Browser /\ rec.pc = "compare",
         rec.pc \in {"void", "insert"} => rec.op \in Type,
         clock' \in Nat, user' \in Row, \E n \in Nat : Links(n)',
         cookie' \in [Browser -> Cookie \cup {Nobody}],
         page' \in [Browser -> [at : Path, is : {"get", "shown"}]]
  PROVE  Types'
<1>1. /\ req' \in [Request -> Call]
      /\ \A q \in Request : req'[q] = IF q = r THEN rec ELSE req[q]
  BY DEF Types
<1> QED BY <1>1 DEF Types

\* A statement that leaves the links alone.
LEMMA SameLinks == ASSUME Types, UNCHANGED tokens PROVE \E n \in Nat : Links(n)'
<1>1. PICK n \in Nat : Links(n)
  BY DEF Types
<1>2. Links(n)'
  BY <1>1 DEF Links
<1> QED BY <1>2

LEMMA LinksAre ==
  ASSUME Types
  PROVE  \E n \in Nat : /\ DOMAIN tokens = 1 .. n /\ Cardinality(DOMAIN tokens) = n
                        /\ \A i \in 1 .. n : tokens[i] \in Link
<1>1. PICK n \in Nat : Links(n)
  BY DEF Types
<1>2. Cardinality(1 .. n) = n
  BY FS_Interval
<1> QED BY <1>1, <1>2 DEF Links

\* The first statement of each request, and its end.
Issuing(o) == [op |-> o, pc |-> "void", token |-> 0, from |-> 0, seen |-> 0, browser |-> Nobody]
Following(o, l, i) == [op |-> o, pc |-> l, token |-> i, from |-> 0, seen |-> 0, browser |-> Nobody]
LoggingIn(b) ==
  [op |-> "login", pc |-> "compare", token |-> 0, from |-> clock, seen |-> user.pw, browser |-> b]

LEMMA IssuingIs == ASSUME NEW o PROVE [Free EXCEPT !.op = o, !.pc = "void"] = Issuing(o)
<1>1. PICK f : f = [Free EXCEPT !.op = o]
  OBVIOUS
<1>2. f = [op |-> o, pc |-> "", token |-> 0, from |-> 0, seen |-> 0, browser |-> Nobody]
  BY <1>1 DEF Free
<1>3. PICK l : l = "void"
  OBVIOUS
<1>4. PICK g : g = [f EXCEPT !.pc = l]
  OBVIOUS
<1>5. g = [op |-> o, pc |-> l, token |-> 0, from |-> 0, seen |-> 0, browser |-> Nobody]
  BY <1>2, <1>4
<1> QED BY <1>1, <1>3, <1>4, <1>5 DEF Issuing

LEMMA FollowingIs ==
  ASSUME NEW o, NEW l, NEW i
  PROVE  [Free EXCEPT !.op = o, !.pc = l, !.token = i] = Following(o, l, i)
<1>1. PICK f : f = [Free EXCEPT !.op = o]
  OBVIOUS
<1>2. f = [op |-> o, pc |-> "", token |-> 0, from |-> 0, seen |-> 0, browser |-> Nobody]
  BY <1>1 DEF Free
<1>3. PICK g : g = [f EXCEPT !.pc = l]
  OBVIOUS
<1>4. g = [op |-> o, pc |-> l, token |-> 0, from |-> 0, seen |-> 0, browser |-> Nobody]
  BY <1>2, <1>3
<1>5. [g EXCEPT !.token = i] = Following(o, l, i)
  BY <1>4 DEF Following
<1> QED BY <1>1, <1>3, <1>5

\* What is issued.
LEMMA IssueTypes ==
  ASSUME Types, NEW r \in Request, AskReset(r) \/ AskVerify(r) \/ VoidOld(r) \/ InsertNew(r)
  PROVE  Types'
<1>0. /\ clock \in Nat /\ user \in Row /\ req[r] \in Call
      /\ cookie \in [Browser -> Cookie \cup {Nobody}]
      /\ page \in [Browser -> [at : Path, is : {"get", "shown"}]]
  BY DEF Types
<1>1. CASE AskReset(r)
  <2>1. req' = [req EXCEPT ![r] = Issuing("password_reset")]
    BY <1>1, IssuingIs DEF AskReset, Begin
  <2>2. Issuing("password_reset") \in Call /\ Issuing("password_reset").op = "password_reset"
    BY DEF Issuing, Call, Op, Step, Type
  <2>3. UNCHANGED <<clock, user, tokens, cookie, page>>
    BY <1>1 DEF AskReset
  <2> QED BY <1>0, <2>1, <2>2, <2>3, SameLinks, RequestKeepsTypes DEF Type
<1>2. CASE AskVerify(r)
  <2>1. req' = [req EXCEPT ![r] = Issuing("email_verify")]
    BY <1>2, IssuingIs DEF AskVerify, Begin
  <2>2. Issuing("email_verify") \in Call /\ Issuing("email_verify").op = "email_verify"
    BY DEF Issuing, Call, Op, Step, Type
  <2>3. UNCHANGED <<clock, user, tokens, cookie, page>>
    BY <1>2 DEF AskVerify
  <2> QED BY <1>0, <2>1, <2>2, <2>3, SameLinks, RequestKeepsTypes DEF Type
<1>3. CASE VoidOld(r)
  <2>1. PICK n \in Nat : Links(n)
    BY DEF Types
  <2>2. Links(n)'
    BY <1>3, <2>1 DEF VoidOld, Links, Link
  <2>3. PICK rec : rec = [req[r] EXCEPT !.pc = "insert", !.from = clock]
    OBVIOUS
  <2>4. rec \in Call /\ rec.op = req[r].op /\ rec.pc = "insert" /\ rec.op \in Type
    BY <1>0, <1>3, <2>3 DEF Call, Step, VoidOld, Types
  <2>5. req' = [req EXCEPT ![r] = rec]
    BY <1>0, <1>3, <2>3 DEF VoidOld
  <2>6. /\ clock' \in Nat /\ UNCHANGED <<user, cookie, page>>
        /\ rec.op # "login"
    BY <1>0, <1>3, <2>4 DEF VoidOld, Stamp, Type
  <2> QED BY <1>0, <2>2, <2>4, <2>5, <2>6, RequestKeepsTypes
<1>4. CASE InsertNew(r)
  <2>1. PICK n \in Nat : DOMAIN tokens = 1 .. n /\ Cardinality(DOMAIN tokens) = n
                         /\ \A i \in 1 .. n : tokens[i] \in Link
    BY LinksAre
  <2>2. req[r].op \in Type
    BY <1>4 DEF Types, InsertNew
  <2>3. PICK new \in Link : tokens' = [i \in 1 .. n \cup {n + 1} |-> IF i \in 1 .. n THEN tokens[i] ELSE new]
    <3>1. [type |-> req[r].op, used |-> FALSE, expired |-> FALSE, spent |-> 0,
           from |-> req[r].from, to |-> clock] \in Link
      BY <1>0, <2>2 DEF Link, Call
    <3> QED BY <1>4, <2>1, <3>1 DEF InsertNew
  <2>4. PICK m \in Nat : m = n + 1 /\ 1 .. n \cup {n + 1} = 1 .. m
    OBVIOUS
  <2>5. Links(m)'
    BY <2>1, <2>3, <2>4 DEF Links
  <2>6. /\ req' = [req EXCEPT ![r] = Free] /\ clock' \in Nat /\ UNCHANGED <<user, cookie, page>>
    BY <1>0, <1>4 DEF InsertNew, End, Stamp
  <2>7. Free \in Call /\ Free.op = "idle" /\ Free.pc = ""
    BY DEF Free, Call, Op, Step, Type
  <2> QED BY <1>0, <2>5, <2>6, <2>7, RequestKeepsTypes
<1> QED BY <1>1, <1>2, <1>3, <1>4

LEMMA FreeIsCall == Free \in Call /\ Free.op = "idle" /\ Free.pc = ""
  BY DEF Free, Call, Op, Step, Type

\* What is done with a link.
LEMMA LinkTypes ==
  ASSUME Types, NEW r \in Request,
         \/ HashPassword(r) \/ WritePassword(r) \/ WriteVerified(r) \/ WriteFails(r)
         \/ \E i \in DOMAIN tokens : OpenLink(r, i)
  PROVE  Types'
<1>0. /\ clock \in Nat /\ user \in Row /\ req[r] \in Call
      /\ cookie \in [Browser -> Cookie \cup {Nobody}]
      /\ page \in [Browser -> [at : Path, is : {"get", "shown"}]]
  BY DEF Types
<1>1. CASE HashPassword(r)
  <2>0. PICK n \in Nat : n = clock + 1
    BY <1>0
  <2>1. PICK rec : rec = [req[r] EXCEPT !.pc = "write", !.seen = n]
    OBVIOUS
  <2>2. rec \in Call /\ rec.op = req[r].op /\ rec.pc = "write" /\ rec.browser = req[r].browser
    BY <1>0, <2>1 DEF Call, Step
  <2>3. /\ req' = [req EXCEPT ![r] = rec] /\ clock' \in Nat
        /\ UNCHANGED <<user, tokens, cookie, page>>
    BY <1>0, <1>1, <2>0, <2>1 DEF HashPassword, Stamp
  <2>4. rec.op # "login"
    BY <1>1, <2>2 DEF Types, HashPassword
  <2>5. rec.pc \notin {"void", "insert"}
    BY <2>2
  <2>6. \E m \in Nat : Links(m)'
    BY <2>3, SameLinks
  <2> QED BY <1>0, <2>2, <2>3, <2>4, <2>5, <2>6, RequestKeepsTypes
<1>2. CASE WritePassword(r) \/ WriteVerified(r) \/ WriteFails(r)
  <2>1. user' \in Row
    <3>1. CASE WritePassword(r)
      BY <1>0, <3>1 DEF WritePassword, Row, Call
    <3>2. CASE WriteVerified(r)
      BY <1>0, <3>2 DEF WriteVerified, Row
    <3>3. CASE WriteFails(r)
      BY <1>0, <3>3 DEF WriteFails
    <3> QED BY <1>2, <3>1, <3>2, <3>3
  <2>2. req' = [req EXCEPT ![r] = Free] /\ UNCHANGED <<clock, tokens, cookie, page>>
    BY <1>2 DEF WritePassword, WriteVerified, WriteFails, End
  <2> QED BY <1>0, <2>1, <2>2, FreeIsCall, SameLinks, RequestKeepsTypes
<1>3. ASSUME NEW i \in DOMAIN tokens, OpenLink(r, i) PROVE Types'
  <2>1. PICK n \in Nat : Links(n)
    BY DEF Types
  <2>2. tokens[i] \in Link /\ i \in Nat
    BY <2>1 DEF Links
  <2>0. PICK k \in Nat : k = tokens[i].spent + 1
    BY <2>2 DEF Link
  <2>3. PICK t : t = [tokens[i] EXCEPT !.used = TRUE, !.spent = k]
    OBVIOUS
  <2>4. t \in Link
    BY <2>2, <2>3 DEF Link
  <2>5. tokens' = [tokens EXCEPT ![i] = t]
    BY <1>3, <2>0, <2>3 DEF OpenLink, Consume
  <2>6. Links(n)'
    BY <2>1, <2>4, <2>5 DEF Links
  <2>7. PICK o \in {"reset", "confirm"}, l \in {"hash", "write"} :
          req' = [req EXCEPT ![r] = Following(o, l, i)]
    <3>1. PICK o : o = IF tokens[i].type = "password_reset" THEN "reset" ELSE "confirm"
      OBVIOUS
    <3>2. PICK l : l = IF tokens[i].type = "password_reset" THEN "hash" ELSE "write"
      OBVIOUS
    <3>3. req' = [req EXCEPT ![r] = [Free EXCEPT !.op = o, !.pc = l, !.token = i]]
      BY <1>3, <3>1, <3>2 DEF OpenLink, Begin
    <3>4. req' = [req EXCEPT ![r] = Following(o, l, i)]
      BY <3>3, FollowingIs
    <3> QED BY <3>1, <3>2, <3>4
  <2>8. Following(o, l, i) \in Call /\ Following(o, l, i).op = o /\ Following(o, l, i).pc = l
    BY <2>2 DEF Following, Call, Op, Step
  <2>9. UNCHANGED <<clock, user, cookie, page>>
    BY <1>3 DEF OpenLink
  <2> QED BY <1>0, <2>6, <2>7, <2>8, <2>9, RequestKeepsTypes
<1> QED BY <1>1, <1>2, <1>3

\* Sessions.
LEMMA SessionTypes ==
  ASSUME Types, NEW r \in Request,
         \/ IssueSession(r) \/ \E b \in Browser : Register(r, b) \/ LogIn(r, b)
  PROVE  Types'
<1>0. /\ clock \in Nat /\ user \in Row /\ req[r] \in Call
      /\ cookie \in [Browser -> Cookie \cup {Nobody}]
      /\ page \in [Browser -> [at : Path, is : {"get", "shown"}]]
  BY DEF Types
<1>1. CASE IssueSession(r)
  <2>1. req[r].browser \in Browser
    BY <1>1 DEF IssueSession, Types
  <2>2. [loginAt |-> clock + 1, pw |-> req[r].seen, read |-> req[r].from, role |-> user.role] \in Cookie
    BY <1>0 DEF Cookie, Call, Row
  <2>3. /\ cookie' \in [Browser -> Cookie \cup {Nobody}]
        /\ page' \in [Browser -> [at : Path, is : {"get", "shown"}]]
    BY <1>0, <1>1, <2>1, <2>2 DEF IssueSession, Path
  <2>4. req' = [req EXCEPT ![r] = Free] /\ clock' \in Nat /\ UNCHANGED <<user, tokens>>
    BY <1>0, <1>1 DEF IssueSession, End, Stamp
  <2> QED BY <1>0, <2>3, <2>4, FreeIsCall, SameLinks, RequestKeepsTypes
<1>2. ASSUME NEW b \in Browser, Register(r, b) PROVE Types'
  <2>1. [loginAt |-> clock + 1, pw |-> 0, read |-> clock, role |-> user.role] \in Cookie
    BY <1>0 DEF Cookie, Row
  <2>2. /\ cookie' \in [Browser -> Cookie \cup {Nobody}]
        /\ page' \in [Browser -> [at : Path, is : {"get", "shown"}]]
    BY <1>0, <1>2, <2>1 DEF Register, Path
  <2>3. req' = [req EXCEPT ![r] = Issuing("email_verify")]
    BY <1>2, IssuingIs DEF Register, Begin
  <2>4. Issuing("email_verify") \in Call /\ Issuing("email_verify").op = "email_verify"
    BY DEF Issuing, Call, Op, Step, Type
  <2>5. clock' \in Nat /\ user' \in Row /\ UNCHANGED tokens
    BY <1>0, <1>2 DEF Register, Stamp, Row, Status
  <2> QED BY <2>2, <2>3, <2>4, <2>5, SameLinks, RequestKeepsTypes DEF Type
<1>3. ASSUME NEW b \in Browser, LogIn(r, b) PROVE Types'
  <2>1. req' = [req EXCEPT ![r] = LoggingIn(b)]
    BY <1>3 DEF LogIn, Begin, LoggingIn
  <2>2. /\ LoggingIn(b) \in Call /\ LoggingIn(b).op = "login" /\ LoggingIn(b).pc = "compare"
        /\ LoggingIn(b).browser \in Browser
    BY <1>0 DEF LoggingIn, Call, Op, Step, Row
  <2>3. UNCHANGED <<clock, user, tokens, cookie, page>>
    BY <1>3 DEF LogIn
  <2> QED BY <1>0, <2>1, <2>2, <2>3, SameLinks, RequestKeepsTypes
<1> QED BY <1>1, <1>2, <1>3

LEMMA NextTypes == Types /\ [Next]_vars => Types'
<1> SUFFICES ASSUME Types, [Next]_vars PROVE Types'
  OBVIOUS
<1>0. /\ clock \in Nat /\ user \in Row
      /\ cookie \in [Browser -> Cookie \cup {Nobody}]
      /\ page \in [Browser -> [at : Path, is : {"get", "shown"}]]
  BY DEF Types
<1>1. CASE UNCHANGED vars
  BY <1>1 DEF vars, Types, Links
<1>2. ASSUME NEW i \in DOMAIN tokens, ExpireToken(i) PROVE Types'
  <2>1. PICK n \in Nat : Links(n)
    BY DEF Types
  <2>2. Links(n)'
    BY <1>2, <2>1 DEF ExpireToken, Links, Link
  <2> QED BY <1>2, <2>2 DEF ExpireToken, Types
<1>3. ASSUME \/ \E s \in Status : SetUserStatus(s)
             \/ \E role \in {"owner", "admin"} : SetRole(role)
      PROVE  Types'
  <2>1. user' \in Row /\ UNCHANGED <<clock, tokens, req, cookie, page>>
    BY <1>0, <1>3 DEF SetUserStatus, SetRole, Row
  <2> QED BY <2>1, SameLinks DEF Types
<1>4. ASSUME NEW b \in Browser, LogOut(b) \/ Serve(b) \/ \E path \in Path : Open(b, path)
      PROVE  Types'
  <2>1. /\ cookie' \in [Browser -> Cookie \cup {Nobody}]
        /\ page' \in [Browser -> [at : Path, is : {"get", "shown"}]]
    <3>1. CASE LogOut(b)
      BY <1>0, <3>1 DEF LogOut, Path, Public
    <3>2. CASE Serve(b)
      <4>1. page[b].at \in Path
        BY <1>0
      <4>2. Answer(b, page[b].at) \in Path
        BY <4>1 DEF Answer, Middleware, Layout, AdminLayout, DashboardLayout, Session, Path, Public
      <4> QED BY <1>0, <3>2, <4>2 DEF Serve, Get
    <3>3. ASSUME NEW path \in Path, Open(b, path)
          PROVE  /\ cookie' \in [Browser -> Cookie \cup {Nobody}]
                 /\ page' \in [Browser -> [at : Path, is : {"get", "shown"}]]
      BY <1>0, <3>3 DEF Open, Visit
    <3> QED BY <1>4, <3>1, <3>2, <3>3
  <2>2. UNCHANGED <<clock, user, tokens, req>>
    BY <1>4 DEF LogOut, Serve, Open, Get, Visit
  <2> QED BY <2>1, <2>2, SameLinks DEF Types
<1> QED BY <1>1, <1>2, <1>3, <1>4, IssueTypes, LinkTypes, SessionTypes DEF Next

-----------------------------------------------------------------------------
(* Links                                                                   *)

\* Links only fade, and whoever is to insert one found none of its type alive.
LEMMA LinksFade ==
  ASSUME Types, LinkInv, DOMAIN tokens' = DOMAIN tokens, SpentIsUsed', LookedBefore',
         \A i \in DOMAIN tokens :
           /\ tokens'[i].type = tokens[i].type
           /\ tokens'[i].from = tokens[i].from /\ tokens'[i].to = tokens[i].to
           /\ Live(tokens'[i]) => Live(tokens[i]),
         \A q \in Request : req'[q].pc = "insert" =>
           \/ req[q].pc = "insert" /\ req'[q].op = req[q].op /\ req'[q].from = req[q].from
           \/ \A i \in DOMAIN tokens : tokens'[i].type = req'[q].op => ~ Live(tokens'[i])
  PROVE  LinkInv'
<1>1. VoidedOrLater'
  BY DEF LinkInv, VoidedOrLater
<1>2. NewLinkVoidsOld'
  BY DEF LinkInv, NewLinkVoidsOld
<1> QED BY <1>1, <1>2 DEF LinkInv

\* Requests that neither look for links nor change them.
LEMMA QuietLinks ==
  ASSUME Types, LinkInv, UNCHANGED tokens, clock' \in Nat, clock' >= clock,
         \A q \in Request : req'[q].pc = "insert" => req'[q] = req[q]
  PROVE  LinkInv'
<1>1. SpentIsUsed'
  BY DEF LinkInv, SpentIsUsed
<1>2. LookedBefore'
  BY DEF LinkInv, LookedBefore, Types, Call
<1> QED BY <1>1, <1>2, LinksFade

LEMMA VoidOldLinks == ASSUME Types, LinkInv, NEW r \in Request, VoidOld(r) PROVE LinkInv'
<1>1. PICK n \in Nat : DOMAIN tokens = 1 .. n /\ \A i \in 1 .. n : tokens[i] \in Link
  BY LinksAre
<1>2. DOMAIN tokens' = DOMAIN tokens
  BY DEF VoidOld
<1>3. \A i \in DOMAIN tokens :
        tokens'[i] = IF tokens[i].type = req[r].op THEN [tokens[i] EXCEPT !.used = TRUE] ELSE tokens[i]
  BY DEF VoidOld
<1>4. ASSUME NEW i \in DOMAIN tokens
      PROVE  /\ tokens'[i].type = tokens[i].type
             /\ tokens'[i].from = tokens[i].from /\ tokens'[i].to = tokens[i].to
             /\ tokens'[i].spent = tokens[i].spent
             /\ tokens'[i].type = req[r].op => tokens'[i].used
             /\ tokens'[i].type # req[r].op => tokens'[i] = tokens[i]
  BY <1>1, <1>3 DEF Link
<1>5. SpentIsUsed'
  BY <1>1, <1>2, <1>4 DEF LinkInv, SpentIsUsed, Link
<1>6. \A q \in Request : req'[q] = IF q = r THEN req'[r] ELSE req[q]
  BY DEF VoidOld, Types
<1>7. req'[r].op = req[r].op
  BY DEF VoidOld, Types, Call
<1>8. \A i \in DOMAIN tokens : Live(tokens'[i]) => Live(tokens[i])
  BY <1>4 DEF Live
<1>9. \A i \in DOMAIN tokens : tokens'[i].type = req'[r].op => ~ Live(tokens'[i])
  BY <1>4, <1>7 DEF Live
<1>10. LookedBefore'
  <2>1. clock \in Nat /\ clock' = clock + 1 /\ req'[r].from = clock
    BY DEF VoidOld, Stamp, Types, Call
  <2> QED BY <1>6, <2>1 DEF LinkInv, LookedBefore, Types, Call
<1> QED BY <1>2, <1>4, <1>5, <1>6, <1>8, <1>9, <1>10, LinksFade

LEMMA InsertNewLinks == ASSUME Types, LinkInv, NEW r \in Request, InsertNew(r) PROVE LinkInv'
<1>1. PICK n \in Nat : DOMAIN tokens = 1 .. n /\ Cardinality(DOMAIN tokens) = n
                       /\ \A i \in 1 .. n : tokens[i] \in Link
  BY LinksAre
<1>2. PICK new : new = [type |-> req[r].op, used |-> FALSE, expired |-> FALSE, spent |-> 0,
                        from |-> req[r].from, to |-> clock]
  OBVIOUS
<1>3. PICK m \in Nat : m = n + 1 /\ m \notin 1 .. n /\ 1 .. n \cup {n + 1} = 1 .. m
                       /\ \A i \in 1 .. n : i < m
  OBVIOUS
<1>4. tokens' = [i \in 1 .. m |-> IF i \in 1 .. n THEN tokens[i] ELSE new]
  BY <1>1, <1>2, <1>3 DEF InsertNew
<1>5. /\ DOMAIN tokens' = 1 .. m /\ tokens'[m] = new
      /\ \A i \in 1 .. n : tokens'[i] = tokens[i]
      /\ \A i \in 1 .. m : i \in 1 .. n \/ i = m
  BY <1>3, <1>4
<1>6. /\ req[r].pc = "insert" /\ req[r].from \in Nat /\ clock \in Nat
      /\ \A q \in Request : req'[q].pc = "insert" => req'[q] = req[q] /\ q # r
  BY FreeIsCall DEF InsertNew, End, Types, Call
<1>7. /\ new.spent = 0 /\ new.type = req[r].op /\ new.from = req[r].from /\ new.to = clock
  BY <1>2
<1>8. SpentIsUsed'
  BY <1>1, <1>5, <1>7 DEF LinkInv, SpentIsUsed, Link
<1>9. VoidedOrLater'
  <2> SUFFICES ASSUME NEW q \in Request, req'[q].pc = "insert", NEW i \in 1 .. m,
                      Live(tokens'[i]), tokens'[i].type = req'[q].op
               PROVE  req'[q].from < tokens'[i].to
    BY <1>5 DEF VoidedOrLater
  <2>1. CASE i \in 1 .. n
    BY <1>1, <1>5, <1>6, <2>1 DEF LinkInv, VoidedOrLater
  <2>2. CASE i = m
    BY <1>5, <1>6, <1>7, <2>2 DEF LinkInv, LookedBefore
  <2> QED BY <1>3, <1>5, <2>1, <2>2
<1>10. NewLinkVoidsOld'
  <2> SUFFICES ASSUME NEW i \in 1 .. m, NEW j \in 1 .. m, i < j, Live(tokens'[i]), Live(tokens'[j]),
                      tokens'[i].type = tokens'[j].type
               PROVE  tokens'[j].from < tokens'[i].to
    BY <1>5 DEF NewLinkVoidsOld
  <2>1. CASE j \in 1 .. n
    <3>1. i \in 1 .. n
      BY <1>3, <2>1
    <3> QED BY <1>1, <1>5, <2>1, <3>1 DEF LinkInv, NewLinkVoidsOld
  <2>2. CASE j = m
    <3>1. i \in 1 .. n
      BY <1>3, <1>5, <2>2
    <3> QED BY <1>1, <1>5, <1>6, <1>7, <2>2, <3>1 DEF LinkInv, VoidedOrLater
  <2> QED BY <1>5, <2>1, <2>2
<1>11. LookedBefore'
  BY <1>6 DEF LinkInv, LookedBefore, InsertNew, Stamp, Types, Call
<1> QED BY <1>8, <1>9, <1>10, <1>11 DEF LinkInv

\* A link is used or expires.
LEMMA FadingLinks ==
  ASSUME Types, LinkInv, NEW i \in DOMAIN tokens,
         ExpireToken(i) \/ \E r \in Request : OpenLink(r, i)
  PROVE  LinkInv'
<1>1. PICK n \in Nat : DOMAIN tokens = 1 .. n /\ \A j \in 1 .. n : tokens[j] \in Link
  BY LinksAre
<1>2. tokens[i] \in Link /\ Live(tokens[i]) /\ ~ tokens[i].used
  BY <1>1 DEF ExpireToken, OpenLink, Live
<1>3. \A q \in Request : req'[q].pc = "insert" => req'[q] = req[q]
  <2>1. CASE ExpireToken(i)
    BY <2>1 DEF ExpireToken
  <2>2. ASSUME NEW r \in Request, OpenLink(r, i)
        PROVE  \A q \in Request : req'[q].pc = "insert" => req'[q] = req[q]
    <3>1. PICK o, l : req' = [req EXCEPT ![r] = [Free EXCEPT !.op = o, !.pc = l, !.token = i]]
                      /\ l \in {"hash", "write"}
      <4>1. PICK o : o = IF tokens[i].type = "password_reset" THEN "reset" ELSE "confirm"
        OBVIOUS
      <4>2. PICK l : l = IF tokens[i].type = "password_reset" THEN "hash" ELSE "write"
        OBVIOUS
      <4> QED BY <2>2, <4>1, <4>2 DEF OpenLink, Begin
    <3>2. req' = [req EXCEPT ![r] = Following(o, l, i)] /\ Following(o, l, i).pc = l
      BY <3>1, FollowingIs DEF Following
    <3> QED BY <3>1, <3>2 DEF Types
  <2> QED BY <2>1, <2>2
<1>4. clock' = clock /\ clock \in Nat
  BY DEF ExpireToken, OpenLink, Types
<1>5. PICK t : tokens' = [tokens EXCEPT ![i] = t] /\ t.type = tokens[i].type
               /\ t.from = tokens[i].from /\ t.to = tokens[i].to
               /\ t.spent <= IF t.used THEN 1 ELSE 0
  <2>1. tokens[i].spent = 0
    BY <1>1, <1>2 DEF LinkInv, SpentIsUsed, Link
  <2>2. CASE ExpireToken(i)
    <3>1. PICK t : t = [tokens[i] EXCEPT !.expired = TRUE]
      OBVIOUS
    <3>2. tokens' = [tokens EXCEPT ![i] = t]
      BY <2>2, <3>1 DEF ExpireToken
    <3>3. t.type = tokens[i].type /\ t.from = tokens[i].from /\ t.to = tokens[i].to /\ t.spent = 0
      BY <1>2, <2>1, <3>1 DEF Link
    <3>4. t.spent <= IF t.used THEN 1 ELSE 0
      BY <3>3
    <3> WITNESS t
    <3> QED BY <3>2, <3>3, <3>4
  <2>3. ASSUME NEW r \in Request, OpenLink(r, i)
        PROVE  \E t : tokens' = [tokens EXCEPT ![i] = t] /\ t.type = tokens[i].type
                      /\ t.from = tokens[i].from /\ t.to = tokens[i].to
                      /\ t.spent <= IF t.used THEN 1 ELSE 0
    <3>1. PICK k \in Nat : k = tokens[i].spent + 1 /\ k = 1
      BY <2>1
    <3>2. PICK t : t = [tokens[i] EXCEPT !.used = TRUE, !.spent = k]
      OBVIOUS
    <3>3. tokens' = [tokens EXCEPT ![i] = t]
      BY <2>3, <3>1, <3>2 DEF OpenLink, Consume
    <3>4. t.type = tokens[i].type /\ t.from = tokens[i].from /\ t.to = tokens[i].to /\ t.spent = k
      BY <1>2, <3>2 DEF Link
    <3>5. t.used
      BY <1>2, <3>2 DEF Link
    <3>6. t.spent <= IF t.used THEN 1 ELSE 0
      BY <3>1, <3>4, <3>5
    <3> WITNESS t
    <3> QED BY <3>3, <3>4, <3>6
  <2> QED BY <2>2, <2>3
<1>6. /\ DOMAIN tokens' = DOMAIN tokens
      /\ \A j \in DOMAIN tokens : tokens'[j] = IF j = i THEN t ELSE tokens[j]
  BY <1>5
<1>7. SpentIsUsed'
  BY <1>5, <1>6 DEF LinkInv, SpentIsUsed
<1>8. LookedBefore'
  BY <1>3, <1>4 DEF LinkInv, LookedBefore
<1> QED BY <1>2, <1>3, <1>5, <1>6, <1>7, <1>8, LinksFade

LEMMA ClockIsNat == ASSUME Types PROVE clock \in Nat
  BY DEF Types

\* The clock does not go back.
LEMMA ClockMoves == ASSUME clock \in Nat, Stamp \/ UNCHANGED clock PROVE clock' \in Nat /\ clock' >= clock
  BY DEF Stamp

LEMMA NextLinks == Types /\ LinkInv /\ [Next]_vars => LinkInv'
<1> SUFFICES ASSUME Types, LinkInv, [Next]_vars PROVE LinkInv'
  OBVIOUS
<1>0. clock \in Nat /\ req \in [Request -> Call] /\ Free.pc = ""
  BY FreeIsCall DEF Types
<1>1. CASE UNCHANGED vars
  <2>1. UNCHANGED <<tokens, clock, req>>
    BY <1>1 DEF vars
  <2>2. clock' \in Nat /\ clock' >= clock
    BY <1>0, <2>1, ClockMoves
  <2> QED BY <2>1, <2>2, QuietLinks
<1>2. ASSUME NEW r \in Request, AskReset(r) \/ AskVerify(r) \/ \E b \in Browser : Register(r, b)
      PROVE  LinkInv'
  <2>1. PICK o : req' = [req EXCEPT ![r] = Issuing(o)]
    BY <1>2, IssuingIs DEF AskReset, AskVerify, Register, Begin
  <2>2. Issuing(o).pc = "void"
    BY DEF Issuing
  <2>3. UNCHANGED tokens /\ clock' \in Nat /\ clock' >= clock
    BY <1>0, <1>2, ClockMoves DEF AskReset, AskVerify, Register
  <2> QED BY <1>0, <2>1, <2>2, <2>3, QuietLinks
<1>3. ASSUME NEW r \in Request,
             WritePassword(r) \/ WriteVerified(r) \/ WriteFails(r) \/ IssueSession(r)
      PROVE  LinkInv'
  <2>1. req' = [req EXCEPT ![r] = Free] /\ UNCHANGED tokens /\ clock' \in Nat /\ clock' >= clock
    BY <1>0, <1>3, ClockMoves DEF WritePassword, WriteVerified, WriteFails, IssueSession, End
  <2> QED BY <1>0, <2>1, QuietLinks
<1>4. ASSUME NEW r \in Request, HashPassword(r) PROVE LinkInv'
  <2>1. UNCHANGED tokens /\ clock' \in Nat /\ clock' >= clock
    BY <1>0, <1>4, ClockMoves DEF HashPassword
  <2>2. PICK n : n = clock + 1
    OBVIOUS
  <2>3. req' = [req EXCEPT ![r].pc = "write", ![r].seen = n]
    BY <1>4, <2>2 DEF HashPassword
  <2>4. \A q \in Request : req'[q].pc = "insert" => req'[q] = req[q]
    BY <1>0, <2>3 DEF Call
  <2> QED BY <2>1, <2>4, QuietLinks
<1>5. ASSUME NEW r \in Request, NEW b \in Browser, LogIn(r, b) PROVE LinkInv'
  <2>1. req' = [req EXCEPT ![r] = LoggingIn(b)] /\ LoggingIn(b).pc = "compare"
    BY <1>5 DEF LogIn, Begin, LoggingIn
  <2>2. UNCHANGED tokens /\ clock' \in Nat /\ clock' >= clock
    BY <1>0, <1>5, ClockMoves DEF LogIn
  <2> QED BY <1>0, <2>1, <2>2, QuietLinks
<1>6. ASSUME \/ \E s \in Status : SetUserStatus(s)
             \/ \E role \in {"owner", "admin"} : SetRole(role)
             \/ \E b \in Browser : LogOut(b) \/ Serve(b) \/ \E path \in Path : Open(b, path)
      PROVE  LinkInv'
  <2>1. UNCHANGED <<clock, tokens, req>>
    BY <1>6 DEF SetUserStatus, SetRole, LogOut, Serve, Open, Get, Visit
  <2>2. clock' \in Nat /\ clock' >= clock
    BY <1>0, <2>1, ClockMoves
  <2> QED BY <2>1, <2>2, QuietLinks
<1> QED BY <1>1, <1>2, <1>3, <1>4, <1>5, <1>6, VoidOldLinks, InsertNewLinks, FadingLinks DEF Next

-----------------------------------------------------------------------------
(* Sessions                                                                *)

\* An account is made once.
NobodyStays ==
  user'.status = "none" =>
    /\ user.status = "none" /\ tokens' = tokens
    /\ \A r \in Request : req'[r].pc \in {"void", "insert", "hash", "write"} => req'[r].pc = req[r].pc

\* A login read the account now, a change of the password took its time now.
LoginsRead ==
  \A r \in Request : req'[r].op = "login" =>
    \/ req[r].op = "login" /\ req'[r].from = req[r].from /\ req'[r].seen = req[r].seen
    \/ req'[r].from = clock /\ req'[r].seen = user.pw
SameChanges ==
  \A r \in Request : Changing(r)' => Changing(r) /\ req'[r].seen = req[r].seen
ChangesAreNow ==
  \A r \in Request : Changing(r)' =>
    \/ Changing(r) /\ req'[r].seen = req[r].seen
    \/ req'[r].seen = clock' /\ clock' = clock + 1
NoNewCookie == \A b \in Browser : cookie'[b] # Nobody => cookie'[b] = cookie[b]
NewCookie ==
  \A b \in Browser : cookie'[b] # Nobody =>
    \/ cookie'[b] = cookie[b]
    \/ /\ clock' = clock + 1 /\ cookie'[b].loginAt = clock' /\ cookie'[b].read <= clock
       /\ cookie'[b].pw # user.pw => cookie'[b].read <= user.written

\* As long as the password stays.
LEMMA SessionsKept ==
  ASSUME Types, Types', SessionInv, NobodyStays, LoginsRead, clock' >= clock,
         user'.pw = user.pw, user'.validFrom = user.validFrom, user'.written = user.written,
         (ChangesAreNow /\ NoNewCookie) \/ (SameChanges /\ NewCookie)
  PROVE  SessionInv'
<1>0. /\ clock \in Nat /\ clock' \in Nat /\ user \in Row
      /\ req \in [Request -> Call] /\ cookie \in [Browser -> Cookie \cup {Nobody}]
      /\ req' \in [Request -> Call] /\ cookie' \in [Browser -> Cookie \cup {Nobody}]
  BY DEF Types
<1>00. /\ user.pw \in Nat /\ user.written \in Nat /\ user.validFrom \in Nat
       /\ \A b \in Browser : cookie[b] # Nobody =>
            cookie[b].read \in Nat /\ cookie[b].loginAt \in Nat
       /\ \A r \in Request : req[r].from \in Nat /\ req[r].seen \in Nat
  BY <1>0 DEF Row, Cookie, Call
<1>1. NobodyYet'
  BY DEF SessionInv, NobodyYet, NobodyStays
<1>2. /\ \A r \in Request : req'[r].op = "login" => req'[r].from <= clock'
      /\ \A r \in Request : Changing(r)' => req'[r].seen <= clock'
      /\ \A b \in Browser : cookie'[b] # Nobody =>
           cookie'[b].read <= clock' /\ cookie'[b].loginAt <= clock'
  <2>1. ASSUME NEW r \in Request, req'[r].op = "login" PROVE req'[r].from <= clock'
    BY <1>0, <1>00, <2>1 DEF SessionInv, TimesArePast, LoginsRead
  <2>2. ASSUME NEW r \in Request, Changing(r)' PROVE req'[r].seen <= clock'
    BY <1>0, <1>00, <2>2 DEF SessionInv, TimesArePast, ChangesAreNow, SameChanges
  <2>3. ASSUME NEW b \in Browser, cookie'[b] # Nobody
        PROVE  cookie'[b].read <= clock' /\ cookie'[b].loginAt <= clock'
    <3>1. CASE cookie'[b] = cookie[b]
      BY <1>0, <1>00, <2>3, <3>1 DEF SessionInv, TimesArePast
    <3>2. CASE clock' = clock + 1 /\ cookie'[b].loginAt = clock' /\ cookie'[b].read <= clock
      <4>1. cookie'[b].read \in Nat
        BY <1>0, <2>3 DEF Cookie
      <4> QED BY <1>0, <3>2, <4>1
    <3> QED BY <2>3, <3>1, <3>2 DEF NoNewCookie, NewCookie
  <2> QED BY <2>1, <2>2, <2>3
<1>3. TimesArePast'
  BY <1>0, <1>00, <1>2 DEF SessionInv, TimesArePast
<1>4. StampsDiffer'
  <2> SUFFICES ASSUME NEW b \in Browser, cookie'[b] # Nobody
               PROVE  /\ cookie'[b].loginAt # user.pw
                      /\ \A r \in Request : Changing(r)' => cookie'[b].loginAt # req'[r].seen
    BY DEF StampsDiffer
  <2>1. CASE ChangesAreNow /\ cookie'[b] = cookie[b]
    BY <1>0, <1>00, <2>1 DEF SessionInv, StampsDiffer, TimesArePast, ChangesAreNow
  <2>2. CASE SameChanges /\ cookie'[b] = cookie[b]
    BY <1>0, <1>00, <2>2 DEF SessionInv, StampsDiffer, SameChanges
  <2>3. CASE SameChanges /\ clock' = clock + 1 /\ cookie'[b].loginAt = clock'
    BY <1>0, <1>00, <2>3 DEF SessionInv, TimesArePast, SameChanges
  <2> QED BY <2>1, <2>2, <2>3 DEF NoNewCookie, NewCookie
<1>5. OldWasReadBefore'
  <2>1. ASSUME NEW r \in Request, req'[r].op = "login", req'[r].seen # user.pw
        PROVE  req'[r].from <= user.written
    BY <2>1 DEF SessionInv, OldWasReadBefore, LoginsRead
  <2>2. ASSUME NEW b \in Browser, cookie'[b] # Nobody, cookie'[b].pw # user.pw
        PROVE  cookie'[b].read <= user.written
    BY <2>2 DEF SessionInv, OldWasReadBefore, NoNewCookie, NewCookie
  <2> QED BY <2>1, <2>2 DEF OldWasReadBefore
<1> QED BY <1>1, <1>3, <1>4, <1>5 DEF SessionInv

LEMMA WritePasswordKeeps ==
  ASSUME Types, SessionInv, NEW r \in Request, WritePassword(r) PROVE SessionInv'
<1>0. /\ clock \in Nat /\ user \in Row /\ req \in [Request -> Call] /\ Free.op = "idle" /\ Free.pc = ""
      /\ Changing(r) /\ req[r].seen \in Nat
  BY FreeIsCall DEF Types, WritePassword, Changing, Call
<1>1. /\ req' = [req EXCEPT ![r] = Free] /\ UNCHANGED <<clock, tokens, cookie>>
      /\ \A q \in Request : req'[q] = IF q = r THEN Free ELSE req[q]
  BY <1>0 DEF WritePassword, End
<1>2. /\ user'.pw = req[r].seen /\ user'.validFrom = req[r].seen /\ user'.written = clock
      /\ user'.status = user.status
  <2>1. PICK n \in Nat : n = req[r].seen
    BY <1>0
  <2>2. user' = [user EXCEPT !.pw = n, !.validFrom = n, !.verified = TRUE, !.written = clock]
    BY <2>1 DEF WritePassword
  <2> QED BY <1>0, <2>1, <2>2 DEF Row
<1>3. NobodyYet'
  <2>1. user.status # "none"
    BY <1>0 DEF SessionInv, NobodyYet, Changing
  <2> QED BY <1>2, <2>1 DEF NobodyYet
<1>4. TimesArePast'
  <2>1. /\ user'.validFrom = user'.pw /\ user'.pw <= clock /\ user'.written <= clock
    <3>1. req[r].seen <= clock
      BY <1>0 DEF SessionInv, TimesArePast
    <3>2. PICK n \in Nat : n = clock
      BY ClockIsNat
    <3> QED BY <1>2, <3>1, <3>2
  <2>2. \A q \in Request : req'[q].op = "login" => req'[q].from <= clock
    BY <1>0, <1>1 DEF SessionInv, TimesArePast
  <2>3. \A q \in Request : Changing(q)' => req'[q].seen <= clock
    BY <1>0, <1>1 DEF SessionInv, TimesArePast, Changing
  <2>4. \A b \in Browser : cookie[b] # Nobody => cookie[b].read <= clock /\ cookie[b].loginAt <= clock
    BY DEF SessionInv, TimesArePast
  <2> QED BY <1>1, <2>1, <2>2, <2>3, <2>4 DEF TimesArePast
<1>5. StampsDiffer'
  BY <1>0, <1>1, <1>2 DEF SessionInv, StampsDiffer, Changing
<1>6. OldWasReadBefore'
  BY <1>0, <1>1, <1>2 DEF SessionInv, TimesArePast, OldWasReadBefore
<1> QED BY <1>3, <1>4, <1>5, <1>6 DEF SessionInv

\* A request does what its last lemma needs of it.
LEMMA OneRequest ==
  ASSUME Types, NEW r \in Request, NEW rec, req' = [req EXCEPT ![r] = rec]
  PROVE  /\ (rec.op = "login" => rec.from = clock /\ rec.seen = user.pw) => LoginsRead
         /\ ~ (rec.op = "reset" /\ rec.pc = "write") => SameChanges
<1>1. \A q \in Request : req'[q] = IF q = r THEN rec ELSE req[q]
  BY DEF Types
<1> QED BY <1>1 DEF LoginsRead, SameChanges, Changing

\* Requests that leave account and cookies alone.
LEMMA RequestSessions ==
  ASSUME Types, Types', SessionInv, NEW r \in Request,
         \/ AskReset(r) \/ AskVerify(r) \/ VoidOld(r) \/ InsertNew(r) \/ WriteFails(r)
         \/ HashPassword(r) \/ \E i \in DOMAIN tokens : OpenLink(r, i)
         \/ \E b \in Browser : LogIn(r, b)
  PROVE  SessionInv'
<1>0. /\ clock \in Nat /\ req[r] \in Call /\ Free.op = "idle" /\ Free.pc = ""
  BY FreeIsCall DEF Types
<1>1. UNCHANGED <<user, cookie>> /\ clock' >= clock
  BY <1>0, ClockMoves DEF AskReset, AskVerify, VoidOld, InsertNew, WriteFails, HashPassword, OpenLink,
     LogIn
<1>2. NoNewCookie /\ NewCookie
  BY <1>1 DEF NoNewCookie, NewCookie
<1>3. NobodyStays
  <2> SUFFICES ASSUME user.status = "none" PROVE FALSE
    BY <1>1 DEF NobodyStays
  <2>1. /\ tokens = <<>> /\ req[r].pc \notin {"void", "insert", "hash", "write"}
        /\ \A b \in Browser : Session(b) # "ok"
    BY DEF SessionInv, NobodyYet, Session
  <2> QED BY <2>1 DEF AskReset, AskVerify, VoidOld, InsertNew, WriteFails, HashPassword, OpenLink, LogIn
<1>4. LoginsRead /\ (SameChanges \/ ChangesAreNow)
  <2>1. CASE AskReset(r) \/ AskVerify(r)
    <3>1. PICK o \in Type : req' = [req EXCEPT ![r] = Issuing(o)]
      BY <2>1, IssuingIs DEF AskReset, AskVerify, Begin, Type
    <3>2. Issuing(o).op # "login" /\ Issuing(o).op # "reset"
      BY DEF Issuing, Type
    <3> QED BY <3>1, <3>2, OneRequest
  <2>2. CASE VoidOld(r)
    <3>1. PICK rec : rec = [req[r] EXCEPT !.pc = "insert", !.from = clock]
      OBVIOUS
    <3>2. rec.op = req[r].op /\ rec.op \in Type
      BY <1>0, <2>2, <3>1 DEF Call, VoidOld, Types
    <3>3. req' = [req EXCEPT ![r] = rec]
      BY <2>2, <3>1 DEF VoidOld, Types
    <3> QED BY <3>2, <3>3, OneRequest DEF Type
  <2>3. CASE InsertNew(r) \/ WriteFails(r)
    <3>1. req' = [req EXCEPT ![r] = Free]
      BY <2>3 DEF InsertNew, WriteFails, End
    <3> QED BY <1>0, <3>1, OneRequest
  <2>4. CASE HashPassword(r)
    <3>1. PICK n \in Nat : n = clock + 1
      BY ClockIsNat
    <3>2. PICK rec : rec = [req[r] EXCEPT !.pc = "write", !.seen = n]
      OBVIOUS
    <3>3. rec.op = req[r].op /\ rec.op # "login" /\ rec.seen = n
      BY <1>0, <2>4, <3>2 DEF Call, HashPassword, Types
    <3>4. req' = [req EXCEPT ![r] = rec]
      BY <2>4, <3>1, <3>2 DEF HashPassword, Types
    <3>5. \A q \in Request : req'[q] = IF q = r THEN rec ELSE req[q]
      BY <3>4 DEF Types
    <3>6. clock' = clock + 1
      BY <2>4 DEF HashPassword, Stamp
    <3>7. ChangesAreNow
      BY <3>1, <3>3, <3>5, <3>6 DEF ChangesAreNow, Changing
    <3> QED BY <3>3, <3>4, <3>7, OneRequest
  <2>5. ASSUME NEW i \in DOMAIN tokens, OpenLink(r, i) PROVE LoginsRead /\ (SameChanges \/ ChangesAreNow)
    <3>1. PICK o : o = IF tokens[i].type = "password_reset" THEN "reset" ELSE "confirm"
      OBVIOUS
    <3>2. PICK l : l = IF tokens[i].type = "password_reset" THEN "hash" ELSE "write"
      OBVIOUS
    <3>3. req' = [req EXCEPT ![r] = Following(o, l, i)]
      BY <2>5, <3>1, <3>2, FollowingIs DEF OpenLink, Begin
    <3>4. /\ Following(o, l, i).op = o /\ Following(o, l, i).pc = l /\ o # "login"
          /\ ~ (o = "reset" /\ l = "write")
      BY <3>1, <3>2 DEF Following
    <3> QED BY <3>3, <3>4, OneRequest
  <2>6. ASSUME NEW b \in Browser, LogIn(r, b) PROVE LoginsRead /\ (SameChanges \/ ChangesAreNow)
    <3>1. req' = [req EXCEPT ![r] = LoggingIn(b)]
      BY <2>6 DEF LogIn, Begin, LoggingIn
    <3>2. /\ LoggingIn(b).op = "login" /\ LoggingIn(b).from = clock /\ LoggingIn(b).seen = user.pw
      BY DEF LoggingIn
    <3> QED BY <3>1, <3>2, OneRequest
  <2> QED BY <2>1, <2>2, <2>3, <2>4, <2>5, <2>6
<1>5. (ChangesAreNow /\ NoNewCookie) \/ (SameChanges /\ NewCookie)
  BY <1>2, <1>4
<1> QED BY <1>1, <1>3, <1>4, <1>5, SessionsKept

LEMMA LogInSessions ==
  ASSUME Types, Types', SessionInv, NEW r \in Request,
         IssueSession(r) \/ \E b \in Browser : Register(r, b)
  PROVE  SessionInv'
<1>0. /\ clock \in Nat /\ user \in Row /\ req \in [Request -> Call] /\ req[r] \in Call
      /\ cookie \in [Browser -> Cookie \cup {Nobody}] /\ Free.op = "idle" /\ Free.pc = ""
  BY FreeIsCall DEF Types
<1>1. CASE IssueSession(r)
  <2>1. /\ clock' = clock + 1 /\ req' = [req EXCEPT ![r] = Free] /\ UNCHANGED <<user, tokens>>
        /\ req[r].op = "login" /\ req[r].browser \in Browser
    BY <1>1 DEF IssueSession, Stamp, End, Types
  <2>2. PICK b \in Browser : b = req[r].browser
    BY <2>1
  <2>3. PICK n \in Nat : n = clock + 1
    BY ClockIsNat
  <2>4. PICK c : c = [loginAt |-> n, pw |-> req[r].seen, read |-> req[r].from, role |-> user.role]
    OBVIOUS
  <2>5. cookie' = [cookie EXCEPT ![b] = c]
    BY <1>1, <2>2, <2>3, <2>4 DEF IssueSession
  <2>6. /\ c.loginAt = n /\ c.read <= clock
        /\ c.pw # user.pw => c.read <= user.written
    BY <2>1, <2>4 DEF SessionInv, TimesArePast, OldWasReadBefore
  <2>7. NewCookie
    BY <1>0, <2>1, <2>3, <2>5, <2>6 DEF NewCookie
  <2>8. LoginsRead /\ SameChanges
    BY <1>0, <2>1, OneRequest
  <2>9. NobodyStays
    BY <1>0, <2>1 DEF NobodyStays
  <2>10. clock' >= clock
    BY <1>1, ClockIsNat, ClockMoves DEF IssueSession
  <2> QED BY <2>1, <2>7, <2>8, <2>9, <2>10, SessionsKept
<1>2. ASSUME NEW b \in Browser, Register(r, b) PROVE SessionInv'
  <2>1. /\ clock' = clock + 1 /\ user' = [user EXCEPT !.status = "active"] /\ user.status = "none"
        /\ req' = [req EXCEPT ![r] = Issuing("email_verify")]
    BY <1>2, IssuingIs DEF Register, Stamp, Begin
  <2>2. /\ user'.pw = user.pw /\ user'.validFrom = user.validFrom /\ user'.written = user.written
        /\ user'.status = "active" /\ user.pw = 0
    BY <1>0, <2>1 DEF Row, SessionInv, NobodyYet
  <2>3. PICK n \in Nat : n = clock + 1
    BY ClockIsNat
  <2>4. PICK c : c = [loginAt |-> n, pw |-> 0, read |-> clock, role |-> user.role]
    OBVIOUS
  <2>5. cookie' = [cookie EXCEPT ![b] = c]
    BY <1>2, <2>3, <2>4 DEF Register
  <2>6. c.loginAt = n /\ c.read = clock /\ c.pw = user.pw
    BY <2>2, <2>4
  <2>7. NewCookie
    <3>1. c.read <= clock /\ c.pw = user.pw /\ c.loginAt = clock + 1
      BY <2>3, <2>6, ClockIsNat
    <3>2. \A a \in Browser : cookie'[a] = IF a = b THEN c ELSE cookie[a]
      BY <1>0, <2>5
    <3> QED BY <2>1, <3>1, <3>2 DEF NewCookie
  <2>8. Issuing("email_verify").op = "email_verify"
    BY DEF Issuing
  <2>9. LoginsRead /\ SameChanges
    BY <2>1, <2>8, OneRequest
  <2>10. NobodyStays
    BY <2>2 DEF NobodyStays
  <2>11. clock' >= clock
    BY <1>2, ClockIsNat, ClockMoves DEF Register
  <2> QED BY <2>2, <2>7, <2>9, <2>10, <2>11, SessionsKept
<1> QED BY <1>1, <1>2

\* Steps that touch neither password, requests nor time, and no cookie but to drop it.
LEMMA QuietSessions ==
  ASSUME Types, Types', SessionInv, UNCHANGED <<clock, req>>, NoNewCookie,
         user'.pw = user.pw, user'.validFrom = user.validFrom, user'.written = user.written,
         user'.status = "none" => user.status = "none" /\ tokens' = tokens
  PROVE  SessionInv'
<1>1. NobodyStays /\ LoginsRead /\ ChangesAreNow /\ clock' >= clock
  BY ClockMoves DEF NobodyStays, LoginsRead, ChangesAreNow, Changing, Types
<1> QED BY <1>1, SessionsKept

LEMMA NextSessions == Types /\ Types' /\ SessionInv /\ [Next]_vars => SessionInv'
<1> SUFFICES ASSUME Types, Types', SessionInv, [Next]_vars PROVE SessionInv'
  OBVIOUS
<1>0. clock \in Nat /\ user \in Row /\ cookie \in [Browser -> Cookie \cup {Nobody}]
  BY DEF Types
<1>1. CASE UNCHANGED vars
  BY <1>1, QuietSessions DEF vars, NoNewCookie
<1>2. ASSUME NEW i \in DOMAIN tokens, ExpireToken(i) PROVE SessionInv'
  <2>1. user.status # "none"
    BY <1>2 DEF SessionInv, NobodyYet
  <2> QED BY <1>2, <2>1, QuietSessions DEF ExpireToken, NoNewCookie
<1>3. ASSUME NEW r \in Request, WriteVerified(r) PROVE SessionInv'
  <2>1. user.status # "none"
    BY <1>3 DEF SessionInv, NobodyYet, WriteVerified
  <2>2. /\ user'.pw = user.pw /\ user'.validFrom = user.validFrom /\ user'.written = user.written
        /\ user'.status # "none" /\ cookie' = cookie /\ clock' = clock
        /\ req' = [req EXCEPT ![r] = Free]
    BY <1>0, <1>3, <2>1 DEF WriteVerified, Row, End
  <2>3. LoginsRead /\ SameChanges
    BY <2>2, FreeIsCall, OneRequest
  <2>4. NobodyStays /\ NewCookie /\ clock' >= clock
    BY <1>0, <2>2, ClockMoves DEF NobodyStays, NewCookie
  <2> QED BY <2>2, <2>3, <2>4, SessionsKept
<1>4. ASSUME \/ \E s \in Status : SetUserStatus(s)
             \/ \E role \in {"owner", "admin"} : SetRole(role)
      PROVE  SessionInv'
  <2>1. /\ user'.pw = user.pw /\ user'.validFrom = user.validFrom /\ user'.written = user.written
        /\ user'.status = "none" => user.status = "none"
    BY <1>0, <1>4 DEF SetUserStatus, SetRole, Row
  <2>2. UNCHANGED <<clock, tokens, req, cookie>>
    BY <1>4 DEF SetUserStatus, SetRole
  <2> QED BY <2>1, <2>2, QuietSessions DEF NoNewCookie
<1>5. ASSUME NEW b \in Browser, LogOut(b) \/ Serve(b) \/ \E path \in Path : Open(b, path)
      PROVE  SessionInv'
  <2>1. UNCHANGED <<clock, user, tokens, req>>
    BY <1>5 DEF LogOut, Serve, Open, Get, Visit
  <2>2. NoNewCookie
    BY <1>0, <1>5 DEF LogOut, Serve, Open, Get, Visit, NoNewCookie
  <2> QED BY <2>1, <2>2, QuietSessions
<1> QED BY <1>1, <1>2, <1>3, <1>4, <1>5, WritePasswordKeeps, RequestSessions, LogInSessions DEF Next

-----------------------------------------------------------------------------

LEMMA AlwaysInv == Spec => []IInv
<1>1. Init => IInv
  <2> SUFFICES ASSUME Init PROVE IInv
    OBVIOUS
  <2>1. user.pw = 0 /\ user.validFrom = 0 /\ user.written = 0
    <3>1. PICK s \in {"none", "active"} :
            user = [status |-> s, pw |-> 0, validFrom |-> 0, written |-> 0, verified |-> FALSE,
                    role |-> "owner"]
      BY DEF Init
    <3> QED BY <3>1
  <2>2. tokens = <<>> /\ DOMAIN tokens = 1 .. 0
    BY DEF Init
  <2>3. /\ clock = 0
        /\ \A r \in Request : req[r].op = "idle" /\ req[r].pc = ""
        /\ \A b \in Browser : cookie[b] = Nobody
    BY FreeIsCall DEF Init
  <2>4. LinkInv
    <3>1. \A i \in DOMAIN tokens : FALSE
      BY <2>2
    <3> QED BY <2>3, <3>1 DEF LinkInv, SpentIsUsed, VoidedOrLater, LookedBefore, NewLinkVoidsOld
  <2>5. SessionInv
    <3>1. NobodyYet /\ StampsDiffer /\ OldWasReadBefore
      BY <2>1, <2>2, <2>3 DEF NobodyYet, StampsDiffer, OldWasReadBefore
    <3>2. user.validFrom = user.pw /\ user.pw <= clock /\ user.written <= clock
      <4>1. user.pw = clock /\ user.written = clock /\ clock \in Nat
        BY <2>1, <2>3
      <4>2. clock <= clock
        BY <4>1
      <4> QED BY <2>1, <4>1, <4>2
    <3>3. TimesArePast
      BY <2>3, <3>2 DEF TimesArePast, Changing
    <3> QED BY <3>1, <3>3 DEF SessionInv
  <2> QED BY <2>4, <2>5, InitTypes DEF IInv
<1>2. IInv /\ [Next]_vars => IInv'
  BY NextTypes, NextLinks, NextSessions DEF IInv
<1> QED BY <1>1, <1>2, PTL DEF Spec

\* A link works once, a newer link voids it, and a session does not outlive
\* the password it was opened with: consumeAuthToken, issueAuthToken and
\* requireSession, for requests that overlap in any way.
THEOREM OldCredentialsEndHolds == Spec => []OldCredentialsEnd
<1>1. ASSUME IInv PROVE OldCredentialsEnd
  <2>1. LinksWorkOnce
    <3>1. PICK n \in Nat : DOMAIN tokens = 1 .. n /\ \A i \in 1 .. n : tokens[i] \in Link
      BY <1>1, LinksAre DEF IInv
    <3>2. SpentIsUsed
      BY <1>1 DEF IInv, LinkInv
    <3> QED BY <3>1, <3>2 DEF SpentIsUsed, LinksWorkOnce, Link
  <2>2. NewLinkVoidsOld
    BY <1>1 DEF IInv, LinkInv
  <2>3. OldPasswordEndsSessions
    <3> SUFFICES ASSUME NEW b \in Browser, Session(b) # "none", cookie[b].pw # user.pw
                 PROVE  cookie[b].read <= user.written /\ cookie[b].loginAt > user.pw
      BY DEF OldPasswordEndsSessions
    <3>1. cookie[b] # Nobody /\ ~ (cookie[b].loginAt < user.validFrom)
      BY DEF Session, Outdated
    <3>2. /\ user.validFrom = user.pw /\ user.pw \in Nat /\ cookie[b].loginAt \in Nat
          /\ cookie[b].loginAt # user.pw
      BY <1>1, <3>1 DEF IInv, Types, Row, Cookie, SessionInv, TimesArePast, StampsDiffer
    <3> QED BY <1>1, <3>1, <3>2 DEF IInv, SessionInv, OldWasReadBefore
  <2> QED BY <2>1, <2>2, <2>3 DEF OldCredentialsEnd
<1> QED BY <1>1, AlwaysInv, PTL

\* A page of the panel is shown to an active account whose session is not
\* older than its password, and an operator's page to an operator: what
\* middleware and layouts decide together, whatever the cookie says.
THEOREM PagesFollowTheAccountHolds == Spec => PagesFollowTheAccount
<1> DEFINE Fair(b) ==
      Get(b) /\ page'[b] = [at |-> page[b].at, is |-> "shown"] =>
        /\ page[b].at \notin Public => user.status = "active" /\ ~ Outdated(b)
        /\ page[b].at = "/admin" => user.role = "admin"
<1>1. ASSUME IInv, NEW b \in Browser, Get(b), page'[b] = [at |-> page[b].at, is |-> "shown"]
      PROVE  /\ page[b].at \notin Public => user.status = "active" /\ ~ Outdated(b)
             /\ page[b].at = "/admin" => user.role = "admin"
  <2>1. PICK path \in Path : path = page[b].at
    BY <1>1 DEF IInv, Types
  <2>2. page'[b].at = Answer(b, path)
    BY <1>1, <2>1 DEF IInv, Types, Get
  <2>3. Answer(b, path) = path
    BY <1>1, <2>1, <2>2
  <2>4. Layout(b, path) = path
    BY <2>3 DEF Answer
  <2>5. path = "/admin" => Session(b) = "ok" /\ user.role = "admin"
    BY <2>4 DEF Layout, AdminLayout, Public
  <2>6. path = "/" => Session(b) = "ok"
    BY <2>4 DEF Layout, DashboardLayout, Public, Session
  <2>7. Session(b) = "ok" => user.status = "active" /\ ~ Outdated(b)
    BY DEF Session
  <2> QED BY <2>1, <2>5, <2>6, <2>7 DEF Path
<1>2. IInv => [\A b \in Browser : Fair(b)]_<<user, cookie, page>>
  BY <1>1
<1> QED BY <1>2, AlwaysInv, PTL DEF PagesFollowTheAccount
=============================================================================
