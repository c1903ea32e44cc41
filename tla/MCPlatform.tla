------------------------------ MODULE MCPlatform ------------------------------
(***************************************************************************)
(* The components of the panel and of the database that share no state,    *)
(* each on an instance of its own: the configuration, the account, the     *)
(* plan, its limits, the limiter, the keys and models of the steps, the    *)
(* dialogs that make and edit, the templates (many edits of one, or the    *)
(* lives of all). A behaviour is one of one of them, the others stay where *)
(* they start.                                                             *)
(***************************************************************************)
EXTENDS ConfigCache, Credentials, Subscription, Limits, Access, TemplateConfig, Dialog

CONSTANTS r1, r2, s1, s2, Attempt

VARIABLES
  part,                                                 \* the component that runs
  aClock, aReq,                                         \* Accounts
  sSession,                                             \* StripeWebhook
  gAccount, gWork,                                      \* PlanGuard
  lTime, lRow,                                          \* RateLimiter
  kForm, kChanges,                                      \* ModelAccess
  fForm, fMore, fCats, fSent, fLate, fEdits, fForeign,  \* Forms
  mDraft, mLocale, mSaving, mCloning, mDeleting, mSpent \* Templates

A == INSTANCE Accounts WITH
       Request <- {r1, r2}, MaxTokens <- 2, MaxClock <- 4,
       Env <- {"reset", "verify", "db", "register"}, clock <- aClock, req <- aReq

S == INSTANCE StripeWebhook WITH
       Checkout <- {s1, s2}, MaxEvents <- 5, Env <- {"retry", "fail"}, session <- sSession

G == INSTANCE PlanGuard WITH
       MaxUse <- 4,
       Limit <- [free |-> [post |-> 1, site |-> 1], starter |-> [post |-> 2, site |-> 1]],
       account <- gAccount, work <- gWork

L == INSTANCE RateLimiter WITH
       Bucket <- <<"ip", "email">>, MaxTime <- 3, time <- lTime, row <- lRow

K == INSTANCE ModelAccess WITH
       Other <- {"x"}, MaxChanges <- 3, form <- kForm, changes <- kChanges,
       Blind <- {<<"openrouter", "text">>, <<"openai", "x">>, <<"openrouter", "x">>}

N == INSTANCE Forms WITH
       Site <- {"s1", "s2"}, MaxEdits <- 3, MaxForeign <- 0, form <- fForm, more <- fMore,
       cats <- fCats, sent <- fSent, late <- fLate, edits <- fEdits, foreign <- fForeign

E == INSTANCE Forms WITH
       Site <- {"s1"}, MaxEdits <- 2, MaxForeign <- 1, form <- fForm, more <- fMore,
       cats <- fCats, sent <- fSent, late <- fLate, edits <- fEdits, foreign <- fForeign

M == INSTANCE Templates WITH
       MaxEdits <- 3, MaxOthers <- 1, MaxLife <- 0,
       draft <- mDraft, locale <- mLocale, saving <- mSaving, cloning <- mCloning,
       deleting <- mDeleting, spent <- mSpent

V == INSTANCE Templates WITH
       MaxEdits <- 1, MaxOthers <- 1, MaxLife <- 5,
       draft <- mDraft, locale <- mLocale, saving <- mSaving, cloning <- mCloning,
       deleting <- mDeleting, spent <- mSpent

ASSUME ModelAccessAssumption == K!AccessAssumption
ASSUME TemplatesAssumption == M!TemplatesAssumption

accounts == <<user, tokens, cookie, page, aClock, aReq>>
stripe == <<subs, events, row, hook, straight, sSession>>
guard == <<gAccount, used, gWork, peak>>
limiter == <<lTime, lRow, try, granted>>
access == <<owner, own, platform, site, settings, profile, catalog, kForm, kChanges>>
forms == <<record, drawn, open, held, typed, touched, adrift, fForm, fMore, fCats, fSent, fLate,
          fEdits, fForeign>>
templates == <<rows, inUse, cfg, saved, mDraft, mLocale, mSaving, mCloning, mDeleting, mSpent>>
all == <<part, vars, accounts, stripe, guard, limiter, access, forms, templates>>

MCInit ==
  /\ Init /\ A!Init /\ S!Init /\ G!Init /\ L!Init
  /\ part \in {"cache", "accounts", "stripe", "guard", "limiter", "access", "fresh", "kept", "edits",
              "lives"}
  /\ part # "accounts" => user.status = "active"
  /\ K!Init /\ (part # "access" => ~ owner /\ ~ site /\ own = {} /\ platform = {})
  /\ IF part = "kept" THEN E!Init /\ ~ fForm.new ELSE N!Init /\ fForm.new
  /\ part \notin {"fresh", "kept"} => fForm.of = "brief"
  /\ M!Init /\ (part # "edits" => mLocale = "pt")

CacheStep == part = "cache" /\ Next
  /\ UNCHANGED <<part, accounts, stripe, guard, limiter, access, forms, templates>>
AccountsStep == part = "accounts" /\ A!Next
  /\ UNCHANGED <<part, vars, stripe, guard, limiter, access, forms, templates>>
StripeStep == part = "stripe" /\ S!Next
  /\ UNCHANGED <<part, vars, accounts, guard, limiter, access, forms, templates>>
GuardStep == part = "guard" /\ G!Next
  /\ UNCHANGED <<part, vars, accounts, stripe, limiter, access, forms, templates>>
LimiterStep == part = "limiter" /\ L!Next
  /\ UNCHANGED <<part, vars, accounts, stripe, guard, access, forms, templates>>
AccessStep == part = "access" /\ K!Next
  /\ UNCHANGED <<part, vars, accounts, stripe, guard, limiter, forms, templates>>
FreshStep == part = "fresh" /\ N!Next
  /\ UNCHANGED <<part, vars, accounts, stripe, guard, limiter, access, templates>>
KeptStep == part = "kept" /\ E!Next
  /\ UNCHANGED <<part, vars, accounts, stripe, guard, limiter, access, templates>>
EditsStep == part = "edits" /\ M!Next
  /\ UNCHANGED <<part, vars, accounts, stripe, guard, limiter, access, forms>>
LivesStep == part = "lives" /\ V!Next
  /\ UNCHANGED <<part, vars, accounts, stripe, guard, limiter, access, forms>>

MCNext ==
  \/ CacheStep \/ AccountsStep \/ StripeStep \/ GuardStep \/ LimiterStep \/ AccessStep
  \/ FreshStep \/ KeptStep \/ EditsStep \/ LivesStep

MCSpec == MCInit /\ [][MCNext]_all

\* The owner of each call of cachedConfig.
OwnerDef == [r \in Request |-> "worker"]

\* The providers, the preferred first.
OrderDef == <<"openai", "openrouter">>

\* max of the two counters of a log-in.
MaxHitsDef == <<2, 1>>
=============================================================================
