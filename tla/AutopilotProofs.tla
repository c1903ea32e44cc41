--------------------------- MODULE AutopilotProofs ---------------------------
(***************************************************************************)
(* An autopilot makes as many briefs a day, and as many posts of a topic,  *)
(* as the user allowed: for every number of topics, runs, handlers,        *)
(* requests of the panel, deliveries and faults.  And what the scheduler   *)
(* leaves of the dates it serves and the runs it opens, for every number   *)
(* of jobs, autopilots, requests of the panel, dates and faults.           *)
(***************************************************************************)
EXTENDS Autopilot, Schedule, FiniteSetTheorems, TLAPS

CONSTANTS Job, Owner, NoEntry, Form, Limit, MaxDue, MaxBroken
VARIABLES form, dues, broken

Dates == INSTANCE Scheduler WITH
       Autopilot <- Owner, MaxFaults <- MaxBroken, faults <- broken

-----------------------------------------------------------------------------
(* Types, of what the proof speaks of.                                     *)

AtStep == {"idle", "run", "limits", "discover", "brief", "topic", "queue", "end", "threw"}
ClickStep == {"idle", "queue", "send", "mark", "drop", "dismiss"}
TopicStatus == {"none", "pending", "queued", "dismissed"}
BriefOfTopic == {"none", "pending", "queued", "failed", "done", "deleted"}
At == [run : Run \cup {None}, pc : AtStep, want : Nat, keep : SUBSET Topic,
       now : Topic \cup {None}]
Click == [pc : ClickStep, of : Topic \cup {None}, drop : BOOLEAN]

Inserting(x) == at[x].pc \in {"topic", "queue"}

Types ==
  /\ config \in [live : BOOLEAN, auto : BOOLEAN]
  /\ at \in [Exec -> At] /\ loop \in Exec \cup {None}
  /\ click \in [Screen -> Click]
  /\ topic \in [Topic -> TopicStatus] /\ brief \in [Topic -> BriefOfTopic]
  /\ counted \subseteq Topic /\ young \subseteq Topic /\ late \subseteq Topic /\ lists \in Nat
  /\ genMsg \in [Topic -> Nat] /\ posts \in [Topic -> Nat]
  /\ faults \in Nat
  /\ \A x \in Exec : Inserting(x) => at[x].now \in Topic
  /\ \A x \in Exec : at[x].pc \in {"idle", "run", "limits", "discover"} => at[x].keep = {}
  /\ \A q \in Screen : click[q].pc # "idle" => click[q].of \in Topic

-----------------------------------------------------------------------------
(* One post of a topic.  Two things make a post: the handler that queues   *)
(* what it just inserted, and a request of the panel.                      *)

NoClickOf(t) == \A q \in Screen : click[q].of # t

\* Nothing is known of a topic before its brief.
UnbornIsUnknown ==
  \A t \in Topic : brief[t] = "none" =>
    topic[t] = "none" /\ genMsg[t] = 0 /\ posts[t] = 0 /\ NoClickOf(t)

\* A handler works on topics nobody else works on.
KeptIsUnborn == \A x \in Exec : \A t \in at[x].keep : brief[t] = "none"
Apart ==
  \A x \in Exec, y \in Exec : x # y =>
    /\ at[x].keep \cap at[y].keep = {}
    /\ Inserting(x) /\ Inserting(y) => at[x].now # at[y].now
NowIsOurs ==
  \A x \in Exec :
    /\ Inserting(x) => /\ brief[at[x].now] # "none" /\ genMsg[at[x].now] = 0
                       /\ posts[at[x].now] = 0 /\ NoClickOf(at[x].now)
    /\ at[x].pc = "topic" => topic[at[x].now] = "none"
    /\ at[x].pc = "queue" => config.auto /\ topic[at[x].now] \in {"none", "queued"}

\* A brief that became a post is left alone, and has no second message.
PostIsLast ==
  \A t \in Topic \ raced :
    /\ genMsg[t] <= 1 /\ posts[t] <= 1
    /\ posts[t] = 1 => /\ brief[t] \in {"done", "deleted"} /\ genMsg[t] = 0
                       /\ ~ Overtaken(t)

TopicInv == /\ UnbornIsUnknown /\ KeptIsUnborn /\ Apart /\ NowIsOurs
            /\ PostIsLast

-----------------------------------------------------------------------------
(* So many briefs a day.                                                   *)

\* The brief whose topic the handler in time is about to insert.
Pending == IF loop # None /\ at[loop].pc = "topic" THEN {at[loop].now} ELSE {}

\* Only a crash or a failing statement leaves a brief that the cap does not count.
Uncounted == ((young \ late) \ counted) \ Pending
FewUncounted == Cardinality(Uncounted) <= faults

\* What the handler in time has read of the cap and not used is still there.
InTime == counted \ late
CapIsKept ==
  /\ Cardinality(InTime) <= Cap
  /\ loop # None =>
       /\ at[loop].pc = "discover" => Cardinality(InTime) + at[loop].want <= Cap
       /\ at[loop].pc \in {"brief", "queue"} =>
             Cardinality(InTime) + Cardinality(at[loop].keep) <= Cap
       /\ at[loop].pc = "topic" =>
             Cardinality(InTime) + Cardinality(at[loop].keep) + 1 <= Cap

\* A handler given up for late has at most the cap still to insert.
LateIsFew == Cardinality(late) <= Cap * lists
WantIsSmall == \A x \in Exec : at[x].want <= Cap
LateIsLate == \A x \in Exec : x # loop => Unfinished(x) \subseteq late

CapInv == config.live => /\ FewUncounted /\ CapIsKept
                         /\ LateIsFew /\ WantIsSmall /\ LateIsLate

IInv == Types /\ TopicInv /\ CapInv

-----------------------------------------------------------------------------
(* Types                                                                   *)

LEMMA IdleType == Idle \in At /\ Idle.pc = "idle" /\ Idle.keep = {} /\ Idle.want = 0
  BY DEF Idle, At, AtStep

LEMMA InitTypes == Init => Types
<1> SUFFICES ASSUME Init PROVE Types
  OBVIOUS
<1>1. at \in [Exec -> At] /\ \A x \in Exec : at[x].pc = "idle" /\ at[x].keep = {}
  BY IdleType DEF Init
<1>2. click \in [Screen -> Click] /\ \A q \in Screen : click[q].pc = "idle"
  BY DEF Init, NoClick, Click, ClickStep
<1>3. /\ config \in [live : BOOLEAN, auto : BOOLEAN] /\ loop \in Exec \cup {None}
      /\ counted \subseteq Topic /\ young \subseteq Topic /\ late \subseteq Topic
      /\ lists \in Nat /\ faults \in Nat
  BY DEF Init
<1>4. /\ topic \in [Topic -> TopicStatus] /\ brief \in [Topic -> BriefOfTopic]
      /\ genMsg \in [Topic -> Nat] /\ posts \in [Topic -> Nat]
  BY DEF Init, TopicStatus, BriefOfTopic
<1> QED BY <1>1, <1>2, <1>3, <1>4 DEF Types, Inserting

LEMMA Counts ==
  ASSUME NEW S, S \subseteq Topic PROVE IsFiniteSet(S) /\ Cardinality(S) \in Nat
  BY AutopilotAssumption, FS_Subset, FS_CardinalityType

LEMMA CountSubset ==
  ASSUME NEW S, S \subseteq Topic, NEW T, T \subseteq S
  PROVE  Cardinality(T) <= Cardinality(S) /\ Cardinality(T) \in Nat /\ Cardinality(S) \in Nat
  BY Counts, FS_Subset

LEMMA CountPlusOne ==
  ASSUME NEW S, IsFiniteSet(S), NEW x, NEW T, T = S \cup {x}
  PROVE  IsFiniteSet(T) /\ Cardinality(T) \in Nat /\ Cardinality(T) <= Cardinality(S) + 1
<1>1. /\ IsFiniteSet(T) /\ Cardinality(S) \in Nat
      /\ Cardinality(T) = IF x \in S THEN Cardinality(S) ELSE Cardinality(S) + 1
  BY FS_AddElement, FS_CardinalityType
<1> QED BY <1>1

LEMMA CountUnion ==
  ASSUME NEW S, S \subseteq Topic, NEW T, T \subseteq Topic
  PROVE  Cardinality(S \cup T) <= Cardinality(S) + Cardinality(T)
<1>1. /\ IsFiniteSet(S) /\ IsFiniteSet(T) /\ Cardinality(S) \in Nat /\ Cardinality(T) \in Nat
      /\ Cardinality(S \cap T) \in Nat
  BY Counts
<1>2. Cardinality(S \cup T) = Cardinality(S) + Cardinality(T) - Cardinality(S \cap T)
  BY <1>1, FS_Union
<1> QED BY <1>1, <1>2

LEMMA WantedIsFew ==
  ASSUME counted \subseteq Topic, Remaining # 0
  PROVE  Wanted \in Nat /\ Wanted <= Cap /\ Cardinality(counted) + Wanted <= Cap
  BY Counts, AutopilotAssumption DEF Wanted, Remaining

\* What a step of handler x leaves of the handlers.
Only(x) == /\ at' \in [Exec -> At]
           /\ \A y \in Exec : y # x => at'[y] = at[y]

LEMMA GotoFrame ==
  ASSUME Types, NEW x \in Exec, NEW l \in AtStep, Goto(x, l)
  PROVE  /\ Only(x)
         /\ at'[x].pc = l /\ at'[x].want = at[x].want
         /\ at'[x].keep = at[x].keep /\ at'[x].now = at[x].now
<1>1. PICK h : h = [at[x] EXCEPT !.pc = l]
  OBVIOUS
<1>2. at[x] \in At
  BY DEF Types
<1>3. /\ h \in At /\ h.pc = l /\ h.want = at[x].want /\ h.keep = at[x].keep
      /\ h.now = at[x].now
  BY <1>1, <1>2 DEF At
<1>4. at' = [at EXCEPT ![x] = h]
  BY <1>1 DEF Goto
<1> QED BY <1>3, <1>4 DEF Types, Only

\* Where the handler goes at each step.
LEMMA LeaveFrame ==
  ASSUME Types, NEW x \in Exec, Load(x) \/ Skip(x) \/ Close(x) \/ Catch(x)
  PROVE  /\ Only(x) /\ at'[x].pc \in {"limits", "end", "threw"}
         /\ at'[x].pc = "limits" => at[x].pc = "run"
         /\ at'[x].want = at[x].want
         /\ at'[x].keep = at[x].keep /\ at'[x].now = at[x].now
<1>1. PICK l \in {"limits", "end", "threw"} : Goto(x, l) /\ (l = "limits" => at[x].pc = "run")
  BY DEF Load, Skip, Close, Catch
<1>2. l \in AtStep
  BY DEF AtStep
<1> QED BY <1>1, <1>2, GotoFrame

LEMMA LimitsFrame ==
  ASSUME Types, NEW x \in Exec, Limits(x)
  PROVE  /\ Only(x) /\ at'[x].keep = at[x].keep /\ at'[x].now = at[x].now
         /\ at[x].pc = "limits"
         /\ \/ at'[x].pc = "end" /\ at'[x].want = at[x].want
            \/ at'[x].pc = "discover" /\ at'[x].want = Wanted /\ Remaining # 0
<1>0. at[x].pc = "limits"
  BY DEF Limits
<1>1. CASE Remaining = 0
  <2>1. Goto(x, "end") /\ "end" \in AtStep
    BY <1>1 DEF Limits, AtStep
  <2> QED BY <1>0, <2>1, GotoFrame
<1>2. CASE Remaining # 0
  <2>1. PICK h : h = [at[x] EXCEPT !.pc = "discover", !.want = Wanted]
    OBVIOUS
  <2>2. at[x] \in At /\ Wanted \in Nat
    BY <1>2, WantedIsFew DEF Types
  <2>3. /\ h \in At /\ h.pc = "discover" /\ h.want = Wanted /\ h.keep = at[x].keep
        /\ h.now = at[x].now
    BY <2>1, <2>2 DEF At, AtStep
  <2>4. at' = [at EXCEPT ![x] = h]
    BY <1>2, <2>1 DEF Limits
  <2> QED BY <1>0, <1>2, <2>3, <2>4 DEF Types, Only
<1> QED BY <1>1, <1>2

LEMMA DiscoverFrame ==
  ASSUME Types, NEW x \in Exec, Discover(x)
  PROVE  /\ Only(x)
         /\ \/ /\ at'[x].pc = "end" /\ at'[x].keep = at[x].keep /\ at'[x].want = at[x].want
               /\ UNCHANGED lateVars
            \/ /\ at'[x].pc = "brief" /\ at'[x].want = 0
               /\ at'[x].keep \subseteq Fresh /\ Cardinality(at'[x].keep) <= at[x].want
               /\ IF x = loop THEN UNCHANGED lateVars ELSE Belated(at'[x].keep)
<1>1. CASE Goto(x, "end") /\ UNCHANGED lateVars
  BY <1>1, GotoFrame DEF AtStep
<1>2. ASSUME NEW K \in SUBSET Fresh, Cardinality(K) <= at[x].want,
             at' = [at EXCEPT ![x].pc = "brief", ![x].want = 0, ![x].keep = K],
             IF x = loop THEN UNCHANGED lateVars ELSE Belated(K)
      PROVE  /\ Only(x) /\ at'[x].pc = "brief" /\ at'[x].want = 0 /\ at'[x].keep = K
  <2>1. PICK h : h = [at[x] EXCEPT !.pc = "brief", !.want = 0, !.keep = K]
    OBVIOUS
  <2>2. at[x] \in At /\ K \subseteq Topic
    BY <1>2 DEF Types, Fresh
  <2>3. h \in At /\ h.pc = "brief" /\ h.want = 0 /\ h.keep = K
    BY <2>1, <2>2 DEF At, AtStep
  <2>4. at' = [at EXCEPT ![x] = h]
    BY <1>2, <2>1
  <2> QED BY <2>3, <2>4 DEF Types, Only
<1> QED BY <1>1, <1>2 DEF Discover

LEMMA InsertBriefFrame ==
  ASSUME Types, NEW x \in Exec, NEW t \in Topic, InsertBrief(x, t)
  PROVE  /\ Only(x) /\ at'[x].pc = "topic" /\ at'[x].now = t
         /\ at'[x].keep = at[x].keep \ {t} /\ at'[x].want = at[x].want
<1>1. PICK h : h = [at[x] EXCEPT !.pc = "topic", !.now = t, !.keep = @ \ {t}]
  OBVIOUS
<1>2. at[x] \in At
  BY DEF Types
<1>3. /\ h \in At /\ h.pc = "topic" /\ h.now = t /\ h.keep = at[x].keep \ {t}
      /\ h.want = at[x].want
  BY <1>1, <1>2 DEF At, AtStep
<1>4. at' = [at EXCEPT ![x] = h]
  BY <1>1 DEF InsertBrief
<1> QED BY <1>3, <1>4 DEF Types, Only

LEMMA InsertTopicFrame ==
  ASSUME Types, NEW x \in Exec, InsertTopic(x) \/ Queue(x)
  PROVE  /\ Only(x) /\ at'[x].keep = at[x].keep /\ at'[x].now = at[x].now
         /\ at'[x].want = at[x].want
         /\ at'[x].pc = IF ~ config.live THEN "end"
                        ELSE IF config.auto /\ ~ Queue(x) THEN "queue" ELSE "brief"
<1>1. CASE Queue(x)
  <2>1. Goto(x, IF config.live THEN "brief" ELSE "end")
    BY <1>1 DEF Queue
  <2> QED BY <1>1, <2>1, GotoFrame DEF AtStep
<1>2. CASE InsertTopic(x) /\ ~ Queue(x)
  <2>1. Goto(x, IF ~ config.live THEN "end" ELSE IF config.auto THEN "queue" ELSE "brief")
    BY <1>2 DEF InsertTopic
  <2> QED BY <1>2, <2>1, GotoFrame DEF AtStep
<1> QED BY <1>1, <1>2

\* The queue's own moves.
LEMMA RestFrame ==
  ASSUME Types, NEW x \in Exec,
         \/ Settle(x)
         \/ \E r \in Run : Fetch(r, x)
  PROVE  /\ Only(x) /\ at'[x].pc \in {"idle", "run"}
         /\ at'[x].keep = {} /\ at'[x].want = 0
<1>1. CASE Settle(x)
  BY <1>1, IdleType DEF Settle, Types, Only
<1>2. ASSUME NEW r \in Run, Fetch(r, x)
      PROVE  /\ Only(x) /\ at'[x].pc = "run"
             /\ at'[x].keep = {} /\ at'[x].want = 0
  <2>1. PICK h : h = [Idle EXCEPT !.run = r, !.pc = "run"]
    OBVIOUS
  <2>2. h \in At /\ h.pc = "run" /\ h.keep = {} /\ h.want = 0
    <3>1. h = [run |-> r, pc |-> "run", want |-> 0, keep |-> {}, now |-> None]
      BY <2>1 DEF Idle
    <3> QED BY <3>1 DEF At, AtStep
  <2>3. at' = [at EXCEPT ![x] = h]
    BY <1>2, <2>1 DEF Fetch
  <2> QED BY <2>2, <2>3 DEF Types, Only
<1> QED BY <1>1, <1>2

LEMMA CrashFrame ==
  ASSUME Types, Crash
  PROVE  /\ at' \in [Exec -> At] /\ loop' = None
         /\ \A x \in Exec : at'[x].pc = "idle" /\ at'[x].keep = {} /\ at'[x].want = 0
  BY IdleType DEF Crash

\* A step of one handler.
LEMMA HandlerTypes == ASSUME Types, NEW x \in Exec, Handler(x) \/ Catch(x) PROVE Types'
<1> USE DEF Inserting, Only
<1>0. \A y \in Exec : at[y].keep \subseteq Topic
  BY DEF Types, At
<1>1. CASE Load(x) \/ Skip(x) \/ Close(x) \/ Catch(x)
  <2>1. UNCHANGED <<config, loop, topicVars, lateVars, genVars, panel>> /\ faults' \in Nat
    BY <1>1 DEF Load, Skip, Close, Catch, Fault, Types
  <2> QED BY <1>1, <2>1, LeaveFrame DEF Types, topicVars, lateVars, genVars, panel
<1>2. CASE Limits(x)
  <2>1. UNCHANGED <<config, loop, topicVars, lateVars, genVars, panel, faults>>
    BY <1>2 DEF Limits
  <2> QED BY <1>2, <2>1, LimitsFrame DEF Types, topicVars, lateVars, genVars, panel
<1>3. CASE Discover(x)
  <2>1. UNCHANGED <<config, loop, topicVars, genVars, panel, faults>>
    BY <1>3 DEF Discover
  <2>2. late' \subseteq Topic /\ lists' \in Nat
    BY <1>3, DiscoverFrame DEF Types, Belated, lateVars, Fresh
  <2>3. Only(x) /\ at'[x].pc \in {"brief", "end"}
    BY <1>3, DiscoverFrame
  <2> QED BY <2>1, <2>2, <2>3 DEF Types, topicVars, genVars, panel
<1>4. ASSUME NEW t \in Topic, InsertBrief(x, t) PROVE Types'
  <2>1. /\ UNCHANGED <<config, loop, topic, counted, lateVars, genVars, panel, faults>>
        /\ brief' = [brief EXCEPT ![t] = Status] /\ young' = young \cup {t}
    BY <1>4 DEF InsertBrief
  <2>2. Status \in BriefOfTopic
    BY DEF Status, BriefOfTopic
  <2> QED BY <1>4, <2>1, <2>2, InsertBriefFrame DEF Types, lateVars, genVars, panel
<1>5. CASE InsertTopic(x)
  <2>1. /\ UNCHANGED <<config, loop, brief, young, lateVars, genVars, panel, faults>>
        /\ topic' \in [Topic -> TopicStatus] /\ counted' \subseteq Topic
    BY <1>5 DEF InsertTopic, Types, Status, TopicStatus
  <2>2. /\ Only(x) /\ at'[x].now = at[x].now /\ at[x].now \in Topic
        /\ at'[x].pc \in {"end", "queue", "brief"}
    BY <1>5, InsertTopicFrame DEF InsertTopic, Types
  <2> QED BY <2>1, <2>2 DEF Types, lateVars, genVars, panel
<1>6. CASE Queue(x)
  <2>1. /\ UNCHANGED <<config, loop, topicVars, lateVars, posts, panel, faults>>
        /\ genMsg' \in [Topic -> Nat]
    BY <1>6 DEF Queue, Send, Refused, Types, genVars
  <2>2. Only(x) /\ at'[x].pc \in {"brief", "end"}
    BY <1>6, InsertTopicFrame
  <2> QED BY <2>1, <2>2 DEF Types, topicVars, lateVars, panel
<1> QED BY <1>1, <1>2, <1>3, <1>4, <1>5, <1>6 DEF Handler

\* A step of the queue or of somebody who starts, stops or generates.
LEMMA QueueTypes ==
  ASSUME Types,
         \/ TimeOut \/ Crash \/ SetWorkspaceStatus \/ AskDelete \/ Delete
         \/ \E x \in Exec : Settle(x) \/ \E r \in Run : Fetch(r, x)
         \/ \E r \in Run : Start(r) \/ Stop(r)
         \/ \E t \in Topic : HoursPass(t) \/ Generate(t)
  PROVE  Types'
<1> USE DEF Inserting, Only, runVars, workVars, topicVars, lateVars, genVars, panel, discoveries
<1>1. CASE TimeOut
  <2>1. Unfinished(loop) \subseteq Topic
    BY <1>1 DEF TimeOut, Unfinished, Types, At
  <2> QED BY <1>1, <2>1 DEF TimeOut, Belated, Types
<1>2. CASE Crash
  BY <1>2, CrashFrame DEF Crash, Fault, Types
<1>3. CASE SetWorkspaceStatus \/ AskDelete
  BY <1>3 DEF SetWorkspaceStatus, AskDelete, Types
<1>4. CASE Delete
  BY <1>4 DEF Delete, Types, TopicStatus
<1>5. ASSUME NEW x \in Exec, Settle(x) \/ \E r \in Run : Fetch(r, x) PROVE Types'
  <2>1. UNCHANGED <<config, topicVars, lateVars, genVars, panel, faults>> /\ loop' \in Exec \cup {None}
    BY <1>5 DEF Settle, Fetch, Types
  <2> QED BY <1>5, <2>1, RestFrame DEF Types
<1>6. ASSUME NEW r \in Run, Start(r) \/ Stop(r) PROVE Types'
  BY <1>6 DEF Start, Stop, Types
<1>7. ASSUME NEW t \in Topic, HoursPass(t) PROVE Types'
  BY <1>7 DEF HoursPass, Types
<1>8. ASSUME NEW t \in Topic, Generate(t) PROVE Types'
  <2>1. /\ UNCHANGED <<config, discoveries, topic, counted, young, panel, faults>>
        /\ genMsg' \in [Topic -> Nat] /\ posts' \in [Topic -> Nat]
    BY <1>8 DEF Generate, Types
  <2>2. brief' \in [Topic -> BriefOfTopic]
    BY <1>8 DEF Generate, Types, BriefOfTopic
  <2> QED BY <2>1, <2>2 DEF Types
<1> QED BY <1>1, <1>2, <1>3, <1>4, <1>5, <1>6, <1>7, <1>8

\* A request begins, takes a step, ends.
LEMMA BeginFrame ==
  ASSUME Types, NEW q \in Screen, NEW c \in Click, c.pc # "idle" => c.of \in Topic,
         click' = [click EXCEPT ![q] = c]
  PROVE  /\ click' \in [Screen -> Click]
         /\ \A p \in Screen : click'[p].pc # "idle" => click'[p].of \in Topic
         /\ click'[q] = c /\ \A p \in Screen : p # q => click'[p] = click[p]
  BY DEF Types

LEMMA StepFrame ==
  ASSUME Types, NEW q \in Screen, NEW l \in ClickStep, Step(q, l), click[q].pc # "idle"
  PROVE  /\ click' \in [Screen -> Click]
         /\ \A p \in Screen : click'[p].pc # "idle" => click'[p].of \in Topic
         /\ \A p \in Screen : p # q => click'[p] = click[p]
         /\ click'[q].pc = l /\ click'[q].of = click[q].of /\ click'[q].drop = click[q].drop
<1>1. PICK c : c = [click[q] EXCEPT !.pc = l]
  OBVIOUS
<1>2. /\ c \in Click /\ c.pc = l /\ c.of = click[q].of /\ c.drop = click[q].drop
      /\ click[q].of \in Topic
  BY <1>1 DEF Types, Click
<1>3. click' = [click EXCEPT ![q] = c]
  BY <1>1 DEF Step
<1> QED BY <1>2, <1>3, BeginFrame

LEMMA DoneFrame ==
  ASSUME Types, NEW q \in Screen, Done(q)
  PROVE  /\ click' \in [Screen -> Click]
         /\ \A p \in Screen : click'[p].pc # "idle" => click'[p].of \in Topic
         /\ \A p \in Screen : p # q => click'[p] = click[p]
         /\ click'[q].pc = "idle" /\ click'[q].of = None
<1>1. NoClick \in Click /\ NoClick.pc = "idle" /\ NoClick.of = None
  BY DEF NoClick, Click, ClickStep
<1>2. click' = [click EXCEPT ![q] = NoClick]
  BY DEF Done
<1> QED BY <1>1, <1>2, BeginFrame

\* A request of the panel.
LEMMA PanelTypes ==
  ASSUME Types, NEW q \in Screen,
         \/ PanelStep(q) \/ RequestDies(q)
         \/ \E t \in Topic : AskGenerate(q, t) \/ AskDismiss(q, t)
  PROVE  Types'
<1> USE DEF Types, Inserting, ClickStep, discoveries, topicVars, genVars
<1>0. ASSUME click[q].pc # "idle" PROVE click[q].of \in Topic
  BY <1>0
<1>1. ASSUME NEW t \in Topic, AskGenerate(q, t) \/ AskDismiss(q, t) PROVE Types'
  <2>1. PICK c \in Click : c.of = t /\ click' = [click EXCEPT ![q] = c]
    <3>1. CASE AskGenerate(q, t)
      <4>1. [pc |-> "queue", of |-> t, drop |-> FALSE] \in Click
        BY DEF Click
      <4> QED BY <3>1, <4>1 DEF AskGenerate
    <3>2. CASE AskDismiss(q, t)
      <4>1. [pc |-> "drop", of |-> t, drop |-> brief[t] \in {"pending", "failed"}] \in Click
        BY DEF Click
      <4> QED BY <3>2, <4>1 DEF AskDismiss
    <3> QED BY <1>1, <3>1, <3>2
  <2>2. /\ click' \in [Screen -> Click]
        /\ \A p \in Screen : click'[p].pc # "idle" => click'[p].of \in Topic
    BY <2>1, BeginFrame
  <2> QED BY <1>1, <2>2 DEF AskGenerate, AskDismiss
<1>2. CASE QueueBrief(q)
  <2>1. /\ click' \in [Screen -> Click]
        /\ \A p \in Screen : click'[p].pc # "idle" => click'[p].of \in Topic
    BY <1>2, StepFrame, DoneFrame DEF QueueBrief
  <2>2. brief' \in [Topic -> BriefOfTopic]
    BY <1>0, <1>2 DEF QueueBrief, BriefOfTopic
  <2> QED BY <1>2, <2>1, <2>2 DEF QueueBrief
<1>3. CASE SendBrief(q)
  <2>1. /\ click' \in [Screen -> Click]
        /\ \A p \in Screen : click'[p].pc # "idle" => click'[p].of \in Topic
    BY <1>3, StepFrame, DoneFrame DEF SendBrief
  <2>2. genMsg' \in [Topic -> Nat]
    BY <1>0, <1>3 DEF SendBrief, Send, Refused
  <2> QED BY <1>3, <2>1, <2>2 DEF SendBrief
<1>4. CASE MarkQueued(q) \/ MarkDismissed(q)
  <2>1. /\ click' \in [Screen -> Click]
        /\ \A p \in Screen : click'[p].pc # "idle" => click'[p].of \in Topic
    BY <1>4, DoneFrame DEF MarkQueued, MarkDismissed
  <2>2. topic' \in [Topic -> TopicStatus]
    BY <1>0, <1>4 DEF MarkQueued, MarkDismissed, TopicStatus
  <2> QED BY <1>4, <2>1, <2>2 DEF MarkQueued, MarkDismissed
<1>5. CASE DropBrief(q)
  <2>1. /\ click' \in [Screen -> Click]
        /\ \A p \in Screen : click'[p].pc # "idle" => click'[p].of \in Topic
    BY <1>5, StepFrame DEF DropBrief
  <2>2. brief' \in [Topic -> BriefOfTopic] /\ counted' \subseteq Topic /\ young' \subseteq Topic
    BY <1>0, <1>5 DEF DropBrief, BriefOfTopic
  <2> QED BY <1>5, <2>1, <2>2 DEF DropBrief
<1>6. CASE RequestDies(q)
  <2>1. /\ click' \in [Screen -> Click]
        /\ \A p \in Screen : click'[p].pc # "idle" => click'[p].of \in Topic
    BY <1>6, DoneFrame DEF RequestDies
  <2> QED BY <1>6, <2>1 DEF RequestDies, Fault
<1> QED BY <1>1, <1>2, <1>3, <1>4, <1>5, <1>6 DEF PanelStep

LEMMA NextTypes == Types /\ [Next]_vars => Types'
<1> SUFFICES ASSUME Types, [Next]_vars PROVE Types'
  OBVIOUS
<1>1. CASE UNCHANGED vars
  BY <1>1 DEF vars, Types, Inserting
<1> QED BY <1>1, HandlerTypes, QueueTypes, PanelTypes DEF Next

-----------------------------------------------------------------------------
(* One post of a topic                                                     *)

\* A step that writes neither topics nor briefs, and begins no topic.
LEMMA QuietTopics ==
  ASSUME TopicInv, UNCHANGED <<topic, brief, genMsg, posts, raced, click>>,
         config'.auto = config.auto,
         \A x \in Exec : at'[x] = at[x] \/ at'[x].pc \notin {"topic", "queue"},
         \A x \in Exec : \A t \in at'[x].keep : brief[t] = "none",
         \A x \in Exec, y \in Exec : x # y => at'[x].keep \cap at'[y].keep = {}
  PROVE  TopicInv'
<1> USE DEF TopicInv, Inserting
<1>1. UnbornIsUnknown'
  BY DEF UnbornIsUnknown, NoClickOf
<1>2. KeptIsUnborn'
  BY DEF KeptIsUnborn
<1>3. Apart'
  BY DEF Apart
<1>4. NowIsOurs'
  BY DEF NowIsOurs, NoClickOf
<1>5. PostIsLast'
  BY DEF PostIsLast, Overtaken
<1> QED BY <1>1, <1>2, <1>3, <1>4, <1>5

\* So are those that leave a handler with no more topics than it had.
LEMMA LessKept ==
  ASSUME TopicInv, UNCHANGED <<topic, brief, genMsg, posts, raced, click>>,
         config'.auto = config.auto,
         \A x \in Exec : \/ at'[x] = at[x]
                         \/ /\ at'[x].pc \notin {"topic", "queue"}
                            /\ at'[x].keep \subseteq at[x].keep
  PROVE  TopicInv'
<1>1. \A x \in Exec : \A t \in at'[x].keep : brief[t] = "none"
  BY DEF TopicInv, KeptIsUnborn
<1>2. \A x \in Exec, y \in Exec : x # y => at'[x].keep \cap at'[y].keep = {}
  BY DEF TopicInv, Apart
<1> QED BY <1>1, <1>2, QuietTopics

LEMMA QueueTopics ==
  ASSUME Types, TopicInv,
         \/ TimeOut \/ Crash \/ SetWorkspaceStatus \/ AskDelete
         \/ \E x \in Exec : \/ Load(x) \/ Skip(x) \/ Limits(x) \/ Close(x) \/ Catch(x)
                            \/ Settle(x) \/ \E r \in Run : Fetch(r, x)
         \/ \E r \in Run : Start(r) \/ Stop(r)
         \/ \E t \in Topic : HoursPass(t)
  PROVE  TopicInv'
<1>1. UNCHANGED <<config, topic, brief, genMsg, posts, raced, click>>
  BY DEF TimeOut, Crash, SetWorkspaceStatus, AskDelete, Load, Skip, Limits, Close, Catch, Settle,
     Fetch, Start, Stop, HoursPass, topicVars, genVars, panel
<1>2. CASE TimeOut \/ SetWorkspaceStatus \/ AskDelete \/ (\E r \in Run : Start(r) \/ Stop(r))
           \/ (\E t \in Topic : HoursPass(t))
  <2>1. UNCHANGED at
    BY <1>2 DEF TimeOut, SetWorkspaceStatus, AskDelete, Start, Stop, HoursPass, workVars,
       discoveries
  <2> QED BY <1>1, <2>1, LessKept
<1>3. CASE Crash
  BY <1>1, <1>3, CrashFrame, LessKept
<1>4. ASSUME NEW x \in Exec, Load(x) \/ Skip(x) \/ Limits(x) \/ Close(x) \/ Catch(x)
      PROVE  TopicInv'
  <2>1. /\ Only(x) /\ at'[x].pc \notin {"topic", "queue"} /\ at'[x].keep = at[x].keep
    BY <1>4, LeaveFrame, LimitsFrame
  <2> QED BY <1>1, <2>1, LessKept DEF Only
<1>5. ASSUME NEW x \in Exec, Settle(x) \/ \E r \in Run : Fetch(r, x) PROVE TopicInv'
  <2>1. /\ Only(x) /\ at'[x].pc \notin {"topic", "queue"} /\ at'[x].keep = {}
    BY <1>5, RestFrame
  <2> QED BY <1>1, <2>1, LessKept DEF Only
<1> QED BY <1>2, <1>3, <1>4, <1>5

LEMMA DiscoverTopics ==
  ASSUME Types, TopicInv, NEW x \in Exec, Discover(x) PROVE TopicInv'
<1>1. UNCHANGED <<config, topic, brief, genMsg, posts, raced, click>>
  BY DEF Discover, topicVars, genVars, panel
<1>2. Only(x)
  BY DiscoverFrame
<1>3. CASE at'[x].pc = "end" /\ at'[x].keep = at[x].keep
  BY <1>1, <1>2, <1>3, LessKept DEF Only
<1>4. CASE at'[x].pc = "brief" /\ at'[x].keep \subseteq Fresh
  <2>1. \A y \in Exec : \A t \in at'[y].keep : brief[t] = "none"
    BY <1>2, <1>4 DEF Only, Fresh, TopicInv, KeptIsUnborn
  <2>2. \A y \in Exec : y # x => at'[x].keep \cap at'[y].keep = {}
    BY <1>2, <1>4 DEF Only, Fresh
  <2>3. \A y \in Exec, z \in Exec : y # z => at'[y].keep \cap at'[z].keep = {}
    BY <1>2, <2>2 DEF Only, TopicInv, Apart
  <2> QED BY <1>1, <1>2, <1>4, <2>1, <2>3, QuietTopics DEF Only
<1> QED BY <1>3, <1>4, DiscoverFrame

\* A handler inserts a brief, its topic, and queues it.
LEMMA InsertBriefTopics ==
  ASSUME Types, TopicInv, NEW x \in Exec, NEW t \in Topic, InsertBrief(x, t) PROVE TopicInv'
<1> USE DEF TopicInv, Only, Inserting
<1>1. /\ brief[t] = "none" /\ topic[t] = "none" /\ genMsg[t] = 0 /\ posts[t] = 0
      /\ NoClickOf(t) /\ t \in at[x].keep
  BY DEF InsertBrief, KeptIsUnborn, UnbornIsUnknown
<1>2. /\ brief'[t] # "none"
      /\ \A s \in Topic : s # t => brief'[s] = brief[s]
      /\ UNCHANGED <<config, topic, genMsg, posts, raced, click>>
  BY DEF InsertBrief, Status, Types, genVars, panel
<1>3. Only(x) /\ at'[x].pc = "topic" /\ at'[x].now = t /\ at'[x].keep = at[x].keep \ {t}
  BY InsertBriefFrame
<1>4. \A y \in Exec : /\ y # x => t \notin at[y].keep
                      /\ at[y].keep \subseteq Topic
                      /\ Inserting(y) => at[y].now # t /\ at[y].now \in Topic
  BY <1>1 DEF Apart, NowIsOurs, Types, At
<1>5. UnbornIsUnknown'
  BY <1>2 DEF UnbornIsUnknown, NoClickOf
<1>6. KeptIsUnborn'
  BY <1>2, <1>3, <1>4 DEF KeptIsUnborn
<1>7. Apart'
  BY <1>3, <1>4 DEF Apart
<1>8. NowIsOurs'
  BY <1>1, <1>2, <1>3, <1>4 DEF NowIsOurs, NoClickOf
<1>9. PostIsLast'
  BY <1>1, <1>2 DEF PostIsLast, Overtaken
<1> QED BY <1>5, <1>6, <1>7, <1>8, <1>9

LEMMA InsertTopicTopics ==
  ASSUME Types, TopicInv, NEW x \in Exec, InsertTopic(x) PROVE TopicInv'
<1> USE DEF TopicInv, Only, Inserting
<1>0. ~ Queue(x)
  BY DEF InsertTopic, Queue
<1>1. CASE ~ config.live
  <2>1. /\ UNCHANGED <<config, topic, brief, genMsg, posts, raced, click>>
        /\ Only(x) /\ at'[x].pc = "end" /\ at'[x].keep = at[x].keep
    BY <1>0, <1>1, InsertTopicFrame DEF InsertTopic, genVars, panel
  <2> QED BY <2>1, LessKept
<1>2. CASE config.live
  <2> DEFINE n == at[x].now
  <2>1. n \in Topic /\ Inserting(x) /\ brief[n] # "none"
    BY DEF InsertTopic, NowIsOurs, Types
  <2>2. /\ UNCHANGED <<config, brief, genMsg, posts, raced, click>>
        /\ \A s \in Topic : s # n => topic'[s] = topic[s]
        /\ config.auto => topic'[n] = "queued"
    BY <1>2, <2>1 DEF InsertTopic, Types, Status, genVars, panel
  <2>3. /\ Only(x) /\ at'[x].pc = (IF config.auto THEN "queue" ELSE "brief")
        /\ at'[x].now = n /\ at'[x].keep = at[x].keep
    BY <1>0, <1>2, InsertTopicFrame
  <2>4. \A y \in Exec : y # x /\ Inserting(y) => at[y].now # n /\ at[y].now \in Topic
    BY <2>1 DEF Apart, Types
  <2> HIDE DEF n
  <2>5. UnbornIsUnknown'
    BY <2>1, <2>2 DEF UnbornIsUnknown, NoClickOf
  <2>6. KeptIsUnborn'
    BY <2>2, <2>3 DEF KeptIsUnborn
  <2>7. Apart'
    BY <2>1, <2>3, <2>4 DEF Apart
  <2>8. NowIsOurs'
    <3>1. /\ brief[n] # "none" /\ genMsg[n] = 0 /\ posts[n] = 0 /\ NoClickOf(n)
      BY DEF n, NowIsOurs, InsertTopic
    <3> QED BY <2>1, <2>2, <2>3, <2>4, <3>1 DEF NowIsOurs, NoClickOf
  <2>9. PostIsLast'
    BY <2>2 DEF PostIsLast, Overtaken
  <2> QED BY <2>5, <2>6, <2>7, <2>8, <2>9
<1> QED BY <1>1, <1>2

LEMMA QueueStepTopics ==
  ASSUME Types, TopicInv, NEW x \in Exec, Queue(x) PROVE TopicInv'
<1> USE DEF TopicInv, Only, Inserting
<1> DEFINE n == at[x].now
<1>1. /\ n \in Topic /\ Inserting(x) /\ brief[n] # "none" /\ genMsg[n] = 0 /\ posts[n] = 0
  BY DEF Queue, NowIsOurs, Types
<1>2. /\ UNCHANGED <<config, topic, brief, posts, click>>
      /\ \A s \in Topic : s # n => genMsg'[s] = genMsg[s]
      /\ genMsg'[n] <= 1 /\ raced' = raced
  BY <1>1 DEF Queue, Send, Refused, Types, topicVars, genVars, panel
<1>3. /\ Only(x) /\ at'[x].pc \in {"brief", "end"} /\ at'[x].keep = at[x].keep
  BY InsertTopicFrame
<1>4. \A y \in Exec : y # x /\ Inserting(y) => at[y].now # n /\ at[y].now \in Topic
  BY <1>1 DEF Apart, Types
<1> HIDE DEF n
<1>5. UnbornIsUnknown'
  BY <1>1, <1>2 DEF UnbornIsUnknown, NoClickOf
<1>6. KeptIsUnborn'
  BY <1>2, <1>3 DEF KeptIsUnborn
<1>7. Apart'
  BY <1>1, <1>3 DEF Apart
<1>8. NowIsOurs'
  BY <1>2, <1>3, <1>4 DEF NowIsOurs, NoClickOf
<1>9. PostIsLast'
  BY <1>1, <1>2 DEF PostIsLast, Overtaken
<1> QED BY <1>5, <1>6, <1>7, <1>8, <1>9

\* A generation takes its message; it makes a post of a brief that is there.
LEMMA GenerateTopics ==
  ASSUME Types, TopicInv, NEW t \in Topic, Generate(t) PROVE TopicInv'
<1> USE DEF TopicInv, Inserting
<1>1. /\ genMsg[t] > 0 /\ genMsg'[t] = genMsg[t] - 1
      /\ genMsg[t] \in Nat /\ posts[t] \in Nat
      /\ \A s \in Topic : s # t => genMsg'[s] = genMsg[s] /\ posts'[s] = posts[s]
                                   /\ brief'[s] = brief[s]
      /\ UNCHANGED <<config, at, topic, click>> /\ raced \subseteq raced'
  BY DEF Generate, Types, discoveries, panel
<1>2. \/ brief'[t] = brief[t] /\ posts'[t] = posts[t]
      \/ /\ brief'[t] = "done" /\ posts'[t] = posts[t] + 1 /\ brief[t] # "none"
         /\ Overtaken(t) => t \in raced'
      \/ brief'[t] = "failed" /\ posts'[t] = posts[t] /\ brief[t] # "none"
  BY DEF Generate, Types
<1>3. /\ brief[t] # "none"
      /\ \A x \in Exec : Inserting(x) => at[x].now # t /\ at[x].now \in Topic
  BY <1>1 DEF UnbornIsUnknown, NowIsOurs, Types
<1>4. UnbornIsUnknown'
  BY <1>1, <1>2, <1>3 DEF UnbornIsUnknown, NoClickOf
<1>5. KeptIsUnborn' /\ Apart'
  BY <1>1, <1>2, <1>3 DEF KeptIsUnborn, Apart, Types, At
<1>6. NowIsOurs'
  BY <1>1, <1>2, <1>3 DEF NowIsOurs, NoClickOf
<1>7. PostIsLast'
  <2>1. t \notin raced' => genMsg'[t] = 0 /\ posts[t] = 0
    BY <1>1 DEF PostIsLast
  <2>2. Overtaken(t)' <=> Overtaken(t)
    BY <1>1 DEF Overtaken
  <2>3. \A s \in Topic : Overtaken(s)' <=> Overtaken(s)
    BY <1>1 DEF Overtaken
  <2> QED BY <1>1, <1>2, <2>1, <2>2, <2>3 DEF PostIsLast
<1> QED BY <1>4, <1>5, <1>6, <1>7

\* The autopilot goes, and its topics with it.
LEMMA DeleteTopics == ASSUME Types, TopicInv, Delete PROVE TopicInv'
<1> USE DEF TopicInv, Inserting
<1>1. /\ UNCHANGED <<at, brief, genMsg, posts, raced, click>> /\ config'.auto = config.auto
      /\ \A t \in Topic : topic'[t] = "none"
  BY DEF Delete, Types, genVars, discoveries
<1>2. UnbornIsUnknown' /\ KeptIsUnborn' /\ Apart'
  BY <1>1 DEF UnbornIsUnknown, KeptIsUnborn, Apart, NoClickOf
<1>3. NowIsOurs'
  BY <1>1 DEF NowIsOurs, NoClickOf, Types
<1>4. PostIsLast'
  BY <1>1 DEF PostIsLast, Overtaken
<1> QED BY <1>2, <1>3, <1>4

\* A request about t is one the handlers have let go of.
LEMMA ClickOfOther ==
  ASSUME Types, TopicInv, NEW q \in Screen, click[q].pc # "idle"
  PROVE  /\ click[q].of \in Topic /\ brief[click[q].of] # "none"
         /\ \A x \in Exec : Inserting(x) => at[x].now \in Topic /\ at[x].now # click[q].of
  BY DEF Types, TopicInv, UnbornIsUnknown, NowIsOurs, NoClickOf

\* A request of the panel begins.
LEMMA AskTopics ==
  ASSUME Types, TopicInv, NEW q \in Screen, NEW t \in Topic, AskGenerate(q, t) \/ AskDismiss(q, t)
  PROVE  TopicInv'
<1> USE DEF TopicInv, Inserting
<1>1. /\ UNCHANGED <<config, at, topic, brief, genMsg, posts, raced>> /\ topic[t] = "pending"
      /\ click \in [Screen -> Click]
  BY DEF AskGenerate, AskDismiss, MayGenerate, topicVars, genVars, Types, discoveries
<1>2. /\ click'[q].of = t /\ \A p \in Screen : p # q => click'[p] = click[p]
      /\ click'[q].pc \in {"queue", "drop"}
      /\ click'[q].pc = "queue" => brief[t] \in {"pending", "failed"}
  BY <1>1 DEF AskGenerate, AskDismiss, MayGenerate
<1>3. /\ brief[t] # "none"
      /\ \A x \in Exec : Inserting(x) => at[x].now # t
  BY <1>1 DEF UnbornIsUnknown, NowIsOurs
<1>4. UnbornIsUnknown'
  BY <1>1, <1>2, <1>3 DEF UnbornIsUnknown, NoClickOf
<1>5. KeptIsUnborn' /\ Apart'
  BY <1>1 DEF KeptIsUnborn, Apart
<1>6. NowIsOurs'
  BY <1>1, <1>2, <1>3 DEF NowIsOurs, NoClickOf
<1>7. PostIsLast'
  BY <1>1, <1>2 DEF PostIsLast, Overtaken
<1> QED BY <1>4, <1>5, <1>6, <1>7

\* What a request of the panel may change: its topic's row, the brief, and
\* the messages of a topic that has no post or has raced.
LEMMA PanelMoves ==
  ASSUME Types, TopicInv, NEW q \in Screen, NEW t \in Topic, t = click[q].of,
         click[q].pc # "idle",
         UNCHANGED <<config, at, posts>>, raced \subseteq raced',
         \A s \in Topic : s # t => topic'[s] = topic[s] /\ brief'[s] = brief[s]
                                   /\ genMsg'[s] = genMsg[s],
         brief'[t] # "none",
         \/ t \in raced'
         \/ posts[t] = 0 /\ genMsg'[t] <= 1
         \/ genMsg'[t] = genMsg[t] /\ brief'[t] \in {brief[t], "deleted"}
            /\ click'[q].pc \notin {"queue", "send"},
         \A p \in Screen : p # q => click'[p] = click[p],
         click'[q].of \in {None, t}
  PROVE  TopicInv'
<1> USE DEF TopicInv, Inserting
<1>1. t # None
  BY AutopilotAssumption
<1>2. \A x \in Exec : Inserting(x) => at[x].now \in Topic /\ at[x].now # t
  BY ClickOfOther
<1>3. UnbornIsUnknown'
  BY AutopilotAssumption DEF UnbornIsUnknown, NoClickOf
<1>4. KeptIsUnborn' /\ Apart'
  <2>1. brief[t] # "none" /\ \A x \in Exec : at[x].keep \subseteq Topic
    BY ClickOfOther DEF Types, At
  <2> QED BY <2>1 DEF KeptIsUnborn, Apart
<1>5. NowIsOurs'
  BY <1>2, AutopilotAssumption DEF NowIsOurs, NoClickOf
<1>6. PostIsLast'
  <2>1. \A s \in Topic : s # t => (Overtaken(s)' => Overtaken(s))
    BY AutopilotAssumption DEF Overtaken
  <2>2. click'[q].pc \notin {"queue", "send"} => (Overtaken(t)' => Overtaken(t))
    BY DEF Overtaken
  <2>3. posts[t] \in Nat /\ posts'[t] = posts[t]
    BY DEF Types
  <2> QED BY <2>1, <2>2, <2>3 DEF PostIsLast
<1> QED BY <1>3, <1>4, <1>5, <1>6

LEMMA PanelTopics ==
  ASSUME Types, TopicInv, NEW q \in Screen, PanelStep(q) \/ RequestDies(q) PROVE TopicInv'
<1>0. /\ topic \in [Topic -> TopicStatus] /\ brief \in [Topic -> BriefOfTopic]
      /\ genMsg \in [Topic -> Nat] /\ posts \in [Topic -> Nat]
  BY DEF Types
<1>1. PICK t \in Topic : t = click[q].of /\ click[q].pc # "idle" /\ brief[t] # "none"
  BY ClickOfOther DEF PanelStep, QueueBrief, SendBrief, MarkQueued, DropBrief, MarkDismissed,
     RequestDies
<1>2. UNCHANGED <<config, at, posts>>
  BY DEF PanelStep, QueueBrief, SendBrief, MarkQueued, DropBrief, MarkDismissed, RequestDies,
     discoveries, genVars
<1>3. click[q].pc \in {"queue", "send"} => Overtaken(t)
  BY <1>1 DEF Overtaken
<1>4. click[q].pc \in {"queue", "send"} /\ t \notin raced => posts[t] = 0 /\ genMsg[t] <= 1
  BY <1>0, <1>3 DEF TopicInv, PostIsLast
<1>5. CASE QueueBrief(q)
  <2>1. /\ UNCHANGED <<topic, genMsg, raced>> /\ click[q].pc = "queue" /\ brief'[t] # "none"
        /\ \A s \in Topic : s # t => brief'[s] = brief[s]
        /\ Done(q) \/ Step(q, "send")
    BY <1>0, <1>1, <1>5 DEF QueueBrief
  <2>2. /\ \A p \in Screen : p # q => click'[p] = click[p]
        /\ click'[q].of \in {None, t}
    BY <1>1, <2>1, StepFrame, DoneFrame DEF ClickStep
  <2> QED BY <1>1, <1>2, <1>4, <2>1, <2>2, PanelMoves
<1>6. CASE SendBrief(q)
  <2>1. /\ UNCHANGED <<topic, brief>> /\ click[q].pc = "send"
        /\ \A s \in Topic : s # t => genMsg'[s] = genMsg[s]
        /\ raced \subseteq raced' /\ (Step(q, "mark") \/ Done(q))
    BY <1>0, <1>1, <1>6 DEF SendBrief, Send, Refused, topicVars
  <2>2. t \in raced' \/ genMsg'[t] <= 1
    BY <1>0, <1>1, <1>4, <1>6, <2>1 DEF SendBrief, Send, Refused
  <2>3. raced \subseteq raced'
    BY <1>6 DEF SendBrief, Send, Refused
  <2>4. /\ \A p \in Screen : p # q => click'[p] = click[p]
        /\ click'[q].of \in {None, t}
    BY <1>1, <1>6, StepFrame, DoneFrame DEF ClickStep, SendBrief
  <2> QED BY <1>1, <1>2, <1>4, <2>1, <2>2, <2>3, <2>4, PanelMoves
<1>7. CASE MarkQueued(q) \/ MarkDismissed(q) \/ RequestDies(q)
  <2>1. /\ UNCHANGED <<brief, genMsg, raced>> /\ Done(q)
        /\ \A s \in Topic : s # t => topic'[s] = topic[s]
    BY <1>0, <1>1, <1>7 DEF MarkQueued, MarkDismissed, RequestDies, topicVars, genVars
  <2>2. /\ \A p \in Screen : p # q => click'[p] = click[p]
        /\ click'[q].of = None /\ click'[q].pc = "idle"
    BY <2>1, DoneFrame
  <2> QED BY <1>1, <1>2, <2>1, <2>2, PanelMoves
<1>8. CASE DropBrief(q)
  <2>1. /\ UNCHANGED <<topic, genMsg, raced>> /\ Step(q, "dismiss")
        /\ \A s \in Topic : s # t => brief'[s] = brief[s]
        /\ brief'[t] \in {brief[t], "deleted"}
    BY <1>0, <1>1, <1>8 DEF DropBrief, genVars
  <2>2. /\ \A p \in Screen : p # q => click'[p] = click[p]
        /\ click'[q].of = t /\ click'[q].pc = "dismiss"
    BY <1>1, <2>1, StepFrame DEF ClickStep
  <2> QED BY <1>1, <1>2, <2>1, <2>2, PanelMoves
<1> QED BY <1>5, <1>6, <1>7, <1>8 DEF PanelStep

LEMMA InitTopics == Init => TopicInv
<1> SUFFICES ASSUME Init PROVE TopicInv
  OBVIOUS
<1>1. /\ \A x \in Exec : at[x].pc = "idle" /\ at[x].keep = {}
      /\ \A q \in Screen : click[q].of = None
  BY IdleType DEF Init, NoClick
<1>2. \A t \in Topic : /\ topic[t] = "none" /\ brief[t] = "none" /\ t # None
                       /\ genMsg[t] = 0 /\ posts[t] = 0
  BY AutopilotAssumption DEF Init
<1> QED
  BY <1>1, <1>2
  DEF TopicInv, UnbornIsUnknown, KeptIsUnborn, Apart, NowIsOurs, PostIsLast, NoClickOf, Inserting

LEMMA NextTopics == Types /\ TopicInv /\ [Next]_vars => TopicInv'
<1> SUFFICES ASSUME Types, TopicInv, [Next]_vars PROVE TopicInv'
  OBVIOUS
<1>1. CASE UNCHANGED vars
  BY <1>1, LessKept DEF vars
<1> QED
  BY <1>1, QueueTopics, DiscoverTopics, InsertBriefTopics, InsertTopicTopics, QueueStepTopics,
     GenerateTopics, DeleteTopics, AskTopics, PanelTopics
  DEF Next, Handler

-----------------------------------------------------------------------------
(* So many briefs a day                                                    *)

LEMMA FewerUncounted ==
  ASSUME Types, FewUncounted, Uncounted' \subseteq Uncounted, faults' \in Nat, faults' >= faults
  PROVE  FewUncounted'
<1>1. Uncounted \subseteq Topic /\ faults \in Nat
  BY DEF Types, Uncounted
<1> DEFINE S == Uncounted
           T == Uncounted'
<1>2. Cardinality(T) <= Cardinality(S) /\ Cardinality(T) \in Nat /\ Cardinality(S) \in Nat
  BY <1>1, CountSubset
<1> QED BY <1>1, <1>2 DEF FewUncounted

\* The handler in time goes on with what it had, or without.
LoopStays ==
  \/ loop' = None
  \/ loop' = loop /\ at'[loop] = at[loop]
  \/ at'[loop'].pc \notin {"discover", "brief", "topic", "queue"}
  \/ /\ loop' = loop /\ at'[loop].pc = "brief" /\ at[loop].pc = "queue"
     /\ at'[loop].keep = at[loop].keep

LEMMA KeptCap ==
  ASSUME Types, Types', CapIsKept, InTime' \subseteq InTime, LoopStays PROVE CapIsKept'
<1>0. loop \in Exec \cup {None} /\ at \in [Exec -> At] /\ InTime \subseteq Topic
  BY DEF Types, InTime
<1> DEFINE S == InTime
           T == InTime'
<1>1. Cardinality(T) <= Cardinality(S) /\ Cardinality(T) \in Nat /\ Cardinality(S) \in Nat
  BY <1>0, CountSubset
<1>2. Cap \in Nat /\ loop' \in Exec \cup {None}
  BY AutopilotAssumption DEF Types
<1>3. Cardinality(T) <= Cap
  BY <1>1, <1>2 DEF CapIsKept
<1>4. CASE loop' = None \/ at'[loop'].pc \notin {"discover", "brief", "topic", "queue"}
  BY <1>3, <1>4 DEF CapIsKept
<1>5. CASE /\ loop' = loop /\ loop # None
           /\ \/ at'[loop] = at[loop]
              \/ /\ at'[loop].pc = "brief" /\ at[loop].pc = "queue"
                 /\ at'[loop].keep = at[loop].keep
  <2>1. loop \in Exec /\ at[loop] \in At
    BY <1>0, <1>5
  <2>2. at[loop].want \in Nat /\ at[loop].keep \subseteq Topic
    BY <2>1 DEF At
  <2>3. Cardinality(at[loop].keep) \in Nat
    BY <2>2, Counts
  <2> QED BY <1>1, <1>2, <1>3, <1>5, <2>2, <2>3 DEF CapIsKept
<1> QED BY <1>4, <1>5 DEF LoopStays

\* A step after which no more of the cap is used, in time, than before.
LEMMA QuietCap ==
  ASSUME Types, Types', CapInv, config.live,
         (young' \ late') \ counted' \subseteq (young \ late) \ counted,
         InTime' \subseteq InTime,
         Pending \subseteq Pending' \cup late' \cup counted',
         faults' >= faults, LoopStays, LateIsFew', WantIsSmall', LateIsLate'
  PROVE  CapInv'
<1>1. FewUncounted /\ CapIsKept
  BY DEF CapInv
<1>2. Uncounted' \subseteq Uncounted
  BY DEF Uncounted
<1>3. FewUncounted'
  BY <1>1, <1>2, FewerUncounted DEF Types
<1>4. CapIsKept'
  BY <1>1, KeptCap
<1> QED BY <1>3, <1>4 DEF CapInv

\* So is one that leaves the handlers as they are.
LEMMA StillCap ==
  ASSUME Types, Types', CapInv, config.live, UNCHANGED <<at, loop, late, lists>>,
         young' \ counted' \subseteq young \ counted, counted' \subseteq counted,
         faults' >= faults
  PROVE  CapInv'
<1>1. LateIsFew' /\ WantIsSmall' /\ LateIsLate'
  BY DEF CapInv, LateIsFew, WantIsSmall, LateIsLate, Unfinished
<1>2. InTime' \subseteq InTime /\ Pending' = Pending
  BY DEF InTime, Pending
<1> QED BY <1>1, <1>2, QuietCap DEF LoopStays

LEMMA PanelCap ==
  ASSUME Types, Types', CapInv, config.live,
         \/ SetWorkspaceStatus \/ AskDelete
         \/ \E r \in Run : Start(r) \/ Stop(r)
         \/ \E t \in Topic : HoursPass(t) \/ Generate(t)
         \/ \E q \in Screen : \/ PanelStep(q) \/ RequestDies(q)
                              \/ \E t \in Topic : AskGenerate(q, t) \/ AskDismiss(q, t)
  PROVE  CapInv'
<1>0. faults \in Nat
  BY DEF Types
<1>1. /\ UNCHANGED <<at, loop, late, lists>> /\ faults' >= faults
      /\ counted' \subseteq counted /\ young' \ counted' \subseteq young \ counted
  BY <1>0 DEF SetWorkspaceStatus, AskDelete, Start, Stop, HoursPass, Generate, PanelStep,
     QueueBrief, SendBrief, MarkQueued, DropBrief, MarkDismissed, RequestDies, AskGenerate,
     AskDismiss, Fault, topicVars, panel, discoveries, workVars, lateVars
<1> QED BY <1>1, StillCap

\* A list that is inserted late: at most the cap again.
LEMMA BelatedCap ==
  ASSUME Types, LateIsFew, NEW K, K \subseteq Topic, Cardinality(K) <= Cap, Belated(K)
  PROVE  LateIsFew' /\ late \cup K \subseteq late'
<1>1. CASE K = {}
  BY <1>1 DEF Belated, lateVars, LateIsFew
<1>2. CASE K # {}
  <2>1. late' = late \cup K /\ lists' = lists + 1 /\ lists \in Nat /\ Cap \in Nat
    BY <1>2, AutopilotAssumption DEF Belated, Types
  <2>2. /\ Cardinality(late \cup K) <= Cardinality(late) + Cardinality(K)
        /\ Cardinality(late) \in Nat /\ Cardinality(K) \in Nat
        /\ Cardinality(late \cup K) \in Nat
    BY Counts, CountUnion DEF Types
  <2>3. Cap * (lists + 1) = Cap * lists + Cap /\ Cap * lists \in Nat
    BY <2>1
  <2> QED BY <2>1, <2>2, <2>3 DEF LateIsFew
<1> QED BY <1>1, <1>2

\* The queue and the worker: a handler begins, ends, dies, is given up.
LEMMA SettleCap ==
  ASSUME Types, Types', CapInv, config.live, NEW x \in Exec,
         Settle(x) \/ \E r \in Run : Fetch(r, x)
  PROVE  CapInv'
<1>1. Only(x) /\ at'[x].pc \in {"idle", "run"} /\ at'[x].keep = {} /\ at'[x].want = 0
  BY RestFrame
<1>2. /\ UNCHANGED <<young, counted, late, lists, faults>>
      /\ \/ loop' = None \/ loop' = x
         \/ (loop' = loop /\ loop # x)
      /\ at[x].pc # "topic"
  <2>1. ASSUME Settle(x)
        PROVE  loop' = None \/ (loop' = loop /\ loop # x)
    <3>1. CASE x = loop
      BY <2>1, <3>1 DEF Settle
    <3>2. CASE x # loop
      BY <2>1, <3>2 DEF Settle
    <3> QED BY <3>1, <3>2
  <2>2. ASSUME Settle(x)
        PROVE  UNCHANGED <<young, counted, late, lists, faults>> /\ at[x].pc # "topic"
    BY <2>2 DEF Settle, topicVars, lateVars
  <2>3. ASSUME NEW r \in Run, Fetch(r, x)
        PROVE  UNCHANGED <<young, counted, late, lists, faults>> /\ loop' = x /\ at[x] = Idle
    BY <2>3 DEF Fetch, topicVars, lateVars
  <2> QED BY <2>1, <2>2, <2>3, IdleType
<1>3. loop' = x => (loop = None \/ loop = x)
  BY DEF Settle, Fetch
<1>4. Unfinished(x)' = {}
  BY <1>1 DEF Unfinished
<1>5. WantIsSmall' /\ LateIsFew' /\ LateIsLate'
  <2>1. \A y \in Exec : y # x => Unfinished(y)' = Unfinished(y)
    BY <1>1 DEF Only, Unfinished
  <2>2. \A y \in Exec : y # loop' /\ y # x => y # loop
    <3>1. CASE loop = x
      BY <3>1
    <3>2. CASE loop # x
      <4>1. loop' = loop \/ loop = None
        BY <3>2 DEF Settle, Fetch
      <4> QED BY <4>1, AutopilotAssumption
    <3> QED BY <3>1, <3>2
  <2>3. LateIsLate'
    BY <1>2, <1>4, <2>1, <2>2 DEF CapInv, LateIsLate
  <2>4. 0 <= Cap
    BY AutopilotAssumption
  <2> QED BY <1>1, <1>2, <2>3, <2>4 DEF CapInv, LateIsFew, WantIsSmall, Only
<1>6. InTime' = InTime /\ Pending \subseteq Pending' \cup late'
  <2>1. CASE loop = None \/ loop = x
    BY <1>2, <2>1 DEF InTime, Pending
  <2>2. CASE loop # None /\ loop # x
    <3>1. loop' = loop /\ at'[loop] = at[loop]
      BY <1>1, <2>2 DEF Only, Settle, Fetch, Types
    <3> QED BY <1>2, <3>1 DEF InTime, Pending
  <2> QED BY <2>1, <2>2
<1>7. \/ loop' = None \/ loop' = x
      \/ loop' = loop /\ at'[loop] = at[loop]
  <2>1. loop' = loop /\ loop # x /\ loop # None => at'[loop] = at[loop]
    BY <1>1 DEF Only, Types
  <2> QED BY <1>2, <2>1
<1>8. faults \in Nat
  BY DEF Types
<1> QED BY <1>1, <1>2, <1>5, <1>6, <1>7, <1>8, QuietCap DEF LoopStays

LEMMA TimeOutCap ==
  ASSUME Types, Types', CapInv, config.live, TimeOut PROVE CapInv'
<1> DEFINE K == Unfinished(loop)
<1>1. /\ loop \in Exec /\ loop # None /\ at[loop] \in At /\ at[loop].pc \notin {"end", "threw"}
      /\ faults \in Nat /\ Cap \in Nat /\ InTime \subseteq Topic
  BY AutopilotAssumption DEF TimeOut, Types, InTime
<1>2. UNCHANGED <<at, young, counted, faults>> /\ loop' = None /\ Belated(K)
  BY DEF TimeOut, topicVars
<1>3. at[loop].keep \subseteq Topic /\ (at[loop].pc = "topic" => at[loop].now \in Topic)
  BY <1>1 DEF Types, Inserting, At
<1>4. K \subseteq Topic
  BY <1>3 DEF Unfinished
<1>5. /\ Cardinality(InTime) \in Nat /\ Cardinality(at[loop].keep) \in Nat
      /\ IsFiniteSet(at[loop].keep)
  BY <1>1, <1>3, Counts
<1>6. Cardinality(K) <= Cap
  <2>1. CASE at[loop].pc = "topic"
    <3>1. K = at[loop].keep \cup {at[loop].now}
      BY <2>1 DEF Unfinished
    <3>2. Cardinality(K) <= Cardinality(at[loop].keep) + 1 /\ Cardinality(K) \in Nat
      BY <1>5, <3>1, CountPlusOne
    <3>3. Cardinality(InTime) + Cardinality(at[loop].keep) + 1 <= Cap
      BY <1>1, <2>1 DEF CapInv, CapIsKept
    <3> QED BY <1>1, <1>5, <3>2, <3>3
  <2>2. CASE at[loop].pc \in {"brief", "queue"}
    <3>1. K = at[loop].keep
      BY <2>2 DEF Unfinished
    <3>2. Cardinality(InTime) + Cardinality(at[loop].keep) <= Cap
      BY <1>1, <2>2 DEF CapInv, CapIsKept
    <3> QED BY <1>1, <1>5, <3>1, <3>2
  <2>3. CASE at[loop].pc \in {"idle", "run", "limits", "discover"}
    <3>1. K = {}
      BY <1>1, <2>3 DEF Unfinished, Types
    <3> QED BY <1>1, <3>1, FS_EmptySet
  <2> QED BY <1>1, <2>1, <2>2, <2>3 DEF At, AtStep
<1>7. LateIsFew' /\ late \cup K \subseteq late'
  BY <1>2, <1>4, <1>6, BelatedCap DEF CapInv
<1>8. WantIsSmall' /\ LateIsLate'
  <2>1. \A y \in Exec : Unfinished(y)' = Unfinished(y)
    BY <1>2 DEF Unfinished
  <2> QED BY <1>2, <1>7, <2>1 DEF CapInv, WantIsSmall, LateIsLate
<1>9. InTime' \subseteq InTime /\ Pending \subseteq late'
  BY <1>2, <1>7 DEF InTime, Pending, Unfinished
<1> QED BY <1>1, <1>2, <1>7, <1>8, <1>9, QuietCap DEF LoopStays

\* A step of one handler that leaves the history of the late ones.
LEMMA LateStays ==
  ASSUME Types, CapInv, config.live, NEW x \in Exec, Only(x), loop' = loop,
         UNCHANGED <<late, lists>>, at'[x].want <= Cap,
         x = loop \/ Unfinished(x)' \subseteq late
  PROVE  LateIsFew' /\ WantIsSmall' /\ LateIsLate'
<1>1. \A y \in Exec : y # x => Unfinished(y)' = Unfinished(y) /\ at'[y] = at[y]
  BY DEF Only, Unfinished
<1> QED BY <1>1 DEF CapInv, LateIsFew, WantIsSmall, LateIsLate

\* A crash or a failing statement: one brief more that is not counted.
LEMMA BreakCap ==
  ASSUME Types, Types', CapInv, config.live, Crash \/ \E x \in Exec : Catch(x)
  PROVE  CapInv'
<1>1. UNCHANGED <<young, counted, late, lists>> /\ faults' = faults + 1 /\ faults \in Nat
  BY DEF Types, Crash, Catch, Fault, topicVars, lateVars
<1>2. LoopStays /\ LateIsFew' /\ WantIsSmall' /\ LateIsLate'
  <2>1. CASE Crash
    <3>1. loop' = None /\ \A y \in Exec : Unfinished(y)' = {} /\ at'[y].want <= Cap
      BY <2>1, CrashFrame, AutopilotAssumption DEF Unfinished
    <3> QED BY <1>1, <3>1 DEF LoopStays, CapInv, LateIsFew, WantIsSmall, LateIsLate
  <2>2. ASSUME NEW x \in Exec, Catch(x)
        PROVE  LoopStays /\ LateIsFew' /\ WantIsSmall' /\ LateIsLate'
    <3>1. /\ Only(x) /\ at'[x].pc \in {"end", "threw"} /\ at'[x].want = at[x].want
          /\ at'[x].keep = at[x].keep /\ loop' = loop
      <4>1. at[x].pc # "run" /\ loop' = loop
        BY <2>2 DEF Catch, Trying
      <4> QED BY <2>2, <4>1, LeaveFrame
    <3>2. Unfinished(x)' \subseteq Unfinished(x) /\ at'[x].want <= Cap
      BY <3>1 DEF Unfinished, CapInv, WantIsSmall
    <3>3. LoopStays
      <4>1. x # loop /\ loop # None => at'[loop] = at[loop]
        BY <3>1 DEF Only, Types
      <4> QED BY <3>1, <4>1 DEF LoopStays
    <3> QED BY <1>1, <3>1, <3>2, <3>3, LateStays DEF CapInv, LateIsLate
  <2> QED BY <2>1, <2>2
<1>3. CapIsKept'
  <2>1. CapIsKept /\ InTime' = InTime
    BY <1>1 DEF CapInv, InTime
  <2> QED BY <1>2, <2>1, KeptCap
<1>4. FewUncounted'
  <2>1. PICK P : Pending \subseteq {P}
    BY DEF Pending
  <2>2. Uncounted' \subseteq Uncounted \cup {P} /\ Uncounted \subseteq Topic
    BY <1>1, <2>1 DEF Uncounted, Types
  <2>3. IsFiniteSet(Uncounted) /\ Cardinality(Uncounted) <= faults
        /\ Cardinality(Uncounted) \in Nat
    BY <2>2, Counts DEF CapInv, FewUncounted
  <2> DEFINE S == Uncounted
             T == S \cup {P}
             U == Uncounted'
  <2>4. /\ IsFiniteSet(T) /\ Cardinality(T) \in Nat
        /\ Cardinality(T) <= Cardinality(S) + 1
    BY <2>3, CountPlusOne
  <2>5. Cardinality(U) <= Cardinality(T) /\ Cardinality(U) \in Nat
    BY <2>2, <2>4, FS_Subset, FS_CardinalityType
  <2> QED BY <1>1, <2>3, <2>4, <2>5 DEF FewUncounted
<1> QED BY <1>2, <1>3, <1>4 DEF CapInv

\* What the worker loop has when another handler takes a step.
LEMMA BesideLoop ==
  ASSUME Types, NEW x \in Exec, Only(x), loop' = loop, x # loop
  PROVE  LoopStays /\ Pending' = Pending
<1>1. loop # None => at'[loop] = at[loop]
  BY DEF Only, Types
<1> QED BY <1>1 DEF LoopStays, Pending

\* A step without an insert.
LEMMA LeaveCap ==
  ASSUME Types, Types', CapInv, config.live, NEW x \in Exec,
         Load(x) \/ Skip(x) \/ Close(x) \/ Queue(x)
  PROVE  CapInv'
<1>1. /\ UNCHANGED <<young, counted, late, lists, faults, loop>> /\ faults \in Nat
      /\ at[x].pc # "topic"
  BY DEF Load, Skip, Close, Queue, topicVars, lateVars, Types
<1>2. /\ Only(x) /\ at'[x].want = at[x].want /\ at'[x].keep = at[x].keep
      /\ \/ at'[x].pc \in {"limits", "end", "threw"}
         \/ at'[x].pc = "brief" /\ at[x].pc = "queue"
  <2>1. CASE Load(x) \/ Skip(x) \/ Close(x)
    BY <2>1, LeaveFrame
  <2>2. CASE Queue(x)
    BY <2>2, InsertTopicFrame DEF Queue
  <2> QED BY <2>1, <2>2
<1>3. at'[x].want <= Cap /\ (x = loop \/ Unfinished(x)' \subseteq late)
  BY <1>2 DEF CapInv, WantIsSmall, LateIsLate, Unfinished
<1>4. LateIsFew' /\ WantIsSmall' /\ LateIsLate'
  BY <1>1, <1>2, <1>3, LateStays
<1>5. LoopStays /\ Pending \subseteq Pending'
  <2>1. CASE x = loop
    BY <1>1, <1>2, <2>1 DEF LoopStays, Pending
  <2>2. CASE x # loop
    BY <1>1, <1>2, <2>2, BesideLoop
  <2> QED BY <2>1, <2>2
<1>6. InTime' = InTime
  BY <1>1 DEF InTime
<1> QED BY <1>1, <1>4, <1>5, <1>6, QuietCap

\* The cap is read.
LEMMA LimitsCap ==
  ASSUME Types, Types', CapInv, config.live, NEW x \in Exec, Limits(x)
  PROVE  CapInv'
<1>1. UNCHANGED <<young, counted, late, lists, faults, loop>> /\ faults \in Nat
  BY DEF Limits, topicVars, lateVars, Types
<1>2. /\ Only(x) /\ at'[x].keep = at[x].keep /\ at[x].pc = "limits"
      /\ \/ at'[x].pc = "end" /\ at'[x].want = at[x].want
         \/ at'[x].pc = "discover" /\ at'[x].want = Wanted /\ Remaining # 0
  BY LimitsFrame
<1>3. at'[x].want <= Cap /\ (x = loop \/ Unfinished(x)' \subseteq late)
  BY <1>2, WantedIsFew DEF CapInv, WantIsSmall, LateIsLate, Unfinished, Types
<1>4. LateIsFew' /\ WantIsSmall' /\ LateIsLate'
  BY <1>1, <1>2, <1>3, LateStays
<1>5. InTime' = InTime /\ Uncounted' \subseteq Uncounted /\ FewUncounted /\ CapIsKept
  <2>1. Pending \subseteq Pending'
    BY <1>1, <1>2, BesideLoop DEF Pending
  <2> QED BY <1>1, <2>1 DEF InTime, Uncounted, CapInv
<1>6. FewUncounted'
  BY <1>1, <1>5, FewerUncounted
<1>7. CapIsKept'
  <2>1. CASE x # loop \/ at'[x].pc = "end"
    <3>1. LoopStays
      BY <1>1, <1>2, <2>1, BesideLoop DEF LoopStays
    <3> QED BY <1>5, <3>1, KeptCap
  <2>2. CASE x = loop /\ at'[x].pc = "discover"
    <3>1. /\ Cardinality(InTime) <= Cardinality(counted)
          /\ Cardinality(InTime) \in Nat /\ Cardinality(counted) \in Nat
      BY CountSubset DEF Types, InTime
    <3>2. at'[x].want \in Nat /\ Cardinality(counted) + at'[x].want <= Cap /\ Cap \in Nat
      BY <1>2, <2>2, WantedIsFew, AutopilotAssumption DEF Types
    <3>3. Cardinality(InTime) + at'[x].want <= Cap /\ Cardinality(InTime) <= Cap
      BY <3>1, <3>2
    <3> QED BY <1>1, <1>5, <2>2, <3>3 DEF CapIsKept
  <2> QED BY <1>2, <2>1, <2>2
<1> QED BY <1>4, <1>6, <1>7 DEF CapInv

\* The list is taken: of what was read, or beside the discovery to come.
LEMMA DiscoverCap ==
  ASSUME Types, Types', CapInv, config.live, NEW x \in Exec, Discover(x)
  PROVE  CapInv'
<1>1. /\ UNCHANGED <<young, counted, faults, loop>> /\ faults \in Nat /\ at[x].pc = "discover"
      /\ Cap \in Nat
  BY AutopilotAssumption DEF Discover, topicVars, Types
<1>2. CASE /\ Only(x) /\ at'[x].pc = "end" /\ at'[x].keep = at[x].keep
           /\ at'[x].want = at[x].want /\ UNCHANGED lateVars
  <2>1. at'[x].want <= Cap /\ (x = loop \/ Unfinished(x)' \subseteq late)
    BY <1>2 DEF CapInv, WantIsSmall, LateIsLate, Unfinished
  <2>2. LateIsFew' /\ WantIsSmall' /\ LateIsLate'
    BY <1>1, <1>2, <2>1, LateStays DEF lateVars
  <2>3. LoopStays /\ Pending \subseteq Pending'
    BY <1>1, <1>2, BesideLoop DEF LoopStays, Pending
  <2>4. InTime' = InTime /\ late' = late
    BY <1>1, <1>2 DEF InTime, lateVars
  <2> QED BY <1>1, <2>2, <2>3, <2>4, QuietCap
<1>3. CASE /\ Only(x) /\ at'[x].pc = "brief" /\ at'[x].want = 0 /\ x = loop
           /\ Cardinality(at'[x].keep) <= at[x].want /\ UNCHANGED lateVars
  <2>1. LateIsFew' /\ WantIsSmall' /\ LateIsLate'
    BY <1>1, <1>3, LateStays DEF lateVars
  <2>2. InTime' = InTime /\ Uncounted' \subseteq Uncounted /\ FewUncounted /\ CapIsKept
    BY <1>1, <1>3 DEF InTime, Uncounted, Pending, CapInv, lateVars
  <2>3. FewUncounted'
    BY <1>1, <2>2, FewerUncounted
  <2>4. CapIsKept'
    <3>1. /\ Cardinality(InTime) + at[x].want <= Cap /\ Cardinality(InTime) <= Cap
          /\ at[x].want \in Nat
      <4>1. x # None
        BY AutopilotAssumption
      <4> QED BY <1>1, <1>3, <2>2, <4>1 DEF CapIsKept, Types, At
    <3>2. at'[x].keep \subseteq Topic /\ InTime \subseteq Topic
      BY <1>3 DEF Only, At, InTime, Types
    <3> DEFINE k == at'[x].keep
    <3>3. Cardinality(k) \in Nat /\ Cardinality(InTime) \in Nat
      BY <3>2, Counts
    <3>4. Cardinality(InTime) + Cardinality(k) <= Cap
      BY <1>1, <1>3, <3>1, <3>3
    <3> QED BY <1>1, <1>3, <2>2, <3>1, <3>4 DEF CapIsKept
  <2> QED BY <2>1, <2>3, <2>4 DEF CapInv
<1>4. CASE /\ Only(x) /\ at'[x].pc = "brief" /\ at'[x].want = 0 /\ x # loop
           /\ Cardinality(at'[x].keep) <= at[x].want /\ Belated(at'[x].keep)
  <2> DEFINE K == at'[x].keep
  <2>1. K \subseteq Topic /\ at[x].want <= Cap /\ at[x].want \in Nat
    BY <1>4 DEF Only, At, CapInv, WantIsSmall, Types
  <2>2. Cardinality(K) <= Cap
    <3>1. Cardinality(K) \in Nat
      BY <2>1, Counts
    <3> QED BY <1>1, <1>4, <2>1, <3>1
  <2>3. LateIsFew' /\ late \cup K \subseteq late'
    BY <1>4, <2>1, <2>2, BelatedCap DEF CapInv
  <2>4. WantIsSmall'
    BY <1>1, <1>4 DEF Only, CapInv, WantIsSmall
  <2>5. LateIsLate'
    <3>1. Unfinished(x)' = K
      BY <1>4 DEF Unfinished
    <3>2. \A y \in Exec : y # x => Unfinished(y)' = Unfinished(y)
      BY <1>4 DEF Only, Unfinished
    <3> QED BY <1>1, <2>3, <3>1, <3>2 DEF CapInv, LateIsLate
  <2>6. LoopStays /\ Pending' = Pending
    BY <1>1, <1>4, BesideLoop
  <2>7. InTime' \subseteq InTime /\ (young' \ late') \ counted' \subseteq (young \ late) \ counted
    BY <1>1, <2>3 DEF InTime
  <2> QED BY <1>1, <2>3, <2>4, <2>5, <2>6, <2>7, QuietCap
<1> QED BY <1>2, <1>3, <1>4, DiscoverFrame

\* A brief is inserted: of the handler in time, or of one given up for late.
LEMMA InsertBriefCap ==
  ASSUME Types, Types', CapInv, config.live, NEW x \in Exec, NEW t \in Topic,
         InsertBrief(x, t)
  PROVE  CapInv'
<1>1. /\ UNCHANGED <<counted, late, lists, faults, loop>> /\ faults \in Nat
      /\ young' = young \cup {t} /\ at[x].pc = "brief" /\ t \in at[x].keep
  BY DEF InsertBrief, lateVars, Types
<1>2. /\ Only(x) /\ at'[x].pc = "topic" /\ at'[x].now = t
      /\ at'[x].keep = at[x].keep \ {t} /\ at'[x].want = at[x].want
  BY InsertBriefFrame
<1>3. x # loop => Unfinished(x)' \subseteq late /\ t \in late
  BY <1>1, <1>2 DEF CapInv, LateIsLate, Unfinished
<1>4. LateIsFew' /\ WantIsSmall' /\ LateIsLate'
  <2>1. at'[x].want <= Cap
    BY <1>2 DEF CapInv, WantIsSmall
  <2> QED BY <1>1, <1>2, <1>3, <2>1, LateStays
<1>5. InTime' = InTime
  BY <1>1 DEF InTime
<1>6. CASE x # loop
  <2>1. LoopStays /\ Pending' = Pending
    BY <1>1, <1>2, <1>6, BesideLoop
  <2>2. (young' \ late') \ counted' \subseteq (young \ late) \ counted
    BY <1>1, <1>3, <1>6
  <2> QED BY <1>1, <1>4, <1>5, <2>1, <2>2, QuietCap
<1>7. CASE x = loop
  <2>0. loop # None /\ Cap \in Nat
    BY <1>7, AutopilotAssumption
  <2>1. FewUncounted /\ CapIsKept
    BY DEF CapInv
  <2>2. FewUncounted'
    <3>1. Uncounted' \subseteq Uncounted
      BY <1>1, <1>2, <1>7, <2>0 DEF Uncounted, Pending
    <3> QED BY <1>1, <2>1, <3>1, FewerUncounted
  <2>3. CapIsKept'
    <3>1. at[x].keep \subseteq Topic /\ InTime \subseteq Topic
      BY DEF Types, At, InTime
    <3>2. /\ IsFiniteSet(at[x].keep) /\ Cardinality(at[x].keep) \in Nat
          /\ Cardinality(InTime) \in Nat
      BY <3>1, Counts
    <3>3. Cardinality(at[x].keep \ {t}) = Cardinality(at[x].keep) - 1
      BY <1>1, <3>2, FS_RemoveElement
    <3>4. /\ Cardinality(InTime) + Cardinality(at[x].keep) <= Cap
          /\ Cardinality(InTime) <= Cap
      BY <1>1, <1>7, <2>0, <2>1 DEF CapIsKept
    <3>5. Cardinality(InTime) + Cardinality(at'[x].keep) + 1 <= Cap
      BY <1>2, <2>0, <3>2, <3>3, <3>4
    <3> QED BY <1>1, <1>2, <1>5, <1>7, <3>4, <3>5 DEF CapIsKept
  <2> QED BY <1>4, <2>2, <2>3 DEF CapInv
<1> QED BY <1>6, <1>7

\* Then its topic, which the cap counts.
LEMMA InsertTopicCap ==
  ASSUME Types, Types', CapInv, config.live, NEW x \in Exec, InsertTopic(x)
  PROVE  CapInv'
<1> DEFINE t == at[x].now
<1>1. /\ UNCHANGED <<young, late, lists, faults, loop>> /\ faults \in Nat
      /\ counted' = counted \cup {t} /\ at[x].pc = "topic"
  BY DEF InsertTopic, lateVars, Types
<1>2. /\ Only(x) /\ at'[x].pc \in {"queue", "brief"}
      /\ at'[x].keep = at[x].keep /\ at'[x].want = at[x].want
  <2>1. ~ Queue(x)
    BY <1>1 DEF Queue
  <2> QED BY <2>1, InsertTopicFrame
<1>3. x # loop => Unfinished(x)' \subseteq late /\ t \in late
  BY <1>1, <1>2 DEF CapInv, LateIsLate, Unfinished
<1>4. LateIsFew' /\ WantIsSmall' /\ LateIsLate'
  <2>1. at'[x].want <= Cap
    BY <1>2 DEF CapInv, WantIsSmall
  <2> QED BY <1>1, <1>2, <1>3, <2>1, LateStays
<1>5. CASE x # loop
  <2>1. LoopStays /\ Pending' = Pending
    BY <1>1, <1>2, <1>5, BesideLoop
  <2>2. /\ InTime' \subseteq InTime
        /\ (young' \ late') \ counted' \subseteq (young \ late) \ counted
    BY <1>1, <1>3, <1>5 DEF InTime
  <2> QED BY <1>1, <1>4, <2>1, <2>2, QuietCap
<1>6. CASE x = loop
  <2>0. loop # None /\ Cap \in Nat
    BY <1>6, AutopilotAssumption
  <2>1. FewUncounted /\ CapIsKept
    BY DEF CapInv
  <2>2. FewUncounted'
    <3>1. Uncounted' \subseteq Uncounted
      BY <1>1, <1>2, <1>6, <2>0 DEF Uncounted, Pending
    <3> QED BY <1>1, <2>1, <3>1, FewerUncounted
  <2>3. CapIsKept'
    <3>1. at[x].keep \subseteq Topic /\ InTime \subseteq Topic /\ InTime' \subseteq Topic
      BY DEF Types, At, InTime
    <3> DEFINE S == InTime
               T == S \cup {t}
               U == InTime'
    <3>2. /\ IsFiniteSet(S) /\ Cardinality(S) \in Nat /\ Cardinality(at[x].keep) \in Nat
          /\ Cardinality(U) \in Nat
      BY <3>1, Counts
    <3>3. IsFiniteSet(T) /\ Cardinality(T) \in Nat /\ Cardinality(T) <= Cardinality(S) + 1
      BY <3>2, CountPlusOne
    <3>4. U \subseteq T
      BY <1>1 DEF InTime
    <3>5. Cardinality(U) <= Cardinality(T)
      BY <3>3, <3>4, FS_Subset
    <3>6. Cardinality(S) + Cardinality(at[x].keep) + 1 <= Cap
      BY <1>1, <1>6, <2>0, <2>1 DEF CapIsKept
    <3>7. /\ Cardinality(U) + Cardinality(at'[x].keep) <= Cap
          /\ Cardinality(U) <= Cap
      BY <1>2, <2>0, <3>2, <3>3, <3>5, <3>6
    <3> QED BY <1>1, <1>2, <1>6, <3>7 DEF CapIsKept
  <2> QED BY <1>4, <2>2, <2>3 DEF CapInv
<1> QED BY <1>5, <1>6

LEMMA NextCap == Types /\ Types' /\ CapInv /\ [Next]_vars => CapInv'
<1> SUFFICES ASSUME Types, Types', CapInv, [Next]_vars, config'.live PROVE CapInv'
  BY DEF CapInv
<1>1. CASE UNCHANGED vars
  <2>1. config.live /\ faults \in Nat
    BY <1>1 DEF vars, Types
  <2> QED BY <1>1, <2>1, StillCap DEF vars
<1>2. CASE Next
  <2>1. ~ Delete
    BY DEF Delete, Types
  <2>2. config' = config
    BY <1>2, <2>1
    DEF Next, TimeOut, Crash, SetWorkspaceStatus, AskDelete, Settle, Handler, Catch, Fetch,
        Start, Stop, HoursPass, Generate, PanelStep, RequestDies, AskGenerate, AskDismiss,
        Load, Skip, Limits, Discover, InsertBrief, InsertTopic, Queue, Close,
        QueueBrief, SendBrief, MarkQueued, DropBrief, MarkDismissed
  <2>3. config.live
    BY <2>2
  <2>4. ASSUME NEW x \in Exec, Handler(x) PROVE CapInv'
    BY <2>3, <2>4, LeaveCap, LimitsCap, DiscoverCap, InsertBriefCap, InsertTopicCap DEF Handler
  <2> QED
    BY <1>2, <2>1, <2>3, <2>4, TimeOutCap, BreakCap, SettleCap, PanelCap DEF Next
<1> QED BY <1>1, <1>2

LEMMA InitCap == Init => CapInv
<1> SUFFICES ASSUME Init
             PROVE  FewUncounted /\ CapIsKept /\ LateIsFew /\ WantIsSmall /\ LateIsLate
  BY DEF CapInv
<1>1. /\ counted = {} /\ young = {} /\ late = {} /\ lists = 0 /\ faults = 0 /\ loop = None
      /\ Cap \in Nat /\ Cap * lists = 0
      /\ \A x \in Exec : at[x].pc = "idle" /\ at[x].keep = {} /\ at[x].want = 0
  BY AutopilotAssumption, IdleType DEF Init
<1>2. Cardinality({}) = 0 /\ Uncounted = {} /\ InTime = {}
  BY <1>1, FS_EmptySet DEF Uncounted, InTime
<1>3. FewUncounted /\ CapIsKept /\ LateIsFew
  BY <1>1, <1>2 DEF FewUncounted, CapIsKept, LateIsFew
<1> QED BY <1>1, <1>3 DEF WantIsSmall, LateIsLate, Unfinished

LEMMA AlwaysInv == Spec => []IInv
<1>1. Init => IInv
  BY InitTypes, InitTopics, InitCap DEF IInv
<1>2. IInv /\ [Next]_vars => IInv'
  BY NextTypes, NextTopics, NextCap DEF IInv
<1> QED BY <1>1, <1>2, PTL DEF Spec

\* Discoveries and panel make no more of an autopilot than the user allowed.
\* The handler reads the cap once and inserts minutes later
\* (autopilot-discover.ts), briefs before the topics that are counted; a
\* brief without its topic costs a crash or a failing statement.  A handler
\* the loop has given up for late inserts beside the next one, at most the
\* cap again.  Requests that overlap, die half way or dismiss what they
\* generate make no second post of a topic, unless the queue takes a second
\* message of it or a post falls between a check and its message.
THEOREM AsManyAsAllowedHolds == Spec => []AsManyAsAllowed
<1>1. IInv => AsManyAsAllowed
  <2> SUFFICES ASSUME IInv PROVE CapHolds /\ OnePostPerTopic
    BY DEF AsManyAsAllowed
  <2>1. OnePostPerTopic
    BY DEF IInv, TopicInv, PostIsLast, OnePostPerTopic
  <2>2. ASSUME config.live
        PROVE  Cardinality(young \ late) <= Cap + faults /\ Cardinality(late) <= Cap * lists
    <3>0. /\ young \subseteq Topic /\ faults \in Nat /\ Cap \in Nat
          /\ InTime \subseteq Topic /\ Uncounted \subseteq Topic
          /\ loop \in Exec \cup {None} /\ at \in [Exec -> At]
          /\ loop # None /\ at[loop].pc = "topic" => at[loop].now \in Topic
      BY AutopilotAssumption DEF IInv, Types, InTime, Uncounted, Inserting
    <3>1. /\ FewUncounted /\ CapIsKept /\ Cardinality(late) <= Cap * lists
      BY <2>2 DEF IInv, CapInv, LateIsFew
    <3> DEFINE C == InTime \cup Pending
               F == Uncounted
               Y == young \ late
    <3>2. IsFiniteSet(InTime) /\ Cardinality(InTime) \in Nat
      BY <3>0, Counts
    <3>3. C \subseteq Topic
      BY <3>0 DEF Pending
    <3>4. Cardinality(C) <= Cap
      <4>1. CASE loop # None /\ at[loop].pc = "topic"
        <5>1. C = InTime \cup {at[loop].now}
          BY <4>1 DEF Pending
        <5>2. Cardinality(C) \in Nat /\ Cardinality(C) <= Cardinality(InTime) + 1
          BY <3>2, <5>1, CountPlusOne
        <5>3. at[loop].keep \subseteq Topic
          BY <3>0, <4>1 DEF At
        <5>4. Cardinality(at[loop].keep) \in Nat
          BY <5>3, Counts
        <5>5. Cardinality(InTime) + Cardinality(at[loop].keep) + 1 <= Cap
          BY <3>1, <4>1 DEF CapIsKept
        <5> QED BY <3>0, <3>2, <5>2, <5>4, <5>5
      <4>2. CASE ~ (loop # None /\ at[loop].pc = "topic")
        <5>1. C = InTime
          BY <4>2 DEF Pending
        <5> QED BY <3>1, <5>1 DEF CapIsKept
      <4> QED BY <4>1, <4>2
    <3>5. Cardinality(F) <= faults
      BY <3>1 DEF FewUncounted
    <3>6. Y \subseteq F \cup C /\ F \cup C \subseteq Topic
      BY <3>0, <3>3 DEF Uncounted, InTime
    <3>7. /\ Cardinality(F) \in Nat /\ Cardinality(C) \in Nat
          /\ Cardinality(F \cup C) <= Cardinality(F) + Cardinality(C)
          /\ Cardinality(F \cup C) \in Nat
      BY <3>0, <3>3, <3>6, Counts, CountUnion
    <3>8. Cardinality(Y) <= Cardinality(F \cup C) /\ Cardinality(Y) \in Nat
      BY <3>6, CountSubset
    <3> QED BY <3>0, <3>1, <3>4, <3>5, <3>7, <3>8
  <2> QED BY <2>1, <2>2 DEF CapHolds
<1> QED BY <1>1, AlwaysInv, PTL

-----------------------------------------------------------------------------
(* The scheduler.                                                          *)

SchedulerAssumption == NoEntry \notin Dates!Entry

Date == {"none", "future", "due", "missed"}
Stage == [pc : {"rest", "jobs", "autopilots"}, todo : SUBSET Dates!Entry,
          at : Dates!Entry \cup {NoEntry}, step : {"none", "insert", "send", "cancel"}]
Request == [of : Dates!Entry \cup {NoEntry}, kind : {"none", "update", "pause", "resume"},
            on : BOOLEAN, next : Date]

SchedulerTypes ==
  /\ enabled \in [Dates!Entry -> BOOLEAN] /\ next \in [Dates!Entry -> Date]
  /\ tick \in Stage /\ form \in [Form -> Request]
  /\ open \in [Dates!Entry -> Nat] /\ sent \in [Dates!Entry -> Nat] /\ lost \in [Dates!Entry -> Nat]
  /\ tick.step # "none" => tick.at # NoEntry

SchedulerInv == SchedulerTypes /\ NothingIsLeftOver

\* What the tick does to its own place alone settles no run and opens none.
LEMMA PlaceMoves ==
  ASSUME SchedulerAssumption, SchedulerInv, tick' \in Stage,
         tick'.step # "none" => tick'.at # NoEntry,
         \A e \in Dates!Entry : Unsettled(e) <=> Unsettled(e)',
         UNCHANGED <<open, sent, lost>>
  PROVE  OpenRunsAreCarried'
<1> SUFFICES ASSUME NEW e \in Dates!Entry
             PROVE  open[e] = sent[e] + lost[e] + IF Unsettled(e)' THEN 1 ELSE 0
  BY DEF OpenRunsAreCarried, SchedulerInv, SchedulerTypes
<1> QED BY DEF SchedulerInv, SchedulerTypes, NothingIsLeftOver, OpenRunsAreCarried

\* Who moves neither a date nor the panel leaves their half of the invariant.
LEMMA DatesKept ==
  ASSUME SchedulerInv, UNCHANGED <<enabled, next, form, crossed>>
  PROVE  /\ NoCatchUp' /\ enabled' \in [Dates!Entry -> BOOLEAN]
         /\ next' \in [Dates!Entry -> Date] /\ form' \in [Form -> Request]
  BY DEF SchedulerInv, SchedulerTypes, NothingIsLeftOver, NoCatchUp

LEMMA InitScheduler == SchedulerAssumption /\ Dates!Init => SchedulerInv
<1> SUFFICES ASSUME SchedulerAssumption, Dates!Init PROVE SchedulerInv
  OBVIOUS
<1>1. SchedulerTypes
  BY DEF Dates!Init, Dates!Resting, Dates!NoForm, SchedulerTypes, Stage, Request, Date
<1>2. NothingIsLeftOver
  BY DEF Dates!Init, Dates!Resting, NothingIsLeftOver, NoCatchUp, OpenRunsAreCarried, Unsettled
<1> QED BY <1>1, <1>2 DEF SchedulerInv

\* A date passes, or the tick moves it: no paused entry starts.
LEMMA DateMoves ==
  ASSUME SchedulerAssumption, SchedulerInv, NEW e \in Dates!Entry,
         Dates!DatePasses(e) \/ Dates!MoveDate(e)
  PROVE  SchedulerInv'
<1> USE DEF SchedulerInv, SchedulerTypes
<1>1. CASE Dates!DatePasses(e)
  <2>1. /\ next' = [next EXCEPT ![e] = IF enabled[e] THEN "due" ELSE "missed"]
        /\ UNCHANGED <<enabled, tick, open, sent, lost, form, crossed>>
    BY <1>1 DEF Dates!DatePasses
  <2>2. next' \in [Dates!Entry -> Date] /\ NoCatchUp'
    BY <2>1 DEF Date, NothingIsLeftOver, NoCatchUp
  <2>3. OpenRunsAreCarried'
    BY <2>1 DEF NothingIsLeftOver, OpenRunsAreCarried, Unsettled
  <2> QED BY <2>1, <2>2, <2>3 DEF NothingIsLeftOver
<1>2. CASE Dates!MoveDate(e)
  <2>1. /\ tick.at = NoEntry /\ e # NoEntry
        /\ next' = [next EXCEPT ![e] = "future"] /\ crossed' = crossed \ {e}
        /\ tick' = [tick EXCEPT !.todo = @ \ {e}, !.at = e, !.step = "insert"]
        /\ UNCHANGED <<enabled, open, sent, lost, form>>
    BY <1>2 DEF Dates!MoveDate, SchedulerAssumption
  <2>2. next' \in [Dates!Entry -> Date] /\ NoCatchUp'
    BY <2>1 DEF Date, NothingIsLeftOver, NoCatchUp
  <2>3. tick' \in Stage /\ tick'.at = e /\ tick'.step = "insert"
    BY <2>1 DEF Stage
  <2>4. \A d \in Dates!Entry : ~ Unsettled(d) /\ ~ Unsettled(d)'
    BY <2>1, <2>3 DEF Unsettled, SchedulerAssumption
  <2>5. OpenRunsAreCarried'
    BY <2>1, <2>3, <2>4, PlaceMoves
  <2> QED BY <2>1, <2>2, <2>3, <2>5 DEF NothingIsLeftOver
<1> QED BY <1>1, <1>2

\* The tick reads a table, or comes to its end, between two entries.
LEMMA SelectKeeps ==
  ASSUME SchedulerAssumption, SchedulerInv,
         Dates!SelectJobs \/ Dates!SelectAutopilots \/ Dates!Rest
  PROVE  SchedulerInv'
<1>1. /\ tick.at = NoEntry /\ UNCHANGED <<enabled, next, open, sent, lost, form, crossed>>
      /\ \/ tick' = Dates!Resting
         \/ \E D \in SUBSET Dates!Entry, to \in {"jobs", "autopilots"} :
              tick' = [Dates!Resting EXCEPT !.pc = to, !.todo = D]
  <2>1. CASE Dates!SelectJobs
    BY <2>1 DEF Dates!SelectJobs, Dates!Select, Dates!Due, Dates!Entry
  <2>2. CASE Dates!SelectAutopilots
    BY <2>2 DEF Dates!SelectAutopilots, Dates!Select, Dates!Due, Dates!Entry
  <2>3. CASE Dates!Rest
    BY <2>3 DEF Dates!Rest
  <2> QED BY <2>1, <2>2, <2>3
<1>2. tick' \in Stage /\ tick'.at = NoEntry /\ tick'.step = "none"
  <2>1. CASE tick' = Dates!Resting
    BY <2>1 DEF Stage, Dates!Resting
  <2>2. ASSUME NEW D \in SUBSET Dates!Entry, NEW to \in {"jobs", "autopilots"},
               tick' = [Dates!Resting EXCEPT !.pc = to, !.todo = D]
        PROVE  tick' \in Stage /\ tick'.at = NoEntry /\ tick'.step = "none"
    <3>1. tick' = [pc |-> to, todo |-> D, at |-> NoEntry, step |-> "none"]
      BY <2>2 DEF Dates!Resting
    <3> QED BY <3>1 DEF Stage
  <2> QED BY <1>1, <2>1, <2>2
<1>3. \A e \in Dates!Entry : ~ Unsettled(e) /\ ~ Unsettled(e)'
  BY <1>1, <1>2 DEF Unsettled, SchedulerAssumption
<1>4. OpenRunsAreCarried'
  BY <1>1, <1>2, <1>3, PlaceMoves
<1> QED BY <1>1, <1>2, <1>4, DatesKept DEF SchedulerInv, SchedulerTypes, NothingIsLeftOver

\* What the tick and the worker do to a run and to its message.
LEMMA RunMoves ==
  ASSUME SchedulerAssumption, SchedulerInv,
         \/ Dates!InsertRun \/ Dates!SendRun \/ Dates!CancelRefused \/ Dates!TickFails
         \/ \E e \in Dates!Entry : Dates!RunEnds(e)
  PROVE  SchedulerInv'
<1>0. /\ enabled \in [Dates!Entry -> BOOLEAN] /\ next \in [Dates!Entry -> Date]
      /\ tick \in Stage
      /\ open \in [Dates!Entry -> Nat] /\ sent \in [Dates!Entry -> Nat] /\ lost \in [Dates!Entry -> Nat]
      /\ tick.step # "none" => tick.at \in Dates!Entry
      /\ \A e \in Dates!Entry :
           open[e] = sent[e] + lost[e] + IF Unsettled(e) THEN 1 ELSE 0
  BY DEF SchedulerInv, SchedulerTypes, Stage, NothingIsLeftOver, OpenRunsAreCarried
<1>1. UNCHANGED <<enabled, next, form, crossed>>
  BY DEF Dates!InsertRun, Dates!SendRun, Dates!CancelRefused, Dates!TickFails, Dates!RunEnds
<1>2. SUFFICES /\ tick' \in Stage /\ (tick'.step # "none" => tick'.at # NoEntry)
               /\ open' \in [Dates!Entry -> Nat] /\ sent' \in [Dates!Entry -> Nat]
               /\ lost' \in [Dates!Entry -> Nat]
               /\ \A e \in Dates!Entry :
                    open'[e] = sent'[e] + lost'[e] + IF Unsettled(e)' THEN 1 ELSE 0
  <2>1. OpenRunsAreCarried'
    BY <1>2 DEF OpenRunsAreCarried
  <2> QED BY <1>1, <1>2, <2>1, DatesKept DEF SchedulerInv, SchedulerTypes, NothingIsLeftOver
<1>3. CASE Dates!InsertRun
  <2>1. /\ tick.step = "insert" /\ tick.at \in Dates!Entry /\ tick.at # NoEntry
        /\ open' = [open EXCEPT ![tick.at] = @ + 1]
        /\ tick' = [tick EXCEPT !.step = "send"]
        /\ UNCHANGED <<sent, lost>>
    BY <1>0, <1>3 DEF Dates!InsertRun, SchedulerAssumption
  <2>2. tick' \in Stage /\ tick'.at = tick.at /\ tick'.step = "send"
    BY <1>0, <2>1 DEF Stage
  <2>3. open' \in [Dates!Entry -> Nat]
    BY <1>0, <2>1
  <2>4. ASSUME NEW e \in Dates!Entry
        PROVE  open'[e] = sent'[e] + lost'[e] + IF Unsettled(e)' THEN 1 ELSE 0
    BY <1>0, <2>1, <2>2 DEF Unsettled
  <2> QED BY <1>0, <2>1, <2>2, <2>3, <2>4
<1>4. CASE Dates!SendRun
  <2>1. CASE sent' = [sent EXCEPT ![tick.at] = @ + 1] /\ Dates!Leave
    <3>1. /\ tick.step = "send" /\ tick.at \in Dates!Entry
          /\ tick' = [tick EXCEPT !.at = NoEntry, !.step = "none"]
          /\ UNCHANGED <<open, lost>>
      BY <1>0, <1>4, <2>1 DEF Dates!SendRun, Dates!Leave
    <3>2. tick' \in Stage /\ tick'.step = "none"
      BY <1>0, <3>1 DEF Stage
    <3>3. sent' \in [Dates!Entry -> Nat]
      BY <1>0, <2>1, <3>1
    <3>4. ASSUME NEW e \in Dates!Entry
          PROVE  open'[e] = sent'[e] + lost'[e] + IF Unsettled(e)' THEN 1 ELSE 0
      BY <1>0, <2>1, <3>1, <3>2 DEF Unsettled
    <3> QED BY <1>0, <3>1, <3>2, <3>3, <3>4
  <2>2. CASE tick' = [tick EXCEPT !.step = "cancel"] /\ UNCHANGED sent
    <3>1. tick.step = "send" /\ tick.at \in Dates!Entry /\ UNCHANGED <<open, lost>>
      BY <1>0, <1>4 DEF Dates!SendRun
    <3>2. /\ tick' \in Stage /\ tick'.at = tick.at /\ tick'.step = "cancel"
          /\ tick.at # NoEntry
      BY <1>0, <2>2, <3>1 DEF Stage, SchedulerAssumption
    <3> QED BY <1>0, <2>2, <3>1, <3>2 DEF Unsettled
  <2> QED BY <1>4, <2>1, <2>2 DEF Dates!SendRun
<1>5. CASE Dates!CancelRefused
  <2>1. /\ tick.step = "cancel" /\ tick.at \in Dates!Entry
        /\ open' = [open EXCEPT ![tick.at] = @ - 1]
        /\ tick' = [tick EXCEPT !.at = NoEntry, !.step = "none"]
        /\ UNCHANGED <<sent, lost>>
    BY <1>0, <1>5 DEF Dates!CancelRefused, Dates!Leave
  <2>2. tick' \in Stage /\ tick'.step = "none"
    BY <1>0, <2>1 DEF Stage
  <2>3. open[tick.at] > 0
    BY <1>0, <2>1 DEF Unsettled
  <2>4. open' \in [Dates!Entry -> Nat]
    BY <1>0, <2>1, <2>3
  <2>5. ASSUME NEW e \in Dates!Entry
        PROVE  open'[e] = sent'[e] + lost'[e] + IF Unsettled(e)' THEN 1 ELSE 0
    BY <1>0, <2>1, <2>2 DEF Unsettled
  <2> QED BY <1>0, <2>1, <2>2, <2>4, <2>5
<1>6. CASE Dates!TickFails
  <2>1. /\ lost' = [e \in Dates!Entry |-> lost[e] + IF Unsettled(e) THEN 1 ELSE 0]
        /\ tick' = Dates!Resting /\ UNCHANGED <<open, sent>>
    BY <1>6 DEF Dates!TickFails, Dates!Unsettled, Unsettled
  <2>2. tick' \in Stage /\ tick'.step = "none"
    BY <2>1 DEF Stage, Dates!Resting
  <2>3. lost' \in [Dates!Entry -> Nat]
    BY <1>0, <2>1
  <2>4. ASSUME NEW e \in Dates!Entry
        PROVE  open'[e] = sent'[e] + lost'[e] + IF Unsettled(e)' THEN 1 ELSE 0
    <3>1. ~ Unsettled(e)'
      BY <2>2 DEF Unsettled
    <3>2. lost'[e] = lost[e] + IF Unsettled(e) THEN 1 ELSE 0
      BY <2>1
    <3> QED BY <1>0, <2>1, <3>1, <3>2
  <2> QED BY <1>0, <2>1, <2>2, <2>3, <2>4
<1>7. ASSUME NEW e \in Dates!Entry, Dates!RunEnds(e)
      PROVE  /\ UNCHANGED <<tick, lost>>
             /\ open' \in [Dates!Entry -> Nat] /\ sent' \in [Dates!Entry -> Nat]
             /\ \A d \in Dates!Entry :
                  open'[d] = sent'[d] + lost'[d] + IF Unsettled(d)' THEN 1 ELSE 0
  <2>1. /\ sent[e] > 0 /\ open[e] > 0
        /\ sent' = [sent EXCEPT ![e] = @ - 1] /\ open' = [open EXCEPT ![e] = @ - 1]
        /\ UNCHANGED <<tick, lost>>
    BY <1>0, <1>7 DEF Dates!RunEnds
  <2>2. open' \in [Dates!Entry -> Nat] /\ sent' \in [Dates!Entry -> Nat]
    BY <1>0, <2>1
  <2> QED BY <1>0, <2>1, <2>2 DEF Unsettled
<1> QED
  BY <1>0, <1>3, <1>4, <1>5, <1>6, <1>7 DEF SchedulerInv, SchedulerTypes

\* A request of the panel reads an entry, and changes it later.
LEMMA PanelKeeps ==
  ASSUME SchedulerAssumption, SchedulerInv,
         \/ \E e \in Dates!Entry : Dates!Create(e)
         \/ \E q \in Form : \/ Dates!Change(q) \/ Dates!CopyPasses(q)
                            \/ \E e \in Dates!Entry : Dates!AskChange(q, e)
  PROVE  SchedulerInv'
<1> USE DEF SchedulerInv, SchedulerTypes
<1>1. UNCHANGED <<tick, open, sent, lost>>
  BY DEF Dates!Change, Dates!CopyPasses, Dates!Create, Dates!AskChange
<1>2. OpenRunsAreCarried'
  BY <1>1 DEF NothingIsLeftOver, OpenRunsAreCarried, Unsettled
<1>3. ASSUME NEW e \in Dates!Entry, Dates!Create(e)
      PROVE  /\ enabled' \in [Dates!Entry -> BOOLEAN] /\ next' \in [Dates!Entry -> Date]
             /\ form' \in [Form -> Request] /\ NoCatchUp'
  BY <1>3 DEF Dates!Create, NothingIsLeftOver, NoCatchUp, Date
<1>4. ASSUME NEW q \in Form, Dates!CopyPasses(q) \/ \E e \in Dates!Entry : Dates!AskChange(q, e)
      PROVE  /\ enabled' \in [Dates!Entry -> BOOLEAN] /\ next' \in [Dates!Entry -> Date]
             /\ form' \in [Form -> Request] /\ NoCatchUp'
  <2>1. UNCHANGED <<enabled, next, crossed>>
    BY <1>4 DEF Dates!CopyPasses, Dates!AskChange
  <2>2. CASE Dates!CopyPasses(q)
    <3>1. PICK f : f = [form[q] EXCEPT !.next = IF enabled[form[q].of] THEN "due" ELSE "missed"]
      OBVIOUS
    <3>2. f \in Request /\ form' = [form EXCEPT ![q] = f]
      BY <2>2, <3>1 DEF Dates!CopyPasses, Request, Date
    <3> QED BY <2>1, <3>2 DEF NothingIsLeftOver, NoCatchUp
  <2>3. ASSUME NEW e \in Dates!Entry, Dates!AskChange(q, e) PROVE form' \in [Form -> Request]
    <3>1. PICK k \in {"update", "pause", "resume"} :
            form' = [form EXCEPT ![q] = [of |-> e, kind |-> k, on |-> enabled[e],
                                         next |-> next[e]]]
      BY <2>3 DEF Dates!AskChange
    <3>2. [of |-> e, kind |-> k, on |-> enabled[e], next |-> next[e]] \in Request
      BY DEF Request
    <3> QED BY <3>1, <3>2
  <2> QED BY <1>4, <2>1, <2>2, <2>3 DEF NothingIsLeftOver, NoCatchUp
<1>5. ASSUME NEW q \in Form, Dates!Change(q)
      PROVE  /\ enabled' \in [Dates!Entry -> BOOLEAN] /\ next' \in [Dates!Entry -> Date]
             /\ form' \in [Form -> Request] /\ NoCatchUp'
  <2> DEFINE f == form[q]
             e == f.of
  <2>1. /\ e \in Dates!Entry /\ f \in Request
        /\ enabled' = [enabled EXCEPT ![e] =
                         IF f.kind = "update" THEN @ ELSE f.kind = "resume"]
        /\ next' = [next EXCEPT ![e] = Dates!Written(f)]
        /\ form' = [form EXCEPT ![q] = Dates!NoForm]
        /\ crossed' = IF Dates!Crosses(f) THEN crossed \cup {e} ELSE crossed \ {e}
    BY <1>5 DEF Dates!Change, Request
  <2>2. form' \in [Form -> Request]
    <3>1. Dates!NoForm \in Request
      BY DEF Dates!NoForm, Request, Date
    <3> QED BY <2>1, <3>1
  <2>3. Dates!Written(f) \in Date /\ enabled[e] \in BOOLEAN
    BY <2>1 DEF Dates!Written, Request, Date
  <2>4. enabled' \in [Dates!Entry -> BOOLEAN] /\ next' \in [Dates!Entry -> Date]
    BY <2>1, <2>3
  <2>5. ASSUME NEW d \in Dates!Entry, enabled'[d], next'[d] = "missed" PROVE d \in crossed'
    <3>1. CASE d # e
      BY <2>1, <2>5, <3>1 DEF NothingIsLeftOver, NoCatchUp
    <3>2. CASE d = e
      <4>1. /\ IF f.kind = "update" THEN enabled[e] ELSE f.kind = "resume"
            /\ Dates!Written(f) = "missed"
        BY <2>1, <2>5, <3>2
      <4>2. f.kind = "update" /\ enabled[e] /\ ~ f.on /\ f.next = "missed"
        BY <4>1 DEF Dates!Written, Dates!Computed
      <4>3. Dates!Crosses(f)
        BY <4>2 DEF Dates!Crosses
      <4> QED BY <2>1, <3>2, <4>3
    <3> QED BY <3>1, <3>2
  <2> QED BY <2>2, <2>4, <2>5 DEF NoCatchUp
<1> QED BY <1>1, <1>2, <1>3, <1>4, <1>5 DEF NothingIsLeftOver

LEMMA NextKeepsScheduler ==
  SchedulerAssumption /\ SchedulerInv /\ [Dates!Next]_(Dates!vars) => SchedulerInv'
<1> SUFFICES ASSUME SchedulerAssumption, SchedulerInv, [Dates!Next]_(Dates!vars)
             PROVE  SchedulerInv'
  OBVIOUS
<1>1. CASE UNCHANGED Dates!vars
  BY <1>1 DEF Dates!vars, SchedulerInv, SchedulerTypes, NothingIsLeftOver,
              NoCatchUp, OpenRunsAreCarried, Unsettled
<1>2. CASE Dates!Next
  BY <1>2, DateMoves, SelectKeeps, RunMoves, PanelKeeps DEF Dates!Next, Dates!Tick
<1> QED BY <1>1, <1>2

\* Whatever the ticks break off at, however many requests of the panel are
\* between their select and their update and however stale what they write
\* back: the date of a pause is not made up for (jobs.ts 168) but where an
\* update that had read the entry paused wrote after its resumption, and every
\* open run has a message that will close it, but for one of each tick that
\* broke off between the insert and the send (scheduler-tick.ts 25 to 40).
THEOREM NothingIsLeftOverHolds == SchedulerAssumption => (Dates!Spec => []NothingIsLeftOver)
<1> SUFFICES ASSUME SchedulerAssumption PROVE Dates!Spec => []NothingIsLeftOver
  OBVIOUS
<1>1. Dates!Init => SchedulerInv
  BY InitScheduler
<1>2. SchedulerInv /\ [Dates!Next]_(Dates!vars) => SchedulerInv'
  BY NextKeepsScheduler
<1>3. SchedulerInv => NothingIsLeftOver
  BY DEF SchedulerInv
<1> QED BY <1>1, <1>2, <1>3, PTL DEF Dates!Spec
=============================================================================
