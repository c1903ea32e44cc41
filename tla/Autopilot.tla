------------------------------ MODULE Autopilot ------------------------------
(***************************************************************************)
(* One autopilot: autopilot-discover.ts finds topics and makes each a      *)
(* brief, and the panel (actions/autopilot.ts) generates, dismisses and    *)
(* deletes. A topic stands for its discovered_topics row and its brief;     *)
(* what happens to a queued brief is BriefGeneration, here one step.       *)
(***************************************************************************)
EXTENDS Naturals, FiniteSets

CONSTANTS
  Topic, Run,
  Exec,        \* handlers of the worker that may be at work at once
  Screen,      \* where the panel is open: one request about a topic at a time
  None,
  Second,      \* what the queue may answer to a second message of a singletonKey
  Cap,         \* limits.maxPostsPerDay
  PerCycle,    \* discovery.postsPerCycle
  Tries,       \* deliveries of a message (retryLimit + 1)
  MaxFaults,   \* bound: crashes, failing statements, requests that die
  MaxAsked     \* bound: what the panel is asked to do

ASSUME AutopilotAssumption ==
  /\ Cap \in Nat /\ PerCycle \in Nat /\ Tries \in Nat \ {0}
  /\ MaxFaults \in Nat /\ MaxAsked \in Nat
  /\ Second \subseteq {"refused", "accepted"} /\ Second # {}
  /\ None \notin Topic \cup Run \cup Exec /\ IsFiniteSet(Topic)

VARIABLES
  config,      \* does the row exist, and its autoQueue
  suspended,   \* the workspace is not active
  run,         \* runs of kind discover
  msg,         \* their messages: where, and how often delivered
  at,          \* the handlers: the run, step and locals of each
  loop,        \* the handler the worker loop waits for
  topic,       \* discovered_topics.status
  brief,       \* briefs.status of the topic's brief
  counted,     \* topics of the last 24 hours
  young,       \* briefs of the last 24 hours
  late, lists, \* history: topics of handlers given up for late, of how many
  gen, genMsg, \* runs of kind create that are open, and messages on their way
  posts,       \* history: posts created from a topic
  raced,       \* history: topics with two messages, or a post between two
               \* statements of a request to generate
  click,       \* requests of the panel between two of their statements
  deleting,    \* deleteAutopilotAction between its check and its delete
  faults, asked   \* bounded

vars == <<config, suspended, run, msg, at, loop, topic, brief, counted, young, late, lists,
          gen, genMsg, posts, raced, click, deleting, faults, asked>>
runVars == <<run, msg>>
workVars == <<at, loop>>
topicVars == <<topic, brief, counted, young>>
lateVars == <<late, lists>>
discoveries == <<run, msg, at, loop, late, lists>>
genVars == <<gen, genMsg, posts, raced>>
panel == <<suspended, click, deleting, asked>>

Idle == [run |-> None, pc |-> "idle", want |-> 0, keep |-> {}, now |-> None]
NoClick == [pc |-> "idle", of |-> None, drop |-> FALSE]

Init ==
  /\ config \in [live : {TRUE}, auto : BOOLEAN] /\ suspended = FALSE
  /\ run = [r \in Run |-> "none"]
  /\ msg = [r \in Run |-> [at |-> "none", tries |-> 0]]
  /\ at = [x \in Exec |-> Idle] /\ loop = None
  /\ topic = [t \in Topic |-> "none"] /\ brief = [t \in Topic |-> "none"]
  /\ counted = {} /\ young = {} /\ late = {} /\ lists = 0
  /\ gen = [t \in Topic |-> 0] /\ genMsg = [t \in Topic |-> 0]
  /\ posts = [t \in Topic |-> 0] /\ raced = {}
  /\ click = [q \in Screen |-> NoClick]
  /\ deleting = FALSE /\ faults = 0 /\ asked = 0

Ask == asked < MaxAsked /\ ~ suspended /\ asked' = asked + 1
Fault == faults < MaxFaults /\ faults' = faults + 1

-----------------------------------------------------------------------------
(* The scheduler and runAutopilotNowAction open a run, and its message      *)

Start(r) ==
  /\ run[r] = "none" /\ config.live
  /\ LET busy == \E s \in Run : msg[s].at \in {"waits", "active"}
     IN  \/ /\ busy => "accepted" \in Second
            /\ run' = [run EXCEPT ![r] = "running"]
            /\ msg' = [msg EXCEPT ![r].at = "waits"]
         \/ /\ busy /\ "refused" \in Second
            /\ run' = [run EXCEPT ![r] = "cancelled"]
            /\ UNCHANGED msg
  /\ UNCHANGED <<config, workVars, topicVars, lateVars, genVars, panel, faults>>

\* cancelRunAction
Stop(r) ==
  /\ Ask /\ run[r] = "running"
  /\ run' = [run EXCEPT ![r] = "cancelled"]
  /\ msg' = [msg EXCEPT ![r].at = IF @ = "waits" THEN "gone" ELSE @]
  /\ UNCHANGED <<config, suspended, workVars, topicVars, lateVars, genVars, click,
                 deleting, faults>>

\* The worker loop takes one message at a time.
Fetch(r, x) ==
  /\ loop = None /\ at[x] = Idle /\ msg[r].at = "waits"
  /\ msg' = [msg EXCEPT ![r] = [at |-> "active", tries |-> @.tries + 1]]
  /\ loop' = x /\ at' = [at EXCEPT ![x] = [Idle EXCEPT !.run = r, !.pc = "run"]]
  /\ UNCHANGED <<config, run, topicVars, lateVars, genVars, panel, faults>>

\* A delivery came to nothing: there is another, or this was the last.
Back(r, last) == msg' = [msg EXCEPT ![r].at = IF @ = "active" /\ msg[r].tries < Tries
                                              THEN "waits" ELSE last]

\* What the handler had still to insert is made beside the discovery to come.
Unfinished(x) == at[x].keep \cup IF at[x].pc = "topic" THEN {at[x].now} ELSE {}

Belated(K) ==
  IF K = {} THEN UNCHANGED lateVars ELSE late' = late \cup K /\ lists' = lists + 1

\* After expireInSeconds the loop leaves the handler alone, which goes on.
TimeOut ==
  /\ loop # None /\ at[loop].pc \notin {"end", "threw"}
  /\ Back(at[loop].run, "late") /\ loop' = None
  /\ Belated(Unfinished(loop))
  /\ UNCHANGED <<config, run, at, topicVars, genVars, panel, faults>>

Settle(x) ==
  /\ at[x].pc \in {"end", "threw"}
  /\ LET r == at[x].run
     IN  IF x = loop
         THEN /\ loop' = None
              /\ IF at[x].pc = "threw" THEN Back(r, "dead")
                 ELSE msg' = [msg EXCEPT ![r].at = "gone"]
         ELSE /\ msg' = [msg EXCEPT ![r].at = IF @ # "late" THEN @
                                              ELSE IF at[x].pc = "threw" THEN "dead" ELSE "gone"]
              /\ UNCHANGED loop
  /\ at' = [at EXCEPT ![x] = Idle]
  /\ UNCHANGED <<config, run, topicVars, lateVars, genVars, panel, faults>>

\* Every handler dies with the worker.
Crash ==
  /\ \E x \in Exec : at[x] # Idle
  /\ Fault
  /\ msg' = [r \in Run |-> [msg[r] EXCEPT !.at =
               IF @ = "active" /\ msg[r].tries < Tries THEN "waits"
               ELSE IF @ \in {"active", "late"} THEN "dead" ELSE @]]
  /\ at' = [x \in Exec |-> Idle] /\ loop' = None
  /\ UNCHANGED <<config, run, topicVars, lateVars, genVars, panel>>

-----------------------------------------------------------------------------
(* handleAutopilotDiscover                                                 *)

Goto(x, l) == at' = [at EXCEPT ![x].pc = l]

\* Every end of a run asks that it is still running.
EndRun(x, s) == run' = [run EXCEPT ![at[x].run] = IF @ = "running" THEN s ELSE @]

\* A configuration that is gone, or a workspace that is not active, throws
\* outside the try.
Load(x) ==
  /\ at[x].pc = "run"
  /\ Goto(x, IF run[at[x].run] # "running" THEN "end"
             ELSE IF config.live /\ ~ suspended THEN "limits" ELSE "threw")
  /\ UNCHANGED <<config, runVars, loop, topicVars, lateVars, genVars, panel, faults>>

\* The plan, or the monthly budget of the configuration, is spent.
Skip(x) ==
  /\ at[x].pc = "limits"
  /\ EndRun(x, "cancelled") /\ Goto(x, "end")
  /\ UNCHANGED <<config, msg, loop, topicVars, lateVars, genVars, panel, faults>>

\* What the last 24 hours have left.
Remaining == IF Cardinality(counted) < Cap THEN Cap - Cardinality(counted) ELSE 0

Wanted == IF PerCycle < Remaining THEN PerCycle ELSE Remaining

Limits(x) ==
  /\ at[x].pc = "limits"
  /\ IF Remaining = 0 THEN EndRun(x, "cancelled") /\ Goto(x, "end")
     ELSE at' = [at EXCEPT ![x].pc = "discover", ![x].want = Wanted] /\ UNCHANGED run
  /\ UNCHANGED <<config, msg, loop, topicVars, lateVars, genVars, panel, faults>>

\* Rows nobody has made yet.
Fresh == {t \in Topic : topic[t] = "none" /\ brief[t] = "none"} \ UNION {at[x].keep : x \in Exec}

\* The check of the keys, the search and runDiscovery: new topics, as many as
\* were asked for at most, or a failure.
Discover(x) ==
  /\ at[x].pc = "discover"
  /\ \/ \E K \in SUBSET Fresh :
          /\ Cardinality(K) <= at[x].want
          /\ at' = [at EXCEPT ![x].pc = "brief", ![x].want = 0, ![x].keep = K]
          /\ IF x = loop THEN UNCHANGED lateVars ELSE Belated(K)
          /\ UNCHANGED run
     \/ EndRun(x, "failed") /\ Goto(x, "end") /\ UNCHANGED lateVars
  /\ UNCHANGED <<config, msg, loop, topicVars, genVars, panel, faults>>

Status == IF config.auto THEN "queued" ELSE "pending"

\* createBriefFromCandidate
InsertBrief(x, t) ==
  /\ at[x].pc = "brief" /\ t \in at[x].keep
  /\ brief' = [brief EXCEPT ![t] = Status] /\ young' = young \cup {t}
  /\ at' = [at EXCEPT ![x].pc = "topic", ![x].now = t, ![x].keep = @ \ {t}]
  /\ UNCHANGED <<config, runVars, loop, topic, counted, lateVars, genVars, panel,
                 faults>>

InsertTopic(x) ==
  /\ at[x].pc = "topic"
  /\ LET t == at[x].now
     IN  IF config.live
         THEN /\ topic' = [topic EXCEPT ![t] = Status] /\ counted' = counted \cup {t}
              /\ Goto(x, IF config.auto THEN "queue" ELSE "brief")
              /\ UNCHANGED run
         ELSE EndRun(x, "failed") /\ Goto(x, "end") /\ UNCHANGED <<topic, counted>>
  /\ UNCHANGED <<config, msg, loop, brief, young, lateVars, genVars, panel, faults>>

\* boss.send, with the brief as its singletonKey
Send(t) ==
  /\ genMsg[t] > 0 => "accepted" \in Second
  /\ genMsg' = [genMsg EXCEPT ![t] = @ + 1]
  /\ raced' = IF genMsg[t] > 0 THEN raced \cup {t} ELSE raced
Refused(t) == genMsg[t] > 0 /\ "refused" \in Second /\ UNCHANGED <<genMsg, raced>>

\* enqueueBriefGeneration: a deleted configuration has no runs.
Queue(x) ==
  /\ at[x].pc = "queue"
  /\ LET t == at[x].now
     IN  IF config.live
         THEN /\ \/ Send(t) /\ gen' = [gen EXCEPT ![t] = @ + 1]
                 \/ Refused(t) /\ UNCHANGED gen
              /\ Goto(x, "brief") /\ UNCHANGED <<run, posts>>
         ELSE EndRun(x, "failed") /\ Goto(x, "end") /\ UNCHANGED genVars
  /\ UNCHANGED <<config, msg, loop, topicVars, lateVars, panel, faults>>

Close(x) ==
  /\ at[x].pc = "brief" /\ at[x].keep = {}
  /\ EndRun(x, "success") /\ Goto(x, "end")
  /\ UNCHANGED <<config, msg, loop, topicVars, lateVars, genVars, panel, faults>>

Trying(x) == at[x].pc \in {"limits", "discover", "brief", "topic", "queue"}

\* Mutant: a caught failure leaves the run as it is.
CatchNothing(x) ==
  /\ Trying(x) /\ Fault /\ Goto(x, "end")
  /\ UNCHANGED <<config, runVars, loop, topicVars, lateVars, genVars, panel>>

\* The catch closes the run, whatever was already inserted, or throws itself.
Catch(x) ==
  /\ Trying(x) /\ Fault
  /\ \/ EndRun(x, "failed") /\ Goto(x, "end")
     \/ Goto(x, "threw") /\ UNCHANGED run
  /\ UNCHANGED <<config, msg, loop, topicVars, lateVars, genVars, panel>>

Handler(x) ==
  \/ Load(x) \/ Skip(x) \/ Limits(x) \/ Discover(x) \/ InsertTopic(x) \/ Queue(x) \/ Close(x)
  \/ \E t \in Topic : InsertBrief(x, t)

\* A row leaves the window of 24 hours, the brief no later than its topic.
HoursPass(t) ==
  /\ t \in young \cup counted
  /\ young' = young \ {t} /\ counted' = counted \ {t}
  /\ UNCHANGED <<config, discoveries, topic, brief, genVars, panel, faults>>

\* The administration suspends the workspace and reactivates it.
SetWorkspaceStatus ==
  /\ suspended' = ~ suspended
  /\ UNCHANGED <<config, discoveries, topicVars, genVars, click, deleting, faults,
                 asked>>

-----------------------------------------------------------------------------
(* A queued brief: BriefGeneration                                         *)

\* A request between its check of the brief and its message.
Overtaken(t) == \E q \in Screen : click[q].of = t /\ click[q].pc \in {"queue", "send"}

\* A post, a failure, or neither: stopped, suspended, or its worker died.
Generate(t) ==
  /\ genMsg[t] > 0
  /\ genMsg' = [genMsg EXCEPT ![t] = @ - 1]
  /\ \/ /\ brief[t] \notin {"none", "deleted"}
        /\ gen' = [gen EXCEPT ![t] = @ - 1]
        /\ brief' = [brief EXCEPT ![t] = "done"] /\ posts' = [posts EXCEPT ![t] = @ + 1]
        /\ raced' = IF Overtaken(t) THEN raced \cup {t} ELSE raced
     \/ /\ brief[t] \notin {"none", "deleted"}
        /\ gen' = [gen EXCEPT ![t] = @ - 1]
        /\ brief' = [brief EXCEPT ![t] = "failed"] /\ UNCHANGED <<posts, raced>>
     \/ gen' \in {gen, [gen EXCEPT ![t] = @ - 1]} /\ UNCHANGED <<brief, posts, raced>>
  /\ UNCHANGED <<config, discoveries, topic, counted, young, panel, faults>>

-----------------------------------------------------------------------------
(* generateTopicNowAction                                                  *)

\* Mutant: only the topic is asked.
MayGenerateTopic(t) == topic[t] = "pending"

MayGenerate(t) == topic[t] = "pending" /\ brief[t] \in {"pending", "failed"}

Step(q, l) == click' = [click EXCEPT ![q].pc = l]
Done(q) == click' = [click EXCEPT ![q] = NoClick]

AskGenerate(q, t) ==
  /\ Ask /\ click[q] = NoClick /\ MayGenerate(t)
  /\ click' = [click EXCEPT ![q] = [pc |-> "queue", of |-> t, drop |-> FALSE]]
  /\ UNCHANGED <<config, suspended, discoveries, topicVars, genVars, deleting, faults>>

\* The brief, then the run, which needs both the brief and the configuration.
QueueBrief(q) ==
  /\ click[q].pc = "queue"
  /\ LET t == click[q].of
     IN  /\ brief' = [brief EXCEPT ![t] = IF @ = "deleted" THEN @ ELSE "queued"]
         /\ IF brief[t] # "deleted" /\ config.live
            THEN gen' = [gen EXCEPT ![t] = @ + 1] /\ Step(q, "send")
            ELSE Done(q) /\ UNCHANGED gen
  /\ UNCHANGED <<config, suspended, discoveries, topic, counted, young, genMsg,
                 posts, raced, deleting, faults, asked>>

SendBrief(q) ==
  /\ click[q].pc = "send"
  /\ LET t == click[q].of
     IN  \/ Send(t) /\ Step(q, "mark") /\ UNCHANGED gen
         \/ Refused(t) /\ gen' = [gen EXCEPT ![t] = @ - 1] /\ Done(q)
  /\ UNCHANGED <<config, suspended, discoveries, topicVars, posts, deleting, faults,
                 asked>>

MarkQueued(q) ==
  /\ click[q].pc = "mark"
  /\ topic' = [topic EXCEPT ![click[q].of] = IF @ = "none" THEN @ ELSE "queued"]
  /\ Done(q)
  /\ UNCHANGED <<config, suspended, discoveries, brief, counted, young, genVars,
                 deleting, faults, asked>>

-----------------------------------------------------------------------------
(* dismissTopicAction and deleteAutopilotAction                           *)

AskDismiss(q, t) ==
  /\ Ask /\ click[q] = NoClick /\ topic[t] = "pending"
  /\ click' = [click EXCEPT ![q] = [pc |-> "drop", of |-> t,
                                    drop |-> brief[t] \in {"pending", "failed"}]]
  /\ UNCHANGED <<config, suspended, discoveries, topicVars, genVars, deleting, faults>>

\* The topic of a deleted brief has no brief_id: the cap counts it no more.
DropBrief(q) ==
  /\ click[q].pc = "drop"
  /\ LET t == click[q].of
     IN  IF click[q].drop
         THEN /\ brief' = [brief EXCEPT ![t] = "deleted"]
              /\ counted' = counted \ {t} /\ young' = young \ {t}
         ELSE UNCHANGED <<brief, counted, young>>
  /\ Step(q, "dismiss")
  /\ UNCHANGED <<config, suspended, discoveries, topic, genVars, deleting, faults,
                 asked>>

MarkDismissed(q) ==
  /\ click[q].pc = "dismiss"
  /\ topic' = [topic EXCEPT ![click[q].of] = IF @ = "none" THEN @ ELSE "dismissed"]
  /\ Done(q)
  /\ UNCHANGED <<config, suspended, discoveries, brief, counted, young, genVars,
                 deleting, faults, asked>>

RequestDies(q) ==
  /\ click[q].pc \in {"send", "mark", "drop", "dismiss"} /\ Fault
  /\ Done(q)
  /\ UNCHANGED <<config, suspended, discoveries, topicVars, genVars, deleting, asked>>

AskDelete ==
  /\ Ask /\ config.live /\ ~ deleting
  /\ \A r \in Run : run[r] # "running"
  /\ \A t \in Topic : gen[t] = 0
  /\ deleting' = TRUE
  /\ UNCHANGED <<config, suspended, discoveries, topicVars, genVars, click, faults>>

\* The topics go with it, the briefs stay.
Delete ==
  /\ deleting
  /\ config' = [config EXCEPT !.live = FALSE]
  /\ topic' = [t \in Topic |-> "none"] /\ counted' = {}
  /\ deleting' = FALSE
  /\ UNCHANGED <<suspended, discoveries, brief, young, genVars, click, faults, asked>>

PanelStep(q) ==
  \/ QueueBrief(q) \/ SendBrief(q) \/ MarkQueued(q)
  \/ DropBrief(q) \/ MarkDismissed(q)

Next ==
  \/ TimeOut \/ Crash \/ SetWorkspaceStatus \/ AskDelete \/ Delete
  \/ \E x \in Exec : Settle(x) \/ Handler(x) \/ Catch(x) \/ \E r \in Run : Fetch(r, x)
  \/ \E r \in Run : Start(r) \/ Stop(r)
  \/ \E t \in Topic : HoursPass(t) \/ Generate(t)
  \/ \E q \in Screen : \/ PanelStep(q) \/ RequestDies(q)
                      \/ \E t \in Topic : AskGenerate(q, t) \/ AskDismiss(q, t)

Spec == Init /\ [][Next]_vars

\* The worker loop goes on, and so does a handler it gave up.
Loop == \E x \in Exec : Settle(x) \/ Handler(x) \/ \E r \in Run : Fetch(r, x)
FairSpec == Spec /\ WF_vars(Loop)

-----------------------------------------------------------------------------
(* Properties                                                              *)

TypeOK ==
  /\ run \in [Run -> {"none", "running", "success", "failed", "cancelled"}]
  /\ \A r \in Run : /\ msg[r].at \in {"none", "waits", "active", "late", "gone", "dead"}
                    /\ msg[r].tries <= Tries
  /\ loop \in Exec \cup {None}
  /\ topic \in [Topic -> {"none", "pending", "queued", "dismissed"}]
  /\ brief \in [Topic -> {"none", "pending", "queued", "failed", "done", "deleted"}]
  /\ counted \subseteq Topic /\ young \subseteq Topic
  /\ gen \in [Topic -> Nat] /\ genMsg \in [Topic -> Nat]

\* maxPostsPerDay: the cap is read long before the briefs are inserted, and
\* counts topics, which are inserted after their briefs. Still no more briefs
\* are made in a day than the cap allows, and one for each crash or failing
\* statement that came between the two inserts - by handlers in time. What a
\* handler given up for late inserts is made beside the next discovery's: at
\* most the cap again for each of them.
CapHolds ==
  config.live => /\ Cardinality(young \ late) <= Cap + faults
                 /\ Cardinality(late) <= Cap * lists

\* Clicked twice, dismissed, redelivered, or cut off before the topic was
\* marked: a topic becomes one post at most, unless the queue took a second
\* message beside the first, or a whole generation fell between the check of
\* a click and its message.
OnePostPerTopic == \A t \in Topic \ raced : posts[t] <= 1

\* Discoveries and panel make no more of an autopilot than the user allowed:
\* so many a day, and one post of each topic.
AsManyAsAllowed == CapHolds /\ OnePostPerTopic

\* A discovery whose message was sent is closed, although its worker may die,
\* its statements may fail and its handler may overrun, unless its last
\* delivery threw or died: in a suspended workspace, after its autopilot was
\* deleted, or with the statement that closes it failing too.
EveryDiscoveryCloses ==
  \A r \in Run : run[r] = "running" ~> run[r] # "running" \/ msg[r].at = "dead"
=============================================================================
