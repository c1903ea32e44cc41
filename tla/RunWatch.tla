------------------------------ MODULE RunWatch -------------------------------
(***************************************************************************)
(* How a run is seen while it runs: the worker says what it does, the      *)
(* logger stores it in batches, the panel asks again and again, the server *)
(* puts an answer together with several queries, and the dialog derives    *)
(* the stages from the log. The run is a discovery, followed to the last   *)
(* post it generates, or one of these posts. Panel says what must be true   *)
(* of what is seen.                                                        *)
(***************************************************************************)
EXTENDS Integers, FiniteSets, Sequences, Functions

CONSTANTS
  Discovery,   \* a run that discovers
  Post,        \* the runs that generate its posts
  Stages,      \* how many stages a generation has
  Optional,    \* those a template may turn off
  Window,      \* LOG_LIMIT
  MaxErrors,   \* MAX_CONSECUTIVE_ERRORS
  MaxFlushes,  \* bound: flushes asked for at once
  MaxTracks,   \* bound: how often the dialog is opened
  MaxLost      \* bound: failed inserts of the log

Watched == {Discovery} \cup Post
NoRun == "none"

WatchAssumption == Discovery \notin Post /\ Stages \in Nat \ {0}

VARIABLES
  status,      \* of each run; a post has none before its topic is stored
  said,        \* stages announced by the worker
  buffer,      \* lines not yet in an insert
  batch,       \* lines of the insert under way
  flushes,     \* flushes waiting for their turn
  stored,      \* run_logs
  lost,        \* lines of failed inserts
  tracked,     \* runId of the dialog
  polls,       \* the effects that ask, the cancelled ones included
  loaded,      \* the last answer that was set
  tracks

worker == <<status, said>>
logger == <<buffer, batch, flushes, stored, lost>>
panel == <<tracked, polls, loaded, tracks>>
vars == <<worker, logger, panel>>

Closed == {"success", "failed"}
NotOpen == {"absent", "topic"}

Init ==
  /\ status = [r \in Watched |-> IF r = Discovery THEN "running" ELSE "absent"]
  /\ said = [p \in Post |-> <<>>] /\ buffer = said /\ batch = said /\ stored = said
  /\ flushes = [p \in Post |-> 0] /\ lost = [p \in Post |-> {}]
  /\ tracked = NoRun /\ polls = {} /\ loaded = <<>> /\ tracks = 0

-----------------------------------------------------------------------------
(* The worker                                                              *)

\* A kept topic is stored, then its generation is opened and sent.
KeepTopic(p) ==
  /\ status[Discovery] = "running" /\ status[p] = "absent"
  /\ status' = [status EXCEPT ![p] = "topic"]
  /\ UNCHANGED <<said, logger, panel>>

OpenGeneration(p) ==
  /\ status[Discovery] = "running" /\ status[p] = "topic"
  /\ status' = [status EXCEPT ![p] = "running"]
  /\ UNCHANGED <<said, logger, panel>>

\* stageMarker of a later stage; some are turned off.
Announce(p) ==
  /\ status[p] = "running"
  /\ \E s \in 1 .. Stages :
       /\ \A i \in DOMAIN said[p] : said[p][i] < s
       /\ said' = [said EXCEPT ![p] = Append(@, s)]
       /\ buffer' = [buffer EXCEPT ![p] = Append(@, s)]
  /\ UNCHANGED <<status, batch, flushes, stored, lost, panel>>

\* maybeFinalizeRun closes the run; the last flush comes after.
Close(r) ==
  /\ status[r] = "running"
  /\ \E s \in Closed :
       /\ r \in Post /\ s = "success" => \A x \in 1 .. Stages : x \in Optional \/ x \in Range(said[r])
       /\ status' = [status EXCEPT ![r] = s]
  /\ flushes' = [p \in Post |-> IF p = r THEN flushes[p] + 1 ELSE flushes[p]]
  /\ UNCHANGED <<said, buffer, batch, stored, lost, panel>>

-----------------------------------------------------------------------------
(* createRunLogger                                                         *)

\* The timer, or a full buffer; others may be under way.
AskFlush(p) ==
  /\ buffer[p] # <<>> /\ flushes[p] < MaxFlushes
  /\ flushes' = [flushes EXCEPT ![p] = @ + 1]
  /\ UNCHANGED <<worker, buffer, batch, stored, lost, panel>>

\* A flush waits for the one before; its batch leaves the buffer at once.
Take(p) ==
  /\ flushes[p] > 0 /\ batch[p] = <<>> /\ buffer[p] # <<>>
  /\ batch' = [batch EXCEPT ![p] = buffer[p]]
  /\ buffer' = [buffer EXCEPT ![p] = <<>>]
  /\ UNCHANGED <<worker, flushes, stored, lost, panel>>

TakeNothing(p) ==
  /\ flushes[p] > 0 /\ batch[p] = <<>> /\ buffer[p] = <<>>
  /\ flushes' = [flushes EXCEPT ![p] = @ - 1]
  /\ UNCHANGED <<worker, buffer, batch, stored, lost, panel>>

\* A failed insert loses its lines and no others.
Insert(p) ==
  /\ batch[p] # <<>>
  /\ \/ stored' = [stored EXCEPT ![p] = @ \o batch[p]] /\ UNCHANGED lost
     \/ /\ Cardinality(lost[p]) < MaxLost
        /\ lost' = [lost EXCEPT ![p] = @ \cup Range(batch[p])] /\ UNCHANGED stored
  /\ batch' = [batch EXCEPT ![p] = <<>>]
  /\ flushes' = [flushes EXCEPT ![p] = @ - 1]
  /\ UNCHANGED <<worker, buffer, panel>>

-----------------------------------------------------------------------------
(* getRunProgress, one query at a time                                     *)

\* loadLogs: the last lines only.
LastLines(p) == {stored[p][i] : i \in {j \in DOMAIN stored[p] : j > Len(stored[p]) - Window}}

Poll(r) == [run |-> r, cancelled |-> FALSE, at |-> "run", errors |-> 0, status |-> "absent",
            topics |-> {}, posts |-> <<>>]
Becomes(e, f) == polls' = (polls \ {e}) \cup {f}

Asking == /\ UNCHANGED <<worker, logger, tracked, tracks, loaded>>

\* Mutant: the run is read with its children, after the topics.
ReadRunLast(e) ==
  /\ e.at = "run"
  /\ Becomes(e, [e EXCEPT !.at = IF e.run = Discovery THEN "topics" ELSE "logs",
                          !.status = IF e.run = Discovery THEN "unread" ELSE status[e.run],
                          !.topics = IF e.run = Discovery THEN {} ELSE {e.run},
                          !.posts = IF e.run = Discovery THEN <<>>
                                    ELSE [p \in {e.run} |-> [status |-> status[p], lines |-> {}]]])
  /\ Asking

ReadRun(e) ==
  /\ e.at = "run"
  /\ Becomes(e, [e EXCEPT !.at = IF e.run = Discovery THEN "topics" ELSE "logs",
                          !.status = status[e.run],
                          !.topics = IF e.run = Discovery THEN {} ELSE {e.run},
                          !.posts = IF e.run = Discovery THEN <<>>
                                    ELSE [p \in {e.run} |-> [status |-> status[p], lines |-> {}]]])
  /\ Asking

ReadTopics(e) ==
  /\ e.at = "topics"
  /\ Becomes(e, [e EXCEPT !.at = "children", !.topics = {p \in Post : status[p] # "absent"}])
  /\ Asking

\* Topics without a generation are for the user to start.
ReadChildren(e) ==
  /\ e.at = "children"
  /\ Becomes(e, [e EXCEPT !.at = "logs",
                          !.status = IF e.status = "unread" THEN status[e.run] ELSE e.status,
                          !.posts = [p \in {q \in e.topics : status[q] \notin NotOpen} |->
                                       [status |-> status[p], lines |-> {}]]])
  /\ Asking

ReadLogs(e) ==
  /\ e.at = "logs"
  /\ Becomes(e, [e EXCEPT !.at = "answered",
                          !.posts = [p \in DOMAIN e.posts |->
                                       [e.posts[p] EXCEPT !.lines = LastLines(p)]]])
  /\ Asking

Done(e) == e.status # "running" /\ \A p \in DOMAIN e.posts : e.posts[p].status # "running"

-----------------------------------------------------------------------------
(* useRunProgress                                                          *)

\* track, or the dialog is closed: the effect of the other run is cancelled.
Track(r) ==
  /\ tracks < MaxTracks /\ r # tracked
  /\ r # NoRun => status[r] \notin NotOpen
  /\ tracked' = r /\ tracks' = tracks + 1
  /\ polls' = {[e EXCEPT !.cancelled = TRUE] : e \in {f \in polls : f.at # "timer" \/ f.cancelled}}
                \cup IF r = NoRun THEN {} ELSE {Poll(r)}
  /\ UNCHANGED <<worker, logger, loaded>>

\* A cancelled effect ends when the answer comes; the text of the answer is
\* still to be read.
Answer(e) ==
  /\ e.at = "answered"
  /\ IF e.cancelled THEN polls' = polls \ {e} ELSE Becomes(e, [e EXCEPT !.at = "json"])
  /\ Asking

Shown(e) == [run |-> e.run, error |-> FALSE, status |-> e.status, posts |-> e.posts, done |-> Done(e)]

\* setLoad; a run that is done is not asked for again.
Load(e) ==
  /\ e.at = "json"
  /\ loaded' = Shown(e)
  /\ IF Done(e) THEN polls' = polls \ {e}
     ELSE Becomes(e, [Poll(e.run) EXCEPT !.at = "timer", !.cancelled = e.cancelled])
  /\ UNCHANGED <<worker, logger, tracked, tracks>>

Failed(r) == [run |-> r, error |-> TRUE, status |-> "absent", posts |-> <<>>, done |-> FALSE]

\* 401, 404
Refuse(e) ==
  /\ e.at = "answered" /\ ~ e.cancelled
  /\ polls' = polls \ {e} /\ loaded' = Failed(e.run)
  /\ UNCHANGED <<worker, logger, tracked, tracks>>

\* No answer, or not an answer. Who caught the error does not look at cancelled.
Lose(e) ==
  /\ e.at \in {"answered", "json"}
  /\ IF e.errors + 1 >= MaxErrors
     THEN /\ polls' = polls \ {e}
          /\ loaded' = Failed(e.run)
     ELSE /\ Becomes(e, [Poll(e.run) EXCEPT !.at = "timer", !.errors = e.errors + 1,
                                            !.cancelled = e.cancelled])
          /\ UNCHANGED loaded
  /\ UNCHANGED <<worker, logger, tracked, tracks>>

AskAgain(e) == e.at = "timer" /\ Becomes(e, [e EXCEPT !.at = "run"]) /\ Asking

Next ==
  \/ \E p \in Post : KeepTopic(p) \/ OpenGeneration(p) \/ Announce(p) \/ AskFlush(p) \/ Take(p)
                       \/ TakeNothing(p) \/ Insert(p)
  \/ \E r \in Watched : Close(r)
  \/ \E r \in Watched \cup {NoRun} : Track(r)
  \/ \E e \in polls : ReadRun(e) \/ ReadTopics(e) \/ ReadChildren(e) \/ ReadLogs(e) \/ Answer(e)
                        \/ Load(e) \/ Refuse(e) \/ Lose(e) \/ AskAgain(e)

Spec == Init /\ [][Next]_vars
=============================================================================
