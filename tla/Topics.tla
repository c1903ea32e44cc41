------------------------------- MODULE Topics -------------------------------
(***************************************************************************)
(* What is already covered: the discovery (core/autopilot/discover.ts) and *)
(* the guard of the generation (topic-guard.ts) compare a topic with the   *)
(* titles of the site, the other briefs and the topics found before. A     *)
(* topic is the set of its words. What else the runs do is in Autopilot    *)
(* and BriefGeneration.                                                    *)
(***************************************************************************)
EXTENDS Coverage, Sequences

CONSTANTS
  Brief,
  Topic,       \* sets of words: titleTokens of topics and titles
  PerCycle,    \* postsPerCycle, within what the day has left
  MaxFound,    \* bound: candidates of an answer
  MaxCycles,   \* bound: discoveries
  MaxAgain     \* bound: regenerations and deletions

TopicsAssumption == PerCycle \in Nat /\ MaxFound \in Nat

VARIABLES
  titles,      \* titles of the site
  gen,         \* the generation of a brief: its step
  again        \* bounded

vars == <<status, subject, titles, rows, disc, gen, cycles, again>>

NoTopic == {}
NotDiscovering == [pc |-> "idle", known |-> {}, kept |-> <<>>, told |-> {}]

Init ==
  /\ status = [b \in Brief |-> "none"] /\ subject = [b \in Brief |-> NoTopic]
  /\ titles \in {{}} \cup {{t} : t \in Topic}
  /\ rows = {} /\ disc = NotDiscovering /\ gen = [b \in Brief |-> "idle"]
  /\ cycles = 0 /\ again = 0

-----------------------------------------------------------------------------
(* jaccard, and the second of its thresholds: DEDUPE_UNCERTAIN_MIN         *)

Unsure(s, t) ==
  s # {} /\ t # {} /\ 4 * Cardinality(s \cap t) >= Cardinality(s \cup t)

IsNear(t, known) == \E k \in known : Near(t, k)
IsUnsure(t, known) == \E k \in known : Unsure(t, k)

-----------------------------------------------------------------------------
(* runDiscovery                                                            *)

\* A candidate: its topic, does it carry a date, and is it of a type that is
\* allowed, with a quotation of a source.
Candidate == [topic : Topic, dated : BOOLEAN, is : {"cited", "uncited", "other"}]

Answers == UNION {[1 .. n -> Candidate] : n \in 0 .. MaxFound}

\* The elements of s at the places of I, in their order.
InOrder(s, I) ==
  [k \in 1 .. Cardinality(I) |-> s[CHOOSE i \in I : Cardinality({j \in I : j <= i}) = k]]

\* normalizeCandidates: types that are not allowed and exact repetitions are
\* left out; the date goes after that.
Normalized(answer) ==
  LET first(i) == \A j \in 1 .. i - 1 : answer[j].is # "other" =>
                     <<answer[j].topic, answer[j].dated>> # <<answer[i].topic, answer[i].dated>>
  IN  InOrder(answer, {i \in DOMAIN answer : answer[i].is # "other" /\ first(i)})

Grounded(found) == InOrder(found, {i \in DOMAIN found : found[i].is = "cited"})

AfterDeterministic(found, known) ==
  LET s == Grounded(found) IN InOrder(s, {i \in DOMAIN s : ~ IsNear(s[i].topic, known)})

Uncertain(found, known) ==
  LET s == AfterDeterministic(found, known)
  IN  InOrder(s, {i \in DOMAIN s : IsUnsure(s[i].topic, known)})

\* The decisions are about positions of the list that was sent.
Dropped(found, known, covered) == {Uncertain(found, known)[i] : i \in covered}

\* The order of the candidates, and as many as the cycle may make.
Kept(found, known, covered) ==
  LET s == AfterDeterministic(found, known)
      surviving == InOrder(s, {i \in DOMAIN s : s[i] \notin Dropped(found, known, covered)})
      n == IF Len(surviving) < PerCycle THEN Len(surviving) ELSE PerCycle
  IN  SubSeq(surviving, 1, n)

\* What does not survive: near, without a source, or covered.
Discarded(found, known, covered) ==
  LET elements(q) == {q[i] : i \in DOMAIN q}
  IN  {c.topic : c \in (elements(found) \ elements(AfterDeterministic(found, known)))
                          \cup Dropped(found, known, covered)}

\* Titles of the site, briefs of the workspace, topics of the autopilot.
Inventory(site) ==
  (site \cup {subject[b] : b \in Brief} \cup {r.topic : r \in rows}) \ {NoTopic}

\* The site may not answer.
ReadInventory ==
  /\ disc.pc = "idle" /\ cycles < MaxCycles
  /\ cycles' = cycles + 1
  /\ \E site \in {titles, {}} :
       disc' = [NotDiscovering EXCEPT !.pc = "search", !.known = Inventory(site)]
  /\ UNCHANGED <<status, subject, titles, rows, gen, again>>

\* The candidates, and the decisions of the second call, which the budget or
\* a failure may leave out. What is left out is stored.
Discover ==
  /\ disc.pc = "search"
  /\ \E answer \in Answers :
       LET found == Normalized(answer)
           asked == Uncertain(found, disc.known)
       IN  \E covered \in SUBSET (DOMAIN asked) :
             /\ disc' = [disc EXCEPT !.pc = "keep", !.kept = Kept(found, disc.known, covered),
                                     !.told = {asked[i] : i \in covered}, !.known = {}]
             /\ rows' = rows \cup {[topic |-> t, cycle |-> cycles] :
                                     t \in Discarded(found, disc.known, covered)}
  /\ UNCHANGED <<status, subject, titles, gen, cycles, again>>

\* The first call, or the budget, fails.
DiscoveryFails ==
  /\ disc.pc = "search"
  /\ disc' = NotDiscovering
  /\ UNCHANGED <<status, subject, titles, rows, gen, cycles, again>>

\* createBriefFromCandidate, and the row of the topic.
KeepTopic(b) ==
  /\ disc.pc = "keep" /\ disc.kept # <<>> /\ status[b] = "none"
  /\ subject' = [subject EXCEPT ![b] = Head(disc.kept).topic]
  /\ status' = [status EXCEPT ![b] = "queued"]
  /\ rows' = rows \cup {[topic |-> Head(disc.kept).topic, cycle |-> cycles]}
  /\ disc' = [disc EXCEPT !.kept = Tail(@), !.told = {}]
  /\ UNCHANGED <<titles, gen, cycles, again>>

EndDiscovery ==
  /\ disc.pc = "keep"
  /\ disc.kept = <<>> \/ \A b \in Brief : status[b] # "none"
  /\ disc' = NotDiscovering
  /\ UNCHANGED <<status, subject, titles, rows, gen, cycles, again>>

-----------------------------------------------------------------------------
(* The briefs                                                              *)

\* createBriefAction: any topic.
CreateBrief(b) ==
  /\ status[b] = "none"
  /\ \E t \in Topic : subject' = [subject EXCEPT ![b] = t]
  /\ status' = [status EXCEPT ![b] = "queued"]
  /\ UNCHANGED <<titles, rows, disc, gen, cycles, again>>

Regenerate(b) ==
  /\ status[b] = "failed" /\ again < MaxAgain
  /\ status' = [status EXCEPT ![b] = "queued"] /\ again' = again + 1
  /\ UNCHANGED <<subject, titles, rows, disc, gen, cycles>>

\* The row goes, the post of the site stays.
DeleteBrief(b) ==
  /\ status[b] \in {"failed", "ready"} /\ again < MaxAgain
  /\ status' = [status EXCEPT ![b] = "deleted"] /\ subject' = [subject EXCEPT ![b] = NoTopic]
  /\ again' = again + 1
  /\ UNCHANGED <<titles, rows, disc, gen, cycles>>

-----------------------------------------------------------------------------
(* handleBriefGenerate, up to its guard; the generations of two briefs may  *)
(* overlap, those of one do not                                            *)

Goto(b, l) == gen' = [gen EXCEPT ![b] = l]

MarkGenerating(b) ==
  /\ status[b] = "queued" /\ gen[b] = "idle"
  /\ status' = [status EXCEPT ![b] = "generating"] /\ Goto(b, "guard")
  /\ UNCHANGED <<subject, titles, rows, disc, cycles, again>>

\* Mutant: a brief being generated covers nothing yet.
CoveringReady == {"ready"}

\* The statuses the guard takes for covered; ready_for_review and published
\* are one here.
Covering == {"generating", "ready"}

Covers(b) == {subject[c] : c \in {d \in Brief \ {b} : status[d] \in Covering}}

\* checkTopicAlreadyCovered: near a title, or unsure and told so. The titles
\* are read once more by the writer, to keep away from them.
Guard(b) ==
  /\ gen[b] = "guard"
  /\ \E site \in {titles, {}} :
       LET known == site \cup Covers(b)
       IN  \/ /\ IsNear(subject[b], known) \/ IsUnsure(subject[b], known)
              /\ status' = [status EXCEPT ![b] = "failed"] /\ Goto(b, "idle")
           \/ /\ ~ IsNear(subject[b], known)
              /\ Goto(b, "write") /\ UNCHANGED status
  /\ UNCHANGED <<subject, titles, rows, disc, cycles, again>>

\* The title is about the topic, or the writer found a better one.
Write(b) ==
  /\ gen[b] = "write"
  /\ \/ /\ \E t \in {subject[b], NoTopic} : titles' = (titles \cup {t}) \ {NoTopic}
        /\ status' = [status EXCEPT ![b] = "ready"]
     \/ UNCHANGED titles /\ status' = [status EXCEPT ![b] = "failed"]
  /\ Goto(b, "idle")
  /\ UNCHANGED <<subject, rows, disc, cycles, again>>

Next ==
  \/ ReadInventory \/ Discover \/ DiscoveryFails \/ EndDiscovery
  \/ \E b \in Brief : \/ KeepTopic(b) \/ CreateBrief(b) \/ Regenerate(b) \/ DeleteBrief(b)
                      \/ MarkGenerating(b) \/ Guard(b) \/ Write(b)

Spec == Init /\ [][Next]_vars
=============================================================================
