------------------------------ MODULE Coverage ------------------------------
(***************************************************************************)
(* What is covered already, by the briefs and by what the discoveries of   *)
(* an autopilot found, and that nothing is covered twice: the promise of   *)
(* Topics.                                                                 *)
(***************************************************************************)
EXTENDS Naturals, FiniteSets

VARIABLES
  status,      \* briefs.status
  subject,     \* briefs.topic: the set of its words
  rows,        \* discovered_topics of the autopilot: topic and cycle
  disc,        \* the discovery: its step, what it read, found and was told
  cycles       \* the discoveries begun

\* isNearDuplicate: jaccard of 0.6 or more.
Near(s, t) ==
  s # {} /\ t # {} /\ 10 * Cardinality(s \cap t) >= 6 * Cardinality(s \cup t)

-----------------------------------------------------------------------------
(* What must hold                                                          *)

\* Two briefs of one topic, made by hand or found, generated at once, failed
\* and started again, deleted: the workspace has one post of it at most, as
\* far as it knows its posts by the topics of their briefs.
OnePostOfATopic ==
  \A b, c \in DOMAIN status :
    b # c /\ status[b] = "ready" /\ status[c] = "ready" => ~ Near(subject[b], subject[c])

\* What one discovery found, kept or not, no later one keeps.
FoundOnce ==
  \A i \in DOMAIN disc.kept, r \in rows : r.cycle < cycles => ~ Near(disc.kept[i].topic, r.topic)

\* A candidate the model called covered is not kept, whatever its place in the
\* lists between.
VerdictsFollow == \A i \in DOMAIN disc.kept : disc.kept[i] \notin disc.told

\* No topic is covered twice: not by two discoveries, not against the model's
\* word, not by two posts.
TopicsStayApart == OnePostOfATopic /\ FoundOnce /\ VerdictsFollow
=============================================================================
