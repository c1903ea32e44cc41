------------------------------- MODULE Gallery -------------------------------
(***************************************************************************)
(* The pictures of an article that are chosen and not yet refused, and     *)
(* what must be true of each and of all: the promise of Candidates.        *)
(***************************************************************************)
EXTENDS Naturals, Sequences

VARIABLES
  side,      \* the pictures as they are
  got,       \* the pictures chosen; then those of the text, to be sent
  trying,    \* the one to be sent as the cover
  cover,     \* featured media
  inline     \* pictures of the text that WordPress has

\* MIN_SIDE: the cover asks for more.
GoodEnough(c, s) == side[c.url] = "full" \/ (s > 0 /\ side[c.url] = "body")

\* "Better no image than a wrong one" (illustrate.ts 16): a picture that was
\* found is the one the vision pointed at in what it saw, or the first of it
\* when it pointed at nothing, large enough for the place it was chosen for,
\* and in one place only; the cover is the one chosen for it unless WordPress
\* refused that one.
PicturesAreJudged ==
  LET sent == <<cover, trying>> \o inline \o got IN
  /\ \A i \in DOMAIN sent :
       sent[i].how = "seen" =>
         /\ sent[i].approved \in {sent[i].url, "none"}
         /\ GoodEnough(sent[i], sent[i].slot)
  /\ \A i, j \in DOMAIN sent : i # j /\ sent[i].how = "seen" => sent[i].url # sent[j].url
  /\ \A i, j \in DOMAIN inline : i < j => inline[i].slot < inline[j].slot
  /\ \A i \in DOMAIN inline : cover.slot < inline[i].slot \/ cover.how = "none"
=============================================================================
