-------------------------------- MODULE Drafts --------------------------------
(***************************************************************************)
(* What a new post keeps of its draft, and where its images and embeds     *)
(* are: the promise of Editorial. A text is its links, its numbers and     *)
(* those of its title, a paragraph its position.                           *)
(***************************************************************************)
EXTENDS Integers, FiniteSets, Functions

CONSTANT NoImage

VARIABLES
  stage,     \* of handleBriefGenerate, from the draft on
  job,       \* the template, the settings and publishMode
  draft,     \* what the pipeline returned, and the numbers of its sources
  text,      \* reviewedHtml, finalTitle
  hints,     \* the first paragraph of each section named, 0 when there is none
  slots,     \* planImageSlots: how many were wanted, after which paragraphs
  featured,  \* the cover: tried, then uploaded
  uploaded,  \* the images of the text that WordPress has
  embeds,    \* the paragraph of each embed
  post       \* the status given to createPost

Generated == "generated"
Length == draft.length
Least(a, b) == IF a < b THEN a ELSE b

\* Math.round(a / b)
Rounded(a, b) == (2 * a + b) \div (2 * b)

\* Mutant: spread over the text again, as injectInlineImages does.
InjectedEvenly ==
  {[image |-> uploaded[i].image, of |-> uploaded[i].of,
    at |-> Rounded(i * Length, Cardinality(DOMAIN uploaded) + 1)] : i \in DOMAIN uploaded}

\* injectAfterParagraphs
Injected ==
  {[image |-> uploaded[i].image, of |-> uploaded[i].of, at |-> uploaded[i].of] : i \in DOMAIN uploaded}

-----------------------------------------------------------------------------
(* What must hold                                                          *)

\* "the reviewed text enters only if it passes the guards" (brief-generate.ts
\* 276): whatever the reviewer returns and whichever half of it is kept, the
\* post has every link of the draft, and neither its text nor its title has a
\* number from nowhere: the title was judged on the text that goes out.
PostKeepsDraft ==
  stage = "done" =>
    /\ draft.text.links \subseteq text.links
    /\ text.numbers \subseteq draft.text.numbers \cup draft.sourced
    /\ text.title \subseteq draft.text.title \cup text.numbers \cup draft.sourced

\* As many different paragraphs as wanted and possible, those of the sections
\* the reviewer named before others.
PlanIsFull ==
  stage = "fill" =>
    LET at == Range(slots.at)
        named == Range(hints) \ {0}
    IN  /\ at \subseteq 1 .. Length
        /\ Cardinality(at) = Cardinality(DOMAIN slots.at)
        /\ Cardinality(at) = Least(slots.wanted, Length)
        /\ named \subseteq at \/ at \subseteq named

\* The images stay where they were chosen for although others failed or moved
\* to the cover, none is shown twice, an embed shares a paragraph only when
\* there are more of them than paragraphs, and nothing is public uncovered.
LaidOut ==
  stage = "done" =>
    LET own == Injected \cup {[image |-> NoImage, of |-> 0, at |-> 0]} IN
    /\ \A p \in Injected : p.at = p.of
    /\ \A p, q \in own : p # q /\ p.image # Generated => p.image # q.image
    /\ \A p \in Injected : p.image # Generated => p.image # featured
    /\ Cardinality({p.at : p \in Injected} \cup Range(embeds))
         = Least(Length, Cardinality(DOMAIN uploaded) + Cardinality(DOMAIN embeds))
    /\ post = "publish" /\ job.images => featured # NoImage

\* Images and embeds come where they were planned for, each of them once.
PostIsLaidOut == PlanIsFull /\ LaidOut
=============================================================================
