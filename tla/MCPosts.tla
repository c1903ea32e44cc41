------------------------------ MODULE MCPosts -------------------------------
(***************************************************************************)
(* What makes a post, what is seen of it and what changes it, each         *)
(* component on an instance of its own: the generation of a brief, the     *)
(* topics that must not be covered twice, the pipeline for one post of     *)
(* every job and for the posts of one budget, the review of a text, its    *)
(* images and embeds, the pictures that are found for it, the calls to     *)
(* other services, the log and the dialog of a run, the text editor, the   *)
(* dialog of an image. A behaviour is one of one of them, the others stay  *)
(* where they start.                                                       *)
(***************************************************************************)
EXTENDS BriefGeneration, Coverage, Gallery, Backing, Panel, Calls, Drafts

CONSTANTS g1, h1, h2, h3, i1, i2, i3, v1, v2, a1, n1, n2, m1, m2

VARIABLES
  part,                                                   \* the component that runs
  wFlushes, wPolls, wTracks, \* RunWatch
  tFlushes, tPolls, tTracks, \* and two dialogs
  dTitles, dGen, dAgain, \* Topics, discoveries
  gTitles, gGen, gAgain, \* Topics, generations
  oCall, oThrottle, oMarking, \* Outbound
  cPc, cSources, cSlot, cPool, cPrepared, cRetried, cUsed, \* Candidates
  pKept, pLast, pSpent, pRecorded, pLost, pFaults, \* Pipeline, one post
  bConf, bIt, bKept, bLast, bFaults, \* Pipeline, one budget
  rImages, rUsed, rQueue, rExhausted, \* Editorial, the text
  lImages, lUsed, lQueue, lExhausted, \* Editorial, the layout
  xPage, xScreen, xAlive, xOriginal, xEdits, xTitle, xEditing, xLoad, xTyped, xSpent, \* TextEditor
  iPage, iDialog, iRunning, iLoad, iSpent \* ImageDialog

\* One dialog, the log and its failures.
W == INSTANCE RunWatch WITH
       Post <- {g1}, Window <- 1, MaxErrors <- 2, MaxFlushes <- 2, MaxTracks <- 1, MaxLost <- 1,
       status <- state, lost <- dropped, flushes <- wFlushes, polls <- wPolls, tracks <- wTracks

\* A dialog that goes from one run to the other.
T == INSTANCE RunWatch WITH
       Post <- {g1}, Window <- 1, MaxErrors <- 1, MaxFlushes <- 1, MaxTracks <- 2, MaxLost <- 0,
       status <- state, lost <- dropped, flushes <- tFlushes, polls <- tPolls, tracks <- tTracks

\* Words 1 2, 1 2 3 and 2 3 are near one another but for the first and the
\* last; 3 is unlike the first and somewhat like the others.
SomeTopics == {{1, 2}, {1, 2, 3}, {2, 3}, {3}}

D == INSTANCE Topics WITH
       Brief <- {h1}, Topic <- SomeTopics \ {{3}}, PerCycle <- 2, MaxFound <- 2, MaxCycles <- 2,
       MaxAgain <- 0, titles <- dTitles, gen <- dGen, again <- dAgain

G == INSTANCE Topics WITH
       Brief <- {h1, h2, h3}, Topic <- SomeTopics, PerCycle <- 1, MaxFound <- 1, MaxCycles <- 0,
       MaxAgain <- 1, titles <- gTitles, gen <- gGen, again <- gAgain

O == INSTANCE Outbound WITH
       MaxCalls <- 2, MaxUnsure <- 3, call <- oCall, throttle <- oThrottle, marking <- oMarking

\* A page with one picture, which the web may find too; two searches that may
\* find the same one; room for two candidates.
C == INSTANCE Candidates WITH
       Pages <- <<"s">>, Web <- <<"w", "v", "s">>, Open <- <<"v", "o">>,
       Score <- [s |-> 1, w |-> 0, v |-> 1, o |-> 1],
       Sides <- {[s |-> a, w |-> b, v |-> "full", o |-> "full"] :
                   a \in {"full", "body"}, b \in {"body", "bad"}},
       Official <- 1, Keep <- 2, MaxCandidates <- 2, Few <- 1, Inline <- 2,
       pc <- cPc, sources <- cSources, slot <- cSlot, pool <- cPool, prepared <- cPrepared,
       retried <- cRetried, used <- cUsed

\* Every job: the saving profile is of updates, the block alone is refreshed by
\* the profile. An update that may skip unchanged sources does all that one which
\* may not does.
AnyJob ==
  {c \in [update : BOOLEAN, eco : BOOLEAN, skip : BOOLEAN, widget : BOOLEAN, extract : BOOLEAN] :
     (c.eco => c.update) /\ (c.skip <=> c.update) /\ (c.widget => c.eco)}
AJob == [update |-> TRUE, eco |-> FALSE, skip |-> FALSE, widget |-> FALSE, extract |-> TRUE]

P == INSTANCE Pipeline WITH
       Target <- {i1}, Value <- {v1, v2}, Counts <- 0 .. 2, Workers <- 1, Budget <- 2,
       CallsOfAPost <- 3, Configs <- AnyJob, MaxTries <- 2, MaxFaults <- 1, kept <- pKept,
       last <- pLast, spent <- pSpent, recorded <- pRecorded, lost <- pLost, faults <- pFaults

B == INSTANCE Pipeline WITH
       Target <- {i1, i2, i3}, Value <- {}, Counts <- {2}, MinSources <- 2, Configs <- {AJob},
       MaxTries <- 1, MaxFaults <- 1, conf <- bConf, it <- bIt, kept <- bKept, last <- bLast,
       faults <- bFaults

\* What the theorems about them assume.
ASSUME PipelineAssumptions == P!PipelineAssumption /\ B!PipelineAssumption
ASSUME WatchAssumptions == W!WatchAssumption /\ T!WatchAssumption
ASSUME CallsAssumption == O!OutboundAssumption
ASSUME CoverageAssumptions == D!TopicsAssumption /\ G!TopicsAssumption
ASSUME PicturesAssumption == C!CandidatesAssumption

Reviewed == {[review |-> TRUE, images |-> FALSE, generator |-> FALSE, embeds |-> FALSE, publish |-> TRUE]}
Illustrated == [review : {TRUE}, images : BOOLEAN, generator : BOOLEAN, embeds : BOOLEAN, publish : BOOLEAN]

R == INSTANCE Editorial WITH
       Link <- {a1}, Number <- {n1, n2}, Image <- {}, Lengths <- {1}, InlineMax <- 0,
       MaxTweets <- 0, Templates <- Reviewed, MaxHints <- 0, images <- rImages, used <- rUsed,
       queue <- rQueue, exhausted <- rExhausted

L == INSTANCE Editorial WITH
       Link <- {}, Number <- {}, Image <- {m1, m2}, Lengths <- {0, 1, 2, 4}, InlineMax <- 2,
       MaxTweets <- 2, Templates <- Illustrated, MaxHints <- 2, images <- lImages, used <- lUsed,
       queue <- lQueue, exhausted <- lExhausted

ASSUME EditorialAssumptions == R!EditorialAssumption /\ L!EditorialAssumption

X == INSTANCE TextEditor WITH
       Paragraph <- {"p", "q"}, Segments <- {{"p", "q"}}, Text <- {"a", "b"}, Blank <- "blank",
       Title <- {"old", "new"}, MaxTyped <- 2, MaxForeign <- 1, MaxLoads <- 1, MaxSaves <- 2,
       page <- xPage, screen <- xScreen, alive <- xAlive, original <- xOriginal,
       edits <- xEdits, title <- xTitle, editing <- xEditing, load <- xLoad, typed <- xTyped,
       spent <- xSpent

ASSUME EditorAssumption == X!TextAssumption

I == INSTANCE ImageDialog WITH
       Slot <- {"cover", "inline"}, Cover <- "cover",
       First <- [s \in {"cover", "inline"} |-> IF s = "cover" THEN "c" ELSE "i"],
       File <- {"f"}, Address <- {"u"}, Other <- {"o"}, NoImage <- "none", MaxSteps <- 3,
       MaxSubmits <- 2, page <- iPage, dialog <- iDialog, running <- iRunning, load <- iLoad,
       spent <- iSpent

seen == <<state, said, stored, batch, buffer, dropped, tracked, loaded>>
watch == <<wFlushes, wPolls, wTracks>>
twice == <<tFlushes, tPolls, tTracks>>
found == <<dTitles, dGen, dAgain>>
guarded == <<gTitles, gGen, gAgain>>
topics == <<status, subject, rows, disc, cycles>>
calls == <<kind, told, made, flight, unsure, refused, accepted, alts, writer, overtaken, lastUsed,
           presumed, oCall, oThrottle, oMarking>>
pictures == <<side, got, trying, cover, inline, cPc, cSources, cSlot, cPool, cPrepared, cRetried,
              cUsed>>
onePost == <<conf, it, pKept, pLast, pSpent, pRecorded, pLost, pFaults>>
budget == <<bConf, bIt, bKept, bLast, spent, recorded, lost, bFaults>>
draftOf == <<stage, job, draft, text, hints, slots, featured, uploaded, embeds, post>>
words == <<rImages, rUsed, rQueue, rExhausted>>
layout == <<lImages, lUsed, lQueue, lExhausted>>
editor == <<article, request, began, foreign, blurred, xPage, xScreen, xAlive, xOriginal, xEdits,
            xTitle, xEditing, xLoad, xTyped, xSpent>>
dialog == <<images, change, strayed, iPage, iDialog, iRunning, iLoad, iSpent>>
all == <<part, vars, seen, watch, twice, found, guarded, topics, calls, pictures, onePost, budget, draftOf, words, layout, editor, dialog>>

MCInit ==
  /\ Init
  /\ part \in {"generation", "watch", "twice", "found", "guarded", "calls", "pictures", "post",
              "budget", "words", "layout", "editor", "dialog"}
  /\ W!Init /\ T!Init /\ O!Init /\ C!Init
  /\ IF part = "guarded"
     THEN G!Init /\ dTitles = {} /\ dGen = [b \in {h1} |-> "idle"] /\ dAgain = 0
     ELSE /\ D!Init /\ (part # "found" => dTitles = {})
          /\ gTitles = {} /\ gGen = [b \in {h1, h2, h3} |-> "idle"] /\ gAgain = 0
  /\ (part # "pictures" => cSources = <<>> /\ side.s = "full" /\ side.w = "bad")
  /\ P!Init /\ (part # "post" => conf = [AJob EXCEPT !.skip = TRUE])
  /\ B!Init
  /\ IF part = "layout"
     THEN L!Init /\ rImages = <<>> /\ rUsed = {} /\ rQueue = <<>> /\ rExhausted = FALSE
     ELSE /\ R!Init /\ lImages = <<>> /\ lUsed = {} /\ lQueue = <<>> /\ lExhausted = FALSE
          /\ part # "words" => draft.sourced = {} /\ draft.text = [x \in DOMAIN draft.text |-> {}]
  /\ X!Init /\ article = [text |-> [p \in {"p", "q"} |-> "a"], title |-> "old"]
  /\ I!Init

GenerationStep == part = "generation" /\ Next
  /\ UNCHANGED <<part, seen, watch, twice, found, guarded, topics, calls, pictures, onePost, budget, draftOf, words, layout, editor, dialog>>
WatchStep == part = "watch" /\ W!Next
  /\ UNCHANGED <<part, vars, twice, found, guarded, topics, calls, pictures, onePost, budget, draftOf, words, layout, editor, dialog>>
TrackStep == part = "twice" /\ T!Next
  /\ UNCHANGED <<part, vars, watch, found, guarded, topics, calls, pictures, onePost, budget, draftOf, words, layout, editor, dialog>>
DiscoverStep == part = "found" /\ D!Next
  /\ UNCHANGED <<part, vars, seen, watch, twice, guarded, calls, pictures, onePost, budget, draftOf, words, layout, editor, dialog>>
GuardStep == part = "guarded" /\ G!Next
  /\ UNCHANGED <<part, vars, seen, watch, twice, found, calls, pictures, onePost, budget, draftOf, words, layout, editor, dialog>>
CallStep == part = "calls" /\ O!Next
  /\ UNCHANGED <<part, vars, seen, watch, twice, found, guarded, topics, pictures, onePost, budget, draftOf, words, layout, editor, dialog>>
PictureStep == part = "pictures" /\ C!Next
  /\ UNCHANGED <<part, vars, seen, watch, twice, found, guarded, topics, calls, onePost, budget, draftOf, words, layout, editor, dialog>>
PipelineStep == part = "post" /\ P!Next
  /\ UNCHANGED <<part, vars, seen, watch, twice, found, guarded, topics, calls, pictures, budget, draftOf, words, layout, editor, dialog>>
BudgetStep == part = "budget" /\ B!Next
  /\ UNCHANGED <<part, vars, seen, watch, twice, found, guarded, topics, calls, pictures, onePost, draftOf, words, layout, editor, dialog>>
ReviewStep == part = "words" /\ R!Next
  /\ UNCHANGED <<part, vars, seen, watch, twice, found, guarded, topics, calls, pictures, onePost, budget, layout, editor, dialog>>
LayoutStep == part = "layout" /\ L!Next
  /\ UNCHANGED <<part, vars, seen, watch, twice, found, guarded, topics, calls, pictures, onePost, budget, words, editor, dialog>>
EditorStep == part = "editor" /\ X!Next
  /\ UNCHANGED <<part, vars, seen, watch, twice, found, guarded, topics, calls, pictures, onePost, budget, draftOf, words, layout, dialog>>
DialogStep == part = "dialog" /\ I!Next
  /\ UNCHANGED <<part, vars, seen, watch, twice, found, guarded, topics, calls, pictures, onePost, budget, draftOf, words, layout, editor>>

MCNext ==
  \/ GenerationStep \/ WatchStep \/ TrackStep \/ DiscoverStep \/ GuardStep \/ CallStep
  \/ PictureStep \/ PipelineStep \/ BudgetStep \/ ReviewStep \/ LayoutStep \/ EditorStep
  \/ DialogStep

MCSpec == MCInit /\ [][MCNext]_all
=============================================================================
