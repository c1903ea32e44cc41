------------------------------ MODULE Editorial ------------------------------
(***************************************************************************)
(* What handleBriefGenerate does between the draft of the pipeline and     *)
(* createPost: the editorial review, the plan of the images, their choice, *)
(* their upload, the embeds, and whether the post may be public. A text is *)
(* its links and its numbers; a paragraph is its position. An image is the *)
(* address a search found, or one made by a generator.                     *)
(***************************************************************************)
EXTENDS Drafts, Sequences, FiniteSetsExt

CONSTANTS
  Link, Number,   \* what a text may contain
  Image,          \* what the searches find
  Lengths,        \* how many paragraphs an article may have
  InlineMax,      \* images.inlineMax
  MaxTweets,      \* embeds.maxTweets
  Templates,      \* [review, images, generator, embeds, publish : BOOLEAN]
  MaxHints        \* bound: sections the reviewer names

EditorialAssumption ==
  /\ Lengths \subseteq Nat /\ InlineMax \in Nat /\ MaxTweets \in Nat /\ MaxHints \in Nat
  /\ NoImage \notin Image \cup {Generated} /\ Generated \notin Image

VARIABLES
  images,     \* what the slots got: first the cover
  used,       \* addresses no other slot may take
  queue,      \* the other images, in the order of the text
  exhausted   \* checkBudget throws

vars == <<stage, job, draft, text, hints, slots, images, used, featured, queue, uploaded, embeds,
          exhausted, post>>
review == <<draft, text, hints>>
pictures == <<slots, images, used>>
uploads == <<featured, queue, uploaded>>

Text == [links : SUBSET Link, numbers : SUBSET Number, title : SUBSET Number]
NoSlots == [wanted |-> 0, at |-> <<>>]

Init ==
  /\ stage = "review"
  /\ job \in Templates
  /\ \E t \in Text, s \in SUBSET Number, n \in Lengths :
       draft = [text |-> t, sourced |-> s, length |-> n]
  /\ text = draft.text
  /\ hints = <<>> /\ slots = NoSlots /\ images = <<>> /\ used = {}
  /\ featured = NoImage /\ queue = <<>> /\ uploaded = <<>> /\ embeds = <<>>
  /\ exhausted = FALSE /\ post = "none"

-----------------------------------------------------------------------------
(* The review                                                              *)

\* acceptRevision: no link is lost, no number is new.
Acceptable(r) ==
  /\ draft.text.links \subseteq r.links
  /\ r.numbers \subseteq draft.text.numbers \cup draft.sourced

AcceptableTitle(r) == r.title \subseteq draft.text.title \cup r.numbers \cup draft.sourced

\* Mutant: the title of a revision that is not accepted.
ReviewedTitleFirst(r, sound, fits) ==
  LET title == IF fits /\ AcceptableTitle(r) THEN r.title ELSE draft.text.title
  IN  IF sound /\ Acceptable(r) THEN [r EXCEPT !.title = title]
      ELSE [draft.text EXCEPT !.title = title]

\* sound: the form and the length of the revision; fits: of its title, and its
\* subject. The title is judged on the text that goes out.
Reviewed(r, sound, fits) ==
  IF sound /\ Acceptable(r)
  THEN [r EXCEPT !.title = IF fits /\ AcceptableTitle(r) THEN @ ELSE draft.text.title]
  ELSE draft.text

\* The suggestions for images are kept though the revision is not.
Hints == UNION {[1 .. k -> 0 .. Length] : k \in 0 .. MaxHints}

Review ==
  /\ stage = "review" /\ stage' = "illustrate"
  /\ \/ UNCHANGED <<text, hints>>        \* off, unavailable, failed, cut off
     \/ /\ job.review /\ ~ exhausted
        /\ \E r \in Text, sound \in BOOLEAN, fits \in BOOLEAN : text' = Reviewed(r, sound, fits)
        /\ hints' \in Hints
  /\ UNCHANGED <<job, draft, pictures, uploads, embeds, exhausted, post>>

-----------------------------------------------------------------------------
(* planInlineInsertions                                                    *)

Within(n, x) == Least(n, IF x < 1 THEN 1 ELSE x)

\* The sections the reviewer named, at most k.
Preferred(k, H) ==
  LET chosen[i \in 0 .. Len(H)] ==
        IF i = 0 THEN {}
        ELSE LET c == chosen[i - 1]
             IN  IF H[i] = 0 \/ Cardinality(c) >= k THEN c ELSE c \cup {H[i]}
  IN  chosen[Len(H)]

\* The first free paragraph from t on, else the last one before it.
FreeFrom(n, t, c) ==
  LET after == (t .. n) \ c before == (1 .. t) \ c
  IN  IF after # {} THEN {Min(after)} ELSE IF before # {} THEN {Max(before)} ELSE {}

\* The elements of s at the places of I, in their order.
InOrder(s, I) ==
  [k \in 1 .. Cardinality(I) |-> s[CHOOSE i \in I : Cardinality({j \in I : j <= i}) = k]]

\* The rest evenly over the text.
Plan(n, count, H) ==
  LET k == Least(count, n)
      first == Preferred(k, H)
      rest == k - Cardinality(first)
      chosen[i \in 0 .. rest] ==
        IF i = 0 THEN first
        ELSE LET c == chosen[i - 1]
             IN  c \cup FreeFrom(n, Within(n, Rounded(i * n, rest + 1)), c)
  IN  InOrder([p \in 1 .. n |-> p], chosen[rest])

\* Without a model that answers for the images the post goes on without them.
Illustrate ==
  /\ stage = "illustrate"
  /\ \/ /\ stage' = "embeds" /\ hints' = <<>> /\ UNCHANGED slots
     \/ /\ job.images
        /\ stage' = "fill" /\ UNCHANGED hints
        /\ \E suggested \in 0 .. InlineMax :
             LET count == Least(InlineMax, IF suggested < Len(hints) THEN Len(hints) ELSE suggested)
             IN  slots' = [wanted |-> count, at |-> Plan(Length, count, hints)]
  /\ UNCHANGED <<job, draft, text, images, used, uploads, embeds, exhausted, post>>

-----------------------------------------------------------------------------
(* illustrateArticle                                                       *)

Fresh == Image \ used

Filling == stage = "fill" /\ Len(images) <= Len(slots.at)
Got(x) == images' = Append(images, x)

\* The vision picks among the images found, or none will do and one is made;
\* a slot may stay empty.
FillSlot ==
  /\ Filling
  /\ \/ ~ exhausted /\ \E x \in Fresh : Got(x) /\ used' = used \cup {x}
     \/ job.generator /\ Got(Generated) /\ UNCHANGED used
     \/ Got(NoImage) /\ UNCHANGED used
  /\ UNCHANGED <<stage, job, review, slots, uploads, embeds, exhausted, post>>

\* What the slots of the text got, each with the paragraph it was chosen for.
Chosen ==
  InOrder([i \in 1 .. Len(images) - 1 |-> [image |-> images[i + 1], of |-> slots.at[i]]],
          {i \in 1 .. Len(images) - 1 : images[i + 1] # NoImage})

\* All slots are done, or the budget is spent where a model would be asked.
EndFilling ==
  /\ stage = "fill" /\ (Filling => exhausted)
  /\ stage' = "cover"
  /\ featured' = IF images = <<>> THEN NoImage ELSE images[1]
  /\ queue' = Chosen
  /\ hints' = <<>> /\ slots' = NoSlots /\ images' = <<>> /\ used' = {}
  /\ UNCHANGED <<job, draft, text, uploaded, embeds, exhausted, post>>

-----------------------------------------------------------------------------
(* illustratePost                                                          *)

\* A cover that WordPress refuses gives way to the next image of the text.
UploadCover ==
  /\ stage = "cover"
  /\ \/ stage' = "inline" /\ UNCHANGED <<featured, queue>>
     \/ /\ featured # NoImage
        /\ IF queue = <<>> THEN stage' = "inline" /\ featured' = NoImage /\ UNCHANGED queue
           ELSE stage' = "cover" /\ featured' = Head(queue).image /\ queue' = Tail(queue)
  /\ UNCHANGED <<job, review, pictures, uploaded, embeds, exhausted, post>>

UploadInline ==
  /\ stage = "inline"
  /\ IF queue = <<>> THEN stage' = "embeds" /\ UNCHANGED <<queue, uploaded>>
     ELSE /\ stage' = "inline" /\ queue' = Tail(queue)
          /\ \/ uploaded' = Append(uploaded, Head(queue))
             \/ UNCHANGED uploaded
  /\ UNCHANGED <<job, review, pictures, featured, embeds, exhausted, post>>

-----------------------------------------------------------------------------
(* Embeds                                                                  *)

\* A third of the way for the video, further down for the tweets.
Wanted(n, i) == Within(n, Rounded(n * (IF i = 0 THEN 35 ELSE IF i = 1 THEN 60 ELSE 85), 100))

Distance(a, b) == IF a < b THEN b - a ELSE a - b

\* The free paragraph nearest to t, forward first; t when none is free.
Nearest(n, t, taken) ==
  LET free == (1 .. n) \ taken
  IN  IF free = {} THEN t
      ELSE CHOOSE p \in free : \A q \in free :
             Distance(p, t) < Distance(q, t) \/ (Distance(p, t) = Distance(q, t) /\ p >= q)

\* kinds: 0 for the video, else the number of the tweet.
PlanEmbeds(n, kinds, avoid) ==
  LET planned[i \in 0 .. Len(kinds)] ==
        IF i = 0 THEN <<>>
        ELSE LET at == planned[i - 1]
             IN  Append(at, Nearest(n, Wanted(n, kinds[i]), avoid \cup Range(at)))
  IN  IF n < 2 THEN <<>> ELSE planned[Len(kinds)]

FindEmbeds ==
  /\ stage = "embeds" /\ stage' = "create"
  /\ \/ UNCHANGED embeds      \* off, nothing found, failed
     \/ /\ job.embeds /\ ~ exhausted
        /\ \E v \in 0 .. 1, t \in 0 .. MaxTweets :
             embeds' = PlanEmbeds(Length, [i \in 1 .. v + t |-> i - v], {p.at : p \in Injected})
  /\ UNCHANGED <<job, review, pictures, uploads, exhausted, post>>

-----------------------------------------------------------------------------
Mode == IF job.publish /\ (job.images => featured # NoImage) THEN "publish" ELSE "draft"

CreatePost ==
  /\ stage = "create" /\ stage' = "done" /\ post' = Mode
  /\ UNCHANGED <<job, review, pictures, uploads, embeds, exhausted>>

\* An exception that no stage catches, or WordPress refuses: no post.
Throws ==
  /\ stage \in {"illustrate", "fill", "cover", "inline", "create"} /\ stage' = "failed"
  /\ hints' = <<>> /\ slots' = NoSlots /\ images' = <<>> /\ used' = {}
  /\ featured' = NoImage /\ queue' = <<>>
  /\ UNCHANGED <<job, draft, text, uploaded, embeds, exhausted, post>>

\* Another delivery of the same run records its calls.
Exhaust ==
  /\ ~ exhausted /\ stage \in {"review", "fill", "embeds"}
  /\ exhausted' = TRUE
  /\ UNCHANGED <<stage, job, review, pictures, uploads, embeds, post>>

Next ==
  \/ Review \/ Illustrate \/ FillSlot \/ EndFilling \/ UploadCover \/ UploadInline
  \/ FindEmbeds \/ CreatePost \/ Throws \/ Exhaust

Spec == Init /\ [][Next]_vars
=============================================================================
