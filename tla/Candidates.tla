----------------------------- MODULE Candidates -----------------------------
(***************************************************************************)
(* The pictures of one article, from the searches to WordPress: what       *)
(* illustrateArticle finds and prepares for a slot, what the vision is     *)
(* shown and answers, and what illustratePost makes the cover. A candidate *)
(* is its address and who found it.                                        *)
(***************************************************************************)
EXTENDS Gallery, FiniteSets

CONSTANTS
  Pages,          \* og:image of the sources, in their order
  Web, Open,      \* what the two searches may find, in their order
  Score,          \* of an address, the words its title shares with the slot
  Sides,          \* of an address, what its picture is: "full", "body" or "bad"
  Official,       \* pictures of the sources tried first  (the code: 3)
  Keep,           \* candidates kept by their titles      (twice MaxCandidates)
  MaxCandidates,  \* pictures shown
  Few,            \* pictures shown after a failed call   (3)
  Inline          \* slots in the text

Elements(s) == {s[i] : i \in DOMAIN s}
Url == Elements(Pages) \cup Elements(Web) \cup Elements(Open)

CandidatesAssumption ==
  /\ Pages \in Seq(Url) /\ Web \in Seq(Url) /\ Open \in Seq(Url) /\ "none" \notin Url
  /\ Score \in [Url -> Nat]
  /\ Official \in Nat /\ Keep \in Nat /\ MaxCandidates \in Nat \ {0} /\ Few \in Nat
  /\ Inline \in Nat

VARIABLES
  pc,
  sources,   \* sourcePool
  slot,      \* 0 is the cover
  pool,      \* the candidates of the slot
  prepared,  \* those that were downloaded and are good enough
  retried,   \* the vision is asked again, with fewer
  used       \* addresses that no other slot takes

vars == <<pc, side, sources, slot, pool, prepared, retried, used, got, trying, cover, inline>>
ready == <<side, sources>>
found == <<pool, prepared, retried>>
uploads == <<trying, cover, inline>>

NoPicture == [slot |-> Inline + 1, url |-> "none", how |-> "none", approved |-> "none"]
Made(s) == [slot |-> s, url |-> "none", how |-> "made", approved |-> "none"]

\* The elements of s at the places of I, in their order.
InOrder(s, I) ==
  [k \in 1 .. Cardinality(I) |-> s[CHOOSE i \in I : Cardinality({j \in I : j <= i}) = k]]

Subsequences(s) == {InOrder(s, I) : I \in SUBSET DOMAIN s}
Except(s, urls) == InOrder(s, {i \in DOMAIN s : s[i].url \notin urls})
Found(by, urls) == [i \in DOMAIN urls |-> [url |-> urls[i], by |-> by]]
Urls(s) == {s[i].url : i \in DOMAIN s}

\* A page that fails, or has no picture, is passed over.
Init ==
  /\ pc = "search" /\ slot = 0
  /\ side \in Sides
  /\ \E s \in Subsequences(Pages) : sources = Found("source", s)
  /\ pool = <<>> /\ prepared = <<>> /\ retried = FALSE
  /\ used = {} /\ got = <<>>
  /\ trying = NoPicture /\ cover = NoPicture /\ inline = <<>>

-----------------------------------------------------------------------------
(* fillSlot                                                                *)

\* The web first: an address both have is the one of the web.
Combined(web, open) ==
  Found("web", web) \o Except(Found("open", open), Elements(web))

\* The best titles, in their order among equals.
Ranked(s) ==
  LET better(i, j) == \/ Score[s[i].url] > Score[s[j].url]
                      \/ Score[s[i].url] = Score[s[j].url] /\ i <= j
      best(k) == CHOOSE i \in DOMAIN s : Cardinality({j \in DOMAIN s : better(j, i)}) = k
  IN  IF Len(s) <= Keep THEN s ELSE [k \in 1 .. Keep |-> s[best(k)]]

FirstOf(s, n) == SubSeq(s, 1, IF Len(s) < n THEN Len(s) ELSE n)
Fresh(s) == Except(s, used)

\* The first of the sources, then the others.
Search ==
  /\ pc = "search" /\ slot <= Inline
  /\ pc' = "prepare"
  /\ \E web \in Subsequences(Web), open \in Subsequences(Open) :
       LET official == FirstOf(Fresh(sources), Official)
           rest == Except(Fresh(Combined(web, open)), Urls(official))
       IN  pool' = official \o Ranked(rest)
  /\ UNCHANGED <<ready, slot, prepared, retried, used, got, uploads>>

\* What is not delivered, or not good enough, leaves no gap.
Prepare ==
  /\ pc = "prepare"
  /\ \E failed \in SUBSET Urls(pool) :
       LET usable == InOrder(pool, {i \in DOMAIN pool :
                                      pool[i].url \notin failed /\ GoodEnough(pool[i], slot)}) IN
       /\ prepared' = FirstOf(usable, MaxCandidates)
       /\ pc' = IF usable = <<>> THEN "generate" ELSE "look"
  /\ UNCHANGED <<ready, slot, pool, retried, used, got, uploads>>

Shown == IF retried THEN FirstOf(prepared, Few) ELSE prepared

\* Mutant: the index is taken for one of the candidates found.
PickedOfPool(i) == pool[i]

\* The index, of what was shown, is the same of what was prepared.
Picked(i) == prepared[i]

NextSlot ==
  /\ slot' = slot + 1 /\ pc' = "search"
  /\ pool' = <<>> /\ prepared' = <<>> /\ retried' = FALSE

Take(i, approved) ==
  /\ got' = Append(got, [slot |-> slot, url |-> Picked(i).url, how |-> "seen", approved |-> approved])
  /\ used' = used \cup {Picked(i).url}
  /\ NextSlot
  /\ UNCHANGED <<ready, uploads>>

Approve == pc = "look" /\ \E i \in DOMAIN Shown : Take(i, Shown[i].url)

\* Number(null) is 0: no index, with no flag against it, is the first one.
ApproveNothing == pc = "look" /\ Take(1, "none")

\* -1, an index out of range, a flag against it.
Reject ==
  /\ pc = "look" /\ pc' = "generate"
  /\ UNCHANGED <<ready, slot, found, used, got, uploads>>

\* A call that fails is tried once more when there are enough pictures.
VisionFails ==
  /\ pc = "look"
  /\ IF ~ retried /\ Len(prepared) > Few THEN retried' = TRUE /\ UNCHANGED pc
     ELSE pc' = "generate" /\ UNCHANGED retried
  /\ UNCHANGED <<ready, slot, pool, prepared, used, got, uploads>>

\* The generator makes one for the slot, fails, or is not there.
Generate ==
  /\ pc = "generate"
  /\ \/ got' = Append(got, Made(slot))
     \/ UNCHANGED got
  /\ NextSlot
  /\ UNCHANGED <<ready, used, uploads>>

\* All slots are done, or checkBudget threw where the vision would be asked.
EndFilling ==
  /\ slot > Inline \/ (pc = "look" /\ ~ retried)
  /\ pc \in {"search", "look"} /\ pc' = "cover"
  /\ trying' = IF got # <<>> /\ Head(got).slot = 0 THEN Head(got) ELSE NoPicture
  /\ got' = InOrder(got, {i \in DOMAIN got : got[i].slot > 0})
  /\ slot' = Inline + 1 /\ used' = {} /\ pool' = <<>> /\ prepared' = <<>> /\ retried' = FALSE
  /\ UNCHANGED <<ready, cover, inline>>

-----------------------------------------------------------------------------
(* illustratePost                                                          *)

\* A cover that WordPress refuses gives way to the next picture of the text,
\* which was chosen as one of the text.
SendCover ==
  /\ pc = "cover"
  /\ \/ pc' = "inline" /\ cover' = trying /\ trying' = NoPicture /\ UNCHANGED got
     \/ /\ trying # NoPicture
        /\ IF got = <<>> THEN trying' = NoPicture /\ UNCHANGED got
           ELSE trying' = Head(got) /\ got' = Tail(got)
        /\ UNCHANGED <<pc, cover>>
  /\ UNCHANGED <<ready, slot, found, used, inline>>

SendInline ==
  /\ pc = "inline" /\ got # <<>>
  /\ got' = Tail(got)
  /\ inline' \in {inline, Append(inline, Head(got))}
  /\ UNCHANGED <<pc, ready, slot, found, used, trying, cover>>

Next ==
  \/ Search \/ Prepare \/ Approve \/ ApproveNothing \/ Reject \/ VisionFails \/ Generate
  \/ EndFilling \/ SendCover \/ SendInline

Spec == Init /\ [][Next]_vars
=============================================================================
