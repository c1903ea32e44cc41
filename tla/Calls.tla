-------------------------------- MODULE Calls --------------------------------
(***************************************************************************)
(* What a client tells of a call to another service, beside what the       *)
(* server did: the promise of Outbound to those who call it.               *)
(***************************************************************************)
EXTENDS Naturals

VARIABLES
  kind,       \* of each call, what it asks
  told,       \* what its caller was told
  made,       \* how many times the server carried it out
  flight,     \* attempts given up that it may still carry out
  unsure,     \* attempts that ended with no answer, 408, 429 or 5xx
  refused,    \* calls refused for good
  accepted,   \* calls answered with success
  alts,       \* uploads with their alternative text and caption
  writer,     \* the call that wrote the post last
  overtaken,  \* an attempt given up went over a later write
  lastUsed,   \* credentials.last_used_at
  presumed    \* ... by a test of the site, or a search of images that failed

\* A refusal for good is the answer (fetch-retry.ts 24): it is not asked again
\* until it succeeds. A call is carried out more than once only when an attempt
\* of it was left unanswered, and a caller told so is right: the post has what
\* it wrote or something later, unless an attempt given up landed late, an image
\* has its text. A key is shown as used only when an answer with success was had
\* with it, or presumed.
CallsAreHonest ==
  /\ \A n \in DOMAIN told :
       /\ told[n] = "ok" => n \notin refused /\ made[n] > 0
       /\ made[n] + flight[n] <= unsure[n] + (IF n \in accepted THEN 1 ELSE 0)
       /\ told[n] = "ok" /\ kind[n] = "update" => writer >= n \/ overtaken
       /\ told[n] = "ok" /\ kind[n] = "upload" => n \in alts
  /\ lastUsed => accepted # {} \/ presumed
=============================================================================
