------------------------------ MODULE Outbound ------------------------------
(***************************************************************************)
(* The calls to WordPress, Tavily, the models and the image generator:     *)
(* fetchWithRetry under each client, what a client makes of a failure, and *)
(* the last use of a key that trackUsage records. A server may carry out a *)
(* request it does not answer, at once or after the client gave it up.     *)
(***************************************************************************)
EXTENDS Calls

CONSTANTS
  MaxCalls,    \* bound: calls made with one key
  MaxUnsure    \* bound: attempts that no client knows the end of

VARIABLES
  call,      \* the call under way, and the attempt of it
  throttle,  \* lastTouched: not again this minute
  marking    \* the write of touchCredential under way

OutboundAssumption == MaxCalls \in Nat

vars == <<call, kind, told, made, flight, unsure, refused, accepted, alts, writer, overtaken, throttle,
          marking, lastUsed, presumed>>
server == <<made, flight, writer, overtaken>>
history == <<kind, unsure, refused, accepted>>
usage == <<throttle, marking, lastUsed, presumed>>

Call == 1 .. MaxCalls
Kind == {"update", "create", "upload", "test", "search", "searchImages", "extract", "complete", "generate"}
Idle == [n |-> 0, kind |-> "none", step |-> "idle", attempt |-> 0, ok |-> FALSE]

Init ==
  /\ call = Idle
  /\ kind = [n \in Call |-> "none"] /\ told = [n \in Call |-> "none"]
  /\ made = [n \in Call |-> 0] /\ flight = [n \in Call |-> 0] /\ unsure = [n \in Call |-> 0]
  /\ refused = {} /\ accepted = {} /\ alts = {}
  /\ writer = 0 /\ overtaken = FALSE
  /\ throttle = FALSE /\ marking = FALSE /\ lastUsed = FALSE /\ presumed = FALSE

-----------------------------------------------------------------------------
(* fetchWithRetry                                                          *)

\* request: 3; the second request of an upload is updateMedia.
AttemptsOf(k) == IF k = "test" THEN 1 ELSE IF k \in {"update", "create", "alt", "search"} THEN 3 ELSE 2

Asking(n, k) == [n |-> n, kind |-> k, step |-> "sent", attempt |-> 1, ok |-> FALSE]

Ask ==
  \E n \in Call, k \in Kind :
    /\ call = Idle /\ kind[n] = "none" /\ \A m \in 1 .. n - 1 : kind[m] # "none"
    /\ kind' = [kind EXCEPT ![n] = k]
    /\ call' = Asking(n, k)
    /\ UNCHANGED <<told, server, unsure, refused, accepted, alts, usage>>

\* What the server does with it.
Done(n) ==
  /\ made' = [made EXCEPT ![n] = IF call.kind = "alt" /\ call.n = n THEN @ ELSE @ + 1]
  /\ writer' = IF kind[n] = "update" THEN n ELSE writer

Sent == call.step = "sent"

Accepted ==
  /\ Sent
  /\ Done(call.n)
  /\ call' = [call EXCEPT !.step = "ended", !.ok = TRUE]
  /\ accepted' = accepted \cup {call.n}
  /\ UNCHANGED <<kind, told, flight, unsure, refused, alts, overtaken, usage>>

\* Mutant: the error thrown within the try is caught with the others.
DefinitiveCaught(status) == status = "none"

\* isRetryableStatus: of the 4xx, 408 and 429 alone are asked again.
Definitive(status) == status = "4xx"

Again(status) ==
  call' = IF Definitive(status) \/ call.attempt = AttemptsOf(call.kind)
          THEN [call EXCEPT !.step = "ended"] ELSE [call EXCEPT !.attempt = @ + 1]

Refused ==
  /\ Sent
  /\ Again("4xx")
  /\ refused' = refused \cup {call.n}
  /\ UNCHANGED <<kind, told, server, unsure, accepted, alts, usage>>

\* Carried out, not, or later, when the client no longer waits.
Unanswered ==
  /\ Sent /\ unsure[call.n] < MaxUnsure
  /\ Again("5xx")
  /\ unsure' = [unsure EXCEPT ![call.n] = @ + 1]
  /\ \/ Done(call.n) /\ UNCHANGED flight
     \/ call.kind # "alt" /\ flight' = [flight EXCEPT ![call.n] = @ + 1] /\ UNCHANGED <<made, writer>>
     \/ UNCHANGED <<made, writer, flight>>
  /\ UNCHANGED <<kind, told, refused, accepted, alts, overtaken, usage>>

Late ==
  \E n \in Call :
    /\ flight[n] > 0
    /\ flight' = [flight EXCEPT ![n] = @ - 1]
    /\ made' = [made EXCEPT ![n] = @ + 1]
    /\ writer' = IF kind[n] = "update" THEN n ELSE writer
    /\ overtaken' = (overtaken \/ (kind[n] = "update" /\ n < writer))
    /\ UNCHANGED <<call, told, history, alts, usage>>

-----------------------------------------------------------------------------
(* The last use                                                            *)

\* At most one write a minute; a write that fails is tried with the next call.
Touch(used) ==
  /\ throttle' = (throttle \/ used) /\ marking' = (marking \/ (used /\ ~ throttle))
  /\ UNCHANGED lastUsed

Marked ==
  /\ marking /\ marking' = FALSE
  /\ \/ lastUsed' = TRUE /\ UNCHANGED throttle
     \/ throttle' = FALSE /\ UNCHANGED lastUsed
  /\ UNCHANGED <<call, told, server, history, alts, presumed>>

Minute ==
  /\ throttle /\ ~ marking /\ throttle' = FALSE
  /\ UNCHANGED <<call, told, server, history, alts, marking, lastUsed, presumed>>

-----------------------------------------------------------------------------
(* The clients                                                             *)

Ended(k) == call.kind = k /\ call.step = "ended"

Tell(v) == call' = Idle /\ told' = [told EXCEPT ![call.n] = v]

Result == IF call.ok THEN "ok" ELSE "thrown"

Request ==
  /\ Ended("update") \/ Ended("create")
  /\ Tell(Result) /\ Touch(call.ok)
  /\ UNCHANGED <<server, history, alts, presumed>>

\* The image is there; its text and caption are a request of their own.
Upload ==
  /\ Ended("upload")
  /\ IF call.ok THEN call' = Asking(call.n, "alt") /\ UNCHANGED <<told, throttle, marking, lastUsed>>
     ELSE Tell("thrown") /\ Touch(FALSE)
  /\ UNCHANGED <<server, history, alts, presumed>>

UpdateMedia ==
  /\ Ended("alt")
  /\ alts' = IF call.ok THEN alts \cup {call.n} ELSE alts
  /\ Tell(Result) /\ Touch(call.ok)
  /\ UNCHANGED <<server, history, presumed>>

\* The action writes the last use whatever the answer was.
Test ==
  /\ Ended("test")
  /\ Tell(IF call.ok THEN "ok" ELSE "error")
  /\ lastUsed' = TRUE /\ presumed' = (presumed \/ ~ call.ok)
  /\ UNCHANGED <<server, history, alts, throttle, marking>>

Search ==
  /\ Ended("search") \/ Ended("extract")
  /\ Tell(IF call.ok THEN "ok" ELSE "error") /\ Touch(call.ok)
  /\ UNCHANGED <<server, history, alts, presumed>>

\* The list is empty and has no error: it counts as a use.
SearchImages ==
  /\ Ended("searchImages")
  /\ Tell(IF call.ok THEN "ok" ELSE "empty") /\ Touch(TRUE)
  /\ presumed' = (presumed \/ ~ call.ok)
  /\ UNCHANGED <<server, history, alts>>

\* An error inside a good answer.
Complete ==
  /\ Ended("complete")
  /\ \E sound \in BOOLEAN :
       Tell(IF call.ok /\ sound THEN "ok" ELSE "thrown") /\ Touch(call.ok /\ sound)
  /\ UNCHANGED <<server, history, alts, presumed>>

\* A good answer without an image.
Generate ==
  /\ Ended("generate")
  /\ \E image \in BOOLEAN :
       Tell(IF call.ok /\ image THEN "ok" ELSE "thrown") /\ Touch(call.ok /\ image)
  /\ UNCHANGED <<server, history, alts, presumed>>

Next ==
  \/ Ask \/ Accepted \/ Refused \/ Unanswered \/ Late \/ Marked \/ Minute
  \/ Request \/ Upload \/ UpdateMedia \/ Test \/ Search \/ SearchImages \/ Complete \/ Generate

Spec == Init /\ [][Next]_vars
=============================================================================
