# Verification of Content Pilot

Content Pilot keeps the posts of WordPress sites up to date and writes new ones with
language models. A Next.js panel (`apps/web`) and a worker (`apps/worker`) share one
PostgreSQL database and one pg-boss queue that lives in it; the algorithms are in
`packages/core`, the tables in `packages/db`. This directory holds TLA+ models of the
parts whose correctness depends on the order in which people, processes and services act,
the TLC runs that check them on small instances, and TLAPS proofs for all instances.

`PROJECT.json` is the machine-readable index: components, runs, mutants, the source
lines behind every definition, findings, hazards and theorems.

## Inventory

| Part | State it keeps | Operations | Interacts with | Modules |
|---|---|---|---|---|
| Update runs: `job.run`, `post.process`, `maybeFinalizeRun`, `actions/runs.ts` | `runs`, `run_items`, `post_source_state`, the queue, the posts in WordPress | list and fan out, process a post, close a run, stop, retry an item, undo | queue messages, shared rows, WordPress | `UpdateRun`, `RunLedger` |
| Content pipeline | locals of one call, `llm_calls`, the sources kept with a failure | sources, pre-check, write, verify, validate, repair | budget guard between paid calls | `Pipeline`, `Backing` |
| Scheduler tick, dates of jobs and autopilots | `next_run_at` | move the date, insert the run, send its message, cancel a refused run | opens update and discovery runs | `Scheduler` |
| Brief generation, briefs (panel) | `briefs`, `runs`, the WordPress post | enqueue, generate, publish, edit, regenerate, delete | queue, WordPress, plan guard, autopilot | `BriefGeneration` |
| Review, images and embeds of a new post | locals of one generation | review, plan, fill, upload, embed, create | pipeline before, WordPress after | `Editorial`, `Drafts`, `Candidates`, `Gallery` |
| Autopilot | `autopilot_configs`, `discovered_topics`, `briefs`, daily cap | discover, keep, generate now, dismiss, delete | scheduler, brief generation | `Autopilot` |
| What is already covered | topics, titles, briefs | normalise, compare, ask, keep; the guard of a generation | discovery and generation | `Topics`, `Coverage` |
| Edits of a published article | the post and the image report of a brief | edit text, replace an image, regenerate an image | panel and worker on one post | `ArticleEdit`, `TextEditor`, `ImageDialog`, `Panel` |
| Plan guard | counts over `runs`, `sites` | check a quota before work | every paid operation (check, then act) | `PlanGuard`, `Limits` |
| Stripe webhook | `subscriptions` | checkout, one handler per event | events arrive twice and out of order | `StripeWebhook`, `Subscription` |
| Configuration cache | one copy per process, a version row | read, renew, load, invalidate | admin actions bump the version in a transaction | `ConfigCache` |
| Accounts and sessions | `users`, `auth_tokens`, cookies | register, issue and use a link, change the password, log in, moderate; middleware and layouts | browser, e-mail | `Accounts`, `Credentials` |
| Rate limiter | one row per counter and window | prune, reserve | log-in, registration, reset | `RateLimiter`, `Limits` |
| Keys, models, settings, catalogue | `credentials`, `workspace_ai_settings`, profiles, `model_catalog` | resolve a key and a model, save settings, sync the catalogue; readiness | worker and panel decide apart | `ModelAccess`, `Access` |
| Templates | `content_templates` | clone, edit on tabs or as JSON, save, delete | jobs and briefs use them | `Templates`, `TemplateConfig` |
| Log and progress of a run | `run_logs`, the state of the dialog | buffer, flush, poll, derive the stages | worker, server, dialog | `RunWatch`, `Panel` |
| Calls to other services | one request and its attempts, `last_used_at` | retry, time out, report | WordPress, Tavily, models | `Outbound`, `Calls` |
| Dialogs that make and edit | state of a component, text boxes, the drawn page | open, choose, type, submit | rows others change | `Forms`, `Dialog` |
| Sources and search, vault, e-mail, pages | little or none | requests, rendering | used by the above | none of their own |

What is hard here: a run is closed by counting rows that several handlers insert at
the same time; messages are delivered at least once, in batches, and a delivery that
times out leaves its handler running; WordPress and PostgreSQL are written one after
the other with no transaction around both; the panel stops, deletes and edits what the
worker is working on; everything is checked first and done later; the panel and the worker
decide the same question with code of their own; and a dialog holds what it read while the
page is drawn again under it. `PROJECT.json` lists forty such places with their lines.

What makes each part correct, and where it is stated:

| Part | Promise | Property |
|---|---|---|
| update runs | no post is dropped or counted twice, a closed run tells the truth about its items and stays closed, a post is not skipped unless it was published, an item says `updated` only of a written post, a write can be undone, every run that reached the queue ends | `OneItemPerPost`, `ClosedRunIsRight`, `KeepsLedger`, `SkippedWasProcessed`, `UpdatedWasWritten`, `WritesCanBeUndone`, `EverySentRunCloses` |
| pipeline | a value no source has is not published; the budget is exceeded by the posts under way at most | `PublishedIsBacked`, `SpendBounded` |
| briefs | one post per brief, no post public against the row, what was delivered stays, a success has its post, every generation ends and lets go of its brief | `OnePostPerBrief`, `PublishedIsPublic`, `DeliveredStays`, `SuccessHasPost`, `SuccessMeansDelivered`, `ClosedStaysClosed`, `EveryGenerationSettles` |
| new posts | the review loses no link and adds no number; images and embeds come where they were planned, each once; a picture is one the vision judged | `PostKeepsDraft`, `PostIsLaidOut`, `PicturesAreJudged` |
| scheduler | a date that passed in a pause is not made up for but in one order of two requests, no run nobody closes, what is due is started | `NothingIsLeftOver`, `DueIsServed` |
| autopilot | the daily cap and one post a topic, across redelivery, overruns, crash and the panel, with what each of these may add; every discovery that is delivered ends; no topic twice | `AsManyAsAllowed`, `EveryDiscoveryCloses`, `TopicsStayApart` |
| article edits | an edit erases no swap and no swap an edit, nothing goes over a text nobody saw, a caption goes with its image, every swap ends | `SwapsAreProtected`, `EditsReplaceWhatWasSeen`, `EverySwapCloses` |
| plan guard, rate limiter | concurrency exceeds a limit by what is under way at most; a refusal has a cause | `LimitsHold` |
| Stripe | the plan shown is the plan paid | `ChargedAsPaid` |
| configuration cache | nothing served was replaced two TTLs ago (the code says one) | `StalenessBounded` |
| accounts | links work once, a newer one voids them, an old password ends its sessions; pages follow the account as it is now; a browser arrives | `OldCredentialsEnd`, `PagesFollowTheAccount`, `BrowserSettles` |
| keys and models | what the panel lets run finds the key and the model the panel judged | `PanelKnowsWorker` |
| templates | what the tabs show once saved is what the worker does | `TemplatesKeepTheirWord` |
| log and dialog | the log is whole; "done" is said of what has ended | `PanelTellsTheRun` |
| calls | what a caller is told is so | `CallsAreHonest` |
| forms | a save keeps what the user did not touch | `FormsKeepWhatIsThere` |

## Modules

One module per component, named in the table above. Besides them:

| Module | What it is |
|---|---|
| `RunLedger` | what an update run promises to the reader of the Runs page; `UpdateRun` implements it (`KeepsLedger`) |
| `Credentials` | the session of a browser, middleware and layouts, and what both must be true of; `Accounts` extends it by the account, its links and the requests that change them |
| `Backing` | what must be true of a draft before it is published, and of what a run has spent; `Pipeline` extends it |
| `Drafts` | what the review may make of a draft, and where its images and embeds are; `Editorial` extends it by the steps |
| `Coverage` | what is covered, and that nothing is twice; `Topics` extends it by the discovery and the guard |
| `Gallery` | the pictures chosen for an article, and what must be true of them; `Candidates` extends it by the searches, the vision and the uploads |
| `Calls` | what a caller is told of a call, beside what the server did; `Outbound` extends it by the attempts |
| `Access` | which key and model a step gets, as the worker and as the panel decide it; `ModelAccess` extends it by what changes the tables |
| `TemplateConfig` | a template as the tabs show it and as the worker reads it; `Templates` extends it by the editor and the rows |
| `Dialog` | what a dialog over a row shows and saves; `Forms` extends it by the user and the page |
| `Subscription` | the plan of a workspace, what its subscriptions pay for, and what must be true of both; `StripeWebhook` extends it by Stripe and the handlers |
| `Panel` | what a user can rely on who watches a run, or edits a published article, of the state of `RunWatch`, `TextEditor` and `ImageDialog`, side by side: `MCPosts` and `ArticleEditProofs` extend it and instantiate the three over its variables |
| `Schedule` | what the dates and the open runs of the scheduler must keep; `Scheduler` extends it by the tick and the panel |
| `Limits` | what the guards of a plan (`PlanGuard`) and the limiter (`RateLimiter`) must keep, side by side: `MCPlatform` and `BillingProofs` extend it and instantiate the two over its variables |
| `MCPosts` | `BriefGeneration` and what makes a post: `Pipeline` twice, `Topics` twice, `Outbound`, `Candidates`, `Editorial` twice, `RunWatch` twice, `TextEditor`, `ImageDialog` |
| `MCPlatform` | `ConfigCache`, `Accounts`, `StripeWebhook`, `PlanGuard`, `RateLimiter`, `ModelAccess`, `Forms` twice, `Templates` twice |
| `MCContent` | `Autopilot`, `Scheduler`, and the pages of `Credentials` |
| `UpdateRunProofs`, `BriefGenerationProofs`, `AutopilotProofs`, `ConfigCacheProofs`, `AccountsProofs`, `PipelineProofs`, `ArticleEditProofs`, `BillingProofs` | theorems and proofs |

Components that share no state in the code are checked in one run as a sum: `part` says which
instance moves, the others stay where they start. That is a disjoint union of their state
graphs, not a product, so a run answers for each of them what a run of its own would. A
component is instantiated twice where one instance is deep (few things, many steps) and the
other wide (many things, few steps); the two share the variables their promise is about, and which
of them starts there depends on `part`. What the components hand one another is in the modules
that compose them: the generation is in `Autopilot` and `Topics` as far as they need it, the
autopilot's messages in `Scheduler`, the pipeline's outcomes in `UpdateRun`
and `BriefGeneration`.

### UpdateRun and the code

An action is the code of a handler between two points where another process can see or
change shared state: one statement or one WordPress call, with the local work around it.

| Variable | In the code |
|---|---|
| `run` | `runs` rows; `listed` and `by` are history (which posts `expected_items` counts, who closed the run) |
| `items` | `run_items` rows; an item names the delivery that inserted it |
| `queue`, `held` | pg-boss messages with state and deliveries; what a worker loop has fetched |
| `pc`, `mem` | where each delivery of a message is in its handler, and its locals |
| `wp`, `wrote` | which run wrote the content a post holds; history of writes |
| `hash`, `processed` | `post_source_state`; history of what was published or found up to date |
| `live`, `wsActive` | jobs not deleted, workspace status |
| `opener`, `stopping`, `deleting` | panel or scheduler requests between two of their statements |

| Code | Actions |
|---|---|
| `handleSchedulerTick`, `runJobNowAction`, `retryRunItemAction` | `OpenRun`, `RetryItem`, `SendOpener`, `CancelRefused` |
| `handleJobRun` | `CheckRun`, `LoadJob`, `GiveUp`, `ListPosts`, `CloseEmpty`, `SendPost` |
| `handlePostProcess` | `CheckItem`, `CheckRun`, `LoadJob`, `PreflightFails`, `ReadPost`, `RunPipeline`, `WritePost`, `SaveHash`, `Record`, and `Caught` for its catch |
| `maybeFinalizeRun` | `FinRun`, `FinItems`, `FinClose` |
| `cancelRunAction`, `restoreRunItemAction`, `deleteJobAction` | `CancelRun`, `CancelMessages`, `RestoreItem`, `CheckDelete`, `DeleteJob` |
| worker loops of `index.ts`, pg-boss | `Fetch`, `Settle`, `TimeOut`, `Expire`, `Crash` |

The environment is a parameter. `Env` names what may happen besides the normal course:
`crash` (the worker dies), `overrun` (a batch outlives `expireInSeconds` and its handlers
run on), `db` (a statement fails), `drift` (WordPress lists other posts on the next
delivery), `dup` (the queue accepts a message whose `singletonKey` waits or runs),
`suspend`, `delete`, `cancel`, `retry`, `restore` (panel). Whether pg-boss refuses a key
depends on the policy of the queue, which the code leaves at its default: the code reads a
null from `send` as a refusal, and both answers are modelled.

Abstractions: a post's content is the run that wrote it; a pipeline is its outcome (what it
does inside is `Pipeline`); two selects of a set that only grows are one step; the select and
the cancel of the messages of a stopped run are one step (a message fetched in between belongs
to a run that is already cancelled, so its handler returns at `CheckRun`). An item keeps the
job it was recorded under. `runs.job_id` of a deleted job becomes null in the database; here
the row keeps the job and `live` says that it is gone.

### BriefGeneration and the code

| Variable | In the code |
|---|---|
| `brief` | `briefs` rows: `status`, `publishMode`, `createdWpPostId` (here the delivery that created the post) |
| `run` | `runs` rows of kind `create`; `by` is history |
| `items` | `run_items` rows; an item names the delivery that inserted it and the block it came from |
| `queue`, `held` | the `brief.generate` messages; the one message the worker loop holds |
| `pc`, `mem` | where each delivery is in `handleBriefGenerate`, and its locals |
| `site` | posts in WordPress, with status and cover |
| `opener`, `stopping`, `checked`, `going` | requests of the panel between two of their statements |

| Code | Actions |
|---|---|
| `createBriefAction`, `regenerateBriefAction` with `enqueueBriefGeneration` | `CreateBrief`, `Regenerate`, then `OpenRun`, `SendRun`, `CancelRefused` |
| `updateBriefAction`, `publishBriefAction`, `deleteBriefAction` | `UpdateBrief`, `PublishPost` and `PublishRow`, `DeleteBrief`; `Check` and `Passed` for what they ask first |
| `cancelRunAction` | `CancelRun`, `CancelMessage` |
| `handleBriefGenerate` | `CheckRun`, `LoadBrief`, `ExpectOne`, `CheckPlan`, `MarkGenerating`, `RunPipeline`, `CreatePost`, `Record`, `UpdateRow`; `Fail`, `FailBrief` for `fail()` |
| `maybeFinalizeRun` | `Count`, `Close` |
| worker loop, pg-boss | `Fetch`, `Settle`, `TimeOut`, `Expire`, `Crash`, `StatementFails` |

`Env` again names what may happen: `crash`, `overrun`, `db` (a statement fails), `lost` (a
WordPress call fails although it was carried out), `suspend` (a delivery finds its workspace
suspended and throws), `slow` (a request acts on what it read some time ago), `keyed` and
`dup` (the queue refuses a second message of a brief, or takes it), `twice` (with `slow`: a user
asks twice at once to generate a brief again), and the requests `cancel`, `edit`, `regenerate`,
`publish`, `delete`. A request to generate again carries the run it will open, so that two of
them are two.

Abstractions: the pipeline, the review, the images and the embeds are one step with an
outcome (they are `Pipeline`, `Editorial`, `Candidates`); `cover` says that no cover was asked
for or that there is one (`!coverMissing`); a brief's texts, sources and tokens are left out.
The runs use one brief: briefs meet only in the worker loop, which serves one message at a
time, and in the topic guard, which is an outcome (`refused`) here and a comparison in
`Topics`. A request of the panel that has inserted its run goes on to the end: its death in
between is in `Scheduler` and `Autopilot`.

### The other modules: abstractions

| Module | State and data | Left out, or excepted by name |
|---|---|---|
| `Pipeline` | a value is a code or coupon of the two verbatim lists; a paid call is one token | prompts, tokens of one call, search ranking. `lost` counts the calls of exceptions, which the code does not record |
| `Editorial` | a text is its links and numbers, a paragraph its position | a title's style, the wording of the report |
| `Candidates` | a candidate is an address and who found it | `Keep`, `Few`, `Official` are scaled down (the code: twice the candidates, 3, 3). An answer of the vision without an index counts as the first picture, as in the code (a finding) |
| `Scheduler` | a date is in the future, due, or missed in a pause; a request of the panel holds what its select read, date included | the meaning of a cron expression. `crossed` marks an entry to which an update that had read it paused gave back, after its resumption, the date it had missed (a finding) |
| `Autopilot` | a topic is its row and its brief; the generation is one step, with a post, a failure or neither; a request reads topic and brief in one step. `Second` is what the queue may answer to a second message of a key | what a discovery finds (`Topics`). `late` marks the topics of handlers that were given up (`lists` counts these), `raced` the topics that got a second message, or a post between the check of a click and its message (findings) |
| `Topics` | a topic is the set of its words; similarity is the code's Jaccard | editing the topic of a brief. Generations of one brief do not overlap here (they do in `BriefGeneration`) |
| `ArticleEdit` | a field of the post is the request that wrote it; one cover, two images in the text; `since`: who wrote the post since a request read it; edits are of the first image | `seen`: the property excepts an edit that asked before the swap was opened, which the code lets through (a finding) |
| `TextEditor` | paragraphs in segments, the DOM, React's redraws, the page of the server | `blurred` marks a screen that shows a save whose answer was lost, or a text typed while a save was under way (findings): a refusal may then blame nobody's change |
| `ImageDialog` | a caption is that of an image, typed, or none | `strayed` marks a slot changed from a dialog under which the page had changed, or that showed an image or a caption no longer there (a finding). Alternative text and title follow no rule |
| `Forms` | one dialog and one row; what is chosen outlives an opening, what is typed does not | `adrift` marks chosen fields an earlier opening or another page left behind (a finding). The template is chosen like the site; React resets text boxes when a form action ends; a request that dies goes to the error boundary |
| `PlanGuard` | posts and sites (autopilots are guarded like sites) | tokens and the monthly budget of an autopilot, compared once per run |
| `StripeWebhook` | an event carries the subscription as it was when it was made | `straight`: the property speaks of one subscription at a time and events in order, the rest is a finding |
| `ConfigCache` | a value is the number of the commit that wrote it | what the settings mean |
| `Accounts`, `Credentials` | one account; a clock of time stamps; a cookie and what it was made of | the audit log; the limiter (`RateLimiter`) |
| `RateLimiter` | a statement takes its `now()` before it waits for the row | a statement that waits longer than a tick of the clock |
| `ModelAccess` | a credential is its type; a model its provider and name | prices. `Miscounted` is the one case where panel and worker differ (a finding) |
| `Templates` | a config is its extraction, review, images, prompts and language | the tabs of queries and sources, interpolation |
| `RunWatch` | a line of the log is its stage; an effect of React is one poll | two answers of one effect. `View` takes an answer about another run for none (a finding) |
| `Outbound` | an attempt is answered, refused, or left unanswered and perhaps carried out later | `presumed` (a test or an image search that failed still marks the key as used, a finding) and `strayed` (an attempt given up landing after a later write). `markCredentialUsed` of the panel has no throttle |

## Runs

Nine runs pass, three find a counterexample to what the code says of itself.

| Run | Instance | Question |
|---|---|---|
| `run_crash` | 1 run, 2 posts, two deliveries, one crash, fair worker and queue | `OneItemPerPost`, `ClosedRunIsRight`, `EverySentRunCloses` |
| `run_overlap` | 2 runs, 1 post, one delivery, stop, suspend, retry, undo, delete | types, `WritesCanBeUndone`, `KeepsLedger` (refinement of `RunLedger`) |
| `run_hostile` | 1 run, 1 post, two deliveries of `job.run`, overruns, one failing statement, duplicates, drift | `SkippedWasProcessed`, `UpdatedWasWritten` |
| `brief_once` | 1 brief, 2 runs, one delivery, every request, slow; a suspended workspace, refused and duplicate keys, overruns | types, `OnePostPerBrief`, `PublishedIsPublic`, `DeliveredStays` |
| `brief_hostile` | 1 run, two deliveries, every fault, stop and delete; what makes a post; log, text editor, image dialog | `SuccessHasPost`, `ClosedStaysClosed`, `PublishedIsBacked`, `SpendBounded`, `TopicsStayApart`, `CallsAreHonest`, `PicturesAreJudged`, `PostKeepsDraft`, `PostIsLaidOut`, `PanelTellsTheRun`, `EditsReplaceWhatWasSeen` |
| `brief_live` | 2 runs, two deliveries, one crash or failing statement, generate again, fair worker, queue and enqueueing | `SuccessMeansDelivered`, `EveryGenerationSettles` |
| `article` | 2 swaps, 1 edit, one fault, fair worker and server | `SwapsAreProtected`, `EverySwapCloses` |
| `content` | six parts: 2 jobs and an autopilot with one request; an autopilot with 2 overlapping requests; 2 discoveries; 1 discovery and 2 handlers that overrun; 1 discovery of 1 topic and 2 screens of the panel; the pages of 1 account. A cap of one, one fault, both answers of the queue, fair tick, worker and server | `NothingIsLeftOver`, `AsManyAsAllowed`, `DueIsServed`, `EveryDiscoveryCloses`, `PagesFollowTheAccount`, `BrowserSettles` |
| `platform` | 2 processes and 2 keys; 1 account, 2 links, 1 browser; 2 checkouts; 2 works; 2 attempts; keys and settings; dialogs; templates | `StalenessBounded`, `OldCredentialsEnd`, `ChargedAsPaid`, `LimitsHold`, `PanelKnowsWorker`, `FormsKeepWhatIsThere`, `TemplatesKeepTheirWord` |
| `stopped_stuck` | 1 brief, stop | violates `StoppedBriefCanGo` |
| `redirect_loop` | 1 browser, a reset of the password | violates `EveryBrowserSettles` |
| `stripe_order` | 1 subscription, events repeated | violates `Converges` |

Bounds. Two posts are the least that lets one handler count while another inserts; two
deliveries the least that lets a message come back; two runs the least that lets one run
use the sources of another, and a brief be generated again while the generation before it still
closes its run (with three runs and two deliveries the properties of `brief_once` hold as well, and
`OnePostPerBriefHolds` proves them for every number). `BatchSize` 2 makes the
two handlers of an update share a batch; `brief.generate` has a batch of one. `MaxFaults`
bounds crashes and failing statements; one separates any two statements, and the overruns,
lost answers and late requests are not bounded. Two topics and two discoveries let one
spend what the other counted; a cap of one with two a cycle makes the cap bite. Two deliveries and two
handlers are the least that let a discovery insert beside the next; two screens the least that click
twice, two requests about one autopilot the least that overlap. `MCContent` gives each of these a part of
its own (`Narrow` says what a part leaves out: the second discovery, the second handler, the second topic
or the panel) and takes equal handlers, runs and topics in order (`InOrder`); the proofs have neither
restriction. Two processes
and one change let a cache renew an entry of the value before; a clock of four steps with a
TTL of two reaches twice the TTL. Two requests for a link, two works and two attempts are the
least that overlap. Three posts with two workers and a budget of two calls let two be under
way when it runs out while a third waits. Three words give topics that are near in a chain and
not from end to end, two pages and three finders give one address found twice. A generation of two
stages, the first optional, has a stage passed, one under way and one skipped; two flushes at once let one wait. The bounds on
what a user does (`MaxEdits`, `MaxSteps`, `MaxTyped`, `MaxChanges`, ...) allow an opening, a change, a
submission and one more change; each is named in its module. The mutants show that the
bounds are large enough for each property to fail when the code is changed.

A property is left out of a run whose events break it, and the section below says which.

Fairness. Four runs assume it. The worker loops and pg-boss go on while their process
lives, and a request that has opened a run goes on to send its message (`run_crash`,
`brief_live`); in `article` the worker loop and the sends (`Serves`), in `content` the worker loop
and the tick, which pg-boss fires every minute, and the server, which answers a page asked for
(`Served`). All are weak: nobody has to click, nothing has to fail, nobody has
to be redirected, and a crash is followed by expiry, which pg-boss's maintenance provides. In the sum
of `content` one weak fairness condition stands for the conditions of the parts, since
only one part ever moves. The runs stop where nothing is open and nobody clicks, so deadlock is not
checked: the system may really stop.

## Where code and text disagree

`PROJECT.json` quotes the lines. Three have a run of their own:

* `stopped_stuck`: stopping a generation leaves its brief queued; it can then neither be edited,
  generated nor deleted;
* `redirect_loop`: after a change of the password the middleware and the layout send a browser with
  an older session from `/` to `/login` and back, and it cannot log in again;
* `stripe_order`: an event delivered again after the end of a subscription gives it back.

The others were met while modelling; the models take the code as it is, and each property excepts
exactly such a case by name where it has to. The weightiest:

* a worker that dies after `updatePost` leaves a published change without the item that undoes it
  (`WritesCanBeUndone` is checked without crashes);
* a statement that fails after `createPost` leaves a failed brief with a post, which may be generated
  again; and two requests to generate again that both read `failed` both pass, the second one after the
  generation of the first has delivered (`OnePostPerBrief` is checked and proved without these events);
* the post in progress is published after a stop; a run may be opened while its job is deleted; the
  scheduler starts the work of a suspended workspace, whose deliveries then throw and whose runs stay open,
  a discovery's too, since its workspace is checked outside the `try` (`EveryDiscoveryCloses` excepts a
  message whose last delivery threw or died);
* a process serves a replaced configuration for two TTLs, where a comment and the runbook say one: the stamp is
  cached for a TTL too, and renews an entry for another. `SeenWithinTTL` states the claim; TLC refutes it as an
  invariant of `ConfigCache` with a TTL of three, a clock of five, two keys, one call at a time and one change: one key is
  cached at 0, a load of the other asks the stamp at 1, the first is changed at 1, is renewed at 3 by the stamp of 1, and is
  served at 5. `StalenessBounded`, twice the claim, is what holds;
* a discovery that outlives its ten minutes inserts its briefs beside those of its second delivery: a day may
  have the cap again for each such handler (`CapHolds` says so, and no more);
* two clicks on "generate now" make two posts where the queue takes a second message of a key, or where a whole
  generation falls between the check of the second click and its message (`raced`);
* an update of a paused job or autopilot that overlaps its resumption, and writes last, gives it back the date
  it had missed, and the tick makes up for it (`crossed`);
* an edit that asked for a running swap before the swap was opened, and the swap, erase each other;
* two generations of near topics that run at once refuse each other, and a discovery may keep
  one topic twice when a date tells its two candidates apart;
* a POST that creates is repeated after a time-out, and may leave a second post or an orphan image;
* the text editor drops without a word what is typed while a save is under way; the image dialog
  writes the caption of one image under another when the page is drawn again beneath it; a dialog
  shows chosen values of an older page with texts of the new one, and saves the mixture;
* two forms of the AI settings undo each other; one failing provider of the catalogue sync takes
  `supports_vision` and the prices away from another.

Too small for an entry, but visible in the models: a site or template created from within the dialog
of a job or an autopilot is listed twice once the page is drawn again.

`EveryGenerationSettles` is checked without stop, deletion, suspension and refused keys, each of which
leaves a run or a brief open in the ways above.

## Proofs

Every theorem speaks about all values of the constants, the environment included: any number of runs,
posts, briefs, deliveries and faults. A theorem that needs something of the environment says so in its
statement, by one of five conditions on `Env`; TLC finds a counterexample without each part of them:

| Condition | It excludes | Because |
|---|---|---|
| `Steady` (`UpdateRunProofs`) | `overrun`, `db`, `dup` | a handler that runs on records beside the next delivery; a failed statement lets `job.run` send a post again, and so does a second message of one key |
| `Settled` (`UpdateRunProofs`) | also `drift` | a list that changes between two deliveries makes `expected_items` count other posts than those sent |
| `Calm` (`UpdateRunProofs`) | also `crash` | a worker that dies after `updatePost` leaves no backup, and after planning plans once more |
| `Single` (`BriefGenerationProofs`) | `crash`, `db`, `lost`, `twice`, and `overrun` unless a message is delivered once | each of them makes a second post |
| `Prompt` (`BriefGenerationProofs`) | `overrun`, `slow` | a handler whose delivery timed out closes the run while the next one generates; a request that found the brief failed before a crash resets what the next delivery made |

| Theorem | Module | Says |
|---|---|---|
| `TypeCorrect` | `UpdateRunProofs` | `Spec => []TypeOK` |
| `OneItemPerPostHolds` | `UpdateRunProofs` | `Steady => (Spec => []OneItemPerPost)` |
| `SkippedWasProcessedHolds`, `UpdatedWasWrittenHolds` | `UpdateRunProofs` | in every environment |
| `ClosedRunIsRightHolds` | `UpdateRunProofs` | `Settled => (Spec => []ClosedRunIsRight)` |
| `WritesCanBeUndoneHolds` | `UpdateRunProofs` | `Calm => (Spec => []WritesCanBeUndone)` |
| `KeepsLedgerHolds` | `UpdateRunProofs` | `Calm => (Spec => KeepsLedger)`: `UpdateRun` implements `RunLedger` |
| `BriefTypeCorrect` | `BriefGenerationProofs` | `Spec => []TypeOK` |
| `SuccessHasPostHolds`, `ClosedStaysClosedHolds` | `BriefGenerationProofs` | in every environment |
| `OnePostPerBriefHolds`, `PublishedIsPublicHolds`, `DeliveredStaysHolds` | `BriefGenerationProofs` | under `Single` |
| `SuccessMeansDeliveredHolds` | `BriefGenerationProofs` | `Prompt => (Spec => SuccessMeansDelivered)` |
| `AsManyAsAllowedHolds` | `AutopilotProofs` | `Spec => []AsManyAsAllowed`, for any number of handlers and screens and both answers of the queue |
| `NothingIsLeftOverHolds` | `AutopilotProofs` | `SchedulerAssumption => (Dates!Spec => []NothingIsLeftOver)`, `Dates` the scheduler |
| `OldCredentialsEndHolds`, `PagesFollowTheAccountHolds` | `AccountsProofs` | in every environment |
| `PublishedIsBackedHolds`, `SpendBoundedHolds` | `PipelineProofs` | `PipelineAssumption => (Spec => []...)` |
| `SwapsAreProtectedHolds` | `ArticleEditProofs` | `Spec => SwapsAreProtected` |
| `EditsReplaceWhatWasSeenHolds` | `ArticleEditProofs` | `X!TextAssumption => (X!Spec /\ I!Spec => EditsReplaceWhatWasSeen)`, `X` the text editor and `I` the dialog of an image |
| `PanelTellsTheRunHolds` | `ArticleEditProofs` | `W!WatchAssumption => (W!Spec => []PanelTellsTheRun)`, `W` the watched run |
| `ChargedAsPaidHolds` | `BillingProofs` | `Spec => []ChargedAsPaid` |
| `CallsAreHonestHolds` | `PipelineProofs` | `O!OutboundAssumption => (O!Spec => []CallsAreHonest)`, `O` the calls |
| `PostKeepsDraftHolds` | `BriefGenerationProofs` | `Ed!Spec => []PostKeepsDraft`, `Ed` the editorial steps |
| `PostIsLaidOutHolds` | `BriefGenerationProofs` | `Ed!EditorialAssumption => (Ed!Spec => []PostIsLaidOut)` |
| `TopicsStayApartHolds` | `BriefGenerationProofs` | `T!TopicsAssumption => (T!Spec => []TopicsStayApart)`, `T` discoveries and guards |
| `PicturesAreJudgedHolds` | `BriefGenerationProofs` | `C!CandidatesAssumption => (C!Spec => []PicturesAreJudged)`, `C` the candidates |
| `PanelKnowsWorkerHolds` | `ConfigCacheProofs` | `K!AccessAssumption => (K!Spec => []PanelKnowsWorker)`, `K` the keys and models |
| `TemplatesKeepTheirWordHolds` | `ConfigCacheProofs` | `T!TemplatesAssumption => (T!Spec => []TemplatesKeepTheirWord)`, `T` the templates |
| `FormsKeepWhatIsThereHolds` | `ConfigCacheProofs` | `F!Spec => []FormsKeepWhatIsThere`, `F` the dialogs |
| `LimitsHoldHolds` | `BillingProofs` | `GuardAssumption /\ LimiterAssumption => (G!Spec /\ L!Spec => []LimitsHold)`, `G` the guards of a plan and `L` the limiter |
| `CacheInvariant`, `StalenessIsBounded`, `EntriesKnowTheirStamp` | `ConfigCacheProofs` | for every `TTL` |

Each invariant below was an invariant of a TLC run before it was proved.

**Types.** `TypeOK` is not inductive in either machine: an item is built from the locals of its handler, so
`TypeInv` adds what the locals hold at each step (`LocalsOK`, `LocalsAt`).

**One item per post.** `OnceInv` adds: what a worker holds is active (`HeldIsActive`); of the messages of
one run and post one at most waits or runs (`OneMessage`); of their handlers one at most is busy
(`OneHandler`); a handler past `CheckItem` that has not recorded is right that there is no item
(`NoItemYet`). `OneMessage` makes a fetched batch hold a key once, and with it `OneHandler`
survives `Fetch`; `OneHandler` makes `NoItemYet` survive another handler's `Record`.

**What an item says is true.** `ResultInv` follows the word from the handler to the item: `Opened` says that
whatever names a run (message, handler, item, stored source) names one that was opened, hence keeps its job;
`Truth` that a handler which holds `skipped` or `updated` has seen its post processed or has written it, and
that the items and the stored sources say no more. Nothing here depends on who else is at work, so it holds in
every environment.

**A closed run is right.** A run closes because as many items are there as posts were planned. That the
number means "each post has one" needs three facts: there is one item per post (`OnceInv`), items, messages and
handlers of a run are of posts in its plan, and the plan is fixed once (`PlanInv`, which is what `drift` breaks).
`CountIsComplete` is then an argument about cardinalities: a set of items that maps one to one into the plan and has
its size maps onto it. `CloseInv` says that a handler between its count and its update holds the verdict of
a complete run, and that a complete run gets no more items (`CompleteIsFrozen`).

**Writes can be undone.** `UndoInv` says that content written by a run is known as such wherever it goes
(post, item, locals), that a handler that may still write has not, and that what a run wrote is kept by
an item or by a handler about to record it.

**Refinement of `RunLedger`.** The mapping takes `run[r].status` to `status`, the runs whose `expected` is set to
`planned`, their lists to `plan`, and the item of a post to `outcome`. Each step of `UpdateRun` is shown to be `Open`,
`Plan`, `Report` or `Close` of the ledger, or a stutter. `Open` and `Plan` need `ListInv`: a run has one `job.run` message,
one handler is busy with it, and nothing is planned before it lists; `Report` needs `OnceInv`, `Close` the
argument about closed runs. `Result` of the ledger and the verdict of `maybeFinalizeRun` agree because
each planned post has one item.

**No success without a post.** `Backed` follows the evidence from WordPress to the run: a handler that will
record a created post has created it (`LocalsBacked`), so has one whose item says so (`ItemsBacked`); a run that
has been worked on expects one item (`TriedExpects`), so a handler that closes it has counted at least one; if
none of the counted items is a failure, one is a created post (`VerdictBacked`, `SuccessBacked`). `TriedExpects` is the
part that is easy to miss: a run that expected nothing would close as a success with no item at all.

**Closed stays closed.** The risk is the opener: its message is refused and it cancels a run that something else
may have closed. `OpenInv` says that while an opener is under way its message is not in the queue, so no handler
works on the run, so only the user can have closed it, as cancelled, which is what the opener would write.
`OpenMoves` lists what a step may do to a run and to its opener.

**One post per brief.** A run *claims* its brief from the request that opens it until its last
word about the brief: while its opener has not finished, its message waits, or its handler is on the way to
that word. `ClaimInv`: one run claims a brief at a time; a claimed brief is queued, generating or deleted; a post
of a claimed brief was made by the run that claims it, whose handler is about to report it; a failed brief
has no post. So `CreatePost` finds a brief without posts. Three more invariants carry it: `LastInv`, that the last
delivery of a message is the only one at work; `OpenInv`; and `PostInv`, that a delivered row names
its post, and what a slow request found is still true of its brief when it acts. Most steps are quiet (`QuietMoves`: no new
claim, no new post, rows move as claims allow), and two lemmas show once what a quiet step keeps; the four that
are not (`CreateBrief`, `Regenerate`, `Check`, a successful `CreatePost`) have a lemma each. The same invariant
gives `PublishedIsPublic` and, with the moves a row can make, `DeliveredStays`.

**What a success means.** Here the worker may die and statements may fail, so the argument is about one delivery:
`AloneInv` says that one handler works at a time, on the last delivery of the message that is held; `WordInv` that a
handler which counts has recorded its item, has told the brief of the post it created unless the brief is
gone, and, when its verdict is success, created one. Nothing another actor does takes a delivered brief back (`OthersKeepBriefs`).

**As many as allowed.** One post of a topic: two things may make a post of a topic, the handler that queues what it has
just inserted and a request of the panel. `TopicInv` keeps them apart, whatever handlers and requests are under way: nobody
knows of a topic before its brief is inserted (`UnbornIsUnknown`), the handlers keep only topics without a brief (`KeptIsUnborn`), no
two of them the same (`Apart`), and what one is at work on has no message, no post and no request (`NowIsOurs`). A brief that became
a post has no other message on its way and no request that would queue it, unless it `raced` (`PostIsLast`), which is why a request
checks the brief and not the topic alone. The cap: a handler reads it once, and inserts each brief before the topic the cap
counts. One handler is in time, the one the worker loop waits for. `CapIsKept` says that what it read and has not used is still
there, at every step between; `FewUncounted` that of the briefs of a day without a counted topic each but the one in
progress was left by a crash or a failing statement. The others were given up for late: what they had still to insert was put into `late`
at that moment, or when they came back with their list (`LateIsLate`), a list of at most the cap (`WantIsSmall`), so `late` has at most the cap
for each of them (`LateIsFew`). When the loop gives a handler up, its topics leave the one account and enter the other
(`TimeOutCap`, `BelatedCap`). A cap that holds exactly would need the two inserts in one transaction and the handler to look again.

**Nothing is left over.** `SchedulerAssumption` says that no job or autopilot is called as the value for none. The count of open runs
is exact: of each entry as many are open as messages will close, plus the one the tick has inserted and not settled, plus those of ticks
that broke off there, which `lost` counts. The dates: a request writes what its own select read, whatever the tick and the other requests
have done since. A date is given back only by a pause, which leaves the entry paused, or by an update that read it paused; where the entry
is active by then, the update `Crosses`, and the entry is marked until its date is set anew. Every other write to an active
entry computes the date.

**Old credentials end.** Links: `LinkInv` says that a spent link is marked as used, and that the statement which is about to
insert a link has found no living one of its type but those inserted since it looked (`VoidedOrLater`); hence two living
links of one type come from overlapping requests. Sessions: the layout compares times, and times say
what they should only because no login has the time of a password change (`StampsDiffer`), every time is in the
past (`TimesArePast`), and who still holds another password read it before the account's was written
(`OldWasReadBefore`). `NobodyYet` keeps requests from working on an account that registration has not made.
`PagesFollowTheAccount` is a fact about each step: what the layouts ask for is what the page requires.

**Backed by sources, within the budget.** `PipelineAssumption` says that the run has finitely many posts, one worker at
least, and that a post calls a model at most three times (twice where nothing is extracted); TLC evaluates it for both
instances of `MCPosts`. The draft that validation lets through is judged there against the prompt, and nothing touches it
between that and `ready`, so `PublishedIsBacked` rests on the types and on `ValidatedIsBacked`. The budget is an argument
about cardinalities. `Unrecorded` is the set of the calls no row of `llm_calls` shows, a pair for each call, and what the
run has spent is what is recorded, what exceptions lost, and its size. A call is made only while less than the budget is recorded;
it belongs to one of at most `Workers` posts under way, and none has more calls than `CallsOfAPost` (`CallsAreFew`). The bound
of a post is what needs the steps: a verification that fails open counts, a repair is not verified again (`CallsAreAt`).

**Staleness.** An entry is served because of the stamp it was stored with, and renewed because of a stamp read
later. `IInv` says what each knows: a stamp was current when it was read and its expiry follows from that
time; an entry holds every change its stamp counts (`ValuesKnowTheirStamp`); an entry expires less than two TTLs after any
change it does not hold (`EntriesExpire`); and the call that is about to store an entry knows as much. The bound
is two TTLs and not one because the stamp has a TTL of its own, and because a change empties its own process's cache before it commits.

**Swaps are protected.** A swap is lost when somebody writes the whole article from a copy that does not have it. The invariant
of `ArticleEditProofs` says who may hold such a copy: a closed run has no handler that might still write, but for one that overran;
an edit goes on only when no run that it has seen is open. So whoever holds a copy while another writes is one of the
pairs that the property excepts (`CopiesMayMeet`), and two requests that may meet stay so. A handler that wrote knows it (`since`), and
what it puts back is what it found.

**Edits replace what was seen.** `TextAssumption` keeps the mark of "nothing typed" apart from the texts. *Text.* What the browser sends is
a difference: between the screen when editing began and what was typed last (`TypingInv`), so what is sent is what was typed over
(`SentIsTyped`), and what `applyTextEdits` lets through found it there (`ReadInv`). That a conflict is somebody else's change needs
`Known`: unless the screen is blurred, a paragraph nobody else has changed is in WordPress as the user saw it, or as a save that is not
answered yet left it; and a page on its way says the same (`LoadInv`), which is why it may be drawn in the middle of an edit.
*Images.* `DialogInv` says whose caption an open dialog holds, `ChangeInv` the same of its request, which waits under an open
dialog; the image a request read is still there when it writes, for nobody generates then. The proof found what the bounds of the run had
hidden: with a third request, a page drawn before a stray caption was put right brings it back. The property now excepts a dialog
that showed a caption no longer there, as it did one under which the page had changed.

**The panel tells the run.** `WatchAssumption` says that the discovery is none of its generations and that a generation has a stage. *Log.* What is
stored, being stored and kept are three places of one log; `LogInv` says that each goes up, that what is in one is before what is in the next, and that
together they have what was said but for what was dropped. *Dialog.* An answer is put together while the run goes on, so `Told` speaks of each part of it as of
the time it was read and holds until it is shown, or thrown away: a run it calls ended has ended so, its lines were said, and an ended discovery
had opened all that it ever opens. The last needs the order of the queries: the run is read before its topics and these before the generations (`PollInv`).
What an answer tells stays true (`ToldStays`), because a run that has ended stays so and nothing said is taken back (`WorkerMoves`); hence it does not matter how
old the answer is, or of which tracking. Of the stages, `OneFails` finds the one a failed run came to, the greatest of its log.

**Charged as paid.** `PaidInv` speaks of the behaviours that are still `straight`: the events before the one that is handled have been
handled, one request works at a time, and it holds the subscription as its event has it (`InOrder`); every subscription but the last is
canceled, and the last event is of the last one, as it is now (`UpToDate`); once the last change is handled, the row agrees
with the subscription (`Applied`). Two handlers need a word: a failed payment carries no plan, but comes after the change
that says so; the checkout asks Stripe, so in order it can only be told the state of a later change, which then comes too.

**Limits.** `GuardAssumption` says that the works under way are finitely many and that every plan allows a post (`PLANS`);
`LimiterAssumption` that a log-in has counters, each with a maximum and a window. *Guards.* Counting who has passed is not inductive: when a
month begins, or a plan ends, the limit that a work has read may be above what any guard allows since. `Late` counts such
works too, and what is used and what may be used late together leave out one work under way: the one that passes the guard
saw less than the peak used. *Limiter.* `Stands` says where the hits that were let through lie against the row: those it counts since its
window opened, those before no later than that, and those before a further limit a window earlier. A row that is pruned forgets the
window, but only when every `now()` still in use is past it. Hence of more than two limits of hits the last comes a window after the first,
and a refused attempt finds a limit of hits in the window before.

**Calls are honest.** `CallsInv` says of the call under way that it is the last one made, that it has succeeded exactly when the server
accepted it (the text of an image is asked for when the image is there, so its failure takes nothing back), and that what was refused
has not succeeded (`CallInv`); of the others, that they came one after the other and that one not begun left no trace (`OrderInv`); and
that the last use of a key is written because some call was accepted, or `presumed` says why not (`UseInv`). The number of calls,
`MaxCalls`, is any.

**A post keeps its draft.** `ReviewInv` compares the text with the draft: links are kept, numbers come from the draft or its sources,
and those of the title from the title, the text that goes out or the sources. The one step that matters is `Reviewed`
(`ReviewedIsAcceptable`), for a revision taken whole, without its title, or not at all.

**A post is laid out as planned.** `EditorialAssumption` says that the lengths and limits are numbers and that a generated image is not one of a
source. `LayoutInv` follows the images: the slots that were planned go up and are as many as wanted or possible (`SlotsInv`); what
fills them keeps their order, and an image is taken once (`ImagesInv`); what was uploaded is what the article shows (`ShownInv`); so many
embeds come to free paragraphs as were found and the text has room for (`EmbedsInv`); and a post without the cover it wants is a draft (`CoveredInv`).
The code plans in loops, each round on the outcome of the one before. A loop is a function of the round: that there is one
is `LoopRuns`, what it keeps is `Rounds`, a least round where it fails being one too many (`SomeLeast`, from the well-foundedness of the
numbers). `PreferredIs`, `PlanIs` and `EmbedsAre` say what the three loops end with.

**Topics stay apart.** `TopicsAssumption` says that the two limits are numbers; the words are any sets. While a discovery searches, it knows every
topic an earlier one stored (`EarlierIsKnown`); what it keeps is near nothing it knows and none of what the model called covered (`KeptIsNew`,
through the four lists that lie between an answer and what is kept). Of the briefs, `LetThroughAreApart` speaks of those the guard has let
through, being written or ready: two of them are never near. That needs `Marked`: whoever is before or behind its guard is marked as generating, so
the second of two to pass the guard sees the first. A list with elements left out is written `InOrder`: its k-th element is
the one k places of the choice are not above. That it exists for every k is `RanksAreTaken`: in a finite chain of sets every size is taken, since
a set of n different sizes out of 1 to n has all of them. From it follows what all lists here need (`InOrderPicks`): the places go up.

**Pictures are judged.** `CandidatesAssumption` says that the finders return addresses, that the scores and limits are numbers, and that at least
one picture is shown. `SlotInv`: while slots are filled, the candidates of a slot are nobody's yet, those prepared are good enough
for it, and a picture found has its address among the used ones. `PictureInv`: each picture, chosen, about to be sent or sent, was judged, and
none is in two places, wherever the uploads have moved it. `OrderInv`: the slots go up from the cover through what WordPress has to what waits. A
cover refused gives way to a picture of the text, which is good enough for its own place only: the property says so, as the code does (a finding).
The best titles (`Ranked`) exist by `RanksAreTaken` too, for the order of the scores.

**The panel knows the worker.** The two decide by code of their own: `AccessInv` says only that what is stored, or sits in a form, names a model
of a provider there is; the theorem is that from there the worker's choice of a key and a model and the panel's judgement of it agree for every step
(`StepAgrees`), the preferred key being the first in the order of the providers, which needs that a set of places has a least one
(`LeastOfNat`). `Miscounted` is excepted in the property.

**Templates keep their word.** `SavedIsStored` follows a saved config: it is in the row as the worker parses it, and what the tabs show of it
is what the worker does, whether it was just saved, is being saved again or was edited and undone. `SlugsAreApart` needs that the slug of a copy is
longer than that of its source, and that the copy being inserted is not there yet. `TemplatesAssumption`: the rows have different names and there is a language.

**Forms keep what is there.** `DialogInv` ties three rows together: stored, drawn, and chosen. What was chosen is of the row's site; what
the user did not touch, and no earlier opening left behind (`adrift`), is on the screen as it was drawn; what was sent is what was on the screen but
for what was changed since.

**Model-checked only.** Every liveness property (`EverySentRunCloses`, `EveryGenerationSettles`, `EverySwapCloses`, `DueIsServed`,
`EveryDiscoveryCloses`, `BrowserSettles`): fairness and `ENABLED` are out of the prover's reach, and so is what a
recursive definition computes for every input. Every invariant and every action property that a run checks has its theorem.

## Not modelled

* E-mail, the encryption of the vault, health endpoints, command line tools, the seed: I/O and scripts with no
  state that another step depends on.
* Prompts, HTML, regular expressions, ranking of sources, pixel work, prices: data without control. What
  the control does with their outcome is modelled where it is used.
* Pages and components of the panel without a state of their own.
* The tenant column: every query names it, and every module is about one workspace.
* The audit log of admin actions; what the platform settings mean, beyond the keys; tokens and monthly budgets
  in `PlanGuard`; the tabs of queries and sources of a template; the checks of a public address.

## Plan

Modelling: the tokens and the monthly budget of an autopilot in `PlanGuard`; the cache of sources
across runs.
