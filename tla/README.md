# Instantly Responder: a TLA+ verification project

Instantly (a cold-email platform) delivers the replies of prospects as
webhooks. The Instantly Responder classifies a reply, drafts an answer, has a
human approve it in a web form, and sends it, at most once. It is a set of n8n
workflows (`workflows/*.json`, most of them generated by
`verification/*/build-*.mjs` and `scripts/*.ps1`) and one Node.js sidecar,
`hmz-send-state` (`infrastructure/send-state`), that owns send keys on disk.
Paths below are relative to the repository root.

Contents: 1 the system, 2 the modules, 3 the runs, 4 the proofs, 5 what the
code and its documents disagree on, 6 what is not modelled, 7 the plan.

## 1. The system

    Instantly --webhook--> 01 Intake --> 02 Decision Engine
                              |
                              v            link in a chat message
                        07 Human Approval ------------------------> reviewer
                              |   ^  retry branch R0-R5b               |
                              v   +------- form in browser tabs <------+
                          03 Sender ---- acquire / transition ---> hmz-send-state
                              |                                     ^   ^
                              v                                     |   |
                        Instantly API          04 Error Handler ----+   |
                                               05 SLA Watchdog ---------+--> chat

| component | state | operations |
|---|---|---|
| sidecar, send ownership (`state-store.mjs`, `server.mjs`) | a lock file and a state file per send key | `POST /v1/send/acquire`, `/v1/send/transition`, `GET /v1/unfinished` |
| sidecar, alerts and errors | one file per alert key, one per error record | `POST /v1/alert/dedupe`, `/v1/error`, `/v1/error/resolve` |
| 01 Intake | a row per idempotency key, in a data table | upsert, duplicate test, gates, hand-off to 02 and 07 |
| 02 Decision Engine | none of its own; reads the learning rows, asks a model, writes to Instantly's blocklist and campaigns | decision plan, relearning, draft, safety actions, verification, output check |
| 07 Human Approval (production) | a row per review case, in a data table; forms open in tabs; executions under way | create, notify, open form, submit, persist, hand off, reopen |
| 07, one-time-link variant (`verification/business-ready/lib`) | the same row with a random token; links in chat messages | create, notify, open form, post, decide, store, hand off |
| 03 Sender | the execution's own item | gates, acquisition, suppression, DRY_RUN, live gates, POST and retries, persist, reconciliation |
| 05 SLA Watchdog | the run's own item | list, evaluate, dedupe, post, persist |
| 04 Error Handler | none | normalise, redact, persist, notify |
| V5 layer 1 (`verification/v5/layer1`) | none | classification and retry policy under injected faults |
| V5 layer 2 (`verification/v5/layer2`) | a lock file and a state file for the send key | one live POST through a one-shot proxy, reconciled by listing the sent mails |
| 06 Full Test Harness | none | runs fixtures through the validation workflows |
| shadow evaluator (disabled) | none | evaluates one input |

How they interact. n8n runs any number of executions side by side; a workflow
calls another one synchronously; tables and files are the only shared state,
and no table operation is a transaction with another. The sidecar is one Node
process (docker-compose, `restart: unless-stopped`) whose handlers are
synchronous from request to response, so that requests do not interleave, but a
crash or a failing file-system call falls between any two of its calls. n8n
talks to it over HTTP with a timeout of 5 s.

What is hard, and what makes each part right:

* **Ownership of a send key.** Lock, check and write are three calls; processes
  crash between them; acquire answers get lost. Right: at most one caller is
  ever told it owns the key, the claim outlives everything, states move
  forward, and an unfinished record stays locked.
* **The Sender.** Executions race for a key, calls time out after they were
  carried out, executions die, retries repeat. Right: one POSTer per key, no
  POST after an outcome that is not known to be harmless, DRY_RUN sends
  nothing, what was POSTed stays visible to the watchdog.
* **Human Approval.** Nothing locks a row between its lookup and its update; a
  token is never consumed; cases are created again; forms stay open for days.
  Right: only approved replies go out, a link approves the draft it showed, a
  settled denial or approval stays.
* **The Decision Engine.** Reviewers change the learning rows at any time, rows
  compete and mislead, the model's answer races a timer, the host's answers get
  lost after the request was carried out. Right: a reply is moved to another
  classification once and never out of a protected one, drafts carry no
  unresolved token and no claim that the model made up, every safety action that
  the decision policy asks for is requested once before a reviewer sees the case,
  and an execution ends.
* **Intake and Error Handler.** An upsert that only its timestamps tell from an
  insert; nothing is retried, so that a failed execution has used up its key.
  Right: duplicates stay away from the engine, and a failed execution is on
  record, as long as n8n lives and the record is not lost on its way.
* **Reconciled send (V5).** Processes die with the lock, the response is
  withheld, listings lag, the platform may duplicate. Right: one POST over all
  runs, and a verdict "sent" only for a mail that exists.
* **The Watchdog.** Runs overlap; dedupe answers get lost; the dedupe record is
  written before the message is posted. Right: no alert twice, none used up
  without a cause, breaches do not look new again.

`PROJECT.json` lists each hazard with its source line and its properties.

## 2. The modules

| module | what it models |
|---|---|
| `SendStates` | `SEND_STATES`, `ALLOWED_TRANSITIONS` and what is derived from them |
| `SendOwnership` | abstract: the promise of the sidecar, without files, handlers or crashes |
| `SendOnce` | abstract: the promise of a sender, without nodes, calls and files: a key is claimed once, only who was told of its claim POSTs, and its answer is true |
| `AlertOnce` | abstract: the promise of the watchdog: an alert is recorded once, and posted at most once |
| `SendState` | the sidecar's send handlers, one action per file-system call |
| `SenderPolicy` | `classifySendOutcome`, `planSendAttempts`, `reconcileMatches` as functions |
| `RetryPolicy` | the V5 layer 1 policy that `SenderPolicy` was ported from, with the mock server it was tested on |
| `SenderPlans` | the lists of outcomes and polls that both policies are compared on, and the reference definitions |
| `Sender` | workflow 03 node by node, composed with `SendState` (it extends it), the network and Instantly |
| `Watchdog` | workflow 05 node by node, with the listing and the dedupe handler of the sidecar |
| `HumanApproval` | workflow 07 (production), with the Sender reduced to its claim and its answers |
| `OfflineReview` | workflow 07 as the business-ready build generates it, with links that decide once |
| `Drafting` | node D of workflow 02 as operators: rules, templates, the model's text, edits, token check |
| `DecisionEngine` | workflow 02 node by node over `Drafting`, with the learning table, the model and the host |
| `ReplyIntake` | workflow 01 with workflow 04 behind it: upsert, duplicates, gates, failures, crash of n8n |
| `ReconciledSend` | `runLayer2` of the V5 verification, with its state store, proxy and reconciliation |
| `MC...` | constants for TLC |
| `...Proofs` | theorems, see 4 |

**SendState.** `lock[k]` and `durable[k]` are the two files of key `k`;
`pc`, `req`, `seen`, `answer` are the handler of process `s`; `grants`, `faulty`,
`aborted` are history. `CreateLock` is `acquireLock` (open `wx`),
`CheckPriorState` the read and the refusal, `WriteState` the write, with the
release of the lock after a terminal state as an action of its own
(`ReleaseLock`). `FileError` is a call that throws (answer 400, earlier calls
stay), `Crash` the death of the process. `SendOwnership` is the abstract
specification; the refinement mapping is `status <- durable`.

**Sender.** `node[e]` is the next node of execution `e`, named by the letters of
the workflow. What the gates read of a case is a free choice; the outcome of a
POST is a member of `Responses` with what it says about delivery. `wire` is the
request under way to the sidecar, `CallFails` the client's timeout, `RequestLost`
the network, `ExecutionDies` n8n. The retry loop counts its attempts as the code
does: node R reads them from an item upstream of the loop.

**Watchdog.** Ages are classes below, at and above the two thresholds;
`TimePasses` moves the ages of all unfinished records. `CreateAlertFile` and
`WriteAlertFile` are the two calls of `recordAlertOnce`. A run fails at the node that
meets an error, because no node of this workflow continues on error. The
contents of messages and of the persisted result are left out.

**HumanApproval.** `row[c]` is the row of a case: its status, token and draft,
what it permits (`kind`), and the two facts of `decision_payload` that the form
reads. A creation `h` names its token and its draft. `page[t]` is the form that
tab `t` shows: the token in it, the draft it was rendered from, the buttons it
offers. `SubmitReviewForm` is L0 to N (or the error page): it decides on the row
of that moment; `PersistReviewerDecision` is O, and writes whatever the row has
become since. `SenderAcquires`, `SenderStopsAfterAcquire`, `SenderPosts`,
`SenderReports` are what node Q waits for; `UpdateCaseRetryNeeded` and
`ReturnLink` are the branch R0-R5b. An execution that dies just takes no more
steps, because no step is forced.

**OfflineReview.** A creation's number names its token and its draft. `row` is
the row of the one case, `links` what chat messages carried, `form[s]` the page a
browser shows. `Post` is L0 to N on the row as it was looked up, `Store` is O,
which updates by `case_id` alone; `HandOff`, `ApprovedPage` and `NonSendPage` are
what follows. Between `Post` and `Store` the case may be created again. L's test
that the hand-off is complete is not in `Flaws`, because node A fills what an input
lacks with `{}` and the test never fails (see 5).

**Drafting, DecisionEngine.** A text is the set of the marks that the checks and
edits of nodes D and E look for (a token, the offer of times, ...). D and E have a
list of forbidden phrases each: a `claim` is on both, a `boast` on D's alone, and a
`disclaimed` phrase is one whose first occurrence is negated, which D lets pass and
E does not. A learning row is what its instruction makes D do. `pc` is the node that runs next:
`LookupRules` is Q12, `Draft` is D up to the request to the model, and
`ModelAnswers` or `ModelFailsOrTimesOut` end its race of 8 s. `Plan` is F,
`RetrieveLead` G0, `SkipAction` and `RequestAction` the four gated actions,
`VerifyBlocklist` G5 with its listing, `Validate` G6 and E. `blocked` and `domain`
are entries at the host. A and B, which find the classification in the words
of a reply, are the input `reply`; C is `Decide`, with the three operational rules
(`op`) that overrule the category. The policies are matched with the category that
the decision shows (`Shown`), and the catch of D names a category of its own
(`Named`). `ApproveAndSend` stands for
`HumanApproval` and `Sender`.

**ReplyIntake.** `pc[d]` is the next call of delivery `d`; code nodes between two
calls run with the first. `rows[k]` has the two timestamps that E3 compares,
`claimedAt[d]` is when the execution's upsert took effect. `handler[x]` is the
execution of workflow 04 that a failure (or a report of workflow 06) starts;
`lost` are its calls that failed. The record names the execution; `Notice`, the
text of the chat message, does not. `Crash` ends every execution, as n8n resumes none.

**ReconciledSend.** `lock` and `file` are the two files of the send key, `pc[r]` the
last thing run `r` did, `meta[r]` what its proxy heard, `copies[r]` the mails the
platform made of its POST, at any time after it. `Reconcile` is one listing, which
may lag.

## 3. The runs

| run | instance | what it shows |
|---|---|---|
| `sidecar` | 1 process, 2 keys | the file-level sidecar implements `SendOwnership` (so claims are durable and states move forward); one owner, unfinished implies locked, orphan locks only after an abort |
| `sender_policy` | lists of up to 4 outcomes or 5 polls | retry plan and reconciliation verdict equal their closed forms, and plan and waits those of the layer 1 sender on all that its mock server does (proved for lists of any length) |
| `sender` | 3 executions (1 dry) with one key, 2 POSTs each | implements `SendOnce`; one POSTer, no POST after a definite outcome, posts are listed, SENT only for a mail that was made, refusals have a cause; executions end unless they loop |
| `watchdog_send` | 2 overlapping runs, 1 send record | implements `AlertOnce`; no alert twice, none used up, breaches last |
| `watchdog_alerts` | 2 runs for ever, 1 error | a stuck error is alerted |
| `approval` | 1 case created twice, 2 tabs, 2 send keys | only approved replies are sent, links approve their own draft, one submission POSTs per key, denials and approvals are final once settled |
| `offline_review` | 1 case created twice, 2 posted forms, a reviewer and a stranger | what reaches the Sender was approved, with no variable missing, as its form showed it; a stored decision is the link's last |
| `decision_engine` | 16 replies, tables of up to 2 of 11 rules, 6 texts of the model | newest rule decides and is applied once, no token leaves, claims come from rules and are flagged, the decided safety actions come first and once, verified means blocked; executions end |
| `reply_intake` | 2 deliveries, 2 keys, 2 ms, 1 report of the harness | duplicates reach the engine only within one millisecond; a used-up key is accounted for by a hand-off, a refusal, a crash, or a failure on record unless the record was lost |
| `reconciled_send` | 3 runs, 2 copies of a mail, 4 listings | one POST in all, SENT_RECONCILED only for a mail that exists, the file only advances; runs end |
| `sender_attempts`, `approval_reopened` | small | disagreements, see 5 |

**Bounds.** Two keys are enough for the sidecar: a handler touches the files of
its own key only, and the second key is there to show it. More than one process
is left to the theorems, which hold for any number. `MaxPosts` cuts the retry
loop of an execution, which the code does not bound; two POSTs make a retry and
its repetition. Three executions are a winner, a loser and a dry run. Ages stop
growing at the breach threshold, where no comparison can tell them apart; the
thresholds 1 and 2 give each status one age. Two tabs make every race of two
submissions, two creations every race with a re-creation. `grants` is at most one
(proved), and needs no bound. Two deliveries make a duplicate, or two events
whose keys collide, and `MaxClock` = 1 lets their upserts fall into one
millisecond or into two. The learning tables hold up to two of the rules that
compete for a draft (competition is decided pairwise, by time), or up to
two of those that lead to safety actions or away from them. `MaxCopies` = 2 is a duplicate,
`MaxChecks` = 4 enough for a single match to be seen three times in a row after a
listing that lagged; three runs are one that dies, one that meets its lock, and a
rerun. All other sets are finite as they stand.

`CHECK_DEADLOCK FALSE` is set where the system may stop: all executions have
ended, all tabs are closed. The sidecar always takes requests, and is checked for deadlock.

**Fairness.** `FairSenderSpec`: n8n goes on with an execution it has started
(`StartedStep`), and its HTTP client gives up on an unanswered call
(`CallFails`, the 5 s timeout of `httpRequestNode`). Nothing is assumed of the
sidecar, of Instantly or of the start of an execution. `FairSpec` of
`Watchdog`: the schedule trigger starts runs for ever, started runs go on,
unanswered calls time out, and the sidecar's handler finishes. `FairSpec` of
`DecisionEngine`: n8n runs the next node, where the race of node D and the
timeouts of the HTTP nodes end the waits, so that a step that is not the model's
answer is always possible; that the model answers or a reviewer acts is not
assumed. `FairSpec` of `ReconciledSend`: a process that lives goes on, since each
call has a timeout and the reconciliation a deadline; a crash is never excluded.
One wait has only a timeout against silence: that for the proxy's result
(`run-layer2.mjs:382`, `drop-response-proxy.mjs:115`), so that `RunsEnd` assumes that
the platform does not lengthen one answer for ever.
`HumanApproval`, `OfflineReview` and `ReplyIntake` have no fairness: people need
not do anything, executions may die, and no liveness is claimed.

## 4. The proofs

TLAPS checks the following for all values of the constants: any sets of keys,
processes, executions, records, runs, cases, creations, tabs, submissions,
deliveries, replies, learning rows and texts of the model, any `KeyOf`
and `CaseOf` (any collision of keys and case ids), and lists of outcomes and
polls of any length. The assumptions are the named `ASSUME`s of the modules: types
of the constants, and that the null values are none of the proper ones; in
`DecisionEngine` that the tables of active rules are finite; in `SenderPlans` that an
error of the network has no status and that a poll finds finitely many
mails. `SoleProcessSafety`, `StatesMoveForward`, `ImplementsOwnership`,
`RefusalsHaveCause` and `CallersSeeOwnership` also assume one process, as deployed.

* `SendStateProofs`. `TypeInv` adds to `TypeOK` that a handler that is past
  reading its request has one that it can be handling (`HandlerOK`).
  `SingleOwner` needs `ClaimInv`: of the handlers between creating the lock and
  writing the state at most one sees no record, and it holds the lock; and
  `GrantInv`: an answer "acquired" not yet delivered is the only one and has its
  record. `SoleInv` is the same for one process: between check and write the record
  does not change. `LockInv` gives `OrphansNeedAnAbort`, for any number of
  processes: some handler deals with a lock without an unfinished record, from the
  call that creates the lock to the one that records a state or removes it. The
  refinement maps `WriteState` of an acquire to `Claim`, `Reply` to `Grant`,
  `WriteState` of a transition to `Advance`, all else to stuttering.
* `SenderProofs`, the composition. It reuses the sidecar's invariant unchanged:
  lemma `StepOfSidecar` says that every step of the composition is a sidecar step
  or leaves the sidecar alone (for one process this is `CallersSeeOwnership`: the
  Sender's executions, which die and give up, cannot break what the sidecar
  promises). `HolderInv` carries a grant through the network to the execution that
  POSTs: an execution in the nodes after F is the one that was granted its key.
  `RetryInv` says that only the owner has an outcome, and that at Q and T it is a
  retryable one. `LiveInv` says that the only record beyond LOCKED is the one of a
  dry run, which with `HolderInv` gives `PostsAreListed`. `CauseInv` is about keys
  without trouble (no lost or late call, no file error, nothing that died): each
  request has an execution that waits for it, and the files of a key are there
  because an execution owns it or the handler is about to say so. With two processes
  two claims can refuse each other before either caller hears, so `RefusalsHaveCause`
  needs the one that is deployed. `MailInv` follows a confirmed Email object from
  node R to X, and a match from the reconciliation poll to its verdict: SENT is
  reported for nothing else, and a mail, once out, stays out.
* `SenderProofs`, the plans. The loops of `SenderPolicy` are recursive functions
  over the index of a list. The library's induction takes an operator as a
  parameter, which the provers cannot instantiate; the proofs take the least
  counterexample instead: a set of numbers that is not empty has a least one
  (`WFMin`), and the step below it gives the contradiction (lemma `UpTo`). With it
  the recursive functions are shown to satisfy their equations (`...LoopDef`), and
  what holds at each step of a loop (`PlanStepAt`, `AbreastStep`, `VerdictStepAt`) to
  hold at its end. The three properties of `sender_policy` thus hold for every
  list, and `WaitsAreBounded` besides.
* `SendOnce`, shown to be implemented three times: by `Sender` with its sidecar
  (`SenderSendsOnce`; `StageInv` ties node and history of an execution to its stage,
  `CallerInv` a request on the wire to the execution that waits), by
  `ReconciledSend` (`RunsSendOnce`), and by the Sender that `HumanApproval` sees
  (`TabsSendOnce`). The reduced Sender that node Q of workflow 07 waits for thus keeps
  the same promise as the one that `Sender` models node by node (that one is a
  refinement of the other is not claimed), and `RepliesOncePerKey` (`HoldInv`) rests
  on it. What they all
  inherit is `SendOnceKeepsKeysApart`.
* `WatchdogProofs`. `OnceInv`: an alert called new is in one place only, a
  handler, an answer on its way, a run, or the chat. `LossInv`: a file that was
  created is accounted for by the request that asked for it. Both give the
  refinement of `AlertOnce`, in which creating the file is `Record` (or, if its
  request was given up, `RecordForNobody`) and a failure after it `Lose`.
* `HumanApprovalProofs`. `RowInv` says that rows, links and restored contexts
  only carry tokens that were drawn, so that nobody has the link of a creation
  to come. From that `FormInv` follows: a form with the link of the draft in
  the row shows that draft. `ApprovalInv` carries it, and what node N decided,
  to the execution that POSTs. `DenialsAreFinal` and `ApprovalsAreFinal` need
  only `TypeInv`: every write to a settled row would need a submission in
  flight, or a new token.
* `OfflineReviewProofs`. A token belongs to one creation for ever, and the row, a
  form or a decision with that token shows what the creation brought
  (`RowOfCreation`, `FormOfCreation`, `DecisionsAreSound`), with the variables that A
  found missing: so node L's comparison
  of tokens can take the place of a lock. `StoredIsClosed` holds although O may hit
  the row of a newer creation, because O only closes rows.
* `DecisionProofs`. `BaselineKept` says that no step changes the two fields of the
  decision that the plan is made from; `ActionsTracked` that the actions ahead of
  `pc` are untouched and those behind it were requested iff they were due;
  `CategoryKept` that the category shown is the one C gave, unless a rule or the catch
  of D changed it. Together they give `ActionsPrecedeApproval`. `VerifiedMeansBlocked` rests on the order G4, G5;
  `TokensNeverLeave` on every path of D ending in the check, or in a template.
  `ClassInv` says that only D changes the category of a reply, and only as the newest
  applicable rule says; that a finite table has a newest rule follows from the least
  number of rules of a table without one. `ClaimInv` says that only the text of a rule
  brings a claim into a draft, and that or the text on scope a boast, whichever path of D
  it takes (`StemsFrom`), and that E has noticed what is on its list. `TypeCorrect` says that
  each of D's paths, with any rules on the way, ends in a draft.
* `ReplyIntakeProofs`. An execution past the duplicate router knows when the row of
  its key was created (`AdmittedCreated`); the execution that created a row was
  not dropped, and `PersistTried` follows its failure through workflow 04: past node C
  there is a record that names it, or the call that writes it is among the lost.
* `ReconciledSendProofs`. The lock is released after every run and alone gives
  nothing; `FileIsKnown` says that a run past `ReadState` knows the file, and
  `EarlyMeansUnposted`, `LaterMeansPosted` tie the file to the POST.

Proved, and in no run: `DryRunsPostNothing`, `WaitsAreBounded`,
`DurableRefusalIsTerminal` (in `SoleProcessSafety`), `GrantsAreDurable`, `StatesMoveForward`,
`CallersSeeOwnership`, `TabsSendOnce`, `RunsSendOnce`, `SendOnceKeepsKeysApart`, and
the type theorems of the modules whose run checks deeper properties instead.

Only model-checked: the four liveness properties, since fairness and ENABLED are
out of the prover's reach. For two of them the proofs give the argument up to
fairness: each step of an execution of workflow 02 leaves it with fewer of 13 nodes
(`DecisionIsBounded`, for `DecisionEnds`), and each step of a run of layer 2 lowers
a number that is at most `MaxChecks` + 10 and that no other run raises
(`RunsAreBounded`, for `RunsEnd`). `EndsUnlessLooping` has no such bound, because the
retry loop of workflow 03 has none; nor has `StuckErrorIsAlerted`, since its runs go
on for ever.

## 5. Where the code and its documents disagree

With a run that shows it (quotes in `PROJECT.json`, findings):

* `sender_attempts`: the live retry loop does not see its earlier attempts and
  goes past the documented three.
* `approval_reopened`: a second approval after a successful send reopens the
  case and tells the reviewer that nothing was sent.

Seen while modelling, without a run:

* `build-live-path.mjs:516`: node X sends `state`, the sidecar reads `toState`
  (`server.mjs:97`) and answers UNKNOWN_STATE; SENT is never recorded although X2
  reports it. The key stays LOCKED, which keeps it safe, and the watchdog reports
  it for ever. `Sender` models the call as it is made.
* `build-live-path.mjs:706`: node W takes the earlier polls from node R's item, so
  that it never sees more than one; a reconciliation with fewer than two matches
  never ends (`docs/STATE_AND_IDEMPOTENCY.md:146-149` limits it).
* `state-store.mjs:356-385`: an alert file that was created and not written makes
  every later request with its alert fail.
* `production_humanapproval_current.json:561`: incomplete amendments bring back the
  Approve and Deny buttons of a case whose reply was sent
  (`docs/NEXT_MANUAL_TEST_PACKET_REVIEW_REOPEN_REPEAT_SEND.md:50-51`).
* `sender-core.mjs:257`: node G is a mock that answers "verified", so an opt-out is
  confirmed whether or not the Decision Engine's blocklist entry was made
  (`docs/HMZ_APPROVED_REPLY_RULES.md:286`).
* `wf07-codes-2.mjs:203`: two submissions of one link that are looked up before
  either is stored are both accepted.
* `docs/STATE_AND_IDEMPOTENCY.md:34`, "Duplicate events do not invoke the Decision
  Engine": two upserts within one millisecond both pass E3.
* Workflow 01: node A makes a new item without `entry_source`; F1 always sees
  'UNKNOWN' and never evaluates its lists (`docs/NEXT_STEPS.md:80`: F1 "fails
  closed for `PRODUCTION_WEBHOOK` entries").
* Workflow 04: node D reads `error_record.error_id`, C2 sets `persisted_error.errorId`:
  the chat message always names UNKNOWN_ID, and neither the execution nor the reply,
  so that a failure whose record is lost cannot be told from others. A record from
  the Error Trigger has neither the intake id nor the send key. A crash of n8n starts
  no error workflow at all: the intake row in READY_FOR_DECISION is all that is left.
* `nodeD_patched.js:213-245` and `production_decision_current.json:179`: D's and E's
  lists of forbidden phrases differ. What a rule brings into a draft is searched by E
  alone, whose list has no "results", no figures and no "we've helped"; the sticky note
  (`production_decision_current.json:193`) lists "results". D's own text on scope ends in
  "review results together".
* `build-release-blocker-fixes.mjs:558`: the plan of safety actions is made from the fields that
  C set. A learning rule that moves a reply to UNSUBSCRIBE, and the catch of D for one
  that C was not sure of, show the reviewer a case to be suppressed whose suppression
  was never planned.
* `07_reply_human_approval_validation.json:38` and `:508`: node A stores `{}` for a
  missing `nes`, `decision` or `validation`, and L tests for truthiness, so that
  MISSING_SENDER_HANDOFF is never the answer and an incomplete case is handed off.
* `classifyErrorClass` (Workflow 04) does not consider a send state in
  `input.terminal`, and a given `error_class` wins over it, although its comment says
  that an uncertain send is never RETRYABLE.
* Production's node D differs from `nodeD_patched.js`: it raises requests for proof,
  narrows the style rule for NOT_NOW, asks for a human decision about scopes, and
  counts a learned draft more narrowly. `Drafting` follows the patched file,
  and what production shares with it.
* `infrastructure/send-state/README.md:57` says that a later rerun receives
  `DURABLE_STATE_EXISTS`. After a crash, or a failed unlink, between the
  terminal write and the release of the lock it is `LOCK_ALREADY_HELD`, for ever.
* `docs/RETRYABLE_BLOCKED_SEND_RUNBOOK.md:78`, "cannot receive a duplicate
  reply": a 5xx is retried although the request may have been carried out. The
  gates `send_key_unique` and `not_duplicate` of lines 75-76 are not among the
  14 gates of node O.
* The same runbook, line 88 (RB-2: blocked, fixed, retried, SENT): the live gates run
  after the acquisition and P2 keeps the key, so the corrected retry is refused.
  Line 44 names the status `RETRY_NEEDED` (the code writes `IN_REVIEW`), and
  line 50 says the original token is consumed (it is put back).
* `verification/phase4b/build-workflows.mjs:471`: the persisted watchdog result
  should list its alerts; after a posted message node H works on the chat's
  response, which has none.
* The pages of Q2 ("No reply will be sent for case ...") and N2 ("No second
  submission is accepted") are wrong when an approval had been looked up before
  the denial: it sends, and the status is the one of whoever writes last.
* The banner "already approved and an email was already sent" of node J
  follows the status RESPONSE_APPROVED, which node O writes before the Sender
  has run; it is also shown if the execution died or the send was blocked there.
* `docs/REVIEW_REOPEN_LEARNING_AMENDMENTS_CONSOLIDATED_PATCH.md` says that the
  expiry check is skipped for approved cases; H and L check it.
* A "save" from a form that was open before the approval reopens the case as
  pending; a denial then closes a case whose reply was sent as "no reply".
* A case without a draft (`NO_DRAFT`) counts as missing its context and cannot be
  decided; blocked variables cannot be corrected in the form although the page
  asks for it; F2 may overwrite the notification status of a newer creation; a
  creation that dies before its chat message leaves a case nobody has a link to.
* A timestamp that does not parse has no age, and its record is never alerted; the
  case id of production is a hash of 32 bits; an offline execution that dies between
  O and Q leaves an approved case that nobody sends.

## 6. What is not modelled

The texts of pages, mails and messages; the contents of learning events; the 14
live gates one by one (a free choice); authentication in front of the form; the
data tables' own failures, except the upsert of workflow 01; how nodes A and B of
workflow 02 read a classification off the words of a reply (rule lists over
text, without state: every classification is an input). Left out as components,
with the reason in `PROJECT.json`: the full test harness (06), the shadow evaluator
(disabled), the learning capture (it writes tables of its own, which people
review; what comes of them is the `Tables` of `DecisionEngine`), the sidecar's
write-only result records, and the scripts that build and deploy workflows.

The data table's update of one row is taken as atomic, and its reads as
current: n8n keeps it in one database, and the code relies on that throughout.

## 7. The plan

Done: every workflow that handles a reply (01-05 and 07), the sidecar, the offline
variant of 07, both layers of the V5 verification, and the proofs of every safety
property that a run checks. What is left, in this order:

1. `ReplyFlow`: `ReplyIntake`, `HumanApproval` and `SendOwnership` composed, under an
   abstract specification `OneReply` above `SendOnce`: at most one reply per inbound e-mail. The send
   key contains the template, so the interesting instances are two cases, or two
   templates, for one e-mail.
2. A direct refinement from `Sender` to the reduced Sender of `HumanApproval`, which
   needs its answers (stopped before or after the acquisition, report) in a module of
   their own.
3. The learning capture (SL-P1A to SL-P2E) as the source of `DecisionEngine`'s
   tables.
