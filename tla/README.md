# gocd-mcp in TLA+

A verification development of gocd-mcp, an MCP server that lets an assistant
operate a GoCD server. Line numbers refer to `src/`.

The server keeps almost no state of its own. What is hard about it is that it
acts on another system that is asynchronous, shared with other people, and
reached over a network that can lose an answer after the work was done. The
models are about that: what the server may tell its caller, given what it can
know.

## The system

| Component | State | Operations | Talks to |
|---|---|---|---|
| Pipeline trigger, `domain/actions.go:13-127` | per call: baseline, attempts made | validate, read baseline, post, poll | REST client |
| Stage trigger, `domain/stage.go` | per call: baseline, attempts made | the same on one stage of one run | REST client |
| REST client, `gocd/*.go` | none between requests (token, timeout) | one request: send, map the status to an error, decode | GoCD over HTTP |
| Token verification, `auth/auth.go` | cache: token hash to login and expiry, under a mutex | look up, ask GoCD, store | REST client; called by the bearer middleware |
| Config editing, `domain/config.go`, `domain/templates.go`, `gocd/config.go`, `gocd/templates.go` | none; the ETag travels through the caller | read with ETag, write with If-Match, create, delete | REST client |
| History and reads, `domain/domain.go`, `domain/logs.go`, `gocd/pipelines.go`, `gocd/agents.go`, `gocd/files.go` | none; the cursor travels through the caller | list, read a page, read an instance, read a log's tail | REST client |
| Simple actions, `domain/actions.go:129-174` | none | pause, unpause, cancel a stage, comment | REST client |
| MCP tools, `mcpsrv/*.go` | the registered tools, fixed by the toolset at start | authenticate, audit, call the domain, map errors, log | domain, auth |
| HTTP transport, `httpx/*.go` | per request: login holder, recorded status | recover, request id, access log, health probes, authentication | auth, MCP tools |
| Process lifecycle, `cmd/gocd-mcp/main.go` | serving, shutting down | load, serve, shut down gracefully within 15 s | all of the above |
| Configuration, `config/config.go` | the configuration, fixed at start | defaults, environment, file, validation | none |
| Logging, `obs/log.go` | none | build the logger, make request ids | none |

A request runs through the HTTP middleware, which verifies the token, to a tool
handler, which builds a domain service bound to the caller's token and calls it;
the domain makes one or more REST requests. Requests run concurrently and share
only the token cache and the logger. Between two REST requests of one call
anything can happen at GoCD.

What is hard in each, and what makes it correct:

* **Triggers.** Between reading the baseline and the last poll, other runs appear
  and the caller's own may appear, disappear behind others, or never come; the
  POST's answer may be lost; callers retry errors. Correct: a confirmation names
  the caller's run, an error means that nothing was scheduled, a run that can be
  seen is seen, and the call returns.
* **REST client.** An answer decides less than its status suggests. Correct: the
  error tells the sentinel apart, and no state-changing request is retried.
* **Token verification.** The lock is released during the GoCD call, so
  validations of one token race. Correct: a login is only ever the one GoCD gave
  for that token, and a revoked token stops working within a bounded time.
* **Config editing.** Two editors, lost answers. Correct: no update overwrites a
  version its author does not know. The code keeps this but for one case: an update
  that was redirected reports success with the ETag of a version that nobody read,
  and the next update may be made with it.
* **History.** Runs are created while a caller walks the pages. Correct: the walk
  neither skips nor repeats a run that existed when it began, and a broken link
  is never taken for the end.
* **MCP tools and transport.** Correct: a tool outside the toolset cannot be
  called, every mutation is audited before it is tried, each call is logged with
  the login it ran under.
* **Lifecycle.** Shutdown races with calls in flight, and with calls still to come
  in on connections accepted before it. Correct: nothing accepted is silently dropped
  while there is time left.
* **Configuration.** Correct: file over environment over default, and nothing
  invalid is served.

`PROJECT.json` lists the hazards line by line, with the properties that cover
them, or the reason why none does.

## What is modelled

| Module | Models |
|---|---|
| `GoCDClient` | what the client makes of an HTTP outcome, and what that outcome leaves open about a POST |
| `AttributedRun` | the promise of both triggers, apart from how they find out |
| `TriggerCall` | the course of one call, common to both triggers |
| `TriggerPipeline` | `Service.TriggerPipeline` over `TriggerCall`, and GoCD running the pipeline |
| `TriggerStage` | `Service.TriggerStage` over `TriggerCall`, and GoCD running the stage |
| `TokenCache` | `Verifier.Verify` with its cache, concurrent requests, and GoCD's tokens over time |
| `VersionedConfig` | the promise of the config tools: a compare-and-set register |
| `ConfigEdit` | create, update and delete of a pipeline or a template, and GoCD with its ETags |
| `Tools` | tables: the tools of each toolset, what each checks, the requests each sends |
| `ToolCalls` | HTTP requests through the middleware, the handlers and their requests to GoCD, over `GoCDClient` and `Tools` |
| `SnapshotWalk` | the promise of paging: a walk over the history as it was at the first page |
| `HistoryPaging` | `get_pipeline_history` called page by page while runs are created |
| `ConfigLoad` | `config.Load`, a pure function of the environment and the file |
| `Lifecycle` | `main`: load (over `ConfigLoad`), listen, serve, drain, exit |
| `ConsoleLog`, `ErrorBody` | two pure conversions: a log's tail, an error's text |
| `Reading` | the two conversions applied to an input each, and what they should give |
| `MC...` | instances for TLC |
| `...Proofs` | proofs |

### The triggers

A call `c` has a program counter `pc[c]` with a value for each place where it
waits for an answer: `start` (the baseline read), `schedule` (the POST), `wait`
(the sleep and read of a poll), `done`. `base[c]` and `attempt[c]` are the local
variables `base` and the loop's turn count; `result[c]` is the returned pair.
Local computation between two requests is part of the action of the request
before it, since nobody else sees it.

| Action | Code |
|---|---|
| `FailEarly` | invalid arguments, or the baseline read fails (`actions.go:51-61`, `stage.go:39-57`) |
| `ReadBaseline`, `ReadStage` | `latestCounter`; `findStage` and the `Scheduled` test (`stage.go:58-61`) |
| `Schedule`, `RunStage` | the POST with every outcome in `Codes`, accepted or returned as an error |
| `PollConfirms`, `PollMisses`, `PollFails` | one turn of the loop: sleep, read, and the run is there, is not, or the sleep or read fails |
| `Retry` | the MCP client repeats a call that erred (external) |
| `Materialize`, `Drop`, `OtherRun`, `Busy` | GoCD (external) |

One sleep and the read after it are one action: a call observes GoCD only at the
read, and the sleep's failure has the same result as the read's.

GoCD's runs are the sequence `runs`, a run's counter is its position. `queue`
holds the requests that GoCD has accepted and not yet turned into a run. Each run
carries `src`, the request it was made for, and `lost` holds the requests whose
answer decided nothing. No API shows either and no action of a call reads them:
they are there for the properties.

What GoCD does is modelled from what the code and its comments say of it:

* a schedule request is queued and becomes a run later, or never
  (`actions.go:21-25`);
* it may answer 409 to a schedule request and schedule it all the same
  (`actions.go:41-45`);
* it answers 409 to a stage run only while a stage of the pipeline run is active,
  and then schedules nothing (`stage.go:28-31`);
* it records the approver of a run and whether it was forced (`actions.go:34-38`,
  `stage.go:23-24`), a forced run being recorded under the login that asked;
* a stage that has not run is shown unscheduled with counter 1 (`stage.go:52-53`);
* runs of one stage do not overlap (`stage.go:33-35`).

An outcome without an answer, or a 5xx, leaves open whether GoCD acted; any other
refusal means that it did not.

### The token cache

A handler `r` takes one request after another. `Hit` is the lookup under the lock
that finds a live entry and returns (`auth.go:84-89`). `Ask` is the lookup that
does not, up to the request to GoCD (`auth.go:90-92`). `Answer` is the moment
GoCD accepts the token, `Store` the second critical section with the return
(`auth.go:97-100`), and between the two anything happens: other requests, a
revocation, time. `Refuse` stands for every error of `CurrentUser`: nothing is
cached and the caller gets a 401 (`auth.go:66-70, 93-95`). A missing entry is one
that expired at time 0. `good[t]` remembers for the properties when GoCD last
ceased to accept a token. A token without a name in GoCD's answer has the blank login
for its owner, one more value here; its requests fail in `ToolCalls`.

The hash is a function without collisions (`DigestAssumption`). Clock ticks wait
for requests at their deadline, so a request that asks GoCD ends within `Timeout`:
the http client's timeout covers the answer's body too, and what is left after it
is the second critical section. `TTL` is positive: the SDK's middleware checks the
`Expiration` set at `auth.go:76` right after `Verify`, and with `TTL` 0 it would
refuse nearly every request, which nothing in the configuration prevents.

### Config editing

One document: a pipeline, or a template (`Kind`), which differ in what is checked
before anything is sent. `log` is GoCD's list of changes to it; the position of
the last is its ETag. `request[c]` is the request of call `c`, `arriving` the
requests under way, `answer[c]` the answer under way back, `result[c]` and
`returned[c]` the outcome and the ETag that the call returned, and `read[e]` the
versions whose document editor `e` was given. An editor passes on an ETag of either
kind: of a version it read, or one that a call of its own returned.

| Action | Code |
|---|---|
| `Refuse`, `Send` | `domain/config.go`, `domain/templates.go`: checks, then one request; only an update sends `If-Match` (`gocd/config.go:11-20`) |
| `Return`, `GiveUp` | `doJSON` returns the answer, or the error of a request that was not answered; nothing is sent again, and only an update returns the answer's ETag |
| `GetConfig` | `get_pipeline_config`, `get_template`, which return the document and its ETag |
| `Handle`, `Lose` | GoCD carries the request out and answers as a whole, or never receives it; whoever gave up hears nothing, and the request may still arrive |
| `Redirect` | `net/http` repeats a redirected `POST`, `PUT` or `DELETE` as a `GET` (`client.go:67`): the 200 of the document, or for a create of the collection, is returned as the call's |
| `EditElsewhere` | people who edit in GoCD's own pages |

A redirect that keeps the method (307, 308) sends the change itself again elsewhere,
and is part of the request's way.

### Tool calls

`http[r]` is how far the HTTP side of request `r` has come, `tool[r]` how far the
handler of its tool, which the SDK runs beside it; `told[r]` is what the handler
returned, `holder` the login cells of the access log, `sent[r]` the requests made
to GoCD with their answers and, for the properties, whether GoCD took the change
asked for (`took`), and `log[r]` the lines written for the request. The code writes
all lines to one log; the access line carries a request id, and so do `tool_call`
lines (`mcpsrv/logging.go:48-50`), while an audit line has none. `log` is split by
request so that properties can speak of one.

| Action | Code |
|---|---|
| `Arrive`, `Reject`, `Admit` | the chain up to the bearer token (`server.go:38-43`, `middleware.go:56-94`) |
| `Reply`, `Disconnect`, `Panic` | how the HTTP side ends: with the reply, without its client, or by a panic that `recoverMW` logs |
| `Probe` | `/healthz` and `/readyz` (`server.go:22-36`) |
| `Whoami`, `Read`, `ReadResource`, `Act`, `EditConfig` | a handler up to its first request: principal, audit line, checks |
| `Unregistered` | a tool outside the toolset, or none at all |
| `Ask` | one request of the tool's plan with its answer, and what the handler makes of it |
| `Returned` | `toolCallLogger` (`logging.go:14-55`) |

`Tools` lists for each tool the arguments it checks and the requests it sends, and
is where a tool in the wrong toolset, an unchecked argument or a wrong method would
show. An argument is `good`; `blank`; `odd`, a text with a separator (what
`validateName` refuses) or no number; or `dots`, the text "." or "..", which neither
`validateName` (`domain.go:146-154`) nor `url.PathEscape` (`gocd/actions.go:16`)
stops. A tool's error is an error result, a resource's a Go error
(`resources.go:28-31`); of a tool that reads, the SDK may refuse the output, which is
a Go error too, with a typed nil for a result (`logging.go:33-35`). The polls of a
trigger are one request here; `TriggerPipeline` and `TriggerStage` have them all. The
handler uses the login that the token's owner has, which is what `TokenCacheProofs`
proves of the verifier.

### History

A caller walks: `walk.after` is the cursor it will pass on, `call` the call under
way, `start` the newest run when the first page was served and `seen[i]` how often
run `i` was handed over. `PipelineHistory` is the check of the cursor
(`domain.go:100-114`), `Serve` and `Lose` are GoCD and the network, `Return` is
the client's handling of the page and its link (`pipelines.go:139-195`), `Again`
the caller's repetition.

### The process

`environment` and `file` are the sources of the settings, `config` what
`LoadConfig` made of them (`config.go:36-171`, `main.go:23-43`): sources that do
not validate, or a log file that does not open, end the process at once.
`ConfigLoad` keeps of a setting's text what the code tells apart: whether it is
there, is empty, parses as a duration, has a scheme or a slash, is one of the
toolsets. The level in `config` then decides what is logged, and the certificate
and key whether `Listen` serves TLS or plain HTTP.

`proc` is where `main` stands, `listener` and `errCh` the goroutine that calls
`ListenAndServe`, which may fail at once or later (`StopServing`), `signal` and
`expired` the two contexts. A connection is accepted, and its first request comes in
some time after; then the request is open, and beside it a tool's handler runs, which
may have had its change accepted. `End` is `return` and `os.Exit(1)`: whatever runs
is cut off. `net/http` serves the first request of a connection that was accepted
before `Shutdown` while the server shuts down (`Begin`), and drops the connection if
it sends nothing for 5 s (`Drop`); it closes one that is kept alive between two
requests, and a request that crosses with that is not modelled. What the model shows of the
code beyond its properties:

* a handler whose client has left is not waited for and can be cut off by a
  graceful end with status 0: its `tool_call` line is never written, and the audit
  line is all that is left of its change;
* when listening failed and a signal has come, the `select` may take either, so the
  process may exit with status 0 though it never served;
* `os.Exit(1)` skips the deferred close of the log file.

### The conversions

`Reading` takes an input of one of two kinds, and one action converts it:
`JobConsoleLog` (`readonly.go:224-232`, `files.go:33`, `logs.go:28-38`) or
`StatusError` (`client.go:86-185`). Its properties compare the result with
definitions that go about it another way: a piece of the log between two places,
instead of newlines counted from the end; the set of all fields under all paths,
instead of a recursive descent that appends to a list; a prefix that ends before a
rune, instead of a loop that steps back.

The JSON under a refusal's `data` is a function from the path of each object,
array or other value to the fields that the errors of an object name and to the
keys or indices below it. Errors that are no object (`object` is false) are skipped,
and not searched (`client.go:155`, `client.go:169`). A body's bytes tell white space
from the rest: `TrimSpace` takes it off both ends of the raw text, and a body of which
the read limit cuts off nothing else is still JSON. Names are numbers in the order in which
`slices.Sorted` would put them. `validationDetails` is a recursive function over
the paths, which ends because `encoding/json` bounds how deep values nest
(`Depth`).

### Abstractions

One pipeline, one stage of one of its runs, one document: calls on different ones
share nothing. Names, labels, comments and messages are left out. The read failures
(HTTP, decoding, a cursor link without a cursor, the stage missing) all take the
same branch and are one disjunct. The history page is the newest `PageSize` runs,
as the API returns it; the code's two loops over it compute a maximum and a
minimum and do not depend on its order. Counters are unbounded naturals: Go's
`int` has 64 bits.

## Runs

`CHECK_DEADLOCK FALSE` is set where the modelled system rightly stops: calls return,
GoCD has made `MaxRuns` runs or `MaxChanges` changes, a walk is over, the process has
ended, a conversion is done.

| Run | Question | Properties |
|---|---|---|
| `pipeline_distinct_logins` | two users, foreign runs, retries | `ConfirmedIsOwn`, `ErrorMeansUnscheduled`, `NoDoubleRun`, `NoVisibleRunMissed`, `KeepsPromise` |
| `pipeline_shared_login` | two calls of one user, who also uses the web UI | `SameBaselineSameRun` |
| `pipeline_returns` | does every call return | `CallReturns` |
| `pipeline_lost_answer` | the doc comment's claim about errors (violated) | `ErrorsOnlyBeforeScheduling` |
| `stage_distinct_logins` | the same for a stage, with other stages in progress | `ConfirmedIsOwn`, `ErrorMeansUnscheduled`, `NoDoubleRun`, `OnlyHiddenRunsAreMissed`, `RefusedWhileActive`, `KeepsPromise` |
| `token_cache` | two handlers, two tokens, revocations | `RunsAsTokenOwner`, `OnlyFreshTokens`, `EntriesLastLonger` |
| `pipeline_edits` | two calls and edits elsewhere, requests and answers lost, late or redirected | `NoLostUpdate`, `AppliedOnce`, `ConflictIsWithAnother`, `KeepsPromise` |
| `each_tool` | every tool, resource and probe, every answer | `AuditedFirst`, `SegmentsKept`, `OkMeansDone`, `ErrorMeansNotAccepted`, `CallLogged`, `RequestAccounted`, `Answered` |
| `side_by_side` | two requests of two users under one toolset | `OneIdentity`, `ToolsetKept` |
| `history_walk` | paging while runs are created, with damaged links | `NoGapNoRepeat`, `KeepsPromise`, `Ends` |
| `shutdown` | a process from its sources to its end: any settings, a signal at any moment, a listener that may fail, handlers that may hang | `ZeroMeansGraceful`, `TimeToFinish`, `Precedence`, `PlainOnlyIfMeant`, `Stops` |
| `readings` | the two conversions against their references | `TailOfKept`, `EveryFieldNamed`, `RunesKept` |

The type invariants, and the invariants named under Proofs that no run lists, are
proved and have no run of their own.

What the properties say:

* `ConfirmedIsOwn`: if nobody else forces runs under the login of a call, a
  confirmed counter is a run of that very call. With retries it may be the run of
  an earlier try whose answer was lost. Two calls of one login are outside it:
  the code cannot tell them apart and says so (`actions.go:37-39`).
* `ErrorMeansUnscheduled`: an error means that the request is neither run nor
  queued, unless its answer was lost.
* `NoDoubleRun`: two tries of one call both run only if the earlier one's answer
  was lost. This is the reason for the unconfirmed result (`actions.go:67-70`).
* `SameBaselineSameRun`: the reason why `newInstanceBy` returns the earliest run.
  It needs the window to fit in a page: once the earliest run has left the page,
  a later poll picks another.
* `NoVisibleRunMissed`, `OnlyHiddenRunsAreMissed`: a call that gives up after its
  last poll does so because its run is not in what it read. For the stage this is
  the residual of `stage.go:33-37`, and the only one.
* `RefusedWhileActive`: posting while a stage is active ends in an error, never in
  a wait.
* `CallReturns`: every call ends.
* `KeepsPromise`: the trigger implements `AttributedRun`. The mapping takes the log
  of owners from `runs` (an unforced pipeline run belongs to nobody in particular,
  whatever its approver says), the mark from `base`, and the outcome from `pc` and
  `result`. Requests, pages, attempts and GoCD's queue are hidden: an accepted
  request is a step of the call, a poll that shows nothing is a stutter.
* `RunsAsTokenOwner`: the login a request is audited and attributed under, which
  may come from the cache, is the owner of the token it acts with.
* `OnlyFreshTokens`: a token lets a request in only if GoCD accepted it less than
  `TTL + Timeout` ago. The bound is not `TTL`: an entry's life starts when the
  answer is stored (`auth.go:98`), and GoCD gave the answer up to `Timeout` before.
* `EntriesLastLonger`: when requests with one token ask together, the store that
  comes last does not shorten the life of the entry.

* `NoLostUpdate`: an update made through the server replaces a version whose document
  its editor read or which an update of his own made, with one exception: the ETag
  that a redirected update returned is of whatever stood there, and an update made
  with it overwrites a version its editor never saw. A delete carries no ETag
  (`domain/config.go:48`) and removes whatever is there; nothing is said of it.
* `AppliedOnce`: an editor who repeats an update with the ETag he has, because the
  first answered with an error or not at all, does not make it twice, however late a
  request arrives; and no call changes the document twice.
* `ConflictIsWithAnother`: a 412 is never the call's own doing, so re-reading and
  merging (the tool's advice) is the right answer to it. A client that repeated a
  lost `PUT` would break it. It may be the doing of the same editor's earlier call,
  whose answer was lost.
* `KeepsPromise` of `ConfigEdit`: it implements `VersionedConfig`: a change takes
  effect at most once and only on the version it names; a call that returned
  success has taken effect and one that returned a refusal never will. A call whose
  answer was lost, a 5xx, or redirected (a create, too) promises nothing.
* `AuditedFirst`: before GoCD is sent a change, the log has a line with the tool and
  the token's owner.
* `SegmentsKept`: an argument that goes into a path fills one segment of it: it is
  not empty and holds no separator that is not escaped. It may be "." or "..", and
  what GoCD, or a proxy before it, makes of such a segment is not modelled.
* `OkMeansDone`: a success means that every request of the plan succeeded.
* `ErrorMeansNotAccepted`: when a caller is told of an error, GoCD has taken none of
  the changes asked for, unless the answer to the change was lost or is a 5xx; then
  the error leaves it open, and another try may do the change twice. In particular a
  trigger whose poll failed does not tell of an error.
* `CallLogged`, `RequestAccounted`: each call leaves one `tool_call` line with the
  right `ok`, each HTTP request one access line or one panic line.
* `OneIdentity`, `ToolsetKept`: requests of two users do not mix; a toolset is a
  bound on what can be changed at GoCD.
* `NoGapNoRepeat`: what the caller has is the runs from the newest at its first page
  down to its cursor, each once. `KeepsPromise` adds that it is told of the end only
  when it has all of them.
* `ZeroMeansGraceful`, `TimeToFinish`: status 0 means that a signal came and no request
  was cut off, one that came in while `main` drained included; and one whose caller
  waits is cut off only when the 15 s are over or the server has failed, which the
  status and the log tell.
* `Precedence`, `PlainOnlyIfMeant`: a process that got past loading runs with file
  over environment over default, an empty key of the file included; it serves plain
  HTTP only if no certificate and no key were named where it counts.
* `TailOfKept`, `EveryFieldNamed`, `RunesKept`: the last lines of what was read; each
  validation error once, under its path, before the message is cut to its limit;
  texts cut between runes. A rune that the read limit breaks stays broken, if white
  space before it has let it come into the text.
* `Answered`, `Ends`, `Stops`: every tool call and HTTP request ends, every walk ends,
  and a signal, or a listener that fails at the start or later, ends the process.

### Bounds

Two calls are enough to interfere and every property relates at most two. Two
attempts give a poll that is not the last and one that is. Two tries give one
retry. Three runs and a page of two let a call's run be pushed off the page, or
come after a foreign run, or before one. Codes
are one of each class that the code or GoCD tells apart: accepted, refused,
conflict, no answer (a 5xx is treated like no answer by both). The liveness run
has one try and two runs: the loop is bounded by `Attempts`, not by GoCD.
`pipeline_shared_login` uses the symmetry of its two calls, which are
indistinguishable and appear in no temporal property there.

In `token_cache` two handlers race, two tokens can be confused, and `TTL` and
`Timeout` of two ticks leave room for an answer that is late and an entry that is
not yet used up. The clock stops at tick 4, the first at which a token revoked at
once could outlive the bound.

`pipeline_edits` has two calls of one editor, so that one may repeat the other, and
edits elsewhere, which are the second editor; four changes allow a document to be
created, replaced, deleted and created again, and an update to be made with the ETag
of a redirected one. The answers are one of each class. The
kind is `pipeline`; a template is refused in one more case before anything is sent,
and the proofs cover both.

`each_tool` has one request, because its properties relate a call to itself, but
every tool, every answer and each kind of unusable argument. `side_by_side` has two,
and one tool of each kind. In `history_walk` seven runs on pages of two make up to
four pages, with a last one that is not full, and the caller repeats two failed
calls. In `shutdown` one of two requests can be replied to, left or dropped while the
other is cut off, or comes in behind it.
Its sources vary the certificate and the key together, which validation relates,
and every other setting by itself, each in the environment and in the file:
settings that nothing relates are loaded independently of each other.

`readings`: all logs of up to seven bytes, read up to six, cover newlines at either
end and next to each other, and the cut inside a line. An object holds errors of up
to two fields and up to two members, or an array, whose items have errors too:
errors appear at, above and below each level, three deep, and are an object or not.
Texts of 3 to 15 bytes lie under and over limits of 8 and 12, with a rune across each,
and with white space before, after and across them. `MCReading` also
evaluates `LastLines`, which compares `AreLastLines`, the definition that
`TailOfKept` uses, with lines split one by one from the beginning.

### Fairness

`FairSpec` asks weak fairness of each call's next step only. A request ends
because `http.Client` has a timeout (`client.go`, `GOCD_REQUEST_TIMEOUT`), a sleep
because it is a timer (`domain.go:62-72`), and the Go scheduler runs what is
ready. Nothing is assumed of GoCD: it may never run anything. Nothing is assumed
of callers: they need not retry. With a timeout configured as 0 the client waits
without limit and the assumption fails with it.

The same timeout is behind `WF(Handle)` in `ToolCalls` and the weak fairness of the
client's steps in `HistoryPaging`, where the caller is assumed to go on with its walk.
In `Lifecycle`, `main`'s goroutine, the one that serves, and the timer of
`shutdownCtx` are fair; handlers and clients are not, which is the point of `Stops`.

### The finding

`pipeline_lost_answer` checks the doc comment "Errors are returned only while
nothing has been scheduled yet (validation, baseline read, non-conflict POST
failures)" (`actions.go:46-48`). It does not hold: GoCD may queue the request and
the answer be lost, by the client's timeout, a cancelled request or a gateway's
5xx. The call returns an error (`actions.go:63`) and the run materialises.
`ErrorMeansUnscheduled` and `NoDoubleRun` state what remains true. The same holds
for a stage, whose doc comment makes no such claim of its own.

### Where the documentation says more than the code does

Met while modelling, and followed by the models as the code has it:

* A redirected `POST`, `PUT` or `DELETE` is repeated by `net/http` as a `GET` without
  its body (`client.go:67`): its 200 is returned as a success, with a "new ETag" if it
  is an update (`gocd/config.go:9-10`), though nothing was changed. `Redirect` models
  it; `KeepsPromise` excludes such a call from what a success promises, and
  `NoLostUpdate` an update made with such an ETag.
* "rejects empty names and names that would break the URL path" (`domain.go:140`):
  "." and ".." are let through (`domain.go:146-154`). `SegmentsKept` says so.
* "accessLogMW logs one line per request" (`middleware.go:56`): a panic passes it
  by, and the panic's line is the only one. `RequestAccounted` says so.
* "every mutating action logs action, login, and target" (README of the repository,
  line 369): with `LOG_LEVEL` `warn` or `error` the audit line is dropped
  (`mcpsrv/actions.go:29`). `AuditedFirst` is checked at `info`, and proved for
  `info` and `debug`.
* "Returns the last tail_lines lines" (`readonly.go:217`): of a log over 2 MiB the
  beginning is kept (`files.go:33`), and the lines are the last of that.
  `TailOfKept` speaks of what was kept.
* "0 = whole log" (`readonly.go:108`): 0 is replaced by 200 (`readonly.go:225`).
* "the message ends with the offending fields" (README, line 415): a body over
  64 KiB is not parsed (`client.go:119`), and names none. `EveryFieldNamed`
  says so.
* A duration in the environment that does not parse is replaced by the default
  without a word (`config.go:166`), while the same text in the file is an error.
  `Precedence` says so.

## Proofs

The triggers, for every set of calls, logins and foreign runs, every page size, number of
attempts, retries and runs, from the assumptions named in the modules:

| Theorem | Pipeline | Stage |
|---|---|---|
| `TypeCorrect` | `TypeOK` | `TypeOK` |
| `ErrorsAreSafe` | `ErrorMeansUnscheduled` | `ErrorMeansUnscheduled` |
| `RetriesAreSafe` | `NoDoubleRun` | `NoDoubleRun` |
| `ConfirmsOwnRun` | `ConfirmedIsOwn` | `ConfirmedIsOwn` |
| `SettlesOnOneRun` | `SameBaselineSameRun` | |
| `OverlooksNothingVisible` | `NoVisibleRunMissed` | |
| `OverlooksOnlyHidden` | | `OnlyHiddenRunsAreMissed` |
| `RefusalsAreErrors` | | `RefusedWhileActive` |
| `TriggerKeepsPromise` | `KeepsPromise` | `KeepsPromise` |

The assumptions: the automatic approver is no login; every call has a login;
outcomes are numbers; at least one attempt, one try, one run per page.

The argument has layers, each inductive relative to those before it:

1. `TypeOK`. `attempt` never exceeds `Attempts`: that a miss is counted before it
   is compared is what keeps it there.
2. `Delivery`, the life of requests. `ErrorMeansUnscheduled` is not inductive: a
   retry replaces the request it speaks of. `SentInTime` adds that no request of
   a try to come, or of the current one before its POST, is queued or run;
   `PastTriesLost` that every past try that was sent has lost its answer;
   `PcAgrees` that a call has a result when and only when it is done. Then
   `NoDoubleRun` follows from `PastTriesLost`: of two tries the earlier is past.
3. `Attribution`, whose run is confirmed. `RunsHaveSources` says that a run was
   made for one request, under its login, or for none, as one of the foreign runs.
   `ConfirmedFirst` (pipeline) says that a confirmed run is above the baseline and
   the call's login's, and that no earlier run above the baseline is while it is
   on the page; `ConfirmedLater` is the stage's weaker form. `ConfirmedIsOwn` and
   `SameBaselineSameRun` follow.
4. `RunsAfterBaseline`: a run of the current request is above the call's baseline,
   since the request was sent after it was read. With it a run on the page read by
   the last poll would have been attributed, which gives the two properties about
   overlooked runs.
5. The refinement: initial states map to initial states, and each action to a step
   of `AttributedRun` or to a stutter. The baseline read needs `BaselineIsLength`,
   that the highest counter of the first page is the number of runs.

`TriggerCallProofs` holds the layers 1, 2 and 4 for the steps that both triggers
share, so that each trigger's proof adds only its own actions.

`TokenCacheProofs` proves `TypeCorrect`, `RunsAsOwner` (`RunsAsTokenOwner`),
`AdmitsOnlyFresh` (`OnlyFreshTokens`) and `StoresExtend` (`EntriesLastLonger`) for
every set of handlers and tokens, every `TTL` and `Timeout`. `Owned` adds to
`RunsAsTokenOwner` that the cache, too, holds under a token's key only its owner;
this is where the hash must not collide. `Fresh` bounds, in turn, how long ago a
request was sent (`InTime`), that its answer is not older than that (`Answers`),
and so how long an entry can outlive the token (`Expiry`). `StoresExtend` follows
from the last part of `TypeOK`, that no entry outlives the present by more than
`TTL`.

The other components, each for every value of its constants:

| Theorem | Property |
|---|---|
| `ConfigEditProofs`: `UpdatesAreSeen`, `UpdatesAreSingle`, `ConflictsAreReal`, `RegisterKept` | `NoLostUpdate`, `AppliedOnce`, `ConflictIsWithAnother`, `KeepsPromise` |
| `ConfigEditProofs`: `RefusalsHold`, `SuccessesAreReal` | `RefusedMeansUnchanged`, `OkMeansDone` |
| `ToolCallsProofs`: `ToolsetBounds`, `CallsAreLogged`, `RequestsAccounted` | `ToolsetKept`, `CallLogged`, `RequestAccounted` |
| `ToolCallsProofs`: `ChangesAreAudited`, `IdentityKept`, `ErrorsAreSafe`, `SuccessesAreReal`, `SegmentsStayWhole` | `AuditedFirst`, `OneIdentity`, `ErrorMeansNotAccepted`, `OkMeansDone`, `SegmentsKept` |
| `ReadProofs`: `PagesMeet`, `NothingTruncated`, `CursorsAccepted`, `PromiseKept` | `NoGapNoRepeat`, `NotTruncated`, `CursorAccepted`, `KeepsPromise` |
| `ReadProofs`: `TailIsKept`, `FieldsAreNamed`, `RunesAreKept` | `TailOfKept`, `EveryFieldNamed`, `RunesKept` |
| `LifecycleProofs`: `ZeroIsGraceful`, `FailuresLogged`, `CompleteTrue`, `NoCallerCutOff`, `TimeIsGiven` | `ZeroMeansGraceful`, `FailureIsLogged`, `CompleteIsTrue`, `CutOffUnseen`, `TimeToFinish` |
| `LifecycleProofs`: `MeantSettings`, `PlainIsMeant` | `Precedence`, `PlainOnlyIfMeant` |
| `TypeCorrect` of each, but for `Reading` | `TypeOK` |

* `ConfigEdit`. `IInv` is `TypeOK`, what holds of each change in the log
  (`EntryOK`: an update names the version before it, whose ETag its editor was given,
  and a call occurs once), and what holds of each call (`CallOK`: a request under way has
  not acted yet; an answer and a result tell of the log what they say). The step that
  needs care is `Handle`: a request may arrive long after its call gave up, and its
  tag, fixed when it was sent, must still be one that the editor was given. Two
  updates given one ETag cannot both be made because each names the version just
  before its own place in the log (`UpdatesAreSingle`). A redirect is a stutter of the
  register.
* `ToolCalls`. Requests share nothing but the process, so `IInv` is a shape for all
  and `Sound` for each: `sent[r]` is a prefix of the tool's plan, with the path made
  of its arguments; up to the last one those requests succeeded, and what was told is
  what the last answer gives; a call that tells of an error has had no change taken by
  a decisive answer (`ErrorsAreSafe`). `ToolsetBounds` follows: a change that was sent comes
  from the plan of a registered tool (`ChangesComeFromPlans`), and the tables say
  which those are. `TraceInv` is a second layer, about lines: none about a call, or a
  request, that goes on, and one, at one place, about each that is over
  (`OnlyAt`). A step of the handler and a step of the HTTP side write different lines
  to the same log, so each must keep the other's count; `LineWritten` is that
  argument, made once. `CallsAreLogged`, `RequestsAccounted` and `ChangesAreAudited`
  assume `Loud`, a log level of `info` or `debug`: above it these lines are not
  written.
* `HistoryPaging`. The invariant is `NoGapNoRepeat` together with what a page under
  way is: its newest run is next below the cursor that was sent, which is the walk's.
* `Lifecycle`. `IInv` ties `proc`, the listener, the log and the requests together:
  after `Drained` the listener accepts nothing, no request is open and no connection
  has its first one to come, so that nothing can slip in before `return`.
  `TimeToFinish` is inductive with it: nothing is cut off while the process runs, and
  `End` cuts off what is open only from `ServerExited` or `GiveUp`. `SettingsOK` says
  that a process past loading runs with what `Load` makes of its sources, that they
  were accepted, and that the listener serves as the settings say. What `Load` makes
  of any two sources is stated apart (`LoadPrecedence`, `PairOrNone`).
* `Reading`. The invariant, `ReadInv`, says that the output is what the code makes of
  the input; the work is in lemmas about the conversions, for every log, body and
  limit. `LogsAssumption` and `BodiesAssumption` say that logs and texts are
  sequences of bytes and a refusal's data a finite tree no deeper than `Depth`.
  - `TailGivesLast`: counting the newlines from the end finds the place where the
    last `n` lines begin. `FromTheEnd` and `FromTheStart` say where an element of a
    finite set of places stands when they are counted.
  - `FieldsNamedOnce`: `FlattenSeq` and `ValidationDetails` are recursive functions.
    That such a function exists is shown by looking at the least length, or the least
    distance from the deepest level, for which it would not (`JoinedExists`,
    `DetailedExists`); the same form shows what it gives (`FlattenGives`,
    `NodeList`): at each path, the fields at and below it and no others, each once.
    That paths under different members are different (`Parts`) is why none is named
    twice.
  - `CutsAtRune`: the byte after the cut begins a rune, and no later one that the
    limit admits does.

Every safety property of the passing runs is proved. Model-checked only are the
liveness properties `CallReturns`, `Answered`, `Ends` and `Stops`, since
fairness is beyond this prover.

## Not modelled

* `list_pipelines`' grouping and the latest instance of the dashboard, and the
  compact projections of agents, templates and instances: each reshapes one answer
  and decides nothing. Their requests, checks and errors are in `ToolCalls`.
* Accept headers, request bodies and the wording of errors: data. Leading and
  trailing space of an argument (`TrimSpace`) is folded into `blank`.
* `obs/log.go` but for its levels and for a log file that does not open: appending to
  the file, JSON lines and random request ids are input and output.
* YAML decoding, `time.ParseDuration` and JSON decoding are external and appear by
  what the code makes of their results (`config.go`, `client.go`, `gocd/types.go`).
* `http.Server`'s `ReadHeaderTimeout` and `IdleTimeout`: they close connections on
  which no request is being handled.
* The MCP SDK and `net/http` are external; the models assume that the SDK hands a
  handler the principal of the HTTP request its call came in, and that
  `http.Server` accepts no connection after `Shutdown`, serves those it has accepted
  before, and waits for them until its context ends.
* A request timeout of 0, which the configuration allows: `http.Client` then waits
  without limit, and the liveness properties fail with their assumption.
* Memory: the token cache never evicts (`auth.go:98`).
