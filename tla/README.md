# Long2ShortAgent: specifications and proofs

TLA+ specifications of the services in this repository, model-checked with TLC
and proved about with TLAPS. Paths below are relative to `src/`.

## 1. The system

| Component | State | Operations | Hard part |
|---|---|---|---|
| Shortener: convert, internal create (`Shortener/internal/logic/convertlogic.go`, `internalcreateshortlinklogic.go`) | table `short_url_map`, INCR key `a`, Bloom filter key `bloom` | probe the URL, dedupe by MD5, self-link check, draw numbers, INSERT, add to filter | four remote stores, no transaction; two conversions of one URL; a failure between any two calls |
| Shortener: internal update (`internalupdateshortlinklogic.go`) | the row, its cache keys | read, merge, write all columns, delete keys | read-modify-write without version; stale cached copy |
| Shortener: show (`showlogic.go`, `clickevent.go`) | none of its own | filter, cached lookup, expiry, XADD, redirect | stale rows, time passing, lost clicks |
| Shortener: cached model (`model/shorturlmapmodel_gen.go` over go-zero `sqlc`) | row cache and the `md5` and `surl` index caches in Redis | FindOne, FindOneByMd5, FindOneBySurl, Insert, Update | fills race deletions, placeholders race inserts, deletions that fail are retried later |
| Traffic service: consumer (`TrafficService/internal/consumer/click_consumer.go`) | consumer group, pending entries, `uv:` sets, `short_url_click_event`, `short_url_daily_stat` | create group, read a batch, store, count, acknowledge | redelivery and repetition, six calls per click any of which may fail |
| Traffic service: summary (`TrafficService/internal/logic/`) | none | three queries | consumers write between them |
| AI agent: sessions and tasks (`AIAgent/internal/logic/`, `svc/servicecontext.go`) | chat sessions and tasks, in maps behind a lock | read a session, merge, run an engine, save the task and the whole session | overlapping turns of a session, sessions made of a request id that anyone may give |
| AI agent: reading a text (`chat_logic.go`, from line 496) | none | codes, URLs, dates, ranges and numbers of days, found by regular expressions | what belongs to what in a text, Chinese numerals |
| AI agent: command line (`AIAgent/internal/cli/repl.go`) | a conversation: session, history, switch of the tools | lines, `/new`, `/reset`, `/tools`, `/quit` | a history that is cut, turns that fail, a session that goes on |
| AI agent: server (`AIAgent/internal/handler/`) | replies and streams on their way | serve a turn, answer or stream it, tell of a task | clients that leave at any point, a restart that loses all memory |
| AI agent: engines and client (`AIAgent/internal/agent/`, `tools/internal_client.go`) | none of their own | eino DAG of four agents, rule engine, HTTP calls to the two services | the fallback starts anew after a part of the DAG was done, answers that are lost or cut off, a model that may name any tool or never answer, five ways to an update |

The short-link service and the traffic service meet in one place, the Redis
stream `shortlink:click:event`: `Check` of `Shortener.tla` appends to it, `Emit`
of `ClickConsumer.tla` is that append seen from the other side. The agent calls
both over HTTP as any other client.

What makes each part correct:

* a URL has one code, a code one link, and a code once given stays reachable;
* no cache ever serves a row that was not committed, or one of another link; what it holds
  beside the table will be deleted, but for the races and crashes that are named;
* a redirect goes where the link has led, in one version of it that had not expired;
* an update changes what it was sent and nothing else;
* a click is counted at most once, and at least once if nothing fails;
* an acknowledged entry is stored; the parts of a summary cover its total;
* a turn of the agent writes nothing twice, says it succeeded only of what was
  done, changes links only where that is allowed, and remembers nothing of
  another session;
* what a client of the agent is told is true and whole: a task, a reply, a stream,
  the history of its conversation, the days that it meant.

The hazards of the code, each at its line and with the properties aimed at it,
are listed in `PROJECT.json`.

## 2. Modules

| Module | Contents |
|---|---|
| `LinkRegistry` | what the short-link service promises: a registry of links, one step per effect |
| `Base62` | pure functions: the code of a number, the number of a code |
| `Shortener` | the handlers over table, caches, sequence, filter and stream, one remote call per step |
| `ShortenerProperties` | invariants, action and liveness properties, the inductive invariant `IInv`, the refinement `Registry`, documented statements the code breaks |
| `ShortenerCoherence` | the handlers with a history of the races that the order of statement and deletion leaves open, and what the caches may hold because of them |
| `MCShortener`, `MCCoherence` | small instances |
| `ShortenerProofs` | the inductive invariant of `Shortener` and what follows from it; the causes of stale caches |
| `RegistryProofs` | who sent what, codes that stay reachable, and that `Shortener` implements `LinkRegistry` |
| `ClickCounter` | what the traffic service promises: each click counted at most once |
| `ClickConsumer` | the workers of the consumer group, one call to Redis or MySQL per step |
| `TrafficProperties` | its properties, the invariant behind them, the refinement `Counter` |
| `ClickConsumerProofs` | theorems about `ClickConsumer` |
| `TrafficSummary`, `SummaryProperties` | the summary query composed with the workers |
| `SummaryProofs` | theorems about `TrafficSummary` |
| `MCTraffic`, `MCSummary` | small instances |
| `ChatAgent` | turns of the agent: sessions, tasks, both engines, the client, and the links as the agent sees them |
| `ChatProperties` | its properties and the invariant behind them |
| `QueryText` | pure functions: what the agent reads in a text |
| `ChatCli`, `ChatServer` | the agent's two faces, each over `ChatAgent`: the conversation of the command line; replies, streams, tasks and restarts of the server |
| `AgentMain` | either of them, as `agent.go` starts the agent |
| `AgentProperties` | what the agent promises to those who talk to it, and what that rests on |
| `ChatProofs` | theorems about `ChatAgent` |
| `AgentProofs` | theorems about `AgentMain`: turns, tasks, replies, history |
| `TalkProofs` | theorems about `AgentMain`: follow-ups, streams, numbers of days |
| `DataLemmas` | induction over numbers and finite sets, sums, codes |
| `MCChat`, `MCAgent` | small instances: the requests, texts, the model's arguments and the configurations |

`ChatCli` and `ChatServer` extend `ChatAgent` with variables of their own, and
`AgentMain` composes them: a turn's steps (`Work`) are those of `ChatAgent`, and
around them a step is one of the command line or of the server. `LinkRegistry` is
what `Shortener` implements. `ShortenerCoherence` adds history variables to
`Shortener`; no step reads them.

### 2.1 Shortener

A request is a process that is served once; `pc` names its next remote call.
`Converters` run `Convert` (the internal create wraps it and reformats its
answer), `Updaters` the internal update, `Showers` the redirect. The steps of
the cached model (`IdxGet` to `PriSet`) are shared: a converter looks up by
digest, the others by code, and an updater comes back a second time for the
`FindOne` inside the model's `Update`, now with the row it is about to write.

* `Fail(r)` ends a request after any of its steps. It stands for a call that
  fails, a cancelled context, a panic (the dedupe lookup dereferences a nil row
  when it fails) and a server that dies: in each the client gets an error or
  nothing, and what was done stays done. Requests keep nothing else in memory.
* Errors the code swallows are outcomes of the step: the number 0 of a failed
  INCR, index keys that could not be cached, a lost XADD, deletions of keys that
  are queued and retried (`delRetry`).
* Data: a URL also stands for its MD5 digest, a number for its base62 code, which
  `CodesTellNumbersApart` (section 4) allows; `CreatedIsReachable` speaks of the texts. `Fold` is the collation of the `surl` column,
  `Hash` the bits of a code in the filter. The clock has `MaxTime + 1` ticks.
* The self-link check looks up the base path of the digest, which equals no
  stored code; only the placeholder it leaves under a key nobody else reads
  could be seen, so it is one step without effect.
* `past` (every committed version of every row) is a history variable; no step
  reads it.

`ShortenerCoherence` remembers three things. `overtaken` are the versions which a
lookup had loaded and not yet cached when a statement replaced them; `missed` the
codes placed while a lookup was about to cache that they are not there; `died` the
requests that ended between their statement and the deletion of the keys. Whatever
the row cache holds beside the table must come of one of them, or be about to be
deleted (`StaleRowsHaveACause`, `HolesHaveACause`). Nothing is said there of two
kinds of keys that the code never deletes, so that only their time to live ends
them: a placeholder under another spelling of a code that the collation takes for
the same, and the index keys and placeholders of a digest that an update gave to,
or took from, a link whose copy it found was another one.

### 2.2 ClickConsumer and TrafficSummary

The stream is a sequence, an entry its position. `last`, `pel` and `origin` are
the group's last delivered entry, its pending entries and the position where it
was created (`$`). A worker is at one of the calls of `consumeOnce`. In an execution
either nothing fails or any of the calls in `Faults` may (`failing`), so that one
run checks safety under faults and liveness without them. A failed write may have been
applied all the same, and a lost reply of XREADGROUP leaves entries delivered.
`Emit` may append a click that is in the stream already: the Redis client
repeats an XADD whose reply is late, with the same event id. A key is a code and
a day. `counted` is history: the clicks whose statistics were written.

`TrafficSummary` adds requests that run the three queries in `Order`, each an
atomic read of the tables, between the workers' steps.

### 2.3 ChatAgent

A turn is a request to `/agent/chat` (`Chat`) or `/agent/execute` (`Execute`),
served once; `pc` names its next call, to the model or to a service. `Chat` is
what happens in memory before the first call: the session is read, the request's
context, the session and what was extracted from the text are merged in this
order, and the turn goes to an engine or to the model directly.

* The DAG's agents are `IntentAgent`, `PlannerAgent`, `ToolAgent`, then `Tool`
  once per call, then `VerifierAgent`; the rule engine is `Classify`, `Tool`,
  `RuleDone`. `FallbackOrErr` starts the rule engine with nothing of what the
  DAG did. Of an intent only the tools that it leads to are kept (`ToolsOf`).
* What the model says is any answer the code can handle: any intent, any plan,
  up to `MaxCalls` calls of known and unknown tools with arguments from `Args`.
* A request has an id (`RequestIds`) that nothing checks. Without a session id its
  turn gets the session that `OwnSession` makes of that id, which is among the
  `Sessions` that a client may name, as it is in the answer: two turns with one id
  share a session, and a third may name it.
* Updates are gated where the code gates them: in `dispatchToolCall`, twice in
  `executeToolPlan` and twice in the rule engine (`RuleCall`). `UpdateShortLink`, the
  client, is not. Creations are not gated.
* `Cancel` is a request's context: the client left, or the server's time is up
  (`etc/ai-agent.yaml`). No call is made after it, a DAG stops between two nodes,
  and what is in memory (task, session) is saved all the same.
* A call to a service is refused by the client, done and answered, done and
  answered with a body that was not read (the client ignores that error, so that
  the call is ok and its output empty), done and not heard of, or not done. The short-link service is the map `links` with what its
  callers can tell of creation and update; that a service goes on after the
  client gave up is seen as done at the time of the call.
* `writes` is history: which engine of which turn made which write. A creation that
  found the URL converted already counts as a write, as its caller cannot tell.
* Left out: `LastShortURL`, `LastTaskID`, `LastIntent` and the time of a session
  (written, never read by a handler that decides anything), wording of answers,
  validation: a request without an id, or without a query where an engine asks for
  one, is answered with an error and has no effect. `MaxSteps` is taken to suffice
  for the four nodes, as in `etc/ai-agent.yaml`.

### 2.4 QueryText

`Extract` is `extractContextFromQuery`. A text is a sequence of tokens: the words,
labels, separators, codes, URLs, dates and numbers which the regular expressions
tell apart, each with what they take of it. So one token may be read as several
things, as the code reads it: a URL is a URL, its first path segment a code, its
scheme a code after a label. A number is the sequence of its digits, and
`parseChineseNumber` works on them as the code does. `Written` is independent of
it: the usual ways of writing 1 to 99 and the full hundreds. `ChatAgent` takes
`Reads`, what is read in a text, as a parameter, so that its theorems hold for any
extraction; `AgentProperties` assumes that it is `Extract`.

### 2.5 ChatCli, ChatServer, AgentMain

The command line reads a line when the last one was answered (`AtPrompt`), sends
it as a turn with its session, its history and an operator (`CliRequest`), and
keeps the line and the answer unless the turn failed (`Answered`). `/new` takes
the session of the clock's second, which may be the one it is in. `talk` is
history: the turns answered since the conversation was last cleared.

The server keeps for each turn how it is answered and how far that is. A reply
has a number of runes; a stream is `Meta`, a `Delta` per piece of `splitByRune`,
and `DoneEvent`. What a reply says is the first call that there is something to
tell of (`Tells`, `Said`), with the code that it answered, if it was read.
`HangUp` is a client that leaves while it is answered, `Gone`
while its turn runs. `Restart` loses sessions, tasks and the turns in progress.

## 3. Runs

| Run | Instance | Shows |
|---|---|---|
| `convert` | two conversions and an update, two URLs, reserved code 1, last two codes folded together | `TypeOK`, `ExistingWasTrue`, `CreatedIsReachable`, `ReservedCodesUnused`, `StaleRowsHaveACause`, `HolesHaveACause` |
| `update` | two updates and a visitor on one link, asked for by a code that the collation identifies with its own; the clock ticks | `CopiesCommitted`, `VersionsOfOneLink`, `FieldsWereSent`, `RowsKeepTheirCode`, `RedirectsServeAVersion` |
| `live` | a conversion and an update by a code that exists or does not, reserved code 2, fair | `IndexesPointRight`, `ImplementsRegistry`, `EveryRequestEnds` |
| `clicks` | two workers, three entries of up to three clicks, one click without a code, all faults or none | `TypeOK`, `PvCountsStored`, `AckedIsStored`, `CountsAsPromised` |
| `summary` | one worker and a summary, three clicks of two days and two referers, LIMIT 1, all faults but of SADD and early expiry, or none, fair | `SummaryTypeOK`, `SummaryAddsUp`, `UvAtMostAddresses`, `CountsSettle` |
| `agent` | two turns, one session that is named, made of a request id or both, one link, four configurations | `AgentTypeOK`, `FallbackRepeatsNothing`, `SucceededIsDone`, `SessionsApart`, `UpdatesNeedPermission` |
| `front` | `AgentMain`: a conversation of two lines, or a server with one turn and one restart; 34 texts; both engines; fair | `HistoryIsTheTalk`, `FollowUpStaysWithLink`, `DaysAsTold`, `ToldTaskIsFound`, `StreamIsTheReply`, `ReplyIsTrue`, `EveryTurnEnds` |

`FallbackRepeatsNothing` deserves a word. Nothing in the fallback prevents a
repetition; it holds because after its tools were called a DAG fails only when
its context is cancelled (the verifier's own failure is ignored), and with the
same context the rule engine can make no call. The mutant, a verifier whose
failure counts, repeats a write at once.

`EveryTurnEnds` has an exception, and the code needs it: the models of the DAG are
called without a time limit (section 3.1). It says that nothing else keeps a turn
from its end.

Bounds. Races need two requests of a kind, or one of each of two kinds, on one
link; three requests at once already cover every pair with a bystander that
fills caches. `MaxSeq` leaves room for one number per conversion, a reserved one
and the 0 of a failed INCR. `Ids` has one row more than the table starts with,
per conversion that can insert. Four filter bits give codes whose bits others
set. Three or four stream entries with batches of two give partial batches, a
click repeated within a batch and across two, and two workers with one each.
An INSERT is not enabled when all `Ids` are used, which no run reaches.
In `agent` two turns are enough for a session to be read, saved and read again,
or read twice and saved twice; a plan of two tools (`update_and_query`) gives
partial failures, so that `MaxCalls` is 1; two codes and two URLs let a turn
create, find or change a link.
In `front` the command line has two turns, since a follow-up and a history that is
cut (at one round) need two; the server has one, since its replies and streams
meet in nothing but the sessions, which `agent` checks. Its lines are a link in a
session that a later line goes on with; its texts name eight numbers, in figures
and in words, as past and as future days: units, tens with and without digits on
either side, a full hundred. Three runes in pieces of two make a stream whose last
piece is not full.

Deadlock is not checked: requests and turns are finitely many and end, and a
stream that is full and read is the end of a run.

Fairness. `LiveSpec` of `Shortener` assumes that a goroutine that can take a
step does (a handler never waits for another one). It assumes nothing of retried
deletions, of the time to live of cache keys or of failures. `LiveSpec` of
`ClickConsumer` assumes that a worker's loop goes on while it has something to do.
`LiveSpec` of `AgentMain` assumes that a turn's step is taken, but for those that
await a model of the DAG (`AwaitsModel`). The other calls have limits of their own
after which they fail: `LLM.TimeoutMs` for the classification and a direct chat
(`intent_model.go:52`, `chat_logic.go:133`), the client's for a call to a service
(`servicecontext.go:58`); and no goroutine holds the lock of the context across a
call. A request that is answered in one reply has the server's limit
(`etc/ai-agent.yaml`, `TimeLimit`), which ends its wait for a model; a stream has
none, and the command line runs on `context.Background()`. What is done is printed
or sent, as the same goroutine does next. It assumes nothing of
users, clients, the model or the services. `ChatAgent` alone states no fairness.

### 3.1 Where the code and its documentation differ

| Run | Property | Execution |
|---|---|---|
| `dead_link` | `StoredPassFilter` | conversion ends after the INSERT and before the filter; the link answers 404, and converting its URL again answers that it exists |
| `collation` | `FreshNumbersAccepted` | codes that differ in case are one key in MySQL |
| `unhandled` | `EveryEntryHandled` | pending entries are never read again |
| `memory` | `NewTargetIsSent` | a turn names a new target in its text; the session's remembered URL comes first and is sent |
| `tools_off` | `ToolsOffMeansTalk` | the command line names an operator in every request, and whoever names one gets tools: a line creates or changes a link while the tools are off |

Read in the code while modelling, and the model behaves so, with no run of its own:

* a lookup that loaded a row before an update may cache it after the update deleted
  the key, and visitors are then redirected over an expired link, against
  `showlogic.go:57`, until the cached row runs out (`overtaken` in `StaleRowsHaveACause`;
  a server that dies before it deleted the key leaves the same);
* two updates of one link that overlap: the later write restores the field that
  the first one changed (`internalupdateshortlinklogic.go:46-69`, against the
  comment at line 33 that the fields are changed independently);
* the self-link check takes the base path of the digest and never refuses
  (`convertlogic.go:60`), so that a short link can be shortened;
* a click stored but not counted is acknowledged as a duplicate when its entry is
  repeated, and stays uncounted (`click_consumer.go:142-145`);
* the address of an event is `RemoteAddr` with the client's port
  (`showlogic.go:77`), so that unique visitors (`traffic.sql:28`) count
  connections;
* a link that a session's update does not mention keeps its target, but a session
  that remembers the expiry of one link sends it with an update of another
  (`chat_logic.go:243`); of two overlapping turns of a session the later save
  drops what the earlier learned (`chat_logic.go:46`, `servicecontext.go:91`);
* `AllowWriteActions` gates updates only, while `config.go:30` names creation too;
* a write that a DAG made before it was cancelled is missing in the saved task,
  which lists the calls of the rule engine;
* `/new` within the second of the last session goes on with its memory
  (`repl.go:152`), and of the history that the command line sends no model ever
  sees anything, as a turn with an operator never goes to the model directly;
* what is read in a text may not be what it says. A URL's first path segment is
  read as a code, and so is the word after 短链 whatever it is (of `短链
  https://...` the code is `https`, of `短链7天后过期` it is `7`), which the reply
  of a creation then corrects in the session; a URL that Chinese text follows
  directly takes it along. The first date of a text with 过期 is an expiry, also
  when it is said of something else; 有效期 with a date gives none; 大后天 is
  read as 后天. 一百二十 is 20, 一百五 is 100, and 三百六十五 is not read;
* the models of the DAG are made without a time limit (`eino_engine.go:123-127`;
  `LLM.TimeoutMs` is not used there), so that a turn of the command line
  (`repl.go:51`), or of a stream whose client stays, waits for ever for a model that
  does not answer;
* a request without a session id shares the session of every other one with its
  request id (`chat_logic.go:219-224`), which is not checked to be new;
* of a call whose body could not be read (`internal_client.go:142`, `184`) the reply
  says that it was done and names no code (`chat_logic.go:462`, `472`);
* `idempotencyKey` is never compared with anything, so that an instruction that is
  sent again is carried out again;
* the reply to an update says that the target was changed also when only the
  expiry was (`chat_logic.go:378-486`).

## 4. Proofs

Every theorem holds for all values of the constants that satisfy the assumptions
stated in the modules. `PROJECT.json` lists them with the properties they state.

**ShortenerProofs** proves, for all sets of requests, URLs, codes, rows and for
every collation, filter and initial table, `Spec => []IInv` and from it five of
the invariants and two action properties.

They are not inductive as they stand. `CopiesCommitted` needs that a request at
`priSet` holds a committed row of the id in its hand; that needs that index keys
lead to ids of stored rows (`IndexesPointRight`), which needs that the id a
request found belongs to what it asked for (`AskedBy`), also across an update
that overtakes it; and that an update writes the code of its id
(`VersionsOfOneLink`) needs that its stale copy was a version of that id. So
`IInv` is the conjunction of what the stores hold (`StoresOK`) and what each
request holds at each call (`RoleOf`, `LocalsOf`, `AskedBy`, `ExistingOf`).
Since a row is never removed and versions are only added, what a request knows
survives the steps of others: the lemmas `Others`, `Quiet` and `Combine` state
this once, and there is one lemma per action.

The causes of stale caches are proved of `CoherenceSpec` from `CoherenceInv`: a row
in the hand of a lookup is the table's or was overtaken (`FillingOK`), a lookup that
found no code was right or missed it (`DenyingOK`). A row is cached only from such a
hand (`WhoCaches`), the table changes only by a request that is then `Pending`
(`WhoWrites`), and what is pending stays so, is queued or deletes the key
(`PendingKept`, `RetryKept`).

**RegistryProofs** adds `Origins` to `IInv`: each field of each version was there
first or was sent by a request, and of the conversions that have placed a row no
two have the same number. That gives `FieldsWereSent` and `CreatedIsReachable`.
`ReservedCodesUnused` follows from the numbers that a conversion may hold at its
INSERT. `ImplementsRegistry` takes the table as a map from codes to links, which
is a function because codes are unique; `Insert` is the registry's placing of a
link, `Write` its change, the answers of `BloomAdd` (or the dedupe) and `Check` are
what clients are told and visitors sent, and every other step is a stutter.

**ClickConsumerProofs** proves, for any number of workers, clicks, keys and
addresses and any set of faults, `Spec => []IInv` of `TrafficProperties`, from it
`TypeOK`, `PvCountsStored` and `AckedIsStored`, and that the workers implement
`ClickCounter` (`ImplementsCounter`). `PvCountsStored` rests on `pv[k]` being the
number of clicks of `k` counted (`PvIsCounted`); that a step adds a click not
counted before needs that a worker between INSERT and statistics holds a click
that nobody counted (`WorkerOK`) and no other worker counts (`OneCounts`), which
the unique event id gives. The refinement maps the append of an entry to the
report of its click, the step that writes the statistics to its count, and every
other step to a stutter; that each visitor's increment is 0 or 1 comes from `IInv`.

`UvAtMostAddresses` is proved under its two named hypotheses, one worker and a
Redis that keeps what it is told (without either the code does not have the
property, and says so for the first, `click_consumer.go:200`). The strengthening:
unique visitors of a key are at most the addresses in its set of visitors, less
the one which the worker has added but not counted; and the set holds only
addresses of stored clicks.

**SummaryProofs** proves `SummaryTypeOK` and `SummaryAddsUp` for any number of
workers, requests and clicks, any finite set of keys, any `Top` and all faults.
`SummaryIInv` adds to `IInv` what each request has been told: that after each of
its statements, what the next one will find covers what it was told already
(`TotalCovered`, `TrendCovers`, `TrendCovered`, `RefsCover`). It is kept while
consumers write because tables only grow (`TablesGrow`), it leads from one
statement to the next because `pv` of a key never exceeds its stored clicks
(`PvStored`), and it rests on the order of the three statements: reversed, it
fails (that is the mutant). Since a summary only reads, `SummarySpec => Spec`, and
all that is proved of the consumers holds beside it (`SummariesDisturbNothing`,
`SummaryUvBounded`).

**ChatProofs** proves, for any turns, requests, texts, tools that the model names
and configurations, `AgentTypeOK`, `FallbackRepeatsNothing`, `SucceededIsDone` and
`UpdatesNeedPermission`. The fallback repeats nothing because of `WritesOK`: a
write of the DAG belongs to a turn that the DAG serves, or that has ended its run,
or that falls back cancelled, and the rule engine goes on only for a turn that is
not. `SucceededIsDone` needs `CallsOK`: every write of a turn is among its calls
or one of its calls failed, which after a fallback is the failed classification.

`UpdatesNeedPermission` goes through the three ways to a tool: in each of them an
update that is made was let through by a gate of that way (`ToolCalls` says which
calls a step makes).

`SessionsApart` is proved by `SessionsOK`: what a turn holds was asked by itself
or remembered by the session it read, what a session remembers comes of turns of
it that are over, and a turn that is over changes no more. That the session of a
turn is the one it named, or the one made of its request id, is part of it.

**AgentProofs** proves for `AgentMain`, so for conversations and for servers that
restart: the theorems of turns again (`MainTypeCorrect`, `MainTurns`, `MainApart`,
`MainGated`, for which a restart is a further step), `ToldTaskIsFound` (by `TaskKept`: a turn that ended was
saved under what it was answered, unless it is past), `ReplyIsTrue` (by
`CallsAreDone`: a call that was answered was done, under the code of its answer if
one was read; and the call that a reply tells of is one of them, `FirstIsTold`) and
`HistoryIsTheTalk`, for every number of rounds: cutting the history after each
turn is cutting the whole conversation once.

**TalkProofs** proves what users of the agent rely on, also for `AgentMain`:

* `FollowUpStaysWithLink` by `TalkOK`: the command line has one turn at a time; a
  turn that was answered has told its session the code of its last call that had
  one (`LearnsCode`), nothing else is told to the session until the next line is
  read (`LinksFollowed`), and that line takes the code from there, since a
  session's memory comes before what is read in a text.
* `StreamIsTheReply` by `StreamOK`: of a stream some first `k` pieces were sent,
  they make the first `k * Size` runes (or all of them), and the other pieces are
  left. `Pieces` and `PieceAdded` say what `splitByRune` cuts, for every length
  and every `Size`; the last piece is the one that may be short (`Ceiling`).
* `DaysAsTold` by `ContextKept` (a turn goes by the context it merged when it
  began) and `NumbersRead`: `parseChineseNumber` reads 1 to 99 and the full
  hundreds as what they mean, in each of the ways they are `Written`; which token
  of a text is read is then `RangeRead` and `ExpiryRead`. The assumption on texts
  is `WordsAssumption`: they are sequences of tokens, and the numbers of days are
  among those. Of other numbers (一百二十) the code reads something else, as listed
  in 3.1.

**DataLemmas** holds what several of these need. The library's rules of induction
take an operator, which the provers cannot instantiate, so that induction is done
here by a smallest counterexample (`Smallest`, `FiniteInduction`), which only needs
that the natural numbers are well founded. With it: sums over finite sets as
the community module folds them (`SumEquation` and what follows, since the order
of the terms must be shown not to matter), and base 62. `CodesAreReadBack`:
`String2Int` of `Int2String` of a number is that number, so that two numbers never
have the same code (`CodesTellNumbersApart`), on which taking a number for its
code rests. The recursive functions behind both are shown to exist and to be
unique (`SumsExist`, `SumsAgree`, `CodedExist`, `ReadsAgree`) before their equations are used.

Only model-checked: liveness, that is `EveryRequestEnds`, `CountsSettle` and `EveryTurnEnds`, since fairness and ENABLED are out of the
prover's reach. Every other property of the passing runs is a theorem.

## 5. Not modelled

* The MySQL sequence (its constructor is commented out), the model's Delete (not
  called), the audit table (not written by any code).
* The 64 bits of a number: its text has at most eleven digits and is written and
  read back without overflow. `String2Int` has no caller; `MCShortener` evaluates it
  on the first 4001 codes.
* The HTTP probe beyond its failure, parsing and validation of requests, the
  token of the internal routes, configuration files, the traffic service's handler.
* Loss of Redis data other than by its time to live. Keys of visitors differ in
  case where the tables' keys do not, so that codes which differ in case only
  share statistics and not visitors; the codes of a run of `ClickConsumer` are
  taken to differ otherwise.
* `Shortener` composed with `ClickConsumer`. They share the stream alone, which
  the first appends to and never reads; `Emit` allows every append of `Check`, in
  any order and repeated, so that the composition has no behaviour which the two
  do not have apart.
* Two agents, or an agent and other clients, on one short-link service: `links` is
  the service as one agent sees it. The overlap of requests in the service itself
  is what `Shortener` is about.
* Of the agent: regular expressions over characters (texts are tokens), wording of
  replies, the traffic figures in an answer, the time a session was last used.
* A `Cancel` of the command line: its context is never cancelled by itself, and a
  user who interrupts it ends the process; the model allows no such step for it.
