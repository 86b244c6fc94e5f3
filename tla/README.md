# A TLA+ model of the bulk crawler pipeline

The repository holds three programs that share a few parts:

* the **Phase I crawler** (`main.py`, `crawler/pipeline.py`): one producer per
  adapter discovers tasks, a pool of workers fetches, parses, deduplicates and
  stores them, and paginated adapters resume at a checkpoint;
* the **Phase II signal ingestion** (`crawler/signals/`): cron starts a process
  every hour that reads news and job listings, keeps what is fresh and moves a
  watermark per source;
* the **extraction engine** (`extraction_engine/`, TypeScript): turns documents
  into structured records through a chain of LLM providers.

This directory models the state machines of all three, and the algorithms
whose outcome is hard to test: what several coroutines, several processes,
failures, aborts and restarts do to queues, slots, budgets and the database, and
what the order of inputs does to a result. It states what makes them correct,
checks it with TLC on small instances, and proves the central part for every
instance with TLAPS.

## Inventory

### Parts that are modelled

| part | state | operations | meets |
|---|---|---|---|
| Pipeline and queue (`pipeline.py`, `queue.py`) | bounded `asyncio.Queue` with its count of unfinished items, stop event, position of each coroutine | `producer`, `worker`, `run`, `shutdown` | adapters, HTTP client, deduplication, checkpoints |
| Deduplication (`deduplication.py`) | two memory sets per process, the `records` table with a unique content hash | `check_and_save_record` | workers of every process |
| Checkpoints (`checkpoint.py`, `discover()` of the adapters) | one row per adapter: offset and total | `get_checkpoint`, `update_checkpoint` | producer at start, worker at the end of each batch |
| HTTP client, rate limiter, retry (`http_client.py`, `rate_limiter.py`, `retry.py`) | global and per-domain slots, a lock, a last request and a pause per domain, one browser | `fetch`, `fetch_rendered`, `acquire`, `release`, `record_retry_after`, `retry_with_backoff`, `close` | workers, signal adapters |
| Signal ingestion (`signals/orchestrator.py`, `storage.py`, `freshness_gate.py`) | lock per source and process, crawl state row (watermark, snapshot), record tables | `ingest_source`, `save_*_record`, `evaluate`, `record_attempt`, `advance_successful_watermark` | signal adapters, robots checker, database |
| Date parser (`signals/date_parser.py`) | none | `extract_date` and its readers | signal adapters, freshness gate |
| Extraction engine (`engine/extractor.ts`, `providers/`, `utils/backoff.ts`) | chunk queue and index, attempts, repairs left, candidates, abort signal | `extract`, `extractWithProvider`, `complete`, `sleep` | providers, chunker, consolidator |
| Chunker, consolidator (`chunker/semantic.ts`, `engine/consolidator.ts`) | none | `chunkDocument`, `consolidateCandidates` | extraction engine |
| Entity resolution (`resolver.py`, `resolver.ts`) | indexes over a seed file | `resolve` | exporters, extraction results |

What is hard, and what would make each correct:

* *Pipeline.* Producers, workers, `run()` and a signal interleave at every
  `await`. Every task is in exactly one place, `task_done()` matches `get()`,
  nothing stands behind a poison pill, the network client is closed last, a run
  that returns without a signal has consumed everything, and there are no more
  than three ways in which a put can block for ever.
* *Deduplication.* The memory check, the SELECT and the INSERT are three
  awaits, and commits fail. A call is nevertheless one atomic step, a record is
  reported new once, and the memory tier never hides an unsaved record.
* *Checkpoints.* Workers finish batches in any order, tasks fail, responses are
  malformed, the listing grows in front and the process may stop anywhere. The
  offset lies behind a batch that was dealt with, the total never counts too much,
  and a resumed crawl of one worker passes over nothing it could read.
* *HTTP client.* A request takes two slots and a lock in three awaits and sleeps
  with them; a 429 may arrive meanwhile. Slots and locks come back through every
  outcome, requests to a domain keep their distance, a pause holds back all but
  the one request that had looked before, and every request ends.
* *Signal ingestion.* Runs of two processes overlap, discovery breaks off,
  saves fail, processes die. The watermark stands for a crawl of all that discovery
  handed on, the snapshot names stored items, a URL has one row, what is
  inferred to be new is new, and every run gives its lock back.
* *Date parser.* Ten places may show a date, some relative to the clock. A date
  in a standard form is read the same in every run unless an age in words is read
  before it, and the locale matters only where both readings are dates.
* *Extraction engine.* A 413 splits the chunk under the loop index; retries,
  repairs and splits share a loop and have three budgets; the caller may abort
  at any moment. No chunk is skipped or answered twice, at most one request goes
  out after an abort, it ends, and in all it is an ordered fallback.
* *Chunker, consolidator, resolvers.* No text is lost, and no value of a chunk
  but to a later one of another kind; the order of the seed makes no difference;
  both languages agree on what they read alike; a new entity takes no query away
  from an old one.

### Not modelled

* *Token buckets, error classifier, JavaScript adapter* (`anti_bot/`): only the
  tests use them; neither program asks a bucket, classifies an error with them
  or renders through the adapter. (`TokenBucket` creates a `global_semaphore`
  that nothing acquires.)
* *The cache of the robots checker* (`signals/robots.py`): it has a gap between
  lookup and store: two callers may both fetch the file, and the later answer stays,
  be it the allow-all of a fetch that failed. A run asks for its items one after
  the other, so only two sources on one host can meet there. The
  verdict is in `SignalIngest`: an item that robots.txt forbids is passed over,
  or let through where the file could not be fetched.
* *Content cleaner, URL canonicalizer, feed and page parsing, the normalizers of
  names and domains*: text processing. Models take canonical URLs, normalized
  names, and what is shown at each place. The normalizers of the two languages
  are not the same function (`\w` knows only ASCII letters in JavaScript,
  `normalizer.ts:45`, and all of Unicode in Python, `normalizer.py:91`), so a name
  and a domain have a normal form for each of them.
* *Schema validator and JSON repair*: an answer is valid or it is not.
  (`README.md:376` says malformed JSON is repaired; the adapters parse inside
  `complete()`, `groq.ts:100`, so there it is an error of the provider.)
* *Exporters, schemas, configuration, logging, command lines*: input, output and
  data.

## Modules

| module | what it is |
|---|---|
| `WorkPool` | what the pool promises about one task: enqueued, taken, finished, in this order, each once |
| `CrawlPipeline`, `CrawlPipelineProofs` | the life cycle of one run of the crawler; its invariants and its refinement of `WorkPool` |
| `UniqueStore` | what `check_and_save_record` promises: an atomic save-if-absent |
| `DedupStore`, `DedupStoreProofs` | the two-tier deduplication engine in several processes; its invariants and its refinement of `UniqueStore` |
| `SequentialCrawl` | what a resumable crawl promises: items in order, none skipped |
| `CheckpointResume`, `CheckpointResumeProofs` | checkpoints of one paginated adapter across restarts; invariant, total, and for one worker the refinement of `SequentialCrawl` |
| `PoliteClient` | what the client promises sites and callers: as many requests on the wire as slots, a delay between them, one more at most in a pause, a retry budget |
| `PoliteFetch`, `PoliteFetchProofs` | the way of a request through slots, lock, pause, delay and retries; its invariant, spacing, and its refinement of `PoliteClient` |
| `SignalLedger` | what a reader of the database sees of a source: records that are only added, a watermark with nothing missing behind it |
| `SignalIngest`, `SignalIngestProofs` | the ingestion of one signal source in several processes; snapshot, watermark, rows, and its refinement of `SignalLedger` |
| `DateParser` | where a date of publication is looked for, and which readings it has |
| `FallbackChain` | what `extract` promises: providers in order, the first success, from all of the text |
| `ExtractionEngine`, `ExtractionEngineProofs` | one call of `extract`; its invariant and its refinement of `FallbackChain` |
| `Chunker`, `Consolidator` | cutting a document, merging what its chunks gave: the loops, step by step |
| `EntityResolver`, `EntityResolverProofs` | the resolvers of both languages; that they agree, whatever the order of the seed and whatever is added to it |
| `Algorithms`, `AlgorithmsProofs` | one call of any of the four, with any arguments; what holds of their results, all of it proved |
| other `MC...` | constants for TLC, nothing else |

`CrawlPipeline` treats what a worker does with a task as one busy period that
succeeds or raises. `CheckpointResume` opens that period up, using a save as one
atomic step; `DedupStore` justifies that step by implementing `UniqueStore`;
`PoliteFetch` opens up the fetch in it and shows that it ends. The queue between
producer and workers is first in, first out, which is why `CheckpointResume` lets
the workers take the batches directly in order. `SignalIngest` takes an item's
date as listed, on its page, or absent; `DateParser` says when that is settled by
the page alone. `ExtractionEngine` takes as a parameter how a text is cut, with
the assumption that the chunks tile it; that those of `Chunker` do is a theorem.

Operators called *faulty variant* sit next to the operator they vary. Nothing
uses them: they are plausible mistakes, each of which makes a property fail when
it takes the place of the correct operator.

### CrawlPipeline

A coroutine is a program counter, an action what it does between two awaits.
`Discover`, `Put`, `ProducerEnds` are `producer()`; `Loop`, `Get`,
`IdleTimeout`, `Finish` are `worker()`, with `TakeHead` for what follows
`queue.get()`; `ProducersGathered`, `Drained`, `PutPill`, `PillsPut`,
`CloseClient`, `Export` are `run()` in order; `Shutdown` is the signal handler.
`queue` and `unfinished` are the two pieces of state of the asyncio queue, and an
action that puts waits for room. `wait_for(queue.get())` runs the get as a task of
its own, so `Loop` always suspends the worker, even over a queue that holds
something, and stop may be set in between. Time is abstract: `IdleTimeout` is possible
while producers still work only if `SlowDiscovery`, otherwise only once they are
done.

### DedupStore

One action per await of `check_and_save_record` (`CheckMemory`,
`SelectExisting`, `Commit`) and per continuation (`AfterCommit`,
`AfterConflict`, `AfterFailure`). `db` is the committed rows, shared by all
processes; the memory sets belong to a process and die with it (`Crash`). A
failing commit may or may not have taken effect.

### CheckpointResume

An item is numbered by its position in the listing when the first run began.
`Grow` puts a new item in front, as arXiv does, which is read newest first
(`arxiv_papers.py:45`): every item then stands one position later. `Take` is
`discover()` plus `get()`, `Fetch` the request, whose response lists what stands
at the positions of the batch at that moment, `Item` one round of the worker's
loop over `parse()`, `ReadRow` and `WriteRow` the SELECT and the write of
`update_checkpoint`; `UpdateRow` follows the unit of work, which writes only the
columns that changed. `Restart` ends the process at any point and starts it again
from the row. `Unparsable` is a response that `parse()` logs and drops: the worker
moves on as if the batch were empty. `FetchFails` and `TaskFails` are the except
branch of the worker; `missed` records what the two kinds of failure left unread.
The growth is bounded by `MaxGrowth`. SPARQL results, which Wikidata returns
without an ORDER BY, may change their order between two requests; that is not
modelled.
The adapters `sec_edgar`, `github_tools` and `saashub_products` put no `offset`
into their tasks and so write no checkpoint; the products adapter reads its own
and does not use it. `reset_checkpoint` is called by nothing.

### PoliteFetch

`Enter`, `TakeSlot`, `TakeLock`, `PauseOver`, `DelayOver` are the awaits of
`fetch` and `acquire`: global slot, slot of the domain, lock, the sleep of a
pause, the sleep of the polite delay. `Send` stamps the time and releases the
lock. `Succeed`, `Fail`, `Transient`, `RateLimited` are the answers, each with
`Release`; `Retry` and `BackoffOver` are `retry_with_backoff` around it, with the
jitter, which shortens a Retry-After too. `Launch` starts the browser of
`fetch_rendered` (which nothing calls yet), and `Close` closes it. Times are
durations counted down by `Tick`; a sleep that is over may end later. `late`
counts the requests sent into the running pause, and is history only.
`Client` is the view of `PoliteClient`: of a request it shows whether it waits,
is on the wire, or has ended (`Phase`), and of slots, locks and sleeps nothing.

### SignalIngest

`Start` ... `Report` are `ingest_source` from the lock to its release, one
action per await. An item is a canonical URL, its content hash the URL with the
title, and the title depends on whether the detail page could be fetched.
`Listing` says what the source lists at each time; a run hands on no more of it
than its limit (`Reach`), and ends as a success all the same. A setup says in
which process each call runs, the limit, and of which kind the adapter is.
`Accepted` is `FreshnessGate.evaluate`. `Find`, `Update`, `CheckHash`, `Insert`
are `save_news_record` and `save_job_record`, which are the same up to the
columns; `FindsTwo` is `scalar_one_or_none()` on two rows. Discovery fails in two ways. In
`DiscoverFails` the RSS adapter raises: what was listed before is processed, and
an error is counted. In `DiscoverPartly` the API or HTML adapter logs the error
and goes on with the next URL of its listing (`swallows`): items may be missing
anywhere, and no error is counted. `missed` is what was published and not handed
on by discovery, for whatever reason, and `gap` the same of the run whose
watermark stands; both are history. `AdvanceWatermark` reads the crawl state and
`WriteWatermark` writes, with an await in between, the columns that differ from
what was read, so two processes may mix their watermark and snapshot.
`Robots` passes over what is forbidden
(`MayNotFetch`), unless robots.txt could not be fetched (`MayFetch`). `FatalError` and `SaveFails` include commits that
raise after they took effect. `Crash` ends a process. Sources are independent,
so there is one. `Skew` and `Tolerance` are the limit for dates in the future and
the five minutes of the first-seen check. Left out: the run history, the
counters, and the cap of 5000 on the snapshot. `Ledger` is the view of
`SignalLedger`: the clock, the crawl state row, and which items have a record
(not how many rows or under which titles).

### DateParser

What is shown at a place is a record: a date in a standard format, so many hours
ago, figures, or nothing readable. A date is a number of hours, the result a
sequence of at most one. `extract_date` and its parts (`extract_from_json_ld`,
`Structured`, `TimeTag`, `Selected`) are lists of readings, of which the first
that is a date counts (`FirstOf`); the `parse_...` operators are the readers. The
calendar is that of `datetime`. "`datePublished` is prioritized" holds within a
node of JSON-LD, not across nodes. A relative text in the first time tag is tried
before the `datetime` attribute and the text of a configured element
(`date_parser.py:345` and 374), where `README.md:304-307` puts relative dates
after configured selectors: a page with "2 hours ago" in its time tag and a date in
the configured element looks two hours old in every run. `Settled` is what a page
must show to be read the same whenever it is read, and excepts that case.

### ExtractionEngine

The text is a row of characters, a chunk a stretch of it. `Start` is what
precedes the chain; `Call`, `Valid`, `Repair`, `Invalid`, `Split`, `BackOff`,
`SleepOver`, `GiveUp` are the retry loop of `extractWithProvider`, `Merge` and
`MergeFails` its end, `ProviderFails` the catch block of `extract`. `Splice`
replaces the chunk at the index by its pieces. `TypedError` is what adapters make
of an HTTP status, a timeout or a broken connection. `Abort` is the caller's
signal, at any moment. An abort in the middle is caught like any failure: the
next providers are begun and end at once, and the caller gets "all providers
exhausted".

### Chunker

A text is the sequence of its characters other than white space, each with its
place in the string and what lies before it: a heading, a blank line, a row of a
list, the end of a sentence, a space, or nothing to cut at. The recursion of
`breakDownBlock` is a stack of blocks that all end within each other, `pos` the
next character, `current` the chunk being packed. `Whole` and `BreakDownText` are
the outermost call, `Pack`, `StartChunk` and `BreakDownUnit` the three branches of
the loop over the units, `Slice` the hard split, `Return` the end of a block.
`Block` and `UnitEnds` are `splitUnits`: the most important boundary inside a
block, and where its next unit ends. A chunk is the set of its characters and its
length, which counts the blank lines units are joined by (`Join`). The limit is
above zero, since the hard split never ends for a limit of zero; texts have no
white space at their ends and are no longer than `maxTotalChars`.

### Consolidator

An object is a function from the paths of keys to values, so that merging it at
any depth is merging path by path; `Object` says that more keys follow, and
everything that says nothing is `None`. `Merge` takes one candidate more. The
schemas leave objects open (`canonical.ts:8`, `additionalProperties`), so two chunks
may give values of two types at one path: then the later one takes the place of
the earlier one and of all that stood below it (`Replaced`, `consolidator.ts:63`).
A list that meets an object is spread into it under its numbers; the model keeps
the object and no paths for the numbers.

### EntityResolver

A name is its spelling and the tokens each language leaves of it (`norm`,
`normTS`), a query a name and the domain each language makes of what it is given;
`Tiers` and `TiersTS` list what each tier finds, `Decision` takes the first that
finds anything. In a well-formed seed (`WellFormed`) no two entities share an id, a
domain or a normalized canonical name. The languages agree where `ReadAlike` holds:
they normalize the query alike, and it meets nothing in the seed that only one of
them reads. In the shipped seed there are two such things: the stored normalized
alias `wb` of one entity, which Python alone reads and which is not that of a
verified alias, and an alias with a Greek letter and a zero, of which TypeScript
leaves `0`. So `WB` is resolved in Python only and `0` in TypeScript only.

### Algorithms

A behaviour is one call. `Cut` and `Merge` are the loops of the chunker and the
consolidator; `Resolve`, `Read` and `Date` return in one step the answers to all
queries, in all locales, at all times, which the properties compare.

## Runs

| run | checks | instance |
|---|---|---|
| `pipeline_run` | inductive invariant, one place per task, `task_done` balance, pills last, puts block in three ways only, completeness, refinement of `WorkPool`; under fairness, that only such a put or a worker that left early keeps the run from returning, and only a signal or such a worker a task from being consumed | 2 adapters (3 tasks and 1, one adapter unknown to the workers), 3 workers, queue of 2 |
| `pipeline_idle_pool` | *violation* of `RunTerminates` | queue of 3, slow discovery, no signal |
| `dedup_safety` | inductive invariant with the memory bound (`StoreInv`), refinement of `UniqueStore` | 2 processes, 3 workers, 2 records of one URL, memory of 1 |
| `checkpoint_workers` | inductive invariant, total never too high | 2 workers, batches of 2 and 1, 2 runs, every failure, one item in front |
| `checkpoint_sequential` | nothing skipped, refinement of `SequentialCrawl`, everything collected | 1 worker, every failure, one item in front, 3 runs |
| `checkpoint_overtaken` | *violation* of `EverythingCollected` | 2 workers, 2 runs |
| `polite` | inductive invariant (slots, locks, budgets, at most one late request: `PoliteInv`), spacing, refinement of `PoliteClient`; under fairness, every request ends | 4 requests, 2 of them renderings, 3 to one domain; 3 global slots, 2 per domain; delay 1, Retry-After 3, 1 retry |
| `signals_run` | inductive invariant with the stored snapshot, one row per URL in one process, watermark means complete but for a gap, refinement of `SignalLedger`; under fairness, every run ends | 2 calls in one process, each kind of adapter, within and beyond the limit, or in two processes with a limit of one; a dated and a forbidden item, a clock read early, every failure |
| `signals_partial` | *violation* of `PartialNeverAdvances` | 1 call of an adapter that logs its errors |
| `signals_inferred` | *violation* of `InferredIsNew` | 1 call, undated item |
| `extraction` | inductive invariant (chunks tile the text, none skipped), at most one stray request, refinement of `FallbackChain`; under fairness, every extraction ends | chains with 0, 1 and 2 available providers, 3 chunks that split into up to 3, 2 retries, 2 repairs |
| `algorithms` | chunks fit, nothing lost, chunking progresses, richest value kept, order of the seed irrelevant, languages agree, no redirect, locales agree, markup settles | limit of 4 characters, 5 chunks; inputs in `MCAlgorithms` |

Why these bounds are enough to be interesting: the queue of the pipeline holds
neither all tasks nor the three pills, so every put can block, and `run()` too can
wait for room that never comes; the memory sets hold
one hash, so each insertion evicts; two workers in one process and one in
another cover races inside a process and across; the second batch of a run is
short, so a full and a short batch both end at a checkpoint, and the listing can
grow between any two steps of a batch, of a run or of two. In `polite` two of
the three requests to one domain have its slots, one in flight or asleep and one
waiting for the lock, so what keeps the second back in a pause is the lock and
not the number of slots; the third holds a global slot while it waits for one of
the domain, and the three can hold all the global slots while the fourth request,
to a domain that is idle, waits. Retry-After is longer than the delay, so the
pause is felt. `signals_run` has a dated item, which is due at every time, and one without
a date that is forbidden; adapters of both kinds, limits of none, one and both of the listing,
one process and two, and a clock that may be read a whole unit before the lock is
taken, so that the later of two runs can have the earlier reference time. In
`signals_inferred` the undated item is published late. Calls repeat without bound
until the clock stops. The
provider chains have one provider that is not registered, between two others or
alone, and a piece of a split chunk can still be too large, or be too small to split.
`algorithms` has texts of up to four words, which fit into a chunk together, only
alone, or not at all, with every separator, and more chunks than are allowed;
triples of candidates, nested up to three deep and of different types at one path;
seeds of two and three entities that share names, aliases, tokens and domains, with
a name that only one language reads in full;
figures at the ends of months, of February, of the clock and of the calendar; and
pages with the ten places filled or not in many combinations. Bounds named in the modules:
`MaxRuns` (starts of a process), `MaxGrowth` (items put in front of the listing),
`MaxTime` (clock). Symmetry is used in
`checkpoint_workers` only, which has no temporal property. Deadlock is not
checked where a system may legitimately stop (a process that is not restarted
again, a clock at its bound, requests and calls that have ended) or where a
coroutine waiting for ever is what the liveness properties are about.

### What the violations show

* `pipeline_idle_pool`: `worker()` leaves after one idle second with an empty
  queue, whether or not producers are still at work. If discovery is slower than
  that, all workers leave, and `run()` polls for ever for a queue that nobody
  empties. It is one of three ways in which `run()` can hang; `ReturnsUnlessStuck`
  and `StuckInThreeWays` say that there are no others. The second is a signal over
  a full queue: the workers leave, a producer or `run()` waits for room, and the
  "graceful shutdown lifecycle" of `README.md:140` does not end. The third needs
  neither: when everything is drained `stop` is set, the idle workers leave, and
  the pills alone fill a queue that has room for fewer than there are workers
  (`pipeline.py:207`). With the defaults, 50 workers and room for 10000, that does
  not happen, which is the theorem `RoomForPills`.
* `checkpoint_overtaken`: a later batch is checkpointed before an earlier one;
  after a restart at that moment the earlier batch is never fetched. With one
  worker the crawl is in order (proved), and what it then passes over is named:
  the batch of a task that raised and that of a response that could not be parsed
  (`arxiv_papers.py:60`) are not fetched again, since a later checkpoint moves past
  the first and the second counts as done; and of a source that is read newest
  first, the papers that were added in front are never fetched.
* `signals_partial`: `README.md:331` says that failed or partial crawls never
  advance the watermark. The HTML and the API adapter log an error of the listing
  and go on (`html_adapter.py:89`, `api_adapter.py:90`), the run counts as a
  success, and the watermark moves over items nobody saw. A listing longer than
  the limit, 20 by default (`cli.py:29`), has the same effect in every adapter.
  `WatermarkMeansComplete` says what is true of all of them: nothing is missing
  but what discovery did not hand on, and where it raises and the source is listed
  in full that is nothing.
* `signals_inferred`: the snapshot is what the last run *saved*, and "first seen"
  is the time of the current run, so an undated item that was listed and turned
  away at the last successful crawl counts as new at the next one.

Some disagreements have no run of their own:

* *Two processes.* `README.md:359` says that in-memory locks prevent overlapping
  runs, next to the recipe for cron, which starts a new process every hour. Two
  processes do not share a lock. Then a URL can get two rows: the index on
  `(source_id, canonical_url_hash)` is not unique, and two runs may read it under
  two titles. From then on each save of that URL raises (`FindsTwo`) and the source
  never succeeds again. `OneRowPerUrl` is therefore about the calls of one process.
  And the watermark can move back, since the command line reads the clock before
  anything else (`cli.py:63`); so no property says that it only rises.
  `signals_run` contains both cases, and its other properties hold in them.
* *Dates.* A relative text in the time tag is read before the configured element
  (see `DateParser`); `MarkupSettles` excepts pages that show both.
* *Languages.* The resolvers differ on two aliases of the shipped seed (see
  `EntityResolver`); `LanguagesAgree` is about queries that both read alike.

`README.md:102` says that a domain pauses on Retry-After. One request that had
already looked may still go out (`AtMostOneLate`): the bound is one, not none.

### Fairness

`CrawlPipeline` and `CheckpointResume` assume weak fairness of each coroutine:
the event loop resumes whatever can go on, requests and queries end within their
timeouts. `PoliteFetch` assumes only that something happens while anything can:
the loop, the clock and the total timeout of aiohttp. `ExtractionEngine` assumes
that requests and sleeps end, by the timeouts of the engine; nobody need abort.
`SignalIngest` assumes that a run that was started goes on, never that one is
started. Nothing is assumed of signals, of crashes and restarts, or of which
task, request or save fails. `DedupStore` has safety properties only.

## Proofs

All theorems hold for every value of the constants that satisfies the `ASSUME`
of the module: any finite set of workers, any queue size above zero, any tasks;
any processes and records; any batch size above zero; any requests, domains,
slots and delays; any listings; any text, way of cutting it and budgets; any
limits of the chunker above zero; any candidates, seeds, queries and pages.

* **CrawlPipeline.** `PipelineInv` is inductive. `TaskInOnePlace` alone is not:
  that a pill ends only an idle worker and that nothing follows a pill needs the
  phases of `run()` (`RunPhases`), which say when producers are done, when stop
  is set and when pills may be in the queue. From `PipelineInvariant` follow
  `TypeCorrect`, `OnePlace`, `PillsComeLast` and `UninterruptedRunComplete`.
  `StuckExplained` follows too, by cases on who waits for room over a queue that is
  full and whose workers have all left (`StuckCauses`): with no signal and no worker
  gone early the producers are done and the drain loop has seen the queue empty, so
  what fills it is pills. `RoomForPills` is the corollary for a queue with room for
  all of them. `Balanced` (`task_done`) is a
  second induction over cardinalities, on top of the first. `Refinement` maps a
  task to its status and shows, action by action, that a step moves one task one
  place forward or none.
* **DedupStore.** `DedupInv` adds to "memory is backed by the database" and
  "saved once" the claims of calls that have committed and not yet answered
  (`OneClaim`) and what a lost race knows (`LostRaceIsStored`).
  `MemoryBacked` and `ClaimedOnce` are corollaries, `BoundedMemory` is an
  induction of its own, `StoreInvariant` joins the two, and `Refinement` shows that every step of a call is its start, its
  one effect, its return, or invisible.
* **CheckpointResume.** `CheckpointInv` says that a worker in the middle of a
  batch has dealt with all behind its position, and that the offset is the end of
  a batch that was dealt with. `SequentialRefinement` and
  `SequentialSkipsNothing` assume one worker and nothing else; the run
  `checkpoint_overtaken` shows that this is needed. Their invariant (`InOrder`) says
  what lies behind the checkpoint, behind the next batch and behind the one at hand
  is handled, in the numbering of the first listing: items put in front move a
  position to an item that was handled before, so growth only makes what is
  promised smaller.
  `NeverOvercounts` needs no such premise: its invariant (`CollectedInv`) assigns to each
  worker a set of saved records, disjoint from those of the others, that it has
  counted and not yet written, and bounds the row, and every total a worker has
  read, by the records nobody claims.
* **PoliteFetch.** `FetchInvariant`: a slot is free or held by one request under
  way, and the lock is held by the request that sleeps before it goes out.
  `Spacing` needs that such a request sleeps long enough (`DelayIsLongEnough`).
  `PoliteInvariant` adds `LateInv`: once a request was sent into a pause, the
  holder of the lock sleeps until the pause is over; `LateOnce` is a corollary.
  `Refinement` maps each action to a step of `PoliteClient` or to none: waking up
  from either sleep is `Send`, whose four conditions come from four parts of the
  invariant (a request that holds its slots leaves, by counting, fewer than all
  of them to those on the wire: `SlotsConserved`; delay, `DelayIsLongEnough`;
  pause, `LateInv`; not yet sent, the program counter). That a rendering without a browser fails
  before it was ever sent is one more invariant (`LaunchedFirst`).
* **SignalIngest.** `SignalInvariant` is about the positions of the runs: what a
  run has listed, what it has looked up, and that what it saved is stored.
  `SnapshotStored` follows. `CompleteWatermark` adds `CompleteInv`: in a run
  without errors each item that is due is stored, still before the run, or among those
  that discovery did not hand on (`missed`), and where discovery raises and the source
  is listed in full there are none of these (`NothingDropped`). Since records are never deleted, what was due stays
  stored as long as the watermark stands (`WatermarkHolds`). Nothing is assumed of
  adapter, limit and listing; `RaisingAdapterComplete` is the case in which the
  sentence of `README.md:331` holds as it stands. `Refinement` maps an insertion to
  `Store`, the first attempt and the watermark to the two changes of the crawl state,
  and all else to none, for every number of processes. `OneRow` is an induction with
  the lock of one process (`LockInv`: one run at a time, and an insertion is only
  made for a URL without a row).
* **ExtractionEngine.** `EngineInvariant`: the queue always tiles the text, and
  the candidates are as many as the chunks before the index. That a split keeps
  this is a lemma on replacing one element of a tiling by a tiling of it.
  `EngineImplementsFallback` follows, `OneStray` from the places a request can
  come from once the caller has given up. That `Resolve` returns a sequence is an
  assumption, because `SelectSeq` is a recursive definition; TLC evaluates it.
* **EntityResolver.** `TwinsAgree`: for every seed and every query that both
  languages read alike (`ReadAlike`, which is not so for two aliases of the shipped
  seed) the two resolvers give one answer by one tier. What a query is compared with
  is then compared alike (`ComparedAlike`). The one tier that is written differently compares a number of tokens
  and inclusion where the other compares sets (`SimilarAlike`): two finite
  sets of equal size, one inside the other, are equal. `OrderIrrelevant`: in a
  well-formed seed the indexes that keep the last entity of a key find the same
  in any order. `NobodyRedirected`: each tier finds one entity more or the same
  (`OneMoreEntity`), and the first tier that finds anything comes no later; that
  there is a first one, among any natural numbers, is `LeastElement`.
* **Algorithms.** `AlgorithmsInvariant` joins three inductions.
  *Chunker* (`ChunkerInv`): the chunks, followed by the one being packed, are the
  text up to `pos`, in order, none empty and none longer than the limit (`Tiled`,
  `CutTypeOK`). This needs to know that the blocks of the stack lie within each
  other, that the outermost is the text, and that nothing is being packed while a
  block is sliced (`Nested`), or `Slice` would push a chunk in front of one that
  belongs before it. One lemma per action; `ChunksFitAlways` and
  `NothingLostAlways` follow, the second with the chunks that are cut off.
  That the loops end is `EveryCutProgresses`: every step lowers `Remaining`, the
  characters left and, for equal characters, the blocks to open and to leave.
  `BreakDownUnit` moves no character and opens a block, so this needs that no
  more than five blocks are ever open (`Finer`): the boundary a block is split at
  is more important than all that are left in it, so the block of one of its
  units is split at a lesser one. `NeverStuckAlways` says that there is always a
  unit or a slice to take, which is where the limit has to be above zero.
  *Consolidator* (`ConsolidatorInv`): the merged value is the richest of the
  candidates that still stand: those that no later candidate has replaced by a value
  of another kind, at the path or above it (`Standing`). `OneMore` is the step.
  `StandsAbove` says that what stands at a path stands in objects all the way up,
  `StillStanding` which candidates a further one leaves standing. *Calls* (`CallsInv`): a result is what
  the function returns, from which the theorems of the resolvers give
  `SeedOrderIrrelevantAlways` (every permutation of the seed), `LanguagesAgreeAlways`
  and `NoRedirectAlways`. For the dates, `FirstIs` and `FirstSomewhere` say what
  the first reading of a list is; `LocalesAgreeAlways`, and under
  `Settled` also `MarkupSettlesAlways`, follow for any figures and any number of
  nodes and meta tags.

Every invariant and every safety property of a passing run is proved, some under
the assumptions named above. Only model-checked are the liveness properties
(`ReturnsUnlessStuck`, `EveryTaskConsumed`, `EverythingCollected`,
`EveryFetchEnds`, `ExtractionEnds`, `EveryRunEnds`), which are beyond the prover.
That the loops of the chunker end is a liveness property too; it is proved as an
action property, of a natural number that every step lowers, and an invariant,
that a step is possible.

## What is left

* Token buckets and the robots cache, once the programs use the first and share
  the second.
* The normalizers of both languages on a common alphabet, to derive which names
  they read alike.
* Results whose order changes between two requests (SPARQL without an ORDER BY).
* The numbers under which the consolidator spreads a list into an object.
* The run history and the counters of the signal ingestion, and its cap on the
  snapshot.
* A composition of `PoliteFetch` with `CrawlPipeline`: at present the first shows
  that the busy period of the second ends, on the instance of its run.
