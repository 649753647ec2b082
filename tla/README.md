# Aniani in TLA+

Aniani is a single-process, in-memory observability server: it ingests logs, metrics and traces over HTTP and gRPC,
answers LogQL, PromQL and TraceQL, offers tools to coding agents over MCP, evicts by age and capacity, and writes
snapshots to disk. This directory holds TLA+ models of the parts of it whose correctness depends on state, order and
failure, the TLC runs that check them, and proofs checked by TLAPS. Source paths are relative to `src/`.

## 1. Inventory

| Component | State it keeps | Operations | Interacts with | What makes it correct |
|---|---|---|---|---|
| Log store (`src/store/log_store.rs`) | streams, label index, label values, `stream_ids`, trace index, counter | ingest, query, range read, two evictions, clear, clear_service, rebuild after restore | ingest handlers, LogQL, MCP tools, eviction task, snapshots: all under one `RwLock` | the index answers as a scan would; a label set names one stream; entries sorted; counter exact |
| Metric store (`metric_store.rs`) | series, indexes, `series_ids`, name registry, metadata, counter | name check and registration, metadata, sample insertion, selection, evictions, clears | OTLP metrics, remote write, PromQL | one source per visible name; samples in order; known types survive |
| Trace store (`trace_store.rs`) | traces, service, name, status and attribute indexes, counter | ingest, evictions, clears, index reconciliation | OTLP traces, TraceQL | indexes exact after partial removals |
| Label index and selection (`store/mod.rs`, `posting_list.rs`) | posting lists, interner, regex cache | maintenance, `select_indexed_ids` | log and metric stores | selection = scan |
| TraceQL and trace views (`query/traceql/eval.rs`, `handlers.rs`, `mcp/tools/handlers/trace_query.rs`, `mcp/synth/trace.rs`) | none; `query_traces` holds a page of ids between two locks | selectors, structural operators, pipeline, search, a trace as list and as tree | trace store | index narrowing invisible; descendants = transitive closure; a limit keeps the newest; every span shown once |
| LogQL (`query/logql/eval.rs`, `handlers.rs`, `mcp/tools/handlers/logs.rs`) | none | selection, pipeline stages, limited streams, range aggregation, `query_logs` | log store | a limit keeps the newest; windows count what a query finds; filters agree with selectors; truncation is told |
| PromQL evaluation (`query/promql/eval.rs`, `eval/`) | none | selectors, range functions, vector matching, aggregation, label functions | metric store | a range query is instant queries step by step; rates see through restarts; matching depends on labels only |
| Reports (`mcp/synth/`, `api/diagnose.rs`, `summary.rs`, `catalog.rs`, `services.rs`, `status.rs`) | none | health scores, activity, catalogs, counts | all three stores | what several reports compute separately agrees |
| Times and durations (`ingest/mod.rs`, `promql/handlers.rs`, `traceql/handlers.rs`, `config.rs`) | none | text to an instant or a duration | ingest handlers, all queries | an instant is the same in every unit a client may write it in |
| Parsers of the three languages | none | text to AST | handlers | not modelled (section 7) |
| Ingest handlers (`src/ingest/`, `grpc.rs`) | none of their own | decode, number, store | `AppState.ingest_seq`, one store each | numbers unique; a refused batch stores nothing |
| Cursor, activity tools, resets (`mcp/tools/handlers/activity.rs`, `mcp/synth/activity.rs`, `api/reset.rs`) | checkpoints held by clients | mark, summarize, list, check, reset | counter without lock, three stores one lock at a time | a checkpoint splits old from new |
| Snapshots and lifecycle (`snapshot.rs`, `main.rs`, `api/snapshot.rs`) | snapshot file, temporary file, write lock | save (timer, signal, endpoint, shutdown), load, counter re-seed | all three stores, file system | a published file is whole and faithful; saves end |
| MCP transport, dispatch, schemas; OpenAPI; command line; web UI; seeder | none | request to response | read-only | not modelled (section 7) |

How they interact: every request runs on a thread of the runtime. Shared state is `AppState`: three `RwLock` stores and
the atomic `ingest_seq`. An ingest handler draws one number per item with `fetch_add` *before* it takes its store's
write lock. A background task evicts every 30 s, store by store. Tools read the counter with no lock and visit the
three stores one after the other. A save clones the stores under three successive read locks, then takes the snapshot
lock.

Hard behaviours: index maintenance over long histories; numbers drawn before the data they number is visible; reads of
three stores at three times; saves that overlap each other, the shutdown, crashes and failing file operations; the
counter across a restart; one thing computed by several pieces of code (limits, scores, units of time); traces with missing,
circular and repeated parents. `PROJECT.json` lists each hazard at its line with the properties that cover it, or why none
does.

## 2. Modules

| Module | Models | Composes |
|---|---|---|
| `ItemSeqs` | the vectors of items the stores keep: `retain`, sorted insertion of a batch (`batch_needs_sort` and the stable sort), `partition_point`, draining from the front, the counters, and a set put in order | |
| `StoreIndex` | posting lists as sets, index maintenance and `select_indexed_ids` with its early returns (`store/mod.rs`) | `ItemSeqs` |
| `SignalStore` | abstract: what any signal store promises. Items come in; they leave only because expired, over capacity, reset or cleared | |
| `LogStore` | `log_store.rs`, the log half of `run_eviction`, what the ingest handlers do to the store | `StoreIndex`; implements `SignalStore` |
| `MetricStore` | `metric_store.rs`, `ingest_metrics`, the remote-write handler | `StoreIndex`; implements `SignalStore` |
| `TraceQL` | `traceql/eval.rs`: conditions, groups, structural operators, pipelines, as operators without state | |
| `TraceStore` | `trace_store.rs`, span ingestion, and the index narrowing of a search | `TraceQL`, `ItemSeqs`; implements `SignalStore` |
| `TraceViews` | summaries of a trace, recent traces, `get_trace` over HTTP, and the tree of `mcp/synth/trace.rs`, as operators without state | `TraceQL`, `Timestamps` |
| `TraceSearch` | whole TraceQL expressions, `GET /api/search`, and `query_traces` with its two locks as two actions | `TraceStore`, `TraceViews` |
| `Timestamps` | the four readers of written times and the two of durations, with units a small ratio apart | |
| `PromValues` | the numbers of the PromQL evaluator, as exact fractions with NaN and infinities, and its statistics | |
| `PromQL` | `promql/eval.rs` and `eval/`: `Eval(store, e, q)` is `eval_expr`, for instant and range windows | `StoreIndex`, `PromValues` |
| `PromSearch` | `ingest_samples` with the interning order of label names, and reference definitions of what queries answer | `PromQL` |
| `LogQL` | `logql/eval.rs`, the handlers of `query` and `query_range`, `query_logs`, as operators over the streams of a store | `StoreIndex`, `Timestamps`, `PromValues` |
| `LogSearch` | Loki pushes and OTLP log exports from the decoded request to the stream: limits, unreadable entries, times, labels, grouping; reference definitions for LogQL | `LogQL` |
| `Reports` | `check_health`, `summarize_activity`, `describe_service`, `diagnose`, `summary`, `catalog`, `services`, `status` over logs, spans and samples | `LogSearch`, `TraceViews` |
| `IngestCursor` | numbering, storing, refusal, eviction, the MCP activity tools and both resets, interleaved | |
| `Snapshots` | saves, file operations, failures, shutdown, kill, power loss, load | |
| `ItemSeqsProofs`, `StoreIndexProofs` | lemmas on vectors, sorting and indexes, which the proofs about the stores and the searches share; selection = scan | |
| `LogStoreProofs`, `MetricStoreProofs` | theorems about `LogStore` and `MetricStore`: indexes, entries, counters, reads, refinement | |
| `TraceSearchProofs` | theorems about `TraceStore` and the searches of `TraceSearch` over it | |
| `LogSearchProofs` | theorems about `LogSearch`: what pushes and exports store and what LogQL and `query_logs` answer | |
| `IngestCursorProofs`, `SnapshotsProofs` | theorems about `IngestCursor` and `Snapshots` | |
| `MC*` | constants of the TLC instances | |

How state and actions correspond to the code:

* **Stores.** A variable per struct field, with the field's name. A store method is one action because it runs under
  the write lock; an ingest request is one action of its store because everything between lock and unlock is. In
  `LogStore` the numbers are drawn by an action of their own (`Draw`, the `fetch_add` outside the lock), one at a time,
  into the set `drawn`; `Ingest` stores a batch with numbers drawn before, in the order it drew them. Pushes that run at
  once may therefore store in the opposite order of their numbers. `MetricStore`, `TraceStore` and `LogSearch` draw and store in one
  step: there a number only tells one item from another, and no property depends on their order.
  `RunEviction(cutoff)` is what `run_eviction` does to one store: `evict_before`, then `evict_to_max`, under one
  acquisition. Hash-map order is nondeterminism (`DrainOrders`, `EvictionOrders`). Strings are model strings, and
  interning is the set of strings ever interned, since queries branch on membership in it. A stream's labels are a set
  of pairs.
* **`IngestCursor`.** A step is one `fetch_add` or one critical section. A tool call is the list of its sections in
  `Tools`, in the order the code takes the locks. An item carries its request, service, number and name (of the series, for
  metrics). A summary shows every log and span of its window by its counts; of the metrics it shows one sample of each
  series whose name is telling (`Notable`: error, fail, duration, latency), for at most `MaxShown` series, and says whether
  it cut them (`truncated`). Event times are left out because the cursor is independent of them: eviction takes an
  arbitrary subset, and the last sample of a series by time is any one of its samples in the window.
* **`Snapshots`.** `pc[s]` is a saver's place in `save_from_state_reported` and `save_snapshot_owned`. Clone, lock,
  create, write, sync and rename are separate steps; `Fail` is the `?` after each of them, which drops the guard. The
  directory is not synced after the rename, so that a power loss may bring an earlier published file back
  (`earlier`). Shutdown is the future passed to `with_graceful_shutdown`: the server still accepts while it saves, then
  drains, then exits.
* **`PromQL`.** An expression is a record that names its node, `q` is `[start, end, step, instant]`, a result is a scalar,
  a vector, a matrix or `Failed` for every error. The seven copies of the step loop are one (`Steps`, `Points`), and
  the windows they read are one (`WindowAt`). The labels of a series are a sequence of pairs, because the code compares
  vectors. Parsing of numbers and regular expressions in labels are constants (`BucketBound`, the `from` of a label
  function).
* **`TraceQL`, `TraceViews`, `TraceSearch`.** A value is `[type, text, num, parses]`: what equality, ordering and numeric
  parsing of a literal distinguish. Regular expressions are constants that map a pattern to the texts it matches; only
  those of attribute and name conditions are ever compiled (`Precompiled`).
  `BeginQueryTraces` is `handle_query_traces` up to the release of its first read lock, `EndQueryTraces` the rest; `call`
  holds the page of ids in between, and every store action may run there. The tree is the list of its nodes in the order
  shown, with their depths.
* **`LogQL`, `LogSearch`.** The labels of a stream map a name to the *sequence* of its values, because a stream may carry a
  name twice. A line is a record of what stages can tell of it: the texts found in it, its length, and the labels each
  way of extraction finds. `EvaluateLimited` offers entry after entry to a bounded heap, and of
  entries of one time gives up the first it was offered, as the code does; the heap is the set of the numbers of its entries. `meant` is a history variable: the instant and level the sender had
  in mind, against which the answers are compared.
* **`Reports`.** One operator per report. What the code computes in several places is written out in each: the share of
  error logs (`OverviewRate`, `AssessedRate`), the share of failed spans (`OverviewRatio`, `AssessedRatio`,
  `ActivityRatio`, and the pass of `CheckHealth`), the penalties of the four scores, the telling metrics (`NotableMetrics`,
  `SummaryMetrics`), the metric names and attribute keys of the two catalogs (`CatalogMetrics`, `DescribedMetrics`,
  `CatalogAttributes`, `DescribedAttributes`). Series are found by `select_series` (`SelectedSeries`) where the code does so and
  through the label index (`Indexed`) elsewhere. Shared are what the reports call: the queries of the stores,
  among them the two that find the errors of a service and its traces, sorting and cutting of lists, and the arithmetic
  of a sum of penalties between 0 and 100. All three stores are read
  in one state here; what happens between the locks is in `IngestCursor`. Scores and ratios are exact fractions.
* **`Timestamps`.** An integer is classified by thresholds that keep the code's ratios. A result that may be absent is a
  sequence of at most one element.

## 3. Runs

| Run | Instance | Checks |
|---|---|---|
| `log_store` | 3 label sets over 2 services, 2 times, 3 cutoffs, capacity 1, batches of up to 2, 4 numbers, 2 streams at once, 10 matchers | indexes exact, every conjunction of two matchers answered as a scan would, stream identity, reads in order of time and of storage, exact counter, complete trace index, refinement of `SignalStore` |
| `log_oldest_first` | the same with 3 streams | violated, see finding 1 |
| `metric_store` | 4 OTLP metrics (two sources for one name, a histogram), 3 remote series, capacity 2, 4 samples | indexes exact, one source per name, known types stick, refinement of `SignalStore` |
| `metric_metadata` | the same | violated, see finding 2 |
| `trace_store` | 2 traces, 6 span shapes of 3 services with missing, repeated, self and circular parents, capacity 2, 3 spans, 61 selectors, 5 expressions, 6 sets of filters, 3 windows, 3 limits, one call of `query_traces` at a time | indexes and counter exact; a selector finds exactly the spans it describes; the descendant operator is the transitive closure; searches keep the newest; tree and list show every span; a page of `query_traces` survives what happens between its locks; refinement; whole oldest traces evicted |
| `logql` | 7 pushes and 3 exports with times in every unit, unreadable times, a resource that carries `level`, spans of two services in one trace, samples; at most 4 items; 4 stream and 3 metric queries, limits 0, 1 and 3 | an instant is found in whatever unit it is pushed and asked; limits keep the newest; `query_logs` reports truthfully; aggregation windows count what stream queries find; label filters against selectors; the reports agree |
| `promql` | up to 3 of 13 samples of 8 series (two counters, an info metric of three, three buckets), instants and windows over times 0 to 3, 17 expressions and their parts | a range query agrees with the instant queries at its steps, rate and increase with the gain of a restarting counter, quantiles with each other and with min, max, sort and topk, group_left with group_right, `and` with `unless` and `or` |
| `promql_label_order` | the same | violated, see finding 5 |
| `ingest_cursor` | a metrics push of three samples in two telling series and a trace export of one span, room for one series in a summary, one session that marks and summarises (2 calls), one that resets or lists (1 call), 1 eviction visit | unique numbers, nothing old in a summary, everything new shown or said to be cut, services listed, resets final |
| `checkpoint_miss` | one push of 2 items | violated, see finding 3 |
| `snapshots` | 2 savers (a timer and the shutdown), 2 items, 2 saves, 1 failure, 2 starts | published file complete and faithful, numbers distinct across restarts, saves finish |
| `counter_regress` | 1 save, no failure | violated, see finding 4 |

Bounds and why they are enough. A store's defects come from one id that enters, shares an index key with another, and
leaves: two ids per key, one id outside it, and one more generation after the removal show every such pattern;
capacity 1 or 2 makes eviction take part of the content, and a cutoff above every time makes it take all. Batches of
two give out-of-order and in-order arrival. In `IngestCursor` a request of two items and one of one item already give
every order of draw, store and checkpoint; a second session puts a reset inside a summary;
two samples of one series and one of another, with room for one series, make a summary drop a sample and cut a series. A trace with
spans of two services is credited to both by `About`, which the proofs cover and the run leaves out. In `Snapshots` two savers
overlap at every pair of steps, or one follows another that failed, and a second start restores. In
`PromSearch` three samples give a counter a restart, a histogram its three buckets, and a join two series on one side;
the window of four steps is the first one over `MaxQuerySteps`. In
`TraceSearch` a tree may be two deep (`MaxDepth`) and a chain of three exists, pages hold two traces or one, and a search
returns one or two. In `Reports` a unit of time is twice the next (`UnitRatio`), seconds end at 3 (`SecondsMax`,
`SearchSeconds`), and the largest time is 22 (`MaxI64`): one instant can be written in four units, and sums and
products saturate. `MaxQuerySteps`, `MaxLokiStreams`, `MaxLokiLabels`, `MaxEntries`, `MaxLogs`, `TopItems`, `MaxShown` and the like stand for
constants of the code, scaled so that small inputs reach each of them and pass it by one. `MaxSeq`,
`MaxIds`, `MaxStreams`, `MaxBatch`, `MaxRequest`, `MaxCalls`, `MaxEvictions`, `MaxItems`, `MaxSaves`, `MaxFailures`,
`MaxStarts` and `MaxSamples` are the only bounds without a counterpart in the code. `CHECK_DEADLOCK FALSE` appears where
the bounded instance ends: all requests sent, all calls made, all starts used.

Fairness. Only `snapshots` assumes any; every other run checks safety. `WF` on cloning, file steps, the end of accepting, draining and exit: the
runtime's threads keep running and none of these waits for anything. `SF` on taking the lock: `parking_lot`
mutexes hand over eventually, so that a saver that keeps finding the lock free at times gets it. Triggers, signals,
kills, failures and power losses have no fairness.

Every property of a passing run comes with a mutant in `PROJECT.json`: a plausible bug put into a mapped definition
under which TLC finds the property violated. The mutated forms stand next to the originals, marked `Mutant`.

## 4. Where the code and its documents disagree

1. `EvictsOldestFirst`: the comment at `log_store.rs:322` and `DESIGN.md:444` say the oldest entries go first;
   `evict_to_max` drains one whole stream after another, so that a newer entry of the stream with the oldest head goes
   while an older one of another stream stays.
2. `LiveMetricsKeepMetadata`: `prune_orphaned_metadata` (`metric_store.rs:245`) keeps metadata whose exact name some
   series carries. Metadata of a histogram is registered under its base name, its series under `_bucket`, `_sum` and
   `_count`: the first eviction erases type and help of a live histogram.
3. `CheckpointSeparatesRuns`: a request draws its numbers before it stores. One acknowledged only after
   `mark_checkpoint` can hold smaller numbers than the checkpoint and is missing from the summary since it
   (`mcp/synth/activity.rs:87`), although the tool promises to separate the two (`registry.rs:99`). What *does*
   hold is `NewTelemetryIsReported`: what requests *begun* after the checkpoint sent is counted, and a telling series they
   wrote to is shown or said to be cut.
4. `RestoreKeepsCounting`: `DESIGN.md:331` says the counter is snapshotted and restored to stay monotonic. It is
   recomputed from the highest stored number (`main.rs:55`), which is lower when the items with the highest numbers
   were evicted, reset or refused, so that old checkpoints may exceed the new counter.

5. `MatchesOnAllLabels`: `binary.rs:16` matches "on all labels except `__name__`", but compares label vectors. Labels
   read from the store come in the order in which the interner first saw their names (`store/mod.rs:67`); after
   `label_replace`, `label_join` or `group_left` they come sorted by name. Series with equal labels then do not match.

`StepsAreInstants` leaves out what a range query does not evaluate step by step: `time`, `vector` and `absent` give one
sample at the end, `scalar` takes the first sample of the range, `topk` and `sort` go by the last, `and`, `or` and
`unless` compare series and not samples, `histogram_quantile` uses the times of its lowest bucket; and, for bare
selectors, instants with a sample in the second ahead, which only an instant query looks into.

Other observations made while modelling, which no run shows as a violation; the properties state what the code does:

* `trace_query.rs:60` says that traces reset between the two locks of `query_traces` "return None and are skipped". A trace
  of which another service still holds spans is not skipped but shown with what is left: `PagesSurviveIngestion` promises
  a full summary only while nothing was removed. The page is in the order of trace ids, not newest first.
* The error of `query_traces` for a bad `min_duration` suggests `500us`, which `parse_duration` refuses; `90` and `1d` pass it,
  and the TraceQL parser then refuses the query built from them.
* `query_logs` lists stream after stream before it cuts: one line newer than some it shows may be missing
  (`QueryLogsIsHonest` bounds it by one).
* An entry on the border of two aggregation windows counts in both (`CountsCoverTheWindow`); so does an error exactly five
  minutes old in the trend of `diagnose`. An instant metric query has no step cap, and its last window may end before the
  asked time.
* A regular expression on an `event.` condition of TraceQL matches nothing: `precompile_regexes` (`traceql/eval.rs:282`) skips
  these conditions, and `compare_string` without a compiled pattern is false.
* A selector's regular expression is anchored, a label filter's is not; with a repeated label name a selector matches either
  value and a filter the last (`FiltersFollowSelectors`).
* The overview of `diagnose` leaves out the latency its single-service score counts; `diagnose` suggests spans of the service
  with an error although the failing span may be another service's (`ReportsAgree`).
* `summary` sorts the metrics it shows by the text of their times (`api/summary.rs`): among times with different numbers of
  digits the latest is not first. `TextKey` models it; no property says that the latest are shown, because the code does
  not keep that.
* For a series with a repeated `__name__` the catalog lists every one and `describe_service` the first (`CatalogsAgree`).
* A span exported twice multiplies the nodes below it in the tree; spans on a circle of parents are not shown at all
  (`TreesShowEverySpan`).

## 5. Proofs

| Theorem | Says | Argument |
|---|---|---|
| `StoreIndexProofs!SelectionIsScan` | with exact indexes and a covering interner, `SelectIndexedIds` is the scan, for every set of valid matchers | operator by operator, with the early returns as cases |
| `LogStoreProofs!IndexInvariant`, `LabelIndexesAlwaysExact`, `StreamIdentityAlways`, `QueriesAlwaysExact` | the log store's index, identity and query properties, for every capacity, label set and matcher | `IndexInv`: the three are inductive only together. Dropping a stream's pairs needs the index exact, and identity needs that no id is reused; queries then follow from `SelectionIsScan` |
| `LogStoreProofs!EntriesInvariant`, `LogStoreTypesAlways`, `TotalAlwaysExact`, `TraceIndexAlwaysComplete`, `RangeReadsAlwaysExact` | the fields keep their types, `total_entries` is the number of entries, the trace index misses no stream, a range read returns its window in order of time, and a push puts its entries behind those of the same time, in its own order | `EntriesInv` = `IndexInv`, `StampsInv` and the two properties. `StampsInv`: every stream is in order of time; every stamp was drawn, none is among those drawn and not yet stored, and no two entries share one; all numbers drawn are below the counter. Nothing is said of the order of stamps, which concurrent pushes do not keep. Sorting the batch in only when `batch_needs_sort` says so keeps the order because the old tail was in order; `partition_point` counts right only in an ordered vector, so that eviction and reads need it |
| `LogStoreProofs!LogStoreImplementsSignalStore` | the log store implements `SignalStore` | step by step. Items map one to one to positions, since stamps are unique; draining stream after stream puts all positions in one line, of which `evict_to_max` takes the first `total - max`, so that exactly `max` remain |
| `MetricStoreProofs!MetricInvariant`, `SeriesIndexesAlwaysExact` | `label_index`, `label_values`, `series_ids` and `total_samples` agree with the series, after every request of either write path, eviction, reset, clear and restore | `MetricInv`: the store is consistent (`StoreInv`: typed, indexed, identified, counted), every series is in order of time, all stamps are below the counter. A request is a loop over its points (`IngestAll`): its states exist, and `StoreInv`, said of the record the loop works on, holds in each. Expiry by `partition_point` is right only in an ordered series |
| `MetricStoreProofs!MetricStoreImplementsSignalStore` | the metric store implements `SignalStore` | step by step. The samples of a request have stamps from the counter on (`HasGrown`), so that none is confused with one held. A series with a sample counts one, as label sets name series; the eviction order is one to one onto `1..n`, of which the first `n - max_series` go, so that exactly `max_series` stay and one more would not fit |
| `MetricStoreProofs!KnownTypesAlwaysStick` | a known type stays known while the metadata lives | `TypesInv`: no entry has the type that stands for a missing one; `TypeAfter` then keeps a known type at each of the entries a request registers, a name that comes twice included |
| `MetricStoreProofs!OneSourceAlwaysPerName` | no two sources have samples under one visible name | `SourcesInv`: every series has one name, which is registered, and all its samples were sent for the registered source. A request that clashes with nothing registers the source of each of its points; a request rejected half way only adds names; `clear_service` forgets only names without a series. Under `UnnamedLabels`: no label of a request is itself called `__name__` |
| `TraceSearchProofs!TraceInvariant`, `TraceIndexesAlwaysExact` | the four indexes list exactly the traces with each key, no trace is empty, `total_spans` is the number of spans | `TraceInv` = `SpansInv` and `IndexesExact`. `SpansInv`: finitely many traces, each with its own spans only, stamps unique and below the counter. `reconcile_trace_indexes` looks only at keys of traces that lost spans: exact again because the index was exact before. `clear_service` looks only at the traces the service index lists: enough for the same reason |
| `TraceSearchProofs!TraceStoreImplementsSignalStore`, `CapacityAlwaysTakesOldest` | the trace store implements `SignalStore`; whole traces go, and none that stays has an older span | the traces from one on in the eviction order hold `total` less what stands ahead. The first one kept shows that the rest fits, the last one gone that it would not fit with it; an earlier start comes earlier in the order, so that fewer spans stand ahead |
| `TraceSearchProofs!SelectorsAlwaysFindTheirSpans` | a selector finds exactly the spans it describes, although indexed conditions narrow the traces looked at first | `TraceInv` and `InternerCovers`: every key in an index was interned, so that a condition on a text never interned matches nothing. Matching from left to right is the meaning by groups between `\|\|`; a span that satisfies a group stands in a trace that the index of each indexed condition lists, because the indexes are exact |
| `TraceSearchProofs!DescendantAlwaysIsTransitiveClosure` | `is_descendant` is the transitive closure of the parent relation, for missing, repeated and circular parents | the walk's invariant (`OnTheWay`): it has been at ancestors of the span only, all of them in a row, has not passed the one it looks for, and saw a new span at every step, so that it ends after as many steps as there are spans, and then has seen every ancestor |
| `TraceSearchProofs!SearchesAlwaysKeepNewest` | a limited search keeps as many traces as the limit allows, newest first, with the window applied before the limit | a trace's start is the least of its times, and start and duration reach to the end of each span (`TraceTimes`); sorting and cutting any list of traces that names each once keeps the newest (`CutKeepsNewest`), which the two paths, with a query and without, share |
| `TraceSearchProofs!PagesAlwaysSurviveIngestion` | a page of `query_traces` shows every trace with at least the spans that matched, unless something was removed between its locks | `CallInv`: between the locks a page is as long as its limit and its total say, and of each of its traces at least one span was seen, the matching ones among those. While the seen spans are still stored every trace of the page has a summary, and counts over a trace only grow with the spans it holds (`SummaryCounts`) |
| `LogSearchProofs!LogInvAlways` | every entry of the log store has a number of its own, the time is the instant its sender meant and the last level of its stream the severity; streams are in order of time and no two have the same labels | `LogInv`: some set of label vectors, and some set of pairs of labels and entries in which every pair is as meant (`AsMeant`), account for the store (`WellKept`). A request's batches are stored one after the other (`BatchesKeepWell`, by `CountUp`). That a written time is read as the instant meant (`WritingsAreRead`) is arithmetic of products of the unit ratio: thresholds separate the units (`UnitLimits`), and the largest integer saturates none of them |
| `LogSearchProofs!LimitsAlwaysKeepNewest`, `QueryLogsAlwaysHonest` | limits keep the newest entries, the heap's as the response's; `query_logs` is truthful about what it leaves out | every offer leaves the heap with the newest of what was offered so far (`IsNewest`, `OfferKeepsNewest`), whichever of several oldest entries it gives up. Two choices of the newest of one set agree on how many there are of each time (`NewestAgree`), so that the heap and the limit of the response do. `query_logs` probes one entry past its limit: of the entries it lists, one at most is left out |
| `LogSearchProofs!FiltersAlwaysFollow` | a label filter keeps what the selector of the same condition selects, for labels that occur once, and goes by the severity of a record | a filter reads the last value of a name, a selector any; where there is one value they agree. An export puts the severity's level last, after the labels of the resource (`RecordLabelsEnd`) |
| `LogSearchProofs!InstantsAlwaysFound` | an entry pushed in any unit is found by a query for its instant in any unit, and nothing else is | `LogInv` gives the stored time of every entry, `WritingsAreRead` the asked one. Stated while the store has no more entries than the default limit of a query: past it the limit, not the time, decides what is shown |
| `IngestCursorProofs!TypeInvariant`, `NumbersAlwaysUnique`, `OldTelemetryAlwaysStaysOut` | for any set of requests, sessions, services and calls | `CursorInv` adds: every stored item belongs to an acknowledged request and holds one of its numbers; a checkpoint's value exceeds every number of the requests acknowledged by then; reports hold only items at or after their `since` |
| `IngestCursorProofs!ResetAlwaysRemoves`, `ServicesAlwaysListed`, `NewTelemetryAlwaysReported` | a reset is final, no service is missed although the stores are visited at three times, what is new is counted, and of every telling series with something new a sample is shown unless the summary says that it cut the list | `ProgressInv` says of every call under way what the stores it has visited allow: the stores a reset has passed hold nothing of its scope acknowledged before it began; a listing holds every service, and a summary has reported every new item (`Reported`: the item itself, or for a metric in a telling series a sample of its series, or the mark of a cut), of the stores it has passed that was there throughout. Which sample of a series is the latest does not matter to this: one in the window exists as long as the item does. Each section of a call extends this by its own store, and the end of the list gives the property |
| `SnapshotsProofs!PublishedAlwaysComplete` | the published file is never a partial one, for any number of savers, failures and starts | `SnapshotInv`: the lock belongs to exactly the saver among the file steps; at rename the temporary file is synced; so is every file a power loss can bring back |
| `SnapshotsProofs!PublishedAlwaysFaithful`, `NumbersAlwaysDistinct` | the published file holds what was stored when its save began and no item that had been removed by then; numbers stay distinct across restarts | `ContentsInv`: a saver's clone, the temporary file, the published file and every file a power loss can bring back are each faithful to the save they come from, and every number in any of them is below the counter and names one item, so that a restore may re-seed it |

The lemmas these rest on are stated once: in `ItemSeqsProofs` what a stable sort, an appended batch, `retain`,
`partition_point` and draining do to a vector, how the number of items changes when vectors grow, shrink or are split,
and what a sorted list of a set of numbers is (`LineUp`, `Ascending`, `SlotsInOrder`);
in `StoreIndexProofs` how index maintenance follows the label sets. What a recursive function computes cannot be had by
the library's induction theorems; the proofs show instead that the function's finite beginnings exist one after the other
(`StepwiseExists`, `CountUp`, a minimal-counterexample argument on sets of numbers) and then walk along one of them. The
loop over a request's points, the conditions of a selector, the walk of `is_descendant`, the heap of a limited query and
the batches of a push are proved this way.

The assumptions are the named `ASSUME`s on the constants of each module, which TLC evaluates in every run:

* limits and capacities are natural numbers, times integers, labels pairs, metric types of the five kinds OTLP has;
* `ShapeConstants`, `SearchConstants`: what `ingest_traces` makes of any export (attribute keys have a prefix, resource
  attributes are texts, the first `service.name` is the service; a span id is not the absent parent; times are not negative);
* `SelectorConstants`: what the parser makes, an operator between every two conditions;
* `LogQLConstants`: an anchored regular expression matches no text in which the unanchored one finds nothing;
* `UnitConstants`: a unit is a larger unit divided by a ratio of at least two; the first number too large for seconds in
  the trace search (1e11) is at most that of the other readers (1e12), and the largest integer (9.2e18) is less than that
  many seconds in nanoseconds (1e20), so that no instant in nanoseconds is beyond what seconds can write;
* `RequestConstants`: a client of the instances writes the instant it means in some unit, and asks for instants that
  every unit can tell. An instant so early that its nanoseconds read as a coarser unit may be pushed; the theorems then
  say nothing of its time.

Two theorems have a hypothesis of their own. `OneSourceAlwaysPerName` is about requests none of whose labels is called
`__name__` (`UnnamedLabels`, true of the instance the runs check). Remote write removes such a label; an OTLP data point
may carry an attribute of that name, and the code then takes the first of the two as the name of the series, which a set
of pairs cannot tell. `InstantsAlwaysFound` is about stores whose entries all fit the default limit of a query, as in every
state of the run. Nothing is assumed of how many services, label sets, requests, selectors or savers
there are. Unlike the runs, the theorems about stores do not bound the length of a history or the size of a
batch: `MaxSeq`, `MaxBatch` and the like are constants of any value.

Only model-checked:

* `TreesShowEverySpan`: the tree is a recursive walk whose children are concatenated as it goes, an induction over data;
* `StepsAreInstants`, `RateIsGainOverTime`, `OrderStatisticsAgree`, `MatchingIsConsistent`: the PromQL evaluator is a
  `RECURSIVE` operator over expressions, with which no theorem can be stated here;
* `CountsCoverTheWindow`, `ReportsAgree`: sums and exact fractions over folds, whose values need an induction over data;
* `SavesFinish`: liveness is out of the prover's reach.

## 6. Plan

1. Posting lists: the merge loops of `posting_list.rs` against the set operations `StoreIndex` uses.
2. The tag and label endpoints of the three query languages, and `query_metrics`.
3. The counts of a window (`CountsCoverTheWindow`) without the fractions, as a theorem about cardinalities.

## 7. Not modelled

Parsing and rendering (protobuf, JSON, snappy, the three grammars, label formatting, OpenAPI, the MCP framing and schemas)
is text without state; the gRPC collectors call the ingest functions modelled here and translate their errors; the web UI
is static files; the seeder and the scripts are clients. PromQL and the reports are modelled without rounding; PromQL
without stddev, logarithms, powers and exponentials, without the saturation of its time arithmetic, and with no NaN in a
sort, whose outcome the code does not determine. `LogStore` and `MetricStore` take labels as sets of pairs; streams that carry
a name twice are in `LogSearch`, except that no instance has a stream with two `service` labels. That the JSON of a stream
collapses a repeated label name is rendering. The lookback of an instant LogQL query is subtracted without saturation,
which only an instant near the smallest 64-bit time could tell. The regex cache only grows and is documented to. A failed
load is modelled as a fresh start; bit rot inside a published file is not.
