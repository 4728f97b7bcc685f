# ngx_data_vs_time in TLA+

`ngx_http_data_vs_time_module` is an nginx module that serves simulated time
series.  At start-up it reads an exposition that is compiled in, gives every
label name and label value an id, and stores every series as a sorted array of
id pairs.  A request names a set of series (`{metric:'sin',scale:'large'}`), a
range of time and a step; the answer is a JSON array with one object per series
of the set, each with the simulated values.

This directory holds a TLA+ model of that path, from the text of the exposition
and the arguments of a request to the body of the response, the TLC runs that
check it on small instances, and TLAPS proofs for all instances.

## The system

| component | source | state it keeps | operations |
|---|---|---|---|
| module configuration | `ngx_http_data_vs_time_module.c:40-166,426-438` | per location: `enable`, `simset`, `cache` | create, merge, init of a location, the directives |
| request handler | `ngx_http_data_vs_time_module.c:168-417` | local to a request | route, read arguments, answer |
| cache | `dvt_cache.c` | `label_names`, `label_ids`, `label_value_names`, `label_value_ids`, `all_series`, the summary | `dvt_cache_init`, `dvt_cache_get_series_set`, four lookups |
| exposition parser | `dvt_exposition.c` | local | `parse_exposition_text`, `load_test_exposition` |
| set spec parser | `dvt_series_spec.c:28-178` | local | `dvt_parse_series_spec_text_str` |
| series specs | `dvt_series_spec.c:183-386`, `.h` | arrays of words | `dvt_series_spec_from_kv_array`, `dvt_series_in_set`, `dvt_series_spec_label_value`, rendering |
| simulation | `dvt_simulation.c` | local | `dvt_simulate_data`, five curves, MurmurHash3 noise |
| string hash, hash listing, trie | `dvt_stringhash.c`, `ngx_hash_utils.c`, `dvt_trie.c` | - | compiled in, never called |
| string arrays, debug output | `ngx_string_utils.c`, `dvt_debug.c` | - | append, print |

How they interact: while nginx merges its configuration, every enabled location
calls `dvt_cache_init`, which calls the exposition parser,
`lavs_from_series_set` and, for every series, `dvt_series_spec_from_kv_array`
(which looks names up in the tables that were just built).  After the fork the
cache is read-only: a worker that dies is replaced by one with the same cache.
A worker runs a request's handler to its end: set spec
parser, `dvt_series_spec_from_kv_array`, `dvt_cache_get_series_set` (with
`dvt_series_in_set` per series), then `dvt_simulate_data` per selected series.

There are no threads, timers, or messages inside the module, so the hard part
is not concurrency.  It is agreement between representations that nothing
checks at run time:

* `dvt_series_in_set` merges two sorted arrays with a position that survives
  from pair to pair; it depends on both being sorted, and on what stands at the
  position where it stops;
* ids are given by order of first occurrence, and `metric_label_id` is 0 by
  decree;
* "not found" is 0 minus an offset, modulo 2^32, one offset away from "metric
  not specified", and is used as an index before it is tested;
* two hand-written parsers with `goto`, look-ahead of three characters and a
  safety counter;
* a count that is a 64-bit difference (which wraps), divided, and cut to an
  int, decides the size of a buffer that a loop over the 64-bit range fills;
* an answer put together from pieces some of which may be missing;
* a cache built while the configuration is merged, whose failure is stored as
  if it were a cache.

Every such place is listed, with its line and the properties on it, under
`hazards` in `PROJECT.json`.

## The modules

Components, in the order of the data:

* `ExpositionText` - `parse_exposition_text`.  `state` is the label of the C
  code the next step is at, one step per visit (each visit begins with
  `OVERFLOW_CHECK`, the operator `Checked`).  Moves that only skip a character
  are the table `Moves`; the others are actions.  Characters are abstracted to
  the classes the parser tells apart; tokens are spans of the text, as in C.
* `SpecText` - the same for `dvt_parse_series_spec_text_str`, with the two
  forms of the quote mark (`'` and `%27`).  The text ends with the NUL that
  `query_handler` writes.
* `Lookup` - names to ids: the two lookups with the offset, the 32-bit cut, and
  what nginx's hash does (external): names kept in lower case, found only as
  they are written.
* `SpecFromPairs` - `dvt_series_spec_from_kv_array` as a machine: a lookup per
  pair, then an insertion sort (`ngx_sort`, external) with `dvt_kv_cmp`.  The
  lookup with the id of an unknown label reads out of the table; the model lets
  it return any word, or crash.  Start-up and requests both use it.
* `Rendering` - `dvt_series_spec_to_text` and `_to_json`, from ids back to names,
  and how a reader takes such a text apart.
* `LabelCache` - `dvt_cache_init` with `lavs_from_series_set`: interning pair by
  pair, building the tables, encoding, storing and (for debugging) rendering
  series by series; and the summary as a client reads it.
* `SeriesSpec` - the id form, membership as the code decides it (`InSet`) and as
  a client means it (`Matches`).
* `SeriesScan` - the abstract specification of `dvt_cache_get_series_set`: keep,
  in order, the series `InSet` accepts, one per step.
* `SeriesSet` - the detailed one, loop by loop, with the positions `i` and `j`;
  `Scan` is the `INSTANCE SeriesScan WITH` that maps them away.
* `Service` - what the module promises its clients, in names only: a server is
  started from the lines of an exposition, is asked, and lists lines.
* `Worker` - `LabelCache` composed with requests: a client asks with pairs of its
  own (`Ask`), or with those it read in the last answer (`Follow`); the request is
  encoded on the same machine and tables and answered; out-of-range reads and a
  missing cache end the worker, and nginx starts another (`Respawn`).
  `ImplementsService` is `Promises!Spec`, where `Promises` is the
  `INSTANCE Service WITH` that forgets ids, tables and steps.
* `Words`, `SimulateData` - `dvt_simulate_data`: the count, the limit, the
  parameters of the curve, the buffer and the loop, at the code's widths.
* `WtTonnes` - the same with the curve of `wt_tonnes` in the loop; the noise is
  any function from block numbers.
* `QueryHandler` - `ngx_http_data_vs_time_handler` and `query_handler`: an
  action per kind of argument, then an action per piece of the answer; the body
  is the sequence of its JSON tokens.  What `dvt_simulate_data` may do to a series
  is here the set of its outcomes (`Simulated`, `SimulationEnds`): an array, its
  null string, an overrun buffer, the end of the process.  Two premises are left
  to other modules: the cache was built (`ModuleConf` and `Worker` have the other
  case), and the ids of a series have names (`AnswerCrash` of `Worker`).
* `ModuleConf` - the blocks of a configuration file, the directives, and create,
  merge and init of the location configuration.  How nginx nests, merges and
  serves blocks is external.
* `StringHash` - `dvt_stringhash_init` and `_find`: fitting, sizes in `u_short`,
  the layout of the memory, the walk of a search.  The module compiles it in and
  never calls it, but it is the algorithm of the `ngx_hash` that `Lookup` takes
  as external: `Table` is an `INSTANCE Lookup WITH`, and `FindExact` says the
  search returns what `Lookup!HashFind` says.

Each is instantiated by a module `MC...` (`SpecFromPairs`, `LabelCache` and
`Service` by `MCWorker`, `SimulateData` and `WtTonnes` by `MCSimulateData`).
`MCShipped` instantiates `SeriesSet` with the 51 series of the shipped exposition
and the queries of the pages in `src/predefined.json`.  A module `..._proofs`
holds the theorems about the module it is named after; `Worker_proofs` covers
`LabelCache` too, and `SimulateData_proofs` covers `WtTonnes`.

Definitions named `X_Something` stand before a definition `X` and are wrong on
purpose: what `X` would be after a plausible slip.  Nothing uses them; replacing
`X` by one of them breaks the property that `PROJECT.json` names with it.

Positions count from 1 where C counts from 0.

## The runs

| run | what it asks |
|---|---|
| `series_set` | the merge loses no series, is sound on series that carry the labels asked for, answers in order, ends, and implements the scan |
| `shipped` | on the shipped catalogue: a row of the shipped pages finds its one series, a metric group its children |
| `shipped_scale` | is every answer a match? **No** |
| `worker` | ids, counts, tables and stored series agree with the exposition; every list of pairs becomes a sorted spec that means what was asked, and an unknown metric is not "any metric"; every series in an answer is a well-formed text, a client that follows it finds the series, and finds as many as the summary says; start-up and requests together implement `Service`, and every request ends |
| `module_conf` | a running server's handler only meets a cache built for its block, or the failure of one; a file is refused for its simset exactly when it should be |
| `string_hash` | elements of a table never overlap, and a search finds what `Lookup` assumes |
| `spec_text`, `exposition_text` | the parsers accept what the format renders, return its tokens exactly, look no further than the end of the buffer, and the safety count is never the reason of a refusal of a text of less than the count (of an exposition: less than half of it) |
| `simulate` | values on the grid, complete, within the limit, within the buffer for the ranges for which that is true; loads of `wt_tonnes` are half a period apart |
| `simulate_room` | does the buffer always hold the values? **No** |
| `query_handler` | last argument wins, values exactly if they were asked for, one object per series, JSON unless values are missing, every request answered except for the listed causes |
| `query_json` | is every answer JSON? **No** |

### Bounds, and why they are enough

* `series_set`: all 27 choices of three labels with two values, twice (two
  metrics), against all sorted set specs of at most two pairs, with repeated
  labels, unknown ids and no metric.  A mismatch needs a pair before, at and
  behind the walk's position, and a second pair of the set to use the position
  the first one left: three labels and two pairs.  The proofs remove the bound.
* `worker`: expositions of three kinds.  Small ones (all first lines of up to two
  labels and second lines of up to one, with repetitions, a repeated `metric` and
  a capital letter) exercise interning: a second series meets and misses names of
  the first.  Served ones (up to three lines) get all questions of at most two
  pairs, with unknown labels and values.  One gets all questions of at most three
  pairs with at most one unknown label: stability of the sort needs two equal
  labels and one other.  Words have 10 values with an offset of 3, so that ids,
  "not found" and UINT32_MAX are apart as they are in the code; a lookup out of
  the table returns each of the 10.  Counters wrap at 3, which three lines reach.
* `module_conf`: a server with up to three locations and if blocks, nested in
  every way, with every placing of the directives, a right and a wrong simset.
  The properties relate a block to the nearest one around it that has the
  directive; chains of three pass over one that has none.
* `string_hash`: all lists of up to four of five names and a NULL key, whose
  elements need 16, 64 and 112 bytes; buckets of 128, 192 and 256 bytes and one
  too small; a `u_short` of 256 values, so that the largest buckets are beyond
  half of it; one hash function that spreads and one that puts all in a bucket;
  a shortcut for large tables that starts at 4.
* parsers: every rendered text of up to two pairs (two series), and for short
  ones every text that is one character away, and every beginning.  Safety
  counts are scaled to be reached by the longest texts only.  A label of an
  exposition may be spelled `metric`.
* `simulate`: 64-bit words of 128 values, ints of 16, a limit of 6: ranges wrap,
  quotients are cut to negative and to small numbers, times leave the signed
  half.  Values print to 8 or 11 characters.  Periods of `wt_tonnes` are 16, 24,
  8 by a wrap of their word, and 0; a pause depends on the random numbers of
  three blocks in a row, and all 27 triples are tried.
* `query_handler`: all lists of up to two arguments, and a full query with one
  more argument in front or behind.  Words of 32 values and ints of 8, a limit of
  3: numbers beyond the signed half and beyond the word, a count cut to an int, a
  range that is a multiple of the step and one that is not.  The answers have
  series with and without a curve, with long values, with a label missing, and
  with a period of 0.

### Fairness and deadlock

`FairSpec` adds weak fairness of the whole next-state relation: a worker runs a
handler, and the master runs the start-up, to its end, and nothing preempts it
for ever.  In `Worker` the fairness is of `StartUp` and of `Serve` (the steps of
a request that was taken on, and the replacement of a worker that died, which
nginx's master does); clients need not ask.  No fairness is assumed of single
actions; which of several outcomes happens (memory or none, a word read out of
range, a crash) is never forced.  The machines stop when the call returns, and a
worker waits for clients, so deadlock is not checked; that they stop only there
is what `Termination`, `AcceptsRendered`, `Returns`, `Answered` and
`BackForTheNext` say.  (`ModuleConf` and `StringHash` are checked for safety
only: each step is one of a loop with a bound.)

## What does not hold

* `OnlyMatching` (`dvt_series_spec.c:379`).  The walk stops at the first label
  that is not smaller than the one asked for, and only the values are compared.
  A series without the label is accepted if its next label has the same value
  id.  On the shipped data the group `scale=large` is answered with 19 series
  instead of 18: a `wt_tonnes` series has no scale, but its `width` has value
  id 2, as `large` has.  `SoundWhenLabelled` is what is true instead.
* `BufferFits` (`dvt_simulation.c:276`).  16 bytes per value for `n` values, `n`
  rounded down and cut to an int; the loop writes a value more if the range is
  no multiple of the step, and any number more if the quotient was cut.
  `EnoughRoom` and `WithinLimit` are what is true instead.
* `AlwaysJSON` (`ngx_http_data_vs_time_module.c:332`).  A series without values
  gives `"values": ` and nothing.  `JSONUnlessNoValues` is what is true instead.

Things the properties state as exceptions:

* the lookup of an unknown label (`dvt_series_spec.c:304`) reads outside a table:
  `Service` lets such a request get lost;
* an exposition with capital letters is stored under names the lookups never
  find, and storing or showing its series reads outside the name tables:
  `Service` promises nothing of it (`LowerCaseLines`);
* a cache that could not be built is served all the same (`mode = "broken"`, and
  the `Error` of `HandlerMeetsCache`);
* a step, or a period of `wt_tonnes`, of 0 is divided by, and a series without
  the label its curve needs is read out of range: `Returns` and `Answered` name
  these ends, and `Answered` also that of an overrun buffer;
* a label of an exposition spelled `metric` is accepted and read as a second
  metric: `MetricFirst` speaks of the first pair only, and `SpecCorrect` says
  that the last metric counts;
* `strtoull` stops at 2^64 - 1, and what is beyond 2^63 - 1 becomes negative and
  counts as not given: `ValuesAsAsked` says who gets no values for it;
* an exposition of more than half the safety count may be refused for it, since
  two states of its parser take no character (`SafetyIsEnough`);
* buckets of more than half a `u_short` can be given too little memory
  (`dvt_stringhash.c:68`), and `dvt_stringhash_to_array` reads a pointer that was
  never set; the module calls neither.

## The proofs

TLAPS checks them for every value of the constants, from the named assumptions
of the modules (which TLC evaluates on the instances of the runs).  Every safety
property of the passing runs is proved, except `PagesAnswered` (see below).

* `SeriesSet_proofs` - `Invariance`: the inductive invariant `IInv` adds two
  facts to the types.  In the middle of a merge (`WalkInv`), all pairs of the
  set before `i` agree with the series at their lower bound, and all labels
  before `j` are smaller than the label at `i` (this is what keeping `j` from
  pair to pair needs, and it needs the set to be sorted).  For finished series
  (`AnswerInv`), the answer holds exactly those that `InSet` accepts, in
  increasing order.  From it: `TypeCorrect`, `NoSeriesLostHolds`,
  `SoundWhenLabelledHolds`, `AnswerInOrderHolds`, and `Refinement`, that every
  step of the loops is a step of `SeriesScan` or a stutter.
  `MatchesImpliesInSet` and `InSetImpliesMatches` relate the code's membership
  to the client's.  Assumed: catalogue and set specs are sorted, which
  `StartUpCorrect` (`CatalogueSorted`) and `FinishedServes` below prove of what
  start-up and requests build.
* `Worker_proofs`, first part - `CacheInvariant`, over start-up alone; the second
  part takes it over to start-up with requests.  Its parts: `EntriesInv`, that labels
  and their values are entered once each, that every pair passed has an entry,
  and that its count is the number of its positions among those passed, modulo
  2^16; `TablesBuilt`, that the tables list those entries; `EncInv`, that the
  array of the encoding is an arrangement of the pairs read (a map of places to
  positions, `Placing`), of which the first `m` places are in label order, equal
  labels in the order of reading - this is what makes the insertion sort end
  sorted, stable and complete without induction over its input; `CatalogueInv`,
  that the series stored are the encodings of the lines, in their order.
  `StartUpCorrect` draws the seven properties of start-up from them.  That the
  lookups invert the tables (`LookupExact`) is proved for names in lower case,
  from what `Lookup` says of nginx's hash.
* `Worker_proofs`, second part - `WorkerInvariant` adds what a request has done so far and
  what a crash leaves.  From it the properties of `LabelCache` and
  `SpecFromPairs` for a worker that serves (`CountsServe`, `LookupsServe`,
  `SeriesServe`, `FinishedServes`, `EncodingServes`,
  `UnknownMetricServes`); `LinksLeadBack` (`TextWellFormed`: the
  closing brace is written over a comma, because a stored series has a metric)
  and `SummaryAgrees`; and
  `WorkerImplements`: a request is answered with the lines `Service` promises
  because with known labels an id stands for its name (`SameId`) and a line
  decodes to itself (`LineSays`), an unknown label is beyond all ids
  (`UnknownSelectsNone`), and all other ends of a request are those `Service`
  lets get lost.
* `SpecText_proofs` - `SafetyIsEnoughHolds`: the steps paid for with the safety
  count never exceed the characters taken, so no text shorter than the count is
  refused for it.  `InBufferHolds`: no state goes on from the NUL,
  so the parser stands on it at most, and the look-ahead for `%27` stops at it.
  `TypeCorrect`: no span has a negative length.  `SpansExactHolds`: what has
  been read (`ReadInv`) is element after element, with nothing but separators
  between them, up to the token that is being read.
* `ExpositionText_proofs` - `Invariance`: the same for the exposition.  Two
  states take no character, so each character pays for two steps and at most one
  is owed (`Paid`); `LineInv` and `TokenInv` say what has been read of the line
  and of the token; `StartsInv`, that the series are those begun so far.  From
  it: `SafetyIsEnoughHolds`, `MetricFirstHolds`, `SpansExactHolds`,
  `WholeTextReadHolds`.
* `SimulateData_proofs`, over `CurveSpec`, that is with the curve of `wt_tonnes` -
  `OnGridHolds`: the loop's time is `start + k * step` although it is computed
  modulo 2^64, because both terms are below 2^63 and the loop stops before a
  third could be added.  `WithinLimitHolds`: if the count fits an int, at most
  one value more than the limit is written.  `GridCompleteHolds`: the loop ends
  at the first time of the grid that is not before `stop`.  `EnoughRoomHolds`:
  with values of at most 11 characters (what `%.4f` gives up to 999999) and at
  least 16 bytes per value - the theorem's hypotheses, and the figures of the
  code - four values leave the room a fifth needs.  `PauseIsHalfHolds`: the
  invariant `LoadInv` says that the times of the grid since `loaded`, the last
  one under load, are without load and before the next load (`Waiting`); the
  random number of a block sets the end of the load before it and the beginning
  of its own, half a period later.
* `QueryHandler_proofs` - `LastArgumentWinsHolds`: `TimesInv`, what was read is
  what the last argument so far with the name said.  `AnswerInvariant`: the body
  is the beginning of an answer, in which each opening of an object is followed
  by the series of its number, or by none at all (`BodyInv`); what is sent is
  nothing or an answer with its end (`EndInv`).  From it:
  `OneObjectPerSeriesHolds` and `JSONUnlessNoValuesHolds`.  `ValuesAsAskedHolds`
  joins the two: all arguments have been read once the series are looked up
  (`ReadInv`), and the body has values from the first object on exactly if the
  range is one (`ValuesInv`).
* `ModuleConf_proofs` - `ConfInvariant`: a part that is not merged says what the
  file says of its block alone (`OwnInv`), a merged one what the file says of the
  block and of those around it (`MergedInv`); the merge of a block needs that of
  the block it is in, and the lemmas `NearestSimset` and `EnableOuter` say what
  it passes on.  From it: `HandlerCache` and `Refusals`.
* `StringHash_proofs` - `Invariance`.  What the fitting loop counts for a bucket
  is a sequence of sums, one per name (`SumsIs`); `MemInv` says that the elements
  written so far stand at these sums, in the order of the names, and the closing
  NULLs at the last of them; `RoomInv`, that the place a bucket was given holds
  its last sum and a NULL and ends before the next bucket begins; `ApartInv`,
  that what is written does not overlap; `WalkInv`, that a search stands at one
  of the sums of its bucket and has gone by no element it should have found.
  From it: `NothingClobberedHolds`, for buckets of at most half a `u_short`
  (`NoWrap`: then the sums are those of the integers, because the loop compares
  after each addition); and `FindExactHolds`, for buckets of any size: a sum that
  wraps leads the fill loop back into its own bucket, to an element that is
  there already (`Unwrapped`), so a table that was built without an overlap has
  no wrapped sum and the walk, which adds without wrapping, meets the elements
  where they were written.  `OnlyEmptyDivides`: the check of the name lengths
  keeps every list but the empty one from the division by zero.  The sums are a
  recursive function; they are unfolded once, for given arguments, by taking the
  least number at which they would not be as stated (`UpTo`), since the library's
  induction theorems are beyond the prover.  Assumed (`KeysAssumption`): lower
  case keeps the length of a name, and no value is 0, which is what the offset of
  the cache's ids is for.

Only model-checked:

* liveness - `Termination`, `AcceptsRendered`, `Returns`, `Answered`,
  `BackForTheNext` - which needs ENABLED;
* `PagesAnswered` is about one catalogue and one list of queries, for which TLC
  tries everything there is.

## Not modelled

White space of the answer (`pretty`) and the unused `epoch` and timestamps;
failures of allocations other than those the code tests for; the four curves
other than `wt_tonnes`, and the noise itself (floating point and a hash, without
state); `ngx_hash_utils` (a loop over a finished table, never called),
`dvt_trie` (commented out), `dvt_debug` and the string arrays (printing and
appending); build scripts, containers, and the JSON files nginx serves as they
are.  `components` in `PROJECT.json` gives the reason for each.

`ImplementsService` takes the selection of series in one step; that the loops
compute it is `ImplementsScan`.  The request's text and the JSON around the
series are `SpecText`'s and `QueryHandler`'s; composing these as well would
multiply state spaces without a new interaction, since they share nothing but
the list of pairs and the list of series.

## Plan

Done: all modules of the list above, their runs, and the proofs of all safety
properties that speak of more than one instance.  The order was that of the
hazards: the merge of the two sorted arrays, the tables and the encoding that
feed it, start-up and requests together against `Service`, the parsers, the
simulation, the handler and the configuration, and last the string hash, which
stands for the part of nginx the lookups rest on.

Left, should the code change: a run and theorems for `dvt_trie` and for
`ngx_hash_utils` once something calls them, and the four other curves if they
come to keep state, as `wt_tonnes` does.
