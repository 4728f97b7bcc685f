---------------------------- MODULE SimulateData ----------------------------
(***************************************************************************)
(* dvt_simulate_data: the values of one series at start, start + step, ... *)
(* before stop, written as a JSON array into a buffer whose size is fixed  *)
(* beforehand.  The arithmetic has the code's widths (scaled down for TLC):*)
(* start, stop and step are uint64_t, the number of values is an int.      *)
(***************************************************************************)
EXTENDS Words, FiniteSets

CONSTANTS
  ROOM,           \* 16: bytes the code allows for a value
  Widths,         \* lengths of a printed value, with its two quote marks
  Times, Steps,   \* what query_handler lets through: not negative as int64_t
  Series          \* the series' metric, and the labels it has

ASSUME RoomAssumption == ROOM \in Nat /\ Widths \subseteq Nat

ASSUME RequestAssumption ==
  /\ Times \subseteq 0 .. (WORD64 \div 2 - 1)
  /\ Steps \subseteq 0 .. (WORD64 \div 2 - 1)

\* The labels whose values parameterise the curve of a metric.
Needs ==
  [sin |-> {"period"}, random_wave |-> {"period"}, ping_time_ms |-> {"level"},
   wt_tonnes |-> {"level", "width"}, mixed_wave |-> {}, bytes_sent |-> {}]

VARIABLES
  start, stop, step, series,
  pc,        \* "count", "metric", "alloc", "emit", "null", "text", "trap", "undefined"
  n,         \* the int
  current,   \* the time of the next value
  emitted,   \* values written
  used       \* bytes written to the buffer of ROOM * n bytes

vars == <<start, stop, step, series, pc, n, current, emitted, used>>
request == <<start, stop, step, series>>

Init ==
  /\ start \in Times /\ stop \in Times /\ step \in Steps
  /\ stop > 0
  /\ series \in Series
  /\ pc = "count" /\ n = 0 /\ current = 0 /\ emitted = 0 /\ used = 0

\* A division by a step of zero ends the process.
Trap ==
  /\ pc = "count" /\ step = 0
  /\ pc' = "trap"
  /\ UNCHANGED <<request, n, current, emitted, used>>

CountValues ==
  /\ pc = "count" /\ step # 0
  /\ n' = Count(start, stop, step)
  /\ pc' = IF OutOfRange(n') THEN "null" ELSE "metric"
  /\ UNCHANGED <<request, current, emitted, used>>

UnknownMetric ==
  /\ pc = "metric" /\ series.metric \notin DOMAIN Needs
  /\ pc' = "null"
  /\ UNCHANGED <<request, n, current, emitted, used>>

\* dvt_series_spec_label_value has no answer for a label the series lacks: it
\* goes on to read the tables of the cache out of range.
MissingParameter ==
  /\ pc = "metric" /\ series.metric \in DOMAIN Needs
  /\ ~(Needs[series.metric] \subseteq series.labels)
  /\ pc' = "undefined"
  /\ UNCHANGED <<request, n, current, emitted, used>>

Parameters ==
  /\ pc = "metric" /\ series.metric \in DOMAIN Needs
  /\ Needs[series.metric] \subseteq series.labels
  /\ pc' = "alloc"
  /\ UNCHANGED <<request, n, current, emitted, used>>

AllocFails ==
  /\ pc = "alloc"
  /\ pc' = "null"
  /\ UNCHANGED <<request, n, current, emitted, used>>

\* The first time is one step late.
Alloc_StepAhead ==
  /\ pc = "alloc"
  /\ pc' = "emit"
  /\ used' = 1 /\ current' = (start + step) % WORD64
  /\ UNCHANGED <<request, n, emitted>>

\* The buffer, the opening bracket and the start of the loop.
Alloc ==
  /\ pc = "alloc"
  /\ pc' = "emit"
  /\ used' = 1 /\ current' = start
  /\ UNCHANGED <<request, n, emitted>>

\* The loop also includes the end of the range.
More_Inclusive == current <= stop

\* current < stop, with current converted to uint64_t
More == current < stop

\* Values are separated by a comma and a space.
Emit_CommaSpace ==
  /\ pc = "emit" /\ More
  /\ \E w \in Widths : used' = used + (IF current # start THEN 2 ELSE 0) + w
  /\ emitted' = emitted + 1
  /\ current' = (current + step) % WORD64
  /\ UNCHANGED <<request, pc, n>>

Emit ==
  /\ pc = "emit" /\ More
  /\ \E w \in Widths : used' = used + (IF current # start THEN 1 ELSE 0) + w
  /\ emitted' = emitted + 1
  /\ current' = (current + step) % WORD64
  /\ UNCHANGED <<request, pc, n>>

\* The loop is left only at the very end of the range.
Close_AtStop ==
  /\ pc = "emit" /\ current = stop
  /\ used' = used + 2
  /\ pc' = "text"
  /\ UNCHANGED <<request, n, current, emitted>>

\* The closing bracket and, copied with it, a NUL.
Close ==
  /\ pc = "emit" /\ ~More
  /\ used' = used + 2
  /\ pc' = "text"
  /\ UNCHANGED <<request, n, current, emitted>>

Next ==
  \/ Trap \/ CountValues \/ UnknownMetric \/ MissingParameter \/ Parameters
  \/ AllocFails \/ Alloc \/ Emit \/ Close

Spec == Init /\ [][Next]_vars

-----------------------------------------------------------------------------
Range64 == (stop - start) % WORD64

\* The number of steps fits an int: nothing is cut off by the conversion.
NotCut == Range64 \div step < INT32 \div 2

TypeOK ==
  /\ start \in Times /\ stop \in Times /\ step \in Steps /\ series \in Series
  /\ pc \in {"count", "metric", "alloc", "emit", "null", "text", "trap", "undefined"}
  /\ pc \in {"metric", "alloc", "emit", "text"} => n \in 1 .. MAX_N_VALUES
  /\ current \in 0 .. WORD64 - 1
  /\ emitted \in Nat /\ used \in Nat

\* The values carry no times: the client puts the k-th value at
\* start + (k - 1) * step, and so does the loop, which never wraps although
\* its times leave the range of int64_t.
OnGrid == pc \in {"emit", "text"} => current = start + emitted * step

\* A finished answer has a value for every time of the grid in [start, stop).
GridComplete ==
  pc = "text" =>
    emitted = Cardinality({k \in 0 .. stop : start + k * step < stop})

\* As long as the number of steps is not cut to 32 bits, the limit holds up
\* to the one value by which a range that is not a multiple of step exceeds it.
WithinLimit ==
  pc = "text" /\ NotCut => emitted <= MAX_N_VALUES + 1

\* 16 bytes per value are enough for values of at most 11 characters when the
\* range is a whole number of steps, and for any range of four steps or more.
EnoughRoom ==
  pc = "text" /\ NotCut /\ (Range64 % step = 0 \/ n >= 4) =>
    used <= ROOM * n

-----------------------------------------------------------------------------
\* "oodles of room": what is written fits the buffer.  The code does not keep
\* this promise.
BufferFits == pc \in {"emit", "text"} => used <= ROOM * n
=============================================================================
