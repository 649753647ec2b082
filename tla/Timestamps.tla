------------------------------ MODULE Timestamps ------------------------------
(***************************************************************************)
(* How the server reads times and durations that a client writes: push and *)
(* LogQL queries (src/src/ingest/mod.rs), PromQL queries                   *)
(* (src/src/query/promql/handlers.rs), trace searches                      *)
(* (src/src/query/traceql/handlers.rs) and durations (src/src/config.rs).  *)
(*                                                                         *)
(* An integer is taken for seconds, milliseconds, microseconds or          *)
(* nanoseconds by its size alone.  UnitRatio stands for 1000, and the      *)
(* limits between the units keep the ratios they have in the code.  An     *)
(* optional result is a sequence of at most one element.  A written float  *)
(* carries its value in nanoseconds: the rounding of f64 is left out.      *)
(***************************************************************************)
EXTENDS Integers, Sequences

CONSTANTS
    UnitRatio,      \* how many of a unit make one of the next larger one
    SecondsMax,     \* the largest integer that push and PromQL read as seconds
    SearchSeconds,  \* the smallest integer a trace search does not read as seconds
    MaxI64          \* i64::MAX

(* An i64 of nanoseconds ends before the number of seconds that is the first
   not to be read as seconds, in any of the readers.                       *)
ASSUME UnitConstants ==
    /\ UnitRatio \in Nat \ {0, 1} /\ SecondsMax \in Nat \ {0}
    /\ SearchSeconds \in Nat \ {0} /\ MaxI64 \in Nat
    /\ SearchSeconds <= SecondsMax
    /\ MaxI64 < SearchSeconds * (UnitRatio * UnitRatio * UnitRatio)

Units == {"ns", "us", "ms", "s"}

(* How many nanoseconds the unit is. *)
UnitNs(unit) ==
    CASE unit = "ns" -> 1
      [] unit = "us" -> UnitRatio
      [] unit = "ms" -> UnitRatio * UnitRatio
      [] unit = "s" -> UnitRatio * UnitRatio * UnitRatio

Saturate(n) == IF n > MaxI64 THEN MaxI64 ELSE IF n < -MaxI64 - 1 THEN -MaxI64 - 1 ELSE n

-----------------------------------------------------------------------------
(* classify_to_ns. *)

(* Mutant: there is no class for microseconds, as in the other two readers. *)
ClassifyToNs_NoMicroseconds(n) ==
    IF n > SecondsMax * UnitNs("us") THEN n
    ELSE IF n > SecondsMax THEN Saturate(n * UnitNs("ms"))
    ELSE Saturate(n * UnitNs("s"))

ClassifyToNs(n) ==
    IF n > SecondsMax * UnitNs("ms") THEN n
    ELSE IF n > SecondsMax * UnitNs("us") THEN Saturate(n * UnitNs("us"))
    ELSE IF n > SecondsMax THEN Saturate(n * UnitNs("ms"))
    ELSE Saturate(n * UnitNs("s"))

(* A written time: an integer, a float number of seconds, or neither. *)
WrittenInteger(n) == [is |-> "integer", n |-> n]

WrittenFloat(ns) == [is |-> "float", n |-> ns]

NotATime == [is |-> "text", n |-> 0]

FloatSecondsToNs(ns) == IF ns > MaxI64 \/ ns < -MaxI64 - 1 THEN << >> ELSE <<ns>>

ParseTimestampNs(t) ==
    CASE t.is = "integer" -> <<ClassifyToNs(t.n)>>
      [] t.is = "float" -> FloatSecondsToNs(t.n)
      [] t.is = "text" -> << >>

(* parse_timestamp_ms has no class for microseconds. *)
ClassifyToMs(n) ==
    IF n > SecondsMax * UnitRatio THEN n \div UnitNs("ms")
    ELSE IF n > SecondsMax THEN n
    ELSE Saturate(n * UnitRatio)

FloatSecondsToMs(ns) ==
    IF ns > MaxI64 * UnitNs("ms") \/ ns < -(MaxI64 + 1) * UnitNs("ms") THEN << >>
    ELSE <<IF ns < 0 THEN -((-ns) \div UnitNs("ms")) ELSE ns \div UnitNs("ms")>>

ParseTimestampMs(t) ==
    CASE t.is = "integer" -> <<ClassifyToMs(t.n)>>
      [] t.is = "float" -> FloatSecondsToMs(t.n)
      [] t.is = "text" -> << >>

(* param_to_ns, of an unsigned integer. *)
ParamToNs(n) ==
    IF n < SearchSeconds THEN Saturate(n * UnitNs("s"))
    ELSE IF n < SearchSeconds * UnitRatio THEN Saturate(n * UnitNs("ms"))
    ELSE Saturate(n)

-----------------------------------------------------------------------------
(* parse_duration: a number and a suffix, in nanoseconds.  Any other suffix,
   `us` among them, is part of a number that does not parse.               *)
ParseDuration(d) ==
    CASE d.n < 0 -> << >>
      [] d.n >= 0 /\ d.suffix = "ms" -> <<d.n * UnitNs("ms")>>
      [] d.n >= 0 /\ d.suffix \in {"", "s"} -> <<d.n * UnitNs("s")>>
      [] d.n >= 0 /\ d.suffix = "m" -> <<d.n * 60 * UnitNs("s")>>
      [] d.n >= 0 /\ d.suffix = "h" -> <<d.n * 3600 * UnitNs("s")>>
      [] d.n >= 0 /\ d.suffix = "d" -> <<d.n * 86400 * UnitNs("s")>>
      [] OTHER -> << >>

(* parse_duration_value of TraceQL: neither a bare number nor days. *)
ParseDurationValue(d) ==
    IF d.suffix \in {"ms", "s", "m", "h"} THEN ParseDuration(d) ELSE << >>

-----------------------------------------------------------------------------
(* An instant that push and LogQL recognise in every unit it is a whole
   number of: after 10^9 seconds and before the end of i64 nanoseconds.     *)
Recognised(ns) == SecondsMax * UnitNs("ms") < ns /\ ns <= MaxI64

(* The ways to write an instant in some units. *)
Writings(ns, units) ==
    {WrittenInteger(ns \div UnitNs(u)) : u \in {v \in units : ns % UnitNs(v) = 0}}

=============================================================================
