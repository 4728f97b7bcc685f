------------------------------ MODULE WtTonnes ------------------------------
(***************************************************************************)
(* dvt_simulate_data with the curve of wt_tonnes: a belt that is loaded    *)
(* once in every block of one period, from a random time p1 in the first   *)
(* half of the block to a random time p2 in its second half.  A value      *)
(* depends on its own block only; that loads and pauses fit together       *)
(* across blocks rests on two blocks using the same random number.         *)
(***************************************************************************)
EXTENDS SimulateData

CONSTANTS
  Belts,       \* values of the label width
  TEN_MINUTES, \* 60 * 10 * 1000: milliseconds
  RAMP,        \* 1000 * 20
  WORD32,      \* 2^32: period_10m is a uint32_t
  FINE,        \* random numbers are multiples of 1 / FINE
  LastBlock,   \* bound on the number of a block
  Noise        \* FINE times uniform_rand_01, by the number of a block

ASSUME CurveAssumption ==
  /\ Belts \subseteq Nat /\ TEN_MINUTES \in Nat /\ RAMP \in Nat /\ WORD32 \in Nat \ {0}
  /\ TEN_MINUTES % 2 = 0 /\ WORD32 % 2 = 0
  /\ FINE \in Nat \ {0} /\ LastBlock \in Nat /\ Noise \subseteq [0 .. LastBlock -> 0 .. FINE]

Period(w) == (w * TEN_MINUTES) % WORD32

\* The bound leaves out no block of a request, nor the one after its last.
ASSUME BlockAssumption ==
  \A x \in Times, w \in Belts : Period(w) > 0 => x \div Period(w) < LastBlock

VARIABLES
  width, rand,
  loaded,   \* the time of the last value under load, or None
  pause     \* how long before the first value of this load that was, or None

curveVars == <<width, rand, loaded, pause>>
seriesVars == <<vars, curveVars>>

None == -1

IsTonnes == series.metric = "wt_tonnes"

period_10m == Period(width)

Block(x) == x \div period_10m

p1(k) == (rand[k] * period_10m) \div (2 * FINE) + k * period_10m

\* The end of a load from the random number of its own block.
p2_OwnBlock(k) == ((rand[k] + FINE) * period_10m) \div (2 * FINE) + k * period_10m

p2(k) == ((rand[k + 1] + FINE) * period_10m) \div (2 * FINE) + k * period_10m

\* What dvt_simulate_wt_tonnes returns for a time: about the level, a part of
\* it that grows or shrinks, or zero.
Curve(x) ==
  LET first == p1(Block(x))  last == p2(Block(x)) IN
    IF first <= x /\ x <= last THEN "load"
    ELSE IF first - RAMP < x /\ x < first THEN "up"
    ELSE IF last < x /\ x < last + RAMP THEN "down"
    ELSE "none"

CurveInit ==
  /\ Init
  /\ IF IsTonnes THEN width \in Belts /\ rand \in Noise
     ELSE width = 0 /\ rand = [k \in {} |-> 0]
  /\ loaded = None /\ pause = None

EmitOther == ~IsTonnes /\ Emit /\ UNCHANGED curveVars

\* The period is the divisor of every time.
PeriodTrap ==
  /\ pc = "emit" /\ More /\ IsTonnes /\ period_10m = 0
  /\ pc' = "trap"
  /\ UNCHANGED <<request, n, current, emitted, used, curveVars>>

EmitTonnes ==
  /\ IsTonnes /\ period_10m # 0
  /\ Emit
  /\ IF Curve(current) = "load"
     THEN /\ loaded' = current
          /\ pause' = IF loaded = None THEN None
                      ELSE IF loaded = current - step THEN pause ELSE current - loaded
     ELSE UNCHANGED <<loaded, pause>>
  /\ UNCHANGED <<width, rand>>

CurveNext ==
  \/ (\/ Trap \/ CountValues \/ UnknownMetric \/ MissingParameter \/ Parameters
      \/ AllocFails \/ Alloc \/ Close)
     /\ UNCHANGED curveVars
  \/ EmitOther \/ EmitTonnes \/ PeriodTrap

CurveSpec == CurveInit /\ [][CurveNext]_seriesVars

FairCurveSpec == CurveSpec /\ WF_seriesVars(CurveNext)

-----------------------------------------------------------------------------
DividedByZero == pc = "trap" /\ (step = 0 \/ (IsTonnes /\ period_10m = 0))

LabelMissing == pc = "undefined" /\ ~(Needs[series.metric] \subseteq series.labels)

\* Every call returns, unless the step or the period is zero or a label is
\* missing.
Returns ==
  <>(pc \in {"null", "text"} \/ DividedByZero \/ LabelMissing)

\* The loads a client sees in an answer are half a period apart, whatever the
\* random numbers, the start and the step: never closer, and, if the step is
\* too short to miss a load, further only by the step at either end.
PauseIsHalf ==
  pause # None =>
    /\ pause >= period_10m \div 2
    /\ (\A k \in 0 .. LastBlock - 1 : p2(k) - p1(k) >= step) =>
         pause <= period_10m \div 2 + 2 * step
=============================================================================
