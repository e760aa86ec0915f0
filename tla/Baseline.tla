------------------------------ MODULE Baseline ------------------------------
(***************************************************************************)
(* internal/metrics/baseline.go: what an agent has learned to be normal    *)
(* for one cgroup, as operators on one entry of the table. A value that is *)
(* a float in the code is an integer here, and a ratio is in percent.      *)
(***************************************************************************)
EXTENDS Integers

CONSTANTS
    Alpha,             \* EMA smoothing, in percent
    Warmup,            \* observations before an entry is trusted
    PruneAfterMisses,  \* intervals without an observation before it is dropped
    None               \* no entry

ASSUME BaselineAssumption ==
    Alpha \in 1 .. 100 /\ Warmup \in Nat \ {0} /\ PruneAfterMisses \in Nat \ {0}

(* The code's samples grow for ever; nothing is told apart above Warmup.   *)
Entries == [value : Nat, samples : 1 .. Warmup, touched : BOOLEAN, misses : 0 .. PruneAfterMisses]

ASSUME NoEntryAssumption == None \notin Entries

Ready(e) == e # None /\ e.samples >= Warmup /\ e.value > 0

(* Deviation: how far current is above normal; 0 when not ready.           *)
Deviation(e, current) == IF Ready(e) THEN (100 * current) \div e.value ELSE 0

ObserveFromZero(e, current, update) ==
    LET old == IF e = None THEN [value |-> 0, samples |-> 0, touched |-> FALSE, misses |-> 0] ELSE e
        ema == (Alpha * current + (100 - Alpha) * old.value) \div 100
    IN  [value   |-> IF update THEN ema ELSE old.value,
         samples |-> IF old.samples < Warmup THEN old.samples + 1 ELSE Warmup,
         touched |-> TRUE, misses |-> 0]

ObserveAlways(e, current, update) ==
    LET ema == (Alpha * current + (100 - Alpha) * e.value) \div 100
    IN  IF e = None
        THEN [value |-> current, samples |-> 1, touched |-> TRUE, misses |-> 0]
        ELSE [value   |-> ema,
              samples |-> IF e.samples < Warmup THEN e.samples + 1 ELSE Warmup,
              touched |-> TRUE, misses |-> 0]

ObserveKeepsMisses(e, current, update) ==
    LET ema == (Alpha * current + (100 - Alpha) * e.value) \div 100
    IN  IF e = None
        THEN [value |-> current, samples |-> 1, touched |-> TRUE, misses |-> 0]
        ELSE [e EXCEPT !.value = IF update THEN ema ELSE @,
                       !.samples = IF @ < Warmup THEN @ + 1 ELSE Warmup, !.touched = TRUE]

(* Observe: fold current in, unless the entry is frozen. The first value   *)
(* becomes the normal one.                                                 *)
Observe(e, current, update) ==
    LET ema == (Alpha * current + (100 - Alpha) * e.value) \div 100
    IN  IF e = None
        THEN [value |-> current, samples |-> 1, touched |-> TRUE, misses |-> 0]
        ELSE [value   |-> IF update THEN ema ELSE e.value,
              samples |-> IF e.samples < Warmup THEN e.samples + 1 ELSE Warmup,
              touched |-> TRUE, misses |-> 0]

PruneLate(e) ==
    CASE e = None  -> None
      [] e # None /\ e.touched -> [e EXCEPT !.touched = FALSE]
      [] OTHER -> IF e.misses + 1 > PruneAfterMisses THEN None
                  ELSE [e EXCEPT !.misses = @ + 1]

(* Prune: once per interval; an entry not touched in it misses one more.   *)
Prune(e) ==
    CASE e = None  -> None
      [] e # None /\ e.touched -> [e EXCEPT !.touched = FALSE]
      [] OTHER -> IF e.misses + 1 >= PruneAfterMisses THEN None
                  ELSE [e EXCEPT !.misses = @ + 1]
=============================================================================
