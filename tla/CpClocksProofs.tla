--------------------------- MODULE CpClocksProofs ---------------------------
(***************************************************************************)
(* Facts about the clock algebra that every proof about clocks rests on.   *)
(***************************************************************************)
EXTENDS CpClocks, TLAPS

\* SwitchState yields a clock bank again.
LEMMA SwitchType ==
  ASSUME NEW c \in Bank, NEW a \in ClockState, NEW b \in ClockState,
         NEW time \in Int
  PROVE  SwitchState(c, a, b, time) \in Bank
BY DEF SwitchState, Bank

\* SwitchState at some time of day leaves what every clock shows at that time
\* unchanged: the heart of the offset representation.
LEMMA SwitchKeeps ==
  ASSUME NEW c \in Bank, NEW a \in ClockState, NEW b \in ClockState,
         NEW time \in Int, NEW i \in ClockType
  PROVE  Elapsed(SwitchState(c, a, b, time)[i], i, b, time)
           = Elapsed(c[i], i, a, time)
BY DEF SwitchState, Bank, Elapsed
=============================================================================
