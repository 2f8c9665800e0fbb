--------------------------- MODULE MCEpochTicker ---------------------------
(* Instances of EpochTicker for TLC.                                       *)
EXTENDS EpochTicker

\* None, the smallest values and one that takes several ticks.
MCTimeouts == {NoTimeout, 0, 1, 3}
=============================================================================
