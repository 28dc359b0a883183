-------------------------------- MODULE MCForecast ---------------------------------
(***********************************************************************************)
(* ForecastArena with one session that locks once, an admin and the worker that    *)
(* resolve the same market.                                                        *)
(***********************************************************************************)
EXTENDS ForecastArena

OneLock == {[who |-> "ann", key |-> NoKey, asked |-> 2]}

=====================================================================================
