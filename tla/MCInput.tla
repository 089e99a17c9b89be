----------------------------- MODULE MCInput -----------------------------
(* An instance of InputMonitor for TLC: frames of different sizes, one just *)
(* below the limit and one of an unknown type, and a forward timeout above  *)
(* the ping timeout, as RouterConfig has them by default.                   *)
EXTENDS InputMonitor

Sizes == <<1, 2, 1>>
Offsets == <<0, 5, 11, 16>>
=============================================================================
