--------------------------- MODULE MCServerRelay ---------------------------
(* Two connections of one proxy, the second a download; reads of two bytes *)
(* on a bucket of three.                                                   *)
EXTENDS ServerRelay

CONSTANTS b1, b2

(* What the comment on relay_throttled says of the rate (nlink.rs          *)
(* 298-300), without the correction for late readings of the clock.        *)
RateKept == Cardinality(sent) <= Burst + clock

MCSilent == {<<b2, "user">>}
=============================================================================
