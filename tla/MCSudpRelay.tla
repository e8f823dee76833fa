---------------------------- MODULE MCSudpRelay ----------------------------
(* Channels of two packets and five packets from each end: enough to fill  *)
(* both channels and hold one more on both sides.                          *)
EXTENDS SudpRelay
=============================================================================
