--------------------------- MODULE MCDevicePairing ---------------------------
(* Device pairing with one or two tokens and up to three devices.          *)
EXTENDS DevicePairing

CONSTANTS t1, t2, d1, d2, d3, r1, r2, r3

=============================================================================
