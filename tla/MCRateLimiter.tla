--------------------------- MODULE MCRateLimiter ---------------------------
(* Two clients, two requests a minute, minutes of three ticks. *)
EXTENDS RateLimiter

CONSTANTS k1, k2
=============================================================================
