------------------------ MODULE MCRateLimiterStore --------------------------
(* Instances of RateLimiterStore for TLC. *)
EXTENDS RateLimiterStore

AllAlgorithms == {"fixed", "bucket", "adaptive"}
=============================================================================
