--------------------------- MODULE MCRateLimiter ---------------------------
(* Two workers and four windows: two more requests than the hour allows, so  *)
(* that workers wait for a token and for the next hour.                      *)
EXTENDS RateLimiter
============================================================================
