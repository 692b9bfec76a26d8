------------------------ MODULE MCRateLimitingQueue ------------------------
(***************************************************************************)
(* Two items that fail often enough for the product to leave the range of  *)
(* the integer, and delays, chosen by the limiters or asked for, that end  *)
(* before, at and after one another.                                       *)
(***************************************************************************)
EXTENDS RateLimitingQueue
=============================================================================
