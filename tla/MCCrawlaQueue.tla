---------------------------- MODULE MCCrawlaQueue ----------------------------
(***************************************************************************)
(* Instance of CrawlaQueue for TLC: one call of runAll over two buckets.   *)
(* Two calls share nothing but the screen.                                 *)
(***************************************************************************)
EXTENDS CrawlaQueue

CONSTANT l1
=============================================================================
