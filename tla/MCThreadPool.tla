---------------------------- MODULE MCThreadPool ----------------------------
(***************************************************************************)
(* TLC instances of ThreadPool.  In both each graph has its own number of  *)
(* threads.  The first has three threads; the second only as many as it    *)
(* takes to show what a torn read does.                                    *)
(***************************************************************************)
EXTENDS ThreadPool
=============================================================================
