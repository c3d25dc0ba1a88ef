----------------------------- MODULE MCEventLoop -----------------------------
(***************************************************************************)
(* EventLoop on a small instance for TLC.  Two other threads is the least  *)
(* number for which one can be between its push and its write while the    *)
(* other's write is consumed; an eventfd with maximum 1 is at its limit    *)
(* whenever it is readable.                                                *)
(***************************************************************************)
EXTENDS EventLoopThread
=============================================================================
