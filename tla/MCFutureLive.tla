---------------------------- MODULE MCFutureLive ----------------------------
(* One scheduler, two coroutines and an awaitable: what must happen.       *)
EXTENDS Future
=============================================================================
