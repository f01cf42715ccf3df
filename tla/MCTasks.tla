------------------------------- MODULE MCTasks -------------------------------
(* Three children, of which two lock, a thread that locks, and three other *)
(* timers: due together with another, and before it.  The orders of the    *)
(* mutexes take the code for one, two and three of them.  A generator ends *)
(* at once, another yields once, a third twice.                            *)
EXTENDS Tasks

CONSTANTS k1, k2, k3, a1, a2, a3, g1, g2, g3, n1

MCtp == k1 :> 0 @@ k2 :> 1 @@ k3 :> 1 @@ a1 :> 1 @@ a2 :> 1 @@ a3 :> 0
MCYields == g1 :> 0 @@ g2 :> 1 @@ g3 :> 2
MCOrders == k1 :> {<<1, 2, 3>>} @@ k2 :> {<<3, 2, 1>>, <<2, 3>>, <<1>>}
            @@ n1 :> {<<2, 1>>}
=============================================================================
