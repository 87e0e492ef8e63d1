---------------------------- MODULE MCThreadPool ----------------------------
(***************************************************************************)
(* Two clients, jobs nested three deep, a pool of two threads: more nested *)
(* submissions than threads.                                               *)
(***************************************************************************)
EXTENDS ThreadPool, TLC
CONSTANTS c1, c2, a1, a2, a3, b1, b2
Tree == (a1 :> c1) @@ (a2 :> a1) @@ (a3 :> a2) @@ (b1 :> c2) @@ (b2 :> b1)
NoneOrOne == {{}, {"thread"}, {"alloc"}, {"wakeup"}}

Chain == (a1 :> c1) @@ (a2 :> a1) @@ (a3 :> a2)
Wakeup == {{"wakeup"}}
=============================================================================
