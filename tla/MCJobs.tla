------------------------------- MODULE MCJobs -------------------------------
(***************************************************************************)
(* One job of the application and one schedule with one occurrence, two    *)
(* workers that claim both at once, two schedulers, one retry.  One fault, *)
(* one handler that outlives its timeout and two changes of the schedule   *)
(* meet in every order.                                                    *)
(***************************************************************************)
EXTENDS Jobs

CONSTANTS a, s, w1, w2, c1, c2
=============================================================================
