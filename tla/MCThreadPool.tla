----------------------------- MODULE MCThreadPool -----------------------------
(* Instances of ThreadPool for TLC.                                         *)
EXTENDS ThreadPool

CONSTANTS f1, f2
===============================================================================
