------------------------------- MODULE MCStore -------------------------------
(* Module Store for TLC: two worker threads of the server, and in the      *)
(* shared runs a command-line process with a thread of its own.            *)
EXTENDS Store, TLC

CONSTANTS t1, t2, t3, server, cli, s1, s2, s3

ServerThreads == {t1, t2}
ServerHost    == (t1 :> server) @@ (t2 :> server)
SharedThreads == {t1, t2, t3}
SharedHost    == (t1 :> server) @@ (t2 :> server) @@ (t3 :> cli)

ScanSymmetry == Permutations(ScanIds)
=============================================================================
