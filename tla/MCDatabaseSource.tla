-------------------------- MODULE MCDatabaseSource ---------------------------
(* Constants for TLC. *)
EXTENDS DatabaseSource

CONSTANTS h1, h2, s1

FirstUrl == <<h1, s1>>

\* One secret: a host, which drops the secret; the secret alone; a query alone.
FewRotations ==
    {[uri |-> None, host |-> None, secret |-> s1],
     [uri |-> None, host |-> h2, secret |-> None],
     [uri |-> None, host |-> None, secret |-> None]}
=============================================================================
