------------------------------ MODULE MCFolder ------------------------------
EXTENDS Folder

KeptFiles == [n \in Names |-> IF n = "x" THEN "a" ELSE "b"]
=============================================================================
