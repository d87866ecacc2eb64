------------------------------ MODULE MCKeyList ------------------------------
EXTENDS KeyList

AddedOn == [i \in Ids |-> IF i = "f1" THEN "a" ELSE "b"]
=============================================================================
