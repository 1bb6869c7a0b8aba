------------------------------ MODULE MCProgress -------------------------------
EXTENDS GlobalIndexProgress
MCKeyOf == [i \in Index |-> [v \in Value |-> v]]
================================================================================
