--------------------------- MODULE MCEvmScreening ----------------------------
(***************************************************************************)
(* Instances of EvmScreening for TLC.                                      *)
(***************************************************************************)
EXTENDS EvmScreening

CONSTANTS e1, e2

\* Addresses that differ in more than their case.
Distinct == [e \in Evms |-> e]
==============================================================================
