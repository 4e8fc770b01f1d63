------------------------------- MODULE MCRegistry ------------------------------
(***************************************************************************)
(* Instances of Registry for TLC: every choice of enabled modules, or the  *)
(* default ones.                                                           *)
(***************************************************************************)
EXTENDS Registry

AnyModules == SUBSET Module
DefaultModules == {Module}

================================================================================
