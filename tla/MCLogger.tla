------------------------------ MODULE MCLogger ------------------------------
(***************************************************************************)
(* Logger for TLC: the configuration gives every constant its value.       *)
(***************************************************************************)
EXTENDS Logger
=============================================================================
