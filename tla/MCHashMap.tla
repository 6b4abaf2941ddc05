----------------------------- MODULE MCHashMap ------------------------------
(***************************************************************************)
(* Model of HashMap for TLC: four keys, three of which collide in the      *)
(* table of four slots and two of which still collide in the one of eight, *)
(* with probe paths that wrap around the end of the table.                 *)
(***************************************************************************)
EXTENDS HashMap

MCKeys == 1 .. 4
MCHash == <<3, 7, 11, 0>>
=============================================================================
