--------------------------- MODULE MCParallelPut ---------------------------
(***************************************************************************)
(* ParallelPut with two blocks of the lengths of a .cfg.                   *)
(***************************************************************************)
EXTENDS ParallelPut

CONSTANTS Length0, Length1

MCLength == [b \in 0 .. 1 |-> IF b = 0 THEN Length0 ELSE Length1]
MCOff    == [b \in 0 .. 2 |-> IF b = 0 THEN 0 ELSE IF b = 1 THEN Length0
                                                   ELSE Length0 + Length1]
MCWeight == [b \in 0 .. 1 |-> b + 1]
=============================================================================
