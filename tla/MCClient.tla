------------------------------ MODULE MCClient ------------------------------
(***************************************************************************)
(* Client with three servers: two of equal load and one heavier, the       *)
(* heaviest of an unsupported type in some of the runs.                    *)
(***************************************************************************)
EXTENDS Client

MCServers == 1 .. 3
MCLoad == [s \in MCServers |-> IF s = 3 THEN 2 ELSE 1]
=============================================================================
