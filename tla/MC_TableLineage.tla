-------------------------- MODULE MC_TableLineage --------------------------
(***************************************************************************)
(* Instance of TableLineage for TLC.  Two tables and two cubes: T1 feeds  *)
(* C1, T2 feeds C1 and C2.  Expanding C1 from T1 adds T2; expanding C1     *)
(* from a view where T2 shows both cubes meets a table already linked;     *)
(* expanding T2 from a C1 view replaces its record.                        *)
(***************************************************************************)
EXTENDS TableLineage

MCTables == {1, 2}
MCCubes  == {1, 2}
MCLinks == {<<1, 1>>, <<2, 1>>, <<2, 2>>}
=============================================================================
