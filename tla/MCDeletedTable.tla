-------------------------- MODULE MCDeletedTable --------------------------
(* The module of the TLC run of DeletedTable: keys 3 and 6, and 4 and 7,   *)
(* collide in a table of three cells.                                      *)
EXTENDS DeletedTable
=============================================================================
