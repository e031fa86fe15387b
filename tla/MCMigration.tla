----------------------------- MODULE MCMigration ----------------------------
(***************************************************************************)
(* Small instances of Migration: who owns which batch.                     *)
(***************************************************************************)
EXTENDS Migration, TLC

CONSTANTS b1, b2

\* Every Migration, in every incarnation, holds the same batch (two Projects on
\* one database generate the same Migration).
SameBatch == [m \in Migrations |-> [i \in Incs |-> b1]]

\* A Migration deleted and created again holds another batch.
NewBatch == [m \in Migrations |-> [i \in Incs |-> IF i = 1 THEN b1 ELSE b2]]

\* Names are interchangeable where BatchOf does not tell them apart.
Names == Permutations(Migrations)
=============================================================================
