------------------------ MODULE MCPostgresRepository ------------------------
(* Small instances of PostgresRepository for TLC. *)
EXTENDS PostgresRepository, SmallTransactions

=============================================================================
