-------------------------- MODULE MCFileRepository --------------------------
(* Small instances of FileRepository for TLC. *)
EXTENDS FileRepository, SmallTransactions

=============================================================================
