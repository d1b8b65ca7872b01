----------------------------- MODULE MCExecution -----------------------------
(* Instance of Execution for TLC: the two libraries with their real tables.  *)
EXTENDS Execution, LibraryTables

Tables == [l \in {"exec", "dos"} |-> IF l = "exec" THEN ExecTable ELSE DosTable]
LibraryNames == DOMAIN Tables
=============================================================================
