------------------------------ MODULE SqlValues ------------------------------
(***************************************************************************)
(* The SQL NULL, and how the coordinator binds a boolean                   *)
(* (coordinator/src/database/mod.rs).                                      *)
(***************************************************************************)
EXTENDS Integers

CONSTANT NULL   \* the SQL NULL, and the absence of a value

ASSUME SqlValuesAssumption == NULL \notin {0, 1}

(* Mutant: FALSE is bound as 0 *)
BoolToBit(flag) == IF flag THEN 1 ELSE 0

(* bool_to_sql_int binds FALSE as NULL, not as 0 *)
BoolToSqlInt(flag) == IF flag THEN 1 ELSE NULL

(* The equals sign of SQL: NULL equals nothing, NULL least of all *)
SqlEqual(column, value) == column # NULL /\ value # NULL /\ column = value
=============================================================================
