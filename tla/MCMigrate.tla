----------------------------- MODULE MCMigrate -----------------------------
(* Small instances of Migrate for TLC. *)
EXTENDS Migrate, TLC

CONSTANTS p1, p2, p3

TwoRunners   == {p1, p2}
ThreeRunners == {p1, p2, p3}

(* Engines: the lock, transactional DDL, and writers refused. *)
Postgres == [locks |-> TRUE, transacts |-> TRUE, busy |-> FALSE]    \* and SQL Server
MySQL    == [locks |-> TRUE, transacts |-> FALSE, busy |-> FALSE]   \* and MariaDB
SQLite   == [locks |-> FALSE, transacts |-> TRUE, busy |-> TRUE]
Oracle   == [locks |-> FALSE, transacts |-> FALSE, busy |-> FALSE]  \* and D1

AllEngines == {Postgres, MySQL, SQLite, Oracle}

V1 == [source |-> 1, version |-> 1, sum |-> "a"]
V2 == [source |-> 2, version |-> 2, sum |-> "a"]
R0 == [source |-> 3, version |-> 0, sum |-> "a"]

(* An older and a newer release of one application. *)
Older == [versioned |-> {V1}, repeatable |-> {R0}]
Newer == [versioned |-> {V1, V2}, repeatable |-> {}]
Releases == {Older, Newer}

(* And one built from a branch that does not have version 1 yet.            *)
Branch == [versioned |-> {V2}, repeatable |-> {}]
Branches == {Older, Newer, Branch}

AllOps == {"apply", "verify", "baseline", "repair", "accept"}
Applies == {"apply", "repair"}
Bare == {1}

(* Where no lock keeps the programs apart, one fault of three of them.      *)
Twice == [e \in AllEngines |-> 2]
OnceUnlocked == [e \in AllEngines |-> IF e.locks THEN 2 ELSE 1]
Symmetry == Permutations(Runners)
=============================================================================
