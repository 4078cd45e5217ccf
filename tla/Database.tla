------------------------------ MODULE Database ------------------------------
(***************************************************************************)
(* The database file of the accountant: schema::init,                      *)
(* quarantine_and_reopen and migrate of crates/sidebar-persistence, and    *)
(* how run_accountant_on_thread (main.rs) calls them.                      *)
(*                                                                         *)
(* SQLite commits each statement of init by itself, so a process that ends *)
(* in between leaves the schema half made.  A file is its user_version,    *)
(* its tables and the rows found in it; several processes may have it open.*)
(* Two quarantines in one second, which share a name, are not followed,    *)
(* nor are the -wal and -shm files beside a database: the code renames the *)
(* main file only, and what becomes of the others is SQLite's affair.  The *)
(* rows of a file are those in the main file.                              *)
(***************************************************************************)
EXTENDS Naturals, FiniteSets

CONSTANT Client         \* the processes with an accountant's thread

Table == {"current_cycle", "bandwidth_history", "current_cycle_metadata"}

VARIABLES
    file,       \* the set of the file at the path: empty or a singleton
    asides,     \* the files renamed to .corrupt-<timestamp>
    conn,       \* how far a client is: "none", a statement, "quarantine", "ready", "disabled"
    fresh       \* clients whose connection is the one quarantine opened

dbVars == <<file, asides, conn, fresh>>

LATEST_USER_VERSION == 2

File(version, tables, corrupt, rows) ==
    [version |-> version, tables |-> tables, corrupt |-> corrupt, rows |-> rows]

Empty == File(0, {}, FALSE, FALSE)

\* What an earlier run, an earlier or a later build, or a fault may have left.
V1Tables == {"current_cycle", "bandwidth_history"}
Left == {File(1, V1Tables, FALSE, TRUE), File(2, Table, FALSE, TRUE),
         File(3, Table, FALSE, TRUE), File(2, Table, TRUE, TRUE)}

DatabaseInit ==
    /\ file \in {{}} \cup {{f} : f \in Left}
    /\ asides = {}
    /\ conn = [c \in Client |-> "none"]
    /\ fresh = {}

-----------------------------------------------------------------------------
(* schema::init, statement by statement.                                   *)

StampsFirst ==
    [current_cycle |-> "bandwidth_history",
     bandwidth_history |-> "user_version",
     user_version |-> "current_cycle_metadata",
     current_cycle_metadata |-> "journal_mode",
     journal_mode |-> "ready"]

NextStatement ==
    [current_cycle |-> "bandwidth_history",
     bandwidth_history |-> "current_cycle_metadata",
     current_cycle_metadata |-> "journal_mode",
     journal_mode |-> "user_version",
     user_version |-> "ready"]

Statement == DOMAIN NextStatement

AfterStatement(f, s) ==
    CASE s \in Table -> [f EXCEPT !.tables = @ \cup {s}]
      [] s = "user_version" -> [f EXCEPT !.version = LATEST_USER_VERSION]
      [] OTHER -> f

\* Connection::open creates the file if there is none, and reads nothing of it.
Open(c) ==
    /\ conn[c] = "none"
    /\ file' = IF file = {} THEN {Empty} ELSE file
    /\ conn' = [conn EXCEPT ![c] = "current_cycle"]
    /\ fresh' = fresh \ {c}
    /\ UNCHANGED asides

OpenFails(c) ==
    /\ conn[c] = "none"
    /\ conn' = [conn EXCEPT ![c] = "disabled"]
    /\ UNCHANGED <<file, asides, fresh>>

InitStep(c) ==
    /\ conn[c] \in Statement
    /\ \A f \in file : ~f.corrupt
    /\ file' = {AfterStatement(f, conn[c]) : f \in file}
    /\ conn' = [conn EXCEPT ![c] = NextStatement[conn[c]]]
    /\ UNCHANGED <<asides, fresh>>

\* A corrupt file fails at the first statement; a locked file, a full disk or
\* a refused journal mode at any.  The connection is closed; the fresh one gets
\* no second chance.
InitFails(c) ==
    /\ conn[c] \in Statement
    /\ conn' = [conn EXCEPT ![c] = IF c \in fresh THEN "disabled" ELSE "quarantine"]
    /\ UNCHANGED <<file, asides, fresh>>

-----------------------------------------------------------------------------
(* quarantine_and_reopen.                                                  *)

IsOpen(c) == conn[c] \in Statement \cup {"ready"}

QuarantineRemoves(c) ==
    /\ conn[c] = "quarantine"
    /\ ~ \E d \in Client \ {c} : IsOpen(d)
    /\ file # {}
    /\ file' = {}
    /\ fresh' = fresh \cup {c}
    /\ conn' = [conn EXCEPT ![c] = "reopen"]
    /\ UNCHANGED asides

\* Windows does not rename a file another process has open.
Quarantine(c) ==
    /\ conn[c] = "quarantine"
    /\ ~ \E d \in Client \ {c} : IsOpen(d)
    /\ file # {}
    /\ asides' = asides \cup file
    /\ file' = {}
    /\ fresh' = fresh \cup {c}
    /\ conn' = [conn EXCEPT ![c] = "reopen"]

QuarantineFails(c) ==
    /\ conn[c] = "quarantine"
    /\ conn' = [conn EXCEPT ![c] = "disabled"]
    /\ UNCHANGED <<file, asides, fresh>>

Reopen(c) ==
    /\ conn[c] = "reopen"
    /\ \/ /\ file' = IF file = {} THEN {Empty} ELSE file
          /\ conn' = [conn EXCEPT ![c] = "current_cycle"]
       \/ /\ conn' = [conn EXCEPT ![c] = "disabled"]
          /\ UNCHANGED file
    /\ UNCHANGED <<asides, fresh>>

\* The process ends, wherever its accountant is.
Close(c) ==
    /\ conn[c] # "none"
    /\ conn' = [conn EXCEPT ![c] = "none"]
    /\ UNCHANGED <<file, asides, fresh>>

DatabaseStep(c) ==
    \/ Open(c) \/ OpenFails(c)
    \/ InitStep(c) \/ InitFails(c)
    \/ Quarantine(c) \/ QuarantineFails(c) \/ Reopen(c)

DatabaseNext == \E c \in Client : DatabaseStep(c) \/ Close(c)

DatabaseSpec == DatabaseInit /\ [][DatabaseNext]_dbVars

-----------------------------------------------------------------------------
(* migrate, which no part of the program calls: what it makes of a file.   *)

migrate_v0_to_v1(f) == [f EXCEPT !.tables = @ \cup V1Tables, !.version = 1]

migrate_v1_to_v2(f) == [f EXCEPT !.tables = @ \cup {"current_cycle_metadata"}, !.version = 2]

\* A file of a later build is refused.
Refused(f) == f.version > LATEST_USER_VERSION

migrate(f) ==
    CASE f.version = 0 -> migrate_v1_to_v2(migrate_v0_to_v1(f))
      [] f.version = 1 -> migrate_v1_to_v2(f)
      [] OTHER -> f

-----------------------------------------------------------------------------
(* Properties.                                                             *)

DatabaseTypeOK ==
    /\ Cardinality(file) <= 1
    /\ \A f \in file \cup asides :
          f \in [version : 0..3, tables : SUBSET Table, corrupt : BOOLEAN, rows : BOOLEAN]
    /\ conn \in [Client -> Statement \cup {"none", "quarantine", "reopen", "ready", "disabled"}]
    /\ fresh \subseteq Client

\* The stamp comes last: a file that says version 2 has the tables of
\* version 2, whichever statement a process ended after (schema.rs).
VersionTellsSchema == \A f \in file : f.version >= 2 => f.tables = Table

\* init does the work of migrate, although it never looks at the version and
\* another process may be at the same file: an accountant that runs has a file
\* on which migrate is a no-op (migrate.rs, fixture F6).
NothingToMigrate ==
    \A c \in Client, f \in file : conn[c] = "ready" => migrate(f) = f

\* The rows found at the path are never lost: they are still there or in the
\* file that was put aside (lib.rs, "must not overwrite a corrupt file").
HasRows(files) == \E f \in files : f.rows

RowsAreKept ==
    [][HasRows(file \cup asides) => HasRows(file' \cup asides')]_dbVars

\* "refuse to touch it so a stale binary can't silently downgrade the schema"
\* (migrate.rs).
NeverDowngraded ==
    [][\A f \in file, g \in file' : g.rows => g.version >= f.version]_dbVars

\* "when schema::init fails on an existing corrupt file" (lib.rs): only a
\* corrupt file is put aside.
OnlyCorruptIsPutAside == \A f \in asides : f.corrupt
=============================================================================
