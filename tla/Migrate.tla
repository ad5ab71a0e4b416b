------------------------------- MODULE Migrate -------------------------------
(***************************************************************************)
(* db/migrate.js and index.js under docker-compose: every server container *)
(* runs "npm run migrate" and serves only when that has succeeded, and is  *)
(* started again whenever it stops.  Several may start at once, and may    *)
(* crash between any two statements.  Migration files are their numbers.   *)
(***************************************************************************)
EXTENDS Naturals

CONSTANTS Runners,
          MaxFiles,      \* bound: how many files the releases come to
          MaxFailures    \* bound: how often a statement or a container fails

ASSUME MigrateAssumption == MaxFiles \in Nat \ {0} /\ MaxFailures \in Nat

VARIABLES released,   \* the directory holds the files 1..released
          schema,     \* the files whose objects are committed
          ledger,     \* the rows of schema_migrations
          hasLedger,
          runners,
          failures

migrateVars == <<released, schema, ledger, hasLedger, runners, failures>>

Files == 1..MaxFiles

Down == [pc |-> "down", version |-> 0, applied |-> {}, pending |-> {}, file |-> 0]

Runner == [pc : {"down", "ensureLedger", "readLedger", "readdir", "sql", "insert", "commit",
                 "rollback", "verifyDatabase", "listening"},
           version : 0..MaxFiles,    \* the files of the release it runs
           applied : SUBSET Files,   \* the ledger as it was read
           pending : SUBSET Files,
           file : 0..MaxFiles]       \* the one in its transaction

MigrateTypeOK ==
  /\ released \in Files /\ schema \subseteq Files /\ ledger \subseteq Files
  /\ hasLedger \in BOOLEAN /\ failures \in 0..MaxFailures
  /\ runners \in [Runners -> Runner]

At(r, pc) == runners[r].pc = pc

MigrateInit ==
  /\ released = 1 /\ schema = {} /\ ledger = {} /\ hasLedger = FALSE
  /\ runners = [r \in Runners |-> Down] /\ failures = 0

-----------------------------------------------------------------------------
\* The next release has one more migration.
Release ==
  /\ released < MaxFiles /\ released' = released + 1
  /\ UNCHANGED <<schema, ledger, hasLedger, runners, failures>>

Goto(r, pc) == runners' = [runners EXCEPT ![r].pc = pc]

\* The container starts, with what is released by then.
Start(r) ==
  /\ At(r, "down")
  /\ runners' = [runners EXCEPT ![r] = [Down EXCEPT !.pc = "ensureLedger", !.version = released]]
  /\ UNCHANGED <<released, schema, ledger, hasLedger, failures>>

EnsureLedger(r) ==
  /\ At(r, "ensureLedger")
  /\ hasLedger' = TRUE
  /\ Goto(r, "readLedger")
  /\ UNCHANGED <<released, schema, ledger, failures>>

\* Outside any transaction: another runner may commit from here on.
ReadLedger(r) ==
  /\ At(r, "readLedger")
  /\ runners' = [runners EXCEPT ![r].pc = "readdir", ![r].applied = ledger]
  /\ UNCHANGED <<released, schema, ledger, hasLedger, failures>>

\* Slip: the ledger is not looked at.
EveryFile(r) == 1..runners[r].version

\* Slip: everything in the directory, not the .sql files alone.
Unfiltered(r) == 0..runners[r].version \ runners[r].applied

\* The files of the release that the ledger did not have.
Pending(r) == (1..runners[r].version) \ runners[r].applied

\* With nothing pending the runner is done, and the server is started.
Onward(pending) == IF pending = {} THEN "verifyDatabase" ELSE "sql"

Readdir(r) ==
  /\ At(r, "readdir")
  /\ runners' = [runners EXCEPT ![r].pc = Onward(Pending(r)), ![r].pending = Pending(r)]
  /\ UNCHANGED <<released, schema, ledger, hasLedger, failures>>

\* Slip: the statements of a file each commit by themselves.
Autocommitted == FALSE

\* BEGIN ... COMMIT around a file and its row.
InTransaction == TRUE

\* Slip: the files in whatever order readdir names them.
AnyOf(fs) == fs

\* The first of them: .sort()
First(fs) == {f \in fs : \A g \in fs : f <= g}

\* CREATE waits for whoever creates the same object and has not yet ended.
Contended(r, f) ==
  \E s \in Runners \ {r} : runners[s].pc \in {"insert", "commit"} /\ runners[s].file = f

\* A file's tables must not be there, those of the first one must.
Applicable(f) == f \notin schema /\ (f = 1 \/ 1 \in schema)

RunFile(r) ==
  /\ At(r, "sql")
  /\ \E f \in First(runners[r].pending) :
       /\ ~Contended(r, f)
       /\ runners' = [runners EXCEPT ![r].file = f,
                        ![r].pc = IF Applicable(f) THEN "insert" ELSE "rollback"]
       /\ schema' = IF ~InTransaction /\ Applicable(f) THEN schema \cup {f} ELSE schema
  /\ UNCHANGED <<released, ledger, hasLedger, failures>>

\* filename is the ledger's primary key.
InsertRow(r) ==
  /\ At(r, "insert")
  /\ Goto(r, IF runners[r].file \in ledger THEN "rollback" ELSE "commit")
  /\ UNCHANGED <<released, schema, ledger, hasLedger, failures>>

\* The runner with its current file behind it.
Past(r) ==
  LET rest == runners[r].pending \ {runners[r].file} IN
  [runners[r] EXCEPT !.pending = rest, !.pc = Onward(rest)]

Commit(r) ==
  /\ At(r, "commit")
  /\ schema' = schema \cup {runners[r].file} /\ ledger' = ledger \cup {runners[r].file}
  /\ runners' = [runners EXCEPT ![r] = Past(r)]
  /\ UNCHANGED <<released, hasLedger, failures>>

\* Slip: a file that failed is passed over.
PassOver(r) ==
  /\ At(r, "rollback")
  /\ runners' = [runners EXCEPT ![r] = Past(r)]
  /\ UNCHANGED <<released, schema, ledger, hasLedger, failures>>

\* Then the runner exits, and the container with it.
Rollback(r) ==
  /\ At(r, "rollback")
  /\ runners' = [runners EXCEPT ![r] = Down]
  /\ UNCHANGED <<released, schema, ledger, hasLedger, failures>>

\* main: verifyDatabaseConnection, then listen.
Listen(r) ==
  /\ At(r, "verifyDatabase")
  /\ Goto(r, "listening")
  /\ UNCHANGED <<released, schema, ledger, hasLedger, failures>>

\* A statement of a file fails halfway.
StatementFails(r) ==
  /\ runners[r].pc \in {"sql", "insert", "commit"} /\ failures < MaxFailures
  /\ failures' = failures + 1
  /\ Goto(r, "rollback")
  /\ UNCHANGED <<released, schema, ledger, hasLedger>>

\* The container goes, or the database is not to be reached: whatever is not
\* committed is gone.
Crash(r) ==
  /\ ~At(r, "down") /\ failures < MaxFailures
  /\ failures' = failures + 1
  /\ runners' = [runners EXCEPT ![r] = Down]
  /\ UNCHANGED <<released, schema, ledger, hasLedger>>

\* A new release is rolled out: a server that runs an older one is replaced.
RollOut(r) ==
  /\ At(r, "listening") /\ runners[r].version < released
  /\ runners' = [runners EXCEPT ![r] = Down]
  /\ UNCHANGED <<released, schema, ledger, hasLedger, failures>>

RunnerStep(r) ==
  \/ Start(r) \/ EnsureLedger(r) \/ ReadLedger(r) \/ Readdir(r) \/ RunFile(r)
  \/ InsertRow(r) \/ Commit(r) \/ Rollback(r) \/ Listen(r) \/ RollOut(r)

MigrateNext ==
  \/ Release
  \/ \E r \in Runners : RunnerStep(r) \/ StatementFails(r) \/ Crash(r)

\* A container that is down is started again, and what runs goes on running.
MigrateSpec ==
  /\ MigrateInit /\ [][MigrateNext]_migrateVars
  /\ \A r \in Runners : WF_migrateVars(RunnerStep(r))

-----------------------------------------------------------------------------
(***************************************************************************)
(* The ledger is the schema: at every moment, between the statements of    *)
(* any runner and after any crash, exactly the files recorded in           *)
(* schema_migrations have taken effect ("a retry starts from a clean state *)
(* rather than a partially-applied schema").                               *)
(***************************************************************************)
LedgerIsSchema == ledger = schema

(***************************************************************************)
(* Migrations take effect in the order of their numbers, although runners  *)
(* of different releases read the ledger once and then work on their own   *)
(* list while others commit.                                               *)
(***************************************************************************)
InOrder == \A f \in schema : 1..f \subseteq schema

(***************************************************************************)
(* No server listens on a schema that lacks a file of its own release      *)
(* ("a failed migration exits the container instead of serving against a   *)
(* schema that is not what the code expects").                             *)
(***************************************************************************)
ServesItsSchema ==
  \A r \in Runners : At(r, "listening") => 1..runners[r].version \subseteq schema

-----------------------------------------------------------------------------
(* Why these hold.                                                         *)

\* What a runner read from the ledger stays true: rows are only added.
ReadIsOld(r) == At(r, "readdir") => runners[r].applied \subseteq schema

\* A runner's own list lacks only files that have taken effect.
ListIsEnough(r) ==
  runners[r].pc \in {"sql", "insert", "commit"} =>
    /\ runners[r].pending \subseteq 1..runners[r].version
    /\ (1..runners[r].version) \ runners[r].pending \subseteq schema

\* The file in a transaction is the first of that list.
FileIsFirst(r) ==
  runners[r].pc \in {"insert", "commit"} => runners[r].file \in First(runners[r].pending)

\* A runner that is done has seen its whole release take effect.
DoneIsDone(r) ==
  runners[r].pc \in {"verifyDatabase", "listening"} => 1..runners[r].version \subseteq schema

(***************************************************************************)
(* The inductive invariant of the runners: what each still believes of the *)
(* ledger it read once stays enough to apply the rest in order, whatever   *)
(* the others commit meanwhile (migrate.js, the loop over pending).        *)
(***************************************************************************)
MigrateInv ==
  /\ MigrateTypeOK
  /\ LedgerIsSchema /\ InOrder
  /\ \A r \in Runners :
       ReadIsOld(r) /\ ListIsEnough(r) /\ FileIsFirst(r) /\ DoneIsDone(r)

(***************************************************************************)
(* Runners that start together and lose the race to a file fail, are       *)
(* started again and find it recorded: in the end every server listens,    *)
(* on the last release.                                                    *)
(***************************************************************************)
EverybodyServes ==
  \A r \in Runners : <>[](At(r, "listening") /\ runners[r].version = released)
=============================================================================
