---------------------------- MODULE MigrateProofs ----------------------------
(***************************************************************************)
(* The migrations runner, for any number of containers, files and          *)
(* failures: MigrateInv is inductive, and with it the ledger is the        *)
(* schema, files take effect in order, and nothing listens too early.      *)
(***************************************************************************)
EXTENDS Migrate, TLAPS

Sound(r) == ReadIsOld(r) /\ ListIsEnough(r) /\ FileIsFirst(r) /\ DoneIsDone(r)

\* Once something has taken effect it stays: a runner that does nothing
\* itself is as right as it was.
LEMMA SoundStays ==
  ASSUME NEW s \in Runners, Sound(s), schema \subseteq schema',
         runners'[s] = runners[s]
  PROVE  Sound(s)'
  BY DEF Sound, ReadIsOld, ListIsEnough, FileIsFirst, DoneIsDone, At

\* A step of one runner has to answer for that runner alone.
LEMMA OneRunner ==
  ASSUME MigrateInv, NEW r \in Runners, NEW n \in Runner,
         runners' = [runners EXCEPT ![r] = n],
         schema \subseteq schema', Sound(r)',
         released' \in Files, schema' \subseteq Files, hasLedger' \in BOOLEAN,
         failures' \in 0..MaxFailures,
         ledger' = schema', InOrder'
  PROVE  MigrateInv'
<1>1. MigrateTypeOK'
  BY DEF MigrateInv, MigrateTypeOK, LedgerIsSchema
<1>2. ASSUME NEW s \in Runners PROVE Sound(s)'
  <2>1. CASE s = r
    BY <2>1
  <2>2. CASE s # r
    <3>1. runners'[s] = runners[s]
      BY <2>2 DEF MigrateInv, MigrateTypeOK
    <3>2. Sound(s)
      BY DEF MigrateInv, Sound
    <3> QED BY <3>1, <3>2, SoundStays
  <2> QED BY <2>1, <2>2
<1> QED BY <1>1, <1>2 DEF MigrateInv, LedgerIsSchema, Sound

\* So does a step that leaves the database alone.
LEMMA OnlyRunner ==
  ASSUME MigrateInv, NEW r \in Runners, NEW n \in Runner,
         runners' = [runners EXCEPT ![r] = n], Sound(r)',
         UNCHANGED <<released, schema, ledger>>, hasLedger' \in BOOLEAN,
         failures' \in 0..MaxFailures
  PROVE  MigrateInv'
<1>1. InOrder' /\ ledger' = schema' /\ schema' \subseteq Files /\ released' \in Files
  BY DEF MigrateInv, MigrateTypeOK, LedgerIsSchema, InOrder
<1> QED BY <1>1, OneRunner

\* What a container starts from is a whole record.
LEMMA DownType == Down \in Runner
<1>1. {} \in SUBSET Files /\ 0 \in 0..MaxFiles
  BY MigrateAssumption
<1> QED BY <1>1 DEF Down, Runner

\* A container that goes down has nothing to answer for.
LEMMA GoesDown ==
  ASSUME MigrateInv, NEW r \in Runners, runners' = [runners EXCEPT ![r] = Down],
         UNCHANGED <<released, schema, ledger, hasLedger>>, failures' \in 0..MaxFailures
  PROVE  MigrateInv'
<1>1. Down \in Runner
  BY DownType
<1>2. Sound(r)'
  BY DEF Sound, ReadIsOld, ListIsEnough, FileIsFirst, DoneIsDone, At, Down,
         MigrateInv, MigrateTypeOK
<1>3. hasLedger' \in BOOLEAN
  BY DEF MigrateInv, MigrateTypeOK
<1> QED BY <1>1, <1>2, <1>3, OnlyRunner

-----------------------------------------------------------------------------
LEMMA Initially == MigrateInit => MigrateInv
<1> SUFFICES ASSUME MigrateInit PROVE MigrateInv
  OBVIOUS
<1>1. MigrateTypeOK
  <2>1. released \in Files /\ failures \in 0..MaxFailures
    BY MigrateAssumption DEF MigrateInit, Files
  <2>2. schema \subseteq Files /\ ledger \subseteq Files /\ hasLedger \in BOOLEAN
    BY DEF MigrateInit
  <2>3. runners \in [Runners -> Runner]
    BY DownType DEF MigrateInit
  <2> QED BY <2>1, <2>2, <2>3 DEF MigrateTypeOK
<1>2. LedgerIsSchema /\ InOrder
  BY DEF MigrateInit, LedgerIsSchema, InOrder
<1>3. ASSUME NEW r \in Runners PROVE Sound(r)
  BY DEF MigrateInit, Sound, ReadIsOld, ListIsEnough, FileIsFirst, DoneIsDone, At, Down
<1> QED BY <1>1, <1>2, <1>3 DEF MigrateInv, Sound

LEMMA StartKeeps ==
  ASSUME MigrateInv, NEW r \in Runners, Start(r) PROVE MigrateInv'
<1> DEFINE n == [Down EXCEPT !.pc = "ensureLedger", !.version = released]
<1>1. n \in Runner /\ n.pc = "ensureLedger"
  <2>1. released \in 0..MaxFiles
    BY MigrateAssumption DEF MigrateInv, MigrateTypeOK, Files
  <2> QED BY <2>1, DownType DEF Runner
<1>2. runners' = [runners EXCEPT ![r] = n] /\ runners'[r] = n
  BY DEF Start, MigrateInv, MigrateTypeOK
<1>3. Sound(r)'
  BY <1>1, <1>2 DEF Sound, ReadIsOld, ListIsEnough, FileIsFirst, DoneIsDone, At
<1>4. UNCHANGED <<released, schema, ledger>> /\ hasLedger' \in BOOLEAN
      /\ failures' \in 0..MaxFailures
  BY DEF Start, MigrateInv, MigrateTypeOK
<1> QED BY <1>1, <1>2, <1>3, <1>4, OnlyRunner

LEMMA EnsureLedgerKeeps ==
  ASSUME MigrateInv, NEW r \in Runners, EnsureLedger(r) PROVE MigrateInv'
<1> DEFINE n == [runners[r] EXCEPT !.pc = "readLedger"]
<1>1. n \in Runner /\ n.pc = "readLedger"
  BY DEF MigrateInv, MigrateTypeOK, Runner
<1>2. runners' = [runners EXCEPT ![r] = n] /\ runners'[r] = n
  BY DEF EnsureLedger, Goto, MigrateInv, MigrateTypeOK
<1>3. Sound(r)'
  BY <1>1, <1>2 DEF Sound, ReadIsOld, ListIsEnough, FileIsFirst, DoneIsDone, At
<1>4. UNCHANGED <<released, schema, ledger>> /\ hasLedger' \in BOOLEAN
      /\ failures' \in 0..MaxFailures
  BY DEF EnsureLedger, MigrateInv, MigrateTypeOK
<1> QED BY <1>1, <1>2, <1>3, <1>4, OnlyRunner

LEMMA ReadLedgerKeeps ==
  ASSUME MigrateInv, NEW r \in Runners, ReadLedger(r) PROVE MigrateInv'
<1> DEFINE n == [runners[r] EXCEPT !.pc = "readdir", !.applied = ledger]
<1>1. n \in Runner /\ n.pc = "readdir" /\ n.applied = schema
  BY DEF MigrateInv, MigrateTypeOK, Runner, LedgerIsSchema
<1>2. runners' = [runners EXCEPT ![r] = n] /\ runners'[r] = n
  BY DEF ReadLedger, MigrateInv, MigrateTypeOK
<1>3. UNCHANGED <<released, schema, ledger>> /\ hasLedger' \in BOOLEAN
      /\ failures' \in 0..MaxFailures
  BY DEF ReadLedger, MigrateInv, MigrateTypeOK
<1>4. Sound(r)'
  BY <1>1, <1>2, <1>3 DEF Sound, ReadIsOld, ListIsEnough, FileIsFirst, DoneIsDone, At
<1> QED BY <1>1, <1>2, <1>3, <1>4, OnlyRunner

LEMMA ReaddirKeeps ==
  ASSUME MigrateInv, NEW r \in Runners, Readdir(r) PROVE MigrateInv'
<1> DEFINE n == [runners[r] EXCEPT !.pc = Onward(Pending(r)), !.pending = Pending(r)]
<1>1. runners[r] \in Runner /\ runners[r].applied \subseteq schema
  BY DEF Readdir, MigrateInv, MigrateTypeOK, ReadIsOld
<1>2. Pending(r) \in SUBSET Files
  BY <1>1, MigrateAssumption DEF Pending, Runner, Files
<1>3. n \in Runner
  BY <1>1, <1>2 DEF Runner, Onward
<1>4. /\ n.pc = Onward(Pending(r)) /\ n.pending = Pending(r)
      /\ n.version = runners[r].version
  BY <1>1 DEF Runner
<1>5. runners' = [runners EXCEPT ![r] = n] /\ runners'[r] = n
  BY DEF Readdir, MigrateInv, MigrateTypeOK
<1>6. UNCHANGED <<released, schema, ledger>> /\ hasLedger' \in BOOLEAN
      /\ failures' \in 0..MaxFailures
  BY DEF Readdir, MigrateInv, MigrateTypeOK
<1>7. Sound(r)'
  <2>1. (n.pc = "verifyDatabase" /\ Pending(r) = {}) \/ n.pc = "sql"
    BY <1>4 DEF Onward
  <2>2. Pending(r) \subseteq 1..n.version /\ (1..n.version) \ Pending(r) \subseteq schema
    BY <1>1, <1>4 DEF Pending
  <2> QED
    BY <2>1, <2>2, <1>4, <1>5, <1>6
       DEF Sound, ReadIsOld, ListIsEnough, FileIsFirst, DoneIsDone, At
<1> QED BY <1>3, <1>5, <1>6, <1>7, OnlyRunner

LEMMA RunFileKeeps ==
  ASSUME MigrateInv, NEW r \in Runners, RunFile(r) PROVE MigrateInv'
<1>1. PICK f \in First(runners[r].pending) :
        runners' = [runners EXCEPT ![r].file = f,
                      ![r].pc = IF Applicable(f) THEN "insert" ELSE "rollback"]
  BY DEF RunFile
<1> DEFINE n == [runners[r] EXCEPT !.file = f,
                   !.pc = IF Applicable(f) THEN "insert" ELSE "rollback"]
<1>2. runners[r] \in Runner /\ ListIsEnough(r) /\ runners[r].pc = "sql"
  BY DEF RunFile, MigrateInv, MigrateTypeOK, At
<1>3. f \in 0..MaxFiles
  BY <1>1, <1>2, MigrateAssumption DEF First, Runner, Files
<1>4. n \in Runner
  BY <1>2, <1>3 DEF Runner
<1>5. /\ n.pc \in {"insert", "rollback"} /\ n.file = f
      /\ n.pending = runners[r].pending /\ n.version = runners[r].version
  BY <1>2 DEF Runner
<1>6. runners' = [runners EXCEPT ![r] = n] /\ runners'[r] = n
  BY <1>1 DEF MigrateInv, MigrateTypeOK
<1>7. UNCHANGED <<released, schema, ledger>> /\ hasLedger' \in BOOLEAN
      /\ failures' \in 0..MaxFailures
  BY DEF RunFile, InTransaction, MigrateInv, MigrateTypeOK
<1>8. Sound(r)'
  <2>1. ListIsEnough(r)'
    BY <1>2, <1>5, <1>6, <1>7 DEF ListIsEnough
  <2>2. First(runners[r].pending)' = First(runners[r].pending)
    BY <1>5, <1>6 DEF First
  <2>3. FileIsFirst(r)'
    BY <2>2, <1>1, <1>5, <1>6 DEF FileIsFirst
  <2>4. ReadIsOld(r)' /\ DoneIsDone(r)'
    BY <1>5, <1>6 DEF ReadIsOld, DoneIsDone, At
  <2> QED BY <2>1, <2>3, <2>4 DEF Sound
<1> QED BY <1>4, <1>6, <1>7, <1>8, OnlyRunner

LEMMA InsertRowKeeps ==
  ASSUME MigrateInv, NEW r \in Runners, InsertRow(r) PROVE MigrateInv'
<1> DEFINE pc == IF runners[r].file \in ledger THEN "rollback" ELSE "commit"
           n == [runners[r] EXCEPT !.pc = pc]
<1>1. runners[r] \in Runner /\ ListIsEnough(r) /\ FileIsFirst(r) /\ runners[r].pc = "insert"
  BY DEF InsertRow, MigrateInv, MigrateTypeOK, At
<1>2. n \in Runner
  BY <1>1 DEF Runner
<1>3. /\ n.pc \in {"commit", "rollback"} /\ n.file = runners[r].file
      /\ n.pending = runners[r].pending /\ n.version = runners[r].version
  BY <1>1 DEF Runner
<1>4. runners' = [runners EXCEPT ![r] = n] /\ runners'[r] = n
  BY DEF InsertRow, Goto, MigrateInv, MigrateTypeOK
<1>5. UNCHANGED <<released, schema, ledger>> /\ hasLedger' \in BOOLEAN
      /\ failures' \in 0..MaxFailures
  BY DEF InsertRow, MigrateInv, MigrateTypeOK
<1>6. Sound(r)'
  BY <1>1, <1>3, <1>4, <1>5
     DEF Sound, ReadIsOld, ListIsEnough, FileIsFirst, DoneIsDone, At, First
<1> QED BY <1>2, <1>4, <1>5, <1>6, OnlyRunner

\* The step that changes the schema: all that comes before the file has taken
\* effect, because the file is the first that the runner's list still has.
LEMMA CommitKeeps ==
  ASSUME MigrateInv, NEW r \in Runners, Commit(r) PROVE MigrateInv'
<1> DEFINE f == runners[r].file
           v == runners[r].version
           rest == runners[r].pending \ {f}
           n == [runners[r] EXCEPT !.pending = rest, !.pc = Onward(rest)]
<1>1. runners[r] \in Runner /\ ListIsEnough(r) /\ FileIsFirst(r) /\ runners[r].pc = "commit"
  BY DEF Commit, MigrateInv, MigrateTypeOK, At
<1>2. /\ f \in runners[r].pending /\ \A g \in runners[r].pending : f <= g
      /\ runners[r].pending \subseteq 1..v /\ (1..v) \ runners[r].pending \subseteq schema
  BY <1>1 DEF ListIsEnough, FileIsFirst, First
<1>3. v \in 0..MaxFiles /\ f \in 1..v /\ f \in Files
  BY <1>1, <1>2, MigrateAssumption DEF Runner, Files
<1>4. n \in Runner
  BY <1>1 DEF Runner, Onward
<1>5. n.pc = Onward(rest) /\ n.pending = rest /\ n.version = v
  BY <1>1 DEF Runner
<1>6. runners' = [runners EXCEPT ![r] = n] /\ runners'[r] = n
  BY DEF Commit, Past, MigrateInv, MigrateTypeOK
<1>7. schema' = schema \cup {f} /\ ledger' = schema'
  BY DEF Commit, MigrateInv, LedgerIsSchema
<1>8. /\ released' \in Files /\ schema' \subseteq Files /\ hasLedger' \in BOOLEAN
      /\ failures' \in 0..MaxFailures
  BY <1>3, <1>7 DEF Commit, MigrateInv, MigrateTypeOK
<1>9. InOrder'
  <2>1. 1..f \subseteq schema'
    <3> SUFFICES ASSUME NEW g \in 1..f PROVE g \in schema'
      OBVIOUS
    <3>1. CASE g = f
      BY <3>1, <1>7
    <3>2. CASE g # f
      <4>1. g \in 1..v /\ ~(f <= g)
        BY <3>2, <1>3, MigrateAssumption
      <4>2. g \in schema
        BY <4>1, <1>2
      <4> QED BY <4>2, <1>7
    <3> QED BY <3>1, <3>2
  <2>2. InOrder
    BY DEF MigrateInv
  <2> QED BY <2>1, <2>2, <1>7 DEF InOrder
<1>10. (1..v) \ rest \subseteq schema'
  BY <1>2, <1>7
<1>11. Sound(r)'
  <2>1. (n.pc = "verifyDatabase" /\ rest = {}) \/ n.pc = "sql"
    BY <1>5 DEF Onward
  <2>2. rest \subseteq 1..v
    BY <1>2
  <2> QED
    BY <2>1, <2>2, <1>5, <1>6, <1>10
       DEF Sound, ReadIsOld, ListIsEnough, FileIsFirst, DoneIsDone, At
<1> QED BY <1>4, <1>6, <1>7, <1>8, <1>9, <1>11, OneRunner

LEMMA ListenKeeps ==
  ASSUME MigrateInv, NEW r \in Runners, Listen(r) PROVE MigrateInv'
<1> DEFINE n == [runners[r] EXCEPT !.pc = "listening"]
<1>1. runners[r] \in Runner /\ DoneIsDone(r) /\ runners[r].pc = "verifyDatabase"
  BY DEF Listen, MigrateInv, MigrateTypeOK, At
<1>2. n \in Runner /\ n.pc = "listening" /\ n.version = runners[r].version
  BY <1>1 DEF Runner
<1>3. runners' = [runners EXCEPT ![r] = n] /\ runners'[r] = n
  BY DEF Listen, Goto, MigrateInv, MigrateTypeOK
<1>4. UNCHANGED <<released, schema, ledger>> /\ hasLedger' \in BOOLEAN
      /\ failures' \in 0..MaxFailures
  BY DEF Listen, MigrateInv, MigrateTypeOK
<1>5. Sound(r)'
  BY <1>1, <1>2, <1>3, <1>4 DEF Sound, ReadIsOld, ListIsEnough, FileIsFirst, DoneIsDone, At
<1> QED BY <1>2, <1>3, <1>4, <1>5, OnlyRunner

LEMMA StatementFailsKeeps ==
  ASSUME MigrateInv, NEW r \in Runners, StatementFails(r) PROVE MigrateInv'
<1> DEFINE n == [runners[r] EXCEPT !.pc = "rollback"]
<1>1. n \in Runner /\ n.pc = "rollback"
  BY DEF MigrateInv, MigrateTypeOK, Runner
<1>2. runners' = [runners EXCEPT ![r] = n] /\ runners'[r] = n
  BY DEF StatementFails, Goto, MigrateInv, MigrateTypeOK
<1>3. Sound(r)'
  BY <1>1, <1>2 DEF Sound, ReadIsOld, ListIsEnough, FileIsFirst, DoneIsDone, At
<1>4. UNCHANGED <<released, schema, ledger>> /\ hasLedger' \in BOOLEAN
  BY DEF StatementFails, MigrateInv, MigrateTypeOK
<1>5. failures' \in 0..MaxFailures
  BY MigrateAssumption DEF StatementFails, MigrateInv, MigrateTypeOK
<1> QED BY <1>1, <1>2, <1>3, <1>4, <1>5, OnlyRunner

LEMMA ReleaseKeeps ==
  ASSUME MigrateInv, Release PROVE MigrateInv'
<1>1. MigrateTypeOK'
  BY MigrateAssumption DEF Release, MigrateInv, MigrateTypeOK, Files
<1>2. LedgerIsSchema' /\ InOrder'
  BY DEF Release, MigrateInv, LedgerIsSchema, InOrder
<1>3. ASSUME NEW s \in Runners PROVE Sound(s)'
  <2>1. Sound(s) /\ schema \subseteq schema' /\ runners'[s] = runners[s]
    BY DEF Release, MigrateInv, Sound
  <2> QED BY <2>1, SoundStays
<1> QED BY <1>1, <1>2, <1>3 DEF MigrateInv, Sound

LEMMA NextKeeps == MigrateInv /\ [MigrateNext]_migrateVars => MigrateInv'
<1> SUFFICES ASSUME MigrateInv, [MigrateNext]_migrateVars PROVE MigrateInv'
  OBVIOUS
<1>1. CASE Release
  BY <1>1, ReleaseKeeps
<1>2. ASSUME NEW r \in Runners, RunnerStep(r) PROVE MigrateInv'
  <2>1. CASE Start(r)
    BY <2>1, StartKeeps
  <2>2. CASE EnsureLedger(r)
    BY <2>2, EnsureLedgerKeeps
  <2>3. CASE ReadLedger(r)
    BY <2>3, ReadLedgerKeeps
  <2>4. CASE Readdir(r)
    BY <2>4, ReaddirKeeps
  <2>5. CASE RunFile(r)
    BY <2>5, RunFileKeeps
  <2>6. CASE InsertRow(r)
    BY <2>6, InsertRowKeeps
  <2>7. CASE Commit(r)
    BY <2>7, CommitKeeps
  <2>8. CASE Listen(r)
    BY <2>8, ListenKeeps
  <2>9. CASE Rollback(r) \/ RollOut(r)
    <3>1. failures' \in 0..MaxFailures
      BY <2>9 DEF Rollback, RollOut, MigrateInv, MigrateTypeOK
    <3> QED BY <2>9, <3>1, GoesDown DEF Rollback, RollOut
  <2> QED
    BY <1>2, <2>1, <2>2, <2>3, <2>4, <2>5, <2>6, <2>7, <2>8, <2>9 DEF RunnerStep
<1>3. ASSUME NEW r \in Runners, StatementFails(r) PROVE MigrateInv'
  BY <1>3, StatementFailsKeeps
<1>4. ASSUME NEW r \in Runners, Crash(r) PROVE MigrateInv'
  <2>1. failures' \in 0..MaxFailures
    BY <1>4, MigrateAssumption DEF Crash, MigrateInv, MigrateTypeOK
  <2> QED BY <1>4, <2>1, GoesDown DEF Crash
<1>5. CASE UNCHANGED migrateVars
  BY <1>5 DEF migrateVars, MigrateInv, MigrateTypeOK, LedgerIsSchema, InOrder,
              ReadIsOld, ListIsEnough, FileIsFirst, DoneIsDone, At
<1> QED BY <1>1, <1>2, <1>3, <1>4, <1>5 DEF MigrateNext

-----------------------------------------------------------------------------
(***************************************************************************)
(* MigrateInv holds throughout: whatever the other containers commit, what *)
(* migrate.js still has on its list is enough, and in order.               *)
(***************************************************************************)
THEOREM MigrateInvariant == MigrateSpec => []MigrateInv
<1>1. MigrateInit => MigrateInv
  BY Initially
<1>2. MigrateInv /\ [MigrateNext]_migrateVars => MigrateInv'
  BY NextKeeps
<1> QED BY <1>1, <1>2, PTL DEF MigrateSpec

(***************************************************************************)
(* The ledger, the schema and what each runner is at are well-typed        *)
(* (migrate.js), crashes and new releases included.                        *)
(***************************************************************************)
THEOREM MigrateTypes == MigrateSpec => []MigrateTypeOK
<1>1. MigrateInv => MigrateTypeOK
  BY DEF MigrateInv
<1> QED BY <1>1, MigrateInvariant, PTL

(***************************************************************************)
(* schema_migrations records exactly what has taken effect, after any      *)
(* crash and with any number of runners (the transaction per file).        *)
(***************************************************************************)
THEOREM LedgerTellsTheTruth == MigrateSpec => []LedgerIsSchema
<1>1. MigrateInv => LedgerIsSchema
  BY DEF MigrateInv
<1> QED BY <1>1, MigrateInvariant, PTL

(***************************************************************************)
(* The files take effect in the order of their numbers, with any number of *)
(* runners of any releases (the sorted list of pending files).             *)
(***************************************************************************)
THEOREM FilesInOrder == MigrateSpec => []InOrder
<1>1. MigrateInv => InOrder
  BY DEF MigrateInv
<1> QED BY <1>1, MigrateInvariant, PTL

(***************************************************************************)
(* A server that listens has every file of its release in the schema       *)
(* ("npm run migrate" comes first, and its failure stops the container).   *)
(***************************************************************************)
THEOREM ServersHaveTheirSchema == MigrateSpec => []ServesItsSchema
<1>1. MigrateInv => ServesItsSchema
  BY DEF MigrateInv, DoneIsDone, ServesItsSchema, At
<1> QED BY <1>1, MigrateInvariant, PTL
=============================================================================
