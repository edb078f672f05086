----------------------------- MODULE Migrations -----------------------------
(***************************************************************************)
(* The migration executors of the PostgreSQL and the MySQL store.  Server  *)
(* processes of different releases start, take the session lock of the     *)
(* database, bootstrap the journal table, assess the journal against the   *)
(* migrations their release embeds and run the missing ones, journalling   *)
(* "applying" before the SQL and "applied" after the schema was verified.  *)
(* A statement may fail, and a connection may be lost between any two      *)
(* steps; the database then frees the session lock.                        *)
(*                                                                         *)
(* Migrations are numbered in the order of their logical ids; number 1 is  *)
(* 0000_migration_meta, which creates the journal table.  PostgreSQL runs  *)
(* one migration's SQL in a transaction, MySQL commits every statement.    *)
(***************************************************************************)
EXTENDS Naturals, Sequences

CONSTANTS
  Runners,       \* server processes
  NoRunner,
  Providers,     \* a subset of {"postgres", "mysql"}
  Count,         \* the number of migrations of the newest release
  Build,         \* [Runners -> Seq(checksum)]: what the process's release embeds
  Statements,    \* [Migrations -> number of SQL statements]
  NoDigest,
  MaxStarts      \* bound: how often processes start

Migrations == 1 .. Count

ASSUME MigrationAssumption ==
  /\ NoRunner \notin Runners
  /\ Providers \subseteq {"postgres", "mysql"}
  /\ Count \in Nat \ {0}
  /\ \A r \in Runners : \E n \in Migrations : DOMAIN Build[r] = 1 .. n
  /\ Statements \in [Migrations -> Nat \ {0}] /\ Statements[1] = 1
  /\ MaxStarts \in Nat

VARIABLES
  provider,
  lock,      \* the runner whose session holds the migration lock
  journal,   \* [Migrations -> [state, digest]]: schema_migrations
  schema,    \* [Migrations -> how many of its statements are in effect]
  ran,       \* [Migrations -> how many of its statements were ever executed]
  runner,    \* [Runners -> [pc, at, outcome]]
  starts     \* processes started so far

migrationVars == <<provider, lock, journal, schema, ran, runner, starts>>

AbsentRow == [state |-> "absent", digest |-> NoDigest]

Finished == {"idle", "ok", "error"}

MigrationInit ==
  /\ provider \in Providers
  /\ lock = NoRunner
  /\ journal = [m \in Migrations |-> AbsentRow]
  /\ schema = [m \in Migrations |-> 0]
  /\ ran = [m \in Migrations |-> 0]
  /\ runner = [r \in Runners |-> [pc |-> "idle", at |-> 0, outcome |-> "ok"]]
  /\ starts = 0

----------------------------------------------------------------------------
\* assess_migrations

Embedded(r) == DOMAIN Build[r]

Recorded == {m \in Migrations : journal[m].state # "absent"}

\* Mutant: the physical checksum is not compared.
EntryAcceptedByName(r, m) == m \in Embedded(r) /\ journal[m].state = "applied"

\* Known to this release, clean, and with the checksum of its SQL.
EntryAccepted(r, m) ==
  m \in Embedded(r) /\ journal[m].state = "applied" /\ journal[m].digest = Build[r][m]

NoHistoryGap(r) ==
  \A m \in Embedded(r) \ Recorded : \A k \in Recorded : k < m

HistoryAccepted(r) == NoHistoryGap(r) /\ \A m \in Recorded : EntryAccepted(r, m)

Pending(r) == Embedded(r) \ Recorded

----------------------------------------------------------------------------
\* Pieces of the steps.

At(r, pc) == runner[r].pc = pc

GoTo(r, pc) == runner' = [runner EXCEPT ![r].pc = pc]

\* Mutant: an error returns without releasing the lock.
GiveUpHolding(r) == runner' = [runner EXCEPT ![r].pc = "error", ![r].outcome = "error"]

\* migrate: whatever migrate_locked returns, the lock is released.
GiveUp(r) == runner' = [runner EXCEPT ![r].pc = "release", ![r].outcome = "error"]

Record(m, state, digest) == journal' = [journal EXCEPT ![m] = [state |-> state, digest |-> digest]]

\* k more statements of m take effect.
Execute(m, k) ==
  /\ schema' = [schema EXCEPT ![m] = @ + k]
  /\ ran' = [ran EXCEPT ![m] = @ + k]

----------------------------------------------------------------------------
\* A process starts (again) and configures its session.
StartRunner(r) ==
  /\ runner[r].pc \in Finished /\ starts < MaxStarts
  /\ starts' = starts + 1
  /\ runner' = [runner EXCEPT ![r] = [pc |-> "lock", at |-> 0, outcome |-> "ok"]]
  /\ UNCHANGED <<provider, lock, journal, schema, ran>>

AcquireLock(r) ==
  /\ At(r, "lock") /\ lock = NoRunner
  /\ lock' = r
  /\ GoTo(r, "bootstrap")
  /\ UNCHANGED <<provider, journal, schema, ran, starts>>

\* statement_timeout of PostgreSQL, GET_LOCK's timeout of MySQL.
LockTimeout(r) ==
  /\ At(r, "lock") /\ lock # NoRunner
  /\ GoTo(r, "error")
  /\ UNCHANGED <<provider, lock, journal, schema, ran, starts>>

\* bootstrap_journal.  An existing table needs its own journal row; otherwise
\* PostgreSQL creates the table and the row in one transaction, MySQL in two steps.
BootstrapJournal(r) ==
  /\ At(r, "bootstrap")
  /\ \/ /\ schema[1] > 0 /\ 1 \in Recorded
        /\ GoTo(r, "assess")
        /\ UNCHANGED <<journal, schema, ran>>
     \/ /\ schema[1] > 0 /\ 1 \notin Recorded
        /\ GiveUp(r)
        /\ UNCHANGED <<journal, schema, ran>>
     \/ /\ schema[1] = 0 /\ provider = "postgres"
        /\ Execute(1, 1)
        /\ Record(1, "applied", Build[r][1])
        /\ GoTo(r, "assess")
     \/ /\ schema[1] = 0 /\ provider = "mysql"
        /\ Execute(1, 1)
        /\ GoTo(r, "journal_bootstrap")
        /\ UNCHANGED journal
  /\ UNCHANGED <<provider, lock, starts>>

\* The MySQL bootstrap's INSERT into the journal.
JournalBootstrap(r) ==
  /\ At(r, "journal_bootstrap")
  /\ Record(1, "applied", Build[r][1])
  /\ GoTo(r, "assess")
  /\ UNCHANGED <<provider, lock, schema, ran, starts>>

\* load_history and assess_migrations.
AssessHistory(r) ==
  /\ At(r, "assess")
  /\ \/ ~HistoryAccepted(r) /\ GiveUp(r)
     \/ HistoryAccepted(r) /\ Pending(r) = {} /\ GoTo(r, "release")
     \/ /\ HistoryAccepted(r)
        /\ \E m \in Pending(r) :
             /\ \A k \in Pending(r) : m <= k
             /\ runner' = [runner EXCEPT ![r].pc = "start", ![r].at = m]
  /\ UNCHANGED <<provider, lock, journal, schema, ran, starts>>

StartJournal(r) ==
  /\ At(r, "start") /\ journal[runner[r].at].state = "absent"
  /\ Record(runner[r].at, "applying", Build[r][runner[r].at])
  /\ GoTo(r, "execute")
  /\ UNCHANGED <<provider, lock, schema, ran, starts>>

\* execute_sql: one transaction, or one statement of execute_statements.
ExecuteSql(r) ==
  LET m == runner[r].at
      k == IF provider = "postgres" THEN Statements[m] - schema[m] ELSE 1
  IN  /\ At(r, "execute")
      /\ Execute(m, k)
      /\ GoTo(r, IF schema[m] + k = Statements[m] THEN "verify" ELSE "execute")
      /\ UNCHANGED <<provider, lock, journal, starts>>

VerifySchema(r) ==
  /\ At(r, "verify") /\ schema[runner[r].at] = Statements[runner[r].at]
  /\ GoTo(r, "apply")
  /\ UNCHANGED <<provider, lock, journal, schema, ran, starts>>

\* Mutant: the journal is completed before the SQL ran to its end.
MarkAppliedEarly(r) ==
  LET m == runner[r].at
  IN  /\ runner[r].pc \in {"execute", "apply"} /\ journal[m].state = "applying"
      /\ Record(m, "applied", journal[m].digest)
      /\ IF m + 1 \in Embedded(r)
         THEN runner' = [runner EXCEPT ![r].pc = "start", ![r].at = m + 1]
         ELSE GoTo(r, "release")
      /\ UNCHANGED <<provider, lock, schema, ran, starts>>

\* mark_applied; the machine goes on to the next pending migration.
MarkApplied(r) ==
  LET m == runner[r].at
  IN  /\ At(r, "apply") /\ journal[m].state = "applying"
      /\ Record(m, "applied", journal[m].digest)
      /\ IF m + 1 \in Embedded(r)
         THEN runner' = [runner EXCEPT ![r].pc = "start", ![r].at = m + 1]
         ELSE GoTo(r, "release")
      /\ UNCHANGED <<provider, lock, schema, ran, starts>>

\* A step reports an error.  The shared machine of PostgreSQL journals it as
\* failed after every step, MySQL only after the SQL and its verification.
StepFails(r) ==
  /\ runner[r].pc \in {"bootstrap", "journal_bootstrap", "assess", "start", "execute",
                       "verify", "apply", "mark_failed"}
  /\ IF \/ At(r, "execute") \/ At(r, "verify")
        \/ provider = "postgres" /\ runner[r].pc \in {"start", "apply"}
     THEN runner' = [runner EXCEPT ![r].pc = "mark_failed", ![r].outcome = "error"]
     ELSE GiveUp(r)
  /\ UNCHANGED <<provider, lock, journal, schema, ran, starts>>

\* Mutant: the failed row is deleted, so that the next start tries again.
MarkFailedDeletes(r) ==
  LET m == runner[r].at
  IN  /\ At(r, "mark_failed")
      /\ journal' = IF journal[m].state = "applying"
                    THEN [journal EXCEPT ![m] = AbsentRow] ELSE journal
      /\ GoTo(r, "release")
      /\ UNCHANGED <<provider, lock, schema, ran, starts>>

\* mark_failed; without a row in "applying" it changes nothing.
MarkFailed(r) ==
  LET m == runner[r].at
  IN  /\ At(r, "mark_failed")
      /\ journal' = IF journal[m].state = "applying"
                    THEN [journal EXCEPT ![m].state = "failed"] ELSE journal
      /\ GoTo(r, "release")
      /\ UNCHANGED <<provider, lock, schema, ran, starts>>

ReleaseLock(r) ==
  /\ At(r, "release")
  /\ lock' = NoRunner
  /\ GoTo(r, runner[r].outcome)
  /\ UNCHANGED <<provider, journal, schema, ran, starts>>

\* The process dies or loses its connection; the database ends the session.
LoseSession(r) ==
  /\ runner[r].pc \notin Finished
  /\ lock' = IF lock = r THEN NoRunner ELSE lock
  /\ GoTo(r, "error")
  /\ UNCHANGED <<provider, journal, schema, ran, starts>>

----------------------------------------------------------------------------
RunnerStep(r) ==
  \/ AcquireLock(r) \/ BootstrapJournal(r) \/ JournalBootstrap(r) \/ AssessHistory(r)
  \/ StartJournal(r) \/ ExecuteSql(r) \/ VerifySchema(r) \/ MarkApplied(r)
  \/ MarkFailed(r) \/ ReleaseLock(r)

MigrationNext ==
  \E r \in Runners :
    RunnerStep(r) \/ StartRunner(r) \/ LockTimeout(r) \/ StepFails(r) \/ LoseSession(r)

\* A process that was started goes on: the database answers, and a free lock is
\* granted to a session that waits for it.
MigrationFairness == \A r \in Runners : WF_migrationVars(RunnerStep(r))

MigrationSpec == MigrationInit /\ [][MigrationNext]_migrationVars /\ MigrationFairness

----------------------------------------------------------------------------
\* A journal row says "applied" only when all the SQL of that migration is in
\* effect and every earlier migration is applied: migrations land in order and
\* whole, across crashes, failures, restarts and releases.
JournalTruth ==
  \A m \in Migrations : journal[m].state = "applied" =>
    /\ schema[m] = Statements[m]
    /\ \A k \in 1 .. m : journal[k].state = "applied"

\* No statement of a migration is executed a second time, whatever the first run
\* of it left behind: the SQL of the files is not idempotent.
DdlRunsOnce == \A m \in Migrations : ran[m] <= Statements[m]

\* A process that starts serving finds every migration of its release applied, with
\* the checksum of its own SQL, and no later step takes that away.
ReadyIsMigrated ==
  \A r \in Runners : runner[r].pc = "ok" =>
    \A m \in Embedded(r) : journal[m] = [state |-> "applied", digest |-> Build[r][m]]

\* Every start ends: no error path keeps the lock while others wait for it.
RunnersFinish ==
  \A r \in Runners : (runner[r].pc \notin Finished) ~> (runner[r].pc \in Finished)
=============================================================================
