--------------------------- MODULE MigrationProofs ---------------------------
(***************************************************************************)
(* The safety of the migration executors, for every number of processes,   *)
(* releases, migrations and statements, and for both providers.            *)
(*                                                                         *)
(* The argument: the session lock makes the steps between AcquireLock and  *)
(* ReleaseLock exclusive (LockHeld); the journal is at all times a prefix  *)
(* of applied rows with at most one unfinished row behind it (Ledger); and *)
(* a runner inside the lock knows exactly where that prefix ends           *)
(* (Progress).  An applied row never changes again, so what a process saw  *)
(* when it became ready stays true.                                        *)
(***************************************************************************)
EXTENDS Migrations, TLAPS

\* The steps a process takes while it holds the session lock.
Locked == {"bootstrap", "journal_bootstrap", "assess", "start", "execute", "verify", "apply",
           "mark_failed", "release"}

Digests == {NoDigest} \cup UNION {{Build[r][m] : m \in Embedded(r)} : r \in Runners}

MigrationTypes ==
  /\ provider \in {"postgres", "mysql"}
  /\ lock \in Runners \cup {NoRunner}
  /\ journal \in [Migrations -> [state : {"absent", "applying", "applied", "failed"},
                                 digest : Digests]]
  /\ schema \in [Migrations -> Nat]
  /\ ran \in [Migrations -> Nat]
  /\ runner \in [Runners -> [pc : Locked \cup Finished \cup {"lock"}, at : Migrations \cup {0},
                             outcome : {"ok", "error"}]]
  /\ starts \in Nat

LockHeld == \A r \in Runners : runner[r].pc \in Locked => lock = r

\* One row of the journal against the schema, and its place behind the prefix.
RowTruth(m) ==
  /\ ran[m] = schema[m]
  /\ schema[m] <= Statements[m]
  /\ journal[m].state = "applied" => schema[m] = Statements[m]
  /\ journal[m].state = "absent" /\ m > 1 => schema[m] = 0
  /\ journal[m].state # "absent" => \A k \in 1 .. (m - 1) : journal[k].state = "applied"

Ledger ==
  /\ \A m \in Migrations : RowTruth(m)
  /\ journal[1].state \in {"absent", "applied"}

AllAccepted(r) == \A m \in Embedded(r) : EntryAccepted(r, m)

\* The runner's migration is the first one not applied, and the rows before it are its own.
AtFrontier(r) ==
  /\ runner[r].at \in Embedded(r)
  /\ runner[r].at > 1
  /\ \A k \in 1 .. (runner[r].at - 1) : EntryAccepted(r, k)

Progress(r) ==
  /\ runner[r].pc = "journal_bootstrap" => journal[1].state = "absent" /\ schema[1] = 1
  /\ runner[r].pc = "assess" => journal[1].state = "applied"
  /\ runner[r].pc = "start" => AtFrontier(r) /\ journal[runner[r].at].state = "absent"
  /\ runner[r].pc \in {"execute", "verify", "apply"} =>
       /\ AtFrontier(r)
       /\ journal[runner[r].at] = [state |-> "applying", digest |-> Build[r][runner[r].at]]
  /\ runner[r].pc = "execute" => schema[runner[r].at] < Statements[runner[r].at]
  /\ runner[r].pc = "apply" => schema[runner[r].at] = Statements[runner[r].at]
  /\ runner[r].pc = "mark_failed" => runner[r].at \in Migrations /\ runner[r].at > 1
                                     /\ runner[r].outcome = "error"
  /\ runner[r].pc = "release" /\ runner[r].outcome = "ok" => AllAccepted(r)
  /\ runner[r].pc = "ok" => AllAccepted(r)
  /\ runner[r].pc \in {"lock", "bootstrap"} => runner[r].outcome = "ok"

MigrationInv ==
  /\ MigrationTypes
  /\ LockHeld
  /\ Ledger
  /\ \A r \in Runners : Progress(r)

\* The action of AppliedIsFinal: an applied row keeps its state and its checksum.
AppliedKept == \A m \in Migrations : journal[m].state = "applied" => journal'[m] = journal[m]

----------------------------------------------------------------------------
\* Facts about the constants.

\* A release embeds a prefix of the migrations, the journal's own among them.
LEMMA ReleasePrefix ==
  ASSUME NEW r \in Runners
  PROVE  /\ 1 \in Embedded(r) /\ 1 \in Migrations
         /\ Embedded(r) \subseteq Migrations
         /\ \A m \in Embedded(r) : \A k \in 1 .. m : k \in Embedded(r)
         /\ \A m \in Embedded(r) : Build[r][m] \in Digests
<1>1. PICK n \in Migrations : DOMAIN Build[r] = 1 .. n
  BY MigrationAssumption
<1>2. Count \in Nat /\ n \in 1 .. Count
  BY <1>1, MigrationAssumption DEF Migrations
<1>3. \A m \in Embedded(r) : Build[r][m] \in Digests
  <2> TAKE m \in Embedded(r)
  <2> DEFINE D(q) == {Build[q][k] : k \in Embedded(q)}
  <2>1. Build[r][m] \in D(r)
    OBVIOUS
  <2>2. D(r) \in {D(q) : q \in Runners}
    OBVIOUS
  <2>3. Build[r][m] \in UNION {D(q) : q \in Runners}
    BY <2>1, <2>2
  <2> QED
    BY <2>3 DEF Digests
<1> QED
  BY <1>1, <1>2, <1>3 DEF Embedded, Migrations

\* The numbers of statements.
LEMMA StatementCounts ==
  /\ Statements \in [Migrations -> Nat]
  /\ \A m \in Migrations : Statements[m] >= 1
  /\ Statements[1] = 1
  /\ Count \in Nat
<1> QED
  BY MigrationAssumption

----------------------------------------------------------------------------
\* Facts every step uses.

\* The rows a release has accepted stay accepted while applied rows stay.
LEMMA AcceptedKept ==
  ASSUME AppliedKept, NEW q \in Runners
  PROVE  /\ AllAccepted(q) => AllAccepted(q)'
         /\ AtFrontier(q) /\ runner'[q].at = runner[q].at => AtFrontier(q)'
<1>1. \A m \in Embedded(q) : EntryAccepted(q, m) => EntryAccepted(q, m)'
  BY ReleasePrefix DEF EntryAccepted, AppliedKept, Embedded
<1>2. AllAccepted(q) => AllAccepted(q)'
  BY <1>1 DEF AllAccepted, Embedded
<1>3. AtFrontier(q) /\ runner'[q].at = runner[q].at => AtFrontier(q)'
  BY <1>1 DEF AtFrontier, EntryAccepted, Embedded
<1> QED
  BY <1>2, <1>3

\* While one process is inside the lock the others are outside it, and what they
\* know of applied rows survives its writes.
LEMMA OthersKeepProgress ==
  ASSUME MigrationInv, AppliedKept,
         NEW r \in Runners, runner[r].pc \in Locked,
         NEW q \in Runners, q # r, runner'[q] = runner[q]
  PROVE  Progress(q)'
<1>1. runner[q].pc \notin Locked
  BY DEF MigrationInv, LockHeld
<1>2. AllAccepted(q) => AllAccepted(q)'
  BY AcceptedKept
<1>3. Progress(q)
  BY DEF MigrationInv
<1> QED
  BY <1>1, <1>2, <1>3 DEF Progress, Locked

\* A step that leaves the journal and the schema alone keeps the ledger.
LEMMA QuietLedger ==
  ASSUME MigrationInv, UNCHANGED <<journal, schema, ran>>
  PROVE  Ledger' /\ AppliedKept
<1> QED
  BY DEF MigrationInv, Ledger, RowTruth, AppliedKept

\* Then every other process keeps what it knows, whoever holds the lock.
LEMMA QuietOthers ==
  ASSUME MigrationInv, UNCHANGED <<journal, schema, ran>>,
         NEW q \in Runners, runner'[q] = runner[q]
  PROVE  Progress(q)'
<1>1. Progress(q)
  BY DEF MigrationInv
<1> QED
  BY <1>1 DEF Progress, AtFrontier, AllAccepted, EntryAccepted, Embedded

\* Only the process that moves can enter the lock's steps, and it holds the lock.
LEMMA LockStep ==
  ASSUME MigrationInv, NEW r \in Runners, NEW row,
         runner' = [runner EXCEPT ![r] = row],
         lock' = lock,
         row.pc \in Locked => runner[r].pc \in Locked
  PROVE  LockHeld'
<1> QED
  BY DEF MigrationInv, LockHeld, MigrationTypes

----------------------------------------------------------------------------
\* The steps that write neither the journal nor the schema.

\* A process that starts is outside the lock and knows nothing yet.
LEMMA StartRunnerStep ==
  ASSUME MigrationInv, NEW r \in Runners, StartRunner(r)
  PROVE  MigrationInv'
<1>1. MigrationTypes'
  BY DEF StartRunner, MigrationInv, MigrationTypes
<1>2. LockHeld'
  BY LockStep DEF StartRunner, Locked
<1>3. Ledger'
  BY QuietLedger DEF StartRunner
<1>4. ASSUME NEW q \in Runners PROVE Progress(q)'
  <2>1. CASE q = r
    BY <2>1 DEF StartRunner, Progress, MigrationInv, MigrationTypes
  <2>2. CASE q # r
    BY <2>2, QuietOthers DEF StartRunner, MigrationInv, MigrationTypes
  <2> QED
    BY <2>1, <2>2
<1> QED
  BY <1>1, <1>2, <1>3, <1>4 DEF MigrationInv

\* The session lock is taken only when it is free.
LEMMA AcquireLockStep ==
  ASSUME MigrationInv, NEW r \in Runners, AcquireLock(r)
  PROVE  MigrationInv'
<1>1. MigrationTypes'
  BY DEF AcquireLock, GoTo, MigrationInv, MigrationTypes, Locked
<1>2. LockHeld'
  <2>1. \A q \in Runners : runner[q].pc \notin Locked
    BY MigrationAssumption DEF AcquireLock, MigrationInv, LockHeld
  <2> QED
    BY <2>1 DEF AcquireLock, GoTo, MigrationInv, MigrationTypes, LockHeld
<1>3. Ledger'
  BY QuietLedger DEF AcquireLock
<1>4. ASSUME NEW q \in Runners PROVE Progress(q)'
  <2>1. CASE q = r
    BY <2>1 DEF AcquireLock, At, GoTo, Progress, MigrationInv, MigrationTypes
  <2>2. CASE q # r
    BY <2>2, QuietOthers DEF AcquireLock, GoTo, MigrationInv, MigrationTypes
  <2> QED
    BY <2>1, <2>2
<1> QED
  BY <1>1, <1>2, <1>3, <1>4 DEF MigrationInv

\* A process that waited too long for the lock gives up outside it.
LEMMA LockTimeoutStep ==
  ASSUME MigrationInv, NEW r \in Runners, LockTimeout(r)
  PROVE  MigrationInv'
<1>1. MigrationTypes'
  BY DEF LockTimeout, GoTo, MigrationInv, MigrationTypes, Finished
<1>2. LockHeld'
  BY DEF LockTimeout, GoTo, MigrationInv, MigrationTypes, LockHeld, Locked
<1>3. Ledger'
  BY QuietLedger DEF LockTimeout
<1>4. ASSUME NEW q \in Runners PROVE Progress(q)'
  <2>1. CASE q = r
    BY <2>1 DEF LockTimeout, GoTo, Progress, MigrationInv, MigrationTypes
  <2>2. CASE q # r
    BY <2>2, QuietOthers DEF LockTimeout, GoTo, MigrationInv, MigrationTypes
  <2> QED
    BY <2>1, <2>2
<1> QED
  BY <1>1, <1>2, <1>3, <1>4 DEF MigrationInv

\* An accepted history with nothing pending is this release's history; otherwise
\* the first pending migration stands right behind the applied prefix.
LEMMA AssessHistoryStep ==
  ASSUME MigrationInv, NEW r \in Runners, AssessHistory(r)
  PROVE  MigrationInv'
<1>0. /\ runner[r].pc = "assess" /\ runner[r].pc \in Locked /\ journal[1].state = "applied"
      /\ UNCHANGED <<provider, lock, journal, schema, ran, starts>>
  BY DEF AssessHistory, At, MigrationInv, Progress, Locked
<1>1. MigrationTypes' /\ LockHeld'
  <2>1. \A m \in Pending(r) : m \in Migrations
    BY ReleasePrefix DEF Pending
  <2>2. runner' \in [Runners -> [pc : Locked \cup Finished \cup {"lock"}, at : Migrations \cup {0},
                                 outcome : {"ok", "error"}]]
    BY <2>1, SMTT(30) DEF AssessHistory, GoTo, GiveUp, MigrationInv, MigrationTypes, Locked
  <2>3. \A q \in Runners : q # r => runner'[q] = runner[q]
    BY DEF AssessHistory, GoTo, GiveUp, MigrationInv, MigrationTypes
  <2> QED
    BY <1>0, <2>2, <2>3 DEF MigrationInv, MigrationTypes, LockHeld
<1>2. Ledger'
  BY <1>0, QuietLedger
<1>3. Progress(r)'
  <2>1. CASE GiveUp(r)
    BY <2>1 DEF GiveUp, Progress, MigrationInv, MigrationTypes
  <2>2. CASE HistoryAccepted(r) /\ Pending(r) = {} /\ GoTo(r, "release")
    <3>1. AllAccepted(r)
      BY <2>2, ReleasePrefix DEF HistoryAccepted, AllAccepted, Pending, Recorded
    <3>2. AllAccepted(r)'
      BY <3>1, <1>0 DEF AllAccepted, EntryAccepted, Embedded
    <3> QED
      BY <2>2, <3>2 DEF GoTo, Progress, MigrationInv, MigrationTypes
  <2>3. CASE /\ HistoryAccepted(r)
             /\ \E m \in Pending(r) :
                  /\ \A k \in Pending(r) : m <= k
                  /\ runner' = [runner EXCEPT ![r].pc = "start", ![r].at = m]
    <3>1. PICK m \in Pending(r) :
            /\ \A k \in Pending(r) : m <= k
            /\ runner' = [runner EXCEPT ![r].pc = "start", ![r].at = m]
      BY <2>3
    <3>2. m \in Embedded(r) /\ m \in Migrations /\ m \in Nat /\ journal[m].state = "absent" /\ m > 1
      BY <3>1, <1>0, ReleasePrefix, StatementCounts DEF Pending, Recorded, Migrations
    <3>3. \A k \in 1 .. (m - 1) : EntryAccepted(r, k)
      <4> TAKE k \in 1 .. (m - 1)
      <4>1. k \in Embedded(r) /\ k < m
        BY <3>2, ReleasePrefix
      <4>2. k \notin Pending(r)
        BY <4>1, <3>1, <3>2
      <4> QED
        BY <4>1, <4>2, <2>3, ReleasePrefix DEF Pending, HistoryAccepted
    <3>4. runner'[r].pc = "start" /\ runner'[r].at = m
      BY <3>1 DEF MigrationInv, MigrationTypes
    <3>5. AtFrontier(r)'
      BY <3>2, <3>3, <3>4, <1>0 DEF AtFrontier, EntryAccepted, Embedded
    <3> QED
      BY <3>2, <3>4, <3>5, <1>0 DEF Progress
  <2> QED
    BY <2>1, <2>2, <2>3 DEF AssessHistory
<1>4. ASSUME NEW q \in Runners, q # r PROVE Progress(q)'
  BY <1>0, <1>4, QuietOthers DEF AssessHistory, GoTo, GiveUp, MigrationInv, MigrationTypes
<1> QED
  BY <1>1, <1>2, <1>3, <1>4 DEF MigrationInv

\* The verification of a migration leaves its row "applying", with all SQL in effect.
LEMMA VerifySchemaStep ==
  ASSUME MigrationInv, NEW r \in Runners, VerifySchema(r)
  PROVE  MigrationInv'
<1>1. MigrationTypes' /\ LockHeld'
  BY DEF VerifySchema, At, GoTo, MigrationInv, MigrationTypes, LockHeld, Locked
<1>2. Ledger'
  BY QuietLedger DEF VerifySchema
<1>3. Progress(r)'
  <2>1. /\ runner[r].pc = "verify" /\ runner'[r].pc = "apply" /\ runner'[r].at = runner[r].at
        /\ schema[runner[r].at] = Statements[runner[r].at] /\ AppliedKept
        /\ UNCHANGED <<journal, schema>>
    BY QuietLedger DEF VerifySchema, At, GoTo, MigrationInv, MigrationTypes
  <2>2. AtFrontier(r)'
    BY <2>1, AcceptedKept DEF MigrationInv, Progress
  <2> QED
    BY <2>1, <2>2 DEF MigrationInv, Progress
<1>4. ASSUME NEW q \in Runners, q # r PROVE Progress(q)'
  BY <1>4, QuietOthers DEF VerifySchema, GoTo, MigrationInv, MigrationTypes
<1> QED
  BY <1>1, <1>2, <1>3, <1>4 DEF MigrationInv

\* A failed step writes nothing of its own.
LEMMA StepFailsStep ==
  ASSUME MigrationInv, NEW r \in Runners, StepFails(r)
  PROVE  MigrationInv'
<1>1. MigrationTypes' /\ LockHeld'
  BY SMTT(30) DEF StepFails, GiveUp, MigrationInv, MigrationTypes, LockHeld, Locked
<1>2. Ledger'
  BY QuietLedger DEF StepFails
<1>3. Progress(r)'
  <2>1. runner[r].pc \in {"start", "execute", "verify", "apply"} =>
          runner[r].at \in Migrations /\ runner[r].at > 1
    BY ReleasePrefix DEF MigrationInv, Progress, AtFrontier
  <2> QED
    BY <2>1 DEF StepFails, At, GiveUp, MigrationInv, MigrationTypes, Progress
<1>4. ASSUME NEW q \in Runners, q # r PROVE Progress(q)'
  BY <1>4, QuietOthers DEF StepFails, GiveUp, MigrationInv, MigrationTypes
<1> QED
  BY <1>1, <1>2, <1>3, <1>4 DEF MigrationInv

\* The lock is released with the outcome of the process.
LEMMA ReleaseLockStep ==
  ASSUME MigrationInv, NEW r \in Runners, ReleaseLock(r)
  PROVE  MigrationInv'
<1>1. MigrationTypes'
  BY DEF ReleaseLock, GoTo, MigrationInv, MigrationTypes, Finished
<1>2. LockHeld'
  BY DEF ReleaseLock, At, GoTo, MigrationInv, MigrationTypes, LockHeld, Locked
<1>3. Ledger'
  BY QuietLedger DEF ReleaseLock
<1>4. Progress(r)'
  <2>1. /\ runner[r].pc = "release" /\ runner'[r].pc = runner[r].outcome
        /\ runner[r].outcome \in {"ok", "error"} /\ AppliedKept
    BY QuietLedger DEF ReleaseLock, At, GoTo, MigrationInv, MigrationTypes
  <2>2. AllAccepted(r) => AllAccepted(r)'
    BY <2>1, AcceptedKept
  <2> QED
    BY <2>1, <2>2 DEF MigrationInv, Progress
<1>5. ASSUME NEW q \in Runners, q # r PROVE Progress(q)'
  BY <1>5, QuietOthers DEF ReleaseLock, GoTo, MigrationInv, MigrationTypes
<1> QED
  BY <1>1, <1>2, <1>3, <1>4, <1>5 DEF MigrationInv

\* A lost session frees the lock and leaves the journal as it is.
LEMMA LoseSessionStep ==
  ASSUME MigrationInv, NEW r \in Runners, LoseSession(r)
  PROVE  MigrationInv'
<1>1. MigrationTypes'
  BY DEF LoseSession, GoTo, MigrationInv, MigrationTypes, Finished
<1>2. LockHeld'
  BY DEF LoseSession, GoTo, MigrationInv, MigrationTypes, LockHeld, Locked
<1>3. Ledger'
  BY QuietLedger DEF LoseSession
<1>4. Progress(r)'
  BY DEF LoseSession, GoTo, MigrationInv, MigrationTypes, Progress
<1>5. ASSUME NEW q \in Runners, q # r PROVE Progress(q)'
  BY <1>5, QuietOthers DEF LoseSession, GoTo, MigrationInv, MigrationTypes
<1> QED
  BY <1>1, <1>2, <1>3, <1>4, <1>5 DEF MigrationInv

----------------------------------------------------------------------------
\* The steps that write the journal or the schema.

\* The journal's own row is written where there was none, and after its table.
LEMMA BootstrapJournalStep ==
  ASSUME MigrationInv, NEW r \in Runners, BootstrapJournal(r)
  PROVE  MigrationInv' /\ AppliedKept
<1>0. /\ runner[r].pc = "bootstrap" /\ runner[r].pc \in Locked
      /\ UNCHANGED <<provider, lock, starts>>
      /\ 1 \in Migrations /\ 1 \in Embedded(r) /\ Build[r][1] \in Digests
      /\ Statements[1] = 1
      /\ \A m \in Migrations : m \in Nat
      /\ \A q \in Runners : q # r => runner'[q] = runner[q]
  BY ReleasePrefix, StatementCounts DEF BootstrapJournal, At, GoTo, GiveUp, Locked, Migrations,
     MigrationInv, MigrationTypes
<1>1. schema[1] = 0 => \A m \in Migrations : journal[m].state = "absent"
  <2>1. schema[1] = 0 => journal[1].state = "absent"
    BY <1>0 DEF MigrationInv, Ledger, RowTruth
  <2>2. ASSUME NEW m \in Migrations, m > 1, journal[1].state = "absent"
        PROVE  journal[m].state = "absent"
    BY <2>2, <1>0 DEF MigrationInv, Ledger, RowTruth
  <2> QED
    BY <2>1, <2>2, <1>0 DEF Migrations
<1>2. MigrationTypes'
  <2>1. runner' \in [Runners -> [pc : Locked \cup Finished \cup {"lock"}, at : Migrations \cup {0},
                                 outcome : {"ok", "error"}]]
    BY DEF BootstrapJournal, GoTo, GiveUp, MigrationInv, MigrationTypes, Locked
  <2>2. schema' \in [Migrations -> Nat] /\ ran' \in [Migrations -> Nat]
    BY DEF BootstrapJournal, Execute, MigrationInv, MigrationTypes
  <2>3. journal' \in [Migrations -> [state : {"absent", "applying", "applied", "failed"},
                                     digest : Digests]]
    BY <1>0 DEF BootstrapJournal, Record, MigrationInv, MigrationTypes
  <2> QED
    BY <1>0, <2>1, <2>2, <2>3 DEF MigrationInv, MigrationTypes
<1>3. LockHeld'
  BY <1>0 DEF MigrationInv, LockHeld
<1>4. Ledger' /\ AppliedKept /\ Progress(r)'
  <2>1. CASE schema[1] > 0 /\ 1 \in Recorded /\ GoTo(r, "assess")
             /\ UNCHANGED <<journal, schema, ran>>
    BY <2>1, <1>0, QuietLedger DEF GoTo, MigrationInv, MigrationTypes, Ledger, Progress, Recorded
  <2>2. CASE GiveUp(r) /\ UNCHANGED <<journal, schema, ran>>
    BY <2>2, <1>0, QuietLedger, SMTT(30) DEF GiveUp, MigrationInv, MigrationTypes, Progress
  <2>3. CASE schema[1] = 0 /\ Execute(1, 1) /\ Record(1, "applied", Build[r][1]) /\ GoTo(r, "assess")
    <3>1. /\ schema'[1] = 1 /\ ran'[1] = 1 /\ journal'[1].state = "applied"
          /\ \A m \in Migrations \ {1} :
               schema'[m] = schema[m] /\ ran'[m] = ran[m] /\ journal'[m] = journal[m]
      BY <2>3, <1>0 DEF Execute, Record, MigrationInv, MigrationTypes, Ledger, RowTruth
    <3>2. ASSUME NEW m \in Migrations PROVE RowTruth(m)'
      BY <3>1, <1>0, <1>1, <2>3 DEF RowTruth, MigrationInv, Ledger
    <3> QED
      BY <3>1, <3>2, <1>0, <1>1, <2>3 DEF Ledger, AppliedKept, Progress, GoTo, MigrationInv,
         MigrationTypes
  <2>4. CASE schema[1] = 0 /\ Execute(1, 1) /\ GoTo(r, "journal_bootstrap") /\ UNCHANGED journal
    <3>1. /\ schema'[1] = 1 /\ ran'[1] = 1
          /\ \A m \in Migrations \ {1} : schema'[m] = schema[m] /\ ran'[m] = ran[m]
      BY <2>4, <1>0 DEF Execute, MigrationInv, MigrationTypes, Ledger, RowTruth
    <3>2. ASSUME NEW m \in Migrations PROVE RowTruth(m)'
      BY <3>1, <1>0, <1>1, <2>4 DEF RowTruth, MigrationInv, Ledger
    <3> QED
      BY <3>1, <3>2, <1>0, <1>1, <2>4 DEF Ledger, AppliedKept, Progress, GoTo, MigrationInv,
         MigrationTypes
  <2> QED
    BY <2>1, <2>2, <2>3, <2>4 DEF BootstrapJournal
<1>5. ASSUME NEW q \in Runners, q # r PROVE Progress(q)'
  BY <1>0, <1>4, <1>5, OthersKeepProgress
<1> QED
  BY <1>2, <1>3, <1>4, <1>5 DEF MigrationInv

\* The process that created the journal writes the journal's own row.
LEMMA JournalBootstrapStep ==
  ASSUME MigrationInv, NEW r \in Runners, JournalBootstrap(r)
  PROVE  MigrationInv' /\ AppliedKept
<1>0. /\ runner[r].pc = "journal_bootstrap" /\ runner[r].pc \in Locked
      /\ journal[1].state = "absent" /\ schema[1] = 1
      /\ 1 \in Migrations /\ Build[r][1] \in Digests /\ Statements[1] = 1
      /\ UNCHANGED <<provider, lock, schema, ran, starts>>
      /\ runner' = [runner EXCEPT ![r].pc = "assess"]
      /\ journal' = [journal EXCEPT ![1] = [state |-> "applied", digest |-> Build[r][1]]]
  BY ReleasePrefix, StatementCounts DEF JournalBootstrap, At, GoTo, Record, Locked, MigrationInv,
     Progress
<1>1. MigrationTypes' /\ LockHeld'
  BY <1>0 DEF MigrationInv, MigrationTypes, LockHeld, Locked
<1>2. Ledger' /\ AppliedKept
  <2>1. /\ journal'[1].state = "applied"
        /\ \A m \in Migrations \ {1} : journal'[m] = journal[m]
    BY <1>0 DEF MigrationInv, MigrationTypes
  <2>2. ASSUME NEW m \in Migrations PROVE RowTruth(m)'
    BY <2>1, <1>0 DEF RowTruth, MigrationInv, Ledger
  <2> QED
    BY <2>1, <2>2, <1>0 DEF Ledger, AppliedKept
<1>3. Progress(r)'
  BY <1>0 DEF Progress, MigrationInv, MigrationTypes
<1>4. ASSUME NEW q \in Runners, q # r PROVE Progress(q)'
  BY <1>0, <1>2, <1>4, OthersKeepProgress DEF MigrationInv, MigrationTypes
<1> QED
  BY <1>1, <1>2, <1>3, <1>4 DEF MigrationInv

\* What a process inside the lock knows about its migration and the rows after it.
LEMMA FrontierFacts ==
  ASSUME MigrationInv, NEW r \in Runners, AtFrontier(r)
  PROVE  /\ runner[r].at \in Migrations /\ runner[r].at \in Nat /\ runner[r].at > 1
         /\ runner[r].at \in Embedded(r) /\ Build[r][runner[r].at] \in Digests
         /\ \A k \in 1 .. (runner[r].at - 1) : k \in Migrations /\ journal[k].state = "applied"
         /\ journal[runner[r].at].state # "applied" =>
              \A m \in Migrations : m > runner[r].at => journal[m].state = "absent"
<1> DEFINE a == runner[r].at
<1>1. a \in Embedded(r) /\ a > 1 /\ a \in Migrations /\ Build[r][a] \in Digests
  BY ReleasePrefix DEF AtFrontier
<1>2. a \in Nat /\ a <= Count /\ Count \in Nat
  BY <1>1, StatementCounts DEF Migrations
<1>3. \A k \in 1 .. (a - 1) : k \in Migrations /\ journal[k].state = "applied"
  BY <1>2 DEF AtFrontier, EntryAccepted, Migrations
<1>4. ASSUME journal[a].state # "applied", NEW m \in Migrations, m > a
      PROVE  journal[m].state = "absent"
  <2>1. a \in 1 .. (m - 1)
    BY <1>1, <1>2, <1>4 DEF Migrations
  <2> QED
    BY <2>1, <1>4 DEF MigrationInv, Ledger, RowTruth
<1> QED
  BY <1>1, <1>2, <1>3, <1>4

\* A row at the frontier is rewritten: the ledger holds if the new row agrees with
\* the schema, and no applied row changes.
LEMMA FrontierLedger ==
  ASSUME MigrationInv, NEW a \in Migrations, a > 1,
         journal[a].state # "applied",
         \A k \in 1 .. (a - 1) : journal[k].state = "applied",
         \A m \in Migrations : m > a => journal[m].state = "absent",
         \A m \in Migrations \ {a} :
           journal'[m] = journal[m] /\ schema'[m] = schema[m] /\ ran'[m] = ran[m],
         ran'[a] = schema'[a], schema'[a] <= Statements[a],
         journal'[a].state = "applied" => schema'[a] = Statements[a],
         journal'[a].state = "absent" => schema'[a] = 0
  PROVE  Ledger' /\ AppliedKept
<1>1. a \in Nat /\ Migrations \subseteq Nat /\ 1 \in Migrations
  BY StatementCounts DEF Migrations
<1>2. ASSUME NEW m \in Migrations PROVE RowTruth(m)'
  <2>0. m \in Nat /\ m >= 1
    BY StatementCounts DEF Migrations
  <2>1. CASE m = a
    <3>1. \A k \in 1 .. (m - 1) : journal'[k] = journal[k]
      BY <2>1, <1>1, StatementCounts DEF Migrations
    <3> QED
      BY <2>1, <3>1 DEF RowTruth
  <2>2. CASE m < a
    <3>1. RowTruth(m)
      BY DEF MigrationInv, Ledger
    <3>2. \A k \in 1 .. m : k \in Migrations \ {a}
      BY <2>2, <1>1, StatementCounts DEF Migrations
    <3>3. /\ journal'[m] = journal[m] /\ schema'[m] = schema[m] /\ ran'[m] = ran[m]
          /\ \A k \in 1 .. m : journal'[k] = journal[k]
          /\ m \in 1 .. m /\ \A k \in 1 .. (m - 1) : k \in 1 .. m
      BY <3>2, <2>0
    <3> QED
      BY <3>1, <3>3, SMTT(30) DEF RowTruth
  <2>3. CASE m > a
    <3>1. m > 1 /\ m # a
      BY <2>0, <2>3, <1>1
    <3>2. /\ journal[m].state = "absent" /\ journal'[m] = journal[m]
          /\ schema'[m] = schema[m] /\ ran'[m] = ran[m]
      BY <3>1, <2>3
    <3>3. RowTruth(m)
      BY DEF MigrationInv, Ledger
    <3> QED
      BY <3>1, <3>2, <3>3 DEF RowTruth
  <2>4. m = a \/ m < a \/ m > a
    BY <2>0, <1>1
  <2> QED
    BY <2>1, <2>2, <2>3, <2>4
<1>3. journal'[1] = journal[1]
  BY <1>1
<1>4. AppliedKept
  BY DEF AppliedKept
<1> QED
  BY <1>2, <1>3, <1>4 DEF Ledger, MigrationInv

\* The row is journalled where there was none, right behind the applied prefix.
LEMMA StartJournalStep ==
  ASSUME MigrationInv, NEW r \in Runners, StartJournal(r)
  PROVE  MigrationInv' /\ AppliedKept
<1> DEFINE a == runner[r].at
<1>0. /\ runner[r].pc = "start" /\ runner[r].pc \in Locked /\ AtFrontier(r)
      /\ journal[a].state = "absent"
      /\ UNCHANGED <<provider, lock, schema, ran, starts>>
      /\ runner' = [runner EXCEPT ![r].pc = "execute"]
      /\ journal' = [journal EXCEPT ![a] = [state |-> "applying", digest |-> Build[r][a]]]
  BY DEF StartJournal, At, GoTo, Record, Locked, MigrationInv, Progress
<1>1. /\ a \in Migrations /\ a > 1 /\ Build[r][a] \in Digests
      /\ \A k \in 1 .. (a - 1) : journal[k].state = "applied"
      /\ \A m \in Migrations : m > a => journal[m].state = "absent"
      /\ schema[a] = 0 /\ ran[a] = 0 /\ Statements[a] >= 1 /\ Statements[a] \in Nat
  BY <1>0, FrontierFacts, StatementCounts DEF MigrationInv, Ledger, RowTruth
<1>2. MigrationTypes' /\ LockHeld'
  BY <1>0, <1>1 DEF MigrationInv, MigrationTypes, LockHeld, Locked
<1>3. /\ journal'[a] = [state |-> "applying", digest |-> Build[r][a]]
      /\ \A m \in Migrations \ {a} : journal'[m] = journal[m]
      /\ runner'[r].pc = "execute" /\ runner'[r].at = a
  BY <1>0, <1>1 DEF MigrationInv, MigrationTypes
<1>4. Ledger' /\ AppliedKept
  BY <1>0, <1>1, <1>3, FrontierLedger
<1>5. Progress(r)'
  <2>1. AtFrontier(r)'
    BY <1>0, <1>3, <1>4, AcceptedKept
  <2> QED
    BY <2>1, <1>0, <1>1, <1>3 DEF Progress
<1>6. ASSUME NEW q \in Runners, q # r PROVE Progress(q)'
  BY <1>0, <1>4, <1>6, OthersKeepProgress DEF MigrationInv, MigrationTypes
<1> QED
  BY <1>2, <1>4, <1>5, <1>6 DEF MigrationInv

\* Statements are executed only under a row in "applying", and never past the last one.
LEMMA ExecuteSqlStep ==
  ASSUME MigrationInv, NEW r \in Runners, ExecuteSql(r)
  PROVE  MigrationInv' /\ AppliedKept
<1> DEFINE a == runner[r].at
           k == IF provider = "postgres" THEN Statements[a] - schema[a] ELSE 1
           next == IF schema[a] + k = Statements[a] THEN "verify" ELSE "execute"
<1>0. /\ runner[r].pc = "execute" /\ runner[r].pc \in Locked /\ AtFrontier(r)
      /\ journal[a] = [state |-> "applying", digest |-> Build[r][a]]
      /\ schema[a] < Statements[a]
      /\ UNCHANGED <<provider, lock, journal, starts>>
      /\ runner' = [runner EXCEPT ![r].pc = next]
      /\ schema' = [schema EXCEPT ![a] = @ + k]
      /\ ran' = [ran EXCEPT ![a] = @ + k]
  <2>1. /\ runner[r].pc = "execute"
        /\ UNCHANGED <<provider, lock, journal, starts>>
        /\ runner' = [runner EXCEPT ![r].pc = next]
        /\ schema' = [schema EXCEPT ![a] = @ + k]
        /\ ran' = [ran EXCEPT ![a] = @ + k]
    BY Zenon DEF ExecuteSql, At, GoTo, Execute
  <2>2. Progress(r)
    BY DEF MigrationInv
  <2> QED
    BY <2>1, <2>2 DEF Locked, Progress
<1>1. /\ a \in Migrations /\ a > 1
      /\ \A i \in 1 .. (a - 1) : journal[i].state = "applied"
      /\ \A m \in Migrations : m > a => journal[m].state = "absent"
      /\ ran[a] = schema[a] /\ schema[a] \in Nat /\ Statements[a] \in Nat
  <2>1. /\ a \in Migrations /\ a > 1
        /\ \A i \in 1 .. (a - 1) : journal[i].state = "applied"
        /\ \A m \in Migrations : m > a => journal[m].state = "absent"
    BY <1>0, FrontierFacts
  <2>2. RowTruth(a)
    BY <2>1 DEF MigrationInv, Ledger
  <2> QED
    BY <2>1, <2>2, StatementCounts DEF MigrationInv, MigrationTypes, RowTruth
<1>2. k \in Nat /\ schema[a] + k <= Statements[a]
  BY <1>0, <1>1
<1> HIDE DEF k
<1>3. /\ schema'[a] = schema[a] + k /\ ran'[a] = schema[a] + k
      /\ \A m \in Migrations \ {a} : schema'[m] = schema[m] /\ ran'[m] = ran[m]
      /\ runner'[r].pc = next /\ runner'[r].at = a
  BY <1>0, <1>1 DEF MigrationInv, MigrationTypes
<1>4. MigrationTypes' /\ LockHeld'
  <2>1. schema' \in [Migrations -> Nat] /\ ran' \in [Migrations -> Nat]
    BY <1>0, <1>1, <1>2 DEF MigrationInv, MigrationTypes
  <2> QED
    BY <1>0, <2>1, SMTT(30) DEF MigrationInv, MigrationTypes, LockHeld, Locked
<1>5. Ledger' /\ AppliedKept
  BY <1>0, <1>1, <1>2, <1>3, FrontierLedger
<1>6. Progress(r)'
  <2>1. AtFrontier(r)'
    BY <1>0, <1>3, <1>5, AcceptedKept
  <2> QED
    BY <2>1, <1>0, <1>1, <1>2, <1>3 DEF Progress
<1>7. ASSUME NEW q \in Runners, q # r PROVE Progress(q)'
  BY <1>0, <1>5, <1>7, OthersKeepProgress DEF MigrationInv, MigrationTypes
<1> QED
  BY <1>4, <1>5, <1>6, <1>7 DEF MigrationInv

\* The row becomes "applied" once its whole SQL is in effect; the process goes on
\* behind it, or has then accepted all its release embeds.
LEMMA MarkAppliedStep ==
  ASSUME MigrationInv, NEW r \in Runners, MarkApplied(r)
  PROVE  MigrationInv' /\ AppliedKept
<1> DEFINE a == runner[r].at
<1>0. /\ runner[r].pc = "apply" /\ runner[r].pc \in Locked /\ AtFrontier(r)
      /\ journal[a] = [state |-> "applying", digest |-> Build[r][a]]
      /\ schema[a] = Statements[a]
      /\ UNCHANGED <<provider, lock, schema, ran, starts>>
      /\ journal' = [journal EXCEPT ![a] = [state |-> "applied", digest |-> Build[r][a]]]
      /\ IF a + 1 \in Embedded(r)
         THEN runner' = [runner EXCEPT ![r].pc = "start", ![r].at = a + 1]
         ELSE runner' = [runner EXCEPT ![r].pc = "release"]
  <2>1. Progress(r)
    BY DEF MigrationInv
  <2>2. /\ runner[r].pc = "apply"
        /\ UNCHANGED <<provider, lock, schema, ran, starts>>
        /\ journal' = [journal EXCEPT ![a] = [state |-> "applied", digest |-> journal[a].digest]]
        /\ IF a + 1 \in Embedded(r)
           THEN runner' = [runner EXCEPT ![r].pc = "start", ![r].at = a + 1]
           ELSE runner' = [runner EXCEPT ![r].pc = "release"]
    BY Zenon DEF MarkApplied, At, GoTo, Record
  <2>3. /\ AtFrontier(r)
        /\ journal[a] = [state |-> "applying", digest |-> Build[r][a]]
        /\ schema[a] = Statements[a]
    BY <2>1, <2>2 DEF Progress
  <2>4. journal[a].digest = Build[r][a]
    BY <2>3
  <2> QED
    BY <2>2, <2>3, <2>4 DEF Locked
<1>1. /\ a \in Migrations /\ a > 1 /\ a \in Nat /\ a \in Embedded(r) /\ Build[r][a] \in Digests
      /\ \A i \in 1 .. (a - 1) : journal[i].state = "applied"
      /\ \A m \in Migrations : m > a => journal[m].state = "absent"
      /\ ran[a] = schema[a] /\ Statements[a] \in Nat
  <2>1. /\ a \in Migrations /\ a > 1 /\ a \in Nat /\ a \in Embedded(r) /\ Build[r][a] \in Digests
        /\ \A i \in 1 .. (a - 1) : journal[i].state = "applied"
        /\ \A m \in Migrations : m > a => journal[m].state = "absent"
    BY <1>0, FrontierFacts
  <2>2. RowTruth(a)
    BY <2>1 DEF MigrationInv, Ledger
  <2> QED
    BY <2>1, <2>2, StatementCounts DEF RowTruth
<1>2. /\ journal'[a] = [state |-> "applied", digest |-> Build[r][a]]
      /\ \A m \in Migrations \ {a} : journal'[m] = journal[m]
      /\ \A q \in Runners : q # r => runner'[q] = runner[q]
  BY <1>0, <1>1 DEF MigrationInv, MigrationTypes
<1>3. MigrationTypes' /\ LockHeld'
  <2>1. a + 1 \in Embedded(r) => a + 1 \in Migrations
    BY ReleasePrefix
  <2>2. runner' \in [Runners -> [pc : Locked \cup Finished \cup {"lock"}, at : Migrations \cup {0},
                                 outcome : {"ok", "error"}]]
    BY <1>0, <2>1 DEF MigrationInv, MigrationTypes, Locked
  <2>3. journal' \in [Migrations -> [state : {"absent", "applying", "applied", "failed"},
                                     digest : Digests]]
    BY <1>0, <1>1 DEF MigrationInv, MigrationTypes
  <2> QED
    BY <1>0, <1>2, <2>2, <2>3 DEF MigrationInv, MigrationTypes, LockHeld
<1>4. Ledger' /\ AppliedKept
  BY <1>0, <1>1, <1>2, FrontierLedger
<1>5. \A k \in 1 .. a : EntryAccepted(r, k)'
  <2> TAKE k \in 1 .. a
  <2>1. CASE k = a
    BY <2>1, <1>1, <1>2 DEF EntryAccepted, Embedded
  <2>2. CASE k # a
    <3>1. k \in 1 .. (a - 1) /\ k \in Migrations
      BY <2>2, <1>1, StatementCounts DEF Migrations
    <3>2. EntryAccepted(r, k) /\ journal'[k] = journal[k]
      BY <3>1, <2>2, <1>0, <1>2 DEF AtFrontier
    <3> QED
      BY <3>2 DEF EntryAccepted, Embedded
  <2> QED
    BY <2>1, <2>2
<1>6. Progress(r)'
  <2>1. CASE a + 1 \in Embedded(r)
    <3>1. runner'[r].pc = "start" /\ runner'[r].at = a + 1
      BY <2>1, <1>0 DEF MigrationInv, MigrationTypes
    <3>2. journal'[a + 1].state = "absent"
      BY <2>1, <1>1, <1>2, ReleasePrefix
    <3>3. AtFrontier(r)'
      BY <2>1, <3>1, <1>1, <1>5 DEF AtFrontier, Embedded
    <3> QED
      BY <3>1, <3>2, <3>3 DEF Progress
  <2>2. CASE a + 1 \notin Embedded(r)
    <3>1. runner'[r].pc = "release"
      BY <2>2, <1>0 DEF MigrationInv, MigrationTypes
    <3>2. \A m \in Embedded(r) : m \in 1 .. a
      <4> SUFFICES ASSUME NEW m \in Embedded(r), m \notin 1 .. a PROVE FALSE
        OBVIOUS
      <4>1. m \in Nat /\ m >= a + 1
        BY <1>1, ReleasePrefix, StatementCounts DEF Migrations
      <4>2. a + 1 \in 1 .. m
        BY <4>1, <1>1
      <4> QED
        BY <4>2, <2>2, ReleasePrefix
    <3>3. AllAccepted(r)'
      BY <3>2, <1>5 DEF AllAccepted, Embedded
    <3> QED
      BY <3>1, <3>3 DEF Progress
  <2> QED
    BY <2>1, <2>2
<1>7. ASSUME NEW q \in Runners, q # r PROVE Progress(q)'
  BY <1>0, <1>2, <1>4, <1>7, OthersKeepProgress
<1> QED
  BY <1>3, <1>4, <1>6, <1>7 DEF MigrationInv

\* A failed migration keeps its row, so no later start can skip or repeat it.
LEMMA MarkFailedStep ==
  ASSUME MigrationInv, NEW r \in Runners, MarkFailed(r)
  PROVE  MigrationInv' /\ AppliedKept
<1> DEFINE a == runner[r].at
<1>0. /\ runner[r].pc = "mark_failed" /\ runner[r].pc \in Locked
      /\ a \in Migrations /\ a > 1 /\ runner[r].outcome = "error"
      /\ UNCHANGED <<provider, lock, schema, ran, starts>>
      /\ runner' = [runner EXCEPT ![r].pc = "release"]
      /\ journal' = IF journal[a].state = "applying"
                    THEN [journal EXCEPT ![a].state = "failed"] ELSE journal
  <2>1. Progress(r)
    BY DEF MigrationInv
  <2> QED
    BY <2>1 DEF MarkFailed, At, GoTo, Locked, Progress
<1>1. MigrationTypes' /\ LockHeld'
  BY <1>0 DEF MigrationInv, MigrationTypes, LockHeld, Locked
<1>2. Ledger' /\ AppliedKept
  <2>1. CASE journal[a].state = "applying"
    <3>1. /\ journal'[a].state = "failed"
          /\ \A m \in Migrations \ {a} : journal'[m] = journal[m]
      BY <1>0, <2>1 DEF MigrationInv, MigrationTypes
    <3>2. RowTruth(a) /\ \A k \in 1 .. (a - 1) : journal[k].state = "applied"
      BY <1>0, <2>1 DEF MigrationInv, Ledger, RowTruth
    <3>3. ASSUME NEW m \in Migrations, m > a PROVE journal[m].state = "absent"
      <4>1. a \in 1 .. (m - 1) /\ RowTruth(m)
        BY <1>0, <3>3, StatementCounts DEF Migrations, MigrationInv, Ledger
      <4> QED
        BY <4>1, <2>1 DEF RowTruth
    <3> QED
      BY <1>0, <2>1, <3>1, <3>2, <3>3, FrontierLedger DEF RowTruth
  <2>2. CASE journal[a].state # "applying"
    BY <1>0, <2>2, QuietLedger
  <2> QED
    BY <2>1, <2>2
<1>3. Progress(r)'
  BY <1>0 DEF Progress, MigrationInv, MigrationTypes
<1>4. ASSUME NEW q \in Runners, q # r PROVE Progress(q)'
  BY <1>0, <1>2, <1>4, OthersKeepProgress DEF MigrationInv, MigrationTypes
<1> QED
  BY <1>1, <1>2, <1>3, <1>4 DEF MigrationInv

----------------------------------------------------------------------------
\* The induction.

\* The invariant holds before the first start.
LEMMA MigrationStart ==
  MigrationInit => MigrationInv
<1> SUFFICES ASSUME MigrationInit PROVE MigrationInv
  OBVIOUS
<1>1. 1 \in Migrations
  BY MigrationAssumption DEF Migrations
<1>2. MigrationTypes
  BY MigrationAssumption DEF MigrationInit, MigrationTypes, AbsentRow, Digests, Finished
<1>3. LockHeld
  BY DEF MigrationInit, LockHeld, Locked
<1>4. \A m \in Migrations : RowTruth(m)
  BY StatementCounts DEF MigrationInit, RowTruth, AbsentRow
<1>5. \A r \in Runners : Progress(r)
  BY DEF MigrationInit, Progress
<1> QED
  BY <1>1, <1>2, <1>3, <1>4, <1>5 DEF MigrationInv, Ledger, MigrationInit, AbsentRow

\* Every step keeps the invariant, and every applied row.
LEMMA MigrationStep ==
  MigrationInv /\ [MigrationNext]_migrationVars => MigrationInv' /\ AppliedKept
<1> SUFFICES ASSUME MigrationInv, [MigrationNext]_migrationVars
             PROVE  MigrationInv' /\ AppliedKept
  OBVIOUS
<1>1. ASSUME NEW r \in Runners,
             StartRunner(r) \/ AcquireLock(r) \/ LockTimeout(r) \/ AssessHistory(r)
               \/ VerifySchema(r) \/ StepFails(r) \/ ReleaseLock(r) \/ LoseSession(r)
      PROVE  MigrationInv' /\ AppliedKept
  <2>1. AppliedKept
    BY <1>1, QuietLedger DEF StartRunner, AcquireLock, LockTimeout, AssessHistory, VerifySchema,
       StepFails, ReleaseLock, LoseSession
  <2> QED
    BY <1>1, <2>1, StartRunnerStep, AcquireLockStep, LockTimeoutStep, AssessHistoryStep,
       VerifySchemaStep, StepFailsStep, ReleaseLockStep, LoseSessionStep
<1>2. ASSUME NEW r \in Runners,
             BootstrapJournal(r) \/ JournalBootstrap(r) \/ StartJournal(r) \/ ExecuteSql(r)
               \/ MarkApplied(r) \/ MarkFailed(r)
      PROVE  MigrationInv' /\ AppliedKept
  BY <1>2, BootstrapJournalStep, JournalBootstrapStep, StartJournalStep, ExecuteSqlStep,
     MarkAppliedStep, MarkFailedStep
<1>3. CASE UNCHANGED migrationVars
  BY <1>3, QuietLedger, QuietOthers DEF migrationVars, MigrationInv, MigrationTypes, LockHeld
<1> QED
  BY <1>1, <1>2, <1>3 DEF MigrationNext, RunnerStep

\* The inductive invariant holds in every reachable state, for every number of
\* processes, releases and migrations.
THEOREM MigrationsInvariant == MigrationSpec => []MigrationInv
<1> QED
  BY MigrationStart, MigrationStep, PTL DEF MigrationSpec

\* A journal row says "applied" only when its SQL is completely in effect and all
\* earlier rows are applied too (migrate_locked, mark_applied).
THEOREM JournalIsTrue == MigrationSpec => []JournalTruth
<1>1. MigrationInv => JournalTruth
  <2> SUFFICES ASSUME MigrationInv, NEW m \in Migrations, journal[m].state = "applied"
               PROVE  /\ schema[m] = Statements[m]
                      /\ \A k \in 1 .. m : journal[k].state = "applied"
    BY DEF JournalTruth
  <2>1. RowTruth(m)
    BY DEF MigrationInv, Ledger
  <2>2. m \in Nat
    BY DEF Migrations
  <2> QED
    BY <2>1, <2>2 DEF RowTruth
<1> QED
  BY <1>1, MigrationsInvariant, PTL

\* No statement of a migration is executed twice (execute_sql, execute_statements).
THEOREM DdlIsRunOnce == MigrationSpec => []DdlRunsOnce
<1>1. MigrationInv => DdlRunsOnce
  BY DEF MigrationInv, Ledger, RowTruth, DdlRunsOnce
<1> QED
  BY <1>1, MigrationsInvariant, PTL

\* A process that reports ready finds its whole release applied, with its own
\* checksums, then and for ever after (migrate).
THEOREM ReadyMeansMigrated == MigrationSpec => []ReadyIsMigrated
<1>1. MigrationInv => ReadyIsMigrated
  <2> SUFFICES ASSUME MigrationInv, NEW r \in Runners, runner[r].pc = "ok",
                      NEW m \in Embedded(r)
               PROVE  journal[m] = [state |-> "applied", digest |-> Build[r][m]]
    BY DEF ReadyIsMigrated
  <2>1. EntryAccepted(r, m) /\ m \in Migrations
    BY ReleasePrefix DEF MigrationInv, Progress, AllAccepted
  <2> QED
    BY <2>1 DEF EntryAccepted, MigrationInv, MigrationTypes
<1> QED
  BY <1>1, MigrationsInvariant, PTL

\* An applied row is final: no crash, failure, restart or other release changes its
\* state or its checksum.
THEOREM AppliedIsFinal == MigrationSpec => [][AppliedKept]_migrationVars
<1> QED
  BY MigrationsInvariant, MigrationStep, PTL DEF MigrationSpec
=============================================================================
