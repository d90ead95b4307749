-------------------------------- MODULE Setup --------------------------------
(***************************************************************************)
(* The scripts an operator runs on the database: migrate.py, which applies *)
(* the migration files in order and records each one, and seed_demo.py,    *)
(* which inserts the demo bets.  Both may die at any point and be run      *)
(* again; two runs of migrate.py may overlap (deploys), while one person   *)
(* at a time reseeds, with no pipeline running.                            *)
(*                                                                         *)
(* External: Postgres.  What a transaction wrote appears at its commit, or *)
(* not at all, and the primary key of schema_migrations makes the second   *)
(* of two transactions that record the same file fail as a whole.          *)
(***************************************************************************)
EXTENDS Integers, FiniteSets, FiniteSetsExt

CONSTANTS Operator,     \* runs of a script that may be under way together
          Files,        \* number of migration files; file i is the i-th by name
          Key,          \* the seed specifications: SEEDS and D1
          MaxBatches    \* bound: how often the demo bets are inserted

ASSUME FilesAssumption == Files \in Nat \ {0}
ASSUME BatchesAssumption == MaxBatches \in Nat

VARIABLES applied,      \* how many times the SQL of each file took effect
          recorded,     \* table schema_migrations
          seeds,        \* committed demo bets, with the run that made them
          batches,      \* runs of seed_demo.py that have come to insert
          pc,           \* where each operator's script is
          todo,         \* files migrate.py has still to look at
          open          \* per operator: demo bets of its open transaction

vars == <<applied, recorded, seeds, batches, pc, todo, open>>

File == 1 .. Files

Seed == [key: Key, batch: 1 .. MaxBatches]

Stopped == {"idle", "done", "failed"}

TypeOK ==
  /\ applied \in [File -> Nat]
  /\ recorded \in SUBSET File
  /\ seeds \in SUBSET Seed
  /\ batches \in 0 .. MaxBatches
  /\ pc \in [Operator -> Stopped \cup {"read", "migrate", "check", "reset", "seed"}]
  /\ todo \in [Operator -> SUBSET File]
  /\ open \in [Operator -> SUBSET Seed]

Init ==
  /\ applied = [f \in File |-> 0]
  /\ recorded = {} /\ seeds = {} /\ batches = 0
  /\ pc = [o \in Operator |-> "idle"]
  /\ todo = [o \in Operator |-> {}]
  /\ open = [o \in Operator |-> {}]

Goto(o, label) == pc' = [pc EXCEPT ![o] = label]

\* An exception or the death of the process: get_conn rolls back.
Stop(o) ==
  /\ Goto(o, "failed")
  /\ open' = [open EXCEPT ![o] = {}]
  /\ UNCHANGED <<applied, recorded, seeds, batches, todo>>

Dies(o) == pc[o] \notin Stopped /\ Stop(o)

-----------------------------------------------------------------------------
(* migrate.py.                                                             *)

\* CREATE TABLE IF NOT EXISTS schema_migrations, in a transaction of its own.
Migrate(o) ==
  /\ pc[o] \in Stopped
  /\ Goto(o, "read")
  /\ UNCHANGED <<applied, recorded, seeds, batches, todo, open>>

ReadApplied(o) ==
  /\ pc[o] = "read"
  /\ todo' = [todo EXCEPT ![o] = File \ recorded]
  /\ Goto(o, "migrate")
  /\ UNCHANGED <<applied, recorded, seeds, batches, open>>

\* Mutant: the file is committed before it is recorded, and its SQL, being
\* IF NOT EXISTS throughout, does not fail a second time.
ApplyFile_RecordsLater(o) ==
  /\ pc[o] = "migrate" /\ todo[o] # {}
  /\ LET f == Min(todo[o])
     IN  /\ applied' = [applied EXCEPT ![f] = @ + 1]
         /\ \/ /\ recorded' = recorded \cup {f}
               /\ todo' = [todo EXCEPT ![o] = @ \ {f}]
               /\ UNCHANGED pc
            \/ Goto(o, "failed") /\ UNCHANGED <<recorded, todo>>
  /\ UNCHANGED <<seeds, batches, open>>

\* Mutant: the name that is recorded is the next one.
ApplyFile_RecordsNext(o) ==
  /\ pc[o] = "migrate" /\ todo[o] # {}
  /\ LET f == Min(todo[o])
     IN  /\ applied' = [applied EXCEPT ![f] = @ + 1]
         /\ recorded' = recorded \cup {f + 1}
         /\ todo' = [todo EXCEPT ![o] = @ \ {f}]
  /\ UNCHANGED <<pc, seeds, batches, open>>

\* Mutant: a file that fails is skipped.
ApplyFile_Skips(o) ==
  /\ pc[o] = "migrate" /\ todo[o] # {}
  /\ LET f == Min(todo[o])
     IN  /\ \/ /\ f \notin recorded
               /\ applied' = [applied EXCEPT ![f] = @ + 1]
               /\ recorded' = recorded \cup {f}
            \/ UNCHANGED <<applied, recorded>>
         /\ todo' = [todo EXCEPT ![o] = @ \ {f}]
  /\ UNCHANGED <<pc, seeds, batches, open>>

\* The SQL of the first file that was not recorded when this run began, and its
\* row, in one transaction; a row that is there by now, or an error in the
\* SQL, ends the run.
ApplyFile(o) ==
  /\ pc[o] = "migrate" /\ todo[o] # {}
  /\ LET f == Min(todo[o])
     IN  \/ /\ f \notin recorded
            /\ applied' = [applied EXCEPT ![f] = @ + 1]
            /\ recorded' = recorded \cup {f}
            /\ todo' = [todo EXCEPT ![o] = @ \ {f}]
            /\ UNCHANGED <<pc, seeds, batches, open>>
         \/ Stop(o)

Migrated(o) ==
  /\ pc[o] = "migrate" /\ todo[o] = {}
  /\ Goto(o, "done")
  /\ UNCHANGED <<applied, recorded, seeds, batches, todo, open>>

-----------------------------------------------------------------------------
(* seed_demo.py.                                                           *)

SeedDemo(o) ==
  /\ pc[o] \in Stopped
  /\ \A q \in Operator : pc[q] \notin {"check", "reset", "seed"}
  /\ Goto(o, "check") \/ Goto(o, "reset")
  /\ UNCHANGED <<applied, recorded, seeds, batches, todo, open>>

\* The numbered run begins to insert.
Begin(o) ==
  /\ batches < MaxBatches /\ batches' = batches + 1
  /\ Goto(o, "seed")

\* Without --reset: one seed bet is enough to leave the others alone.  There
\* are no tables before the first migration.
CheckSeeds(o) ==
  /\ pc[o] = "check"
  /\ IF 1 \notin recorded THEN Stop(o)
     ELSE /\ IF seeds # {} THEN Goto(o, "done") /\ UNCHANGED batches
                           ELSE Begin(o)
          /\ UNCHANGED <<applied, recorded, seeds, todo, open>>

\* --reset: the four DELETEs are committed before anything is inserted.
Reset(o) ==
  /\ pc[o] = "reset"
  /\ IF 1 \notin recorded THEN Stop(o)
     ELSE /\ seeds' = {}
          /\ Begin(o)
          /\ UNCHANGED <<applied, recorded, todo, open>>

\* Mutant: every bet is committed by itself.
SeedBet_Commits(o, k) ==
  /\ pc[o] = "seed" /\ \A s \in open[o] : s.key # k
  /\ open' = [open EXCEPT ![o] = @ \cup {[key |-> k, batch |-> batches]}]
  /\ seeds' = seeds \cup {[key |-> k, batch |-> batches]}
  /\ UNCHANGED <<applied, recorded, batches, pc, todo>>

\* _seed_bet: the row, the nodes, the edges and the status SCHEDULED.
SeedBet(o, k) ==
  /\ pc[o] = "seed" /\ \A s \in open[o] : s.key # k
  /\ open' = [open EXCEPT ![o] = @ \cup {[key |-> k, batch |-> batches]}]
  /\ UNCHANGED <<applied, recorded, seeds, batches, pc, todo>>

CommitSeeds(o) ==
  /\ pc[o] = "seed" /\ {s.key : s \in open[o]} = Key
  /\ seeds' = seeds \cup open[o]
  /\ open' = [open EXCEPT ![o] = {}]
  /\ Goto(o, "done")
  /\ UNCHANGED <<applied, recorded, batches, todo>>

-----------------------------------------------------------------------------
Next ==
  \E o \in Operator :
    \/ Migrate(o) \/ ReadApplied(o) \/ ApplyFile(o) \/ Migrated(o)
    \/ SeedDemo(o) \/ CheckSeeds(o) \/ Reset(o) \/ CommitSeeds(o)
    \/ \E k \in Key : SeedBet(o, k)
    \/ Dies(o)

Spec == Init /\ [][Next]_vars

-----------------------------------------------------------------------------
\* A file took effect once if it is recorded and never if it is not, and files
\* are recorded in order: neither a crash nor an overlapping run applies one
\* twice, skips one, or leaves one half applied.
MigrationsAreExact ==
  /\ \A f \in File : applied[f] = IF f \in recorded THEN 1 ELSE 0
  /\ \A f \in recorded : 1 .. f \subseteq recorded

\* "schema up to date": a run that ends well, on whatever it found recorded when
\* it began, leaves nothing to apply.
DoneIsUpToDate ==
  \A o \in Operator : pc[o] = "migrate" =>
    /\ File \ todo[o] \subseteq recorded
    /\ \A f \in todo[o], g \in File \ todo[o] : g < f

\* The demo bets are all there or none is: "seed bets already present" looks at
\* one of them, and a batch that died half way would never be completed.
BatchIsWhole ==
  seeds = {} \/ \E n \in 1 .. MaxBatches : seeds = [key: Key, batch: {n}]
=============================================================================
