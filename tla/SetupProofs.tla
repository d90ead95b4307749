----------------------------- MODULE SetupProofs -----------------------------
(***************************************************************************)
(* The properties of Setup for any number of operators, migration files,   *)
(* seed specifications and batches.  MigrationsAreExact needs to know that *)
(* the file a run takes next comes right after those that are recorded,    *)
(* BatchIsWhole that whoever inserts does so alone and into an empty       *)
(* table.                                                                  *)
(***************************************************************************)
EXTENDS Setup, WellFoundedInduction, TLAPS

Seeding(o) == pc[o] \in {"check", "reset", "seed"}

\* One person reseeds; what is inserted belongs to the latest batch, and the
\* table is empty until it is committed.
OneSeeder ==
  /\ \A o, q \in Operator : Seeding(o) /\ Seeding(q) => o = q
  /\ \A o \in Operator :
       IF pc[o] = "seed"
       THEN /\ seeds = {} /\ batches \in 1 .. MaxBatches
            /\ open[o] \subseteq [key: Key, batch: {batches}]
       ELSE open[o] = {}

Inv == TypeOK /\ MigrationsAreExact /\ DoneIsUpToDate /\ BatchIsWhole /\ OneSeeder

-----------------------------------------------------------------------------
\* A set of files that is not empty has a first one.
LEMMA FirstFile ==
  ASSUME NEW S \in SUBSET File, S # {}
  PROVE  Min(S) \in S /\ \A f \in S : Min(S) <= f
<1>1. S \subseteq Nat
  BY FilesAssumption DEF File
<1> DEFINE R == {pair \in Nat \X Nat : pair[1] < pair[2]}
<1>2. IsWellFoundedOn(R, Nat)
  BY NatLessThanWellFounded, Zenon DEF OpToRel
<1>3. \A x, y \in Nat : <<y, x>> \in R <=> y < x
  OBVIOUS
<1> HIDE DEF R
<1>4. PICK x \in S : \A y \in S : ~ (<<y, x>> \in R)
  BY <1>1, <1>2, WFMin
<1>5. ASSUME NEW y \in S
      PROVE  x <= y
  <2>1. x \in Nat /\ y \in Nat
    BY <1>1
  <2>2. ~ (y < x)
    BY <1>3, <1>4, <2>1
  <2> QED BY <2>1, <2>2
<1> QED BY <1>5 DEF Min

LEMMA InitInv == Init => Inv
  BY FilesAssumption, BatchesAssumption
     DEF Init, Inv, TypeOK, MigrationsAreExact, DoneIsUpToDate, BatchIsWhole,
         OneSeeder, Seeding, Stopped, File

LEMMA StopInv ==
  ASSUME NEW o \in Operator, Inv, Stop(o)
  PROVE  Inv'
<1> USE DEF Inv, Stop, Goto
<1>1. TypeOK'
  BY DEF TypeOK, Stopped
<1>2. MigrationsAreExact' /\ BatchIsWhole'
  BY DEF MigrationsAreExact, BatchIsWhole
<1>3. DoneIsUpToDate'
  BY DEF DoneIsUpToDate, TypeOK
<1>4. OneSeeder'
  BY DEF OneSeeder, Seeding, TypeOK
<1> QED BY <1>1, <1>2, <1>3, <1>4

LEMMA MigrationInv ==
  ASSUME NEW o \in Operator, Inv,
         Migrate(o) \/ ReadApplied(o) \/ ApplyFile(o) \/ Migrated(o)
  PROVE  Inv'
<1> USE DEF Inv, Goto
<1>1. CASE Migrate(o)
  <2>1. TypeOK' /\ MigrationsAreExact' /\ BatchIsWhole'
    BY <1>1 DEF Migrate, TypeOK, MigrationsAreExact, BatchIsWhole
  <2>2. DoneIsUpToDate'
    BY <1>1 DEF Migrate, DoneIsUpToDate, TypeOK
  <2>3. OneSeeder'
    BY <1>1 DEF Migrate, OneSeeder, Seeding, TypeOK, Stopped
  <2> QED BY <2>1, <2>2, <2>3
<1>2. CASE ReadApplied(o)
  <2>1. TypeOK' /\ MigrationsAreExact' /\ BatchIsWhole'
    BY <1>2 DEF ReadApplied, TypeOK, MigrationsAreExact, BatchIsWhole
  <2>2. ASSUME NEW f \in File \ recorded, NEW g \in recorded
        PROVE  g < f
    BY <2>2, FilesAssumption DEF MigrationsAreExact, TypeOK, File
  <2>3. DoneIsUpToDate'
    BY <1>2, <2>2 DEF ReadApplied, DoneIsUpToDate, TypeOK
  <2>4. OneSeeder'
    BY <1>2 DEF ReadApplied, OneSeeder, Seeding, TypeOK
  <2> QED BY <2>1, <2>3, <2>4
<1>3. CASE ApplyFile(o) /\ ~ Stop(o)
  <2> DEFINE f == Min(todo[o])
  <2>1. /\ pc[o] = "migrate" /\ todo[o] \in SUBSET File
        /\ f \in todo[o] /\ f \in File /\ f \in Nat /\ \A g \in todo[o] : f <= g
    <3>1. todo[o] \in SUBSET File /\ todo[o] # {} /\ pc[o] = "migrate"
      BY <1>3 DEF ApplyFile, TypeOK
    <3> QED BY <3>1, FirstFile, FilesAssumption DEF File
  <2>2. /\ f \notin recorded /\ applied' = [applied EXCEPT ![f] = @ + 1]
        /\ recorded' = recorded \cup {f}
        /\ todo' = [todo EXCEPT ![o] = @ \ {f}]
        /\ UNCHANGED <<pc, seeds, batches, open>>
    BY <1>3 DEF ApplyFile
  <2> HIDE DEF f
  <2>3. TypeOK' /\ BatchIsWhole'
    BY <2>1, <2>2 DEF TypeOK, BatchIsWhole
  <2>4. \A g \in File \ todo[o] : g \in recorded /\ g < f
    BY <2>1 DEF DoneIsUpToDate
  <2>5. 1 .. f \subseteq recorded'
    <3>1. ASSUME NEW g \in 1 .. f
          PROVE  g = f \/ g \in recorded
      <4>1. g \in File
        BY <2>1, FilesAssumption DEF File
      <4>2. g \in todo[o] => g = f
        BY <2>1
      <4> QED BY <4>1, <4>2, <2>4
    <3> QED BY <3>1, <2>2
  <2>6. MigrationsAreExact'
    BY <2>1, <2>2, <2>5 DEF MigrationsAreExact, TypeOK
  <2>7. DoneIsUpToDate'
    <3>1. ASSUME NEW g \in todo[o] \ {f}
          PROVE  f < g
      BY <2>1, FilesAssumption DEF File
    <3> QED BY <2>1, <2>2, <2>4, <3>1 DEF DoneIsUpToDate, TypeOK
  <2>8. OneSeeder'
    BY <2>2 DEF OneSeeder, Seeding
  <2> QED BY <2>3, <2>6, <2>7, <2>8
<1>4. CASE Migrated(o)
  <2>1. TypeOK' /\ MigrationsAreExact' /\ BatchIsWhole'
    BY <1>4 DEF Migrated, TypeOK, MigrationsAreExact, BatchIsWhole, Stopped
  <2>2. DoneIsUpToDate'
    BY <1>4 DEF Migrated, DoneIsUpToDate, TypeOK
  <2>3. OneSeeder'
    BY <1>4 DEF Migrated, OneSeeder, Seeding, TypeOK
  <2> QED BY <2>1, <2>2, <2>3
<1> QED BY <1>1, <1>2, <1>3, <1>4, StopInv

LEMMA SeedInv ==
  ASSUME NEW o \in Operator, Inv,
         \/ SeedDemo(o) \/ CheckSeeds(o) \/ Reset(o) \/ CommitSeeds(o)
         \/ \E k \in Key : SeedBet(o, k)
  PROVE  Inv'
<1> USE DEF Inv, Goto
<1>1. CASE SeedDemo(o)
  <2>1. TypeOK' /\ MigrationsAreExact' /\ BatchIsWhole'
    BY <1>1 DEF SeedDemo, TypeOK, MigrationsAreExact, BatchIsWhole
  <2>2. DoneIsUpToDate'
    BY <1>1 DEF SeedDemo, DoneIsUpToDate, TypeOK
  <2>3. OneSeeder'
    BY <1>1 DEF SeedDemo, OneSeeder, Seeding, TypeOK, Stopped
  <2> QED BY <2>1, <2>2, <2>3
<1>2. CASE CheckSeeds(o) /\ ~ Stop(o)
  <2>1. TypeOK'
    BY <1>2, BatchesAssumption DEF CheckSeeds, Begin, TypeOK, Stopped
  <2>2. MigrationsAreExact' /\ BatchIsWhole'
    BY <1>2 DEF CheckSeeds, MigrationsAreExact, BatchIsWhole
  <2>3. DoneIsUpToDate'
    BY <1>2 DEF CheckSeeds, Begin, DoneIsUpToDate, TypeOK
  <2>4. OneSeeder'
    BY <1>2, BatchesAssumption DEF CheckSeeds, Begin, OneSeeder, Seeding, TypeOK
  <2> QED BY <2>1, <2>2, <2>3, <2>4
<1>3. CASE Reset(o) /\ ~ Stop(o)
  <2>1. TypeOK'
    BY <1>3, BatchesAssumption DEF Reset, Begin, TypeOK
  <2>2. MigrationsAreExact' /\ BatchIsWhole'
    BY <1>3 DEF Reset, MigrationsAreExact, BatchIsWhole
  <2>3. DoneIsUpToDate'
    BY <1>3 DEF Reset, Begin, DoneIsUpToDate, TypeOK
  <2>4. OneSeeder'
    BY <1>3, BatchesAssumption DEF Reset, Begin, OneSeeder, Seeding, TypeOK
  <2> QED BY <2>1, <2>2, <2>3, <2>4
<1>4. ASSUME NEW k \in Key, SeedBet(o, k)
      PROVE  Inv'
  <2>1. /\ pc[o] = "seed" /\ batches \in 1 .. MaxBatches
        /\ open[o] \subseteq [key: Key, batch: {batches}]
    BY <1>4 DEF SeedBet, OneSeeder
  <2>2. open'[o] \subseteq [key: Key, batch: {batches}]
    BY <1>4, <2>1 DEF SeedBet, TypeOK
  <2>3. TypeOK'
    BY <1>4, <2>1 DEF SeedBet, TypeOK, Seed
  <2>4. MigrationsAreExact' /\ BatchIsWhole' /\ DoneIsUpToDate'
    BY <1>4 DEF SeedBet, MigrationsAreExact, BatchIsWhole, DoneIsUpToDate
  <2>5. OneSeeder'
    BY <1>4, <2>1, <2>2 DEF SeedBet, OneSeeder, Seeding, TypeOK
  <2> QED BY <2>3, <2>4, <2>5
<1>5. CASE CommitSeeds(o)
  <2>1. /\ pc[o] = "seed" /\ batches \in 1 .. MaxBatches /\ seeds = {}
        /\ open[o] \subseteq [key: Key, batch: {batches}]
        /\ {s.key : s \in open[o]} = Key
    BY <1>5 DEF CommitSeeds, OneSeeder
  <2>2. open[o] = [key: Key, batch: {batches}]
    <3>1. ASSUME NEW s \in [key: Key, batch: {batches}]
          PROVE  s \in open[o]
      <4>1. PICK t \in open[o] : t.key = s.key
        BY <2>1
      <4>2. t \in [key: Key, batch: {batches}]
        BY <2>1
      <4>3. t = s
        BY <4>1, <4>2
      <4> QED BY <4>3
    <3> QED BY <2>1, <3>1
  <2>3. seeds' = [key: Key, batch: {batches}]
    BY <1>5, <2>1, <2>2 DEF CommitSeeds
  <2>4. TypeOK'
    BY <1>5, <2>1, <2>3 DEF CommitSeeds, TypeOK, Seed, Stopped
  <2>5. BatchIsWhole'
    BY <2>1, <2>3 DEF BatchIsWhole
  <2>6. MigrationsAreExact' /\ DoneIsUpToDate'
    BY <1>5 DEF CommitSeeds, MigrationsAreExact, DoneIsUpToDate, TypeOK
  <2>7. OneSeeder'
    BY <1>5 DEF CommitSeeds, OneSeeder, Seeding, TypeOK
  <2> QED BY <2>4, <2>5, <2>6, <2>7
<1> QED BY <1>1, <1>2, <1>3, <1>4, <1>5, StopInv

LEMMA Invariance == Spec => []Inv
<1>1. ASSUME Inv, [Next]_vars
      PROVE  Inv'
  <2>1. CASE UNCHANGED vars
    BY <1>1, <2>1 DEF vars, Inv, TypeOK, MigrationsAreExact, DoneIsUpToDate,
       BatchIsWhole, OneSeeder, Seeding
  <2>2. ASSUME NEW o \in Operator, Dies(o)
        PROVE  Inv'
    BY <1>1, <2>2, StopInv DEF Dies
  <2> QED BY <1>1, <2>1, <2>2, MigrationInv, SeedInv DEF Next
<1> QED BY <1>1, InitInv, PTL DEF Spec

-----------------------------------------------------------------------------
\* What the scripts and the two tables hold stays of its type: nothing is recorded
\* that is not a migration file, and no batch is numbered beyond the last.
THEOREM TypeCorrect == Spec => []TypeOK
<1>1. Inv => TypeOK
  BY DEF Inv
<1> QED BY <1>1, Invariance, PTL

\* Every migration file takes effect once if it is recorded and never otherwise,
\* and no file is recorded before an earlier one, for any number of files and of
\* overlapping and dying runs of migrate.py.
THEOREM MigrationsExact == Spec => []MigrationsAreExact
<1>1. Inv => MigrationsAreExact
  BY DEF Inv
<1> QED BY <1>1, Invariance, PTL

\* A run of migrate.py only passes over files that are recorded.
THEOREM DoneUpToDate == Spec => []DoneIsUpToDate
<1>1. Inv => DoneIsUpToDate
  BY DEF Inv
<1> QED BY <1>1, Invariance, PTL

\* The table of bets holds no demo bet or all of one batch, wherever
\* seed_demo.py dies.
THEOREM BatchesWhole == Spec => []BatchIsWhole
<1>1. Inv => BatchIsWhole
  BY DEF Inv
<1> QED BY <1>1, Invariance, PTL
=============================================================================
