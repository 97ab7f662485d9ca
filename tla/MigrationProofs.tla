-------------------------- MODULE MigrationProofs --------------------------
(***************************************************************************)
(* Theorems about Migration, for any processes, binaries and number of     *)
(* mishaps.  The invariants of Migration hold because of what a process    *)
(* has in hand between the reading of schema_migration and its commits,    *)
(* and that is what InHand adds to them.                                   *)
(***************************************************************************)
EXTENDS Migration, TLAPS

\* Between the reading of schema_migration and the last commit every file of
\* the binary is applied or still to be done.
Working == {"apply", "execute", "record", "commit"}

HasRead(q) ==
    /\ q.seen \subseteq Versions(q.binary)
    /\ \A file \in q.binary : file \in q.pending \/ file.version \in applied

\* The file in the transaction is one that was to be done, and it is new at
\* the moment of the commit, although "applied" was read long before.
InHand ==
    \A p \in Processes :
        /\ process[p].pc \in Working => HasRead(process[p])
        /\ process[p].pc = "commit" => process[p].file.version \notin applied

IInv == TypeOK /\ RecordedIsDone /\ NeverHalfMigrated /\ InHand

-----------------------------------------------------------------------------
\* Appending a version adds it to the scripts in effect (applyMigration).
LEMMA AppendRange ==
    ASSUME NEW s \in Seq(Nat), NEW v \in Nat
    PROVE  /\ Append(s, v) \in Seq(Nat)
           /\ Range(Append(s, v)) = Range(s) \cup {v}
           /\ IsInjective(s) /\ v \notin Range(s) => IsInjective(Append(s, v))
<1> DEFINE t == Append(s, v)
<1>1. /\ t \in Seq(Nat) /\ Len(t) = Len(s) + 1 /\ DOMAIN t = 1 .. Len(s) + 1
      /\ DOMAIN s = 1 .. Len(s) /\ Len(s) \in Nat
      /\ \A i \in 1 .. Len(s) : t[i] = s[i]
      /\ t[Len(s) + 1] = v
  OBVIOUS
<1>2. Range(t) = Range(s) \cup {v}
  <2>1. ASSUME NEW x \in Range(t) PROVE x \in Range(s) \cup {v}
    <3>1. PICK i \in DOMAIN t : t[i] = x
      BY <2>1 DEF Range
    <3>2. i \in 1 .. Len(s) \/ i = Len(s) + 1
      BY <1>1
    <3> QED BY <1>1, <3>1, <3>2 DEF Range
  <2>2. ASSUME NEW x \in Range(s) PROVE x \in Range(t)
    <3>1. PICK i \in DOMAIN s : s[i] = x
      BY <2>2 DEF Range
    <3>2. i \in DOMAIN t /\ t[i] = x
      BY <1>1, <3>1
    <3> QED BY <3>2 DEF Range
  <2>3. v \in Range(t)
    <3>1. Len(s) + 1 \in DOMAIN t
      BY <1>1
    <3> QED BY <1>1, <3>1 DEF Range
  <2> QED BY <2>1, <2>2, <2>3
<1>3. ASSUME IsInjective(s), v \notin Range(s) PROVE IsInjective(t)
  <2> SUFFICES ASSUME NEW i \in DOMAIN t, NEW j \in DOMAIN t, t[i] = t[j] PROVE i = j
    BY DEF IsInjective
  <2>1. \A k \in 1 .. Len(s) : s[k] # v
    BY <1>1, <1>3 DEF Range
  <2>2. CASE i \in 1 .. Len(s) /\ j \in 1 .. Len(s)
    BY <1>1, <1>3, <2>2 DEF IsInjective
  <2>3. CASE i = Len(s) + 1 \/ j = Len(s) + 1
    BY <1>1, <2>1, <2>3
  <2> QED BY <1>1, <2>2, <2>3
<1> HIDE DEF t
<1> QED BY <1>1, <1>2, <1>3 DEF t

\* A prefix of distinct scripts holds distinct ones (PowerFailure).
LEMMA PrefixInjective ==
    ASSUME NEW s \in Seq(Nat), NEW n \in 0 .. Len(s), IsInjective(s)
    PROVE  /\ SubSeq(s, 1, n) \in Seq(Nat)
           /\ Range(SubSeq(s, 1, n)) \subseteq Nat
           /\ IsInjective(SubSeq(s, 1, n))
<1> DEFINE t == SubSeq(s, 1, n)
<1>1. /\ t \in Seq(Nat) /\ DOMAIN t = 1 .. n /\ DOMAIN s = 1 .. Len(s) /\ Len(s) \in Nat
      /\ \A i \in 1 .. n : t[i] = s[i]
  OBVIOUS
<1> HIDE DEF t
<1>2. IsInjective(t)
  BY <1>1 DEF IsInjective
<1>3. Range(t) \subseteq Nat
  BY <1>1 DEF Range
<1> QED BY <1>1, <1>2, <1>3 DEF t

\* A process that has failed or crashed has nothing in hand.
LEMMA DownIsIdle ==
    /\ Down.pc = "down" /\ Down.binary = {} /\ Down.seen = {} /\ Down.pending = {}
    /\ Down.file \in File
  BY DEF Down, NoFile, File

\* What a process may have in hand, its releases not yet related to the rest.
InHandType == [pc : Starting \cup {"down", "serving"}, binary : Binaries \cup {{}},
               seen : SUBSET Nat, pending : SUBSET File, file : File]

\* A step of one process that leaves the database alone keeps the invariant if
\* what it has in hand afterwards is right: every step but Commit, Crash and
\* PowerFailure.
LEMMA StepKeeps ==
    ASSUME IInv, NEW p \in Processes, NEW q \in InHandType,
           Goes(p, q), UNCHANGED <<applied, schema>>,
           mishaps' \in 0 .. MaxMishaps,
           \/ writer' = writer /\ (q.pc \in Writing) = (process[p].pc \in Writing)
           \/ writer' = p /\ writer = Nobody /\ q.pc \in Writing
           \/ writer' = Nobody /\ writer = p /\ q.pc \notin Writing,
           q.pc \in Working => HasRead(q),
           q.pc = "commit" => q.file.version \notin applied,
           q.pc = "serving" => /\ q.seen \subseteq Versions(q.binary)
                               /\ Versions(q.binary) \subseteq applied
    PROVE  IInv'
<1> USE DEF IInv
<1>1. process \in [Processes -> InHandType] /\ process' = [process EXCEPT ![p] = q]
  BY DEF TypeOK, Goes, InHandType
<1>2. process' \in [Processes -> InHandType] /\ process'[p] = q
      /\ \A r \in Processes : r # p => process'[r] = process[r]
  BY <1>1
<1>3. TypeOK'
  <2>1. \A r \in Processes : (process'[r].pc \in Writing) = (writer' = r)
    <3> SUFFICES ASSUME NEW r \in Processes PROVE (process'[r].pc \in Writing) = (writer' = r)
      OBVIOUS
    <3>1. (process[r].pc \in Writing) = (writer = r) /\ (process[p].pc \in Writing) = (writer = p)
      BY DEF TypeOK
    <3>2. r # Nobody /\ p # Nobody
      BY MigrationAssumption
    <3>3. CASE r = p
      BY <1>2, <3>1, <3>2, <3>3
    <3>4. CASE r # p
      BY <1>2, <3>1, <3>2, <3>4
    <3> QED BY <3>3, <3>4
  <2> QED BY <1>2, <2>1 DEF TypeOK, InHandType
<1>4. RecordedIsDone'
  BY DEF RecordedIsDone
<1>5. NeverHalfMigrated'
  BY <1>2 DEF NeverHalfMigrated, At
<1>6. InHand'
  BY <1>2 DEF InHand, HasRead
<1> QED BY <1>3, <1>4, <1>5, <1>6

\* A start that fails leaves nothing behind.
LEMMA FailsKeeps == ASSUME IInv, NEW p \in Processes, Fails(p) PROVE IInv'
<1>1. Down \in InHandType /\ Down.pc = "down"
  BY DownIsIdle DEF Down, InHandType, NoFile, File
<1>2. (process[p].pc \in Writing) = (writer = p)
  BY DEF IInv, TypeOK
<1>3. \/ writer' = writer /\ (Down.pc \in Writing) = (process[p].pc \in Writing)
      \/ writer' = Nobody /\ writer = p /\ Down.pc \notin Writing
  BY <1>1, <1>2 DEF Fails, Writing
<1> QED BY <1>1, <1>3, StepKeeps DEF Fails, Working, IInv, TypeOK

-----------------------------------------------------------------------------
\* The invariant holds before anything was started.
LEMMA InitInv == Init => IInv
<1> SUFFICES ASSUME Init PROVE IInv
  OBVIOUS
<1>1. \A p \in Processes : process[p] = Down
  BY DEF Init
<1>2. TypeOK
  BY <1>1, DownIsIdle, MigrationAssumption DEF Init, TypeOK, Down, NoFile, File, Writing, Starting
<1>3. RecordedIsDone
  BY DEF Init, RecordedIsDone, Range, IsInjective
<1>4. NeverHalfMigrated /\ InHand
  BY <1>1, DownIsIdle DEF NeverHalfMigrated, InHand, At, Working
<1> QED BY <1>2, <1>3, <1>4 DEF IInv

\* The steps before the first transaction, and Begin.
LEMMA ReadingKeeps ==
    ASSUME IInv, NEW p \in Processes,
           \/ \E binary \in Binaries : Start(p, binary)
           \/ CreateTable(p) \/ ReadApplied(p) \/ Begin(p) \/ GiveUp(p)
    PROVE  IInv'
<1>0. /\ process[p] \in InHandType
      /\ (process[p].pc \in Writing) = (writer = p)
      /\ mishaps \in 0 .. MaxMishaps
      /\ process[p].pc \in Working => HasRead(process[p])
      /\ p # Nobody
      /\ applied \subseteq Nat
  BY MigrationAssumption DEF IInv, TypeOK, InHandType, InHand
<1>1. ASSUME NEW binary \in Binaries, Start(p, binary) PROVE IInv'
  <2> DEFINE q == [Down EXCEPT !.pc = "create", !.binary = binary]
  <2>1. q \in InHandType /\ q.pc = "create"
    BY DownIsIdle DEF Down, InHandType, NoFile, File, Starting
  <2>2. Goes(p, q) /\ UNCHANGED <<applied, schema, writer, mishaps>> /\ process[p].pc = "down"
    BY <1>1 DEF Start, At
  <2> HIDE DEF q
  <2> QED BY <1>0, <2>1, <2>2, StepKeeps DEF Writing, Working
<1>2. CASE CreateTable(p)
  <2>1. CASE Fails(p)
    BY <2>1, FailsKeeps
  <2>2. CASE ~Fails(p)
    <3> DEFINE q == [process[p] EXCEPT !.pc = "read"]
    <3>1. q \in InHandType /\ q.pc = "read"
      BY <1>0 DEF InHandType, Starting
    <3>2. Goes(p, q) /\ UNCHANGED <<applied, schema, writer, mishaps>> /\ process[p].pc = "create"
      BY <1>2, <2>2 DEF CreateTable, At
    <3> HIDE DEF q
    <3> QED BY <1>0, <3>1, <3>2, StepKeeps DEF Writing, Working
  <2> QED BY <2>1, <2>2
<1>3. CASE ReadApplied(p)
  <2>1. CASE Fails(p)
    BY <2>1, FailsKeeps
  <2>2. CASE ~Fails(p)
    <3> DEFINE files == process[p].binary
               todo  == {file \in files : file.version \notin applied}
               q     == [process[p] EXCEPT !.pc = "apply", !.seen = applied, !.pending = todo]
    <3>1. files \subseteq File
      BY <1>0, MigrationAssumption DEF InHandType
    <3>2. q \in InHandType /\ q.pc = "apply" /\ q.seen = applied /\ q.pending = todo
          /\ q.binary = files
      BY <1>0, <3>1 DEF InHandType, Starting
    <3>3. /\ Goes(p, q) /\ UNCHANGED <<applied, schema, writer, mishaps>>
          /\ process[p].pc = "read" /\ unknownVersions(applied, files) = {}
      BY <1>3, <2>2 DEF ReadApplied, At
    <3>4. HasRead(q)
      BY <3>2, <3>3 DEF HasRead, unknownVersions
    <3> HIDE DEF q
    <3> QED BY <1>0, <3>2, <3>3, <3>4, StepKeeps DEF Writing
  <2> QED BY <2>1, <2>2
<1>4. CASE Begin(p)
  <2>1. PICK file \in process[p].pending :
          Goes(p, [process[p] EXCEPT !.pc = "execute", !.file = file])
    BY <1>4 DEF Begin
  <2> DEFINE q == [process[p] EXCEPT !.pc = "execute", !.file = file]
  <2>2. q \in InHandType /\ q.pc = "execute" /\ q.seen = process[p].seen
        /\ q.pending = process[p].pending /\ q.binary = process[p].binary
    BY <1>0 DEF InHandType, Starting
  <2>3. Goes(p, q) /\ UNCHANGED <<applied, schema, mishaps>> /\ process[p].pc = "apply"
        /\ writer = Nobody /\ writer' = p
    BY <1>4, <2>1 DEF Begin, At
  <2>4. HasRead(q)
    BY <1>0, <2>2, <2>3 DEF HasRead, Working
  <2> HIDE DEF q
  <2> QED BY <1>0, <2>2, <2>3, <2>4, StepKeeps DEF Writing
<1>5. CASE GiveUp(p)
  BY <1>5, FailsKeeps DEF GiveUp
<1> QED BY <1>1, <1>2, <1>3, <1>4, <1>5

\* Inside the transaction, up to its commit.
LEMMA WritingKeeps ==
    ASSUME IInv, NEW p \in Processes, ExecuteScript(p) \/ RecordMigration(p)
    PROVE  IInv'
<1>0. /\ process[p] \in InHandType
      /\ mishaps \in 0 .. MaxMishaps
      /\ process[p].pc \in Working => HasRead(process[p])
  BY DEF IInv, TypeOK, InHandType, InHand
<1>1. CASE Fails(p)
  BY <1>1, FailsKeeps
<1>2. CASE ~Fails(p)
  <2>1. CASE ExecuteScript(p)
    <3> DEFINE q == [process[p] EXCEPT !.pc = "record"]
    <3>1. q \in InHandType /\ q.pc = "record" /\ q.seen = process[p].seen
          /\ q.pending = process[p].pending /\ q.binary = process[p].binary
      BY <1>0 DEF InHandType, Starting
    <3>2. Goes(p, q) /\ UNCHANGED <<applied, schema, writer, mishaps>> /\ process[p].pc = "execute"
      BY <1>2, <2>1 DEF ExecuteScript, At
    <3>3. HasRead(q)
      BY <1>0, <3>1, <3>2 DEF HasRead, Working
    <3> HIDE DEF q
    <3> QED BY <1>0, <3>1, <3>2, <3>3, StepKeeps DEF Writing
  <2>2. CASE RecordMigration(p)
    <3> DEFINE q == [process[p] EXCEPT !.pc = "commit"]
    <3>1. q \in InHandType /\ q.pc = "commit" /\ q.seen = process[p].seen /\ q.file = process[p].file
          /\ q.pending = process[p].pending /\ q.binary = process[p].binary
      BY <1>0 DEF InHandType, Starting
    <3>2. /\ Goes(p, q) /\ UNCHANGED <<applied, schema, writer, mishaps>>
          /\ process[p].pc = "record" /\ q.file.version \notin applied
      BY <1>2, <2>2, <3>1 DEF RecordMigration, At
    <3>3. HasRead(q)
      BY <1>0, <3>1, <3>2 DEF HasRead, Working
    <3> HIDE DEF q
    <3> QED BY <1>0, <3>1, <3>2, <3>3, StepKeeps DEF Writing
  <2> QED BY <2>1, <2>2
<1> QED BY <1>1, <1>2

\* The commit: the version is new, because only the writer commits and the
\* primary key was asked under the same lock.
LEMMA CommitKeeps == ASSUME IInv, NEW p \in Processes, Commit(p) PROVE IInv'
<1> DEFINE file == process[p].file
           q    == [process[p] EXCEPT !.pc = "apply", !.pending = @ \ {file}, !.file = NoFile]
<1>0. /\ process \in [Processes -> InHandType]
      /\ \A r \in Processes : (process[r].pc \in Writing) = (writer = r)
      /\ \A r \in Processes : process[r].pc \in Working => HasRead(process[r])
      /\ p # Nobody
      /\ applied \subseteq Nat /\ schema \in Seq(Nat)
      /\ applied = Range(schema) /\ IsInjective(schema)
  BY MigrationAssumption DEF IInv, TypeOK, InHandType, InHand, RecordedIsDone
<1>1. /\ process[p].pc = "commit" /\ process' = [process EXCEPT ![p] = q]
      /\ applied' = applied \cup {file.version} /\ schema' = Append(schema, file.version)
      /\ writer' = Nobody /\ mishaps' = mishaps
  BY DEF Commit, At, Goes
<1>2. /\ q \in InHandType /\ q.pc = "apply" /\ q.seen = process[p].seen
      /\ q.pending = process[p].pending \ {file} /\ q.binary = process[p].binary
  <2>1. NoFile \in File /\ process[p] \in InHandType /\ process[p].pending \ {file} \in SUBSET File
    BY <1>0 DEF NoFile, File, InHandType
  <2>2. q = [process[p] EXCEPT !.pc = "apply", !.pending = process[p].pending \ {file},
                               !.file = NoFile]
    BY <2>1 DEF InHandType
  <2> QED BY <2>1, <2>2 DEF InHandType, Starting
<1>3. /\ process' \in [Processes -> InHandType] /\ process'[p] = q
      /\ \A r \in Processes : r # p => process'[r] = process[r]
  BY <1>0, <1>1, <1>2
<1>4. file.version \in Nat /\ file.version \notin applied /\ writer = p
  BY <1>0, <1>1 DEF InHandType, File, IInv, InHand, Writing
<1>5. /\ schema' \in Seq(Nat) /\ Range(schema') = applied' /\ IsInjective(schema')
      /\ applied' \subseteq Nat
  BY <1>0, <1>1, <1>4, AppendRange
<1> HIDE DEF q, file
<1>6. TypeOK'
  <2>1. \A r \in Processes : (process'[r].pc \in Writing) = (writer' = r)
    BY <1>0, <1>1, <1>2, <1>3, <1>4, MigrationAssumption DEF Writing
  <2> QED BY <1>1, <1>3, <1>5, <2>1 DEF TypeOK, InHandType, IInv
<1>7. RecordedIsDone'
  BY <1>5 DEF RecordedIsDone
<1>8. NeverHalfMigrated'
  BY <1>1, <1>2, <1>3 DEF IInv, NeverHalfMigrated, At
<1>9. InHand'
  <2> SUFFICES ASSUME NEW r \in Processes
               PROVE  /\ process'[r].pc \in Working => HasRead(process[r])'
                      /\ process'[r].pc = "commit" => process'[r].file.version \notin applied'
    BY DEF InHand
  <2>1. CASE r = p
    <3>1. HasRead(process[p])
      BY <1>0, <1>1 DEF Working
    <3>2. ASSUME NEW f \in q.binary PROVE f \in q.pending \/ f.version \in applied'
      BY <1>1, <1>2, <3>1, <3>2 DEF HasRead
    <3> QED BY <1>2, <1>3, <2>1, <3>1, <3>2 DEF HasRead
  <2>2. CASE r # p
    <3>1. process'[r] = process[r] /\ process[r].pc # "commit"
      BY <1>0, <1>3, <1>4, <2>2 DEF Writing
    <3> QED BY <1>0, <1>1, <3>1 DEF HasRead
  <2> QED BY <2>1, <2>2
<1> QED BY <1>6, <1>7, <1>8, <1>9 DEF IInv

\* A binary with nothing left to do has every migration applied.
LEMMA ListenKeeps == ASSUME IInv, NEW p \in Processes, Listen(p) PROVE IInv'
<1> DEFINE q == [process[p] EXCEPT !.pc = "serving"]
<1>0. /\ process[p] \in InHandType /\ process[p].pc = "apply" /\ process[p].pending = {}
      /\ mishaps \in 0 .. MaxMishaps
      /\ HasRead(process[p])
  BY DEF IInv, TypeOK, InHandType, InHand, Listen, At, Working
<1>1. q \in InHandType /\ q.pc = "serving" /\ q.seen = process[p].seen
      /\ q.binary = process[p].binary
  BY <1>0 DEF InHandType
<1>2. Goes(p, q) /\ UNCHANGED <<applied, schema, writer, mishaps>>
  BY DEF Listen
<1>3. q.seen \subseteq Versions(q.binary) /\ Versions(q.binary) \subseteq applied
  BY <1>0, <1>1 DEF HasRead, Versions
<1> HIDE DEF q
<1> QED BY <1>0, <1>1, <1>2, <1>3, StepKeeps DEF Writing, Working

\* A crash is a start that fails, or a server that stops, unannounced.
LEMMA CrashKeeps == ASSUME IInv, NEW p \in Processes, Crash(p) PROVE IInv'
<1>1. Down \in InHandType /\ Down.pc = "down"
  BY DownIsIdle DEF Down, InHandType, NoFile, File
<1>2. (process[p].pc \in Writing) = (writer = p)
  BY DEF IInv, TypeOK
<1>3. \/ writer' = writer /\ (Down.pc \in Writing) = (process[p].pc \in Writing)
      \/ writer' = Nobody /\ writer = p /\ Down.pc \notin Writing
  BY <1>1, <1>2 DEF Crash, Writing
<1>4. mishaps' \in 0 .. MaxMishaps
  BY MigrationAssumption DEF Crash, IInv, TypeOK
<1> QED BY <1>1, <1>3, <1>4, StepKeeps DEF Crash, Working

\* What a power failure leaves is what there was after some commit.
LEMMA PowerFailureKeeps == ASSUME IInv, PowerFailure PROVE IInv'
<1>1. PICK kept \in 0 .. Len(schema) :
        schema' = SubSeq(schema, 1, kept) /\ applied' = Range(schema')
  BY DEF PowerFailure
<1>2. /\ writer' = Nobody /\ process' = [p \in Processes |-> Down]
      /\ mishaps' \in 0 .. MaxMishaps
  BY MigrationAssumption DEF PowerFailure, IInv, TypeOK
<1>3. schema' \in Seq(Nat) /\ applied' \subseteq Nat /\ IsInjective(schema')
  BY <1>1, PrefixInjective DEF IInv, TypeOK, RecordedIsDone
<1>4. \A p \in Processes : process'[p] = Down
  BY <1>2
<1>5. TypeOK'
  BY <1>2, <1>3, <1>4, DownIsIdle, MigrationAssumption DEF TypeOK, Down, NoFile, File, Writing
<1>6. RecordedIsDone'
  BY <1>1, <1>3 DEF RecordedIsDone
<1>7. NeverHalfMigrated' /\ InHand'
  BY <1>4, DownIsIdle DEF NeverHalfMigrated, InHand, At, Working
<1> QED BY <1>5, <1>6, <1>7 DEF IInv

\* Every step keeps the invariant.
LEMMA NextKeeps == IInv /\ [Next]_vars => IInv'
<1> SUFFICES ASSUME IInv, [Next]_vars PROVE IInv'
  OBVIOUS
<1>1. CASE PowerFailure
  BY <1>1, PowerFailureKeeps
<1>2. ASSUME NEW p \in Processes, NEW binary \in Binaries, Start(p, binary) PROVE IInv'
  BY <1>2, ReadingKeeps
<1>3. ASSUME NEW p \in Processes, MigrationStep(p) PROVE IInv'
  BY <1>3, ReadingKeeps, WritingKeeps, CommitKeeps, ListenKeeps DEF MigrationStep
<1>4. ASSUME NEW p \in Processes, Stop(p) PROVE IInv'
  BY <1>4, FailsKeeps DEF Stop
<1>5. ASSUME NEW p \in Processes, Crash(p) PROVE IInv'
  BY <1>5, CrashKeeps
<1>6. CASE UNCHANGED vars
  BY <1>6 DEF vars, IInv, TypeOK, RecordedIsDone, NeverHalfMigrated, InHand, HasRead, At
<1> QED BY <1>1, <1>2, <1>3, <1>4, <1>5, <1>6 DEF Next

\* The invariant holds throughout.
LEMMA InvariantHolds == Spec => []IInv
  BY InitInv, NextKeeps, PTL DEF Spec

-----------------------------------------------------------------------------
\* Every row, process and lock has its type; in particular one process at a
\* time is in a write transaction (BEGIN IMMEDIATE).
THEOREM MigrationTyped == Spec => []TypeOK
<1>1. IInv => TypeOK
  BY DEF IInv
<1> QED BY <1>1, InvariantHolds, PTL

\* A version is recorded exactly if its script took effect, and once, through
\* any crashes, power failures and concurrent starts (applyMigration).
THEOREM RecordedAlwaysDone == Spec => []RecordedIsDone
<1>1. IInv => RecordedIsDone
  BY DEF IInv
<1> QED BY <1>1, InvariantHolds, PTL

\* A serving process has all of its migrations applied, and knew every version
\* the database had when it started (main runs Migrate before it listens).
THEOREM NeverServesHalf == Spec => []NeverHalfMigrated
<1>1. IInv => NeverHalfMigrated
  BY DEF IInv
<1> QED BY <1>1, InvariantHolds, PTL

-----------------------------------------------------------------------------
(* The order of the scripts.                                               *)

\* Releases grow at the end: what one has before a version of another, the
\* other has as well.
GrowAtTheEnd ==
    \A older, newer \in Binaries : Readable(older) /\ Readable(newer) =>
        \A v \in Versions(older), w \in Versions(newer) : w < v => w \in Versions(older)

\* Nothing a release would have done first is left out.
Gapless ==
    \A binary \in Binaries : Readable(binary) =>
        \A v \in applied, w \in Versions(binary) : w < v => w \in applied

\* A script takes effect after every earlier one of its release, and once.
OneScriptMore(binary, file) ==
    /\ Readable(binary) /\ file \in binary /\ file.sound
    /\ file.version \notin Range(schema)
    /\ \A other \in binary : other.version < file.version => other.version \in Range(schema)
    /\ schema' = Append(schema, file.version)

\* The schema changes by one script more, or it loses its end.
SchemaGrowsByReleases ==
    [][\/ \E binary \in Binaries : \E file \in binary : OneScriptMore(binary, file)
       \/ \E kept \in 0 .. Len(schema) : schema' = SubSeq(schema, 1, kept)]_schema

\* What is being executed runs, and comes first of what a readable release has to do.
NextInHand(q) ==
    /\ q.pc \in Working \cup {"read"} => q.binary \in Binaries /\ Readable(q.binary)
    /\ q.pc \in Working => q.pending \subseteq q.binary
    /\ q.pc \in Writing => q.file \in q.pending /\ IsFirst(q.file, q.pending)
    /\ q.pc \in {"record", "commit"} => q.file.sound

Prepared == \A p \in Processes : NextInHand(process[p])

OrderInv == InVersionOrder /\ Gapless /\ Prepared

\* A step of one process that leaves the database alone.
LEMMA QuietKeepsPrepared ==
    ASSUME TypeOK, Prepared, NEW p \in Processes, NEW q, Goes(p, q), NextInHand(q),
           UNCHANGED <<applied, schema>>
    PROVE  Prepared' /\ UNCHANGED <<applied, schema>>
<1>1. \A r \in Processes : process'[r] = IF r = p THEN q ELSE process[r]
  BY DEF TypeOK, Goes
<1>2. \A r \in Processes : NextInHand(process'[r])
  BY <1>1 DEF Prepared
<1> QED
  BY <1>2 DEF Prepared, NextInHand

\* A process that is down has nothing in hand.
LEMMA DownIsPrepared == NextInHand(Down)
  BY DownIsIdle DEF NextInHand, Working, Writing

\* Every step of one process but its commit.
LEMMA BeforeCommit ==
    ASSUME IInv, Prepared, NEW p \in Processes,
           \/ \E binary \in Binaries : Start(p, binary)
           \/ CreateTable(p) \/ ReadApplied(p) \/ Begin(p) \/ GiveUp(p)
           \/ ExecuteScript(p) \/ RecordMigration(p) \/ Listen(p) \/ Stop(p) \/ Crash(p)
    PROVE  Prepared' /\ UNCHANGED <<applied, schema>>
<1> DEFINE old == process[p]
           Kept == Prepared' /\ UNCHANGED <<applied, schema>>
<1>0. TypeOK /\ old \in InHandType /\ NextInHand(old)
  BY DEF IInv, TypeOK, InHandType, Prepared
<1>1. ASSUME Goes(p, Down), UNCHANGED <<applied, schema>> PROVE Kept
  BY <1>0, <1>1, DownIsPrepared, QuietKeepsPrepared
<1>2. ASSUME Fails(p) PROVE Kept
  BY <1>1, <1>2 DEF Fails
<1>3. ASSUME NEW binary \in Binaries, Start(p, binary) PROVE Kept
  <2> DEFINE q == [Down EXCEPT !.pc = "create", !.binary = binary]
  <2>1. q.pc = "create"
    BY DEF Down
  <2>2. NextInHand(q)
    BY <2>1 DEF NextInHand, Working, Writing
  <2> QED
    BY <1>0, <1>3, <2>2, QuietKeepsPrepared DEF Start
<1>4. ASSUME NEW pc \in {"read", "record", "commit", "serving"},
             Goes(p, [old EXCEPT !.pc = pc]), UNCHANGED <<applied, schema>>,
             NextInHand([old EXCEPT !.pc = pc])
      PROVE  Kept
  BY <1>0, <1>4, QuietKeepsPrepared
<1>5. ASSUME CreateTable(p), ~Fails(p) PROVE Kept
  <2> DEFINE q == [old EXCEPT !.pc = "read"]
  <2>1. q.pc = "read" /\ q.binary = old.binary
    BY <1>0 DEF InHandType
  <2>2. Readable(old.binary) /\ old.binary \in Binaries
    BY <1>0, <1>5 DEF CreateTable, Readable, InHandType
  <2>3. NextInHand(q)
    BY <2>1, <2>2 DEF NextInHand, Working, Writing
  <2> QED
    BY <1>4, <1>5, <2>3 DEF CreateTable
<1>6. ASSUME ReadApplied(p), ~Fails(p) PROVE Kept
  <2> DEFINE todo == {file \in old.binary : file.version \notin applied}
             q == [old EXCEPT !.pc = "apply", !.seen = applied, !.pending = todo]
  <2>1. q.pc = "apply" /\ q.binary = old.binary /\ q.pending = todo
    BY <1>0 DEF InHandType
  <2>2. Readable(old.binary) /\ old.binary \in Binaries
    BY <1>0, <1>6 DEF ReadApplied, At, NextInHand
  <2>3. NextInHand(q)
    BY <2>1, <2>2 DEF NextInHand, Working, Writing
  <2> QED
    BY <1>0, <1>6, <2>3, QuietKeepsPrepared DEF ReadApplied
<1>7. ASSUME Begin(p) PROVE Kept
  <2>1. PICK file \in old.pending :
          IsFirst(file, old.pending) /\ Goes(p, [old EXCEPT !.pc = "execute", !.file = file])
    BY <1>7 DEF Begin
  <2> DEFINE q == [old EXCEPT !.pc = "execute", !.file = file]
  <2>2. q.pc = "execute" /\ q.binary = old.binary /\ q.pending = old.pending /\ q.file = file
    BY <1>0 DEF InHandType
  <2>3. old.pc = "apply"
    BY <1>7 DEF Begin, At
  <2>4. NextInHand(q)
    BY <1>0, <2>1, <2>2, <2>3 DEF NextInHand, Working
  <2> QED
    BY <1>0, <1>7, <2>1, <2>4, QuietKeepsPrepared DEF Begin
<1>8. ASSUME ExecuteScript(p) \/ RecordMigration(p), ~Fails(p) PROVE Kept
  <2>1. PICK pc \in {"record", "commit"} :
          /\ Goes(p, [old EXCEPT !.pc = pc]) /\ UNCHANGED <<applied, schema>>
          /\ old.file.sound
    BY <1>0, <1>8 DEF ExecuteScript, RecordMigration, At, NextInHand
  <2> DEFINE q == [old EXCEPT !.pc = pc]
  <2>2. q.pc = pc /\ q.binary = old.binary /\ q.pending = old.pending /\ q.file = old.file
    BY <1>0 DEF InHandType
  <2>3. old.pc \in {"execute", "record"}
    BY <1>8 DEF ExecuteScript, RecordMigration, At
  <2>4. NextInHand(q)
    BY <1>0, <2>1, <2>2, <2>3 DEF NextInHand, Working, Writing
  <2> QED
    BY <1>4, <2>1, <2>4
<1>9. ASSUME Listen(p) PROVE Kept
  <2>1. [old EXCEPT !.pc = "serving"].pc = "serving"
    BY <1>0 DEF InHandType
  <2>2. NextInHand([old EXCEPT !.pc = "serving"])
    BY <2>1 DEF NextInHand, Working, Writing
  <2> QED
    BY <1>4, <1>9, <2>2 DEF Listen
<1> QED
  BY <1>1, <1>2, <1>3, <1>5, <1>6, <1>7, <1>8, <1>9 DEF GiveUp, Stop, Crash

\* The commit: the process is prepared for the next script, and the one it
\* commits is new and the first its release lacks.
LEMMA CommitIsNext ==
    ASSUME IInv, Prepared, NEW p \in Processes, Commit(p)
    PROVE  LET binary == process[p].binary
               v == process[p].file.version
           IN  /\ binary \in Binaries /\ OneScriptMore(binary, process[p].file)
               /\ v \in Versions(binary) /\ v \in Nat /\ v \notin applied
               /\ applied' = applied \cup {v}
               /\ \A w \in Versions(binary) : w < v => w \in applied
               /\ Prepared'
<1> DEFINE old == process[p]
           file == old.file
           v == file.version
           q == [old EXCEPT !.pc = "apply", !.pending = @ \ {file}, !.file = NoFile]
<1>1. /\ old \in InHandType /\ old.pc = "commit" /\ Goes(p, q)
      /\ applied' = applied \cup {v} /\ schema' = Append(schema, v)
  BY DEF Commit, At, IInv, TypeOK, InHandType
<1>2. /\ old.binary \in Binaries /\ Readable(old.binary) /\ old.pending \subseteq old.binary
      /\ file \in old.pending /\ IsFirst(file, old.pending) /\ HasRead(old) /\ v \notin applied
      /\ file.sound
  BY <1>1 DEF Prepared, NextInHand, Working, Writing, IInv, InHand
<1>3. /\ v \in Nat /\ v \in Versions(old.binary) /\ applied = Range(schema)
      /\ \A other \in old.pending : other.version \in Nat
  BY <1>1, <1>2 DEF InHandType, File, Versions, IInv, RecordedIsDone
<1>4. ASSUME NEW w \in Versions(old.binary), w < v PROVE w \in applied
  <2>1. PICK other \in old.binary : other.version = w
    BY <1>4 DEF Versions
  <2>2. other \notin old.pending
    BY <1>2, <1>3, <1>4, <2>1 DEF IsFirst
  <2> QED
    BY <1>2, <2>1, <2>2 DEF HasRead
<1>5. OneScriptMore(old.binary, file)
  BY <1>1, <1>2, <1>3, <1>4 DEF OneScriptMore, Versions
<1>6. NextInHand(q)
  <2>1. q = [old EXCEPT !.pc = "apply", !.pending = old.pending \ {file}, !.file = NoFile]
    BY <1>1 DEF InHandType
  <2>2. q.pc = "apply" /\ q.binary = old.binary /\ q.pending \subseteq old.pending
    BY <1>1, <2>1 DEF InHandType
  <2> HIDE DEF q
  <2> QED
    BY <1>2, <2>2 DEF NextInHand, Working, Writing
<1>7. \A r \in Processes : process'[r] = IF r = p THEN q ELSE process[r]
  BY <1>1 DEF Goes, IInv, TypeOK
<1> HIDE DEF q
<1>8. Prepared'
  BY <1>6, <1>7 DEF Prepared, NextInHand
<1> QED
  BY <1>1, <1>2, <1>3, <1>4, <1>5, <1>8

\* The commit: whatever comes before the script and is released anywhere, its
\* own release has too, and has done.
LEMMA CommitKeepsOrder ==
    ASSUME GrowAtTheEnd, IInv, OrderInv, NEW p \in Processes, Commit(p)
    PROVE  OrderInv'
<1> DEFINE old == process[p]
           v == old.file.version
<1>1. applied' = applied \cup {v} /\ schema' = Append(schema, v) /\ Prepared'
  BY CommitIsNext DEF OrderInv, OneScriptMore
<1>2. old.binary \in Binaries /\ Readable(old.binary) /\ v \notin applied
  BY CommitIsNext DEF OrderInv, OneScriptMore
<1>3. /\ v \in Nat /\ v \in Versions(old.binary) /\ applied \subseteq Nat
      /\ schema \in Seq(Nat) /\ applied = Range(schema)
  BY CommitIsNext DEF OrderInv, IInv, TypeOK, RecordedIsDone
<1>4. ASSUME NEW w \in Versions(old.binary), w < v PROVE w \in applied
  BY <1>4, CommitIsNext DEF OrderInv
<1> HIDE DEF v
<1>5. \A u \in applied : u < v
  <2> SUFFICES ASSUME NEW u \in applied, ~(u < v) PROVE FALSE
    OBVIOUS
  <2>1. v < u
    BY <1>2, <1>3
  <2> QED
    BY <1>2, <1>3, <2>1 DEF OrderInv, Gapless
<1>6. InVersionOrder'
  <2> DEFINE t == Append(schema, v)
  <2>1. /\ DOMAIN t = 1 .. Len(schema) + 1 /\ DOMAIN schema = 1 .. Len(schema)
        /\ Len(schema) \in Nat /\ t[Len(schema) + 1] = v
        /\ \A i \in 1 .. Len(schema) : t[i] = schema[i]
    BY <1>3
  <2>2. \A i \in 1 .. Len(schema) : schema[i] < v
    BY <1>3, <1>5, <2>1 DEF Range
  <2> HIDE DEF t
  <2>3. \A i, j \in DOMAIN t : i < j => t[i] < t[j]
    <3> SUFFICES ASSUME NEW i \in DOMAIN t, NEW j \in DOMAIN t, i < j PROVE t[i] < t[j]
      OBVIOUS
    <3>1. i \in 1 .. Len(schema) /\ (j \in 1 .. Len(schema) \/ j = Len(schema) + 1)
      BY <2>1
    <3> QED
      BY <2>1, <2>2, <3>1 DEF OrderInv, InVersionOrder
  <2> QED
    BY <1>1, <2>3 DEF InVersionOrder, t
<1>7. Gapless'
  <2> SUFFICES ASSUME NEW binary \in Binaries, Readable(binary), NEW u \in applied',
                      NEW w \in Versions(binary), w < u
               PROVE  w \in applied'
    BY DEF Gapless
  <2>1. CASE u \in applied
    BY <1>1, <2>1 DEF OrderInv, Gapless
  <2>2. CASE u = v
    <3>1. w \in Versions(old.binary)
      BY <1>2, <1>3, <2>2 DEF GrowAtTheEnd
    <3> QED
      BY <1>1, <1>4, <2>2, <3>1
  <2> QED
    BY <1>1, <2>1, <2>2
<1> QED
  BY <1>1, <1>6, <1>7 DEF OrderInv

\* Nobody is at work after a power failure.
LEMMA PowerFailurePrepares == ASSUME PowerFailure PROVE Prepared'
<1>1. \A p \in Processes : NextInHand(process'[p])
  BY DownIsPrepared DEF PowerFailure
<1> QED
  BY <1>1 DEF Prepared, NextInHand

\* What a power failure leaves has no gap either.
LEMMA PowerFailureKeepsOrder == ASSUME IInv, OrderInv, PowerFailure PROVE OrderInv'
<1>1. PICK kept \in 0 .. Len(schema) :
        schema' = SubSeq(schema, 1, kept) /\ applied' = Range(schema')
  BY DEF PowerFailure
<1>2. schema \in Seq(Nat) /\ applied = Range(schema) /\ Len(schema) \in Nat
  BY DEF IInv, TypeOK, RecordedIsDone
<1> DEFINE t == SubSeq(schema, 1, kept)
<1>3. /\ DOMAIN t = 1 .. kept /\ DOMAIN schema = 1 .. Len(schema)
      /\ \A i \in 1 .. kept : t[i] = schema[i] /\ i \in DOMAIN schema
  BY <1>1, <1>2
<1> HIDE DEF t
<1>4. \A i, j \in DOMAIN schema : i < j => schema[i] < schema[j]
  BY DEF OrderInv, InVersionOrder
<1>5. InVersionOrder'
  BY <1>1, <1>3, <1>4 DEF InVersionOrder, t
<1>6. Gapless'
  <2> SUFFICES ASSUME NEW binary \in Binaries, Readable(binary), NEW v \in Range(t),
                      NEW w \in Versions(binary), w < v
               PROVE  w \in Range(t)
    BY <1>1 DEF Gapless, t
  <2>1. PICK i \in 1 .. kept : v = schema[i]
    BY <1>3 DEF Range
  <2>2. v \in Range(schema)
    BY <1>3, <2>1 DEF Range
  <2>3. w \in Range(schema)
    BY <1>2, <2>2 DEF OrderInv, Gapless
  <2>4. PICK j \in DOMAIN schema : w = schema[j]
    BY <2>3 DEF Range
  <2>5. v \in Nat /\ w \in Nat /\ i \in DOMAIN schema
    BY <1>2, <1>3, <2>1, <2>4
  <2>6. j < i
    <3> SUFFICES ASSUME ~(j < i) PROVE FALSE
      OBVIOUS
    <3>1. j = i \/ i < j
      BY <1>2, <1>3, <2>1
    <3> QED
      BY <1>4, <2>1, <2>4, <2>5, <3>1
  <2>7. j \in 1 .. kept
    BY <1>1, <1>2, <1>3, <2>1, <2>6
  <2> QED
    BY <1>3, <2>4, <2>7 DEF Range
<1> QED
  BY <1>5, <1>6, PowerFailurePrepares DEF OrderInv

\* What the steps do to the schema, and that they keep what is in hand.
LEMMA SchemaStep ==
    ASSUME IInv, Prepared, [Next]_vars
    PROVE  /\ Prepared'
           /\ \/ UNCHANGED <<applied, schema>>
              \/ PowerFailure
              \/ \E p \in Processes : Commit(p)
<1>1. CASE PowerFailure
  BY <1>1, PowerFailurePrepares
<1>2. ASSUME NEW p \in Processes, Commit(p) PROVE Prepared'
  BY <1>2, CommitIsNext
<1>3. ASSUME NEW p \in Processes, MigrationStep(p) \/ Stop(p) \/ Crash(p)
      PROVE  Prepared' /\ (UNCHANGED <<applied, schema>> \/ Commit(p))
  BY <1>2, <1>3, BeforeCommit DEF MigrationStep
<1>4. ASSUME NEW p \in Processes, NEW binary \in Binaries, Start(p, binary)
      PROVE  Prepared' /\ UNCHANGED <<applied, schema>>
  BY <1>4, BeforeCommit
<1>5. CASE UNCHANGED vars
  BY <1>5 DEF vars, Prepared, NextInHand
<1> QED
  BY <1>1, <1>3, <1>4, <1>5 DEF Next

\* The history of the schema, for any releases: it changes by one script at a
\* time, that runs, is new and has every earlier script of its release before
\* it, or it loses its end; whatever processes of whatever releases start,
\* crash and migrate at once (applyMigration, Migrate).
THEOREM SchemaGrowsScriptByScript == Spec => SchemaGrowsByReleases
<1> DEFINE Step == \/ \E binary \in Binaries : \E file \in binary : OneScriptMore(binary, file)
                   \/ \E kept \in 0 .. Len(schema) : schema' = SubSeq(schema, 1, kept)
<1>1. Init => Prepared
  BY DownIsPrepared DEF Init, Prepared
<1>2. IInv /\ Prepared /\ [Next]_vars => Prepared'
  BY SchemaStep
<1>3. IInv /\ Prepared /\ [Next]_vars => [Step]_schema
  <2> SUFFICES ASSUME IInv, Prepared, [Next]_vars, schema' # schema PROVE Step
    OBVIOUS
  <2>1. CASE PowerFailure
    BY <2>1 DEF PowerFailure
  <2>2. ASSUME NEW p \in Processes, Commit(p) PROVE Step
    <3>1. process[p].binary \in Binaries /\ OneScriptMore(process[p].binary, process[p].file)
      BY <2>2, CommitIsNext
    <3> QED
      BY <3>1 DEF OneScriptMore
  <2> QED
    BY <2>1, <2>2, SchemaStep
<1> QED
  BY <1>1, <1>2, <1>3, InvariantHolds, PTL DEF Spec, SchemaGrowsByReleases

\* The scripts take effect in version order, across restarts, crashes and
\* processes, if releases grow at the end (readAvailableMigrations,
\* readAppliedVersions).
THEOREM ScriptsInVersionOrder ==
    ASSUME GrowAtTheEnd
    PROVE  Spec => []InVersionOrder
<1>1. Init => OrderInv
  BY DownIsPrepared DEF Init, OrderInv, InVersionOrder, Gapless, Prepared
<1>2. IInv /\ OrderInv /\ [Next]_vars => OrderInv'
  <2> SUFFICES ASSUME IInv, OrderInv, [Next]_vars PROVE OrderInv'
    OBVIOUS
  <2>1. CASE PowerFailure
    BY <2>1, PowerFailureKeepsOrder
  <2>2. ASSUME NEW p \in Processes, Commit(p) PROVE OrderInv'
    BY <2>2, GrowAtTheEnd, CommitKeepsOrder
  <2>3. CASE UNCHANGED <<applied, schema>>
    BY <2>3, SchemaStep DEF OrderInv, InVersionOrder, Gapless
  <2> QED
    BY <2>1, <2>2, <2>3, SchemaStep DEF OrderInv
<1>3. OrderInv => InVersionOrder
  BY DEF OrderInv
<1> QED
  BY <1>1, <1>2, <1>3, InvariantHolds, PTL DEF Spec
=============================================================================
