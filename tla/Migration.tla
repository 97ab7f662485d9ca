----------------------------- MODULE Migration -----------------------------
(***************************************************************************)
(* Bringing the database up to the schema of the binary that opens it      *)
(* (persistence/migration, run by cmd/wedding before it listens and by     *)
(* cmd/seed before it writes).  Several processes may start on one file:   *)
(* a server that is replaced, a seed beside a running server.              *)
(*                                                                         *)
(*   down -> create -> read -> (apply -> execute -> record -> commit)*     *)
(*                              -> serving                                 *)
(*                                                                         *)
(* Every transaction is BEGIN IMMEDIATE, so one process at a time is       *)
(* between apply and commit; a process that dies there leaves nothing.     *)
(* Abstracted: a file is its version, whether its name matches the         *)
(* pattern, and whether its statements are good SQL; schema_migration is   *)
(* there from the first start on.                                          *)
(***************************************************************************)
EXTENDS Integers, SequencesExt

CONSTANTS
    Processes,      \* processes that open the database file
    Binaries,       \* the migration directories embedded in the binaries
    MaxMishaps      \* how many crashes and power failures there are at most

\* wellFormed: the name matches NNNN-name.sql.  sound: its statements run.
File == [version : Nat, wellFormed : BOOLEAN, sound : BOOLEAN]

Nobody == "nobody"

ASSUME MigrationAssumption ==
    /\ Nobody \notin Processes
    /\ Binaries \subseteq SUBSET File
    /\ MaxMishaps \in Nat

VARIABLES
    applied,    \* the versions in schema_migration
    schema,     \* the scripts whose effects the database holds, oldest first
    writer,     \* the process in a write transaction
    process,    \* what each process is doing
    mishaps     \* crashes and power failures so far

vars == <<applied, schema, writer, process, mishaps>>

NoFile == [version |-> 0, wellFormed |-> FALSE, sound |-> FALSE]

Down == [pc |-> "down", binary |-> {}, seen |-> {}, pending |-> {}, file |-> NoFile]

Starting == {"create", "read", "apply", "execute", "record", "commit"}
Writing  == {"execute", "record", "commit"}

Versions(files) == {file.version : file \in files}

TypeOK ==
    /\ applied \subseteq Nat
    /\ schema \in Seq(Nat)
    /\ writer \in Processes \cup {Nobody}
    /\ process \in [Processes -> [pc : Starting \cup {"down", "serving"},
                                  binary : Binaries \cup {{}},
                                  seen : SUBSET Nat, pending : SUBSET File, file : File]]
    /\ \A p \in Processes : (process[p].pc \in Writing) = (writer = p)
    /\ mishaps \in 0 .. MaxMishaps

Init ==
    /\ applied = {}
    /\ schema = <<>>
    /\ writer = Nobody
    /\ process = [p \in Processes |-> Down]
    /\ mishaps = 0

At(p, pc)  == process[p].pc = pc
Goes(p, q) == process' = [process EXCEPT ![p] = q]

\* A start that fails leaves the process; an open transaction is rolled back.
Fails(p) ==
    /\ Goes(p, Down)
    /\ writer' = IF writer = p THEN Nobody ELSE writer
    /\ UNCHANGED <<applied, schema, mishaps>>

Start(p, binary) ==
    /\ At(p, "down")
    /\ Goes(p, [Down EXCEPT !.pc = "create", !.binary = binary])
    /\ UNCHANGED <<applied, schema, writer, mishaps>>

\* readAvailableMigrations: a malformed name, a version that two files share
\* and an empty directory are refused.
Readable(files) ==
    /\ files # {}
    /\ \A file \in files : file.wellFormed
    /\ \A file, other \in files : file.version = other.version => file = other

\* createSchemaMigrationTable waits for the writer, then the files are listed.
CreateTable(p) ==
    /\ At(p, "create") /\ writer = Nobody
    /\ \/ /\ Readable(process[p].binary)
          /\ Goes(p, [process[p] EXCEPT !.pc = "read"])
          /\ UNCHANGED <<applied, schema, writer, mishaps>>
       \/ ~Readable(process[p].binary) /\ Fails(p)

\* Variant: the arguments are the wrong way round.
UnknownTheOtherWay(versions, files) == Versions(files) \ versions

unknownVersions(versions, files) == versions \ Versions(files)

\* What was applied is read once; it decides what is still to be done.
ReadApplied(p) ==
    LET files == process[p].binary IN
    /\ At(p, "read")
    /\ \/ /\ unknownVersions(applied, files) = {}
          /\ Goes(p, [process[p] EXCEPT !.pc = "apply", !.seen = applied,
                        !.pending = {file \in files : file.version \notin applied}])
          /\ UNCHANGED <<applied, schema, writer, mishaps>>
       \/ unknownVersions(applied, files) # {} /\ Fails(p)

\* Variant: the latest file first.
IsLast(file, files) == \A other \in files : other.version <= file.version

IsFirst(file, files) == \A other \in files : file.version <= other.version

\* applyMigration takes the next file in version order.
Begin(p) ==
    /\ At(p, "apply")
    /\ writer = Nobody
    /\ writer' = p
    /\ \E file \in process[p].pending :
          /\ IsFirst(file, process[p].pending)
          /\ Goes(p, [process[p] EXCEPT !.pc = "execute", !.file = file])
    /\ UNCHANGED <<applied, schema, mishaps>>

\* busy_timeout has passed while another process was writing.
GiveUp(p) ==
    /\ At(p, "create") \/ (At(p, "apply") /\ process[p].pending # {})
    /\ writer # Nobody
    /\ Fails(p)

\* A script whose effects are there already may fail on them, or may not.
ExecuteScript(p) ==
    LET file == process[p].file IN
    /\ At(p, "execute")
    /\ \/ /\ file.sound
          /\ Goes(p, [process[p] EXCEPT !.pc = "record"])
          /\ UNCHANGED <<applied, schema, writer, mishaps>>
       \/ (~file.sound \/ file.version \in Range(schema)) /\ Fails(p)

\* Variant: the table has no primary key.
RecordAgain(p) ==
    /\ At(p, "record")
    /\ Goes(p, [process[p] EXCEPT !.pc = "commit"])
    /\ UNCHANGED <<applied, schema, writer, mishaps>>

\* The version is the primary key.
RecordMigration(p) ==
    LET file == process[p].file IN
    /\ At(p, "record")
    /\ \/ /\ file.version \notin applied
          /\ Goes(p, [process[p] EXCEPT !.pc = "commit"])
          /\ UNCHANGED <<applied, schema, writer, mishaps>>
       \/ file.version \in applied /\ Fails(p)

\* Variant: the write connection is not given back.
CommitKeepsTheLock(p) ==
    LET file == process[p].file IN
    /\ At(p, "commit")
    /\ applied' = applied \cup {file.version}
    /\ schema' = Append(schema, file.version)
    /\ Goes(p, [process[p] EXCEPT !.pc = "apply", !.pending = @ \ {file}, !.file = NoFile])
    /\ UNCHANGED <<writer, mishaps>>

Commit(p) ==
    LET file == process[p].file IN
    /\ At(p, "commit")
    /\ applied' = applied \cup {file.version}
    /\ schema' = Append(schema, file.version)
    /\ writer' = Nobody
    /\ Goes(p, [process[p] EXCEPT !.pc = "apply", !.pending = @ \ {file}, !.file = NoFile])
    /\ UNCHANGED mishaps

\* Variant: the listener starts beside the migrations.
ListenAtOnce(p) ==
    /\ At(p, "apply")
    /\ Goes(p, [process[p] EXCEPT !.pc = "serving"])
    /\ UNCHANGED <<applied, schema, writer, mishaps>>

Listen(p) ==
    /\ At(p, "apply") /\ process[p].pending = {}
    /\ Goes(p, [process[p] EXCEPT !.pc = "serving"])
    /\ UNCHANGED <<applied, schema, writer, mishaps>>

Stop(p) == At(p, "serving") /\ Fails(p)

Crash(p) ==
    /\ ~At(p, "down") /\ mishaps < MaxMishaps
    /\ mishaps' = mishaps + 1
    /\ Goes(p, Down)
    /\ writer' = IF writer = p THEN Nobody ELSE writer
    /\ UNCHANGED <<applied, schema>>

\* synchronous=NORMAL: the machine may lose the last commits, whole ones and
\* from the end, and every process with them.
PowerFailure ==
    /\ mishaps < MaxMishaps
    /\ mishaps' = mishaps + 1
    /\ \E kept \in 0 .. Len(schema) :
          /\ schema' = SubSeq(schema, 1, kept)
          /\ applied' = Range(schema')
    /\ writer' = Nobody
    /\ process' = [p \in Processes |-> Down]

-----------------------------------------------------------------------------
MigrationStep(p) ==
    \/ CreateTable(p) \/ ReadApplied(p) \/ Begin(p) \/ GiveUp(p)
    \/ ExecuteScript(p) \/ RecordMigration(p) \/ Commit(p) \/ Listen(p)

Next ==
    \/ PowerFailure
    \/ \E p \in Processes :
          \/ MigrationStep(p) \/ Stop(p) \/ Crash(p)
          \/ \E binary \in Binaries : Start(p, binary)

Spec == Init /\ [][Next]_vars

\* A start runs on until it serves or fails.
FairSpec == Spec /\ \A p \in Processes : WF_vars(MigrationStep(p))

(***************************************************************************)
(* Properties.                                                             *)
(***************************************************************************)
\* A version is recorded exactly if its script took effect, and it did once:
\* whatever crashes, loses its last commits or migrates at the same time
\* (applyMigration's transaction and the primary key).
RecordedIsDone ==
    /\ applied = Range(schema)
    /\ IsInjective(schema)

\* The scripts took effect in version order, across restarts, crashes and
\* processes, as long as every binary extends the one before it
\* (readAvailableMigrations, readAppliedVersions).
InVersionOrder == \A i, j \in DOMAIN schema : i < j => schema[i] < schema[j]

\* No process serves a schema that lacks one of its migrations, or one that
\* had a version it does not know when it started (main runs Migrate first).
NeverHalfMigrated ==
    \A p \in Processes : At(p, "serving") =>
        process[p].seen \subseteq Versions(process[p].binary)
            /\ Versions(process[p].binary) \subseteq applied

\* Once a sound release is the only one that is started, and is started again
\* and again, it completes its schema however often a start crashes, loses
\* power or finds the database busy, unless a newer release was there before
\* (migrate resumes where the last commit was).
Released(binary) ==
    /\ <>[](\A p \in Processes : process[p].binary \in {{}, binary})
    /\ []<>(\E p \in Processes : At(p, "create"))

RestartsComplete ==
    \A binary \in Binaries :
        Readable(binary) /\ (\A file \in binary : file.sound) =>
            (Released(binary) => <>(\/ Versions(binary) \subseteq applied
                                    \/ ~(applied \subseteq Versions(binary))))
=============================================================================
