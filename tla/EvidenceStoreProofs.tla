-------------------------- MODULE EvidenceStoreProofs --------------------------
(***************************************************************************)
(* Proofs about EvidenceStore, for any number of clients and any sets of   *)
(* snapshots, records, links, sources and contents.                        *)
(*                                                                         *)
(* The inductive invariant relates the committed database to the private   *)
(* copy of the client that holds the write lock: the copy differs from the *)
(* disk only by the candidate and by rows the disk does not have yet, so   *)
(* installing it adds one snapshot and leaves the others alone.            *)
(*                                                                         *)
(* CursorInv adds what the copy's cursors are at each stage.  ReaderInv    *)
(* says what a read has in hand between two statements; with it, every     *)
(* step of the store is a step of SnapshotLog or changes nothing there.    *)
(***************************************************************************)
EXTENDS EvidenceStore, SharedLemmas, TLAPS

\* A snapshot identifier not yet used has no membership rows.
UnusedIsEmpty ==
    \A s \in Snapshots :
        disk.state[s] = "absent" => disk.members[s] = {} /\ disk.linked[s] = {}

\* The schema is created before anything else is stored.
SchemaFirst ==
    /\ disk.schema = "none" => disk = Empty("none")
    /\ \A c \in Clients : pc[c] \notin {"down", "migrating"} => disk.schema = "v1"

\* A migration copies the database or creates it.
MigrationCopies ==
    \A c \in Clients :
        pc[c] = "migrating" =>
            \/ work = disk
            \/ work = Empty("v1") /\ disk = Empty("none")

\* db adds to the disk nothing but snapshot n and rows that were absent.
AddsOnly(db, n) ==
    /\ db.schema = disk.schema
    /\ disk.state[n] = "absent"
    /\ \A s \in Snapshots \ {n} :
          /\ db.state[s] = disk.state[s]
          /\ db.members[s] = disk.members[s]
          /\ db.linked[s] = disk.linked[s]
          /\ db.sources[s] = disk.sources[s]
    /\ \A r \in Records : disk.records[r] # Absent => db.records[r] = disk.records[r]
    /\ \A l \in Links : disk.links[l] # Absent => db.links[l] = disk.links[l]
    /\ Stored(db, n)

\* What the writer's copy is at each stage of building and publishing.
CopyAt(stage, db, n) ==
    /\ AddsOnly(db, n)
    /\ db.state[n] = IF stage \in {"building", "validated"} THEN "candidate" ELSE "published"
    /\ stage # "building" => Closed(db, n)
    /\ db.current = IF stage = "pointed" THEN n ELSE disk.current

CandidateAddsOnly ==
    \A c \in Clients : pc[c] \in Building => CopyAt(pc[c], work, candidate)

IInv ==
    /\ TypeOK
    /\ OnlyWholeSnapshots
    /\ CurrentIsNewest
    /\ UnusedIsEmpty
    /\ SchemaFirst
    /\ MigrationCopies
    /\ CandidateAddsOnly

-----------------------------------------------------------------------------
(* Type correctness. *)

LEMMA EmptyType ==
    ASSUME NEW schema \in {"none", "v1", "other"}
    PROVE  Empty(schema) \in Databases
<1> DEFINE E == Empty(schema)
<1>1. /\ E.schema \in {"none", "v1", "other"}
      /\ E.records \in [Records -> Contents \union {Absent}]
      /\ E.links \in [Links -> (UNION {Rows[l] : l \in Links}) \union {Absent}]
      /\ E.state \in [Snapshots -> {"absent", "candidate", "published"}]
  BY DEF Empty
<1>2. E.members \in [Snapshots -> SUBSET Records] /\ E.linked \in [Snapshots -> SUBSET Links]
  BY DEF Empty
<1>3. E.cursors \in [Sources -> [cursor : Cursors, of : Snapshots] \union {Absent}]
  BY DEF Empty
<1>4. E.current \in Snapshots \union {Absent}
  BY DEF Empty
<1>5. E.sources \in [Snapshots -> [Sources -> Cursors \union {Null, Absent}]]
  BY DEF Empty
<1>6. E = [schema |-> E.schema, records |-> E.records, links |-> E.links,
           state |-> E.state, members |-> E.members, linked |-> E.linked,
           sources |-> E.sources, cursors |-> E.cursors, current |-> E.current]
  BY DEF Empty
<1> HIDE DEF E
<1>7. E \in Databases
  BY <1>1, <1>2, <1>3, <1>4, <1>5, <1>6 DEF Databases
<1>8. QED BY <1>7 DEF E

LEMMA TypeInit == Init => TypeOK
<1> SUFFICES ASSUME Init PROVE TypeOK
  OBVIOUS
<1>1. PICK schema \in {"none", "other"} : disk = Empty(schema)
  BY DEF Init
<1>2. disk \in Databases
  BY <1>1, EmptyType
<1>3. QED
  BY <1>2, StoreAssumption DEF Init, TypeOK, Stages, Writing, Building, Reading, Kinds, NoAnswer

\* The part of TypeOK about the lock and the transactions.
WriterTypes ==
    /\ disk \in Databases
    /\ writer \in Clients \union {Absent}
    /\ writer # Absent => work \in Databases
    /\ candidate \in Snapshots \union {Absent}
    /\ pc \in [Clients -> Stages]
    /\ \A c \in Clients : pc[c] \in Writing <=> writer = c
    /\ \A c \in Clients : pc[c] \in Building => candidate # Absent
    /\ log \in Seq(Snapshots)

\* The part about reads and answers.
ReaderTypes ==
    /\ kind \in [Clients -> Kinds]
    /\ target \in [Clients -> Snapshots \union {Absent}]
    /\ \A c \in Clients : pc[c] \in Reading \ {"pin"} => target[c] # Absent
    /\ DOMAIN answer = Clients
    /\ \A c \in Clients : answer[c].kind = "slice" => answer[c].snapshot.id \in Snapshots
    /\ since \in [Clients -> Nat \union {Absent}]

LEMMA TypeParts ==
    /\ TypeOK <=> WriterTypes /\ ReaderTypes
    /\ TypeOK' <=> WriterTypes' /\ ReaderTypes'
BY DEF TypeOK, WriterTypes, ReaderTypes

\* A step of a client that neither holds nor takes the lock.
LEMMA ReaderStep ==
    ASSUME WriterTypes, NEW c \in Clients, UNCHANGED writerVars,
           pc[c] \notin Writing, NEW stage \in Stages \ Writing,
           pc' = [pc EXCEPT ![c] = stage]
    PROVE  WriterTypes'
BY DEF WriterTypes, writerVars, Writing, Building

\* A statement that leaves the copy well typed.
LEMMA WriteType ==
    ASSUME TypeOK, NEW c \in Clients,
           NEW from \in Building, NEW to \in Building, NEW db \in Databases,
           Write(c, from, to, db)
    PROVE  TypeOK'
<1> USE DEF Write, readerVars
<1>1. writer = c /\ pc' = [pc EXCEPT ![c] = to]
  BY DEF TypeOK, Writing
<1>2. WriterTypes'
  BY <1>1, TypeParts DEF WriterTypes, Writing, Building, Stages
<1>3. ReaderTypes'
  BY <1>1, TypeParts DEF ReaderTypes, WriterTypes, Building, Reading
<1>4. QED BY <1>2, <1>3, TypeParts

LEMMA RollbackType ==
    ASSUME TypeOK, NEW c \in Clients, pc[c] \in Building,
           NEW a, a.kind # "slice", Rollback(c, a)
    PROVE  TypeOK'
<1> USE DEF Rollback, readerVars, Unlock
<1>1. writer = c /\ pc' = [pc EXCEPT ![c] = "idle"]
  BY DEF TypeOK, Writing
<1>2. WriterTypes'
  BY <1>1, TypeParts, StoreAssumption DEF WriterTypes, Writing, Building, Stages
<1>3. ReaderTypes'
  BY <1>1, TypeParts DEF ReaderTypes, WriterTypes, Reading
<1>4. QED BY <1>2, <1>3, TypeParts

\* A read that ends, whatever its answer.
LEMMA AnswerType ==
    ASSUME TypeOK, NEW c \in Clients, pc[c] \in Reading, NEW a,
           a.kind = "slice" => a.snapshot.id \in Snapshots, Answer(c, a)
    PROVE  TypeOK'
<1> USE DEF Answer
<1>1. WriterTypes'
  <2>1. pc[c] \notin Writing /\ "idle" \in Stages \ Writing
    BY DEF Reading, Writing, Building, Stages
  <2>2. QED BY <2>1, ReaderStep, TypeParts
<1>2. ReaderTypes'
  BY TypeParts DEF ReaderTypes, WriterTypes, writerVars, Reading
<1>3. QED BY <1>1, <1>2, TypeParts

\* What each statement of a candidate leaves in the copy is a database.
LEMMA StateUpdate ==
    ASSUME NEW db \in Databases, NEW s \in Snapshots,
           NEW v \in {"absent", "candidate", "published"}
    PROVE  [db EXCEPT !.state[s] = v] \in Databases
BY DEF Databases

LEMMA RecordUpdate ==
    ASSUME NEW db \in Databases, NEW s \in Snapshots,
           NEW r \in Records, NEW content \in Contents
    PROVE  [db EXCEPT !.records[r] = content, !.members[s] = @ \union {r}] \in Databases
<1>1. [db.records EXCEPT ![r] = content] \in [Records -> Contents \union {Absent}]
  BY DEF Databases
<1>2. [db.members EXCEPT ![s] = @ \union {r}] \in [Snapshots -> SUBSET Records]
  BY DEF Databases
<1>3. QED BY <1>1, <1>2 DEF Databases

LEMMA LinkUpdate ==
    ASSUME NEW db \in Databases, NEW s \in Snapshots, NEW l \in Links, NEW row \in Rows[l]
    PROVE  [db EXCEPT !.links[l] = row, !.linked[s] = @ \union {l}] \in Databases
<1>1. [db.links EXCEPT ![l] = row]
        \in [Links -> (UNION {Rows[k] : k \in Links}) \union {Absent}]
  BY DEF Databases
<1>2. [db.linked EXCEPT ![s] = @ \union {l}] \in [Snapshots -> SUBSET Links]
  BY DEF Databases
<1>3. QED BY <1>1, <1>2 DEF Databases

LEMMA SourceUpdate ==
    ASSUME NEW db \in Databases, NEW s \in Snapshots, NEW x \in Sources,
           NEW cursor \in Cursors \union {Null}
    PROVE  [db EXCEPT !.sources[s][x] = cursor] \in Databases
<1>1. [db.sources EXCEPT ![s][x] = cursor]
        \in [Snapshots -> [Sources -> Cursors \union {Null, Absent}]]
  BY DEF Databases
<1>2. QED BY <1>1 DEF Databases

LEMMA CursorUpdate ==
    ASSUME NEW db \in Databases, NEW s \in Snapshots
    PROVE  [db EXCEPT !.cursors =
               [x \in Sources |->
                   IF db.sources[s][x] \in Cursors
                   THEN [cursor |-> db.sources[s][x], of |-> s]
                   ELSE db.cursors[x]]] \in Databases
<1> DEFINE advanced == [x \in Sources |-> IF db.sources[s][x] \in Cursors
                                          THEN [cursor |-> db.sources[s][x], of |-> s]
                                          ELSE db.cursors[x]]
<1>1. advanced \in [Sources -> [cursor : Cursors, of : Snapshots] \union {Absent}]
  BY DEF Databases
<1> HIDE DEF advanced
<1>2. [db EXCEPT !.cursors = advanced] \in Databases
  BY <1>1 DEF Databases
<1>3. QED BY <1>2 DEF advanced

LEMMA PointerUpdate ==
    ASSUME NEW db \in Databases, NEW s \in Snapshots
    PROVE  [db EXCEPT !.current = s] \in Databases
BY DEF Databases

\* While a client builds, it has the lock, a copy and a candidate.
LEMMA BuilderHolds ==
    ASSUME TypeOK, NEW c \in Clients, pc[c] \in Building
    PROVE  writer = c /\ writer # Absent /\ work \in Databases /\ candidate \in Snapshots
BY StoreAssumption DEF TypeOK, Writing

LEMMA BuildType ==
    ASSUME TypeOK, NEW c \in Clients, Build(c)
    PROVE  TypeOK'
<1>1. pc[c] = "building"
  BY DEF Build, InsertRecord, InsertLink, SetSourceState, InsertRefused, Abandon, Write
<1>2. pc[c] \in Building /\ "building" \in Building
  BY <1>1 DEF Building
<1>3. work \in Databases /\ candidate \in Snapshots
  BY <1>2, BuilderHolds
<1>4. CASE \E r \in Records, content \in Contents : InsertRecord(c, r, content)
  <2>1. PICK r \in Records, content \in Contents : InsertRecord(c, r, content)
    BY <1>4
  <2>2. QED BY <2>1, <1>2, <1>3, RecordUpdate, WriteType DEF InsertRecord
<1>5. CASE \E l \in Links : \E row \in Rows[l] : InsertLink(c, l, row)
  <2>1. PICK l \in Links : \E row \in Rows[l] : InsertLink(c, l, row)
    BY <1>5
  <2>2. PICK row \in Rows[l] : InsertLink(c, l, row)
    BY <2>1
  <2>3. QED BY <2>2, <1>2, <1>3, LinkUpdate, WriteType DEF InsertLink
<1>6. CASE \E x \in Sources, cursor \in Cursors \union {Null} : SetSourceState(c, x, cursor)
  <2>1. PICK x \in Sources, cursor \in Cursors \union {Null} : SetSourceState(c, x, cursor)
    BY <1>6
  <2>2. QED BY <2>1, <1>2, <1>3, SourceUpdate, WriteType DEF SetSourceState
<1>7. CASE InsertRefused(c)
  BY <1>2, <1>7, RollbackType DEF InsertRefused, Refused
<1>8. CASE Abandon(c)
  BY <1>2, <1>8, RollbackType DEF Abandon, NoAnswer
<1>9. QED BY <1>4, <1>5, <1>6, <1>7, <1>8 DEF Build

LEMMA PublishType ==
    ASSUME TypeOK, NEW c \in Clients, Publish(c)
    PROVE  TypeOK'
<1>1. pc[c] \in Building
  BY DEF Publish, Validate, ValidateFails, MarkPublished, AdvanceCursors, PointCurrent,
         Commit, StatementFails, Building
<1>2. writer = c /\ work \in Databases /\ candidate \in Snapshots
  BY <1>1, BuilderHolds
<1>3. CASE Validate(c)
  BY <1>2, <1>3, WriteType DEF Validate, Building
<1>4. CASE ValidateFails(c)
  BY <1>1, <1>4, RollbackType DEF ValidateFails, Refused
<1>5. CASE MarkPublished(c)
  BY <1>2, <1>5, StateUpdate, WriteType DEF MarkPublished, Building
<1>6. CASE AdvanceCursors(c)
  BY <1>2, <1>6, CursorUpdate, WriteType DEF AdvanceCursors, Building
<1>7. CASE PointCurrent(c)
  BY <1>2, <1>7, PointerUpdate, WriteType DEF PointCurrent, Building
<1>8. CASE Commit(c)
  <2>1. WriterTypes'
    <3>1. log' \in Seq(Snapshots)
      BY <1>2, <1>8 DEF Commit, TypeOK
    <3>2. disk' \in Databases /\ writer' = Absent /\ candidate' = Absent
      BY <1>2, <1>8 DEF Commit, Unlock
    <3>3. /\ pc' \in [Clients -> Stages]
          /\ \A d \in Clients : pc'[d] \notin Writing
      BY <1>2, <1>8 DEF Commit, TypeOK, Stages, Writing, Building
    <3>4. QED BY <3>1, <3>2, <3>3, StoreAssumption DEF WriterTypes, Writing
  <2>2. ReaderTypes'
    BY <1>8 DEF Commit, TypeOK, ReaderTypes, readerVars, Reading, Published
  <2>3. QED BY <2>1, <2>2, TypeParts
<1>9. CASE StatementFails(c)
  BY <1>1, <1>9, RollbackType DEF StatementFails, Refused
<1>10. QED BY <1>3, <1>4, <1>5, <1>6, <1>7, <1>8, <1>9 DEF Publish

LEMMA OpenType ==
    ASSUME TypeOK, NEW c \in Clients, Open(c)
    PROVE  TypeOK'
<1>1. writer = Absent /\ writer' = c /\ work' \in Databases
  BY EmptyType DEF Open, Lock, TypeOK
<1>2. \A d \in Clients : pc[d] \notin Writing
  BY <1>1, StoreAssumption DEF TypeOK
<1>3. WriterTypes'
  BY <1>1, <1>2 DEF Open, TypeOK, WriterTypes, Stages, Writing, Building
<1>4. ReaderTypes'
  BY DEF Open, NewCall, NoAnswer, TypeOK, ReaderTypes, readerVars, Reading
<1>5. QED BY <1>3, <1>4, TypeParts

LEMMA MigrateType ==
    ASSUME TypeOK, NEW c \in Clients, Migrate(c)
    PROVE  TypeOK'
<1>1. writer = c /\ writer # Absent /\ work \in Databases
  BY StoreAssumption DEF Migrate, TypeOK, Writing
<1>2. disk' \in Databases
  BY <1>1 DEF Migrate, TypeOK
<1>3. pc' \in [Clients -> Stages] /\ \A d \in Clients : pc'[d] \notin Writing
  BY <1>1 DEF Migrate, TypeOK, Stages, Writing, Building
<1>4. WriterTypes'
  BY <1>2, <1>3, StoreAssumption DEF Migrate, Unlock, TypeOK, WriterTypes, Writing
<1>5. ReaderTypes'
  BY DEF Migrate, Refused, TypeOK, ReaderTypes, readerVars, Reading
<1>6. QED BY <1>4, <1>5, TypeParts

LEMMA BeginType ==
    ASSUME TypeOK, NEW c \in Clients, NEW s \in Snapshots, BeginCandidate(c, s)
    PROVE  TypeOK'
<1>1. writer = Absent /\ writer' = c /\ work' \in Databases /\ candidate' = s
  BY StateUpdate DEF BeginCandidate, Lock, TypeOK
<1>2. \A d \in Clients : pc[d] \notin Writing
  BY <1>1, StoreAssumption DEF TypeOK
<1>3. WriterTypes'
  BY <1>1, <1>2, StoreAssumption
     DEF BeginCandidate, TypeOK, WriterTypes, Stages, Writing, Building
<1>4. ReaderTypes'
  BY DEF BeginCandidate, NewCall, NoAnswer, TypeOK, ReaderTypes, readerVars, Reading
<1>5. QED BY <1>3, <1>4, TypeParts

LEMMA ReadType ==
    ASSUME TypeOK, NEW c \in Clients, Read(c)
    PROVE  TypeOK'
<1>1. pc[c] \in Reading
  BY DEF Read, Pin, PinNothing, SliceLimitExceeded, ReadNodes, ReadSnapshotRecords,
         ReadLinks, ReadSources, ReadFails, Reading
<1>2. pc[c] \notin Writing
  BY <1>1 DEF Reading, Writing, Building
<1>3. CASE Pin(c)
  <2>1. PICK stage \in {"nodes", "sources"} : pc' = [pc EXCEPT ![c] = stage]
    BY <1>3 DEF Pin
  <2>2. WriterTypes'
    BY <1>2, <1>3, <2>1, ReaderStep, TypeParts DEF Pin, Stages, Reading, Writing, Building
  <2>3. ReaderTypes'
    BY <1>3 DEF Pin, TypeOK, Databases, ReaderTypes, writerVars, Reading
  <2>4. QED BY <2>2, <2>3, TypeParts
<1>4. CASE PinNothing(c)
  BY <1>1, <1>4, AnswerType DEF PinNothing
<1>5. CASE SliceLimitExceeded(c)
  BY <1>1, <1>5, AnswerType DEF SliceLimitExceeded, Refused
<1>6. CASE ReadNodes(c)
  <2>1. WriterTypes'
    BY <1>2, <1>6, ReaderStep, TypeParts DEF ReadNodes, Stages, Reading, Writing, Building
  <2>2. ReaderTypes'
    BY <1>6 DEF ReadNodes, TypeOK, ReaderTypes, Reading
  <2>3. QED BY <2>1, <2>2, TypeParts
<1>7. CASE ReadSnapshotRecords(c)
  BY <1>1, <1>7, AnswerType DEF ReadSnapshotRecords
<1>8. CASE ReadLinks(c)
  <2>1. WriterTypes'
    BY <1>2, <1>8, ReaderStep, TypeParts DEF ReadLinks, Stages, Reading, Writing, Building
  <2>2. ReaderTypes'
    BY <1>8 DEF ReadLinks, TypeOK, ReaderTypes, Reading
  <2>3. QED BY <2>1, <2>2, TypeParts
<1>9. CASE ReadSources(c)
  <2>1. target[c] \in Snapshots
    BY <1>9, StoreAssumption DEF ReadSources, TypeOK, Reading
  <2>2. QED BY <1>1, <1>9, <2>1, AnswerType DEF ReadSources
<1>10. CASE ReadFails(c)
  BY <1>1, <1>10, AnswerType DEF ReadFails, Refused
<1>11. QED
  BY <1>3, <1>4, <1>5, <1>6, <1>7, <1>8, <1>9, <1>10 DEF Read

LEMMA BeginReadType ==
    ASSUME TypeOK, NEW c \in Clients, NEW k \in Kinds, BeginRead(c, k)
    PROVE  TypeOK'
<1>1. WriterTypes'
  <2>1. PICK stage \in {"nodes", "pin"} : pc' = [pc EXCEPT ![c] = stage]
    BY DEF BeginRead
  <2>2. QED BY <2>1, ReaderStep, TypeParts DEF BeginRead, Stages, Reading, Writing, Building
<1>2. Len(log) \in Nat
  BY DEF TypeOK
<1>3. ReaderTypes'
  <2>1. CASE k = "records"
    BY <1>2, <2>1, StoreAssumption DEF BeginRead, TypeOK, ReaderTypes, Reading
  <2>2. CASE k # "records"
    BY <1>2, <2>2 DEF BeginRead, NewCall, NoAnswer, TypeOK, ReaderTypes, Reading
  <2>3. QED BY <2>1, <2>2
<1>4. QED BY <1>1, <1>3, TypeParts

LEMMA CrashType ==
    ASSUME TypeOK, NEW c \in Clients, Crash(c)
    PROVE  TypeOK'
<1>1. CASE writer = c
  <2>1. \A d \in Clients : pc'[d] \notin Writing
    BY <1>1 DEF Crash, TypeOK, Writing, Building
  <2>2. QED BY <1>1, <2>1, StoreAssumption
            DEF Crash, Unlock, TypeOK, NoAnswer, Stages, Writing, Reading
<1>2. CASE writer # c
  BY <1>2 DEF Crash, TypeOK, NoAnswer, Stages, Writing, Building, Reading
<1>3. QED BY <1>1, <1>2

LEMMA TypeStep == TypeOK /\ [Next]_vars => TypeOK'
<1> SUFFICES ASSUME TypeOK, [Next]_vars PROVE TypeOK'
  OBVIOUS
<1>1. CASE UNCHANGED vars
  BY <1>1 DEF vars, writerVars, readerVars, TypeOK
<1>2. CASE Next
  <2>1. PICK c \in Clients :
           \/ Busy(c) \/ Open(c) \/ Migrate(c)
           \/ \E s \in Snapshots : BeginCandidate(c, s) \/ CandidateExists(c, s)
           \/ Build(c) \/ Publish(c)
           \/ \E k \in Kinds : BeginRead(c, k)
           \/ Read(c)
           \/ Crash(c)
    BY <1>2 DEF Next
  <2>2. CASE Busy(c) \/ \E s \in Snapshots : CandidateExists(c, s)
    BY <2>2 DEF Busy, CandidateExists, Refused, TypeOK, writerVars, readerVars
  <2>3. QED
    BY <2>1, <2>2, OpenType, MigrateType, BeginType, BuildType, PublishType,
       BeginReadType, ReadType, CrashType
<1>3. QED BY <1>1, <1>2

\* TypeOK, for any number of clients: the write lock is held by exactly the
\* client between the first and the last statement of its transaction.
THEOREM StoreTypeCorrect == Spec => []TypeOK
<1>1. QED BY TypeInit, TypeStep, PTL DEF Spec

-----------------------------------------------------------------------------
(* The committed database, and the copy that will replace it. *)

\* The conjuncts of IInv beside TypeOK.
DiskSound == OnlyWholeSnapshots /\ CurrentIsNewest /\ UnusedIsEmpty
CopySound == SchemaFirst /\ MigrationCopies /\ CandidateAddsOnly

LEMMA IInvParts ==
    /\ IInv <=> TypeOK /\ DiskSound /\ CopySound
    /\ IInv' <=> TypeOK' /\ DiskSound' /\ CopySound'
BY DEF IInv, DiskSound, CopySound

LEMMA IInvInit == Init => IInv
<1> SUFFICES ASSUME Init PROVE IInv
  OBVIOUS
<1>1. TypeOK
  BY TypeInit
<1>2. DiskSound
  BY DEF Init, Empty, DiskSound, OnlyWholeSnapshots, CurrentIsNewest, UnusedIsEmpty
<1>3. CopySound
  <2>1. PICK schema \in {"none", "other"} : disk = Empty(schema)
    BY DEF Init
  <2>2. disk.schema = schema
    BY <2>1 DEF Empty
  <2>3. SchemaFirst
    BY <2>1, <2>2 DEF Init, SchemaFirst
  <2>4. MigrationCopies /\ CandidateAddsOnly
    BY DEF Init, MigrationCopies, CandidateAddsOnly, Building
  <2>5. QED BY <2>3, <2>4 DEF CopySound
<1>4. QED BY <1>1, <1>2, <1>3, IInvParts

\* DiskSound speaks of the disk and of the order of publication only.
LEMMA DiskKept ==
    ASSUME DiskSound, UNCHANGED <<disk, log>>
    PROVE  DiskSound'
BY DEF DiskSound, OnlyWholeSnapshots, Closed, Stored, CurrentIsNewest, UnusedIsEmpty

\* A step of a client without the lock touches neither disk nor copy.
LEMMA QuietStep ==
    ASSUME IInv, NEW c \in Clients, UNCHANGED writerVars, pc[c] \notin Writing,
           NEW stage \in Stages \ Writing, pc' = [pc EXCEPT ![c] = stage],
           stage # "down" => pc[c] # "down"
    PROVE  DiskSound' /\ CopySound'
<1>1. DiskSound'
  BY DiskKept, IInvParts DEF writerVars
<1>2. SchemaFirst'
  BY DEF IInv, TypeOK, SchemaFirst, writerVars, Empty, Writing, Building
<1>3. MigrationCopies'
  BY DEF IInv, TypeOK, MigrationCopies, writerVars, Empty, Writing
<1>4. CandidateAddsOnly'
  <2> SUFFICES ASSUME NEW d \in Clients, pc'[d] \in Building
               PROVE  CopyAt(pc[d], work, candidate)' /\ pc[d] = pc'[d]
    BY DEF CandidateAddsOnly
  <2>1. d # c /\ pc'[d] = pc[d]
    BY DEF IInv, TypeOK, Writing
  <2>2. QED
    BY <2>1 DEF IInv, CandidateAddsOnly, CopyAt, AddsOnly, Closed, Stored, writerVars
<1>5. QED BY <1>1, <1>2, <1>3, <1>4 DEF CopySound

\* Giving the lock up leaves no copy to speak of.
LEMMA ReleaseStep ==
    ASSUME IInv, NEW c \in Clients, writer = c, UNCHANGED <<disk, log>>,
           NEW stage \in {"idle", "down"}, pc' = [pc EXCEPT ![c] = stage],
           stage = "idle" => disk.schema = "v1"
    PROVE  DiskSound' /\ CopySound'
<1>1. DiskSound'
  BY DiskKept, IInvParts
<1>2. \A d \in Clients : pc'[d] \notin Writing
  BY DEF IInv, TypeOK, Writing, Building
<1>3. SchemaFirst'
  BY DEF IInv, TypeOK, SchemaFirst, Empty
<1>4. MigrationCopies' /\ CandidateAddsOnly'
  BY <1>2 DEF MigrationCopies, CandidateAddsOnly, Writing
<1>5. QED BY <1>1, <1>3, <1>4 DEF CopySound

LEMMA RollbackStep ==
    ASSUME IInv, NEW c \in Clients, pc[c] \in Building, NEW a, Rollback(c, a)
    PROVE  DiskSound' /\ CopySound'
<1>1. writer = c
  BY DEF IInv, TypeOK, Writing
<1>2. disk.schema = "v1"
  BY DEF IInv, SchemaFirst, Building
<1>3. QED BY <1>1, <1>2, ReleaseStep DEF Rollback

\* A statement that keeps to the candidate.
LEMMA WriteStep ==
    ASSUME IInv, NEW c \in Clients, NEW from \in Building, NEW to \in Building, NEW db,
           Write(c, from, to, db), CopyAt(to, db, candidate)
    PROVE  DiskSound' /\ CopySound'
<1>1. writer = c /\ pc[c] \in Building /\ pc' = [pc EXCEPT ![c] = to]
  BY DEF IInv, TypeOK, Write, Writing
<1>2. DiskSound'
  BY DiskKept, IInvParts DEF Write
<1>3. \A d \in Clients : d # c => pc'[d] \notin Writing
  BY <1>1 DEF IInv, TypeOK
<1>4. SchemaFirst'
  BY <1>1 DEF IInv, TypeOK, SchemaFirst, Write, Empty, Building
<1>5. MigrationCopies'
  BY <1>1, <1>3 DEF IInv, TypeOK, MigrationCopies, Writing, Building
<1>6. CandidateAddsOnly'
  <2> SUFFICES ASSUME NEW d \in Clients, pc'[d] \in Building
               PROVE  CopyAt(to, work, candidate)' /\ pc'[d] = to
    BY DEF CandidateAddsOnly
  <2>1. d = c
    BY <1>3 DEF Writing
  <2>2. pc'[d] = to
    BY <1>1, <2>1 DEF IInv, TypeOK
  <2>3. QED BY <2>2 DEF Write, CopyAt, AddsOnly, Closed, Stored
<1>7. QED BY <1>2, <1>4, <1>5, <1>6 DEF CopySound

\* What a building client's copy is, unfolded from the invariant.
LEMMA CopyNow ==
    ASSUME IInv, NEW c \in Clients, pc[c] \in Building
    PROVE  /\ writer = c
           /\ work \in Databases
           /\ candidate \in Snapshots
           /\ CopyAt(pc[c], work, candidate)
           /\ disk.schema = "v1"
BY BuilderHolds DEF IInv, CandidateAddsOnly, SchemaFirst, Building

LEMMA BuildStep ==
    ASSUME IInv, NEW c \in Clients, Build(c)
    PROVE  DiskSound' /\ CopySound'
<1>1. pc[c] = "building" /\ "building" \in Building
  BY DEF Build, InsertRecord, InsertLink, SetSourceState, InsertRefused, Abandon, Write,
         Building
<1>2. /\ writer = c /\ work \in Databases /\ candidate \in Snapshots
      /\ CopyAt("building", work, candidate)
  BY <1>1, CopyNow
<1>3. CASE \E r \in Records, content \in Contents : InsertRecord(c, r, content)
  <2>1. PICK r \in Records, content \in Contents : InsertRecord(c, r, content)
    BY <1>3
  <2> DEFINE db == [work EXCEPT !.records[r] = content, !.members[candidate] = @ \union {r}]
  <2>2. content # Absent
    BY StoreAssumption
  <2>3. CopyAt("building", db, candidate)
    BY <1>2, <2>1, <2>2 DEF InsertRecord, CopyAt, AddsOnly, Stored, Databases
  <2>4. QED BY <1>1, <2>1, <2>3, WriteStep DEF InsertRecord
<1>4. CASE \E l \in Links : \E row \in Rows[l] : InsertLink(c, l, row)
  <2>1. PICK l \in Links : \E row \in Rows[l] : InsertLink(c, l, row)
    BY <1>4
  <2>2. PICK row \in Rows[l] : InsertLink(c, l, row)
    BY <2>1
  <2> DEFINE db == [work EXCEPT !.links[l] = row, !.linked[candidate] = @ \union {l}]
  <2>3. row # Absent
    BY StoreAssumption
  <2>4. CopyAt("building", db, candidate)
    BY <1>2, <2>2, <2>3 DEF InsertLink, CopyAt, AddsOnly, Stored, Databases
  <2>5. QED BY <1>1, <2>2, <2>4, WriteStep DEF InsertLink
<1>5. CASE \E x \in Sources, cursor \in Cursors \union {Null} : SetSourceState(c, x, cursor)
  <2>1. PICK x \in Sources, cursor \in Cursors \union {Null} : SetSourceState(c, x, cursor)
    BY <1>5
  <2> DEFINE db == [work EXCEPT !.sources[candidate][x] = cursor]
  <2>2. CopyAt("building", db, candidate)
    BY <1>2 DEF CopyAt, AddsOnly, Stored, Databases
  <2>3. QED BY <1>1, <2>1, <2>2, WriteStep DEF SetSourceState
<1>6. CASE InsertRefused(c)
  BY <1>1, <1>6, RollbackStep DEF InsertRefused
<1>7. CASE Abandon(c)
  BY <1>1, <1>7, RollbackStep DEF Abandon
<1>8. QED BY <1>3, <1>4, <1>5, <1>6, <1>7 DEF Build

\* Installing the copy: the heart of atomic publication.
LEMMA CommitStep ==
    ASSUME IInv, NEW c \in Clients, Commit(c)
    PROVE  DiskSound' /\ CopySound'
<1>1. pc[c] = "pointed" /\ pc[c] \in Building
  BY DEF Commit, Building
<1>2. /\ writer = c /\ work \in Databases /\ candidate \in Snapshots
      /\ CopyAt("pointed", work, candidate)
      /\ disk.schema = "v1"
  BY <1>1, CopyNow
<1>3. disk' = work /\ log' = Append(log, candidate)
  BY DEF Commit
<1>4. /\ AddsOnly(work, candidate)
      /\ work.state[candidate] = "published"
      /\ work.current = candidate
      /\ Closed(work, candidate)
  BY <1>2 DEF CopyAt
<1>5. OnlyWholeSnapshots'
  <2> SUFFICES ASSUME NEW s \in Snapshots
               PROVE  /\ work.state[s] # "candidate"
                      /\ work.state[s] = "published" => Closed(work, s) /\ Stored(work, s)
    BY <1>3 DEF OnlyWholeSnapshots, Closed, Stored
  <2>1. CASE s = candidate
    BY <1>4, <2>1 DEF AddsOnly
  <2>2. CASE s # candidate
    <3>1. /\ work.state[s] = disk.state[s]
          /\ work.members[s] = disk.members[s]
          /\ work.linked[s] = disk.linked[s]
      BY <1>4, <2>2 DEF AddsOnly
    <3>2. /\ disk.state[s] # "candidate"
          /\ disk.state[s] = "published" => Closed(disk, s) /\ Stored(disk, s)
      BY DEF IInv, OnlyWholeSnapshots
    <3>3. disk.members[s] \subseteq Records /\ disk.linked[s] \subseteq Links
      BY DEF IInv, TypeOK, Databases
    <3>4. QED BY <1>4, <3>1, <3>2, <3>3 DEF AddsOnly, Closed, Stored
  <2>3. QED BY <2>1, <2>2
<1>6. CurrentIsNewest'
  <2>1. /\ log \in Seq(Snapshots) /\ log' \in Seq(Snapshots) /\ log' # <<>>
        /\ Len(log') = Len(log) + 1 /\ log'[Len(log')] = candidate
        /\ \A i \in 1..Len(log) : log'[i] = log[i]
    BY <1>2, <1>3 DEF IInv, TypeOK
  <2>2. ASSUME NEW s \in Snapshots
        PROVE  work.state[s] = "published" <=> \E i \in DOMAIN log' : log'[i] = s
    <3>1. disk.state[s] = "published" <=> \E i \in 1..Len(log) : log[i] = s
      BY <2>1 DEF IInv, CurrentIsNewest
    <3>2. CASE s = candidate
      BY <1>4, <2>1, <3>2
    <3>3. CASE s # candidate
      <4>1. work.state[s] = disk.state[s]
        BY <1>4, <3>3 DEF AddsOnly
      <4>2. (\E i \in 1..Len(log) : log[i] = s) <=> \E i \in 1..Len(log') : log'[i] = s
        BY <2>1, <3>3
      <4>3. QED BY <2>1, <3>1, <4>1, <4>2
    <3>4. QED BY <3>2, <3>3
  <2>3. QED BY <1>3, <1>4, <2>1, <2>2 DEF CurrentIsNewest
<1>7. UnusedIsEmpty'
  BY <1>3, <1>4 DEF IInv, UnusedIsEmpty, AddsOnly
<1>8. \A d \in Clients : pc'[d] \notin Writing
  BY <1>2 DEF Commit, IInv, TypeOK, Writing, Building
<1>9. CopySound'
  <2>1. disk'.schema = "v1"
    BY <1>2, <1>3, <1>4 DEF AddsOnly
  <2>2. QED
    BY <1>8, <2>1 DEF CopySound, SchemaFirst, MigrationCopies, CandidateAddsOnly, Writing
<1>10. QED BY <1>5, <1>6, <1>7, <1>9 DEF DiskSound

\* The tables of evidence are the same in two databases.
SameRows(db, other) ==
    /\ db.schema = other.schema
    /\ db.records = other.records
    /\ db.links = other.links
    /\ db.members = other.members
    /\ db.linked = other.linked
    /\ db.sources = other.sources

LEMMA PublishStep ==
    ASSUME IInv, NEW c \in Clients, Publish(c)
    PROVE  DiskSound' /\ CopySound'
<1>1. pc[c] \in Building
  BY DEF Publish, Validate, ValidateFails, MarkPublished, AdvanceCursors, PointCurrent,
         Commit, StatementFails, Building
<1>2. /\ writer = c /\ work \in Databases /\ candidate \in Snapshots
      /\ CopyAt(pc[c], work, candidate)
  BY <1>1, CopyNow
<1>3. CASE Validate(c)
  <2>1. CopyAt("validated", work, candidate)
    BY <1>2, <1>3 DEF Validate, CopyAt
  <2>2. QED BY <1>3, <2>1, WriteStep DEF Validate, Building
<1>4. CASE ValidateFails(c)
  BY <1>1, <1>4, RollbackStep DEF ValidateFails
<1>5. CASE MarkPublished(c)
  <2> DEFINE db == [work EXCEPT !.state[candidate] = "published"]
  <2>1. /\ SameRows(db, work)
        /\ db.current = work.current
        /\ db.state = [work.state EXCEPT ![candidate] = "published"]
        /\ work.state \in [Snapshots -> {"absent", "candidate", "published"}]
    BY <1>2 DEF Databases, SameRows
  <2>2. CopyAt("validated", work, candidate)
    BY <1>2, <1>5 DEF MarkPublished
  <2> HIDE DEF db
  <2>3. CopyAt("marked", db, candidate)
    BY <1>2, <2>1, <2>2 DEF CopyAt, AddsOnly, SameRows, Stored, Closed
  <2>4. QED BY <1>5, <2>3, WriteStep DEF MarkPublished, Building, db
<1>6. CASE AdvanceCursors(c)
  <2> DEFINE cursors == [x \in Sources |->
                            IF work.sources[candidate][x] \in Cursors
                            THEN [cursor |-> work.sources[candidate][x], of |-> candidate]
                            ELSE work.cursors[x]]
  <2> DEFINE db == [work EXCEPT !.cursors = cursors]
  <2> HIDE DEF cursors
  <2>1. SameRows(db, work) /\ db.current = work.current /\ db.state = work.state
    BY <1>2 DEF Databases, SameRows
  <2>2. CopyAt("marked", work, candidate)
    BY <1>2, <1>6 DEF AdvanceCursors
  <2> HIDE DEF db
  <2>3. CopyAt("advanced", db, candidate)
    BY <1>2, <2>1, <2>2 DEF CopyAt, AddsOnly, SameRows, Stored, Closed
  <2>4. QED BY <1>6, <2>3, WriteStep DEF AdvanceCursors, Building, db, cursors
<1>7. CASE PointCurrent(c)
  <2> DEFINE db == [work EXCEPT !.current = candidate]
  <2>1. SameRows(db, work) /\ db.current = candidate /\ db.state = work.state
    BY <1>2 DEF Databases, SameRows
  <2>2. CopyAt("advanced", work, candidate)
    BY <1>2, <1>7 DEF PointCurrent
  <2> HIDE DEF db
  <2>3. CopyAt("pointed", db, candidate)
    BY <1>2, <2>1, <2>2 DEF CopyAt, AddsOnly, SameRows, Stored, Closed
  <2>4. QED BY <1>7, <2>3, WriteStep DEF PointCurrent, Building, db
<1>8. CASE Commit(c)
  BY <1>8, CommitStep
<1>9. CASE StatementFails(c)
  BY <1>1, <1>9, RollbackStep DEF StatementFails
<1>10. QED BY <1>3, <1>4, <1>5, <1>6, <1>7, <1>8, <1>9 DEF Publish

LEMMA OpenStep ==
    ASSUME IInv, NEW c \in Clients, Open(c)
    PROVE  DiskSound' /\ CopySound'
<1>1. writer = Absent /\ pc' = [pc EXCEPT ![c] = "migrating"]
  BY DEF Open, Lock
<1>2. \A d \in Clients : pc'[d] \notin Building
  BY <1>1, StoreAssumption DEF IInv, TypeOK, Writing, Building
<1>3. DiskSound'
  BY DiskKept, IInvParts DEF Open
<1>4. work' = disk \/ (work' = Empty("v1") /\ disk = Empty("none"))
  BY DEF Open, Lock, IInv, SchemaFirst
<1>5. SchemaFirst'
  BY <1>1 DEF Open, IInv, TypeOK, SchemaFirst, Empty
<1>6. MigrationCopies' /\ CandidateAddsOnly'
  BY <1>2, <1>4 DEF Open, MigrationCopies, CandidateAddsOnly, Empty
<1>7. QED BY <1>3, <1>5, <1>6 DEF CopySound

LEMMA MigrateStep ==
    ASSUME IInv, NEW c \in Clients, Migrate(c)
    PROVE  DiskSound' /\ CopySound'
<1>1. writer = c /\ log' = log
  BY DEF Migrate, IInv, TypeOK, Writing
<1>2. CASE work.schema # "v1"
  BY <1>1, <1>2, ReleaseStep DEF Migrate
<1>3. CASE work.schema = "v1" /\ work = disk
  BY <1>1, <1>3, ReleaseStep DEF Migrate
<1>4. CASE work.schema = "v1" /\ work = Empty("v1") /\ disk = Empty("none")
  <2>1. disk' = Empty("v1") /\ pc' = [pc EXCEPT ![c] = "idle"]
    BY <1>4 DEF Migrate
  <2>2. /\ disk'.schema = "v1"
        /\ disk'.current = disk.current
        /\ \A s \in Snapshots : /\ disk'.state[s] = "absent" /\ disk.state[s] = "absent"
                                /\ disk'.members[s] = {} /\ disk'.linked[s] = {}
    BY <1>4, <2>1 DEF Empty
  <2>3. DiskSound'
    BY <1>1, <2>2 DEF IInv, DiskSound, OnlyWholeSnapshots, CurrentIsNewest, UnusedIsEmpty
  <2>4. \A d \in Clients : pc'[d] \notin Writing
    BY <1>1, <2>1 DEF IInv, TypeOK, Writing, Building
  <2>5. CopySound'
    BY <2>2, <2>4 DEF CopySound, SchemaFirst, MigrationCopies, CandidateAddsOnly, Writing
  <2>6. QED BY <2>3, <2>5
<1>5. QED BY <1>2, <1>3, <1>4 DEF Migrate, IInv, MigrationCopies

LEMMA BeginStep ==
    ASSUME IInv, NEW c \in Clients, NEW s \in Snapshots, BeginCandidate(c, s)
    PROVE  DiskSound' /\ CopySound'
<1> DEFINE db == [disk EXCEPT !.state[s] = "candidate"]
<1>1. /\ writer = Absent /\ pc[c] = "idle" /\ disk.state[s] = "absent"
      /\ work' = db /\ candidate' = s /\ pc' = [pc EXCEPT ![c] = "building"]
  BY DEF BeginCandidate, Lock
<1>2. \A d \in Clients : d # c => pc'[d] \notin Writing
  BY <1>1, StoreAssumption DEF IInv, TypeOK
<1>3. DiskSound'
  BY DiskKept, IInvParts DEF BeginCandidate
<1>4. /\ SameRows(db, disk)
      /\ db.current = disk.current
      /\ db.state = [disk.state EXCEPT ![s] = "candidate"]
      /\ disk.state \in [Snapshots -> {"absent", "candidate", "published"}]
  BY DEF IInv, TypeOK, Databases, SameRows
<1>5. disk.members[s] = {} /\ disk.linked[s] = {}
  BY <1>1 DEF IInv, UnusedIsEmpty
<1> HIDE DEF db
<1>6. CopyAt("building", db, s)
  BY <1>1, <1>4, <1>5 DEF CopyAt, AddsOnly, SameRows, Stored
<1>7. CandidateAddsOnly'
  <2> SUFFICES ASSUME NEW d \in Clients, pc'[d] \in Building
               PROVE  CopyAt("building", work, candidate)' /\ pc'[d] = "building"
    BY DEF CandidateAddsOnly
  <2>1. pc'[d] = "building"
    BY <1>1, <1>2 DEF IInv, TypeOK, Writing
  <2>2. QED
    BY <1>1, <1>6, <2>1 DEF BeginCandidate, CopyAt, AddsOnly, Closed, Stored
<1>8. SchemaFirst'
  BY <1>1 DEF BeginCandidate, IInv, TypeOK, SchemaFirst, Empty
<1>9. MigrationCopies'
  BY <1>1, <1>2 DEF IInv, TypeOK, MigrationCopies, Writing
<1>10. QED BY <1>3, <1>7, <1>8, <1>9 DEF CopySound

LEMMA CrashStep ==
    ASSUME IInv, NEW c \in Clients, Crash(c)
    PROVE  DiskSound' /\ CopySound'
<1>1. CASE writer = c
  BY <1>1, ReleaseStep DEF Crash
<1>2. CASE writer # c
  <2>1. pc[c] \notin Writing
    BY <1>2 DEF IInv, TypeOK
  <2>2. "down" \in Stages \ Writing
    BY DEF Stages, Writing, Building
  <2>3. QED BY <1>2, <2>1, <2>2, QuietStep DEF Crash, writerVars
<1>3. QED BY <1>1, <1>2

\* Reads, and calls refused at once.
LEMMA OtherStep ==
    ASSUME IInv, NEW c \in Clients,
           \/ Busy(c) \/ Read(c)
           \/ \E s \in Snapshots : CandidateExists(c, s)
           \/ \E k \in Kinds : BeginRead(c, k)
    PROVE  DiskSound' /\ CopySound'
<1>1. UNCHANGED writerVars /\ pc[c] \in {"down", "idle"} \union Reading
  BY DEF Busy, CandidateExists, BeginRead, Read, Pin, PinNothing, SliceLimitExceeded,
         ReadNodes, ReadSnapshotRecords, ReadLinks, ReadSources, ReadFails, Answer, Reading
<1>2. pc[c] \notin Writing
  BY <1>1 DEF Reading, Writing, Building
<1>3. CASE Busy(c) \/ \E s \in Snapshots : CandidateExists(c, s)
  <2>1. pc' = [pc EXCEPT ![c] = pc[c]] /\ pc[c] \in Stages \ Writing
    BY <1>2, <1>3 DEF Busy, CandidateExists, IInv, TypeOK
  <2>2. QED BY <1>1, <1>2, <2>1, QuietStep
<1>4. CASE Read(c) \/ \E k \in Kinds : BeginRead(c, k)
  <2>1. PICK stage \in {"idle"} \union Reading : pc' = [pc EXCEPT ![c] = stage]
    BY <1>4 DEF BeginRead, Read, Pin, PinNothing, SliceLimitExceeded,
         ReadNodes, ReadSnapshotRecords, ReadLinks, ReadSources, ReadFails, Answer, Reading
  <2>2. stage \in Stages \ Writing /\ stage # "down" /\ pc[c] # "down"
    BY <1>4 DEF BeginRead, Read, Pin, PinNothing, SliceLimitExceeded, ReadNodes,
         ReadSnapshotRecords, ReadLinks, ReadSources, ReadFails, Stages, Reading, Writing,
         Building
  <2>3. QED BY <1>1, <1>2, <2>1, <2>2, QuietStep
<1>5. QED BY <1>3, <1>4

LEMMA IInvStep == IInv /\ [Next]_vars => IInv'
<1> SUFFICES ASSUME IInv, [Next]_vars PROVE IInv'
  OBVIOUS
<1>1. TypeOK'
  BY TypeStep DEF IInv
<1>2. DiskSound' /\ CopySound'
  <2>1. CASE UNCHANGED vars
    <3>1. DiskSound'
      BY <2>1, DiskKept, IInvParts DEF vars, writerVars
    <3>2. CopySound'
      BY <2>1 DEF IInv, CopySound, SchemaFirst, MigrationCopies, CandidateAddsOnly,
                  CopyAt, AddsOnly, Closed, Stored, Empty, vars, writerVars
    <3>3. QED BY <3>1, <3>2
  <2>2. CASE Next
    <3>1. PICK c \in Clients :
             \/ Busy(c) \/ Open(c) \/ Migrate(c)
             \/ \E s \in Snapshots : BeginCandidate(c, s) \/ CandidateExists(c, s)
             \/ Build(c) \/ Publish(c)
             \/ \E k \in Kinds : BeginRead(c, k)
             \/ Read(c)
             \/ Crash(c)
      BY <2>2 DEF Next
    <3>2. CASE \E s \in Snapshots : BeginCandidate(c, s)
      BY <3>2, BeginStep
    <3>3. QED
      BY <3>1, <3>2, OtherStep, OpenStep, MigrateStep, BuildStep, PublishStep, CrashStep
  <2>3. QED BY <2>1, <2>2
<1>3. QED BY <1>1, <1>2, IInvParts

-----------------------------------------------------------------------------
(* Theorems. *)

LEMMA Invariance == Spec => []IInv
<1>1. QED BY IInvInit, IInvStep, PTL DEF Spec

\* OnlyWholeSnapshots: no step, failure or crash ever leaves a candidate on
\* disk, nor a published snapshot with an edge or conflict that leaves it.
THEOREM SnapshotsAreWhole == Spec => []OnlyWholeSnapshots
<1>1. IInv => OnlyWholeSnapshots
  BY DEF IInv
<1>2. QED BY <1>1, Invariance, PTL

\* CurrentIsNewest: the pointer is the snapshot committed last, and the
\* published snapshots are exactly those committed.
THEOREM PointerIsNewest == Spec => []CurrentIsNewest
<1>1. IInv => CurrentIsNewest
  BY DEF IInv
<1>2. QED BY <1>1, Invariance, PTL

\* What PublishedNeverChanges says of one step.
PublishedKept ==
    \A s \in Snapshots :
        disk.state[s] = "published" =>
            /\ disk'.state[s] = "published"
            /\ SnapshotOf(disk', s) = SnapshotOf(disk, s)

\* The disk is written by commits only.
LEMMA DiskWriters ==
    ASSUME [Next]_vars
    PROVE  disk' = disk \/ \E c \in Clients : Commit(c) \/ Migrate(c)
<1>1. CASE UNCHANGED vars
  BY <1>1 DEF vars, writerVars
<1>2. ASSUME NEW c \in Clients, Build(c) PROVE disk' = disk
  BY <1>2 DEF Build, InsertRecord, InsertLink, InsertRefused, SetSourceState, Abandon,
              Write, Rollback
<1>3. ASSUME NEW c \in Clients, Publish(c) PROVE disk' = disk \/ Commit(c)
  BY <1>3 DEF Publish, Validate, ValidateFails, MarkPublished, AdvanceCursors, PointCurrent,
              StatementFails, Write, Rollback
<1>4. ASSUME NEW c \in Clients, Read(c) PROVE disk' = disk
  BY <1>4 DEF Read, Pin, PinNothing, SliceLimitExceeded, ReadNodes, ReadSnapshotRecords,
              ReadLinks, ReadSources, ReadFails, Answer, writerVars
<1>5. ASSUME NEW c \in Clients,
             \/ Busy(c) \/ Open(c) \/ Crash(c)
             \/ \E s \in Snapshots : BeginCandidate(c, s) \/ CandidateExists(c, s)
             \/ \E k \in Kinds : BeginRead(c, k)
      PROVE  disk' = disk
  BY <1>5 DEF Busy, Open, Crash, BeginCandidate, CandidateExists, BeginRead, Rollback, writerVars
<1>6. QED BY <1>1, <1>2, <1>3, <1>4, <1>5 DEF Next

LEMMA PublishedKeptStep == IInv /\ [Next]_vars => PublishedKept
<1> SUFFICES ASSUME IInv, [Next]_vars, NEW s \in Snapshots, disk.state[s] = "published"
             PROVE  /\ disk'.state[s] = "published"
                    /\ SnapshotOf(disk', s) = SnapshotOf(disk, s)
  BY DEF PublishedKept
<1>1. CASE disk' = disk
  BY <1>1 DEF SnapshotOf, NodesOf, LinksOf
<1>2. CASE \E c \in Clients : Commit(c)
  <2>1. PICK c \in Clients : Commit(c)
    BY <1>2
  <2>2. disk' = work /\ AddsOnly(work, candidate) /\ candidate \in Snapshots
    BY <2>1, CopyNow DEF Commit, Building, CopyAt
  <2>3. s # candidate
    BY <2>2 DEF AddsOnly
  <2>4. /\ work.state[s] = "published"
        /\ work.members[s] = disk.members[s]
        /\ work.linked[s] = disk.linked[s]
        /\ work.sources[s] = disk.sources[s]
    BY <2>2, <2>3 DEF AddsOnly
  <2>5. Stored(disk, s) /\ disk.members[s] \subseteq Records /\ disk.linked[s] \subseteq Links
    BY DEF IInv, OnlyWholeSnapshots, TypeOK, Databases
  <2>6. \A r \in disk.members[s] : work.records[r] = disk.records[r]
    BY <2>2, <2>5 DEF AddsOnly, Stored
  <2>7. \A l \in disk.linked[s] : work.links[l] = disk.links[l]
    BY <2>2, <2>5 DEF AddsOnly, Stored
  <2>8. NodesOf(work, s) = NodesOf(disk, s) /\ LinksOf(work, s) = LinksOf(disk, s)
    BY <2>4, <2>6, <2>7 DEF NodesOf, LinksOf
  <2>9. QED BY <2>2, <2>4, <2>8 DEF SnapshotOf
<1>3. CASE \E c \in Clients : Migrate(c)
  <2>1. PICK c \in Clients : Migrate(c)
    BY <1>3
  <2>2. \/ disk' = disk
        \/ disk' = work /\ work = Empty("v1") /\ disk = Empty("none")
    BY <2>1 DEF Migrate, IInv, MigrationCopies
  <2>3. disk # Empty("none")
    BY DEF Empty
  <2>4. QED BY <1>1, <2>2, <2>3
<1>4. QED BY <1>1, <1>2, <1>3, DiskWriters

\* PublishedNeverChanges: a published snapshot keeps its records, links and
\* sources through every later step, whatever else shares its rows.
THEOREM PublishedIsImmutable == Spec => PublishedNeverChanges
<1>1. IInv /\ [Next]_vars => [PublishedKept]_vars
  BY PublishedKeptStep
<1>2. QED BY <1>1, Invariance, PTL DEF Spec, PublishedNeverChanges, PublishedKept

\* Only a commit acknowledges a publication.
LEMMA Acknowledgements ==
    ASSUME TypeOK, [Next]_vars, NEW d \in Clients, answer'[d].kind = "published"
    PROVE  answer'[d] = answer[d] \/ Commit(d)
<1>1. CASE UNCHANGED vars
  BY <1>1 DEF vars
<1>2. CASE Next
  <2>1. PICK c \in Clients :
           \/ Busy(c) \/ Open(c) \/ Migrate(c)
           \/ \E s \in Snapshots : BeginCandidate(c, s) \/ CandidateExists(c, s)
           \/ Build(c) \/ Publish(c)
           \/ \E k \in Kinds : BeginRead(c, k)
           \/ Read(c)
           \/ Crash(c)
    BY <1>2 DEF Next
  <2>2. CASE Commit(c)
    BY <2>2 DEF Commit, TypeOK
  <2>3. CASE ~Commit(c) /\ (Build(c) \/ Publish(c))
    <3>1. \/ answer' = answer
          \/ \E a \in Errors \union {NoAnswer} : answer' = [answer EXCEPT ![c] = a]
      BY <2>3 DEF Build, InsertRecord, InsertLink, InsertRefused, SetSourceState, Abandon,
           Write, Rollback, Publish, Validate, ValidateFails, MarkPublished, AdvanceCursors,
           PointCurrent, StatementFails, Errors
    <3>2. \A a \in Errors \union {NoAnswer} : a.kind # "published"
      BY DEF Errors, Refused, NoAnswer
    <3>3. QED BY <3>1, <3>2 DEF TypeOK
  <2>4. CASE Read(c)
    <3>1. \/ answer' = answer
          \/ \E a : a.kind # "published" /\ answer' = [answer EXCEPT ![c] = a]
      <4>1. CASE ReadSources(c)
        BY <4>1 DEF ReadSources, Answer
      <4>2. CASE ReadSnapshotRecords(c) \/ PinNothing(c)
        BY <4>2 DEF ReadSnapshotRecords, PinNothing, Answer
      <4>3. CASE SliceLimitExceeded(c) \/ ReadFails(c)
        BY <4>3 DEF SliceLimitExceeded, ReadFails, Answer, Refused
      <4>4. CASE Pin(c) \/ ReadNodes(c) \/ ReadLinks(c)
        BY <4>4 DEF Pin, ReadNodes, ReadLinks
      <4>5. QED BY <2>4, <4>1, <4>2, <4>3, <4>4 DEF Read
    <3>2. QED BY <3>1 DEF TypeOK
  <2>5. CASE \/ Busy(c) \/ Open(c) \/ Migrate(c) \/ Crash(c)
             \/ \E s \in Snapshots : BeginCandidate(c, s) \/ CandidateExists(c, s)
             \/ \E k \in Kinds : BeginRead(c, k)
    <3>1. \/ answer' = answer
          \/ \E a \in Errors \union {NoAnswer} : answer' = [answer EXCEPT ![c] = a]
      BY <2>5 DEF Busy, Open, Migrate, Crash, BeginCandidate, CandidateExists, BeginRead,
           NewCall, Errors
    <3>2. \A a \in Errors \union {NoAnswer} : a.kind # "published"
      BY DEF Errors, Refused, NoAnswer
    <3>3. QED BY <3>1, <3>2 DEF TypeOK
  <2>6. QED BY <2>1, <2>2, <2>3, <2>4, <2>5
<1>3. QED BY <1>1, <1>2

\* AcknowledgedIsDurable, with the identifier's type.
Acknowledged ==
    \A c \in Clients :
        answer[c].kind = "published" =>
            answer[c].id \in Snapshots /\ disk.state[answer[c].id] = "published"

LEMMA AcknowledgedStep == IInv /\ Acknowledged /\ [Next]_vars => Acknowledged'
<1> SUFFICES ASSUME IInv, Acknowledged, [Next]_vars,
                    NEW d \in Clients, answer'[d].kind = "published"
             PROVE  answer'[d].id \in Snapshots /\ disk'.state[answer'[d].id] = "published"
  BY DEF Acknowledged
<1>1. CASE answer'[d] = answer[d]
  BY <1>1, PublishedKeptStep DEF Acknowledged, PublishedKept
<1>2. CASE Commit(d)
  <2>1. /\ candidate \in Snapshots
        /\ work.state[candidate] = "published"
    BY <1>2, CopyNow DEF Commit, Building, CopyAt
  <2>2. answer'[d].id = candidate
    BY <1>2 DEF Commit, Published, IInv, TypeOK
  <2>3. QED BY <1>2, <2>1, <2>2 DEF Commit
<1>3. QED BY <1>1, <1>2, Acknowledgements DEF IInv

\* AcknowledgedIsDurable: once publish has returned Ok its snapshot stays.
THEOREM AcknowledgedStays == Spec => []AcknowledgedIsDurable
<1>1. Init => Acknowledged
  BY DEF Init, Acknowledged, NoAnswer
<1>2. Acknowledged => AcknowledgedIsDurable
  BY DEF Acknowledged, AcknowledgedIsDurable
<1>3. QED BY <1>1, <1>2, Invariance, AcknowledgedStep, PTL DEF Spec

-----------------------------------------------------------------------------
(* Cursors. *)

\* The cursors of a database after it has taken over those of snapshot n.
AdvancedBy(cursors, db, n) ==
    [x \in Sources |-> IF db.sources[n][x] \in Cursors
                       THEN [cursor |-> db.sources[n][x], of |-> n]
                       ELSE cursors[x]]

\* The copy takes the candidate's cursors over at one statement, not before.
CursorsAt(stage, db, n) ==
    db.cursors = IF stage \in {"building", "validated", "marked"} THEN disk.cursors
                 ELSE AdvancedBy(disk.cursors, db, n)

\* What CursorIsNewestPublished asks of the cursor of a source.
NewestCursor(db, order, x) ==
    LET having == {i \in DOMAIN order : db.sources[order[i]][x] \in Cursors}
    IN  IF having = {} THEN Absent
        ELSE LET newest == CHOOSE i \in having : \A j \in having : j <= i
             IN  [cursor |-> db.sources[order[newest]][x], of |-> order[newest]]

LEMMA CursorsNewest ==
    /\ CursorIsNewestPublished <=> \A x \in Sources : disk.cursors[x] = NewestCursor(disk, log, x)
    /\ CursorIsNewestPublished' <=>
          \A x \in Sources : disk'.cursors[x] = NewestCursor(disk', log', x)
BY DEF CursorIsNewestPublished, NewestCursor

CursorInv ==
    /\ CursorIsNewestPublished
    /\ \A c \in Clients : pc[c] \in Building => CursorsAt(pc[c], work, candidate)

\* A step that leaves the disk alone and no other copy than there was.
LEMMA CursorsKept ==
    ASSUME IInv, CursorInv, UNCHANGED <<disk, log>>,
           \A d \in Clients :
               pc'[d] \in Building => pc'[d] = pc[d] /\ UNCHANGED <<work, candidate>>
    PROVE  CursorInv'
<1>1. CursorIsNewestPublished' BY CursorsNewest DEF CursorInv
<1>2. ASSUME NEW d \in Clients, pc'[d] \in Building PROVE CursorsAt(pc[d], work, candidate)'
  BY <1>2 DEF CursorInv, CursorsAt, AdvancedBy
<1>3. QED BY <1>1, <1>2 DEF CursorInv

\* The other clients are not building while one is.
LEMMA OneBuilder ==
    ASSUME TypeOK, NEW c \in Clients, writer = c \/ writer = Absent,
           NEW stage, pc' = [pc EXCEPT ![c] = stage]
    PROVE  /\ pc'[c] = stage
           /\ \A d \in Clients : pc'[d] \in Building => d = c
BY StoreAssumption DEF TypeOK, Writing

LEMMA CursorsReleased ==
    ASSUME IInv, CursorInv, NEW c \in Clients, writer = c, UNCHANGED <<disk, log>>,
           NEW stage \in {"idle", "down"}, pc' = [pc EXCEPT ![c] = stage]
    PROVE  CursorInv'
<1>1. \A d \in Clients : pc'[d] \notin Building BY OneBuilder DEF IInv, Building
<1>2. QED BY <1>1, CursorsKept

\* A client without the lock builds neither before nor after.
LEMMA CursorsElsewhere ==
    ASSUME IInv, CursorInv, NEW c \in Clients, UNCHANGED writerVars,
           NEW stage \in Stages \ Writing, pc' = [pc EXCEPT ![c] = stage]
    PROVE  CursorInv'
<1>1. \A d \in Clients : pc'[d] \in Building => pc'[d] = pc[d]
  BY DEF IInv, TypeOK, Writing
<1>2. QED BY <1>1, CursorsKept DEF writerVars

LEMMA CursorsWritten ==
    ASSUME IInv, CursorInv, NEW c \in Clients, NEW from \in Building, NEW to \in Building,
           NEW db, Write(c, from, to, db), CursorsAt(to, db, candidate)
    PROVE  CursorInv'
<1>1. /\ pc' = [pc EXCEPT ![c] = to] /\ pc[c] \in Building /\ work' = db
      /\ UNCHANGED <<disk, log, candidate>>
  BY DEF Write
<1>2. writer = c BY <1>1, BuilderHolds DEF IInv
<1>3. pc'[c] = to /\ \A d \in Clients : pc'[d] \in Building => d = c
  BY <1>1, <1>2, OneBuilder DEF IInv
<1>4. CursorIsNewestPublished' BY <1>1, CursorsNewest DEF CursorInv
<1>5. CursorsAt(to, work, candidate)' BY <1>1 DEF CursorsAt, AdvancedBy
<1>6. QED BY <1>3, <1>4, <1>5 DEF CursorInv

\* A statement that changes neither the cursors of the copy nor, once they are
\* taken over, the sources they were taken from.
LEMMA CursorsUntouched ==
    ASSUME IInv, CursorInv, NEW c \in Clients, NEW from \in Building, NEW to \in Building,
           NEW db, Write(c, from, to, db), db.cursors = work.cursors,
           \/ {from, to} \subseteq {"building", "validated", "marked"}
           \/ {from, to} \subseteq {"advanced", "pointed"} /\ db.sources = work.sources
    PROVE  CursorInv'
<1>1. pc[c] = from BY DEF Write
<1>2. CursorsAt(from, work, candidate) BY <1>1 DEF CursorInv
<1>3. CursorsAt(to, db, candidate) BY <1>2 DEF CursorsAt, AdvancedBy
<1>4. QED BY <1>3, CursorsWritten

LEMMA CursorsBuild ==
    ASSUME IInv, CursorInv, NEW c \in Clients, Build(c)
    PROVE  CursorInv'
<1>1. pc[c] = "building" /\ "building" \in Building
  BY DEF Build, InsertRecord, InsertLink, SetSourceState, InsertRefused, Abandon, Write,
         Building
<1>2. writer = c /\ work \in Databases /\ candidate \in Snapshots
  BY <1>1, BuilderHolds DEF IInv
<1>3. CASE InsertRefused(c) \/ Abandon(c)
  <2>1. UNCHANGED <<disk, log>> /\ pc' = [pc EXCEPT ![c] = "idle"]
    BY <1>3 DEF InsertRefused, Abandon, Rollback
  <2>2. QED BY <1>2, <2>1, CursorsReleased
<1>4. CASE ~InsertRefused(c) /\ ~Abandon(c)
  <2>1. PICK db : Write(c, "building", "building", db) /\ db.cursors = work.cursors
    <3>1. CASE \E r \in Records, content \in Contents : InsertRecord(c, r, content)
      <4>1. PICK r \in Records, content \in Contents : InsertRecord(c, r, content) BY <3>1
      <4> DEFINE db == [work EXCEPT !.records[r] = content, !.members[candidate] = @ \union {r}]
      <4>2. db.cursors = work.cursors BY <1>2 DEF Databases
      <4>3. QED BY <4>1, <4>2 DEF InsertRecord
    <3>2. CASE \E l \in Links : \E row \in Rows[l] : InsertLink(c, l, row)
      <4>1. PICK l \in Links : \E row \in Rows[l] : InsertLink(c, l, row) BY <3>2
      <4>2. PICK row \in Rows[l] : InsertLink(c, l, row) BY <4>1
      <4> DEFINE db == [work EXCEPT !.links[l] = row, !.linked[candidate] = @ \union {l}]
      <4>3. db.cursors = work.cursors BY <1>2 DEF Databases
      <4>4. QED BY <4>2, <4>3 DEF InsertLink
    <3>3. CASE \E x \in Sources, cursor \in Cursors \union {Null} : SetSourceState(c, x, cursor)
      <4>1. PICK x \in Sources, cursor \in Cursors \union {Null} : SetSourceState(c, x, cursor)
        BY <3>3
      <4> DEFINE db == [work EXCEPT !.sources[candidate][x] = cursor]
      <4>2. db.cursors = work.cursors BY <1>2 DEF Databases
      <4>3. QED BY <4>1, <4>2 DEF SetSourceState
    <3>4. QED BY <1>4, <3>1, <3>2, <3>3 DEF Build
  <2>2. QED BY <1>1, <2>1, CursorsUntouched
<1>5. QED BY <1>3, <1>4

\* The newest snapshot with a cursor for a source, before and after one more.
LEMMA CursorsCommit ==
    ASSUME IInv, CursorInv, NEW c \in Clients, Commit(c)
    PROVE  CursorInv'
<1>1. pc[c] = "pointed" /\ pc[c] \in Building BY DEF Commit, Building
<1>2. /\ writer = c /\ work \in Databases /\ candidate \in Snapshots
      /\ AddsOnly(work, candidate)
  BY <1>1, CopyNow DEF CopyAt
<1>3. work.cursors = AdvancedBy(disk.cursors, work, candidate)
  BY <1>1 DEF CursorInv, CursorsAt
<1>4. disk' = work /\ log' = Append(log, candidate) /\ pc' = [pc EXCEPT ![c] = "idle"]
  BY DEF Commit
<1>5. \A d \in Clients : pc'[d] \notin Building
  BY <1>2, <1>4, OneBuilder DEF IInv, Building
<1> DEFINE n == Len(log) + 1
<1>6. /\ Len(log) \in Nat /\ n \in Nat /\ n \notin DOMAIN log /\ DOMAIN log = 1 .. Len(log)
      /\ DOMAIN log' = DOMAIN log \union {n} /\ log'[n] = candidate
      /\ \A i \in DOMAIN log : log'[i] = log[i] /\ log[i] \in Snapshots
  BY <1>2, <1>4 DEF IInv, TypeOK
<1>7. \A i \in DOMAIN log : work.sources[log[i]] = disk.sources[log[i]]
  <2>1. \A i \in DOMAIN log : disk.state[log[i]] = "published"
    BY <1>6 DEF IInv, CurrentIsNewest
  <2>2. QED BY <1>2, <1>6, <2>1 DEF AddsOnly
<1>8. \A i \in DOMAIN log : i <= n BY <1>6
<1> HIDE DEF n
<1>9. CursorIsNewestPublished'
  <2> SUFFICES ASSUME NEW x \in Sources
               PROVE  work.cursors[x] = NewestCursor(work, log', x)
    BY <1>4, CursorsNewest
  <2> DEFINE before == {i \in DOMAIN log : disk.sources[log[i]][x] \in Cursors}
             having == {i \in DOMAIN log' : work.sources[log'[i]][x] \in Cursors}
             newest(S) == CHOOSE i \in S : \A j \in S : j <= i
  <2>1. disk.cursors[x] =
            IF before = {} THEN Absent
            ELSE [cursor |-> disk.sources[log[newest(before)]][x], of |-> log[newest(before)]]
    BY CursorsNewest DEF CursorInv, NewestCursor
  <2>2. CASE work.sources[candidate][x] \in Cursors
    <3>1. n \in having /\ \A j \in having : j <= n BY <1>6, <1>8, <2>2
    <3>2. \A i \in having : (\A j \in having : j <= i) => i = n
      <4>1. having \subseteq Nat BY <1>6
      <4>2. QED BY <3>1, <4>1, <1>6
    <3> HIDE DEF having
    <3>3. newest(having) = n BY <3>1, <3>2
    <3>4. work.cursors[x] = [cursor |-> work.sources[candidate][x], of |-> candidate]
      BY <1>3, <2>2 DEF AdvancedBy
    <3>5. QED BY <1>6, <3>1, <3>3, <3>4 DEF having, NewestCursor
  <2>3. CASE work.sources[candidate][x] \notin Cursors
    <3>1. having = before BY <1>6, <1>7, <2>3
    <3>2. work.cursors[x] = disk.cursors[x] BY <1>3, <2>3 DEF AdvancedBy
    <3>3. CASE before = {} BY <2>1, <3>1, <3>2, <3>3 DEF NewestCursor
    <3>4. CASE before # {}
      <4>1. before \subseteq 1 .. Len(log) BY <1>6
      <4> HIDE DEF before, having
      <4>2. PICK k \in before : \A j \in before : j <= k
        BY <1>6, <3>4, <4>1, GreatestElement
      <4>3. newest(before) \in before BY <4>2
      <4>4. newest(before) \in DOMAIN log BY <4>3 DEF before
      <4>5. newest(having) = newest(before) BY <3>1
      <4>6. /\ log'[newest(having)] = log[newest(before)]
            /\ work.sources[log[newest(before)]] = disk.sources[log[newest(before)]]
        BY <1>6, <1>7, <4>4, <4>5
      <4>7. QED BY <2>1, <3>1, <3>2, <3>4, <4>6 DEF having, NewestCursor
    <3>5. QED BY <3>3, <3>4
  <2>4. QED BY <2>2, <2>3
<1>10. QED BY <1>5, <1>9 DEF CursorInv

LEMMA CursorsPublish ==
    ASSUME IInv, CursorInv, NEW c \in Clients, Publish(c)
    PROVE  CursorInv'
<1>1. pc[c] \in Building
  BY DEF Publish, Validate, ValidateFails, MarkPublished, AdvanceCursors, PointCurrent,
         Commit, StatementFails, Building
<1>2. writer = c /\ work \in Databases /\ candidate \in Snapshots
  BY <1>1, BuilderHolds DEF IInv
<1>3. CASE Validate(c)
  BY <1>3, CursorsUntouched DEF Validate, Building
<1>4. CASE MarkPublished(c)
  <2> DEFINE db == [work EXCEPT !.state[candidate] = "published"]
  <2>1. db.cursors = work.cursors BY <1>2 DEF Databases
  <2>2. Write(c, "marked", "marked", db) \/ Write(c, "validated", "marked", db)
    BY <1>4 DEF MarkPublished
  <2> HIDE DEF db
  <2>3. QED BY <2>1, <2>2, CursorsUntouched DEF Building
<1>5. CASE PointCurrent(c)
  <2> DEFINE db == [work EXCEPT !.current = candidate]
  <2>1. db.cursors = work.cursors /\ db.sources = work.sources BY <1>2 DEF Databases
  <2>2. Write(c, "advanced", "pointed", db) BY <1>5 DEF PointCurrent
  <2> HIDE DEF db
  <2>3. QED BY <2>1, <2>2, CursorsUntouched DEF Building
<1>6. CASE AdvanceCursors(c)
  <2> DEFINE db == [work EXCEPT !.cursors = AdvancedBy(work.cursors, work, candidate)]
  <2>1. Write(c, "marked", "advanced", db) BY <1>6 DEF AdvanceCursors, AdvancedBy
  <2>2. /\ db.sources = work.sources
        /\ db.cursors = AdvancedBy(work.cursors, work, candidate)
    BY <1>2 DEF Databases
  <2> HIDE DEF db
  <2>3. work.cursors = disk.cursors BY <1>6 DEF AdvanceCursors, CursorInv, CursorsAt, Building
  <2>4. CursorsAt("advanced", db, candidate) BY <2>2, <2>3 DEF CursorsAt, AdvancedBy
  <2>5. QED BY <2>1, <2>4, CursorsWritten DEF Building
<1>7. CASE ValidateFails(c) \/ StatementFails(c)
  <2>1. UNCHANGED <<disk, log>> /\ pc' = [pc EXCEPT ![c] = "idle"]
    BY <1>7 DEF ValidateFails, StatementFails, Rollback
  <2>2. QED BY <1>2, <2>1, CursorsReleased
<1>8. QED BY <1>3, <1>4, <1>5, <1>6, <1>7, CursorsCommit DEF Publish

LEMMA CursorsMigrate ==
    ASSUME IInv, CursorInv, NEW c \in Clients, Migrate(c)
    PROVE  CursorInv'
<1>1. writer = c /\ log' = log BY DEF Migrate, IInv, TypeOK, Writing
<1>2. PICK stage \in {"idle", "down"} : pc' = [pc EXCEPT ![c] = stage] BY DEF Migrate
<1>3. CASE disk' = disk BY <1>1, <1>2, <1>3, CursorsReleased
<1>4. CASE disk' # disk
  <2>1. disk' = Empty("v1") /\ disk = Empty("none")
    BY <1>4 DEF Migrate, IInv, MigrationCopies
  <2>2. disk'.cursors = disk.cursors /\ disk'.sources = disk.sources
    BY <2>1 DEF Empty
  <2>3. \A x \in Sources : NewestCursor(disk', log', x) = NewestCursor(disk, log, x)
    BY <1>1, <2>2 DEF NewestCursor
  <2>4. CursorIsNewestPublished' BY <2>2, <2>3, CursorsNewest DEF CursorInv
  <2>5. \A d \in Clients : pc'[d] \notin Building
    BY <1>1, <1>2, OneBuilder DEF IInv, Building
  <2>6. QED BY <2>4, <2>5 DEF CursorInv
<1>5. QED BY <1>3, <1>4

LEMMA CursorsBegin ==
    ASSUME IInv, CursorInv, NEW c \in Clients, NEW s \in Snapshots, BeginCandidate(c, s)
    PROVE  CursorInv'
<1> DEFINE db == [disk EXCEPT !.state[s] = "candidate"]
<1>1. /\ writer = Absent /\ pc' = [pc EXCEPT ![c] = "building"]
      /\ work' = db /\ UNCHANGED <<disk, log>>
  BY DEF BeginCandidate, Lock
<1>2. db.cursors = disk.cursors BY DEF IInv, TypeOK, Databases
<1> HIDE DEF db
<1>3. pc'[c] = "building" /\ \A d \in Clients : pc'[d] \in Building => d = c
  BY <1>1, OneBuilder DEF IInv
<1>4. CursorIsNewestPublished' BY <1>1, CursorsNewest DEF CursorInv
<1>5. CursorsAt("building", work, candidate)' BY <1>1, <1>2 DEF CursorsAt
<1>6. QED BY <1>3, <1>4, <1>5 DEF CursorInv

\* Opening takes the lock but builds nothing; the rest is done without it.
LEMMA CursorsOther ==
    ASSUME IInv, CursorInv, NEW c \in Clients,
           \/ Busy(c) \/ Open(c) \/ Read(c) \/ Crash(c)
           \/ \E s \in Snapshots : CandidateExists(c, s)
           \/ \E k \in Kinds : BeginRead(c, k)
    PROVE  CursorInv'
<1>1. UNCHANGED <<disk, log>>
  BY DEF Busy, Open, Crash, CandidateExists, BeginRead, Read, Pin, PinNothing,
         SliceLimitExceeded, ReadNodes, ReadSnapshotRecords, ReadLinks, ReadSources,
         ReadFails, Answer, writerVars
<1>2. CASE Open(c)
  <2>1. writer = Absent /\ pc' = [pc EXCEPT ![c] = "migrating"] BY <1>2 DEF Open, Lock
  <2>2. \A d \in Clients : pc'[d] \notin Building
    BY <2>1, OneBuilder DEF IInv, Building
  <2>3. QED BY <1>1, <2>2, CursorsKept
<1>3. CASE Crash(c) /\ writer = c
  BY <1>1, <1>3, CursorsReleased DEF Crash
<1>4. CASE ~Open(c) /\ ~(Crash(c) /\ writer = c)
  <2>1. UNCHANGED writerVars
    BY <1>1, <1>4 DEF Busy, Crash, CandidateExists, BeginRead, Read, Pin, PinNothing,
         SliceLimitExceeded, ReadNodes, ReadSnapshotRecords, ReadLinks, ReadSources,
         ReadFails, Answer, writerVars
  <2>2. \/ pc' = pc
        \/ \E stage \in {"down", "idle"} \union Reading : pc' = [pc EXCEPT ![c] = stage]
    BY <1>4 DEF Busy, Crash, CandidateExists, BeginRead, Read, Pin, PinNothing,
         SliceLimitExceeded, ReadNodes, ReadSnapshotRecords, ReadLinks, ReadSources,
         ReadFails, Answer, Reading
  <2>3. {"down", "idle"} \union Reading \subseteq Stages \ Writing
    BY DEF Stages, Reading, Writing, Building
  <2>4. CASE pc' = pc BY <2>1, <2>4, CursorsKept DEF writerVars
  <2>5. QED BY <2>1, <2>2, <2>3, <2>4, CursorsElsewhere
<1>5. QED BY <1>2, <1>3, <1>4

LEMMA CursorStep == IInv /\ CursorInv /\ [Next]_vars => CursorInv'
<1> SUFFICES ASSUME IInv, CursorInv, [Next]_vars PROVE CursorInv'
  OBVIOUS
<1>1. CASE UNCHANGED vars
  BY <1>1, CursorsKept DEF vars, writerVars
<1>2. CASE Next
  <2>1. PICK c \in Clients :
           \/ Busy(c) \/ Open(c) \/ Migrate(c)
           \/ \E s \in Snapshots : BeginCandidate(c, s) \/ CandidateExists(c, s)
           \/ Build(c) \/ Publish(c)
           \/ \E k \in Kinds : BeginRead(c, k)
           \/ Read(c)
           \/ Crash(c)
    BY <1>2 DEF Next
  <2>2. CASE \E s \in Snapshots : BeginCandidate(c, s)
    BY <2>2, CursorsBegin
  <2>3. QED
    BY <2>1, <2>2, CursorsOther, CursorsMigrate, CursorsBuild, CursorsPublish
<1>3. QED BY <1>1, <1>2

LEMMA CursorInit == Init => CursorInv
<1> SUFFICES ASSUME Init PROVE CursorInv
  OBVIOUS
<1>1. \A c \in Clients : pc[c] \notin Building BY DEF Init, Building
<1>2. log = <<>> /\ DOMAIN log = {} /\ \A x \in Sources : disk.cursors[x] = Absent
  BY DEF Init, Empty
<1>3. \A x \in Sources : NewestCursor(disk, log, x) = Absent BY <1>2 DEF NewestCursor
<1>4. QED BY <1>1, <1>2, <1>3, CursorsNewest DEF CursorInv

\* CursorIsNewestPublished: synchronisation resumes a source from the newest
\* snapshot that had a cursor for it, whatever was abandoned, refused, failed or
\* lost in between.
THEOREM CursorsAreNewest == Spec => []CursorIsNewestPublished
<1>1. CursorInv => CursorIsNewestPublished BY DEF CursorInv
<1>2. QED BY <1>1, CursorInit, CursorStep, Invariance, PTL DEF Spec

-----------------------------------------------------------------------------
(* Reads. *)

AfterPin == {"nodes", "links", "sources"}

\* Where a client stands in a read, and what it has to show for it: the target
\* was the current snapshot at some moment of the read, the rows it has are that
\* snapshot's, and the slice its last read returned is one that was published.
Reads(c) ==
    /\ pc[c] \in Reading <=> since[c] # Absent
    /\ since[c] # Absent => since[c] <= Len(log)
    /\ pc[c] \in Writing => answer[c] = NoAnswer
    /\ answer[c].kind = "slice" =>
          \E i \in DOMAIN log :
              answer[c] = [kind |-> "slice", snapshot |-> SnapshotOf(disk, log[i])]
    /\ DOMAIN got[c] = {"nodes", "links", "sources"}
    /\ pc[c] \in {"pin", "sources"} => kind[c] # "records"
    /\ pc[c] = "nodes" => kind[c] # "freshness"
    /\ pc[c] = "links" => kind[c] = "slice"
    /\ pc[c] \in AfterPin /\ kind[c] = "records" =>
          answer[c].kind = "slice" /\ answer[c].snapshot.id = target[c]
    /\ pc[c] \in AfterPin /\ kind[c] # "records" =>
          \E i \in DOMAIN log : since[c] <= i /\ log[i] = target[c]
    /\ pc[c] \in AfterPin /\ kind[c] = "slice" =>
          SnapshotOf(view[c], target[c]) = SnapshotOf(disk, target[c])
    /\ pc[c] \in {"links", "sources"} /\ kind[c] = "slice" =>
          got[c].nodes = NodesOf(disk, target[c])
    /\ pc[c] = "sources" /\ kind[c] = "slice" => got[c].links = LinksOf(disk, target[c])

ReaderInv ==
    /\ DOMAIN view = Clients /\ DOMAIN got = Clients
    /\ \A c \in Clients : Reads(c)

\* The log only grows, and its snapshots stay what they are.
LogGrows ==
    /\ Len(log) \in Nat /\ Len(log') \in Nat /\ Len(log) <= Len(log')
    /\ DOMAIN log = 1 .. Len(log) /\ DOMAIN log' = 1 .. Len(log')
    /\ \A i \in DOMAIN log :
          /\ i \in DOMAIN log' /\ log'[i] = log[i]
          /\ SnapshotOf(disk', log[i]) = SnapshotOf(disk, log[i])

LEMMA LogGrowsStep ==
    ASSUME IInv, [Next]_vars
    PROVE  LogGrows
<1>1. log' = log \/ \E c \in Clients : Commit(c)
  <2>1. CASE UNCHANGED vars
    BY <2>1 DEF vars, writerVars
  <2>2. ASSUME NEW c \in Clients, Build(c) PROVE log' = log
    BY <2>2 DEF Build, InsertRecord, InsertLink, InsertRefused, SetSourceState, Abandon,
                Write, Rollback
  <2>3. ASSUME NEW c \in Clients, Publish(c) PROVE log' = log \/ Commit(c)
    BY <2>3 DEF Publish, Validate, ValidateFails, MarkPublished, AdvanceCursors,
                PointCurrent, StatementFails, Write, Rollback
  <2>4. ASSUME NEW c \in Clients, Read(c) PROVE log' = log
    BY <2>4 DEF Read, Pin, PinNothing, SliceLimitExceeded, ReadNodes, ReadSnapshotRecords,
                ReadLinks, ReadSources, ReadFails, Answer, writerVars
  <2>5. ASSUME NEW c \in Clients,
               \/ Busy(c) \/ Open(c) \/ Migrate(c) \/ Crash(c)
               \/ \E s \in Snapshots : BeginCandidate(c, s) \/ CandidateExists(c, s)
               \/ \E k \in Kinds : BeginRead(c, k)
        PROVE  log' = log
    BY <2>5 DEF Busy, Open, Migrate, Crash, BeginCandidate, CandidateExists, BeginRead,
                writerVars
  <2>6. QED BY <2>1, <2>2, <2>3, <2>4, <2>5 DEF Next
<1>2. log \in Seq(Snapshots) /\ Len(log) \in Nat /\ DOMAIN log = 1 .. Len(log)
  BY DEF IInv, TypeOK
<1>3. ASSUME NEW i \in DOMAIN log
      PROVE  log[i] \in Snapshots /\ SnapshotOf(disk', log[i]) = SnapshotOf(disk, log[i])
  <2>1. log[i] \in Snapshots BY <1>2, <1>3
  <2>2. disk.state[log[i]] = "published" BY <1>3, <2>1 DEF IInv, CurrentIsNewest
  <2>3. QED BY <2>1, <2>2, PublishedKeptStep DEF PublishedKept
<1>4. CASE log' = log
  BY <1>2, <1>3, <1>4 DEF LogGrows
<1>5. CASE \E c \in Clients : Commit(c)
  <2>1. candidate \in Snapshots /\ log' = Append(log, candidate)
    BY <1>5, CopyNow DEF Commit, Building
  <2>2. /\ Len(log') = Len(log) + 1 /\ DOMAIN log' = 1 .. Len(log')
        /\ \A i \in 1 .. Len(log) : log'[i] = log[i]
    BY <1>2, <2>1
  <2>3. Len(log') \in Nat /\ Len(log) <= Len(log') BY <1>2, <2>2
  <2>4. \A i \in 1 .. Len(log) : i \in 1 .. Len(log') BY <1>2, <2>2
  <2>5. QED BY <1>2, <1>3, <2>2, <2>3, <2>4 DEF LogGrows
<1>6. QED BY <1>1, <1>4, <1>5

\* What snapshots have in common has the same parts.
LEMMA SnapshotParts ==
    ASSUME NEW db, NEW other, NEW s, SnapshotOf(db, s) = SnapshotOf(other, s)
    PROVE  /\ NodesOf(db, s) = NodesOf(other, s)
           /\ LinksOf(db, s) = LinksOf(other, s)
           /\ db.sources[s] = other.sources[s]
BY DEF SnapshotOf

\* A target is a published snapshot, and so the same before and after.
LEMMA TargetKept ==
    ASSUME IInv, LogGrows, NEW c \in Clients, Reads(c), pc[c] \in AfterPin
    PROVE  /\ \E i \in DOMAIN log : log[i] = target[c]
           /\ SnapshotOf(disk', target[c]) = SnapshotOf(disk, target[c])
<1>1. \E i \in DOMAIN log : log[i] = target[c]
  <2>1. CASE kind[c] = "records"
    <3>1. answer[c].kind = "slice" /\ answer[c].snapshot.id = target[c] BY <2>1 DEF Reads
    <3>2. PICK i \in DOMAIN log :
             answer[c] = [kind |-> "slice", snapshot |-> SnapshotOf(disk, log[i])]
      BY <3>1 DEF Reads
    <3>3. SnapshotOf(disk, log[i]).id = log[i] BY DEF SnapshotOf
    <3>4. QED BY <3>1, <3>2, <3>3
  <2>2. CASE kind[c] # "records"
    BY <2>2 DEF Reads
  <2>3. QED BY <2>1, <2>2
<1>2. QED BY <1>1 DEF LogGrows

\* A client that a step does not concern reads on as it did.
LEMMA ReadsKept ==
    ASSUME IInv, LogGrows, NEW c \in Clients, Reads(c),
           pc'[c] = pc[c], kind'[c] = kind[c], view'[c] = view[c], target'[c] = target[c],
           got'[c] = got[c], answer'[c] = answer[c], since'[c] = since[c]
    PROVE  Reads(c)'
<1>1. since[c] # Absent => since[c] \in Nat BY DEF IInv, TypeOK
<1>2. since[c] # Absent => since[c] <= Len(log') BY <1>1 DEF Reads, LogGrows
<1>3. answer[c].kind = "slice" =>
          \E i \in DOMAIN log' :
              answer[c] = [kind |-> "slice", snapshot |-> SnapshotOf(disk', log'[i])]
  <2>1. HAVE answer[c].kind = "slice"
  <2>2. PICK i \in DOMAIN log :
           answer[c] = [kind |-> "slice", snapshot |-> SnapshotOf(disk, log[i])]
    BY <2>1 DEF Reads
  <2>3. i \in DOMAIN log' /\ SnapshotOf(disk', log'[i]) = SnapshotOf(disk, log[i])
    BY DEF LogGrows
  <2>4. QED BY <2>2, <2>3
<1>4. pc[c] \in AfterPin /\ kind[c] # "records" =>
          \E i \in DOMAIN log' : since[c] <= i /\ log'[i] = target[c]
  BY DEF Reads, LogGrows
<1>5. pc[c] \in AfterPin =>
          /\ SnapshotOf(disk', target[c]) = SnapshotOf(disk, target[c])
          /\ NodesOf(disk', target[c]) = NodesOf(disk, target[c])
          /\ LinksOf(disk', target[c]) = LinksOf(disk, target[c])
  BY TargetKept, SnapshotParts
<1>6. (pc[c] \in {"links", "sources"} => pc[c] \in AfterPin)
      /\ (pc[c] = "sources" => pc[c] \in AfterPin)
  BY DEF AfterPin
<1>7. QED BY <1>2, <1>3, <1>4, <1>5, <1>6 DEF Reads

\* A client between calls, whose last answer is no slice.
LEMMA ReadsNothing ==
    ASSUME NEW c \in Clients, pc'[c] \notin Reading, since'[c] = Absent,
           DOMAIN got'[c] = {"nodes", "links", "sources"},
           answer'[c].kind # "slice", pc'[c] \in Writing => answer'[c] = NoAnswer
    PROVE  Reads(c)'
BY DEF Reads, Reading, AfterPin

\* The answers of the three reads, and those of the other calls.
ReadKinds == {"empty", "slice", "freshness", "records"}

\* A step of client c leaves the reads of the others alone.
Concerns(c) ==
    /\ DOMAIN view' = Clients /\ DOMAIN got' = Clients
    /\ \A d \in Clients \ {c} :
          /\ pc'[d] = pc[d] /\ kind'[d] = kind[d] /\ view'[d] = view[d]
          /\ target'[d] = target[d] /\ got'[d] = got[d]
          /\ answer'[d] = answer[d] /\ since'[d] = since[d]

LEMMA OneReader ==
    ASSUME IInv, LogGrows, ReaderInv, NEW c \in Clients, Concerns(c), Reads(c)'
    PROVE  ReaderInv'
<1>1. ASSUME NEW d \in Clients \ {c} PROVE Reads(d)'
  BY ReadsKept DEF Concerns, ReaderInv
<1>2. QED BY <1>1 DEF Concerns, ReaderInv

\* A call that returns no evidence, or gives a read up.
Forgets(c) ==
    /\ log' = log
    /\ since' = [since EXCEPT ![c] = Absent]
    /\ \E a : a.kind \notin ReadKinds /\ answer' = [answer EXCEPT ![c] = a]

LEMMA Unread ==
    ASSUME IInv, ReaderInv, NEW c \in Clients, pc[c] \notin Reading
    PROVE  /\ since[c] = Absent /\ since = [since EXCEPT ![c] = Absent]
           /\ DOMAIN got[c] = {"nodes", "links", "sources"}
           /\ pc[c] \in Writing => answer[c] = NoAnswer
BY DEF IInv, TypeOK, ReaderInv, Reads

LEMMA RefusalKinds ==
    /\ NoAnswer.kind \notin ReadKinds
    /\ \A reason : Refused(reason).kind \notin ReadKinds
    /\ \A s : Published(s).kind \notin ReadKinds
BY DEF NoAnswer, Refused, Published, ReadKinds

\* A call of a client that is not reading: it neither holds a slice afterwards
\* nor has it begun to read.
LEMMA CallEnds ==
    ASSUME IInv, ReaderInv, NEW c \in Clients, pc[c] \notin Reading,
           UNCHANGED <<readerVars, log>>,
           NEW stage, stage \notin Reading, pc' = [pc EXCEPT ![c] = stage],
           NEW a, a.kind \notin ReadKinds, answer' = [answer EXCEPT ![c] = a],
           stage \in Writing => a = NoAnswer
    PROVE  Reads(c)' /\ Concerns(c) /\ Forgets(c)
<1>1. pc'[c] = stage /\ answer'[c] = a BY DEF IInv, TypeOK
<1>2. since'[c] = Absent /\ DOMAIN got'[c] = {"nodes", "links", "sources"}
  BY Unread DEF readerVars
<1>3. Reads(c)' BY <1>1, <1>2, ReadsNothing DEF ReadKinds
<1>4. Concerns(c) BY DEF Concerns, ReaderInv, readerVars, IInv, TypeOK
<1>5. Forgets(c) BY Unread DEF Forgets, readerVars
<1>6. QED BY <1>3, <1>4, <1>5

\* A statement of a candidate.
LEMMA StatementUnread ==
    ASSUME IInv, ReaderInv, NEW c \in Clients, pc[c] \in Building,
           NEW to \in Building, pc' = [pc EXCEPT ![c] = to],
           UNCHANGED <<readerVars, log, answer>>
    PROVE  Reads(c)' /\ Concerns(c)
<1>1. pc[c] \notin Reading /\ pc[c] \in Writing /\ to \notin Reading /\ to \in Writing
  BY DEF Building, Reading, Writing
<1>2. pc'[c] = to /\ answer'[c] = NoAnswer BY <1>1, Unread DEF IInv, TypeOK
<1>3. since'[c] = Absent /\ DOMAIN got'[c] = {"nodes", "links", "sources"}
  BY <1>1, Unread DEF readerVars
<1>4. answer'[c].kind # "slice" BY <1>2 DEF NoAnswer
<1>5. Reads(c)' BY <1>1, <1>2, <1>3, <1>4, ReadsNothing
<1>6. Concerns(c) BY DEF Concerns, ReaderInv, readerVars, IInv, TypeOK
<1>7. QED BY <1>5, <1>6

LEMMA BuildUnread ==
    ASSUME IInv, ReaderInv, NEW c \in Clients, Build(c) \/ Publish(c), ~Commit(c)
    PROVE  /\ Reads(c)' /\ Concerns(c)
           /\ Forgets(c) \/ UNCHANGED <<log, since, answer>>
<1>1. pc[c] \in Building
  BY DEF Build, InsertRecord, InsertLink, InsertRefused, SetSourceState, Abandon, Write,
         Publish, Validate, ValidateFails, MarkPublished, AdvanceCursors, PointCurrent,
         StatementFails, Building
<1>2. \/ \E to \in Building : pc' = [pc EXCEPT ![c] = to]
         /\ UNCHANGED <<readerVars, log, answer>>
      \/ \E a : a.kind \notin ReadKinds /\ Rollback(c, a)
  <2>1. CASE InsertRefused(c) \/ Abandon(c)
    BY <2>1, RefusalKinds DEF InsertRefused, Abandon
  <2>2. CASE ValidateFails(c) \/ StatementFails(c)
    BY <2>2, RefusalKinds DEF ValidateFails, StatementFails
  <2>3. ASSUME NEW from, NEW to \in Building, NEW db, Write(c, from, to, db)
        PROVE  pc' = [pc EXCEPT ![c] = to] /\ UNCHANGED <<readerVars, log, answer>>
    BY <2>3 DEF Write
  <2>4. CASE \/ \E r \in Records, content \in Contents : InsertRecord(c, r, content)
             \/ \E l \in Links : \E row \in Rows[l] : InsertLink(c, l, row)
             \/ \E x \in Sources, cursor \in Cursors \union {Null} :
                    SetSourceState(c, x, cursor)
    <3>1. \E db : Write(c, "building", "building", db)
      BY <2>4 DEF InsertRecord, InsertLink, SetSourceState
    <3>2. "building" \in Building BY DEF Building
    <3>3. QED BY <3>1, <3>2, <2>3
  <2>5. CASE Validate(c) \/ MarkPublished(c) \/ AdvanceCursors(c) \/ PointCurrent(c)
    <3>1. \E from, db, to : to \in Building /\ Write(c, from, to, db)
      <4>1. {"validated", "marked", "advanced", "pointed"} \subseteq Building
        BY DEF Building
      <4>2. CASE Validate(c) BY <4>1, <4>2 DEF Validate
      <4>3. CASE MarkPublished(c) BY <4>1, <4>3 DEF MarkPublished
      <4>4. CASE AdvanceCursors(c) BY <4>1, <4>4 DEF AdvanceCursors
      <4>5. CASE PointCurrent(c) BY <4>1, <4>5 DEF PointCurrent
      <4>6. QED BY <2>5, <4>2, <4>3, <4>4, <4>5
    <3>2. QED BY <3>1, <2>3
  <2>6. QED BY <2>1, <2>2, <2>4, <2>5 DEF Build, Publish
<1>3. CASE \E to \in Building : pc' = [pc EXCEPT ![c] = to]
           /\ UNCHANGED <<readerVars, log, answer>>
  <2>1. Reads(c)' /\ Concerns(c) BY <1>1, <1>3, StatementUnread
  <2>2. QED BY <1>3, <2>1 DEF readerVars
<1>4. CASE \E a : a.kind \notin ReadKinds /\ Rollback(c, a)
  <2>1. PICK a : a.kind \notin ReadKinds /\ Rollback(c, a) BY <1>4
  <2>2. /\ UNCHANGED <<readerVars, log>> /\ pc' = [pc EXCEPT ![c] = "idle"]
        /\ answer' = [answer EXCEPT ![c] = a]
    BY <2>1 DEF Rollback
  <2>3. pc[c] \notin Reading /\ "idle" \notin Reading /\ "idle" \notin Writing
    BY <1>1 DEF Building, Reading, Writing
  <2>4. QED BY <2>1, <2>2, <2>3, CallEnds
<1>5. QED BY <1>2, <1>3, <1>4

LEMMA CallUnread ==
    ASSUME IInv, ReaderInv, NEW c \in Clients,
           \/ Busy(c) \/ Open(c) \/ Migrate(c) \/ Commit(c)
           \/ \E s \in Snapshots : BeginCandidate(c, s) \/ CandidateExists(c, s)
    PROVE  /\ Reads(c)' /\ Concerns(c)
           /\ Commit(c) \/ Forgets(c) \/ UNCHANGED <<log, since, answer>>
<1> USE DEF Writing, Building, Reading
<1>1. CASE Busy(c) \/ \E s \in Snapshots : CandidateExists(c, s)
  <2>1. PICK a : /\ a.kind \notin ReadKinds /\ answer' = [answer EXCEPT ![c] = a]
                 /\ UNCHANGED <<readerVars, log, pc>> /\ pc[c] \in {"down", "idle"}
    BY <1>1, RefusalKinds DEF Busy, CandidateExists, writerVars
  <2>2. pc' = [pc EXCEPT ![c] = pc[c]] BY <2>1 DEF IInv, TypeOK
  <2>3. pc[c] \notin Reading /\ pc[c] \notin Writing BY <2>1
  <2>4. QED BY <2>1, <2>2, <2>3, CallEnds
<1>2. CASE Open(c) \/ \E s \in Snapshots : BeginCandidate(c, s)
  <2>1. PICK stage \in {"migrating", "building"} :
            /\ pc' = [pc EXCEPT ![c] = stage] /\ answer' = [answer EXCEPT ![c] = NoAnswer]
            /\ UNCHANGED <<readerVars, log>> /\ pc[c] \in {"down", "idle"}
    BY <1>2 DEF Open, BeginCandidate, NewCall
  <2>2. pc[c] \notin Reading /\ stage \notin Reading BY <2>1
  <2>3. QED BY <2>1, <2>2, CallEnds, RefusalKinds
<1>3. CASE Migrate(c) /\ answer' # answer
  <2>1. /\ UNCHANGED <<readerVars, log>> /\ pc[c] = "migrating"
        /\ pc' = [pc EXCEPT ![c] = "down"]
        /\ answer' = [answer EXCEPT ![c] = Refused("schema")]
    BY <1>3 DEF Migrate
  <2>2. pc[c] \notin Reading /\ "down" \notin Reading /\ "down" \notin Writing BY <2>1
  <2>3. QED BY <2>1, <2>2, CallEnds, RefusalKinds
<1>4. CASE Migrate(c) /\ answer' = answer
  <2>1. /\ UNCHANGED <<readerVars, log>> /\ pc[c] = "migrating"
        /\ \E stage \in {"idle", "down"} : pc' = [pc EXCEPT ![c] = stage]
    BY <1>4 DEF Migrate
  <2>2. pc[c] \notin Reading /\ pc'[c] \in {"idle", "down"} BY <2>1 DEF IInv, TypeOK
  <2>3. answer'[c] = NoAnswer BY <1>4, <2>1, <2>2, Unread
  <2>4. since'[c] = Absent /\ DOMAIN got'[c] = {"nodes", "links", "sources"}
    BY <2>1, <2>2, Unread DEF readerVars
  <2>5. Reads(c)' BY <2>2, <2>3, <2>4, ReadsNothing DEF NoAnswer
  <2>6. Concerns(c) BY <1>4, <2>1 DEF Concerns, ReaderInv, readerVars, IInv, TypeOK
  <2>7. QED BY <1>4, <2>1, <2>5, <2>6 DEF readerVars
<1>5. CASE Commit(c)
  <2>1. /\ pc[c] = "pointed" /\ pc' = [pc EXCEPT ![c] = "idle"] /\ UNCHANGED readerVars
        /\ answer' = [answer EXCEPT ![c] = Published(candidate)]
    BY <1>5 DEF Commit
  <2>2. pc[c] \notin Reading /\ pc'[c] = "idle" /\ answer'[c] = Published(candidate)
    BY <2>1 DEF IInv, TypeOK
  <2>3. since'[c] = Absent /\ DOMAIN got'[c] = {"nodes", "links", "sources"}
    BY <2>1, <2>2, Unread DEF readerVars
  <2>4. Reads(c)' BY <2>2, <2>3, ReadsNothing DEF Published
  <2>5. Concerns(c) BY <2>1 DEF Concerns, ReaderInv, readerVars, IInv, TypeOK
  <2>6. QED BY <1>5, <2>4, <2>5
<1>6. QED BY <1>1, <1>2, <1>3, <1>4, <1>5

SliceOf(db, s) == [kind |-> "slice", snapshot |-> SnapshotOf(db, s)]

\* A read that ends has nothing left over, whatever it answers.
LEMMA AnswerEnds ==
    ASSUME IInv, LogGrows, ReaderInv, NEW c \in Clients, NEW a, Answer(c, a),
           a.kind = "slice" => \E i \in DOMAIN log : a = SliceOf(disk, log[i])
    PROVE  Reads(c)' /\ Concerns(c)
<1>1. pc'[c] = "idle" /\ answer'[c] = a /\ got'[c] = Nothing /\ since'[c] = Absent
  BY DEF Answer, IInv, TypeOK, ReaderInv
<1>2. pc'[c] \notin Reading /\ pc'[c] \notin Writing /\ pc'[c] \notin AfterPin
  BY <1>1 DEF Reading, Writing, Building, AfterPin
<1>3. DOMAIN got'[c] = {"nodes", "links", "sources"} BY <1>1 DEF Nothing
<1>4. disk' = disk /\ log' = log BY DEF Answer, writerVars
<1>5. answer'[c].kind = "slice" =>
          \E i \in DOMAIN log' :
              answer'[c] = [kind |-> "slice", snapshot |-> SnapshotOf(disk', log'[i])]
  BY <1>1, <1>4 DEF SliceOf
<1>6. pc'[c] \notin {"pin", "nodes", "links", "sources"} BY <1>1
<1>7. Reads(c)' BY <1>1, <1>2, <1>3, <1>5, <1>6 DEF Reads
<1>8. Concerns(c) BY DEF Concerns, ReaderInv, Answer, IInv, TypeOK
<1>9. QED BY <1>7, <1>8

\* How each read ends, told from the log.
Returns(c) ==
    /\ since[c] # Absent
    /\ UNCHANGED <<disk, log>>
    /\ since' = [since EXCEPT ![c] = Absent]
    /\ \E a :
          /\ answer' = [answer EXCEPT ![c] = a]
          /\ \/ since[c] = 0 /\ a = [kind |-> "empty"]
             \/ \E i \in DOMAIN log :
                   /\ i >= since[c]
                   /\ \/ a = SliceOf(disk, log[i])
                      \/ a = [kind |-> "freshness", id |-> log[i],
                              sources |-> disk.sources[log[i]]]
             \/ \E i \in DOMAIN log :
                   /\ answer[c] = SliceOf(disk, log[i])
                   /\ a = [kind |-> "records", id |-> log[i], nodes |-> NodesOf(disk, log[i])]

LEMMA FailedRead ==
    ASSUME IInv, LogGrows, ReaderInv, NEW c \in Clients, SliceLimitExceeded(c) \/ ReadFails(c)
    PROVE  Reads(c)' /\ Concerns(c) /\ Forgets(c)
<1>1. PICK reason : Answer(c, Refused(reason)) BY DEF SliceLimitExceeded, ReadFails
<1>2. Refused(reason).kind \notin ReadKinds /\ Refused(reason).kind # "slice"
  BY RefusalKinds DEF Refused
<1>3. Reads(c)' /\ Concerns(c) BY <1>1, <1>2, AnswerEnds
<1>4. log' = log BY <1>1 DEF Answer, writerVars
<1>5. Forgets(c) BY <1>1, <1>2, <1>4 DEF Forgets, Answer
<1>6. QED BY <1>3, <1>5

LEMMA EmptyRead ==
    ASSUME IInv, LogGrows, ReaderInv, NEW c \in Clients, PinNothing(c)
    PROVE  Reads(c)' /\ Concerns(c) /\ Returns(c)
<1>1. Answer(c, [kind |-> "empty"]) /\ pc[c] = "pin" /\ disk.current = Absent
  BY DEF PinNothing
<1>2. Reads(c)' /\ Concerns(c) BY <1>1, AnswerEnds
<1>3. log = <<>>
  <2>1. log # <<>> => log[Len(log)] \in Snapshots BY DEF IInv, TypeOK
  <2>2. QED BY <1>1, <2>1, StoreAssumption DEF IInv, CurrentIsNewest
<1>4. since[c] # Absent BY <1>1 DEF ReaderInv, Reads, Reading
<1>5. since[c] = 0
  <2>1. since[c] \in Nat /\ since[c] <= Len(log) BY <1>4 DEF IInv, TypeOK, ReaderInv, Reads
  <2>2. Len(log) = 0 BY <1>3
  <2>3. QED BY <2>1, <2>2
<1>6. Returns(c) BY <1>1, <1>4, <1>5 DEF Returns, Answer, writerVars
<1>7. QED BY <1>2, <1>6

LEMMA RecordsRead ==
    ASSUME IInv, LogGrows, ReaderInv, NEW c \in Clients, ReadSnapshotRecords(c)
    PROVE  Reads(c)' /\ Concerns(c) /\ Returns(c)
<1>1. /\ pc[c] = "nodes" /\ kind[c] = "records"
      /\ Answer(c, [kind |-> "records", id |-> target[c], nodes |-> NodesOf(disk, target[c])])
  BY DEF ReadSnapshotRecords, Visible
<1>2. Reads(c)' /\ Concerns(c) BY <1>1, AnswerEnds
<1>3. answer[c].kind = "slice" /\ answer[c].snapshot.id = target[c] /\ since[c] # Absent
  BY <1>1 DEF ReaderInv, Reads, Reading, AfterPin
<1>4. PICK i \in DOMAIN log : answer[c] = SliceOf(disk, log[i])
  BY <1>3 DEF ReaderInv, Reads, SliceOf
<1>5. SliceOf(disk, log[i]).snapshot.id = log[i] BY DEF SliceOf, SnapshotOf
<1>6. target[c] = log[i] BY <1>3, <1>4, <1>5
<1>7. UNCHANGED <<disk, log>> BY <1>1 DEF Answer, writerVars
<1>8. Returns(c) BY <1>1, <1>3, <1>4, <1>6, <1>7 DEF Returns, Answer
<1>9. QED BY <1>2, <1>8

\* The rows were read one table after another, from one snapshot.
LEMMA SourcesRead ==
    ASSUME IInv, LogGrows, ReaderInv, NEW c \in Clients, ReadSources(c)
    PROVE  Reads(c)' /\ Concerns(c) /\ Returns(c)
<1>1. pc[c] = "sources" /\ kind[c] # "records" /\ pc[c] \in AfterPin /\ pc[c] \in Reading
  BY DEF ReadSources, ReaderInv, Reads, AfterPin, Reading
<1>2. PICK i \in DOMAIN log : since[c] <= i /\ log[i] = target[c]
  BY <1>1 DEF ReaderInv, Reads
<1>3. since[c] \in Nat /\ since[c] # Absent /\ i \in Nat
  BY <1>1, StoreAssumption DEF IInv, TypeOK, ReaderInv, Reads
<1>4. i >= since[c] BY <1>2, <1>3
<1>5. CASE kind[c] = "slice"
  <2>1. SnapshotOf(view[c], target[c]) = SnapshotOf(disk, target[c])
    BY <1>1, <1>5 DEF ReaderInv, Reads
  <2>2. /\ got[c].nodes = NodesOf(disk, target[c])
        /\ got[c].links = LinksOf(disk, target[c])
        /\ view[c].sources[target[c]] = disk.sources[target[c]]
    BY <1>1, <1>5, <2>1, SnapshotParts DEF ReaderInv, Reads
  <2>3. Answer(c, SliceOf(disk, log[i]))
    BY <1>2, <1>5, <2>2 DEF ReadSources, Visible, SliceOf, SnapshotOf
  <2>4. UNCHANGED <<disk, log>> BY <2>3 DEF Answer, writerVars
  <2>5. Reads(c)' /\ Concerns(c) BY <2>3, AnswerEnds
  <2>6. Returns(c) BY <1>3, <1>4, <2>3, <2>4 DEF Returns, Answer
  <2>7. QED BY <2>5, <2>6
<1>6. CASE kind[c] # "slice"
  <2> DEFINE a == [kind |-> "freshness", id |-> log[i], sources |-> disk.sources[log[i]]]
  <2>1. Answer(c, a) BY <1>2, <1>6 DEF ReadSources, Visible
  <2>2. a.kind # "slice" OBVIOUS
  <2> HIDE DEF a
  <2>3. UNCHANGED <<disk, log>> BY <2>1 DEF Answer, writerVars
  <2>4. Reads(c)' /\ Concerns(c) BY <2>1, <2>2, AnswerEnds
  <2>5. Returns(c) BY <1>3, <1>4, <2>1, <2>3 DEF Returns, Answer, a
  <2>6. QED BY <2>4, <2>5
<1>7. QED BY <1>5, <1>6

\* A SELECT in the middle of a read.
LEMMA MidRead ==
    ASSUME IInv, LogGrows, ReaderInv, NEW c \in Clients, Pin(c) \/ ReadNodes(c) \/ ReadLinks(c)
    PROVE  Reads(c)' /\ Concerns(c) /\ UNCHANGED <<log, since, answer>>
<1>1. /\ pc[c] \in Reading /\ UNCHANGED <<disk, log, kind, since, answer>>
      /\ Concerns(c) /\ pc'[c] \in Reading /\ pc'[c] \notin Writing
  BY DEF Pin, ReadNodes, ReadLinks, Reading, Writing, Building, writerVars, Concerns,
         ReaderInv, IInv, TypeOK
<1>2. /\ since'[c] # Absent /\ since'[c] <= Len(log')
      /\ answer'[c].kind = "slice" =>
            \E i \in DOMAIN log' :
                answer'[c] = [kind |-> "slice", snapshot |-> SnapshotOf(disk', log'[i])]
  BY <1>1 DEF ReaderInv, Reads
<1>3. CASE Pin(c)
  <2>1. /\ pc[c] = "pin" /\ kind'[c] = kind[c] /\ kind[c] \in {"slice", "freshness"}
        /\ pc'[c] = IF kind[c] = "slice" THEN "nodes" ELSE "sources"
        /\ target'[c] = disk.current /\ disk.current # Absent /\ got'[c] = got[c]
        /\ kind[c] = "slice" => view'[c] = disk
    BY <1>3 DEF Pin, ReaderInv, Reads, IInv, TypeOK, Kinds
  <2>2. log # <<>> /\ disk.current = log[Len(log)] BY <2>1 DEF IInv, CurrentIsNewest
  <2>3. Len(log) \in DOMAIN log' /\ since'[c] <= Len(log) /\ log'[Len(log)] = target'[c]
    BY <1>1, <1>2, <2>1, <2>2 DEF IInv, TypeOK
  <2>4. DOMAIN got'[c] = {"nodes", "links", "sources"} BY <2>1 DEF ReaderInv, Reads
  <2>5. Reads(c)' BY <1>1, <1>2, <2>1, <2>3, <2>4 DEF Reads, AfterPin
  <2>6. QED BY <1>1, <2>5
<1>4. CASE ReadNodes(c) \/ ReadLinks(c)
  <2>1. /\ pc[c] \in AfterPin /\ kind'[c] = "slice" /\ kind[c] = "slice"
        /\ target'[c] = target[c] /\ view'[c] = view[c]
    BY <1>4 DEF ReadNodes, ReadLinks, ReaderInv, Reads, AfterPin
  <2>2. /\ SnapshotOf(view[c], target[c]) = SnapshotOf(disk, target[c])
        /\ NodesOf(view[c], target[c]) = NodesOf(disk, target[c])
        /\ LinksOf(view[c], target[c]) = LinksOf(disk, target[c])
        /\ DOMAIN got[c] = {"nodes", "links", "sources"}
    BY <2>1, SnapshotParts DEF ReaderInv, Reads
  <2>3. \E i \in DOMAIN log' : since'[c] <= i /\ log'[i] = target'[c]
    BY <1>1, <2>1 DEF ReaderInv, Reads
  <2>4. CASE ReadNodes(c)
    <3>1. pc'[c] = "links" /\ got'[c] = [got[c] EXCEPT !.nodes = NodesOf(disk, target[c])]
      BY <2>1, <2>2, <2>4 DEF ReadNodes, Visible, ReaderInv, IInv, TypeOK
    <3>2. DOMAIN got'[c] = {"nodes", "links", "sources"}
          /\ got'[c].nodes = NodesOf(disk, target[c])
      BY <2>2, <3>1
    <3>3. Reads(c)' BY <1>1, <1>2, <2>1, <2>2, <2>3, <3>1, <3>2 DEF Reads
    <3>4. QED BY <1>1, <3>3
  <2>5. CASE ReadLinks(c)
    <3>1. /\ pc[c] = "links" /\ pc'[c] = "sources"
          /\ got'[c] = [got[c] EXCEPT !.links = LinksOf(disk, target[c])]
      BY <2>1, <2>2, <2>5 DEF ReadLinks, Visible, ReaderInv, IInv, TypeOK
    <3>2. got[c].nodes = NodesOf(disk, target[c]) BY <2>1, <3>1 DEF ReaderInv, Reads
    <3>3. /\ DOMAIN got'[c] = {"nodes", "links", "sources"}
          /\ got'[c].nodes = NodesOf(disk, target[c])
          /\ got'[c].links = LinksOf(disk, target[c])
      BY <2>2, <3>1, <3>2
    <3>4. Reads(c)' BY <1>1, <1>2, <2>1, <2>2, <2>3, <3>1, <3>3 DEF Reads
    <3>5. QED BY <1>1, <3>4
  <2>6. QED BY <1>4, <2>4, <2>5
<1>5. QED BY <1>3, <1>4

\* A read begins, and knows what the log held then.
Begins(c) ==
    /\ since[c] = Absent
    /\ log' = log
    /\ since' = [since EXCEPT ![c] = Len(log)]
    /\ answer' = answer \/ answer' = [answer EXCEPT ![c] = NoAnswer]

LEMMA FirstRead ==
    ASSUME IInv, LogGrows, ReaderInv, NEW c \in Clients, NEW k \in Kinds, BeginRead(c, k)
    PROVE  Reads(c)' /\ Concerns(c) /\ Begins(c)
<1>1. pc[c] = "idle" /\ pc[c] \notin Reading /\ UNCHANGED <<disk, log, view, got>>
  BY DEF BeginRead, Reading, writerVars
<1>2. since[c] = Absent /\ DOMAIN got'[c] = {"nodes", "links", "sources"}
  BY <1>1, Unread
<1>3. Len(log) \in Nat /\ Len(log) # Absent BY StoreAssumption DEF LogGrows
<1>4. since'[c] = Len(log) /\ since'[c] # Absent /\ since'[c] <= Len(log')
  BY <1>1, <1>3 DEF BeginRead, IInv, TypeOK
<1>5. Concerns(c) BY DEF BeginRead, NewCall, Concerns, ReaderInv, writerVars, IInv, TypeOK
<1>6. Begins(c) BY <1>1, <1>2 DEF BeginRead, NewCall, Begins
<1>7. CASE k = "records"
  <2>1. /\ kind'[c] = "records" /\ pc'[c] = "nodes" /\ answer' = answer
        /\ answer[c].kind = "slice" /\ target'[c] = answer[c].snapshot.id
    BY <1>7 DEF BeginRead, IInv, TypeOK
  <2>2. answer'[c].kind = "slice" =>
            \E i \in DOMAIN log' :
                answer'[c] = [kind |-> "slice", snapshot |-> SnapshotOf(disk', log'[i])]
    BY <1>1, <2>1 DEF ReaderInv, Reads
  <2>3. Reads(c)'
    BY <1>2, <1>4, <2>1, <2>2 DEF Reads, Reading, Writing, Building, AfterPin
  <2>4. QED BY <1>5, <1>6, <2>3
<1>8. CASE k # "records"
  <2>1. kind'[c] \in {"slice", "freshness"} /\ pc'[c] = "pin" /\ answer'[c] = NoAnswer
    BY <1>8 DEF BeginRead, NewCall, IInv, TypeOK, Kinds
  <2>2. Reads(c)'
    BY <1>2, <1>4, <2>1 DEF Reads, Reading, Writing, Building, AfterPin, NoAnswer
  <2>3. QED BY <1>5, <1>6, <2>2
<1>9. QED BY <1>7, <1>8

LEMMA CrashedRead ==
    ASSUME IInv, LogGrows, ReaderInv, NEW c \in Clients, Crash(c)
    PROVE  Reads(c)' /\ Concerns(c) /\ Forgets(c)
<1>1. /\ pc'[c] = "down" /\ answer'[c] = NoAnswer /\ got'[c] = Nothing /\ since'[c] = Absent
      /\ pc'[c] \notin Reading
  BY DEF Crash, ReaderInv, IInv, TypeOK, Reading
<1>2. DOMAIN got'[c] = {"nodes", "links", "sources"} /\ answer'[c].kind # "slice"
  BY <1>1 DEF Nothing, NoAnswer
<1>3. Reads(c)' BY <1>1, <1>2, ReadsNothing
<1>4. Concerns(c) BY DEF Crash, Concerns, ReaderInv, IInv, TypeOK
<1>5. Forgets(c) BY RefusalKinds DEF Crash, Forgets
<1>6. QED BY <1>3, <1>4, <1>5

\* One step, as the readers see it.
Seen(c) ==
    \/ Commit(c)
    \/ UNCHANGED <<log, since, answer>>
    \/ Forgets(c) \/ Begins(c) \/ Returns(c)

LEMMA SeenStep ==
    ASSUME IInv, ReaderInv, Next
    PROVE  ReaderInv' /\ \E c \in Clients : Seen(c)
<1>1. LogGrows BY LogGrowsStep
<1>2. PICK c \in Clients :
         \/ Busy(c) \/ Open(c) \/ Migrate(c)
         \/ \E s \in Snapshots : BeginCandidate(c, s) \/ CandidateExists(c, s)
         \/ Build(c) \/ Publish(c)
         \/ \E k \in Kinds : BeginRead(c, k)
         \/ Read(c)
         \/ Crash(c)
  BY DEF Next
<1>3. Reads(c)' /\ Concerns(c) /\ Seen(c)
  <2>1. CASE (Build(c) \/ Publish(c)) /\ ~Commit(c)
    BY <2>1, BuildUnread DEF Seen
  <2>2. CASE \/ Busy(c) \/ Open(c) \/ Migrate(c) \/ Commit(c)
             \/ \E s \in Snapshots : BeginCandidate(c, s) \/ CandidateExists(c, s)
    BY <2>2, CallUnread DEF Seen
  <2>3. CASE Read(c)
    BY <1>1, <2>3, FailedRead, EmptyRead, RecordsRead, SourcesRead, MidRead DEF Read, Seen
  <2>4. CASE \E k \in Kinds : BeginRead(c, k)
    BY <1>1, <2>4, FirstRead DEF Seen
  <2>5. CASE Crash(c)
    BY <1>1, <2>5, CrashedRead DEF Seen
  <2>6. QED BY <1>2, <2>1, <2>2, <2>3, <2>4, <2>5
<1>4. QED BY <1>1, <1>3, OneReader

-----------------------------------------------------------------------------
(* The store implements SnapshotLog. *)

\* The snapshots, and the answers, that SnapshotLog is about.
Image(db, order) == [i \in DOMAIN order |-> SnapshotOf(db, order[i])]
Shown(answers) ==
    [c \in Clients |-> IF answers[c].kind \in {"empty", "slice", "freshness", "records"}
                       THEN answers[c] ELSE NoAnswer]

LEMMA ImageProperties ==
    ASSUME NEW db, NEW order \in Seq(Snapshots)
    PROVE  /\ Image(db, order) \in Seq({SnapshotOf(db, s) : s \in Snapshots})
           /\ Len(Image(db, order)) = Len(order)
           /\ DOMAIN Image(db, order) = 1 .. Len(order)
           /\ \A i \in 1 .. Len(order) : Image(db, order)[i] = SnapshotOf(db, order[i])
<1> DEFINE T == {SnapshotOf(db, s) : s \in Snapshots}
<1>1. /\ Len(order) \in Nat /\ DOMAIN order = 1 .. Len(order)
      /\ \A i \in 1 .. Len(order) : order[i] \in Snapshots
  OBVIOUS
<1>2. \A i \in 1 .. Len(order) : SnapshotOf(db, order[i]) \in T
  BY <1>1
<1> HIDE DEF T
<1>3. Image(db, order) \in [1 .. Len(order) -> T]
  BY <1>1, <1>2 DEF Image
<1>4. Image(db, order) \in Seq(T)
  BY <1>1, <1>3, SeqDef
<1>5. /\ DOMAIN Image(db, order) = 1 .. Len(order)
      /\ \A i \in 1 .. Len(order) : Image(db, order)[i] = SnapshotOf(db, order[i])
  BY <1>1 DEF Image
<1>6. Len(Image(db, order)) = Len(order)
  BY <1>1, <1>4, <1>5, LenProperties
<1>7. QED BY <1>4, <1>5, <1>6 DEF T

LEMMA ImageKept ==
    ASSUME LogGrows, log' = log
    PROVE  Image(disk', log') = Image(disk, log)
BY DEF LogGrows, Image

\* An answer of one client, as it is shown.
LEMMA ShownOne ==
    ASSUME TypeOK, NEW c \in Clients, NEW a, answer' = [answer EXCEPT ![c] = a]
    PROVE  /\ a.kind \in ReadKinds => Shown(answer') = [Shown(answer) EXCEPT ![c] = a]
           /\ a.kind \notin ReadKinds => Shown(answer') = [Shown(answer) EXCEPT ![c] = NoAnswer]
BY DEF TypeOK, Shown, ReadKinds

LEMMA WholeImage ==
    ASSUME NEW db, NEW s, Closed(db, s)
    PROVE  Log!Whole(SnapshotOf(db, s))
<1> SUFFICES ASSUME NEW l \in db.linked[s]
             PROVE  \E from, to \in NodesOf(db, s) :
                        db.links[l].source = from[1] /\ db.links[l].target = to[1]
  BY DEF Log!Whole, SnapshotOf, LinksOf
<1>1. db.links[l].source \in db.members[s] /\ db.links[l].target \in db.members[s]
  BY DEF Closed
<1> DEFINE from == <<db.links[l].source, db.records[db.links[l].source]>>
           to == <<db.links[l].target, db.records[db.links[l].target]>>
<1>2. from \in NodesOf(db, s) /\ to \in NodesOf(db, s) BY <1>1 DEF NodesOf
<1>3. from[1] = db.links[l].source /\ to[1] = db.links[l].target OBVIOUS
<1> HIDE DEF from, to
<1>4. QED BY <1>2, <1>3

\* Snapshots of one database agree: a record or link has one row.
LEMMA ImagesAgree ==
    ASSUME NEW db, NEW s, NEW t, s # t
    PROVE  Log!Agree(SnapshotOf(db, s), SnapshotOf(db, t))
<1>1. \A m \in NodesOf(db, s), n \in NodesOf(db, t) : m[1] = n[1] => m = n
  BY DEF NodesOf
<1>2. \A m \in LinksOf(db, s), n \in LinksOf(db, t) : m[1] = n[1] => m = n
  BY DEF LinksOf
<1>3. QED BY <1>1, <1>2 DEF Log!Agree, SnapshotOf

LEMMA CommitPublishes ==
    ASSUME IInv, ReaderInv, LogGrows, NEW c \in Clients, Commit(c)
    PROVE  Log!Publish
<1>1. pc[c] = "pointed" /\ pc[c] \in Building /\ pc[c] \notin Reading /\ pc[c] \in Writing
  BY DEF Commit, Building, Reading, Writing
<1>2. /\ candidate \in Snapshots /\ AddsOnly(work, candidate) /\ Closed(work, candidate)
      /\ disk' = work /\ log' = Append(log, candidate) /\ log \in Seq(Snapshots)
  BY <1>1, CopyNow DEF Commit, CopyAt, IInv, TypeOK
<1> DEFINE T == {SnapshotOf(disk', s) : s \in Snapshots}
<1>3. /\ Len(log) \in Nat /\ DOMAIN log = 1 .. Len(log)
      /\ log' \in Seq(Snapshots) /\ Len(log') = Len(log) + 1
      /\ log'[Len(log) + 1] = candidate
      /\ \A i \in 1 .. Len(log) : log'[i] = log[i] /\ log[i] \in Snapshots
  BY <1>2
<1>4. Image(disk, log) = Image(disk', log) BY DEF LogGrows, Image
<1>5. /\ Image(disk', log) \in Seq(T) /\ Image(disk', log') \in Seq(T)
      /\ Len(Image(disk', log)) = Len(log) /\ Len(Image(disk', log')) = Len(log) + 1
      /\ DOMAIN Image(disk', log) = 1 .. Len(log)
      /\ \A i \in 1 .. Len(log) : Image(disk', log)[i] = SnapshotOf(disk', log[i])
      /\ \A i \in 1 .. Len(log) + 1 : Image(disk', log')[i] = SnapshotOf(disk', log'[i])
  <2>1. PICK db : db = disk' OBVIOUS
  <2>2. /\ Image(db, log) \in Seq({SnapshotOf(db, s) : s \in Snapshots})
        /\ Len(Image(db, log)) = Len(log)
        /\ DOMAIN Image(db, log) = 1 .. Len(log)
        /\ \A i \in 1 .. Len(log) : Image(db, log)[i] = SnapshotOf(db, log[i])
    <3>1. log \in Seq(Snapshots) BY <1>2
    <3>2. QED BY <3>1, ImageProperties
  <2>3. /\ Image(db, log') \in Seq({SnapshotOf(db, s) : s \in Snapshots})
        /\ Len(Image(db, log')) = Len(log')
        /\ \A i \in 1 .. Len(log') : Image(db, log')[i] = SnapshotOf(db, log'[i])
    <3>1. log' \in Seq(Snapshots) BY <1>3
    <3>2. QED BY <3>1, ImageProperties
  <2>4. QED BY <1>3, <2>1, <2>2, <2>3
<1> HIDE DEF T
<1>6. \A i \in 1 .. Len(log) : i \in 1 .. Len(log) + 1 BY <1>3
<1>7. \A i \in 1 .. Len(log) : Image(disk', log')[i] = Image(disk', log)[i]
  BY <1>3, <1>5, <1>6
<1>8. SubSeq(Image(disk', log'), 1, Len(Image(disk', log))) = Image(disk', log)
  BY <1>5, <1>7, AppendedPrefix
<1>9. Len(log) + 1 \in 1 .. Len(log) + 1 BY <1>3
<1>10. Image(disk', log')[Len(Image(disk', log'))] = SnapshotOf(disk', candidate)
  BY <1>3, <1>5, <1>9
<1>11. Log!Whole(SnapshotOf(disk', candidate)) BY <1>2, WholeImage
<1>12. \A i \in 1 .. Len(log) : log[i] # candidate
  <2>1. disk.state[candidate] = "absent" BY <1>2 DEF AddsOnly
  <2>2. \A i \in 1 .. Len(log) : disk.state[log[i]] = "published"
    BY <1>3 DEF IInv, CurrentIsNewest
  <2>3. QED BY <2>1, <2>2
<1>13. \A i \in 1 .. Len(log) :
           Log!Agree(Image(disk', log)[i], SnapshotOf(disk', candidate))
  BY <1>5, <1>12, ImagesAgree
<1>14. since' = since /\ Shown(answer') = Shown(answer)
  <2>1. answer[c] = NoAnswer BY <1>1, Unread
  <2>2. Shown(answer') = [Shown(answer) EXCEPT ![c] = NoAnswer]
    BY ShownOne, RefusalKinds DEF Commit, IInv
  <2>3. Shown(answer)[c] = NoAnswer BY <2>1 DEF Shown
  <2>4. Shown(answer) = [Shown(answer) EXCEPT ![c] = NoAnswer] BY <2>3 DEF Shown
  <2>5. QED BY <2>2, <2>4 DEF Commit, readerVars
<1>15. Len(Image(disk', log')) = Len(Image(disk', log)) + 1 BY <1>5
<1>16. /\ SubSeq(Image(disk', log'), 1, Len(Image(disk, log))) = Image(disk, log)
       /\ Len(Image(disk', log')) = Len(Image(disk, log)) + 1
       /\ \A i \in DOMAIN Image(disk, log) :
             Log!Agree(Image(disk, log)[i], SnapshotOf(disk', candidate))
  BY <1>4, <1>5, <1>8, <1>13, <1>15
<1>17. QED BY <1>10, <1>11, <1>14, <1>16 DEF Log!Publish, Image, Shown

\* What the readers see of any step is a step of SnapshotLog.
LEMMA SeenIsLogged ==
    ASSUME IInv, ReaderInv, LogGrows, NEW c \in Clients, Seen(c)
    PROVE  [Log!Next]_(Log!logVars)
<1>1. /\ log \in Seq(Snapshots) /\ DOMAIN log = 1 .. Len(log) /\ TypeOK
      /\ Len(Image(disk, log)) = Len(log) /\ DOMAIN Image(disk, log) = DOMAIN log
      /\ \A i \in DOMAIN log : Image(disk, log)[i] = SnapshotOf(disk, log[i])
  <2>1. log \in Seq(Snapshots) /\ DOMAIN log = 1 .. Len(log) /\ TypeOK
    BY DEF IInv, TypeOK
  <2>2. /\ Len(Image(disk, log)) = Len(log)
        /\ DOMAIN Image(disk, log) = 1 .. Len(log)
        /\ \A i \in 1 .. Len(log) : Image(disk, log)[i] = SnapshotOf(disk, log[i])
    BY <2>1, ImageProperties
  <2>3. QED BY <2>1, <2>2
<1>2. CASE Commit(c)
  BY <1>2, CommitPublishes DEF Log!Next
<1>3. CASE UNCHANGED <<log, since, answer>>
  <2>1. Image(disk', log') = Image(disk, log) BY <1>3, ImageKept
  <2>2. QED BY <1>3, <2>1 DEF Log!logVars, Image
<1>4. CASE Forgets(c)
  <2>1. Image(disk', log') = Image(disk, log) BY <1>4, ImageKept DEF Forgets
  <2>2. Shown(answer') = [Shown(answer) EXCEPT ![c] = NoAnswer]
    BY <1>1, <1>4, ShownOne DEF Forgets
  <2>3. since' = [since EXCEPT ![c] = Absent] BY <1>4 DEF Forgets
  <2>4. Log!Forget(c) BY <2>1, <2>2, <2>3 DEF Log!Forget, Log!NoAnswer, NoAnswer, Image, Shown
  <2>5. QED BY <2>4 DEF Log!Next
<1>5. CASE Begins(c)
  <2>1. Image(disk', log') = Image(disk, log) BY <1>5, ImageKept DEF Begins
  <2>2. Shown(answer') \in {Shown(answer), [Shown(answer) EXCEPT ![c] = NoAnswer]}
    BY <1>1, <1>5, ShownOne, RefusalKinds DEF Begins
  <2>3. since[c] = Absent /\ since' = [since EXCEPT ![c] = Len(Image(disk, log))]
    BY <1>1, <1>5 DEF Begins
  <2>4. Log!BeginRead(c)
    BY <2>1, <2>2, <2>3 DEF Log!BeginRead, Log!NoAnswer, NoAnswer, Image, Shown
  <2>5. QED BY <2>4 DEF Log!Next
<1>6. CASE Returns(c)
  <2>1. Image(disk', log') = Image(disk, log) BY <1>6, ImageKept DEF Returns
  <2>2. PICK a :
           /\ answer' = [answer EXCEPT ![c] = a]
           /\ \/ since[c] = 0 /\ a = [kind |-> "empty"]
              \/ \E i \in DOMAIN log :
                    /\ i >= since[c]
                    /\ \/ a = SliceOf(disk, log[i])
                       \/ a = [kind |-> "freshness", id |-> log[i],
                               sources |-> disk.sources[log[i]]]
              \/ \E i \in DOMAIN log :
                    /\ answer[c] = SliceOf(disk, log[i])
                    /\ a = [kind |-> "records", id |-> log[i], nodes |-> NodesOf(disk, log[i])]
    BY <1>6 DEF Returns
  <2>3. a.kind \in ReadKinds
    <3>1. a.kind = "empty" \/ a.kind = "slice" \/ a.kind = "freshness" \/ a.kind = "records"
      <4>1. \A i : SliceOf(disk, log[i]).kind = "slice" BY DEF SliceOf
      <4>2. QED BY <2>2, <4>1
    <3>2. QED BY <3>1 DEF ReadKinds
  <2>4. Shown(answer') = [Shown(answer) EXCEPT ![c] = a] BY <1>1, <2>2, <2>3, ShownOne
  <2>5. Log!Answers(c, a)
    BY <1>6, <2>1, <2>4 DEF Log!Answers, Returns, Image, Shown
  <2>6. CASE since[c] = 0 /\ a = [kind |-> "empty"]
    <3>1. Log!Return(c) BY <1>6, <2>5, <2>6 DEF Log!Return, Log!NoSnapshot, Returns
    <3>2. QED BY <3>1 DEF Log!Next
  <2>7. CASE \E i \in DOMAIN log :
                /\ i >= since[c]
                /\ \/ a = SliceOf(disk, log[i])
                   \/ a = [kind |-> "freshness", id |-> log[i],
                           sources |-> disk.sources[log[i]]]
    <3>1. PICK i \in DOMAIN Image(disk, log) :
             /\ i >= since[c]
             /\ a \in {Log!Slice(Image(disk, log)[i]), Log!Freshness(Image(disk, log)[i])}
      BY <1>1, <2>7 DEF Log!Slice, Log!Freshness, SliceOf, SnapshotOf
    <3>2. \/ Log!Answers(c, Log!Slice(Image(disk, log)[i]))
          \/ Log!Answers(c, Log!Freshness(Image(disk, log)[i]))
      BY <1>6, <2>1, <2>4, <3>1 DEF Log!Answers, Returns, Image, Shown
    <3>3. since[c] # Absent BY <1>6 DEF Returns
    <3>4. Log!Return(c) BY <3>1, <3>2, <3>3 DEF Log!Return, Image
    <3>5. QED BY <3>4 DEF Log!Next
  <2>8. CASE \E i \in DOMAIN log :
                /\ answer[c] = SliceOf(disk, log[i])
                /\ a = [kind |-> "records", id |-> log[i], nodes |-> NodesOf(disk, log[i])]
    <3>1. PICK i \in DOMAIN Image(disk, log) :
             /\ answer[c] = Log!Slice(Image(disk, log)[i])
             /\ a = Log!RecordsOf(Image(disk, log)[i])
      BY <1>1, <2>8 DEF Log!Slice, Log!RecordsOf, SliceOf, SnapshotOf
    <3>2. Shown(answer)[c] = Log!Slice(Image(disk, log)[i])
      BY <3>1 DEF Shown, Log!Slice
    <3>3. Log!Answers(c, Log!RecordsOf(Image(disk, log)[i]))
      BY <1>6, <2>1, <2>4, <3>1 DEF Log!Answers, Returns, Image, Shown
    <3>4. Log!ReturnRecords(c) BY <3>1, <3>2, <3>3 DEF Log!ReturnRecords, Image, Shown
    <3>5. QED BY <3>4 DEF Log!Next
  <2>9. QED BY <2>2, <2>6, <2>7, <2>8
<1>7. QED BY <1>2, <1>3, <1>4, <1>5, <1>6 DEF Seen

LEMMA ReaderInit == Init => ReaderInv /\ Log!Init
<1> SUFFICES ASSUME Init PROVE ReaderInv /\ Log!Init
  OBVIOUS
<1>1. \A c \in Clients : Reads(c)
  BY StoreAssumption DEF Init, Reads, Reading, Writing, Building, AfterPin, NoAnswer, Nothing
<1>2. DOMAIN view = Clients /\ DOMAIN got = Clients BY DEF Init
<1>3. Image(disk, log) = <<>>
  <2>1. log \in Seq(Snapshots) /\ Len(log) = 0 BY DEF Init
  <2>2. QED BY <2>1, ImageProperties, EmptySeq
<1>4. Log!Init BY <1>3 DEF Init, Log!Init, Log!NoAnswer, NoAnswer, Image
<1>5. QED BY <1>1, <1>2, <1>4 DEF ReaderInv

LEMMA ReaderStepKept == IInv /\ ReaderInv /\ [Next]_vars => ReaderInv' /\ [Log!Next]_(Log!logVars)
<1> SUFFICES ASSUME IInv, ReaderInv, [Next]_vars
             PROVE  ReaderInv' /\ [Log!Next]_(Log!logVars)
  OBVIOUS
<1>1. LogGrows BY LogGrowsStep
<1>2. CASE UNCHANGED vars
  <2>1. \A c \in Clients : Reads(c)'
    BY <1>1, <1>2, ReadsKept DEF vars, readerVars, ReaderInv
  <2>2. ReaderInv' BY <1>2, <2>1 DEF ReaderInv, vars, readerVars
  <2>3. UNCHANGED <<disk, log, since, answer>> BY <1>2 DEF vars, writerVars, readerVars
  <2>4. QED BY <2>2, <2>3 DEF Log!logVars
<1>3. CASE Next
  BY <1>1, <1>3, SeenStep, SeenIsLogged
<1>4. QED BY <1>2, <1>3

\* ImplementsLog: publication is one step that adds a whole snapshot, and every
\* read returns one published snapshot, no older than the newest when it began,
\* although it reads table after table beside a writer that commits in between.
THEOREM StoreImplementsLog == Spec => ImplementsLog
<1>1. QED
  BY Invariance, ReaderInit, ReaderStepKept, PTL DEF Spec, ImplementsLog, Log!Spec
=============================================================================
