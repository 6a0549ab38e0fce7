-------------------------- MODULE SignalStore_proofs --------------------------
(***************************************************************************)
(* Proofs about SignalStore, for every value of its constants: the types   *)
(* of its state, what its parts keep in common (StructInv) and the segment *)
(* files, whatever the failures; then, when every segment file can be read *)
(* at a start, that the store loses no acknowledged batch unless one of    *)
(* two other silent failures happens; and, leaving out the failures named  *)
(* there, that what a start would find on disk changes as EventStore       *)
(* allows, that a successful FlushAsync leaves nothing acknowledged in     *)
(* memory, and that no query sees a batch twice.                           *)
(***************************************************************************)
EXTENDS SignalStore, FiniteSetTheorems, TLAPS

-----------------------------------------------------------------------------
(* The inductive invariant, in named parts.                                *)

\* Types, and a bound on the generations found on disk.
TypeInv == TypeOK /\ \E m \in Nat : \A g \in Generations(DOMAIN parquet) : g <= m

\* The phases of Start, WriterLoop and DisposeAsync, and the file being flushed.
ControlInv ==
    /\ pc \in {"replay", "cleanup"} => ctx = "start"
    /\ pc \in {"down", "idle", "wal", "append", "ack", "ackflush"} => ctx = "loop"
    /\ pc = "stopped" => ctx = "stop"
    /\ pc # "down" => gen > 0

\* A process that is not running remembers nothing.
DownInv ==
    pc = "down" =>
        /\ snapshot = NoSnapshot /\ drops = {} /\ deletes = {} /\ victims = {}
        /\ compaction = [c \in Compactors |-> NoCompaction]
        /\ queries = [q \in Queries |-> NoSnapshot]

\* The paths that some file, job or thread bears.
Known(p) ==
    \/ p \in DOMAIN parquet \cup deletes \cup victims
    \/ \E c \in Compactors : \E G \in compaction[c].groups : p \in G

\* The next generation and the next clock tick have never named a file.
FreshInv ==
    /\ \A p \in Paths : Known(p) /\ p.kind = "cmp" => p.id < ticks
    /\ pc # "down" =>
         /\ \A p \in Paths : Known(p) /\ p.kind = "seg" =>
              p.id < gen /\ (pc = "write" => p.id # gen - 1)
         /\ \A g \in DOMAIN wal \cup DOMAIN tables : g <= gen
         /\ \A g \in drops \cup replaying : g < gen

\* No file of a snapshot waits for its deletion or is gone.
ShownInv ==
    /\ snapshot.segments \subseteq DOMAIN parquet \ deletes
    /\ \A q \in Queries : queries[q].segments \subseteq DOMAIN parquet

\* A merged file which is not in the snapshot yet is nobody else's, and holds the
\* rows of its sources.
MergeOf(c) ==
    /\ {} \notin compaction[c].groups
    /\ compaction[c].sources # {} =>
          /\ compaction[c].sources \in compaction[c].groups
          /\ compaction[c].merged # {}
    /\ compaction[c].merged \subseteq
          DOMAIN parquet \ (snapshot.segments \cup deletes \cup victims)
    /\ \A p \in compaction[c].sources \cap DOMAIN parquet :
         \A b \in parquet[p].rows :
             \E m \in compaction[c].merged : b \in parquet[m].rows
    /\ \A d \in Compactors :
          /\ \A G \in compaction[d].groups : compaction[c].merged \cap G = {}
          /\ c # d => compaction[c].merged \cap compaction[d].merged = {}

MergeInv == \A c \in Compactors : MergeOf(c)

\* No table of a snapshot waits for its DROP or is gone.  The current table is in
\* the snapshot and has its WAL file, unless Wal.Open has failed; then it takes
\* no rows.  Each file being replayed exists and is none of those being written.
TableInv ==
    /\ snapshot.tables \subseteq DOMAIN tables \ drops
    /\ \A q \in Queries : queries[q].tables \subseteq DOMAIN tables
    /\ walOpen => gen \in snapshot.tables \cap DOMAIN wal
    /\ ctx = "start" \/ dirty \/ pc = "write" => walOpen
    /\ pc = "append" /\ DataOf(batch, Len(batch)) # {} => walOpen
    /\ pc = "write" => gen - 1 \in snapshot.tables
    /\ pc = "delete" => gen - 1 \notin snapshot.tables
    /\ replaying \subseteq DOMAIN wal
    /\ pc \in {"write", "delete"} => gen - 1 \notin replaying

\* Some WAL file is ahead of every segment file, one that no start could read included: the
\* file of the current generation, which outlives the process.
AheadInv ==
    /\ pc = "delete" => walOpen
    /\ \A p \in DOMAIN parquet : p.kind = "seg" => \E g \in DOMAIN wal : p.id < g

StructInv ==
    /\ TypeInv /\ ControlInv /\ DownInv /\ FreshInv
    /\ ShownInv /\ MergeInv /\ TableInv /\ AheadInv

-----------------------------------------------------------------------------
(* Operators.                                                              *)

\* A bounded set of naturals has a highest element, which Highest chooses.
LEMMA HighestOfBounded ==
    ASSUME NEW S \in SUBSET Nat, 0 \in S, NEW n \in Nat, \A x \in S : x <= n
    PROVE  Highest(S) \in S /\ \A x \in S : x <= Highest(S)
<1> DEFINE T == {I \in FiniteSubsetsOf(Nat) : \E k \in Nat : I = 0 .. k /\ S \subseteq I}
<1>1. \A k \in Nat : 0 .. k \in FiniteSubsetsOf(Nat)
  BY FS_Interval DEF FiniteSubsetsOf
<1>2. 0 .. n \in T
  BY <1>1
<1>3. PICK I \in T : \A J \in T : <<J, I>> \notin StrictSubsetOrdering(Nat)
  <2>1. IsWellFoundedOn(StrictSubsetOrdering(Nat), FiniteSubsetsOf(Nat))
    BY FS_StrictSubsetOrderingWellFounded
  <2>2. T \subseteq FiniteSubsetsOf(Nat) /\ T # {}
    BY <1>2
  <2> HIDE DEF T
  <2>3. QED
    BY <2>1, <2>2, WFMin
<1>4. PICK k \in Nat : I = 0 .. k /\ S \subseteq 0 .. k
  BY <1>3
<1>5. k \in S
  <2>1. SUFFICES ASSUME k \notin S PROVE FALSE
    OBVIOUS
  <2>2. k # 0 /\ k - 1 \in Nat
    BY <2>1
  <2>3. S \subseteq 0 .. (k - 1)
    BY <2>1, <2>2, <1>4
  <2>4. 0 .. (k - 1) \in T
    BY <1>1, <2>2, <2>3
  <2>5. <<0 .. (k - 1), 0 .. k>> \in StrictSubsetOrdering(Nat)
    <3>1. 0 .. (k - 1) \subseteq 0 .. k /\ k \in 0 .. k /\ k \notin 0 .. (k - 1)
      BY <2>2
    <3>2. 0 .. (k - 1) \in SUBSET Nat /\ 0 .. k \in SUBSET Nat
      BY <2>2
    <3>3. 0 .. (k - 1) # 0 .. k
      BY <3>1
    <3> QED
      BY <3>1, <3>2, <3>3 DEF StrictSubsetOrdering
  <2> QED
    BY <1>3, <1>4, <2>4, <2>5
<1>6. \A x \in S : x <= k
  BY <1>4
<1> QED
  BY <1>5, <1>6 DEF Highest

\* A start opens a generation that no WAL file and no segment that it read bears.
LEMMA NextGenerationOf ==
    ASSUME TypeInv, NEW loaded \in SUBSET DOMAIN parquet
    PROVE  /\ NextGeneration(loaded) \in Nat \ {0}
           /\ \A g \in DOMAIN wal : g < NextGeneration(loaded)
           /\ \A p \in loaded : p.kind = "seg" => p.id < NextGeneration(loaded)
<1>1. Generations(loaded) \in SUBSET Nat /\ 0 \in Generations(loaded)
  BY DEF TypeInv, TypeOK, WalType, ParquetType, Generations, Paths
<1>2. PICK n \in Nat : \A g \in Generations(loaded) : g <= n
  <2>1. Generations(loaded) \subseteq Generations(DOMAIN parquet)
    BY DEF Generations
  <2> QED
    BY <2>1 DEF TypeInv
<1> DEFINE h == Highest(Generations(loaded))
<1>3. h \in Generations(loaded) /\ \A g \in Generations(loaded) : g <= h
  BY <1>1, <1>2, HighestOfBounded
<1>4. /\ DOMAIN wal \subseteq Generations(loaded)
      /\ \A p \in loaded : p.kind = "seg" => p.id \in Generations(loaded)
  BY DEF Generations
<1>5. h \in Nat /\ NextGeneration(loaded) = 1 + h
  BY <1>1, <1>3 DEF NextGeneration
<1> HIDE DEF h
<1>6. \A g \in Generations(loaded) : g \in Nat /\ g < NextGeneration(loaded)
  BY <1>1, <1>3, <1>5
<1>7. NextGeneration(loaded) \in Nat \ {0}
  BY <1>5
<1> QED
  BY <1>4, <1>6, <1>7

\* When it reads them all, no segment at all bears it.
LEMMA NextGenerationFresh ==
    ASSUME TypeInv
    PROVE  /\ NextGeneration(DOMAIN parquet) \in Nat \ {0}
           /\ \A g \in DOMAIN wal : g < NextGeneration(DOMAIN parquet)
           /\ \A p \in DOMAIN parquet : p.kind = "seg" => p.id < NextGeneration(DOMAIN parquet)
<1>1. DOMAIN parquet \in SUBSET DOMAIN parquet
  OBVIOUS
<1> QED
  BY <1>1, NextGenerationOf

\* AppendRows keeps contents well formed.
LEMMA PlusFacts ==
    ASSUME NEW c \in Contents, NEW B \in SUBSET Batches
    PROVE  Plus(c, B) \in Contents /\ Plus(c, B).rows = c.rows \cup B
BY DEF Plus, Contents

\* A merge keeps contents well formed.
LEMMA UnionAllFacts ==
    ASSUME NEW c, NEW S, \A x \in S : c[x] \in Contents
    PROVE  /\ UnionAll(c, S) \in Contents
           /\ UnionAll(c, S).rows = UNION {c[x].rows : x \in S}
<1>1. /\ UNION {c[x].rows : x \in S} \subseteq Batches
      /\ UNION {c[x].twice : x \in S} \subseteq Batches
  BY DEF Contents
<1> QED
  BY <1>1 DEF UnionAll, Contents

\* An append keeps a WAL file well formed.
LEMMA LoggedFacts ==
    ASSUME NEW w \in WalFiles, NEW B \in SUBSET Batches
    PROVE  /\ Logged(w, B) \in WalFiles
           /\ Logged(w, B).torn = w.torn
           /\ w.ok \subseteq Logged(w, B).ok
           /\ ~w.torn => Logged(w, B).ok = w.ok \cup B
BY DEF Logged, WalFiles

\* The data items of a turn are batches.
LEMMA DataOfType == \A s, n : DataOf(s, n) \in SUBSET Batches
BY DEF DataOf

-----------------------------------------------------------------------------
(* Types.                                                                  *)

\* No step leaves the types.
LEMMA TypeStep ==
    ASSUME ConstantsAssumption, StructInv, [Steps]_vars
    PROVE  TypeOK'
<1>0. /\ TypeInv /\ ControlInv /\ ShownInv /\ MergeInv /\ TableInv
      /\ WalType /\ ParquetType /\ TablesType /\ ShownType /\ JobsType
      /\ MergesType /\ CallersType /\ WriterType /\ ClocksType
  BY DEF StructInv, TypeInv, TypeOK
<1> USE DEF TypeOK, Requests, diskVars, writerVars, otherVars, clockVars
<1>1. CASE Start
  <2>1. gen' \in Nat
    BY <1>0, <1>1, NextGenerationFresh DEF Start, Started
  <2>2. WalType'
    BY <1>0, <1>1, <2>1 DEF Start, Started, Opened, With, WalType, WalFiles
  <2>3. TablesType'
    BY <1>0, <1>1, <2>1 DEF Start, Started, TablesType, Empty, Contents
  <2>4. ShownType'
    BY <1>0, <1>1, <2>1 DEF Start, Started, ShownType, ParquetType, Snapshots
  <2>5. walOpen' \in BOOLEAN /\ dirty' \in BOOLEAN
    BY <1>0, <1>1, <2>1 DEF Start, Started
  <2>6. WriterType'
    BY <1>0, <1>1, <2>1, <2>5 DEF Start, Started, WriterType, WalType
  <2>7. ClocksType'
    BY <1>0, <1>1, <2>1, <2>5 DEF Start, Started, ClocksType
  <2> QED
    BY <1>0, <1>1, <2>1, <2>2, <2>3, <2>4, <2>5, <2>6, <2>7 DEF Start, Started,
      ParquetType, JobsType, MergesType, CallersType
<1>2. CASE Replay
  <2>1. PICK skipped \in SUBSET UNION {wal[g].ok : g \in replaying} :
           tables' = [tables EXCEPT ![gen] =
                        UnionAll([g \in replaying |->
                                    [rows |-> wal[g].ok \ skipped, twice |-> {}]],
                                 replaying)]
    BY <1>2 DEF Replay
  <2> DEFINE files == [g \in replaying |-> [rows |-> wal[g].ok \ skipped, twice |-> {}]]
  <2>2. \A g \in replaying : files[g] \in Contents
    BY <1>0 DEF TableInv, WalType, WalFiles, Contents
  <2>3. UnionAll(files, replaying) \in Contents
    BY <2>2, UnionAllFacts
  <2>4. tables' = [tables EXCEPT ![gen] = UnionAll(files, replaying)]
    BY <2>1
  <2> HIDE DEF files
  <2>5. TablesType'
    BY <1>0, <2>3, <2>4 DEF TablesType
  <2>6. WriterType' /\ ClocksType'
    BY <1>0, <1>2 DEF Replay, Fault, WriterType, ClocksType
  <2> QED
    BY <1>0, <1>2, <2>5, <2>6 DEF Replay, WalType, ParquetType, ShownType,
      JobsType, MergesType, CallersType
<1>3. CASE \E x \in replaying : DeleteReplayed(x)
  <2>1. WalType'
    BY <1>0, <1>3 DEF DeleteReplayed, Without, WalType
  <2>2. ClocksType'
    BY <1>0, <1>3 DEF DeleteReplayed, Fault, ClocksType
  <2>3. WriterType'
    BY <1>0, <1>3 DEF DeleteReplayed, WriterType
  <2> QED
    BY <1>0, <1>3, <2>1, <2>2, <2>3 DEF DeleteReplayed, ParquetType, TablesType,
      ShownType, JobsType, MergesType, CallersType
<1>4. CASE WalFails
  <2>1. WalType'
    <3>1. \A w \in WalFiles : [w EXCEPT !.torn = TRUE] \in WalFiles
      BY DEF WalFiles
    <3>2. ASSUME wal' # wal
          PROVE  gen \in DOMAIN wal /\ \E w \in WalFiles : wal' = [wal EXCEPT ![gen] = w]
      BY <1>0, <1>4, <3>1, <3>2, DataOfType, LoggedFacts DEF WalFails, WalType,
        TableInv
    <3> QED
      BY <1>0, <3>2 DEF WalType
  <2>2. ClocksType'
    BY <1>0, <1>4 DEF WalFails, Fault, ClocksType
  <2>3. CallersType' /\ WriterType'
    BY <1>0, <1>4 DEF WalFails, Raise, Answered, CallersType, WriterType
  <2> QED
    BY <1>0, <1>4, <2>1, <2>2, <2>3 DEF WalFails, ParquetType, TablesType,
      ShownType, JobsType, MergesType
<1>5. CASE FlushOpen
  <2>1. WalType'
    <3>1. gen' \in Nat /\ wal' = Opened(gen')
      BY <1>0, <1>5 DEF FlushOpen, WriterType
    <3>2. [ok |-> {}, torn |-> FALSE] \in WalFiles
      BY DEF WalFiles
    <3> QED
      BY <1>0, <3>1, <3>2 DEF Opened, With, WalType
  <2>2. ShownType'
    <3>1. snapshot' = [snapshot EXCEPT !.tables = @ \cup {gen'}] /\ queries' = queries
      BY <1>5 DEF FlushOpen
    <3>2. gen' \in Nat
      BY <1>0, <1>5 DEF FlushOpen, WriterType
    <3> QED
      BY <1>0, <3>1, <3>2 DEF ShownType, Snapshots
  <2>3. TablesType'
    BY <1>0, <1>5 DEF FlushOpen, With, TablesType, Empty, Contents, WriterType
  <2>4. walOpen' \in BOOLEAN /\ dirty' \in BOOLEAN
    BY <1>0, <1>5 DEF FlushOpen
  <2>5. WriterType'
    BY <1>0, <1>5, <2>4 DEF FlushOpen, WriterType
  <2> QED
    BY <1>0, <1>5, <2>1, <2>2, <2>3, <2>4, <2>5 DEF FlushOpen, ParquetType,
      JobsType, MergesType, CallersType, ClocksType
<1>6. CASE FlushOpenFails
  <2>1. TablesType'
    BY <1>0, <1>6 DEF FlushOpenFails, With, TablesType, Empty, Contents,
      WriterType
  <2>2. walOpen' \in BOOLEAN /\ dirty' \in BOOLEAN
    BY <1>0, <1>6 DEF FlushOpenFails
  <2>3. WriterType'
    BY <1>0, <1>6, <2>2 DEF FlushOpenFails, Raise, WriterType
  <2>4. CallersType'
    BY <1>0, <1>6, <2>2 DEF FlushOpenFails, Raise, Answered, CallersType
  <2>5. ClocksType'
    BY <1>0, <1>6, <2>2 DEF FlushOpenFails, Fault, ClocksType
  <2> QED
    BY <1>0, <1>6, <2>1, <2>2, <2>3, <2>4, <2>5 DEF FlushOpenFails, WalType,
      ParquetType, ShownType, JobsType, MergesType
<1>7. CASE RetentionRemove
  <2>1. \A p \in victims \cap snapshot.segments : parquet[p].rows \subseteq Batches
    BY <1>0, <1>7 DEF ShownInv, ParquetType, Contents
  <2>2. CallersType'
    BY <1>0, <1>7, <2>1 DEF RetentionRemove, CallersType
  <2>3. ShownType' /\ JobsType'
    BY <1>0, <1>7, <2>1 DEF RetentionRemove, ShownType, JobsType, Snapshots
  <2> QED
    BY <1>0, <1>7, <2>1, <2>2, <2>3 DEF RetentionRemove, WalType, ParquetType,
      TablesType, MergesType, WriterType, ClocksType
<1>8. CASE \E c \in Compactors : CompactPick(c)
  <2>1. \A force : Groups(force) \in SUBSET SUBSET Paths
    BY <1>0, <1>8 DEF Groups, ShownType, Snapshots
  <2>2. MergesType'
    BY <1>0, <1>8, <2>1 DEF CompactPick, MergesType
  <2>3. UNCHANGED <<diskVars, writerVars, channel, closed, snapshot, drops,
                    deletes, victims, queries, answer, released, clockVars>>
    BY <1>8 DEF CompactPick
  <2> QED
    BY <1>0, <2>2, <2>3 DEF diskVars, writerVars, clockVars, WalType, ParquetType,
      TablesType, ShownType, JobsType, CallersType, WriterType, ClocksType
<1>9. CASE \E c \in Compactors : CompactWrite(c)
  <2>1. PICK c \in Compactors : CompactWrite(c)
    BY <1>9
  <2>2. PICK G \in compaction[c].groups :
           /\ G \subseteq DOMAIN parquet
           /\ parquet' = With(parquet, MergedPath(G), UnionAll(parquet, G))
           /\ compaction' = [compaction EXCEPT ![c].sources = G,
                                               ![c].merged = {MergedPath(G)}]
    BY <2>1 DEF CompactWrite
  <2>3. MergedPath(G) \in Paths
    <3>0. {} \notin compaction[c].groups
      BY <1>0 DEF MergeInv, MergeOf
    <3>1. G # {}
      BY <2>2, <3>0
    <3>2. \A p \in G : p.hour \in Hours
      BY <1>0, <2>2 DEF ParquetType, Paths
    <3> QED
      BY <1>0, <3>1, <3>2 DEF MergedPath, Paths, ClocksType
  <2>4. UnionAll(parquet, G) \in Contents
    BY <1>0, <2>2, UnionAllFacts DEF ParquetType
  <2>5. ParquetType'
    BY <1>0, <2>2, <2>3, <2>4 DEF ParquetType, With
  <2>6. MergesType'
    <3>1. G \in SUBSET Paths /\ {MergedPath(G)} \in SUBSET Paths
      BY <1>0, <2>2, <2>3 DEF ParquetType
    <3>2. \A d \in Compactors :
             /\ compaction'[d].groups = compaction[d].groups
             /\ compaction'[d].sources \in {G, compaction[d].sources}
             /\ compaction'[d].merged \in {{MergedPath(G)}, compaction[d].merged}
             /\ compaction'[d] = [groups |-> compaction'[d].groups,
                                  sources |-> compaction'[d].sources,
                                  merged |-> compaction'[d].merged]
      BY <1>0, <2>2 DEF MergesType
    <3>3. compaction' = [d \in Compactors |-> compaction'[d]]
      BY <1>0, <2>2 DEF MergesType
    <3> QED
      BY <1>0, <3>1, <3>2, <3>3 DEF MergesType
  <2>7. ClocksType'
    BY <1>0, <2>1 DEF CompactWrite, ClocksType
  <2> QED
    BY <1>0, <2>1, <2>5, <2>6, <2>7 DEF CompactWrite, WalType, TablesType,
      ShownType, JobsType, CallersType, WriterType
<1>10. CASE \E c \in Compactors : CompactSwap(c)
  <2>1. PICK c \in Compactors : CompactSwap(c)
    BY <1>10
  <2>2. /\ compaction[c].sources \subseteq Paths
        /\ compaction[c].merged \subseteq Paths
    BY <1>0 DEF MergesType
  <2>3. ShownType'
    BY <1>0, <2>1, <2>2 DEF CompactSwap, AfterMerge, ShownType, Snapshots
  <2>4. MergesType'
    BY <1>0, <2>1 DEF CompactSwap, MergesType
  <2>5. JobsType'
    BY <1>0, <2>1, <2>2 DEF CompactSwap, JobsType
  <2> QED
    BY <1>0, <2>1, <2>3, <2>4, <2>5 DEF CompactSwap, WalType, ParquetType,
      TablesType, CallersType, WriterType, ClocksType
<1>11. CASE Stop
  <2>1. closed' \in BOOLEAN
    BY <1>0, <1>11 DEF Stop
  <2>2. CallersType'
    BY <1>0, <1>11, <2>1 DEF Stop, CallersType
  <2> QED
    BY <1>0, <1>11, <2>1, <2>2 DEF Stop, WalType, ParquetType, TablesType,
      ShownType, JobsType, MergesType, WriterType, ClocksType
<1>12. CASE Shutdown
  <2>1. ParquetType'
    BY <1>0, <1>12 DEF Shutdown, Without, ParquetType
  <2>2. walOpen' \in BOOLEAN /\ dirty' \in BOOLEAN /\ closed' \in BOOLEAN
    BY <1>0, <1>12 DEF Shutdown, ProcessGone
  <2>3. CallersType'
    BY <1>0, <1>12, <2>2 DEF Shutdown, ProcessGone, CallersType, Answered
  <2>4. ShownType'
    BY <1>0, <1>12, <2>2 DEF Shutdown, ProcessGone, ShownType, NoSnapshot,
      Snapshots
  <2>5. MergesType'
    BY <1>0, <1>12, <2>2 DEF Shutdown, ProcessGone, MergesType, NoCompaction
  <2>6. WriterType'
    BY <1>0, <1>12, <2>2 DEF Shutdown, ProcessGone, WriterType
  <2>7. JobsType' /\ ClocksType'
    BY <1>0, <1>12, <2>2 DEF Shutdown, ProcessGone, JobsType, ClocksType
  <2> QED
    BY <1>0, <1>12, <2>1, <2>2, <2>3, <2>4, <2>5, <2>6, <2>7 DEF Shutdown,
      ProcessGone, WalType, TablesType
<1>13. CASE Crash
  <2>1. WalType'
    BY <1>0, <1>13, DataOfType, LoggedFacts DEF Crash, WalType
  <2>2. walOpen' \in BOOLEAN /\ dirty' \in BOOLEAN /\ closed' \in BOOLEAN
    BY <1>0, <1>13 DEF Crash, ProcessGone
  <2>3. CallersType'
    BY <1>0, <1>13, <2>2 DEF Crash, ProcessGone, CallersType, Answered
  <2>4. ShownType'
    BY <1>0, <1>13, <2>2 DEF Crash, ProcessGone, ShownType, NoSnapshot, Snapshots
  <2>5. MergesType'
    BY <1>0, <1>13, <2>2 DEF Crash, ProcessGone, MergesType, NoCompaction
  <2>6. WriterType'
    BY <1>0, <1>13, <2>2 DEF Crash, ProcessGone, WriterType
  <2>7. JobsType' /\ ClocksType'
    BY <1>0, <1>13, <2>2 DEF Crash, ProcessGone, JobsType, ClocksType
  <2> QED
    BY <1>0, <1>13, <2>1, <2>2, <2>3, <2>4, <2>5, <2>6, <2>7 DEF Crash,
      ProcessGone, ParquetType, TablesType
<1> USE DEF WalType, ParquetType, TablesType, ShownType, JobsType, MergesType,
           CallersType, WriterType, ClocksType
<1>14. CASE Recovered
  BY <1>0, <1>14 DEF Recovered
<1>15. CASE TakeBatch
  BY <1>0, <1>15 DEF TakeBatch
<1>16. CASE WriteWal
  BY <1>0, DataOfType, LoggedFacts, <1>16 DEF WriteWal
<1>17. CASE AppendBatch
  BY <1>0, DataOfType, PlusFacts, <1>17 DEF AppendBatch
<1>18. CASE AppendFails
  BY <1>0, DataOfType, PlusFacts, <1>18 DEF AppendFails, Raise, Answered,
    Fault
<1>19. CASE AckData
  BY <1>0, <1>19 DEF AckData, Answered
<1>20. CASE AckFlush
  BY <1>0, <1>20 DEF AckFlush, Answered
<1>21. CASE FlushNothing
  BY <1>0, <1>21 DEF FlushNothing, FlushReturns
<1>22. CASE FlushWrite
  BY <1>0, <1>22 DEF FlushWrite, Exchanged, With, Snapshots, Paths,
    ControlInv, TableInv
<1>23. CASE FlushWriteFails
  BY <1>0, <1>23 DEF FlushWriteFails, Raise, Answered, Fault
<1>24. CASE FlushDelete
  <2>1. WalType'
    BY <1>0, <1>24 DEF FlushDelete, Without
  <2>2. gen - 1 \in Nat
    BY <1>0, <1>24 DEF FlushDelete, ControlInv
  <2>3. JobsType'
    BY <1>0, <1>24, <2>2 DEF FlushDelete
  <2>4. WriterType'
    BY <1>0, <1>24 DEF FlushDelete, FlushReturns
  <2>5. ClocksType'
    BY <1>0, <1>24 DEF FlushDelete, Fault
  <2>6. CallersType' /\ MergesType'
    BY <1>0, <1>24 DEF FlushDelete, FlushReturns
  <2> QED
    BY <1>0, <1>24, <2>1, <2>3, <2>4, <2>5, <2>6 DEF FlushDelete
<1>36. CASE FinalFlush
  BY <1>0, <1>36 DEF FinalFlush
<1>25. CASE \E r \in Requests : Call(r)
  BY <1>0, <1>25 DEF Call, Submit
<1>26. CASE TimerFlush
  BY <1>0, <1>26 DEF TimerFlush, Submit
<1>27. CASE \E x \in Batches : Cancel(x)
  BY <1>0, <1>27 DEF Cancel
<1>28. CASE RetentionPick
  BY <1>0, <1>28 DEF RetentionPick, Snapshots
<1>29. CASE \E x \in drops : RunDrop(x)
  BY <1>0, <1>29 DEF RunDrop, Without
<1>30. CASE \E x \in deletes : RunDelete(x)
  BY <1>0, <1>30 DEF RunDelete, Without
<1>31. CASE \E q \in Queries : QueryStart(q)
  BY <1>0, <1>31 DEF QueryStart
<1>32. CASE \E q \in Queries : QueryEnd(q)
  BY <1>0, <1>32 DEF QueryEnd, NoSnapshot, Snapshots
<1>33. CASE \E c \in Compactors : CompactFails(c)
  BY <1>0, <1>33 DEF CompactFails, NoCompaction, Fault
<1>34. CASE HourPasses
  BY <1>0, ConstantsAssumption, <1>34 DEF HourPasses, Hours,
    ConstantsAssumption
<1>35. CASE UNCHANGED vars
  BY <1>0, <1>35 DEF vars
<1> QED
  BY <1>1, <1>2, <1>3, <1>4, <1>5, <1>6, <1>7, <1>8, <1>9, <1>10, <1>11,
    <1>12, <1>13, <1>14, <1>15, <1>16, <1>17, <1>18, <1>19, <1>20, <1>21,
    <1>22, <1>23, <1>24, <1>25, <1>26, <1>27, <1>28, <1>29, <1>30, <1>31,
    <1>32, <1>33, <1>34, <1>35, <1>36 DEF Steps, Boot, Writer, Callers, Maintenance,
    Readers, Compactor

\* The files that a step may add to the disk.
LEMMA NewFiles ==
    ASSUME [Steps]_vars
    PROVE  /\ DOMAIN wal' \subseteq DOMAIN wal \cup {gen'}
           /\ \A p \in DOMAIN parquet' \ DOMAIN parquet :
                 \/ p.kind = "cmp"
                 \/ pc = "write" /\ p.id = gen - 1
<1> USE DEF diskVars
<1>1. CASE Boot
  BY <1>1 DEF Boot, Start, Started, Opened, With, Replay, DeleteReplayed, Without,
    Recovered
<1>2. CASE \/ TakeBatch \/ WriteWal \/ WalFails \/ AppendBatch
          \/ AppendFails \/ AckData \/ AckFlush
  BY <1>2 DEF TakeBatch, WriteWal, WalFails, Raise, AppendBatch, AppendFails,
    AckData, AckFlush
<1>3. CASE \/ FlushNothing \/ FlushOpen \/ FlushOpenFails \/ FlushWrite
          \/ FlushWriteFails \/ FlushDelete \/ FinalFlush
  BY <1>3 DEF FlushNothing, FlushReturns, FlushOpen, Opened, With,
    FlushOpenFails, Raise, FlushWrite, Exchanged, FlushWriteFails,
    FlushDelete, Without, FinalFlush
<1>4. CASE Callers
  BY <1>4 DEF Callers, Call, Submit, TimerFlush, Cancel
<1>5. CASE Maintenance
  BY <1>5 DEF Maintenance, RetentionPick, RetentionRemove, RunDrop, Without,
    RunDelete
<1>6. CASE Readers
  BY <1>6 DEF Readers, QueryStart, QueryEnd
<1>7. CASE \E c \in Compactors : CompactPick(c)
  BY <1>7 DEF CompactPick
<1>8. CASE \E c \in Compactors : CompactWrite(c)
  BY <1>8 DEF CompactWrite, With, MergedPath
<1>9. CASE \/ (\E c \in Compactors : CompactFails(c))
          \/ (\E c \in Compactors : CompactSwap(c))
  BY <1>9 DEF CompactFails, CompactSwap
<1>10. CASE Stop \/ Shutdown \/ Crash \/ HourPasses
  BY <1>10 DEF Stop, Shutdown, ProcessGone, Without, Crash, HourPasses
<1>11. CASE UNCHANGED vars
  BY <1>11 DEF vars
<1> QED
  BY <1>1, <1>2, <1>3, <1>4, <1>5, <1>6, <1>7, <1>8, <1>9, <1>10, <1>11 DEF
    Steps, Boot, Writer, Callers, Maintenance, Readers, Compactor

\* The types of the next state, with a bound on its generations.
LEMMA GenerationsStep ==
    ASSUME ConstantsAssumption, StructInv, [Steps]_vars
    PROVE  TypeInv'
<1>1. TypeOK'
  BY TypeStep
<1>2. PICK m \in Nat : \A g \in Generations(DOMAIN parquet) : g <= m
  BY DEF StructInv, TypeInv
<1>3. gen \in Nat /\ gen' \in Nat
  BY <1>1 DEF StructInv, TypeInv, TypeOK, WriterType
<1>4. \A g \in Generations(DOMAIN parquet)' : g \in Generations(DOMAIN parquet) \/ g = gen' \/ g = gen - 1
  <2>1. \A g \in DOMAIN wal' : g \in Generations(DOMAIN parquet) \/ g = gen'
    BY NewFiles DEF Generations
  <2>2. \A p \in DOMAIN parquet' : p.kind = "seg" =>
           p.id \in Generations(DOMAIN parquet) \/ p.id = gen - 1
    BY NewFiles DEF Generations
  <2>3. 0 \in Generations(DOMAIN parquet)
    BY DEF Generations
  <2> QED
    BY <2>1, <2>2, <2>3 DEF Generations
<1>5. \A g \in Generations(DOMAIN parquet) : g \in Nat
  BY DEF StructInv, TypeInv, TypeOK, WalType, ParquetType, Paths, Generations
<1>6. \A g \in Generations(DOMAIN parquet)' : g <= m + gen + gen'
  BY <1>2, <1>3, <1>4, <1>5
<1>7. m + gen + gen' \in Nat
  <2>1. \A a, b, c \in Nat : a + b + c \in Nat
    OBVIOUS
  <2> QED
    BY <1>2, <1>3, <2>1
<1> QED
  BY <1>1, <1>6, <1>7 DEF TypeInv

\* The phases of the writer follow one another.
LEMMA ControlStep ==
    ASSUME StructInv, [Steps]_vars
    PROVE  ControlInv'
<1>0. /\ gen \in Nat /\ ctx \in {"start", "loop", "stop"} /\ ControlInv /\ TypeInv
      /\ (pc = "down" => NextGeneration(DOMAIN parquet) \in Nat \ {0})
  BY NextGenerationFresh DEF StructInv, TypeInv, TypeOK, WriterType
<1> USE DEF writerVars, ControlInv
<1>1. CASE Start \/ Replay
  BY <1>0, <1>1 DEF Start, Started, Opened, With, Replay
<1>2. CASE (\E x \in replaying : DeleteReplayed(x)) \/ Recovered
  BY <1>0, <1>2 DEF DeleteReplayed, Without, Recovered
<1>3. CASE \/ TakeBatch \/ WriteWal \/ WalFails \/ AppendBatch
          \/ AppendFails \/ AckData \/ AckFlush
  BY <1>0, <1>3 DEF TakeBatch, WriteWal, WalFails, Raise, AppendBatch,
    AppendFails, AckData, AckFlush
<1>4. CASE \/ FlushNothing \/ FlushOpen \/ FlushOpenFails \/ FlushWrite
          \/ FlushWriteFails \/ FlushDelete \/ FinalFlush
  BY <1>0, <1>4 DEF FlushNothing, FlushReturns, FlushOpen, Opened, With,
    FlushOpenFails, Raise, FlushWrite, Exchanged, FlushWriteFails,
    FlushDelete, Without, FinalFlush
<1>5. CASE Callers
  BY <1>0, <1>5 DEF Callers, Call, Submit, TimerFlush, Cancel
<1>6. CASE Maintenance
  BY <1>0, <1>6 DEF Maintenance, RetentionPick, RetentionRemove, RunDrop,
    Without, RunDelete
<1>7. CASE Readers
  BY <1>0, <1>7 DEF Readers, QueryStart, QueryEnd
<1>8. CASE \E c \in Compactors : Compactor(c)
  BY <1>0, <1>8 DEF Compactor, CompactPick, CompactWrite, CompactFails,
    CompactSwap
<1>9. CASE Stop \/ Shutdown \/ Crash \/ HourPasses
  BY <1>0, <1>9 DEF Stop, Shutdown, ProcessGone, Without, Crash, HourPasses
<1>10. CASE UNCHANGED vars
  BY <1>0, <1>10 DEF vars
<1> QED
  BY <1>1, <1>2, <1>3, <1>4, <1>5, <1>6, <1>7, <1>8, <1>9, <1>10 DEF Steps,
    Boot, Writer, Callers, Maintenance, Readers, Compactor

\* Whatever ends the process clears its memory.
LEMMA DownStep ==
    ASSUME StructInv, [Steps]_vars
    PROVE  DownInv'
<1>0. DownInv /\ ControlInv /\ ctx \in {"start", "loop", "stop"}
  BY DEF StructInv, TypeInv, TypeOK, WriterType
<1> USE DEF writerVars, otherVars, DownInv, ControlInv
<1>1. CASE Boot
  BY <1>0, <1>1 DEF Boot, Start, Started, Opened, With, Replay, DeleteReplayed,
    Without, Recovered
<1>2. CASE \/ TakeBatch \/ WriteWal \/ WalFails \/ AppendBatch
          \/ AppendFails \/ AckData \/ AckFlush
  BY <1>0, <1>2 DEF TakeBatch, WriteWal, WalFails, Raise, AppendBatch,
    AppendFails, AckData, AckFlush
<1>3. CASE \/ FlushNothing \/ FlushOpen \/ FlushOpenFails \/ FlushWrite
          \/ FlushWriteFails \/ FlushDelete \/ FinalFlush
  BY <1>0, <1>3 DEF FlushNothing, FlushReturns, FlushOpen, Opened, With,
    FlushOpenFails, Raise, FlushWrite, Exchanged, FlushWriteFails,
    FlushDelete, Without, FinalFlush
<1>4. CASE Callers
  BY <1>0, <1>4 DEF Callers, Call, Submit, TimerFlush, Cancel
<1>5. CASE Maintenance
  BY <1>0, <1>5 DEF Maintenance, RetentionPick, Serving, RetentionRemove,
    RunDrop, Without, RunDelete
<1>6. CASE Readers
  BY <1>0, <1>6 DEF Readers, QueryStart, Serving, QueryEnd
<1>7. CASE \E c \in Compactors : CompactPick(c)
  BY <1>0, <1>7 DEF CompactPick, Serving
<1>8. CASE \E c \in Compactors : CompactWrite(c)
  BY <1>0, <1>8 DEF CompactWrite, NoCompaction
<1>9. CASE \/ (\E c \in Compactors : CompactFails(c))
          \/ (\E c \in Compactors : CompactSwap(c))
  BY <1>0, <1>9 DEF CompactFails, NoCompaction, CompactSwap
<1>10. CASE Stop \/ Shutdown \/ Crash \/ HourPasses
  BY <1>0, <1>10 DEF Stop, Shutdown, ProcessGone, Without, Crash, HourPasses
<1>11. CASE UNCHANGED vars
  BY <1>0, <1>11 DEF vars
<1> QED
  BY <1>1, <1>2, <1>3, <1>4, <1>5, <1>6, <1>7, <1>8, <1>9, <1>10, <1>11 DEF
    Steps, Boot, Writer, Callers, Maintenance, Readers, Compactor

\* Generations and ticks only grow while the process runs.
LEMMA ClockStep ==
    ASSUME StructInv, [Steps]_vars
    PROVE  /\ ticks' \in {ticks, ticks + 1}
           /\ pc = "down" /\ pc' # "down" => Start
           /\ pc # "down" /\ pc' # "down" =>
                \/ gen' = gen /\ (pc' = "write" => pc = "write")
                \/ gen' = gen + 1
<1>0. ControlInv /\ DownInv /\ ctx \in {"start", "loop", "stop"}
  BY DEF StructInv, TypeInv, TypeOK, WriterType
<1> USE DEF writerVars, clockVars, ControlInv, DownInv
<1>1. CASE Boot
  BY <1>0, <1>1 DEF Boot, Start, Started, Opened, With, Replay, DeleteReplayed,
    Without, Recovered
<1>2. CASE \/ TakeBatch \/ WriteWal \/ WalFails \/ AppendBatch
          \/ AppendFails \/ AckData \/ AckFlush
  BY <1>0, <1>2 DEF TakeBatch, WriteWal, WalFails, Raise, AppendBatch,
    AppendFails, AckData, AckFlush
<1>3. CASE \/ FlushNothing \/ FlushOpen \/ FlushOpenFails \/ FlushWrite
          \/ FlushWriteFails \/ FlushDelete \/ FinalFlush
  BY <1>0, <1>3 DEF FlushNothing, FlushReturns, FlushOpen, Opened, With,
    FlushOpenFails, Raise, FlushWrite, Exchanged, FlushWriteFails,
    FlushDelete, Without, FinalFlush
<1>4. CASE Callers
  BY <1>0, <1>4 DEF Callers, Call, Submit, TimerFlush, Cancel
<1>5. CASE Maintenance
  BY <1>0, <1>5 DEF Maintenance, RetentionPick, RetentionRemove, RunDrop,
    Without, RunDelete
<1>6. CASE Readers
  BY <1>0, <1>6 DEF Readers, QueryStart, QueryEnd
<1>7. CASE \E c \in Compactors : Compactor(c)
  BY <1>0, <1>7 DEF Compactor, CompactPick, CompactWrite, CompactFails,
    CompactSwap
<1>8. CASE Stop \/ Shutdown \/ Crash \/ HourPasses
  BY <1>0, <1>8 DEF Stop, Shutdown, ProcessGone, Without, Crash, HourPasses
<1>9. CASE UNCHANGED vars
  BY <1>0, <1>9 DEF vars
<1> QED
  BY <1>1, <1>2, <1>3, <1>4, <1>5, <1>6, <1>7, <1>8, <1>9 DEF Steps, Boot,
    Writer, Callers, Maintenance, Readers, Compactor

\* The paths that come into use.
LEMMA NewPaths ==
    ASSUME StructInv, [Steps]_vars
    PROVE  \A p : Known(p)' =>
              \/ Known(p)
              \/ p.kind = "cmp" /\ p.id = ticks /\ ticks' = ticks + 1
              \/ /\ p.kind = "seg" /\ p.id = gen - 1 /\ gen' = gen
                 /\ pc = "write" /\ pc' = "delete"
<1>0. /\ snapshot.segments \subseteq DOMAIN parquet
      /\ \A c \in Compactors : compaction[c].sources # {} =>
                               compaction[c].sources \in compaction[c].groups
  BY DEF StructInv, ShownInv, MergeInv, MergeOf
<1>a. compaction \in [Compactors -> [groups : SUBSET SUBSET Paths,
                                    sources : SUBSET Paths,
                                    merged : SUBSET Paths]]
  BY DEF StructInv, TypeInv, TypeOK, MergesType
<1> USE DEF diskVars, otherVars, Known
<1>1. CASE Boot
  BY <1>0, <1>a, <1>1 DEF Boot, Start, Started, Opened, With, Replay, DeleteReplayed,
    Without, Recovered
<1>2. CASE \/ TakeBatch \/ WriteWal \/ WalFails \/ AppendBatch
          \/ AppendFails \/ AckData \/ AckFlush
  BY <1>0, <1>a, <1>2 DEF TakeBatch, WriteWal, WalFails, Raise, AppendBatch,
    AppendFails, AckData, AckFlush
<1>3. CASE \/ FlushNothing \/ FlushOpen \/ FlushOpenFails \/ FlushWrite
          \/ FlushWriteFails \/ FlushDelete \/ FinalFlush
  BY <1>0, <1>a, <1>3 DEF FlushNothing, FlushReturns, FlushOpen, Opened, With,
    FlushOpenFails, Raise, FlushWrite, Exchanged, FlushWriteFails,
    FlushDelete, Without, FinalFlush
<1>4. CASE Callers
  BY <1>0, <1>a, <1>4 DEF Callers, Call, Submit, TimerFlush, Cancel
<1>5. CASE RetentionPick \/ RetentionRemove
  BY <1>0, <1>a, <1>5 DEF RetentionPick, RetentionRemove
<1>6. CASE \E x \in drops : RunDrop(x)
  BY <1>0, <1>a, <1>6 DEF RunDrop, Without
<1>7. CASE \E x \in deletes : RunDelete(x)
  BY <1>0, <1>a, <1>7 DEF RunDelete, Without
<1>8. CASE Readers
  BY <1>0, <1>a, <1>8 DEF Readers, QueryStart, QueryEnd
<1>9. CASE \E c \in Compactors : CompactPick(c)
  BY <1>0, <1>a, <1>9 DEF CompactPick, Groups
<1>10. CASE \E c \in Compactors : CompactWrite(c)
  BY <1>0, <1>a, <1>10 DEF CompactWrite, With, MergedPath
<1>11. CASE \/ (\E c \in Compactors : CompactFails(c))
          \/ (\E c \in Compactors : CompactSwap(c))
  BY <1>0, <1>a, <1>11 DEF CompactFails, NoCompaction, CompactSwap
<1>12. CASE Stop
  BY <1>0, <1>a, <1>12 DEF Stop
<1>13. CASE Shutdown
  BY <1>0, <1>a, <1>13 DEF Shutdown, ProcessGone, NoCompaction, Without
<1>14. CASE Crash \/ HourPasses
  BY <1>0, <1>a, <1>14 DEF Crash, ProcessGone, NoCompaction, HourPasses
<1>15. CASE UNCHANGED vars
  BY <1>0, <1>a, <1>15 DEF vars
<1> QED
  BY <1>1, <1>2, <1>3, <1>4, <1>5, <1>6, <1>7, <1>8, <1>9, <1>10, <1>11,
    <1>12, <1>13, <1>14, <1>15 DEF Steps, Boot, Writer, Callers, Maintenance,
    Readers, Compactor

\* The tables, drops and files to replay that a step of a process may add.
LEMMA NewTables ==
    ASSUME pc # "down", [Steps]_vars
    PROVE  /\ DOMAIN tables' \subseteq DOMAIN tables \cup {gen'}
           /\ drops' \subseteq drops \cup {gen - 1}
           /\ replaying' \subseteq replaying
<1> USE DEF writerVars
<1>1. CASE Boot
  BY <1>1 DEF Boot, Start, Started, Opened, With, Replay, DeleteReplayed, Without,
    Recovered
<1>2. CASE \/ TakeBatch \/ WriteWal \/ WalFails \/ AppendBatch
          \/ AppendFails \/ AckData \/ AckFlush
  BY <1>2 DEF TakeBatch, WriteWal, WalFails, Raise, AppendBatch, AppendFails,
    AckData, AckFlush
<1>3. CASE \/ FlushNothing \/ FlushOpen \/ FlushOpenFails \/ FlushWrite
          \/ FlushWriteFails \/ FlushDelete \/ FinalFlush
  BY <1>3 DEF FlushNothing, FlushReturns, FlushOpen, Opened, With,
    FlushOpenFails, Raise, FlushWrite, Exchanged, FlushWriteFails,
    FlushDelete, Without, FinalFlush
<1>4. CASE Callers
  BY <1>4 DEF Callers, Call, Submit, TimerFlush, Cancel
<1>5. CASE Maintenance
  BY <1>5 DEF Maintenance, RetentionPick, RetentionRemove, RunDrop, Without,
    RunDelete
<1>6. CASE Readers
  BY <1>6 DEF Readers, QueryStart, QueryEnd
<1>7. CASE \E c \in Compactors : Compactor(c)
  BY <1>7 DEF Compactor, CompactPick, CompactWrite, CompactFails, CompactSwap
<1>8. CASE Stop \/ Shutdown \/ Crash \/ HourPasses
  BY <1>8 DEF Stop, Shutdown, ProcessGone, Crash, HourPasses
<1>9. CASE UNCHANGED vars
  BY <1>9 DEF vars
<1> QED
  BY <1>1, <1>2, <1>3, <1>4, <1>5, <1>6, <1>7, <1>8, <1>9 DEF Steps, Boot,
    Writer, Callers, Maintenance, Readers, Compactor

\* No generation and no tick ever names two files.
LEMMA FreshStep ==
    ASSUME ConstantsAssumption, StructInv, [Steps]_vars
    PROVE  FreshInv'
<1>0. /\ gen \in Nat /\ gen' \in Nat /\ ticks \in Nat
      /\ DOMAIN wal \subseteq Nat /\ DOMAIN tables \subseteq Nat
      /\ drops \subseteq Nat /\ replaying \subseteq Nat
      /\ (pc # "down" => gen > 0)
  BY TypeStep DEF StructInv, TypeInv, TypeOK, WriterType, ClocksType, WalType,
    TablesType, JobsType, ControlInv
<1>1. FreshInv
  BY DEF StructInv
<1>2. ASSUME NEW p \in Paths, Known(p)', p.kind = "cmp"
      PROVE  p.id < ticks'
  <2>1. p.id \in Nat
    BY DEF Paths
  <2>2. Known(p) \/ (p.id = ticks /\ ticks' = ticks + 1)
    BY <1>2, NewPaths
  <2>3. Known(p) => p.id < ticks
    BY <1>1, <1>2 DEF FreshInv
  <2> QED
    BY <1>0, <2>1, <2>2, <2>3, ClockStep
<1>3. CASE pc = "down" /\ pc' # "down"
  <2>1. Start
    BY <1>3, ClockStep
  <2>2. \A p \in Paths : Known(p)' => p \in DOMAIN parquet
    BY <2>1, <1>3 DEF Start, Started, Known, StructInv, DownInv, otherVars, NoCompaction
  <2>3. /\ \A p \in DOMAIN parquet : p.kind = "seg" => p.id < gen'
        /\ \A g \in DOMAIN wal : g < gen'
    BY <2>1, NextGenerationFresh DEF Start, Started, StructInv
  <2>4. /\ DOMAIN wal' = DOMAIN wal \cup {gen'} /\ DOMAIN tables' = {gen'}
        /\ replaying' = DOMAIN wal /\ drops' = {} /\ pc' # "write"
    BY <2>1, <1>3 DEF Start, Started, Opened, With, StructInv, DownInv
  <2>5. \A g \in DOMAIN wal' \cup DOMAIN tables' : g <= gen'
    BY <1>0, <2>3, <2>4
  <2> QED
    BY <1>2, <1>3, <2>2, <2>3, <2>4, <2>5 DEF FreshInv
<1>4. CASE pc # "down" /\ pc' # "down"
  <2>1. \/ gen' = gen /\ (pc' = "write" => pc = "write")
        \/ gen' = gen + 1
    BY <1>4, ClockStep
  <2>2. ASSUME NEW p \in Paths, Known(p)', p.kind = "seg"
        PROVE  p.id < gen' /\ (pc' = "write" => p.id # gen' - 1)
    <3>1. p.id \in Nat
      BY DEF Paths
    <3>2. Known(p) => p.id < gen /\ (pc = "write" => p.id # gen - 1)
      BY <1>1, <1>4, <2>2 DEF FreshInv
    <3>3. Known(p) \/ (p.id = gen - 1 /\ gen' = gen /\ pc' = "delete")
      BY <2>2, NewPaths
    <3> QED
      BY <1>0, <1>4, <2>1, <3>1, <3>2, <3>3
  <2>3. ASSUME NEW g \in DOMAIN wal' \cup DOMAIN tables'
        PROVE  g <= gen'
    <3>1. g \in DOMAIN wal \cup DOMAIN tables \/ g = gen'
      BY <1>4, <2>3, NewFiles, NewTables
    <3>2. g \in DOMAIN wal \cup DOMAIN tables => g <= gen /\ g \in Nat
      BY <1>0, <1>1, <1>4 DEF FreshInv
    <3> QED
      BY <1>0, <2>1, <3>1, <3>2
  <2>4. ASSUME NEW g \in drops' \cup replaying'
        PROVE  g < gen'
    <3>1. g \in drops \cup replaying \/ g = gen - 1
      BY <1>4, <2>4, NewTables
    <3>2. g \in drops \cup replaying => g < gen /\ g \in Nat
      BY <1>0, <1>1, <1>4 DEF FreshInv
    <3> QED
      BY <1>0, <2>1, <3>1, <3>2
  <2> QED
    BY <1>2, <2>2, <2>3, <2>4 DEF FreshInv
<1>5. CASE pc' = "down"
  BY <1>2, <1>5 DEF FreshInv
<1> QED
  BY <1>3, <1>4, <1>5

\* The tables, the WAL files and the files being replayed stay in step.
LEMMA TableStep ==
    ASSUME ConstantsAssumption, StructInv, [Steps]_vars
    PROVE  TableInv'
<1>0. /\ TableInv
      /\ gen \in Nat /\ drops \subseteq Nat /\ replaying \subseteq Nat
      /\ ctx \in {"start", "loop", "stop"}
      /\ (pc = "down" => drops = {} /\ queries = [q \in Queries |-> NoSnapshot])
      /\ (pc # "down" => \A g \in drops \cup replaying : g < gen)
      /\ (pc \in {"down", "idle", "wal", "append", "ack", "ackflush", "stopped"} => ctx # "start")
      /\ queries \in [Queries -> Snapshots]
  BY DEF StructInv, TypeInv, TypeOK, WriterType, JobsType, ControlInv, DownInv,
    FreshInv, ShownType
<1> USE DEF writerVars, otherVars, diskVars, TableInv
<1>1. CASE Start
  <2>1. /\ gen' \notin DOMAIN wal /\ gen' \in DOMAIN wal' /\ DOMAIN wal \subseteq DOMAIN wal'
    BY <1>1, NextGenerationFresh DEF Start, Started, Opened, With, StructInv, TypeInv, TypeOK, WalType
  <2>2. /\ snapshot'.tables = {gen'} /\ DOMAIN tables' = {gen'} /\ drops' = {}
        /\ \A q \in Queries : queries'[q].tables = {}
    BY <1>0, <1>1 DEF Start, Started, NoSnapshot
  <2>3. /\ pc' \in {"idle", "replay"} /\ walOpen' = TRUE /\ replaying' = DOMAIN wal
    BY <1>1 DEF Start, Started
  <2> QED
    BY <2>1, <2>2, <2>3
<1>2. CASE Replay
  <2>1. DOMAIN tables' = DOMAIN tables
    BY <1>2 DEF Replay
  <2>2. pc' = "flush" /\ ctx = "start"
    BY <1>0, <1>2 DEF Replay, StructInv, ControlInv
  <2> QED
    BY <1>0, <1>2, <2>1, <2>2 DEF Replay
<1>3. CASE AppendFails
  <2>1. DataOf(batch, Len(batch)) # {}
    <3>1. Len(batch) \in Nat
      BY DEF StructInv, TypeInv, TypeOK, WriterType
    <3> QED
      BY <3>1, <1>3 DEF AppendFails, DataOf
  <2>2. walOpen /\ DOMAIN tables' = DOMAIN tables
    BY <1>0, <1>3, <2>1 DEF AppendFails
  <2> QED
    BY <1>0, <1>3, <2>2 DEF AppendFails, Raise
<1>4. CASE \E x \in replaying : DeleteReplayed(x)
  BY <1>0, <1>4 DEF DeleteReplayed, Without
<1>5. CASE Recovered
  BY <1>0, <1>5 DEF Recovered
<1>6. CASE TakeBatch \/ WriteWal \/ WalFails
  BY <1>0, <1>6 DEF TakeBatch, WriteWal, WalFails, Raise
<1>7. CASE AppendBatch
  BY <1>0, <1>7 DEF AppendBatch
<1>8. CASE AckData
  BY <1>0, <1>8 DEF AckData
<1>9. CASE AckFlush
  BY <1>0, <1>9 DEF AckFlush
<1>10. CASE FlushNothing
  BY <1>0, <1>10 DEF FlushNothing, FlushReturns
<1>11. CASE FlushOpen
  BY <1>0, <1>11 DEF FlushOpen, Opened, With
<1>12. CASE FlushOpenFails \/ FlushWrite
  BY <1>0, <1>12 DEF FlushOpenFails, Raise, With, FlushWrite, Exchanged
<1>13. CASE FlushWriteFails \/ FlushDelete \/ FinalFlush
  BY <1>0, <1>13 DEF FlushWriteFails, Raise, FlushDelete, FlushReturns,
    Without, FinalFlush
<1>14. CASE Callers
  BY <1>0, <1>14 DEF Callers, Call, Submit, TimerFlush, Cancel
<1>15. CASE RetentionPick
  BY <1>0, <1>15 DEF RetentionPick
<1>16. CASE RetentionRemove
  BY <1>0, <1>16 DEF RetentionRemove
<1>17. CASE \E x \in drops : RunDrop(x)
  BY <1>0, <1>17 DEF RunDrop, Without
<1>18. CASE \E x \in deletes : RunDelete(x)
  BY <1>0, <1>18 DEF RunDelete, Without
<1>19. CASE Readers
  BY <1>0, <1>19 DEF Readers, QueryStart, QueryEnd, NoSnapshot
<1>20. CASE \/ (\E c \in Compactors : CompactPick(c))
          \/ (\E c \in Compactors : CompactWrite(c))
  BY <1>0, <1>20 DEF CompactPick, CompactWrite
<1>21. CASE \E c \in Compactors : CompactFails(c)
  BY <1>0, <1>21 DEF CompactFails
<1>22. CASE \E c \in Compactors : CompactSwap(c)
  BY <1>0, <1>22 DEF CompactSwap
<1>23. CASE Stop \/ Shutdown \/ Crash \/ HourPasses
  BY <1>0, <1>23 DEF Stop, Shutdown, ProcessGone, NoSnapshot, Crash,
    HourPasses
<1>24. CASE UNCHANGED vars
  BY <1>0, <1>24 DEF vars
<1> QED
  BY <1>1, <1>2, <1>3, <1>4, <1>5, <1>6, <1>7, <1>8, <1>9, <1>10, <1>11,
    <1>12, <1>13, <1>14, <1>15, <1>16, <1>17, <1>18, <1>19, <1>20, <1>21,
    <1>22, <1>23, <1>24 DEF Steps, Boot, Writer, Callers, Maintenance, Readers,
    Compactor

\* The next merged file and the segment being written have no path in use.
LEMMA FreshPaths ==
    ASSUME StructInv
    PROVE  /\ \A c \in Compactors : \A G \in compaction[c].groups :
                G \subseteq DOMAIN parquet => ~Known(MergedPath(G))
           /\ pc = "write" =>
                ~Known([kind |-> "seg", id |-> gen - 1, hour |-> hour])
<1>0. /\ FreshInv /\ DOMAIN parquet \subseteq Paths
      /\ gen \in Nat /\ ticks \in Nat /\ hour \in Hours /\ (pc = "write" => gen > 0)
  BY DEF StructInv, TypeInv, TypeOK, WriterType, ClocksType, ParquetType, ControlInv
<1>a. \A c \in Compactors : {} \notin compaction[c].groups
  BY DEF StructInv, MergeInv, MergeOf
<1>1. ASSUME NEW c \in Compactors, NEW G \in compaction[c].groups,
             G \subseteq DOMAIN parquet
      PROVE  ~Known(MergedPath(G))
  <2>0. G # {}
    BY <1>a
  <2> DEFINE p == CHOOSE p \in G : TRUE
  <2>1. p \in Paths
    BY <1>0, <1>1, <2>0
  <2>2. p.hour \in Hours
    BY <2>1 DEF Paths
  <2>3. MergedPath(G) = [kind |-> "cmp", id |-> ticks, hour |-> p.hour]
    BY DEF MergedPath
  <2> HIDE DEF p
  <2>4. MergedPath(G) \in Paths /\ MergedPath(G).kind = "cmp" /\ MergedPath(G).id = ticks
    BY <1>0, <2>2, <2>3 DEF Paths
  <2> QED
    BY <1>0, <2>4 DEF FreshInv
<1>2. ASSUME pc = "write"
      PROVE  ~Known([kind |-> "seg", id |-> gen - 1, hour |-> hour])
  <2> DEFINE file == [kind |-> "seg", id |-> gen - 1, hour |-> hour]
  <2>1. file \in Paths /\ file.kind = "seg" /\ file.id = gen - 1
    BY <1>0, <1>2 DEF Paths
  <2> HIDE DEF file
  <2>2. ~Known(file)
    BY <1>0, <1>2, <2>1 DEF FreshInv
  <2> QED
    BY <2>2 DEF file
<1> QED
  BY <1>1, <1>2

\* No step removes a file that a snapshot shows.
LEMMA ShownStep ==
    ASSUME StructInv, [Steps]_vars
    PROVE  ShownInv'
<1>0. /\ ShownInv /\ MergeInv /\ DownInv /\ ShownType
      /\ (pc = "write" => ~Known([kind |-> "seg", id |-> gen - 1, hour |-> hour]))
  BY FreshPaths DEF StructInv, TypeInv, TypeOK
<1> USE DEF diskVars, otherVars, ShownInv
<1>1. CASE \E c \in Compactors : CompactSwap(c)
  <2>1. PICK c \in Compactors : CompactSwap(c)
    BY <1>1
  <2>2. /\ compaction[c].sources \in compaction[c].groups
        /\ compaction[c].merged \subseteq DOMAIN parquet \ deletes
        /\ compaction[c].merged \cap compaction[c].sources = {}
    BY <1>0, <2>1 DEF CompactSwap, MergeInv, MergeOf
  <2>3. /\ snapshot'.segments = AfterMerge(c) /\ deletes' = deletes \cup compaction[c].sources
        /\ parquet' = parquet /\ queries' = queries
    BY <1>0, <2>1 DEF CompactSwap, ShownType, Snapshots
  <2> QED
    BY <1>0, <2>2, <2>3 DEF AfterMerge
<1>2. CASE Start \/ Replay
  BY <1>0, <1>2 DEF Start, Started, DownInv, NoSnapshot, Replay
<1>3. CASE (\E x \in replaying : DeleteReplayed(x)) \/ Recovered
  BY <1>0, <1>3 DEF DeleteReplayed, Without, Recovered
<1>4. CASE \/ TakeBatch \/ WriteWal \/ WalFails \/ AppendBatch
          \/ AppendFails \/ AckData \/ AckFlush
  BY <1>0, <1>4 DEF TakeBatch, WriteWal, WalFails, Raise, AppendBatch,
    AppendFails, AckData, AckFlush
<1>5. CASE \/ FlushNothing \/ FlushOpen \/ FlushOpenFails \/ FlushWrite
          \/ FlushWriteFails \/ FlushDelete \/ FinalFlush
  BY <1>0, <1>5 DEF FlushNothing, FlushReturns, FlushOpen, ShownType,
    Snapshots, FlushOpenFails, Raise, With, FlushWrite, Exchanged, Known,
    FlushWriteFails, FlushDelete, Without, FinalFlush
<1>6. CASE Callers
  BY <1>0, <1>6 DEF Callers, Call, Submit, TimerFlush, Cancel
<1>7. CASE RetentionPick
  BY <1>0, <1>7 DEF RetentionPick
<1>8. CASE RetentionRemove
  BY <1>0, <1>8 DEF RetentionRemove
<1>9. CASE (\E x \in drops : RunDrop(x)) \/ (\E x \in deletes : RunDelete(x))
  BY <1>0, <1>9 DEF RunDrop, Without, RunDelete
<1>10. CASE Readers
  BY <1>0, <1>10 DEF Readers, QueryStart, ShownType, QueryEnd, NoSnapshot
<1>11. CASE \/ (\E c \in Compactors : CompactPick(c))
          \/ (\E c \in Compactors : CompactWrite(c))
          \/ (\E c \in Compactors : CompactFails(c))
  BY <1>0, <1>11 DEF CompactPick, CompactWrite, With, CompactFails
<1>12. CASE Stop \/ Shutdown \/ Crash \/ HourPasses
  BY <1>0, <1>12 DEF Stop, Shutdown, ProcessGone, NoSnapshot, Crash,
    HourPasses
<1>13. CASE UNCHANGED vars
  BY <1>0, <1>13 DEF vars
<1> QED
  BY <1>1, <1>2, <1>3, <1>4, <1>5, <1>6, <1>7, <1>8, <1>9, <1>10, <1>11,
    <1>12, <1>13 DEF Steps, Boot, Writer, Callers, Maintenance, Readers,
    Compactor

\* A merged file keeps the rows of its sources until the swap.
LEMMA MergeStep ==
    ASSUME ConstantsAssumption, StructInv, [Steps]_vars
    PROVE  MergeInv'
<1>0. /\ ShownInv /\ MergeInv /\ DownInv /\ ShownType /\ MergesType
  BY DEF StructInv, TypeInv, TypeOK
<1>a. \A c \in Compactors :
         compaction[c].merged \subseteq
           DOMAIN parquet \ (snapshot.segments \cup deletes \cup victims)
  BY <1>0 DEF MergeInv, MergeOf
<1>b. ASSUME compaction' = compaction,
             \A p \in DOMAIN parquet' : p \in DOMAIN parquet /\ parquet'[p] = parquet[p],
             \A c \in Compactors :
                compaction[c].merged \subseteq
                  DOMAIN parquet' \ (snapshot'.segments \cup deletes' \cup victims')
      PROVE  MergeInv'
  <2>1. SUFFICES ASSUME NEW c \in Compactors PROVE MergeOf(c)'
    BY DEF MergeInv
  <2>2. MergeOf(c)
    BY <1>0 DEF MergeInv
  <2>3. \A p \in compaction[c].sources \cap DOMAIN parquet' :
           \A b \in parquet'[p].rows :
              \E m \in compaction[c].merged : b \in parquet'[m].rows
    BY <1>b, <2>2 DEF MergeOf
  <2> QED
    BY <1>b, <2>2, <2>3 DEF MergeOf
<1>c. ASSUME compaction' = [c \in Compactors |-> NoCompaction] PROVE MergeInv'
  BY <1>c DEF MergeInv, MergeOf, NoCompaction
<1> USE DEF diskVars, otherVars, MergeInv, MergeOf
<1>1. CASE FlushWrite
  <2> DEFINE file == [kind |-> "seg", id |-> gen - 1, hour |-> hour]
  <2>1. ~Known(file)
    BY <1>1, FreshPaths DEF FlushWrite
  <2>2. /\ snapshot'.segments = snapshot.segments \cup {file}
        /\ DOMAIN parquet' = DOMAIN parquet \cup {file}
        /\ \A p \in DOMAIN parquet : p # file => parquet'[p] = parquet[p]
        /\ UNCHANGED <<compaction, deletes, victims>>
    BY <1>1 DEF FlushWrite, Exchanged, With
  <2> HIDE DEF file
  <2>3. /\ file \notin DOMAIN parquet
        /\ \A c \in Compactors : \A G \in compaction[c].groups : file \notin G
    BY <2>1 DEF Known
  <2>4. /\ \A p \in DOMAIN parquet : parquet'[p] = parquet[p]
        /\ \A c \in Compactors : compaction[c].merged \subseteq DOMAIN parquet
        /\ \A c \in Compactors : file \notin compaction[c].sources
    BY <1>0, <2>2, <2>3
  <2>5. ASSUME NEW c \in Compactors, NEW p \in compaction[c].sources \cap DOMAIN parquet',
               NEW b \in parquet'[p].rows
        PROVE  \E m \in compaction[c].merged : b \in parquet'[m].rows
    BY <1>0, <2>2, <2>4
  <2> QED
    BY <1>0, <2>2, <2>3, <2>4, <2>5
<1>2. CASE \E c \in Compactors : CompactPick(c)
  <2>1. PICK c \in Compactors : CompactPick(c)
    BY <1>2
  <2>2. /\ \A d \in Compactors : d # c => compaction'[d] = compaction[d]
        /\ compaction'[c].groups = Groups(c = "api")
        /\ compaction'[c].sources = {} /\ compaction'[c].merged = {}
        /\ UNCHANGED <<parquet, snapshot, deletes, victims>>
    BY <1>0, <2>1 DEF CompactPick, MergesType, NoCompaction
  <2>3. {} \notin Groups(c = "api")
    BY FS_EmptySet DEF Groups
  <2>4. \A G \in Groups(c = "api") : G \subseteq snapshot.segments
    BY DEF Groups
  <2>5. \A d \in Compactors : \A G \in Groups(c = "api") : compaction[d].merged \cap G = {}
    BY <1>0, <2>4
  <2>6. ASSUME NEW d \in Compactors PROVE MergeOf(d)'
    <3>1. CASE d = c
      BY <1>0, <2>2, <2>3, <2>5, <3>1
    <3>2. CASE d # c
      BY <1>0, <2>2, <2>3, <2>5, <3>2
    <3> QED
      BY <3>1, <3>2
  <2> QED
    BY <2>6
<1>3. CASE \E c \in Compactors : CompactWrite(c)
  <2>1. PICK c \in Compactors : CompactWrite(c)
    BY <1>3
  <2>2. PICK G \in compaction[c].groups :
           /\ G \subseteq DOMAIN parquet
           /\ parquet' = With(parquet, MergedPath(G), UnionAll(parquet, G))
           /\ compaction' = [compaction EXCEPT ![c].sources = G,
                                               ![c].merged = {MergedPath(G)}]
    BY <2>1 DEF CompactWrite
  <2> DEFINE file == MergedPath(G)
  <2>3. /\ file \notin DOMAIN parquet \cup deletes \cup victims
        /\ \A d \in Compactors : \A H \in compaction[d].groups : file \notin H
    BY <2>2, FreshPaths DEF Known
  <2>4. /\ \A d \in Compactors : d # c => compaction'[d] = compaction[d]
        /\ compaction'[c].groups = compaction[c].groups
        /\ compaction'[c].sources = G /\ compaction'[c].merged = {file}
    BY <1>0, <2>2 DEF MergesType
  <2>5. /\ DOMAIN parquet' = DOMAIN parquet \cup {file}
        /\ \A p \in DOMAIN parquet : parquet'[p] = parquet[p]
        /\ parquet'[file].rows = UNION {parquet[p].rows : p \in G}
        /\ UNCHANGED <<snapshot, deletes, victims>>
    BY <2>1, <2>2, <2>3 DEF CompactWrite, With, UnionAll
  <2> HIDE DEF file
  <2>6. file \notin snapshot.segments
    BY <1>0, <2>3 DEF ShownInv
  <2>7. ASSUME NEW d \in Compactors, NEW p \in compaction'[d].sources \cap DOMAIN parquet',
               NEW b \in parquet'[p].rows
        PROVE  \E m \in compaction'[d].merged : b \in parquet'[m].rows
    <3>1. CASE d = c
      BY <2>2, <2>4, <2>5, <3>1
    <3>2. CASE d # c
      <4>1. p \in DOMAIN parquet /\ p \in compaction[d].sources /\ b \in parquet[p].rows
        BY <1>0, <2>3, <2>4, <2>5, <3>2
      <4>2. PICK m \in compaction[d].merged : b \in parquet[m].rows
        BY <1>0, <4>1
      <4>3. m \in DOMAIN parquet
        BY <1>0
      <4> QED
        BY <2>4, <2>5, <3>2, <4>2, <4>3
    <3> QED
      BY <3>1, <3>2
  <2>8. /\ \A d \in Compactors : compaction'[d].groups = compaction[d].groups
        /\ \A d \in Compactors : file \notin compaction[d].merged
        /\ \A d \in Compactors : compaction'[d].merged =
                                   IF d = c THEN {file} ELSE compaction[d].merged
    BY <1>0, <2>3, <2>4
  <2>9. ASSUME NEW d \in Compactors
        PROVE  /\ {} \notin compaction'[d].groups
               /\ compaction'[d].sources # {} =>
                     /\ compaction'[d].sources \in compaction'[d].groups
                     /\ compaction'[d].merged # {}
    <3>1. CASE d = c
      <4>1. {} \notin compaction[c].groups
        BY <1>0
      <4> QED
        BY <2>2, <2>4, <3>1, <4>1
    <3>2. CASE d # c
      BY <1>0, <2>4, <2>8, <3>2
    <3> QED
      BY <3>1, <3>2
  <2>10. ASSUME NEW d \in Compactors
         PROVE  compaction'[d].merged \subseteq
                  DOMAIN parquet' \ (snapshot'.segments \cup deletes' \cup victims')
    BY <1>0, <2>3, <2>5, <2>6, <2>8
  <2>11. ASSUME NEW d \in Compactors, NEW e \in Compactors
         PROVE  /\ \A H \in compaction'[e].groups : compaction'[d].merged \cap H = {}
                /\ d # e => compaction'[d].merged \cap compaction'[e].merged = {}
    <3>1. \A H \in compaction[e].groups : compaction[d].merged \cap H = {}
      BY <1>0
    <3>2. d # e => compaction[d].merged \cap compaction[e].merged = {}
      BY <1>0
    <3> QED
      BY <2>3, <2>8, <3>1, <3>2
  <2> QED
    BY <2>7, <2>9, <2>10, <2>11
<1>4. CASE \E c \in Compactors : CompactFails(c)
  <2>1. PICK c \in Compactors : CompactFails(c)
    BY <1>4
  <2>2. /\ \A d \in Compactors : d # c => compaction'[d] = compaction[d]
        /\ compaction'[c].groups = {}
        /\ compaction'[c].sources = {} /\ compaction'[c].merged = {}
        /\ UNCHANGED <<parquet, snapshot, deletes, victims>>
    BY <1>0, <2>1 DEF CompactFails, MergesType, NoCompaction
  <2> QED
    BY <1>0, <2>2
<1>5. CASE \E c \in Compactors : CompactSwap(c)
  <2>1. PICK c \in Compactors : CompactSwap(c)
    BY <1>5
  <2>2. /\ \A d \in Compactors : d # c => compaction'[d] = compaction[d]
        /\ compaction'[c].groups \subseteq compaction[c].groups
        /\ compaction'[c].sources = {} /\ compaction'[c].merged = {}
        /\ UNCHANGED <<parquet, victims>>
    BY <1>0, <2>1 DEF CompactSwap, MergesType
  <2>3. /\ snapshot'.segments \subseteq snapshot.segments \cup compaction[c].merged
        /\ deletes' = deletes \cup compaction[c].sources
    BY <1>0, <2>1 DEF CompactSwap, AfterMerge, ShownType, Snapshots
  <2>4. compaction[c].sources \in compaction[c].groups
    BY <1>0, <2>1 DEF CompactSwap
  <2>5. \A d \in Compactors : d # c =>
           compaction[d].merged \cap (compaction[c].merged \cup compaction[c].sources) = {}
    BY <1>0, <2>4
  <2>6. ASSUME NEW d \in Compactors PROVE MergeOf(d)'
    <3>1. CASE d = c
      BY <1>0, <2>2, <2>3, <2>5, <3>1
    <3>2. CASE d # c
      BY <1>0, <2>2, <2>3, <2>5, <3>2
    <3> QED
      BY <3>1, <3>2
  <2> QED
    BY <2>6
<1> HIDE DEF MergeInv, MergeOf
<1>6. CASE Start
  BY <1>a, <1>b, <1>0, <1>c, <1>6 DEF Start, Started, DownInv
<1>7. CASE Replay \/ (\E x \in replaying : DeleteReplayed(x)) \/ Recovered
  BY <1>a, <1>b, <1>7 DEF Replay, DeleteReplayed, Without, Recovered
<1>8. CASE TakeBatch \/ WriteWal \/ WalFails \/ AppendBatch \/ AppendFails
  BY <1>a, <1>b, <1>8 DEF TakeBatch, WriteWal, WalFails, Raise, AppendBatch,
    AppendFails
<1>9. CASE AckData \/ AckFlush \/ FlushNothing
  BY <1>a, <1>b, <1>9 DEF AckData, AckFlush, FlushNothing, FlushReturns
<1>10. CASE FlushOpen
  BY <1>a, <1>b, <1>10 DEF FlushOpen, Opened, With
<1>11. CASE FlushOpenFails
  BY <1>a, <1>b, <1>11 DEF FlushOpenFails, Raise, With
<1>12. CASE FlushWriteFails \/ FlushDelete \/ FinalFlush
  BY <1>a, <1>b, <1>12 DEF FlushWriteFails, Raise, FlushDelete, FlushReturns,
    Without, FinalFlush
<1>13. CASE Callers
  BY <1>a, <1>b, <1>13 DEF Callers, Call, Submit, TimerFlush, Cancel
<1>14. CASE RetentionPick
  BY <1>a, <1>b, <1>14 DEF RetentionPick
<1>15. CASE RetentionRemove
  BY <1>a, <1>b, <1>15 DEF RetentionRemove
<1>16. CASE \E x \in drops : RunDrop(x)
  BY <1>a, <1>b, <1>16 DEF RunDrop, Without
<1>17. CASE \E x \in deletes : RunDelete(x)
  BY <1>a, <1>b, <1>17 DEF RunDelete, Without
<1>18. CASE Readers
  BY <1>a, <1>b, <1>18 DEF Readers, QueryStart, QueryEnd
<1>19. CASE Shutdown \/ Crash
  BY <1>a, <1>b, <1>c, <1>19 DEF Shutdown, ProcessGone, Crash
<1>20. CASE Stop \/ HourPasses
  BY <1>a, <1>b, <1>20 DEF Stop, HourPasses
<1>21. CASE UNCHANGED vars
  BY <1>a, <1>b, <1>21 DEF vars
<1> QED
  BY <1>1, <1>2, <1>3, <1>4, <1>5, <1>6, <1>7, <1>8, <1>9, <1>10, <1>11,
    <1>12, <1>13, <1>14, <1>15, <1>16, <1>17, <1>18, <1>19, <1>20, <1>21 DEF
    Steps, Boot, Writer, Callers, Maintenance, Readers, Compactor

\* The steps that write or delete a segment file.
LEMMA ParquetFrame ==
    ASSUME [Steps]_vars
    PROVE  \/ UNCHANGED parquet \/ FlushWrite \/ Shutdown
           \/ \E c \in Compactors : CompactWrite(c)
           \/ \E q \in deletes : RunDelete(q)
<1> USE DEF diskVars
<1>1. CASE Boot
  BY <1>1 DEF Boot, Start, Started, Opened, With, Replay, DeleteReplayed, Without,
    Recovered
<1>2. CASE \/ TakeBatch \/ WriteWal \/ WalFails \/ AppendBatch
          \/ AppendFails \/ AckData \/ AckFlush
  BY <1>2 DEF TakeBatch, WriteWal, WalFails, Raise, AppendBatch, AppendFails,
    AckData, AckFlush
<1>3. CASE \/ FlushNothing \/ FlushOpen \/ FlushOpenFails \/ FlushWrite
          \/ FlushWriteFails \/ FlushDelete \/ FinalFlush
  BY <1>3 DEF FlushNothing, FlushReturns, FlushOpen, Opened, With,
    FlushOpenFails, Raise, diskVars, FlushWriteFails, FlushDelete, Without,
    FinalFlush
<1>4. CASE Callers
  BY <1>4 DEF Callers, Call, Submit, TimerFlush, Cancel
<1>5. CASE Maintenance
  BY <1>5 DEF Maintenance, RetentionPick, RetentionRemove, RunDrop, Without,
    diskVars
<1>6. CASE Readers
  BY <1>6 DEF Readers, QueryStart, QueryEnd
<1>7. CASE \E c \in Compactors : Compactor(c)
  BY <1>7 DEF Compactor, CompactPick, diskVars, CompactFails, CompactSwap
<1>8. CASE Stop \/ Shutdown \/ Crash \/ HourPasses
  BY <1>8 DEF Stop, diskVars, Crash, ProcessGone, HourPasses
<1>9. CASE UNCHANGED vars
  BY <1>9 DEF vars
<1> QED
  BY <1>1, <1>2, <1>3, <1>4, <1>5, <1>6, <1>7, <1>8, <1>9 DEF Steps, Boot,
    Writer, Callers, Maintenance, Readers, Compactor

\* The structural invariant holds before the first start.
LEMMA StructInit ==
    ASSUME ConstantsAssumption, Init
    PROVE  StructInv
<1> USE DEF Init
<1>1. TypeOK
  <2>1. WalType /\ ParquetType /\ TablesType
    BY DEF WalType, ParquetType, TablesType
  <2>2. ShownType /\ JobsType /\ MergesType
    BY DEF ShownType, JobsType, MergesType, NoSnapshot, NoCompaction, Snapshots
  <2>3. closed \in BOOLEAN /\ walOpen \in BOOLEAN /\ dirty \in BOOLEAN
    OBVIOUS
  <2>4. CallersType /\ WriterType
    BY <2>3 DEF CallersType, WriterType
  <2>5. ClocksType
    BY DEF ClocksType, Hours, ConstantsAssumption
  <2> QED
    BY <2>1, <2>2, <2>4, <2>5 DEF TypeOK
<1>2. \A g \in Generations(DOMAIN parquet) : g <= 0
  BY DEF Generations
<1>3. ControlInv /\ DownInv /\ FreshInv
  BY DEF ControlInv, DownInv, FreshInv, Known, NoCompaction
<1>4. ShownInv /\ MergeInv /\ TableInv /\ AheadInv
  BY DEF ShownInv, MergeInv, MergeOf, TableInv, AheadInv, NoSnapshot, NoCompaction
<1> QED
  BY <1>1, <1>2, <1>3, <1>4 DEF StructInv, TypeInv

\* The steps that delete a WAL file, and those that lead to the deletion of one.
LEMMA WalFrame ==
    ASSUME StructInv, [Steps]_vars
    PROVE  /\ \/ DOMAIN wal \subseteq DOMAIN wal' \/ FlushDelete
              \/ \E x \in replaying : DeleteReplayed(x)
           /\ pc' = "delete" => FlushWrite \/ (pc = "delete" /\ walOpen' = walOpen)
<1>0. ctx \in {"start", "loop", "stop"}
  BY DEF StructInv, TypeInv, TypeOK, WriterType
<1> USE DEF diskVars, writerVars
<1>1. CASE Boot
  BY <1>1 DEF Boot, Start, Started, Opened, With, Replay, DeleteReplayed, Without,
    Recovered
<1>2. CASE \/ TakeBatch \/ WriteWal \/ WalFails \/ AppendBatch
          \/ AppendFails \/ AckData \/ AckFlush
  BY <1>2 DEF TakeBatch, WriteWal, WalFails, Raise, AppendBatch, AppendFails,
    AckData, AckFlush
<1>3. CASE \/ FlushNothing \/ FlushOpen \/ FlushOpenFails
          \/ FlushWriteFails \/ FlushDelete \/ FinalFlush
  BY <1>0, <1>3 DEF FlushNothing, FlushReturns, FlushOpen, Opened, With,
    FlushOpenFails, Raise, FlushWriteFails, FlushDelete, FinalFlush
<1>4. CASE FlushWrite
  BY <1>4 DEF FlushWrite
<1>5. CASE Callers
  BY <1>5 DEF Callers, Call, Submit, TimerFlush, Cancel
<1>6. CASE Maintenance
  BY <1>6 DEF Maintenance, RetentionPick, RetentionRemove, RunDrop, RunDelete
<1>7. CASE Readers
  BY <1>7 DEF Readers, QueryStart, QueryEnd
<1>8. CASE \E c \in Compactors : Compactor(c)
  BY <1>8 DEF Compactor, CompactPick, CompactWrite, CompactFails, CompactSwap
<1>9. CASE Stop \/ Shutdown \/ Crash \/ HourPasses
  BY <1>9 DEF Stop, Shutdown, ProcessGone, Crash, HourPasses
<1>10. CASE UNCHANGED vars
  BY <1>10 DEF vars
<1> QED
  BY <1>1, <1>2, <1>3, <1>4, <1>5, <1>6, <1>7, <1>8, <1>9, <1>10 DEF Steps, Boot,
    Writer, Callers, Maintenance, Readers, Compactor

\* Before a WAL file goes, the process has opened the one of a later generation.
LEMMA AheadStep ==
    ASSUME ConstantsAssumption, StructInv, [Steps]_vars
    PROVE  AheadInv'
<1>0. /\ AheadInv /\ ControlInv /\ FreshInv /\ TableInv
      /\ DOMAIN parquet \subseteq Paths /\ gen \in Nat /\ DOMAIN wal \subseteq Nat
      /\ replaying \subseteq Nat
  BY DEF StructInv, TypeInv, TypeOK, ParquetType, WalType, WriterType
<1>1. pc' = "delete" => walOpen'
  <2>1. FlushWrite => walOpen'
    BY <1>0 DEF FlushWrite, TableInv
  <2> QED
    BY <1>0, <2>1, WalFrame DEF AheadInv
<1>2. ASSUME NEW p \in DOMAIN parquet', p.kind = "seg"
      PROVE  \E g \in DOMAIN wal' : p.id < g
  <2>1. CASE p \notin DOMAIN parquet
    <3>1. p.id = gen - 1 /\ pc = "write"
      BY <1>2, <2>1, NewFiles
    <3>2. gen \in DOMAIN wal
      BY <1>0, <3>1 DEF TableInv
    <3>3. DOMAIN wal \subseteq DOMAIN wal'
      BY <1>0, <3>1, WalFrame DEF FlushDelete, DeleteReplayed
    <3> QED
      BY <1>0, <3>1, <3>2, <3>3
  <2>2. CASE p \in DOMAIN parquet
    <3>1. CASE DOMAIN wal \subseteq DOMAIN wal'
      BY <1>0, <1>2, <2>2, <3>1 DEF AheadInv
    <3>2. CASE FlushDelete \/ \E x \in replaying : DeleteReplayed(x)
      <4>1. pc \in {"delete", "cleanup"}
        BY <3>2 DEF FlushDelete, DeleteReplayed
      <4>2. gen \in DOMAIN wal
        BY <1>0, <4>1 DEF AheadInv, ControlInv, TableInv
      <4>3. gen \in DOMAIN wal'
        <5>1. \A x \in replaying : x < gen
          BY <1>0, <4>1 DEF FreshInv
        <5>2. \E x \in Nat : x < gen /\ DOMAIN wal \ {x} \subseteq DOMAIN wal'
          <6>1. FlushDelete => DOMAIN wal \ {gen - 1} \subseteq DOMAIN wal'
            BY DEF FlushDelete, Without
          <6>2. \A x \in replaying : DeleteReplayed(x) => DOMAIN wal \ {x} \subseteq DOMAIN wal'
            BY DEF DeleteReplayed, Without
          <6>3. gen - 1 \in Nat /\ gen - 1 < gen
            BY <1>0, <4>1 DEF ControlInv
          <6> QED
            BY <1>0, <3>2, <5>1, <6>1, <6>2, <6>3
        <5> QED
          BY <1>0, <4>2, <5>2
      <4>4. p.id < gen
        BY <1>0, <1>2, <2>2, <4>1 DEF FreshInv, Known
      <4> QED
        BY <4>3, <4>4
    <3> QED
      BY <3>1, <3>2, WalFrame
  <2> QED
    BY <2>1, <2>2
<1> QED
  BY <1>1, <1>2 DEF AheadInv

\* Every step of a process that reads all its segments preserves the structural invariant.
LEMMA StructStep ==
    ASSUME ConstantsAssumption, StructInv, [Steps]_vars
    PROVE  StructInv'
BY GenerationsStep, ControlStep, DownStep, FreshStep, ShownStep, MergeStep, TableStep,
  AheadStep DEF StructInv

\* So does a start that cannot read some of them: the WAL files alone put its generation past
\* theirs.
LEMMA SkippingStep ==
    ASSUME ConstantsAssumption, StructInv, StartSkipping
    PROVE  StructInv'
<1>0. /\ TypeInv /\ ControlInv /\ DownInv /\ FreshInv /\ TableInv /\ AheadInv
      /\ WalType /\ ParquetType /\ TablesType /\ ShownType /\ JobsType
      /\ MergesType /\ CallersType /\ WriterType /\ ClocksType
  BY DEF StructInv, TypeInv, TypeOK
<1>1. PICK loaded \in SUBSET DOMAIN parquet : Started(loaded)
  BY DEF StartSkipping
<1> USE DEF Started, otherVars
<1>2. /\ gen' = NextGeneration(loaded) /\ gen' \in Nat \ {0}
      /\ \A g \in DOMAIN wal : g < gen'
  BY <1>0, <1>1, NextGenerationOf
<1>3. \A p \in DOMAIN parquet : p.kind = "seg" => p.id < gen'
  <2>1. \A p \in DOMAIN parquet : p.id \in Nat
    BY <1>0 DEF ParquetType, Paths
  <2>2. DOMAIN wal \subseteq Nat
    BY <1>0 DEF WalType
  <2>3. ASSUME NEW p \in DOMAIN parquet, p.kind = "seg" PROVE p.id < gen'
    <3>1. PICK g \in DOMAIN wal : p.id < g
      BY <1>0, <2>3 DEF AheadInv
    <3> QED
      BY <1>2, <2>1, <2>2, <3>1
  <2> QED
    BY <2>3
<1>4. /\ DOMAIN wal' = DOMAIN wal \cup {gen'} /\ gen' \notin DOMAIN wal
      /\ DOMAIN tables' = {gen'} /\ replaying' = DOMAIN wal /\ walOpen' = TRUE
      /\ snapshot'.segments = loaded /\ snapshot'.tables = {gen'}
      /\ pc' \in {"idle", "replay"} /\ ctx' = (IF pc' = "idle" THEN "loop" ELSE "start")
  <2>1. gen' \notin DOMAIN wal
    BY <1>0, <1>2 DEF WalType
  <2> QED
    BY <1>1, <2>1 DEF Opened, With
<1>5. UNCHANGED <<parquet, batch, channel, closed, drops, deletes, compaction, victims,
                  queries, answer, released, hour, ticks>>
  BY <1>1
<1>6. /\ drops = {} /\ deletes = {} /\ victims = {}
      /\ compaction = [c \in Compactors |-> NoCompaction]
      /\ queries = [q \in Queries |-> NoSnapshot]
  BY <1>0, <1>1 DEF DownInv
<1>7. TypeOK'
  <2>1. WalType'
    BY <1>0, <1>1, <1>2 DEF Opened, With, WalType, WalFiles
  <2>2. TablesType'
    BY <1>1, <1>2 DEF TablesType, Empty, Contents
  <2>3. ShownType'
    BY <1>0, <1>1, <1>2 DEF ShownType, ParquetType, Snapshots
  <2>4. walOpen' \in BOOLEAN /\ dirty' \in BOOLEAN
    BY <1>1
  <2>5. WriterType'
    BY <1>0, <1>1, <1>2, <2>4 DEF WriterType, WalType
  <2>6. faults' \in Nat
    BY <1>0 DEF StartSkipping, Fault, ClocksType
  <2>7. ClocksType'
    BY <1>0, <1>1, <2>6 DEF ClocksType
  <2> QED
    BY <1>0, <1>5, <2>1, <2>2, <2>3, <2>5, <2>7 DEF TypeOK, ParquetType, JobsType,
      MergesType, CallersType
<1>8. \A g \in Generations(DOMAIN parquet)' : g <= gen'
  <2>1. \A g \in DOMAIN wal' : g <= gen'
    BY <1>0, <1>2, <1>4 DEF WalType
  <2>2. \A p \in DOMAIN parquet' : p.kind = "seg" => p.id <= gen'
    BY <1>0, <1>2, <1>3, <1>5 DEF ParquetType, Paths
  <2> QED
    BY <1>2, <2>1, <2>2 DEF Generations
<1>9. ControlInv'
  BY <1>2, <1>4 DEF ControlInv
<1>10. DownInv'
  BY <1>4 DEF DownInv
<1>11. FreshInv'
  <2>1. \A p : Known(p)' => p \in DOMAIN parquet
    BY <1>5, <1>6 DEF Known, NoCompaction
  <2>2. \A p \in DOMAIN parquet : Known(p)
    BY DEF Known
  <2>3. \A g \in DOMAIN wal' \cup DOMAIN tables' : g <= gen'
    BY <1>0, <1>2, <1>4 DEF WalType
  <2>4. \A g \in drops' \cup replaying' : g < gen'
    BY <1>2, <1>4, <1>5, <1>6
  <2> QED
    BY <1>0, <1>3, <1>4, <1>5, <2>1, <2>2, <2>3, <2>4 DEF FreshInv
<1>12. ShownInv'
  BY <1>4, <1>5, <1>6 DEF ShownInv, NoSnapshot
<1>13. MergeInv'
  BY <1>5, <1>6 DEF MergeInv, MergeOf, NoCompaction
<1>14. TableInv'
  BY <1>1, <1>4, <1>5, <1>6 DEF TableInv, NoSnapshot
<1>15. AheadInv'
  BY <1>3, <1>4, <1>5 DEF AheadInv
<1> QED
  BY <1>2, <1>7, <1>8, <1>9, <1>10, <1>11, <1>12, <1>13, <1>14, <1>15
    DEF StructInv, TypeInv

\* The structural invariant (types, phases of the writer, fresh names, readable
\* snapshots, merges in progress) holds in every reachable state.
THEOREM StructSafe == Spec => []StructInv
<1>1. Init => StructInv
  BY ConstantsAssumption, StructInit
<1>2. StructInv /\ [Next]_vars => StructInv'
  BY ConstantsAssumption, StructStep, SkippingStep DEF Next
<1> QED
  BY <1>1, <1>2, PTL DEF Spec

\* Every variable keeps its type, and the threads only ever hold paths and
\* generations of the right kind, whatever the calls, failures and crashes.
THEOREM TypeSafe == Spec => []TypeOK
<1>1. StructInv => TypeOK
  BY DEF StructInv, TypeInv
<1> QED
  BY <1>1, StructSafe, PTL

\* No file or table is pulled from under a snapshot in use, whatever the number
\* of compactors, queries and segments.
THEOREM SnapshotsSafe == Spec => []SnapshotReadable
<1>1. StructInv => SnapshotReadable
  BY DEF StructInv, ShownInv, TableInv, SnapshotReadable
<1> QED
  BY <1>1, StructSafe, PTL

\* No step changes a segment file that it leaves on disk.
LEMMA ImmutableStep ==
    ASSUME StructInv, [Steps]_vars, NEW p \in DOMAIN parquet \cap DOMAIN parquet'
    PROVE  parquet'[p] = parquet[p]
<1>1. CASE UNCHANGED parquet
  BY <1>1
<1>2. CASE FlushWrite
  <2> DEFINE file == [kind |-> "seg", id |-> gen - 1, hour |-> hour]
  <2>1. ~Known(file)
    BY <1>2, FreshPaths DEF FlushWrite
  <2>2. parquet' = With(parquet, file, tables[gen - 1])
    BY <1>2 DEF FlushWrite
  <2> HIDE DEF file
  <2> QED
    BY <2>1, <2>2 DEF Known, With
<1>3. CASE \E c \in Compactors : CompactWrite(c)
  <2>0. PICK c \in Compactors : CompactWrite(c)
    BY <1>3
  <2>1. PICK G \in compaction[c].groups :
           /\ G \subseteq DOMAIN parquet
           /\ parquet' = With(parquet, MergedPath(G), UnionAll(parquet, G))
    BY <2>0 DEF CompactWrite
  <2>2. ~Known(MergedPath(G))
    BY <2>1, FreshPaths
  <2> QED
    BY <2>1, <2>2 DEF Known, With
<1>4. CASE \E q \in deletes : RunDelete(q)
  BY <1>4 DEF RunDelete, Without
<1>5. CASE Shutdown
  BY <1>5 DEF Shutdown, Without
<1> QED
  BY <1>1, <1>2, <1>3, <1>4, <1>5, ParquetFrame

\* A segment file is never rewritten, even one that a start could not read: generations and
\* ticks never come back.
THEOREM SegmentsSafe == Spec => SegmentsImmutable
<1>1. StructInv /\ [Steps]_vars =>
         [\A p \in DOMAIN parquet \cap DOMAIN parquet' : parquet'[p] = parquet[p]]_vars
  BY ImmutableStep
<1>2. StartSkipping => UNCHANGED parquet
  BY DEF StartSkipping, Started
<1>3. StructInv /\ [Next]_vars =>
         [\A p \in DOMAIN parquet \cap DOMAIN parquet' : parquet'[p] = parquet[p]]_vars
  BY <1>1, <1>2 DEF Next
<1> QED
  BY <1>3, StructSafe, PTL DEF Spec, SegmentsImmutable

-----------------------------------------------------------------------------
(* Durability: its invariant.                                              *)

\* The failures that lose data silently are left out: a record torn by a failed
\* append, and a record that Recover cannot append to its table.
NoSilentLoss == "torn" \notin Faults /\ "replay" \notin Faults

\* Every segment file can be read at a start.  The rows of one that cannot stay on disk, but no
\* query sees them until a later start reads it.
EverySegmentLoads == "load" \notin Faults

\* Without such a segment, every step is one of Steps.
LEMMA LoadedSpec ==
    ASSUME EverySegmentLoads
    PROVE  Spec => Init /\ [][Steps]_vars
<1>1. [Next]_vars => [Steps]_vars
  BY EverySegmentLoads DEF EverySegmentLoads, Next, StartSkipping, May
<1> QED
  BY <1>1, PTL DEF Spec

\* Where the rows of a batch are.
InWal(b)      == \E g \in DOMAIN wal : b \in wal[g].ok
InReplayed(b) == \E g \in replaying : b \in wal[g].ok
InParquet(b)  == \E p \in DOMAIN parquet : b \in parquet[p].rows
InSegment(b)  == \E p \in snapshot.segments : b \in parquet[p].rows
InTable(b)    == \E g \in snapshot.tables : b \in tables[g].rows

\* Where the process, or its next start, finds a batch.
Found(b) == CASE pc = "down"   -> InWal(b) \/ InParquet(b)
              [] pc = "replay" -> InSegment(b) \/ InReplayed(b)
              [] OTHER         -> InSegment(b) \/ InTable(b)

KeptInv == \A b \in Acked \ released : Found(b)

NoTornInv == \A g \in DOMAIN wal : ~wal[g].torn

\* The rows of a queryable table are in the WAL file of its generation or, while
\* the process starts, in the files it replays until they are in a segment.
BackedRun ==
    \A g \in snapshot.tables :
        g \in DOMAIN wal /\ tables[g].rows \subseteq wal[g].ok

BackedStart ==
    /\ tables[gen].rows = {} \/ pc = "flush"
    /\ pc \in {"replay", "delete", "cleanup"} => snapshot.tables = {gen}
    /\ pc = "flush" =>
         /\ snapshot.tables = {gen} /\ (~dirty => tables[gen].rows = {})
         /\ \A b \in tables[gen].rows : InReplayed(b)
    /\ pc = "write" =>
         /\ snapshot.tables = {gen - 1, gen}
         /\ \A b \in tables[gen - 1].rows : InReplayed(b)

BackedInv == IF ctx = "start" THEN BackedStart ELSE BackedRun

\* What the writer is about to acknowledge is in the current table and its file.
BatchInv ==
    /\ pc = "append" => DataOf(batch, Len(batch)) = {} \/
         (walOpen /\ DataOf(batch, Len(batch)) \subseteq wal[gen].ok)
    /\ pc = "ack" => DataOf(batch, Len(batch)) = {} \/
         (walOpen /\ DataOf(batch, Len(batch)) \subseteq tables[gen].rows)

LossInv == KeptInv /\ NoTornInv /\ BackedInv /\ BatchInv

-----------------------------------------------------------------------------
(* Consequences of the structural invariant.                               *)

\* The types of the contents, and where the current table stands.
LEMMA StructFacts ==
    ASSUME StructInv
    PROVE  /\ \A g \in DOMAIN wal : wal[g] \in WalFiles
           /\ \A p \in DOMAIN parquet : parquet[p] \in Contents
           /\ \A g \in DOMAIN tables : tables[g] \in Contents
           /\ snapshot \in Snapshots /\ gen \in Nat /\ batch \in Seq(Requests \cup {Tick})
           /\ ctx \in {"start", "loop", "stop"}
           /\ DOMAIN wal \subseteq Nat /\ DOMAIN tables \subseteq Nat
           /\ replaying \subseteq Nat
           /\ snapshot.segments \subseteq DOMAIN parquet \ deletes
           /\ pc # "down" =>
                /\ gen > 0
                /\ \A g \in DOMAIN wal \cup DOMAIN tables : g <= gen
                /\ \A g \in drops \cup replaying : g < gen
           /\ ControlInv /\ TableInv
           /\ pc = "down" => snapshot = NoSnapshot
BY DEF StructInv, TypeInv, TypeOK, WalType, ParquetType, TablesType, ShownType,
  WriterType, ControlInv, FreshInv, ShownInv, DownInv

\* A batch becomes acknowledged only in AckData, when it is in the turn.
LEMMA NewAcked ==
    ASSUME ConstantsAssumption, [Steps]_vars, NEW b \in Batches, answer'[b] = "acked"
    PROVE  \/ answer[b] = "acked"
           \/ AckData /\ b \in DataOf(batch, Len(batch))
<1>0. b \in Requests /\ b \notin Flushes
  BY DEF ConstantsAssumption, Requests
<1> USE DEF Answered, WaitingAmong
<1>1. CASE Boot
  BY <1>0, <1>1 DEF Boot, Start, Started, Opened, With, Replay, DeleteReplayed,
    Without, Recovered
<1>2. CASE \/ TakeBatch \/ WriteWal \/ WalFails \/ AppendBatch
          \/ AppendFails \/ AckData \/ AckFlush
  BY <1>0, <1>2 DEF TakeBatch, WriteWal, WalFails, Raise, AppendBatch,
    AppendFails, AckData, Items, DataOf, AckFlush
<1>3. CASE \/ FlushNothing \/ FlushOpen \/ FlushOpenFails \/ FlushWrite
          \/ FlushWriteFails \/ FlushDelete \/ FinalFlush
  BY <1>0, <1>3 DEF FlushNothing, FlushReturns, FlushOpen, Opened, With,
    FlushOpenFails, Raise, FlushWrite, Exchanged, FlushWriteFails,
    FlushDelete, Without, FinalFlush
<1>4. CASE \E r \in Requests : Call(r)
  BY <1>0, <1>4 DEF Call, Submit
<1>5. CASE TimerFlush
  BY <1>0, <1>5 DEF TimerFlush, Submit
<1>6. CASE \E x \in Batches : Cancel(x)
  BY <1>0, <1>6 DEF Cancel
<1>7. CASE Maintenance
  BY <1>0, <1>7 DEF Maintenance, RetentionPick, RetentionRemove, RunDrop,
    Without, RunDelete
<1>8. CASE Readers
  BY <1>0, <1>8 DEF Readers, QueryStart, QueryEnd
<1>9. CASE \E c \in Compactors : Compactor(c)
  BY <1>0, <1>9 DEF Compactor, CompactPick, CompactWrite, CompactFails,
    CompactSwap
<1>10. CASE Stop \/ Shutdown \/ Crash \/ HourPasses
  BY <1>0, <1>10 DEF Stop, Shutdown, ProcessGone, Without, Crash, HourPasses
<1>11. CASE UNCHANGED vars
  BY <1>0, <1>11 DEF vars
<1> QED
  BY <1>1, <1>2, <1>3, <1>4, <1>5, <1>6, <1>7, <1>8, <1>9, <1>10, <1>11 DEF
    Steps, Boot, Writer, Callers, Maintenance, Readers, Compactor

\* What retention has removed stays removed.
LEMMA ReleasedGrows ==
    ASSUME [Steps]_vars
    PROVE  released \subseteq released'
<1>1. CASE Boot
  BY <1>1 DEF Boot, Start, Started, Opened, With, Replay, DeleteReplayed, Without,
    Recovered
<1>2. CASE \/ TakeBatch \/ WriteWal \/ WalFails \/ AppendBatch
          \/ AppendFails \/ AckData \/ AckFlush
  BY <1>2 DEF TakeBatch, WriteWal, WalFails, Raise, AppendBatch, AppendFails,
    AckData, AckFlush
<1>3. CASE \/ FlushNothing \/ FlushOpen \/ FlushOpenFails \/ FlushWrite
          \/ FlushWriteFails \/ FlushDelete \/ FinalFlush
  BY <1>3 DEF FlushNothing, FlushReturns, FlushOpen, Opened, With,
    FlushOpenFails, Raise, FlushWrite, Exchanged, FlushWriteFails,
    FlushDelete, Without, FinalFlush
<1>4. CASE Callers
  BY <1>4 DEF Callers, Call, Submit, TimerFlush, Cancel
<1>5. CASE Maintenance
  BY <1>5 DEF Maintenance, RetentionPick, RetentionRemove, RunDrop, Without,
    RunDelete
<1>6. CASE Readers
  BY <1>6 DEF Readers, QueryStart, QueryEnd
<1>7. CASE \E c \in Compactors : Compactor(c)
  BY <1>7 DEF Compactor, CompactPick, CompactWrite, CompactFails, CompactSwap
<1>8. CASE Stop \/ Shutdown \/ Crash \/ HourPasses
  BY <1>8 DEF Stop, Shutdown, ProcessGone, Without, Crash, HourPasses
<1>9. CASE UNCHANGED vars
  BY <1>9 DEF vars
<1> QED
  BY <1>1, <1>2, <1>3, <1>4, <1>5, <1>6, <1>7, <1>8, <1>9 DEF Steps, Boot,
    Writer, Callers, Maintenance, Readers, Compactor

\* No step tears a record.
LEMMA NoTornStep ==
    ASSUME NoSilentLoss, StructInv, NoTornInv, [Steps]_vars
    PROVE  NoTornInv'
<1>0. NoTornInv /\ ~May("torn") /\ \A g \in DOMAIN wal : wal[g] \in WalFiles
  BY StructFacts DEF NoSilentLoss, May
<1> USE DEF diskVars, NoTornInv
<1>1. CASE Start \/ Replay
  BY <1>0, <1>1 DEF Start, Started, Opened, With, Replay
<1>2. CASE (\E x \in replaying : DeleteReplayed(x)) \/ Recovered
  BY <1>0, <1>2 DEF DeleteReplayed, Without, Recovered
<1>3. CASE \/ TakeBatch \/ WriteWal \/ WalFails \/ AppendBatch
          \/ AppendFails \/ AckData \/ AckFlush
  BY <1>0, DataOfType, LoggedFacts, <1>3 DEF TakeBatch, WriteWal, WalFails,
    Raise, AppendBatch, AppendFails, AckData, AckFlush
<1>4. CASE \/ FlushNothing \/ FlushOpen \/ FlushOpenFails \/ FlushWrite
          \/ FlushWriteFails \/ FlushDelete \/ FinalFlush
  BY <1>0, <1>4 DEF FlushNothing, FlushReturns, FlushOpen, Opened, With,
    FlushOpenFails, Raise, FlushWrite, Exchanged, FlushWriteFails,
    FlushDelete, Without, FinalFlush
<1>5. CASE Callers
  BY <1>0, <1>5 DEF Callers, Call, Submit, TimerFlush, Cancel
<1>6. CASE Maintenance
  BY <1>0, <1>6 DEF Maintenance, RetentionPick, RetentionRemove, RunDrop,
    Without, RunDelete
<1>7. CASE Readers
  BY <1>0, <1>7 DEF Readers, QueryStart, QueryEnd
<1>8. CASE \E c \in Compactors : Compactor(c)
  BY <1>0, <1>8 DEF Compactor, CompactPick, CompactWrite, CompactFails,
    CompactSwap
<1>9. CASE Stop \/ Shutdown \/ Crash \/ HourPasses
  BY <1>0, DataOfType, LoggedFacts, <1>9 DEF Stop, Shutdown, ProcessGone,
    Without, Crash, HourPasses
<1>10. CASE UNCHANGED vars
  BY <1>0, <1>10 DEF vars
<1> QED
  BY <1>1, <1>2, <1>3, <1>4, <1>5, <1>6, <1>7, <1>8, <1>9, <1>10 DEF Steps,
    Boot, Writer, Callers, Maintenance, Readers, Compactor

\* Between the log and the answer, the rows of the turn reach the table.
LEMMA BatchStep ==
    ASSUME StructInv, NoTornInv, BatchInv, [Steps]_vars
    PROVE  BatchInv'
<1>0. /\ \A g \in DOMAIN wal : wal[g] \in WalFiles /\ ~wal[g].torn
      /\ \A g \in DOMAIN tables : tables[g] \in Contents
      /\ BatchInv /\ ctx \in {"start", "loop", "stop"}
      /\ walOpen => gen \in DOMAIN wal /\ gen \in DOMAIN tables /\ gen \notin drops
  BY StructFacts DEF NoTornInv, TableInv
<1>a. ControlInv
  BY StructFacts
<1> USE DEF writerVars, diskVars, BatchInv
<1>1. CASE Boot
  BY <1>0, <1>a, <1>1 DEF Boot, Start, Started, Opened, With, Replay, DeleteReplayed,
    ControlInv, Recovered
<1>2. CASE \/ TakeBatch \/ WriteWal \/ WalFails \/ AppendBatch
          \/ AppendFails \/ AckData \/ AckFlush
  BY <1>0, DataOfType, LoggedFacts, PlusFacts, <1>2 DEF TakeBatch, WriteWal,
    WalFails, Raise, AppendBatch, AppendFails, AckData, AckFlush
<1>3. CASE \/ FlushNothing \/ FlushOpen \/ FlushOpenFails \/ FlushWrite
          \/ FlushWriteFails \/ FlushDelete \/ FinalFlush
  BY <1>0, <1>3 DEF FlushNothing, FlushReturns, FlushOpen, Opened, With,
    FlushOpenFails, Raise, FlushWrite, Exchanged, FlushWriteFails,
    FlushDelete, Without, FinalFlush
<1>4. CASE Callers
  BY <1>0, <1>4 DEF Callers, Call, Submit, TimerFlush, Cancel
<1>5. CASE Maintenance
  BY <1>0, <1>5 DEF Maintenance, RetentionPick, RetentionRemove, RunDrop,
    Without, RunDelete
<1>6. CASE Readers
  BY <1>0, <1>6 DEF Readers, QueryStart, QueryEnd
<1>7. CASE \E c \in Compactors : Compactor(c)
  BY <1>0, <1>7 DEF Compactor, CompactPick, CompactWrite, CompactFails,
    CompactSwap
<1>8. CASE Stop \/ Shutdown \/ Crash \/ HourPasses
  BY <1>0, <1>8 DEF Stop, Shutdown, ProcessGone, Without, Crash, HourPasses
<1>9. CASE UNCHANGED vars
  BY <1>0, <1>9 DEF vars
<1> QED
  BY <1>1, <1>2, <1>3, <1>4, <1>5, <1>6, <1>7, <1>8, <1>9 DEF Steps, Boot,
    Writer, Callers, Maintenance, Readers, Compactor

\* A record leaves the log with its file only: when its segment is written, or
\* after the replay.
LEMMA WalGrows ==
    ASSUME StructInv, [Steps]_vars, NEW g \in DOMAIN wal
    PROVE  \/ g \in DOMAIN wal' /\ wal[g].ok \subseteq wal'[g].ok
           \/ pc = "delete" /\ g = gen - 1
           \/ pc = "cleanup" /\ g \in replaying
<1>0. wal[g] \in WalFiles /\ \A B : Logged(wal[g], B).ok \in {wal[g].ok, wal[g].ok \cup B}
  BY StructFacts DEF WalFiles, Logged
<1> USE DEF diskVars
<1>1. CASE WalFails
  <2>1. ASSUME NEW B PROVE wal[g].ok \subseteq [Logged(wal[g], B) EXCEPT !.torn = TRUE].ok
    BY <1>0 DEF Logged, WalFiles
  <2>2. ASSUME NEW B PROVE wal[g].ok \subseteq Logged(wal[g], B).ok
    BY <1>0
  <2>3. DOMAIN wal' = DOMAIN wal
    BY <1>1 DEF WalFails
  <2>4. CASE g = gen
    BY <1>1, <2>1, <2>2, <2>3, <2>4 DEF WalFails
  <2>5. CASE g # gen
    BY <1>1, <2>3, <2>5 DEF WalFails
  <2> QED
    BY <2>4, <2>5
<1>2. CASE Boot
  BY <1>0, <1>2 DEF Boot, Start, Started, Opened, With, Replay, DeleteReplayed,
    Without, Recovered
<1>3. CASE \/ TakeBatch \/ WriteWal \/ AppendBatch \/ AppendFails \/ AckData
          \/ AckFlush
  BY <1>0, <1>3 DEF TakeBatch, WriteWal, AppendBatch, AppendFails, Raise,
    AckData, AckFlush
<1>4. CASE \/ FlushNothing \/ FlushOpen \/ FlushOpenFails \/ FlushWrite
          \/ FlushWriteFails \/ FlushDelete \/ FinalFlush
  BY <1>0, <1>4 DEF FlushNothing, FlushReturns, FlushOpen, Opened, With,
    FlushOpenFails, Raise, FlushWrite, Exchanged, FlushWriteFails,
    FlushDelete, Without, FinalFlush
<1>5. CASE Callers
  BY <1>0, <1>5 DEF Callers, Call, Submit, TimerFlush, Cancel
<1>6. CASE Maintenance
  BY <1>0, <1>6 DEF Maintenance, RetentionPick, RetentionRemove, RunDrop,
    Without, RunDelete
<1>7. CASE Readers
  BY <1>0, <1>7 DEF Readers, QueryStart, QueryEnd
<1>8. CASE \E c \in Compactors : Compactor(c)
  BY <1>0, <1>8 DEF Compactor, CompactPick, CompactWrite, CompactFails,
    CompactSwap
<1>9. CASE Stop \/ Shutdown \/ Crash \/ HourPasses
  BY <1>0, <1>9 DEF Stop, Shutdown, ProcessGone, Without, Crash, HourPasses
<1>10. CASE UNCHANGED vars
  BY <1>0, <1>10 DEF vars
<1> QED
  BY <1>1, <1>2, <1>3, <1>4, <1>5, <1>6, <1>7, <1>8, <1>9, <1>10 DEF Steps,
    Boot, Writer, Callers, Maintenance, Readers, Compactor

\* A table holds what it held, plus the rows of the turn or of the replay.
LEMMA TableRows ==
    ASSUME StructInv, [Steps]_vars, pc # "down",
           NEW g \in DOMAIN tables', NEW b \in tables'[g].rows
    PROVE  \/ g \in DOMAIN tables /\ b \in tables[g].rows
           \/ pc = "append" /\ g = gen /\ b \in DataOf(batch, Len(batch))
           \/ pc = "replay" /\ g = gen /\ InReplayed(b)
<1>0. \A h \in DOMAIN tables : tables[h] \in Contents
  BY StructFacts
<1> USE DEF writerVars
<1>1. CASE Replay
  <2>1. PICK skipped \in SUBSET UNION {wal[h].ok : h \in replaying} :
           tables' = [tables EXCEPT ![gen] =
                        UnionAll([h \in replaying |->
                                    [rows |-> wal[h].ok \ skipped, twice |-> {}]],
                                 replaying)]
    BY <1>1 DEF Replay
  <2>2. UnionAll([h \in replaying |-> [rows |-> wal[h].ok \ skipped, twice |-> {}]],
                 replaying).rows
        = UNION {wal[h].ok \ skipped : h \in replaying}
    BY DEF UnionAll
  <2>3. CASE g = gen
    BY <1>1, <2>1, <2>2, <2>3 DEF Replay, InReplayed
  <2>4. CASE g # gen
    BY <2>1, <2>4
  <2> QED
    BY <2>3, <2>4
<1>2. CASE AppendFails
  <2>1. \A n \in 0 .. Len(batch) : DataOf(batch, n) \subseteq DataOf(batch, Len(batch))
    <3>1. Len(batch) \in Nat
      BY StructFacts
    <3> QED
      BY <3>1 DEF DataOf
  <2>2. PICK n \in 0 .. Len(batch) - 1 : \E m \in {n, n + 1} :
           tables' = [tables EXCEPT ![gen] = Plus(@, DataOf(batch, m))]
    BY <1>2 DEF AppendFails
  <2>3. PICK m \in {n, n + 1} : tables' = [tables EXCEPT ![gen] = Plus(@, DataOf(batch, m))]
    BY <2>2
  <2>5. m \in 0 .. Len(batch)
    <3>1. Len(batch) \in Nat
      BY StructFacts
    <3> QED
      BY <3>1
  <2>4. pc = "append" /\ g \in DOMAIN tables
    BY <1>2, <2>3 DEF AppendFails
  <2> QED
    BY <1>0, <2>1, <2>3, <2>4, <2>5, DataOfType, PlusFacts
<1>3. CASE Start \/ (\E x \in replaying : DeleteReplayed(x)) \/ Recovered
  BY <1>0, <1>3 DEF Start, Started, DeleteReplayed, Without, Recovered
<1>4. CASE \/ TakeBatch \/ WriteWal \/ WalFails \/ AppendBatch \/ AckData
          \/ AckFlush
  BY <1>0, DataOfType, PlusFacts, <1>4 DEF TakeBatch, WriteWal, WalFails,
    Raise, AppendBatch, AckData, AckFlush
<1>5. CASE \/ FlushNothing \/ FlushOpen \/ FlushOpenFails \/ FlushWrite
          \/ FlushWriteFails \/ FlushDelete \/ FinalFlush
  BY <1>0, <1>5 DEF FlushNothing, FlushReturns, FlushOpen, With, Empty,
    FlushOpenFails, FlushWrite, Exchanged, FlushWriteFails, Raise,
    FlushDelete, Without, FinalFlush
<1>6. CASE Callers
  BY <1>0, <1>6 DEF Callers, Call, Submit, TimerFlush, Cancel
<1>7. CASE Maintenance
  BY <1>0, <1>7 DEF Maintenance, RetentionPick, RetentionRemove, RunDrop,
    Without, RunDelete
<1>8. CASE Readers
  BY <1>0, <1>8 DEF Readers, QueryStart, QueryEnd
<1>9. CASE \E c \in Compactors : Compactor(c)
  BY <1>0, <1>9 DEF Compactor, CompactPick, CompactWrite, CompactFails,
    CompactSwap
<1>10. CASE Stop \/ Shutdown \/ Crash \/ HourPasses
  BY <1>0, <1>10 DEF Stop, Shutdown, ProcessGone, Without, Crash, HourPasses
<1>11. CASE UNCHANGED vars
  BY <1>0, <1>11 DEF vars
<1> QED
  BY <1>1, <1>2, <1>3, <1>4, <1>5, <1>6, <1>7, <1>8, <1>9, <1>10, <1>11 DEF
    Steps, Boot, Writer, Callers, Maintenance, Readers, Compactor

\* A table loses rows with its DROP only, while the process runs.
LEMMA TablesGrow ==
    ASSUME StructInv, [Steps]_vars, pc # "down", pc' # "down",
           NEW g \in DOMAIN tables \ drops, pc # "replay"
    PROVE  g \in DOMAIN tables' /\ tables[g].rows \subseteq tables'[g].rows
<1>0. /\ \A h \in DOMAIN tables : tables[h] \in Contents
      /\ gen \in Nat /\ g \in Nat /\ g <= gen
  BY StructFacts
<1> USE DEF writerVars
<1>1. CASE Boot
  BY <1>0, <1>1 DEF Boot, Start, Started, Opened, With, Replay, DeleteReplayed,
    Without, Recovered
<1>2. CASE \/ TakeBatch \/ WriteWal \/ WalFails \/ AppendBatch
          \/ AppendFails \/ AckData \/ AckFlush
  BY <1>0, DataOfType, PlusFacts, <1>2 DEF TakeBatch, WriteWal, WalFails,
    Raise, AppendBatch, AppendFails, AckData, AckFlush
<1>3. CASE \/ FlushNothing \/ FlushOpen \/ FlushOpenFails \/ FlushWrite
          \/ FlushWriteFails \/ FlushDelete \/ FinalFlush
  BY <1>0, <1>3 DEF FlushNothing, FlushReturns, FlushOpen, Opened, With,
    FlushOpenFails, Raise, FlushWrite, Exchanged, FlushWriteFails,
    FlushDelete, Without, FinalFlush
<1>4. CASE Callers
  BY <1>0, <1>4 DEF Callers, Call, Submit, TimerFlush, Cancel
<1>5. CASE Maintenance
  BY <1>0, <1>5 DEF Maintenance, RetentionPick, RetentionRemove, RunDrop,
    Without, RunDelete
<1>6. CASE Readers
  BY <1>0, <1>6 DEF Readers, QueryStart, QueryEnd
<1>7. CASE \E c \in Compactors : Compactor(c)
  BY <1>0, <1>7 DEF Compactor, CompactPick, CompactWrite, CompactFails,
    CompactSwap
<1>8. CASE Stop \/ Shutdown \/ Crash \/ HourPasses
  BY <1>0, <1>8 DEF Stop, Shutdown, ProcessGone, Without, Crash, HourPasses
<1>9. CASE UNCHANGED vars
  BY <1>0, <1>9 DEF vars
<1> QED
  BY <1>1, <1>2, <1>3, <1>4, <1>5, <1>6, <1>7, <1>8, <1>9 DEF Steps, Boot,
    Writer, Callers, Maintenance, Readers, Compactor

\* Only FlushOpen shows a new table, while the process runs.
LEMMA NewShownTables ==
    ASSUME StructInv, [Steps]_vars, pc # "down", NEW g \in snapshot'.tables
    PROVE  g \in snapshot.tables \/ (FlushOpen /\ g = gen + 1)
<1>0. snapshot \in Snapshots
  BY StructFacts
<1> USE DEF Snapshots
<1>1. CASE Boot
  BY <1>0, <1>1 DEF Boot, Start, Started, Opened, With, Replay, DeleteReplayed,
    Without, Recovered
<1>2. CASE \/ TakeBatch \/ WriteWal \/ WalFails \/ AppendBatch
          \/ AppendFails \/ AckData \/ AckFlush
  BY <1>0, <1>2 DEF TakeBatch, WriteWal, WalFails, Raise, AppendBatch,
    AppendFails, AckData, AckFlush
<1>3. CASE \/ FlushNothing \/ FlushOpen \/ FlushOpenFails \/ FlushWrite
          \/ FlushWriteFails \/ FlushDelete \/ FinalFlush
  BY <1>0, <1>3 DEF FlushNothing, FlushReturns, FlushOpen, Opened, With,
    FlushOpenFails, Raise, FlushWrite, Exchanged, FlushWriteFails,
    FlushDelete, Without, FinalFlush
<1>4. CASE Callers
  BY <1>0, <1>4 DEF Callers, Call, Submit, TimerFlush, Cancel
<1>5. CASE Maintenance
  BY <1>0, <1>5 DEF Maintenance, RetentionPick, RetentionRemove, RunDrop,
    Without, RunDelete
<1>6. CASE Readers
  BY <1>0, <1>6 DEF Readers, QueryStart, QueryEnd
<1>7. CASE \E c \in Compactors : Compactor(c)
  BY <1>0, <1>7 DEF Compactor, CompactPick, CompactWrite, CompactFails,
    CompactSwap
<1>8. CASE Stop \/ Shutdown \/ Crash \/ HourPasses
  BY <1>0, <1>8 DEF Stop, Shutdown, ProcessGone, NoSnapshot, Crash, HourPasses
<1>9. CASE UNCHANGED vars
  BY <1>0, <1>9 DEF vars
<1> QED
  BY <1>1, <1>2, <1>3, <1>4, <1>5, <1>6, <1>7, <1>8, <1>9 DEF Steps, Boot,
    Writer, Callers, Maintenance, Readers, Compactor

\* A segment leaves the disk with its deletion only.
LEMMA ParquetGrows ==
    ASSUME StructInv, [Steps]_vars, NEW p \in DOMAIN parquet \ deletes
    PROVE  p \in DOMAIN parquet' /\ parquet'[p] = parquet[p]
<1>0. p \in DOMAIN parquet' => parquet'[p] = parquet[p]
  BY ImmutableStep
<1> USE DEF diskVars
<1>1. CASE Boot
  BY <1>0, <1>1 DEF Boot, Start, Started, Opened, With, Replay, DeleteReplayed,
    Without, Recovered
<1>2. CASE \/ TakeBatch \/ WriteWal \/ WalFails \/ AppendBatch
          \/ AppendFails \/ AckData \/ AckFlush
  BY <1>0, <1>2 DEF TakeBatch, WriteWal, WalFails, Raise, AppendBatch,
    AppendFails, AckData, AckFlush
<1>3. CASE \/ FlushNothing \/ FlushOpen \/ FlushOpenFails \/ FlushWrite
          \/ FlushWriteFails \/ FlushDelete \/ FinalFlush
  BY <1>0, <1>3 DEF FlushNothing, FlushReturns, FlushOpen, Opened, With,
    FlushOpenFails, Raise, FlushWrite, Exchanged, FlushWriteFails,
    FlushDelete, Without, FinalFlush
<1>4. CASE Callers
  BY <1>0, <1>4 DEF Callers, Call, Submit, TimerFlush, Cancel
<1>5. CASE Maintenance
  BY <1>0, <1>5 DEF Maintenance, RetentionPick, RetentionRemove, RunDrop,
    Without, RunDelete
<1>6. CASE Readers
  BY <1>0, <1>6 DEF Readers, QueryStart, QueryEnd
<1>7. CASE \E c \in Compactors : Compactor(c)
  BY <1>0, <1>7 DEF Compactor, CompactPick, CompactWrite, With, CompactFails,
    CompactSwap
<1>8. CASE Stop \/ Shutdown \/ Crash \/ HourPasses
  BY <1>0, <1>8 DEF Stop, Shutdown, ProcessGone, Without, Crash, HourPasses
<1>9. CASE UNCHANGED vars
  BY <1>0, <1>9 DEF vars
<1> QED
  BY <1>1, <1>2, <1>3, <1>4, <1>5, <1>6, <1>7, <1>8, <1>9 DEF Steps, Boot,
    Writer, Callers, Maintenance, Readers, Compactor

\* Start ends with Recovered.
LEMMA StartEnds ==
    ASSUME [Steps]_vars, StructInv, ctx = "start", ctx' # "start", pc' # "down"
    PROVE  Recovered
<1>0. ControlInv
  BY StructFacts
<1> USE DEF writerVars, ControlInv
<1>1. CASE Boot
  BY <1>0, <1>1 DEF Boot, Start, Started, Opened, With, Replay, DeleteReplayed,
    Without, Recovered
<1>2. CASE \/ TakeBatch \/ WriteWal \/ WalFails \/ AppendBatch
          \/ AppendFails \/ AckData \/ AckFlush
  BY <1>0, <1>2 DEF TakeBatch, WriteWal, WalFails, Raise, AppendBatch,
    AppendFails, AckData, AckFlush
<1>3. CASE \/ FlushNothing \/ FlushOpen \/ FlushOpenFails \/ FlushWrite
          \/ FlushWriteFails \/ FlushDelete \/ FinalFlush
  BY <1>0, <1>3 DEF FlushNothing, FlushReturns, FlushOpen, Opened, With,
    FlushOpenFails, Raise, FlushWrite, Exchanged, FlushWriteFails,
    FlushDelete, Without, FinalFlush
<1>4. CASE Callers
  BY <1>0, <1>4 DEF Callers, Call, Submit, TimerFlush, Cancel
<1>5. CASE Maintenance
  BY <1>0, <1>5 DEF Maintenance, RetentionPick, RetentionRemove, RunDrop,
    Without, RunDelete
<1>6. CASE Readers
  BY <1>0, <1>6 DEF Readers, QueryStart, QueryEnd
<1>7. CASE \E c \in Compactors : Compactor(c)
  BY <1>0, <1>7 DEF Compactor, CompactPick, CompactWrite, CompactFails,
    CompactSwap
<1>8. CASE Stop \/ Shutdown \/ Crash \/ HourPasses
  BY <1>0, <1>8 DEF Stop, Shutdown, ProcessGone, Without, Crash, HourPasses
<1>9. CASE UNCHANGED vars
  BY <1>0, <1>9 DEF vars
<1> QED
  BY <1>1, <1>2, <1>3, <1>4, <1>5, <1>6, <1>7, <1>8, <1>9 DEF Steps, Boot,
    Writer, Callers, Maintenance, Readers, Compactor

\* While the process serves, every row of a queryable table is in its log.
LEMMA BackedRunStep ==
    ASSUME ConstantsAssumption, NoSilentLoss, StructInv, NoTornInv, BackedInv,
           BatchInv, [Steps]_vars, ctx' # "start"
    PROVE  BackedRun'
<1>0. /\ TableInv /\ ControlInv /\ gen \in Nat /\ snapshot \in Snapshots
      /\ (pc # "down" => \A g \in DOMAIN tables : g <= gen)
  BY StructFacts
<1>1. SUFFICES ASSUME NEW g \in snapshot'.tables
               PROVE  g \in DOMAIN wal' /\ tables'[g].rows \subseteq wal'[g].ok
  BY DEF BackedRun
<1>2. DownInv' /\ snapshot'.tables \subseteq DOMAIN tables'
  BY StructStep DEF StructInv, TableInv
<1>3. pc' # "down"
  BY <1>2 DEF DownInv, NoSnapshot
<1>4. CASE pc = "down"
  <2>1. Start
    BY <1>3, <1>4, ClockStep
  <2>2. g = gen' /\ tables'[g] = Empty /\ g \in DOMAIN wal'
    BY <2>1 DEF Start, Started, Opened, With
  <2> QED
    BY <2>2 DEF Empty
<1>5. CASE pc # "down" /\ ctx = "start"
  <2>1. Recovered
    BY <1>3, <1>5, StartEnds
  <2>2. /\ snapshot.tables = {gen} /\ tables[gen].rows = {} /\ gen \in DOMAIN wal
    BY <1>0, <1>5, <2>1 DEF Recovered, BackedInv, BackedStart, TableInv
  <2> QED
    BY <2>1, <2>2 DEF Recovered, diskVars
<1>6. CASE pc # "down" /\ ctx # "start"
  <2>1. BackedRun /\ pc # "replay" /\ pc # "cleanup"
    BY <1>0, <1>6 DEF BackedInv, ControlInv
  <2>2. CASE FlushOpen /\ g = gen + 1
    BY <2>2 DEF FlushOpen, Opened, With, Empty
  <2>3. CASE g \in snapshot.tables
    <3>1. g \in DOMAIN wal /\ tables[g].rows \subseteq wal[g].ok
      BY <2>1, <2>3 DEF BackedRun
    <3>2. g \in DOMAIN wal' /\ wal[g].ok \subseteq wal'[g].ok
      BY <1>0, <2>1, <2>3, <3>1, WalGrows DEF TableInv
    <3>3. ASSUME NEW b \in tables'[g].rows PROVE b \in wal[g].ok
      <4>1. g \in DOMAIN tables'
        BY <1>2
      <4>2. \/ b \in tables[g].rows
            \/ pc = "append" /\ g = gen /\ b \in DataOf(batch, Len(batch))
        BY <1>6, <2>1, <4>1, TableRows
      <4> QED
        BY <3>1, <4>2 DEF BatchInv
    <3> QED
      BY <3>2, <3>3
  <2> QED
    BY <1>6, <2>2, <2>3, NewShownTables
<1> QED
  BY <1>4, <1>5, <1>6

\* During Start, the rows of the tables are in the files being replayed, until
\* they are in a segment.
LEMMA BackedStartKept ==
    ASSUME NoSilentLoss, StructInv, BackedStart, [Steps]_vars, ctx = "start",
           ctx' = "start"
    PROVE  BackedStart'
<1>0. /\ BackedStart /\ gen \in Nat /\ snapshot \in Snapshots /\ gen \in snapshot.tables
      /\ snapshot.tables \subseteq DOMAIN tables
      /\ pc \notin {"down", "idle", "wal", "append", "ack", "ackflush", "stopped"}
      /\ \A g \in DOMAIN tables \cup DOMAIN wal : g <= gen
      /\ DOMAIN tables \subseteq Nat
      /\ \A g \in replaying : g < gen
      /\ replaying \subseteq DOMAIN wal
      /\ pc \in {"replay", "cleanup", "flush", "write", "delete"}
  BY StructFacts DEF ControlInv, TableInv, StructInv, TypeInv, TypeOK, WriterType
<1> USE DEF writerVars, diskVars, BackedStart
<1>1. CASE Replay
  <2>1. /\ pc' = "flush" /\ gen' = gen /\ snapshot'.tables = {gen}
        /\ dirty' = (tables'[gen].rows # {})
    BY <1>0, <1>1 DEF Replay
  <2>2. UNCHANGED <<wal, replaying>>
    BY <1>1 DEF Replay
  <2>3. gen \in DOMAIN tables' /\ tables[gen].rows = {} /\ pc = "replay"
    BY <1>0, <1>1 DEF Replay
  <2>4. \A b \in tables'[gen].rows : InReplayed(b)
    BY <2>3, TableRows
  <2>5. \A b \in tables'[gen].rows : InReplayed(b)'
    BY <2>2, <2>4 DEF InReplayed
  <2> QED
    BY <2>1, <2>5
<1>2. CASE FlushOpen
  <2>1. /\ gen + 1 \notin DOMAIN tables /\ gen \in DOMAIN tables
    BY <1>0
  <2>2. /\ tables'[gen] = tables[gen] /\ tables'[gen + 1] = Empty /\ gen' = gen + 1
        /\ pc' = "write" /\ snapshot'.tables = {gen, gen + 1} /\ replaying' = replaying
        /\ pc = "flush" /\ gen' - 1 = gen
    BY <1>0, <2>1, <1>2 DEF FlushOpen, With, Snapshots
  <2>3. \A g \in replaying : wal'[g].ok = wal[g].ok
    BY <1>0, <1>2 DEF FlushOpen, Opened, With
  <2>4. \A b \in tables[gen].rows : InReplayed(b)
    BY <1>0, <2>2
  <2>5. \A b \in tables[gen].rows : InReplayed(b)'
    BY <2>2, <2>3, <2>4 DEF InReplayed
  <2> QED
    BY <2>2, <2>5 DEF Empty
<1>3. CASE FlushWrite
  <2>1. snapshot.tables = {gen - 1, gen} /\ tables[gen].rows = {} /\ gen - 1 # gen
    BY <1>0, <1>3 DEF FlushWrite
  <2> QED
    BY <2>1, <1>3 DEF FlushWrite, Exchanged
<1>4. CASE Start \/ (\E x \in replaying : DeleteReplayed(x)) \/ Recovered
  BY <1>0, <1>4 DEF Start, Started, Opened, With, InReplayed, DeleteReplayed, Without,
    Recovered
<1>5. CASE \/ TakeBatch \/ WriteWal \/ WalFails \/ AppendBatch
          \/ AppendFails \/ AckData \/ AckFlush
  BY <1>0, <1>5 DEF TakeBatch, InReplayed, WriteWal, WalFails, Raise,
    AppendBatch, AppendFails, AckData, AckFlush
<1>6. CASE \/ FlushNothing \/ FlushOpenFails \/ FlushWriteFails
          \/ FlushDelete \/ FinalFlush
  BY <1>0, <1>6 DEF FlushNothing, FlushReturns, InReplayed, FlushOpenFails,
    Raise, With, FlushWriteFails, FlushDelete, Without, FinalFlush
<1>7. CASE Callers
  BY <1>0, <1>7 DEF Callers, Call, Submit, InReplayed, TimerFlush, Cancel
<1>8. CASE RetentionPick
  BY <1>0, <1>8 DEF RetentionPick, Serving
<1>9. CASE RetentionRemove
  BY <1>0, <1>9 DEF RetentionRemove, InReplayed
<1>10. CASE (\E x \in drops : RunDrop(x)) \/ (\E x \in deletes : RunDelete(x))
  BY <1>0, <1>10 DEF RunDrop, Serving, RunDelete, Without, InReplayed
<1>11. CASE Readers
  BY <1>0, <1>11 DEF Readers, QueryStart, Serving, QueryEnd, InReplayed
<1>12. CASE \/ (\E c \in Compactors : CompactPick(c))
          \/ (\E c \in Compactors : CompactWrite(c))
  BY <1>0, <1>12 DEF CompactPick, InReplayed, CompactWrite
<1>13. CASE \E c \in Compactors : CompactFails(c)
  BY <1>0, <1>13 DEF CompactFails, InReplayed
<1>14. CASE \E c \in Compactors : CompactSwap(c)
  BY <1>0, <1>14 DEF CompactSwap, InReplayed
<1>15. CASE Stop \/ Shutdown \/ Crash \/ HourPasses
  BY <1>0, <1>15 DEF Stop, InReplayed, Shutdown, ProcessGone, Without, Crash,
    HourPasses
<1>16. CASE UNCHANGED vars
  BY <1>0, <1>16 DEF vars, InReplayed
<1> QED
  BY <1>1, <1>2, <1>3, <1>4, <1>5, <1>6, <1>7, <1>8, <1>9, <1>10, <1>11,
    <1>12, <1>13, <1>14, <1>15, <1>16 DEF Steps, Boot, Writer, Callers,
    Maintenance, Readers, Compactor

\* Only Start begins the start of the process.
LEMMA StartBegins ==
    ASSUME [Steps]_vars, ctx # "start", ctx' = "start"
    PROVE  Start
<1> USE DEF writerVars
<1>1. CASE Boot
  BY <1>1 DEF Boot, Start, Started, Opened, With, Replay, DeleteReplayed, Without,
    Recovered
<1>2. CASE \/ TakeBatch \/ WriteWal \/ WalFails \/ AppendBatch
          \/ AppendFails \/ AckData \/ AckFlush
  BY <1>2 DEF TakeBatch, WriteWal, WalFails, Raise, AppendBatch, AppendFails,
    AckData, AckFlush
<1>3. CASE \/ FlushNothing \/ FlushOpen \/ FlushOpenFails \/ FlushWrite
          \/ FlushWriteFails \/ FlushDelete \/ FinalFlush
  BY <1>3 DEF FlushNothing, FlushReturns, FlushOpen, Opened, With,
    FlushOpenFails, Raise, FlushWrite, Exchanged, FlushWriteFails,
    FlushDelete, Without, FinalFlush
<1>4. CASE Callers
  BY <1>4 DEF Callers, Call, Submit, TimerFlush, Cancel
<1>5. CASE Maintenance
  BY <1>5 DEF Maintenance, RetentionPick, RetentionRemove, RunDrop, Without,
    RunDelete
<1>6. CASE Readers
  BY <1>6 DEF Readers, QueryStart, QueryEnd
<1>7. CASE \E c \in Compactors : Compactor(c)
  BY <1>7 DEF Compactor, CompactPick, CompactWrite, CompactFails, CompactSwap
<1>8. CASE Stop \/ Shutdown \/ Crash \/ HourPasses
  BY <1>8 DEF Stop, Shutdown, ProcessGone, Without, Crash, HourPasses
<1>9. CASE UNCHANGED vars
  BY <1>9 DEF vars
<1> QED
  BY <1>1, <1>2, <1>3, <1>4, <1>5, <1>6, <1>7, <1>8, <1>9 DEF Steps, Boot,
    Writer, Callers, Maintenance, Readers, Compactor

\* Every step keeps the rows of the tables backed by files.
LEMMA BackedStep ==
    ASSUME ConstantsAssumption, NoSilentLoss, StructInv, NoTornInv, BackedInv,
           BatchInv, [Steps]_vars
    PROVE  BackedInv'
<1>0. ControlInv
  BY StructFacts
<1>1. CASE ctx' # "start"
  BY <1>1, BackedRunStep DEF BackedInv
<1>2. CASE ctx' = "start" /\ ctx = "start"
  BY <1>2, BackedStartKept DEF BackedInv
<1>3. CASE ctx' = "start" /\ ctx # "start"
  <2>1. Start
    BY <1>0, <1>3, StartBegins
  <2>2. pc' = "replay" /\ tables'[gen'] = Empty /\ snapshot'.tables = {gen'}
    BY <1>3, <2>1 DEF Start, Started
  <2> QED
    BY <1>3, <2>2 DEF BackedInv, BackedStart, Empty
<1> QED
  BY <1>1, <1>2, <1>3

\* The steps that take a segment away from the current snapshot.
LEMMA SegmentsFrame ==
    ASSUME [Steps]_vars, pc' # "down", snapshot \in Snapshots,
           (pc = "down" => snapshot = NoSnapshot), NEW p \in snapshot.segments
    PROVE  \/ p \in snapshot'.segments \/ RetentionRemove
           \/ \E c \in Compactors : CompactSwap(c)
<1> USE DEF Snapshots
<1>1. CASE Start \/ Replay
  BY <1>1 DEF Start, Started, NoSnapshot, Replay
<1>2. CASE (\E x \in replaying : DeleteReplayed(x)) \/ Recovered
  BY <1>2 DEF DeleteReplayed, Without, Recovered
<1>3. CASE \/ TakeBatch \/ WriteWal \/ WalFails \/ AppendBatch
          \/ AppendFails \/ AckData \/ AckFlush
  BY <1>3 DEF TakeBatch, WriteWal, WalFails, Raise, AppendBatch, AppendFails,
    AckData, AckFlush
<1>4. CASE \/ FlushNothing \/ FlushOpen \/ FlushOpenFails \/ FlushWrite
          \/ FlushWriteFails \/ FlushDelete \/ FinalFlush
  BY <1>4 DEF FlushNothing, FlushReturns, FlushOpen, Opened, With,
    FlushOpenFails, Raise, FlushWrite, Exchanged, FlushWriteFails,
    FlushDelete, Without, FinalFlush
<1>5. CASE Callers
  BY <1>5 DEF Callers, Call, Submit, TimerFlush, Cancel
<1>6. CASE Maintenance
  BY <1>6 DEF Maintenance, RetentionPick, diskVars, RunDrop, Without,
    RunDelete
<1>7. CASE Readers
  BY <1>7 DEF Readers, QueryStart, QueryEnd
<1>8. CASE \E c \in Compactors : Compactor(c)
  BY <1>8 DEF Compactor, CompactPick, CompactWrite, CompactFails, diskVars
<1>9. CASE Stop \/ Shutdown \/ Crash \/ HourPasses
  BY <1>9 DEF Stop, Shutdown, ProcessGone, Without, Crash, HourPasses
<1>10. CASE UNCHANGED vars
  BY <1>10 DEF vars
<1> QED
  BY <1>1, <1>2, <1>3, <1>4, <1>5, <1>6, <1>7, <1>8, <1>9, <1>10 DEF Steps,
    Boot, Writer, Callers, Maintenance, Readers, Compactor

\* The step that takes a table away from the current snapshot.
LEMMA TablesFrame ==
    ASSUME [Steps]_vars, pc # "down", pc' # "down", snapshot \in Snapshots,
           NEW g \in snapshot.tables
    PROVE  g \in snapshot'.tables \/ (FlushWrite /\ g = gen - 1)
<1> USE DEF Snapshots
<1>1. CASE Boot
  BY <1>1 DEF Boot, Start, Started, Opened, With, Replay, DeleteReplayed, Without,
    Recovered
<1>2. CASE \/ TakeBatch \/ WriteWal \/ WalFails \/ AppendBatch
          \/ AppendFails \/ AckData \/ AckFlush
  BY <1>2 DEF TakeBatch, WriteWal, WalFails, Raise, AppendBatch, AppendFails,
    AckData, AckFlush
<1>3. CASE \/ FlushNothing \/ FlushOpen \/ FlushOpenFails \/ FlushWrite
          \/ FlushWriteFails \/ FlushDelete \/ FinalFlush
  BY <1>3 DEF FlushNothing, FlushReturns, FlushOpen, Opened, With,
    FlushOpenFails, Raise, FlushWrite, Exchanged, FlushWriteFails,
    FlushDelete, Without, FinalFlush
<1>4. CASE Callers
  BY <1>4 DEF Callers, Call, Submit, TimerFlush, Cancel
<1>5. CASE Maintenance
  BY <1>5 DEF Maintenance, RetentionPick, RetentionRemove, RunDrop, Without,
    RunDelete
<1>6. CASE Readers
  BY <1>6 DEF Readers, QueryStart, QueryEnd
<1>7. CASE \E c \in Compactors : Compactor(c)
  BY <1>7 DEF Compactor, CompactPick, CompactWrite, CompactFails, CompactSwap
<1>8. CASE Stop \/ Shutdown \/ Crash \/ HourPasses
  BY <1>8 DEF Stop, Shutdown, ProcessGone, Without, Crash, HourPasses
<1>9. CASE UNCHANGED vars
  BY <1>9 DEF vars
<1> QED
  BY <1>1, <1>2, <1>3, <1>4, <1>5, <1>6, <1>7, <1>8, <1>9 DEF Steps, Boot,
    Writer, Callers, Maintenance, Readers, Compactor

\* The process ends by Crash or Shutdown only.
LEMMA Ends ==
    ASSUME StructInv, [Steps]_vars, pc # "down", pc' = "down"
    PROVE  Crash \/ Shutdown
<1>0. ctx \in {"start", "loop", "stop"}
  BY StructFacts
<1> USE DEF writerVars
<1>1. CASE Boot
  BY <1>0, <1>1 DEF Boot, Start, Started, Opened, With, Replay, DeleteReplayed,
    Without, Recovered
<1>2. CASE \/ TakeBatch \/ WriteWal \/ WalFails \/ AppendBatch
          \/ AppendFails \/ AckData \/ AckFlush
  BY <1>0, <1>2 DEF TakeBatch, WriteWal, WalFails, Raise, AppendBatch,
    AppendFails, AckData, AckFlush
<1>3. CASE \/ FlushNothing \/ FlushOpen \/ FlushOpenFails \/ FlushWrite
          \/ FlushWriteFails \/ FlushDelete \/ FinalFlush
  BY <1>0, <1>3 DEF FlushNothing, FlushReturns, FlushOpen, Opened, With,
    FlushOpenFails, Raise, FlushWrite, Exchanged, FlushWriteFails,
    FlushDelete, Without, FinalFlush
<1>4. CASE Callers
  BY <1>0, <1>4 DEF Callers, Call, Submit, TimerFlush, Cancel
<1>5. CASE Maintenance
  BY <1>0, <1>5 DEF Maintenance, RetentionPick, RetentionRemove, RunDrop,
    Without, RunDelete
<1>6. CASE Readers
  BY <1>0, <1>6 DEF Readers, QueryStart, QueryEnd
<1>7. CASE \E c \in Compactors : Compactor(c)
  BY <1>0, <1>7 DEF Compactor, CompactPick, CompactWrite, CompactFails,
    CompactSwap
<1>8. CASE Stop \/ Shutdown \/ Crash \/ HourPasses
  BY <1>0, <1>8 DEF Stop, diskVars, HourPasses
<1>9. CASE UNCHANGED vars
  BY <1>0, <1>9 DEF vars
<1> QED
  BY <1>1, <1>2, <1>3, <1>4, <1>5, <1>6, <1>7, <1>8, <1>9 DEF Steps, Boot,
    Writer, Callers, Maintenance, Readers, Compactor

\* While no process runs, the disk does not change.
LEMMA StaysDown ==
    ASSUME StructInv, [Steps]_vars, pc = "down", pc' = "down"
    PROVE  UNCHANGED diskVars /\ tables' = tables
<1>0. DownInv /\ ControlInv
  BY DEF StructInv
<1> USE DEF writerVars, diskVars, otherVars, DownInv, ControlInv, Serving
<1>1. CASE Boot
  BY <1>0, <1>1 DEF Boot, Start, Started, Opened, With, Replay, DeleteReplayed,
    Without, Recovered
<1>2. CASE \/ TakeBatch \/ WriteWal \/ WalFails \/ AppendBatch
          \/ AppendFails \/ AckData \/ AckFlush
  BY <1>0, <1>2 DEF TakeBatch, WriteWal, WalFails, Raise, AppendBatch,
    AppendFails, AckData, AckFlush
<1>3. CASE \/ FlushNothing \/ FlushOpen \/ FlushOpenFails \/ FlushWrite
          \/ FlushWriteFails \/ FlushDelete \/ FinalFlush
  BY <1>0, <1>3 DEF FlushNothing, FlushReturns, FlushOpen, Opened, With,
    FlushOpenFails, Raise, FlushWrite, Exchanged, FlushWriteFails,
    FlushDelete, Without, FinalFlush
<1>4. CASE Callers
  BY <1>0, <1>4 DEF Callers, Call, Submit, TimerFlush, Cancel
<1>5. CASE Maintenance
  BY <1>0, <1>5 DEF Maintenance, RetentionPick, RetentionRemove, RunDrop,
    Without, RunDelete
<1>6. CASE Readers
  BY <1>0, <1>6 DEF Readers, QueryStart, QueryEnd
<1>7. CASE \E c \in Compactors : CompactPick(c)
  BY <1>0, <1>7 DEF CompactPick
<1>8. CASE \E c \in Compactors : CompactWrite(c)
  BY <1>0, <1>8 DEF CompactWrite, NoCompaction
<1>9. CASE \/ (\E c \in Compactors : CompactFails(c))
          \/ (\E c \in Compactors : CompactSwap(c))
  BY <1>0, <1>9 DEF CompactFails, CompactSwap
<1>10. CASE Stop \/ Shutdown \/ Crash \/ HourPasses
  BY <1>0, <1>10 DEF Stop, Shutdown, ProcessGone, Without, Crash, HourPasses
<1>11. CASE UNCHANGED vars
  BY <1>0, <1>11 DEF vars
<1> QED
  BY <1>1, <1>2, <1>3, <1>4, <1>5, <1>6, <1>7, <1>8, <1>9, <1>10, <1>11 DEF
    Steps, Boot, Writer, Callers, Maintenance, Readers, Compactor

\* Only Start begins a replay.
LEMMA ReplayBegins ==
    ASSUME StructInv, [Steps]_vars, pc # "down", pc # "replay"
    PROVE  pc' # "replay"
<1>0. ctx \in {"start", "loop", "stop"}
  BY StructFacts
<1> USE DEF writerVars
<1>1. CASE Boot
  BY <1>0, <1>1 DEF Boot, Start, Started, Opened, With, Replay, DeleteReplayed,
    Without, Recovered
<1>2. CASE \/ TakeBatch \/ WriteWal \/ WalFails \/ AppendBatch
          \/ AppendFails \/ AckData \/ AckFlush
  BY <1>0, <1>2 DEF TakeBatch, WriteWal, WalFails, Raise, AppendBatch,
    AppendFails, AckData, AckFlush
<1>3. CASE \/ FlushNothing \/ FlushOpen \/ FlushOpenFails \/ FlushWrite
          \/ FlushWriteFails \/ FlushDelete \/ FinalFlush
  BY <1>0, <1>3 DEF FlushNothing, FlushReturns, FlushOpen, Opened, With,
    FlushOpenFails, Raise, FlushWrite, Exchanged, FlushWriteFails,
    FlushDelete, Without, FinalFlush
<1>4. CASE Callers
  BY <1>0, <1>4 DEF Callers, Call, Submit, TimerFlush, Cancel
<1>5. CASE Maintenance
  BY <1>0, <1>5 DEF Maintenance, RetentionPick, RetentionRemove, RunDrop,
    Without, RunDelete
<1>6. CASE Readers
  BY <1>0, <1>6 DEF Readers, QueryStart, QueryEnd
<1>7. CASE \E c \in Compactors : Compactor(c)
  BY <1>0, <1>7 DEF Compactor, CompactPick, CompactWrite, CompactFails,
    CompactSwap
<1>8. CASE Stop \/ Shutdown \/ Crash \/ HourPasses
  BY <1>0, <1>8 DEF Stop, Shutdown, ProcessGone, Without, Crash, HourPasses
<1>9. CASE UNCHANGED vars
  BY <1>0, <1>9 DEF vars
<1> QED
  BY <1>1, <1>2, <1>3, <1>4, <1>5, <1>6, <1>7, <1>8, <1>9 DEF Steps, Boot,
    Writer, Callers, Maintenance, Readers, Compactor

\* What is to be replayed stays so until Replay.
LEMMA ReplayStays ==
    ASSUME [Steps]_vars, pc = "replay", pc' # "down", NEW b, InReplayed(b)
    PROVE  Replay \/ (pc' = "replay" /\ InReplayed(b)')
<1> USE DEF writerVars, diskVars, InReplayed
<1>1. CASE Boot
  BY <1>1 DEF Boot, Start, Started, Opened, With, Replay, DeleteReplayed, Without,
    Recovered
<1>2. CASE \/ TakeBatch \/ WriteWal \/ WalFails \/ AppendBatch
          \/ AppendFails \/ AckData \/ AckFlush
  BY <1>2 DEF TakeBatch, WriteWal, WalFails, Raise, AppendBatch, AppendFails,
    AckData, AckFlush
<1>3. CASE \/ FlushNothing \/ FlushOpen \/ FlushOpenFails \/ FlushWrite
          \/ FlushWriteFails \/ FlushDelete \/ FinalFlush
  BY <1>3 DEF FlushNothing, FlushReturns, FlushOpen, Opened, With,
    FlushOpenFails, Raise, FlushWrite, Exchanged, FlushWriteFails,
    FlushDelete, Without, FinalFlush
<1>4. CASE Callers
  BY <1>4 DEF Callers, Call, Submit, TimerFlush, Cancel
<1>5. CASE Maintenance
  BY <1>5 DEF Maintenance, RetentionPick, RetentionRemove, RunDrop, Without,
    RunDelete
<1>6. CASE Readers
  BY <1>6 DEF Readers, QueryStart, QueryEnd
<1>7. CASE \E c \in Compactors : Compactor(c)
  BY <1>7 DEF Compactor, CompactPick, CompactWrite, CompactFails, CompactSwap
<1>8. CASE Stop \/ Shutdown \/ Crash \/ HourPasses
  BY <1>8 DEF Stop, Shutdown, ProcessGone, Without, Crash, HourPasses
<1>9. CASE UNCHANGED vars
  BY <1>9 DEF vars
<1> QED
  BY <1>1, <1>2, <1>3, <1>4, <1>5, <1>6, <1>7, <1>8, <1>9 DEF Steps, Boot,
    Writer, Callers, Maintenance, Readers, Compactor

\* Replay brings every record of its files into the table.
LEMMA ReplayFinds ==
    ASSUME NoSilentLoss, StructInv, Replay, NEW b, InReplayed(b)
    PROVE  pc' = "flush" /\ InTable(b)'
<1>1. /\ gen \in snapshot.tables /\ gen \in DOMAIN tables /\ pc = "replay" /\ ~May("replay")
  BY StructFacts DEF Replay, TableInv, ControlInv, NoSilentLoss, May
<1> DEFINE files == [g \in replaying |-> [rows |-> wal[g].ok \ {}, twice |-> {}]]
<1>2. tables' = [tables EXCEPT ![gen] = UnionAll(files, replaying)]
  BY <1>1 DEF Replay
<1>3. b \in UnionAll(files, replaying).rows
  BY DEF InReplayed, UnionAll
<1> HIDE DEF files
<1>4. b \in tables'[gen].rows
  BY <1>1, <1>2, <1>3
<1> QED
  BY <1>1, <1>4 DEF Replay, InTable

\* While the process runs, a batch it finds is in a log or in a segment that does
\* not wait for its deletion.
LEMMA FoundOnDisk ==
    ASSUME StructInv, BackedInv, pc # "down", NEW b, Found(b)
    PROVE  InWal(b) \/ InSegment(b)
<1>0. TableInv /\ ControlInv /\ ctx \in {"start", "loop", "stop"}
  BY StructFacts
<1>1. CASE InSegment(b)
  BY <1>1
<1>2. CASE pc = "replay" /\ InReplayed(b)
  BY <1>0, <1>2 DEF TableInv, InReplayed, InWal
<1>3. CASE pc # "replay" /\ InTable(b)
  <2>1. PICK g \in snapshot.tables : b \in tables[g].rows
    BY <1>3 DEF InTable
  <2>2. CASE ctx # "start"
    BY <2>1, <2>2 DEF BackedInv, BackedRun, InWal
  <2>3. CASE ctx = "start"
    <3>1. pc \in {"cleanup", "flush", "write", "delete"}
      BY <1>0, <1>3, <2>3 DEF ControlInv, StructInv, TypeInv, TypeOK, WriterType
    <3>2. InReplayed(b)
      BY <2>1, <2>3, <3>1 DEF BackedInv, BackedStart
    <3> QED
      BY <1>0, <3>2 DEF TableInv, InReplayed, InWal
  <2> QED
    BY <2>2, <2>3
<1> QED
  BY <1>1, <1>2, <1>3 DEF Found

\* A batch found in a segment stays in one, unless retention removes it.
LEMMA FoundInSegment ==
    ASSUME StructInv, [Steps]_vars, pc' # "down", NEW b, InSegment(b),
           ~(b \in released')
    PROVE  InSegment(b)'
<1>0. /\ snapshot.segments \subseteq DOMAIN parquet \ deletes
      /\ snapshot \in Snapshots /\ (pc = "down" => snapshot = NoSnapshot) /\ MergeInv
  BY StructFacts DEF StructInv
<1>1. PICK p \in snapshot.segments : b \in parquet[p].rows
  BY DEF InSegment
<1>2. p \in DOMAIN parquet' /\ parquet'[p] = parquet[p]
  BY <1>0, ParquetGrows
<1>3. CASE p \in snapshot'.segments
  BY <1>1, <1>2, <1>3 DEF InSegment
<1>4. CASE RetentionRemove
  BY <1>0, <1>1, <1>3, <1>4 DEF RetentionRemove
<1>5. CASE \E c \in Compactors : CompactSwap(c)
  <2>1. PICK c \in Compactors : CompactSwap(c)
    BY <1>5
  <2>2. /\ snapshot'.segments = AfterMerge(c) /\ parquet' = parquet
    BY <1>0, <2>1 DEF CompactSwap, diskVars, Snapshots
  <2>3. CASE p \in compaction[c].sources
    <3>1. PICK m \in compaction[c].merged : b \in parquet[m].rows
      BY <1>0, <1>1, <2>3 DEF MergeInv, MergeOf
    <3>2. m \in AfterMerge(c)
      BY DEF AfterMerge
    <3> QED
      BY <2>2, <3>1, <3>2 DEF InSegment
  <2>4. CASE p \notin compaction[c].sources
    BY <1>1, <1>2, <1>3, <2>2, <2>4 DEF AfterMerge
  <2> QED
    BY <2>3, <2>4
<1> QED
  BY <1>0, <1>1, <1>3, <1>4, <1>5, SegmentsFrame

\* A batch which the process, or its next start, finds, is found after the next
\* step, unless retention removes it.
LEMMA FoundStep ==
    ASSUME ConstantsAssumption, NoSilentLoss, StructInv, BackedInv, [Steps]_vars,
           NEW b, Found(b), b \notin released'
    PROVE  Found(b)'
<1>0. /\ TableInv /\ ControlInv /\ gen \in Nat /\ snapshot \in Snapshots
      /\ snapshot.segments \subseteq DOMAIN parquet \ deletes
      /\ DOMAIN tables \subseteq Nat
      /\ (pc # "down" => \A g \in DOMAIN tables : g <= gen)
  BY StructFacts
<1>1. CASE pc # "down" /\ pc' = "down"
  <2>1. CASE InWal(b)
    <3>1. PICK g \in DOMAIN wal : b \in wal[g].ok
      BY <2>1 DEF InWal
    <3>2. g \in DOMAIN wal' /\ wal[g].ok \subseteq wal'[g].ok
      <4>1. Crash \/ Shutdown
        BY <1>1, Ends
      <4> QED
        BY <4>1, WalGrows DEF Crash, Shutdown
    <3> QED
      BY <1>1, <3>1, <3>2 DEF Found, InWal
  <2>2. CASE InSegment(b)
    BY <1>0, <1>1, <2>2, ParquetGrows DEF Found, InSegment, InParquet
  <2> QED
    BY <1>1, <2>1, <2>2, FoundOnDisk
<1>2. CASE pc = "down" /\ pc' = "down"
  <2>1. UNCHANGED diskVars
    BY <1>2, StaysDown
  <2> QED
    BY <1>2, <2>1 DEF Found, InWal, InParquet, diskVars
<1>3. CASE pc = "down" /\ pc' # "down"
  <2>1. Start
    BY <1>3, ClockStep
  <2>2. CASE InParquet(b)
    <3>1. InSegment(b)'
      BY <2>1, <2>2 DEF Start, Started, InParquet, InSegment
    <3> QED
      BY <1>3, <3>1 DEF Found
  <2>3. CASE InWal(b)
    <3>1. PICK g \in DOMAIN wal : b \in wal[g].ok
      BY <2>3 DEF InWal
    <3>2. wal'[g].ok = wal[g].ok /\ replaying' = DOMAIN wal /\ pc' = "replay"
      BY <2>1 DEF Start, Started, Opened, With
    <3>3. InReplayed(b)'
      BY <3>1, <3>2 DEF InReplayed
    <3> QED
      BY <3>2, <3>3 DEF Found
  <2> QED
    BY <1>3, <2>2, <2>3 DEF Found
<1>4. CASE pc # "down" /\ pc' # "down"
  <2>1. CASE InSegment(b)
    BY <1>4, <2>1, FoundInSegment DEF Found
  <2>2. CASE pc = "replay" /\ InReplayed(b)
    BY <1>0, <1>4, <2>2, ReplayFinds, ReplayStays DEF Found
  <2>3. CASE pc # "replay" /\ InTable(b)
    <3>1. PICK g \in snapshot.tables : b \in tables[g].rows
      BY <2>3 DEF InTable
    <3>2. g \in DOMAIN tables' /\ b \in tables'[g].rows
      BY <1>0, <1>4, <2>3, <3>1, TablesGrow DEF TableInv
    <3>3. pc' # "replay"
      BY <1>4, <2>3, ReplayBegins
    <3>4. CASE g \in snapshot'.tables
      BY <1>4, <3>2, <3>3, <3>4 DEF Found, InTable
    <3>5. CASE FlushWrite /\ g = gen - 1
      <4> DEFINE file == [kind |-> "seg", id |-> gen - 1, hour |-> hour]
      <4>1. file \in snapshot'.segments /\ parquet'[file] = tables[gen - 1]
        BY <3>5 DEF FlushWrite, Exchanged, With
      <4> HIDE DEF file
      <4>2. InSegment(b)'
        BY <3>1, <3>5, <4>1 DEF InSegment
      <4> QED
        BY <1>4, <3>3, <4>2 DEF Found
    <3> QED
      BY <1>0, <1>4, <3>1, <3>4, <3>5, TablesFrame
  <2> QED
    BY <1>4, <2>1, <2>2, <2>3 DEF Found
<1> QED
  BY <1>1, <1>2, <1>3, <1>4

\* The invariant of durability holds before the first start.
LEMMA LossInit ==
    ASSUME Init
    PROVE  LossInv
<1>1. KeptInv
  BY DEF Init, KeptInv, Acked, Requests
<1>2. NoTornInv /\ BatchInv
  BY DEF Init, NoTornInv, BatchInv
<1>3. BackedInv
  BY DEF Init, BackedInv, BackedRun, NoSnapshot
<1> QED
  BY <1>1, <1>2, <1>3 DEF LossInv

\* An acknowledged batch stays where the process, or its next start, finds it.
LEMMA KeptStep ==
    ASSUME ConstantsAssumption, NoSilentLoss, StructInv, LossInv, [Steps]_vars
    PROVE  KeptInv'
<1>1. SUFFICES ASSUME NEW b \in (Acked \ released)' PROVE Found(b)'
  BY DEF KeptInv
<1>2. b \in Batches /\ answer'[b] = "acked" /\ b \notin released' /\ b \notin released
  BY ReleasedGrows DEF Acked
<1>3. CASE answer[b] = "acked"
  <2>1. Found(b)
    BY <1>2, <1>3 DEF LossInv, KeptInv, Acked
  <2> QED
    BY <1>2, <2>1, FoundStep DEF LossInv
<1>4. CASE AckData /\ b \in DataOf(batch, Len(batch))
  <2>1. walOpen /\ b \in tables[gen].rows /\ gen \in snapshot.tables
    BY <1>4, StructFacts DEF LossInv, BatchInv, AckData, TableInv
  <2>2. pc' \in {"flush", "ackflush"} /\ InTable(b)'
    BY <1>4, <2>1 DEF AckData, InTable, writerVars
  <2> QED
    BY <2>2 DEF Found
<1> QED
  BY <1>2, <1>3, <1>4, NewAcked

\* Every step preserves the invariant of durability.
LEMMA LossStep ==
    ASSUME ConstantsAssumption, NoSilentLoss, StructInv, LossInv, [Steps]_vars
    PROVE  LossInv'
BY KeptStep, NoTornStep, BackedStep, BatchStep DEF LossInv

\* Unless a record is torn or a replayed one fails, everything acknowledged is
\* found by the process, or by its next start.
THEOREM LossSafe ==
    ASSUME EverySegmentLoads, NoSilentLoss
    PROVE  Spec => []LossInv
<1>1. Init => LossInv
  BY LossInit
<1>2. StructInv /\ LossInv /\ [Steps]_vars => LossInv'
  BY ConstantsAssumption, NoSilentLoss, LossStep
<1> QED
  BY <1>1, <1>2, StructSafe, LoadedSpec, PTL

\* Whatever step the process dies at, and whatever compaction, retention and the
\* deferred jobs do meanwhile, what was acknowledged and not released is on disk.
THEOREM NothingAckedIsLost ==
    ASSUME EverySegmentLoads, NoSilentLoss
    PROVE  Spec => []AckedDurable
<1>1. StructInv /\ LossInv => AckedDurable
  <2>1. SUFFICES ASSUME StructInv, LossInv, NEW b \in Acked \ released
                 PROVE  InWal(b) \/ InParquet(b)
    BY DEF AckedDurable, Recoverable, InWal, InParquet
  <2>2. Found(b)
    BY <2>1 DEF LossInv, KeptInv
  <2>3. CASE pc = "down"
    BY <2>2, <2>3 DEF Found
  <2>4. CASE pc # "down"
    <3>1. InWal(b) \/ InSegment(b)
      BY <2>1, <2>2, <2>4, FoundOnDisk DEF LossInv
    <3> QED
      BY <2>1, <3>1, StructFacts DEF InSegment, InParquet
  <2> QED
    BY <2>3, <2>4
<1> QED
  BY <1>1, LossSafe, StructSafe, PTL

\* Once the process serves, what was acknowledged and not released is in the
\* snapshot that queries read.
THEOREM AckedIsVisible ==
    ASSUME EverySegmentLoads, NoSilentLoss
    PROVE  Spec => []AckedVisible
<1>1. StructInv /\ LossInv => AckedVisible
  <2>1. SUFFICES ASSUME StructInv, LossInv, pc # "down", ctx # "start",
                        NEW b \in Acked \ released
                 PROVE  InSegment(b) \/ InTable(b)
    BY DEF AckedVisible, InSegments, InTables, InSegment, InTable
  <2>2. Found(b) /\ pc # "replay"
    BY <2>1, StructFacts DEF LossInv, KeptInv, ControlInv
  <2> QED
    BY <2>1, <2>2 DEF Found
<1> QED
  BY <1>1, LossSafe, StructSafe, PTL

-----------------------------------------------------------------------------
(* Every batch that is anywhere was sent by a call.                        *)

Sent(r) == r \in Requests => answer[r] # "none"

SentQueues ==
    /\ \A i \in 1 .. Len(channel) : Sent(channel[i])
    /\ \A i \in 1 .. Len(batch) : Sent(batch[i])

SentRows ==
    /\ \A g \in DOMAIN wal : \A b \in wal[g].ok : Sent(b)
    /\ \A p \in DOMAIN parquet : \A b \in parquet[p].rows : Sent(b)
    /\ \A g \in DOMAIN tables : \A b \in tables[g].rows : Sent(b)

SentInv == SentQueues /\ SentRows

\* What the caller of the step learns: these calls fail.
Failing == {r \in Requests : answer[r] = "waiting" /\ answer'[r] = "failed"}

\* The steps which the abstract store sees as something else than a failure.
Acking == AckData \/ AckFlush
Calling == \E r \in Requests : Call(r)
Deleting ==
    \/ (\E g \in replaying : DeleteReplayed(g)) \/ FlushDelete \/ Shutdown
    \/ (\E p \in deletes : RunDelete(p))

-----------------------------------------------------------------------------
(* Rows.                                                                   *)

\* The queues and the answers have their types.
LEMMA QueueFacts ==
    ASSUME StructInv
    PROVE  /\ channel \in Seq(Requests \cup {Tick}) /\ batch \in Seq(Requests \cup {Tick})
           /\ answer \in [Requests -> {"none", "waiting", "acked", "failed"}]
           /\ compaction \in [Compactors -> [groups : SUBSET SUBSET Paths,
                                             sources : SUBSET Paths,
                                             merged : SUBSET Paths]]
BY DEF StructInv, TypeInv, TypeOK, CallersType, WriterType, MergesType

\* A row of a log was there, or is one of the turn.
LEMMA WalRows ==
    ASSUME StructInv, [Steps]_vars, NEW g \in DOMAIN wal', NEW b \in wal'[g].ok
    PROVE  \/ g \in DOMAIN wal /\ b \in wal[g].ok
           \/ pc = "wal" /\ g = gen /\ b \in DataOf(batch, Len(batch))
<1>0. /\ \A h \in DOMAIN wal : wal[h] \in WalFiles
      /\ \A h \in DOMAIN wal : \A B :
            Logged(wal[h], B).ok \in {wal[h].ok, wal[h].ok \cup B}
  BY StructFacts DEF WalFiles, Logged
<1>n. \A n \in 0 .. Len(batch) : DataOf(batch, n) \subseteq DataOf(batch, Len(batch))
  <2>1. Len(batch) \in Nat
    BY StructFacts
  <2> QED
    BY <2>1 DEF DataOf
<1>m. Len(batch) \in Nat
  BY StructFacts
<1> USE DEF diskVars
<1>1. CASE WalFails
  <2>1. ASSUME NEW B, NEW h \in DOMAIN wal
        PROVE  /\ Logged(wal[h], B).ok \subseteq wal[h].ok \cup B
               /\ [Logged(wal[h], B) EXCEPT !.torn = TRUE].ok \subseteq wal[h].ok \cup B
    BY <1>0 DEF Logged, WalFiles
  <2>2. DOMAIN wal' = DOMAIN wal /\ pc = "wal"
    BY <1>1 DEF WalFails
  <2>3. CASE g = gen
    <3>1. CASE UNCHANGED wal
      BY <3>1
    <3>2. CASE \E n \in 0 .. Len(batch) :
                 wal' = [wal EXCEPT ![gen] = Logged(@, DataOf(batch, n))]
      BY <2>1, <2>2, <2>3, <3>2, <1>n
    <3>3. CASE \E n \in 0 .. Len(batch) - 1 :
                 wal' = [wal EXCEPT ![gen] = [Logged(@, DataOf(batch, n)) EXCEPT !.torn = TRUE]]
      <4>1. PICK n \in 0 .. Len(batch) - 1 :
                 wal' = [wal EXCEPT ![gen] = [Logged(@, DataOf(batch, n)) EXCEPT !.torn = TRUE]]
        BY <3>3
      <4>2. n \in 0 .. Len(batch)
        BY <1>m
      <4> QED
        BY <2>1, <2>2, <2>3, <4>1, <4>2, <1>n
    <3> QED
      BY <1>1, <3>1, <3>2, <3>3 DEF WalFails
  <2>4. CASE g # gen
    BY <1>1, <2>2, <2>4 DEF WalFails
  <2> QED
    BY <2>3, <2>4
<1>2. CASE Crash
  <2>1. CASE UNCHANGED wal
    BY <2>1
  <2>2. CASE \E n \in 0 .. Len(batch) :
               wal' = [wal EXCEPT ![gen] = Logged(@, DataOf(batch, n))]
    <3>1. CASE g = gen
      BY <1>0, <1>n, <1>2, <2>2, <3>1 DEF Crash
    <3>2. CASE g # gen
      BY <2>2, <3>2
    <3> QED
      BY <3>1, <3>2
  <2> QED
    BY <1>2, <2>1, <2>2 DEF Crash
<1>a. CASE Start
  <2>1. wal' = With(wal, gen', IF gen' \in DOMAIN wal THEN wal[gen']
                                ELSE [ok |-> {}, torn |-> FALSE])
    BY <1>a DEF Start, Started, Opened
  <2> QED
    BY <2>1 DEF With
<1>3. CASE Replay \/ (\E h \in replaying : DeleteReplayed(h)) \/ Recovered
  BY <1>0, <1>3 DEF Replay, DeleteReplayed, Without, Recovered
<1>4. CASE \/ TakeBatch \/ WriteWal \/ AppendBatch \/ AppendFails \/ AckData
          \/ AckFlush
  BY <1>0, <1>4 DEF TakeBatch, WriteWal, AppendBatch, AppendFails, Raise,
    AckData, AckFlush
<1>5. CASE \/ FlushNothing \/ FlushOpen \/ FlushOpenFails \/ FlushWrite
          \/ FlushWriteFails \/ FlushDelete \/ FinalFlush
  BY <1>0, <1>5 DEF FlushNothing, FlushReturns, FlushOpen, Opened, With,
    FlushOpenFails, Raise, FlushWrite, Exchanged, FlushWriteFails,
    FlushDelete, Without, FinalFlush
<1>6. CASE Callers
  BY <1>0, <1>6 DEF Callers, Call, Submit, TimerFlush, Cancel
<1>7. CASE Maintenance
  BY <1>0, <1>7 DEF Maintenance, RetentionPick, RetentionRemove, RunDrop,
    Without, RunDelete
<1>8. CASE Readers
  BY <1>0, <1>8 DEF Readers, QueryStart, QueryEnd
<1>9. CASE \E c \in Compactors : Compactor(c)
  BY <1>0, <1>9 DEF Compactor, CompactPick, CompactWrite, CompactFails,
    CompactSwap
<1>10. CASE Stop \/ Shutdown \/ HourPasses
  BY <1>0, <1>10 DEF Stop, Shutdown, HourPasses
<1>11. CASE UNCHANGED vars
  BY <1>0, <1>11 DEF vars
<1> QED
  BY <1>1, <1>2, <1>a, <1>3, <1>4, <1>5, <1>6, <1>7, <1>8, <1>9, <1>10,
    <1>11 DEF Steps, Boot, Writer, Callers, Maintenance, Readers, Compactor

\* A row of a segment was in one, or is in the table being flushed.
LEMMA ParquetRows ==
    ASSUME StructInv, [Steps]_vars, NEW p \in DOMAIN parquet', NEW b \in parquet'[p].rows
    PROVE  \/ InParquet(b)
           \/ FlushWrite /\ gen - 1 \in DOMAIN tables /\ b \in tables[gen - 1].rows
<1>1. CASE FlushWrite
  <2>1. gen - 1 \in DOMAIN tables
    BY <1>1, StructFacts DEF FlushWrite, TableInv
  <2> QED
    BY <1>1, <2>1 DEF FlushWrite, With, InParquet
<1>2. CASE \E c \in Compactors : CompactWrite(c)
  <2>1. PICK c \in Compactors : CompactWrite(c)
    BY <1>2
  <2>2. PICK G \in compaction[c].groups :
           /\ G \subseteq DOMAIN parquet
           /\ parquet' = With(parquet, MergedPath(G), UnionAll(parquet, G))
    BY <2>1 DEF CompactWrite
  <2>3. CASE p = MergedPath(G)
    <3>1. b \in UnionAll(parquet, G).rows
      BY <2>2, <2>3 DEF With
    <3> QED
      BY <2>2, <3>1 DEF UnionAll, InParquet
  <2>4. CASE p # MergedPath(G)
    BY <2>2, <2>4 DEF With, InParquet
  <2> QED
    BY <2>3, <2>4
<1>3. CASE (\E x \in deletes : RunDelete(x)) \/ Shutdown
  BY <1>3 DEF RunDelete, Shutdown, Without, InParquet
<1> QED
  BY <1>1, <1>2, <1>3, ParquetFrame DEF InParquet

\* A call that was sent stays so; only Call sends one.
LEMMA AnswersStay ==
    ASSUME ConstantsAssumption, StructInv, [Steps]_vars, NEW r \in Requests
    PROVE  /\ answer[r] # "none" => answer'[r] # "none"
           /\ answer'[r] # "none" => answer[r] # "none" \/ Call(r)
           /\ Acking \/ Calling \/ answer'[r] = answer[r] \/ r \in Failing
<1>0. answer \in [Requests -> {"none", "waiting", "acked", "failed"}]
  BY QueueFacts
<1> USE DEF Answered, WaitingAmong, Failing, Acking, Calling
<1>1. CASE Boot
  BY <1>0, <1>1 DEF Boot, Start, Started, Opened, With, Replay, DeleteReplayed,
    Without, Recovered
<1>2. CASE \/ TakeBatch \/ WriteWal \/ WalFails \/ AppendBatch
          \/ AppendFails \/ AckData \/ AckFlush
  BY <1>0, <1>2 DEF TakeBatch, WriteWal, WalFails, Raise, AppendBatch,
    AppendFails, AckData, Items, AckFlush
<1>3. CASE \/ FlushNothing \/ FlushOpen \/ FlushOpenFails \/ FlushWrite
          \/ FlushWriteFails \/ FlushDelete \/ FinalFlush
  BY <1>0, <1>3 DEF FlushNothing, FlushReturns, FlushOpen, Opened, With,
    FlushOpenFails, Raise, FlushWrite, Exchanged, FlushWriteFails,
    FlushDelete, Without, FinalFlush
<1>4. CASE \E x \in Requests : Call(x)
  BY <1>0, <1>4 DEF Call, Submit
<1>5. CASE TimerFlush
  BY <1>0, <1>5 DEF TimerFlush, Submit
<1>6. CASE \E x \in Batches : Cancel(x)
  BY <1>0, <1>6 DEF Cancel
<1>7. CASE Maintenance
  BY <1>0, <1>7 DEF Maintenance, RetentionPick, RetentionRemove, RunDrop,
    Without, RunDelete
<1>8. CASE Readers
  BY <1>0, <1>8 DEF Readers, QueryStart, QueryEnd
<1>9. CASE \E c \in Compactors : Compactor(c)
  BY <1>0, <1>9 DEF Compactor, CompactPick, CompactWrite, CompactFails,
    CompactSwap
<1>10. CASE Stop \/ Shutdown \/ Crash \/ HourPasses
  BY <1>0, <1>10 DEF Stop, Shutdown, ProcessGone, Without, Crash, HourPasses
<1>11. CASE UNCHANGED vars
  BY <1>0, <1>11 DEF vars
<1> QED
  BY <1>1, <1>2, <1>3, <1>4, <1>5, <1>6, <1>7, <1>8, <1>9, <1>10, <1>11 DEF
    Steps, Boot, Writer, Callers, Maintenance, Readers, Compactor

\* Calls that are neither sent nor acknowledged may fail, all at once.
LEMMA FailingStep ==
    ASSUME ConstantsAssumption, StructInv, [Steps]_vars, ~Acking, ~Calling
    PROVE  answer' = [r \in Requests |-> IF r \in Failing THEN "failed" ELSE answer[r]]
<1>1. answer' \in [Requests -> {"none", "waiting", "acked", "failed"}]
  BY StructStep DEF StructInv, TypeInv, TypeOK, CallersType
<1>2. \A r \in Requests : answer'[r] = IF r \in Failing THEN "failed" ELSE answer[r]
  BY AnswersStay DEF Failing
<1> QED
  BY <1>1, <1>2

\* What stands in a queue was there, or has just been sent.
LEMMA QueueItems ==
    ASSUME ConstantsAssumption, StructInv, [Steps]_vars
    PROVE  /\ \A i \in 1 .. Len(channel') :
                \/ \E j \in 1 .. Len(channel) : channel'[i] = channel[j]
                \/ channel'[i] = Tick
                \/ channel'[i] \in Requests /\ Call(channel'[i])
           /\ \A i \in 1 .. Len(batch') :
                \/ \E j \in 1 .. Len(channel) : batch'[i] = channel[j]
                \/ \E j \in 1 .. Len(batch) : batch'[i] = batch[j]
<1>0. channel \in Seq(Requests \cup {Tick}) /\ batch \in Seq(Requests \cup {Tick})
  BY QueueFacts
<1> USE DEF writerVars
<1>1. CASE TakeBatch
  <2> DEFINE n == IF Len(channel) < BatchLimit THEN Len(channel) ELSE BatchLimit
  <2>1. n \in 0 .. Len(channel)
    BY <1>0 DEF ConstantsAssumption
  <2>2. batch' = SubSeq(channel, 1, n) /\ channel' = SubSeq(channel, n + 1, Len(channel))
    BY <1>1 DEF TakeBatch
  <2> HIDE DEF n
  <2>3. /\ Len(batch') = n /\ \A i \in 1 .. n : batch'[i] = channel[i]
    BY <1>0, <2>1, <2>2
  <2>4. /\ Len(channel') = Len(channel) - n
        /\ \A i \in 1 .. Len(channel) - n : channel'[i] = channel[n + i]
    BY <1>0, <2>1, <2>2
  <2>5. \A i \in 1 .. Len(channel') : n + i \in 1 .. Len(channel) /\ channel'[i] = channel[n + i]
    BY <1>0, <2>1, <2>4
  <2>6. \A i \in 1 .. Len(batch') : i \in 1 .. Len(channel) /\ batch'[i] = channel[i]
    BY <1>0, <2>1, <2>3
  <2> QED
    BY <2>5, <2>6
<1>a. \A x \in Requests \cup {Tick} :
             /\ Len(Append(channel, x)) = Len(channel) + 1
             /\ \A i \in 1 .. Len(channel) + 1 :
                  Append(channel, x)[i] = IF i = Len(channel) + 1 THEN x ELSE channel[i]
  BY <1>0
<1>2. CASE \E r \in Requests : Call(r)
  <2>1. PICK r \in Requests : Call(r)
    BY <1>2
  <2>2. channel' = Append(channel, r) /\ batch' = batch
    BY <2>1 DEF Call, Submit
  <2> QED
    BY <1>0, <1>a, <2>1, <2>2
<1>3. CASE TimerFlush
  <2>1. channel' = Append(channel, Tick) /\ batch' = batch
    BY <1>3 DEF TimerFlush, Submit
  <2> QED
    BY <1>0, <1>a, <2>1
<1>4. CASE Boot
  BY <1>0, <1>4 DEF Boot, Start, Started, Opened, With, Replay, DeleteReplayed,
    Without, Recovered
<1>5. CASE \/ WriteWal \/ WalFails \/ AppendBatch \/ AppendFails \/ AckData
          \/ AckFlush
  BY <1>0, <1>5 DEF WriteWal, WalFails, Raise, AppendBatch, AppendFails,
    AckData, AckFlush
<1>6. CASE \/ FlushNothing \/ FlushOpen \/ FlushOpenFails \/ FlushWrite
          \/ FlushWriteFails \/ FlushDelete \/ FinalFlush
  BY <1>0, <1>6 DEF FlushNothing, FlushReturns, FlushOpen, Opened, With,
    FlushOpenFails, Raise, FlushWrite, Exchanged, FlushWriteFails,
    FlushDelete, Without, FinalFlush
<1>7. CASE \E x \in Batches : Cancel(x)
  BY <1>0, <1>7 DEF Cancel
<1>8. CASE Maintenance
  BY <1>0, <1>8 DEF Maintenance, RetentionPick, RetentionRemove, RunDrop,
    Without, RunDelete
<1>9. CASE Readers
  BY <1>0, <1>9 DEF Readers, QueryStart, QueryEnd
<1>10. CASE \E c \in Compactors : Compactor(c)
  BY <1>0, <1>10 DEF Compactor, CompactPick, CompactWrite, CompactFails,
    CompactSwap
<1>11. CASE Stop \/ Shutdown \/ Crash \/ HourPasses
  BY <1>0, <1>11 DEF Stop, Shutdown, ProcessGone, Without, Crash, HourPasses
<1>12. CASE UNCHANGED vars
  BY <1>0, <1>12 DEF vars
<1> QED
  BY <1>1, <1>2, <1>3, <1>4, <1>5, <1>6, <1>7, <1>8, <1>9, <1>10, <1>11,
    <1>12 DEF Steps, Boot, Writer, Callers, Maintenance, Readers, Compactor

-----------------------------------------------------------------------------
(* The invariant of what was sent.                                         *)

\* Nothing is stored or queued before the first call.
LEMMA SentInit ==
    ASSUME Init
    PROVE  SentInv
BY DEF Init, SentInv, SentQueues, SentRows

\* What is stored or queued was sent by a call, and stays so.
LEMMA SentStep ==
    ASSUME ConstantsAssumption, StructInv, SentInv, [Steps]_vars
    PROVE  SentInv'
<1>1. \A r : Sent(r) => Sent(r)'
  BY AnswersStay DEF Sent
<1>2. \A b \in DataOf(batch, Len(batch)) : Sent(b)
  BY DEF SentInv, SentQueues, DataOf
<1>3. SentQueues'
  <2>1. ASSUME NEW r \in Requests, Call(r) PROVE answer'[r] # "none"
    BY <2>1, QueueFacts DEF Call
  <2>2. Tick \notin Requests
    BY DEF ConstantsAssumption, Requests
  <2>3. ASSUME NEW i \in 1 .. Len(channel'), channel'[i] \in Requests
        PROVE  answer'[channel'[i]] # "none"
    BY <1>1, <2>1, <2>2, <2>3, QueueItems DEF SentInv, SentQueues, Sent
  <2>4. ASSUME NEW i \in 1 .. Len(batch'), batch'[i] \in Requests
        PROVE  answer'[batch'[i]] # "none"
    BY <1>1, <2>4, QueueItems DEF SentInv, SentQueues, Sent
  <2> QED
    BY <2>3, <2>4 DEF SentQueues, Sent
<1>4. ASSUME NEW g \in DOMAIN wal', NEW b \in wal'[g].ok PROVE Sent(b)'
  BY <1>1, <1>2, WalRows DEF SentInv, SentRows
<1>5. ASSUME NEW p \in DOMAIN parquet', NEW b \in parquet'[p].rows PROVE Sent(b)'
  BY <1>1, ParquetRows DEF SentInv, SentRows, InParquet
<1>6. ASSUME NEW g \in DOMAIN tables', NEW b \in tables'[g].rows PROVE Sent(b)'
  <2>1. CASE pc = "down"
    <3>1. CASE pc' = "down"
      <4>1. tables' = tables
        BY <2>1, <3>1, StaysDown
      <4> QED
        BY <1>1, <1>6, <4>1 DEF SentInv, SentRows
    <3>2. CASE pc' # "down"
      <4>1. Start
        BY <2>1, <3>2, ClockStep
      <4>2. tables'[g] = Empty
        BY <4>1, <1>6 DEF Start, Started
      <4> QED
        BY <1>6, <4>2 DEF Empty
    <3> QED
      BY <3>1, <3>2
  <2>2. CASE pc # "down"
    <3>1. \/ g \in DOMAIN tables /\ b \in tables[g].rows
          \/ b \in DataOf(batch, Len(batch)) \/ InReplayed(b)
      BY <1>6, <2>2, TableRows
    <3>2. replaying \subseteq DOMAIN wal
      BY StructFacts DEF TableInv
    <3> QED
      BY <1>1, <1>2, <3>1, <3>2 DEF SentInv, SentRows, InReplayed
  <2> QED
    BY <2>1, <2>2
<1> QED
  BY <1>3, <1>4, <1>5, <1>6 DEF SentInv, SentRows

-----------------------------------------------------------------------------
(* The steps of the abstract store.                                        *)

\* The rows on disk are those of batches.
LEMMA StoredType ==
    ASSUME StructInv
    PROVE  Recoverable \in SUBSET Batches
BY StructFacts DEF Recoverable, WalFiles, Contents

\* What a start would find, in terms of files.
LEMMA StoredIn == \A b : b \in Recoverable <=> InWal(b) \/ InParquet(b)
BY DEF Recoverable, InWal, InParquet

\* While a file is due for deletion, no other step changes the log.
LEMMA DeletingFrame ==
    ASSUME [Steps]_vars, ~Deleting, pc \in {"delete", "cleanup"}
    PROVE  UNCHANGED wal
<1> USE DEF diskVars, Deleting
<1>1. CASE Boot
  BY <1>1 DEF Boot, Start, Started, Replay, Recovered
<1>2. CASE Writer
  BY <1>2 DEF Writer, TakeBatch, WriteWal, WalFails, AppendBatch, AppendFails,
    AckData, FlushNothing, FlushOpen, FlushOpenFails, FlushWrite,
    FlushWriteFails, AckFlush, FinalFlush
<1>3. CASE Callers
  BY <1>3 DEF Callers, Call, Submit, TimerFlush, Cancel
<1>4. CASE Maintenance
  BY <1>4 DEF Maintenance, RetentionPick, RetentionRemove, RunDrop, RunDelete
<1>5. CASE Readers
  BY <1>5 DEF Readers, QueryStart, QueryEnd
<1>6. CASE \E c \in Compactors : Compactor(c)
  BY <1>6 DEF Compactor, CompactPick, CompactWrite, CompactFails, CompactSwap
<1>7. CASE Stop \/ Shutdown \/ Crash \/ HourPasses
  BY <1>7 DEF Stop, Crash, HourPasses
<1>8. CASE UNCHANGED vars
  BY <1>8 DEF vars
<1> QED
  BY <1>1, <1>2, <1>3, <1>4, <1>5, <1>6, <1>7, <1>8 DEF Steps

\* Only the deletion of a file takes anything off the disk.
LEMMA StoredGrows ==
    ASSUME StructInv, [Steps]_vars, ~Deleting
    PROVE  Recoverable \subseteq Recoverable'
<1>1. ASSUME NEW b, InWal(b) PROVE InWal(b)'
  <2>1. PICK g \in DOMAIN wal : b \in wal[g].ok
    BY <1>1 DEF InWal
  <2>2. CASE g \in DOMAIN wal' /\ wal[g].ok \subseteq wal'[g].ok
    BY <2>1, <2>2 DEF InWal
  <2>3. CASE pc \in {"delete", "cleanup"}
    <3>1. UNCHANGED wal
      BY <2>3, DeletingFrame
    <3> QED
      BY <2>1, <3>1 DEF InWal
  <2> QED
    BY <2>2, <2>3, WalGrows
<1>2. ASSUME NEW b, InParquet(b) PROVE InParquet(b)'
  <2>1. PICK p \in DOMAIN parquet : b \in parquet[p].rows
    BY <1>2 DEF InParquet
  <2>2. p \in DOMAIN parquet'
    BY ParquetFrame DEF FlushWrite, CompactWrite, With, Deleting
  <2>3. parquet'[p] = parquet[p]
    BY <2>2, ImmutableStep
  <2> QED
    BY <2>1, <2>2, <2>3 DEF InParquet
<1> QED
  BY <1>1, <1>2 DEF Recoverable, InWal, InParquet

\* What a deletion takes off the disk was released or never acknowledged.
LEMMA DeletionStep ==
    ASSUME ConstantsAssumption, StructInv, AckedDurable', [Steps]_vars, Deleting
    PROVE  \E B \in SUBSET Batches : Promise!Forget(B, Failing)
<1> DEFINE B == Recoverable \ Recoverable'
<1>1. /\ B \in SUBSET Batches
      /\ Recoverable' \subseteq Recoverable
  <2>1. ASSUME NEW b, InWal(b)' \/ InParquet(b)' PROVE InWal(b) \/ InParquet(b)
    BY <2>1 DEF Deleting, DeleteReplayed, FlushDelete, Shutdown, RunDelete,
      Without, InWal, InParquet, diskVars
  <2>2. Recoverable' = {b \in Recoverable' : InWal(b)' \/ InParquet(b)'}
    BY DEF Recoverable, InWal, InParquet
  <2> QED
    BY <2>1, <2>2, StoredIn, StoredType
<1>2. ~Acking /\ ~Calling /\ released' = released
  <2>1. released' = released
    BY DEF Deleting, DeleteReplayed, FlushDelete, FlushReturns, Shutdown,
      ProcessGone, RunDelete
  <2>2. pc' # pc \/ replaying' # replaying \/ deletes' # deletes
    BY StructFacts DEF Deleting, DeleteReplayed, FlushDelete, FlushReturns, Shutdown,
      ProcessGone, RunDelete
  <2>3. ~Acking
    BY DEF Deleting, DeleteReplayed, FlushDelete, Shutdown, RunDelete, Acking,
      AckData, AckFlush, writerVars
  <2>4. ~Calling
    BY <2>2 DEF Calling, Call, Submit, writerVars
  <2> QED
    BY <2>1, <2>3, <2>4
<1>3. answer' = [r \in Requests |-> IF r \in Failing THEN "failed" ELSE answer[r]]
  BY <1>2, FailingStep
<1>4. \A b \in B : answer[b] # "acked" \/ b \in released
  <2>1. SUFFICES ASSUME NEW b \in B, answer[b] = "acked", b \notin released
                 PROVE  FALSE
    OBVIOUS
  <2>2. answer'[b] = "acked" /\ b \in Batches /\ b \notin released'
    BY <1>1, <1>2, <1>3, <2>1 DEF Failing, Requests
  <2> QED
    BY <2>1, <2>2 DEF AckedDurable, Acked
<1>5. Recoverable' = Recoverable \ B
  BY <1>1
<1> HIDE DEF B
<1>6. Promise!Forget(B, Failing)
  BY <1>2, <1>3, <1>4, <1>5 DEF Promise!Forget, Promise!Requests, Requests, Failing
<1> QED
  BY <1>1, <1>6

\* Every other step that is not an answer or a call may store batches, and lets
\* calls fail.
LEMMA StorageStep ==
    ASSUME ConstantsAssumption, StructInv, SentInv, [Steps]_vars,
           ~Deleting, ~Acking, ~Calling, released' = released
    PROVE  \E B \in SUBSET Batches : Promise!Persist(B, Failing)
<1> DEFINE B == Recoverable'
<1>1. B \in SUBSET Batches /\ Recoverable' = Recoverable \cup B
  <2>1. Recoverable' \subseteq Batches
    BY StructStep DEF StructInv, TypeInv, TypeOK, WalType, ParquetType, WalFiles,
      Contents, Recoverable
  <2> QED
    BY <2>1, StoredGrows
<1>2. answer' = [r \in Requests |-> IF r \in Failing THEN "failed" ELSE answer[r]]
  BY FailingStep
<1>3. \A b \in B : answer[b] # "none"
  <2>1. SUFFICES ASSUME NEW b \in Recoverable' PROVE answer[b] # "none"
    OBVIOUS
  <2>2. Sent(b)' /\ b \in Requests
    BY <1>1, SentStep DEF SentInv, SentRows, Recoverable, Requests
  <2> QED
    BY <2>2, AnswersStay DEF Sent, Calling
<1> HIDE DEF B
<1>4. Promise!Persist(B, Failing)
  BY <1>1, <1>2, <1>3 DEF Promise!Persist, Promise!Requests, Requests, Failing
<1> QED
  BY <1>1, <1>4

\* A success is given to calls that wait, and only for batches on disk.
LEMMA AckStep ==
    ASSUME ConstantsAssumption, StructInv, LossInv, Acking
    PROVE  \E R \in SUBSET Requests : Promise!Acknowledge(R)
<1> DEFINE R(S) == WaitingAmong(Items \cap S)
<1>0. \A S : R(S) \in SUBSET Requests /\ \A r \in R(S) : answer[r] = "waiting"
  BY DEF WaitingAmong, Items
<1>1. CASE AckData
  <2>1. R(Batches) \cap Batches \subseteq Recoverable
    <3>1. R(Batches) \subseteq DataOf(batch, Len(batch))
      BY DEF WaitingAmong, Items, DataOf
    <3>2. CASE DataOf(batch, Len(batch)) = {}
      BY <3>1, <3>2
    <3>3. CASE walOpen /\ DataOf(batch, Len(batch)) \subseteq tables[gen].rows
      <4>1. /\ pc = "ack" /\ ctx = "loop" /\ gen \in snapshot.tables
        BY <1>1, <3>3, StructFacts DEF AckData, ControlInv, TableInv
      <4>2. gen \in DOMAIN wal /\ tables[gen].rows \subseteq wal[gen].ok
        BY <4>1 DEF LossInv, BackedInv, BackedRun
      <4> QED
        BY <3>1, <3>3, <4>2 DEF Recoverable
    <3> QED
      BY <1>1, <3>2, <3>3 DEF LossInv, BatchInv, AckData
  <2>2. /\ answer' = [r \in Requests |-> IF r \in R(Batches) THEN "acked" ELSE answer[r]]
        /\ UNCHANGED <<diskVars, released>>
    BY <1>1 DEF AckData, Answered
  <2>3. Recoverable' = Recoverable
    BY <2>2 DEF Recoverable, diskVars
  <2> HIDE DEF R
  <2>4. Promise!Acknowledge(R(Batches))
    BY <1>0, <2>1, <2>2, <2>3 DEF Promise!Acknowledge, Promise!Requests, Requests
  <2> QED
    BY <1>0, <2>4
<1>2. CASE AckFlush
  <2>1. R(Flushes) \cap Batches = {}
    BY DEF WaitingAmong, ConstantsAssumption
  <2>2. /\ answer' = [r \in Requests |-> IF r \in R(Flushes) THEN "acked" ELSE answer[r]]
        /\ UNCHANGED <<diskVars, released>>
    BY <1>2 DEF AckFlush, Answered
  <2>3. Recoverable' = Recoverable
    BY <2>2 DEF Recoverable, diskVars
  <2> HIDE DEF R
  <2>4. Promise!Acknowledge(R(Flushes))
    BY <1>0, <2>1, <2>2, <2>3 DEF Promise!Acknowledge, Promise!Requests, Requests
  <2> QED
    BY <1>0, <2>4
<1> QED
  BY <1>1, <1>2 DEF Acking

\* A call is sent once.
LEMMA CallStep ==
    ASSUME Calling
    PROVE  \E r \in Requests : Promise!Submit(r)
<1>1. PICK r \in Requests : Call(r)
  BY DEF Calling
<1>2. UNCHANGED <<diskVars, released>>
  BY <1>1 DEF Call, Submit
<1>3. Recoverable' = Recoverable
  BY <1>2 DEF Recoverable, diskVars
<1> QED
  BY <1>1, <1>2, <1>3 DEF Promise!Submit, Call

\* Only retention releases.
LEMMA ReleaseFrame ==
    ASSUME [Steps]_vars, released' # released
    PROVE  RetentionRemove
<1>1. CASE Boot
  BY <1>1 DEF Boot, Start, Started, Replay, DeleteReplayed, Recovered
<1>2. CASE Writer
  BY <1>2 DEF Writer, TakeBatch, WriteWal, WalFails, AppendBatch, AppendFails,
    AckData, FlushNothing, FlushOpen, FlushOpenFails, FlushWrite,
    FlushWriteFails, FlushDelete, AckFlush, FinalFlush
<1>3. CASE Callers
  BY <1>3 DEF Callers, Call, Submit, TimerFlush, Cancel
<1>4. CASE Maintenance
  BY <1>4 DEF Maintenance, RetentionPick, RunDrop, RunDelete
<1>5. CASE Readers
  BY <1>5 DEF Readers, QueryStart, QueryEnd
<1>6. CASE \E c \in Compactors : Compactor(c)
  BY <1>6 DEF Compactor, CompactPick, CompactWrite, CompactFails, CompactSwap
<1>7. CASE Stop \/ Shutdown \/ Crash \/ HourPasses
  BY <1>7 DEF Stop, Shutdown, Crash, ProcessGone, HourPasses
<1>8. CASE UNCHANGED vars
  BY <1>8 DEF vars
<1> QED
  BY <1>1, <1>2, <1>3, <1>4, <1>5, <1>6, <1>7, <1>8 DEF Steps

\* Retention releases batches that are stored.
LEMMA ReleaseStep ==
    ASSUME StructInv, [Steps]_vars, released' # released
    PROVE  \E B \in SUBSET Batches : Promise!Release(B)
<1>1. RetentionRemove
  BY ReleaseFrame
<1> DEFINE B == UNION {parquet[p].rows : p \in victims \cap snapshot.segments}
<1>2. B \subseteq Recoverable
  BY StructFacts DEF Recoverable
<1>3. released' = released \cup B /\ UNCHANGED <<diskVars, answer>>
  BY <1>1 DEF RetentionRemove
<1>4. Recoverable' = Recoverable
  BY <1>3 DEF Recoverable, diskVars
<1> HIDE DEF B
<1>5. Promise!Release(B)
  BY <1>2, <1>3, <1>4 DEF Promise!Release
<1> QED
  BY <1>2, <1>5, StoredType

\* Every step of the pipeline is one of the abstract store.
LEMMA PromiseStep ==
    ASSUME ConstantsAssumption, StructInv, LossInv, SentInv,
           AckedDurable', [Steps]_vars
    PROVE  Promise!EventNext
<1>1. Failing \in SUBSET Requests
  BY DEF Failing
<1>2. CASE released' # released
  BY <1>2, ReleaseStep DEF Promise!EventNext
<1>3. CASE Deleting
  BY <1>1, <1>3, DeletionStep DEF Promise!EventNext, Promise!Requests, Requests
<1>4. CASE Acking
  BY <1>4, AckStep DEF Promise!EventNext, Promise!Requests, Requests
<1>5. CASE Calling
  BY <1>5, CallStep DEF Promise!EventNext, Promise!Requests, Requests
<1>6. CASE released' = released /\ ~Deleting /\ ~Acking /\ ~Calling
  BY <1>1, <1>6, StorageStep DEF Promise!EventNext, Promise!Requests, Requests
<1> QED
  BY <1>2, <1>3, <1>4, <1>5, <1>6

-----------------------------------------------------------------------------
\* Unless a record is torn or a replayed one fails, every behaviour of the
\* pipeline, with its crashes, merges, retention and deferred jobs, is one of a
\* store that keeps what it acknowledges until retention releases it.
THEOREM StoreImplementsPromise ==
    ASSUME EverySegmentLoads, NoSilentLoss
    PROVE  Spec => ImplementsEventStore
<1>1. Init => Promise!EventInit
  BY DEF Init, Promise!EventInit, Promise!Requests, Requests, Recoverable
<1>2. Init => SentInv
  BY SentInit
<1>3. StructInv /\ SentInv /\ [Steps]_vars => SentInv'
  BY ConstantsAssumption, SentStep
<1>4. StructInv /\ LossInv /\ SentInv /\ AckedDurable' /\ [Steps]_vars =>
         [Promise!EventNext]_Promise!eventVars
  BY ConstantsAssumption, PromiseStep
<1> QED
  BY <1>1, <1>2, <1>3, <1>4, StructSafe, LossSafe, NothingAckedIsLost,
    LoadedSpec, PTL DEF ImplementsEventStore, Promise!EventSpec

-----------------------------------------------------------------------------
(* The queues.                                                             *)

\* A call whose item has not been treated.
Pending(r) == r \in Requests => answer[r] \in {"waiting", "failed"}

\* Only the requests of the timer may be several.
Distinct(s) == \A i, j \in 1 .. Len(s) : s[i] = s[j] /\ i # j => s[i] = Tick

QueueInv ==
    /\ Distinct(channel) /\ Distinct(batch)
    /\ \A i \in 1 .. Len(channel), j \in 1 .. Len(batch) :
          channel[i] = batch[j] => channel[i] = Tick
    /\ \A i \in 1 .. Len(channel) : Pending(channel[i])
    /\ pc \in {"wal", "append", "ack"} =>
          \A i \in 1 .. Len(batch) : Pending(batch[i])

\* The steps that neither send nor take an item keep the queues or clear them.
LEMMA QueueFrame ==
    ASSUME StructInv, [Steps]_vars
    PROVE  \/ TakeBatch \/ Calling \/ TimerFlush
           \/ /\ channel' \in {channel, << >>} /\ batch' \in {batch, << >>}
              /\ \/ pc' \notin {"wal", "append", "ack"} \/ batch' = << >>
                 \/ pc \in {"wal", "append", "ack"}
<1>0. ctx \in {"start", "loop", "stop"}
  BY StructFacts
<1> USE DEF writerVars, Calling
<1>1. CASE Boot
  BY <1>0, <1>1 DEF Boot, Start, Started, Opened, With, Replay, DeleteReplayed,
    Without, Recovered
<1>2. CASE AckData \/ AckFlush
  BY <1>0, <1>2 DEF AckData, AckFlush
<1>3. CASE WriteWal \/ WalFails \/ AppendBatch \/ AppendFails
  BY <1>0, <1>3 DEF WriteWal, WalFails, Raise, AppendBatch, AppendFails
<1>4. CASE \/ FlushNothing \/ FlushOpen \/ FlushOpenFails \/ FlushWrite
          \/ FlushWriteFails \/ FlushDelete \/ FinalFlush
  BY <1>0, <1>4 DEF FlushNothing, FlushReturns, FlushOpen, FlushOpenFails,
    Raise, FlushWrite, FlushWriteFails, FlushDelete, FinalFlush
<1>5. CASE \E x \in Batches : Cancel(x)
  BY <1>0, <1>5 DEF Cancel
<1>6. CASE Maintenance
  BY <1>0, <1>6 DEF Maintenance, RetentionPick, RetentionRemove,
    RunDrop, RunDelete
<1>7. CASE Readers
  BY <1>0, <1>7 DEF Readers, QueryStart, QueryEnd
<1>8. CASE \E c \in Compactors : Compactor(c)
  BY <1>0, <1>8 DEF Compactor, CompactPick, CompactWrite, CompactFails,
    CompactSwap
<1>9. CASE Stop \/ Shutdown \/ Crash \/ HourPasses
  BY <1>0, <1>9 DEF Stop, Shutdown, ProcessGone, Crash, HourPasses
<1>10. CASE UNCHANGED vars
  BY <1>0, <1>10 DEF vars
<1> QED
  BY <1>1, <1>2, <1>3, <1>4, <1>5, <1>6, <1>7, <1>8, <1>9, <1>10 DEF Steps,
    Boot, Writer, Callers, Maintenance, Readers, Compactor

\* A call waits, or has failed, until a step acknowledges it.
LEMMA PendingStays ==
    ASSUME ConstantsAssumption, StructInv, [Steps]_vars, NEW r, Pending(r),
           Acking => r \notin Items
    PROVE  Pending(r)'
<1>1. SUFFICES ASSUME r \in Requests PROVE answer'[r] \in {"waiting", "failed"}
  BY DEF Pending
<1>2. CASE Acking
  BY <1>1, <1>2 DEF Acking, AckData, AckFlush, Answered, WaitingAmong, Pending
<1>3. CASE Calling
  BY <1>1, <1>3, QueueFacts DEF Calling, Call, Pending
<1>4. CASE answer'[r] = answer[r] \/ r \in Failing
  BY <1>1, <1>4 DEF Failing, Pending
<1> QED
  BY <1>1, <1>2, <1>3, <1>4, AnswersStay

\* An item stands once in the queues, and its call is not acknowledged before the
\* writer has treated it.
LEMMA QueueStep ==
    ASSUME ConstantsAssumption, StructInv, SentInv, QueueInv, [Steps]_vars
    PROVE  QueueInv'
<1>0. /\ channel \in Seq(Requests \cup {Tick}) /\ batch \in Seq(Requests \cup {Tick})
      /\ Tick \notin Requests
  BY QueueFacts DEF ConstantsAssumption, Requests
<1>1. \A x \in Requests \cup {Tick} :
        /\ Len(Append(channel, x)) = Len(channel) + 1
        /\ \A i \in 1 .. Len(channel) + 1 :
              Append(channel, x)[i] = IF i = Len(channel) + 1 THEN x ELSE channel[i]
  BY <1>0
<1>2. CASE TakeBatch
  <2> DEFINE n == IF Len(channel) < BatchLimit THEN Len(channel) ELSE BatchLimit
  <2>1. n \in 0 .. Len(channel)
    BY <1>0 DEF ConstantsAssumption
  <2>2. batch' = SubSeq(channel, 1, n) /\ channel' = SubSeq(channel, n + 1, Len(channel))
    BY <1>2 DEF TakeBatch
  <2>a. answer' = answer
    BY <1>2 DEF TakeBatch
  <2> HIDE DEF n
  <2>3. /\ Len(batch') = n /\ \A i \in 1 .. n : batch'[i] = channel[i]
        /\ \A i \in 1 .. n : i \in 1 .. Len(channel)
    BY <1>0, <2>1, <2>2
  <2>4. /\ Len(channel') = Len(channel) - n
        /\ \A i \in 1 .. Len(channel) - n :
              channel'[i] = channel[n + i] /\ n + i \in 1 .. Len(channel)
    BY <1>0, <2>1, <2>2
  <2>n. n \in Nat /\ Len(channel) \in Nat /\ Len(channel) - n \in Nat
    BY <1>0, <2>1
  <2>5. Distinct(batch')
    BY <2>3 DEF Distinct, QueueInv
  <2>6. Distinct(channel')
    <3>1. SUFFICES ASSUME NEW i \in 1 .. Len(channel'), NEW j \in 1 .. Len(channel'),
                          channel'[i] = channel'[j], i # j
                   PROVE  channel'[i] = Tick
      BY DEF Distinct
    <3>2. n + i # n + j
      BY <2>n, <3>1, <2>4
    <3> QED
      BY <2>4, <3>1, <3>2 DEF Distinct, QueueInv
  <2>7. ASSUME NEW i \in 1 .. Len(channel'), NEW j \in 1 .. Len(batch'),
               channel'[i] = batch'[j]
        PROVE  channel'[i] = Tick
    <3>1. n + i # j
      BY <2>n, <2>3, <2>4
    <3> QED
      BY <2>3, <2>4, <2>7, <3>1 DEF Distinct, QueueInv
  <2>8. ASSUME NEW i \in 1 .. Len(channel'), channel'[i] \in Requests
        PROVE  answer'[channel'[i]] \in {"waiting", "failed"}
    BY <2>a, <2>4, <2>8 DEF QueueInv, Pending
  <2>9. ASSUME NEW i \in 1 .. Len(batch'), batch'[i] \in Requests
        PROVE  answer'[batch'[i]] \in {"waiting", "failed"}
    BY <2>a, <2>3, <2>9 DEF QueueInv, Pending
  <2> QED
    BY <2>5, <2>6, <2>7, <2>8, <2>9 DEF QueueInv, Pending, Distinct
<1>3. CASE Calling \/ TimerFlush
  <2>1. PICK x \in Requests \cup {Tick} :
           /\ channel' = Append(channel, x) /\ UNCHANGED <<pc, batch>>
           /\ x \in Requests => answer[x] = "none" /\ answer'[x] = "waiting"
           /\ \A r \in Requests : r # x => answer'[r] = answer[r]
    <3>1. CASE Calling
      BY <3>1, QueueFacts DEF Calling, Call, Submit, writerVars
    <3>2. CASE TimerFlush
      BY <1>0, <3>2 DEF TimerFlush, Submit, writerVars
    <3> QED
      BY <1>3, <3>1, <3>2
  <2>2. x # Tick =>
          /\ \A i \in 1 .. Len(channel) : channel[i] # x
          /\ \A i \in 1 .. Len(batch) : batch[i] # x
    BY <2>1 DEF SentInv, SentQueues, Sent
  <2>3. /\ Len(channel') = Len(channel) + 1 /\ Len(channel) \in Nat
        /\ \A i \in 1 .. Len(channel') :
              channel'[i] = IF i = Len(channel) + 1 THEN x ELSE channel[i]
    BY <1>0, <1>1, <2>1
  <2>4. \A i \in 1 .. Len(channel') : i # Len(channel) + 1 => i \in 1 .. Len(channel)
    BY <2>3
  <2>5. Distinct(channel')
    BY <2>2, <2>3, <2>4 DEF Distinct, QueueInv
  <2>6. \A i \in 1 .. Len(channel'), j \in 1 .. Len(batch') :
           channel'[i] = batch'[j] => channel'[i] = Tick
    BY <2>1, <2>2, <2>3, <2>4 DEF QueueInv
  <2>7. \A r : Pending(r) /\ r # x => Pending(r)'
    BY <2>1 DEF Pending
  <2>8. \A i \in 1 .. Len(channel') :
           channel'[i] \in Requests => answer'[channel'[i]] \in {"waiting", "failed"}
    <3>1. SUFFICES ASSUME NEW i \in 1 .. Len(channel'), channel'[i] \in Requests,
                          channel'[i] # x
                   PROVE  answer'[channel'[i]] \in {"waiting", "failed"}
      BY <2>1
    <3> QED
      BY <2>1, <2>3, <2>4, <3>1 DEF QueueInv, Pending
  <2>9. pc' \in {"wal", "append", "ack"} =>
           \A i \in 1 .. Len(batch') :
              batch'[i] \in Requests => answer'[batch'[i]] \in {"waiting", "failed"}
    <3>1. SUFFICES ASSUME pc \in {"wal", "append", "ack"}, NEW i \in 1 .. Len(batch),
                          batch[i] \in Requests
                   PROVE  answer'[batch[i]] \in {"waiting", "failed"}
      BY <2>1
    <3>2. Pending(batch[i])
      BY <3>1 DEF QueueInv
    <3> QED
      BY <2>1, <3>1, <3>2 DEF Pending
  <2> QED
    BY <2>1, <2>5, <2>6, <2>8, <2>9 DEF QueueInv, Pending, Distinct
<1>4. CASE /\ channel' \in {channel, << >>} /\ batch' \in {batch, << >>}
           /\ \/ pc' \notin {"wal", "append", "ack"} \/ batch' = << >>
              \/ pc \in {"wal", "append", "ack"}
  <2>1. Len(<< >>) = 0
    OBVIOUS
  <2>2. Distinct(channel') /\ Distinct(batch')
    BY <1>4, <2>1 DEF Distinct, QueueInv
  <2>3. \A i \in 1 .. Len(channel'), j \in 1 .. Len(batch') :
           channel'[i] = batch'[j] => channel'[i] = Tick
    BY <1>4, <2>1 DEF QueueInv
  <2>4. ASSUME NEW i \in 1 .. Len(channel'), channel'[i] \in Requests
        PROVE  answer'[channel'[i]] \in {"waiting", "failed"}
    <3>1. channel' = channel /\ i \in 1 .. Len(channel)
      BY <1>4, <2>1
    <3>2. channel[i] \notin Items
      BY <1>0, <2>4, <3>1 DEF Items, QueueInv
    <3> QED
      BY <2>4, <3>1, <3>2, PendingStays DEF QueueInv, Pending
  <2>5. ASSUME pc' \in {"wal", "append", "ack"}, NEW i \in 1 .. Len(batch'),
               batch'[i] \in Requests
        PROVE  answer'[batch'[i]] \in {"waiting", "failed"}
    <3>1. batch' = batch /\ i \in 1 .. Len(batch) /\ pc \in {"wal", "append", "ack"}
      BY <1>4, <2>1, <2>5
    <3>2. ~Acking
      BY <2>5 DEF Acking, AckData, AckFlush
    <3> QED
      BY <2>5, <3>1, <3>2, PendingStays DEF QueueInv, Pending
  <2> QED
    BY <2>2, <2>3, <2>4, <2>5 DEF QueueInv, Pending, Distinct
<1> QED
  BY <1>2, <1>3, <1>4, QueueFrame

-----------------------------------------------------------------------------
(* FlushAsync.                                                             *)

\* No flush fails half-way: then its table would stay in memory, queryable, and
\* a later FlushAsync would succeed without it.
NoFlushFails == "open" \notin Faults /\ "parquet" \notin Faults

\* In memory there is the current table, and the one being flushed.  When it
\* counts no row the current table holds only batches whose append has failed,
\* and so it is when a flush that an item asked for has ended.
MemoryInv ==
    /\ snapshot.tables \subseteq IF pc = "write" THEN {gen - 1, gen} ELSE {gen}
    /\ pc = "ack" /\ DataOf(batch, Len(batch)) # {} => dirty
    /\ pc \in {"write", "delete"} => ~dirty
    /\ pc = "ackflush" /\ Requested => ~dirty
    /\ pc # "down" => walOpen

UncountedInv ==
    pc # "down" /\ ~dirty => \A b \in tables[gen].rows : answer[b] = "failed"

\* Where the tables are, and when the current one counts no row.
LEMMA MemoryStep ==
    ASSUME NoFlushFails, StructInv, MemoryInv, [Steps]_vars
    PROVE  MemoryInv'
<1>0. /\ snapshot \in Snapshots /\ ctx \in {"start", "loop", "stop"} /\ gen \in Nat
      /\ ControlInv /\ (pc = "down" => snapshot = NoSnapshot)
      /\ ~May("open") /\ ~May("parquet")
  BY StructFacts DEF NoFlushFails, May
<1> USE DEF writerVars, MemoryInv, Requested, Snapshots, NoSnapshot, ControlInv
<1>a. CASE Start
  BY <1>0, <1>a DEF Start, Started
<1>b. CASE Replay
  BY <1>0, <1>b DEF Replay
<1>c. CASE (\E g \in replaying : DeleteReplayed(g)) \/ Recovered
  BY <1>0, <1>c DEF DeleteReplayed, Recovered
<1>2. CASE \/ TakeBatch \/ WriteWal \/ WalFails \/ AppendBatch
          \/ AppendFails \/ AckData \/ AckFlush
  BY <1>0, <1>2 DEF TakeBatch, WriteWal, WalFails, Raise, AppendBatch,
    AppendFails, AckData, AckFlush
<1>3. CASE \/ FlushNothing \/ FlushOpen \/ FlushOpenFails \/ FlushWrite
          \/ FlushWriteFails \/ FlushDelete \/ FinalFlush
  BY <1>0, <1>3 DEF FlushNothing, FlushReturns, FlushOpen, Opened, With,
    FlushOpenFails, Raise, FlushWrite, Exchanged, FlushWriteFails,
    FlushDelete, Without, FinalFlush
<1>4. CASE Callers
  BY <1>0, <1>4 DEF Callers, Call, Submit, TimerFlush, Cancel
<1>5. CASE RetentionPick \/ RetentionRemove
  BY <1>0, <1>5 DEF RetentionPick, RetentionRemove
<1>d. CASE \E g \in drops : RunDrop(g)
  <2>1. UNCHANGED <<snapshot, gen, pc, batch, dirty, walOpen>>
    BY <1>d DEF RunDrop
  <2> QED
    BY <2>1
<1>e. CASE \E p \in deletes : RunDelete(p)
  <2>1. UNCHANGED <<snapshot, gen, pc, batch, dirty, walOpen>>
    BY <1>e DEF RunDelete
  <2> QED
    BY <2>1
<1>6. CASE Readers
  BY <1>0, <1>6 DEF Readers, QueryStart, QueryEnd
<1>7. CASE \E c \in Compactors : Compactor(c)
  BY <1>0, <1>7 DEF Compactor, CompactPick, CompactWrite, CompactFails,
    CompactSwap
<1>8. CASE Stop \/ Shutdown \/ Crash \/ HourPasses
  BY <1>0, <1>8 DEF Stop, Shutdown, ProcessGone, Without, Crash, HourPasses
<1>9. CASE UNCHANGED vars
  BY <1>0, <1>9 DEF vars
<1> QED
  BY <1>a, <1>b, <1>c, <1>2, <1>3, <1>4, <1>5, <1>d, <1>e, <1>6, <1>7, <1>8, <1>9
    DEF Steps, Boot, Writer, Callers, Maintenance, Readers, Compactor

\* A failed call stays failed.
LEMMA FailedStays ==
    ASSUME ConstantsAssumption, StructInv, [Steps]_vars, NEW r \in Requests,
           answer[r] = "failed"
    PROVE  answer'[r] = "failed"
<1>1. CASE Acking
  BY <1>1 DEF Acking, AckData, AckFlush, Answered, WaitingAmong
<1>2. CASE Calling
  BY <1>2, QueueFacts DEF Calling, Call
<1> QED
  BY <1>1, <1>2, AnswersStay DEF Failing

\* The batches of a turn which the catch block ends have failed.
LEMMA TurnFails ==
    ASSUME StructInv, QueueInv, Raise, pc \in {"wal", "append", "ack"}, ctx = "loop",
           NEW b \in DataOf(batch, Len(batch))
    PROVE  answer'[b] = "failed"
<1>1. b \in Items /\ b \in Requests /\ answer[b] \in {"waiting", "failed"}
  BY DEF DataOf, Items, Requests, QueueInv, Pending
<1> QED
  BY <1>1 DEF Raise, Answered, WaitingAmong

\* The steps that change the current table, while the process runs.
LEMMA CurrentFrame ==
    ASSUME NoFlushFails, StructInv, [Steps]_vars, pc' # "down", gen \in DOMAIN tables
    PROVE  \/ Start \/ Replay \/ FlushOpen \/ AppendBatch \/ AppendFails
           \/ /\ UNCHANGED <<gen, dirty>> /\ tables'[gen] = tables[gen]
              /\ pc # "down"
<1>0. gen \in Nat /\ (pc # "down" => \A g \in drops : g < gen) /\ ~May("open")
  BY StructFacts DEF NoFlushFails, May
<1>1. CASE pc = "down"
  BY <1>1, ClockStep
<1>2. CASE pc # "down"
  <2> USE <1>2 DEF writerVars
  <2>1. CASE Boot
    BY <2>1 DEF Boot, DeleteReplayed, Recovered
  <2>2. CASE Writer
    BY <1>0, <2>2 DEF Writer, TakeBatch, WriteWal, WalFails, AckData, FlushNothing,
      FlushOpenFails, FlushWrite, FlushWriteFails, FlushDelete, AckFlush, FinalFlush
  <2>3. CASE Callers
    BY <2>3 DEF Callers, Call, Submit, TimerFlush, Cancel
  <2>4. CASE RetentionPick \/ RetentionRemove \/ (\E p \in deletes : RunDelete(p))
    BY <2>4 DEF RetentionPick, RetentionRemove, RunDelete
  <2>d. CASE \E g \in drops : RunDrop(g)
    <3>1. PICK g \in drops : tables' = Without(tables, {g}) /\ UNCHANGED <<gen, dirty>>
      BY <2>d DEF RunDrop
    <3> QED
      BY <1>0, <3>1 DEF Without
  <2>5. CASE Readers
    BY <2>5 DEF Readers, QueryStart, QueryEnd
  <2>6. CASE \E c \in Compactors : Compactor(c)
    BY <2>6 DEF Compactor, CompactPick, CompactWrite, CompactFails, CompactSwap
  <2>7. CASE Stop \/ Shutdown \/ Crash \/ HourPasses
    BY <2>7 DEF Stop, Shutdown, Crash, ProcessGone, HourPasses
  <2>8. CASE UNCHANGED vars
    BY <2>8 DEF vars
  <2> QED
    BY <2>1, <2>2, <2>3, <2>4, <2>d, <2>5, <2>6, <2>7, <2>8 DEF Steps, Maintenance
<1> QED
  BY <1>1, <1>2

\* What the current table holds when it counts no row was never acknowledged.
LEMMA UncountedStep ==
    ASSUME ConstantsAssumption, NoSilentLoss, NoFlushFails, StructInv, QueueInv,
           MemoryInv, UncountedInv, [Steps]_vars
    PROVE  UncountedInv'
<1>0. /\ \A g \in DOMAIN tables : tables[g] \in Contents
      /\ gen \in Nat /\ ControlInv /\ Len(batch) \in Nat
      /\ (pc # "down" => gen \in DOMAIN tables)
  BY StructFacts DEF TableInv, MemoryInv
<1>1. SUFFICES ASSUME pc' # "down", ~dirty', NEW b \in tables'[gen'].rows
               PROVE  answer'[b] = "failed"
  BY DEF UncountedInv
<1>2. CASE Start
  BY <1>1, <1>2 DEF Start, Started, Empty
<1>3. CASE Replay
  BY <1>1, <1>3 DEF Replay
<1>4. CASE FlushOpen
  BY <1>0, <1>1, <1>4 DEF FlushOpen, With, Empty
<1>5. CASE b \in tables[gen].rows /\ ~dirty /\ pc # "down"
  <2>1. b \in Requests
    BY <1>0, <1>5 DEF Contents, Requests
  <2> QED
    BY <1>5, <2>1, FailedStays DEF UncountedInv
<1>6. CASE AppendBatch
  <2>1. /\ ~dirty /\ pc = "append" /\ DataOf(batch, Len(batch)) = {} /\ gen' = gen
        /\ tables' = [tables EXCEPT ![gen] = Plus(@, DataOf(batch, Len(batch)))]
    BY <1>1, <1>6 DEF AppendBatch
  <2>2. b \in tables[gen].rows
    BY <1>0, <1>1, <2>1 DEF Plus
  <2> QED
    BY <1>5, <2>1, <2>2
<1>7. CASE AppendFails
  <2>1. /\ ~dirty /\ pc = "append" /\ gen' = gen /\ ctx = "loop" /\ Raise
    BY <1>0, <1>1, <1>7 DEF AppendFails, ControlInv
  <2>2. PICK n \in 0 .. Len(batch) - 1 : \E m \in {n, n + 1} :
           tables' = [tables EXCEPT ![gen] = Plus(@, DataOf(batch, m))]
    BY <1>7 DEF AppendFails
  <2>3. PICK m \in {n, n + 1} : tables' = [tables EXCEPT ![gen] = Plus(@, DataOf(batch, m))]
    BY <2>2
  <2>4. m \in 0 .. Len(batch)
    BY <1>0
  <2>5. DataOf(batch, m) \subseteq DataOf(batch, Len(batch))
    BY <1>0, <2>4 DEF DataOf
  <2>6. b \in tables[gen].rows \/ b \in DataOf(batch, m)
    BY <1>0, <1>1, <2>1, <2>3 DEF Plus
  <2> QED
    BY <1>5, <2>1, <2>5, <2>6, TurnFails
<1>8. CASE UNCHANGED <<gen, dirty>> /\ tables'[gen] = tables[gen] /\ pc # "down"
  BY <1>1, <1>5, <1>8
<1>9. CASE pc = "down"
  BY <1>1, <1>2, <1>9, ClockStep
<1> QED
  BY <1>0, <1>1, <1>2, <1>3, <1>4, <1>6, <1>7, <1>8, <1>9, CurrentFrame

\* The invariants of the queues and of the current table hold before any start.
LEMMA OnceInit ==
    ASSUME Init
    PROVE  QueueInv /\ MemoryInv /\ UncountedInv
BY DEF Init, QueueInv, Distinct, MemoryInv, UncountedInv, NoSnapshot

\* A FlushAsync call succeeds when nothing acknowledged is in memory alone.
LEMMA CoverStep ==
    ASSUME ConstantsAssumption, StructInv, LossInv, MemoryInv, UncountedInv,
           [Steps]_vars, NEW f \in Flushes, answer[f] # "acked", answer'[f] = "acked"
    PROVE  Acked \ released \subseteq InSegments(snapshot)
<1>0. f \in Requests /\ f \notin Batches
  BY DEF ConstantsAssumption, Requests
<1>1. AckFlush /\ f \in Items
  <2>1. Acking
    BY <1>0, QueueFacts, AnswersStay DEF Calling, Call, Failing
  <2> QED
    BY <1>0, <2>1 DEF Acking, AckData, AckFlush, Answered, WaitingAmong
<1>2. Requested
  BY <1>0, <1>1 DEF Items, Requested
<1>3. SUFFICES ASSUME NEW b \in Acked \ released PROVE InSegment(b)
  BY DEF InSegments, InSegment
<1>4. InSegment(b) \/ InTable(b)
  BY <1>1 DEF AckFlush, LossInv, KeptInv, Found
<1>5. snapshot.tables \subseteq {gen} /\ ~dirty /\ pc # "down"
  BY <1>1, <1>2 DEF AckFlush, MemoryInv
<1>6. answer[b] = "acked"
  BY DEF Acked
<1>7. ~InTable(b)
  BY <1>5, <1>6 DEF InTable, UncountedInv
<1> QED
  BY <1>4, <1>7

\* The invariants behind FlushCoversAcked.
LEMMA MemorySafe ==
    ASSUME EverySegmentLoads, NoSilentLoss, NoFlushFails
    PROVE  Spec => [](QueueInv /\ MemoryInv /\ UncountedInv)
<1>1. Init => QueueInv /\ MemoryInv /\ UncountedInv /\ SentInv
  BY OnceInit, SentInit
<1>2. StructInv /\ SentInv /\ QueueInv /\ MemoryInv /\ UncountedInv /\ [Steps]_vars
         => SentInv' /\ QueueInv' /\ MemoryInv' /\ UncountedInv'
  BY ConstantsAssumption, NoSilentLoss, NoFlushFails, SentStep, QueueStep,
    MemoryStep, UncountedStep
<1> QED
  BY <1>1, <1>2, StructSafe, LoadedSpec, PTL

\* When no flush fails half-way, a FlushAsync call that succeeds leaves every
\* batch acknowledged before in a segment file.
THEOREM FlushIsComplete ==
    ASSUME EverySegmentLoads, NoSilentLoss, NoFlushFails
    PROVE  Spec => FlushCoversAcked
<1>1. StructInv /\ LossInv /\ QueueInv /\ MemoryInv /\ UncountedInv /\ [Steps]_vars =>
         [\A f \in Flushes :
             answer[f] # "acked" /\ answer'[f] = "acked" =>
                 Acked \ released \subseteq InSegments(snapshot)]_vars
  BY ConstantsAssumption, CoverStep
<1> QED
  BY <1>1, StructSafe, LossSafe, MemorySafe, LoadedSpec, PTL DEF FlushCoversAcked

-----------------------------------------------------------------------------
(* Where a batch may be.                                                   *)

\* What makes a batch appear twice is left out: a crash between a segment and the
\* deletion of its log or of its sources, a deletion that fails before a restart,
\* and a forced compaction beside the one of the timer.
NoDuplicating ==
    /\ ~Crashes /\ Compactors \subseteq {"timer"}
    /\ "walDelete" \notin Faults /\ "fileDelete" \notin Faults

Turn          == DataOf(batch, Len(batch))
Queued(b)     == \E i \in 1 .. Len(channel) : channel[i] = b
InAnyTable(b) == \E g \in DOMAIN tables : b \in tables[g].rows

\* The rows of an item are nowhere before the writer logs them, and in the current
\* log alone before it appends them.
FreshRows ==
    \A b \in Batches :
        /\ Queued(b) \/ (pc = "wal" /\ b \in Turn) =>
              ~InWal(b) /\ ~InAnyTable(b) /\ ~InParquet(b)
        /\ pc = "append" /\ b \in Turn =>
              /\ ~InAnyTable(b) /\ ~InParquet(b)
              /\ \A g \in DOMAIN wal : b \in wal[g].ok => g = gen

\* No two logs hold a batch, and no two tables; the log of another generation has
\* it beside a table only while it is replayed.
LogsApart ==
    \A g, h \in DOMAIN wal : g # h => wal[g].ok \cap wal[h].ok = {}

TablesApart ==
    /\ \A g, h \in DOMAIN tables : g # h => tables[g].rows \cap tables[h].rows = {}
    /\ \A g \in DOMAIN tables : tables[g].twice = {}
    /\ pc = "replay" => DOMAIN tables = {gen} /\ tables[gen] = Empty
    /\ ctx # "start" => replaying = {}

TableLog ==
    \A g \in DOMAIN tables, h \in DOMAIN wal :
        tables[g].rows \cap wal[h].ok # {} => g = h \/ (ctx = "start" /\ h \in replaying)

\* What is in a segment is in no queryable table, and in a log only until that
\* log is deleted.
ShownApart == \A g \in snapshot.tables : \A b \in tables[g].rows : ~InParquet(b)

LogDoomed(g) ==
    \/ pc = "delete" /\ g = gen - 1
    \/ pc \in {"delete", "cleanup"} /\ g \in replaying

LogApart ==
    \A g \in DOMAIN wal : \A b \in wal[g].ok : InParquet(b) => LogDoomed(g)

RowsInv ==
    /\ FreshRows /\ LogsApart /\ TablesApart /\ TableLog /\ ShownApart /\ LogApart

-----------------------------------------------------------------------------
(* How rows move.                                                          *)

\* While the writer stays before its log or its table, neither changes.
LEMMA Quiet ==
    ASSUME StructInv, [Steps]_vars, pc' = pc, pc \in {"wal", "append"}
    PROVE  /\ UNCHANGED <<batch, wal, gen>>
           /\ \A g \in DOMAIN tables' : g \in DOMAIN tables /\ tables'[g] = tables[g]
<1>0. ctx \in {"start", "loop", "stop"}
  BY StructFacts
<1> USE DEF writerVars, diskVars
<1>1. CASE Boot
  BY <1>1 DEF Boot, Start, Started, Replay, DeleteReplayed, Recovered
<1>2. CASE Writer
  BY <1>0, <1>2 DEF Writer, TakeBatch, WriteWal, WalFails, AppendBatch,
    AppendFails, Raise, AckData, FlushNothing, FlushOpen, FlushOpenFails,
    FlushWrite, FlushWriteFails, FlushDelete, AckFlush, FinalFlush
<1>3. CASE Callers
  BY <1>3 DEF Callers, Call, Submit, TimerFlush, Cancel
<1>4. CASE Maintenance
  BY <1>4 DEF Maintenance, RetentionPick, RetentionRemove, RunDrop, RunDelete,
    Without
<1>5. CASE Readers
  BY <1>5 DEF Readers, QueryStart, QueryEnd
<1>6. CASE \E c \in Compactors : Compactor(c)
  BY <1>6 DEF Compactor, CompactPick, CompactWrite, CompactFails, CompactSwap
<1>7. CASE Stop \/ Shutdown \/ Crash \/ HourPasses
  BY <1>7 DEF Stop, Shutdown, Crash, ProcessGone, HourPasses
<1>8. CASE UNCHANGED vars
  BY <1>8 DEF vars
<1> QED
  BY <1>1, <1>2, <1>3, <1>4, <1>5, <1>6, <1>7, <1>8 DEF Steps

\* Where the writer comes from.
LEMMA Enters ==
    ASSUME StructInv, [Steps]_vars, pc' # pc
    PROVE  /\ pc' = "wal" => TakeBatch
           /\ pc' = "append" => WriteWal
           /\ pc' = "replay" => Start
           /\ pc \in {"delete", "cleanup"} =>
                FlushDelete \/ Recovered \/ Crash
<1>0. ctx \in {"start", "loop", "stop"}
  BY StructFacts
<1> USE DEF writerVars, diskVars
<1>1. CASE Boot
  BY <1>1 DEF Boot, Start, Started, Replay, DeleteReplayed, Recovered
<1>2. CASE Writer
  BY <1>0, <1>2 DEF Writer, TakeBatch, WriteWal, WalFails, AppendBatch,
    AppendFails, Raise, AckData, FlushNothing, FlushReturns, FlushOpen,
    FlushOpenFails, FlushWrite, FlushWriteFails, FlushDelete, AckFlush, FinalFlush
<1>3. CASE Callers
  BY <1>3 DEF Callers, Call, Submit, TimerFlush, Cancel
<1>4. CASE Maintenance
  BY <1>4 DEF Maintenance, RetentionPick, RetentionRemove, RunDrop, RunDelete
<1>5. CASE Readers
  BY <1>5 DEF Readers, QueryStart, QueryEnd
<1>6. CASE \E c \in Compactors : Compactor(c)
  BY <1>6 DEF Compactor, CompactPick, CompactWrite, CompactFails, CompactSwap
<1>7. CASE Stop \/ Shutdown \/ Crash \/ HourPasses
  BY <1>7 DEF Stop, Shutdown, Crash, ProcessGone, HourPasses
<1>8. CASE UNCHANGED vars
  BY <1>8 DEF vars
<1> QED
  BY <1>1, <1>2, <1>3, <1>4, <1>5, <1>6, <1>7, <1>8 DEF Steps

\* What a table becomes: what it was, empty, with rows of the turn, or with what
\* is replayed.
LEMMA TableChanges ==
    ASSUME StructInv, [Steps]_vars, NEW g \in DOMAIN tables'
    PROVE  \/ g \in DOMAIN tables /\ tables'[g] = tables[g]
           \/ tables'[g] = Empty
           \/ /\ pc = "append" /\ pc' # "append" /\ g = gen /\ g \in DOMAIN tables
              /\ \E B \in SUBSET Turn : tables'[g] = Plus(tables[g], B)
              /\ UNCHANGED <<wal, parquet, ctx, replaying, snapshot>>
           \/ Replay /\ g = gen /\ g \in DOMAIN tables
<1>0. /\ ctx \in {"start", "loop", "stop"} /\ Len(batch) \in Nat /\ ControlInv
  BY StructFacts
<1> USE DEF writerVars, diskVars
<1>1. CASE Replay
  BY <1>1 DEF Replay
<1>2. CASE AppendBatch
  BY <1>2 DEF AppendBatch, Turn
<1>3. CASE AppendFails
  <2>1. PICK n \in 0 .. Len(batch) - 1 : \E m \in {n, n + 1} :
           tables' = [tables EXCEPT ![gen] = Plus(@, DataOf(batch, m))]
    BY <1>3 DEF AppendFails
  <2>2. PICK m \in {n, n + 1} : tables' = [tables EXCEPT ![gen] = Plus(@, DataOf(batch, m))]
    BY <2>1
  <2>3. m \in 0 .. Len(batch)
    BY <1>0
  <2>4. DataOf(batch, m) \subseteq Turn
    BY <1>0, <2>3 DEF DataOf, Turn
  <2>5. /\ pc = "append" /\ pc' # "append"
        /\ UNCHANGED <<wal, parquet, ctx, replaying, snapshot>>
    BY <1>0, <1>3 DEF AppendFails, Raise, ControlInv
  <2>6. CASE g = gen
    <3>1. g \in DOMAIN tables /\ tables'[g] = Plus(tables[g], DataOf(batch, m))
      BY <2>2, <2>6
    <3> QED
      BY <2>4, <2>5, <2>6, <3>1
  <2>7. CASE g # gen
    BY <2>2, <2>7
  <2> QED
    BY <2>6, <2>7
<1>4. CASE Start
  BY <1>4 DEF Start, Started
<1>5. CASE (\E x \in replaying : DeleteReplayed(x)) \/ Recovered
  BY <1>5 DEF DeleteReplayed, Recovered
<1>6. CASE \/ TakeBatch \/ WriteWal \/ WalFails \/ AckData \/ AckFlush
          \/ FlushNothing \/ FlushWrite \/ FlushWriteFails \/ FlushDelete \/ FinalFlush
  BY <1>6 DEF TakeBatch, WriteWal, WalFails, AckData, AckFlush, FlushNothing,
    FlushWrite, FlushWriteFails, FlushDelete, FinalFlush
<1>7. CASE FlushOpen \/ FlushOpenFails
  BY <1>7 DEF FlushOpen, FlushOpenFails, With
<1>8. CASE Callers
  BY <1>8 DEF Callers, Call, Submit, TimerFlush, Cancel
<1>9. CASE Maintenance
  BY <1>9 DEF Maintenance, RetentionPick, RetentionRemove, RunDrop, Without,
    RunDelete
<1>10. CASE Readers
  BY <1>10 DEF Readers, QueryStart, QueryEnd
<1>11. CASE \E c \in Compactors : Compactor(c)
  BY <1>11 DEF Compactor, CompactPick, CompactWrite, CompactFails, CompactSwap
<1>12. CASE Stop \/ Shutdown \/ Crash \/ HourPasses
  BY <1>12 DEF Stop, Shutdown, ProcessGone, Crash, HourPasses
<1>13. CASE UNCHANGED vars
  BY <1>13 DEF vars
<1> QED
  BY <1>1, <1>2, <1>3, <1>4, <1>5, <1>6, <1>7, <1>8, <1>9, <1>10, <1>11,
    <1>12, <1>13 DEF Steps, Boot, Writer

\* Replay brings each record of its files once.
LEMMA ReplayRows ==
    ASSUME StructInv, RowsInv, Replay
    PROVE  /\ DOMAIN tables' = {gen} /\ tables'[gen].twice = {}
           /\ \A b \in tables'[gen].rows : InReplayed(b)
<1>0. replaying \subseteq DOMAIN wal
  BY StructFacts DEF TableInv
<1>1. DOMAIN tables = {gen} /\ pc = "replay"
  BY DEF Replay, RowsInv, TablesApart
<1>2. PICK skipped \in SUBSET UNION {wal[g].ok : g \in replaying} :
         tables' = [tables EXCEPT ![gen] =
                      UnionAll([g \in replaying |->
                                  [rows |-> wal[g].ok \ skipped, twice |-> {}]],
                               replaying)]
  BY DEF Replay
<1> DEFINE files == [g \in replaying |-> [rows |-> wal[g].ok \ skipped, twice |-> {}]]
<1>3. UnionAll(files, replaying).twice = {}
  <2>1. \A x, y \in replaying : x # y => files[x].rows \cap files[y].rows = {}
    BY <1>0 DEF RowsInv, LogsApart
  <2>2. \A x \in replaying : files[x].twice = {}
    OBVIOUS
  <2> HIDE DEF files
  <2> QED
    BY <2>1, <2>2 DEF UnionAll
<1>4. \A b \in UnionAll(files, replaying).rows : InReplayed(b)
  BY DEF UnionAll, InReplayed
<1> HIDE DEF files
<1>5. tables' = [tables EXCEPT ![gen] = UnionAll(files, replaying)]
  BY <1>2 DEF files
<1> QED
  BY <1>1, <1>3, <1>4, <1>5

\* Where a batch may newly be: in the log when the writer leaves it, then in the
\* table, then in a segment.
LEMMA Places ==
    ASSUME StructInv, RowsInv, [Steps]_vars, NEW b
    PROVE  /\ InWal(b)' => InWal(b) \/ (pc = "wal" /\ pc' # "wal" /\ b \in Turn)
           /\ InAnyTable(b)' =>
                \/ InAnyTable(b) \/ (pc = "append" /\ pc' # "append" /\ b \in Turn)
                \/ Replay /\ InReplayed(b)
           /\ InParquet(b)' => InParquet(b) \/ InAnyTable(b)
<1>1. InWal(b)' => InWal(b) \/ (pc = "wal" /\ pc' # "wal" /\ b \in Turn)
  <2>1. SUFFICES ASSUME NEW g \in DOMAIN wal', b \in wal'[g].ok, ~InWal(b)
                 PROVE  pc = "wal" /\ pc' # "wal" /\ b \in Turn
    BY DEF InWal
  <2>2. pc = "wal" /\ b \in Turn
    BY <2>1, WalRows DEF InWal, Turn
  <2>3. pc' # "wal"
    BY <2>1, <2>2, Quiet DEF InWal
  <2> QED
    BY <2>2, <2>3
<1>2. ASSUME NEW g \in DOMAIN tables', b \in tables'[g].rows, ~InAnyTable(b)
      PROVE  \/ pc = "append" /\ pc' # "append" /\ b \in Turn
             \/ Replay /\ InReplayed(b)
  <2>1. CASE Replay
    BY <1>2, <2>1, ReplayRows
  <2>2. CASE /\ pc = "append" /\ pc' # "append" /\ g = gen /\ g \in DOMAIN tables
             /\ \E B \in SUBSET Turn : tables'[g] = Plus(tables[g], B)
    BY <1>2, <2>2 DEF Plus, InAnyTable
  <2> QED
    BY <1>2, <2>1, <2>2, TableChanges DEF InAnyTable, Empty
<1>3. InParquet(b)' => InParquet(b) \/ InAnyTable(b)
  BY ParquetRows DEF InParquet, InAnyTable
<1> QED
  BY <1>1, <1>2, <1>3 DEF InAnyTable

\* The items of the turn are those of the queue, or were already in it.
LEMMA NewTurn ==
    ASSUME ConstantsAssumption, StructInv, [Steps]_vars, NEW b \in Batches
    PROVE  /\ Queued(b)' => Queued(b) \/ Call(b)
           /\ pc' = "wal" /\ b \in Turn' => Queued(b) \/ (pc = "wal" /\ b \in Turn)
           /\ pc' = "append" /\ b \in Turn' =>
                \/ WriteWal /\ pc = "wal" /\ b \in Turn
                \/ pc = "append" /\ b \in Turn
<1>0. b # Tick /\ b \in Requests
  BY DEF ConstantsAssumption, Requests
<1>1. Queued(b)' => Queued(b) \/ Call(b)
  BY <1>0, QueueItems DEF Queued
<1>2. ASSUME pc' = "wal", b \in Turn' PROVE Queued(b) \/ (pc = "wal" /\ b \in Turn)
  <2>1. CASE pc = "wal"
    BY <1>2, <2>1, Quiet DEF Turn
  <2>2. CASE pc # "wal"
    <3>1. TakeBatch
      BY <1>2, <2>2, Enters
    <3>2. PICK n \in Nat : n <= Len(channel) /\ batch' = SubSeq(channel, 1, n)
      BY <3>1, QueueFacts DEF TakeBatch, ConstantsAssumption
    <3>3. \A i \in 1 .. Len(batch') : i \in 1 .. Len(channel) /\ batch'[i] = channel[i]
      BY <3>2, QueueFacts
    <3> QED
      BY <1>2, <3>3 DEF Turn, DataOf, Queued
  <2> QED
    BY <2>1, <2>2
<1>3. ASSUME pc' = "append", b \in Turn'
      PROVE  (WriteWal /\ pc = "wal" /\ b \in Turn) \/ (pc = "append" /\ b \in Turn)
  <2>1. CASE pc = "append"
    BY <1>3, <2>1, Quiet DEF Turn
  <2>2. CASE pc # "append"
    BY <1>3, <2>2, Enters DEF WriteWal, Turn
  <2> QED
    BY <2>1, <2>2
<1> QED
  BY <1>1, <1>2, <1>3

\* The rows of an item stay nowhere until the writer treats it.
LEMMA FreshRowsStep ==
    ASSUME ConstantsAssumption, StructInv, SentInv, QueueInv, RowsInv, [Steps]_vars
    PROVE  FreshRows'
<1>1. SUFFICES ASSUME NEW b \in Batches
      PROVE  /\ (Queued(b) \/ (pc = "wal" /\ b \in Turn))' =>
                   ~InWal(b)' /\ ~InAnyTable(b)' /\ ~InParquet(b)'
             /\ (pc = "append" /\ b \in Turn)' =>
                   /\ ~InAnyTable(b)' /\ ~InParquet(b)'
                   /\ \A g \in DOMAIN wal' : b \in wal'[g].ok => g = gen'
  BY DEF FreshRows
<1>0. b # Tick /\ b \in Requests /\ (InReplayed(b) => InWal(b))
  BY StructFacts DEF ConstantsAssumption, Requests, InReplayed, InWal, TableInv
<1>2. ~(Queued(b) /\ b \in Turn)
  BY <1>0 DEF QueueInv, Queued, Turn, DataOf
<1>3. CASE Call(b)
  <2>1. answer[b] = "none" /\ UNCHANGED <<wal, parquet, tables, pc, batch>>
    BY <1>3 DEF Call, Submit, diskVars, writerVars
  <2>2. ~InWal(b) /\ ~InAnyTable(b) /\ ~InParquet(b) /\ b \notin Turn
    BY <1>0, <2>1 DEF SentInv, SentRows, SentQueues, Sent, InWal, InAnyTable,
      InParquet, Turn, DataOf
  <2> QED
    BY <2>1, <2>2 DEF InWal, InAnyTable, InParquet, Turn
<1>4. ASSUME Queued(b) \/ (pc = "wal" /\ b \in Turn), (Queued(b) \/ (pc = "wal" /\ b \in Turn))'
      PROVE  ~InWal(b)' /\ ~InAnyTable(b)' /\ ~InParquet(b)'
  <2>1. ~InWal(b) /\ ~InAnyTable(b) /\ ~InParquet(b)
    BY <1>4 DEF RowsInv, FreshRows
  <2>2. ~(pc = "wal" /\ pc' # "wal" /\ b \in Turn)
    <3>1. SUFFICES ASSUME pc = "wal", pc' # "wal", b \in Turn PROVE FALSE
      OBVIOUS
    <3>2. Queued(b)' /\ ~Queued(b)
      BY <1>2, <1>4, <3>1
    <3>3. Call(b)
      BY <3>2, NewTurn
    <3> QED
      BY <3>1, <3>3 DEF Call, Submit, writerVars
  <2>3. ~(pc = "append" /\ b \in Turn)
    BY <1>2, <1>4
  <2> QED
    BY <1>0, <2>1, <2>2, <2>3, Places
<1>5. ASSUME (pc = "append" /\ b \in Turn)'
      PROVE  /\ ~InAnyTable(b)' /\ ~InParquet(b)'
             /\ \A g \in DOMAIN wal' : b \in wal'[g].ok => g = gen'
  <2>1. CASE pc = "append" /\ b \in Turn
    <3>1. ~InAnyTable(b) /\ ~InParquet(b) /\ \A g \in DOMAIN wal : b \in wal[g].ok => g = gen
      BY <2>1 DEF RowsInv, FreshRows
    <3>2. UNCHANGED <<wal, gen>>
      BY <1>5, <2>1, Quiet
    <3> QED
      BY <1>5, <2>1, <3>1, <3>2, Places DEF Replay
  <2>2. CASE WriteWal /\ pc = "wal" /\ b \in Turn
    <3>1. ~InWal(b) /\ ~InAnyTable(b) /\ ~InParquet(b)
      BY <2>2 DEF RowsInv, FreshRows
    <3>2. UNCHANGED <<tables, parquet, gen>>
      BY <2>2 DEF WriteWal
    <3>3. \A g \in DOMAIN wal' : b \in wal'[g].ok => g = gen
      BY <3>1, WalRows DEF InWal
    <3> QED
      BY <3>1, <3>2, <3>3 DEF InAnyTable, InParquet
  <2> QED
    BY <1>5, <2>1, <2>2, NewTurn
<1> QED
  BY <1>2, <1>3, <1>4, <1>5, NewTurn

\* A batch is logged once.
LEMMA LogsApartStep ==
    ASSUME StructInv, RowsInv, [Steps]_vars
    PROVE  LogsApart'
<1>1. SUFFICES ASSUME NEW g \in DOMAIN wal', NEW h \in DOMAIN wal', g # h,
                      NEW b \in wal'[g].ok, b \in wal'[h].ok
               PROVE  FALSE
  BY DEF LogsApart
<1>2. pc = "wal" /\ b \in Turn => b \in Batches /\ ~InWal(b)
  BY DEF RowsInv, FreshRows, Turn, DataOf
<1>3. \/ g \in DOMAIN wal /\ b \in wal[g].ok
      \/ pc = "wal" /\ g = gen /\ b \in Turn
  BY <1>1, WalRows DEF Turn
<1>4. \/ h \in DOMAIN wal /\ b \in wal[h].ok
      \/ pc = "wal" /\ h = gen /\ b \in Turn
  BY <1>1, WalRows DEF Turn
<1> QED
  BY <1>1, <1>2, <1>3, <1>4 DEF RowsInv, LogsApart, InWal

\* Until Replay, the only table of a start is empty.
LEMMA StartQuiet ==
    ASSUME StructInv, RowsInv, [Steps]_vars, pc' = "replay"
    PROVE  DOMAIN tables' = {gen'} /\ tables'[gen'] = Empty
<1>1. CASE pc = "replay"
  <2>1. UNCHANGED <<gen, tables>>
    <3> USE <1>1 DEF writerVars, ControlInv
    <3>0. ctx = "start"
      BY StructFacts
    <3>1. CASE Boot
      BY <3>1 DEF Boot, Start, Started, Replay, DeleteReplayed, Recovered
    <3>2. CASE Writer
      BY <3>2 DEF Writer, TakeBatch, WriteWal, WalFails, AppendBatch,
        AppendFails, AckData, FlushNothing, FlushOpen, FlushOpenFails,
        FlushWrite, FlushWriteFails, FlushDelete, AckFlush, FinalFlush
    <3>3. CASE Callers
      BY <3>3 DEF Callers, Call, Submit, TimerFlush, Cancel
    <3>4. CASE Maintenance
      BY <3>0, <3>4 DEF Maintenance, RetentionPick, RetentionRemove, RunDrop,
        RunDelete, Serving
    <3>5. CASE Readers
      BY <3>5 DEF Readers, QueryStart, QueryEnd
    <3>6. CASE \E c \in Compactors : Compactor(c)
      BY <3>6 DEF Compactor, CompactPick, CompactWrite, CompactFails, CompactSwap
    <3>7. CASE Stop \/ Shutdown \/ Crash \/ HourPasses
      BY <3>7 DEF Stop, Shutdown, Crash, ProcessGone, HourPasses
    <3>8. CASE UNCHANGED vars
      BY <3>8 DEF vars
    <3> QED
      BY <3>1, <3>2, <3>3, <3>4, <3>5, <3>6, <3>7, <3>8 DEF Steps
  <2> QED
    BY <1>1, <2>1 DEF RowsInv, TablesApart
<1>2. CASE pc # "replay"
  BY <1>2, Enters DEF Start, Started, Empty
<1> QED
  BY <1>1, <1>2

\* Outside a start nothing is left to replay.
LEMMA ReplayingStep ==
    ASSUME StructInv, RowsInv, [Steps]_vars, ctx' # "start"
    PROVE  replaying' = {}
<1>0. (ctx # "start" => replaying = {}) /\ ctx \in {"start", "loop", "stop"} /\ ControlInv
  BY StructFacts DEF RowsInv, TablesApart
<1> USE DEF writerVars, ControlInv
<1>1. CASE Boot
  BY <1>0, <1>1 DEF Boot, Start, Started, Replay, DeleteReplayed, Recovered
<1>2. CASE Writer
  BY <1>0, <1>2 DEF Writer, TakeBatch, WriteWal, WalFails, AppendBatch,
    AppendFails, AckData, FlushNothing, FlushOpen, FlushOpenFails,
    FlushWrite, FlushWriteFails, FlushDelete, AckFlush, FinalFlush
<1>3. CASE Callers
  BY <1>0, <1>3 DEF Callers, Call, Submit, TimerFlush, Cancel
<1>4. CASE Maintenance
  BY <1>0, <1>4 DEF Maintenance, RetentionPick, RetentionRemove, RunDrop, RunDelete
<1>5. CASE Readers
  BY <1>0, <1>5 DEF Readers, QueryStart, QueryEnd
<1>6. CASE \E c \in Compactors : Compactor(c)
  BY <1>0, <1>6 DEF Compactor, CompactPick, CompactWrite, CompactFails, CompactSwap
<1>7. CASE Stop \/ Shutdown \/ Crash \/ HourPasses
  BY <1>0, <1>7 DEF Stop, Shutdown, Crash, ProcessGone, HourPasses
<1>8. CASE UNCHANGED vars
  BY <1>0, <1>8 DEF vars
<1> QED
  BY <1>1, <1>2, <1>3, <1>4, <1>5, <1>6, <1>7, <1>8 DEF Steps

\* While a start lasts, a log leaves the replay with its file only.
LEMMA ReplayingFrame ==
    ASSUME StructInv, [Steps]_vars, ctx = "start", ctx' = "start"
    PROVE  replaying' = replaying \/ \E x \in replaying : DeleteReplayed(x)
<1>0. ControlInv
  BY StructFacts
<1> USE DEF writerVars, ControlInv
<1>1. CASE Boot
  BY <1>0, <1>1 DEF Boot, Start, Started, Replay, Recovered
<1>2. CASE Writer
  BY <1>0, <1>2 DEF Writer, TakeBatch, WriteWal, WalFails, AppendBatch,
    AppendFails, AckData, FlushNothing, FlushOpen, FlushOpenFails,
    FlushWrite, FlushWriteFails, FlushDelete, AckFlush, FinalFlush
<1>3. CASE Callers
  BY <1>0, <1>3 DEF Callers, Call, Submit, TimerFlush, Cancel
<1>4. CASE Maintenance
  BY <1>0, <1>4 DEF Maintenance, RetentionPick, RetentionRemove, RunDrop, RunDelete
<1>5. CASE Readers
  BY <1>0, <1>5 DEF Readers, QueryStart, QueryEnd
<1>6. CASE \E c \in Compactors : Compactor(c)
  BY <1>0, <1>6 DEF Compactor, CompactPick, CompactWrite, CompactFails, CompactSwap
<1>7. CASE Stop \/ Shutdown \/ Crash \/ HourPasses
  BY <1>0, <1>7 DEF Stop, Shutdown, Crash, ProcessGone, HourPasses
<1>8. CASE UNCHANGED vars
  BY <1>0, <1>8 DEF vars
<1> QED
  BY <1>1, <1>2, <1>3, <1>4, <1>5, <1>6, <1>7, <1>8 DEF Steps

\* A batch enters one table, once.
LEMMA TablesApartStep ==
    ASSUME StructInv, RowsInv, [Steps]_vars
    PROVE  TablesApart'
<1>1. ASSUME NEW g \in DOMAIN tables', NEW h \in DOMAIN tables', g # h,
             NEW b \in tables'[g].rows, b \in tables'[h].rows
      PROVE  FALSE
  <2>1. CASE Replay
    BY <1>1, <2>1, ReplayRows
  <2>2. CASE ~Replay
    <3>1. pc = "append" /\ b \in Turn => b \in Batches /\ ~InAnyTable(b)
      BY DEF RowsInv, FreshRows, Turn, DataOf
    <3>2. \/ g \in DOMAIN tables /\ b \in tables[g].rows
          \/ pc = "append" /\ g = gen /\ b \in Turn
      BY <1>1, <2>2, TableChanges DEF Empty, Plus
    <3>3. \/ h \in DOMAIN tables /\ b \in tables[h].rows
          \/ pc = "append" /\ h = gen /\ b \in Turn
      BY <1>1, <2>2, TableChanges DEF Empty, Plus
    <3> QED
      BY <1>1, <3>1, <3>2, <3>3 DEF RowsInv, TablesApart, InAnyTable
  <2> QED
    BY <2>1, <2>2
<1>2. ASSUME NEW g \in DOMAIN tables' PROVE tables'[g].twice = {}
  <2>1. CASE Replay
    BY <1>2, <2>1, ReplayRows
  <2>2. CASE pc = "append" /\ g \in DOMAIN tables /\ \E B \in SUBSET Turn : tables'[g] = Plus(tables[g], B)
    <3>1. PICK B \in SUBSET Turn : tables'[g] = Plus(tables[g], B)
      BY <2>2
    <3>2. tables[g].rows \cap B = {}
      BY <2>2, <3>1 DEF RowsInv, FreshRows, Turn, DataOf, InAnyTable
    <3> QED
      BY <2>2, <3>1, <3>2 DEF Plus, RowsInv, TablesApart
  <2> QED
    BY <1>2, <2>1, <2>2, TableChanges DEF Empty, RowsInv, TablesApart
<1> QED
  BY <1>1, <1>2, StartQuiet, ReplayingStep DEF TablesApart

\* A log is beside a table of another generation only while it is replayed.
LEMMA TableLogStep ==
    ASSUME NoDuplicating, StructInv, RowsInv, [Steps]_vars
    PROVE  TableLog'
<1>0. ~May("walDelete") /\ ControlInv /\ replaying \subseteq DOMAIN wal
  BY StructFacts DEF NoDuplicating, May, TableInv
<1>1. SUFFICES ASSUME NEW g \in DOMAIN tables', NEW h \in DOMAIN wal', g # h,
                      NEW b \in tables'[g].rows, b \in wal'[h].ok
               PROVE  ctx' = "start" /\ h \in replaying'
  BY DEF TableLog
<1>2. CASE Replay
  <2>1. g = gen /\ InReplayed(b)
    BY <1>1, <1>2, ReplayRows
  <2>2. UNCHANGED <<wal, ctx, replaying>> /\ ctx = "start"
    BY <1>0, <1>2 DEF Replay, ControlInv, diskVars
  <2> QED
    BY <1>0, <1>1, <2>1, <2>2 DEF InReplayed, RowsInv, LogsApart
<1>3. CASE pc = "append" /\ b \in Turn /\ g = gen /\ UNCHANGED wal
  BY <1>1, <1>3 DEF RowsInv, FreshRows, Turn, DataOf
<1>4. CASE g \in DOMAIN tables /\ b \in tables[g].rows /\ ~Replay
  <2>1. h \in DOMAIN wal /\ b \in wal[h].ok
    BY <1>1, <1>4, WalRows DEF RowsInv, FreshRows, Turn, DataOf, InAnyTable
  <2>2. ctx = "start" /\ h \in replaying
    BY <1>1, <1>4, <2>1 DEF RowsInv, TableLog
  <2>3. ctx' = "start"
    <3>0. SUFFICES ASSUME ctx' # "start" PROVE FALSE
      OBVIOUS
    <3>1. CASE pc' = "down"
      <4>1. Crash \/ Shutdown \/ pc = "down"
        BY <3>1, Ends
      <4> QED
        BY <1>1, <2>2, <4>1, <1>0 DEF Crash, Shutdown, ProcessGone, ControlInv
    <3>2. CASE pc' # "down"
      BY <2>2, <3>0, <3>2, StartEnds DEF Recovered
    <3> QED
      BY <3>1, <3>2
  <2>4. h \in replaying'
    <3>1. CASE \E x \in replaying : DeleteReplayed(x)
      BY <1>0, <1>1, <2>2, <3>1 DEF DeleteReplayed, Without
    <3> QED
      BY <2>2, <2>3, <3>1, ReplayingFrame
  <2> QED
    BY <2>3, <2>4
<1> QED
  BY <1>1, <1>2, <1>3, <1>4, TableChanges DEF Plus, Empty

\* A batch comes to a segment from the table that is flushed.
LEMMA NewInParquet ==
    ASSUME StructInv, [Steps]_vars, NEW b, InParquet(b)'
    PROVE  \/ InParquet(b)
           \/ FlushWrite /\ gen - 1 \in DOMAIN tables /\ b \in tables[gen - 1].rows
BY ParquetRows DEF InParquet

\* A batch leaves the queryable tables with the flush that brings it to a segment.
LEMMA ShownApartStep ==
    ASSUME ConstantsAssumption, StructInv, RowsInv, [Steps]_vars
    PROVE  ShownApart'
<1>1. SUFFICES ASSUME NEW g \in snapshot'.tables, NEW b \in tables'[g].rows,
                      InParquet(b)'
               PROVE  FALSE
  BY DEF ShownApart
<1>2. g \in DOMAIN tables' /\ pc' # "down"
  BY StructStep DEF StructInv, TableInv, DownInv, NoSnapshot
<1>3. pc # "down"
  <2>1. SUFFICES ASSUME Start PROVE FALSE
    BY <1>2, ClockStep
  <2>2. tables'[g] = Empty
    BY <1>2, <2>1 DEF Start, Started
  <2> QED
    BY <1>1, <2>2 DEF Empty
<1>4. g \in snapshot.tables \/ tables'[g] = Empty
  BY <1>3, NewShownTables DEF FlushOpen, With
<1>5. CASE g \in snapshot.tables /\ tables'[g] = tables[g]
  <2>1. ~InParquet(b) /\ g \in DOMAIN tables
    BY <1>1, <1>5, StructFacts DEF RowsInv, ShownApart, TableInv
  <2>2. FlushWrite /\ gen - 1 \in DOMAIN tables /\ b \in tables[gen - 1].rows
    BY <1>1, <2>1, NewInParquet
  <2>3. g # gen - 1
    BY <1>1, <2>2 DEF FlushWrite, Exchanged
  <2> QED
    BY <1>1, <1>5, <2>1, <2>2, <2>3 DEF RowsInv, TablesApart
<1>6. CASE /\ pc = "append" /\ g = gen /\ g \in DOMAIN tables /\ g \in snapshot.tables
           /\ \E B \in SUBSET Turn : tables'[g] = Plus(tables[g], B)
           /\ UNCHANGED parquet
  <2>1. InParquet(b)
    BY <1>1, <1>6 DEF InParquet
  <2>2. b \in tables[g].rows \/ b \in Turn
    BY <1>1, <1>6 DEF Plus
  <2> QED
    BY <1>6, <2>1, <2>2 DEF RowsInv, ShownApart, FreshRows, Turn, DataOf
<1>7. CASE Replay
  <2>1. InReplayed(b) /\ InParquet(b) /\ pc = "replay"
    BY <1>1, <1>2, <1>7, ReplayRows DEF Replay, InParquet, diskVars
  <2> QED
    BY <2>1, StructFacts DEF RowsInv, LogApart, LogDoomed, InReplayed, TableInv
<1> QED
  BY <1>1, <1>2, <1>4, <1>5, <1>6, <1>7, TableChanges DEF Empty

\* While a log is due for deletion, the writer does nothing else.
LEMMA DoomedQuiet ==
    ASSUME StructInv, [Steps]_vars, pc' = pc, pc \in {"delete", "cleanup"}
    PROVE  /\ UNCHANGED gen
           /\ replaying' = replaying \/ \E x \in replaying : DeleteReplayed(x)
<1>0. ctx \in {"start", "loop", "stop"}
  BY StructFacts
<1> USE DEF writerVars
<1>1. CASE Boot
  BY <1>1 DEF Boot, Start, Started, Replay, DeleteReplayed, Recovered
<1>2. CASE Writer
  BY <1>0, <1>2 DEF Writer, TakeBatch, WriteWal, WalFails, AppendBatch,
    AppendFails, AckData, FlushNothing, FlushOpen, FlushOpenFails,
    FlushWrite, FlushWriteFails, FlushDelete, FlushReturns, AckFlush, FinalFlush
<1>3. CASE Callers
  BY <1>3 DEF Callers, Call, Submit, TimerFlush, Cancel
<1>4. CASE Maintenance
  BY <1>4 DEF Maintenance, RetentionPick, RetentionRemove, RunDrop, RunDelete
<1>5. CASE Readers
  BY <1>5 DEF Readers, QueryStart, QueryEnd
<1>6. CASE \E c \in Compactors : Compactor(c)
  BY <1>6 DEF Compactor, CompactPick, CompactWrite, CompactFails, CompactSwap
<1>7. CASE Stop \/ Shutdown \/ Crash \/ HourPasses
  BY <1>7 DEF Stop, Shutdown, Crash, ProcessGone, HourPasses
<1>8. CASE UNCHANGED vars
  BY <1>8 DEF vars
<1> QED
  BY <1>1, <1>2, <1>3, <1>4, <1>5, <1>6, <1>7, <1>8 DEF Steps

\* A log that holds what a segment holds is about to be deleted.
LEMMA LogApartStep ==
    ASSUME ConstantsAssumption, NoDuplicating, StructInv, RowsInv, [Steps]_vars
    PROVE  LogApart'
<1>0. ~May("walDelete") /\ ControlInv /\ ~Crash /\ (ctx # "start" => replaying = {})
  BY StructFacts DEF NoDuplicating, May, Crash, RowsInv, TablesApart
<1>1. SUFFICES ASSUME NEW g \in DOMAIN wal', NEW b \in wal'[g].ok, InParquet(b)'
               PROVE  LogDoomed(g)'
  BY DEF LogApart
<1>2. CASE pc = "wal" /\ b \in Turn
  <2>1. ~InParquet(b) /\ ~InAnyTable(b)
    BY <1>2 DEF RowsInv, FreshRows, Turn, DataOf
  <2> QED
    BY <1>1, <2>1, Places
<1>3. CASE g \in DOMAIN wal /\ b \in wal[g].ok /\ InParquet(b)
  <2>1. LogDoomed(g)
    BY <1>3 DEF RowsInv, LogApart
  <2>2. CASE pc' = pc
    <3>1. UNCHANGED gen
      BY <2>1, <2>2, DoomedQuiet DEF LogDoomed
    <3>2. CASE g \in replaying
      <4>1. CASE \E x \in replaying : DeleteReplayed(x)
        BY <1>0, <1>1, <2>1, <2>2, <3>2, <4>1 DEF DeleteReplayed, Without, LogDoomed
      <4> QED
        BY <2>1, <2>2, <3>1, <3>2, <4>1, DoomedQuiet DEF LogDoomed
    <3> QED
      BY <2>1, <2>2, <3>1, <3>2 DEF LogDoomed
  <2>3. CASE pc' # pc
    <3>1. CASE FlushDelete
      <4>1. wal' = Without(wal, {gen - 1})
        BY <1>0, <3>1 DEF FlushDelete
      <4>2. g # gen - 1
        BY <1>1, <4>1 DEF Without
      <4>3. g \in replaying /\ ctx = "start"
        BY <1>0, <2>1, <4>2 DEF LogDoomed
      <4> QED
        BY <3>1, <4>3 DEF FlushDelete, FlushReturns, LogDoomed
    <3>2. CASE Recovered
      BY <2>1, <3>2 DEF Recovered, LogDoomed
    <3> QED
      BY <1>0, <2>1, <2>3, <3>1, <3>2, Enters DEF LogDoomed
  <2> QED
    BY <2>2, <2>3
<1>4. CASE g \in DOMAIN wal /\ b \in wal[g].ok /\ ~InParquet(b)
  <2>1. FlushWrite /\ gen - 1 \in DOMAIN tables /\ b \in tables[gen - 1].rows
    BY <1>1, <1>4, NewInParquet
  <2>2. g = gen - 1 \/ (ctx = "start" /\ g \in replaying)
    BY <1>4, <2>1 DEF RowsInv, TableLog
  <2> QED
    BY <2>1, <2>2 DEF FlushWrite, LogDoomed
<1> QED
  BY <1>1, <1>2, <1>3, <1>4, WalRows DEF Turn

\* Every step preserves where the rows are.
LEMMA RowsStep ==
    ASSUME ConstantsAssumption, NoDuplicating, StructInv, SentInv, QueueInv,
           RowsInv, [Steps]_vars
    PROVE  RowsInv'
BY FreshRowsStep, LogsApartStep, TablesApartStep, TableLogStep, ShownApartStep,
  LogApartStep DEF RowsInv

-----------------------------------------------------------------------------
(* The segment files.                                                      *)

\* The files that are queryable, will be at the next start, or wait to be merged.
Grouped(p) == \E c \in Compactors : \E G \in compaction[c].groups : p \in G
Live(p) ==
    p \in DOMAIN parquet /\ (pc = "down" \/ p \in snapshot.segments \/ Grouped(p))

\* No two of them share a batch, even once retention has removed one, and no file
\* holds a batch twice.
SegmentsApart ==
    /\ \A p, q \in DOMAIN parquet :
          Live(p) /\ Live(q) /\ p # q => parquet[p].rows \cap parquet[q].rows = {}
    /\ \A p \in DOMAIN parquet : parquet[p].twice = {}

\* A file waits for one merge only; the merged file shares batches with its sources
\* alone.
MergesApart ==
    \A c \in Compactors :
        /\ \A G, H \in compaction[c].groups : G # H => G \cap H = {}
        /\ \A m, n \in compaction[c].merged : m = n
        /\ compaction[c].sources = {} => compaction[c].merged = {}
        /\ \A m \in compaction[c].merged, p \in DOMAIN parquet :
              Live(p) /\ p \notin compaction[c].sources =>
                  parquet[m].rows \cap parquet[p].rows = {}

\* Every file is queryable, is about to be, or waits for its deletion.
FilesUsed ==
    pc # "down" =>
        \A p \in DOMAIN parquet :
            \/ p \in snapshot.segments \cup deletes
            \/ \E c \in Compactors : p \in compaction[c].merged

SegmentInv == SegmentsApart /\ MergesApart /\ FilesUsed

\* What the segments depend on changes with few steps.
LEMMA SegmentsChange ==
    ASSUME StructInv, [Steps]_vars
    PROVE  \/ Start \/ FlushWrite \/ RetentionRemove \/ Shutdown \/ Crash
           \/ (\E p \in deletes : RunDelete(p))
           \/ (\E c \in Compactors : Compactor(c))
           \/ /\ UNCHANGED <<parquet, compaction, deletes>>
              /\ snapshot'.segments = snapshot.segments
              /\ pc' = "down" <=> pc = "down"
<1>0. snapshot \in Snapshots /\ ctx \in {"start", "loop", "stop"}
  BY StructFacts
<1> USE DEF diskVars, writerVars, otherVars
<1>1. CASE Replay \/ (\E g \in replaying : DeleteReplayed(g)) \/ Recovered
  BY <1>1 DEF Replay, DeleteReplayed, Recovered
<1>2. CASE \/ TakeBatch \/ WriteWal \/ WalFails \/ AppendBatch \/ AppendFails
          \/ AckData \/ AckFlush \/ FinalFlush
  BY <1>0, <1>2 DEF TakeBatch, WriteWal, WalFails, Raise, AppendBatch,
    AppendFails, AckData, AckFlush, FinalFlush
<1>3. CASE \/ FlushNothing \/ FlushOpen \/ FlushOpenFails \/ FlushWriteFails
          \/ FlushDelete
  BY <1>0, <1>3 DEF FlushNothing, FlushReturns, FlushOpen, FlushOpenFails,
    Raise, FlushWriteFails, FlushDelete, Snapshots
<1>4. CASE Callers
  BY <1>4 DEF Callers, Call, Submit, TimerFlush, Cancel
<1>5. CASE RetentionPick \/ (\E g \in drops : RunDrop(g))
  BY <1>5 DEF RetentionPick, RunDrop
<1>6. CASE Readers
  BY <1>6 DEF Readers, QueryStart, QueryEnd
<1>7. CASE Stop \/ HourPasses
  BY <1>7 DEF Stop, HourPasses
<1>8. CASE UNCHANGED vars
  BY <1>8 DEF vars
<1> QED
  BY <1>1, <1>2, <1>3, <1>4, <1>5, <1>6, <1>7, <1>8 DEF Steps, Boot, Writer, Maintenance

\* With fewer files, fewer merges and no new queryable file, all stays apart.
LEMMA SegmentsShrink ==
    ASSUME ConstantsAssumption, StructInv, SegmentInv, [Steps]_vars,
           \A p \in DOMAIN parquet' : p \in DOMAIN parquet /\ parquet'[p] = parquet[p],
           \A p \in DOMAIN parquet' : Live(p)' => Live(p),
           \A c \in Compactors :
               \/ compaction'[c] = NoCompaction
               \/ compaction'[c] = compaction[c]
    PROVE  SegmentsApart' /\ MergesApart'
<1>1. SegmentsApart'
  BY DEF SegmentInv, SegmentsApart
<1>2. \A c \in Compactors : compaction'[c].merged \subseteq DOMAIN parquet'
  BY StructStep DEF StructInv, MergeInv, MergeOf
<1>3. ASSUME NEW c \in Compactors, compaction'[c] = NoCompaction
      PROVE  /\ compaction'[c].groups = {} /\ compaction'[c].merged = {}
  BY <1>3 DEF NoCompaction
<1>4. ASSUME NEW c \in Compactors, compaction'[c] = compaction[c],
             NEW m \in compaction'[c].merged, NEW p \in DOMAIN parquet',
             Live(p)', p \notin compaction'[c].sources
      PROVE  parquet'[m].rows \cap parquet'[p].rows = {}
  <2>1. m \in DOMAIN parquet' /\ p \in DOMAIN parquet /\ Live(p)
    BY <1>2, <1>4
  <2> QED
    BY <1>4, <2>1 DEF SegmentInv, MergesApart
<1>5. MergesApart'
  <2>1. SUFFICES ASSUME NEW c \in Compactors
        PROVE  /\ \A G, H \in compaction'[c].groups : G # H => G \cap H = {}
               /\ \A m, n \in compaction'[c].merged : m = n
               /\ compaction'[c].sources = {} => compaction'[c].merged = {}
               /\ \A m \in compaction'[c].merged, p \in DOMAIN parquet' :
                     Live(p)' /\ p \notin compaction'[c].sources =>
                         parquet'[m].rows \cap parquet'[p].rows = {}
    BY DEF MergesApart
  <2>2. CASE compaction'[c] = NoCompaction
    BY <1>3, <2>2
  <2>3. CASE compaction'[c] = compaction[c]
    BY <1>4, <2>3 DEF SegmentInv, MergesApart
  <2> QED
    BY <2>2, <2>3
<1> QED
  BY <1>1, <1>5

\* A start finds every file it keeps.
LEMMA StartSegments ==
    ASSUME ConstantsAssumption, StructInv, SegmentInv, [Steps]_vars, Start
    PROVE  SegmentInv'
<1>1. /\ pc = "down" /\ pc' # "down" /\ UNCHANGED <<parquet, compaction>>
      /\ snapshot'.segments = DOMAIN parquet
      /\ \A c \in Compactors : compaction[c] = NoCompaction
  BY DEF Start, Started, StructInv, DownInv, otherVars
<1>2. \A p \in DOMAIN parquet' : Live(p)
  BY <1>1 DEF Live
<1> QED
  BY <1>1, <1>2, SegmentsShrink DEF SegmentInv, FilesUsed

\* A flushed table shares nothing with the files.
LEMMA FlushSegments ==
    ASSUME ConstantsAssumption, StructInv, RowsInv, SegmentInv, [Steps]_vars, FlushWrite
    PROVE  SegmentInv'
<1> DEFINE f == [kind |-> "seg", id |-> gen - 1, hour |-> hour]
<1>1. /\ pc = "write" /\ pc' = "delete" /\ UNCHANGED <<compaction, deletes>>
      /\ parquet' = With(parquet, f, tables[gen - 1])
      /\ snapshot'.segments = snapshot.segments \cup {f}
  BY DEF FlushWrite, Exchanged, otherVars
<1>2. f \notin DOMAIN parquet /\ ~Grouped(f)
  BY <1>1, FreshPaths DEF Known, Grouped
<1>3. gen - 1 \in snapshot.tables /\ gen - 1 \in DOMAIN tables
  BY <1>1, StructFacts DEF TableInv
<1>4. \A p \in DOMAIN parquet : tables[gen - 1].rows \cap parquet[p].rows = {}
  BY <1>3 DEF RowsInv, ShownApart, InParquet
<1>5. tables[gen - 1].twice = {}
  BY <1>3 DEF RowsInv, TablesApart
<1>6. /\ DOMAIN parquet' = DOMAIN parquet \cup {f} /\ parquet'[f] = tables[gen - 1]
      /\ \A p \in DOMAIN parquet : p # f /\ parquet'[p] = parquet[p]
  BY <1>1, <1>2 DEF With
<1> HIDE DEF f
<1>7. \A p \in DOMAIN parquet : Live(p)' => Live(p)
  BY <1>1, <1>6 DEF Live, Grouped
<1>8. SegmentsApart'
  BY <1>4, <1>5, <1>6, <1>7 DEF SegmentInv, SegmentsApart
<1>9. \A c \in Compactors : compaction[c].merged \subseteq DOMAIN parquet
  BY DEF StructInv, MergeInv, MergeOf
<1>10. ASSUME NEW c \in Compactors, NEW m \in compaction[c].merged,
              NEW p \in DOMAIN parquet', Live(p)', p \notin compaction[c].sources
       PROVE  parquet'[m].rows \cap parquet'[p].rows = {}
  <2>1. m \in DOMAIN parquet /\ parquet'[m] = parquet[m]
    BY <1>6, <1>9
  <2>2. CASE p = f
    BY <1>4, <1>6, <2>1, <2>2
  <2>3. CASE p # f
    BY <1>6, <1>7, <1>10, <2>1, <2>3 DEF SegmentInv, MergesApart
  <2> QED
    BY <2>2, <2>3
<1>11. MergesApart'
  BY <1>1, <1>10 DEF SegmentInv, MergesApart
<1>12. FilesUsed'
  BY <1>1, <1>6 DEF SegmentInv, FilesUsed
<1> QED
  BY <1>8, <1>11, <1>12 DEF SegmentInv

\* Retention and a deferred deletion take files away.
LEMMA RemovalSegments ==
    ASSUME ConstantsAssumption, StructInv, SegmentInv, [Steps]_vars,
           RetentionRemove \/ \E p \in deletes : RunDelete(p)
    PROVE  SegmentInv'
<1>0. snapshot \in Snapshots
  BY StructFacts
<1>1. CASE RetentionRemove
  <2>1. /\ UNCHANGED <<parquet, compaction, pc>> /\ deletes' = deletes \cup victims
        /\ snapshot'.segments = snapshot.segments \ victims
    BY <1>0, <1>1 DEF RetentionRemove, diskVars, writerVars, Snapshots
  <2>2. \A p \in DOMAIN parquet : Live(p)' => Live(p)
    BY <2>1 DEF Live, Grouped
  <2>3. FilesUsed'
    BY <2>1 DEF SegmentInv, FilesUsed
  <2> QED
    BY <2>1, <2>2, <2>3, SegmentsShrink DEF SegmentInv
<1>2. CASE \E p \in deletes : RunDelete(p)
  <2>1. PICK p \in deletes : RunDelete(p)
    BY <1>2
  <2>2. /\ UNCHANGED <<compaction, pc, snapshot>> /\ deletes' = deletes \ {p}
        /\ parquet' = Without(parquet, {p})
    BY <2>1 DEF RunDelete, writerVars, otherVars
  <2>3. /\ DOMAIN parquet' = DOMAIN parquet \ {p}
        /\ \A q \in DOMAIN parquet' : parquet'[q] = parquet[q]
    BY <2>2 DEF Without
  <2>4. \A q \in DOMAIN parquet' : Live(q)' => Live(q)
    BY <2>2, <2>3 DEF Live, Grouped
  <2>5. FilesUsed'
    BY <2>2, <2>3 DEF SegmentInv, FilesUsed
  <2> QED
    BY <2>2, <2>3, <2>4, <2>5, SegmentsShrink DEF SegmentInv
<1> QED
  BY <1>1, <1>2

\* A clean stop leaves the queryable files and no other.
LEMMA ShutdownSegments ==
    ASSUME ConstantsAssumption, NoDuplicating, StructInv, SegmentInv, [Steps]_vars,
           Shutdown
    PROVE  SegmentInv'
<1>1. /\ pc = "stopped" /\ TimerFree /\ parquet' = Without(parquet, deletes)
      /\ compaction' = [c \in Compactors |-> NoCompaction] /\ pc' = "down"
  <2>1. PICK kept \in SUBSET deletes :
           (kept # {} => May("fileDelete")) /\ parquet' = Without(parquet, deletes \ kept)
    BY DEF Shutdown
  <2>2. kept = {}
    BY <2>1 DEF NoDuplicating, May
  <2> QED
    BY <2>1, <2>2 DEF Shutdown, ProcessGone
<1>2. /\ DOMAIN parquet' = DOMAIN parquet \ deletes
      /\ \A q \in DOMAIN parquet' : parquet'[q] = parquet[q]
  BY <1>1 DEF Without
<1>3. \A c \in Compactors : compaction[c].merged = {}
  BY <1>1 DEF TimerFree, NoDuplicating, NoCompaction
<1>4. \A p \in DOMAIN parquet' : Live(p)
  BY <1>1, <1>2, <1>3 DEF Live, SegmentInv, FilesUsed
<1>5. FilesUsed'
  BY <1>1 DEF FilesUsed
<1> QED
  BY <1>1, <1>2, <1>4, <1>5, SegmentsShrink DEF SegmentInv

\* The groups picked are those of distinct hours.
LEMMA PickSegments ==
    ASSUME ConstantsAssumption, NoDuplicating, StructInv, SegmentInv, [Steps]_vars,
           NEW c \in Compactors, CompactPick(c)
    PROVE  SegmentInv'
<1>1. /\ UNCHANGED <<parquet, snapshot, deletes, pc>> /\ compaction[c] = NoCompaction
      /\ compaction' = [compaction EXCEPT ![c].groups = Groups(c = "api")]
      /\ c = "timer" /\ Compactors = {c} /\ pc # "down"
  BY DEF CompactPick, diskVars, writerVars, NoDuplicating, Serving
<1>2. /\ compaction'[c].groups = Groups(c = "api")
      /\ compaction'[c].sources = {} /\ compaction'[c].merged = {}
  BY <1>1, QueueFacts DEF NoCompaction
<1>3. \A G, H \in Groups(c = "api") : G # H => G \cap H = {}
  BY DEF Groups
<1>4. \A G \in Groups(c = "api") : G \subseteq snapshot.segments
  BY DEF Groups
<1>5. \A p \in DOMAIN parquet : Live(p)' => Live(p)
  <2>1. SUFFICES ASSUME NEW p \in DOMAIN parquet, Live(p)' PROVE Live(p)
    OBVIOUS
  <2>2. p \in snapshot.segments \/ \E G \in compaction'[c].groups : p \in G
    BY <1>1, <2>1 DEF Live, Grouped
  <2> QED
    BY <1>2, <1>4, <2>2 DEF Live
<1>6. SegmentsApart'
  BY <1>1, <1>5 DEF SegmentInv, SegmentsApart
<1>7. MergesApart'
  BY <1>1, <1>2, <1>3 DEF MergesApart
<1>8. FilesUsed'
  BY <1>1, <1>2 DEF SegmentInv, FilesUsed, NoCompaction
<1> QED
  BY <1>6, <1>7, <1>8 DEF SegmentInv

\* A merged file shares batches with its sources alone.
LEMMA MergeSegments ==
    ASSUME ConstantsAssumption, NoDuplicating, StructInv, SegmentInv, [Steps]_vars,
           NEW c \in Compactors, CompactWrite(c)
    PROVE  SegmentInv'
<1>1. /\ UNCHANGED <<snapshot, deletes, pc>> /\ compaction[c].sources = {}
      /\ Compactors = {c}
  BY DEF CompactWrite, writerVars, NoDuplicating
<1>2. PICK G \in compaction[c].groups :
         /\ G \subseteq DOMAIN parquet
         /\ parquet' = With(parquet, MergedPath(G), UnionAll(parquet, G))
         /\ compaction' = [compaction EXCEPT ![c].sources = G,
                                             ![c].merged = {MergedPath(G)}]
  BY DEF CompactWrite
<1> DEFINE m == MergedPath(G)
<1>3. m \notin DOMAIN parquet /\ ~Grouped(m) /\ m \notin deletes
  BY <1>2, FreshPaths DEF Known, Grouped
<1>4. /\ compaction'[c].groups = compaction[c].groups
      /\ compaction'[c].sources = G /\ compaction'[c].merged = {m}
  BY <1>2, QueueFacts
<1>5. pc # "down" /\ m \notin snapshot.segments
  BY <1>2, <1>3, StructFacts DEF StructInv, DownInv, NoCompaction
<1>6. /\ DOMAIN parquet' = DOMAIN parquet \cup {m} /\ parquet'[m] = UnionAll(parquet, G)
      /\ \A p \in DOMAIN parquet : p # m /\ parquet'[p] = parquet[p]
  BY <1>2, <1>3 DEF With
<1>7. G # {}
  <2>1. {} \notin compaction[c].groups
    BY DEF StructInv, MergeInv, MergeOf
  <2> QED
    BY <1>2, <2>1
<1> HIDE DEF m
<1>8. \A p : Grouped(p)' <=> Grouped(p)
  BY <1>1, <1>4 DEF Grouped
<1>9. \A p \in DOMAIN parquet' : Live(p)' => Live(p) /\ p # m
  BY <1>1, <1>3, <1>5, <1>6, <1>8 DEF Live
<1>10. \A p \in G : Live(p)
  BY <1>2 DEF Live, Grouped
<1>11. \A b \in parquet'[m].rows : \E p \in G : b \in parquet[p].rows
  BY <1>6 DEF UnionAll
<1>12. parquet'[m].twice = {}
  <2>1. \A p \in G : parquet[p].twice = {}
    BY <1>2 DEF SegmentInv, SegmentsApart
  <2>2. \A p, q \in G : p # q => parquet[p].rows \cap parquet[q].rows = {}
    BY <1>2, <1>10 DEF SegmentInv, SegmentsApart
  <2> QED
    BY <1>6, <2>1, <2>2 DEF UnionAll
<1>13. SegmentsApart'
  BY <1>6, <1>9, <1>12 DEF SegmentInv, SegmentsApart
<1>14. ASSUME NEW p \in DOMAIN parquet', Live(p)', p \notin G
       PROVE  parquet'[m].rows \cap parquet'[p].rows = {}
  <2>1. p \in DOMAIN parquet /\ Live(p) /\ parquet'[p] = parquet[p]
    BY <1>6, <1>9, <1>14
  <2>2. \A q \in G : parquet[q].rows \cap parquet[p].rows = {}
    BY <1>2, <1>10, <1>14, <2>1 DEF SegmentInv, SegmentsApart
  <2> QED
    BY <1>11, <2>1, <2>2
<1>15. MergesApart'
  BY <1>1, <1>4, <1>7, <1>14 DEF SegmentInv, MergesApart
<1>16. FilesUsed'
  <2>1. compaction[c].merged = {}
    BY <1>1 DEF SegmentInv, MergesApart
  <2> QED
    BY <1>1, <1>4, <1>6, <2>1 DEF SegmentInv, FilesUsed
<1> QED
  BY <1>13, <1>15, <1>16 DEF SegmentInv

\* The groups left are abandoned.
LEMMA FailSegments ==
    ASSUME ConstantsAssumption, NoDuplicating, StructInv, SegmentInv, [Steps]_vars,
           NEW c \in Compactors, CompactFails(c)
    PROVE  SegmentInv'
<1>1. /\ UNCHANGED <<parquet, snapshot, deletes, pc>> /\ compaction[c].sources = {}
      /\ Compactors = {c} /\ compaction' = [compaction EXCEPT ![c] = NoCompaction]
  BY DEF CompactFails, writerVars, diskVars, NoDuplicating
<1>2. compaction'[c] = NoCompaction
  BY <1>1, QueueFacts
<1>3. \A p \in DOMAIN parquet : Live(p)' => Live(p)
  BY <1>1, <1>2 DEF Live, Grouped, NoCompaction
<1>4. FilesUsed'
  BY <1>1 DEF SegmentInv, FilesUsed, MergesApart
<1> QED
  BY <1>1, <1>2, <1>3, <1>4, SegmentsShrink DEF SegmentInv

\* The merged file takes the place of its sources.
LEMMA SwapSegments ==
    ASSUME ConstantsAssumption, NoDuplicating, StructInv, SegmentInv, [Steps]_vars,
           NEW c \in Compactors, CompactSwap(c)
    PROVE  SegmentInv'
<1> DEFINE S == compaction[c].sources
           M == compaction[c].merged
<1>1. /\ UNCHANGED <<parquet, pc>> /\ deletes' = deletes \cup S /\ S # {}
      /\ Compactors = {c} /\ snapshot'.segments = (snapshot.segments \ S) \cup M
      /\ compaction' = [compaction EXCEPT ![c] =
                          [groups |-> @.groups \ {@.sources},
                           sources |-> {}, merged |-> {}]]
  BY StructFacts DEF CompactSwap, writerVars, diskVars, NoDuplicating, AfterMerge,
    Snapshots
<1>2. /\ compaction'[c].groups = compaction[c].groups \ {S}
      /\ compaction'[c].sources = {} /\ compaction'[c].merged = {}
  BY <1>1, QueueFacts
<1>3. S \in compaction[c].groups /\ M \subseteq DOMAIN parquet
  BY <1>1 DEF StructInv, MergeInv, MergeOf
<1>4. pc # "down"
  BY <1>1 DEF StructInv, DownInv, NoCompaction
<1>5. ASSUME NEW p \in DOMAIN parquet, Live(p)', p \notin M
      PROVE  Live(p) /\ p \notin S
  <2>1. CASE p \in snapshot'.segments
    BY <1>1, <1>5, <2>1 DEF Live
  <2>2. CASE \E G \in compaction'[c].groups : p \in G
    <3>1. PICK G \in compaction[c].groups : G # S /\ p \in G
      BY <1>2, <2>2
    <3>2. G \cap S = {}
      <4>1. \A F, H \in compaction[c].groups : F # H => F \cap H = {}
        BY DEF SegmentInv, MergesApart
      <4>2. S \in compaction[c].groups /\ G \in compaction[c].groups /\ G # S
        BY <1>3, <3>1
      <4> HIDE DEF S
      <4> QED
        BY <4>1, <4>2
    <3>3. Live(p)
      BY <1>5, <3>1 DEF Live, Grouped
    <3> QED
      BY <3>1, <3>2, <3>3
  <2> QED
    BY <1>1, <1>4, <1>5, <2>1, <2>2 DEF Live, Grouped
<1>6. ASSUME NEW p \in DOMAIN parquet, NEW q \in DOMAIN parquet,
             Live(p)', Live(q)', p # q
      PROVE  parquet[p].rows \cap parquet[q].rows = {}
  <2>1. p \notin M \/ q \notin M
    BY <1>6 DEF SegmentInv, MergesApart
  <2>2. CASE p \notin M /\ q \notin M
    BY <1>5, <1>6, <2>2 DEF SegmentInv, SegmentsApart
  <2>3. CASE p \in M /\ q \notin M
    BY <1>5, <1>6, <2>3 DEF SegmentInv, MergesApart
  <2>4. CASE q \in M /\ p \notin M
    BY <1>5, <1>6, <2>4 DEF SegmentInv, MergesApart
  <2> QED
    BY <2>1, <2>2, <2>3, <2>4
<1>7. SegmentsApart'
  BY <1>1, <1>6 DEF SegmentInv, SegmentsApart
<1>8. MergesApart'
  BY <1>1, <1>2 DEF SegmentInv, MergesApart
<1>9. FilesUsed'
  BY <1>1 DEF SegmentInv, FilesUsed
<1> QED
  BY <1>7, <1>8, <1>9 DEF SegmentInv

\* Every step keeps the segment files apart.
LEMMA SegmentStep ==
    ASSUME ConstantsAssumption, NoDuplicating, StructInv, RowsInv, SegmentInv,
           [Steps]_vars
    PROVE  SegmentInv'
<1>1. CASE /\ UNCHANGED <<parquet, compaction, deletes>>
           /\ snapshot'.segments = snapshot.segments
           /\ pc' = "down" <=> pc = "down"
  <2>1. \A p \in DOMAIN parquet : Live(p)' => Live(p)
    BY <1>1 DEF Live, Grouped
  <2>2. FilesUsed'
    BY <1>1 DEF SegmentInv, FilesUsed
  <2> QED
    BY <1>1, <2>1, <2>2, SegmentsShrink DEF SegmentInv
<1>2. CASE \E c \in Compactors : Compactor(c)
  BY <1>2, PickSegments, MergeSegments, FailSegments, SwapSegments DEF Compactor
<1> QED
  BY <1>1, <1>2, SegmentsChange, StartSegments, FlushSegments, RemovalSegments,
    ShutdownSegments DEF NoDuplicating, Crash

\* All of it holds before the first start.
LEMMA ApartInit ==
    ASSUME Init
    PROVE  RowsInv /\ SegmentInv
<1>1. RowsInv
  BY DEF Init, RowsInv, FreshRows, LogsApart, TablesApart, TableLog, ShownApart,
    LogApart, Queued, Turn, DataOf, InWal, InAnyTable, InParquet, NoSnapshot
<1>2. SegmentInv
  BY DEF Init, SegmentInv, SegmentsApart, MergesApart, FilesUsed, NoCompaction
<1> QED
  BY <1>1, <1>2

\* What a query reads follows.
LEMMA OnceFromInv ==
    ASSUME StructInv, RowsInv, SegmentInv
    PROVE  SeenOnce
<1>1. /\ snapshot.segments \subseteq DOMAIN parquet
      /\ snapshot.tables \subseteq DOMAIN tables
  BY StructFacts DEF TableInv
<1>2. \A p \in snapshot.segments : Live(p)
  BY <1>1 DEF Live
<1>3. /\ \A p \in snapshot.segments : parquet[p].twice = {}
      /\ \A p, q \in snapshot.segments :
           p # q => parquet[p].rows \cap parquet[q].rows = {}
  BY <1>1, <1>2 DEF SegmentInv, SegmentsApart
<1>4. /\ \A g \in snapshot.tables : tables[g].twice = {}
      /\ \A g, h \in snapshot.tables :
           g # h => tables[g].rows \cap tables[h].rows = {}
  BY <1>1 DEF RowsInv, TablesApart
<1>5. InSegments(snapshot) \cap InTables(snapshot) = {}
  BY <1>1 DEF InSegments, InTables, RowsInv, ShownApart, InParquet
<1> QED
  BY <1>3, <1>4, <1>5 DEF SeenOnce

\* Without a crash, a failed deletion or a second compactor, no query sees a
\* batch twice: not across a flush, a failed flush, a merge, retention, a deferred
\* job, or a stop and the restart that follows.
THEOREM RowsSeenOnce ==
    ASSUME EverySegmentLoads, NoDuplicating
    PROVE  Spec => []SeenOnce
<1>1. Init => QueueInv /\ SentInv /\ RowsInv /\ SegmentInv
  BY OnceInit, SentInit, ApartInit
<1>2. /\ StructInv /\ SentInv /\ QueueInv /\ RowsInv /\ SegmentInv
      /\ [Steps]_vars
      => SentInv' /\ QueueInv' /\ RowsInv' /\ SegmentInv'
  BY ConstantsAssumption, NoDuplicating, SentStep, QueueStep, RowsStep, SegmentStep
<1>3. StructInv /\ RowsInv /\ SegmentInv => SeenOnce
  BY OnceFromInv
<1> QED
  BY <1>1, <1>2, <1>3, StructSafe, LoadedSpec, PTL

=============================================================================
