--------------------------- MODULE ZipWriterProofs ---------------------------
(***************************************************************************)
(* What holds of ZipWriter for every size of the records, every limit and  *)
(* every set of calls.                                                     *)
(***************************************************************************)
EXTENDS ZipWriter, SequenceTheorems, TLAPS

(***************************************************************************)
(* The length of the zip64 extra field is a natural number.                *)
(***************************************************************************)
LEMMA Zip64FieldNat ==
  ASSUME NEW f \in FileState
  PROVE  Zip64FieldSize(f) \in Nat
<1>1. Len(Zip64Words(f)) \in 0..3
  BY SMTT(30) DEF Zip64Words, Word, Large, FileState
<1>2. \A n \in 0..3 : Word64 * n \in Nat
  BY FormatAssumption
<1>3. QED
  BY <1>1, <1>2, FormatAssumption DEF Zip64FieldSize

(***************************************************************************)
(* A sequence of equal bytes is a sequence of bytes.                       *)
(***************************************************************************)
LEMMA BytesType ==
  ASSUME NEW id \in Nat, NEW n \in Nat
  PROVE  Bytes(id, n) \in Seq(Nat) /\ Len(Bytes(id, n)) = n
BY DEF Bytes

(***************************************************************************)
(* What a header of an entry looks like to the types.                      *)
(***************************************************************************)
LEMMA StartedType ==
  ASSUME TypeOK, NEW o \in Call
  PROVE  /\ Id \in Nat \ {0}
         /\ HeaderBytes(o) \in Nat \ {0}
         /\ CentralExtra(o) \in Nat
         /\ Started(o) \in EntryState
         /\ FileHeader(Started(o)) \in FileState
<1>1. Id \in Nat \ {0}
  BY DEF Id, TypeOK
<1>2. HeaderBytes(o) \in Nat \ {0} /\ CentralExtra(o) \in Nat
  BY FormatAssumption DEF HeaderBytes, CentralExtra, Call
<1>3. Started(o) \in EntryState
  BY <1>1, <1>2 DEF Started, NoEntry, EntryState, Call, TypeOK
<1>4. QED
  BY <1>1, <1>2, <1>3 DEF FileHeader, FileState, EntryState

(***************************************************************************)
(* Writes move both positions by a natural number.                         *)
(***************************************************************************)
LEMMA SinkType ==
  ASSUME TypeOK, NEW n \in Nat, Accept(n) \/ Refuse(n)
  PROVE  sink' \in Nat /\ count' \in Nat
BY DEF TypeOK, Accept, Refuse

(***************************************************************************)
(* Counting the bytes of an entry, and moving the offsets of finish() past *)
(* a name and a comment, keep the types of their records.                  *)
(***************************************************************************)
LEMMA CountedType ==
  ASSUME NEW r \in EntryState, NEW e \in Nat, NEW m \in Nat, NEW c \in Nat
  PROVE  [r EXCEPT !.compressed_bytes = e, !.uncompressed_bytes = m,
                   !.crc = c] \in EntryState
BY DEF EntryState

LEMMA MovedType ==
  ASSUME NEW d \in DirState, NEW k \in Nat, NEW n \in Nat, NEW c \in Nat
  PROVE  [d EXCEPT !.k = k, !.name_offset = n, !.comment_offset = c]
           \in DirState
BY DEF DirState

(***************************************************************************)
(* Every variable keeps its type.                                          *)
(***************************************************************************)
THEOREM TypeCorrect == Spec => []TypeOK
<1>1. Init => TypeOK
  <2> SUFFICES ASSUME Init PROVE TypeOK
    OBVIOUS
  <2>1. count \in Nat /\ sink \in Nat
    BY WriterAssumption DEF Init
  <2>2. entry \in EntryState
    BY DEF Init, NoEntry, EntryState
  <2>3. dir \in DirState /\ dir.k >= 1
    BY DEF Init, DirectoryAt, DirState
  <2>4. /\ files \in Seq(FileState) /\ given \in Seq(Call)
        /\ file_names \in Seq(Nat) /\ file_comments \in Seq(Nat)
    BY EmptySeq DEF Init
  <2>5. QED
    BY <2>1, <2>2, <2>3, <2>4 DEF Init, TypeOK, Modes
<1>2. TypeOK /\ [Next]_vars => TypeOK'
  <2> SUFFICES ASSUME TypeOK, [Next]_vars
               PROVE  TypeOK'
    OBVIOUS
  <2>0. /\ Calls \subseteq Call /\ ArchiveComments \subseteq Nat
        /\ Chunks \subseteq Nat
    BY WriterAssumption
  <2> USE <2>0
  <2>1. ASSUME NEW o \in Calls, RejectPath(o)
        PROVE  TypeOK'
    BY <2>1 DEF RejectPath, TypeOK, archiveVars, sinkVars, recordVars
  <2>2. ASSUME NEW o \in Calls, StartFails(o)
        PROVE  TypeOK'
    <3>1. sink' \in Nat /\ count' \in Nat
      BY <2>2, SinkType, StartedType DEF StartFails, sinkVars, TypeOK
    <3>2. file_names' \in Seq(Nat)
      BY <2>2, StartedType, BytesType, ConcatProperties
         DEF StartFails, TypeOK, Call
    <3>3. QED
      BY <2>2, <3>1, <3>2 DEF StartFails, TypeOK, recordVars
  <2>3. ASSUME NEW o \in Calls, PutLocalHeader(o)
        PROVE  /\ sink' \in Nat /\ count' \in Nat
               /\ locals' \subseteq Placed
               /\ file_names' \in Seq(Nat) /\ file_comments' \in Seq(Nat)
               /\ given' \in Seq(Call)
    <3>1. sink' \in Nat /\ count' \in Nat
      BY <2>3, SinkType, StartedType DEF PutLocalHeader
    <3>2. locals' \subseteq Placed
      BY <2>3, StartedType DEF PutLocalHeader, Placed, TypeOK
    <3>3. file_names' \in Seq(Nat) /\ file_comments' \in Seq(Nat)
      BY <2>3, StartedType, BytesType, ConcatProperties
         DEF PutLocalHeader, KeepText, TypeOK, Call
    <3>4. QED
      BY <2>3, <3>1, <3>2, <3>3 DEF PutLocalHeader, TypeOK
  <2>4. ASSUME NEW o \in Calls, StartFile(o)
        PROVE  TypeOK'
    BY <2>3, <2>4, StartedType
       DEF StartFile, PutLocalHeader, TypeOK, Modes
  <2>5. ASSUME NEW o \in Calls, CreateDir(o)
        PROVE  TypeOK'
    <3>1. files' \in Seq(FileState)
      BY <2>5, StartedType DEF CreateDir, TypeOK
    <3>2. QED
      BY <2>3, <2>5, <3>1 DEF CreateDir, PutLocalHeader, TypeOK
  <2>6. ASSUME NEW n \in ArchiveComments, SetComment(n)
        PROVE  TypeOK'
    BY <2>6 DEF SetComment, TypeOK, sinkVars, recordVars
  <2>7. ASSUME NEW e \in Nat, Emit(e)
        PROVE  sink' \in Nat /\ count' \in Nat
    BY <2>7, SinkType DEF Emit
  <2>8. ASSUME NEW n \in Chunks, NEW m \in Chunks \cup {0},
               NEW e \in Chunks \cup {0}, Write(n, m, e)
        PROVE  TypeOK'
    <3>0. entry \in EntryState /\ e \in Nat /\ m \in Nat
      BY DEF TypeOK
    <3>1. entry' \in EntryState
      <4>1. PICK c \in Nat :
               entry' = [entry EXCEPT !.compressed_bytes = @ + e,
                                      !.uncompressed_bytes = @ + m,
                                      !.crc = c]
        <5>1. CASE Options.calculate
          <6>1. entry.crc + m \in Nat
            BY <3>0 DEF EntryState
          <6>2. QED
            BY <2>8, <5>1, <6>1 DEF Write, CrcBytes
        <5>2. CASE ~Options.calculate
          <6>1. entry.crc \in Nat
            BY <3>0 DEF EntryState
          <6>2. QED
            BY <2>8, <5>2, <6>1 DEF Write, CrcBytes
        <5>3. QED
          BY <5>1, <5>2
      <4>2. /\ entry.compressed_bytes + e \in Nat
            /\ entry.uncompressed_bytes + m \in Nat
        BY <3>0 DEF EntryState
      <4>3. QED
        BY <3>0, <4>1, <4>2, CountedType
    <3>2. QED
      BY <2>7, <2>8, <3>1
         DEF Write, UnchangedByData, archiveVars, recordVars, TypeOK
  <2>9. ASSUME NEW e \in Chunks \cup {0}, NEW ok \in BOOLEAN,
               FinishData(e, ok)
        PROVE  TypeOK'
    <3>0. entry \in EntryState /\ e \in Nat
      BY DEF TypeOK
    <3>1. entry' \in EntryState
      BY <3>0, <2>9 DEF FinishData, EntryState
    <3>2. QED
      BY <2>7, <2>9, <3>1
         DEF FinishData, UnchangedByData, archiveVars, recordVars, TypeOK, Modes
  <2>10. ASSUME NEW e \in Chunks, Epilogue(e)
         PROVE  TypeOK'
    <3>0. entry \in EntryState /\ e \in Nat
      BY DEF TypeOK
    <3>1. entry' \in EntryState
      BY <3>0, <2>10 DEF Epilogue, EntryState
    <3>2. QED
      BY <2>7, <2>10, <3>1
         DEF Epilogue, UnchangedByData, archiveVars, recordVars, TypeOK
  <2>11. DescriptorSize(WideEntry) \in Nat
    BY FormatAssumption DEF DescriptorSize
  <2>12. NoEntry \in EntryState
    BY DEF NoEntry, EntryState
  <2>13. CASE FinishEntry
    <3>1. sink' \in Nat /\ count' \in Nat
      BY <2>11, <2>13, SinkType DEF FinishEntry
    <3>2. descs' \subseteq Placed
      BY <2>11, <2>13 DEF FinishEntry, TypeOK, Placed, EntryState
    <3>3. files' \in Seq(FileState)
      <4>1. FileHeader(entry) \in FileState
        BY DEF FileHeader, FileState, TypeOK, EntryState
      <4>2. QED
        BY <2>13, <4>1 DEF FinishEntry, TypeOK
    <3>4. QED
      BY <2>12, <2>13, <3>1, <3>2, <3>3 DEF FinishEntry, TypeOK, Modes
  <2>14. CASE FinishEntryFails
    BY <2>11, <2>12, <2>14, SinkType
       DEF FinishEntryFails, TypeOK, Modes, archiveVars, recordVars
  <2>15. CASE DropEntry
    BY <2>12, <2>15 DEF DropEntry, TypeOK, Modes, archiveVars, sinkVars, recordVars
  <2>16. CASE BeginFinish
    <3>1. files' \in Seq(FileState)
      <4>1. \A f \in FileState : Finalized(f) \in FileState
        BY Zip64FieldNat DEF Finalized, FileState
      <4>2. QED
        BY <2>16, <4>1 DEF BeginFinish, TypeOK
    <3>2. dir' \in DirState /\ dir'.k >= 1
      BY <2>16 DEF BeginFinish, DirectoryAt, TypeOK, DirState
    <3>3. QED
      BY <2>16, <3>1, <3>2 DEF BeginFinish, TypeOK, Modes, sinkVars, recordVars
  <2>17. CASE FinishRefused
    BY <2>17 DEF FinishRefused, TypeOK, Modes, archiveVars, sinkVars, recordVars
  <2>18. CASE WriteCentral
    <3>1. files[dir.k] \in FileState
      <4>1. dir.k \in 1..Len(files)
        BY <2>18 DEF WriteCentral, TypeOK, DirState
      <4>2. QED
        BY <4>1, ElementOfSeq DEF TypeOK
    <3>2. CentralRecord(files[dir.k]).len \in Nat
      BY <3>1, FormatAssumption DEF CentralRecord, FileState
    <3>3. sink' \in Nat /\ count' \in Nat
      BY <2>18, <3>2, SinkType DEF WriteCentral
    <3>4. dir' \in DirState /\ dir'.k >= 1
      <4>1. dir \in DirState /\ dir.k >= 1
        BY DEF TypeOK
      <4>2. /\ dir.k + 1 \in Nat /\ dir.k + 1 >= 1
            /\ dir.name_offset + files[dir.k].name_len \in Nat
            /\ dir.comment_offset + files[dir.k].comment_len \in Nat
        BY <3>1, <4>1 DEF FileState, DirState
      <4>3. dir' = [dir EXCEPT !.k = dir.k + 1,
                !.name_offset = dir.name_offset + files[dir.k].name_len,
                !.comment_offset = dir.comment_offset + files[dir.k].comment_len]
        BY <2>18 DEF WriteCentral, NextText
      <4>4. dir' \in DirState
        BY <4>1, <4>2, <4>3, MovedType
      <4>5. dir'.k = dir.k + 1
        BY <4>1, <4>3 DEF DirState
      <4>6. QED
        BY <4>2, <4>4, <4>5
    <3>5. QED
      BY <2>18, <3>3, <3>4 DEF WriteCentral, TypeOK, archiveVars
  <2>19. EndRecords.end - sink \in Nat
    <3>1. EndRecords.end = sink + (EndRecords.end - sink)
      BY FormatAssumption DEF EndRecords, TypeOK
    <3>2. QED
      BY FormatAssumption DEF EndRecords, TypeOK
  <2>20. CASE WriteTail
    <3>1. sink' \in Nat /\ count' \in Nat
      BY <2>19, <2>20, SinkType DEF WriteTail
    <3>2. QED
      BY <2>20, <3>1 DEF WriteTail, TypeOK, Modes, archiveVars
  <2>21. CASE FinishFails
    <3>1. sink' \in Nat /\ count' \in Nat
      BY <2>21 DEF FinishFails, Refuse, TypeOK
    <3>2. QED
      BY <2>21, <3>1 DEF FinishFails, TypeOK, Modes, archiveVars, recordVars
  <2>22. CASE UNCHANGED vars
    BY <2>22 DEF vars, TypeOK, archiveVars, sinkVars, recordVars
  <2>23. QED
    BY <2>1, <2>2, <2>4, <2>5, <2>6, <2>8, <2>9, <2>10, <2>13, <2>14, <2>15,
       <2>16, <2>17, <2>18, <2>20, <2>21, <2>22
       DEF Next, Create, EntryStep, FinishStep
<1>3. QED
  BY <1>1, <1>2, PTL DEF Spec

-----------------------------------------------------------------------------
(* What is listed.                                                         *)

(***************************************************************************)
(* A listed file f in terms of the local headers ls and the descriptors ds *)
(* in the sink and of the calls g.                                         *)
(***************************************************************************)
CanRead(f, ls, ds, g) ==
  \E l \in ls :
    /\ l.id = f.id /\ l.at = f.local_header_offset
    /\ g[f.id].kind = "file" =>
         \E d \in ds : d.id = f.id /\ d.at = l.at + l.len + f.compressed_size

Accounted(f, g) ==
  g[f.id].kind = "file" =>
    /\ f.crc = IF g[f.id].calculate THEN f.uncompressed_size ELSE 0
    /\ g[f.id].stored => f.compressed_size = f.uncompressed_size

Listed(f, ls, ds, g) ==
  /\ f.id \in 1..Len(g)
  /\ CanRead(f, ls, ds, g)
  /\ Accounted(f, g)

(***************************************************************************)
(* An open entry e is the last call, its header is in the sink, and its    *)
(* data ends at the position at.                                           *)
(***************************************************************************)
OpenAt(e, ls, g, at) ==
  /\ e.id = Len(g) /\ e.id >= 1 /\ g[e.id].kind = "file"
  /\ \E l \in ls : /\ l.id = e.id /\ l.at = e.local_header_offset
                   /\ at = l.at + l.len + e.compressed_bytes
  /\ Accounted(FileHeader(e), g)

Known(ps, g) == \A p \in ps : p.id \in 1..Len(g)

CompleteIds(ls, ds, g) ==
  {d.id : d \in ds} \cup {l.id : l \in {x \in ls : g[x.id].kind = "dir"}}

ListedIds(fs) == {fs[k].id : k \in 1..Len(fs)}

Ascending(fs) == \A j, k \in 1..Len(fs) : j < k => fs[j].id < fs[k].id

EntriesInv ==
  /\ sink = count
  /\ \A k \in 1..Len(files) : Listed(files[k], locals, descs, given)
  /\ Known(locals, given) /\ Known(descs, given)
  /\ ListedIds(files) = CompleteIds(locals, descs, given)
  /\ Ascending(files)
  /\ EntryOpen =>
       /\ OpenAt(entry, locals, given, sink)
       /\ \A k \in 1..Len(files) : files[k].id < entry.id

(***************************************************************************)
(* The invariant says what the properties say.                             *)
(***************************************************************************)
LEMMA EntriesShow ==
  EntriesInv => EntriesReadable /\ ListedIffComplete /\ DataAccounted
<1> SUFFICES ASSUME EntriesInv
             PROVE  EntriesReadable /\ ListedIffComplete /\ DataAccounted
  OBVIOUS
<1>1. EntriesReadable
  BY DEF EntriesInv, EntriesReadable, Listed, CanRead
<1>2. ListedIffComplete
  BY DEF EntriesInv, ListedIffComplete, ListedIds, CompleteIds, Ascending
<1>3. DataAccounted
  BY DEF EntriesInv, DataAccounted, Listed, Accounted
<1>4. QED
  BY <1>1, <1>2, <1>3

(***************************************************************************)
(* More records and more calls do not take back what is listed.            *)
(***************************************************************************)
LEMMA StillListed ==
  ASSUME NEW f, NEW ls, NEW ls2, NEW ds, NEW ds2,
         NEW g \in Seq(Call), NEW g2 \in Seq(Call),
         ls \subseteq ls2, ds \subseteq ds2, Len(g) <= Len(g2),
         \A i \in 1..Len(g) : g2[i] = g[i],
         Listed(f, ls, ds, g)
  PROVE  Listed(f, ls2, ds2, g2)
<1>1. f.id \in 1..Len(g) /\ g2[f.id] = g[f.id]
  BY DEF Listed
<1>2. f.id \in 1..Len(g2)
  BY <1>1
<1>3. CanRead(f, ls2, ds2, g2)
  BY <1>1 DEF Listed, CanRead
<1>4. Accounted(f, g2)
  BY <1>1 DEF Listed, Accounted
<1>5. QED
  BY <1>2, <1>3, <1>4 DEF Listed

LEMMA NextCall ==
  ASSUME NEW g \in Seq(Call), NEW o \in Call
  PROVE  /\ Append(g, o) \in Seq(Call) /\ Len(Append(g, o)) = Len(g) + 1
         /\ Append(g, o)[Len(g) + 1] = o
         /\ \A i \in 1..Len(g) : Append(g, o)[i] = g[i]
  OBVIOUS

(***************************************************************************)
(* A new file at the end of the list.                                      *)
(***************************************************************************)
LEMMA NextFile ==
  ASSUME NEW fs \in Seq(FileState), NEW f \in FileState
  PROVE  /\ Len(Append(fs, f)) = Len(fs) + 1
         /\ Append(fs, f)[Len(fs) + 1] = f
         /\ \A k \in 1..Len(fs) : Append(fs, f)[k] = fs[k]
         /\ ListedIds(Append(fs, f)) = ListedIds(fs) \cup {f.id}
         /\ Ascending(fs) /\ (\A k \in 1..Len(fs) : fs[k].id < f.id) =>
              Ascending(Append(fs, f))
<1>1. /\ Len(Append(fs, f)) = Len(fs) + 1
      /\ Append(fs, f)[Len(fs) + 1] = f
      /\ \A k \in 1..Len(fs) : Append(fs, f)[k] = fs[k]
  OBVIOUS
<1>2. 1..(Len(fs) + 1) = 1..Len(fs) \cup {Len(fs) + 1} /\ Len(fs) \in Nat
  OBVIOUS
<1>3. ListedIds(Append(fs, f)) = ListedIds(fs) \cup {f.id}
  BY <1>1, <1>2 DEF ListedIds
<1>4. ASSUME Ascending(fs), \A k \in 1..Len(fs) : fs[k].id < f.id,
             NEW j \in 1..(Len(fs) + 1), NEW k \in 1..(Len(fs) + 1), j < k
      PROVE  Append(fs, f)[j].id < Append(fs, f)[k].id
  <2>1. j \in 1..Len(fs)
    BY <1>2, <1>4
  <2>2. CASE k = Len(fs) + 1
    BY <1>1, <1>4, <2>1, <2>2
  <2>3. CASE k \in 1..Len(fs)
    BY <1>1, <1>4, <2>1, <2>3 DEF Ascending
  <2>4. QED
    BY <1>2, <2>2, <2>3
<1>5. QED
  BY <1>1, <1>3, <1>4 DEF Ascending

-----------------------------------------------------------------------------
(* The steps.                                                              *)

\* Both positions move together.
LEMMA SinkCounted ==
  ASSUME sink = count,
         \/ UNCHANGED sinkVars
         \/ \E n \in Int : Accept(n) \/ Refuse(n)
  PROVE  sink' = count'
BY DEF sinkVars, Accept, Refuse

\* A call that leaves nothing but its name.
LEMMA EntriesCall ==
  ASSUME TypeOK, EntriesInv, NEW o \in Call, sink' = count',
         given' = Append(given, o), mode = "idle",
         UNCHANGED <<mode, files, locals, descs>>
  PROVE  EntriesInv'
<1>1. /\ given \in Seq(Call) /\ given' \in Seq(Call) /\ Len(given') = Len(given) + 1
      /\ \A i \in 1..Len(given) : given'[i] = given[i]
  BY NextCall DEF TypeOK
<1>2. ASSUME NEW k \in 1..Len(files)
      PROVE  Listed(files[k], locals, descs, given')
  <2>1. Listed(files[k], locals, descs, given)
    BY DEF EntriesInv
  <2>2. Len(given) <= Len(given')
    BY <1>1
  <2>3. QED
    BY <1>1, <2>1, <2>2, StillListed
<1>3. Known(locals, given') /\ Known(descs, given')
  BY <1>1 DEF EntriesInv, Known
<1>4. CompleteIds(locals, descs, given') = CompleteIds(locals, descs, given)
  BY <1>1 DEF EntriesInv, Known, CompleteIds
<1>5. QED
  BY <1>2, <1>3, <1>4 DEF EntriesInv, EntryOpen

\* The header of a new entry goes to the sink.
LEMMA EntriesHeader ==
  ASSUME TypeOK, EntriesInv, NEW o \in Call, PutLocalHeader(o), mode = "idle"
  PROVE  /\ sink' = count' /\ Id = Len(given') /\ Id = Len(given) + 1
         /\ given \in Seq(Call) /\ given' \in Seq(Call) /\ given'[Id] = o
         /\ \A k \in 1..Len(files) : Listed(files[k], locals', descs', given')
         /\ Known(locals', given') /\ Known(descs', given')
         /\ CompleteIds(locals', descs', given') =
              IF o.kind = "dir" THEN ListedIds(files) \cup {Id}
                                ELSE ListedIds(files)
         /\ \A k \in 1..Len(files) : files[k].id < Id
         /\ \E l \in locals' : /\ l.id = Id /\ l.at = count
                               /\ sink' = l.at + l.len
<1>1. /\ given \in Seq(Call) /\ given' \in Seq(Call) /\ Len(given') = Len(given) + 1
      /\ given'[Id] = o /\ Id = Len(given) + 1 /\ Id = Len(given')
      /\ \A i \in 1..Len(given) : given'[i] = given[i]
  BY NextCall DEF PutLocalHeader, TypeOK, Id
<1> DEFINE header == [id |-> Id, at |-> sink, len |-> HeaderBytes(o)]
<1>2. locals' = locals \cup {header} /\ descs' = descs
  BY DEF PutLocalHeader
<1>3. \A k \in 1..Len(files) : Listed(files[k], locals', descs', given')
  BY <1>1, <1>2, StillListed DEF EntriesInv
<1>4. Known(locals', given') /\ Known(descs', given')
  BY <1>1, <1>2 DEF EntriesInv, Known
<1>5. {x \in locals' : given'[x.id].kind = "dir"} =
        {x \in locals : given[x.id].kind = "dir"}
          \cup (IF o.kind = "dir" THEN {header} ELSE {})
  BY <1>1, <1>2 DEF EntriesInv, Known
<1>6. CompleteIds(locals', descs', given') =
        IF o.kind = "dir" THEN ListedIds(files) \cup {Id} ELSE ListedIds(files)
  <2> DEFINE old == {x \in locals : given[x.id].kind = "dir"}
             new == {x \in locals' : given'[x.id].kind = "dir"}
  <2>1. CASE o.kind = "dir"
    <3>1. new = old \cup {header}
      BY <1>5, <2>1
    <3>2. {l.id : l \in old \cup {header}} = {l.id : l \in old} \cup {Id}
      BY header.id = Id
    <3>3. QED
      BY <1>2, <2>1, <3>1, <3>2 DEF EntriesInv, CompleteIds
  <2>2. CASE o.kind # "dir"
    <3>1. new = old
      BY <1>5, <2>2
    <3>2. QED
      BY <1>2, <2>2, <3>1 DEF EntriesInv, CompleteIds
  <2>3. QED
    BY <2>1, <2>2
<1>7. \A k \in 1..Len(files) : files[k].id < Id
  BY <1>1 DEF EntriesInv, Listed
<1>8. sink' = count' /\ sink' = sink + HeaderBytes(o) /\ sink = count
  BY DEF PutLocalHeader, Accept, EntriesInv
<1>9. \E l \in locals' : l.id = Id /\ l.at = count /\ sink' = l.at + l.len
  <2>1. header \in locals' /\ header.id = Id /\ header.at = count
        /\ sink' = header.at + header.len
    BY <1>2, <1>8
  <2>2. QED
    BY <2>1
<1>10. QED
  BY <1>1, <1>3, <1>4, <1>6, <1>7, <1>8, <1>9

LEMMA EntriesStartFile ==
  ASSUME TypeOK, TypeOK', EntriesInv, NEW o \in Call, StartFile(o)
  PROVE  EntriesInv'
<1>1. /\ mode = "idle" /\ o.kind = "file" /\ PutLocalHeader(o)
      /\ entry' = Started(o) /\ mode' = "writing" /\ UNCHANGED files
  BY DEF StartFile, Idle
<1>2. /\ entry'.id = Id /\ entry'.local_header_offset = count
      /\ entry'.compressed_bytes = 0 /\ entry'.uncompressed_bytes = 0
      /\ entry'.crc = 0
  BY <1>1 DEF Started, NoEntry
<1>3. /\ FileHeader(entry').id = Id /\ FileHeader(entry').compressed_size = 0
      /\ FileHeader(entry').uncompressed_size = 0 /\ FileHeader(entry').crc = 0
  BY <1>2 DEF FileHeader
<1>4. Id = Len(given') /\ given'[Id] = o /\ Id >= 1
  BY <1>1, EntriesHeader DEF TypeOK
<1>5. PICK l \in locals' : l.id = Id /\ l.at = count /\ sink' = l.at + l.len
  BY <1>1, EntriesHeader
<1>6. sink' = (l.at + l.len) + 0
  BY <1>5 DEF TypeOK
<1>7. Accounted(FileHeader(entry'), given')
  BY <1>3 DEF Accounted
<1>8. OpenAt(entry', locals', given', sink')
  BY <1>1, <1>2, <1>4, <1>5, <1>6, <1>7 DEF OpenAt
<1>9. \A k \in 1..Len(files') : files'[k].id < entry'.id
  BY <1>1, <1>2, EntriesHeader
<1>10. ListedIds(files') = CompleteIds(locals', descs', given')
  BY <1>1, EntriesHeader
<1>11. /\ sink' = count'
       /\ \A k \in 1..Len(files') : Listed(files'[k], locals', descs', given')
       /\ Known(locals', given') /\ Known(descs', given')
       /\ Ascending(files')
  BY <1>1, EntriesHeader DEF EntriesInv
<1>12. QED
  BY <1>8, <1>9, <1>10, <1>11 DEF EntriesInv

LEMMA EntriesCreateDir ==
  ASSUME TypeOK, TypeOK', EntriesInv, NEW o \in Call, CreateDir(o)
  PROVE  EntriesInv'
<1> DEFINE f == FileHeader(Started(o))
<1>1. /\ mode = "idle" /\ o.kind = "dir" /\ PutLocalHeader(o)
      /\ files' = Append(files, f) /\ UNCHANGED mode
  BY DEF CreateDir, Idle
<1>2. f \in FileState /\ files \in Seq(FileState)
  BY StartedType DEF TypeOK
<1>3. f.id = Id /\ f.local_header_offset = count
  BY DEF FileHeader, Started, NoEntry
<1>4. Id = Len(given') /\ given'[Id] = o /\ Id \in 1..Len(given')
  BY <1>1, EntriesHeader DEF TypeOK
<1>5. PICK l \in locals' : l.id = Id /\ l.at = count
  BY <1>1, EntriesHeader
<1>6. Listed(f, locals', descs', given')
  BY <1>1, <1>3, <1>4, <1>5 DEF Listed, CanRead, Accounted
<1>7. \A k \in 1..Len(files') : Listed(files'[k], locals', descs', given')
  <2>1. 1..Len(files') = 1..Len(files) \cup {Len(files) + 1}
    BY <1>1, <1>2, NextFile
  <2>2. QED
    BY <1>1, <1>2, <1>6, <2>1, NextFile, EntriesHeader
<1>8. ListedIds(files') = CompleteIds(locals', descs', given')
  BY <1>1, <1>2, <1>3, NextFile, EntriesHeader
<1>9. Ascending(files')
  BY <1>1, <1>2, <1>3, NextFile, EntriesHeader DEF EntriesInv
<1>10. sink' = count' /\ Known(locals', given') /\ Known(descs', given')
  BY <1>1, EntriesHeader
<1>11. QED
  BY <1>1, <1>7, <1>8, <1>9, <1>10 DEF EntriesInv, EntryOpen

\* A step that touches no record and leaves no entry open.
LEMMA EntriesClose ==
  ASSUME EntriesInv, sink' = count', ~EntryOpen',
         UNCHANGED <<files, locals, descs, given>>
  PROVE  EntriesInv'
BY DEF EntriesInv

\* Bytes of the open entry go to the sink: e from m bytes of data.
LEMMA EntriesData ==
  ASSUME TypeOK, EntriesInv, EntryOpen, NEW e \in Nat, NEW m \in Nat,
         Accept(e), Options.stored => e = m,
         entry'.id = entry.id,
         entry'.local_header_offset = entry.local_header_offset,
         entry'.compressed_bytes = entry.compressed_bytes + e,
         entry'.uncompressed_bytes = entry.uncompressed_bytes + m,
         entry'.crc = IF Options.calculate THEN entry.crc + m ELSE entry.crc,
         UNCHANGED <<files, locals, descs, given>>
  PROVE  EntriesInv'
<1>1. /\ sink \in Nat /\ locals \subseteq Placed
      /\ entry.compressed_bytes \in Nat /\ entry.uncompressed_bytes \in Nat
      /\ sink' = sink + e
  BY DEF TypeOK, EntryState, Accept
<1>2. sink' = count'
  BY SinkCounted DEF EntriesInv
<1>3. PICK l \in locals : /\ l.id = entry.id
                          /\ l.at = entry.local_header_offset
                          /\ sink = l.at + l.len + entry.compressed_bytes
  BY DEF EntriesInv, OpenAt
<1>4. sink' = l.at + l.len + entry'.compressed_bytes
  <2>1. l.at \in Nat /\ l.len \in Nat
    BY <1>1, <1>3 DEF Placed
  <2>2. QED
    BY <1>1, <1>3, <2>1
<1>5. Accounted(FileHeader(entry'), given)
  <2>1. Accounted(FileHeader(entry), given) /\ given[entry.id].kind = "file"
    BY DEF EntriesInv, OpenAt
  <2>2. entry.crc = IF Options.calculate THEN entry.uncompressed_bytes ELSE 0
    BY <2>1 DEF Accounted, FileHeader, Options
  <2>3. Options.stored => entry.compressed_bytes = entry.uncompressed_bytes
    BY <2>1 DEF Accounted, FileHeader, Options
  <2>4. entry'.crc = IF Options.calculate THEN entry'.uncompressed_bytes ELSE 0
    BY <2>2
  <2>5. Options.stored => entry'.compressed_bytes = entry'.uncompressed_bytes
    BY <2>3
  <2>6. QED
    BY <2>4, <2>5 DEF Accounted, FileHeader, Options
<1>6. OpenAt(entry', locals', given', sink')
  BY <1>3, <1>4, <1>5 DEF EntriesInv, OpenAt
<1>7. QED
  BY <1>2, <1>6 DEF EntriesInv

\* The descriptor goes to the sink and the entry to the list.
LEMMA EntriesFinishEntry ==
  ASSUME TypeOK, TypeOK', EntriesInv, FinishEntry
  PROVE  EntriesInv'
<1> DEFINE f == FileHeader(entry)
           n == DescriptorSize(WideEntry)
           desc == [id |-> entry.id, at |-> sink, len |-> n]
<1>1. /\ EntryOpen /\ ~EntryOpen' /\ Accept(n)
      /\ descs' = descs \cup {desc} /\ files' = Append(files, f)
      /\ UNCHANGED <<locals, given>>
  BY DEF FinishEntry, EntryOpen
<1>2. f \in FileState /\ files \in Seq(FileState) /\ given \in Seq(Call)
  BY DEF TypeOK, FileHeader, FileState, EntryState
<1>3. /\ OpenAt(entry, locals, given, sink)
      /\ \A k \in 1..Len(files) : files[k].id < entry.id
  BY <1>1 DEF EntriesInv
<1>4. entry.id \in 1..Len(given)
  BY <1>2, <1>3 DEF OpenAt
<1>5. Listed(f, locals, descs', given)
  <2>1. PICK l \in locals : /\ l.id = entry.id
                            /\ l.at = entry.local_header_offset
                            /\ sink = l.at + l.len + entry.compressed_bytes
    BY <1>3 DEF OpenAt
  <2>2. /\ desc \in descs' /\ desc.id = f.id
        /\ desc.at = l.at + l.len + f.compressed_size
    BY <1>1, <2>1 DEF FileHeader
  <2>3. CanRead(f, locals, descs', given)
    BY <2>1, <2>2 DEF CanRead, FileHeader
  <2>4. QED
    BY <1>3, <1>4, <2>3 DEF Listed, OpenAt, FileHeader
<1>6. \A k \in 1..Len(files) : Listed(files[k], locals, descs', given)
  BY <1>1, <1>2, StillListed DEF EntriesInv
<1>7. \A k \in 1..Len(files') : Listed(files'[k], locals', descs', given')
  <2>1. 1..Len(files') = 1..Len(files) \cup {Len(files) + 1}
    BY <1>1, <1>2, NextFile
  <2>2. QED
    <3>1. files'[Len(files) + 1] = f /\ \A k \in 1..Len(files) : files'[k] = files[k]
      BY <1>1, <1>2, NextFile
    <3>2. descs' = descs \cup {desc} /\ locals' = locals /\ given' = given
      BY <1>1
    <3>3. \A k \in 1..Len(files) : Listed(files'[k], locals', descs', given')
      BY <1>6, <3>1, <3>2
    <3>4. Listed(files'[Len(files) + 1], locals', descs', given')
      BY <1>5, <3>1, <3>2
    <3>5. QED
      BY <2>1, <3>3, <3>4
<1>8. Known(locals', given') /\ Known(descs', given')
  BY <1>1, <1>4 DEF EntriesInv, Known
<1>9. ListedIds(files') = CompleteIds(locals', descs', given')
  <2>1. f.id = entry.id
    BY DEF FileHeader
  <2>2. ListedIds(files') = ListedIds(files) \cup {entry.id}
    BY <1>1, <1>2, <2>1, NextFile
  <2>3. CompleteIds(locals', descs', given') =
          CompleteIds(locals, descs, given) \cup {entry.id}
    <3>1. {d.id : d \in descs \cup {desc}} = {d.id : d \in descs} \cup {entry.id}
      BY desc.id = entry.id
    <3>2. QED
      BY <1>1, <3>1 DEF CompleteIds
  <2>4. QED
    BY <2>2, <2>3 DEF EntriesInv
<1>10. Ascending(files')
  <2>1. f.id = entry.id
    BY DEF FileHeader
  <2>2. QED
    BY <1>1, <1>2, <1>3, <2>1, NextFile DEF EntriesInv
<1>11. sink' = count'
  <2>1. n \in Int
    BY FormatAssumption DEF DescriptorSize
  <2>2. QED
    BY <1>1, <2>1, SinkCounted DEF EntriesInv
<1>12. QED
  BY <1>1, <1>7, <1>8, <1>9, <1>10, <1>11 DEF EntriesInv

\* finish() adds only the zip64 field to the files of the list.
LEMMA EntriesBeginFinish ==
  ASSUME TypeOK, EntriesInv, BeginFinish
  PROVE  EntriesInv'
<1>1. /\ files \in Seq(FileState)
      /\ files' = [k \in 1..Len(files) |-> Finalized(files[k])]
      /\ UNCHANGED <<locals, descs, given, sink, count>> /\ ~EntryOpen'
  BY DEF BeginFinish, TypeOK, EntryOpen, sinkVars, recordVars
<1>2. /\ Len(files') = Len(files)
      /\ \A k \in 1..Len(files) : files'[k] = Finalized(files[k])
  BY <1>1
<1>3. \A f \in FileState :
        /\ Finalized(f).id = f.id
        /\ Finalized(f).local_header_offset = f.local_header_offset
        /\ Finalized(f).compressed_size = f.compressed_size
        /\ Finalized(f).uncompressed_size = f.uncompressed_size
        /\ Finalized(f).crc = f.crc
  BY DEF Finalized, FileState
<1>4. \A k \in 1..Len(files) : files[k] \in FileState
  BY <1>1, ElementOfSeq
<1>5. ASSUME NEW k \in 1..Len(files)
      PROVE  Listed(files'[k], locals, descs, given)
  <2>1. Listed(files[k], locals, descs, given)
    BY DEF EntriesInv
  <2>2. QED
    BY <1>2, <1>3, <1>4, <2>1 DEF Listed, CanRead, Accounted
<1>6. \A k \in 1..Len(files) : files'[k].id = files[k].id
  BY <1>2, <1>3, <1>4
<1>7. ListedIds(files') = ListedIds(files) /\ Ascending(files')
  BY <1>2, <1>6 DEF EntriesInv, ListedIds, Ascending
<1>8. QED
  BY <1>1, <1>2, <1>5, <1>7 DEF EntriesInv

\* The calls that may be made while no entry is open.
LEMMA EntriesCreate ==
  ASSUME TypeOK, TypeOK', EntriesInv, Create
  PROVE  EntriesInv'
<1>1. PICK o \in Call :
        RejectPath(o) \/ StartFails(o) \/ StartFile(o) \/ CreateDir(o)
  BY WriterAssumption DEF Create
<1>2. CASE RejectPath(o)
  <2>1. sink' = count'
    BY <1>2 DEF RejectPath, sinkVars, EntriesInv
  <2>2. QED
    BY <1>2, <2>1, EntriesCall DEF RejectPath, Idle, archiveVars, recordVars
<1>3. CASE StartFails(o)
  <2>1. HeaderBytes(o) \in Int
    BY StartedType
  <2>2. sink' = count'
    BY <1>3, <2>1, SinkCounted DEF StartFails, EntriesInv
  <2>3. QED
    BY <1>3, <2>2, EntriesCall DEF StartFails, Idle, recordVars
<1>4. QED
  BY <1>1, <1>2, <1>3, EntriesStartFile, EntriesCreateDir

\* The steps of an open entry.
LEMMA EntriesEntryStep ==
  ASSUME TypeOK, TypeOK', EntriesInv, EntryStep
  PROVE  EntriesInv'
<1>0. /\ Chunks \subseteq Nat /\ Chunks \cup {0} \subseteq Nat
      /\ entry \in EntryState /\ DescriptorSize(WideEntry) \in Int
  BY WriterAssumption, FormatAssumption DEF TypeOK, DescriptorSize
<1>1. ASSUME NEW n \in Chunks, NEW m \in Chunks \cup {0},
             NEW e \in Chunks \cup {0}, Write(n, m, e)
      PROVE  EntriesInv'
  <2>1. /\ entry'.id = entry.id
        /\ entry'.local_header_offset = entry.local_header_offset
        /\ entry'.compressed_bytes = entry.compressed_bytes + e
        /\ entry'.uncompressed_bytes = entry.uncompressed_bytes + m
        /\ entry'.crc = IF Options.calculate THEN entry.crc + m ELSE entry.crc
    BY <1>0, <1>1 DEF Write, CrcBytes, EntryState
  <2>2. /\ EntryOpen /\ Accept(e) /\ (Options.stored => e = m)
        /\ UNCHANGED <<files, locals, descs, given>>
    BY <1>1 DEF Write, Emit, EntryOpen, UnchangedByData, archiveVars, recordVars
  <2>3. QED
    BY <1>0, <2>1, <2>2, EntriesData
<1>2. ASSUME NEW e \in Chunks \cup {0},
             Emit(e), UnchangedByData, EntryOpen, Options.stored => e = 0,
             entry' = [entry EXCEPT !.compressed_bytes = @ + e]
      PROVE  EntriesInv'
  <2>1. /\ entry'.id = entry.id
        /\ entry'.local_header_offset = entry.local_header_offset
        /\ entry'.compressed_bytes = entry.compressed_bytes + e
        /\ entry'.uncompressed_bytes = entry.uncompressed_bytes + 0
        /\ entry'.crc = IF Options.calculate THEN entry.crc + 0 ELSE entry.crc
    BY <1>0, <1>2 DEF EntryState
  <2>2. /\ Accept(e) /\ UNCHANGED <<files, locals, descs, given>>
    BY <1>2 DEF Emit, UnchangedByData, archiveVars, recordVars
  <2>3. QED
    BY <1>0, <1>2, <2>1, <2>2, EntriesData
<1>3. ASSUME NEW e \in Chunks \cup {0}, NEW ok \in BOOLEAN, FinishData(e, ok)
      PROVE  EntriesInv'
  BY <1>2, <1>3 DEF FinishData, EntryOpen
<1>4. ASSUME NEW e \in Chunks, Epilogue(e)
      PROVE  EntriesInv'
  BY <1>2, <1>4 DEF Epilogue, EntryOpen
<1>5. CASE FinishEntryFails
  <2>1. sink' = count'
    BY <1>0, <1>5, SinkCounted DEF FinishEntryFails, EntriesInv
  <2>2. QED
    BY <1>5, <2>1, EntriesClose
       DEF FinishEntryFails, EntryOpen, archiveVars, recordVars
<1>6. CASE DropEntry
  <2>1. sink' = count'
    BY <1>6 DEF DropEntry, sinkVars, EntriesInv
  <2>2. QED
    BY <1>6, <2>1, EntriesClose DEF DropEntry, EntryOpen, archiveVars, recordVars
<1>7. QED
  BY <1>1, <1>3, <1>4, <1>5, <1>6, EntriesFinishEntry DEF EntryStep

\* The steps of finish() behind its checks touch no entry.
LEMMA EntriesFinishStep ==
  ASSUME TypeOK, EntriesInv, FinishStep
  PROVE  EntriesInv'
<1>1. /\ ~EntryOpen' /\ UNCHANGED <<files, locals, descs, given>>
  BY DEF FinishStep, WriteCentral, WriteTail, FinishFails, EntryOpen,
         archiveVars, recordVars
<1>2. sink' = count'
  BY DEF FinishStep, WriteCentral, WriteTail, FinishFails, Accept, Refuse,
         EntriesInv
<1>3. QED
  BY <1>1, <1>2, EntriesClose

(***************************************************************************)
(* The invariant holds.                                                    *)
(***************************************************************************)
THEOREM EntriesAlways == Spec => []EntriesInv
<1>1. Init => EntriesInv
  BY DEF Init, EntriesInv, EntryOpen, Known, ListedIds, CompleteIds, Ascending
<1>2. TypeOK /\ TypeOK' /\ EntriesInv /\ [Next]_vars => EntriesInv'
  <2> SUFFICES ASSUME TypeOK, TypeOK', EntriesInv, [Next]_vars
               PROVE  EntriesInv'
    OBVIOUS
  <2>1. ASSUME NEW n \in ArchiveComments, SetComment(n)
        PROVE  EntriesInv'
    BY <2>1, EntriesClose
       DEF SetComment, EntryOpen, sinkVars, recordVars, EntriesInv
  <2>2. CASE FinishRefused
    BY <2>2, EntriesClose
       DEF FinishRefused, EntryOpen, archiveVars, sinkVars, recordVars, EntriesInv
  <2>3. CASE UNCHANGED vars
    BY <2>3 DEF vars, archiveVars, sinkVars, recordVars, EntriesInv, EntryOpen
  <2>4. QED
    BY <2>1, <2>2, <2>3, EntriesCreate, EntriesEntryStep, EntriesBeginFinish,
       EntriesFinishStep DEF Next
<1>3. QED
  BY <1>1, <1>2, TypeCorrect, PTL DEF Spec

(***************************************************************************)
(* What is listed can be found and delimited, whatever was refused,        *)
(* shortened or abandoned before.                                          *)
(***************************************************************************)
THEOREM ListedCanBeRead == Spec => []EntriesReadable
BY EntriesAlways, EntriesShow, PTL

(***************************************************************************)
(* An entry is listed exactly when it is complete in the sink.             *)
(***************************************************************************)
THEOREM ListedWhenComplete == Spec => []ListedIffComplete
BY EntriesAlways, EntriesShow, PTL

(***************************************************************************)
(* The sizes and the CRC of an entry describe the same bytes.              *)
(***************************************************************************)
THEOREM SizesAgree == Spec => []DataAccounted
BY EntriesAlways, EntriesShow, PTL

-----------------------------------------------------------------------------
(* Names and comments, for every number and length of them.  A sum over    *)
(* the texts before an entry would need induction; that there are          *)
(* positions at which they begin does not, as each step shows the          *)
(* positions after it from those before it.                                *)

(***************************************************************************)
(* A piece of text: the call it belongs to and its length.  Those of the   *)
(* listed files, and that of the open entry (of length 0 if none is open). *)
(***************************************************************************)
Piece == [id : Nat, len : Nat]

NameOf(f) == [id |-> f.id, len |-> f.name_len]
CommentOf(f) == [id |-> f.id, len |-> f.comment_len]

NamesOf(fs) == [k \in 1..Len(fs) |-> NameOf(fs[k])]
CommentsOf(fs) == [k \in 1..Len(fs) |-> CommentOf(fs[k])]

(***************************************************************************)
(* The pieces ps begin at the positions at, each where the one before it   *)
(* ends; the last position is the end of the last piece.                   *)
(***************************************************************************)
Starts(at, ps) ==
  /\ at \in [1..(Len(ps) + 1) -> Nat] /\ at[1] = 0
  /\ \A k \in 1..Len(ps) : /\ at[k + 1] = at[k] + ps[k].len
                           /\ at[k + 1] <= at[Len(ps) + 1]

\* Of the calls before call id, those with bytes in the buffer are among the
\* pieces ps: OnlyListedBefore, of pieces.
AllListed(buffer, ps, id) ==
  \A i \in 1..Len(buffer) :
    buffer[i] < id => \E j \in 1..Len(ps) : ps[j].id = buffer[i]

\* The bytes of piece p stand in the buffer behind position from.
Own(buffer, from, p) == \A i \in 1..p.len : buffer[from + i] = p.id

(***************************************************************************)
(* The buffer has room for the pieces ps and behind them for the piece e   *)
(* of a later call; and a piece that nothing was left behind before stands *)
(* where it is looked for, e at the end of the buffer.                     *)
(***************************************************************************)
Holds(buffer, at, ps, e) ==
  LET end == at[Len(ps) + 1]
  IN  /\ Starts(at, ps)
      /\ end + e.len <= Len(buffer)
      /\ \A k \in 1..Len(ps) :
           /\ ps[k].id < e.id
           /\ AllListed(buffer, ps, ps[k].id) => Own(buffer, at[k], ps[k])
      /\ AllListed(buffer, ps, e.id) =>
           /\ Len(buffer) = end + e.len
           /\ Own(buffer, end, e)

\* Positions are natural numbers, the end among them.
LEMMA StartsNat ==
  ASSUME NEW at, NEW ps \in Seq(Piece), Starts(at, ps)
  PROVE  /\ Len(ps) \in Nat /\ at[Len(ps) + 1] \in Nat
         /\ \A k \in 1..(Len(ps) + 1) : at[k] \in Nat
<1>1. Len(ps) \in Nat /\ Len(ps) + 1 \in 1..(Len(ps) + 1)
  OBVIOUS
<1>2. \A k \in 1..(Len(ps) + 1) : at[k] \in Nat
  BY DEF Starts
<1>3. QED
  BY <1>1, <1>2

\* A piece is appended to the buffer.
LEMMA PieceAppended ==
  ASSUME NEW buffer \in Seq(Nat), NEW at, NEW ps \in Seq(Piece),
         NEW none \in Piece, none.len = 0, NEW e \in Piece, e.id = none.id,
         Holds(buffer, at, ps, none)
  PROVE  Holds(buffer \o Bytes(e.id, e.len), at, ps, e)
<1> DEFINE more == buffer \o Bytes(e.id, e.len)
           end == at[Len(ps) + 1]
<1>1. e.id \in Nat /\ e.len \in Nat
  BY DEF Piece
<1>2. Starts(at, ps) /\ end \in Nat /\ end <= Len(buffer)
  BY StartsNat DEF Holds
<1>3. Bytes(e.id, e.len) \in Seq(Nat) /\ Len(Bytes(e.id, e.len)) = e.len
  BY <1>1, BytesType
<1>4. /\ Len(more) = Len(buffer) + e.len
      /\ \A i \in 1..Len(buffer) : more[i] = buffer[i]
      /\ \A i \in 1..e.len : more[Len(buffer) + i] = e.id
  BY <1>1, <1>3, ConcatProperties DEF Bytes
<1> HIDE DEF more
<1>5. end + e.len <= Len(more)
  BY <1>1, <1>2, <1>4
<1>6. ASSUME NEW id, AllListed(more, ps, id)
      PROVE  AllListed(buffer, ps, id)
  <2>1. \A i \in 1..Len(buffer) : i \in 1..Len(more)
    BY <1>1, <1>4
  <2>2. QED
    BY <1>4, <1>6, <2>1 DEF AllListed
<1>7. ASSUME NEW k \in 1..Len(ps)
      PROVE  /\ ps[k].id < e.id
             /\ AllListed(more, ps, ps[k].id) => Own(more, at[k], ps[k])
  <2>1. /\ ps[k].id < e.id
        /\ AllListed(buffer, ps, ps[k].id) => Own(buffer, at[k], ps[k])
    BY DEF Holds
  <2>2. ASSUME Own(buffer, at[k], ps[k])
        PROVE  Own(more, at[k], ps[k])
    <3>1. ps[k] \in Piece /\ k \in 1..(Len(ps) + 1)
      OBVIOUS
    <3>2. ps[k].len \in Nat /\ at[k] \in Nat
      BY <1>2, <3>1, StartsNat DEF Piece
    <3>3. at[k] + ps[k].len <= end
      BY <1>2 DEF Starts
    <3>4. \A i \in 1..ps[k].len : at[k] + i \in 1..Len(buffer)
      BY SMTT(60), <1>2, <3>2, <3>3
    <3>5. QED
      BY <1>4, <2>2, <3>4 DEF Own
  <2>3. QED
    BY <1>6, <2>1, <2>2
<1>8. ASSUME AllListed(more, ps, e.id)
      PROVE  Len(more) = end + e.len /\ Own(more, end, e)
  <2>1. Len(buffer) = end
    BY <1>2, <1>6, <1>8 DEF Holds
  <2>2. QED
    BY <1>4, <2>1 DEF Own
<1>9. QED
  BY <1>2, <1>5, <1>7, <1>8 DEF Holds, more

\* The last piece becomes one of the others.
LEMMA PieceListed ==
  ASSUME NEW buffer \in Seq(Nat), NEW at, NEW ps \in Seq(Piece),
         NEW none \in Piece, none.len = 0, NEW e \in Piece,
         none.id = e.id + 1, Holds(buffer, at, ps, e)
  PROVE  \E to : Holds(buffer, to, Append(ps, e), none)
<1> DEFINE n == Len(ps)
           more == Append(ps, e)
           to == [k \in 1..(n + 2) |-> IF k <= n + 1 THEN at[k]
                                       ELSE at[n + 1] + e.len]
<1>1. /\ n \in Nat /\ Len(more) = n + 1 /\ more[n + 1] = e
      /\ \A k \in 1..n : more[k] = ps[k] /\ ps[k].id \in Nat
      /\ e.len \in Nat /\ e.id \in Nat
  <2>1. \A k \in 1..n : ps[k] \in Piece
    BY ElementOfSeq
  <2>2. QED
    BY <2>1 DEF Piece
<1>2. /\ Starts(at, ps) /\ at \in [1..(n + 1) -> Nat]
      /\ at[n + 1] + e.len <= Len(buffer) /\ at[n + 1] \in Nat
  BY StartsNat DEF Holds, Starts
<1>3. /\ to \in [1..(n + 2) -> Nat]
      /\ \A k \in 1..(n + 1) : to[k] = at[k] /\ at[k] \in Nat
      /\ to[n + 2] = at[n + 1] + e.len
  BY SMTT(60), <1>1, <1>2
<1>4. Starts(to, more)
  <2>1. to[1] = 0
    BY <1>1, <1>2, <1>3 DEF Starts
  <2>2. ASSUME NEW k \in 1..n
        PROVE  to[k + 1] = to[k] + more[k].len /\ to[k + 1] <= to[n + 2]
    <3>1. at[k + 1] = at[k] + ps[k].len /\ at[k + 1] <= at[n + 1]
      BY <1>2 DEF Starts
    <3>2. k \in 1..(n + 1) /\ k + 1 \in 1..(n + 1) /\ n + 1 \in 1..(n + 1)
      BY <1>1
    <3>3. to[k] = at[k] /\ to[k + 1] = at[k + 1] /\ more[k] = ps[k]
      BY <1>1, <1>3, <3>2
    <3>4. at[k + 1] <= to[n + 2]
      BY SMTT(60), <1>1, <1>3, <3>1, <3>2
    <3>5. QED
      BY <3>1, <3>3, <3>4
  <2>3. to[n + 2] = to[n + 1] + more[n + 1].len /\ to[n + 2] <= to[n + 2]
    <3>1. n + 1 \in 1..(n + 1) /\ n + 2 \in 1..(n + 2)
      BY <1>1
    <3>2. to[n + 1] = at[n + 1] /\ to[n + 2] \in Nat
      BY <1>3, <3>1
    <3>3. QED
      BY <1>1, <1>3, <3>2
  <2>4. \A k \in 1..(n + 1) : k \in 1..n \/ k = n + 1
    BY <1>1
  <2>5. n + 1 + 1 = n + 2
    BY <1>1
  <2>6. ASSUME NEW k \in 1..(n + 1)
        PROVE  to[k + 1] = to[k] + more[k].len /\ to[k + 1] <= to[n + 2]
    BY <2>2, <2>3, <2>4, <2>5
  <2>7. QED
    BY <1>1, <1>3, <2>1, <2>5, <2>6 DEF Starts
<1>5. to[Len(more) + 1] = at[n + 1] + e.len
  BY <1>1, <1>3
<1>6. to[n + 1] = at[n + 1] /\ \A k \in 1..n : to[k] = at[k]
  BY <1>1, <1>3
<1> HIDE DEF to, more
<1>7. ASSUME NEW id \in Nat, AllListed(buffer, more, id), id <= e.id + 1
      PROVE  AllListed(buffer, ps, IF id <= e.id THEN id ELSE e.id)
  <2> DEFINE least == IF id <= e.id THEN id ELSE e.id
  <2> SUFFICES ASSUME NEW i \in 1..Len(buffer), buffer[i] < least
               PROVE  \E j \in 1..n : ps[j].id = buffer[i]
    BY DEF AllListed
  <2>0. buffer[i] < id /\ buffer[i] < e.id
    <3>1. buffer[i] \in Nat
      BY ElementOfSeq
    <3>2. QED
      BY <1>1, <1>7, <3>1
  <2> HIDE DEF least
  <2>1. PICK j \in 1..(n + 1) : more[j].id = buffer[i]
    BY <1>1, <1>7, <2>0 DEF AllListed
  <2>2. j # n + 1
    BY <1>1, <2>0, <2>1
  <2>3. j \in 1..n
    BY <1>1, <2>2
  <2>4. QED
    BY <1>1, <2>1, <2>3
<1>8. ASSUME NEW k \in 1..Len(more)
      PROVE  /\ more[k].id < none.id
             /\ AllListed(buffer, more, more[k].id) => Own(buffer, to[k], more[k])
  <2>1. CASE k \in 1..n
    <3>1. /\ ps[k].id < e.id /\ ps[k].id \in Nat /\ more[k] = ps[k]
          /\ AllListed(buffer, ps, ps[k].id) => Own(buffer, at[k], ps[k])
      BY <1>1, <2>1 DEF Holds
    <3>2. ps[k].id <= e.id /\ ps[k].id <= e.id + 1 /\ ps[k].id < none.id
      BY <1>1, <3>1
    <3>3. AllListed(buffer, more, ps[k].id) => AllListed(buffer, ps, ps[k].id)
      BY <1>7, <3>1, <3>2
    <3>4. QED
      BY <1>6, <2>1, <3>1, <3>2, <3>3
  <2>2. CASE k = n + 1
    <3>1. more[k] = e /\ to[k] = at[n + 1] /\ e.id < none.id
      BY <1>1, <1>6, <2>2
    <3>2. AllListed(buffer, ps, e.id) => Own(buffer, at[n + 1], e)
      BY DEF Holds
    <3>3. e.id <= e.id /\ e.id <= e.id + 1
      BY <1>1
    <3>4. AllListed(buffer, more, e.id) => AllListed(buffer, ps, e.id)
      BY <1>1, <1>7, <3>3
    <3>5. QED
      BY <3>1, <3>2, <3>4
  <2>3. QED
    BY <1>1, <2>1, <2>2
<1>9. ASSUME AllListed(buffer, more, none.id)
      PROVE  Len(buffer) = to[Len(more) + 1] + none.len
  <2>1. ~(none.id <= e.id) /\ none.id \in Nat /\ none.id <= e.id + 1
    BY <1>1
  <2>2. AllListed(buffer, ps, e.id)
    BY <1>7, <1>9, <2>1
  <2>3. Len(buffer) = at[n + 1] + e.len
    BY <2>2 DEF Holds
  <2>4. QED
    BY <1>1, <1>2, <1>5, <2>3
<1>10. Own(buffer, to[Len(more) + 1], none)
  BY DEF Own
<1>11. to[Len(more) + 1] + none.len <= Len(buffer)
  BY <1>1, <1>2, <1>5
<1>12. QED
  BY <1>4, <1>8, <1>9, <1>10, <1>11 DEF Holds, more

\* The last piece is left behind: if it is not empty, nothing later is looked
\* for where it stands.
LEMMA PieceLeft ==
  ASSUME NEW buffer \in Seq(Nat), NEW at, NEW ps \in Seq(Piece),
         NEW none \in Piece, none.len = 0, NEW e \in Piece,
         none.id = e.id + 1, Holds(buffer, at, ps, e)
  PROVE  Holds(buffer, at, ps, none)
<1> DEFINE end == at[Len(ps) + 1]
<1>1. end \in Nat /\ e.len \in Nat /\ e.id \in Nat /\ Len(buffer) \in Nat
  BY StartsNat DEF Holds, Piece
<1>2. \A i \in 1..Len(buffer) : buffer[i] \in Nat
  BY ElementOfSeq
<1>3. /\ Starts(at, ps) /\ end + e.len <= Len(buffer)
      /\ \A k \in 1..Len(ps) :
           /\ ps[k].id < e.id
           /\ AllListed(buffer, ps, ps[k].id) => Own(buffer, at[k], ps[k])
      /\ AllListed(buffer, ps, e.id) =>
           Len(buffer) = end + e.len /\ Own(buffer, end, e)
  BY DEF Holds
<1>4. \A k \in 1..Len(ps) : ps[k].id \in Nat
  <2>1. \A k \in 1..Len(ps) : ps[k] \in Piece
    BY ElementOfSeq
  <2>2. QED
    BY <2>1 DEF Piece
<1> HIDE DEF end
<1>5. ASSUME AllListed(buffer, ps, none.id)
      PROVE  Len(buffer) = end
  <2>1. AllListed(buffer, ps, e.id)
    BY <1>1, <1>2, <1>5 DEF AllListed
  <2>2. Len(buffer) = end + e.len /\ Own(buffer, end, e)
    BY <1>3, <2>1
  <2>3. ASSUME e.len # 0
        PROVE  FALSE
    <3>1. 1 \in 1..e.len /\ end + 1 \in 1..Len(buffer)
      BY <1>1, <2>2, <2>3
    <3>2. buffer[end + 1] = e.id /\ e.id < none.id
      BY <1>1, <2>2, <3>1 DEF Own
    <3>3. PICK j \in 1..Len(ps) : ps[j].id = e.id
      BY <1>5, <3>1, <3>2 DEF AllListed
    <3>4. QED
      BY <1>1, <1>3, <3>3
  <2>4. QED
    BY <1>1, <2>2, <2>3
<1>6. \A k \in 1..Len(ps) : ps[k].id < none.id
  BY <1>1, <1>3, <1>4
<1>7. Own(buffer, end, none)
  BY DEF Own
<1>8. end + none.len <= Len(buffer) /\ end + none.len = end
  BY <1>1, <1>3
<1>9. QED
  BY <1>3, <1>5, <1>6, <1>7, <1>8 DEF Holds, end

\* The piece to come: that of the open entry, or while none is open that of
\* the next call, which has no bytes yet.
NextPiece == [id |-> Id, len |-> 0]
NameToCome == IF EntryOpen THEN NameOf(entry) ELSE NextPiece
CommentToCome == IF EntryOpen THEN CommentOf(entry) ELSE NextPiece

(***************************************************************************)
(* The names of the listed files begin at the positions at, their comments *)
(* at the positions to, and finish() is at those of the next file.         *)
(***************************************************************************)
TextsAt(at, to) ==
  /\ Holds(file_names, at, NamesOf(files), NameToCome)
  /\ Holds(file_comments, to, CommentsOf(files), CommentToCome)
  /\ mode = "directory" =>
       /\ dir.k <= Len(files) + 1
       /\ dir.name_offset = at[dir.k] /\ dir.comment_offset = to[dir.k]

\* The lengths kept of a file, or of the open entry, are those of its call.
AsAsked(f, g) ==
  /\ f.id \in 1..Len(g)
  /\ f.name_len = g[f.id].name_len /\ f.comment_len = g[f.id].comment_len

IsSequence(s) == \E S : s \in Seq(S)

Ending == mode \in {"directory", "done", "failed"}

(***************************************************************************)
(* The records of the directory are those of the files before dir.k; there *)
(* are none before finish().                                               *)
(***************************************************************************)
DirectoryGrows ==
  /\ IsSequence(central) /\ Len(central) <= Len(files)
  /\ ~Ending => central = <<>>
  /\ mode = "directory" => Len(central) = dir.k - 1

TextInv ==
  /\ \E at, to : TextsAt(at, to)
  /\ DirectoryGrows
  /\ EntryOpen => AsAsked(entry, given) /\ entry.id = Len(given)
  /\ ~EntryOpen => entry = NoEntry
  /\ \A k \in 1..Len(files) : AsAsked(files[k], given)
  /\ TextsFollowEntries

LEMMA SequenceGrows ==
  ASSUME NEW s, IsSequence(s), NEW e
  PROVE  /\ IsSequence(Append(s, e)) /\ Len(s) \in Nat
         /\ Len(Append(s, e)) = Len(s) + 1
         /\ Append(s, e)[Len(s) + 1] = e
         /\ \A k \in 1..Len(s) : Append(s, e)[k] = s[k]
<1>1. PICK S : s \in Seq(S)
  BY DEF IsSequence
<1>2. s \in Seq(S \cup {e}) /\ e \in S \cup {e}
  BY <1>1, SeqMonotonic
<1>3. QED
  BY <1>2, AppendProperties, LenProperties DEF IsSequence

LEMMA PiecesType ==
  ASSUME NEW fs \in Seq(FileState)
  PROVE  /\ NamesOf(fs) \in Seq(Piece) /\ CommentsOf(fs) \in Seq(Piece)
         /\ Len(NamesOf(fs)) = Len(fs) /\ Len(CommentsOf(fs)) = Len(fs)
         /\ \A k \in 1..Len(fs) : /\ NamesOf(fs)[k] = NameOf(fs[k])
                                  /\ CommentsOf(fs)[k] = CommentOf(fs[k])
<1>1. \A k \in 1..Len(fs) : NameOf(fs[k]) \in Piece /\ CommentOf(fs[k]) \in Piece
  <2>1. \A f \in FileState : NameOf(f) \in Piece /\ CommentOf(f) \in Piece
    BY DEF FileState, Piece, NameOf, CommentOf
  <2>2. QED
    BY <2>1, ElementOfSeq
<1>2. Len(fs) \in Nat
  OBVIOUS
<1>3. NamesOf(fs) \in Seq(Piece) /\ CommentsOf(fs) \in Seq(Piece)
  BY <1>1, <1>2 DEF NamesOf, CommentsOf
<1>4. QED
  BY <1>2, <1>3 DEF NamesOf, CommentsOf

LEMMA PiecesOfNext ==
  ASSUME NEW fs \in Seq(FileState), NEW f \in FileState
  PROVE  /\ NamesOf(Append(fs, f)) = Append(NamesOf(fs), NameOf(f))
         /\ CommentsOf(Append(fs, f)) = Append(CommentsOf(fs), CommentOf(f))
<1>1. /\ Append(fs, f) \in Seq(FileState) /\ Len(Append(fs, f)) = Len(fs) + 1
      /\ Append(fs, f)[Len(fs) + 1] = f
      /\ \A k \in 1..Len(fs) : Append(fs, f)[k] = fs[k]
  BY AppendProperties
<1>2. NameOf(f) \in Piece /\ CommentOf(f) \in Piece
  BY DEF FileState, Piece, NameOf, CommentOf
<1>3. \A k \in 1..Len(Append(fs, f)) : k \in 1..Len(fs) \/ k = Len(fs) + 1
  BY <1>1
<1> DEFINE fs2 == Append(fs, f)
           ns == Append(NamesOf(fs), NameOf(f))
           cs == Append(CommentsOf(fs), CommentOf(f))
<1>4. /\ NamesOf(fs2) \in Seq(Piece) /\ Len(NamesOf(fs2)) = Len(fs2)
      /\ CommentsOf(fs2) \in Seq(Piece) /\ Len(CommentsOf(fs2)) = Len(fs2)
      /\ \A k \in 1..Len(fs2) : /\ NamesOf(fs2)[k] = NameOf(fs2[k])
                                /\ CommentsOf(fs2)[k] = CommentOf(fs2[k])
  BY <1>1, PiecesType
<1>5. /\ ns \in Seq(Piece) /\ Len(ns) = Len(fs) + 1
      /\ ns[Len(fs) + 1] = NameOf(f)
      /\ \A k \in 1..Len(fs) : ns[k] = NameOf(fs[k])
  BY <1>2, PiecesType, AppendProperties
<1>6. /\ cs \in Seq(Piece) /\ Len(cs) = Len(fs) + 1
      /\ cs[Len(fs) + 1] = CommentOf(f)
      /\ \A k \in 1..Len(fs) : cs[k] = CommentOf(fs[k])
  BY <1>2, PiecesType, AppendProperties
<1> HIDE DEF fs2, ns, cs
<1>7. ASSUME NEW k \in 1..Len(fs2)
      PROVE  NamesOf(fs2)[k] = ns[k] /\ CommentsOf(fs2)[k] = cs[k]
  <2>1. CASE k \in 1..Len(fs)
    BY <1>1, <1>4, <1>5, <1>6, <2>1 DEF fs2
  <2>2. CASE k = Len(fs) + 1
    BY <1>1, <1>4, <1>5, <1>6, <2>2 DEF fs2
  <2>3. QED
    BY <1>3, <2>1, <2>2 DEF fs2
<1>8. Len(fs2) = Len(fs) + 1
  BY <1>1 DEF fs2
<1>9. NamesOf(fs2) = ns
  BY <1>4, <1>5, <1>7, <1>8, SeqEqual
<1>10. CommentsOf(fs2) = cs
  BY <1>4, <1>6, <1>7, <1>8, SeqEqual
<1>11. QED
  BY <1>9, <1>10 DEF fs2, ns, cs

LEMMA StillAsAsked ==
  ASSUME NEW f, NEW g \in Seq(Call), NEW o \in Call, AsAsked(f, g)
  PROVE  AsAsked(f, Append(g, o))
BY NextCall DEF AsAsked

\* While no entry is open, the piece to come is empty.
LEMMA NothingOpen ==
  ASSUME TypeOK, ~EntryOpen
  PROVE  /\ NextPiece \in Piece /\ NextPiece.len = 0 /\ NextPiece.id = Id
         /\ NameToCome = NextPiece /\ CommentToCome = NextPiece
<1>1. Id \in Nat
  BY DEF Id, TypeOK
<1>2. QED
  BY <1>1 DEF NextPiece, Piece, NameToCome, CommentToCome

\* After a call, the piece to come is that of the call behind it.
LEMMA ComesNext ==
  ASSUME TypeOK, NEW o \in Call, given' = Append(given, o), ~EntryOpen'
  PROVE  /\ NextPiece' \in Piece /\ NextPiece'.len = 0 /\ NextPiece'.id = Id + 1
         /\ NameToCome' = NextPiece' /\ CommentToCome' = NextPiece'
<1>1. Id \in Nat /\ Id' = Id + 1
  BY StartedType, NextCall DEF Id, TypeOK
<1>2. QED
  BY <1>1 DEF NextPiece, Piece, NameToCome, CommentToCome

\* A call keeps its name and comment.
LEMMA TextKeeps ==
  ASSUME TypeOK, TextInv, mode = "idle", NEW o \in Call, KeepText(o)
  PROVE  \E at, to :
           /\ Holds(file_names', at, NamesOf(files),
                    [id |-> Id, len |-> o.name_len])
           /\ Holds(file_comments', to, CommentsOf(files),
                    [id |-> Id, len |-> o.comment_len])
<1> DEFINE n == [id |-> Id, len |-> o.name_len]
           c == [id |-> Id, len |-> o.comment_len]
<1>1. /\ files \in Seq(FileState) /\ file_names \in Seq(Nat)
      /\ file_comments \in Seq(Nat)
      /\ n \in Piece /\ c \in Piece /\ n.id = Id /\ c.id = Id
  BY StartedType DEF TypeOK, Call, Piece
<1>2. ~EntryOpen
  BY DEF EntryOpen
<1>3. PICK at, to :
        /\ Holds(file_names, at, NamesOf(files), NextPiece)
        /\ Holds(file_comments, to, CommentsOf(files), NextPiece)
  BY <1>2, NothingOpen DEF TextInv, TextsAt
<1>4. /\ file_names' = file_names \o Bytes(n.id, n.len)
      /\ file_comments' = file_comments \o Bytes(c.id, c.len)
  BY DEF KeepText
<1>5. NamesOf(files) \in Seq(Piece) /\ CommentsOf(files) \in Seq(Piece)
  BY <1>1, PiecesType
<1>6. NextPiece \in Piece /\ NextPiece.len = 0 /\ NextPiece.id = Id
  BY <1>2, NothingOpen
<1> HIDE DEF n, c
<1>7. Holds(file_names', at, NamesOf(files), n)
  BY <1>1, <1>3, <1>4, <1>5, <1>6, PieceAppended
<1>8. Holds(file_comments', to, CommentsOf(files), c)
  BY <1>1, <1>3, <1>4, <1>5, <1>6, PieceAppended
<1>9. QED
  BY <1>7, <1>8 DEF n, c

\* What a call leaves as it was: the directory has not begun.
LEMMA TextCalled ==
  ASSUME TypeOK, TextInv, mode = "idle", NEW o \in Call, given' = Append(given, o)
  PROVE  /\ \A k \in 1..Len(files) : AsAsked(files[k], given')
         /\ central = <<>> /\ Len(central) = 0 /\ IsSequence(central)
         /\ Id \in 1..Len(given') /\ given'[Id] = o
<1>1. given \in Seq(Call)
  BY DEF TypeOK
<1>2. \A k \in 1..Len(files) : AsAsked(files[k], given')
  BY <1>1, StillAsAsked DEF TextInv
<1>3. Id \in 1..Len(given') /\ given'[Id] = o
  BY <1>1, NextCall DEF Id
<1>4. central = <<>> /\ Len(central) = 0 /\ IsSequence(central)
  BY DEF TextInv, DirectoryGrows, Ending
<1>5. QED
  BY <1>2, <1>3, <1>4

\* The records of the directory keep their texts while nothing is added.
LEMMA RecordsStay ==
  ASSUME TextsFollowEntries,
         UNCHANGED <<files, file_names, file_comments, central, given>>
  PROVE  TextsFollowEntries'
BY DEF TextsFollowEntries, OnlyListedBefore, OwnName, OwnComment, Bytes

LEMMA TextStartFile ==
  ASSUME TypeOK, TextInv, NEW o \in Call, StartFile(o)
  PROVE  TextInv'
<1>1. /\ mode = "idle" /\ KeepText(o) /\ given' = Append(given, o)
      /\ entry' = Started(o) /\ mode' = "writing"
      /\ UNCHANGED <<files, central>>
  BY DEF StartFile, Idle, PutLocalHeader
<1>2. /\ entry'.id = Id /\ entry'.name_len = o.name_len
      /\ entry'.comment_len = o.comment_len
  BY <1>1 DEF Started, NoEntry
<1>3. /\ NameToCome' = [id |-> Id, len |-> o.name_len]
      /\ CommentToCome' = [id |-> Id, len |-> o.comment_len]
  BY <1>1, <1>2 DEF NameOf, CommentOf, NameToCome, CommentToCome, EntryOpen
<1>4. \E at, to : TextsAt(at, to)'
  BY <1>1, <1>3, TextKeeps DEF TextsAt
<1>5. AsAsked(entry', given')
  BY <1>1, <1>2, TextCalled DEF AsAsked
<1>6. entry'.id = Len(given')
  BY <1>1, <1>2, NextCall DEF Id, TypeOK
<1>7. DirectoryGrows' /\ TextsFollowEntries'
  BY <1>1, TextCalled DEF DirectoryGrows, TextsFollowEntries, TextInv, Ending
<1>8. QED
  BY <1>1, <1>4, <1>5, <1>6, <1>7, TextCalled DEF TextInv, EntryOpen

LEMMA TextCreateDir ==
  ASSUME TypeOK, TypeOK', TextInv, NEW o \in Call, CreateDir(o)
  PROVE  TextInv'
<1> DEFINE f == FileHeader(Started(o))
<1>1. /\ mode = "idle" /\ KeepText(o) /\ given' = Append(given, o)
      /\ files' = Append(files, f)
      /\ UNCHANGED <<mode, entry, central>>
  BY DEF CreateDir, Idle, PutLocalHeader
<1>2. f \in FileState /\ files \in Seq(FileState)
  BY StartedType DEF TypeOK
<1>3. f.id = Id /\ f.name_len = o.name_len /\ f.comment_len = o.comment_len
  BY DEF FileHeader, Started, NoEntry
<1> HIDE DEF f
<1>4. PICK at, to :
        /\ Holds(file_names', at, NamesOf(files), NameOf(f))
        /\ Holds(file_comments', to, CommentsOf(files), CommentOf(f))
  BY <1>1, <1>3, TextKeeps DEF NameOf, CommentOf
<1>5. /\ file_names' \in Seq(Nat) /\ file_comments' \in Seq(Nat)
      /\ NameOf(f) \in Piece /\ CommentOf(f) \in Piece
      /\ NameOf(f).id = Id /\ CommentOf(f).id = Id
      /\ NamesOf(files) \in Seq(Piece) /\ CommentsOf(files) \in Seq(Piece)
  BY <1>2, <1>3, PiecesType DEF TypeOK, FileState, Piece, NameOf, CommentOf
<1>6. /\ NamesOf(files') = Append(NamesOf(files), NameOf(f))
      /\ CommentsOf(files') = Append(CommentsOf(files), CommentOf(f))
  BY <1>1, <1>2, PiecesOfNext
<1>7. ~EntryOpen /\ ~EntryOpen' /\ entry = NoEntry
  BY <1>1 DEF TextInv, EntryOpen
<1>8. /\ NextPiece' \in Piece /\ NextPiece'.len = 0 /\ NextPiece'.id = Id + 1
      /\ NameToCome' = NextPiece' /\ CommentToCome' = NextPiece'
  BY <1>1, <1>7, ComesNext
<1>9. \E names : Holds(file_names', names, NamesOf(files'), NextPiece')
  BY <1>4, <1>5, <1>6, <1>8, PieceListed
<1>10. \E comments :
         Holds(file_comments', comments, CommentsOf(files'), NextPiece')
  BY <1>4, <1>5, <1>6, <1>8, PieceListed
<1>11. \E names, comments : TextsAt(names, comments)'
  BY <1>1, <1>8, <1>9, <1>10 DEF TextsAt
<1>12. \A k \in 1..Len(files') : AsAsked(files'[k], given')
  <2>1. AsAsked(f, given')
    BY <1>1, <1>3, TextCalled DEF AsAsked
  <2>2. 1..Len(files') = 1..Len(files) \cup {Len(files) + 1}
    BY <1>1, <1>2, NextFile
  <2>3. QED
    BY <1>1, <1>2, <2>1, <2>2, NextFile, TextCalled
<1>13. DirectoryGrows' /\ TextsFollowEntries'
  <2>1. Len(files') \in Nat
    BY <1>1, <1>2, NextFile
  <2>2. QED
    BY <1>1, <2>1, TextCalled
       DEF DirectoryGrows, TextsFollowEntries, TextInv, Ending
<1>14. QED
  BY <1>1, <1>7, <1>11, <1>12, <1>13 DEF TextInv

\* A call that fails: only its name may stay behind.
LEMMA TextCallFails ==
  ASSUME TypeOK, TextInv, NEW o \in Call, RejectPath(o) \/ StartFails(o)
  PROVE  TextInv'
<1>1. /\ mode = "idle" /\ given' = Append(given, o)
      /\ UNCHANGED <<mode, files, file_comments, entry, dir, central>>
  BY DEF RejectPath, StartFails, Idle, archiveVars, recordVars
<1>2. ~EntryOpen /\ ~EntryOpen' /\ entry = NoEntry
  BY <1>1 DEF TextInv, EntryOpen
<1>3. /\ NextPiece' \in Piece /\ NextPiece'.len = 0 /\ NextPiece'.id = Id + 1
      /\ NameToCome' = NextPiece' /\ CommentToCome' = NextPiece'
  BY <1>1, <1>2, ComesNext
<1>4. /\ NextPiece \in Piece /\ NextPiece.len = 0 /\ NextPiece.id = Id
      /\ NameToCome = NextPiece /\ CommentToCome = NextPiece
  BY <1>2, NothingOpen
<1>5. /\ NamesOf(files) \in Seq(Piece) /\ CommentsOf(files) \in Seq(Piece)
      /\ file_names \in Seq(Nat) /\ file_comments \in Seq(Nat)
  BY PiecesType DEF TypeOK
<1>6. PICK at, to : TextsAt(at, to)
  BY DEF TextInv
<1>7. Holds(file_comments, to, CommentsOf(files), NextPiece')
  BY <1>3, <1>4, <1>5, <1>6, PieceLeft DEF TextsAt
<1>8. Holds(file_names', at, NamesOf(files), NextPiece')
  <2>1. CASE RejectPath(o)
    <3>1. file_names' = file_names
      BY <2>1 DEF RejectPath, archiveVars
    <3>2. Holds(file_names, at, NamesOf(files), NextPiece')
      BY <1>3, <1>4, <1>5, <1>6, PieceLeft DEF TextsAt
    <3>3. QED
      BY <3>1, <3>2
  <2>2. CASE StartFails(o)
    <3>1. PICK e \in Piece : e.id = Id /\ e.len = o.name_len
      <4>1. [id |-> Id, len |-> o.name_len] \in Piece
        BY StartedType DEF Piece, Call
      <4>2. QED
        BY <4>1
    <3>2. file_names' = file_names \o Bytes(e.id, e.len)
      BY <2>2, <3>1 DEF StartFails
    <3>3. file_names' \in Seq(Nat)
      BY <1>5, <3>1, <3>2, BytesType, ConcatProperties DEF Piece
    <3>4. Holds(file_names', at, NamesOf(files), e)
      BY <1>4, <1>5, <1>6, <3>1, <3>2, PieceAppended DEF TextsAt
    <3>5. QED
      BY <1>3, <1>5, <3>1, <3>3, <3>4, PieceLeft
  <2>3. QED
    BY <2>1, <2>2
<1>9. TextsAt(at, to)'
  BY <1>1, <1>3, <1>7, <1>8 DEF TextsAt
<1>10. DirectoryGrows' /\ TextsFollowEntries'
  BY <1>1, TextCalled DEF DirectoryGrows, TextsFollowEntries, TextInv, Ending
<1>11. QED
  BY <1>1, <1>2, <1>9, <1>10, TextCalled DEF TextInv

\* A step of the open entry that leaves it open.
LEMMA TextData ==
  ASSUME TypeOK, TextInv, EntryOpen, EntryOpen', UnchangedByData,
         entry'.id = entry.id, entry'.name_len = entry.name_len,
         entry'.comment_len = entry.comment_len
  PROVE  TextInv'
<1>1. UNCHANGED <<files, file_names, file_comments, dir, central, given>>
  BY DEF UnchangedByData, archiveVars, recordVars
<1>2. /\ NameToCome' = NameToCome /\ CommentToCome' = CommentToCome
      /\ mode' # "directory" /\ ~Ending /\ ~Ending'
  BY DEF NameOf, CommentOf, NameToCome, CommentToCome, EntryOpen, Ending
<1>3. \E at, to : TextsAt(at, to)'
  BY <1>1, <1>2 DEF TextInv, TextsAt
<1>4. AsAsked(entry', given') /\ entry'.id = Len(given')
  BY <1>1 DEF TextInv, AsAsked
<1>5. DirectoryGrows'
  BY <1>1, <1>2 DEF DirectoryGrows, TextInv
<1>6. TextsFollowEntries'
  BY <1>1, RecordsStay DEF TextInv
<1>7. QED
  BY <1>1, <1>3, <1>4, <1>5, <1>6 DEF TextInv

\* The open entry is given up, and its text left behind.
LEMMA TextAbandoned ==
  ASSUME TypeOK, TextInv, EntryOpen, FinishEntryFails \/ DropEntry
  PROVE  TextInv'
<1>1. /\ entry' = NoEntry /\ mode' = "idle" /\ ~EntryOpen'
      /\ UNCHANGED <<files, file_names, file_comments, central, given>>
  BY DEF FinishEntryFails, DropEntry, archiveVars, recordVars, EntryOpen
<1>2. /\ NamesOf(files) \in Seq(Piece) /\ CommentsOf(files) \in Seq(Piece)
      /\ file_names \in Seq(Nat) /\ file_comments \in Seq(Nat)
  BY PiecesType DEF TypeOK
<1>3. /\ NameToCome \in Piece /\ CommentToCome \in Piece
      /\ NameToCome.id = Len(given) /\ CommentToCome.id = Len(given)
  BY DEF TypeOK, TextInv, EntryState, Piece, NameOf, CommentOf, NameToCome,
         CommentToCome
<1>4. /\ NextPiece' \in Piece /\ NextPiece'.len = 0
      /\ NextPiece'.id = Len(given) + 1
      /\ NameToCome' = NextPiece' /\ CommentToCome' = NextPiece'
  BY <1>1 DEF TypeOK, Id, NextPiece, Piece, NameToCome, CommentToCome
<1>5. PICK at, to : TextsAt(at, to)
  BY DEF TextInv
<1>6. /\ Holds(file_names, at, NamesOf(files), NextPiece')
      /\ Holds(file_comments, to, CommentsOf(files), NextPiece')
  BY <1>2, <1>3, <1>4, <1>5, PieceLeft DEF TextsAt
<1>7. TextsAt(at, to)'
  BY <1>1, <1>4, <1>6 DEF TextsAt
<1>8. DirectoryGrows'
  BY <1>1 DEF DirectoryGrows, TextInv, EntryOpen, Ending
<1>9. TextsFollowEntries'
  BY <1>1, RecordsStay DEF TextInv
<1>10. QED
  BY <1>1, <1>7, <1>8, <1>9 DEF TextInv

\* The open entry is listed.
LEMMA TextFinishEntry ==
  ASSUME TypeOK, TextInv, FinishEntry
  PROVE  TextInv'
<1> DEFINE f == FileHeader(entry)
<1>1. /\ EntryOpen /\ entry' = NoEntry /\ mode' = "idle" /\ ~EntryOpen'
      /\ files' = Append(files, f)
      /\ UNCHANGED <<file_names, file_comments, central, given>>
  BY DEF FinishEntry, EntryOpen
<1>2. f \in FileState /\ files \in Seq(FileState)
  BY DEF TypeOK, FileHeader, FileState, EntryState
<1>3. /\ NameOf(f) = NameToCome /\ CommentOf(f) = CommentToCome
      /\ f.id = entry.id /\ f.name_len = entry.name_len
      /\ f.comment_len = entry.comment_len
  BY <1>1 DEF FileHeader, NameOf, CommentOf, NameToCome, CommentToCome
<1> HIDE DEF f
<1>4. /\ file_names \in Seq(Nat) /\ file_comments \in Seq(Nat)
      /\ NameOf(f) \in Piece /\ CommentOf(f) \in Piece
      /\ NameOf(f).id = f.id /\ CommentOf(f).id = f.id
      /\ NamesOf(files) \in Seq(Piece) /\ CommentsOf(files) \in Seq(Piece)
  BY <1>2, PiecesType DEF TypeOK, FileState, Piece, NameOf, CommentOf
<1>5. PICK at, to :
        /\ Holds(file_names, at, NamesOf(files), NameOf(f))
        /\ Holds(file_comments, to, CommentsOf(files), CommentOf(f))
  BY <1>3 DEF TextInv, TextsAt
<1>6. /\ NamesOf(files') = Append(NamesOf(files), NameOf(f))
      /\ CommentsOf(files') = Append(CommentsOf(files), CommentOf(f))
  BY <1>1, <1>2, PiecesOfNext
<1>7. /\ NextPiece' \in Piece /\ NextPiece'.len = 0 /\ NextPiece'.id = f.id + 1
      /\ NameToCome' = NextPiece' /\ CommentToCome' = NextPiece'
  BY <1>1, <1>3 DEF TypeOK, TextInv, Id, NextPiece, Piece, NameToCome, CommentToCome
<1>8. \E names : Holds(file_names, names, NamesOf(files'), NextPiece')
  BY <1>4, <1>5, <1>6, <1>7, PieceListed
<1>9. \E comments : Holds(file_comments, comments, CommentsOf(files'), NextPiece')
  BY <1>4, <1>5, <1>6, <1>7, PieceListed
<1>10. \E names, comments : TextsAt(names, comments)'
  BY <1>1, <1>7, <1>8, <1>9 DEF TextsAt
<1>11. \A k \in 1..Len(files') : AsAsked(files'[k], given')
  <2>1. AsAsked(f, given)
    BY <1>1, <1>3 DEF TextInv, AsAsked
  <2>2. 1..Len(files') = 1..Len(files) \cup {Len(files) + 1}
    BY <1>1, <1>2, NextFile
  <2>3. QED
    BY <1>1, <1>2, <2>1, <2>2, NextFile DEF TextInv
<1>12. DirectoryGrows' /\ TextsFollowEntries'
  <2>1. central = <<>> /\ Len(central) = 0 /\ Len(files') \in Nat
    BY <1>1, <1>2, NextFile DEF TextInv, DirectoryGrows, EntryOpen, Ending
  <2>2. QED
    BY <1>1, <2>1 DEF DirectoryGrows, TextsFollowEntries, TextInv, Ending
<1>13. QED
  BY <1>1, <1>10, <1>11, <1>12 DEF TextInv

\* finish() begins with the first piece of each buffer.
LEMMA TextBeginFinish ==
  ASSUME TypeOK, TextInv, BeginFinish
  PROVE  TextInv'
<1>1. /\ files \in Seq(FileState) /\ mode = "idle" /\ mode' = "directory"
      /\ files' = [k \in 1..Len(files) |-> Finalized(files[k])]
      /\ dir'.k = 1 /\ dir'.name_offset = 0 /\ dir'.comment_offset = 0
      /\ UNCHANGED <<file_names, file_comments, entry, central, given>>
  BY DEF BeginFinish, DirectoryAt, TypeOK, recordVars
<1>2. /\ Len(files') = Len(files) /\ Len(files) \in Nat
      /\ \A k \in 1..Len(files) : files'[k] = Finalized(files[k])
  BY <1>1
<1>3. \A f \in FileState : /\ Finalized(f).id = f.id
                           /\ Finalized(f).name_len = f.name_len
                           /\ Finalized(f).comment_len = f.comment_len
  BY DEF Finalized, FileState
<1>4. \A k \in 1..Len(files) : /\ files'[k].id = files[k].id
                               /\ files'[k].name_len = files[k].name_len
                               /\ files'[k].comment_len = files[k].comment_len
  BY <1>1, <1>2, <1>3, ElementOfSeq
<1>5. NamesOf(files') = NamesOf(files) /\ CommentsOf(files') = CommentsOf(files)
  BY <1>2, <1>4 DEF NamesOf, CommentsOf, NameOf, CommentOf
<1>6. PICK at, to : TextsAt(at, to)
  BY DEF TextInv
<1>7. at[1] = 0 /\ to[1] = 0
  BY <1>6 DEF TextsAt, Holds, Starts
<1>8. NameToCome' = NameToCome /\ CommentToCome' = CommentToCome
  BY <1>1 DEF NameToCome, CommentToCome, NextPiece, Id, EntryOpen
<1>9. TextsAt(at, to)'
  BY <1>1, <1>2, <1>5, <1>6, <1>7, <1>8 DEF TextsAt
<1>10. \A k \in 1..Len(files') : AsAsked(files'[k], given')
  BY <1>1, <1>2, <1>4 DEF TextInv, AsAsked
<1>11. DirectoryGrows' /\ TextsFollowEntries'
  <2>1. central = <<>> /\ Len(central) = 0
    BY <1>1 DEF TextInv, DirectoryGrows, Ending
  <2>2. QED
    BY <1>1, <1>2, <2>1 DEF DirectoryGrows, TextsFollowEntries, TextInv, Ending
<1>12. QED
  BY <1>1, <1>9, <1>10, <1>11 DEF TextInv, EntryOpen

\* Equal bytes are cut out of a buffer.
LEMMA BytesCut ==
  ASSUME NEW buffer \in Seq(Nat), NEW from \in Nat, NEW n \in Nat, NEW id \in Nat,
         from + n <= Len(buffer), \A i \in 1..n : buffer[from + i] = id
  PROVE  Slice(buffer, from, n) = Bytes(id, n)
<1>1. from + 1 \in Int /\ from + n \in Int /\ (from + n) - (from + 1) + 1 = n
  OBVIOUS
<1>2. ASSUME NEW i \in (from + 1)..(from + n)
      PROVE  buffer[i] \in Nat
  <2>1. i \in 1..Len(buffer)
    OBVIOUS
  <2>2. QED
    BY <2>1, ElementOfSeq
<1> DEFINE s == SubSeq(buffer, from + 1, from + n)
<1>3. /\ s \in Seq(Nat)
      /\ Len(s) = IF from + 1 <= from + n THEN (from + n) - (from + 1) + 1 ELSE 0
      /\ \A i \in 1..((from + n) - (from + 1) + 1) : s[i] = buffer[from + 1 + i - 1]
  BY SMTT(60), <1>1, <1>2, SubSeqProperties
<1> HIDE DEF s
<1>4. Len(s) = n
  BY <1>3
<1>5. ASSUME NEW i \in 1..n
      PROVE  s[i] = Bytes(id, n)[i]
  <2>1. s[i] = buffer[from + 1 + i - 1]
    BY <1>1, <1>3
  <2>2. from + 1 + i - 1 = from + i
    OBVIOUS
  <2>3. QED
    BY <2>1, <2>2 DEF Bytes
<1>6. Bytes(id, n) \in Seq(Nat) /\ Len(Bytes(id, n)) = n
  BY BytesType
<1>7. s = Bytes(id, n)
  BY <1>3, <1>4, <1>5, <1>6, SeqEqual
<1>8. QED
  BY <1>7 DEF s, Slice

\* A piece is cut out of a buffer that holds it.
LEMMA PieceCut ==
  ASSUME NEW buffer \in Seq(Nat), NEW at, NEW ps \in Seq(Piece), NEW e \in Piece,
         Holds(buffer, at, ps, e), NEW k \in 1..Len(ps)
  PROVE  /\ at[k] \in Nat /\ at[k + 1] = at[k] + ps[k].len
         /\ at[k] + ps[k].len <= Len(buffer)
         /\ AllListed(buffer, ps, ps[k].id) =>
              Slice(buffer, at[k], ps[k].len) = Bytes(ps[k].id, ps[k].len)
<1>1. /\ ps[k] \in Piece /\ Len(ps) \in Nat /\ k \in 1..(Len(ps) + 1)
      /\ Starts(at, ps) /\ at[Len(ps) + 1] \in Nat /\ at[k] \in Nat
  BY StartsNat DEF Holds
<1>2. ps[k].len \in Nat /\ ps[k].id \in Nat /\ e.len \in Nat
  BY <1>1 DEF Piece
<1>3. /\ at[k + 1] = at[k] + ps[k].len /\ at[k + 1] <= at[Len(ps) + 1]
      /\ at[Len(ps) + 1] + e.len <= Len(buffer)
  BY <1>1 DEF Holds, Starts
<1>4. at[k] + ps[k].len <= Len(buffer)
  BY <1>1, <1>2, <1>3
<1>5. ASSUME AllListed(buffer, ps, ps[k].id)
      PROVE  Slice(buffer, at[k], ps[k].len) = Bytes(ps[k].id, ps[k].len)
  <2>1. \A i \in 1..ps[k].len : buffer[at[k] + i] = ps[k].id
    BY <1>5 DEF Holds, Own
  <2>2. QED
    BY ZenonT(60), <1>1, <1>2, <1>4, <2>1, BytesCut
<1>6. QED
  BY <1>1, <1>3, <1>4, <1>5

\* What is listed before a call, of files and of their pieces.
LEMMA ListedPieces ==
  ASSUME NEW buffer, NEW id, files \in Seq(FileState), OnlyListedBefore(id, buffer)
  PROVE  /\ AllListed(buffer, NamesOf(files), id)
         /\ AllListed(buffer, CommentsOf(files), id)
<1>1. /\ Len(NamesOf(files)) = Len(files) /\ Len(CommentsOf(files)) = Len(files)
      /\ \A j \in 1..Len(files) : /\ NamesOf(files)[j].id = files[j].id
                                  /\ CommentsOf(files)[j].id = files[j].id
  <2>1. /\ Len(NamesOf(files)) = Len(files) /\ Len(CommentsOf(files)) = Len(files)
        /\ \A j \in 1..Len(files) : /\ NamesOf(files)[j] = NameOf(files[j])
                                    /\ CommentsOf(files)[j] = CommentOf(files[j])
    BY Zenon, PiecesType
  <2>2. \A f : NameOf(f).id = f.id /\ CommentOf(f).id = f.id
    BY DEF NameOf, CommentOf
  <2>3. QED
    BY <2>1, <2>2
<1>2. QED
  BY <1>1 DEF OnlyListedBefore, AllListed

\* finish() takes what it looks for: within the buffers, and the text of the
\* next file where nothing was left behind before it.
LEMMA TextTaken ==
  ASSUME TypeOK, mode = "directory", NEW k \in 1..Len(files), k = dir.k,
         NEW at, NEW to, TextsAt(at, to)
  PROVE  /\ dir.name_offset \in Nat /\ dir.comment_offset \in Nat
         /\ dir.name_offset = at[k] /\ dir.comment_offset = to[k]
         /\ at[k + 1] = at[k] + files[k].name_len
         /\ to[k + 1] = to[k] + files[k].comment_len
         /\ at[k] + files[k].name_len <= Len(file_names)
         /\ to[k] + files[k].comment_len <= Len(file_comments)
         /\ OnlyListedBefore(files[k].id, file_names) =>
              Slice(file_names, at[k], files[k].name_len)
                = Bytes(files[k].id, files[k].name_len)
         /\ OnlyListedBefore(files[k].id, file_comments) =>
              Slice(file_comments, to[k], files[k].comment_len)
                = Bytes(files[k].id, files[k].comment_len)
<1> DEFINE names == NamesOf(files)
           comments == CommentsOf(files)
<1>1. /\ files \in Seq(FileState) /\ dir \in DirState
      /\ file_names \in Seq(Nat) /\ file_comments \in Seq(Nat)
  BY DEF TypeOK
<1>2. ~EntryOpen
  BY DEF EntryOpen
<1>3. /\ Holds(file_names, at, names, NextPiece)
      /\ Holds(file_comments, to, comments, NextPiece)
      /\ dir.name_offset = at[k] /\ dir.comment_offset = to[k]
  BY <1>2, NothingOpen DEF TextsAt
<1>4. /\ names \in Seq(Piece) /\ k \in 1..Len(names)
      /\ comments \in Seq(Piece) /\ k \in 1..Len(comments)
      /\ names[k].id = files[k].id /\ names[k].len = files[k].name_len
      /\ comments[k].id = files[k].id /\ comments[k].len = files[k].comment_len
  <2>1. /\ names \in Seq(Piece) /\ Len(names) = Len(files)
        /\ comments \in Seq(Piece) /\ Len(comments) = Len(files)
        /\ names[k] = NameOf(files[k]) /\ comments[k] = CommentOf(files[k])
    BY <1>1, PiecesType
  <2>2. QED
    BY <2>1 DEF NameOf, CommentOf
<1>5. NextPiece \in Piece
  BY <1>2, NothingOpen
<1>6. /\ OnlyListedBefore(files[k].id, file_names) =>
           AllListed(file_names, names, files[k].id)
      /\ OnlyListedBefore(files[k].id, file_comments) =>
           AllListed(file_comments, comments, files[k].id)
  BY <1>1, ListedPieces
<1> HIDE DEF names, comments
<1>7. /\ at[k + 1] = at[k] + names[k].len
      /\ at[k] + names[k].len <= Len(file_names)
      /\ AllListed(file_names, names, names[k].id) =>
           Slice(file_names, at[k], names[k].len)
             = Bytes(names[k].id, names[k].len)
  <2>1. /\ file_names \in Seq(Nat) /\ names \in Seq(Piece) /\ k \in 1..Len(names)
        /\ NextPiece \in Piece /\ Holds(file_names, at, names, NextPiece)
    BY <1>1, <1>3, <1>4, <1>5
  <2>2. QED
    BY <2>1, PieceCut
<1>8. /\ to[k + 1] = to[k] + comments[k].len
      /\ to[k] + comments[k].len <= Len(file_comments)
      /\ AllListed(file_comments, comments, comments[k].id) =>
           Slice(file_comments, to[k], comments[k].len)
             = Bytes(comments[k].id, comments[k].len)
  <2>1. /\ file_comments \in Seq(Nat) /\ comments \in Seq(Piece)
        /\ k \in 1..Len(comments)
        /\ NextPiece \in Piece /\ Holds(file_comments, to, comments, NextPiece)
    BY <1>1, <1>3, <1>4, <1>5
  <2>2. QED
    BY <2>1, PieceCut
<1>9. dir.name_offset \in Nat /\ dir.comment_offset \in Nat
  BY <1>1 DEF DirState
<1>10. QED
  BY <1>3, <1>4, <1>6, <1>7, <1>8, <1>9

\* A record of the directory takes the next piece of each buffer.
LEMMA TextWriteCentral ==
  ASSUME TypeOK, TypeOK', TextInv, WriteCentral
  PROVE  TextInv'
<1>0. PICK k \in 1..Len(files) : k = dir.k
  BY SMTT(60) DEF WriteCentral, TypeOK, DirState
<1> DEFINE f == files[k]
           rec == CentralRecord(f)
<1>1. /\ mode = "directory" /\ mode' = "directory" /\ k <= Len(files)
      /\ central' = Append(central, rec) /\ dir' = NextText(f)
      /\ UNCHANGED <<files, file_names, file_comments, entry, given>>
  BY <1>0 DEF WriteCentral, archiveVars
<1>2. /\ files \in Seq(FileState) /\ dir \in DirState /\ k \in 1..Len(files)
      /\ Len(files) \in Nat
  BY DEF TypeOK
<1>3. /\ dir'.k = k + 1 /\ dir'.name_offset = dir.name_offset + f.name_len
      /\ dir'.comment_offset = dir.comment_offset + f.comment_len
  BY <1>0, <1>1, <1>2 DEF NextText, DirState
<1>4. PICK at, to : TextsAt(at, to)
  BY DEF TextInv
<1>5. /\ rec.id = f.id
      /\ rec.name = Slice(file_names, dir.name_offset, f.name_len)
      /\ rec.comment = Slice(file_comments, dir.comment_offset, f.comment_len)
  BY DEF CentralRecord
<1>6. f.name_len = given[f.id].name_len /\ f.comment_len = given[f.id].comment_len
  BY <1>2 DEF TextInv, AsAsked
<1>7. files[k] = f
  OBVIOUS
<1> HIDE DEF f, rec
<1>8. /\ dir.name_offset = at[k] /\ dir.comment_offset = to[k]
      /\ at[k + 1] = at[k] + f.name_len /\ to[k + 1] = to[k] + f.comment_len
      /\ OnlyListedBefore(f.id, file_names) =>
           Slice(file_names, at[k], f.name_len) = Bytes(f.id, f.name_len)
      /\ OnlyListedBefore(f.id, file_comments) =>
           Slice(file_comments, to[k], f.comment_len) = Bytes(f.id, f.comment_len)
  BY <1>0, <1>1, <1>2, <1>4, <1>7, TextTaken
<1>9. TextsAt(at, to)'
  <2>1. dir'.k <= Len(files) + 1
    BY <1>2, <1>3
  <2>2. NameToCome' = NameToCome /\ CommentToCome' = CommentToCome
    BY <1>1 DEF NameToCome, CommentToCome, NextPiece, Id, EntryOpen
  <2>3. dir'.name_offset = at[dir'.k] /\ dir'.comment_offset = to[dir'.k]
    BY <1>3, <1>8
  <2>4. QED
    BY <1>1, <1>4, <2>1, <2>2, <2>3 DEF TextsAt
<1>10. /\ IsSequence(central) /\ Len(central) = k - 1 /\ Len(central) \in Nat
       /\ IsSequence(central') /\ Len(central') = k
       /\ central'[k] = rec
       /\ \A j \in 1..Len(central) : central'[j] = central[j]
  <2>1. IsSequence(central) /\ Len(central) = k - 1
    BY <1>0, <1>1 DEF TextInv, DirectoryGrows
  <2>2. Len(central) + 1 = k /\ Len(central) \in Nat
    BY <1>2, <2>1
  <2>3. QED
    BY <1>1, <2>1, <2>2, SequenceGrows
<1>11. DirectoryGrows'
  BY <1>1, <1>2, <1>3, <1>10 DEF DirectoryGrows, Ending
<1>12. TextsFollowEntries'
  <2>1. ASSUME NEW j \in 1..Len(central')
        PROVE  /\ central'[j].id = files'[j].id
               /\ OnlyListedBefore(files[j].id, file_names)' => OwnName(j)'
               /\ OnlyListedBefore(files[j].id, file_comments)' => OwnComment(j)'
    <3>1. /\ files' = files /\ given' = given
          /\ OnlyListedBefore(files[j].id, file_names)' =>
               OnlyListedBefore(files[j].id, file_names)
          /\ OnlyListedBefore(files[j].id, file_comments)' =>
               OnlyListedBefore(files[j].id, file_comments)
      BY <1>1 DEF OnlyListedBefore
    <3>2. CASE j \in 1..Len(central)
      <4>1. central'[j] = central[j]
        BY <1>10, <3>2
      <4>2. /\ central[j].id = files[j].id
            /\ OnlyListedBefore(files[j].id, file_names) => OwnName(j)
            /\ OnlyListedBefore(files[j].id, file_comments) => OwnComment(j)
        BY <3>2 DEF TextInv, TextsFollowEntries
      <4>3. /\ OwnName(j) => OwnName(j)'
            /\ OwnComment(j) => OwnComment(j)'
        BY <3>1, <4>1 DEF OwnName, OwnComment, Bytes
      <4>4. QED
        BY <3>1, <4>1, <4>2, <4>3
    <3>3. CASE j = k
      <4>1. central'[j] = rec /\ files'[j] = f /\ files[j] = f
        BY <1>7, <1>10, <3>1, <3>3
      <4>2. ASSUME OnlyListedBefore(f.id, file_names)
            PROVE  OwnName(j)'
        <5>1. rec.name = Bytes(f.id, given[f.id].name_len)
          BY <1>5, <1>6, <1>8, <4>2
        <5>2. QED
          BY <3>1, <4>1, <5>1 DEF OwnName, Bytes
      <4>3. ASSUME OnlyListedBefore(f.id, file_comments)
            PROVE  OwnComment(j)'
        <5>1. rec.comment = Bytes(f.id, given[f.id].comment_len)
          BY <1>5, <1>6, <1>8, <4>3
        <5>2. QED
          BY <3>1, <4>1, <5>1 DEF OwnComment, Bytes
      <4>4. QED
        BY <1>5, <3>1, <4>1, <4>2, <4>3
    <3>4. QED
      BY <1>10, <3>2, <3>3
  <2>2. QED
    BY <2>1 DEF TextsFollowEntries
<1>13. QED
  BY <1>1, <1>9, <1>11, <1>12 DEF TextInv, EntryOpen

\* A step that touches neither texts nor records.
LEMMA TextStays ==
  ASSUME TextInv, ~EntryOpen, ~EntryOpen',
         UNCHANGED <<files, file_names, file_comments, entry, central, given>>,
         \/ mode' # "directory" /\ (Ending => Ending')
         \/ UNCHANGED <<mode, dir>>
  PROVE  TextInv'
<1>1. \E at, to : TextsAt(at, to)'
  <2>1. NameToCome' = NameToCome /\ CommentToCome' = CommentToCome
    BY DEF NameToCome, CommentToCome, NextPiece, Id
  <2>2. QED
    BY <2>1 DEF TextInv, TextsAt
<1>2. DirectoryGrows'
  BY DEF TextInv, DirectoryGrows, Ending
<1>3. TextsFollowEntries'
  BY RecordsStay DEF TextInv
<1>4. QED
  BY <1>1, <1>2, <1>3 DEF TextInv

\* The invariant says what the property says.
LEMMA TextShows ==
  ASSUME TypeOK, TextInv
  PROVE  TextKeepsPace
<1>1. ASSUME mode = "directory", dir.k <= Len(files)
      PROVE  /\ dir.name_offset + files[dir.k].name_len <= Len(file_names)
             /\ dir.comment_offset + files[dir.k].comment_len <= Len(file_comments)
  <2>1. PICK k \in 1..Len(files) : k = dir.k
    BY SMTT(60), <1>1 DEF TypeOK, DirState
  <2>2. PICK at, to : TextsAt(at, to)
    BY DEF TextInv
  <2>3. QED
    BY <1>1, <2>1, <2>2, TextTaken
<1>2. QED
  BY <1>1 DEF TextKeepsPace, SlicesInBounds, TextInv

(***************************************************************************)
(* The invariant holds.                                                    *)
(***************************************************************************)
THEOREM TextAlways == Spec => []TextInv
<1>1. Init => TextInv
  <2> SUFFICES ASSUME Init PROVE TextInv
    OBVIOUS
  <2> DEFINE at == [k \in 1..1 |-> 0]
  <2>1. /\ files = <<>> /\ file_names = <<>> /\ file_comments = <<>>
        /\ central = <<>> /\ entry = NoEntry /\ mode = "idle"
    BY DEF Init
  <2>2. /\ NamesOf(files) = <<>> /\ CommentsOf(files) = <<>>
        /\ Len(<<>>) = 0 /\ at[1] = 0 /\ at \in [1..1 -> Nat]
    BY <2>1 DEF NamesOf, CommentsOf
  <2>3. Holds(<<>>, at, <<>>, NextPiece)
    BY <2>2 DEF Holds, Starts, NextPiece, Own
  <2>4. NameToCome = NextPiece /\ CommentToCome = NextPiece
    BY <2>1 DEF NameToCome, CommentToCome, EntryOpen
  <2>5. TextsAt(at, at)
    BY <2>1, <2>2, <2>3, <2>4 DEF TextsAt
  <2>6. DirectoryGrows /\ TextsFollowEntries
    BY <2>1, EmptySeq DEF DirectoryGrows, IsSequence, Ending, TextsFollowEntries
  <2>7. QED
    BY <2>1, <2>5, <2>6 DEF TextInv, EntryOpen
<1>2. TypeOK /\ TypeOK' /\ TextInv /\ [Next]_vars => TextInv'
  <2> SUFFICES ASSUME TypeOK, TypeOK', TextInv, [Next]_vars
               PROVE  TextInv'
    OBVIOUS
  <2>1. CASE Create
    <3>1. PICK o \in Call :
            RejectPath(o) \/ StartFails(o) \/ StartFile(o) \/ CreateDir(o)
      BY <2>1, WriterAssumption DEF Create
    <3>2. QED
      BY <3>1, TextCallFails, TextStartFile, TextCreateDir
  <2>2. ASSUME NEW n \in Chunks, NEW m \in Chunks \cup {0},
               NEW e \in Chunks \cup {0}, Write(n, m, e)
        PROVE  TextInv'
    BY <2>2, TextData DEF Write, EntryOpen, TypeOK, EntryState
  <2>3. ASSUME NEW e \in Chunks \cup {0}, NEW ok \in BOOLEAN, FinishData(e, ok)
        PROVE  TextInv'
    BY <2>3, TextData DEF FinishData, EntryOpen, TypeOK, EntryState
  <2>4. ASSUME NEW e \in Chunks, Epilogue(e)
        PROVE  TextInv'
    BY <2>4, TextData DEF Epilogue, EntryOpen, TypeOK, EntryState
  <2>5. CASE FinishEntryFails \/ DropEntry
    BY <2>5, TextAbandoned DEF FinishEntryFails, DropEntry, EntryOpen
  <2>6. CASE (\E n \in ArchiveComments : SetComment(n)) \/ FinishRefused
    <3>1. /\ ~EntryOpen /\ ~EntryOpen' /\ mode = "idle" /\ mode' # "directory"
          /\ UNCHANGED <<files, file_names, file_comments, entry, central, given>>
      BY <2>6 DEF SetComment, FinishRefused, EntryOpen, archiveVars, recordVars
    <3>2. QED
      BY <3>1, TextStays DEF Ending
  <2>7. CASE WriteTail \/ FinishFails
    <3>1. /\ ~EntryOpen /\ ~EntryOpen' /\ mode' \in {"done", "failed"}
          /\ UNCHANGED <<files, file_names, file_comments, entry, central, given>>
      BY <2>7 DEF WriteTail, FinishFails, EntryOpen, archiveVars, recordVars
    <3>2. QED
      BY <3>1, TextStays DEF Ending
  <2>8. CASE UNCHANGED vars
    <3>1. UNCHANGED <<mode, dir, files, file_names, file_comments, entry, central,
                      given>>
      BY <2>8 DEF vars, archiveVars, recordVars
    <3>2. \E at, to : TextsAt(at, to)'
      BY <3>1 DEF TextInv, TextsAt, NameToCome, CommentToCome, NextPiece, Id,
                  EntryOpen
    <3>3. DirectoryGrows'
      BY <3>1 DEF TextInv, DirectoryGrows, Ending
    <3>4. TextsFollowEntries'
      BY <3>1, RecordsStay DEF TextInv
    <3>5. QED
      BY <3>1, <3>2, <3>3, <3>4 DEF TextInv, EntryOpen
  <2>9. QED
    BY <2>1, <2>2, <2>3, <2>4, <2>5, <2>6, <2>7, <2>8, TextFinishEntry,
       TextBeginFinish, TextWriteCentral DEF Next, EntryStep, FinishStep
<1>3. QED
  BY <1>1, <1>2, TypeCorrect, PTL DEF Spec

(***************************************************************************)
(* finish() never slices beyond the flat buffers of names and comments,    *)
(* whatever calls were refused, failed or were abandoned; and it gives     *)
(* every entry the name it was created with unless such a call before it   *)
(* left bytes of a name behind, and its comment unless one left bytes of a *)
(* comment behind.                                                         *)
(***************************************************************************)
THEOREM TextCorrect == Spec => []TextKeepsPace
<1>1. TypeOK /\ TextInv => TextKeepsPace
  BY TextShows
<1>2. QED
  BY <1>1, TypeCorrect, TextAlways, PTL

=============================================================================
