-------------------------- MODULE ZipRoundTripProofs --------------------------
(***************************************************************************)
(* What finish() writes of the directory, and what a reader makes of it,   *)
(* for every size of the records, every limit, every set of calls and      *)
(* every stub.                                                             *)
(***************************************************************************)
EXTENDS ZipRoundTrip, ZipWriterProofs

-----------------------------------------------------------------------------
(* The directory.                                                          *)

LEMMA AtMostTrans ==
  ASSUME NEW a \in Nat, NEW b \in Nat, NEW c \in Nat, a <= b, b <= c
  PROVE  a <= c
OBVIOUS

LEMMA DataNat ==
  ASSUME NEW f \in FileState
  PROVE  f.local_header_offset + f.compressed_size \in Nat
BY DEF FileState

LEMMA AtMostSum ==
  ASSUME NEW a \in Nat, NEW b \in Nat, NEW c \in Nat, a + b <= c
  PROVE  a <= c
OBVIOUS

\* A record of the directory says of its file all it should.
Describes(rec, f) ==
  /\ rec.id = f.id
  /\ rec.compressed_size = Sat32(f.compressed_size)
  /\ rec.uncompressed_size = Sat32(f.uncompressed_size)
  /\ rec.local_header_offset = Sat32(f.local_header_offset)
  /\ rec.zip64 = Zip64Words(f)

\* Where the records written so far end.
DirectoryEnd ==
  IF central = <<>> THEN dir.offset
  ELSE central[Len(central)].at + central[Len(central)].len

(***************************************************************************)
(* The records lie side by side from dir.offset on.                        *)
(***************************************************************************)
Laid ==
  /\ \A k \in 1..Len(central) : /\ central[k].at \in Nat
                                /\ central[k].len \in Nat \ {0}
                                /\ Describes(central[k], files[k])
  /\ central # <<>> => central[1].at = dir.offset
  /\ \A k \in 1..Len(central) : k + 1 \in 1..Len(central) =>
       central[k + 1].at = central[k].at + central[k].len
  /\ \A j, k \in 1..Len(central) : j < k =>
       central[j].at + central[j].len <= central[k].at
  /\ mode = "directory" => sink = DirectoryEnd

\* A data descriptor of a listed file is as wide as its sizes need.
DescriptorsFit ==
  \A k \in 1..Len(files) : \A d \in descs : d.id = files[k].id =>
    d.len = DescriptorSize(WideDescriptor(files[k].compressed_size,
                                          files[k].uncompressed_size))

\* What finish() has checked before the first record.
FieldsFit ==
  /\ archive_comment <= U16MAX
  /\ \A k \in 1..Len(files) : files[k].central_size <= U16MAX

DataEnd == IF mode \in {"directory", "done"} THEN dir.offset ELSE sink

\* The data of every listed file ends before the directory begins.
DataInFront ==
  \A k \in 1..Len(files) :
    files[k].local_header_offset + files[k].compressed_size <= DataEnd

\* The records that end an archive whose directory ends at end.
EndRecordsAt(end) ==
  LET size == end - dir.offset
      z == \/ Len(files) >= U16MAX \/ Large(size) \/ Large(dir.offset)
           \/ FileForcesZip64
      z64Size == IF z THEN Eocd64Size + Locator64Size ELSE 0
  IN  [zip64 |-> z,
       at |-> end + z64Size,
       end |-> end + z64Size + EocdSize + archive_comment,
       eocd |-> [entries |-> Sat16(Len(files)), cd_size |-> Sat32(size),
                 cd_offset |-> Sat32(dir.offset)],
       eocd64 |-> [at |-> end, entries |-> Len(files), cd_size |-> size,
                   cd_offset |-> dir.offset],
       locator |-> end]

Tailed ==
  /\ mode # "done" => tail = <<>>
  /\ mode = "done" => /\ Len(central) = Len(files)
                      /\ tail = <<EndRecordsAt(DirectoryEnd)>>

DirectoryInv ==
  /\ Laid /\ DescriptorsFit /\ Tailed
  /\ mode # "failed" => DataInFront
  /\ mode \in {"directory", "done"} => FieldsFit
  /\ RefusedWhole

-----------------------------------------------------------------------------
(* The invariant holds.                                                    *)

\* Before the directory: no record to look at.
LEMMA NoRecords ==
  ASSUME DirectoryInv, TextInv, ~Ending
  PROVE  central = <<>> /\ tail = <<>> /\ Len(central) = 0 /\ mode # "failed"
BY DEF DirectoryInv, Tailed, TextInv, DirectoryGrows, Ending

LEMMA StillNoRecords ==
  ASSUME central' = <<>>, tail' = <<>>, mode' # "done", DescriptorsFit',
         mode' # "failed" => DataInFront',
         mode' = "directory" => sink' = dir'.offset /\ FieldsFit'
  PROVE  DirectoryInv'
<1>1. Len(central') = 0 /\ 1..Len(central') = {}
  OBVIOUS
<1>2. Laid'
  BY <1>1 DEF Laid, DirectoryEnd
<1>3. QED
  BY <1>1, <1>2 DEF DirectoryInv, Tailed, RefusedWhole

\* A step before the directory that neither lists an entry nor begins it.
LEMMA DirectoryQuiet ==
  ASSUME TypeOK, TypeOK', DirectoryInv, TextInv, ~Ending,
         mode' \notin {"directory", "done"}, sink <= sink',
         UNCHANGED <<files, descs, central, tail>>
  PROVE  DirectoryInv'
<1>1. central' = <<>> /\ tail' = <<>> /\ mode # "failed"
  BY NoRecords
<1>2. DescriptorsFit'
  BY DEF DirectoryInv, DescriptorsFit
<1>3. ASSUME NEW k \in 1..Len(files)
      PROVE  files[k].local_header_offset + files[k].compressed_size <= sink'
  <2>1. files[k] \in FileState /\ sink \in Nat /\ sink' \in Nat
    BY ElementOfSeq DEF TypeOK
  <2>2. files[k].local_header_offset + files[k].compressed_size <= sink
    BY <1>1 DEF DirectoryInv, DataInFront, DataEnd, Ending
  <2>3. files[k].local_header_offset + files[k].compressed_size \in Nat
    BY <2>1 DEF FileState
  <2>4. QED
    BY <2>1, <2>2, <2>3
<1>4. mode' # "failed" => DataInFront'
  BY <1>3 DEF DataInFront, DataEnd
<1>5. QED
  BY <1>1, <1>2, <1>4, StillNoRecords

\* Writes only move the sink forward.
LEMMA SinkForward ==
  ASSUME TypeOK, \/ \E n \in Nat : Accept(n)
                 \/ \E n \in Int : Refuse(n)
                 \/ UNCHANGED sinkVars
  PROVE  sink <= sink'
BY DEF TypeOK, Accept, Refuse, sinkVars

\* A file is added to the list, and with it its descriptor if it has one.
LEMMA DirectoryLists ==
  ASSUME TypeOK, TypeOK', DirectoryInv, TextInv, ~Ending, ~Ending',
         NEW f \in FileState, files' = Append(files, f),
         sink <= sink', f.local_header_offset + f.compressed_size <= sink',
         \A k \in 1..Len(files) : files[k].id < f.id,
         \A d \in descs : d.id < f.id,
         \A d \in descs' : d \in descs \/
           /\ d.id = f.id
           /\ d.len = DescriptorSize(WideDescriptor(f.compressed_size,
                                                    f.uncompressed_size)),
         UNCHANGED <<central, tail>>
  PROVE  DirectoryInv'
<1>1. central' = <<>> /\ tail' = <<>> /\ mode # "failed"
  BY NoRecords
<1>2. /\ files \in Seq(FileState) /\ descs \subseteq Placed
      /\ files'[Len(files) + 1] = f
      /\ \A k \in 1..Len(files) : files'[k] = files[k]
      /\ \A k \in 1..Len(files') : k \in 1..Len(files) \/ k = Len(files) + 1
  BY NextFile DEF TypeOK
<1>3. DescriptorsFit'
  <2> SUFFICES ASSUME NEW k \in 1..Len(files'), NEW d \in descs',
                      d.id = files'[k].id
               PROVE  d.len = DescriptorSize(WideDescriptor(
                        files'[k].compressed_size, files'[k].uncompressed_size))
    BY DEF DescriptorsFit
  <2>1. CASE k = Len(files) + 1
    <3>1. ~(f.id < f.id)
      BY DEF FileState
    <3>2. d \notin descs
      BY <1>2, <2>1, <3>1
    <3>3. QED
      BY <1>2, <2>1, <3>2
  <2>2. CASE k \in 1..Len(files)
    <3>1. files[k] \in FileState /\ files[k].id < f.id
      BY <1>2, <2>2, ElementOfSeq
    <3>2. files[k].id # f.id
      BY SMTT(60), <3>1 DEF FileState
    <3>3. d \in descs
      BY <1>2, <2>2, <3>2
    <3>4. QED
      BY <1>2, <2>2, <3>3 DEF DirectoryInv, DescriptorsFit
  <2>3. QED
    BY <1>2, <2>1, <2>2
<1>4. DataInFront'
  <2> SUFFICES ASSUME NEW k \in 1..Len(files')
               PROVE  files'[k].local_header_offset + files'[k].compressed_size
                        <= sink'
    BY DEF DataInFront, DataEnd, Ending
  <2>1. CASE k = Len(files) + 1
    BY <1>2, <2>1
  <2>2. CASE k \in 1..Len(files)
    <3>1. files[k] \in FileState /\ sink \in Nat /\ sink' \in Nat
      BY <2>2, ElementOfSeq DEF TypeOK
    <3>2. files[k].local_header_offset + files[k].compressed_size <= sink
      BY <1>1, <2>2 DEF DirectoryInv, DataInFront, DataEnd, Ending
    <3>3. files[k].local_header_offset + files[k].compressed_size \in Nat
      BY <3>1, DataNat
    <3>4. files[k].local_header_offset + files[k].compressed_size <= sink'
      BY <3>1, <3>2, <3>3, AtMostTrans
    <3>5. files'[k] = files[k]
      BY <1>2, <2>2
    <3>6. QED
      BY <3>4, <3>5, Zenon
  <2>3. QED
    BY <1>2, <2>1, <2>2
<1>5. mode' # "done" /\ mode' # "directory"
  BY DEF Ending
<1>6. QED
  BY <1>1, <1>3, <1>4, <1>5, StillNoRecords

LEMMA DirectoryCreateDir ==
  ASSUME TypeOK, TypeOK', EntriesInv, DirectoryInv, TextInv,
         NEW o \in Call, CreateDir(o)
  PROVE  DirectoryInv'
<1> DEFINE f == FileHeader(Started(o))
<1>1. /\ mode = "idle" /\ PutLocalHeader(o) /\ files' = Append(files, f)
      /\ mode' = mode /\ UNCHANGED <<descs, central, tail>>
  BY DEF CreateDir, PutLocalHeader, Idle
<1>2. f \in FileState /\ HeaderBytes(o) \in Nat
  BY StartedType
<1>3. f.id = Id /\ f.local_header_offset = count /\ f.compressed_size = 0
  BY DEF FileHeader, Started, NoEntry
<1>4. sink <= sink' /\ count + 0 <= sink'
  BY <1>1, <1>2 DEF PutLocalHeader, Accept, EntriesInv, TypeOK
<1>5. \A k \in 1..Len(files) : files[k].id < f.id
  BY <1>1, <1>3, EntriesHeader
<1>6. \A d \in descs : d.id < f.id
  BY <1>3 DEF EntriesInv, Known, Id, TypeOK
<1> HIDE DEF f
<1>7. QED
  BY <1>1, <1>2, <1>3, <1>4, <1>5, <1>6, DirectoryLists DEF Ending

LEMMA DirectoryFinishEntry ==
  ASSUME TypeOK, TypeOK', EntriesInv, DirectoryInv, TextInv, FinishEntry
  PROVE  DirectoryInv'
<1> DEFINE f == FileHeader(entry)
           n == DescriptorSize(WideEntry)
<1>1. /\ mode = "summed" /\ Accept(n) /\ mode' = "idle"
      /\ descs' = descs \cup {[id |-> entry.id, at |-> sink, len |-> n]}
      /\ files' = Append(files, f) /\ UNCHANGED <<central, tail>>
  BY DEF FinishEntry
<1>2. f \in FileState /\ n \in Nat
  BY FormatAssumption DEF FileHeader, FileState, TypeOK, EntryState,
                          DescriptorSize
<1>3. /\ f.id = entry.id /\ f.local_header_offset = entry.local_header_offset
      /\ f.compressed_size = entry.compressed_bytes
      /\ n = DescriptorSize(WideDescriptor(f.compressed_size,
                                           f.uncompressed_size))
  BY DEF FileHeader, WideEntry
<1>4. PICK l \in locals : /\ l.id = entry.id /\ l.at = entry.local_header_offset
                          /\ sink = l.at + l.len + entry.compressed_bytes
  BY <1>1 DEF EntriesInv, OpenAt, EntryOpen
<1>5. sink <= sink' /\ f.local_header_offset + f.compressed_size <= sink'
  <2>1. /\ l.at \in Nat /\ l.len \in Nat /\ entry.compressed_bytes \in Nat
        /\ sink' = sink + n
    BY <1>1, <1>4 DEF TypeOK, Placed, EntryState, Accept
  <2>2. QED
    BY <1>2, <1>3, <1>4, <2>1
<1>6. \A k \in 1..Len(files) : files[k].id < f.id
  BY <1>1, <1>3 DEF EntriesInv, EntryOpen
<1>7. \A d \in descs : d.id < f.id
  <2>1. \A d \in descs : d.id \in ListedIds(files)
    BY DEF EntriesInv, CompleteIds
  <2>2. QED
    BY <1>6, <2>1 DEF ListedIds
<1> HIDE DEF f, n
<1>8. \A d \in descs' : d \in descs \/
        /\ d.id = f.id
        /\ d.len = DescriptorSize(WideDescriptor(f.compressed_size,
                                                 f.uncompressed_size))
  BY <1>1, <1>3
<1>9. QED
  BY <1>1, <1>2, <1>5, <1>6, <1>7, <1>8, DirectoryLists DEF Ending

\* finish() fixes the zip64 fields and begins its loop.
LEMMA DirectoryBeginFinish ==
  ASSUME TypeOK, TypeOK', EntriesInv, DirectoryInv, TextInv, BeginFinish
  PROVE  DirectoryInv'
<1>1. /\ mode = "idle" /\ mode' = "directory" /\ archive_comment <= U16MAX
      /\ \A k \in 1..Len(files) : Zip64Fits(files[k])
      /\ files' = [k \in 1..Len(files) |-> Finalized(files[k])]
      /\ dir' = DirectoryAt(count)
      /\ UNCHANGED <<archive_comment, sink, count, descs, central, tail>>
  BY DEF BeginFinish, sinkVars, recordVars
<1>2. Len(files') = Len(files) /\ \A k \in 1..Len(files) :
        files[k] \in FileState /\ files'[k] = Finalized(files[k])
  BY <1>1, ElementOfSeq DEF TypeOK
<1>3. ASSUME NEW k \in 1..Len(files)
      PROVE  /\ files'[k].id = files[k].id
             /\ files'[k].compressed_size = files[k].compressed_size
             /\ files'[k].uncompressed_size = files[k].uncompressed_size
             /\ files'[k].local_header_offset = files[k].local_header_offset
             /\ files'[k].central_size
                  = files[k].central_size + Zip64FieldSize(files[k])
  <2>1. \A f \in FileState : LET g == Finalized(f) IN
          /\ g.id = f.id /\ g.compressed_size = f.compressed_size
          /\ g.uncompressed_size = f.uncompressed_size
          /\ g.local_header_offset = f.local_header_offset
          /\ g.central_size = f.central_size + Zip64FieldSize(f)
    BY DEF Finalized, FileState
  <2>2. QED
    BY <1>2, <2>1
<1>4. central' = <<>> /\ tail' = <<>> /\ dir'.offset = sink' /\ mode # "failed"
  BY <1>1, NoRecords DEF Ending, DirectoryAt, EntriesInv
<1>5. DescriptorsFit'
  BY <1>1, <1>2, <1>3 DEF DirectoryInv, DescriptorsFit
<1>6. DataInFront'
  BY <1>1, <1>2, <1>3, <1>4 DEF DirectoryInv, DataInFront, DataEnd
<1>7. FieldsFit'
  BY <1>1, <1>2, <1>3 DEF FieldsFit, Zip64Fits
<1>8. QED
  BY <1>1, <1>4, <1>5, <1>6, <1>7, StillNoRecords

\* A record is appended where the last one ends.
LEMMA RecordAppended ==
  ASSUME IsSequence(central), Laid, NEW rec, central' = Append(central, rec),
         UNCHANGED files, dir'.offset = dir.offset,
         rec.at = DirectoryEnd, DirectoryEnd \in Nat, rec.len \in Nat \ {0},
         Describes(rec, files[Len(central) + 1]),
         sink' = rec.at + rec.len
  PROVE  Laid'
<1> DEFINE n == Len(central)
<1>1. /\ n \in Nat /\ Len(central') = n + 1 /\ central'[n + 1] = rec
      /\ \A k \in 1..n : central'[k] = central[k]
      /\ 1..(n + 1) = 1..n \cup {n + 1}
  BY SequenceGrows
<1>2. rec.at \in Nat /\ rec.len \in Nat \ {0}
  OBVIOUS
<1>3. \A k \in 1..n : central[k].at \in Nat /\ central[k].len \in Nat \ {0}
  BY DEF Laid
<1>4. \A k \in 1..Len(central') : /\ central'[k].at \in Nat
                                  /\ central'[k].len \in Nat \ {0}
                                  /\ Describes(central'[k], files'[k])
  <2>1. \A k \in 1..n : Describes(central'[k], files'[k])
    BY <1>1 DEF Laid
  <2>2. Describes(central'[n + 1], files'[n + 1])
    BY <1>1
  <2>3. QED
    BY <1>1, <1>2, <1>3, <2>1, <2>2
<1>5. central = <<>> => n = 0
  OBVIOUS
<1>6. n = 0 => central = <<>>
  BY DEF IsSequence
<1>7. central'[1].at = dir'.offset
  <2>1. CASE n = 0
    BY <1>1, <1>6, <2>1 DEF DirectoryEnd
  <2>2. CASE n # 0
    BY <1>1, <1>5, <2>2 DEF Laid
  <2>3. QED
    BY <2>1, <2>2
<1>8. n # 0 => rec.at = central[n].at + central[n].len
  BY <1>5, <1>6 DEF DirectoryEnd
<1>9. ASSUME NEW k \in 1..Len(central'), k + 1 \in 1..Len(central')
      PROVE  central'[k + 1].at = central'[k].at + central'[k].len
  <2>1. k \in 1..n
    BY <1>1, <1>9
  <2>2. CASE k + 1 \in 1..n
    BY <1>1, <2>1, <2>2 DEF Laid
  <2>3. CASE k = n
    BY <1>1, <1>8, <2>1, <2>3
  <2>4. QED
    BY <1>1, <2>1, <2>2, <2>3
<1>10. ASSUME NEW j \in 1..n
       PROVE  central[j].at + central[j].len <= rec.at
  <2>1. n \in 1..n /\ rec.at = central[n].at + central[n].len
    BY <1>1, <1>8
  <2>2. CASE j = n
    BY <1>2, <2>1, <2>2
  <2>3. CASE j < n
    <3>1. central[j].at + central[j].len <= central[n].at
      BY <2>1, <2>3 DEF Laid
    <3>2. /\ central[j].at \in Nat /\ central[j].len \in Nat
          /\ central[n].at \in Nat /\ central[n].len \in Nat
      BY <1>3, <2>1
    <3>3. central[j].at + central[j].len \in Nat
      BY SMTT(60), <3>2
    <3>4. rec.at \in Nat /\ central[n].at <= rec.at
      <4>1. central[n].at <= central[n].at + central[n].len
        BY <3>2
      <4>2. QED
        BY <2>1, <4>1
    <3>5. QED
      BY <3>1, <3>2, <3>3, <3>4, AtMostTrans
  <2>4. QED
    BY <1>1, <2>2, <2>3
<1>11. ASSUME NEW j \in 1..Len(central'), NEW k \in 1..Len(central'), j < k
       PROVE  central'[j].at + central'[j].len <= central'[k].at
  <2>1. j \in 1..n
    BY <1>1, <1>11
  <2>2. CASE k \in 1..n
    BY <1>1, <1>11, <2>1, <2>2 DEF Laid
  <2>3. CASE k = n + 1
    BY <1>1, <1>10, <2>1, <2>3
  <2>4. QED
    BY <1>1, <2>2, <2>3
<1>12. sink' = DirectoryEnd'
  <2>1. central' # <<>>
    BY <1>1
  <2>2. QED
    BY <1>1, <2>1 DEF DirectoryEnd
<1>13. QED
  BY <1>4, <1>7, <1>9, <1>11, <1>12 DEF Laid

LEMMA EndNat ==
  ASSUME TypeOK, TextInv, Laid
  PROVE  DirectoryEnd \in Nat /\ dir.offset <= DirectoryEnd
<1>1. dir.offset \in Nat
  BY DEF TypeOK, DirState
<1>2. CASE central = <<>>
  BY <1>1, <1>2 DEF DirectoryEnd
<1>3. CASE central # <<>>
  <2>0. PICK n \in Nat \ {0} : n = Len(central)
    BY <1>3 DEF TextInv, DirectoryGrows, IsSequence
  <2>1. n \in Nat /\ n # 0 /\ n \in 1..n /\ 1 \in 1..n
    OBVIOUS
  <2>2. /\ central[n].at \in Nat /\ central[n].len \in Nat
        /\ central[1].at \in Nat /\ central[1].len \in Nat
        /\ central[1].at = dir.offset
    BY <1>3, <2>0, <2>1 DEF Laid
  <2>3. central[1].at <= central[n].at
    <3>1. CASE n = 1
      BY <2>2, <3>1
    <3>2. CASE 1 < n
      <4>1. central[1].at + central[1].len <= central[n].at
        BY <2>0, <2>1, <3>2 DEF Laid
      <4>2. QED
        BY <2>2, <4>1, AtMostSum
    <3>3. n = 1 \/ 1 < n
      BY <2>1
    <3>4. QED
      BY <3>1, <3>2, <3>3
  <2>4. QED
    BY <1>1, <1>3, <2>0, <2>2, <2>3 DEF DirectoryEnd
<1>4. QED
  BY <1>2, <1>3

LEMMA DirectoryWriteCentral ==
  ASSUME TypeOK, TypeOK', DirectoryInv, TextInv, WriteCentral
  PROVE  DirectoryInv'
<1> DEFINE f == files[dir.k]
           rec == CentralRecord(f)
<1>1. /\ mode = "directory" /\ mode' = "directory" /\ dir.k <= Len(files)
      /\ Accept(rec.len) /\ central' = Append(central, rec)
      /\ dir' = NextText(f)
      /\ UNCHANGED <<files, archive_comment, descs, tail>>
  BY DEF WriteCentral, archiveVars
<1>2. /\ dir.k \in 1..Len(files) /\ dir.k = Len(central) + 1
      /\ dir'.offset = dir.offset /\ IsSequence(central)
  <2>1. dir \in DirState /\ dir.k >= 1
    BY DEF TypeOK
  <2>2. dir'.offset = dir.offset /\ dir.k \in 1..Len(files)
    BY <1>1, <2>1 DEF NextText, DirState
  <2>3. Len(central) = dir.k - 1 /\ IsSequence(central)
    BY <1>1 DEF TextInv, DirectoryGrows
  <2>4. QED
    BY <2>1, <2>2, <2>3
<1>3. f \in FileState
  BY <1>2, ElementOfSeq DEF TypeOK
<1>4. rec.len \in Nat \ {0} /\ rec.at = sink /\ Describes(rec, f)
  <2>1. CentralSize + f.name_len + f.central_size + f.comment_len \in Nat \ {0}
    BY <1>3, FormatAssumption DEF FileState
  <2>2. QED
    BY <2>1 DEF CentralRecord, Describes
<1>5. sink = DirectoryEnd /\ sink' = rec.at + rec.len /\ DirectoryEnd \in Nat
  BY <1>1, <1>4, EndNat DEF DirectoryInv, Laid, Accept
<1>6. Laid'
  <2> HIDE DEF rec
  <2>1. Describes(rec, files[Len(central) + 1])
    BY <1>2, <1>4
  <2>2. QED
    BY <1>1, <1>2, <1>4, <1>5, <2>1, RecordAppended DEF DirectoryInv
<1>7. DataInFront'
  BY <1>1, <1>2 DEF DirectoryInv, DataInFront, DataEnd
<1>8. DescriptorsFit' /\ Tailed' /\ FieldsFit'
  BY <1>1 DEF DirectoryInv, DescriptorsFit, Tailed, FieldsFit
<1>9. QED
  BY <1>6, <1>7, <1>8 DEF DirectoryInv, FieldsFit, RefusedWhole

LEMMA DirectoryWriteTail ==
  ASSUME TypeOK, TypeOK', EntriesInv, DirectoryInv, TextInv, WriteTail
  PROVE  DirectoryInv'
<1>1. /\ mode = "directory" /\ mode' = "done" /\ dir.k > Len(files)
      /\ tail' = <<EndRecords>>
      /\ UNCHANGED <<files, archive_comment, dir, descs, central>>
  BY DEF WriteTail, archiveVars
<1>2. Len(central) = Len(files)
  <2>1. Len(central) = dir.k - 1 /\ Len(central) <= Len(files)
    BY <1>1 DEF TextInv, DirectoryGrows
  <2>2. dir.k \in Nat /\ Len(files) \in Nat
    BY DEF TypeOK, DirState
  <2>3. QED
    BY <1>1, <2>1, <2>2
<1>3. sink = DirectoryEnd /\ count = DirectoryEnd
  BY <1>1 DEF DirectoryInv, Laid, EntriesInv
<1>4. EndRecords = EndRecordsAt(sink)
  BY DEF EndRecords, EndRecordsAt, ArchiveNeedsZip64, DirectorySize, EntriesInv
<1>5. EndRecordsAt(DirectoryEnd)' = EndRecordsAt(DirectoryEnd)
  BY <1>1 DEF EndRecordsAt, DirectoryEnd, FileForcesZip64
<1>6. Tailed'
  BY <1>1, <1>2, <1>3, <1>4, <1>5 DEF Tailed
<1>7. Laid' /\ DescriptorsFit' /\ DataInFront' /\ FieldsFit'
  BY <1>1 DEF DirectoryInv, Laid, DescriptorsFit, DataInFront, DataEnd, FieldsFit
<1>8. QED
  BY <1>6, <1>7 DEF DirectoryInv, FieldsFit, RefusedWhole

LEMMA DirectoryFinishFails ==
  ASSUME DirectoryInv, FinishFails
  PROVE  DirectoryInv'
<1>1. /\ mode = "directory" /\ mode' = "failed"
      /\ UNCHANGED <<files, archive_comment, dir, descs, central, tail>>
  BY DEF FinishFails, archiveVars, recordVars
<1>2. Laid'
  BY <1>1 DEF DirectoryInv, Laid
<1>3. DescriptorsFit' /\ Tailed' /\ RefusedWhole'
  BY <1>1 DEF DirectoryInv, DescriptorsFit, Tailed, RefusedWhole
<1>4. QED
  BY <1>1, <1>2, <1>3 DEF DirectoryInv

LEMMA DirectoryCalls ==
  ASSUME TypeOK, TypeOK', DirectoryInv, TextInv, NEW o \in Call,
         RejectPath(o) \/ StartFails(o) \/ StartFile(o)
  PROVE  DirectoryInv'
<1>1. /\ mode = "idle" /\ mode' \in {"idle", "writing"}
      /\ UNCHANGED <<files, descs, central, tail>>
  BY DEF RejectPath, StartFails, StartFile, PutLocalHeader, Idle, archiveVars,
         recordVars
<1>2. HeaderBytes(o) \in Nat
  BY StartedType
<1>3. \/ UNCHANGED sinkVars
      \/ \E n \in Nat : Accept(n)
      \/ \E n \in Int : Refuse(n)
  BY <1>2 DEF RejectPath, StartFails, StartFile, PutLocalHeader
<1>4. sink <= sink'
  BY <1>3, SinkForward
<1>5. QED
  BY <1>1, <1>4, DirectoryQuiet DEF Ending

\* A step of the open entry that does not finish it.
LEMMA DirectoryOpen ==
  ASSUME TypeOK, TypeOK', DirectoryInv, TextInv, EntryOpen,
         mode' \in {"idle", "writing", "summed", "stuck"},
         \/ \E n \in Nat : Accept(n)
         \/ \E n \in Int : Refuse(n)
         \/ UNCHANGED sinkVars,
         UNCHANGED <<files, descs, central, tail>>
  PROVE  DirectoryInv'
<1>1. sink <= sink'
  BY SinkForward
<1>2. QED
  BY <1>1, DirectoryQuiet DEF Ending, EntryOpen

LEMMA DirectoryData ==
  ASSUME TypeOK, TypeOK', DirectoryInv, TextInv, EntryOpen,
         mode' \in {"writing", "summed", "stuck"},
         NEW e \in Nat, Emit(e), UnchangedByData
  PROVE  DirectoryInv'
<1>1. UNCHANGED <<files, descs, central, tail>> /\ Accept(e)
  BY DEF UnchangedByData, archiveVars, recordVars, Emit
<1>2. QED
  BY <1>1, DirectoryOpen

(***************************************************************************)
(* The invariant of the directory, at every step of every call.            *)
(***************************************************************************)
THEOREM DirectoryAlways == Spec => []DirectoryInv
<1>1. Init => DirectoryInv
  <2> SUFFICES ASSUME Init PROVE DirectoryInv
    OBVIOUS
  <2>1. /\ central = <<>> /\ tail = <<>> /\ files = <<>> /\ mode = "idle"
        /\ Len(<<>>) = 0
    BY DEF Init
  <2>2. Laid /\ DescriptorsFit /\ DataInFront
    BY <2>1 DEF Laid, DescriptorsFit, DataInFront
  <2>3. QED
    BY <2>1, <2>2 DEF DirectoryInv, Tailed, RefusedWhole
<1>2. TypeOK /\ TypeOK' /\ EntriesInv /\ TextInv /\ DirectoryInv /\ [Next]_vars
        => DirectoryInv'
  <2> SUFFICES ASSUME TypeOK, TypeOK', EntriesInv, TextInv, DirectoryInv,
                      [Next]_vars
               PROVE  DirectoryInv'
    OBVIOUS
  <2>0. Chunks \cup {0} \subseteq Nat
    BY WriterAssumption
  <2>1. CASE Create
    <3>1. PICK o \in Call :
            RejectPath(o) \/ StartFails(o) \/ StartFile(o) \/ CreateDir(o)
      BY <2>1, WriterAssumption DEF Create
    <3>2. QED
      BY <3>1, DirectoryCalls, DirectoryCreateDir
  <2>2. ASSUME NEW n \in Chunks, NEW m \in Chunks \cup {0},
               NEW e \in Chunks \cup {0}, Write(n, m, e)
        PROVE  DirectoryInv'
    BY <2>0, <2>2, DirectoryData DEF Write, EntryOpen
  <2>3. ASSUME NEW e \in Chunks \cup {0}, NEW ok \in BOOLEAN, FinishData(e, ok)
        PROVE  DirectoryInv'
    BY <2>0, <2>3, DirectoryData DEF FinishData, EntryOpen
  <2>4. ASSUME NEW e \in Chunks, Epilogue(e)
        PROVE  DirectoryInv'
    BY <2>0, <2>4, DirectoryData DEF Epilogue, EntryOpen
  <2>5. CASE FinishEntryFails \/ DropEntry
    <3>1. /\ EntryOpen /\ mode' = "idle"
          /\ UNCHANGED <<files, descs, central, tail>>
      BY <2>5 DEF FinishEntryFails, DropEntry, EntryOpen, archiveVars, recordVars
    <3>2. \/ \E n \in Int : Refuse(n)
          \/ UNCHANGED sinkVars
      <4>1. DescriptorSize(WideEntry) \in Int
        BY FormatAssumption DEF DescriptorSize
      <4>2. QED
        BY <2>5, <4>1 DEF FinishEntryFails, DropEntry
    <3>3. QED
      BY <3>1, <3>2, DirectoryOpen
  <2>6. CASE (\E n \in ArchiveComments : SetComment(n)) \/ FinishRefused
    <3>1. /\ mode = "idle" /\ mode' \in {"idle", "failed"} /\ sink' = sink
          /\ UNCHANGED <<files, descs, central, tail>>
      BY <2>6 DEF SetComment, FinishRefused, archiveVars, recordVars, sinkVars
    <3>2. sink <= sink'
      BY <3>1 DEF TypeOK
    <3>3. QED
      BY <3>1, <3>2, DirectoryQuiet DEF Ending
  <2>7. CASE UNCHANGED vars
    <3>1. UNCHANGED <<mode, files, archive_comment, dir, sink, descs, central,
                      tail>>
      BY <2>7 DEF vars, archiveVars, sinkVars, recordVars
    <3>2. Laid' /\ DescriptorsFit' /\ DataInFront' = DataInFront
      BY <3>1 DEF DirectoryInv, Laid, DirectoryEnd, DescriptorsFit, DataInFront,
                  DataEnd
    <3>3. EndRecordsAt(DirectoryEnd)' = EndRecordsAt(DirectoryEnd)
      BY <3>1 DEF EndRecordsAt, DirectoryEnd, FileForcesZip64
    <3>4. Tailed' /\ (FieldsFit' <=> FieldsFit) /\ RefusedWhole'
      BY <3>1, <3>3 DEF DirectoryInv, Tailed, FieldsFit, RefusedWhole
    <3>5. QED
      BY <3>1, <3>2, <3>4 DEF DirectoryInv
  <2>8. QED
    BY <2>1, <2>2, <2>3, <2>4, <2>5, <2>6, <2>7, DirectoryFinishEntry,
       DirectoryBeginFinish, DirectoryWriteCentral, DirectoryWriteTail,
       DirectoryFinishFails DEF Next, EntryStep, FinishStep
<1>3. QED
  BY <1>1, <1>2, TypeCorrect, EntriesAlways, TextAlways, PTL DEF Spec

-----------------------------------------------------------------------------
(* What a reader makes of it.                                              *)

LEMMA Saturates ==
  ASSUME NEW n \in Nat
  PROVE  /\ Sat32(n) = U32MAX <=> Large(n)
         /\ ~Large(n) => Sat32(n) = n
         /\ Sat16(n) = U16MAX <=> n >= U16MAX
         /\ n < U16MAX => Sat16(n) = n
BY FormatAssumption DEF Sat32, Sat16, Large

Held(n) == IF Large(n) THEN 1 ELSE 0

WordsOf(u, c, l) == Word(u) \o Word(c) \o Word(l)

InOrder(words, u, c, l) ==
  /\ Len(words) = Held(u) + Held(c) + Held(l)
  /\ Large(u) => words[1] = u
  /\ Large(c) => words[Held(u) + 1] = c
  /\ Large(l) => words[Held(u) + Held(c) + 1] = l

(***************************************************************************)
(* Every large value of a file has its own word of the zip64 field, behind *)
(* those of the large values before it.                                    *)
(***************************************************************************)
LEMMA WordsInOrder ==
  ASSUME NEW u \in Nat, NEW c \in Nat, NEW l \in Nat
  PROVE  InOrder(WordsOf(u, c, l), u, c, l)
<1>1. \A n \in Nat : /\ Word(n) \in Seq(Nat) /\ Len(Word(n)) = Held(n)
                     /\ Large(n) => Word(n)[1] = n
                     /\ Held(n) \in {0, 1} /\ (Large(n) <=> Held(n) = 1)
  BY DEF Word, Held
<1>2. PICK a, b, d \in Seq(Nat) : a = Word(u) /\ b = Word(c) /\ d = Word(l)
  BY <1>1
<1>3. PICK x, y, z \in {0, 1} : x = Held(u) /\ y = Held(c) /\ z = Held(l)
  BY <1>1
<1>4. /\ Len(a) = x /\ Len(b) = y /\ Len(d) = z
      /\ x = 1 => a[1] = u
      /\ y = 1 => b[1] = c
      /\ z = 1 => d[1] = l
      /\ (Large(u) <=> x = 1) /\ (Large(c) <=> y = 1) /\ (Large(l) <=> z = 1)
  BY <1>1, <1>2, <1>3
<1> DEFINE ab == a \o b
           w == ab \o d
<1>5. /\ ab \in Seq(Nat) /\ Len(ab) = x + y
      /\ \A i \in 1..(x + y) : ab[i] = IF i <= x THEN a[i] ELSE b[i - x]
  <2>1. /\ ab \in Seq(Nat) /\ Len(ab) = Len(a) + Len(b)
        /\ \A i \in 1..(Len(a) + Len(b)) :
             ab[i] = IF i <= Len(a) THEN a[i] ELSE b[i - Len(a)]
    BY ConcatProperties
  <2>2. QED
    BY <1>4, <2>1
<1>6. /\ Len(w) = x + y + z
      /\ \A i \in 1..(x + y + z) :
           w[i] = IF i <= x + y THEN ab[i] ELSE d[i - (x + y)]
  <2> HIDE DEF ab
  <2>1. /\ Len(w) = Len(ab) + Len(d)
        /\ \A i \in 1..(Len(ab) + Len(d)) :
             w[i] = IF i <= Len(ab) THEN ab[i] ELSE d[i - Len(ab)]
    BY <1>5, ConcatProperties
  <2>2. QED
    BY <1>4, <1>5, <2>1
<1>10. w = WordsOf(u, c, l)
  BY <1>2 DEF WordsOf
<1> HIDE DEF ab, w
<1>7. x = 1 => w[1] = u
  BY <1>4, <1>5, <1>6
<1>8. y = 1 => w[x + 1] = c
  <2>1. ASSUME y = 1
        PROVE  w[x + 1] = c
    <3>1. x + 1 \in 1..(x + y) /\ x + 1 \in 1..(x + y + z) /\ (x + 1) - x = 1
      BY <2>1
    <3>2. w[x + 1] = ab[x + 1] /\ ab[x + 1] = b[1]
      BY <1>5, <1>6, <3>1
    <3>3. QED
      BY <1>4, <2>1, <3>2
  <2>2. QED
    BY <2>1
<1>9. z = 1 => w[x + y + 1] = l
  <2>1. ASSUME z = 1
        PROVE  w[x + y + 1] = l
    <3>1. /\ x + y + 1 \in 1..(x + y + z) /\ (x + y + 1) - (x + y) = 1
          /\ ~(x + y + 1 <= x + y)
      BY <2>1
    <3>2. w[x + y + 1] = d[1]
      BY <1>6, <3>1
    <3>3. QED
      BY <1>4, <2>1, <3>2
  <2>2. QED
    BY <2>1
<1>11. InOrder(w, u, c, l)
  BY <1>3, <1>4, <1>6, <1>7, <1>8, <1>9 DEF InOrder
<1>12. QED
  BY <1>10, <1>11

(***************************************************************************)
(* From a record that describes a file from_parts gets back its sizes, its *)
(* offset and the width of its data descriptor.                            *)
(***************************************************************************)
LEMMA ResolvesDescribed ==
  ASSUME NEW f \in FileState, NEW rec, Describes(rec, f)
  PROVE  /\ Resolve(rec) = [uncompressed_size   |-> f.uncompressed_size,
                            compressed_size     |-> f.compressed_size,
                            local_header_offset |-> f.local_header_offset]
         /\ ExpectsWideDescriptor(rec) =
              WideDescriptor(f.compressed_size, f.uncompressed_size)
<1>1. PICK u, c, l \in Nat : /\ u = f.uncompressed_size /\ c = f.compressed_size
                             /\ l = f.local_header_offset
  BY DEF FileState
<1>2. /\ rec.uncompressed_size = Sat32(u) /\ rec.compressed_size = Sat32(c)
      /\ rec.local_header_offset = Sat32(l)
      /\ rec.zip64 = Word(u) \o Word(c) \o Word(l)
  BY <1>1 DEF Describes, Zip64Words
<1>3. /\ Len(rec.zip64) = Held(u) + Held(c) + Held(l)
      /\ Large(u) => rec.zip64[1] = u
      /\ Large(c) => rec.zip64[Held(u) + 1] = c
      /\ Large(l) => rec.zip64[Held(u) + Held(c) + 1] = l
  <2>1. rec.zip64 = WordsOf(u, c, l)
    BY <1>2 DEF WordsOf
  <2>2. InOrder(WordsOf(u, c, l), u, c, l)
    BY <1>1, WordsInOrder
  <2>3. InOrder(rec.zip64, u, c, l)
    BY <2>1, <2>2
  <2>4. QED
    BY <2>3 DEF InOrder
<1>4. /\ Sat32(u) = U32MAX <=> Large(u)
      /\ Sat32(c) = U32MAX <=> Large(c)
      /\ Sat32(l) = U32MAX <=> Large(l)
      /\ ~Large(u) => Sat32(u) = u
      /\ ~Large(c) => Sat32(c) = c
      /\ ~Large(l) => Sat32(l) = l
  BY Saturates
<1>5. /\ (IF rec.uncompressed_size = U32MAX THEN 1 ELSE 0) = Held(u)
      /\ (IF rec.compressed_size = U32MAX THEN 1 ELSE 0) = Held(c)
      /\ Held(u) \in 0..1 /\ Held(c) \in 0..1 /\ Held(l) \in 0..1
  BY <1>2, <1>4, Saturates DEF Held
<1> DEFINE WordOr(i, inline) ==
             IF inline = U32MAX /\ i <= Len(rec.zip64) THEN rec.zip64[i] ELSE inline
<1>6. WordOr(1, rec.uncompressed_size) = u
  BY <1>2, <1>3, <1>5, Saturates DEF Held
<1>7. WordOr(Held(u) + 1, rec.compressed_size) = c
  BY <1>2, <1>3, <1>5, Saturates DEF Held
<1>8. WordOr(Held(u) + Held(c) + 1, rec.local_header_offset) = l
  BY <1>2, <1>3, <1>5, Saturates DEF Held
<1>9. Resolve(rec) = [uncompressed_size   |-> WordOr(1, rec.uncompressed_size),
                      compressed_size     |-> WordOr(Held(u) + 1,
                                                     rec.compressed_size),
                      local_header_offset |-> WordOr(Held(u) + Held(c) + 1,
                                                     rec.local_header_offset)]
  BY <1>5 DEF Resolve
<1> HIDE DEF WordOr
<1>10. Resolve(rec) = [uncompressed_size |-> u, compressed_size |-> c,
                       local_header_offset |-> l]
  BY <1>6, <1>7, <1>8, <1>9
<1>11. ExpectsWideDescriptor(rec) <=> WideDescriptor(c, u)
  BY <1>2, Saturates DEF ExpectsWideDescriptor, WideDescriptor
<1>12. QED
  BY <1>1, <1>10, <1>11 DEF ExpectsWideDescriptor, WideDescriptor

(***************************************************************************)
(* The end of the archive says where the directory begins and how long it  *)
(* is, in its 16 and 32 bit fields when they hold it.                      *)
(***************************************************************************)
LEMMA EndSays ==
  ASSUME TypeOK, TextInv, DirectoryInv, mode = "done", NEW t, t = tail[1]
  PROVE  LET end == DirectoryEnd
             size == end - dir.offset
         IN  /\ tail = <<t>> /\ t = EndRecordsAt(end)
             /\ end \in Nat /\ dir.offset \in Nat /\ size \in Nat
             /\ t.zip64 \in BOOLEAN
             /\ t.eocd64 = [at |-> end, entries |-> Len(files),
                            cd_size |-> size, cd_offset |-> dir.offset]
             /\ t.locator = end
             /\ t.at = end + (IF t.zip64 THEN Eocd64Size + Locator64Size ELSE 0)
             /\ t.eocd = [entries |-> Sat16(Len(files)), cd_size |-> Sat32(size),
                          cd_offset |-> Sat32(dir.offset)]
             /\ HasZip64Sentinel(t.eocd) <=>
                  Len(files) >= U16MAX \/ Large(size) \/ Large(dir.offset)
             /\ t.zip64 <=> HasZip64Sentinel(t.eocd) \/ FileForcesZip64
             /\ ~HasZip64Sentinel(t.eocd) =>
                  t.eocd = [entries |-> Len(files), cd_size |-> size,
                            cd_offset |-> dir.offset]
<1> DEFINE end == DirectoryEnd
           size == end - dir.offset
<1>1. tail = <<EndRecordsAt(end)>> /\ t = EndRecordsAt(end) /\ tail = <<t>>
  BY DEF DirectoryInv, Tailed
<1>2. end \in Nat /\ dir.offset \in Nat /\ size \in Nat /\ Len(files) \in Nat
  <2>1. end \in Nat /\ dir.offset <= end
    BY EndNat DEF DirectoryInv
  <2>2. dir.offset \in Nat /\ Len(files) \in Nat
    BY DEF TypeOK, DirState
  <2>3. QED
    BY <2>1, <2>2
<1> HIDE DEF end
<1> DEFINE z == \/ Len(files) >= U16MAX \/ Large(size) \/ Large(dir.offset)
                \/ FileForcesZip64
<1>10. t = [zip64 |-> z,
            at |-> end + (IF z THEN Eocd64Size + Locator64Size ELSE 0),
            end |-> end + (IF z THEN Eocd64Size + Locator64Size ELSE 0)
                      + EocdSize + archive_comment,
            eocd |-> [entries |-> Sat16(Len(files)), cd_size |-> Sat32(size),
                      cd_offset |-> Sat32(dir.offset)],
            eocd64 |-> [at |-> end, entries |-> Len(files), cd_size |-> size,
                        cd_offset |-> dir.offset],
            locator |-> end]
  BY <1>1 DEF EndRecordsAt
<1>11. z \in BOOLEAN
  OBVIOUS
<1> HIDE DEF z
<1>12. t.zip64 = z
  BY <1>10
<1>3. /\ t.eocd64 = [at |-> end, entries |-> Len(files), cd_size |-> size,
                     cd_offset |-> dir.offset]
      /\ t.locator = end
      /\ t.at = end + (IF t.zip64 THEN Eocd64Size + Locator64Size ELSE 0)
      /\ t.eocd = [entries |-> Sat16(Len(files)), cd_size |-> Sat32(size),
                   cd_offset |-> Sat32(dir.offset)]
  BY <1>10, <1>12
<1>4. PICK n, s, o \in Nat : n = Len(files) /\ s = size /\ o = dir.offset
  BY <1>2
<1>5. HasZip64Sentinel(t.eocd) <=> n >= U16MAX \/ Large(s) \/ Large(o)
  <2>1. /\ t.eocd.entries = Sat16(n) /\ t.eocd.cd_size = Sat32(s)
        /\ t.eocd.cd_offset = Sat32(o)
    BY <1>3, <1>4
  <2>2. QED
    BY <2>1, Saturates DEF HasZip64Sentinel
<1>6. ASSUME ~HasZip64Sentinel(t.eocd)
      PROVE  t.eocd = [entries |-> n, cd_size |-> s, cd_offset |-> o]
  <2>1. n < U16MAX /\ ~Large(s) /\ ~Large(o)
    BY <1>5, <1>6, FormatAssumption
  <2>2. Sat16(n) = n /\ Sat32(s) = s /\ Sat32(o) = o
    BY <2>1, Saturates
  <2>3. QED
    BY <1>3, <1>4, <2>2
<1>7. t.zip64 <=> HasZip64Sentinel(t.eocd) \/ FileForcesZip64
  BY <1>4, <1>5, <1>12 DEF z
<1>8. t.zip64 \in BOOLEAN
  BY <1>11, <1>12
<1>9. QED
  BY <1>1, <1>2, <1>3, <1>4, <1>5, <1>6, <1>7, <1>8 DEF end

LEMMA DirectoryShows ==
  ASSUME TypeOK, TextInv, DirectoryInv
  PROVE  DirectoryResolves
<1>1. ASSUME NEW k \in 1..Len(central)
      PROVE  /\ Resolve(central[k]) =
                  [uncompressed_size   |-> files[k].uncompressed_size,
                   compressed_size     |-> files[k].compressed_size,
                   local_header_offset |-> files[k].local_header_offset]
             /\ \A d \in descs : d.id = files[k].id =>
                  d.len = DescriptorSize(ExpectsWideDescriptor(central[k]))
  <2>1. k \in 1..Len(files)
    BY DEF TextInv, DirectoryGrows, IsSequence, TypeOK
  <2>2. files[k] \in FileState
    BY <2>1, ElementOfSeq DEF TypeOK
  <2>3. Describes(central[k], files[k])
    BY DEF DirectoryInv, Laid
  <2>4. \A d \in descs : d.id = files[k].id =>
          d.len = DescriptorSize(WideDescriptor(files[k].compressed_size,
                                                files[k].uncompressed_size))
    BY <2>1 DEF DirectoryInv, DescriptorsFit
  <2>5. QED
    BY <2>2, <2>3, <2>4, ResolvesDescribed
<1>2. RecordsResolve
  BY <1>1 DEF RecordsResolve
<1>3. ASSUME NEW i \in 1..Len(tail)
      PROVE  LET t == tail[i]
                 start == IF central = <<>> THEN t.eocd64.at ELSE central[1].at
                 actual == [entries   |-> Len(central),
                            cd_size   |-> t.eocd64.at - start,
                            cd_offset |-> start]
             IN  IF HasZip64Sentinel(t.eocd)
                 THEN /\ t.zip64 /\ t.locator = t.eocd64.at
                      /\ [f \in DOMAIN actual |-> t.eocd64[f]] = actual
                 ELSE t.eocd = actual
  <2>1. mode = "done"
    <3>1. tail # <<>>
      OBVIOUS
    <3>2. QED
      BY <3>1 DEF DirectoryInv, Tailed
  <2>2. PICK t : t = tail[1]
    OBVIOUS
  <2>3. tail = <<t>> /\ t = tail[i]
    BY <2>1, <2>2, EndSays
  <2> DEFINE start == IF central = <<>> THEN t.eocd64.at ELSE central[1].at
             size == DirectoryEnd - dir.offset
             actual == [entries   |-> Len(central),
                        cd_size   |-> t.eocd64.at - start,
                        cd_offset |-> start]
  <2>4. /\ t.eocd64 = [at |-> DirectoryEnd, entries |-> Len(files),
                       cd_size |-> size, cd_offset |-> dir.offset]
        /\ t.locator = t.eocd64.at
    BY <2>1, <2>2, EndSays
  <2>5. Len(central) = Len(files)
    BY <2>1 DEF DirectoryInv, Tailed
  <2>6. start = dir.offset
    BY <2>4 DEF DirectoryInv, Laid, DirectoryEnd
  <2>7. actual = [entries |-> Len(files), cd_size |-> size,
                  cd_offset |-> dir.offset]
    BY <2>4, <2>5, <2>6
  <2> HIDE DEF actual, size, start
  <2>8. HasZip64Sentinel(t.eocd) => t.zip64
    BY <2>1, <2>2, EndSays
  <2>9. ~HasZip64Sentinel(t.eocd) => t.eocd = actual
    BY <2>1, <2>2, <2>7, EndSays DEF size
  <2>10. [f \in DOMAIN actual |-> t.eocd64[f]] = actual
    BY <2>4, <2>7
  <2>11. QED
    BY <2>3, <2>4, <2>8, <2>9, <2>10 DEF actual, start
<1>4. EndRecordsResolve
  BY <1>3 DEF EndRecordsResolve
<1>5. QED
  BY <1>2, <1>4 DEF DirectoryResolves, DirectoryInv

(***************************************************************************)
(* Whatever is written, at and around every limit: the records of the      *)
(* directory resolve to the sizes and offsets of their entries and to the  *)
(* width their descriptors were written with, the end of the archive leads *)
(* to the directory, and a refused archive has nothing of it.              *)
(***************************************************************************)
THEOREM DirectoryCorrect == Spec => []DirectoryResolves
<1>1. TypeOK /\ TextInv /\ DirectoryInv => DirectoryResolves
  BY DirectoryShows
<1>2. QED
  BY <1>1, TypeCorrect, TextAlways, DirectoryAlways, PTL

-----------------------------------------------------------------------------
(* Reading it back.                                                        *)

(***************************************************************************)
(* Reading changes nothing of what was written.                            *)
(***************************************************************************)
THEOREM ReaderOnlyReads == RTSpec => Spec
<1>1. RTInit => Init
  BY DEF RTInit
<1>2. [RTNext]_<<vars, readerVars>> => [Next]_vars
  <2> SUFFICES ASSUME [RTNext]_<<vars, readerVars>>
               PROVE  [Next]_vars
    OBVIOUS
  <2>1. CASE \E s \in Stubs : Open(s)
    BY <2>1 DEF Open
  <2>2. CASE EntriesEnd \/ NextEntry \/ NextEntryFails
    BY <2>2 DEF EntriesEnd, NextEntry, NextEntryFails, Reading
  <2>3. QED
    BY <2>1, <2>2 DEF RTNext
<1>3. QED
  BY <1>1, <1>2, PTL DEF RTSpec, Spec

LEMMA SilentShows ==
  ASSUME TypeOK, TextInv, DirectoryInv
  PROVE  SilentOnlyByCompression
<1> SUFFICES ASSUME SilentZip64
             PROVE  /\ \E k \in 1..Len(files) : Large(files[k].uncompressed_size)
                    /\ \A k \in 1..Len(files) :
                         /\ ~Large(files[k].compressed_size)
                         /\ ~Large(files[k].local_header_offset)
                    /\ Len(files) < U16MAX
  BY DEF SilentOnlyByCompression
<1>1. PICK i \in 1..Len(tail) : tail[i].zip64 /\ ~HasZip64Sentinel(tail[i].eocd)
  BY DEF SilentZip64
<1>2. mode = "done"
  <2>1. tail # <<>>
    BY <1>1
  <2>2. QED
    BY <2>1 DEF DirectoryInv, Tailed
<1>3. PICK t : t = tail[1]
  OBVIOUS
<1>4. tail = <<t>> /\ t = tail[i]
  BY <1>1, <1>2, <1>3, EndSays
<1>5. ~(Len(files) >= U16MAX) /\ ~Large(dir.offset) /\ FileForcesZip64
  BY <1>1, <1>2, <1>3, <1>4, EndSays
<1>6. dir.offset \in Nat /\ dir.offset < U32MAX /\ Len(files) < U16MAX
  <2>1. dir.offset \in Nat /\ Len(files) \in Nat
    BY DEF TypeOK, DirState
  <2>2. QED
    BY <1>5, <2>1, FormatAssumption DEF Large
<1>7. ASSUME NEW k \in 1..Len(files)
      PROVE  /\ ~Large(files[k].compressed_size)
             /\ ~Large(files[k].local_header_offset)
  <2>1. files[k] \in FileState
    BY ElementOfSeq DEF TypeOK
  <2>2. files[k].local_header_offset + files[k].compressed_size <= dir.offset
    BY <1>2 DEF DirectoryInv, DataInFront, DataEnd
  <2>3. PICK a, b \in Nat : /\ a = files[k].local_header_offset
                            /\ b = files[k].compressed_size
    BY <2>1 DEF FileState
  <2>4. a + b <= dir.offset
    BY <2>2, <2>3
  <2>5. ~Large(a) /\ ~Large(b)
    BY <1>6, <2>4, FormatAssumption DEF Large
  <2>6. QED
    BY <2>3, <2>5
<1>8. \E k \in 1..Len(files) : Large(files[k].uncompressed_size)
  BY <1>5, <1>7 DEF FileForcesZip64, NeedsZip64
<1>9. QED
  BY <1>6, <1>7, <1>8

(***************************************************************************)
(* An archive whose zip64 records no reader looks for has an entry whose   *)
(* uncompressed size needs them, and nothing else that does.               *)
(***************************************************************************)
THEOREM SilentCorrect == RTSpec => []SilentOnlyByCompression
<1>1. TypeOK /\ TextInv /\ DirectoryInv => SilentOnlyByCompression
  BY SilentShows
<1>2. QED
  BY <1>1, ReaderOnlyReads, TypeCorrect, TextAlways, DirectoryAlways, PTL

\* Where the next record of the directory begins.
NextAt(k) == IF k = Len(files) THEN DirectoryEnd ELSE central[k + 1].at

(***************************************************************************)
(* A reader that opened the archive has yielded the first of its files and *)
(* stands at the record of the next.                                       *)
(***************************************************************************)
OnItsWay ==
  /\ reader.state \in {"open", "end"}
  /\ reader.base = stub /\ reader.hint = Len(files)
  /\ reader.head = stub + DirectoryEnd
  /\ Len(yielded) <= Len(files)
  /\ reader.pos = stub + NextAt(Len(yielded))
  /\ \A k \in 1..Len(yielded) : yielded[k] = Original(files[k])
  /\ reader.state = "end" => Len(yielded) = Len(files)

ReaderInv ==
  /\ reader = [state |-> reader.state, pos |-> reader.pos, head |-> reader.head,
               hint |-> reader.hint, base |-> reader.base]
  /\ IsSequence(yielded)
  /\ stub \in Nat
  /\ IF reader.state = "closed" THEN yielded = <<>>
     ELSE mode = "done" /\ (Readable => OnItsWay)

\* Nothing more is written to a finished archive.
LEMMA DoneIsDone == Next => mode # "done"
BY DEF Next, Create, RejectPath, StartFails, StartFile, CreateDir, Idle,
       SetComment, EntryStep, Write, FinishData, Epilogue, FinishEntry,
       FinishEntryFails, DropEntry, EntryOpen, BeginFinish, FinishRefused,
       FinishStep, WriteCentral, WriteTail, FinishFails

(***************************************************************************)
(* The records lie between the two ends of the directory, and no two of    *)
(* them begin at the same place.                                           *)
(***************************************************************************)
LEMMA RecordBetween ==
  ASSUME TypeOK, TextInv, Laid, NEW j \in 1..Len(central)
  PROVE  /\ central[j].at \in Nat /\ central[j].len \in Nat \ {0}
         /\ dir.offset \in Nat /\ dir.offset <= central[j].at
         /\ DirectoryEnd \in Nat
         /\ central[j].at + central[j].len <= DirectoryEnd
         /\ \A k \in 1..Len(central) : central[k].at = central[j].at => k = j
         /\ Len(central) = Len(files) =>
              NextAt(j) = central[j].at + central[j].len
<1>0. PICK n \in Nat \ {0} : n = Len(central)
  BY DEF TextInv, DirectoryGrows, IsSequence
<1>1. j \in 1..n /\ 1 \in 1..n /\ n \in 1..n /\ central # <<>>
  BY <1>0
<1>2. /\ \A k \in 1..n : central[k].at \in Nat /\ central[k].len \in Nat \ {0}
      /\ \A i, k \in 1..n : i < k =>
           central[i].at + central[i].len <= central[k].at
      /\ \A k \in 1..n : k + 1 \in 1..n =>
           central[k + 1].at = central[k].at + central[k].len
      /\ central[1].at = dir.offset
      /\ DirectoryEnd = central[n].at + central[n].len
  BY <1>0, <1>1 DEF Laid, DirectoryEnd
<1>3. ASSUME NEW i \in 1..n, NEW k \in 1..n, i < k
      PROVE  central[i].at < central[k].at
  <2>1. PICK a \in Nat, l \in Nat \ {0}, b \in Nat :
           a = central[i].at /\ l = central[i].len /\ b = central[k].at
    BY <1>2
  <2>2. a + l <= b
    BY <1>2, <1>3, <2>1
  <2>3. a < b
    BY <2>2
  <2>4. QED
    BY <2>1, <2>3
<1>4. dir.offset <= central[j].at
  <2>1. CASE j = 1
    BY <1>1, <1>2, <2>1
  <2>2. CASE 1 < j
    BY <1>1, <1>2, <1>3, <2>2
  <2>3. QED
    BY <1>1, <2>1, <2>2
<1>5. PICK a \in Nat, l \in Nat \ {0}, b \in Nat, m \in Nat \ {0} :
         /\ a = central[j].at /\ l = central[j].len
         /\ b = central[n].at /\ m = central[n].len
  BY <1>1, <1>2
<1>6. a + l <= DirectoryEnd /\ DirectoryEnd \in Nat
  <2>1. DirectoryEnd = b + m
    BY <1>2, <1>5
  <2>2. CASE j = n
    BY <1>5, <2>1, <2>2
  <2>3. CASE j < n
    <3>1. a + l <= b
      BY <1>1, <1>2, <1>5, <2>3
    <3>2. QED
      BY <2>1, <3>1
  <2>4. QED
    BY <1>1, <2>1, <2>2, <2>3
<1>7. ASSUME NEW k \in 1..n, central[k].at = central[j].at
      PROVE  k = j
  <2>1. ~(k < j)
    BY <1>1, <1>2, <1>3, <1>7
  <2>2. ~(j < k)
    BY <1>1, <1>2, <1>3, <1>7
  <2>3. QED
    BY <1>1, <2>1, <2>2
<1>8. ASSUME Len(central) = Len(files)
      PROVE  NextAt(j) = central[j].at + central[j].len
  <2>1. CASE j = n
    BY <1>0, <1>2, <1>8, <2>1 DEF NextAt
  <2>2. CASE j # n
    <3>1. j + 1 \in 1..n
      BY <1>1, <2>2
    <3>2. QED
      BY <1>0, <1>1, <1>2, <1>8, <2>2, <3>1 DEF NextAt
  <2>3. QED
    BY <2>1, <2>2
<1>9. central[j].at + central[j].len <= DirectoryEnd
  BY <1>5, <1>6
<1>10. dir.offset \in Nat
  BY <1>1, <1>2
<1>11. QED
  BY <1>0, <1>1, <1>2, <1>4, <1>6, <1>7, <1>8, <1>9, <1>10

\* Opening leads to the first record, whatever stands before the archive.
LEMMA OpenFinds ==
  ASSUME TypeOK, TextInv, DirectoryInv, mode = "done", NEW s \in Nat,
         NEW t, t = Behind(tail[1], s), ~SilentZip64,
         s > 0 => files # <<>> /\ ~UsesZip64(tail[1])
  PROVE  /\ Locates(t)
         /\ (IF Corrected(t, s) THEN Guess(t) ELSE Located(t).offset) =
              s + dir.offset
         /\ Located(t).head = s + DirectoryEnd
         /\ Located(t).entries = Len(files)
         /\ BaseOffset(t, s) = s
<1>0. PICK r : r = tail[1]
  OBVIOUS
<1>1. PICK end, off, size, n \in Nat :
        /\ end = DirectoryEnd /\ off = dir.offset /\ size = end - off
        /\ n = Len(files)
  <2>1. /\ DirectoryEnd \in Nat /\ dir.offset \in Nat
        /\ DirectoryEnd - dir.offset \in Nat /\ Len(files) \in Nat
    BY <1>0, EndSays DEF TypeOK
  <2>2. QED
    BY <2>1
<1>2. /\ tail = <<r>> /\ r = EndRecordsAt(end)
      /\ r.eocd64 = [at |-> end, entries |-> n, cd_size |-> size,
                     cd_offset |-> off]
      /\ r.locator = end
      /\ r.at = end + (IF r.zip64 THEN Eocd64Size + Locator64Size ELSE 0)
      /\ HasZip64Sentinel(r.eocd) <=> n >= U16MAX \/ Large(size) \/ Large(off)
      /\ r.zip64 <=> HasZip64Sentinel(r.eocd) \/ FileForcesZip64
      /\ ~HasZip64Sentinel(r.eocd) =>
           r.eocd = [entries |-> n, cd_size |-> size, cd_offset |-> off]
  BY <1>0, <1>1, EndSays
<1>3. r.zip64 <=> HasZip64Sentinel(r.eocd)
  <2>1. ~(r.zip64 /\ ~HasZip64Sentinel(r.eocd))
    BY <1>2 DEF SilentZip64
  <2>2. QED
    BY <1>2, <2>1
<1>4. /\ t.eocd = r.eocd /\ t.zip64 = r.zip64 /\ t.locator = end
      /\ t.at = r.at + s
      /\ t.eocd64 = [at |-> end + s, entries |-> n, cd_size |-> size,
                     cd_offset |-> off]
  BY <1>0, <1>2 DEF Behind, EndRecordsAt
<1>5. Len(central) = n
  BY <1>1 DEF DirectoryInv, Tailed
<1>6. /\ \A k \in 1..Len(central) : central[k].at \in Nat /\ off <= central[k].at
      /\ off <= end
  BY <1>1, RecordBetween, EndNat DEF DirectoryInv
<1>7. UsesZip64(t) <=> HasZip64Sentinel(r.eocd)
  BY <1>3, <1>4 DEF UsesZip64
<1>8. CASE UsesZip64(t)
  <2>1. s = 0
    BY <1>0, <1>4, <1>8 DEF UsesZip64
  <2>2. end # 0
    <3>1. ASSUME end = 0
          PROVE  FALSE
      <4>1. size = 0 /\ off = 0
        BY <1>1, <1>6, <3>1
      <4>2. ~Large(0)
        BY FormatAssumption DEF Large
      <4>3. n # 0
        BY <1>2, <1>7, <1>8, <4>1, <4>2, FormatAssumption
      <4>4. 1 \in 1..Len(central)
        BY <1>5, <4>3
      <4>5. PICK a \in Nat, l \in Nat \ {0} :
               a = central[1].at /\ l = central[1].len /\ a + l <= end
        BY <1>1, <4>4, RecordBetween DEF DirectoryInv
      <4>6. QED
        BY <3>1, <4>5
    <3>2. QED
      BY <3>1
  <2>3. Located(t) = [offset |-> off, entries |-> n, head |-> end]
    BY <1>4, <1>8, <2>2 DEF Located
  <2>4. Locates(t)
    BY <1>4, <1>6, <2>1, <2>3 DEF Locates
  <2>5. ~Corrected(t, s)
    BY <1>4, <1>8, <2>2 DEF Corrected
  <2>6. BaseOffset(t, s) = s
    BY <2>1, <2>5 DEF BaseOffset
  <2>7. QED
    BY <1>1, <2>1, <2>3, <2>4, <2>5, <2>6
<1>9. CASE ~UsesZip64(t)
  <2>1. /\ t.eocd = [entries |-> n, cd_size |-> size, cd_offset |-> off]
        /\ t.at = end + s
    BY <1>2, <1>3, <1>4, <1>7, <1>9
  <2>2. Located(t) = [offset |-> off, entries |-> n, head |-> end + s]
    BY <1>9, <2>1 DEF Located
  <2>3. Locates(t)
    BY <1>6, <1>9, <2>2 DEF Locates
  <2>4. Guess(t) = off + s
    BY <1>1, <1>6, <2>1 DEF Guess
  <2>5. CASE s = 0
    <3>1. ~Corrected(t, s)
      <4>1. CASE central = <<>>
        <5>1. RecordsAt(Guess(t), s) = {}
          BY <4>1 DEF RecordsAt
        <5>2. QED
          BY <5>1 DEF Corrected
      <4>2. CASE central # <<>>
        <5>1. 1 \in 1..Len(central) /\ central[1].at = off
          BY <1>1, <1>5, <4>2 DEF DirectoryInv, Laid, TextInv, DirectoryGrows,
                                  IsSequence
        <5>2. 1 \in RecordsAt(Located(t).offset, s)
          BY <2>2, <2>5, <5>1 DEF RecordsAt
        <5>3. QED
          BY <5>2 DEF Corrected
      <4>3. QED
        BY <4>1, <4>2
    <3>2. BaseOffset(t, s) = s
      BY <2>5, <3>1 DEF BaseOffset
    <3>3. QED
      BY <1>1, <2>2, <2>3, <2>5, <3>1, <3>2
  <2>6. CASE s > 0
    <3>1. files # <<>>
      BY <2>6
    <3>2. n # 0
      BY <1>1, <3>1 DEF TypeOK
    <3>3. 1 \in 1..Len(central) /\ central[1].at = off
      <4>1. 1 \in 1..Len(central) /\ central # <<>>
        BY <1>5, <3>2
      <4>2. QED
        BY <1>1, <4>1 DEF DirectoryInv, Laid
    <3>4. RecordsAt(Located(t).offset, s) = {}
      <4>1. \A k \in 1..Len(central) : s + central[k].at # off
        BY <1>6, <2>6
      <4>2. QED
        BY <2>2, <4>1 DEF RecordsAt
    <3>5. 1 \in RecordsAt(Guess(t), s)
      BY <2>4, <3>3 DEF RecordsAt
    <3>6. Corrected(t, s)
      BY <1>9, <3>4, <3>5 DEF Corrected
    <3>7. BaseOffset(t, s) = s
      BY <2>1, <2>4, <2>6, <3>6 DEF BaseOffset
    <3>8. QED
      BY <1>1, <2>2, <2>3, <2>4, <3>6, <3>7
  <2>7. QED
    BY <2>5, <2>6
<1>10. QED
  BY <1>8, <1>9

LEMMA ReaderOpens ==
  ASSUME TypeOK, TextInv, DirectoryInv, ReaderInv, NEW s \in Stubs, Open(s)
  PROVE  ReaderInv'
<1> DEFINE t == Behind(tail[1], s)
<1>1. /\ mode = "done" /\ yielded = <<>> /\ yielded' = <<>> /\ stub' = s
      /\ s \in Nat /\ UNCHANGED <<mode, files, dir, central, tail>>
      /\ reader' = [state |-> IF Locates(t) THEN "open" ELSE "error",
                    pos |-> IF Corrected(t, s) THEN Guess(t)
                                               ELSE Located(t).offset,
                    head |-> Located(t).head, hint |-> Located(t).entries,
                    base |-> BaseOffset(t, s)]
  BY StubAssumption DEF Open, ReaderInv, vars, archiveVars, recordVars
<1>2. reader'.state # "closed" /\ Len(yielded') = 0 /\ IsSequence(yielded')
  BY <1>1 DEF ReaderInv
<1>3. ASSUME Readable'
      PROVE  OnItsWay'
  <2>1. ~SilentZip64 /\ (s > 0 => files # <<>> /\ ~UsesZip64(tail[1]))
    <3>1. Len(tail) = 1
      BY <1>1 DEF DirectoryInv, Tailed
    <3>2. QED
      BY <1>1, <1>3, <3>1 DEF Readable, SilentZip64
  <2> HIDE DEF t
  <2>2. PICK u : u = t
    OBVIOUS
  <2>3. /\ Locates(t)
        /\ (IF Corrected(t, s) THEN Guess(t) ELSE Located(t).offset) =
             s + dir.offset
        /\ Located(t).head = s + DirectoryEnd
        /\ Located(t).entries = Len(files)
        /\ BaseOffset(t, s) = s
    BY <1>1, <2>1, OpenFinds DEF t
  <2>4. /\ reader'.state = "open" /\ reader'.pos = s + dir.offset
        /\ reader'.head = s + DirectoryEnd /\ reader'.hint = Len(files)
        /\ reader'.base = s
    BY <1>1, <2>3
  <2>5. NextAt(0) = dir.offset
    <3>1. Len(central) = Len(files)
      BY <1>1 DEF DirectoryInv, Tailed
    <3>2. CASE Len(files) = 0
      <4>1. central = <<>>
        BY <3>1, <3>2 DEF TextInv, DirectoryGrows, IsSequence
      <4>2. QED
        BY <3>2, <4>1 DEF NextAt, DirectoryEnd
    <3>3. CASE Len(files) # 0
      <4>1. central # <<>>
        BY <3>1, <3>3
      <4>2. QED
        BY <3>3, <4>1 DEF NextAt, DirectoryInv, Laid
    <3>4. QED
      BY <3>2, <3>3
  <2>6. DirectoryEnd' = DirectoryEnd /\ NextAt(0)' = NextAt(0)
    BY <1>1 DEF DirectoryEnd, NextAt
  <2>7. /\ reader'.state \in {"open", "end"} /\ reader'.state # "end"
        /\ reader'.base = stub' /\ reader'.hint = Len(files')
        /\ reader'.head = stub' + DirectoryEnd'
    BY <1>1, <2>4, <2>6
  <2>8. reader'.pos = stub' + NextAt(0)'
    BY <1>1, <2>4, <2>5, <2>6
  <2>9. Len(yielded') <= Len(files')
    BY <1>1, <1>2 DEF TypeOK
  <2>10. NextAt(Len(yielded))' = NextAt(0)'
    BY <1>2 DEF NextAt
  <2>11. QED
    BY <1>2, <2>7, <2>8, <2>9, <2>10 DEF OnItsWay
<1> HIDE DEF t
<1>4. reader' = [state |-> reader'.state, pos |-> reader'.pos,
                 head |-> reader'.head, hint |-> reader'.hint,
                 base |-> reader'.base]
  BY <1>1
<1>5. QED
  BY <1>1, <1>2, <1>3, <1>4 DEF ReaderInv

\* What a reading step leaves alone.
LEMMA ReadingLeaves ==
  ASSUME Reading
  PROVE  /\ UNCHANGED <<mode, files, dir, central, tail, stub>>
         /\ DirectoryEnd' = DirectoryEnd /\ Readable' = Readable
         /\ \A k : NextAt(k)' = NextAt(k)
         /\ \A f : Original(f)' = Original(f)
<1>1. UNCHANGED <<mode, files, dir, central, tail, stub>>
  BY DEF Reading, vars, archiveVars, recordVars
<1>2. QED
  BY <1>1 DEF DirectoryEnd, Readable, SilentZip64, NextAt, Original

\* On its way, the reader has reached the end or finds the next record.
LEMMA ReaderFinds ==
  ASSUME TypeOK, TextInv, DirectoryInv, mode = "done", OnItsWay, stub \in Nat,
         IsSequence(yielded), reader.state = "open",
         NEW n \in Nat, n = Len(yielded)
  PROVE  /\ reader.pos = reader.head <=> n = Len(files)
         /\ n # Len(files) =>
              /\ n + 1 \in 1..Len(files) /\ Len(central) = Len(files)
              /\ Readables = {n + 1}
              /\ reader.pos + central[n + 1].len = stub + NextAt(n + 1)
<1>1. /\ Len(central) = Len(files) /\ Len(files) \in Nat /\ n <= Len(files)
      /\ reader.pos = stub + NextAt(n) /\ reader.head = stub + DirectoryEnd
  BY DEF DirectoryInv, Tailed, TypeOK, OnItsWay
<1>2. CASE n = Len(files)
  BY <1>1, <1>2 DEF NextAt
<1>3. CASE n # Len(files)
  <2>1. n + 1 \in 1..Len(files) /\ n + 1 \in 1..Len(central)
    BY <1>1, <1>3
  <2>2. NextAt(n) = central[n + 1].at
    BY <1>3 DEF NextAt
  <2>3. /\ central[n + 1].at \in Nat /\ central[n + 1].len \in Nat \ {0}
        /\ DirectoryEnd \in Nat
        /\ central[n + 1].at + central[n + 1].len <= DirectoryEnd
        /\ \A k \in 1..Len(central) : central[k].at = central[n + 1].at => k = n + 1
        /\ NextAt(n + 1) = central[n + 1].at + central[n + 1].len
    BY <1>1, <2>1, RecordBetween DEF DirectoryInv
  <2>4. PICK a \in Nat, l \in Nat \ {0}, e \in Nat, s \in Nat :
           /\ a = central[n + 1].at /\ l = central[n + 1].len
           /\ e = DirectoryEnd /\ s = stub
    BY <2>3
  <2>5. /\ a + l <= e /\ reader.pos = s + a /\ reader.head = s + e
        /\ NextAt(n + 1) = a + l
    BY <1>1, <2>2, <2>3, <2>4
  <2>6. reader.pos # reader.head /\ reader.pos + l <= reader.head
    BY <2>5
  <2>7. n + 1 \in Readables
    BY <2>1, <2>4, <2>5, <2>6 DEF Readables, RecordsAt
  <2>8. ASSUME NEW k \in Readables
        PROVE  k = n + 1
    <3>1. k \in 1..Len(central) /\ s + central[k].at = s + a
      BY <2>4, <2>5 DEF Readables, RecordsAt
    <3>2. central[k].at \in Nat
      BY <3>1 DEF DirectoryInv, Laid
    <3>3. central[k].at = a
      BY <3>1, <3>2
    <3>4. QED
      BY <2>3, <2>4, <3>1, <3>3
  <2>9. reader.pos + l = s + (a + l)
    BY <2>5
  <2>10. QED
    BY <1>1, <1>3, <2>1, <2>4, <2>5, <2>6, <2>7, <2>8, <2>9
<1>4. QED
  BY <1>2, <1>3

LEMMA ReaderNext ==
  ASSUME TypeOK, TextInv, DirectoryInv, ReaderInv, NextEntry
  PROVE  ReaderInv'
<1>0. PICK n \in Nat : n = Len(yielded)
  BY SequenceGrows DEF ReaderInv
<1>1. /\ reader.state = "open" /\ reader.pos # reader.head /\ Reading
      /\ mode = "done" /\ stub \in Nat /\ IsSequence(yielded)
  BY DEF NextEntry, Reading, ReaderInv
<1>2. PICK k \in Readables :
        /\ reader' = [reader EXCEPT !.pos = @ + central[k].len]
        /\ yielded' = Append(yielded,
             [id |-> central[k].id,
              sizes |-> [Resolve(central[k]) EXCEPT !.local_header_offset =
                                                      @ + reader.base]])
  BY DEF NextEntry
<1>3. /\ reader'.state = reader.state /\ reader'.head = reader.head
      /\ reader'.hint = reader.hint /\ reader'.base = reader.base
      /\ reader'.pos = reader.pos + central[k].len
      /\ reader' = [state |-> reader'.state, pos |-> reader'.pos,
                    head |-> reader'.head, hint |-> reader'.hint,
                    base |-> reader'.base]
  BY <1>2 DEF ReaderInv
<1> DEFINE y == [id |-> central[k].id,
                 sizes |-> [Resolve(central[k]) EXCEPT !.local_header_offset =
                                                         @ + reader.base]]
<1>4. /\ IsSequence(yielded') /\ Len(yielded') = n + 1 /\ yielded'[n + 1] = y
      /\ \A i \in 1..n : yielded'[i] = yielded[i]
  BY <1>0, <1>1, <1>2, SequenceGrows
<1>5. ASSUME Readable
      PROVE  OnItsWay'
  <2>1. OnItsWay /\ Len(files) \in Nat
    BY <1>1, <1>5 DEF ReaderInv, TypeOK
  <2>2. /\ n # Len(files) /\ n + 1 \in 1..Len(files)
        /\ Len(central) = Len(files) /\ Readables = {n + 1}
        /\ reader.pos + central[n + 1].len = stub + NextAt(n + 1)
    BY <1>0, <1>1, <2>1, ReaderFinds
  <2>3. k = n + 1
    BY <2>2
  <2>4. PICK f \in FileState : f = files[n + 1]
    BY <2>2, ElementOfSeq DEF TypeOK
  <2>5. Describes(central[k], f)
    BY <2>2, <2>3, <2>4 DEF DirectoryInv, Laid
  <2>6. /\ Resolve(central[k]) = [uncompressed_size   |-> f.uncompressed_size,
                                  compressed_size     |-> f.compressed_size,
                                  local_header_offset |-> f.local_header_offset]
        /\ central[k].id = f.id
    BY <2>5, ResolvesDescribed DEF Describes
  <2>7. f.local_header_offset + reader.base = stub + f.local_header_offset
    BY <1>1, <2>1 DEF OnItsWay, FileState
  <2>8. y = Original(f)
    BY <2>6, <2>7 DEF Original
  <2> HIDE DEF y
  <2>9. \A i \in 1..(n + 1) : yielded'[i] = Original(files[i])
    <3>1. \A i \in 1..n : yielded'[i] = Original(files[i])
      BY <1>0, <1>4, <2>1 DEF OnItsWay
    <3>2. yielded'[n + 1] = Original(files[n + 1])
      BY <1>4, <2>4, <2>8
    <3>3. QED
      BY <3>1, <3>2
  <2>10. \A i \in 1..Len(yielded') : yielded'[i] = Original(files[i])'
    BY <1>1, <1>4, <2>9, ReadingLeaves
  <2>11. reader'.pos = stub' + NextAt(Len(yielded))'
    <3>1. reader'.pos = stub + NextAt(n + 1)
      BY <1>3, <2>2, <2>3
    <3>2. NextAt(Len(yielded))' = NextAt(n + 1)
      BY <1>1, <1>4, ReadingLeaves DEF NextAt
    <3>3. QED
      BY <1>1, <3>1, <3>2, ReadingLeaves
  <2>12. Len(yielded') <= Len(files')
    BY <1>1, <1>4, <2>2, ReadingLeaves
  <2>13. reader'.state = "open" /\ reader'.state # "end"
    BY <1>1, <1>3
  <2>14. /\ reader'.base = stub' /\ reader'.hint = Len(files')
         /\ reader'.head = stub' + DirectoryEnd'
    BY <1>1, <1>3, <2>1, ReadingLeaves DEF OnItsWay
  <2>15. QED
    BY <2>10, <2>11, <2>12, <2>13, <2>14 DEF OnItsWay
<1>6. mode' = "done" /\ stub' \in Nat /\ (Readable' <=> Readable)
  BY <1>1, ReadingLeaves
<1>7. reader'.state # "closed"
  BY <1>1, <1>3
<1>8. QED
  BY <1>3, <1>4, <1>5, <1>6, <1>7 DEF ReaderInv

LEMMA ReaderEnds ==
  ASSUME TypeOK, TextInv, DirectoryInv, ReaderInv, EntriesEnd
  PROVE  ReaderInv'
<1>0. PICK n \in Nat : n = Len(yielded)
  BY SequenceGrows DEF ReaderInv
<1>1. /\ reader.state = "open" /\ reader.pos = reader.head /\ Reading
      /\ mode = "done" /\ stub \in Nat /\ IsSequence(yielded)
      /\ reader' = [reader EXCEPT !.state = "end"] /\ yielded' = yielded
  BY DEF EntriesEnd, Reading, ReaderInv
<1>2. /\ reader'.state = "end" /\ reader'.head = reader.head
      /\ reader'.hint = reader.hint /\ reader'.base = reader.base
      /\ reader'.pos = reader.pos
      /\ reader' = [state |-> reader'.state, pos |-> reader'.pos,
                    head |-> reader'.head, hint |-> reader'.hint,
                    base |-> reader'.base]
  BY <1>1 DEF ReaderInv
<1>3. ASSUME Readable
      PROVE  OnItsWay'
  <2>1. OnItsWay
    BY <1>1, <1>3 DEF ReaderInv
  <2>2. n = Len(files)
    BY <1>0, <1>1, <2>1, ReaderFinds
  <2>3. \A i \in 1..Len(yielded') : yielded'[i] = Original(files[i])'
    BY <1>1, <2>1, ReadingLeaves DEF OnItsWay
  <2>4. reader'.pos = stub' + NextAt(Len(yielded))'
    <3>1. NextAt(Len(yielded))' = NextAt(Len(yielded))
      BY <1>1, ReadingLeaves DEF NextAt
    <3>2. QED
      BY <1>1, <1>2, <2>1, <3>1, ReadingLeaves DEF OnItsWay
  <2>5. Len(yielded') = Len(files') /\ Len(yielded') <= Len(files')
    BY <1>0, <1>1, <2>2, ReadingLeaves
  <2>6. /\ reader'.base = stub' /\ reader'.hint = Len(files')
        /\ reader'.head = stub' + DirectoryEnd'
    BY <1>1, <1>2, <2>1, ReadingLeaves DEF OnItsWay
  <2>7. QED
    BY <1>2, <2>3, <2>4, <2>5, <2>6 DEF OnItsWay
<1>4. mode' = "done" /\ stub' \in Nat /\ (Readable' <=> Readable)
  BY <1>1, ReadingLeaves
<1>5. reader'.state # "closed"
  BY <1>2
<1>6. QED
  BY <1>1, <1>2, <1>3, <1>4, <1>5 DEF ReaderInv

LEMMA ReaderFails ==
  ASSUME TypeOK, TextInv, DirectoryInv, ReaderInv, NextEntryFails
  PROVE  ReaderInv'
<1>0. PICK n \in Nat : n = Len(yielded)
  BY SequenceGrows DEF ReaderInv
<1>1. /\ reader.state = "open" /\ reader.pos # reader.head /\ Reading
      /\ Readables = {} /\ mode = "done" /\ stub \in Nat /\ IsSequence(yielded)
      /\ reader' = [reader EXCEPT !.state = "error"] /\ yielded' = yielded
  BY DEF NextEntryFails, Reading, ReaderInv
<1>2. /\ reader'.state = "error"
      /\ reader' = [state |-> reader'.state, pos |-> reader'.pos,
                    head |-> reader'.head, hint |-> reader'.hint,
                    base |-> reader'.base]
  BY <1>1 DEF ReaderInv
<1>3. ~Readable
  <2>1. ~OnItsWay
    BY <1>0, <1>1, ReaderFinds
  <2>2. QED
    BY <1>1, <2>1 DEF ReaderInv
<1>4. mode' = "done" /\ stub' \in Nat /\ (Readable' <=> Readable)
  BY <1>1, ReadingLeaves
<1>5. QED
  BY <1>1, <1>2, <1>3, <1>4 DEF ReaderInv

(***************************************************************************)
(* The invariant of the reader, at every step.                             *)
(***************************************************************************)
THEOREM ReaderAlways == RTSpec => []ReaderInv
<1>1. RTInit => ReaderInv
  BY EmptySeq DEF RTInit, ReaderInv, IsSequence
<1>2. TypeOK /\ TextInv /\ DirectoryInv /\ ReaderInv
        /\ [RTNext]_<<vars, readerVars>> => ReaderInv'
  <2> SUFFICES ASSUME TypeOK, TextInv, DirectoryInv, ReaderInv,
                      [RTNext]_<<vars, readerVars>>
               PROVE  ReaderInv'
    OBVIOUS
  <2>1. CASE Next /\ UNCHANGED readerVars
    <3>1. reader' = reader /\ yielded' = yielded /\ stub' = stub /\ mode # "done"
      BY <2>1, DoneIsDone DEF readerVars
    <3>2. reader.state = "closed"
      BY <3>1 DEF ReaderInv
    <3>3. QED
      BY <3>1, <3>2 DEF ReaderInv
  <2>2. CASE UNCHANGED <<vars, readerVars>>
    <3>1. UNCHANGED <<mode, files, dir, central, tail, stub, reader, yielded>>
      BY <2>2 DEF vars, archiveVars, recordVars, readerVars
    <3>2. (Readable' <=> Readable) /\ (OnItsWay' <=> OnItsWay)
      BY <3>1 DEF Readable, SilentZip64, OnItsWay, NextAt, DirectoryEnd, Original
    <3>3. QED
      BY <3>1, <3>2 DEF ReaderInv
  <2>3. QED
    BY <2>1, <2>2, ReaderOpens, ReaderNext, ReaderEnds, ReaderFails DEF RTNext
<1>3. QED
  BY <1>1, <1>2, ReaderOnlyReads, TypeCorrect, TextAlways, DirectoryAlways, PTL
     DEF RTSpec

LEMMA ReaderShows ==
  ASSUME TypeOK, ReaderInv
  PROVE  ReadsBack
<1> SUFFICES ASSUME Readable
             PROVE  ReadsBackAll
  BY DEF ReadsBack
<1>1. CASE reader.state = "closed"
  BY <1>1 DEF ReadsBackAll
<1>2. CASE reader.state # "closed"
  <2>1. OnItsWay
    BY <1>2 DEF ReaderInv
  <2>2. ASSUME reader.state = "end"
        PROVE  yielded = [k \in 1..Len(files) |-> Original(files[k])]
    <3>1. Len(yielded) = Len(files)
      BY <2>1, <2>2 DEF OnItsWay
    <3>2. yielded = [k \in 1..Len(yielded) |-> yielded[k]]
      BY DEF ReaderInv, IsSequence
    <3>3. \A k \in 1..Len(yielded) : yielded[k] = Original(files[k])
      BY <2>1 DEF OnItsWay
    <3>4. QED
      BY <3>1, <3>2, <3>3
  <2>3. QED
    BY <2>1, <2>2 DEF ReadsBackAll, OnItsWay
<1>3. QED
  BY <1>1, <1>2

(***************************************************************************)
(* Reading back a finished archive yields every listed entry with its      *)
(* sizes and the place of its local header, in order, and then the end of  *)
(* the directory, for all sizes, limits and stubs but the two exceptions   *)
(* of Readable.                                                            *)
(***************************************************************************)
THEOREM RoundTrip == RTSpec => []ReadsBack
<1>1. TypeOK /\ ReaderInv => ReadsBack
  BY ReaderShows
<1>2. QED
  BY <1>1, ReaderOnlyReads, TypeCorrect, ReaderAlways, PTL

=============================================================================
