------------------------------ MODULE ZipWriter ------------------------------
(***************************************************************************)
(* ZipArchiveWriter, ZipEntryWriter and ZipDataWriter (writer.rs): the     *)
(* calls an application makes to write one archive, on a sink that may     *)
(* refuse any write after accepting part of it.                            *)
(*                                                                         *)
(* Bytes are abstracted to lengths, except the bytes of names and          *)
(* comments: the writer keeps those of all entries in two flat buffers and *)
(* slices them apart in finish(), so a byte is modelled by the number of   *)
(* the call that supplied it.  What the sink holds is modelled by the      *)
(* records that begin at known positions (locals, descs, central, tail).   *)
(***************************************************************************)
EXTENDS ZipFormat

CONSTANTS
  Calls,            (* what a call of new_file/new_dir may ask for         *)
  ArchiveComments,  (* lengths an archive comment may have                 *)
  Prelude,          (* bytes before the archive (with_offset)              *)
  MaxCalls,         (* bound: calls of start()/create()                    *)
  Chunks,           (* bound: numbers of bytes one write may pass on       *)
  MaxData,          (* bound: bytes of data of one entry, in and out       *)
  IoFaults          (* may the sink refuse a write?                        *)

(***************************************************************************)
(* A call: the kind of entry, whether its path ends in a slash, the        *)
(* lengths of name and comment and of the extra fields it put in the local *)
(* header and in the central directory, whether it has a modification      *)
(* time, whether the data is stored (no encoder between the data writer    *)
(* and the entry) and whether its CRC is calculated.                       *)
(***************************************************************************)
Call == [kind : {"file", "dir"}, slash : BOOLEAN, name_len : Nat,
         comment_len : Nat, local : Nat, central : Nat, mtime : BOOLEAN,
         stored : BOOLEAN, calculate : BOOLEAN]

ASSUME WriterAssumption ==
  /\ Calls \subseteq Call
  /\ ArchiveComments \subseteq Nat
  /\ Chunks \subseteq Nat \ {0}
  /\ Prelude \in Nat /\ MaxCalls \in Nat /\ MaxData \in Nat
  /\ IoFaults \in BOOLEAN

VARIABLES
  mode,             (* who may be called next: see Modes                   *)
  files,            (* ZipArchiveWriter.files                              *)
  file_names,       (* the name bytes of all entries, one after the other  *)
  file_comments,    (* the same for their comments                         *)
  archive_comment,  (* length of the archive comment                       *)
  count,            (* CountWriter.count                                   *)
  entry,            (* the ZipEntryWriter and its ZipDataWriter            *)
  dir,              (* the locals of finish()                              *)
  sink,             (* bytes in the sink                                   *)
  locals,           (* local headers in the sink                           *)
  descs,            (* data descriptors in the sink                        *)
  central,          (* central directory records in the sink               *)
  tail,             (* end of central directory: at most one               *)
  given             (* history: the calls so far                           *)

archiveVars == <<files, file_names, file_comments, archive_comment>>
sinkVars == <<sink, count>>
recordVars == <<locals, descs, central, tail>>
vars == <<mode, archiveVars, entry, dir, sinkVars, recordVars, given>>

(***************************************************************************)
(* A ZipEntryWriter borrows the archive exclusively, so at most one exists *)
(* and nothing else happens to the archive until it is consumed.           *)
(***************************************************************************)
EntryOpen == mode \in {"writing", "summed", "stuck"}

Modes == {"idle",       \* the archive is free
          "writing",    \* an entry and its data writer exist
          "summed",     \* the data writer was finished, its output is held
          "stuck",      \* the data writer failed to finish: no output
          "directory",  \* finish() is writing the central directory
          "done", "failed"}

NoEntry == [id |-> 0, name_len |-> 0, comment_len |-> 0,
            local_header_offset |-> 0, compressed_bytes |-> 0,
            uncompressed_bytes |-> 0, crc |-> 0, central_size |-> 0]

\* Mutant: the loop begins before the first file.
DirectoryBefore(offset) ==
  [offset |-> offset, k |-> 0, name_offset |-> 0, comment_offset |-> 0]

\* The locals of finish() when its loop begins.
DirectoryAt(offset) ==
  [offset |-> offset, k |-> 1, name_offset |-> 0, comment_offset |-> 0]

Init ==
  /\ mode = "idle"
  /\ files = <<>> /\ file_names = <<>> /\ file_comments = <<>>
  /\ archive_comment = 0
  /\ count = Prelude /\ sink = Prelude
  /\ entry = NoEntry
  /\ dir = DirectoryAt(0)
  /\ locals = {} /\ descs = {} /\ central = <<>> /\ tail = <<>>
  /\ given = <<>>

-----------------------------------------------------------------------------
(* The sink.                                                               *)

\* write_all of n bytes, all accepted and counted.
Accept(n) == sink' = sink + n /\ count' = count + n

\* Mutant: the bytes a failed write_all did write are not counted.
RefuseUncounted(n) ==
  /\ IoFaults
  /\ \E m \in 0..(n - 1) : sink' = sink + m /\ count' = count

\* write_all of n bytes fails after m < n of them were accepted.
Refuse(n) ==
  /\ IoFaults
  /\ \E m \in 0..(n - 1) : sink' = sink + m /\ count' = count + m
-----------------------------------------------------------------------------
(* Starting an entry.                                                      *)

Id == Len(given) + 1

Bytes(id, n) == [i \in 1..n |-> id]

NotAllowed(o) == o.name_len > U16MAX \/ (o.kind = "dir" /\ ~o.slash)

\* The extra fields of the central directory with the timestamp added.
CentralExtra(o) == IF o.mtime THEN o.central + FieldHead + TimeField
                              ELSE o.central

\* The two checks made after the name was put in file_names.
LateError(o) == o.comment_len > U16MAX \/ (o.mtime /\ CentralExtra(o) > U16MAX)

HeaderBytes(o) == LocalSize + o.name_len + o.local

Idle == mode = "idle" /\ Len(given) < MaxCalls

\* The path is refused before anything is touched.
RejectPath(o) ==
  /\ Idle /\ NotAllowed(o)
  /\ given' = Append(given, o)
  /\ UNCHANGED <<mode, archiveVars, entry, dir, sinkVars, recordVars>>

\* The call fails after its name was appended to file_names.
StartFails(o) ==
  /\ Idle /\ ~NotAllowed(o)
  /\ IF LateError(o) THEN UNCHANGED sinkVars ELSE Refuse(HeaderBytes(o))
  /\ file_names' = file_names \o Bytes(Id, o.name_len)
  /\ given' = Append(given, o)
  /\ UNCHANGED <<mode, files, file_comments, archive_comment, entry, dir,
                 recordVars>>

\* Mutant: the comment is not kept.
KeepNameOnly(o) ==
  /\ file_names' = file_names \o Bytes(Id, o.name_len)
  /\ UNCHANGED file_comments

\* What finish() will need of the call.
KeepText(o) ==
  /\ file_names' = file_names \o Bytes(Id, o.name_len)
  /\ file_comments' = file_comments \o Bytes(Id, o.comment_len)

\* write_local_header, and the offset at which it was written.
PutLocalHeader(o) ==
  /\ Accept(HeaderBytes(o))
  /\ locals' = locals \cup {[id |-> Id, at |-> sink, len |-> HeaderBytes(o)]}
  /\ KeepText(o)
  /\ given' = Append(given, o)
  /\ UNCHANGED <<archive_comment, dir, descs, central, tail>>

Started(o) == [NoEntry EXCEPT !.id = Id,
                              !.name_len = o.name_len,
                              !.comment_len = o.comment_len,
                              !.local_header_offset = count,
                              !.central_size = CentralExtra(o)]

FileHeader(e) ==
  [id |-> e.id, name_len |-> e.name_len, comment_len |-> e.comment_len,
   local_header_offset |-> e.local_header_offset,
   compressed_size |-> e.compressed_bytes,
   uncompressed_size |-> e.uncompressed_bytes,
   crc |-> e.crc, central_size |-> e.central_size]

\* new_file(..).start() succeeds and the data writer is wrapped.
StartFile(o) ==
  /\ Idle /\ ~NotAllowed(o) /\ ~LateError(o) /\ o.kind = "file"
  /\ PutLocalHeader(o)
  /\ entry' = Started(o)
  /\ mode' = "writing"
  /\ UNCHANGED files

\* new_dir(..).create() succeeds: the entry is listed at once.
CreateDir(o) ==
  /\ Idle /\ ~NotAllowed(o) /\ ~LateError(o) /\ o.kind = "dir"
  /\ PutLocalHeader(o)
  /\ files' = Append(files, FileHeader(Started(o)))
  /\ UNCHANGED <<mode, entry>>

SetComment(n) ==
  /\ mode = "idle" /\ archive_comment # n
  /\ archive_comment' = n
  /\ UNCHANGED <<mode, files, file_names, file_comments, entry, dir, sinkVars,
                 recordVars, given>>

-----------------------------------------------------------------------------
(* Data of the open entry.                                                 *)

Options == given[entry.id]

UnchangedByData == UNCHANGED <<archiveVars, dir, recordVars, given>>

\* Mutant: the CRC covers what was passed in, not what was accepted.
CrcOfRequest(n, m) == n

\* Of the n bytes passed to a write that accepted m, those the CRC covers.
CrcBytes(n, m) == m

\* ZipEntryWriter::write: e bytes reach the sink and are counted twice, by
\* the CountWriter and by the entry.
Emit(e) ==
  /\ entry.compressed_bytes + e <= MaxData
  /\ Accept(e)

(***************************************************************************)
(* ZipDataWriter::write of n bytes.  The inner writer accepts m of them.   *)
(* For a stored entry it is the ZipEntryWriter itself; an encoder passes   *)
(* on any number e of compressed bytes, and may have passed some on when   *)
(* it fails (m = 0, as the error leaves the data writer's counters alone). *)
(* The CRC is modelled by the number of bytes it covers.                   *)
(***************************************************************************)
Write(n, m, e) ==
  /\ mode = "writing"
  /\ m <= n /\ entry.uncompressed_bytes + m <= MaxData
  /\ Options.stored => e = m
  /\ Emit(e)
  /\ entry' = [entry EXCEPT !.compressed_bytes = @ + e,
                            !.uncompressed_bytes = @ + m,
                            !.crc = IF Options.calculate
                                      THEN @ + CrcBytes(n, m) ELSE @]
  /\ UNCHANGED mode
  /\ UnchangedByData

\* ZipDataWriter::finish: flushing may push bytes out of an encoder.
FinishData(e, ok) ==
  /\ mode = "writing"
  /\ Options.stored => e = 0
  /\ ~ok => IoFaults
  /\ Emit(e)
  /\ entry' = [entry EXCEPT !.compressed_bytes = @ + e]
  /\ mode' = IF ok THEN "summed" ELSE "stuck"
  /\ UnchangedByData

\* The encoder, handed back by FinishData, writes its epilogue.
Epilogue(e) ==
  /\ mode = "summed" /\ ~Options.stored /\ e > 0
  /\ Emit(e)
  /\ entry' = [entry EXCEPT !.compressed_bytes = @ + e]
  /\ UNCHANGED mode
  /\ UnchangedByData

WideEntry == WideDescriptor(entry.compressed_bytes, entry.uncompressed_bytes)

\* ZipEntryWriter::finish: the descriptor first, then the entry is listed.
FinishEntry ==
  LET n == DescriptorSize(WideEntry)
  IN  /\ mode = "summed"
      /\ Accept(n)
      /\ descs' = descs \cup {[id |-> entry.id, at |-> sink, len |-> n]}
      /\ files' = Append(files, FileHeader(entry))
      /\ entry' = NoEntry
      /\ mode' = "idle"
      /\ UNCHANGED <<file_names, file_comments, archive_comment, dir, locals,
                     central, tail, given>>

\* Mutant: the entry is listed although its descriptor could not be written.
FinishEntryFailsListed ==
  /\ mode = "summed"
  /\ Refuse(DescriptorSize(WideEntry))
  /\ files' = Append(files, FileHeader(entry))
  /\ entry' = NoEntry
  /\ mode' = "idle"
  /\ UNCHANGED <<file_names, file_comments, archive_comment, dir, recordVars,
                 given>>

\* The descriptor cannot be written: the entry is gone.
FinishEntryFails ==
  /\ mode = "summed"
  /\ Refuse(DescriptorSize(WideEntry))
  /\ entry' = NoEntry
  /\ mode' = "idle"
  /\ UNCHANGED <<archiveVars, dir, recordVars, given>>

\* The entry writer is dropped without finish().
DropEntry ==
  /\ EntryOpen
  /\ entry' = NoEntry
  /\ mode' = "idle"
  /\ UNCHANGED <<archiveVars, dir, sinkVars, recordVars, given>>

-----------------------------------------------------------------------------
(* ZipArchiveWriter::finish.                                               *)

Zip64Fits(f) == f.central_size + Zip64FieldSize(f) <= U16MAX

Finalized(f) == [f EXCEPT !.central_size = @ + Zip64FieldSize(f)]

\* Mutant: the zip64 field is added without a look at what it adds up to.
BeginFinishUnchecked ==
  /\ mode = "idle"
  /\ archive_comment <= U16MAX
  /\ files' = [k \in 1..Len(files) |-> Finalized(files[k])]
  /\ dir' = DirectoryAt(count)
  /\ mode' = "directory"
  /\ UNCHANGED <<file_names, file_comments, archive_comment, entry, sinkVars,
                 recordVars, given>>

BeginFinish ==
  /\ mode = "idle"
  /\ archive_comment <= U16MAX
  /\ \A k \in 1..Len(files) : Zip64Fits(files[k])
  /\ files' = [k \in 1..Len(files) |-> Finalized(files[k])]
  /\ dir' = DirectoryAt(count)
  /\ mode' = "directory"
  /\ UNCHANGED <<file_names, file_comments, archive_comment, entry, sinkVars,
                 recordVars, given>>

\* finish() consumes the archive, so an error ends everything.
FinishRefused ==
  /\ mode = "idle"
  /\ \/ archive_comment > U16MAX
     \/ \E k \in 1..Len(files) : ~Zip64Fits(files[k])
  /\ mode' = "failed"
  /\ UNCHANGED <<archiveVars, entry, dir, sinkVars, recordVars, given>>

Slice(buffer, from, n) == SubSeq(buffer, from + 1, from + n)

CentralRecord(f) ==
  [id |-> f.id,
   at |-> sink,
   len |-> CentralSize + f.name_len + f.central_size + f.comment_len,
   compressed_size |-> Sat32(f.compressed_size),
   uncompressed_size |-> Sat32(f.uncompressed_size),
   local_header_offset |-> Sat32(f.local_header_offset),
   zip64 |-> Zip64Words(f),
   crc |-> f.crc,
   name |-> Slice(file_names, dir.name_offset, f.name_len),
   comment |-> Slice(file_comments, dir.comment_offset, f.comment_len)]

\* Mutant: the comments are not advanced.
NextTextNameOnly(f) == [dir EXCEPT !.k = @ + 1, !.name_offset = @ + f.name_len]

NextText(f) == [dir EXCEPT !.k = @ + 1,
                           !.name_offset = @ + f.name_len,
                           !.comment_offset = @ + f.comment_len]

\* One round of the loop over the files.
WriteCentral ==
  LET f == files[dir.k]
      rec == CentralRecord(f)
  IN  /\ mode = "directory" /\ dir.k <= Len(files)
      /\ Accept(rec.len)
      /\ central' = Append(central, rec)
      /\ dir' = NextText(f)
      /\ UNCHANGED <<mode, archiveVars, entry, locals, descs, tail, given>>

DirectorySize == count - dir.offset

FileForcesZip64 == \E k \in 1..Len(files) : NeedsZip64(files[k])

\* Mutant: the offset of the directory is forgotten.
ArchiveNeedsZip64IgnoresOffset ==
  \/ Len(files) >= U16MAX
  \/ Large(DirectorySize)
  \/ FileForcesZip64

ArchiveNeedsZip64 ==
  \/ Len(files) >= U16MAX
  \/ Large(DirectorySize)
  \/ Large(dir.offset)
  \/ FileForcesZip64

\* The records that end the archive; eocd64 is meaningful only with zip64.
EndRecords ==
  LET z == ArchiveNeedsZip64
      z64Size == IF z THEN Eocd64Size + Locator64Size ELSE 0
  IN  [zip64 |-> z,
       at |-> sink + z64Size,
       end |-> sink + z64Size + EocdSize + archive_comment,
       eocd |-> [entries |-> Sat16(Len(files)),
                 cd_size |-> Sat32(DirectorySize),
                 cd_offset |-> Sat32(dir.offset)],
       eocd64 |-> [at |-> sink,
                   entries |-> Len(files),
                   cd_size |-> DirectorySize,
                   cd_offset |-> dir.offset],
       \* the offset the zip64 locator announces
       locator |-> count]

WriteTail ==
  /\ mode = "directory" /\ dir.k > Len(files)
  /\ Accept(EndRecords.end - sink)
  /\ tail' = <<EndRecords>>
  /\ mode' = "done"
  /\ UNCHANGED <<archiveVars, entry, dir, locals, descs, central, given>>

\* A write of the directory or of the tail, or the last flush, fails.
FinishFails ==
  /\ mode = "directory"
  /\ Refuse(IF dir.k <= Len(files) THEN CentralRecord(files[dir.k]).len
                                   ELSE EndRecords.end - sink + 1)
  /\ mode' = "failed"
  /\ UNCHANGED <<archiveVars, entry, dir, recordVars, given>>

-----------------------------------------------------------------------------

Create == \E o \in Calls :
  RejectPath(o) \/ StartFails(o) \/ StartFile(o) \/ CreateDir(o)

EntryStep ==
  \/ \E n \in Chunks : \E m, e \in Chunks \cup {0} : Write(n, m, e)
  \/ \E e \in Chunks \cup {0}, ok \in BOOLEAN : FinishData(e, ok)
  \/ \E e \in Chunks : Epilogue(e)
  \/ FinishEntry
  \/ FinishEntryFails
  \/ DropEntry

FinishStep == WriteCentral \/ WriteTail \/ FinishFails

Next ==
  \/ Create
  \/ \E n \in ArchiveComments : SetComment(n)
  \/ EntryStep
  \/ BeginFinish
  \/ FinishRefused
  \/ FinishStep

Spec == Init /\ [][Next]_vars

-----------------------------------------------------------------------------
(* Properties.                                                             *)

EntryState ==
  [id : Nat, name_len : Nat, comment_len : Nat, local_header_offset : Nat,
   compressed_bytes : Nat, uncompressed_bytes : Nat, crc : Nat,
   central_size : Nat]

FileState ==
  [id : Nat, name_len : Nat, comment_len : Nat, local_header_offset : Nat,
   compressed_size : Nat, uncompressed_size : Nat, crc : Nat,
   central_size : Nat]

DirState ==
  [offset : Nat, k : Nat, name_offset : Nat, comment_offset : Nat]

Placed == [id : Nat, at : Nat, len : Nat]

\* The types of the variables (central and tail are described by the
\* properties below).
TypeOK ==
  /\ mode \in Modes
  /\ files \in Seq(FileState)
  /\ file_names \in Seq(Nat) /\ file_comments \in Seq(Nat)
  /\ archive_comment \in Nat
  /\ count \in Nat /\ sink \in Nat
  /\ entry \in EntryState
  /\ dir \in DirState /\ dir.k >= 1
  /\ locals \subseteq Placed /\ descs \subseteq Placed
  /\ given \in Seq(Call)

(***************************************************************************)
(* Every listed entry can be found and its data delimited as get_entry     *)
(* does: its local header begins at the offset the directory will give,    *)
(* and behind header and compressed_size bytes of data stands its own data *)
(* descriptor.  Writes that failed half way earlier, short writes and      *)
(* abandoned entries must not shift anything.                              *)
(***************************************************************************)
EntriesReadable ==
  \A k \in 1..Len(files) : LET f == files[k] IN
    \E l \in locals :
      /\ l.id = f.id /\ l.at = f.local_header_offset
      /\ given[f.id].kind = "file" =>
           \E d \in descs : d.id = f.id /\ d.at = l.at + l.len + f.compressed_size

(***************************************************************************)
(* An entry is listed exactly when it is complete in the sink: directories *)
(* with their local header, files with their data descriptor; and the list *)
(* is in the order of the calls.                                           *)
(***************************************************************************)
ListedIffComplete ==
  /\ {files[k].id : k \in 1..Len(files)} =
       {d.id : d \in descs} \cup
       {l.id : l \in {x \in locals : given[x.id].kind = "dir"}}
  /\ \A j, k \in 1..Len(files) : j < k => files[j].id < files[k].id

(***************************************************************************)
(* The sizes and the CRC put in the descriptor describe the same bytes,    *)
(* however short the inner writes were: the CRC covers exactly the         *)
(* uncompressed bytes that were accepted, and a stored entry has equal     *)
(* sizes although two layers count them.                                   *)
(***************************************************************************)
DataAccounted ==
  \A k \in 1..Len(files) : LET f == files[k] o == given[f.id] IN
    o.kind = "file" =>
      /\ f.crc = IF o.calculate THEN f.uncompressed_size ELSE 0
      /\ o.stored => f.compressed_size = f.uncompressed_size

(***************************************************************************)
(* finish() slices the flat name and comment buffers; the slice of the     *)
(* next entry never leaves them (it would panic), not even after calls     *)
(* that left bytes behind.                                                 *)
(***************************************************************************)
SlicesInBounds ==
  mode = "directory" /\ dir.k <= Len(files) =>
    /\ dir.name_offset + files[dir.k].name_len <= Len(file_names)
    /\ dir.comment_offset + files[dir.k].comment_len <= Len(file_comments)

\* Of the calls before call id, those with bytes in the buffer are listed: no
\* call that was refused or failed, and no dropped entry, left any there.
OnlyListedBefore(id, buffer) ==
  \A i \in 1..Len(buffer) :
    buffer[i] < id => \E j \in 1..Len(files) : files[j].id = buffer[i]

OwnName(k) ==
  central[k].name = Bytes(files[k].id, given[files[k].id].name_len)

OwnComment(k) ==
  central[k].comment = Bytes(files[k].id, given[files[k].id].comment_len)

(***************************************************************************)
(* The central directory gives an entry the name it was created with       *)
(* unless a call before it left bytes of a name behind, and its comment    *)
(* unless one left bytes of a comment behind.  So what fails or is given   *)
(* up shifts no entry before it; it shifts none at all if it came before   *)
(* its text was kept or has an empty one; and a refused start(), which     *)
(* leaves only its name, shifts no comment.                                *)
(***************************************************************************)
TextsFollowEntries ==
  \A k \in 1..Len(central) :
    /\ central[k].id = files[k].id
    /\ OnlyListedBefore(files[k].id, file_names) => OwnName(k)
    /\ OnlyListedBefore(files[k].id, file_comments) => OwnComment(k)

(***************************************************************************)
(* Both together: the flat buffers and the entries keep pace.              *)
(***************************************************************************)
TextKeepsPace == SlicesInBounds /\ TextsFollowEntries

(***************************************************************************)
(* The same without the conditions.  start() validates the comment ("This  *)
(* is validated when the entry is created"), so a caller may catch the     *)
(* error and go on with the next entry.                                    *)
(***************************************************************************)
NamesAlwaysFollowEntries ==
  \A k \in 1..Len(central) : OwnName(k) /\ OwnComment(k)

(***************************************************************************)
(* What from_parts reconstructs from a written directory record are the    *)
(* sizes and the offset of the entry, at and around the 32-bit limit, and  *)
(* it expects the width its data descriptor was written with.              *)
(***************************************************************************)
RecordsResolve ==
  \A k \in 1..Len(central) : LET f == files[k] rec == central[k] IN
    /\ Resolve(rec) = [uncompressed_size   |-> f.uncompressed_size,
                       compressed_size     |-> f.compressed_size,
                       local_header_offset |-> f.local_header_offset]
    /\ \A d \in descs :
         d.id = f.id => d.len = DescriptorSize(ExpectsWideDescriptor(rec))

(***************************************************************************)
(* A reader that sees a saturated field in the end record finds a zip64    *)
(* record with the true values right where the locator says; one that sees *)
(* none has the true values already.                                       *)
(***************************************************************************)
EndRecordsResolve ==
  \A i \in 1..Len(tail) :
    LET t == tail[i]
        start == IF central = <<>> THEN t.eocd64.at ELSE central[1].at
        actual == [entries   |-> Len(central),
                   cd_size   |-> t.eocd64.at - start,
                   cd_offset |-> start]
    IN  IF HasZip64Sentinel(t.eocd)
        THEN /\ t.zip64 /\ t.locator = t.eocd64.at
             /\ [f \in DOMAIN actual |-> t.eocd64[f]] = actual
        ELSE t.eocd = actual

(***************************************************************************)
(* finish() may refuse an archive whose data is all written, because a     *)
(* zip64 field finds no room in an entry's extra fields or the comment is  *)
(* too long: then nothing of the directory is in the sink, as opposed to a *)
(* directory with a length field that has wrapped, or with half its        *)
(* records.                                                                *)
(***************************************************************************)
RefusedWhole ==
  central # <<>> \/ tail # <<>> =>
    /\ archive_comment <= U16MAX
    /\ \A k \in 1..Len(files) : files[k].central_size <= U16MAX

(***************************************************************************)
(* All three: the directory and its end lead a reader to true values.      *)
(***************************************************************************)
DirectoryResolves == RecordsResolve /\ EndRecordsResolve /\ RefusedWhole

=============================================================================
