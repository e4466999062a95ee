---------------------------- MODULE ZipRoundTrip ----------------------------
(***************************************************************************)
(* The archive a ZipWriter has finished, read back: the end of central     *)
(* directory is located and the entries are iterated (locator.rs,          *)
(* ZipSliceArchive and ZipSliceEntries of archive.rs).                     *)
(*                                                                         *)
(* The reader sees what the sink holds, behind a stub the writer was not   *)
(* told of, and nothing of the writer's state.  The signatures at known    *)
(* positions are those the writer put there: data that happens to look     *)
(* like a record is not modelled here.                                     *)
(***************************************************************************)
EXTENDS ZipWriter

CONSTANT Stubs  (* numbers of bytes that may have been put before a sink   *)

ASSUME StubAssumption == Stubs \subseteq Nat

VARIABLES
  stub,      (* bytes before the archive, known when it is opened          *)
  reader,    (* state, position and bounds of the entries iterator         *)
  yielded    (* the records next_entry returned so far                     *)

readerVars == <<stub, reader, yielded>>

RTInit ==
  /\ Init
  /\ stub = 0
  /\ reader = [state |-> "closed", pos |-> 0, head |-> 0, hint |-> 0,
               base |-> 0]
  /\ yielded = <<>>

\* The record whose signature stands at a position behind a stub of s bytes.
RecordsAt(pos, s) == {k \in 1..Len(central) : s + central[k].at = pos}

\* The end of central directory, with its positions behind the stub.
Behind(t, s) == [t EXCEPT !.at = @ + s, !.eocd64.at = @ + s]

(***************************************************************************)
(* locate_in_byte_slice_impl on an archive that ends with t.  Only a       *)
(* saturated field makes it look for the locator in front of the end       *)
(* record; the directory then ends where the zip64 record begins, else at  *)
(* the end record itself.                                                  *)
(***************************************************************************)
UsesZip64(t) == HasZip64Sentinel(t.eocd) /\ t.zip64

Located(t) ==
  IF UsesZip64(t)
  THEN [offset |-> t.eocd64.cd_offset, entries |-> t.eocd64.entries,
        head |-> IF t.locator = 0 THEN t.at ELSE t.locator]
  ELSE [offset |-> t.eocd.cd_offset, entries |-> t.eocd.entries,
        head |-> t.at]

Locates(t) ==
  /\ UsesZip64(t) => t.locator = t.eocd64.at
  /\ Located(t).offset <= Located(t).head

\* The correction for bytes in front of the archive: without a record at
\* the stated offset, one that directly precedes the end record is tried.
Guess(t) == IF t.eocd.cd_size > t.at THEN 0 ELSE t.at - t.eocd.cd_size

Corrected(t, s) ==
  /\ RecordsAt(Located(t).offset, s) = {}
  /\ ~UsesZip64(t) \/ t.locator = 0
  /\ RecordsAt(Guess(t), s) # {}

\* Mutant: the local header offsets are not corrected.
NoBaseOffset(t, s) == 0

BaseOffset(t, s) ==
  IF Corrected(t, s) /\ Guess(t) > t.eocd.cd_offset
  THEN Guess(t) - t.eocd.cd_offset ELSE 0

\* ZipLocator::locate_in_slice, then ZipSliceArchive::entries.
Open(s) ==
  /\ mode = "done" /\ reader.state = "closed"
  /\ stub' = s
  /\ LET t == Behind(tail[1], s) loc == Located(t) IN
       reader' = [state |-> IF Locates(t) THEN "open" ELSE "error",
                  pos |-> IF Corrected(t, s) THEN Guess(t) ELSE loc.offset,
                  head |-> loc.head, hint |-> loc.entries,
                  base |-> BaseOffset(t, s)]
  /\ UNCHANGED yielded
  /\ UNCHANGED vars

\* The complete record next_entry finds, if there is one.
Readables ==
  {k \in RecordsAt(reader.pos, stub) : reader.pos + central[k].len <= reader.head}

Reading == reader.state = "open" /\ UNCHANGED <<stub, vars>>

\* ZipSliceEntries::next_entry
EntriesEnd ==
  /\ Reading
  /\ reader.pos = reader.head
  /\ reader' = [reader EXCEPT !.state = "end"] /\ UNCHANGED yielded

NextEntry ==
  /\ Reading
  /\ reader.pos # reader.head
  /\ \E k \in Readables :
       /\ reader' = [reader EXCEPT !.pos = @ + central[k].len]
       /\ yielded' = Append(yielded,
            [id |-> central[k].id,
             sizes |-> [Resolve(central[k]) EXCEPT !.local_header_offset =
                                                     @ + reader.base]])

NextEntryFails ==
  /\ Reading
  /\ reader.pos # reader.head /\ Readables = {}
  /\ reader' = [reader EXCEPT !.state = "error"] /\ UNCHANGED yielded

RTNext ==
  \/ Next /\ UNCHANGED readerVars
  \/ \E s \in Stubs : Open(s)
  \/ EntriesEnd
  \/ NextEntry
  \/ NextEntryFails

RTSpec == RTInit /\ [][RTNext]_<<vars, readerVars>>

-----------------------------------------------------------------------------

\* The zip64 records were written but no field of the end record says so.
SilentZip64 ==
  \E i \in 1..Len(tail) : tail[i].zip64 /\ ~HasZip64Sentinel(tail[i].eocd)

Original(f) ==
  [id |-> f.id,
   sizes |-> [uncompressed_size   |-> f.uncompressed_size,
              compressed_size     |-> f.compressed_size,
              local_header_offset |-> stub + f.local_header_offset]]

ReadsBackAll ==
  /\ reader.state # "error"
  /\ reader.state = "end" =>
       /\ yielded = [k \in 1..Len(files) |-> Original(files[k])]
       /\ reader.hint = Len(files)

(***************************************************************************)
(* Reading back an archive yields every listed entry with its sizes and    *)
(* the place of its local header, in order, and then the end of the        *)
(* directory; the hint of the end record is their number.  Exceptions:     *)
(* SilentZip64, and a prepended stub for an archive that is empty or in    *)
(* zip64 form, which the reader's correction does not cover.               *)
(***************************************************************************)
Readable ==
  /\ ~SilentZip64
  /\ stub > 0 => files # <<>> /\ \A i \in 1..Len(tail) : ~UsesZip64(tail[i])

ReadsBack == Readable => ReadsBackAll

(***************************************************************************)
(* The exception is possible only when an entry's uncompressed size        *)
(* reached the 32-bit limit while no compressed size, offset, directory    *)
(* size or number of entries reached theirs.                               *)
(***************************************************************************)
SilentOnlyByCompression ==
  SilentZip64 =>
    /\ \E k \in 1..Len(files) : Large(files[k].uncompressed_size)
    /\ \A k \in 1..Len(files) :
         ~Large(files[k].compressed_size) /\ ~Large(files[k].local_header_offset)
    /\ Len(files) < U16MAX

(***************************************************************************)
(* Without the exception: what finish() wrote can be iterated to its end   *)
(* ("ZIP64 format is used automatically when thresholds are exceeded").    *)
(***************************************************************************)
EveryArchiveReadsBack == stub = 0 => reader.state # "error"

=============================================================================
