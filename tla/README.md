# A verification project for rawzip

rawzip reads and writes ZIP archives. This directory holds TLA+ modules
translated from its source, TLC configurations that check them on small
instances, and proofs checked by TLAPS. Paths below are those of the
repository.

## The system and its parts

A program uses rawzip in one of two directions. A **writer** turns a sequence of
calls into bytes in a sink: local headers, data, data descriptors, and at the
end a central directory and an end record. A **reader** gets those bytes through
a slice or through `ReaderAt`, searches backward for the end record, and walks
the central directory that it points to. Nothing is shared between the two but the format;
threads meet only where several of them read through one `ReaderAt`
(`tests/it/concurrent_tests.rs`). Nothing is persisted but the archive.

| Part (source) | State it keeps | Operations | What makes it correct |
|---|---|---|---|
| `ZipArchiveWriter`, `ZipFileBuilder`, `ZipDirBuilder` (`writer.rs`) | `files`, flat `file_names` and `file_comments`, archive comment, `CountWriter` | `new_file().start()`, `new_dir().create()`, `set_comment`, `finish` | each listed entry is where the directory says and has its own name; sizes and offsets resolve at every threshold; failures in the middle do not disturb the rest |
| `ZipEntryWriter`, `ZipDataWriter` (`writer.rs`) | byte counters, CRC, the entry's header | `write`, `flush`, `finish`, drop | counters and CRC cover the same bytes; an entry is listed when its descriptor is written |
| Slice reader: `ZipLocator::locate_in_slice`, `ZipSliceArchive`, `ZipSliceEntries` (`locator.rs`, `archive.rs`) | directory bounds, base offset, position | `locate_in_slice`, `entries`, `next_entry`, `get_entry` | reads back what was written, also behind a stub |
| EOCD search: `rfind`, `find_end_of_central_dir` (`locator.rs`, `locator/reader.rs`) | window, end of the next chunk | one loop | finds what a search of the whole range would; ends |
| `ZipLocator::locate_in_reader` (`locator/reader.rs`) | the search buffer, used again unless `Marker` says a read was made | one function, called again in front of a false signature | agrees with the slice reader; a caller who searches on misses nothing and ends |
| `ZipEntries` (`archive/reader.rs`) | the caller's buffer, `pos`, `end`, `offset` | `next_entry` | lists the directory whatever the buffer and however short the reads |
| `MutexReader` (`reader_at.rs`) | a mutex and the position of the inner reader | `read_at` | reads are positional, the position comes back |
| `ReaderAt` helpers, `FileReader`, `RangeReader` (`reader_at.rs`) | position and end of a range | `read_exact_at`, `read_at_least_at`, `read` | loops end; a range is not left |
| `ZipEntry`, `ZipReader`, `ZipVerifier`, `ZipSliceVerifier` (`archive.rs`, `archive/reader.rs`) | CRC and size so far | `read`, `claim_verifier`, `data_descriptor` | the verdict does not depend on how the data is read |
| Extra fields (`extra_fields.rs`) | container with local and central sizes | `add_field`, `write_extra_fields`, iteration | sizes counted are sizes written |
| Paths (`path.rs`) | none | fast and slow normalization, `is_dir` | below the root; the two ways agree; files stay files |
| Time (`time.rs`) | none | conversions between Unix, NTFS, DOS and civil time | what is stored is what is read, as near as the format allows |
| ZipCrypto (`zipcrypto.rs`) | three key words | encrypt/decrypt streams | the stream does not depend on how it is cut |
| CRC-32 (`crc.rs`) | the running word | `update` | the result does not depend on the pieces |
| Records (`archive.rs`, `locator.rs`, `writer.rs`, `utils.rs`) | none | `write`, `parse`, `get_entry`, `local_header`, `data_descriptor` | what is written is parsed; slice and reader say the same of an entry |
| Mode bits (`mode.rs`) | none | `unix_permissions`, `mode` | permissions and file type survive |
| `examples/extract.rs` | ranges seen, entries counted, the file system | the loop over the entries | nothing comes out twice; what ends well is complete or reported |
| Errors, reexports; other examples, benchmarks, fuzz targets | none | formatting, calls of the above | no control of their own |

Hard to test here, and what the properties aim at: a call that fails half way
followed by more calls; the 16 and 32 bit limits, which the writer and the reader
each decide in several places; buffers that split a record or a signature at
any byte, with short reads; calls after an error; threads that share one
position; numbers whose width is decided by one side and guessed by the other. `PROJECT.json` lists each hazard at its line.

## The modules

```
ZipFormat <- ZipWriter <- ZipRoundTrip        DirectoryListing <- CdIterator
                 ^             ^                                      ^
        ZipWriterProofs <- ZipRoundTripProofs                  CdIteratorProofs

EocdSearch, ArchiveLocation <- ReaderLocation <- ReaderLocationProofs

PositionalRead <- MutexReader <- MutexReaderProofs        EntryReader <- EntryReaderProofs

WholeRead <- ReadLoop; MutexReader, ReadLoop <- MCReaderAt

DateTime, EntryMode, EntryPaths, Crc, ZipCrypto, Extraction <- MCEntryData
ExtraFields <- Records                                      <-
DateTime, EntryMode, Records <- EntryHeaderProofs <- EntryDataProofs
Crc, ZipCrypto, Extraction                        <-
```

`MC...` modules hold the small instances; each `.cfg` belongs to the module whose
name it begins with. Definitions marked *Mutant* are plausible bugs next to the
definition they would replace; no behaviour of the specification uses them.

### ZipFormat

The part of the format the two sides must agree on: sizes of fixed records, the
saturating fields, the words of the zip64 extra field (`FileHeader::finalize_extra_fields`),
the width of a data descriptor, and their inverses in `ZipFileHeaderRecord::from_parts`
and `has_zip64_sentinel`. Limits and sizes are constants, so that an archive of
some ten bytes crosses the limits that the real one has at 65535 and 2^32-1.

### ZipWriter

The writer as a state machine whose actions are the caller's calls. `mode` is
who may be called: Rust's borrow of the archive by an open entry is why there is
at most one entry and why no other call happens while it is open.

| Action | Code |
|---|---|
| `RejectPath`, `StartFails`, `StartFile` | `write_file_entry`: the path check, the errors after the name was appended, success |
| `CreateDir` | `write_dir_entry` |
| `Write` | `ZipDataWriter::write` through an encoder or directly into `ZipEntryWriter::write` |
| `FinishData`, `Epilogue` | `ZipDataWriter::finish`, and what the encoder writes afterwards |
| `FinishEntry`, `FinishEntryFails`, `DropEntry` | `ZipEntryWriter::finish`, and dropping it |
| `BeginFinish`, `FinishRefused`, `WriteCentral`, `WriteTail`, `FinishFails` | `ZipArchiveWriter::finish`: checks, one round of its loop, the end records |

Bytes are lengths, except those of names and comments: these are numbered by
the call that supplied them, so that a wrong slice shows. What the sink holds
is the set of records that begin at known positions. `Refuse` is a failed
`write_all`: some of the bytes arrive, and `CountWriter` counts them.

Abstractions: a CRC is the number of bytes it covers; an encoder passes on any
number of bytes at any time; an error of the extra field container while the
caller adds fields is left out, only the two totals remain.

### ZipRoundTrip

`ZipWriter` followed by the slice reader on the finished sink. `Open(s)` is
`locate_in_slice` on the archive behind a stub of `s` bytes the writer was not
told of, with the reader's correction for it; `EntriesEnd`, `NextEntry` and
`NextEntryFails` are the three ways `ZipSliceEntries::next_entry` ends. The
reader uses only the records in the sink. Data that happens to look like a
record is not modelled.

### DirectoryListing and CdIterator

`DirectoryListing` says what any iterator over a central directory promises.
`CdIterator` is `ZipEntries::next_entry` with its buffer, step by step: refill
for a header, parse, check of the variable part, refill for the variable part. A
byte of the file is its position, so the buffer holds positions, and a byte moved
or read to the wrong place shows. `read_at_least_at` is one step here (`ReadLoop` shows that
it may be): it returns any number of
bytes from the least that is asked to the room there is; when it fails it may
have overwritten part of the buffer, and the caller may call again. A
directory is any set of records, well-formed, truncated or followed by garbage.
`Listing` maps the one to the other: the abstract cursor is where the unread
bytes begin in the file.

### WholeRead and ReadLoop

`ReadLoop` is `read_exact_at`, `try_read_at_least_at` and `read_at_least_at`, one step for each
`read_at` of their loops: a round may bring fewer bytes than there are, none at the end of
the data, or an error. Interrupted reads are tried again inside `read_at` or count as errors.
`WholeRead` is what the callers take them for, one read of enough bytes or an error, and
`LoopIsOneRead` maps the one to the other: while the loop goes on its caller does not see the
buffer (`Seen`). It includes that every call is answered (`Answers`). It is why `CdIterator`, `ReaderLocation` and `Records` have such a
read as one step. `Eof` stands for the `UnexpectedEof` of `read_exact_at` as well.

### EocdSearch

`find_end_of_central_dir`: a window slides backward, each overlapping the previous by one byte less than the
signature. `rfind` is what it returns: the last signature that lies completely
in its haystack. Its SWAR lanes are not modelled.

### ArchiveLocation and ReaderLocation

`ArchiveLocation` is the location in a slice as a function of the file and the
signature found: `SliceFinds` says whether `locate_in_byte_slice` succeeds and
`SliceArchive` what it returns. A file is its length and which records can be
parsed at which positions. `ReaderLocation` is `locate_in_reader`, `EocdSearch`
followed by one action per record: end record, comment, zip64 locator, zip64
record, and the two looks for a first header. Each has the code's choice
between the bytes the search left in the buffer and a read; a read overwrites the
front of the buffer and sets `marked`. A byte is its position in the file,
so that a record taken from overwritten or wrong bytes is a different record.
`AgreesWithSlice` compares the two. Reads that fail are separate
actions, and those of the first header count as "no header", as in the code. `Retry` is the
caller whom the documentation of `ZipLocator` describes: on an error it
searches again in front of the reported position. `SlicePanics` is a
caller's buffer that the search accepts and `buffer[..46]` does not.

### EntryReader

One entry read by one caller, through `ZipSliceArchive` or `ZipArchive`:
`GetEntry` with its different checks in the two, then `RangeReader::read` under
`ZipVerifier::read` with buffers of any length, empty ones, short and failed
reads, and calls after an error or the end. The file may be cut and the wayfinder
wrong. A CRC is the sequence of bytes it covers. The entry is stored, a
decompressor in between would be another source of bytes.

### DateTime, EntryPaths, ExtraFields

What a header stores about an entry, each checked against a second definition.
`DateTime` is the arithmetic of `time.rs` on instants of days and seconds; the
reference is a calendar whose action is `Tomorrow`. `EntryPaths` is
`ZipFilePath::from_str`; its action types one more symbol, so that every text up
to a length is a state. `ExtraFields` is `ExtraFieldsContainer` byte by byte, with its stack
buffer that moves to the heap, the two ways of writing it, the fields that the
writer adds itself (`Start`, `Finish`), the iterator, and `BestTimestamp`, the time a
reader takes from it.

### Records

`ExtraFields` continued to whole records: every fixed record as `writer.rs` writes it
and as `archive.rs` and `locator.rs` parse it, each by a layout of its own (a
number is the sequence of its bytes, at full width), the zip64 field in local
and central headers, descriptors of each width with and without a signature.
A state is a file of one entry, written by rawzip, by a producer that writes no
signature, or by one that uses zip64 where it need not; its one action
`CutOff` takes bytes from the end. A number of eight bytes is compared at its full width but asked for
itself only below 2^24 (`AtMost`, `Value`), and so many bytes an entry has at most. `SliceView`, `ReaderBody`, `ReaderLocal` and
`ReaderDescriptor` are what `ZipSliceArchive` and `ZipArchive` make of it.

### Crc, EntryMode, ZipCrypto

`Crc` builds the tables of `crc.rs` and folds blocks of 32 bytes and the rest, on
pieces that arrive one by one; a word is the set of its bits, and the reference
divides bit by bit. `EntryMode` is the way of a mode from `unix_permissions` to
`mode()`, and what other producers store, again on sets of bits. `ZipCrypto` is
an `Encryptor` on a sink that may fail within any write and a `Decryptor` that is
read in pieces of any size. The keys are the bytes they were updated with; that
different histories give different keys is the abstraction, and the
arithmetic of the three words is left out.

### Extraction

`examples/extract.rs`, one step for each entry. What the library answers is
chosen: a path that is refused, an entry that cannot be opened, data that is
not sound; so is what the file system refuses. `Positions` is what
`binary_search_by_key` may return, every index if starts are equal.
`files` is what was made of each path and by which entry.

The parts of this and the last three sections share no state: `MCEntryData`
checks them in one run, in which a constant variable `part` says which one moves.

### PositionalRead and MutexReader

`PositionalRead` is what `ReaderAt::read_at` promises to threads: an atomic
answer for the offset asked. `MutexReader` is its emulation with seek,
read and seek under a mutex, each a step of its own. Failures and panics of the
inner reader may happen in each; a panic poisons the mutex and the `unwrap` of
the next `lock` panics too. The standard library (mutex, poisoning, the inner
reader) is external.

## What is checked

| Run | Shows | Bounds |
|---|---|---|
| `calls` | `EntriesReadable`, `ListedIffComplete`, `DataAccounted`, `TextKeepsPace` (the slices of names and comments that `finish()` takes are in bounds whatever failed; each is the entry's own unless some call before that entry left bytes in the same buffer and is not listed: refused, failed in `finish()` or dropped): every order of calls, with a sink that fails anywhere | three calls out of nine kinds, each way a call can end among them; writes of up to two bytes. Three calls put a failed one before, between and after good ones |
| `names` (violated) | names go wrong after a failed `start()` | two calls |
| `reads` | `DirectoryResolves`: what is written resolves to the true sizes, offsets, counts, and nothing is written of a directory with a field that does not fit (`RefusedWhole`); `ReadsBack`: the reader yields what was written, with and without a stub; `SilentOnlyByCompression`: the one exception | three entries; the 32-bit limit is 16 and writes are 15 to 17, so every size and offset falls below, at and above it; the 16-bit limit is 3 entries; stubs of 0 and 2 bytes |
| `silent` (violated) | that exception happens | as `reads` |
| `lists` | `ListsDirectory`, `BufferSound` (no slice out of range, the unread bytes contiguous), `NoSpuriousError`, `StopsNearEnd`; the caller's loop `Terminates` | headers of 2 bytes and variable parts of 0 to 3, up to three records, buffers of 1 to 7: shorter than a header to longer than two records |
| `big`, `end` (violated) | a buffer of the documented size is too small; the last record is lost | as `lists` |
| `locates` | `LocationSound` (`AgreesWithSlice`, and no slice out of range), `FindsLast`, `RetriesMissNothing`, `RetriesEnd` | signature of 2, records of 3, 4, 8 and 9 bytes in the order of the real ones; windows of 18 and 22; buffers of 1 to 26, so that each record is cut or not; every end of the search, two search spaces; a stub of 0 or 2, no or one header, no, sound, lost or misplaced zip64 records; no comment, a whole one, a cut one, a long one, or one with a false signature in it |
| `entry` | `OnlyVerified`, `SoundIsRead`, `RangeSound` (the range and only it is read), `RejectionStands`, `ReadingEnds` | up to three bytes of data over two values, headers with a name of 0 or 1 byte, sizes below, at, above the real one and near the greatest offset, buffers of 0 to 3 |
| `data` | times: `TimesSurvive`, `DosNearest`; paths: `PathSound` (below the root; files stay files and directories directories), `FastIsSlow`; extra fields: `FieldsAsAsked`, `OwnTimeWins`; `CrcOfPieces`; records: `WrittenIsParsed`, `ViewsAgree`; `PermissionsSurvive`; `DecryptsWritten`; extraction: `RangesDisjoint`, `ExtractedOrReported` | 25 years at the borders of leap years, of the 400-year cycle, of DOS, NTFS, 31 and 32 bit time, each day at five times; all 65536 DOS words; all paths of up to seven symbols of `/ \ : .` and a letter; up to three fields of twenty kinds added before the headers are written, a stack of 2 fields and 15 bytes, a limit of 80 bytes that the writer's own fields can cross; two pieces of 0, 1, 31, 32, 33 bytes, so that blocks begin and end everywhere around a cut; sizes, offsets and counts on both sides of 2^16-1 and 2^32-1 in every combination, files cut at every byte, buffers below, at and above a local header's length; all file types with all special bits and three sets of permissions; headers of 2 bytes, chunks of 2, writes of up to 4, bodies of 5; three entries whose ranges lie apart, crosswise, inside, or on top of each other. About 340 000 states in two minutes |
| `sockets` (violated) | a directory gets the file type of a socket | as `data` |
| `shared` | threads: `ReadsPositionally`, `SharedSound` (the position comes back, one thread inside), `PoisonStops`; `LockGoesRound`; loops: `LoopIsOneRead` | two threads; reads in the middle, across and behind the end of three bytes; short reads, errors and panics in every inner call. Four bytes for the loops; buffers of 0 to 3, 0 to 4 bytes asked for, at offsets 0 to 5, and the bytes in every way they can come in pieces |

Deadlock checking is off because every one of these programs may stop: the
archive is finished, the iteration is over, the location or the entry has its answer, or all
threads have died. Each checked property has a mutant in `PROJECT.json` that
violates it.

### Fairness

`CdIterator` has weak fairness of `Next`: a loop of the caller that calls again
after every record and waits for nobody. `ReaderLocation` has weak fairness of
`Calls`: one function runs to its end, and its caller searches on until there is
an archive or nothing left to search; reads need not ever fail. `EntryReader` has
weak fairness of `ReadOn`, a caller who reads with buffers of at least a byte until it is told
the end or an error; nothing is assumed of failures or of empty buffers in between.
`MutexReader` has weak fairness for each thread that
holds the lock, which the operating system schedules, and for "some waiting
thread gets a free lock", which is all that `std::sync::Mutex` gives: a given
thread may wait for ever, and `LockGoesRound` does not claim otherwise: while
a thread waits, again and again it gets its turn or somebody is inside. `ReadLoop` has weak fairness of `Step`: a thread in the loop
goes on with it; no read has to fail, and nobody has to call again. The
other specifications state no fairness: an application may stop at any call.

## What is proved

For all values of the constants that satisfy the modules' assumptions (sizes
positive, offsets natural numbers, two signatures do not overlap, and so on). Where a
property is not inductive, the invariant that carries it is named.

- **ZipWriterProofs.** `TypeCorrect`; `ListedCanBeRead`, `ListedWhenComplete` and
  `SizesAgree` (`EntriesReadable`, `ListedIffComplete`, `DataAccounted`), for any
  number of calls and any failures of the sink. They say nothing of an entry that
  is still open, so they are not
  inductive: `EntriesInv` adds `OpenAt` (the open entry is the last call, its
  header is in the sink and its data ends exactly where the sink does, its
  counters and its CRC agree), that the two positions `sink` and `count` are
  equal after partial writes too, and that every record belongs to a call made
  (`Known`), which keeps a later call from changing what an earlier record
  means. `finish()` keeps all of it because `Finalized` changes no field
  but the size of the extra fields.
  `TextCorrect` (`TextKeepsPace`): the code stores no offsets of names and comments
  but adds up lengths as it writes the directory. `TextInv` gives the offsets:
  there are sequences `at` and `to` (`TextsAt`) by which the flat texts fall into
  one piece after the other, each of one entry, and the cursors of `finish()`
  stand on the next of them. `Holds` says that such a piece is the entry's own text if all
  that was appended before it belongs to listed entries (`AllListed`). The numbers of the calls ascend in both
  buffers, so what a later call leaves behind never concerns an entry before it. After a refused
  `start()`, a failed `finish()` of an entry or a dropped entry the theorem still gives the bounds
  of every slice and the texts of the entries before, and nothing of the texts behind: these do
  go wrong (`names`).
- **ZipRoundTripProofs.** `DirectoryCorrect` (`DirectoryResolves`): at all limits, the
  saturated fields, the zip64 words, the widths of the descriptors and the end records
  resolve to the true numbers, or the archive is refused. `DirectoryInv` follows the
  directory while it is written: the headers lie one behind the other (`Laid`), all data lies in
  front of them (`DataInFront`: an archive that ends below the limit has no offset or
  compressed size above it), and the end records stand behind the last (`Tailed`).
  `ReaderOnlyReads`: the writer followed by the reader refines the writer, so that all of this
  holds of the two together. `SilentCorrect` and `RoundTrip`
  (`SilentOnlyByCompression`, `ReadsBack`): an archive of any length that is `Readable`
  is read back to the last entry, whatever the stub in front of it. `ReaderInv`
  says where the reader stands: what was yielded is the beginning of the list,
  and the position is that of the next header (`OnItsWay`).
- **CdIteratorProofs.** `IteratorLists`: `Spec => ListsDirectory`, for every
  buffer length, directory and pattern of reads. The inductive invariant is `IteratorInv`.
  `Contiguous` alone is not inductive: the variable part is read after the
  header has left the buffer, so `Located` records that the header stood right in
  front of the unread bytes, and `ParseReady` that a refill got a whole header.
  From it follow `IteratorSafe` (no slice out of range, with `InBounds`'
  relation between the variable part and the room), `IteratorEnds` (with
  `Answered`: where `end` or `BufferTooSmall` was answered it will be answered
  again) and `IteratorTrusts` (with `OnRecord`: on a well-formed
  directory the cursor is always on a record or at the end).
- **ReaderLocationProofs.** `SearchFindsLast`: the search finds the last signature in
  range. `SearchInv` contains `Ahead`: every signature in range ends before the
  end of the next window, which needs the overlap, and that windows are as long as a
  signature. `SearchProgress`: `Shrinks`. On top of it, for `locate_in_reader` and
  a caller who searches on: `EverySearchFindsLast`; `LocatesLikeSlice`
  (`LocationSound`: the reader and the slice agree on every file, however the
  windows cut its records and whatever is read again); `NothingMissed`
  (`RetriesMissNothing`). In `RLInv`, `BufferHolds` says which bytes of the
  file the buffer holds as long as `marked` does not say otherwise, and `Progress`
  what is known at each step: the records read so far are those that the
  slice would take. `Behind` adds for the caller that no signature
  already passed belongs to an archive. The last two theorems have the premise
  `RecordsApart`: no zip64 record begins before the end record and reaches into it. It
  holds for every file a writer makes (and is evaluated on the instance that `locates` checks), and cannot be
  dropped: of such a file the slice takes the record, while the reader answers an error if its window
  ends within the record.
- **MutexReaderProofs.** `SharedReadsArePositional`, `PositionIsKept`,
  `NoAnswerAfterPanic`, for any number of threads. `ThreadInv` says of each thread
  that it is inside exactly while it has the lock, that the position is the
  requested one when it reads, and that the position it will restore is the
  original one unless an inner call failed before.
- **EntryReaderProofs.** `DataVerified`, `RangeKept`, `RejectedForGood` and
  `SoundEntriesRead`, for every file, claim, buffer and pattern of short and failed
  reads. `OnlyVerified` alone is not inductive: `Tracks` says that the verifier has
  counted and covered exactly the bytes between the entry's data offset and the
  position of the range, and `Doomed` that claims which were once rejected
  cannot become true, because either more bytes than claimed were counted or
  nothing more can come.
- **EntryHeaderProofs.** `ModesKept` (`PermissionsSurvive`), with `ModeInv`, which says of
  which bits the upper half of the attributes is made. `TimesKept` and `DosKept` (`TimesSurvive`,
  `DosNearest`), for all years of 16 bits, all seconds and all words. `DateInv` is that
  the date the calendar shows exists, and that the code's day number of
  it is the number of the day; what makes it inductive is that `DaysFromCivil` steps
  by one at the end of each month and year. The way back (`FromUnix`) is
  the era, the year of the era, for which `YearOfEra` needs a bound on each side, and the month
  whose five months have 153 days.
  `FieldsCorrect` (`FieldsAsAsked`), for any number of fields of any content. `FieldsInv` says
  of the container that its bytes are those of its fields one behind the other, each with
  its place (`Holds`: on the stack and on the heap alike), that the two sizes are those of the fields for
  each header, and of each header written that it has the fields then added (`Fulfils`).
  `ParseOfAll` and `ParseOfPrefix` say that the iterator gives back fields that were laid one behind the
  other, and of a cut header those in front of the cut. `TimeCorrect` (`OwnTimeWins`)
  follows with `BestBeforeEnd`: the time of the last field counts, or of the last but one when the last, the
  zip64 field, holds none.
  `ViewsCorrect` (`ViewsAgree`), for entries of any producer, with names, comments and extra fields up to
  their limits and less than 2^24 bytes of data (`Writable`), cut off anywhere. `ViewsInv` says
  that the file is bytes, at most 2^26 (`Longest`), and that the two words the directory gives are eight
  bytes each, whatever their values; that is all the argument needs to know about what was
  written, and `FileIs` and `WayfinderIs` show it of the first state. A word is only compared (`AtMostCompares`), and `NoOverflow`
  excludes that a sum the reader checks overflows for an entry that lies in the
  file. The slice parses from all that follows, the reader from 30 bytes and from 24: `SameHeader` and `DescriptorOfFront`
  show that it makes no difference, the latter for both widths, with and without signature,
  and for a file that ends earlier.
  `WrittenCorrect` (`WrittenIsParsed`), for the same entries, whose sizes, offsets and counts are any
  words of eight bytes. `WrittenInv` adds that a file of which nothing was cut off is the one written. `Stands`
  says where in a sequence some bytes lie: a record that is joined piece by piece
  (`Ends`, `FourPieces`, `FilePieces`) has each piece where the lengths before it say, `PutIs` and
  `ReadBack` do the same for the fixed layouts, and `LeReads` says that the header has the lengths. The
  zip64 field the writer adds is the first (`FirstIsBody`), since the caller's fields
  are whole and none of them is one; its words lie behind each other for the numbers
  that left `U32` in the header (`WordsAt`, `InlineSays`), which are those the reader counts
  (`NumbersResolved`). A descriptor tells its width by its record (`AnnouncedIs`) and its signature by its first
  bytes, unless it has none and its CRC is that signature (`Ambiguous`).
  Recursive definitions over fields, pieces and bytes need induction over data. The library's
  induction theorems take an
  operator as a parameter, which cannot be instantiated here, but its `WFMin` takes a set:
  `StepByStep` shows with a least counterexample that a set contains 0..N, and `Recursion`
  builds the function of which `StepByStep` then says what the recursive definition computes.
  `ExtraFields` is written with recursive functions and not with the folds of the community modules, which take
  operators as parameters; of the one fold left, `FlattenSeq`, `FlattenJoins` says what it does.
- **EntryDataProofs.** `CipherReads` (`DecryptsWritten`): in `CipherInv`, the
  sink holds the header and the body, each byte with the keys that the bytes before
  it leave, up to the first failed write (`SinkHolds`: afterwards the keys are ahead
  of the sink), and a reader with the right password has the keys of its position
  (`ReaderInStep`). `ChecksumOfPieces` (`CrcOfPieces`), for data of any
  length and any pieces: the division of a byte is linear (`DivideByteLinear`) and only shifts a word whose
  low byte is zero, so the first table takes a word a byte further (`WithTable`) and each
  table a byte further than the one before (`TablesArePowers`); `SixteenBytes` has as its
  invariant which of the sixteen tables' words have been joined and what of
  the running word still waits in the next bytes; `FoldDivides` and
  `DividedInPieces` put blocks, rest and pieces together.
  `NothingTwice`: `RangesDisjoint` for every directory of any
  length. The code compares a range with its two neighbours in the list only, which
  suffices because the list is `Ordered`: sorted, and its ranges side by side.
  `NeighboursSuffice` is that argument, and `InsertKeepsOrder` that an
  insertion at a fitting place keeps it. `Covered` ties the list to the entries
  that were unpacked. Ranges may be empty and starts equal. `NothingLeftOut`
  (`ExtractedOrReported`): the property speaks of the end only; `AllInPlace` says it of
  every moment before, and `MadeLater` that a later entry leaves an earlier one in
  place or takes its place.

Only model-checked:

- Liveness (`Terminates`, `RetriesEnd`, `ReadingEnds`, `LockGoesRound`, and that of `LoopIsOneRead`): liveness under
  fairness and ENABLED are beyond TLAPS here, although
  `Shrinks` is the variant of the argument for the search.
- The rest of `LoopIsOneRead`: a loop of a few lines, checked on all its small cases.
- `PathSound`, `FastIsSlow` of `EntryPaths`: definitions on texts, for which the
  inductions are not carried out.

## Where code and documentation disagree

1. `names`: `start()` and `create()` append the name to `file_names` before their
   last checks. After such an error the names of all later entries are shifted in the
   central directory, although the documentation presents the error as a validation.
   The same happens after an entry that was dropped or whose `finish()` failed. Entries
   before it keep their names (`TextKeepsPace`).
2. `silent`: an entry of 2^32-1 or more bytes that compresses below the limit gets zip64
   end records without any saturated field in the end record. The reader then
   takes them for a part of the directory, and iteration ends in an error.
3. `big`: `ZipEntries` can answer `BufferTooSmall` with a buffer of
   `MAX_CENTRAL_DIRECTORY_RECORD_SIZE`, contrary to its documentation.
4. `end`: `ZipEntries` does not yield a last record that consists of a
   fixed header only.
5. `sockets`: `mode()` joins `S_IFDIR` with |= to a mode that already has `S_IFREG`, so that
   a directory made by `new_dir` without permissions, or with 0o755 as in its documentation,
   has the file type of a socket.

Met while modelling, without a run of their own because the documentation is silent or
only a word says otherwise: an extra field added for `Header::LOCAL & Header::CENTRAL`, which is
no header, is written with the others when those are for one header only, and the
length in that header does not count it (`Stray`, which `FieldsAsAsked` excepts); `ZipFilePath::from_str(".")` stays `.`, though `.` is said to be
resolved (`path.rs:47`), which is why `FastIsSlow` excepts it; a modification time of
2^32 seconds or more is stored modulo 2^32 and preferred by a reader to the right
date in the DOS words, which is why `StoredTimesSurvive` (a part of `TimesSurvive`) ends there;
`locate_in_reader` panics with a buffer of 22 to 45 bytes, if it gets as far as the
first header (`SlicePanics`).

## Plan

Done, in this order: the writer, the round trip, the buffered iterator, the search, the
shared reader, location in a reader, reading an entry, what a header stores
(times, paths, extra fields), then records byte by byte with both views of an
entry, checksums, modes, the cipher, and extraction; with proofs of all state
machines, and of the arithmetic of times, modes and checksums. Next:

1. Proofs: the paths, with the lemmas on induction that the extra fields use.
2. `get_entry` joined to `ZipRoundTrip`: a copy of an archive through `claim_verifier`.
3. The lanes of `rfind` against its definition, and the UTF-8 flag of names.
4. Extra: `ZipSliceEntries` on damaged directories, against `DirectoryListing`.

## Not modelled

- Decoding of UTF-8 in names and the flag for it, fractions of seconds, and the formatting
  of times, names and errors: conversions without control.
- The lanes of `rfind`, which is modelled by what it returns.
- The arithmetic of ZipCrypto's key words, decompressors and encoders: data.
- `FileReader`, which passes calls on; the other examples, the benchmarks and the fuzz
  targets, which call what is modelled and decide nothing themselves.
- Record signatures inside file data, except for the comment in `ReaderLocation`:
  a location that takes data for a record is right by its own rules.
