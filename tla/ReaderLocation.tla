--------------------------- MODULE ReaderLocation ---------------------------
(***************************************************************************)
(* ZipLocator::locate_in_reader (locator/reader.rs): after the search the  *)
(* records in front of and behind the signature are taken from the bytes   *)
(* that the search left in the buffer, as long as these are enough and no  *)
(* read has overwritten them (Marker), else they are read.                 *)
(*                                                                         *)
(* A byte in the buffer is its position in the file, so that a record      *)
(* taken from the wrong or from overwritten bytes shows.                   *)
(***************************************************************************)
EXTENDS EocdSearch, ArchiveLocation

VARIABLES
  file,      (* the file                                                   *)
  room,      (* length of the caller's buffer; the search uses len of it   *)
  buffer,    (* its bytes                                                  *)
  marked,    (* Marker.marked                                              *)
  step,      (* what comes next                                            *)
  eocd,      (* the end of central directory that was parsed               *)
  have,      (* bytes behind it that are at hand                           *)
  locator,   (* the offset the zip64 locator announces                     *)
  archive,   (* the archive                                                *)
  answer,    (* how the call ended                                         *)
  first_end, (* history: end_offset of the first call                      *)
  faulted    (* history: did a read fail?                                  *)

callVars == <<buffer, marked, eocd, have, locator, archive>>
rlVars == <<vars, file, room, callVars, step, answer, first_end, faulted>>

(***************************************************************************)
(* P K 5 6: no part at its beginning is one at its end, so two of them do  *)
(* not overlap.                                                            *)
(***************************************************************************)
ASSUME SignatureAssumption ==
  \A f \in Archives : \A p, q \in DOMAIN f.ends : p < q => p + Sig <= q

(***************************************************************************)
(* No zip64 record begins before the end of central directory and reaches  *)
(* into it.  A file may be made so; the slice then takes the record, and   *)
(* the reader too, except when its window ends inside the record.          *)
(***************************************************************************)
RecordsApart ==
  \A f \in Archives : \A at \in DOMAIN f.ends, p \in DOMAIN f.records64 :
    p <= at => p + Eocd64Size <= at

Unknown == -1

Blank == [i \in 0..(room - 1) |-> Unknown]

NoEnd == [cd_offset |-> 0, cd_size |-> 0, comment_len |-> 0, sentinel |-> FALSE]

RLInit ==
  /\ Init
  /\ file \in Archives /\ signatures = DOMAIN file.ends
  /\ end_offset <= file.size
  /\ room \in Buffers /\ len = Least(room, MaxWindow)
  /\ state = "refused" <=> room < Sig
  /\ buffer = Blank
  /\ marked = FALSE /\ step = "search"
  /\ eocd = NoEnd /\ have = 0 /\ locator = 0 /\ archive = Plain(0, NoEnd)
  /\ answer = "none" /\ first_end = end_offset /\ faulted = FALSE

\* What a call leaves alone whatever it does.
Fixed == UNCHANGED <<vars, file, room, first_end>>

\* The buffer after n bytes from position p were read to its beginning.
Filled(n, p) == [i \in DOMAIN buffer |-> IF i < n THEN p + i ELSE buffer[i]]

\* Bytes of the file from position p on.
Available(p) == SaturatingSub(file.size, p)

\* The position of the n bytes of a record at index i of buffer b.
Whole(b, i, n) == \A k \in 0..(n - 1) : b[i + k] = b[i] + k

\* An error of the call behind the search carries the position found there.
Error ==
  /\ answer' = "error" /\ step' = "done"
  /\ UNCHANGED <<callVars, faulted>> /\ Fixed

\* An error of a read that is passed on.
ReadError ==
  /\ IoFaults
  /\ answer' = "error" /\ step' = "done" /\ faulted' = TRUE
  /\ UNCHANGED callVars /\ Fixed

-----------------------------------------------------------------------------
(* The end of central directory record and its comment.                    *)

SearchStep ==
  /\ step = "search"
  /\ Search
  /\ UNCHANGED <<file, room, callVars, step, answer, first_end, faulted>>

SearchFault ==
  /\ step = "search"
  /\ ReadFails
  /\ faulted' = TRUE
  /\ UNCHANGED <<file, room, callVars, step, answer, first_end>>

NotFound ==
  /\ step = "search" /\ state \in {"none", "io", "refused"}
  /\ answer' = IF state = "io" THEN "io" ELSE "missing"
  /\ step' = "done"
  /\ UNCHANGED <<callVars, faulted>> /\ Fixed

Found ==
  /\ step = "search" /\ state = "found"
  /\ buffer' = Filled(found.valid, found.at - found.index)
  /\ step' = "eocd"
  /\ UNCHANGED <<marked, eocd, have, locator, archive, answer, faulted>> /\ Fixed

InWindow == found.valid - found.index >= EocdSize

ParseEocd ==
  /\ step = "eocd" /\ InWindow
  /\ eocd' = file.ends[buffer[found.index]]
  /\ have' = found.valid - found.index - EocdSize
  /\ step' = "comment"
  /\ UNCHANGED <<buffer, marked, locator, archive, answer, faulted>> /\ Fixed

\* The record crosses the end of the window: read_at_least_at.
RereadEocd ==
  /\ step = "eocd" /\ ~InWindow
  /\ EocdSize <= room /\ EocdSize <= Available(found.at)
  /\ \E n \in EocdSize..Least(room, Available(found.at)) :
       /\ buffer' = Filled(n, found.at)
       /\ have' = n - EocdSize
  /\ eocd' = file.ends[buffer'[0]]
  /\ marked' = TRUE
  /\ step' = "comment"
  /\ UNCHANGED <<locator, archive, answer, faulted>> /\ Fixed

RereadFails ==
  /\ step = "eocd" /\ ~InWindow
  /\ ~(EocdSize <= room /\ EocdSize <= Available(found.at))
  /\ Error

CommentAtHand == eocd.comment_len <= have

\* Mutant: the byte behind the comment is asked for.
CommentReadableBehind == found.at + EocdSize + eocd.comment_len < file.size

\* The last byte of the comment can be read.
CommentReadable == found.at + EocdSize + eocd.comment_len <= file.size

\* EndOfCentralDirectory::create or create_zip64
Create(a) ==
  IF Valid(a) THEN archive' = a /\ step' = "check" /\ UNCHANGED answer
              ELSE answer' = "error" /\ step' = "done" /\ UNCHANGED archive

AfterComment ==
  IF eocd.sentinel /\ LocatorSize <= found.at
  THEN step' = "locator" /\ UNCHANGED <<archive, answer>>
  ELSE Create(Plain(found.at, eocd))

Comment ==
  /\ step = "comment"
  /\ CommentAtHand \/ CommentReadable
  /\ marked' = (marked \/ ~CommentAtHand)
  /\ AfterComment
  /\ UNCHANGED <<buffer, eocd, have, locator, faulted>> /\ Fixed

CommentCut ==
  /\ step = "comment" /\ ~CommentAtHand /\ ~CommentReadable
  /\ Error

-----------------------------------------------------------------------------
(* The zip64 records.                                                      *)

\* Mutant: the buffer is used although a read has overwritten it.
LocatorInBufferUnmarked == LocatorSize <= found.index

LocatorInBuffer == ~marked /\ LocatorSize <= found.index

\* What follows from the bytes at index i of buffer b.
UseLocator(b, i) ==
  IF Whole(b, i, LocatorSize) /\ b[i] \in DOMAIN file.locators
  THEN /\ locator' = file.locators[b[i]] /\ step' = "record"
       /\ UNCHANGED <<archive, answer>>
  ELSE Create(Plain(found.at, eocd)) /\ UNCHANGED locator

Locator ==
  /\ step = "locator"
  /\ IF LocatorInBuffer
     THEN /\ UseLocator(buffer, found.index - LocatorSize)
          /\ UNCHANGED <<buffer, marked>>
     ELSE /\ buffer' = Filled(LocatorSize, found.at - LocatorSize)
          /\ marked' = TRUE
          /\ UseLocator(buffer', 0)
  /\ UNCHANGED <<eocd, have, faulted>> /\ Fixed

RecordInBuffer ==
  ~marked /\ locator <= found.at /\ found.at - locator <= found.index

\* What follows from the bytes of buffer b from index i up to index j.
UseRecord(b, i, j) ==
  IF /\ i + Eocd64Size <= j /\ Whole(b, i, Eocd64Size)
     /\ b[i] \in DOMAIN file.records64
  THEN Create(WithZip64(found.at, locator, file.records64[b[i]]))
  ELSE answer' = "error" /\ step' = "done" /\ UNCHANGED archive

\* try_read_at_least_at: as much as is asked, less only at the end of the
\* file or of the buffer, and no more than fits.
RecordReads ==
  LET enough == Least(Least(Eocd64Size, room), Available(locator))
  IN  enough..Least(room, Available(locator))

Record ==
  /\ step = "record"
  /\ IF RecordInBuffer
     THEN /\ UseRecord(buffer, found.index - (found.at - locator), found.valid)
          /\ UNCHANGED <<buffer, marked>>
     ELSE \E n \in RecordReads :
            /\ buffer' = Filled(n, locator)
            /\ marked' = (marked \/ n > 0)
            /\ UseRecord(buffer', 0, n)
  /\ UNCHANGED <<eocd, have, locator, faulted>> /\ Fixed

-----------------------------------------------------------------------------
(* The first header.  Errors of these reads count as "no header"; the      *)
(* buffer is not used again, so what they leave in it is not modelled.     *)

\* &mut buffer[..ZipFileHeaderFixed::SIZE] out of range.
SlicePanics ==
  /\ step = "check" /\ room < CentralSize
  /\ answer' = "panic" /\ step' = "done"
  /\ UNCHANGED <<callVars, faulted>> /\ Fixed

\* Does a read at p deliver a header?
Sees(p, there) ==
  \/ there = HasCentral(file, p) /\ UNCHANGED faulted
  \/ IoFaults /\ there = FALSE /\ faulted' = TRUE

CheckFirst ==
  /\ step = "check" /\ room >= CentralSize
  /\ \E there \in BOOLEAN :
       /\ Sees(archive.offset, there)
       /\ IF there \/ archive.zip64
          THEN answer' = "ok" /\ step' = "done"
          ELSE step' = "guess" /\ UNCHANGED answer
  /\ UNCHANGED callVars /\ Fixed

Moved(guess) ==
  [archive EXCEPT !.offset = guess, !.base = SaturatingSub(guess, archive.offset)]

CheckGuess ==
  /\ step = "guess"
  /\ \E there \in BOOLEAN :
       /\ Sees(GuessedOffset(archive), there)
       /\ archive' = IF there THEN Moved(GuessedOffset(archive)) ELSE archive
  /\ answer' = "ok" /\ step' = "done"
  /\ UNCHANGED <<buffer, marked, eocd, have, locator>> /\ Fixed

\* A read fails while the records are read.
ReadFault ==
  /\ \/ step = "eocd" /\ ~InWindow /\ EocdSize <= room
     \/ step = "comment" /\ ~CommentAtHand
     \/ step = "locator" /\ ~LocatorInBuffer
     \/ step = "record" /\ ~RecordInBuffer
  /\ ReadError

(***************************************************************************)
(* The caller searches on in front of what turned out not to be an         *)
(* archive, from the position the error reports (see ZipLocator).  With    *)
(* max_back = 0 the search space was no bound and is none now.             *)
(***************************************************************************)
Retry ==
  /\ step = "done" /\ answer = "error"
  /\ end_offset' = found.at
  /\ max_back' = SaturatingSub(found.at, end_offset - max_back)
  /\ chunk_end' = found.at /\ window' = Least(InitWindow, len)
  /\ state' = "searching" /\ found' = Nothing
  /\ buffer' = Blank /\ marked' = FALSE
  /\ eocd' = NoEnd /\ have' = 0 /\ locator' = 0 /\ archive' = Plain(0, NoEnd)
  /\ step' = "search" /\ answer' = "none"
  /\ UNCHANGED <<signatures, len, file, room, first_end, faulted>>

Calls ==
  \/ SearchStep \/ NotFound \/ Found
  \/ ParseEocd \/ RereadEocd \/ RereadFails
  \/ Comment \/ CommentCut
  \/ Locator \/ Record
  \/ SlicePanics \/ CheckFirst \/ CheckGuess
  \/ Retry

RLNext == Calls \/ SearchFault \/ ReadFault

RLSpec == RLInit /\ [][RLNext]_rlVars

\* One call is a sequential program, and this caller goes on until it has an
\* archive or nothing is left to search; reads need not ever fail.
RLFairSpec == RLSpec /\ WF_rlVars(Calls)

-----------------------------------------------------------------------------
(* Properties.                                                             *)

LocatedArchive ==
  [offset : Nat, size : Nat, head : Nat, tail : Nat, base : Nat, zip64 : BOOLEAN]

RLTypeOK ==
  /\ TypeOK /\ TupleFits
  /\ signatures = DOMAIN file.ends /\ room \in Nat
  /\ buffer \in [0..(room - 1) -> Nat \cup {Unknown}]
  /\ marked \in BOOLEAN /\ faulted \in BOOLEAN
  /\ step \in {"search", "eocd", "comment", "locator", "record", "check",
               "guess", "done"}
  /\ answer \in {"none", "missing", "io", "error", "ok", "panic"}
  /\ eocd \in End /\ have \in Nat /\ locator \in Nat
  /\ archive \in LocatedArchive
  /\ first_end \in Nat

\* There are no zip64 records, and nothing lies in front of the archive or
\* between its directory and its end.
Adjacent == ~HasLocator(file, found.at) /\ GuessedOffset(archive) = eocd.cd_offset

LocatesAsSlice ==
  answer = "ok" =>
    /\ SliceFinds(file, found.at)
    /\ ~faulted \/ Adjacent => archive = SliceArchive(file, found.at)

ErrsAsSlice ==
  answer = "error" /\ ~faulted /\ room >= Eocd64Size => ~SliceFinds(file, found.at)

(***************************************************************************)
(* The reader finds the archive the slice finds, wherever the windows of   *)
(* the search cut the records and however much is read again: what it      *)
(* answers is what locate_in_byte_slice makes of the same signature, with  *)
(* any buffer; and with a buffer for each of the records it answers an     *)
(* error only where the slice does.  A read that fails while the first     *)
(* header is looked for may hide the correction for a stub, but an archive *)
(* without a gap, a stub or zip64 records is found as it is.               *)
(***************************************************************************)
AgreesWithSlice == LocatesAsSlice /\ ErrsAsSlice

(***************************************************************************)
(* That, and the types: what the search hands over lies in the buffer.     *)
(***************************************************************************)
LocationSound == RLTypeOK /\ AgreesWithSlice

(***************************************************************************)
(* "One can reparse the data starting from the false EOCD offset using the *)
(* reported offset" (ZipLocator): a caller who does so is told that no     *)
(* archive is there only if none ends in what was searched.                *)
(***************************************************************************)
RetriesMissNothing ==
  answer = "missing" /\ state = "none" /\ ~faulted /\ room >= Eocd64Size =>
    \A p \in signatures :
      max_back <= p /\ p + Sig <= first_end => ~SliceFinds(file, p)

(***************************************************************************)
(* Such a caller comes to an end.                                          *)
(***************************************************************************)
RetriesEnd == <>(step = "done" /\ answer # "error")

=============================================================================
