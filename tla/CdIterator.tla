----------------------------- MODULE CdIterator -----------------------------
(***************************************************************************)
(* ZipEntries (archive/reader.rs): the iterator that reads the central     *)
(* directory through a caller's buffer.                                    *)
(*                                                                         *)
(* A byte of the file is modelled by its position, so the buffer holds     *)
(* positions (Junk before anything was read): a slip in moving or reading  *)
(* bytes shows as a position at the wrong place.  A header parses when the *)
(* Fixed bytes at hand are the first Fixed bytes of a record.              *)
(***************************************************************************)
EXTENDS Integers, Sequences

CONSTANTS
  Fixed,        (* ZipFileHeaderFixed::SIZE                                *)
  Directories,  (* what the directory may be: see DirectoryListing         *)
  Buffers,      (* lengths the caller's buffer may have                    *)
  MaxVariable,  (* the most a record's variable part can be (3 * 65535)    *)
  IoFaults      (* may a read fail?                                        *)

ASSUME IteratorAssumption ==
  /\ Fixed \in Nat \ {0} /\ MaxVariable \in Nat
  /\ Buffers \subseteq Nat
  /\ IoFaults \in BOOLEAN
  /\ \A d \in Directories :
       /\ d.end \in Nat
       /\ DOMAIN d.variable \subseteq Nat
       /\ \A h \in DOMAIN d.variable : d.variable[h] \in 0..MaxVariable

VARIABLES
  directory,  (* the central directory, from directory_offset on           *)
  len,        (* buffer.len()                                              *)
  buffer,     (* the caller's buffer                                       *)
  pos, end,   (* the unread part of the buffer                             *)
  offset,     (* position of the next byte to read from the file           *)
  pc,         (* where next_entry is: see Init                             *)
  current,    (* the record whose header was parsed                        *)
  answer,     (* what the last call returned                               *)
  yielded,    (* history: the records returned                             *)
  error       (* history: the first error returned, or NoError             *)

history == <<yielded, error>>
vars == <<directory, len, buffer, pos, end, offset, pc, current, answer, history>>

Junk == -1
NoError == "none"

Init ==
  /\ directory \in Directories /\ len \in Buffers
  /\ buffer = [i \in 0..(len - 1) |-> Junk]
  /\ pos = 0 /\ end = 0 /\ offset = 0
  /\ pc = "idle"         \* then "parse" a header, read its "variable" part
  /\ current = 0
  /\ answer = "none" /\ yielded = <<>> /\ error = NoError

Least(a, b) == IF a <= b THEN a ELSE b

-----------------------------------------------------------------------------
(* The buffer.                                                             *)

Remaining == end - pos

\* Mutant: the bytes about to be moved are not made room for.
RoomBehind == Least(directory.end - offset, len - end)

\* max_read of both refills: the rest of the directory, or of the buffer.
Room == Least(directory.end - offset, len - Remaining)

\* Mutant: the unread bytes are not moved to the front.
ReadOver(n) ==
  [i \in DOMAIN buffer |-> IF i >= Remaining /\ i < Remaining + n
                           THEN offset + (i - Remaining) ELSE buffer[i]]

\* Mutant: the buffer is cut to what it holds.
RefilledCut(n) ==
  [i \in 0..(Remaining + n - 1) |->
     IF i < Remaining THEN buffer[pos + i] ELSE offset + (i - Remaining)]

\* The buffer after copy_within(pos..end, 0) and a read of n bytes behind it.
Refilled(n) ==
  [i \in DOMAIN buffer |->
     IF i < Remaining THEN buffer[pos + i]
     ELSE IF i < Remaining + n THEN offset + (i - Remaining)
     ELSE buffer[i]]

Return(a) == answer' = a /\ pc' = "idle"

Error(a) ==
  /\ Return(a)
  /\ error' = IF error = NoError THEN a ELSE error
  /\ UNCHANGED yielded

\* read_at_least_at fills between size and Room bytes: reads may be short.
ReadAtLeast(size) ==
  /\ size <= Room
  /\ \E n \in size..Room :
       /\ buffer' = Refilled(n)
       /\ offset' = offset + n /\ pos' = 0 /\ end' = Remaining + n

\* Mutant: when no more bytes come, the read is tried again (for ever).
ReadFailsOnIoOnly(size) ==
  /\ size <= Room /\ IoFaults
  /\ \E n \in 0..(size - 1) : buffer' = Refilled(n)
  /\ Error("Io")
  /\ UNCHANGED <<pos, end, offset, current>>

\* It fails: at once, or after some reads put fewer than size bytes into the
\* buffer.  pos, end and offset keep their values, the buffer does not.
ReadFails(size) ==
  /\ \/ /\ size > Room
        /\ buffer' = Refilled(0)
        /\ Error("BufferTooSmall")
     \/ /\ size <= Room /\ IoFaults
        /\ \E n \in 0..(size - 1) : buffer' = Refilled(n)
        /\ Error("Io")
  /\ UNCHANGED <<pos, end, offset, current>>

-----------------------------------------------------------------------------
(* next_entry, step by step.                                               *)

NeedsHeader == pos + Fixed >= end

Exhausted == offset >= directory.end

\* Ok(None)
CallEnds ==
  /\ pc = "idle" /\ NeedsHeader /\ Exhausted
  /\ Return("end")
  /\ UNCHANGED <<directory, len, buffer, pos, end, offset, current, history>>

Refill ==
  /\ pc = "idle" /\ NeedsHeader /\ ~Exhausted
  /\ \/ ReadAtLeast(Fixed) /\ pc' = "parse" /\ UNCHANGED <<current, answer, history>>
     \/ ReadFails(Fixed)
  /\ UNCHANGED <<directory, len>>

Parsing == pc = "parse" \/ (pc = "idle" /\ ~NeedsHeader)

\* The record whose header stands at the front of the unread bytes.
HeaderIs(h) ==
  /\ h \in DOMAIN directory.variable
  /\ Remaining >= Fixed
  /\ \A i \in 0..(Fixed - 1) : buffer[pos + i] = h + i

ParseFails ==
  /\ Parsing
  /\ \A h \in DOMAIN directory.variable : ~HeaderIs(h)
  /\ Error(IF Remaining < Fixed THEN "Eof" ELSE "InvalidSignature")
  /\ UNCHANGED <<directory, len, buffer, pos, end, offset, current>>

\* Ok(Some(record)); at is the position behind its fixed part.
Yield(h, at) ==
  /\ pos' = at + directory.variable[h]
  /\ yielded' = Append(yielded, h)
  /\ Return("record")
  /\ UNCHANGED error

\* Mutants: bytes not yet read are not counted on; the check is missing.
BeyondBuffered(h) == directory.variable[h] > Remaining - Fixed
NeverBeyond(h) == FALSE

\* Behind the fixed part, the directory has too few bytes for the rest.
BeyondDirectory(h) ==
  directory.variable[h] > (Remaining - Fixed) + (directory.end - offset)

ParseHeader(h) ==
  /\ Parsing /\ HeaderIs(h)
  /\ current' = h
  /\ \/ /\ pos + Fixed + directory.variable[h] <= end
        /\ Yield(h, pos + Fixed)
     \/ /\ pos + Fixed + directory.variable[h] > end
        /\ pos' = pos + Fixed
        /\ \/ directory.variable[h] > len /\ Error("BufferTooSmall")
           \/ directory.variable[h] <= len /\ BeyondDirectory(h) /\ Error("Eof")
           \/ /\ directory.variable[h] <= len /\ ~BeyondDirectory(h)
              /\ pc' = "variable" /\ UNCHANGED <<answer, history>>
  /\ UNCHANGED <<directory, len, buffer, end, offset>>

\* The variable part is completed and the record returned.
ReadVariable ==
  LET missing == directory.variable[current] - Remaining
  IN  /\ pc = "variable"
      /\ \/ /\ missing <= Room
            /\ \E n \in missing..Room :
                 /\ buffer' = Refilled(n)
                 /\ offset' = offset + n /\ end' = Remaining + n
            /\ Yield(current, 0)
            /\ UNCHANGED current
         \/ ReadFails(missing)
      /\ UNCHANGED <<directory, len>>

Step ==
  \/ Refill
  \/ ParseFails
  \/ \E h \in DOMAIN directory.variable : ParseHeader(h)
  \/ ReadVariable

Next == CallEnds \/ Step

Spec == Init /\ [][Next]_vars

\* A caller that iterates to the end: it calls again after every record.
FairSpec == Spec /\ WF_vars(Next)

-----------------------------------------------------------------------------
(* Properties.                                                             *)

Errors == {"Io", "Eof", "BufferTooSmall", "InvalidSignature"}

Answers == {"none", "record", "end"} \cup Errors

Failed == error # NoError

TypeOK ==
  /\ directory \in Directories /\ len \in Buffers
  /\ buffer \in [0..(len - 1) -> Nat \cup {Junk}]
  /\ pos \in Nat /\ end \in Nat /\ offset \in Nat /\ current \in Nat
  /\ pc \in {"idle", "parse", "variable"}
  /\ answer \in Answers
  /\ yielded \in Seq(Nat) /\ error \in Errors \cup {NoError}

(***************************************************************************)
(* No slice of next_entry is out of range and no subtraction underflows,   *)
(* whatever the caller does after an error: the unread part stays within   *)
(* the buffer and the file is read no further than the directory.  When    *)
(* the variable part is read, buffer and directory both have room for it   *)
(* ("variable length precheck failed" cannot panic).                       *)
(***************************************************************************)
InBounds ==
  /\ pos <= end /\ end <= len /\ offset <= directory.end
  /\ pc = "variable" =>
       /\ current \in DOMAIN directory.variable
       /\ Remaining < directory.variable[current]
       /\ directory.variable[current] - Remaining <= Room

(***************************************************************************)
(* As long as no call failed, the unread part of the buffer is the piece   *)
(* of the file that ends at offset: no byte is lost, repeated or stale     *)
(* after any sequence of moves and short reads.                            *)
(***************************************************************************)
Contiguous ==
  ~Failed => \A i \in pos..(end - 1) : buffer[i] = offset - (end - i)

(***************************************************************************)
(* Both together, and the types: next_entry can neither panic nor look at  *)
(* bytes that are not the ones it is about.                                *)
(***************************************************************************)
BufferSound == TypeOK /\ InBounds /\ Contiguous

\* Every record ends where the next begins, and the last at the end.
WellFormed(d) ==
  /\ 0 \in DOMAIN d.variable \cup {d.end}
  /\ \A h \in DOMAIN d.variable :
       /\ h + Fixed + d.variable[h] \in DOMAIN d.variable \cup {d.end}
       /\ h + Fixed + d.variable[h] <= d.end

(***************************************************************************)
(* A well-formed directory is never reported as malformed: with short      *)
(* reads, and with buffers that split headers and variable parts anywhere, *)
(* the first error can only be the reader's own or about the buffer.       *)
(***************************************************************************)
NoSpuriousError ==
  WellFormed(directory) => error \notin {"Eof", "InvalidSignature"}

(***************************************************************************)
(* A buffer of two headers that also holds any variable part is too small  *)
(* only when a header needs a refill with less than a header of the        *)
(* directory left in the file.                                             *)
(***************************************************************************)
TooSmallOnlyNearEnd ==
  answer = "BufferTooSmall" /\ len >= 2 * Fixed /\ len >= MaxVariable =>
    directory.end - offset \in 1..(Fixed - 1)

(***************************************************************************)
(* What the code documents: "A buffer of this size guarantees              *)
(* BufferTooSmall can never occur" (MAX_CENTRAL_DIRECTORY_RECORD_SIZE).    *)
(***************************************************************************)
BigBufferSuffices ==
  len >= Fixed + MaxVariable => answer # "BufferTooSmall"

\* Where the next record is expected, between calls and within one.
Cursor ==
  IF pc = "variable" THEN current ELSE offset - Remaining

(***************************************************************************)
(* What the code documents: each call yields the next entry "if there is   *)
(* any".  ZipSliceEntries says so of the same directory.                   *)
(***************************************************************************)
EndOnlyAtEnd ==
  answer = "end" /\ ~Failed => \A h \in DOMAIN directory.variable :
    h = Cursor => h + Fixed + directory.variable[h] > directory.end

(***************************************************************************)
(* The iterator implements DirectoryListing: up to the first error it      *)
(* returns the records of the directory in their order, without omission   *)
(* or repetition.                                                          *)
(***************************************************************************)
Listing == INSTANCE DirectoryListing WITH cursor <- Cursor, failed <- Failed,
                                        Slack <- Fixed

ListsDirectory == Listing!Spec

(***************************************************************************)
(* And it reports the end only where at most a header is left.  (For       *)
(* ZipSliceEntries nothing may be left.)                                   *)
(***************************************************************************)
EndsNearEnd == answer = "end" /\ ~Failed => Listing!AtEnd

(***************************************************************************)
(* The two answers by which the iterator stops on a well-formed directory  *)
(* with a large enough buffer and a sound reader are given near its end.   *)
(***************************************************************************)
StopsNearEnd == EndsNearEnd /\ TooSmallOnlyNearEnd

(***************************************************************************)
(* A caller's loop over the entries comes to an end.                       *)
(***************************************************************************)
Terminates == <>(answer \notin {"none", "record"})

=============================================================================
